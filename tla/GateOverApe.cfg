CONSTANTS
  Worker = {w1, w2}
  Call = {publish, query}
  Session = {s1}
  Token = {t1}
  RequireAgentId = FALSE
  FloodMax = 2
  Ttl = 1
  MaxTime = 0
  MaxRestarts = 1
  Handler = {r1, r2}
  Remote = {a1}
  MaxPending = 1
  ApeTtl = 1
  publish = publish
  query = query
  s1 = s1
  SessionOf <- MCSessionOf
  HintsOf <- MCHintsOf
  Traits <- MCTraits
  Anonymous = {}
  NoToken = NoToken
  ApeToken = ApeToken
  NoPending = NoPending
  NoGrant = NoGrant
  ApeGrant = ApeGrant
  NoHandler = NoHandler
  NoRemotePending = NoRemotePending
  NoRemoteGrant = NoRemoteGrant
SPECIFICATION CSpec
SYMMETRY Symmetry
INVARIANTS
  LinkTypeOK
  EveryAllowHasItsYes
CHECK_DEADLOCK FALSE
