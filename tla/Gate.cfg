CONSTANTS
  Worker = {w1, w2}
  Call = {env, post}
  Session = {s1}
  Token = {t1, t2}
  RequireAgentId = TRUE
  FloodMax = 1
  Ttl = 1
  MaxTime = 2
  MaxRestarts = 1
  env = env
  post = post
  publish = publish
  s1 = s1
  SecretReads <- MCSecretReads
  OutboundCalls <- MCOutboundCalls
  RuleOf <- MCRuleOf
  SessionOf <- MCSessionOf
  HintsOf <- MCHintsOf
  Anonymous <- MCAnonymous
  NoToken = NoToken
  ApeToken = ApeToken
  NoPending = NoPending
  NoGrant = NoGrant
  ApeGrant = ApeGrant
SPECIFICATION TSpec
SYMMETRY Symmetry
INVARIANTS
  TypeOK
  OneShot
  AllowIsFounded
  TokenOnlyWithAsk
  PendingCapped
  AskCapped
PROPERTY ImplementsApproval
CHECK_DEADLOCK FALSE
