CONSTANTS
  Worker = {w1}
  Call = {publish}
  Session = {s1}
  Token = {t1, t2}
  RequireAgentId = FALSE
  FloodMax = 1
  Ttl = 1
  MaxTime = 2
  MaxRestarts = 0
  env = env
  post = post
  publish = publish
  s1 = s1
  SecretReads <- MCSecretReads
  OutboundCalls <- MCOutboundCalls
  RuleOf <- MCRuleOf
  SessionOf <- MCSessionOf
  HintsOf <- MCHintsOf
  Anonymous <- MCAnonymous
  NoToken = NoToken
  ApeToken = ApeToken
  NoPending = NoPending
  NoGrant = NoGrant
  ApeGrant = ApeGrant
SPECIFICATION TSpec
PROPERTY GrantsExpire
