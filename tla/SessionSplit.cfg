CONSTANTS
  Worker = {w1, w2}
  Call = {rm, rf}
  Window = 2
  MaxCalls = 2
  rm = rm
  rf = rf
  glued = glued
  prose = prose
  post = post
  note = note
  child = child
  Near <- MCNear
  Rule <- MCRule
  Left <- MCLeft
  Right <- MCRight
  Glued <- MCGlued
  Wipe <- MCWipe
  SecretRead <- MCSecretRead
  Outbound <- MCOutbound
  Bypass <- MCBypass
SYMMETRY Symmetry
SPECIFICATION Spec
INVARIANT SplitNeverPasses
CHECK_DEADLOCK FALSE
