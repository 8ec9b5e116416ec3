CONSTANTS
  Worker = {w1, w2}
  Call = {post, glued, prose, note, child}
  Window = 2
  MaxCalls = 4
  rm = rm
  rf = rf
  glued = glued
  prose = prose
  post = post
  note = note
  child = child
  Near <- MCNear
  Rule <- MCRule
  Left <- MCLeft
  Right <- MCRight
  Glued <- MCGlued
  Wipe <- MCWipe
  SecretRead <- MCSecretRead
  Outbound <- MCOutbound
  Bypass <- MCBypass
SYMMETRY Symmetry
SPECIFICATION Spec
INVARIANTS
  TypeOK
  SecondHalfDenied
  NoOutboundAfterSecret
  LockoutEnds
CHECK_DEADLOCK FALSE
