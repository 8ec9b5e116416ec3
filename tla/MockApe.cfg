CONSTANTS
  Thread = {r1, r2}
  Call = {publish, shell, wipe, other, bad}
  Token = {t1, t2}
  MaxPending = 1
  Ttl = 1
  MaxTime = 3
  publish = publish
  shell = shell
  wipe = wipe
  other = other
  bad = bad
  Traits <- MCTraits
  NoToken = NoToken
  NoPending = NoPending
  NoGrant = NoGrant
SPECIFICATION Spec
SYMMETRY Symmetry
INVARIANTS
  TypeOK
  OneShot
  AllowIsApproved
  PendingCapped
  PendingIsAnswerable
PROPERTY RefusedOnlyWhenFull
CHECK_DEADLOCK FALSE
