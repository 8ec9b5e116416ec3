CONSTANTS
  Sha = {a, b}
  MaxLines = 5
  NoSha = NoSha
  BadSha = BadSha
SPECIFICATION Spec
SYMMETRY Symmetry
INVARIANTS
  AllowIsSaid
  LastFailRefuses
CHECK_DEADLOCK FALSE
