CONSTANTS
  Worker = {w1}
  MaxEdits = 2
  MaxResets = 0
SPECIFICATION Spec
INVARIANT CannotSoften
