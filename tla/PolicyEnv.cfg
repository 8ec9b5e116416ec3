CONSTANTS
  Worker = {w1, w2}
  MaxEdits = 2
  MaxResets = 1
SPECIFICATION Spec
SYMMETRY Symmetry
INVARIANTS
  TypeOK
  OneAnswer
  OperatorsSeeTheSoften
PROPERTY NoLateLookupFails
