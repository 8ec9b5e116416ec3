CONSTANTS
  Capacity = 4
  Rate = 2
  Cost = {1, 3, 4, 5}
  MaxTime = 5
SPECIFICATION Spec
INVARIANTS
  NeverOverspends
PROPERTY DenialIsEarned
