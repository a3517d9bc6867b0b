SPECIFICATION Spec
CONSTANTS
  Requests = {r1, r2}
  Limits = {1}
  MaxChunks = 1
  Control = 1
  MaxControl = 0
  Faults = {}
SYMMETRY RequestSymmetry
INVARIANTS
  EveryRequestObserved

