SPECIFICATION Spec
CONSTANTS
  Requests = {r1, r2, r3, r4}
  Limits = {2}
  MaxChunks = 0
  Control = 1
  MaxControl = 0
  Faults = {"unrenderable"}
SYMMETRY RequestSymmetry
INVARIANTS
  CapsUpstreamRequests

