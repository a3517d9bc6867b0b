SPECIFICATION Spec
CONSTANTS
  Requests = {r1, r2, r3}
  Limits = {1, 2}
  MaxChunks = 1
  Control = 1
  MaxControl = 1
  Faults = {"unrenderable", "cancellation"}
SYMMETRY RequestSymmetry
INVARIANTS
  TypeOK
  SlotFollowsTheRequest
  UpstreamCoveredBySlot
  StreamsRecordedOnce
