SPECIFICATION FairSpec
CONSTANTS
  Requests = {r1, r2}
  Limits = {1, 2}
  MaxChunks = 2
  Control = 1
  MaxControl = 2
  Faults = {"cancellation"}
INVARIANTS
  PoolIsNotTheLimit
PROPERTIES
  KeepsAdmissionProtocol
  ReturnsEverySlot
  UpstreamIsClosed
