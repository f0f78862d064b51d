\* Two workers, a ring of two slots.
SPECIFICATION Spec
CONSTANTS
  Workers = {1, 2}
  Early = {2}
  Failing = {1}
  Paths = {"CppSearch", "TritonNorotl"}
  Capability <- DeviceKinds
  RingSize = 2
  MaxBatches = 2
CHECK_DEADLOCK FALSE
INVARIANTS
  TypeOK
  ContextLast
  RunningWorkKeepsItsBuffers
  CaptureDisturbsNobody
  AllReleased
  NewestPtx
