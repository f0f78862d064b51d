\* One worker, two batches of two slots, three templates over two tips.
SPECIFICATION Spec
CONSTANTS
  g1 = g1
  g2 = g2
  p1 = p1
  p2 = p2
  Worker = {g1}
  Device = {g1, g2}
  DeviceOf <- OneGpu
  Prev = {p1, p2}
  NoPrev = NoPrev
  NoHit = NoHit
  RingSize = 2
  MaxIters = 3
  MaxTemplates = 3
  IterBound = 4
INVARIANTS
  TypeOK
  JobWhenMining
  HitsBoundToJob
  StaleWorkBounded
  SuccessMeansQuota
PROPERTIES
  NoRepeatedWork
SYMMETRY Symmetry
