\* Two workers, two batches each, one template.
SPECIFICATION Spec
CONSTANTS
  g1 = g1
  g2 = g2
  p1 = p1
  p2 = p2
  Worker = {g1, g2}
  Device = {g1, g2}
  DeviceOf <- TwoGpus
  Prev = {p1, p2}
  NoPrev = NoPrev
  NoHit = NoHit
  RingSize = 1
  MaxIters = 2
  MaxTemplates = 1
  IterBound = 3
INVARIANTS
  NoHitLost
  SentOnce
  DrainedOnExit
  CountersHonest
PROPERTIES
  ServiceSpec
  NoRepeatedWork
SYMMETRY Symmetry
