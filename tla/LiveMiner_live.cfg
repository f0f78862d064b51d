\* Two workers, one batch each, two templates, fair threads.
SPECIFICATION FairSpec
CONSTANTS
  g1 = g1
  g2 = g2
  p1 = p1
  p2 = p2
  Worker = {g1, g2}
  Device = {g1, g2}
  DeviceOf <- TwoGpus
  Prev = {p1, p2}
  NoPrev = NoPrev
  NoHit = NoHit
  RingSize = 1
  MaxIters = 1
  MaxTemplates = 2
  IterBound = 1
PROPERTIES
  HitsAreSettled
  Termination
