\* Both paths, two slots, three batches, up to three job changes; copies land in order.
SPECIFICATION FairSpec
CONSTANTS
  Job = {j1, j2}
  NoJob = NoJob
  RingSize = 2
  Paths = {"CppSearch", "TritonNorotl"}
  OrderedCopies = TRUE
  MaxLoads = 3
  IterBound = 6
CHECK_DEADLOCK FALSE
INVARIANTS
  HitsProvable
  ExactlyTheHitsFound
PROPERTIES
  NoHostDeviceRace
  HitsFoundAreSent
