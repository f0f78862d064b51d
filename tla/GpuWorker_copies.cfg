\* The copies of a new job may land after the kernels enqueued behind them.
SPECIFICATION Spec
CONSTANTS
  Job = {j1, j2}
  NoJob = NoJob
  RingSize = 1
  Paths = {"CppSearch"}
  OrderedCopies = FALSE
  MaxLoads = 2
  IterBound = 3
CHECK_DEADLOCK FALSE
INVARIANT
  KeyIsTheOneHashed
