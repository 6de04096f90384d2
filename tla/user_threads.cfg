SPECIFICATION FairSpec
CONSTANTS
  None = None
  result <- MCResult
  N = 4
  num_pthreads = 2
  num_of_threads = 2
  MaxBlocks = 6
  ExitTask = ExitTask
CHECK_DEADLOCK FALSE
INVARIANTS
  OneRunner
  FreedAreUnused
PROPERTIES
  ForkJoinUnlessStray
  Finishes
