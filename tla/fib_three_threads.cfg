SPECIFICATION FairSpec
CONSTANTS
  None = None
  result <- MCResult
  N = 5
  numberOfThreads = 3
INVARIANTS
  LockDiscipline
  FramesDoNotCollide
  OwnersReleaseLast
  IdleThreadsHaveNoSeeds
  MainResumesLast
  ResultVerified
PROPERTIES
  ImplementsForkJoin
  Finishes
