SPECIFICATION FairSpec
CONSTANTS
  None = None
  result <- MCResult
  N = 4
  numberOfThreads = 4
PROPERTIES
  Finishes
