CONSTANTS
  numberOfThreads = 3
  MaxSeeds = 4
SPECIFICATION Spec
CHECK_DEADLOCK FALSE
PROPERTIES
  WorkDoubledOnlyByReuse
  WorkLostOnlyByReuse
  SeedsStrayOnlyByLeaving
