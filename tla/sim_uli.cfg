SPECIFICATION FairSpec
CONSTANTS
  p1 = p1
  p2 = p2
  Kernel = Kernel
  None = None
  Program = {p1, p2}
  Models = {"simple", "o3"}
  MaxMessages = 3
  Preempted = TRUE
CHECK_DEADLOCK FALSE
INVARIANTS
  ServedInOrder
PROPERTIES
  RestoresUnlessNested
  StartedUnlessStranded
