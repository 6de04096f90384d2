SPECIFICATION FairSpec
CONSTANTS
  c1 = c1
  c2 = c2
  c3 = c3
  n1 = n1
  n2 = n2
  Cpus = {c1, c2, c3}
  Owner = c1
  Nodes = {n1, n2}
  NULL = NULL
  PerCpu = 2
INVARIANTS
  ListIsWhole
  DequeueFindsANode
PROPERTIES
  ImplementsFifo
  MessagesAreHandled
