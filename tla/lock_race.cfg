CONSTANTS
  c1 = c1
  c2 = c2
  c3 = c3
  Cpus = {c1, c2, c3}
  None = None
  Iters = 1
SPECIFICATION Spec
SYMMETRY Symmetry
INVARIANTS
  WaitersFormQueue
