SPECIFICATION Spec
CONSTANTS
  num_pthreads = 2
  n = 2
  NULL = NULL
  exit_task = exit_task
  MaxTasks = 6
CHECK_DEADLOCK FALSE
PROPERTIES
  ImplementsBuffer
  NobodyRunsAtExit
