\* One EventLoopThread with an init callback, read by the thread before
\* callback_ is constructed.
SPECIFICATION Spec
CONSTANTS
  NumThreads = 1
  HasCallback = TRUE
  MaxGets = 0
INVARIANT CallbackBeforeStart
CHECK_DEADLOCK FALSE
