\* One EventLoopThread whose thread locks mutex_ before the constructor
\* has constructed it.
SPECIFICATION Spec
CONSTANTS
  NumThreads = 1
  HasCallback = FALSE
  MaxGets = 0
PROPERTY StartReturns
CHECK_DEADLOCK FALSE
