\* A pool of two EventLoopThreads with an init callback: start(), four
\* getNextLoop() calls, then the pool's destructor.  When both loop threads
\* have ended and the destructor has returned, the model stops.
SPECIFICATION Spec
CONSTANTS
  NumThreads = 2
  HasCallback = TRUE
  MaxGets = 4
INVARIANT TypeOK StartLoopReturnsLoop RoundRobin
CHECK_DEADLOCK FALSE
