\* The pool is destroyed right after start(): a loop thread that has
\* published loop_ but not yet entered loop() resets quit_.
SPECIFICATION Spec
CONSTANTS
  NumThreads = 1
  HasCallback = FALSE
  MaxGets = 0
PROPERTY DestructorReturns
CHECK_DEADLOCK FALSE
