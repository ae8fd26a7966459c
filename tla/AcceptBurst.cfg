\* Spec section 4.6: connections that wait in the backlog are drained over
\* later events.  Two clients connect before the base loop polls, or the
\* second finds the fd limit; no further client connects.
SPECIFICATION Spec
CONSTANTS
  NumThreads = 1
  MaxConns = 2
  MaxFds = 1
  MaxStartCalls = 1
PROPERTY AcceptDrains
CHECK_DEADLOCK FALSE
