\* One I/O loop, three clients, two descriptors; the server destroyed at
\* any point, then the pool's thread quits its loop.
CONSTANTS
  NumThreads = 1
  MaxConns = 3
  MaxFds = 2
  MaxStartCalls = 1

SPECIFICATION TeardownSpec
PROPERTY ServerDtorReclaims
CHECK_DEADLOCK FALSE
