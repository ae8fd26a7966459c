\* One I/O loop, three clients and two descriptors, so that a burst finds
\* the fd limit (EMFILE) and the connections share the I/O loop; start()
\* called twice; the server may be destroyed with connections open.  The
\* server may stop with every client served: deadlock is not checked.
SPECIFICATION Spec
CONSTANTS
  NumThreads = 1
  MaxConns = 3
  MaxFds = 2
  MaxStartCalls = 2
INVARIANT TypeOK
INVARIANT DestroyedOnce
PROPERTY ConnectionsReclaimed
CHECK_DEADLOCK FALSE
