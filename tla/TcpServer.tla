------------------------------ MODULE TcpServer ------------------------------
(***************************************************************************)
(* TcpServer (net/TcpServer.cc) with its Acceptor (net/Acceptor.cc): the   *)
(* base loop accepts one connection per edge of the listening Channel      *)
(* (Channel::ReadEvent is EPOLLIN | EPOLLET), hands it to the next I/O    *)
(* loop of the EventLoopThreadPool, and keeps it in connections_ until the *)
(* connection's close callback has removed it; connectDestroyed is then   *)
(* queued on the connection's own loop.  Each loop runs its queued         *)
(* functors in order (EventLoop::queueInLoop); runInLoop from a loop's own *)
(* thread runs the functor at once.  The kernel side is a count of         *)
(* completed connections waiting in the listen backlog and the epoll       *)
(* ready flag of the listening fd.  A connection holds one fd from accept  *)
(* until it is destroyed; accept fails with EMFILE when MaxFds are held.   *)
(***************************************************************************)
EXTENDS Naturals, Sequences, FiniteSets, SequencesExt

CONSTANTS
  NumThreads,     \* setThreadNum: the I/O loops of the pool
  MaxConns,       \* bound on the connections clients open
  MaxFds,         \* descriptors left for connections (RLIMIT_NOFILE)
  MaxStartCalls   \* bound on calls of TcpServer::start

ASSUME NumThreads \in Nat /\ MaxConns \in Nat /\ MaxFds \in Nat
       /\ MaxStartCalls \in Nat \ {0}

BaseLoop == 0
Loops == 0..NumThreads
Conns == 1..MaxConns            \* next_conn_id_ starts at 1
States == {"none", "connecting", "connected", "disconnected", "destroyed"}
Ops == {"establish", "remove", "destroy"}

VARIABLES
  started,      \* started_
  listening,    \* Acceptor::listening_
  reading,      \* accept_channel_ registered for EPOLLIN | EPOLLET
  arrived,      \* connections clients have opened
  backlog,      \* completed connections not yet accepted
  edge,         \* the listening fd is on epoll's ready list
  fds,          \* descriptors held by TcpConnections
  nextConnId,   \* next_conn_id_
  next,         \* EventLoopThreadPool::next_
  state,        \* TcpConnection::state_ of each connection
  loopOf,       \* the loop each connection was given
  connections,  \* the keys of connections_
  pending,      \* pending_functors_ of each loop
  alive,        \* the TcpServer object exists
  destroys      \* history: connectDestroyed calls per connection

vars == <<started, listening, reading, arrived, backlog, edge, fds, nextConnId,
          next, state, loopOf, connections, pending, alive, destroys>>
-----------------------------------------------------------------------------
\* A loop thread runs while its loop does: the base loop's loop() has
\* returned when the TcpServer is destroyed; the I/O loops run until the
\* pool's EventLoopThreads quit them, after their pending functors.
Runs(l) == l # BaseLoop \/ alive

Functor(op, c) == [op |-> op, c |-> c]

\* TcpConnection::connectEstablished.
ConnectEstablished(c) == state' = [state EXCEPT ![c] = "connected"]

\* TcpConnection::connectDestroyed, then the functor's TcpConnectionPtr,
\* the last one, is released and ~Socket closes the fd.
ConnectDestroyed(c) ==
  /\ state' = [state EXCEPT ![c] = "destroyed"]
  /\ destroys' = [destroys EXCEPT ![c] = @ + 1]
  /\ fds' = fds - 1

\* Mutant of RemoveConnectionInLoop: connections_ is not erased.
RemoveKeepEntry(c, q) ==
  /\ UNCHANGED connections
  /\ pending' = [q EXCEPT ![loopOf[c]] = Append(@, Functor("destroy", c))]

\* Mutant of RemoveConnectionInLoop: connectDestroyed is never queued.
RemoveNoDestroy(c, q) ==
  /\ connections' = connections \ {c}
  /\ pending' = q

\* TcpServer::removeConnectionInLoop, given the functor queues q: erase
\* from connections_, then ioLoop->queueInLoop(connectDestroyed), deferred
\* even on its own loop.
RemoveConnectionInLoop(c, q) ==
  /\ connections' = connections \ {c}
  /\ pending' = [q EXCEPT ![loopOf[c]] = Append(@, Functor("destroy", c))]

\* Mutant of NextIndex: next_ is not wrapped to 0.
NextIndexNoWrap == IF NumThreads = 0 THEN next ELSE next + 1

\* EventLoopThreadPool::getNextLoop: the base loop without threads,
\* otherwise loops_[next_] and next_ wraps to 0.
NextLoop == IF NumThreads = 0 THEN BaseLoop ELSE next + 1
NextIndex == IF NumThreads = 0 THEN next ELSE (next + 1) % NumThreads

\* TcpServer::newConnection: a TcpConnection named by next_conn_id_ on
\* the next loop, stored in connections_, and
\* io_loop->runInLoop(connectEstablished).
NewConnection ==
  LET c == nextConnId
      io == NextLoop
  IN /\ nextConnId' = nextConnId + 1
     /\ next' = NextIndex
     /\ loopOf' = [loopOf EXCEPT ![c] = io]
     /\ connections' = connections \cup {c}
     /\ IF io = BaseLoop
        THEN ConnectEstablished(c) /\ UNCHANGED pending
        ELSE /\ state' = [state EXCEPT ![c] = "connecting"]
             /\ pending' = [pending EXCEPT ![io] = Append(@, Functor("establish", c))]
-----------------------------------------------------------------------------
Init ==
  /\ started = 0 /\ listening = FALSE /\ reading = FALSE
  /\ arrived = 0 /\ backlog = 0 /\ edge = FALSE /\ fds = 0
  /\ nextConnId = 1 /\ next = 0
  /\ state = [c \in Conns |-> "none"] /\ loopOf = [c \in Conns |-> BaseLoop]
  /\ connections = {} /\ pending = [l \in Loops |-> <<>>]
  /\ alive = TRUE /\ destroys = [c \in Conns |-> 0]

\* Acceptor::listen: listening_, listen(), enableReading.
Listen == listening' = TRUE /\ reading' = TRUE

\* ~Acceptor: disableAll and remove the Channel; ~Socket closes the
\* listening fd, and the kernel drops what waits in its backlog.
AcceptorDtor == listening' = FALSE /\ reading' = FALSE /\ backlog' = 0 /\ edge' = FALSE

\* TcpServer::start on the base loop's thread: the first call starts the
\* pool and runs Acceptor::listen at once (listening_, listen(),
\* enableReading); later calls only count.
Start ==
  /\ alive /\ started < MaxStartCalls
  /\ started' = started + 1
  /\ IF started = 0 THEN Listen
     ELSE UNCHANGED <<listening, reading>>
  /\ UNCHANGED <<arrived, backlog, edge, fds, nextConnId, next, state, loopOf,
                 connections, pending, alive, destroys>>

\* A client connects to the listening socket.  Each completed connection
\* wakes epoll, which puts the fd on the ready list (an edge).
Connect ==
  /\ listening /\ arrived < MaxConns
  /\ arrived' = arrived + 1
  /\ backlog' = backlog + 1
  /\ edge' = (edge \/ reading)
  /\ UNCHANGED <<started, listening, reading, fds, nextConnId, next, state, loopOf,
                 connections, pending, alive, destroys>>

\* epoll_wait reports the listening fd and Acceptor::handleRead accepts
\* once: a connection when one waits and a descriptor is free; otherwise
\* accept fails (EAGAIN, or EMFILE, which is only logged).
HandleRead ==
  /\ alive /\ edge
  /\ edge' = FALSE
  /\ IF backlog > 0 /\ fds < MaxFds
     THEN /\ backlog' = backlog - 1
          /\ fds' = fds + 1
          /\ NewConnection
     ELSE UNCHANGED <<backlog, fds, nextConnId, next, state, loopOf, connections, pending>>
  /\ UNCHANGED <<started, listening, reading, arrived, alive, destroys>>

\* The peer closes a connection; on its loop, TcpConnection::handleClose
\* sets Disconnected and calls close_callback_, TcpServer::removeConnection,
\* which does loop_->runInLoop(removeConnectionInLoop).  After ~TcpServer
\* the functor still reaches the base loop's queue, which no longer runs.
PeerClose(c) ==
  /\ state[c] = "connected" /\ Runs(loopOf[c])
  /\ state' = [state EXCEPT ![c] = "disconnected"]
  /\ IF loopOf[c] = BaseLoop
     THEN RemoveConnectionInLoop(c, pending)
     ELSE /\ pending' = [pending EXCEPT ![BaseLoop] = Append(@, Functor("remove", c))]
          /\ UNCHANGED connections
  /\ UNCHANGED <<started, listening, reading, arrived, backlog, edge, fds, nextConnId,
                 next, loopOf, alive, destroys>>

\* Loop l runs its oldest queued functor.
RunFunctor(l) ==
  /\ Runs(l) /\ pending[l] # <<>>
  /\ LET f == Head(pending[l]) IN
     CASE f.op = "establish" ->
            /\ ConnectEstablished(f.c)
            /\ pending' = [pending EXCEPT ![l] = Tail(@)]
            /\ UNCHANGED <<fds, connections, destroys>>
       [] f.op = "destroy" ->
            /\ ConnectDestroyed(f.c)
            /\ pending' = [pending EXCEPT ![l] = Tail(@)]
            /\ UNCHANGED connections
       [] f.op = "remove" ->
            /\ RemoveConnectionInLoop(f.c, [pending EXCEPT ![l] = Tail(@)])
            /\ UNCHANGED <<state, fds, destroys>>
  /\ UNCHANGED <<started, listening, reading, arrived, backlog, edge, nextConnId,
                 next, loopOf, alive>>

\* ~TcpServer, after the base loop's loop() has returned: every connection
\* of connections_ gets conn->getLoop()->runInLoop(connectDestroyed), at
\* once on the base loop (no threads) and queued on an I/O loop; then
\* ~Acceptor removes the listening Channel and closes its socket, which
\* drops the connections still in the backlog.
ServerDtor ==
  LET here == {c \in connections : loopOf[c] = BaseLoop}
      Queued(l) == [i \in 1..Cardinality({c \in connections : loopOf[c] = l}) |->
                      Functor("destroy", SetToSeq({c \in connections : loopOf[c] = l})[i])]
  IN
  /\ alive
  /\ alive' = FALSE
  /\ connections' = {}
  /\ state' = [c \in Conns |-> IF c \in here THEN "destroyed" ELSE state[c]]
  /\ destroys' = [c \in Conns |-> IF c \in here THEN destroys[c] + 1 ELSE destroys[c]]
  /\ fds' = fds - Cardinality(here)
  /\ pending' = [l \in Loops |-> IF l = BaseLoop THEN pending[l] ELSE pending[l] \o Queued(l)]
  /\ AcceptorDtor
  /\ UNCHANGED <<started, arrived, nextConnId, next, loopOf>>

Next ==
  \/ Start \/ Connect \/ HandleRead \/ ServerDtor
  \/ \E c \in Conns : PeerClose(c)
  \/ \E l \in Loops : RunFunctor(l)

\* While the TcpServer exists its loop threads keep polling and running
\* their functors.  Once ~TcpServer has run, its member thread_pool_ is
\* destroyed and quits the I/O loops (ServerTeardown models that), so no
\* progress of theirs is assumed here.  Clients, peers, start() and the
\* destructor are not required to act.
Fairness == WF_vars(HandleRead) /\ \A l \in Loops : WF_vars(alive /\ RunFunctor(l))

Spec == Init /\ [][Next]_vars /\ Fairness
-----------------------------------------------------------------------------
TypeOK ==
  /\ started \in 0..MaxStartCalls /\ listening \in BOOLEAN /\ reading \in BOOLEAN
  /\ arrived \in 0..MaxConns /\ backlog \in 0..MaxConns /\ edge \in BOOLEAN
  /\ fds \in 0..MaxFds /\ nextConnId \in 1..(MaxConns + 1)
  /\ next \in 0..(IF NumThreads = 0 THEN 0 ELSE NumThreads - 1)
  /\ state \in [Conns -> States] /\ loopOf \in [Conns -> Loops]
  /\ connections \subseteq Conns /\ alive \in BOOLEAN
  /\ pending \in [Loops -> Seq([op : Ops, c : Conns])]
  /\ destroys \in [Conns -> Nat]

(* connections_ only holds connections that are not destroyed, and        *)
(* connectDestroyed runs at most once per connection: removeConnection-    *)
(* InLoop erases the entry before it queues connectDestroyed, so the       *)
(* destructor, which walks connections_, never destroys one again.         *)
DestroyedOnce ==
  /\ \A c \in connections : state[c] # "destroyed"
  /\ \A c \in Conns : destroys[c] <= 1

(* Every connection the peer closed is destroyed and its fd closed while  *)
(* the server lives: handleClose -> removeConnection on the I/O loop ->    *)
(* removeConnectionInLoop on the base loop -> connectDestroyed queued back *)
(* on the connection's loop.  What ~TcpServer leaves to the stopping I/O   *)
(* loops is ServerDtorReclaims, which ServerTeardown checks.               *)
ConnectionsReclaimed ==
  \A c \in Conns : state[c] = "disconnected" ~> (state[c] = "destroyed" \/ ~alive)

(* After ~TcpServer every connection it still held is eventually         *)
(* destroyed: connectDestroyed runs on the connection's own loop, which    *)
(* for one still Connected delivers the "down" connection callback and     *)
(* removes its Channel (spec sections 4.5 and 9).                          *)
ServerDtorReclaims ==
  \A c \in Conns :
    (~alive /\ state[c] \in {"connecting", "connected", "disconnected"})
      ~> state[c] = "destroyed"

(* Spec section 4.6: a burst of pending connections is drained over       *)
(* successive events of the listening socket, and descriptor exhaustion   *)
(* is transient: every connection waiting in the backlog is eventually    *)
(* accepted while the server lives (Acceptor::handleRead accepts one per  *)
(* edge-triggered event and only logs EMFILE).                            *)
AcceptDrains == backlog > 0 ~> (backlog = 0 \/ ~alive)
=============================================================================
