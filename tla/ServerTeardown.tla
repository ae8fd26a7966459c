---------------------------- MODULE ServerTeardown ----------------------------
(***************************************************************************)
(* The end of a TcpServer's I/O loops, added to the TcpServer model.       *)
(* ~TcpServer queues connectDestroyed on each connection's loop; then its  *)
(* member thread_pool_ goes, and each ~EventLoopThread calls quit() on its *)
(* loop and joins the thread.                                              *)
(*                                                                         *)
(* An I/O loop runs EventLoop::loop(): while (!quit_) { poll; dispatch;    *)
(* doPendingFunctors(); }.  doPendingFunctors swaps the whole queue out    *)
(* and runs that batch; what is queued meanwhile waits for the next        *)
(* iteration, which does not come once quit_ is set.  The queue is then    *)
(* destroyed with the EventLoop at the end of threadFunc, and with it the  *)
(* TcpConnectionPtr the dropped functors hold.                             *)
(***************************************************************************)
EXTENDS TcpServer

IoLoops == 1..NumThreads

VARIABLES
  quit,      \* EventLoop::quit_ of each I/O loop
  exited,    \* loop() of the I/O loop has returned
  iter,      \* where loop() is: "test" (the while test), "poll" or "run"
  batchLen   \* functors of the swapped-out batch not yet run (a prefix of
             \* pending, since functors are only appended)

teardownVars == <<quit, exited, iter, batchLen>>
allVars == <<vars, teardownVars>>
-----------------------------------------------------------------------------
\* The while test of loop().  With quit_ set, loop() returns and the
\* functors still queued are never run; the thread's EventLoop is then
\* destroyed, and each connection whose last owner was a dropped functor
\* closes its socket.  Otherwise the loop goes on to epoll_wait.
Check(l) ==
  /\ iter[l] = "test" /\ ~exited[l]
  /\ IF quit[l]
     THEN LET lost == {c \in Conns : \E i \in DOMAIN pending[l] : pending[l][i].c = c}
          IN /\ exited' = [exited EXCEPT ![l] = TRUE]
             /\ fds' = fds - Cardinality({c \in lost : state[c] # "destroyed"})
             /\ UNCHANGED iter
     ELSE /\ iter' = [iter EXCEPT ![l] = "poll"]
          /\ UNCHANGED <<exited, fds>>
  /\ UNCHANGED <<started, listening, reading, arrived, backlog, edge, nextConnId,
                 next, state, loopOf, connections, pending, alive, destroys, quit,
                 batchLen>>

\* epoll_wait returns once the wakeup fd is written (queueInLoop from
\* another thread, or quit()), and doPendingFunctors swaps the queue out.
Swap(l) ==
  /\ iter[l] = "poll"
  /\ pending[l] # <<>> \/ quit[l]
  /\ iter' = [iter EXCEPT ![l] = "run"]
  /\ batchLen' = [batchLen EXCEPT ![l] = Len(pending[l])]
  /\ UNCHANGED <<vars, quit, exited>>

\* The next functor of the batch.
RunBatch(l) ==
  /\ iter[l] = "run" /\ batchLen[l] > 0
  /\ RunFunctor(l)
  /\ batchLen' = [batchLen EXCEPT ![l] = @ - 1]
  /\ UNCHANGED <<quit, exited, iter>>

\* doPendingFunctors returns; loop() goes back to its while test.
EndBatch(l) ==
  /\ iter[l] = "run" /\ batchLen[l] = 0
  /\ iter' = [iter EXCEPT ![l] = "test"]
  /\ UNCHANGED <<vars, quit, exited, batchLen>>

\* ~EventLoopThread, for the pool's threads in order after ~TcpServer:
\* exiting_ = true; loop_->quit() from this foreign thread (quit_ = true
\* and a wakeup); thread_.join() waits for loop() to return before the
\* next thread is destroyed.
PoolQuit(l) ==
  /\ ~alive /\ ~quit[l]
  /\ \A k \in IoLoops : k < l => exited[k]
  /\ quit' = [quit EXCEPT ![l] = TRUE]
  /\ UNCHANGED <<vars, exited, iter, batchLen>>
-----------------------------------------------------------------------------
TeardownInit ==
  /\ Init
  /\ quit = [l \in IoLoops |-> FALSE]
  /\ exited = [l \in IoLoops |-> FALSE]
  /\ iter = [l \in IoLoops |-> "test"]
  /\ batchLen = [l \in IoLoops |-> 0]

\* The server's own steps; a connection's peer close is handled only while
\* its loop still runs.
ServerStep ==
  /\ \/ Start \/ Connect \/ HandleRead \/ ServerDtor
     \/ \E c \in Conns : loopOf[c] = BaseLoop /\ PeerClose(c)
     \/ \E c \in Conns : loopOf[c] # BaseLoop /\ ~exited[loopOf[c]] /\ PeerClose(c)
     \/ RunFunctor(BaseLoop)
  /\ UNCHANGED teardownVars

TeardownNext ==
  \/ ServerStep
  \/ \E l \in IoLoops : Check(l) \/ Swap(l) \/ RunBatch(l) \/ EndBatch(l) \/ PoolQuit(l)

\* The loop threads keep running, and the destructor, once begun, runs to
\* its end.
TeardownSpec ==
  /\ TeardownInit /\ [][TeardownNext]_allVars
  /\ WF_allVars(HandleRead /\ UNCHANGED teardownVars)
  /\ WF_allVars(RunFunctor(BaseLoop) /\ UNCHANGED teardownVars)
  /\ \A l \in IoLoops : /\ WF_allVars(Check(l) \/ Swap(l) \/ RunBatch(l) \/ EndBatch(l))
                        /\ WF_allVars(PoolQuit(l))
=============================================================================
