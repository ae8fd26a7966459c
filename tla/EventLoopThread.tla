--------------------------- MODULE EventLoopThread ---------------------------
(***************************************************************************)
(* EventLoopThreadPool (src/net/EventLoopThreadPool.cc) and the            *)
(* EventLoopThreads it owns (src/net/EventLoopThread.cc).  The owner, the  *)
(* base loop's thread, runs start(): for each i it constructs an           *)
(* EventLoopThread and calls startLoop(), which waits on cond_ until the   *)
(* new thread publishes its loop.  Then it hands loops out with            *)
(* getNextLoop() and finally destroys the pool, whose threads_ vector      *)
(* destroys each EventLoopThread in order: quit() and join().  Each loop   *)
(* thread runs threadFunc(): an EventLoop, the init callback, loop_ set    *)
(* under mutex_, then EventLoop::loop until quit_.                         *)
(*                                                                         *)
(* The members are declared name_, loop_, exiting_, thread_, mutex_, cond_,*)
(* callback_ (include/net/EventLoopThread.h), so the thread starts before  *)
(* mutex_, cond_ and callback_ are constructed.  Using them before then is *)
(* undefined; the model gives the outcomes a build can show: callback_     *)
(* read as empty or as set, and a mutex_ constructor that overwrites a     *)
(* mutex the thread already holds.                                         *)
(***************************************************************************)
EXTENDS Naturals, Sequences, Functions

CONSTANTS
  NumThreads,     \* setThreadNum(NumThreads)
  HasCallback,    \* a ThreadInitCallback is passed to start()
  MaxGets         \* bound on getNextLoop() calls

ASSUME NumThreads \in Nat /\ HasCallback \in BOOLEAN /\ MaxGets \in Nat

Threads == 1..NumThreads
\* Loop pointers: thread i's stack EventLoop is i; the base loop and
\* nullptr are two more values.
BaseLoop == 0
Null == NumThreads + 1
Loops == Threads \cup {BaseLoop}

VARIABLES
  mpc,        \* the owner thread: where it is
  cur,        \* the EventLoopThread the owner is constructing or destroying
  tpc,        \* tpc[i]: where loop thread i is ("none" before it exists)
  members,    \* members[i]: mutex_, cond_, callback_ of i are constructed
  owner,      \* owner[i]: who holds mutex_ of i: "none", "owner", "thread"
  loopPtr,    \* loopPtr[i]: loop_ of EventLoopThread i
  notified,   \* notified[i]: cond_.notify_one() reached the waiting owner
  quit,       \* quit[i]: quit_ of loop i
  wake,       \* wake[i]: the eventfd of loop i has been written, not read
  exiting,    \* exiting[i]: exiting_ of EventLoopThread i
  cbRan,      \* cbRan[l]: the init callback ran for loop l
  loops,      \* loops_
  next,       \* next_
  handed      \* handed[l]: how many times getNextLoop returned l

threadVars == <<tpc, members, owner, loopPtr, notified, quit, wake, exiting>>
vars == <<mpc, cur, threadVars, cbRan, loops, next, handed>>
-----------------------------------------------------------------------------
(***************************************************************************)
(* The owner: EventLoopThreadPool::start, getNextLoop and the destructors. *)
(***************************************************************************)
\* start(cb): started_ = true; with no threads the callback runs on the
\* base loop, otherwise the loop over i begins.
PoolStart ==
  /\ mpc = "start"
  /\ IF NumThreads = 0
     THEN /\ mpc' = "use"
          /\ cbRan' = [cbRan EXCEPT ![BaseLoop] = HasCallback]
     ELSE /\ mpc' = "ctor"
          /\ UNCHANGED cbRan
  /\ UNCHANGED <<cur, threadVars, loops, next, handed>>

\* EventLoopThread's initializer list up to thread_: thread cur starts.
CtorThread ==
  /\ mpc = "ctor"
  /\ mpc' = "members"
  /\ tpc' = [tpc EXCEPT ![cur] = "start"]
  /\ UNCHANGED <<cur, members, owner, loopPtr, notified, quit, wake, exiting, cbRan, loops, next, handed>>

\* mutex_(), cond_(), callback_(std::move(cb)): a mutex_ the thread has
\* locked already is overwritten as unlocked.
CtorMembers ==
  /\ mpc = "members"
  /\ mpc' = "lock"
  /\ members' = [members EXCEPT ![cur] = TRUE]
  /\ owner' = [owner EXCEPT ![cur] = "none"]
  /\ UNCHANGED <<cur, tpc, loopPtr, notified, quit, wake, exiting, cbRan, loops, next, handed>>

\* startLoop: std::unique_lock<std::mutex> lock(mutex_).
StartLoopLock ==
  /\ mpc = "lock"
  /\ owner[cur] = "none"
  /\ owner' = [owner EXCEPT ![cur] = "owner"]
  /\ mpc' = "check"
  /\ UNCHANGED <<cur, tpc, members, loopPtr, notified, quit, wake, exiting, cbRan, loops, next, handed>>

\* Mutant of StartLoopReturned: the loop runs for i <= num_threads_.
StartLoopReturnedOffByOne(l) ==
  /\ loops' = Append(loops, l)
  /\ IF cur <= NumThreads
     THEN mpc' = "ctor" /\ cur' = cur + 1
     ELSE mpc' = "use" /\ UNCHANGED cur

\* The rest of the loop body of start() once startLoop returned l:
\* threads_.emplace_back(t); loops_.emplace_back(l); ++i.
StartLoopReturned(l) ==
  /\ loops' = Append(loops, l)
  /\ IF cur < NumThreads
     THEN mpc' = "ctor" /\ cur' = cur + 1
     ELSE mpc' = "use" /\ UNCHANGED cur

\* while (loop_ == nullptr): the test; when loop_ is set, loop = loop_ and
\* the lock is released as startLoop returns.
StartLoopCheck ==
  /\ mpc = "check"
  /\ IF loopPtr[cur] = Null
     THEN /\ mpc' = "towait"
          /\ UNCHANGED <<cur, owner, loops>>
     ELSE /\ owner' = [owner EXCEPT ![cur] = "none"]
          /\ StartLoopReturned(loopPtr[cur])
  /\ UNCHANGED <<tpc, members, loopPtr, notified, quit, wake, exiting, cbRan, next, handed>>

\* cond_.wait(lock): releases mutex_ and blocks, atomically.
StartLoopWait ==
  /\ mpc = "towait"
  /\ mpc' = "wait"
  /\ owner' = [owner EXCEPT ![cur] = "none"]
  /\ UNCHANGED <<cur, tpc, members, loopPtr, notified, quit, wake, exiting, cbRan, loops, next, handed>>

\* Mutant of StartLoopWake: if instead of while.
StartLoopWakeIf(spurious) ==
  /\ mpc = "wait"
  /\ notified[cur] \/ spurious
  /\ owner[cur] = "none"
  /\ notified' = [notified EXCEPT ![cur] = FALSE]
  /\ StartLoopReturned(loopPtr[cur])
  /\ UNCHANGED <<tpc, members, owner, loopPtr, quit, wake, exiting, cbRan, next, handed>>

\* cond_.wait returns, after a notify or spuriously, with the lock held;
\* the while loop tests loop_ again.
StartLoopWake(spurious) ==
  /\ mpc = "wait"
  /\ notified[cur] \/ spurious
  /\ owner[cur] = "none"
  /\ owner' = [owner EXCEPT ![cur] = "owner"]
  /\ notified' = [notified EXCEPT ![cur] = FALSE]
  /\ mpc' = "check"
  /\ UNCHANGED <<cur, tpc, members, loopPtr, quit, wake, exiting, cbRan, loops, next, handed>>

\* Mutant of AdvanceNext: next_ wraps to 1 instead of 0.
AdvanceNextWrapOne(n) == IF n + 1 >= Len(loops) THEN 1 ELSE n + 1

\* ++next_; if (next_ >= loops_.size()) next_ = 0.
AdvanceNext(n) == IF n + 1 >= Len(loops) THEN 0 ELSE n + 1

\* getNextLoop(): the base loop while loops_ is empty, otherwise
\* loops_[next_++] (loops_ is 0-indexed, the sequence 1-indexed).
GetNextLoop ==
  /\ mpc = "use"
  /\ SumFunction(handed) < MaxGets
  /\ IF loops = <<>>
     THEN /\ handed' = [handed EXCEPT ![BaseLoop] = @ + 1]
          /\ UNCHANGED next
     ELSE /\ handed' = [handed EXCEPT ![loops[next + 1]] = @ + 1]
          /\ next' = AdvanceNext(next)
  /\ UNCHANGED <<mpc, cur, threadVars, cbRan, loops>>

\* ~EventLoopThreadPool: loops_ then threads_ are destroyed; the vector
\* destroys its EventLoopThreads first to last.
PoolDtor ==
  /\ mpc = "use"
  /\ mpc' = IF NumThreads = 0 THEN "done" ELSE "dtor"
  /\ cur' = 1
  /\ UNCHANGED <<threadVars, cbRan, loops, next, handed>>

\* EventLoop::quit from another thread: quit_ = true, then wakeup().
Quit(i) ==
  /\ quit' = [quit EXCEPT ![i] = TRUE]
  /\ wake' = [wake EXCEPT ![i] = TRUE]

\* ~EventLoopThread: exiting_ = true; if loop_ is set, quit() and join();
\* otherwise thread_ is destroyed while joinable and std::terminate runs.
Dtor ==
  /\ mpc = "dtor"
  /\ exiting' = [exiting EXCEPT ![cur] = TRUE]
  /\ IF loopPtr[cur] # Null
     THEN mpc' = "join" /\ Quit(cur)
     ELSE mpc' = "terminate" /\ UNCHANGED <<quit, wake>>
  /\ UNCHANGED <<cur, tpc, members, owner, loopPtr, notified, cbRan, loops, next, handed>>

\* thread_.join() returns once threadFunc has returned; the next
\* EventLoopThread is destroyed.
Join ==
  /\ mpc = "join"
  /\ tpc[cur] = "end"
  /\ IF cur < NumThreads
     THEN mpc' = "dtor" /\ cur' = cur + 1
     ELSE mpc' = "done" /\ UNCHANGED cur
  /\ UNCHANGED <<threadVars, cbRan, loops, next, handed>>
-----------------------------------------------------------------------------
(***************************************************************************)
(* Loop thread i: threadFunc and EventLoop::loop.                          *)
(***************************************************************************)
\* EventLoop loop; then if (callback_) callback_(&loop).  Before
\* callback_ is constructed the test reads it as empty or as set.
ThreadCallback(i) ==
  /\ tpc[i] = "start"
  /\ tpc' = [tpc EXCEPT ![i] = "lock"]
  /\ \E r \in IF members[i] THEN {HasCallback} ELSE BOOLEAN :
       cbRan' = [cbRan EXCEPT ![i] = r]
  /\ UNCHANGED <<mpc, cur, members, owner, loopPtr, notified, quit, wake, exiting, loops, next, handed>>

\* std::unique_lock<std::mutex> lock(mutex_).
ThreadLock(i) ==
  /\ tpc[i] = "lock"
  /\ owner[i] = "none"
  /\ owner' = [owner EXCEPT ![i] = "thread"]
  /\ tpc' = [tpc EXCEPT ![i] = "publish"]
  /\ UNCHANGED <<mpc, cur, members, loopPtr, notified, quit, wake, exiting, cbRan, loops, next, handed>>

\* loop_ = &loop; cond_.notify_one(); the lock is released at the end of
\* the block.
ThreadPublish(i) ==
  /\ tpc[i] = "publish"
  /\ loopPtr' = [loopPtr EXCEPT ![i] = i]
  /\ notified' = [notified EXCEPT ![i] = (mpc = "wait" /\ cur = i)]
  /\ owner' = [owner EXCEPT ![i] = "none"]
  /\ tpc' = [tpc EXCEPT ![i] = "enter"]
  /\ UNCHANGED <<mpc, cur, members, quit, wake, exiting, cbRan, loops, next, handed>>

\* EventLoop::loop: looping_ = true; quit_ = false.
LoopEnter(i) ==
  /\ tpc[i] = "enter"
  /\ quit' = [quit EXCEPT ![i] = FALSE]
  /\ tpc' = [tpc EXCEPT ![i] = "poll"]
  /\ UNCHANGED <<mpc, cur, members, owner, loopPtr, notified, wake, exiting, cbRan, loops, next, handed>>

\* poll returns, on the eventfd (handleRead reads it) or on the 10 s
\* timeout; the handlers and pending functors run; while (!quit_).
LoopIterate(i) ==
  /\ tpc[i] = "poll"
  /\ wake' = [wake EXCEPT ![i] = FALSE]
  /\ tpc' = [tpc EXCEPT ![i] = IF quit[i] THEN "exit" ELSE "poll"]
  /\ UNCHANGED <<mpc, cur, members, owner, loopPtr, notified, quit, exiting, cbRan, loops, next, handed>>

\* After loop(): std::unique_lock lock(mutex_); loop_ = nullptr; return.
ThreadExit(i) ==
  /\ tpc[i] = "exit"
  /\ owner[i] = "none"
  /\ loopPtr' = [loopPtr EXCEPT ![i] = Null]
  /\ tpc' = [tpc EXCEPT ![i] = "end"]
  /\ UNCHANGED <<mpc, cur, members, owner, notified, quit, wake, exiting, cbRan, loops, next, handed>>
-----------------------------------------------------------------------------
\* EventLoopThreadPool's constructor: started_ false, next_ 0, no threads.
Init ==
  /\ mpc = "start" /\ cur = 1
  /\ tpc = [i \in Threads |-> "none"]
  /\ members = [i \in Threads |-> FALSE]
  /\ owner = [i \in Threads |-> "none"]
  /\ loopPtr = [i \in Threads |-> Null]
  /\ notified = [i \in Threads |-> FALSE]
  /\ quit = [i \in Threads |-> FALSE]
  /\ wake = [i \in Threads |-> FALSE]
  /\ exiting = [i \in Threads |-> FALSE]
  /\ cbRan = [l \in Loops |-> FALSE]
  /\ loops = <<>> /\ next = 0
  /\ handed = [l \in Loops |-> 0]

Owner == PoolStart \/ CtorThread \/ CtorMembers \/ StartLoopLock
         \/ StartLoopCheck \/ StartLoopWait \/ StartLoopWake(FALSE) \/ GetNextLoop
         \/ PoolDtor \/ Dtor \/ Join
Thread(i) == ThreadCallback(i) \/ ThreadLock(i) \/ ThreadPublish(i)
             \/ LoopEnter(i) \/ LoopIterate(i) \/ ThreadExit(i)

Next == Owner \/ (\E i \in Threads : Thread(i)) \/ StartLoopWake(TRUE)

\* Every thread keeps being scheduled; a spurious wakeup is not assumed.
Spec == Init /\ [][Next]_vars /\ WF_vars(Owner)
        /\ \A i \in Threads : WF_vars(Thread(i))
-----------------------------------------------------------------------------
TypeOK ==
  /\ mpc \in {"start", "ctor", "members", "lock", "check", "towait", "wait",
              "use", "dtor", "join", "done", "terminate"}
  /\ cur \in Threads \cup {1}
  /\ tpc \in [Threads -> {"none", "start", "lock", "publish", "enter", "poll", "exit", "end"}]
  /\ members \in [Threads -> BOOLEAN]
  /\ owner \in [Threads -> {"none", "owner", "thread"}]
  /\ loopPtr \in [Threads -> Threads \cup {Null}]
  /\ notified \in [Threads -> BOOLEAN] /\ quit \in [Threads -> BOOLEAN]
  /\ wake \in [Threads -> BOOLEAN] /\ exiting \in [Threads -> BOOLEAN]
  /\ cbRan \in [Loops -> BOOLEAN]
  /\ loops \in Seq(Threads \cup {Null}) /\ Len(loops) <= NumThreads
  /\ next \in 0..NumThreads
  /\ handed \in [Loops -> 0..MaxGets]

(* start() fills loops_ with the loop each thread runs, never nullptr,    *)
(* spurious wakeups of cond_.wait in startLoop included.                  *)
StartLoopReturnsLoop == \A k \in DOMAIN loops : loops[k] = k

(* getNextLoop spreads the calls round robin: once loops_ is filled the   *)
(* base loop is never handed out and no loop gets two calls more than     *)
(* another.                                                              *)
RoundRobin ==
  mpc \notin {"start", "ctor", "members", "lock", "check", "towait", "wait"}
    /\ NumThreads > 0
    => /\ handed[BaseLoop] = 0
       /\ \A a, b \in Threads : handed[a] <= handed[b] + 1

(* start() returns: startLoop is not left waiting for a loop that was     *)
(* published.                                                             *)
StartReturns == <>(mpc \in {"use", "dtor", "join", "done", "terminate"})

(* The pool's destructor returns: each EventLoopThread's quit() ends its  *)
(* loop and join() comes back.                                            *)
DestructorReturns == (mpc = "dtor") ~> (mpc = "done")

(* The init callback has run for every loop start() hands out             *)
(* (TcpServer::setThreadInitCallback relies on it).                      *)
CallbackBeforeStart == HasCallback => \A k \in DOMAIN loops : cbRan[loops[k]]
=============================================================================
