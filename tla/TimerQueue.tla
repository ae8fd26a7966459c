----------------------------- MODULE TimerQueue -----------------------------
(***************************************************************************)
(* mymuduo's TimerQueue (src/net/TimerQueue.cc, include/net/Timer.h) on   *)
(* its EventLoop.                                                          *)
(*                                                                         *)
(* Timer objects live at heap addresses that are reused after delete; a   *)
(* TimerId is the pair <<address, sequence>>.  timers_ is the set of       *)
(* entries <<expiration, address>>, ordered by expiration then address;    *)
(* active_timers_ and canceling_timers_ are sets of TimerIds.  Time is an  *)
(* integer clock in the units of Timestamp; TimerArith.tla checks the     *)
(* conversions between those units and the timerfd's.                     *)
(*                                                                         *)
(* The loop thread polls, dispatches the ready Channels (the timerfd and   *)
(* another Channel "app" whose callback may add or cancel timers) and      *)
(* drains the functors other threads queued with runInLoop.  handleRead is *)
(* split at every timer callback, since a callback may call cancel.        *)
(***************************************************************************)
EXTENDS Integers, Sequences, FiniteSets, SequencesExt

CONSTANTS
  Addrs,            \* heap addresses a Timer object may be allocated at
  MaxTimers,        \* bound on Timers created (s_num_created_)
  Delays,           \* delays (in clock units) callers pass to addTimer
  Intervals,        \* intervals: 0 is a one-shot timer
  MaxTime,          \* bound on the clock
  MaxCancels,       \* bound on calls of cancel()
  AddFrom,          \* where addTimer is called: "app" (loop thread), "thread"
  CancelFrom,       \* where cancel is called: "app", "thread", "callback"
  CallbackCancels   \* what a timer callback may cancel: "self" or "any"

ASSUME /\ Addrs # {} /\ Addrs \subseteq Nat \ {0}
       /\ MaxTimers \in Nat /\ MaxTime \in Nat /\ MaxCancels \in Nat
       /\ Delays \subseteq Nat /\ Intervals \subseteq Nat
       /\ AddFrom \subseteq {"app", "thread"}
       /\ CancelFrom \subseteq {"app", "thread", "callback"}
       /\ CallbackCancels \in {"self", "any"}

\* The timerfd is disarmed.
Disarmed == -1

VARIABLES
  clock,      \* Timestamp::now()
  live,       \* addresses of the Timer objects not deleted
  tseq,       \* tseq[a]: sequence_ of the Timer at a
  texp,       \* texp[a]: expiration_ of the Timer at a
  tint,       \* tint[a]: interval_ of the Timer at a (repeat_ is tint > 0)
  nseq,       \* Timer::s_num_created_
  timers,     \* TimerQueue::timers_
  active,     \* TimerQueue::active_timers_
  canceling,  \* TimerQueue::canceling_timers_
  calling,    \* TimerQueue::calling_expired_timers_
  fdExp,      \* the time the timerfd is set to fire at, or Disarmed
  phase,      \* loop thread: "poll", "dispatch", "timers", "drain"
  todo,       \* Channels still to dispatch in this iteration
  hnow,       \* the now handleRead read
  expired,    \* the vector getExpired returned, in timers_ order
  nrun,       \* how many of expired have run
  pending,    \* EventLoop::pending_functors_
  batch,      \* the functors doPendingFunctors swapped out
  done,       \* how many of batch have run
  handles,    \* history: every TimerId addTimer returned
  cancelled,  \* history: TimerIds cancelled before they were due
  runs,       \* history: the callback runs, in order
  cancels,    \* cancel() calls made
  cancelIssued, \* history: every TimerId a cancel was issued for
  stopped     \* history: TimerIds a cancel found active, or got from
              \* the timer's own callback

timerVars == <<live, tseq, texp, tint, nseq, timers, active, canceling, calling, fdExp>>
loopVars == <<phase, todo, hnow, expired, nrun, pending, batch, done>>
histVars == <<handles, cancelled, runs, cancels, cancelIssued, stopped>>
vars == <<clock, timerVars, loopVars, histVars>>

Entries == (0..(MaxTime + 2 * MaxTime)) \X Addrs
Ids == Addrs \X (0..MaxTimers)

Lesser(a, b) == IF a < b THEN a ELSE b
Greater(a, b) == IF a < b THEN b ELSE a

\* No TimerId: sequence numbers start at 1.
NoId == <<0, 0>>

\* The order of timers_: std::pair's operator<.
EntryLess(e, f) == e[1] < f[1] \/ (e[1] = f[1] /\ e[2] < f[2])

\* The TimerId of the Timer at a.
IdOf(a) == <<a, tseq[a]>>

\* resetTimerfd(timerfd_, when): howMuchTimeFromNow clamps a due time to a
\* small positive delay, so the timerfd fires no earlier than now.
ResetTimerfd(when) == fdExp' = Greater(when, clock)
-----------------------------------------------------------------------------
(***************************************************************************)
(* Timer and the TimerQueue operations.  Each is a predicate on the timer  *)
(* variables; the caller fixes the rest.                                   *)
(***************************************************************************)
\* Mutant of NewSeq: post-increment.
NewSeqPost(n) == n

\* Timer::Timer: sequence_(++s_num_created_).
NewSeq(n) == n + 1

\* new Timer(cb, when, interval) at a free address a.
NewTimer(a, when, iv) ==
  /\ a \notin live
  /\ nseq < MaxTimers
  /\ nseq' = nseq + 1
  /\ live' = live \cup {a}
  /\ tseq' = [tseq EXCEPT ![a] = NewSeq(nseq)]
  /\ texp' = [texp EXCEPT ![a] = when]
  /\ tint' = [tint EXCEPT ![a] = iv]

\* delete timer
Delete(a) == live' = live \ {a}

\* TimerQueue::insert for the Timer at a with expiration when and sequence
\* seq; the caller
\* decides what to do with earliest_changed.
Insert(a, when, seq) ==
  /\ timers' = timers \cup {<<when, a>>}
  /\ active' = active \cup {<<a, seq>>}

EarliestChanged(when, ts) == \A e \in ts : when < e[1]

\* Mutant of AddTimerInLoop: the timerfd is not reset.
AddTimerInLoopNoReset(a, when, seq) ==
  /\ Insert(a, when, seq)
  /\ UNCHANGED fdExp

\* TimerQueue::addTimerInLoop: insert, and reset the timerfd when the new
\* Timer is the earliest.  The Timer at a expires at when and has
\* sequence seq.
AddTimerInLoop(a, when, seq) ==
  /\ Insert(a, when, seq)
  /\ IF EarliestChanged(when, timers) THEN ResetTimerfd(when)
     ELSE UNCHANGED fdExp

\* Mutant of CancelInLoop: the entry is erased from active_timers_ only.
CancelInLoopKeepEntry(id) ==
  IF id \in active
  THEN /\ active' = active \ {id}
       /\ UNCHANGED <<live, timers, canceling>>
  ELSE IF calling
       THEN /\ canceling' = canceling \cup {id}
            /\ UNCHANGED <<live, timers, active>>
       ELSE UNCHANGED <<live, timers, active, canceling>>

\* TimerQueue::cancelInLoop: a TimerId found in active_timers_ is erased
\* from both sets and deleted; otherwise, while the expired timers run, it
\* is recorded in canceling_timers_.
CancelInLoop(id) ==
  LET a == id[1] IN
  IF id \in active
  THEN /\ timers' = timers \ {<<texp[a], a>>}
       /\ Delete(a)
       /\ active' = active \ {id}
       /\ UNCHANGED canceling
  ELSE IF calling
       THEN /\ canceling' = canceling \cup {id}
            /\ UNCHANGED <<live, timers, active>>
       ELSE UNCHANGED <<live, timers, active, canceling>>

\* Mutant of GetExpired: active_timers_ keeps the expired timers.
GetExpiredKeepActive(now) ==
  LET ex == {e \in timers : e[1] <= now} IN
  /\ expired' = SetToSortSeq(ex, EntryLess)
  /\ timers' = timers \ ex
  /\ active' = active

\* TimerQueue::getExpired: the entries up to now (lower_bound of
\* <<now, UINTPTR_MAX>>) leave timers_ and active_timers_, in order.
GetExpired(now) ==
  LET ex == {e \in timers : e[1] <= now} IN
  /\ expired' = SetToSortSeq(ex, EntryLess)
  /\ timers' = timers \ ex
  /\ active' = active \ {IdOf(e[2]) : e \in ex}

\* Mutant of Restart: expiration_ is left unchanged.
RestartSameExp(a, now) == texp[a]

\* Timer::restart for a repeating timer: now + interval_.
Restart(a, now) == now + tint[a]

\* Mutant of Reset: canceling_timers_ is not consulted.
ResetIgnoreCanceling(now) ==
  LET again == {e \in Range(expired) : tint[e[2]] > 0}
      ts == timers \cup {<<Restart(e[2], now), e[2]>> : e \in again}
  IN
  /\ texp' = [a \in Addrs |-> IF \E e \in again : e[2] = a THEN Restart(a, now) ELSE texp[a]]
  /\ timers' = ts
  /\ active' = active \cup {IdOf(e[2]) : e \in again}
  /\ live' = live \ {e[2] : e \in Range(expired) \ again}
  /\ IF ts # {} THEN ResetTimerfd(CHOOSE t \in {e[1] : e \in ts} : \A f \in ts : t <= f[1])
     ELSE UNCHANGED fdExp

\* TimerQueue::reset: a repeating timer not cancelled during the run is
\* restarted and inserted again, every other expired timer deleted; then
\* the timerfd is set to the earliest expiration, if there is one.
Reset(now) ==
  LET again == {e \in Range(expired) : tint[e[2]] > 0 /\ IdOf(e[2]) \notin canceling}
      ts == timers \cup {<<Restart(e[2], now), e[2]>> : e \in again}
  IN
  /\ texp' = [a \in Addrs |-> IF \E e \in again : e[2] = a THEN Restart(a, now) ELSE texp[a]]
  /\ timers' = ts
  /\ active' = active \cup {IdOf(e[2]) : e \in again}
  /\ live' = live \ {e[2] : e \in Range(expired) \ again}
  /\ IF ts # {} THEN ResetTimerfd(CHOOSE t \in {e[1] : e \in ts} : \A f \in ts : t <= f[1])
     ELSE UNCHANGED fdExp
-----------------------------------------------------------------------------
(***************************************************************************)
(* Calls of addTimer and cancel.                                           *)
(***************************************************************************)
\* A cancel of id takes effect (cancelInLoop runs).  The history records
\* it when the Timer is still due later (spec section 8: "canceled
\* strictly before its expiry"), or when it comes from a callback of the
\* same firing batch, which the spec names as included.  A cancel from
\* another thread is only a request (spec section 5): it is recorded when
\* the queued cancelInLoop runs.
\* running is the TimerId whose callback cancels, or NoId.  The history
\* also records, in stopped, the cancels the code acts on at once: those
\* cancelInLoop finds in active_timers_, and a timer's cancel of itself
\* from its own callback (canceling_timers_, read by reset).
RecordCancel(id, running) ==
  /\ cancelled' = IF /\ id[1] \in live /\ tseq[id[1]] = id[2]
                     /\ (clock < texp[id[1]] \/ running # NoId)
                  THEN cancelled \cup {id} ELSE cancelled
  /\ stopped' = IF id \in active \/ id = running THEN stopped \cup {id} ELSE stopped

CountCancel(id) ==
  /\ cancels < MaxCancels
  /\ cancels' = cancels + 1
  /\ cancelIssued' = cancelIssued \cup {id}

IssueCancel(id, running) == CountCancel(id) /\ RecordCancel(id, running)

\* TimerQueue::addTimer on the loop thread (EventLoop::runAt/runAfter):
\* new Timer, then runInLoop runs addTimerInLoop at once.
AppAdd ==
  /\ phase = "dispatch" /\ todo # <<>> /\ Head(todo) = "app"
  /\ "app" \in AddFrom
  /\ \E a \in Addrs, d \in Delays, iv \in Intervals :
       /\ clock + d <= MaxTime
       /\ NewTimer(a, clock + d, iv)
       /\ handles' = handles \cup {<<a, tseq'[a]>>}
       /\ AddTimerInLoop(a, clock + d, NewSeq(nseq))
  /\ todo' = Tail(todo)
  /\ UNCHANGED <<clock, canceling, calling, phase, hnow, expired, nrun, pending,
                 batch, done, cancelled, runs, cancels, cancelIssued,
                 stopped>>

\* TimerQueue::cancel on the loop thread: runInLoop runs cancelInLoop.
AppCancel ==
  /\ phase = "dispatch" /\ todo # <<>> /\ Head(todo) = "app"
  /\ "app" \in CancelFrom
  /\ \E id \in handles :
       /\ IssueCancel(id, NoId)
       /\ CancelInLoop(id)
  /\ todo' = Tail(todo)
  /\ UNCHANGED <<clock, tseq, texp, tint, nseq, calling, fdExp, phase, hnow,
                 expired, nrun, pending, batch, done, handles, runs>>

\* TimerQueue::addTimer from another thread: the Timer is built on that
\* thread and [this, timer] { addTimerInLoop(timer); } is queued.
UserAdd ==
  /\ "thread" \in AddFrom
  /\ \E a \in Addrs, d \in Delays, iv \in Intervals :
       /\ clock + d <= MaxTime
       /\ NewTimer(a, clock + d, iv)
       /\ handles' = handles \cup {<<a, tseq'[a]>>}
       /\ pending' = Append(pending, [op |-> "add", id |-> <<a, tseq'[a]>>])
  /\ UNCHANGED <<clock, timers, active, canceling, calling, fdExp, phase, todo,
                 hnow, expired, nrun, batch, done, cancelled, runs, cancels, cancelIssued,
                 stopped>>

\* TimerQueue::cancel from another thread queues cancelInLoop(timerId).
UserCancel ==
  /\ "thread" \in CancelFrom
  /\ \E id \in handles :
       /\ CountCancel(id)
       /\ pending' = Append(pending, [op |-> "cancel", id |-> id])
  /\ UNCHANGED <<clock, timerVars, phase, todo, hnow, expired, nrun, batch, done,
                 handles, cancelled, runs, stopped>>
-----------------------------------------------------------------------------
(***************************************************************************)
(* The loop thread.                                                        *)
(***************************************************************************)
\* epoll_wait returns the timerfd once it has fired and, possibly, the
\* other Channel; any order.
Poll ==
  /\ phase = "poll"
  /\ phase' = "dispatch"
  /\ \E app \in BOOLEAN :
       LET ready == (IF fdExp # Disarmed /\ fdExp <= clock THEN {"timerfd"} ELSE {})
                    \cup (IF app THEN {"app"} ELSE {})
       IN todo' \in {q \in [1..Cardinality(ready) -> ready] : Range(q) = ready}
  /\ UNCHANGED <<clock, timerVars, hnow, expired, nrun, pending, batch, done, histVars>>

\* TimerQueue::handleRead up to the callbacks: now, readTimerfd (the
\* timerfd is one-shot and is now disarmed), getExpired, then
\* calling_expired_timers_ = true and canceling_timers_.clear().
HandleReadBegin ==
  /\ phase = "dispatch" /\ todo # <<>> /\ Head(todo) = "timerfd"
  /\ phase' = "timers"
  /\ todo' = Tail(todo)
  /\ hnow' = clock
  /\ fdExp' = Disarmed
  /\ GetExpired(clock)
  /\ nrun' = 0
  /\ calling' = TRUE
  /\ canceling' = {}
  /\ UNCHANGED <<clock, live, tseq, texp, tint, nseq, pending, batch, done, histVars>>

\* it.second->run(): the callback of the next expired timer.  It does
\* nothing, or cancels a timer (runInLoop runs cancelInLoop at once).
RunTimer ==
  /\ phase = "timers"
  /\ nrun < Len(expired)
  /\ nrun' = nrun + 1
  /\ LET a == expired[nrun + 1][2]
         run == [id |-> IdOf(a), exp |-> texp[a],
                 afterCancel |-> IdOf(a) \in cancelled,
                 afterStop |-> IdOf(a) \in stopped]
     IN
     /\ runs' = Append(runs, run)
     /\ \/ UNCHANGED <<live, timers, active, canceling, cancelled, cancels,
                          cancelIssued, stopped>>
        \/ /\ "callback" \in CancelFrom
           /\ \E id \in (IF CallbackCancels = "self" THEN {IdOf(a)} ELSE handles) :
                /\ IssueCancel(id, IdOf(a))
                /\ CancelInLoop(id)
  /\ UNCHANGED <<clock, tseq, texp, tint, nseq, calling, fdExp, phase, todo, hnow,
                 expired, pending, batch, done, handles>>

\* The rest of handleRead: calling_expired_timers_ = false, reset(expired,
\* now).
HandleReadEnd ==
  /\ phase = "timers"
  /\ nrun = Len(expired)
  /\ phase' = "dispatch"
  /\ calling' = FALSE
  /\ Reset(hnow)
  /\ expired' = <<>>
  /\ nrun' = 0
  /\ UNCHANGED <<clock, tseq, tint, nseq, canceling, todo, hnow, pending, batch,
                 done, histVars>>

\* The other Channel's callback does not touch the timers.
AppIdle ==
  /\ phase = "dispatch" /\ todo # <<>> /\ Head(todo) = "app"
  /\ todo' = Tail(todo)
  /\ UNCHANGED <<clock, timerVars, phase, hnow, expired, nrun, pending, batch,
                 done, histVars>>

BeginDrain ==
  /\ phase = "dispatch" /\ todo = <<>>
  /\ phase' = "drain"
  /\ batch' = pending
  /\ pending' = <<>>
  /\ done' = 0
  /\ UNCHANGED <<clock, timerVars, todo, hnow, expired, nrun, histVars>>

\* The next queued functor: addTimerInLoop or cancelInLoop.
RunFunctor ==
  /\ phase = "drain"
  /\ done < Len(batch)
  /\ done' = done + 1
  /\ LET f == batch[done + 1] IN
     IF f.op = "add"
     THEN /\ AddTimerInLoop(f.id[1], texp[f.id[1]], tseq[f.id[1]])
          /\ UNCHANGED <<live, canceling, cancelled, stopped>>
     ELSE /\ CancelInLoop(f.id)
          /\ RecordCancel(f.id, NoId)
          /\ UNCHANGED fdExp
  /\ UNCHANGED <<clock, tseq, texp, tint, nseq, calling, phase, todo, hnow,
                 expired, nrun, pending, batch, handles, runs, cancels, cancelIssued>>

EndDrain ==
  /\ phase = "drain"
  /\ done = Len(batch)
  /\ phase' = "poll"
  /\ batch' = <<>>
  /\ done' = 0
  /\ UNCHANGED <<clock, timerVars, todo, hnow, expired, nrun, pending, histVars>>

\* Time passes.
Tick ==
  /\ clock < MaxTime
  /\ clock' = clock + 1
  /\ UNCHANGED <<timerVars, loopVars, histVars>>
-----------------------------------------------------------------------------
Init ==
  /\ clock = 0
  /\ live = {}
  /\ tseq = [a \in Addrs |-> 0]
  /\ texp = [a \in Addrs |-> 0]
  /\ tint = [a \in Addrs |-> 0]
  /\ nseq = 0
  /\ timers = {} /\ active = {} /\ canceling = {}
  /\ calling = FALSE
  /\ fdExp = Disarmed
  /\ phase = "poll" /\ todo = <<>>
  /\ hnow = 0 /\ expired = <<>> /\ nrun = 0
  /\ pending = <<>> /\ batch = <<>> /\ done = 0
  /\ handles = {} /\ cancelled = {} /\ runs = <<>>
  /\ cancels = 0 /\ cancelIssued = {} /\ stopped = {}

LoopStep ==
  \/ Poll \/ HandleReadBegin \/ RunTimer \/ HandleReadEnd
  \/ AppAdd \/ AppCancel \/ AppIdle
  \/ BeginDrain \/ RunFunctor \/ EndDrain

Next == LoopStep \/ UserAdd \/ UserCancel \/ Tick

\* The loop thread keeps running (epoll_wait has a timeout) and time
\* passes; the callers' calls are not assumed.
Spec == Init /\ [][Next]_vars /\ WF_vars(LoopStep) /\ WF_vars(Tick)
-----------------------------------------------------------------------------
(***************************************************************************)
(* Properties.                                                             *)
(***************************************************************************)
Runs == [id : Ids, exp : Nat, afterCancel : BOOLEAN, afterStop : BOOLEAN]
Functors == [op : {"add", "cancel"}, id : Ids]

TypeOK ==
  /\ clock \in 0..MaxTime
  /\ live \subseteq Addrs
  /\ \A a \in live : tseq[a] \in 1..nseq
  /\ nseq \in 0..MaxTimers
  /\ timers \subseteq Entries /\ active \subseteq Ids /\ canceling \subseteq Ids
  /\ calling = (phase = "timers")
  /\ fdExp \in {Disarmed} \cup Nat
  /\ phase \in {"poll", "dispatch", "timers", "drain"}
  /\ expired \in Seq(Entries) /\ nrun \in 0..Len(expired)
  /\ pending \in Seq(Functors) /\ batch \in Seq(Functors) /\ done \in 0..Len(batch)
  /\ handles \subseteq Ids /\ cancelled \subseteq handles /\ stopped \subseteq handles
  /\ runs \in Seq(Runs)

\* The Timers of functors queued by addTimer and not run yet.
Queued == {pending[i].id[1] : i \in {j \in DOMAIN pending : pending[j].op = "add"}}
          \cup {batch[i].id[1] : i \in {j \in DOMAIN batch : j > done /\ batch[j].op = "add"}}

(* timers_ and active_timers_ describe the same Timers (the invariant     *)
(* muduo asserts), each entry names a live Timer under its expiration_,   *)
(* and every live Timer is in timers_, in the batch handleRead is running *)
(* or in a queued addTimerInLoop: getExpired, cancelInLoop and reset keep *)
(* the two sets in step and delete exactly the Timers they drop.          *)
TimerBookkeeping ==
  /\ active = {IdOf(e[2]) : e \in timers}
  /\ \A e \in timers : e[2] \in live /\ texp[e[2]] = e[1]
  /\ live = {e[2] : e \in timers} \cup {e[2] : e \in Range(expired)} \cup Queued

(* Spec section 8: a timer cancelled strictly before its expiry, or from  *)
(* another callback of the same firing batch, never runs (cancelInLoop and *)
(* the canceling_timers_ check in reset).  For a cancel from another       *)
(* thread, "cancelled" is when its queued cancelInLoop runs (section 5).   *)
CancelledNeverRuns == \A i \in DOMAIN runs : ~runs[i].afterCancel

(* A cancel the loop thread's cancelInLoop finds in active_timers_, and a *)
(* repeating timer's cancel of itself from its own callback, stop the      *)
(* timer for good: cancelInLoop erases it from timers_ and deletes it, and *)
(* reset() does not restart a timer in canceling_timers_.  (A cancel of a  *)
(* timer another callback of the batch is about to run, or of one whose   *)
(* addTimerInLoop is still queued, is not acted on; CancelledNeverRuns is  *)
(* the spec's wider promise.)                                              *)
CancelStopsTimer == \A i \in DOMAIN runs : ~runs[i].afterStop

(* Spec section 8: at most one run of a timer per expiration: the runs of *)
(* one TimerId have strictly increasing expirations (Timer::restart and   *)
(* getExpired's removal of what it returns).                              *)
OncePerExpiry ==
  \A i, j \in DOMAIN runs :
    i < j /\ runs[i].id = runs[j].id => runs[i].exp < runs[j].exp

(* Every timer added runs, unless a cancel of it was issued: the timerfd  *)
(* is always set for the earliest timer (addTimerInLoop, reset) and a     *)
(* cancel never hits another Timer at a reused address (the sequence).    *)
TimerFires ==
  \A id \in Ids :
    id \in handles ~> (id \in cancelIssued \/ \E i \in DOMAIN runs : runs[i].id = id)
=============================================================================
