----------------------------- MODULE TimerArith -----------------------------
(***************************************************************************)
(* The time arithmetic under a runAfter timer: Timestamp::now() and        *)
(* operator+ (include/base/Timestamp.h), howMuchTimeFromNow and            *)
(* resetTimerfd (src/net/TimerQueue.cc), and the timerfd they program.     *)
(*                                                                         *)
(* One timer is added by EventLoop::runAfter(delay) into an empty          *)
(* TimerQueue, so addTimerInLoop arms the timerfd; each time the timerfd   *)
(* fires, handleRead runs the timer if it is due, or else reset() arms the *)
(* timerfd again for it.  The real clock is kept in microseconds; the      *)
(* reference definitions give what the names and the spec promise.        *)
(***************************************************************************)
EXTENDS Integers

CONSTANTS
  StartUs,      \* real times (microseconds) at which runAfter is called
  DelaysMs,     \* delays passed to runAfter, in milliseconds
  Tolerance,    \* lateness (microseconds) a timer may have
  MaxWakeups    \* bound on timerfd expirations

ASSUME StartUs \subseteq Nat /\ DelaysMs \subseteq Nat
       /\ Tolerance \in Nat /\ MaxWakeups \in Nat

Disarmed == -1

VARIABLES
  us,        \* the real clock, in microseconds
  exp,       \* the Timer's expiration_, a Timestamp value
  due,       \* reference: when the timer should fire, in microseconds
  armedAt,   \* when the timerfd will fire, or Disarmed
  fired,     \* the callback has run
  wakeups    \* timerfd expirations so far

vars == <<us, exp, due, armedAt, fired, wakeups>>
-----------------------------------------------------------------------------
\* Timestamp::now(): Timestamp(system_clock::to_time_t(system_clock::now())),
\* whole seconds stored as micro_seconds_since_epoch_.
NowTs(t) == t \div 1000000

\* Timestamp::operator+(seconds): adds static_cast<int64_t>(seconds * 1000);
\* runAfter passes delay seconds, here ms / 1000.
Plus(ts, ms) == ts + ms

\* Mutant of HowMuchTimeFromNow: no floor of 100.
HowMuchTimeFromNowNoFloor(when, nowTs) ==
  LET m == when - nowTs IN
  [sec |-> m \div 1000, nsec |-> (m % 1000) * 1000]

\* howMuchTimeFromNow(when): microseconds = when - now, at least 100;
\* tv_sec = microseconds / 1000, tv_nsec = microseconds % 1000 * 1000.
HowMuchTimeFromNow(when, nowTs) ==
  LET m == IF when - nowTs < 100 THEN 100 ELSE when - nowTs IN
  [sec |-> m \div 1000, nsec |-> (m % 1000) * 1000]

\* Mutant of ResetTimerfd: it_value taken as an absolute time
\* (TFD_TIMER_ABSTIME).
ResetTimerfdAbsTime(ts, t) ==
  IF ts.sec = 0 /\ ts.nsec = 0 THEN Disarmed
  ELSE ts.sec * 1000000 + ts.nsec \div 1000

\* resetTimerfd: timerfd_settime with it_value = ts, relative and with no
\* interval; a zero it_value disarms the timerfd.
ResetTimerfd(ts, t) ==
  IF ts.sec = 0 /\ ts.nsec = 0 THEN Disarmed
  ELSE t + ts.sec * 1000000 + ts.nsec \div 1000

\* Reference: the instant delay milliseconds after t.
RefDue(t, ms) == t + ms * 1000
-----------------------------------------------------------------------------
\* EventLoop::runAfter(ms / 1000.0, cb) at real time t: the expiration is
\* now() + delay; addTimerInLoop into an empty queue arms the timerfd.
Init ==
  \E t \in StartUs, ms \in DelaysMs :
    /\ us = t
    /\ exp = Plus(NowTs(t), ms)
    /\ due = RefDue(t, ms)
    /\ armedAt = ResetTimerfd(HowMuchTimeFromNow(exp, NowTs(t)), t)
    /\ fired = FALSE
    /\ wakeups = 0

\* The timerfd expires and TimerQueue::handleRead runs: now(), getExpired
\* (the timer is due when exp <= now), run, then reset(): nothing left, or
\* the still pending timer re-armed.
HandleRead ==
  /\ armedAt # Disarmed
  /\ wakeups < MaxWakeups
  /\ wakeups' = wakeups + 1
  /\ us' = armedAt
  /\ IF exp <= NowTs(armedAt)
     THEN /\ fired' = TRUE
          /\ armedAt' = Disarmed
     ELSE /\ armedAt' = ResetTimerfd(HowMuchTimeFromNow(exp, NowTs(armedAt)), armedAt)
          /\ UNCHANGED fired
  /\ UNCHANGED <<exp, due>>

\* epoll_wait returns on its timeout with the timerfd not readable; the
\* timer state does not change.
Idle == UNCHANGED vars

Next == HandleRead \/ Idle

\* epoll_wait returns when the timerfd fires: handleRead is not delayed
\* forever.
Spec == Init /\ [][Next]_vars /\ WF_vars(HandleRead)
-----------------------------------------------------------------------------
TypeOK ==
  /\ us \in Nat /\ exp \in Nat /\ due \in Nat
  /\ armedAt \in {Disarmed} \cup {t \in Nat : t > us}
  /\ fired \in BOOLEAN
  /\ wakeups \in 0..MaxWakeups

(* A timer added by runAfter runs: the 100-unit floor in               *)
(* howMuchTimeFromNow keeps timerfd_settime from being given a zero    *)
(* it_value, which would disarm the timerfd, also when the expiration  *)
(* is already due.                                                       *)
TimerEventuallyRuns == <>fired

(* Spec sections 4.4 and 6: a runAfter(delay) timer runs no later than   *)
(* delay (plus a tolerance) after the call, measured on the real clock.  *)
FiresByDeadline == fired \/ us <= due + Tolerance
=============================================================================
