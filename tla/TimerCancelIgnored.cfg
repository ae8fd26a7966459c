\* Timers added on the loop thread and from another thread, cancelled on
\* the loop thread and from any timer's callback: both ways a cancel
\* issued before the timer runs is dropped (a cancel that overtakes the
\* queued addTimerInLoop, a cancel of another timer of the same expired
\* batch) are reachable.
CONSTANTS
  Addrs = {1, 2}
  MaxTimers = 3
  Delays = {0, 1}
  Intervals = {0, 1}
  MaxTime = 2
  MaxCancels = 1
  AddFrom = {"app", "thread"}
  CancelFrom = {"app", "callback"}
  CallbackCancels = "any"

SPECIFICATION Spec
INVARIANT CancelledNeverRuns
