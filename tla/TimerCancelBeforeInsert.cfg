\* addTimer from another thread, cancel of the returned TimerId on the
\* loop thread before the queued addTimerInLoop has run.
CONSTANTS
  Addrs = {1, 2}
  MaxTimers = 3
  Delays = {0, 1}
  Intervals = {0, 1}
  MaxTime = 2
  MaxCancels = 1
  AddFrom = {"thread"}
  CancelFrom = {"app"}
  CallbackCancels = "self"

SPECIFICATION Spec
INVARIANT CancelledNeverRuns
