\* Two heap addresses and three Timers, so an address is reused; one-shot
\* and repeating timers due one tick later; adds from the loop thread and,
\* through queued functors, from another thread; cancels from the loop
\* thread, from another thread (a queued cancelInLoop) and from a timer
\* callback, of any timer.  Delays = {1} keeps the run within minutes: a
\* timer due at once differs only in firing in the same tick as its add.
CONSTANTS
  Addrs = {1, 2}
  MaxTimers = 3
  Delays = {1}
  Intervals = {0, 1}
  MaxTime = 2
  MaxCancels = 1
  AddFrom = {"app", "thread"}
  CancelFrom = {"app", "thread", "callback"}
  CallbackCancels = "any"
SPECIFICATION Spec
INVARIANT TypeOK
INVARIANT TimerBookkeeping
INVARIANT CancelStopsTimer
INVARIANT OncePerExpiry
PROPERTY TimerFires
