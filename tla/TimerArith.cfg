\* runAfter(0) and runAfter(0.001) called on a second boundary and 50 us
\* before one.  The timer of runAfter(0.001) is due a whole second later in
\* Timestamp units, reached in steps of 100 us: 10000 wakeups.
CONSTANTS
  StartUs = {1000000, 1999950}
  DelaysMs = {0, 1}
  Tolerance = 1000
  MaxWakeups = 20000

SPECIFICATION Spec
INVARIANT TypeOK
PROPERTY TimerEventuallyRuns
