\* runAfter(0.001): the timer should run 1 ms after the call.
CONSTANTS
  StartUs = {1000000}
  DelaysMs = {1}
  Tolerance = 1000
  MaxWakeups = 20000

SPECIFICATION Spec
INVARIANT FiresByDeadline
