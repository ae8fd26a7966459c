\* A client that connects once and may stop once, with one failed attempt
\* and one close of the established connection, destroyed by the user
\* while its loop keeps running.
CONSTANTS
  MaxStarts = 1
  MaxStops = 1
  MaxFailures = 1
  MaxCloses = 1
  RetryEnabled = TRUE

INIT ClientInit
NEXT ClientNext
INVARIANT NoUseAfterDestroy
