\* connect(), stop(), connect() from a user thread, with no network
\* failures and no closes: startInLoop, stopInLoop and startInLoop are
\* queued together, and the resetChannel that stopInLoop queues runs one
\* drain later, after the second connect() has made a new Channel.
CONSTANTS
  MaxStarts = 2
  MaxStops = 1
  MaxFailures = 0
  MaxCloses = 0
  RetryEnabled = TRUE

SPECIFICATION Spec
PROPERTY ConnectingResolves
