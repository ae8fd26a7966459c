\* A client that may connect, stop and connect again (so a stop() can
\* race the next start()), through up to five failed attempts (refused,
\* self-connect), which with the stop's retry reach the 30 s cap, and one
\* close of the established connection, which restarts the connector.
CONSTANTS
  MaxStarts = 2
  MaxStops = 1
  MaxFailures = 5
  MaxCloses = 1
  RetryEnabled = TRUE
SPECIFICATION Spec
INVARIANT TypeOK
INVARIANT RetryBackoff
