\* a peer that sends two chunks before the loop reads (edge-triggered read).
CONSTANTS
  MsgSizes = {1, 2}
  MaxSends = 2
  SndBuf = 1
  MaxPeerChunks = 2
  PeerResets = TRUE
  HighWaterMark = 2
  HasWriteCompleteCb = TRUE
  HasHighWaterMarkCb = TRUE
  u1 = u1
  UserThreads <- NoUserThreads

SPECIFICATION Spec
PROPERTY ReadableDataEventuallyRead
