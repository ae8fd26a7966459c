\* forceClose from a callback and a peer FIN on the same loop thread.
CONSTANTS
  MsgSizes = {1, 2}
  MaxSends = 2
  SndBuf = 1
  MaxPeerChunks = 1
  PeerResets = TRUE
  HighWaterMark = 2
  HasWriteCompleteCb = TRUE
  HasHighWaterMarkCb = TRUE
  u1 = u1
  UserThreads <- NoUserThreads

SPECIFICATION Spec
INVARIANT CloseCallbackAtMostOnce
