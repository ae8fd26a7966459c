\* shutdown/forceClose from another thread racing handleClose.
CONSTANTS
  MsgSizes = {1, 2}
  MaxSends = 2
  SndBuf = 1
  MaxPeerChunks = 1
  PeerResets = TRUE
  HighWaterMark = 2
  HasWriteCompleteCb = TRUE
  HasHighWaterMarkCb = TRUE
  u1 = u1
  UserThreads <- OneUserThread

SPECIFICATION Spec
PROPERTY DisconnectedIsFinal
