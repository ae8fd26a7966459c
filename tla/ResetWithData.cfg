\* The connection with an application on the loop thread only: messages of
\* one and two bytes through a one-byte send buffer (partial writes and
\* EAGAIN), a high-water mark of two, a peer that may send, close or reset.
CONSTANTS
  MsgSizes = {1, 2}
  MaxSends = 2
  SndBuf = 1
  MaxPeerChunks = 1
  PeerResets = TRUE
  HighWaterMark = 2
  HasWriteCompleteCb = TRUE
  HasHighWaterMarkCb = TRUE
  u1 = u1
  UserThreads <- NoUserThreads

SPECIFICATION Spec
PROPERTY ResetTearsDown
