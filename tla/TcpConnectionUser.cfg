\* The connection with a second thread calling send, shutdown and forceClose
\* while the loop thread runs: the same bounds as TcpConnection.cfg.
CONSTANTS
  MsgSizes = {1, 2}
  MaxSends = 2
  SndBuf = 1
  MaxPeerChunks = 1
  PeerResets = TRUE
  HighWaterMark = 2
  HasWriteCompleteCb = TRUE
  HasHighWaterMarkCb = TRUE
  u1 = u1
  UserThreads <- OneUserThread

SPECIFICATION Spec
INVARIANT StreamIntegrity
INVARIANT PendingFunctorsWakeLoop
