\* cheap_prepend 8, initial_size 1024 and the 64 KiB extrabuf scaled to
\* 2, 2 and 2: appends of one to three bytes and peer data up to six bytes
\* in all reach both branches of makeSpace (resize and move to the front)
\* and readFd's extrabuf path.
CONSTANTS
  Bytes = {"a", "b"}
  CheapPrepend = 2
  InitialSize = 2
  ExtraBufSize = 2
  AppendLens = {1, 3}
  MaxBytes = 4

SPECIFICATION Spec
INVARIANT TypeOK
INVARIANT EmptyIsReset
PROPERTY BufferIsByteQueue
