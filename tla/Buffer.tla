------------------------------- MODULE Buffer -------------------------------
(***************************************************************************)
(* Buffer (include/net/Buffer.h): a vector<char> with a reader and a       *)
(* writer index and cheap_prepend bytes reserved in front.  The actions    *)
(* are its public operations, called in any order by one thread, with a   *)
(* peer filling the socket that readFd reads.  The sizes are constants so *)
(* that the 8-byte prepend, the 1024-byte initial size and the 64 KiB      *)
(* extrabuf of readFd can be scaled down while keeping their relations.    *)
(***************************************************************************)
EXTENDS Naturals, Sequences, SequencesExt

CONSTANTS
  Bytes,          \* byte values
  CheapPrepend,   \* cheap_prepend
  InitialSize,    \* initial_size
  ExtraBufSize,   \* sizeof(extrabuf) in readFd
  AppendLens,     \* lengths passed to append
  MaxBytes        \* bound on the bytes appended, sent by the peer, and
                  \* written by writeFd

ASSUME CheapPrepend \in Nat /\ InitialSize \in Nat /\ ExtraBufSize \in Nat
       /\ AppendLens \subseteq Nat \ {0} /\ MaxBytes \in Nat

\* The value a byte of the vector has before it is written: std::vector
\* value-initializes, on construction and on resize.
Zero == "nul"

VARIABLES
  buf,     \* buffer_
  read,    \* read_index_
  write,   \* writer_index_
  in,      \* bytes on the socket not yet read
  out,     \* bytes written to the socket by writeFd
  str,     \* the string retrieveAsString returned last
  total    \* bytes appended or sent by the peer so far

vars == <<buf, read, write, in, out, str, total>>
-----------------------------------------------------------------------------
\* A Buffer as a value, so that append can use what makeSpace leaves.
B == [buf |-> buf, read |-> read, write |-> write]

WriteableBytes(b) == Len(b.buf) - b.write
ReadableBytes(b) == b.write - b.read
PrependableBytes(b) == b.read

\* The readable bytes: peek() .. beginWrite().
Contents(b) == SubSeq(b.buf, b.read + 1, b.write)

Drop(s, n) == SubSeq(s, n + 1, Len(s))

\* std::copy of s into the vector from index at on (0-based).
CopyIn(v, at, s) == [i \in 1..Len(v) |-> IF at < i /\ i <= at + Len(s) THEN s[i - at] ELSE v[i]]

\* Mutant of RetrieveAll: both indices set to 0, over the prepend area.
RetrieveAllZero(b) == [b EXCEPT !.read = 0, !.write = 0]

\* retrieveAll: read_index_ = writer_index_ = cheap_prepend.
RetrieveAll(b) == [b EXCEPT !.read = CheapPrepend, !.write = CheapPrepend]

\* Mutant of Retrieve: the whole-buffer case only for len > readable.
RetrieveOffByOne(b, len) ==
  IF len <= ReadableBytes(b) THEN [b EXCEPT !.read = @ + len] ELSE RetrieveAll(b)

\* retrieve(len): advance read_index_, or retrieveAll when len covers
\* every readable byte.
Retrieve(b, len) ==
  IF len < ReadableBytes(b) THEN [b EXCEPT !.read = @ + len] ELSE RetrieveAll(b)

\* Mutant of MakeSpace: the readable bytes are moved but writer_index_ is
\* set to read_index_.
MakeSpaceNoSize(b, len) ==
  IF WriteableBytes(b) + PrependableBytes(b) < len + CheapPrepend
  THEN [b EXCEPT !.buf = @ \o [i \in 1..(b.write + len - Len(b.buf)) |-> Zero]]
  ELSE [buf |-> CopyIn(b.buf, CheapPrepend, Contents(b)),
        read |-> CheapPrepend, write |-> CheapPrepend]

\* makeSpace(len): resize the vector to writer_index_ + len, or move the
\* readable bytes to the front when the prependable slack is enough.
MakeSpace(b, len) ==
  IF WriteableBytes(b) + PrependableBytes(b) < len + CheapPrepend
  THEN [b EXCEPT !.buf = @ \o [i \in 1..(b.write + len - Len(b.buf)) |-> Zero]]
  ELSE [buf |-> CopyIn(b.buf, CheapPrepend, Contents(b)),
        read |-> CheapPrepend, write |-> CheapPrepend + ReadableBytes(b)]

\* append(str, len): makeSpace if the tail is too short, copy, advance
\* writer_index_.
AppendB(b, s) ==
  LET c == IF WriteableBytes(b) < Len(s) THEN MakeSpace(b, Len(s)) ELSE b
  IN [c EXCEPT !.buf = CopyIn(c.buf, c.write, s), !.write = @ + Len(s)]

SetB(b) == buf' = b.buf /\ read' = b.read /\ write' = b.write
-----------------------------------------------------------------------------
\* The constructor: buffer_(initial_size + cheap_prepend), both indices at
\* cheap_prepend (the size argument is ignored).
Init ==
  /\ buf = [i \in 1..(InitialSize + CheapPrepend) |-> Zero]
  /\ read = CheapPrepend /\ write = CheapPrepend
  /\ in = <<>> /\ out = <<>> /\ str = <<>> /\ total = 0

\* append(const char *, size_t), and the overloads that forward to it.
AppendOp ==
  \E n \in AppendLens : \E s \in [1..n -> Bytes] :
    /\ total + n <= MaxBytes
    /\ total' = total + n
    /\ SetB(AppendB(B, s))
    /\ UNCHANGED <<in, out, str>>

\* retrieve(len); a len beyond readableBytes() empties the buffer.
RetrieveOp ==
  /\ \E len \in 0..(ReadableBytes(B) + 1) : SetB(Retrieve(B, len))
  /\ UNCHANGED <<in, out, str, total>>

RetrieveAllOp ==
  /\ SetB(RetrieveAll(B))
  /\ UNCHANGED <<in, out, str, total>>

\* retrieveAsString(len) with len <= readableBytes(), which
\* retrieveAllAsString passes: the string of the first len bytes, then
\* retrieve(len).  A longer len reads past writer_index_ and is not used.
RetrieveAsString ==
  /\ \E len \in 0..ReadableBytes(B) :
       /\ str' = SubSeq(Contents(B), 1, len)
       /\ SetB(Retrieve(B, len))
  /\ UNCHANGED <<in, out, total>>

\* readFd: readv into the writable tail and, when that is shorter than
\* extrabuf, into extrabuf as well; n <= writeable advances writer_index_,
\* otherwise writer_index_ = buffer_.size() and extrabuf's n - writeable
\* bytes are appended.  With nothing on the socket readv fails (EAGAIN).
ReadFd ==
  /\ in # <<>>
  /\ LET w == WriteableBytes(B)
         cap == IF w < ExtraBufSize THEN w + ExtraBufSize ELSE w
         n == IF Len(in) < cap THEN Len(in) ELSE cap
         data == SubSeq(in, 1, n)
     IN /\ in' = Drop(in, n)
        /\ IF n <= w
           THEN SetB([B EXCEPT !.buf = CopyIn(buf, write, data), !.write = @ + n])
           ELSE SetB(AppendB([B EXCEPT !.buf = CopyIn(buf, write, SubSeq(data, 1, w)),
                                       !.write = Len(buf)], Drop(data, w)))
  /\ UNCHANGED <<out, str, total>>

\* writeFd: write(fd, peek(), readableBytes()) sends some prefix; the
\* Buffer is unchanged (the caller retrieves what was written).
WriteFd ==
  /\ \E n \in 0..ReadableBytes(B) :
       /\ Len(out) + n <= MaxBytes
       /\ out' = out \o SubSeq(Contents(B), 1, n)
  /\ UNCHANGED <<buf, read, write, in, str, total>>

\* The peer sends a byte.
PeerSend ==
  /\ total < MaxBytes
  /\ \E x \in Bytes : in' = Append(in, x)
  /\ total' = total + 1
  /\ UNCHANGED <<buf, read, write, out, str>>

Next == AppendOp \/ RetrieveOp \/ RetrieveAllOp \/ RetrieveAsString \/ ReadFd
        \/ WriteFd \/ PeerSend

Spec == Init /\ [][Next]_vars
-----------------------------------------------------------------------------
TypeOK ==
  /\ buf \in Seq(Bytes \cup {Zero})
  /\ CheapPrepend <= read /\ read <= write /\ write <= Len(buf)
  /\ in \in Seq(Bytes) /\ out \in Seq(Bytes) /\ str \in Seq(Bytes)
  /\ Len(out) <= MaxBytes
  /\ total \in 0..MaxBytes

(* Spec section 8: once every readable byte has been retrieved the       *)
(* buffer is back in its empty, fully prependable state (retrieve's       *)
(* len < readableBytes() test sends the exact case to retrieveAll).      *)
EmptyIsReset == ReadableBytes(B) = 0 => read = CheapPrepend /\ write = CheapPrepend

(* The Buffer implements ByteQueue: through makeSpace's moves and         *)
(* resizes and readFd's extrabuf, the bytes between the two indices are  *)
(* always exactly the bytes appended or read and not yet retrieved, in    *)
(* order, and writeFd and retrieveAsString hand out a prefix of them.    *)
BQ == INSTANCE ByteQueue WITH q <- Contents(B)
BufferIsByteQueue == BQ!Spec
=============================================================================
