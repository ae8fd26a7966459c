------------------------------ MODULE ByteQueue ------------------------------
(***************************************************************************)
(* What a Buffer promises its users (TcpConnection's input and output      *)
(* buffers, message callbacks): a queue of bytes.  Bytes are appended at   *)
(* the back, by append or by a read from the socket, and taken from the    *)
(* front, by retrieve or as a string; writeFd copies a prefix to the       *)
(* socket without taking it.  Spec section 8: append then retrieve(len)    *)
(* returns exactly the first len appended bytes and leaves the rest.       *)
(***************************************************************************)
EXTENDS Sequences, SequencesExt

VARIABLES
  q,      \* the readable bytes, oldest first
  in,     \* bytes that have arrived on the socket and not been read
  out,    \* bytes written to the socket
  str     \* the last string taken from the front

vars == <<q, in, out, str>>

Init == q = <<>> /\ in = <<>> /\ out = <<>> /\ str = <<>>

Drop(s, n) == SubSeq(s, n + 1, Len(s))

\* Bytes are added at the back.
Put == IsPrefix(q, q') /\ UNCHANGED <<in, out, str>>

\* A prefix is discarded.
Discard == IsSuffix(q', q) /\ UNCHANGED <<in, out, str>>

\* A prefix is taken as a string.
Take == \E n \in 0..Len(q) : str' = SubSeq(q, 1, n) /\ q' = Drop(q, n)
                              /\ UNCHANGED <<in, out>>

\* A prefix of the arrived bytes moves to the back.
Receive == \E n \in 0..Len(in) : q' = q \o SubSeq(in, 1, n) /\ in' = Drop(in, n)
                                  /\ UNCHANGED <<out, str>>

\* A prefix is copied to the socket.
Send == \E n \in 0..Len(q) : out' = out \o SubSeq(q, 1, n) /\ UNCHANGED <<q, in, str>>

\* The peer sends bytes.
Arrive == IsPrefix(in, in') /\ UNCHANGED <<q, out, str>>

Next == Put \/ Discard \/ Take \/ Receive \/ Send \/ Arrive

Spec == Init /\ [][Next]_vars
=============================================================================
