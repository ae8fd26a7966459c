-------------------------- MODULE MCTcpConnection --------------------------
(***************************************************************************)
(* Model-checking instance of TcpConnection.                               *)
(***************************************************************************)
EXTENDS TcpConnection, TLC

CONSTANTS u1   \* a user thread, a model value

\* The application on the loop thread only (echo_server / echo_client).
NoUserThreads == {}
\* One thread besides the loop thread calls send/shutdown/forceClose.
OneUserThread == {u1}
=============================================================================
