---------------------------- MODULE MCTcpClient ----------------------------
(***************************************************************************)
(* Model-checking instance of TcpClient.                                   *)
(***************************************************************************)
EXTENDS TcpClient
=============================================================================
