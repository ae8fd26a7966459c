---------------------------- MODULE MCConnector ----------------------------
(***************************************************************************)
(* Model-checking instance of Connector.                                   *)
(***************************************************************************)
EXTENDS Connector
=============================================================================
