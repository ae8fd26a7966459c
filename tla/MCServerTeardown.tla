-------------------------- MODULE MCServerTeardown --------------------------
(***************************************************************************)
(* Model-checking instance of ServerTeardown.                              *)
(***************************************************************************)
EXTENDS ServerTeardown
=============================================================================
