---------------------------- MODULE MCRequestCtx ----------------------------
(***************************************************************************)
(* RequestWithContext and the server for TLC.                              *)
(***************************************************************************)
EXTENDS RequestCtx
=============================================================================
