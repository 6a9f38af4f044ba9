----------------------------- MODULE MCClientTx -----------------------------
(***************************************************************************)
(* The instances of ClientTx that TLC checks.  Each channel holds one      *)
(* element, so that a full channel and a blocked goroutine occur.          *)
(***************************************************************************)
EXTENDS ClientTx
=============================================================================
