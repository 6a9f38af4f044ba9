----------------------------- MODULE MCServerTx -----------------------------
(***************************************************************************)
(* The instances of ServerTx that TLC checks.  The channels hold one       *)
(* element, so that a full channel and a blocked goroutine occur.          *)
(***************************************************************************)
EXTENDS ServerTx
=============================================================================
