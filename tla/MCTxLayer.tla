------------------------------ MODULE MCTxLayer ------------------------------
(***************************************************************************)
(* The instances of TxLayer that TLC checks.                               *)
(***************************************************************************)
EXTENDS TxLayer
=============================================================================
