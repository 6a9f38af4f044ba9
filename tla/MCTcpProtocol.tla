--------------------------- MODULE MCTcpProtocol ---------------------------
(***************************************************************************)
(* The instances of TcpProtocol that TLC checks.                           *)
(***************************************************************************)
EXTENDS TcpProtocol
=============================================================================
