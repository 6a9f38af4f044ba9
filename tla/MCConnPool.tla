----------------------------- MODULE MCConnPool -----------------------------
(***************************************************************************)
(* The instances of ConnPool that TLC checks.  Two connections with one    *)
(* key meet when the second one is put after the first was dropped.        *)
(***************************************************************************)
EXTENDS ConnPool
=============================================================================
