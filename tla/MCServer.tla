------------------------------ MODULE MCServer ------------------------------
(***************************************************************************)
(* The server for TLC: three requests, two callers of Shutdown.  Requests  *)
(* are interchangeable, and so are the callers: only the behaviours that   *)
(* take them in order are explored.                                        *)
(***************************************************************************)
EXTENDS Server

InOrder ==
  /\ \A r, q \in Reqs : task[r] # "none" /\ q < r => task[q] # "none"
  /\ stop["signal"] # "idle" => stop["app"] # "idle"
=============================================================================
