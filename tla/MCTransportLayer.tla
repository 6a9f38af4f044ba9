-------------------------- MODULE MCTransportLayer --------------------------
(***************************************************************************)
(* The transport layer for TLC: UDP and TCP, two ports, two calls of       *)
(* Listen and one of Send.                                                 *)
(***************************************************************************)
EXTENDS TransportLayer

\* Bounds: the two calls of Listen are for one protocol (Send may use the other), and there
\* is only one if the message has its port in Via; one listener of a protocol breaks.
Bounds ==
  /\ \A l, k \in ListenCalls :
       listen[l] # "idle" /\ listen[k] # "idle" =>
         args[l].p = args[k].p /\ (l = k \/ \A s \in SendCalls : ~msg[s].set)
  /\ Cardinality({x \in closed : protocol[x[1]] # "done"}) <= 1
=============================================================================
