--------------------------- MODULE ServerContract ---------------------------
(***************************************************************************)
(* What a server transaction promises to its user: when a CANCEL or an ACK *)
(* comes out of Cancels() and Acks(), that an error comes out of Errors()  *)
(* once at most, and that the transaction never ends before the user's     *)
(* final response unless sending failed or it was terminated from outside. *)
(***************************************************************************)
EXTENDS Naturals

VARIABLES
  invite,   \* whether the request is an INVITE
  verdict,  \* class of the final response that was accepted from the user
  acks,     \* number of ACKs passed up
  cancels,  \* number of CANCELs passed up
  errs,     \* number of errors reported
  closed,   \* the transaction is done
  aborted   \* it was terminated from outside

vars == <<invite, verdict, acks, cancels, errs, closed, aborted>>

\* The first final response is the answer; later ones do not change it.
Answer(class) ==
  /\ verdict = "nil"
  /\ verdict' = class
  /\ UNCHANGED <<invite, acks, cancels, errs, closed, aborted>>

\* A CANCEL is of use only as long as there is no answer.
PassCancel ==
  /\ ~closed
  /\ invite /\ verdict = "nil" /\ errs = 0
  /\ cancels' = cancels + 1
  /\ UNCHANGED <<invite, verdict, acks, errs, closed, aborted>>

\* Every ACK of a 2xx is passed up, of a 300+ only one.
PassAck ==
  /\ ~closed
  /\ invite /\ verdict # "nil" /\ errs = 0
  /\ verdict = "user_300_plus" => acks = 0
  /\ acks' = acks + 1
  /\ UNCHANGED <<invite, verdict, cancels, errs, closed, aborted>>

\* No error after an ACK, and none for an accepted INVITE.
Report ==
  /\ ~closed
  /\ errs = 0 /\ acks = 0
  /\ ~(invite /\ verdict = "user_2xx")
  /\ errs' = 1
  /\ UNCHANGED <<invite, verdict, acks, cancels, closed, aborted>>

\* The end of the transaction by itself.
Close ==
  /\ ~closed
  /\ verdict # "nil" \/ errs = 1
  /\ closed' = TRUE
  /\ UNCHANGED <<invite, verdict, acks, cancels, errs, aborted>>

\* Terminate
Abort ==
  /\ ~closed
  /\ closed' = TRUE
  /\ aborted' = TRUE
  /\ UNCHANGED <<invite, verdict, acks, cancels, errs>>

Init ==
  /\ invite \in BOOLEAN
  /\ verdict = "nil"
  /\ acks = 0 /\ cancels = 0 /\ errs = 0
  /\ closed = FALSE /\ aborted = FALSE

Next == \/ \E class \in {"user_2xx", "user_300_plus"} : Answer(class)
        \/ PassCancel
        \/ PassAck
        \/ Report
        \/ Close
        \/ Abort

Spec == Init /\ [][Next]_vars
=============================================================================
