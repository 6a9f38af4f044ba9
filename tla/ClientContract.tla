--------------------------- MODULE ClientContract ---------------------------
(***************************************************************************)
(* What a client transaction promises to its user, whatever the method,    *)
(* the transport and the timers: the order in which responses and errors   *)
(* come out of Responses() and Errors(), and that the transaction never    *)
(* ends without a verdict unless it is terminated from outside.            *)
(***************************************************************************)
EXTENDS Sequences

VARIABLES
  up,      \* the classes of the responses passed up, in order
  errs,    \* the errors reported, in order
  closed,  \* the transaction is done
  aborted  \* it was terminated from outside

vars == <<up, errs, closed, aborted>>

Passed(class) == \E i \in DOMAIN up : up[i] = class
Verdict       == Passed("2xx") \/ Passed("300_plus")

\* provisional responses, then either any number of 2xx or one 300+
Legal(class) ==
  /\ ~Passed("300_plus")
  /\ class # "2xx" => ~Passed("2xx")

PassUp(class) ==
  /\ ~closed
  /\ Legal(class)
  /\ up' = Append(up, class)
  /\ UNCHANGED <<errs, closed, aborted>>

\* A timeout is the verdict when no final response has come.
Report(kind) ==
  /\ ~closed
  /\ kind = "timeout" => ~Verdict
  /\ errs' = Append(errs, kind)
  /\ UNCHANGED <<up, closed, aborted>>

Close ==
  /\ ~closed
  /\ Verdict \/ errs # << >>
  /\ closed' = TRUE
  /\ UNCHANGED <<up, errs, aborted>>

Abort ==
  /\ ~closed
  /\ closed' = TRUE
  /\ aborted' = TRUE
  /\ UNCHANGED <<up, errs>>

Init == up = << >> /\ errs = << >> /\ closed = FALSE /\ aborted = FALSE

Next == \/ \E class \in {"1xx", "2xx", "300_plus"} : PassUp(class)
        \/ \E kind \in {"transport", "timeout"} : Report(kind)
        \/ Close
        \/ Abort

Spec == Init /\ [][Next]_vars
=============================================================================
