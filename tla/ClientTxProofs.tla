--------------------------- MODULE ClientTxProofs ---------------------------
(***************************************************************************)
(* Proofs about ClientTx, for every capacity of the two channels and every *)
(* bound: its types, that a panic needs Terminate or the race of timer A   *)
(* with a provisional response, that a request is not sent again once it   *)
(* is answered, and that the transaction implements ClientContract.        *)
(*                                                                         *)
(* All of them rest on one inductive invariant, which ties what the        *)
(* goroutine that holds the FSM lock has still to do (prog) to the state   *)
(* of the FSM, to timer A and to what the user has been given so far.      *)
(***************************************************************************)
EXTENDS ClientTx, TLAPS

\* What is left of the actions once their first steps are done.
left_resend       == <<"resend">>
left_stop_a       == <<"stop_a">>
left_stop_ab      == <<"stop_ab">>
left_arm_b        == <<"arm_b">>
left_arm_d        == <<"arm_d">>
left_arm_m        == <<"arm_m">>
left_stop_delete  == <<"stop_a", "input_delete">>
left_input_delete == <<"input_delete">>
left_stop_timers  == <<"stop_timers">>

\* The programs that still reset timer A, still resend, still pass a response up,
\* and still close the channels.
Resending == {act_invite_resend, act_non_invite_resend, left_resend}
Passing   == {act_passup, act_invite_proceeding, act_invite_final,
              act_non_invite_final, act_passup_accept}
Deleting  == {act_delete, left_stop_delete, left_input_delete}

Programs  == {<< >>, act_invite_resend, act_non_invite_resend, left_resend, act_passup,
              left_stop_a, act_invite_proceeding, left_stop_ab, act_invite_final,
              act_non_invite_final, left_arm_d, act_passup_accept, left_arm_m, act_cancel,
              act_cancel_timeout, left_arm_b, act_ack, act_trans_err, act_timeout,
              accepted_trans_err, left_stop_delete, left_input_delete, act_delete,
              left_stop_timers}

\* What the errs channel carries.
Errors    == {"transport", "timeout"}

\* What may be left to do in each state of the FSM.
ProgOK ==
  \/ prog = << >>
  \/ state = "calling" /\ inv /\ prog \in {act_cancel, act_invite_resend, left_resend}
  \/ state = "calling" /\ ~inv /\ prog \in {act_non_invite_resend, left_resend}
  \/ state = "proceeding" /\ prog \in {act_passup, left_stop_a}
  \/ state = "proceeding" /\ inv
       /\ prog \in {act_invite_proceeding, left_stop_ab, act_cancel_timeout, left_arm_b}
  \/ state = "proceeding" /\ ~inv /\ prog = act_non_invite_resend
  \/ state = "completed" /\ prog \in {act_non_invite_final, left_arm_d}
  \/ state = "completed" /\ inv /\ prog \in {act_invite_final, act_ack}
  \/ state = "accepted"
       /\ prog \in {act_passup_accept, left_arm_m, act_invite_final, act_non_invite_final,
                    left_arm_d, act_passup, left_stop_a, accepted_trans_err}
  \/ state = "terminated"
       /\ prog \in {act_timeout, act_trans_err, left_stop_delete, left_input_delete,
                    act_delete, left_stop_timers}

\* Timer A runs, or its callback is under way, only for a request that went out over
\* an unreliable transport; it is there until a response, an end or Terminate; and
\* in proceeding a non-INVITE has none once act_passup is over.  Before Init has
\* succeeded no response reaches the FSM.
TimerAOK ==
  /\ ~known => state \in {"calling", "terminated"}
  /\ timer["timer_a"] # "nil" \/ waiting["timer_a"] > 0 \/ prog \in Resending
       => known /\ ~reliable
  /\ state = "calling" /\ known /\ ~reliable /\ term = "idle" => timer["timer_a"] # "nil"
  /\ state = "proceeding" /\ ~inv /\ prog \notin {act_passup, left_stop_a}
       => timer["timer_a"] = "nil"

Only(classes) == \A i \in DOMAIN passed : passed[i] \in classes
Final == Contract!Verdict

\* What the user has been given, by the state and by what is left to do.  Only Receive
\* passes responses up, and the one it has stored stays in lastResp until the FSM takes it.
GivenOK ==
  /\ state = "calling" => lastResp \in {"nil", receiving} /\ passed = << >>
  /\ receiving \in RespClass => lastResp = receiving
  /\ prog \in Passing => receiving = "fsm"
  /\ prog \in Passing => /\ state = "proceeding" => lastResp = "1xx"
                         /\ state = "completed"  => lastResp \in {"2xx", "300_plus"}
                         /\ state = "accepted"   => lastResp = "2xx"
  /\ state \in {"calling", "proceeding"} \/ prog = act_timeout => Only({"1xx"})
  /\ state = "completed" /\ prog \in Passing => Only({"1xx"})
  /\ state = "accepted" => Only({"1xx", "2xx"})
  /\ state \in {"completed", "accepted"} /\ prog \notin Passing /\ ~done => Final
  /\ prog \in Deleting /\ ~done => Final \/ reported # << >>

\* Only the terminated state, or Terminate, closes the channels.
DoneOK == done /\ term = "idle" => state = "terminated"

IInv == TypeOK /\ ProgOK /\ TimerAOK /\ GivenOK /\ DoneOK /\ PanicNeedsTerminate

-----------------------------------------------------------------------------
(***************************************************************************)
(* Facts about the programs.  The later proofs use these and leave the     *)
(* sequences unexpanded.                                                   *)
(***************************************************************************)

\* The first step of each program, and what is left after it.
LEMMA ProgSteps ==
  /\ Head(act_invite_resend) = "reset_a" /\ Tail(act_invite_resend) = left_resend
  /\ Head(act_non_invite_resend) = "reset_a_capped"
  /\ Tail(act_non_invite_resend) = left_resend
  /\ Head(left_resend) = "resend" /\ Tail(left_resend) = << >>
  /\ Head(act_passup) = "passUp" /\ Tail(act_passup) = left_stop_a
  /\ Head(act_invite_proceeding) = "passUp" /\ Tail(act_invite_proceeding) = left_stop_ab
  /\ Head(act_invite_final) = "ack" /\ Tail(act_invite_final) = act_non_invite_final
  /\ Head(act_non_invite_final) = "passUp" /\ Tail(act_non_invite_final) = left_arm_d
  /\ Head(act_passup_accept) = "passUp" /\ Tail(act_passup_accept) = left_arm_m
  /\ Head(act_cancel) = "cancel" /\ Tail(act_cancel) = << >>
  /\ Head(act_cancel_timeout) = "cancel" /\ Tail(act_cancel_timeout) = left_arm_b
  /\ Head(act_ack) = "ack" /\ Tail(act_ack) = << >>
  /\ Head(act_trans_err) = "transportErr" /\ Tail(act_trans_err) = left_stop_delete
  /\ Head(act_timeout) = "timeoutErr" /\ Tail(act_timeout) = left_stop_delete
  /\ Head(accepted_trans_err) = "transportErr" /\ Tail(accepted_trans_err) = left_stop_a
  /\ Head(act_delete) = "delete" /\ Tail(act_delete) = << >>
  /\ Head(left_stop_a) = "stop_a" /\ Tail(left_stop_a) = << >>
  /\ Head(left_stop_ab) = "stop_ab" /\ Tail(left_stop_ab) = << >>
  /\ Head(left_arm_b) = "arm_b" /\ Tail(left_arm_b) = << >>
  /\ Head(left_arm_d) = "arm_d" /\ Tail(left_arm_d) = << >>
  /\ Head(left_arm_m) = "arm_m" /\ Tail(left_arm_m) = << >>
  /\ Head(left_stop_delete) = "stop_a" /\ Tail(left_stop_delete) = left_input_delete
  /\ Head(left_input_delete) = "input_delete" /\ Tail(left_input_delete) = << >>
  /\ Head(left_stop_timers) = "stop_timers" /\ Tail(left_stop_timers) = << >>
BY DEF act_invite_resend, act_non_invite_resend, left_resend, act_passup, left_stop_a,
  act_invite_proceeding, left_stop_ab, act_invite_final, act_non_invite_final, left_arm_d,
  act_passup_accept, left_arm_m, act_cancel, act_cancel_timeout, left_arm_b, act_ack,
  act_trans_err, left_stop_delete, act_timeout, accepted_trans_err, act_delete,
  left_input_delete, left_stop_timers

\* No program is empty.
LEMMA ProgsNotEmpty ==
  /\ << >> \notin Passing /\ << >> \notin Deleting /\ << >> \notin Resending
  /\ act_passup # << >> /\ left_stop_a # << >> /\ act_timeout # << >>
BY DEF Passing, Deleting, Resending, left_stop_a, act_timeout, act_invite_resend, act_non_invite_resend, left_resend,
  act_passup, act_invite_proceeding, act_invite_final, act_non_invite_final,
  act_passup_accept, act_delete, left_stop_delete, left_input_delete

\* Every program consists of steps.
LEMMA ProgTypes == Programs \subseteq Seq(Ops)
<1>1. /\ act_invite_resend \in Seq(Ops) /\ act_non_invite_resend \in Seq(Ops)
      /\ left_resend \in Seq(Ops)
      /\ act_passup \in Seq(Ops) /\ act_invite_proceeding \in Seq(Ops)
      /\ left_stop_a \in Seq(Ops) /\ left_stop_ab \in Seq(Ops)
  BY DEF Ops, act_invite_resend, act_non_invite_resend, left_resend, act_passup,
    left_stop_a, act_invite_proceeding, left_stop_ab
<1>2. /\ act_invite_final \in Seq(Ops) /\ act_non_invite_final \in Seq(Ops)
      /\ left_arm_d \in Seq(Ops)
      /\ act_passup_accept \in Seq(Ops) /\ left_arm_m \in Seq(Ops)
      /\ act_cancel \in Seq(Ops) /\ act_cancel_timeout \in Seq(Ops)
      /\ left_arm_b \in Seq(Ops) /\ act_ack \in Seq(Ops)
  BY DEF Ops, act_invite_final, act_non_invite_final, left_arm_d, act_passup_accept,
    left_arm_m, act_cancel, act_cancel_timeout, left_arm_b, act_ack
<1>3. /\ act_trans_err \in Seq(Ops) /\ act_timeout \in Seq(Ops)
      /\ accepted_trans_err \in Seq(Ops)
      /\ left_stop_delete \in Seq(Ops) /\ left_input_delete \in Seq(Ops)
      /\ act_delete \in Seq(Ops) /\ left_stop_timers \in Seq(Ops)
  BY DEF Ops, act_trans_err, left_stop_delete, act_timeout, accepted_trans_err,
    act_delete, left_input_delete, left_stop_timers
<1>4. << >> \in Seq(Ops)
  OBVIOUS
<1> QED BY <1>1, <1>2, <1>3, <1>4, Zenon DEF Programs

\* What the actions of the tables do not do.
LEMMA ActionKinds ==
  /\ act_cancel \notin Passing /\ act_cancel_timeout \notin Passing
  /\ act_invite_resend \notin Passing /\ act_non_invite_resend \notin Passing
  /\ act_timeout \notin Passing /\ act_trans_err \notin Passing
  /\ accepted_trans_err \notin Passing /\ act_delete \notin Passing
  /\ act_ack \notin Passing
  /\ act_cancel \notin Deleting /\ act_cancel_timeout \notin Deleting
  /\ act_invite_resend \notin Deleting /\ act_non_invite_resend \notin Deleting
  /\ act_timeout \notin Deleting /\ act_trans_err \notin Deleting
  /\ accepted_trans_err \notin Deleting /\ act_ack \notin Deleting
  /\ act_passup \notin Deleting /\ act_invite_proceeding \notin Deleting
  /\ act_invite_final \notin Deleting /\ act_non_invite_final \notin Deleting
  /\ act_passup_accept \notin Deleting
  /\ act_cancel \notin Resending /\ act_cancel_timeout \notin Resending
  /\ act_timeout \notin Resending /\ act_trans_err \notin Resending
  /\ accepted_trans_err \notin Resending /\ act_ack \notin Resending
  /\ act_delete \notin Resending
  /\ act_passup \notin Resending /\ act_invite_proceeding \notin Resending
  /\ act_invite_final \notin Resending /\ act_non_invite_final \notin Resending
  /\ act_passup_accept \notin Resending
<1>1. \A p \in Passing : p = act_invite_final \/ Head(p) = "passUp"
  BY ProgSteps DEF Passing
<1>2. \A p \in Deleting : Head(p) \in {"delete", "stop_a", "input_delete"}
  BY ProgSteps DEF Deleting
<1>3. \A p \in Resending : Head(p) \in {"reset_a", "reset_a_capped", "resend"}
  BY ProgSteps DEF Resending
<1>4. act_ack # act_invite_final
  BY DEF act_ack, act_invite_final
<1> QED BY <1>1, <1>2, <1>3, <1>4, ProgSteps

\* Which programs can be left after a step, by what they still do.
LEMMA RestOf ==
  ASSUME ProgOK, prog # << >>
  PROVE  /\ Rest \in Passing => prog = act_invite_final
         /\ Rest \in Deleting => prog \in {act_trans_err, act_timeout, left_stop_delete}
         /\ Rest \in Resending => prog \in Resending
         /\ Rest # act_timeout
<1>1. \/ prog = act_invite_final /\ Rest = act_non_invite_final
      \/ prog \in {act_trans_err, act_timeout} /\ Rest = left_stop_delete
      \/ prog = left_stop_delete /\ Rest = left_input_delete
      \/ prog \in Resending /\ Rest \in {<< >>, left_resend}
      \/ Rest \in {<< >>, left_stop_a, left_stop_ab, left_arm_b, left_arm_d, left_arm_m}
  BY ProgSteps DEF ProgOK, Rest, Resending
<1>2. \A p \in {left_stop_a, left_stop_ab, left_arm_b, left_arm_d, left_arm_m} :
        p \notin Passing /\ p \notin Deleting /\ p \notin Resending /\ p # act_timeout
  <2>1. left_stop_a # left_stop_delete
    BY ProgSteps, ProgsNotEmpty DEF Deleting
  <2>2. \A p \in Passing \cup Resending :
          Head(p) \in {"passUp", "ack", "reset_a", "reset_a_capped", "resend"}
    BY ProgSteps DEF Passing, Resending
  <2>3. \A p \in Deleting : p = left_stop_delete \/ Head(p) \in {"delete", "input_delete"}
    BY ProgSteps DEF Deleting
  <2>4. \A p \in {left_stop_a, left_stop_ab, left_arm_b, left_arm_d, left_arm_m} :
          p = left_stop_a \/ Head(p) \in {"stop_ab", "arm_b", "arm_d", "arm_m"}
    BY ProgSteps
  <2>5. Head(left_stop_a) = "stop_a" /\ Head(left_stop_delete) = "stop_a"
        /\ Head(act_timeout) = "timeoutErr"
    BY ProgSteps
  <2> QED BY <2>1, <2>2, <2>3, <2>4, <2>5
<1>3. /\ act_non_invite_final \notin Deleting \cup Resending \cup {act_timeout}
      /\ left_stop_delete \notin Passing \cup Resending \cup {act_timeout}
      /\ left_input_delete \notin Passing \cup Resending \cup {act_timeout}
      /\ left_resend \notin Passing \cup Deleting \cup {act_timeout}
  BY ProgSteps DEF Passing, Deleting, Resending
<1> QED BY <1>1, <1>2, <1>3, ProgsNotEmpty

\* What fsm.Spin can make of an input in an INVITE transaction.
LEMMA AcceptInvite ==
  ASSUME NEW input, inv, Accept(input)
  PROVE  \/ /\ state' = state /\ prog' = << >>
            /\ ~(state = "calling" /\ input \in RespClass)
         \/ /\ state = "calling"
            /\ \/ input = "1xx" /\ state' = "proceeding" /\ prog' = act_invite_proceeding
               \/ input = "2xx" /\ state' = "accepted" /\ prog' = act_passup_accept
               \/ input = "300_plus" /\ state' = "completed" /\ prog' = act_invite_final
               \/ input = "cancel" /\ state' = state /\ prog' = act_cancel
               \/ input = "timer_a" /\ state' = state /\ prog' = act_invite_resend
         \/ /\ state = "proceeding"
            /\ \/ input = "1xx" /\ state' = state /\ prog' = act_passup
               \/ input = "2xx" /\ state' = "accepted" /\ prog' = act_invite_final
               \/ input = "300_plus" /\ state' = "completed" /\ prog' = act_invite_final
               \/ input = "cancel" /\ state' = state /\ prog' = act_cancel_timeout
         \/ /\ state \in {"calling", "proceeding"}
            /\ input = "timer_b" /\ state' = "terminated" /\ prog' = act_timeout
         \/ /\ state \in {"calling", "proceeding", "completed"}
            /\ input = "transport_err" /\ state' = "terminated" /\ prog' = act_trans_err
         \/ state = "completed" /\ input = "300_plus" /\ state' = state /\ prog' = act_ack
         \/ state = "accepted" /\ input = "2xx" /\ state' = state /\ prog' = act_passup
         \/ /\ state = "accepted" /\ input = "transport_err"
            /\ state' = state /\ prog' = accepted_trans_err
         \/ /\ \/ state = "completed" /\ input = "timer_d"
               \/ state = "accepted" /\ input = "timer_m"
            /\ state' = "terminated" /\ prog' = act_delete
         \/ state = "terminated" /\ input = "delete" /\ state' = state /\ prog' = act_delete
<1>1. CASE ~ \E o \in Outcomes : o[1] = state /\ o[2] = input
  <2>1. /\ <<"calling", "1xx", "proceeding", act_invite_proceeding>> \in Outcomes
        /\ <<"calling", "2xx", "accepted", act_passup_accept>> \in Outcomes
        /\ <<"calling", "300_plus", "completed", act_invite_final>> \in Outcomes
    BY DEF Outcomes, InviteFSM, InviteCalling
  <2>2. \A r \in RespClass : \E o \in Outcomes : o[1] = "calling" /\ o[2] = r
    BY <2>1 DEF RespClass
  <2> QED BY <1>1, <2>2 DEF Accept
<1>2. CASE \E o \in Outcomes : o[1] = state /\ o[2] = input
  <2>1. PICK o \in InviteFSM : /\ o[1] = state /\ o[2] = input
                               /\ state' = o[3] /\ prog' = o[4]
    BY <1>2 DEF Accept, Outcomes
  <2>2. CASE o \in InviteCalling
    BY <2>1, <2>2 DEF InviteCalling, act_invite_canceled, RespClass
  <2>3. CASE o \in InviteProceeding
    BY <2>1, <2>3 DEF InviteProceeding, NO_ACTION, act_invite_canceled
  <2>4. CASE o \in InviteCompleted
    BY <2>1, <2>4 DEF InviteCompleted, NO_ACTION
  <2>5. CASE o \in InviteAccepted
    BY <2>1, <2>5 DEF InviteAccepted, NO_ACTION
  <2>6. CASE o \in InviteTerminated
    BY <2>1, <2>6 DEF InviteTerminated, NO_ACTION
  <2> QED BY <2>1, <2>2, <2>3, <2>4, <2>5, <2>6 DEF InviteFSM
<1> QED BY <1>1, <1>2

\* What fsm.Spin can make of an input in a non-INVITE transaction.
LEMMA AcceptNonInvite ==
  ASSUME NEW input, ~inv, Accept(input)
  PROVE  \/ /\ state' = state /\ prog' = << >>
            /\ ~(state = "calling" /\ input \in RespClass)
         \/ /\ state \in {"calling", "proceeding"}
            /\ \/ input = "1xx" /\ state' = "proceeding" /\ prog' = act_passup
               \/ /\ input \in {"2xx", "300_plus"}
                  /\ state' = "completed" /\ prog' = act_non_invite_final
               \/ input = "timer_a" /\ state' = state /\ prog' = act_non_invite_resend
               \/ input = "timer_b" /\ state' = "terminated" /\ prog' = act_timeout
               \/ input = "transport_err" /\ state' = "terminated" /\ prog' = act_trans_err
         \/ /\ state = "completed" /\ input = "timer_d"
            /\ state' = "terminated" /\ prog' = act_delete
         \/ state = "terminated" /\ input = "delete" /\ state' = state /\ prog' = act_delete
<1>1. CASE ~ \E o \in Outcomes : o[1] = state /\ o[2] = input
  <2>1. /\ <<"calling", "1xx", "proceeding", act_passup>> \in Outcomes
        /\ <<"calling", "2xx", "completed", act_non_invite_final>> \in Outcomes
        /\ <<"calling", "300_plus", "completed", act_non_invite_final>> \in Outcomes
    BY DEF Outcomes, NonInviteFSM, NonInviteTrying
  <2>2. \A r \in RespClass : \E o \in Outcomes : o[1] = "calling" /\ o[2] = r
    BY <2>1 DEF RespClass
  <2> QED BY <1>1, <2>2 DEF Accept
<1>2. CASE \E o \in Outcomes : o[1] = state /\ o[2] = input
  <2>1. PICK o \in NonInviteFSM : /\ o[1] = state /\ o[2] = input
                                  /\ state' = o[3] /\ prog' = o[4]
    BY <1>2 DEF Accept, Outcomes
  <2>2. CASE o \in NonInviteTrying("calling")
    BY <2>1, <2>2 DEF NonInviteTrying, NO_ACTION, RespClass
  <2>3. CASE o \in NonInviteTrying("proceeding")
    BY <2>1, <2>3 DEF NonInviteTrying, NO_ACTION
  <2>4. CASE o \in NonInviteCompleted
    BY <2>1, <2>4 DEF NonInviteCompleted, NO_ACTION
  <2>5. CASE o \in NonInviteTerminated
    BY <2>1, <2>5 DEF NonInviteTerminated, NO_ACTION
  <2> QED BY <2>1, <2>2, <2>3, <2>4, <2>5 DEF NonInviteFSM
<1> QED BY <1>1, <1>2

-----------------------------------------------------------------------------
(***************************************************************************)
(* The inductive invariant, part by part.                                  *)
(***************************************************************************)

\* What a step may do to the two channels and to the end of the transaction.
LEMMA UserEffects ==
  ASSUME [Next]_vars
  PROVE  /\ \/ UNCHANGED <<passed, read>>
            \/ /\ prog # << >> /\ Head(prog) = "passUp" /\ lastResp # "nil" /\ ~done
               /\ Len(passed) - read < RespCap
               /\ passed' = Append(passed, lastResp) /\ read' = read
            \/ passed' = passed /\ read < Len(passed) /\ read' = read + 1
         /\ \/ UNCHANGED <<reported, errRead>>
            \/ /\ prog # << >> /\ ~done /\ Len(reported) - errRead < ErrCap
               /\ \/ Head(prog) = "transportErr" /\ reported' = Append(reported, "transport")
                  \/ Head(prog) = "timeoutErr" /\ reported' = Append(reported, "timeout")
               /\ errRead' = errRead
            \/ reported' = reported /\ errRead < Len(reported) /\ errRead' = errRead + 1
         /\ \/ UNCHANGED <<done, term>>
            \/ prog # << >> /\ Head(prog) = "delete" /\ done' = TRUE /\ term' = term
            \/ ~done /\ term = "idle" /\ done' = TRUE /\ term' = "closed"
            \/ term = "closed" /\ done' = done /\ term' = "returned"
         /\ UNCHANGED <<inv, reliable>>
         /\ \/ UNCHANGED known
            \/ known' = TRUE
<1> USE DEF originVars, fsmVars, timerVars, lastVars, upVars, endVars, boundVars
<1>1. CASE Step
  BY <1>1 DEF Step, cancel, ack, SendOrReport, resend, passUp, transportErr, timeoutErr,
    ReportErr, delete, StopTimers, StopA, StopAB, ArmB, ArmD, ArmM, TimerStep, ResetA,
    InputDelete
<1>2. CASE InitTx
  BY <1>2 DEF InitTx
<1>3. ASSUME NEW class, Receive(class) \/ ReceiveSpin PROVE UNCHANGED <<originVars, upVars, endVars>>
  BY <1>3 DEF Receive, ReceiveSpin
<1>4. CASE Cancel
  BY <1>4 DEF Cancel
<1>5. ASSUME NEW t, Fire(t) PROVE UNCHANGED <<originVars, upVars, endVars>>
  BY <1>5 DEF Fire
<1>6. ASSUME NEW i, SpinAsync(i) PROVE UNCHANGED <<originVars, upVars, endVars>>
  BY <1>6 DEF SpinAsync
<1>7. CASE Terminate
  BY <1>7 DEF Terminate
<1>8. CASE ReadResponse \/ ReadError
  BY <1>8 DEF ReadResponse, ReadError
<1>9. CASE UNCHANGED vars
  BY <1>9 DEF vars
<1> QED BY <1>1, <1>2, <1>3, <1>4, <1>5, <1>6, <1>7, <1>8, <1>9 DEF Next

\* The goroutine of Receive is free again when its action is over.
Released == receiving' = IF receiving = "fsm" /\ prog' = << >> THEN "nil" ELSE receiving

\* What a step may do to the FSM: nothing, the next step of the action under way, the
\* close of the channels, or an input (of a goroutine, or returned by the action); or
\* Receive stores a response.
LEMMA FsmEffects ==
  ASSUME [Next]_vars
  PROVE  \/ /\ UNCHANGED <<state, prog, lastResp, receiving, passed, reported>>
            /\ done => done'
         \/ /\ prog # << >> /\ Head(prog) \notin {"delete", "input_delete"}
            /\ Head(prog) = "reset_a_capped" => timer["timer_a"] # "nil"
            /\ IF Head(prog) = "passUp" /\ lastResp # "nil" /\ ~done
               THEN passed' = Append(passed, lastResp) ELSE passed' = passed
            /\ IF Head(prog) \in {"transportErr", "timeoutErr"} /\ ~done
               THEN \E kind \in Errors : reported' = Append(reported, kind) ELSE reported' = reported
            /\ prog' = Rest /\ UNCHANGED <<state, lastResp, done>> /\ Released
         \/ /\ prog # << >> /\ Head(prog) = "delete" /\ done'
            /\ prog' = IF done THEN Rest ELSE <<"stop_timers">> \o Rest
            /\ UNCHANGED <<state, lastResp, passed, reported>> /\ Released
         \/ /\ prog # << >> /\ Head(prog) = "input_delete"
            /\ Accept("delete") /\ UNCHANGED <<lastResp, passed, reported, done>> /\ Released
         \/ \E input : /\ prog = << >> /\ Accept(input) /\ input # "delete"
                       /\ \/ /\ receiving = input
                             /\ receiving' = IF prog' = << >> THEN "nil" ELSE "fsm"
                          \/ input \notin RespClass /\ receiving' = receiving
                       /\ UNCHANGED <<lastResp, passed, reported, done>>
         \/ /\ receiving = "nil"
            /\ \/ receiving' \in RespClass /\ lastResp' = receiving'
               \/ receiving' = "canceled" /\ lastResp' = lastResp
            /\ UNCHANGED <<state, prog, passed, reported, done>>
<1> USE DEF fsmVars, lastVars, upVars, endVars
<1>1. CASE Step
  <2>0. prog # << >> /\ Released
    BY <1>1 DEF Step, Released
  <2>1. CASE cancel \/ ack \/ resend
    BY <2>0, <2>1 DEF cancel, ack, SendOrReport, resend
  <2>2. CASE passUp
    <3>1. CASE prog' = prog
      BY <2>0, <2>2, <3>1 DEF passUp, Released
    <3>2. CASE prog' = Rest
      BY <2>0, <2>2, <3>2 DEF passUp
    <3> QED BY <2>2, <3>1, <3>2 DEF passUp
  <2>3. CASE transportErr \/ timeoutErr
    BY <2>0, <2>3 DEF transportErr, timeoutErr, ReportErr, Errors
  <2>4. CASE delete
    BY <2>0, <2>4 DEF delete
  <2>5. CASE StopTimers \/ StopA \/ StopAB \/ ArmB \/ ArmD \/ ArmM
    BY <2>0, <2>5 DEF StopTimers, StopA, StopAB, ArmB, ArmD, ArmM, TimerStep
  <2>6. CASE ResetA
    <3>1. CASE prog' = prog
      BY <2>0, <2>6, <3>1 DEF ResetA, Released
    <3>2. CASE prog' = Rest /\ timer["timer_a"] # "nil"
      BY <2>0, <2>6, <3>2 DEF ResetA
    <3> QED BY <2>6, <3>1, <3>2 DEF ResetA
  <2>7. CASE InputDelete
    BY <2>0, <2>7 DEF InputDelete
  <2> QED BY <1>1, <2>1, <2>2, <2>3, <2>4, <2>5, <2>6, <2>7 DEF Step
<1>2. CASE InitTx
  BY <1>2 DEF InitTx, Spin, RespClass
<1>3. ASSUME NEW class \in RespClass \cup {"canceled"}, Receive(class)
      PROVE  /\ receiving = "nil"
             /\ \/ receiving' \in RespClass /\ lastResp' = receiving'
                \/ receiving' = "canceled" /\ lastResp' = lastResp
             /\ UNCHANGED <<state, prog, passed, reported, done>>
  BY <1>3 DEF Receive
<1>4. CASE Cancel
  BY <1>4 DEF Cancel, Spin, RespClass
<1>5. ASSUME NEW t, Fire(t)
      PROVE  UNCHANGED <<state, prog, lastResp, receiving, passed, reported, done>>
  BY <1>5 DEF Fire
<1>6. ASSUME NEW i \in Async, SpinAsync(i)
      PROVE  /\ prog = << >> /\ Accept(i) /\ i # "delete" /\ i \notin RespClass
             /\ UNCHANGED <<lastResp, receiving, passed, reported, done>>
  BY <1>6 DEF SpinAsync, Spin, RespClass, Async, Timers
<1>7. CASE Terminate \/ ReadResponse \/ ReadError
  BY <1>7 DEF Terminate, ReadResponse, ReadError
<1>8. CASE UNCHANGED vars
  BY <1>8 DEF vars
<1>9. ASSUME ReceiveSpin
      PROVE  /\ prog = << >> /\ Accept(receiving) /\ receiving # "delete"
             /\ receiving' = IF prog' = << >> THEN "nil" ELSE "fsm"
             /\ UNCHANGED <<lastResp, passed, reported, done>>
  BY <1>9 DEF ReceiveSpin, Spin, RespClass
<1> QED BY <1>1, <1>2, <1>3, <1>4, <1>5, <1>6, <1>7, <1>8, <1>9 DEF Next

\* The steps under the FSM lock keep what is left to do in line with the state.
LEMMA ProgStep ==
  ASSUME ProgOK, TimerAOK, [Next]_vars
  PROVE  ProgOK'
<1> inv' = inv
  BY UserEffects
<1>1. CASE UNCHANGED <<state, prog>>
  BY <1>1 DEF ProgOK
<1>2. ASSUME NEW input, Accept(input) PROVE ProgOK'
  <2>1. CASE inv
    BY <1>2, <2>1, AcceptInvite DEF ProgOK
  <2>2. CASE ~inv
    BY <1>2, <2>2, AcceptNonInvite DEF ProgOK
  <2> QED BY <2>1, <2>2
<1>3. ASSUME prog # << >>, prog' = Rest, state' = state,
             Head(prog) \notin {"delete", "input_delete"},
             Head(prog) = "reset_a_capped" => timer["timer_a"] # "nil"
      PROVE  ProgOK'
  <2>1. CASE state = "calling"
    BY <1>3, <2>1, ProgSteps DEF ProgOK, Rest
  <2>2. CASE state = "proceeding"
    BY <1>3, <2>2, ProgSteps DEF ProgOK, TimerAOK, Rest
  <2>3. CASE state = "completed"
    BY <1>3, <2>3, ProgSteps DEF ProgOK, Rest
  <2>4. CASE state = "accepted"
    BY <1>3, <2>4, ProgSteps DEF ProgOK, Rest
  <2>5. CASE state = "terminated"
    BY <1>3, <2>5, ProgSteps DEF ProgOK, Rest
  <2> QED BY <1>3, <2>1, <2>2, <2>3, <2>4, <2>5 DEF ProgOK
<1>4. ASSUME prog # << >>, Head(prog) = "delete", state' = state,
             prog' = IF done THEN Rest ELSE <<"stop_timers">> \o Rest
      PROVE  ProgOK'
  <2>1. prog = act_delete /\ state = "terminated"
    BY <1>4, ProgSteps DEF ProgOK
  <2>2. <<"stop_timers">> \o Tail(act_delete) = left_stop_timers
    BY DEF act_delete, left_stop_timers
  <2> QED BY <1>4, <2>1, <2>2, ProgSteps DEF ProgOK, Rest
<1> QED BY <1>1, <1>2, <1>3, <1>4, FsmEffects

\* The reset of timer A is the only step that changes its interval.
LEMMA IntervalStep ==
  ASSUME TypeOK, ProgOK, [Next]_vars
  PROVE  timer_a_time' \in Nat /\ (~inv' => timer_a_time' <= T2)
<1> USE ConstantsAssumption
<1>1. CASE prog # << >> /\ ResetA
  <2>1. Head(prog) = "reset_a" => inv
    BY <1>1, ProgSteps DEF ProgOK
  <2>2. timer_a_time \in Nat /\ T2 \in Nat /\ inv' = inv
    BY UserEffects DEF TypeOK
  <2>3. /\ Head(prog) \in {"reset_a", "reset_a_capped"}
        /\ timer_a_time' = IF Head(prog) = "reset_a_capped" /\ 2 * timer_a_time > T2
                           THEN T2 ELSE 2 * timer_a_time
    BY <1>1 DEF ResetA
  <2>4. 2 * timer_a_time \in Nat
    BY <2>2
  <2> HIDE ConstantsAssumption
  <2>5. CASE Head(prog) = "reset_a"
    BY <2>1, <2>2, <2>3, <2>4, <2>5
  <2>6. CASE Head(prog) = "reset_a_capped"
    BY <2>2, <2>3, <2>4, <2>6
  <2> QED BY <2>3, <2>5, <2>6
<1>2. CASE UNCHANGED timer_a_time
  BY <1>2, UserEffects DEF TypeOK
<1>3. Step => UNCHANGED timer_a_time \/ (prog # << >> /\ ResetA)
  BY DEF Step, cancel, ack, SendOrReport, resend, passUp, transportErr, timeoutErr,
    ReportErr, delete, StopTimers, StopA, StopAB, ArmB, ArmD, ArmM, TimerStep, ResetA,
    InputDelete, timerVars
<1>4. Next => Step \/ UNCHANGED timer_a_time
  BY DEF Next, InitTx, Receive, ReceiveSpin, Cancel, Fire, SpinAsync, Terminate, ReadResponse, ReadError,
    timerVars
<1> QED BY <1>1, <1>2, <1>3, <1>4 DEF vars, timerVars

\* Every step keeps the types, the capacities of the channels and the cap of timer A.
LEMMA TypeStep ==
  ASSUME TypeOK, ProgOK, ProgOK', [Next]_vars
  PROVE  TypeOK'
<1> USE ConstantsAssumption
<1>1. prog' \in Seq(Ops)
  BY ProgTypes DEF ProgOK, Programs
<1>2. state' \in States
  <2>1. ASSUME NEW input, Accept(input) PROVE state' \in States
    <3>1. state \in States
      BY DEF TypeOK
    <3>2. CASE inv
      BY <2>1, <3>1, <3>2, AcceptInvite DEF States
    <3>3. CASE ~inv
      BY <2>1, <3>1, <3>3, AcceptNonInvite DEF States
    <3> QED BY <3>2, <3>3
  <2> QED BY <2>1, FsmEffects DEF TypeOK
<1>3. lastResp' \in RespClass \cup {"nil"}
  BY FsmEffects DEF TypeOK
<1>4. lastErr' \in BOOLEAN
  <2>1. lastErr' = lastErr \/ lastErr' \in BOOLEAN
    BY DEF Next, Step, cancel, ack, SendOrReport, resend, passUp, transportErr, timeoutErr,
      ReportErr, delete, StopTimers, StopA, StopAB, ArmB, ArmD, ArmM, TimerStep, ResetA,
      InputDelete, InitTx, Receive, ReceiveSpin, Cancel, Fire, SpinAsync, Terminate, ReadResponse,
      ReadError, lastVars, vars
  <2> QED BY <2>1 DEF TypeOK
<1>5. /\ inv' \in BOOLEAN /\ reliable' \in BOOLEAN /\ known' \in BOOLEAN
      /\ done' \in BOOLEAN /\ term' \in {"idle", "closed", "returned"}
  BY UserEffects DEF TypeOK
<1>6. /\ passed' \in Seq(RespClass) /\ read' \in 0..Len(passed')
      /\ Len(passed') - read' <= RespCap
  <2>1. /\ passed \in Seq(RespClass) /\ read \in 0..Len(passed)
        /\ Len(passed) - read <= RespCap /\ lastResp \in RespClass \cup {"nil"}
    BY DEF TypeOK
  <2>2. CASE passed' = Append(passed, lastResp) /\ lastResp # "nil" /\ read' = read
             /\ Len(passed) - read < RespCap
    BY <2>1, <2>2
  <2>3. CASE passed' = passed /\ read < Len(passed) /\ read' = read + 1
    BY <2>1, <2>3
  <2> QED BY <2>1, <2>2, <2>3, UserEffects
<1>7. /\ reported' \in Seq({"transport", "timeout"}) /\ errRead' \in 0..Len(reported')
      /\ Len(reported') - errRead' <= ErrCap
  <2>1. /\ reported \in Seq({"transport", "timeout"}) /\ errRead \in 0..Len(reported)
        /\ Len(reported) - errRead <= ErrCap
    BY DEF TypeOK
  <2>2. ASSUME NEW kind \in {"transport", "timeout"}, reported' = Append(reported, kind),
               errRead' = errRead, Len(reported) - errRead < ErrCap
        PROVE  <1>7!:
    BY <2>1, <2>2
  <2>3. CASE reported' = reported /\ errRead < Len(reported) /\ errRead' = errRead + 1
    BY <2>1, <2>3
  <2> QED BY <2>1, <2>2, <2>3, UserEffects
<1>8. timer' \in [Timers -> TimerStates] /\ waiting' \in [Async -> Nat]
  <2>1. timer \in [Timers -> TimerStates] /\ waiting \in [Async -> Nat]
    BY DEF TypeOK
  <2>2. CASE Step
    <3>1. UNCHANGED waiting \/ SpinTransportErr
      BY <2>2 DEF Step, cancel, ack, SendOrReport, resend, passUp, transportErr, timeoutErr,
        ReportErr, delete, StopTimers, StopA, StopAB, ArmB, ArmD, ArmM, TimerStep, ResetA,
        InputDelete
    <3>2. waiting' \in [Async -> Nat]
      BY <2>1, <3>1 DEF SpinTransportErr, Async
    <3>3. CASE StopTimers \/ StopA \/ StopAB
      BY <2>1, <3>2, <3>3 DEF StopTimers, StopA, StopAB, TimerStep, StopAll, Timers, TimerStates
    <3>4. CASE ArmB \/ ArmD \/ ArmM
      BY <2>1, <3>2, <3>4 DEF ArmB, ArmD, ArmM, TimerStep, Timers, TimerStates
    <3>5. CASE ResetA
      BY <2>1, <3>2, <3>5 DEF ResetA, Timers, TimerStates
    <3>6. StopTimers \/ StopA \/ StopAB \/ ArmB \/ ArmD \/ ArmM \/ ResetA \/ UNCHANGED timer
      BY <2>2 DEF Step, cancel, ack, SendOrReport, resend, passUp, transportErr, timeoutErr,
        ReportErr, delete, InputDelete, timerVars
    <3> QED BY <2>1, <3>2, <3>3, <3>4, <3>5, <3>6
  <2>3. CASE InitTx
    BY <2>1, <2>3 DEF InitTx, Timers, TimerStates
  <2>4. ASSUME NEW t \in Timers, Fire(t) PROVE <1>8!:
    BY <2>1, <2>4 DEF Fire, TimerStates, Async
  <2>5. ASSUME NEW i \in Async, SpinAsync(i) PROVE <1>8!:
    BY <2>1, <2>5 DEF SpinAsync, timerVars
  <2>6. CASE Terminate
    BY <2>1, <2>6 DEF Terminate, StopAll, Timers, TimerStates
  <2>7. Next => Step \/ InitTx \/ (\E t \in Timers : Fire(t)) \/ (\E i \in Async : SpinAsync(i))
                \/ Terminate \/ UNCHANGED <<timer, waiting>>
    BY DEF Next, Receive, ReceiveSpin, Cancel, ReadResponse, ReadError, timerVars
  <2> QED BY <2>1, <2>2, <2>3, <2>4, <2>5, <2>6, <2>7 DEF vars, timerVars
<1>9. panic' \in {"no", "nil timer", "send on closed channel"}
  <2>1. panic' = panic \/ panic' \in {"nil timer", "send on closed channel"}
    BY DEF Next, Step, cancel, ack, SendOrReport, resend, passUp, transportErr, timeoutErr,
      ReportErr, delete, StopTimers, StopA, StopAB, ArmB, ArmD, ArmM, TimerStep, ResetA,
      InputDelete, InitTx, Receive, ReceiveSpin, Cancel, Fire, SpinAsync, Terminate, ReadResponse,
      ReadError, vars
  <2> QED BY <2>1 DEF TypeOK
<1>10. recvs' \in 0..MaxRecv /\ fails' \in 0..MaxFail /\ cancels' \in 0..MaxCancel
  <2>1. recvs \in 0..MaxRecv /\ fails \in 0..MaxFail /\ cancels \in 0..MaxCancel
    BY DEF TypeOK
  <2>2. recvs' = recvs \/ (recvs < MaxRecv /\ recvs' = recvs + 1)
    BY DEF Next, Step, InitTx, Receive, ReceiveSpin, Cancel, Fire, SpinAsync, Terminate, ReadResponse,
      ReadError, boundVars, vars
  <2>3. cancels' = cancels \/ (cancels < MaxCancel /\ cancels' = cancels + 1)
    BY DEF Next, Step, InitTx, Receive, ReceiveSpin, Cancel, Fire, SpinAsync, Terminate, ReadResponse,
      ReadError, boundVars, vars
  <2>4. fails' = fails \/ (fails < MaxFail /\ fails' = fails + 1)
    BY DEF Next, Step, cancel, ack, SendOrReport, resend, passUp, transportErr, timeoutErr,
      ReportErr, delete, StopTimers, StopA, StopAB, ArmB, ArmD, ArmM, TimerStep, ResetA,
      InputDelete, InitTx, Receive, ReceiveSpin, Cancel, Fire, SpinAsync, Terminate, ReadResponse,
      ReadError, Sends, SendFails, boundVars, vars
  <2> QED BY <2>1, <2>2, <2>3, <2>4
<1>11. receiving' \in RespClass \cup {"nil", "canceled", "fsm"}
  <2>1. receiving' \in RespClass \cup {receiving, "nil", "canceled", "fsm"}
    BY FsmEffects DEF Released
  <2> QED BY <2>1, Zenon DEF TypeOK
<1> QED BY <1>1, <1>2, <1>3, <1>4, <1>5, <1>6, <1>7, <1>8, <1>9, <1>10, <1>11, IntervalStep,
           Zenon
  DEF TypeOK

\* Timer A, by the states in which it may run.
LEMMA TimerAStep ==
  ASSUME TypeOK, ProgOK, TimerAOK, [Next]_vars
  PROVE  TimerAOK'
<1> USE DEF Timers, Async
<1>0. timer \in [Timers -> TimerStates] /\ waiting \in [Async -> Nat]
  BY DEF TypeOK
<1>1. ASSUME UNCHANGED <<inv, reliable, known, state, prog, term>>,
             timer'["timer_a"] # "nil" <=> timer["timer_a"] # "nil",
             waiting'["timer_a"] > 0 => timer["timer_a"] # "nil" \/ waiting["timer_a"] > 0
      PROVE  TimerAOK'
  BY <1>1 DEF TimerAOK
<1>2. ASSUME NEW input, Accept(input), UNCHANGED <<inv, reliable, known, term, timer>>,
             prog = << >> \/ prog = left_input_delete,
             ~known => input \notin RespClass,
             waiting'["timer_a"] > 0 \/ input = "timer_a" => waiting["timer_a"] > 0
      PROVE  TimerAOK'
  <2>1. prog = left_input_delete => state = "terminated"
    <3>1. left_input_delete # << >>
      BY ProgsNotEmpty DEF Deleting
    <3>2. ASSUME prog # << >>, Head(prog) = "input_delete" PROVE state = "terminated"
      BY <3>2, ProgSteps DEF ProgOK
    <3> QED BY <3>1, <3>2, ProgSteps
  <2>2. ~known => state' \in {"calling", "terminated"}
    BY <1>2, AcceptInvite, AcceptNonInvite DEF TimerAOK, RespClass
  <2>3. prog' \in Resending => input = "timer_a"
    <3>1. CASE inv
      BY <1>2, <3>1, AcceptInvite, ActionKinds, ProgsNotEmpty
    <3>2. CASE ~inv
      BY <1>2, <3>2, AcceptNonInvite, ActionKinds, ProgsNotEmpty
    <3> QED BY <3>1, <3>2
  <2>4. state' = "calling" => state = "calling"
    BY <1>2, AcceptInvite, AcceptNonInvite
  <2>5. state' = "proceeding" /\ ~inv /\ prog' \notin {act_passup, left_stop_a}
          => state = "proceeding" /\ prog \notin {act_passup, left_stop_a}
    BY <1>2, <2>1, AcceptNonInvite, ProgsNotEmpty
  <2> QED BY <1>2, <2>2, <2>3, <2>4, <2>5 DEF TimerAOK
<1>3. ASSUME prog # << >>, prog' = Rest, UNCHANGED <<inv, reliable, known, term, state>>,
             UNCHANGED waiting \/ SpinTransportErr,
             IF Head(prog) \in {"stop_timers", "stop_a", "stop_ab", "arm_d", "arm_m"}
             THEN timer'["timer_a"] = "nil"
             ELSE timer'["timer_a"] # "nil" <=> timer["timer_a"] # "nil"
      PROVE  TimerAOK'
  <2>1. waiting'["timer_a"] = waiting["timer_a"]
    BY <1>0, <1>3 DEF SpinTransportErr
  <2>2. prog' \in Resending => prog \in Resending
    BY <1>3, RestOf
  <2>3. Head(prog) \in {"stop_timers", "stop_a", "stop_ab", "arm_d", "arm_m"}
          => state # "calling"
    BY <1>3, ProgSteps DEF ProgOK
  <2>4. state = "proceeding" /\ ~inv /\ prog' \notin {act_passup, left_stop_a}
          => timer'["timer_a"] = "nil"
    BY <1>3, ProgSteps DEF ProgOK, TimerAOK, Rest
  <2>5. timer'["timer_a"] # "nil" => timer["timer_a"] # "nil"
    BY <1>3
  <2>6. state = "calling" /\ timer["timer_a"] # "nil" => timer'["timer_a"] # "nil"
    BY <1>3, <2>3
  <2> QED BY <1>3, <2>1, <2>2, <2>4, <2>5, <2>6 DEF TimerAOK
<1>4. ASSUME Step PROVE TimerAOK'
  <2> USE DEF originVars, timerVars, endVars
  <2>1. CASE cancel \/ ack \/ resend
    BY <1>3, <1>4, <2>1 DEF Step, cancel, ack, SendOrReport, resend
  <2>2. CASE passUp
    BY <1>1, <1>3, <1>4, <2>2 DEF Step, passUp
  <2>3. CASE transportErr \/ timeoutErr
    BY <1>3, <1>4, <2>3 DEF Step, transportErr, timeoutErr, ReportErr
  <2>4. CASE delete
    <3>1. prog = act_delete /\ state = "terminated"
      BY <1>4, <2>4, ProgSteps DEF Step, delete, ProgOK
    <3>2. <<"stop_timers">> \o Tail(act_delete) = left_stop_timers
      BY DEF act_delete, left_stop_timers
    <3>3. prog' \notin Resending
      BY <2>4, <3>1, <3>2, ProgSteps, ProgsNotEmpty DEF delete, Rest, Resending
    <3> QED BY <1>4, <2>4, <3>1, <3>3 DEF Step, delete, TimerAOK
  <2>5. CASE StopTimers \/ StopA \/ StopAB \/ ArmB \/ ArmD \/ ArmM
    <3>1. IF Head(prog) \in {"stop_timers", "stop_a", "stop_ab", "arm_d", "arm_m"}
          THEN timer'["timer_a"] = "nil"
          ELSE timer'["timer_a"] = timer["timer_a"]
      BY <1>0, <2>5 DEF StopTimers, StopA, StopAB, ArmB, ArmD, ArmM, TimerStep, StopAll
    <3> QED BY <1>3, <1>4, <2>5, <3>1 DEF Step, StopTimers, StopA, StopAB, ArmB, ArmD, ArmM,
      TimerStep
  <2>6. CASE ResetA
    <3>1. timer["timer_a"] # "nil" => timer'["timer_a"] # "nil"
      BY <1>0, <2>6 DEF ResetA
    <3> QED BY <1>1, <1>3, <1>4, <2>6, <3>1 DEF Step, ResetA
  <2>7. CASE InputDelete
    <3>1. prog = left_input_delete
      BY <1>4, <2>7, ProgSteps DEF Step, InputDelete, ProgOK
    <3> QED BY <1>2, <1>4, <2>7, <3>1 DEF Step, InputDelete, RespClass
  <2> QED BY <1>4, <2>1, <2>2, <2>3, <2>4, <2>5, <2>6, <2>7 DEF Step
<1>5. ASSUME InitTx PROVE TimerAOK'
  <2>1. CASE known'
    <3>1. timer'["timer_a"] = IF reliable THEN "nil" ELSE "armed"
      BY <1>0, <1>5, <2>1 DEF InitTx
    <3> QED BY <1>5, <2>1, <3>1 DEF InitTx, TimerAOK, fsmVars, endVars
  <2>2. CASE ~known'
    BY <1>2, <1>5, <2>2 DEF InitTx, Spin, endVars, RespClass
  <2> QED BY <2>1, <2>2
<1>6. ASSUME NEW class, Receive(class) PROVE TimerAOK'
  BY <1>1, <1>6 DEF Receive, originVars, fsmVars, timerVars, endVars
<1>13. CASE ReceiveSpin
  BY <1>2, <1>13 DEF ReceiveSpin, Spin, RespClass, originVars, timerVars, endVars
<1>7. ASSUME Cancel PROVE TimerAOK'
  BY <1>2, <1>7 DEF Cancel, Spin, RespClass, originVars, timerVars, endVars
<1>8. ASSUME NEW i \in Async, SpinAsync(i) PROVE TimerAOK'
  <2>1. waiting'["timer_a"] > 0 => waiting["timer_a"] > 0
    BY <1>0, <1>8 DEF SpinAsync
  <2> QED BY <1>2, <1>8, <2>1 DEF SpinAsync, Spin, RespClass, originVars, timerVars, endVars
<1>9. ASSUME NEW t \in Timers, Fire(t) PROVE TimerAOK'
  <2>1. timer'["timer_a"] # "nil" <=> timer["timer_a"] # "nil"
    BY <1>0, <1>9 DEF Fire
  <2>2. waiting'["timer_a"] > 0 => timer["timer_a"] # "nil" \/ waiting["timer_a"] > 0
    BY <1>0, <1>9 DEF Fire
  <2> QED BY <1>1, <1>9, <2>1, <2>2 DEF Fire, originVars, fsmVars, endVars
<1>10. ASSUME Terminate PROVE TimerAOK'
  <2>1. timer'["timer_a"] \in {timer["timer_a"], "nil"} /\ term' # "idle"
    BY <1>0, <1>10 DEF Terminate, StopAll
  <2> QED BY <1>10, <2>1 DEF Terminate, TimerAOK, originVars, fsmVars
<1>11. ASSUME ReadResponse \/ ReadError PROVE TimerAOK'
  BY <1>1, <1>11 DEF ReadResponse, ReadError, originVars, fsmVars, timerVars, endVars
<1>12. ASSUME UNCHANGED vars PROVE TimerAOK'
  BY <1>1, <1>12 DEF vars, originVars, fsmVars, timerVars, endVars
<1> QED BY <1>4, <1>5, <1>6, <1>7, <1>8, <1>9, <1>10, <1>11, <1>12, <1>13 DEF Next

\* What a response that is passed up adds to what the user has been given.
LEMMA AppendGiven ==
  ASSUME NEW c, passed \in Seq(RespClass), passed' = Append(passed, c)
  PROVE  /\ \A S : Only(S) /\ c \in S => Only(S)'
         /\ Final => Final'
         /\ c \in {"2xx", "300_plus"} => Final'
<1>1. /\ DOMAIN passed' = 1..(Len(passed) + 1) /\ DOMAIN passed = 1..Len(passed)
      /\ Len(passed) \in Nat
      /\ \A i \in DOMAIN passed : passed'[i] = passed[i]
      /\ passed'[Len(passed) + 1] = c
  OBVIOUS
<1>2. \A S : Only(S) /\ c \in S => Only(S)'
  BY <1>1 DEF Only
<1>3. Final => Final'
  BY <1>1 DEF Final, Contract!Verdict, Contract!Passed
<1>4. c \in {"2xx", "300_plus"} => Final'
  BY <1>1 DEF Final, Contract!Verdict, Contract!Passed
<1> QED BY <1>2, <1>3, <1>4

\* What the user has been given stays in line with the state of the FSM.
LEMMA GivenStep ==
  ASSUME TypeOK, ProgOK, TimerAOK, GivenOK, [Next]_vars
  PROVE  GivenOK'
<1>0. passed \in Seq(RespClass) /\ inv' = inv
  BY UserEffects DEF TypeOK
<1>1. ASSUME UNCHANGED <<state, prog, lastResp, receiving, passed, reported>>, done => done'
      PROVE  GivenOK'
  BY <1>1 DEF GivenOK, Only, Final, Contract!Verdict, Contract!Passed
<1>2. ASSUME prog # << >>, Head(prog) \notin {"delete", "input_delete"},
             Head(prog) = "reset_a_capped" => timer["timer_a"] # "nil",
             IF Head(prog) = "passUp" /\ lastResp # "nil" /\ ~done
             THEN passed' = Append(passed, lastResp) ELSE passed' = passed,
             IF Head(prog) \in {"transportErr", "timeoutErr"} /\ ~done
             THEN \E kind \in Errors : reported' = Append(reported, kind) ELSE reported' = reported,
             prog' = Rest, UNCHANGED <<state, lastResp, done>>, Released
      PROVE  GivenOK'
  <2>1. prog' \in Passing => prog = act_invite_final
    BY <1>2, RestOf
  <2>2. prog' # act_timeout
    BY <1>2, RestOf
  <2>3. prog' \in Deleting => prog \in {act_trans_err, act_timeout, left_stop_delete}
    BY <1>2, RestOf
  <2>4. prog \in Passing => prog = act_invite_final \/ Head(prog) = "passUp"
    BY ProgSteps DEF Passing
  <2>5. Head(prog) = "passUp" => prog \in Passing /\ prog' \notin Passing
    BY <1>2, <2>1, ProgSteps DEF ProgOK, Passing
  <2>6. \/ passed' = passed
        \/ prog \in Passing /\ lastResp # "nil" /\ passed' = Append(passed, lastResp)
    BY <1>2, <2>5
  <2>7. (Final => Final') /\ (passed' = passed => \A S : Only(S) => Only(S)')
    BY <1>0, <2>6, AppendGiven DEF Only, Final, Contract!Verdict, Contract!Passed
  <2>8. state \in {"calling", "proceeding"} => Only({"1xx"})'
    <3>1. CASE state = "calling"
      <4>1. passed' = passed
        BY <1>2, <3>1, ProgSteps DEF ProgOK
      <4> QED BY <2>7, <3>1, <4>1 DEF GivenOK
    <3>2. CASE state = "proceeding"
      BY <1>0, <2>6, <2>7, <3>2, AppendGiven DEF GivenOK
    <3> QED BY <3>1, <3>2
  <2>9. state = "completed" /\ prog' \in Passing => Only({"1xx"})'
    BY <1>2, <2>1, <2>7, ProgSteps DEF GivenOK, Passing
  <2>10. state = "accepted" => Only({"1xx", "2xx"})'
    BY <1>0, <2>6, <2>7, AppendGiven DEF GivenOK
  <2>11. state \in {"completed", "accepted"} /\ prog' \notin Passing /\ ~done => Final'
    <3>1. CASE prog \notin Passing
      BY <2>7, <3>1 DEF GivenOK
    <3>2. CASE prog = act_invite_final
      BY <1>2, <3>2, ProgSteps DEF Rest, Passing
    <3>3. CASE prog \in Passing /\ Head(prog) = "passUp"
      BY <1>0, <1>2, <3>3, AppendGiven DEF GivenOK
    <3> QED BY <2>4, <3>1, <3>2, <3>3
  <2>12. prog' \in Deleting /\ ~done => Final' \/ reported' # << >>
    <3>1. reported \in Seq(Errors)
      BY DEF TypeOK, Errors
    <3>2. CASE prog \in {act_trans_err, act_timeout} /\ ~done
      <4>1. Head(prog) \in {"transportErr", "timeoutErr"}
        BY <3>2, ProgSteps
      <4>2. PICK kind \in Errors : reported' = Append(reported, kind)
        BY <1>2, <3>2, <4>1
      <4> QED BY <3>1, <4>2
    <3>3. CASE prog = left_stop_delete
      BY <1>2, <2>7, <3>3, ProgSteps DEF GivenOK, Deleting
    <3> QED BY <2>3, <3>2, <3>3
  <2>13. prog' \in Passing => /\ state = "proceeding" => lastResp = "1xx"
                              /\ state = "completed" => lastResp \in {"2xx", "300_plus"}
                              /\ state = "accepted" => lastResp = "2xx"
    BY <2>1 DEF GivenOK, Passing
  <2>14. state = "calling" => lastResp \in {"nil", receiving'} /\ passed' = << >>
    <3>1. state = "calling" => passed' = passed
      BY <1>2, ProgSteps DEF ProgOK
    <3>2. lastResp \in {"nil", receiving} => lastResp \in {"nil", receiving'}
      BY <1>2 DEF Released, TypeOK, RespClass
    <3> QED BY <3>1, <3>2 DEF GivenOK
  <2>15. receiving' \in RespClass => lastResp = receiving'
    BY <1>2 DEF Released, GivenOK, RespClass
  <2>16. prog' \in Passing => receiving' = "fsm"
    BY <1>2, <2>1, ProgsNotEmpty DEF Released, GivenOK, Passing
  <2> QED BY <1>2, <2>2, <2>8, <2>9, <2>10, <2>11, <2>12, <2>13, <2>14, <2>15, <2>16
    DEF GivenOK
<1>3. ASSUME prog # << >>, Head(prog) = "delete", done', state' = state,
             UNCHANGED <<lastResp, passed, reported>>,
             prog' = IF done THEN Rest ELSE <<"stop_timers">> \o Rest, Released
      PROVE  GivenOK'
  <2>1. prog = act_delete /\ state = "terminated"
    BY <1>3, ProgSteps DEF ProgOK
  <2>2. <<"stop_timers">> \o Tail(act_delete) = left_stop_timers
    BY DEF act_delete, left_stop_timers
  <2>3. prog' \notin Passing /\ prog' # act_timeout
    BY <1>3, <2>1, <2>2, ProgSteps, ProgsNotEmpty DEF Rest, Passing
  <2>4. receiving' \in RespClass => lastResp = receiving'
    BY <1>3 DEF Released, GivenOK, RespClass
  <2> QED BY <1>3, <2>1, <2>3, <2>4 DEF GivenOK
<1>4. ASSUME prog # << >>, Head(prog) = "input_delete", Accept("delete"),
             UNCHANGED <<lastResp, passed, reported, done>>, Released
      PROVE  GivenOK'
  <2>1. prog = left_input_delete /\ state = "terminated"
    BY <1>4, ProgSteps DEF ProgOK
  <2>2. state' = "terminated" /\ prog' \in {<< >>, act_delete}
    BY <1>4, <2>1, AcceptInvite, AcceptNonInvite
  <2>3. prog' \notin Passing /\ prog' # act_timeout
    BY <2>2, ProgSteps, ProgsNotEmpty DEF Passing
  <2>4. Final' = Final
    BY <1>4 DEF Final, Contract!Verdict, Contract!Passed
  <2>5. receiving' \in RespClass => lastResp = receiving'
    BY <1>4 DEF Released, GivenOK, RespClass
  <2> QED BY <1>4, <2>1, <2>2, <2>3, <2>4, <2>5 DEF GivenOK, Deleting
<1>5. ASSUME NEW input, prog = << >>, Accept(input), input # "delete",
             \/ /\ receiving = input
                /\ receiving' = IF prog' = << >> THEN "nil" ELSE "fsm"
             \/ input \notin RespClass /\ receiving' = receiving,
             UNCHANGED <<lastResp, passed, reported, done>>
      PROVE  GivenOK'
  <2>0. input \in RespClass => lastResp' = input
    BY <1>5 DEF GivenOK
  <2>1. Final' = Final /\ \A S : Only(S)' <=> Only(S)
    BY <1>5 DEF Only, Final, Contract!Verdict, Contract!Passed
  <2>2. state' = "calling" => state = "calling" /\ input \notin RespClass
    <3>1. CASE inv
      BY <1>5, <3>1, AcceptInvite DEF RespClass
    <3>2. CASE ~inv
      BY <1>5, <3>2, AcceptNonInvite DEF RespClass
    <3> QED BY <3>1, <3>2
  <2>3. prog' \in Passing => /\ state' = "proceeding" => lastResp' = "1xx"
                             /\ state' = "completed" => lastResp' \in {"2xx", "300_plus"}
                             /\ state' = "accepted" => lastResp' = "2xx"
                             /\ input \in RespClass
    <3>1. CASE inv
      BY <1>5, <2>0, <3>1, AcceptInvite, ActionKinds, ProgsNotEmpty DEF RespClass
    <3>2. CASE ~inv
      BY <1>5, <2>0, <3>2, AcceptNonInvite, ActionKinds, ProgsNotEmpty DEF RespClass
    <3> QED BY <3>1, <3>2
  <2>4. state' \in {"calling", "proceeding"} \/ prog' = act_timeout
          => state \in {"calling", "proceeding"}
    <3>1. CASE inv
      BY <1>5, <3>1, AcceptInvite, ProgSteps, ProgsNotEmpty
    <3>2. CASE ~inv
      BY <1>5, <3>2, AcceptNonInvite, ProgSteps, ProgsNotEmpty
    <3> QED BY <3>1, <3>2
  <2>5. state' = "completed" /\ prog' \in Passing => state \in {"calling", "proceeding"}
    <3>1. CASE inv
      BY <1>5, <3>1, AcceptInvite, ActionKinds, ProgsNotEmpty
    <3>2. CASE ~inv
      BY <1>5, <3>2, AcceptNonInvite, ActionKinds, ProgsNotEmpty
    <3> QED BY <3>1, <3>2
  <2>6. state' = "accepted" => state \in {"calling", "proceeding", "accepted"}
    BY <1>5, AcceptInvite, AcceptNonInvite
  <2>7. state' \in {"completed", "accepted"} /\ prog' \notin Passing => state' = state
    BY <1>5, AcceptInvite, AcceptNonInvite DEF Passing
  <2>8. prog' \in Deleting => state \in {"completed", "accepted"}
    <3>1. CASE inv
      BY <1>5, <3>1, AcceptInvite, ActionKinds, ProgsNotEmpty
    <3>2. CASE ~inv
      BY <1>5, <3>2, AcceptNonInvite, ActionKinds, ProgsNotEmpty
    <3> QED BY <3>1, <3>2
  <2>9. Only({"1xx"}) => Only({"1xx", "2xx"})
    BY DEF Only
  <2>10. prog \notin Passing
    BY <1>5, ProgsNotEmpty
  <2>11. state' = "calling" => lastResp' \in {"nil", receiving'} /\ passed' = << >>
    <3>1. lastResp \in RespClass \cup {"nil"}
      BY DEF TypeOK
    <3> QED BY <1>5, <2>2, <3>1 DEF GivenOK
  <2>12. receiving' \in RespClass => lastResp' = receiving'
    BY <1>5 DEF GivenOK, RespClass
  <2>13. prog' \in Passing => receiving' = "fsm"
    BY <1>5, <2>3, ProgsNotEmpty
  <2> QED BY <1>5, <2>1, <2>3, <2>4, <2>5, <2>6, <2>7, <2>8, <2>9, <2>10, <2>11, <2>12, <2>13
    DEF GivenOK
<1>6. ASSUME receiving = "nil",
             \/ receiving' \in RespClass /\ lastResp' = receiving'
             \/ receiving' = "canceled" /\ lastResp' = lastResp,
             UNCHANGED <<state, prog, passed, reported, done>>
      PROVE  GivenOK'
  <2>1. prog \notin Passing
    BY <1>6 DEF GivenOK
  <2>2. state = "calling" => lastResp' \in {"nil", receiving'}
    BY <1>6 DEF GivenOK
  <2>3. receiving' \in RespClass => lastResp' = receiving'
    BY <1>6 DEF RespClass
  <2>4. Final' = Final /\ \A S : Only(S)' <=> Only(S)
    BY <1>6 DEF Only, Final, Contract!Verdict, Contract!Passed
  <2> QED BY <1>6, <2>1, <2>2, <2>3, <2>4 DEF GivenOK
<1> QED BY <1>1, <1>2, <1>3, <1>4, <1>5, <1>6, FsmEffects

\* Only the terminated state, or Terminate, closes the channels.
LEMMA DoneStep ==
  ASSUME ProgOK, DoneOK, [Next]_vars
  PROVE  DoneOK'
<1>1. CASE prog # << >> /\ Head(prog) = "delete" /\ state' = state
  <2>1. state = "terminated"
    BY <1>1, ProgSteps DEF ProgOK
  <2> QED BY <1>1, <2>1 DEF DoneOK
<1>2. ASSUME UNCHANGED done \/ term' # "idle", term' = "idle" => term = "idle",
             state = "terminated" => state' = "terminated"
      PROVE  DoneOK'
  BY <1>2 DEF DoneOK
<1>3. state = "terminated" => state' = "terminated"
  BY FsmEffects, AcceptInvite, AcceptNonInvite
<1>4. prog # << >> /\ Head(prog) = "delete" /\ done' # done /\ term' = term => state' = state
  BY FsmEffects, AcceptInvite, AcceptNonInvite
<1> QED BY <1>1, <1>2, <1>3, <1>4, UserEffects

\* A panic of passUp or of the reset of timer A, and who is to blame for it.
LEMMA PanicStep ==
  ASSUME TypeOK, ProgOK, TimerAOK, GivenOK, DoneOK, PanicNeedsTerminate, [Next]_vars
  PROVE  PanicNeedsTerminate'
<1>1. ASSUME panic' = panic, panic = "no" PROVE PanicNeedsTerminate'
  BY <1>1 DEF PanicNeedsTerminate
<1>2. CASE UNCHANGED vars
  BY <1>2 DEF PanicNeedsTerminate, vars, originVars, fsmVars, endVars
<1>3. ASSUME Step, passUp PROVE PanicNeedsTerminate'
  <2>1. done => term # "idle"
    BY <1>3, ProgSteps DEF Step, passUp, ProgOK, DoneOK
  <2> QED BY <1>1, <1>3, <2>1 DEF Step, passUp, Alive, PanicNeedsTerminate, endVars
<1>4. ASSUME Step, ResetA PROVE PanicNeedsTerminate'
  <2>1. prog \in Resending /\ state \in {"calling", "proceeding"} /\ (inv => state = "calling")
    BY <1>4, ProgSteps DEF Step, ResetA, ProgOK, Resending
  <2>2. timer["timer_a"] = "nil" => term # "idle" \/ (~inv /\ state = "proceeding")
    BY <2>1 DEF TimerAOK
  <2> QED BY <1>1, <1>4, <2>2 DEF Step, ResetA, Alive, PanicNeedsTerminate, endVars,
    originVars
<1>5. Next => panic = "no"
  BY DEF Next, Step, InitTx, Receive, ReceiveSpin, Cancel, Fire, SpinAsync, Terminate, ReadResponse,
    ReadError, Alive
<1>6. Next => panic' = panic \/ (Step /\ passUp) \/ (Step /\ ResetA)
  BY DEF Next, Step, cancel, ack, SendOrReport, resend, transportErr, timeoutErr,
    ReportErr, delete, StopTimers, StopA, StopAB, ArmB, ArmD, ArmM, TimerStep,
    InputDelete, InitTx, Receive, ReceiveSpin, Cancel, Fire, SpinAsync, Terminate, ReadResponse, ReadError
<1> QED BY <1>1, <1>2, <1>3, <1>4, <1>5, <1>6

\* The invariant holds in every reachable state.
LEMMA Invariance == Spec => []IInv
<1> USE ConstantsAssumption
<1>1. Init => IInv
  <2> SUFFICES ASSUME Init PROVE IInv
    OBVIOUS
  <2> USE DEF Init
  <2>1. TypeOK
    <3>1. /\ prog \in Seq(Ops) /\ state \in States /\ lastResp \in RespClass \cup {"nil"}
          /\ receiving \in RespClass \cup {"nil", "canceled", "fsm"}
      BY DEF States
    <3>2. timer \in [Timers -> TimerStates] /\ waiting \in [Async -> Nat]
      BY DEF TimerStates
    <3>3. /\ passed \in Seq(RespClass) /\ read \in 0..Len(passed)
          /\ Len(passed) - read <= RespCap
          /\ reported \in Seq({"transport", "timeout"}) /\ errRead \in 0..Len(reported)
          /\ Len(reported) - errRead <= ErrCap
      OBVIOUS
    <3>4. /\ recvs \in 0..MaxRecv /\ fails \in 0..MaxFail /\ cancels \in 0..MaxCancel
          /\ timer_a_time \in Nat /\ timer_a_time <= T2
      OBVIOUS
    <3> QED BY <3>1, <3>2, <3>3, <3>4 DEF TypeOK
  <2>2. ProgOK /\ DoneOK /\ PanicNeedsTerminate
    BY DEF ProgOK, DoneOK, PanicNeedsTerminate
  <2>3. TimerAOK
    BY ProgsNotEmpty DEF TimerAOK, Timers, Async
  <2>4. GivenOK
    BY ProgsNotEmpty DEF GivenOK, Only, RespClass
  <2> QED BY <2>1, <2>2, <2>3, <2>4 DEF IInv
<1>2. IInv /\ [Next]_vars => IInv'
  BY TypeStep, ProgStep, TimerAStep, GivenStep, DoneStep, PanicStep DEF IInv
<1> QED BY <1>1, <1>2, PTL DEF Spec

-----------------------------------------------------------------------------
\* The state of a client transaction keeps its types, the responses and errs channels
\* never hold more than their capacity, and the interval of timer A of a non-INVITE
\* never exceeds T2 (act_non_invite_resend).
THEOREM TypeCorrect == Spec => []TypeOK
BY Invariance, PTL DEF IInv

\* An INVITE transaction panics only if Terminate ran beside an action of the FSM, and a
\* non-INVITE one else only where the callback of timer A lost the race for the lock to
\* the provisional response that set timer_a to nil.
THEOREM PanicCorrect == Spec => []PanicNeedsTerminate
BY Invariance, PTL DEF IInv

\* Timer A sends the request again only while the FSM has seen no response: nothing has been
\* passed up, and lastResp is at most the response that Receive has stored and not yet
\* brought to the FSM.
THEOREM ResendCorrect == Spec => []ResendOnlyUnanswered
<1>1. IInv => ResendOnlyUnanswered
  <2> SUFFICES ASSUME IInv, prog # << >>, Head(prog) = "resend"
               PROVE  state = "calling" /\ passed = << >> /\ lastResp \in {"nil", receiving}
    BY DEF ResendOnlyUnanswered
  <2>1. state = "calling"
    BY ProgSteps DEF IInv, ProgOK
  <2> QED BY <2>1 DEF IInv, GivenOK
<1> QED BY <1>1, Invariance, PTL

-----------------------------------------------------------------------------
(***************************************************************************)
(* The refinement of ClientContract: every step of the transaction passes  *)
(* up a legal response, reports an error, closes, aborts, or changes       *)
(* nothing that the contract speaks of.                                    *)
(***************************************************************************)

\* What is given to the user is legal at the time it is given.
LEMMA LegalPass ==
  ASSUME IInv, prog # << >>, Head(prog) = "passUp", lastResp # "nil"
  PROVE  lastResp \in RespClass /\ Contract!Legal(lastResp)
<1>1. prog \in Passing
  BY ProgSteps DEF IInv, ProgOK, Passing
<1>2. state \in {"proceeding", "completed", "accepted"}
  BY ProgSteps DEF IInv, ProgOK
<1>3. lastResp \in RespClass
  BY DEF IInv, TypeOK
<1>4. CASE state \in {"proceeding", "completed"}
  <2>1. Only({"1xx"})
    BY <1>1, <1>4 DEF IInv, GivenOK
  <2> QED BY <1>3, <2>1 DEF Only, Contract!Legal, Contract!Passed
<1>5. CASE state = "accepted"
  <2>1. Only({"1xx", "2xx"}) /\ lastResp = "2xx"
    BY <1>1, <1>5 DEF IInv, GivenOK
  <2> QED BY <1>3, <2>1 DEF Only, Contract!Legal, Contract!Passed
<1> QED BY <1>2, <1>4, <1>5

\* A timeout is reported only to a user without a final response, and the channels are
\* closed only for one who has a final response or an error.
LEMMA LegalEnd ==
  ASSUME IInv, prog # << >>
  PROVE  /\ Head(prog) = "timeoutErr" => ~Contract!Verdict
         /\ Head(prog) = "delete" /\ ~done => Contract!Verdict \/ reported # << >>
<1>1. ASSUME Head(prog) = "timeoutErr" PROVE ~Contract!Verdict
  <2>1. prog = act_timeout
    BY <1>1, ProgSteps DEF IInv, ProgOK
  <2>2. Only({"1xx"})
    BY <2>1 DEF IInv, GivenOK
  <2> QED BY <2>2 DEF Only, Contract!Verdict, Contract!Passed
<1>2. ASSUME Head(prog) = "delete", ~done PROVE Contract!Verdict \/ reported # << >>
  <2>1. prog \in Deleting
    BY <1>2, ProgSteps DEF IInv, ProgOK, Deleting
  <2> QED BY <1>2, <2>1 DEF IInv, GivenOK, Final
<1> QED BY <1>1, <1>2

\* Every step of the transaction is a step of the contract, or none.
LEMMA StepRefines ==
  ASSUME IInv, [Next]_vars
  PROVE  [Contract!Next]_Contract!vars
<1> USE DEF originVars, fsmVars, timerVars, lastVars, upVars, endVars, boundVars
<1> DEFINE Same == UNCHANGED <<passed, reported, done, term>>
<1>1. Same => UNCHANGED Contract!vars
  BY DEF Contract!vars
<1>2. ASSUME Step, passUp PROVE [Contract!Next]_Contract!vars
  <2>1. CASE passed' = Append(passed, lastResp) /\ lastResp # "nil" /\ ~done
    <3>1. lastResp \in {"1xx", "2xx", "300_plus"} /\ Contract!Legal(lastResp)
      BY <1>2, <2>1, LegalPass DEF Step, passUp, RespClass
    <3>2. Contract!PassUp(lastResp)
      BY <1>2, <2>1, <3>1 DEF passUp, Contract!PassUp
    <3> QED BY <3>1, <3>2 DEF Contract!Next
  <2>2. CASE passed' = passed
    BY <1>1, <1>2, <2>2 DEF passUp
  <2> QED BY <1>2, <2>1, <2>2 DEF passUp
<1>3. ASSUME Step, transportErr \/ timeoutErr PROVE [Contract!Next]_Contract!vars
  <2>1. CASE done
    BY <1>1, <1>3, <2>1 DEF transportErr, timeoutErr, ReportErr
  <2>2. CASE ~done /\ transportErr
    <3>1. Contract!Report("transport")
      BY <2>2 DEF transportErr, ReportErr, Contract!Report
    <3> QED BY <3>1 DEF Contract!Next
  <2>3. CASE ~done /\ timeoutErr
    <3>1. Contract!Report("timeout")
      BY <1>3, <2>3, LegalEnd DEF Step, timeoutErr, ReportErr, Contract!Report
    <3> QED BY <3>1 DEF Contract!Next
  <2> QED BY <1>3, <2>1, <2>2, <2>3
<1>4. ASSUME Step, delete PROVE [Contract!Next]_Contract!vars
  <2>1. CASE done
    <3>1. done' = done
      BY <1>4, <2>1 DEF delete, IInv, TypeOK
    <3> QED BY <1>1, <1>4, <3>1 DEF delete
  <2>2. CASE ~done
    <3>1. Contract!Close
      BY <1>4, <2>2, LegalEnd DEF Step, delete, Contract!Close
    <3> QED BY <3>1 DEF Contract!Next
  <2> QED BY <2>1, <2>2
<1>5. ASSUME Terminate PROVE [Contract!Next]_Contract!vars
  <2>1. CASE term = "idle"
    <3>1. Contract!Abort
      BY <1>5, <2>1 DEF Terminate, Contract!Abort
    <3> QED BY <3>1 DEF Contract!Next
  <2>2. CASE term # "idle"
    BY <1>5, <2>2 DEF Terminate, Contract!vars
  <2> QED BY <2>1, <2>2
<1>6. Step => Same \/ passUp \/ transportErr \/ timeoutErr \/ delete
  BY DEF Step, cancel, ack, SendOrReport, resend, StopTimers, StopA, StopAB, ArmB, ArmD,
    ArmM, TimerStep, ResetA, InputDelete
<1>7. Next => Same \/ Step \/ Terminate
  BY DEF Next, InitTx, Receive, ReceiveSpin, Cancel, Fire, SpinAsync, ReadResponse, ReadError
<1>8. UNCHANGED vars => Same
  BY DEF vars
<1> QED BY <1>1, <1>2, <1>3, <1>4, <1>5, <1>6, <1>7, <1>8

\* The client transaction implements the contract with its user, whatever the order in
\* which Receive, Cancel, the timer callbacks, failed sends and Terminate interleave:
\* 1xx*, then 2xx* or one 300+, nothing once it is done, a timeout only without a final
\* response, and an end only after a final response, an error or Terminate.
THEOREM ClientRefinement == Spec => ImplementsClientContract
<1>1. Init => Contract!Init
  BY DEF Init, Contract!Init
<1>2. IInv /\ [Next]_vars => [Contract!Next]_Contract!vars
  BY StepRefines
<1> QED BY <1>1, <1>2, Invariance, PTL DEF Spec, ImplementsClientContract, Contract!Spec
=============================================================================
