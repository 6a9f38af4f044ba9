------------------------------ MODULE ServerTx ------------------------------
(***************************************************************************)
(* The server transaction of transaction/server_tx.go: the INVITE and the  *)
(* non-INVITE state machine, its timers, its channels and the goroutines   *)
(* that touch it at the same time:                                         *)
(*                                                                         *)
(*   - the layer's goroutine, which calls Receive for a retransmitted      *)
(*     request, an ACK or a CANCEL, one at a time;                         *)
(*   - the user, who calls Respond and reads Acks(), Cancels(), Errors();  *)
(*   - the callbacks of timers G, H, I, J and L, which spin the FSM, and   *)
(*     of timer_1xx, which calls Respond with a 100 Trying;                *)
(*   - the layer's serveTransaction, which calls Terminate at shutdown.    *)
(*                                                                         *)
(* As in ClientTx, prog is what the goroutine that holds the lock of the   *)
(* FSM has still to do.  Respond stores lastResp before it asks for that   *)
(* lock: the two callers of Respond are modelled with both steps.          *)
(***************************************************************************)
EXTENDS Integers, Sequences

CONSTANTS
  ChanCap,      \* capacity of acks, cancels and errs (64 in the code)
  T2,           \* the cap of timer G, in units of T1
  MaxRecv,      \* bound: messages that arrive
  MaxResp,      \* bound: calls of Respond by the user
  MaxFail       \* bound: sends that fail

ASSUME ConstantsAssumption ==
  /\ ChanCap \in Nat \ {0}
  /\ T2 \in Nat \ {0}
  /\ MaxRecv \in Nat
  /\ MaxResp \in Nat
  /\ MaxFail \in Nat

VARIABLES
  inv,          \* tx.Origin().IsInvite()
  reliable,     \* tx.reliable
  state,        \* the state of the FSM
  prog,         \* steps left to the goroutine that holds the FSM lock
  timer,        \* timer_g, timer_h, timer_i, timer_j, timer_l, timer_1xx
  timer_g_time, \* in units of T1
  waiting,      \* timer callbacks past their check of done, by timer
  lastResp,     \* tx.lastResp
  lastErr,      \* tx.lastErr # nil
  responding,   \* per caller of Respond: the response that waits for the lock
  acks,         \* number of ACKs put into the acks channel
  acksRead,     \* how many of them the user has taken out
  cancelsUp,    \* number of CANCELs put into the cancels channel
  cancelsRead,  \* how many of them the user has taken out
  errs,         \* number of errors put into the errs channel
  errsRead,     \* how many of them the user has taken out
  done,         \* tx.done and the other channels are closed
  term,         \* progress of Terminate
  panic,        \* the process has panicked
  verdict,      \* history: class of the response that ended proceeding
  answer,       \* history: what was first sent after that
  acceptLost,   \* history: the send of act_respond_accept failed
  recvs,        \* messages received so far
  resps,        \* calls of Respond by the user so far
  fails         \* sends failed so far

originVars == <<inv, reliable>>
fsmVars    == <<state, prog>>
timerVars  == <<timer, timer_g_time>>
lastVars   == <<lastResp, lastErr>>
readVars   == <<acksRead, cancelsRead, errsRead>>
upVars     == <<acks, cancelsUp, errs>>
endVars    == <<done, term>>
histVars   == <<verdict, answer, acceptLost>>
boundVars  == <<recvs, resps, fails>>
vars == <<originVars, fsmVars, timerVars, waiting, lastVars, responding, upVars,
          readVars, endVars, panic, histVars, boundVars>>

-----------------------------------------------------------------------------
FsmTimers   == {"timer_g", "timer_h", "timer_i", "timer_j", "timer_l"}
Timers      == FsmTimers \cup {"timer_1xx"}
TimerStates == {"nil", "armed", "expired"}
States      == {"trying", "proceeding", "completed", "confirmed", "accepted",
                "terminated"}

\* The responses: the 100 of timer_1xx, and those of the user.
UserResps == {"180", "200", "486"}
Resps     == UserResps \cup {"100"}
Class(res) == CASE res \in {"100", "180"} -> "user_1xx"
                [] res = "200" -> "user_2xx"
                [] OTHER -> "user_300_plus"
Callers   == {"user", "timer_1xx"}

(***************************************************************************)
(* The actions of the outcomes, as sequences of steps:                     *)
(*   send             tpl.Send(lastResp); a failure drops the rest and     *)
(*                    returns server_input_transport_err                   *)
(*   passAck          acks <- lastAck, without recover                     *)
(*   passAck_recover, passCancel   the same with recover                   *)
(*   arm_...          the timers of the name                               *)
(*   input_delete     the action returns server_input_delete               *)
(***************************************************************************)
\* Mutants (here and below, names that end in _bug): wrong versions of the
\* definition of the same name, which the properties must tell from the right one.
act_confirm_bug      == <<"arm_i", "passAck">>

NO_ACTION            == << >>
act_respond          == <<"send">>
act_respond_complete == <<"send", "arm_g", "arm_h">>
act_respond_accept   == <<"send", "arm_l">>
act_passup_ack       == <<"passAck">>
act_final            == <<"send", "arm_j">>
act_trans_err        == <<"transportErr", "input_delete">>
act_delete           == <<"delete">>
act_confirm          == <<"arm_i", "passAck_recover">>
act_cancel           == <<"passCancel">>

Ops == {"send", "arm_g", "arm_h", "arm_i", "arm_j", "arm_l", "passAck",
        "passAck_recover", "passCancel", "transportErr", "input_delete", "delete",
        "stop_timers"}

(***************************************************************************)
(* The state tables: <<state, input, next state, action>>.                 *)
(***************************************************************************)
UserInputs    == {"user_1xx", "user_2xx", "user_300_plus"}
MessageInputs == {"request", "ack", "cancel"}

InviteProceeding == {
  <<"proceeding", "request",       "proceeding", act_respond>>,
  <<"proceeding", "cancel",        "proceeding", act_cancel>>,
  <<"proceeding", "user_1xx",      "proceeding", act_respond>>,
  <<"proceeding", "user_2xx",      "accepted",   act_respond_accept>>,
  <<"proceeding", "user_300_plus", "completed",  act_respond_complete>>,
  <<"proceeding", "transport_err", "terminated", act_trans_err>> }

\* the ACK does not move the transaction to confirmed
InviteCompleted_bug ==
  {<<"completed", "request",       "completed",  act_respond>>,
   <<"completed", "ack",           "completed",  act_confirm>>,
   <<"completed", "timer_g",       "completed",  act_respond_complete>>,
   <<"completed", "timer_h",       "terminated", act_delete>>,
   <<"completed", "transport_err", "terminated", act_trans_err>>}
  \cup {<<"completed", i, "completed", NO_ACTION>> : i \in UserInputs \cup {"cancel"}}

InviteCompleted ==
  {<<"completed", "request",       "completed",  act_respond>>,
   <<"completed", "ack",           "confirmed",  act_confirm>>,
   <<"completed", "timer_g",       "completed",  act_respond_complete>>,
   <<"completed", "timer_h",       "terminated", act_delete>>,
   <<"completed", "transport_err", "terminated", act_trans_err>>}
  \cup {<<"completed", i, "completed", NO_ACTION>> : i \in UserInputs \cup {"cancel"}}

\* a late callback of timer G still sends; timer I has no outcome
InviteConfirmed_bug ==
  {<<"confirmed", "timer_g", "confirmed", act_respond_complete>>}
  \cup {<<"confirmed", i, "confirmed", NO_ACTION>> :
          i \in MessageInputs \cup UserInputs \cup {"timer_h"}}

InviteConfirmed ==
  {<<"confirmed", "timer_i", "terminated", act_delete>>}
  \cup {<<"confirmed", i, "confirmed", NO_ACTION>> :
          i \in MessageInputs \cup UserInputs \cup {"timer_g", "timer_h"}}

InviteAccepted ==
  {<<"accepted", "ack",      "accepted",   act_passup_ack>>,
   <<"accepted", "user_2xx", "accepted",   act_respond>>,
   <<"accepted", "timer_l",  "terminated", act_delete>>}
  \cup {<<"accepted", i, "accepted", NO_ACTION>> :
          i \in {"request", "cancel", "user_1xx", "user_300_plus", "transport_err"}}

InviteTerminated ==
  {<<"terminated", "delete", "terminated", act_delete>>}
  \cup {<<"terminated", i, "terminated", NO_ACTION>> :
          i \in MessageInputs \cup UserInputs \cup {"timer_i", "timer_l"}}

InviteFSM == InviteProceeding \cup InviteCompleted \cup InviteConfirmed
               \cup InviteAccepted \cup InviteTerminated

NonInviteTrying ==
  {<<"trying", "user_1xx",      "proceeding", act_respond>>,
   <<"trying", "user_2xx",      "completed",  act_final>>,
   <<"trying", "user_300_plus", "completed",  act_final>>,
   <<"trying", "transport_err", "terminated", act_trans_err>>}
  \cup {<<"trying", i, "trying", NO_ACTION>> : i \in {"request", "cancel"}}

NonInviteProceeding == {
  <<"proceeding", "request",       "proceeding", act_respond>>,
  <<"proceeding", "cancel",        "proceeding", NO_ACTION>>,
  <<"proceeding", "user_1xx",      "proceeding", act_respond>>,
  <<"proceeding", "user_2xx",      "completed",  act_final>>,
  <<"proceeding", "user_300_plus", "completed",  act_final>>,
  <<"proceeding", "transport_err", "terminated", act_trans_err>> }

NonInviteCompleted ==
  {<<"completed", "request",       "completed",  act_respond>>,
   <<"completed", "timer_j",       "terminated", act_delete>>,
   <<"completed", "transport_err", "terminated", act_trans_err>>}
  \cup {<<"completed", i, "completed", NO_ACTION>> : i \in UserInputs \cup {"cancel"}}

NonInviteTerminated ==
  {<<"terminated", "delete", "terminated", act_delete>>}
  \cup {<<"terminated", i, "terminated", NO_ACTION>> :
          i \in UserInputs \cup {"request", "cancel", "timer_j"}}

NonInviteFSM == NonInviteTrying \cup NonInviteProceeding
                  \cup NonInviteCompleted \cup NonInviteTerminated

\* tx.initFSM
Outcomes == IF inv THEN InviteFSM ELSE NonInviteFSM

\* Whether the outcome of an input ends the wait for the user's final response.
Settles(next) == state \in {"trying", "proceeding"} /\ next \in {"completed", "accepted"}

\* What FSM.Spin does with an input: the state changes and the action starts.
\* An input without an outcome is an error that leaves the FSM as it is.
Accept(input) ==
  \/ \E o \in Outcomes :
       /\ o[1] = state /\ o[2] = input
       /\ state' = o[3]
       /\ prog' = o[4]
       /\ verdict' = IF Settles(o[3]) THEN input ELSE verdict
  \/ /\ ~ \E o \in Outcomes : o[1] = state /\ o[2] = input
     /\ prog' = << >>
     /\ UNCHANGED <<state, verdict>>

\* A goroutine gets the lock of the FSM and spins it.
Spin(input) == prog = << >> /\ Accept(input)

-----------------------------------------------------------------------------
(***************************************************************************)
(* The steps.                                                              *)
(***************************************************************************)
Alive == panic = "no"
Rest  == Tail(prog)

\* The send of the act_respond... actions and of act_final.
send ==
  /\ Head(prog) = "send"
  /\ \/ /\ lastResp = "nil"
        /\ prog' = << >>
        /\ UNCHANGED <<state, lastErr, fails, histVars>>
     \/ /\ lastResp # "nil"
        /\ lastErr' = FALSE
        /\ prog' = Rest
        /\ answer' = IF answer = "nil" /\ verdict # "nil" THEN lastResp ELSE answer
        /\ UNCHANGED <<state, fails, verdict, acceptLost>>
     \/ /\ lastResp # "nil"
        /\ fails < MaxFail
        /\ fails' = fails + 1
        /\ lastErr' = TRUE
        /\ Accept("transport_err")
        /\ acceptLost' = (acceptLost \/ prog = act_respond_accept)
        /\ UNCHANGED answer
  /\ UNCHANGED <<timerVars, lastResp, upVars, endVars, panic>>

\* select { case <-tx.done: case tx.acks <- ack: }
\* Once the channels are closed both cases are ready and the send panics.
\* act_passup_ack does not recover; act_confirm does, and the function then
\* returns the zero Input, which is server_input_request.
passAck ==
  /\ Head(prog) \in {"passAck", "passAck_recover"}
  /\ \/ /\ ~done
        /\ acks - acksRead < ChanCap
        /\ acks' = acks + 1
        /\ prog' = Rest
        /\ UNCHANGED <<state, verdict, panic>>
     \/ /\ done
        /\ prog' = Rest
        /\ UNCHANGED <<state, verdict, acks, panic>>
     \/ /\ done /\ Head(prog) = "passAck"
        /\ panic' = "send on closed channel"
        /\ UNCHANGED <<state, verdict, acks, prog>>
     \/ /\ done /\ Head(prog) = "passAck_recover"
        /\ Accept("request")
        /\ UNCHANGED <<acks, panic>>
  /\ UNCHANGED <<timerVars, lastVars, cancelsUp, errs, endVars, answer, acceptLost,
                 fails>>

\* The same with tx.cancels; act_cancel recovers.
passCancel ==
  /\ Head(prog) = "passCancel"
  /\ \/ /\ ~done
        /\ cancelsUp - cancelsRead < ChanCap
        /\ cancelsUp' = cancelsUp + 1
        /\ prog' = Rest
        /\ UNCHANGED <<state, verdict>>
     \/ /\ done
        /\ prog' = Rest
        /\ UNCHANGED <<state, verdict, cancelsUp>>
     \/ /\ done
        /\ Accept("request")
        /\ UNCHANGED cancelsUp
  /\ UNCHANGED <<timerVars, lastVars, acks, errs, endVars, panic, answer, acceptLost,
                 fails>>

\* transportErr recovers too: a closed transaction only loses the error.
transportErr ==
  /\ Head(prog) = "transportErr"
  /\ \/ done /\ UNCHANGED errs
     \/ /\ ~done
        /\ errs - errsRead < ChanCap
        /\ errs' = errs + 1
  /\ prog' = Rest
  /\ UNCHANGED <<state, timerVars, lastVars, acks, cancelsUp, endVars, panic, histVars,
                 fails>>

\* delete, up to the end of closeOnce; the timers are stopped afterwards.
delete ==
  /\ Head(prog) = "delete"
  /\ done' = TRUE
  /\ prog' = IF done THEN Rest ELSE <<"stop_timers">> \o Rest
  /\ UNCHANGED <<state, timerVars, lastVars, upVars, term, panic, histVars, fails>>

\* timer_l is not among the timers that delete stops.
StopAll == [t \in Timers |-> IF t = "timer_l" THEN timer[t] ELSE "nil"]

TimerStep(op, newTimer) ==
  /\ Head(prog) = op
  /\ timer' = newTimer
  /\ prog' = Rest
  /\ UNCHANGED <<state, lastVars, upVars, endVars, panic, histVars, fails>>

StopTimers == TimerStep("stop_timers", StopAll) /\ UNCHANGED timer_g_time

\* Timer G is set once and reset with a doubled interval from then on.
ArmG ==
  /\ TimerStep("arm_g", IF reliable THEN timer ELSE [timer EXCEPT !["timer_g"] = "armed"])
  /\ timer_g_time' = IF reliable \/ timer["timer_g"] = "nil" THEN timer_g_time
                     ELSE IF 2 * timer_g_time > T2 THEN T2 ELSE 2 * timer_g_time

ArmH ==
  /\ TimerStep("arm_h", IF timer["timer_h"] = "nil"
                        THEN [timer EXCEPT !["timer_h"] = "armed"] ELSE timer)
  /\ UNCHANGED timer_g_time

ArmI ==
  /\ TimerStep("arm_i", [timer EXCEPT !["timer_g"] = "nil", !["timer_h"] = "nil",
                                      !["timer_i"] = "armed"])
  /\ UNCHANGED timer_g_time

ArmJ == TimerStep("arm_j", [timer EXCEPT !["timer_j"] = "armed"]) /\ UNCHANGED timer_g_time
ArmL == TimerStep("arm_l", [timer EXCEPT !["timer_l"] = "armed"]) /\ UNCHANGED timer_g_time

\* the action returned server_input_delete: Spin goes on with it
InputDelete ==
  /\ Head(prog) = "input_delete"
  /\ Accept("delete")
  /\ UNCHANGED <<timerVars, lastVars, upVars, endVars, panic, answer, acceptLost, fails>>

\* The goroutine that holds the FSM lock does its next step.
Step ==
  /\ Alive
  /\ prog # << >>
  /\ \/ send \/ passAck \/ passCancel \/ transportErr \/ delete \/ StopTimers
     \/ ArmG \/ ArmH \/ ArmI \/ ArmJ \/ ArmL \/ InputDelete
  /\ UNCHANGED <<originVars, waiting, responding, readVars, recvs, resps>>
-----------------------------------------------------------------------------
(***************************************************************************)
(* The operations.                                                         *)
(***************************************************************************)

\* Receive stops timer_1xx and spins the FSM.  ACK and CANCEL have the key of
\* an INVITE transaction (MakeServerTxKey).
Receive(input) ==
  /\ Alive
  /\ recvs < MaxRecv
  /\ recvs' = recvs + 1
  /\ input = "request" \/ inv
  /\ timer' = [timer EXCEPT !["timer_1xx"] = "nil"]
  /\ Spin(input)
  /\ UNCHANGED <<originVars, timer_g_time, waiting, lastVars, responding, upVars,
                 readVars, endVars, panic, answer, acceptLost, resps, fails>>

\* The first half of Respond, under tx.mu.
Respond(caller, res) ==
  /\ responding[caller] = "nil"
  /\ responding' = [responding EXCEPT ![caller] = res]
  /\ lastResp' = res
  /\ timer' = [timer EXCEPT !["timer_1xx"] = "nil"]
  /\ UNCHANGED <<originVars, fsmVars, timer_g_time, lastErr, upVars, readVars, endVars,
                 panic, histVars, recvs, fails>>

\* The user of the transaction calls Respond.
UserResponds(res) ==
  /\ Alive
  /\ resps < MaxResp
  /\ resps' = resps + 1
  /\ Respond("user", res)
  /\ UNCHANGED waiting

\* The callback of timer_1xx, past its check of done, calls Respond.
TryingResponds ==
  /\ Alive
  /\ waiting["timer_1xx"] > 0
  /\ waiting' = [waiting EXCEPT !["timer_1xx"] = @ - 1]
  /\ Respond("timer_1xx", "100")
  /\ UNCHANGED resps

\* The second half of Respond.
RespondSpin(caller) ==
  /\ Alive
  /\ responding[caller] # "nil"
  /\ responding' = [responding EXCEPT ![caller] = "nil"]
  /\ Spin(Class(responding[caller]))
  /\ UNCHANGED <<originVars, timerVars, waiting, lastVars, upVars, readVars, endVars,
                 panic, answer, acceptLost, boundVars>>

\* A timer runs out; its callback returns if the transaction is done.
Fire(t) ==
  /\ Alive
  /\ timer[t] = "armed"
  /\ timer' = [timer EXCEPT ![t] = "expired"]
  /\ waiting' = IF done THEN waiting ELSE [waiting EXCEPT ![t] = @ + 1]
  /\ UNCHANGED <<originVars, fsmVars, timer_g_time, lastVars, responding, upVars,
                 readVars, endVars, panic, histVars, boundVars>>

\* The callback of one of the other timers spins the FSM.
SpinTimer(t) ==
  /\ Alive
  /\ waiting[t] > 0
  /\ waiting' = [waiting EXCEPT ![t] = @ - 1]
  /\ Spin(t)
  /\ UNCHANGED <<originVars, timerVars, lastVars, responding, upVars, readVars, endVars,
                 panic, answer, acceptLost, boundVars>>

\* Terminate closes the channels without the FSM lock, then stops the timers.
Terminate ==
  /\ Alive
  /\ \/ /\ term = "idle" /\ ~done
        /\ done' = TRUE
        /\ term' = "closed"
        /\ UNCHANGED timer
     \/ /\ term = "closed"
        /\ timer' = StopAll
        /\ term' = "returned"
        /\ UNCHANGED done
  /\ UNCHANGED <<originVars, fsmVars, timer_g_time, waiting, lastVars, responding, upVars,
                 readVars, panic, histVars, boundVars>>

\* The user takes an ACK, a CANCEL or an error out of its channel.
Read ==
  /\ Alive
  /\ \/ acksRead < acks /\ acksRead' = acksRead + 1 /\ UNCHANGED <<cancelsRead, errsRead>>
     \/ /\ cancelsRead < cancelsUp /\ cancelsRead' = cancelsRead + 1
        /\ UNCHANGED <<acksRead, errsRead>>
     \/ errsRead < errs /\ errsRead' = errsRead + 1 /\ UNCHANGED <<acksRead, cancelsRead>>
  /\ UNCHANGED <<originVars, fsmVars, timerVars, waiting, lastVars, responding, upVars,
                 endVars, panic, histVars, boundVars>>

-----------------------------------------------------------------------------
\* NewServerTx and Init: the layer has not shown the transaction to anyone yet.
Init ==
  /\ inv \in BOOLEAN
  /\ reliable \in BOOLEAN
  /\ state = IF inv THEN "proceeding" ELSE "trying"
  /\ prog = << >>
  /\ timer = [t \in Timers |-> IF inv /\ t = "timer_1xx" THEN "armed" ELSE "nil"]
  /\ timer_g_time = IF reliable THEN 0 ELSE 1
  /\ waiting = [t \in Timers |-> 0]
  /\ lastResp = "nil" /\ lastErr = FALSE
  /\ responding = [c \in Callers |-> "nil"]
  /\ acks = 0 /\ cancelsUp = 0 /\ errs = 0
  /\ acksRead = 0 /\ cancelsRead = 0 /\ errsRead = 0
  /\ done = FALSE /\ term = "idle"
  /\ panic = "no"
  /\ verdict = "nil" /\ answer = "nil" /\ acceptLost = FALSE
  /\ recvs = 0 /\ resps = 0 /\ fails = 0

Next ==
  \/ \E input \in MessageInputs : Receive(input)
  \/ \E res \in UserResps : UserResponds(res)
  \/ TryingResponds
  \/ \E caller \in Callers : RespondSpin(caller)
  \/ \E t \in Timers : Fire(t)
  \/ \E t \in FsmTimers : SpinTimer(t)
  \/ Step
  \/ Terminate
  \/ Read

Spec == Init /\ [][Next]_vars

\* Go runs a goroutine that can run, a timer that ends a state expires, and the mutex
\* of the FSM does not starve its callback.  The user reads the channels.  Nothing is
\* assumed of timers G and 1xx and of the callers of Respond.
EndTimers == {"timer_h", "timer_i", "timer_j", "timer_l"}
Fairness ==
  /\ WF_vars(Step) /\ WF_vars(Read)
  /\ WF_vars(\E t \in EndTimers : Fire(t)) /\ SF_vars(\E t \in EndTimers : SpinTimer(t))

FairSpec == Spec /\ Fairness
-----------------------------------------------------------------------------
(***************************************************************************)
(* Properties.                                                             *)
(***************************************************************************)

\* Types, the capacities of the three channels, and the cap T2 on the interval
\* of timer G (act_respond_complete).
TypeOK ==
  /\ inv \in BOOLEAN /\ reliable \in BOOLEAN
  /\ state \in States
  /\ prog \in Seq(Ops)
  /\ timer \in [Timers -> TimerStates]
  /\ timer_g_time \in 0..T2
  /\ waiting \in [Timers -> Nat]
  /\ lastResp \in Resps \cup {"nil"} /\ lastErr \in BOOLEAN
  /\ responding \in [Callers -> Resps \cup {"nil"}]
  /\ acks \in Nat /\ acksRead \in 0..acks /\ acks - acksRead <= ChanCap
  /\ cancelsUp \in Nat /\ cancelsRead \in 0..cancelsUp
  /\ cancelsUp - cancelsRead <= ChanCap
  /\ errs \in Nat /\ errsRead \in 0..errs /\ errs - errsRead <= ChanCap
  /\ done \in BOOLEAN /\ term \in {"idle", "closed", "returned"}
  /\ panic \in {"no", "send on closed channel"}
  /\ verdict \in UserInputs \cup {"nil"}
  /\ answer \in Resps \cup {"nil"} /\ acceptLost \in BOOLEAN
  /\ recvs \in 0..MaxRecv /\ resps \in 0..MaxResp /\ fails \in 0..MaxFail

Contract == INSTANCE ServerContract WITH
  invite <- inv, cancels <- cancelsUp, closed <- done, aborted <- (term # "idle")

\* The transaction keeps the contract with its user: CANCELs before the answer
\* only, ACKs after it only and one for a 300+, at most one error, and an end
\* only after the answer, an error or Terminate - with every race of Receive,
\* the two callers of Respond, the timer callbacks and Terminate.
ImplementsServerContract == Contract!Spec

\* The only panic is that of act_passup_ack, which unlike act_confirm does not
\* recover: an ACK handled while Terminate closes an accepted transaction.
OnlyAckPanics ==
  panic # "no" => term # "idle" /\ inv /\ state = "accepted"

\* A rejected INVITE falls silent with its ACK, and every transaction with the end that
\* its FSM comes to: a callback of timer G, a retransmitted request or a Respond that got
\* the lock too late finds a state in which nothing is sent.  Not silent are a transaction
\* that Terminate has closed in the middle, as Respond does not look at done, and an
\* accepted INVITE, which sends every further 2xx of the user, acknowledged or not.
SilentOnceConfirmed ==
  prog # << >> /\ Head(prog) = "send" =>
    state \notin {"confirmed", "terminated"} /\ (done => term # "idle")

\* A transaction that has its final response ends, unless the 2xx of an INVITE
\* could not be sent: timers H, I, J and L cannot be lost, and no goroutine keeps
\* the FSM lock for ever.
AnsweredEnds == verdict # "nil" ~> (done \/ panic # "no" \/ acceptLost)

\* The response that is sent when the transaction leaves proceeding is the final
\* response the user gave to Respond.
SendsTheFinalResponse == answer # "nil" => Class(answer) = verdict

=============================================================================
