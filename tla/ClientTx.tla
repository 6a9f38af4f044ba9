------------------------------ MODULE ClientTx ------------------------------
(***************************************************************************)
(* The client transaction of transaction/client_tx.go: the INVITE and the  *)
(* non-INVITE state machine, its timers, its two output channels and the   *)
(* goroutines that touch it at the same time:                              *)
(*                                                                         *)
(*   - the layer's goroutine, which calls Receive, one response at a time; *)
(*   - the user, who calls Cancel and reads Responses() and Errors();      *)
(*   - the callbacks of timers A, B, D and M, and the goroutines that      *)
(*     report a failed send;                                               *)
(*   - the layer's serveTransaction, which calls Terminate at shutdown.    *)
(*                                                                         *)
(* Every input goes through fsm.Spin, which holds the machine's lock until *)
(* the action of the outcome, and of the inputs it returns, has run.       *)
(* Terminate does not take that lock.  An action (act_...) is therefore a  *)
(* sequence of steps, one per critical section or channel operation, and   *)
(* prog is what the goroutine that holds the lock has still to do.         *)
(***************************************************************************)
EXTENDS Integers, Sequences

CONSTANTS
  RespCap,      \* capacity of the responses channel (64 in the code)
  ErrCap,       \* capacity of the errs channel (64 in the code)
  T2,           \* the cap of timer A of a non-INVITE, in units of T1
  ResendBound,  \* timer A does not fire at or beyond this interval
  MaxRecv,      \* bound: responses that arrive
  MaxFail,      \* bound: sends that fail
  MaxCancel     \* bound: calls of Cancel

ASSUME ConstantsAssumption ==
  /\ RespCap \in Nat \ {0}
  /\ ErrCap \in Nat \ {0}
  /\ T2 \in Nat \ {0}
  /\ ResendBound \in Nat
  /\ MaxRecv \in Nat
  /\ MaxFail \in Nat
  /\ MaxCancel \in Nat

VARIABLES
  inv,          \* tx.Origin().IsInvite()
  reliable,     \* tx.reliable
  known,        \* Init succeeded: the layer and the user hold the transaction
  state,        \* the state of the FSM
  prog,         \* steps left to the goroutine that holds the FSM lock
  timer,        \* timer_a, timer_b, timer_d, timer_m
  timer_a_time, \* in units of T1
  waiting,      \* goroutines that wait for the FSM lock, by input
  lastResp,     \* class of tx.lastResp
  lastErr,      \* tx.lastErr # nil
  receiving,    \* Receive: the class that waits for the FSM lock, or "fsm" when it has it
  passed,       \* everything put into the responses channel, in order
  read,         \* how many of them the user has taken out
  reported,     \* everything put into the errs channel, in order
  errRead,      \* how many of them the user has taken out
  done,         \* tx.done, tx.responses and tx.errs are closed
  term,         \* progress of Terminate
  panic,        \* why the process has panicked, if it has
  recvs,        \* responses received so far
  fails,        \* sends failed so far
  cancels       \* calls of Cancel so far

fsmVars    == <<state, prog>>
timerVars  == <<timer, timer_a_time>>
lastVars   == <<lastResp, lastErr>>
upVars     == <<passed, read, reported, errRead>>
endVars    == <<done, term>>
originVars == <<inv, reliable, known>>
boundVars  == <<recvs, fails, cancels>>
vars == <<originVars, fsmVars, timerVars, waiting, lastVars, receiving, upVars,
          endVars, panic, boundVars>>

-----------------------------------------------------------------------------
Timers      == {"timer_a", "timer_b", "timer_d", "timer_m"}
Async       == Timers \cup {"transport_err"}
RespClass   == {"1xx", "2xx", "300_plus"}
States      == {"calling", "proceeding", "completed", "accepted", "terminated"}
TimerStates == {"nil", "armed", "expired"}

(***************************************************************************)
(* The actions of the outcomes, as sequences of steps.  One step is one    *)
(* critical section of tx.mu or one channel operation:                     *)
(*   reset_a, reset_a_capped   double timer A and Reset it                 *)
(*   stop_a, stop_ab           stop and nil timer A (and B)                *)
(*   arm_b                     replace timer B                             *)
(*   arm_d, arm_m              stop and nil A and B, start D (M)           *)
(*   input_delete              the action returns client_input_delete      *)
(***************************************************************************)
\* Mutants (here and below, names that end in _bug): wrong versions of the
\* definition of the same name, which the properties must tell from the right one.
act_passup_bug           == <<"passUp">>
NO_ACTION             == << >>
act_invite_resend     == <<"reset_a", "resend">>
act_invite_canceled   == << >>
act_non_invite_resend == <<"reset_a_capped", "resend">>
act_passup            == <<"passUp", "stop_a">>
act_invite_proceeding == <<"passUp", "stop_ab">>
act_invite_final      == <<"ack", "passUp", "arm_d">>
act_non_invite_final  == <<"passUp", "arm_d">>
act_cancel            == <<"cancel">>
act_cancel_timeout    == <<"cancel", "arm_b">>
act_ack               == <<"ack">>
act_trans_err         == <<"transportErr", "stop_a", "input_delete">>
act_timeout           == <<"timeoutErr", "stop_a", "input_delete">>
act_passup_accept     == <<"passUp", "arm_m">>
act_delete            == <<"delete">>
\* the closure of the accepted state: act_trans_err, its input dropped
accepted_trans_err    == <<"transportErr", "stop_a">>

Ops == {"reset_a", "reset_a_capped", "resend", "passUp", "stop_a", "stop_ab",
        "ack", "cancel", "arm_b", "arm_d", "arm_m", "transportErr",
        "timeoutErr", "input_delete", "delete", "stop_timers"}

(***************************************************************************)
(* The state tables: <<state, input, next state, action>>.                 *)
(***************************************************************************)
InviteCalling == {
  <<"calling", "1xx",           "proceeding", act_invite_proceeding>>,
  <<"calling", "2xx",           "accepted",   act_passup_accept>>,
  <<"calling", "300_plus",      "completed",  act_invite_final>>,
  <<"calling", "cancel",        "calling",    act_cancel>>,
  <<"calling", "canceled",      "calling",    act_invite_canceled>>,
  <<"calling", "timer_a",       "calling",    act_invite_resend>>,
  <<"calling", "timer_b",       "terminated", act_timeout>>,
  <<"calling", "transport_err", "terminated", act_trans_err>> }

\* timer A still resends after a provisional response
InviteProceeding_bug == {
  <<"proceeding", "1xx",           "proceeding", act_passup>>,
  <<"proceeding", "2xx",           "accepted",   act_invite_final>>,
  <<"proceeding", "300_plus",      "completed",  act_invite_final>>,
  <<"proceeding", "cancel",        "proceeding", act_cancel_timeout>>,
  <<"proceeding", "canceled",      "proceeding", act_invite_canceled>>,
  <<"proceeding", "timer_a",       "proceeding", act_invite_resend>>,
  <<"proceeding", "timer_b",       "terminated", act_timeout>>,
  <<"proceeding", "transport_err", "terminated", act_trans_err>> }

InviteProceeding == {
  <<"proceeding", "1xx",           "proceeding", act_passup>>,
  <<"proceeding", "2xx",           "accepted",   act_invite_final>>,
  <<"proceeding", "300_plus",      "completed",  act_invite_final>>,
  <<"proceeding", "cancel",        "proceeding", act_cancel_timeout>>,
  <<"proceeding", "canceled",      "proceeding", act_invite_canceled>>,
  <<"proceeding", "timer_a",       "proceeding", NO_ACTION>>,
  <<"proceeding", "timer_b",       "terminated", act_timeout>>,
  <<"proceeding", "transport_err", "terminated", act_trans_err>> }

\* a retransmitted 300+ is passed up again
InviteCompleted_bug ==
  {<<"completed", "300_plus",      "completed",  act_invite_final>>,
   <<"completed", "transport_err", "terminated", act_trans_err>>,
   <<"completed", "timer_d",       "terminated", act_delete>>}
  \cup {<<"completed", i, "completed", NO_ACTION>> :
          i \in {"1xx", "2xx", "cancel", "canceled", "timer_a", "timer_b"}}

InviteCompleted ==
  {<<"completed", "300_plus",      "completed",  act_ack>>,
   <<"completed", "transport_err", "terminated", act_trans_err>>,
   <<"completed", "timer_d",       "terminated", act_delete>>}
  \cup {<<"completed", i, "completed", NO_ACTION>> :
          i \in {"1xx", "2xx", "cancel", "canceled", "timer_a", "timer_b"}}

InviteAccepted ==
  {<<"accepted", "2xx",           "accepted",   act_passup>>,
   <<"accepted", "transport_err", "accepted",   accepted_trans_err>>,
   <<"accepted", "timer_m",       "terminated", act_delete>>}
  \cup {<<"accepted", i, "accepted", NO_ACTION>> :
          i \in {"1xx", "300_plus", "cancel", "canceled", "timer_a", "timer_b"}}

InviteTerminated ==
  {<<"terminated", "delete", "terminated", act_delete>>}
  \cup {<<"terminated", i, "terminated", NO_ACTION>> :
          i \in RespClass \cup Async \cup {"cancel", "canceled"}}

InviteFSM == InviteCalling \cup InviteProceeding \cup InviteCompleted
               \cup InviteAccepted \cup InviteTerminated

NonInviteTrying(s) == {
  <<s, "1xx",           "proceeding", act_passup>>,
  <<s, "2xx",           "completed",  act_non_invite_final>>,
  <<s, "300_plus",      "completed",  act_non_invite_final>>,
  <<s, "timer_a",       s,            act_non_invite_resend>>,
  <<s, "timer_b",       "terminated", act_timeout>>,
  <<s, "transport_err", "terminated", act_trans_err>>,
  <<s, "cancel",        s,            NO_ACTION>> }

\* timer D without an outcome
NonInviteCompleted_bug ==
  {<<"completed", i, "completed", NO_ACTION>> :
     i \in RespClass \cup {"timer_a", "timer_b", "cancel"}}

NonInviteCompleted ==
  {<<"completed", "timer_d", "terminated", act_delete>>}
  \cup {<<"completed", i, "completed", NO_ACTION>> :
          i \in RespClass \cup {"timer_a", "timer_b", "cancel"}}

NonInviteTerminated ==
  {<<"terminated", "delete", "terminated", act_delete>>}
  \cup {<<"terminated", i, "terminated", NO_ACTION>> :
          i \in RespClass \cup {"timer_a", "timer_b", "timer_d", "cancel"}}

NonInviteFSM == NonInviteTrying("calling") \cup NonInviteTrying("proceeding")
                  \cup NonInviteCompleted \cup NonInviteTerminated

\* tx.initFSM
Outcomes == IF inv THEN InviteFSM ELSE NonInviteFSM

\* What fsm.Spin does with an input: the outcome of the state for the input
\* is taken; an input without outcome is an error that changes nothing.
Accept(input) ==
  \/ \E o \in Outcomes : /\ o[1] = state
                         /\ o[2] = input
                         /\ state' = o[3]
                         /\ prog' = o[4]
  \/ /\ ~ \E o \in Outcomes : o[1] = state /\ o[2] = input
     /\ state' = state
     /\ prog' = << >>

\* A goroutine gets the FSM lock.
Spin(input) == prog = << >> /\ Accept(input)

-----------------------------------------------------------------------------
(***************************************************************************)
(* The functions the steps call.                                           *)
(***************************************************************************)
Rest == Tail(prog)

\* A panic ends the process: no goroutine recovers it.
Alive == panic = "no"

\* tx.tpl.Send (external): it succeeds, or it fails with an error.
Sends     == UNCHANGED fails
SendFails == fails < MaxFail /\ fails' = fails + 1

\* go func() { tx.fsm.Spin(client_input_transport_err) }
SpinTransportErr == waiting' = [waiting EXCEPT !["transport_err"] = @ + 1]

\* cancel and ack: a failure is kept in lastErr, a success leaves lastErr alone
SendOrReport ==
  /\ \/ Sends /\ UNCHANGED <<lastErr, waiting>>
     \/ SendFails /\ lastErr' = TRUE /\ SpinTransportErr
  /\ prog' = Rest
  /\ UNCHANGED <<state, timerVars, lastResp, upVars, endVars, panic>>

cancel == Head(prog) = "cancel" /\ SendOrReport
ack    == Head(prog) = "ack"    /\ SendOrReport

\* resend also clears lastErr when the request goes out
resend ==
  /\ Head(prog) = "resend"
  /\ \/ done /\ UNCHANGED <<fails, lastErr, waiting>>
     \/ ~done /\ Sends /\ lastErr' = FALSE /\ UNCHANGED waiting
     \/ ~done /\ SendFails /\ lastErr' = TRUE /\ SpinTransportErr
  /\ prog' = Rest
  /\ UNCHANGED <<state, timerVars, lastResp, upVars, endVars, panic>>

\* select { case <-tx.done: case tx.responses <- lastResp: }
\* Once the channels are closed both cases are ready; the send panics.
passUp ==
  /\ Head(prog) = "passUp"
  /\ \/ /\ lastResp = "nil" \/ done
        /\ prog' = Rest
        /\ UNCHANGED <<passed, panic>>
     \/ /\ lastResp # "nil" /\ ~done
        /\ Len(passed) - read < RespCap
        /\ passed' = Append(passed, lastResp)
        /\ prog' = Rest
        /\ UNCHANGED panic
     \/ /\ lastResp # "nil" /\ done
        /\ panic' = "send on closed channel"
        /\ UNCHANGED <<prog, passed>>
  /\ UNCHANGED <<state, timerVars, waiting, lastVars, read, reported, errRead,
                 endVars, fails>>

\* transportErr and timeoutErr recover from the panic of a send on the closed
\* channel, so a closed transaction only loses the error.
ReportErr(kind) ==
  /\ \/ done /\ UNCHANGED reported
     \/ /\ ~done
        /\ Len(reported) - errRead < ErrCap
        /\ reported' = Append(reported, kind)
  /\ prog' = Rest
  /\ UNCHANGED <<state, timerVars, waiting, lastVars, passed, read, errRead,
                 endVars, panic, fails>>

transportErr == Head(prog) = "transportErr" /\ ReportErr("transport")
timeoutErr   == Head(prog) = "timeoutErr"   /\ ReportErr("timeout")

\* delete, up to the end of closeOnce; the timers are stopped in a second
\* critical section
delete ==
  /\ Head(prog) = "delete"
  /\ done' = TRUE
  /\ prog' = IF done THEN Rest ELSE <<"stop_timers">> \o Rest
  /\ UNCHANGED <<state, timerVars, waiting, lastVars, upVars, term, panic,
                 fails>>

StopAll == [timer EXCEPT !["timer_a"] = "nil", !["timer_b"] = "nil",
                         !["timer_d"] = "nil"]

\* The steps under tx.mu that only touch timers.
TimerStep(op, newTimer) ==
  /\ Head(prog) = op
  /\ timer' = newTimer
  /\ prog' = Rest
  /\ UNCHANGED <<state, timer_a_time, waiting, lastVars, upVars, endVars, panic,
                 fails>>

StopTimers == TimerStep("stop_timers", StopAll)
StopA  == TimerStep("stop_a", [timer EXCEPT !["timer_a"] = "nil"])
StopAB == TimerStep("stop_ab", [timer EXCEPT !["timer_a"] = "nil", !["timer_b"] = "nil"])
ArmB   == TimerStep("arm_b", [timer EXCEPT !["timer_b"] = "armed"])
ArmD   == TimerStep("arm_d", [timer EXCEPT !["timer_a"] = "nil", !["timer_b"] = "nil",
                                           !["timer_d"] = "armed"])
ArmM   == TimerStep("arm_m", [timer EXCEPT !["timer_a"] = "nil", !["timer_b"] = "nil",
                                           !["timer_m"] = "armed"])

\* tx.timer_a.Reset on a nil timer panics.
ResetA ==
  /\ Head(prog) \in {"reset_a", "reset_a_capped"}
  /\ timer_a_time' = IF Head(prog) = "reset_a_capped" /\ 2 * timer_a_time > T2
                     THEN T2 ELSE 2 * timer_a_time
  /\ \/ /\ timer["timer_a"] # "nil"
        /\ timer' = [timer EXCEPT !["timer_a"] = "armed"]
        /\ prog' = Rest
        /\ UNCHANGED panic
     \/ /\ timer["timer_a"] = "nil"
        /\ panic' = "nil timer"
        /\ UNCHANGED <<timer, prog>>
  /\ UNCHANGED <<state, waiting, lastVars, upVars, endVars, fails>>

\* the action returned client_input_delete: Spin goes on with it
InputDelete ==
  /\ Head(prog) = "input_delete"
  /\ Accept("delete")
  /\ UNCHANGED <<timerVars, waiting, lastVars, upVars, endVars, panic, fails>>

\* The goroutine that holds the FSM lock does its next step.
Step ==
  /\ Alive
  /\ prog # << >>
  /\ \/ cancel \/ ack \/ resend \/ passUp \/ transportErr \/ timeoutErr \/ delete
     \/ StopTimers \/ StopA \/ StopAB \/ ArmB \/ ArmD \/ ArmM \/ ResetA
     \/ InputDelete
  /\ receiving' = IF receiving = "fsm" /\ prog' = << >> THEN "nil" ELSE receiving
  /\ UNCHANGED <<originVars, recvs, cancels>>

-----------------------------------------------------------------------------
(***************************************************************************)
(* The operations.                                                         *)
(***************************************************************************)

\* tx.Init, up to the return: nobody else holds the transaction yet, and the
\* timers run for 500 ms at least.  A failed send spins transport_err.
InitTx ==
  /\ Alive
  /\ ~known /\ fails = 0
  /\ \/ /\ Sends
        /\ known' = TRUE
        /\ timer' = [timer EXCEPT !["timer_a"] = IF reliable THEN "nil" ELSE "armed",
                                  !["timer_b"] = "armed"]
        /\ UNCHANGED <<fsmVars, lastErr>>
     \/ /\ SendFails
        /\ lastErr' = TRUE
        /\ Spin("transport_err")
        /\ UNCHANGED <<known, timer>>
  /\ UNCHANGED <<inv, reliable, timer_a_time, waiting, lastResp, receiving, upVars,
                 endVars, panic, recvs, cancels>>

\* The first half of Receive: a response is stored as lastResp under tx.mu.  The layer's
\* goroutine is the only caller, so it comes back when the FSM is done with the last one.
Receive(class) ==
  /\ Alive
  /\ known
  /\ receiving = "nil"
  /\ recvs < MaxRecv
  /\ recvs' = recvs + 1
  /\ receiving' = class
  /\ \/ class \in RespClass /\ lastResp' = class
     \/ class = "canceled" /\ inv /\ UNCHANGED lastResp
  /\ UNCHANGED <<originVars, fsmVars, timerVars, waiting, lastErr, upVars, endVars, panic,
                 fails, cancels>>

\* The second half: it gets the lock and spins the FSM.
ReceiveSpin ==
  /\ Alive
  /\ known
  /\ receiving \in RespClass \cup {"canceled"}
  /\ Spin(receiving)
  /\ receiving' = IF prog' = << >> THEN "nil" ELSE "fsm"
  /\ UNCHANGED <<originVars, timerVars, waiting, lastVars, upVars, endVars, panic,
                 boundVars>>

Cancel ==
  /\ Alive
  /\ known
  /\ cancels < MaxCancel
  /\ cancels' = cancels + 1
  /\ Spin("cancel")
  /\ UNCHANGED <<originVars, timerVars, waiting, lastVars, receiving, upVars, endVars,
                 panic, recvs, fails>>

\* A timer runs out: its callback returns if the transaction is done and waits
\* for the FSM lock otherwise.  Stop no longer reaches it.
Fire(t) ==
  /\ Alive
  /\ timer[t] = "armed"
  /\ t = "timer_a" => timer_a_time < ResendBound
  /\ timer' = [timer EXCEPT ![t] = "expired"]
  /\ waiting' = IF done THEN waiting ELSE [waiting EXCEPT ![t] = @ + 1]
  /\ UNCHANGED <<originVars, fsmVars, timer_a_time, lastVars, receiving, upVars, endVars,
                 panic, boundVars>>

\* A timer callback, or a goroutine that reports a failed send, spins the FSM.
SpinAsync(input) ==
  /\ Alive
  /\ waiting[input] > 0
  /\ waiting' = [waiting EXCEPT ![input] = @ - 1]
  /\ Spin(input)
  /\ UNCHANGED <<originVars, timerVars, lastVars, receiving, upVars, endVars, panic,
                 boundVars>>

\* Terminate closes the channels without the FSM lock, then stops the timers.
Terminate ==
  /\ Alive
  /\ known
  /\ \/ /\ term = "idle" /\ ~done
        /\ done' = TRUE
        /\ term' = "closed"
        /\ UNCHANGED timer
     \/ /\ term = "closed"
        /\ timer' = StopAll
        /\ term' = "returned"
        /\ UNCHANGED done
  /\ UNCHANGED <<originVars, fsmVars, timer_a_time, waiting, lastVars, receiving, upVars,
                 panic, boundVars>>

\* The user reads Responses() and Errors(); what is buffered can still be read
\* after the channels are closed.
ReadResponse ==
  /\ Alive
  /\ read < Len(passed)
  /\ read' = read + 1
  /\ UNCHANGED <<originVars, fsmVars, timerVars, waiting, lastVars, receiving, passed,
                 reported, errRead, endVars, panic, boundVars>>

ReadError ==
  /\ Alive
  /\ errRead < Len(reported)
  /\ errRead' = errRead + 1
  /\ UNCHANGED <<originVars, fsmVars, timerVars, waiting, lastVars, receiving, passed,
                 read, reported, endVars, panic, boundVars>>

-----------------------------------------------------------------------------
Init ==
  /\ inv \in BOOLEAN
  /\ reliable \in BOOLEAN
  /\ known = FALSE
  /\ state = "calling"
  /\ prog = << >>
  /\ timer = [t \in Timers |-> "nil"]
  /\ timer_a_time = 1
  /\ waiting = [i \in Async |-> 0]
  /\ lastResp = "nil" /\ lastErr = FALSE
  /\ receiving = "nil"
  /\ passed = << >> /\ read = 0
  /\ reported = << >> /\ errRead = 0
  /\ done = FALSE /\ term = "idle"
  /\ panic = "no"
  /\ recvs = 0 /\ fails = 0 /\ cancels = 0

Next ==
  \/ InitTx
  \/ \E class \in RespClass \cup {"canceled"} : Receive(class)
  \/ ReceiveSpin
  \/ Cancel
  \/ \E t \in Timers : Fire(t)
  \/ \E i \in Async : SpinAsync(i)
  \/ Step
  \/ Terminate
  \/ ReadResponse
  \/ ReadError

Spec == Init /\ [][Next]_vars

\* Go runs a goroutine that can run, a timer that ends a state expires, and the mutex
\* of the FSM does not starve what waits for it.  The user reads both channels.  Nothing
\* is assumed of timer A.
EndTimers == {"timer_b", "timer_d", "timer_m"}
Fairness ==
  /\ WF_vars(Step) /\ WF_vars(ReadResponse) /\ WF_vars(ReadError)
  /\ WF_vars(\E t \in EndTimers : Fire(t))
  /\ SF_vars(\E i \in EndTimers \cup {"transport_err"} : SpinAsync(i))

FairSpec == Spec /\ Fairness

-----------------------------------------------------------------------------
(***************************************************************************)
(* Properties.                                                             *)
(***************************************************************************)

\* Types, the capacities of the two channels, and the cap T2 on the interval
\* at which a non-INVITE request is sent again (act_non_invite_resend).
TypeOK ==
  /\ inv \in BOOLEAN /\ reliable \in BOOLEAN /\ known \in BOOLEAN
  /\ state \in States
  /\ prog \in Seq(Ops)
  /\ timer \in [Timers -> TimerStates]
  /\ timer_a_time \in Nat
  /\ ~inv => timer_a_time <= T2
  /\ waiting \in [Async -> Nat]
  /\ lastResp \in RespClass \cup {"nil"} /\ lastErr \in BOOLEAN
  /\ receiving \in RespClass \cup {"nil", "canceled", "fsm"}
  /\ passed \in Seq(RespClass) /\ read \in 0..Len(passed)
  /\ Len(passed) - read <= RespCap
  /\ reported \in Seq({"transport", "timeout"}) /\ errRead \in 0..Len(reported)
  /\ Len(reported) - errRead <= ErrCap
  /\ done \in BOOLEAN /\ term \in {"idle", "closed", "returned"}
  /\ panic \in {"no", "nil timer", "send on closed channel"}
  /\ recvs \in 0..MaxRecv /\ fails \in 0..MaxFail /\ cancels \in 0..MaxCancel

Contract == INSTANCE ClientContract WITH
  up <- passed, errs <- reported, closed <- done, aborted <- (term # "idle")

\* The transaction keeps the contract with its user: 1xx*, then 2xx* or one 300+,
\* nothing once it is done, a timeout only when no final response came, and an
\* end only after a final response, an error or Terminate - with every race of
\* Receive, Cancel, the timer callbacks and Terminate.
ImplementsClientContract == Contract!Spec

\* An INVITE transaction panics only if Terminate ran beside an action of the FSM;
\* a non-INVITE one also when the callback of timer A waits for the lock while a
\* provisional response sets timer_a to nil (act_passup, act_non_invite_resend).
PanicNeedsTerminate ==
  panic # "no" => \/ term # "idle"
                  \/ ~inv /\ state = "proceeding" /\ panic = "nil timer"

\* The request is never sent again once the FSM has seen a response: a callback of timer A
\* that lost the race for the lock to Receive does not resend.  Then nothing has been
\* passed up, and lastResp is at most the response that still waits for the lock.
ResendOnlyUnanswered ==
  prog # << >> /\ Head(prog) = "resend" /\ ~done =>
    state = "calling" /\ passed = << >> /\ lastResp \in {"nil", receiving}

\* A transaction ends or, for an INVITE, leaves calling and completed: timers B
\* and D cannot be lost, and no goroutine keeps the FSM lock for ever.
UnansweredEnds ==
  (known /\ (~inv \/ state \in {"calling", "completed"}))
    ~> (done \/ panic # "no" \/ (inv /\ state \in {"proceeding", "accepted"}))

\* An INVITE transaction that got a 2xx ends (timer M of the accepted state).
AcceptedEnds == state = "accepted" ~> (done \/ panic # "no")
=============================================================================
