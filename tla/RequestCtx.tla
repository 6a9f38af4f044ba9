----------------------------- MODULE RequestCtx -----------------------------
(***************************************************************************)
(* RequestWithContext of server.go: one call, made by an application       *)
(* goroutine or by a request handler, sends a request, waits for its final *)
(* response with three goroutines (the caller, one that watches the        *)
(* context, one that reads the channels of the transaction), and repeats   *)
(* the request once, inside the reader, when the peer asks for             *)
(* credentials.  Meanwhile the server may be shut down (Server.tla).       *)
(*                                                                         *)
(* The client transaction is what ClientContract says: provisional         *)
(* responses, then 2xx or one other final response, errors, and an end.    *)
(***************************************************************************)
EXTENDS Integers, Sequences

CONSTANTS
  Cap,     \* capacity of the responses channel of a transaction (64 in the code)
  MaxUp    \* bound: responses a transaction passes up

ASSUME RequestAssumption == Cap \in Nat \ {0} /\ MaxUp \in Nat

VARIABLES
  isRunning, \* srv.running
  layer,     \* the transaction layer: it runs, is canceled, is done
  ctxDone,   \* ctx.Done() is closed
  main,      \* per attempt: where requestWithContext is
  watcher,   \* per attempt: the goroutine that waits for done or ctx.Done()
  reader,    \* per attempt: the goroutine that reads Responses() and Errors()
  drainer,   \* per attempt: the goroutine that reads what follows a 2xx
  result,    \* per attempt: what was put into the errs or the responses channel
  stage,     \* per attempt: the client transaction is made, then served by the layer
  up,        \* the responses it has passed up
  read,      \* how many of them have been taken out of the channel
  errs,      \* the errors it has reported
  errRead,   \* how many of them have been taken out of the channel
  canceled,  \* tx.Cancel has been called
  closed,    \* the transaction has ended and its channels are closed
  invite,    \* the request is an INVITE
  timerB     \* timer B of the transaction is running

srvVars  == <<isRunning, layer>>
upVars   == <<up, read>>
errVars  == <<errs, errRead>>
timerVars == <<invite, timerB>>
txVars   == <<stage, upVars, errVars, canceled, closed, timerVars>>
callVars == <<srvVars, ctxDone, main, watcher, reader, drainer, result, txVars>>

Attempts == 1..2
Classes  == {"1xx", "2xx", "401", "300_plus"}   \* 401 stands for 401 and 407
Final    == Classes \ {"1xx"}

Passed(a, classes) == \E i \in DOMAIN up[a] : up[a][i] \in classes
Open(a)            == stage[a] # "none" /\ ~closed[a]

-----------------------------------------------------------------------------
(***************************************************************************)
(* requestWithContext, attempt a.                                          *)
(***************************************************************************)
Begin ==
  /\ main[1] = "idle"
  /\ main' = [main EXCEPT ![1] = "request"]
  /\ UNCHANGED <<srvVars, ctxDone, watcher, reader, drainer, result, txVars>>

ContextEnds ==
  /\ ~ctxDone
  /\ ctxDone' = TRUE
  /\ UNCHANGED <<srvVars, main, watcher, reader, drainer, result, txVars>>

Fails(a, err) ==
  /\ main' = [main EXCEPT ![a] = "returned"]
  /\ result' = [result EXCEPT ![a] = err]

\* srv.Request: the test of running, then the one of the layer, the send of the
\* request, and the hand-over to the layer, which may be refused
Request(a) ==
  /\ \/ /\ main[a] = "request" /\ ~isRunning
        /\ Fails(a, "refused")
        /\ UNCHANGED <<watcher, reader, stage, timerB>>
     \/ /\ main[a] = "request" /\ isRunning
        /\ main' = [main EXCEPT ![a] = "layer"]
        /\ UNCHANGED <<watcher, reader, result, stage, timerB>>
     \/ /\ main[a] = "layer"
        /\ Fails(a, IF layer = "running" THEN "transport" ELSE "refused")
        /\ UNCHANGED <<watcher, reader, stage, timerB>>
     \/ /\ main[a] = "layer" /\ layer = "running"
        /\ main' = [main EXCEPT ![a] = "stored"]
        /\ stage' = [stage EXCEPT ![a] = "made"]
        /\ timerB' = [timerB EXCEPT ![a] = TRUE]
        /\ UNCHANGED <<watcher, reader, result>>
     \/ /\ main[a] = "stored" /\ layer # "running"
        /\ Fails(a, "refused")
        /\ UNCHANGED <<watcher, reader, stage, timerB>>
     \/ /\ main[a] = "stored" /\ layer # "done"
        /\ main' = [main EXCEPT ![a] = "select"]
        /\ watcher' = [watcher EXCEPT ![a] = "select"]
        /\ reader' = [reader EXCEPT ![a] = "both"]
        /\ stage' = [stage EXCEPT ![a] = "served"]
        /\ UNCHANGED <<result, timerB>>
  /\ UNCHANGED <<srvVars, ctxDone, drainer, upVars, errVars, canceled, closed, invite>>

\* Mutants (here and below, names that end in _bug): wrong versions of the
\* definition of the same name, which the properties must tell from the right one.
\* the context is not watched
Watch_bug(a) ==
  /\ watcher[a] = "select"
  /\ reader[a] = "ended" /\ UNCHANGED <<canceled, timerB>>
  /\ watcher' = [watcher EXCEPT ![a] = "ended"]
  /\ UNCHANGED <<srvVars, ctxDone, main, reader, drainer, result, stage, upVars,
                 errVars, closed, invite>>

\* tx.Cancel(): only in proceeding, after a 1xx, does it arm timer B of an INVITE again
\* (act_cancel_timeout); in calling it sends the CANCEL and no more (act_cancel).
Cancel(a) ==
  /\ canceled' = [canceled EXCEPT ![a] = TRUE]
  /\ timerB' = [timerB EXCEPT ![a] =
       @ \/ (invite /\ Open(a) /\ errs[a] = << >> /\ Passed(a, {"1xx"}) /\ ~Passed(a, Final))]

\* select { case <-done: case <-ctx.Done(): tx.Cancel() }
Watch(a) ==
  /\ watcher[a] = "select"
  /\ \/ reader[a] = "ended" /\ UNCHANGED <<canceled, timerB>>
     \/ ctxDone /\ Cancel(a)
  /\ watcher' = [watcher EXCEPT ![a] = "ended"]
  /\ UNCHANGED <<srvVars, ctxDone, main, reader, drainer, result, stage, upVars,
                 errVars, closed, invite>>

\* the select of the caller, and wg.Wait()
Wait(a) ==
  /\ \/ main[a] = "select" /\ result[a] # "none" /\ main' = [main EXCEPT ![a] = "wait"]
     \/ /\ main[a] = "wait"
        /\ watcher[a] = "ended" /\ reader[a] = "ended"
        /\ main' = [main EXCEPT ![a] = "returned"]
  /\ UNCHANGED <<srvVars, ctxDone, watcher, reader, drainer, result, txVars>>

Reading(a) == reader[a] \in {"both", "responses"}

\* errs <- err or responses <- res, each of capacity 1; then done is closed
Ends(a, res) ==
  /\ result' = [result EXCEPT ![a] = res]
  /\ reader' = [reader EXCEPT ![a] = "ended"]

\* case err, ok := <-txErrs: once the channel is closed, txErrs = nil
ReadError(a) ==
  /\ reader[a] = "both"
  /\ \/ /\ errRead[a] < Len(errs[a])
        /\ errRead' = [errRead EXCEPT ![a] = @ + 1]
        /\ Ends(a, errs[a][errRead[a] + 1])
     \/ /\ errRead[a] = Len(errs[a]) /\ closed[a]
        /\ reader' = [reader EXCEPT ![a] = "responses"]
        /\ UNCHANGED <<result, errRead>>
  /\ UNCHANGED <<srvVars, ctxDone, main, watcher, drainer, stage, upVars, errs, canceled,
                 closed, timerVars>>

\* a closed transaction ends the call before its responses are read
ReadClosed_bug(a) ==
  /\ Reading(a)
  /\ closed[a]
  /\ Ends(a, "487")
  /\ UNCHANGED <<srvVars, ctxDone, main, watcher, drainer, txVars>>

\* case response, ok := <-txResponses, with ok = false
ReadClosed(a) ==
  /\ Reading(a)
  /\ closed[a] /\ read[a] = Len(up[a])
  /\ Ends(a, "487")
  /\ UNCHANGED <<srvVars, ctxDone, main, watcher, drainer, txVars>>

Incoming(a) == up[a][read[a] + 1]

\* nobody reads the responses that follow a 2xx
ReadResponse_bug(a) ==
  /\ Reading(a)
  /\ read[a] < Len(up[a])
  /\ read' = [read EXCEPT ![a] = @ + 1]
  /\ \/ Incoming(a) = "1xx" /\ UNCHANGED <<result, reader, main>>
     \/ Incoming(a) = "2xx" /\ Ends(a, "ok") /\ UNCHANGED main
     \/ Incoming(a) \in {"401", "300_plus"} /\ Ends(a, "rejected") /\ UNCHANGED main
  /\ UNCHANGED <<srvVars, ctxDone, watcher, drainer, stage, up, errVars, canceled, closed,
                 timerVars>>

\* case response, ok := <-txResponses.  On the first 401 the reader adds the
\* credentials, if it has an Authorizer and this does not fail, and calls
\* requestWithContext again.
ReadResponse(a) ==
  /\ Reading(a)
  /\ read[a] < Len(up[a])
  /\ read' = [read EXCEPT ![a] = @ + 1]
  /\ \/ /\ Incoming(a) = "1xx"
        /\ UNCHANGED <<result, reader, main, drainer>>
     \/ /\ Incoming(a) = "2xx"
        /\ Ends(a, "ok")
        /\ drainer' = [drainer EXCEPT ![a] = "on"]
        /\ UNCHANGED main
     \/ /\ Incoming(a) \in {"401", "300_plus"}
        /\ Ends(a, "rejected")
        /\ UNCHANGED <<main, drainer>>
     \/ /\ Incoming(a) = "401" /\ a < 2
        /\ Ends(a, "unauthorized")
        /\ UNCHANGED <<main, drainer>>
     \/ /\ Incoming(a) = "401" /\ a < 2
        /\ main' = [main EXCEPT ![a + 1] = "request"]
        /\ reader' = [reader EXCEPT ![a] = "nested"]
        /\ UNCHANGED <<result, drainer>>
  /\ UNCHANGED <<srvVars, ctxDone, watcher, stage, up, errVars, canceled, closed,
                 timerVars>>

\* the nested call has returned
NestedReturns(a) ==
  /\ reader[a] = "nested" /\ main[a + 1] = "returned"
  /\ Ends(a, result[a + 1])
  /\ UNCHANGED <<srvVars, ctxDone, main, watcher, drainer, txVars>>

\* for response := range tx.Responses()
Drain(a) ==
  /\ drainer[a] = "on"
  /\ \/ /\ read[a] < Len(up[a])
        /\ read' = [read EXCEPT ![a] = @ + 1]
        /\ UNCHANGED drainer
     \/ /\ read[a] = Len(up[a]) /\ closed[a]
        /\ drainer' = [drainer EXCEPT ![a] = "ended"]
        /\ UNCHANGED read
  /\ UNCHANGED <<srvVars, ctxDone, main, watcher, reader, result, stage, up, errVars,
                 canceled, closed, timerVars>>

-----------------------------------------------------------------------------
(***************************************************************************)
(* The client transaction (ClientContract), and the layer that ends it.    *)
(***************************************************************************)
TxUnchanged == UNCHANGED <<srvVars, ctxDone, main, watcher, reader, drainer, result, stage,
                           canceled, invite>>

\* 1xx*, then 2xx* or one of the others; an error ends it, except that an accepted
\* INVITE goes on after a failed send (accepted_trans_err of ClientTx), and passes up more
\* than one 2xx.  passUp waits for room in the channel.  Timer B ends with the final
\* response, and that of an INVITE with the first 1xx (act_invite_proceeding).
TxPassUp(a, class) ==
  /\ Open(a)
  /\ ~Passed(a, {"401", "300_plus"})
  /\ class # "2xx" => ~Passed(a, {"2xx"}) /\ errs[a] = << >>
  /\ errs[a] # << >> => Passed(a, {"2xx"})
  /\ Passed(a, {"2xx"}) => invite
  /\ Len(up[a]) < MaxUp
  /\ Len(up[a]) - read[a] < Cap
  /\ up' = [up EXCEPT ![a] = Append(@, class)]
  /\ timerB' = [timerB EXCEPT ![a] =
       @ /\ class = "1xx" /\ (invite => Passed(a, {"1xx"}))]
  /\ TxUnchanged /\ UNCHANGED <<read, errVars, closed>>

\* a failed send, at any time, or a timeout before the final response, also when the
\* callback of timer B was waiting as the timer was stopped; an error is reported once
\* here
TxReport(a, kind) ==
  /\ Open(a)
  /\ errs[a] = << >>
  /\ kind = "timeout" => ~Passed(a, Final)
  /\ errs' = [errs EXCEPT ![a] = <<kind>>]
  /\ TxUnchanged /\ UNCHANGED <<upVars, errRead, closed, timerB>>

\* the transaction ends after a verdict, or is terminated with the layer
TxEnd(a) ==
  /\ Open(a)
  /\ Passed(a, Final) \/ errs[a] # << >> \/ layer # "running"
  /\ closed' = [closed EXCEPT ![a] = TRUE]
  /\ TxUnchanged /\ UNCHANGED <<upVars, errVars, timerB>>

-----------------------------------------------------------------------------
CallInit ==
  /\ isRunning = TRUE /\ layer = "running"
  /\ ctxDone = FALSE
  /\ main = [a \in Attempts |-> "idle"]
  /\ watcher = [a \in Attempts |-> "off"]
  /\ reader = [a \in Attempts |-> "off"]
  /\ drainer = [a \in Attempts |-> "off"]
  /\ result = [a \in Attempts |-> "none"]
  /\ stage = [a \in Attempts |-> "none"]
  /\ up = [a \in Attempts |-> << >>] /\ read = [a \in Attempts |-> 0]
  /\ errs = [a \in Attempts |-> << >>] /\ errRead = [a \in Attempts |-> 0]
  /\ canceled = [a \in Attempts |-> FALSE] /\ closed = [a \in Attempts |-> FALSE]
  /\ invite \in BOOLEAN /\ timerB = [a \in Attempts |-> FALSE]

Calling == main[1] \notin {"idle", "returned"}

\* Shutdown: running is cleared, then the layer is canceled; it is done when the
\* transactions it serves are (DoneEndsAll of TxLayer).
ServerStops ==
  /\ \/ isRunning /\ isRunning' = FALSE /\ UNCHANGED layer
     \/ ~isRunning /\ layer = "running" /\ layer' = "canceled" /\ UNCHANGED isRunning
     \/ /\ layer = "canceled"
        /\ \A a \in Attempts : stage[a] = "served" => closed[a]
        /\ layer' = "done"
        /\ UNCHANGED isRunning
  /\ UNCHANGED <<ctxDone, main, watcher, reader, drainer, result, txVars>>

CallProgress ==
  \/ \E a \in Attempts : \/ Request(a) \/ Watch(a) \/ Wait(a)
                         \/ ReadError(a) \/ ReadClosed(a) \/ ReadResponse(a)
                         \/ Drain(a)
  \/ NestedReturns(1)

TxStep ==
  \E a \in Attempts : \/ \E class \in Classes : TxPassUp(a, class)
                      \/ \E kind \in {"timeout", "transport"} : TxReport(a, kind)
                      \/ TxEnd(a)

CallNext ==
  \/ Begin
  \/ ServerStops
  \/ ContextEnds
  \/ CallProgress
  \/ TxStep

CallSpec == CallInit /\ [][CallNext]_callVars

\* Go runs every goroutine that can run.  A transaction times out while its timer B runs,
\* and the layer terminates the ones it serves when it is canceled.
CallFairness ==
  /\ WF_callVars(~isRunning /\ ServerStops)
  /\ WF_callVars(CallProgress)
  /\ \A a \in Attempts : /\ WF_callVars(timerB[a] /\ TxReport(a, "timeout"))
                         /\ WF_callVars(layer # "running" /\ TxEnd(a))

FairCallSpec == CallSpec /\ CallFairness

-----------------------------------------------------------------------------
(***************************************************************************)
(* Properties.                                                             *)
(***************************************************************************)
Returned(a) == reader[a] = "ended" /\ (a = 2 \/ main[2] = "idle")

\* The result of a call is the verdict of its transaction: a final response that was
\* passed up is not lost to the end of the transaction, whose two channels are closed
\* together and read by one select; only a failed send may take its place.  A 487 or a
\* timeout means that no final response came.
ResultIsVerdict ==
  \A a \in Attempts : Returned(a) =>
    result[a] \in IF Passed(a, Final) THEN {"ok", "rejected", "unauthorized", "transport"}
                                     ELSE {"487", "timeout", "transport"}

\* Responses are not left in the channel of a transaction, where they would block it:
\* the reader or the goroutine that follows a 2xx takes them, unless the reader chose
\* an error of the transaction and left.
ResponsesAreRead ==
  \A a \in Attempts :
    stage[a] = "served" /\ read[a] < Len(up[a]) =>
      Reading(a) \/ drainer[a] = "on" \/ result[a] \in {"timeout", "transport"}

\* An INVITE that was canceled before its first 1xx: nobody measures the time any more, and
\* the peer has still to answer.
Stranded(a) ==
  /\ invite /\ canceled[a] /\ ~timerB[a] /\ Passed(a, {"1xx"})
  /\ ~Passed(a, Final) /\ errs[a] = << >> /\ ~closed[a]

\* The end of the server ends the call, in whichever attempt it comes: handlers that wait
\* for the response to a request of their own do not keep Shutdown waiting for ever.  The
\* end of the context ends it too, except that an INVITE canceled before its first 1xx may
\* wait for a final response that never comes.
CallReturns ==
  /\ (~isRunning /\ Calling) ~> ~Calling
  /\ \/ (ctxDone /\ Calling) ~> ~Calling
     \/ <>[](\E a \in Attempts : Stranded(a))
=============================================================================
