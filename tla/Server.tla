------------------------------- MODULE Server -------------------------------
(***************************************************************************)
(* The SIP server of server.go: the goroutine serve, which takes requests  *)
(* from the transaction layer and starts a goroutine handleRequest for     *)
(* each, the registration of handlers, and Shutdown, which any number of   *)
(* goroutines may call and which serve calls itself when it ends.          *)
(*                                                                         *)
(* Of the two layers below the server sees their channels: a layer runs,   *)
(* is canceled, and is done some time later (CancelEnds of TxLayer), but   *)
(* the transport layer may also hang (CancelEnds of TransportLayer).  What *)
(* serve only logs - unmatched responses and errors - changes no state.    *)
(***************************************************************************)
EXTENDS Integers, FiniteSets

CONSTANTS
  Reqs,      \* the requests the transaction layer passes up
  Methods,   \* their methods; an "ACK" comes without a transaction
  Stoppers,  \* goroutines that call Shutdown
  NoReq      \* serve holds no request

ASSUME ServerAssumption ==
  /\ IsFiniteSet(Reqs) /\ NoReq \notin Reqs
  /\ "serve" \notin Stoppers

VARIABLES
  running,   \* srv.running
  txl,       \* the transaction layer
  tp,        \* the transport layer
  serving,   \* where serve is
  held,      \* the request serve has taken and not yet counted
  method,    \* the methods of the requests taken so far
  handlers,  \* srv.requestHandlers: the methods that have a handler
  task,      \* where the goroutine handleRequest of a request is
  drain,     \* the goroutine that reads the errors of an unhandled transaction
  hwg,       \* srv.hwg
  stop       \* where a call of Shutdown is

layerVars   == <<txl, tp>>
handlerVars == <<held, method, handlers, task, drain, hwg>>
vars  == <<running, layerVars, serving, handlerVars, stop>>

LayerStates == {"running", "canceled", "hung", "done"}
Callers     == Stoppers \cup {"serve"}

\* A goroutine handleRequest is counted from hwg.Add to the deferred hwg.Done.
Live == {"started", "running", "respond"}

-----------------------------------------------------------------------------
(***************************************************************************)
(* serve and handleRequest.                                                *)
(***************************************************************************)
OnRequest(m) ==
  /\ m \notin handlers
  /\ handlers' = handlers \cup {m}
  /\ UNCHANGED <<running, layerVars, serving, held, method, task, drain, hwg, stop>>

\* case tx := <-Requests(), case ack := <-Acks(): the layer may still choose the
\* send when it has been canceled, until it is done.
Take(r, m) ==
  /\ serving = "select"
  /\ txl # "done"
  /\ task[r] = "none"
  /\ held' = r
  /\ method' = [method EXCEPT ![r] = m]
  /\ task' = [task EXCEPT ![r] = "taken"]
  /\ serving' = "count"
  /\ UNCHANGED <<running, layerVars, handlers, drain, hwg, stop>>

\* srv.hwg.Add(1); go srv.handleRequest(...)
Count ==
  /\ serving = "count"
  /\ hwg' = hwg + 1
  /\ task' = [task EXCEPT ![held] = "started"]
  /\ held' = NoReq
  /\ serving' = "select"
  /\ UNCHANGED <<running, layerVars, method, handlers, drain, stop>>

\* A channel is closed: serve returns, through its deferred Shutdown.
ServeClosed ==
  /\ serving = "select"
  /\ txl = "done" \/ tp = "done"
  /\ serving' = "ended"
  /\ UNCHANGED <<running, layerVars, handlerVars, stop>>

\* the deferred srv.hwg.Done()
Finish(r) == hwg' = hwg - 1 /\ task' = [task EXCEPT ![r] = "done"]

\* Mutants (here and below, names that end in _bug): wrong versions of the
\* definition of the same name, which the properties must tell from the right one.
\* the ACK without a handler is dropped before the defer:
Lookup_bug(r) ==
  /\ task[r] = "started"
  /\ IF method[r] \in handlers \/ method[r] # "ACK"
     THEN task' = [task EXCEPT ![r] = "running"]
     ELSE task' = [task EXCEPT ![r] = "done"]
  /\ UNCHANGED <<running, layerVars, serving, held, method, handlers, drain, hwg, stop>>

\* The look-up of the handler.  Without one, the errors of the transaction are
\* drained and the request is answered with 405; an ACK is dropped.
Lookup(r) ==
  /\ task[r] = "started"
  /\ \/ /\ method[r] \in handlers
        /\ task' = [task EXCEPT ![r] = "running"]
        /\ UNCHANGED <<drain, hwg>>
     \/ /\ method[r] \notin handlers
        /\ method[r] # "ACK"
        /\ drain' = [drain EXCEPT ![r] = "on"]
        /\ task' = [task EXCEPT ![r] = "respond"]
        /\ UNCHANGED hwg
     \/ /\ method[r] \notin handlers
        /\ method[r] = "ACK"
        /\ Finish(r)
        /\ UNCHANGED drain
  /\ UNCHANGED <<running, layerVars, serving, held, method, handlers, stop>>

\* srv.Respond(405), whose error is only logged, or the return of the handler
HandlerEnds(r) ==
  /\ task[r] \in {"respond", "running"}
  /\ Finish(r)
  /\ UNCHANGED <<running, layerVars, serving, held, method, handlers, drain, stop>>

\* The transaction of an unhandled request ends, and its Errors() are closed.
TxEnds(r) ==
  /\ drain[r] = "on"
  /\ drain' = [drain EXCEPT ![r] = "closed"]
  /\ UNCHANGED <<running, layerVars, serving, held, method, handlers, task, hwg, stop>>

\* case <-srv.tx.Done(), or the Errors() of the transaction are closed
DrainEnds(r) ==
  /\ drain[r] = "closed" \/ (drain[r] = "on" /\ txl = "done")
  /\ drain' = [drain EXCEPT ![r] = "ended"]
  /\ UNCHANGED <<running, layerVars, serving, held, method, handlers, task, hwg, stop>>

-----------------------------------------------------------------------------
(***************************************************************************)
(* Shutdown, called by c.                                                  *)
(***************************************************************************)
StopVars(c, pc) == stop' = [stop EXCEPT ![c] = pc] /\ UNCHANGED <<serving, handlerVars>>

\* serve calls it once, when it returns
MayStop(c) == stop[c] = "idle" /\ (c = "serve" => serving = "ended")

\* if !srv.running.IsSet() { return }
ShutdownTest(c) ==
  /\ MayStop(c)
  /\ StopVars(c, IF running THEN "tested" ELSE "refused")
  /\ UNCHANGED <<running, layerVars>>

ShutdownUnset(c) ==
  /\ stop[c] = "tested"
  /\ running' = FALSE
  /\ StopVars(c, "unset")
  /\ UNCHANGED layerVars

\* srv.tx.Cancel(), which does nothing the second time
ShutdownCancelTx(c) ==
  /\ stop[c] = "unset"
  /\ txl' = IF txl = "running" THEN "canceled" ELSE txl
  /\ StopVars(c, "waitTx")
  /\ UNCHANGED <<running, tp>>

\* <-srv.tx.Done(); srv.tp.Cancel()
ShutdownCancelTp(c) ==
  /\ stop[c] = "waitTx"
  /\ txl = "done"
  /\ tp' = IF tp = "running" THEN "canceled" ELSE tp
  /\ StopVars(c, "waitTp")
  /\ UNCHANGED <<running, txl>>

\* <-srv.tp.Done()
ShutdownTpDone(c) ==
  /\ stop[c] = "waitTp"
  /\ tp = "done"
  /\ StopVars(c, "waitHandlers")
  /\ UNCHANGED <<running, layerVars>>

\* without srv.hwg.Wait()
ShutdownWait_bug(c) ==
  /\ stop[c] = "waitHandlers"
  /\ StopVars(c, "returned")
  /\ UNCHANGED <<running, layerVars>>

\* srv.hwg.Wait()
ShutdownWait(c) ==
  /\ stop[c] = "waitHandlers"
  /\ hwg = 0
  /\ StopVars(c, "returned")
  /\ UNCHANGED <<running, layerVars>>

Shutdown(c) == \/ ShutdownTest(c) \/ ShutdownUnset(c) \/ ShutdownCancelTx(c)
               \/ ShutdownCancelTp(c) \/ ShutdownTpDone(c) \/ ShutdownWait(c)

\* The layers.  When the transaction layer is canceled its transactions are terminated,
\* and it is done some time later.
TxLayerDone ==
  /\ txl = "canceled"
  /\ txl' = "done"
  /\ UNCHANGED <<running, tp, serving, handlerVars, stop>>

\* The transport layer is done when its protocols are ...
TpLayerDone ==
  /\ tp = "canceled"
  /\ tp' = "done"
  /\ UNCHANGED <<running, txl, serving, handlerVars, stop>>

\* ... one of which may never be.
TpLayerHangs ==
  /\ tp = "canceled"
  /\ tp' = "hung"
  /\ UNCHANGED <<running, txl, serving, handlerVars, stop>>

-----------------------------------------------------------------------------
\* NewServer: the layers are made, running is set, serve is started.
NewServer ==
  /\ running = TRUE /\ txl = "running" /\ tp = "running"
  /\ serving = "select" /\ held = NoReq
  /\ method = [r \in Reqs |-> "none"]
  /\ handlers = {}
  /\ task = [r \in Reqs |-> "none"] /\ drain = [r \in Reqs |-> "off"]
  /\ hwg = 0
  /\ stop = [c \in Callers |-> "idle"]

\* what goes on by itself
Progress ==
  \/ Count \/ ServeClosed
  \/ \E r \in Reqs : Lookup(r) \/ HandlerEnds(r) \/ DrainEnds(r)
  \/ \E c \in Callers : (c = "serve" \/ stop[c] # "idle") /\ Shutdown(c)
  \/ TxLayerDone \/ TpLayerDone \/ TpLayerHangs

Next ==
  \/ \E m \in Methods : OnRequest(m) \/ \E r \in Reqs : Take(r, m)
  \/ \E c \in Stoppers : ShutdownTest(c)
  \/ \E r \in Reqs : TxEnds(r)
  \/ Progress

Spec == NewServer /\ [][Next]_vars

\* Go runs every goroutine that can run, a canceled transaction layer is done in the end,
\* a canceled transport layer is done or hangs, and the handlers of the application
\* return: one of them that waits for a response does when its transaction is terminated
\* (CallReturns of RequestCtx), provided it does not call Shutdown itself.
Fairness == WF_vars(Progress)

FairSpec == Spec /\ Fairness

-----------------------------------------------------------------------------
(***************************************************************************)
(* Properties.                                                             *)
(***************************************************************************)
TypeOK ==
  /\ running \in BOOLEAN
  /\ txl \in LayerStates \ {"hung"} /\ tp \in LayerStates
  /\ serving \in {"select", "count", "ended"}
  /\ held \in Reqs \cup {NoReq}
  /\ method \in [Reqs -> Methods \cup {"none"}]
  /\ handlers \subseteq Methods
  /\ task \in [Reqs -> Live \cup {"none", "taken", "done"}]
  /\ drain \in [Reqs -> {"off", "on", "closed", "ended"}]
  /\ hwg \in Nat
  /\ stop \in [Callers -> {"idle", "tested", "refused", "unset", "waitTx", "waitTp",
                           "waitHandlers", "returned"}]

\* When a Shutdown that did the work has returned, at most one request is still being
\* handled or about to be: the one serve had taken and not yet counted when
\* hwg.Wait() returned.
OneLateHandler ==
  (\E c \in Callers : stop[c] = "returned") =>
    \A r1, r2 \in Reqs : task[r1] \in Live \cup {"taken"} /\ task[r2] \in Live \cup {"taken"}
                           => r1 = r2

Stopped ==
  /\ serving = "ended" /\ stop["serve"] # "idle"
  /\ \A c \in Callers : \/ stop[c] \in {"idle", "refused", "returned"}
                        \/ stop[c] = "waitTp" /\ tp = "hung"
  /\ \A r \in Reqs : task[r] \in {"none", "done"} /\ drain[r] \in {"off", "ended"}

\* Shutdown comes to its end and leaves no goroutine of the server behind, whoever calls
\* it, how often, and whatever serve has just taken: nobody waits for somebody who waits
\* for Shutdown.  If the transport layer hangs, serve and the handlers end all the same,
\* and only the calls of Shutdown are left, waiting for the layer.
ShutdownEndsAll == ~running ~> Stopped

\* Shutdown waits for the handlers (server.go:494): none runs when it has returned.
ShutdownWaitsForHandlers ==
  (\E c \in Callers : stop[c] = "returned") => \A r \in Reqs : task[r] \notin Live
=============================================================================
