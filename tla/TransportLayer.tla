--------------------------- MODULE TransportLayer ---------------------------
(***************************************************************************)
(* The transport layer of transport/layer.go: the store of protocols,      *)
(* Listen, Send with the choice of protocol and of the port named in Via,  *)
(* serveProtocols with its dispose, and the question a new transaction     *)
(* asks of the layer, IsReliable.                                          *)
(*                                                                         *)
(* A network is named in two ways, and the code compares the names as      *)
(* strings: a message and Network() say "TCP", the store is keyed "tcp".   *)
(* A name is therefore a protocol and its case.  A protocol is a pool of   *)
(* sockets that ends when the layer is canceled (ConnPool, TcpProtocol).   *)
(***************************************************************************)
EXTENDS Integers, FiniteSets

CONSTANTS
  Protocols,    \* "udp", "tcp", "tls", "ws", "wss"; the first alone is unreliable
  LocalPorts,   \* local ports
  DefaultPort,  \* 5060, or 5061 for TLS and WSS
  NoPort,       \* viaHop.Port == nil
  ListenCalls,  \* calls of Listen
  SendCalls     \* transactions, each with one call of Send

ASSUME LayerAssumption ==
  /\ "udp" \in Protocols
  /\ DefaultPort \in LocalPorts /\ NoPort \notin LocalPorts

VARIABLES
  tplCanceled,  \* tpl.canceled is closed
  serving,      \* where serveProtocols is
  protocolStore, \* the keys in tpl.protocols
  protocol,     \* the state of a protocol
  late,         \* protocols created when dispose had listed the others
  waitFor,      \* protocols dispose has still to wait for
  entered,      \* the names in tpl.listenPorts
  listenPorts,  \* and the ports it has for a name
  sockets,      \* what the protocols listen on
  closed,       \* and what they have listened on before: a listener may break
  listen,       \* where a call of Listen is
  args,         \* and its arguments
  send,         \* where a call of Send is
  msg,          \* and its message
  via,          \* whose port in Via is kept apart: Send may set it
  fatal         \* the process has stopped: unsynchronized map accesses, or a panic

layerVars == <<tplCanceled, serving, waitFor>>
protoVars == <<protocolStore, protocol, late>>
portVars  == <<entered, listenPorts>>
sockVars  == <<sockets, closed>>
callVars  == <<send, msg, via>>
transportVars ==
  <<layerVars, protoVars, portVars, sockVars, listen, args, callVars, fatal>>

Names     == [p : Protocols, upper : BOOLEAN]
ToLower(n) == [p |-> n.p, upper |-> FALSE]
Network(p) == [p |-> p, upper |-> TRUE]
Key(p)     == [p |-> p, upper |-> FALSE]

Reliable(p) == p # "udp"

\* IsReliable looks its argument up as it is
IsReliable(n) == n \in protocolStore /\ Reliable(n.p)

Running == ~fatal

-----------------------------------------------------------------------------
\* getProtocol: getOrPutNew, under the lock of the store, with the lower-case key
getProtocol(n) ==
  IF ToLower(n) \in protocolStore
  THEN UNCHANGED protoVars
  ELSE /\ protocolStore' = protocolStore \cup {ToLower(n)}
       /\ protocol' = [protocol EXCEPT ![n.p] = "running"]
       /\ late' = IF serving \in {"dispose", "done"} THEN late \cup {n.p} ELSE late

-----------------------------------------------------------------------------
(***************************************************************************)
(* Listen.                                                                 *)
(***************************************************************************)
ListenAt(l, pc) == listen' = [listen EXCEPT ![l] = pc]

\* the test of canceled; the name of the network may be in either case
LayerListen(l, p, port) ==
  /\ Running
  /\ listen[l] = "idle"
  /\ ListenAt(l, IF tplCanceled THEN "failed" ELSE "checked")
  /\ args' = [args EXCEPT ![l] = [p |-> p, port |-> port]]
  /\ UNCHANGED <<layerVars, protoVars, portVars, sockVars, callVars, fatal>>

ListenGet(l) ==
  /\ Running
  /\ listen[l] = "checked"
  /\ getProtocol(Network(args[l].p))
  /\ ListenAt(l, "open")
  /\ UNCHANGED <<layerVars, portVars, sockVars, args, callVars, fatal>>

\* protocol.Listen: the port may be taken or the pool canceled
ListenOpen(l) ==
  /\ Running
  /\ listen[l] = "open"
  /\ \/ /\ <<args[l].p, args[l].port>> \notin sockets
        /\ protocol[args[l].p] = "running"
        /\ sockets' = sockets \cup {<<args[l].p, args[l].port>>}
        /\ closed' = closed \ {<<args[l].p, args[l].port>>}
        /\ ListenAt(l, "opened")
     \/ ListenAt(l, "failed") /\ UNCHANGED sockVars
  /\ UNCHANGED <<layerVars, protoVars, portVars, args, callVars, fatal>>

\* A listener breaks, and its pool drops it: nobody tells the layer, which keeps the port.
SocketBreaks(p, port) ==
  /\ Running
  /\ <<p, port>> \in sockets
  /\ sockets' = sockets \ {<<p, port>>} /\ closed' = closed \cup {<<p, port>>}
  /\ UNCHANGED <<layerVars, protoVars, portVars, listen, args, callVars, fatal>>

\* listenPorts has no lock.  With another goroutine in it the runtime may notice that and
\* stop the process.
Writers(l) == {k \in ListenCalls \ {l} : listen[k] \in {"making", "appending"}}
MayStop(others) == \/ others = {} /\ UNCHANGED fatal
                   \/ others # {} /\ fatal' \in BOOLEAN

\* Only a network that has no entry yet, under Network(), gets one ...
ListenTest(l) ==
  /\ Running
  /\ listen[l] = "opened"
  /\ ListenAt(l, IF Network(args[l].p) \in entered THEN "returned" ELSE "making")
  /\ MayStop(Writers(l))
  /\ UNCHANGED <<layerVars, protoVars, portVars, sockVars, args, callVars>>

\* ... first an empty one, over one that another goroutine makes at the same time ...
ListenMake(l) ==
  /\ Running
  /\ listen[l] = "making"
  /\ LET u == Network(args[l].p) IN
       /\ entered' = entered \cup {u}
       /\ listenPorts' \in {listenPorts, [listenPorts EXCEPT ![u] = {}]}
  /\ ListenAt(l, "appending")
  /\ MayStop(Writers(l))
  /\ UNCHANGED <<layerVars, protoVars, sockVars, args, callVars>>

\* ... to which the port is appended.  What another goroutine has appended since the test
\* may be lost.
ListenAppend(l) ==
  /\ Running
  /\ listen[l] = "appending"
  /\ LET u == Network(args[l].p) IN
       /\ entered' = entered \cup {u}
       /\ \E read \in {listenPorts[u], {}} :
            listenPorts' = [listenPorts EXCEPT ![u] = read \cup {args[l].port}]
  /\ ListenAt(l, "returned")
  /\ MayStop(Writers(l))
  /\ UNCHANGED <<layerVars, protoVars, sockVars, args, callVars>>

-----------------------------------------------------------------------------
(***************************************************************************)
(* A client transaction, and Send for its request; Send for a response.    *)
(***************************************************************************)
SendAt(s, pc) == send' = [send EXCEPT ![s] = pc]

\* A new transaction asks whether the transport of its request is reliable, and calls
\* Send, which tests canceled.  Transport() of a message is in upper case.  known and
\* listened record, for the properties, whether the layer served the protocol and Listen
\* had returned for it.
LayerSend(s, kind, p, port) ==
  /\ Running
  /\ send[s] = "idle"
  /\ kind = "response" => port # NoPort
  /\ SendAt(s, IF tplCanceled THEN "failed" ELSE "checked")
  /\ via' = [via EXCEPT ![s] = port]
  /\ msg' = [msg EXCEPT ![s] =
       [kind |-> kind, p |-> p, set |-> port # NoPort,
        reliable |-> IsReliable(Network(p)), known |-> Key(p) \in protocolStore,
        listened |-> \E l \in ListenCalls : listen[l] = "returned" /\ args[l].p = p]]
  /\ UNCHANGED <<layerVars, protoVars, portVars, sockVars, listen, args, fatal>>

SendGet(s) ==
  /\ Running
  /\ send[s] = "checked"
  /\ getProtocol(Network(msg[s].p))
  /\ SendAt(s, "got")
  /\ UNCHANGED <<layerVars, portVars, sockVars, listen, args, msg, via, fatal>>

AnyWriter == UNION {Writers(l) : l \in ListenCalls}

\* Mutants (here and below, names that end in _bug): wrong versions of the
\* definition of the same name, which the properties must tell from the right one.
\* the port is looked up under the key of the store
SendVia_bug(s) ==
  /\ Running
  /\ send[s] = "got"
  /\ LET n == Key(msg[s].p) IN
       \/ /\ msg[s].kind = "request" /\ via[s] = NoPort
          /\ \E port \in IF n \in entered THEN listenPorts[n] ELSE {DefaultPort} :
               via' = [via EXCEPT ![s] = port]
          /\ SendAt(s, "addressed")
          /\ MayStop(AnyWriter)
       \/ /\ msg[s].kind = "request" /\ via[s] = NoPort
          /\ n \in entered /\ listenPorts[n] = {}
          /\ SendAt(s, "failed") /\ fatal' \in BOOLEAN /\ UNCHANGED via
       \/ /\ msg[s].kind = "response" \/ via[s] # NoPort
          /\ SendAt(s, "addressed")
          /\ UNCHANGED <<via, fatal>>
  /\ UNCHANGED <<layerVars, protoVars, portVars, sockVars, listen, args, msg>>

\* Send rewrites the port of Via if there is none, with one of the ports entered for
\* the network; a response keeps its Via.  rand.Intn panics if the entry is still empty:
\* the caller may recover.
SendVia(s) ==
  /\ Running
  /\ send[s] = "got"
  /\ LET n == Network(msg[s].p) IN
       \/ /\ msg[s].kind = "request" /\ via[s] = NoPort
          /\ \E port \in IF n \in entered THEN listenPorts[n] ELSE {DefaultPort} :
               via' = [via EXCEPT ![s] = port]
          /\ SendAt(s, "addressed")
          /\ MayStop(AnyWriter)
       \/ /\ msg[s].kind = "request" /\ via[s] = NoPort
          /\ n \in entered /\ listenPorts[n] = {}
          /\ SendAt(s, "failed") /\ fatal' \in BOOLEAN /\ UNCHANGED via
       \/ /\ msg[s].kind = "response" \/ via[s] # NoPort
          /\ SendAt(s, "addressed")
          /\ UNCHANGED <<via, fatal>>
  /\ UNCHANGED <<layerVars, protoVars, portVars, sockVars, listen, args, msg>>

\* protocol.Send: UDP writes through the socket whose port is the one of Source(),
\* which for a request is the port of Via; the others dial.  Each may fail.
SendOut(s) ==
  /\ Running
  /\ send[s] = "addressed"
  /\ \/ /\ msg[s].p = "udp" => <<"udp", via[s]>> \in sockets
        /\ SendAt(s, "sent")
     \/ SendAt(s, "failed")
  /\ UNCHANGED <<layerVars, protoVars, portVars, sockVars, listen, args, msg, via, fatal>>

-----------------------------------------------------------------------------
(***************************************************************************)
(* Cancel and serveProtocols.                                              *)
(***************************************************************************)
LayerCancel ==
  /\ Running
  /\ ~tplCanceled
  /\ tplCanceled' = TRUE
  /\ UNCHANGED <<serving, waitFor, protoVars, portVars, sockVars, listen, args,
                 callVars, fatal>>

\* A protocol offers a message or an error, and serveProtocols takes it ...
Receive ==
  /\ Running
  /\ serving = "select"
  /\ \E p \in Protocols : protocol[p] = "running"
  /\ serving' = "passing"
  /\ UNCHANGED <<tplCanceled, waitFor, protoVars, portVars, sockVars, listen, args,
                 callVars, fatal>>

\* a plain send, which the end of the layer does not interrupt
PassUp_bug ==
  /\ Running
  /\ serving = "passing"
  /\ ~tplCanceled
  /\ serving' = "select"
  /\ UNCHANGED <<tplCanceled, waitFor, protoVars, portVars, sockVars, listen, args,
                 callVars, fatal>>

\* ... and passes it up, unless the layer is canceled first: handleMessage, handlerError.
\* The reader of the layer may have stopped reading when it is.
PassUp ==
  /\ Running
  /\ serving = "passing"
  /\ serving' = "select"
  /\ UNCHANGED <<tplCanceled, waitFor, protoVars, portVars, sockVars, listen, args,
                 callVars, fatal>>

\* case <-tpl.canceled: dispose lists the protocols.  Its drop has the wrong case and
\* removes nothing from the store.
Dispose ==
  /\ Running
  /\ serving = "select" /\ tplCanceled
  /\ serving' = "dispose"
  /\ waitFor' = {p \in Protocols : Key(p) \in protocolStore}
  /\ protocolStore' = protocolStore \ {Network(p) : p \in Protocols}
  /\ UNCHANGED <<tplCanceled, protocol, late, portVars, sockVars, listen, args,
                 callVars, fatal>>

DisposeWait(p) ==
  /\ Running
  /\ serving = "dispose"
  /\ p \in waitFor /\ protocol[p] = "done"
  /\ waitFor' = waitFor \ {p}
  /\ UNCHANGED <<tplCanceled, serving, protoVars, portVars, sockVars, listen, args,
                 callVars, fatal>>

\* without waiting for the protocols
DisposeEnd_bug ==
  /\ Running
  /\ serving = "dispose"
  /\ serving' = "done"
  /\ entered' = {} /\ listenPorts' = [n \in Names |-> {}]
  /\ UNCHANGED <<tplCanceled, waitFor, protoVars, sockVars, listen, args, callVars, fatal>>

\* listenPorts is emptied, the channels and done are closed
DisposeEnd ==
  /\ Running
  /\ serving = "dispose" /\ waitFor = {}
  /\ serving' = "done"
  /\ entered' = {} /\ listenPorts' = [n \in Names |-> {}]
  /\ UNCHANGED <<tplCanceled, waitFor, protoVars, sockVars, listen, args, callVars, fatal>>

\* Done of a protocol is that of its connection pool, whose dispose closes every socket.
ProtocolDone(p) ==
  /\ Running
  /\ tplCanceled /\ protocol[p] = "running"
  /\ protocol' = [protocol EXCEPT ![p] = "done"]
  /\ sockets' = {x \in sockets : x[1] # p}
  /\ closed' = closed \cup {x \in sockets : x[1] = p}
  /\ UNCHANGED <<layerVars, protocolStore, late, portVars, listen, args, callVars, fatal>>

\* Or the pool waits for ever, for a handler that nobody reads from: StopsGracefully of
\* ConnPool has the interleaving.
ProtocolHangs(p) ==
  /\ Running
  /\ tplCanceled /\ protocol[p] = "running"
  /\ protocol' = [protocol EXCEPT ![p] = "hung"]
  /\ UNCHANGED <<layerVars, protocolStore, late, portVars, sockVars, listen, args,
                 callVars, fatal>>

-----------------------------------------------------------------------------
NoArgs == [p |-> "udp", port |-> DefaultPort]
NoMsg  == [kind |-> "request", p |-> "udp", set |-> FALSE,
           reliable |-> FALSE, known |-> FALSE, listened |-> FALSE]

\* NewLayer
TransportInit ==
  /\ tplCanceled = FALSE /\ serving = "select" /\ waitFor = {}
  /\ protocolStore = {} /\ protocol = [p \in Protocols |-> "none"] /\ late = {}
  /\ entered = {} /\ listenPorts = [n \in Names |-> {}] /\ sockets = {} /\ closed = {}
  /\ listen = [l \in ListenCalls |-> "idle"] /\ args = [l \in ListenCalls |-> NoArgs]
  /\ send = [s \in SendCalls |-> "idle"] /\ msg = [s \in SendCalls |-> NoMsg]
  /\ via = [s \in SendCalls |-> NoPort]
  /\ fatal = FALSE

ServeStep == PassUp \/ Dispose \/ (\E p \in Protocols : DisposeWait(p)) \/ DisposeEnd

ListenStep(l) ==
  \/ \E p \in Protocols, port \in LocalPorts : LayerListen(l, p, port)
  \/ ListenGet(l) \/ ListenOpen(l)
  \/ ListenTest(l) \/ ListenMake(l) \/ ListenAppend(l)

SendStep(s) ==
  \/ \E kind \in {"request", "response"}, p \in Protocols, port \in {NoPort, DefaultPort} :
       LayerSend(s, kind, p, port)
  \/ SendGet(s) \/ SendVia(s) \/ SendOut(s)

ProtocolEnds(p) == ProtocolDone(p) \/ ProtocolHangs(p)

TransportNext ==
  \/ \E l \in ListenCalls : ListenStep(l)
  \/ \E s \in SendCalls : SendStep(s)
  \/ \E p \in Protocols, port \in LocalPorts : SocketBreaks(p, port)
  \/ LayerCancel
  \/ Receive
  \/ ServeStep
  \/ \E p \in Protocols : ProtocolEnds(p)

TransportSpec == TransportInit /\ [][TransportNext]_transportVars

\* Go runs serveProtocols, and select does not starve its case of canceled.  A protocol
\* comes to its end or hangs: which of them is not promised.
TransportFairness ==
  /\ SF_transportVars(Dispose) /\ WF_transportVars(ServeStep)
  /\ \A p \in Protocols : WF_transportVars(ProtocolEnds(p))

TransportFairSpec == TransportSpec /\ TransportFairness

-----------------------------------------------------------------------------
(***************************************************************************)
(* Properties.                                                             *)
(***************************************************************************)
TransportTypeOK ==
  /\ tplCanceled \in BOOLEAN /\ fatal \in BOOLEAN
  /\ serving \in {"select", "passing", "dispose", "done"}
  /\ protocolStore \subseteq {Key(p) : p \in Protocols}
  /\ protocol \in [Protocols -> {"none", "running", "hung", "done"}]
  /\ late \subseteq Protocols /\ waitFor \subseteq Protocols
  /\ entered \subseteq Names /\ listenPorts \in [Names -> SUBSET LocalPorts]
  /\ sockets \subseteq Protocols \X LocalPorts /\ closed \subseteq Protocols \X LocalPorts
  /\ listen \in [ListenCalls -> {"idle", "checked", "open", "opened", "making", "appending",
                              "returned", "failed"}]
  /\ args \in [ListenCalls -> [p : Protocols, port : LocalPorts]]
  /\ send \in [SendCalls -> {"idle", "checked", "got", "addressed", "sent", "failed"}]
  /\ msg \in [SendCalls -> [kind : {"request", "response"}, p : Protocols, set : BOOLEAN,
                          reliable : BOOLEAN, known : BOOLEAN, listened : BOOLEAN]]
  /\ via \in [SendCalls -> LocalPorts \cup {NoPort}]

\* A request that leaves the choice of the port to the layer names a port its protocol
\* listens on, so that the answers find the layer and UDP a socket to send from, or whose
\* listener has broken since: listenPorts keeps it.  This is so if Listen had returned
\* when the request was made, also when a second Listen is half way through an entry, and
\* until the layer is canceled.
ViaPortIsListened ==
  \A s \in SendCalls :
    /\ send[s] \in {"addressed", "sent"} /\ msg[s].kind = "request"
    /\ ~msg[s].set /\ msg[s].listened /\ ~tplCanceled
    => <<msg[s].p, via[s]>> \in sockets \cup closed

\* When the layer is done and has closed the channels its protocols send to, every
\* protocol is done too, except one that a call of Send or Listen, which had passed the
\* test of canceled, created after dispose had listed the protocols.
EndsWithItsProtocols ==
  serving = "done" => \A p \in Protocols \ late : protocol[p] \in {"none", "done"}

\* A canceled layer is done in the end, also when it is passing up a message that
\* nobody reads, unless a protocol that dispose waits for hangs.
CancelEnds ==
  tplCanceled ~> \/ serving = "done" \/ fatal
                 \/ \E p \in waitFor : protocol[p] = "hung"

\* "If a reliable transport is being used, the client transaction SHOULD NOT start timer
\* A" (client_tx.go:113): a transaction over a reliable protocol that the layer serves
\* is told so by IsReliable.
ReliableIsKnown ==
  \A s \in SendCalls : msg[s].known /\ Reliable(msg[s].p) => msg[s].reliable
=============================================================================
