# A TLA+ model of the gosip SIP stack

gosip is a SIP stack (RFC 3261) in Go, with a GB28181 gateway on top.  This
directory models the parts of it in which goroutines, timers, channels, shared
objects and messages meet, checks them with TLC on small instances, and proves
the main safety properties with TLAPS for all instances.

## The system

A message travels through four layers.  Each runs goroutines of its own and
hands messages to the next one through channels, most of them unbuffered.

    gb28181             registrations, catalogs, video calls, Redis, HTTP API
    server.go           serve, handleRequest, RequestWithContext, Shutdown
    transaction/        Layer.listenMessages, serveTransaction, client and server FSMs
    transport/          layer, protocols, listener pool, connection pool
    sip/parser          one parser per stream connection
    sip                 messages and headers, shared by all of them

| component | state | operations | what is hard about it |
|---|---|---|---|
| client transaction (`transaction/client_tx.go`) | FSM state, timers A B D M, `lastResp`, `lastErr`, channels `responses`, `errs`, `done` | Init, Receive, Cancel, Terminate, timer callbacks, reports of failed sends | callbacks race with Receive for the lock of the FSM; Terminate does not take that lock and closes the channels the actions send on |
| server transaction (`transaction/server_tx.go`) | FSM state, timers G H I J L and `timer_1xx`, `lastResp`, channels `acks`, `cancels`, `errs`, `done` | Init, Receive, Respond, Terminate, timer callbacks | two callers of Respond; `lastResp` is stored and sent in different critical sections; a failed send changes the state from inside an action |
| transaction layer (`transaction/layer.go`) | store, `txWg`, channels `requests`, `acks`, `responses`, `serveTxCh`, `canceled`, `done` | Request, Respond, Cancel, listenMessages, serveTransaction | one goroutine reads the transport and may block on a user; store entries are dropped by key; shutdown waits for all transactions |
| connection pool (`transport/connection_pool.go`) | store of handlers, `hwg`, channels | Put, Get, Drop, DropAll, expiry, serveHandlers, dispose | shutdown with readers that still produce messages; expiry against a new Put |
| listener pool, TCP protocol (`transport/listener_pool.go`, `tcp.go`) | store of handlers, channels | Put, Drop, acceptConnections, dispose, pipePools, getOrCreateConnection | a connection accepted while the pool closes; a listener and its successor |
| transport layer (`transport/layer.go`) | store of protocols, listen ports | Listen, Send, IsReliable, serveProtocols, Cancel | `listenPorts` has no lock; names in two cases; a protocol made while the layer ends |
| SIP server (`server.go`) | `running`, handlers, `hwg` | serve, handleRequest, RequestWithContext, Shutdown | Shutdown tests and clears `running` in two steps; three goroutines wait for one response |
| stream and packet parser (`sip/parser/`) | pipe, buffer, place in the message | Write, Stop, Reset, parse | framing by Content-Length, finding back after a malformed message, Stop within one |
| messages, headers, transaction keys (`sip/`, `transaction/transaction.go`) | map and order of headers; pointers to hops, CSeq, recipient | build, edit, authorize, make ACK, CANCEL and response | a request is changed in place while transactions hold it |
| GB28181 gateway (`gb28181/`) | sessions, Channel objects, `channelCache`, Redis | OnRegister, OnMessage, Invite, Bye, Bye2, Recover | a call is recorded in three places, without a lock; restarts between two of them |
| elastic channel, semaphore, mock timers, logging, configuration, examples | - | - | not modelled, see below |

`PROJECT.json` lists the same components with their status, the lines each
definition models ("map"), and the hazards of the code with the properties that
cover them.

## The modules

| module | models |
|---|---|
| `ClientTx`, `ClientContract` | one client transaction, and what it promises to its user |
| `ServerTx`, `ServerContract` | one server transaction, and what it promises to its user |
| `TxLayer` | the transaction layer, over transactions reduced to the contracts |
| `ConnPool` | the connection pool, its handlers, and the layer that reads it |
| `TcpProtocol` | the TCP protocol with the listener pool, over the store of the connection pool |
| `TransportLayer` | the transport layer, over protocols that run and end |
| `Server` | serve, handleRequest and Shutdown, over two layers that run and end |
| `RequestCtx` | one call of RequestWithContext, over client transactions that keep `ClientContract` |
| `StreamParser` | the stream parser, with the packet parser as its reference |
| `HeaderStore` | the store of headers of a message, as operators |
| `Requests` | requests and the messages made from them, over `HeaderStore` |
| `Gateway` | the gateway: registrations, Redis, calls |
| `...Proofs` | theorems about the module of that name; `ServerTxProofs` also holds those about `TxLayer`, `ServerProofs` those about `RequestCtx`, and `TransportLayerProofs` those about `TcpProtocol` |
| `HeadersProofs` | theorems about `HeaderStore` and the headers of `Requests`, over `RequestsProofs` |
| `MC...` | the instances TLC checks |

### Transactions

Both FSMs are built with `github.com/discoviking/fsm`.  `Spin(input)` takes a
lock, looks the input up in the table of the state, changes the state, runs the
action of the outcome, and goes on with the input the action returns; an input
without an outcome is an error that changes nothing.  The modules keep the tables
as sets of `<<state, input, next state, action>>` and the actions as sequences of
steps, one per critical section of `tx.mu` or channel operation.  The variable
`prog` holds the steps the owner of the FSM lock has still to do, so that every
interleaving with the goroutines that do not take this lock is covered: Terminate,
a timer that runs out, the user who reads a channel, and the first halves of Respond
and of Receive of a client, which store `lastResp` before they wait for the lock
(`Receive` and `ReceiveSpin`).

A timer is `nil`, `armed` or `expired`.  When it runs out its callback tests
`done` and then waits for the lock; `waiting` counts such callbacks, because Stop
no longer reaches them.  A send on a closed channel and a Reset of a nil timer are
panics; a panic ends the process, as no goroutine recovers it, except where the
code has a `recover`.

Responses are reduced to the classes the FSM tells apart (1xx, 2xx, 300+), and in
`ServerTx` to one response of the user per class plus the 100 of `timer_1xx`.

### The transaction layer

`TxLayer` follows `listenMessages` through lookup, Receive and pass-up, one
`serveTransaction` per transaction through wait, Terminate, drop and `txWg.Done`,
and one call of Request per client transaction through Init, put and hand-over.
`drop` is two steps, as it looks up and deletes in two critical sections.  A
transaction is reduced to whether it is done, whether its FSM is busy in
Receive, and how full the channel to its user is.  Server transactions are
numbered in the order of their creation; requests with a key that is in use are
retransmissions, ACK or CANCEL.  Client transactions have a branch, hence a key,
of their own (`Requests` says when that is so).  The specification is `LayerSpec`, with
`LayerInit` and `LayerNext`, and the call of Receive is `TxReceive`, so that
`ServerTxProofs` can extend the module together with `ServerTx`.

### The transport

`ConnPool` has one action per step of each goroutine between two channel
operations or critical sections.  All channels are unbuffered, so a send is one
step with its receiver; a send on a channel that `dispose` or the layer has
closed is a panic.  In a `select` with several ready cases Go takes any one of
them, hence a canceled handler may still deliver its error.  `put` follows Put
through its check of `cancel` and its critical section ("late" marks a
connection stored after DropAll); `reader`, `parser`, `pipe` are the goroutines
of a stream connection, `packets` and `badPackets` count those of a packet
connection.  `tick` is a tick that `Reset` of the timer does not take back, which
is how timers behave for the Go version of `go.mod`.  Input is cut into messages,
malformed ones, ignored ones and parts of messages.

`TcpProtocol` does the same for the accept loops, `serveHandlers` and `dispose` of
the listener pool and adds `pipePools` and `getOrCreateConnection`.  The
connection pool is there as its store only: `place` says who has a connection,
and a pooled connection may leave at any time, as `ConnPool` shows.

`TransportLayer` has the calls of Listen and Send in steps: the test of
`canceled`, the look-up or creation of the protocol under the lock of the store,
the socket, and the map `listenPorts`, which no lock protects.  An entry in that
map takes three steps (`ListenTest`, `ListenMake`, `ListenAppend`): a second Listen in
between may empty it again, and a second goroutine in the map meanwhile may set `fatal`,
the "concurrent map" error with which Go ends the process.  A Send that draws a port
from an empty entry panics, which also ends the process unless its caller recovers.  A listener may break (`SocketBreaks`); `closed` has
its port then, and `listenPorts` still does.  After Cancel a protocol ends or hangs
(`ProtocolHangs`, what `MCConnPoolStop.cfg` and `MCTcpProtocolStop.cfg` show).  A name of a network is a
protocol and a case: the store is keyed in lower case, messages name their
transport in upper case, and the code compares strings.  Listen, Send and Cancel are
`LayerListen`, `LayerSend` and `LayerCancel`, and the specification is `TransportSpec`, so
that `TransportLayerProofs` can extend the module together with `TcpProtocol`.

### The server

`Server` has the goroutine `serve`, one `handleRequest` per request, and calls of
Shutdown by any number of goroutines and by `serve` itself.  `held` is the request
that serve has received and not yet added to `hwg`.  A layer is running,
canceled or done, and the transport layer may hang when it is canceled
(`TpLayerHangs`).  The transaction of a request without a handler is read by a goroutine of
its own (`drain`), which ends with it (`TxEnds`).

`RequestCtx` has, per attempt, the goroutine of the caller, the one that watches
the context, the one that reads the transaction, and the one that reads what
follows a 2xx.  After a 401 the reader calls `requestWithContext` again: this
second attempt runs inside the first one.  The transactions pass up what
`ClientContract` allows, through a channel of capacity `Cap`.  `timerB` says whether
timer B of a transaction runs: the first 1xx of an INVITE stops it, and Cancel arms it
again only after a 1xx.  Its definitions have
names of their own (`CallNext`, `CallSpec`, ...), so that `ServerProofs` can extend
it together with `Server`.

### Parser and messages

In `StreamParser` a message is a sequence of lines, and Content-Length counts
lines.  The lines come in pieces of any size; `net`, `pipe` and `buf` are what the
peer has not written, what the writer waits to hand over, and what the parser has
read ahead.  `ParseMessage`, translated from the packet parser, is both a
component and the reference for what the stream parser should make of a message.

`HeaderStore` has the operations of `headers` in `sip/message.go` as functions of
the store, with the arithmetic on slices that PrependHeaderAfter does.  `Requests`
builds requests, edits them, and sends them.  Via hops, CSeq headers and
recipients are objects with a number, because the code shares them: a builder
gives its own to every request it builds, AuthorizeRequest writes a new branch
into the hop, and the transport layer takes the transport out of the recipient.  The
authorization and the second sending are two steps (`AuthorizeRequest`, `SendAgain`), as the
first transaction may still make an ACK in between.  What the application asks
for is the `setup` of a builder: a Via hop or none, a Route, a recipient with a transport
and a scheme, and a transport set on the request itself.
What a transaction sent is kept by value, so that the properties can compare the
ACK, the CANCEL and the response, made later from the request as it is by then,
with it.  Its specification is `MessageSpec`, with `MessageInit` and `MessageNext`.  The
length of a message is the number of its headers, and `Small` is what fits into a UDP
packet.

### The gateway

`Gateway` follows one channel of one camera through the HTTP requests
(`/invite`, `/inviteWithoutBye`, `/bye`, `/bye2`), in one step per access to the Channel object, to
`channelCache`, to Redis or to the network, and all cameras through registration,
unregistration, expiry and Recover.  `Handlers` are the goroutines that register and
unregister: Store and Remove change the map of sessions first and Redis in later steps
(`writing`), and so does what Recover stores (`recover.at`), so that they overlap.
`stray` has the devices whose key may stay in Redis without a session because of it.
`accepted` has the Channel objects whose INVITE was answered with a 200, also one of the
answers that make Invite panic.  Every access to Redis may fail, and the
process may crash between any two steps, which clears all but Redis.  Channel
objects and calls are numbered; numbers that nothing refers to are used again.
`live` is the set of open calls that the code should remember; what takes a
call out of it is listed at `CallsAreKept`.

## The runs

| run | specification | shows |
|---|---|---|
| `client_tx` | `FairSpec` | `PanicNeedsTerminate`, `ResendOnlyUnanswered`; `ClientTx` implements `ClientContract`; `UnansweredEnds`: no transaction is stuck in calling or completed |
| `client_tx_accepted` | `FairSpec` | `AcceptedEnds` is violated (the finding below) |
| `server_tx` | `FairSpec` | `OnlyAckPanics`, `SilentOnceConfirmed`; `ServerTx` implements `ServerContract`; `AnsweredEnds`: an answered transaction ends, unless its 2xx could not be sent |
| `tx_layer` | `LayerFairSpec` | `OneLivePerKey`, `StoredIsServed`, `DoneEndsAll`, `OnlyOwnerDrops`; `RequestReturns`: every Request returns unless a user stops reading for ever; `CancelEnds`: the layer ends after Cancel, whether or not anybody reads |
| `conn_pool` | `FairSpec` | `LiveIsStored`, `NothingLost`, `StreamPanicNeedsLatePut`; `StreamEnds`: a stream connection that is silent or fails leaves the pool |
| `tcp` | `FairSpec` | `ErrorDropsItsOwn`, `OneOwner`; `AcceptedSettles`: every accepted connection is pooled or closed; `BrokenListenerLeaves` |
| `transport_layer` | `TransportFairSpec` | `ViaPortIsListened`: a request names a port that the layer has opened for its protocol; `EndsWithItsProtocols`; `CancelEnds`: the layer ends after Cancel, unless a protocol hangs |
| `server` | `FairSpec` | `OneLateHandler`: at most one handler outlives Shutdown; `ShutdownEndsAll`: no goroutine of serve or of a handler is left, and all calls of Shutdown return, or wait for a transport layer that hangs |
| `request_ctx` | `FairCallSpec` | `ResultIsVerdict`: the call returns what the transaction said; `ResponsesAreRead`: no response is left to block a transaction; `CallReturns`: the end of the server or of the context ends the call, except an INVITE canceled before its first 1xx (`Stranded`) |
| `stream_parser` | `FairSpec` | `DeliversWhatWasSent`, `LosesNothing`: the stream parser agrees with the packet parser in whatever pieces the input comes; `StopEnds` |
| `requests` | `MessageSpec` | `HeadersAreOrdered`, `ResponseFindsItsTx`, `AckAndCancelMatch`, `SentAsAsked` |
| `gateway` | `Spec` | `InvitedMeansCalled`; `CallsAreKept`: an open call stays where the next request finds it; `RoutedIsServed`: what Redis holds is served here, but for `stray` devices |

For every property of a passing run there is a mutant, a wrong version of one
definition (its name ends in `_bug`) that TLC tells from the right one.

Finding: a client INVITE that gets a 2xx after a 1xx never ends.  `proceeding`
uses `act_invite_final`, which sets timer D; `accepted` waits for timer M.

### Configurations beside the runs

Each of these checks one property that TLC finds violated, with
`tlc -config <configuration> <module>`, most of them within seconds.  They document
what the code does where a reader, or a comment in it, would expect something else.

| configuration | module | property | what the counterexample shows |
|---|---|---|---|
| `MCServerTxFinal.cfg` | `MCServerTx` | `SendsTheFinalResponse` | the 100 Trying of `timer_1xx` is sent in the place of the final response: Respond stores `lastResp` before it has the lock of the FSM |
| `MCTxLayerUnmatched.cfg` | `MCTxLayer` | `UnmatchedHasNoTx` | a response that arrives after `tx.Init()` has sent the request and before the transaction is in the store is passed up as not matched |
| `MCConnPoolStop.cfg` | `MCConnPool` | `StopsGracefully` | after cancel a handler with a message blocks in `handler.output <- msg` once `serveHandlers` has returned, and `dispose` waits for it |
| `MCConnPoolStale.cfg` | `MCConnPool` | `ErrorDropsItsOwn` | the late error of a dropped connection drops the new connection of the same key, as `serveHandlers` looks the handler up by its key; `tcp` shows that listeners, which report once, do not have this problem |
| `MCConnPoolPanic.cfg` | `MCConnPool` | `NoPanic` | the goroutines of packets are not counted by `hwg` and may send on `hmess` and `herrs` after `dispose` has closed them |
| `MCTcpProtocolListen.cfg` | `MCTcpProtocol` | `ListenSucceeds` | Listen on the same port of a second address is refused, with its socket open |
| `MCTcpProtocolSend.cfg` | `MCTcpProtocol` | `FindsOrCreates` | of two senders that dial the same peer one fails and leaks its connection |
| `MCTcpProtocolPanic.cfg` | `MCTcpProtocol` | `NoPanic` | Done of the protocol does not wait for its listener pool, which may then send on channels that are closed |
| `MCTcpProtocolStop.cfg` | `MCTcpProtocol` | `StopsGracefully` | after cancel an accept loop with a connection blocks as the handler of `MCConnPoolStop.cfg` does |
| `MCTransportLayerReliable.cfg` | `MCTransportLayer` | `ReliableIsKnown` | IsReliable looks a name in upper case up in a store with keys in lower case and answers no for TCP, so that timer A is set, which the comment at `client_tx.go:113` rules out |
| `MCServerHandlers.cfg` | `MCServer` | `ShutdownWaitsForHandlers` | the request that serve has received and not yet counted is handled after `hwg.Wait()`, where the comment at `server.go:494` says "wait for handlers"; `OneLateHandler` shows it is the only one |
| `MCStreamParserLength.cfg` | `MCStreamParser` | `StopsWithoutLength` | a message without Content-Length does not stop the parser permanently, as the comment at `stream.go:27` says; it goes on with the next start line |
| `MCGatewayLatest.cfg` | `MCGateway` | `LatestRegistrationHolds` | a camera that registers while Recover is at work is replaced by what Recover had read, against the comment at `session.go:212` that the latest registration holds |

In both pools a Put that passed its check of `cancel` before DropAll leaves an
entry that nobody cancels; the properties about the shutdown leave this case out
(`LatePut`, `LateListen`), so that the counterexamples above stand without it.

The exceptions inside the properties are behaviours of the code too: an accepted
server INVITE whose 2xx could not be sent never ends (`acceptLost`), `passUp` and
`act_passup_ack` may panic beside Terminate, `act_non_invite_resend` may Reset a
nil timer, a Request that loses the race with Cancel leaves its transaction
in the store without a goroutine, and a protocol made by a Send or Listen that had
passed its test of `canceled` outlives the layer (`late`).  Requests of one builder share
a Via hop, hence a branch (`OwnBuilder`), and once a request is authorized the
ACK of its first transaction is made with the new branch (`Current`).  A request that is
too long for a packet and goes to a sips URI is sent over TCP first and over TLS the next
time, as is its ACK (`LongSips`).  An INVITE that is canceled before its first 1xx has no
timer any more once the 1xx stops timer B (`Stranded`).  An accepted server INVITE sends
every further 2xx of the user, and a transaction that Terminate closes in the middle
may still send (`SilentOnceConfirmed`).  A port stays in `listenPorts` when its listener breaks.  A message
whose stream ends after "Content-Length: 0" and before the empty line is
delivered without its last headers (`CutOff`).

Of the gateway the model shows further that the test of expiry in Session.Get is
always true (`Found`), that `/bye` forgets nothing and `/bye2` forgets the call
even when its BYE fails, that `/inviteWithoutBye` leaves its call in the Channel object
alone, that a camera which unregisters while its registration is being stored leaves its key
in Redis, and that a Recover of 50 keys or more panics (proved, see below).

### Bounds

The channels hold 64 elements in the code and 1 in the runs: a full channel, which
is what blocks a goroutine, is then reached after two messages.  Three responses are
enough for provisional, final and retransmitted response; a server transaction gets
two messages after its request (retransmissions, ACKs, CANCELs), and two responses of the user, a
provisional and a final one or two final ones.  One failing send covers a failure
in each state.  `T2 = 3` with doubling from 1 reaches
the cap in two steps.  `ResendBound` stops the resends of an INVITE, whose timer
has no cap.  In the layer two client transactions and three server transactions of
one key give an ended, a live and a newer transaction for the same key at the same
time as calls of Request.

Two connections of one key give an old connection with late errors beside its
successor; the run has one piece of input per connection, and
`MCConnPoolStop.cfg`, `MCConnPoolStale.cfg` and `MCConnPoolPanic.cfg` two, which
is where a message blocks behind another one. Two listeners of one port give a
listener and its successor; two connections and two remote addresses give a
connection the pool takes and one it refuses.

Two calls of Listen and one of Send, over two protocols and two ports, are enough
for two writers of `listenPorts`, a writer and a reader, and a protocol that one
call makes and another finds.  `Bounds` of `MCTransportLayer` keeps the two calls of
Listen to one protocol, and one listener of it breaks.  Three requests and three callers of Shutdown (two
goroutines and serve) give one request before, one during and one after
`hwg.Wait()`, and two calls that both pass the test of `running`.  Requests are alike, and
so are the callers: `InOrder` of `MCServer` follows them in one order.

Three messages of six kinds (well-formed, folded and malformed headers, a length
that is too short, none, two, and a bad start line) give every kind after every
other one and a third to find back to, in both modes of the parser; one Reset
starts a second stream with what the first one may have left behind.

`requests` has two requests, which may have one builder, and three transactions,
of which one is a second attempt.  With `Small = 10` requests fit into a UDP packet
as they are built, and edits or the credentials can take them over the limit.
Three setups (a Via hop, a transport in the recipient, a Route before it) are combined
with all of this; four more, with sips, a WS Route and a transport of the request itself, have
a single request and one edit.  Headers are edited, up to three times, only in behaviours with
a single request (`Bounds` of `MCRequests`): an edit touches the headers of its request alone.

`gateway` has two cameras and two HTTP requests at once.  `Batch = 2` with
`Reach = 20` makes two keys enough for the panic of Recover, as 50 are with the
numbers of the code.  Two Channel objects are the one in the map and the one a
request still holds.  Two handlers give a registration beside an unregistration of the
same camera, or two of either.  `Bounds` of `MCGateway` keeps HTTP requests, handlers and
cameras from multiplying each other.  Requests are followed one at a time while the key of
the camera is missing, and while a handler has only the hash of the channel still to
delete; not while handlers have more to do, a key is stray or another camera is
registered.  Two handlers at once, and a second camera, are followed when no call is
remembered.  Requests and handlers are symmetric.  The proofs need none of this.

The runs say `CHECK_DEADLOCK FALSE` because all of these systems may stop: a
transaction, a call and a stream end, and so does a layer after Cancel; a pool
may be idle for ever; `requests` stops at its bounds.

### Fairness

A goroutine that can run is run in the end, and the timers that end a state run
out: weak fairness of their steps.  Timers A, G and `timer_1xx`, which only
repeat a message, need not.  A callback that waits for the lock of the FSM gets it
although others take it in between (Go's mutex does not starve a waiter): strong
fairness of the spins of those timers.  In the transactions the user is assumed
to read the channels; in the transaction layer nothing is assumed of the users, and
`RequestReturns` allows for the case that a user never reads again
(`WaitsForUser`).  In `TxLayer`, `ConnPool` and `Server` fairness is weak fairness
of all steps together (`Progress`), which only says that Go does not stop while
some goroutine can run: enough here, because the work of these goroutines is
finite for a finite number of messages.

In `TransportLayer` `serveProtocols` takes the case of `canceled` in the end (Go's
select chooses among the ready cases at random), and after Cancel a protocol ends or
hangs: fairness does not say which, because of the deadlock of `MCConnPoolStop.cfg`.  In
`Server` the transaction layer ends (`CancelEnds` of `TxLayer`), the transport layer ends or
hangs (`CancelEnds` of `TransportLayer`), and handlers return (`CallReturns`).  In
`RequestCtx` a transaction times out while its timer B runs, and a canceled layer
terminates the ones it serves.  Nothing is assumed of the network: messages may
never come, and every send may fail up to the bound.

## The proofs

All theorems hold for every value of the constants that satisfies the named
assumption of the module (`ConstantsAssumption`, `ServerAssumption`, ...): finite sets
where something is counted, names that differ, capacities that are positive.  The
bounds of the models (`MaxObjs`, `MaxServerTxs`, ...) are arbitrary numbers.  None of the
properties is inductive; the strengthenings were checked with TLC first.

`ClientTxProofs` proves `TypeOK`, `PanicNeedsTerminate` (`PanicCorrect`),
`ResendOnlyUnanswered` (`ResendCorrect`) and that `ClientTx` implements
`ClientContract` (`ClientRefinement`).  What the goroutine with the lock of the FSM
has still to do is a sequence of steps, so `IInv` ties each such sequence to the rest:
`ProgOK` says which are possible in each state, `TimerAOK` when timer A runs or is
nil, `GivenOK` what the user has been given by then.  The two tables of the FSM enter
through two lemmas (`AcceptInvite`, `AcceptNonInvite`) that say which state and
action an input leads to.  For the refinement, `passed`, `reported`, `done` and the place
of Terminate are the variables of the contract.  A step that passes a response up is
legal there because of `GivenOK` (`LegalPass`): before a final response only
provisional ones came, in accepted only provisional ones and 2xx.  A step that closes
the channels comes after a verdict or an error (`LegalEnd`), or is Terminate.

`ServerTxProofs` proves `TypeOK`, `OnlyAckPanics` (`PanicCorrect`),
`SilentOnceConfirmed` (`SilenceCorrect`) and that `ServerTx` implements
`ServerContract` (`ServerRefinement`), by the same argument.  Here `AnswerOK` says
which answer of the user led to the state, and `GivenOK` that errors and ACKs
have not come out before their step of the FSM, and errors once.  For the silence
`ProgOK` says in which states a send can be among the steps that are left: none of them is
confirmed or terminated, and `DoneOK` that a transaction which is done without Terminate is
terminated.

For `TxLayer` it proves `LayerTypeOK` (`LayerTypeCorrect`, with the capacities of the
channels), `OneLivePerKey` (`AtMostOneLive`), `StoredIsServed`
(`EveryEntryServed`), `DoneEndsAll` (`DoneIsClean`) and the action property
`OnlyOwnerDrops` (`DropIsOwn`).  `LayerInv` adds how each goroutine's position is tied to
the store: an entry under a server key is the newest transaction of that key, a
goroutine that is about to delete has a transaction that is done and still the one in
the store, and `txWg` counts exactly the goroutines that serve (`WgInv`, which
needs the cardinality of a finite set).  The key step is that `listenMessages`
makes a new transaction for a key only when the store has none, while a goroutine
between its lookup and its delete still has its own entry there.

`ConnPoolProofs` proves `TypeOK`, `LiveIsStored` (`ServedUntilCanceled`),
`StreamPanicNeedsLatePut` (`CloseWaitsForStreams`) and `NothingLost`
(`MessagesAreKept`).  `StoreInv`
adds that every entry is a served handler under its own key; `EndInv` adds the
order in which the goroutines of a handler end: reader, then `pipeOutputs`, then
`hwg.Done`, then the channels of the pool.  The messages under way are counted as the
cardinalities of three sets: the parsers, the `pipeOutputs` and the packets that hold one.
Each step puts one element into one of them or moves it to the next; `FlowInv` adds
who can hold a message, and that only a canceled pool closes a channel under it.

`TransportLayerProofs` proves `EndsWithItsProtocols` (`DisposeWaitsForAll`) and
`ViaPortIsListened` (`AnswersFindTheLayer`).  The first needs `EndInv`: after
dispose has listed the protocols, one that still runs is waited for or late.
The second follows a port from the socket over `listenPorts` to Via: what a
Listen is about to enter, and what is entered, is a socket of that protocol or was one
until it broke (`SocketInv`); a Listen that has returned left an entry under the name that
Send looks up, which a second Listen may empty but not take away (`ListenedInv`); and Via
has no port before that look-up (`ViaInv`).

For `TcpProtocol` it proves `TypeOK` (`TypeCorrect`), `ErrorDropsItsOwn` (`ListenerErrorsAreOwn`)
and `OneOwner` (`AcceptedHasOneOwner`).  The first needs that, while the protocol
runs, a listener is canceled only through its own error, after which its accept
loop has ended (`StoreInv`).  The second needs `OwnerInv`, which says where the
connection of each goroutine is, in five parts: the accept loops, `serveHandlers`,
`pipePools`, the accepted connections and the senders.  An action is shown to keep
the parts it can disturb; a frame fact per part covers the others.

`RequestsProofs` proves `ResponseFindsItsTx` (`ResponsesMatch`) and `AckAndCancelMatch`
(`AcksMatch`), for any number of builders, requests and transactions and whatever the
headers are.  Both are about pointers: a step may
change a hop or a CSeq that another request holds.  `MessageInv` therefore says that every
pointer is one to an object (`RefInv`), that requests of two builders have neither hop
nor CSeq in common, nor does the builder at work with older requests (`ShareInv`), that
the branch of a transaction is in the hop of its request or nowhere, one branch in two
transactions is that of two requests of one builder, and an authorized request that has
still to be sent again (`Pending`) has a branch that was never sent (`BranchInv`), and that a request
which is the only one of its builder and has not been authorized since it was sent is still
what was sent (`SentInv`).  The actions are of three
kinds, for each of which the four parts are proved once: those that leave what is
pointed to (`Keeps`), the one that builds a request (`Builds`), and those that authorize a
request or send it (`Alters`).  A response then has the branch of one transaction only, and
what a transaction makes from its request has the branch it sent (`OriginAsSent`).

`HeadersProofs` proves `HeadersAreOrdered` (`HeadersOrdered`) and `SentAsAsked`
(`TransportAsAsked`), for any number of headers and edits.  Its first part is about the
operations of `HeaderStore`, one lemma each, for every store that is `Ordered`: the slice
of the names has each name of the map once, and every name has a header.  The three cases of
PrependHeaderAfter and RemoveHeader work on slices of the order; what they leave is told
by a map from the places of the new order to those of the old one (`Moved`), which grows
strictly, so that no name comes twice, none is lost, and the others keep their order.
`OrderInv` then says that the headers of every request and of all that was sent are
ordered; every step keeps it, and the response, ACK and CANCEL start from an empty
store and copy.

The transport needs `AskedInv`: as long as a request is the only one of its builder and has
not been sent, what was set up is in its recipient and its hop (`FromSetup`), and so it is in
those of a builder that has built nothing; a request that is to be sent again carries what
was sent (`Carries`); what was sent went as asked (`AsAsked`).  On the second attempt the
recipient has lost its parameter, and the hop, into which the first attempt has written its
transport, decides instead.  This is right only because the request has grown in between
(`Grew`): it has the same Route, and what was too long for a packet still is
(`StaysTooLong`, from the cardinality of the set of headers).  The lemmas on a step take that fact as a hypothesis, `StayTooLong`, and the
theorems on finite sets enter only behind it (instance `FS`), as they slow down
everything else; `TransportAsAsked` has no hypothesis left.

`ServerProofs` proves `TypeOK`, which says that the WaitGroup never becomes
negative (Go panics if it does), and `OneLateHandler` (`AtMostOneLate`).
`CountInv` says that `hwg` is the number of handlers at work, `HeldInv` that a request
that is taken and not counted is the one serve holds, and `LayerInv` that the
transaction layer is done when a Shutdown waits for the handlers: from then on serve
takes no further request, and the one it may hold is the only one that can still start.

For `RequestCtx` it proves `ResultIsVerdict` (`CallResultCorrect`) and
`ResponsesAreRead` (`ResponsesTaken`) from `CallInv`.  Its parts: the second attempt
starts from the reader of the first (`StartInv`); a rejection is the last response, and
a timeout and a final response exclude each other (`OrderInv`); the reader goes on only
behind provisional responses, so that none is final when it finds the channel closed
(`ReadInv`); what is in the channel when it turns away (`LeftInv`); and where each
result comes from (`VerdictInv`).

`GatewayProofs` proves `InvitedMeansCalled` (`InvitedIsTrue`), `CallsAreKept`
(`OpenCallsAreKept`) and `RoutedIsServed` (`RoutesAreServed`).  `RecoverInv` says
that what Redis holds is in the session, about to be deleted, stray, or among what Recover
has still to store, and that what is being written to Redis is in the session or stray, so
that a handler that comes late writes nothing that is not accounted for.
`CallInv` says that, while nothing overlaps, one request or catalog is under way
(`AloneInv`), and what it knows of the open call between two of its steps
(`LiveInv`).  `RecoverNeedsFewKeys` is about a definition alone: with the batch of 50
and the slice of 500 in `session.go`, Recover panics for every number of keys
from 50 on.

Only model-checked are liveness under fairness (`...Ends`, `...EndsAll`,
`AcceptedSettles`, `BrokenListenerLeaves`, `RequestReturns`, `CallReturns`), which TLAPS
does not do, and the two invariants of `StreamParser`, `DeliversWhatWasSent` and
`LosesNothing`.  These compare the parser, which goes on line by line, with
`ParseMessage` over the whole input: what filters, folds and flattening make of a
sequence of any length cannot be shown without induction over data, for which the
installed provers have no rule.

## Not modelled

- Text: the grammar and wording of headers, URIs and errors, escaping, the digest of
  an authorization, XML and SDP of the gateway, logging.
- Time: a timer may run out at any time after it is armed.  Retransmission
  intervals are kept only as far as their cap.
- The sockets of UDP, TLS, WS and WSS, the resolution of names and the WebSocket
  handshake, which are calls of libraries.  UDP and WebSocket use the
  connection pool as TCP does.
- A second Request with the branch of a live client transaction at the level of the
  layer, and the key of a branch without the magic cookie.
- Of the gateway: the numbers of CSeq, the handlers that only answer (OnBye,
  OnOptions, OnInvite, OnAck), a goroutine of Bye that may wait for ever for its
  reader, an INVITE that never gets a final response (its context never ends), and
  the table of cameras in `camera.go`.
- The elastic channel and the semaphore of `util/`: used by no other code of the
  repository.  `timing/`: replaces the clock in tests.
- Configuration, examples and test helpers.
