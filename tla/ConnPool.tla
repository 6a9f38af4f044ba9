------------------------------ MODULE ConnPool ------------------------------
(***************************************************************************)
(* The connection pool of transport/connection_pool.go and the part of     *)
(* transport/layer.go that reads it and shuts it down.  Its goroutines:    *)
(*                                                                         *)
(*   - serveHandlers, the only reader of hmess and herrs;                  *)
(*   - dispose, which starts when the pool is canceled;                    *)
(*   - the callers of Put;                                                 *)
(*   - for each stream connection the goroutine that reads the socket      *)
(*     (reader), the parser it feeds (parser) and pipeOutputs (pipe);      *)
(*   - for each packet connection the reader, and one goroutine per packet *)
(*     (packets, badPackets);                                              *)
(*   - serveProtocols of the layer (upper), which reads the output of the  *)
(*     pool and closes it once the pool is done.                           *)
(*                                                                         *)
(* All channels are unbuffered: a send is one step with its receiver.      *)
(* pool.cancel and tpl.canceled are the same channel.                      *)
(***************************************************************************)
EXTENDS Integers, FiniteSets

CONSTANTS
  MaxHandlers,  \* bound: connections put, numbered in the order of the calls
  Keys,         \* connection keys
  NoHandler,    \* the empty entry of the store
  MaxArrivals   \* bound: pieces of input that arrive

Handlers == 1..MaxHandlers

ASSUME ConstantsAssumption ==
  /\ MaxHandlers \in Nat
  /\ Keys # {}
  /\ NoHandler \notin Handlers
  /\ MaxArrivals \in Nat

VARIABLES
  streamed,   \* a stream protocol, with a TTL, or a packet protocol, without
  cancel,     \* pool.cancel is closed
  store,      \* pool.store
  put,        \* progress of Put, by connection
  key,        \* conn.Key()
  canceled,   \* handler.canceled is closed
  conn,       \* the connection: open, failed by the peer, or closed
  reader,     \* the goroutine that reads the connection
  parser,     \* what the stream parser holds
  pipe,       \* pipeOutputs; "done" once handler.done is closed
  timer,      \* handler.timer: "armed", "fired"
  tick,       \* handler.timer.C holds a tick
  expired,    \* handler.Expired()
  packets,    \* goroutines of readPacket with a message
  badPackets, \* goroutines of readPacket with an error
  waited,     \* hwg.Done has been called for the handler
  server,     \* where serveHandlers is
  herr,       \* the error it handles: handler and kind
  disposer,   \* where dispose is
  upper,      \* where serveProtocols is
  panic,      \* who sent on a closed channel
  arrivals,   \* pieces of input so far
  received,   \* messages parsed so far
  delivered   \* messages passed up so far

connVars   == <<put, key, conn>>
timerVars  == <<timer, tick, expired>>
packetVars == <<packets, badPackets>>
serveVars  == <<server, herr>>
endVars    == <<disposer, upper>>
countVars  == <<arrivals, received, delivered>>
vars == <<streamed, cancel, store, connVars, canceled, reader, parser, pipe, timerVars,
          packetVars, waited, serveVars, endVars, panic, countVars>>

Alive == panic = "no"
\* hmess and herrs are closed
Closed == disposer = "closed"
NoErr == [handler |-> NoHandler, kind |-> "none"]
\* "late": stored after DropAll
Served(h) == put[h] \in {"served", "late"}

-----------------------------------------------------------------------------
(***************************************************************************)
(* Put and drop.                                                           *)
(***************************************************************************)

\* Put, up to the check of pool.cancel
PutCheck(h, k) ==
  /\ Alive
  /\ put[h] = "new" /\ (h > 1 => put[h - 1] # "new")
  /\ put' = [put EXCEPT ![h] = IF cancel THEN "refused" ELSE "checked"]
  /\ key' = [key EXCEPT ![h] = k]
  /\ conn' = [conn EXCEPT ![h] = "open"]
  /\ UNCHANGED <<streamed, cancel, store, canceled, reader, parser, pipe, timerVars,
                 packetVars, waited, serveVars, endVars, panic, countVars>>

\* Mutants (here and below, names that end in _bug): wrong versions of the
\* definition of the same name, which the properties must tell from the right one.
\* put replaces the handler of the key
PutStore_bug(h) ==
  /\ Alive
  /\ put[h] = "checked"
  /\ put' = [put EXCEPT ![h] = "served"]
  /\ store' = [store EXCEPT ![key[h]] = h]
  /\ reader' = [reader EXCEPT ![h] = "reading"]
  /\ pipe' = [pipe EXCEPT ![h] = IF streamed THEN "select" ELSE "none"]
  /\ timer' = [timer EXCEPT ![h] = IF streamed THEN "armed" ELSE @]
  /\ UNCHANGED <<streamed, cancel, key, conn, canceled, parser, tick, expired, packetVars,
                 waited, serveVars, endVars, panic, countVars>>

\* The rest of Put, under pool.mu: NewConnectionHandler and Serve
PutStore(h) ==
  /\ Alive
  /\ put[h] = "checked"
  /\ \/ /\ store[key[h]] # NoHandler
        /\ put' = [put EXCEPT ![h] = "refused"]
        /\ UNCHANGED <<store, reader, pipe, timer>>
     \/ /\ store[key[h]] = NoHandler
        /\ put' = [put EXCEPT ![h] = IF disposer = "idle" THEN "served" ELSE "late"]
        /\ store' = [store EXCEPT ![key[h]] = h]
        /\ reader' = [reader EXCEPT ![h] = "reading"]
        /\ pipe' = [pipe EXCEPT ![h] = IF streamed THEN "select" ELSE "none"]
        /\ timer' = [timer EXCEPT ![h] = IF streamed THEN "armed" ELSE @]
  /\ UNCHANGED <<streamed, cancel, key, conn, canceled, parser, tick, expired, packetVars,
                 waited, serveVars, endVars, panic, countVars>>

\* pool.drop of a set of handlers: handler.Cancel closes the connection
drop(hs) ==
  /\ canceled' = [h \in Handlers |-> canceled[h] \/ h \in hs]
  /\ conn' = [h \in Handlers |-> IF h \in hs THEN "closed" ELSE conn[h]]
  /\ store' = [k \in Keys |-> IF store[k] \in hs THEN NoHandler ELSE store[k]]

-----------------------------------------------------------------------------
(***************************************************************************)
(* serveHandlers.                                                          *)
(***************************************************************************)

\* An error of handler h is received from herrs: the handler of its key is
\* looked up, which need not be h any more.
TakeErr(h, kind) ==
  /\ server = "select"
  /\ LET found == store[key[h]]
         next == CASE found = NoHandler -> "select"
                   [] kind = "expired"   -> IF expired[found] THEN "drop" ELSE "select"
                   [] kind = "eof"       -> IF cancel THEN "stopped" ELSE "drop"
                   [] kind = "network"   -> "drop"
                   [] kind = "malformed" -> "errs"
     IN /\ server' = next
        /\ herr' = IF next = "drop" THEN [handler |-> h, kind |-> kind] ELSE NoErr

\* A message is received from hmess.
TakeMsg == server = "select" /\ server' = "pass" /\ UNCHANGED herr

\* pool.Drop(handler.Key()), in a critical section of its own
ServerDrop ==
  /\ Alive
  /\ server = "drop"
  /\ drop({store[key[herr.handler]]} \ {NoHandler})
  /\ server' = CASE herr.kind = "expired" -> "select"
                 [] herr.kind = "eof" -> "eof"
                 [] OTHER -> "errs"
  /\ herr' = NoErr
  /\ UNCHANGED <<streamed, cancel, put, key, reader, parser, pipe, timerVars, packetVars,
                 waited, endVars, panic, countVars>>

\* a canceled handler's message is thrown away
ServerPass_bug ==
  /\ Alive
  /\ server \in {"pass", "errs", "eof"}
  /\ \/ /\ upper = "reading"
        /\ server' = "select"
        /\ delivered' = IF server = "pass" /\ ~ \E h \in Handlers : canceled[h]
                        THEN delivered + 1 ELSE delivered
        /\ UNCHANGED panic
     \/ /\ server # "eof" /\ cancel
        /\ server' = "stopped"
        /\ UNCHANGED <<delivered, panic>>
     \/ /\ upper = "closed"
        /\ panic' = "serveHandlers"
        /\ UNCHANGED <<server, delivered>>
  /\ UNCHANGED <<streamed, cancel, store, connVars, canceled, reader, parser, pipe,
                 timerVars, packetVars, waited, herr, endVars, arrivals, received>>

\* A message or an error is passed up.  The error of an EOF is passed up without
\* a look at pool.cancel.
ServerPass ==
  /\ Alive
  /\ server \in {"pass", "errs", "eof"}
  /\ \/ /\ upper = "reading"
        /\ server' = "select"
        /\ delivered' = IF server = "pass" THEN delivered + 1 ELSE delivered
        /\ UNCHANGED panic
     \/ /\ server # "eof" /\ cancel
        /\ server' = "stopped"
        /\ UNCHANGED <<delivered, panic>>
     \/ /\ upper = "closed"
        /\ panic' = "serveHandlers"
        /\ UNCHANGED <<server, delivered>>
  /\ UNCHANGED <<streamed, cancel, store, connVars, canceled, reader, parser, pipe,
                 timerVars, packetVars, waited, herr, endVars, arrivals, received>>

\* hmess and herrs are closed
ServerStops ==
  /\ Alive
  /\ server = "select" /\ Closed
  /\ server' = "stopped"
  /\ UNCHANGED <<streamed, cancel, store, connVars, canceled, reader, parser, pipe,
                 timerVars, packetVars, waited, herr, endVars, panic, countVars>>

-----------------------------------------------------------------------------
(***************************************************************************)
(* The goroutines of a handler.                                            *)
(***************************************************************************)

\* What a read can complete: a message; one that is ignored (a syntax error, or
\* a request without Via); a malformed one; or a part of a message.
Inputs == {"msg", "ignored", "malformed", "partial"}

\* The next piece of input is parsed.  Of a stream it is what has just been read,
\* or what lies behind it in the buffer of the parser when the reader has gone
\* on; each packet gets a goroutine of its own.
Arrive(h, input) ==
  /\ Alive
  /\ \/ reader[h] = "reading" /\ conn[h] = "open"
     \/ reader[h] \in {"eof", "network", "stopping"}
  /\ arrivals < MaxArrivals
  /\ arrivals' = arrivals + 1
  /\ received' = IF input = "msg" THEN received + 1 ELSE received
  /\ \/ /\ streamed
        /\ parser[h] \in {"empty", "partial"}
        /\ parser' = [parser EXCEPT ![h] = input]
        /\ UNCHANGED packetVars
     \/ /\ ~streamed
        /\ input # "partial"
        /\ packets' = IF input = "msg" THEN [packets EXCEPT ![h] = @ + 1] ELSE packets
        /\ badPackets' = IF input = "malformed" THEN [badPackets EXCEPT ![h] = @ + 1]
                         ELSE badPackets
        /\ UNCHANGED parser
  /\ UNCHANGED <<streamed, cancel, store, connVars, canceled, reader, pipe, timerVars,
                 waited, serveVars, endVars, panic, delivered>>

\* The peer closes the connection, or the network fails.
PeerFails(h, kind) ==
  /\ Alive
  /\ conn[h] = "open"
  /\ conn' = [conn EXCEPT ![h] = kind]
  /\ UNCHANGED <<streamed, cancel, store, put, key, canceled, reader, parser, pipe,
                 timerVars, packetVars, waited, serveVars, endVars, panic, countVars>>

\* Read fails.  The reader of packets returns without a word, and Serve with it.
ReadFails(h) ==
  /\ Alive
  /\ reader[h] = "reading" /\ conn[h] # "open"
  /\ reader' = [reader EXCEPT ![h] = CASE ~streamed -> "closed"
                                       [] conn[h] = "eof" -> "eof"
                                       [] OTHER -> "network"]
  /\ pipe' = [pipe EXCEPT ![h] = IF streamed THEN @ ELSE "done"]
  /\ UNCHANGED <<streamed, cancel, store, connVars, canceled, parser, timerVars,
                 packetVars, waited, serveVars, endVars, panic, countVars>>

\* handleError of handler h: select { case <-canceled: case errs <- err: }
\* A send on the closed channel panics.
handleError(h, kind) ==
  \/ canceled[h] /\ UNCHANGED <<serveVars, panic>>
  \/ ~Closed /\ TakeErr(h, kind) /\ UNCHANGED panic
  \/ Closed /\ panic' = "handler" /\ UNCHANGED serveVars

\* a read error is lost when the pool is busy
ReaderReports_bug(h) ==
  /\ Alive
  /\ reader[h] \in {"eof", "network"}
  /\ \/ handleError(h, reader[h])
     \/ server # "select" /\ UNCHANGED <<serveVars, panic>>
  /\ reader' = [reader EXCEPT ![h] = "stopping"]
  /\ conn' = [conn EXCEPT ![h] = "closed"]
  /\ UNCHANGED <<streamed, cancel, store, put, key, canceled, parser, pipe, timerVars,
                 packetVars, waited, endVars, countVars>>

\* The reader reports the error and goes on to its deferred Close.
ReaderReports(h) ==
  /\ Alive
  /\ reader[h] \in {"eof", "network"}
  /\ handleError(h, reader[h])
  /\ reader' = [reader EXCEPT ![h] = "stopping"]
  /\ conn' = [conn EXCEPT ![h] = "closed"]
  /\ UNCHANGED <<streamed, cancel, store, put, key, canceled, parser, pipe, timerVars,
                 packetVars, waited, endVars, countVars>>

\* strPrs.Stop: a partial message is dropped, turns into an error or, if only the
\* end of its header is missing, into a message; what the parser holds is still
\* taken by pipeOutputs, and then msgs and errs are closed.
ParserStops(h) ==
  /\ Alive
  /\ reader[h] = "stopping"
  /\ \/ /\ parser[h] = "partial"
        /\ \E rest \in {"empty", "msg", "ignored", "malformed"} :
             /\ parser' = [parser EXCEPT ![h] = rest]
             /\ received' = IF rest = "msg" THEN received + 1 ELSE received
        /\ UNCHANGED reader
     \/ /\ parser[h] = "empty"
        /\ reader' = [reader EXCEPT ![h] = "closed"]
        /\ UNCHANGED <<parser, received>>
  /\ UNCHANGED <<streamed, cancel, store, connVars, canceled, pipe, timerVars, packetVars,
                 waited, serveVars, endVars, panic, arrivals, delivered>>

\* pipeOutputs: the select
PipeSelect(h) ==
  /\ Alive
  /\ pipe[h] = "select"
  /\ \/ /\ tick[h]
        /\ tick' = [tick EXCEPT ![h] = FALSE]
        /\ pipe' = [pipe EXCEPT ![h] = "expired"]
        /\ UNCHANGED parser
     \/ /\ parser[h] \in {"msg", "ignored", "malformed"}
        /\ parser' = [parser EXCEPT ![h] = "empty"]
        /\ pipe' = [pipe EXCEPT ![h] = IF parser[h] = "ignored" THEN "select" ELSE parser[h]]
        /\ UNCHANGED tick
     \/ /\ reader[h] = "closed"
        /\ pipe' = [pipe EXCEPT ![h] = "done"]
        /\ UNCHANGED <<parser, tick>>
  /\ UNCHANGED <<streamed, cancel, store, connVars, canceled, reader, timer, expired,
                 packetVars, waited, serveVars, endVars, panic, countVars>>

\* pipeOutputs: an expiry or a malformed message is reported
PipeReports(h) ==
  /\ Alive
  /\ pipe[h] \in {"expired", "malformed"}
  /\ handleError(h, pipe[h])
  /\ pipe' = [pipe EXCEPT ![h] = "select"]
  /\ UNCHANGED <<streamed, cancel, store, connVars, canceled, reader, parser, timerVars,
                 packetVars, waited, endVars, countVars>>

\* handler.output <- msg, which does not look at canceled
output ==
  \/ ~Closed /\ TakeMsg /\ UNCHANGED panic
  \/ Closed /\ panic' = "handler" /\ UNCHANGED serveVars

\* handleMessage of a stream, then the new expiry
PipeOutputs(h) ==
  /\ Alive
  /\ pipe[h] = "msg"
  /\ output
  /\ pipe' = [pipe EXCEPT ![h] = "select"]
  /\ timer' = [timer EXCEPT ![h] = "armed"]
  /\ expired' = [expired EXCEPT ![h] = FALSE]
  /\ UNCHANGED <<streamed, cancel, store, connVars, canceled, reader, parser, tick,
                 packetVars, waited, endVars, countVars>>

\* the goroutine of a packet
PacketOutputs(h) ==
  /\ Alive
  /\ packets[h] > 0
  /\ output
  /\ packets' = [packets EXCEPT ![h] = @ - 1]
  /\ UNCHANGED <<streamed, cancel, store, connVars, canceled, reader, parser, pipe,
                 timerVars, badPackets, waited, endVars, countVars>>

PacketReports(h) ==
  /\ Alive
  /\ badPackets[h] > 0
  /\ handleError(h, "malformed")
  /\ badPackets' = [badPackets EXCEPT ![h] = @ - 1]
  /\ UNCHANGED <<streamed, cancel, store, connVars, canceled, reader, parser, pipe,
                 timerVars, packets, waited, endVars, countVars>>

\* The TTL has passed since the last message.
TimerFires(h) ==
  /\ Alive
  /\ timer[h] = "armed"
  /\ timer' = [timer EXCEPT ![h] = "fired"]
  /\ tick' = [tick EXCEPT ![h] = TRUE]
  /\ expired' = [expired EXCEPT ![h] = TRUE]
  /\ UNCHANGED <<streamed, cancel, store, connVars, canceled, reader, parser, pipe,
                 packetVars, waited, serveVars, endVars, panic, countVars>>

-----------------------------------------------------------------------------
(***************************************************************************)
(* The shutdown.                                                           *)
(***************************************************************************)

Cancel ==
  /\ Alive
  /\ ~cancel
  /\ cancel' = TRUE
  /\ UNCHANGED <<streamed, store, connVars, canceled, reader, parser, pipe, timerVars,
                 packetVars, waited, serveVars, endVars, panic, countVars>>

\* go func() { <-handler.Done(); pool.hwg.Done() }
WgDone(h) ==
  /\ Alive
  /\ pipe[h] = "done" /\ ~waited[h]
  /\ waited' = [waited EXCEPT ![h] = TRUE]
  /\ UNCHANGED <<streamed, cancel, store, connVars, canceled, reader, parser, pipe,
                 timerVars, packetVars, serveVars, endVars, panic, countVars>>

\* dispose: DropAll
DropAll ==
  /\ Alive
  /\ cancel /\ disposer = "idle"
  /\ disposer' = "waiting"
  /\ drop({store[k] : k \in Keys} \ {NoHandler})
  /\ UNCHANGED <<streamed, cancel, put, key, reader, parser, pipe, timerVars, packetVars,
                 waited, serveVars, upper, panic, countVars>>

\* dispose does not wait for the handlers
PoolCloses_bug ==
  /\ Alive
  /\ disposer = "waiting"
  /\ disposer' = "closed"
  /\ UNCHANGED <<streamed, cancel, store, connVars, canceled, reader, parser, pipe,
                 timerVars, packetVars, waited, serveVars, upper, panic, countVars>>

\* dispose: hwg.Wait, then hmess, herrs and done are closed
PoolCloses ==
  /\ Alive
  /\ disposer = "waiting"
  /\ \A h \in Handlers : Served(h) => waited[h]
  /\ disposer' = "closed"
  /\ UNCHANGED <<streamed, cancel, store, connVars, canceled, reader, parser, pipe,
                 timerVars, packetVars, waited, serveVars, upper, panic, countVars>>

\* serveProtocols returns; its dispose waits for the protocol and then closes
\* the channels the pool sends to
UpperEnds ==
  /\ Alive
  /\ \/ upper = "reading" /\ cancel /\ upper' = "disposing"
     \/ upper = "disposing" /\ Closed /\ upper' = "closed"
  /\ UNCHANGED <<streamed, cancel, store, connVars, canceled, reader, parser, pipe,
                 timerVars, packetVars, waited, serveVars, disposer, panic, countVars>>

-----------------------------------------------------------------------------
\* the key of a connection before its Put
AnyKey == CHOOSE k \in Keys : TRUE

Init ==
  /\ streamed \in BOOLEAN
  /\ cancel = FALSE
  /\ store = [k \in Keys |-> NoHandler]
  /\ put = [h \in Handlers |-> "new"]
  /\ key = [h \in Handlers |-> AnyKey]
  /\ canceled = [h \in Handlers |-> FALSE]
  /\ conn = [h \in Handlers |-> "none"]
  /\ reader = [h \in Handlers |-> "idle"]
  /\ parser = [h \in Handlers |-> "empty"]
  /\ pipe = [h \in Handlers |-> "none"]
  /\ timer = [h \in Handlers |-> "fired"]
  /\ tick = [h \in Handlers |-> FALSE]
  /\ expired = [h \in Handlers |-> FALSE]
  /\ packets = [h \in Handlers |-> 0]
  /\ badPackets = [h \in Handlers |-> 0]
  /\ waited = [h \in Handlers |-> FALSE]
  /\ server = "select" /\ herr = NoErr
  /\ disposer = "idle" /\ upper = "reading"
  /\ panic = "no"
  /\ arrivals = 0 /\ received = 0 /\ delivered = 0

Next ==
  \/ \E h \in Handlers :
       \/ \E k \in Keys : PutCheck(h, k)
       \/ PutStore(h)
       \/ \E input \in Inputs : Arrive(h, input)
       \/ \E kind \in {"eof", "network"} : PeerFails(h, kind)
       \/ ReadFails(h)
       \/ ReaderReports(h)
       \/ ParserStops(h)
       \/ PipeSelect(h)
       \/ PipeReports(h)
       \/ PipeOutputs(h)
       \/ PacketOutputs(h)
       \/ PacketReports(h)
       \/ TimerFires(h)
       \/ WgDone(h)
  \/ ServerDrop
  \/ ServerPass
  \/ ServerStops
  \/ Cancel
  \/ DropAll
  \/ PoolCloses
  \/ UpperEnds

Spec == Init /\ [][Next]_vars

\* Go does not stop running goroutines while some of them can run, and timers run out.
\* Nothing is assumed of the peers, of the callers of Put or of Cancel.
Progress ==
  \/ \E h \in Handlers :
       \/ PutStore(h) \/ ReadFails(h) \/ ReaderReports(h) \/ ParserStops(h) \/ PipeSelect(h)
       \/ PipeReports(h) \/ PipeOutputs(h) \/ PacketOutputs(h) \/ PacketReports(h)
       \/ TimerFires(h) \/ WgDone(h)
  \/ ServerDrop \/ ServerPass \/ ServerStops \/ DropAll \/ PoolCloses \/ UpperEnds

Fairness == WF_vars(Progress)

FairSpec == Spec /\ Fairness

-----------------------------------------------------------------------------
(***************************************************************************)
(* Properties.                                                             *)
(***************************************************************************)

TypeOK ==
  /\ streamed \in BOOLEAN /\ cancel \in BOOLEAN
  /\ store \in [Keys -> Handlers \cup {NoHandler}]
  /\ put \in [Handlers -> {"new", "checked", "served", "late", "refused"}]
  /\ key \in [Handlers -> Keys]
  /\ canceled \in [Handlers -> BOOLEAN]
  /\ conn \in [Handlers -> {"none", "open", "eof", "network", "closed"}]
  /\ reader \in [Handlers -> {"idle", "reading", "eof", "network", "stopping", "closed"}]
  /\ parser \in [Handlers -> {"empty"} \cup Inputs]
  /\ pipe \in [Handlers -> {"none", "select", "msg", "expired", "malformed", "done"}]
  /\ timer \in [Handlers -> {"armed", "fired"}]
  /\ tick \in [Handlers -> BOOLEAN] /\ expired \in [Handlers -> BOOLEAN]
  /\ packets \in [Handlers -> Nat] /\ badPackets \in [Handlers -> Nat]
  /\ waited \in [Handlers -> BOOLEAN]
  /\ server \in {"select", "pass", "drop", "errs", "eof", "stopped"}
  /\ herr \in [handler : Handlers \cup {NoHandler},
               kind : {"none", "expired", "eof", "network"}]
  /\ server = "drop" => herr.handler \in Handlers
  /\ disposer \in {"idle", "waiting", "closed"}
  /\ upper \in {"reading", "disposing", "closed"}
  /\ panic \in {"no", "handler", "serveHandlers"}
  /\ arrivals \in 0..MaxArrivals /\ received \in Nat /\ delivered \in Nat

\* A served connection is in the store under its key until it is canceled, so that
\* DropAll reaches it and Put refuses a second connection of the key.
LiveIsStored ==
  \A h \in Handlers : Served(h) => (store[key[h]] = h <=> ~canceled[h])

\* Messages on their way from the sockets to the layer: in a parser, in pipeOutputs, in
\* one of the goroutines of readPacket, and in serveHandlers.
InParsers == {h \in Handlers : parser[h] = "msg"}
InPipes   == {h \in Handlers : pipe[h] = "msg"}
InPackets == {p \in Handlers \X (1..MaxArrivals) : p[2] <= packets[p[1]]}
InFlight ==
  Cardinality(InParsers) + Cardinality(InPipes) + Cardinality(InPackets)
  + (IF server = "pass" THEN 1 ELSE 0)

\* Until the pool is canceled no parsed message is lost or doubled, although
\* connections fail, expire and are dropped while their messages are on the way.
NothingLost == ~cancel => received = delivered + InFlight

\* A Put that passed its check of cancel has stored its connection after DropAll,
\* and nobody will cancel it.
LatePut == \E h \in Handlers : put[h] = "late"

\* hmess and herrs are closed under the goroutines of a stream connection only
\* after a late Put: hwg.Wait waits for all of them.
StreamPanicNeedsLatePut == streamed /\ panic = "handler" => LatePut

\* While the pool runs, an error drops the connection that reported it or, if that
\* has been dropped already, nothing.
ErrorDropsItsOwn ==
  server = "drop" /\ ~cancel => store[key[herr.handler]] \in {herr.handler, NoHandler}

\* The shutdown of the pool does not panic, a late Put aside.
NoPanic == Alive \/ LatePut

\* A stream connection on which nothing arrives any more, or that has failed,
\* leaves the pool: by its TTL or by the error of its reader, which reach
\* serveHandlers however busy it is.
StreamEnds ==
  \A h \in Handlers : streamed /\ Served(h) ~> canceled[h] \/ cancel

\* A canceled pool stops: pool.Done resolves, a late Put aside.
StopsGracefully == cancel ~> Closed \/ LatePut \/ ~Alive
=============================================================================
