---------------------------- MODULE TcpProtocol ----------------------------
(***************************************************************************)
(* The TCP protocol of transport/tcp.go over the listener pool of          *)
(* transport/listener_pool.go: Listen, the accept loops, serveHandlers,    *)
(* dispose, pipePools, which puts accepted connections into the connection *)
(* pool, and the senders, which look a connection up there or dial one.    *)
(*                                                                         *)
(* Of the connection pool, which ConnPool models, only its store is left:  *)
(* a connection with place "pooled".  The reader of errs closes it when    *)
(* the connection pool is done, which does not wait for the listeners.     *)
(***************************************************************************)
EXTENDS Integers

CONSTANTS
  MaxListeners, \* bound: calls of Listen, in the order of the calls
  Ports,        \* what tells the keys of listeners apart
  NoListener,   \* the empty entry of the store
  MaxConns,     \* bound: connections, in the order they are made
  Remotes,      \* remote addresses, the keys of connections
  NoConn,       \* no connection
  Senders       \* callers of Send

Listeners == 1..MaxListeners
Conns == 1..MaxConns

ASSUME ConstantsAssumption ==
  /\ MaxListeners \in Nat /\ MaxConns \in Nat
  /\ Ports # {} /\ Remotes # {}
  /\ NoListener \notin Listeners /\ NoConn \notin Conns

VARIABLES
  cancel,    \* the protocol is canceled
  store,     \* listenerPool.store
  accept,    \* Listen, then acceptConnections, of a listener
  port,      \* the port of a listener
  canceled,  \* handler.canceled is closed
  socket,    \* the listening socket
  waited,    \* hwg.Done has been called
  holds,     \* the connection a listener hands over
  server,    \* serveHandlers
  inHand,    \* the listener whose error, or the connection, serveHandlers handles
  disposer,  \* dispose
  pipe,      \* pipePools
  piped,     \* the connection pipePools handles
  errs,      \* the channel of errors: "open", "closed"
  place,     \* who has a connection
  remote,    \* the remote address of a connection
  sender,    \* progress of Send
  dialed,    \* the connection a sender has dialed
  panic      \* a send on a closed channel

listenVars == <<store, accept, port, canceled, socket, waited, holds>>
serveVars  == <<server, inHand>>
pipeVars   == <<pipe, piped>>
connVars   == <<place, remote>>
sendVars   == <<sender, dialed>>
vars == <<cancel, listenVars, serveVars, disposer, pipeVars, errs, connVars, sendVars, panic>>

Closed == disposer = "closed"
Served(l) == accept[l] \in {"accept", "output", "error", "ended"}
Pooled(r) == \E c \in Conns : place[c] = "pooled" /\ remote[c] = r

-----------------------------------------------------------------------------
(***************************************************************************)
(* Listeners.                                                              *)
(***************************************************************************)

\* Listen, up to the check of cancel in Put
Listen(l, p) ==
  /\ ~panic
  /\ accept[l] = "new" /\ (l > 1 => accept[l - 1] # "new")
  /\ accept' = [accept EXCEPT ![l] = IF cancel THEN "refused" ELSE "checked"]
  /\ port' = [port EXCEPT ![l] = p]
  /\ socket' = [socket EXCEPT ![l] = "open"]
  /\ UNCHANGED <<cancel, store, canceled, waited, holds, serveVars, disposer, pipeVars,
                 errs, connVars, sendVars, panic>>

\* The rest of Put, under the lock
ListenPut(l) ==
  /\ ~panic
  /\ accept[l] = "checked"
  /\ \/ /\ store[port[l]] # NoListener
        /\ accept' = [accept EXCEPT ![l] = "refused"]
        /\ UNCHANGED store
     \/ /\ store[port[l]] = NoListener
        /\ accept' = [accept EXCEPT ![l] = "accept"]
        /\ store' = [store EXCEPT ![port[l]] = l]
  /\ UNCHANGED <<cancel, port, canceled, socket, waited, holds, serveVars, disposer,
                 pipeVars, errs, connVars, sendVars, panic>>

\* A connection is made: by Accept or by Dial.
Connect(c, r, p) ==
  /\ place[c] = "none" /\ (c > 1 => place[c - 1] # "none")
  /\ place' = [place EXCEPT ![c] = p]
  /\ remote' = [remote EXCEPT ![c] = r]

Accept(l, c, r) ==
  /\ ~panic
  /\ accept[l] = "accept" /\ socket[l] = "open"
  /\ accept' = [accept EXCEPT ![l] = "output"]
  /\ holds' = [holds EXCEPT ![l] = c]
  /\ Connect(c, r, "accepted")
  /\ UNCHANGED <<cancel, store, port, canceled, socket, waited, serveVars, disposer,
                 pipeVars, errs, sendVars, panic>>

\* The listening socket fails.
ListenerFails(l) ==
  /\ ~panic
  /\ Served(l) /\ socket[l] = "open"
  /\ socket' = [socket EXCEPT ![l] = "broken"]
  /\ UNCHANGED <<cancel, store, accept, port, canceled, waited, holds, serveVars, disposer,
                 pipeVars, errs, connVars, sendVars, panic>>

AcceptFails(l) ==
  /\ ~panic
  /\ accept[l] = "accept" /\ socket[l] # "open"
  /\ accept' = [accept EXCEPT ![l] = "error"]
  /\ UNCHANGED <<cancel, store, port, canceled, socket, waited, holds, serveVars, disposer,
                 pipeVars, errs, connVars, sendVars, panic>>

\* Mutants (here and below, names that end in _bug): wrong versions of the
\* definition of the same name, which the properties must tell from the right one.
\* the accept loop keeps the connection
AcceptOutputs_bug(l) ==
  /\ ~panic
  /\ accept[l] = "output"
  /\ accept' = [accept EXCEPT ![l] = "accept"]
  /\ ~Closed
  /\ server = "select"
  /\ server' = "pass"
  /\ inHand' = [listener |-> l, conn |-> holds[l]]
  /\ UNCHANGED <<cancel, store, port, canceled, socket, waited, holds, disposer, pipeVars,
                 errs, connVars, sendVars, panic>>

\* handler.output <- conn, which does not look at canceled
AcceptOutputs(l) ==
  /\ ~panic
  /\ accept[l] = "output"
  /\ accept' = [accept EXCEPT ![l] = "accept"]
  /\ \/ /\ ~Closed
        /\ server = "select"
        /\ server' = "pass"
        /\ inHand' = [listener |-> l, conn |-> holds[l]]
        /\ UNCHANGED panic
     \/ /\ Closed
        /\ panic' = TRUE
        /\ UNCHANGED serveVars
  /\ holds' = [holds EXCEPT ![l] = NoConn]
  /\ UNCHANGED <<cancel, store, port, canceled, socket, waited, disposer, pipeVars, errs,
                 connVars, sendVars>>

\* serveHandlers takes the error of a listener.  Every error of Accept is one of the
\* network: it is that of the TCP socket, for TLS too, which makes no handshake in Accept,
\* and for WS, whose Accept passes over a failed upgrade (ws.go:92).  An error without an
\* entry in the store is ignored.
TakeErr(l) ==
  /\ server = "select"
  /\ server' = IF store[port[l]] = NoListener THEN "select" ELSE "drop"
  /\ inHand' = [listener |-> l, conn |-> NoConn]

\* select { case <-handler.canceled: case handler.errs <- err: }
Report(l) ==
  \/ canceled[l] /\ UNCHANGED <<serveVars, panic>>
  \/ ~Closed /\ TakeErr(l) /\ UNCHANGED panic
  \/ Closed /\ panic' = TRUE /\ UNCHANGED serveVars

\* the accept loop goes on after the error
AcceptReports_bug(l) ==
  /\ ~panic
  /\ accept[l] = "error"
  /\ Report(l)
  /\ accept' = [accept EXCEPT ![l] = "accept"]
  /\ UNCHANGED <<cancel, store, port, canceled, socket, waited, holds, disposer, pipeVars,
                 errs, connVars, sendVars>>

\* acceptConnections reports the error and returns; its defer closes the socket
AcceptReports(l) ==
  /\ ~panic
  /\ accept[l] = "error"
  /\ Report(l)
  /\ accept' = [accept EXCEPT ![l] = "ended"]
  /\ socket' = [socket EXCEPT ![l] = "closed"]
  /\ UNCHANGED <<cancel, store, port, canceled, waited, holds, disposer, pipeVars, errs,
                 connVars, sendVars>>

\* listenerPool.drop of a set of listeners
drop(ls) ==
  /\ canceled' = [l \in Listeners |-> canceled[l] \/ l \in ls]
  /\ socket' = [l \in Listeners |-> IF l \in ls THEN "closed" ELSE socket[l]]
  /\ store' = [p \in Ports |-> IF store[p] \in ls THEN NoListener ELSE store[p]]

-----------------------------------------------------------------------------
(***************************************************************************)
(* serveHandlers and pipePools.                                            *)
(***************************************************************************)

\* a broken listener is not dropped
ServerDrop_bug ==
  /\ ~panic
  /\ server = "drop"
  /\ server' = "errs"
  /\ UNCHANGED <<cancel, listenVars, inHand, disposer, pipeVars, errs, connVars, sendVars,
                 panic>>

\* pool.Drop(handler.Key()), in a critical section of its own
ServerDrop ==
  /\ ~panic
  /\ server = "drop"
  /\ drop({store[port[inHand.listener]]} \ {NoListener})
  /\ server' = "errs"
  /\ UNCHANGED <<cancel, accept, port, waited, holds, inHand, disposer, pipeVars, errs,
                 connVars, sendVars, panic>>

\* A connection goes to pipePools, unless cancel makes serveHandlers return with
\* it in hand.  p.conns is closed when pipePools has ended.
ServerPassConn ==
  /\ ~panic
  /\ server = "pass"
  /\ \/ /\ pipe = "select"
        /\ pipe' = "put" /\ piped' = inHand.conn
        /\ place' = [place EXCEPT ![inHand.conn] = "piped"]
        /\ server' = "select"
        /\ UNCHANGED panic
     \/ /\ cancel
        /\ server' = "stopped"
        /\ UNCHANGED <<pipeVars, place, panic>>
     \/ /\ pipe = "ended"
        /\ panic' = TRUE
        /\ UNCHANGED <<server, pipeVars, place>>
  /\ UNCHANGED <<cancel, listenVars, inHand, disposer, errs, remote, sendVars>>

\* serveHandlers ends with the first error
ServerPassErr_bug ==
  /\ ~panic
  /\ server = "errs"
  /\ server' = "stopped"
  /\ UNCHANGED <<cancel, listenVars, inHand, disposer, pipeVars, errs, connVars, sendVars,
                 panic>>

\* An error goes up: the layer may still take one after cancel, as its select has
\* both cases ready.
ServerPassErr ==
  /\ ~panic
  /\ server = "errs"
  /\ \/ errs = "open" /\ server' = "select" /\ UNCHANGED panic
     \/ cancel /\ server' = "stopped" /\ UNCHANGED panic
     \/ errs = "closed" /\ panic' = TRUE /\ UNCHANGED server
  /\ UNCHANGED <<cancel, listenVars, inHand, disposer, pipeVars, errs, connVars, sendVars>>

\* hconns and herrs are closed
ServerStops ==
  /\ ~panic
  /\ server = "select" /\ Closed
  /\ server' = "stopped"
  /\ UNCHANGED <<cancel, listenVars, inHand, disposer, pipeVars, errs, connVars, sendVars,
                 panic>>

\* pipePools: connections.Put, and Close if it is refused
PipePut ==
  /\ ~panic
  /\ pipe = "put"
  /\ \/ /\ cancel \/ Pooled(remote[piped])
        /\ place' = [place EXCEPT ![piped] = "closed"]
     \/ /\ ~cancel /\ ~Pooled(remote[piped])
        /\ place' = [place EXCEPT ![piped] = "pooled"]
  /\ pipe' = "select" /\ piped' = NoConn
  /\ UNCHANGED <<cancel, listenVars, serveVars, disposer, errs, remote, sendVars, panic>>

\* <-p.listeners.Done(): p.conns is closed
PipeEnds ==
  /\ ~panic
  /\ pipe = "select" /\ Closed
  /\ pipe' = "ended"
  /\ UNCHANGED <<cancel, listenVars, serveVars, disposer, piped, errs, connVars, sendVars,
                 panic>>

\* The connection pool drops a connection.
ConnLeaves(c) ==
  /\ ~panic
  /\ place[c] = "pooled"
  /\ place' = [place EXCEPT ![c] = "closed"]
  /\ UNCHANGED <<cancel, listenVars, serveVars, disposer, pipeVars, errs, remote, sendVars,
                 panic>>

-----------------------------------------------------------------------------
(***************************************************************************)
(* getOrCreateConnection.                                                  *)
(***************************************************************************)

\* Get: the connection is found, or it is to be dialed, which may fail.
Send(s, r) ==
  /\ ~panic
  /\ sender[s] = "idle"
  /\ \/ /\ Pooled(r)
        /\ sender' = [sender EXCEPT ![s] = "sent"]
        /\ UNCHANGED <<dialed, connVars>>
     \/ /\ ~Pooled(r)
        /\ \E c \in Conns : Connect(c, r, "dialed") /\ dialed' = [dialed EXCEPT ![s] = c]
        /\ sender' = [sender EXCEPT ![s] = "put"]
     \/ /\ ~Pooled(r)
        /\ sender' = [sender EXCEPT ![s] = "failed"]
        /\ UNCHANGED <<dialed, connVars>>
  /\ UNCHANGED <<cancel, listenVars, serveVars, disposer, pipeVars, errs, panic>>

\* Put: Send fails if the pool refuses the connection, which stays open.
SendPut(s) ==
  /\ ~panic
  /\ sender[s] = "put"
  /\ LET c == dialed[s] IN
     \/ /\ cancel \/ Pooled(remote[c])
        /\ sender' = [sender EXCEPT ![s] = "refused"]
        /\ place' = [place EXCEPT ![c] = "leaked"]
     \/ /\ ~cancel /\ ~Pooled(remote[c])
        /\ sender' = [sender EXCEPT ![s] = "sent"]
        /\ place' = [place EXCEPT ![c] = "pooled"]
  /\ dialed' = [dialed EXCEPT ![s] = NoConn]
  /\ UNCHANGED <<cancel, listenVars, serveVars, disposer, pipeVars, errs, remote, panic>>

-----------------------------------------------------------------------------
(***************************************************************************)
(* The shutdown.                                                           *)
(***************************************************************************)

Cancel ==
  /\ ~panic /\ ~cancel
  /\ cancel' = TRUE
  /\ UNCHANGED <<listenVars, serveVars, disposer, pipeVars, errs, connVars, sendVars, panic>>

\* Serve returns, and hwg.Done is called
WgDone(l) ==
  /\ ~panic
  /\ accept[l] = "ended" /\ ~waited[l]
  /\ waited' = [waited EXCEPT ![l] = TRUE]
  /\ UNCHANGED <<cancel, store, accept, port, canceled, socket, holds, serveVars, disposer,
                 pipeVars, errs, connVars, sendVars, panic>>

\* dispose: DropAll
DropAll ==
  /\ ~panic
  /\ cancel /\ disposer = "idle"
  /\ disposer' = "waiting"
  /\ drop({store[p] : p \in Ports} \ {NoListener})
  /\ UNCHANGED <<cancel, accept, port, waited, holds, serveVars, pipeVars, errs, connVars,
                 sendVars, panic>>

\* dispose: hwg.Wait, then hconns, herrs and done are closed
PoolCloses ==
  /\ ~panic
  /\ disposer = "waiting"
  /\ \A l \in Listeners : Served(l) => waited[l]
  /\ disposer' = "closed"
  /\ UNCHANGED <<cancel, listenVars, serveVars, pipeVars, errs, connVars, sendVars, panic>>

\* The connection pool is done, and the layer closes errs.
ErrsClose ==
  /\ ~panic
  /\ cancel /\ errs = "open"
  /\ errs' = "closed"
  /\ UNCHANGED <<cancel, listenVars, serveVars, disposer, pipeVars, connVars, sendVars, panic>>

-----------------------------------------------------------------------------
AnyPort == CHOOSE p \in Ports : TRUE
AnyRemote == CHOOSE r \in Remotes : TRUE
Nothing == [listener |-> NoListener, conn |-> NoConn]

Init ==
  /\ cancel = FALSE
  /\ store = [p \in Ports |-> NoListener]
  /\ accept = [l \in Listeners |-> "new"]
  /\ port = [l \in Listeners |-> AnyPort]
  /\ canceled = [l \in Listeners |-> FALSE]
  /\ socket = [l \in Listeners |-> "none"]
  /\ waited = [l \in Listeners |-> FALSE]
  /\ holds = [l \in Listeners |-> NoConn]
  /\ server = "select" /\ inHand = Nothing
  /\ disposer = "idle"
  /\ pipe = "select" /\ piped = NoConn
  /\ errs = "open"
  /\ place = [c \in Conns |-> "none"]
  /\ remote = [c \in Conns |-> AnyRemote]
  /\ sender = [s \in Senders |-> "idle"]
  /\ dialed = [s \in Senders |-> NoConn]
  /\ panic = FALSE

Next ==
  \/ \E l \in Listeners :
       \/ \E p \in Ports : Listen(l, p)
       \/ ListenPut(l)
       \/ \E c \in Conns, r \in Remotes : Accept(l, c, r)
       \/ ListenerFails(l)
       \/ AcceptFails(l)
       \/ AcceptOutputs(l)
       \/ AcceptReports(l)
       \/ WgDone(l)
  \/ ServerDrop
  \/ ServerPassConn
  \/ ServerPassErr
  \/ ServerStops
  \/ PipePut
  \/ PipeEnds
  \/ \E c \in Conns : ConnLeaves(c)
  \/ \E s \in Senders : (\E r \in Remotes : Send(s, r)) \/ SendPut(s)
  \/ Cancel
  \/ DropAll
  \/ PoolCloses
  \/ ErrsClose

Spec == Init /\ [][Next]_vars

\* Go runs every goroutine that can run.  Nothing is assumed of the peers and the
\* callers.
Fairness ==
  /\ \A l \in Listeners :
       /\ WF_vars(ListenPut(l)) /\ WF_vars(AcceptFails(l))
       /\ WF_vars(AcceptOutputs(l)) /\ WF_vars(AcceptReports(l)) /\ WF_vars(WgDone(l))
  /\ WF_vars(ServerDrop) /\ WF_vars(ServerPassConn) /\ WF_vars(ServerPassErr)
  /\ WF_vars(ServerStops) /\ WF_vars(PipePut) /\ WF_vars(PipeEnds)
  /\ WF_vars(DropAll) /\ WF_vars(PoolCloses) /\ WF_vars(ErrsClose)

FairSpec == Spec /\ Fairness

-----------------------------------------------------------------------------
TypeOK ==
  /\ cancel \in BOOLEAN /\ panic \in BOOLEAN
  /\ store \in [Ports -> Listeners \cup {NoListener}]
  /\ accept \in [Listeners -> {"new", "checked", "refused", "accept", "output", "error",
                               "ended"}]
  /\ port \in [Listeners -> Ports]
  /\ canceled \in [Listeners -> BOOLEAN]
  /\ socket \in [Listeners -> {"none", "open", "broken", "closed"}]
  /\ waited \in [Listeners -> BOOLEAN]
  /\ holds \in [Listeners -> Conns \cup {NoConn}]
  /\ server \in {"select", "pass", "drop", "errs", "stopped"}
  /\ inHand \in [listener : Listeners \cup {NoListener}, conn : Conns \cup {NoConn}]
  /\ disposer \in {"idle", "waiting", "closed"}
  /\ pipe \in {"select", "put", "ended"} /\ piped \in Conns \cup {NoConn}
  /\ pipe = "put" <=> piped # NoConn
  /\ errs \in {"open", "closed"}
  /\ place \in [Conns -> {"none", "accepted", "piped", "dialed", "pooled", "closed", "leaked"}]
  /\ remote \in [Conns -> Remotes]
  /\ sender \in [Senders -> {"idle", "put", "sent", "failed", "refused"}]
  /\ dialed \in [Senders -> Conns \cup {NoConn}]

\* While the protocol runs, the error of a listener drops this listener, although
\* serveHandlers goes by the key: the accept loop reports once and ends.
ErrorDropsItsOwn ==
  server = "drop" /\ ~cancel => store[port[inHand.listener]] = inHand.listener

\* An accepted connection has one owner on its way to the pool: its accept loop,
\* serveHandlers or pipePools; until cancel none is dropped on the way.
OneOwner ==
  \A c \in Conns :
    place[c] \in {"accepted", "piped"} /\ ~cancel =>
      (IF \E l \in Listeners : holds[l] = c THEN 1 ELSE 0)
      + (IF server = "pass" /\ inHand.conn = c THEN 1 ELSE 0)
      + (IF piped = c THEN 1 ELSE 0) = 1

\* Every accepted connection is put into the connection pool or closed.
AcceptedSettles ==
  \A c \in Conns : place[c] = "accepted" ~> place[c] \in {"pooled", "closed"} \/ cancel

\* A listener whose socket fails leaves the pool, so that Listen can take its place.
BrokenListenerLeaves ==
  \A l \in Listeners : socket[l] = "broken" ~> canceled[l] \/ cancel

\* Listen on a socket that could be opened succeeds while the protocol runs.
ListenSucceeds ==
  [][\A l \in Listeners : ListenPut(l) /\ ~cancel => accept'[l] # "refused"]_vars

\* Send uses the connection in the pool or makes one: while the protocol runs it
\* fails only if the peer cannot be dialed.
FindsOrCreates ==
  [][\A s \in Senders : SendPut(s) /\ ~cancel => sender'[s] # "refused"]_vars

\* A Listen that passed its check of cancel has stored its listener after DropAll.
LateListen == \E l \in Listeners : disposer # "idle" /\ Served(l) /\ ~canceled[l]

\* The shutdown does not panic, a late Listen aside.
NoPanic == ~panic \/ LateListen

\* A canceled listener pool completes its work, a late Listen aside: Done resolves.
StopsGracefully == cancel ~> Closed \/ LateListen \/ panic
=============================================================================
