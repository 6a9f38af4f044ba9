------------------------ MODULE TransportLayerProofs ------------------------
(***************************************************************************)
(* Proofs about the TCP protocol, for any number of listeners, ports,      *)
(* connections, remote addresses and senders, and about the transport      *)
(* layer over it, for any protocols, ports and calls of Listen and Send.   *)
(* Each has a specification of its own.                                    *)
(*                                                                         *)
(* TCP protocol.  ErrorDropsItsOwn needs StoreInv: while the protocol runs *)
(* a listener is canceled only by its own error, which is the last thing   *)
(* its accept loop does.  OneOwner needs OwnerInv, which says where the    *)
(* connection of each goroutine is.                                        *)
(*                                                                         *)
(* Transport layer.  The two invariants rest on different parts of the     *)
(* state.  For the end of the layer, EndInv: a protocol that runs is in    *)
(* the store, so dispose waits for it or it is late.  For the port in Via, *)
(* PortInv: whatever listenPorts holds is a socket, or was one that has    *)
(* broken since, and every network whose Listen has returned has an entry, *)
(* until the layer is canceled.                                            *)
(***************************************************************************)
EXTENDS TransportLayer, TcpProtocol, TLAPS

StoreInv ==
  /\ disposer # "idle" => cancel
  /\ \A p \in Ports : store[p] # NoListener => Served(store[p]) /\ port[store[p]] = p
  /\ \A l \in Listeners : Served(l) => (store[port[l]] = l <=> ~canceled[l])
  /\ \A l \in Listeners : canceled[l] => Served(l)
  /\ \A l \in Listeners : canceled[l] /\ ~cancel => accept[l] = "ended"
  /\ server = "drop" => inHand.listener \in Listeners
  /\ server = "drop" /\ ~cancel =>
       accept[inHand.listener] = "ended" /\ store[port[inHand.listener]] = inHand.listener

\* The connection of an accept loop: it is accepted, and no other loop has it.
HoldInv ==
  /\ \A l \in Listeners : holds[l] # NoConn <=> accept[l] = "output"
  /\ \A l \in Listeners : accept[l] = "output" => place[holds[l]] = "accepted"
  /\ \A l, m \in Listeners : accept[l] = "output" /\ holds[l] = holds[m] => l = m

\* The connection of serveHandlers: no accept loop has it any more.
HandInv ==
  server = "pass" =>
    /\ inHand.conn \in Conns /\ place[inHand.conn] = "accepted"
    /\ \A l \in Listeners : holds[l] # inHand.conn

\* The connection of pipePools.
PipedInv ==
  /\ pipe = "put" => place[piped] = "piped"
  /\ \A c \in Conns : place[c] = "piped" => piped = c

\* Until cancel an accepted connection is with an accept loop or with serveHandlers.
AcceptedInv ==
  \A c \in Conns : place[c] = "accepted" /\ ~cancel =>
    (\E l \in Listeners : holds[l] = c) \/ (server = "pass" /\ inHand.conn = c)

\* The connections of the senders.
SendInv ==
  /\ \A s \in Senders : sender[s] = "put" => dialed[s] \in Conns /\ place[dialed[s]] = "dialed"
  /\ \A s, t \in Senders :
       sender[s] = "put" /\ sender[t] = "put" /\ dialed[s] = dialed[t] => s = t

OwnerInv == HoldInv /\ HandInv /\ PipedInv /\ AcceptedInv /\ SendInv

-----------------------------------------------------------------------------
\* Every step keeps the types.
LEMMA TypeStep == TypeOK /\ OwnerInv /\ [Next]_vars => TypeOK'
<1> SUFFICES ASSUME TypeOK, OwnerInv, [Next]_vars PROVE TypeOK'
  OBVIOUS
<1> USE ConstantsAssumption DEF TypeOK, listenVars, serveVars, pipeVars, connVars, sendVars
<1>1. ASSUME NEW l \in Listeners, NEW p \in Ports, Listen(l, p) PROVE TypeOK'
  BY <1>1 DEF Listen
<1>2. ASSUME NEW l \in Listeners, ListenPut(l) PROVE TypeOK'
  BY <1>2 DEF ListenPut
<1>3. ASSUME NEW l \in Listeners, NEW c \in Conns, NEW r \in Remotes, Accept(l, c, r)
      PROVE TypeOK'
  BY <1>3 DEF Accept, Connect
<1>4. ASSUME NEW l \in Listeners, ListenerFails(l) PROVE TypeOK'
  BY <1>4 DEF ListenerFails
<1>5. ASSUME NEW l \in Listeners, AcceptFails(l) PROVE TypeOK'
  BY <1>5 DEF AcceptFails
<1>6. ASSUME NEW l \in Listeners, AcceptOutputs(l) PROVE TypeOK'
  <2>a. panic' \in BOOLEAN
    BY <1>6, Zenon DEF AcceptOutputs
  <2>b. /\ accept' = [accept EXCEPT ![l] = "accept"] /\ holds' = [holds EXCEPT ![l] = NoConn]
        /\ UNCHANGED <<cancel, store, port, canceled, socket, waited, disposer, pipeVars, errs,
                       connVars, sendVars>>
    BY <1>6 DEF AcceptOutputs
  <2>1. CASE UNCHANGED serveVars
    BY <2>a, <2>b, <2>1
  <2>2. CASE server' = "pass" /\ inHand' = [listener |-> l, conn |-> holds[l]]
    <3>1. inHand' \in [listener : Listeners \cup {NoListener}, conn : Conns \cup {NoConn}]
      BY <2>2
    <3>. QED
      BY <2>a, <2>b, <2>2, <3>1
  <2>. QED
    BY <1>6, <2>1, <2>2 DEF AcceptOutputs
<1>7. ASSUME NEW l \in Listeners, AcceptReports(l) PROVE TypeOK'
  <2>a. panic' \in BOOLEAN
    BY <1>7, Zenon DEF AcceptReports, Report
  <2>b. /\ accept' = [accept EXCEPT ![l] = "ended"]
        /\ socket' = [socket EXCEPT ![l] = "closed"]
        /\ UNCHANGED <<cancel, store, port, canceled, waited, holds, disposer, pipeVars, errs,
                       connVars, sendVars>>
    BY <1>7 DEF AcceptReports
  <2>1. CASE UNCHANGED serveVars
    BY <2>a, <2>b, <2>1
  <2>2. CASE TakeErr(l)
    <3>1. inHand' \in [listener : Listeners \cup {NoListener}, conn : Conns \cup {NoConn}]
      BY <2>2 DEF TakeErr
    <3>2. server' \in {"select", "drop"}
      BY <2>2 DEF TakeErr
    <3>. QED
      BY <2>a, <2>b, <3>1, <3>2
  <2>. QED
    BY <1>7, <2>1, <2>2 DEF AcceptReports, Report
<1>8. ASSUME NEW l \in Listeners, WgDone(l) PROVE TypeOK'
  BY <1>8 DEF WgDone
<1>9. CASE ServerDrop
  BY <1>9 DEF ServerDrop, drop
<1>10. CASE ServerPassConn
  <2>1. inHand.conn \in Conns
    BY <1>10 DEF ServerPassConn, OwnerInv, HandInv
  <2>2. place' \in [Conns -> {"none", "accepted", "piped", "dialed", "pooled", "closed",
                              "leaked"}]
    BY <1>10 DEF ServerPassConn
  <2>3. pipe' \in {"select", "put", "ended"} /\ piped' \in Conns \cup {NoConn}
    BY <1>10, <2>1 DEF ServerPassConn
  <2>4. pipe' = "put" <=> piped' # NoConn
    BY <1>10, <2>1 DEF ServerPassConn
  <2>5. server' \in {"select", "pass", "drop", "errs", "stopped"} /\ panic' \in BOOLEAN
    BY <1>10, Zenon DEF ServerPassConn
  <2>6. UNCHANGED <<cancel, listenVars, inHand, disposer, errs, remote, sendVars>>
    BY <1>10 DEF ServerPassConn
  <2>. QED
    BY <2>2, <2>3, <2>4, <2>5, <2>6
<1>11. CASE ServerPassErr
  <2>1. panic' \in BOOLEAN
    BY <1>11, Zenon DEF ServerPassErr
  <2>2. server' \in {"select", "pass", "drop", "errs", "stopped"}
    BY <1>11 DEF ServerPassErr
  <2>3. UNCHANGED <<cancel, listenVars, inHand, disposer, pipeVars, errs, connVars, sendVars>>
    BY <1>11 DEF ServerPassErr
  <2>. QED
    BY <2>1, <2>2, <2>3
<1>12. CASE ServerStops
  BY <1>12 DEF ServerStops
<1>13. CASE PipePut
  BY <1>13 DEF PipePut
<1>14. CASE PipeEnds
  BY <1>14 DEF PipeEnds
<1>15. ASSUME NEW c \in Conns, ConnLeaves(c) PROVE TypeOK'
  BY <1>15 DEF ConnLeaves
<1>16. ASSUME NEW s \in Senders, NEW r \in Remotes, Send(s, r) PROVE TypeOK'
  BY <1>16 DEF Send, Connect
<1>17. ASSUME NEW s \in Senders, SendPut(s) PROVE TypeOK'
  <2>1. dialed[s] \in Conns
    BY <1>17 DEF SendPut, OwnerInv, SendInv
  <2>2. sender' \in [Senders -> {"idle", "put", "sent", "failed", "refused"}]
    BY <1>17 DEF SendPut
  <2>3. place' \in [Conns -> {"none", "accepted", "piped", "dialed", "pooled", "closed",
                              "leaked"}]
    BY <1>17, <2>1 DEF SendPut
  <2>4. dialed' \in [Senders -> Conns \cup {NoConn}]
    BY <1>17 DEF SendPut
  <2>5. UNCHANGED <<cancel, listenVars, serveVars, disposer, pipeVars, errs, remote, panic>>
    BY <1>17 DEF SendPut
  <2>. QED
    BY <2>2, <2>3, <2>4, <2>5
<1>18. CASE Cancel
  BY <1>18 DEF Cancel
<1>19. CASE DropAll
  BY <1>19 DEF DropAll, drop
<1>20. CASE PoolCloses
  BY <1>20 DEF PoolCloses
<1>21. CASE ErrsClose
  BY <1>21 DEF ErrsClose
<1>22. CASE UNCHANGED vars
  BY <1>22 DEF vars
<1> HIDE DEF TypeOK
<1>. QED
  BY <1>1, <1>2, <1>3, <1>4, <1>5, <1>6, <1>7, <1>8, <1>9, <1>10, <1>11,
     <1>12, <1>13, <1>14, <1>15, <1>16, <1>17, <1>18, <1>19, <1>20, <1>21, <1>22 DEF Next

\* Every step keeps the store and the listeners together.
LEMMA StoreStep == TypeOK /\ StoreInv /\ [Next]_vars => StoreInv'
<1> SUFFICES ASSUME TypeOK, StoreInv, [Next]_vars PROVE StoreInv'
  BY Zenon
<1> USE ConstantsAssumption DEF TypeOK, StoreInv, Served, Closed, listenVars, serveVars, pipeVars, connVars, sendVars
<1>1. ASSUME NEW l \in Listeners, NEW p \in Ports, Listen(l, p) PROVE StoreInv'
  BY <1>1 DEF Listen
<1>2. ASSUME NEW l \in Listeners, ListenPut(l) PROVE StoreInv'
  BY <1>2 DEF ListenPut
<1>3. ASSUME NEW l \in Listeners, NEW c \in Conns, NEW r \in Remotes, Accept(l, c, r)
      PROVE StoreInv'
  BY <1>3 DEF Accept, Connect
<1>4. ASSUME NEW l \in Listeners, ListenerFails(l) PROVE StoreInv'
  BY <1>4 DEF ListenerFails
<1>5. ASSUME NEW l \in Listeners, AcceptFails(l) PROVE StoreInv'
  BY <1>5 DEF AcceptFails
<1>6. ASSUME NEW l \in Listeners, AcceptOutputs(l) PROVE StoreInv'
  BY <1>6 DEF AcceptOutputs
<1>7. ASSUME NEW l \in Listeners, AcceptReports(l) PROVE StoreInv'
  BY <1>7 DEF AcceptReports, Report, TakeErr
<1>8. ASSUME NEW l \in Listeners, WgDone(l) PROVE StoreInv'
  BY <1>8, Zenon DEF WgDone
<1>9. CASE ServerDrop
  <2> DEFINE ls == {store[port[inHand.listener]]} \ {NoListener}
  <2>1. ls \subseteq Listeners /\ UNCHANGED <<port, accept, inHand, cancel>>
    BY <1>9 DEF ServerDrop
  <2>2. /\ \A l \in Listeners : canceled'[l] <=> canceled[l] \/ l \in ls
        /\ \A p \in Ports : store'[p] = IF store[p] \in ls THEN NoListener ELSE store[p]
    BY <1>9, Zenon DEF ServerDrop, drop
  <2>3. \A l \in ls : Served(l)
    BY <1>9 DEF ServerDrop
  <2>4. server' = "errs" /\ UNCHANGED disposer
        /\ (~cancel => ls = {inHand.listener} /\ accept[inHand.listener] = "ended")
    BY <1>9 DEF ServerDrop
  <2> HIDE DEF ls
  <2>. QED
    BY <2>1, <2>2, <2>3, <2>4
<1>10. CASE ServerPassConn
  BY <1>10 DEF ServerPassConn
<1>11. CASE ServerPassErr
  BY <1>11 DEF ServerPassErr
<1>12. CASE ServerStops
  BY <1>12 DEF ServerStops
<1>13. CASE PipePut
  BY <1>13 DEF PipePut
<1>14. CASE PipeEnds
  BY <1>14 DEF PipeEnds
<1>15. ASSUME NEW c \in Conns, ConnLeaves(c) PROVE StoreInv'
  BY <1>15, Zenon DEF ConnLeaves
<1>16. ASSUME NEW s \in Senders, NEW r \in Remotes, Send(s, r) PROVE StoreInv'
  BY <1>16, Zenon DEF Send, Connect
<1>17. ASSUME NEW s \in Senders, SendPut(s) PROVE StoreInv'
  BY <1>17 DEF SendPut
<1>18. CASE Cancel
  BY <1>18, Zenon DEF Cancel
<1>19. CASE DropAll
  <2> DEFINE ls == {store[p] : p \in Ports} \ {NoListener}
  <2>1. ls \subseteq Listeners /\ UNCHANGED <<port, accept, inHand, cancel>>
    BY <1>19 DEF DropAll
  <2>2. /\ \A l \in Listeners : canceled'[l] <=> canceled[l] \/ l \in ls
        /\ \A p \in Ports : store'[p] = IF store[p] \in ls THEN NoListener ELSE store[p]
    BY <1>19, Zenon DEF DropAll, drop
  <2>3. \A l \in ls : Served(l)
    BY <1>19 DEF DropAll
  <2>4. cancel /\ UNCHANGED server
    BY <1>19 DEF DropAll
  <2> HIDE DEF ls
  <2>. QED
    BY <2>1, <2>2, <2>3, <2>4
<1>20. CASE PoolCloses
  BY <1>20, Zenon DEF PoolCloses
<1>21. CASE ErrsClose
  BY <1>21, Zenon DEF ErrsClose
<1>22. CASE UNCHANGED vars
  BY <1>22 DEF vars
<1> HIDE DEF StoreInv, TypeOK
<1>. QED
  BY <1>1, <1>2, <1>3, <1>4, <1>5, <1>6, <1>7, <1>8, <1>9, <1>10, <1>11,
     <1>12, <1>13, <1>14, <1>15, <1>16, <1>17, <1>18, <1>19, <1>20, <1>21, <1>22 DEF Next

\* Every step keeps each connection with its owner.
LEMMA OwnerStep == TypeOK /\ StoreInv /\ OwnerInv /\ [Next]_vars => OwnerInv'
<1> SUFFICES ASSUME TypeOK, StoreInv, OwnerInv, [Next]_vars PROVE OwnerInv'
  OBVIOUS
<1>a. /\ accept \in [Listeners -> {"new", "checked", "refused", "accept", "output",
                                   "error", "ended"}]
      /\ holds \in [Listeners -> Conns \cup {NoConn}]
      /\ place \in [Conns -> {"none", "accepted", "piped", "dialed", "pooled", "closed",
                              "leaked"}]
      /\ piped \in Conns \cup {NoConn} /\ (pipe = "put" <=> piped # NoConn)
      /\ sender \in [Senders -> {"idle", "put", "sent", "failed", "refused"}]
      /\ dialed \in [Senders -> Conns \cup {NoConn}]
      /\ NoConn \notin Conns
  BY ConstantsAssumption DEF TypeOK
<1>b. HoldInv /\ HandInv /\ PipedInv /\ AcceptedInv /\ SendInv
  BY DEF OwnerInv
<1>c. UNCHANGED <<accept, holds, place>> => HoldInv'
  BY <1>b DEF HoldInv
<1>d. UNCHANGED <<server, inHand, holds, place>> => HandInv'
  BY <1>b DEF HandInv
<1>e. UNCHANGED <<pipe, piped, place>> => PipedInv'
  BY <1>b DEF PipedInv
<1>f. UNCHANGED <<cancel, holds, server, inHand, place>> => AcceptedInv'
  BY <1>b DEF AcceptedInv
<1>g. UNCHANGED <<sender, dialed, place>> => SendInv'
  BY <1>b DEF SendInv
<1> USE DEF listenVars, serveVars, pipeVars, connVars, sendVars
<1>1. ASSUME NEW l \in Listeners, NEW p \in Ports, Listen(l, p) PROVE OwnerInv'
  <2>1. HoldInv'
    BY <1>1, <1>a, <1>b DEF Listen, HoldInv
  <2>. QED
    BY <1>1, <2>1, <1>d, <1>e, <1>f, <1>g DEF Listen, OwnerInv
<1>2. ASSUME NEW l \in Listeners, ListenPut(l) PROVE OwnerInv'
  <2>1. HoldInv'
    BY <1>2, <1>a, <1>b DEF ListenPut, HoldInv
  <2>. QED
    BY <1>2, <2>1, <1>d, <1>e, <1>f, <1>g DEF ListenPut, OwnerInv
<1>3. ASSUME NEW l \in Listeners, NEW c \in Conns, NEW r \in Remotes, Accept(l, c, r)
      PROVE OwnerInv'
  <2>1. HoldInv'
    BY <1>3, <1>a, <1>b DEF Accept, Connect, HoldInv
  <2>2. HandInv'
    BY <1>3, <1>a, <1>b DEF Accept, Connect, HandInv
  <2>3. PipedInv'
    BY <1>3, <1>a, <1>b DEF Accept, Connect, PipedInv
  <2>4. AcceptedInv'
    BY <1>3, <1>a, <1>b DEF Accept, Connect, AcceptedInv, HoldInv
  <2>5. SendInv'
    BY <1>3, <1>a, <1>b DEF Accept, Connect, SendInv
  <2>. QED
    BY <2>1, <2>2, <2>3, <2>4, <2>5 DEF OwnerInv
<1>4. ASSUME NEW l \in Listeners, ListenerFails(l) PROVE OwnerInv'
  BY <1>4, <1>c, <1>d, <1>e, <1>f, <1>g DEF ListenerFails, OwnerInv
<1>5. ASSUME NEW l \in Listeners, AcceptFails(l) PROVE OwnerInv'
  <2>1. HoldInv'
    BY <1>5, <1>a, <1>b DEF AcceptFails, HoldInv
  <2>. QED
    BY <1>5, <2>1, <1>d, <1>e, <1>f, <1>g DEF AcceptFails, OwnerInv
<1>6. ASSUME NEW l \in Listeners, AcceptOutputs(l) PROVE OwnerInv'
  <2>1. HoldInv'
    BY <1>6, <1>a, <1>b, Zenon DEF AcceptOutputs, HoldInv
  <2>2. HandInv'
    BY <1>6, <1>a, <1>b DEF AcceptOutputs, HandInv, HoldInv
  <2>3. AcceptedInv'
    BY <1>6, <1>a, <1>b DEF AcceptOutputs, AcceptedInv, HoldInv, StoreInv, Closed
  <2>. QED
    BY <1>6, <2>1, <2>2, <2>3, <1>e, <1>g, Zenon DEF AcceptOutputs, OwnerInv
<1>7. ASSUME NEW l \in Listeners, AcceptReports(l) PROVE OwnerInv'
  <2>1. HoldInv'
    BY <1>7, <1>a, <1>b, Zenon DEF AcceptReports, HoldInv
  <2>2. HandInv'
    BY <1>7, <1>a, <1>b, Zenon DEF AcceptReports, HandInv, Report, TakeErr
  <2>3. AcceptedInv'
    BY <1>7, <1>a, <1>b, Zenon DEF AcceptReports, AcceptedInv, Report, TakeErr
  <2>. QED
    BY <1>7, <2>1, <2>2, <2>3, <1>e, <1>g DEF AcceptReports, OwnerInv
<1>8. ASSUME NEW l \in Listeners, WgDone(l) PROVE OwnerInv'
  BY <1>8, <1>c, <1>d, <1>e, <1>f, <1>g, Zenon DEF WgDone, OwnerInv
<1>9. CASE ServerDrop
  <2>1. HandInv'
    BY <1>9, <1>a, <1>b, Zenon DEF ServerDrop, HandInv
  <2>2. AcceptedInv'
    BY <1>9, <1>a, <1>b DEF ServerDrop, AcceptedInv
  <2>. QED
    BY <1>9, <2>1, <2>2, <1>c, <1>e, <1>g, Zenon DEF ServerDrop, OwnerInv
<1>10. CASE ServerPassConn
  <2>1. HoldInv'
    BY <1>10, <1>a, <1>b DEF ServerPassConn, HoldInv, HandInv
  <2>2. HandInv'
    BY <1>10, <1>a, <1>b DEF ServerPassConn, HandInv
  <2>3. PipedInv'
    BY <1>10, <1>a, <1>b DEF ServerPassConn, PipedInv, HandInv
  <2>4. AcceptedInv'
    BY <1>10, <1>a, <1>b, Zenon DEF ServerPassConn, AcceptedInv, HandInv
  <2>5. SendInv'
    BY <1>10, <1>a, <1>b DEF ServerPassConn, SendInv, HandInv
  <2>. QED
    BY <2>1, <2>2, <2>3, <2>4, <2>5, Zenon DEF OwnerInv
<1>11. CASE ServerPassErr
  <2>1. HandInv'
    BY <1>11, <1>a, <1>b, Zenon DEF ServerPassErr, HandInv
  <2>2. AcceptedInv'
    BY <1>11, <1>a, <1>b DEF ServerPassErr, AcceptedInv
  <2>. QED
    BY <1>11, <2>1, <2>2, <1>c, <1>e, <1>g, Zenon DEF ServerPassErr, OwnerInv
<1>12. CASE ServerStops
  <2>1. HandInv'
    BY <1>12, <1>a, <1>b, Zenon DEF ServerStops, HandInv
  <2>2. AcceptedInv'
    BY <1>12, <1>a, <1>b, Zenon DEF ServerStops, AcceptedInv
  <2>. QED
    BY <1>12, <2>1, <2>2, <1>c, <1>e, <1>g, Zenon DEF ServerStops, OwnerInv
<1>13. CASE PipePut
  <2>1. HoldInv'
    BY <1>13, <1>a, <1>b DEF PipePut, HoldInv, PipedInv
  <2>2. HandInv'
    BY <1>13, <1>a, <1>b DEF PipePut, HandInv, PipedInv
  <2>3. PipedInv'
    BY <1>13, <1>a, <1>b, Zenon DEF PipePut, PipedInv
  <2>4. AcceptedInv'
    BY <1>13, <1>a, <1>b, Zenon DEF PipePut, AcceptedInv
  <2>5. SendInv'
    BY <1>13, <1>a, <1>b DEF PipePut, SendInv, PipedInv
  <2>. QED
    BY <2>1, <2>2, <2>3, <2>4, <2>5 DEF OwnerInv
<1>14. CASE PipeEnds
  <2>1. PipedInv'
    BY <1>14, <1>a, <1>b DEF PipeEnds, PipedInv
  <2>. QED
    BY <1>14, <2>1, <1>c, <1>d, <1>f, <1>g DEF PipeEnds, OwnerInv
<1>15. ASSUME NEW c \in Conns, ConnLeaves(c) PROVE OwnerInv'
  <2>1. HoldInv'
    BY <1>15, <1>a, <1>b DEF ConnLeaves, HoldInv
  <2>2. HandInv'
    BY <1>15, <1>a, <1>b, Zenon DEF ConnLeaves, HandInv
  <2>3. PipedInv'
    BY <1>15, <1>a, <1>b, Zenon DEF ConnLeaves, PipedInv
  <2>4. AcceptedInv'
    BY <1>15, <1>a, <1>b, Zenon DEF ConnLeaves, AcceptedInv
  <2>5. SendInv'
    BY <1>15, <1>a, <1>b DEF ConnLeaves, SendInv
  <2>. QED
    BY <2>1, <2>2, <2>3, <2>4, <2>5, Zenon DEF OwnerInv
<1>16. ASSUME NEW s \in Senders, NEW r \in Remotes, Send(s, r) PROVE OwnerInv'
  <2>1. HoldInv'
    BY <1>16, <1>a, <1>b DEF Send, Connect, HoldInv
  <2>2. HandInv'
    BY <1>16, <1>a, <1>b, Zenon DEF Send, Connect, HandInv
  <2>3. PipedInv'
    BY <1>16, <1>a, <1>b DEF Send, Connect, PipedInv
  <2>4. AcceptedInv'
    BY <1>16, <1>a, <1>b, Zenon DEF Send, Connect, AcceptedInv
  <2>5. SendInv'
    BY <1>16, <1>a, <1>b DEF Send, Connect, SendInv
  <2>. QED
    BY <2>1, <2>2, <2>3, <2>4, <2>5, Zenon DEF OwnerInv
<1>17. ASSUME NEW s \in Senders, SendPut(s) PROVE OwnerInv'
  <2>1. HoldInv'
    BY <1>17, <1>a, <1>b DEF SendPut, HoldInv, SendInv
  <2>2. HandInv'
    BY <1>17, <1>a, <1>b, Zenon DEF SendPut, HandInv, SendInv
  <2>3. PipedInv'
    BY <1>17, <1>a, <1>b, Zenon DEF SendPut, PipedInv, SendInv
  <2>4. AcceptedInv'
    BY <1>17, <1>a, <1>b DEF SendPut, AcceptedInv, SendInv
  <2>5. SendInv'
    BY <1>17, <1>a, <1>b DEF SendPut, SendInv
  <2>. QED
    BY <2>1, <2>2, <2>3, <2>4, <2>5, Zenon DEF OwnerInv
<1>18. CASE Cancel
  <2>1. AcceptedInv'
    BY <1>18, <1>a, <1>b, Zenon DEF Cancel, AcceptedInv
  <2>. QED
    BY <1>18, <2>1, <1>c, <1>d, <1>e, <1>g, Zenon DEF Cancel, OwnerInv
<1>19. CASE DropAll
  BY <1>19, <1>c, <1>d, <1>e, <1>f, <1>g, Zenon DEF DropAll, OwnerInv
<1>20. CASE PoolCloses
  BY <1>20, <1>c, <1>d, <1>e, <1>f, <1>g, Zenon DEF PoolCloses, OwnerInv
<1>21. CASE ErrsClose
  BY <1>21, <1>c, <1>d, <1>e, <1>f, <1>g, Zenon DEF ErrsClose, OwnerInv
<1>22. CASE UNCHANGED vars
  BY <1>22, <1>c, <1>d, <1>e, <1>f, <1>g DEF vars, OwnerInv
<1>. QED
  BY <1>1, <1>2, <1>3, <1>4, <1>5, <1>6, <1>7, <1>8, <1>9, <1>10, <1>11,
     <1>12, <1>13, <1>14, <1>15, <1>16, <1>17, <1>18, <1>19, <1>20, <1>21, <1>22 DEF Next

-----------------------------------------------------------------------------
IInv == TypeOK /\ StoreInv /\ OwnerInv

\* The initial states satisfy the invariant, and every step keeps it.
LEMMA Inductive == Spec => []IInv
<1>1. Init => IInv
  <2> SUFFICES ASSUME Init PROVE IInv
    OBVIOUS
  <2>1. AnyPort \in Ports /\ AnyRemote \in Remotes
    BY ConstantsAssumption DEF AnyPort, AnyRemote
  <2>2. TypeOK
    BY <2>1, ConstantsAssumption, Zenon DEF Init, TypeOK, Nothing
  <2>3. StoreInv
    BY <2>1, ConstantsAssumption, Zenon DEF Init, StoreInv, Served
  <2>4. OwnerInv
    BY ConstantsAssumption DEF Init, OwnerInv, HoldInv, HandInv, PipedInv, AcceptedInv, SendInv
  <2>. QED
    BY <2>2, <2>3, <2>4 DEF IInv
<1>2. IInv /\ [Next]_vars => IInv'
  BY TypeStep, StoreStep, OwnerStep DEF IInv
<1>. QED
  BY <1>1, <1>2, PTL DEF Spec

\* The types of the protocol.
THEOREM TypeCorrect == Spec => []TypeOK
<1>1. IInv => TypeOK
  BY Zenon DEF IInv
<1>. QED
  BY <1>1, Inductive, PTL

\* Although serveHandlers goes by the key, the error of a listener drops this
\* listener and no other while the protocol runs.
THEOREM ListenerErrorsAreOwn == Spec => []ErrorDropsItsOwn
<1>1. IInv => ErrorDropsItsOwn
  BY Zenon DEF IInv, StoreInv, ErrorDropsItsOwn
<1>. QED
  BY <1>1, Inductive, PTL

\* Until cancel an accepted connection is in the hands of exactly one of its accept
\* loop, serveHandlers and pipePools until pipePools has put or closed it.
THEOREM AcceptedHasOneOwner == Spec => []OneOwner
<1>1. IInv => OneOwner
  <2> SUFFICES ASSUME IInv, NEW c \in Conns, place[c] \in {"accepted", "piped"}, ~cancel
               PROVE (IF \E l \in Listeners : holds[l] = c THEN 1 ELSE 0)
                     + (IF server = "pass" /\ inHand.conn = c THEN 1 ELSE 0)
                     + (IF piped = c THEN 1 ELSE 0) = 1
    BY Zenon DEF OneOwner
  <2>a. /\ HoldInv /\ HandInv /\ PipedInv /\ AcceptedInv
        /\ holds \in [Listeners -> Conns \cup {NoConn}] /\ NoConn \notin Conns
        /\ (pipe = "put" <=> piped # NoConn)
    BY ConstantsAssumption DEF IInv, TypeOK, OwnerInv
  <2>b. \A l \in Listeners : holds[l] = c => place[c] = "accepted"
    BY <2>a DEF HoldInv
  <2>1. CASE place[c] = "piped"
    <3>1. piped = c
      BY <2>a, <2>1 DEF PipedInv
    <3>2. ~ (server = "pass" /\ inHand.conn = c)
      BY <2>a, <2>1 DEF HandInv
    <3>3. ~ \E l \in Listeners : holds[l] = c
      BY <2>b, <2>1, Zenon
    <3>. QED
      BY <3>1, <3>2, <3>3
  <2>2. CASE place[c] = "accepted"
    <3>1. piped # c
      BY <2>a, <2>2 DEF PipedInv
    <3>2. (\E l \in Listeners : holds[l] = c) \/ (server = "pass" /\ inHand.conn = c)
      BY <2>a, <2>2 DEF AcceptedInv
    <3>3. ~ ((\E l \in Listeners : holds[l] = c) /\ server = "pass" /\ inHand.conn = c)
      BY <2>a, Zenon DEF HandInv
    <3>. QED
      BY <3>1, <3>2, <3>3
  <2>. QED
    BY <2>1, <2>2
<1>. QED
  BY <1>1, Inductive, PTL

-----------------------------------------------------------------------------
EndInv ==
  /\ \A p \in Protocols : protocol[p] \in {"running", "hung"} => Key(p) \in protocolStore
  /\ serving \in {"dispose", "done"} => tplCanceled
  /\ serving = "dispose" =>
       \A p \in Protocols \ late : protocol[p] \in {"running", "hung"} => p \in waitFor

Opened == sockets \cup closed

SocketInv ==
  /\ \A l \in ListenCalls : listen[l] \in {"opened", "making", "appending"} =>
       <<args[l].p, args[l].port>> \in Opened
  /\ \A p \in Protocols : \A at \in listenPorts[Network(p)] : <<p, at>> \in Opened

ListenedInv ==
  ~tplCanceled =>
    /\ \A l \in ListenCalls :
         listen[l] \in {"appending", "returned"} => Network(args[l].p) \in entered
    /\ \A s \in SendCalls : msg[s].listened => Network(msg[s].p) \in entered

ViaInv ==
  \A s \in SendCalls : send[s] \in {"checked", "got"} /\ ~msg[s].set => via[s] = NoPort

PortInv == SocketInv /\ ListenedInv /\ ViaInv /\ ViaPortIsListened
-----------------------------------------------------------------------------
\* getProtocol keeps the types: it adds the lower-case key of a protocol.
LEMMA GetType ==
  ASSUME NEW p \in Protocols, getProtocol(Network(p)),
         protocolStore \subseteq {Key(q) : q \in Protocols},
         protocol \in [Protocols -> {"none", "running", "hung", "done"}], late \subseteq Protocols
  PROVE  /\ protocolStore' \subseteq {Key(q) : q \in Protocols}
         /\ protocol' \in [Protocols -> {"none", "running", "hung", "done"}] /\ late' \subseteq Protocols
<1>1. CASE ToLower(Network(p)) \in protocolStore
  BY <1>1, Zenon DEF getProtocol, protoVars
<1>2. CASE ToLower(Network(p)) \notin protocolStore
  <2>1. ToLower(Network(p)) = Key(p) /\ Network(p).p = p
    BY DEF ToLower, Network, Key
  <2>2. /\ protocolStore' = protocolStore \cup {Key(p)}
        /\ protocol' = [protocol EXCEPT ![p] = "running"]
        /\ late' = late \/ late' = late \cup {p}
    BY <1>2, <2>1, Zenon DEF getProtocol
  <2> QED
    BY <2>2, Zenon
<1> QED
  BY <1>1, <1>2, Zenon

\* Every step of Listen, Send and serveProtocols keeps the types.
LEMMA TransportTypeStep == TransportTypeOK /\ [TransportNext]_transportVars => TransportTypeOK'
<1> SUFFICES ASSUME TransportTypeOK, [TransportNext]_transportVars PROVE TransportTypeOK'
  BY Zenon
<1> USE DEF TransportTypeOK, layerVars, protoVars, portVars, sockVars, callVars
<1>1. ASSUME NEW l \in ListenCalls, ListenStep(l) PROVE TransportTypeOK'
  <2>1. ASSUME NEW p \in Protocols, NEW at \in LocalPorts, LayerListen(l, p, at)
        PROVE  TransportTypeOK'
    BY <2>1, Zenon DEF LayerListen, ListenAt
  <2>2. CASE ListenGet(l)
    <3>1. args[l].p \in Protocols
      BY Zenon
    <3> QED
      BY <2>2, <3>1, GetType DEF ListenGet, ListenAt
  <2>3. CASE ListenOpen(l)
    BY <2>3 DEF ListenOpen, ListenAt
  <2>a. Network(args[l].p) \in Names /\ args[l].port \in LocalPorts
    BY Zenon DEF Network, Names
  <2>4. CASE ListenTest(l)
    <3>1. fatal' \in BOOLEAN
      BY <2>4, Zenon DEF ListenTest, MayStop
    <3> QED
      BY <2>4, <3>1, Zenon DEF ListenTest, ListenAt, portVars, sockVars
  <2>5. CASE ListenMake(l)
    <3>1. fatal' \in BOOLEAN
      BY <2>5, Zenon DEF ListenMake, MayStop
    <3>2. entered' \subseteq Names
      BY <2>5, <2>a, Zenon DEF ListenMake
    <3>3. listenPorts' \in [Names -> SUBSET LocalPorts]
      <4>1. listenPorts' = listenPorts
            \/ listenPorts' = [listenPorts EXCEPT ![Network(args[l].p)] = {}]
        BY <2>5, Zenon DEF ListenMake
      <4> QED
        BY <4>1
    <3> QED
      BY <2>5, <3>1, <3>2, <3>3, Zenon DEF ListenMake, ListenAt, sockVars
  <2>6. CASE ListenAppend(l)
    <3>1. fatal' \in BOOLEAN
      BY <2>6, Zenon DEF ListenAppend, MayStop
    <3>2. entered' \subseteq Names
      BY <2>6, <2>a, Zenon DEF ListenAppend
    <3>3. listenPorts' \in [Names -> SUBSET LocalPorts]
      <4>1. \E read \in SUBSET LocalPorts :
              listenPorts' = [listenPorts EXCEPT ![Network(args[l].p)] = read \cup {args[l].port}]
        BY <2>6, <2>a, Zenon DEF ListenAppend
      <4> QED
        BY <2>a, <4>1
    <3> QED
      BY <2>6, <3>1, <3>2, <3>3, Zenon DEF ListenAppend, ListenAt, sockVars
  <2> QED
    BY <1>1, <2>1, <2>2, <2>3, <2>4, <2>5, <2>6, Zenon DEF ListenStep
<1>2. ASSUME NEW s \in SendCalls, SendStep(s) PROVE TransportTypeOK'
  <2>1. ASSUME NEW kind \in {"request", "response"}, NEW p \in Protocols,
               NEW at \in {NoPort, DefaultPort}, LayerSend(s, kind, p, at)
        PROVE  TransportTypeOK'
    <3>1. at \in LocalPorts \cup {NoPort}
      BY LayerAssumption, Zenon
    <3>2. msg' \in [SendCalls -> [kind : {"request", "response"}, p : Protocols, set : BOOLEAN,
                               reliable : BOOLEAN, known : BOOLEAN, listened : BOOLEAN]]
      BY <2>1 DEF LayerSend, IsReliable, Reliable
    <3> QED
      BY <2>1, <3>1, <3>2, Zenon DEF LayerSend, SendAt
  <2>2. CASE SendGet(s)
    <3>1. msg[s].p \in Protocols
      OBVIOUS
    <3> QED
      BY <2>2, <3>1, GetType DEF SendGet, SendAt
  <2>3. CASE SendVia(s)
    <3>1. listenPorts[Network(msg[s].p)] \subseteq LocalPorts
      BY ZenonT(40) DEF Network, Names
    <3>2. via' \in [SendCalls -> LocalPorts \cup {NoPort}]
      <4>1. via' = via \/ \E at \in LocalPorts : via' = [via EXCEPT ![s] = at]
        BY <2>3, <3>1, LayerAssumption, Zenon DEF SendVia
      <4> QED
        BY <4>1, Zenon
    <3>3. fatal' \in BOOLEAN
      BY <2>3, Zenon DEF SendVia, MayStop
    <3> QED
      BY <2>3, <3>2, <3>3, Zenon DEF SendVia, SendAt
  <2>4. CASE SendOut(s)
    BY <2>4, Zenon DEF SendOut, SendAt
  <2> QED
    BY <1>2, <2>1, <2>2, <2>3, <2>4, Zenon DEF SendStep
<1>3. CASE LayerCancel
  BY <1>3, Zenon DEF LayerCancel
<1>4. CASE Receive \/ PassUp
  BY <1>4, Zenon DEF Receive, PassUp
<1>5. CASE Dispose
  BY <1>5, Zenon DEF Dispose
<1>6. ASSUME NEW p \in Protocols, DisposeWait(p) \/ ProtocolHangs(p) PROVE TransportTypeOK'
  BY <1>6, Zenon DEF DisposeWait, ProtocolHangs
<1>7. CASE DisposeEnd
  BY <1>7, Zenon DEF DisposeEnd
<1>8. CASE UNCHANGED transportVars
  BY <1>8, Zenon DEF transportVars
<1>9. ASSUME NEW p \in Protocols, ProtocolDone(p) PROVE TransportTypeOK'
  BY <1>9, Zenon DEF ProtocolDone
<1>10. ASSUME NEW p \in Protocols, NEW at \in LocalPorts, SocketBreaks(p, at)
       PROVE  TransportTypeOK'
  BY <1>10, Zenon DEF SocketBreaks
<1> QED
  BY <1>1, <1>2, <1>3, <1>4, <1>5, <1>6, <1>7, <1>8, <1>9, <1>10, Zenon
     DEF TransportNext, ServeStep, ProtocolEnds

\* What getProtocol does to the end of the layer: a protocol it makes is in the store, and
\* is late when dispose has listed the protocols.
LEMMA GetEnd ==
  ASSUME TransportTypeOK, EndInv, EndsWithItsProtocols, NEW p \in Protocols, getProtocol(Network(p)),
         UNCHANGED layerVars
  PROVE  EndInv' /\ EndsWithItsProtocols'
<1> USE DEF getProtocol, ToLower, Network, Key, protoVars, layerVars, TransportTypeOK
<1>1. EndInv'
  BY DEF EndInv
<1>2. EndsWithItsProtocols'
  BY Zenon DEF EndsWithItsProtocols
<1> QED
  BY <1>1, <1>2, Zenon

\* dispose waits for every protocol that runs, except the late ones.
LEMMA EndStep ==
  TransportTypeOK /\ EndInv /\ EndsWithItsProtocols /\ [TransportNext]_transportVars
  => EndInv' /\ EndsWithItsProtocols'
<1> SUFFICES ASSUME TransportTypeOK, EndInv, EndsWithItsProtocols, [TransportNext]_transportVars
             PROVE  EndInv' /\ EndsWithItsProtocols'
  OBVIOUS
<1>0. ASSUME UNCHANGED <<layerVars, protoVars>> PROVE EndInv' /\ EndsWithItsProtocols'
  BY <1>0 DEF EndInv, EndsWithItsProtocols, layerVars, protoVars
<1>1. ASSUME NEW l \in ListenCalls, ListenStep(l) PROVE EndInv' /\ EndsWithItsProtocols'
  <2>1. CASE ListenGet(l)
    <3>1. args[l].p \in Protocols
      BY Zenon DEF TransportTypeOK
    <3> QED
      BY <2>1, <3>1, GetEnd, Zenon DEF ListenGet
  <2>2. CASE ~ListenGet(l)
    BY <1>0, <1>1, <2>2, Zenon
       DEF ListenStep, LayerListen, ListenOpen, ListenTest, ListenMake, ListenAppend
  <2> QED
    BY <2>1, <2>2, Zenon
<1>2. ASSUME NEW s \in SendCalls, SendStep(s) PROVE EndInv' /\ EndsWithItsProtocols'
  <2>1. CASE SendGet(s)
    <3>1. msg[s].p \in Protocols
      BY Zenon DEF TransportTypeOK
    <3> QED
      BY <2>1, <3>1, GetEnd, Zenon DEF SendGet
  <2>2. CASE ~SendGet(s)
    BY <1>0, <1>2, <2>2, Zenon DEF SendStep, LayerSend, SendVia, SendOut
  <2> QED
    BY <2>1, <2>2
<1> USE DEF EndInv, EndsWithItsProtocols, protoVars, layerVars
<1>3. CASE LayerCancel \/ Receive \/ PassUp
  BY <1>3 DEF LayerCancel, Receive, PassUp
<1>4. CASE Dispose
  BY <1>4, Zenon DEF Dispose, Key, Network
<1>5. ASSUME NEW p \in Protocols, DisposeWait(p) PROVE EndInv' /\ EndsWithItsProtocols'
  BY <1>5, Zenon DEF DisposeWait
<1>6. CASE DisposeEnd
  <2>1. \A p \in Protocols : protocol[p] \in {"none", "running", "hung", "done"}
    BY Zenon DEF TransportTypeOK
  <2>2. serving = "dispose" /\ waitFor = {} /\ serving' = "done"
        /\ UNCHANGED <<tplCanceled, waitFor, protocolStore, protocol, late>>
    BY <1>6, Zenon DEF DisposeEnd
  <2> QED
    BY <2>1, <2>2, Zenon
<1>7. ASSUME NEW p \in Protocols, ProtocolEnds(p) PROVE EndInv' /\ EndsWithItsProtocols'
  <2>1. /\ protocol[p] = "running"
        /\ \/ protocol' = [protocol EXCEPT ![p] = "done"]
           \/ protocol' = [protocol EXCEPT ![p] = "hung"]
        /\ UNCHANGED <<layerVars, protocolStore, late>>
    BY <1>7, Zenon DEF ProtocolEnds, ProtocolDone, ProtocolHangs
  <2>2. \A q \in Protocols :
          protocol'[q] = protocol[q] \/ (q = p /\ protocol'[q] \in {"done", "hung"})
    BY <2>1, Zenon DEF TransportTypeOK
  <2> QED
    BY <2>1, <2>2, Zenon
<1>8. CASE UNCHANGED transportVars
  BY <1>0, <1>8 DEF transportVars
<1>9. ASSUME NEW p \in Protocols, NEW at \in LocalPorts, SocketBreaks(p, at)
      PROVE  EndInv' /\ EndsWithItsProtocols'
  BY <1>0, <1>9, Zenon DEF SocketBreaks
<1> QED
  BY <1>1, <1>2, <1>3, <1>4, <1>5, <1>6, <1>7, <1>8, <1>9, Zenon DEF TransportNext, ServeStep

\* The port in Via: Listen opens a socket before it enters the port, and Send takes what
\* is entered.
LEMMA PortStep ==
  TransportTypeOK /\ EndInv /\ PortInv /\ [TransportNext]_transportVars => PortInv'
<1> SUFFICES ASSUME TransportTypeOK, EndInv, PortInv, [TransportNext]_transportVars PROVE PortInv'
  OBVIOUS
<1>0. ASSUME UNCHANGED <<portVars, listen, args, callVars>>, Opened \subseteq Opened',
             tplCanceled => tplCanceled'
      PROVE  PortInv'
  <2>1. SocketInv'
    BY <1>0, Zenon DEF PortInv, SocketInv, portVars
  <2>2. ListenedInv' /\ ViaInv'
    BY <1>0, Zenon DEF PortInv, ListenedInv, ViaInv, callVars, portVars
  <2>3. ViaPortIsListened'
    BY <1>0, Zenon DEF PortInv, ViaPortIsListened, callVars, Opened
  <2> QED
    BY <2>1, <2>2, <2>3, Zenon DEF PortInv
<1>1. ASSUME NEW l \in ListenCalls, ListenStep(l) PROVE PortInv'
  <2>0. UNCHANGED <<tplCanceled, callVars>> /\ Opened \subseteq Opened'
    BY <1>1, Zenon DEF ListenStep, LayerListen, ListenGet, ListenOpen, ListenTest, ListenMake,
                       ListenAppend, layerVars, sockVars, Opened
  <2>1. ViaInv' /\ ViaPortIsListened'
    BY <2>0, Zenon DEF PortInv, ViaInv, ViaPortIsListened, callVars, Opened
  <2>2. ASSUME NEW p \in Protocols, NEW at \in LocalPorts, LayerListen(l, p, at)
        PROVE  SocketInv' /\ ListenedInv'
    <3>1. /\ \A k \in ListenCalls \ {l} : listen'[k] = listen[k] /\ args'[k] = args[k]
          /\ listen'[l] \in {"checked", "failed"}
          /\ UNCHANGED <<tplCanceled, portVars, msg, sockVars>>
      BY <2>2, Zenon DEF LayerListen, ListenAt, layerVars, callVars, TransportTypeOK
    <3> QED
      BY <3>1, Zenon DEF PortInv, SocketInv, ListenedInv, portVars, sockVars, Opened
  <2>3. ASSUME ListenGet(l) PROVE SocketInv' /\ ListenedInv'
    <3>1. /\ \A k \in ListenCalls \ {l} : listen'[k] = listen[k]
          /\ listen'[l] = "open"
          /\ UNCHANGED <<tplCanceled, portVars, args, msg, sockVars>>
      BY <2>3, Zenon DEF ListenGet, ListenAt, layerVars, callVars, TransportTypeOK
    <3> QED
      BY <3>1, Zenon DEF PortInv, SocketInv, ListenedInv, portVars, sockVars, Opened
  <2>4. ASSUME ListenOpen(l) PROVE SocketInv' /\ ListenedInv'
    <3>1. /\ \A k \in ListenCalls \ {l} : listen'[k] = listen[k]
          /\ \/ listen'[l] = "opened" /\ <<args[l].p, args[l].port>> \in Opened'
             \/ listen'[l] = "failed"
          /\ UNCHANGED <<tplCanceled, portVars, args, msg>>
      BY <2>4, Zenon DEF ListenOpen, ListenAt, layerVars, callVars, TransportTypeOK, Opened
    <3>2. SocketInv'
      BY <2>0, <3>1, Zenon DEF PortInv, SocketInv, portVars
    <3>3. ListenedInv'
      BY <3>1, Zenon DEF PortInv, ListenedInv, portVars
    <3> QED
      BY <3>2, <3>3, Zenon
  <2>5. ASSUME ListenTest(l) PROVE SocketInv' /\ ListenedInv'
    <3>1. /\ \A k \in ListenCalls \ {l} : listen'[k] = listen[k]
          /\ listen[l] = "opened"
          /\ \/ listen'[l] = "returned" /\ Network(args[l].p) \in entered
             \/ listen'[l] = "making"
          /\ UNCHANGED <<tplCanceled, portVars, args, msg, sockVars>>
      BY <2>5, Zenon DEF ListenTest, ListenAt, layerVars, callVars, TransportTypeOK
    <3>2. SocketInv'
      BY <3>1, Zenon DEF PortInv, SocketInv, portVars, sockVars, Opened
    <3>3. ListenedInv'
      BY <3>1, Zenon DEF PortInv, ListenedInv, portVars
    <3> QED
      BY <3>2, <3>3, Zenon
  <2> DEFINE u == Network(args[l].p)
  <2>a. u \in Names /\ \A p \in Protocols : Network(p) \in Names /\ (Network(p) = u => p = args[l].p)
    BY Zenon DEF Network, Names, TransportTypeOK
  <2>b. listenPorts \in [Names -> SUBSET LocalPorts]
    BY Zenon DEF TransportTypeOK
  <2>6. ASSUME ListenMake(l) PROVE SocketInv' /\ ListenedInv'
    <3>1. /\ \A k \in ListenCalls \ {l} : listen'[k] = listen[k]
          /\ listen[l] = "making" /\ listen'[l] = "appending"
          /\ entered' = entered \cup {u}
          /\ listenPorts' = listenPorts \/ listenPorts' = [listenPorts EXCEPT ![u] = {}]
          /\ UNCHANGED <<tplCanceled, args, msg, sockVars>>
      BY <2>6, Zenon DEF ListenMake, ListenAt, layerVars, callVars, TransportTypeOK
    <3>2. \A n \in Names : listenPorts'[n] \subseteq listenPorts[n]
      BY <2>b, <3>1, Zenon
    <3>3. SocketInv'
      BY <2>a, <3>1, <3>2, Zenon DEF PortInv, SocketInv, sockVars, Opened
    <3>4. ListenedInv'
      BY <3>1, Zenon DEF PortInv, ListenedInv
    <3> QED
      BY <3>3, <3>4, Zenon
  <2>7. ASSUME ListenAppend(l) PROVE SocketInv' /\ ListenedInv'
    <3>1. /\ \A k \in ListenCalls \ {l} : listen'[k] = listen[k]
          /\ listen[l] = "appending" /\ listen'[l] = "returned"
          /\ entered' = entered \cup {u}
          /\ \E read \in {listenPorts[u], {}} :
               listenPorts' = [listenPorts EXCEPT ![u] = read \cup {args[l].port}]
          /\ UNCHANGED <<tplCanceled, args, msg, sockVars>>
      BY <2>7, Zenon DEF ListenAppend, ListenAt, layerVars, callVars, TransportTypeOK
    <3>2. /\ \A n \in Names \ {u} : listenPorts'[n] = listenPorts[n]
          /\ listenPorts'[u] \subseteq listenPorts[u] \cup {args[l].port}
      BY <2>a, <2>b, <3>1, Zenon
    <3>3. <<args[l].p, args[l].port>> \in Opened
      BY <3>1, Zenon DEF PortInv, SocketInv
    <3>4. Opened' = Opened
      BY <3>1, Zenon DEF sockVars, Opened
    <3>5. \A p \in Protocols : \A at \in listenPorts'[Network(p)] : <<p, at>> \in Opened
      <4> SUFFICES ASSUME NEW p \in Protocols, NEW at \in listenPorts'[Network(p)]
                   PROVE  <<p, at>> \in Opened
        BY Zenon
      <4>1. CASE at \in listenPorts[Network(p)]
        BY <4>1, Zenon DEF PortInv, SocketInv
      <4>2. CASE at \notin listenPorts[Network(p)]
        <5>1. Network(p) = u
          BY <2>a, <3>2, <4>2, Zenon
        <5>2. at = args[l].port
          BY <3>2, <4>2, <5>1, Zenon
        <5> QED
          BY <2>a, <3>3, <5>1, <5>2, Zenon
      <4> QED
        BY <4>1, <4>2, Zenon
    <3>6. SocketInv'
      BY <3>1, <3>4, <3>5, Zenon DEF PortInv, SocketInv
    <3>7. ListenedInv'
      BY <3>1, Zenon DEF PortInv, ListenedInv
    <3> QED
      BY <3>6, <3>7, Zenon
  <2> QED
    BY <1>1, <2>1, <2>2, <2>3, <2>4, <2>5, <2>6, <2>7, Zenon DEF ListenStep, PortInv
<1>2. ASSUME NEW s \in SendCalls, SendStep(s) PROVE PortInv'
  <2>0. UNCHANGED <<tplCanceled, listen, args, entered, listenPorts, sockets, closed>>
    BY <1>2, Zenon DEF SendStep, LayerSend, SendGet, SendVia, SendOut, layerVars, portVars,
                       sockVars
  <2>1. SocketInv'
    BY <2>0, Zenon DEF PortInv, SocketInv, Opened
  <2>2. ASSUME NEW kind \in {"request", "response"}, NEW p \in Protocols,
               NEW at \in {NoPort, DefaultPort}, LayerSend(s, kind, p, at)
        PROVE  ListenedInv' /\ ViaInv' /\ ViaPortIsListened'
    <3>1. /\ \A t \in SendCalls \ {s} : send'[t] = send[t] /\ msg'[t] = msg[t] /\ via'[t] = via[t]
          /\ send'[s] \in {"checked", "failed"} /\ msg'[s].p = p
          /\ at # NoPort => msg'[s].set
          /\ via'[s] = at
          /\ msg'[s].listened => \E l \in ListenCalls : listen[l] = "returned" /\ args[l].p = p
      BY <2>2, ZenonT(40) DEF LayerSend, SendAt, TransportTypeOK
    <3>2. ListenedInv'
      BY <2>0, <3>1, ZenonT(40) DEF PortInv, ListenedInv
    <3>3. ViaInv'
      BY <3>1 DEF PortInv, ViaInv
    <3>4. ViaPortIsListened'
      BY <2>0, <3>1 DEF PortInv, ViaPortIsListened
    <3> QED
      BY <3>2, <3>3, <3>4
  <2>3. ASSUME SendGet(s) PROVE ListenedInv' /\ ViaInv' /\ ViaPortIsListened'
    <3>1. send' = [send EXCEPT ![s] = "got"] /\ send[s] = "checked" /\ UNCHANGED <<msg, via>>
      BY <2>3, Zenon DEF SendGet, SendAt
    <3>2. /\ \A t \in SendCalls \ {s} : send'[t] = send[t]
          /\ send'[s] = "got"
      BY <3>1 DEF TransportTypeOK
    <3> QED
      BY <2>0, <3>1, <3>2 DEF PortInv, ListenedInv, ViaInv, ViaPortIsListened
  <2>4. ASSUME SendVia(s) PROVE ListenedInv' /\ ViaInv' /\ ViaPortIsListened'
    <3>1. /\ \A t \in SendCalls \ {s} : send'[t] = send[t] /\ via'[t] = via[t]
          /\ send'[s] \in {"addressed", "failed"} /\ UNCHANGED msg
      BY <2>4, Zenon DEF SendVia, SendAt, TransportTypeOK
    <3>2. ListenedInv'
      BY <2>0, <3>1, Zenon DEF PortInv, ListenedInv
    <3>3. ViaInv'
      BY <3>1, Zenon DEF PortInv, ViaInv
    <3>4. /\ send'[s] = "addressed" /\ msg[s].kind = "request"
          /\ ~msg[s].set /\ msg[s].listened /\ ~tplCanceled
          => via'[s] \in listenPorts[Network(msg[s].p)]
      <4> SUFFICES ASSUME send'[s] = "addressed", msg[s].kind = "request", ~msg[s].set,
                          msg[s].listened, ~tplCanceled
                   PROVE  via'[s] \in listenPorts[Network(msg[s].p)]
        BY Zenon
      <4>1. via[s] = NoPort /\ Network(msg[s].p) \in entered
        BY <2>4, Zenon DEF SendVia, PortInv, ListenedInv, ViaInv
      <4>2. send' # [send EXCEPT ![s] = "failed"]
        BY Zenon DEF TransportTypeOK
      <4>3. \E at \in listenPorts[Network(msg[s].p)] : via' = [via EXCEPT ![s] = at]
        BY <2>4, <4>1, <4>2, Zenon DEF SendVia, SendAt
      <4> QED
        BY <4>3, Zenon DEF TransportTypeOK
    <3>5. msg[s].p \in Protocols
      BY Zenon DEF TransportTypeOK
    <3>6. ViaPortIsListened'
      BY <2>0, <3>1, <3>4, <3>5, Zenon DEF PortInv, SocketInv, ViaPortIsListened, Opened
    <3> QED
      BY <3>2, <3>3, <3>6, Zenon
  <2>5. ASSUME SendOut(s) PROVE ListenedInv' /\ ViaInv' /\ ViaPortIsListened'
    <3>1. /\ send[s] = "addressed"
          /\ send' = [send EXCEPT ![s] = "sent"] \/ send' = [send EXCEPT ![s] = "failed"]
          /\ UNCHANGED <<msg, via>>
      BY <2>5, Zenon DEF SendOut, SendAt
    <3>2. /\ \A t \in SendCalls \ {s} : send'[t] = send[t]
          /\ send'[s] \in {"sent", "failed"}
      BY <3>1, Zenon DEF TransportTypeOK
    <3> QED
      BY <2>0, <3>1, <3>2, Zenon DEF PortInv, ListenedInv, ViaInv, ViaPortIsListened
  <2> QED
    BY <1>2, <2>1, <2>2, <2>3, <2>4, <2>5, Zenon DEF SendStep, PortInv
<1>3. CASE LayerCancel \/ Receive \/ PassUp \/ Dispose
  BY <1>0, <1>3, Zenon DEF LayerCancel, Receive, PassUp, Dispose, sockVars, Opened
<1>4. ASSUME NEW p \in Protocols, NEW at \in LocalPorts, SocketBreaks(p, at) PROVE PortInv'
  BY <1>0, <1>4, Zenon DEF SocketBreaks, layerVars, Opened
<1>5. ASSUME NEW p \in Protocols, DisposeWait(p) \/ ProtocolEnds(p) PROVE PortInv'
  BY <1>0, <1>5, Zenon
     DEF DisposeWait, ProtocolEnds, ProtocolDone, ProtocolHangs, layerVars, sockVars, Opened
<1>6. CASE DisposeEnd
  <2>1. tplCanceled /\ tplCanceled'
    BY <1>6, Zenon DEF DisposeEnd, EndInv
  <2>2. \A p \in Protocols : listenPorts'[Network(p)] = {}
    BY <1>6, Zenon DEF DisposeEnd, Network, Names
  <2>3. UNCHANGED <<listen, args, send, msg, via, sockets, closed>>
    BY <1>6, Zenon DEF DisposeEnd, callVars, sockVars
  <2> QED
    BY <2>1, <2>2, <2>3, Zenon
       DEF PortInv, SocketInv, ListenedInv, ViaInv, ViaPortIsListened, Opened
<1>7. CASE UNCHANGED transportVars
  BY <1>0, <1>7, Zenon DEF transportVars, layerVars, sockVars, Opened
<1> QED
  BY <1>1, <1>2, <1>3, <1>4, <1>5, <1>6, <1>7, Zenon DEF TransportNext, ServeStep

\* NewLayer establishes the invariant, and every step keeps it.
LEMMA TransportInductive ==
  TransportSpec => [](TransportTypeOK /\ EndInv /\ EndsWithItsProtocols /\ PortInv)
<1>1. TransportInit => TransportTypeOK /\ EndInv /\ EndsWithItsProtocols /\ PortInv
  <2> SUFFICES ASSUME TransportInit PROVE TransportTypeOK /\ EndInv /\ EndsWithItsProtocols /\ PortInv
    OBVIOUS
  <2>1. TransportTypeOK
    BY LayerAssumption, Zenon DEF TransportInit, TransportTypeOK, NoArgs, NoMsg
  <2>2. EndInv /\ EndsWithItsProtocols
    BY Zenon DEF TransportInit, EndInv, EndsWithItsProtocols
  <2>3. SocketInv
    BY Zenon DEF TransportInit, SocketInv, NoArgs, Network, Names, Opened
  <2>4. ListenedInv /\ ViaInv /\ ViaPortIsListened
    BY DEF TransportInit, ListenedInv, ViaInv, ViaPortIsListened, NoArgs, NoMsg
  <2> QED
    BY <2>1, <2>2, <2>3, <2>4 DEF PortInv
<1>2. TransportTypeOK /\ EndInv /\ EndsWithItsProtocols /\ PortInv /\ [TransportNext]_transportVars
        => (TransportTypeOK /\ EndInv /\ EndsWithItsProtocols /\ PortInv)'
  BY TransportTypeStep, EndStep, PortStep
<1> QED
  BY <1>1, <1>2, PTL DEF TransportSpec

\* Whatever Listen and Send do while the layer ends: when it is done, every protocol is
\* done too, except those made after dispose had listed them.
THEOREM DisposeWaitsForAll == TransportSpec => []EndsWithItsProtocols
BY TransportInductive, PTL

\* Whatever calls of Listen and Send overlap in the map without a lock: a request without a
\* port in Via gets one its protocol listens on, or has listened on until the listener broke,
\* if a Listen had returned before and the layer is not canceled.
THEOREM AnswersFindTheLayer == TransportSpec => []ViaPortIsListened
<1>1. PortInv => ViaPortIsListened
  BY DEF PortInv
<1> QED
  BY TransportInductive, <1>1, PTL
=============================================================================
