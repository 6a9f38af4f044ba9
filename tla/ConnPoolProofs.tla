--------------------------- MODULE ConnPoolProofs ---------------------------
(***************************************************************************)
(* Proofs about the connection pool, for any number of connections, keys   *)
(* and pieces of input.                                                    *)
(*                                                                         *)
(* LiveIsStored needs StoreInv: an entry of the store is a served handler  *)
(* under its own key.  StreamPanicNeedsLatePut needs EndInv: the reader    *)
(* ends before pipeOutputs, pipeOutputs before hwg.Done, and every handler *)
(* served before DropAll before the channels are closed.  NothingLost      *)
(* needs FlowInv: only the goroutines of a stream connection have a        *)
(* pipeOutputs, the packets on their way are among those that arrived, and *)
(* the channels stay open until the pool is canceled.                      *)
(***************************************************************************)
EXTENDS ConnPool, FiniteSetTheorems, TLAPS

\* What the store and the handlers know of each other.
StoreInv ==
  /\ \A k \in Keys : store[k] # NoHandler => Served(store[k]) /\ key[store[k]] = k
  /\ \A h \in Handlers : canceled[h] => Served(h)
  /\ LiveIsStored

\* The order in which the goroutines of a handler end, and what hwg waits for.
EndInv ==
  /\ \A h \in Handlers : ~Served(h) => reader[h] = "idle" /\ pipe[h] = "none"
  /\ \A h \in Handlers : waited[h] => pipe[h] = "done"
  /\ \A h \in Handlers : streamed /\ pipe[h] = "done" => reader[h] = "closed"
  /\ \A h \in Handlers : streamed => packets[h] = 0 /\ badPackets[h] = 0
  /\ \A h \in Handlers : Closed /\ put[h] = "served" => waited[h]
  /\ StreamPanicNeedsLatePut

\* Who can hold a message, and that nothing is closed under it before the pool is canceled.
FlowInv ==
  /\ \A h \in Handlers : ~streamed => pipe[h] \in {"none", "done"}
  /\ \A h \in Handlers : packets[h] <= arrivals
  /\ disposer # "idle" \/ upper # "reading" => cancel
  /\ NothingLost

-----------------------------------------------------------------------------
\* Every step keeps the types.
LEMMA TypeStep == TypeOK /\ [Next]_vars => TypeOK'
<1> SUFFICES ASSUME TypeOK, [Next]_vars PROVE TypeOK'
  OBVIOUS
<1> USE ConstantsAssumption DEF TypeOK, Inputs, NoErr, connVars, timerVars, packetVars, serveVars, endVars, countVars
<1>1. ASSUME NEW h \in Handlers, NEW k \in Keys, PutCheck(h, k) PROVE TypeOK'
  BY <1>1 DEF PutCheck
<1>2. ASSUME NEW h \in Handlers, PutStore(h) PROVE TypeOK'
  <2>1. CASE store[key[h]] # NoHandler
    BY <1>2, <2>1 DEF PutStore
  <2>2. CASE store[key[h]] = NoHandler
    <3>1. put' \in [Handlers -> {"new", "checked", "served", "late", "refused"}]
      BY <1>2, <2>2 DEF PutStore
    <3>2. store' \in [Keys -> Handlers \cup {NoHandler}]
      BY <1>2, <2>2 DEF PutStore
    <3>3. reader' \in [Handlers -> {"idle", "reading", "eof", "network", "stopping", "closed"}]
      BY <1>2, <2>2 DEF PutStore
    <3>4. pipe' \in [Handlers -> {"none", "select", "msg", "expired", "malformed", "done"}]
      BY <1>2, <2>2 DEF PutStore
    <3>5. timer' \in [Handlers -> {"armed", "fired"}]
      BY <1>2, <2>2 DEF PutStore
    <3>6. UNCHANGED <<streamed, cancel, key, conn, canceled, parser, tick, expired, packetVars,
                      waited, serveVars, endVars, panic, countVars>>
      BY <1>2 DEF PutStore
    <3>. QED
      BY <3>1, <3>2, <3>3, <3>4, <3>5, <3>6
  <2>. QED
    BY <2>1, <2>2
<1>3. ASSUME NEW h \in Handlers, NEW i \in Inputs, Arrive(h, i) PROVE TypeOK'
  BY <1>3 DEF Arrive
<1>4. ASSUME NEW h \in Handlers, NEW e \in {"eof", "network"}, PeerFails(h, e) PROVE TypeOK'
  BY <1>4 DEF PeerFails
<1>5. ASSUME NEW h \in Handlers, ReadFails(h) PROVE TypeOK'
  BY <1>5 DEF ReadFails
<1>6. ASSUME NEW h \in Handlers, ReaderReports(h) PROVE TypeOK'
  BY <1>6 DEF ReaderReports, handleError, TakeErr
<1>7. ASSUME NEW h \in Handlers, ParserStops(h) PROVE TypeOK'
  BY <1>7 DEF ParserStops
<1>8. ASSUME NEW h \in Handlers, PipeSelect(h) PROVE TypeOK'
  <2>1. pipe' \in [Handlers -> {"none", "select", "msg", "expired", "malformed", "done"}]
    BY <1>8 DEF PipeSelect
  <2>2. parser' \in [Handlers -> {"empty"} \cup Inputs]
    BY <1>8 DEF PipeSelect
  <2>3. tick' \in [Handlers -> BOOLEAN]
    <3>1. tick' = [tick EXCEPT ![h] = FALSE] \/ tick' = tick
      BY <1>8 DEF PipeSelect
    <3>2. tick \in [Handlers -> BOOLEAN]
      OBVIOUS
    <3> HIDE DEF TypeOK
    <3>. QED
      BY <3>1, <3>2
  <2>4. UNCHANGED <<streamed, cancel, store, put, key, conn, canceled, reader, timer,
                    expired, packetVars, waited, serveVars, endVars, panic, countVars>>
    BY <1>8 DEF PipeSelect
  <2>. QED
    BY <2>1, <2>2, <2>3, <2>4
<1>9. ASSUME NEW h \in Handlers, PipeReports(h) PROVE TypeOK'
  BY <1>9 DEF PipeReports, handleError, TakeErr
<1>10. ASSUME NEW h \in Handlers, PipeOutputs(h) PROVE TypeOK'
  BY <1>10 DEF PipeOutputs, output, TakeMsg
<1>11. ASSUME NEW h \in Handlers, PacketOutputs(h) PROVE TypeOK'
  BY <1>11 DEF PacketOutputs, output, TakeMsg
<1>12. ASSUME NEW h \in Handlers, PacketReports(h) PROVE TypeOK'
  BY <1>12 DEF PacketReports, handleError, TakeErr
<1>13. ASSUME NEW h \in Handlers, TimerFires(h) PROVE TypeOK'
  BY <1>13 DEF TimerFires
<1>14. ASSUME NEW h \in Handlers, WgDone(h) PROVE TypeOK'
  BY <1>14 DEF WgDone
<1>15. CASE ServerDrop
  BY <1>15 DEF ServerDrop, drop
<1>16. CASE ServerPass
  BY <1>16 DEF ServerPass
<1>17. CASE ServerStops
  BY <1>17 DEF ServerStops
<1>18. CASE Cancel
  BY <1>18 DEF Cancel
<1>19. CASE DropAll
  BY <1>19 DEF DropAll, drop
<1>20. CASE PoolCloses
  BY <1>20 DEF PoolCloses
<1>21. CASE UpperEnds
  BY <1>21 DEF UpperEnds
<1>22. CASE UNCHANGED vars
  BY <1>22 DEF vars
<1> HIDE DEF TypeOK
<1>. QED
  BY <1>1, <1>2, <1>3, <1>4, <1>5, <1>6, <1>7, <1>8, <1>9, <1>10, <1>11,
     <1>12, <1>13, <1>14, <1>15, <1>16, <1>17, <1>18, <1>19, <1>20, <1>21, <1>22 DEF Next

\* Every step keeps the store and the handlers together.
LEMMA StoreStep == TypeOK /\ StoreInv /\ [Next]_vars => StoreInv'
<1> SUFFICES ASSUME TypeOK, StoreInv, [Next]_vars PROVE StoreInv'
  OBVIOUS
<1> USE ConstantsAssumption DEF TypeOK, StoreInv, LiveIsStored, Served, connVars, timerVars, packetVars, serveVars, endVars, countVars
<1>1. ASSUME NEW h \in Handlers, NEW k \in Keys, PutCheck(h, k) PROVE StoreInv'
  BY <1>1 DEF PutCheck
<1>2. ASSUME NEW h \in Handlers, PutStore(h) PROVE StoreInv'
  <2>a. /\ put \in [Handlers -> {"new", "checked", "served", "late", "refused"}]
        /\ store \in [Keys -> Handlers \cup {NoHandler}]
        /\ key \in [Handlers -> Keys] /\ NoHandler \notin Handlers
    OBVIOUS
  <2>b. put[h] = "checked" /\ UNCHANGED <<key, canceled>>
    BY <1>2 DEF PutStore
  <2> HIDE ConstantsAssumption DEF TypeOK
  <2>1. CASE put' = [put EXCEPT ![h] = "refused"] /\ UNCHANGED store
    BY <2>a, <2>b, <2>1
  <2>2. CASE /\ store[key[h]] = NoHandler
             /\ put' = [put EXCEPT ![h] = IF disposer = "idle" THEN "served" ELSE "late"]
             /\ store' = [store EXCEPT ![key[h]] = h]
    BY <2>a, <2>b, <2>2
  <2>. QED
    BY <1>2, <2>1, <2>2 DEF PutStore
<1>3. ASSUME NEW h \in Handlers, NEW i \in Inputs, Arrive(h, i) PROVE StoreInv'
  BY <1>3 DEF Arrive
<1>4. ASSUME NEW h \in Handlers, NEW e \in {"eof", "network"}, PeerFails(h, e) PROVE StoreInv'
  BY <1>4 DEF PeerFails
<1>5. ASSUME NEW h \in Handlers, ReadFails(h) PROVE StoreInv'
  BY <1>5 DEF ReadFails
<1>6. ASSUME NEW h \in Handlers, ReaderReports(h) PROVE StoreInv'
  BY <1>6 DEF ReaderReports
<1>7. ASSUME NEW h \in Handlers, ParserStops(h) PROVE StoreInv'
  BY <1>7 DEF ParserStops
<1>8. ASSUME NEW h \in Handlers, PipeSelect(h) PROVE StoreInv'
  BY <1>8 DEF PipeSelect
<1>9. ASSUME NEW h \in Handlers, PipeReports(h) PROVE StoreInv'
  BY <1>9 DEF PipeReports
<1>10. ASSUME NEW h \in Handlers, PipeOutputs(h) PROVE StoreInv'
  BY <1>10 DEF PipeOutputs
<1>11. ASSUME NEW h \in Handlers, PacketOutputs(h) PROVE StoreInv'
  BY <1>11 DEF PacketOutputs
<1>12. ASSUME NEW h \in Handlers, PacketReports(h) PROVE StoreInv'
  BY <1>12 DEF PacketReports
<1>13. ASSUME NEW h \in Handlers, TimerFires(h) PROVE StoreInv'
  BY <1>13 DEF TimerFires
<1>14. ASSUME NEW h \in Handlers, WgDone(h) PROVE StoreInv'
  BY <1>14 DEF WgDone
<1>15. CASE ServerDrop
  <2> DEFINE hs == {store[key[herr.handler]]} \ {NoHandler}
  <2>1. hs \subseteq Handlers /\ UNCHANGED <<put, key>>
    BY <1>15 DEF ServerDrop
  <2>2. /\ \A h \in Handlers : canceled'[h] <=> canceled[h] \/ h \in hs
        /\ \A k \in Keys : store'[k] = IF store[k] \in hs THEN NoHandler ELSE store[k]
    BY <1>15 DEF ServerDrop, drop
  <2>3. \A h \in hs : Served(h)
    BY <1>15 DEF ServerDrop
  <2> HIDE DEF hs
  <2>. QED
    BY <2>1, <2>2, <2>3
<1>16. CASE ServerPass
  BY <1>16 DEF ServerPass
<1>17. CASE ServerStops
  BY <1>17 DEF ServerStops
<1>18. CASE Cancel
  BY <1>18 DEF Cancel
<1>19. CASE DropAll
  <2> DEFINE hs == {store[k] : k \in Keys} \ {NoHandler}
  <2>1. hs \subseteq Handlers /\ UNCHANGED <<put, key>>
    BY <1>19 DEF DropAll
  <2>2. /\ \A h \in Handlers : canceled'[h] <=> canceled[h] \/ h \in hs
        /\ \A k \in Keys : store'[k] = IF store[k] \in hs THEN NoHandler ELSE store[k]
    BY <1>19 DEF DropAll, drop
  <2>3. \A h \in hs : Served(h)
    BY <1>19 DEF DropAll
  <2> HIDE DEF hs
  <2>. QED
    BY <2>1, <2>2, <2>3
<1>20. CASE PoolCloses
  BY <1>20 DEF PoolCloses
<1>21. CASE UpperEnds
  BY <1>21 DEF UpperEnds
<1>22. CASE UNCHANGED vars
  BY <1>22 DEF vars
<1> HIDE DEF StoreInv, TypeOK
<1>. QED
  BY <1>1, <1>2, <1>3, <1>4, <1>5, <1>6, <1>7, <1>8, <1>9, <1>10, <1>11,
     <1>12, <1>13, <1>14, <1>15, <1>16, <1>17, <1>18, <1>19, <1>20, <1>21, <1>22 DEF Next

\* Every step keeps the order of the shutdown.
LEMMA EndStep == TypeOK /\ EndInv /\ [Next]_vars => EndInv'
<1> SUFFICES ASSUME TypeOK, EndInv, [Next]_vars PROVE EndInv'
  OBVIOUS
<1> USE DEF TypeOK, EndInv, StreamPanicNeedsLatePut, LatePut, Served, Closed, Alive, connVars, timerVars, packetVars, serveVars, endVars, countVars
<1>1. ASSUME NEW h \in Handlers, NEW k \in Keys, PutCheck(h, k) PROVE EndInv'
  BY <1>1 DEF PutCheck
<1>2. ASSUME NEW h \in Handlers, PutStore(h) PROVE EndInv'
  BY <1>2 DEF PutStore
<1>3. ASSUME NEW h \in Handlers, NEW i \in Inputs, Arrive(h, i) PROVE EndInv'
  BY <1>3 DEF Arrive
<1>4. ASSUME NEW h \in Handlers, NEW e \in {"eof", "network"}, PeerFails(h, e) PROVE EndInv'
  BY <1>4 DEF PeerFails
<1>5. ASSUME NEW h \in Handlers, ReadFails(h) PROVE EndInv'
  BY <1>5 DEF ReadFails
<1>6. ASSUME NEW h \in Handlers, ReaderReports(h) PROVE EndInv'
  BY <1>6 DEF ReaderReports, handleError
<1>7. ASSUME NEW h \in Handlers, ParserStops(h) PROVE EndInv'
  BY <1>7 DEF ParserStops
<1>8. ASSUME NEW h \in Handlers, PipeSelect(h) PROVE EndInv'
  BY <1>8 DEF PipeSelect
<1>9. ASSUME NEW h \in Handlers, PipeReports(h) PROVE EndInv'
  BY <1>9 DEF PipeReports, handleError
<1>10. ASSUME NEW h \in Handlers, PipeOutputs(h) PROVE EndInv'
  BY <1>10 DEF PipeOutputs, output
<1>11. ASSUME NEW h \in Handlers, PacketOutputs(h) PROVE EndInv'
  BY <1>11 DEF PacketOutputs, output
<1>12. ASSUME NEW h \in Handlers, PacketReports(h) PROVE EndInv'
  BY <1>12 DEF PacketReports, handleError
<1>13. ASSUME NEW h \in Handlers, TimerFires(h) PROVE EndInv'
  BY <1>13 DEF TimerFires
<1>14. ASSUME NEW h \in Handlers, WgDone(h) PROVE EndInv'
  BY <1>14 DEF WgDone
<1>15. CASE ServerDrop
  BY <1>15 DEF ServerDrop, drop
<1>16. CASE ServerPass
  BY <1>16 DEF ServerPass
<1>17. CASE ServerStops
  BY <1>17 DEF ServerStops
<1>18. CASE Cancel
  BY <1>18 DEF Cancel
<1>19. CASE DropAll
  BY <1>19 DEF DropAll, drop
<1>20. CASE PoolCloses
  BY <1>20 DEF PoolCloses
<1>21. CASE UpperEnds
  BY <1>21 DEF UpperEnds
<1>22. CASE UNCHANGED vars
  BY <1>22 DEF vars
<1> HIDE DEF EndInv, TypeOK
<1>. QED
  BY <1>1, <1>2, <1>3, <1>4, <1>5, <1>6, <1>7, <1>8, <1>9, <1>10, <1>11,
     <1>12, <1>13, <1>14, <1>15, <1>16, <1>17, <1>18, <1>19, <1>20, <1>21, <1>22 DEF Next

-----------------------------------------------------------------------------
(***************************************************************************)
(* The messages on their way.  A step moves at most one of them.           *)
(***************************************************************************)

\* The sets of messages on their way are finite.
LEMMA FlightFinite ==
  /\ IsFiniteSet(InParsers) /\ Cardinality(InParsers) \in Nat
  /\ IsFiniteSet(InPipes) /\ Cardinality(InPipes) \in Nat
  /\ IsFiniteSet(InPackets) /\ Cardinality(InPackets) \in Nat
<1>1. IsFiniteSet(Handlers)
  BY ConstantsAssumption, FS_Interval DEF Handlers
<1>2. IsFiniteSet(Handlers \X (1..MaxArrivals))
  <2>1. IsFiniteSet(1..MaxArrivals)
    BY ConstantsAssumption, FS_Interval
  <2> QED BY <1>1, <2>1, FS_Product
<1>3. InParsers \subseteq Handlers /\ InPipes \subseteq Handlers
  BY DEF InParsers, InPipes
<1>4. InPackets \subseteq Handlers \X (1..MaxArrivals)
  BY DEF InPackets
<1> QED BY <1>1, <1>2, <1>3, <1>4, FS_Subset, FS_CardinalityType

\* The goroutine of a packet more, and one less.
LEMMA PacketMore ==
  ASSUME TypeOK, NEW h \in Handlers, packets[h] < MaxArrivals,
         packets' = [packets EXCEPT ![h] = @ + 1]
  PROVE  Cardinality(InPackets') = Cardinality(InPackets) + 1
<1> DEFINE new == <<h, packets[h] + 1>>
<1>1. packets \in [Handlers -> Nat] /\ MaxArrivals \in Nat
  BY ConstantsAssumption DEF TypeOK
<1>2. new \in Handlers \X (1..MaxArrivals) /\ new \notin InPackets
  BY <1>1 DEF InPackets
<1>3. ASSUME NEW p \in Handlers \X (1..MaxArrivals)
      PROVE  p[2] <= packets'[p[1]] <=> p[2] <= packets[p[1]] \/ p = new
  <2>1. p = <<p[1], p[2]>> /\ p[1] \in Handlers /\ p[2] \in 1..MaxArrivals
    OBVIOUS
  <2>2. CASE p[1] = h
    BY <1>1, <2>1, <2>2
  <2>3. CASE p[1] # h
    BY <1>1, <2>1, <2>3
  <2> QED BY <2>2, <2>3
<1>4. InPackets' = InPackets \cup {new}
  <2> HIDE DEF new
  <2> QED BY <1>2, <1>3 DEF InPackets
<1> HIDE DEF new
<1> QED BY <1>2, <1>4, FlightFinite, FS_AddElement

\* A packet taken from a handler is one message less on its way.
LEMMA PacketLess ==
  ASSUME TypeOK, NEW h \in Handlers, packets[h] > 0, packets[h] <= MaxArrivals,
         packets' = [packets EXCEPT ![h] = @ - 1]
  PROVE  Cardinality(InPackets') = Cardinality(InPackets) - 1
<1> DEFINE old == <<h, packets[h]>>
<1>1. packets \in [Handlers -> Nat] /\ MaxArrivals \in Nat
  BY ConstantsAssumption DEF TypeOK
<1>2. old \in InPackets
  BY <1>1 DEF InPackets
<1>3. ASSUME NEW p \in Handlers \X (1..MaxArrivals)
      PROVE  p[2] <= packets'[p[1]] <=> p[2] <= packets[p[1]] /\ p # old
  <2>1. p = <<p[1], p[2]>> /\ p[1] \in Handlers /\ p[2] \in 1..MaxArrivals
    OBVIOUS
  <2>2. CASE p[1] = h
    BY <1>1, <2>1, <2>2
  <2>3. CASE p[1] # h
    BY <1>1, <2>1, <2>3
  <2> QED BY <2>2, <2>3
<1>4. InPackets' = InPackets \ {old}
  <2> HIDE DEF old
  <2> QED BY <1>3 DEF InPackets
<1> HIDE DEF old
<1> QED BY <1>2, <1>4, FlightFinite, FS_RemoveElement

\* What a step of the pool does to the messages on their way, and to the counters: nothing,
\* or one message comes in, moves on by one place, or is passed up.
Parsers == Cardinality(InParsers)
Pipes   == Cardinality(InPipes)
Packets == Cardinality(InPackets)
Passes  == IF server = "pass" THEN 1 ELSE 0

\* Every step of a pool that is not cancelled has one of these effects.
LEMMA FlowEffects ==
  ASSUME TypeOK, EndInv, FlowInv, ~cancel, Next
  PROVE  \/ UNCHANGED <<received, delivered, Parsers, Pipes, Packets, Passes>>
         \/ /\ received' = received + 1 /\ Parsers' = Parsers + 1
            /\ UNCHANGED <<delivered, Pipes, Packets, Passes>>
         \/ /\ received' = received + 1 /\ Packets' = Packets + 1
            /\ UNCHANGED <<delivered, Parsers, Pipes, Passes>>
         \/ /\ Parsers' = Parsers - 1 /\ Pipes' = Pipes + 1
            /\ UNCHANGED <<received, delivered, Packets, Passes>>
         \/ /\ Pipes' = Pipes - 1 /\ Passes = 0 /\ Passes' = 1
            /\ UNCHANGED <<received, delivered, Parsers, Packets>>
         \/ /\ Packets' = Packets - 1 /\ Passes = 0 /\ Passes' = 1
            /\ UNCHANGED <<received, delivered, Parsers, Pipes>>
         \/ /\ delivered' = delivered + 1 /\ Passes = 1 /\ Passes' = 0
            /\ UNCHANGED <<received, Parsers, Pipes, Packets>>
<1> DEFINE Quiet == UNCHANGED <<received, delivered, Parsers, Pipes, Packets, Passes>>
<1> DEFINE Parsed == /\ received' = received + 1 /\ Parsers' = Parsers + 1
                     /\ UNCHANGED <<delivered, Pipes, Packets, Passes>>
<1> USE DEF connVars, timerVars, packetVars, serveVars, endVars, countVars
<1>a. /\ parser \in [Handlers -> {"empty"} \cup Inputs]
      /\ pipe \in [Handlers -> {"none", "select", "msg", "expired", "malformed", "done"}]
      /\ packets \in [Handlers -> Nat] /\ arrivals \in 0..MaxArrivals
  BY DEF TypeOK
<1>b. ~Closed /\ upper = "reading"
  BY DEF FlowInv, Closed
<1>c. UNCHANGED parser => UNCHANGED Parsers
  BY DEF Parsers, InParsers
<1>d. UNCHANGED pipe => UNCHANGED Pipes
  BY DEF Pipes, InPipes
<1>e. UNCHANGED packets => UNCHANGED Packets
  BY DEF Packets, InPackets
<1>f. ASSUME NEW h \in Handlers, NEW v, v # "msg", pipe[h] # "msg",
             pipe' = [pipe EXCEPT ![h] = v]
      PROVE  UNCHANGED Pipes
  BY <1>a, <1>f DEF Pipes, InPipes
<1>g. ASSUME NEW h \in Handlers, NEW v, v # "msg", parser[h] # "msg",
             parser' = [parser EXCEPT ![h] = v]
      PROVE  UNCHANGED Parsers
  BY <1>a, <1>g DEF Parsers, InParsers
<1>h. ASSUME NEW h \in Handlers, NEW kind \in {"expired", "eof", "network", "malformed"},
             handleError(h, kind)
      PROVE  UNCHANGED Passes
  BY <1>b, <1>h DEF handleError, TakeErr, Passes
<1>i. output => Passes = 0 /\ Passes' = 1
  BY <1>b DEF output, TakeMsg, Passes
<1>1. ASSUME NEW h \in Handlers, NEW k \in Keys, PutCheck(h, k) PROVE Quiet
  BY <1>1, <1>c, <1>d, <1>e DEF PutCheck, Passes
<1>2. ASSUME NEW h \in Handlers, PutStore(h) PROVE Quiet
  <2>1. pipe[h] = "none"
    BY <1>2 DEF PutStore, EndInv, Served
  <2>2. UNCHANGED Pipes
    BY <1>2, <2>1, <1>d, <1>f DEF PutStore
  <2> QED BY <1>2, <2>2, <1>c, <1>e DEF PutStore, Passes
<1>3. ASSUME NEW h \in Handlers, NEW input \in Inputs, Arrive(h, input)
      PROVE  \/ Quiet \/ Parsed
             \/ /\ received' = received + 1 /\ Packets' = Packets + 1
                /\ UNCHANGED <<delivered, Parsers, Pipes, Passes>>
  <2>1. UNCHANGED <<delivered, Pipes, Passes>>
    BY <1>3, <1>d DEF Arrive, Passes
  <2>2. CASE input # "msg"
    <3>1. UNCHANGED Parsers
      BY <1>3, <2>2, <1>c, <1>g DEF Arrive, Inputs
    <3>2. UNCHANGED <<Packets, received>>
      BY <1>3, <2>2, <1>e DEF Arrive
    <3> QED BY <2>1, <3>1, <3>2
  <2>3. CASE input = "msg" /\ streamed
    <3>1. received' = received + 1 /\ UNCHANGED Packets
      BY <1>3, <2>3, <1>e DEF Arrive
    <3>2. parser[h] # "msg" /\ parser' = [parser EXCEPT ![h] = "msg"]
      BY <1>3, <2>3 DEF Arrive
    <3>3. Parsers' = Parsers + 1
      <4>1. InParsers' = InParsers \cup {h} /\ h \notin InParsers
        BY <3>2, <1>a DEF InParsers
      <4> QED BY <4>1, FlightFinite, FS_AddElement DEF Parsers
    <3> QED BY <2>1, <3>1, <3>3
  <2>4. CASE input = "msg" /\ ~streamed
    <3>1. received' = received + 1 /\ UNCHANGED Parsers
      BY <1>3, <2>4, <1>c DEF Arrive
    <3>2. packets' = [packets EXCEPT ![h] = @ + 1] /\ packets[h] < MaxArrivals
      BY <1>3, <2>4, <1>a, ConstantsAssumption DEF Arrive, FlowInv
    <3>3. Packets' = Packets + 1
      BY <3>2, PacketMore DEF Packets
    <3> QED BY <2>1, <3>1, <3>3
  <2> QED BY <2>2, <2>3, <2>4
<1>4. ASSUME NEW h \in Handlers, NEW e \in {"eof", "network"}, PeerFails(h, e) PROVE Quiet
  BY <1>4, <1>c, <1>d, <1>e DEF PeerFails, Passes
<1>5. ASSUME NEW h \in Handlers, ReadFails(h) PROVE Quiet
  <2>1. UNCHANGED Pipes
    <3>1. CASE streamed
      <4>1. pipe' = pipe
        BY <1>5, <3>1, <1>a DEF ReadFails
      <4> QED BY <4>1, <1>d
    <3>2. CASE ~streamed
      <4>1. pipe[h] # "msg" /\ pipe' = [pipe EXCEPT ![h] = "done"]
        BY <1>5, <3>2 DEF ReadFails, FlowInv
      <4> QED BY <4>1, <1>f
    <3> QED BY <3>1, <3>2
  <2> QED BY <1>5, <2>1, <1>c, <1>e DEF ReadFails, Passes
<1>6. ASSUME NEW h \in Handlers, ReaderReports(h) PROVE Quiet
  BY <1>6, <1>c, <1>d, <1>e, <1>h DEF ReaderReports
<1>7. ASSUME NEW h \in Handlers, ParserStops(h)
      PROVE  Quiet \/ Parsed
  <2>1. UNCHANGED <<delivered, Pipes, Packets, Passes>>
    BY <1>7, <1>d, <1>e DEF ParserStops, Passes
  <2>2. CASE UNCHANGED <<parser, received>>
    BY <2>1, <2>2, <1>c
  <2>3. ASSUME NEW rest \in {"empty", "msg", "ignored", "malformed"}, parser[h] = "partial",
               parser' = [parser EXCEPT ![h] = rest],
               received' = IF rest = "msg" THEN received + 1 ELSE received
        PROVE  Quiet \/ Parsed
    <3>1. CASE rest = "msg"
      <4>1. Parsers' = Parsers + 1
        <5>1. InParsers' = InParsers \cup {h} /\ h \notin InParsers
          BY <2>3, <3>1, <1>a DEF InParsers
        <5> QED BY <5>1, FlightFinite, FS_AddElement DEF Parsers
      <4> QED BY <2>1, <2>3, <3>1, <4>1
    <3>2. CASE rest # "msg"
      <4>1. UNCHANGED Parsers
        BY <2>3, <3>2, <1>g
      <4> QED BY <2>1, <2>3, <3>2, <4>1
    <3> QED BY <3>1, <3>2
  <2> QED BY <1>7, <2>2, <2>3 DEF ParserStops
<1>8. ASSUME NEW h \in Handlers, PipeSelect(h)
      PROVE  \/ Quiet
             \/ /\ Parsers' = Parsers - 1 /\ Pipes' = Pipes + 1
                /\ UNCHANGED <<received, delivered, Packets, Passes>>
  <2>1. UNCHANGED <<received, delivered, Packets, Passes>> /\ pipe[h] = "select"
    BY <1>8, <1>e DEF PipeSelect, Passes
  <2>2. CASE parser[h] = "msg" /\ pipe' = [pipe EXCEPT ![h] = "msg"]
             /\ parser' = [parser EXCEPT ![h] = "empty"]
    <3>1. Parsers' = Parsers - 1
      <4>1. InParsers' = InParsers \ {h} /\ h \in InParsers
        BY <2>2, <1>a DEF InParsers
      <4> QED BY <4>1, FlightFinite, FS_RemoveElement DEF Parsers
    <3>2. Pipes' = Pipes + 1
      <4>1. InPipes' = InPipes \cup {h} /\ h \notin InPipes
        BY <2>1, <2>2, <1>a DEF InPipes
      <4> QED BY <4>1, FlightFinite, FS_AddElement DEF Pipes
    <3> QED BY <2>1, <3>1, <3>2
  <2>3. CASE \E v \in {"select", "malformed"} :
               /\ parser[h] # "msg" /\ pipe' = [pipe EXCEPT ![h] = v]
               /\ parser' = [parser EXCEPT ![h] = "empty"]
    BY <2>1, <2>3, <1>f, <1>g
  <2>4. CASE \E v \in {"expired", "done"} :
               pipe' = [pipe EXCEPT ![h] = v] /\ UNCHANGED parser
    BY <2>1, <2>4, <1>f, <1>c
  <2> QED BY <1>8, <2>2, <2>3, <2>4 DEF PipeSelect
<1>9. ASSUME NEW h \in Handlers, PipeReports(h) PROVE Quiet
  <2>1. UNCHANGED Pipes
    BY <1>9, <1>f DEF PipeReports
  <2> QED BY <1>9, <2>1, <1>c, <1>e, <1>h DEF PipeReports
<1>10. ASSUME NEW h \in Handlers, PipeOutputs(h)
       PROVE  /\ Pipes' = Pipes - 1 /\ Passes = 0 /\ Passes' = 1
              /\ UNCHANGED <<received, delivered, Parsers, Packets>>
  <2>1. Pipes' = Pipes - 1
    <3>1. pipe[h] = "msg" /\ pipe' = [pipe EXCEPT ![h] = "select"]
      BY <1>10 DEF PipeOutputs
    <3>2. InPipes' = InPipes \ {h} /\ h \in InPipes
      BY <3>1, <1>a DEF InPipes
    <3> QED BY <3>2, FlightFinite, FS_RemoveElement DEF Pipes
  <2> QED BY <1>10, <2>1, <1>c, <1>e, <1>i DEF PipeOutputs
<1>11. ASSUME NEW h \in Handlers, PacketOutputs(h)
       PROVE  /\ Packets' = Packets - 1 /\ Passes = 0 /\ Passes' = 1
              /\ UNCHANGED <<received, delivered, Parsers, Pipes>>
  <2>1. Packets' = Packets - 1
    <3>1. packets[h] > 0 /\ packets' = [packets EXCEPT ![h] = @ - 1]
      BY <1>11 DEF PacketOutputs
    <3>2. packets[h] <= MaxArrivals
      BY <1>a, ConstantsAssumption DEF FlowInv
    <3> QED BY <3>1, <3>2, PacketLess DEF Packets
  <2> QED BY <1>11, <2>1, <1>c, <1>d, <1>i DEF PacketOutputs
<1>12. ASSUME NEW h \in Handlers, PacketReports(h) PROVE Quiet
  BY <1>12, <1>c, <1>d, <1>e, <1>h DEF PacketReports
<1>13. ASSUME NEW h \in Handlers, TimerFires(h) \/ WgDone(h) PROVE Quiet
  BY <1>13, <1>c, <1>d, <1>e DEF TimerFires, WgDone, Passes
<1>14. CASE ServerDrop
  <2>1. UNCHANGED Passes
    BY <1>14 DEF ServerDrop, Passes
  <2> QED BY <1>14, <2>1, <1>c, <1>d, <1>e DEF ServerDrop
<1>15. CASE ServerPass
  <2>1. \/ UNCHANGED <<delivered, Passes>>
        \/ delivered' = delivered + 1 /\ Passes = 1 /\ Passes' = 0
    BY <1>15, <1>b DEF ServerPass, Passes
  <2> QED BY <1>15, <2>1, <1>c, <1>d, <1>e DEF ServerPass
<1>16. CASE ServerStops \/ Cancel \/ DropAll \/ PoolCloses \/ UpperEnds
  BY <1>16, <1>c, <1>d, <1>e DEF ServerStops, Cancel, DropAll, PoolCloses, UpperEnds, Passes
<1> HIDE DEF Quiet
<1>17. Quiet => UNCHANGED <<received, delivered, Parsers, Pipes, Packets, Passes>>
  BY DEF Quiet
<1> QED
  BY <1>1, <1>2, <1>3, <1>4, <1>5, <1>6, <1>7, <1>8, <1>9, <1>10, <1>11, <1>12, <1>13, <1>14,
     <1>15, <1>16, <1>17 DEF Next

\* Every step keeps the balance of the messages.
LEMMA FlowStep == TypeOK /\ EndInv /\ FlowInv /\ [Next]_vars => FlowInv'
<1> SUFFICES ASSUME TypeOK, EndInv, FlowInv, [Next]_vars PROVE FlowInv'
  OBVIOUS
<1> USE DEF connVars, timerVars, packetVars, serveVars, endVars, countVars
<1>1. CASE UNCHANGED vars
  BY <1>1 DEF vars, FlowInv, NothingLost, InFlight, InParsers, InPipes, InPackets
<1>2. ASSUME Next PROVE FlowInv'
  <2>1. (\A h \in Handlers : ~streamed => pipe[h] \in {"none", "done"})'
    <3>1. UNCHANGED streamed
      BY <1>2 DEF Next, PutCheck, PutStore, Arrive, PeerFails, ReadFails, ReaderReports,
        ParserStops, PipeSelect, PipeReports, PipeOutputs, PacketOutputs, PacketReports,
        TimerFires, WgDone, ServerDrop, ServerPass, ServerStops, Cancel, DropAll, PoolCloses,
        UpperEnds
    <3>2. \/ UNCHANGED pipe
          \/ \E h \in Handlers : PutStore(h) \/ ReadFails(h) \/ PipeSelect(h)
                                 \/ PipeReports(h) \/ PipeOutputs(h)
      BY <1>2 DEF Next, PutCheck, Arrive, PeerFails, ReaderReports, ParserStops, PacketOutputs,
        PacketReports, TimerFires, WgDone, ServerDrop, ServerPass, ServerStops, Cancel,
        DropAll, PoolCloses, UpperEnds
    <3>3. ASSUME ~streamed, NEW h \in Handlers,
                 PutStore(h) \/ ReadFails(h) \/ PipeSelect(h) \/ PipeReports(h) \/ PipeOutputs(h)
          PROVE  UNCHANGED pipe \/ \E v \in {"none", "done"} : pipe' = [pipe EXCEPT ![h] = v]
      BY <3>3 DEF FlowInv, PutStore, ReadFails, PipeSelect, PipeReports, PipeOutputs
    <3>4. pipe \in [Handlers -> {"none", "select", "msg", "expired", "malformed", "done"}]
      BY DEF TypeOK
    <3> QED BY <3>1, <3>2, <3>3, <3>4 DEF FlowInv
  <2>2. (\A h \in Handlers : packets[h] <= arrivals)'
    <3> DEFINE More(h) == /\ arrivals' = arrivals + 1
                          /\ packets' \in {packets, [packets EXCEPT ![h] = @ + 1]}
               Less(h) == packets' = [packets EXCEPT ![h] = @ - 1] /\ UNCHANGED arrivals
    <3>a. \/ UNCHANGED <<packets, arrivals>>
          \/ \E h \in Handlers : PacketOutputs(h) \/ \E input \in Inputs : Arrive(h, input)
      BY <1>2 DEF Next, PutCheck, PutStore, PeerFails, ReadFails, ReaderReports,
        ParserStops, PipeSelect, PipeReports, PipeOutputs, PacketReports,
        TimerFires, WgDone, ServerDrop, ServerPass, ServerStops, Cancel, DropAll, PoolCloses,
        UpperEnds
    <3>b. ASSUME NEW h \in Handlers, NEW input, Arrive(h, input) PROVE More(h)
      BY <3>b DEF Arrive
    <3>c. ASSUME NEW h \in Handlers, PacketOutputs(h) PROVE Less(h)
      BY <3>c DEF PacketOutputs
    <3>1. UNCHANGED <<packets, arrivals>> \/ \E h \in Handlers : More(h) \/ Less(h)
      BY <3>a, <3>b, <3>c
    <3>2. packets \in [Handlers -> Nat] /\ arrivals \in Nat
      BY ConstantsAssumption DEF TypeOK
    <3> QED BY <3>1, <3>2 DEF FlowInv
  <2>3. (disposer # "idle" \/ upper # "reading" => cancel)'
    <3>a. ASSUME NEW h \in Handlers,
                 \/ \E k \in Keys : PutCheck(h, k)
                 \/ PutStore(h)
                 \/ \E input \in Inputs : Arrive(h, input)
                 \/ \E kind \in {"eof", "network"} : PeerFails(h, kind)
                 \/ ReadFails(h) \/ ReaderReports(h) \/ ParserStops(h)
          PROVE  UNCHANGED <<cancel, disposer, upper>>
      BY <3>a DEF PutCheck, PutStore, Arrive, PeerFails, ReadFails, ReaderReports, ParserStops
    <3>b. ASSUME NEW h \in Handlers,
                 \/ PipeSelect(h) \/ PipeReports(h) \/ PipeOutputs(h) \/ PacketOutputs(h)
                 \/ PacketReports(h) \/ TimerFires(h) \/ WgDone(h)
          PROVE  UNCHANGED <<cancel, disposer, upper>>
      BY <3>b DEF PipeSelect, PipeReports, PipeOutputs, PacketOutputs, PacketReports,
        TimerFires, WgDone
    <3>c. ServerDrop \/ ServerPass \/ ServerStops => UNCHANGED <<cancel, disposer, upper>>
      BY DEF ServerDrop, ServerPass, ServerStops
    <3>1. \/ UNCHANGED <<cancel, disposer, upper>>
          \/ Cancel \/ DropAll \/ PoolCloses \/ UpperEnds
      BY <1>2, <3>a, <3>b, <3>c DEF Next
    <3>2. CASE Cancel \/ DropAll
      BY <3>2 DEF Cancel, DropAll
    <3>3. CASE PoolCloses
      <4>1. cancel /\ UNCHANGED cancel
        BY <3>3 DEF FlowInv, PoolCloses
      <4> QED BY <4>1
    <3>4. CASE UpperEnds
      <4>1. cancel /\ UNCHANGED cancel
        BY <3>4 DEF FlowInv, UpperEnds
      <4> QED BY <4>1
    <3> QED BY <3>1, <3>2, <3>3, <3>4 DEF FlowInv
  <2>4. NothingLost'
    <3>1. cancel => cancel'
      BY <1>2 DEF Next, PutCheck, PutStore, Arrive, PeerFails, ReadFails, ReaderReports,
        ParserStops, PipeSelect, PipeReports, PipeOutputs, PacketOutputs, PacketReports,
        TimerFires, WgDone, ServerDrop, ServerPass, ServerStops, Cancel, DropAll, PoolCloses,
        UpperEnds
    <3>2. CASE ~cancel
      <4>1. /\ Parsers \in Nat /\ Pipes \in Nat /\ Packets \in Nat /\ Passes \in {0, 1}
            /\ received \in Nat /\ delivered \in Nat
        BY FlightFinite DEF Parsers, Pipes, Packets, Passes, TypeOK
      <4>2. received = delivered + (Parsers + Pipes + Packets + Passes)
        BY <3>2 DEF FlowInv, NothingLost, InFlight, Parsers, Pipes, Packets, Passes
      <4>3. (received = delivered + (Parsers + Pipes + Packets + Passes))'
        BY <1>2, <3>2, <4>1, <4>2, FlowEffects
      <4> QED BY <4>3 DEF NothingLost, InFlight, Parsers, Pipes, Packets, Passes
    <3> QED BY <3>1, <3>2 DEF NothingLost
  <2> QED BY <2>1, <2>2, <2>3, <2>4 DEF FlowInv
<1> QED BY <1>1, <1>2

-----------------------------------------------------------------------------
IInv == TypeOK /\ StoreInv /\ EndInv /\ FlowInv

\* The initial states satisfy the invariant, and every step keeps it.
LEMMA Inductive == Spec => []IInv
<1>1. Init => IInv
  <2> SUFFICES ASSUME Init PROVE IInv
    OBVIOUS
  <2>1. AnyKey \in Keys
    BY ConstantsAssumption DEF AnyKey
  <2>2. TypeOK
    <3>1. /\ streamed \in BOOLEAN /\ cancel \in BOOLEAN
          /\ store \in [Keys -> Handlers \cup {NoHandler}]
          /\ canceled \in [Handlers -> BOOLEAN]
          /\ tick \in [Handlers -> BOOLEAN] /\ expired \in [Handlers -> BOOLEAN]
          /\ waited \in [Handlers -> BOOLEAN]
      BY DEF Init
    <3>2. herr \in [handler : Handlers \cup {NoHandler},
                   kind : {"none", "expired", "eof", "network"}]
      BY DEF Init, NoErr
    <3>3. /\ packets \in [Handlers -> Nat] /\ badPackets \in [Handlers -> Nat]
          /\ arrivals \in 0..MaxArrivals /\ received \in Nat /\ delivered \in Nat
      BY ConstantsAssumption DEF Init
    <3>. QED
      BY <2>1, <3>1, <3>2, <3>3 DEF Init, TypeOK, Inputs
  <2>3. StoreInv
    BY ConstantsAssumption, <2>1 DEF Init, StoreInv, LiveIsStored, Served
  <2>4. EndInv
    BY DEF Init, EndInv, Served, Closed, StreamPanicNeedsLatePut
  <2>5. FlowInv
    <3>1. InParsers = {} /\ InPipes = {}
      BY DEF Init, InParsers, InPipes
    <3>2. InPackets = {}
      <4>1. ASSUME NEW p \in Handlers \X (1..MaxArrivals) PROVE ~(p[2] <= packets[p[1]])
        <5>1. p[1] \in Handlers /\ p[2] \in 1..MaxArrivals
          OBVIOUS
        <5> QED BY <5>1, ConstantsAssumption DEF Init
      <4> QED BY <4>1 DEF InPackets
    <3>3. NothingLost
      BY <3>1, <3>2, FS_EmptySet DEF Init, NothingLost, InFlight
    <3> QED BY <3>3 DEF Init, FlowInv
  <2>. QED
    BY <2>2, <2>3, <2>4, <2>5 DEF IInv
<1>2. IInv /\ [Next]_vars => IInv'
  BY TypeStep, StoreStep, EndStep, FlowStep DEF IInv
<1>. QED
  BY <1>1, <1>2, PTL DEF Spec

\* The types of the pool.
THEOREM TypeCorrect == Spec => []TypeOK
<1>1. IInv => TypeOK
  BY DEF IInv
<1>. QED
  BY <1>1, Inductive, PTL

\* However Put, the errors of old connections, expiry and DropAll interleave, a
\* served connection is in the store under its key exactly until it is canceled.
THEOREM ServedUntilCanceled == Spec => []LiveIsStored
<1>1. IInv => LiveIsStored
  BY DEF IInv, StoreInv
<1>. QED
  BY <1>1, Inductive, PTL

\* dispose closes hmess and herrs only when no goroutine of a stream connection can
\* send on them any more, but for a connection stored after DropAll.
THEOREM CloseWaitsForStreams == Spec => []StreamPanicNeedsLatePut
<1>1. IInv => StreamPanicNeedsLatePut
  BY DEF IInv, EndInv
<1>. QED
  BY <1>1, Inductive, PTL

\* Until the pool is canceled every parsed message has been passed up once or is on its
\* way, in one place: dropping, expiring or replacing a connection loses none of its
\* messages and doubles none.
THEOREM MessagesAreKept == Spec => []NothingLost
<1>1. IInv => NothingLost
  BY DEF IInv, FlowInv
<1>. QED
  BY <1>1, Inductive, PTL
=============================================================================
