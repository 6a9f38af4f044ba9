---------------------------- MODULE GatewayProofs ----------------------------
(***************************************************************************)
(* Proofs about the gateway, for any cameras, HTTP requests, Channel       *)
(* objects and calls.                                                      *)
(*                                                                         *)
(* Two invariants, of different parts of the state.  RecoverInv follows a  *)
(* registration through the steps of handlers and a restart: what Redis    *)
(* holds is in the session, about to be deleted, stray, or in what Recover *)
(* has still to store; and what is about to be written to Redis is in the  *)
(* session or stray.  CallInv follows an open call: as                     *)
(* long as nothing overlaps, one request or catalog is under way           *)
(* (AloneInv), and LiveInv says what it knows of the call between two of   *)
(* its steps, when CallsAreKept alone does not.                            *)
(***************************************************************************)
EXTENDS Gateway, TLAPS

Pcs == {"idle", "take", "del", "sendBye", "bye", "cas", "send", "cache", "store"}
WithCall == {"del", "sendBye", "cache", "store"}

Requests == [pc : Pcs, kind : Kinds \cup {"none"}, obj : 0..MaxObjs,
             call : {None} \cup 0..MaxCalls]

\* What a request carries at each place.
OpInv ==
  \A o \in Ops :
    /\ op[o].pc # "idle" => op[o].obj \in 1..MaxObjs
    /\ op[o].pc = "cas" => op[o].kind = "invite"
    /\ op[o].pc \in {"cache", "store"} => op[o].call \in 1..MaxCalls
    /\ op[o].pc \notin WithCall => op[o].call = None

\* Recover has still to store what it has read; it is at work only when recovering, and nobody
\* is while the gateway is down.  A device that is being stored and is not in the session has
\* unregistered since.
RecoverInv ==
  /\ recover.todo # {} \/ recover.at # {} => up = "recovering"
  /\ up = "down" => \A h \in Handlers : writing[h].pc = "idle"
  /\ \A d \in Devices : Storing(d) => Found(d) \/ d \in stray
  /\ up # "down" => \A d \in Devices : redis[d] = "full" =>
       Found(d) \/ Removing(d) \/ d \in stray \/ d \in recover.todo

\* While nothing overlaps one request or catalog is under way, and none is after a restart.
AloneInv ==
  /\ hist # "overlap" =>
       /\ \A o1, o2 \in Ops : op[o1].pc # "idle" /\ op[o2].pc # "idle" => o1 = o2
       /\ catalog.pc # "idle" => \A o \in Ops : op[o].pc = "idle"
  /\ hist = "restarted" => \A o \in Ops : op[o].pc = "idle"

\* Then a request that has taken the open call holds it, and one that opens a call has
\* ended the last one; a catalog has read it.
LiveInv ==
  /\ hist = "overlap" => live = {}
  /\ catalog.pc = "read" => \A c \in live : catalog.value \in {None, c}
  /\ \A o \in Ops :
       /\ op[o].pc = "cas" \/ (op[o].pc = "send" /\ op[o].kind = "invite") => live = {}
       /\ op[o].pc \in WithCall => live \subseteq {op[o].call}
       /\ op[o].pc = "store" => cache = op[o].call \/ live = {}
CallInv == OpInv /\ InvitedMeansCalled /\ AloneInv /\ LiveInv /\ CallsAreKept
-----------------------------------------------------------------------------
\* What OpAt leaves of the other requests, and what it makes of its own.
LEMMA OpAtFacts ==
  ASSUME TypeOK, NEW o \in Ops, NEW pc \in Pcs, NEW call \in {None} \cup 0..MaxCalls,
         OpAt(o, pc, call)
  PROVE  /\ op' \in [Ops -> Requests]
         /\ \A k \in Ops \ {o} : op'[k] = op[k]
         /\ op'[o].pc = pc
         /\ pc = "idle" => op'[o].call = None
         /\ pc # "idle" => op'[o].kind = op[o].kind /\ op'[o].obj = op[o].obj /\ op'[o].call = call
<1>1. op[o] \in Requests
  BY DEF TypeOK, Pcs, Requests
<1>2. Idle \in Requests
  BY GatewayAssumption DEF Idle, Pcs, Requests
<1>3. [pc |-> pc, kind |-> op[o].kind, obj |-> op[o].obj, call |-> call]
        \in Requests
  BY <1>1 DEF Requests
<1>4. /\ op' \in [Ops -> Requests]
      /\ \A k \in Ops \ {o} : op'[k] = op[k]
      /\ op'[o] = IF pc = "idle" THEN Idle
                  ELSE [pc |-> pc, kind |-> op[o].kind, obj |-> op[o].obj, call |-> call]
  BY <1>2, <1>3 DEF OpAt, TypeOK, Pcs, Requests
<1> QED
  BY <1>4 DEF Idle

\* A new Channel object is one nothing refers to; it and the others that nothing refers to
\* are not invited.
LEMMA NewChannelFacts ==
  ASSUME TypeOK, NewChannel
  PROVE  /\ channel' \in 1..MaxObjs /\ channel' \in 0..MaxObjs
         /\ invited' \in [1..MaxObjs -> BOOLEAN] /\ callId' \in [1..MaxObjs -> 0..MaxCalls]
         /\ accepted' \subseteq 1..MaxObjs
         /\ \A n \in 1..MaxObjs : invited'[n] => invited[n] /\ (n \in accepted => n \in accepted')
<1> DEFINE free == 1..MaxObjs \ Referenced
<1>1. /\ channel' \in Least(free)
      /\ invited' = [i \in 1..MaxObjs |-> invited[i] /\ i \notin free]
      /\ callId' = [i \in 1..MaxObjs |-> IF i \in free THEN 0 ELSE callId[i]]
      /\ accepted' = accepted \ free
  BY DEF NewChannel
<1>2. channel' \in 1..MaxObjs /\ channel' \in 0..MaxObjs
  BY <1>1 DEF Least
<1> HIDE DEF free
<1>3. callId' \in [1..MaxObjs -> 0..MaxCalls]
  BY <1>1, GatewayAssumption DEF TypeOK
<1>4. invited' \in [1..MaxObjs -> BOOLEAN]
  BY <1>1, Zenon
<1>5. ASSUME NEW n \in 1..MaxObjs, invited'[n] PROVE invited[n] /\ n \notin free
  <2>1. invited'[n] = (invited[n] /\ n \notin free)
    BY <1>1
  <2> QED
    BY <1>5, <2>1
<1>6. /\ \A n \in 1..MaxObjs \ free : n \in accepted => n \in accepted'
      /\ accepted' \subseteq 1..MaxObjs
  BY <1>1 DEF TypeOK
<1> QED
  BY <1>2, <1>3, <1>4, <1>5, <1>6

\* Every step keeps the types.
LEMMA TypeStep == TypeOK /\ OpInv /\ [Next]_vars => TypeOK'
<1> SUFFICES ASSUME TypeOK, OpInv, [Next]_vars PROVE TypeOK'
  OBVIOUS
<1> USE DEF sessionVars, objectVars
<1> DEFINE Writes == [pc : {"idle", "put", "del", "delChannel"}, dev : Devices]
<1>1. ASSUME NEW h \in Handlers, NEW d \in Devices, OnRegister(h, d) PROVE TypeOK'
  <2>1. /\ session' \in [Devices -> {"none", "registered", "recovered"}] /\ stray' \subseteq Devices
        /\ writing' \in [Handlers -> Writes]
    BY <1>1 DEF OnRegister, Store, HandlerAt, TypeOK
  <2>2. /\ channel' \in 0..MaxObjs /\ accepted' \subseteq 1..MaxObjs
        /\ invited' \in [1..MaxObjs -> BOOLEAN] /\ callId' \in [1..MaxObjs -> 0..MaxCalls]
    <3>1. NewChannel \/ UNCHANGED objectVars
      BY <1>1, Zenon DEF OnRegister
    <3>2. CASE NewChannel
      BY <3>2, NewChannelFacts, Zenon
    <3>3. CASE UNCHANGED objectVars
      BY <3>3, Zenon DEF TypeOK
    <3> QED
      BY <3>1, <3>2, <3>3, Zenon
  <2> QED
    BY <1>1, <2>1, <2>2 DEF OnRegister, TypeOK
<1>2. ASSUME NEW h \in Handlers, NEW d \in Devices, Remove(h, d) \/ AddSession(h, d) PROVE TypeOK'
  <2>1. /\ session' \in [Devices -> {"none", "registered", "recovered"}] /\ stray' \subseteq Devices
        /\ writing' \in [Handlers -> Writes]
    <3>1. CASE Remove(h, d)
      BY <3>1 DEF Remove, HandlerAt, TypeOK
    <3>2. CASE AddSession(h, d)
      BY <3>2 DEF AddSession, Store, HandlerAt, TypeOK
    <3> QED
      BY <1>2, <3>1, <3>2
  <2>2. channel' \in 0..MaxObjs
    BY <1>2, GatewayAssumption DEF Remove, AddSession, TypeOK
  <2> QED
    BY <1>2, <2>1, <2>2 DEF Remove, AddSession, TypeOK
<1>3. ASSUME NEW h \in Handlers, PutRoute(h) \/ DelRoute(h) \/ DelChannelRoute(h) PROVE TypeOK'
  <2>1. writing[h].dev \in Devices /\ NoWrite \in Writes
    BY GatewayAssumption DEF TypeOK, NoWrite
  <2>2. redis' \in [Devices -> {"none", "full", "cseq"}] /\ stray' \subseteq Devices
    BY <1>3, <2>1 DEF PutRoute, DelRoute, DelChannelRoute, Register, TypeOK
  <2>3. writing' \in [Handlers -> Writes]
    <3>1. CASE PutRoute(h) \/ DelChannelRoute(h)
      BY <2>1, <3>1 DEF PutRoute, DelChannelRoute, TypeOK
    <3>2. CASE DelRoute(h)
      BY <2>1, <3>2 DEF DelRoute, HandlerAt, TypeOK
    <3> QED
      BY <1>3, <3>1, <3>2
  <2>4. info' \in {None} \cup 1..MaxCalls /\ live' \subseteq 1..MaxCalls
    BY <1>3 DEF PutRoute, DelRoute, DelChannelRoute, TypeOK
  <2> QED
    BY <1>3, <2>2, <2>3, <2>4 DEF PutRoute, DelRoute, DelChannelRoute, TypeOK
<1>4. ASSUME NEW d \in Devices, Expire(d) PROVE TypeOK'
  BY <1>4 DEF Expire, TypeOK
<1>5. ASSUME NEW d \in Devices, cSeqIncr(d) PROVE redis' \in [Devices -> {"none", "full", "cseq"}]
  BY <1>5 DEF cSeqIncr, TypeOK
<1>6. ASSUME NEW d \in Devices, Query(d) PROVE TypeOK'
  BY <1>5, <1>6 DEF Query, TypeOK
<1>7. ASSUME NEW d \in Devices, checkAndAddSession(d) PROVE TypeOK'
  <2>1. /\ session' \in [Devices -> {"none", "registered", "recovered"}] /\ stray' \subseteq Devices
        /\ recover' \in [todo : SUBSET Devices, at : SUBSET Devices, drop : SUBSET Devices]
    BY <1>7 DEF checkAndAddSession, Store, TypeOK
  <2>2. /\ channel' \in 0..MaxObjs /\ accepted' \subseteq 1..MaxObjs
        /\ invited' \in [1..MaxObjs -> BOOLEAN] /\ callId' \in [1..MaxObjs -> 0..MaxCalls]
    <3>1. NewChannel \/ UNCHANGED objectVars
      BY <1>7, Zenon DEF checkAndAddSession
    <3>2. CASE NewChannel
      BY <3>2, NewChannelFacts, Zenon
    <3>3. CASE UNCHANGED objectVars
      BY <3>3, Zenon DEF TypeOK
    <3> QED
      BY <3>1, <3>2, <3>3, Zenon
  <2> QED
    BY <1>7, <2>1, <2>2 DEF checkAndAddSession, TypeOK
<1>22. ASSUME NEW d \in Devices, RecoverPut(d) PROVE TypeOK'
  BY <1>22 DEF RecoverPut, Register, TypeOK
<1>8. Camera \in Devices /\ None \in {None} \cup 0..MaxCalls
  BY GatewayAssumption
<1>9. ASSUME NEW o \in Ops, NEW kind \in Kinds, Begin(o, kind) PROVE TypeOK'
  <2>1. op' \in [Ops -> Requests]
    BY <1>9 DEF Begin, TypeOK, Pcs, Kinds, Requests
  <2>2. hist' \in {"calm", "restarted", "overlap"} /\ live' \subseteq 1..MaxCalls
    BY <1>9 DEF Begin, Enter, TypeOK
  <2> QED
    BY <1>9, <2>1, <2>2 DEF Begin, TypeOK, Pcs, Requests
<1>10. ASSUME NEW o \in Ops, TakeInfo(o) PROVE TypeOK'
  <2>1. AfterBye(o) \in Pcs
    BY DEF AfterBye, Pcs
  <2>2. op' \in [Ops -> Requests]
    BY <1>8, <1>10, <2>1, OpAtFacts DEF TakeInfo, TypeOK, Pcs, Requests
  <2> QED
    BY <1>10, <2>2, GatewayAssumption DEF TakeInfo, TypeOK, Pcs, Requests
<1>11. ASSUME NEW o \in Ops, DelInfo(o) PROVE TypeOK'
  <2>1. op[o].call \in {None} \cup 0..MaxCalls
    BY DEF TypeOK
  <2>2. op' \in [Ops -> Requests]
    BY <1>11, <2>1, OpAtFacts DEF DelInfo, Pcs
  <2> QED
    BY <1>11, <2>2 DEF DelInfo, TypeOK, Pcs, Requests
<1>12. ASSUME NEW o \in Ops, SendBye2(o) \/ Bye(o) PROVE TypeOK'
  <2>1. AfterBye(o) \in Pcs /\ "idle" \in Pcs
    BY DEF AfterBye, Pcs
  <2>2. op' \in [Ops -> Requests]
    BY <1>8, <1>12, <2>1, OpAtFacts DEF SendBye2, Bye
  <2>3. redis' \in [Devices -> {"none", "full", "cseq"}] /\ live' \subseteq 1..MaxCalls
    BY <1>5, <1>8, <1>12 DEF SendBye2, Bye, TypeOK
  <2> QED
    BY <1>12, <2>2, <2>3 DEF SendBye2, Bye, TypeOK, Pcs, Requests
<1>13. ASSUME NEW o \in Ops, CompareAndSwap(o) PROVE TypeOK'
  <2>1. op' \in [Ops -> Requests]
    BY <1>8, <1>13, OpAtFacts DEF CompareAndSwap, Pcs
  <2>2. invited' \in [1..MaxObjs -> BOOLEAN]
    BY <1>13 DEF CompareAndSwap, TypeOK
  <2> QED
    BY <1>13, <2>1, <2>2 DEF CompareAndSwap, TypeOK, Pcs, Requests
<1>14. ASSUME NEW o \in Ops, SendInvite(o) PROVE TypeOK'
  <2>1. /\ redis' \in [Devices -> {"none", "full", "cseq"}]
        /\ UNCHANGED <<up, session, writing, recover, stray, channel, cache, info, catalog, hist>>
    BY <1>5, <1>8, <1>14 DEF SendInvite
  <2>2. CASE InviteFails(o)
    <3>1. op' \in [Ops -> Requests]
      BY <1>8, <2>2, OpAtFacts DEF InviteFails, Pcs
    <3>2. invited' \in [1..MaxObjs -> BOOLEAN]
      BY <2>2 DEF InviteFails, TypeOK
    <3> QED
      BY <2>1, <2>2, <3>1, <3>2 DEF InviteFails, TypeOK, Pcs, Requests
  <2>3. CASE ~InviteFails(o)
    <3>1. /\ accepted' = accepted \cup {op[o].obj} /\ UNCHANGED invited
          /\ \/ \E c \in Least(NewCalls) :
                  /\ callId' = [callId EXCEPT ![op[o].obj] = c]
                  /\ \/ OpAt(o, "cache", c) /\ live' \in {{}, live \cup {c}}
                     \/ OpAt(o, "idle", None) /\ UNCHANGED live
             \/ OpAt(o, "idle", None) /\ UNCHANGED <<callId, live>>
      BY <1>14, <2>3 DEF SendInvite
    <3>2. op[o].obj \in 1..MaxObjs
      BY <1>14 DEF SendInvite, OpInv
    <3>3. accepted' \subseteq 1..MaxObjs
      BY <3>1, <3>2 DEF TypeOK
    <3>4. CASE OpAt(o, "idle", None) /\ UNCHANGED <<callId, live>>
      <4>1. op' \in [Ops -> Requests]
        BY <1>8, <3>4, OpAtFacts DEF Pcs
      <4> QED
        BY <2>1, <3>1, <3>3, <3>4, <4>1 DEF TypeOK, Pcs, Requests
    <3>5. ASSUME NEW c \in Least(NewCalls), callId' = [callId EXCEPT ![op[o].obj] = c],
                 \/ OpAt(o, "cache", c) /\ live' \in {{}, live \cup {c}}
                 \/ OpAt(o, "idle", None) /\ UNCHANGED live
          PROVE  TypeOK'
      <4>1. c \in 1..MaxCalls
        BY DEF Least, NewCalls
      <4>2. op' \in [Ops -> Requests]
        BY <1>8, <3>5, <4>1, OpAtFacts DEF Pcs
      <4>3. callId' \in [1..MaxObjs -> 0..MaxCalls]
        <5>1. callId \in [1..MaxObjs -> 0..MaxCalls] /\ c \in 0..MaxCalls
          BY <4>1, GatewayAssumption DEF TypeOK
        <5> QED
          BY <3>5, <5>1
      <4>4. live' \subseteq 1..MaxCalls
        BY <3>5, <4>1 DEF TypeOK
      <4> QED
        BY <2>1, <3>1, <3>3, <4>2, <4>3, <4>4 DEF TypeOK, Pcs, Requests
    <3> QED
      BY <3>1, <3>4, <3>5
  <2> QED
    BY <2>2, <2>3
<1>15. ASSUME NEW o \in Ops, AddToCache(o) \/ AddToRedis(o) PROVE TypeOK'
  <2>1. op[o].call \in 1..MaxCalls
    BY <1>15 DEF AddToCache, AddToRedis, OpInv
  <2>2. op' \in [Ops -> Requests]
    BY <1>8, <1>15, <2>1, OpAtFacts DEF AddToCache, AddToRedis, Pcs
  <2>3. /\ cache' \in {None} \cup 0..MaxCalls /\ info' \in {None} \cup 1..MaxCalls
        /\ live' \subseteq 1..MaxCalls
    BY <1>15, <2>1 DEF AddToCache, AddToRedis, TypeOK
  <2> QED
    BY <1>15, <2>2, <2>3 DEF AddToCache, AddToRedis, TypeOK, Pcs, Requests
<1>16. CASE ReadInfo
  <2>1. /\ catalog' \in [pc : {"idle", "read"}, obj : 0..MaxObjs, value : {None} \cup 0..MaxCalls]
        /\ hist' \in {"calm", "restarted", "overlap"} /\ live' \subseteq 1..MaxCalls
    <3>1. info \in {None} \cup 0..MaxCalls /\ Empty \in 0..MaxCalls /\ channel \in 0..MaxObjs
      BY GatewayAssumption DEF TypeOK, Empty
    <3>2. catalog' \in [pc : {"idle", "read"}, obj : 0..MaxObjs, value : {None} \cup 0..MaxCalls]
      BY <1>16, <3>1 DEF ReadInfo
    <3>3. hist' \in {"calm", "restarted", "overlap"} /\ live' \subseteq 1..MaxCalls
      BY <1>16 DEF ReadInfo, Enter, TypeOK
    <3> QED
      BY <3>2, <3>3
  <2> QED
    BY <1>16, <2>1 DEF ReadInfo, TypeOK
<1>17. CASE UpdateChannels
  <2>1. /\ channel' \in 0..MaxObjs /\ accepted' \subseteq 1..MaxObjs
        /\ invited' \in [1..MaxObjs -> BOOLEAN] /\ callId' \in [1..MaxObjs -> 0..MaxCalls]
    <3>1. NewChannel \/ UNCHANGED objectVars
      BY <1>17, Zenon DEF UpdateChannels
    <3>2. CASE NewChannel
      BY <3>2, NewChannelFacts, Zenon
    <3>3. CASE UNCHANGED objectVars
      BY <3>3, Zenon DEF TypeOK
    <3> QED
      BY <3>1, <3>2, <3>3, Zenon
  <2>2. /\ catalog' \in [pc : {"idle", "read"}, obj : 0..MaxObjs, value : {None} \cup 0..MaxCalls]
        /\ hist' \in {"calm", "restarted", "overlap"} /\ cache' \in {None} \cup 0..MaxCalls
    BY <1>17, GatewayAssumption DEF UpdateChannels, NoCatalog, TypeOK
  <2> QED
    BY <1>17, <2>1, <2>2 DEF UpdateChannels, TypeOK
<1>18. CASE Crash
  <2>1. op' \in [Ops -> Requests]
    BY <1>18, GatewayAssumption DEF Crash, Idle, Pcs, Requests
  <2>2. catalog' \in [pc : {"idle", "read"}, obj : 0..MaxObjs, value : {None} \cup 0..MaxCalls]
    BY <1>18, GatewayAssumption DEF Crash, NoCatalog
  <2>3. /\ session' \in [Devices -> {"none", "registered", "recovered"}]
        /\ recover' \in [todo : SUBSET Devices, at : SUBSET Devices, drop : SUBSET Devices]
        /\ channel' \in 0..MaxObjs /\ cache' \in {None} \cup 0..MaxCalls
        /\ writing' \in [Handlers -> Writes] /\ accepted' \subseteq 1..MaxObjs
    BY <1>18, GatewayAssumption DEF Crash, NoWrite, NoRecover
  <2>4. /\ invited' \in [1..MaxObjs -> BOOLEAN] /\ callId' \in [1..MaxObjs -> 0..MaxCalls]
    BY <1>18, GatewayAssumption DEF Crash
  <2> QED
    BY <1>18, <2>1, <2>2, <2>3, <2>4 DEF Crash, TypeOK, Pcs, Requests
<1>19. CASE RecoverRead
  <2>1. recover' \in [todo : SUBSET Devices, at : SUBSET Devices, drop : SUBSET Devices]
    BY <1>19 DEF RecoverRead, TypeOK
  <2>2. stray' \subseteq Devices
    BY <1>19 DEF RecoverRead, Keys, TypeOK
  <2> QED
    BY <1>19, <2>1, <2>2 DEF RecoverRead, TypeOK
<1>20. CASE RecoverEnd
  BY <1>20 DEF RecoverEnd, NoRecover, TypeOK
<1>21. CASE UNCHANGED vars
  BY <1>21 DEF vars, TypeOK
<1> QED
  BY <1>1, <1>2, <1>3, <1>4, <1>6, <1>7, <1>9, <1>10, <1>11, <1>12, <1>13, <1>14, <1>15, <1>16,
     <1>17, <1>18, <1>19, <1>20, <1>21, <1>22 DEF Next

\* Registrations and the recovery: what Redis routes here is in the session, or is still to
\* be stored by Recover, or is known to be lost.
LEMMA RoutedStep == TypeOK /\ RecoverInv /\ [Next]_vars => RecoverInv'
<1> SUFFICES ASSUME TypeOK, RecoverInv, [Next]_vars PROVE RecoverInv'
  OBVIOUS
<1> USE DEF RecoverInv, Found, sessionVars
<1>1. ASSUME UNCHANGED <<up, session, writing, recover, stray>>,
             \A d \in Devices : redis'[d] = "full" => redis[d] = "full"
      PROVE  RecoverInv'
  BY <1>1 DEF Storing, Removing
<1>2. ASSUME NEW h \in Handlers, NEW d \in Devices, OnRegister(h, d) \/ AddSession(h, d)
      PROVE  RecoverInv'
  <2>1. /\ up # "down" /\ writing[h].pc = "idle"
        /\ session' = [session EXCEPT ![d] = "registered"] /\ stray' = stray \ {d}
        /\ writing' = [writing EXCEPT ![h] = [pc |-> "put", dev |-> d]]
        /\ UNCHANGED <<up, redis, recover>>
    BY <1>2 DEF OnRegister, AddSession, Store, HandlerAt
  <2>2. session'[d] # "none" /\ \A e \in Devices \ {d} : session'[e] = session[e]
    BY <2>1 DEF TypeOK
  <2>3. \A e \in Devices : /\ e # d /\ Storing(e)' => Storing(e)
                           /\ Removing(e) => Removing(e)'
    BY <2>1 DEF TypeOK, Storing, Removing
  <2> QED
    BY <2>1, <2>2, <2>3
<1>3. ASSUME NEW h \in Handlers, NEW d \in Devices, Remove(h, d) PROVE RecoverInv'
  <2>1. /\ up # "down" /\ writing[h].pc = "idle"
        /\ session' = [session EXCEPT ![d] = "none"]
        /\ stray' = IF Storing(d) THEN stray \cup {d} ELSE stray
        /\ writing' = [writing EXCEPT ![h] = [pc |-> "del", dev |-> d]]
        /\ UNCHANGED <<up, redis, recover>>
    BY <1>3 DEF Remove, HandlerAt
  <2>2. \A e \in Devices \ {d} : session'[e] = session[e]
    BY <2>1 DEF TypeOK
  <2>3. /\ Removing(d)'
        /\ \A e \in Devices : (Storing(e)' => Storing(e)) /\ (Removing(e) => Removing(e)')
    BY <2>1 DEF TypeOK, Storing, Removing
  <2> QED
    BY <2>1, <2>2, <2>3
<1>4. ASSUME NEW h \in Handlers, PutRoute(h) PROVE RecoverInv'
  <2> DEFINE d == writing[h].dev
  <2>1. /\ writing[h].pc = "put" /\ d \in Devices
        /\ redis' \in {redis, [redis EXCEPT ![d] = "full"]}
        /\ writing' = [writing EXCEPT ![h] = NoWrite]
        /\ UNCHANGED <<up, session, recover, stray>>
    BY <1>4 DEF PutRoute, Register, TypeOK
  <2>2. Storing(d)
    BY <2>1 DEF Storing, TypeOK
  <2>3. \A e \in Devices : (Storing(e)' => Storing(e)) /\ (Removing(e) => Removing(e)')
    BY <2>1 DEF TypeOK, Storing, Removing, NoWrite
  <2>4. \A e \in Devices : redis'[e] = "full" => e = d \/ redis[e] = "full"
    BY <2>1 DEF TypeOK
  <2>5. \A k \in Handlers : writing'[k].pc = "idle" \/ writing'[k] = writing[k]
    BY <2>1 DEF TypeOK, NoWrite
  <2> HIDE DEF d
  <2> QED
    BY <2>1, <2>2, <2>3, <2>4, <2>5
<1>5. ASSUME NEW h \in Handlers, DelRoute(h) PROVE RecoverInv'
  <2> DEFINE d == writing[h].dev
  <2>1. /\ writing[h].pc = "del" /\ d \in Devices
        /\ \/ /\ redis' = [redis EXCEPT ![d] = "none"]
              /\ stray' = IF Storing(d) THEN stray ELSE stray \ {d}
           \/ UNCHANGED redis /\ stray' = stray \cup {d}
        /\ writing' = [writing EXCEPT ![h] = [pc |-> "delChannel", dev |-> d]]
        /\ UNCHANGED <<up, session, recover>>
    BY <1>5 DEF DelRoute, HandlerAt, TypeOK
  <2>2. up # "down"
    BY <2>1
  <2>3. \A e \in Devices : /\ Storing(e)' => Storing(e)
                           /\ e # d /\ Removing(e) => Removing(e)'
    BY <2>1 DEF TypeOK, Storing, Removing
  <2>4. \A e \in Devices : redis'[e] = "full" => redis[e] = "full" /\ (e = d => d \in stray')
    BY <2>1 DEF TypeOK
  <2>5. \A e \in Devices : e \in stray => e \in stray' \/ (e = d /\ ~Storing(d))
    BY <2>1
  <2> HIDE DEF d
  <2> QED
    BY <2>1, <2>2, <2>3, <2>4, <2>5
<1>6. ASSUME NEW h \in Handlers, DelChannelRoute(h) PROVE RecoverInv'
  <2>1. /\ writing[h].pc = "delChannel" /\ writing' = [writing EXCEPT ![h] = NoWrite]
        /\ UNCHANGED <<up, session, redis, recover, stray>>
    BY <1>6 DEF DelChannelRoute
  <2>2. \A e \in Devices : (Storing(e)' => Storing(e)) /\ (Removing(e) => Removing(e)')
    BY <2>1 DEF TypeOK, Storing, Removing, NoWrite
  <2>3. \A k \in Handlers : writing'[k].pc = "idle" \/ writing'[k] = writing[k]
    BY <2>1 DEF TypeOK, NoWrite
  <2> QED
    BY <2>1, <2>2, <2>3
<1>7. ASSUME NEW d \in Devices, Expire(d) \/ Query(d) PROVE RecoverInv'
  BY <1>1, <1>7 DEF Expire, Query, cSeqIncr, TypeOK
<1>8. ASSUME NEW d \in Devices, checkAndAddSession(d) PROVE RecoverInv'
  <2>1. /\ d \in recover.todo /\ recover'.todo = recover.todo \ {d} /\ recover'.at = {d}
        /\ session' = [session EXCEPT ![d] = "recovered"] /\ stray' = stray \ {d}
        /\ UNCHANGED <<up, redis, writing>>
    BY <1>8 DEF checkAndAddSession, Store, TypeOK
  <2>2. session'[d] # "none" /\ \A e \in Devices \ {d} : session'[e] = session[e]
    BY <2>1 DEF TypeOK
  <2>3. \A e \in Devices : /\ e # d /\ Storing(e)' => Storing(e)
                           /\ Removing(e) => Removing(e)'
    BY <2>1 DEF Storing, Removing
  <2> QED
    BY <2>1, <2>2, <2>3
<1>9. ASSUME NEW d \in Devices, RecoverPut(d) PROVE RecoverInv'
  <2>1. /\ d \in recover.at /\ recover'.todo = recover.todo /\ recover'.at = {}
        /\ redis' \in {redis, [redis EXCEPT ![d] = "full"]}
        /\ UNCHANGED <<up, session, writing, stray>>
    BY <1>9 DEF RecoverPut, Register, TypeOK
  <2>2. Storing(d) /\ \A e \in Devices : (Storing(e)' => Storing(e)) /\ (Removing(e) => Removing(e)')
    BY <2>1 DEF Storing, Removing
  <2>3. \A e \in Devices : redis'[e] = "full" => e = d \/ redis[e] = "full"
    BY <2>1 DEF TypeOK
  <2> QED
    BY <2>1, <2>2, <2>3
<1>10. ASSUME NEW o \in Ops, SendBye2(o) \/ Bye(o) \/ SendInvite(o) PROVE RecoverInv'
  <2>1. Camera \in Devices
    BY GatewayAssumption
  <2>2. /\ UNCHANGED <<up, session, writing, recover, stray>>
        /\ UNCHANGED redis \/ cSeqIncr(Camera)
    BY <1>10 DEF SendBye2, Bye, SendInvite
  <2> QED
    BY <1>1, <2>1, <2>2 DEF cSeqIncr, TypeOK
<1>11. ASSUME NEW o \in Ops,
              \/ TakeInfo(o) \/ DelInfo(o) \/ CompareAndSwap(o) \/ AddToCache(o) \/ AddToRedis(o)
              \/ \E kind \in Kinds : Begin(o, kind)
       PROVE  RecoverInv'
  BY <1>1, <1>11 DEF Begin, TakeInfo, DelInfo, CompareAndSwap, AddToCache, AddToRedis
<1>12. CASE ReadInfo \/ UpdateChannels \/ UNCHANGED vars
  BY <1>1, <1>12 DEF ReadInfo, UpdateChannels, vars
<1>13. CASE Crash
  <2>1. /\ up' = "down" /\ recover'.todo = {} /\ recover'.at = {}
        /\ \A h \in Handlers : writing'[h].pc = "idle" /\ writing'[h] = NoWrite
    BY <1>13 DEF Crash, NoWrite, NoRecover
  <2>2. \A d \in Devices : ~Storing(d)'
    BY <2>1 DEF Storing, NoWrite
  <2> QED
    BY <2>1, <2>2
<1>14. CASE RecoverRead
  <2>1. up = "down" /\ up' = "recovering" /\ UNCHANGED <<session, redis, writing>>
    BY <1>14 DEF RecoverRead
  <2>2. recover.at = {} /\ \A h \in Handlers : writing[h].pc = "idle"
    BY <2>1
  <2>3. /\ recover'.at = {}
        /\ \A d \in Devices : redis[d] = "full" => d \in recover'.todo \/ d \in stray'
    BY <1>14, <2>2 DEF RecoverRead, Keys
  <2>4. \A d \in Devices : ~Storing(d)'
    BY <2>1, <2>2, <2>3 DEF Storing
  <2> QED
    BY <2>1, <2>3, <2>4
<1>15. CASE RecoverEnd
  <2>1. /\ up = "recovering" /\ recover.todo = {} /\ up' = "up" /\ recover'.todo = {}
        /\ recover.at = {} /\ recover'.at = {} /\ UNCHANGED <<writing, stray>>
    BY <1>15 DEF RecoverEnd, NoRecover
  <2>2. \A d \in Devices : /\ redis'[d] = "full" => redis[d] = "full"
                           /\ session[d] # "none" => session'[d] # "none"
    BY <1>15 DEF RecoverEnd, TypeOK
  <2>3. \A d \in Devices : (Storing(d)' => Storing(d)) /\ (Removing(d) => Removing(d)')
    BY <2>1 DEF Storing, Removing
  <2> QED
    BY <2>1, <2>2, <2>3
<1> QED
  BY <1>2, <1>3, <1>4, <1>5, <1>6, <1>7, <1>8, <1>9, <1>10, <1>11, <1>12, <1>13, <1>14, <1>15
  DEF Next

\* One request moves: an object is marked only if it was and the request did not mark it,
\* if it has a call, or if the request invites on it.
LEMMA InvitedStep ==
  ASSUME InvitedMeansCalled, NEW o \in Ops,
         \A k \in Ops \ {o} : op'[k] = op[k],
         \A n \in 1..MaxObjs : invited'[n] =>
           \/ n \in accepted'
           \/ op'[o].pc = "send" /\ op'[o].kind = "invite" /\ op'[o].obj = n
           \/ /\ invited[n] /\ (n \in accepted => n \in accepted')
              /\ ~(op[o].pc = "send" /\ op[o].kind = "invite" /\ op[o].obj = n)
  PROVE  InvitedMeansCalled'
<1> SUFFICES ASSUME NEW n \in 1..MaxObjs, invited'[n], n \notin accepted'
             PROVE  \E k \in Ops : op'[k].pc = "send" /\ op'[k].kind = "invite" /\ op'[k].obj = n
  BY DEF InvitedMeansCalled
<1>1. CASE op'[o].pc = "send" /\ op'[o].kind = "invite" /\ op'[o].obj = n
  BY <1>1
<1>2. CASE /\ invited[n] /\ (n \in accepted => n \in accepted')
           /\ ~(op[o].pc = "send" /\ op[o].kind = "invite" /\ op[o].obj = n)
  <2>1. PICK k \in Ops : op[k].pc = "send" /\ op[k].kind = "invite" /\ op[k].obj = n
    BY <1>2 DEF InvitedMeansCalled
  <2>2. op'[k] = op[k]
    BY <1>2, <2>1
  <2> QED
    BY <2>1, <2>2
<1> QED
  BY <1>1, <1>2

\* The steps of an HTTP request.
LEMMA RequestStep ==
  ASSUME TypeOK, TypeOK', CallInv, NEW o \in Ops,
         \/ \E kind \in Kinds : Begin(o, kind)
         \/ TakeInfo(o) \/ DelInfo(o) \/ SendBye2(o) \/ Bye(o)
         \/ CompareAndSwap(o) \/ SendInvite(o) \/ AddToCache(o) \/ AddToRedis(o)
  PROVE  CallInv'
<1> USE DEF sessionVars, objectVars
<1>0. /\ \A k \in Ops : op[k].call \in {None} \cup 0..MaxCalls /\ op[k].obj \in 0..MaxObjs
      /\ \A c \in live : c \in 1..MaxCalls /\ c # None
      /\ None \in {None} \cup 0..MaxCalls
  BY GatewayAssumption DEF TypeOK, None
<1>1. ASSUME NEW kind \in Kinds, Begin(o, kind) PROVE CallInv'
  <2>1. /\ \A k \in Ops \ {o} : op'[k] = op[k]
        /\ op[o].pc = "idle" /\ op'[o].obj \in 1..MaxObjs /\ op'[o].call = None
        /\ op'[o].pc \in {"take", "send", "bye"} /\ (op'[o].pc = "send" => op'[o].kind # "invite")
        /\ UNCHANGED <<invited, accepted, cache, info, catalog>>
    BY <1>1 DEF Begin, FindChannel, Kinds, TypeOK
  <2>2. /\ Busy => hist' = "overlap" /\ live' = {}
        /\ ~Busy => /\ hist' = "calm" \/ (hist' = hist /\ hist # "restarted" /\ hist # "overlap")
                    /\ live' \subseteq live
                    /\ hist = "restarted" => live' = {}
    BY <1>1 DEF Begin, Enter
  <2>3. OpInv'
    BY <2>1 DEF CallInv, OpInv, WithCall
  <2>4. InvitedMeansCalled'
    BY <2>1, InvitedStep DEF CallInv
  <2>5. AloneInv'
    <3>1. CASE Busy
      BY <2>2, <3>1 DEF AloneInv
    <3>2. CASE ~Busy
      <4>1. catalog'.pc = "idle" /\ \A k \in Ops \ {o} : op'[k].pc = "idle"
        BY <2>1, <3>2 DEF Busy
      <4>2. hist' # "restarted"
        BY <2>2, <3>2
      <4> QED
        BY <4>1, <4>2 DEF AloneInv
    <3> QED
      BY <3>1, <3>2
  <2>6. LiveInv'
    BY <2>1, <2>2 DEF CallInv, LiveInv, Busy, WithCall, TypeOK
  <2>7. CallsAreKept'
    BY <1>0, <2>1, <2>2 DEF CallInv, OpInv, LiveInv, CallsAreKept, InHand, Busy, WithCall
  <2> QED
    BY <2>3, <2>4, <2>5, <2>6, <2>7 DEF CallInv
<1>2. ASSUME TakeInfo(o) PROVE CallInv'
  <2>1. AfterBye(o) \in {"idle", "cas"} /\ (AfterBye(o) = "cas" => op[o].kind = "invite")
    BY DEF AfterBye
  <2>2. /\ \A k \in Ops \ {o} : op'[k] = op[k]
        /\ op[o].pc = "take" /\ op[o].obj \in 1..MaxObjs
        /\ invited' = [invited EXCEPT ![op[o].obj] = FALSE]
        /\ UNCHANGED <<accepted, info, catalog, live, hist>>
        /\ \/ /\ cache # None /\ cache' = None /\ op'[o].pc = "del" /\ op'[o].call = cache
              /\ op'[o].obj = op[o].obj
           \/ /\ cache = None /\ UNCHANGED cache /\ op'[o].pc \in {"idle", "cas"} /\ op'[o].call = None
              /\ op'[o].pc = "cas" => op'[o].kind = "invite" /\ op'[o].obj = op[o].obj
    <3>1. cache \in {None} \cup 0..MaxCalls /\ "del" \in Pcs /\ AfterBye(o) \in Pcs
      BY <2>1 DEF TypeOK, Pcs
    <3>2. op[o].obj \in 1..MaxObjs
      BY <1>2 DEF TakeInfo, CallInv, OpInv
    <3>3. ASSUME OpAt(o, "del", cache)
          PROVE  /\ \A k \in Ops \ {o} : op'[k] = op[k]
                 /\ op'[o].pc = "del" /\ op'[o].call = cache /\ op'[o].obj = op[o].obj
      BY <3>1, <3>3, OpAtFacts
    <3>4. ASSUME OpAt(o, AfterBye(o), None)
          PROVE  /\ \A k \in Ops \ {o} : op'[k] = op[k]
                 /\ op'[o].pc = AfterBye(o) /\ op'[o].call = None
                 /\ op'[o].pc = "cas" => op'[o].kind = op[o].kind /\ op'[o].obj = op[o].obj
      BY <1>0, <3>1, <3>4, OpAtFacts
    <3> QED
      BY <1>2, <2>1, <3>2, <3>3, <3>4 DEF TakeInfo
  <2>3. OpInv'
    BY <2>2 DEF CallInv, OpInv, WithCall
  <2>4. InvitedMeansCalled'
    <3>1. \A n \in 1..MaxObjs : invited'[n] => invited[n]
      BY <2>2 DEF TypeOK
    <3> QED
      BY <2>2, <3>1, InvitedStep DEF CallInv
  <2>5. AloneInv'
    BY <2>2 DEF CallInv, AloneInv
  <2>6. \A c \in live : cache = c /\ hist # "overlap"
    <3>1. \A k \in Ops : hist # "overlap" => op[k].call = None
      BY <2>2 DEF CallInv, AloneInv, OpInv, WithCall
    <3> QED
      BY <1>0, <2>2, <3>1 DEF CallInv, AloneInv, LiveInv, CallsAreKept, InHand
  <2>7. LiveInv'
    <3>1. \A k \in Ops \ {o} : hist # "overlap" => op'[k].pc = "idle"
      BY <2>2 DEF CallInv, AloneInv
    <3> QED
      BY <1>0, <2>2, <2>6, <3>1 DEF CallInv, LiveInv, WithCall
  <2>8. CallsAreKept'
    BY <1>0, <2>2, <2>6 DEF CallsAreKept, InHand
  <2> QED
    BY <2>3, <2>4, <2>5, <2>7, <2>8 DEF CallInv
<1>3. ASSUME DelInfo(o) PROVE CallInv'
  <2>1. /\ \A k \in Ops \ {o} : op'[k] = op[k]
        /\ op[o].pc = "del" /\ op'[o].pc = "sendBye" /\ op'[o].obj = op[o].obj
        /\ op'[o].call = op[o].call /\ op[o].obj \in 1..MaxObjs
        /\ UNCHANGED <<invited, accepted, cache, catalog, live, hist>>
    <3>1. "sendBye" \in Pcs
      BY DEF Pcs
    <3> QED
      BY <1>0, <1>3, <3>1, OpAtFacts DEF DelInfo, CallInv, OpInv
  <2>2. OpInv'
    BY <2>1 DEF CallInv, OpInv, WithCall
  <2>3. InvitedMeansCalled'
    BY <2>1, InvitedStep DEF CallInv
  <2>4. AloneInv'
    BY <2>1 DEF CallInv, AloneInv
  <2>5. LiveInv' /\ CallsAreKept'
    BY <2>1 DEF CallInv, LiveInv, CallsAreKept, InHand, WithCall
  <2> QED
    BY <2>2, <2>3, <2>4, <2>5 DEF CallInv
<1>4. ASSUME SendBye2(o) PROVE CallInv'
  <2>1. AfterBye(o) \in {"idle", "cas"} /\ (AfterBye(o) = "cas" => op[o].kind = "invite")
    BY DEF AfterBye
  <2>2. /\ \A k \in Ops \ {o} : op'[k] = op[k]
        /\ op[o].pc = "sendBye" /\ op'[o].pc \in {"idle", "cas"} /\ op'[o].call = None
        /\ op'[o].pc = "cas" => op'[o].kind = "invite" /\ op'[o].obj \in 1..MaxObjs
        /\ UNCHANGED <<invited, accepted, cache, info, catalog, hist>>
        /\ live' = live \ {op[o].call}
    <3>1. AfterBye(o) \in Pcs
      BY <2>1 DEF Pcs
    <3>2. op[o].obj \in 1..MaxObjs
      BY <1>4 DEF SendBye2, CallInv, OpInv
    <3>3. OpAt(o, AfterBye(o), None)
      BY <1>4 DEF SendBye2
    <3>4. /\ \A k \in Ops \ {o} : op'[k] = op[k]
          /\ op'[o].pc = AfterBye(o) /\ op'[o].call = None
          /\ op'[o].pc = "cas" => op'[o].kind = op[o].kind /\ op'[o].obj = op[o].obj
      BY <1>0, <3>1, <3>3, OpAtFacts
    <3> QED
      BY <1>4, <2>1, <3>2, <3>4 DEF SendBye2
  <2>3. OpInv'
    BY <2>2 DEF CallInv, OpInv, WithCall
  <2>4. InvitedMeansCalled'
    BY <2>2, InvitedStep DEF CallInv
  <2>5. AloneInv'
    BY <2>2 DEF CallInv, AloneInv
  <2>6. live' = {}
    BY <2>2 DEF CallInv, LiveInv, WithCall
  <2>7. LiveInv' /\ CallsAreKept'
    BY <2>2, <2>6 DEF CallInv, LiveInv, CallsAreKept
  <2> QED
    BY <2>3, <2>4, <2>5, <2>7 DEF CallInv
<1>5. ASSUME Bye(o) PROVE CallInv'
  <2>1. /\ \A k \in Ops \ {o} : op'[k] = op[k]
        /\ op[o].pc = "bye" /\ op'[o].pc = "idle" /\ op'[o].call = None
        /\ UNCHANGED <<invited, accepted, cache, info, catalog, hist>>
        /\ live' \subseteq live
    <3>1. "idle" \in Pcs
      BY DEF Pcs
    <3> QED
      BY <1>0, <1>5, <3>1, OpAtFacts DEF Bye
  <2>2. OpInv'
    BY <2>1 DEF CallInv, OpInv, WithCall
  <2>3. InvitedMeansCalled'
    BY <2>1, InvitedStep DEF CallInv
  <2>4. AloneInv'
    BY <2>1 DEF CallInv, AloneInv
  <2>5. LiveInv'
    BY <2>1 DEF CallInv, LiveInv, WithCall
  <2>6. CallsAreKept'
    <3>1. op[o].call = None
      BY <2>1 DEF CallInv, OpInv, WithCall
    <3> QED
      BY <1>0, <2>1, <3>1 DEF CallInv, CallsAreKept, InHand
  <2> QED
    BY <2>2, <2>3, <2>4, <2>5, <2>6 DEF CallInv
<1>6. ASSUME CompareAndSwap(o) PROVE CallInv'
  <2>1. /\ \A k \in Ops \ {o} : op'[k] = op[k]
        /\ op[o].pc = "cas" /\ op'[o].call = None /\ op[o].obj \in 1..MaxObjs
        /\ \/ op'[o].pc = "idle" /\ UNCHANGED invited
           \/ /\ op'[o].pc = "send" /\ op'[o].kind = "invite" /\ op'[o].obj = op[o].obj
              /\ invited' = [invited EXCEPT ![op[o].obj] = TRUE]
        /\ UNCHANGED <<accepted, cache, info, catalog, live, hist>>
    <3>1. "idle" \in Pcs /\ "send" \in Pcs
      BY DEF Pcs
    <3>2. op[o].obj \in 1..MaxObjs /\ op[o].kind = "invite"
      BY <1>6 DEF CompareAndSwap, CallInv, OpInv
    <3>3. ASSUME OpAt(o, "idle", None)
          PROVE  (\A k \in Ops \ {o} : op'[k] = op[k]) /\ op'[o].pc = "idle" /\ op'[o].call = None
      BY <1>0, <3>1, <3>3, OpAtFacts
    <3>4. ASSUME OpAt(o, "send", None)
          PROVE  /\ \A k \in Ops \ {o} : op'[k] = op[k]
                 /\ op'[o].pc = "send" /\ op'[o].call = None
                 /\ op'[o].kind = op[o].kind /\ op'[o].obj = op[o].obj
      BY <1>0, <3>1, <3>4, OpAtFacts
    <3> QED
      BY <1>6, <3>2, <3>3, <3>4 DEF CompareAndSwap
  <2>2. OpInv'
    BY <2>1 DEF CallInv, OpInv, WithCall
  <2>3. InvitedMeansCalled'
    <3>1. \A n \in 1..MaxObjs : invited'[n] =>
            \/ invited[n]
            \/ op'[o].pc = "send" /\ op'[o].kind = "invite" /\ op'[o].obj = n
      BY <2>1 DEF TypeOK
    <3> QED
      BY <2>1, <3>1, InvitedStep DEF CallInv
  <2>4. AloneInv'
    BY <2>1 DEF CallInv, AloneInv
  <2>5. live = {}
    BY <2>1 DEF CallInv, LiveInv
  <2>6. LiveInv' /\ CallsAreKept'
    BY <2>1, <2>5 DEF CallInv, LiveInv, CallsAreKept
  <2> QED
    BY <2>2, <2>3, <2>4, <2>6 DEF CallInv
<1>7. ASSUME SendInvite(o) PROVE CallInv'
  <2>1. op[o].pc = "send" /\ op[o].obj \in 1..MaxObjs /\ op[o].call = None
        /\ UNCHANGED <<cache, info, catalog, hist>>
    BY <1>7 DEF SendInvite, CallInv, OpInv, WithCall
  <2>2. CASE InviteFails(o)
    <3>1. /\ \A k \in Ops \ {o} : op'[k] = op[k]
          /\ op'[o].pc = "idle" /\ op'[o].call = None
          /\ UNCHANGED <<accepted, live>>
          /\ invited' = IF op[o].kind = "invite" THEN [invited EXCEPT ![op[o].obj] = FALSE]
                                                ELSE invited
      <4>1. "idle" \in Pcs
        BY DEF Pcs
      <4> QED
        BY <1>0, <2>2, <4>1, OpAtFacts DEF InviteFails
    <3>2. OpInv'
      BY <3>1 DEF CallInv, OpInv, WithCall
    <3>3. InvitedMeansCalled'
      <4>1. \A n \in 1..MaxObjs : invited'[n] =>
              invited[n] /\ ~(op[o].kind = "invite" /\ op[o].obj = n)
        BY <2>1, <3>1 DEF TypeOK
      <4> QED
        BY <3>1, <4>1, InvitedStep DEF CallInv
    <3>4. AloneInv'
      BY <2>1, <3>1 DEF CallInv, AloneInv
    <3>5. LiveInv'
      BY <2>1, <3>1 DEF CallInv, LiveInv, WithCall
    <3>6. CallsAreKept'
      BY <1>0, <2>1, <3>1 DEF CallInv, CallsAreKept, InHand
    <3> QED
      BY <3>2, <3>3, <3>4, <3>5, <3>6 DEF CallInv
  <2>3. CASE ~InviteFails(o)
    <3>1. /\ accepted' = accepted \cup {op[o].obj} /\ UNCHANGED invited
          /\ \/ \E c \in Least(NewCalls) :
                  /\ op[o].kind = "invite" /\ OpAt(o, "cache", c)
                  /\ live' = IF hist = "overlap" THEN {} ELSE live \cup {c}
             \/ OpAt(o, "idle", None) /\ UNCHANGED live
      BY <1>7, <2>3 DEF SendInvite
    <3>2. \A c \in Least(NewCalls) : c \in 1..MaxCalls /\ c \in {None} \cup 0..MaxCalls
      <4>1. \A c \in Least(NewCalls) : c \in 1..MaxCalls
        BY DEF Least, NewCalls
      <4> QED
        BY <4>1, GatewayAssumption
    <3>3. /\ \A k \in Ops \ {o} : op'[k] = op[k]
          /\ \/ /\ op'[o].pc = "cache" /\ op'[o].call \in 1..MaxCalls /\ op'[o].obj = op[o].obj
                /\ op[o].kind = "invite"
                /\ live' = IF hist = "overlap" THEN {} ELSE live \cup {op'[o].call}
             \/ op'[o].pc = "idle" /\ op'[o].call = None /\ UNCHANGED live
      <4>1. "idle" \in Pcs /\ "cache" \in Pcs
        BY DEF Pcs
      <4>2. ASSUME NEW c \in Least(NewCalls), OpAt(o, "cache", c)
            PROVE  /\ \A k \in Ops \ {o} : op'[k] = op[k]
                   /\ op'[o].pc = "cache" /\ op'[o].call = c /\ op'[o].obj = op[o].obj
        BY <3>2, <4>1, <4>2, OpAtFacts
      <4>3. ASSUME OpAt(o, "idle", None)
            PROVE  (\A k \in Ops \ {o} : op'[k] = op[k]) /\ op'[o].pc = "idle" /\ op'[o].call = None
        BY <1>0, <4>1, <4>3, OpAtFacts
      <4>4. CASE OpAt(o, "idle", None) /\ UNCHANGED live
        BY <4>3, <4>4
      <4>5. ASSUME NEW c \in Least(NewCalls), op[o].kind = "invite", OpAt(o, "cache", c),
                   live' = IF hist = "overlap" THEN {} ELSE live \cup {c}
            PROVE  /\ \A k \in Ops \ {o} : op'[k] = op[k]
                   /\ op'[o].pc = "cache" /\ op'[o].call \in 1..MaxCalls /\ op'[o].obj = op[o].obj
                   /\ live' = IF hist = "overlap" THEN {} ELSE live \cup {op'[o].call}
        BY <3>2, <4>2, <4>5
      <4> QED
        BY <3>1, <4>4, <4>5
    <3>4. OpInv'
      BY <2>1, <3>3 DEF CallInv, OpInv, WithCall
    <3>5. InvitedMeansCalled'
      <4>1. \A n \in 1..MaxObjs : invited'[n] =>
              n \in accepted' \/ (invited[n] /\ (n \in accepted => n \in accepted') /\ op[o].obj # n)
        BY <3>1
      <4> QED
        BY <3>3, <4>1, InvitedStep DEF CallInv
    <3>6. AloneInv'
      BY <2>1, <3>3 DEF CallInv, AloneInv
    <3>7. CASE op'[o].pc = "idle"
      <4>1. LiveInv'
        BY <2>1, <3>3, <3>7 DEF CallInv, LiveInv, WithCall
      <4>2. CallsAreKept'
        BY <1>0, <2>1, <3>3, <3>7 DEF CallInv, CallsAreKept, InHand
      <4> QED
        BY <3>4, <3>5, <3>6, <4>1, <4>2 DEF CallInv
    <3>8. CASE op'[o].pc = "cache"
      <4>1. live' \subseteq {op'[o].call} /\ (hist = "overlap" => live' = {})
        BY <2>1, <3>1, <3>3, <3>8 DEF CallInv, LiveInv
      <4>2. \A k \in Ops \ {o} : hist # "overlap" => op'[k].pc = "idle"
        BY <2>1, <3>3 DEF CallInv, AloneInv
      <4>3. hist # "overlap" => catalog.pc # "read"
        BY <2>1 DEF CallInv, AloneInv
      <4>4. LiveInv'
        BY <2>1, <3>3, <3>8, <4>1, <4>2, <4>3 DEF LiveInv, WithCall
      <4>5. CallsAreKept'
        BY <3>3, <3>8, <4>1 DEF CallsAreKept, InHand
      <4> QED
        BY <3>4, <3>5, <3>6, <4>4, <4>5 DEF CallInv
    <3> QED
      BY <3>3, <3>7, <3>8
  <2> QED
    BY <2>2, <2>3
<1>8. ASSUME AddToCache(o) PROVE CallInv'
  <2>1. /\ \A k \in Ops \ {o} : op'[k] = op[k]
        /\ op[o].pc = "cache" /\ op'[o].pc = "store" /\ op'[o].call = op[o].call
        /\ op'[o].obj = op[o].obj /\ op[o].obj \in 1..MaxObjs
        /\ cache' = op[o].call
        /\ UNCHANGED <<invited, accepted, info, catalog, live, hist>>
    <3>1. "store" \in Pcs
      BY DEF Pcs
    <3> QED
      BY <1>0, <1>8, <3>1, OpAtFacts DEF AddToCache, CallInv, OpInv
  <2>2. OpInv'
    BY <2>1 DEF CallInv, OpInv, WithCall
  <2>3. InvitedMeansCalled'
    BY <2>1, InvitedStep DEF CallInv
  <2>4. AloneInv'
    BY <2>1 DEF CallInv, AloneInv
  <2>5. \A k \in Ops \ {o} : hist # "overlap" => op'[k].pc = "idle"
    BY <2>1 DEF CallInv, AloneInv
  <2>6. LiveInv'
    BY <2>1, <2>5 DEF CallInv, LiveInv, WithCall
  <2>7. CallsAreKept'
    BY <2>1 DEF CallInv, LiveInv, CallsAreKept, InHand, WithCall
  <2> QED
    BY <2>2, <2>3, <2>4, <2>6, <2>7 DEF CallInv
<1>9. ASSUME AddToRedis(o) PROVE CallInv'
  <2>1. /\ \A k \in Ops \ {o} : op'[k] = op[k]
        /\ op[o].pc = "store" /\ op'[o].pc = "idle" /\ op'[o].call = None
        /\ (info' = op[o].call /\ UNCHANGED live) \/ live' = live \ {op[o].call}
        /\ UNCHANGED <<invited, accepted, cache, catalog, hist>>
    <3>1. "idle" \in Pcs
      BY DEF Pcs
    <3> QED
      BY <1>0, <1>9, <3>1, OpAtFacts DEF AddToRedis
  <2>2. OpInv'
    BY <2>1 DEF CallInv, OpInv, WithCall
  <2>3. InvitedMeansCalled'
    BY <2>1, InvitedStep DEF CallInv
  <2>4. AloneInv'
    BY <2>1 DEF CallInv, AloneInv
  <2>5. LiveInv'
    BY <2>1 DEF CallInv, LiveInv, WithCall
  <2>6. CallsAreKept'
    <3>1. live \subseteq {op[o].call} /\ (live # {} => cache = op[o].call)
      BY <2>1 DEF CallInv, LiveInv, WithCall
    <3>2. \A c \in live' : info' = c /\ cache' = c
      BY <2>1, <3>1
    <3> QED
      BY <3>2 DEF CallsAreKept
  <2> QED
    BY <2>2, <2>3, <2>4, <2>5, <2>6 DEF CallInv
<1> QED
  BY <1>1, <1>2, <1>3, <1>4, <1>5, <1>6, <1>7, <1>8, <1>9

\* The other steps: registrations, catalogs, a crash and the recovery.
LEMMA CallStep == TypeOK /\ TypeOK' /\ CallInv /\ [Next]_vars => CallInv'
<1> SUFFICES ASSUME TypeOK, TypeOK', CallInv, [Next]_vars PROVE CallInv'
  OBVIOUS
<1> USE DEF sessionVars, objectVars
<1>0. /\ \A c \in live : c \in 1..MaxCalls /\ c # None
      /\ \A k \in Ops : op[k].pc = "idle" => op[k].call = None
  <2>1. \A c \in live : c \in 1..MaxCalls /\ c # None
    BY GatewayAssumption DEF TypeOK, None
  <2> QED
    BY <2>1 DEF CallInv, OpInv, WithCall
<1>1. ASSUME UNCHANGED op,
             \A n \in 1..MaxObjs : invited'[n] => invited[n] /\ (n \in accepted => n \in accepted')
      PROVE  OpInv' /\ InvitedMeansCalled'
  BY <1>1 DEF CallInv, OpInv, InvitedMeansCalled
<1>2. ASSUME UNCHANGED <<op, cache, catalog, hist>>,
             \/ UNCHANGED <<live, info>>
             \/ live' = {x \in live : InHand(x)}
      PROVE  AloneInv' /\ LiveInv' /\ CallsAreKept'
  BY <1>2 DEF CallInv, AloneInv, LiveInv, CallsAreKept, InHand
<1>3. ASSUME UNCHANGED <<op, catalog, hist, cache, live, info>>,
             NewChannel \/ UNCHANGED <<invited, accepted>>
      PROVE  CallInv'
  BY <1>1, <1>2, <1>3, NewChannelFacts DEF CallInv
<1>4. ASSUME NEW h \in Handlers, NEW d \in Devices,
             OnRegister(h, d) \/ AddSession(h, d) \/ Remove(h, d)
      PROVE  CallInv'
  BY <1>3, <1>4 DEF OnRegister, AddSession, Remove
<1>5. ASSUME NEW h \in Handlers, DelChannelRoute(h) PROVE CallInv'
  <2>1. /\ UNCHANGED <<op, cache, catalog, hist, invited, accepted>>
        /\ UNCHANGED <<live, info>> \/ live' = {x \in live : InHand(x)}
    BY <1>5 DEF DelChannelRoute
  <2> QED
    BY <1>1, <1>2, <2>1 DEF CallInv
<1>6. CASE ReadInfo
  <2>1. /\ UNCHANGED <<op, cache, info, invited, accepted>>
        /\ catalog'.pc = "read" /\ catalog'.value \in {IF info = None THEN Empty ELSE info, None}
    BY <1>6 DEF ReadInfo
  <2>2. CASE Busy
    <3>1. hist' = "overlap" /\ live' = {}
      BY <1>6, <2>2 DEF ReadInfo, Enter
    <3> QED
      BY <1>1, <2>1, <3>1 DEF CallInv, AloneInv, LiveInv, CallsAreKept
  <2>3. CASE ~Busy
    <3>1. /\ live' = live /\ \A k \in Ops : op[k].pc = "idle"
          /\ hist' # "overlap" /\ (hist = "restarted" => hist' = "restarted")
      BY <1>6, <2>3 DEF ReadInfo, Enter, Busy
    <3>2. \A c \in live : info = c /\ (cache = c \/ hist' = "restarted")
      BY <1>0, <3>1 DEF CallInv, CallsAreKept, InHand
    <3>3. AloneInv'
      BY <2>1, <3>1 DEF AloneInv
    <3>4. LiveInv'
      BY <1>0, <2>1, <3>1, <3>2 DEF LiveInv, WithCall
    <3>5. CallsAreKept'
      BY <2>1, <3>1, <3>2 DEF CallsAreKept
    <3> QED
      BY <1>1, <2>1, <3>3, <3>4, <3>5 DEF CallInv
  <2> QED
    BY <2>2, <2>3
<1>7. CASE UpdateChannels
  <2>1. /\ UNCHANGED <<op, info, live>>
        /\ NewChannel \/ UNCHANGED <<invited, accepted>>
        /\ catalog.pc = "read" /\ catalog'.pc = "idle"
        /\ \/ cache' = cache /\ hist' = hist
           \/ cache' = catalog.value /\ catalog.value # None /\ hist' \in {hist, "calm"}
        /\ hist = "overlap" => hist' = "overlap"
        /\ hist' = "overlap" => hist = "overlap"
    BY <1>7 DEF UpdateChannels, NoCatalog
  <2>2. OpInv' /\ InvitedMeansCalled'
    BY <1>1, <2>1, NewChannelFacts
  <2>3. AloneInv'
    BY <2>1 DEF CallInv, AloneInv
  <2>4. LiveInv'
    BY <2>1 DEF CallInv, AloneInv, LiveInv
  <2>5. CallsAreKept'
    BY <2>1 DEF CallInv, LiveInv, CallsAreKept, InHand
  <2> QED
    BY <2>2, <2>3, <2>4, <2>5 DEF CallInv
<1>8. CASE Crash
  <2>1. /\ \A o \in Ops : op'[o].pc = "idle" /\ op'[o].call = None
        /\ catalog'.pc = "idle" /\ hist' = "restarted" /\ UNCHANGED info
        /\ live' = {c \in live : ~InHand(c)}
    BY <1>8 DEF Crash, Idle, NoCatalog
  <2>2. OpInv'
    BY <2>1 DEF OpInv, WithCall
  <2>3. InvitedMeansCalled'
    BY <1>8 DEF Crash, InvitedMeansCalled
  <2>4. AloneInv' /\ LiveInv'
    BY <2>1 DEF AloneInv, LiveInv, WithCall
  <2>5. CallsAreKept'
    BY <2>1 DEF CallInv, CallsAreKept
  <2> QED
    BY <2>2, <2>3, <2>4, <2>5 DEF CallInv
<1>9. CASE RecoverRead \/ RecoverEnd \/ UNCHANGED vars
  BY <1>3, <1>9 DEF RecoverRead, RecoverEnd, vars
<1>10. ASSUME NEW d \in Devices, Expire(d) \/ Query(d) \/ checkAndAddSession(d) \/ RecoverPut(d)
       PROVE  CallInv'
  BY <1>3, <1>10 DEF Expire, Query, checkAndAddSession, RecoverPut
<1>11. ASSUME NEW h \in Handlers, PutRoute(h) \/ DelRoute(h) PROVE CallInv'
  BY <1>3, <1>11 DEF PutRoute, DelRoute
<1> QED
  BY <1>4, <1>5, <1>6, <1>7, <1>8, <1>9, <1>10, <1>11, RequestStep DEF Next

\* A new gateway, with an empty Redis, has the invariants, and every step keeps them.
LEMMA Inductive == Spec => [](TypeOK /\ RecoverInv /\ CallInv)
<1>1. Init => TypeOK /\ RecoverInv /\ CallInv
  <2> SUFFICES ASSUME Init PROVE TypeOK /\ RecoverInv /\ CallInv
    OBVIOUS
  <2>1. op \in [Ops -> Requests]
    BY GatewayAssumption DEF Init, Idle, Requests, Pcs
  <2>2. TypeOK
    BY <2>1, GatewayAssumption DEF Init, TypeOK, Requests, Pcs, NoCatalog, NoWrite, NoRecover
  <2>3. RecoverInv
    BY DEF Init, RecoverInv, Storing, NoWrite, NoRecover
  <2>4. OpInv /\ InvitedMeansCalled /\ AloneInv
    BY DEF Init, OpInv, InvitedMeansCalled, AloneInv, Idle, NoCatalog, WithCall
  <2>5. LiveInv /\ CallsAreKept
    BY DEF Init, LiveInv, CallsAreKept, Idle, NoCatalog, WithCall
  <2> QED
    BY <2>2, <2>3, <2>4, <2>5 DEF CallInv
<1>2. TypeOK /\ RecoverInv /\ CallInv /\ [Next]_vars
        => (TypeOK /\ RecoverInv /\ CallInv)'
  BY TypeStep, RoutedStep, CallStep DEF CallInv
<1> QED
  BY <1>1, <1>2, PTL DEF Spec

\* However requests, catalogs, registrations and restarts follow each other: a Channel
\* object is marked as invited only if its INVITE was accepted or is under way.
THEOREM InvitedIsTrue == Spec => []InvitedMeansCalled
<1>1. CallInv => InvitedMeansCalled
  BY DEF CallInv
<1> QED
  BY Inductive, <1>1, PTL

\* A call that is followed is held by the request that opens or ends it, or is in Redis and
\* in the cache, or comes back to it with the first catalog after a restart.
THEOREM OpenCallsAreKept == Spec => []CallsAreKept
<1>1. CallInv => CallsAreKept
  BY DEF CallInv
<1> QED
  BY Inductive, <1>1, PTL

\* What Redis routes to a gateway that is up is in its session or about to be deleted, also
\* after any number of restarts and however handlers and Recover overlap, unless the device
\* unregistered while a registration of it was being stored, or Redis failed it.
THEOREM RoutesAreServed == Spec => []RoutedIsServed
<1>1. RecoverInv => RoutedIsServed
  BY DEF RecoverInv, RoutedIsServed
<1> QED
  BY Inductive, <1>1, PTL

\* With the numbers of session.go:44-48 the slice goes beyond the keys as soon as there are
\* 50 of them: Recover panics, and the gateway does not start.
THEOREM RecoverNeedsFewKeys ==
  ASSUME Batch = 50, Reach = 500, NEW n \in Nat, n >= 50
  PROVE  RecoverPanics(n)
<1> DEFINE k == (n \div 50) - 1
<1>1. k \in 0..n /\ k * 50 + 50 <= n /\ n < k * 50 + 100
  OBVIOUS
<1> HIDE DEF k
<1>2. k * Batch < n /\ ~(k * Batch + Batch > n) /\ k * Batch + Reach > n
  BY <1>1
<1> SUFFICES \E j \in 0..n :
               j * Batch < n /\ (IF j * Batch + Batch > n THEN n ELSE j * Batch + Reach) > n
  BY DEF RecoverPanics
<1> USE <1>1
<1> WITNESS k \in 0..n
<1> QED
  BY <1>2
=============================================================================
