------------------------------ MODULE Gateway ------------------------------
(***************************************************************************)
(* The GB28181 gateway of gb28181/: the registrations of the cameras, kept *)
(* in memory and in Redis, their recovery after a restart, and the video   *)
(* calls that the HTTP API opens and closes on a channel of one camera.    *)
(*                                                                         *)
(* A call is recorded in three places: the Channel object that sent the    *)
(* INVITE (invited, CallId), the map channelCache, and a Redis hash that   *)
(* survives a restart.  A catalog sent by the camera replaces the Channel  *)
(* object and loads the cache from Redis.                                  *)
(*                                                                         *)
(* HTTP requests, the handlers of SIP requests and Recover run             *)
(* concurrently, without a lock: each of their accesses to a map or to     *)
(* Redis is a step of its own.  Of the maps, session is a sync.Map; the    *)
(* others are not synchronized, and the crash with which the runtime may   *)
(* answer that is one of the crashes here.                                 *)
(***************************************************************************)
EXTENDS Integers, FiniteSets

CONSTANTS
  Devices,   \* cameras
  Camera,    \* the one whose channel is called
  Handlers,  \* handlers of REGISTER and /addSession that may be under way at once
  Ops,       \* HTTP requests about calls that may be under way at once
  Batch,     \* 50: Recover takes the keys in steps of Batch
  Reach,     \* 500: the length of the slice it takes
  MaxObjs,   \* bound: Channel objects in use at once
  MaxCalls   \* bound: calls open or remembered at once

ASSUME GatewayAssumption ==
  /\ IsFiniteSet(Devices) /\ Camera \in Devices
  /\ Batch \in Nat \ {0} /\ Reach \in Nat
  /\ MaxObjs \in Nat /\ MaxCalls \in Nat

VARIABLES
  up,        \* the process: down, recovering (SIP is served), up (HTTP too)
  session,   \* Session.session: how a device came into it (told apart until up)
  redis,     \* the hash of a device: none, all fields, or only the CSeq
  writing,   \* what a handler has still to write to Redis, for which device
  recover,   \* what Recover has read: sessions to store, the one it is storing, keys to delete
  stray,     \* devices whose key may stay in Redis without a session: see RoutedIsServed
  channel,   \* the Channel object in the ChannelMap of the camera, 0 for none
  invited,   \* invited of a Channel object
  callId,    \* CallId of a Channel object, 0 for ""
  accepted,  \* Channel objects whose INVITE was answered with a 200
  cache,     \* channelCache of the channel: None, Empty or a call
  info,      \* the Redis hash of the channel: None or a call
  op,        \* where an HTTP request is
  catalog,   \* where the handling of a catalog is
  live,      \* open calls that must not be forgotten: see CallsAreKept
  hist       \* what happens: calm, restarted (and no catalog since), overlap

None  == -1   \* no entry
Empty == 0    \* an entry with empty strings

sessionVars == <<session, redis, writing, recover, stray>>
objectVars  == <<channel, invited, callId, accepted>>
vars == <<up, sessionVars, objectVars, cache, info, op, catalog, live, hist>>

Idle      == [pc |-> "idle", kind |-> "none", obj |-> 0, call |-> None]
NoWrite   == [pc |-> "idle", dev |-> Camera]
NoRecover == [todo |-> {}, at |-> {}, drop |-> {}]
NoCatalog == [pc |-> "idle", obj |-> 0, value |-> None]
Busy      == catalog.pc # "idle" \/ \E o \in Ops : op[o].pc # "idle"

\* The call is held by the request that opens or ends it.
InHand(c) == \E o \in Ops : op[o].call = c

\* A request or the handling of a catalog begins.  If another one is under way, no call
\* is followed until both are over.
Enter ==
  /\ hist' = IF Busy THEN "overlap" ELSE IF hist = "overlap" THEN "calm" ELSE hist
  /\ live' = IF Busy THEN {} ELSE live

-----------------------------------------------------------------------------
(***************************************************************************)
(* Registrations.                                                          *)
(***************************************************************************)

\* No more than one number, the next one to use
Least(S) == {n \in S : \A i \in S : n <= i}

\* Channel objects that something refers to besides the ChannelMap; the numbers of the
\* others are used again.
Referenced == {op[o].obj : o \in Ops} \cup {catalog.obj}

\* A new Channel object for the camera.
NewChannel ==
  LET free == 1..MaxObjs \ Referenced
  IN  /\ channel' \in Least(free)
      /\ invited' = [i \in 1..MaxObjs |-> invited[i] /\ i \notin free]
      /\ callId' = [i \in 1..MaxObjs |-> IF i \in free THEN 0 ELSE callId[i]]
      /\ accepted' = accepted \ free

\* Calls that are neither open nor remembered.
NewCalls == 1..MaxCalls \ (live \cup {cache, info, catalog.value} \cup {op[o].call : o \in Ops}
                           \cup {callId[n] : n \in 1..MaxObjs})

\* Session.Store of a device begins with the map,
Store(d, how) ==
  /\ session' = [session EXCEPT ![d] = how]
  /\ stray' = stray \ {d}

\* and goes on with Register in Redis, whose failure is only logged.
Register(d) == redis' \in {redis, [redis EXCEPT ![d] = "full"]}

\* A device is between the two steps of Store, or between those of Remove.
Storing(d)  == d \in recover.at \/ \E h \in Handlers : writing[h] = [pc |-> "put", dev |-> d]
Removing(d) == \E h \in Handlers : writing[h] = [pc |-> "del", dev |-> d]

HandlerAt(h, pc, d) == writing' = [writing EXCEPT ![h] = [pc |-> pc, dev |-> d]]

\* OnRegister with a valid digest and Expires > 0: a new device with its own channel.
\* (The answers 401 to the other requests change nothing.)
OnRegister(h, d) ==
  /\ up # "down" /\ writing[h].pc = "idle"
  /\ Store(d, "registered")
  /\ HandlerAt(h, "put", d)
  /\ IF d = Camera THEN NewChannel ELSE UNCHANGED objectVars
  /\ UNCHANGED <<up, redis, recover, cache, info, op, catalog, live, hist>>

\* /addSession: a device without channels
AddSession(h, d) ==
  /\ up = "up" /\ writing[h].pc = "idle"
  /\ Store(d, "registered")
  /\ HandlerAt(h, "put", d)
  /\ IF d = Camera THEN channel' = 0 ELSE UNCHANGED channel
  /\ UNCHANGED <<up, redis, recover, invited, callId, accepted, cache, info, op, catalog, live,
                 hist>>

PutRoute(h) ==
  /\ writing[h].pc = "put"
  /\ Register(writing[h].dev)
  /\ writing' = [writing EXCEPT ![h] = NoWrite]
  /\ UNCHANGED <<up, session, recover, stray, objectVars, cache, info, op, catalog, live, hist>>

\* OnRegister with Expires: 0: Session.Remove begins with the map,
Remove(h, d) ==
  /\ up # "down" /\ writing[h].pc = "idle"
  /\ session' = [session EXCEPT ![d] = "none"]
  /\ stray' = IF Storing(d) THEN stray \cup {d} ELSE stray
  /\ HandlerAt(h, "del", d)
  /\ IF d = Camera THEN channel' = 0 ELSE UNCHANGED channel
  /\ UNCHANGED <<up, redis, recover, invited, callId, accepted, cache, info, op, catalog, live,
                 hist>>

\* and goes on with RemoveRoute: the key of the device,
DelRoute(h) ==
  LET d == writing[h].dev
  IN  /\ writing[h].pc = "del"
      /\ \/ /\ redis' = [redis EXCEPT ![d] = "none"]
            /\ stray' = IF Storing(d) THEN stray ELSE stray \ {d}
         \/ UNCHANGED redis /\ stray' = stray \cup {d}
      /\ HandlerAt(h, "delChannel", d)
      /\ UNCHANGED <<up, session, recover, objectVars, cache, info, op, catalog, live, hist>>

\* then the hash of its channel, but not the entry in the cache.
DelChannelRoute(h) ==
  /\ writing[h].pc = "delChannel"
  /\ \/ writing[h].dev = Camera /\ info' = None /\ live' = {c \in live : InHand(c)}
     \/ UNCHANGED <<info, live>>
  /\ writing' = [writing EXCEPT ![h] = NoWrite]
  /\ UNCHANGED <<up, session, redis, recover, stray, objectVars, cache, op, catalog, hist>>

\* The registration has lasted as long as it was asked for: Redis drops the key, unless
\* it was made again without a TTL by cSeqIncr.  The session stays.
Expire(d) ==
  /\ redis[d] = "full"
  /\ redis' = [redis EXCEPT ![d] = "none"]
  /\ UNCHANGED <<up, session, writing, recover, stray, objectVars, cache, info, op, catalog, live,
                 hist>>

\* Session.Get: the test of expiry compares minus the age of the registration with its
\* duration, and is always true.
Found(d) == session[d] # "none"

\* HIncrBy makes a key that is not there, with nothing but the CSeq, unless it fails
cSeqIncr(d) ==
  redis' \in {redis, [redis EXCEPT ![d] = IF @ = "none" THEN "cseq" ELSE @]}

\* Query, after a registration, from ScheduleTask or from /query
Query(d) ==
  /\ up # "down" /\ Found(d)
  /\ cSeqIncr(d)
  /\ UNCHANGED <<up, session, writing, recover, stray, objectVars, cache, info, op, catalog, live,
                 hist>>

-----------------------------------------------------------------------------
(***************************************************************************)
(* The HTTP requests /invite, /inviteWithoutBye, /bye and /bye2.           *)
(***************************************************************************)
Kinds == {"invite", "inviteWithoutBye", "bye", "bye2"}

OpAt(o, pc, call) ==
  op' = [op EXCEPT ![o] =
          IF pc = "idle" THEN Idle
          ELSE [pc |-> pc, kind |-> op[o].kind, obj |-> op[o].obj, call |-> call]]

\* what follows Bye2
AfterBye(o) == IF op[o].kind = "invite" THEN "cas" ELSE "idle"

FindChannel == Found(Camera) /\ channel # 0

\* FindChannel, and for /invite the test of invited
Begin(o, kind) ==
  /\ up = "up"
  /\ op[o].pc = "idle"
  /\ FindChannel
  /\ kind = "invite" => ~invited[channel]
  /\ op' = [op EXCEPT ![o] = [pc |-> CASE kind \in {"invite", "bye2"} -> "take"
                                       [] kind = "inviteWithoutBye"   -> "send"
                                       [] kind = "bye"                -> "bye",
                              kind |-> kind, obj |-> channel, call |-> None]]
  /\ IF hist = "restarted" /\ ~Busy THEN hist' = "calm" /\ live' = {} ELSE Enter
  /\ UNCHANGED <<up, sessionVars, objectVars, cache, info, catalog>>

\* Bye2: invited is cleared, and the entry of the cache is taken out ...
TakeInfo(o) ==
  /\ op[o].pc = "take"
  /\ invited' = [invited EXCEPT ![op[o].obj] = FALSE]
  /\ \/ cache # None /\ cache' = None /\ OpAt(o, "del", cache)
     \/ cache = None /\ OpAt(o, AfterBye(o), None) /\ UNCHANGED cache
  /\ UNCHANGED <<up, sessionVars, channel, callId, accepted, info, catalog, live, hist>>

\* ... then deleted from Redis, where an error is ignored ...
DelInfo(o) ==
  /\ op[o].pc = "del"
  /\ info' \in {None, info}
  /\ OpAt(o, "sendBye", op[o].call)
  /\ UNCHANGED <<up, sessionVars, objectVars, cache, catalog, live, hist>>

\* ... and a BYE is sent for it, with three seconds for the answer.  A BYE that fails
\* is not repeated: nothing remembers the call any more.
SendBye2(o) ==
  /\ op[o].pc = "sendBye"
  /\ cSeqIncr(Camera)
  /\ live' = live \ {op[o].call}
  /\ OpAt(o, AfterBye(o), None)
  /\ UNCHANGED <<up, session, writing, recover, stray, objectVars, cache, info, catalog, hist>>

\* Bye: a BYE for the CallId of the Channel object, of which nothing is cleared
Bye(o) ==
  /\ op[o].pc = "bye"
  /\ \/ callId[op[o].obj] = 0 /\ UNCHANGED <<redis, live>>
     \/ /\ callId[op[o].obj] # 0
        /\ cSeqIncr(Camera)
        /\ live' \in {live, live \ {callId[op[o].obj]}}
  /\ OpAt(o, "idle", None)
  /\ UNCHANGED <<up, session, writing, recover, stray, objectVars, cache, info, catalog, hist>>

\* CompareAndSwapInt32(&c.invited, 0, 1); without success the request is not answered
CompareAndSwap(o) ==
  /\ op[o].pc = "cas"
  /\ \/ invited[op[o].obj] /\ OpAt(o, "idle", None) /\ UNCHANGED invited
     \/ /\ ~invited[op[o].obj]
        /\ invited' = [invited EXCEPT ![op[o].obj] = TRUE]
        /\ OpAt(o, "send", None)
  /\ UNCHANGED <<up, sessionVars, channel, callId, accepted, cache, info, catalog, live, hist>>

\* Mutants (here and below, names that end in _bug): wrong versions of the
\* definition of the same name, which the properties must tell from the right one.
\* invited stays set
InviteFails_bug(o) ==
  /\ OpAt(o, "idle", None)
  /\ UNCHANGED <<invited, live, callId, accepted>>

InviteFails(o) ==
  /\ invited' = IF op[o].kind = "invite" THEN [invited EXCEPT ![op[o].obj] = FALSE]
                                         ELSE invited
  /\ OpAt(o, "idle", None)
  /\ UNCHANGED <<live, callId, accepted>>

\* Channel.Invite, which waits for the final response: a 200 is a new call, which only /invite
\* goes on to record.  A 200 without Call-ID, From, To or their tags is a panic, of which the
\* HTTP server saves the process: the mark stays, and the CallId if there was one.
SendInvite(o) ==
  /\ op[o].pc = "send"
  /\ cSeqIncr(Camera)
  /\ \/ /\ accepted' = accepted \cup {op[o].obj}
        /\ \/ \E c \in Least(NewCalls) :
                /\ callId' = [callId EXCEPT ![op[o].obj] = c]
                /\ \/ /\ op[o].kind = "invite" /\ OpAt(o, "cache", c)
                      /\ live' = IF hist = "overlap" THEN {} ELSE live \cup {c}
                   \/ OpAt(o, "idle", None) /\ UNCHANGED live
           \/ OpAt(o, "idle", None) /\ UNCHANGED <<callId, live>>
        /\ UNCHANGED invited
     \/ InviteFails(o)
  /\ UNCHANGED <<up, session, writing, recover, stray, channel, cache, info, catalog, hist>>

\* AddChannelInfo: the cache ...
AddToCache(o) ==
  /\ op[o].pc = "cache"
  /\ cache' = op[o].call
  /\ OpAt(o, "store", op[o].call)
  /\ UNCHANGED <<up, sessionVars, objectVars, info, catalog, live, hist>>

\* the call is not stored in Redis
AddToRedis_bug(o) ==
  /\ op[o].pc = "store"
  /\ OpAt(o, "idle", None)
  /\ UNCHANGED <<up, sessionVars, objectVars, cache, info, catalog, live, hist>>

\* ... then Redis, where an error is ignored
AddToRedis(o) ==
  /\ op[o].pc = "store"
  /\ \/ info' = op[o].call /\ UNCHANGED live
     \/ UNCHANGED info /\ live' = live \ {op[o].call}
  /\ OpAt(o, "idle", None)
  /\ UNCHANGED <<up, sessionVars, objectVars, cache, catalog, hist>>

-----------------------------------------------------------------------------
(***************************************************************************)
(* OnMessage with a catalog: UpdateChannels.                               *)
(***************************************************************************)

\* GetChannelInfo: a hash that is not there reads as empty strings, an error as nil
ReadInfo ==
  /\ up # "down"
  /\ catalog.pc = "idle"
  /\ Found(Camera)
  /\ \E value \in {IF info = None THEN Empty ELSE info, None} :
       catalog' = [pc |-> "read", obj |-> channel, value |-> value]
  /\ Enter
  /\ UNCHANGED <<up, sessionVars, objectVars, cache, info, op>>

\* The cache is overwritten unless the read failed.  The Channel object is replaced in
\* the device that the handler has looked up, which a new registration may have replaced.
\* (A device from /addSession has no ChannelMap, and the handler panics and recovers.)
UpdateChannels ==
  /\ catalog.pc = "read"
  /\ cache' = IF catalog.value = None THEN cache ELSE catalog.value
  /\ hist' = IF catalog.value # None /\ hist = "restarted" THEN "calm" ELSE hist
  /\ IF channel = catalog.obj /\ channel # 0 THEN NewChannel ELSE UNCHANGED objectVars
  /\ catalog' = NoCatalog
  /\ UNCHANGED <<up, sessionVars, info, op, live>>

-----------------------------------------------------------------------------
(***************************************************************************)
(* A crash, and Recover at the next start, while SIP is already served.    *)
(***************************************************************************)
Crash ==
  /\ up # "down"
  /\ up' = "down"
  /\ session' = [d \in Devices |-> "none"] /\ cache' = None
  /\ writing' = [h \in Handlers |-> NoWrite] /\ recover' = NoRecover
  /\ channel' = 0
  /\ invited' = [n \in 1..MaxObjs |-> FALSE] /\ callId' = [n \in 1..MaxObjs |-> 0]
  /\ accepted' = {}
  /\ op' = [o \in Ops |-> Idle] /\ catalog' = NoCatalog
  /\ hist' = "restarted"
  /\ live' = {c \in live : ~InHand(c)}
  /\ UNCHANGED <<redis, stray, info>>

\* keys[start : end], and what handleData does with it, panic beyond the last of n keys
RecoverPanics(n) ==
  \E k \in 0..n :
    LET start == k * Batch
        end   == IF start + Batch > n THEN n ELSE start + Reach
    IN  start < n /\ end > n

Keys == {d \in Devices : redis[d] # "none"}

\* All hashes are read, unless Redis fails; a panic ends the process.
RecoverRead ==
  /\ up = "down"
  /\ ~RecoverPanics(Cardinality(Keys))
  /\ up' = "recovering"
  /\ \/ /\ recover' = [todo |-> {d \in Devices : redis[d] = "full"}, at |-> {},
                       drop |-> {d \in Devices : redis[d] = "cseq"}]
        /\ stray' = {}
     \/ UNCHANGED recover /\ stray' = stray \cup Keys
  /\ UNCHANGED <<session, redis, writing, objectVars, cache, info, op, catalog, live, hist>>

\* the session is not stored
checkAndAddSession_bug(d) ==
  /\ d \in recover.todo /\ recover.at = {}
  /\ recover' = [recover EXCEPT !.todo = @ \ {d}]
  /\ UNCHANGED <<up, session, redis, writing, stray, objectVars, cache, info, op, catalog, live,
                 hist>>

\* Each becomes a session again, whatever its age, and is queried: the map, ...
checkAndAddSession(d) ==
  /\ d \in recover.todo /\ recover.at = {}
  /\ recover' = [recover EXCEPT !.todo = @ \ {d}, !.at = {d}]
  /\ Store(d, "recovered")
  /\ IF d = Camera THEN NewChannel ELSE UNCHANGED objectVars
  /\ UNCHANGED <<up, redis, writing, cache, info, op, catalog, live, hist>>

\* ... then Redis.
RecoverPut(d) ==
  /\ d \in recover.at
  /\ Register(d)
  /\ recover' = [recover EXCEPT !.at = {}]
  /\ UNCHANGED <<up, session, writing, stray, objectVars, cache, info, op, catalog, live, hist>>

\* Keys that had nothing but a CSeq are deleted, unless Redis fails.
RecoverEnd ==
  /\ up = "recovering"
  /\ recover.todo = {} /\ recover.at = {}
  /\ up' = "up"
  /\ session' = [d \in Devices |-> IF session[d] = "recovered" THEN "registered" ELSE session[d]]
  /\ redis' \in {redis, [d \in Devices |-> IF d \in recover.drop THEN "none" ELSE redis[d]]}
  /\ recover' = NoRecover
  /\ UNCHANGED <<writing, stray, objectVars, cache, info, op, catalog, live, hist>>

-----------------------------------------------------------------------------
Init ==
  /\ up = "up"
  /\ session = [d \in Devices |-> "none"] /\ redis = [d \in Devices |-> "none"]
  /\ writing = [h \in Handlers |-> NoWrite]
  /\ recover = NoRecover /\ stray = {}
  /\ channel = 0
  /\ invited = [n \in 1..MaxObjs |-> FALSE] /\ callId = [n \in 1..MaxObjs |-> 0]
  /\ accepted = {}
  /\ cache = None /\ info = None
  /\ op = [o \in Ops |-> Idle] /\ catalog = NoCatalog
  /\ live = {}
  /\ hist = "calm"

Next ==
  \/ \E h \in Handlers : \/ \E d \in Devices : OnRegister(h, d) \/ AddSession(h, d) \/ Remove(h, d)
                         \/ PutRoute(h) \/ DelRoute(h) \/ DelChannelRoute(h)
  \/ \E d \in Devices : Expire(d) \/ Query(d) \/ checkAndAddSession(d) \/ RecoverPut(d)
  \/ \E o \in Ops : \/ \E kind \in Kinds : Begin(o, kind)
                    \/ TakeInfo(o) \/ DelInfo(o) \/ SendBye2(o) \/ Bye(o)
                    \/ CompareAndSwap(o) \/ SendInvite(o) \/ AddToCache(o) \/ AddToRedis(o)
  \/ ReadInfo \/ UpdateChannels
  \/ Crash \/ RecoverRead \/ RecoverEnd

Spec == Init /\ [][Next]_vars

-----------------------------------------------------------------------------
(***************************************************************************)
(* Properties.                                                             *)
(***************************************************************************)
TypeOK ==
  /\ up \in {"down", "recovering", "up"} /\ stray \subseteq Devices
  /\ hist \in {"calm", "restarted", "overlap"}
  /\ session \in [Devices -> {"none", "registered", "recovered"}]
  /\ redis \in [Devices -> {"none", "full", "cseq"}]
  /\ writing \in [Handlers -> [pc : {"idle", "put", "del", "delChannel"}, dev : Devices]]
  /\ recover \in [todo : SUBSET Devices, at : SUBSET Devices, drop : SUBSET Devices]
  /\ channel \in 0..MaxObjs
  /\ invited \in [1..MaxObjs -> BOOLEAN] /\ callId \in [1..MaxObjs -> 0..MaxCalls]
  /\ accepted \subseteq 1..MaxObjs
  /\ cache \in {None} \cup 0..MaxCalls /\ info \in {None} \cup 1..MaxCalls
  /\ op \in [Ops -> [pc : {"idle", "take", "del", "sendBye", "bye", "cas", "send", "cache",
                           "store"},
                     kind : Kinds \cup {"none"}, obj : 0..MaxObjs,
                     call : {None} \cup 0..MaxCalls]]
  /\ catalog \in [pc : {"idle", "read"}, obj : 0..MaxObjs, value : {None} \cup 0..MaxCalls]
  /\ live \subseteq 1..MaxCalls

\* /invite answers "invited" only for a Channel object whose INVITE has been accepted or
\* is under way, however the requests overlap: one that fails clears the mark.
InvitedMeansCalled ==
  \A n \in 1..MaxObjs :
    invited[n] => \/ n \in accepted
                  \/ \E o \in Ops : op[o].pc = "send" /\ op[o].kind = "invite" /\ op[o].obj = n

\* A call that /invite has opened is not forgotten while one request or catalog comes after
\* the other: it is in the cache, so that the next /invite or /bye2 ends it, and in Redis.  This
\* survives registrations, the catalogs that replace the Channel object, failed INVITEs, the
\* expiry of the registration, a failed Del, a camera that unregisters (up to the Del of the
\* hash of its channel, which may come after its next registration), and a restart, after which
\* the first catalog brings it back.
\* Not in live, because the code does forget them, are the calls of /inviteWithoutBye, which
\* only the Channel object has, and those of an INVITE whose 200 makes Invite panic; those
\* made or open while two requests, or a request and a catalog, overlap; whose BYE failed, or
\* HSet; whose hash the unregistration deletes; that a request has in hand at a restart; and
\* those that are open when a request follows the restart before the first catalog.
CallsAreKept ==
  \A c \in live : InHand(c) \/ (info = c /\ (cache = c \/ hist = "restarted"))

\* Every registration that Redis holds, and other gateways are routed by, is served here,
\* also after a restart and the recovery, whatever handlers and Recover overlap, or is about
\* to be deleted.  Stray, until it registers again or its key is deleted, is a device that
\* unregisters before a registration of it has been written to Redis (Remove between
\* session.go:147 and 148), one for which the Del of the key fails, and all that a Recover
\* whose read fails does not see.
RoutedIsServed ==
  up = "up" => \A d \in Devices : redis[d] = "full" => Found(d) \/ Removing(d) \/ d \in stray

\* The latest registration holds (session.go:212, "重复注册最新有效"): what Recover has
\* read does not replace it.
LatestRegistrationHolds ==
  [][\A d \in Devices : session[d] = "registered" => session'[d] # "recovered"]_session
=============================================================================
