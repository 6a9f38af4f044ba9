------------------------------ MODULE MCGateway ------------------------------
(***************************************************************************)
(* The gateway for TLC.                                                    *)
(***************************************************************************)
EXTENDS Gateway, TLC

\* Bounds: one request at a time while the key of the camera is not in Redis; one or a catalog
\* while a handler has only the hash of the channel still to delete; none while handlers have
\* more to do, a key is stray, or other cameras or one without channels are registered; two
\* handlers at once, and other cameras, only when no call is remembered.
AtMost(n)   == Cardinality({o \in Ops : op[o].pc # "idle"}) <= n
Writers(PC) == Cardinality({h \in Handlers : writing[h].pc \in PC})
OnlyCamera  == Keys \cup {d \in Devices : Found(d)} \subseteq {Camera}
Bounds ==
  /\ \/ AtMost(0)
     \/ /\ redis[Camera] = "full" \/ AtMost(1)
        /\ stray = {}
        /\ Found(Camera) => channel # 0
        /\ OnlyCamera
  /\ \/ ~Busy
     \/ Writers({"put", "del", "delChannel"}) = 0
     \/ /\ Writers({"put", "del"}) = 0 /\ Writers({"delChannel"}) = 1
        /\ AtMost(0) \/ (AtMost(1) /\ catalog.pc = "idle")
  /\ \/ Writers({"put", "del", "delChannel"}) < 2 /\ OnlyCamera
     \/ info = None /\ cache \in {None, Empty} /\ \A n \in 1..MaxObjs : callId[n] = 0

Symmetry == Permutations(Ops) \cup Permutations(Handlers)
=============================================================================
