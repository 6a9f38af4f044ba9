--------------------------- MODULE RequestsProofs ---------------------------
(***************************************************************************)
(* Proofs about requests and the messages made from them, for any          *)
(* builders, requests and transactions.                                    *)
(*                                                                         *)
(* Requests share their hop and their CSeq by pointers, so that the        *)
(* invariant of the messages, MessageInv, says who shares with whom:       *)
(* requests of two builders share nothing (ShareInv), a branch is in the   *)
(* hop of the request that was sent with it or nowhere (BranchInv), and a  *)
(* request that is the only one of its builder and has not been authorized *)
(* since it was sent is still what was sent (SentInv).  Every step keeps   *)
(* what is pointed to (Keeps), builds a request (Builds), or authorizes    *)
(* one request or sends it (Alters).                                       *)
(***************************************************************************)
EXTENDS Requests, TLAPS

\* A sequence, whatever its elements are.
IsList(s) == s \in Seq({s[i] : i \in 1..Len(s)})

HopFields  == {"branch", "tp"}
CSeqFields == {"seqNo", "method"}
ReqFields  == {"method", "hop", "cseq", "uri", "setup", "auth", "hs"}
TxFields   == {"req", "key", "sent", "state", "auth"}
SentFields == {"method", "branch", "cseq", "tp", "hs"}

\* A transaction with the key of what it sent.
Keyed(x) == DOMAIN x.sent = SentFields /\ x.key = MakeClientTxKey(x.sent)

\* What the objects are, and that every pointer is one to an object.
RefInv ==
  /\ IsList(hops) /\ IsList(cseqs) /\ IsList(uris) /\ IsList(reqs) /\ IsList(txs)
  /\ branches \in Nat
  /\ DOMAIN builder = {"hop", "cseq", "uri", "setup"}
  /\ builder.hop \in 0..Len(hops) /\ builder.uri \in 0..Len(uris) /\ builder.cseq \in 0..Len(cseqs)
  /\ builder.uri # 0 => builder.cseq # 0
  /\ \A h \in 1..Len(hops) : DOMAIN hops[h] = HopFields /\ hops[h].branch \in 0..branches
  /\ \A c \in 1..Len(cseqs) : DOMAIN cseqs[c] = CSeqFields
  /\ \A r \in 1..Len(reqs) :
       /\ DOMAIN reqs[r] = ReqFields
       /\ reqs[r].hop \in 0..Len(hops) /\ reqs[r].cseq \in 1..Len(cseqs)
       /\ reqs[r].uri \in 1..Len(uris) /\ reqs[r].auth \in BOOLEAN
  /\ \A t \in 1..Len(txs) :
       /\ DOMAIN txs[t] = TxFields
       /\ txs[t].auth \in BOOLEAN /\ (txs[t].auth => reqs[txs[t].req].auth)
       /\ txs[t].req \in 1..Len(reqs) /\ reqs[txs[t].req].hop # 0
       /\ txs[t].sent.branch \in 1..branches
       /\ Keyed(txs[t])

\* Requests have a hop or a CSeq in common only if they have one builder.
ShareInv ==
  /\ \A q, r \in 1..Len(reqs) : reqs[q].uri # reqs[r].uri =>
       /\ reqs[q].cseq # reqs[r].cseq
       /\ reqs[q].hop = 0 \/ reqs[q].hop # reqs[r].hop
  /\ \A r \in 1..Len(reqs) : reqs[r].uri # builder.uri =>
       /\ reqs[r].cseq # builder.cseq
       /\ builder.hop = 0 \/ reqs[r].hop # builder.hop

\* A request that was authorized and has not been sent again.
Pending(r) == reqs[r].auth /\ \A t \in 1..Len(txs) : txs[t].req = r => ~txs[t].auth

\* No branch is in two hops, the branch of a transaction is in the hop of its request or
\* nowhere, two transactions have one branch only if their requests are two of one builder,
\* and the hop of a request that was authorized has another branch than what was sent.
BranchInv ==
  /\ \A g, h \in 1..Len(hops) : hops[g].branch = hops[h].branch /\ hops[h].branch # 0 => g = h
  /\ \A t \in 1..Len(txs), h \in 1..Len(hops) :
       hops[h].branch = txs[t].sent.branch => reqs[txs[t].req].hop = h
  /\ \A t, u \in 1..Len(txs) : t # u /\ txs[t].sent.branch = txs[u].sent.branch =>
       txs[t].req # txs[u].req /\ reqs[txs[t].req].uri = reqs[txs[u].req].uri
  /\ \A t \in 1..Len(txs) :
       Pending(txs[t].req) => txs[t].sent.branch # hops[reqs[txs[t].req].hop].branch

\* What Transport gives for a parameter of the recipient and a transport of the Via hop.
Chosen(q, param, via) ==
  LET uri   == TargetUri(q.hs, q.setup.route, Uri(param, q.setup.uri.sips))
      named == IF uri.tp # "" THEN uri.tp ELSE IF via # "" THEN via ELSE "UDP"
      tp    == IF uri.sips THEN Secured(named) ELSE named
  IN  IF q.setup.tp # "" THEN q.setup.tp ELSE IF tp = "UDP" /\ TooLong(q.hs) THEN "TCP" ELSE tp

\* A request has the transport it was sent over, or TLS in the case that AckAndCancelMatch
\* lets through, once the transport layer has written it into the hop.
SameTransport(q, m, tp) ==
  tp = m.tp \/ (LongSips(q.setup, m) /\ m.tp = "TCP" /\ tp = "TLS")

\* A request is still what a transaction sent, unless it was authorized or its builder was
\* used again.
AsSent(q, m) ==
  /\ q.method = m.method /\ q.hs = m.hs
  /\ cseqs[q.cseq] = m.cseq /\ m.cseq.method = m.method
  /\ hops[q.hop].branch = m.branch /\ hops[q.hop].tp = m.tp
  /\ uris[q.uri] = "" /\ m.tp # ""
  /\ SameTransport(q, m, Chosen(q, "", m.tp))

SentInv ==
  /\ \A r \in 1..Len(reqs) : OwnBuilder(r) => cseqs[reqs[r].cseq].method = reqs[r].method
  /\ \A t \in 1..Len(txs) :
       OwnBuilder(txs[t].req) /\ Current(t) => AsSent(reqs[txs[t].req], txs[t].sent)

MessageInv == RefInv /\ ShareInv /\ BranchInv /\ SentInv

\* A list with one more element, and with another element.
Appended(s, x, n) ==
  /\ IsList(n) /\ Len(s) \in Nat /\ Len(n) = Len(s) + 1 /\ n[Len(s) + 1] = x
  /\ \A i \in 1..Len(s) : n[i] = s[i]

Replaced(s, j, x, n) ==
  /\ IsList(n) /\ Len(s) \in Nat /\ Len(n) = Len(s) /\ n[j] = x
  /\ \A i \in 1..Len(s) : i # j => n[i] = s[i]

\* A list with an element in some place, which may be the one after the last.
Put(s, j, x, n) ==
  /\ IsList(n) /\ Len(n) \in Nat /\ Len(s) <= Len(n)
  /\ j \in 1..Len(n) /\ n[j] = x
  /\ \A i \in 1..Len(n) : i # j => i \in 1..Len(s) /\ n[i] = s[i]

\* An element that is appended is put after the last place.
LEMMA PutNew ==
  ASSUME NEW s, NEW x, NEW n, Appended(s, x, n)
  PROVE  Put(s, Len(s) + 1, x, n) /\ Len(s) + 1 > Len(s)
BY DEF Appended, Put

\* An element that replaces another is put in its place.
LEMMA PutOld ==
  ASSUME NEW s, NEW x, NEW n, NEW j \in 1..Len(s), Replaced(s, j, x, n) PROVE Put(s, j, x, n)
BY DEF Replaced, Put

\* Every sequence is a list.
LEMMA SeqIsList == ASSUME NEW S, NEW s \in Seq(S) PROVE IsList(s)
BY DEF IsList

\* What Append does to a list.
LEMMA ListAppend == ASSUME NEW s, NEW x, IsList(s) PROVE Appended(s, x, Append(s, x))
<1> DEFINE S == {s[i] : i \in 1..Len(s)} \cup {x}
           n == Append(s, x)
<1>1. s \in Seq(S) /\ x \in S
  <2>1. {s[i] : i \in 1..Len(s)} \subseteq S
    OBVIOUS
  <2> QED BY <2>1 DEF IsList
<1> HIDE DEF S
<1>2. /\ n \in Seq(S) /\ Len(s) \in Nat /\ Len(n) = Len(s) + 1 /\ n[Len(s) + 1] = x
      /\ \A i \in 1..Len(s) : n[i] = s[i]
  BY <1>1
<1> HIDE DEF n
<1>3. IsList(n)
  BY <1>2, SeqIsList
<1>4. Appended(s, x, n)
  BY <1>2, <1>3 DEF Appended
<1> QED BY <1>4 DEF n

\* What EXCEPT does to a list.
LEMMA ListExcept ==
  ASSUME NEW s, NEW x, IsList(s), NEW j \in 1..Len(s)
  PROVE  Replaced(s, j, x, [s EXCEPT ![j] = x])
<1> DEFINE S == {s[i] : i \in 1..Len(s)} \cup {x}
           n == [s EXCEPT ![j] = x]
<1>1. s \in Seq(S) /\ x \in S
  <2>1. {s[i] : i \in 1..Len(s)} \subseteq S
    OBVIOUS
  <2> QED BY <2>1 DEF IsList
<1> HIDE DEF S
<1>2. /\ n \in Seq(S) /\ Len(s) \in Nat /\ Len(n) = Len(s) /\ n[j] = x
      /\ \A i \in 1..Len(s) : i # j => n[i] = s[i]
  BY <1>1
<1> HIDE DEF n
<1>3. IsList(n)
  BY <1>2, SeqIsList
<1>4. Replaced(s, j, x, n)
  BY <1>2, <1>3 DEF Replaced
<1> QED BY <1>4 DEF n

\* A list that has only grown.
Grown(s, t) == Len(t) \in Nat /\ Len(s) <= Len(t) /\ \A i \in 1..Len(s) : t[i] = s[i]

\* A step that leaves what requests and transactions point to as it is.
Keeps ==
  /\ IsList(hops') /\ IsList(cseqs') /\ IsList(uris') /\ IsList(reqs') /\ IsList(txs')
  /\ Grown(hops, hops') /\ Grown(cseqs, cseqs') /\ Grown(uris, uris')
  /\ \A h \in 1..Len(hops') :
       h > Len(hops) => DOMAIN hops'[h] = HopFields /\ hops'[h].branch = 0
  /\ \A c \in 1..Len(cseqs') : c > Len(cseqs) => DOMAIN cseqs'[c] = CSeqFields
  /\ Len(reqs') = Len(reqs) /\ Len(txs') = Len(txs)
  /\ \A r \in 1..Len(reqs) :
       /\ DOMAIN reqs'[r] = ReqFields
       /\ reqs'[r].method = reqs[r].method /\ reqs'[r].hop = reqs[r].hop
       /\ reqs'[r].cseq = reqs[r].cseq /\ reqs'[r].uri = reqs[r].uri
       /\ reqs'[r].setup = reqs[r].setup /\ reqs'[r].auth = reqs[r].auth
       /\ Sent(r) => reqs'[r].hs = reqs[r].hs
  /\ \A t \in 1..Len(txs) :
       /\ DOMAIN txs'[t] = TxFields
       /\ txs'[t].req = txs[t].req /\ txs'[t].key = txs[t].key /\ txs'[t].sent = txs[t].sent
       /\ txs'[t].auth = txs[t].auth
  /\ branches' \in Nat /\ branches <= branches'
  /\ DOMAIN builder' = {"hop", "cseq", "uri", "setup"}
  /\ \/ builder' = builder
     \/ /\ builder'.hop = 0 \/ (builder'.hop = Len(hops') /\ Len(hops) < Len(hops'))
        /\ builder'.cseq = Len(cseqs') /\ Len(cseqs) < Len(cseqs')
        /\ builder'.uri = Len(uris') /\ Len(uris) < Len(uris')

\* The lengths of the lists.
LEMMA Lengths ==
  RefInv => /\ Len(hops) \in Nat /\ Len(cseqs) \in Nat /\ Len(uris) \in Nat
            /\ Len(reqs) \in Nat /\ Len(txs) \in Nat
BY DEF RefInv, IsList

\* A range that has grown.
LEMMA RangeGrows ==
  ASSUME NEW l \in Nat, NEW m \in Nat, NEW n \in Nat, m <= n, NEW i \in l..m
  PROVE  i \in l..n
OBVIOUS

\* A reference that is not nil is an index.
LEMMA Positive == ASSUME NEW n \in Nat, NEW i \in 0..n, i # 0 PROVE i \in 1..n
OBVIOUS

\* A pointer is a reference that may be nil.
LEMMA Within == ASSUME NEW n \in Nat, NEW i \in 1..n PROVE i \in 0..n
OBVIOUS

\* An old reference is none to a new object.
LEMMA NotBeyond == ASSUME NEW n \in Nat, NEW i \in 0..n PROVE ~(i > n) /\ n <= n
OBVIOUS

\* Such a step keeps every pointer one to an object.
LEMMA KeepsRef == RefInv /\ Keeps => RefInv'
<1> SUFFICES ASSUME RefInv, Keeps PROVE RefInv'
  OBVIOUS
<1>1. /\ Len(hops) \in Nat /\ Len(cseqs) \in Nat /\ Len(uris) \in Nat
      /\ Len(reqs) \in Nat /\ Len(txs) \in Nat
  BY DEF RefInv, IsList
<1>2. ASSUME NEW h \in 1..Len(hops')
      PROVE  DOMAIN hops'[h] = HopFields /\ hops'[h].branch \in 0..branches'
  <2>1. branches \in Nat /\ branches' \in Nat /\ branches <= branches'
    BY DEF RefInv, Keeps
  <2>2. CASE h \in 1..Len(hops)
    <3>1. hops'[h] = hops[h]
      BY <2>2 DEF Keeps, Grown
    <3>2. DOMAIN hops[h] = HopFields /\ hops[h].branch \in 0..branches
      BY <2>2 DEF RefInv
    <3> QED BY <2>1, <3>1, <3>2
  <2>3. CASE h > Len(hops)
    <3>1. DOMAIN hops'[h] = HopFields /\ hops'[h].branch = 0
      BY <2>3 DEF Keeps
    <3> QED BY <2>1, <3>1
  <2>4. Len(hops') \in Nat
    BY DEF Keeps, Grown
  <2> QED BY <1>1, <2>2, <2>3, <2>4
<1>3. ASSUME NEW c \in 1..Len(cseqs') PROVE DOMAIN cseqs'[c] = CSeqFields
  <2>1. CASE c \in 1..Len(cseqs)
    <3>1. cseqs'[c] = cseqs[c]
      BY <2>1 DEF Keeps, Grown
    <3> QED BY <2>1, <3>1 DEF RefInv
  <2>2. CASE c > Len(cseqs)
    BY <2>2 DEF Keeps
  <2>3. Len(cseqs') \in Nat
    BY DEF Keeps, Grown
  <2> QED BY <1>1, <2>1, <2>2, <2>3
<1>4. /\ builder'.hop \in 0..Len(hops') /\ builder'.uri \in 0..Len(uris')
      /\ builder'.cseq \in 0..Len(cseqs') /\ (builder'.uri # 0 => builder'.cseq # 0)
  <2>1. /\ Len(hops') \in Nat /\ Len(hops) <= Len(hops')
        /\ Len(cseqs') \in Nat /\ Len(cseqs) <= Len(cseqs')
        /\ Len(uris') \in Nat /\ Len(uris) <= Len(uris')
    BY DEF Keeps, Grown
  <2>2. CASE builder' = builder
    <3>1. /\ builder.hop \in 0..Len(hops) /\ builder.uri \in 0..Len(uris)
          /\ builder.cseq \in 0..Len(cseqs) /\ (builder.uri # 0 => builder.cseq # 0)
      BY DEF RefInv
    <3> QED BY <1>1, <2>1, <2>2, <3>1, RangeGrows
  <2>3. CASE /\ builder'.hop = 0 \/ builder'.hop = Len(hops')
             /\ builder'.cseq = Len(cseqs') /\ Len(cseqs) < Len(cseqs')
             /\ builder'.uri = Len(uris')
    BY <1>1, <2>1, <2>3
  <2> QED BY <2>2, <2>3 DEF Keeps
<1>5. ASSUME NEW r \in 1..Len(reqs')
      PROVE  /\ DOMAIN reqs'[r] = ReqFields
             /\ reqs'[r].hop \in 0..Len(hops') /\ reqs'[r].cseq \in 1..Len(cseqs')
             /\ reqs'[r].uri \in 1..Len(uris') /\ reqs'[r].auth \in BOOLEAN
  <2>1. r \in 1..Len(reqs)
    BY DEF Keeps
  <2>2. /\ reqs[r].hop \in 0..Len(hops) /\ reqs[r].cseq \in 1..Len(cseqs)
        /\ reqs[r].uri \in 1..Len(uris) /\ reqs[r].auth \in BOOLEAN
    BY <2>1 DEF RefInv
  <2>3. /\ DOMAIN reqs'[r] = ReqFields /\ reqs'[r].hop = reqs[r].hop
        /\ reqs'[r].cseq = reqs[r].cseq /\ reqs'[r].uri = reqs[r].uri
        /\ reqs'[r].auth = reqs[r].auth
    BY <2>1 DEF Keeps
  <2>4. /\ Len(hops') \in Nat /\ Len(hops) <= Len(hops')
        /\ Len(cseqs') \in Nat /\ Len(cseqs) <= Len(cseqs')
        /\ Len(uris') \in Nat /\ Len(uris) <= Len(uris')
    BY DEF Keeps, Grown
  <2>5. /\ reqs[r].hop \in 0..Len(hops') /\ reqs[r].cseq \in 1..Len(cseqs')
        /\ reqs[r].uri \in 1..Len(uris')
    BY <1>1, <2>2, <2>4, RangeGrows
  <2> QED BY <2>2, <2>3, <2>5
<1>6. ASSUME NEW t \in 1..Len(txs')
      PROVE  /\ DOMAIN txs'[t] = TxFields
             /\ txs'[t].req \in 1..Len(reqs') /\ reqs'[txs'[t].req].hop # 0
             /\ txs'[t].sent.branch \in 1..branches'
             /\ Keyed(txs'[t])
             /\ txs'[t].auth \in BOOLEAN /\ (txs'[t].auth => reqs'[txs'[t].req].auth)
  <2>1. /\ t \in 1..Len(txs) /\ DOMAIN txs'[t] = TxFields /\ txs'[t].req = txs[t].req
        /\ txs'[t].key = txs[t].key /\ txs'[t].sent = txs[t].sent /\ txs'[t].auth = txs[t].auth
    BY DEF Keeps
  <2>2. /\ txs[t].req \in 1..Len(reqs) /\ reqs[txs[t].req].hop # 0
        /\ txs[t].sent.branch \in 1..branches /\ Keyed(txs[t])
        /\ txs[t].auth \in BOOLEAN /\ (txs[t].auth => reqs[txs[t].req].auth)
    BY <2>1 DEF RefInv
  <2>3. /\ Len(reqs') = Len(reqs) /\ reqs'[txs[t].req].hop = reqs[txs[t].req].hop
        /\ reqs'[txs[t].req].auth = reqs[txs[t].req].auth
    BY <2>2 DEF Keeps
  <2>4. branches \in Nat /\ branches' \in Nat /\ branches <= branches'
    BY DEF RefInv, Keeps
  <2>5. Keyed(txs'[t])
    BY <2>1, <2>2 DEF Keyed
  <2> QED BY <2>1, <2>2, <2>3, <2>4, <2>5
<1> QED BY <1>2, <1>3, <1>4, <1>5, <1>6 DEF RefInv, Keeps

\* Such a step makes nothing common to two builders.
LEMMA KeepsShare == RefInv /\ ShareInv /\ Keeps => ShareInv'
<1> SUFFICES ASSUME RefInv, ShareInv, Keeps PROVE ShareInv'
  OBVIOUS
<1>1. /\ Len(hops) \in Nat /\ Len(cseqs) \in Nat /\ Len(uris) \in Nat
  BY DEF RefInv, IsList
<1>2. ASSUME NEW q \in 1..Len(reqs'), NEW r \in 1..Len(reqs'), reqs'[q].uri # reqs'[r].uri
      PROVE  reqs'[q].cseq # reqs'[r].cseq /\ (reqs'[q].hop = 0 \/ reqs'[q].hop # reqs'[r].hop)
  <2>1. /\ q \in 1..Len(reqs) /\ reqs'[q].hop = reqs[q].hop
        /\ reqs'[q].cseq = reqs[q].cseq /\ reqs'[q].uri = reqs[q].uri
    BY DEF Keeps
  <2>2. /\ r \in 1..Len(reqs) /\ reqs'[r].hop = reqs[r].hop
        /\ reqs'[r].cseq = reqs[r].cseq /\ reqs'[r].uri = reqs[r].uri
    BY DEF Keeps
  <2> QED BY <1>2, <2>1, <2>2 DEF ShareInv
<1>3. ASSUME NEW r \in 1..Len(reqs'), reqs'[r].uri # builder'.uri
      PROVE  reqs'[r].cseq # builder'.cseq /\ (builder'.hop = 0 \/ reqs'[r].hop # builder'.hop)
  <2>1. /\ r \in 1..Len(reqs) /\ reqs'[r].hop = reqs[r].hop
        /\ reqs'[r].cseq = reqs[r].cseq /\ reqs'[r].uri = reqs[r].uri
    BY DEF Keeps
  <2>2. /\ reqs[r].hop \in 0..Len(hops) /\ reqs[r].cseq \in 1..Len(cseqs)
        /\ reqs[r].uri \in 1..Len(uris)
    BY <2>1 DEF RefInv
  <2>3. CASE builder' = builder
    BY <1>3, <2>1, <2>3 DEF ShareInv
  <2>4. CASE /\ builder'.hop = 0 \/ (builder'.hop = Len(hops') /\ Len(hops) < Len(hops'))
             /\ builder'.cseq = Len(cseqs') /\ Len(cseqs) < Len(cseqs')
    <3>1. Len(hops') \in Nat /\ Len(cseqs') \in Nat
      BY DEF Keeps, Grown
    <3> QED BY <1>1, <2>1, <2>2, <2>4, <3>1
  <2> QED BY <2>3, <2>4 DEF Keeps
<1> QED BY <1>2, <1>3 DEF ShareInv

\* Such a step moves no branch.
LEMMA KeepsBranch == RefInv /\ BranchInv /\ Keeps => BranchInv'
<1> SUFFICES ASSUME RefInv, BranchInv, Keeps PROVE BranchInv'
  OBVIOUS
<1>1. /\ Len(hops) \in Nat /\ Len(hops') \in Nat
      /\ \A h \in 1..Len(hops) : hops'[h] = hops[h]
      /\ \A h \in 1..Len(hops') : h > Len(hops) => hops'[h].branch = 0
  BY Lengths DEF Keeps, Grown
<1>2. ASSUME NEW t \in 1..Len(txs'), NEW h \in 1..Len(hops'), hops'[h].branch = txs'[t].sent.branch
      PROVE  reqs'[txs'[t].req].hop = h
  <2>1. t \in 1..Len(txs) /\ txs'[t].sent = txs[t].sent /\ txs'[t].req = txs[t].req
    BY DEF Keeps
  <2>2. txs[t].req \in 1..Len(reqs) /\ txs[t].sent.branch # 0
    BY <2>1 DEF RefInv
  <2>3. h \in 1..Len(hops) /\ hops'[h] = hops[h]
    BY <1>1, <1>2, <2>1, <2>2
  <2>4. reqs[txs[t].req].hop = h
    BY <1>2, <2>1, <2>3 DEF BranchInv
  <2>5. reqs'[txs[t].req].hop = reqs[txs[t].req].hop
    BY <2>2 DEF Keeps
  <2> QED BY <2>1, <2>4, <2>5
<1>3. ASSUME NEW t \in 1..Len(txs'), NEW u \in 1..Len(txs'), t # u,
             txs'[t].sent.branch = txs'[u].sent.branch
      PROVE  txs'[t].req # txs'[u].req /\ reqs'[txs'[t].req].uri = reqs'[txs'[u].req].uri
  <2>1. /\ t \in 1..Len(txs) /\ txs'[t].sent = txs[t].sent /\ txs'[t].req = txs[t].req
        /\ u \in 1..Len(txs) /\ txs'[u].sent = txs[u].sent /\ txs'[u].req = txs[u].req
    BY DEF Keeps
  <2>2. txs[t].req \in 1..Len(reqs) /\ txs[u].req \in 1..Len(reqs)
    BY <2>1 DEF RefInv
  <2>3. txs[t].req # txs[u].req /\ reqs[txs[t].req].uri = reqs[txs[u].req].uri
    BY <1>3, <2>1 DEF BranchInv
  <2>4. /\ reqs'[txs[t].req].uri = reqs[txs[t].req].uri
        /\ reqs'[txs[u].req].uri = reqs[txs[u].req].uri
    BY <2>2 DEF Keeps
  <2> QED BY <2>1, <2>3, <2>4
<1>4. ASSUME NEW g \in 1..Len(hops'), NEW h \in 1..Len(hops'),
             hops'[g].branch = hops'[h].branch, hops'[h].branch # 0
      PROVE  g = h
  <2>1. g \in 1..Len(hops) /\ hops'[g] = hops[g] /\ h \in 1..Len(hops) /\ hops'[h] = hops[h]
    BY <1>1, <1>4
  <2> QED BY <1>4, <2>1 DEF BranchInv
<1>5. ASSUME NEW t \in 1..Len(txs'), Pending(txs[t].req)'
      PROVE  txs'[t].sent.branch # hops'[reqs'[txs'[t].req].hop].branch
  <2>1. t \in 1..Len(txs) /\ txs'[t].sent = txs[t].sent /\ txs'[t].req = txs[t].req
    BY DEF Keeps
  <2>2. PICK r \in 1..Len(reqs) : r = txs[t].req
    BY <2>1 DEF RefInv
  <2>3. reqs[r].hop \in 0..Len(hops) /\ reqs[r].hop # 0
    BY <2>1, <2>2 DEF RefInv
  <2>4. reqs'[r].hop = reqs[r].hop /\ reqs'[r].auth = reqs[r].auth
    BY DEF Keeps
  <2>5. hops'[reqs[r].hop] = hops[reqs[r].hop]
    BY <1>1, <2>3
  <2>6. Pending(r)
    <3>1. Pending(r)'
      BY <1>5, <2>1, <2>2 DEF Pending
    <3> QED BY <2>4, <3>1 DEF Pending, Keeps
  <2> QED BY <2>1, <2>2, <2>4, <2>5, <2>6 DEF BranchInv
<1> QED BY <1>2, <1>3, <1>4, <1>5 DEF BranchInv

\* Such a step leaves what was sent.
LEMMA KeepsSent == RefInv /\ SentInv /\ Keeps => SentInv'
<1> SUFFICES ASSUME RefInv, SentInv, Keeps PROVE SentInv'
  OBVIOUS
<1>1. \A r \in 1..Len(reqs) : OwnBuilder(r)' => OwnBuilder(r)
  BY DEF OwnBuilder, Keeps
<1>2. ASSUME NEW r \in 1..Len(reqs'), OwnBuilder(r)'
      PROVE  cseqs'[reqs'[r].cseq].method = reqs'[r].method
  <2>1. r \in 1..Len(reqs) /\ reqs[r].cseq \in 1..Len(cseqs)
    BY DEF Keeps, RefInv
  <2>2. cseqs[reqs[r].cseq].method = reqs[r].method
    BY <1>1, <1>2, <2>1 DEF SentInv
  <2>3. reqs'[r].cseq = reqs[r].cseq /\ reqs'[r].method = reqs[r].method
    BY <2>1 DEF Keeps
  <2>4. cseqs'[reqs[r].cseq] = cseqs[reqs[r].cseq]
    BY <2>1 DEF Keeps, Grown
  <2> QED BY <2>2, <2>3, <2>4
<1>3. ASSUME NEW t \in 1..Len(txs'), OwnBuilder(txs[t].req)', Current(t)'
      PROVE  AsSent(reqs[txs[t].req], txs[t].sent)'
  <2>0. PICK r : r = txs[t].req
    OBVIOUS
  <2>1. /\ t \in 1..Len(txs) /\ txs'[t].sent = txs[t].sent /\ txs'[t].req = r
        /\ txs'[t].auth = txs[t].auth
    BY <2>0 DEF Keeps
  <2>2. r \in 1..Len(reqs) /\ reqs[r].hop # 0
    BY <2>0, <2>1 DEF RefInv
  <2>3. Current(t)
    <3>1. reqs'[r].auth = reqs[r].auth
      BY <2>2 DEF Keeps
    <3> QED BY <1>3, <2>0, <2>1, <3>1 DEF Current
  <2>4. OwnBuilder(r)' <=> OwnBuilder(txs[t].req)'
    BY <2>1 DEF OwnBuilder
  <2>5. AsSent(reqs[r], txs[t].sent)
    BY <1>1, <1>3, <2>0, <2>1, <2>2, <2>3, <2>4 DEF SentInv
  <2>6. /\ reqs[r].hop \in 0..Len(hops) /\ reqs[r].cseq \in 1..Len(cseqs)
        /\ reqs[r].uri \in 1..Len(uris)
    BY <2>2 DEF RefInv
  <2>7. reqs[r].hop \in 1..Len(hops)
    BY <2>2, <2>6, Lengths
  <2>8. /\ hops'[reqs[r].hop] = hops[reqs[r].hop] /\ cseqs'[reqs[r].cseq] = cseqs[reqs[r].cseq]
        /\ uris'[reqs[r].uri] = uris[reqs[r].uri]
    BY <2>6, <2>7 DEF Keeps, Grown
  <2>9. /\ reqs'[r].method = reqs[r].method /\ reqs'[r].hop = reqs[r].hop
        /\ reqs'[r].cseq = reqs[r].cseq /\ reqs'[r].uri = reqs[r].uri
        /\ reqs'[r].hs = reqs[r].hs /\ reqs'[r].setup = reqs[r].setup
    BY <2>0, <2>1, <2>2 DEF Keeps, Sent
  <2>10. ASSUME NEW m, NEW tp
         PROVE  /\ Chosen(reqs'[r], "", tp) = Chosen(reqs[r], "", tp)
                /\ SameTransport(reqs'[r], m, tp) <=> SameTransport(reqs[r], m, tp)
    BY <2>9 DEF Chosen, SameTransport
  <2> QED BY <2>1, <2>5, <2>8, <2>9, <2>10 DEF AsSent
<1> QED BY <1>2, <1>3 DEF SentInv

\* A step that builds a request with the objects of the builder.
Builds ==
  /\ UNCHANGED <<builder, hops, uris, txs, branches>>
  /\ IsList(cseqs') /\ IsList(reqs')
  /\ Len(cseqs') = Len(cseqs) /\ Len(reqs') = Len(reqs) + 1
  /\ \A c \in 1..Len(cseqs) : c # builder.cseq => cseqs'[c] = cseqs[c]
  /\ \A r \in 1..Len(reqs) : reqs'[r] = reqs[r]
  /\ DOMAIN cseqs'[builder.cseq] = CSeqFields
  /\ DOMAIN reqs'[Len(reqs) + 1] = ReqFields
  /\ reqs'[Len(reqs) + 1].hop = builder.hop /\ reqs'[Len(reqs) + 1].cseq = builder.cseq
  /\ reqs'[Len(reqs) + 1].uri = builder.uri /\ builder.uri # 0
  /\ cseqs'[builder.cseq].method = reqs'[Len(reqs) + 1].method
  /\ reqs'[Len(reqs) + 1].auth = FALSE

\* The pointers of a new request are those of the builder.
LEMMA BuildsRef == RefInv /\ Builds => RefInv'
<1> SUFFICES ASSUME RefInv, Builds PROVE RefInv'
  OBVIOUS
<1>1. Len(hops) \in Nat /\ Len(cseqs) \in Nat /\ Len(uris) \in Nat /\ Len(reqs) \in Nat
  BY Lengths
<1>2. ASSUME NEW c \in 1..Len(cseqs') PROVE DOMAIN cseqs'[c] = CSeqFields
  BY DEF RefInv, Builds
<1>3. ASSUME NEW r \in 1..Len(reqs')
      PROVE  /\ DOMAIN reqs'[r] = ReqFields
             /\ reqs'[r].hop \in 0..Len(hops) /\ reqs'[r].cseq \in 1..Len(cseqs)
             /\ reqs'[r].uri \in 1..Len(uris) /\ reqs'[r].auth \in BOOLEAN
  <2>1. CASE r = Len(reqs) + 1
    <3>1. /\ DOMAIN reqs'[r] = ReqFields /\ reqs'[r].hop = builder.hop
          /\ reqs'[r].cseq = builder.cseq /\ reqs'[r].uri = builder.uri /\ builder.uri # 0
          /\ reqs'[r].auth = FALSE
      BY <2>1 DEF Builds
    <3>2. /\ builder.hop \in 0..Len(hops) /\ builder.uri \in 0..Len(uris)
          /\ builder.cseq \in 0..Len(cseqs) /\ builder.cseq # 0
      BY <3>1 DEF RefInv
    <3>3. builder.cseq \in 1..Len(cseqs) /\ builder.uri \in 1..Len(uris)
      BY <1>1, <3>1, <3>2, Positive
    <3> QED BY <3>1, <3>2, <3>3, Zenon
  <2>2. CASE r \in 1..Len(reqs)
    BY <2>2 DEF RefInv, Builds
  <2> QED BY <1>1, <2>1, <2>2 DEF Builds
<1>4. ASSUME NEW t \in 1..Len(txs)
      PROVE  /\ txs[t].req \in 1..Len(reqs') /\ reqs'[txs[t].req].hop # 0
             /\ txs[t].auth => reqs'[txs[t].req].auth
  <2>1. /\ txs[t].req \in 1..Len(reqs) /\ reqs[txs[t].req].hop # 0
        /\ txs[t].auth => reqs[txs[t].req].auth
    BY DEF RefInv
  <2>2. Len(reqs') = Len(reqs) + 1 /\ reqs'[txs[t].req] = reqs[txs[t].req]
    BY <2>1 DEF Builds
  <2> QED BY <1>1, <2>1, <2>2
<1> QED BY <1>2, <1>3, <1>4 DEF RefInv, Builds

\* A new request shares what its builder holds with the requests of that builder only.
LEMMA BuildsShare == RefInv /\ ShareInv /\ Builds => ShareInv'
<1> SUFFICES ASSUME RefInv, ShareInv, Builds PROVE ShareInv'
  OBVIOUS
<1>1. ASSUME NEW r \in 1..Len(reqs')
      PROVE  \/ r \in 1..Len(reqs) /\ reqs'[r] = reqs[r]
             \/ /\ reqs'[r].hop = builder.hop /\ reqs'[r].cseq = builder.cseq
                /\ reqs'[r].uri = builder.uri
  <2>1. r \in 1..Len(reqs) \/ r = Len(reqs) + 1
    BY Lengths DEF Builds
  <2> QED BY <2>1 DEF Builds
<1>2. ASSUME NEW q \in 1..Len(reqs'), NEW r \in 1..Len(reqs'), reqs'[q].uri # reqs'[r].uri
      PROVE  reqs'[q].cseq # reqs'[r].cseq /\ (reqs'[q].hop = 0 \/ reqs'[q].hop # reqs'[r].hop)
  BY <1>1, <1>2 DEF ShareInv
<1>3. ASSUME NEW r \in 1..Len(reqs'), reqs'[r].uri # builder.uri
      PROVE  reqs'[r].cseq # builder.cseq /\ (builder.hop = 0 \/ reqs'[r].hop # builder.hop)
  BY <1>1, <1>3 DEF ShareInv
<1> QED BY <1>2, <1>3 DEF ShareInv, Builds

\* A new request gets a branch only when it is sent.
LEMMA BuildsBranch == RefInv /\ BranchInv /\ Builds => BranchInv'
<1> SUFFICES ASSUME RefInv, BranchInv, Builds PROVE BranchInv'
  OBVIOUS
<1>1. \A t \in 1..Len(txs) : reqs'[txs[t].req] = reqs[txs[t].req]
  BY DEF RefInv, Builds
<1>2. UNCHANGED <<hops, txs>>
  BY DEF Builds
<1>3. \A t \in 1..Len(txs) : Pending(txs[t].req)' => Pending(txs[t].req)
  BY <1>1, <1>2 DEF Pending
<1> QED BY <1>1, <1>2, <1>3 DEF BranchInv

\* A request that is sent and is the only one of its builder is not touched by a Build.
LEMMA BuildsSent == RefInv /\ ShareInv /\ SentInv /\ Builds => SentInv'
<1> SUFFICES ASSUME RefInv, ShareInv, SentInv, Builds PROVE SentInv'
  OBVIOUS
<1>1. Len(reqs) \in Nat /\ Len(reqs') = Len(reqs) + 1
  BY Lengths DEF Builds
<1>2. ASSUME NEW r \in 1..Len(reqs), OwnBuilder(r)'
      PROVE  OwnBuilder(r) /\ cseqs'[reqs[r].cseq] = cseqs[reqs[r].cseq]
  <2>1. OwnBuilder(r)
    BY <1>1, <1>2 DEF OwnBuilder, Builds
  <2>2. reqs[r].uri # builder.uri
    <3>1. reqs'[Len(reqs) + 1].uri = builder.uri /\ reqs'[r] = reqs[r]
      BY DEF Builds
    <3>2. Len(reqs) + 1 \in 1..Len(reqs') /\ Len(reqs) + 1 # r
      BY <1>1
    <3> QED BY <1>2, <3>1, <3>2 DEF OwnBuilder
  <2>3. reqs[r].cseq # builder.cseq /\ reqs[r].cseq \in 1..Len(cseqs)
    BY <2>2 DEF ShareInv, RefInv
  <2> QED BY <2>1, <2>3 DEF Builds
<1>3. ASSUME NEW r \in 1..Len(reqs'), OwnBuilder(r)'
      PROVE  cseqs'[reqs'[r].cseq].method = reqs'[r].method
  <2>1. CASE r = Len(reqs) + 1
    BY <2>1 DEF Builds
  <2>2. CASE r \in 1..Len(reqs)
    <3>1. OwnBuilder(r) /\ cseqs'[reqs[r].cseq] = cseqs[reqs[r].cseq]
      BY <1>2, <1>3, <2>2
    <3>2. reqs'[r] = reqs[r]
      BY <2>2 DEF Builds
    <3> QED BY <2>2, <3>1, <3>2 DEF SentInv
  <2> QED BY <1>1, <2>1, <2>2
<1>4. ASSUME NEW t \in 1..Len(txs'), OwnBuilder(txs[t].req)', Current(t)'
      PROVE  AsSent(reqs[txs[t].req], txs[t].sent)'
  <2>1. UNCHANGED <<hops, uris, txs>>
    BY DEF Builds
  <2>2. txs[t].req \in 1..Len(reqs) /\ reqs'[txs[t].req] = reqs[txs[t].req]
    BY <2>1 DEF RefInv, Builds
  <2>3. Current(t)
    BY <1>4, <2>1, <2>2 DEF Current
  <2>4. OwnBuilder(txs[t].req)' => /\ OwnBuilder(txs[t].req)
                                   /\ cseqs'[reqs[txs[t].req].cseq] = cseqs[reqs[txs[t].req].cseq]
    <3>1. PICK r \in 1..Len(reqs) : r = txs[t].req
      BY <2>2
    <3>2. OwnBuilder(r)' <=> OwnBuilder(txs[t].req)'
      BY <2>1, <3>1 DEF OwnBuilder
    <3> QED BY <1>2, <3>1, <3>2
  <2>5. AsSent(reqs[txs[t].req], txs[t].sent)
    BY <1>4, <2>1, <2>3, <2>4 DEF SentInv
  <2> QED BY <1>4, <2>1, <2>2, <2>4, <2>5 DEF AsSent
<1> QED BY <1>3, <1>4 DEF SentInv

\* A step that authorizes request r or sends it, in a new transaction: the hop is one that r
\* had before or a new one, and the request, its hop and its CSeq are what a new transaction
\* sent and no older one of r.
Hop(r)   == reqs'[r].hop
CSeq(r)  == reqs'[r].cseq

Sends(r, x) ==
  /\ DOMAIN x = TxFields /\ x.req = r /\ Keyed(x) /\ x.auth = reqs'[r].auth
  /\ reqs'[r].method = x.sent.method /\ reqs'[r].hs = x.sent.hs
  /\ cseqs'[CSeq(r)] = x.sent.cseq
  /\ hops'[Hop(r)].branch = x.sent.branch /\ hops'[Hop(r)].tp = x.sent.tp
  /\ uris'[reqs[r].uri] = "" /\ x.sent.tp # ""
  /\ SameTransport(reqs'[r], x.sent, Chosen(reqs'[r], "", x.sent.tp))

Alters(r) ==
  /\ UNCHANGED builder
  /\ IsList(hops') /\ IsList(cseqs') /\ IsList(uris') /\ IsList(reqs') /\ IsList(txs')
  /\ Len(hops') \in Nat /\ Len(hops) <= Len(hops') /\ Grown(cseqs, cseqs')
  /\ Len(uris') = Len(uris) /\ Len(reqs') = Len(reqs)
  /\ Len(txs') = Len(txs) \/ (Len(txs') = Len(txs) + 1 /\ Sends(r, txs'[Len(txs) + 1]))
  /\ Hop(r) \in 1..Len(hops') /\ (Hop(r) = reqs[r].hop \/ (reqs[r].hop = 0 /\ Hop(r) > Len(hops)))
  /\ \A h \in 1..Len(hops') : h # Hop(r) => h \in 1..Len(hops) /\ hops'[h] = hops[h]
  /\ DOMAIN hops'[Hop(r)] = HopFields
  /\ CSeq(r) \in 1..Len(cseqs') /\ (CSeq(r) = reqs[r].cseq \/ CSeq(r) > Len(cseqs))
  /\ \A c \in 1..Len(cseqs') : c > Len(cseqs) => DOMAIN cseqs'[c] = CSeqFields
  /\ cseqs'[CSeq(r)].method = cseqs[reqs[r].cseq].method
  /\ \A u \in 1..Len(uris) : u # reqs[r].uri => uris'[u] = uris[u]
  /\ \A q \in 1..Len(reqs) : q # r => reqs'[q] = reqs[q]
  /\ DOMAIN reqs'[r] = ReqFields /\ reqs'[r].auth \in BOOLEAN
  /\ reqs'[r].method = reqs[r].method /\ reqs'[r].uri = reqs[r].uri
  /\ reqs'[r].setup = reqs[r].setup
  /\ \A t \in 1..Len(txs) : txs'[t] = txs[t] /\ (txs[t].req = r => ~txs[t].auth /\ reqs'[r].auth)
  /\ branches' \in Nat /\ branches <= branches' /\ hops'[Hop(r)].branch \in 1..branches'
  /\ \/ hops'[Hop(r)].branch > branches
     \/ /\ ~Sent(r) \/ Pending(r)
        /\ reqs[r].hop # 0 /\ hops'[Hop(r)].branch = hops[reqs[r].hop].branch
        /\ Len(txs') = Len(txs) + 1

\* A new transaction, its request and the hop are as they should be.
LEMMA AltersRef == ASSUME NEW r \in 1..Len(reqs), RefInv, Alters(r) PROVE RefInv'
<1>1. /\ Len(hops) \in Nat /\ Len(cseqs) \in Nat /\ Len(uris) \in Nat /\ Len(reqs) \in Nat
      /\ Len(txs) \in Nat
  BY Lengths
<1>2. /\ Len(hops') \in Nat /\ Len(hops) <= Len(hops')
      /\ Len(cseqs') \in Nat /\ Len(cseqs) <= Len(cseqs')
      /\ Len(uris') = Len(uris) /\ Len(reqs') = Len(reqs)
      /\ Len(txs') = Len(txs) \/ (Len(txs') = Len(txs) + 1 /\ Sends(r, txs'[Len(txs) + 1]))
      /\ branches \in Nat /\ branches' \in Nat /\ branches <= branches'
  BY DEF Alters, Grown, RefInv
<1>3. ASSUME NEW h \in 1..Len(hops')
      PROVE  DOMAIN hops'[h] = HopFields /\ hops'[h].branch \in 0..branches'
  <2>1. CASE h = Hop(r)
    <3>1. /\ DOMAIN hops'[h] = HopFields
          /\ hops'[h].branch \in 1..branches'
      BY <2>1 DEF Alters
    <3> QED BY <1>2, <3>1
  <2>2. CASE h # Hop(r)
    <3>1. h \in 1..Len(hops) /\ hops'[h] = hops[h]
      BY <2>2 DEF Alters
    <3>2. DOMAIN hops[h] = HopFields /\ hops[h].branch \in 0..branches
      BY <3>1 DEF RefInv
    <3> QED BY <1>2, <3>1, <3>2, RangeGrows
  <2> QED BY <2>1, <2>2
<1>4. ASSUME NEW c \in 1..Len(cseqs') PROVE DOMAIN cseqs'[c] = CSeqFields
  <2>1. CASE c \in 1..Len(cseqs)
    <3>1. cseqs'[c] = cseqs[c]
      BY <2>1 DEF Alters, Grown
    <3> QED BY <2>1, <3>1 DEF RefInv
  <2>2. CASE c > Len(cseqs)
    BY <2>2 DEF Alters
  <2> QED BY <1>1, <1>2, <2>1, <2>2
<1>5. ASSUME NEW q \in 1..Len(reqs')
      PROVE  /\ DOMAIN reqs'[q] = ReqFields
             /\ reqs'[q].hop \in 0..Len(hops') /\ reqs'[q].cseq \in 1..Len(cseqs')
             /\ reqs'[q].uri \in 1..Len(uris') /\ reqs'[q].auth \in BOOLEAN
  <2>1. CASE q = r
    <3>1. /\ DOMAIN reqs'[q] = ReqFields /\ reqs'[q].hop \in 1..Len(hops')
          /\ reqs'[q].cseq \in 1..Len(cseqs') /\ reqs'[q].uri = reqs[q].uri
          /\ reqs'[q].auth \in BOOLEAN
      BY <2>1 DEF Alters, Hop, CSeq
    <3>2. reqs[q].uri \in 1..Len(uris)
      BY <2>1 DEF RefInv
    <3> QED BY <1>2, <3>1, <3>2
  <2>2. CASE q # r
    <3>1. q \in 1..Len(reqs) /\ reqs'[q] = reqs[q]
      BY <1>2, <2>2 DEF Alters
    <3>2. /\ DOMAIN reqs[q] = ReqFields /\ reqs[q].hop \in 0..Len(hops)
          /\ reqs[q].cseq \in 1..Len(cseqs) /\ reqs[q].uri \in 1..Len(uris)
          /\ reqs[q].auth \in BOOLEAN
      BY <3>1 DEF RefInv
    <3>3. reqs[q].hop \in 0..Len(hops') /\ reqs[q].cseq \in 1..Len(cseqs')
      BY <1>1, <1>2, <3>2, RangeGrows
    <3> QED BY <1>2, <3>1, <3>2, <3>3
  <2> QED BY <2>1, <2>2
<1>6. ASSUME NEW t \in 1..Len(txs')
      PROVE  /\ DOMAIN txs'[t] = TxFields
             /\ txs'[t].req \in 1..Len(reqs') /\ reqs'[txs'[t].req].hop # 0
             /\ txs'[t].sent.branch \in 1..branches'
             /\ Keyed(txs'[t])
             /\ txs'[t].auth \in BOOLEAN /\ (txs'[t].auth => reqs'[txs'[t].req].auth)
  <2>1. reqs'[r].hop # 0
    <3>1. reqs'[r].hop \in 1..Len(hops')
      BY DEF Alters, Hop
    <3> QED BY <1>2, <3>1
  <2>2. CASE t = Len(txs) + 1 /\ Len(txs') = Len(txs) + 1
    <3>1. Sends(r, txs'[t])
      BY <1>1, <1>2, <2>2
    <3>2. hops'[Hop(r)].branch \in 1..branches' /\ reqs'[r].auth \in BOOLEAN
      BY DEF Alters
    <3> QED BY <1>2, <2>1, <3>1, <3>2 DEF Sends
  <2>3. CASE t \in 1..Len(txs)
    <3>1. txs'[t] = txs[t]
      BY <2>3 DEF Alters
    <3>2. /\ DOMAIN txs[t] = TxFields /\ txs[t].req \in 1..Len(reqs)
          /\ reqs[txs[t].req].hop # 0 /\ txs[t].sent.branch \in 1..branches
          /\ Keyed(txs[t])
          /\ txs[t].auth \in BOOLEAN /\ (txs[t].auth => reqs[txs[t].req].auth)
      BY <2>3 DEF RefInv
    <3>3. reqs'[txs[t].req].hop # 0 /\ (txs[t].auth => reqs'[txs[t].req].auth)
      BY <2>1, <2>3, <3>2 DEF Alters
    <3>4. txs[t].sent.branch \in 1..branches'
      BY <1>2, <3>2, RangeGrows
    <3> QED BY <1>2, <3>1, <3>2, <3>3, <3>4
  <2> QED BY <1>1, <1>2, <2>2, <2>3
<1>7. /\ UNCHANGED builder
      /\ IsList(hops') /\ IsList(cseqs') /\ IsList(uris') /\ IsList(reqs') /\ IsList(txs')
  BY DEF Alters
<1>8. /\ builder.hop \in 0..Len(hops') /\ builder.uri \in 0..Len(uris')
      /\ builder.cseq \in 0..Len(cseqs') /\ (builder.uri # 0 => builder.cseq # 0)
      /\ DOMAIN builder = {"hop", "cseq", "uri", "setup"}
  <2>1. /\ builder.hop \in 0..Len(hops) /\ builder.uri \in 0..Len(uris)
        /\ builder.cseq \in 0..Len(cseqs) /\ (builder.uri # 0 => builder.cseq # 0)
        /\ DOMAIN builder = {"hop", "cseq", "uri", "setup"}
    BY DEF RefInv
  <2> QED BY <1>1, <1>2, <2>1, RangeGrows
<1> QED BY <1>2, <1>3, <1>4, <1>5, <1>6, <1>7, <1>8 DEF RefInv

\* A hop or a CSeq that the request gets is a new one.
LEMMA AltersShare == ASSUME NEW r \in 1..Len(reqs), RefInv, ShareInv, Alters(r) PROVE ShareInv'
<1>1. /\ Len(hops) \in Nat /\ Len(cseqs) \in Nat /\ Len(reqs') = Len(reqs) /\ UNCHANGED builder
  BY Lengths DEF Alters
<1>2. /\ reqs'[r].uri = reqs[r].uri
      /\ reqs'[r].hop = reqs[r].hop \/ reqs'[r].hop > Len(hops)
      /\ reqs'[r].cseq = reqs[r].cseq \/ reqs'[r].cseq > Len(cseqs)
      /\ reqs'[r].hop \in 1..Len(hops') /\ Len(hops') \in Nat
      /\ reqs'[r].cseq \in 1..Len(cseqs') /\ Len(cseqs') \in Nat
  BY DEF Alters, Hop, CSeq, Grown
<1>3. ASSUME NEW q \in 1..Len(reqs), q # r
      PROVE  /\ reqs'[q] = reqs[q]
             /\ reqs[q].hop \in 0..Len(hops) /\ reqs[q].cseq \in 1..Len(cseqs)
  BY <1>3 DEF Alters, RefInv
<1>4. ASSUME NEW q \in 1..Len(reqs), q # r, reqs[q].uri # reqs[r].uri
      PROVE  /\ reqs[q].cseq # reqs'[r].cseq
             /\ reqs'[r].hop # reqs[q].hop
  <2>1. /\ reqs[q].cseq # reqs[r].cseq
        /\ reqs[q].hop = 0 \/ reqs[q].hop # reqs[r].hop
    BY <1>4 DEF ShareInv
  <2>2. reqs[q].hop \in 0..Len(hops) /\ reqs[q].cseq \in 1..Len(cseqs)
    BY <1>3, <1>4
  <2>3. ~(reqs[q].hop > Len(hops)) /\ ~(reqs[q].cseq > Len(cseqs)) /\ reqs[q].cseq \in 0..Len(cseqs)
    <3>1. reqs[q].cseq \in 0..Len(cseqs)
      BY <1>1, <2>2, Within, Zenon
    <3> QED BY <1>1, <2>2, <3>1, NotBeyond, Zenon
  <2>4. reqs[q].cseq # reqs'[r].cseq
    BY <1>2, <2>1, <2>3, Zenon
  <2>5. reqs'[r].hop # 0
    BY <1>2
  <2>6. reqs'[r].hop # reqs[q].hop
    BY <1>2, <2>1, <2>3, <2>5, Zenon
  <2> QED BY <2>4, <2>6
<1>5. ASSUME NEW p \in 1..Len(reqs'), NEW q \in 1..Len(reqs'), reqs'[p].uri # reqs'[q].uri
      PROVE  reqs'[p].cseq # reqs'[q].cseq /\ (reqs'[p].hop = 0 \/ reqs'[p].hop # reqs'[q].hop)
  <2>1. CASE p = r
    BY <1>1, <1>2, <1>3, <1>4, <1>5, <2>1
  <2>2. CASE p # r /\ q = r
    BY <1>1, <1>2, <1>3, <1>4, <1>5, <2>2
  <2>3. CASE p # r /\ q # r
    BY <1>1, <1>3, <1>5, <2>3 DEF ShareInv
  <2> QED BY <2>1, <2>2, <2>3
<1>6. ASSUME NEW q \in 1..Len(reqs'), reqs'[q].uri # builder'.uri
      PROVE  reqs'[q].cseq # builder'.cseq /\ (builder'.hop = 0 \/ reqs'[q].hop # builder'.hop)
  <2>1. CASE q # r
    BY <1>1, <1>3, <1>6, <2>1 DEF ShareInv
  <2>2. CASE q = r
    <3>1. reqs[r].cseq # builder.cseq /\ (builder.hop = 0 \/ reqs[r].hop # builder.hop)
      BY <1>1, <1>2, <1>6, <2>2 DEF ShareInv
    <3>2. builder.hop \in 0..Len(hops) /\ builder.cseq \in 0..Len(cseqs)
      BY DEF RefInv
    <3>3. ~(builder.hop > Len(hops)) /\ ~(builder.cseq > Len(cseqs))
      BY <1>1, <3>2, NotBeyond, Zenon
    <3>4. reqs'[r].cseq # builder.cseq /\ (builder.hop = 0 \/ reqs'[r].hop # builder.hop)
      BY <1>2, <3>1, <3>3, Zenon
    <3> QED BY <1>1, <2>2, <3>4, Zenon
  <2> QED BY <2>1, <2>2
<1> QED BY <1>5, <1>6 DEF ShareInv

\* The branch is new, or the one of the other requests of the builder.
LEMMA AltersBranch ==
  ASSUME NEW r \in 1..Len(reqs), RefInv, ShareInv, BranchInv, Alters(r) PROVE BranchInv'
<1>1. /\ Len(hops) \in Nat /\ Len(txs) \in Nat
      /\ Len(txs') = Len(txs) \/ (Len(txs') = Len(txs) + 1 /\ Sends(r, txs'[Len(txs) + 1]))
      /\ Len(hops') \in Nat /\ Len(hops) <= Len(hops')
  BY Lengths DEF Alters
<1> DEFINE n == Len(txs) + 1
           g == reqs'[r].hop
           b == hops'[g].branch
<1>2. /\ reqs'[r].uri = reqs[r].uri
      /\ \/ b > branches
         \/ /\ ~Sent(r) \/ Pending(r)
            /\ reqs[r].hop # 0 /\ b = hops[reqs[r].hop].branch /\ Len(txs') = n
      /\ b \in 1..branches' /\ branches' \in Nat /\ branches \in Nat
      /\ g = reqs[r].hop \/ (reqs[r].hop = 0 /\ g > Len(hops))
      /\ g \in 1..Len(hops') /\ reqs[r].hop \in 0..Len(hops)
  BY DEF Alters, Hop, RefInv
<1>3. ASSUME NEW t \in 1..Len(txs)
      PROVE  /\ txs'[t] = txs[t] /\ txs[t].req \in 1..Len(reqs)
             /\ txs[t].sent.branch \in 1..branches
             /\ reqs'[txs[t].req].uri = reqs[txs[t].req].uri
             /\ reqs'[txs[t].req].hop = reqs[txs[t].req].hop
             /\ txs[t].req # r => reqs'[txs[t].req] = reqs[txs[t].req]
  <2>1. txs'[t] = txs[t]
    BY DEF Alters
  <2>2. /\ txs[t].req \in 1..Len(reqs) /\ txs[t].sent.branch \in 1..branches
        /\ reqs[txs[t].req].hop # 0
    BY DEF RefInv
  <2>3. txs[t].req # r => reqs'[txs[t].req] = reqs[txs[t].req]
    BY <2>2 DEF Alters
  <2>4. txs[t].req = r => reqs'[r].hop = reqs[r].hop
    BY <1>2, <2>2
  <2> QED BY <1>2, <2>1, <2>2, <2>3, <2>4
<1>4. ASSUME NEW h \in 1..Len(hops'), h # g
      PROVE  /\ h \in 1..Len(hops) /\ hops'[h] = hops[h]
             /\ hops[h].branch \in 0..branches
  BY <1>4 DEF Alters, Hop, RefInv
<1>5. ASSUME Len(txs') = n
      PROVE  /\ txs'[n].req = r /\ txs'[n].sent.branch = b
             /\ txs'[n].auth = reqs'[r].auth
  <2>1. Sends(r, txs'[n])
    BY <1>1, <1>5
  <2> QED BY <2>1, Zenon DEF Sends, Hop
<1> HIDE DEF n, b, g
<1>6. ASSUME NEW t \in 1..Len(txs), txs[t].sent.branch = b
      PROVE  /\ txs[t].req # r /\ reqs[txs[t].req].uri = reqs[r].uri
             /\ reqs[txs[t].req].hop = g
  <2>0. ~(b > branches)
    <3>1. b \in 1..branches /\ branches \in Nat
      BY <1>2, <1>3, <1>6
    <3> QED BY <3>1
  <2>1. /\ ~Sent(r) \/ Pending(r)
        /\ reqs[r].hop # 0 /\ b = hops[reqs[r].hop].branch
    BY <1>2, <2>0
  <2>2. g = reqs[r].hop /\ reqs[r].hop \in 1..Len(hops)
    BY <1>1, <1>2, <2>1, Positive
  <2>3. reqs[txs[t].req].hop = reqs[r].hop
    BY <1>6, <2>1, <2>2, Zenon DEF BranchInv
  <2>4. txs[t].req # r
    <3> SUFFICES ASSUME txs[t].req = r PROVE FALSE
      OBVIOUS
    <3>1. Pending(txs[t].req)
      <4>1. Pending(r)
        BY <2>1 DEF Sent
      <4> QED BY <4>1
    <3>2. txs[t].sent.branch # hops[reqs[txs[t].req].hop].branch
      BY <3>1, Zenon DEF BranchInv
    <3> QED BY <1>6, <2>1, <3>2
  <2>5. reqs[txs[t].req].uri = reqs[r].uri
    BY <1>3, <2>1, <2>3 DEF ShareInv
  <2> QED BY <2>2, <2>3, <2>4, <2>5
<1>7. ASSUME NEW h \in 1..Len(hops'), h # g PROVE hops'[h].branch # b
  <2> SUFFICES ASSUME hops'[h].branch = b PROVE FALSE
    OBVIOUS
  <2>1. h \in 1..Len(hops) /\ hops[h].branch = b /\ b # 0 /\ ~(b > branches)
    <3>1. h \in 1..Len(hops) /\ hops[h].branch = b /\ b \in 0..branches
      BY <1>4, <1>7
    <3> QED BY <1>2, <3>1
  <2>2. reqs[r].hop # 0 /\ b = hops[reqs[r].hop].branch /\ g = reqs[r].hop
    BY <1>2, <2>1
  <2>3. reqs[r].hop \in 1..Len(hops)
    BY <1>1, <1>2, <2>2, Positive
  <2> QED BY <1>7, <2>1, <2>2, <2>3, Zenon DEF BranchInv
<1>8. ASSUME NEW t \in 1..Len(txs') PROVE t \in 1..Len(txs) \/ (t = n /\ Len(txs') = n)
  BY <1>1 DEF n
<1>9. ASSUME NEW t \in 1..Len(txs'), NEW h \in 1..Len(hops'), hops'[h].branch = txs'[t].sent.branch
      PROVE  reqs'[txs'[t].req].hop = h
  <2>1. CASE t = n /\ Len(txs') = n
    <3>1. h = g
      BY <1>5, <1>7, <1>9, <2>1
    <3> QED BY <1>5, <2>1, <3>1 DEF g
  <2>2. CASE t \in 1..Len(txs) /\ h = g
    <3>1. txs[t].sent.branch = b
      BY <1>3, <1>9, <2>2 DEF b
    <3> QED BY <1>3, <1>6, <2>2, <3>1
  <2>3. CASE t \in 1..Len(txs) /\ h # g
    <3>1. h \in 1..Len(hops) /\ hops[h].branch = txs[t].sent.branch /\ txs'[t] = txs[t]
      BY <1>3, <1>4, <1>9, <2>3
    <3>2. reqs[txs[t].req].hop = h
      BY <2>3, <3>1 DEF BranchInv
    <3> QED BY <1>3, <2>3, <3>1, <3>2
  <2> QED BY <1>8, <2>1, <2>2, <2>3
<1>10. ASSUME NEW t \in 1..Len(txs'), NEW u \in 1..Len(txs'), t # u,
              txs'[t].sent.branch = txs'[u].sent.branch
       PROVE  txs'[t].req # txs'[u].req /\ reqs'[txs'[t].req].uri = reqs'[txs'[u].req].uri
  <2>1. CASE t = n /\ Len(txs') = n /\ u \in 1..Len(txs)
    <3>1. txs[u].sent.branch = b /\ txs'[u] = txs[u]
      BY <1>3, <1>5, <1>10, <2>1
    <3> QED BY <1>2, <1>3, <1>5, <1>6, <2>1, <3>1
  <2>2. CASE u = n /\ Len(txs') = n /\ t \in 1..Len(txs)
    <3>1. txs[t].sent.branch = b /\ txs'[t] = txs[t]
      BY <1>3, <1>5, <1>10, <2>2
    <3> QED BY <1>2, <1>3, <1>5, <1>6, <2>2, <3>1
  <2>3. CASE t \in 1..Len(txs) /\ u \in 1..Len(txs)
    <3>1. txs'[t] = txs[t] /\ txs'[u] = txs[u]
      BY <1>3, <2>3
    <3>2. txs[t].req # txs[u].req /\ reqs[txs[t].req].uri = reqs[txs[u].req].uri
      BY <1>10, <2>3, <3>1 DEF BranchInv
    <3> QED BY <1>3, <2>3, <3>1, <3>2
  <2> QED BY <1>8, <1>10, <2>1, <2>2, <2>3
<1>11. ASSUME NEW h \in 1..Len(hops'), NEW i \in 1..Len(hops'),
              hops'[h].branch = hops'[i].branch, hops'[i].branch # 0
       PROVE  h = i
  <2>1. CASE h = g \/ i = g
    BY <1>7, <1>11, <2>1 DEF b
  <2>2. CASE h # g /\ i # g
    <3>1. /\ h \in 1..Len(hops) /\ hops'[h] = hops[h]
          /\ i \in 1..Len(hops) /\ hops'[i] = hops[i]
      BY <1>4, <2>2
    <3> QED BY <1>11, <3>1 DEF BranchInv
  <2> QED BY <2>1, <2>2
<1>12. ASSUME NEW t \in 1..Len(txs'), Pending(txs[t].req)'
       PROVE  txs'[t].sent.branch # hops'[reqs'[txs'[t].req].hop].branch
  <2>0. PICK q : q = txs'[t].req
    OBVIOUS
  <2>1. reqs'[q].auth /\ \A u \in 1..Len(txs') : txs'[u].req = q => ~txs'[u].auth
    BY <1>12, <2>0 DEF Pending
  <2>2. Len(txs') = n => q # r
    <3>1. Len(txs') = n => n \in 1..Len(txs')
      BY <1>1 DEF n
    <3> QED BY <1>5, <2>1, <3>1
  <2>3. t \in 1..Len(txs)
    BY <1>5, <1>8, <2>0, <2>2
  <2>4. /\ txs'[t] = txs[t] /\ q = txs[t].req /\ txs[t].sent.branch \in 1..branches
        /\ reqs'[q].hop = reqs[q].hop
        /\ q # r => reqs'[q] = reqs[q]
    BY <1>3, <2>0, <2>3
  <2>5. CASE q = r
    <3>1. b > branches /\ g = reqs'[q].hop
      BY <1>2, <2>2, <2>5 DEF g
    <3>2. ~(txs[t].sent.branch > branches)
      BY <1>2, <2>4
    <3> QED BY <2>0, <2>4, <3>1, <3>2 DEF b
  <2>6. CASE q # r
    <3>1. Pending(q)
      <4>1. ASSUME NEW u \in 1..Len(txs), txs[u].req = q PROVE ~txs[u].auth
        <5>1. u \in 1..Len(txs') /\ txs'[u] = txs[u]
          BY <1>1, <1>3
        <5> QED BY <2>1, <4>1, <5>1
      <4> QED BY <2>1, <2>4, <2>6, <4>1 DEF Pending
    <3>2. txs[t].sent.branch # hops[reqs[q].hop].branch
      BY <2>3, <2>4, <3>1 DEF BranchInv
    <3>3. CASE reqs[q].hop = g
      <4>2. ~(txs[t].sent.branch > branches)
        BY <1>2, <2>4
      <4>3. b = hops[g].branch \/ b > branches
        BY <1>2
      <4> QED BY <2>0, <2>4, <3>2, <3>3, <4>2, <4>3 DEF b
    <3>4. CASE reqs[q].hop # g
      <4>1. reqs[q].hop \in 0..Len(hops) /\ reqs[q].hop # 0
        BY <2>3, <2>4 DEF RefInv
      <4>2. reqs[q].hop \in 1..Len(hops')
        BY <1>1, <4>1
      <4>3. hops'[reqs[q].hop] = hops[reqs[q].hop]
        BY <1>4, <3>4, <4>2
      <4> QED BY <2>0, <2>4, <3>2, <4>3
    <3> QED BY <3>3, <3>4
  <2> QED BY <2>5, <2>6
<1> QED BY <1>9, <1>10, <1>11, <1>12 DEF BranchInv

\* The other requests of other builders, and what they point to, are left alone.
LEMMA AltersOthers ==
  ASSUME NEW r \in 1..Len(reqs), RefInv, ShareInv, Alters(r),
         NEW q \in 1..Len(reqs), q # r, OwnBuilder(q)
  PROVE  /\ reqs'[q] = reqs[q]
         /\ cseqs'[reqs[q].cseq] = cseqs[reqs[q].cseq]
         /\ uris'[reqs[q].uri] = uris[reqs[q].uri]
         /\ reqs[q].hop # 0 => hops'[reqs[q].hop] = hops[reqs[q].hop]
<1>1. Len(hops) \in Nat
  BY Lengths
<1>2. reqs[r].uri # reqs[q].uri
  BY DEF OwnBuilder
<1>3. /\ reqs[q].hop \in 0..Len(hops) /\ reqs[q].cseq \in 1..Len(cseqs)
      /\ reqs[q].uri \in 1..Len(uris)
  BY DEF RefInv
<1>4. reqs[q].hop = 0 \/ reqs[q].hop # reqs[r].hop
  BY <1>2 DEF ShareInv
<1>5. reqs'[q] = reqs[q] /\ uris'[reqs[q].uri] = uris[reqs[q].uri]
  BY <1>2, <1>3 DEF Alters
<1>6. cseqs'[reqs[q].cseq] = cseqs[reqs[q].cseq]
  BY <1>3 DEF Alters, Grown
<1>7. ASSUME reqs[q].hop # 0 PROVE hops'[reqs[q].hop] = hops[reqs[q].hop]
  <2>1. /\ Hop(r) \in 1..Len(hops') /\ Len(hops') \in Nat /\ Len(hops) <= Len(hops')
        /\ Hop(r) = reqs[r].hop \/ Hop(r) > Len(hops)
    BY DEF Alters
  <2>2. reqs[q].hop \in 1..Len(hops') /\ reqs[q].hop # Hop(r)
    BY <1>1, <1>3, <1>4, <1>7, <2>1
  <2> QED BY <2>2 DEF Alters
<1> QED BY <1>5, <1>6, <1>7

\* The request is what a new transaction sends and no older one, and the other requests stay what they were.
LEMMA AltersSent ==
  ASSUME NEW r \in 1..Len(reqs), RefInv, ShareInv, SentInv, Alters(r) PROVE SentInv'
<1>1. /\ Len(hops) \in Nat /\ Len(cseqs) \in Nat /\ Len(txs) \in Nat
      /\ Len(txs') = Len(txs) \/ (Len(txs') = Len(txs) + 1 /\ Sends(r, txs'[Len(txs) + 1]))
      /\ Len(reqs') = Len(reqs)
  BY Lengths DEF Alters
<1>2. ASSUME NEW q \in 1..Len(reqs) PROVE reqs'[q].uri = reqs[q].uri
  BY DEF Alters
<1>3. ASSUME NEW q \in 1..Len(reqs), OwnBuilder(q)' PROVE OwnBuilder(q)
  BY <1>1, <1>2, <1>3 DEF OwnBuilder
<1>4. ASSUME NEW q \in 1..Len(reqs), q # r, OwnBuilder(q)
      PROVE  /\ reqs'[q] = reqs[q]
             /\ cseqs'[reqs[q].cseq] = cseqs[reqs[q].cseq]
             /\ uris'[reqs[q].uri] = uris[reqs[q].uri]
             /\ reqs[q].hop # 0 => hops'[reqs[q].hop] = hops[reqs[q].hop]
  BY <1>4, AltersOthers, Zenon
<1>5. ASSUME NEW q \in 1..Len(reqs'), OwnBuilder(q)'
      PROVE  cseqs'[reqs'[q].cseq].method = reqs'[q].method
  <2>1. q \in 1..Len(reqs) /\ OwnBuilder(q)
    BY <1>1, <1>3, <1>5
  <2>2. cseqs[reqs[q].cseq].method = reqs[q].method
    BY <2>1 DEF SentInv
  <2>3. CASE q = r
    BY <2>2, <2>3 DEF Alters, CSeq
  <2>4. CASE q # r
    BY <1>4, <2>1, <2>2, <2>4
  <2> QED BY <2>3, <2>4
<1>6. ASSUME NEW t \in 1..Len(txs'), OwnBuilder(txs[t].req)', Current(t)'
      PROVE  AsSent(reqs[txs[t].req], txs[t].sent)'
  <2>0. PICK q : q = txs'[t].req
    OBVIOUS
  <2>1. OwnBuilder(q)' <=> OwnBuilder(txs[t].req)'
    BY <2>0 DEF OwnBuilder
  <2>2. CASE t = Len(txs) + 1 /\ Sends(r, txs'[t])
    <3> DEFINE m == txs'[t].sent
    <3>1. q = r /\ r \in 1..Len(reqs')
      BY <1>1, <2>0, <2>2 DEF Sends
    <3>2. cseqs'[reqs'[r].cseq].method = reqs'[r].method
      BY <1>5, <1>6, <2>1, <3>1
    <3>3. /\ reqs'[r].method = m.method /\ reqs'[r].hs = m.hs
          /\ cseqs'[reqs'[r].cseq] = m.cseq /\ m.cseq.method = m.method
          /\ hops'[reqs'[r].hop].branch = m.branch /\ hops'[reqs'[r].hop].tp = m.tp
          /\ uris'[reqs'[r].uri] = "" /\ m.tp # ""
          /\ SameTransport(reqs'[r], m, Chosen(reqs'[r], "", m.tp))
      BY <1>2, <2>2, <3>2 DEF Sends, Hop, CSeq
    <3>4. AsSent(reqs[r], txs[t].sent)'
      BY <3>3 DEF AsSent, SameTransport, Chosen
    <3> QED BY <2>0, <3>1, <3>4
  <2>3. CASE t \in 1..Len(txs)
    <3>1. txs'[t] = txs[t] /\ q \in 1..Len(reqs) /\ reqs[q].hop # 0
      BY <2>0, <2>3 DEF Alters, RefInv
    <3>2. OwnBuilder(q)
      BY <1>3, <1>6, <2>1, <3>1
    <3>3. q # r
      BY <1>6, <2>0, <2>3, <3>1 DEF Alters, Current
    <3>4. Current(t)
      <4>1. reqs'[q] = reqs[q]
        BY <1>4, <3>1, <3>2, <3>3
      <4> QED BY <1>6, <2>0, <3>1, <4>1 DEF Current
    <3>5. AsSent(reqs[q], txs[t].sent)
      BY <2>0, <2>3, <3>1, <3>2, <3>4 DEF SentInv
    <3>6. /\ reqs'[q] = reqs[q] /\ cseqs'[reqs[q].cseq] = cseqs[reqs[q].cseq]
          /\ uris'[reqs[q].uri] = uris[reqs[q].uri]
          /\ hops'[reqs[q].hop] = hops[reqs[q].hop]
      BY <1>4, <3>1, <3>2, <3>3
    <3>7. AsSent(reqs[q], txs[t].sent)'
      BY <3>1, <3>5, <3>6 DEF AsSent, Chosen, SameTransport
    <3> QED BY <2>0, <3>7
  <2>4. (t = Len(txs) + 1 /\ Sends(r, txs'[t])) \/ t \in 1..Len(txs)
    BY <1>1
  <2> QED BY <2>2, <2>3, <2>4, Zenon
<1>7. \A q \in 1..Len(reqs') : OwnBuilder(q)' => cseqs'[reqs'[q].cseq].method = reqs'[q].method
  BY <1>5
<1> QED BY <1>6, <1>7 DEF SentInv

\* The Route or the recipient decides, and neither depends on the parameter for sips.
LEMMA TargetCases ==
  ASSUME NEW hs, NEW route
  PROVE  \/ \A u : TargetUri(hs, route, u) = u
         \/ \A u, v : TargetUri(hs, route, u) = TargetUri(hs, route, v)
BY DEF TargetUri

\* A URI with another parameter.
LEMMA UriFields ==
  ASSUME NEW tp, NEW sips PROVE Uri(tp, sips).tp = tp /\ Uri(tp, sips).sips = sips
BY DEF Uri

\* The transport, of the current parameter of the recipient and the transport of the hop.
LEMMA TransportChosen ==
  ASSUME NEW q, NEW hop PROVE Transport(q, hop) = Chosen(q, uris[q.uri], hop.tp)
BY DEF Transport, Chosen

\* The transport that was written into the hop is the transport of the request from then on,
\* but for a long request to a sips URI.
LEMMA ChosenTwice ==
  ASSUME NEW q, NEW param, NEW via, NEW m, m.hs = q.hs, m.tp = Chosen(q, param, via)
  PROVE  m.tp # "" /\ SameTransport(q, m, Chosen(q, "", m.tp))
<1> DEFINE u == TargetUri(q.hs, q.setup.route, Uri(param, q.setup.uri.sips))
           v == TargetUri(q.hs, q.setup.route, Uri("", q.setup.uri.sips))
           w == TargetUri(q.hs, q.setup.route, q.setup.uri)
<1>1. v.sips = u.sips /\ w.sips = u.sips /\ (v.tp = "" \/ v.tp = u.tp)
  <2>1. CASE \A x : TargetUri(q.hs, q.setup.route, x) = x
    <3>1. u = Uri(param, q.setup.uri.sips) /\ v = Uri("", q.setup.uri.sips) /\ w = q.setup.uri
      BY <2>1, Zenon
    <3>2. /\ Uri(param, q.setup.uri.sips).sips = q.setup.uri.sips
          /\ Uri("", q.setup.uri.sips).sips = q.setup.uri.sips /\ Uri("", q.setup.uri.sips).tp = ""
      BY UriFields, Zenon
    <3> QED BY <3>1, <3>2, Zenon
  <2>2. CASE \A x, y : TargetUri(q.hs, q.setup.route, x) = TargetUri(q.hs, q.setup.route, y)
    BY <2>2
  <2> QED BY <2>1, <2>2, TargetCases
<1> DEFINE Named(x, y) == IF x # "" THEN x ELSE IF y # "" THEN y ELSE "UDP"
           Safe(x) == IF u.sips THEN Secured(x) ELSE x
           Fits(x) == IF x = "UDP" /\ TooLong(q.hs) THEN "TCP" ELSE x
<1>2. /\ m.tp = IF q.setup.tp # "" THEN q.setup.tp ELSE Fits(Safe(Named(u.tp, via)))
      /\ Chosen(q, "", m.tp) = IF q.setup.tp # "" THEN q.setup.tp ELSE Fits(Safe(Named(v.tp, m.tp)))
      /\ LongSips(q.setup, m) <=> q.setup.tp = "" /\ TooLong(q.hs) /\ u.sips
  BY <1>1 DEF Chosen, LongSips
<1> HIDE DEF u, v, w
<1>3. Named(u.tp, via) # ""
  OBVIOUS
<1> QED BY <1>1, <1>2, <1>3 DEF SameTransport, Secured

\* The image of a request as it is sent.
IsImage(m, q, hop, cseq) ==
  /\ DOMAIN m = SentFields /\ m.method = q.method /\ m.branch = hop.branch
  /\ m.cseq = cseq /\ m.tp = Transport(q, hop) /\ m.hs = q.hs

\* The fields of an image are those of the request, its hop and its CSeq.
LEMMA ImageFields ==
  ASSUME NEW q, NEW hop, NEW cseq PROVE IsImage(Image(q, hop, cseq), q, hop, cseq)
BY DEF IsImage, Image, SentFields

\* The branch of a hop, or a new one, after n.
LEMMA NewBranch ==
  ASSUME NEW n \in Nat, NEW b \in 0..n
  PROVE  LET new == IF b = 0 THEN n + 1 ELSE n
             c   == IF b = 0 THEN new ELSE b
         IN  /\ new \in Nat /\ n <= new /\ c \in 1..new
             /\ (b = 0 => c > n) /\ (b # 0 => c = b)
OBVIOUS

\* The branch of the hop of a request.
LEMMA HopBranch ==
  ASSUME RefInv, NEW r \in 1..Len(reqs)
  PROVE  /\ HopOf(reqs[r]).branch \in 0..branches
         /\ HopOf(reqs[r]).branch # 0 =>
              reqs[r].hop # 0 /\ HopOf(reqs[r]).branch = hops[reqs[r].hop].branch
<1>1. reqs[r].hop \in 0..Len(hops) /\ branches \in Nat
  BY DEF RefInv
<1>2. CASE reqs[r].hop = 0
  <2>1. HopOf(reqs[r]).branch = 0
    BY <1>2 DEF HopOf
  <2>2. 0 \in 0..branches
    BY <1>1
  <2> QED BY <2>1, <2>2, Zenon
<1>3. CASE reqs[r].hop # 0
  <2>1. reqs[r].hop \in 1..Len(hops)
    BY <1>1, <1>3, Lengths, Positive, Zenon
  <2> QED BY <1>3, <2>1 DEF HopOf, RefInv
<1> QED BY <1>2, <1>3

\* A CSeq that stays as it is.
LEMMA SameList ==
  ASSUME NEW s, NEW t, s = t, Len(s) \in Nat
  PROVE  Grown(s, t) /\ \A i \in 1..Len(t) : ~(i > Len(s))
BY DEF Grown

\* The transport over which the next transaction sends request r.
Transported(r) ==
  txs'[Len(txs) + 1].sent.tp = Chosen(reqs'[r], uris[reqs[r].uri], HopOf(reqs[r]).tp)

\* Request alters a request that was not sent, or not since it was authorized.
LEMMA RequestAlters ==
  ASSUME RefInv, NEW r \in 1..Len(reqs), ~Sent(r) \/ Pending(r), Request(r)
  PROVE  Alters(r) /\ Len(txs') = Len(txs) + 1 /\ Transported(r)
<1> DEFINE q  == reqs[r]
           hop == HopOf(q)
           hs == appendAutoHeaders(q.hs, q.method)
           p  == [q EXCEPT !.hs  = IF q.hop = 0 THEN PrependHeader(hs, Header("via", 0)) ELSE hs,
                           !.hop = IF q.hop = 0 THEN Len(hops) + 1 ELSE q.hop]
           new == IF hop.branch = 0 THEN branches + 1 ELSE branches
           h  == [branch |-> IF hop.branch = 0 THEN new ELSE hop.branch, tp |-> Transport(p, hop)]
           m  == [Image(p, h, cseqs[q.cseq]) EXCEPT !.tp = h.tp]
           x  == [req |-> r, key |-> MakeClientTxKey(m), sent |-> m, state |-> "calling",
                  auth |-> q.auth]
<1>1. /\ branches' = new
      /\ hops' = IF q.hop = 0 THEN Append(hops, h) ELSE [hops EXCEPT ![q.hop] = h]
      /\ reqs' = [reqs EXCEPT ![r] = p]
      /\ uris' = [uris EXCEPT ![q.uri] = ""]
      /\ txs' = Append(txs, x) /\ UNCHANGED <<builder, cseqs>>
  BY DEF Request
<1>2. /\ DOMAIN q = ReqFields /\ q.hop \in 0..Len(hops) /\ q.cseq \in 1..Len(cseqs)
      /\ q.uri \in 1..Len(uris) /\ q.auth \in BOOLEAN /\ branches \in Nat
      /\ IsList(hops) /\ IsList(cseqs) /\ IsList(uris) /\ IsList(reqs) /\ IsList(txs)
      /\ hop.branch \in 0..branches
      /\ hop.branch # 0 => q.hop # 0 /\ hop.branch = hops[q.hop].branch
  BY HopBranch DEF RefInv
<1> HIDE DEF q
<1>3. /\ DOMAIN p = ReqFields /\ p.method = q.method /\ p.uri = q.uri /\ p.cseq = q.cseq
      /\ p.setup = q.setup /\ p.auth = q.auth
      /\ p.hop = IF q.hop = 0 THEN Len(hops) + 1 ELSE q.hop
  BY <1>2 DEF ReqFields
<1> HIDE DEF p, hop
<1>4. /\ DOMAIN h = HopFields /\ h.branch \in 1..new
      /\ new \in Nat /\ branches <= new
      /\ \/ h.branch > branches
         \/ q.hop # 0 /\ h.branch = hops[q.hop].branch
  <2>1. DOMAIN h = HopFields /\ h.branch = IF hop.branch = 0 THEN new ELSE hop.branch
    BY DEF HopFields
  <2>2. /\ new \in Nat /\ branches <= new /\ h.branch \in 1..new
        /\ (hop.branch = 0 => h.branch > branches) /\ (hop.branch # 0 => h.branch = hop.branch)
    BY <1>2, <2>1, NewBranch, Zenon
  <2> QED BY <1>2, <2>1, <2>2, Zenon
<1>5. h.tp = Chosen(p, uris[p.uri], hop.tp)
  <2>1. h.tp = Transport(p, hop)
    OBVIOUS
  <2> QED BY <2>1, TransportChosen, Zenon
<1> HIDE DEF h
<1>6. /\ m.method = q.method /\ m.branch = h.branch /\ m.cseq = cseqs[q.cseq] /\ m.tp = h.tp
      /\ m.hs = p.hs /\ DOMAIN m = SentFields
  <2> DEFINE i == Image(p, h, cseqs[q.cseq])
  <2>1. IsImage(i, p, h, cseqs[q.cseq])
    BY ImageFields, Zenon
  <2> HIDE DEF i
  <2>2. m = [i EXCEPT !.tp = h.tp]
    BY DEF i
  <2> HIDE DEF m
  <2> QED BY <1>3, <2>1, <2>2 DEF IsImage, SentFields
<1> HIDE DEF m, new
<1>7. m.tp # "" /\ SameTransport(p, m, Chosen(p, "", m.tp))
  BY <1>5, <1>6, ChosenTwice, Zenon
<1>8. DOMAIN x = TxFields /\ x.req = r /\ Keyed(x) /\ x.sent = m /\ x.auth = q.auth
  BY <1>6 DEF TxFields, Keyed
<1> HIDE DEF x
<1>9. /\ IsList(txs') /\ Len(txs') = Len(txs) + 1 /\ txs'[Len(txs) + 1] = x
      /\ \A t \in 1..Len(txs) : txs'[t] = txs[t]
  <2>1. Appended(txs, x, txs')
    BY <1>1, <1>2, ListAppend, Zenon
  <2> QED BY <2>1 DEF Appended
<1>10. /\ IsList(reqs') /\ Len(reqs') = Len(reqs) /\ reqs'[r] = p
       /\ \A i \in 1..Len(reqs) : i # r => reqs'[i] = reqs[i]
  <2>1. Replaced(reqs, r, p, reqs')
    BY <1>1, <1>2, ListExcept, Zenon
  <2> QED BY <2>1 DEF Replaced
<1>11. /\ IsList(uris') /\ Len(uris') = Len(uris) /\ uris'[q.uri] = ""
       /\ \A u \in 1..Len(uris) : u # q.uri => uris'[u] = uris[u]
  <2>1. Replaced(uris, q.uri, "", uris')
    BY <1>1, <1>2, ListExcept, Zenon
  <2> QED BY <2>1 DEF Replaced
<1>12. /\ Put(hops, p.hop, h, hops')
       /\ p.hop = q.hop \/ (q.hop = 0 /\ p.hop > Len(hops))
  <2>1. CASE q.hop = 0
    <3>1. IsList(hops) /\ hops' = Append(hops, h)
      BY <1>1, <1>2, <2>1
    <3>2. Appended(hops, h, hops')
      BY <3>1, ListAppend, Zenon
    <3>3. p.hop = Len(hops) + 1
      BY <1>3, <2>1
    <3> QED BY <2>1, <3>2, <3>3, PutNew, Zenon
  <2>2. CASE q.hop # 0
    <3>1. q.hop \in 1..Len(hops)
      BY <1>2, <2>2, Lengths, Positive, Zenon
    <3>2. IsList(hops) /\ hops' = [hops EXCEPT ![q.hop] = h]
      BY <1>1, <1>2, <2>2
    <3>3. Replaced(hops, q.hop, h, hops')
      BY <3>1, <3>2, ListExcept, Zenon
    <3>4. p.hop = q.hop
      BY <1>3, <2>2
    <3> QED BY <3>1, <3>3, <3>4, PutOld, Zenon
  <2> QED BY <2>1, <2>2
<1>13. Hop(r) = p.hop /\ CSeq(r) = q.cseq
  BY <1>3, <1>10 DEF Hop, CSeq
<1>14. /\ Hop(r) \in 1..Len(hops')
       /\ Hop(r) = q.hop \/ (q.hop = 0 /\ Hop(r) > Len(hops))
       /\ \A i \in 1..Len(hops') : i # Hop(r) => i \in 1..Len(hops) /\ hops'[i] = hops[i]
       /\ hops'[Hop(r)] = h
       /\ IsList(hops') /\ Len(hops') \in Nat /\ Len(hops) <= Len(hops')
  BY <1>12, <1>13, Zenon DEF Put
<1>15. /\ cseqs' = cseqs /\ IsList(cseqs') /\ Grown(cseqs, cseqs')
       /\ \A c \in 1..Len(cseqs') : ~(c > Len(cseqs))
  <2>1. cseqs' = cseqs /\ Len(cseqs) \in Nat
    BY <1>1, Lengths
  <2>2. IsList(cseqs')
    BY <1>2, <2>1 DEF IsList
  <2> QED BY <2>1, <2>2, SameList, Zenon
<1>16. Sends(r, x)
  <2>1. x.sent = m /\ reqs'[r] = p /\ hops'[Hop(r)] = h /\ CSeq(r) = q.cseq /\ cseqs' = cseqs
    BY <1>8, <1>10, <1>13, <1>14, <1>15
  <2>2. uris'[reqs[r].uri] = ""
    BY <1>11 DEF q
  <2> QED BY <1>3, <1>6, <1>7, <1>8, <2>1, <2>2, Zenon DEF Sends
<1>17. \A t \in 1..Len(txs) : txs[t].req = r => ~txs[t].auth /\ reqs'[r].auth
  BY <1>3, <1>10 DEF Sent, Pending, q
<1>18. /\ branches' \in Nat /\ branches <= branches' /\ hops'[Hop(r)].branch \in 1..branches'
       /\ hops'[Hop(r)].branch > branches \/ (q.hop # 0 /\ hops'[Hop(r)].branch = hops[q.hop].branch)
       /\ DOMAIN hops'[Hop(r)] = HopFields
  BY <1>1, <1>4, <1>14, Zenon
<1>19. /\ DOMAIN reqs'[r] = ReqFields /\ reqs'[r].auth \in BOOLEAN
       /\ reqs'[r].method = q.method /\ reqs'[r].uri = q.uri /\ reqs'[r].setup = q.setup
  BY <1>2, <1>3, <1>10
<1>20. Alters(r)
  BY <1>1, <1>2, <1>9, <1>10, <1>11, <1>13, <1>14, <1>15, <1>16, <1>17, <1>18, <1>19, Zenon
  DEF Alters, q
<1>21. Transported(r)
  <2>1. txs'[Len(txs) + 1].sent.tp = Chosen(p, uris[q.uri], hop.tp)
    BY <1>3, <1>5, <1>6, <1>8, <1>9, Zenon
  <2> QED BY <1>10, <2>1, Zenon DEF Transported, q, hop
<1> QED BY <1>9, <1>20, <1>21

\* So it does for SendRequest and for SendAgain.
LEMMA SendAlters ==
  ASSUME RefInv, NEW r \in 1..Len(reqs), SendRequest(r) \/ SendAgain(r)
  PROVE  Alters(r) /\ Len(txs') = Len(txs) + 1 /\ Transported(r)
<1>1. (~Sent(r) \/ Pending(r)) /\ Request(r)
  BY DEF SendRequest, SendAgain, Pending
<1> QED BY <1>1, RequestAlters

\* AuthorizeRequest alters a request that was sent, and sends nothing.
LEMMA AuthorizeAlters ==
  ASSUME RefInv, NEW t \in 1..Len(txs), AuthorizeRequest(t)
  PROVE  \E r \in 1..Len(reqs) :
           /\ r = txs[t].req /\ Alters(r) /\ Len(txs') = Len(txs)
           /\ UNCHANGED uris /\ Hop(r) = reqs[r].hop /\ hops'[Hop(r)].tp = hops[reqs[r].hop].tp
<1> DEFINE r == txs[t].req
           q == reqs[r]
           p == [q EXCEPT !.cseq = Len(cseqs) + 1, !.auth = TRUE,
                          !.hs = AppendHeader(@, Header("authorization", 1))]
           c == [cseqs[q.cseq] EXCEPT !.seqNo = @ + 1]
           h == [hops[q.hop] EXCEPT !.branch = branches + 1]
<1>1. /\ ~q.auth /\ reqs' = [reqs EXCEPT ![r] = p] /\ cseqs' = Append(cseqs, c)
      /\ branches' = branches + 1 /\ hops' = [hops EXCEPT ![q.hop] = h]
      /\ UNCHANGED <<builder, uris, txs>>
  BY DEF AuthorizeRequest
<1>2. /\ r \in 1..Len(reqs) /\ q.hop # 0 /\ branches \in Nat
      /\ IsList(hops) /\ IsList(cseqs) /\ IsList(uris) /\ IsList(reqs) /\ IsList(txs)
  BY DEF RefInv
<1>3. /\ DOMAIN q = ReqFields /\ q.cseq \in 1..Len(cseqs) /\ q.hop \in 0..Len(hops)
      /\ q.uri \in 1..Len(uris)
  BY <1>2 DEF RefInv
<1>4. \A i \in 1..Len(txs) : txs[i].req = r => ~txs[i].auth
  BY <1>1 DEF RefInv
<1> HIDE DEF r
<1>5. /\ DOMAIN p = ReqFields /\ p.hop = q.hop /\ p.uri = q.uri /\ p.method = q.method
      /\ p.setup = q.setup /\ p.auth = TRUE /\ p.cseq = Len(cseqs) + 1
  <2> HIDE DEF q
  <2> QED BY <1>3 DEF ReqFields
<1>6. q.hop \in 1..Len(hops)
  BY <1>2, <1>3, Lengths, Positive, Zenon
<1>7. DOMAIN hops[q.hop] = HopFields /\ DOMAIN cseqs[q.cseq] = CSeqFields
  BY <1>3, <1>6 DEF RefInv
<1> HIDE DEF q, p
<1>8. DOMAIN h = HopFields /\ h.branch = branches + 1 /\ h.tp = hops[q.hop].tp
  BY <1>7 DEF HopFields
<1>9. DOMAIN c = CSeqFields /\ c.method = cseqs[q.cseq].method
  BY <1>7 DEF CSeqFields
<1> HIDE DEF h, c
<1>10. /\ IsList(cseqs') /\ Len(cseqs) \in Nat /\ Len(cseqs') = Len(cseqs) + 1
       /\ cseqs'[Len(cseqs) + 1] = c /\ \A i \in 1..Len(cseqs) : cseqs'[i] = cseqs[i]
  <2>1. Appended(cseqs, c, cseqs')
    BY <1>1, <1>2, ListAppend, Zenon
  <2> QED BY <2>1 DEF Appended
<1>11. /\ IsList(reqs') /\ Len(reqs') = Len(reqs) /\ reqs'[r] = p
       /\ \A i \in 1..Len(reqs) : i # r => reqs'[i] = reqs[i]
  <2>1. Replaced(reqs, r, p, reqs')
    BY <1>1, <1>2, ListExcept, Zenon
  <2> QED BY <2>1 DEF Replaced
<1>12. /\ IsList(hops') /\ Len(hops') = Len(hops) /\ hops'[q.hop] = h
       /\ \A i \in 1..Len(hops) : i # q.hop => hops'[i] = hops[i]
       /\ Len(hops) \in Nat /\ Len(hops) <= Len(hops)
  <2>1. Replaced(hops, q.hop, h, hops')
    BY <1>1, <1>2, <1>6, ListExcept, Zenon
  <2>2. Len(hops) \in Nat /\ Len(hops) <= Len(hops)
    BY Lengths
  <2> QED BY <2>1, <2>2 DEF Replaced
<1>13. Hop(r) = q.hop /\ CSeq(r) = Len(cseqs) + 1
  BY <1>5, <1>11 DEF Hop, CSeq
<1>14. /\ Grown(cseqs, cseqs') /\ CSeq(r) \in 1..Len(cseqs') /\ CSeq(r) > Len(cseqs)
       /\ cseqs'[CSeq(r)] = c
       /\ \A i \in 1..Len(cseqs') : i > Len(cseqs) => DOMAIN cseqs'[i] = CSeqFields
  <2>1. Grown(cseqs, cseqs')
    BY <1>10 DEF Grown
  <2>2. CSeq(r) \in 1..Len(cseqs') /\ CSeq(r) > Len(cseqs) /\ cseqs'[CSeq(r)] = c
    BY <1>10, <1>13
  <2>3. \A i \in 1..Len(cseqs') : i > Len(cseqs) => DOMAIN cseqs'[i] = CSeqFields
    BY <1>9, <1>10
  <2> QED BY <2>1, <2>2, <2>3
<1>15. /\ branches' \in Nat /\ branches <= branches' /\ hops'[Hop(r)].branch \in 1..branches'
       /\ hops'[Hop(r)].branch > branches
  <2>1. hops'[Hop(r)].branch = branches + 1
    BY <1>8, <1>12, <1>13
  <2> QED BY <1>1, <1>2, <2>1
<1>16. /\ IsList(uris') /\ IsList(txs') /\ Len(uris') = Len(uris) /\ Len(txs') = Len(txs)
       /\ \A i \in 1..Len(txs) : txs'[i] = txs[i]
       /\ \A i \in 1..Len(uris) : uris'[i] = uris[i]
       /\ UNCHANGED builder
  BY <1>1, <1>2 DEF IsList
<1>17. Alters(r)
  <2>1. reqs[r] = q
    BY DEF q
  <2>2. /\ DOMAIN reqs'[r] = ReqFields /\ reqs'[r].auth = TRUE /\ TRUE \in BOOLEAN
        /\ reqs'[r].method = q.method /\ reqs'[r].uri = q.uri /\ reqs'[r].setup = q.setup
    BY <1>5, <1>11, Zenon
  <2>3. /\ IsList(hops') /\ Len(hops') \in Nat /\ Len(hops) <= Len(hops')
        /\ Hop(r) \in 1..Len(hops') /\ Hop(r) = reqs[r].hop
        /\ \A i \in 1..Len(hops') : i # Hop(r) => i \in 1..Len(hops) /\ hops'[i] = hops[i]
        /\ DOMAIN hops'[Hop(r)] = HopFields
    BY <1>6, <1>8, <1>12, <1>13, <2>1
  <2>4. /\ CSeq(r) \in 1..Len(cseqs') /\ CSeq(r) > Len(cseqs)
        /\ cseqs'[CSeq(r)].method = cseqs[reqs[r].cseq].method
    BY <1>9, <1>14, <2>1, Zenon
  <2>5. /\ reqs'[r].method = reqs[r].method /\ reqs'[r].uri = reqs[r].uri
        /\ reqs'[r].setup = reqs[r].setup
        /\ \A i \in 1..Len(txs) : txs'[i] = txs[i] /\ (txs[i].req = r => ~txs[i].auth /\ reqs'[r].auth)
        /\ \A i \in 1..Len(uris) : i # reqs[r].uri => uris'[i] = uris[i]
    BY <1>4, <1>16, <2>1, <2>2, Zenon
  <2> QED BY <1>10, <1>11, <1>14, <1>15, <1>16, <2>2, <2>3, <2>4, <2>5, Zenon DEF Alters
<1>18. UNCHANGED uris /\ Hop(r) = reqs[r].hop /\ hops'[Hop(r)].tp = hops[reqs[r].hop].tp
  BY <1>1, <1>8, <1>12, <1>13, Zenon DEF q
<1> QED BY <1>2, <1>16, <1>17, <1>18, Zenon DEF r

\* Build makes a request of what the builder holds.
LEMMA BuildBuilds == ASSUME RefInv, NEW m \in Methods, Build(m) PROVE Builds
<1>1. /\ builder.uri # 0 /\ UNCHANGED <<builder, hops, uris, txs, branches>>
      /\ \E n \in {cseqs[builder.cseq].seqNo, Len(reqs) + 1} :
           cseqs' = [cseqs EXCEPT ![builder.cseq] = [seqNo |-> n, method |-> m]]
      /\ \E hs : reqs' = Append(reqs, [method |-> m, hop |-> builder.hop, cseq |-> builder.cseq,
                                       uri |-> builder.uri, setup |-> builder.setup, auth |-> FALSE,
                                      hs |-> hs])
  BY DEF Build
<1>2. PICK n : cseqs' = [cseqs EXCEPT ![builder.cseq] = [seqNo |-> n, method |-> m]]
  BY <1>1
<1>3. PICK hs : reqs' = Append(reqs, [method |-> m, hop |-> builder.hop, cseq |-> builder.cseq,
                                      uri |-> builder.uri, setup |-> builder.setup, auth |-> FALSE,
                                      hs |-> hs])
  BY <1>1
<1>4. IsList(cseqs) /\ IsList(reqs) /\ builder.cseq \in 1..Len(cseqs)
  <2>1. IsList(cseqs) /\ IsList(reqs) /\ builder.cseq \in 0..Len(cseqs) /\ builder.cseq # 0
    BY <1>1 DEF RefInv
  <2> QED BY <2>1, Lengths
<1> DEFINE c == [seqNo |-> n, method |-> m]
           q == [method |-> m, hop |-> builder.hop, cseq |-> builder.cseq,
                 uri |-> builder.uri, setup |-> builder.setup, auth |-> FALSE,
                                      hs |-> hs]
<1>5. /\ DOMAIN c = CSeqFields /\ c.method = m /\ DOMAIN q = ReqFields /\ q.method = m
      /\ q.hop = builder.hop /\ q.cseq = builder.cseq /\ q.uri = builder.uri
      /\ q.auth = FALSE
  BY DEF CSeqFields, ReqFields
<1>6. cseqs' = [cseqs EXCEPT ![builder.cseq] = c] /\ reqs' = Append(reqs, q)
  BY <1>2, <1>3
<1> HIDE DEF c, q
<1>7. /\ IsList(cseqs') /\ Len(cseqs') = Len(cseqs) /\ cseqs'[builder.cseq] = c
      /\ \A i \in 1..Len(cseqs) : i # builder.cseq => cseqs'[i] = cseqs[i]
  <2>1. cseqs' = [cseqs EXCEPT ![builder.cseq] = c]
    BY <1>6
  <2>2. Replaced(cseqs, builder.cseq, c, cseqs')
    BY <1>4, <2>1, ListExcept, Zenon
  <2> QED BY <2>2 DEF Replaced
<1>8. /\ IsList(reqs') /\ Len(reqs') = Len(reqs) + 1 /\ reqs'[Len(reqs) + 1] = q
      /\ \A i \in 1..Len(reqs) : reqs'[i] = reqs[i]
  <2>1. Appended(reqs, q, reqs')
    BY <1>4, <1>6, ListAppend, Zenon
  <2> QED BY <2>1 DEF Appended
<1> QED BY <1>1, <1>5, <1>7, <1>8 DEF Builds

\* Steps that keep the lists, but for new elements and what no transaction looks at.
LEMMA BuilderKeeps ==
  ASSUME RefInv, NEW setup \in Setups, NewRequestBuilder(setup) PROVE Keeps
<1> DEFINE c == [seqNo |-> 1, method |-> ""]
           h == [branch |-> 0, tp |-> setup.via]
<1>1. /\ cseqs' = Append(cseqs, c) /\ uris' = Append(uris, setup.uri.tp)
      /\ hops' = IF setup.via = "none" THEN hops ELSE Append(hops, h)
      /\ builder' = [hop |-> IF setup.via = "none" THEN 0 ELSE Len(hops'), cseq |-> Len(cseqs'),
                     uri |-> Len(uris'), setup |-> setup]
      /\ UNCHANGED <<reqs, txs, branches>>
  BY DEF NewRequestBuilder
<1>2. DOMAIN c = CSeqFields /\ DOMAIN h = HopFields /\ h.branch = 0
  BY DEF CSeqFields, HopFields
<1>3. IsList(hops) /\ IsList(cseqs) /\ IsList(uris) /\ IsList(reqs) /\ IsList(txs)
  BY DEF RefInv
<1> HIDE DEF c, h
<1>4. /\ IsList(cseqs') /\ Grown(cseqs, cseqs') /\ Len(cseqs) < Len(cseqs')
      /\ \A i \in 1..Len(cseqs') : i > Len(cseqs) => DOMAIN cseqs'[i] = CSeqFields
  <2>1. Appended(cseqs, c, cseqs')
    BY <1>1, <1>3, ListAppend, Zenon
  <2> QED BY <1>2, <2>1 DEF Appended, Grown
<1>5. IsList(uris') /\ Grown(uris, uris') /\ Len(uris) < Len(uris')
  <2>1. Appended(uris, setup.uri.tp, uris')
    BY <1>1, <1>3, ListAppend, Zenon
  <2> QED BY <2>1 DEF Appended, Grown
<1>6. /\ IsList(hops') /\ Grown(hops, hops')
      /\ \A i \in 1..Len(hops') :
           i > Len(hops) => DOMAIN hops'[i] = HopFields /\ hops'[i].branch = 0
      /\ setup.via # "none" => Len(hops) < Len(hops')
  <2>1. CASE setup.via # "none"
    <3>1. Appended(hops, h, hops')
      BY <1>1, <1>3, <2>1, ListAppend, Zenon
    <3> QED BY <1>2, <3>1 DEF Appended, Grown
  <2>2. CASE setup.via = "none"
    <3>1. hops' = hops
      BY <1>1, <2>2
    <3>2. Len(hops) \in Nat
      BY Lengths
    <3> QED BY <1>3, <2>2, <3>1, <3>2 DEF Grown, IsList
  <2> QED BY <2>1, <2>2
<1>7. /\ DOMAIN builder' = {"hop", "cseq", "uri", "setup"}
      /\ builder'.hop = 0 \/ (builder'.hop = Len(hops') /\ Len(hops) < Len(hops'))
      /\ builder'.cseq = Len(cseqs') /\ builder'.uri = Len(uris')
  BY <1>1, <1>6
<1>8. IsList(reqs') /\ IsList(txs') /\ Len(reqs') = Len(reqs) /\ Len(txs') = Len(txs)
  BY <1>1, <1>3 DEF IsList
<1>9. /\ \A r \in 1..Len(reqs) : reqs'[r] = reqs[r] /\ DOMAIN reqs[r] = ReqFields
      /\ \A t \in 1..Len(txs) : txs'[t] = txs[t] /\ DOMAIN txs[t] = TxFields
      /\ branches' \in Nat /\ branches <= branches'
  <2>1. reqs' = reqs /\ txs' = txs /\ branches' = branches
    BY <1>1
  <2>2. /\ branches \in Nat /\ \A r \in 1..Len(reqs) : DOMAIN reqs[r] = ReqFields
        /\ \A t \in 1..Len(txs) : DOMAIN txs[t] = TxFields
    BY DEF RefInv
  <2> QED BY <2>1, <2>2
<1> QED BY <1>4, <1>5, <1>6, <1>7, <1>8, <1>9 DEF Keeps

\* A step that changes the headers of requests not sent, the states of transactions and the
\* branches generated.
Touches ==
  /\ UNCHANGED <<builder, hops, cseqs, uris>>
  /\ \/ UNCHANGED reqs
     \/ \E r \in 1..Len(reqs) : \E hs :
          ~Sent(r) /\ reqs' = [reqs EXCEPT ![r] = [@ EXCEPT !.hs = hs]]
  /\ \/ UNCHANGED txs
     \/ \E t \in 1..Len(txs) : \E state : txs' = [txs EXCEPT ![t] = [@ EXCEPT !.state = state]]
  /\ branches' = branches \/ branches' = branches + 1

\* A step that only touches states and headers keeps the rest.
LEMMA TouchesKeeps == RefInv /\ Touches => Keeps
<1> SUFFICES ASSUME RefInv, Touches PROVE Keeps
  OBVIOUS
<1>1. /\ IsList(hops) /\ IsList(cseqs) /\ IsList(uris) /\ IsList(reqs) /\ IsList(txs)
      /\ UNCHANGED <<builder, hops, cseqs, uris>>
      /\ DOMAIN builder = {"hop", "cseq", "uri", "setup"}
  BY DEF RefInv, Touches
<1>2. /\ IsList(hops') /\ IsList(cseqs') /\ IsList(uris')
      /\ Grown(hops, hops') /\ Grown(cseqs, cseqs') /\ Grown(uris, uris')
      /\ \A h \in 1..Len(hops') : ~(h > Len(hops))
      /\ \A c \in 1..Len(cseqs') : ~(c > Len(cseqs))
  BY <1>1, Lengths DEF Grown, IsList
<1>3. /\ IsList(reqs') /\ Len(reqs') = Len(reqs)
      /\ \A r \in 1..Len(reqs) :
           /\ DOMAIN reqs'[r] = ReqFields
           /\ reqs'[r].method = reqs[r].method /\ reqs'[r].hop = reqs[r].hop
           /\ reqs'[r].cseq = reqs[r].cseq /\ reqs'[r].uri = reqs[r].uri
           /\ reqs'[r].setup = reqs[r].setup /\ reqs'[r].auth = reqs[r].auth
           /\ Sent(r) => reqs'[r].hs = reqs[r].hs
  <2>1. \A r \in 1..Len(reqs) : DOMAIN reqs[r] = ReqFields
    BY DEF RefInv
  <2>2. CASE UNCHANGED reqs
    BY <1>1, <2>1, <2>2 DEF IsList
  <2>3. ASSUME NEW r \in 1..Len(reqs), NEW hs, ~Sent(r),
               reqs' = [reqs EXCEPT ![r] = [@ EXCEPT !.hs = hs]]
        PROVE  /\ IsList(reqs') /\ Len(reqs') = Len(reqs)
               /\ \A i \in 1..Len(reqs) :
                    /\ DOMAIN reqs'[i] = ReqFields
                    /\ reqs'[i].method = reqs[i].method /\ reqs'[i].hop = reqs[i].hop
                    /\ reqs'[i].cseq = reqs[i].cseq /\ reqs'[i].uri = reqs[i].uri
                    /\ reqs'[i].setup = reqs[i].setup /\ reqs'[i].auth = reqs[i].auth
                    /\ Sent(i) => reqs'[i].hs = reqs[i].hs
    <3> DEFINE q == [reqs[r] EXCEPT !.hs = hs]
    <3>1. reqs' = [reqs EXCEPT ![r] = q]
      BY <2>3
    <3>2. /\ DOMAIN q = ReqFields /\ q.method = reqs[r].method /\ q.hop = reqs[r].hop
          /\ q.cseq = reqs[r].cseq /\ q.uri = reqs[r].uri
          /\ q.setup = reqs[r].setup /\ q.auth = reqs[r].auth
      BY <2>1 DEF ReqFields
    <3> HIDE DEF q
    <3>3. Replaced(reqs, r, q, reqs')
      BY <1>1, <3>1, ListExcept, Zenon
    <3> QED BY <2>1, <2>3, <3>2, <3>3 DEF Replaced
  <2> QED BY <2>2, <2>3 DEF Touches
<1>4. /\ IsList(txs') /\ Len(txs') = Len(txs)
      /\ \A t \in 1..Len(txs) :
           /\ DOMAIN txs'[t] = TxFields
           /\ txs'[t].req = txs[t].req /\ txs'[t].key = txs[t].key /\ txs'[t].sent = txs[t].sent
           /\ txs'[t].auth = txs[t].auth
  <2>1. \A t \in 1..Len(txs) : DOMAIN txs[t] = TxFields
    BY DEF RefInv
  <2>2. CASE UNCHANGED txs
    BY <1>1, <2>1, <2>2 DEF IsList
  <2>3. ASSUME NEW t \in 1..Len(txs), NEW state,
               txs' = [txs EXCEPT ![t] = [@ EXCEPT !.state = state]]
        PROVE  /\ IsList(txs') /\ Len(txs') = Len(txs)
               /\ \A i \in 1..Len(txs) :
                    /\ DOMAIN txs'[i] = TxFields /\ txs'[i].req = txs[i].req
                    /\ txs'[i].key = txs[i].key /\ txs'[i].sent = txs[i].sent
                    /\ txs'[i].auth = txs[i].auth
    <3> DEFINE x == [txs[t] EXCEPT !.state = state]
    <3>1. txs' = [txs EXCEPT ![t] = x]
      BY <2>3
    <3>2. DOMAIN x = TxFields /\ x.req = txs[t].req /\ x.key = txs[t].key /\ x.sent = txs[t].sent
          /\ x.auth = txs[t].auth
      BY <2>1 DEF TxFields
    <3> HIDE DEF x
    <3>3. Replaced(txs, t, x, txs')
      BY <1>1, <3>1, ListExcept, Zenon
    <3> QED BY <2>1, <3>2, <3>3 DEF Replaced
  <2> QED BY <2>2, <2>3 DEF Touches
<1>5. branches' \in Nat /\ branches <= branches'
  BY DEF RefInv, Touches
<1> QED BY <1>1, <1>2, <1>3, <1>4, <1>5 DEF Keeps

\* The invariant and the steps that keep what is pointed to.
LEMMA KeepsMessageInv == MessageInv /\ Keeps => MessageInv'
BY KeepsRef, KeepsShare, KeepsBranch, KeepsSent DEF MessageInv

\* The invariant and the steps that authorize a request or send it.
LEMMA AltersMessageInv ==
  ASSUME MessageInv, NEW r \in 1..Len(reqs), Alters(r) PROVE MessageInv'
BY AltersRef, AltersShare, AltersBranch, AltersSent DEF MessageInv

\* Every step keeps the invariant.
LEMMA MessageInductive == MessageInv /\ [MessageNext]_messageVars => MessageInv'
<1> SUFFICES ASSUME MessageInv, [MessageNext]_messageVars PROVE MessageInv'
  OBVIOUS
<1>0. RefInv
  BY DEF MessageInv
<1>1. ASSUME NEW setup \in Setups, NewRequestBuilder(setup) PROVE MessageInv'
  BY <1>0, <1>1, BuilderKeeps, KeepsMessageInv
<1>2. ASSUME NEW m \in Methods, Build(m) PROVE MessageInv'
  BY <1>0, <1>2, BuildBuilds, BuildsRef, BuildsShare, BuildsBranch, BuildsSent DEF MessageInv
<1>3. ASSUME NEW r \in 1..Len(reqs), Edit(r) PROVE MessageInv'
  <2>1. Touches
    BY <1>3 DEF Edit, Touches
  <2> QED BY <1>0, <2>1, TouchesKeeps, KeepsMessageInv
<1>4. ASSUME NEW r \in 1..Len(reqs), SendRequest(r) \/ SendAgain(r) PROVE MessageInv'
  BY <1>0, <1>4, SendAlters, AltersMessageInv
<1>5. ASSUME NEW t \in 1..Len(txs), AuthorizeRequest(t) PROVE MessageInv'
  BY <1>0, <1>5, AuthorizeAlters, AltersMessageInv
<1>6. ASSUME NEW t \in 1..Len(txs), ack(t) \/ ack2xx(t) \/ cancel(t) PROVE MessageInv'
  <2>1. CASE ack(t)
    <3>1. Touches
      BY <2>1 DEF ack, Touches
    <3> QED BY <1>0, <3>1, TouchesKeeps, KeepsMessageInv
  <2>2. CASE ack2xx(t)
    <3>1. Touches
      BY <2>2 DEF ack2xx, Touches
    <3> QED BY <1>0, <3>1, TouchesKeeps, KeepsMessageInv
  <2>3. CASE cancel(t)
    <3>1. Touches
      BY <2>3 DEF cancel, Touches
    <3> QED BY <1>0, <3>1, TouchesKeeps, KeepsMessageInv
  <2> QED BY <1>6, <2>1, <2>2, <2>3
<1>7. CASE UNCHANGED messageVars
  <2>1. Touches
    BY <1>7 DEF messageVars, Touches
  <2> QED BY <1>0, <2>1, TouchesKeeps, KeepsMessageInv
<1> QED BY <1>1, <1>2, <1>3, <1>4, <1>5, <1>6, <1>7 DEF MessageNext

\* There are no messages at the start.
LEMMA MessageStart == MessageInit => MessageInv
<1> SUFFICES ASSUME MessageInit PROVE MessageInv
  OBVIOUS
<1>1. /\ Len(hops) = 0 /\ Len(cseqs) = 0 /\ Len(uris) = 0 /\ Len(reqs) = 0 /\ Len(txs) = 0
  BY DEF MessageInit
<1>2. IsList(hops) /\ IsList(cseqs) /\ IsList(uris) /\ IsList(reqs) /\ IsList(txs)
  <2>1. <<>> \in Seq({})
    OBVIOUS
  <2> QED BY <2>1, SeqIsList DEF MessageInit
<1>3. /\ DOMAIN builder = {"hop", "cseq", "uri", "setup"}
      /\ builder.hop = 0 /\ builder.cseq = 0 /\ builder.uri = 0 /\ branches = 0
  BY DEF MessageInit
<1>4. \A i \in 1..0 : FALSE
  OBVIOUS
<1>5. RefInv
  <2>1. 0 \in 0..0 /\ 0 \in Nat
    OBVIOUS
  <2> QED BY <1>1, <1>2, <1>3, <1>4, <2>1, Zenon DEF RefInv
<1>6. ShareInv /\ BranchInv
  BY <1>1, <1>4, Zenon DEF ShareInv, BranchInv
<1>7. SentInv
  BY <1>1, <1>4, Zenon DEF SentInv
<1> QED BY <1>5, <1>6, <1>7 DEF MessageInv

\* What a transaction makes from its request, as that is by then, is what it sent.
LEMMA OriginAsSent ==
  ASSUME MessageInv, NEW t \in 1..Len(txs), OwnBuilder(txs[t].req), Current(t)
  PROVE  /\ Origin(t).branch = txs[t].sent.branch /\ Origin(t).cseq = txs[t].sent.cseq
         /\ SameTransport(reqs[txs[t].req], txs[t].sent, Origin(t).tp)
         /\ txs[t].sent.cseq.method = txs[t].sent.method
<1> DEFINE q == reqs[txs[t].req]
           m == txs[t].sent
<1>1. q.hop # 0 /\ AsSent(q, m)
  BY DEF MessageInv, RefInv, SentInv
<1>2. HopOf(q) = hops[q.hop] /\ Origin(t) = Image(q, HopOf(q), cseqs[q.cseq])
  BY <1>1 DEF HopOf, Origin
<1> HIDE DEF q, m
<1>3. Transport(q, HopOf(q)) = Chosen(q, "", m.tp)
  <2>1. Transport(q, HopOf(q)) = Chosen(q, uris[q.uri], HopOf(q).tp)
    BY TransportChosen, Zenon
  <2>2. uris[q.uri] = "" /\ HopOf(q).tp = m.tp
    BY <1>1, <1>2 DEF AsSent
  <2> QED BY <2>1, <2>2
<1>4. /\ Origin(t).branch = m.branch /\ Origin(t).cseq = m.cseq
      /\ SameTransport(q, m, Origin(t).tp) /\ m.cseq.method = m.method
  <2>1. IsImage(Origin(t), q, HopOf(q), cseqs[q.cseq])
    BY <1>2, ImageFields, Zenon
  <2>2. /\ hops[q.hop].branch = m.branch /\ cseqs[q.cseq] = m.cseq /\ m.cseq.method = m.method
        /\ SameTransport(q, m, Chosen(q, "", m.tp))
    BY <1>1 DEF AsSent
  <2> QED BY <1>2, <1>3, <2>1, <2>2, Zenon DEF IsImage
<1> QED BY <1>4 DEF m, q

\* Such a message of an INVITE, with another method in its CSeq.
LEMMA EmittedMatches ==
  ASSUME MessageInv, NEW t \in 1..Len(txs), txs[t].sent.method = "INVITE",
         NEW m, m.branch = Origin(t).branch, m.tp = Origin(t).tp,
         NEW method \in {"ACK", "CANCEL"}, m.cseq = [Origin(t).cseq EXCEPT !.method = method],
         Emit(t, m, FALSE), UNCHANGED reqs, Len(txs') = Len(txs),
         \A u \in 1..Len(txs) : /\ txs'[u].req = txs[u].req /\ txs'[u].sent = txs[u].sent
                                /\ txs'[u].auth = txs[u].auth
  PROVE  AckAndCancelMatch'
<1>1. last'.tx = t /\ last'.success = FALSE /\ last'.msg = m
  BY DEF Emit
<1>2. OwnBuilder(txs[t].req)' => OwnBuilder(txs[t].req)
  BY DEF OwnBuilder
<1>3. Current(t)' => Current(t)
  BY DEF Current
<1>4. DOMAIN Origin(t).cseq = CSeqFields
  <2>1. txs[t].req \in 1..Len(reqs)
    BY DEF MessageInv, RefInv
  <2>2. DOMAIN cseqs[reqs[txs[t].req].cseq] = CSeqFields
    BY <2>1 DEF MessageInv, RefInv
  <2> QED BY <2>2 DEF Origin, Image
<1>5. m.cseq.seqNo = Origin(t).cseq.seqNo /\ m.cseq.method = method
  BY <1>4 DEF CSeqFields
<1>6. ASSUME OwnBuilder(txs[t].req), Current(t)
      PROVE  /\ MakeServerTxKey(m) = MakeServerTxKey(txs[t].sent)
             /\ m.cseq.seqNo = txs[t].sent.cseq.seqNo
             /\ SameTransport(reqs[txs[t].req], txs[t].sent, m.tp)
  <2>1. /\ Origin(t).branch = txs[t].sent.branch /\ Origin(t).cseq = txs[t].sent.cseq
        /\ SameTransport(reqs[txs[t].req], txs[t].sent, Origin(t).tp)
        /\ txs[t].sent.cseq.method = "INVITE"
    BY <1>6, OriginAsSent
  <2>2. KeyMethod(m.cseq.method) = "INVITE" /\ KeyMethod(txs[t].sent.cseq.method) = "INVITE"
    BY <1>5, <2>1 DEF KeyMethod
  <2> QED BY <1>5, <2>1, <2>2 DEF MakeServerTxKey
<1>7. Current(last.tx)' <=> Current(t)'
  BY <1>1 DEF Current
<1>8. OwnBuilder(txs[last.tx].req)' <=> OwnBuilder(txs[t].req)'
  BY <1>1 DEF OwnBuilder
<1>9. /\ MakeServerTxKey(last.msg)' = MakeServerTxKey(m)
      /\ MakeServerTxKey(txs[last.tx].sent)' = MakeServerTxKey(txs[t].sent)
      /\ txs'[last'.tx].sent = txs[t].sent /\ reqs'[txs'[last'.tx].req] = reqs[txs[t].req]
  BY <1>1 DEF MakeServerTxKey
<1>10. (SameTransport(reqs[txs[last.tx].req], txs[last.tx].sent, last.msg.tp))'
         <=> SameTransport(reqs[txs[t].req], txs[t].sent, m.tp)
  BY <1>1, <1>9 DEF SameTransport, LongSips, TooLong
<1> QED BY <1>1, <1>2, <1>3, <1>6, <1>7, <1>8, <1>9, <1>10 DEF AckAndCancelMatch, SameTransport

\* A step that makes no message.
LEMMA NoMessageMatches == last' = NoMessage => AckAndCancelMatch'
<1>1. last' = NoMessage => last'.tx = 0
  BY DEF NoMessage
<1> QED BY <1>1 DEF AckAndCancelMatch

\* Every ACK and CANCEL that a step makes has the branch and the number of its INVITE.
LEMMA MatchStep ==
  MessageInv /\ AckAndCancelMatch /\ [MessageNext]_messageVars => AckAndCancelMatch'
<1> SUFFICES ASSUME MessageInv, AckAndCancelMatch, [MessageNext]_messageVars
             PROVE  AckAndCancelMatch'
  OBVIOUS
<1>1. ASSUME NEW setup \in Setups, NewRequestBuilder(setup) PROVE last' = NoMessage
  BY <1>1 DEF NewRequestBuilder
<1>2. ASSUME NEW m \in Methods, Build(m) PROVE last' = NoMessage
  BY <1>2 DEF Build
<1>3. ASSUME NEW r \in 1..Len(reqs), Edit(r) \/ SendRequest(r) \/ SendAgain(r)
      PROVE  last' = NoMessage
  BY <1>3 DEF Edit, SendRequest, SendAgain, Request
<1>4. ASSUME NEW t \in 1..Len(txs), AuthorizeRequest(t) PROVE last' = NoMessage
  BY <1>4 DEF AuthorizeRequest
<1>5. ASSUME Touches
      PROVE  /\ Len(txs') = Len(txs)
             /\ \A u \in 1..Len(txs) : /\ txs'[u].req = txs[u].req /\ txs'[u].sent = txs[u].sent
                                         /\ txs'[u].auth = txs[u].auth
  BY <1>5, TouchesKeeps DEF MessageInv, Keeps
<1>6. ASSUME NEW t \in 1..Len(txs), ack(t) PROVE AckAndCancelMatch'
  <2>1. Touches /\ UNCHANGED reqs
    BY <1>6 DEF ack, Touches
  <2>2. CASE txs[t].sent.method # "INVITE"
    BY <1>6, <2>2, NoMessageMatches DEF ack
  <2>3. CASE txs[t].sent.method = "INVITE"
    <3> DEFINE m == NewAckRequest(Origin(t), RecordRoutes, FALSE)
    <3>1. Emit(t, m, FALSE)
      BY <1>6, <2>3 DEF ack
    <3>2. /\ m.branch = Origin(t).branch /\ m.tp = Origin(t).tp
          /\ m.cseq = [Origin(t).cseq EXCEPT !.method = "ACK"]
      BY DEF NewAckRequest
    <3> HIDE DEF m
    <3> QED BY <1>5, <2>1, <2>3, <3>1, <3>2, EmittedMatches
  <2> QED BY <2>2, <2>3
<1>7. ASSUME NEW t \in 1..Len(txs), ack2xx(t) PROVE AckAndCancelMatch'
  <2>1. Touches
    BY <1>7 DEF ack2xx, Touches
  <2>2. CASE txs[t].sent.method # "INVITE"
    BY <1>7, <2>2, NoMessageMatches DEF ack2xx
  <2>3. CASE txs[t].sent.method = "INVITE"
    <3> DEFINE m == NewAckRequest(Origin(t), RecordRoutes, TRUE)
    <3>1. Emit(t, m, TRUE)
      BY <1>7, <2>3 DEF ack2xx
    <3>2. m.branch = branches + 1
      BY DEF NewAckRequest
    <3> HIDE DEF m
    <3>3. last'.tx = t /\ last'.success = TRUE /\ last'.msg = m
      BY <3>1 DEF Emit
    <3>4. txs[t].sent.branch \in 1..branches /\ branches \in Nat
      BY DEF MessageInv, RefInv
    <3>5. txs'[last'.tx].sent = txs[t].sent
      BY <1>5, <2>1, <3>3
    <3>6. last'.msg.branch # txs'[last'.tx].sent.branch
      BY <3>2, <3>3, <3>4, <3>5
    <3>7. MakeServerTxKey(last.msg)' # MakeServerTxKey(txs[last.tx].sent)'
      BY <3>6 DEF MakeServerTxKey
    <3> QED BY <3>3, <3>7 DEF AckAndCancelMatch
  <2> QED BY <2>2, <2>3
<1>8. ASSUME NEW t \in 1..Len(txs), cancel(t) PROVE AckAndCancelMatch'
  <2> DEFINE m == NewCancelRequest(Origin(t))
  <2>1. Touches /\ UNCHANGED reqs
    BY <1>8 DEF cancel, Touches
  <2>2. txs[t].sent.method = "INVITE" /\ Emit(t, m, FALSE)
    BY <1>8 DEF cancel
  <2>3. /\ m.branch = Origin(t).branch /\ m.tp = Origin(t).tp
        /\ m.cseq = [Origin(t).cseq EXCEPT !.method = "CANCEL"]
    BY DEF NewCancelRequest
  <2> HIDE DEF m
  <2> QED BY <1>5, <2>1, <2>2, <2>3, EmittedMatches
<1>9. CASE UNCHANGED messageVars
  BY <1>9 DEF messageVars, AckAndCancelMatch, Current, OwnBuilder, MakeServerTxKey,
             LongSips, TooLong
<1> QED BY <1>1, <1>2, <1>3, <1>4, <1>6, <1>7, <1>8, <1>9, NoMessageMatches DEF MessageNext

\* A response finds the transaction that sent the request it answers, and no other (the keys
\* of transaction.go; AuthorizeRequest changes the branch): for any number of builders,
\* requests and transactions, and whatever the headers are.
THEOREM ResponsesMatch == MessageSpec => []ResponseFindsItsTx
<1>1. ASSUME MessageInv, NEW t \in 1..Len(txs)
      PROVE  /\ Keyed(txs[t]) /\ txs[t].req \in 1..Len(reqs)
             /\ MakeClientTxKey(NewResponseFromRequest(txs[t].sent)) = txs[t].key
  <2>1. Keyed(txs[t]) /\ txs[t].req \in 1..Len(reqs)
    BY <1>1 DEF MessageInv, RefInv
  <2>2. /\ NewResponseFromRequest(txs[t].sent).branch = txs[t].sent.branch
        /\ NewResponseFromRequest(txs[t].sent).cseq = txs[t].sent.cseq
    BY <2>1 DEF NewResponseFromRequest, Keyed, SentFields
  <2> QED BY <2>1, <2>2 DEF Keyed, MakeClientTxKey
<1>2. ASSUME MessageInv, NEW t \in 1..Len(txs), NEW u \in 1..Len(txs),
             MakeClientTxKey(NewResponseFromRequest(txs[t].sent)) = txs[u].key, t # u
      PROVE  ~OwnBuilder(txs[t].req)
  <2>1. Keyed(txs[t]) /\ Keyed(txs[u]) /\ txs[t].key = txs[u].key
    BY <1>1, <1>2
  <2>2. txs[t].sent.branch = txs[u].sent.branch
    BY <2>1 DEF Keyed, MakeClientTxKey
  <2>3. txs[t].req # txs[u].req /\ reqs[txs[t].req].uri = reqs[txs[u].req].uri
    BY <1>2, <2>2 DEF MessageInv, BranchInv
  <2>4. txs[u].req \in 1..Len(reqs)
    BY <1>1, <1>2
  <2> QED BY <2>3, <2>4 DEF OwnBuilder
<1>3. MessageInv => ResponseFindsItsTx
  BY <1>1, <1>2 DEF ResponseFindsItsTx
<1> QED BY <1>3, MessageStart, MessageInductive, PTL DEF MessageSpec

\* The ACK of a response other than 2xx and the CANCEL match the INVITE as it was sent, in
\* key, CSeq number and transport, and the ACK of a 2xx has a key of its own
\* (NewAckRequest, NewCancelRequest): for any number of builders, requests and transactions.
THEOREM AcksMatch == MessageSpec => []AckAndCancelMatch
<1>1. MessageInit => AckAndCancelMatch
  <2>1. MessageInit => last.tx = 0
    BY DEF MessageInit, NoMessage
  <2> QED BY <2>1 DEF AckAndCancelMatch
<1> QED BY <1>1, MessageStart, MessageInductive, MatchStep, PTL DEF MessageSpec
=============================================================================
