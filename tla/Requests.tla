------------------------------ MODULE Requests ------------------------------
(***************************************************************************)
(* The requests of a client, and the messages made from them (sip/         *)
(* builder.go, request.go, response.go, auth.go; the keys of transaction/  *)
(* transaction.go).  A request is built, its headers are edited, it is     *)
(* sent in a client transaction, authorized after a 401 and then sent      *)
(* again in another one; meanwhile the transactions make ACK and CANCEL    *)
(* from it.                                                                *)
(*                                                                         *)
(* All hold pointers to the same request, and requests of one builder hold *)
(* pointers to the same Via hop, CSeq and recipient: these are objects     *)
(* here, which a step may change under the feet of a transaction.          *)
(***************************************************************************)
EXTENDS HeaderStore

CONSTANTS
  Methods,     \* of the requests
  Setups,      \* what the application chooses for a builder and its requests: the transport of
               \* the Via hop ("none" for no hop), the URIs of the Route (NoRoute for none) and
               \* of the recipient, the transport set on the requests themselves ("" for none)
  RecordRoutes,\* in the responses
  Small,       \* the headers that fit into a UDP packet (MTU - 200 bytes)
  MaxRequests, \* bound: requests built
  MaxTxs,      \* bound: client transactions
  MaxEdits     \* bound: headers edited by the application

ASSUME RequestsAssumption ==
  /\ Len(RecordRoutes) \in Nat /\ Small \in Nat
  /\ MaxRequests \in Nat /\ MaxTxs \in Nat /\ MaxEdits \in Nat
  /\ \A setup \in Setups : setup.via # ""  \* AddVia gives the hop one

VARIABLES
  builder,   \* the RequestBuilder: its Via hop (0 for none), CSeq, recipient and setup
  hops,      \* ViaHop objects: branch (0 for none) and transport ("" for none)
  cseqs,     \* CSeq objects: number and method
  uris,      \* recipients: the transport parameter that they have, "" for none
  reqs,      \* Request objects, and whether they were authorized
  txs,       \* client transactions: request, key, what was sent, state, whether authorized
  branches,  \* branches generated
  edits,
  last       \* the message that the last step made from the request of a transaction

messageVars == <<builder, hops, cseqs, uris, reqs, txs, branches, edits, last>>

NoMessage == [tx |-> 0, success |-> FALSE, msg |-> <<>>]

\* A URI: its transport parameter and whether it is a sips URI.  NoRoute stands for no Route.
Uri(tp, sips) == [tp |-> tp, sips |-> sips]
NoRoute == Uri("none", FALSE)

-----------------------------------------------------------------------------
(***************************************************************************)
(* Requests by value, as they go out.                                      *)
(***************************************************************************)

\* the hop of a request; none yet is hop 0
HopOf(q) == IF q.hop = 0 THEN [branch |-> 0, tp |-> ""] ELSE hops[q.hop]

\* for a UDP packet
TooLong(hs) == Cardinality(Headers(hs)) > Small

\* the URI that a request goes to: of the first Route, which is the builder's or one that the
\* application added (a plain one), or else the recipient
TargetUri(hs, route, recipient) ==
  LET routes == GetHeaders(hs, "route")
  IN  IF routes = <<>> THEN recipient
      ELSE IF routes[1].value = 0 THEN route ELSE Uri("", FALSE)

Secured(tp) == IF tp = "TCP" THEN "TLS" ELSE IF tp = "WS" THEN "WSS" ELSE tp

\* Mutants (here and below, names that end in _bug): wrong versions of the
\* definition of the same name, which the properties must tell from the right one.
\* the Via hop does not count
Transport_bug(q, hop) ==
  LET uri   == TargetUri(q.hs, q.setup.route, Uri(uris[q.uri], q.setup.uri.sips))
      named == IF uri.tp # "" THEN uri.tp ELSE "UDP"
      tp    == IF uri.sips THEN Secured(named) ELSE named
  IN  IF q.setup.tp # "" THEN q.setup.tp ELSE IF tp = "UDP" /\ TooLong(q.hs) THEN "TCP" ELSE tp

\* request.Transport: the one set on the request; or else that of the Via hop or UDP, then of
\* the parameter of the Route or the recipient, made secure for a sips URI; TCP for what does
\* not fit into a packet
Transport(q, hop) ==
  LET uri   == TargetUri(q.hs, q.setup.route, Uri(uris[q.uri], q.setup.uri.sips))
      via   == IF hop.tp # "" THEN hop.tp ELSE "UDP"
      named == IF uri.tp # "" THEN uri.tp ELSE via
      tp    == IF uri.sips THEN Secured(named) ELSE named
  IN  IF q.setup.tp # "" THEN q.setup.tp ELSE IF tp = "UDP" /\ TooLong(q.hs) THEN "TCP" ELSE tp

Image(q, hop, cseq) ==
  [method |-> q.method, branch |-> hop.branch, cseq |-> cseq, tp |-> Transport(q, hop), hs |-> q.hs]

\* the method that the keys are made with
KeyMethod(m) == IF m \in {"ACK", "CANCEL"} THEN "INVITE" ELSE m

MakeClientTxKey(m) == <<m.branch, KeyMethod(m.cseq.method)>>

\* of a branch with the magic cookie; sent-by is this host in all messages
MakeServerTxKey(m) == <<m.branch, KeyMethod(m.cseq.method)>>

\* what ends the headers of every message made from another one
Finish(from, to) ==
  LET addressed  == CopyHeaders("to", from, CopyHeaders("from", from, to))
      identified == CopyHeaders("cseq", from, CopyHeaders("call-id", from, addressed))
  IN  SetContentLength(identified, 0)

\* the key of the response is made of the Via and the CSeq that it copies
NewResponseFromRequest(m) ==
  LET routed == CopyHeaders("via", m.hs, CopyHeaders("record-route", m.hs, NoHeaders))
  IN  [m EXCEPT !.hs = Finish(m.hs, routed)]

\* a new branch for every ACK
NewAckRequest_bug(m, recordRoutes, success) ==
  [method |-> "ACK", branch |-> branches + 1, cseq |-> [m.cseq EXCEPT !.method = "ACK"],
   tp |-> m.tp, hs |-> m.hs]

\* ACK: the Route of the request or else the Record-Route of the response, in reverse; a
\* branch of its own for a 2xx
NewAckRequest(m, recordRoutes, success) ==
  LET routes == IF GetHeaders(m.hs, "route") # <<>> THEN GetHeaders(m.hs, "route")
                ELSE [i \in 1..Len(recordRoutes) |->
                        Header("route", recordRoutes[Len(recordRoutes) + 1 - i])]
      routed == AppendHeaders(CopyHeaders("via", m.hs, NoHeaders), "route", routes)
  IN  [method |-> "ACK", branch |-> IF success THEN branches + 1 ELSE m.branch,
       cseq |-> [m.cseq EXCEPT !.method = "ACK"], tp |-> m.tp,
       hs |-> Finish(m.hs, AppendHeader(routed, Header("max-forwards", 70)))]

\* CANCEL: the top Via hop only
NewCancelRequest(m) ==
  LET routed == CopyHeaders("route", m.hs, AppendHeader(NoHeaders, Header("via", 0)))
  IN  [method |-> "CANCEL", branch |-> m.branch, cseq |-> [m.cseq EXCEPT !.method = "CANCEL"],
       tp |-> m.tp, hs |-> Finish(m.hs, AppendHeader(routed, Header("max-forwards", 70)))]

-----------------------------------------------------------------------------
(***************************************************************************)
(* Building.                                                               *)
(***************************************************************************)

\* NewRequestBuilder, with SetRecipient and perhaps SetTransport, AddVia and SetRoutes
NewRequestBuilder(setup) ==
  /\ Len(reqs) < MaxRequests
  /\ builder.uri = 0 \/ \E q \in 1..Len(reqs) : reqs[q].uri = builder.uri
  /\ cseqs' = Append(cseqs, [seqNo |-> 1, method |-> ""])
  /\ uris' = Append(uris, setup.uri.tp)
  /\ hops' = IF setup.via = "none" THEN hops ELSE Append(hops, [branch |-> 0, tp |-> setup.via])
  /\ builder' = [hop |-> IF setup.via = "none" THEN 0 ELSE Len(hops'), cseq |-> Len(cseqs'),
                 uri |-> Len(uris'), setup |-> setup]
  /\ last' = NoMessage
  /\ UNCHANGED <<reqs, txs, branches, edits>>

\* SetMethod, perhaps SetSeqNo, and Build, then perhaps SetTransport of the request: it gets
\* the hop, the CSeq and the recipient of the builder themselves
Build(m) ==
  LET names == (IF builder.setup.route # NoRoute THEN <<"route">> ELSE <<>>)
               \o (IF builder.hop # 0 THEN <<"via">> ELSE <<>>)
               \o <<"cseq", "from", "to", "call-id", "max-forwards", "user-agent">>
  IN  /\ builder.uri # 0 /\ Len(reqs) < MaxRequests
      /\ \E n \in {cseqs[builder.cseq].seqNo, Len(reqs) + 1} :
           cseqs' = [cseqs EXCEPT ![builder.cseq] = [seqNo |-> n, method |-> m]]
      /\ reqs' = Append(reqs, [method |-> m, hop |-> builder.hop, cseq |-> builder.cseq,
                               uri |-> builder.uri, setup |-> builder.setup, auth |-> FALSE,
                               hs |-> SetContentLength(newHeaders(names), 0)])
      /\ last' = NoMessage
      /\ UNCHANGED <<builder, hops, uris, txs, branches, edits>>

Sent(r) == \E t \in 1..Len(txs) : txs[t].req = r

\* The application edits the headers of a request that it has not sent.
Edit(r) ==
  LET x == Header("x", edits + 1)
      hs == reqs[r].hs
  IN  /\ edits < MaxEdits /\ ~Sent(r)
      /\ \E new \in {AppendHeader(hs, x), PrependHeader(hs, x), RemoveHeader(hs, "x"),
                     RemoveHeader(hs, "user-agent"),
                     PrependHeaderAfter(hs, Header("route", edits + 1), "x")}
                    \cup {PrependHeaderAfter(hs, x, after) : after \in {"from", "x", "route"}} :
           reqs' = [reqs EXCEPT ![r].hs = new]
      /\ edits' = edits + 1
      /\ last' = NoMessage
      /\ UNCHANGED <<builder, hops, cseqs, uris, txs, branches>>

-----------------------------------------------------------------------------
(***************************************************************************)
(* Sending.                                                                *)
(***************************************************************************)

\* Request: prepareRequest adds the automatic headers, prepareClientRequest a Via hop and a
\* branch if there is none, and the transport layer sends over the transport of the request,
\* which it writes into the hop and takes out of the recipient.  The transaction keeps the
\* request itself.
Request(r) ==
  LET q  == reqs[r]
      hop == HopOf(q)
      hs == appendAutoHeaders(q.hs, q.method)
      p  == [q EXCEPT !.hs  = IF q.hop = 0 THEN PrependHeader(hs, Header("via", 0)) ELSE hs,
                      !.hop = IF q.hop = 0 THEN Len(hops) + 1 ELSE q.hop]
      new == IF hop.branch = 0 THEN branches + 1 ELSE branches
      h  == [branch |-> IF hop.branch = 0 THEN new ELSE hop.branch, tp |-> Transport(p, hop)]
      m  == [Image(p, h, cseqs[q.cseq]) EXCEPT !.tp = h.tp]
  IN  /\ Len(txs) < MaxTxs
      /\ branches' = new
      /\ hops' = IF q.hop = 0 THEN Append(hops, h) ELSE [hops EXCEPT ![q.hop] = h]
      /\ reqs' = [reqs EXCEPT ![r] = p]
      /\ uris' = [uris EXCEPT ![q.uri] = ""]
      /\ last' = NoMessage
      /\ UNCHANGED <<builder, cseqs, edits>>
      /\ txs' = Append(txs, [req |-> r, key |-> MakeClientTxKey(m), sent |-> m,
                             state |-> "calling", auth |-> q.auth])

\* The application sends a request.
SendRequest(r) ==
  /\ ~Sent(r)
  /\ Request(r)

\* the branch is kept
AuthorizeRequest_bug(t) ==
  LET r == txs[t].req
      q == reqs[r]
  IN  /\ txs[t].state = "completed" /\ ~q.auth
      /\ reqs' = [reqs EXCEPT ![r] = [q EXCEPT !.cseq = Len(cseqs) + 1, !.auth = TRUE,
                                             !.hs = AppendHeader(@, Header("authorization", 1))]]
      /\ cseqs' = Append(cseqs, [cseqs[q.cseq] EXCEPT !.seqNo = @ + 1])
      /\ last' = NoMessage
      /\ UNCHANGED <<builder, hops, branches, uris, txs, edits>>

\* AuthorizeRequest after the first 401 or 407: the branch changes in the hop, the CSeq is
\* replaced by a new one, and the transaction sees both at once.
AuthorizeRequest(t) ==
  LET r == txs[t].req
      q == reqs[r]
  IN  /\ txs[t].state = "completed" /\ ~q.auth
      /\ reqs' = [reqs EXCEPT ![r] = [q EXCEPT !.cseq = Len(cseqs) + 1, !.auth = TRUE,
                                             !.hs = AppendHeader(@, Header("authorization", 1))]]
      /\ cseqs' = Append(cseqs, [cseqs[q.cseq] EXCEPT !.seqNo = @ + 1])
      /\ branches' = branches + 1
      /\ hops' = [hops EXCEPT ![q.hop].branch = branches + 1]
      /\ last' = NoMessage
      /\ UNCHANGED <<builder, uris, txs, edits>>

\* The second attempt of requestWithContext.
SendAgain(r) ==
  /\ reqs[r].auth /\ \A t \in 1..Len(txs) : txs[t].req = r => ~txs[t].auth
  /\ Request(r)

-----------------------------------------------------------------------------
(***************************************************************************)
(* What the transactions make from the request, as it is by then.          *)
(***************************************************************************)
Origin(t) == LET q == reqs[txs[t].req] IN Image(q, HopOf(q), cseqs[q.cseq])

Emit(t, m, success) == last' = [tx |-> t, success |-> success, msg |-> m]

\* A response other than 2xx, for the first time or again: an INVITE transaction
\* acknowledges it.
ack(t) ==
  /\ txs[t].state \in {"calling", "completed"}
  /\ txs' = [txs EXCEPT ![t].state = "completed"]
  /\ IF txs[t].sent.method = "INVITE"
     THEN Emit(t, NewAckRequest(Origin(t), RecordRoutes, FALSE), FALSE)
     ELSE last' = NoMessage
  /\ UNCHANGED <<builder, hops, cseqs, uris, reqs, branches, edits>>

\* A 2xx: the application acknowledges it with NewAckRequest.
ack2xx(t) ==
  /\ txs[t].state = "calling"
  /\ txs' = [txs EXCEPT ![t].state = "accepted"]
  /\ IF txs[t].sent.method = "INVITE"
     THEN /\ Emit(t, NewAckRequest(Origin(t), RecordRoutes, TRUE), TRUE)
          /\ branches' = branches + 1
     ELSE last' = NoMessage /\ UNCHANGED branches
  /\ UNCHANGED <<builder, hops, cseqs, uris, reqs, edits>>

\* cancel: of an INVITE, before the final response
cancel(t) ==
  /\ txs[t].state = "calling" /\ txs[t].sent.method = "INVITE"
  /\ Emit(t, NewCancelRequest(Origin(t)), FALSE)
  /\ UNCHANGED <<builder, hops, cseqs, uris, reqs, txs, branches, edits>>

-----------------------------------------------------------------------------
MessageInit ==
  /\ builder = [hop |-> 0, cseq |-> 0, uri |-> 0, setup |-> <<>>]
  /\ hops = <<>> /\ cseqs = <<>> /\ uris = <<>> /\ reqs = <<>> /\ txs = <<>>
  /\ branches = 0 /\ edits = 0
  /\ last = NoMessage

MessageNext ==
  \/ \E setup \in Setups : NewRequestBuilder(setup)
  \/ \E m \in Methods : Build(m)
  \/ \E r \in 1..Len(reqs) : Edit(r) \/ SendRequest(r) \/ SendAgain(r)
  \/ \E t \in 1..Len(txs) : AuthorizeRequest(t) \/ ack(t) \/ ack2xx(t) \/ cancel(t)

MessageSpec == MessageInit /\ [][MessageNext]_messageVars

-----------------------------------------------------------------------------
(***************************************************************************)
(* Properties.                                                             *)
(***************************************************************************)

\* Nothing else has been built by the builder of request r.
OwnBuilder(r) == \A q \in 1..Len(reqs) : q # r => reqs[q].uri # reqs[r].uri

\* The request of transaction t has not been authorized since it was sent.
Current(t) == txs[t].auth = reqs[txs[t].req].auth

\* The headers of every request, and of the response, the ACK and the CANCEL made from it,
\* are those in the map, each name once, whatever the application has edited; and
\* PrependHeaderAfter would put one more header right after any other.
HeadersAreOrdered ==
  /\ \A r \in 1..Len(reqs) : OrderIsDomain(reqs[r].hs)
  /\ \A t \in 1..Len(txs) : OrderIsDomain(NewResponseFromRequest(txs[t].sent).hs)
  /\ last.tx # 0 => OrderIsDomain(last.msg.hs)
  /\ \A r \in 1..Len(reqs) : \A name, after \in {"x", "from", "route", "user-agent"} :
       ~Sent(r) /\ name # after /\ Has(reqs[r].hs, after) => PutsRightAfter(reqs[r].hs, name, after)

\* The response to a request has the key of the transaction that sent it and of no other,
\* also of the transaction that sent the same request before (AuthorizeRequest changes the
\* branch), unless both requests have the Via hop of one builder.
ResponseFindsItsTx ==
  \A t \in 1..Len(txs) :
    LET key == MakeClientTxKey(NewResponseFromRequest(txs[t].sent))
    IN  /\ key = txs[t].key
        /\ \A u \in 1..Len(txs) : key = txs[u].key => t = u \/ ~OwnBuilder(txs[t].req)

\* A message that is too long for a packet and goes to a sips URI, and for which the
\* application has set no transport: request.Transport makes TLS of TCP first and then TCP of
\* UDP, so that it may give TCP, and TLS when it finds this TCP in the Via hop.
LongSips(setup, m) ==
  setup.tp = "" /\ TooLong(m.hs) /\ TargetUri(m.hs, setup.route, setup.uri).sips

\* The ACK of a response other than 2xx, and the CANCEL, have the server key, the CSeq number
\* and the transport of the INVITE that the transaction sent, as long as the request has not
\* been authorized (from then on, also before it is sent again, an ACK has the new branch) and
\* its builder has not been used again; but they go over TLS after an INVITE that is LongSips
\* and went over TCP.  The ACK of a 2xx has another key ("2xx ACK is separate Tx",
\* request.go:285).
AckAndCancelMatch ==
  last.tx # 0 =>
    LET r    == txs[last.tx].req
        sent == txs[last.tx].sent
    IN  IF last.success THEN MakeServerTxKey(last.msg) # MakeServerTxKey(sent)
        ELSE Current(last.tx) /\ OwnBuilder(r) =>
               /\ MakeServerTxKey(last.msg) = MakeServerTxKey(sent)
               /\ last.msg.cseq.seqNo = sent.cseq.seqNo
               /\ \/ last.msg.tp = sent.tp
                  \/ LongSips(reqs[r].setup, sent) /\ sent.tp = "TCP" /\ last.msg.tp = "TLS"

\* A request goes over the transport that the application asks for: the one that it set on the
\* request; or else that of the parameter of the Route's URI, or of the recipient if there is
\* no Route; or else that of its Via hop; or else UDP.  For a sips URI it is the secure one
\* of TCP and WS, and a request that is too long for UDP goes over TCP.  So it does when it
\* is sent a second time, after the transport layer has written the transport into the hop
\* and taken the parameter out of the recipient; but one that is LongSips may go over TLS then.
SentAsAsked ==
  \A t \in 1..Len(txs) :
    OwnBuilder(txs[t].req) =>
      LET m     == txs[t].sent
          s     == reqs[txs[t].req].setup
          uri   == TargetUri(m.hs, s.route, s.uri)
          named == IF uri.tp # "" THEN uri.tp ELSE IF s.via # "none" THEN s.via ELSE "UDP"
          safe  == IF uri.sips THEN Secured(named) ELSE named
          fits  == IF safe = "UDP" /\ TooLong(m.hs) THEN "TCP" ELSE safe
      IN  \/ m.tp = IF s.tp # "" THEN s.tp ELSE fits
          \/ txs[t].auth /\ LongSips(s, m) /\ fits = "TCP" /\ m.tp = "TLS"
=============================================================================
