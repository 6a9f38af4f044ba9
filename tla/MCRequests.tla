---------------------------- MODULE MCRequests ----------------------------
EXTENDS Requests

Plain == Uri("", FALSE)
Setup(via, route, uri, tp) == [via |-> via, route |-> route, uri |-> uri, tp |-> tp]

\* a hop of the application; a recipient that asks for TCP; and a Route before it
CommonSetups == {Setup("UDP", NoRoute, Plain, ""),
                 Setup("none", NoRoute, Uri("TCP", FALSE), ""),
                 Setup("none", Plain, Uri("TCP", FALSE), "")}

\* a hop that says TCP, to a sips recipient; a sips Route that asks for WS; a sips recipient;
\* and a request with a transport of its own
OtherSetups == {Setup("TCP", NoRoute, Uri("", TRUE), ""),
                Setup("none", Uri("WS", TRUE), Uri("TCP", FALSE), ""),
                Setup("none", NoRoute, Uri("", TRUE), ""),
                Setup("UDP", NoRoute, Uri("TCP", TRUE), "UDP")}

MCSetups == CommonSetups \cup OtherSetups
MCRecordRoutes == <<1, 2>>

\* headers are edited in runs with a single request, which is sent once after three edits,
\* and there is a single one of the other setups, with one edit
Bounds ==
  /\ edits > 0 => Len(reqs) = 1
  /\ edits > 2 => Len(txs) <= 1
  /\ builder.uri # 0 /\ builder.setup \in OtherSetups => Len(reqs) <= 1 /\ Len(uris) = 1 /\ edits <= 1
  /\ Len(uris) > 1 => reqs[1].setup \in CommonSetups
=============================================================================
