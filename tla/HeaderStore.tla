---------------------------- MODULE HeaderStore ----------------------------
(***************************************************************************)
(* The headers of a message (sip/message.go): the headers of each name, in *)
(* a map, and the order of the names, in a slice.  The operators return    *)
(* the store as the method of that name leaves it.  Names are in lower     *)
(* case; a header is its name and a value.                                 *)
(***************************************************************************)
EXTENDS Integers, Sequences, FiniteSets

Header(name, value) == [name |-> name, value |-> value]

NamesIn(order) == {order[i] : i \in 1..Len(order)}

\* newHeaders, with one header of each name
newHeaders(names) == [headers |-> [n \in NamesIn(names) |-> <<Header(n, 0)>>], headerOrder |-> names]
NoHeaders == newHeaders(<<>>)

Has(hs, name) == name \in DOMAIN hs.headers

With(f, name, list) == [n \in DOMAIN f \cup {name} |-> IF n = name THEN list ELSE f[n]]

GetHeaders(hs, name) == IF Has(hs, name) THEN hs.headers[name] ELSE <<>>

\* Headers, which String writes: all of them, by name and place
Headers(hs) == UNION {{n} \X (1..Len(GetHeaders(hs, n))) : n \in NamesIn(hs.headerOrder)}

\* AppendHeader of each header of a list, which all have the name
AppendHeaders(hs, name, list) ==
  IF list = <<>> THEN hs
  ELSE [headers     |-> With(hs.headers, name, GetHeaders(hs, name) \o list),
        headerOrder |-> IF Has(hs, name) THEN hs.headerOrder ELSE Append(hs.headerOrder, name)]

AppendHeader(hs, h) == AppendHeaders(hs, h.name, <<h>>)

PrependHeader(hs, h) ==
  [headers     |-> With(hs.headers, h.name, <<h>> \o GetHeaders(hs, h.name)),
   headerOrder |-> IF Has(hs, h.name) THEN hs.headerOrder ELSE <<h.name>> \o hs.headerOrder]

\* order[from + 1 .. to], as the slice order[from:to]
Slice(order, from, to) == SubSeq(order, from + 1, to)

\* the last index of a name, from 0; -1 if it is not there
Idx(order, name) ==
  LET is == {i \in 1..Len(order) : order[i] = name}
  IN  IF is = {} THEN -1 ELSE (CHOOSE i \in is : \A j \in is : j <= i) - 1

\* Mutants (here and below, names that end in _bug): wrong versions of the
\* definition of the same name, which the properties must tell from the right one.
\* a name that moves down goes before the other one
PrependHeaderAfter_bug(hs, h, after) ==
  LET order == hs.headerOrder
      afterIdx  == Idx(order, after)
      headerIdx == Idx(order, h.name)
      newOrder  ==
        IF headerIdx = -1
          THEN Slice(order, 0, afterIdx + 1) \o <<h.name>> \o Slice(order, afterIdx + 1, Len(order))
        ELSE IF afterIdx < headerIdx
          THEN Slice(order, 0, afterIdx + 1) \o <<h.name>>
               \o Slice(order, afterIdx + 1, headerIdx) \o Slice(order, headerIdx + 1, Len(order))
        ELSE Slice(order, 0, headerIdx) \o Slice(order, headerIdx + 1, afterIdx)
               \o <<h.name>> \o Slice(order, afterIdx, Len(order))
  IN  IF Has(hs, after)
      THEN [headers     |-> With(hs.headers, h.name, <<h>> \o GetHeaders(hs, h.name)),
            headerOrder |-> newOrder]
      ELSE PrependHeader(hs, h)

\* the three cases of the new order, with the indexes of the code, which start at 0
PrependHeaderAfter(hs, h, after) ==
  LET order == hs.headerOrder
      afterIdx  == Idx(order, after)
      headerIdx == Idx(order, h.name)
      newOrder  ==
        IF headerIdx = -1
          THEN Slice(order, 0, afterIdx + 1) \o <<h.name>> \o Slice(order, afterIdx + 1, Len(order))
        ELSE IF afterIdx < headerIdx
          THEN Slice(order, 0, afterIdx + 1) \o <<h.name>>
               \o Slice(order, afterIdx + 1, headerIdx) \o Slice(order, headerIdx + 1, Len(order))
        ELSE Slice(order, 0, headerIdx) \o Slice(order, headerIdx + 1, afterIdx + 1)
               \o <<h.name>> \o Slice(order, afterIdx + 1, Len(order))
  IN  IF Has(hs, after)
      THEN [headers     |-> With(hs.headers, h.name, <<h>> \o GetHeaders(hs, h.name)),
            headerOrder |-> newOrder]
      ELSE PrependHeader(hs, h)

\* nothing happens if there is no header of that name
ReplaceHeaders(hs, name, list) ==
  IF Has(hs, name) THEN [hs EXCEPT !.headers[name] = list] ELSE hs

\* the first entry of the order goes, if there is one
RemoveHeader(hs, name) ==
  LET order == hs.headerOrder
      is    == {i \in 1..Len(order) : order[i] = name}
      idx   == (CHOOSE i \in is : \A j \in is : i <= j) - 1
  IN  [headers     |-> [n \in DOMAIN hs.headers \ {name} |-> hs.headers[n]],
       headerOrder |-> IF is = {} THEN order
                       ELSE Slice(order, 0, idx) \o Slice(order, idx + 1, Len(order))]

\* CopyHeaders: clones are equal here
CopyHeaders(name, from, to) == AppendHeaders(to, name, GetHeaders(from, name))

\* SetBody with setContentLength
SetContentLength(hs, length) ==
  IF GetHeaders(hs, "content-length") = <<>>
  THEN AppendHeader(hs, Header("content-length", length))
  ELSE ReplaceHeaders(hs, "content-length", <<Header("content-length", length)>>)

AppendMissing(hs, name) ==
  IF GetHeaders(hs, name) = <<>> THEN AppendHeader(hs, Header(name, 0)) ELSE hs

\* appendAutoHeaders of a server with extensions
appendAutoHeaders(hs, method) ==
  LET named == AppendMissing(hs, "user-agent")
      able  == IF method \in {"INVITE", "REGISTER", "OPTIONS", "REFER", "NOTIFY"}
               THEN AppendMissing(AppendMissing(named, "allow"), "supported") ELSE named
  IN  AppendMissing(able, "content-length")

-----------------------------------------------------------------------------
\* The names in the order are the names in the map, and none comes twice, so that String
\* and Headers give every header once.
OrderIsDomain(hs) ==
  /\ NamesIn(hs.headerOrder) = DOMAIN hs.headers
  /\ \A i, j \in 1..Len(hs.headerOrder) : hs.headerOrder[i] = hs.headerOrder[j] => i = j

\* PrependHeaderAfter leaves the name right after the other one, and all other names in
\* their order.
PutsRightAfter(hs, name, after) ==
  LET order == hs.headerOrder
      new   == PrependHeaderAfter(hs, Header(name, 0), after)
      place == [i \in 1..Len(order) |-> Idx(new.headerOrder, order[i])]
  IN  /\ OrderIsDomain(new)
      /\ Idx(new.headerOrder, name) = Idx(new.headerOrder, after) + 1
      /\ \A i, j \in 1..Len(order) :
           i < j /\ order[i] # name /\ order[j] # name => place[i] < place[j]
=============================================================================
