---------------------------- MODULE HeadersProofs ----------------------------
(***************************************************************************)
(* Proofs about the headers of messages (modules HeaderStore, Requests).   *)
(*                                                                         *)
(* A header store is a map from names to headers and a slice of the names  *)
(* in the order in which String writes them.  The lemmas of the first part *)
(* say what every operation of the store does to a store that is Ordered:  *)
(* the slice has every name of the map once and no other.  The second part *)
(* carries this through every step of Requests (OrderInv), and the third   *)
(* one what was asked of a request to the transport it is sent over        *)
(* (AskedInv).  Both rest on the invariant of RequestsProofs, which says   *)
(* who shares what with whom.                                              *)
(***************************************************************************)
EXTENDS RequestsProofs

\* A list in which nothing comes twice.
Distinct(s) == IsList(s) /\ \A i, j \in 1..Len(s) : s[i] = s[j] => i = j

\* What a list is: a sequence, of some length.
LEMMA ListLen == ASSUME NEW s, IsList(s) PROVE Len(s) \in Nat /\ s \in Seq(NamesIn(s))
BY DEF IsList, NamesIn

\* A list is a sequence of any set that has its elements.
LEMMA ListIn == ASSUME NEW S, NEW s, IsList(s), NamesIn(s) \subseteq S PROVE s \in Seq(S)
BY DEF IsList, NamesIn

\* Two lists, one after the other.
Joined(s, t, w) ==
  /\ IsList(w) /\ Len(w) = Len(s) + Len(t)
  /\ \A i \in 1..Len(s) : w[i] = s[i]
  /\ \A i \in 1..Len(t) : w[Len(s) + i] = t[i]

\* What the concatenation of two lists holds, place by place.
LEMMA ListConcat ==
  ASSUME NEW s, NEW t, IsList(s), IsList(t) PROVE Joined(s, t, s \o t)
<1> DEFINE S == NamesIn(s) \cup NamesIn(t)
<1>1. s \in Seq(S) /\ t \in Seq(S)
  BY ListIn
<1> HIDE DEF S
<1>2. s \o t \in Seq(S)
  BY <1>1
<1>3. IsList(s \o t)
  BY <1>2, SeqIsList
<1> QED BY <1>1, <1>3 DEF Joined

\* A part of a list.
LEMMA ListSlice ==
  ASSUME NEW s, IsList(s), NEW a \in 0..Len(s), NEW b \in a..Len(s)
  PROVE  /\ IsList(Slice(s, a, b)) /\ Len(Slice(s, a, b)) = b - a
         /\ \A i \in 1..b - a : Slice(s, a, b)[i] = s[a + i]
<1>1. s \in Seq(NamesIn(s)) /\ Len(s) \in Nat
  BY ListLen
<1> DEFINE t == SubSeq(s, a + 1, b)
<1>2. t \in Seq(NamesIn(s)) /\ Len(t) = b - a /\ \A i \in 1..b - a : t[i] = s[a + i]
  BY <1>1
<1>3. IsList(t)
  BY <1>2, SeqIsList
<1> QED BY <1>2, <1>3 DEF Slice

\* A list of one element.
LEMMA ListOne == ASSUME NEW x PROVE IsList(<<x>>) /\ Len(<<x>>) = 1 /\ <<x>>[1] = x
<1>1. <<x>> \in Seq({x})
  OBVIOUS
<1> QED BY <1>1, SeqIsList

\* The index of a name that comes once.
LEMMA IdxOf ==
  ASSUME NEW s, Distinct(s), NEW i \in 1..Len(s) PROVE Idx(s, s[i]) = i - 1
<1> DEFINE is == {j \in 1..Len(s) : s[j] = s[i]}
<1>1. is = {i}
  BY DEF Distinct
<1>2. Len(s) \in Nat
  BY ListLen DEF Distinct
<1>3. (CHOOSE k \in is : \A j \in is : j <= k) = i
  BY <1>1, <1>2
<1> QED BY <1>1, <1>3 DEF Idx

\* The index of a name that does not come.
LEMMA IdxNone == ASSUME NEW s, NEW x, x \notin NamesIn(s) PROVE Idx(s, x) = -1
BY DEF Idx, NamesIn

\* A list made from another one, without x, and with x in place k: f tells where the other
\* elements come from.
Moved(s, x, k, new, f) ==
  /\ IsList(new) /\ k \in 1..Len(new) /\ new[k] = x
  /\ \A i \in 1..Len(new) \ {k} : f[i] \in 1..Len(s) /\ new[i] = s[f[i]] /\ s[f[i]] # x
  /\ \A i, j \in 1..Len(new) \ {k} : i < j => f[i] < f[j]
  /\ \A j \in 1..Len(s) : s[j] # x => \E i \in 1..Len(new) \ {k} : f[i] = j

\* Moving or adding one name leaves the names distinct, and adds no other.
LEMMA MovedDistinct ==
  ASSUME NEW s, NEW x, NEW k, NEW new, NEW f, Distinct(s), Moved(s, x, k, new, f)
  PROVE  Distinct(new) /\ NamesIn(new) = NamesIn(s) \cup {x}
<1>1. Len(new) \in Nat /\ Len(s) \in Nat
  BY ListLen DEF Moved, Distinct
<1>2. ASSUME NEW i \in 1..Len(new), NEW j \in 1..Len(new), new[i] = new[j], i < j PROVE FALSE
  <2>1. CASE i = k \/ j = k
    BY <1>1, <1>2, <2>1 DEF Moved
  <2>2. CASE i # k /\ j # k
    <3>1. f[i] = f[j]
      BY <1>2, <2>2 DEF Moved, Distinct
    <3>2. f[i] < f[j] /\ f[i] \in 1..Len(s) /\ f[j] \in 1..Len(s)
      BY <1>2, <2>2 DEF Moved
    <3> QED BY <1>1, <3>1, <3>2
  <2> QED BY <2>1, <2>2
<1>3. ASSUME NEW i \in 1..Len(new), NEW j \in 1..Len(new), new[i] = new[j] PROVE i = j
  BY <1>1, <1>2, <1>3
<1>4. Distinct(new)
  BY <1>3 DEF Moved, Distinct
<1>5. NamesIn(new) \subseteq NamesIn(s) \cup {x}
  BY DEF Moved, NamesIn
<1>6. ASSUME NEW j \in 1..Len(s) PROVE s[j] \in NamesIn(new) \cup {x}
  <2>1. CASE s[j] = x
    BY <2>1
  <2>2. CASE s[j] # x
    <3>1. PICK i \in 1..Len(new) \ {k} : f[i] = j
      BY <2>2 DEF Moved
    <3> QED BY <3>1 DEF Moved, NamesIn
  <2> QED BY <2>1, <2>2
<1>7. x \in NamesIn(new)
  BY DEF Moved, NamesIn
<1>8. NamesIn(s) \subseteq NamesIn(new)
  BY <1>6, <1>7 DEF NamesIn
<1> QED BY <1>4, <1>5, <1>7, <1>8

\* It leaves the other elements in their order.
LEMMA MovedOrder ==
  ASSUME NEW s, NEW x, NEW k, NEW new, NEW f, Distinct(s), Moved(s, x, k, new, f),
         NEW i \in 1..Len(s), NEW j \in 1..Len(s), i < j, s[i] # x, s[j] # x
  PROVE  Idx(new, s[i]) < Idx(new, s[j])
<1>1. Len(new) \in Nat /\ Len(s) \in Nat
  BY ListLen DEF Moved, Distinct
<1>2. Distinct(new)
  BY MovedDistinct
<1>3. PICK a \in 1..Len(new) \ {k} : f[a] = i
  BY DEF Moved
<1>4. PICK b \in 1..Len(new) \ {k} : f[b] = j
  BY DEF Moved
<1>5. new[a] = s[i] /\ new[b] = s[j]
  BY <1>3, <1>4 DEF Moved
<1>6. a # b /\ ~(b < a)
  <2>1. ASSUME b < a PROVE FALSE
    <3>1. f[b] < f[a]
      BY <2>1 DEF Moved
    <3> QED BY <1>1, <1>3, <1>4, <3>1
  <2> QED BY <1>1, <1>3, <1>4, <2>1
<1>7. Idx(new, s[i]) = a - 1 /\ Idx(new, s[j]) = b - 1
  BY <1>2, <1>5, IdxOf
<1> QED BY <1>1, <1>6, <1>7

\* Three lists, one after the other.
Joined3(s, t, u, w) ==
  /\ IsList(w) /\ Len(w) = Len(s) + Len(t) + Len(u)
  /\ \A i \in 1..Len(s) : w[i] = s[i]
  /\ \A i \in 1..Len(t) : w[Len(s) + i] = t[i]
  /\ \A i \in 1..Len(u) : w[Len(s) + Len(t) + i] = u[i]

\* What the concatenation of three lists holds, place by place.
LEMMA ListThree ==
  ASSUME NEW s, NEW t, NEW u, IsList(s), IsList(t), IsList(u)
  PROVE  Joined3(s, t, u, s \o t \o u)
<1> DEFINE v == s \o t
<1>1. Joined(s, t, v)
  BY ListConcat
<1> HIDE DEF v
<1> DEFINE w == v \o u
<1>2. IsList(v)
  BY <1>1 DEF Joined
<1>3. Joined(v, u, w)
  BY <1>2, ListConcat, Zenon
<1>4. Len(s) \in Nat /\ Len(t) \in Nat /\ Len(u) \in Nat
  BY ListLen
<1> HIDE DEF w
<1>5. Joined3(s, t, u, w)
  BY <1>1, <1>3, <1>4 DEF Joined, Joined3
<1> QED BY <1>5 DEF v, w

\* The first case of PrependHeaderAfter: a new name.
LEMMA PutNewName ==
  ASSUME NEW s, NEW x, IsList(s), x \notin NamesIn(s), NEW a \in 0..Len(s) - 1
  PROVE  LET new == Slice(s, 0, a + 1) \o <<x>> \o Slice(s, a + 1, Len(s))
         IN  /\ Moved(s, x, a + 2, new, [i \in 1..Len(s) + 1 |-> IF i <= a + 1 THEN i ELSE i - 1])
             /\ new[a + 1] = s[a + 1]
<1> DEFINE p == Slice(s, 0, a + 1)
           q == Slice(s, a + 1, Len(s))
           o == <<x>>
           n == p \o o \o q
           f == [i \in 1..Len(s) + 1 |-> IF i <= a + 1 THEN i ELSE i - 1]
<1>1. Len(s) \in Nat
  BY ListLen
<1>2. IsList(p) /\ Len(p) = a + 1 /\ \A i \in 1..a + 1 : p[i] = s[i]
  <2>1. 0 \in 0..Len(s) /\ a + 1 \in 0..Len(s)
    BY <1>1
  <2>2. IsList(p) /\ Len(p) = (a + 1) - 0 /\ \A i \in 1..(a + 1) - 0 : p[i] = s[0 + i]
    BY <2>1, ListSlice
  <2> QED BY <1>1, <2>2
<1>3. IsList(q) /\ Len(q) = Len(s) - (a + 1) /\ \A i \in 1..Len(s) - (a + 1) : q[i] = s[a + 1 + i]
  <2>1. a + 1 \in 0..Len(s) /\ Len(s) \in a + 1..Len(s)
    BY <1>1
  <2> QED BY <2>1, ListSlice
<1>4. IsList(o) /\ Len(o) = 1 /\ o[1] = x
  BY ListOne
<1> HIDE DEF p, q, o
<1>5. Joined3(p, o, q, n)
  BY <1>2, <1>3, <1>4, ListThree, Zenon
<1> HIDE DEF n
<1>6. /\ IsList(n) /\ Len(n) = Len(s) + 1 /\ n[a + 2] = x
      /\ \A i \in 1..a + 1 : n[i] = s[i]
      /\ \A i \in 1..Len(s) - (a + 1) : n[a + 2 + i] = s[a + 1 + i]
  <2>1. Len(n) = Len(s) + 1 /\ IsList(n)
    BY <1>1, <1>2, <1>3, <1>4, <1>5 DEF Joined3
  <2>2. n[a + 2] = x
    <3>1. 1 \in 1..Len(o) /\ Len(p) + 1 = a + 2
      BY <1>1, <1>2, <1>4
    <3> QED BY <1>4, <1>5, <3>1 DEF Joined3
  <2>3. \A i \in 1..a + 1 : n[i] = s[i]
    BY <1>2, <1>5 DEF Joined3
  <2>4. ASSUME NEW i \in 1..Len(s) - (a + 1) PROVE n[a + 2 + i] = s[a + 1 + i]
    <3>1. n[Len(p) + Len(o) + i] = q[i] /\ q[i] = s[a + 1 + i]
      BY <1>3, <1>5 DEF Joined3
    <3>2. Len(p) + Len(o) + i = a + 2 + i
      BY <1>1, <1>2, <1>4
    <3> QED BY <3>1, <3>2
  <2> QED BY <2>1, <2>2, <2>3, <2>4
<1>7. \A i \in 1..Len(n) : i > a + 2 => n[i] = s[i - 1]
  <2> SUFFICES ASSUME NEW i \in 1..Len(n), i > a + 2 PROVE n[i] = s[i - 1]
    OBVIOUS
  <2>1. /\ i - (a + 2) \in 1..Len(s) - (a + 1)
        /\ a + 2 + (i - (a + 2)) = i /\ a + 1 + (i - (a + 2)) = i - 1
    BY <1>1, <1>6
  <2> QED BY <1>6, <2>1
<1>8. \A i \in 1..Len(n) \ {a + 2} : f[i] \in 1..Len(s) /\ n[i] = s[f[i]]
  BY <1>1, <1>6, <1>7
<1>9. \A i, j \in 1..Len(n) \ {a + 2} : i < j => f[i] < f[j]
  BY <1>1, <1>6
<1>10. \A j \in 1..Len(s) : \E i \in 1..Len(n) \ {a + 2} : f[i] = j
  <2> SUFFICES ASSUME NEW j \in 1..Len(s) PROVE \E i \in 1..Len(n) \ {a + 2} : f[i] = j
    OBVIOUS
  <2>1. CASE j <= a + 1
    BY <1>1, <1>6, <2>1
  <2>2. CASE j > a + 1
    <3>1. j + 1 \in 1..Len(n) \ {a + 2} /\ f[j + 1] = j
      BY <1>1, <1>6, <2>2
    <3> QED BY <3>1
  <2>3. j <= a + 1 \/ j > a + 1
    BY <1>1
  <2> QED BY <2>1, <2>2, <2>3, Zenon
<1>11. a + 2 \in 1..Len(n) /\ a + 1 \in 1..a + 1
  BY <1>1, <1>6
<1>12. \A j \in 1..Len(s) : s[j] # x
  BY DEF NamesIn
<1> HIDE DEF f
<1>13. Moved(s, x, a + 2, n, f)
  BY <1>6, <1>8, <1>9, <1>10, <1>11, <1>12 DEF Moved
<1>14. n[a + 1] = s[a + 1]
  BY <1>6, <1>11
<1> QED BY <1>13, <1>14 DEF n, p, q, o, f

\* Four lists, one after the other.
Joined4(s, t, u, v, w) ==
  /\ IsList(w) /\ Len(w) = Len(s) + Len(t) + Len(u) + Len(v)
  /\ \A i \in 1..Len(s) : w[i] = s[i]
  /\ \A i \in 1..Len(t) : w[Len(s) + i] = t[i]
  /\ \A i \in 1..Len(u) : w[Len(s) + Len(t) + i] = u[i]
  /\ \A i \in 1..Len(v) : w[Len(s) + Len(t) + Len(u) + i] = v[i]

\* What the concatenation of four lists holds, place by place.
LEMMA ListFour ==
  ASSUME NEW s, NEW t, NEW u, NEW v, IsList(s), IsList(t), IsList(u), IsList(v)
  PROVE  Joined4(s, t, u, v, s \o t \o u \o v)
<1> DEFINE z == s \o t \o u
<1>1. Joined3(s, t, u, z)
  BY ListThree
<1> HIDE DEF z
<1> DEFINE w == z \o v
<1>2. IsList(z)
  BY <1>1 DEF Joined3
<1>3. Joined(z, v, w)
  BY <1>2, ListConcat, Zenon
<1>4. Len(s) \in Nat /\ Len(t) \in Nat /\ Len(u) \in Nat /\ Len(v) \in Nat
  BY ListLen
<1> HIDE DEF w
<1>5. /\ Len(z) = Len(s) + Len(t) + Len(u) /\ Len(w) = Len(z) + Len(v)
      /\ \A i \in 1..Len(z) : w[i] = z[i]
  BY <1>1, <1>3 DEF Joined, Joined3
<1>6. \A i \in 1..Len(s) : w[i] = s[i]
  BY <1>1, <1>4, <1>5 DEF Joined3
<1>7. \A i \in 1..Len(t) : w[Len(s) + i] = t[i]
  BY <1>1, <1>4, <1>5 DEF Joined3
<1>8. \A i \in 1..Len(u) : w[Len(s) + Len(t) + i] = u[i]
  BY <1>1, <1>4, <1>5 DEF Joined3
<1>9. \A i \in 1..Len(v) : w[Len(s) + Len(t) + Len(u) + i] = v[i]
  BY <1>3, <1>5 DEF Joined
<1>10. Joined4(s, t, u, v, w)
  BY <1>3, <1>4, <1>5, <1>6, <1>7, <1>8, <1>9 DEF Joined, Joined4
<1> QED BY <1>10 DEF z, w

\* The elements of a slice, by their places in the list.
SliceOf(s, a, b, t) == IsList(t) /\ Len(t) = b - a /\ \A i \in a + 1..b : t[i - a] = s[i]

\* A slice of the code, s[a:b], holds the elements in the places a + 1 to b.
LEMMA SliceIs ==
  ASSUME NEW s, IsList(s), NEW a \in 0..Len(s), NEW b \in a..Len(s)
  PROVE  SliceOf(s, a, b, Slice(s, a, b))
<1> DEFINE t == Slice(s, a, b)
<1>1. IsList(t) /\ Len(t) = b - a /\ \A i \in 1..b - a : t[i] = s[a + i]
  BY ListSlice
<1> HIDE DEF t
<1>2. ASSUME NEW i \in a + 1..b PROVE t[i - a] = s[i]
  <2>1. i - a \in 1..b - a /\ a + (i - a) = i
    BY ListLen
  <2> QED BY <1>1, <2>1
<1>3. SliceOf(s, a, b, t)
  BY <1>1, <1>2 DEF SliceOf
<1> QED BY <1>3 DEF t

\* The second case: the name comes after the other one and moves up.
LEMMA PutMovesUp ==
  ASSUME NEW s, Distinct(s), NEW h \in 0..Len(s) - 1, NEW a \in 0..h - 1
  PROVE  LET x   == s[h + 1]
             new == Slice(s, 0, a + 1) \o <<x>> \o Slice(s, a + 1, h) \o Slice(s, h + 1, Len(s))
             f   == [i \in 1..Len(s) |-> IF i <= a + 1 THEN i ELSE IF i <= h + 1 THEN i - 1 ELSE i]
         IN  Moved(s, x, a + 2, new, f) /\ new[a + 1] = s[a + 1]
<1> DEFINE x == s[h + 1]
           o == <<x>>
           p == Slice(s, 0, a + 1)
           q == Slice(s, a + 1, h)
           r == Slice(s, h + 1, Len(s))
           n == p \o o \o q \o r
           f == [i \in 1..Len(s) |-> IF i <= a + 1 THEN i ELSE IF i <= h + 1 THEN i - 1 ELSE i]
<1>1. Len(s) \in Nat /\ IsList(s)
  BY ListLen DEF Distinct
<1>2. SliceOf(s, 0, a + 1, p) /\ SliceOf(s, a + 1, h, q) /\ SliceOf(s, h + 1, Len(s), r)
  <2>1. /\ 0 \in 0..Len(s) /\ a + 1 \in 0..Len(s) /\ h \in a + 1..Len(s)
        /\ h + 1 \in 0..Len(s) /\ Len(s) \in h + 1..Len(s)
    BY <1>1
  <2> QED BY <1>1, <2>1, SliceIs, Zenon
<1>3. IsList(o) /\ Len(o) = 1 /\ o[1] = x
  BY ListOne
<1> HIDE DEF x, o, p, q, r
<1>4. /\ IsList(p) /\ Len(p) = a + 1 /\ IsList(q) /\ Len(q) = h - (a + 1)
      /\ IsList(r) /\ Len(r) = Len(s) - (h + 1)
  BY <1>1, <1>2 DEF SliceOf
<1>5. Joined4(p, o, q, r, n)
  BY <1>3, <1>4, ListFour, Zenon
<1> HIDE DEF n
<1>6. IsList(n) /\ Len(n) = Len(s)
  BY <1>1, <1>3, <1>4, <1>5 DEF Joined4
<1>7. n[a + 2] = x
  <2>1. 1 \in 1..Len(o) /\ Len(p) + 1 = a + 2
    BY <1>1, <1>3, <1>4
  <2> QED BY <1>3, <1>5, <2>1 DEF Joined4
<1>8. ASSUME NEW i \in 1..a + 1 PROVE n[i] = s[i]
  <2>1. i \in 1..Len(p) /\ i \in 0 + 1..a + 1 /\ i - 0 = i
    BY <1>1, <1>4
  <2> QED BY <1>2, <1>5, <2>1 DEF Joined4, SliceOf
<1>9. ASSUME NEW i \in a + 3..h + 1 PROVE n[i] = s[i - 1]
  <2> DEFINE j == i - (a + 2)
  <2>1. j \in 1..Len(q) /\ Len(p) + Len(o) + j = i /\ i - 1 \in a + 1 + 1..h /\ i - 1 - (a + 1) = j
    BY <1>1, <1>3, <1>4
  <2> HIDE DEF j
  <2>2. n[Len(p) + Len(o) + j] = q[j]
    BY <1>5, <2>1 DEF Joined4
  <2>3. q[i - 1 - (a + 1)] = s[i - 1]
    BY <1>2, <2>1 DEF SliceOf
  <2> QED BY <2>1, <2>2, <2>3
<1>10. ASSUME NEW i \in h + 2..Len(s) PROVE n[i] = s[i]
  <2> DEFINE j == i - (h + 1)
  <2>1. j \in 1..Len(r) /\ Len(p) + Len(o) + Len(q) + j = i /\ i \in h + 1 + 1..Len(s)
    BY <1>1, <1>3, <1>4
  <2>2. r[j] = s[i]
    BY <1>2, <2>1 DEF SliceOf
  <2> HIDE DEF j
  <2>3. n[Len(p) + Len(o) + Len(q) + j] = r[j]
    BY <1>5, <2>1 DEF Joined4
  <2> QED BY <2>1, <2>2, <2>3
<1>11. ASSUME NEW i \in 1..Len(n) \ {a + 2}
       PROVE  f[i] \in 1..Len(s) \ {h + 1} /\ n[i] = s[f[i]]
  <2>1. CASE i <= a + 1
    BY <1>1, <1>6, <1>8, <2>1
  <2>2. CASE i > a + 2 /\ i <= h + 1
    BY <1>1, <1>6, <1>9, <2>2
  <2>3. CASE i > h + 1
    BY <1>1, <1>6, <1>10, <2>3
  <2>4. i <= a + 1 \/ (i > a + 2 /\ i <= h + 1) \/ i > h + 1
    BY <1>1, <1>6
  <2> QED BY <2>1, <2>2, <2>3, <2>4, Zenon
<1>12. \A i, j \in 1..Len(n) \ {a + 2} : i < j => f[i] < f[j]
  BY <1>1, <1>6
<1>13. ASSUME NEW j \in 1..Len(s), j # h + 1 PROVE \E i \in 1..Len(n) \ {a + 2} : f[i] = j
  <2>1. CASE j <= a + 1
    BY <1>1, <1>6, <2>1
  <2>2. CASE j > a + 1 /\ j <= h
    <3>1. j + 1 \in 1..Len(n) \ {a + 2} /\ f[j + 1] = j
      BY <1>1, <1>6, <2>2
    <3> QED BY <3>1
  <2>3. CASE j > h + 1
    <3>1. j \in 1..Len(n) \ {a + 2} /\ f[j] = j
      BY <1>1, <1>6, <2>3
    <3> QED BY <3>1
  <2>4. j <= a + 1 \/ (j > a + 1 /\ j <= h) \/ j > h + 1
    BY <1>1, <1>13
  <2> QED BY <2>1, <2>2, <2>3, <2>4, Zenon
<1>14. a + 2 \in 1..Len(n) /\ a + 1 \in 1..a + 1 /\ h + 1 \in 1..Len(s)
  BY <1>1, <1>6
<1>15. \A j \in 1..Len(s) : s[j] = x <=> j = h + 1
  BY <1>14 DEF Distinct, x
<1> HIDE DEF f
<1>16. Moved(s, x, a + 2, n, f)
  BY <1>6, <1>7, <1>11, <1>12, <1>13, <1>14, <1>15 DEF Moved
<1>17. n[a + 1] = s[a + 1]
  BY <1>8, <1>14
<1> QED BY <1>16, <1>17 DEF n, p, q, r, o, x, f

\* The third case: the name comes before the other one and moves down; or it is the other one
\* and stays.
LEMMA PutMovesDown ==
  ASSUME NEW s, Distinct(s), NEW a \in 0..Len(s) - 1, NEW h \in 0..a
  PROVE  LET x   == s[h + 1]
             new == Slice(s, 0, h) \o Slice(s, h + 1, a + 1) \o <<x>> \o Slice(s, a + 1, Len(s))
             f   == [i \in 1..Len(s) |-> IF i <= h THEN i ELSE IF i <= a THEN i + 1 ELSE i]
         IN  Moved(s, x, a + 1, new, f) /\ (h < a => new[a] = s[a + 1])
<1> DEFINE x == s[h + 1]
           o == <<x>>
           p == Slice(s, 0, h)
           q == Slice(s, h + 1, a + 1)
           r == Slice(s, a + 1, Len(s))
           n == p \o q \o o \o r
           f == [i \in 1..Len(s) |-> IF i <= h THEN i ELSE IF i <= a THEN i + 1 ELSE i]
<1>1. Len(s) \in Nat /\ IsList(s)
  BY ListLen DEF Distinct
<1>2. SliceOf(s, 0, h, p) /\ SliceOf(s, h + 1, a + 1, q) /\ SliceOf(s, a + 1, Len(s), r)
  <2>1. /\ 0 \in 0..Len(s) /\ h \in 0..Len(s) /\ h + 1 \in 0..Len(s) /\ a + 1 \in h + 1..Len(s)
        /\ a + 1 \in 0..Len(s) /\ Len(s) \in a + 1..Len(s)
    BY <1>1
  <2> QED BY <1>1, <2>1, SliceIs, Zenon
<1>3. IsList(o) /\ Len(o) = 1 /\ o[1] = x
  BY ListOne
<1> HIDE DEF x, o, p, q, r
<1>4. /\ IsList(p) /\ Len(p) = h /\ IsList(q) /\ Len(q) = a - h
      /\ IsList(r) /\ Len(r) = Len(s) - (a + 1)
  BY <1>1, <1>2 DEF SliceOf
<1>5. Joined4(p, q, o, r, n)
  BY <1>3, <1>4, ListFour, Zenon
<1> HIDE DEF n
<1>6. IsList(n) /\ Len(n) = Len(s)
  BY <1>1, <1>3, <1>4, <1>5 DEF Joined4
<1>7. n[a + 1] = x
  <2>1. 1 \in 1..Len(o) /\ Len(p) + Len(q) + 1 = a + 1
    BY <1>1, <1>3, <1>4
  <2> QED BY <1>3, <1>5, <2>1 DEF Joined4
<1>8. ASSUME NEW i \in 1..h PROVE n[i] = s[i]
  <2>1. i \in 1..Len(p) /\ i \in 0 + 1..h /\ i - 0 = i
    BY <1>1, <1>4
  <2> QED BY <1>2, <1>5, <2>1 DEF Joined4, SliceOf
<1>9. ASSUME NEW i \in h + 1..a PROVE n[i] = s[i + 1]
  <2> DEFINE j == i - h
  <2>1. j \in 1..Len(q) /\ Len(p) + j = i /\ i + 1 \in h + 1 + 1..a + 1 /\ i + 1 - (h + 1) = j
    BY <1>1, <1>4
  <2> HIDE DEF j
  <2>2. n[Len(p) + j] = q[j]
    BY <1>5, <2>1 DEF Joined4
  <2>3. q[i + 1 - (h + 1)] = s[i + 1]
    BY <1>2, <2>1 DEF SliceOf
  <2> QED BY <2>1, <2>2, <2>3
<1>10. ASSUME NEW i \in a + 2..Len(s) PROVE n[i] = s[i]
  <2> DEFINE j == i - (a + 1)
  <2>1. j \in 1..Len(r) /\ Len(p) + Len(q) + Len(o) + j = i /\ i \in a + 1 + 1..Len(s)
    BY <1>1, <1>3, <1>4
  <2>2. r[j] = s[i]
    BY <1>2, <2>1 DEF SliceOf
  <2> HIDE DEF j
  <2>3. n[Len(p) + Len(q) + Len(o) + j] = r[j]
    BY <1>5, <2>1 DEF Joined4
  <2> QED BY <2>1, <2>2, <2>3
<1>11. ASSUME NEW i \in 1..Len(n) \ {a + 1}
       PROVE  f[i] \in 1..Len(s) \ {h + 1} /\ n[i] = s[f[i]]
  <2>1. CASE i <= h
    BY <1>1, <1>6, <1>8, <2>1
  <2>2. CASE i > h /\ i <= a
    BY <1>1, <1>6, <1>9, <2>2
  <2>3. CASE i > a + 1
    BY <1>1, <1>6, <1>10, <2>3
  <2>4. i <= h \/ (i > h /\ i <= a) \/ i > a + 1
    BY <1>1, <1>6
  <2> QED BY <2>1, <2>2, <2>3, <2>4, Zenon
<1>12. \A i, j \in 1..Len(n) \ {a + 1} : i < j => f[i] < f[j]
  BY <1>1, <1>6
<1>13. ASSUME NEW j \in 1..Len(s), j # h + 1 PROVE \E i \in 1..Len(n) \ {a + 1} : f[i] = j
  <2>1. CASE j <= h
    BY <1>1, <1>6, <2>1
  <2>2. CASE j > h + 1 /\ j <= a + 1
    <3>1. j - 1 \in 1..Len(n) \ {a + 1} /\ f[j - 1] = j
      BY <1>1, <1>6, <2>2
    <3> QED BY <3>1
  <2>3. CASE j > a + 1
    <3>1. j \in 1..Len(n) \ {a + 1} /\ f[j] = j
      BY <1>1, <1>6, <2>3
    <3> QED BY <3>1
  <2>4. j <= h \/ (j > h + 1 /\ j <= a + 1) \/ j > a + 1
    BY <1>1, <1>13
  <2> QED BY <2>1, <2>2, <2>3, <2>4, Zenon
<1>14. a + 1 \in 1..Len(n) /\ h + 1 \in 1..Len(s)
  BY <1>1, <1>6
<1>15. \A j \in 1..Len(s) : s[j] = x <=> j = h + 1
  BY <1>14 DEF Distinct, x
<1> HIDE DEF f
<1>16. Moved(s, x, a + 1, n, f)
  BY <1>6, <1>7, <1>11, <1>12, <1>13, <1>14, <1>15 DEF Moved
<1>17. ASSUME h < a PROVE n[a] = s[a + 1]
  <2>1. a \in h + 1..a
    BY <1>1, <1>17
  <2> QED BY <1>9, <2>1
<1> QED BY <1>16, <1>17 DEF n, p, q, r, o, x, f

\* Headers that are ordered (OrderIsDomain), with what the proof needs: there is at least one
\* header of every name in the map.
Ordered(hs) ==
  /\ DOMAIN hs = {"headers", "headerOrder"}
  /\ Distinct(hs.headerOrder) /\ NamesIn(hs.headerOrder) = DOMAIN hs.headers
  /\ \A n \in DOMAIN hs.headers : IsList(hs.headers[n]) /\ hs.headers[n] # <<>>

\* Ordered headers have the property that HeadersAreOrdered asks for.
LEMMA OrderedIsDomain == ASSUME NEW hs, Ordered(hs) PROVE OrderIsDomain(hs)
BY DEF Ordered, OrderIsDomain, Distinct

\* A name after all others.
LEMMA AppendName ==
  ASSUME NEW s, NEW x, Distinct(s), x \notin NamesIn(s)
  PROVE  Distinct(Append(s, x)) /\ NamesIn(Append(s, x)) = NamesIn(s) \cup {x}
<1> DEFINE n == Append(s, x)
           S == NamesIn(s) \cup {x}
<1>1. IsList(s) /\ Len(s) \in Nat
  BY ListLen DEF Distinct
<1>2. s \in Seq(S)
  BY <1>1, ListIn
<1> HIDE DEF S
<1>3. x \in S
  BY DEF S
<1>4. /\ n \in Seq(S) /\ Len(n) = Len(s) + 1 /\ n[Len(s) + 1] = x
      /\ \A i \in 1..Len(s) : n[i] = s[i]
  BY <1>2, <1>3
<1>5. IsList(n)
  BY <1>4, SeqIsList
<1> HIDE DEF n
<1>6. \A i, j \in 1..Len(n) : n[i] = n[j] => i = j
  BY <1>1, <1>4 DEF Distinct, NamesIn
<1>7. NamesIn(n) = NamesIn(s) \cup {x}
  <2>1. Len(s) + 1 \in 1..Len(n) /\ \A i \in 1..Len(s) : i \in 1..Len(n)
    BY <1>1, <1>4
  <2>2. \A i \in 1..Len(n) : i \in 1..Len(s) \/ i = Len(s) + 1
    BY <1>1, <1>4
  <2> QED BY <1>4, <2>1, <2>2 DEF NamesIn
<1> QED BY <1>5, <1>6, <1>7 DEF Distinct, n

\* Two lists that have nothing in common, one after the other.
LEMMA JoinDistinct ==
  ASSUME NEW s, NEW t, Distinct(s), Distinct(t), NamesIn(s) \cap NamesIn(t) = {}
  PROVE  Distinct(s \o t) /\ NamesIn(s \o t) = NamesIn(s) \cup NamesIn(t)
<1> DEFINE w == s \o t
<1>1. IsList(s) /\ Len(s) \in Nat /\ IsList(t) /\ Len(t) \in Nat
  BY ListLen DEF Distinct
<1>2. Joined(s, t, w)
  BY <1>1, ListConcat, Zenon
<1> HIDE DEF w
<1>3. IsList(w) /\ Len(w) = Len(s) + Len(t) /\ \A i \in 1..Len(s) : w[i] = s[i]
  BY <1>2 DEF Joined
<1>4. ASSUME NEW i \in 1..Len(w), ~(i <= Len(s))
      PROVE  i - Len(s) \in 1..Len(t) /\ w[i] = t[i - Len(s)]
  <2>1. i - Len(s) \in 1..Len(t) /\ Len(s) + (i - Len(s)) = i
    BY <1>1, <1>3, <1>4
  <2> QED BY <1>2, <2>1 DEF Joined
<1>5. ASSUME NEW i \in 1..Len(w), NEW j \in 1..Len(w), w[i] = w[j] PROVE i = j
  <2>1. CASE i <= Len(s) /\ j <= Len(s)
    BY <1>1, <1>3, <1>5, <2>1 DEF Distinct
  <2>2. CASE ~(i <= Len(s)) /\ ~(j <= Len(s))
    <3>1. i - Len(s) = j - Len(s)
      BY <1>4, <1>5, <2>2 DEF Distinct
    <3> QED BY <1>1, <1>3, <3>1
  <2>3. CASE i <= Len(s) /\ ~(j <= Len(s))
    BY <1>1, <1>3, <1>4, <1>5, <2>3 DEF NamesIn
  <2>4. CASE ~(i <= Len(s)) /\ j <= Len(s)
    BY <1>1, <1>3, <1>4, <1>5, <2>4 DEF NamesIn
  <2> QED BY <2>1, <2>2, <2>3, <2>4
<1>6. NamesIn(w) = NamesIn(s) \cup NamesIn(t)
  <2>1. ASSUME NEW i \in 1..Len(s) PROVE s[i] \in NamesIn(w)
    BY <1>1, <1>3 DEF NamesIn
  <2>2. ASSUME NEW i \in 1..Len(t) PROVE t[i] \in NamesIn(w)
    <3>1. Len(s) + i \in 1..Len(w) /\ w[Len(s) + i] = t[i]
      BY <1>1, <1>2, <1>3 DEF Joined
    <3> QED BY <3>1 DEF NamesIn
  <2>3. ASSUME NEW i \in 1..Len(w) PROVE w[i] \in NamesIn(s) \cup NamesIn(t)
    <3>1. CASE i <= Len(s)
      BY <1>1, <1>3, <3>1 DEF NamesIn
    <3>2. CASE ~(i <= Len(s))
      BY <1>4, <3>2 DEF NamesIn
    <3> QED BY <3>1, <3>2
  <2> QED BY <2>1, <2>2, <2>3 DEF NamesIn
<1> QED BY <1>3, <1>5, <1>6 DEF Distinct, w

\* A name before all others.
LEMMA PrependName ==
  ASSUME NEW s, NEW x, Distinct(s), x \notin NamesIn(s)
  PROVE  Distinct(<<x>> \o s) /\ NamesIn(<<x>> \o s) = NamesIn(s) \cup {x}
<1> DEFINE o == <<x>>
           n == o \o s
<1>1. IsList(s) /\ Len(s) \in Nat
  BY ListLen DEF Distinct
<1>2. IsList(o) /\ Len(o) = 1 /\ o[1] = x
  BY ListOne
<1> HIDE DEF o
<1>3. Joined(o, s, n)
  BY <1>1, <1>2, ListConcat, Zenon
<1> HIDE DEF n
<1>4. IsList(n) /\ Len(n) = Len(s) + 1 /\ n[1] = x /\ \A i \in 1..Len(s) : n[1 + i] = s[i]
  BY <1>1, <1>2, <1>3 DEF Joined
<1>5. \A i \in 1..Len(n) : i # 1 => i - 1 \in 1..Len(s) /\ n[i] = s[i - 1]
  <2> SUFFICES ASSUME NEW i \in 1..Len(n), i # 1 PROVE i - 1 \in 1..Len(s) /\ n[i] = s[i - 1]
    OBVIOUS
  <2>1. i - 1 \in 1..Len(s) /\ 1 + (i - 1) = i
    BY <1>1, <1>4
  <2> QED BY <1>4, <2>1
<1>6. \A i, j \in 1..Len(n) : n[i] = n[j] => i = j
  BY <1>1, <1>4, <1>5 DEF Distinct, NamesIn
<1>7. NamesIn(n) = NamesIn(s) \cup {x}
  <2>1. 1 \in 1..Len(n) /\ \A i \in 1..Len(s) : 1 + i \in 1..Len(n)
    BY <1>1, <1>4
  <2> QED BY <1>4, <1>5, <2>1 DEF NamesIn
<1> QED BY <1>4, <1>6, <1>7 DEF Distinct, n, o

\* The headers of a name, of which there may be none.
LEMMA GetList == ASSUME NEW hs, NEW name, Ordered(hs) PROVE IsList(GetHeaders(hs, name))
<1>1. <<>> \in Seq({})
  OBVIOUS
<1>2. IsList(<<>>)
  BY <1>1, SeqIsList
<1> QED BY <1>2 DEF Ordered, GetHeaders, Has

\* A store with more headers of one name.
Adds(hs, name, new) ==
  /\ Ordered(new) /\ DOMAIN new.headers = DOMAIN hs.headers \cup {name}
  /\ \A n \in DOMAIN hs.headers : Len(hs.headers[n]) <= Len(new.headers[n])
  /\ \A n \in DOMAIN hs.headers : n # name => new.headers[n] = hs.headers[n]

\* Putting a list that is not shorter under a name, and the name into the order, adds.
LEMMA WithAdds ==
  ASSUME NEW hs, Ordered(hs), NEW name, NEW list, IsList(list), list # <<>>,
         Has(hs, name) => Len(hs.headers[name]) <= Len(list),
         NEW order, Distinct(order), NamesIn(order) = NamesIn(hs.headerOrder) \cup {name}
  PROVE  Adds(hs, name, [headers |-> With(hs.headers, name, list), headerOrder |-> order])
<1> DEFINE f == With(hs.headers, name, list)
           new == [headers |-> f, headerOrder |-> order]
<1>1. /\ DOMAIN f = DOMAIN hs.headers \cup {name} /\ f[name] = list
      /\ \A n \in DOMAIN hs.headers : n # name => f[n] = hs.headers[n]
  BY DEF With
<1>2. new.headers = f /\ new.headerOrder = order /\ DOMAIN new = {"headers", "headerOrder"}
  OBVIOUS
<1> HIDE DEF f, new
<1>3. \A n \in DOMAIN f : IsList(f[n]) /\ f[n] # <<>>
  BY <1>1 DEF Ordered
<1>4. Ordered(new)
  BY <1>1, <1>2, <1>3 DEF Ordered
<1>5. \A n \in DOMAIN hs.headers : Len(hs.headers[n]) <= Len(f[n])
  <2> SUFFICES ASSUME NEW n \in DOMAIN hs.headers PROVE Len(hs.headers[n]) <= Len(f[n])
    OBVIOUS
  <2>1. CASE n = name
    BY <1>1, <2>1 DEF Has
  <2>2. CASE n # name
    <3>1. Len(hs.headers[n]) \in Nat
      BY ListLen DEF Ordered
    <3>2. f[n] = hs.headers[n]
      BY <1>1, <2>2
    <3> QED BY <3>1, <3>2
  <2> QED BY <2>1, <2>2
<1>6. Adds(hs, name, new)
  BY <1>1, <1>2, <1>4, <1>5 DEF Adds
<1> QED BY <1>6 DEF new, f

\* The lengths of two lists of headers, one after the other.
LEMMA JoinLonger ==
  ASSUME NEW s, NEW t, IsList(s), IsList(t)
  PROVE  /\ IsList(s \o t) /\ Len(s) <= Len(s \o t) /\ Len(t) <= Len(s \o t)
         /\ s # <<>> \/ t # <<>> => s \o t # <<>>
<1> DEFINE w == s \o t
<1>1. Joined(s, t, w)
  BY ListConcat
<1> HIDE DEF w
<1>2. IsList(w) /\ Len(w) = Len(s) + Len(t)
  BY <1>1 DEF Joined
<1>3. Len(s) \in Nat /\ Len(t) \in Nat
  BY ListLen
<1>4. ASSUME NEW z, IsList(z), z # <<>> PROVE Len(z) # 0
  <2>1. z \in Seq(NamesIn(z))
    BY <1>4, ListLen
  <2> QED BY <1>4, <2>1
<1>5. (s # <<>> => Len(s) # 0) /\ (t # <<>> => Len(t) # 0)
  BY <1>4
<1>6. Len(w) # 0 => w # <<>>
  OBVIOUS
<1> QED BY <1>2, <1>3, <1>5, <1>6 DEF w

\* AppendHeader, of any number of headers of the name,
LEMMA AppendAdds ==
  ASSUME NEW hs, Ordered(hs), NEW name, NEW list, IsList(list), list # <<>>
  PROVE  Adds(hs, name, AppendHeaders(hs, name, list))
<1> DEFINE old == GetHeaders(hs, name)
           l == old \o list
           order == IF Has(hs, name) THEN hs.headerOrder ELSE Append(hs.headerOrder, name)
<1>1. IsList(old)
  BY GetList
<1>2. IsList(l) /\ Len(old) <= Len(l) /\ l # <<>>
  BY <1>1, JoinLonger
<1>3. Has(hs, name) => old = hs.headers[name]
  BY DEF GetHeaders
<1>4. Distinct(order) /\ NamesIn(order) = NamesIn(hs.headerOrder) \cup {name}
  BY AppendName DEF Ordered, Has
<1> HIDE DEF l, old, order
<1>5. Has(hs, name) => Len(hs.headers[name]) <= Len(l)
  BY <1>2, <1>3
<1>6. Adds(hs, name, [headers |-> With(hs.headers, name, l), headerOrder |-> order])
  BY <1>2, <1>4, <1>5, WithAdds, Zenon
<1> QED BY <1>6, Zenon DEF AppendHeaders, l, old, order

\* AppendHeaders (the appends of CopyHeaders) leaves the headers ordered, for no header too.
LEMMA AppendKeeps ==
  ASSUME NEW hs, Ordered(hs), NEW name, NEW list, IsList(list)
  PROVE  Ordered(AppendHeaders(hs, name, list))
<1>1. CASE list = <<>>
  BY <1>1 DEF AppendHeaders
<1>2. CASE list # <<>>
  BY <1>2, AppendAdds, Zenon DEF Adds
<1> QED BY <1>1, <1>2

\* and of one,
LEMMA AppendOne ==
  ASSUME NEW hs, Ordered(hs), NEW name, NEW v
  PROVE  Adds(hs, name, AppendHeader(hs, Header(name, v)))
<1> DEFINE h == Header(name, v)
           l == <<h>>
<1>1. h.name = name
  BY DEF Header
<1> HIDE DEF h
<1>2. IsList(l) /\ l # <<>>
  BY ListOne
<1> HIDE DEF l
<1>3. Adds(hs, name, AppendHeaders(hs, name, l))
  BY <1>2, AppendAdds, Zenon
<1> QED BY <1>1, <1>3, Zenon DEF AppendHeader, l, h

\* and PrependHeader.
LEMMA PrependOne ==
  ASSUME NEW hs, Ordered(hs), NEW name, NEW v
  PROVE  Adds(hs, name, PrependHeader(hs, Header(name, v)))
<1> DEFINE h == Header(name, v)
           old == GetHeaders(hs, name)
           o == <<h>>
           l == o \o old
           order == IF Has(hs, name) THEN hs.headerOrder ELSE <<name>> \o hs.headerOrder
<1>1. h.name = name
  BY DEF Header
<1>2. IsList(old) /\ (Has(hs, name) => old = hs.headers[name])
  BY GetList DEF GetHeaders
<1> HIDE DEF h, old
<1>3. IsList(o) /\ o # <<>>
  BY ListOne
<1> HIDE DEF o
<1>4. IsList(l) /\ Len(old) <= Len(l) /\ l # <<>>
  BY <1>2, <1>3, JoinLonger
<1>5. Distinct(order) /\ NamesIn(order) = NamesIn(hs.headerOrder) \cup {name}
  BY PrependName DEF Ordered, Has
<1> HIDE DEF l, order
<1>6. Has(hs, name) => Len(hs.headers[name]) <= Len(l)
  BY <1>2, <1>4
<1>7. Adds(hs, name, [headers |-> With(hs.headers, name, l), headerOrder |-> order])
  BY <1>4, <1>5, <1>6, WithAdds, Zenon
<1> QED BY <1>1, <1>7, Zenon DEF PrependHeader, l, o, old, order, h

\* So does PrependHeaderAfter, if there is the other name: it moves the name right after it.
MovedAfter(s, name, after, new) ==
  \E f, k : /\ Moved(s, name, k, new, f)
            /\ name # after => k - 1 \in 1..Len(new)
            /\ name # after => new[k - 1] = after

\* PrependHeaderAfter adds one header and moves its name right after the other name.
LEMMA PrependAfterMoves ==
  ASSUME NEW hs, Ordered(hs), NEW name, NEW v, NEW after, Has(hs, after)
  PROVE  LET new == PrependHeaderAfter(hs, Header(name, v), after)
         IN  Adds(hs, name, new) /\ MovedAfter(hs.headerOrder, name, after, new.headerOrder)
<1> DEFINE hd == Header(name, v)
           s == hs.headerOrder
           a == Idx(s, after)
           h == Idx(s, name)
           n1 == Slice(s, 0, a + 1) \o <<name>> \o Slice(s, a + 1, Len(s))
           n2 == Slice(s, 0, a + 1) \o <<name>> \o Slice(s, a + 1, h) \o Slice(s, h + 1, Len(s))
           n3 == Slice(s, 0, h) \o Slice(s, h + 1, a + 1) \o <<name>> \o Slice(s, a + 1, Len(s))
           n == IF h = -1 THEN n1 ELSE IF a < h THEN n2 ELSE n3
           l == <<hd>> \o GetHeaders(hs, name)
           IsNew(z) == MovedAfter(s, name, after, z)
<1>1. Distinct(s) /\ IsList(s) /\ Len(s) \in Nat /\ NamesIn(s) = DOMAIN hs.headers
  BY ListLen DEF Ordered, Distinct
<1>2. hd.name = name
  BY DEF Header
<1> HIDE DEF hd, s
<1>3. PrependHeaderAfter(hs, hd, after)
        = [headers |-> With(hs.headers, name, l), headerOrder |-> n]
  BY <1>2, Zenon DEF PrependHeaderAfter, s
<1>4. a \in 0..Len(s) - 1 /\ after = s[a + 1]
  <2>1. PICK i \in 1..Len(s) : s[i] = after
    BY <1>1 DEF Has, NamesIn
  <2>2. a = i - 1
    BY <1>1, <2>1, IdxOf, Zenon
  <2> HIDE DEF a
  <2> QED BY <1>1, <2>1, <2>2
<1>5. \/ h = -1 /\ name \notin NamesIn(s)
      \/ h \in 0..Len(s) - 1 /\ name = s[h + 1]
  <2>1. CASE name \in NamesIn(s)
    <3>1. PICK i \in 1..Len(s) : s[i] = name
      BY <2>1 DEF NamesIn
    <3>2. h = i - 1
      BY <1>1, <3>1, IdxOf, Zenon
    <3> HIDE DEF h
    <3> QED BY <1>1, <3>1, <3>2
  <2>2. CASE name \notin NamesIn(s)
    BY <2>2, IdxNone
  <2> QED BY <2>1, <2>2
<1> HIDE DEF a, h
<1>6. ASSUME h = -1, name \notin NamesIn(s) PROVE IsNew(n)
  <2> DEFINE f == [i \in 1..Len(s) + 1 |-> IF i <= a + 1 THEN i ELSE i - 1]
  <2>1. Moved(s, name, a + 2, n1, f) /\ n1[a + 1] = s[a + 1]
    BY <1>1, <1>4, <1>6, PutNewName
  <2> HIDE DEF n1, f
  <2>2. a + 2 - 1 = a + 1 /\ a + 1 \in 1..Len(n1)
    <3>1. a + 2 \in 1..Len(n1) /\ Len(n1) \in Nat
      BY <2>1, ListLen DEF Moved
    <3> QED BY <1>1, <1>4, <3>1
  <2>3. IsNew(n1)
    BY <1>4, <2>1, <2>2 DEF MovedAfter
  <2>4. n = n1
    BY <1>6
  <2> QED BY <2>3, <2>4
<1>7. ASSUME h \in 0..Len(s) - 1, name = s[h + 1], a < h PROVE IsNew(n)
  <2> DEFINE f == [i \in 1..Len(s) |-> IF i <= a + 1 THEN i ELSE IF i <= h + 1 THEN i - 1 ELSE i]
  <2>1. a \in 0..h - 1
    BY <1>1, <1>4, <1>7
  <2>2. Moved(s, name, a + 2, n2, f) /\ n2[a + 1] = s[a + 1]
    BY <1>1, <1>7, <2>1, PutMovesUp
  <2> HIDE DEF n2, f
  <2>3. a + 2 - 1 = a + 1 /\ a + 1 \in 1..Len(n2)
    <3>1. a + 2 \in 1..Len(n2) /\ Len(n2) \in Nat
      BY <2>2, ListLen DEF Moved
    <3> QED BY <1>1, <1>4, <3>1
  <2>4. IsNew(n2)
    BY <1>4, <2>2, <2>3 DEF MovedAfter
  <2>5. h # -1
    BY <1>1, <1>7
  <2>6. n = n2
    BY <1>7, <2>5
  <2> QED BY <2>4, <2>6
<1>8. ASSUME h \in 0..Len(s) - 1, name = s[h + 1], ~(a < h) PROVE IsNew(n)
  <2> DEFINE f == [i \in 1..Len(s) |-> IF i <= h THEN i ELSE IF i <= a THEN i + 1 ELSE i]
  <2>1. h \in 0..a
    BY <1>1, <1>4, <1>8
  <2>2. Moved(s, name, a + 1, n3, f) /\ (h < a => n3[a] = s[a + 1])
    BY <1>1, <1>4, <1>8, <2>1, PutMovesDown
  <2> HIDE DEF n3, f
  <2>3. name # after => h < a
    <3>1. name # after => h # a
      BY <1>4, <1>8
    <3> QED BY <1>1, <1>4, <1>8, <2>1, <3>1
  <2>4. a + 1 - 1 = a /\ (h < a => a \in 1..Len(n3))
    <3>1. a + 1 \in 1..Len(n3) /\ Len(n3) \in Nat
      BY <2>2, ListLen DEF Moved
    <3> QED BY <1>1, <1>4, <1>8, <3>1
  <2>5. IsNew(n3)
    BY <1>4, <2>2, <2>3, <2>4 DEF MovedAfter
  <2>6. h # -1
    BY <1>1, <1>8
  <2>7. n = n3
    BY <1>8, <2>6
  <2> QED BY <2>5, <2>7
<1>9. IsNew(n)
  BY <1>5, <1>6, <1>7, <1>8, Zenon
<1> HIDE DEF n
<1>10. Distinct(n) /\ NamesIn(n) = NamesIn(s) \cup {name}
  BY <1>1, <1>9, MovedDistinct DEF MovedAfter
<1>11. IsList(l) /\ l # <<>> /\ (Has(hs, name) => Len(hs.headers[name]) <= Len(l))
  <2> DEFINE o == <<hd>>
             g == GetHeaders(hs, name)
  <2>1. IsList(o) /\ o # <<>>
    BY ListOne
  <2>2. IsList(g) /\ (Has(hs, name) => g = hs.headers[name])
    BY GetList DEF GetHeaders
  <2> HIDE DEF o, g
  <2>3. IsList(o \o g) /\ Len(g) <= Len(o \o g) /\ o \o g # <<>>
    BY <2>1, <2>2, JoinLonger
  <2>4. l = o \o g
    BY DEF o, g
  <2> QED BY <2>2, <2>3, <2>4
<1> HIDE DEF l
<1> DEFINE new == [headers |-> With(hs.headers, name, l), headerOrder |-> n]
<1>12. Adds(hs, name, new)
  BY <1>10, <1>11, WithAdds, Zenon DEF s
<1>13. new.headerOrder = n
  OBVIOUS
<1> HIDE DEF new
<1>14. new = PrependHeaderAfter(hs, hd, after)
  BY <1>3 DEF new
<1> QED BY <1>9, <1>12, <1>13, <1>14, Zenon DEF s, hd

\* PrependHeaderAfter adds one header whether or not the other name is there.
LEMMA PrependAfterOne ==
  ASSUME NEW hs, Ordered(hs), NEW name, NEW v, NEW after
  PROVE  Adds(hs, name, PrependHeaderAfter(hs, Header(name, v), after))
<1>1. CASE Has(hs, after)
  BY <1>1, PrependAfterMoves, Zenon
<1>2. CASE ~Has(hs, after)
  <2>1. PrependHeaderAfter(hs, Header(name, v), after) = PrependHeader(hs, Header(name, v))
    BY <1>2, Zenon DEF PrependHeaderAfter
  <2>2. Adds(hs, name, PrependHeader(hs, Header(name, v)))
    BY PrependOne, Zenon
  <2> QED BY <2>1, <2>2, Zenon
<1> QED BY <1>1, <1>2

\* PrependHeaderAfter puts the name right after the other one.
LEMMA PutsAfter ==
  ASSUME NEW hs, Ordered(hs), NEW name, NEW after, Has(hs, after), name # after
  PROVE  PutsRightAfter(hs, name, after)
<1> DEFINE s == hs.headerOrder
           new == PrependHeaderAfter(hs, Header(name, 0), after)
           n == new.headerOrder
<1>1. /\ Adds(hs, name, new)
      /\ MovedAfter(s, name, after, n)
  BY PrependAfterMoves, Zenon
<1>2. Distinct(s)
  BY DEF Ordered
<1> HIDE DEF s, new
<1>3. PICK f, k : Moved(s, name, k, n, f) /\ k - 1 \in 1..Len(n) /\ n[k - 1] = after
  BY <1>1 DEF MovedAfter
<1>4. OrderIsDomain(new)
  BY <1>1, OrderedIsDomain DEF Adds
<1>5. Distinct(n) /\ Len(n) \in Nat
  <2> HIDE DEF n
  <2>1. Distinct(n)
    BY <1>2, <1>3, MovedDistinct, Zenon
  <2> QED BY <2>1, ListLen DEF Distinct
<1>6. k \in 1..Len(n) /\ n[k] = name
  BY <1>3 DEF Moved
<1> HIDE DEF n
<1>7. Idx(n, name) = Idx(n, after) + 1
  <2>1. Idx(n, n[k]) = k - 1
    BY <1>5, <1>6, IdxOf, Zenon
  <2>2. Idx(n, n[k - 1]) = k - 1 - 1
    BY <1>3, <1>5, IdxOf, Zenon
  <2> QED BY <1>3, <1>5, <1>6, <2>1, <2>2
<1>8. \A i, j \in 1..Len(s) : i < j /\ s[i] # name /\ s[j] # name => Idx(n, s[i]) < Idx(n, s[j])
  BY <1>2, <1>3, MovedOrder, Zenon
<1> DEFINE place == [i \in 1..Len(s) |-> Idx(n, s[i])]
<1>9. \A i, j \in 1..Len(s) : i < j /\ s[i] # name /\ s[j] # name => place[i] < place[j]
  BY <1>8
<1> HIDE DEF place
<1> QED BY <1>4, <1>7, <1>9, Zenon DEF PutsRightAfter, place, n, new, s

\* RemoveHeader takes the name out of the order.
LEMMA RemoveKeeps == ASSUME NEW hs, Ordered(hs), NEW name PROVE Ordered(RemoveHeader(hs, name))
<1> DEFINE s == hs.headerOrder
           is == {i \in 1..Len(s) : s[i] = name}
           idx == (CHOOSE i \in is : \A j \in is : i <= j) - 1
           n == IF is = {} THEN s ELSE Slice(s, 0, idx) \o Slice(s, idx + 1, Len(s))
           g == [m \in DOMAIN hs.headers \ {name} |-> hs.headers[m]]
           new == [headers |-> g, headerOrder |-> n]
<1>1. Distinct(s) /\ IsList(s) /\ Len(s) \in Nat /\ NamesIn(s) = DOMAIN hs.headers
  BY ListLen DEF Ordered, Distinct
<1> HIDE DEF s
<1>2. Distinct(n) /\ NamesIn(n) = NamesIn(s) \ {name}
  <2>1. CASE is = {}
    BY <1>1, <2>1 DEF NamesIn
  <2>2. CASE is # {}
    <3>1. PICK h \in 1..Len(s) : s[h] = name
      BY <2>2
    <3>2. is = {h}
      BY <1>1, <3>1 DEF Distinct
    <3>3. idx = h - 1
      BY <1>1, <3>1, <3>2
    <3> HIDE DEF is, idx
    <3> DEFINE p == Slice(s, 0, idx)
               q == Slice(s, idx + 1, Len(s))
               w == p \o q
    <3>4. n = w
      BY <2>2
    <3>5. SliceOf(s, 0, idx, p) /\ SliceOf(s, idx + 1, Len(s), q)
      <4>1. /\ 0 \in 0..Len(s) /\ idx \in 0..Len(s)
            /\ idx + 1 \in 0..Len(s) /\ Len(s) \in idx + 1..Len(s)
        BY <1>1, <3>1, <3>3
      <4> QED BY <1>1, <4>1, SliceIs, Zenon
    <3> HIDE DEF p, q
    <3>6. /\ IsList(p) /\ Len(p) = h - 1 /\ IsList(q) /\ Len(q) = Len(s) - h
          /\ \A i \in 1..h - 1 : p[i] = s[i]
          /\ \A i \in h + 1..Len(s) : q[i - h] = s[i]
      BY <1>1, <3>1, <3>3, <3>5 DEF SliceOf
    <3>7. Joined(p, q, w)
      BY <3>6, ListConcat, Zenon
    <3> HIDE DEF w, n
    <3>8. IsList(w) /\ Len(w) = Len(s) - 1 /\ \A i \in 1..h - 1 : w[i] = s[i]
      BY <1>1, <3>1, <3>6, <3>7 DEF Joined
    <3>9. ASSUME NEW i \in h..Len(s) - 1 PROVE w[i] = s[i + 1]
      <4>1. i - (h - 1) \in 1..Len(q) /\ Len(p) + (i - (h - 1)) = i
        BY <1>1, <3>1, <3>6
      <4>2. w[i] = q[i - (h - 1)]
        BY <3>7, <4>1 DEF Joined
      <4>3. i + 1 \in h + 1..Len(s) /\ i + 1 - h = i - (h - 1)
        BY <1>1, <3>1
      <4> QED BY <3>6, <4>2, <4>3
    <3>10. \A i \in 1..Len(w) : i <= h - 1 \/ i \in h..Len(s) - 1
      BY <1>1, <3>1, <3>8
    <3>11. ASSUME NEW i \in 1..Len(w), NEW j \in 1..Len(w), w[i] = w[j] PROVE i = j
      <4> DEFINE f(k) == IF k <= h - 1 THEN k ELSE k + 1
      <4>1. ASSUME NEW k \in 1..Len(w) PROVE f(k) \in 1..Len(s) /\ w[k] = s[f(k)]
        <5>1. CASE k <= h - 1
          BY <1>1, <3>1, <3>8, <5>1
        <5>2. CASE ~(k <= h - 1)
          BY <1>1, <3>1, <3>8, <3>9, <3>10, <5>2
        <5> QED BY <5>1, <5>2
      <4>2. f(i) = f(j)
        <5> HIDE DEF f
        <5>1. f(i) \in 1..Len(s) /\ f(j) \in 1..Len(s) /\ s[f(i)] = s[f(j)]
          BY <3>11, <4>1
        <5> QED BY <1>1, <5>1 DEF Distinct
      <4> QED BY <1>1, <3>1, <3>8, <4>2
    <3>12. NamesIn(w) = NamesIn(s) \ {name}
      <4>1. ASSUME NEW i \in 1..Len(w) PROVE w[i] \in NamesIn(s) \ {name}
        <5>1. CASE i <= h - 1
          <6>1. i \in 1..Len(s) /\ i # h /\ w[i] = s[i]
            BY <1>1, <3>1, <3>8, <5>1
          <6> QED BY <1>1, <3>1, <6>1 DEF Distinct, NamesIn
        <5>2. CASE i \in h..Len(s) - 1
          <6>1. i + 1 \in 1..Len(s) /\ i + 1 # h /\ w[i] = s[i + 1]
            BY <1>1, <3>1, <3>9, <5>2
          <6> QED BY <1>1, <3>1, <6>1 DEF Distinct, NamesIn
        <5> QED BY <3>10, <5>1, <5>2
      <4>2. ASSUME NEW i \in 1..Len(s), s[i] # name PROVE s[i] \in NamesIn(w)
        <5>1. CASE i <= h - 1
          <6>1. i \in 1..Len(w) /\ w[i] = s[i]
            BY <1>1, <3>1, <3>8, <5>1
          <6> QED BY <6>1 DEF NamesIn
        <5>2. CASE i > h
          <6>1. i - 1 \in 1..Len(w) /\ i - 1 \in h..Len(s) - 1 /\ i - 1 + 1 = i
            BY <1>1, <3>1, <3>8, <5>2
          <6>2. w[i - 1] = s[i]
            BY <3>9, <6>1
          <6> QED BY <6>1, <6>2 DEF NamesIn
        <5>3. i <= h - 1 \/ i > h
          BY <1>1, <3>1, <4>2
        <5> QED BY <5>1, <5>2, <5>3
      <4> QED BY <4>1, <4>2 DEF NamesIn
    <3> QED BY <3>4, <3>8, <3>11, <3>12 DEF Distinct
  <2> QED BY <2>1, <2>2
<1>3. DOMAIN g = DOMAIN hs.headers \ {name} /\ \A m \in DOMAIN g : g[m] = hs.headers[m]
  OBVIOUS
<1>4. new.headers = g /\ new.headerOrder = n /\ DOMAIN new = {"headers", "headerOrder"}
  OBVIOUS
<1>5. RemoveHeader(hs, name) = new
  BY Zenon DEF RemoveHeader, s
<1> HIDE DEF g, n, new
<1>6. Ordered(new)
  BY <1>1, <1>2, <1>3, <1>4 DEF Ordered
<1> QED BY <1>5, <1>6

\* ReplaceHeaders keeps the names,
LEMMA ReplaceKeeps ==
  ASSUME NEW hs, Ordered(hs), NEW name, NEW list, IsList(list), list # <<>>
  PROVE  Ordered(ReplaceHeaders(hs, name, list))
<1>1. CASE ~Has(hs, name)
  BY <1>1 DEF ReplaceHeaders
<1>2. CASE Has(hs, name)
  <2> DEFINE new == [hs EXCEPT !.headers[name] = list]
             f == [hs.headers EXCEPT ![name] = list]
  <2>1. /\ DOMAIN new = {"headers", "headerOrder"} /\ new.headers = f
        /\ new.headerOrder = hs.headerOrder
    BY DEF Ordered
  <2>2. DOMAIN f = DOMAIN hs.headers /\ \A n \in DOMAIN f : f[n] = list \/ f[n] = hs.headers[n]
    OBVIOUS
  <2>3. ReplaceHeaders(hs, name, list) = new
    BY <1>2 DEF ReplaceHeaders
  <2> HIDE DEF new, f
  <2>4. Ordered(new)
    BY <2>1, <2>2 DEF Ordered
  <2> QED BY <2>3, <2>4
<1> QED BY <1>1, <1>2

\* and so does SetBody, but for Content-Length.
LEMMA LengthKeeps ==
  ASSUME NEW hs, Ordered(hs), NEW n PROVE Ordered(SetContentLength(hs, n))
<1> DEFINE h == Header("content-length", n)
           l == <<h>>
<1>1. IsList(l) /\ l # <<>>
  BY ListOne
<1>2. Adds(hs, "content-length", AppendHeader(hs, h))
  BY AppendOne
<1> HIDE DEF l
<1>3. Ordered(ReplaceHeaders(hs, "content-length", l))
  BY <1>1, ReplaceKeeps, Zenon
<1> QED BY <1>2, <1>3 DEF SetContentLength, Adds, l

\* CopyHeaders appends headers of the name.
LEMMA CopyKeeps ==
  ASSUME NEW name, NEW from, NEW to, Ordered(from), Ordered(to)
  PROVE  Ordered(CopyHeaders(name, from, to))
<1>1. IsList(GetHeaders(from, name))
  BY GetList, Zenon
<1> QED BY <1>1, AppendKeeps, Zenon DEF CopyHeaders

\* The headers of a new message, of names none of which comes twice.
LEMMA NewOrdered == ASSUME NEW s, Distinct(s) PROVE Ordered(newHeaders(s))
<1> DEFINE f == [n \in NamesIn(s) |-> <<Header(n, 0)>>]
           new == [headers |-> f, headerOrder |-> s]
<1>1. DOMAIN new = {"headers", "headerOrder"} /\ new.headers = f /\ new.headerOrder = s
  OBVIOUS
<1>2. ASSUME NEW n \in NamesIn(s) PROVE IsList(f[n]) /\ f[n] # <<>>
  <2>1. f[n] = <<Header(n, 0)>>
    OBVIOUS
  <2> HIDE DEF f
  <2> QED BY <2>1, ListOne
<1>3. DOMAIN f = NamesIn(s)
  OBVIOUS
<1> HIDE DEF f, new
<1>4. Ordered(new)
  BY <1>1, <1>2, <1>3 DEF Ordered
<1> QED BY <1>4 DEF newHeaders, new, f

\* The headers of a message that has none are ordered.
LEMMA NoneOrdered == Ordered(NoHeaders)
<1>1. <<>> \in Seq({}) /\ Len(<<>>) = 0
  OBVIOUS
<1>2. IsList(<<>>)
  BY <1>1, SeqIsList
<1>3. Distinct(<<>>)
  BY <1>1, <1>2 DEF Distinct
<1> QED BY <1>3, NewOrdered DEF NoHeaders

\* A store that has grown by headers other than Route.
Grew(hs, new) ==
  /\ Ordered(new) /\ GetHeaders(new, "route") = GetHeaders(hs, "route")
  /\ \A n \in DOMAIN hs.headers :
       n \in DOMAIN new.headers /\ Len(hs.headers[n]) <= Len(new.headers[n])

\* Adding headers of a name other than Route makes a store grow.
LEMMA AddsGrows ==
  ASSUME NEW hs, NEW name, NEW new, Adds(hs, name, new), name # "route" PROVE Grew(hs, new)
BY DEF Adds, Grew, GetHeaders, Has

\* A store that stays as it is has grown, by nothing.
LEMMA GrewNothing == ASSUME NEW hs, Ordered(hs) PROVE Grew(hs, hs)
<1>1. ASSUME NEW n \in DOMAIN hs.headers PROVE Len(hs.headers[n]) <= Len(hs.headers[n])
  <2>1. Len(hs.headers[n]) \in Nat
    BY ListLen DEF Ordered
  <2> QED BY <2>1
<1> QED BY <1>1 DEF Grew

\* Growing twice is growing.
LEMMA GrewTwice ==
  ASSUME NEW a, NEW b, NEW c, Ordered(a), Grew(a, b), Grew(b, c) PROVE Grew(a, c)
<1>1. ASSUME NEW n \in DOMAIN a.headers
      PROVE  n \in DOMAIN c.headers /\ Len(a.headers[n]) <= Len(c.headers[n])
  <2>1. n \in DOMAIN b.headers /\ n \in DOMAIN c.headers
    BY DEF Grew
  <2>2. Len(a.headers[n]) <= Len(b.headers[n]) /\ Len(b.headers[n]) <= Len(c.headers[n])
    BY <2>1 DEF Grew
  <2>3. Len(a.headers[n]) \in Nat /\ Len(b.headers[n]) \in Nat /\ Len(c.headers[n]) \in Nat
    BY <2>1, ListLen DEF Ordered, Grew
  <2> QED BY <2>1, <2>2, <2>3
<1> QED BY <1>1 DEF Grew

\* What appendAutoHeaders and its parts add.
LEMMA MissingGrows ==
  ASSUME NEW hs, Ordered(hs), NEW name, name # "route" PROVE Grew(hs, AppendMissing(hs, name))
<1>1. Adds(hs, name, AppendHeader(hs, Header(name, 0)))
  BY AppendOne, Zenon
<1>2. Grew(hs, AppendHeader(hs, Header(name, 0)))
  BY <1>1, AddsGrows, Zenon
<1>3. Grew(hs, hs)
  BY GrewNothing, Zenon
<1> QED BY <1>2, <1>3 DEF AppendMissing

\* appendAutoHeaders makes a store grow, whichever of its headers were there before.
LEMMA AutoGrows ==
  ASSUME NEW hs, Ordered(hs), NEW method PROVE Grew(hs, appendAutoHeaders(hs, method))
<1> DEFINE named == AppendMissing(hs, "user-agent")
           allow == AppendMissing(named, "allow")
           both == AppendMissing(allow, "supported")
           able == IF method \in {"INVITE", "REGISTER", "OPTIONS", "REFER", "NOTIFY"}
                   THEN both ELSE named
<1>1. Grew(hs, named)
  BY MissingGrows
<1> HIDE DEF named
<1>2. Ordered(named) /\ Grew(named, allow)
  BY <1>1, MissingGrows DEF Grew
<1> HIDE DEF allow
<1>3. Ordered(allow) /\ Grew(allow, both)
  BY <1>2, MissingGrows DEF Grew
<1> HIDE DEF both
<1>4. Grew(hs, both)
  <2>1. Grew(hs, allow)
    BY <1>1, <1>2, GrewTwice, Zenon
  <2> QED BY <1>3, <2>1, GrewTwice, Zenon
<1>5. Grew(hs, able)
  BY <1>1, <1>4
<1> HIDE DEF able
<1>6. Grew(able, AppendMissing(able, "content-length"))
  <2>1. Ordered(able)
    BY <1>5 DEF Grew
  <2> QED BY <2>1, MissingGrows
<1>7. Grew(hs, AppendMissing(able, "content-length"))
  BY <1>5, <1>6, GrewTwice, Zenon
<1> QED BY <1>7, Zenon DEF appendAutoHeaders, able, both, allow, named

\* The names of the headers that Build makes.
LEMMA BuildNames ==
  ASSUME NEW a \in BOOLEAN, NEW b \in BOOLEAN
  PROVE  Distinct((IF a THEN <<"route">> ELSE <<>>) \o (IF b THEN <<"via">> ELSE <<>>)
                  \o <<"cseq", "from", "to", "call-id", "max-forwards", "user-agent">>)
<1> DEFINE t == IF b THEN <<"via">> ELSE <<>>
           s == IF a THEN <<"route">> ELSE <<>>
           u == <<"cseq", "from", "to", "call-id", "max-forwards", "user-agent">>
           w == s \o t \o u
<1>1. ASSUME NEW z PROVE Distinct(<<z>>) /\ NamesIn(<<z>>) = {z}
  <2>1. IsList(<<z>>) /\ Len(<<z>>) = 1 /\ <<z>>[1] = z
    BY ListOne
  <2> QED BY <2>1 DEF Distinct, NamesIn
<1>2. Distinct(<<>>) /\ NamesIn(<<>>) = {}
  <2>1. <<>> \in Seq({}) /\ Len(<<>>) = 0 /\ \A i \in 1..0 : FALSE
    OBVIOUS
  <2>2. IsList(<<>>)
    BY <2>1, SeqIsList
  <2> QED BY <2>1, <2>2, Zenon DEF Distinct, NamesIn
<1>3. /\ Distinct(u)
      /\ NamesIn(u) = {"cseq", "from", "to", "call-id", "max-forwards", "user-agent"}
  <2>1. u \in Seq({"cseq", "from", "to", "call-id", "max-forwards", "user-agent"}) /\ Len(u) = 6
    OBVIOUS
  <2>2. IsList(u)
    BY <2>1, SeqIsList
  <2>3. \A i \in 1..Len(u) : i \in {1, 2, 3, 4, 5, 6}
    BY <2>1
  <2>4. /\ u[1] = "cseq" /\ u[2] = "from" /\ u[3] = "to" /\ u[4] = "call-id"
        /\ u[5] = "max-forwards" /\ u[6] = "user-agent"
    OBVIOUS
  <2> HIDE DEF u
  <2>5. \A i, j \in {1, 2, 3, 4, 5, 6} : u[i] = u[j] => i = j
    BY <2>4
  <2>6. Distinct(u)
    BY <2>2, <2>3, <2>5 DEF Distinct
  <2>7. 1..Len(u) = {1, 2, 3, 4, 5, 6}
    BY <2>1
  <2> QED BY <2>4, <2>6, <2>7 DEF NamesIn
<1>4. Distinct(s) /\ NamesIn(s) \subseteq {"route"}
  BY <1>1, <1>2
<1>5. Distinct(t) /\ NamesIn(t) \subseteq {"via"}
  BY <1>1, <1>2
<1> HIDE DEF s, t, u
<1>6. Distinct(s \o t) /\ NamesIn(s \o t) = NamesIn(s) \cup NamesIn(t)
  <2>1. NamesIn(s) \cap NamesIn(t) = {}
    BY <1>4, <1>5
  <2> QED BY <1>4, <1>5, <2>1, JoinDistinct, Zenon
<1>7. Distinct((s \o t) \o u)
  <2> DEFINE v == s \o t
  <2>1. Distinct(v) /\ NamesIn(v) \cap NamesIn(u) = {}
    BY <1>3, <1>4, <1>5, <1>6
  <2> HIDE DEF v
  <2>2. Distinct(v \o u)
    BY <1>3, <2>1, JoinDistinct, Zenon
  <2> QED BY <2>2 DEF v
<1> QED BY <1>7 DEF s, t, u

-----------------------------------------------------------------------------
\* The hop and the recipient that a builder makes are what its setup says, and a request has
\* them from the builder.
FromSetup(x) ==
  /\ uris[x.uri] = x.setup.uri.tp
  /\ IF x.hop = 0 THEN x.setup.via = "none"
     ELSE x.setup.via \notin {"none", ""} /\ hops[x.hop].tp = x.setup.via

\* What the three kinds of steps do to the headers of requests and to what was set up: a step
\* keeps them,
KeepsHeaders ==
  /\ builder' = builder \/ FromSetup(builder)'
  /\ \A r \in 1..Len(reqs) : Ordered(reqs[r].hs) => Ordered(reqs'[r].hs)

\* builds a request with the setup of its builder,
BuildsHeaders ==
  LET q == reqs'[Len(reqs) + 1] IN q.setup = builder.setup /\ Ordered(q.hs)

\* or adds headers to a request, and sends it over its transport if it was not sent since it
\* was authorized, or authorizes it if it was not since it was sent.
AltersHeaders(r) ==
  /\ Ordered(reqs[r].hs) => Grew(reqs[r].hs, reqs'[r].hs)
  /\ \/ Len(txs') = Len(txs) + 1 /\ Transported(r) /\ (~Sent(r) \/ Pending(r))
     \/ /\ Len(txs') = Len(txs) /\ UNCHANGED uris
        /\ Hop(r) = reqs[r].hop /\ hops'[Hop(r)].tp = hops[reqs[r].hop].tp
        /\ \E t \in 1..Len(txs) : txs[t].req = r /\ Current(t)

\* A step that leaves requests and hops alone,
LEMMA SameHeaders == ASSUME UNCHANGED <<builder, reqs>> PROVE KeepsHeaders
BY DEF KeepsHeaders

\* a new builder, with a new hop or none,
LEMMA BuilderHeaders ==
  ASSUME RefInv, NEW setup \in Setups, NewRequestBuilder(setup) PROVE KeepsHeaders
<1> DEFINE h == [branch |-> 0, tp |-> setup.via]
<1>1. /\ uris' = Append(uris, setup.uri.tp)
      /\ hops' = IF setup.via = "none" THEN hops ELSE Append(hops, h)
      /\ builder' = [hop |-> IF setup.via = "none" THEN 0 ELSE Len(hops'), cseq |-> Len(cseqs'),
                     uri |-> Len(uris'), setup |-> setup]
      /\ UNCHANGED reqs
  BY DEF NewRequestBuilder
<1>2. /\ builder'.uri = Len(uris') /\ builder'.setup = setup
      /\ builder'.hop = IF setup.via = "none" THEN 0 ELSE Len(hops')
  BY <1>1
<1>3. uris'[Len(uris')] = setup.uri.tp
  <2>1. Appended(uris, setup.uri.tp, uris')
    BY <1>1, ListAppend, Zenon DEF RefInv
  <2> QED BY <2>1 DEF Appended
<1>4. ASSUME setup.via # "none" PROVE Len(hops') # 0 /\ hops'[Len(hops')].tp = setup.via
  <2>1. h.tp = setup.via
    OBVIOUS
  <2> HIDE DEF h
  <2>2. Appended(hops, h, hops')
    BY <1>1, <1>4, ListAppend, Zenon DEF RefInv
  <2>3. Len(hops') = Len(hops) + 1 /\ Len(hops) \in Nat /\ hops'[Len(hops) + 1] = h
    BY <2>2, Lengths DEF Appended
  <2> QED BY <2>1, <2>3
<1>5. setup.via # ""
  BY RequestsAssumption
<1>6. FromSetup(builder)'
  BY <1>2, <1>3, <1>4, <1>5, Zenon DEF FromSetup
<1> QED BY <1>1, <1>6 DEF KeepsHeaders

\* and whatever the application does to the headers.
LEMMA EditHeaders == ASSUME RefInv, NEW r \in 1..Len(reqs), Edit(r) PROVE KeepsHeaders
<1> DEFINE x == Header("x", edits + 1)
           hs == reqs[r].hs
           All == {AppendHeader(hs, x), PrependHeader(hs, x), RemoveHeader(hs, "x"),
                   RemoveHeader(hs, "user-agent"),
                   PrependHeaderAfter(hs, Header("route", edits + 1), "x")}
                  \cup {PrependHeaderAfter(hs, x, after) : after \in {"from", "x", "route"}}
<1>1. UNCHANGED builder /\ \E new \in All : reqs' = [reqs EXCEPT ![r].hs = new]
  BY DEF Edit
<1>2. ASSUME Ordered(hs), NEW new \in All PROVE Ordered(new)
  <2> HIDE DEF hs
  <2>1. /\ Ordered(AppendHeader(hs, x)) /\ Ordered(PrependHeader(hs, x))
        /\ Ordered(PrependHeaderAfter(hs, Header("route", edits + 1), "x"))
        /\ \A after : Ordered(PrependHeaderAfter(hs, x, after))
    BY <1>2, AppendOne, PrependOne, PrependAfterOne, Zenon DEF Adds
  <2>2. Ordered(RemoveHeader(hs, "x")) /\ Ordered(RemoveHeader(hs, "user-agent"))
    BY <1>2, RemoveKeeps, Zenon
  <2> HIDE DEF x
  <2> QED BY <1>2, <2>1, <2>2, Zenon
<1> HIDE DEF All
<1>3. PICK new \in All : reqs' = [reqs EXCEPT ![r].hs = new]
  BY <1>1
<1> DEFINE q == [reqs[r] EXCEPT !.hs = new]
<1>4. Ordered(reqs[r].hs) => Ordered(new)
  BY <1>2
<1>5. reqs' = [reqs EXCEPT ![r] = q]
  BY <1>3
<1>6. q.hs = new
  BY DEF RefInv, ReqFields
<1> HIDE DEF q
<1>7. Replaced(reqs, r, q, reqs')
  BY <1>5, ListExcept, Zenon DEF RefInv
<1>8. \A i \in 1..Len(reqs) : Ordered(reqs[i].hs) => Ordered(reqs'[i].hs)
  BY <1>4, <1>6, <1>7 DEF Replaced
<1> QED BY <1>1, <1>8 DEF KeepsHeaders

\* Build gives a request ordered headers.
LEMMA BuildHeaders == ASSUME RefInv, NEW m \in Methods, Build(m) PROVE BuildsHeaders
<1> DEFINE names == (IF builder.setup.route # NoRoute THEN <<"route">> ELSE <<>>)
                    \o (IF builder.hop # 0 THEN <<"via">> ELSE <<>>)
                    \o <<"cseq", "from", "to", "call-id", "max-forwards", "user-agent">>
           hs == SetContentLength(newHeaders(names), 0)
           q == [method |-> m, hop |-> builder.hop, cseq |-> builder.cseq, uri |-> builder.uri,
                 setup |-> builder.setup, auth |-> FALSE, hs |-> hs]
<1>1. Distinct(names)
  <2> DEFINE a == builder.setup.route # NoRoute
             b == builder.hop # 0
  <2>1. a \in BOOLEAN /\ b \in BOOLEAN
    OBVIOUS
  <2> HIDE DEF a, b
  <2>2. Distinct((IF a THEN <<"route">> ELSE <<>>) \o (IF b THEN <<"via">> ELSE <<>>)
                 \o <<"cseq", "from", "to", "call-id", "max-forwards", "user-agent">>)
    BY <2>1, BuildNames, Zenon
  <2> QED BY <2>2, Zenon DEF a, b
<1>2. Ordered(hs)
  <2> HIDE DEF names
  <2> QED BY <1>1, NewOrdered, LengthKeeps, Zenon
<1>3. reqs' = Append(reqs, q)
  BY DEF Build
<1> HIDE DEF hs
<1>4. q.setup = builder.setup /\ q.hs = hs
  OBVIOUS
<1> HIDE DEF q
<1>5. Appended(reqs, q, reqs')
  BY <1>3, ListAppend, Zenon DEF RefInv
<1> QED BY <1>2, <1>4, <1>5 DEF Appended, BuildsHeaders

\* Request adds headers,
LEMMA RequestHeaders ==
  ASSUME RefInv, NEW r \in 1..Len(reqs), Request(r), Ordered(reqs[r].hs)
  PROVE  Grew(reqs[r].hs, reqs'[r].hs)
<1> DEFINE q == reqs[r]
           hs == appendAutoHeaders(q.hs, q.method)
           p  == [q EXCEPT !.hs  = IF q.hop = 0 THEN PrependHeader(hs, Header("via", 0)) ELSE hs,
                           !.hop = IF q.hop = 0 THEN Len(hops) + 1 ELSE q.hop]
<1>1. reqs' = [reqs EXCEPT ![r] = p]
  BY DEF Request
<1>2. DOMAIN q = ReqFields
  BY DEF RefInv
<1>3. Grew(q.hs, hs) /\ Ordered(hs)
  <2>1. Grew(q.hs, appendAutoHeaders(q.hs, q.method))
    BY AutoGrows, Zenon
  <2> QED BY <2>1 DEF Grew
<1>4. Ordered(q.hs)
  OBVIOUS
<1> HIDE DEF q, hs
<1>5. p.hs = IF q.hop = 0 THEN PrependHeader(hs, Header("via", 0)) ELSE hs
  BY <1>2 DEF ReqFields
<1> HIDE DEF p
<1>6. Grew(hs, PrependHeader(hs, Header("via", 0)))
  <2>1. Adds(hs, "via", PrependHeader(hs, Header("via", 0)))
    BY <1>3, PrependOne
  <2>2. "via" # "route"
    OBVIOUS
  <2> QED BY <2>1, <2>2, AddsGrows, Zenon
<1>7. Grew(q.hs, PrependHeader(hs, Header("via", 0)))
  BY <1>3, <1>4, <1>6, GrewTwice, Zenon
<1>8. reqs'[r] = p
  <2>1. Replaced(reqs, r, p, reqs')
    BY <1>1, ListExcept, Zenon DEF RefInv
  <2> QED BY <2>1 DEF Replaced
<1> QED BY <1>3, <1>5, <1>7, <1>8 DEF q

\* the first time and the second,
LEMMA SendHeaders ==
  ASSUME RefInv, NEW r \in 1..Len(reqs), SendRequest(r) \/ SendAgain(r)
  PROVE  Alters(r) /\ AltersHeaders(r)
<1>1. (~Sent(r) \/ Pending(r)) /\ Request(r)
  BY DEF SendRequest, SendAgain, Pending
<1>2. Alters(r) /\ Len(txs') = Len(txs) + 1 /\ Transported(r)
  BY SendAlters
<1> QED BY <1>1, <1>2, RequestHeaders DEF AltersHeaders

\* and AuthorizeRequest adds the header Authorization.
LEMMA AuthorizeHeaders ==
  ASSUME RefInv, NEW t \in 1..Len(txs), AuthorizeRequest(t)
  PROVE  \E r \in 1..Len(reqs) : Alters(r) /\ AltersHeaders(r)
<1>1. PICK r \in 1..Len(reqs) :
        /\ r = txs[t].req /\ Alters(r) /\ Len(txs') = Len(txs)
        /\ UNCHANGED uris /\ Hop(r) = reqs[r].hop /\ hops'[Hop(r)].tp = hops[reqs[r].hop].tp
  BY AuthorizeAlters
<1> DEFINE hs == AppendHeader(reqs[r].hs, Header("authorization", 1))
           q == [reqs[r] EXCEPT !.cseq = Len(cseqs) + 1, !.auth = TRUE, !.hs = hs]
<1>2. ~reqs[r].auth /\ reqs' = [reqs EXCEPT ![r] = q]
  BY <1>1 DEF AuthorizeRequest
<1>3. DOMAIN reqs[r] = ReqFields /\ reqs[r].auth \in BOOLEAN
  BY DEF RefInv
<1>4. q.hs = hs
  <2> HIDE DEF hs
  <2> QED BY <1>3 DEF ReqFields
<1> HIDE DEF q
<1>5. reqs'[r] = q
  <2>1. Replaced(reqs, r, q, reqs')
    BY <1>2, ListExcept, Zenon DEF RefInv
  <2> QED BY <2>1 DEF Replaced
<1>6. Current(t)
  <2>1. txs[t].auth \in BOOLEAN /\ (txs[t].auth => reqs[txs[t].req].auth)
    BY DEF RefInv
  <2> QED BY <1>1, <1>2, <1>3, <2>1, Zenon DEF Current
<1>7. Ordered(reqs[r].hs) => Grew(reqs[r].hs, hs)
  <2>1. Ordered(reqs[r].hs) => Adds(reqs[r].hs, "authorization", hs)
    BY AppendOne
  <2>2. "authorization" # "route"
    OBVIOUS
  <2> HIDE DEF hs
  <2> QED BY <2>1, <2>2, AddsGrows, Zenon
<1> HIDE DEF hs
<1>8. AltersHeaders(r)
  BY <1>1, <1>4, <1>5, <1>6, <1>7, Zenon DEF AltersHeaders
<1> QED BY <1>1, <1>8

\* Every step is of one of the three kinds.
LEMMA StepKinds ==
  ASSUME RefInv, [MessageNext]_messageVars
  PROVE  \/ Keeps /\ KeepsHeaders
         \/ Builds /\ BuildsHeaders
         \/ \E r \in 1..Len(reqs) : Alters(r) /\ AltersHeaders(r)
<1>1. ASSUME NEW setup \in Setups, NewRequestBuilder(setup) PROVE Keeps /\ KeepsHeaders
  BY <1>1, BuilderKeeps, BuilderHeaders
<1>2. ASSUME NEW m \in Methods, Build(m) PROVE Builds /\ BuildsHeaders
  BY <1>2, BuildBuilds, BuildHeaders
<1>3. ASSUME NEW r \in 1..Len(reqs), Edit(r) PROVE Keeps /\ KeepsHeaders
  <2>1. Touches
    BY <1>3 DEF Edit, Touches
  <2> QED BY <1>3, <2>1, TouchesKeeps, EditHeaders
<1>4. ASSUME NEW r \in 1..Len(reqs), SendRequest(r) \/ SendAgain(r)
      PROVE  Alters(r) /\ AltersHeaders(r)
  BY <1>4, SendHeaders, Zenon
<1>5. ASSUME NEW t \in 1..Len(txs), AuthorizeRequest(t)
      PROVE  \E r \in 1..Len(reqs) : Alters(r) /\ AltersHeaders(r)
  BY <1>5, AuthorizeHeaders, Zenon
<1>6. ASSUME NEW t \in 1..Len(txs), ack(t) PROVE Touches /\ UNCHANGED <<builder, reqs>>
  BY <1>6 DEF ack, Touches
<1>7. ASSUME NEW t \in 1..Len(txs), ack2xx(t) PROVE Touches /\ UNCHANGED <<builder, reqs>>
  BY <1>7 DEF ack2xx, Touches
<1>8. ASSUME NEW t \in 1..Len(txs), cancel(t) PROVE Touches /\ UNCHANGED <<builder, reqs>>
  BY <1>8 DEF cancel, Touches
<1>9. CASE UNCHANGED messageVars
  <2>1. Touches /\ UNCHANGED <<builder, reqs>>
    BY <1>9 DEF messageVars, Touches
  <2> QED BY <2>1, TouchesKeeps, SameHeaders
<1>10. Touches /\ UNCHANGED <<builder, reqs>> => Keeps /\ KeepsHeaders
  BY TouchesKeeps, SameHeaders
<1> QED
  BY <1>1, <1>2, <1>3, <1>4, <1>5, <1>6, <1>7, <1>8, <1>9, <1>10, Zenon DEF MessageNext

\* The headers of every request, and of all that was sent, are ordered.
OrderInv ==
  /\ \A r \in 1..Len(reqs) : Ordered(reqs[r].hs)
  /\ \A t \in 1..Len(txs) : Ordered(txs[t].sent.hs)

\* At the start there are none.
LEMMA OrderStart == MessageInit => OrderInv
<1> SUFFICES ASSUME MessageInit PROVE OrderInv
  OBVIOUS
<1>1. Len(reqs) = 0 /\ Len(txs) = 0
  BY DEF MessageInit
<1>2. \A i \in 1..0 : FALSE
  OBVIOUS
<1> QED BY <1>1, <1>2, Zenon DEF OrderInv

\* Headers that are ordered stay so,
LEMMA KeepsOrder == OrderInv /\ Keeps /\ KeepsHeaders => OrderInv'
BY DEF OrderInv, Keeps, KeepsHeaders

\* a new request has ordered ones,
LEMMA BuildsOrder == RefInv /\ OrderInv /\ Builds /\ BuildsHeaders => OrderInv'
<1> SUFFICES ASSUME RefInv, OrderInv, Builds, BuildsHeaders PROVE OrderInv'
  OBVIOUS
<1>1. ASSUME NEW r \in 1..Len(reqs') PROVE Ordered(reqs'[r].hs)
  <2>1. r \in 1..Len(reqs) \/ r = Len(reqs) + 1
    BY Lengths DEF Builds
  <2> QED BY <2>1 DEF Builds, BuildsHeaders, OrderInv
<1>2. UNCHANGED txs
  BY DEF Builds
<1> QED BY <1>1, <1>2 DEF OrderInv

\* and what is sent only gets more of them.
LEMMA AltersOrder ==
  ASSUME NEW r \in 1..Len(reqs), RefInv, OrderInv, Alters(r), AltersHeaders(r) PROVE OrderInv'
<1>1. Ordered(reqs'[r].hs)
  BY DEF OrderInv, AltersHeaders, Grew
<1>2. ASSUME NEW q \in 1..Len(reqs') PROVE Ordered(reqs'[q].hs)
  BY <1>1 DEF Alters, OrderInv
<1>3. ASSUME NEW t \in 1..Len(txs') PROVE Ordered(txs'[t].sent.hs)
  <2>1. t \in 1..Len(txs) \/ (t = Len(txs) + 1 /\ Sends(r, txs'[t]))
    <3>1. /\ Len(txs) \in Nat
          /\ Len(txs') = Len(txs) \/ (Len(txs') = Len(txs) + 1 /\ Sends(r, txs'[Len(txs) + 1]))
      BY Lengths DEF Alters
    <3> QED BY <3>1
  <2>2. CASE t \in 1..Len(txs)
    BY <2>2 DEF Alters, OrderInv
  <2>3. CASE Sends(r, txs'[t])
    BY <1>1, <2>3 DEF Sends
  <2> QED BY <2>1, <2>2, <2>3
<1> QED BY <1>2, <1>3 DEF OrderInv

\* The headers of all requests, and of all that was sent, stay ordered.
LEMMA OrderStep == RefInv /\ OrderInv /\ [MessageNext]_messageVars => OrderInv'
BY StepKinds, KeepsOrder, BuildsOrder, AltersOrder, Zenon

-----------------------------------------------------------------------------
\* The headers of the messages made from a request are ordered, as the request's are: what
\* all of them end with,
LEMMA FinishOrdered ==
  ASSUME NEW from, NEW to, Ordered(from), Ordered(to) PROVE Ordered(Finish(from, to))
<1> DEFINE a == CopyHeaders("from", from, to)
           b == CopyHeaders("to", from, a)
           c == CopyHeaders("call-id", from, b)
           d == CopyHeaders("cseq", from, c)
<1>1. Ordered(a)
  BY CopyKeeps, Zenon
<1> HIDE DEF a
<1>2. Ordered(b)
  BY <1>1, CopyKeeps, Zenon
<1> HIDE DEF b
<1>3. Ordered(c)
  BY <1>2, CopyKeeps, Zenon
<1> HIDE DEF c
<1>4. Ordered(d)
  BY <1>3, CopyKeeps, Zenon
<1> HIDE DEF d
<1>5. Ordered(SetContentLength(d, 0))
  BY <1>4, LengthKeeps, Zenon
<1> QED BY <1>5, Zenon DEF Finish, a, b, c, d

\* the response,
LEMMA ResponseOrdered ==
  ASSUME NEW m, DOMAIN m = SentFields, Ordered(m.hs)
  PROVE  Ordered(NewResponseFromRequest(m).hs)
<1> DEFINE recorded == CopyHeaders("record-route", m.hs, NoHeaders)
           routed == CopyHeaders("via", m.hs, recorded)
<1>1. Ordered(recorded)
  BY NoneOrdered, CopyKeeps, Zenon
<1> HIDE DEF recorded
<1>2. Ordered(routed)
  BY <1>1, CopyKeeps, Zenon
<1> HIDE DEF routed
<1>3. Ordered(Finish(m.hs, routed))
  BY <1>2, FinishOrdered, Zenon
<1>4. NewResponseFromRequest(m) = [m EXCEPT !.hs = Finish(m.hs, routed)]
  BY Zenon DEF NewResponseFromRequest, routed, recorded
<1>5. NewResponseFromRequest(m).hs = Finish(m.hs, routed)
  BY <1>4 DEF SentFields
<1> QED BY <1>3, <1>5

\* the ACK,
LEMMA AckOrdered ==
  ASSUME NEW m, NEW success, Ordered(m.hs)
  PROVE  Ordered(NewAckRequest(m, RecordRoutes, success).hs)
<1> DEFINE reversed == [i \in 1..Len(RecordRoutes) |->
                          Header("route", RecordRoutes[Len(RecordRoutes) + 1 - i])]
           routes == IF GetHeaders(m.hs, "route") # <<>> THEN GetHeaders(m.hs, "route")
                     ELSE reversed
           vias == CopyHeaders("via", m.hs, NoHeaders)
           routed == AppendHeaders(vias, "route", routes)
           hs == AppendHeader(routed, Header("max-forwards", 70))
<1>1. IsList(reversed)
  <2> DEFINE S == {reversed[i] : i \in 1..Len(RecordRoutes)}
  <2>1. reversed \in [1..Len(RecordRoutes) -> S]
    OBVIOUS
  <2>2. Len(RecordRoutes) \in Nat
    BY RequestsAssumption
  <2> HIDE DEF reversed, S
  <2>3. reversed \in Seq(S)
    BY <2>1, <2>2
  <2> QED BY <2>3, SeqIsList
<1>2. IsList(routes)
  <2>1. IsList(GetHeaders(m.hs, "route"))
    BY GetList, Zenon
  <2> HIDE DEF reversed
  <2> QED BY <1>1, <2>1
<1> HIDE DEF routes, reversed
<1>3. Ordered(vias)
  BY NoneOrdered, CopyKeeps, Zenon
<1> HIDE DEF vias
<1>4. Ordered(routed)
  BY <1>2, <1>3, AppendKeeps, Zenon
<1> HIDE DEF routed
<1>5. Ordered(hs)
  <2>1. Adds(routed, "max-forwards", hs)
    BY <1>4, AppendOne
  <2> QED BY <2>1 DEF Adds
<1> HIDE DEF hs
<1>6. Ordered(Finish(m.hs, hs))
  BY <1>5, FinishOrdered, Zenon
<1>7. NewAckRequest(m, RecordRoutes, success).hs = Finish(m.hs, hs)
  BY DEF NewAckRequest, hs, routed, vias, routes, reversed
<1> QED BY <1>6, <1>7

\* and the CANCEL.
LEMMA CancelOrdered ==
  ASSUME NEW m, Ordered(m.hs) PROVE Ordered(NewCancelRequest(m).hs)
<1> DEFINE vias == AppendHeader(NoHeaders, Header("via", 0))
           routed == CopyHeaders("route", m.hs, vias)
           hs == AppendHeader(routed, Header("max-forwards", 70))
<1>1. Ordered(vias)
  <2>1. Adds(NoHeaders, "via", vias)
    BY NoneOrdered, AppendOne
  <2> QED BY <2>1 DEF Adds
<1> HIDE DEF vias
<1>2. Ordered(routed)
  BY <1>1, CopyKeeps, Zenon
<1> HIDE DEF routed
<1>3. Ordered(hs)
  <2>1. Adds(routed, "max-forwards", hs)
    BY <1>2, AppendOne
  <2> QED BY <2>1 DEF Adds
<1> HIDE DEF hs
<1>4. Ordered(Finish(m.hs, hs))
  BY <1>3, FinishOrdered, Zenon
<1>5. NewCancelRequest(m).hs = Finish(m.hs, hs)
  BY DEF NewCancelRequest, hs, routed, vias
<1> QED BY <1>4, <1>5

\* The message that the last step made.
LastInv == last.tx # 0 => Ordered(last.msg.hs)

\* A step that makes a message of ordered headers, or none.
LEMMA LastStep == RefInv /\ OrderInv /\ LastInv /\ [MessageNext]_messageVars => LastInv'
<1> SUFFICES ASSUME RefInv, OrderInv, LastInv, [MessageNext]_messageVars PROVE LastInv'
  OBVIOUS
<1>1. ASSUME last' = NoMessage PROVE LastInv'
  <2>1. last'.tx = 0
    BY <1>1 DEF NoMessage
  <2> QED BY <2>1 DEF LastInv
<1>2. ASSUME NEW t \in 1..Len(txs), NEW m, NEW success, Emit(t, m, success), Ordered(m.hs)
      PROVE  LastInv'
  BY <1>2 DEF Emit, LastInv
<1>3. ASSUME NEW t \in 1..Len(txs) PROVE Ordered(Origin(t).hs)
  <2>1. Ordered(reqs[txs[t].req].hs)
    BY DEF RefInv, OrderInv
  <2> QED BY <2>1 DEF Origin, Image
<1>4. ASSUME NEW setup \in Setups, NewRequestBuilder(setup) PROVE LastInv'
  BY <1>1, <1>4 DEF NewRequestBuilder
<1>5. ASSUME NEW m \in Methods, Build(m) PROVE LastInv'
  BY <1>1, <1>5 DEF Build
<1>6. ASSUME NEW r \in 1..Len(reqs), Edit(r) \/ SendRequest(r) \/ SendAgain(r) PROVE LastInv'
  BY <1>1, <1>6 DEF Edit, SendRequest, SendAgain, Request
<1>7. ASSUME NEW t \in 1..Len(txs), AuthorizeRequest(t) PROVE LastInv'
  BY <1>1, <1>7 DEF AuthorizeRequest
<1>8. ASSUME NEW t \in 1..Len(txs), NEW success
      PROVE  Ordered(NewAckRequest(Origin(t), RecordRoutes, success).hs)
  BY <1>3, AckOrdered
<1>9. ASSUME NEW t \in 1..Len(txs), ack(t) PROVE LastInv'
  BY <1>1, <1>2, <1>8, <1>9 DEF ack
<1>10. ASSUME NEW t \in 1..Len(txs), ack2xx(t) PROVE LastInv'
  BY <1>1, <1>2, <1>8, <1>10 DEF ack2xx
<1>11. ASSUME NEW t \in 1..Len(txs), cancel(t) PROVE LastInv'
  <2>1. Ordered(NewCancelRequest(Origin(t)).hs)
    BY <1>3, CancelOrdered
  <2> QED BY <1>2, <1>11, <2>1 DEF cancel
<1>12. CASE UNCHANGED messageVars
  BY <1>12 DEF messageVars, LastInv
<1> QED BY <1>4, <1>5, <1>6, <1>7, <1>9, <1>10, <1>11, <1>12 DEF MessageNext

\* Whatever headers are appended, prepended, put after others and removed, every request, and
\* the response, the ACK and the CANCEL made from it, has each of its headers once in the order
\* that String writes, and PrependHeaderAfter puts a header right after the other and moves no
\* third one (the slices of message.go): for any number of requests and of headers.
THEOREM HeadersOrdered == MessageSpec => []HeadersAreOrdered
<1>1. MessageInit => LastInv
  <2>1. MessageInit => last.tx = 0
    BY DEF MessageInit, NoMessage
  <2> QED BY <2>1 DEF LastInv
<1>2. RefInv /\ OrderInv /\ LastInv => HeadersAreOrdered
  <2> SUFFICES ASSUME RefInv, OrderInv, LastInv PROVE HeadersAreOrdered
    OBVIOUS
  <2>1. ASSUME NEW r \in 1..Len(reqs) PROVE Ordered(reqs[r].hs) /\ OrderIsDomain(reqs[r].hs)
    BY OrderedIsDomain DEF OrderInv
  <2>2. ASSUME NEW t \in 1..Len(txs) PROVE OrderIsDomain(NewResponseFromRequest(txs[t].sent).hs)
    <3>1. DOMAIN txs[t].sent = SentFields /\ Ordered(txs[t].sent.hs)
      BY DEF RefInv, OrderInv, Keyed
    <3> QED BY <3>1, ResponseOrdered, OrderedIsDomain, Zenon
  <2>3. last.tx # 0 => OrderIsDomain(last.msg.hs)
    BY OrderedIsDomain DEF LastInv
  <2>4. ASSUME NEW r \in 1..Len(reqs), NEW name, NEW after, name # after, Has(reqs[r].hs, after)
        PROVE  PutsRightAfter(reqs[r].hs, name, after)
    BY <2>1, <2>4, PutsAfter, Zenon
  <2> QED BY <2>1, <2>2, <2>3, <2>4, Zenon DEF HeadersAreOrdered
<1>3. MessageInv => RefInv
  BY DEF MessageInv
<1> QED
  BY <1>1, <1>2, <1>3, MessageStart, MessageInductive, OrderStart, OrderStep, LastStep, PTL
  DEF MessageSpec

-----------------------------------------------------------------------------
\* What was sent went over the transport that was asked for, as SentAsAsked says.
AsAsked(m, s, auth) ==
  LET uri   == TargetUri(m.hs, s.route, s.uri)
      named == IF uri.tp # "" THEN uri.tp ELSE IF s.via # "none" THEN s.via ELSE "UDP"
      safe  == IF uri.sips THEN Secured(named) ELSE named
      fits  == IF safe = "UDP" /\ TooLong(m.hs) THEN "TCP" ELSE safe
  IN  \/ m.tp = IF s.tp # "" THEN s.tp ELSE fits
      \/ auth /\ LongSips(s, m) /\ fits = "TCP" /\ m.tp = "TLS"

\* What a request still has of a message that was sent of it: the transport is in the hop
\* instead of the recipient, and the headers are there, with those of the authorization.
Carries(q, m) ==
  hops[q.hop].tp = m.tp /\ m.tp # "" /\ uris[q.uri] = "" /\ Grew(m.hs, q.hs)

\* As long as a request is the only one of its builder and has not been sent, what was set up
\* is in the hop and the recipient, as it is in those of a builder that has built nothing; one
\* that is to be sent again carries what was sent.
AskedInv ==
  /\ \A r \in 1..Len(reqs) : OwnBuilder(r) /\ ~Sent(r) => FromSetup(reqs[r])
  /\ builder.uri # 0 /\ (\A r \in 1..Len(reqs) : reqs[r].uri # builder.uri) => FromSetup(builder)
  /\ \A r \in 1..Len(reqs) : OwnBuilder(r) /\ Pending(r) =>
       \E t \in 1..Len(txs) : txs[t].req = r /\ Carries(reqs[r], txs[t].sent)
  /\ \A t \in 1..Len(txs) :
       OwnBuilder(txs[t].req) => AsAsked(txs[t].sent, reqs[txs[t].req].setup, txs[t].auth)

\* What is shown of sizes at the end: a message that is too long for a packet stays so when
\* it gets more headers.
StayTooLong == \A hs, new : Ordered(hs) /\ Grew(hs, new) /\ TooLong(hs) => TooLong(new)

\* A number that was more than a bound and has grown.
LEMMA StillMore ==
  ASSUME NEW n \in Nat, NEW i \in Nat, NEW j \in Nat, i <= j, i > n PROVE j > n
OBVIOUS

\* The transport of a request that has not been sent is the one that was set up,
LEMMA FirstTransport ==
  ASSUME NEW q, NEW m, NEW via, NEW auth,
         m.hs = q.hs, m.tp = Chosen(q, q.setup.uri.tp, via),
         IF q.setup.via = "none" THEN via = "" ELSE via = q.setup.via /\ via # ""
  PROVE  AsAsked(m, q.setup, auth)
<1> DEFINE u == TargetUri(q.hs, q.setup.route, Uri(q.setup.uri.tp, q.setup.uri.sips))
           w == TargetUri(q.hs, q.setup.route, q.setup.uri)
<1>1. w.sips = u.sips /\ w.tp = u.tp
  <2>1. CASE \A x : TargetUri(q.hs, q.setup.route, x) = x
    <3>1. u = Uri(q.setup.uri.tp, q.setup.uri.sips) /\ w = q.setup.uri
      BY <2>1, Zenon
    <3>2. /\ Uri(q.setup.uri.tp, q.setup.uri.sips).sips = q.setup.uri.sips
          /\ Uri(q.setup.uri.tp, q.setup.uri.sips).tp = q.setup.uri.tp
      BY UriFields, Zenon
    <3> QED BY <3>1, <3>2, Zenon
  <2>2. CASE \A x, y : TargetUri(q.hs, q.setup.route, x) = TargetUri(q.hs, q.setup.route, y)
    BY <2>2
  <2> QED BY <2>1, <2>2, TargetCases
<1> DEFINE named == IF u.tp # "" THEN u.tp ELSE IF via # "" THEN via ELSE "UDP"
           asked == IF u.tp # "" THEN u.tp ELSE IF q.setup.via # "none" THEN q.setup.via ELSE "UDP"
           Safe(x) == IF u.sips THEN Secured(x) ELSE x
           Fits(x) == IF x = "UDP" /\ TooLong(q.hs) THEN "TCP" ELSE x
<1>2. m.tp = IF q.setup.tp # "" THEN q.setup.tp ELSE Fits(Safe(named))
  BY DEF Chosen
<1>3. m.tp = (IF q.setup.tp # "" THEN q.setup.tp ELSE Fits(Safe(asked)))
      => AsAsked(m, q.setup, auth)
  BY <1>1 DEF AsAsked
<1> HIDE DEF u, w
<1>4. named = asked
  OBVIOUS
<1> QED BY <1>2, <1>3, <1>4

\* and stays it when the request is sent again with more headers.
LEMMA SecondTransport ==
  ASSUME StayTooLong,
         NEW q, NEW m, NEW old, Ordered(old.hs), Grew(old.hs, q.hs), old.tp # "",
         AsAsked(old, q.setup, FALSE), m.hs = q.hs, m.tp = Chosen(q, "", old.tp)
  PROVE  AsAsked(m, q.setup, TRUE)
<1> DEFINE v == TargetUri(q.hs, q.setup.route, Uri("", q.setup.uri.sips))
           w == TargetUri(q.hs, q.setup.route, q.setup.uri)
<1>1. TooLong(old.hs) => TooLong(q.hs)
  BY DEF StayTooLong
<1>2. w = TargetUri(old.hs, q.setup.route, q.setup.uri)
  BY DEF Grew, TargetUri
<1>3. w.sips = v.sips /\ (v.tp = "" \/ v.tp = w.tp)
  <2>1. CASE \A x : TargetUri(q.hs, q.setup.route, x) = x
    <3>1. v = Uri("", q.setup.uri.sips) /\ w = q.setup.uri
      BY <2>1, Zenon
    <3>2. Uri("", q.setup.uri.sips).sips = q.setup.uri.sips /\ Uri("", q.setup.uri.sips).tp = ""
      BY UriFields, Zenon
    <3> QED BY <3>1, <3>2, Zenon
  <2>2. CASE \A x, y : TargetUri(q.hs, q.setup.route, x) = TargetUri(q.hs, q.setup.route, y)
    BY <2>2
  <2> QED BY <2>1, <2>2, TargetCases
<1> DEFINE asked == IF w.tp # "" THEN w.tp ELSE IF q.setup.via # "none" THEN q.setup.via ELSE "UDP"
           named == IF v.tp # "" THEN v.tp ELSE old.tp
           Safe(x) == IF w.sips THEN Secured(x) ELSE x
           Fits(x, hs) == IF x = "UDP" /\ TooLong(hs) THEN "TCP" ELSE x
<1>4. m.tp = IF q.setup.tp # "" THEN q.setup.tp ELSE Fits(Safe(named), q.hs)
  BY <1>3 DEF Chosen
<1>5. old.tp = IF q.setup.tp # "" THEN q.setup.tp ELSE Fits(Safe(asked), old.hs)
  BY <1>2 DEF AsAsked
<1>6. \/ m.tp = IF q.setup.tp # "" THEN q.setup.tp ELSE Fits(Safe(asked), q.hs)
      \/ /\ q.setup.tp = "" /\ TooLong(q.hs) /\ w.sips
         /\ Fits(Safe(asked), q.hs) = "TCP" /\ m.tp = "TLS"
  <2> HIDE DEF v, w
  <2>1. CASE q.setup.tp # ""
    BY <1>4, <2>1
  <2>2. CASE q.setup.tp = "" /\ ~w.sips
    BY <1>1, <1>3, <1>4, <1>5, <2>2
  <2>3. CASE q.setup.tp = "" /\ w.sips
    BY <1>1, <1>3, <1>4, <1>5, <2>3 DEF Secured
  <2> QED BY <2>1, <2>2, <2>3
<1> QED BY <1>6 DEF AsAsked, LongSips

\* The four parts of the invariant after a step.
LEMMA AskedHolds ==
  ASSUME \A r \in 1..Len(reqs') : OwnBuilder(r)' /\ ~Sent(r)' => FromSetup(reqs[r])',
         builder'.uri # 0 /\ (\A r \in 1..Len(reqs') : reqs'[r].uri # builder'.uri)
           => FromSetup(builder)',
         \A r \in 1..Len(reqs') : OwnBuilder(r)' /\ Pending(r)' =>
           \E t \in 1..Len(txs') : txs'[t].req = r /\ Carries(reqs[r], txs[t].sent)',
         \A t \in 1..Len(txs') : OwnBuilder(txs[t].req)' =>
           AsAsked(txs'[t].sent, reqs'[txs'[t].req].setup, txs'[t].auth)
  PROVE  AskedInv'
<1>1. \A t \in 1..Len(txs') : OwnBuilder(txs[t].req)' =>
        AsAsked(txs[t].sent, reqs[txs[t].req].setup, txs[t].auth)'
  BY DEF AsAsked, LongSips, TargetUri, Secured, Uri, TooLong, Headers, GetHeaders, Has, NamesIn
<1> QED BY <1>1, Zenon DEF AskedInv

\* A step that keeps what is pointed to keeps what was asked for,
LEMMA KeepsAsked == RefInv /\ AskedInv /\ Keeps /\ KeepsHeaders => AskedInv'
<1> SUFFICES ASSUME RefInv, AskedInv, Keeps, KeepsHeaders PROVE AskedInv'
  OBVIOUS
<1>1. ASSUME NEW r \in 1..Len(reqs), OwnBuilder(r)' PROVE OwnBuilder(r)
  BY <1>1 DEF OwnBuilder, Keeps
<1>2. ASSUME NEW r \in 1..Len(reqs)
      PROVE  /\ uris'[reqs[r].uri] = uris[reqs[r].uri]
             /\ reqs[r].hop # 0 => hops'[reqs[r].hop] = hops[reqs[r].hop]
  <2>1. reqs[r].uri \in 1..Len(uris) /\ reqs[r].hop \in 0..Len(hops) /\ Len(hops) \in Nat
    BY Lengths DEF RefInv
  <2>2. uris'[reqs[r].uri] = uris[reqs[r].uri]
    BY <2>1 DEF Keeps, Grown
  <2>3. ASSUME reqs[r].hop # 0 PROVE hops'[reqs[r].hop] = hops[reqs[r].hop]
    <3>1. reqs[r].hop \in 1..Len(hops)
      BY <2>1, <2>3, Positive, Zenon
    <3> QED BY <3>1 DEF Keeps, Grown
  <2> QED BY <2>2, <2>3
<1>3. ASSUME NEW r \in 1..Len(reqs'), OwnBuilder(r)', ~Sent(r)' PROVE FromSetup(reqs[r])'
  <2>1. /\ r \in 1..Len(reqs) /\ reqs'[r].uri = reqs[r].uri /\ reqs'[r].hop = reqs[r].hop
        /\ reqs'[r].setup = reqs[r].setup
    BY DEF Keeps
  <2>2. ~Sent(r)
    BY <1>3 DEF Sent, Keeps
  <2>3. FromSetup(reqs[r])
    BY <1>1, <1>3, <2>1, <2>2 DEF AskedInv
  <2> QED BY <1>2, <2>1, <2>3, Zenon DEF FromSetup
<1>4. ASSUME builder'.uri # 0, \A r \in 1..Len(reqs') : reqs'[r].uri # builder'.uri
      PROVE  FromSetup(builder)'
  <2>1. CASE builder' = builder
    <3>1. FromSetup(builder)
      BY <1>4, <2>1 DEF Keeps, AskedInv
    <3>2. builder.uri \in 1..Len(uris)
      BY <1>4, <2>1, Lengths, Positive, Zenon DEF RefInv
    <3>3. uris'[builder.uri] = uris[builder.uri]
      BY <3>2 DEF Keeps, Grown
    <3>4. ASSUME builder.hop # 0 PROVE hops'[builder.hop] = hops[builder.hop]
      <4>1. builder.hop \in 1..Len(hops)
        BY <3>4, Lengths, Positive, Zenon DEF RefInv
      <4> QED BY <4>1 DEF Keeps, Grown
    <3> QED BY <2>1, <3>1, <3>3, <3>4, Zenon DEF FromSetup
  <2> QED BY <2>1 DEF KeepsHeaders
<1>5. ASSUME NEW r \in 1..Len(reqs'), OwnBuilder(r)', Pending(r)'
      PROVE  \E t \in 1..Len(txs') : txs'[t].req = r /\ Carries(reqs[r], txs[t].sent)'
  <2>1. /\ r \in 1..Len(reqs) /\ reqs'[r].uri = reqs[r].uri /\ reqs'[r].hop = reqs[r].hop
        /\ reqs'[r].auth = reqs[r].auth
    BY DEF Keeps
  <2>2. Pending(r)
    BY <1>5, <2>1 DEF Pending, Keeps
  <2>3. PICK t \in 1..Len(txs) : txs[t].req = r /\ Carries(reqs[r], txs[t].sent)
    BY <1>1, <1>5, <2>1, <2>2 DEF AskedInv
  <2>4. /\ t \in 1..Len(txs') /\ txs'[t].req = r /\ txs'[t].sent = txs[t].sent
        /\ reqs'[r].hs = reqs[r].hs /\ reqs[r].hop # 0
    BY <2>1, <2>3 DEF Keeps, Sent, RefInv
  <2>5. hops'[reqs'[r].hop] = hops[reqs[r].hop] /\ uris'[reqs'[r].uri] = uris[reqs[r].uri]
    BY <1>2, <2>1, <2>4
  <2>6. Carries(reqs[r], txs[t].sent)'
    BY <2>3, <2>4, <2>5, Zenon DEF Carries
  <2> QED BY <2>4, <2>6
<1>6. ASSUME NEW t \in 1..Len(txs'), OwnBuilder(txs[t].req)'
      PROVE  AsAsked(txs'[t].sent, reqs'[txs'[t].req].setup, txs'[t].auth)
  <2>1. /\ t \in 1..Len(txs) /\ txs'[t].sent = txs[t].sent /\ txs'[t].req = txs[t].req
        /\ txs'[t].auth = txs[t].auth
    BY DEF Keeps
  <2>2. PICK q \in 1..Len(reqs) : q = txs[t].req
    BY <2>1 DEF RefInv
  <2>3. OwnBuilder(q)'
    BY <1>6, <2>1, <2>2 DEF OwnBuilder
  <2>4. AsAsked(txs[t].sent, reqs[q].setup, txs[t].auth)
    BY <1>1, <2>1, <2>2, <2>3 DEF AskedInv
  <2>5. reqs'[q].setup = reqs[q].setup
    BY DEF Keeps
  <2> QED BY <2>1, <2>2, <2>4, <2>5
<1> QED BY <1>3, <1>4, <1>5, <1>6, AskedHolds

\* a new request asks for what its builder has,
LEMMA BuildsAsked == RefInv /\ AskedInv /\ Builds /\ BuildsHeaders => AskedInv'
<1> SUFFICES ASSUME RefInv, AskedInv, Builds, BuildsHeaders PROVE AskedInv'
  OBVIOUS
<1> DEFINE new == Len(reqs) + 1
<1>1. /\ Len(reqs) \in Nat /\ Len(reqs') = new /\ UNCHANGED <<builder, hops, uris, txs>>
      /\ reqs'[new].uri = builder.uri /\ reqs'[new].hop = builder.hop /\ builder.uri # 0
      /\ reqs'[new].setup = builder.setup /\ ~reqs'[new].auth
      /\ \A q \in 1..Len(reqs) : reqs'[q] = reqs[q]
  BY Lengths DEF Builds, BuildsHeaders
<1>2. /\ new \in 1..Len(reqs') /\ \A q \in 1..Len(reqs) : q \in 1..Len(reqs') /\ q # new
      /\ \A q \in 1..Len(reqs') : q = new \/ q \in 1..Len(reqs)
  BY <1>1
<1> HIDE DEF new
<1>3. ASSUME NEW r \in 1..Len(reqs), OwnBuilder(r)' PROVE OwnBuilder(r)
  BY <1>1, <1>2, <1>3 DEF OwnBuilder
<1>4. ASSUME NEW r \in 1..Len(reqs'), OwnBuilder(r)', ~Sent(r)' PROVE FromSetup(reqs[r])'
  <2>1. CASE r = new
    <3>1. \A q \in 1..Len(reqs) : reqs[q].uri # builder.uri
      BY <1>1, <1>2, <1>4, <2>1 DEF OwnBuilder
    <3>2. FromSetup(builder)
      BY <1>1, <3>1 DEF AskedInv
    <3> QED BY <1>1, <2>1, <3>2 DEF FromSetup
  <2>2. CASE r \in 1..Len(reqs)
    <3>1. OwnBuilder(r)
      BY <1>3, <1>4, <2>2
    <3>2. ~Sent(r)
      BY <1>1, <1>4 DEF Sent
    <3>3. FromSetup(reqs[r])
      BY <2>2, <3>1, <3>2 DEF AskedInv
    <3> QED BY <1>1, <2>2, <3>3 DEF FromSetup
  <2> QED BY <1>2, <2>1, <2>2
<1>5. ~\A r \in 1..Len(reqs') : reqs'[r].uri # builder'.uri
  BY <1>1, <1>2
<1>6. ASSUME NEW r \in 1..Len(reqs'), OwnBuilder(r)', Pending(r)'
      PROVE  \E t \in 1..Len(txs') : txs'[t].req = r /\ Carries(reqs[r], txs[t].sent)'
  <2>1. r \in 1..Len(reqs)
    BY <1>1, <1>2, <1>6 DEF Pending
  <2>2. Pending(r)
    BY <1>1, <1>6, <2>1 DEF Pending
  <2>3. PICK t \in 1..Len(txs) : txs[t].req = r /\ Carries(reqs[r], txs[t].sent)
    BY <1>3, <1>6, <2>1, <2>2 DEF AskedInv
  <2>4. Carries(reqs[r], txs[t].sent)'
    <3>1. reqs'[r] = reqs[r] /\ txs' = txs /\ hops' = hops /\ uris' = uris
      BY <1>1, <2>1
    <3> QED BY <2>3, <3>1, Zenon DEF Carries
  <2> QED BY <1>1, <2>3, <2>4
<1>7. ASSUME NEW t \in 1..Len(txs'), OwnBuilder(txs[t].req)'
      PROVE  AsAsked(txs'[t].sent, reqs'[txs'[t].req].setup, txs'[t].auth)
  <2>1. t \in 1..Len(txs) /\ txs'[t] = txs[t]
    BY <1>1
  <2>2. PICK q \in 1..Len(reqs) : q = txs[t].req
    BY <2>1 DEF RefInv
  <2>3. OwnBuilder(q)'
    BY <1>7, <2>1, <2>2 DEF OwnBuilder
  <2>4. AsAsked(txs[t].sent, reqs[q].setup, txs[t].auth)
    BY <1>3, <2>1, <2>2, <2>3 DEF AskedInv
  <2> QED BY <1>1, <2>1, <2>2, <2>4
<1> QED BY <1>4, <1>5, <1>6, <1>7, AskedHolds

\* and a request is sent over the transport it asked for.
LEMMA AltersAsked ==
  ASSUME NEW r \in 1..Len(reqs), RefInv, ShareInv, SentInv, OrderInv, AskedInv, Alters(r),
         AltersHeaders(r), StayTooLong
  PROVE  AskedInv'
<1>1. /\ Len(hops) \in Nat /\ Len(txs) \in Nat
      /\ Len(reqs') = Len(reqs) /\ UNCHANGED builder
      /\ \A t \in 1..Len(txs) : txs'[t] = txs[t]
  BY Lengths DEF Alters
<1>0. /\ Len(txs') = Len(txs) + 1 =>
           /\ Sends(r, txs'[Len(txs) + 1]) /\ Transported(r) /\ (~Sent(r) \/ Pending(r))
      /\ Len(txs') = Len(txs) =>
           /\ UNCHANGED uris
           /\ Hop(r) = reqs[r].hop /\ hops'[Hop(r)].tp = hops[reqs[r].hop].tp
           /\ \E t \in 1..Len(txs) : txs[t].req = r /\ Current(t)
  <2>1. Len(txs) # Len(txs) + 1
    BY <1>1
  <2>2. Len(txs') = Len(txs) + 1 => Sends(r, txs'[Len(txs) + 1])
    BY <2>1, Zenon DEF Alters
  <2> QED BY <2>1, <2>2, Zenon DEF AltersHeaders
<1>2. ASSUME NEW q \in 1..Len(reqs)
      PROVE  reqs'[q].uri = reqs[q].uri /\ reqs'[q].setup = reqs[q].setup
  BY DEF Alters
<1>3. ASSUME NEW q \in 1..Len(reqs), OwnBuilder(q)' PROVE OwnBuilder(q)
  BY <1>1, <1>2, <1>3 DEF OwnBuilder
<1>4. /\ \A t \in 1..Len(txs) : t \in 1..Len(txs')
      /\ \A t \in 1..Len(txs') : t \in 1..Len(txs) \/ (t = Len(txs) + 1 /\ Len(txs') = Len(txs) + 1)
  <2>1. Len(txs') = Len(txs) \/ Len(txs') = Len(txs) + 1
    BY DEF Alters
  <2> QED BY <1>1, <2>1
<1>5. Ordered(reqs[r].hs) /\ Grew(reqs[r].hs, reqs'[r].hs)
  BY DEF OrderInv, AltersHeaders
<1>6. ASSUME NEW q \in 1..Len(reqs), ~Sent(q)' PROVE ~Sent(q)
  BY <1>1, <1>4, <1>6 DEF Sent
<1>7. Sent(r)'
  <2>1. CASE Len(txs') = Len(txs)
    <3>1. PICK t \in 1..Len(txs) : txs[t].req = r
      BY <1>0, <2>1, Zenon
    <3> QED BY <1>1, <1>4, <3>1 DEF Sent
  <2>2. CASE Len(txs') = Len(txs) + 1
    <3>1. PICK n \in 1..Len(txs') : n = Len(txs) + 1
      BY <1>1, <2>2
    <3>2. txs'[n].req = r
      BY <2>2, <3>1, <1>0, Zenon DEF Sends
    <3> QED BY <3>2 DEF Sent
  <2> QED BY <2>1, <2>2 DEF Alters
<1>8. ASSUME NEW q \in 1..Len(reqs'), OwnBuilder(q)', ~Sent(q)' PROVE FromSetup(reqs[q])'
  <2>1. q \in 1..Len(reqs) /\ OwnBuilder(q) /\ q # r /\ ~Sent(q)
    BY <1>1, <1>3, <1>6, <1>7, <1>8
  <2>2. /\ reqs'[q] = reqs[q] /\ uris'[reqs[q].uri] = uris[reqs[q].uri]
        /\ reqs[q].hop # 0 => hops'[reqs[q].hop] = hops[reqs[q].hop]
    BY <2>1, AltersOthers, Zenon
  <2>3. FromSetup(reqs[q])
    BY <2>1 DEF AskedInv
  <2> QED BY <2>2, <2>3, Zenon DEF FromSetup
<1>9. ASSUME builder'.uri # 0, \A q \in 1..Len(reqs') : reqs'[q].uri # builder'.uri
      PROVE  FromSetup(builder)'
  <2>1. builder.uri # 0 /\ \A q \in 1..Len(reqs) : reqs[q].uri # builder.uri
    BY <1>1, <1>2, <1>9
  <2>2. FromSetup(builder)
    BY <2>1 DEF AskedInv
  <2>3. uris'[builder.uri] = uris[builder.uri]
    <3>1. builder.uri \in 1..Len(uris)
      BY <2>1, Lengths, Positive, Zenon DEF RefInv
    <3> QED BY <2>1, <3>1 DEF Alters
  <2>4. ASSUME builder.hop # 0 PROVE hops'[builder.hop] = hops[builder.hop]
    <3>1. builder.hop \in 1..Len(hops) /\ reqs[r].hop # builder.hop
      BY <1>1, <2>1, <2>4, Positive, Zenon DEF RefInv, ShareInv
    <3>2. /\ Hop(r) \in 1..Len(hops') /\ Len(hops') \in Nat /\ Len(hops) <= Len(hops')
          /\ Hop(r) = reqs[r].hop \/ Hop(r) > Len(hops)
      BY DEF Alters
    <3>3. builder.hop \in 1..Len(hops') /\ builder.hop # Hop(r)
      BY <1>1, <3>1, <3>2
    <3> QED BY <3>3 DEF Alters
  <2> QED BY <1>1, <2>2, <2>3, <2>4, Zenon DEF FromSetup
<1>10. ASSUME NEW q \in 1..Len(reqs'), OwnBuilder(q)', Pending(q)'
       PROVE  \E t \in 1..Len(txs') : txs'[t].req = q /\ Carries(reqs[q], txs[t].sent)'
  <2>1. q \in 1..Len(reqs) /\ OwnBuilder(q)
    BY <1>1, <1>3, <1>10
  <2>2. CASE q # r
    <3>1. /\ reqs'[q] = reqs[q] /\ uris'[reqs[q].uri] = uris[reqs[q].uri]
          /\ reqs[q].hop # 0 => hops'[reqs[q].hop] = hops[reqs[q].hop]
      BY <2>1, <2>2, AltersOthers, Zenon
    <3>2. Pending(q)
      BY <1>1, <1>4, <1>10, <3>1 DEF Pending
    <3>3. PICK t \in 1..Len(txs) : txs[t].req = q /\ Carries(reqs[q], txs[t].sent)
      BY <2>1, <3>2 DEF AskedInv
    <3>4. reqs[q].hop # 0 /\ t \in 1..Len(txs') /\ txs'[t] = txs[t]
      BY <1>1, <1>4, <3>3 DEF RefInv
    <3>5. Carries(reqs[q], txs[t].sent)'
      BY <3>1, <3>3, <3>4, Zenon DEF Carries
    <3> QED BY <3>3, <3>4, <3>5
  <2>3. CASE q = r
    <3>1. Len(txs') = Len(txs)
      <4>1. ASSUME Len(txs') = Len(txs) + 1 PROVE FALSE
        <5>1. PICK n \in 1..Len(txs') : n = Len(txs) + 1
          BY <1>1, <4>1
        <5>2. Sends(r, txs'[n])
          BY <1>0, <4>1, <5>1, Zenon
        <5> QED BY <1>10, <2>3, <5>2 DEF Sends, Pending
      <4> QED BY <4>1 DEF Alters
    <3>2. PICK t \in 1..Len(txs) : txs[t].req = r /\ Current(t)
      BY <1>0, <3>1, Zenon
    <3>3. AsSent(reqs[r], txs[t].sent)
      BY <2>1, <2>3, <3>2 DEF SentInv
    <3>4. UNCHANGED uris /\ Hop(r) = reqs[r].hop /\ hops'[Hop(r)].tp = hops[reqs[r].hop].tp
      BY <1>0, <3>1, Zenon
    <3>5. /\ hops'[reqs'[r].hop].tp = txs[t].sent.tp /\ txs[t].sent.tp # ""
          /\ uris'[reqs'[r].uri] = "" /\ Grew(txs[t].sent.hs, reqs'[r].hs)
      BY <1>2, <1>5, <3>3, <3>4 DEF AsSent, Hop
    <3>6. t \in 1..Len(txs') /\ txs'[t] = txs[t]
      BY <1>1, <1>4
    <3>7. Carries(reqs[r], txs[t].sent)'
      BY <3>5, <3>6, Zenon DEF Carries
    <3> QED BY <2>3, <3>2, <3>6, <3>7
  <2> QED BY <2>2, <2>3
<1>11. ASSUME NEW n \in 1..Len(txs'), n = Len(txs) + 1, Len(txs') = Len(txs) + 1, OwnBuilder(r)
       PROVE  AsAsked(txs'[n].sent, reqs'[r].setup, txs'[n].auth)
  <2>1. PICK q : q = reqs'[r]
    OBVIOUS
  <2>2. PICK x : x = txs'[n]
    OBVIOUS
  <2>3. Sends(r, x)
    BY <1>0, <1>11, <2>2, Zenon
  <2>4. /\ x.sent.tp = Chosen(q, uris[reqs[r].uri], HopOf(reqs[r]).tp)
        /\ ~Sent(r) \/ Pending(r)
    BY <1>0, <1>11, <2>1, <2>2, Zenon DEF Transported
  <2>5. x.sent.hs = q.hs /\ x.auth = q.auth /\ q.setup = reqs[r].setup
    BY <1>2, <2>1, <2>3 DEF Sends
  <2>6. CASE ~Sent(r)
    <3>1. FromSetup(reqs[r])
      BY <1>11, <2>6 DEF AskedInv
    <3>2. PICK via : via = HopOf(reqs[r]).tp
      OBVIOUS
    <3>3. IF q.setup.via = "none" THEN via = "" ELSE via = q.setup.via /\ via # ""
      BY <2>5, <3>1, <3>2 DEF FromSetup, HopOf
    <3>4. x.sent.tp = Chosen(q, q.setup.uri.tp, via)
      BY <2>4, <2>5, <3>1, <3>2 DEF FromSetup
    <3>5. AsAsked(x.sent, q.setup, x.auth)
      BY <2>5, <3>3, <3>4, FirstTransport
    <3> QED BY <2>1, <2>2, <3>5
  <2>7. CASE Pending(r)
    <3>1. PICK t \in 1..Len(txs) : txs[t].req = r /\ Carries(reqs[r], txs[t].sent)
      BY <1>11, <2>7 DEF AskedInv
    <3>2. PICK old : old = txs[t].sent
      OBVIOUS
    <3>3. /\ reqs[r].hop # 0 /\ ~txs[t].auth /\ q.auth /\ Ordered(old.hs)
          /\ txs[t].auth \in BOOLEAN /\ q.auth \in BOOLEAN
      BY <2>1, <3>1, <3>2 DEF RefInv, Alters, OrderInv
    <3>4. old.tp # "" /\ Grew(old.hs, q.hs)
      <4>1. old.tp # "" /\ Grew(old.hs, reqs[r].hs)
        BY <3>1, <3>2 DEF Carries
      <4> QED BY <1>5, <2>1, <3>3, <4>1, GrewTwice, Zenon
    <3>5. x.sent.tp = Chosen(q, "", old.tp)
      BY <2>4, <3>1, <3>2, <3>3 DEF Carries, HopOf
    <3>6. AsAsked(old, q.setup, FALSE)
      <4>1. AsAsked(txs[t].sent, reqs[r].setup, txs[t].auth)
        BY <1>11, <3>1 DEF AskedInv
      <4>2. txs[t].auth = FALSE
        BY <3>3, Zenon
      <4> QED BY <2>5, <3>2, <4>1, <4>2, Zenon
    <3>7. AsAsked(x.sent, q.setup, TRUE)
      BY <2>5, <3>3, <3>4, <3>5, <3>6, SecondTransport
    <3>8. x.auth = TRUE
      BY <2>5, <3>3, Zenon
    <3> QED BY <2>1, <2>2, <3>7, <3>8, Zenon
  <2> QED BY <2>4, <2>6, <2>7
<1>12. ASSUME NEW t \in 1..Len(txs'), OwnBuilder(txs[t].req)'
       PROVE  AsAsked(txs'[t].sent, reqs'[txs'[t].req].setup, txs'[t].auth)
  <2>1. CASE t = Len(txs) + 1 /\ Len(txs') = Len(txs) + 1
    <3>1. txs'[t].req = r
      BY <1>0, <2>1, Zenon DEF Sends
    <3>2. OwnBuilder(r)'
      BY <1>12, <3>1 DEF OwnBuilder
    <3>3. AsAsked(txs'[t].sent, reqs'[r].setup, txs'[t].auth)
      BY <1>3, <1>11, <2>1, <3>2
    <3> QED BY <3>1, <3>3
  <2>2. CASE t \in 1..Len(txs)
    <3>1. PICK q \in 1..Len(reqs) : q = txs[t].req
      BY <2>2 DEF RefInv
    <3>2. txs'[t] = txs[t]
      BY <1>1, <2>2
    <3>3. OwnBuilder(q)'
      BY <1>12, <3>1, <3>2 DEF OwnBuilder
    <3>4. AsAsked(txs[t].sent, reqs[q].setup, txs[t].auth)
      BY <1>3, <2>2, <3>1, <3>3 DEF AskedInv
    <3> QED BY <1>2, <3>1, <3>2, <3>4
  <2> QED BY <1>4, <2>1, <2>2
<1> QED BY <1>8, <1>9, <1>10, <1>12, AskedHolds

FS == INSTANCE FiniteSetTheorems

\* There are finitely many headers, and more of them in a store that has grown.
LEMMA MoreHeaders ==
  ASSUME NEW hs, NEW new, Ordered(hs), Grew(hs, new)
  PROVE  /\ Cardinality(Headers(hs)) \in Nat /\ Cardinality(Headers(new)) \in Nat
         /\ Cardinality(Headers(hs)) <= Cardinality(Headers(new))
<1>1. ASSUME NEW z, Ordered(z) PROVE FS!IsFiniteSet(Headers(z))
  <2> DEFINE s == z.headerOrder
             P(n) == {n} \X (1..Len(GetHeaders(z, n)))
             PP == {P(n) : n \in NamesIn(s)}
  <2>1. Len(s) \in Nat
    BY <1>1, ListLen DEF Ordered, Distinct
  <2>2. FS!IsFiniteSet(NamesIn(s))
    <3>1. FS!IsFiniteSet(1..Len(s))
      BY <2>1, FS!FS_Interval
    <3> DEFINE f == [i \in 1..Len(s) |-> s[i]]
    <3>2. f \in FS!Surjection(1..Len(s), NamesIn(s))
      BY DEF FS!Surjection, NamesIn
    <3> QED BY <3>1, <3>2, FS!FS_Surjection, Zenon
  <2>3. ASSUME NEW n \in NamesIn(s) PROVE FS!IsFiniteSet(P(n))
    <3>1. Len(GetHeaders(z, n)) \in Nat
      BY <1>1, GetList, ListLen
    <3>2. FS!IsFiniteSet(1..Len(GetHeaders(z, n)))
      BY <3>1, FS!FS_Interval
    <3>3. FS!IsFiniteSet({n})
      BY FS!FS_Singleton
    <3> QED BY <3>2, <3>3, FS!FS_Product
  <2>4. FS!IsFiniteSet(PP)
    <3> DEFINE f == [n \in NamesIn(s) |-> P(n)]
    <3>1. f \in FS!Surjection(NamesIn(s), PP)
      BY DEF FS!Surjection
    <3> HIDE DEF f, PP
    <3> QED BY <2>2, <3>1, FS!FS_Surjection
  <2> HIDE DEF P
  <2>5. \A q \in PP : FS!IsFiniteSet(q)
    BY <2>3
  <2>6. FS!IsFiniteSet(UNION PP)
    <3> HIDE DEF PP
    <3> QED BY <2>4, <2>5, FS!FS_UNION
  <2> QED BY <2>6 DEF Headers, PP, P
<1>2. Headers(hs) \subseteq Headers(new)
  <2>1. ASSUME NEW n \in NamesIn(hs.headerOrder), NEW i \in 1..Len(GetHeaders(hs, n))
        PROVE  n \in NamesIn(new.headerOrder) /\ i \in 1..Len(GetHeaders(new, n))
    <3>1. n \in DOMAIN hs.headers
      BY DEF Ordered
    <3>2. n \in DOMAIN new.headers /\ Len(hs.headers[n]) <= Len(new.headers[n])
      BY <3>1 DEF Grew
    <3>3. GetHeaders(hs, n) = hs.headers[n] /\ GetHeaders(new, n) = new.headers[n]
      BY <3>1, <3>2 DEF GetHeaders, Has
    <3>4. Len(hs.headers[n]) \in Nat /\ Len(new.headers[n]) \in Nat
      BY <3>1, <3>2, ListLen DEF Ordered, Grew
    <3> QED BY <3>2, <3>3, <3>4 DEF Ordered, Grew
  <2> QED BY <2>1 DEF Headers
<1>3. FS!IsFiniteSet(Headers(hs)) /\ FS!IsFiniteSet(Headers(new))
  BY <1>1 DEF Grew
<1> DEFINE n == FS!Cardinality(Headers(hs))
           k == FS!Cardinality(Headers(new))
<1>4. n \in Nat /\ k \in Nat /\ n <= k
  BY <1>2, <1>3, FS!FS_Subset, FS!FS_CardinalityType
<1>5. n = Cardinality(Headers(hs)) /\ k = Cardinality(Headers(new))
  BY Zenon DEF Cardinality, FS!Cardinality
<1> HIDE DEF n, k
<1> QED BY <1>4, <1>5, Zenon

\* So a message that was too long is too long with more headers.
LEMMA StaysTooLong == StayTooLong
<1> SUFFICES ASSUME NEW hs, NEW new, Ordered(hs), Grew(hs, new), TooLong(hs) PROVE TooLong(new)
  BY DEF StayTooLong
<1>1. /\ Cardinality(Headers(hs)) \in Nat /\ Cardinality(Headers(new)) \in Nat
      /\ Cardinality(Headers(hs)) <= Cardinality(Headers(new))
  BY MoreHeaders, Zenon
<1>2. Small \in Nat
  BY RequestsAssumption
<1>3. Cardinality(Headers(hs)) > Small
  BY DEF TooLong
<1>4. Cardinality(Headers(new)) > Small
  BY <1>1, <1>2, <1>3, StillMore, Zenon
<1> QED BY <1>4 DEF TooLong

\* What was asked for is what is sent, after every step.
LEMMA AskedStep == MessageInv /\ OrderInv /\ AskedInv /\ [MessageNext]_messageVars => AskedInv'
<1> SUFFICES ASSUME MessageInv, OrderInv, AskedInv, [MessageNext]_messageVars PROVE AskedInv'
  OBVIOUS
<1>1. RefInv /\ ShareInv /\ SentInv
  BY DEF MessageInv
<1> QED BY <1>1, StepKinds, KeepsAsked, BuildsAsked, AltersAsked, StaysTooLong, Zenon

\* A request goes over the transport that was set on it, or else over the one that the URI of
\* its Route or of its recipient names, or else that of its Via hop or UDP, secured for a sips
\* URI and TCP for what is too long for a packet; so it does, though its hop and recipient have
\* been written to, when it is authorized and sent again (request.Transport, AuthorizeRequest),
\* but for a long one to a sips URI, which goes over TCP and then over TLS; and unless its
\* builder was used again: for any number of builders, requests and headers.
THEOREM TransportAsAsked == MessageSpec => []SentAsAsked
<1>1. AskedInv => SentAsAsked
  BY DEF AskedInv, SentAsAsked, AsAsked
<1>2. MessageInit => AskedInv
  <2> SUFFICES ASSUME MessageInit PROVE AskedInv
    OBVIOUS
  <2>1. Len(reqs) = 0 /\ Len(txs) = 0 /\ builder.uri = 0
    BY DEF MessageInit
  <2>2. \A i \in 1..0 : FALSE
    OBVIOUS
  <2> QED BY <2>1, <2>2, Zenon DEF AskedInv
<1>3. MessageInv => RefInv
  BY DEF MessageInv
<1> QED
  BY <1>1, <1>2, <1>3, MessageStart, MessageInductive, OrderStart, OrderStep, AskedStep, PTL
  DEF MessageSpec
=============================================================================
