---------------------------- MODULE ServerProofs ----------------------------
(***************************************************************************)
(* Proofs about server.go: about the SIP server, for any requests, methods *)
(* and callers of Shutdown, and about RequestWithContext, for any capacity *)
(* of the channels and any number of responses.                            *)
(*                                                                         *)
(* OneLateHandler is not inductive.  IInv adds that hwg counts the         *)
(* goroutines handleRequest, that serve holds the only request that is     *)
(* taken and not counted, and that the transaction layer is done, so that  *)
(* nothing is taken any more, once a Shutdown has got past it.             *)
(*                                                                         *)
(* ResultIsVerdict and ResponsesAreRead are not inductive either.  CallInv *)
(* adds that the second attempt starts only from the reader of the first,  *)
(* that a rejection is the last response and no final response meets a     *)
(* timeout, that the reader goes on only behind provisional responses,     *)
(* what is left in the channel when it turns away, and where each result   *)
(* comes from.                                                             *)
(***************************************************************************)
EXTENDS Server, RequestCtx, FiniteSetTheorems, TLAPS

Handling == {r \in Reqs : task[r] \in Live}

CountInv == hwg = Cardinality(Handling)

HeldInv ==
  /\ serving = "count" => held \in Reqs
  /\ \A r \in Reqs : task[r] = "taken" <=> serving = "count" /\ held = r

LayerInv ==
  \A c \in Callers : stop[c] \in {"waitTp", "waitHandlers", "returned"} => txl = "done"

IInv == TypeOK /\ CountInv /\ HeldInv /\ LayerInv /\ OneLateHandler
-----------------------------------------------------------------------------
\* Every step of serve, of the handlers and of Shutdown keeps the types, given what hwg
\* counts: it does not fall below 0.
LEMMA TypeStep == TypeOK /\ CountInv /\ HeldInv /\ [Next]_vars => TypeOK'
<1> SUFFICES ASSUME TypeOK, CountInv, HeldInv, [Next]_vars PROVE TypeOK'
  OBVIOUS
<1>0. IsFiniteSet(Handling) /\ Cardinality(Handling) \in Nat
  <2>1. Handling \subseteq Reqs
    BY DEF Handling
  <2> QED
    BY <2>1, ServerAssumption, FS_Subset, FS_CardinalityType
<1>1. ASSUME NEW r \in Reqs, task[r] \in Live PROVE hwg - 1 \in Nat
  <2>1. Handling # {}
    BY <1>1 DEF Handling
  <2>2. Cardinality(Handling) # 0
    BY <1>0, <2>1, FS_EmptySet
  <2> QED
    BY <1>0, <2>2 DEF CountInv
<1> USE DEF TypeOK, layerVars, handlerVars, Live, LayerStates, Callers
<1>2. ASSUME NEW m \in Methods, OnRequest(m) PROVE TypeOK'
  BY <1>2 DEF OnRequest
<1>3. ASSUME NEW m \in Methods, NEW r \in Reqs, Take(r, m) PROVE TypeOK'
  BY <1>3 DEF Take
<1>4. CASE Count
  BY <1>4 DEF Count, HeldInv
<1>5. CASE ServeClosed
  BY <1>5 DEF ServeClosed
<1>6. ASSUME NEW r \in Reqs, Lookup(r) PROVE TypeOK'
  BY <1>1, <1>6 DEF Lookup, Finish
<1>7. ASSUME NEW r \in Reqs, HandlerEnds(r) PROVE TypeOK'
  BY <1>1, <1>7 DEF HandlerEnds, Finish
<1>8. ASSUME NEW r \in Reqs, DrainEnds(r) \/ TxEnds(r) PROVE TypeOK'
  BY <1>8 DEF DrainEnds, TxEnds
<1>9. ASSUME NEW c \in Callers, Shutdown(c) PROVE TypeOK'
  <2>1. CASE ShutdownTest(c)
    BY <2>1 DEF ShutdownTest, StopVars
  <2>2. CASE ShutdownUnset(c)
    BY <2>2 DEF ShutdownUnset, StopVars
  <2>3. CASE ShutdownCancelTx(c)
    BY <2>3 DEF ShutdownCancelTx, StopVars
  <2>4. CASE ShutdownCancelTp(c)
    BY <2>4 DEF ShutdownCancelTp, StopVars
  <2>5. CASE ShutdownTpDone(c)
    BY <2>5 DEF ShutdownTpDone, StopVars
  <2>6. CASE ShutdownWait(c)
    BY <2>6 DEF ShutdownWait, StopVars
  <2> QED
    BY <1>9, <2>1, <2>2, <2>3, <2>4, <2>5, <2>6 DEF Shutdown
<1>10. CASE TxLayerDone
  BY <1>10 DEF TxLayerDone
<1>11. CASE TpLayerDone \/ TpLayerHangs
  BY <1>11 DEF TpLayerDone, TpLayerHangs
<1>12. CASE UNCHANGED vars
  BY <1>12 DEF vars
<1> QED
  BY <1>2, <1>3, <1>4, <1>5, <1>6, <1>7, <1>8, <1>9, <1>10, <1>11, <1>12
     DEF Next, Progress, Shutdown

\* hwg.Add and the deferred hwg.Done keep the count: Count adds the request that serve
\* holds, Finish takes out one that is being handled.
LEMMA CountStep == TypeOK /\ CountInv /\ HeldInv /\ [Next]_vars => CountInv'
<1> SUFFICES ASSUME TypeOK, CountInv, HeldInv, [Next]_vars PROVE CountInv'
  OBVIOUS
<1>0. IsFiniteSet(Handling) /\ Cardinality(Handling) \in Nat
  <2>1. Handling \subseteq Reqs
    BY DEF Handling
  <2> QED
    BY <2>1, ServerAssumption, FS_Subset, FS_CardinalityType
<1>1. ASSUME UNCHANGED hwg, Handling' = Handling PROVE CountInv'
  BY <1>1 DEF CountInv
<1>2. ASSUME NEW r \in Reqs, task[r] \in Live, Finish(r) PROVE CountInv'
  <2>1. Handling' = Handling \ {r} /\ r \in Handling
    BY <1>2 DEF Handling, Finish, Live, TypeOK
  <2>2. Cardinality(Handling') = Cardinality(Handling) - 1
    BY <1>0, <2>1, FS_RemoveElement
  <2> QED
    BY <1>2, <2>2 DEF CountInv, Finish
<1>3. CASE Count
  <2>1. held \in Reqs /\ task[held] = "taken"
    BY <1>3 DEF Count, HeldInv
  <2>2. Handling' = Handling \cup {held} /\ held \notin Handling
    BY <1>3, <2>1 DEF Count, Handling, Live, TypeOK
  <2>3. Cardinality(Handling') = Cardinality(Handling) + 1
    BY <1>0, <2>2, FS_AddElement
  <2> QED
    BY <1>3, <2>3 DEF CountInv, Count
<1>4. ASSUME NEW m \in Methods, NEW r \in Reqs, Take(r, m) PROVE CountInv'
  <2>1. Handling' = Handling
    BY <1>4 DEF Take, Handling, Live, TypeOK
  <2> QED
    BY <1>1, <1>4, <2>1 DEF Take
<1>5. ASSUME NEW r \in Reqs, Lookup(r) PROVE CountInv'
  <2>1. CASE Finish(r)
    BY <1>2, <1>5, <2>1 DEF Lookup, Live
  <2>2. CASE UNCHANGED hwg /\ task' \in {[task EXCEPT ![r] = "running"], [task EXCEPT ![r] = "respond"]}
    <3>1. Handling' = Handling
      BY <1>5, <2>2 DEF Lookup, Handling, Live, TypeOK
    <3> QED
      BY <1>1, <2>2, <3>1
  <2> QED
    BY <1>5, <2>1, <2>2 DEF Lookup
<1>6. ASSUME NEW r \in Reqs, HandlerEnds(r) PROVE CountInv'
  BY <1>2, <1>6 DEF HandlerEnds, Live
<1>7. ASSUME UNCHANGED <<hwg, task>> PROVE CountInv'
  BY <1>1, <1>7 DEF Handling
<1>8. ASSUME NEW m \in Methods, OnRequest(m) PROVE CountInv'
  BY <1>7, <1>8 DEF OnRequest
<1>9. ASSUME NEW r \in Reqs, DrainEnds(r) \/ TxEnds(r) PROVE CountInv'
  BY <1>7, <1>9 DEF DrainEnds, TxEnds
<1>10. ASSUME NEW c \in Callers, Shutdown(c) PROVE CountInv'
  BY <1>7, <1>10 DEF Shutdown, ShutdownTest, ShutdownUnset, ShutdownCancelTx, ShutdownCancelTp,
                     ShutdownTpDone, ShutdownWait, StopVars, handlerVars
<1>11. CASE ServeClosed \/ TxLayerDone \/ TpLayerDone \/ TpLayerHangs \/ UNCHANGED vars
  BY <1>7, <1>11 DEF ServeClosed, TxLayerDone, TpLayerDone, TpLayerHangs, handlerVars, vars
<1> QED
  BY <1>3, <1>4, <1>5, <1>6, <1>8, <1>9, <1>10, <1>11 DEF Next, Progress, Shutdown, Callers

\* serve holds at most one request that is not counted.
LEMMA HeldStep == TypeOK /\ HeldInv /\ [Next]_vars => HeldInv'
<1> SUFFICES ASSUME TypeOK, HeldInv, [Next]_vars PROVE HeldInv'
  OBVIOUS
<1> USE DEF HeldInv
<1>1. ASSUME NEW m \in Methods, NEW r \in Reqs, Take(r, m) PROVE HeldInv'
  BY <1>1 DEF Take, TypeOK
<1>2. CASE Count
  BY <1>2 DEF Count, TypeOK
<1>3. ASSUME NEW r \in Reqs, Lookup(r) PROVE HeldInv'
  BY <1>3 DEF Lookup, Finish, TypeOK
<1>4. ASSUME NEW r \in Reqs, HandlerEnds(r) PROVE HeldInv'
  BY <1>4 DEF HandlerEnds, Finish, TypeOK
<1>5. CASE ServeClosed
  BY <1>5 DEF ServeClosed, handlerVars
<1>6. ASSUME UNCHANGED <<serving, held, task>> PROVE HeldInv'
  BY <1>6
<1>7. ASSUME NEW m \in Methods, OnRequest(m) PROVE HeldInv'
  BY <1>6, <1>7 DEF OnRequest
<1>8. ASSUME NEW r \in Reqs, DrainEnds(r) \/ TxEnds(r) PROVE HeldInv'
  BY <1>6, <1>8 DEF DrainEnds, TxEnds
<1>9. ASSUME NEW c \in Callers, Shutdown(c) PROVE HeldInv'
  BY <1>6, <1>9 DEF Shutdown, ShutdownTest, ShutdownUnset, ShutdownCancelTx, ShutdownCancelTp,
                    ShutdownTpDone, ShutdownWait, StopVars, handlerVars
<1>10. CASE TxLayerDone \/ TpLayerDone \/ TpLayerHangs \/ UNCHANGED vars
  BY <1>6, <1>10 DEF TxLayerDone, TpLayerDone, TpLayerHangs, handlerVars, vars
<1> QED
  BY <1>1, <1>2, <1>3, <1>4, <1>5, <1>7, <1>8, <1>9, <1>10 DEF Next, Progress, Shutdown, Callers

\* A Shutdown gets past the transaction layer only when it is done, and it stays done.
LEMMA LayerStep == TypeOK /\ LayerInv /\ [Next]_vars => LayerInv'
<1> SUFFICES ASSUME TypeOK, LayerInv, [Next]_vars PROVE LayerInv'
  OBVIOUS
<1>1. ASSUME UNCHANGED <<stop, txl>> PROVE LayerInv'
  BY <1>1 DEF LayerInv
<1>2. ASSUME NEW c \in Callers, Shutdown(c) PROVE LayerInv'
  <2>1. CASE ShutdownTest(c) \/ ShutdownUnset(c)
    BY <2>1 DEF LayerInv, TypeOK, ShutdownTest, ShutdownUnset, StopVars, layerVars
  <2>2. CASE ShutdownCancelTx(c) \/ ShutdownCancelTp(c)
    BY <2>2 DEF LayerInv, TypeOK, ShutdownCancelTx, ShutdownCancelTp, StopVars
  <2>3. CASE ShutdownTpDone(c) \/ ShutdownWait(c)
    BY <2>3 DEF LayerInv, TypeOK, ShutdownTpDone, ShutdownWait, StopVars, layerVars
  <2> QED
    BY <1>2, <2>1, <2>2, <2>3 DEF Shutdown
<1>3. CASE TxLayerDone
  BY <1>3 DEF TxLayerDone, LayerInv
<1>4. ASSUME NEW m \in Methods, OnRequest(m) \/ \E r \in Reqs : Take(r, m) PROVE LayerInv'
  BY <1>1, <1>4 DEF OnRequest, Take, layerVars
<1>5. ASSUME NEW r \in Reqs, Lookup(r) \/ HandlerEnds(r) \/ DrainEnds(r) \/ TxEnds(r)
      PROVE LayerInv'
  BY <1>1, <1>5 DEF Lookup, HandlerEnds, DrainEnds, TxEnds, layerVars
<1>6. CASE Count \/ ServeClosed \/ TpLayerDone \/ TpLayerHangs \/ UNCHANGED vars
  BY <1>1, <1>6 DEF Count, ServeClosed, TpLayerDone, TpLayerHangs, vars, layerVars
<1> QED
  BY <1>2, <1>3, <1>4, <1>5, <1>6 DEF Next, Progress, Shutdown, Callers

\* hwg.Wait() returns when nothing is counted: what is then taken is what serve holds, and
\* nothing is taken after that.
LEMMA LateStep == IInv /\ [Next]_vars => OneLateHandler'
<1> SUFFICES ASSUME IInv, [Next]_vars PROVE OneLateHandler'
  OBVIOUS
<1> DEFINE Busy == {r \in Reqs : task[r] \in Live \cup {"taken"}}
           HasReturned == \E c \in Callers : stop[c] = "returned"
<1>1. OneLateHandler <=> (HasReturned => \A r1, r2 \in Busy : r1 = r2)
  BY DEF OneLateHandler
<1>2. OneLateHandler' <=> (HasReturned' => \A r1, r2 \in Busy' : r1 = r2)
  BY DEF OneLateHandler
<1>3. ASSUME HasReturned' => HasReturned, Busy' \subseteq Busy PROVE OneLateHandler'
  BY <1>1, <1>2, <1>3 DEF IInv
<1>4. ASSUME NEW m \in Methods, NEW r \in Reqs, Take(r, m) PROVE OneLateHandler'
  <2>1. ~HasReturned'
    BY <1>4 DEF Take, IInv, LayerInv
  <2> QED
    BY <1>2, <2>1
<1>5. ASSUME NEW c \in Callers, ShutdownWait(c) PROVE OneLateHandler'
  <2>1. Handling = {}
    <3>1. IsFiniteSet(Handling)
      <4>1. Handling \subseteq Reqs
        BY DEF Handling
      <4> QED
        BY <4>1, ServerAssumption, FS_Subset
    <3>2. Cardinality(Handling) = 0
      BY <1>5 DEF ShutdownWait, IInv, CountInv
    <3> QED
      BY <3>1, <3>2, FS_EmptySet
  <2>2. \A r \in Busy : r = held
    BY <2>1 DEF Handling, IInv, HeldInv
  <2>3. Busy' = Busy
    BY <1>5 DEF ShutdownWait, StopVars, handlerVars
  <2> QED
    BY <1>2, <2>2, <2>3
<1>6. CASE Count
  <2>1. Busy' \subseteq Busy
    BY <1>6 DEF Count, IInv, TypeOK, HeldInv, Live
  <2>2. HasReturned' => HasReturned
    BY <1>6 DEF Count
  <2> QED
    BY <1>3, <2>1, <2>2
<1>7. ASSUME NEW r \in Reqs, Lookup(r) \/ HandlerEnds(r) PROVE OneLateHandler'
  <2>1. Busy' \subseteq Busy
    BY <1>7 DEF Lookup, HandlerEnds, Finish, IInv, TypeOK, Live
  <2>2. HasReturned' => HasReturned
    BY <1>7 DEF Lookup, HandlerEnds
  <2> QED
    BY <1>3, <2>1, <2>2
<1>8. ASSUME UNCHANGED task, HasReturned' => HasReturned PROVE OneLateHandler'
  BY <1>3, <1>8
<1>9. ASSUME NEW m \in Methods, OnRequest(m) PROVE OneLateHandler'
  BY <1>8, <1>9 DEF OnRequest
<1>10. ASSUME NEW r \in Reqs, DrainEnds(r) \/ TxEnds(r) PROVE OneLateHandler'
  BY <1>8, <1>10 DEF DrainEnds, TxEnds
<1>11. ASSUME NEW c \in Callers, Shutdown(c), ~ShutdownWait(c) PROVE OneLateHandler'
  <2>1. UNCHANGED task
    BY <1>11 DEF Shutdown, ShutdownTest, ShutdownUnset, ShutdownCancelTx, ShutdownCancelTp,
                 ShutdownTpDone, StopVars, handlerVars
  <2>2. HasReturned' => HasReturned
    BY <1>11 DEF Shutdown, ShutdownTest, ShutdownUnset, ShutdownCancelTx, ShutdownCancelTp,
                 ShutdownTpDone, StopVars, IInv, TypeOK
  <2> QED
    BY <1>8, <2>1, <2>2
<1>12. CASE ServeClosed \/ TxLayerDone \/ TpLayerDone \/ TpLayerHangs \/ UNCHANGED vars
  BY <1>8, <1>12 DEF ServeClosed, TxLayerDone, TpLayerDone, TpLayerHangs, handlerVars, vars
<1> HIDE DEF Busy, HasReturned
<1> QED
  BY <1>4, <1>5, <1>6, <1>7, <1>9, <1>10, <1>11, <1>12 DEF Next, Progress, Shutdown, Callers

\* NewServer establishes the invariant, and every step keeps it.
LEMMA Inductive == Spec => []IInv
<1>1. NewServer => IInv
  <2> SUFFICES ASSUME NewServer PROVE IInv
    OBVIOUS
  <2>1. Handling = {}
    BY DEF NewServer, Handling, Live
  <2>2. CountInv
    BY <2>1, FS_EmptySet DEF NewServer, CountInv
  <2>3. TypeOK
    BY DEF NewServer, TypeOK, LayerStates, Live
  <2> QED
    BY <2>2, <2>3 DEF NewServer, IInv, HeldInv, LayerInv, OneLateHandler
<1>2. IInv /\ [Next]_vars => IInv'
  BY TypeStep, CountStep, HeldStep, LayerStep, LateStep DEF IInv
<1> QED
  BY <1>1, <1>2, PTL DEF Spec

\* The types of the server; hwg never becomes negative, which would panic.
THEOREM TypeCorrect == Spec => []TypeOK
BY Inductive, PTL DEF IInv

\* Whoever calls Shutdown, and how often: when hwg.Wait() has returned, at most one request
\* is still being handled or about to be.
THEOREM AtMostOneLate == Spec => []OneLateHandler
BY Inductive, PTL DEF IInv

-----------------------------------------------------------------------------
(***************************************************************************)
(* RequestWithContext.                                                     *)
(***************************************************************************)
Results == {"none", "refused", "transport", "timeout", "487", "ok", "rejected", "unauthorized"}
Rejects == {"401", "300_plus"}

CallTypeOK ==
  /\ main \in [Attempts -> {"idle", "request", "layer", "stored", "select", "wait", "returned"}]
  /\ reader \in [Attempts -> {"off", "both", "responses", "nested", "ended"}]
  /\ drainer \in [Attempts -> {"off", "on", "ended"}]
  /\ result \in [Attempts -> Results]
  /\ stage \in [Attempts -> {"none", "made", "served"}]
  /\ up \in [Attempts -> Seq(Classes)] /\ read \in [Attempts -> Nat]
  /\ errs \in [Attempts -> {<< >>, <<"timeout">>, <<"transport">>}]
  /\ errRead \in [Attempts -> Nat] /\ closed \in [Attempts -> BOOLEAN]
  /\ \A a \in Attempts : read[a] <= Len(up[a])

\* The goroutines of an attempt start with its transaction, the second attempt with the
\* reader of the first, and what follows a 2xx is drained after the reader has ended.
StartInv ==
  /\ reader[1] \in {"off", "both", "responses"} => main[2] = "idle"
  /\ reader[2] # "nested"
  /\ \A a \in Attempts :
       /\ main[a] \in {"idle", "request", "layer", "stored"} => reader[a] = "off"
       /\ stage[a] = "served" => reader[a] # "off"
       /\ drainer[a] # "off" => reader[a] = "ended"

\* A rejection is the last response of a transaction, and no final response comes before
\* or after a timeout.
OrderInv ==
  \A a \in Attempts :
    /\ \A i \in 1..Len(up[a]) : up[a][i] \in Rejects => i = Len(up[a])
    /\ errs[a] = <<"timeout">> => ~Passed(a, Final)

\* The reader goes on only behind provisional responses.
ReadInv ==
  \A a \in Attempts :
    /\ reader[a] = "off" => read[a] = 0
    /\ Reading(a) => \A i \in 1..read[a] : up[a][i] = "1xx"

\* What is left in the channel of responses when the reader has turned away.
LeftInv ==
  \A a \in Attempts :
    /\ reader[a] = "nested" => read[a] = Len(up[a]) /\ Passed(a, Rejects)
    /\ reader[a] = "ended" => \/ read[a] = Len(up[a]) /\ (closed[a] \/ Passed(a, Rejects))
                              \/ drainer[a] = "on"
                              \/ result[a] \in {"timeout", "transport"}

\* Where the result of an attempt comes from.
Verdict(a) ==
  \/ result[a] \in {"ok", "rejected", "unauthorized"} /\ Passed(a, Final)
  \/ result[a] = "487" /\ closed[a] /\ ~Passed(a, Final)
  \/ result[a] = "timeout" /\ errs[a] = <<"timeout">>
  \/ result[a] = "transport"

VerdictInv == \A a \in Attempts : Returned(a) => Verdict(a)

CallInv == CallTypeOK /\ StartInv /\ OrderInv /\ ReadInv /\ LeftInv /\ VerdictInv

\* A response passed up is the last one, and the others stay where they are.
LEMMA UpGrows ==
  ASSUME CallTypeOK, NEW a \in Attempts, NEW class \in Classes, NEW b \in Attempts,
         up' = [up EXCEPT ![a] = Append(@, class)]
  PROVE  /\ up'[b] \in Seq(Classes)
         /\ b # a => up'[b] = up[b]
         /\ Len(up'[a]) = Len(up[a]) + 1 /\ up'[a][Len(up[a]) + 1] = class
         /\ \A i \in 1..Len(up[a]) : up'[a][i] = up[a][i]
<1>1. up \in [Attempts -> Seq(Classes)]
  BY DEF CallTypeOK
<1> QED BY <1>1

\* The error that is read.
LEMMA ErrorRead ==
  ASSUME CallTypeOK, NEW a \in Attempts, errRead[a] < Len(errs[a])
  PROVE  \/ errs[a] = <<"timeout">> /\ errs[a][errRead[a] + 1] = "timeout"
         \/ errs[a] = <<"transport">> /\ errs[a][errRead[a] + 1] = "transport"
<1>1. errs[a] \in {<< >>, <<"timeout">>, <<"transport">>} /\ errRead[a] \in Nat
  BY DEF CallTypeOK
<1>2. errs[a] # << >>
  BY <1>1
<1>3. Len(errs[a]) = 1
  <2>1. CASE errs[a] = <<"timeout">>
    BY <2>1
  <2>2. CASE errs[a] = <<"transport">>
    BY <2>2
  <2> QED BY <1>1, <1>2, <2>1, <2>2
<1>4. errRead[a] + 1 = 1
  BY <1>1, <1>3
<1> QED BY <1>1, <1>2, <1>4

\* A transaction that has reported an error is told from one that has not.
LEMMA OneErrorIsNotNone == <<"timeout">> # << >>
OBVIOUS

\* Passing a response up adds its class, for that attempt, to the classes passed up.
LEMMA PassedGrows ==
  ASSUME CallTypeOK, NEW a \in Attempts, NEW class \in Classes, NEW b \in Attempts,
         up' = [up EXCEPT ![a] = Append(@, class)], NEW classes
  PROVE  Passed(b, classes)' <=> Passed(b, classes) \/ (b = a /\ class \in classes)
<1>1. up[a] \in Seq(Classes) /\ up'[a] \in Seq(Classes)
  BY UpGrows DEF CallTypeOK
<1>2. CASE b = a
  <2>1. DOMAIN up[a] = 1..Len(up[a]) /\ DOMAIN up'[a] = 1..Len(up'[a])
    BY <1>1
  <2>2. Len(up[a]) \in Nat
    BY <1>1
  <2>3. ASSUME NEW i \in DOMAIN up'[a], up'[a][i] \in classes
        PROVE  Passed(a, classes) \/ class \in classes
    <3>1. i \in 1..Len(up[a]) \/ i = Len(up[a]) + 1
      BY <2>1, <2>2, <2>3, UpGrows
    <3> QED BY <2>1, <2>3, <3>1, UpGrows DEF Passed
  <2>4. ASSUME NEW i \in DOMAIN up[a], up[a][i] \in classes
        PROVE  i \in DOMAIN up'[a] /\ up'[a][i] \in classes
    BY <2>1, <2>2, <2>4, UpGrows
  <2>5. class \in classes => Len(up[a]) + 1 \in DOMAIN up'[a] /\ up'[a][Len(up[a]) + 1] \in classes
    <3>1. Len(up'[a]) = Len(up[a]) + 1 /\ up'[a][Len(up[a]) + 1] = class
      BY UpGrows
    <3>2. Len(up[a]) + 1 \in 1..Len(up'[a])
      BY <2>2, <3>1
    <3> QED BY <2>1, <3>1, <3>2
  <2> QED BY <1>2, <2>3, <2>4, <2>5 DEF Passed
<1>3. CASE b # a
  BY <1>3, UpGrows DEF Passed
<1> QED BY <1>2, <1>3

\* Every step of the call keeps the types.
LEMMA CallTypeStep == CallInv /\ [CallNext]_callVars => CallTypeOK'
<1> SUFFICES ASSUME CallInv, [CallNext]_callVars PROVE CallTypeOK'
  OBVIOUS
<1> USE DEF CallInv, CallTypeOK, Results, srvVars, upVars, errVars, txVars
<1>0. \A b \in Attempts : Len(up[b]) \in Nat
  OBVIOUS
<1>1. CASE UNCHANGED callVars \/ Begin \/ ServerStops \/ ContextEnds
  BY <1>1 DEF callVars, Begin, ServerStops, ContextEnds
<1>2. ASSUME NEW a \in Attempts, Request(a) PROVE CallTypeOK'
  BY <1>2 DEF Request, Fails
<1>3. ASSUME NEW a \in Attempts, Watch(a) \/ Wait(a) PROVE CallTypeOK'
  BY <1>3 DEF Watch, Wait
<1>4. ASSUME NEW a \in Attempts, ReadError(a) PROVE CallTypeOK'
  <2>1. errRead[a] < Len(errs[a]) => errs[a][errRead[a] + 1] \in {"timeout", "transport"}
    BY ErrorRead
  <2>2. \/ /\ errRead' = [errRead EXCEPT ![a] = errRead[a] + 1]
           /\ reader' = [reader EXCEPT ![a] = "ended"]
           /\ \E err \in {"timeout", "transport"} : result' = [result EXCEPT ![a] = err]
        \/ reader' = [reader EXCEPT ![a] = "responses"] /\ UNCHANGED <<result, errRead>>
    BY <1>4, <2>1 DEF ReadError, Ends
  <2>3. UNCHANGED <<main, drainer, stage, upVars, errs, closed>>
    BY <1>4 DEF ReadError
  <2>4. /\ result \in [Attempts -> Results] /\ errRead \in [Attempts -> Nat]
        /\ reader \in [Attempts -> {"off", "both", "responses", "nested", "ended"}]
    OBVIOUS
  <2>5. /\ result' \in [Attempts -> Results] /\ errRead' \in [Attempts -> Nat]
        /\ reader' \in [Attempts -> {"off", "both", "responses", "nested", "ended"}]
    <3> HIDE DEF CallInv, CallTypeOK
    <3> QED BY <2>2, <2>4
  <2> QED BY <2>3, <2>5
<1>5. ASSUME NEW a \in Attempts, ReadClosed(a) PROVE CallTypeOK'
  BY <1>5 DEF ReadClosed, Ends
<1>6. ASSUME NEW a \in Attempts, ReadResponse(a) PROVE CallTypeOK'
  <2>1. read' \in [Attempts -> Nat] /\ \A b \in Attempts : read'[b] <= Len(up[b])
    BY <1>6, <1>0 DEF ReadResponse
  <2>2. result' \in [Attempts -> Results]
    BY <1>6 DEF ReadResponse, Ends
  <2>3. /\ reader' \in [Attempts -> {"off", "both", "responses", "nested", "ended"}]
        /\ drainer' \in [Attempts -> {"off", "on", "ended"}]
    BY <1>6 DEF ReadResponse, Ends
  <2>4. main' \in [Attempts -> {"idle", "request", "layer", "stored", "select", "wait", "returned"}]
    BY <1>6 DEF ReadResponse
  <2>5. UNCHANGED <<stage, up, errVars, closed>>
    BY <1>6 DEF ReadResponse
  <2> QED BY <2>1, <2>2, <2>3, <2>4, <2>5
<1>7. ASSUME NEW a \in Attempts, Drain(a) PROVE CallTypeOK'
  <2>1. read' \in [Attempts -> Nat] /\ \A b \in Attempts : read'[b] <= Len(up[b])
    <3> HIDE DEF CallInv, CallTypeOK
    <3>1. UNCHANGED read \/ (read[a] < Len(up[a]) /\ read' = [read EXCEPT ![a] = read[a] + 1])
      BY <1>7 DEF Drain
    <3>2. read \in [Attempts -> Nat] /\ \A b \in Attempts : read[b] <= Len(up[b])
      BY DEF CallInv, CallTypeOK
    <3> QED BY <3>1, <3>2, <1>0
  <2>2. drainer' \in [Attempts -> {"off", "on", "ended"}]
    BY <1>7 DEF Drain
  <2>3. UNCHANGED <<main, reader, result, stage, up, errVars, closed>>
    BY <1>7 DEF Drain
  <2> QED BY <2>1, <2>2, <2>3
<1>8. CASE NestedReturns(1)
  BY <1>8 DEF NestedReturns, Ends, Attempts
<1>9. ASSUME NEW a \in Attempts, NEW class \in Classes, TxPassUp(a, class) PROVE CallTypeOK'
  BY <1>9, UpGrows DEF TxPassUp, TxUnchanged
<1>10. ASSUME NEW a \in Attempts, NEW kind \in {"timeout", "transport"}, TxReport(a, kind)
       PROVE  CallTypeOK'
  BY <1>10 DEF TxReport, TxUnchanged
<1>11. ASSUME NEW a \in Attempts, TxEnd(a) PROVE CallTypeOK'
  BY <1>11 DEF TxEnd, TxUnchanged
<1> HIDE DEF CallInv, CallTypeOK
<1> QED
  BY <1>1, <1>2, <1>3, <1>4, <1>5, <1>6, <1>7, <1>8, <1>9, <1>10, <1>11
  DEF CallNext, CallProgress, TxStep

\* Every step of the call keeps the order in which its goroutines start.
LEMMA StartStep == CallInv /\ [CallNext]_callVars => StartInv'
<1> SUFFICES ASSUME CallInv, [CallNext]_callVars PROVE StartInv'
  OBVIOUS
<1> USE DEF StartInv, srvVars, upVars, errVars, txVars
<1>0. /\ StartInv
      /\ main \in [Attempts -> {"idle", "request", "layer", "stored", "select", "wait", "returned"}]
      /\ reader \in [Attempts -> {"off", "both", "responses", "nested", "ended"}]
      /\ drainer \in [Attempts -> {"off", "on", "ended"}]
      /\ stage \in [Attempts -> {"none", "made", "served"}]
      /\ 1 \in Attempts /\ 2 \in Attempts /\ \A a \in Attempts : a = 1 \/ a = 2
  BY DEF CallInv, CallTypeOK, Attempts
<1>1. ASSUME UNCHANGED <<main, reader, drainer, stage>> PROVE StartInv'
  BY <1>1, <1>0
<1>2. CASE UNCHANGED callVars \/ ServerStops \/ ContextEnds \/ TxStep
  BY <1>1, <1>2 DEF callVars, ServerStops, ContextEnds, TxStep, TxPassUp, TxReport, TxEnd,
    TxUnchanged
<1>3. CASE Begin
  BY <1>0, <1>3 DEF Begin
<1>4. ASSUME NEW a \in Attempts, Request(a) PROVE StartInv'
  BY <1>0, <1>4 DEF Request, Fails
<1>5. ASSUME NEW a \in Attempts, Watch(a) PROVE StartInv'
  BY <1>1, <1>5 DEF Watch
<1>6. ASSUME NEW a \in Attempts, Wait(a) PROVE StartInv'
  BY <1>0, <1>6 DEF Wait
<1>7. ASSUME NEW a \in Attempts, ReadError(a) PROVE StartInv'
  BY <1>0, <1>7 DEF ReadError, Ends
<1>8. ASSUME NEW a \in Attempts, ReadClosed(a) PROVE StartInv'
  BY <1>0, <1>8 DEF ReadClosed, Ends, Reading
<1>9. ASSUME NEW a \in Attempts, ReadResponse(a) PROVE StartInv'
  <2>1. Reading(a) /\ UNCHANGED stage
    BY <1>9 DEF ReadResponse
  <2>2. CASE UNCHANGED <<reader, main, drainer>>
    BY <1>1, <2>1, <2>2
  <2>3. CASE /\ reader' = [reader EXCEPT ![a] = "ended"] /\ UNCHANGED main
             /\ UNCHANGED drainer \/ drainer' = [drainer EXCEPT ![a] = "on"]
    BY <1>0, <2>1, <2>3 DEF Reading
  <2>4. CASE /\ a < 2 /\ main' = [main EXCEPT ![a + 1] = "request"]
             /\ reader' = [reader EXCEPT ![a] = "nested"] /\ UNCHANGED drainer
    <3>1. a = 1
      BY <1>0, <2>4
    <3> QED BY <1>0, <2>1, <2>4, <3>1 DEF Reading
  <2> QED BY <1>9, <2>2, <2>3, <2>4 DEF ReadResponse, Ends
<1>10. ASSUME NEW a \in Attempts, Drain(a) PROVE StartInv'
  BY <1>0, <1>10 DEF Drain
<1>11. CASE NestedReturns(1)
  BY <1>0, <1>11 DEF NestedReturns, Ends
<1> QED
  BY <1>2, <1>3, <1>4, <1>5, <1>6, <1>7, <1>8, <1>9, <1>10, <1>11 DEF CallNext, CallProgress

\* Every step of the call keeps the order of responses and errors: only the steps of the
\* transaction add to them.
LEMMA OrderStep == CallInv /\ [CallNext]_callVars => OrderInv'
<1> SUFFICES ASSUME CallInv, [CallNext]_callVars PROVE OrderInv'
  OBVIOUS
<1> USE DEF srvVars, upVars, errVars, txVars
<1>0. /\ OrderInv /\ CallTypeOK
      /\ \A b \in Attempts : Len(up[b]) \in Nat /\ DOMAIN up[b] = 1..Len(up[b])
  BY DEF CallInv, CallTypeOK
<1>1. ASSUME UNCHANGED <<up, errs>> PROVE OrderInv'
  BY <1>0, <1>1 DEF OrderInv, Passed
<1>2. CASE \/ UNCHANGED callVars \/ ServerStops \/ ContextEnds \/ Begin
           \/ \E a \in Attempts : Request(a) \/ Watch(a) \/ Wait(a) \/ Drain(a)
  BY <1>1, <1>2 DEF callVars, ServerStops, ContextEnds, Begin, Request, Watch, Wait, Drain
<1>3. CASE \/ \E a \in Attempts : \/ ReadError(a) \/ ReadClosed(a) \/ ReadResponse(a)
                                  \/ TxEnd(a)
           \/ NestedReturns(1)
  BY <1>1, <1>3 DEF ReadError, ReadClosed, ReadResponse, NestedReturns, TxEnd, TxUnchanged
<1>4. ASSUME NEW a \in Attempts, NEW class \in Classes, TxPassUp(a, class) PROVE OrderInv'
  <2>1. /\ up' = [up EXCEPT ![a] = Append(@, class)] /\ ~Passed(a, Rejects)
        /\ errs[a] # << >> => Passed(a, {"2xx"})
        /\ UNCHANGED errs
    BY <1>4 DEF TxPassUp, TxUnchanged, Rejects
  <2>2. ASSUME NEW b \in Attempts, NEW i \in 1..Len(up'[b]), up'[b][i] \in Rejects
        PROVE  i = Len(up'[b])
    <3>1. CASE b = a
      <4>1. i \in 1..Len(up[a]) => up'[a][i] = up[a][i] /\ i \in DOMAIN up[a]
        BY <1>0, <2>1, UpGrows
      <4>2. i \notin 1..Len(up[a])
        BY <2>1, <2>2, <3>1, <4>1 DEF Passed
      <4>3. Len(up'[a]) = Len(up[a]) + 1
        BY <1>0, <2>1, UpGrows
      <4> QED BY <1>0, <3>1, <4>2, <4>3
    <3>2. CASE b # a
      BY <1>0, <2>1, <2>2, <3>2, UpGrows DEF OrderInv
    <3> QED BY <3>1, <3>2
  <2>3. ASSUME NEW b \in Attempts, errs'[b] = <<"timeout">> PROVE ~Passed(b, Final)'
    <3>1. ~Passed(b, Final) /\ errs[b] # << >>
      BY <1>0, <2>1, <2>3 DEF OrderInv
    <3>2. b # a
      BY <2>1, <3>1 DEF Passed, Final, Classes
    <3> QED BY <1>0, <2>1, <3>1, <3>2, PassedGrows
  <2> QED BY <2>2, <2>3 DEF OrderInv
<1>5. ASSUME NEW a \in Attempts, NEW kind \in {"timeout", "transport"}, TxReport(a, kind)
      PROVE  OrderInv'
  <2>1. /\ errs' = [errs EXCEPT ![a] = <<kind>>]
        /\ kind = "timeout" => ~Passed(a, Final)
        /\ UNCHANGED up
    BY <1>5 DEF TxReport, TxUnchanged
  <2>2. \A b \in Attempts : UNCHANGED Passed(b, Final)
    BY <2>1 DEF Passed
  <2>3. ASSUME NEW b \in Attempts, errs'[b] = <<"timeout">> PROVE ~Passed(b, Final)'
    <3>1. CASE b = a
      <4>1. <<kind>> = <<"timeout">>
        BY <1>0, <2>1, <2>3, <3>1 DEF CallTypeOK
      <4>2. kind = "timeout"
        BY <4>1
      <4> QED BY <2>1, <2>2, <3>1, <4>2
    <3>2. CASE b # a
      <4>1. errs[b] = <<"timeout">>
        BY <1>0, <2>1, <2>3, <3>2 DEF CallTypeOK
      <4> QED BY <1>0, <2>2, <4>1 DEF OrderInv
    <3> QED BY <3>1, <3>2
  <2> QED BY <1>0, <2>1, <2>3 DEF OrderInv
<1> QED
  BY <1>2, <1>3, <1>4, <1>5 DEF CallNext, CallProgress, TxStep

\* Every step of the call keeps what the reader has behind it.
LEMMA ReadStep == CallInv /\ [CallNext]_callVars => ReadInv'
<1> SUFFICES ASSUME CallInv, [CallNext]_callVars PROVE ReadInv'
  OBVIOUS
<1> USE DEF srvVars, upVars, errVars, txVars
<1>0. /\ ReadInv /\ StartInv /\ CallTypeOK
      /\ reader \in [Attempts -> {"off", "both", "responses", "nested", "ended"}]
      /\ read \in [Attempts -> Nat]
      /\ \A b \in Attempts : Len(up[b]) \in Nat /\ read[b] <= Len(up[b])
  BY DEF CallInv, CallTypeOK
<1>1. ASSUME UNCHANGED <<reader, up, read>> PROVE ReadInv'
  BY <1>0, <1>1 DEF ReadInv, Reading
<1>2. CASE \/ UNCHANGED callVars \/ ServerStops \/ ContextEnds \/ Begin
           \/ \E a \in Attempts : Watch(a) \/ Wait(a) \/ TxEnd(a)
           \/ \E a \in Attempts, kind \in {"timeout", "transport"} : TxReport(a, kind)
  BY <1>1, <1>2 DEF callVars, ServerStops, ContextEnds, Begin, Watch, Wait, TxEnd, TxReport,
    TxUnchanged
<1>3. ASSUME NEW a \in Attempts, Request(a) PROVE ReadInv'
  <2>1. \/ UNCHANGED reader
        \/ reader[a] = "off" /\ reader' = [reader EXCEPT ![a] = "both"]
    BY <1>0, <1>3 DEF Request, Fails, StartInv
  <2>2. UNCHANGED <<up, read>>
    BY <1>3 DEF Request
  <2> QED BY <1>0, <2>1, <2>2 DEF ReadInv, Reading
<1>4. ASSUME NEW a \in Attempts, ReadError(a) \/ ReadClosed(a) PROVE ReadInv'
  <2>1. /\ Reading(a)
        /\ reader' \in {[reader EXCEPT ![a] = "ended"], [reader EXCEPT ![a] = "responses"]}
    BY <1>4 DEF ReadError, ReadClosed, Ends, Reading
  <2>2. UNCHANGED <<up, read>>
    BY <1>4 DEF ReadError, ReadClosed
  <2> QED BY <1>0, <2>1, <2>2 DEF ReadInv, Reading
<1>5. ASSUME NEW a \in Attempts, ReadResponse(a) PROVE ReadInv'
  <2>1. /\ Reading(a) /\ read[a] < Len(up[a]) /\ read' = [read EXCEPT ![a] = read[a] + 1]
        /\ UNCHANGED up
    BY <1>5 DEF ReadResponse
  <2>2. \/ UNCHANGED reader /\ up[a][read[a] + 1] = "1xx"
        \/ reader' \in {[reader EXCEPT ![a] = "ended"], [reader EXCEPT ![a] = "nested"]}
    BY <1>5 DEF ReadResponse, Ends, Incoming
  <2>3. \A b \in Attempts : reader'[b] = "off" => b # a /\ reader[b] = "off"
    BY <1>0, <2>1, <2>2 DEF Reading
  <2>4. ASSUME NEW b \in Attempts, Reading(b)' PROVE \A i \in 1..read'[b] : up'[b][i] = "1xx"
    <3>1. Reading(b)
      BY <1>0, <2>1, <2>2, <2>4 DEF Reading
    <3>2. CASE b = a
      <4>1. up[a][read[a] + 1] = "1xx"
        BY <1>0, <2>2, <2>4, <3>2 DEF Reading
      <4>2. \A i \in 1..read[a] : up[a][i] = "1xx"
        BY <1>0, <3>1, <3>2 DEF ReadInv
      <4>3. read'[a] = read[a] + 1 /\ read[a] \in Nat
        BY <1>0, <2>1
      <4> QED BY <2>1, <3>2, <4>1, <4>2, <4>3
    <3>3. CASE b # a
      BY <1>0, <2>1, <3>1, <3>3 DEF ReadInv
    <3> QED BY <3>2, <3>3
  <2>5. \A b \in Attempts : reader'[b] = "off" => read'[b] = 0
    BY <1>0, <2>1, <2>3 DEF ReadInv
  <2> QED BY <2>4, <2>5 DEF ReadInv
<1>6. ASSUME NEW a \in Attempts, Drain(a) PROVE ReadInv'
  <2>1. reader[a] = "ended"
    BY <1>0, <1>6 DEF Drain, StartInv
  <2>2. /\ UNCHANGED read \/ read' = [read EXCEPT ![a] = read[a] + 1]
        /\ UNCHANGED <<reader, up>>
    BY <1>6 DEF Drain
  <2> QED BY <1>0, <2>1, <2>2 DEF ReadInv, Reading
<1>7. CASE NestedReturns(1)
  <2>1. /\ reader[1] = "nested" /\ reader' = [reader EXCEPT ![1] = "ended"]
        /\ UNCHANGED <<up, read>>
    BY <1>7 DEF NestedReturns, Ends
  <2> QED BY <1>0, <2>1 DEF ReadInv, Reading
<1>8. ASSUME NEW a \in Attempts, NEW class \in Classes, TxPassUp(a, class) PROVE ReadInv'
  <2>1. /\ up' = [up EXCEPT ![a] = Append(@, class)]
        /\ UNCHANGED <<reader, read>>
    BY <1>8 DEF TxPassUp, TxUnchanged
  <2>2. ASSUME NEW b \in Attempts, Reading(b)' PROVE \A i \in 1..read'[b] : up'[b][i] = "1xx"
    <3>1. \A i \in 1..read[b] : up[b][i] = "1xx" /\ i \in 1..Len(up[b])
      BY <1>0, <2>1, <2>2 DEF ReadInv, Reading
    <3> QED BY <1>0, <2>1, <3>1, UpGrows
  <2> QED BY <1>0, <2>1, <2>2 DEF ReadInv
<1> QED
  BY <1>2, <1>3, <1>4, <1>5, <1>6, <1>7, <1>8 DEF CallNext, CallProgress, TxStep

\* Every step of the call keeps what is left when the reader has turned away.
LEMMA LeftStep == CallInv /\ [CallNext]_callVars => LeftInv'
<1> SUFFICES ASSUME CallInv, [CallNext]_callVars PROVE LeftInv'
  OBVIOUS
<1> USE DEF srvVars, upVars, errVars, txVars
<1>0. /\ LeftInv /\ StartInv /\ OrderInv
      /\ reader \in [Attempts -> {"off", "both", "responses", "nested", "ended"}]
      /\ drainer \in [Attempts -> {"off", "on", "ended"}]
      /\ result \in [Attempts -> Results] /\ closed \in [Attempts -> BOOLEAN]
      /\ up \in [Attempts -> Seq(Classes)] /\ read \in [Attempts -> Nat]
      /\ \A b \in Attempts : Len(up[b]) \in Nat /\ read[b] <= Len(up[b])
      /\ \A b \in Attempts : DOMAIN up[b] = 1..Len(up[b])
  BY DEF CallInv, CallTypeOK
<1>1. ASSUME UNCHANGED <<reader, up, read, drainer, result>>,
             \A b \in Attempts : closed[b] => closed'[b]
      PROVE  LeftInv'
  BY <1>1, <1>0 DEF LeftInv, Passed
<1>2. CASE \/ UNCHANGED callVars \/ ServerStops \/ ContextEnds \/ Begin
           \/ \E a \in Attempts : Watch(a) \/ Wait(a)
           \/ \E a \in Attempts, kind \in {"timeout", "transport"} : TxReport(a, kind)
  BY <1>1, <1>2 DEF callVars, ServerStops, ContextEnds, Begin, Watch, Wait, TxReport, TxUnchanged
<1>3. ASSUME NEW a \in Attempts, TxEnd(a) PROVE LeftInv'
  BY <1>0, <1>1, <1>3 DEF TxEnd, TxUnchanged
<1>4. ASSUME NEW a \in Attempts, Request(a) PROVE LeftInv'
  <2>1. reader[a] = "off"
    BY <1>0, <1>4 DEF Request, StartInv
  <2>2. /\ \A b \in Attempts : b # a => reader'[b] = reader[b] /\ result'[b] = result[b]
        /\ reader'[a] \in {"off", "both"}
    BY <1>0, <1>4, <2>1 DEF Request, Fails
  <2>3. UNCHANGED <<up, read, drainer, closed>>
    BY <1>4 DEF Request
  <2> QED BY <1>0, <2>2, <2>3 DEF LeftInv, Passed
<1>5. ASSUME NEW a \in Attempts, ReadError(a) PROVE LeftInv'
  <2>1. /\ \A b \in Attempts : b # a => reader'[b] = reader[b] /\ result'[b] = result[b]
        /\ \/ reader'[a] = "responses"
           \/ reader'[a] = "ended" /\ result'[a] \in {"timeout", "transport"}
    BY <1>0, <1>5, ErrorRead DEF ReadError, Ends, CallInv
  <2>2. UNCHANGED <<up, read, drainer, closed>>
    BY <1>5 DEF ReadError
  <2> QED BY <1>0, <2>1, <2>2 DEF LeftInv, Passed
<1>6. ASSUME NEW a \in Attempts, ReadClosed(a) PROVE LeftInv'
  <2>1. /\ \A b \in Attempts : b # a => reader'[b] = reader[b] /\ result'[b] = result[b]
        /\ reader'[a] = "ended" /\ read[a] = Len(up[a]) /\ closed[a]
    BY <1>0, <1>6 DEF ReadClosed, Ends
  <2>2. UNCHANGED <<up, read, drainer, closed>>
    BY <1>6 DEF ReadClosed
  <2> QED BY <1>0, <2>1, <2>2 DEF LeftInv, Passed
<1>7. ASSUME NEW a \in Attempts, ReadResponse(a) PROVE LeftInv'
  <2>1. /\ Reading(a) /\ read[a] < Len(up[a]) /\ read' = [read EXCEPT ![a] = read[a] + 1]
        /\ UNCHANGED <<up, closed>>
    BY <1>7 DEF ReadResponse
  <2>2. \A b \in Attempts : b # a => /\ reader'[b] = reader[b] /\ result'[b] = result[b]
                                     /\ drainer'[b] = drainer[b] /\ read'[b] = read[b]
    BY <1>0, <1>7, <2>1 DEF ReadResponse, Ends
  <2>3. \/ reader'[a] = reader[a]
        \/ drainer'[a] = "on" /\ reader'[a] = "ended"
        \/ reader'[a] \in {"ended", "nested"} /\ up[a][read[a] + 1] \in Rejects
    BY <1>0, <1>7 DEF ReadResponse, Ends, Incoming, Rejects
  <2>4. read[a] + 1 \in 1..Len(up[a]) /\ read'[a] = read[a] + 1
    BY <1>0, <2>1
  <2>5. up[a][read[a] + 1] \in Rejects => read'[a] = Len(up[a]) /\ Passed(a, Rejects)
    BY <1>0, <2>4 DEF OrderInv, Passed
  <2>6. Passed(a, Rejects)' = Passed(a, Rejects)
    BY <2>1 DEF Passed
  <2>7. \/ reader'[a] \notin {"ended", "nested"}
        \/ drainer'[a] = "on" /\ reader'[a] = "ended"
        \/ read'[a] = Len(up'[a]) /\ Passed(a, Rejects)'
    BY <2>1, <2>3, <2>5, <2>6 DEF Reading
  <2>8. \A b \in Attempts : b # a => Passed(b, Rejects)' = Passed(b, Rejects)
    BY <2>1 DEF Passed
  <2> QED BY <1>0, <2>1, <2>2, <2>7, <2>8 DEF LeftInv
<1>8. ASSUME NEW a \in Attempts, Drain(a) PROVE LeftInv'
  <2>1. drainer[a] = "on" /\ reader[a] = "ended"
    BY <1>0, <1>8 DEF Drain, StartInv
  <2>2. \A b \in Attempts : b # a => drainer'[b] = drainer[b] /\ read'[b] = read[b]
    BY <1>0, <1>8 DEF Drain
  <2>3. drainer'[a] = "on" \/ (read'[a] = Len(up[a]) /\ closed[a])
    BY <1>0, <1>8 DEF Drain
  <2>4. UNCHANGED <<reader, result, up, closed>>
    BY <1>8 DEF Drain
  <2>5. \A b \in Attempts : Passed(b, Rejects)' = Passed(b, Rejects)
    BY <2>4 DEF Passed
  <2> QED BY <1>0, <2>1, <2>2, <2>3, <2>4, <2>5 DEF LeftInv
<1>9. CASE NestedReturns(1)
  <2>1. /\ reader[1] = "nested" /\ 1 \in Attempts
        /\ UNCHANGED <<up, read, drainer, closed>>
    BY <1>9 DEF NestedReturns, Attempts
  <2>2. /\ reader'[1] = "ended"
        /\ \A b \in Attempts : b # 1 => reader'[b] = reader[b] /\ result'[b] = result[b]
    BY <1>0, <1>9, <2>1 DEF NestedReturns, Ends
  <2>3. \A b \in Attempts : Passed(b, Rejects)' = Passed(b, Rejects)
    BY <2>1 DEF Passed
  <2> QED BY <1>0, <2>1, <2>2, <2>3 DEF LeftInv
<1>10. ASSUME NEW a \in Attempts, NEW class \in Classes, TxPassUp(a, class) PROVE LeftInv'
  <2>1. /\ up' = [up EXCEPT ![a] = Append(@, class)] /\ ~Passed(a, Rejects) /\ ~closed[a]
        /\ UNCHANGED <<reader, read, drainer, result, closed>>
    BY <1>10 DEF TxPassUp, TxUnchanged, Rejects, Open
  <2>2. reader[a] # "nested"
    BY <1>0, <2>1 DEF LeftInv
  <2>3. reader[a] = "ended" => drainer[a] = "on" \/ result[a] \in {"timeout", "transport"}
    BY <1>0, <2>1 DEF LeftInv
  <2>4. \A b \in Attempts : b # a => up'[b] = up[b] /\ Passed(b, Rejects)' = Passed(b, Rejects)
    BY <1>0, <2>1 DEF Passed
  <2> QED BY <1>0, <2>1, <2>2, <2>3, <2>4 DEF LeftInv
<1> QED
  BY <1>2, <1>3, <1>4, <1>5, <1>6, <1>7, <1>8, <1>9, <1>10 DEF CallNext, CallProgress, TxStep

\* Every step of the call keeps where its result comes from.
LEMMA VerdictStep == CallInv /\ [CallNext]_callVars => VerdictInv'
<1> SUFFICES ASSUME CallInv, [CallNext]_callVars PROVE VerdictInv'
  OBVIOUS
<1> USE DEF srvVars, upVars, errVars, txVars
<1>0. /\ VerdictInv /\ StartInv /\ OrderInv /\ ReadInv
      /\ main \in [Attempts -> {"idle", "request", "layer", "stored", "select", "wait", "returned"}]
      /\ reader \in [Attempts -> {"off", "both", "responses", "nested", "ended"}]
      /\ result \in [Attempts -> Results] /\ closed \in [Attempts -> BOOLEAN]
      /\ up \in [Attempts -> Seq(Classes)] /\ read \in [Attempts -> Nat]
      /\ \A b \in Attempts : Len(up[b]) \in Nat /\ read[b] <= Len(up[b])
      /\ \A b \in Attempts : DOMAIN up[b] = 1..Len(up[b])
      /\ 1 \in Attempts /\ 2 \in Attempts /\ \A b \in Attempts : b = 1 \/ b = 2
  BY DEF CallInv, CallTypeOK, Attempts
<1>1. ASSUME NEW b \in Attempts, Returned(b),
             result'[b] = result[b], Passed(b, Final)' = Passed(b, Final),
             closed[b] => closed'[b], errs'[b] = errs[b]
      PROVE  Verdict(b)'
  <2>1. Verdict(b)
    BY <1>0, <1>1 DEF VerdictInv
  <2> QED BY <1>1, <2>1 DEF Verdict
<1>2. ASSUME UNCHANGED <<up, closed, errs>>,
             \A b \in Attempts : Returned(b)' => Returned(b) /\ result'[b] = result[b]
      PROVE  VerdictInv'
  <2>1. \A b \in Attempts : Passed(b, Final)' = Passed(b, Final)
    BY <1>2 DEF Passed
  <2> QED BY <1>1, <1>2, <2>1 DEF VerdictInv
<1>3. CASE UNCHANGED callVars \/ ServerStops \/ ContextEnds
  BY <1>2, <1>3 DEF callVars, ServerStops, ContextEnds, Returned
<1>4. CASE Begin \/ \E a \in Attempts : Watch(a) \/ Drain(a) \/ Wait(a)
  <2>1. UNCHANGED <<reader, result, up, closed, errs>> /\ (main'[2] = "idle" => main[2] = "idle")
    <3>1. CASE Begin
      BY <1>0, <3>1 DEF Begin
    <3>2. CASE \E a \in Attempts : Watch(a) \/ Drain(a)
      BY <3>2 DEF Watch, Drain
    <3>3. ASSUME NEW a \in Attempts, Wait(a)
          PROVE  /\ UNCHANGED <<reader, result, up, closed, errs>>
                 /\ main'[2] = "idle" => main[2] = "idle"
      BY <1>0, <3>3 DEF Wait
    <3> QED BY <1>4, <3>1, <3>2, <3>3
  <2> QED BY <1>2, <2>1 DEF Returned
<1>5. ASSUME NEW a \in Attempts, Request(a) PROVE VerdictInv'
  <2>1. UNCHANGED <<up, closed, errs>>
    BY <1>5 DEF Request
  <2>2. /\ \A b \in Attempts : b # a => reader'[b] = reader[b] /\ result'[b] = result[b]
        /\ reader'[a] # "ended" /\ (main'[2] = "idle" => main[2] = "idle")
    BY <1>0, <1>5 DEF Request, Fails, StartInv
  <2> QED BY <1>2, <2>1, <2>2 DEF Returned
<1>6. ASSUME NEW a \in Attempts, UNCHANGED <<up, closed, errs>>,
             \A b \in Attempts : b # a => reader'[b] = reader[b] /\ result'[b] = result[b],
             main'[2] = "idle" => main[2] = "idle",
             Returned(a)' => Verdict(a)'
      PROVE  VerdictInv'
  <2>1. ASSUME NEW b \in Attempts, b # a, Returned(b)' PROVE Verdict(b)'
    <3>1. Returned(b) /\ result'[b] = result[b]
      BY <1>6, <2>1 DEF Returned
    <3>2. Passed(b, Final)' = Passed(b, Final)
      BY <1>6 DEF Passed
    <3> QED BY <1>1, <1>6, <3>1, <3>2
  <2> QED BY <1>6, <2>1 DEF VerdictInv
<1>7. ASSUME NEW a \in Attempts, ReadError(a) PROVE VerdictInv'
  <2>1. UNCHANGED <<up, closed, errs, main>>
    BY <1>7 DEF ReadError
  <2>2. \A b \in Attempts : b # a => reader'[b] = reader[b] /\ result'[b] = result[b]
    BY <1>0, <1>7 DEF ReadError, Ends
  <2>3. \/ reader'[a] = "responses"
        \/ result'[a] = "timeout" /\ errs[a] = <<"timeout">>
        \/ result'[a] = "transport"
    BY <1>0, <1>7, ErrorRead DEF ReadError, Ends, CallInv
  <2>4. Returned(a)' => Verdict(a)'
    BY <2>1, <2>3 DEF Returned, Verdict
  <2> QED BY <1>6, <2>1, <2>2, <2>4
<1>8. ASSUME NEW a \in Attempts, ReadClosed(a) PROVE VerdictInv'
  <2>1. UNCHANGED <<up, closed, errs, main>>
    BY <1>8 DEF ReadClosed
  <2>2. /\ \A b \in Attempts : b # a => reader'[b] = reader[b] /\ result'[b] = result[b]
        /\ result'[a] = "487"
    BY <1>0, <1>8 DEF ReadClosed, Ends
  <2>3. closed[a] /\ ~Passed(a, Final)
    BY <1>0, <1>8 DEF ReadClosed, ReadInv, Passed, Final, Classes
  <2>4. Passed(a, Final)' = Passed(a, Final)
    BY <2>1 DEF Passed
  <2>5. Verdict(a)'
    BY <2>1, <2>2, <2>3, <2>4 DEF Verdict
  <2> QED BY <1>6, <2>1, <2>2, <2>5
<1>9. ASSUME NEW a \in Attempts, ReadResponse(a) PROVE VerdictInv'
  <2>1. UNCHANGED <<up, closed, errs>> /\ Reading(a) /\ read[a] < Len(up[a])
    BY <1>9 DEF ReadResponse
  <2>2. \A b \in Attempts : b # a => reader'[b] = reader[b] /\ result'[b] = result[b]
    BY <1>0, <1>9 DEF ReadResponse, Ends
  <2>3. main'[2] = "idle" => main[2] = "idle"
    BY <1>0, <1>9 DEF ReadResponse
  <2>4. \/ reader'[a] # "ended"
        \/ /\ result'[a] \in {"ok", "rejected", "unauthorized"}
           /\ up[a][read[a] + 1] \in Final
    BY <1>0, <1>9 DEF ReadResponse, Ends, Incoming, Reading, Final, Classes
  <2>5. read[a] + 1 \in DOMAIN up[a]
    BY <1>0, <2>1
  <2>6. up[a][read[a] + 1] \in Final => Passed(a, Final)'
    BY <2>1, <2>5 DEF Passed
  <2>7. Returned(a)' => Verdict(a)'
    BY <2>4, <2>6 DEF Returned, Verdict
  <2> QED BY <1>6, <2>1, <2>2, <2>3, <2>7
<1>10. CASE NestedReturns(1)
  <2>1. UNCHANGED <<up, closed, errs, main>> /\ main[2] = "returned"
    BY <1>10 DEF NestedReturns
  <2>2. \A b \in Attempts : b # 1 => reader'[b] = reader[b] /\ result'[b] = result[b]
    BY <1>0, <1>10 DEF NestedReturns, Ends
  <2>3. ~Returned(1)'
    BY <2>1 DEF Returned
  <2> QED BY <1>0, <1>6, <2>1, <2>2, <2>3
<1>11. ASSUME NEW a \in Attempts, NEW class \in Classes, TxPassUp(a, class) PROVE VerdictInv'
  <2>1. /\ up' = [up EXCEPT ![a] = Append(@, class)] /\ ~closed[a]
        /\ errs[a] # << >> => Passed(a, {"2xx"})
        /\ UNCHANGED <<reader, main, result, closed, errs>>
    BY <1>11 DEF TxPassUp, TxUnchanged, Open
  <2>2. CallTypeOK
    BY DEF CallInv
  <2>3. ASSUME NEW b \in Attempts, Returned(b)' PROVE Verdict(b)'
    <3>1. Returned(b)
      BY <2>1, <2>3 DEF Returned
    <3>2. CASE b # a
      <4>1. Passed(b, Final)' = Passed(b, Final)
        BY <1>0, <2>1, <3>2 DEF Passed
      <4> QED BY <1>1, <2>1, <3>1, <4>1
    <3>3. CASE b = a
      <4>1. Verdict(a)
        BY <1>0, <3>1, <3>3 DEF VerdictInv
      <4>2. errs[a] # <<"timeout">>
        <5>1. Passed(a, {"2xx"}) => Passed(a, Final)
          BY DEF Passed, Final, Classes
        <5>2. errs[a] = <<"timeout">> => errs[a] # << >>
          BY OneErrorIsNotNone, Zenon
        <5>3. OrderInv
          BY <1>0
        <5>4. errs[a] = <<"timeout">> => ~Passed(a, Final)
          BY <5>3 DEF OrderInv
        <5> QED BY <2>1, <5>1, <5>2, <5>4
      <4>3. Passed(a, Final) => Passed(a, Final)'
        BY <2>1, <2>2, PassedGrows
      <4> QED BY <2>1, <3>3, <4>1, <4>2, <4>3 DEF Verdict
    <3> QED BY <3>2, <3>3
  <2> QED BY <2>3 DEF VerdictInv
<1>12. ASSUME NEW a \in Attempts, NEW kind \in {"timeout", "transport"}, TxReport(a, kind)
       PROVE  VerdictInv'
  <2>1. /\ errs[a] = << >> /\ errs' = [errs EXCEPT ![a] = <<kind>>]
        /\ UNCHANGED <<reader, main, result, up, closed>>
    BY <1>12 DEF TxReport, TxUnchanged
  <2>2. \A b \in Attempts : Passed(b, Final)' = Passed(b, Final)
    BY <2>1 DEF Passed
  <2>3. \A b \in Attempts : errs[b] = <<"timeout">> => errs'[b] = errs[b]
    BY <2>1 DEF CallInv, CallTypeOK
  <2>4. \A b \in Attempts : Verdict(b) => Verdict(b)'
    BY <2>1, <2>2, <2>3 DEF Verdict
  <2> QED BY <1>0, <2>1, <2>4 DEF VerdictInv, Returned
<1>13. ASSUME NEW a \in Attempts, TxEnd(a) PROVE VerdictInv'
  <2>1. /\ closed' = [closed EXCEPT ![a] = TRUE]
        /\ UNCHANGED <<reader, main, result, up, errs>>
    BY <1>13 DEF TxEnd, TxUnchanged
  <2>2. \A b \in Attempts : Passed(b, Final)' = Passed(b, Final)
    BY <2>1 DEF Passed
  <2>3. \A b \in Attempts : closed[b] => closed'[b]
    BY <1>0, <2>1
  <2> QED BY <1>1, <2>1, <2>2, <2>3 DEF VerdictInv, Returned
<1> QED
  BY <1>3, <1>4, <1>5, <1>7, <1>8, <1>9, <1>10, <1>11, <1>12, <1>13
  DEF CallNext, CallProgress, TxStep

\* A call starts in the invariant, and every step keeps it.
LEMMA CallInductive == CallSpec => []CallInv
<1>1. CallInit => CallInv
  <2> SUFFICES ASSUME CallInit PROVE CallInv
    OBVIOUS
  <2>1. CallTypeOK
    BY DEF CallInit, CallTypeOK, Results, Attempts
  <2>2. StartInv
    BY DEF CallInit, StartInv, Attempts
  <2>3. OrderInv /\ ReadInv
    BY DEF CallInit, OrderInv, ReadInv, Passed, Reading
  <2>4. LeftInv /\ VerdictInv
    BY DEF CallInit, LeftInv, VerdictInv, Returned
  <2> QED BY <2>1, <2>2, <2>3, <2>4 DEF CallInv
<1>2. CallInv /\ [CallNext]_callVars => CallInv'
  BY CallTypeStep, StartStep, OrderStep, ReadStep, LeftStep, VerdictStep DEF CallInv
<1> QED BY <1>1, <1>2, PTL DEF CallSpec

\* For every capacity of the channel of responses, and for any number of them: the result
\* of requestWithContext is a final response when its transaction passed one up or a
\* failed send, and a 487 or a timeout only when none came.
THEOREM CallResultCorrect == CallSpec => []ResultIsVerdict
<1>1. CallInv => ResultIsVerdict
  BY DEF CallInv, VerdictInv, Verdict, OrderInv, ResultIsVerdict
<1> QED BY <1>1, CallInductive, PTL

\* The same for what is left behind: responses wait in the channel of a transaction only
\* while the reader or the goroutine that follows a 2xx still takes them, or when the reader
\* has returned an error.
THEOREM ResponsesTaken == CallSpec => []ResponsesAreRead
<1>1. CallInv => ResponsesAreRead
  <2> SUFFICES ASSUME CallInv, NEW a \in Attempts, stage[a] = "served", read[a] < Len(up[a])
               PROVE  Reading(a) \/ drainer[a] = "on" \/ result[a] \in {"timeout", "transport"}
    BY DEF ResponsesAreRead
  <2>1. /\ reader[a] \in {"both", "responses", "nested", "ended"}
        /\ read[a] \in Nat /\ Len(up[a]) \in Nat
    BY DEF CallInv, CallTypeOK, StartInv
  <2> QED BY <2>1 DEF CallInv, LeftInv, Reading
<1> QED BY <1>1, CallInductive, PTL
=============================================================================
