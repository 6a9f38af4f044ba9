--------------------------- MODULE ServerTxProofs ---------------------------
(***************************************************************************)
(* Proofs about ServerTx, for every capacity of the channels and every     *)
(* bound: its types, that only an ACK handled beside Terminate panics,     *)
(* that a confirmed or ended transaction sends nothing, and that the       *)
(* transaction implements ServerContract.  And proofs about the layer that *)
(* keeps the transactions, for any number of transactions, keys and        *)
(* messages and any capacity of the channels.                              *)
(*                                                                         *)
(* Transaction: the argument is that of ClientTxProofs.  One inductive     *)
(* invariant ties what the goroutine that holds the FSM lock has still to  *)
(* do (prog) to the state of the FSM, to the user's answer and to what has *)
(* come out of the channels.                                               *)
(*                                                                         *)
(* Layer: none of the properties is inductive.  LayerInv adds to the types *)
(* what the store, the goroutines serveTransaction and the transactions    *)
(* know of each other: the store holds a server transaction from its       *)
(* creation to the delete of its own goroutine, and a client transaction   *)
(* from RequestPut to that delete; a goroutine that drops has seen the end *)
(* of its transaction; and txWg counts the goroutines.                     *)
(***************************************************************************)
EXTENDS ServerTx, TxLayer, TLAPS
-----------------------------------------------------------------------------
\* The transaction layer.  What the store and a goroutine know of a server transaction,
ServerInv ==
  \A t \in ServerTxs :
    /\ serverKey[t] = NoTx <=> serving[t] = "no"
    /\ serverKey[t] # NoTx => (store[serverKey[t]] = t <=> serving[t] # "finished")

ClientInv ==
  \A t \in ClientTxs :
    /\ store[t] \in {NoTx, t}
    /\ serving[t] # "no" <=> request[t] = "served"
    /\ store[t] = t <=> request[t] \in {"stored", "refused"} \/ Serving(t)

StoreInv ==
  \A k \in ServerKeys : store[k] # NoTx => store[k] \in ServerTxs /\ serverKey[store[k]] = k

EndInv == \A t \in Txs : serving[t] \in {"dropping", "deleting", "finished"} => txDone[t]

Goroutines == {t \in Txs : Serving(t)}

WgInv ==
  /\ txWg = Cardinality(Goroutines)
  /\ listener = "done" => Goroutines = {}

LayerInv == LayerTypeOK /\ ServerInv /\ ClientInv /\ StoreInv /\ EndInv /\ WgInv
-----------------------------------------------------------------------------
\* Every step of the layer keeps the types, the place of listenMessages fits its
\* message, and no channel is filled over its capacity.
LEMMA LayerTypeStep == LayerTypeOK /\ [LayerNext]_layerVars => LayerTypeOK'
<1> SUFFICES ASSUME LayerTypeOK, [LayerNext]_layerVars PROVE LayerTypeOK'
  OBVIOUS
<1> USE LayerAssumption DEF LayerTypeOK, Txs, Keys
<1>1. ASSUME NEW t \in ClientTxs, RequestInit(t) PROVE LayerTypeOK'
  BY <1>1 DEF RequestInit, requestVars
<1>2. ASSUME NEW t \in ClientTxs, RequestPut(t) PROVE LayerTypeOK'
  BY <1>2 DEF RequestPut, requestVars
<1>3. ASSUME NEW t \in ClientTxs, RequestCanceled(t) PROVE LayerTypeOK'
  BY <1>3 DEF RequestCanceled, requestVars
<1>4. ASSUME NEW t \in ClientTxs, HandOver(t) PROVE LayerTypeOK'
  BY <1>4 DEF HandOver, Serve
<1>5. CASE ListenCanceled
  BY <1>5 DEF ListenCanceled, Goto
<1>6. ASSUME NEW m \in Messages, Arrive(m) PROVE LayerTypeOK'
  BY <1>6 DEF Arrive
<1>7. CASE Handle
  <2>1. msg \in Messages /\ msg.key \in Keys
    BY <1>7, ZenonT(40) DEF Handle, Messages
  <2>2. CASE canceled
    BY <1>7, <2>2, ZenonT(40) DEF Handle, Goto
  <2>3. CASE ~canceled /\ store[msg.key] # NoTx
    BY <1>7, <2>1, <2>3 DEF Handle
  <2>4. CASE ~canceled /\ store[msg.key] = NoTx /\ msg.kind \in {"response", "ack"}
    BY <1>7, <2>1, <2>4 DEF Handle
  <2>5. CASE ~canceled /\ store[msg.key] = NoTx /\ msg.kind = "cancel"
    BY <1>7, <2>5 DEF Handle, Goto
  <2>6. CASE ~canceled /\ store[msg.key] = NoTx /\ msg.kind = "request"
    <3>1. msg.key \in ServerKeys
      BY <2>1, <2>6, ZenonT(40) DEF Messages
    <3>2. PICK t \in ServerTxs :
            /\ serverKey' = [serverKey EXCEPT ![t] = msg.key]
            /\ store' = [store EXCEPT ![msg.key] = t]
            /\ Serve(t)
            /\ listener' = "passUp" /\ target' = t
            /\ UNCHANGED msg
      BY <1>7, <2>6 DEF Handle
    <3> QED
      BY <1>7, <2>1, <3>1, <3>2 DEF Handle, Serve
  <2> QED
    BY <1>7, <2>1, <2>2, <2>3, <2>4, <2>5, <2>6, Zenon DEF Handle, Messages
<1>8. CASE PassUp
  BY <1>8 DEF PassUp, Goto
<1>9. CASE PassUpCanceled
  BY <1>9 DEF PassUpCanceled, Goto
<1>10. CASE TxReceive
  BY <1>10 DEF TxReceive, Goto
<1>11. CASE Finish
  BY <1>11 DEF Finish, Goto
<1>12. ASSUME NEW t \in Txs, ServeCanceled(t) PROVE LayerTypeOK'
  BY <1>12 DEF ServeCanceled, serveVars
<1>13. ASSUME NEW t \in Txs, ServeDone(t) PROVE LayerTypeOK'
  BY <1>13 DEF ServeDone, serveVars
<1>14. ASSUME NEW t \in Txs, Drop(t) PROVE LayerTypeOK'
  <2>1. CASE serving[t] = "dropping"
    BY <1>14, <2>1 DEF Drop, serveVars
  <2>2. CASE serving[t] = "deleting"
    BY <1>14, <2>2 DEF Drop, serveVars
  <2> QED
    BY <1>14, <2>1, <2>2 DEF Drop
<1>15. ASSUME NEW t \in Txs, TxEnds(t) PROVE LayerTypeOK'
  BY <1>15 DEF TxEnds, serveVars
<1>16. ASSUME NEW t \in Txs, UserReads(t) PROVE LayerTypeOK'
  BY <1>16 DEF UserReads
<1>17. CASE Cancel
  BY <1>17 DEF Cancel
<1>18. CASE UNCHANGED layerVars
  BY <1>18 DEF layerVars
<1> QED
  BY <1>1, <1>2, <1>3, <1>4, <1>5, <1>6, <1>7, <1>8, <1>9, <1>10, <1>11, <1>12, <1>13,
     <1>14, <1>15, <1>16, <1>17, <1>18, Zenon DEF LayerNext

\* The store and the goroutines, without the counter txWg.
OwnInv == ServerInv /\ ClientInv /\ StoreInv /\ EndInv

ownVars == <<store, request, serverKey, serving, txDone>>

\* Every step keeps what the store, the goroutines and the transactions know of
\* each other: RequestPut and Handle write into empty entries only, and Drop
\* deletes the entry of its own transaction.
LEMMA OwnStep == LayerTypeOK /\ OwnInv /\ [LayerNext]_layerVars => OwnInv'
<1> SUFFICES ASSUME LayerTypeOK, OwnInv, [LayerNext]_layerVars PROVE OwnInv'
  OBVIOUS
<1> USE LayerAssumption DEF LayerTypeOK, Txs, Keys, Serving
<1>0. ASSUME UNCHANGED ownVars PROVE OwnInv'
  BY <1>0 DEF ownVars, OwnInv, ServerInv, ClientInv, StoreInv, EndInv
<1>1. ASSUME NEW t \in ClientTxs, RequestInit(t) PROVE OwnInv'
  BY <1>1 DEF RequestInit, requestVars, OwnInv, ServerInv, ClientInv, StoreInv, EndInv
<1>2. ASSUME NEW t \in ClientTxs, RequestPut(t) PROVE OwnInv'
  BY <1>2 DEF RequestPut, requestVars, OwnInv, ServerInv, ClientInv, StoreInv, EndInv
<1>3. ASSUME NEW t \in ClientTxs, RequestCanceled(t) PROVE OwnInv'
  BY <1>3 DEF RequestCanceled, requestVars, OwnInv, ServerInv, ClientInv, StoreInv, EndInv
<1>4. ASSUME NEW t \in ClientTxs, HandOver(t) PROVE OwnInv'
  BY <1>4 DEF HandOver, Serve, OwnInv, ServerInv, ClientInv, StoreInv, EndInv
<1>5. CASE Handle
  <2>1. CASE UNCHANGED ownVars
    BY <1>0, <2>1
  <2>2. CASE ~ UNCHANGED ownVars
    <3>1. msg \in Messages /\ store[msg.key] = NoTx /\ msg.kind = "request"
      BY <1>5, <2>2 DEF Handle, ownVars
    <3>2. msg.key \in ServerKeys
      BY <3>1, ZenonT(40) DEF Messages
    <3>3. PICK t \in ServerTxs :
            /\ Fresh(t)
            /\ serverKey' = [serverKey EXCEPT ![t] = msg.key]
            /\ store' = [store EXCEPT ![msg.key] = t]
            /\ Serve(t)
      BY <1>5, <2>2, ZenonT(40) DEF Handle, ownVars
    <3>4. serverKey[t] = NoTx /\ serving' = [serving EXCEPT ![t] = "running"]
      BY <3>3, Zenon DEF Fresh, Serve
    <3>5. UNCHANGED <<request, txDone>>
      BY <1>5 DEF Handle
    <3>6. \A k \in ServerKeys : store[k] # t
      BY <3>4 DEF OwnInv, StoreInv
    <3>7. ServerInv'
      BY <3>1, <3>2, <3>3, <3>4, <3>6 DEF OwnInv, ServerInv, StoreInv
    <3>8. ClientInv'
      BY <3>2, <3>3, <3>4, <3>5 DEF OwnInv, ClientInv
    <3>9. StoreInv'
      BY <3>2, <3>3, <3>4, <3>6 DEF OwnInv, StoreInv
    <3>10. EndInv'
      BY <3>4, <3>5 DEF OwnInv, EndInv
    <3> QED
      BY <3>7, <3>8, <3>9, <3>10 DEF OwnInv
  <2> QED
    BY <2>1, <2>2
<1>6. ASSUME NEW t \in Txs, ServeCanceled(t) PROVE OwnInv'
  BY <1>6 DEF ServeCanceled, serveVars, OwnInv, ServerInv, ClientInv, StoreInv, EndInv
<1>7. ASSUME NEW t \in Txs, ServeDone(t) PROVE OwnInv'
  BY <1>7 DEF ServeDone, serveVars, OwnInv, ServerInv, ClientInv, StoreInv, EndInv
<1>8. ASSUME NEW t \in Txs, Drop(t) PROVE OwnInv'
  <2>1. Serving(t) /\ store[Key(t)] = t /\ Key(t) \in Keys
    BY <1>8 DEF Drop, Key, OwnInv, ServerInv, ClientInv
  <2>2. CASE serving' = [serving EXCEPT ![t] = "deleting"] /\ UNCHANGED store
    BY <1>8, <2>1, <2>2, Zenon DEF Drop, serveVars, OwnInv, ServerInv, ClientInv, StoreInv, EndInv
  <2>3. CASE /\ serving' = [serving EXCEPT ![t] = "finished"]
             /\ store' = [store EXCEPT ![Key(t)] = NoTx]
    BY <1>8, <2>1, <2>3
       DEF Drop, serveVars, Key, OwnInv, ServerInv, ClientInv, StoreInv, EndInv
  <2> QED
    BY <1>8, <2>1, <2>2, <2>3 DEF Drop
<1>9. ASSUME NEW t \in Txs, TxEnds(t) PROVE OwnInv'
  BY <1>9, Zenon DEF TxEnds, serveVars, OwnInv, ServerInv, ClientInv, StoreInv, EndInv
<1>10. ASSUME NEW m \in Messages, Arrive(m) PROVE OwnInv'
  BY <1>0, <1>10 DEF Arrive, ownVars
<1>11. ASSUME NEW t \in Txs, UserReads(t) PROVE OwnInv'
  BY <1>0, <1>11, Zenon DEF UserReads, ownVars
<1>12. CASE ListenCanceled \/ PassUp \/ PassUpCanceled \/ TxReceive \/ Finish \/ Cancel
  BY <1>0, <1>12 DEF ListenCanceled, PassUp, PassUpCanceled, TxReceive, Finish, Cancel, ownVars
<1>13. CASE UNCHANGED layerVars
  BY <1>0, <1>13 DEF layerVars, ownVars
<1> QED
  BY <1>1, <1>2, <1>3, <1>4, <1>5, <1>6, <1>7, <1>8, <1>9, <1>10, <1>11, <1>12, <1>13
     DEF LayerNext

\* What the theorems on single keys need of it.
LEMMA OwnGives == LayerTypeOK /\ OwnInv => OneLivePerKey /\ StoredIsServed
<1>1. LayerTypeOK /\ OwnInv => OneLivePerKey
  BY DEF LayerTypeOK, OwnInv, ServerInv, EndInv, OneLivePerKey, Txs
<1>2. LayerTypeOK /\ OwnInv => StoredIsServed
  BY DEF LayerTypeOK, OwnInv, ServerInv, ClientInv, StoredIsServed, Created, Key, Serving, Txs
<1> QED
  BY <1>1, <1>2, Zenon

-----------------------------------------------------------------------------
\* What is left of the actions once their first steps are done.
left_arm_gh       == <<"arm_g", "arm_h">>
left_arm_h        == <<"arm_h">>
left_arm_l        == <<"arm_l">>
left_arm_j        == <<"arm_j">>
left_pass_ack     == <<"passAck_recover">>
left_input_delete == <<"input_delete">>
left_stop_timers  == <<"stop_timers">>

Programs == {<< >>, act_respond, act_respond_complete, act_respond_accept, act_passup_ack,
             act_final, act_trans_err, act_delete, act_confirm, act_cancel, left_arm_gh,
             left_arm_h, left_arm_l, left_arm_j, left_pass_ack, left_input_delete,
             left_stop_timers}

\* What may be left to do in each state of the FSM.
ProgOK ==
  \/ prog = << >>
  \/ state = "proceeding" /\ prog = act_respond
  \/ state = "proceeding" /\ inv /\ prog = act_cancel
  \/ state = "completed" /\ prog = act_respond
  \/ state = "completed" /\ inv /\ prog \in {act_respond_complete, left_arm_gh, left_arm_h}
  \/ state = "completed" /\ ~inv /\ prog \in {act_final, left_arm_j}
  \/ state = "confirmed" /\ prog \in {act_confirm, left_pass_ack}
  \/ state = "accepted"
       /\ prog \in {act_respond, act_respond_accept, left_arm_l, act_passup_ack}
  \/ state = "terminated"
       /\ prog \in {act_trans_err, left_input_delete, act_delete, left_stop_timers}

\* Which states the two machines have, and the answer of the user that led there.
AnswerOK ==
  /\ state = "trying" => ~inv
  /\ state \in {"accepted", "confirmed"} => inv
  /\ state \in {"trying", "proceeding"} => verdict = "nil"
  /\ state = "completed" => verdict # "nil"
  /\ state = "accepted" => verdict = "user_2xx"
  /\ inv /\ state \in {"completed", "confirmed"} => verdict = "user_300_plus"

\* What has come out of Acks() and Errors(), by the state and by what is left to do.
GivenOK ==
  /\ errs \in {0, 1}
  /\ state # "terminated" \/ prog = act_trans_err => errs = 0
  /\ state \in {"trying", "proceeding", "completed"} => acks = 0
  /\ prog \in {act_trans_err, act_confirm, left_pass_ack} => acks = 0
  /\ prog = act_trans_err => ~(inv /\ verdict = "user_2xx")
  /\ prog = left_input_delete /\ ~done => errs = 1
  /\ prog = act_delete /\ ~done => verdict # "nil" \/ errs = 1

\* Only the terminated state, or Terminate, closes the channels.
DoneOK == done /\ term = "idle" => state = "terminated"

IInv == TypeOK /\ ProgOK /\ AnswerOK /\ GivenOK /\ DoneOK /\ OnlyAckPanics

-----------------------------------------------------------------------------
(***************************************************************************)
(* Facts about the programs and the state tables.                          *)
(***************************************************************************)

\* The first step of each program, and what is left after it.
LEMMA ProgSteps ==
  /\ Head(act_respond) = "send" /\ Tail(act_respond) = << >>
  /\ Head(act_respond_complete) = "send" /\ Tail(act_respond_complete) = left_arm_gh
  /\ Head(act_respond_accept) = "send" /\ Tail(act_respond_accept) = left_arm_l
  /\ Head(act_final) = "send" /\ Tail(act_final) = left_arm_j
  /\ Head(act_passup_ack) = "passAck" /\ Tail(act_passup_ack) = << >>
  /\ Head(act_trans_err) = "transportErr" /\ Tail(act_trans_err) = left_input_delete
  /\ Head(act_delete) = "delete" /\ Tail(act_delete) = << >>
  /\ Head(act_confirm) = "arm_i" /\ Tail(act_confirm) = left_pass_ack
  /\ Head(act_cancel) = "passCancel" /\ Tail(act_cancel) = << >>
  /\ Head(left_arm_gh) = "arm_g" /\ Tail(left_arm_gh) = left_arm_h
  /\ Head(left_arm_h) = "arm_h" /\ Tail(left_arm_h) = << >>
  /\ Head(left_arm_l) = "arm_l" /\ Tail(left_arm_l) = << >>
  /\ Head(left_arm_j) = "arm_j" /\ Tail(left_arm_j) = << >>
  /\ Head(left_pass_ack) = "passAck_recover" /\ Tail(left_pass_ack) = << >>
  /\ Head(left_input_delete) = "input_delete" /\ Tail(left_input_delete) = << >>
  /\ Head(left_stop_timers) = "stop_timers" /\ Tail(left_stop_timers) = << >>
BY DEF act_respond, act_respond_complete, act_respond_accept, act_final, act_passup_ack,
  act_trans_err, act_delete, act_confirm, act_cancel, left_arm_gh, left_arm_h, left_arm_l,
  left_arm_j, left_pass_ack, left_input_delete, left_stop_timers

\* The programs the invariant speaks of are not empty.
LEMMA ProgsNotEmpty ==
  /\ act_trans_err # << >> /\ act_confirm # << >> /\ left_pass_ack # << >>
  /\ left_input_delete # << >> /\ act_delete # << >>
BY DEF act_trans_err, act_confirm, left_pass_ack, left_input_delete, act_delete

\* Every program consists of steps.
LEMMA ProgTypes == Programs \subseteq Seq(Ops)
<1>1. /\ act_respond \in Seq(Ops) /\ act_respond_complete \in Seq(Ops)
      /\ act_respond_accept \in Seq(Ops) /\ act_passup_ack \in Seq(Ops)
      /\ act_final \in Seq(Ops) /\ act_trans_err \in Seq(Ops)
      /\ act_delete \in Seq(Ops) /\ act_confirm \in Seq(Ops) /\ act_cancel \in Seq(Ops)
  BY DEF Ops, act_respond, act_respond_complete, act_respond_accept, act_passup_ack,
    act_final, act_trans_err, act_delete, act_confirm, act_cancel
<1>2. /\ left_arm_gh \in Seq(Ops) /\ left_arm_h \in Seq(Ops) /\ left_arm_l \in Seq(Ops)
      /\ left_arm_j \in Seq(Ops) /\ left_pass_ack \in Seq(Ops)
      /\ left_input_delete \in Seq(Ops) /\ left_stop_timers \in Seq(Ops)
  BY DEF Ops, left_arm_gh, left_arm_h, left_arm_l, left_arm_j, left_pass_ack,
    left_input_delete, left_stop_timers
<1>3. << >> \in Seq(Ops)
  OBVIOUS
<1> QED BY <1>1, <1>2, <1>3, Zenon DEF Programs

\* Which programs can be left after a step.
LEMMA RestOf ==
  ASSUME ProgOK, prog # << >>
  PROVE  /\ Rest # act_trans_err /\ Rest # act_confirm /\ Rest # act_delete
         /\ Rest = left_pass_ack => prog = act_confirm
         /\ Rest = left_input_delete => prog = act_trans_err
<1>1. \/ prog = act_confirm /\ Rest = left_pass_ack
      \/ prog = act_trans_err /\ Rest = left_input_delete
      \/ Rest \in {<< >>, left_arm_gh, left_arm_h, left_arm_l, left_arm_j}
  BY ProgSteps, Zenon DEF ProgOK, Rest
<1>2. \A p \in {left_arm_gh, left_arm_h, left_arm_l, left_arm_j} :
        Head(p) \in {"arm_g", "arm_h", "arm_l", "arm_j"}
  BY ProgSteps, Zenon
<1> QED BY <1>1, <1>2, ProgSteps, ProgsNotEmpty

\* What fsm.Spin can make of an input in an INVITE transaction.
LEMMA AcceptInvite ==
  ASSUME NEW input, inv, Accept(input)
  PROVE  \/ state' = state /\ prog' = << >> /\ verdict' = verdict
         \/ /\ state = "proceeding" /\ state' = state /\ verdict' = verdict
            /\ \/ input \in {"request", "user_1xx"} /\ prog' = act_respond
               \/ input = "cancel" /\ prog' = act_cancel
         \/ /\ state = "proceeding" /\ verdict' = input
            /\ \/ input = "user_2xx" /\ state' = "accepted" /\ prog' = act_respond_accept
               \/ /\ input = "user_300_plus"
                  /\ state' = "completed" /\ prog' = act_respond_complete
         \/ /\ state = "completed" /\ verdict' = verdict
            /\ \/ input = "request" /\ state' = state /\ prog' = act_respond
               \/ input = "timer_g" /\ state' = state /\ prog' = act_respond_complete
               \/ input = "ack" /\ state' = "confirmed" /\ prog' = act_confirm
         \/ /\ state = "accepted" /\ state' = state /\ verdict' = verdict
            /\ \/ input = "ack" /\ prog' = act_passup_ack
               \/ input = "user_2xx" /\ prog' = act_respond
         \/ /\ state \in {"proceeding", "completed"} /\ input = "transport_err"
            /\ state' = "terminated" /\ prog' = act_trans_err /\ verdict' = verdict
         \/ /\ \/ state = "completed" /\ input = "timer_h"
               \/ state = "confirmed" /\ input = "timer_i"
               \/ state = "accepted" /\ input = "timer_l"
               \/ state = "terminated" /\ input = "delete"
            /\ state' = "terminated" /\ prog' = act_delete /\ verdict' = verdict
<1>1. CASE ~ \E o \in Outcomes : o[1] = state /\ o[2] = input
  BY <1>1, Zenon DEF Accept
<1>2. CASE \E o \in Outcomes : o[1] = state /\ o[2] = input
  <2>1. PICK o \in InviteFSM : /\ o[1] = state /\ o[2] = input
                               /\ state' = o[3] /\ prog' = o[4]
                               /\ verdict' = IF Settles(o[3]) THEN input ELSE verdict
    BY <1>2 DEF Accept, Outcomes
  <2>2. CASE o \in InviteProceeding
    BY <2>1, <2>2 DEF InviteProceeding, Settles
  <2>3. CASE o \in InviteCompleted
    BY <2>1, <2>3 DEF InviteCompleted, NO_ACTION, Settles
  <2>4. CASE o \in InviteConfirmed
    BY <2>1, <2>4 DEF InviteConfirmed, NO_ACTION, Settles
  <2>5. CASE o \in InviteAccepted
    BY <2>1, <2>5 DEF InviteAccepted, NO_ACTION, Settles
  <2>6. CASE o \in InviteTerminated
    BY <2>1, <2>6 DEF InviteTerminated, NO_ACTION, Settles
  <2> QED BY <2>1, <2>2, <2>3, <2>4, <2>5, <2>6, Zenon DEF InviteFSM
<1> QED BY <1>1, <1>2

\* What fsm.Spin can make of an input in a non-INVITE transaction.
LEMMA AcceptNonInvite ==
  ASSUME NEW input, ~inv, Accept(input)
  PROVE  \/ state' = state /\ prog' = << >> /\ verdict' = verdict
         \/ /\ state \in {"trying", "proceeding"} /\ input = "user_1xx"
            /\ state' = "proceeding" /\ prog' = act_respond /\ verdict' = verdict
         \/ /\ state \in {"proceeding", "completed"} /\ input = "request"
            /\ state' = state /\ prog' = act_respond /\ verdict' = verdict
         \/ /\ state \in {"trying", "proceeding"} /\ input \in {"user_2xx", "user_300_plus"}
            /\ state' = "completed" /\ prog' = act_final /\ verdict' = input
         \/ /\ state \in {"trying", "proceeding", "completed"} /\ input = "transport_err"
            /\ state' = "terminated" /\ prog' = act_trans_err /\ verdict' = verdict
         \/ /\ \/ state = "completed" /\ input = "timer_j"
               \/ state = "terminated" /\ input = "delete"
            /\ state' = "terminated" /\ prog' = act_delete /\ verdict' = verdict
<1>1. CASE ~ \E o \in Outcomes : o[1] = state /\ o[2] = input
  BY <1>1, Zenon DEF Accept
<1>2. CASE \E o \in Outcomes : o[1] = state /\ o[2] = input
  <2>1. PICK o \in NonInviteFSM : /\ o[1] = state /\ o[2] = input
                                  /\ state' = o[3] /\ prog' = o[4]
                                  /\ verdict' = IF Settles(o[3]) THEN input ELSE verdict
    BY <1>2 DEF Accept, Outcomes
  <2>2. CASE o \in NonInviteTrying
    BY <2>1, <2>2 DEF NonInviteTrying, NO_ACTION, Settles
  <2>3. CASE o \in NonInviteProceeding
    BY <2>1, <2>3 DEF NonInviteProceeding, NO_ACTION, Settles
  <2>4. CASE o \in NonInviteCompleted
    BY <2>1, <2>4 DEF NonInviteCompleted, NO_ACTION, Settles
  <2>5. CASE o \in NonInviteTerminated
    BY <2>1, <2>5 DEF NonInviteTerminated, NO_ACTION, Settles
  <2> QED BY <2>1, <2>2, <2>3, <2>4, <2>5 DEF NonInviteFSM
<1> QED BY <1>1, <1>2

-----------------------------------------------------------------------------
(***************************************************************************)
(* The inductive invariant, part by part.                                  *)
(***************************************************************************)

\* What a step may do to the method, the transport and the end of the transaction.
LEMMA EndEffects ==
  ASSUME [Next]_vars
  PROVE  /\ UNCHANGED <<inv, reliable>>
         /\ \/ UNCHANGED <<done, term>>
            \/ prog # << >> /\ Head(prog) = "delete" /\ done' = TRUE /\ UNCHANGED <<state, term>>
            \/ ~done /\ term = "idle" /\ done' = TRUE /\ term' = "closed"
            \/ term = "closed" /\ done' = done /\ term' = "returned"
<1> USE DEF originVars, endVars
<1>1. CASE Step
  BY <1>1, Zenon DEF Step, send, passAck, passCancel, transportErr, delete, StopTimers, ArmG, ArmH,
    ArmI, ArmJ, ArmL, TimerStep, InputDelete
<1>2. ASSUME NEW input, Receive(input) PROVE UNCHANGED <<originVars, endVars>>
  BY <1>2 DEF Receive
<1>3. ASSUME NEW res, UserResponds(res) PROVE UNCHANGED <<originVars, endVars>>
  BY <1>3 DEF UserResponds, Respond
<1>4. CASE TryingResponds
  BY <1>4 DEF TryingResponds, Respond
<1>5. ASSUME NEW c, RespondSpin(c) PROVE UNCHANGED <<originVars, endVars>>
  BY <1>5 DEF RespondSpin
<1>6. ASSUME NEW t, Fire(t) \/ SpinTimer(t) PROVE UNCHANGED <<originVars, endVars>>
  BY <1>6 DEF Fire, SpinTimer
<1>7. CASE Terminate
  BY <1>7 DEF Terminate
<1>8. CASE Read
  BY <1>8 DEF Read
<1>9. CASE UNCHANGED vars
  BY <1>9, Zenon DEF vars
<1> QED BY <1>1, <1>2, <1>3, <1>4, <1>5, <1>6, <1>7, <1>8, <1>9, Zenon DEF Next

\* What a step may do to the FSM: nothing, the next step of the action under way, the
\* close of the channels, an input the action returned (the failed send, the recovered
\* panic of act_confirm and act_cancel, the delete), or an input of a goroutine.
LEMMA FsmEffects ==
  ASSUME [Next]_vars
  PROVE  \/ UNCHANGED <<state, prog, verdict, acks, errs>> /\ (done => done')
         \/ /\ prog # << >> /\ Head(prog) \notin {"delete", "input_delete"}
            /\ prog' = Rest \/ (Head(prog) = "send" /\ prog' = << >>)
            /\ acks' = IF Head(prog) \in {"passAck", "passAck_recover"} /\ ~done
                       THEN acks + 1 ELSE acks
            /\ errs' = IF Head(prog) = "transportErr" /\ ~done THEN errs + 1 ELSE errs
            /\ UNCHANGED <<state, verdict, done>>
         \/ /\ prog # << >> /\ Head(prog) = "delete" /\ done'
            /\ prog' = IF done THEN Rest ELSE <<"stop_timers">> \o Rest
            /\ UNCHANGED <<state, verdict, acks, errs>>
         \/ /\ prog # << >>
            /\ \/ Head(prog) = "send" /\ Accept("transport_err")
               \/ Head(prog) \in {"passAck_recover", "passCancel"} /\ Accept("request")
               \/ Head(prog) = "input_delete" /\ Accept("delete")
            /\ UNCHANGED <<acks, errs, done>>
         \/ \E input : /\ prog = << >> /\ Accept(input)
                       /\ input \notin {"delete", "transport_err"}
                       /\ UNCHANGED <<acks, errs, done>>
<1> USE DEF fsmVars, histVars, upVars, endVars
<1>1. CASE Step
  <2>1. CASE send
    BY <1>1, <2>1 DEF Step, send
  <2>2. CASE passAck
    BY <1>1, <2>2, Zenon DEF Step, passAck
  <2>3. CASE passCancel
    BY <1>1, <2>3, Zenon DEF Step, passCancel
  <2>4. CASE transportErr
    BY <1>1, <2>4 DEF Step, transportErr
  <2>5. CASE delete
    BY <1>1, <2>5, Zenon DEF Step, delete
  <2>6. CASE StopTimers \/ ArmG \/ ArmH \/ ArmI \/ ArmJ \/ ArmL
    BY <1>1, <2>6, Zenon DEF Step, StopTimers, ArmG, ArmH, ArmI, ArmJ, ArmL, TimerStep
  <2>7. CASE InputDelete
    BY <1>1, <2>7 DEF Step, InputDelete
  <2> QED BY <1>1, <2>1, <2>2, <2>3, <2>4, <2>5, <2>6, <2>7, Zenon DEF Step
<1>2. ASSUME NEW input \in MessageInputs, Receive(input)
      PROVE  /\ prog = << >> /\ Accept(input) /\ input \notin {"delete", "transport_err"}
             /\ UNCHANGED <<acks, errs, done>>
  BY <1>2 DEF Receive, Spin, MessageInputs
<1>3. ASSUME NEW res, UserResponds(res)
      PROVE  UNCHANGED <<state, prog, verdict, acks, errs, done>>
  BY <1>3, Zenon DEF UserResponds, Respond
<1>4. CASE TryingResponds
  BY <1>4 DEF TryingResponds, Respond
<1>5. ASSUME NEW c \in Callers, RespondSpin(c)
      PROVE  \E input : /\ prog = << >> /\ Accept(input)
                        /\ input \notin {"delete", "transport_err"}
                        /\ UNCHANGED <<acks, errs, done>>
  <2>1. Class(responding[c]) \in UserInputs
    BY DEF Class, UserInputs
  <2> QED BY <1>5, <2>1 DEF RespondSpin, Spin, UserInputs
<1>6. ASSUME NEW t, Fire(t) PROVE UNCHANGED <<state, prog, verdict, acks, errs, done>>
  BY <1>6 DEF Fire
<1>7. ASSUME NEW t \in FsmTimers, SpinTimer(t)
      PROVE  /\ prog = << >> /\ Accept(t) /\ t \notin {"delete", "transport_err"}
             /\ UNCHANGED <<acks, errs, done>>
  BY <1>7, Zenon DEF SpinTimer, Spin, FsmTimers
<1>8. CASE Terminate \/ Read
  BY <1>8, Zenon DEF Terminate, Read
<1>9. CASE UNCHANGED vars
  BY <1>9 DEF vars
<1> QED BY <1>1, <1>2, <1>3, <1>4, <1>5, <1>6, <1>7, <1>8, <1>9, Zenon DEF Next

\* The close of the channels leaves stop_timers, or nothing, to do.
LEMMA DeleteLeaves ==
  ASSUME ProgOK, prog # << >>, Head(prog) = "delete",
         prog' = IF done THEN Rest ELSE <<"stop_timers">> \o Rest
  PROVE  state = "terminated" /\ prog = act_delete /\ prog' \in {<< >>, left_stop_timers}
<1>1. prog = act_delete /\ state = "terminated"
  BY ProgSteps, Zenon DEF ProgOK
<1>2. <<"stop_timers">> \o Tail(act_delete) = left_stop_timers
  BY DEF act_delete, left_stop_timers
<1> QED BY <1>1, <1>2, ProgSteps, Zenon DEF Rest

\* The steps under the FSM lock keep what is left to do in line with the state.
LEMMA ProgStep ==
  ASSUME ProgOK, AnswerOK, [Next]_vars
  PROVE  ProgOK'
<1> inv' = inv
  BY EndEffects, Zenon
<1>1. CASE UNCHANGED <<state, prog>>
  BY <1>1 DEF ProgOK
<1>2. ASSUME NEW input, Accept(input) PROVE ProgOK'
  <2>1. CASE inv
    BY <1>2, <2>1, AcceptInvite, Zenon DEF ProgOK
  <2>2. CASE ~inv
    BY <1>2, <2>2, AcceptNonInvite DEF ProgOK
  <2> QED BY <2>1, <2>2, Zenon
<1>3. ASSUME prog # << >>, prog' = Rest, state' = state,
             Head(prog) \notin {"delete", "input_delete"}
      PROVE  ProgOK'
  BY <1>3, ProgSteps, Zenon DEF ProgOK, Rest
<1>4. ASSUME prog' = << >> PROVE ProgOK'
  BY <1>4, Zenon DEF ProgOK
<1>5. ASSUME prog # << >>, Head(prog) = "delete", state' = state,
             prog' = IF done THEN Rest ELSE <<"stop_timers">> \o Rest
      PROVE  ProgOK'
  BY <1>5, DeleteLeaves DEF ProgOK
<1> QED BY <1>1, <1>2, <1>3, <1>4, <1>5, FsmEffects

\* The states of the two machines, and the answer that led there.
LEMMA AnswerStep ==
  ASSUME AnswerOK, [Next]_vars
  PROVE  AnswerOK'
<1> inv' = inv
  BY EndEffects, Zenon
<1>1. CASE UNCHANGED <<state, verdict>>
  BY <1>1 DEF AnswerOK
<1>2. ASSUME NEW input, Accept(input) PROVE AnswerOK'
  <2>1. CASE inv
    BY <1>2, <2>1, AcceptInvite, Zenon DEF AnswerOK
  <2>2. CASE ~inv
    BY <1>2, <2>2, AcceptNonInvite DEF AnswerOK
  <2> QED BY <2>1, <2>2, Zenon
<1> QED BY <1>1, <1>2, FsmEffects

\* Only the terminated state, or Terminate, closes the channels.
LEMMA DoneStep ==
  ASSUME ProgOK, DoneOK, [Next]_vars
  PROVE  DoneOK'
<1>1. CASE prog # << >> /\ Head(prog) = "delete" /\ state' = state
  <2>1. state = "terminated"
    BY <1>1, ProgSteps, Zenon DEF ProgOK
  <2> QED BY <1>1, <2>1, Zenon DEF DoneOK
<1>2. state = "terminated" => state' = "terminated"
  BY FsmEffects, AcceptInvite, AcceptNonInvite
<1>3. ASSUME UNCHANGED done \/ term' # "idle", term' = "idle" => term = "idle" PROVE DoneOK'
  BY <1>2, <1>3, Zenon DEF DoneOK
<1> QED BY <1>1, <1>3, EndEffects, Zenon

\* What has come out of the channels stays in line with the state of the FSM.
LEMMA GivenStep ==
  ASSUME TypeOK, ProgOK, AnswerOK, GivenOK, [Next]_vars
  PROVE  GivenOK'
<1> inv' = inv
  BY EndEffects, Zenon
<1>1. ASSUME UNCHANGED <<state, prog, verdict, acks, errs>>, done => done' PROVE GivenOK'
  BY <1>1, Zenon DEF GivenOK
<1>2. ASSUME prog # << >>, Head(prog) \notin {"delete", "input_delete"},
             prog' = Rest \/ (Head(prog) = "send" /\ prog' = << >>),
             acks' = IF Head(prog) \in {"passAck", "passAck_recover"} /\ ~done
                     THEN acks + 1 ELSE acks,
             errs' = IF Head(prog) = "transportErr" /\ ~done THEN errs + 1 ELSE errs,
             UNCHANGED <<state, verdict, done>>
      PROVE  GivenOK'
  <2>1. prog' # act_trans_err /\ prog' # act_confirm /\ prog' # act_delete
    BY <1>2, RestOf, ProgsNotEmpty
  <2>2. prog' = left_pass_ack => prog = act_confirm
    BY <1>2, RestOf, ProgsNotEmpty
  <2>3. prog' = left_input_delete => prog = act_trans_err
    BY <1>2, RestOf, ProgsNotEmpty, Zenon
  <2>4. Head(prog) = "transportErr" => prog = act_trans_err /\ state = "terminated"
    BY <1>2, ProgSteps, Zenon DEF ProgOK
  <2>5. errs' \in {0, 1} /\ (state # "terminated" => errs' = 0)
    BY <1>2, <2>4 DEF GivenOK
  <2>6. Head(prog) \in {"passAck", "passAck_recover"}
          => state \in {"accepted", "confirmed"} /\ prog # act_confirm
    BY <1>2, ProgSteps, Zenon DEF ProgOK
  <2>7. state \in {"trying", "proceeding", "completed"} \/ prog' = left_pass_ack => acks' = 0
    BY <1>2, <2>2, <2>6 DEF GivenOK
  <2>8. prog' = left_input_delete /\ ~done => errs' = 1
    BY <1>2, <2>3, ProgSteps DEF GivenOK
  <2> QED BY <1>2, <2>1, <2>5, <2>7, <2>8, Zenon DEF GivenOK
<1>3. ASSUME prog # << >>, Head(prog) = "delete", done',
             prog' = IF done THEN Rest ELSE <<"stop_timers">> \o Rest,
             UNCHANGED <<state, verdict, acks, errs>>
      PROVE  GivenOK'
  <2>1. state = "terminated" /\ prog' \in {<< >>, left_stop_timers}
    BY <1>3, DeleteLeaves
  <2>2. prog' \notin {act_trans_err, act_confirm, left_pass_ack, act_delete}
    BY <2>1, ProgSteps, ProgsNotEmpty
  <2> QED BY <1>3, <2>1, <2>2, Zenon DEF GivenOK
<1>4. ASSUME prog # << >>, Head(prog) = "send", Accept("transport_err"),
             UNCHANGED <<acks, errs, done>>
      PROVE  GivenOK'
  <2>1. state \in {"proceeding", "completed", "accepted"}
    BY <1>4, ProgSteps, Zenon DEF ProgOK
  <2>2. \/ state' = state /\ prog' = << >>
        \/ state # "accepted" /\ state' = "terminated" /\ prog' = act_trans_err
    BY <1>4, <2>1, AcceptInvite, AcceptNonInvite DEF AnswerOK
  <2>3. verdict' = verdict
    BY <1>4, AcceptInvite, AcceptNonInvite
  <2>4. state # "accepted" => ~(inv /\ verdict = "user_2xx")
    BY <2>1 DEF AnswerOK
  <2>5. /\ act_trans_err # left_input_delete /\ act_trans_err # act_delete
        /\ act_trans_err # act_confirm /\ act_trans_err # left_pass_ack
    BY ProgSteps, Zenon
  <2> QED BY <1>4, <2>1, <2>2, <2>3, <2>4, <2>5, ProgsNotEmpty, Zenon DEF GivenOK
<1>5. ASSUME prog # << >>, Head(prog) \in {"passAck_recover", "passCancel"}, Accept("request"),
             UNCHANGED <<acks, errs, done>>
      PROVE  GivenOK'
  <2>1. state \in {"proceeding", "confirmed"}
    BY <1>5, ProgSteps, Zenon DEF ProgOK
  <2>2. state' = state /\ verdict' = verdict /\ prog' \in {<< >>, act_respond}
    BY <1>5, <2>1, AcceptInvite, AcceptNonInvite
  <2>3. prog' \notin {act_trans_err, act_confirm, left_pass_ack, left_input_delete, act_delete}
    BY <2>2, ProgSteps, ProgsNotEmpty, Zenon
  <2> QED BY <1>5, <2>1, <2>2, <2>3, Zenon DEF GivenOK
<1>6. ASSUME prog # << >>, Head(prog) = "input_delete", Accept("delete"),
             UNCHANGED <<acks, errs, done>>
      PROVE  GivenOK'
  <2>1. state = "terminated" /\ prog = left_input_delete
    BY <1>6, ProgSteps, Zenon DEF ProgOK
  <2>2. state' = state /\ verdict' = verdict /\ prog' \in {<< >>, act_delete}
    BY <1>6, <2>1, AcceptInvite, AcceptNonInvite
  <2>3. prog' \notin {act_trans_err, act_confirm, left_pass_ack, left_input_delete}
    BY <2>2, ProgSteps, ProgsNotEmpty, Zenon
  <2> QED BY <1>6, <2>1, <2>2, <2>3, Zenon DEF GivenOK
<1>7. ASSUME NEW input, prog = << >>, Accept(input), input \notin {"delete", "transport_err"},
             UNCHANGED <<acks, errs, done>>
      PROVE  GivenOK'
  <2>1. state' = "terminated" /\ state # "terminated" => prog' = act_delete
    BY <1>7, AcceptInvite, AcceptNonInvite, Zenon
  <2>2. state = "terminated" => state' = "terminated" /\ prog' = << >>
    BY <1>7, AcceptInvite, AcceptNonInvite
  <2>3. prog' \notin {act_trans_err, left_pass_ack, left_input_delete}
    <3>1. CASE inv
      <4>1. prog' \in {<< >>, act_respond, act_cancel, act_respond_accept, act_respond_complete,
                      act_confirm, act_passup_ack, act_delete}
        BY <1>7, <3>1, AcceptInvite, Zenon
      <4> QED BY <4>1, ProgSteps, ProgsNotEmpty
    <3>2. CASE ~inv
      BY <1>7, <3>2, AcceptNonInvite, ProgSteps, ProgsNotEmpty, Zenon
    <3> QED BY <3>1, <3>2, Zenon
  <2>4. prog' = act_confirm => state = "completed"
    <3>1. CASE inv
      BY <1>7, <3>1, AcceptInvite, ProgSteps, ProgsNotEmpty, Zenon
    <3>2. CASE ~inv
      BY <1>7, <3>2, AcceptNonInvite, ProgSteps, ProgsNotEmpty
    <3> QED BY <3>1, <3>2
  <2>5. state' \in {"trying", "proceeding", "completed"}
          => state \in {"trying", "proceeding", "completed"}
    BY <1>7, AcceptInvite, AcceptNonInvite
  <2>6. prog' = act_delete => verdict' # "nil"
    <3>1. CASE inv
      BY <1>7, <3>1, AcceptInvite, ProgSteps, ProgsNotEmpty, Zenon DEF AnswerOK
    <3>2. CASE ~inv
      BY <1>7, <3>2, AcceptNonInvite, ProgSteps, ProgsNotEmpty, Zenon DEF AnswerOK
    <3> QED BY <3>1, <3>2, Zenon
  <2> QED BY <1>7, <2>1, <2>2, <2>3, <2>4, <2>5, <2>6, Zenon DEF GivenOK
<1> QED BY <1>1, <1>2, <1>3, <1>4, <1>5, <1>6, <1>7, FsmEffects

\* What a step may do to the channels of ACKs, CANCELs and errors.
LEMMA ChannelEffects ==
  ASSUME [Next]_vars
  PROVE  /\ \/ UNCHANGED <<acks, acksRead>>
            \/ acks - acksRead < ChanCap /\ acks' = acks + 1 /\ acksRead' = acksRead
            \/ acksRead < acks /\ acksRead' = acksRead + 1 /\ acks' = acks
         /\ \/ UNCHANGED <<cancelsUp, cancelsRead>>
            \/ cancelsUp - cancelsRead < ChanCap /\ cancelsUp' = cancelsUp + 1 /\ cancelsRead' = cancelsRead
            \/ cancelsRead < cancelsUp /\ cancelsRead' = cancelsRead + 1 /\ cancelsUp' = cancelsUp
         /\ \/ UNCHANGED <<errs, errsRead>>
            \/ errs - errsRead < ChanCap /\ errs' = errs + 1 /\ errsRead' = errsRead
            \/ errsRead < errs /\ errsRead' = errsRead + 1 /\ errs' = errs
<1> USE DEF upVars, readVars
<1>1. CASE Step
  BY <1>1, Zenon DEF Step, send, passAck, passCancel, transportErr, delete, StopTimers, ArmG, ArmH,
    ArmI, ArmJ, ArmL, TimerStep, InputDelete
<1>2. CASE Read
  BY <1>2, Zenon DEF Read
<1>3. Next => Step \/ Read \/ UNCHANGED <<upVars, readVars>>
  BY Zenon DEF Next, Receive, UserResponds, TryingResponds, Respond, RespondSpin, Fire, SpinTimer,
    Terminate
<1> QED BY <1>1, <1>2, <1>3 DEF vars

\* Every step keeps the types, the capacities of the channels and the cap of timer G.
LEMMA TypeStep ==
  ASSUME TypeOK, ProgOK', [Next]_vars
  PROVE  TypeOK'
<1> USE ConstantsAssumption
<1>1. prog' \in Seq(Ops)
  BY ProgTypes, Zenon DEF ProgOK, Programs
<1>2. state' \in States /\ verdict' \in UserInputs \cup {"nil"}
  <2>1. state \in States /\ verdict \in UserInputs \cup {"nil"}
    BY Zenon DEF TypeOK
  <2>2. ASSUME NEW input, Accept(input) PROVE <1>2!:
    <3>1. CASE inv
      BY <2>1, <2>2, <3>1, AcceptInvite, Zenon DEF States, UserInputs
    <3>2. CASE ~inv
      BY <2>1, <2>2, <3>2, AcceptNonInvite DEF States, UserInputs
    <3> QED BY <3>1, <3>2, Zenon
  <2> QED BY <2>1, <2>2, FsmEffects
<1>3. /\ inv' \in BOOLEAN /\ reliable' \in BOOLEAN
      /\ done' \in BOOLEAN /\ term' \in {"idle", "closed", "returned"}
  BY EndEffects, Zenon DEF TypeOK
<1>4. acks' \in Nat /\ acksRead' \in 0..acks' /\ acks' - acksRead' <= ChanCap
  <2>1. acks \in Nat /\ acksRead \in 0..acks /\ acks - acksRead <= ChanCap
    BY Zenon DEF TypeOK
  <2> QED BY <2>1, ChannelEffects
<1>5. /\ cancelsUp' \in Nat /\ cancelsRead' \in 0..cancelsUp'
      /\ cancelsUp' - cancelsRead' <= ChanCap
  <2>1. /\ cancelsUp \in Nat /\ cancelsRead \in 0..cancelsUp
        /\ cancelsUp - cancelsRead <= ChanCap
    BY Zenon DEF TypeOK
  <2> QED BY <2>1, ChannelEffects
<1>6. errs' \in Nat /\ errsRead' \in 0..errs' /\ errs' - errsRead' <= ChanCap
  <2>1. errs \in Nat /\ errsRead \in 0..errs /\ errs - errsRead <= ChanCap
    BY Zenon DEF TypeOK
  <2> QED BY <2>1, ChannelEffects
<1>7. lastResp' \in Resps \cup {"nil"} /\ responding' \in [Callers -> Resps \cup {"nil"}]
  <2>1. lastResp \in Resps \cup {"nil"} /\ responding \in [Callers -> Resps \cup {"nil"}]
    BY Zenon DEF TypeOK
  <2>2. ASSUME NEW c \in Callers, NEW res \in Resps, Respond(c, res) PROVE <1>7!:
    BY <2>1, <2>2, Zenon DEF Respond
  <2>3. ASSUME NEW c \in Callers, RespondSpin(c) PROVE <1>7!:
    BY <2>1, <2>3, Zenon DEF RespondSpin, lastVars
  <2>4. Next => \/ \E c \in Callers : \E res \in Resps : Respond(c, res)
                \/ \E c \in Callers : RespondSpin(c)
                \/ UNCHANGED <<lastResp, responding>>
    <3>1. Step => UNCHANGED <<lastResp, responding>>
      BY Zenon DEF Step, send, passAck, passCancel, transportErr, delete, StopTimers, ArmG, ArmH,
        ArmI, ArmJ, ArmL, TimerStep, InputDelete, lastVars
    <3>2. (\E res \in UserResps : UserResponds(res)) \/ TryingResponds
            => \E c \in Callers : \E res \in Resps : Respond(c, res)
      BY Zenon DEF UserResponds, TryingResponds, Callers, Resps
    <3> QED BY <3>1, <3>2 DEF Next, Receive, Fire, SpinTimer, Terminate, Read, lastVars
  <2> QED BY <2>1, <2>2, <2>3, <2>4 DEF vars, lastVars
<1>8. timer' \in [Timers -> TimerStates]
  <2>1. timer \in [Timers -> TimerStates]
    BY Zenon DEF TypeOK
  <2>2. CASE StopTimers \/ Terminate
    BY <2>1, <2>2, Zenon DEF StopTimers, TimerStep, Terminate, StopAll, TimerStates
  <2>3. CASE ArmG \/ ArmH
    BY <2>1, <2>3 DEF ArmG, ArmH, TimerStep, Timers, FsmTimers, TimerStates
  <2>4. CASE ArmI
    BY <2>1, <2>4, Zenon DEF ArmI, TimerStep, TimerStates
  <2>5. CASE ArmJ \/ ArmL
    BY <2>1, <2>5 DEF ArmJ, ArmL, TimerStep, TimerStates
  <2>6. CASE timer' = [timer EXCEPT !["timer_1xx"] = "nil"]
    BY <2>1, <2>6, ZenonT(40) DEF TimerStates
  <2>7. ASSUME NEW t \in Timers, Fire(t) PROVE <1>8!:
    BY <2>1, <2>7 DEF Fire, TimerStates
  <2>8. Step => StopTimers \/ ArmG \/ ArmH \/ ArmI \/ ArmJ \/ ArmL \/ UNCHANGED timer
    BY ZenonT(40) DEF Step, send, passAck, passCancel, transportErr, delete, InputDelete, timerVars
  <2>9. Next => \/ Step \/ Terminate \/ (\E t \in Timers : Fire(t)) \/ UNCHANGED timer
                \/ timer' = [timer EXCEPT !["timer_1xx"] = "nil"]
    BY DEF Next, Receive, UserResponds, TryingResponds, Respond, RespondSpin, SpinTimer, Read,
      timerVars
  <2> QED BY <2>1, <2>2, <2>3, <2>4, <2>5, <2>6, <2>7, <2>8, <2>9 DEF vars, timerVars
<1>9. timer_g_time' \in 0..T2
  <2>1. timer_g_time \in 0..T2
    BY ZenonT(40) DEF TypeOK
  <2>2. \/ UNCHANGED timer_g_time
        \/ timer_g_time' = IF 2 * timer_g_time > T2 THEN T2 ELSE 2 * timer_g_time
    BY Zenon DEF Next, Step, send, passAck, passCancel, transportErr, delete, StopTimers, ArmG, ArmH,
      ArmI, ArmJ, ArmL, InputDelete, Receive, UserResponds, TryingResponds, Respond,
      RespondSpin, Fire, SpinTimer, Terminate, Read, timerVars, vars
  <2> QED BY <2>1, <2>2
<1>10. waiting' \in [Timers -> Nat]
  <2>1. waiting \in [Timers -> Nat]
    BY Zenon DEF TypeOK
  <2>2. ASSUME NEW t \in Timers, Fire(t) PROVE <1>10!:
    BY <2>1, <2>2 DEF Fire
  <2>3. ASSUME NEW t \in Timers, waiting[t] > 0, waiting' = [waiting EXCEPT ![t] = @ - 1]
        PROVE  <1>10!:
    BY <2>1, <2>3
  <2>4. TryingResponds \/ (\E t \in FsmTimers : SpinTimer(t))
          => \E t \in Timers : waiting[t] > 0 /\ waiting' = [waiting EXCEPT ![t] = @ - 1]
    BY Zenon DEF TryingResponds, SpinTimer, Timers
  <2>5. Next => \/ \E t \in Timers : Fire(t)
                \/ TryingResponds \/ (\E t \in FsmTimers : SpinTimer(t))
                \/ UNCHANGED waiting
    BY DEF Next, Step, Receive, UserResponds, RespondSpin, Terminate, Read
  <2> QED BY <2>1, <2>2, <2>3, <2>4, <2>5 DEF vars
<1>11. /\ lastErr' \in BOOLEAN /\ acceptLost' \in BOOLEAN
       /\ panic' \in {"no", "send on closed channel"}
  <2>1. lastErr' \in BOOLEAN \/ UNCHANGED lastErr
    BY ZenonT(40) DEF Next, Step, send, passAck, passCancel, transportErr, delete, StopTimers, ArmG, ArmH,
      ArmI, ArmJ, ArmL, TimerStep, InputDelete, Receive, UserResponds, TryingResponds, Respond,
      RespondSpin, Fire, SpinTimer, Terminate, Read, lastVars, vars
  <2>2. UNCHANGED acceptLost \/ acceptLost' = (acceptLost \/ prog = act_respond_accept)
    BY ZenonT(40) DEF Next, Step, send, passAck, passCancel, transportErr, delete, StopTimers, ArmG, ArmH,
      ArmI, ArmJ, ArmL, TimerStep, InputDelete, Receive, UserResponds, TryingResponds, Respond,
      RespondSpin, Fire, SpinTimer, Terminate, Read, histVars, vars
  <2>3. UNCHANGED panic \/ panic' = "send on closed channel"
    BY Zenon DEF Next, Step, send, passAck, passCancel, transportErr, delete, StopTimers, ArmG, ArmH,
      ArmI, ArmJ, ArmL, TimerStep, InputDelete, Receive, UserResponds, TryingResponds, Respond,
      RespondSpin, Fire, SpinTimer, Terminate, Read, vars
  <2> QED BY <2>1, <2>2, <2>3, ZenonT(40) DEF TypeOK
<1>12. answer' \in Resps \cup {"nil"}
  <2>1. UNCHANGED answer \/ answer' = lastResp
    BY Zenon DEF Next, Step, send, passAck, passCancel, transportErr, delete, StopTimers, ArmG, ArmH,
      ArmI, ArmJ, ArmL, TimerStep, InputDelete, Receive, UserResponds, TryingResponds, Respond,
      RespondSpin, Fire, SpinTimer, Terminate, Read, histVars, vars
  <2> QED BY <2>1, ZenonT(40) DEF TypeOK
<1>13. recvs' \in 0..MaxRecv /\ resps' \in 0..MaxResp /\ fails' \in 0..MaxFail
  <2>1. recvs \in 0..MaxRecv /\ resps \in 0..MaxResp /\ fails \in 0..MaxFail
    BY ZenonT(40) DEF TypeOK
  <2>2. UNCHANGED recvs \/ (recvs < MaxRecv /\ recvs' = recvs + 1)
    BY Zenon DEF Next, Step, Receive, UserResponds, TryingResponds, Respond, RespondSpin, Fire,
      SpinTimer, Terminate, Read, boundVars, vars
  <2>3. UNCHANGED resps \/ (resps < MaxResp /\ resps' = resps + 1)
    BY DEF Next, Step, Receive, UserResponds, TryingResponds, Respond, RespondSpin, Fire,
      SpinTimer, Terminate, Read, boundVars, vars
  <2>4. UNCHANGED fails \/ (fails < MaxFail /\ fails' = fails + 1)
    BY Zenon DEF Next, Step, send, passAck, passCancel, transportErr, delete, StopTimers, ArmG, ArmH,
      ArmI, ArmJ, ArmL, TimerStep, InputDelete, Receive, UserResponds, TryingResponds, Respond,
      RespondSpin, Fire, SpinTimer, Terminate, Read, boundVars, vars
  <2> QED BY <2>1, <2>2, <2>3, <2>4
<1> QED BY <1>1, <1>2, <1>3, <1>4, <1>5, <1>6, <1>7, <1>8, <1>9, <1>10, <1>11, <1>12, <1>13,
  Zenon DEF TypeOK

\* The send on a closed channel that act_passup_ack does not recover.
LEMMA PanicStep ==
  ASSUME ProgOK, AnswerOK, DoneOK, OnlyAckPanics, [Next]_vars
  PROVE  OnlyAckPanics'
<1>1. CASE UNCHANGED vars
  BY <1>1, Zenon DEF OnlyAckPanics, vars, originVars, fsmVars, endVars
<1>2. Next => panic = "no"
  BY Zenon DEF Next, Step, Receive, UserResponds, TryingResponds, RespondSpin, Fire, SpinTimer,
    Terminate, Read, Alive
<1>3. Next => UNCHANGED panic \/ (Step /\ passAck /\ done /\ Head(prog) = "passAck"
                                  /\ UNCHANGED state)
  BY Zenon DEF Next, Step, send, passAck, passCancel, transportErr, delete, StopTimers, ArmG, ArmH,
    ArmI, ArmJ, ArmL, TimerStep, InputDelete, Receive, UserResponds, TryingResponds, Respond,
    RespondSpin, Fire, SpinTimer, Terminate, Read
<1>4. ASSUME Step, passAck, done, Head(prog) = "passAck", UNCHANGED state
      PROVE  OnlyAckPanics'
  <2>1. state = "accepted" /\ inv
    BY <1>4, ProgSteps DEF Step, ProgOK, AnswerOK
  <2>2. term # "idle"
    BY <1>4, <2>1 DEF DoneOK
  <2>3. UNCHANGED <<inv, term>>
    BY <1>4, Zenon DEF Step, passAck, originVars, endVars
  <2> QED BY <1>4, <2>1, <2>2, <2>3, ZenonT(40) DEF OnlyAckPanics
<1> QED BY <1>1, <1>2, <1>3, <1>4, Zenon DEF OnlyAckPanics

\* The invariant holds in every reachable state.
LEMMA Invariance == Spec => []IInv
<1> USE ConstantsAssumption
<1>1. Init => IInv
  <2> SUFFICES ASSUME Init PROVE IInv
    OBVIOUS
  <2> USE DEF Init
  <2>1. TypeOK
    <3>1. prog \in Seq(Ops) /\ state \in States
      BY DEF States
    <3>2. timer \in [Timers -> TimerStates] /\ waiting \in [Timers -> Nat]
      BY DEF TimerStates
    <3>3. responding \in [Callers -> Resps \cup {"nil"}]
      BY Zenon
    <3>4. /\ acks \in Nat /\ acksRead \in 0..acks /\ acks - acksRead <= ChanCap
          /\ cancelsUp \in Nat /\ cancelsRead \in 0..cancelsUp
          /\ cancelsUp - cancelsRead <= ChanCap
          /\ errs \in Nat /\ errsRead \in 0..errs /\ errs - errsRead <= ChanCap
      OBVIOUS
    <3>5. /\ recvs \in 0..MaxRecv /\ resps \in 0..MaxResp /\ fails \in 0..MaxFail
          /\ timer_g_time \in 0..T2
      OBVIOUS
    <3> QED BY <3>1, <3>2, <3>3, <3>4, <3>5, Zenon DEF TypeOK
  <2>2. ProgOK /\ DoneOK /\ OnlyAckPanics
    BY Zenon DEF ProgOK, DoneOK, OnlyAckPanics
  <2>3. AnswerOK
    BY Zenon DEF AnswerOK
  <2>4. GivenOK
    BY ProgsNotEmpty DEF GivenOK
  <2> QED BY <2>1, <2>2, <2>3, <2>4 DEF IInv
<1>2. IInv /\ [Next]_vars => IInv'
  BY TypeStep, ProgStep, AnswerStep, GivenStep, DoneStep, PanicStep DEF IInv
<1> QED BY <1>1, <1>2, PTL DEF Spec

-----------------------------------------------------------------------------
\* The state of a server transaction keeps its types, the acks, cancels and errs channels
\* never hold more than their capacity, and the interval of timer G never exceeds T2
\* (act_respond_complete).
THEOREM TypeCorrect == Spec => []TypeOK
BY Invariance, PTL DEF IInv

\* The only panic of a server transaction is the send of act_passup_ack on a channel that
\* Terminate has closed: act_confirm, act_cancel and transportErr recover.
THEOREM PanicCorrect == Spec => []OnlyAckPanics
BY Invariance, PTL DEF IInv

\* A rejected INVITE sends nothing once its ACK has been received, and no transaction sends
\* anything once its FSM has ended it: whoever gets the FSM lock too late finds a state
\* without a send.  Only after Terminate may a closed transaction still send.
THEOREM SilenceCorrect == Spec => []SilentOnceConfirmed
<1>1. IInv => SilentOnceConfirmed
  <2> SUFFICES ASSUME IInv, prog # << >>, Head(prog) = "send"
               PROVE  state \notin {"confirmed", "terminated"} /\ (done => term # "idle")
    BY DEF SilentOnceConfirmed
  <2>1. state \notin {"confirmed", "terminated"}
    BY ProgSteps DEF IInv, ProgOK
  <2> QED BY <2>1, Zenon DEF IInv, DoneOK
<1> QED BY <1>1, Invariance, PTL

-----------------------------------------------------------------------------
(***************************************************************************)
(* The refinement of ServerContract.                                       *)
(***************************************************************************)

\* An input is the user's answer, or leaves the verdict alone.
LEMMA AnswerRefines ==
  ASSUME IInv, NEW input, Accept(input),
         UNCHANGED <<inv, acks, cancelsUp, errs, done, term>>
  PROVE  [Contract!Next]_Contract!vars
<1>1. CASE verdict' = verdict
  BY <1>1 DEF Contract!vars
<1>2. CASE verdict' # verdict
  <2>1. state \in {"trying", "proceeding"} /\ verdict' \in {"user_2xx", "user_300_plus"}
    BY <1>2, AcceptInvite, AcceptNonInvite
  <2>2. verdict = "nil"
    BY <2>1 DEF IInv, AnswerOK
  <2>3. Contract!Answer(verdict')
    BY <2>2, Zenon DEF Contract!Answer
  <2> QED BY <2>1, <2>3, Zenon DEF Contract!Next
<1> QED BY <1>1, <1>2

\* Every step of the transaction is a step of the contract, or none.
LEMMA StepRefines ==
  ASSUME IInv, [Next]_vars
  PROVE  [Contract!Next]_Contract!vars
<1> USE DEF originVars, fsmVars, upVars, endVars, histVars
<1> DEFINE Same == UNCHANGED <<inv, verdict, acks, cancelsUp, errs, done, term>>
<1>1. Same => UNCHANGED Contract!vars
  BY Zenon DEF Contract!vars
<1>2. ASSUME Step, send PROVE [Contract!Next]_Contract!vars
  BY <1>1, <1>2, AnswerRefines DEF Step, send
<1>3. ASSUME Step, passAck PROVE [Contract!Next]_Contract!vars
  <2>1. CASE acks' = acks
    BY <1>1, <1>3, <2>1, AnswerRefines, Zenon DEF Step, passAck
  <2>2. CASE acks' # acks
    <3>1. ~done /\ acks' = acks + 1 /\ UNCHANGED <<inv, verdict, cancelsUp, errs, done, term>>
      BY <1>3, <2>2, ZenonT(40) DEF Step, passAck
    <3>2. \/ state = "accepted" /\ prog = act_passup_ack
          \/ state = "confirmed" /\ prog = left_pass_ack
      BY <1>3, ProgSteps, Zenon DEF Step, passAck, IInv, ProgOK
    <3>3. inv /\ verdict \in {"user_2xx", "user_300_plus"} /\ errs = 0
      BY <3>2 DEF IInv, AnswerOK, GivenOK
    <3>4. verdict = "user_300_plus" => acks = 0
      BY <3>2 DEF IInv, AnswerOK, GivenOK
    <3>5. Contract!PassAck
      BY <3>1, <3>3, <3>4, Zenon DEF Contract!PassAck
    <3> QED BY <3>5 DEF Contract!Next
  <2> QED BY <2>1, <2>2
<1>4. ASSUME Step, passCancel PROVE [Contract!Next]_Contract!vars
  <2>1. CASE cancelsUp' = cancelsUp
    BY <1>1, <1>4, <2>1, AnswerRefines DEF Step, passCancel
  <2>2. CASE cancelsUp' # cancelsUp
    <3>1. /\ ~done /\ cancelsUp' = cancelsUp + 1
          /\ UNCHANGED <<inv, verdict, acks, errs, done, term>>
      BY <1>4, <2>2, Zenon DEF Step, passCancel
    <3>2. state = "proceeding" /\ inv
      BY <1>4, ProgSteps, Zenon DEF Step, passCancel, IInv, ProgOK
    <3>3. verdict = "nil" /\ errs = 0
      BY <3>2 DEF IInv, AnswerOK, GivenOK
    <3>4. Contract!PassCancel
      BY <3>1, <3>2, <3>3 DEF Contract!PassCancel
    <3> QED BY <3>4, Zenon DEF Contract!Next
  <2> QED BY <2>1, <2>2
<1>5. ASSUME Step, transportErr PROVE [Contract!Next]_Contract!vars
  <2>1. CASE done
    BY <1>1, <1>5, <2>1 DEF Step, transportErr
  <2>2. CASE ~done
    <3>1. prog = act_trans_err
      BY <1>5, ProgSteps, Zenon DEF Step, transportErr, IInv, ProgOK
    <3>2. errs = 0 /\ acks = 0 /\ ~(inv /\ verdict = "user_2xx")
      BY <3>1, Zenon DEF IInv, GivenOK
    <3>3. errs' = 1 /\ UNCHANGED <<inv, verdict, acks, cancelsUp, done, term>>
      BY <1>5, <2>2, <3>2 DEF Step, transportErr
    <3>4. Contract!Report
      BY <2>2, <3>2, <3>3, Zenon DEF Contract!Report
    <3> QED BY <3>4 DEF Contract!Next
  <2> QED BY <2>1, <2>2
<1>6. ASSUME Step, delete PROVE [Contract!Next]_Contract!vars
  <2>1. CASE done
    <3>1. done' = done
      BY <1>6, <2>1, Zenon DEF delete, IInv, TypeOK
    <3> QED BY <1>1, <1>6, <3>1 DEF Step, delete
  <2>2. CASE ~done
    <3>1. prog = act_delete
      BY <1>6, ProgSteps, Zenon DEF Step, delete, IInv, ProgOK
    <3>2. verdict # "nil" \/ errs = 1
      BY <2>2, <3>1 DEF IInv, GivenOK
    <3>3. Contract!Close
      BY <1>6, <2>2, <3>2, Zenon DEF Step, delete, Contract!Close
    <3> QED BY <3>3, Zenon DEF Contract!Next
  <2> QED BY <2>1, <2>2
<1>7. ASSUME Step, InputDelete PROVE [Contract!Next]_Contract!vars
  BY <1>7, AnswerRefines DEF Step, InputDelete
<1>8. ASSUME Terminate PROVE [Contract!Next]_Contract!vars
  <2>1. CASE term = "idle"
    <3>1. Contract!Abort
      BY <1>8, <2>1, Zenon DEF Terminate, Contract!Abort
    <3> QED BY <3>1, Zenon DEF Contract!Next
  <2>2. CASE term # "idle"
    BY <1>8, <2>2, Zenon DEF Terminate, Contract!vars
  <2> QED BY <2>1, <2>2
<1>9. ASSUME NEW input, Receive(input) PROVE [Contract!Next]_Contract!vars
  BY <1>9, AnswerRefines, Zenon DEF Receive, Spin
<1>10. ASSUME NEW c, RespondSpin(c) PROVE [Contract!Next]_Contract!vars
  BY <1>10, AnswerRefines, Zenon DEF RespondSpin, Spin
<1>11. ASSUME NEW t, SpinTimer(t) PROVE [Contract!Next]_Contract!vars
  BY <1>11, AnswerRefines, Zenon DEF SpinTimer, Spin
<1>12. Step => \/ Same \/ send \/ passAck \/ passCancel \/ transportErr \/ delete
               \/ InputDelete
  BY Zenon DEF Step, StopTimers, ArmG, ArmH, ArmI, ArmJ, ArmL, TimerStep
<1>13. Next => \/ Same \/ Step \/ Terminate
               \/ (\E input : Receive(input)) \/ (\E c : RespondSpin(c))
               \/ (\E t : SpinTimer(t))
  BY Zenon DEF Next, UserResponds, TryingResponds, Respond, Fire, Read
<1>14. UNCHANGED vars => Same
  BY DEF vars
<1> QED BY <1>1, <1>2, <1>3, <1>4, <1>5, <1>6, <1>7, <1>8, <1>9, <1>10, <1>11, <1>12, <1>13,
  <1>14, Zenon

\* The server transaction implements the contract with its user, whatever the order in
\* which Receive, the two callers of Respond, the timer callbacks, failed sends and
\* Terminate interleave: CANCELs before the answer only, ACKs after it only and one for
\* a 300+, at most one error, and an end only after the answer, an error or Terminate.
THEOREM ServerRefinement == Spec => ImplementsServerContract
<1>1. Init => Contract!Init
  BY DEF Init, Contract!Init
<1>2. IInv /\ [Next]_vars => [Contract!Next]_Contract!vars
  BY StepRefines, Zenon
<1> QED BY <1>1, <1>2, Invariance, PTL DEF Spec, ImplementsServerContract, Contract!Spec

-----------------------------------------------------------------------------
\* The theorems on finite sets are needed from here on only, and under a name: what they
\* count is what the layer counts.
FS == INSTANCE FiniteSetTheorems

\* The empty set, a set with one more element, and one with an element less.
LEMMA Counting ==
  /\ \A S : IsFiniteSet(S) => (Cardinality(S) = 0 <=> S = {})
  /\ \A S, x : IsFiniteSet(S) /\ x \notin S => Cardinality(S \cup {x}) = Cardinality(S) + 1
  /\ \A S, x : IsFiniteSet(S) /\ x \in S => Cardinality(S \ {x}) = Cardinality(S) - 1
<1>1. ASSUME NEW S PROVE Cardinality(S) = FS!Cardinality(S)
  BY Zenon DEF Cardinality, FS!Cardinality
<1>2. ASSUME NEW S, IsFiniteSet(S) PROVE FS!IsFiniteSet(S)
  BY <1>2, Zenon DEF IsFiniteSet, FS!IsFiniteSet
<1>3. ASSUME NEW S, IsFiniteSet(S) PROVE Cardinality(S) = 0 <=> S = {}
  BY <1>1, <1>2, <1>3, FS!FS_EmptySet, Zenon
<1>4. ASSUME NEW S, NEW x, IsFiniteSet(S), x \notin S
      PROVE  Cardinality(S \cup {x}) = Cardinality(S) + 1
  BY <1>1, <1>2, <1>4, FS!FS_AddElement, Zenon
<1>5. ASSUME NEW S, NEW x, IsFiniteSet(S), x \in S
      PROVE  Cardinality(S \ {x}) = Cardinality(S) - 1
  BY <1>1, <1>2, <1>5, FS!FS_RemoveElement, Zenon
<1> QED BY <1>3, <1>4, <1>5

\* The transactions are finitely many, so the goroutines can be counted.
LEMMA FinitelyMany == IsFiniteSet(Txs) /\ IsFiniteSet(Goroutines)
<1>0. ASSUME NEW S PROVE IsFiniteSet(S) <=> FS!IsFiniteSet(S)
  BY Zenon DEF IsFiniteSet, FS!IsFiniteSet
<1>1. IsFiniteSet(ServerTxs)
  BY <1>0, LayerAssumption, FS!FS_Interval DEF ServerTxs
<1>2. IsFiniteSet(Txs)
  BY <1>0, <1>1, LayerAssumption, FS!FS_Union, ZenonT(40) DEF Txs
<1>3. Goroutines \subseteq Txs
  BY Zenon DEF Goroutines
<1> QED
  BY <1>0, <1>2, <1>3, FS!FS_Subset, Zenon

\* txWg counts the goroutines serveTransaction in every step, and none of them is
\* started once listenMessages has waited for txWg.
LEMMA WgStep == LayerInv /\ [LayerNext]_layerVars => WgInv'
<1> SUFFICES ASSUME LayerInv, [LayerNext]_layerVars PROVE WgInv'
  BY Zenon
<1> USE DEF LayerInv, LayerTypeOK, Txs, Keys
<1>0. ASSUME serving' = serving, txWg' = txWg, listener' = "done" => listener = "done"
      PROVE WgInv'
  BY <1>0, Zenon DEF WgInv, Goroutines, Serving
<1>1. ASSUME NEW t \in Txs, serving[t] = "no", Serve(t), listener' # "done"
      PROVE WgInv'
  <2>1. Goroutines' = Goroutines \cup {t} /\ t \notin Goroutines
    BY <1>1, Zenon DEF Serve, Goroutines, Serving
  <2>2. Cardinality(Goroutines') = Cardinality(Goroutines) + 1
    BY <2>1, FinitelyMany, Counting, Zenon
  <2> QED
    BY <1>1, <2>2, Zenon DEF Serve, WgInv
<1>2. ASSUME NEW t \in Txs, Drop(t) PROVE WgInv'
  <2>1. t \in Goroutines /\ listener # "done" /\ listener' = listener
    BY <1>2, Zenon DEF Drop, Goroutines, Serving, WgInv, serveVars
  <2>2. CASE serving' = [serving EXCEPT ![t] = "deleting"] /\ txWg' = txWg
    <3>1. Goroutines' = Goroutines
      BY <2>1, <2>2, Zenon DEF Goroutines, Serving
    <3> QED
      BY <2>1, <2>2, <3>1, Zenon DEF WgInv
  <2>3. CASE serving' = [serving EXCEPT ![t] = "finished"] /\ txWg' = txWg - 1
    <3>1. Goroutines' = Goroutines \ {t}
      BY <2>3, Zenon DEF Goroutines, Serving
    <3>2. Cardinality(Goroutines') = Cardinality(Goroutines) - 1
      BY <2>1, <3>1, FinitelyMany, Counting, Zenon
    <3> QED
      BY <2>1, <2>3, <3>2, Zenon DEF WgInv
  <2> QED
    BY <1>2, <2>2, <2>3, Zenon DEF Drop
<1>3. ASSUME NEW t \in Txs, ServeCanceled(t) \/ ServeDone(t) PROVE WgInv'
  <2>1. Goroutines' = Goroutines
    BY <1>3, Zenon DEF ServeCanceled, ServeDone, Goroutines, Serving
  <2> QED
    BY <1>3, <2>1, Zenon DEF ServeCanceled, ServeDone, WgInv, serveVars
<1>4. ASSUME NEW t \in ClientTxs, HandOver(t) PROVE WgInv'
  <2>1. serving[t] = "no" /\ listener' # "done"
    BY <1>4, Zenon DEF HandOver, ClientInv
  <2> QED
    BY <1>1, <1>4, <2>1, Zenon DEF HandOver
<1>5. CASE Handle
  <2>1. CASE serving' = serving /\ txWg' = txWg
    BY <1>0, <1>5, <2>1, Zenon DEF Handle, Goto
  <2>2. CASE ~(serving' = serving /\ txWg' = txWg)
    <3>1. PICK t \in ServerTxs : Fresh(t) /\ Serve(t) /\ listener' = "passUp"
      BY <1>5, <2>2, Zenon DEF Handle
    <3>2. serving[t] = "no"
      BY <3>1, Zenon DEF Fresh, ServerInv
    <3> QED
      BY <1>1, <3>1, <3>2, Zenon
  <2> QED
    BY <2>1, <2>2, Zenon
<1>6. CASE Finish
  <2>1. Goroutines = {}
    BY <1>6, FinitelyMany, Counting, ZenonT(40) DEF Finish, WgInv
  <2> QED
    BY <1>6, <2>1, Zenon DEF Finish, WgInv, Goroutines, Serving
<1>7. ASSUME NEW t \in ClientTxs, RequestInit(t) \/ RequestPut(t) \/ RequestCanceled(t)
      PROVE WgInv'
  BY <1>0, <1>7, Zenon DEF RequestInit, RequestPut, RequestCanceled, requestVars
<1>8. ASSUME NEW t \in Txs, TxEnds(t) \/ UserReads(t) PROVE WgInv'
  BY <1>0, <1>8, Zenon DEF TxEnds, UserReads, serveVars
<1>9. ASSUME NEW m \in Messages, Arrive(m) PROVE WgInv'
  BY <1>0, <1>9, Zenon DEF Arrive
<1>10. CASE ListenCanceled \/ PassUp \/ PassUpCanceled \/ TxReceive \/ Cancel
  BY <1>0, <1>10, Zenon DEF ListenCanceled, PassUp, PassUpCanceled, TxReceive, Cancel, Goto
<1>11. CASE UNCHANGED layerVars
  BY <1>0, <1>11 DEF layerVars
<1> QED
  BY <1>2, <1>3, <1>4, <1>5, <1>6, <1>7, <1>8, <1>9, <1>10, <1>11, Zenon DEF LayerNext

\* The invariant of the layer: it holds from the start (NewLayer) on.
THEOREM LayerInvariance == LayerSpec => []LayerInv
<1>1. LayerInit => LayerInv
  <2> SUFFICES ASSUME LayerInit PROVE LayerInv
    BY Zenon
  <2>1. Goroutines = {}
    BY Zenon DEF LayerInit, Goroutines, Serving, Txs
  <2>2. WgInv
    BY <2>1, FinitelyMany, Counting, Zenon DEF LayerInit, WgInv
  <2>3. LayerTypeOK
    <3>1. unread \in [Txs -> 0..Cap] /\ msgs \in 0..MaxMsgs /\ txWg \in Int
      BY LayerAssumption DEF LayerInit
    <3>2. txDone \in [Txs -> BOOLEAN] /\ canceled \in BOOLEAN
      BY ZenonT(40) DEF LayerInit
    <3> QED
      BY <3>1, <3>2, Zenon DEF LayerInit, LayerTypeOK
  <2>4. ServerInv /\ ClientInv /\ StoreInv /\ EndInv
    BY LayerAssumption, Zenon
       DEF LayerInit, ServerInv, ClientInv, StoreInv, EndInv, Txs, Keys, Serving
  <2> QED
    BY <2>2, <2>3, <2>4 DEF LayerInv
<1>2. LayerInv /\ [LayerNext]_layerVars => LayerInv'
  BY LayerTypeStep, OwnStep, WgStep, Zenon DEF LayerInv, OwnInv
<1> QED
  BY <1>1, <1>2, PTL DEF LayerSpec

\* TypeOK holds in every reachable state of the layer.
THEOREM LayerTypeCorrect == LayerSpec => []LayerTypeOK
<1> QED
  BY LayerInvariance, PTL DEF LayerInv

\* Two server transactions with the same key are never alive together: both would
\* be the entry of that key in the store.
THEOREM AtMostOneLive == LayerSpec => []OneLivePerKey
<1>1. LayerInv => OneLivePerKey
  BY OwnGives, Zenon DEF LayerInv, OwnInv
<1> QED
  BY <1>1, LayerInvariance, PTL

\* Every transaction in the store has a goroutine serveTransaction or a Request that
\* still holds it.
THEOREM EveryEntryServed == LayerSpec => []StoredIsServed
<1>1. LayerInv => StoredIsServed
  BY OwnGives, Zenon DEF LayerInv, OwnInv
<1> QED
  BY <1>1, LayerInvariance, PTL

\* When the layer is done, every transaction it served has ended and left the store.
THEOREM DoneIsClean == LayerSpec => []DoneEndsAll
<1>1. LayerInv => DoneEndsAll
  <2> SUFFICES ASSUME LayerInv, listener = "done", NEW t \in Txs, Created(t)
               PROVE  \/ txDone[t] /\ serving[t] = "finished" /\ store[Key(t)] # t
                      \/ /\ t \in ClientTxs /\ serving[t] = "no"
                         /\ request[t] \in {"sent", "stored", "refused"}
    BY DEF DoneEndsAll
  <2>1. ~Serving(t)
    BY Zenon DEF LayerInv, WgInv, Goroutines
  <2>2. CASE t \in ServerTxs
    BY <2>1, <2>2, LayerAssumption, Zenon
       DEF LayerInv, LayerTypeOK, ServerInv, EndInv, Created, Key, Serving, Txs
  <2>3. CASE t \in ClientTxs
    BY <2>1, <2>3 DEF LayerInv, LayerTypeOK, ClientInv, EndInv, Created, Key, Serving, Txs
  <2> QED
    BY <2>2, <2>3, Zenon DEF Txs
<1> QED
  BY <1>1, LayerInvariance, PTL

\* Only the goroutine of a transaction takes it out of the store, after its end.
THEOREM DropIsOwn == LayerSpec => OnlyOwnerDrops
<1> DEFINE Owned(k) == /\ txDone[store[k]]
                       /\ serving[store[k]] = "deleting" /\ serving'[store[k]] = "finished"
<1>1. ASSUME LayerInv, [LayerNext]_layerVars, NEW k \in Keys, store[k] # NoTx, store'[k] # store[k]
      PROVE  Owned(k)
  <2> USE DEF LayerInv, LayerTypeOK
  <2>1. ASSUME NEW t \in ClientTxs, RequestPut(t) PROVE FALSE
    BY <1>1, <2>1, LayerAssumption, Zenon DEF RequestPut, ClientInv, Keys, Serving
  <2>2. ASSUME Handle PROVE FALSE
    <3>1. msg.key \in Keys
      BY <1>1, <2>2, Zenon DEF Handle, Messages, Keys
    <3> QED
      BY <1>1, <2>2, <3>1, ZenonT(40) DEF Handle
  <2>3. ASSUME NEW t \in Txs, Drop(t) PROVE Owned(k)
    <3>1. store[Key(t)] = t
      BY <1>1, <2>3, Zenon DEF Drop, Key, ServerInv, ClientInv, Serving, Txs
    <3>2. serving[t] = "deleting" /\ store' = [store EXCEPT ![Key(t)] = NoTx]
      BY <1>1, <2>3, Zenon DEF Drop
    <3>3. k = Key(t)
      BY <1>1, <3>2, Zenon
    <3> QED
      BY <1>1, <2>3, <3>1, <3>2, <3>3 DEF Drop, EndInv
  <2>4. CASE store' = store
    BY <1>1, <2>4, ZenonT(40)
  <2> QED
    BY <1>1, <2>1, <2>2, <2>3, <2>4, ZenonT(40)
       DEF LayerNext, layerVars, RequestInit, RequestCanceled, requestVars, HandOver, ListenCanceled,
           Arrive, PassUp, PassUpCanceled, TxReceive, Finish, ServeCanceled, ServeDone, TxEnds,
           serveVars, UserReads, Cancel
<1>2. LayerInv /\ [LayerNext]_layerVars =>
        [\A k \in Keys : store[k] # NoTx /\ store'[k] # store[k] => Owned(k)]_layerVars
  BY <1>1
<1> QED
  BY <1>2, LayerInvariance, PTL DEF LayerSpec, OnlyOwnerDrops
=============================================================================
