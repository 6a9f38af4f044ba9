------------------------------- MODULE TxLayer -------------------------------
(***************************************************************************)
(* The transaction layer of transaction/layer.go: the store that matches   *)
(* messages to transactions, the goroutine listenMessages that is the only *)
(* reader of the transport, one goroutine serveTransaction per             *)
(* transaction, the callers of Request, and Cancel.                        *)
(*                                                                         *)
(* A transaction is reduced to what the layer sees of it: whether it is    *)
(* done, and how many elements its channels hold.  It ends by itself at    *)
(* any time its FSM is not busy, as ClientContract and ServerContract say, *)
(* or by Terminate.  Receive keeps the FSM busy until there is room in the *)
(* channel it passes the message up to.                                    *)
(***************************************************************************)
EXTENDS Integers, FiniteSets

CONSTANTS
  ClientTxs,   \* client transactions; each has a branch, and so a key, of its own
  MaxServerTxs,\* bound: server transactions, numbered in the order of their creation
  ServerKeys,  \* keys of incoming requests
  NoTx,        \* the empty entry of the store
  Cap,         \* capacity of the channels of a transaction (64 in the code)
  MaxMsgs      \* bound: messages that arrive

ServerTxs == 1..MaxServerTxs

ASSUME LayerAssumption ==
  /\ IsFiniteSet(ClientTxs)
  /\ MaxServerTxs \in Nat
  /\ ClientTxs \cap ServerTxs = {} /\ ClientTxs \cap ServerKeys = {}
  /\ NoTx \notin ClientTxs \cup ServerTxs \cup ServerKeys
  /\ Cap \in Nat \ {0} /\ MaxMsgs \in Nat

VARIABLES
  canceled,  \* txl.canceled is closed
  listener,  \* where listenMessages is
  msg,       \* the message it handles
  target,    \* the transaction it has looked up or created for msg
  txWg,      \* txl.txWg
  store,     \* txl.transactions, by key
  request,   \* where the call of Request for a client transaction is
  serverKey, \* the key of a server transaction, NoTx before its creation
  serving,   \* where the goroutine serveTransaction of a transaction is
  txDone,    \* the transaction is done
  unread,    \* elements in the channel the user of a transaction reads
  msgs       \* messages so far

layerVars == <<canceled, listener, msg, target, txWg, store, request, serverKey, serving,
               txDone, unread, msgs>>

Txs  == ClientTxs \cup ServerTxs
Keys == ClientTxs \cup ServerKeys

\* tx.Key()
Key(t) == IF t \in ClientTxs THEN t ELSE serverKey[t]

\* Incoming messages; up says whether the transaction passes the message up.
Messages ==
  [kind : {"response"}, key : ClientTxs, up : BOOLEAN]
    \cup [kind : {"ack", "cancel"}, key : ServerKeys, up : BOOLEAN]
    \cup [kind : {"request"}, key : ServerKeys, up : {FALSE}]
NoMsg == [kind |-> "none", key |-> NoTx, up |-> FALSE]

-----------------------------------------------------------------------------
(***************************************************************************)
(* Request, for a client transaction t.                                    *)
(***************************************************************************)
requestVars == <<canceled, listener, msg, target, txWg, serverKey, serving, txDone, unread,
                 msgs>>

\* the check of canceled, NewClientTx, and Init with its send
RequestInit(t) ==
  /\ request[t] = "idle"
  /\ ~canceled
  /\ \E outcome \in {"sent", "failed"} : request' = [request EXCEPT ![t] = outcome]
  /\ UNCHANGED <<requestVars, store>>

RequestPut(t) ==
  /\ request[t] = "sent"
  /\ request' = [request EXCEPT ![t] = "stored"]
  /\ store' = [store EXCEPT ![t] = t]
  /\ UNCHANGED requestVars

\* Mutants (here and below, names that end in _bug): wrong versions of the
\* definition of the same name, which the properties must tell from the right one.
\* A plain send to serveTxCh, without the case of canceled:
RequestCanceled_bug(t) == FALSE

\* case <-txl.canceled
RequestCanceled(t) ==
  /\ request[t] = "stored"
  /\ canceled
  /\ request' = [request EXCEPT ![t] = "refused"]
  /\ UNCHANGED <<requestVars, store>>

-----------------------------------------------------------------------------
(***************************************************************************)
(* listenMessages.                                                         *)
(***************************************************************************)
Goto(pc) == listener' = pc /\ msg' = NoMsg /\ target' = NoTx

\* without txWg.Add
Serve_bug(t) ==
  /\ txWg' = txWg
  /\ serving' = [serving EXCEPT ![t] = "running"]

\* go txl.serveTransaction(t)
Serve(t) ==
  /\ txWg' = txWg + 1
  /\ serving' = [serving EXCEPT ![t] = "running"]

\* case <-txl.canceled: the deferred function waits for txWg
ListenCanceled ==
  /\ listener = "select" /\ canceled
  /\ Goto("wait")
  /\ UNCHANGED <<canceled, txWg, store, request, serverKey, serving, txDone, unread, msgs>>

\* without go serveTransaction
HandOver_bug(t) ==
  /\ listener = "select"
  /\ request[t] = "stored"
  /\ request' = [request EXCEPT ![t] = "served"]
  /\ UNCHANGED <<canceled, listener, msg, target, txWg, store, serverKey, serving, txDone,
                 unread, msgs>>

\* case tx := <-txl.serveTxCh, together with the send in Request
HandOver(t) ==
  /\ listener = "select"
  /\ request[t] = "stored"
  /\ request' = [request EXCEPT ![t] = "served"]
  /\ Serve(t)
  /\ UNCHANGED <<canceled, listener, msg, target, store, serverKey, txDone, unread, msgs>>

\* The next server transaction to create, if the bound leaves one.
Fresh(t) == t \in ServerTxs /\ serverKey[t] = NoTx /\ \A u \in 1..(t-1) : serverKey[u] # NoTx

\* case msg := <-txl.tpl.Messages(): a response comes after its request only
Arrive(m) ==
  /\ listener = "select"
  /\ msgs < MaxMsgs
  /\ m.kind = "response" => request[m.key] \in {"sent", "stored", "served", "refused"}
  /\ m.kind = "request" => \E t \in ServerTxs : Fresh(t)
  /\ msgs' = msgs + 1
  /\ listener' = "handle" /\ msg' = m /\ target' = NoTx
  /\ UNCHANGED <<canceled, txWg, store, request, serverKey, serving, txDone, unread>>

\* handleMessage, handleRequest and handleResponse up to the look-up: a message
\* that is matched goes to its transaction, an ACK or a response that is not goes
\* to the user, a CANCEL is answered with 481, and a request makes a transaction,
\* which is stored and served before it is passed up.
Handle ==
  /\ listener = "handle"
  /\ \/ /\ canceled
        /\ Goto("select")
        /\ UNCHANGED <<txWg, store, serverKey, serving>>
     \/ /\ ~canceled
        /\ store[msg.key] # NoTx
        /\ listener' = "receive" /\ target' = store[msg.key]
        /\ UNCHANGED <<msg, txWg, store, serverKey, serving>>
     \/ /\ ~canceled
        /\ store[msg.key] = NoTx
        /\ msg.kind \in {"response", "ack"}
        /\ listener' = "passUp"
        /\ UNCHANGED <<msg, target, txWg, store, serverKey, serving>>
     \/ /\ ~canceled
        /\ store[msg.key] = NoTx
        /\ msg.kind = "cancel"
        /\ Goto("select")
        /\ UNCHANGED <<txWg, store, serverKey, serving>>
     \/ /\ ~canceled
        /\ store[msg.key] = NoTx
        /\ msg.kind = "request"
        /\ \E t \in ServerTxs :
             /\ Fresh(t)
             /\ serverKey' = [serverKey EXCEPT ![t] = msg.key]
             /\ store' = [store EXCEPT ![msg.key] = t]
             /\ Serve(t)
             /\ listener' = "passUp" /\ target' = t
        /\ UNCHANGED msg
  /\ UNCHANGED <<canceled, request, txDone, unread, msgs>>

\* select { case <-txl.canceled: case txl.requests <- tx: }, the same for the acks
\* and responses channels: the user takes the element, or the layer is canceled
PassUp ==
  /\ listener = "passUp"
  /\ Goto("select")
  /\ UNCHANGED <<canceled, txWg, store, request, serverKey, serving, txDone, unread, msgs>>

PassUpCanceled ==
  /\ listener = "passUp" /\ canceled
  /\ Goto("select")
  /\ UNCHANGED <<canceled, txWg, store, request, serverKey, serving, txDone, unread, msgs>>

\* tx.Receive: the transaction may have ended since the look-up
TxReceive ==
  /\ listener = "receive"
  /\ \/ /\ txDone[target] \/ ~msg.up
        /\ UNCHANGED unread
     \/ /\ ~txDone[target] /\ msg.up
        /\ unread[target] < Cap
        /\ unread' = [unread EXCEPT ![target] = @ + 1]
  /\ Goto("select")
  /\ UNCHANGED <<canceled, txWg, store, request, serverKey, serving, txDone, msgs>>

\* The deferred function of listenMessages: Wait, then the channels are closed.
Finish ==
  /\ listener = "wait"
  /\ txWg = 0
  /\ Goto("done")
  /\ UNCHANGED <<canceled, txWg, store, request, serverKey, serving, txDone, unread, msgs>>
-----------------------------------------------------------------------------
(***************************************************************************)
(* serveTransaction, the transactions, and Cancel.                         *)
(***************************************************************************)
serveVars == <<canceled, listener, msg, target, request, serverKey, unread, msgs>>

\* without tx.Terminate()
ServeCanceled_bug(t) ==
  /\ serving[t] = "running" /\ canceled
  /\ serving' = [serving EXCEPT ![t] = "dropping"]
  /\ UNCHANGED <<serveVars, txDone, txWg, store>>

\* case <-txl.canceled: tx.Terminate()
ServeCanceled(t) ==
  /\ serving[t] = "running" /\ canceled
  /\ txDone' = [txDone EXCEPT ![t] = TRUE]
  /\ serving' = [serving EXCEPT ![t] = "dropping"]
  /\ UNCHANGED <<serveVars, txWg, store>>

\* without waiting for Done()
ServeDone_bug(t) ==
  /\ serving[t] = "running"
  /\ serving' = [serving EXCEPT ![t] = "dropping"]
  /\ UNCHANGED <<serveVars, txDone, txWg, store>>

\* case <-tx.Done()
ServeDone(t) ==
  /\ serving[t] = "running" /\ txDone[t]
  /\ serving' = [serving EXCEPT ![t] = "dropping"]
  /\ UNCHANGED <<serveVars, txDone, txWg, store>>

\* drop looks the key up, and deletes it under a second lock
Drop(t) ==
  /\ \/ /\ serving[t] = "dropping"
        /\ store[Key(t)] # NoTx
        /\ serving' = [serving EXCEPT ![t] = "deleting"]
        /\ UNCHANGED <<store, txWg>>
     \/ /\ serving[t] = "dropping"
        /\ store[Key(t)] = NoTx
        /\ serving' = [serving EXCEPT ![t] = "finished"]
        /\ txWg' = txWg - 1
        /\ UNCHANGED store
     \/ /\ serving[t] = "deleting"
        /\ store' = [store EXCEPT ![Key(t)] = NoTx]
        /\ serving' = [serving EXCEPT ![t] = "finished"]
        /\ txWg' = txWg - 1
  /\ UNCHANGED <<serveVars, txDone>>

Created(t) == IF t \in ClientTxs THEN request[t] \in {"sent", "stored", "served", "refused"}
                                 ELSE serverKey[t] # NoTx
Busy(t)    == listener = "receive" /\ target = t /\ msg.up /\ unread[t] >= Cap

\* The FSM of the transaction ends it.  It cannot while Receive holds the FSM and
\* waits for room in the channel.
TxEnds(t) ==
  /\ Created(t) /\ ~txDone[t]
  /\ ~Busy(t)
  /\ txDone' = [txDone EXCEPT ![t] = TRUE]
  /\ UNCHANGED <<serveVars, serving, txWg, store>>

\* The user of the transaction reads its channel.
UserReads(t) ==
  /\ unread[t] > 0
  /\ unread' = [unread EXCEPT ![t] = @ - 1]
  /\ UNCHANGED <<canceled, listener, msg, target, txWg, store, request, serverKey, serving,
                 txDone, msgs>>

Cancel ==
  /\ ~canceled
  /\ canceled' = TRUE
  /\ UNCHANGED <<listener, msg, target, txWg, store, request, serverKey, serving, txDone,
                 unread, msgs>>

-----------------------------------------------------------------------------
LayerInit ==
  /\ canceled = FALSE
  /\ listener = "select" /\ msg = NoMsg /\ target = NoTx
  /\ txWg = 0
  /\ store = [k \in Keys |-> NoTx]
  /\ request = [t \in ClientTxs |-> "idle"]
  /\ serverKey = [t \in ServerTxs |-> NoTx]
  /\ serving = [t \in Txs |-> "no"]
  /\ txDone = [t \in Txs |-> FALSE]
  /\ unread = [t \in Txs |-> 0]
  /\ msgs = 0

LayerNext ==
  \/ \E t \in ClientTxs : RequestInit(t)
  \/ \E t \in ClientTxs : RequestPut(t)
  \/ \E t \in ClientTxs : RequestCanceled(t)
  \/ \E t \in ClientTxs : HandOver(t)
  \/ ListenCanceled
  \/ \E m \in Messages : Arrive(m)
  \/ Handle
  \/ PassUp
  \/ PassUpCanceled
  \/ TxReceive
  \/ Finish
  \/ \E t \in Txs : ServeCanceled(t)
  \/ \E t \in Txs : ServeDone(t)
  \/ \E t \in Txs : Drop(t)
  \/ \E t \in Txs : TxEnds(t)
  \/ \E t \in Txs : UserReads(t)
  \/ Cancel

LayerSpec == LayerInit /\ [][LayerNext]_layerVars

\* Go does not stop running goroutines while some of them can run.  Nothing is assumed of
\* the users: they need not read.
Progress ==
  \/ \E t \in ClientTxs : RequestPut(t) \/ RequestCanceled(t) \/ HandOver(t)
  \/ ListenCanceled \/ Handle \/ PassUpCanceled \/ TxReceive \/ Finish
  \/ \E t \in Txs : ServeCanceled(t) \/ ServeDone(t) \/ Drop(t)

LayerFairness == WF_layerVars(Progress)

LayerFairSpec == LayerSpec /\ LayerFairness
-----------------------------------------------------------------------------
(***************************************************************************)
(* Properties.                                                             *)
(***************************************************************************)

\* Types; what listenMessages works on fits where it is; a channel is never
\* filled over its capacity.
LayerTypeOK ==
  /\ canceled \in BOOLEAN
  /\ listener \in {"select", "handle", "passUp", "receive", "wait", "done"}
  /\ msg \in Messages \cup {NoMsg}
  /\ target \in Txs \cup {NoTx}
  /\ listener \in {"handle", "passUp", "receive"} => msg \in Messages
  /\ listener = "receive" => target \in Txs
  /\ txWg \in Int
  /\ store \in [Keys -> Txs \cup {NoTx}]
  /\ request \in [ClientTxs -> {"idle", "failed", "sent", "stored", "served", "refused"}]
  /\ serverKey \in [ServerTxs -> ServerKeys \cup {NoTx}]
  /\ serving \in [Txs -> {"no", "running", "dropping", "deleting", "finished"}]
  /\ txDone \in [Txs -> BOOLEAN]
  /\ unread \in [Txs -> 0..Cap]
  /\ msgs \in 0..MaxMsgs

\* An entry of the store is never overwritten, and only the goroutine of the
\* transaction it holds deletes it, after the end of the transaction: drop goes by
\* the key alone and looks up and deletes in two critical sections.
OnlyOwnerDrops ==
  [][\A k \in Keys : store[k] # NoTx /\ store'[k] # store[k] =>
       /\ txDone[store[k]]
       /\ serving[store[k]] = "deleting" /\ serving'[store[k]] = "finished"]_layerVars

\* Two server transactions with the same key are never alive together: a
\* retransmitted request finds the transaction of the first one until that ends.
OneLivePerKey ==
  \A t, u \in ServerTxs :
    t # u /\ serverKey[t] # NoTx /\ serverKey[t] = serverKey[u] => txDone[t] \/ txDone[u]

Serving(t) == serving[t] \in {"running", "dropping", "deleting"}

\* What is in the store has a goroutine that will take it out, or a Request that is
\* about to hand it over.  The exception: Cancel came while Request waited in its
\* second select, and the transaction stays in the store.
StoredIsServed ==
  \A t \in Txs : Created(t) /\ store[Key(t)] = t =>
    Serving(t) \/ (t \in ClientTxs /\ request[t] \in {"stored", "refused"})

\* When Done() is closed, no serveTransaction runs any more and every transaction
\* has ended, but for those whose Request was overtaken by Cancel.
DoneEndsAll ==
  listener = "done" =>
    \A t \in Txs : Created(t) =>
      \/ txDone[t] /\ serving[t] = "finished" /\ store[Key(t)] # t
      \/ t \in ClientTxs /\ serving[t] = "no" /\ request[t] \in {"sent", "stored", "refused"}

\* After Cancel the layer ends without any help of its users, even if a channel is
\* full and listenMessages is blocked in Receive: the goroutine of the transaction
\* terminates it.  The exception is a full channel of a transaction that Cancel
\* left without a goroutine.
CancelEnds ==
  canceled ~> (listener = "done" \/ \E t \in ClientTxs : Busy(t) /\ request[t] = "refused")

\* The listener is blocked until a user of the layer or of a transaction reads.
WaitsForUser == listener = "passUp" \/ \E t \in Txs : Busy(t)

\* A call of Request returns, unless the listener waits for a user for ever.
RequestReturns ==
  <>[]WaitsForUser
    \/ \A t \in ClientTxs : request[t] = "sent" ~> request[t] \in {"served", "refused"}

\* A response that is passed up as not matched belongs to no live transaction.
UnmatchedHasNoTx ==
  listener = "passUp" /\ msg.kind = "response" => txDone[msg.key]

=============================================================================
