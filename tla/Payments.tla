------------------------------ MODULE Payments ------------------------------
(***************************************************************************)
(* The buyer's side of a payment, as one funder keeps it:                  *)
(*   handler/handle_control.rs  the user's commands,                       *)
(*   handler/handle_friend.rs   what answers make of a payment,            *)
(*   handler/canceler.rs        remove_transaction,                        *)
(*   handler/sender.rs          requests that leave or are dropped,        *)
(*   state.rs                   Payment and OpenTransaction.               *)
(*                                                                         *)
(* A payment has several transactions, each through one of the friends.    *)
(* The route behind the friend is module RequestRelay: a request is        *)
(* answered by a response and then by a cancel or a collect.  An answer    *)
(* comes in a move token; with the token the node sends what waits for     *)
(* that friend, at the end of the same handler.                            *)
(***************************************************************************)
EXTENDS Integers, FiniteSets

CONSTANTS PaymentId, Uid, Friend,
          NoPayment,    \* stands for a transaction that is not open
          MaxQueue,     \* max_pending_user_requests
          MaxCommands,  \* bounds on the commands of the user,
          MaxDrops,     \* on the loss of friends and on restarts,
          MaxLacks,     \* on requests that lack trust
          MaxBreaks     \* and on channels that break

ASSUME PaymentsAssumption ==
  /\ NoPayment \notin PaymentId
  /\ IsFiniteSet(Uid)
  /\ {MaxQueue, MaxCommands, MaxDrops, MaxLacks, MaxBreaks} \subseteq Nat

VARIABLES status,     \* status[p]: which Payment, "none" if it is not in the map
          num,        \* num_transactions
          life,       \* how often p was created; names the ack_uid of this life
          payment,    \* payment[u]: the payment_id in open_transactions
          responses,  \* open transactions with an opt_response
          queued,     \* pending_user_requests of a friend,
          requested,  \* local pending transactions in the request stage
          responded,  \* and in the response stage
          online,     \* friends that are online,
          broken,     \* and those with an inconsistent channel
          told,       \* closing results the user was sent
          asked,      \* transactions that wait for a TransactionResult
          collected,  \* history: lives of payments with a transaction collected
          left        \* what is left of the bounds

pays == <<status, num, life, payment, responses>>
places == <<queued, requested, responded>>
vars == <<pays, places, online, broken, told, asked, collected, left>>

Status == {"none", "newTransactions", "inProgress", "success", "canceled",
           "afterSuccessAck"}

Outcome == [id : PaymentId, is : {"success", "canceled"}, ack : Nat]

Init ==
  /\ status = [p \in PaymentId |-> "none"]
  /\ num = [p \in PaymentId |-> 0]
  /\ life = [p \in PaymentId |-> 0]
  /\ payment = [u \in Uid |-> NoPayment]
  /\ responses = {}
  /\ queued = [f \in Friend |-> {}]
  /\ requested = [f \in Friend |-> {}]
  /\ responded = [f \in Friend |-> {}]
  /\ online = Friend
  /\ broken = {}
  /\ told = {}
  /\ asked = {}
  /\ collected = {}
  /\ left = [commands |-> MaxCommands, drops |-> MaxDrops,
             lacks |-> MaxLacks, breaks |-> MaxBreaks]

Spend(what) == left[what] > 0 /\ left' = [left EXCEPT ![what] = @ - 1]

Opened(p) == {u \in Uid : payment[u] = p}

-----------------------------------------------------------------------------
\* Slip: nobody notices the last transaction of a payment.
StatusAfterRemovalStays(p, n) == status[p]

(***************************************************************************)
(* remove_transaction for each of the transactions: the last one of a      *)
(* payment that is being closed cancels it, and the last one of a payment  *)
(* that was acknowledged removes it.                                       *)
(***************************************************************************)
StatusAfterRemoval(p, n) ==
  IF n = 0 /\ status[p] = "inProgress" THEN "canceled"
  ELSE IF n = 0 /\ status[p] = "afterSuccessAck" THEN "none"
  ELSE status[p]

RemoveTransactions(us) ==
  LET gone(p) == Opened(p) \cap us
      rest(p) == num[p] - Cardinality(gone(p))
  IN  /\ num' = [p \in PaymentId |-> rest(p)]
      /\ status' = [p \in PaymentId |-> IF gone(p) = {} THEN status[p]
                                        ELSE StatusAfterRemoval(p, rest(p))]
      /\ payment' = [u \in Uid |-> IF u \in us THEN NoPayment ELSE payment[u]]
      /\ responses' = responses \ us
      /\ UNCHANGED life

\* Slip: a collect is treated like a cancel: the payment gets no receipt.
CollectTransactionNoReceipt(u) == RemoveTransactions({u})

\* handle_collect_send_funds: the first collect makes the payment a success.
CollectTransaction(u) ==
  LET p == payment[u]
      n == num[p] - 1
  IN  /\ num' = [num EXCEPT ![p] = n]
      /\ status' = [status EXCEPT ![p] =
           CASE @ \in {"newTransactions", "inProgress"} -> "success"
             [] @ = "afterSuccessAck" /\ n = 0           -> "none"
             [] OTHER                                    -> @]
      /\ payment' = [payment EXCEPT ![u] = NoPayment]
      /\ responses' = responses \ {u}
      /\ UNCHANGED life

\* The user is sent a TransactionResult for each of the transactions.
Answered(us) == asked' = asked \ us

-----------------------------------------------------------------------------
(***************************************************************************)
(* Commands of the user.                                                   *)
(***************************************************************************)
\* control_create_payment
CreatePayment(p) ==
  /\ Spend("commands")
  /\ status[p] = "none"
  /\ status' = [status EXCEPT ![p] = "newTransactions"]
  /\ num' = [num EXCEPT ![p] = 0]
  /\ life' = [life EXCEPT ![p] = @ + 1]
  /\ UNCHANGED <<payment, responses, places, online, broken, told, asked, collected>>

\* find_local_pending_transaction finds one
IsLocalPending(u) ==
  \E f \in Friend \ broken : u \in requested[f] \cup responded[f]

\* control_create_transaction for a transaction that is open: its commit is
\* sent again if there is one.
CreateAgain(u) ==
  /\ Spend("commands")
  /\ payment[u] # NoPayment
  /\ asked' = IF /\ u \in responses
                 /\ IsLocalPending(u)
                THEN asked \ {u} ELSE asked \cup {u}
  /\ UNCHANGED <<pays, places, online, broken, told, collected>>

Counted(n) == n + 1

\* control_create_transaction_inner succeeds.  The request waits for the token,
\* or the token is here: then it leaves at once, or lacks trust.
CreateTransaction(u, p, f) ==
  /\ payment[u] = NoPayment /\ status[p] = "newTransactions"
  /\ f \in online \ broken
  /\ u \notin queued[f] \cup requested[f] \cup responded[f]
  /\ Cardinality(queued[f]) < MaxQueue
  /\ payment' = [payment EXCEPT ![u] = p]
  /\ responses' = responses \ {u}
  /\ num' = [num EXCEPT ![p] = Counted(@)]
  /\ \/ /\ Spend("commands")
        /\ queued' = [queued EXCEPT ![f] = @ \cup {u}]
        /\ asked' = asked \cup {u}
        /\ UNCHANGED requested
     \/ /\ Spend("commands") /\ queued[f] = {}
        /\ requested' = [requested EXCEPT ![f] = @ \cup {u}]
        /\ asked' = asked \cup {u}
        /\ UNCHANGED queued
     \/ /\ left.commands > 0 /\ left.lacks > 0 /\ queued[f] = {}
        /\ left' = [left EXCEPT !.commands = @ - 1, !.lacks = @ - 1]
        /\ Answered({u})
        /\ UNCHANGED <<queued, requested>>
  /\ UNCHANGED <<status, life, responded, online, broken, told, collected>>

\* control_create_transaction_inner fails: the payment does not take new
\* transactions, or the friend is not ready, or the route is not valid.
CreateFails(u) ==
  /\ Spend("commands")
  /\ payment[u] = NoPayment
  /\ Answered({u})
  /\ UNCHANGED <<pays, places, online, broken, told, collected>>

\* Slip: the open transactions of a payment that is closed are ignored.
ClosedStatusEarly(p) ==
  CASE status[p] = "newTransactions" -> "inProgress"
    [] status[p] = "inProgress"      -> "canceled"
    [] OTHER                         -> status[p]

ClosedStatus(p) ==
  CASE status[p] = "newTransactions"               -> "inProgress"
    [] status[p] = "inProgress" /\ num[p] = 0      -> "canceled"
    [] OTHER                                       -> status[p]

\* control_request_close_payment
RequestClosePayment(p) ==
  /\ Spend("commands")
  /\ status[p] # "none"
  /\ status' = [status EXCEPT ![p] = ClosedStatus(p)]
  /\ told' = IF ClosedStatus(p) \in {"success", "canceled"}
               THEN told \cup {[id |-> p, is |-> ClosedStatus(p), ack |-> life[p]]}
               ELSE told
  /\ UNCHANGED <<num, life, payment, responses, places, online, broken, asked,
                 collected>>

\* Slip: any ack_uid will do.
AckMatchesAny(p, ack) == TRUE

\* The ack_uid of a payment is drawn when it succeeds or is canceled, which
\* happens once in its life.
AckMatches(p, ack) == ack = life[p]

\* control_ack_close_payment with an ack_uid the user was sent, maybe long ago
AckClosePayment(p, ack) ==
  /\ Spend("commands")
  /\ \E t \in told : t.id = p /\ t.ack = ack
  /\ status[p] \in {"success", "canceled"}
  /\ AckMatches(p, ack)
  /\ status' = [status EXCEPT ![p] =
                  IF @ = "success" /\ num[p] > 0 THEN "afterSuccessAck" ELSE "none"]
  /\ UNCHANGED <<num, life, payment, responses, places, online, broken, told,
                 asked, collected>>

-----------------------------------------------------------------------------
(***************************************************************************)
(* A move token of friend f comes.  The transactions `gone' leave its      *)
(* ledger, `more' are in the response stage now, and what is queued for f  *)
(* is sent, except for the requests that lack trust: these are dropped,    *)
(* and their transactions stay open.                                       *)
(***************************************************************************)
SendQueued(f, gone, more, lacking) ==
  /\ f \in online \ broken
  /\ lacking \subseteq queued[f] /\ Cardinality(lacking) <= left.lacks
  /\ left' = [left EXCEPT !.lacks = @ - Cardinality(lacking)]
  /\ queued' = [queued EXCEPT ![f] = {}]
  /\ requested' = [requested EXCEPT ![f] =
                     (@ \ (gone \cup more)) \cup (queued[f] \ lacking)]
  /\ responded' = [responded EXCEPT ![f] = (@ \ gone) \cup more]
  /\ UNCHANGED <<online, broken, told>>

ReceiveToken(f, lacking) ==
  /\ queued[f] # {}
  /\ SendQueued(f, {}, {}, lacking)
  /\ Answered(lacking)
  /\ UNCHANGED <<pays, collected>>

\* handle_response_send_funds
ReceiveResponse(f, u, lacking) ==
  /\ u \in requested[f]
  /\ responses' = responses \cup {u}
  /\ SendQueued(f, {}, {u}, lacking)
  /\ Answered({u} \cup lacking)
  /\ UNCHANGED <<status, num, life, payment, collected>>

\* handle_cancel_send_funds
ReceiveCancel(f, u, lacking) ==
  /\ u \in requested[f] \cup responded[f]
  /\ RemoveTransactions({u})
  /\ SendQueued(f, {u}, {}, lacking)
  /\ Answered({u} \cup lacking)
  /\ UNCHANGED collected

ReceiveCollect(f, u, lacking) ==
  /\ u \in responded[f]
  /\ CollectTransaction(u)
  /\ SendQueued(f, {u}, {}, lacking)
  /\ Answered(lacking)
  /\ collected' = collected \cup {<<payment[u], life[payment[u]]>>}

ReceiveAnswer(f, u) ==
  \E lacking \in SUBSET queued[f] :
    \/ ReceiveResponse(f, u, lacking)
    \/ ReceiveCancel(f, u, lacking)
    \/ ReceiveCollect(f, u, lacking)

-----------------------------------------------------------------------------
(***************************************************************************)
(* Friends are lost.                                                       *)
(***************************************************************************)
\* Slip: the canceled requests stay in the queue.
OfflineKeepsQueue(f) ==
  /\ f \in online /\ Spend("drops")
  /\ online' = online \ {f}
  /\ RemoveTransactions(queued[f])
  /\ Answered(queued[f])
  /\ UNCHANGED <<places, broken, told, collected>>

\* handle_liveness_message: what waits for the friend is canceled.
Offline(f) ==
  /\ f \in online /\ Spend("drops")
  /\ online' = online \ {f}
  /\ RemoveTransactions(queued[f])
  /\ queued' = [queued EXCEPT ![f] = {}]
  /\ Answered(queued[f])
  /\ UNCHANGED <<requested, responded, broken, told, collected>>

Online(f) ==
  /\ f \notin online
  /\ online' = online \cup {f}
  /\ UNCHANGED <<pays, places, broken, told, asked, collected, left>>

\* Everything but liveness is persisted.
Restart ==
  /\ Spend("drops")
  /\ online' = {}
  /\ UNCHANGED <<pays, places, broken, told, asked, collected>>

\* The channel is given up: by control_remove_friend or handle_move_token_error,
\* which cancel what is pending, or by handle_inconsistency_error, which does
\* not.
Break(f) ==
  /\ f \notin broken /\ Spend("breaks")
  /\ broken' = broken \cup {f}
  /\ \E us \in {queued[f], queued[f] \cup requested[f] \cup responded[f]} :
       RemoveTransactions(us) /\ Answered(us)
  /\ queued' = [queued EXCEPT ![f] = {}]
  /\ requested' = [requested EXCEPT ![f] = {}]
  /\ responded' = [responded EXCEPT ![f] = {}]
  /\ UNCHANGED <<online, told, collected>>

\* The channel is reset.
Mend(f) ==
  /\ f \in broken
  /\ broken' = broken \ {f}
  /\ UNCHANGED <<pays, places, online, told, asked, collected, left>>

-----------------------------------------------------------------------------
Next ==
  \/ \E p \in PaymentId :
       \/ CreatePayment(p)
       \/ RequestClosePayment(p)
       \/ \E t \in told : AckClosePayment(p, t.ack)
  \/ \E u \in Uid : CreateAgain(u) \/ CreateFails(u)
  \/ \E u \in Uid, p \in PaymentId, f \in Friend : CreateTransaction(u, p, f)
  \/ \E f \in Friend :
       \/ \E lacking \in SUBSET queued[f] : ReceiveToken(f, lacking)
       \/ \E u \in Uid : ReceiveAnswer(f, u)
       \/ Offline(f) \/ Online(f) \/ Break(f) \/ Mend(f)
  \/ Restart

Spec == Init /\ [][Next]_vars

(***************************************************************************)
(* Friends come online, the token comes, and every pending transaction is  *)
(* answered (FrozenIsReleased of module RequestRelay).                     *)
(***************************************************************************)
Fairness ==
  \A f \in Friend :
    /\ WF_vars(Online(f))
    /\ WF_vars(\E lacking \in SUBSET queued[f] : ReceiveToken(f, lacking))
    /\ \A u \in Uid : WF_vars(ReceiveAnswer(f, u))

FairSpec == Spec /\ Fairness

-----------------------------------------------------------------------------
TypeOK ==
  /\ status \in [PaymentId -> Status]
  /\ num \in [PaymentId -> Nat]
  /\ life \in [PaymentId -> Nat]
  /\ payment \in [Uid -> PaymentId \cup {NoPayment}]
  /\ responses \subseteq Uid
  /\ queued \in [Friend -> SUBSET Uid]
  /\ requested \in [Friend -> SUBSET Uid]
  /\ responded \in [Friend -> SUBSET Uid]
  /\ online \subseteq Friend
  /\ broken \subseteq Friend
  /\ told \subseteq Outcome
  /\ asked \subseteq Uid
  /\ collected \subseteq PaymentId \X Nat
  /\ left \in [commands : Nat, drops : Nat, lacks : Nat, breaks : Nat]

\* num_transactions counts the open transactions of the payment, so that no
\* checked_sub of remove_transaction or of a collect underflows, and a payment
\* that is canceled or gone has none, so that no unwrap() and no unreachable!()
\* of theirs is reached.
CountsMatch ==
  \A p \in PaymentId :
    /\ num[p] = Cardinality(Opened(p))
    /\ status[p] \in {"none", "canceled"} => num[p] = 0

\* An answer finds its open transaction, and a collect finds the response that
\* goes into the receipt; a transaction is in one place only.
AnswersFindTransaction ==
  \A f \in Friend :
    /\ queued[f] \cup requested[f] \cup responded[f]
         \subseteq {u \in Uid : payment[u] # NoPayment}
    /\ responded[f] \subseteq responses
    /\ (queued[f] \cup requested[f]) \cap responses = {}
    /\ queued[f] \cap requested[f] = {}
    /\ \A g \in Friend \ {f} :
         (queued[f] \cup requested[f] \cup responded[f])
           \cap (queued[g] \cup requested[g] \cup responded[g]) = {}

\* What the user is told when it closes a payment is true and stays true: a
\* payment told to be canceled never collects, and one told to be a success
\* has collected.
ClosingIsTruthful ==
  \A t \in told : t.is = "success" <=> <<t.id, t.ack>> \in collected

\* A payment leaves the map only when its outcome was sent to the user.
NothingIsForgotten ==
  [][\A p \in PaymentId :
       status[p] # "none" /\ status'[p] = "none" =>
         \E t \in told : t.id = p /\ t.ack = life[p]]_vars

\* A payment that is being closed, with transactions open, ends, unless one of
\* its requests was dropped for lack of trust or a channel broke.
ClosedPaymentEnds ==
  \A p \in PaymentId :
    status[p] = "inProgress" /\ num[p] > 0 ~>
      \/ status[p] # "inProgress"
      \/ left.lacks < MaxLacks \/ left.breaks < MaxBreaks
=============================================================================
