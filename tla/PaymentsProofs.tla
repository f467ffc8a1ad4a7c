--------------------------- MODULE PaymentsProofs ---------------------------
(***************************************************************************)
(* Theorems about Payments, for any number of payments, transactions and   *)
(* friends and without bounds on the environment.                          *)
(***************************************************************************)
EXTENDS Payments, FiniteSetTheorems, TLAPS

-----------------------------------------------------------------------------
(***************************************************************************)
(* What ties the outcome of a payment, the results its user was sent and   *)
(* the collects of its lives together.  ClosingIsTruthful alone is not     *)
(* inductive: a result that was sent says nothing of the status.           *)
(***************************************************************************)
OutcomesKnown ==
  /\ \A t \in told :
       /\ t.ack <= life[t.id]
       /\ t.ack = life[t.id] =>
            status[t.id] \in IF t.is = "success"
                               THEN {"success", "afterSuccessAck", "none"}
                               ELSE {"canceled", "none"}
  /\ \A c \in collected : c[2] <= life[c[1]]
  /\ \A p \in PaymentId :
       /\ status[p] \in {"success", "afterSuccessAck"} =>
            <<p, life[p]>> \in collected
       /\ status[p] \in {"newTransactions", "inProgress", "canceled"} =>
            <<p, life[p]>> \notin collected
       /\ status[p] = "afterSuccessAck" =>
            \E t \in told : t.id = p /\ t.ack = life[p]

IInv == TypeOK /\ CountsMatch /\ AnswersFindTransaction /\ OutcomesKnown
        /\ ClosingIsTruthful

\* What a step that collects nothing may do to the status of payments
StatusMoves ==
  \A p \in PaymentId :
    \/ status'[p] = status[p]
    \/ status[p] = "inProgress" /\ status'[p] = "canceled"
    \/ status[p] = "afterSuccessAck" /\ status'[p] = "none"

-----------------------------------------------------------------------------
\* Transactions of a payment are finitely many.
LEMMA OpenedFinite ==
  ASSUME NEW p PROVE IsFiniteSet(Opened(p)) /\ Cardinality(Opened(p)) \in Nat
<1>1. Opened(p) \in SUBSET Uid  BY DEF Opened
<1> QED  BY <1>1, FS_Subset, FS_CardinalityType, PaymentsAssumption

\* remove_transaction keeps the counts and moves the status of payments only
\* as it should: its checked_sub never underflows.
LEMMA RemoveKeepsCounts ==
  ASSUME TypeOK, CountsMatch, NEW us \in SUBSET Uid, RemoveTransactions(us)
  PROVE  /\ status' \in [PaymentId -> Status] /\ num' \in [PaymentId -> Nat]
         /\ payment' \in [Uid -> PaymentId \cup {NoPayment}]
         /\ responses' \in SUBSET Uid
         /\ CountsMatch' /\ StatusMoves
<1> DEFINE gone(p) == Opened(p) \cap us
           rest(p) == num[p] - Cardinality(gone(p))
<1>1. ASSUME NEW p \in PaymentId
      PROVE  /\ Opened(p)' = Opened(p) \ us
             /\ Cardinality(Opened(p) \ us) = rest(p)
             /\ rest(p) \in Nat
             /\ gone(p) # {} => num[p] # 0
  <2>1. Opened(p)' = Opened(p) \ us
    BY PaymentsAssumption DEF Opened, RemoveTransactions, TypeOK
  <2>2. IsFiniteSet(Opened(p)) /\ num[p] = Cardinality(Opened(p))
    BY OpenedFinite DEF CountsMatch
  <2>3. /\ IsFiniteSet(Opened(p) \ us)
        /\ Cardinality(Opened(p) \ us) = rest(p)
    BY <2>2, FS_Difference
  <2>4. rest(p) \in Nat  BY <2>3, FS_CardinalityType
  <2>5. gone(p) # {} => num[p] # 0
    <3>1. Opened(p) # {} => Cardinality(Opened(p)) # 0  BY <2>2, FS_EmptySet
    <3> QED  BY <3>1, <2>2
  <2> QED  BY <2>1, <2>3, <2>4, <2>5
<1>2. /\ num' = [p \in PaymentId |-> rest(p)]
      /\ status' = [p \in PaymentId |-> IF gone(p) = {} THEN status[p]
                                        ELSE StatusAfterRemoval(p, rest(p))]
      /\ payment' = [u \in Uid |-> IF u \in us THEN NoPayment ELSE payment[u]]
      /\ responses' = responses \ us
  BY DEF RemoveTransactions
<1> HIDE DEF gone
<1>3. ASSUME NEW p \in PaymentId
      PROVE  /\ status'[p] \in Status
             /\ \/ status'[p] = status[p]
                \/ status[p] = "inProgress" /\ status'[p] = "canceled"
                \/ status[p] = "afterSuccessAck" /\ status'[p] = "none"
             /\ status'[p] \in {"none", "canceled"} => num'[p] = 0
  <2>1. status[p] \in Status /\ num'[p] = rest(p)
        /\ (status[p] \in {"none", "canceled"} => num[p] = 0)
    BY <1>2 DEF TypeOK, CountsMatch
  <2>2. CASE gone(p) = {}
    <3>1. status'[p] = status[p]  BY <1>2, <2>2
    <3>2. rest(p) = num[p]  BY <2>2, FS_EmptySet DEF TypeOK
    <3> QED  BY <3>1, <3>2, <2>1
  <2>3. CASE gone(p) # {}
    <3>1. status'[p] = StatusAfterRemoval(p, rest(p))  BY <1>2, <2>3
    <3>2. status[p] \notin {"none", "canceled"}  BY <2>3, <2>1, <1>1
    <3>3. rest(p) \in Nat  BY <1>1
    <3> HIDE DEF rest
    <3> QED  BY <3>1, <3>2, <3>3, <2>1 DEF StatusAfterRemoval, Status
  <2> QED  BY <2>2, <2>3
<1>4. status' \in [PaymentId -> Status]  BY <1>2, <1>3
<1>5. num' \in [PaymentId -> Nat]  BY <1>1, <1>2
<1>6. CountsMatch'  BY <1>1, <1>2, <1>3 DEF CountsMatch
<1>7. StatusMoves  BY <1>3 DEF StatusMoves
<1> QED  BY <1>2, <1>4, <1>5, <1>6, <1>7 DEF TypeOK

\* Steps that collect and report nothing leave the outcomes as they are.
LEMMA OutcomesStay ==
  ASSUME TypeOK, OutcomesKnown, ClosingIsTruthful,
         UNCHANGED <<told, collected, life>>, StatusMoves
  PROVE  OutcomesKnown' /\ ClosingIsTruthful'
<1>1. ClosingIsTruthful'  BY DEF ClosingIsTruthful
<1>2. ASSUME NEW t \in told
      PROVE  t.ack = life[t.id] =>
               status'[t.id] \in IF t.is = "success"
                                   THEN {"success", "afterSuccessAck", "none"}
                                   ELSE {"canceled", "none"}
  <2>1. t.id \in PaymentId  BY DEF TypeOK, Outcome
  <2> QED  BY <2>1 DEF OutcomesKnown, StatusMoves
<1>3. ASSUME NEW p \in PaymentId
      PROVE  /\ status'[p] \in {"success", "afterSuccessAck"} =>
                  <<p, life[p]>> \in collected
             /\ status'[p] \in {"newTransactions", "inProgress", "canceled"} =>
                  <<p, life[p]>> \notin collected
             /\ status'[p] = "afterSuccessAck" =>
                  \E t \in told : t.id = p /\ t.ack = life[p]
  BY DEF OutcomesKnown, StatusMoves
<1> QED  BY <1>1, <1>2, <1>3 DEF OutcomesKnown

-----------------------------------------------------------------------------
(***************************************************************************)
(* Each kind of step preserves the invariant.                              *)
(***************************************************************************)
LEMMA SpendTyped ==
  ASSUME TypeOK, NEW what \in {"commands", "drops", "breaks"}, Spend(what)
  PROVE  left' \in [commands : Nat, drops : Nat, lacks : Nat, breaks : Nat]
BY DEF TypeOK, Spend

\* A transaction that is not open is nowhere.
LEMMA ClosedIsNowhere ==
  ASSUME AnswersFindTransaction, NEW u \in Uid, payment[u] = NoPayment,
         NEW f \in Friend
  PROVE  u \notin queued[f] /\ u \notin requested[f] /\ u \notin responded[f]
BY DEF AnswersFindTransaction

\* A payment that is created starts a new life, of which nothing is known yet.
LEMMA CreatePaymentOK ==
  ASSUME IInv, NEW p \in PaymentId, CreatePayment(p)
  PROVE  IInv'
<1> USE DEF IInv
<1>1. TypeOK'
  BY SpendTyped DEF TypeOK, CreatePayment, Status, pays, places
<1>2. CountsMatch'
  BY DEF CountsMatch, CreatePayment, TypeOK, Opened
<1>3. AnswersFindTransaction'
  BY DEF AnswersFindTransaction, CreatePayment, places
<1>4. OutcomesKnown'
  <2>1. ASSUME NEW t \in told
        PROVE  /\ t.ack <= life'[t.id]
               /\ t.ack = life'[t.id] =>
                    status'[t.id] \in IF t.is = "success"
                                   THEN {"success", "afterSuccessAck", "none"}
                                   ELSE {"canceled", "none"}
    <3>1. t.id \in PaymentId /\ t.ack \in Nat  BY DEF TypeOK, Outcome
    <3> QED  BY <3>1 DEF OutcomesKnown, CreatePayment, TypeOK
  <2>2. ASSUME NEW c \in collected PROVE c[2] <= life'[c[1]]
    <3>1. c[1] \in PaymentId /\ c[2] \in Nat  BY DEF TypeOK
    <3> QED  BY <3>1 DEF OutcomesKnown, CreatePayment, TypeOK
  <2>3. <<p, life'[p]>> \notin collected
    BY DEF OutcomesKnown, CreatePayment, TypeOK
  <2> QED  BY <2>1, <2>2, <2>3 DEF OutcomesKnown, CreatePayment, TypeOK
<1>5. ClosingIsTruthful'
  BY DEF ClosingIsTruthful, CreatePayment
<1> QED  BY <1>1, <1>2, <1>3, <1>4, <1>5

\* A transaction that is created is counted by its payment, and waits for a friend or is
\* answered at once.
LEMMA CreateTransactionOK ==
  ASSUME IInv, NEW u \in Uid, NEW p \in PaymentId, NEW f \in Friend,
         CreateTransaction(u, p, f)
  PROVE  IInv'
<1> USE DEF IInv
<1>0. left' \in [commands : Nat, drops : Nat, lacks : Nat, breaks : Nat]
  <2>1. CASE Spend("commands")  BY <2>1, SpendTyped
  <2>2. CASE /\ left.commands > 0 /\ left.lacks > 0
             /\ left' = [left EXCEPT !.commands = @ - 1, !.lacks = @ - 1]
    <3> DEFINE once == [left EXCEPT !.commands = @ - 1]
    <3>1. /\ once \in [commands : Nat, drops : Nat, lacks : Nat, breaks : Nat]
          /\ left.lacks - 1 \in Nat /\ left' = [once EXCEPT !.lacks = left.lacks - 1]
      BY <2>2 DEF TypeOK
    <3> HIDE DEF once
    <3> QED  BY <3>1
  <2> QED  BY <2>1, <2>2 DEF CreateTransaction
<1>1. TypeOK'
  BY <1>0 DEF TypeOK, CreateTransaction, Counted, Answered
<1>2. CountsMatch'
  <2>1. Opened(p)' = Opened(p) \cup {u} /\ u \notin Opened(p)
    BY PaymentsAssumption DEF Opened, CreateTransaction, TypeOK
  <2>2. Cardinality(Opened(p)') = Cardinality(Opened(p)) + 1
    BY <2>1, OpenedFinite, FS_AddElement
  <2>3. \A q \in PaymentId \ {p} : Opened(q)' = Opened(q)
    BY PaymentsAssumption DEF Opened, CreateTransaction, TypeOK
  <2> QED  BY <2>2, <2>3 DEF CountsMatch, CreateTransaction, Counted, TypeOK
<1>3. AnswersFindTransaction'
  <2>1. \A g \in Friend : /\ u \notin queued[g] /\ u \notin requested[g]
                          /\ u \notin responded[g]
    BY ClosedIsNowhere DEF CreateTransaction
  <2>2. \A v \in Uid : payment'[v] = IF v = u THEN p ELSE payment[v]
    BY DEF CreateTransaction, TypeOK
  <2>3. /\ responses' = responses \ {u} /\ responded' = responded
        /\ p # NoPayment
    BY PaymentsAssumption DEF CreateTransaction
  <2>4. \/ /\ queued' = [queued EXCEPT ![f] = @ \cup {u}]
           /\ requested' = requested
        \/ /\ requested' = [requested EXCEPT ![f] = @ \cup {u}]
           /\ queued' = queued
        \/ requested' = requested /\ queued' = queued
    BY DEF CreateTransaction
  <2> QED  BY <2>1, <2>2, <2>3, <2>4 DEF AnswersFindTransaction, TypeOK
<1>4. OutcomesKnown' /\ ClosingIsTruthful'
  BY OutcomesStay DEF CreateTransaction, StatusMoves
<1> QED  BY <1>1, <1>2, <1>3, <1>4

\* A step that changes neither payments nor places, nor what was collected
LEMMA QuietOK ==
  ASSUME IInv, TypeOK', UNCHANGED <<pays, places, told, collected>>
  PROVE  IInv'
<1> USE DEF IInv, pays, places
<1>1. CountsMatch'  BY DEF CountsMatch, Opened
<1>2. AnswersFindTransaction'  BY DEF AnswersFindTransaction
<1>3. OutcomesKnown' /\ ClosingIsTruthful'
  BY OutcomesStay DEF StatusMoves
<1> QED  BY <1>1, <1>2, <1>3

\* A user closes a payment or acknowledges its outcome: only the payment changes.
LEMMA CloseOK ==
  ASSUME IInv, NEW p \in PaymentId,
         RequestClosePayment(p) \/ \E t \in told : AckClosePayment(p, t.ack)
  PROVE  IInv'
<1> USE DEF IInv
<1>1. CASE RequestClosePayment(p)
  <2> USE <1>1
  <2>0. ClosedStatus(p) \in Status /\ status[p] \in Status
    BY DEF ClosedStatus, TypeOK, Status
  <2>1. TypeOK'
    BY SpendTyped, <2>0 DEF TypeOK, RequestClosePayment, Outcome, places
  <2>2. CountsMatch'
    BY <2>0 DEF CountsMatch, RequestClosePayment, ClosedStatus, TypeOK, Opened, Status
  <2>3. AnswersFindTransaction'
    BY DEF AnswersFindTransaction, RequestClosePayment, places
  <2>4. /\ status' = [status EXCEPT ![p] = ClosedStatus(p)]
        /\ UNCHANGED <<life, collected>>
        /\ \/ told' = told
           \/ /\ told' = told \cup {[id |-> p, is |-> ClosedStatus(p), ack |-> life[p]]}
              /\ ClosedStatus(p) \in {"success", "canceled"}
    BY DEF RequestClosePayment
  <2>5. /\ ClosedStatus(p) = status[p]
           \/ status[p] \in {"newTransactions", "inProgress"}
        /\ status[p] \in {"newTransactions", "inProgress"} =>
             ClosedStatus(p) \in {"inProgress", "canceled"}
        /\ status[p] \notin {"newTransactions", "inProgress"} =>
             ClosedStatus(p) = status[p]
        /\ ClosedStatus(p) = "success" => status[p] = "success"
    BY <2>0 DEF ClosedStatus, Status
  <2>6. ASSUME NEW t \in told' PROVE
          /\ t.ack <= life[t.id]
          /\ t.ack = life[t.id] =>
               status'[t.id] \in IF t.is = "success"
                                   THEN {"success", "afterSuccessAck", "none"}
                                   ELSE {"canceled", "none"}
          /\ t.is = "success" <=> <<t.id, t.ack>> \in collected
    <3>1. CASE t \in told
      <4>1. t.id \in PaymentId  BY <3>1 DEF TypeOK, Outcome
      <4>2. status[t.id] \in {"success", "afterSuccessAck", "none", "canceled"}
              => status'[t.id] = status[t.id]
        BY <4>1, <2>4, <2>5 DEF TypeOK
      <4> QED  BY <3>1, <4>1, <4>2 DEF OutcomesKnown, ClosingIsTruthful
    <3>2. CASE t \notin told
      <4>1. t = [id |-> p, is |-> ClosedStatus(p), ack |-> life[p]]
            /\ ClosedStatus(p) \in {"success", "canceled"}
        BY <3>2, <2>4
      <4>2. status'[p] = ClosedStatus(p) /\ life[p] \in Nat  BY <2>4 DEF TypeOK
      <4>3. ClosedStatus(p) = "success" <=> <<p, life[p]>> \in collected
        BY <4>1, <2>0, <2>5 DEF OutcomesKnown, Status
      <4> QED  BY <4>1, <4>2, <4>3
    <3> QED  BY <3>1, <3>2
  <2>7. ClosingIsTruthful'  BY <2>4, <2>6 DEF ClosingIsTruthful
  <2>8. told \subseteq told'  BY <2>4
  <2>9. ASSUME NEW q \in PaymentId PROVE
          /\ status'[q] \in {"success", "afterSuccessAck"} =>
               <<q, life[q]>> \in collected
          /\ status'[q] \in {"newTransactions", "inProgress", "canceled"} =>
               <<q, life[q]>> \notin collected
          /\ status'[q] = "afterSuccessAck" =>
               \E t \in told' : t.id = q /\ t.ack = life[q]
    <3>1. CASE q = p
      <4>1. status'[p] = ClosedStatus(p)  BY <2>4 DEF TypeOK
      <4> QED  BY <3>1, <4>1, <2>5, <2>8 DEF OutcomesKnown
    <3>2. CASE q # p
      <4>1. status'[q] = status[q]  BY <2>4, <3>2 DEF TypeOK
      <4> QED  BY <4>1, <2>8 DEF OutcomesKnown
    <3> QED  BY <3>1, <3>2
  <2>10. OutcomesKnown'  BY <2>4, <2>6, <2>9 DEF OutcomesKnown
  <2> QED  BY <2>1, <2>2, <2>3, <2>7, <2>10
<1>2. ASSUME NEW t \in told, AckClosePayment(p, t.ack) PROVE IInv'
  <2> USE <1>2
  <2>1. TypeOK'
    BY SpendTyped DEF TypeOK, AckClosePayment, Status, places
  <2>2. CountsMatch'
    BY DEF CountsMatch, AckClosePayment, TypeOK, Opened
  <2>3. AnswersFindTransaction'
    BY DEF AnswersFindTransaction, AckClosePayment, places
  <2>4. ClosingIsTruthful'  BY DEF ClosingIsTruthful, AckClosePayment
  <2>5. OutcomesKnown'
    <3>1. \E s \in told : s.id = p /\ s.ack = life[p]
      BY DEF AckClosePayment, AckMatches
    <3>2. \A s \in told : s.id \in PaymentId  BY DEF TypeOK, Outcome
    <3> QED  BY <3>1, <3>2 DEF OutcomesKnown, AckClosePayment, TypeOK
  <2> QED  BY <2>1, <2>2, <2>3, <2>4, <2>5
<1> QED  BY <1>1, <1>2

\* The transactions that move when a token of friend f comes are still found.
LEMMA SendQueuedPlaces ==
  ASSUME TypeOK, AnswersFindTransaction, NEW f \in Friend,
         NEW gone \in SUBSET (requested[f] \cup responded[f]),
         NEW more \in SUBSET requested[f], gone = {} \/ more = {},
         NEW lacking \in SUBSET queued[f],
         SendQueued(f, gone, more, lacking),
         \A u \in Uid : u \notin gone => payment'[u] = payment[u],
         responses' = (responses \ gone) \cup more
  PROVE  AnswersFindTransaction'
<1>1. /\ queued' = [queued EXCEPT ![f] = {}]
      /\ requested' = [requested EXCEPT ![f] =
                         (@ \ (gone \cup more)) \cup (queued[f] \ lacking)]
      /\ responded' = [responded EXCEPT ![f] = (@ \ gone) \cup more]
  BY DEF SendQueued
<1>2. /\ queued'[f] = {}
      /\ requested'[f] = (requested[f] \ (gone \cup more)) \cup (queued[f] \ lacking)
      /\ responded'[f] = (responded[f] \ gone) \cup more
      /\ \A g \in Friend \ {f} : /\ queued'[g] = queued[g]
                                 /\ requested'[g] = requested[g]
                                 /\ responded'[g] = responded[g]
  BY <1>1 DEF TypeOK
<1>3. /\ queued[f] \subseteq Uid /\ requested[f] \subseteq Uid
      /\ responded[f] \subseteq Uid
      /\ \A g \in Friend : queued[g] \subseteq Uid /\ requested[g] \subseteq Uid
                           /\ responded[g] \subseteq Uid
  BY DEF TypeOK
<1> QED  BY <1>2, <1>3 DEF AnswersFindTransaction

\* What the sender does with the queue of a friend keeps the types of the places.
LEMMA SendQueuedTyped ==
  ASSUME TypeOK, NEW f \in Friend, NEW gone \in SUBSET Uid,
         NEW more \in SUBSET Uid, NEW lacking \in SUBSET queued[f],
         SendQueued(f, gone, more, lacking)
  PROVE  /\ queued' \in [Friend -> SUBSET Uid]
         /\ requested' \in [Friend -> SUBSET Uid]
         /\ responded' \in [Friend -> SUBSET Uid]
         /\ left' \in [commands : Nat, drops : Nat, lacks : Nat, breaks : Nat]
         /\ UNCHANGED <<online, broken, told>>
<1>1. queued[f] \subseteq Uid /\ lacking \in SUBSET Uid  BY DEF TypeOK
<1>2. Cardinality(lacking) \in Nat
  BY <1>1, FS_Subset, FS_CardinalityType, PaymentsAssumption
<1>3. left' \in [commands : Nat, drops : Nat, lacks : Nat, breaks : Nat]
  BY <1>2 DEF SendQueued, TypeOK
<1> QED  BY <1>1, <1>3 DEF SendQueued, TypeOK

\* A token of a friend, with an answer or without one.
LEMMA ReceiveOK ==
  ASSUME IInv, NEW f \in Friend, NEW lacking \in SUBSET queued[f], NEW u \in Uid,
         \/ ReceiveToken(f, lacking) \/ ReceiveResponse(f, u, lacking)
         \/ ReceiveCancel(f, u, lacking) \/ ReceiveCollect(f, u, lacking)
  PROVE  IInv'
<1> USE DEF IInv
<1>1. CASE ReceiveToken(f, lacking)
  <2> USE <1>1
  <2>1. SendQueued(f, {}, {}, lacking) /\ UNCHANGED <<pays, collected>>
        /\ Answered(lacking)
    BY DEF ReceiveToken
  <2>2. TypeOK'
    BY <2>1, SendQueuedTyped DEF TypeOK, pays, Answered
  <2>3. AnswersFindTransaction'
    <3>1. responses' = (responses \ {}) \cup {}  BY <2>1 DEF pays
    <3>2. \A v \in Uid : payment'[v] = payment[v]  BY <2>1 DEF pays
    <3> QED  BY <2>1, <3>1, <3>2, SendQueuedPlaces
  <2>4. CountsMatch'  BY <2>1 DEF CountsMatch, Opened, pays
  <2>5. OutcomesKnown' /\ ClosingIsTruthful'
    BY <2>1, SendQueuedTyped, OutcomesStay DEF StatusMoves, pays, SendQueued
  <2> QED  BY <2>2, <2>3, <2>4, <2>5
<1>2. CASE ReceiveResponse(f, u, lacking)
  <2> USE <1>2
  <2>1. /\ u \in requested[f] /\ responses' = (responses \ {}) \cup {u}
        /\ SendQueued(f, {}, {u}, lacking) /\ Answered({u} \cup lacking)
        /\ UNCHANGED <<status, num, life, payment, collected>>
    BY DEF ReceiveResponse
  <2>2. TypeOK'
    BY <2>1, SendQueuedTyped DEF TypeOK, Answered
  <2>3. AnswersFindTransaction'
    <3>1. {u} \in SUBSET requested[f]  BY <2>1
    <3>2. \A v \in Uid : payment'[v] = payment[v]  BY <2>1
    <3> QED  BY <2>1, <3>1, <3>2, SendQueuedPlaces
  <2>4. CountsMatch'  BY <2>1 DEF CountsMatch, Opened
  <2>5. OutcomesKnown' /\ ClosingIsTruthful'
    BY <2>1, OutcomesStay DEF StatusMoves, SendQueued
  <2> QED  BY <2>2, <2>3, <2>4, <2>5
<1>3. CASE ReceiveCancel(f, u, lacking)
  <2> USE <1>3
  <2>1. /\ u \in requested[f] \cup responded[f]
        /\ RemoveTransactions({u})
        /\ SendQueued(f, {u}, {}, lacking) /\ Answered({u} \cup lacking)
        /\ UNCHANGED collected
    BY DEF ReceiveCancel
  <2>2. /\ status' \in [PaymentId -> Status] /\ num' \in [PaymentId -> Nat]
        /\ payment' \in [Uid -> PaymentId \cup {NoPayment}]
        /\ responses' \in SUBSET Uid
        /\ CountsMatch' /\ StatusMoves
    BY <2>1, RemoveKeepsCounts
  <2>3. /\ responses' = (responses \ {u}) \cup {} /\ life' = life
        /\ \A v \in Uid : v \notin {u} => payment'[v] = payment[v]
    BY <2>1 DEF RemoveTransactions
  <2>4. TypeOK'
    BY <2>1, <2>2, <2>3, SendQueuedTyped DEF TypeOK, Answered
  <2>5. AnswersFindTransaction'
    <3>1. {u} \in SUBSET (requested[f] \cup responded[f])  BY <2>1
    <3> QED  BY <2>1, <2>3, <3>1, SendQueuedPlaces
  <2>6. OutcomesKnown' /\ ClosingIsTruthful'
    BY <2>1, <2>2, <2>3, OutcomesStay DEF SendQueued
  <2> QED  BY <2>2, <2>4, <2>5, <2>6
<1>4. CASE ReceiveCollect(f, u, lacking)
  <2> USE <1>4
  <2>0. u \in responded[f]  BY DEF ReceiveCollect
  <2>2. PICK p \in PaymentId : p = payment[u]
    BY <2>0 DEF AnswersFindTransaction, TypeOK
  <2>1. /\ u \in responded[f] /\ CollectTransaction(u)
        /\ SendQueued(f, {u}, {}, lacking) /\ Answered(lacking)
        /\ collected' = collected \cup {<<p, life[p]>>}
    BY <2>2 DEF ReceiveCollect
  <2>3. /\ Opened(p)' = Opened(p) \ {u} /\ u \in Opened(p)
        /\ \A q \in PaymentId \ {p} : Opened(q)' = Opened(q)
    BY <2>1, <2>2, PaymentsAssumption DEF Opened, CollectTransaction, TypeOK
  <2>4. /\ Cardinality(Opened(p)') = Cardinality(Opened(p)) - 1
        /\ Cardinality(Opened(p)) > 0
    <3>1. Cardinality(Opened(p)) # 0  BY <2>3, OpenedFinite, FS_EmptySet
    <3>2. IsFiniteSet(Opened(p)) /\ Cardinality(Opened(p)) \in Nat  BY OpenedFinite
    <3>3. Cardinality(Opened(p) \ {u}) = Cardinality(Opened(p)) - 1
      BY <2>3, <3>2, FS_RemoveElement
    <3> QED  BY <2>3, <3>1, <3>2, <3>3
  <2>5. num[p] = Cardinality(Opened(p)) /\ num[p] \in Nat /\ num[p] > 0
        /\ status[p] \in Status \ {"none", "canceled"}
    BY <2>2, <2>4 DEF CountsMatch, TypeOK
  <2>6. /\ num' = [num EXCEPT ![p] = num[p] - 1]
        /\ status' = [status EXCEPT ![p] =
             CASE status[p] \in {"newTransactions", "inProgress"}  -> "success"
               [] status[p] = "afterSuccessAck" /\ num[p] - 1 = 0  -> "none"
               [] OTHER                                            -> status[p]]
        /\ payment' = [payment EXCEPT ![u] = NoPayment]
        /\ responses' = (responses \ {u}) \cup {} /\ life' = life
    BY <2>1, <2>2 DEF CollectTransaction
  <2>7. /\ \A q \in PaymentId \ {p} : status'[q] = status[q] /\ num'[q] = num[q]
        /\ status'[p] = IF status[p] \in {"newTransactions", "inProgress"}
                          THEN "success"
                        ELSE IF status[p] = "afterSuccessAck" /\ num[p] = 1
                          THEN "none" ELSE status[p]
        /\ num'[p] = num[p] - 1
    BY <2>2, <2>5, <2>6 DEF TypeOK, Status
  <2>8. TypeOK'
    <3>1. status' \in [PaymentId -> Status] /\ num' \in [PaymentId -> Nat]
      BY <2>2, <2>5, <2>6, <2>7 DEF TypeOK, Status
    <3>2. payment' \in [Uid -> PaymentId \cup {NoPayment}] /\ responses' \subseteq Uid
      BY <2>6 DEF TypeOK
    <3>3. collected' \subseteq PaymentId \X Nat  BY <2>1, <2>2 DEF TypeOK
    <3>4. asked' \subseteq Uid /\ life' \in [PaymentId -> Nat]
      BY <2>1, <2>6 DEF TypeOK, Answered
    <3>5. /\ queued' \in [Friend -> SUBSET Uid] /\ requested' \in [Friend -> SUBSET Uid]
          /\ responded' \in [Friend -> SUBSET Uid]
          /\ left' \in [commands : Nat, drops : Nat, lacks : Nat, breaks : Nat]
          /\ UNCHANGED <<online, broken, told>>
      BY <2>1, SendQueuedTyped
    <3> QED  BY <3>1, <3>2, <3>3, <3>4, <3>5 DEF TypeOK
  <2>9. CountsMatch'
    <3>1. ASSUME NEW q \in PaymentId
          PROVE  /\ num'[q] = Cardinality(Opened(q))'
                 /\ status'[q] \in {"none", "canceled"} => num'[q] = 0
      <4>1. CASE q = p  BY <4>1, <2>4, <2>5, <2>7
      <4>2. CASE q # p  BY <4>2, <2>3, <2>7 DEF CountsMatch
      <4> QED  BY <4>1, <4>2
    <3> QED  BY <3>1 DEF CountsMatch
  <2>10. AnswersFindTransaction'
    <3>1. {u} \in SUBSET (requested[f] \cup responded[f])  BY <2>1
    <3>2. \A v \in Uid : v \notin {u} => payment'[v] = payment[v]
      BY <2>6 DEF TypeOK
    <3> QED  BY <2>1, <2>6, <3>1, <3>2, SendQueuedPlaces
  <2>11. told' = told /\ told \subseteq Outcome
    BY <2>1 DEF SendQueued, TypeOK
  <2>12. ASSUME NEW t \in told
         PROVE  /\ t.ack <= life[t.id]
                /\ t.ack = life[t.id] =>
                     status'[t.id] \in IF t.is = "success"
                                   THEN {"success", "afterSuccessAck", "none"}
                                   ELSE {"canceled", "none"}
                /\ t.is = "success" <=> <<t.id, t.ack>> \in collected'
    <3>1. t.id \in PaymentId  BY <2>11 DEF Outcome
    <3>2. CASE t.id = p
      <4>1. t.ack = life[p] =>
              t.is = "success" /\ status[p] \in {"success", "afterSuccessAck"}
        BY <3>2, <2>5 DEF OutcomesKnown
      <4> QED  BY <3>2, <4>1, <2>1, <2>7 DEF OutcomesKnown, ClosingIsTruthful
    <3>3. CASE t.id # p
      BY <3>1, <3>3, <2>1, <2>7 DEF OutcomesKnown, ClosingIsTruthful
    <3> QED  BY <3>2, <3>3
  <2>13. ClosingIsTruthful'  BY <2>11, <2>12 DEF ClosingIsTruthful
  <2>14. \A c \in collected' : c[2] <= life[c[1]]
    BY <2>1, <2>2 DEF OutcomesKnown, TypeOK
  <2>15. ASSUME NEW q \in PaymentId
         PROVE  /\ status'[q] \in {"success", "afterSuccessAck"} =>
                     <<q, life[q]>> \in collected'
                /\ status'[q] \in {"newTransactions", "inProgress", "canceled"} =>
                     <<q, life[q]>> \notin collected'
                /\ status'[q] = "afterSuccessAck" =>
                     \E t \in told : t.id = q /\ t.ack = life[q]
    <3>1. CASE q = p
      <4>1. status'[p] \in {"success", "afterSuccessAck", "none"}
            /\ (status'[p] = "afterSuccessAck" => status[p] = "afterSuccessAck")
        BY <2>5, <2>7 DEF Status
      <4> QED  BY <3>1, <4>1, <2>1 DEF OutcomesKnown
    <3>2. CASE q # p
      BY <3>2, <2>1, <2>7 DEF OutcomesKnown
    <3> QED  BY <3>1, <3>2
  <2>16. OutcomesKnown'
    BY <2>6, <2>11, <2>12, <2>14, <2>15 DEF OutcomesKnown
  <2> QED  BY <2>8, <2>9, <2>10, <2>13, <2>16
<1> QED  BY <1>1, <1>2, <1>3, <1>4

\* A friend goes offline: what waits for it is canceled.
LEMMA OfflineOK ==
  ASSUME IInv, NEW f \in Friend, Offline(f)
  PROVE  IInv'
<1> USE DEF IInv
<1>1. /\ RemoveTransactions(queued[f]) /\ queued[f] \in SUBSET Uid
      /\ queued' = [queued EXCEPT ![f] = {}]
      /\ UNCHANGED <<requested, responded, broken, told, collected>>
      /\ online' = online \ {f} /\ asked' = asked \ queued[f] /\ Spend("drops")
  BY DEF Offline, TypeOK, Answered
<1>2. /\ status' \in [PaymentId -> Status] /\ num' \in [PaymentId -> Nat]
      /\ payment' \in [Uid -> PaymentId \cup {NoPayment}]
      /\ responses' \in SUBSET Uid
      /\ CountsMatch' /\ StatusMoves
  BY <1>1, RemoveKeepsCounts
<1>3. /\ responses' = responses \ queued[f] /\ life' = life
      /\ \A v \in Uid : v \notin queued[f] => payment'[v] = payment[v]
  BY <1>1 DEF RemoveTransactions
<1>4. TypeOK'  BY <1>1, <1>2, <1>3, SpendTyped DEF TypeOK
<1>5. AnswersFindTransaction'
  <2>1. queued'[f] = {} /\ \A g \in Friend \ {f} : queued'[g] = queued[g]
    BY <1>1 DEF TypeOK
  <2> QED  BY <1>1, <1>3, <2>1 DEF AnswersFindTransaction, TypeOK
<1>6. OutcomesKnown' /\ ClosingIsTruthful'
  BY <1>1, <1>2, <1>3, OutcomesStay
<1> QED  BY <1>2, <1>4, <1>5, <1>6

\* A friend is removed or becomes inconsistent: what it had is canceled.
LEMMA BreakOK ==
  ASSUME IInv, NEW f \in Friend, Break(f)
  PROVE  IInv'
<1> USE DEF IInv
<1>1. PICK us \in {queued[f], queued[f] \cup requested[f] \cup responded[f]} :
         RemoveTransactions(us) /\ Answered(us)
  BY DEF Break
<1>2. /\ us \in SUBSET Uid
      /\ us \subseteq queued[f] \cup requested[f] \cup responded[f]
  BY DEF TypeOK
<1>3. /\ queued' = [queued EXCEPT ![f] = {}]
      /\ requested' = [requested EXCEPT ![f] = {}]
      /\ responded' = [responded EXCEPT ![f] = {}]
      /\ UNCHANGED <<online, told, collected>>
      /\ broken' = broken \cup {f} /\ asked' = asked \ us /\ Spend("breaks")
  BY <1>1 DEF Break, Answered
<1>4. /\ status' \in [PaymentId -> Status] /\ num' \in [PaymentId -> Nat]
      /\ payment' \in [Uid -> PaymentId \cup {NoPayment}]
      /\ responses' \in SUBSET Uid
      /\ CountsMatch' /\ StatusMoves
  BY <1>1, <1>2, RemoveKeepsCounts
<1>5. /\ responses' = responses \ us /\ life' = life
      /\ \A v \in Uid : v \notin us => payment'[v] = payment[v]
  BY <1>1 DEF RemoveTransactions
<1>6. TypeOK'  BY <1>3, <1>4, <1>5, SpendTyped DEF TypeOK
<1>7. AnswersFindTransaction'
  <2>1. /\ queued'[f] = {} /\ requested'[f] = {} /\ responded'[f] = {}
        /\ \A g \in Friend \ {f} : /\ queued'[g] = queued[g]
                                   /\ requested'[g] = requested[g]
                                   /\ responded'[g] = responded[g]
    BY <1>3 DEF TypeOK
  <2> QED  BY <1>2, <1>5, <2>1 DEF AnswersFindTransaction, TypeOK
<1>8. OutcomesKnown' /\ ClosingIsTruthful'
  BY <1>3, <1>4, <1>5, OutcomesStay
<1> QED  BY <1>4, <1>6, <1>7, <1>8

\* The invariant holds initially and every step preserves it.
LEMMA InvariantHolds == Spec => []IInv
<1>1. Init => IInv
  <2> SUFFICES ASSUME Init PROVE IInv  OBVIOUS
  <2>1. \A p \in PaymentId : Opened(p) = {}
    BY PaymentsAssumption DEF Init, Opened
  <2>2. TypeOK  BY PaymentsAssumption DEF Init, TypeOK, Status
  <2>3. CountsMatch  BY <2>1, FS_EmptySet DEF Init, CountsMatch
  <2>4. AnswersFindTransaction  BY DEF Init, AnswersFindTransaction
  <2>5. OutcomesKnown /\ ClosingIsTruthful
    BY DEF Init, OutcomesKnown, ClosingIsTruthful
  <2> QED  BY <2>2, <2>3, <2>4, <2>5 DEF IInv
<1>2. IInv /\ [Next]_vars => IInv'
  <2> SUFFICES ASSUME IInv, [Next]_vars PROVE IInv'  OBVIOUS
  <2>1. ASSUME NEW p \in PaymentId, CreatePayment(p) PROVE IInv'
    BY <2>1, CreatePaymentOK
  <2>2. ASSUME NEW p \in PaymentId,
               RequestClosePayment(p) \/ \E t \in told : AckClosePayment(p, t.ack)
        PROVE  IInv'
    BY <2>2, CloseOK
  <2>3. ASSUME NEW u \in Uid, CreateAgain(u) \/ CreateFails(u) PROVE IInv'
    <3>1. TypeOK'
      BY <2>3, SpendTyped
      DEF IInv, TypeOK, CreateAgain, CreateFails, Answered, pays, places
    <3> QED  BY <2>3, <3>1, QuietOK DEF CreateAgain, CreateFails
  <2>4. ASSUME NEW u \in Uid, NEW p \in PaymentId, NEW f \in Friend,
               CreateTransaction(u, p, f)
        PROVE  IInv'
    BY <2>4, CreateTransactionOK
  <2>5. ASSUME NEW f \in Friend, NEW lacking \in SUBSET queued[f],
               ReceiveToken(f, lacking)
        PROVE  IInv'
    <3>1. queued[f] # {} /\ queued[f] \subseteq Uid
      BY <2>5 DEF ReceiveToken, IInv, TypeOK
    <3>2. PICK u \in Uid : TRUE  BY <3>1
    <3> QED  BY <2>5, <3>2, ReceiveOK
  <2>6. ASSUME NEW f \in Friend, NEW u \in Uid, ReceiveAnswer(f, u) PROVE IInv'
    BY <2>6, ReceiveOK DEF ReceiveAnswer
  <2>7. ASSUME NEW f \in Friend, Offline(f) PROVE IInv'  BY <2>7, OfflineOK
  <2>8. ASSUME NEW f \in Friend, Break(f) PROVE IInv'  BY <2>8, BreakOK
  <2>9. ASSUME NEW f \in Friend, Online(f) \/ Mend(f) PROVE IInv'
    <3>1. TypeOK'
      BY <2>9 DEF IInv, TypeOK, Online, Mend, pays, places
    <3> QED  BY <2>9, <3>1, QuietOK DEF Online, Mend
  <2>10. CASE Restart
    <3>1. TypeOK'
      BY <2>10, SpendTyped DEF IInv, TypeOK, Restart, pays, places
    <3> QED  BY <2>10, <3>1, QuietOK DEF Restart
  <2>11. CASE UNCHANGED vars
    <3>1. TypeOK'  BY <2>11 DEF IInv, TypeOK, vars, pays, places
    <3> QED  BY <2>11, <3>1, QuietOK DEF vars
  <2> QED
    BY <2>1, <2>2, <2>3, <2>4, <2>5, <2>6, <2>7, <2>8, <2>9, <2>10, <2>11 DEF Next
<1> QED  BY <1>1, <1>2, PTL DEF Spec

-----------------------------------------------------------------------------
\* The state of payments and open transactions keeps its type; in particular
\* num_transactions stays a natural number.
THEOREM PaymentsTyped == Spec => []TypeOK
<1>1. IInv => TypeOK  BY DEF IInv
<1> QED  BY <1>1, InvariantHolds, PTL

\* num_transactions counts the open transactions of each payment, whatever the
\* order of commands, answers, cancels and losses: the unwrap()s in
\* remove_transaction and handle_collect_send_funds never panic.
THEOREM CountsAreRight == Spec => []CountsMatch
<1>1. IInv => CountsMatch  BY DEF IInv
<1> QED  BY <1>1, InvariantHolds, PTL

\* Every answer finds its open transaction, and every collect its response.
THEOREM AnswersAreFound == Spec => []AnswersFindTransaction
<1>1. IInv => AnswersFindTransaction  BY DEF IInv
<1> QED  BY <1>1, InvariantHolds, PTL

\* What control_request_close_payment reports is true and stays true.
THEOREM ReportsAreTrue == Spec => []ClosingIsTruthful
<1>1. IInv => ClosingIsTruthful  BY DEF IInv
<1> QED  BY <1>1, InvariantHolds, PTL

\* A payment leaves the map when it is acknowledged, with an ack_uid its user
\* was sent, or when it was acknowledged and its last transaction ends.
LEMMA LeavesKnown ==
  ASSUME IInv, [Next]_vars, NEW p \in PaymentId,
         status[p] # "none", status'[p] = "none"
  PROVE  \E t \in told : t.id = p /\ t.ack = life[p]
<1> USE DEF IInv
<1>1. ASSUME status[p] = "afterSuccessAck"
      PROVE  \E t \in told : t.id = p /\ t.ack = life[p]
  BY <1>1 DEF OutcomesKnown
<1>2. ASSUME StatusMoves PROVE \E t \in told : t.id = p /\ t.ack = life[p]
  BY <1>1, <1>2 DEF StatusMoves
<1>3. ASSUME NEW us \in SUBSET Uid, RemoveTransactions(us)
      PROVE  \E t \in told : t.id = p /\ t.ack = life[p]
  BY <1>2, <1>3, RemoveKeepsCounts
<1>4. CASE UNCHANGED status  BY <1>4
<1>5. ASSUME NEW q \in PaymentId, CreatePayment(q) PROVE FALSE
  BY <1>5 DEF CreatePayment, TypeOK
<1>6. ASSUME NEW q \in PaymentId, RequestClosePayment(q) PROVE FALSE
  BY <1>6 DEF RequestClosePayment, ClosedStatus, TypeOK
<1>7. ASSUME NEW q \in PaymentId, NEW s \in told, AckClosePayment(q, s.ack)
      PROVE  \E t \in told : t.id = p /\ t.ack = life[p]
  BY <1>7 DEF AckClosePayment, AckMatches, TypeOK
<1>8. ASSUME NEW f \in Friend, NEW u \in Uid, ReceiveAnswer(f, u)
      PROVE  \E t \in told : t.id = p /\ t.ack = life[p]
  <2>1. PICK lacking \in SUBSET queued[f] :
          \/ ReceiveResponse(f, u, lacking) \/ ReceiveCancel(f, u, lacking)
          \/ ReceiveCollect(f, u, lacking)
    BY <1>8 DEF ReceiveAnswer
  <2>2. CASE ReceiveResponse(f, u, lacking)  BY <2>2 DEF ReceiveResponse
  <2>3. CASE ReceiveCancel(f, u, lacking)
    BY <2>3, <1>3 DEF ReceiveCancel
  <2>4. CASE ReceiveCollect(f, u, lacking)
    <3>1. CollectTransaction(u) /\ status[p] \in Status
      BY <2>4 DEF ReceiveCollect, TypeOK
    <3>2. status[p] = "afterSuccessAck"
      <4>1. PICK q : q = payment[u]  OBVIOUS
      <4>2. status' = [status EXCEPT ![q] =
             CASE status[q] \in {"newTransactions", "inProgress"}  -> "success"
               [] status[q] = "afterSuccessAck" /\ num[q] - 1 = 0  -> "none"
               [] OTHER                                            -> status[q]]
        BY <3>1, <4>1 DEF CollectTransaction
      <4> QED  BY <3>1, <4>2 DEF TypeOK, Status
    <3> QED  BY <3>2, <1>1
  <2> QED  BY <2>1, <2>2, <2>3, <2>4
<1>9. ASSUME NEW f \in Friend, Offline(f) \/ Break(f)
      PROVE  \E t \in told : t.id = p /\ t.ack = life[p]
  <2>1. /\ queued[f] \in SUBSET Uid
        /\ queued[f] \cup requested[f] \cup responded[f] \in SUBSET Uid
    BY DEF TypeOK
  <2> QED  BY <1>9, <2>1, <1>3 DEF Offline, Break
<1>10. CASE \E u \in Uid : CreateAgain(u) \/ CreateFails(u)
  BY <1>10 DEF CreateAgain, CreateFails, pays
<1>11. CASE \E u \in Uid, q \in PaymentId, f \in Friend : CreateTransaction(u, q, f)
  BY <1>11 DEF CreateTransaction
<1>12. CASE \E f \in Friend, lacking \in SUBSET Uid : ReceiveToken(f, lacking)
  BY <1>12 DEF ReceiveToken, pays
<1>13. CASE Restart \/ \E f \in Friend : Online(f) \/ Mend(f)
  BY <1>13 DEF Restart, Online, Mend, pays
<1>14. CASE UNCHANGED vars  BY <1>14 DEF vars, pays
<1>15. \A f \in Friend : SUBSET queued[f] \subseteq SUBSET Uid  BY DEF TypeOK
<1> QED
  BY <1>5, <1>6, <1>7, <1>8, <1>9, <1>10, <1>11, <1>12, <1>13, <1>14, <1>15 DEF Next

\* No outcome is forgotten: a payment leaves the map only after its outcome was
\* sent to the user.
THEOREM OutcomesAreSent == Spec => NothingIsForgotten
<1>1. IInv /\ [Next]_vars =>
        [\A p \in PaymentId :
           status[p] # "none" /\ status'[p] = "none" =>
             \E t \in told : t.id = p /\ t.ack = life[p]]_vars
  BY LeavesKnown
<1> QED  BY <1>1, InvariantHolds, PTL DEF Spec, NothingIsForgotten
=============================================================================
