------------------------- MODULE MutualCreditProofs -------------------------
(***************************************************************************)
(* Lemmas about one ledger and its mirror image: processing an operation   *)
(* on the mirror image of a ledger is the mirror image of queueing it      *)
(* (QueueMirror), queueing keeps a ledger Sound, and both hold for whole   *)
(* batches (BatchMirror).                                                  *)
(***************************************************************************)
EXTENDS MutualCredit, SequencesExt, SequenceTheorems, FiniteSetTheorems,
        WellFoundedInduction, TLAPS

-----------------------------------------------------------------------------
(***************************************************************************)
(* Induction over natural numbers, stated for a set instead of a           *)
(* predicate, so that the provers can instantiate it.                      *)
(***************************************************************************)
\* A set of natural numbers has a least one.
LEMMA LeastNatural ==
  ASSUME NEW T, T \subseteq Nat, T # {}
  PROVE  \E m \in T : \A k \in T : m <= k
<1> DEFINE R == OpToRel(<, Nat)
<1>1. IsWellFoundedOn(R, Nat)
  BY NatLessThanWellFounded
<1>2. \A i, j \in Nat : i < j => <<i, j>> \in R
  BY DEF OpToRel
<1> HIDE DEF R
<1>3. PICK m \in T : \A k \in T : ~(<<k, m>> \in R)
  BY <1>1, WFMin
<1>4. ASSUME NEW k \in T PROVE m <= k
  <2>1. k \in Nat /\ m \in Nat
    OBVIOUS
  <2>2. ~(k < m)
    BY <1>2, <1>3, <2>1
  <2> QED BY <2>1, <2>2
<1> QED BY <1>4

\* Induction up to n.
LEMMA Induction ==
  ASSUME NEW n \in Nat, NEW T, 0 \in T, \A k \in 0..(n - 1) : k \in T => k + 1 \in T
  PROVE  \A k \in 0..n : k \in T
<1> DEFINE U == {k \in 0..n : k \notin T}
<1> SUFFICES ASSUME U # {} PROVE FALSE
  OBVIOUS
<1>1. U \subseteq Nat
  OBVIOUS
<1>2. PICK m \in U : \A k \in U : m <= k
  BY <1>1, LeastNatural
<1>3. m # 0 /\ m - 1 \in 0..(n - 1) /\ m - 1 \in T
  BY <1>2
<1> QED BY <1>2, <1>3

-----------------------------------------------------------------------------
(***************************************************************************)
(* total is the sum of the frozen credits of a function of pending         *)
(* transactions: some assignment of a weight to every set of identifiers   *)
(* adds them up one by one.  The provers can work with this form of a sum  *)
(* without induction.                                                      *)
(***************************************************************************)
Weighs(w, pending, total) ==
  /\ w \in [SUBSET Uid -> Nat]
  /\ w[{}] = 0
  /\ \A S \in SUBSET Uid : \A u \in Uid \ S :
       w[S \cup {u}] = w[S] + Freeze(pending[u])
  /\ w[Uid] = total

IsFrozenSum(pending, total) == \E w : Weighs(w, pending, total)

\* What is not pending freezes nothing.
NothingIsFree(pending) ==
  \A u \in Uid : pending[u].stage = "none" => Freeze(pending[u]) = 0

\* The inductive invariant of one ledger.
Sound(m) ==
  /\ m \in Ledger
  /\ NothingIsFree(m.localPending)
  /\ NothingIsFree(m.remotePending)
  /\ IsFrozenSum(m.localPending, m.localPendingDebt)
  /\ IsFrozenSum(m.remotePending, m.remotePendingDebt)
  /\ m.balance + m.remotePendingDebt <= MaxDebt
  /\ m.balance - m.localPendingDebt >= -MaxDebt

-----------------------------------------------------------------------------
\* AnyLock is a lock, so that a ledger without transactions is well typed.
LEMMA AnyLockType == AnyLock \in Lock
BY LockAssumption DEF AnyLock

\* The value that stands for no transaction is a transaction that freezes 0.
LEMMA NoTransactionType ==
  NoTransaction \in Transaction /\ Freeze(NoTransaction) = 0
BY AnyLockType, MaxDebtAssumption DEF NoTransaction, Transaction, Freeze, Stage, U128

\* Frozen credits of a transaction are natural numbers.
LEMMA FreezeNat == \A tx \in Transaction : Freeze(tx) \in Nat
BY MaxDebtAssumption DEF Transaction, Freeze, U128

\* A sum covers each of its parts: the checked_sub().unwrap() of a cancel or
\* of a collect has enough to subtract from.
LEMMA SumCovers ==
  ASSUME NEW f \in [Uid -> Transaction], NEW t, IsFrozenSum(f, t), NEW u \in Uid
  PROVE  t \in Nat /\ Freeze(f[u]) <= t
<1>1. PICK w : Weighs(w, f, t) BY DEF IsFrozenSum
<1>2. Uid \ {u} \in SUBSET Uid /\ u \notin Uid \ {u} /\ (Uid \ {u}) \cup {u} = Uid
  OBVIOUS
<1>3. w[Uid] = w[Uid \ {u}] + Freeze(f[u]) BY <1>1, <1>2 DEF Weighs
<1>4. w[Uid \ {u}] \in Nat /\ w[Uid] \in Nat /\ w[Uid] = t BY <1>1 DEF Weighs
<1>5. Freeze(f[u]) \in Nat BY FreezeNat
<1> QED BY <1>3, <1>4, <1>5

\* Replacing one transaction changes the sum by the difference.
LEMMA SumUpdate ==
  ASSUME NEW f \in [Uid -> Transaction], NEW t, IsFrozenSum(f, t),
         NEW u \in Uid, NEW tx \in Transaction
  PROVE  IsFrozenSum([f EXCEPT ![u] = tx], t - Freeze(f[u]) + Freeze(tx))
<1> DEFINE g == [f EXCEPT ![u] = tx]
<1>1. PICK w : Weighs(w, f, t) BY DEF IsFrozenSum
<1> DEFINE v == [S \in SUBSET Uid |-> IF u \in S THEN w[S] - Freeze(f[u]) + Freeze(tx)
                                                ELSE w[S]]
<1>2. \A x \in Uid : Freeze(f[x]) \in Nat /\ Freeze(g[x]) \in Nat
  BY FreezeNat
<1>3. \A S \in SUBSET Uid : w[S] \in Nat BY <1>1 DEF Weighs
<1>4. ASSUME NEW S \in SUBSET Uid, u \in S PROVE w[S] >= Freeze(f[u])
  <2>1. S \ {u} \in SUBSET Uid /\ u \in Uid \ (S \ {u}) /\ (S \ {u}) \cup {u} = S
    BY <1>4
  <2>2. w[S] = w[S \ {u}] + Freeze(f[u]) BY <1>1, <2>1 DEF Weighs
  <2> QED BY <2>1, <2>2, <1>2, <1>3
<1>5. Freeze(tx) \in Nat BY FreezeNat
<1>6. v \in [SUBSET Uid -> Nat] BY <1>2, <1>3, <1>4, <1>5
<1>7. v[{}] = 0 BY <1>1 DEF Weighs
<1>8. ASSUME NEW S \in SUBSET Uid, NEW x \in Uid \ S
      PROVE  v[S \cup {x}] = v[S] + Freeze(g[x])
  <2>1. w[S \cup {x}] = w[S] + Freeze(f[x]) BY <1>1 DEF Weighs
  <2>2. S \cup {x} \in SUBSET Uid OBVIOUS
  <2>3. CASE x = u
    <3>1. v[S \cup {x}] = w[S \cup {x}] - Freeze(f[u]) + Freeze(tx) BY <2>2, <2>3
    <3>2. v[S] = w[S] /\ g[x] = tx BY <2>3
    <3> QED BY <3>1, <3>2, <2>1, <2>3, <1>2, <1>3, <1>5
  <2>4. CASE x # u /\ u \in S
    <3>1. v[S \cup {x}] = w[S \cup {x}] - Freeze(f[u]) + Freeze(tx) BY <2>2, <2>4
    <3>2. v[S] = w[S] - Freeze(f[u]) + Freeze(tx) /\ g[x] = f[x] BY <2>4
    <3> QED BY <3>1, <3>2, <2>1, <1>2, <1>3, <1>5
  <2>5. CASE x # u /\ u \notin S
    <3>1. v[S \cup {x}] = w[S \cup {x}] /\ v[S] = w[S] /\ g[x] = f[x] BY <2>2, <2>5
    <3> QED BY <3>1, <2>1
  <2> QED BY <2>3, <2>4, <2>5
<1>9. v[Uid] = t - Freeze(f[u]) + Freeze(tx) BY <1>1 DEF Weighs
<1> HIDE DEF v, g
<1>10. Weighs(v, g, t - Freeze(f[u]) + Freeze(tx)) BY <1>6, <1>7, <1>8, <1>9 DEF Weighs
<1> QED BY <1>10 DEF IsFrozenSum, g

-----------------------------------------------------------------------------
(***************************************************************************)
(* One ledger and its mirror image.                                        *)
(***************************************************************************)
\* Mirroring twice gives the ledger back.
LEMMA MirrorTwice == \A m \in Ledger : Mirror(Mirror(m)) = m
BY MaxDebtAssumption DEF Mirror, Ledger, I128

\* The mirror image of a sound ledger is sound.
LEMMA MirrorSound == ASSUME NEW m, Sound(m) PROVE Sound(Mirror(m))
<1>1. m.balance \in -MaxDebt .. MaxDebt
  BY MaxDebtAssumption DEF Sound, Ledger, I128, U128
<1>2. Mirror(m) \in Ledger
  BY <1>1, MaxDebtAssumption DEF Sound, Mirror, Ledger, I128
<1>3. /\ -m.balance + m.localPendingDebt <= MaxDebt
      /\ -m.balance - m.remotePendingDebt >= -MaxDebt
  BY <1>1, MaxDebtAssumption DEF Sound, Ledger, U128
<1> QED BY <1>2, <1>3 DEF Sound, Mirror

\* A fresh ledger is sound, and its mirror image has the opposite balance.
LEMMA NewLedgerSound ==
  ASSUME NEW b \in -MaxDebt .. MaxDebt
  PROVE  Sound(NewLedger(b)) /\ NewLedger(-b) = Mirror(NewLedger(b))
<1> DEFINE f == [u \in Uid |-> NoTransaction]
           w == [S \in SUBSET Uid |-> 0]
<1>1. \A u \in Uid : Freeze(f[u]) = 0 BY NoTransactionType
<1>2. Weighs(w, f, 0) BY <1>1 DEF Weighs
<1>3. IsFrozenSum(f, 0) BY <1>2 DEF IsFrozenSum
<1>4. NewLedger(b) \in Ledger
  BY NoTransactionType, MaxDebtAssumption DEF NewLedger, Ledger, I128, U128, RequestsStatus
<1>5. NothingIsFree(f) BY <1>1 DEF NothingIsFree
<1>6. Sound(NewLedger(b))
  BY <1>3, <1>4, <1>5, MaxDebtAssumption DEF Sound, NewLedger
<1>7. NewLedger(-b) = Mirror(NewLedger(b)) BY MaxDebtAssumption DEF NewLedger, Mirror
<1> QED BY <1>6, <1>7

\* m has the fields of a ledger and no others, whatever their values.
IsLedgerRecord(m) ==
  m \in [balance           : {m.balance},
         localMaxDebt      : {m.localMaxDebt},
         remoteMaxDebt     : {m.remoteMaxDebt},
         localPendingDebt  : {m.localPendingDebt},
         remotePendingDebt : {m.remotePendingDebt},
         localRequests     : {m.localRequests},
         remoteRequests    : {m.remoteRequests},
         localPending      : {m.localPending},
         remotePending     : {m.remotePending}]

\* Mirroring commutes with a change of one field.
LEMMA MirrorField ==
  ASSUME NEW m, IsLedgerRecord(m), NEW v
  PROVE  /\ IsLedgerRecord([m EXCEPT !.localPending = v])
         /\ IsLedgerRecord([m EXCEPT !.remotePending = v])
         /\ IsLedgerRecord([m EXCEPT !.remotePendingDebt = v])
         /\ [Mirror(m) EXCEPT !.remotePending = v] = Mirror([m EXCEPT !.localPending = v])
         /\ [Mirror(m) EXCEPT !.localPending = v] = Mirror([m EXCEPT !.remotePending = v])
         /\ [Mirror(m) EXCEPT !.remotePendingDebt = v] = Mirror([m EXCEPT !.localPendingDebt = v])
         /\ [Mirror(m) EXCEPT !.localPendingDebt = v] = Mirror([m EXCEPT !.remotePendingDebt = v])
         /\ [Mirror(m) EXCEPT !.balance = -v] = Mirror([m EXCEPT !.balance = v])
<1>1. IsLedgerRecord([m EXCEPT !.localPending = v]) BY DEF IsLedgerRecord
<1>2. IsLedgerRecord([m EXCEPT !.remotePending = v]) BY DEF IsLedgerRecord
<1>3. IsLedgerRecord([m EXCEPT !.remotePendingDebt = v]) BY DEF IsLedgerRecord
<1>4. [Mirror(m) EXCEPT !.remotePending = v] = Mirror([m EXCEPT !.localPending = v])
  BY DEF IsLedgerRecord, Mirror
<1>5. [Mirror(m) EXCEPT !.localPending = v] = Mirror([m EXCEPT !.remotePending = v])
  BY DEF IsLedgerRecord, Mirror
<1>6. [Mirror(m) EXCEPT !.remotePendingDebt = v] = Mirror([m EXCEPT !.localPendingDebt = v])
  BY DEF IsLedgerRecord, Mirror
<1>7. [Mirror(m) EXCEPT !.localPendingDebt = v] = Mirror([m EXCEPT !.remotePendingDebt = v])
  BY DEF IsLedgerRecord, Mirror
<1>8. [Mirror(m) EXCEPT !.balance = -v] = Mirror([m EXCEPT !.balance = v])
  BY DEF IsLedgerRecord, Mirror
<1> QED BY <1>1, <1>2, <1>3, <1>4, <1>5, <1>6, <1>7, <1>8

\* The three ways an operation changes what is frozen.  Naming them lets the
\* provers instantiate the lemmas below.
WithLocal(m, f, d) == [m EXCEPT !.localPending = f, !.localPendingDebt = d]
WithRemote(m, f, d) == [m EXCEPT !.remotePending = f, !.remotePendingDebt = d]
WithLocalPaid(m, f, d, b) == [m EXCEPT !.localPending = f, !.localPendingDebt = d, !.balance = b]
WithRemotePaid(m, f, d, b) == [m EXCEPT !.remotePending = f, !.remotePendingDebt = d, !.balance = b]

\* Mirroring commutes with a change of what one side has frozen ...
LEMMA MirrorFreeze ==
  ASSUME NEW m \in Ledger, NEW f, NEW d
  PROVE  /\ WithRemote(Mirror(m), f, d) = Mirror(WithLocal(m, f, d))
         /\ WithLocal(Mirror(m), f, d) = Mirror(WithRemote(m, f, d))
<1> DEFINE n == [m EXCEPT !.localPending = f]
           r == [m EXCEPT !.remotePending = f]
<1>1. IsLedgerRecord(m) BY DEF Ledger, IsLedgerRecord
<1>2. IsLedgerRecord(n) /\ IsLedgerRecord(r) BY <1>1, MirrorField
<1>3. /\ [Mirror(m) EXCEPT !.remotePending = f] = Mirror(n)
      /\ [Mirror(m) EXCEPT !.localPending = f] = Mirror(r)
  BY <1>1, MirrorField
<1>4. /\ WithLocal(m, f, d) = [n EXCEPT !.localPendingDebt = d]
      /\ WithRemote(m, f, d) = [r EXCEPT !.remotePendingDebt = d]
  BY DEF WithLocal, WithRemote
<1> HIDE DEF n, r
<1>5. /\ [Mirror(n) EXCEPT !.remotePendingDebt = d] = Mirror([n EXCEPT !.localPendingDebt = d])
      /\ [Mirror(r) EXCEPT !.localPendingDebt = d] = Mirror([r EXCEPT !.remotePendingDebt = d])
  BY <1>2, MirrorField
<1>6. /\ WithRemote(Mirror(m), f, d) = [Mirror(n) EXCEPT !.remotePendingDebt = d]
      /\ WithLocal(Mirror(m), f, d) = [Mirror(r) EXCEPT !.localPendingDebt = d]
  BY <1>3 DEF WithLocal, WithRemote
<1> QED BY <1>4, <1>5, <1>6

\* ... and with a payment out of what is frozen.
LEMMA MirrorPayment ==
  ASSUME NEW m \in Ledger, NEW f, NEW d, NEW b
  PROVE  WithLocalPaid(Mirror(m), f, d, -b) = Mirror(WithRemotePaid(m, f, d, b))
<1> DEFINE r == [m EXCEPT !.remotePending = f]
           s == WithRemote(m, f, d)
<1>1. IsLedgerRecord(s)
  <2>1. IsLedgerRecord(m) BY DEF Ledger, IsLedgerRecord
  <2>2. IsLedgerRecord(r) BY <2>1, MirrorField
  <2>3. s = [r EXCEPT !.remotePendingDebt = d] BY DEF WithRemote
  <2> HIDE DEF r, s
  <2>4. IsLedgerRecord([r EXCEPT !.remotePendingDebt = d]) BY <2>2, MirrorField
  <2> QED BY <2>3, <2>4
<1>2. WithRemotePaid(m, f, d, b) = [s EXCEPT !.balance = b]
  BY DEF WithRemotePaid, WithRemote
<1>3. WithLocal(Mirror(m), f, d) = Mirror(s) BY MirrorFreeze
<1> HIDE DEF s
<1>4. [Mirror(s) EXCEPT !.balance = -b] = Mirror([s EXCEPT !.balance = b])
  BY <1>1, MirrorField
<1>5. WithLocalPaid(Mirror(m), f, d, -b) = [WithLocal(Mirror(m), f, d) EXCEPT !.balance = -b]
  BY DEF WithLocalPaid, WithLocal
<1> QED BY <1>2, <1>3, <1>4, <1>5

\* The definition of Queue, one kind of operation at a time.
LEMMA QueueCases ==
  ASSUME NEW op, NEW m
  PROVE  /\ op.kind = "enable"   => Queue(op, m) = [m EXCEPT !.localRequests = "open"]
         /\ op.kind = "disable"  => Queue(op, m) = [m EXCEPT !.localRequests = "closed"]
         /\ op.kind = "setmax"   => Queue(op, m) = [m EXCEPT !.remoteMaxDebt = op.pay]
         /\ op.kind = "request"  => Queue(op, m) = QueueRequest(op, m)
         /\ op.kind = "response" => Queue(op, m) = QueueResponse(op, m)
         /\ op.kind = "cancel"   => Queue(op, m) = QueueCancel(op, m)
         /\ op.kind = "collect"  => Queue(op, m) = QueueCollect(op, m)
BY Zenon DEF Queue

\* The definition of Process, one kind of operation at a time.
LEMMA ProcessCases ==
  ASSUME NEW op, NEW m
  PROVE  /\ op.kind = "enable"   => Process(op, m) = [m EXCEPT !.remoteRequests = "open"]
         /\ op.kind = "disable"  => Process(op, m) = [m EXCEPT !.remoteRequests = "closed"]
         /\ op.kind = "setmax"   => Process(op, m) = [m EXCEPT !.localMaxDebt = op.pay]
         /\ op.kind = "request"  => Process(op, m) = ProcessRequest(op, m)
         /\ op.kind = "response" => Process(op, m) = ProcessResponse(op, m)
         /\ op.kind = "cancel"   => Process(op, m) = ProcessCancel(op, m)
         /\ op.kind = "collect"  => Process(op, m) = ProcessCollect(op, m)
BY Zenon DEF Process

\* What the sender queues the receiver accepts, and the two ledgers still
\* mirror each other: mutual_credit/incoming.rs undoes outgoing.rs.
LEMMA QueueMirror ==
  ASSUME NEW m \in Ledger, NEW op \in Op, Sendable(op, m), ~Repeats(op, m)
  PROVE  /\ ProcessOk(op, Mirror(m))
         /\ Process(op, Mirror(m)) = Mirror(Queue(op, m))
<1> USE MaxDebtAssumption
<1>1. CASE op.kind = "enable"
  <2>1. ProcessOk(op, Mirror(m)) BY <1>1 DEF ProcessOk
  <2>2. [Mirror(m) EXCEPT !.remoteRequests = "open"] = Mirror([m EXCEPT !.localRequests = "open"])
    BY DEF Mirror, Ledger
  <2> QED BY <1>1, <2>1, <2>2, QueueCases, ProcessCases
<1>2. CASE op.kind = "disable"
  <2>1. ProcessOk(op, Mirror(m)) BY <1>2 DEF Sendable, ProcessOk, Mirror
  <2>2. [Mirror(m) EXCEPT !.remoteRequests = "closed"] = Mirror([m EXCEPT !.localRequests = "closed"])
    BY DEF Mirror, Ledger
  <2> QED BY <1>2, <2>1, <2>2, QueueCases, ProcessCases
<1>3. CASE op.kind = "setmax"
  <2>1. ProcessOk(op, Mirror(m)) BY <1>3 DEF Sendable, QueueOk, ProcessOk
  <2>2. [Mirror(m) EXCEPT !.localMaxDebt = op.pay]
          = Mirror([m EXCEPT !.remoteMaxDebt = op.pay])
    BY DEF Mirror, Ledger
  <2> QED BY <1>3, <2>1, <2>2, QueueCases, ProcessCases
<1>4. CASE op.kind = "request"
  <2>1. QueueRequestOk(op, m) BY <1>4 DEF Sendable, QueueOk
  <2>2. NewRemotePendingDebt(op, Mirror(m)) = NewLocalPendingDebt(op, m)
    BY DEF NewRemotePendingDebt, NewLocalPendingDebt, Mirror
  <2>3. ProcessRequestOk(op, Mirror(m))
    <3> DEFINE d == NewLocalPendingDebt(op, m)
    <3>1. /\ op.valid /\ m.remoteRequests = "open" /\ m.localPending[op.id].stage = "none"
          /\ op.pay + op.fees \in U128 /\ d \in U128
          /\ m.balance - d \in I128
          /\ m.balance - d + m.localMaxDebt \in I128
          /\ m.balance - d + m.localMaxDebt >= 0
      BY <2>1 DEF QueueRequestOk, QueueRequestFits, QueueRequestInRange, QueueRequestTrusted
    <3>2. m.balance \in Int /\ m.localMaxDebt \in 0 .. MaxDebt /\ d \in Int
      BY <3>1 DEF Ledger, I128, U128
    <3> HIDE DEF d
    <3>3. /\ -m.balance + d \in I128
          /\ -m.balance + d - m.localMaxDebt \in I128
          /\ -m.balance + d - m.localMaxDebt <= 0
      BY <3>1, <3>2 DEF I128
    <3> QED BY <2>2, <3>1, <3>3 DEF d, ProcessRequestOk, Mirror
  <2>4. ProcessRequest(op, Mirror(m)) = Mirror(QueueRequest(op, m))
    <3> DEFINE f == [m.localPending EXCEPT ![op.id] = PendingTransaction(op)]
               d == NewLocalPendingDebt(op, m)
    <3>1. Mirror(m).remotePending = m.localPending BY DEF Mirror
    <3>2. /\ QueueRequest(op, m) = WithLocal(m, f, d)
          /\ ProcessRequest(op, Mirror(m)) = WithRemote(Mirror(m), f, d)
      BY <2>2, <3>1 DEF ProcessRequest, QueueRequest, WithLocal, WithRemote
    <3> HIDE DEF f, d
    <3> QED BY <3>2, MirrorFreeze
  <2> QED BY <1>4, <2>3, <2>4, QueueCases, ProcessCases DEF ProcessOk
<1>5. CASE op.kind = "response"
  <2>1. ProcessOk(op, Mirror(m)) BY <1>5 DEF Sendable, QueueOk, ProcessOk, Mirror
  <2>2. ProcessResponse(op, Mirror(m)) = Mirror(QueueResponse(op, m))
    BY DEF ProcessResponse, QueueResponse, Mirror, Ledger
  <2> QED BY <1>5, <2>1, <2>2, QueueCases, ProcessCases
<1>6. CASE op.kind = "cancel"
  <2>1. ProcessOk(op, Mirror(m)) BY <1>6 DEF Sendable, QueueOk, ProcessOk, Mirror
  <2>2. ProcessCancel(op, Mirror(m)) = Mirror(QueueCancel(op, m))
    <3> DEFINE f == [m.remotePending EXCEPT ![op.id] = NoTransaction]
               d == m.remotePendingDebt - Freeze(m.remotePending[op.id])
    <3>1. /\ Mirror(m).localPending = m.remotePending
          /\ Mirror(m).localPendingDebt = m.remotePendingDebt
      BY DEF Mirror
    <3>2. /\ QueueCancel(op, m) = WithRemote(m, f, d)
          /\ ProcessCancel(op, Mirror(m)) = WithLocal(Mirror(m), f, d)
      BY <3>1 DEF ProcessCancel, QueueCancel, WithLocal, WithRemote
    <3> HIDE DEF f, d
    <3> QED BY <3>2, MirrorFreeze
  <2> QED BY <1>6, <2>1, <2>2, QueueCases, ProcessCases
<1>7. CASE op.kind = "collect"
  <2>1. ProcessOk(op, Mirror(m))
    BY <1>7 DEF Sendable, QueueOk, QueueCollectOk, ProcessOk, ProcessCollectOk, Mirror
  <2>2. m.balance \in Int /\ Freeze(m.remotePending[op.id]) \in Nat
    BY FreezeNat DEF Ledger, Op, I128
  <2>3. -m.balance - Freeze(m.remotePending[op.id])
          = -(m.balance + Freeze(m.remotePending[op.id]))
    BY <2>2
  <2>4. ProcessCollect(op, Mirror(m)) = Mirror(QueueCollect(op, m))
    <3> DEFINE f == [m.remotePending EXCEPT ![op.id] = NoTransaction]
               d == m.remotePendingDebt - Freeze(m.remotePending[op.id])
               b == m.balance + Freeze(m.remotePending[op.id])
    <3>1. /\ Mirror(m).localPending = m.remotePending
          /\ Mirror(m).localPendingDebt = m.remotePendingDebt
          /\ Mirror(m).balance = -m.balance
      BY DEF Mirror
    <3>2. /\ QueueCollect(op, m) = WithRemotePaid(m, f, d, b)
          /\ ProcessCollect(op, Mirror(m)) = WithLocalPaid(Mirror(m), f, d, -b)
      BY <2>3, <3>1 DEF ProcessCollect, QueueCollect, WithLocalPaid, WithRemotePaid
    <3> HIDE DEF f, d, b
    <3> QED BY <3>2, MirrorPayment
  <2> QED BY <1>7, <2>1, <2>4, QueueCases, ProcessCases
<1> QED BY <1>1, <1>2, <1>3, <1>4, <1>5, <1>6, <1>7 DEF Op

\* The receiver rejects a request whose identifier is pending
\* (RequestAlreadyExists in incoming.rs).
LEMMA RepeatRejected ==
  ASSUME NEW m, NEW op, Repeats(op, m)
  PROVE  ~ProcessOk(op, Mirror(m))
<1>1. op.kind = "request" /\ m.localPending[op.id].stage # "none"
  BY DEF Repeats
<1>2. Mirror(m).remotePending = m.localPending
  BY DEF Mirror
<1> QED BY <1>1, <1>2 DEF ProcessOk, ProcessRequestOk

-----------------------------------------------------------------------------
(***************************************************************************)
(* Queueing keeps a ledger sound.                                          *)
(***************************************************************************)
\* Replacing a transaction by one that is well formed keeps NothingIsFree.
LEMMA FreeUpdate ==
  ASSUME NEW f \in [Uid -> Transaction], NothingIsFree(f), NEW u \in Uid,
         NEW tx \in Transaction, tx.stage = "none" => Freeze(tx) = 0
  PROVE  NothingIsFree([f EXCEPT ![u] = tx])
BY DEF NothingIsFree

\* A request is accepted only within the remote side's trust, so that what is
\* frozen stays within the range of the balance.
LEMMA RequestSound ==
  ASSUME NEW m, Sound(m), NEW op \in Op, QueueRequestOk(op, m)
  PROVE  Sound(QueueRequest(op, m))
<1> DEFINE d == NewLocalPendingDebt(op, m)
           tx == PendingTransaction(op)
           f == [m.localPending EXCEPT ![op.id] = tx]
           n == QueueRequest(op, m)
<1>1. m \in Ledger /\ op.id \in Uid /\ op.pay \in Nat /\ op.fees \in Nat
  BY MaxDebtAssumption DEF Sound, Op, U128
<1>2. tx \in Transaction /\ Freeze(tx) = op.pay + op.fees /\ tx.stage = "request"
  BY AnyLockType DEF PendingTransaction, Transaction, Freeze, Stage, Op
<1>3. Freeze(m.localPending[op.id]) = 0
  BY <1>1 DEF Sound, QueueRequestOk, NothingIsFree
<1>4. /\ m.localPending \in [Uid -> Transaction]
      /\ m.localPendingDebt \in Nat
      /\ m.localMaxDebt \in 0 .. MaxDebt
      /\ m.balance \in Int
  BY <1>1, MaxDebtAssumption DEF Ledger, I128, U128
<1>5. d = m.localPendingDebt - Freeze(m.localPending[op.id]) + Freeze(tx)
  BY <1>1, <1>2, <1>3, <1>4 DEF NewLocalPendingDebt
<1>6. f \in [Uid -> Transaction] BY <1>1, <1>2, <1>4
<1>7. d \in U128 /\ m.balance - d + m.localMaxDebt >= 0
  BY DEF QueueRequestOk, QueueRequestFits, QueueRequestInRange, QueueRequestTrusted
<1>8. m.balance - d >= -MaxDebt
  <2>1. d \in Int BY <1>7 DEF U128
  <2> HIDE DEF d
  <2> QED BY <1>4, <1>7, <2>1, MaxDebtAssumption
<1>9. IsFrozenSum(f, d)
  <2>1. IsFrozenSum(f, m.localPendingDebt - Freeze(m.localPending[op.id]) + Freeze(tx))
    <3> HIDE DEF tx
    <3> QED BY <1>1, <1>2, <1>4, SumUpdate DEF Sound
  <2> HIDE DEF d, f, tx
  <2> QED BY <1>5, <2>1
<1>10. NothingIsFree(f)
  <2> HIDE DEF tx
  <2> QED BY <1>1, <1>2, <1>4, FreeUpdate DEF Sound
<1>11. n = WithLocal(m, f, d) BY DEF QueueRequest, WithLocal
<1> HIDE DEF f, d, n
<1>12. /\ n \in Ledger /\ n.localPending = f /\ n.localPendingDebt = d
       /\ n.balance = m.balance
       /\ n.remotePending = m.remotePending /\ n.remotePendingDebt = m.remotePendingDebt
  BY <1>1, <1>6, <1>7, <1>11 DEF WithLocal, Ledger
<1> QED BY <1>8, <1>9, <1>10, <1>12 DEF Sound, n

\* A response adds the hash lock and freezes what the request froze.
LEMMA ResponseSound ==
  ASSUME NEW m, Sound(m), NEW op \in Op, m.remotePending[op.id].stage = "request"
  PROVE  Sound(QueueResponse(op, m))
<1> DEFINE old == m.remotePending[op.id]
           tx == Responded(old, op)
           f == [m.remotePending EXCEPT ![op.id] = tx]
           n == QueueResponse(op, m)
<1>1. /\ m \in Ledger /\ op.id \in Uid /\ op.dest \in Lock
      /\ m.remotePending \in [Uid -> Transaction]
      /\ m.remotePendingDebt \in Nat
  BY MaxDebtAssumption DEF Sound, Ledger, Op, U128
<1>2. old \in Transaction BY <1>1
<1>3. tx \in Transaction /\ tx.stage = "response" /\ Freeze(tx) = Freeze(old)
  <2> HIDE DEF old
  <2> QED BY <1>1, <1>2 DEF Responded, Transaction, Freeze, Stage
<1>4. Freeze(old) \in Nat BY <1>2, FreezeNat
<1>5. f \in [Uid -> Transaction] BY <1>1, <1>3
<1>6. NothingIsFree(f)
  <2> HIDE DEF tx
  <2> QED BY <1>1, <1>3, FreeUpdate DEF Sound
<1>7. IsFrozenSum(f, m.remotePendingDebt)
  <2>1. IsFrozenSum(f, m.remotePendingDebt - Freeze(old) + Freeze(tx))
    <3> HIDE DEF tx
    <3> QED BY <1>1, <1>3, SumUpdate DEF Sound
  <2>2. m.remotePendingDebt - Freeze(old) + Freeze(tx) = m.remotePendingDebt
    BY <1>1, <1>3, <1>4
  <2> HIDE DEF f, tx, old
  <2> QED BY <2>1, <2>2
<1>8. n = [m EXCEPT !.remotePending = f] BY DEF QueueResponse
<1> HIDE DEF f, n
<1>9. /\ n \in Ledger /\ n.remotePending = f
      /\ n.balance = m.balance /\ n.remotePendingDebt = m.remotePendingDebt
      /\ n.localPending = m.localPending /\ n.localPendingDebt = m.localPendingDebt
  BY <1>1, <1>5, <1>8 DEF Ledger
<1> QED BY <1>6, <1>7, <1>9 DEF Sound, n

\* A cancel or a collect takes one transaction of the remote side off the
\* ledger; what it froze goes back or is paid into the balance.
LEMMA RemovalSound ==
  ASSUME NEW m, Sound(m), NEW u \in Uid, NEW paid \in Nat,
         paid <= Freeze(m.remotePending[u])
  PROVE  LET f == [m.remotePending EXCEPT ![u] = NoTransaction]
             d == m.remotePendingDebt - Freeze(m.remotePending[u])
         IN  Sound(WithRemotePaid(m, f, d, m.balance + paid))
<1> DEFINE frozen == Freeze(m.remotePending[u])
           f == [m.remotePending EXCEPT ![u] = NoTransaction]
           d == m.remotePendingDebt - frozen
           b == m.balance + paid
           n == WithRemotePaid(m, f, d, b)
<1>1. /\ m \in Ledger
      /\ m.remotePending \in [Uid -> Transaction]
      /\ m.remotePendingDebt \in U128 /\ m.localPendingDebt \in Nat
      /\ m.balance \in I128
  BY MaxDebtAssumption DEF Sound, Ledger, U128
<1>2. frozen \in Nat BY <1>1, FreezeNat
<1>3. frozen <= m.remotePendingDebt BY <1>1, SumCovers DEF Sound
<1>4. d \in U128 /\ d \in Nat
  <2> HIDE DEF frozen
  <2> QED BY <1>1, <1>2, <1>3, MaxDebtAssumption DEF U128
<1>5. b + d <= MaxDebt /\ b - m.localPendingDebt >= -MaxDebt /\ b \in I128
  <2>1. m.balance + m.remotePendingDebt <= MaxDebt /\ m.balance - m.localPendingDebt >= -MaxDebt
    BY DEF Sound
  <2> HIDE DEF frozen
  <2> QED BY <1>1, <1>2, <1>3, <2>1, MaxDebtAssumption DEF I128, U128, frozen
<1>6. f \in [Uid -> Transaction] BY <1>1, NoTransactionType
<1>7. NothingIsFree(f) BY <1>1, NoTransactionType, FreeUpdate DEF Sound
<1>8. IsFrozenSum(f, d)
  <2>1. IsFrozenSum(f, d + Freeze(NoTransaction))
    BY <1>1, NoTransactionType, SumUpdate DEF Sound
  <2>2. d + Freeze(NoTransaction) = d BY <1>4, NoTransactionType
  <2> HIDE DEF f, d
  <2> QED BY <2>1, <2>2
<1> HIDE DEF f, d, b
<1>9. /\ n \in Ledger /\ n.remotePending = f /\ n.remotePendingDebt = d /\ n.balance = b
      /\ n.localPending = m.localPending /\ n.localPendingDebt = m.localPendingDebt
  BY <1>1, <1>4, <1>5, <1>6 DEF WithRemotePaid, Ledger
<1> HIDE DEF n
<1>10. Sound(n) BY <1>5, <1>7, <1>8, <1>9 DEF Sound
<1> QED BY <1>10 DEF n, f, d, b

\* Queueing any operation keeps a ledger sound.
LEMMA QueueSound ==
  ASSUME NEW m, Sound(m), NEW op \in Op, Sendable(op, m), ~Repeats(op, m)
  PROVE  Sound(Queue(op, m))
<1>1. m \in Ledger /\ op.id \in Uid BY DEF Sound, Op
<1>2. CASE op.kind = "enable"
  <2> DEFINE n == [m EXCEPT !.localRequests = "open"]
  <2>1. Sound(n) BY <1>1 DEF Sound, Ledger, RequestsStatus
  <2> QED BY <1>2, <2>1, QueueCases
<1>3. CASE op.kind = "disable"
  <2> DEFINE n == [m EXCEPT !.localRequests = "closed"]
  <2>1. Sound(n) BY <1>1 DEF Sound, Ledger, RequestsStatus
  <2> QED BY <1>3, <2>1, QueueCases
<1>4. CASE op.kind = "setmax"
  <2> DEFINE n == [m EXCEPT !.remoteMaxDebt = op.pay]
  <2>1. op.pay \in 0 .. MaxDebt
    BY <1>4, MaxDebtAssumption DEF Sendable, QueueOk, Op, U128
  <2>2. Sound(n) BY <1>1, <2>1 DEF Sound, Ledger
  <2> QED BY <1>4, <2>2, QueueCases
<1>5. CASE op.kind = "request"
  <2>1. QueueRequestOk(op, m) BY <1>5 DEF Sendable, QueueOk
  <2> QED BY <1>5, <2>1, QueueCases, RequestSound
<1>6. CASE op.kind = "response"
  <2>1. m.remotePending[op.id].stage = "request" BY <1>6 DEF Sendable, QueueOk
  <2> QED BY <1>6, <2>1, QueueCases, ResponseSound
<1> DEFINE frozen == Freeze(m.remotePending[op.id])
           f == [m.remotePending EXCEPT ![op.id] = NoTransaction]
           d == m.remotePendingDebt - frozen
<1>7. frozen \in Nat BY <1>1, FreezeNat DEF Ledger
<1>8. CASE op.kind = "cancel"
  <2>1. Sound(WithRemotePaid(m, f, d, m.balance + 0)) BY <1>1, <1>7, RemovalSound
  <2>2. m.balance + 0 = m.balance BY <1>1, MaxDebtAssumption DEF Ledger, I128
  <2>3. WithRemotePaid(m, f, d, m.balance) = QueueCancel(op, m)
    BY <1>1 DEF WithRemotePaid, QueueCancel, Ledger
  <2> QED BY <1>8, <2>1, <2>2, <2>3, QueueCases
<1>9. CASE op.kind = "collect"
  <2>1. Sound(WithRemotePaid(m, f, d, m.balance + frozen)) BY <1>1, <1>7, RemovalSound
  <2>2. WithRemotePaid(m, f, d, m.balance + frozen) = QueueCollect(op, m)
    BY DEF WithRemotePaid, QueueCollect
  <2> QED BY <1>9, <2>1, <2>2, QueueCases
<1> QED BY <1>2, <1>3, <1>4, <1>5, <1>6, <1>8, <1>9 DEF Op

-----------------------------------------------------------------------------
(***************************************************************************)
(* Exposure: what an operation does to what either side may lose.          *)
(***************************************************************************)
\* Queueing never raises the exposure of the side that queues; it raises that
\* of the other side only up to the limit the other side has set.
LEMMA QueueExposure ==
  ASSUME NEW m, Sound(m), NEW op \in Op, Sendable(op, m), ~Repeats(op, m)
  PROVE  /\ BalanceForReset(Queue(op, m)) <= BalanceForReset(m)
         /\ \/ BalanceForReset(Mirror(Queue(op, m))) <= BalanceForReset(Mirror(m))
            \/ BalanceForReset(Mirror(Queue(op, m))) <= Queue(op, m).localMaxDebt
<1> DEFINE n == Queue(op, m)
           frozen == Freeze(m.remotePending[op.id])
           Goal(k) == /\ k.balance + k.remotePendingDebt <= m.balance + m.remotePendingDebt
                      /\ \/ -k.balance + k.localPendingDebt <= -m.balance + m.localPendingDebt
                         \/ -k.balance + k.localPendingDebt <= k.localMaxDebt
<1> SUFFICES Goal(n)
  <2>1. \A k : /\ BalanceForReset(k) = k.balance + k.remotePendingDebt
               /\ BalanceForReset(Mirror(k)) = -k.balance + k.localPendingDebt
    BY DEF BalanceForReset, Mirror
  <2> QED BY <2>1
<1>1. /\ m \in Ledger /\ op.id \in Uid
      /\ m.balance \in Int /\ m.localPendingDebt \in Nat /\ m.remotePendingDebt \in Nat
      /\ m.localMaxDebt \in Nat
  BY MaxDebtAssumption DEF Sound, Ledger, Op, I128, U128
<1>2. frozen \in Nat BY <1>1, FreezeNat DEF Ledger
<1>3. CASE op.kind \in {"enable", "disable", "setmax", "response"}
  <2>1. /\ n.balance = m.balance
        /\ n.remotePendingDebt = m.remotePendingDebt
        /\ n.localPendingDebt = m.localPendingDebt
    <3>1. CASE op.kind = "enable" BY <3>1, <1>1, QueueCases DEF Ledger
    <3>2. CASE op.kind = "disable" BY <3>2, <1>1, QueueCases DEF Ledger
    <3>3. CASE op.kind = "setmax" BY <3>3, <1>1, QueueCases DEF Ledger
    <3>4. CASE op.kind = "response" BY <3>4, <1>1, QueueCases DEF Ledger, QueueResponse
    <3> QED BY <1>3, <3>1, <3>2, <3>3, <3>4
  <2> HIDE DEF n
  <2> QED BY <1>1, <2>1
<1>4. CASE op.kind = "request"
  <2> DEFINE d == NewLocalPendingDebt(op, m)
  <2>1. d \in U128 /\ m.balance - d + m.localMaxDebt >= 0
    BY <1>4 DEF Sendable, QueueOk, QueueRequestOk, QueueRequestFits, QueueRequestInRange,
                QueueRequestTrusted
  <2>2. d \in Int BY <2>1 DEF U128
  <2>3. n = WithLocal(m, [m.localPending EXCEPT ![op.id] = PendingTransaction(op)], d)
    BY <1>4, QueueCases DEF QueueRequest, WithLocal
  <2> HIDE DEF n, d
  <2>4. /\ n.balance = m.balance
        /\ n.remotePendingDebt = m.remotePendingDebt
        /\ n.localPendingDebt = d
        /\ n.localMaxDebt = m.localMaxDebt
    BY <1>1, <2>3 DEF WithLocal, Ledger
  <2> QED BY <1>1, <2>1, <2>2, <2>4
<1>5. CASE op.kind = "cancel"
  <2>1. n = WithRemote(m, [m.remotePending EXCEPT ![op.id] = NoTransaction],
                       m.remotePendingDebt - frozen)
    BY <1>5, QueueCases DEF QueueCancel, WithRemote
  <2> HIDE DEF n, frozen
  <2>2. /\ n.balance = m.balance
        /\ n.remotePendingDebt = m.remotePendingDebt - frozen
        /\ n.localPendingDebt = m.localPendingDebt
    BY <1>1, <2>1 DEF WithRemote, Ledger
  <2> QED BY <1>1, <1>2, <2>2
<1>6. CASE op.kind = "collect"
  <2>1. n = WithRemotePaid(m, [m.remotePending EXCEPT ![op.id] = NoTransaction],
                           m.remotePendingDebt - frozen, m.balance + frozen)
    BY <1>6, QueueCases DEF QueueCollect, WithRemotePaid
  <2> HIDE DEF n, frozen
  <2>2. /\ n.balance = m.balance + frozen
        /\ n.remotePendingDebt = m.remotePendingDebt - frozen
        /\ n.localPendingDebt = m.localPendingDebt
    BY <1>1, <2>1 DEF WithRemotePaid, Ledger
  <2> QED BY <1>1, <1>2, <2>2
<1> HIDE DEF Goal
<1> QED BY <1>3, <1>4, <1>5, <1>6 DEF Op

\* The limit that the other side has set is not changed by queueing.
LEMMA QueueKeepsLimit ==
  ASSUME NEW m \in Ledger, NEW op \in Op
  PROVE  Queue(op, m).localMaxDebt = m.localMaxDebt
<1>1. CASE op.kind \in {"enable", "disable", "setmax"}
  BY <1>1, QueueCases DEF Ledger
<1> DEFINE Limit(n) == n.localMaxDebt = m.localMaxDebt
<1>2. /\ Limit(QueueRequest(op, m)) /\ Limit(QueueResponse(op, m))
      /\ Limit(QueueCancel(op, m)) /\ Limit(QueueCollect(op, m))
  <2>1. ASSUME NEW v, NEW d, NEW b
        PROVE  /\ Limit([m EXCEPT !.remotePending = v])
               /\ Limit(WithLocal(m, v, d)) /\ Limit(WithRemote(m, v, d))
               /\ Limit(WithRemotePaid(m, v, d, b))
    BY DEF Ledger, WithLocal, WithRemote, WithRemotePaid
  <2> HIDE DEF Limit
  <2> QED BY <2>1 DEF QueueRequest, QueueResponse, QueueCancel, QueueCollect,
                      WithLocal, WithRemote, WithRemotePaid
<1> QED BY <1>1, <1>2, QueueCases DEF Op

\* The exposure of a sound ledger fits an i128 with its negation.
LEMMA SoundExposure ==
  ASSUME NEW m, Sound(m)
  PROVE  BalanceForReset(m) \in -MaxDebt .. MaxDebt
<1>1. /\ m.balance \in Int /\ m.localPendingDebt \in Nat /\ m.remotePendingDebt \in Nat
      /\ m.balance + m.remotePendingDebt <= MaxDebt
      /\ m.balance - m.localPendingDebt >= -MaxDebt
  BY MaxDebtAssumption DEF Sound, Ledger, I128, U128
<1> QED BY <1>1, MaxDebtAssumption DEF BalanceForReset

-----------------------------------------------------------------------------
(***************************************************************************)
(* Batches.                                                                *)
(***************************************************************************)
\* The ledgers that a batch goes through, one after the other (collect_outgoing_move_token).
LEMMA QueueTraceSteps ==
  ASSUME NEW ops, Len(ops) \in Nat, NEW m
  PROVE  /\ QueueTrace(ops, m)[0] = m
         /\ \A i \in 1..Len(ops) : QueueTrace(ops, m)[i] = Push(ops[i], QueueTrace(ops, m)[i - 1])
<1> DEFINE Traces(n, t) == t = [i \in 0..n |-> IF i = 0 THEN m ELSE Push(ops[i], t[i - 1])]
           T == {n \in Nat : \E t : Traces(n, t)}
<1>1. 0 \in T
  <2>1. Traces(0, [i \in 0..0 |-> m])
    OBVIOUS
  <2> QED BY <2>1
<1>2. ASSUME NEW k \in 0..(Len(ops) - 1), k \in T PROVE k + 1 \in T
  <2>1. PICK t : Traces(k, t)
    BY <1>2
  <2> DEFINE u == [i \in 0..(k + 1) |-> IF i = k + 1 THEN Push(ops[i], t[k]) ELSE t[i]]
  <2>2. ASSUME NEW i \in 0..(k + 1) PROVE u[i] = IF i = 0 THEN m ELSE Push(ops[i], u[i - 1])
    <3>1. CASE i = k + 1
      BY <3>1, <2>1
    <3>2. CASE i # k + 1
      BY <3>2, <2>1
    <3> QED BY <3>1, <3>2
  <2>3. Traces(k + 1, u)
    BY <2>2
  <2> HIDE DEF u
  <2>4. \E t1 : Traces(k + 1, t1)
    BY <2>3
  <2> HIDE DEF Traces
  <2> QED BY <2>4
<1> HIDE DEF T
<1>3. Len(ops) \in T
  <2>1. \A k \in 0..Len(ops) : k \in T
    BY <1>1, <1>2, Induction
  <2> QED BY <2>1
<1>4. \E t : Traces(Len(ops), t)
  BY <1>3 DEF T
<1>5. QueueTrace(ops, m) = CHOOSE t : Traces(Len(ops), t)
  BY DEF QueueTrace
<1> HIDE DEF Traces
<1>6. Traces(Len(ops), QueueTrace(ops, m))
  BY <1>4, <1>5
<1> QED BY <1>6 DEF Traces

\* The ledgers that a batch goes through, one after the other (process_operations_list).
LEMMA ProcessTraceSteps ==
  ASSUME NEW ops, Len(ops) \in Nat, NEW m
  PROVE  /\ ProcessTrace(ops, m)[0] = m
         /\ \A i \in 1..Len(ops) : ProcessTrace(ops, m)[i] = Process(ops[i], ProcessTrace(ops, m)[i - 1])
<1> DEFINE Traces(n, t) == t = [i \in 0..n |-> IF i = 0 THEN m ELSE Process(ops[i], t[i - 1])]
           T == {n \in Nat : \E t : Traces(n, t)}
<1>1. 0 \in T
  <2>1. Traces(0, [i \in 0..0 |-> m])
    OBVIOUS
  <2> QED BY <2>1
<1>2. ASSUME NEW k \in 0..(Len(ops) - 1), k \in T PROVE k + 1 \in T
  <2>1. PICK t : Traces(k, t)
    BY <1>2
  <2> DEFINE u == [i \in 0..(k + 1) |-> IF i = k + 1 THEN Process(ops[i], t[k]) ELSE t[i]]
  <2>2. ASSUME NEW i \in 0..(k + 1) PROVE u[i] = IF i = 0 THEN m ELSE Process(ops[i], u[i - 1])
    <3>1. CASE i = k + 1
      BY <3>1, <2>1
    <3>2. CASE i # k + 1
      BY <3>2, <2>1
    <3> QED BY <3>1, <3>2
  <2>3. Traces(k + 1, u)
    BY <2>2
  <2> HIDE DEF u
  <2>4. \E t1 : Traces(k + 1, t1)
    BY <2>3
  <2> HIDE DEF Traces
  <2> QED BY <2>4
<1> HIDE DEF T
<1>3. Len(ops) \in T
  <2>1. \A k \in 0..Len(ops) : k \in T
    BY <1>1, <1>2, Induction
  <2> QED BY <2>1
<1>4. \E t : Traces(Len(ops), t)
  BY <1>3 DEF T
<1>5. ProcessTrace(ops, m) = CHOOSE t : Traces(Len(ops), t)
  BY DEF ProcessTrace
<1> HIDE DEF Traces
<1>6. Traces(Len(ops), ProcessTrace(ops, m))
  BY <1>4, <1>5
<1> QED BY <1>6 DEF Traces

\* A batch that a side may send, and in which it repeats no request or which its
\* friend accepts: step by step the friend's ledger is the mirror image, nothing is
\* refused, the sender's exposure does not rise, and the receiver's rises only up to
\* the limit that the receiver has set.
LEMMA BatchSteps ==
  ASSUME NEW m, Sound(m), NEW ops \in Seq(Op), SendableAll(ops, m),
         NoRepeats(ops, m) \/ ProcessAllOk(ops, Mirror(m))
  PROVE  LET q == QueueTrace(ops, m)
             r == ProcessTrace(ops, Mirror(m))
         IN  /\ \A i \in 1..Len(ops) :
                  ProcessOk(ops[i], r[i - 1]) /\ ~Repeats(ops[i], q[i - 1])
             /\ \A i \in 0..Len(ops) :
                  /\ Sound(q[i]) /\ r[i] = Mirror(q[i])
                  /\ q[i].localMaxDebt = m.localMaxDebt
                  /\ BalanceForReset(q[i]) <= BalanceForReset(m)
                  /\ \/ BalanceForReset(Mirror(q[i])) <= BalanceForReset(Mirror(m))
                     \/ BalanceForReset(Mirror(q[i])) <= m.localMaxDebt
<1> DEFINE q == QueueTrace(ops, m)
           r == ProcessTrace(ops, Mirror(m))
           Kept(n) == /\ n.localMaxDebt = m.localMaxDebt
                      /\ BalanceForReset(n) <= BalanceForReset(m)
                      /\ \/ BalanceForReset(Mirror(n)) <= BalanceForReset(Mirror(m))
                         \/ BalanceForReset(Mirror(n)) <= m.localMaxDebt
           T == {i \in 0..Len(ops) : Sound(q[i]) /\ r[i] = Mirror(q[i]) /\ Kept(q[i])}
<1>1. Len(ops) \in Nat /\ \A i \in 1..Len(ops) : ops[i] \in Op
  OBVIOUS
<1>2. /\ q[0] = m /\ \A i \in 1..Len(ops) : q[i] = Push(ops[i], q[i - 1])
      /\ r[0] = Mirror(m) /\ \A i \in 1..Len(ops) : r[i] = Process(ops[i], r[i - 1])
  BY <1>1, QueueTraceSteps, ProcessTraceSteps
<1>3. \A i \in 1..Len(ops) :
        /\ Sendable(ops[i], q[i - 1])
        /\ ~Repeats(ops[i], q[i - 1]) \/ ProcessOk(ops[i], r[i - 1])
  BY DEF SendableAll, NoRepeats, ProcessAllOk
<1>4. \A n : Sound(n) => /\ BalanceForReset(n) \in Int /\ BalanceForReset(Mirror(n)) \in Int
                         /\ n.localMaxDebt \in Int /\ n \in Ledger
  <2> SUFFICES ASSUME NEW n, Sound(n)
               PROVE  /\ BalanceForReset(n) \in Int /\ BalanceForReset(Mirror(n)) \in Int
                      /\ n.localMaxDebt \in Int /\ n \in Ledger
    OBVIOUS
  <2>1. Sound(Mirror(n))
    BY MirrorSound
  <2>2. BalanceForReset(n) \in Int /\ BalanceForReset(Mirror(n)) \in Int
    BY <2>1, SoundExposure
  <2> QED BY <2>2 DEF Sound, Ledger
<1> HIDE DEF q, r
<1>5. ASSUME NEW i \in 1..Len(ops), Sound(q[i - 1]), r[i - 1] = Mirror(q[i - 1]), Kept(q[i - 1])
      PROVE  /\ ProcessOk(ops[i], r[i - 1]) /\ ~Repeats(ops[i], q[i - 1])
             /\ Sound(q[i]) /\ r[i] = Mirror(q[i]) /\ Kept(q[i])
  <2> DEFINE a == q[i - 1]
             b == Queue(ops[i], a)
  <2>1. a \in Ledger /\ ops[i] \in Op /\ Sendable(ops[i], a)
    BY <1>1, <1>3, <1>5 DEF Sound
  <2>2. ~Repeats(ops[i], a)
    BY <1>3, <1>5, RepeatRejected
  <2>3. q[i] = b
    BY <1>2, <2>2 DEF Push
  <2> HIDE DEF a
  <2>4. /\ ProcessOk(ops[i], Mirror(a))
        /\ Process(ops[i], Mirror(a)) = Mirror(b)
    BY <2>1, <2>2, QueueMirror
  <2>5. Sound(a)
    BY <1>5 DEF a
  <2>6. Sound(b)
    BY <2>1, <2>2, <2>5, QueueSound
  <2>7. b.localMaxDebt = a.localMaxDebt
    BY <2>1, QueueKeepsLimit
  <2>8. /\ BalanceForReset(b) <= BalanceForReset(a)
        /\ \/ BalanceForReset(Mirror(b)) <= BalanceForReset(Mirror(a))
           \/ BalanceForReset(Mirror(b)) <= b.localMaxDebt
    BY <2>1, <2>2, <2>5, QueueExposure
  <2>9. Kept(a)
    BY <1>5 DEF a
  <2> HIDE DEF b
  <2>10. Kept(b)
    BY <1>4, <2>5, <2>6, <2>7, <2>8, <2>9
  <2> HIDE DEF Kept
  <2>11. r[i] = Process(ops[i], Mirror(a))
    BY <1>2, <1>5 DEF a
  <2> QED BY <1>5, <2>2, <2>3, <2>4, <2>6, <2>10, <2>11 DEF a
<1>6. Kept(m)
  BY <1>4
<1> HIDE DEF Kept
<1>7. \A k \in 0..Len(ops) : k \in T
  <2>1. 0 \in T
    BY <1>1, <1>2, <1>6
  <2>2. ASSUME NEW k \in 0..(Len(ops) - 1), k \in T PROVE k + 1 \in T
    <3>1. k + 1 \in 1..Len(ops) /\ (k + 1) - 1 = k /\ k + 1 \in 0..Len(ops)
      BY <1>1
    <3>2. Sound(q[k]) /\ r[k] = Mirror(q[k]) /\ Kept(q[k])
      BY <2>2
    <3> QED BY <1>5, <3>1, <3>2
  <2> HIDE DEF T
  <2> QED BY <1>1, <2>1, <2>2, Induction
<1>8. \A i \in 1..Len(ops) : ProcessOk(ops[i], r[i - 1]) /\ ~Repeats(ops[i], q[i - 1])
  <2> SUFFICES ASSUME NEW i \in 1..Len(ops)
               PROVE  ProcessOk(ops[i], r[i - 1]) /\ ~Repeats(ops[i], q[i - 1])
    OBVIOUS
  <2>1. i - 1 \in 0..Len(ops)
    BY <1>1
  <2> QED BY <1>5, <1>7, <2>1
<1> QED BY <1>7, <1>8 DEF Kept, q, r

\* What a side may send as a batch its friend accepts unless it repeats a request, and
\* the ledgers are then again mirror images (process_operations_list).
LEMMA BatchMirror ==
  ASSUME NEW m, Sound(m), NEW ops \in Seq(Op), SendableAll(ops, m),
         NoRepeats(ops, m) \/ ProcessAllOk(ops, Mirror(m))
  PROVE  /\ Sound(QueueAll(ops, m))
         /\ NoRepeats(ops, m)
         /\ ProcessAllOk(ops, Mirror(m))
         /\ ProcessAll(ops, Mirror(m)) = Mirror(QueueAll(ops, m))
<1> DEFINE q == QueueTrace(ops, m)
           r == ProcessTrace(ops, Mirror(m))
<1>1. /\ \A i \in 1..Len(ops) : ProcessOk(ops[i], r[i - 1]) /\ ~Repeats(ops[i], q[i - 1])
      /\ \A i \in 0..Len(ops) : Sound(q[i]) /\ r[i] = Mirror(q[i])
  BY BatchSteps
<1>2. Len(ops) \in 0..Len(ops)
  OBVIOUS
<1> QED BY <1>1, <1>2 DEF QueueAll, ProcessAll, ProcessAllOk, NoRepeats

\* ... and neither side can then lose more than before or than the limit it has set.
LEMMA BatchExposure ==
  ASSUME NEW m, Sound(m), NEW ops \in Seq(Op), SendableAll(ops, m),
         NoRepeats(ops, m) \/ ProcessAllOk(ops, Mirror(m))
  PROVE  /\ BalanceForReset(QueueAll(ops, m)) <= BalanceForReset(m)
         /\ \/ BalanceForReset(Mirror(QueueAll(ops, m))) <= BalanceForReset(Mirror(m))
            \/ BalanceForReset(Mirror(QueueAll(ops, m))) <= QueueAll(ops, m).localMaxDebt
<1> DEFINE q == QueueTrace(ops, m)
<1>1. \A i \in 0..Len(ops) :
        /\ q[i].localMaxDebt = m.localMaxDebt
        /\ BalanceForReset(q[i]) <= BalanceForReset(m)
        /\ \/ BalanceForReset(Mirror(q[i])) <= BalanceForReset(Mirror(m))
           \/ BalanceForReset(Mirror(q[i])) <= m.localMaxDebt
  BY BatchSteps
<1>2. Len(ops) \in 0..Len(ops)
  OBVIOUS
<1> HIDE DEF q
<1>3. QueueAll(ops, m) = q[Len(ops)]
  BY DEF QueueAll, q
<1> QED BY <1>1, <1>2, <1>3

-----------------------------------------------------------------------------
(***************************************************************************)
(* Ledgers that need not be those of friends who agree: after a friend was *)
(* removed the ranges of Ledger are not kept, but amounts are still        *)
(* integers.                                                               *)
(***************************************************************************)
IntTransaction == [stage : Stage, pay : Int, fees : Int, srcLock : Lock, destLock : Lock]

IntLedger == [balance           : Int,
              localMaxDebt      : Int,
              remoteMaxDebt     : Int,
              localPendingDebt  : Int,
              remotePendingDebt : Int,
              localRequests     : RequestsStatus,
              remoteRequests    : RequestsStatus,
              localPending      : [Uid -> IntTransaction],
              remotePending     : [Uid -> IntTransaction]]

\* A new ledger.
LEMMA NewLedgerInt ==
  ASSUME NEW b \in Int
  PROVE  NewLedger(b) \in IntLedger /\ NewLedger(b) = Mirror(NewLedger(-b))
<1>1. NoTransaction \in IntTransaction
  BY AnyLockType DEF NoTransaction, IntTransaction, Stage
<1>2. NewLedger(b) \in IntLedger
  BY <1>1 DEF NewLedger, IntLedger, RequestsStatus
<1>3. NewLedger(b) = Mirror(NewLedger(-b))
  BY DEF NewLedger, Mirror
<1> QED BY <1>2, <1>3

\* One operation.
LEMMA OperationInt ==
  ASSUME NEW m \in IntLedger, NEW op \in Op
  PROVE  Queue(op, m) \in IntLedger /\ Process(op, m) \in IntLedger
<1>1. /\ op.id \in Uid /\ op.pay \in Int /\ op.fees \in Int
      /\ op.src \in Lock /\ op.dest \in Lock
  BY MaxDebtAssumption DEF Op, U128
<1>m. m = [m EXCEPT !.balance = m.balance] /\ m.balance \in Int
      /\ m.localPendingDebt \in Int /\ m.remotePendingDebt \in Int
      /\ m.localPending \in [Uid -> IntTransaction]
      /\ m.remotePending \in [Uid -> IntTransaction]
  BY DEF IntLedger
<1> DEFINE lt == m.localPending[op.id]
           rt == m.remotePending[op.id]
<1>2. lt \in IntTransaction /\ rt \in IntTransaction
  BY <1>1, <1>m
<1>t. ASSUME NEW t \in IntTransaction
      PROVE  /\ Freeze(t) \in Int /\ Responded(t, op) \in IntTransaction
             /\ [m.localPending EXCEPT ![op.id] = t] \in [Uid -> IntTransaction]
             /\ [m.remotePending EXCEPT ![op.id] = t] \in [Uid -> IntTransaction]
  <2>1. Freeze(t) \in Int
    BY DEF IntTransaction, Freeze
  <2>2. Responded(t, op) \in IntTransaction
    BY <1>1 DEF IntTransaction, Responded, Stage
  <2>3. /\ [m.localPending EXCEPT ![op.id] = t] \in [Uid -> IntTransaction]
        /\ [m.remotePending EXCEPT ![op.id] = t] \in [Uid -> IntTransaction]
    BY <1>1, <1>m
  <2> QED BY <2>1, <2>2, <2>3
<1>3. NoTransaction \in IntTransaction /\ PendingTransaction(op) \in IntTransaction
  BY <1>1, AnyLockType DEF NoTransaction, PendingTransaction, IntTransaction, Stage
<1>4. /\ NewLocalPendingDebt(op, m) \in Int /\ NewRemotePendingDebt(op, m) \in Int
  BY <1>1, <1>m DEF NewLocalPendingDebt, NewRemotePendingDebt
<1>f. Freeze(lt) \in Int /\ Freeze(rt) \in Int
  BY <1>2, <1>t
<1>e. ASSUME NEW P \in [Uid -> IntTransaction], NEW d \in Int, NEW b \in Int
      PROVE  /\ [m EXCEPT !.localPending = P] \in IntLedger
             /\ [m EXCEPT !.remotePending = P] \in IntLedger
             /\ [m EXCEPT !.localPending = P, !.localPendingDebt = d] \in IntLedger
             /\ [m EXCEPT !.remotePending = P, !.remotePendingDebt = d] \in IntLedger
             /\ [m EXCEPT !.localPending = P, !.localPendingDebt = d, !.balance = b]
                  \in IntLedger
             /\ [m EXCEPT !.remotePending = P, !.remotePendingDebt = d, !.balance = b]
                  \in IntLedger
  BY DEF IntLedger
<1>5. QueueRequest(op, m) \in IntLedger /\ ProcessRequest(op, m) \in IntLedger
  BY <1>3, <1>4, <1>t, <1>e, <1>m DEF QueueRequest, ProcessRequest
<1>6. QueueResponse(op, m) \in IntLedger /\ ProcessResponse(op, m) \in IntLedger
  <2>1. Responded(lt, op) \in IntTransaction /\ Responded(rt, op) \in IntTransaction
    BY <1>2, <1>t
  <2> QED BY <2>1, <1>t, <1>e, <1>m DEF QueueResponse, ProcessResponse
<1>d. /\ m.localPendingDebt - Freeze(lt) \in Int /\ m.remotePendingDebt - Freeze(rt) \in Int
      /\ m.balance - Freeze(lt) \in Int /\ m.balance + Freeze(rt) \in Int
  BY <1>f, <1>m
<1>n. /\ [m.localPending EXCEPT ![op.id] = NoTransaction] \in [Uid -> IntTransaction]
      /\ [m.remotePending EXCEPT ![op.id] = NoTransaction] \in [Uid -> IntTransaction]
  BY <1>3, <1>t
<1>7. QueueCancel(op, m) \in IntLedger /\ ProcessCancel(op, m) \in IntLedger
  BY <1>d, <1>n, <1>e, <1>m DEF QueueCancel, ProcessCancel
<1>8. QueueCollect(op, m) \in IntLedger /\ ProcessCollect(op, m) \in IntLedger
  BY <1>d, <1>n, <1>e, <1>m DEF QueueCollect, ProcessCollect
<1>9. /\ [m EXCEPT !.localRequests = "open"] \in IntLedger
      /\ [m EXCEPT !.localRequests = "closed"] \in IntLedger
      /\ [m EXCEPT !.remoteRequests = "open"] \in IntLedger
      /\ [m EXCEPT !.remoteRequests = "closed"] \in IntLedger
      /\ [m EXCEPT !.remoteMaxDebt = op.pay] \in IntLedger
      /\ [m EXCEPT !.localMaxDebt = op.pay] \in IntLedger
  BY <1>1 DEF IntLedger, RequestsStatus
<1>10. op.kind \in {"enable", "disable", "setmax", "request", "response", "cancel", "collect"}
  BY DEF Op
<1> QED BY <1>5, <1>6, <1>7, <1>8, <1>9, <1>10, QueueCases, ProcessCases

\* A batch.
LEMMA BatchInt ==
  ASSUME NEW m \in IntLedger, NEW ops \in Seq(Op)
  PROVE  QueueAll(ops, m) \in IntLedger /\ ProcessAll(ops, m) \in IntLedger
<1> DEFINE q == QueueTrace(ops, m)
           r == ProcessTrace(ops, m)
           T == {i \in 0..Len(ops) : q[i] \in IntLedger /\ r[i] \in IntLedger}
<1>1. Len(ops) \in Nat /\ \A i \in 1..Len(ops) : ops[i] \in Op
  OBVIOUS
<1>2. /\ q[0] = m /\ \A i \in 1..Len(ops) : q[i] = Push(ops[i], q[i - 1])
      /\ r[0] = m /\ \A i \in 1..Len(ops) : r[i] = Process(ops[i], r[i - 1])
  BY <1>1, QueueTraceSteps, ProcessTraceSteps
<1>3. QueueAll(ops, m) = q[Len(ops)] /\ ProcessAll(ops, m) = r[Len(ops)]
  BY DEF QueueAll, ProcessAll
<1> HIDE DEF q, r
<1>4. 0 \in T
  BY <1>1, <1>2
<1>5. ASSUME NEW k \in 0..(Len(ops) - 1), k \in T PROVE k + 1 \in T
  <2>1. k + 1 \in 1..Len(ops) /\ (k + 1) - 1 = k /\ k + 1 \in 0..Len(ops)
    BY <1>1
  <2>2. ops[k + 1] \in Op /\ q[k] \in IntLedger /\ r[k] \in IntLedger
    BY <1>1, <1>5, <2>1
  <2>3. q[k + 1] = Push(ops[k + 1], q[k]) /\ r[k + 1] = Process(ops[k + 1], r[k])
    BY <1>2, <2>1
  <2>4. q[k + 1] = q[k] \/ q[k + 1] = Queue(ops[k + 1], q[k])
    BY <2>3 DEF Push
  <2> QED BY <2>1, <2>2, <2>3, <2>4, OperationInt
<1> HIDE DEF T
<1>6. Len(ops) \in T
  <2>1. \A k \in 0..Len(ops) : k \in T
    BY <1>1, <1>4, <1>5, Induction
  <2> QED BY <1>1, <2>1
<1> QED BY <1>3, <1>6 DEF T
=============================================================================
