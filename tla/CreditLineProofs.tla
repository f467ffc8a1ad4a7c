-------------------------- MODULE CreditLineProofs --------------------------
(***************************************************************************)
(* Proofs about the credit line.  What two sides do is reduced to what one *)
(* ledger does (module MutualCreditProofs): each ledger is the mirror      *)
(* image of the other, and one ledger carries the inductive invariant      *)
(* Sound.                                                                  *)
(***************************************************************************)
EXTENDS CreditLine, MutualCreditProofs

-----------------------------------------------------------------------------
(***************************************************************************)
(* The two ledgers: each is sound and the mirror image of the other.       *)
(***************************************************************************)
Paired(m) ==
  /\ m \in [Side -> Ledger]
  /\ \A p \in Side : Sound(m[p]) /\ m[Peer(p)] = Mirror(m[p])

\* A sound ledger and its mirror image are paired.
LEMMA MakePair ==
  ASSUME NEW p \in Side, NEW n, Sound(n)
  PROVE  Paired([s \in Side |-> IF s = p THEN n ELSE Mirror(n)])
<1> DEFINE m == [s \in Side |-> IF s = p THEN n ELSE Mirror(n)]
<1>1. Sound(Mirror(n)) BY MirrorSound
<1>2. Mirror(Mirror(n)) = n BY MirrorTwice DEF Sound
<1>3. n \in Ledger /\ Mirror(n) \in Ledger BY <1>1 DEF Sound
<1>4. m \in [Side -> Ledger] BY <1>3
<1>5. ASSUME NEW q \in Side PROVE Sound(m[q]) /\ m[Peer(q)] = Mirror(m[q])
  <2>1. Peer(q) \in Side /\ Peer(q) # q /\ (q # p => Peer(q) = p) BY DEF Side, Peer
  <2>2. CASE q = p BY <1>1, <2>1, <2>2
  <2>3. CASE q # p BY <1>1, <1>2, <2>1, <2>3
  <2> QED BY <2>2, <2>3
<1> QED BY <1>4, <1>5 DEF Paired

\* The batches of the line.
Batches == BoundedSeq(Ops, MaxBatch)

\* They are sequences of operations.
LEMMA BatchType == Batches \subseteq Seq(Op)
<1> SUFFICES ASSUME NEW s \in Batches PROVE s \in Seq(Op)
  OBVIOUS
<1>1. PICK n \in 0 .. MaxBatch : s \in [1 .. n -> Ops]
  BY DEF Batches, BoundedSeq, SeqOf
<1>2. n \in Nat
  BY <1>1, MaxBatchAssumption
<1> QED BY <1>1, <1>2, OpsAssumption, SeqDef

\* A transfer queues a batch at one side and mirrors the result at the other.
LEMMA TransferPair ==
  ASSUME Paired(mc), NEW p \in Side, NEW ops \in Batches, Transfer(p, ops)
  PROVE  LET n == QueueAll(ops, mc[p]) IN
         /\ Sound(n) /\ mc' = [s \in Side |-> IF s = p THEN n ELSE Mirror(n)]
         /\ BalanceForReset(n) <= BalanceForReset(mc[p])
         /\ \/ BalanceForReset(Mirror(n)) <= BalanceForReset(Mirror(mc[p]))
            \/ BalanceForReset(Mirror(n)) <= n.localMaxDebt
<1>1. ops \in Seq(Op) BY BatchType
<1>2. Sound(mc[p]) /\ SendableAll(ops, mc[p]) BY DEF Paired, Transfer
<1>3. \A s \in Side : s # p => mc[s] = Mirror(mc[p]) BY DEF Paired, Side, Peer
<1>4. ProcessAllOk(ops, Mirror(mc[p])) BY DEF Paired, Transfer
<1>5. /\ Sound(QueueAll(ops, mc[p]))
      /\ ProcessAll(ops, Mirror(mc[p])) = Mirror(QueueAll(ops, mc[p]))
  BY <1>1, <1>2, <1>4, BatchMirror
<1>6. mc' = [s \in Side |-> IF s = p THEN QueueAll(ops, mc[p]) ELSE Mirror(QueueAll(ops, mc[p]))]
  BY <1>3, <1>5 DEF Transfer
<1>7. /\ BalanceForReset(QueueAll(ops, mc[p])) <= BalanceForReset(mc[p])
      /\ \/ BalanceForReset(Mirror(QueueAll(ops, mc[p]))) <= BalanceForReset(Mirror(mc[p]))
         \/ BalanceForReset(Mirror(QueueAll(ops, mc[p]))) <= QueueAll(ops, mc[p]).localMaxDebt
  BY <1>1, <1>2, <1>4, BatchExposure
<1> QED BY <1>5, <1>6, <1>7

\* A reset starts both sides from the exposure of one of them.
LEMMA ResetPair ==
  ASSUME Paired(mc), NEW p \in Side, Reset(p)
  PROVE  LET b == BalanceForReset(mc[Peer(p)]) IN
         /\ b \in -MaxDebt .. MaxDebt
         /\ Sound(NewLedger(b))
         /\ mc' = [s \in Side |-> IF s = Peer(p) THEN NewLedger(b) ELSE Mirror(NewLedger(b))]
<1> DEFINE b == BalanceForReset(mc[Peer(p)])
<1>1. Peer(p) \in Side /\ \A s \in Side : (s = Peer(p)) <=> (s # p) BY DEF Side, Peer
<1>2. Sound(mc[Peer(p)]) BY <1>1 DEF Paired
<1>3. b \in -MaxDebt .. MaxDebt BY <1>2, SoundExposure
<1>4. mc' = [s \in Side |-> NewLedger(IF s = p THEN -b ELSE b)] BY DEF Reset
<1> HIDE DEF b
<1>5. Sound(NewLedger(b)) /\ NewLedger(-b) = Mirror(NewLedger(b)) BY <1>3, NewLedgerSound
<1>6. mc' = [s \in Side |-> IF s = Peer(p) THEN NewLedger(b) ELSE Mirror(NewLedger(b))]
  BY <1>1, <1>4, <1>5
<1> QED BY <1>3, <1>5, <1>6 DEF b

\* Every step is a transfer or a reset.
LEMMA NextCases ==
  ASSUME Next
  PROVE  \E p \in Side : Reset(p) \/ \E ops \in Batches : Transfer(p, ops)
BY DEF Next, Batches

\* Paired is an inductive invariant of the credit line.
LEMMA PairedInvariant == Spec => []Paired(mc)
<1>1. Init => Paired(mc)
  <2> SUFFICES ASSUME Init PROVE Paired(mc) OBVIOUS
  <2>1. PICK b \in InitialBalances : mc = [p \in Side |-> NewLedger(IF p = "Low" THEN b ELSE -b)]
    BY DEF Init
  <2>2. b \in -MaxDebt .. MaxDebt BY InitialBalancesAssumption
  <2>3. Sound(NewLedger(b)) /\ NewLedger(-b) = Mirror(NewLedger(b)) BY <2>2, NewLedgerSound
  <2>4. mc = [s \in Side |-> IF s = "Low" THEN NewLedger(b) ELSE Mirror(NewLedger(b))]
    BY <2>1, <2>3
  <2>5. "Low" \in Side BY DEF Side
  <2> QED BY <2>3, <2>4, <2>5, MakePair
<1>2. Paired(mc) /\ [Next]_mc => Paired(mc)'
  <2> SUFFICES ASSUME Paired(mc), [Next]_mc PROVE Paired(mc)' OBVIOUS
  <2>1. CASE UNCHANGED mc BY <2>1 DEF Paired
  <2>2. ASSUME NEW p \in Side, NEW ops \in Batches, Transfer(p, ops) PROVE Paired(mc)'
    <3>1. Paired(mc') BY <2>2, TransferPair, MakePair
    <3> QED BY <3>1 DEF Paired
  <2>3. ASSUME NEW p \in Side, Reset(p) PROVE Paired(mc)'
    <3>1. Peer(p) \in Side BY DEF Side, Peer
    <3>2. Paired(mc') BY <2>3, <3>1, ResetPair, MakePair
    <3> QED BY <3>2 DEF Paired
  <2> QED BY <2>1, <2>2, <2>3, NextCases
<1> QED BY <1>1, <1>2, PTL DEF Spec

-----------------------------------------------------------------------------
\* Both ledgers keep their types: no amount leaves u128, no balance i128 and no
\* limit MAX_FUNDER_DEBT, for any number of requests and any MAX_FUNDER_DEBT.
THEOREM TypeCorrect == Spec => []TypeOK
<1>1. Paired(mc) => TypeOK BY DEF Paired, TypeOK
<1> QED BY <1>1, PairedInvariant, PTL

\* The two ledgers mirror each other for ever.
THEOREM LedgersMirror == Spec => []Mirrored
<1>1. Paired(mc) => Mirrored BY DEF Paired, Mirrored, Side, Peer
<1> QED BY <1>1, PairedInvariant, PTL

\* The only operation of an honest side that the other rejects is a request whose
\* identifier is pending: everything else that is sent is accepted.
THEOREM NoRejection == Spec => []QueuedIsAccepted
<1>1. Paired(mc) => QueuedIsAccepted
  <2> SUFFICES ASSUME Paired(mc), NEW p \in Side, NEW op \in Ops, Sendable(op, mc[p])
               PROVE  ProcessOk(op, mc[Peer(p)]) <=> ~Repeats(op, mc[p])
    BY DEF QueuedIsAccepted
  <2>1. op \in Op /\ mc[p] \in Ledger /\ mc[Peer(p)] = Mirror(mc[p])
    BY OpsAssumption DEF Paired
  <2>2. CASE Repeats(op, mc[p]) BY <2>1, <2>2, RepeatRejected
  <2>3. CASE ~Repeats(op, mc[p]) BY <2>1, <2>3, QueueMirror
  <2> QED BY <2>2, <2>3
<1> QED BY <1>1, PairedInvariant, PTL

\* The balance to ask for in a reset is always an i128 and so is its negation.
THEOREM ExposureFits == Spec => []ExposureInRange
<1>1. Paired(mc) => ExposureInRange
  BY SoundExposure DEF Paired, ExposureInRange, Exposure
<1> QED BY <1>1, PairedInvariant, PTL

\* No sequence of operations and resets raises what a side may lose above the
\* limit it has set: a step that raises it leaves it within the limit.
THEOREM TrustIsKept == Spec => TrustRespected
<1> DEFINE Respected(s) == \/ Exposure(mc', s) <= Exposure(mc, s)
                           \/ Exposure(mc', s) <= mc'[s].remoteMaxDebt
<1>1. ASSUME Paired(mc), NEW p \in Side, NEW ops \in Batches, Transfer(p, ops), NEW s \in Side
      PROVE  Respected(s)
  <2> DEFINE m == mc[p]
             n == QueueAll(ops, m)
  <2>1. mc[s] = (IF s = p THEN m ELSE Mirror(m)) BY <1>1 DEF Paired, Side, Peer
  <2>2. /\ mc'[s] = (IF s = p THEN n ELSE Mirror(n))
        /\ BalanceForReset(n) <= BalanceForReset(m)
        /\ \/ BalanceForReset(Mirror(n)) <= BalanceForReset(Mirror(m))
           \/ BalanceForReset(Mirror(n)) <= n.localMaxDebt
    BY <1>1, TransferPair
  <2> HIDE DEF m, n
  <2>3. Mirror(n).remoteMaxDebt = n.localMaxDebt BY DEF Mirror
  <2> QED BY <2>1, <2>2, <2>3 DEF Exposure
<1>2. ASSUME Paired(mc), NEW p \in Side, Reset(p), NEW s \in Side
      PROVE  Respected(s)
  <2> DEFINE m == mc[Peer(p)]
             b == BalanceForReset(m)
  <2>1. Peer(p) \in Side BY DEF Side, Peer
  <2>2. b \in Int BY <1>2, ResetPair
  <2>3. mc'[s] = (IF s = Peer(p) THEN NewLedger(b) ELSE Mirror(NewLedger(b)))
    BY <1>2, ResetPair
  <2>4. Sound(m) BY <1>2, <2>1 DEF Paired
  <2>5. mc[s] = (IF s = Peer(p) THEN m ELSE Mirror(m)) BY <1>2 DEF Paired, Side, Peer
  <2> HIDE DEF m
  <2>6. /\ m.balance \in Int /\ m.localPendingDebt \in Nat /\ m.remotePendingDebt \in Nat
    BY <2>4, MaxDebtAssumption DEF Sound, Ledger, I128, U128
  <2>7. b = m.balance + m.remotePendingDebt BY DEF BalanceForReset
  <2> HIDE DEF b
  <2>8. /\ BalanceForReset(NewLedger(b)) = b
        /\ BalanceForReset(Mirror(NewLedger(b))) = -b
    BY <2>2 DEF BalanceForReset, NewLedger, Mirror
  <2>9. BalanceForReset(Mirror(m)) = -m.balance + m.localPendingDebt
    BY DEF BalanceForReset, Mirror
  <2>10. CASE s = Peer(p) BY <2>2, <2>3, <2>5, <2>8, <2>10 DEF Exposure, b
  <2>11. CASE s # Peer(p)
    BY <2>3, <2>5, <2>6, <2>7, <2>8, <2>9, <2>11 DEF Exposure
  <2> QED BY <2>10, <2>11
<1>3. ASSUME Paired(mc), Paired(mc)', Next, NEW s \in Side, Exposure(mc', s) > Exposure(mc, s)
      PROVE  Exposure(mc', s) <= mc'[s].remoteMaxDebt
  <2>1. Respected(s) BY <1>1, <1>2, <1>3, NextCases
  <2>2. Exposure(mc', s) \in Int /\ Exposure(mc, s) \in Int
    BY <1>3, SoundExposure DEF Paired, Exposure
  <2> QED BY <1>3, <2>1, <2>2
<1>4. Paired(mc) /\ Paired(mc)' /\ [Next]_mc
        => [\A p \in Side : Exposure(mc', p) > Exposure(mc, p)
                              => Exposure(mc', p) <= mc'[p].remoteMaxDebt]_mc
  BY <1>3
<1> QED BY <1>4, PairedInvariant, PTL DEF Spec, TrustRespected

\* A pending debt covers each transaction it is the sum of, so that taking one
\* off the ledger (checked_sub().unwrap() in outgoing.rs and incoming.rs) never
\* panics.
THEOREM PendingDebtCovers ==
  Spec => [](\A p \in Side, u \in Uid :
               /\ Freeze(mc[p].localPending[u]) <= mc[p].localPendingDebt
               /\ Freeze(mc[p].remotePending[u]) <= mc[p].remotePendingDebt)
<1> DEFINE Covers == \A p \in Side, u \in Uid :
                       /\ Freeze(mc[p].localPending[u]) <= mc[p].localPendingDebt
                       /\ Freeze(mc[p].remotePending[u]) <= mc[p].remotePendingDebt
<1>1. Paired(mc) => Covers
  <2> SUFFICES ASSUME Paired(mc), NEW p \in Side, NEW u \in Uid
               PROVE  /\ Freeze(mc[p].localPending[u]) <= mc[p].localPendingDebt
                      /\ Freeze(mc[p].remotePending[u]) <= mc[p].remotePendingDebt
    OBVIOUS
  <2> DEFINE m == mc[p]
  <2>1. Sound(m) /\ m \in Ledger BY DEF Paired, Sound
  <2> HIDE DEF m
  <2>2. m.localPending \in [Uid -> Transaction] /\ m.remotePending \in [Uid -> Transaction]
    BY <2>1 DEF Ledger
  <2>3. Freeze(m.localPending[u]) <= m.localPendingDebt BY <2>1, <2>2, SumCovers DEF Sound
  <2>4. Freeze(m.remotePending[u]) <= m.remotePendingDebt BY <2>1, <2>2, SumCovers DEF Sound
  <2> QED BY <2>3, <2>4 DEF m
<1> QED BY <1>1, PairedInvariant, PTL
-----------------------------------------------------------------------------
(***************************************************************************)
(* The sum of the library, a fold that takes the identifiers in an order   *)
(* of its own, is the sum that Sound speaks of.  The weights satisfy the   *)
(* equation of the fold, so the fold exists; a smallest set on which the   *)
(* two differ shows that they do not.                                      *)
(***************************************************************************)
LEMMA SumIsTotal ==
  ASSUME NEW f \in [Uid -> Nat], NEW w \in [SUBSET Uid -> Nat], w[{}] = 0,
         \A S \in SUBSET Uid : \A u \in Uid \ S : w[S \cup {u}] = w[S] + f[u]
  PROVE  SumFunction(f) = w[Uid]
<1> DEFINE Some(S) == CHOOSE x \in S : TRUE
           Folds(g) == g = [S \in SUBSET Uid |-> IF S = {} THEN 0 ELSE f[Some(S)] + g[S \ {Some(S)}]]
           g == CHOOSE h : Folds(h)
<1>1. SumFunction(f) = g[Uid]
  BY DEF SumFunction, SumFunctionOnSet, FoldFunctionOnSet, MapThenFoldSet
<1>2. \A S \in SUBSET Uid : S # {} => Some(S) \in S /\ Some(S) \in Uid
  OBVIOUS
<1> HIDE DEF Some
<1>3. ASSUME NEW S \in SUBSET Uid, S # {}
      PROVE  w[S] = f[Some(S)] + w[S \ {Some(S)}]
  <2> DEFINE x == Some(S)
             T == S \ {x}
  <2>1. x \in S /\ x \in Uid
    BY <1>2, <1>3
  <2> HIDE DEF x
  <2>2. T \in SUBSET Uid /\ x \in Uid \ T /\ T \cup {x} = S
    BY <2>1
  <2> HIDE DEF T
  <2>3. w[T \cup {x}] = w[T] + f[x] /\ w[T] \in Nat /\ f[x] \in Nat
    BY <2>2
  <2>4. w[S] = f[x] + w[T]
    BY <2>2, <2>3
  <2> QED BY <2>4 DEF x, T
<1>4. Folds(w)
  <2>1. ASSUME NEW S \in SUBSET Uid
        PROVE  w[S] = IF S = {} THEN 0 ELSE f[Some(S)] + w[S \ {Some(S)}]
    BY <1>3
  <2> QED BY <2>1
<1>5. Folds(g)
  <2> HIDE DEF Folds
  <2> QED BY <1>4
<1> HIDE DEF g
<1>6. \A S \in SUBSET Uid : g[S] = IF S = {} THEN 0 ELSE f[Some(S)] + g[S \ {Some(S)}]
  BY <1>5
<1> HIDE DEF Folds
<1> DEFINE Differ == {S \in SUBSET Uid : g[S] # w[S]}
           N == {Cardinality(S) : S \in Differ}
<1>7. \A S \in SUBSET Uid : IsFiniteSet(S) /\ Cardinality(S) \in Nat
  BY UidAssumption, FS_Subset, FS_CardinalityType
<1>8. Differ = {}
  <2> SUFFICES ASSUME Differ # {} PROVE FALSE
    OBVIOUS
  <2>1. N \subseteq Nat /\ N # {}
    BY <1>7
  <2>2. PICK n \in N : \A k \in N : n <= k
    BY <2>1, LeastNatural
  <2>3. PICK S \in Differ : n = Cardinality(S)
    BY <2>2
  <2>4. S \in SUBSET Uid /\ g[S] # w[S] /\ S # {}
    <3>1. g[{}] = 0
      BY <1>6
    <3> QED BY <2>3, <3>1
  <2> DEFINE T == S \ {Some(S)}
  <2>5. T \in SUBSET Uid /\ Cardinality(T) = Cardinality(S) - 1 /\ Cardinality(T) \in Nat
    BY <1>2, <1>7, <2>4, FS_RemoveElement
  <2>6. T \notin Differ
    <3> SUFFICES ASSUME T \in Differ PROVE FALSE
      OBVIOUS
    <3>1. n <= Cardinality(T)
      BY <2>2
    <3> QED BY <1>7, <2>3, <2>4, <2>5, <3>1
  <2>7. g[T] = w[T]
    BY <2>5, <2>6
  <2> QED BY <1>3, <1>6, <2>4, <2>7
<1>9. g[Uid] = w[Uid]
  BY <1>8
<1> QED BY <1>1, <1>9

\* What a sound ledger has frozen is the sum over its transactions.
LEMMA FrozenIsSum ==
  ASSUME NEW pending \in [Uid -> Transaction], NEW total, IsFrozenSum(pending, total)
  PROVE  total = SumFunction([u \in Uid |-> Freeze(pending[u])])
<1> DEFINE f == [u \in Uid |-> Freeze(pending[u])]
<1>1. PICK w : Weighs(w, pending, total)
  BY DEF IsFrozenSum
<1>2. f \in [Uid -> Nat]
  BY FreezeNat
<1>3. /\ w \in [SUBSET Uid -> Nat] /\ w[{}] = 0 /\ w[Uid] = total
      /\ \A S \in SUBSET Uid : \A u \in Uid \ S : w[S \cup {u}] = w[S] + f[u]
  BY <1>1 DEF Weighs
<1> HIDE DEF f
<1>4. SumFunction(f) = w[Uid]
  BY ONLY <1>2, <1>3, SumIsTotal
<1> QED BY <1>3, <1>4 DEF f

\* Frozen credits are exactly those of the pending transactions, however many
\* requests, responses, cancels, collects and resets there were.
THEOREM FrozenIsPending == Spec => []PendingDebtIsSum
<1>1. Paired(mc) => PendingDebtIsSum
  <2> SUFFICES ASSUME Paired(mc), NEW p \in Side
               PROVE  /\ mc[p].localPendingDebt
                           = SumFunction([u \in Uid |-> Freeze(mc[p].localPending[u])])
                      /\ mc[p].remotePendingDebt
                           = SumFunction([u \in Uid |-> Freeze(mc[p].remotePending[u])])
    BY DEF PendingDebtIsSum
  <2> DEFINE m == mc[p]
  <2>1. Sound(m) /\ m \in Ledger BY DEF Paired, Sound
  <2> HIDE DEF m
  <2>2. m.localPending \in [Uid -> Transaction] /\ m.remotePending \in [Uid -> Transaction]
    BY <2>1 DEF Ledger
  <2>3. m.localPendingDebt = SumFunction([u \in Uid |-> Freeze(m.localPending[u])])
    BY <2>1, <2>2, FrozenIsSum DEF Sound
  <2>4. m.remotePendingDebt = SumFunction([u \in Uid |-> Freeze(m.remotePending[u])])
    BY <2>1, <2>2, FrozenIsSum DEF Sound
  <2> QED BY <2>3, <2>4 DEF m
<1> QED BY <1>1, PairedInvariant, PTL
=============================================================================
