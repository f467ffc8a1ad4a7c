----------------------------- MODULE CreditLine -----------------------------
(***************************************************************************)
(* What two friends promise each other: one line of credit, of which each  *)
(* keeps a ledger.  A batch of operations that one side queues reaches the *)
(* other as if at once and as a whole; a reset replaces both ledgers by    *)
(* fresh ones.  This is the specification that the token channel (module   *)
(* TokenChannel) implements over a link that loses messages, and the place *)
(* where the credit arithmetic of mutual_credit is checked.                *)
(***************************************************************************)
EXTENDS MutualCredit, SequencesExt

CONSTANTS Ops,              \* the operations the two sides may queue
          MaxBatch,         \* max_operations_in_batch
          InitialBalances   \* the balances the friendship may start with

\* An identifier is 16 bytes (Uid in crypto).
ASSUME UidAssumption == IsFiniteSet(Uid)
ASSUME OpsAssumption == Ops \subseteq Op
ASSUME MaxBatchAssumption == MaxBatch \in Nat \ {0}
ASSUME InitialBalancesAssumption == InitialBalances \subseteq -MaxDebt .. MaxDebt

VARIABLE mc   \* mc[p]: the ledger of side p

Side == {"Low", "High"}
Peer(p) == IF p = "Low" THEN "High" ELSE "Low"

-----------------------------------------------------------------------------
\* Both sides add the other as a friend, with opposite balances.
Init == \E b \in InitialBalances :
          mc = [p \in Side |-> NewLedger(IF p = "Low" THEN b ELSE -b)]

\* p queues the operations of a batch, and its friend processes them.
Transfer(p, ops) ==
  /\ SendableAll(ops, mc[p])
  /\ ProcessAllOk(ops, mc[Peer(p)])
  /\ mc' = [s \in Side |-> IF s = p THEN QueueAll(ops, mc[p])
                                    ELSE ProcessAll(ops, mc[s])]

\* Slip: p takes over the friend's balance without negating it.
ResetSameSign(p) ==
  LET b == BalanceForReset(mc[Peer(p)]) IN
  mc' = [s \in Side |-> NewLedger(IF s = p THEN b ELSE -b)]

\* After an inconsistency p accepts the reset terms of its friend.
Reset(p) ==
  LET b == BalanceForReset(mc[Peer(p)]) IN
  mc' = [s \in Side |-> NewLedger(IF s = p THEN -b ELSE b)]

Next == \E p \in Side : \/ \E ops \in BoundedSeq(Ops, MaxBatch) : Transfer(p, ops)
                        \/ Reset(p)

Spec == Init /\ [][Next]_mc

-----------------------------------------------------------------------------
\* Every ledger is one: amounts fit u128, balances i128, limits MAX_FUNDER_DEBT.
TypeOK == mc \in [Side -> Ledger]

\* The two ledgers mirror each other after every operation, so that the
\* balances a move token states are the ones its receiver computes.
Mirrored == mc["High"] = Mirror(mc["Low"])

\* What a side sends its friend accepts, with the one exception of a request whose
\* identifier is pending: that alone makes process_operations_list fail on an honest
\* operation and the channel inconsistent.
QueuedIsAccepted ==
  \A p \in Side, op \in Ops :
    Sendable(op, mc[p]) => (ProcessOk(op, mc[Peer(p)]) <=> ~Repeats(op, mc[p]))

\* Frozen credits are exactly those of the pending transactions, so the
\* checked_sub().unwrap() of a cancel or a collect never panics.
PendingDebtIsSum ==
  \A p \in Side :
    /\ mc[p].localPendingDebt
         = SumFunction([u \in Uid |-> Freeze(mc[p].localPending[u])])
    /\ mc[p].remotePendingDebt
         = SumFunction([u \in Uid |-> Freeze(mc[p].remotePending[u])])

\* What the friend owes p, counting everything the friend has frozen.
Exposure(m, p) == BalanceForReset(m[p])

\* The exposure of either side always fits an i128 with its negation: neither
\* balance_for_reset().expect() nor checked_neg().unwrap() can panic, nor can
\* the balance updates of a collect.
ExposureInRange == \A p \in Side : Exposure(mc, p) \in -MaxDebt .. MaxDebt

\* p's exposure grows only up to the limit p has set for its friend, whatever
\* the sides queue, freeze, collect, cancel or reset in between.
TrustRespected ==
  [][\A p \in Side : Exposure(mc', p) > Exposure(mc, p)
                       => Exposure(mc', p) <= mc'[p].remoteMaxDebt]_mc
=============================================================================
