---------------------------- MODULE MCCreditLine ----------------------------
(***************************************************************************)
(* A small credit line for TLC: every kind of operation, valid and not,    *)
(* with amounts from 0 up to one more than MaxDebt.  A request pays a fee  *)
(* only on top of the largest payment: the ledger sees the sum alone.      *)
(***************************************************************************)
EXTENDS CreditLine, TLC

CONSTANTS Pay, Fees

MCOps ==
  { op \in [kind : {"enable", "disable", "setmax", "request",
                    "response", "cancel", "collect"},
            id : Uid, pay : Pay, fees : Fees, src : Lock, dest : Lock,
            valid : BOOLEAN] :
      LET u == CHOOSE u \in Uid : TRUE
          nothing == op.pay = 0 /\ op.fees = 0
      IN  CASE op.kind \in {"enable", "disable"} ->
                 op.id = u /\ nothing /\ op.src = AnyLock /\ op.dest = AnyLock
                 /\ op.valid
            [] op.kind = "setmax" ->
                 op.id = u /\ op.fees = 0 /\ op.src = AnyLock
                 /\ op.dest = AnyLock /\ op.valid
            [] op.kind = "request"  -> op.dest = AnyLock
                                       /\ (op.fees > 0 => op.pay = MaxDebt)
            [] op.kind = "response" -> nothing /\ op.src = AnyLock
            [] op.kind = "cancel"   -> nothing /\ op.src = AnyLock
                                       /\ op.dest = AnyLock /\ op.valid
            [] op.kind = "collect"  -> nothing /\ op.valid }

MCBalances == -MaxDebt .. MaxDebt

\* Request identifiers are only compared for equality.
Symmetry == Permutations(Uid)
=============================================================================
