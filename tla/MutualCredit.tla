---------------------------- MODULE MutualCredit ----------------------------
(***************************************************************************)
(* The ledger one side of a friendship keeps about the other               *)
(* (components/funder/src/mutual_credit).  A ledger is a value: types.rs   *)
(* gives its fields, outgoing.rs what queueing an operation for the remote *)
(* side does to it, incoming.rs what processing an operation received from *)
(* the remote side does.  Both are functions from ledgers to ledgers here, *)
(* guarded by the checks the code makes before it returns an error.        *)
(*                                                                         *)
(* MaxDebt is MAX_FUNDER_DEBT, the largest i128.  The i128 balances range  *)
(* over -MaxDebt-1 .. MaxDebt and the u128 amounts over 0 .. 2*MaxDebt+1,  *)
(* so that a small MaxDebt reaches every overflow check.                   *)
(***************************************************************************)
EXTENDS Integers, Sequences

CONSTANTS Uid,      \* request identifiers
          Lock,     \* hash locks; a plain lock is named by its hash
          MaxDebt   \* MAX_FUNDER_DEBT

ASSUME MaxDebtAssumption == MaxDebt \in Nat
ASSUME LockAssumption == Lock # {}

U128 == 0 .. (2 * MaxDebt + 1)
I128 == (-MaxDebt - 1) .. MaxDebt

(***************************************************************************)
(* Pending transactions.  A request identifier that is not in the code's   *)
(* hash map has stage "none".                                              *)
(***************************************************************************)
Stage == {"none", "request", "response"}

Transaction == [stage : Stage, pay : U128, fees : U128,
                srcLock : Lock, destLock : Lock]

AnyLock == CHOOSE l \in Lock : TRUE

NoTransaction == [stage |-> "none", pay |-> 0, fees |-> 0,
                  srcLock |-> AnyLock, destLock |-> AnyLock]

Freeze(tx) == tx.pay + tx.fees

RequestsStatus == {"open", "closed"}

Ledger == [balance           : I128,
           localMaxDebt      : 0 .. MaxDebt,
           remoteMaxDebt     : 0 .. MaxDebt,
           localPendingDebt  : U128,
           remotePendingDebt : U128,
           localRequests     : RequestsStatus,
           remoteRequests    : RequestsStatus,
           localPending      : [Uid -> Transaction],
           remotePending     : [Uid -> Transaction]]

\* McBalance::new, McPendingTransactions::new, McRequestsStatus::new
NewLedger(balance) ==
  [balance           |-> balance,
   localMaxDebt      |-> 0,
   remoteMaxDebt     |-> 0,
   localPendingDebt  |-> 0,
   remotePendingDebt |-> 0,
   localRequests     |-> "closed",
   remoteRequests    |-> "closed",
   localPending      |-> [u \in Uid |-> NoTransaction],
   remotePending     |-> [u \in Uid |-> NoTransaction]]

\* Slip: the credits this side has frozen itself are claimed as well.
BalanceForResetGreedy(mc) ==
  mc.balance + mc.remotePendingDebt + mc.localPendingDebt

\* What this side asks for when the channel has to be reset.
BalanceForReset(mc) == mc.balance + mc.remotePendingDebt

(***************************************************************************)
(* Operations (FriendTcOp).  `valid' stands for the checks that depend on  *)
(* the operation's own data only: a request's route is valid, passes       *)
(* through the two sides and its payment is at most the invoice's total; a *)
(* response carries the destination's signature.                           *)
(***************************************************************************)
Op == [kind  : {"enable", "disable", "setmax", "request",
                "response", "cancel", "collect"},
       id    : Uid,
       pay   : U128,      \* dest_payment of a request, the limit of a setmax
       fees  : U128,
       src   : Lock,
       dest  : Lock,
       valid : BOOLEAN]

-----------------------------------------------------------------------------
(***************************************************************************)
(* outgoing.rs: queue an operation for the remote side.                    *)
(***************************************************************************)
NewLocalPendingDebt(op, mc) == mc.localPendingDebt + op.pay + op.fees

\* The arithmetic of queue_request_send_funds stays within u128 and i128.
QueueRequestInRange(op, mc) ==
  /\ op.pay + op.fees \in U128
  /\ NewLocalPendingDebt(op, mc) \in U128
  /\ mc.balance - NewLocalPendingDebt(op, mc) \in I128
  /\ mc.balance - NewLocalPendingDebt(op, mc) + mc.localMaxDebt \in I128

\* ... and the remote side trusts us with the credits to freeze.
QueueRequestTrusted(op, mc) ==
  mc.balance - NewLocalPendingDebt(op, mc) + mc.localMaxDebt >= 0

\* All that is checked before the identifier.
QueueRequestFits(op, mc) ==
  /\ op.valid
  /\ mc.remoteRequests = "open"
  /\ QueueRequestInRange(op, mc)
  /\ QueueRequestTrusted(op, mc)

QueueRequestOk(op, mc) ==
  QueueRequestFits(op, mc) /\ mc.localPending[op.id].stage = "none"

\* queue_operation returns RequestAlreadyExists
Repeats(op, mc) ==
  /\ op.kind = "request"
  /\ QueueRequestFits(op, mc) /\ mc.localPending[op.id].stage # "none"

QueueCollectOk(op, mc) ==
  LET tx == mc.remotePending[op.id] IN
  /\ tx.stage = "response"
  /\ op.src = tx.srcLock
  /\ op.dest = tx.destLock

\* queue_operation returns Ok
QueueOk(op, mc) ==
  \/ op.kind \in {"enable", "disable"}
  \/ op.kind = "setmax"   /\ op.pay <= MaxDebt
  \/ op.kind = "request"  /\ QueueRequestOk(op, mc)
  \/ op.kind = "response" /\ op.valid /\ mc.remotePending[op.id].stage = "request"
  \/ op.kind = "cancel"   /\ mc.remotePending[op.id].stage # "none"
  \/ op.kind = "collect"  /\ QueueCollectOk(op, mc)

\* Slip: the fees are frozen but not remembered.
PendingWithoutFees(op) ==
  [stage |-> "request", pay |-> op.pay, fees |-> 0,
   srcLock |-> op.src, destLock |-> AnyLock]

\* create_pending_transaction
PendingTransaction(op) ==
  [stage |-> "request", pay |-> op.pay, fees |-> op.fees,
   srcLock |-> op.src, destLock |-> AnyLock]

\* The responder adds the hash lock it chose.
Responded(tx, op) == [tx EXCEPT !.stage = "response", !.destLock = op.dest]

QueueRequest(op, mc) ==
  [mc EXCEPT !.localPending = [@ EXCEPT ![op.id] = PendingTransaction(op)],
             !.localPendingDebt = NewLocalPendingDebt(op, mc)]

QueueResponse(op, mc) ==
  [mc EXCEPT !.remotePending =
     [@ EXCEPT ![op.id] = Responded(mc.remotePending[op.id], op)]]

QueueCancel(op, mc) ==
  [mc EXCEPT !.remotePending = [@ EXCEPT ![op.id] = NoTransaction],
             !.remotePendingDebt = @ - Freeze(mc.remotePending[op.id])]

QueueCollect(op, mc) ==
  [mc EXCEPT !.remotePending = [@ EXCEPT ![op.id] = NoTransaction],
             !.remotePendingDebt = @ - Freeze(mc.remotePending[op.id]),
             !.balance = @ + Freeze(mc.remotePending[op.id])]

Queue(op, mc) ==
  CASE op.kind = "enable"   -> [mc EXCEPT !.localRequests = "open"]
    [] op.kind = "disable"  -> [mc EXCEPT !.localRequests = "closed"]
    [] op.kind = "setmax"   -> [mc EXCEPT !.remoteMaxDebt = op.pay]
    [] op.kind = "request"  -> QueueRequest(op, mc)
    [] op.kind = "response" -> QueueResponse(op, mc)
    [] op.kind = "cancel"   -> QueueCancel(op, mc)
    [] op.kind = "collect"  -> QueueCollect(op, mc)

-----------------------------------------------------------------------------
(***************************************************************************)
(* incoming.rs: process an operation that the remote side queued.          *)
(***************************************************************************)
NewRemotePendingDebt(op, mc) == mc.remotePendingDebt + op.pay + op.fees

ProcessRequestOk(op, mc) ==
  /\ op.valid
  /\ mc.localRequests = "open"
  /\ op.pay + op.fees \in U128
  /\ NewRemotePendingDebt(op, mc) \in U128
  /\ mc.balance + NewRemotePendingDebt(op, mc) \in I128
  /\ mc.balance + NewRemotePendingDebt(op, mc) - mc.remoteMaxDebt \in I128
  /\ mc.balance + NewRemotePendingDebt(op, mc) - mc.remoteMaxDebt <= 0
  /\ mc.remotePending[op.id].stage = "none"

ProcessCollectOk(op, mc) ==
  LET tx == mc.localPending[op.id] IN
  /\ tx.stage = "response"
  /\ op.src = tx.srcLock
  /\ op.dest = tx.destLock

\* process_operation returns Ok
ProcessOk(op, mc) ==
  \/ op.kind = "enable"
  \/ op.kind = "disable"  /\ mc.remoteRequests = "open"
  \/ op.kind = "setmax"   /\ op.pay <= MaxDebt
  \/ op.kind = "request"  /\ ProcessRequestOk(op, mc)
  \/ op.kind = "response" /\ op.valid /\ mc.localPending[op.id].stage = "request"
  \/ op.kind = "cancel"   /\ mc.localPending[op.id].stage # "none"
  \/ op.kind = "collect"  /\ ProcessCollectOk(op, mc)

ProcessRequest(op, mc) ==
  [mc EXCEPT !.remotePending = [@ EXCEPT ![op.id] = PendingTransaction(op)],
             !.remotePendingDebt = NewRemotePendingDebt(op, mc)]

ProcessResponse(op, mc) ==
  [mc EXCEPT !.localPending =
     [@ EXCEPT ![op.id] = Responded(mc.localPending[op.id], op)]]

\* Slip: the credits are released on the wrong side.
ProcessCancelRemote(op, mc) ==
  [mc EXCEPT !.localPending = [@ EXCEPT ![op.id] = NoTransaction],
             !.remotePendingDebt = @ - Freeze(mc.localPending[op.id])]

ProcessCancel(op, mc) ==
  [mc EXCEPT !.localPending = [@ EXCEPT ![op.id] = NoTransaction],
             !.localPendingDebt = @ - Freeze(mc.localPending[op.id])]

\* Slip: the fees are not paid.
ProcessCollectNoFees(op, mc) ==
  [mc EXCEPT !.localPending = [@ EXCEPT ![op.id] = NoTransaction],
             !.localPendingDebt = @ - Freeze(mc.localPending[op.id]),
             !.balance = @ - mc.localPending[op.id].pay]

ProcessCollect(op, mc) ==
  [mc EXCEPT !.localPending = [@ EXCEPT ![op.id] = NoTransaction],
             !.localPendingDebt = @ - Freeze(mc.localPending[op.id]),
             !.balance = @ - Freeze(mc.localPending[op.id])]

Process(op, mc) ==
  CASE op.kind = "enable"   -> [mc EXCEPT !.remoteRequests = "open"]
    [] op.kind = "disable"  -> [mc EXCEPT !.remoteRequests = "closed"]
    [] op.kind = "setmax"   -> [mc EXCEPT !.localMaxDebt = op.pay]
    [] op.kind = "request"  -> ProcessRequest(op, mc)
    [] op.kind = "response" -> ProcessResponse(op, mc)
    [] op.kind = "cancel"   -> ProcessCancel(op, mc)
    [] op.kind = "collect"  -> ProcessCollect(op, mc)

-----------------------------------------------------------------------------
(***************************************************************************)
(* Which operations the sender puts in a move token                        *)
(* (collect_outgoing_move_token in handler/sender.rs): it changes the      *)
(* limit and the request status only when they differ from what the ledger *)
(* says, and sends what the ledger accepts.  It also sends a request whose *)
(* identifier is pending already, with a warning: such a request leaves    *)
(* the sender's ledger alone.                                              *)
(***************************************************************************)
\* Slip: sent although nothing changes.
SendableAnyway(op, mc) == QueueOk(op, mc) \/ Repeats(op, mc)

\* PendingMoveToken::queue_operation returns Ok
Sendable(op, mc) ==
  /\ QueueOk(op, mc) \/ Repeats(op, mc)
  /\ op.kind = "enable"  => mc.localRequests = "closed"
  /\ op.kind = "disable" => mc.localRequests = "open"
  /\ op.kind = "setmax"  => op.pay # mc.remoteMaxDebt

\* ... and what it does to the ledger
Push(op, mc) == IF Repeats(op, mc) THEN mc ELSE Queue(op, mc)

(***************************************************************************)
(* Batches.  The trace of a batch is the sequence of ledgers it goes       *)
(* through; process_operations_list and the loop of                        *)
(* collect_outgoing_move_token walk along it.                              *)
(***************************************************************************)
QueueTrace(ops, mc) ==
  LET t[i \in 0 .. Len(ops)] == IF i = 0 THEN mc ELSE Push(ops[i], t[i - 1])
  IN  t

ProcessTrace(ops, mc) ==
  LET t[i \in 0 .. Len(ops)] == IF i = 0 THEN mc ELSE Process(ops[i], t[i - 1])
  IN  t

QueueAll(ops, mc) == QueueTrace(ops, mc)[Len(ops)]

ProcessAll(ops, mc) == ProcessTrace(ops, mc)[Len(ops)]

SendableAll(ops, mc) ==
  \A i \in 1 .. Len(ops) : Sendable(ops[i], QueueTrace(ops, mc)[i - 1])

\* No request of the batch has the identifier of one that is pending.
NoRepeats(ops, mc) ==
  \A i \in 1 .. Len(ops) : ~Repeats(ops[i], QueueTrace(ops, mc)[i - 1])

\* process_operations_list stops with an error at the first bad operation.
ProcessAllOk(ops, mc) ==
  \A i \in 1 .. Len(ops) : ProcessOk(ops[i], ProcessTrace(ops, mc)[i - 1])

(***************************************************************************)
(* The ledger the other side should have: "the other side keeps the        *)
(* negation of this value" (types.rs), and local and remote change places. *)
(***************************************************************************)
Mirror(mc) ==
  [balance           |-> -mc.balance,
   localMaxDebt      |-> mc.remoteMaxDebt,
   remoteMaxDebt     |-> mc.localMaxDebt,
   localPendingDebt  |-> mc.remotePendingDebt,
   remotePendingDebt |-> mc.localPendingDebt,
   localRequests     |-> mc.remoteRequests,
   remoteRequests    |-> mc.localRequests,
   localPending      |-> mc.remotePending,
   remotePending     |-> mc.localPending]
=============================================================================
