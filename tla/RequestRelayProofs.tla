------------------------- MODULE RequestRelayProofs -------------------------
(***************************************************************************)
(* Theorems about requests on a chain of any length.  While nobody is      *)
(* unfriended every node keeps its two links in step: a transaction that   *)
(* the node has asked for on its right, or queued to, was asked for on its *)
(* left, and no answer to it was queued or sent there (Covers).            *)
(* With that every answer finds its origin, nothing that is queued is      *)
(* refused, and no relay pays without being paid.                          *)
(***************************************************************************)
EXTENDS RequestRelay, SequencesExt, SequenceTheorems, FiniteSetTheorems,
        WellFoundedInduction, TLAPS

-----------------------------------------------------------------------------
(***************************************************************************)
(* Queues are only appended to and taken from, and an invariant speaks of  *)
(* all that is in them: a queue is any sequence of its own elements.       *)
(***************************************************************************)
IsQueue(s) == s \in Seq(ToSet(s))

\* A sequence over any set is a queue, and its elements are of that set.
LEMMA QueueOfSeq ==
  ASSUME NEW S, NEW s \in Seq(S)
  PROVE  IsQueue(s) /\ ToSet(s) \subseteq S
BY DEF IsQueue, ToSet

\* The empty queue.
LEMMA EmptyQueue == IsQueue(<<>>) /\ ToSet(<<>>) = {}
BY DEF IsQueue, ToSet

\* A queue after an element has been appended.
LEMMA AppendQueue ==
  ASSUME NEW s, NEW x, IsQueue(s)
  PROVE  IsQueue(Append(s, x)) /\ ToSet(Append(s, x)) = ToSet(s) \cup {x}
<1> DEFINE T == ToSet(s) \cup {x}
<1>1. s \in Seq(T) /\ x \in T
  BY DEF IsQueue
<1>2. Append(s, x) \in Seq(T)
  BY <1>1
<1>3. ToSet(Append(s, x)) = T
  <2>1. \A i \in 1..Len(s) : i \in 1..Len(Append(s, x)) /\ Append(s, x)[i] = s[i]
    BY <1>1
  <2>2. Len(s) + 1 \in 1..Len(Append(s, x)) /\ Append(s, x)[Len(s) + 1] = x
    BY <1>1
  <2>3. T \subseteq ToSet(Append(s, x))
    BY <1>1, <1>2, <2>1, <2>2 DEF ToSet
  <2> QED
    BY <1>2, <2>3, QueueOfSeq
<1> QED
  BY <1>2, <1>3 DEF IsQueue

\* Two queues, one after the other.
LEMMA ConcatQueue ==
  ASSUME NEW s, NEW t, IsQueue(s), IsQueue(t)
  PROVE  IsQueue(s \o t) /\ ToSet(s \o t) = ToSet(s) \cup ToSet(t)
<1> DEFINE T == ToSet(s) \cup ToSet(t)
<1>1. s \in Seq(T) /\ t \in Seq(T)
  BY DEF IsQueue
<1>2. s \o t \in Seq(T)
  BY <1>1
<1>3. ToSet(s \o t) = T
  <2>1. \A i \in 1..Len(t) : Len(s) + i \in 1..Len(s \o t) /\ (s \o t)[Len(s) + i] = t[i]
    BY <1>1
  <2>2. \A i \in 1..Len(s) : i \in 1..Len(s \o t) /\ (s \o t)[i] = s[i]
    BY <1>1
  <2>3. DOMAIN s = 1..Len(s) /\ DOMAIN t = 1..Len(t) /\ DOMAIN (s \o t) = 1..Len(s \o t)
    BY <1>1, <1>2
  <2>4. ToSet(s) \subseteq ToSet(s \o t)
    BY <2>2, <2>3 DEF ToSet
  <2>5. ToSet(t) \subseteq ToSet(s \o t)
    BY <2>1, <2>3 DEF ToSet
  <2> QED
    BY <1>2, <2>4, <2>5, QueueOfSeq
<1> QED
  BY <1>2, <1>3 DEF IsQueue

\* The members of a finite set in some order.
LEMMA SetToSeqQueue ==
  ASSUME NEW S, IsFiniteSet(S)
  PROVE  SetToSeq(S) \in Seq(S)
<1>1. Cardinality(S) \in Nat /\ ExistsBijection(1..Cardinality(S), S)
  BY FS_CardinalityType
<1>2. \E f \in [1..Cardinality(S) -> S] : IsInjective(f)
  BY <1>1 DEF ExistsBijection, Bijection, Injection
<1>3. SetToSeq(S) \in [1..Cardinality(S) -> S]
  BY <1>2 DEF SetToSeq
<1> QED
  BY <1>1, <1>3

-----------------------------------------------------------------------------
(***************************************************************************)
(* Induction over natural numbers, stated for a set instead of a           *)
(* predicate, so that the provers can instantiate it.                      *)
(***************************************************************************)
\* A set of natural numbers has a least one.
LEMMA LeastNatural ==
  ASSUME NEW T, T \subseteq Nat, T # {}
  PROVE  \E m \in T : \A k \in T : m <= k
<1> DEFINE R == OpToRel(<, Nat)
<1>1. IsWellFoundedOn(R, Nat)
  BY NatLessThanWellFounded
<1>2. \A i, j \in Nat : i < j => <<i, j>> \in R
  BY DEF OpToRel
<1> HIDE DEF R
<1>3. PICK m \in T : \A k \in T : ~(<<k, m>> \in R)
  BY <1>1, WFMin
<1>4. ASSUME NEW k \in T PROVE m <= k
  <2>1. k \in Nat /\ m \in Nat
    OBVIOUS
  <2>2. ~(k < m)
    BY <1>2, <1>3, <2>1
  <2> QED BY <2>1, <2>2
<1> QED BY <1>4

\* Induction up to n.
LEMMA Induction ==
  ASSUME NEW n \in Nat, NEW T, 0 \in T, \A k \in 0..(n - 1) : k \in T => k + 1 \in T
  PROVE  \A k \in 0..n : k \in T
<1> DEFINE U == {k \in 0..n : k \notin T}
<1> SUFFICES ASSUME U # {} PROVE FALSE
  OBVIOUS
<1>1. U \subseteq Nat
  OBVIOUS
<1>2. PICK m \in U : \A k \in U : m <= k
  BY <1>1, LeastNatural
<1>3. m # 0 /\ m - 1 \in 0..(n - 1) /\ m - 1 \in T
  BY <1>2
<1> QED BY <1>2, <1>3

-----------------------------------------------------------------------------
Stage == {"none", "request", "response"}
OpType == [kind : {"request", "response", "cancel", "collect"}, id : Uid]

-----------------------------------------------------------------------------
(***************************************************************************)
(* The stages a transaction goes through.                                  *)
(***************************************************************************)
Stepped(q, op) == [q EXCEPT ![op.id] = StageAfter(op.kind)]

\* The pending transactions after each operation, one after the other.
LEMMA TraceSteps ==
  ASSUME NEW ops, Len(ops) \in Nat, NEW p
  PROVE  /\ Trace(ops, p)[0] = p
         /\ \A i \in 1..Len(ops) :
              Trace(ops, p)[i] = Stepped(Trace(ops, p)[i - 1], ops[i])
<1> DEFINE Step(i, q) == Stepped(q, ops[i])
           Traces(n, t) == t = [i \in 0..n |-> IF i = 0 THEN p ELSE Step(i, t[i - 1])]
           T == {n \in Nat : \E t : Traces(n, t)}
<1>1. 0 \in T
  <2>1. Traces(0, [i \in 0..0 |-> p])
    OBVIOUS
  <2> QED BY <2>1
<1>2. Trace(ops, p) = CHOOSE t : Traces(Len(ops), t)
  BY DEF Trace, Stepped
<1> HIDE DEF Step
<1>3. ASSUME NEW k \in 0..(Len(ops) - 1), k \in T PROVE k + 1 \in T
  <2>1. PICK t : Traces(k, t)
    BY <1>3
  <2> DEFINE u == [i \in 0..(k + 1) |-> IF i = k + 1 THEN Step(i, t[k]) ELSE t[i]]
  <2>2. ASSUME NEW i \in 0..(k + 1) PROVE u[i] = IF i = 0 THEN p ELSE Step(i, u[i - 1])
    <3>1. CASE i = k + 1
      BY <3>1, <2>1
    <3>2. CASE i # k + 1
      BY <3>2, <2>1
    <3> QED BY <3>1, <3>2
  <2>3. Traces(k + 1, u)
    BY <2>2
  <2> HIDE DEF u
  <2>4. \E t1 : Traces(k + 1, t1)
    BY <2>3
  <2> HIDE DEF Traces
  <2> QED BY <2>4
<1> HIDE DEF T
<1>4. Len(ops) \in T
  <2>1. \A k \in 0..Len(ops) : k \in T
    BY <1>1, <1>3, Induction
  <2> QED BY <2>1
<1>5. \E t : Traces(Len(ops), t)
  BY <1>4 DEF T
<1> HIDE DEF Traces
<1>6. Traces(Len(ops), Trace(ops, p))
  BY <1>2, <1>5
<1>7. \A i \in 0..Len(ops) : Trace(ops, p)[i] = IF i = 0 THEN p ELSE Step(i, Trace(ops, p)[i - 1])
  BY <1>6 DEF Traces
<1>8. 0 \in 0..Len(ops) /\ \A i \in 1..Len(ops) : i \in 0..Len(ops) /\ i # 0
  OBVIOUS
<1> QED BY <1>7, <1>8 DEF Step

\* The stage after an operation is a stage.
LEMMA StageAfterType == ASSUME NEW k PROVE StageAfter(k) \in Stage
BY DEF StageAfter, Stage

\* The elements of a list of operations.
LEMMA OpsTyped ==
  ASSUME NEW ops \in Seq(OpType)
  PROVE  /\ Len(ops) \in Nat
         /\ \A k \in 1..Len(ops) : ops[k] \in OpType /\ ops[k].id \in Uid /\ ops[k] \in ToSet(ops)
         /\ \A op \in ToSet(ops) : op \in OpType /\ op.id \in Uid
<1>1. \A op \in OpType : op.id \in Uid
  BY DEF OpType
<1>2. Len(ops) \in Nat /\ DOMAIN ops = 1..Len(ops) /\ \A k \in 1..Len(ops) : ops[k] \in OpType
  OBVIOUS
<1> QED BY <1>1, <1>2 DEF ToSet

\* Every operation leaves stages.
LEMMA TraceType ==
  ASSUME NEW ops \in Seq(OpType), NEW p \in [Uid -> Stage]
  PROVE  \A k \in 0..Len(ops) : Trace(ops, p)[k] \in [Uid -> Stage]
<1> DEFINE q == Trace(ops, p)
           T == {k \in 0..Len(ops) : q[k] \in [Uid -> Stage]}
<1>1. Len(ops) \in Nat /\ \A k \in 1..Len(ops) : ops[k].id \in Uid
  BY OpsTyped
<1>2. /\ q[0] = p
      /\ \A i \in 1..Len(ops) : q[i] = Stepped(q[i - 1], ops[i])
  BY <1>1, TraceSteps
<1> HIDE DEF q
<1>3. 0 \in T
  BY <1>1, <1>2
<1>4. ASSUME NEW k \in 0..(Len(ops) - 1), k \in T PROVE k + 1 \in T
  <2>1. k + 1 \in 1..Len(ops) /\ (k + 1) - 1 = k /\ k + 1 \in 0..Len(ops)
    BY <1>1
  <2>2. q[k + 1] = Stepped(q[k], ops[k + 1])
    BY <1>2, <2>1
  <2> QED BY <1>1, <1>4, <2>1, <2>2, StageAfterType DEF Stepped
<1>5. \A k \in 0..Len(ops) : k \in T
  BY <1>1, <1>3, <1>4, Induction
<1> QED BY <1>5 DEF q

\* The same in the words of the model.
LEMMA AfterType ==
  ASSUME NEW ops \in Seq(OpType), NEW p \in [Uid -> Stage]
  PROVE  After(ops, p) \in [Uid -> Stage]
<1>1. Len(ops) \in 0..Len(ops)
  OBVIOUS
<1> QED BY <1>1, TraceType DEF After

StepsAt(ops, p, k, u) ==
  /\ k + 1 \in 1..Len(ops) /\ k + 1 \in 0..Len(ops) /\ (k + 1) - 1 = k /\ k \in 0..Len(ops)
  /\ ops[k + 1] \in OpType /\ ops[k + 1].id \in Uid
  /\ Trace(ops, p)[k + 1][u] = IF ops[k + 1].id = u THEN StageAfter(ops[k + 1].kind)
                                                   ELSE Trace(ops, p)[k][u]

\* One step of a trace, for one transaction.
LEMMA TraceAt ==
  ASSUME NEW ops \in Seq(OpType), NEW p \in [Uid -> Stage], NEW k \in 0..(Len(ops) - 1), NEW u \in Uid
  PROVE  StepsAt(ops, p, k, u)
<1>1. k + 1 \in 1..Len(ops) /\ k + 1 \in 0..Len(ops) /\ (k + 1) - 1 = k /\ k \in 0..Len(ops)
  OBVIOUS
<1>2. ops[k + 1] \in OpType /\ ops[k + 1].id \in Uid
  BY <1>1, OpsTyped
<1>3. Trace(ops, p)[k + 1] = Stepped(Trace(ops, p)[k], ops[k + 1])
  <2>1. Len(ops) \in Nat
    OBVIOUS
  <2>2. PICK j \in 1..Len(ops) : j = k + 1 /\ j - 1 = k
    BY <1>1
  <2>3. Trace(ops, p)[j] = Stepped(Trace(ops, p)[j - 1], ops[j])
    BY <2>1, TraceSteps
  <2> QED BY <2>2, <2>3
<1>4. Trace(ops, p)[k] \in [Uid -> Stage]
  BY <1>1, TraceType
<1> QED BY <1>1, <1>2, <1>3, <1>4 DEF Stepped, StepsAt

\* The same, written out.
LEMMA TraceStep ==
  ASSUME NEW ops \in Seq(OpType), NEW p \in [Uid -> Stage], NEW k \in 0..(Len(ops) - 1), NEW u \in Uid
  PROVE  /\ k + 1 \in 1..Len(ops) /\ k + 1 \in 0..Len(ops) /\ (k + 1) - 1 = k /\ k \in 0..Len(ops)
         /\ ops[k + 1] \in OpType /\ ops[k + 1].id \in Uid
         /\ Trace(ops, p)[k + 1][u] = IF ops[k + 1].id = u THEN StageAfter(ops[k + 1].kind)
                                                          ELSE Trace(ops, p)[k][u]
<1>1. StepsAt(ops, p, k, u)
  BY TraceAt, Zenon
<1> QED BY ONLY <1>1 DEF StepsAt

\* No operation.
LEMMA AfterNothing ==
  ASSUME NEW p
  PROVE  After(<<>>, p) = p /\ Fits(<<>>, p)
<1>1. Len(<<>>) = 0
  OBVIOUS
<1> QED BY <1>1, TraceSteps DEF After, Fits

\* What becomes of a transaction depends on the operations and where it was.
LEMMA TracePoint ==
  ASSUME NEW ops \in Seq(OpType), NEW p \in [Uid -> Stage], NEW r \in [Uid -> Stage],
         NEW u \in Uid, p[u] = r[u]
  PROVE  \A k \in 0..Len(ops) : Trace(ops, p)[k][u] = Trace(ops, r)[k][u]
<1> DEFINE T == {k \in 0..Len(ops) : Trace(ops, p)[k][u] = Trace(ops, r)[k][u]}
<1>1. Len(ops) \in Nat
  OBVIOUS
<1>2. 0 \in T
  BY <1>1, TraceSteps
<1>3. ASSUME NEW k \in 0..(Len(ops) - 1), k \in T PROVE k + 1 \in T
  BY <1>3, TraceStep
<1>4. \A k \in 0..Len(ops) : k \in T
  BY <1>1, <1>2, <1>3, Induction
<1> QED BY <1>4

\* The same of the last stage.
LEMMA AfterPoint ==
  ASSUME NEW ops \in Seq(OpType), NEW p \in [Uid -> Stage], NEW r \in [Uid -> Stage],
         NEW u \in Uid, p[u] = r[u]
  PROVE  After(ops, p)[u] = After(ops, r)[u]
<1>1. Len(ops) \in 0..Len(ops)
  OBVIOUS
<1> QED BY <1>1, TracePoint DEF After

\* p and r agree on the transactions of the operations.
Agree(ops, p, r) == \A op \in ToSet(ops) : p[op.id] = r[op.id]

\* Whether operations fit depends only on their transactions.
LEMMA FitsAgree ==
  ASSUME NEW ops \in Seq(OpType), NEW p \in [Uid -> Stage], NEW r \in [Uid -> Stage],
         Agree(ops, p, r), Fits(ops, p)
  PROVE  Fits(ops, r)
<1> SUFFICES ASSUME NEW k \in 1..Len(ops)
             PROVE  Trace(ops, r)[k - 1][ops[k].id] \in StageBefore(ops[k].kind)
  BY DEF Fits
<1>1. k - 1 \in 0..Len(ops) /\ ops[k] \in ToSet(ops) /\ ops[k] \in OpType /\ ops[k].id \in Uid
  BY OpsTyped
<1>2. p[ops[k].id] = r[ops[k].id]
  BY <1>1 DEF Agree
<1>3. Trace(ops, p)[k - 1][ops[k].id] = Trace(ops, r)[k - 1][ops[k].id]
  BY <1>1, <1>2, TracePoint
<1> QED BY <1>3 DEF Fits

\* No operation is about u.
Without(ops, u) == \A op \in ToSet(ops) : op.id # u

\* Operations leave other transactions alone.
LEMMA AfterWithout ==
  ASSUME NEW ops \in Seq(OpType), NEW p \in [Uid -> Stage], NEW u \in Uid, Without(ops, u)
  PROVE  After(ops, p)[u] = p[u]
<1> DEFINE T == {k \in 0..Len(ops) : Trace(ops, p)[k][u] = p[u]}
<1>1. Len(ops) \in Nat
  OBVIOUS
<1>2. 0 \in T
  BY <1>1, TraceSteps
<1>3. ASSUME NEW k \in 0..(Len(ops) - 1), k \in T PROVE k + 1 \in T
  <2>1. ops[k + 1] \in ToSet(ops)
    BY TraceStep DEF ToSet
  <2>2. ops[k + 1].id # u
    BY <2>1 DEF Without
  <2> QED BY <1>3, <2>2, TraceStep
<1>4. \A k \in 0..Len(ops) : k \in T
  BY <1>1, <1>2, <1>3, Induction
<1>5. Len(ops) \in T
  BY <1>1, <1>4
<1> QED BY <1>5 DEF After

NoRequests(ops) == \A op \in ToSet(ops) : op.kind # "request"
AllRequests(ops) == \A op \in ToSet(ops) : op.kind = "request"

\* Nothing comes back for a transaction that is not pending.
LEMMA NoneWithout ==
  ASSUME NEW ops \in Seq(OpType), NEW p \in [Uid -> Stage], NEW u \in Uid,
         NoRequests(ops), Fits(ops, p), p[u] = "none"
  PROVE  Without(ops, u) /\ After(ops, p)[u] = "none"
<1> DEFINE T == {k \in 0..Len(ops) : /\ Trace(ops, p)[k][u] = "none"
                                     /\ \A j \in 1..k : ops[j].id # u}
<1>1. Len(ops) \in Nat
  OBVIOUS
<1>2. 0 \in T
  BY <1>1, TraceSteps
<1>3. ASSUME NEW k \in 0..(Len(ops) - 1), k \in T PROVE k + 1 \in T
  <2>1. ops[k + 1] \in ToSet(ops)
    BY TraceStep DEF ToSet
  <2>2. ops[k + 1].kind \in {"response", "cancel", "collect"}
    BY <2>1, TraceStep DEF NoRequests, OpType
  <2>3. Trace(ops, p)[k][ops[k + 1].id] \in StageBefore(ops[k + 1].kind)
    <3>1. k + 1 \in 1..Len(ops) /\ (k + 1) - 1 = k
      BY TraceStep
    <3> QED BY <3>1 DEF Fits
  <2>4. "none" \notin StageBefore(ops[k + 1].kind)
    BY <2>2 DEF StageBefore
  <2>5. ops[k + 1].id # u
    BY <1>3, <2>3, <2>4
  <2>6. Trace(ops, p)[k + 1][u] = "none"
    BY <1>3, <2>5, TraceStep
  <2>7. \A j \in 1..(k + 1) : ops[j].id # u
    <3>1. \A j \in 1..(k + 1) : j \in 1..k \/ j = k + 1
      OBVIOUS
    <3>2. \A j \in 1..k : ops[j].id # u
      BY <1>3
    <3> QED BY <2>5, <3>1, <3>2
  <2>8. k + 1 \in 0..Len(ops)
    OBVIOUS
  <2> QED BY <2>6, <2>7, <2>8
<1>4. \A k \in 0..Len(ops) : k \in T
  BY <1>1, <1>2, <1>3, Induction
<1>5. Len(ops) \in T
  BY <1>1, <1>4
<1>6. Without(ops, u)
  BY <1>5 DEF Without, ToSet
<1> QED BY <1>5, <1>6 DEF After

\* Operations in two parts, one after the other.
LEMMA AfterConcat ==
  ASSUME NEW a \in Seq(OpType), NEW b \in Seq(OpType), NEW p \in [Uid -> Stage]
  PROVE  /\ a \o b \in Seq(OpType)
         /\ After(a \o b, p) = After(b, After(a, p))
         /\ Fits(a, p) /\ Fits(b, After(a, p)) => Fits(a \o b, p)
         /\ Fits(a \o b, p) => Fits(a, p) /\ Fits(b, After(a, p))
<1>1. PICK c : c = a \o b
  OBVIOUS
<1>2. /\ Len(a) \in Nat /\ Len(b) \in Nat /\ c \in Seq(OpType) /\ Len(c) = Len(a) + Len(b)
      /\ \A k \in 1..Len(a) : c[k] = a[k]
      /\ \A k \in 1..Len(b) : c[Len(a) + k] = b[k]
  BY <1>1
<1>3. PICK m : m = After(a, p)
  OBVIOUS
<1>4. m \in [Uid -> Stage]
  BY <1>3, AfterType
<1>5. \A k \in 0..Len(a) : Trace(c, p)[k] = Trace(a, p)[k]
  <2> DEFINE T == {k \in 0..Len(a) : Trace(c, p)[k] = Trace(a, p)[k]}
  <2>1. 0 \in T
    BY <1>2, TraceSteps
  <2>2. ASSUME NEW k \in 0..(Len(a) - 1), k \in T PROVE k + 1 \in T
    <3>1. PICK j : j = k + 1
      OBVIOUS
    <3>2. j \in 1..Len(a) /\ j \in 1..Len(c) /\ j - 1 = k /\ j \in 0..Len(a)
      BY <1>2, <3>1
    <3>3. Trace(c, p)[j] = Stepped(Trace(c, p)[j - 1], c[j])
      <4>1. Len(c) \in Nat /\ j \in 1..Len(c)
        BY <1>2, <3>2
      <4> QED BY <4>1, TraceSteps
    <3>4. Trace(a, p)[j] = Stepped(Trace(a, p)[j - 1], a[j])
      <4>1. Len(a) \in Nat /\ j \in 1..Len(a)
        BY <3>2
      <4> QED BY <4>1, TraceSteps
    <3>5. c[j] = a[j] /\ Trace(c, p)[k] = Trace(a, p)[k]
      BY <1>2, <2>2, <3>2
    <3> QED BY <3>1, <3>2, <3>3, <3>4, <3>5
  <2>3. \A k \in 0..Len(a) : k \in T
    BY <1>2, <2>1, <2>2, Induction
  <2> QED BY <2>3
<1>6. Trace(c, p)[Len(a)] = m
  <2>1. Len(a) \in 0..Len(a)
    BY <1>2
  <2> QED BY <1>3, <1>5, <2>1 DEF After
<1>7. \A k \in 0..Len(b) : Trace(c, p)[Len(a) + k] = Trace(b, m)[k]
  <2> DEFINE T == {k \in 0..Len(b) : Trace(c, p)[Len(a) + k] = Trace(b, m)[k]}
  <2>1. 0 \in T
    <3>1. Trace(b, m)[0] = m
      BY <1>2, TraceSteps
    <3>2. Len(a) + 0 = Len(a) /\ 0 \in 0..Len(b)
      BY <1>2
    <3> QED BY <1>6, <3>1, <3>2
  <2>2. ASSUME NEW k \in 0..(Len(b) - 1), k \in T PROVE k + 1 \in T
    <3>1. PICK j : j = k + 1
      OBVIOUS
    <3>2. PICK i : i = Len(a) + j
      OBVIOUS
    <3>3. /\ j \in 1..Len(b) /\ i \in 1..Len(c) /\ j - 1 = k /\ i - 1 = Len(a) + k
          /\ j \in 0..Len(b)
      BY <1>2, <3>1, <3>2
    <3>4. Trace(c, p)[i] = Stepped(Trace(c, p)[i - 1], c[i])
      <4>1. Len(c) \in Nat /\ i \in 1..Len(c)
        BY <1>2, <3>3
      <4> QED BY <4>1, TraceSteps
    <3>5. Trace(b, m)[j] = Stepped(Trace(b, m)[j - 1], b[j])
      <4>1. Len(b) \in Nat /\ j \in 1..Len(b)
        BY <3>3
      <4> QED BY <4>1, TraceSteps
    <3>6. c[i] = b[j] /\ Trace(c, p)[Len(a) + k] = Trace(b, m)[k]
      BY <1>2, <2>2, <3>2, <3>3
    <3> QED BY <3>1, <3>2, <3>3, <3>4, <3>5, <3>6
  <2>3. \A k \in 0..Len(b) : k \in T
    BY <1>2, <2>1, <2>2, Induction
  <2> QED BY <2>3
<1>8. After(c, p) = After(b, m)
  <2>1. Len(b) \in 0..Len(b)
    BY <1>2
  <2> QED BY <1>2, <1>7, <2>1 DEF After
<1>9. ASSUME Fits(a, p), Fits(b, m) PROVE Fits(c, p)
  <2> SUFFICES ASSUME NEW k \in 1..Len(c)
               PROVE  Trace(c, p)[k - 1][c[k].id] \in StageBefore(c[k].kind)
    BY DEF Fits
  <2>1. CASE k \in 1..Len(a)
    <3>1. k - 1 \in 0..Len(a) /\ c[k] = a[k]
      BY <1>2, <2>1
    <3>2. Trace(a, p)[k - 1][a[k].id] \in StageBefore(a[k].kind)
      BY <1>9, <2>1 DEF Fits
    <3> QED BY <1>5, <3>1, <3>2
  <2>2. CASE k \notin 1..Len(a)
    <3>1. PICK j : j = k - Len(a)
      OBVIOUS
    <3>2. j \in 1..Len(b) /\ j - 1 \in 0..Len(b) /\ Len(a) + j = k /\ k - 1 = Len(a) + (j - 1)
      BY <1>2, <2>2, <3>1
    <3>3. c[k] = b[j]
      BY <1>2, <3>2
    <3>4. Trace(c, p)[k - 1] = Trace(b, m)[j - 1]
      BY <1>7, <3>2
    <3>5. Trace(b, m)[j - 1][b[j].id] \in StageBefore(b[j].kind)
      BY <1>9, <3>2 DEF Fits
    <3> QED BY <3>3, <3>4, <3>5
  <2> QED BY <2>1, <2>2
<1>10. ASSUME Fits(c, p) PROVE Fits(a, p) /\ Fits(b, m)
  <2>1. ASSUME NEW k \in 1..Len(a)
        PROVE  Trace(a, p)[k - 1][a[k].id] \in StageBefore(a[k].kind)
    <3>1. k \in 1..Len(c) /\ k - 1 \in 0..Len(a) /\ c[k] = a[k]
      BY <1>2, <2>1
    <3>2. Trace(c, p)[k - 1][c[k].id] \in StageBefore(c[k].kind)
      BY <1>10, <3>1 DEF Fits
    <3> QED BY <1>5, <3>1, <3>2
  <2>2. ASSUME NEW k \in 1..Len(b)
        PROVE  Trace(b, m)[k - 1][b[k].id] \in StageBefore(b[k].kind)
    <3>1. PICK j : j = Len(a) + k
      OBVIOUS
    <3>2. j \in 1..Len(c) /\ k - 1 \in 0..Len(b) /\ c[j] = b[k] /\ j - 1 = Len(a) + (k - 1)
      BY <1>2, <3>1
    <3>3. Trace(c, p)[j - 1][c[j].id] \in StageBefore(c[j].kind)
      BY <1>10, <3>2 DEF Fits
    <3>4. Trace(c, p)[j - 1] = Trace(b, m)[k - 1]
      BY <1>7, <3>2
    <3> QED BY <3>2, <3>3, <3>4
  <2> QED BY <2>1, <2>2 DEF Fits
<1> QED BY <1>1, <1>2, <1>3, <1>8, <1>9, <1>10

-----------------------------------------------------------------------------
(***************************************************************************)
(* Lists of operations of one kind.                                        *)
(***************************************************************************)
Distinct(us) == \A j, k \in 1 .. Len(us) : us[j] = us[k] => j = k

\* One operation for each of the transactions.
LEMMA ForEachIs ==
  ASSUME NEW kind \in {"request", "response", "cancel", "collect"}, NEW us \in Seq(Uid)
  PROVE  /\ ForEach(kind, us) \in Seq(OpType)
         /\ Len(ForEach(kind, us)) = Len(us)
         /\ \A k \in 1..Len(us) : /\ ForEach(kind, us)[k].kind = kind
                                  /\ ForEach(kind, us)[k].id = us[k]
         /\ \A op : op \in ToSet(ForEach(kind, us)) <=> \E u \in ToSet(us) : op = Makes(kind, u)
<1>1. PICK ops : ops = ForEach(kind, us)
  OBVIOUS
<1>2. Len(us) \in Nat /\ DOMAIN us = 1..Len(us) /\ \A k \in 1..Len(us) : us[k] \in Uid
  OBVIOUS
<1>3. \A u \in Uid : Makes(kind, u) \in OpType /\ Makes(kind, u).kind = kind /\ Makes(kind, u).id = u
  BY DEF Makes, OpType
<1>4. ops = [k \in 1..Len(us) |-> Makes(kind, us[k])]
  BY <1>1 DEF ForEach
<1>5. ops \in Seq(OpType) /\ Len(ops) = Len(us) /\ DOMAIN ops = 1..Len(us)
  BY <1>2, <1>3, <1>4
<1>6. \A k \in 1..Len(us) : ops[k].kind = kind /\ ops[k].id = us[k]
  BY <1>2, <1>3, <1>4
<1>7. \A op : op \in ToSet(ops) <=> \E u \in ToSet(us) : op = Makes(kind, u)
  BY <1>2, <1>4, <1>5 DEF ToSet
<1> QED BY <1>1, <1>5, <1>6, <1>7

\* Where the transactions are afterwards.
LEMMA AfterForEach ==
  ASSUME NEW kind \in {"request", "response", "cancel", "collect"}, NEW us \in Seq(Uid),
         NEW p \in [Uid -> Stage], NEW u \in Uid
  PROVE  After(ForEach(kind, us), p)[u] = IF u \in ToSet(us) THEN StageAfter(kind) ELSE p[u]
<1>1. PICK ops : ops = ForEach(kind, us)
  OBVIOUS
<1>2. /\ ops \in Seq(OpType) /\ Len(ops) = Len(us) /\ Len(us) \in Nat
      /\ \A k \in 1..Len(us) : ops[k].kind = kind /\ ops[k].id = us[k]
  BY <1>1, ForEachIs
<1> DEFINE T == {k \in 0..Len(us) :
                   Trace(ops, p)[k][u] = IF \E j \in 1..k : us[j] = u THEN StageAfter(kind) ELSE p[u]}
<1>3. 0 \in T
  BY <1>2, TraceSteps
<1>4. ASSUME NEW k \in 0..(Len(us) - 1), k \in T PROVE k + 1 \in T
  <2>1. /\ k + 1 \in 1..Len(us) /\ k + 1 \in 0..Len(us) /\ k \in 0..(Len(ops) - 1)
        /\ ops[k + 1].id = us[k + 1] /\ ops[k + 1].kind = kind
    BY <1>2
  <2>2. Trace(ops, p)[k + 1][u] = IF ops[k + 1].id = u THEN StageAfter(ops[k + 1].kind)
                                                      ELSE Trace(ops, p)[k][u]
    BY <1>2, <2>1, TraceStep
  <2>3. \A j : j \in 1..(k + 1) <=> j \in 1..k \/ j = k + 1
    OBVIOUS
  <2>4. (\E j \in 1..(k + 1) : us[j] = u) <=> (\E j \in 1..k : us[j] = u) \/ us[k + 1] = u
    BY <2>3
  <2>5. Trace(ops, p)[k][u] = IF \E j \in 1..k : us[j] = u THEN StageAfter(kind) ELSE p[u]
    BY <1>4
  <2> QED BY <2>1, <2>2, <2>4, <2>5
<1>5. \A k \in 0..Len(us) : k \in T
  BY <1>2, <1>3, <1>4, Induction
<1>6. Trace(ops, p)[Len(us)][u] = IF \E j \in 1..Len(us) : us[j] = u THEN StageAfter(kind) ELSE p[u]
  BY <1>2, <1>5
<1>7. (\E j \in 1..Len(us) : us[j] = u) <=> u \in ToSet(us)
  BY DEF ToSet
<1> QED BY <1>1, <1>2, <1>6, <1>7 DEF After

\* They fit when each fits alone and none comes twice.
LEMMA FitsForEach ==
  ASSUME NEW kind \in {"request", "response", "cancel", "collect"}, NEW us \in Seq(Uid),
         NEW p \in [Uid -> Stage], Distinct(us), \A u \in ToSet(us) : p[u] \in StageBefore(kind)
  PROVE  Fits(ForEach(kind, us), p)
<1>1. PICK ops : ops = ForEach(kind, us)
  OBVIOUS
<1>2. /\ ops \in Seq(OpType) /\ Len(ops) = Len(us) /\ Len(us) \in Nat
      /\ \A k \in 1..Len(us) : ops[k].kind = kind /\ ops[k].id = us[k]
  BY <1>1, ForEachIs
<1>3. ASSUME NEW i \in 1..Len(us)
      PROVE  Trace(ops, p)[i - 1][us[i]] = p[us[i]]
  <2> DEFINE u == us[i]
             T == {k \in 0..(i - 1) : Trace(ops, p)[k][u] = p[u]}
  <2>1. u \in Uid
    OBVIOUS
  <2>2. 0 \in T
    BY <1>2, TraceSteps
  <2>3. ASSUME NEW k \in 0..((i - 1) - 1), k \in T PROVE k + 1 \in T
    <3>1. /\ k + 1 \in 1..Len(us) /\ k + 1 \in 0..(i - 1) /\ k + 1 # i /\ k \in 0..(Len(ops) - 1)
      BY <1>2
    <3>2. ops[k + 1].id # u
      BY <1>2, <3>1 DEF Distinct
    <3>3. Trace(ops, p)[k + 1][u] = IF ops[k + 1].id = u THEN StageAfter(ops[k + 1].kind)
                                                        ELSE Trace(ops, p)[k][u]
      BY <1>2, <2>1, <3>1, TraceStep
    <3>4. Trace(ops, p)[k][u] = p[u]
      BY <2>3
    <3> HIDE DEF u
    <3> QED BY <3>1, <3>2, <3>3, <3>4
  <2>4. i - 1 \in Nat
    BY <1>2
  <2> HIDE DEF T
  <2>5. \A k \in 0..(i - 1) : k \in T
    BY <2>2, <2>3, <2>4, Induction
  <2>6. i - 1 \in T
    BY <2>4, <2>5
  <2> QED BY <2>6 DEF T
<1>4. ASSUME NEW i \in 1..Len(us) PROVE us[i] \in ToSet(us)
  BY <1>2 DEF ToSet
<1> QED BY <1>1, <1>2, <1>3, <1>4 DEF Fits

-----------------------------------------------------------------------------
(***************************************************************************)
(* Parts of a list.                                                        *)
(***************************************************************************)
OnlyTrace(s, X) ==
  LET t[k \in 0 .. Len(s)] ==
        IF k = 0 THEN <<>>
        ELSE IF s[k] \in X THEN Append(t[k - 1], s[k]) ELSE t[k - 1]
  IN  t

Picked(q, x, X) == IF x \in X THEN Append(q, x) ELSE q

\* Element by element.
LEMMA OnlySteps ==
  ASSUME NEW s, Len(s) \in Nat, NEW X
  PROVE  /\ Only(s, X) = OnlyTrace(s, X)[Len(s)]
         /\ OnlyTrace(s, X)[0] = <<>>
         /\ \A i \in 1..Len(s) : OnlyTrace(s, X)[i] = Picked(OnlyTrace(s, X)[i - 1], s[i], X)
<1> DEFINE Step(i, q) == Picked(q, s[i], X)
           Traces(n, t) == t = [i \in 0..n |-> IF i = 0 THEN <<>> ELSE Step(i, t[i - 1])]
           T == {n \in Nat : \E t : Traces(n, t)}
<1>1. 0 \in T
  <2>1. Traces(0, [i \in 0..0 |-> <<>>])
    OBVIOUS
  <2> QED BY <2>1
<1>2. OnlyTrace(s, X) = CHOOSE t : Traces(Len(s), t)
  BY DEF OnlyTrace, Picked
<1> HIDE DEF Step
<1>3. ASSUME NEW k \in 0..(Len(s) - 1), k \in T PROVE k + 1 \in T
  <2>1. PICK t : Traces(k, t)
    BY <1>3
  <2> DEFINE u == [i \in 0..(k + 1) |-> IF i = k + 1 THEN Step(i, t[k]) ELSE t[i]]
  <2>2. ASSUME NEW i \in 0..(k + 1) PROVE u[i] = IF i = 0 THEN <<>> ELSE Step(i, u[i - 1])
    <3>1. CASE i = k + 1
      BY <3>1, <2>1
    <3>2. CASE i # k + 1
      BY <3>2, <2>1
    <3> QED BY <3>1, <3>2
  <2>3. Traces(k + 1, u)
    BY <2>2
  <2> HIDE DEF u
  <2>4. \E t1 : Traces(k + 1, t1)
    BY <2>3
  <2> HIDE DEF Traces
  <2> QED BY <2>4
<1> HIDE DEF T
<1>4. Len(s) \in T
  <2>1. \A k \in 0..Len(s) : k \in T
    BY <1>1, <1>3, Induction
  <2> QED BY <2>1
<1>5. \E t : Traces(Len(s), t)
  BY <1>4 DEF T
<1> HIDE DEF Traces
<1>6. Traces(Len(s), OnlyTrace(s, X))
  BY <1>2, <1>5
<1>7. \A i \in 0..Len(s) :
        OnlyTrace(s, X)[i] = IF i = 0 THEN <<>> ELSE Step(i, OnlyTrace(s, X)[i - 1])
  BY <1>6 DEF Traces
<1>8. 0 \in 0..Len(s) /\ \A i \in 1..Len(s) : i \in 0..Len(s) /\ i # 0
  OBVIOUS
<1>9. Only(s, X) = OnlyTrace(s, X)[Len(s)]
  BY DEF Only, OnlyTrace
<1> QED BY <1>7, <1>8, <1>9 DEF Step

\* The elements that are in X, each once if it was there once.
LEMMA OnlyIs ==
  ASSUME NEW V, NEW s \in Seq(V), NEW X
  PROVE  /\ Only(s, X) \in Seq(V)
         /\ ToSet(Only(s, X)) = ToSet(s) \cap X
         /\ Distinct(s) => Distinct(Only(s, X))
<1> DEFINE o == OnlyTrace(s, X)
           Before(k) == {s[j] : j \in 1..k}
           T == {k \in 0..Len(s) : /\ o[k] \in Seq(V)
                                   /\ ToSet(o[k]) = Before(k) \cap X
                                   /\ Distinct(s) => Distinct(o[k])}
<1>1. Len(s) \in Nat /\ DOMAIN s = 1..Len(s) /\ \A k \in 1..Len(s) : s[k] \in V
  OBVIOUS
<1>2. /\ Only(s, X) = o[Len(s)] /\ o[0] = <<>>
      /\ \A i \in 1..Len(s) : o[i] = Picked(o[i - 1], s[i], X)
  BY <1>1, OnlySteps
<1> HIDE DEF o
<1>3. 0 \in T
  <2>1. ToSet(<<>>) = {} /\ Before(0) = {}
    BY DEF ToSet
  <2>2. Distinct(<<>>)
    BY DEF Distinct
  <2>3. <<>> \in Seq(V) /\ 0 \in 0..Len(s)
    BY <1>1
  <2>4. /\ o[0] \in Seq(V) /\ ToSet(o[0]) = Before(0) \cap X
        /\ Distinct(s) => Distinct(o[0])
    BY <1>2, <2>1, <2>2, <2>3
  <2> HIDE DEF Before
  <2> QED BY <2>3, <2>4
<1>4. ASSUME NEW k \in 0..(Len(s) - 1), k \in T PROVE k + 1 \in T
  <2>1. PICK i : i = k + 1
    OBVIOUS
  <2>2. i \in 1..Len(s) /\ i \in 0..Len(s) /\ i - 1 = k /\ s[i] \in V
    BY <1>1, <2>1
  <2>3. o[i] = Picked(o[k], s[i], X)
    BY <1>2, <2>2
  <2>4. Before(i) = Before(k) \cup {s[i]}
    <3>1. \A j : j \in 1..i <=> j \in 1..k \/ j = i
      BY <2>1
    <3> QED BY <3>1
  <2>5. PICK q : q = o[k]
    OBVIOUS
  <2>6. q \in Seq(V) /\ ToSet(q) = Before(k) \cap X /\ (Distinct(s) => Distinct(q))
    BY <1>4, <2>5
  <2>7. CASE s[i] \notin X
    <3>1. o[i] = q
      BY <2>3, <2>5, <2>7 DEF Picked
    <3>2. Before(i) \cap X = Before(k) \cap X
      BY <2>4, <2>7
    <3> HIDE DEF Before
    <3> QED BY <2>1, <2>2, <2>6, <3>1, <3>2
  <2>8. CASE s[i] \in X
    <3>1. PICK r : r = Append(q, s[i])
      OBVIOUS
    <3>2. o[i] = r
      BY <2>3, <2>5, <2>8, <3>1 DEF Picked
    <3>3. r \in Seq(V) /\ Len(r) = Len(q) + 1 /\ r[Len(q) + 1] = s[i]
          /\ \A j \in 1..Len(q) : r[j] = q[j]
      BY <2>2, <2>6, <3>1
    <3>4. ToSet(r) = ToSet(q) \cup {s[i]}
      BY <2>6, <3>1, QueueOfSeq, AppendQueue
    <3>5. ToSet(r) = Before(i) \cap X
      <4> HIDE DEF Before
      <4> QED BY <2>4, <2>6, <2>8, <3>4
    <3>6. ASSUME Distinct(s) PROVE Distinct(r)
      <4>1. s[i] \notin Before(k)
        <5>1. \A j \in 1..k : j \in 1..Len(s) /\ j # i
          BY <1>1, <2>1, <2>2
        <5> QED BY <2>2, <3>6, <5>1 DEF Distinct
      <4>2. \A j \in 1..Len(q) : q[j] # s[i]
        <5>1. \A j \in 1..Len(q) : q[j] \in ToSet(q)
          BY <2>6 DEF ToSet
        <5> HIDE DEF Before
        <5> QED BY <2>6, <4>1, <5>1
      <4>3. Distinct(q) /\ Len(q) \in Nat
        BY <2>6, <3>6
      <4>4. \A j \in 1..Len(r) : j \in 1..Len(q) \/ j = Len(q) + 1
        BY <3>3, <4>3
      <4> QED BY <3>3, <4>2, <4>3, <4>4 DEF Distinct
    <3> HIDE DEF Before
    <3> QED BY <2>1, <2>2, <3>2, <3>3, <3>5, <3>6
  <2> QED BY <2>7, <2>8
<1> HIDE DEF T
<1>5. \A k \in 0..Len(s) : k \in T
  BY <1>1, <1>3, <1>4, Induction
<1>6. Len(s) \in T
  BY <1>1, <1>5
<1>7. Before(Len(s)) = ToSet(s)
  BY <1>1 DEF ToSet
<1> QED BY <1>2, <1>6, <1>7 DEF T

\* All elements are in X.
LEMMA OnlyAll ==
  ASSUME NEW V, NEW s \in Seq(V), NEW X, ToSet(s) \subseteq X
  PROVE  Only(s, X) = s
<1> DEFINE o == OnlyTrace(s, X)
           T == {k \in 0..Len(s) : /\ o[k] \in Seq(V) /\ Len(o[k]) = k
                                   /\ \A j \in 1..k : o[k][j] = s[j]}
<1>1. Len(s) \in Nat /\ DOMAIN s = 1..Len(s) /\ \A k \in 1..Len(s) : s[k] \in V /\ s[k] \in X
  BY DEF ToSet
<1>2. /\ Only(s, X) = o[Len(s)] /\ o[0] = <<>>
      /\ \A i \in 1..Len(s) : o[i] = Picked(o[i - 1], s[i], X)
  BY <1>1, OnlySteps
<1> HIDE DEF o
<1>3. 0 \in T
  <2>1. 0 \in 0..Len(s) /\ \A j \in 1..0 : FALSE
    BY <1>1
  <2>2. o[0] \in Seq(V) /\ Len(o[0]) = 0
    BY <1>2
  <2> QED BY <2>1, <2>2
<1>4. ASSUME NEW k \in 0..(Len(s) - 1), k \in T PROVE k + 1 \in T
  <2>1. PICK i : i = k + 1
    OBVIOUS
  <2>2. i \in 1..Len(s) /\ i \in 0..Len(s) /\ i - 1 = k /\ s[i] \in V /\ s[i] \in X
    BY <1>1, <2>1
  <2>3. PICK q : q = o[k]
    OBVIOUS
  <2>4. q \in Seq(V) /\ Len(q) = k /\ \A j \in 1..k : q[j] = s[j]
    BY <1>4, <2>3
  <2>5. o[i] = Append(q, s[i])
    BY <1>2, <2>2, <2>3 DEF Picked
  <2>6. PICK r : r = Append(q, s[i])
    OBVIOUS
  <2>7. r \in Seq(V) /\ Len(r) = i /\ r[i] = s[i] /\ \A j \in 1..k : r[j] = q[j]
    BY <2>1, <2>2, <2>4, <2>6
  <2>8. \A j \in 1..i : j \in 1..k \/ j = i
    BY <2>1
  <2>9. \A j \in 1..i : r[j] = s[j]
    BY <2>4, <2>7, <2>8
  <2> QED BY <2>1, <2>2, <2>5, <2>6, <2>7, <2>9
<1> HIDE DEF T
<1>5. \A k \in 0..Len(s) : k \in T
  BY <1>1, <1>3, <1>4, Induction
<1>6. Len(s) \in T
  BY <1>1, <1>5
<1> QED BY <1>1, <1>2, <1>6 DEF T

\* No element is in X.
LEMMA OnlyNone ==
  ASSUME NEW V, NEW s \in Seq(V), NEW X, ToSet(s) \cap X = {}
  PROVE  Only(s, X) = <<>>
<1>1. PICK r : r = Only(s, X)
  OBVIOUS
<1>2. r \in Seq(V) /\ ToSet(r) = {}
  BY <1>1, OnlyIs
<1>3. \A k \in 1..Len(r) : FALSE
  BY <1>2 DEF ToSet
<1>4. Len(r) = 0
  BY <1>2, <1>3
<1> QED BY <1>1, <1>2, <1>4

\* A list backwards.
LEMMA ReverseIs ==
  ASSUME NEW V, NEW s \in Seq(V)
  PROVE  /\ Reverse(s) \in Seq(V) /\ ToSet(Reverse(s)) = ToSet(s)
         /\ Distinct(s) => Distinct(Reverse(s))
<1>1. PICK n \in Nat : n = Len(s)
  OBVIOUS
<1>2. DOMAIN s = 1..n /\ \A k \in 1..n : s[k] \in V /\ (n - k) + 1 \in 1..n
  BY <1>1
<1>3. PICK r : r = Reverse(s)
  OBVIOUS
<1>4. r = [k \in 1..n |-> s[(n - k) + 1]]
  BY <1>1, <1>3 DEF Reverse
<1>5. r \in Seq(V) /\ Len(r) = n /\ DOMAIN r = 1..n /\ \A k \in 1..n : r[k] = s[(n - k) + 1]
  BY <1>2, <1>4
<1>6. \A k \in 1..n : \E j \in 1..n : k = (n - j) + 1
  <2> TAKE k \in 1..n
  <2>1. (n - k) + 1 \in 1..n /\ k = (n - ((n - k) + 1)) + 1
    OBVIOUS
  <2> QED BY <2>1
<1>7. ToSet(r) = ToSet(s)
  <2>1. ToSet(r) = {r[k] : k \in 1..n} /\ ToSet(s) = {s[k] : k \in 1..n}
    BY ONLY <1>2, <1>5 DEF ToSet
  <2>2. ASSUME NEW k \in 1..n PROVE \E j \in 1..n : r[j] = s[k]
    BY ONLY <1>5, <1>6, k \in 1..n
  <2>3. \A k \in 1..n : \E j \in 1..n : r[k] = s[j]
    BY ONLY <1>2, <1>5
  <2> QED BY ONLY <2>1, <2>2, <2>3
<1>8. ASSUME Distinct(s) PROVE Distinct(r)
  <2> SUFFICES ASSUME NEW j \in 1..n, NEW k \in 1..n, r[j] = r[k] PROVE j = k
    BY <1>5 DEF Distinct
  <2>1. (n - j) + 1 = (n - k) + 1
    BY <1>1, <1>2, <1>5, <1>8 DEF Distinct
  <2> QED BY <2>1
<1> QED BY <1>3, <1>5, <1>7, <1>8

\* The members of a finite set in some order, each once.
LEMMA SetToSeqIs ==
  ASSUME NEW V, IsFiniteSet(V)
  PROVE  SetToSeq(V) \in Seq(V) /\ ToSet(SetToSeq(V)) \subseteq V /\ Distinct(SetToSeq(V))
<1>1. Cardinality(V) \in Nat /\ ExistsBijection(1..Cardinality(V), V)
  BY FS_CardinalityType
<1>2. \E f \in [1..Cardinality(V) -> V] : IsInjective(f)
  BY <1>1 DEF ExistsBijection, Bijection, Injection, IsInjective
<1>3. SetToSeq(V) \in [1..Cardinality(V) -> V] /\ IsInjective(SetToSeq(V))
  BY <1>2 DEF SetToSeq
<1>4. PICK s : s = SetToSeq(V)
  OBVIOUS
<1>5. s \in Seq(V) /\ Len(s) = Cardinality(V) /\ DOMAIN s = 1..Len(s)
  BY <1>1, <1>3, <1>4
<1>6. Distinct(s)
  BY <1>3, <1>4, <1>5 DEF Distinct, IsInjective
<1> QED BY <1>4, <1>5, <1>6, QueueOfSeq

\* A list in two parts.
LEMMA Split ==
  ASSUME NEW V, NEW s \in Seq(V), NEW k \in 0..Len(s)
  PROVE  /\ SubSeq(s, 1, k) \in Seq(V) /\ SubSeq(s, k + 1, Len(s)) \in Seq(V)
         /\ s = SubSeq(s, 1, k) \o SubSeq(s, k + 1, Len(s))
         /\ ToSet(s) = ToSet(SubSeq(s, 1, k)) \cup ToSet(SubSeq(s, k + 1, Len(s)))
         /\ Distinct(s) => /\ Distinct(SubSeq(s, 1, k)) /\ Distinct(SubSeq(s, k + 1, Len(s)))
                           /\ ToSet(SubSeq(s, 1, k)) \cap ToSet(SubSeq(s, k + 1, Len(s))) = {}
<1>1. Len(s) \in Nat /\ k \in Nat /\ k <= Len(s) /\ \A j \in 1..Len(s) : s[j] \in V
  OBVIOUS
<1>2. PICK a : a = SubSeq(s, 1, k)
  OBVIOUS
<1>3. PICK b : b = SubSeq(s, k + 1, Len(s))
  OBVIOUS
<1>4. a \in Seq(V) /\ Len(a) = k /\ \A j \in 1..k : a[j] = s[j]
  BY <1>1, <1>2
<1>5. b \in Seq(V) /\ Len(b) = Len(s) - k /\ \A j \in 1..(Len(s) - k) : b[j] = s[k + j]
  BY <1>1, <1>3
<1>6. s = a \o b
  <2>1. PICK c : c = a \o b
    OBVIOUS
  <2>2. /\ c \in Seq(V) /\ Len(c) = Len(s)
        /\ \A j \in 1..Len(s) : c[j] = IF j <= k THEN a[j] ELSE b[j - k]
    BY <1>1, <1>4, <1>5, <2>1
  <2>3. ASSUME NEW j \in 1..Len(s) PROVE s[j] = c[j]
    <3>1. CASE j <= k
      BY <1>1, <1>4, <2>2, <3>1
    <3>2. CASE j > k
      <4>1. j - k \in 1..(Len(s) - k) /\ k + (j - k) = j
        BY <1>1, <3>2
      <4>2. b[j - k] = s[k + (j - k)]
        BY <1>5, <4>1
      <4> QED BY <1>1, <2>2, <3>2, <4>1, <4>2
    <3> QED BY <1>1, <3>1, <3>2
  <2>4. s = c
    BY <2>2, <2>3, SeqEqual
  <2> QED BY <2>1, <2>4
<1>7. ToSet(s) = ToSet(a) \cup ToSet(b)
  BY <1>4, <1>5, <1>6, QueueOfSeq, ConcatQueue
<1>8. ASSUME Distinct(s) PROVE Distinct(a) /\ Distinct(b) /\ ToSet(a) \cap ToSet(b) = {}
  <2>1. Distinct(a)
    BY <1>1, <1>4, <1>8 DEF Distinct
  <2>2. Distinct(b)
    <3> SUFFICES ASSUME NEW i \in 1..Len(b), NEW j \in 1..Len(b), b[i] = b[j] PROVE i = j
      BY DEF Distinct
    <3>1. k + i \in 1..Len(s) /\ k + j \in 1..Len(s) /\ s[k + i] = s[k + j]
      BY <1>1, <1>5
    <3>2. k + i = k + j
      BY <1>8, <3>1 DEF Distinct
    <3> QED BY <1>1, <1>5, <3>2
  <2>3. ASSUME NEW x \in ToSet(a), x \in ToSet(b) PROVE FALSE
    <3>1. PICK i \in 1..k : x = s[i]
      BY <1>4, <2>3 DEF ToSet
    <3>2. PICK j \in 1..(Len(s) - k) : x = s[k + j]
      BY <1>1, <1>5, <2>3 DEF ToSet
    <3>3. i \in 1..Len(s) /\ k + j \in 1..Len(s) /\ i # k + j
      BY <1>1
    <3> QED BY <1>8, <3>1, <3>2, <3>3 DEF Distinct
  <2> QED BY <2>1, <2>2, <2>3
<1> QED BY <1>2, <1>3, <1>4, <1>5, <1>6, <1>7, <1>8

-----------------------------------------------------------------------------
(***************************************************************************)
(* The states of a handler.                                                *)
(***************************************************************************)
LinkType ==
  [lstatus : {"consistent", "inconsistent"}, rstatus : {"consistent", "inconsistent"},
   lonline : BOOLEAN, ronline : BOOLEAN,
   reqs : Seq(Uid), back : Seq(OpType), aside : BOOLEAN,
   lpend : [Uid -> Stage], rpend : [Uid -> Stage],
   lopen : BOOLEAN, ropen : BOOLEAN, wopen : BOOLEAN,
   token : {"left", "right", "left coming", "right coming", "void"}, batch : Seq(OpType)]

Place == {"not our transaction", "request cannot be queued",
          "backwards operation cannot be queued", "invoice without origin", "amounts"}

StateType ==
  [link : [Link -> LinkType], opened : [Uid -> Stage],
   invoice : [open : BOOLEAN, incoming : SUBSET Uid],
   paid : [Link -> SUBSET Uid], panic : SUBSET Place]

\* S with another link i.
Put(S, i, l) == [S EXCEPT !.link = [S.link EXCEPT ![i] = l]]

\* What such a state consists of.
LEMMA PutIs ==
  ASSUME NEW S \in StateType, NEW i \in Link, NEW l \in LinkType
  PROVE  /\ Put(S, i, l) \in StateType
         /\ Put(S, i, l).link[i] = l
         /\ \A j \in Link : j # i => Put(S, i, l).link[j] = S.link[j]
         /\ Put(S, i, l).opened = S.opened /\ Put(S, i, l).invoice = S.invoice
         /\ Put(S, i, l).paid = S.paid /\ Put(S, i, l).panic = S.panic
<1> HIDE DEF LinkType
<1> QED BY DEF Put, StateType

\* The parts of a state.
LEMMA StateParts ==
  ASSUME NEW S \in StateType
  PROVE  /\ S.link \in [Link -> LinkType] /\ S.opened \in [Uid -> Stage]
         /\ S.invoice \in [open : BOOLEAN, incoming : SUBSET Uid]
         /\ S.invoice.incoming \in SUBSET Uid
         /\ S.paid \in [Link -> SUBSET Uid] /\ S.panic \in SUBSET Place
<1> HIDE DEF LinkType
<1> QED BY DEF StateType

\* The parts of a link.
LEMMA LinkParts ==
  ASSUME NEW l \in LinkType
  PROVE  /\ l.reqs \in Seq(Uid) /\ l.back \in Seq(OpType) /\ l.batch \in Seq(OpType)
         /\ l.lpend \in [Uid -> Stage] /\ l.rpend \in [Uid -> Stage]
         /\ l.lopen \in BOOLEAN /\ l.ropen \in BOOLEAN /\ l.wopen \in BOOLEAN
         /\ l.aside \in BOOLEAN
         /\ l.token \in {"left", "right", "left coming", "right coming", "void"}
BY DEF LinkType

\* The nodes and links of the chain.
LEMMA Chain ==
  /\ 1 \in Link /\ N - 1 \in Link /\ N \in Node /\ N \in Nat
  /\ \A n \in Node : n # 1 => n - 1 \in Link
  /\ \A n \in Node : n # N => n \in Link
  /\ \A i \in Link : i \in Node /\ i + 1 \in Node /\ i # N /\ i + 1 # 1 /\ (i + 1) - 1 = i
BY ChainAssumption DEF Link, Node

-----------------------------------------------------------------------------
(***************************************************************************)
(* Collects are only made of transactions that were committed to.          *)
(***************************************************************************)
CollectsIn(ops, c) == \A op \in ToSet(ops) : op.kind = "collect" => op.id \in c

LinkCollects(l, c) == CollectsIn(l.back, c) /\ CollectsIn(l.batch, c)

Collects(S, c) == \A i \in Link : LinkCollects(S.link[i], c) /\ S.paid[i] \subseteq c

\* Lists put together.
LEMMA CollectsConcat ==
  ASSUME NEW a \in Seq(OpType), NEW b \in Seq(OpType), NEW c, CollectsIn(a, c), CollectsIn(b, c)
  PROVE  CollectsIn(a \o b, c)
<1>1. ToSet(a \o b) = ToSet(a) \cup ToSet(b)
  BY QueueOfSeq, ConcatQueue
<1> QED BY <1>1 DEF CollectsIn

\* No operations.
LEMMA CollectsNothing == ASSUME NEW c PROVE CollectsIn(<<>>, c)
BY EmptyQueue DEF CollectsIn

\* Part of the operations.
LEMMA CollectsOnly ==
  ASSUME NEW a \in Seq(OpType), NEW X, NEW c, CollectsIn(a, c)
  PROVE  Only(a, X) \in Seq(OpType) /\ CollectsIn(Only(a, X), c)
<1>1. Only(a, X) \in Seq(OpType) /\ ToSet(Only(a, X)) \subseteq ToSet(a)
  BY OnlyIs
<1> QED BY <1>1 DEF CollectsIn

\* One operation for each of some transactions.
LEMMA CollectsForEach ==
  ASSUME NEW kind \in {"request", "response", "cancel", "collect"}, NEW us \in Seq(Uid), NEW c,
         kind # "collect" \/ ToSet(us) \subseteq c
  PROVE  ForEach(kind, us) \in Seq(OpType) /\ CollectsIn(ForEach(kind, us), c)
<1>1. /\ ForEach(kind, us) \in Seq(OpType)
      /\ \A op \in ToSet(ForEach(kind, us)) : \E u \in ToSet(us) : op = Makes(kind, u)
  BY ForEachIs
<1>2. \A u : Makes(kind, u).kind = kind /\ Makes(kind, u).id = u
  BY DEF Makes
<1> QED BY <1>1, <1>2 DEF CollectsIn

\* A state that is typed and whose collects are of c.
Sane(S, c) == S \in StateType /\ Collects(S, c)

\* Another link.
LEMMA PutSane ==
  ASSUME NEW S, NEW c, Sane(S, c), NEW i \in Link, NEW l \in LinkType, LinkCollects(l, c)
  PROVE  Sane(Put(S, i, l), c)
BY PutIs DEF Sane, Collects

\* A panic leaves the state as it is.
LEMMA PanicSane ==
  ASSUME NEW S, NEW c, Sane(S, c), NEW w \in Place
  PROVE  /\ Sane(Panic(S, w), c)
         /\ Panic(S, w).link = S.link /\ Panic(S, w).opened = S.opened
         /\ Panic(S, w).invoice = S.invoice /\ Panic(S, w).paid = S.paid
         /\ Panic(S, w).panic # {}
<1> HIDE DEF LinkType
<1>1. Panic(S, w) \in StateType
  BY DEF Panic, StateType, Sane
<1>2. /\ Panic(S, w).link = S.link /\ Panic(S, w).opened = S.opened
      /\ Panic(S, w).invoice = S.invoice /\ Panic(S, w).paid = S.paid
      /\ Panic(S, w).panic # {}
  BY DEF Panic, StateType, Sane
<1> QED BY <1>1, <1>2 DEF Sane, Collects

Pushed(l, ops, aside) == [l EXCEPT !.back = l.back \o ops, !.aside = aside]

\* Operations for the friend on the left.
LEMMA PushBackIs ==
  ASSUME NEW S \in StateType, NEW n \in Node, n # 1, NEW ops \in Seq(OpType),
         NEW T, T = PushBack(S, n, ops) \/ T = PushAside(S, n, ops)
  PROVE  \E aside \in BOOLEAN : /\ Pushed(S.link[n - 1], ops, aside) \in LinkType
                                /\ T = Put(S, n - 1, Pushed(S.link[n - 1], ops, aside))
<1>1. n - 1 \in Link /\ S.link \in [Link -> LinkType]
  BY Chain, StateParts
<1>2. PICK l \in LinkType : l = S.link[n - 1]
  BY <1>1
<1>3. l.back \in Seq(OpType) /\ l.back \o ops \in Seq(OpType) /\ l.aside \in BOOLEAN
  <2>1. l.back \in Seq(OpType) /\ l.aside \in BOOLEAN
    BY LinkParts
  <2> QED BY <2>1
<1>4. ASSUME NEW aside \in BOOLEAN PROVE Pushed(l, ops, aside) \in LinkType
  BY <1>3 DEF LinkType, Pushed
<1>5. CASE ops = <<>>
  <2>1. l.back \o ops = l.back
    BY <1>3, <1>5
  <2>2. Pushed(l, ops, l.aside) = l
    BY <2>1 DEF LinkType, Pushed
  <2>3. Put(S, n - 1, l) = S
    <3> HIDE DEF LinkType
    <3> QED BY <1>1, <1>2 DEF Put, StateType
  <2>4. T = S
    BY <1>5 DEF PushBack, PushAside
  <2>5. Pushed(l, ops, l.aside) \in LinkType /\ T = Put(S, n - 1, Pushed(l, ops, l.aside))
    BY <2>2, <2>3, <2>4
  <2> QED BY <1>2, <1>3, <2>5
<1>6. CASE ops # <<>>
  <2>1. PICK aside : T = Queued(S, n, ops, aside) /\ aside \in {TRUE, FALSE, l.aside}
    BY <1>2, <1>6 DEF PushBack, PushAside
  <2>2. aside \in BOOLEAN
    BY <1>3, <2>1
  <2>3. T = Put(S, n - 1, Pushed(l, ops, aside))
    BY <1>2, <2>1 DEF Queued, Put, Pushed
  <2> QED BY <1>2, <1>4, <2>2, <2>3
<1> QED BY <1>5, <1>6

\* They leave the state sane.
LEMMA PushBackSane ==
  ASSUME NEW S, NEW c, Sane(S, c), NEW n \in Node, NEW ops \in Seq(OpType), CollectsIn(ops, c),
         n # 1 \/ ops = <<>>, NEW T, T = PushBack(S, n, ops) \/ T = PushAside(S, n, ops)
  PROVE  Sane(T, c) /\ T.panic = S.panic
<1>1. CASE ops = <<>>
  BY <1>1 DEF PushBack, PushAside
<1>2. CASE n # 1
  <2>2. n - 1 \in Link /\ S.link[n - 1] \in LinkType /\ S \in StateType
    BY <1>2, Chain, StateParts DEF Sane
  <2>1. PICK aside \in BOOLEAN : /\ Pushed(S.link[n - 1], ops, aside) \in LinkType
                                 /\ T = Put(S, n - 1, Pushed(S.link[n - 1], ops, aside))
    BY <1>2, <2>2, PushBackIs
  <2>3. PICK l \in LinkType : l = Pushed(S.link[n - 1], ops, aside)
    BY <2>1
  <2>4. l.back = S.link[n - 1].back \o ops /\ l.batch = S.link[n - 1].batch
    BY <2>2, <2>3 DEF LinkType, Pushed
  <2>5. LinkCollects(l, c)
    BY <2>2, <2>4, CollectsConcat, LinkParts DEF Sane, Collects, LinkCollects
  <2> QED BY <2>1, <2>2, <2>3, <2>5, PutSane, PutIs
<1> QED BY <1>1, <1>2

\* Another set of open transactions.
LEMMA OpenedSane ==
  ASSUME NEW S, NEW c, Sane(S, c), NEW own \in [Uid -> Stage]
  PROVE  /\ Sane([S EXCEPT !.opened = own], c)
         /\ [S EXCEPT !.opened = own].link = S.link
         /\ [S EXCEPT !.opened = own].opened = own
         /\ [S EXCEPT !.opened = own].invoice = S.invoice
         /\ [S EXCEPT !.opened = own].paid = S.paid
         /\ [S EXCEPT !.opened = own].panic = S.panic
<1> HIDE DEF LinkType
<1>1. /\ [S EXCEPT !.opened = own] \in StateType
      /\ [S EXCEPT !.opened = own].link = S.link
      /\ [S EXCEPT !.opened = own].opened = own
      /\ [S EXCEPT !.opened = own].invoice = S.invoice
      /\ [S EXCEPT !.opened = own].paid = S.paid
      /\ [S EXCEPT !.opened = own].panic = S.panic
  BY DEF Sane, StateType
<1> QED BY <1>1 DEF Sane, Collects

\* What a node does with operations that came back, or that it makes itself.
LEMMA HandleBackSane ==
  ASSUME NEW S, NEW c, Sane(S, c), NEW n \in Link, NEW ops \in Seq(OpType), CollectsIn(ops, c)
  PROVE  Sane(HandleBack(S, n, ops), c)
<1>1. PICK own : own = Own(S, n, ops)
  OBVIOUS
<1>2. PICK foreign : foreign = Foreign(S, n, ops)
  OBVIOUS
<1>3. own \in Seq(OpType) /\ foreign \in Seq(OpType) /\ CollectsIn(foreign, c)
  BY <1>1, <1>2, CollectsOnly DEF Own, Foreign
<1>4. n = 1 => foreign = <<>>
  <2>1. ASSUME n = 1 PROVE foreign = <<>>
    <3>1. ToSet(ops) \cap {op \in Range(ops) : HasOrigin(S, n, op.id)} = {}
      BY <2>1 DEF HasOrigin
    <3> QED BY <1>2, <3>1, OnlyNone DEF Foreign
  <2> QED BY <2>1
<1>5. PICK mine : mine = IF n = 1 THEN After(own, S.opened) ELSE S.opened
  OBVIOUS
<1>6. mine \in [Uid -> Stage]
  BY <1>3, <1>5, AfterType, StateParts DEF Sane
<1>7. PICK after : after = [S EXCEPT !.opened = mine]
  OBVIOUS
<1>8. Sane(after, c)
  BY <1>6, <1>7, OpenedSane
<1>9. Sane(PushBack(after, n, foreign), c)
  BY <1>3, <1>4, <1>8, Chain, PushBackSane
<1>10. Sane(Panic(S, "not our transaction"), c)
  <2>1. "not our transaction" \in Place
    BY DEF Place
  <2> QED BY <2>1, PanicSane
<1>11. \/ HandleBack(S, n, ops) = PushBack(after, n, foreign)
       \/ HandleBack(S, n, ops) = Panic(S, "not our transaction")
  BY <1>1, <1>2, <1>5, <1>7 DEF HandleBack
<1> QED BY <1>9, <1>10, <1>11

\* Queued requests are canceled.
LEMMA CancelRequestsSane ==
  ASSUME NEW S, NEW c, Sane(S, c), NEW n \in Link
  PROVE  Sane(CancelRequests(S, n), c)
<1>1. PICK l \in LinkType : l = S.link[n]
  BY StateParts DEF Sane
<1>2. PICK m : m = [l EXCEPT !.reqs = <<>>]
  OBVIOUS
<1>3. m \in LinkType /\ m.back = l.back /\ m.batch = l.batch
  <2>1. <<>> \in Seq(Uid)
    OBVIOUS
  <2> QED BY <1>2, <2>1 DEF LinkType
<1>4. LinkCollects(m, c)
  BY <1>1, <1>3 DEF Sane, Collects, LinkCollects
<1>5. [S EXCEPT !.link[n].reqs = <<>>] = Put(S, n, m)
  BY <1>1, <1>2 DEF Put
<1>6. Sane(Put(S, n, m), c)
  BY <1>3, <1>4, PutSane
<1>7. l.reqs \in Seq(Uid)
  BY LinkParts
<1>8. ForEach("cancel", l.reqs) \in Seq(OpType) /\ CollectsIn(ForEach("cancel", l.reqs), c)
  BY <1>7, CollectsForEach
<1>9. Sane(HandleBack(Put(S, n, m), n, ForEach("cancel", l.reqs)), c)
  BY <1>6, <1>8, HandleBackSane
<1> QED BY <1>1, <1>5, <1>9 DEF CancelRequests

\* Pending transactions are canceled.
LEMMA CancelPendingSane ==
  ASSUME NEW S, NEW c, Sane(S, c), NEW n \in Link
  PROVE  Sane(CancelPending(S, n), c)
<1>1. PICK l \in LinkType : l = S.link[n]
  BY StateParts DEF Sane
<1>2. PICK m : m = [l EXCEPT !.lpend = NothingPending]
  OBVIOUS
<1>3. m \in LinkType /\ m.back = l.back /\ m.batch = l.batch
  <2>1. NothingPending \in [Uid -> Stage]
    BY DEF NothingPending, Stage
  <2> QED BY <1>2, <2>1 DEF LinkType
<1>4. LinkCollects(m, c)
  BY <1>1, <1>3 DEF Sane, Collects, LinkCollects
<1>5. [S EXCEPT !.link[n].lpend = NothingPending] = Put(S, n, m)
  BY <1>1, <1>2 DEF Put
<1>6. Sane(Put(S, n, m), c)
  BY <1>3, <1>4, PutSane
<1>7. PICK us : us = SetToSeq({u \in Uid : l.lpend[u] # "none"})
  OBVIOUS
<1>8. us \in Seq(Uid)
  <2>1. IsFiniteSet({u \in Uid : l.lpend[u] # "none"})
    BY UidAssumption, FS_Subset
  <2>2. us \in Seq({u \in Uid : l.lpend[u] # "none"})
    BY <1>7, <2>1, SetToSeqQueue
  <2> QED BY <2>2
<1>9. ForEach("cancel", us) \in Seq(OpType) /\ CollectsIn(ForEach("cancel", us), c)
  BY <1>8, CollectsForEach
<1>10. Sane(HandleBack(Put(S, n, m), n, ForEach("cancel", us)), c)
  BY <1>6, <1>9, HandleBackSane
<1> QED BY <1>1, <1>5, <1>7, <1>10 DEF CancelPending

\* Other transactions of the invoice.
LEMMA InvoiceSane ==
  ASSUME NEW S, NEW c, Sane(S, c), NEW inv \in [open : BOOLEAN, incoming : SUBSET Uid]
  PROVE  /\ Sane([S EXCEPT !.invoice = inv], c)
         /\ [S EXCEPT !.invoice = inv].link = S.link
         /\ [S EXCEPT !.invoice = inv].opened = S.opened
         /\ [S EXCEPT !.invoice = inv].invoice = inv
         /\ [S EXCEPT !.invoice = inv].paid = S.paid
         /\ [S EXCEPT !.invoice = inv].panic = S.panic
<1> HIDE DEF LinkType
<1>1. /\ [S EXCEPT !.invoice = inv] \in StateType
      /\ [S EXCEPT !.invoice = inv].link = S.link
      /\ [S EXCEPT !.invoice = inv].opened = S.opened
      /\ [S EXCEPT !.invoice = inv].invoice = inv
      /\ [S EXCEPT !.invoice = inv].paid = S.paid
      /\ [S EXCEPT !.invoice = inv].panic = S.panic
  BY DEF Sane, StateType
<1> QED BY <1>1 DEF Sane, Collects

\* Requests that arrive.
LEMMA HandleRequestsSane ==
  ASSUME NEW S, NEW c, Sane(S, c), NEW n \in Node, n # 1, NEW us \in Seq(Uid), NEW refused
  PROVE  Sane(HandleRequests(S, n, us, refused), c) /\ HandleRequests(S, n, us, refused).panic = S.panic
<1>1. PICK taken : taken = Only(us, Uid \ refused)
  OBVIOUS
<1>2. PICK cancels : cancels = ForEach("cancel", Only(us, refused))
  OBVIOUS
<1>3. taken \in Seq(Uid) /\ Only(us, refused) \in Seq(Uid) /\ ToSet(taken) \subseteq Uid
  <2>1. taken \in Seq(Uid) /\ Only(us, refused) \in Seq(Uid)
    BY <1>1, OnlyIs
  <2> QED BY <2>1, QueueOfSeq
<1>4. cancels \in Seq(OpType) /\ CollectsIn(cancels, c)
  BY <1>2, <1>3, CollectsForEach
<1>5. CASE n = N
  <2>1. PICK responses : responses = ForEach("response", Reverse(taken))
    OBVIOUS
  <2>2. Reverse(taken) \in Seq(Uid)
    BY <1>3, ReverseIs
  <2>3. responses \in Seq(OpType) /\ CollectsIn(responses, c)
    BY <2>1, <2>2, CollectsForEach
  <2>4. cancels \o responses \in Seq(OpType) /\ CollectsIn(cancels \o responses, c)
    BY <1>4, <2>3, CollectsConcat, AfterConcat
  <2>5. PICK inv : inv = [S.invoice EXCEPT !.incoming = @ \cup Range(taken)]
    OBVIOUS
  <2>6. inv \in [open : BOOLEAN, incoming : SUBSET Uid]
    <3>1. Range(taken) \subseteq Uid
      BY <1>3 DEF Range, ToSet
    <3>2. S.invoice \in [open : BOOLEAN, incoming : SUBSET Uid]
      BY StateParts DEF Sane
    <3> QED BY <2>5, <3>1, <3>2
  <2>7. PICK S1 : S1 = [S EXCEPT !.invoice = inv]
    OBVIOUS
  <2>8. PICK ops : ops = cancels \o responses
    OBVIOUS
  <2>9. HandleRequests(S, n, us, refused) = PushBack(S1, n, ops)
    BY <1>1, <1>2, <1>5, <2>1, <2>5, <2>7, <2>8 DEF HandleRequests
  <2>10. Sane(S1, c) /\ S1.panic = S.panic
    BY <2>6, <2>7, InvoiceSane
  <2>11. Sane(PushBack(S1, n, ops), c) /\ PushBack(S1, n, ops).panic = S1.panic
    <3>1. ops \in Seq(OpType) /\ CollectsIn(ops, c)
      BY <2>4, <2>8
    <3>2. PICK T : T = PushBack(S1, n, ops)
      OBVIOUS
    <3>3. Sane(T, c) /\ T.panic = S1.panic
      BY ONLY n \in Node, n # 1, <2>10, <3>1, <3>2, PushBackSane
    <3> QED BY <3>2, <3>3
  <2> QED BY <2>9, <2>10, <2>11
<1>6. CASE n # N
  <2>1. n \in Link
    BY <1>6, Chain
  <2>2. PICK l \in LinkType : l = S.link[n]
    BY <2>1, StateParts DEF Sane
  <2>3. PICK m : m = [l EXCEPT !.reqs = @ \o taken]
    OBVIOUS
  <2>4. m \in LinkType /\ m.back = l.back /\ m.batch = l.batch
    <3>1. l.reqs \in Seq(Uid)
      BY LinkParts
    <3>2. l.reqs \o taken \in Seq(Uid)
      BY <1>3, <3>1
    <3> QED BY <2>3, <3>2 DEF LinkType
  <2>5. LinkCollects(m, c)
    BY <2>1, <2>2, <2>4 DEF Sane, Collects, LinkCollects
  <2>6. [S EXCEPT !.link[n].reqs = @ \o taken] = Put(S, n, m)
    BY <2>2, <2>3 DEF Put
  <2>7. Sane(Put(S, n, m), c) /\ Put(S, n, m).panic = S.panic
    BY <2>1, <2>4, <2>5, PutSane, PutIs DEF Sane
  <2>8. HandleRequests(S, n, us, refused) = PushBack(Put(S, n, m), n, cancels)
    BY <1>1, <1>2, <1>6, <2>6 DEF HandleRequests
  <2> QED BY <1>4, <2>7, <2>8, PushBackSane
<1> QED BY <1>5, <1>6

-----------------------------------------------------------------------------
(***************************************************************************)
(* sender.rs.                                                              *)
(***************************************************************************)
First(l, k) == SubSeq(l.reqs, 1, k)

Trusted(l, untrusted, k) == Only(First(l, k), Uid \ untrusted)

RequestsSent(l, untrusted, k, empty) ==
  LET ops   == ForEach("request", Trusted(l, untrusted, k))
      added == ForEach("request", Only(Trusted(l, untrusted, k), {u \in Uid : l.lpend[u] = "none"}))
      fit   == Fits(ops, l.lpend)
  IN  [l EXCEPT !.reqs = SubSeq(@, k + 1, Len(@)), !.lpend = After(added, @),
                !.token = IF ops = <<>> /\ ~empty THEN @
                          ELSE IF fit THEN "right coming" ELSE "void",
                !.batch = IF fit THEN ops ELSE <<>>]

BackSent(l) ==
  [l EXCEPT !.back = SubSeq(@, Room(l) + 1, Len(@)), !.aside = FALSE,
            !.rpend = After(SubSeq(l.back, 1, Room(l)), @),
            !.ropen = l.wopen, !.token = "left coming", !.batch = SubSeq(l.back, 1, Room(l))]

SendsRequests(l) == l.lstatus = "consistent" /\ l.lonline /\ l.token = "left"

SendsBack(l) == l.rstatus = "consistent" /\ l.ronline /\ l.token = "right"

SentWith(m, l, ops, added, rest, empty) ==
  /\ m \in LinkType /\ ops \in Seq(OpType)
  /\ m.lstatus = l.lstatus /\ m.rstatus = l.rstatus
  /\ m.reqs = rest /\ m.back = l.back
  /\ m.lpend = After(added, l.lpend) /\ m.rpend = l.rpend
  /\ m.lopen = l.lopen /\ m.ropen = l.ropen /\ m.wopen = l.wopen
  /\ Fits(ops, l.lpend) => /\ m.token = IF ops = <<>> /\ ~empty THEN l.token ELSE "right coming"
                           /\ m.batch = ops
  /\ m.batch \in {ops, <<>>}

\* What becomes of a link that requests are sent on.
LEMMA RequestsSentIs ==
  ASSUME NEW l \in LinkType, NEW untrusted, NEW k \in 0..Len(l.reqs), NEW empty
  PROVE  SentWith(RequestsSent(l, untrusted, k, empty), l, ForEach("request", Trusted(l, untrusted, k)),
                  ForEach("request", Only(Trusted(l, untrusted, k), {u \in Uid : l.lpend[u] = "none"})),
                  SubSeq(l.reqs, k + 1, Len(l.reqs)), empty)
<1>0. PICK ops : ops = ForEach("request", Trusted(l, untrusted, k))
  OBVIOUS
<1>1. l.reqs \in Seq(Uid) /\ l.lpend \in [Uid -> Stage]
  BY LinkParts
<1>2. PICK us : us = Trusted(l, untrusted, k)
  OBVIOUS
<1>3. PICK fresh : fresh = Only(us, {u \in Uid : l.lpend[u] = "none"})
  OBVIOUS
<1>4. PICK added : added = ForEach("request", fresh)
  OBVIOUS
<1>5. PICK rest : rest = SubSeq(l.reqs, k + 1, Len(l.reqs))
  OBVIOUS
<1>6. us \in Seq(Uid) /\ fresh \in Seq(Uid) /\ rest \in Seq(Uid)
  <2>1. First(l, k) \in Seq(Uid) /\ rest \in Seq(Uid)
    BY <1>1, <1>5, Split DEF First
  <2>2. us \in Seq(Uid)
    BY <1>2, <2>1, OnlyIs DEF Trusted
  <2> QED BY <1>3, <2>1, <2>2, OnlyIs
<1>7. ops \in Seq(OpType) /\ added \in Seq(OpType) /\ <<>> \in Seq(OpType)
  BY <1>0, <1>2, <1>4, <1>6, ForEachIs
<1>8. PICK q \in [Uid -> Stage] : q = After(added, l.lpend)
  BY <1>1, <1>7, AfterType
<1>9. PICK t \in {l.token, "right coming", "void"} :
         t = IF ops = <<>> /\ ~empty THEN l.token
             ELSE IF Fits(ops, l.lpend) THEN "right coming" ELSE "void"
  OBVIOUS
<1>10. PICK b \in {ops, <<>>} : b = IF Fits(ops, l.lpend) THEN ops ELSE <<>>
  OBVIOUS
<1>11. PICK m : m = [l EXCEPT !.reqs = rest, !.lpend = q, !.token = t, !.batch = b]
  OBVIOUS
<1>12. RequestsSent(l, untrusted, k, empty) = m
  BY <1>0, <1>2, <1>3, <1>4, <1>5, <1>8, <1>9, <1>10, <1>11 DEF RequestsSent
<1>13. t \in {"left", "right", "left coming", "right coming", "void"} /\ b \in Seq(OpType)
  BY <1>7, LinkParts
<1>14. /\ m \in LinkType /\ m.lstatus = l.lstatus /\ m.rstatus = l.rstatus
       /\ m.reqs = rest /\ m.back = l.back /\ m.lpend = q /\ m.rpend = l.rpend
       /\ m.lopen = l.lopen /\ m.ropen = l.ropen /\ m.wopen = l.wopen
       /\ m.token = t /\ m.batch = b
  BY <1>6, <1>11, <1>13 DEF LinkType
<1>15. SentWith(m, l, ops, added, rest, empty)
  BY <1>7, <1>8, <1>9, <1>10, <1>14 DEF SentWith
<1> QED BY <1>0, <1>2, <1>3, <1>4, <1>5, <1>12, <1>15

\* A batch holds no more than there is.
LEMMA RoomIs ==
  ASSUME NEW l \in LinkType
  PROVE  Room(l) \in 0..Len(l.back)
<1>1. Len(l.back) \in Nat
  <2>1. l.back \in Seq(OpType)
    BY LinkParts
  <2> QED BY <2>1
<1> QED BY <1>1, BatchAssumption DEF Room

\* The operations that go into the batch, and those that stay behind.
Batch(l) == SubSeq(l.back, 1, Room(l))

Rest(l) == SubSeq(l.back, Room(l) + 1, Len(l.back))

BackSentAs(m, l, ops, rest) ==
  /\ ops \in Seq(OpType) /\ rest \in Seq(OpType)
  /\ l.back = ops \o rest /\ ToSet(l.back) = ToSet(ops) \cup ToSet(rest)
  /\ m \in LinkType
  /\ m.lstatus = l.lstatus /\ m.rstatus = l.rstatus
  /\ m.reqs = l.reqs /\ m.back = rest
  /\ m.lpend = l.lpend /\ m.rpend = After(ops, l.rpend)
  /\ m.lopen = l.lopen /\ m.ropen = l.wopen /\ m.wopen = l.wopen
  /\ m.token = "left coming" /\ m.batch = ops

\* What becomes of a link that backwards operations are sent on.
LEMMA BackSentIs ==
  ASSUME NEW l \in LinkType, NEW ops, ops = Batch(l), NEW rest, rest = Rest(l)
  PROVE  BackSentAs(BackSent(l), l, ops, rest)
<1>1. l.back \in Seq(OpType) /\ l.rpend \in [Uid -> Stage] /\ l.wopen \in BOOLEAN
  BY LinkParts
<1>2. /\ ops \in Seq(OpType) /\ rest \in Seq(OpType)
      /\ l.back = ops \o rest /\ ToSet(l.back) = ToSet(ops) \cup ToSet(rest)
  <2>1. PICK b \in Seq(OpType) : b = l.back
    BY <1>1
  <2>2. PICK j \in 0..Len(b) : j = Room(l)
    BY <2>1, RoomIs
  <2>3. /\ SubSeq(b, 1, j) \in Seq(OpType) /\ SubSeq(b, j + 1, Len(b)) \in Seq(OpType)
        /\ b = SubSeq(b, 1, j) \o SubSeq(b, j + 1, Len(b))
        /\ ToSet(b) = ToSet(SubSeq(b, 1, j)) \cup ToSet(SubSeq(b, j + 1, Len(b)))
    BY ONLY b \in Seq(OpType), j \in 0..Len(b), Split
  <2> QED BY <2>1, <2>2, <2>3 DEF Batch, Rest
<1>3. PICK q \in [Uid -> Stage] : q = After(ops, l.rpend)
  BY <1>1, <1>2, AfterType
<1>4. PICK m : m = [l EXCEPT !.back = rest, !.aside = FALSE, !.rpend = q,
                             !.ropen = l.wopen, !.token = "left coming", !.batch = ops]
  OBVIOUS
<1>5. BackSent(l) = m
  BY <1>3, <1>4 DEF BackSent, Batch, Rest
<1>6. /\ m \in LinkType /\ m.lstatus = l.lstatus /\ m.rstatus = l.rstatus
      /\ m.reqs = l.reqs /\ m.back = rest /\ m.lpend = l.lpend /\ m.rpend = q
      /\ m.lopen = l.lopen /\ m.ropen = l.wopen /\ m.wopen = l.wopen
      /\ m.token = "left coming" /\ m.batch = ops
  BY <1>1, <1>2, <1>4 DEF LinkType
<1> QED BY <1>2, <1>3, <1>5, <1>6 DEF BackSentAs

\* How many requests may be tried.
Tries(S, n, k) == SendsRight(S, n) => k \in 0..Len(S.link[n].reqs)

SendsAs(R, S, n, untrusted, k, empty) ==
  \/ R = S
  \/ n # N /\ ~S.link[n].lopen /\ R = Panic(S, "request cannot be queued")
  \/ /\ n # N /\ SendsRequests(S.link[n]) /\ k \in 0..Len(S.link[n].reqs)
     /\ R = PushAside(Put(S, n, RequestsSent(S.link[n], untrusted, k, empty)), n,
                      Foreign(S, n, ForEach("cancel", Only(First(S.link[n], k), untrusted))))

\* The outcomes of sending requests.
LEMMA SendRequestsIs ==
  ASSUME NEW S, NEW n \in Node, NEW untrusted, NEW k, Tries(S, n, k), NEW empty
  PROVE  SendsAs(SendRequests(S, n, untrusted, k, empty), S, n, untrusted, k, empty)
<1>1. SendsRight(S, n) => n # N /\ SendsRequests(S.link[n]) /\ k \in 0..Len(S.link[n].reqs)
  BY ChainAssumption DEF SendsRight, SendsRequests, Node, Tries
<1> QED BY <1>1 DEF SendsAs, SendRequests, RequestsSent, Put, First, Trusted

\* The outcomes of sending backwards operations.
LEMMA SendBackIs ==
  ASSUME NEW S, NEW n \in Node, NEW empty
  PROVE  \/ SendBack(S, n, empty) = S
         \/ /\ n # 1 /\ SendsBack(S.link[n - 1])
            /\ ~Fits(SubSeq(S.link[n - 1].back, 1, Room(S.link[n - 1])), S.link[n - 1].rpend)
            /\ SendBack(S, n, empty) = Panic(S, "backwards operation cannot be queued")
         \/ /\ n # 1 /\ SendsBack(S.link[n - 1])
            /\ SendBack(S, n, empty) = Put(S, n - 1, BackSent(S.link[n - 1]))
BY DEF SendBack, SendsBack, BackSent, Put

\* Sending keeps a state sane.
LEMMA SendRequestsSane ==
  ASSUME NEW S, NEW c, Sane(S, c), NEW n \in Node, NEW untrusted, NEW k, Tries(S, n, k), NEW empty
  PROVE  Sane(SendRequests(S, n, untrusted, k, empty), c)
<1>0. PICK R : R = SendRequests(S, n, untrusted, k, empty)
  OBVIOUS
<1>1. CASE R = Panic(S, "request cannot be queued")
  <2>1. "request cannot be queued" \in Place
    BY DEF Place
  <2> QED BY <1>0, <1>1, <2>1, PanicSane
<1>2. CASE /\ n # N /\ SendsRequests(S.link[n]) /\ k \in 0..Len(S.link[n].reqs)
           /\ R = PushAside(Put(S, n, RequestsSent(S.link[n], untrusted, k, empty)), n,
                            Foreign(S, n, ForEach("cancel", Only(First(S.link[n], k), untrusted))))
  <2>1. n \in Link
    BY <1>2, Chain
  <2>2. PICK l \in LinkType : l = S.link[n]
    BY <2>1, StateParts DEF Sane
  <2>3. PICK ops : ops = ForEach("request", Trusted(l, untrusted, k))
    OBVIOUS
  <2>4. PICK m : m = RequestsSent(l, untrusted, k, empty)
    OBVIOUS
  <2>5. m \in LinkType /\ m.back = l.back /\ m.batch \in {ops, <<>>}
    <3>1. k \in 0..Len(l.reqs)
      BY <1>2, <2>2
    <3>2. SentWith(m, l, ops,
                   ForEach("request", Only(Trusted(l, untrusted, k), {u \in Uid : l.lpend[u] = "none"})),
                   SubSeq(l.reqs, k + 1, Len(l.reqs)), empty)
      BY <2>3, <2>4, <3>1, RequestsSentIs
    <3> QED BY <3>2 DEF SentWith
  <2>6. First(l, k) \in Seq(Uid)
    <3>1. l.reqs \in Seq(Uid) /\ k \in 0..Len(l.reqs)
      BY <1>2, <2>2, LinkParts
    <3> QED BY <3>1, Split DEF First
  <2>7. Trusted(l, untrusted, k) \in Seq(Uid) /\ Only(First(l, k), untrusted) \in Seq(Uid)
    BY <2>6, OnlyIs DEF Trusted
  <2>8. CollectsIn(ops, c)
    BY <2>3, <2>7, CollectsForEach
  <2>9. LinkCollects(m, c)
    <3>1. CollectsIn(m.batch, c)
      BY <2>5, <2>8, CollectsNothing
    <3> QED BY <2>1, <2>2, <2>5, <3>1 DEF Sane, Collects, LinkCollects
  <2>10. PICK S1 : S1 = Put(S, n, m)
    OBVIOUS
  <2>11. Sane(S1, c)
    BY <2>1, <2>5, <2>9, <2>10, PutSane
  <2>12. PICK cancels : cancels = ForEach("cancel", Only(First(l, k), untrusted))
    OBVIOUS
  <2>13. cancels \in Seq(OpType) /\ CollectsIn(cancels, c)
    BY <2>7, <2>12, CollectsForEach
  <2>14. PICK foreign : foreign = Foreign(S, n, cancels)
    OBVIOUS
  <2>15. foreign \in Seq(OpType) /\ CollectsIn(foreign, c)
    BY <2>13, <2>14, CollectsOnly DEF Foreign
  <2>16. n = 1 => foreign = <<>>
    <3>1. ASSUME n = 1 PROVE foreign = <<>>
      <4>1. ToSet(cancels) \cap {op \in Range(cancels) : HasOrigin(S, n, op.id)} = {}
        BY <3>1 DEF HasOrigin
      <4> QED BY <2>13, <2>14, <4>1, OnlyNone DEF Foreign
    <3> QED BY <3>1
  <2>17. R = PushAside(S1, n, foreign)
    BY <1>2, <2>2, <2>4, <2>10, <2>12, <2>14
  <2>18. Sane(R, c)
    BY <2>11, <2>15, <2>16, <2>17, PushBackSane
  <2> QED BY <1>0, <2>18
<1>3. \/ R = S
      \/ R = Panic(S, "request cannot be queued")
      \/ /\ n # N /\ SendsRequests(S.link[n]) /\ k \in 0..Len(S.link[n].reqs)
         /\ R = PushAside(Put(S, n, RequestsSent(S.link[n], untrusted, k, empty)), n,
                          Foreign(S, n, ForEach("cancel", Only(First(S.link[n], k), untrusted))))
  <2>1. SendsAs(R, S, n, untrusted, k, empty)
    BY <1>0, SendRequestsIs
  <2> QED BY <1>0, <2>1 DEF SendsAs
<1> QED BY <1>0, <1>1, <1>2, <1>3

\* The same of backwards operations.
LEMMA SendBackSane ==
  ASSUME NEW S, NEW c, Sane(S, c), NEW n \in Node, NEW empty
  PROVE  Sane(SendBack(S, n, empty), c)
<1>1. CASE SendBack(S, n, empty) = Panic(S, "backwards operation cannot be queued")
  <2>1. "backwards operation cannot be queued" \in Place
    BY DEF Place
  <2> QED BY <1>1, <2>1, PanicSane
<1>2. CASE n # 1 /\ SendBack(S, n, empty) = Put(S, n - 1, BackSent(S.link[n - 1]))
  <2>1. n - 1 \in Link
    BY <1>2, Chain
  <2>2. PICK l \in LinkType : l = S.link[n - 1]
    BY <2>1, StateParts DEF Sane
  <2>3. PICK ops : ops = Batch(l)
    OBVIOUS
  <2>4. PICK rest : rest = Rest(l)
    OBVIOUS
  <2>5. /\ BackSent(l) \in LinkType /\ BackSent(l).back = rest /\ BackSent(l).batch = ops
        /\ ToSet(l.back) = ToSet(ops) \cup ToSet(rest)
    BY <2>3, <2>4, BackSentIs DEF BackSentAs
  <2>6. LinkCollects(BackSent(l), c)
    <3>1. CollectsIn(l.back, c)
      BY <2>1, <2>2 DEF Sane, Collects, LinkCollects
    <3> QED BY <2>5, <3>1 DEF CollectsIn, LinkCollects
  <2> QED BY <1>2, <2>1, <2>2, <2>5, <2>6, PutSane
<1>3. \/ SendBack(S, n, empty) = S
      \/ SendBack(S, n, empty) = Panic(S, "backwards operation cannot be queued")
      \/ n # 1 /\ SendBack(S, n, empty) = Put(S, n - 1, BackSent(S.link[n - 1]))
  BY ONLY n \in Node, SendBackIs
<1> QED BY <1>1, <1>2, <1>3

-----------------------------------------------------------------------------
(***************************************************************************)
(* Friends that nobody has removed.  A link is in order if the two sides   *)
(* differ only by the batch that is on its way, what the right side has    *)
(* queued can be sent, and requests that wait are not pending.             *)
(***************************************************************************)
Synced(l) ==
  /\ l.lstatus = "consistent" /\ l.rstatus = "consistent"
  /\ l.token # "void"
  /\ l.token \in {"left", "right"} => l.batch = <<>> /\ l.lpend = l.rpend
  /\ l.token = "left coming" =>
       /\ NoRequests(l.batch) /\ Fits(l.batch, l.lpend)
       /\ l.rpend = After(l.batch, l.lpend)
  /\ l.token = "right coming" =>
       /\ AllRequests(l.batch) /\ Fits(l.batch, l.rpend)
       /\ l.lpend = After(l.batch, l.rpend)

CanReturn(l) == NoRequests(l.back) /\ Fits(l.back, l.rpend)

Waiting(l) == Distinct(l.reqs) /\ \A u \in ToSet(l.reqs) : l.lpend[u] = "none"

LinkOK(l) == Synced(l) /\ CanReturn(l) /\ Waiting(l)

\* Where transactions stand on link i once node i + 1 has sent what it queued.
Right(l) == After(l.back, l.rpend)

\* Where they come from at node n: its friend on the left, or its user.
Source(S, n) == IF n = 1 THEN S.opened ELSE Right(S.link[n - 1])

\* What a node has asked of its right it was asked for, and no answer was given.
Covers(q, l) ==
  \A u \in Uid : /\ u \in ToSet(l.reqs) => q[u] = "request"
                 /\ l.lpend[u] # "none" => q[u] = l.lpend[u]

\* Transactions that were not created are not open.
Unused(own, k) == \A u \in k : own[u] = "none"

\* What is in the invoice has been answered.
Answered(q, inv) == \A u \in inv.incoming : q[u] = "response"

Good(S, k) ==
  /\ \A i \in Link : LinkOK(S.link[i])
  /\ \A i \in Link : Covers(Source(S, i), S.link[i])
  /\ Unused(S.opened, k)
  /\ Answered(Right(S.link[N - 1]), S.invoice)

\* A handler of node n changes only its own links.
Beside(S, T, n) ==
  /\ \A i \in Link : i # n /\ i # n - 1 => T.link[i] = S.link[i]
  /\ n # 1 => /\ T.opened = S.opened
              /\ T.link[n - 1].reqs = S.link[n - 1].reqs
              /\ T.link[n - 1].lpend = S.link[n - 1].lpend
  /\ n # N => /\ T.invoice = S.invoice
              /\ Right(T.link[n]) = Right(S.link[n])

NodeOK(T, n, k) ==
  /\ n # 1 => LinkOK(T.link[n - 1])
  /\ n # N => LinkOK(T.link[n]) /\ Covers(Source(T, n), T.link[n])
  /\ n = 1 => Unused(T.opened, k)
  /\ n = N => Answered(Right(T.link[N - 1]), T.invoice)

\* It is enough to look at one node.
LEMMA GoodStep ==
  ASSUME NEW S, NEW T, NEW n \in Node, NEW k, NEW k2 \in SUBSET k,
         Good(S, k), Beside(S, T, n), NodeOK(T, n, k2)
  PROVE  Good(T, k2)
<1> USE DEF Good, Beside, NodeOK
<1>1. \A i \in Link : LinkOK(T.link[i])
  <2> TAKE i \in Link
  <2>2. i = n => n # N
    BY ChainAssumption DEF Node, Link
  <2>3. i = n - 1 => n # 1
    BY ChainAssumption DEF Node, Link
  <2> QED BY <2>2, <2>3
<1>2. \A i \in Link : Covers(Source(T, i), T.link[i])
  <2> TAKE i \in Link
  <2>1. CASE i = n
    <3>1. n # N
      BY <2>1, ChainAssumption DEF Node, Link
    <3> QED BY <2>1, <3>1
  <2>2. CASE i = n - 1
    <3>1. n # 1 /\ i # n /\ i - 1 # n /\ i - 1 # n - 1
      BY <2>2, ChainAssumption DEF Node, Link
    <3>2. Source(T, i) = Source(S, i)
      <4>1. CASE i = 1
        BY <3>1, <4>1 DEF Source
      <4>2. CASE i # 1
        <5>1. i - 1 \in Link
          BY <4>2, ChainAssumption DEF Link
        <5> QED BY <3>1, <4>2, <5>1 DEF Source
      <4> QED BY <4>1, <4>2
    <3>3. Covers(Source(S, i), S.link[i])
      OBVIOUS
    <3>4. T.link[i].reqs = S.link[i].reqs /\ T.link[i].lpend = S.link[i].lpend
      BY <2>2, <3>1
    <3> QED BY <3>2, <3>3, <3>4 DEF Covers
  <2>3. CASE i # n /\ i # n - 1
    <3>1. T.link[i] = S.link[i]
      BY <2>3
    <3>2. Source(T, i) = Source(S, i)
      <4>1. CASE i = 1
        <5>1. n # 1
          BY <2>3, <4>1
        <5> QED BY <4>1, <5>1 DEF Source
      <4>2. CASE i # 1 /\ i - 1 = n
        <5>1. n # N
          BY <4>2, ChainAssumption DEF Node, Link
        <5> QED BY <4>2, <5>1 DEF Source
      <4>3. CASE i # 1 /\ i - 1 # n
        <5>1. i - 1 \in Link /\ i - 1 # n - 1
          BY <2>3, <4>3, ChainAssumption DEF Link, Node
        <5> QED BY <4>3, <5>1 DEF Source
      <4> QED BY <4>1, <4>2, <4>3
    <3> QED BY <3>1, <3>2
  <2> QED BY <2>1, <2>2, <2>3
<1>3. Unused(T.opened, k2)
  BY DEF Unused
<1>4. Answered(Right(T.link[N - 1]), T.invoice)
  <2>1. CASE n = N
    BY <2>1
  <2>2. CASE n # N
    <3>1. N - 1 \in Link /\ N - 1 # n - 1
      BY <2>2, ChainAssumption DEF Node, Link
    <3>2. Right(T.link[N - 1]) = Right(S.link[N - 1])
      BY <2>2, <3>1
    <3> QED BY <2>2, <3>2
  <2> QED BY <2>1, <2>2
<1> QED BY <1>1, <1>2, <1>3, <1>4

\* A good state, seen from one node.
LEMMA GoodNode ==
  ASSUME NEW S, NEW k, Good(S, k), NEW n \in Node
  PROVE  NodeOK(S, n, k)
BY Chain DEF Good, NodeOK

-----------------------------------------------------------------------------
\* Operations that go back and have a source that they fit.
LEMMA Returned ==
  ASSUME NEW l \in LinkType, NEW ops \in Seq(OpType), LinkOK(l), NoRequests(ops), Fits(ops, Right(l)),
         NEW aside \in BOOLEAN, NEW m, m = Pushed(l, ops, aside)
  PROVE  /\ m \in LinkType /\ LinkOK(m) /\ Right(m) = After(ops, Right(l))
         /\ m.reqs = l.reqs /\ m.lpend = l.lpend
<1>1. l.back \in Seq(OpType) /\ l.rpend \in [Uid -> Stage]
  BY LinkParts
<1>2. l.back \o ops \in Seq(OpType)
  BY <1>1
<1>3. /\ m \in LinkType /\ m.back = l.back \o ops /\ m.rpend = l.rpend
      /\ m.lstatus = l.lstatus /\ m.rstatus = l.rstatus /\ m.token = l.token
      /\ m.batch = l.batch /\ m.lpend = l.lpend /\ m.reqs = l.reqs
  BY <1>2 DEF LinkType, Pushed
<1>4. Right(m) = After(ops, Right(l)) /\ Fits(m.back, m.rpend)
  BY <1>1, <1>3, AfterConcat DEF Right, LinkOK, CanReturn
<1>5. NoRequests(m.back)
  <2>1. ToSet(m.back) = ToSet(l.back) \cup ToSet(ops)
    BY <1>1, <1>3, QueueOfSeq, ConcatQueue
  <2> QED BY <2>1 DEF NoRequests, LinkOK, CanReturn
<1>6. Synced(m) /\ Waiting(m)
  BY <1>3 DEF LinkOK, Synced, Waiting
<1> QED BY <1>3, <1>4, <1>5, <1>6 DEF LinkOK, CanReturn

\* What is pending at the source has an origin that the node finds.
LEMMA OriginFound ==
  ASSUME NEW S \in StateType, NEW n \in Node, n # 1, LinkOK(S.link[n - 1]), NEW u \in Uid,
         Right(S.link[n - 1])[u] # "none"
  PROVE  HasOrigin(S, n, u) /\ S.link[n - 1].rpend[u] # "none"
<1>0. n - 1 \in Link
  BY Chain
<1>1. n > 1
  BY ChainAssumption DEF Node
<1>2. PICK l \in LinkType : l = S.link[n - 1]
  BY <1>0, StateParts
<1>3. l.back \in Seq(OpType) /\ l.rpend \in [Uid -> Stage]
  BY LinkParts
<1>4. l.rpend[u] # "none"
  BY <1>2, <1>3, NoneWithout DEF LinkOK, CanReturn, Right
<1> QED BY <1>1, <1>2, <1>4 DEF HasOrigin, LinkOK, Synced

\* Operations that fit are about pending transactions.
LEMMA FitsPending ==
  ASSUME NEW ops \in Seq(OpType), NEW p \in [Uid -> Stage], NoRequests(ops), Fits(ops, p),
         NEW op \in ToSet(ops)
  PROVE  op.id \in Uid /\ p[op.id] # "none"
<1>1. op.id \in Uid
  BY OpsTyped
<1> QED BY <1>1, NoneWithout DEF Without

\* The source of a node is a function of stages.
LEMMA SourceType ==
  ASSUME NEW S \in StateType, NEW n \in Node
  PROVE  Source(S, n) \in [Uid -> Stage]
<1>1. CASE n = 1
  BY <1>1, StateParts DEF Source
<1>2. CASE n # 1
  <2>1. PICK l \in LinkType : l = S.link[n - 1]
    BY <1>2, Chain, StateParts
  <2>2. l.back \in Seq(OpType) /\ l.rpend \in [Uid -> Stage]
    BY LinkParts
  <2> QED BY <1>2, <2>1, <2>2, AfterType DEF Source, Right
<1> QED BY <1>1, <1>2

FlagsSame(S, T) ==
  \A i \in Link : /\ T.link[i].lopen = S.link[i].lopen /\ T.link[i].ropen = S.link[i].ropen
                  /\ T.link[i].wopen = S.link[i].wopen

\* T is S after node n has passed on the operations.
Backed(S, T, n, ops) ==
  /\ T \in StateType
  /\ T.panic = S.panic /\ T.paid = S.paid /\ T.invoice = S.invoice
  /\ \A i \in Link : i # n - 1 => T.link[i] = S.link[i]
  /\ n # 1 => /\ T.opened = S.opened /\ LinkOK(T.link[n - 1])
              /\ T.link[n - 1].reqs = S.link[n - 1].reqs
              /\ T.link[n - 1].lpend = S.link[n - 1].lpend
              /\ T.link[n - 1].back = S.link[n - 1].back \o ops
              /\ T.link[n - 1].batch = S.link[n - 1].batch
  /\ Source(T, n) = After(ops, Source(S, n))
  /\ FlagsSame(S, T)

\* PushBack does that at a relay or the seller, and so does PushAside.
LEMMA PushBackBacks ==
  ASSUME NEW S \in StateType, NEW n \in Node, n # 1, NEW ops \in Seq(OpType), NoRequests(ops),
         LinkOK(S.link[n - 1]), Fits(ops, Source(S, n)),
         NEW T, T = PushBack(S, n, ops) \/ T = PushAside(S, n, ops)
  PROVE  Backed(S, T, n, ops)
<1>1. n - 1 \in Link /\ S.link[n - 1] \in LinkType
  BY Chain, StateParts
<1>2. PICK l \in LinkType : l = S.link[n - 1]
  BY <1>1
<1>3. PICK aside \in BOOLEAN : /\ Pushed(S.link[n - 1], ops, aside) \in LinkType
                               /\ T = Put(S, n - 1, Pushed(S.link[n - 1], ops, aside))
  BY PushBackIs
<1>4. PICK m : m = Pushed(l, ops, aside)
  OBVIOUS
<1>5. m \in LinkType /\ T = Put(S, n - 1, m)
  BY <1>2, <1>3, <1>4
<1>6. Source(S, n) = Right(l)
  BY <1>2 DEF Source
<1>7. /\ LinkOK(m) /\ Right(m) = After(ops, Right(l))
      /\ m.reqs = l.reqs /\ m.lpend = l.lpend
  <2>1. LinkOK(l) /\ Fits(ops, Right(l))
    BY <1>2, <1>6
  <2> QED BY ONLY <1>4, <2>1, l \in LinkType, ops \in Seq(OpType), aside \in BOOLEAN,
                  NoRequests(ops), Returned
<1>8. /\ m.back = l.back \o ops /\ m.batch = l.batch
      /\ m.lopen = l.lopen /\ m.ropen = l.ropen /\ m.wopen = l.wopen
  BY <1>4 DEF LinkType, Pushed
<1>9. /\ T \in StateType /\ T.link[n - 1] = m
      /\ \A j \in Link : j # n - 1 => T.link[j] = S.link[j]
      /\ T.opened = S.opened /\ T.invoice = S.invoice /\ T.paid = S.paid /\ T.panic = S.panic
  BY <1>1, <1>5, PutIs
<1>10. Source(T, n) = After(ops, Source(S, n))
  BY <1>6, <1>7, <1>9 DEF Source
<1>11. FlagsSame(S, T)
  BY <1>2, <1>8, <1>9 DEF FlagsSame
<1> QED BY <1>2, <1>7, <1>8, <1>9, <1>10, <1>11 DEF Backed

\* HandleBack finds every origin, or the open transaction of the buyer.
LEMMA HandleBackBacks ==
  ASSUME NEW S \in StateType, NEW n \in Link, NEW ops \in Seq(OpType), NoRequests(ops),
         n # 1 => LinkOK(S.link[n - 1]), Fits(ops, Source(S, n))
  PROVE  Backed(S, HandleBack(S, n, ops), n, ops)
<1>0. n \in Node /\ Source(S, n) \in [Uid -> Stage]
  BY Chain, SourceType
<1>1. CASE n = 1
  <2>1. \A op \in ToSet(ops) : ~HasOrigin(S, n, op.id)
    BY <1>1 DEF HasOrigin
  <2>2. Own(S, n, ops) = ops
    <3>1. ToSet(ops) \subseteq {op \in Range(ops) : ~HasOrigin(S, n, op.id)}
      BY <2>1 DEF Range, ToSet
    <3> QED BY <3>1, OnlyAll DEF Own
  <2>3. Foreign(S, n, ops) = <<>>
    <3>1. ToSet(ops) \cap {op \in Range(ops) : HasOrigin(S, n, op.id)} = {}
      BY <2>1
    <3> QED BY <3>1, OnlyNone DEF Foreign
  <2>4. PICK own : own = After(ops, S.opened)
    OBVIOUS
  <2>5. own \in [Uid -> Stage]
    BY <2>4, AfterType, StateParts
  <2>6. PICK T : T = [S EXCEPT !.opened = own]
    OBVIOUS
  <2>7. HandleBack(S, n, ops) = T
    <3>1. Fits(ops, S.opened)
      BY <1>1 DEF Source
    <3> QED BY <1>1, <2>2, <2>3, <2>4, <2>6, <3>1 DEF HandleBack, PushBack
  <2>8. /\ T \in StateType /\ T.link = S.link /\ T.opened = own
        /\ T.invoice = S.invoice /\ T.paid = S.paid /\ T.panic = S.panic
    <3> HIDE DEF LinkType
    <3> QED BY <2>5, <2>6 DEF StateType
  <2>9. Source(T, n) = After(ops, Source(S, n))
    BY <1>1, <2>4, <2>8 DEF Source
  <2> QED BY <1>1, <2>7, <2>8, <2>9 DEF Backed, FlagsSame
<1>2. CASE n # 1
  <2>1. \A op \in ToSet(ops) : HasOrigin(S, n, op.id)
    <3> TAKE op \in ToSet(ops)
    <3>1. op.id \in Uid /\ Source(S, n)[op.id] # "none"
      BY <1>0, FitsPending
    <3>2. Right(S.link[n - 1])[op.id] # "none"
      BY <1>2, <3>1 DEF Source
    <3> QED BY <1>0, <1>2, <3>1, <3>2, OriginFound
  <2>2. Own(S, n, ops) = <<>>
    <3>1. ToSet(ops) \cap {op \in Range(ops) : ~HasOrigin(S, n, op.id)} = {}
      BY <2>1
    <3> QED BY <3>1, OnlyNone DEF Own
  <2>3. Foreign(S, n, ops) = ops
    <3>1. ToSet(ops) \subseteq {op \in Range(ops) : HasOrigin(S, n, op.id)}
      BY <2>1 DEF Range, ToSet
    <3> QED BY <3>1, OnlyAll DEF Foreign
  <2>4. [S EXCEPT !.opened = S.opened] = S
    <3> HIDE DEF LinkType
    <3> QED BY DEF StateType
  <2>5. HandleBack(S, n, ops) = PushBack(S, n, ops)
    BY <1>2, <2>2, <2>3, <2>4, AfterNothing DEF HandleBack
  <2> QED BY <1>0, <1>2, <2>5, PushBackBacks
<1> QED BY <1>1, <1>2

\* Nothing to pass on.
LEMMA NothingBacks ==
  ASSUME NEW S \in StateType, NEW n \in Node, n # 1 => LinkOK(S.link[n - 1])
  PROVE  Backed(S, S, n, <<>>)
<1>1. n # 1 => S.link[n - 1].back = S.link[n - 1].back \o <<>>
  <2>1. ASSUME n # 1 PROVE S.link[n - 1].back \in Seq(OpType)
    BY <2>1, Chain, StateParts, LinkParts
  <2> QED BY <2>1
<1>2. Source(S, n) = After(<<>>, Source(S, n))
  BY AfterNothing
<1> QED BY <1>1, <1>2 DEF Backed, FlagsSame

-----------------------------------------------------------------------------
(***************************************************************************)
(* Handlers prepare a node and pass operations on.  S1 is the prepared     *)
(* state; q is where transactions stand at the source afterwards.          *)
(***************************************************************************)
Able(S1, n, q, k) ==
  /\ n # N => LinkOK(S1.link[n]) /\ Covers(q, S1.link[n])
  /\ n = 1 => Unused(q, k)
  /\ n = N => Answered(q, S1.invoice)

\* Such a handler leaves a good state.
LEMMA GoodBacked ==
  ASSUME NEW S, NEW S1, NEW T, NEW n \in Node, NEW ops, NEW k, NEW k2 \in SUBSET k,
         Good(S, k), Beside(S, S1, n), Backed(S1, T, n, ops),
         Able(S1, n, After(ops, Source(S1, n)), k2)
  PROVE  Good(T, k2)
<1>1. n # N => n \in Link /\ n # n - 1
  BY ChainAssumption, Chain DEF Node
<1>2. n # N => T.link[n] = S1.link[n]
  BY <1>1 DEF Backed
<1>3. Source(T, n) = After(ops, Source(S1, n))
  BY DEF Backed
<1>4. Beside(S, T, n)
  BY <1>2 DEF Beside, Backed
<1>5. n = 1 => Source(T, n) = T.opened
  BY DEF Source
<1>6. n = N => Source(T, n) = Right(T.link[N - 1])
  BY ChainAssumption DEF Source
<1>7. NodeOK(T, n, k2)
  <2>1. n # 1 => LinkOK(T.link[n - 1])
    BY DEF Backed
  <2>2. n # N => LinkOK(T.link[n]) /\ Covers(Source(T, n), T.link[n])
    BY <1>2, <1>3 DEF Able
  <2>3. n = 1 => Unused(T.opened, k2)
    BY <1>3, <1>5 DEF Able
  <2>4. n = N => Answered(Right(T.link[N - 1]), T.invoice)
    BY <1>3, <1>6 DEF Able, Backed
  <2> QED BY <2>1, <2>2, <2>3, <2>4 DEF NodeOK
<1> QED BY <1>4, <1>7, GoodStep

\* m is l, with another connection or another holder of the token.
Alike(l, m) ==
  /\ m.lstatus = l.lstatus /\ m.rstatus = l.rstatus
  /\ m.reqs = l.reqs /\ m.back = l.back /\ m.batch = l.batch
  /\ m.lpend = l.lpend /\ m.rpend = l.rpend
  /\ \/ m.token = l.token
     \/ m.token \in {"left", "right"} /\ l.token \in {"left", "right"}

\* That makes no difference.
LEMMA GoodAlike ==
  ASSUME NEW S, NEW T, NEW k, Good(S, k), T.opened = S.opened, T.invoice = S.invoice,
         \A i \in Link : Alike(S.link[i], T.link[i])
  PROVE  Good(T, k)
<1>1. \A i \in Link : LinkOK(T.link[i])
  <2> TAKE i \in Link
  <2>1. Alike(S.link[i], T.link[i]) /\ LinkOK(S.link[i])
    BY DEF Good
  <2> QED BY <2>1 DEF Alike, LinkOK, Synced, CanReturn, Waiting
<1>2. \A i \in Link : Right(T.link[i]) = Right(S.link[i])
  BY DEF Alike, Right
<1>3. \A i \in Link : Source(T, i) = Source(S, i)
  BY <1>2, Chain DEF Source
<1>4. \A i \in Link : Covers(Source(T, i), T.link[i])
  BY <1>3 DEF Good, Covers, Alike
<1> QED BY <1>1, <1>2, <1>4, Chain DEF Good

-----------------------------------------------------------------------------
(***************************************************************************)
(* What else a handler keeps: requests stay open, and no link forgets a    *)
(* collect.                                                                *)
(***************************************************************************)
AllOpen(S) == \A i \in Link : S.link[i].lopen /\ S.link[i].ropen /\ S.link[i].wopen

LinkOwed(l) == {u \in Uid : Makes("collect", u) \in ToSet(l.back) \cup ToSet(l.batch)}

\* Collects that node i has seen, or will see.
Owed(S, i) == S.paid[i] \cup LinkOwed(S.link[i])

Repaid(S) == \A i \in Link \ {1} : S.paid[i] \subseteq Owed(S, i - 1)

Remembers(S, T) ==
  /\ T.paid = S.paid
  /\ \A i \in Link : LinkOwed(S.link[i]) \subseteq LinkOwed(T.link[i])

Keeps(S, T) ==
  /\ T.panic = S.panic
  /\ AllOpen(S) => AllOpen(T)
  /\ Remembers(S, T)

Follows(S, T, k) == T \in StateType /\ Good(T, k) /\ Keeps(S, T)

\* One after the other.
LEMMA KeepsTwice ==
  ASSUME NEW S, NEW S1, NEW T, Keeps(S, S1), Keeps(S1, T)
  PROVE  Keeps(S, T)
BY DEF Keeps, Remembers

\* Relays stay repaid.
LEMMA RepaidKept ==
  ASSUME NEW S, NEW T, Remembers(S, T), Repaid(S)
  PROVE  Repaid(T)
<1> SUFFICES ASSUME NEW i \in Link \ {1} PROVE T.paid[i] \subseteq Owed(T, i - 1)
  BY DEF Repaid
<1>1. i - 1 \in Link
  BY Chain
<1>2. S.paid[i] \subseteq Owed(S, i - 1)
  BY DEF Repaid
<1> QED BY <1>1, <1>2 DEF Owed, Remembers

\* Passing operations on forgets nothing.
LEMMA BackedKeeps ==
  ASSUME NEW S \in StateType, NEW T, NEW n \in Node, NEW ops \in Seq(OpType), Backed(S, T, n, ops)
  PROVE  Keeps(S, T)
<1>1. AllOpen(S) => AllOpen(T)
  BY DEF Backed, FlagsSame, AllOpen
<1>2. ASSUME NEW i \in Link PROVE LinkOwed(S.link[i]) \subseteq LinkOwed(T.link[i])
  <2>1. CASE i # n - 1
    BY <2>1 DEF Backed
  <2>2. CASE i = n - 1
    <3>1. n # 1
      BY <2>2, ChainAssumption DEF Link
    <3>2. S.link[i].back \in Seq(OpType)
      BY StateParts, LinkParts
    <3>3. T.link[i].back = S.link[i].back \o ops /\ T.link[i].batch = S.link[i].batch
      BY <2>2, <3>1 DEF Backed
    <3>4. ToSet(S.link[i].back) \subseteq ToSet(T.link[i].back)
      BY <3>2, <3>3, QueueOfSeq, ConcatQueue
    <3> QED BY <3>3, <3>4 DEF LinkOwed
  <2> QED BY <2>1, <2>2
<1> QED BY <1>1, <1>2 DEF Keeps, Remembers, Backed

\* A good state, and nothing done.
LEMMA FollowsSelf ==
  ASSUME NEW S \in StateType, NEW k, Good(S, k)
  PROVE  Follows(S, S, k)
BY DEF Follows, Keeps, Remembers

\* What becomes of a link whose queue is sent.
LEMMA BackSentOK ==
  ASSUME NEW l \in LinkType, NEW m, m = BackSent(l), LinkOK(l), SendsBack(l)
  PROVE  /\ m \in LinkType /\ LinkOK(m) /\ Right(m) = Right(l)
         /\ m.reqs = l.reqs /\ m.lpend = l.lpend
         /\ l.lopen /\ l.ropen /\ l.wopen => m.lopen /\ m.ropen /\ m.wopen
         /\ LinkOwed(l) \subseteq LinkOwed(m)
<1>0. PICK ops : ops = Batch(l)
  OBVIOUS
<1>00. PICK rest : rest = Rest(l)
  OBVIOUS
<1>1. /\ ops \in Seq(OpType) /\ rest \in Seq(OpType)
      /\ l.back = ops \o rest /\ ToSet(l.back) = ToSet(ops) \cup ToSet(rest)
      /\ m \in LinkType
      /\ m.lstatus = l.lstatus /\ m.rstatus = l.rstatus
      /\ m.reqs = l.reqs /\ m.back = rest
      /\ m.lpend = l.lpend /\ m.rpend = After(ops, l.rpend)
      /\ m.lopen = l.lopen /\ m.ropen = l.wopen /\ m.wopen = l.wopen
      /\ m.token = "left coming" /\ m.batch = ops
  <2>1. BackSentAs(m, l, ops, rest)
    BY <1>0, <1>00, BackSentIs
  <2> QED BY <2>1 DEF BackSentAs
<1>2. l.token = "right" /\ l.batch = <<>> /\ l.lpend = l.rpend
  BY DEF SendsBack, LinkOK, Synced
<1>3. /\ Fits(ops, l.rpend) /\ Fits(rest, After(ops, l.rpend))
      /\ After(l.back, l.rpend) = After(rest, After(ops, l.rpend))
      /\ NoRequests(ops) /\ NoRequests(rest)
  <2>1. PICK p \in [Uid -> Stage] : p = l.rpend
    BY LinkParts
  <2>2. Fits(ops \o rest, p) /\ NoRequests(l.back)
    BY <1>1, <2>1 DEF LinkOK, CanReturn
  <2>3. Fits(ops, p) /\ Fits(rest, After(ops, p)) /\ After(ops \o rest, p) = After(rest, After(ops, p))
    <3>1. ops \in Seq(OpType) /\ rest \in Seq(OpType)
      BY <1>1
    <3> QED BY ONLY <2>2, <3>1, p \in [Uid -> Stage], AfterConcat
  <2>4. NoRequests(ops) /\ NoRequests(rest)
    BY <1>1, <2>2 DEF NoRequests
  <2> QED BY <1>1, <2>1, <2>3, <2>4
<1>4. Synced(m)
  BY <1>1, <1>2, <1>3 DEF LinkOK, Synced
<1>5. CanReturn(m) /\ Waiting(m)
  BY <1>1, <1>3 DEF LinkOK, CanReturn, Waiting
<1>6. Right(m) = Right(l)
  BY <1>1, <1>3 DEF Right
<1>7. LinkOwed(l) \subseteq LinkOwed(m)
  BY <1>1, <1>2, EmptyQueue DEF LinkOwed
<1> QED BY <1>1, <1>4, <1>5, <1>6, <1>7 DEF LinkOK

\* Another link, seen by the rest of the chain.
LEMMA PutKeeps ==
  ASSUME NEW S \in StateType, NEW i \in Link, NEW m \in LinkType,
         S.link[i].lopen /\ S.link[i].ropen /\ S.link[i].wopen => m.lopen /\ m.ropen /\ m.wopen,
         LinkOwed(S.link[i]) \subseteq LinkOwed(m)
  PROVE  Keeps(S, Put(S, i, m))
<1>1. PICK T : T = Put(S, i, m)
  OBVIOUS
<1>2. /\ T.link[i] = m /\ \A j \in Link : j # i => T.link[j] = S.link[j]
      /\ T.paid = S.paid /\ T.panic = S.panic
  BY <1>1, PutIs
<1>3. AllOpen(S) => AllOpen(T)
  BY <1>2 DEF AllOpen
<1>4. \A j \in Link : LinkOwed(S.link[j]) \subseteq LinkOwed(T.link[j])
  BY <1>2
<1> QED BY <1>1, <1>2, <1>3, <1>4 DEF Keeps, Remembers

\* Whatever is queued for the left can be sent.
LEMMA SendBackFollows ==
  ASSUME NEW S \in StateType, NEW k, Good(S, k), NEW n \in Node, NEW empty
  PROVE  Follows(S, SendBack(S, n, empty), k)
<1>1. CASE SendBack(S, n, empty) = S
  BY <1>1, FollowsSelf
<1>2. n # 1 => Fits(SubSeq(S.link[n - 1].back, 1, Room(S.link[n - 1])), S.link[n - 1].rpend)
  <2> SUFFICES ASSUME n # 1
               PROVE  Fits(SubSeq(S.link[n - 1].back, 1, Room(S.link[n - 1])), S.link[n - 1].rpend)
    OBVIOUS
  <2>1. n - 1 \in Link
    BY Chain
  <2>2. PICK l \in LinkType : l = S.link[n - 1]
    BY <2>1, StateParts
  <2>3. PICK ops : ops = Batch(l)
    OBVIOUS
  <2>4. PICK rest : rest = Rest(l)
    OBVIOUS
  <2>5. ops \in Seq(OpType) /\ rest \in Seq(OpType) /\ l.back = ops \o rest
    <3>1. BackSentAs(BackSent(l), l, ops, rest)
      BY ONLY <2>3, <2>4, l \in LinkType, BackSentIs
    <3> QED BY <3>1 DEF BackSentAs
  <2>6. PICK p \in [Uid -> Stage] : p = l.rpend
    BY LinkParts
  <2>7. Fits(ops \o rest, p)
    BY <2>1, <2>2, <2>5, <2>6 DEF Good, LinkOK, CanReturn
  <2>8. Fits(ops, p)
    BY <2>5, <2>7, AfterConcat
  <2> QED BY <2>2, <2>3, <2>6, <2>8 DEF Batch
<1>3. CASE /\ n # 1 /\ SendsBack(S.link[n - 1])
           /\ SendBack(S, n, empty) = Put(S, n - 1, BackSent(S.link[n - 1]))
  <2>1. n - 1 \in Link
    BY <1>3, Chain
  <2>2. PICK l \in LinkType : l = S.link[n - 1]
    BY <2>1, StateParts
  <2>3. PICK m : m = BackSent(l)
    OBVIOUS
  <2>4. LinkOK(l) /\ SendsBack(l)
    BY <1>3, <2>1, <2>2 DEF Good
  <2>5. /\ m \in LinkType /\ LinkOK(m) /\ Right(m) = Right(l)
        /\ m.reqs = l.reqs /\ m.lpend = l.lpend
        /\ l.lopen /\ l.ropen /\ l.wopen => m.lopen /\ m.ropen /\ m.wopen
        /\ LinkOwed(l) \subseteq LinkOwed(m)
    BY ONLY <2>3, <2>4, l \in LinkType, BackSentOK
  <2>6. PICK T : T = Put(S, n - 1, m)
    OBVIOUS
  <2>7. /\ T \in StateType /\ T.link[n - 1] = m
        /\ \A j \in Link : j # n - 1 => T.link[j] = S.link[j]
        /\ T.opened = S.opened /\ T.invoice = S.invoice
    BY <2>1, <2>5, <2>6, PutIs
  <2>8. Keeps(S, T)
    BY <2>1, <2>2, <2>5, <2>6, PutKeeps
  <2>9. n # N => n \in Link /\ n # n - 1
    BY ChainAssumption, Chain DEF Node
  <2>10. Beside(S, T, n)
    BY <1>3, <2>2, <2>5, <2>7, <2>9 DEF Beside
  <2>11. Source(T, n) = Source(S, n) /\ Right(T.link[n - 1]) = Right(S.link[n - 1])
    BY <1>3, <2>2, <2>5, <2>7 DEF Source
  <2>12. NodeOK(T, n, k)
    <3>1. NodeOK(S, n, k)
      BY GoodNode
    <3> QED BY <1>3, <2>5, <2>7, <2>9, <2>11, <3>1 DEF NodeOK
  <2>13. Good(T, k)
    BY <2>10, <2>12, GoodStep
  <2> QED BY <1>3, <2>2, <2>3, <2>6, <2>7, <2>8, <2>13 DEF Follows
<1> QED BY <1>1, <1>2, <1>3, SendBackIs

\* Requests that wait can be canceled.
LEMMA CancelsFit ==
  ASSUME NEW q \in [Uid -> Stage], NEW l \in LinkType, Covers(q, l), NEW us \in Seq(Uid), Distinct(us),
         ToSet(us) \subseteq ToSet(l.reqs)
  PROVE  /\ ForEach("cancel", us) \in Seq(OpType) /\ NoRequests(ForEach("cancel", us))
         /\ Fits(ForEach("cancel", us), q)
         /\ \A u \in ToSet(us) : q[u] = "request"
         /\ \A u \in Uid : u \notin ToSet(us) => After(ForEach("cancel", us), q)[u] = q[u]
<1>1. PICK ops : ops = ForEach("cancel", us)
  OBVIOUS
<1>2. ops \in Seq(OpType) /\ \A op : op \in ToSet(ops) <=> \E u \in ToSet(us) : op = Makes("cancel", u)
  BY <1>1, ForEachIs
<1>3. NoRequests(ops)
  BY <1>2 DEF NoRequests, Makes
<1>4. ToSet(us) \subseteq Uid
  BY QueueOfSeq
<1>5. \A u \in ToSet(us) : q[u] = "request"
  BY <1>4 DEF Covers
<1>6. Fits(ops, q)
  <2>1. \A u \in ToSet(us) : q[u] \in StageBefore("cancel")
    BY <1>5 DEF StageBefore
  <2> QED BY <1>1, <2>1, FitsForEach
<1>7. \A u \in Uid : u \notin ToSet(us) => After(ops, q)[u] = q[u]
  BY <1>1, AfterForEach
<1> QED BY <1>1, <1>2, <1>3, <1>5, <1>6, <1>7

\* Where transactions stand at the source when those in X are canceled.
SentCovers(q, r, X) == \A u \in Uid : u \notin X => r[u] = q[u]

\* What becomes of a link that requests are sent on.
LEMMA RequestsSentOK ==
  ASSUME NEW l \in LinkType, NEW untrusted, NEW j \in 0..Len(l.reqs), NEW empty,
         NEW m, m = RequestsSent(l, untrusted, j, empty), LinkOK(l), SendsRequests(l),
         NEW q, NEW r, Covers(q, l), SentCovers(q, r, ToSet(First(l, j)) \cap untrusted)
  PROVE  /\ m \in LinkType /\ LinkOK(m) /\ Right(m) = Right(l) /\ Covers(r, m)
         /\ l.lopen /\ l.ropen /\ l.wopen => m.lopen /\ m.ropen /\ m.wopen
         /\ LinkOwed(l) \subseteq LinkOwed(m)
<1>1. PICK us : us = Trusted(l, untrusted, j)
  OBVIOUS
<1>2. PICK ops : ops = ForEach("request", us)
  OBVIOUS
<1>3. PICK first : first = First(l, j)
  OBVIOUS
<1>4. PICK rest : rest = SubSeq(l.reqs, j + 1, Len(l.reqs))
  OBVIOUS
<1>5. l.reqs \in Seq(Uid) /\ l.lpend \in [Uid -> Stage]
  BY LinkParts
<1>6. /\ first \in Seq(Uid) /\ rest \in Seq(Uid) /\ ToSet(l.reqs) = ToSet(first) \cup ToSet(rest)
      /\ Distinct(first) /\ Distinct(rest) /\ ToSet(first) \cap ToSet(rest) = {}
  <2>1. Distinct(l.reqs)
    BY DEF LinkOK, Waiting
  <2> QED BY <1>3, <1>4, <1>5, <2>1, Split DEF First
<1>7. us \in Seq(Uid) /\ ToSet(us) = ToSet(first) \cap (Uid \ untrusted) /\ Distinct(us)
  BY <1>1, <1>3, <1>6, OnlyIs DEF Trusted
<1>8. \A u \in ToSet(l.reqs) : u \in Uid /\ l.lpend[u] = "none"
  BY <1>5, QueueOfSeq DEF LinkOK, Waiting
<1>9. Only(us, {u \in Uid : l.lpend[u] = "none"}) = us
  <2>1. ToSet(us) \subseteq {u \in Uid : l.lpend[u] = "none"}
    BY <1>6, <1>7, <1>8
  <2> QED BY <1>7, <2>1, OnlyAll
<1>10. SentWith(m, l, ops, ops, rest, empty)
  BY <1>1, <1>2, <1>4, <1>9, RequestsSentIs
<1>11. /\ ops \in Seq(OpType)
       /\ \A op : op \in ToSet(ops) <=> \E u \in ToSet(us) : op = Makes("request", u)
  BY <1>2, <1>7, ForEachIs
<1>12. AllRequests(ops)
  BY <1>11 DEF AllRequests, Makes
<1>13. Fits(ops, l.lpend)
  <2>1. \A u \in ToSet(us) : l.lpend[u] \in StageBefore("request")
    BY <1>6, <1>7, <1>8 DEF StageBefore
  <2> QED BY <1>2, <1>5, <1>7, <2>1, FitsForEach
<1>14. l.token = "left" /\ l.batch = <<>> /\ l.lpend = l.rpend
  BY DEF SendsRequests, LinkOK, Synced
<1>15. /\ m \in LinkType /\ m.lstatus = l.lstatus /\ m.rstatus = l.rstatus
       /\ m.reqs = rest /\ m.back = l.back
       /\ m.lpend = After(ops, l.lpend) /\ m.rpend = l.rpend
       /\ m.lopen = l.lopen /\ m.ropen = l.ropen /\ m.wopen = l.wopen
       /\ m.token = (IF ops = <<>> /\ ~empty THEN l.token ELSE "right coming") /\ m.batch = ops
  BY <1>10, <1>13 DEF SentWith
<1>16. Synced(m)
  <2>1. CASE ops = <<>> /\ ~empty
    <3>1. m.lpend = l.lpend
      BY <1>15, <2>1, AfterNothing
    <3> QED BY <1>14, <1>15, <2>1, <3>1 DEF LinkOK, Synced
  <2>2. CASE ~(ops = <<>> /\ ~empty)
    <3>1. m.token = "right coming"
      BY <1>15, <2>2
    <3> QED BY <1>12, <1>13, <1>14, <1>15, <3>1 DEF LinkOK, Synced
  <2> QED BY <2>1, <2>2
<1>17. CanReturn(m) /\ Right(m) = Right(l)
  BY <1>15 DEF LinkOK, CanReturn, Right
<1>18. ASSUME NEW u \in Uid
       PROVE  m.lpend[u] = IF u \in ToSet(us) THEN StageAfter("request") ELSE l.lpend[u]
  <2>1. PICK p \in [Uid -> Stage] : p = l.lpend
    BY <1>5
  <2>2. After(ForEach("request", us), p)[u] = IF u \in ToSet(us) THEN StageAfter("request") ELSE p[u]
    BY <1>7, AfterForEach
  <2> QED BY <1>2, <1>15, <2>1, <2>2
<1>19. Waiting(m)
  BY <1>6, <1>7, <1>8, <1>15, <1>18 DEF Waiting
<1>20. Covers(r, m)
  <2> SUFFICES ASSUME NEW u \in Uid
               PROVE  /\ u \in ToSet(m.reqs) => r[u] = "request"
                      /\ m.lpend[u] # "none" => r[u] = m.lpend[u]
    BY DEF Covers
  <2>1. ASSUME u \in ToSet(m.reqs) PROVE r[u] = "request"
    <3>1. u \in ToSet(l.reqs) /\ u \notin ToSet(first)
      BY <1>6, <1>15, <2>1
    <3> QED BY <1>3, <3>1 DEF Covers, SentCovers
  <2>2. ASSUME u \in ToSet(us) PROVE r[u] = m.lpend[u]
    <3>1. u \in ToSet(l.reqs) /\ u \notin untrusted
      BY <1>6, <1>7, <2>2
    <3>2. r[u] = "request"
      BY <3>1 DEF Covers, SentCovers
    <3> QED BY <1>18, <2>2, <3>2 DEF StageAfter
  <2>3. ASSUME u \notin ToSet(us), m.lpend[u] # "none" PROVE r[u] = m.lpend[u]
    <3>1. m.lpend[u] = l.lpend[u] /\ u \notin ToSet(l.reqs)
      BY <1>8, <1>18, <2>3
    <3>2. u \notin ToSet(First(l, j))
      BY <1>3, <1>6, <3>1
    <3> QED BY <2>3, <3>1, <3>2 DEF Covers, SentCovers
  <2> QED BY <2>1, <2>2, <2>3
<1>21. LinkOwed(l) \subseteq LinkOwed(m)
  BY <1>14, <1>15, EmptyQueue DEF LinkOwed
<1> QED BY <1>15, <1>16, <1>17, <1>19, <1>20, <1>21 DEF LinkOK

\* Operations whose transactions all have an origin.
LEMMA AllForeign ==
  ASSUME NEW S \in StateType, NEW n \in Node, n # 1, LinkOK(S.link[n - 1]),
         NEW us \in Seq(Uid), NEW kind \in {"request", "response", "cancel", "collect"},
         \A u \in ToSet(us) : Source(S, n)[u] # "none"
  PROVE  Foreign(S, n, ForEach(kind, us)) = ForEach(kind, us)
<1>1. PICK ops : ops = ForEach(kind, us)
  OBVIOUS
<1>2. ops \in Seq(OpType) /\ \A op : op \in ToSet(ops) <=> \E u \in ToSet(us) : op = Makes(kind, u)
  BY <1>1, ForEachIs
<1>3. ToSet(us) \subseteq Uid
  BY QueueOfSeq
<1>4. \A u \in ToSet(us) : HasOrigin(S, n, u)
  BY <1>3, OriginFound DEF Source
<1>5. \A op \in ToSet(ops) : HasOrigin(S, n, op.id)
  BY <1>2, <1>4 DEF Makes
<1>6. ToSet(ops) \subseteq {op \in Range(ops) : HasOrigin(S, n, op.id)}
  BY <1>5 DEF Range, ToSet
<1> QED BY <1>1, <1>2, <1>6, OnlyAll DEF Foreign

\* At the buyer no operation has one.
LEMMA NoneForeign ==
  ASSUME NEW S, NEW ops \in Seq(OpType)
  PROVE  Foreign(S, 1, ops) = <<>>
<1>1. ToSet(ops) \cap {op \in Range(ops) : HasOrigin(S, 1, op.id)} = {}
  BY DEF HasOrigin
<1> QED BY <1>1, OnlyNone DEF Foreign

\* Requests can be sent unless the friend has closed its requests.
LEMMA SendRequestsFollows ==
  ASSUME NEW S \in StateType, NEW k, Good(S, k), NEW n \in Node, NEW untrusted,
         NEW j, Tries(S, n, j), NEW empty
  PROVE  \/ Follows(S, SendRequests(S, n, untrusted, j, empty), k)
         \/ /\ SendRequests(S, n, untrusted, j, empty) = Panic(S, "request cannot be queued")
            /\ ~AllOpen(S)
<1>1. CASE SendRequests(S, n, untrusted, j, empty) = S
  BY <1>1, FollowsSelf
<1>2. ASSUME n # N, SendsRequests(S.link[n]), j \in 0..Len(S.link[n].reqs)
      PROVE  Follows(S, PushAside(Put(S, n, RequestsSent(S.link[n], untrusted, j, empty)), n,
                          Foreign(S, n, ForEach("cancel", Only(First(S.link[n], j), untrusted)))), k)
  <2>1. n \in Link /\ n # n - 1
    <3>1. n \in Link
      BY <1>2, Chain
    <3> QED BY ONLY <3>1, ChainAssumption DEF Link
  <2>2. PICK l \in LinkType : l = S.link[n]
    BY <2>1, StateParts
  <2>3. PICK q \in [Uid -> Stage] : q = Source(S, n)
    BY SourceType
  <2>4. LinkOK(l) /\ Covers(q, l) /\ SendsRequests(l)
    BY <1>2, <2>1, <2>2, <2>3 DEF Good
  <2>5. PICK us : us = Only(First(l, j), untrusted)
    OBVIOUS
  <2>6. /\ us \in Seq(Uid) /\ ToSet(us) = ToSet(First(l, j)) \cap untrusted /\ Distinct(us)
        /\ ToSet(us) \subseteq ToSet(l.reqs)
    <3>1. l.reqs \in Seq(Uid) /\ Distinct(l.reqs) /\ j \in 0..Len(l.reqs)
      BY <1>2, <2>2, <2>4, LinkParts DEF LinkOK, Waiting
    <3>2. First(l, j) \in Seq(Uid) /\ Distinct(First(l, j)) /\ ToSet(First(l, j)) \subseteq ToSet(l.reqs)
      <4>1. PICK reqs \in Seq(Uid) : reqs = l.reqs
        BY <3>1
      <4>2. j \in 0..Len(reqs) /\ Distinct(reqs)
        BY <3>1, <4>1
      <4>3. /\ SubSeq(reqs, 1, j) \in Seq(Uid)
            /\ ToSet(reqs) = ToSet(SubSeq(reqs, 1, j)) \cup ToSet(SubSeq(reqs, j + 1, Len(reqs)))
            /\ Distinct(reqs) => /\ Distinct(SubSeq(reqs, 1, j))
                                 /\ Distinct(SubSeq(reqs, j + 1, Len(reqs)))
        BY <4>2, Split
      <4> QED BY <4>1, <4>2, <4>3 DEF First
    <3> QED BY <2>5, <3>2, OnlyIs
  <2>7. PICK cancels : cancels = ForEach("cancel", us)
    OBVIOUS
  <2>8. /\ cancels \in Seq(OpType) /\ NoRequests(cancels) /\ Fits(cancels, q)
        /\ \A u \in ToSet(us) : q[u] = "request"
        /\ \A u \in Uid : u \notin ToSet(us) => After(cancels, q)[u] = q[u]
    BY <2>4, <2>6, <2>7, CancelsFit
  <2>9. PICK foreign : foreign = Foreign(S, n, cancels)
    OBVIOUS
  <2>10. n # 1 => LinkOK(S.link[n - 1])
    BY Chain DEF Good
  <2>11. foreign = IF n = 1 THEN <<>> ELSE cancels
    <3>1. CASE n = 1
      BY <2>8, <2>9, <3>1, NoneForeign
    <3>2. CASE n # 1
      <4>1. \A u \in ToSet(us) : Source(S, n)[u] # "none"
        BY <2>3, <2>8
      <4> QED BY <2>6, <2>7, <2>9, <2>10, <3>2, <4>1, AllForeign
    <3> QED BY <3>1, <3>2
  <2>12. PICK r : r = After(foreign, q)
    OBVIOUS
  <2>13. SentCovers(q, r, ToSet(First(l, j)) \cap untrusted)
    <3>1. CASE n = 1
      BY <2>11, <2>12, <3>1, AfterNothing DEF SentCovers
    <3>2. CASE n # 1
      BY <2>6, <2>8, <2>11, <2>12, <3>2 DEF SentCovers
    <3> QED BY <3>1, <3>2
  <2>14. PICK m : m = RequestsSent(l, untrusted, j, empty)
    OBVIOUS
  <2>15. /\ m \in LinkType /\ LinkOK(m) /\ Right(m) = Right(l) /\ Covers(r, m)
         /\ l.lopen /\ l.ropen /\ l.wopen => m.lopen /\ m.ropen /\ m.wopen
         /\ LinkOwed(l) \subseteq LinkOwed(m)
    <3>1. j \in 0..Len(l.reqs)
      BY <1>2, <2>2
    <3> QED BY ONLY <2>4, <2>13, <2>14, <3>1, l \in LinkType, RequestsSentOK
  <2>16. PICK S1 : S1 = Put(S, n, m)
    OBVIOUS
  <2>17. /\ S1 \in StateType /\ S1.link[n] = m
         /\ \A i \in Link : i # n => S1.link[i] = S.link[i]
         /\ S1.opened = S.opened /\ S1.invoice = S.invoice
    BY <2>1, <2>15, <2>16, PutIs
  <2>18. Keeps(S, S1)
    BY <2>1, <2>2, <2>15, <2>16, PutKeeps
  <2>19. n # 1 => n - 1 \in Link
    BY Chain
  <2>20. Source(S1, n) = q
    BY <2>1, <2>3, <2>17, <2>19 DEF Source
  <2>21. Beside(S, S1, n)
    BY <1>2, <2>1, <2>2, <2>15, <2>17, <2>19 DEF Beside
  <2>22. PICK T : T = PushAside(S1, n, foreign)
    OBVIOUS
  <2>23. n # 1 => LinkOK(S1.link[n - 1])
    BY <2>1, <2>10, <2>17, <2>19
  <2>24. Backed(S1, T, n, foreign) /\ foreign \in Seq(OpType)
    <3>1. CASE n = 1
      <4>1. foreign = <<>> /\ T = S1
        BY <2>11, <2>22, <3>1 DEF PushAside
      <4>2. <<>> \in Seq(OpType)
        OBVIOUS
      <4> QED BY <2>17, <2>23, <4>1, <4>2, NothingBacks
    <3>2. CASE n # 1
      BY <2>8, <2>11, <2>17, <2>20, <2>22, <2>23, <3>2, PushBackBacks
    <3> QED BY <3>1, <3>2
  <2>25. Able(S1, n, After(foreign, Source(S1, n)), k)
    <3>1. n = 1 => Unused(r, k)
      <4>1. ASSUME n = 1 PROVE r = S.opened
        BY <2>3, <2>11, <2>12, <4>1, AfterNothing DEF Source
      <4> QED BY <4>1 DEF Good
    <3> QED BY <1>2, <2>12, <2>15, <2>17, <2>20, <3>1 DEF Able
  <2>26. Good(T, k)
    BY <2>21, <2>24, <2>25, GoodBacked
  <2>27. T \in StateType /\ Keeps(S1, T)
    BY <2>17, <2>24, BackedKeeps DEF Backed
  <2>28. Follows(S, T, k)
    BY <2>18, <2>26, <2>27, KeepsTwice DEF Follows
  <2> QED BY <2>2, <2>5, <2>7, <2>9, <2>14, <2>16, <2>22, <2>28
<1>3. ASSUME n # N, ~S.link[n].lopen PROVE ~AllOpen(S)
  BY <1>3, Chain DEF AllOpen
<1>4. PICK R : R = SendRequests(S, n, untrusted, j, empty)
  OBVIOUS
<1>5. PICK P : P = PushAside(Put(S, n, RequestsSent(S.link[n], untrusted, j, empty)), n,
                     Foreign(S, n, ForEach("cancel", Only(First(S.link[n], j), untrusted))))
  OBVIOUS
<1>6. \/ R = S
      \/ n # N /\ ~S.link[n].lopen /\ R = Panic(S, "request cannot be queued")
      \/ n # N /\ SendsRequests(S.link[n]) /\ j \in 0..Len(S.link[n].reqs) /\ R = P
  <2>1. SendsAs(R, S, n, untrusted, j, empty)
    BY <1>4, SendRequestsIs
  <2> QED BY <1>4, <1>5, <2>1 DEF SendsAs
<1>7. CASE n # N /\ SendsRequests(S.link[n]) /\ j \in 0..Len(S.link[n].reqs) /\ R = P
  <2>1. Follows(S, P, k)
    BY <1>2, <1>5, <1>7
  <2> QED BY <1>4, <1>7, <2>1
<1>8. CASE n # N /\ ~S.link[n].lopen /\ R = Panic(S, "request cannot be queued")
  BY <1>3, <1>4, <1>8
<1>9. CASE R = S
  BY <1>1, <1>4, <1>9
<1> QED BY <1>6, <1>7, <1>8, <1>9

-----------------------------------------------------------------------------
(***************************************************************************)
(* The end of every handler.                                               *)
(***************************************************************************)
\* What is persisted.
LEMMA DoneIs ==
  ASSUME NEW S \in StateType, Done(S)
  PROVE  /\ S.panic = {} => State' = S /\ panicked' = panicked
         /\ S.panic # {} => State' = State /\ panicked' = S.panic
<1> HIDE DEF LinkType
<1> QED BY DEF Done, State, StateType

\* The outcomes of making messages.
LEMMA MessagesIs ==
  ASSUME NEW S, NEW n \in Node, NEW e, NEW f, Messages(S, n, e, f)
  PROVE  \/ \E untrusted, j : /\ Tries(S, n, j)
                              /\ Done(SendBack(SendRequests(S, n, untrusted, j, e), n, f))
         \/ Done(Panic(S, "amounts"))
<1>1. PICK untrusted \in Untrusted(S, n) :
        \E j \in Tried(S, n, untrusted) :
          \/ Done(SendBack(SendRequests(S, n, untrusted, j, e), n, f))
          \/ j > 0 /\ Done(Panic(S, "amounts"))
  BY DEF Messages
<1>2. PICK j \in Tried(S, n, untrusted) :
          \/ Done(SendBack(SendRequests(S, n, untrusted, j, e), n, f))
          \/ j > 0 /\ Done(Panic(S, "amounts"))
  BY <1>1
<1>3. Tries(S, n, j)
  BY <1>2 DEF Tries, Tried
<1> QED BY <1>2, <1>3

\* Messages are made of a sane state.
LEMMA MessagesSane ==
  ASSUME NEW S, NEW c, Sane(S, c), Sane(State, c), NEW n \in Node, NEW e, NEW f, Messages(S, n, e, f)
  PROVE  Sane(State', c)
<1>1. ASSUME NEW untrusted, NEW j, Tries(S, n, j),
             Done(SendBack(SendRequests(S, n, untrusted, j, e), n, f))
      PROVE  Sane(State', c)
  <2>1. PICK T : T = SendBack(SendRequests(S, n, untrusted, j, e), n, f)
    OBVIOUS
  <2>2. Sane(T, c)
    BY <1>1, <2>1, SendRequestsSane, SendBackSane
  <2>3. T \in StateType
    BY <2>2 DEF Sane
  <2>4. State' = T \/ State' = State
    BY <1>1, <2>1, <2>3, DoneIs
  <2> QED BY <2>2, <2>4
<1>2. CASE Done(Panic(S, "amounts"))
  <2>1. "amounts" \in Place
    BY DEF Place
  <2>2. Panic(S, "amounts") \in StateType /\ Panic(S, "amounts").panic # {}
    BY <2>1, PanicSane DEF Sane
  <2> QED BY <1>2, <2>2, DoneIs
<1> QED BY <1>1, <1>2, MessagesIs

\* A panic is not forgotten by the sender.
LEMMA SendBackPanics ==
  ASSUME NEW S \in StateType, NEW n \in Node, S.panic # {}, NEW empty
  PROVE  SendBack(S, n, empty).panic # {} /\ SendBack(S, n, empty) \in StateType
<1>1. CASE SendBack(S, n, empty) = S
  BY <1>1
<1>2. CASE SendBack(S, n, empty) = Panic(S, "backwards operation cannot be queued")
  <2>1. "backwards operation cannot be queued" \in Place
    BY DEF Place
  <2>2. PICK w \in Place : w = "backwards operation cannot be queued"
    BY <2>1
  <2> HIDE DEF LinkType, Place
  <2>3. Panic(S, w) \in StateType /\ Panic(S, w).panic # {}
    BY DEF Panic, StateType
  <2> QED BY <1>2, <2>2, <2>3
<1>3. CASE n # 1 /\ SendBack(S, n, empty) = Put(S, n - 1, BackSent(S.link[n - 1]))
  <2>1. n - 1 \in Link /\ S.link[n - 1] \in LinkType
    BY <1>3, Chain, StateParts
  <2>2. PICK m \in LinkType : m = BackSent(S.link[n - 1])
    <3>1. BackSentAs(BackSent(S.link[n - 1]), S.link[n - 1], Batch(S.link[n - 1]), Rest(S.link[n - 1]))
      BY <2>1, BackSentIs
    <3> QED BY <3>1 DEF BackSentAs
  <2> QED BY <1>3, <2>1, <2>2, PutIs
<1> QED BY <1>1, <1>2, <1>3, SendBackIs

\* Nobody panics, unless it is over amounts that nobody has checked.
Quiet == panicked' \subseteq panicked \cup {"amounts"}

\* Messages are made of a good state.
LEMMA MessagesKeep ==
  ASSUME NEW S \in StateType, NEW k, Good(S, k), Repaid(S), S.panic = {},
         Good(State, k), Repaid(State), NEW n \in Node, NEW e, NEW f, Messages(S, n, e, f)
  PROVE  /\ Good(State', k) /\ Repaid(State')
         /\ AllOpen(S) /\ AllOpen(State) => AllOpen(State') /\ Quiet
<1>1. ASSUME NEW untrusted, NEW j, Tries(S, n, j),
             Done(SendBack(SendRequests(S, n, untrusted, j, e), n, f))
      PROVE  /\ Good(State', k) /\ Repaid(State')
             /\ AllOpen(S) => AllOpen(State') /\ panicked' = panicked
  <2>1. PICK T1 : T1 = SendRequests(S, n, untrusted, j, e)
    OBVIOUS
  <2>2. PICK T : T = SendBack(T1, n, f)
    OBVIOUS
  <2>3. CASE Follows(S, T1, k)
    <3>1. T1 \in StateType /\ Good(T1, k) /\ Keeps(S, T1)
      BY <2>3 DEF Follows
    <3>2. T \in StateType /\ Good(T, k) /\ Keeps(T1, T)
      BY <2>2, <3>1, SendBackFollows DEF Follows
    <3>3. Keeps(S, T)
      BY <3>1, <3>2, KeepsTwice
    <3>4. Repaid(T)
      BY <3>3, RepaidKept DEF Keeps
    <3>5. T.panic = {} /\ (AllOpen(S) => AllOpen(T))
      BY <3>3 DEF Keeps, Remembers
    <3>6. State' = T /\ panicked' = panicked
      BY <1>1, <2>1, <2>2, <3>2, <3>5, DoneIs
    <3> QED BY <3>2, <3>4, <3>5, <3>6
  <2>4. CASE T1 = Panic(S, "request cannot be queued") /\ ~AllOpen(S)
    <3>1. "request cannot be queued" \in Place
      BY DEF Place
    <3>2. PICK w \in Place : w = "request cannot be queued"
      BY <3>1
    <3>3. T1 \in StateType /\ T1.panic # {}
      <4> HIDE DEF LinkType, Place
      <4>1. Panic(S, w) \in StateType /\ Panic(S, w).panic # {}
        BY DEF Panic, StateType
      <4> QED BY <2>4, <3>2, <4>1
    <3>4. T \in StateType /\ T.panic # {}
      BY <2>2, <3>3, SendBackPanics
    <3>5. State' = State
      BY <1>1, <2>1, <2>2, <3>4, DoneIs
    <3> QED BY <2>4, <3>5
  <2> QED BY <1>1, <2>1, <2>3, <2>4, SendRequestsFollows
<1>2. CASE Done(Panic(S, "amounts"))
  <2>1. PICK w \in Place : w = "amounts"
    BY DEF Place
  <2>2. Panic(S, w) \in StateType /\ Panic(S, w).panic = {w}
    <3> HIDE DEF LinkType, Place
    <3> QED BY DEF Panic, StateType
  <2>3. State' = State /\ panicked' = {w}
    BY <1>2, <2>1, <2>2, DoneIs
  <2> QED BY <2>1, <2>3 DEF Quiet
<1> QED BY <1>1, <1>2, MessagesIs DEF Quiet

\* The transactions that were not created yet become fewer.
LEMMA GoodFewer ==
  ASSUME NEW S, NEW k, NEW k2 \in SUBSET k, Good(S, k)
  PROVE  Good(S, k2)
BY DEF Good, Unused

\* More transactions are committed to.
LEMMA SaneMore ==
  ASSUME NEW S, NEW c, NEW c2, c \subseteq c2, Sane(S, c)
  PROVE  Sane(S, c2)
BY DEF Sane, Collects, LinkCollects, CollectsIn

-----------------------------------------------------------------------------
(***************************************************************************)
(* The handlers.  A state is prepared if messages can be made of it, and   *)
(* the result of a handler is as good as what it started from.             *)
(***************************************************************************)
Prepared(S, k) == k \in SUBSET Uid /\ S \in StateType /\ Good(S, k) /\ Repaid(S) /\ S.panic = {}

Result(k) ==
  /\ Good(State', k) /\ Repaid(State')
  /\ AllOpen(State) => AllOpen(State') /\ Quiet

\* A prepared state that messages are made of, or that is persisted as it is.
LEMMA Handled ==
  ASSUME NEW S, NEW k, NEW n \in Node, Prepared(S, k), Prepared(State, k),
         \/ CreateFriendMessages(S, n) \/ Messages(S, n, TRUE, FALSE)
         \/ Messages(S, n, FALSE, TRUE) \/ Done(S)
  PROVE  /\ Good(State', k) /\ Repaid(State')
         /\ AllOpen(S) /\ AllOpen(State) => AllOpen(State') /\ Quiet
<1>1. CASE CreateFriendMessages(S, n) \/ Messages(S, n, TRUE, FALSE) \/ Messages(S, n, FALSE, TRUE)
  BY <1>1, MessagesKeep DEF Prepared, CreateFriendMessages
<1>2. CASE Done(S)
  <2>1. State' = S /\ panicked' = panicked
    BY <1>2, DoneIs DEF Prepared
  <2> QED BY <2>1 DEF Prepared, Quiet
<1> QED BY <1>1, <1>2

\* A link that looks alike.
LEMMA AlikePrepared ==
  ASSUME NEW S, NEW k, Prepared(S, k), NEW i \in Link, NEW m \in LinkType, Alike(S.link[i], m)
  PROVE  Prepared(Put(S, i, m), k)
<1>1. PICK T : T = Put(S, i, m)
  OBVIOUS
<1>2. /\ T \in StateType /\ T.link[i] = m /\ \A j \in Link : j # i => T.link[j] = S.link[j]
      /\ T.opened = S.opened /\ T.invoice = S.invoice /\ T.paid = S.paid /\ T.panic = S.panic
  BY <1>1, PutIs DEF Prepared
<1>3. \A j \in Link : Alike(S.link[j], T.link[j])
  BY <1>2 DEF Alike
<1>4. Good(T, k)
  BY <1>2, <1>3, GoodAlike DEF Prepared
<1>5. Remembers(S, T)
  BY <1>2, <1>3 DEF Remembers, LinkOwed, Alike
<1> QED BY <1>1, <1>2, <1>4, <1>5, RepaidKept DEF Prepared

\* With the same requests open.
LEMMA PutOpen ==
  ASSUME NEW S \in StateType, NEW i \in Link, NEW m \in LinkType, AllOpen(S),
         m.lopen /\ m.ropen /\ m.wopen
  PROVE  AllOpen(Put(S, i, m))
<1>1. PICK T : T = Put(S, i, m)
  OBVIOUS
<1>2. T.link[i] = m /\ \A j \in Link : j # i => T.link[j] = S.link[j]
  BY <1>1, PutIs
<1> QED BY <1>1, <1>2 DEF AllOpen

-----------------------------------------------------------------------------
Emptied(l) == [l EXCEPT !.reqs = <<>>]

\* A link whose requests are canceled.
LEMMA EmptiedOK ==
  ASSUME NEW l \in LinkType, LinkOK(l)
  PROVE  /\ Emptied(l) \in LinkType /\ LinkOK(Emptied(l)) /\ Right(Emptied(l)) = Right(l)
         /\ Emptied(l).reqs = <<>> /\ Emptied(l).lpend = l.lpend
         /\ Emptied(l).lopen = l.lopen /\ Emptied(l).ropen = l.ropen /\ Emptied(l).wopen = l.wopen
         /\ LinkOwed(Emptied(l)) = LinkOwed(l)
<1>1. PICK m : m = Emptied(l)
  OBVIOUS
<1>2. <<>> \in Seq(Uid)
  OBVIOUS
<1>3. /\ m \in LinkType /\ m.reqs = <<>> /\ m.lpend = l.lpend /\ m.rpend = l.rpend
      /\ m.back = l.back /\ m.batch = l.batch /\ m.token = l.token
      /\ m.lstatus = l.lstatus /\ m.rstatus = l.rstatus
      /\ m.lopen = l.lopen /\ m.ropen = l.ropen /\ m.wopen = l.wopen
  BY <1>1, <1>2 DEF Emptied, LinkType
<1>4. Synced(m) /\ CanReturn(m) /\ Right(m) = Right(l) /\ LinkOwed(m) = LinkOwed(l)
  BY <1>3 DEF LinkOK, Synced, CanReturn, Right, LinkOwed
<1>5. Waiting(m)
  <2>1. ToSet(m.reqs) = {}
    BY <1>3, EmptyQueue
  <2>2. Len(m.reqs) = 0
    BY <1>3
  <2>3. Distinct(m.reqs)
    BY <2>2 DEF Distinct
  <2> QED BY <2>1, <2>3 DEF Waiting
<1> QED BY <1>1, <1>3, <1>4, <1>5 DEF LinkOK

\* All requests that wait are canceled, and the rest stays covered.
LEMMA EmptiedCovered ==
  ASSUME NEW l \in LinkType, LinkOK(l), NEW q \in [Uid -> Stage], Covers(q, l)
  PROVE  /\ ForEach("cancel", l.reqs) \in Seq(OpType) /\ NoRequests(ForEach("cancel", l.reqs))
         /\ Fits(ForEach("cancel", l.reqs), q)
         /\ \A u \in Uid : l.lpend[u] # "none" => After(ForEach("cancel", l.reqs), q)[u] = l.lpend[u]
         /\ Covers(After(ForEach("cancel", l.reqs), q), Emptied(l))
<1>1. l.reqs \in Seq(Uid) /\ Distinct(l.reqs)
  BY LinkParts DEF LinkOK, Waiting
<1>2. PICK us \in Seq(Uid) : us = l.reqs
  BY <1>1
<1>3. PICK ops : ops = ForEach("cancel", us)
  OBVIOUS
<1>4. /\ ops \in Seq(OpType) /\ NoRequests(ops) /\ Fits(ops, q)
      /\ \A u \in Uid : u \notin ToSet(us) => After(ops, q)[u] = q[u]
  BY <1>1, <1>2, <1>3, CancelsFit
<1>5. \A u \in Uid : l.lpend[u] # "none" => After(ops, q)[u] = l.lpend[u]
  BY <1>2, <1>4 DEF LinkOK, Waiting, Covers
<1>6. Covers(After(ops, q), Emptied(l))
  BY <1>5, EmptiedOK, EmptyQueue DEF Covers
<1> QED BY <1>2, <1>3, <1>4, <1>5, <1>6

\* cancel_pending_requests finds every origin.
LEMMA CancelRequestsBacks ==
  ASSUME NEW S \in StateType, NEW n \in Link, LinkOK(S.link[n]), n # 1 => LinkOK(S.link[n - 1]),
         ForEach("cancel", S.link[n].reqs) \in Seq(OpType),
         NoRequests(ForEach("cancel", S.link[n].reqs)),
         Fits(ForEach("cancel", S.link[n].reqs), Source(S, n))
  PROVE  /\ Put(S, n, Emptied(S.link[n])) \in StateType
         /\ Source(Put(S, n, Emptied(S.link[n])), n) = Source(S, n)
         /\ Backed(Put(S, n, Emptied(S.link[n])), CancelRequests(S, n), n,
                   ForEach("cancel", S.link[n].reqs))
<1>1. PICK l \in LinkType : l = S.link[n]
  BY StateParts
<1>2. PICK m \in LinkType : m = Emptied(l)
  BY <1>1, EmptiedOK
<1>3. PICK S1 : S1 = Put(S, n, m)
  OBVIOUS
<1>4. PICK ops \in Seq(OpType) : ops = ForEach("cancel", l.reqs)
  BY <1>1
<1>5. /\ S1 \in StateType /\ S1.opened = S.opened
      /\ \A j \in Link : j # n => S1.link[j] = S.link[j]
  BY <1>3, PutIs
<1>6. n # 1 => n - 1 \in Link /\ n - 1 # n
  BY Chain DEF Link
<1>7. Source(S1, n) = Source(S, n)
  BY <1>5, <1>6 DEF Source
<1>8. n # 1 => LinkOK(S1.link[n - 1])
  BY <1>5, <1>6
<1>9. Backed(S1, HandleBack(S1, n, ops), n, ops)
  BY <1>1, <1>4, <1>5, <1>7, <1>8, HandleBackBacks
<1>10. CancelRequests(S, n) = HandleBack(S1, n, ops)
  <2>1. [S EXCEPT !.link[n].reqs = <<>>] = S1
    BY <1>1, <1>2, <1>3 DEF Put, Emptied
  <2> QED BY <1>1, <1>4, <2>1 DEF CancelRequests
<1> QED BY <1>1, <1>2, <1>3, <1>4, <1>5, <1>7, <1>9, <1>10

\* In a good state.
LEMMA CancelRequestsPrepared ==
  ASSUME NEW S, NEW k, Prepared(S, k), NEW n \in Link
  PROVE  /\ Prepared(CancelRequests(S, n), k)
         /\ AllOpen(S) => AllOpen(CancelRequests(S, n))
<1>1. S \in StateType /\ Good(S, k) /\ n \in Node /\ n # N
  BY Chain DEF Prepared
<1>2. PICK l \in LinkType : l = S.link[n]
  BY <1>1, StateParts
<1>3. PICK q \in [Uid -> Stage] : q = Source(S, n)
  BY <1>1, SourceType
<1>4. LinkOK(l) /\ Covers(q, l) /\ (n # 1 => LinkOK(S.link[n - 1]))
  BY <1>1, <1>2, <1>3, Chain DEF Good
<1>5. PICK ops : ops = ForEach("cancel", l.reqs)
  OBVIOUS
<1>6. PICK m : m = Emptied(l)
  OBVIOUS
<1>7. ops \in Seq(OpType) /\ NoRequests(ops) /\ Fits(ops, q) /\ Covers(After(ops, q), m)
  BY <1>4, <1>5, <1>6, EmptiedCovered
<1>8. /\ m \in LinkType /\ LinkOK(m) /\ Right(m) = Right(l)
      /\ m.lopen = l.lopen /\ m.ropen = l.ropen /\ m.wopen = l.wopen
      /\ LinkOwed(m) = LinkOwed(l)
  BY <1>4, <1>6, EmptiedOK
<1>9. PICK S1 : S1 = Put(S, n, m)
  OBVIOUS
<1>10. PICK T : T = CancelRequests(S, n)
  OBVIOUS
<1>11. S1 \in StateType /\ Source(S1, n) = q /\ Backed(S1, T, n, ops)
  BY <1>1, <1>2, <1>3, <1>4, <1>5, <1>6, <1>7, <1>9, <1>10, CancelRequestsBacks
<1>12. /\ S1.link[n] = m /\ \A j \in Link : j # n => S1.link[j] = S.link[j]
       /\ S1.opened = S.opened /\ S1.invoice = S.invoice
  BY <1>1, <1>8, <1>9, PutIs
<1>13. n # 1 => n - 1 \in Link /\ n - 1 # n
  BY Chain DEF Link
<1>14. Beside(S, S1, n)
  BY <1>1, <1>2, <1>8, <1>12, <1>13 DEF Beside
<1>15. Able(S1, n, After(ops, Source(S1, n)), k)
  <2>1. ASSUME n = 1, NEW u \in k PROVE After(ops, q)[u] = "none"
    <3>1. q[u] = "none" /\ u \in Uid
      BY <1>1, <1>3, <2>1 DEF Good, Unused, Source, Prepared
    <3> QED BY <1>7, <2>1, <3>1, NoneWithout
  <2>2. n = 1 => Unused(After(ops, q), k)
    BY <2>1 DEF Unused
  <2> QED BY <1>1, <1>7, <1>8, <1>11, <1>12, <2>2 DEF Able
<1>16. Good(T, k)
  BY <1>1, <1>11, <1>14, <1>15, GoodBacked
<1>17. Keeps(S, S1)
  BY <1>1, <1>2, <1>8, <1>9, PutKeeps
<1>18. Keeps(S, T) /\ T \in StateType
  BY <1>1, <1>7, <1>11, <1>17, BackedKeeps, KeepsTwice DEF Backed
<1> QED BY <1>10, <1>16, <1>18, RepaidKept DEF Prepared, Keeps

-----------------------------------------------------------------------------
SameFlags(l, m) == m.lopen = l.lopen /\ m.ropen = l.ropen /\ m.wopen = l.wopen

\* Changes of one link that leave it alike.
LEMMA LinkChanges ==
  ASSUME NEW l \in LinkType, NEW b \in BOOLEAN, NEW t \in {"left", "right"}
  PROVE  /\ [l EXCEPT !.lonline = b] \in LinkType /\ Alike(l, [l EXCEPT !.lonline = b])
         /\ SameFlags(l, [l EXCEPT !.lonline = b])
         /\ [l EXCEPT !.ronline = b] \in LinkType /\ Alike(l, [l EXCEPT !.ronline = b])
         /\ SameFlags(l, [l EXCEPT !.ronline = b])
         /\ [l EXCEPT !.ronline = b, !.aside = FALSE] \in LinkType
         /\ Alike(l, [l EXCEPT !.ronline = b, !.aside = FALSE])
         /\ SameFlags(l, [l EXCEPT !.ronline = b, !.aside = FALSE])
         /\ [l EXCEPT !.wopen = b, !.aside = FALSE] \in LinkType
         /\ Alike(l, [l EXCEPT !.wopen = b, !.aside = FALSE])
         /\ [l EXCEPT !.token = t] \in LinkType
         /\ SameFlags(l, [l EXCEPT !.token = t])
         /\ l.token \in {"left", "right"} => Alike(l, [l EXCEPT !.token = t])
BY DEF LinkType, Alike, SameFlags

\* A handler that changes one link like that, and sends.
LEMMA AlikeResult ==
  ASSUME NEW k, Prepared(State, k), NEW i \in Link, NEW m \in LinkType, Alike(State.link[i], m),
         NEW n \in Node,
         \/ CreateFriendMessages(Put(State, i, m), n) \/ Messages(Put(State, i, m), n, TRUE, FALSE)
         \/ Messages(Put(State, i, m), n, FALSE, TRUE) \/ Done(Put(State, i, m))
  PROVE  /\ Good(State', k) /\ Repaid(State')
         /\ SameFlags(State.link[i], m) => Result(k)
<1>1. PICK S : S = Put(State, i, m)
  OBVIOUS
<1>2. Prepared(S, k)
  BY <1>1, AlikePrepared
<1>3. /\ Good(State', k) /\ Repaid(State')
      /\ AllOpen(S) /\ AllOpen(State) => AllOpen(State') /\ Quiet
  BY <1>1, <1>2, Handled
<1>4. ASSUME SameFlags(State.link[i], m), AllOpen(State) PROVE AllOpen(S)
  <2>1. m.lopen /\ m.ropen /\ m.wopen
    BY <1>4 DEF SameFlags, AllOpen
  <2> QED BY <1>1, <1>4, <2>1, PutOpen DEF Prepared
<1> QED BY <1>3, <1>4 DEF Result

\* The links of the state.
LEMMA StateLink ==
  ASSUME State \in StateType, NEW i \in Link
  PROVE  State.link[i] = link[i] /\ link[i] \in LinkType /\ State.link = link
<1>1. State.link = link
  BY DEF State
<1> QED BY <1>1, StateParts

\* The token is asked for.
LEMMA PassTokenKeeps ==
  ASSUME NEW k, Prepared(State, k), NEW i \in Link, PassToken(i)
  PROVE  Result(k)
<1>1. State \in StateType /\ i \in Node /\ i + 1 \in Node
  BY Chain DEF Prepared
<1>2. PICK l \in LinkType : l = State.link[i] /\ l = link[i]
  BY <1>1, StateLink
<1>3. CASE /\ l.token = "left"
           /\ CreateFriendMessages([State EXCEPT !.link[i].token = "right"], i + 1)
  <2>1. PICK m : m = [l EXCEPT !.token = "right"]
    OBVIOUS
  <2>2. m \in LinkType /\ Alike(l, m) /\ SameFlags(l, m)
    BY <1>3, <2>1, LinkChanges
  <2>3. [State EXCEPT !.link[i].token = "right"] = Put(State, i, m)
    BY <1>2, <2>1 DEF Put
  <2> QED BY <1>1, <1>2, <1>3, <2>2, <2>3, AlikeResult
<1>4. CASE /\ l.token = "right"
           /\ CreateFriendMessages([State EXCEPT !.link[i].token = "left"], i)
  <2>1. PICK m : m = [l EXCEPT !.token = "left"]
    OBVIOUS
  <2>2. m \in LinkType /\ Alike(l, m) /\ SameFlags(l, m)
    BY <1>4, <2>1, LinkChanges
  <2>3. [State EXCEPT !.link[i].token = "left"] = Put(State, i, m)
    BY <1>2, <2>1 DEF Put
  <2> QED BY <1>1, <1>2, <1>4, <2>2, <2>3, AlikeResult
<1> QED BY <1>2, <1>3, <1>4 DEF PassToken

\* A friend goes offline or comes online.
LEMMA LivenessKeeps ==
  ASSUME NEW k, Prepared(State, k), NEW i \in Link,
         LeftOffline(i) \/ RightOffline(i) \/ LeftOnline(i) \/ RightOnline(i)
  PROVE  Result(k)
<1>1. State \in StateType /\ i \in Node /\ i + 1 \in Node
  BY Chain DEF Prepared
<1>2. PICK l \in LinkType : l = State.link[i] /\ l = link[i]
  BY <1>1, StateLink
<1>3. CASE LeftOffline(i)
  <2>1. PICK m : m = [l EXCEPT !.lonline = FALSE]
    OBVIOUS
  <2>2. m \in LinkType /\ Alike(l, m) /\ SameFlags(l, m)
    BY <2>1, LinkChanges
  <2>3. PICK S : S = Put(State, i, m)
    OBVIOUS
  <2>4. [State EXCEPT !.link[i].lonline = FALSE] = S
    BY <1>2, <2>1, <2>3 DEF Put
  <2>5. CreateFriendMessages(CancelRequests(S, i), i)
    BY <1>3, <2>4 DEF LeftOffline
  <2>6. Prepared(S, k)
    BY <1>2, <2>2, <2>3, AlikePrepared
  <2>7. ASSUME AllOpen(State) PROVE AllOpen(S)
    <3>1. m.lopen /\ m.ropen /\ m.wopen
      BY <1>2, <2>2, <2>7 DEF SameFlags, AllOpen
    <3> QED BY <1>1, <2>2, <2>3, <2>7, <3>1, PutOpen
  <2>8. PICK T : T = CancelRequests(S, i)
    OBVIOUS
  <2>9. Prepared(T, k) /\ (AllOpen(S) => AllOpen(T))
    BY <2>6, <2>8, CancelRequestsPrepared
  <2>10. /\ Good(State', k) /\ Repaid(State')
         /\ AllOpen(T) /\ AllOpen(State) => AllOpen(State') /\ Quiet
    BY <1>1, <2>5, <2>8, <2>9, Handled
  <2> QED BY <2>7, <2>9, <2>10 DEF Result
<1>4. CASE RightOffline(i)
  <2>1. PICK m : m = [l EXCEPT !.ronline = FALSE]
    OBVIOUS
  <2>2. m \in LinkType /\ Alike(l, m) /\ SameFlags(l, m)
    BY <2>1, LinkChanges
  <2>3. [State EXCEPT !.link[i].ronline = FALSE] = Put(State, i, m)
    BY <1>2, <2>1 DEF Put
  <2>4. Done(Put(State, i, m))
    BY <1>4, <2>3 DEF RightOffline
  <2> QED BY <1>1, <1>2, <2>2, <2>4, AlikeResult
<1>5. CASE LeftOnline(i)
  <2>1. PICK m : m = [l EXCEPT !.lonline = TRUE]
    OBVIOUS
  <2>2. m \in LinkType /\ Alike(l, m) /\ SameFlags(l, m)
    BY <2>1, LinkChanges
  <2>3. [State EXCEPT !.link[i].lonline = TRUE] = Put(State, i, m)
    BY <1>2, <2>1 DEF Put
  <2>4. Messages(Put(State, i, m), i, TRUE, FALSE)
    BY <1>5, <2>3 DEF LeftOnline
  <2> QED BY <1>1, <1>2, <2>2, <2>4, AlikeResult
<1>6. CASE RightOnline(i)
  <2>1. PICK m : m = [l EXCEPT !.ronline = TRUE, !.aside = FALSE]
    OBVIOUS
  <2>2. m \in LinkType /\ Alike(l, m) /\ SameFlags(l, m)
    BY <2>1, LinkChanges
  <2>3. [State EXCEPT !.link[i].ronline = TRUE, !.link[i].aside = FALSE] = Put(State, i, m)
    BY <1>1, <1>2, <2>1 DEF Put
  <2>4. Messages(Put(State, i, m), i + 1, FALSE, TRUE)
    BY <1>6, <2>3 DEF RightOnline
  <2> QED BY <1>1, <1>2, <2>2, <2>4, AlikeResult
<1> QED BY <1>3, <1>4, <1>5, <1>6

\* Requests are closed or opened.
LEMMA SetRequestsStatusKeeps ==
  ASSUME NEW k, Prepared(State, k), NEW i \in Link, SetRequestsStatus(i)
  PROVE  Good(State', k) /\ Repaid(State')
<1>1. State \in StateType /\ i + 1 \in Node
  BY Chain DEF Prepared
<1>2. PICK l \in LinkType : l = State.link[i] /\ l = link[i]
  BY <1>1, StateLink
<1>3. PICK m : m = [l EXCEPT !.wopen = ~@, !.aside = FALSE]
  OBVIOUS
<1>4. m \in LinkType /\ Alike(l, m)
  <2>1. PICK b \in BOOLEAN : b = ~l.wopen
    BY LinkParts
  <2>2. m = [l EXCEPT !.wopen = b, !.aside = FALSE]
    BY <1>3, <2>1
  <2> QED BY <2>2, LinkChanges
<1>5. [State EXCEPT !.link[i].wopen = ~@, !.link[i].aside = FALSE] = Put(State, i, m)
  BY <1>2, <1>3 DEF Put
<1>6. CreateFriendMessages(Put(State, i, m), i + 1)
  BY <1>5 DEF SetRequestsStatus
<1> QED BY <1>1, <1>2, <1>4, <1>6, AlikeResult

\* Queues survive a restart.
LEMMA RestartKeeps ==
  ASSUME NEW k, Prepared(State, k), NEW n \in Node, Restart(n)
  PROVE  Result(k)
<1>1. State \in StateType /\ State.link = link
  BY DEF Prepared, State
<1>2. PICK ls : ls = [i \in Link |-> [link[i] EXCEPT !.lonline = @ /\ i # n, !.ronline = @ /\ i # n - 1]]
  OBVIOUS
<1>3. ASSUME NEW i \in Link
      PROVE  ls[i] \in LinkType /\ Alike(link[i], ls[i]) /\ SameFlags(link[i], ls[i])
  <2>1. PICK l \in LinkType : l = link[i]
    BY <1>1, StateLink
  <2>2. ls[i] = [l EXCEPT !.lonline = @ /\ i # n, !.ronline = @ /\ i # n - 1]
    BY <1>2, <2>1
  <2> QED BY <2>1, <2>2 DEF LinkType, Alike, SameFlags
<1>4. PICK T : T = [State EXCEPT !.link = ls]
  OBVIOUS
<1>5. /\ T \in StateType /\ T.link = ls /\ T.opened = State.opened /\ T.invoice = State.invoice
      /\ T.paid = State.paid /\ T.panic = State.panic
  <2>1. ls \in [Link -> LinkType]
    BY <1>2, <1>3
  <2> HIDE DEF LinkType
  <2> QED BY <1>1, <1>4, <2>1 DEF StateType
<1>6. Done(T)
  BY <1>2, <1>4 DEF Restart
<1>7. Good(T, k)
  BY <1>1, <1>3, <1>5, GoodAlike DEF Prepared
<1>8. Remembers(State, T)
  BY <1>1, <1>3, <1>5 DEF Remembers, LinkOwed, Alike
<1>9. AllOpen(State) => AllOpen(T)
  BY <1>1, <1>3, <1>5 DEF AllOpen, SameFlags
<1>10. Prepared(T, k)
  BY <1>5, <1>7, <1>8, RepaidKept DEF Prepared
<1> QED BY <1>6, <1>9, <1>10, Handled DEF Result

-----------------------------------------------------------------------------
\* Two lists without a transaction in common.
LEMMA DistinctConcat ==
  ASSUME NEW a \in Seq(Uid), NEW b \in Seq(Uid), Distinct(a), Distinct(b), ToSet(a) \cap ToSet(b) = {}
  PROVE  Distinct(a \o b)
<1>1. PICK c : c = a \o b
  OBVIOUS
<1>2. /\ Len(a) \in Nat /\ Len(b) \in Nat /\ Len(c) = Len(a) + Len(b)
      /\ \A k \in 1..Len(a) : c[k] = a[k]
      /\ \A k \in 1..Len(c) : k > Len(a) => k - Len(a) \in 1..Len(b) /\ c[k] = b[k - Len(a)]
  BY <1>1
<1>3. (\A k \in 1..Len(a) : a[k] \in ToSet(a)) /\ (\A k \in 1..Len(b) : b[k] \in ToSet(b))
  BY DEF ToSet
<1> SUFFICES ASSUME NEW j \in 1..Len(c), NEW k \in 1..Len(c), c[j] = c[k] PROVE j = k
  BY <1>1 DEF Distinct
<1>4. CASE j <= Len(a) /\ k <= Len(a)
  BY <1>2, <1>4 DEF Distinct
<1>5. CASE j > Len(a) /\ k > Len(a)
  <2>1. j - Len(a) = k - Len(a)
    BY <1>2, <1>5 DEF Distinct
  <2> QED BY <1>2, <2>1
<1>6. CASE j <= Len(a) /\ k > Len(a)
  <2>1. c[j] \in ToSet(a) /\ c[k] \in ToSet(b)
    BY <1>2, <1>3, <1>6
  <2> QED BY <2>1
<1>7. CASE j > Len(a) /\ k <= Len(a)
  <2>1. c[j] \in ToSet(b) /\ c[k] \in ToSet(a)
    BY <1>2, <1>3, <1>7
  <2> QED BY <2>1
<1> QED BY <1>2, <1>4, <1>5, <1>6, <1>7

Enqueued(l, us) == [l EXCEPT !.reqs = @ \o us]

\* From q to r the source has got requests for us; others that it had are as they were.
Requested(q, r, us) ==
  /\ \A u \in ToSet(us) : q[u] = "none" /\ r[u] = "request"
  /\ \A u \in Uid : u \notin ToSet(us) /\ q[u] # "none" => r[u] = q[u]

\* New requests wait for the friend on the right.
LEMMA EnqueuedOK ==
  ASSUME NEW l \in LinkType, LinkOK(l), NEW us \in Seq(Uid), Distinct(us), NEW q, NEW r,
         Covers(q, l), Requested(q, r, us)
  PROVE  /\ Enqueued(l, us) \in LinkType /\ LinkOK(Enqueued(l, us))
         /\ Right(Enqueued(l, us)) = Right(l) /\ Covers(r, Enqueued(l, us))
         /\ LinkOwed(Enqueued(l, us)) = LinkOwed(l) /\ SameFlags(l, Enqueued(l, us))
<1>1. PICK m : m = Enqueued(l, us)
  OBVIOUS
<1>2. l.reqs \in Seq(Uid) /\ l.lpend \in [Uid -> Stage]
  BY LinkParts
<1>3. l.reqs \o us \in Seq(Uid)
  BY <1>2
<1>4. /\ m \in LinkType /\ m.reqs = l.reqs \o us /\ m.lpend = l.lpend /\ m.rpend = l.rpend
      /\ m.back = l.back /\ m.batch = l.batch /\ m.token = l.token
      /\ m.lstatus = l.lstatus /\ m.rstatus = l.rstatus
      /\ m.lopen = l.lopen /\ m.ropen = l.ropen /\ m.wopen = l.wopen
  BY <1>1, <1>3 DEF Enqueued, LinkType
<1>5. Synced(m) /\ CanReturn(m) /\ Right(m) = Right(l) /\ LinkOwed(m) = LinkOwed(l) /\ SameFlags(l, m)
  BY <1>4 DEF LinkOK, Synced, CanReturn, Right, LinkOwed, SameFlags
<1>6. ToSet(us) \subseteq Uid /\ ToSet(m.reqs) = ToSet(l.reqs) \cup ToSet(us)
  BY <1>2, <1>4, QueueOfSeq, ConcatQueue
<1>7. \A u \in ToSet(us) : u \notin ToSet(l.reqs) /\ l.lpend[u] = "none"
  BY <1>6 DEF Covers, Requested
<1>8. Distinct(m.reqs)
  <2>1. ToSet(l.reqs) \cap ToSet(us) = {}
    BY <1>7
  <2>2. Distinct(l.reqs)
    BY DEF LinkOK, Waiting
  <2> QED BY <1>2, <1>4, <2>1, <2>2, DistinctConcat
<1>9. Waiting(m)
  BY <1>4, <1>6, <1>7, <1>8 DEF LinkOK, Waiting
<1>10. Covers(r, m)
  BY <1>4, <1>6, <1>7 DEF Covers, Requested
<1> QED BY <1>1, <1>4, <1>5, <1>9, <1>10 DEF LinkOK

\* The buyer creates a transaction.
LEMMA CreateTransactionKeeps ==
  ASSUME NEW k, Prepared(State, k), NEW u \in k, CreateTransaction(u)
  PROVE  Result(k \ {u})
<1>1. State \in StateType /\ Good(State, k) /\ 1 \in Link /\ 1 \in Node /\ 1 # N /\ u \in Uid
  BY Chain DEF Prepared
<1>2. PICK l \in LinkType : l = State.link[1]
  BY <1>1, StateLink
<1>3. PICK q \in [Uid -> Stage] : q = State.opened
  BY <1>1, StateParts
<1>4. PICK r : r = [q EXCEPT ![u] = "request"]
  OBVIOUS
<1>5. r \in [Uid -> Stage] /\ r[u] = "request" /\ \A v \in Uid : v # u => r[v] = q[v]
  BY <1>1, <1>4 DEF Stage
<1>6. LinkOK(l) /\ Covers(q, l) /\ q[u] = "none"
  BY <1>1, <1>2, <1>3 DEF Good, Source, Unused
<1>7. PICK us : us = <<u>>
  OBVIOUS
<1>8. us \in Seq(Uid) /\ Distinct(us) /\ ToSet(us) = {u}
  BY <1>1, <1>7 DEF Distinct, ToSet
<1>9. Requested(q, r, us)
  BY <1>5, <1>6, <1>8 DEF Requested
<1>10. PICK m : m = Enqueued(l, us)
  OBVIOUS
<1>11. /\ m \in LinkType /\ LinkOK(m) /\ Right(m) = Right(l) /\ Covers(r, m)
       /\ LinkOwed(m) = LinkOwed(l) /\ SameFlags(l, m)
  BY <1>6, <1>8, <1>9, <1>10, EnqueuedOK
<1>12. PICK S0 : S0 = Put(State, 1, m)
  OBVIOUS
<1>13. /\ S0 \in StateType /\ S0.link[1] = m /\ \A j \in Link : j # 1 => S0.link[j] = State.link[j]
       /\ S0.invoice = State.invoice
  BY <1>1, <1>11, <1>12, PutIs
<1>14. PICK S : S = [S0 EXCEPT !.opened = r]
  OBVIOUS
<1>15. /\ S \in StateType /\ S.link = S0.link /\ S.opened = r /\ S.invoice = S0.invoice
       /\ S.paid = S0.paid /\ S.panic = S0.panic
  <2> HIDE DEF LinkType
  <2> QED BY <1>5, <1>13, <1>14 DEF StateType
<1>16. [State EXCEPT !.link[1].reqs = Append(@, u), !.opened[u] = "request"] = S
  <2>1. Append(l.reqs, u) = l.reqs \o us
    <3>1. l.reqs \in Seq(Uid)
      BY LinkParts
    <3> QED BY <1>1, <1>7, <3>1, AppendIsConcat
  <2>2. m = [l EXCEPT !.reqs = Append(@, u)]
    BY <1>10, <2>1 DEF Enqueued
  <2>3. [State EXCEPT !.link[1].reqs = Append(@, u), !.opened[u] = "request"]
          = [State EXCEPT !.link[1] = m, !.opened = r]
    BY <1>1, <1>2, <1>3, <1>4, <2>2
  <2> QED BY <1>12, <1>14, <2>3 DEF Put
<1>17. CreateFriendMessages(S, 1)
  BY <1>16 DEF CreateTransaction
<1>18. Beside(State, S, 1)
  BY <1>1, <1>2, <1>11, <1>13, <1>15 DEF Beside
<1>19. Source(S, 1) = r
  BY <1>15 DEF Source
<1>20. Backed(S, S, 1, <<>>) /\ After(<<>>, Source(S, 1)) = r
  BY <1>1, <1>15, <1>19, NothingBacks, AfterNothing
<1>21. Able(S, 1, r, k \ {u})
  <2>1. Unused(r, k \ {u})
    BY <1>1, <1>3, <1>5 DEF Good, Unused, Prepared
  <2> QED BY <1>1, <1>11, <1>13, <1>15, <2>1 DEF Able
<1>22. Good(S, k \ {u})
  <2>1. PICK k2 \in SUBSET k : k2 = k \ {u}
    OBVIOUS
  <2>2. Good(S, k2)
    BY <1>1, <1>18, <1>20, <1>21, <2>1, GoodBacked
  <2> QED BY <2>1, <2>2
<1>23. Keeps(State, S)
  <2>1. Keeps(State, S0)
    BY <1>1, <1>2, <1>11, <1>12, PutKeeps DEF SameFlags
  <2> QED BY <1>15, <2>1 DEF Keeps, Remembers, AllOpen
<1>24. Prepared(S, k \ {u}) /\ (AllOpen(State) => AllOpen(S))
  BY <1>15, <1>22, <1>23, RepaidKept DEF Prepared, Keeps
<1>25. Prepared(State, k \ {u})
  <2>1. Good(State, k \ {u})
    BY <1>1 DEF Good, Unused
  <2> QED BY <2>1 DEF Prepared
<1> QED BY <1>1, <1>17, <1>24, <1>25, Handled DEF Result

\* The seller's invoice goes away, or a new one is issued.
LEMMA InvoicePrepared ==
  ASSUME NEW S, NEW k, Prepared(S, k), NEW inv \in [open : BOOLEAN, incoming : SUBSET Uid],
         inv.incoming = {}
  PROVE  /\ Prepared([S EXCEPT !.invoice = inv], k)
         /\ [S EXCEPT !.invoice = inv].link = S.link /\ [S EXCEPT !.invoice = inv].invoice = inv
         /\ AllOpen(S) => AllOpen([S EXCEPT !.invoice = inv])
<1>1. PICK T : T = [S EXCEPT !.invoice = inv]
  OBVIOUS
<1>2. /\ T \in StateType /\ T.link = S.link /\ T.opened = S.opened /\ T.invoice = inv
      /\ T.paid = S.paid /\ T.panic = S.panic
  <2> HIDE DEF LinkType
  <2> QED BY <1>1 DEF StateType, Prepared
<1>3. \A i \in Link : Source(T, i) = Source(S, i)
  BY <1>2 DEF Source
<1>4. Good(T, k)
  BY <1>2, <1>3 DEF Good, Answered, Prepared
<1>5. Repaid(T)
  BY <1>2 DEF Repaid, Owed, Prepared
<1> QED BY <1>1, <1>2, <1>4, <1>5 DEF Prepared, AllOpen

\* Another invoice.
LEMMA AddInvoiceKeeps ==
  ASSUME NEW k, Prepared(State, k), AddInvoice
  PROVE  Result(k)
<1>1. PICK inv : inv = [open |-> TRUE, incoming |-> {}]
  OBVIOUS
<1>2. inv \in [open : BOOLEAN, incoming : SUBSET Uid] /\ inv.incoming = {}
  BY <1>1
<1>3. PICK T : T = [State EXCEPT !.invoice = inv]
  OBVIOUS
<1>4. Prepared(T, k) /\ (AllOpen(State) => AllOpen(T))
  BY <1>2, <1>3, InvoicePrepared
<1>5. State' = T /\ panicked' = panicked
  BY <1>1, <1>3 DEF AddInvoice, State
<1> QED BY <1>4, <1>5 DEF Result, Prepared, Quiet

\* The seller answers the transactions of its invoice.
LEMMA InvoiceAnswered ==
  ASSUME NEW S, NEW k, Prepared(S, k), NEW S1, S1 = [S EXCEPT !.invoice = NoInvoice],
         NEW kind \in {"cancel", "collect"}, NEW us \in Seq(Uid), Distinct(us),
         ToSet(us) \subseteq S.invoice.incoming
  PROVE  /\ Prepared(PushBack(S1, N, ForEach(kind, us)), k)
         /\ AllOpen(S) => AllOpen(PushBack(S1, N, ForEach(kind, us)))
         /\ \A u \in S.invoice.incoming : HasOrigin(S1, N, u)
<1>1. N \in Node /\ N # 1 /\ N - 1 \in Link
  BY Chain, ChainAssumption
<1>2. NoInvoice \in [open : BOOLEAN, incoming : SUBSET Uid] /\ NoInvoice.incoming = {}
  BY DEF NoInvoice
<1>3. /\ Prepared(S1, k) /\ S1.link = S.link /\ S1.invoice = NoInvoice
      /\ AllOpen(S) => AllOpen(S1)
  BY <1>2, InvoicePrepared
<1>4. S1 \in StateType /\ Good(S1, k) /\ LinkOK(S1.link[N - 1])
  BY <1>1, <1>3 DEF Prepared, Good
<1>5. PICK q \in [Uid -> Stage] : q = Source(S1, N)
  BY <1>1, <1>4, SourceType
<1>6. q = Right(S1.link[N - 1])
  BY <1>1, <1>5 DEF Source
<1>7. \A u \in S.invoice.incoming : u \in Uid /\ q[u] = "response"
  <2>1. S.invoice.incoming \in SUBSET Uid
    BY StateParts DEF Prepared
  <2> QED BY <1>3, <1>6, <2>1 DEF Prepared, Good, Answered
<1>8. \A u \in S.invoice.incoming : HasOrigin(S1, N, u)
  BY <1>1, <1>4, <1>6, <1>7, OriginFound
<1>9. PICK ops : ops = ForEach(kind, us)
  OBVIOUS
<1>10. kind \in {"request", "response", "cancel", "collect"} /\ kind # "request"
  OBVIOUS
<1>11. ops \in Seq(OpType) /\ \A op : op \in ToSet(ops) <=> \E u \in ToSet(us) : op = Makes(kind, u)
  BY <1>9, <1>10, ForEachIs
<1>12. NoRequests(ops)
  BY <1>10, <1>11 DEF NoRequests, Makes
<1>13. Fits(ops, q)
  <2>1. \A u \in ToSet(us) : q[u] \in StageBefore(kind)
    BY <1>7 DEF StageBefore
  <2> QED BY <1>9, <1>10, <2>1, FitsForEach
<1>14. PICK T : T = PushBack(S1, N, ops)
  OBVIOUS
<1>15. Backed(S1, T, N, ops)
  BY <1>1, <1>4, <1>5, <1>11, <1>12, <1>13, <1>14, PushBackBacks
<1>16. Beside(S1, S1, N)
  BY DEF Beside
<1>17. Able(S1, N, After(ops, Source(S1, N)), k)
  BY <1>1, <1>2, <1>3 DEF Able, Answered
<1>18. Good(T, k)
  BY <1>1, <1>4, <1>15, <1>16, <1>17, GoodBacked
<1>19. Keeps(S1, T) /\ T \in StateType
  BY <1>1, <1>4, <1>11, <1>15, BackedKeeps DEF Backed
<1>20. Prepared(T, k) /\ (AllOpen(S1) => AllOpen(T))
  BY <1>3, <1>18, <1>19, RepaidKept DEF Prepared, Keeps
<1> QED BY <1>3, <1>8, <1>9, <1>14, <1>20

\* Some transactions of the invoice as a list.
LEMMA InvoiceList ==
  ASSUME NEW V \in SUBSET Uid
  PROVE  SetToSeq(V) \in Seq(Uid) /\ Distinct(SetToSeq(V)) /\ ToSet(SetToSeq(V)) \subseteq V
<1>1. IsFiniteSet(V)
  BY UidAssumption, FS_Subset
<1>2. SetToSeq(V) \in Seq(V) /\ ToSet(SetToSeq(V)) \subseteq V /\ Distinct(SetToSeq(V))
  BY <1>1, SetToSeqIs
<1>3. PICK s \in Seq(V) : s = SetToSeq(V)
  BY <1>2
<1>4. s \in Seq(Uid)
  OBVIOUS
<1> QED BY <1>2, <1>3, <1>4

\* The invoice is canceled.
LEMMA CancelInvoiceKeeps ==
  ASSUME NEW k, Prepared(State, k), CancelInvoice
  PROVE  Result(k)
<1>1. State.invoice = invoice /\ invoice.incoming \in SUBSET Uid /\ N \in Node
  <2>1. State.invoice = invoice
    BY DEF State
  <2> QED BY <2>1, StateParts, Chain DEF Prepared
<1>2. PICK us : us = SetToSeq(invoice.incoming)
  OBVIOUS
<1>3. us \in Seq(Uid) /\ Distinct(us) /\ ToSet(us) \subseteq invoice.incoming
  BY <1>1, <1>2, InvoiceList
<1>4. PICK S1 : S1 = [State EXCEPT !.invoice = NoInvoice]
  OBVIOUS
<1>5. PICK T : T = PushBack(S1, N, ForEach("cancel", us))
  OBVIOUS
<1>6. /\ Prepared(T, k) /\ (AllOpen(State) => AllOpen(T))
      /\ \A u \in invoice.incoming : HasOrigin(S1, N, u)
  BY <1>1, <1>3, <1>4, <1>5, InvoiceAnswered
<1>7. CreateFriendMessages(T, N)
  BY <1>2, <1>4, <1>5, <1>6 DEF CancelInvoice
<1> QED BY <1>1, <1>6, <1>7, Handled DEF Result

\* The invoice is paid.
LEMMA CommitInvoiceKeeps ==
  ASSUME NEW k, Prepared(State, k), NEW paying, CommitInvoice(paying)
  PROVE  Result(k)
<1>1. State.invoice = invoice /\ invoice.incoming \in SUBSET Uid /\ N \in Node
  <2>1. State.invoice = invoice
    BY DEF State
  <2> QED BY <2>1, StateParts, Chain DEF Prepared
<1>2. PICK S1 : S1 = [State EXCEPT !.invoice = NoInvoice]
  OBVIOUS
<1>3. PICK V : V = {u \in paying : u \in invoice.incoming /\ HasOrigin(S1, N, u)}
  OBVIOUS
<1>4. PICK us : us = SetToSeq(V)
  OBVIOUS
<1>5. us \in Seq(Uid) /\ Distinct(us) /\ ToSet(us) \subseteq invoice.incoming
  BY <1>1, <1>3, <1>4, InvoiceList
<1>6. PICK T : T = PushBack(S1, N, ForEach("collect", us))
  OBVIOUS
<1>7. Prepared(T, k) /\ (AllOpen(State) => AllOpen(T))
  BY <1>1, <1>2, <1>5, <1>6, InvoiceAnswered
<1>8. CreateFriendMessages(T, N)
  BY <1>2, <1>3, <1>4, <1>6 DEF CommitInvoice
<1> QED BY <1>1, <1>7, <1>8, Handled DEF Result

-----------------------------------------------------------------------------
(***************************************************************************)
(* Requests arrive.                                                        *)
(***************************************************************************)
Ids(ops) == [k \in 1 .. Len(ops) |-> ops[k].id]

\* Requests alone take nothing away.
LEMMA RequestsGrow ==
  ASSUME NEW ops \in Seq(OpType), NEW p \in [Uid -> Stage], AllRequests(ops), NEW u \in Uid,
         NEW j \in 0..Len(ops), Trace(ops, p)[j][u] # "none"
  PROVE  \A k \in 0..Len(ops) : k >= j => Trace(ops, p)[k][u] # "none"
<1> DEFINE T == {k \in 0..Len(ops) : k >= j => Trace(ops, p)[k][u] # "none"}
<1>1. Len(ops) \in Nat
  OBVIOUS
<1>2. 0 \in T
  <2>1. 0 \in 0..Len(ops) /\ (0 >= j => j = 0)
    BY <1>1
  <2> QED BY <2>1
<1>3. ASSUME NEW k \in 0..(Len(ops) - 1), k \in T PROVE k + 1 \in T
  <2> HIDE DEF T
  <2>1. /\ k + 1 \in 1..Len(ops) /\ k + 1 \in 0..Len(ops)
        /\ Trace(ops, p)[k + 1][u] = IF ops[k + 1].id = u THEN StageAfter(ops[k + 1].kind)
                                                          ELSE Trace(ops, p)[k][u]
    <3>1. StepsAt(ops, p, k, u)
      BY TraceAt, Zenon
    <3> QED BY ONLY <3>1 DEF StepsAt
  <2> USE DEF T
  <2>2. ops[k + 1].kind = "request"
    BY <2>1, OpsTyped DEF AllRequests
  <2>3. StageAfter(ops[k + 1].kind) = "request"
    BY <2>2 DEF StageAfter
  <2>4. CASE k + 1 = j
    BY <2>1, <2>4
  <2>5. CASE k + 1 # j
    BY <1>3, <2>1, <2>3, <2>5
  <2> QED BY <2>4, <2>5
<1>4. \A k \in 0..Len(ops) : k \in T
  BY <1>1, <1>2, <1>3, Induction
<1> QED BY <1>4

\* Requests that fit are for transactions that were not pending, each once.
LEMMA RequestsFit ==
  ASSUME NEW ops \in Seq(OpType), NEW p \in [Uid -> Stage], AllRequests(ops), Fits(ops, p)
  PROVE  /\ Ids(ops) \in Seq(Uid) /\ Distinct(Ids(ops))
         /\ \A u \in ToSet(Ids(ops)) : p[u] = "none"
         /\ ops = ForEach("request", Ids(ops))
<1>1. PICK us : us = Ids(ops)
  OBVIOUS
<1>2. Len(ops) \in Nat /\ \A k \in 1..Len(ops) : ops[k] \in OpType /\ ops[k].id \in Uid /\ ops[k] \in ToSet(ops)
  BY OpsTyped
<1>3. us = [k \in 1..Len(ops) |-> ops[k].id]
  BY <1>1 DEF Ids
<1>4. /\ us \in Seq(Uid) /\ Len(us) = Len(ops) /\ DOMAIN us = 1..Len(ops)
      /\ \A k \in 1..Len(ops) : us[k] = ops[k].id
  BY <1>2, <1>3
<1>5. \A k \in 1..Len(ops) : ops[k].kind = "request"
  BY <1>2 DEF AllRequests
<1>6. \A k \in 1..Len(ops) : Trace(ops, p)[k - 1][us[k]] = "none"
  BY <1>4, <1>5 DEF Fits, StageBefore
<1>7. ASSUME NEW j \in 1..Len(ops), NEW k \in 1..Len(ops), us[j] = us[k], j < k PROVE FALSE
  <2>1. PICK u \in Uid : u = us[j]
    BY <1>2, <1>4
  <2>2. j \in 0..Len(ops) /\ j - 1 \in 0..(Len(ops) - 1) /\ (j - 1) + 1 = j
    BY <1>2
  <2>3. Trace(ops, p)[(j - 1) + 1][u] = IF ops[(j - 1) + 1].id = u THEN StageAfter(ops[(j - 1) + 1].kind)
                                                                 ELSE Trace(ops, p)[j - 1][u]
    <3>1. StepsAt(ops, p, j - 1, u)
      BY <2>2, TraceAt, Zenon
    <3> QED BY ONLY <3>1 DEF StepsAt
  <2>4. Trace(ops, p)[j][u] = StageAfter("request")
    BY <1>4, <1>5, <2>1, <2>2, <2>3
  <2>5. Trace(ops, p)[j][u] # "none"
    BY <2>4 DEF StageAfter
  <2>6. k - 1 \in 0..Len(ops) /\ k - 1 >= j
    BY <1>2, <1>7
  <2>7. Trace(ops, p)[k - 1][u] # "none"
    BY <2>2, <2>5, <2>6, RequestsGrow
  <2> QED BY <1>6, <1>7, <2>1, <2>7
<1>8. Distinct(us)
  <2> SUFFICES ASSUME NEW j \in 1..Len(us), NEW k \in 1..Len(us), us[j] = us[k] PROVE j = k
    BY DEF Distinct
  <2>1. j \in 1..Len(ops) /\ k \in 1..Len(ops) /\ j \in Int /\ k \in Int
    BY <1>2, <1>4
  <2> QED BY <1>7, <2>1
<1>9. ASSUME NEW u \in ToSet(us) PROVE p[u] = "none"
  <2>1. PICK k \in 1..Len(ops) : u = us[k]
    BY <1>4 DEF ToSet
  <2>2. u \in Uid /\ 0 \in 0..Len(ops) /\ k - 1 \in 0..Len(ops) /\ k - 1 >= 0
    BY <1>2, <1>4, <2>1
  <2>3. Trace(ops, p)[0] = p
    BY <1>2, TraceSteps
  <2> QED BY <1>6, <2>1, <2>2, <2>3, RequestsGrow
<1>10. ops = ForEach("request", us)
  <2>1. \A k \in 1..Len(ops) : ops[k] = Makes("request", us[k])
    BY <1>2, <1>4, <1>5 DEF OpType, Makes
  <2>2. ops = [k \in 1..Len(ops) |-> Makes("request", us[k])]
    BY <2>1
  <2> QED BY <1>4, <2>2 DEF ForEach
<1> QED BY <1>1, <1>4, <1>8, <1>9, <1>10

Arrived(l) == [l EXCEPT !.token = "right", !.batch = <<>>, !.rpend = After(l.batch, @)]

\* From q to r exactly the requests for us were added.
Added(q, r, us) ==
  \A u \in Uid : IF u \in ToSet(us) THEN q[u] = "none" /\ r[u] = "request" ELSE r[u] = q[u]

\* No operations at all.
LEMMA NoOperations == <<>> \in Seq(OpType)
OBVIOUS

\* What becomes of a link when requests arrive.
LEMMA ArrivedOK ==
  ASSUME NEW l \in LinkType, LinkOK(l), l.token = "right coming"
  PROVE  /\ Ids(l.batch) \in Seq(Uid) /\ Distinct(Ids(l.batch))
         /\ Arrived(l) \in LinkType /\ LinkOK(Arrived(l))
         /\ Added(Right(l), Right(Arrived(l)), Ids(l.batch))
         /\ Arrived(l).reqs = l.reqs /\ Arrived(l).lpend = l.lpend
         /\ LinkOwed(l) \subseteq LinkOwed(Arrived(l)) /\ SameFlags(l, Arrived(l))
<1>1. PICK m : m = Arrived(l)
  OBVIOUS
<1>2. PICK ops \in Seq(OpType) : ops = l.batch
  BY LinkParts
<1>3. PICK p \in [Uid -> Stage] : p = l.rpend
  BY LinkParts
<1>4. PICK back \in Seq(OpType) : back = l.back
  BY LinkParts
<1>5. AllRequests(ops) /\ Fits(ops, p) /\ l.lpend = After(ops, p) /\ NoRequests(back) /\ Fits(back, p)
  BY <1>2, <1>3, <1>4 DEF LinkOK, Synced, CanReturn
<1>6. PICK us : us = Ids(ops)
  OBVIOUS
<1>7. us \in Seq(Uid) /\ Distinct(us) /\ (\A u \in ToSet(us) : p[u] = "none") /\ ops = ForEach("request", us)
  BY <1>5, <1>6, RequestsFit
<1>8. PICK p2 : p2 = After(ops, p)
  OBVIOUS
<1>9. p2 \in [Uid -> Stage]
  BY <1>8, AfterType
<1>10. \A u \in Uid : p2[u] = IF u \in ToSet(us) THEN "request" ELSE p[u]
  BY <1>7, <1>8, AfterForEach DEF StageAfter
<1>11. <<>> \in Seq(OpType)
  BY ONLY NoOperations
<1>12. m = [l EXCEPT !.token = "right", !.batch = <<>>, !.rpend = p2]
  BY <1>1, <1>2, <1>3, <1>8 DEF Arrived
<1>13. /\ m \in LinkType /\ m.token = "right" /\ m.batch = <<>> /\ m.rpend = p2 /\ m.lpend = l.lpend
       /\ m.reqs = l.reqs /\ m.back = back /\ m.lstatus = l.lstatus /\ m.rstatus = l.rstatus
       /\ m.lopen = l.lopen /\ m.ropen = l.ropen /\ m.wopen = l.wopen
  BY <1>4, <1>9, <1>11, <1>12 DEF LinkType
<1>14. Fits(back, p2)
  <2>1. Agree(back, p, p2)
    <3> SUFFICES ASSUME NEW op \in ToSet(back) PROVE p[op.id] = p2[op.id]
      BY DEF Agree
    <3>1. op.id \in Uid /\ p[op.id] # "none"
      BY <1>5, FitsPending
    <3> QED BY <1>7, <1>10, <3>1
  <2> QED BY <1>5, <1>9, <2>1, FitsAgree
<1>15. LinkOK(m)
  BY <1>5, <1>8, <1>13, <1>14 DEF LinkOK, Synced, CanReturn, Waiting
<1>16. Added(Right(l), Right(m), us)
  <2>1. Right(l) = After(back, p) /\ Right(m) = After(back, p2)
    BY <1>3, <1>4, <1>13 DEF Right
  <2> SUFFICES ASSUME NEW u \in Uid
               PROVE  IF u \in ToSet(us) THEN After(back, p)[u] = "none" /\ After(back, p2)[u] = "request"
                                         ELSE After(back, p2)[u] = After(back, p)[u]
    BY <2>1 DEF Added
  <2>2. CASE u \in ToSet(us)
    <3>1. p[u] = "none" /\ p2[u] = "request"
      BY <1>7, <1>10, <2>2
    <3>2. Without(back, u) /\ After(back, p)[u] = "none"
      BY <1>5, <3>1, NoneWithout
    <3>3. After(back, p2)[u] = p2[u]
      BY <1>9, <3>2, AfterWithout
    <3> QED BY <2>2, <3>1, <3>2, <3>3
  <2>3. CASE u \notin ToSet(us)
    <3>1. p2[u] = p[u]
      BY <1>10, <2>3
    <3>2. After(back, p2)[u] = After(back, p)[u]
      BY <1>9, <3>1, AfterPoint
    <3> QED BY <2>3, <3>2
  <2> QED BY <2>2, <2>3
<1>17. LinkOwed(l) \subseteq LinkOwed(m)
  <2>1. \A u \in Uid : Makes("collect", u) \notin ToSet(ops)
    BY <1>5 DEF AllRequests, Makes
  <2> QED BY <1>2, <1>4, <1>13, <2>1 DEF LinkOwed
<1> QED BY <1>1, <1>2, <1>6, <1>7, <1>13, <1>15, <1>16, <1>17 DEF SameFlags

Asked(q, us) == \A u \in ToSet(us) : q[u] = "request"

Cancels(q, rejected, ops) ==
  /\ ops \in Seq(OpType) /\ NoRequests(ops) /\ Fits(ops, q)
  /\ \A u \in Uid : u \notin ToSet(rejected) => After(ops, q)[u] = q[u]

Answers(q, rejected, taken, ops) ==
  /\ ops \in Seq(OpType) /\ NoRequests(ops) /\ Fits(ops, q)
  /\ \A u \in ToSet(taken) : After(ops, q)[u] = "response"
  /\ \A u \in Uid : u \notin ToSet(rejected) \cup ToSet(taken) => After(ops, q)[u] = q[u]

\* Cancels of some and responses to the others can be queued.
LEMMA AnswersFit ==
  ASSUME NEW q \in [Uid -> Stage], NEW rejected \in Seq(Uid), NEW taken \in Seq(Uid),
         Distinct(rejected), Distinct(taken), ToSet(rejected) \cap ToSet(taken) = {},
         Asked(q, rejected), Asked(q, taken)
  PROVE  /\ Cancels(q, rejected, ForEach("cancel", rejected))
         /\ Answers(q, rejected, taken, ForEach("cancel", rejected) \o ForEach("response", taken))
<1>1. PICK a : a = ForEach("cancel", rejected)
  OBVIOUS
<1>2. PICK b : b = ForEach("response", taken)
  OBVIOUS
<1>3. a \in Seq(OpType) /\ \A op : op \in ToSet(a) <=> \E u \in ToSet(rejected) : op = Makes("cancel", u)
  BY <1>1, ForEachIs
<1>4. b \in Seq(OpType) /\ \A op : op \in ToSet(b) <=> \E u \in ToSet(taken) : op = Makes("response", u)
  BY <1>2, ForEachIs
<1>5. NoRequests(a) /\ NoRequests(b)
  BY <1>3, <1>4 DEF NoRequests, Makes
<1>6. Fits(a, q)
  <2>1. \A u \in ToSet(rejected) : q[u] \in StageBefore("cancel")
    BY DEF StageBefore, Asked
  <2> QED BY <1>1, <2>1, FitsForEach
<1>7. PICK r : r = After(a, q)
  OBVIOUS
<1>8. r \in [Uid -> Stage]
  BY <1>3, <1>7, AfterType
<1>9. \A u \in Uid : u \notin ToSet(rejected) => r[u] = q[u]
  BY <1>1, <1>7, AfterForEach
<1>10. ToSet(taken) \subseteq Uid
  BY QueueOfSeq
<1>11. Fits(b, r)
  <2>1. \A u \in ToSet(taken) : r[u] \in StageBefore("response")
    BY <1>9, <1>10 DEF StageBefore, Asked
  <2> QED BY <1>2, <1>8, <2>1, FitsForEach
<1>12. PICK c : c = a \o b
  OBVIOUS
<1>13. c \in Seq(OpType) /\ After(c, q) = After(b, r) /\ Fits(c, q)
  BY <1>3, <1>4, <1>6, <1>7, <1>11, <1>12, AfterConcat
<1>14. NoRequests(c)
  <2>1. ToSet(c) = ToSet(a) \cup ToSet(b)
    BY <1>3, <1>4, <1>12, QueueOfSeq, ConcatQueue
  <2> QED BY <1>5, <2>1 DEF NoRequests
<1>15. \A u \in Uid : After(b, r)[u] = IF u \in ToSet(taken) THEN "response" ELSE r[u]
  BY <1>2, <1>8, AfterForEach DEF StageAfter
<1>16. Cancels(q, rejected, a)
  BY <1>3, <1>5, <1>6, <1>7, <1>9 DEF Cancels
<1>17. Answers(q, rejected, taken, c)
  BY <1>9, <1>10, <1>13, <1>14, <1>15 DEF Answers
<1> QED BY <1>1, <1>2, <1>12, <1>16, <1>17

\* Node i + 1 handles the requests: a relay takes or cancels them, the seller answers.
LEMMA HandleRequestsPrepared ==
  ASSUME NEW S, NEW k, Prepared(S, k), NEW i \in Link, S.link[i].token = "right coming", NEW refused
  PROVE  /\ Prepared(HandleRequests(Put(S, i, Arrived(S.link[i])), i + 1, Ids(S.link[i].batch), refused), k)
         /\ AllOpen(S) =>
              AllOpen(HandleRequests(Put(S, i, Arrived(S.link[i])), i + 1, Ids(S.link[i].batch), refused))
<1>1. PICK n \in Node : n = i + 1 /\ n # 1 /\ n - 1 = i /\ i # n
  <2>1. i + 1 \in Node /\ i + 1 # 1 /\ (i + 1) - 1 = i
    BY Chain
  <2>2. i # i + 1
    BY ONLY i \in Link, ChainAssumption DEF Link
  <2> QED BY <2>1, <2>2
<1>2. S \in StateType /\ Good(S, k)
  BY DEF Prepared
<1>3. PICK l \in LinkType : l = S.link[i]
  BY <1>2, StateParts
<1>4. PICK m : m = Arrived(l)
  OBVIOUS
<1>5. PICK us : us = Ids(l.batch)
  OBVIOUS
<1>6. /\ us \in Seq(Uid) /\ Distinct(us)
      /\ m \in LinkType /\ LinkOK(m) /\ Added(Right(l), Right(m), us)
      /\ m.reqs = l.reqs /\ m.lpend = l.lpend
      /\ LinkOwed(l) \subseteq LinkOwed(m) /\ SameFlags(l, m)
  BY <1>2, <1>3, <1>4, <1>5, ArrivedOK DEF Good
<1>7. PICK S0 : S0 = Put(S, i, m)
  OBVIOUS
<1>8. /\ S0 \in StateType /\ S0.link[i] = m /\ \A j \in Link : j # i => S0.link[j] = S.link[j]
      /\ S0.opened = S.opened /\ S0.invoice = S.invoice /\ S0.paid = S.paid /\ S0.panic = S.panic
  BY <1>2, <1>6, <1>7, PutIs
<1>9. Keeps(S, S0)
  BY <1>2, <1>3, <1>6, <1>7, PutKeeps DEF SameFlags
<1>10. PICK q \in [Uid -> Stage] : q = Source(S0, n)
  BY <1>8, SourceType
<1>11. q = Right(m) /\ Source(S, n) = Right(l)
  BY <1>1, <1>3, <1>8, <1>10 DEF Source
<1>12. PICK q0 : q0 = Right(l)
  OBVIOUS
<1>13. Added(q0, q, us)
  BY <1>6, <1>11, <1>12
<1>14. PICK taken : taken = Only(us, Uid \ refused)
  OBVIOUS
<1>15. PICK rejected : rejected = Only(us, refused)
  OBVIOUS
<1>16. /\ taken \in Seq(Uid) /\ ToSet(taken) = ToSet(us) \cap (Uid \ refused) /\ Distinct(taken)
       /\ rejected \in Seq(Uid) /\ ToSet(rejected) = ToSet(us) \cap refused /\ Distinct(rejected)
  BY <1>6, <1>14, <1>15, OnlyIs
<1>17. ToSet(us) \subseteq Uid
  BY <1>6, QueueOfSeq
<1>18. \A u \in ToSet(us) : q0[u] = "none" /\ q[u] = "request"
  BY <1>13, <1>17 DEF Added
<1>19. PICK T : T = HandleRequests(S0, n, us, refused)
  OBVIOUS
<1>20. CASE n = N
  <2>1. PICK back : back = Reverse(taken)
    OBVIOUS
  <2>2. back \in Seq(Uid) /\ ToSet(back) = ToSet(taken) /\ Distinct(back)
    BY <1>16, <2>1, ReverseIs
  <2>3. PICK ops : ops = ForEach("cancel", rejected) \o ForEach("response", back)
    OBVIOUS
  <2>4. /\ ops \in Seq(OpType) /\ NoRequests(ops) /\ Fits(ops, q)
        /\ \A u \in ToSet(back) : After(ops, q)[u] = "response"
        /\ \A u \in Uid : u \notin ToSet(rejected) \cup ToSet(back) => After(ops, q)[u] = q[u]
    <3>1. ToSet(rejected) \cap ToSet(back) = {}
      BY <1>16, <2>2
    <3>2. Asked(q, rejected) /\ Asked(q, back)
      BY <1>16, <1>18, <2>2 DEF Asked
    <3>3. rejected \in Seq(Uid) /\ Distinct(rejected) /\ back \in Seq(Uid) /\ Distinct(back)
      BY <1>16, <2>2
    <3>4. Answers(q, rejected, back, ForEach("cancel", rejected) \o ForEach("response", back))
      BY ONLY <3>1, <3>2, <3>3, q \in [Uid -> Stage], AnswersFit
    <3> QED BY <2>3, <3>4 DEF Answers
  <2>5. PICK inv : inv = [S0.invoice EXCEPT !.incoming = @ \cup Range(taken)]
    OBVIOUS
  <2>6. S0.invoice \in [open : BOOLEAN, incoming : SUBSET Uid]
    BY <1>8, StateParts
  <2>7. Range(taken) = ToSet(taken) /\ ToSet(taken) \subseteq Uid
    BY <1>16, <1>17 DEF Range, ToSet
  <2>8. /\ inv \in [open : BOOLEAN, incoming : SUBSET Uid]
        /\ inv.incoming = S0.invoice.incoming \cup ToSet(taken)
    BY <2>5, <2>6, <2>7
  <2>9. PICK S1 : S1 = [S0 EXCEPT !.invoice = inv]
    OBVIOUS
  <2>10. /\ S1 \in StateType /\ S1.link = S0.link /\ S1.opened = S0.opened /\ S1.invoice = inv
         /\ S1.paid = S0.paid /\ S1.panic = S0.panic
    <3> HIDE DEF LinkType
    <3> QED BY <1>8, <2>8, <2>9 DEF StateType
  <2>11. T = PushBack(S1, n, ops)
    <3>1. [S0 EXCEPT !.invoice.incoming = @ \cup Range(taken)] = S1
      BY <2>5, <2>9
    <3> QED BY <1>14, <1>15, <1>19, <1>20, <2>1, <2>3, <3>1 DEF HandleRequests
  <2>12. Source(S1, n) = q
    BY <1>10, <2>10 DEF Source
  <2>13. LinkOK(S1.link[n - 1])
    BY <1>1, <1>6, <1>8, <2>10
  <2>14. Backed(S1, T, n, ops)
    BY <1>1, <2>4, <2>10, <2>11, <2>12, <2>13, PushBackBacks
  <2>15. Beside(S, S1, n)
    BY <1>1, <1>3, <1>6, <1>8, <1>20, <2>10 DEF Beside
  <2>16. Answered(After(ops, q), inv)
    <3> SUFFICES ASSUME NEW u \in inv.incoming PROVE After(ops, q)[u] = "response"
      BY DEF Answered
    <3>1. CASE u \in ToSet(taken)
      BY <2>2, <2>4, <3>1
    <3>2. CASE u \notin ToSet(taken)
      <4>1. u \in S.invoice.incoming /\ u \in Uid
        BY <1>8, <2>8, <3>2
      <4>2. q0[u] = "response"
        BY <1>1, <1>2, <1>3, <1>12, <1>20, <4>1 DEF Good, Answered
      <4>3. u \notin ToSet(us) /\ q[u] = "response"
        BY <1>13, <4>1, <4>2 DEF Added
      <4> QED BY <1>16, <2>2, <2>4, <4>1, <4>3
    <3> QED BY <3>1, <3>2
  <2>17. Able(S1, n, After(ops, Source(S1, n)), k)
    BY <1>1, <1>20, <2>10, <2>12, <2>16 DEF Able
  <2>18. Good(T, k)
    BY <1>2, <2>14, <2>15, <2>17, GoodBacked
  <2>19. Keeps(S0, S1)
    BY <2>10 DEF Keeps, Remembers, AllOpen
  <2>20. Keeps(S1, T) /\ T \in StateType
    BY <2>4, <2>10, <2>14, BackedKeeps DEF Backed
  <2>21. Keeps(S, T)
    BY <1>9, <2>19, <2>20, KeepsTwice
  <2> QED BY <1>1, <1>3, <1>4, <1>5, <1>7, <1>19, <2>18, <2>20, <2>21, RepaidKept DEF Prepared, Keeps
<1>21. CASE n # N
  <2>1. n \in Link
    BY <1>21, Chain
  <2>2. PICK ops : ops = ForEach("cancel", rejected)
    OBVIOUS
  <2>3. /\ ops \in Seq(OpType) /\ NoRequests(ops) /\ Fits(ops, q)
        /\ \A u \in Uid : u \notin ToSet(rejected) => After(ops, q)[u] = q[u]
    <3>1. ToSet(rejected) \cap ToSet(taken) = {}
      BY <1>16
    <3>2. Asked(q, rejected) /\ Asked(q, taken)
      BY <1>16, <1>18 DEF Asked
    <3>3. rejected \in Seq(Uid) /\ Distinct(rejected) /\ taken \in Seq(Uid) /\ Distinct(taken)
      BY <1>16
    <3>4. Cancels(q, rejected, ForEach("cancel", rejected))
      BY ONLY <3>1, <3>2, <3>3, q \in [Uid -> Stage], AnswersFit
    <3> QED BY <2>2, <3>4 DEF Cancels
  <2>4. PICK r : r = After(ops, q)
    OBVIOUS
  <2>5. Requested(q0, r, taken)
    <3>1. \A u \in ToSet(taken) : q0[u] = "none" /\ r[u] = "request"
      BY <1>16, <1>17, <1>18, <2>3, <2>4
    <3>2. ASSUME NEW u \in Uid, q0[u] # "none" PROVE r[u] = q0[u]
      <4>1. u \notin ToSet(us)
        BY <1>18, <3>2
      <4> QED BY <1>13, <1>16, <2>3, <2>4, <4>1 DEF Added
    <3> QED BY <3>1, <3>2 DEF Requested
  <2>6. PICK l2 \in LinkType : l2 = S.link[n]
    BY <1>2, <2>1, StateParts
  <2>7. LinkOK(l2) /\ Covers(q0, l2)
    BY <1>2, <1>11, <1>12, <2>1, <2>6 DEF Good
  <2>8. PICK m2 : m2 = Enqueued(l2, taken)
    OBVIOUS
  <2>9. /\ m2 \in LinkType /\ LinkOK(m2) /\ Right(m2) = Right(l2) /\ Covers(r, m2)
        /\ LinkOwed(m2) = LinkOwed(l2) /\ SameFlags(l2, m2)
    BY <1>16, <2>5, <2>7, <2>8, EnqueuedOK
  <2>10. PICK S1 : S1 = Put(S0, n, m2)
    OBVIOUS
  <2>11. /\ S1 \in StateType /\ S1.link[n] = m2 /\ \A j \in Link : j # n => S1.link[j] = S0.link[j]
         /\ S1.opened = S0.opened /\ S1.invoice = S0.invoice
    <3>1. S0 \in StateType /\ n \in Link /\ m2 \in LinkType
      BY <1>8, <2>1, <2>9
    <3> QED BY ONLY <3>1, <2>10, PutIs, Zenon
  <2>12. S0.link[n] = l2
    BY <1>1, <1>8, <2>1, <2>6
  <2>13. T = PushBack(S1, n, ops)
    <3>1. [S0 EXCEPT !.link[n].reqs = @ \o taken] = S1
      BY <2>8, <2>10, <2>12 DEF Put, Enqueued
    <3> QED BY <1>14, <1>15, <1>19, <1>21, <2>2, <3>1 DEF HandleRequests
  <2>14. S1.link[i] = m
    BY <1>1, <1>8, <2>11
  <2>15. Source(S1, n) = q
    BY <1>1, <1>11, <2>14 DEF Source
  <2>16. LinkOK(S1.link[n - 1])
    BY <1>1, <1>6, <2>14
  <2>17. Backed(S1, T, n, ops)
    BY <1>1, <2>3, <2>11, <2>13, <2>15, <2>16, PushBackBacks
  <2>18. Beside(S, S1, n)
    BY <1>1, <1>3, <1>6, <1>8, <1>21, <2>6, <2>9, <2>11, <2>14 DEF Beside
  <2>19. Able(S1, n, After(ops, Source(S1, n)), k)
    BY <1>1, <1>21, <2>4, <2>9, <2>11, <2>15 DEF Able
  <2>20. Good(T, k)
    BY <1>2, <2>17, <2>18, <2>19, GoodBacked
  <2>21. Keeps(S0, S1)
    BY <1>8, <2>1, <2>9, <2>10, <2>12, PutKeeps DEF SameFlags
  <2>22. Keeps(S1, T) /\ T \in StateType
    BY <2>3, <2>11, <2>17, BackedKeeps DEF Backed
  <2>23. Keeps(S, T)
    BY <1>9, <2>21, <2>22, KeepsTwice
  <2> QED BY <1>1, <1>3, <1>4, <1>5, <1>7, <1>19, <2>20, <2>22, <2>23, RepaidKept DEF Prepared, Keeps
<1> QED BY <1>20, <1>21

\* Requests arrive at a node.
LEMMA ReceiveRequestsKeeps ==
  ASSUME NEW k, Prepared(State, k), NEW i \in Link, ReceiveRequests(i)
  PROVE  Result(k)
<1>1. State \in StateType /\ i + 1 \in Node
  BY Chain DEF Prepared
<1>2. PICK l \in LinkType : l = State.link[i] /\ l = link[i]
  BY <1>1, StateLink
<1>3. PICK S0 : S0 = Put(State, i, Arrived(l))
  OBVIOUS
<1>4. [State EXCEPT !.link[i] = [l EXCEPT !.token = "right", !.batch = <<>>, !.rpend = After(l.batch, @)]]
        = S0
  BY <1>3 DEF Put, Arrived
<1>5. l.token = "right coming"
  BY <1>2 DEF ReceiveRequests
<1>6. PICK refused : CreateFriendMessages(HandleRequests(S0, i + 1, Ids(l.batch), refused), i + 1)
  BY <1>2, <1>4 DEF ReceiveRequests, Ids
<1>7. PICK T : T = HandleRequests(S0, i + 1, Ids(l.batch), refused)
  OBVIOUS
<1>8. Prepared(T, k) /\ (AllOpen(State) => AllOpen(T))
  BY <1>2, <1>3, <1>5, <1>7, HandleRequestsPrepared
<1> QED BY <1>1, <1>6, <1>7, <1>8, Handled DEF Result

-----------------------------------------------------------------------------
(***************************************************************************)
(* Operations come back.                                                   *)
(***************************************************************************)
\* The link on the left of a relay.
LEMMA LeftLink ==
  ASSUME NEW i \in Link
  PROVE  i # 1 => i - 1 \in Link /\ i - 1 # i
BY ChainAssumption DEF Link

\* What a batch does to the right side of a node it does to the source.
LEMMA BatchCovered ==
  ASSUME NEW x \in LinkType, NEW y, NEW q \in [Uid -> Stage], NEW ops \in Seq(OpType),
         NoRequests(ops), Fits(ops, x.lpend), Waiting(x), Covers(q, x),
         y.reqs = x.reqs, y.lpend = After(ops, x.lpend)
  PROVE  Fits(ops, q) /\ Covers(After(ops, q), y)
<1>1. PICK p \in [Uid -> Stage] : p = x.lpend
  BY LinkParts
<1>2. Agree(ops, p, q)
  <2> SUFFICES ASSUME NEW op \in ToSet(ops) PROVE p[op.id] = q[op.id]
    BY DEF Agree
  <2>1. op.id \in Uid /\ p[op.id] # "none"
    BY <1>1, FitsPending
  <2> QED BY <1>1, <2>1 DEF Covers
<1>3. Fits(ops, q)
  BY <1>1, <1>2, FitsAgree
<1>4. ToSet(x.reqs) \subseteq Uid
  BY LinkParts, QueueOfSeq
<1>5. ASSUME NEW u \in Uid, u \in ToSet(x.reqs) PROVE After(ops, q)[u] = "request"
  <2>1. p[u] = "none" /\ q[u] = "request"
    BY <1>1, <1>5 DEF Waiting, Covers
  <2>2. Without(ops, u)
    BY <1>1, <2>1, NoneWithout
  <2> QED BY <2>1, <2>2, AfterWithout
<1>6. ASSUME NEW u \in Uid, After(ops, p)[u] # "none" PROVE After(ops, q)[u] = After(ops, p)[u]
  <2>1. p[u] # "none"
    BY <1>1, <1>6, NoneWithout
  <2>2. q[u] = p[u]
    BY <1>1, <2>1 DEF Covers
  <2> QED BY <2>2, AfterPoint
<1> QED BY <1>1, <1>3, <1>5, <1>6 DEF Covers

Settled(l) == [l EXCEPT !.token = "left", !.batch = <<>>, !.lpend = After(l.batch, @),
                        !.lopen = l.ropen]

Collected(l) == {u \in Uid : Makes("collect", u) \in ToSet(l.batch)}

\* What becomes of a link when operations come back.
LEMMA SettledOK ==
  ASSUME NEW l \in LinkType, LinkOK(l), l.token = "left coming"
  PROVE  /\ Settled(l) \in LinkType /\ LinkOK(Settled(l)) /\ Right(Settled(l)) = Right(l)
         /\ Settled(l).reqs = l.reqs /\ Settled(l).lpend = After(l.batch, l.lpend)
         /\ l.lopen /\ l.ropen /\ l.wopen => Settled(l).lopen /\ Settled(l).ropen /\ Settled(l).wopen
         /\ LinkOwed(l) \subseteq LinkOwed(Settled(l)) \cup Collected(l)
<1>1. PICK m : m = Settled(l)
  OBVIOUS
<1>2. PICK ops \in Seq(OpType) : ops = l.batch
  BY LinkParts
<1>3. PICK p \in [Uid -> Stage] : p = l.lpend
  BY LinkParts
<1>4. PICK p2 : p2 = After(ops, p)
  OBVIOUS
<1>5. p2 \in [Uid -> Stage] /\ l.ropen \in BOOLEAN
  BY <1>4, AfterType, LinkParts
<1>6. <<>> \in Seq(OpType)
  BY ONLY NoOperations
<1>7. m = [l EXCEPT !.token = "left", !.batch = <<>>, !.lpend = p2, !.lopen = l.ropen]
  BY <1>1, <1>2, <1>3, <1>4 DEF Settled
<1>8. /\ m \in LinkType /\ m.token = "left" /\ m.batch = <<>> /\ m.lpend = p2 /\ m.rpend = l.rpend
      /\ m.reqs = l.reqs /\ m.back = l.back /\ m.lstatus = l.lstatus /\ m.rstatus = l.rstatus
      /\ m.lopen = l.ropen /\ m.ropen = l.ropen /\ m.wopen = l.wopen
  BY <1>5, <1>6, <1>7 DEF LinkType
<1>9. NoRequests(ops) /\ Fits(ops, p) /\ l.rpend = p2
  BY <1>2, <1>3, <1>4 DEF LinkOK, Synced
<1>10. Synced(m) /\ CanReturn(m) /\ Right(m) = Right(l)
  BY <1>8, <1>9 DEF LinkOK, Synced, CanReturn, Right
<1>11. Waiting(m)
  <2>1. ToSet(l.reqs) \subseteq Uid
    BY LinkParts, QueueOfSeq
  <2>2. \A u \in ToSet(l.reqs) : p[u] = "none"
    BY <1>3 DEF LinkOK, Waiting
  <2>3. \A u \in ToSet(l.reqs) : p2[u] = "none"
    BY <1>4, <1>9, <2>1, <2>2, NoneWithout
  <2> QED BY <1>8, <2>3 DEF LinkOK, Waiting
<1>12. LinkOwed(l) \subseteq LinkOwed(m) \cup Collected(l)
  BY <1>8 DEF LinkOwed, Collected
<1> QED BY <1>1, <1>2, <1>3, <1>4, <1>8, <1>10, <1>11, <1>12 DEF LinkOK

\* Operations passed on in two parts.
LEMMA BackedTwice ==
  ASSUME NEW S \in StateType, NEW T, NEW U, NEW n \in Node, NEW a \in Seq(OpType), NEW b \in Seq(OpType),
         Backed(S, T, n, a), Backed(T, U, n, b)
  PROVE  Backed(S, U, n, a \o b)
<1>1. Source(U, n) = After(a \o b, Source(S, n))
  <2>1. PICK q \in [Uid -> Stage] : q = Source(S, n)
    BY SourceType
  <2>2. After(a \o b, q) = After(b, After(a, q))
    BY AfterConcat
  <2> QED BY <2>1, <2>2 DEF Backed
<1>2. ASSUME n # 1 PROVE U.link[n - 1].back = S.link[n - 1].back \o (a \o b)
  <2>1. PICK c \in Seq(OpType) : c = S.link[n - 1].back
    BY <1>2, Chain, StateParts, LinkParts
  <2>2. U.link[n - 1].back = (c \o a) \o b
    BY <1>2, <2>1 DEF Backed
  <2>3. (c \o a) \o b = c \o (a \o b)
    BY ConcatAssociative
  <2> QED BY <2>1, <2>2, <2>3
<1>3. FlagsSame(S, U)
  BY DEF Backed, FlagsSame
<1> QED BY <1>1, <1>2, <1>3 DEF Backed

OwedOn(S, U) == \A j \in Link : LinkOwed(S.link[j]) \subseteq LinkOwed(U.link[j]) \cup U.paid[j]

\* Relays stay repaid when node i has paid.
LEMMA PaidOn ==
  ASSUME NEW S, NEW U, NEW i \in Link, NEW C, S.paid \in [Link -> SUBSET Uid],
         U.paid = [S.paid EXCEPT ![i] = @ \cup C],
         OwedOn(S, U), i # 1 => C \subseteq LinkOwed(U.link[i - 1]), Repaid(S)
  PROVE  Repaid(U)
<1> SUFFICES ASSUME NEW j \in Link \ {1} PROVE U.paid[j] \subseteq Owed(U, j - 1)
  BY DEF Repaid
<1>1. j - 1 \in Link
  BY Chain
<1>2. \A h \in Link : S.paid[h] \subseteq U.paid[h]
  OBVIOUS
<1>3. S.paid[j] \subseteq Owed(U, j - 1)
  <2>1. S.paid[j] \subseteq Owed(S, j - 1)
    BY DEF Repaid
  <2> QED BY <1>1, <1>2, <2>1 DEF Owed, OwedOn
<1>4. CASE j = i
  BY <1>3, <1>4 DEF Owed
<1>5. CASE j # i
  BY <1>3, <1>5
<1> QED BY <1>4, <1>5

\* S after node i has taken what came back, before it passes it on.
Taken(S, i) == [S EXCEPT !.link[i] = Settled(S.link[i]),
                         !.paid[i] = @ \cup Collected(S.link[i])]

\* What such a state consists of.
LEMMA TakenIs ==
  ASSUME NEW S \in StateType, NEW i \in Link, Settled(S.link[i]) \in LinkType
  PROVE  /\ Taken(S, i) \in StateType /\ Taken(S, i).link[i] = Settled(S.link[i])
         /\ \A j \in Link : j # i => Taken(S, i).link[j] = S.link[j]
         /\ Taken(S, i).opened = S.opened /\ Taken(S, i).invoice = S.invoice
         /\ Taken(S, i).panic = S.panic
         /\ Taken(S, i).paid = [S.paid EXCEPT ![i] = @ \cup Collected(S.link[i])]
         /\ S.paid \in [Link -> SUBSET Uid]
<1>1. Collected(S.link[i]) \in SUBSET Uid
  BY DEF Collected
<1>2. PICK m \in LinkType : m = Settled(S.link[i])
  OBVIOUS
<1>3. PICK C \in SUBSET Uid : C = Collected(S.link[i])
  BY <1>1
<1>4. Taken(S, i) = [S EXCEPT !.link[i] = m, !.paid[i] = @ \cup C]
  BY <1>2, <1>3 DEF Taken
<1> HIDE DEF LinkType
<1>5. S.paid \in [Link -> SUBSET Uid] /\ S.link \in [Link -> LinkType]
  BY DEF StateType
<1>6. [S.paid EXCEPT ![i] = @ \cup C] \in [Link -> SUBSET Uid] /\ [S.link EXCEPT ![i] = m] \in [Link -> LinkType]
  BY <1>5
<1>7. PICK T : T = Taken(S, i)
  OBVIOUS
<1>8. /\ T = [S EXCEPT !.link = [S.link EXCEPT ![i] = m], !.paid = [S.paid EXCEPT ![i] = @ \cup C]]
      /\ T \in StateType
  BY <1>4, <1>5, <1>6, <1>7 DEF StateType
<1>9. /\ T.link = [S.link EXCEPT ![i] = m] /\ T.paid = [S.paid EXCEPT ![i] = @ \cup C]
      /\ T.opened = S.opened /\ T.invoice = S.invoice /\ T.panic = S.panic
  BY <1>8 DEF StateType
<1>10. T.link[i] = m /\ \A j \in Link : j # i => T.link[j] = S.link[j]
  BY ONLY <1>5, <1>9, i \in Link
<1> HIDE DEF StateType
<1> QED BY <1>2, <1>3, <1>5, <1>7, <1>8, <1>9, <1>10

\* S1 has the link y in place of link i of S, and x is what its source covers.
Passing(S, S1, T, i, a, x, y) ==
  /\ S1 \in StateType /\ Backed(S1, T, i, a) /\ a \in Seq(OpType) /\ NoRequests(a)
  /\ Fits(a, Source(S, i)) /\ Source(S1, i) = Source(S, i)
  /\ S1.link[i] = y /\ \A j \in Link : j # i => S1.link[j] = S.link[j]
  /\ S1.opened = S.opened /\ S1.invoice = S.invoice /\ S1.panic = S.panic
  /\ S1.paid = Taken(S, i).paid
  /\ x \in LinkType /\ Waiting(x) /\ Covers(After(a, Source(S, i)), x)
  /\ x.lpend = S.link[i].lpend
  /\ LinkOK(y) /\ Right(y) = Right(S.link[i])
  /\ y.reqs = x.reqs /\ y.lpend = After(S.link[i].batch, x.lpend)
  /\ LinkOwed(S.link[i]) \subseteq LinkOwed(y) \cup Collected(S.link[i])
  /\ AllOpen(S) => AllOpen(S1)

\* The node passes on what came back without canceling requests.
LEMMA PassingOn ==
  ASSUME NEW S, NEW k, Prepared(S, k), NEW i \in Link, S.link[i].token = "left coming"
  PROVE  Passing(S, Taken(S, i), Taken(S, i), i, <<>>, S.link[i], Settled(S.link[i]))
<1>1. S \in StateType /\ Good(S, k) /\ i \in Node
  BY Chain DEF Prepared
<1>2. PICK l \in LinkType : l = S.link[i]
  BY <1>1, StateParts
<1>3. LinkOK(l) /\ Covers(Source(S, i), l)
  BY <1>1, <1>2 DEF Good
<1>4. PICK m : m = Settled(l)
  OBVIOUS
<1>5. /\ m \in LinkType /\ LinkOK(m) /\ Right(m) = Right(l)
      /\ m.reqs = l.reqs /\ m.lpend = After(l.batch, l.lpend)
      /\ l.lopen /\ l.ropen /\ l.wopen => m.lopen /\ m.ropen /\ m.wopen
      /\ LinkOwed(l) \subseteq LinkOwed(m) \cup Collected(l)
  BY <1>2, <1>3, <1>4, SettledOK
<1>6. PICK S1 : S1 = Taken(S, i)
  OBVIOUS
<1>7. /\ S1 \in StateType /\ S1.link[i] = m /\ \A j \in Link : j # i => S1.link[j] = S.link[j]
      /\ S1.opened = S.opened /\ S1.invoice = S.invoice /\ S1.panic = S.panic
  <2>1. S \in StateType /\ m = Settled(S.link[i]) /\ Settled(S.link[i]) \in LinkType
    BY ONLY <1>1, <1>2, <1>4, <1>5
  <2>2. /\ Taken(S, i) \in StateType /\ Taken(S, i).link[i] = Settled(S.link[i])
        /\ \A j \in Link : j # i => Taken(S, i).link[j] = S.link[j]
        /\ Taken(S, i).opened = S.opened /\ Taken(S, i).invoice = S.invoice
        /\ Taken(S, i).panic = S.panic
    BY ONLY i \in Link, <2>1, TakenIs
  <2> QED BY ONLY <1>6, <2>1, <2>2
<1>8. i # 1 => i - 1 \in Link /\ i - 1 # i
  BY ONLY i \in Link, LeftLink
<1>9. Source(S1, i) = Source(S, i)
  BY <1>7, <1>8 DEF Source
<1>10. i # 1 => LinkOK(S1.link[i - 1])
  BY <1>1, <1>7, <1>8 DEF Good
<1>11. Backed(S1, S1, i, <<>>)
  BY <1>1, <1>7, <1>10, NothingBacks
<1>12. /\ <<>> \in Seq(OpType) /\ NoRequests(<<>>) /\ Fits(<<>>, Source(S, i))
       /\ After(<<>>, Source(S, i)) = Source(S, i)
  BY NoOperations, EmptyQueue, AfterNothing DEF NoRequests
<1>13. AllOpen(S) => AllOpen(S1)
  BY <1>2, <1>5, <1>7 DEF AllOpen
<1>14. Waiting(l)
  BY <1>3 DEF LinkOK
<1> QED BY <1>2, <1>3, <1>4, <1>5, <1>6, <1>7, <1>9, <1>11, <1>12, <1>13, <1>14 DEF Passing

\* Requests are open again, and the node cancels those that wait.
LEMMA PassingCancels ==
  ASSUME NEW S, NEW k, Prepared(S, k), NEW i \in Link, S.link[i].token = "left coming"
  PROVE  Passing(S, Put(Taken(S, i), i, Emptied(Settled(S.link[i]))), CancelRequests(Taken(S, i), i), i,
                 ForEach("cancel", S.link[i].reqs), Emptied(S.link[i]), Emptied(Settled(S.link[i])))
<1>1. S \in StateType /\ Good(S, k) /\ i \in Node
  BY Chain DEF Prepared
<1>2. PICK l \in LinkType : l = S.link[i]
  BY <1>1, StateParts
<1>3. PICK q \in [Uid -> Stage] : q = Source(S, i)
  BY <1>1, SourceType
<1>4. LinkOK(l) /\ Covers(q, l)
  BY <1>1, <1>2, <1>3 DEF Good
<1>5. PICK m : m = Settled(l)
  OBVIOUS
<1>6. PICK S0 : S0 = Taken(S, i)
  OBVIOUS
<1>7. Passing(S, S0, S0, i, <<>>, l, m)
  BY <1>2, <1>5, <1>6, PassingOn
<1>8. m \in LinkType
  BY <1>2, <1>4, <1>5, SettledOK
<1>9. /\ S0 \in StateType /\ Source(S0, i) = q /\ S0.link[i] = m
      /\ \A j \in Link : j # i => S0.link[j] = S.link[j]
      /\ S0.opened = S.opened /\ S0.invoice = S.invoice /\ S0.panic = S.panic
      /\ AllOpen(S) => AllOpen(S0)
  BY <1>3, <1>7 DEF Passing
<1>10. /\ LinkOK(m) /\ Right(m) = Right(l) /\ m.reqs = l.reqs /\ m.lpend = After(l.batch, l.lpend)
       /\ LinkOwed(l) \subseteq LinkOwed(m) \cup Collected(l)
  BY <1>2, <1>7 DEF Passing
<1>11. PICK a : a = ForEach("cancel", l.reqs)
  OBVIOUS
<1>12. PICK x : x = Emptied(l)
  OBVIOUS
<1>13. a \in Seq(OpType) /\ NoRequests(a) /\ Fits(a, q) /\ Covers(After(a, q), x)
  BY <1>4, <1>11, <1>12, EmptiedCovered
<1>14. x \in LinkType /\ LinkOK(x) /\ x.reqs = <<>> /\ x.lpend = l.lpend
  BY <1>4, <1>12, EmptiedOK
<1>15. PICK y : y = Emptied(m)
  OBVIOUS
<1>16. /\ y \in LinkType /\ LinkOK(y) /\ Right(y) = Right(m) /\ y.reqs = <<>> /\ y.lpend = m.lpend
       /\ y.lopen = m.lopen /\ y.ropen = m.ropen /\ y.wopen = m.wopen
       /\ LinkOwed(y) = LinkOwed(m)
  BY <1>8, <1>10, <1>15, EmptiedOK
<1>17. i # 1 => LinkOK(S0.link[i - 1])
  <2>1. i # 1 => i - 1 \in Link /\ i - 1 # i
    BY ONLY i \in Link, LeftLink
  <2> QED BY <1>1, <1>9, <2>1 DEF Good
<1>18. PICK S1 : S1 = Put(S0, i, y)
  OBVIOUS
<1>19. PICK T : T = CancelRequests(S0, i)
  OBVIOUS
<1>20. S1 \in StateType /\ Source(S1, i) = q /\ Backed(S1, T, i, a)
  BY <1>9, <1>10, <1>11, <1>13, <1>15, <1>17, <1>18, <1>19, CancelRequestsBacks
<1>21. /\ S1.link[i] = y /\ \A j \in Link : j # i => S1.link[j] = S0.link[j]
       /\ S1.opened = S0.opened /\ S1.invoice = S0.invoice /\ S1.panic = S0.panic /\ S1.paid = S0.paid
  BY <1>9, <1>16, <1>18, PutIs
<1>22. AllOpen(S0) => AllOpen(S1)
  BY <1>9, <1>16, <1>21 DEF AllOpen
<1>23. Waiting(x)
  BY <1>14 DEF LinkOK
<1>24. Passing(S, S1, T, i, a, x, y)
  BY <1>2, <1>3, <1>6, <1>9, <1>10, <1>13, <1>14, <1>16, <1>20, <1>21, <1>22, <1>23 DEF Passing
<1> QED BY <1>2, <1>5, <1>6, <1>11, <1>12, <1>15, <1>18, <1>19, <1>24

\* The operations are passed on.
LEMMA PassedOn ==
  ASSUME NEW S, NEW k, Prepared(S, k), NEW i \in Link, S.link[i].token = "left coming",
         NEW S1, NEW T, NEW a, NEW x, NEW y, Passing(S, S1, T, i, a, x, y)
  PROVE  /\ Prepared(HandleBack(T, i, S.link[i].batch), k)
         /\ AllOpen(S) => AllOpen(HandleBack(T, i, S.link[i].batch))
<1>1. S \in StateType /\ Good(S, k) /\ i \in Node /\ i # N
  BY Chain DEF Prepared
<1>2. PICK l \in LinkType : l = S.link[i]
  BY <1>1, StateParts
<1>3. PICK ops \in Seq(OpType) : ops = l.batch
  BY LinkParts
<1>4. PICK q \in [Uid -> Stage] : q = Source(S, i)
  BY <1>1, SourceType
<1>5. NoRequests(ops) /\ Fits(ops, l.lpend)
  BY <1>1, <1>2, <1>3 DEF Good, LinkOK, Synced
<1>6. PICK r : r = After(a, q)
  OBVIOUS
<1>7. a \in Seq(OpType) /\ NoRequests(a) /\ Fits(a, q)
  BY <1>4 DEF Passing
<1>8. r \in [Uid -> Stage]
  BY <1>6, <1>7, AfterType
<1>9. Fits(ops, r) /\ Covers(After(ops, r), y)
  <2>1. /\ x \in LinkType /\ Fits(ops, x.lpend) /\ Waiting(x) /\ Covers(r, x)
        /\ y.reqs = x.reqs /\ y.lpend = After(ops, x.lpend)
    BY <1>2, <1>3, <1>4, <1>5, <1>6 DEF Passing
  <2> QED BY ONLY <1>5, <1>8, <2>1, ops \in Seq(OpType), BatchCovered
<1>10. PICK U : U = HandleBack(T, i, ops)
  OBVIOUS
<1>11. S1 \in StateType /\ Backed(S1, T, i, a) /\ T \in StateType /\ Source(T, i) = r
  BY <1>4, <1>6 DEF Passing, Backed
<1>12. i # 1 => LinkOK(T.link[i - 1])
  BY <1>11 DEF Backed
<1>13. Backed(T, U, i, ops)
  BY <1>5, <1>9, <1>10, <1>11, <1>12, HandleBackBacks
<1>14. PICK c : c = a \o ops
  OBVIOUS
<1>15. Backed(S1, U, i, c) /\ c \in Seq(OpType) /\ After(c, q) = After(ops, r)
  <2>1. Backed(S1, U, i, a \o ops)
    BY <1>1, <1>7, <1>11, <1>13, BackedTwice
  <2>2. a \o ops \in Seq(OpType) /\ After(a \o ops, q) = After(ops, After(a, q))
    <3>1. a \in Seq(OpType) /\ q \in [Uid -> Stage]
      BY <1>7
    <3> QED BY ONLY <3>1, ops \in Seq(OpType), AfterConcat
  <2> QED BY <1>6, <1>14, <2>1, <2>2
<1>16. i # 1 => i - 1 \in Link /\ i - 1 # i
  BY ONLY i \in Link, LeftLink
<1>17. Beside(S, S1, i)
  BY <1>1, <1>16 DEF Beside, Passing
<1>18. i = 1 => Unused(After(ops, r), k)
  <2>1. ASSUME i = 1, NEW u \in k PROVE After(ops, r)[u] = "none"
    <3>1. q[u] = "none" /\ u \in Uid
      BY <1>1, <1>4, <2>1 DEF Good, Unused, Source, Prepared
    <3>2. r[u] = "none"
      BY <1>6, <1>7, <3>1, NoneWithout
    <3> QED BY <1>5, <1>8, <1>9, <3>1, <3>2, NoneWithout
  <2> QED BY <2>1 DEF Unused
<1>19. Able(S1, i, After(c, Source(S1, i)), k)
  <2>1. LinkOK(S1.link[i]) /\ S1.link[i] = y /\ Source(S1, i) = q
    BY <1>4 DEF Passing
  <2> QED BY <1>1, <1>9, <1>15, <1>18, <2>1 DEF Able
<1>20. Good(U, k)
  BY <1>1, <1>15, <1>17, <1>19, GoodBacked
<1>21. U \in StateType /\ Keeps(S1, U)
  BY <1>1, <1>11, <1>15, BackedKeeps DEF Backed
<1>22. PICK C : C = Collected(l)
  OBVIOUS
<1>23. /\ U.paid = [S.paid EXCEPT ![i] = @ \cup C] /\ S.paid \in [Link -> SUBSET Uid]
       /\ U.panic = S.panic
  <2>1. U.paid = S1.paid /\ S1.paid = Taken(S, i).paid /\ U.panic = S1.panic /\ S1.panic = S.panic
    BY <1>21 DEF Keeps, Remembers, Passing
  <2>2. Settled(S.link[i]) \in LinkType
    BY <1>1, <1>2, SettledOK DEF Good
  <2> QED BY <1>1, <1>2, <1>22, <2>1, <2>2, TakenIs
<1>24. ASSUME NEW j \in Link PROVE LinkOwed(S.link[j]) \subseteq LinkOwed(U.link[j]) \cup U.paid[j]
  <2>1. LinkOwed(S1.link[j]) \subseteq LinkOwed(U.link[j])
    BY <1>21 DEF Keeps, Remembers
  <2>2. CASE j = i
    <3>1. LinkOwed(S.link[i]) \subseteq LinkOwed(S1.link[i]) \cup C
      BY <1>2, <1>22 DEF Passing
    <3>2. C \subseteq U.paid[i]
      BY <1>23
    <3> QED BY <2>1, <2>2, <3>1, <3>2
  <2>3. CASE j # i
    BY <2>1, <2>3 DEF Passing
  <2> QED BY <2>2, <2>3
<1>25. ASSUME i # 1 PROVE C \subseteq LinkOwed(U.link[i - 1])
  <2>1. PICK b \in Seq(OpType) : b = T.link[i - 1].back
    BY <1>11, <1>16, <1>25, StateParts, LinkParts
  <2>2. U.link[i - 1].back = b \o ops
    BY <1>13, <1>25, <2>1 DEF Backed
  <2>3. ToSet(ops) \subseteq ToSet(U.link[i - 1].back)
    <3>1. IsQueue(b) /\ IsQueue(ops)
      BY QueueOfSeq
    <3> QED BY <2>2, <3>1, ConcatQueue
  <2> QED BY <1>3, <1>22, <2>3 DEF LinkOwed, Collected
<1>26. Repaid(U)
  <2>1. OwedOn(S, U) /\ Repaid(S)
    BY <1>24 DEF OwedOn, Prepared
  <2> QED BY ONLY i \in Link, <1>23, <1>25, <2>1, PaidOn
<1>27. AllOpen(S) => AllOpen(U)
  BY <1>21 DEF Keeps, Passing
<1> QED BY <1>2, <1>3, <1>10, <1>20, <1>21, <1>23, <1>26, <1>27 DEF Prepared

\* Operations come back to a node.
LEMMA ReceiveBackKeeps ==
  ASSUME NEW k, Prepared(State, k), NEW i \in Link, ReceiveBack(i)
  PROVE  Result(k)
<1>1. State \in StateType /\ i \in Node
  BY Chain DEF Prepared
<1>2. PICK l \in LinkType : l = State.link[i] /\ l = link[i]
  BY <1>1, StateLink
<1>3. PICK S : S = Taken(State, i)
  OBVIOUS
<1>4. [State EXCEPT !.link[i] = [l EXCEPT !.token = "left", !.batch = <<>>, !.lpend = After(l.batch, @),
                                          !.lopen = l.ropen],
                    !.paid[i] = @ \cup {u \in Uid : Makes("collect", u) \in Range(l.batch)}] = S
  BY <1>2, <1>3 DEF Taken, Settled, Collected, Range, ToSet
<1>5. l.token = "left coming"
  BY <1>2 DEF ReceiveBack
<1>6. \E T \in {CancelRequests(S, i), S} : CreateFriendMessages(HandleBack(T, i, l.batch), i)
  BY <1>2, <1>4 DEF ReceiveBack
<1>7. PICK T \in {CancelRequests(S, i), S} : CreateFriendMessages(HandleBack(T, i, l.batch), i)
  BY <1>6
<1>8. \E S1, a, x, y : Passing(State, S1, T, i, a, x, y)
  <2>1. CASE T = S
    BY <1>2, <1>3, <1>5, <2>1, PassingOn
  <2>2. CASE T = CancelRequests(S, i)
    BY <1>2, <1>3, <1>5, <2>2, PassingCancels
  <2> QED BY <1>7, <2>1, <2>2
<1>9. PICK S1, a, x, y : Passing(State, S1, T, i, a, x, y)
  BY <1>8
<1>10. PICK U : U = HandleBack(T, i, l.batch)
  OBVIOUS
<1>11. Prepared(U, k) /\ (AllOpen(State) => AllOpen(U))
  BY <1>2, <1>5, <1>9, <1>10, PassedOn
<1> QED BY <1>1, <1>7, <1>10, <1>11, Handled DEF Result

-----------------------------------------------------------------------------
(***************************************************************************)
(* Every handler, also when friends are removed, leaves a sane state.      *)
(***************************************************************************)
Less(l, m) == m.back \in {l.back, <<>>} /\ m.batch \in {l.batch, <<>>}

\* A link with nothing new to collect.
LEMMA LessSane ==
  ASSUME NEW S, NEW c, Sane(S, c), NEW i \in Link, NEW m \in LinkType, Less(S.link[i], m)
  PROVE  Sane(Put(S, i, m), c)
<1>1. LinkCollects(S.link[i], c)
  BY DEF Sane, Collects
<1>2. CollectsIn(<<>>, c)
  BY CollectsNothing
<1>3. LinkCollects(m, c)
  BY <1>1, <1>2 DEF LinkCollects, Less
<1> QED BY <1>3, PutSane

\* A sane state that messages are made of, or that is persisted as it is.
LEMMA SaneHandled ==
  ASSUME NEW S, NEW c, Sane(S, c), Sane(State, c), NEW n \in Node,
         \/ CreateFriendMessages(S, n) \/ Messages(S, n, TRUE, FALSE)
         \/ Messages(S, n, FALSE, TRUE) \/ Done(S)
  PROVE  Sane(State', c)
<1>1. CASE CreateFriendMessages(S, n) \/ Messages(S, n, TRUE, FALSE) \/ Messages(S, n, FALSE, TRUE)
  BY <1>1, MessagesSane DEF CreateFriendMessages
<1>2. CASE Done(S)
  <2>1. S \in StateType
    BY DEF Sane
  <2>2. State' = S \/ State' = State
    BY <1>2, <2>1, DoneIs
  <2> QED BY <2>2
<1> QED BY <1>1, <1>2

\* Connections, tokens and statuses of one link.
LEMMA LinkStepSane ==
  ASSUME NEW c, Sane(State, c), NEW i \in Link,
         \/ PassToken(i) \/ RightOffline(i) \/ LeftOnline(i) \/ RightOnline(i)
         \/ SetRequestsStatus(i) \/ RightRemoves(i) \/ RightInconsistent(i) \/ Reset(i)
  PROVE  Sane(State', c)
<1>1. State \in StateType /\ i \in Node /\ i + 1 \in Node
  BY Chain DEF Sane
<1>2. PICK l \in LinkType : l = State.link[i] /\ l = link[i]
  BY <1>1, StateLink
<1>3. \E m \in LinkType, n \in Node :
        /\ Less(l, m)
        /\ \/ CreateFriendMessages(Put(State, i, m), n) \/ Messages(Put(State, i, m), n, TRUE, FALSE)
           \/ Messages(Put(State, i, m), n, FALSE, TRUE) \/ Done(Put(State, i, m))
  <2>1. CASE PassToken(i)
    <3>1. \E t \in {"left", "right"}, n \in Node :
            CreateFriendMessages([State EXCEPT !.link[i].token = t], n)
      BY <1>1, <2>1 DEF PassToken
    <3>2. PICK t \in {"left", "right"}, n \in Node :
            CreateFriendMessages([State EXCEPT !.link[i].token = t], n)
      BY <3>1
    <3>3. PICK m : m = [l EXCEPT !.token = t]
      OBVIOUS
    <3>4. m \in LinkType /\ Less(l, m)
      BY <3>3 DEF LinkType, Less
    <3>5. [State EXCEPT !.link[i].token = t] = Put(State, i, m)
      BY <1>2, <3>3 DEF Put
    <3> QED BY <3>2, <3>4, <3>5
  <2>2. CASE RightOffline(i)
    <3>1. PICK m : m = [l EXCEPT !.ronline = FALSE]
      OBVIOUS
    <3>2. m \in LinkType /\ Less(l, m)
      BY <3>1 DEF LinkType, Less
    <3>3. [State EXCEPT !.link[i].ronline = FALSE] = Put(State, i, m)
      BY <1>2, <3>1 DEF Put
    <3> QED BY <1>1, <2>2, <3>2, <3>3 DEF RightOffline
  <2>3. CASE LeftOnline(i)
    <3>1. PICK m : m = [l EXCEPT !.lonline = TRUE]
      OBVIOUS
    <3>2. m \in LinkType /\ Less(l, m)
      BY <3>1 DEF LinkType, Less
    <3>3. [State EXCEPT !.link[i].lonline = TRUE] = Put(State, i, m)
      BY <1>2, <3>1 DEF Put
    <3> QED BY <1>1, <2>3, <3>2, <3>3 DEF LeftOnline
  <2>4. CASE RightOnline(i)
    <3>1. PICK m : m = [l EXCEPT !.ronline = TRUE, !.aside = FALSE]
      OBVIOUS
    <3>2. m \in LinkType /\ Less(l, m)
      BY <3>1 DEF LinkType, Less
    <3>3. [State EXCEPT !.link[i].ronline = TRUE, !.link[i].aside = FALSE] = Put(State, i, m)
      BY <1>2, <3>1 DEF Put
    <3> QED BY <1>1, <2>4, <3>2, <3>3 DEF RightOnline
  <2>5. CASE SetRequestsStatus(i)
    <3>1. PICK m : m = [l EXCEPT !.wopen = ~@, !.aside = FALSE]
      OBVIOUS
    <3>2. m \in LinkType /\ Less(l, m)
      BY <3>1 DEF LinkType, Less
    <3>3. [State EXCEPT !.link[i].wopen = ~@, !.link[i].aside = FALSE] = Put(State, i, m)
      BY <1>2, <3>1 DEF Put
    <3> QED BY <1>1, <2>5, <3>2, <3>3 DEF SetRequestsStatus
  <2>6. CASE RightRemoves(i)
    <3>1. PICK m : m = [l EXCEPT !.rpend = NothingPending, !.back = <<>>, !.aside = FALSE,
                                 !.ropen = FALSE, !.wopen = FALSE, !.token = "void", !.batch = <<>>]
      OBVIOUS
    <3>2. NothingPending \in [Uid -> Stage] /\ <<>> \in Seq(OpType)
      BY NoOperations DEF NothingPending, Stage
    <3>3. m \in LinkType /\ Less(l, m)
      BY <3>1, <3>2 DEF LinkType, Less
    <3>4. Done(Put(State, i, m))
      BY <1>2, <2>6, <3>1 DEF RightRemoves, Put
    <3> QED BY <1>1, <3>3, <3>4
  <2>7. CASE RightInconsistent(i)
    <3>1. PICK m : m = [l EXCEPT !.rstatus = "inconsistent"]
      OBVIOUS
    <3>2. m \in LinkType /\ Less(l, m)
      BY <3>1 DEF LinkType, Less
    <3>3. [State EXCEPT !.link[i].rstatus = "inconsistent"] = Put(State, i, m)
      BY <1>2, <3>1 DEF Put
    <3> QED BY <1>1, <2>7, <3>2, <3>3 DEF RightInconsistent
  <2>8. CASE Reset(i)
    <3> DEFINE fresh(side) ==
          [l EXCEPT !.lstatus = "consistent", !.rstatus = "consistent",
                    !.lpend = NothingPending, !.rpend = NothingPending,
                    !.lopen = FALSE, !.ropen = FALSE, !.token = side, !.batch = <<>>, !.aside = FALSE]
    <3>1. \E side \in {"left", "right"}, n \in Node : CreateFriendMessages(Put(State, i, fresh(side)), n)
      BY <1>1, <1>2, <2>8 DEF Reset, Put
    <3>2. NothingPending \in [Uid -> Stage] /\ <<>> \in Seq(OpType)
      BY NoOperations DEF NothingPending, Stage
    <3>3. \A side \in {"left", "right"} : fresh(side) \in LinkType /\ Less(l, fresh(side))
      BY <3>2 DEF LinkType, Less
    <3> HIDE DEF fresh
    <3> QED BY <3>1, <3>3
  <2> QED BY <2>1, <2>2, <2>3, <2>4, <2>5, <2>6, <2>7, <2>8
<1>4. PICK m \in LinkType, n \in Node :
        /\ Less(l, m)
        /\ \/ CreateFriendMessages(Put(State, i, m), n) \/ Messages(Put(State, i, m), n, TRUE, FALSE)
           \/ Messages(Put(State, i, m), n, FALSE, TRUE) \/ Done(Put(State, i, m))
  BY <1>3
<1>5. Sane(Put(State, i, m), c)
  BY <1>2, <1>4, LessSane
<1> QED BY <1>4, <1>5, SaneHandled

\* Requests and answers that arrive.
LEMMA ReceiveSane ==
  ASSUME NEW c, Sane(State, c), NEW i \in Link, ReceiveRequests(i) \/ ReceiveBack(i)
  PROVE  Sane(State', c)
<1>1. State \in StateType /\ i \in Node /\ i + 1 \in Node /\ i + 1 # 1
  BY Chain DEF Sane
<1>2. PICK l \in LinkType : l = State.link[i] /\ l = link[i]
  BY <1>1, StateLink
<1>3. PICK ops \in Seq(OpType) : ops = l.batch
  BY LinkParts
<1>4. /\ After(ops, l.rpend) \in [Uid -> Stage] /\ After(ops, l.lpend) \in [Uid -> Stage]
      /\ l.ropen \in BOOLEAN
  BY LinkParts, AfterType
<1>5. <<>> \in Seq(OpType)
  BY ONLY NoOperations
<1>6. CASE ReceiveRequests(i)
  <2>1. PICK m : m = Arrived(l)
    OBVIOUS
  <2>2. PICK p \in [Uid -> Stage] : p = After(ops, l.rpend)
    BY <1>4
  <2>3. m = [l EXCEPT !.token = "right", !.batch = <<>>, !.rpend = p]
    BY <1>3, <2>1, <2>2 DEF Arrived
  <2>4. m \in LinkType /\ Less(l, m)
    BY <1>5, <2>3 DEF LinkType, Less
  <2>5. PICK S0 : S0 = Put(State, i, m)
    OBVIOUS
  <2>6. Sane(S0, c)
    BY <1>2, <2>4, <2>5, LessSane
  <2>7. [State EXCEPT !.link[i] = [l EXCEPT !.token = "right", !.batch = <<>>, !.rpend = After(l.batch, @)]]
          = S0
    BY <2>1, <2>5 DEF Put, Arrived
  <2>8. PICK refused : CreateFriendMessages(HandleRequests(S0, i + 1, Ids(l.batch), refused), i + 1)
    BY <1>2, <1>6, <2>7 DEF ReceiveRequests, Ids
  <2>9. Ids(l.batch) \in Seq(Uid)
    <3>1. Len(ops) \in Nat /\ \A k \in 1..Len(ops) : ops[k].id \in Uid
      BY OpsTyped
    <3> QED BY <1>3, <3>1 DEF Ids
  <2>10. PICK n \in Node : n = i + 1 /\ n # 1
    BY <1>1
  <2>11. Sane(HandleRequests(S0, n, Ids(l.batch), refused), c)
    BY <2>6, <2>9, <2>10, HandleRequestsSane
  <2> QED BY <2>8, <2>10, <2>11, SaneHandled
<1>7. CASE ReceiveBack(i)
  <2>1. PICK S : S = Taken(State, i)
    OBVIOUS
  <2>2. PICK m : m = Settled(l)
    OBVIOUS
  <2>3. PICK p \in [Uid -> Stage] : p = After(ops, l.lpend)
    BY <1>4
  <2>4. m = [l EXCEPT !.token = "left", !.batch = <<>>, !.lpend = p, !.lopen = l.ropen]
    BY <1>3, <2>2, <2>3 DEF Settled
  <2>5. m \in LinkType /\ Less(l, m)
    BY <1>4, <1>5, <2>4 DEF LinkType, Less
  <2>6. /\ S \in StateType /\ S.link[i] = m /\ \A j \in Link : j # i => S.link[j] = State.link[j]
        /\ S.paid = [State.paid EXCEPT ![i] = @ \cup Collected(l)]
        /\ State.paid \in [Link -> SUBSET Uid]
    <3>1. Settled(State.link[i]) \in LinkType
      BY <1>2, <2>2, <2>5
    <3>2. /\ Taken(State, i) \in StateType /\ Taken(State, i).link[i] = Settled(State.link[i])
          /\ \A j \in Link : j # i => Taken(State, i).link[j] = State.link[j]
          /\ Taken(State, i).paid = [State.paid EXCEPT ![i] = @ \cup Collected(State.link[i])]
          /\ State.paid \in [Link -> SUBSET Uid]
      BY ONLY i \in Link, <1>1, <3>1, TakenIs
    <3> QED BY <1>2, <2>1, <2>2, <3>2
  <2>7. LinkCollects(l, c) /\ CollectsIn(ops, c)
    BY <1>2, <1>3 DEF Sane, Collects, LinkCollects
  <2>8. LinkCollects(m, c)
    BY <2>5, <2>7, CollectsNothing DEF LinkCollects, Less
  <2>9. Collected(l) \subseteq c
    BY <1>3, <2>7 DEF Collected, CollectsIn, Makes
  <2>10. Sane(S, c)
    BY <2>6, <2>8, <2>9 DEF Sane, Collects
  <2>11. [State EXCEPT !.link[i] = [l EXCEPT !.token = "left", !.batch = <<>>, !.lpend = After(l.batch, @),
                                             !.lopen = l.ropen],
                       !.paid[i] = @ \cup {u \in Uid : Makes("collect", u) \in Range(l.batch)}] = S
    BY <1>2, <2>1 DEF Taken, Settled, Collected, Range, ToSet
  <2>12. \E T \in {CancelRequests(S, i), S} : CreateFriendMessages(HandleBack(T, i, l.batch), i)
    BY <1>2, <1>7, <2>11 DEF ReceiveBack
  <2>13. PICK T \in {CancelRequests(S, i), S} : CreateFriendMessages(HandleBack(T, i, l.batch), i)
    BY <2>12
  <2>14. Sane(T, c)
    BY <2>10, <2>13, CancelRequestsSane
  <2>15. Sane(HandleBack(T, i, ops), c)
    BY <2>7, <2>14, HandleBackSane
  <2> QED BY <1>1, <1>3, <2>13, <2>15, SaneHandled
<1> QED BY <1>6, <1>7

\* Requests are canceled when a friend is lost.
LEMMA LossSane ==
  ASSUME NEW c, Sane(State, c), NEW i \in Link,
         LeftOffline(i) \/ LeftRemoves(i) \/ LeftInconsistent(i)
  PROVE  Sane(State', c)
<1>1. State \in StateType /\ i \in Node
  BY Chain DEF Sane
<1>2. PICK l \in LinkType : l = State.link[i] /\ l = link[i]
  BY <1>1, StateLink
<1>3. CASE LeftOffline(i)
  <2>1. PICK m : m = [l EXCEPT !.lonline = FALSE]
    OBVIOUS
  <2>2. m \in LinkType /\ Less(l, m)
    BY <2>1 DEF LinkType, Less
  <2>3. PICK S : S = Put(State, i, m)
    OBVIOUS
  <2>4. [State EXCEPT !.link[i].lonline = FALSE] = S
    BY <1>2, <2>1, <2>3 DEF Put
  <2>5. Sane(CancelRequests(S, i), c)
    BY <1>2, <2>2, <2>3, LessSane, CancelRequestsSane
  <2>6. CreateFriendMessages(CancelRequests(S, i), i)
    BY <1>3, <2>4 DEF LeftOffline
  <2> QED BY <1>1, <2>5, <2>6, SaneHandled
<1>4. CASE LeftRemoves(i)
  <2>1. PICK S : S = CancelPending(CancelRequests(State, i), i)
    OBVIOUS
  <2>2. Sane(S, c) /\ S \in StateType
    BY <2>1, CancelRequestsSane, CancelPendingSane DEF Sane
  <2>3. PICK h \in LinkType : h = S.link[i]
    BY <2>2, StateParts
  <2>4. PICK m : m = [h EXCEPT !.lopen = FALSE, !.token = "void", !.batch = <<>>]
    OBVIOUS
  <2>5. m \in LinkType /\ Less(h, m)
    BY <2>4, NoOperations DEF LinkType, Less
  <2>6. [S EXCEPT !.link[i].lopen = FALSE, !.link[i].token = "void", !.link[i].batch = <<>>]
          = Put(S, i, m)
    <3>1. S.link \in [Link -> LinkType]
      BY <2>2, StateParts
    <3> QED BY <2>2, <2>3, <2>4, <3>1 DEF Put, StateType
  <2>7. CreateFriendMessages(Put(S, i, m), i)
    BY <1>4, <2>1, <2>6 DEF LeftRemoves
  <2>8. Sane(Put(S, i, m), c)
    BY <2>2, <2>3, <2>5, LessSane
  <2> QED BY <1>1, <2>7, <2>8, SaneHandled
<1>5. CASE LeftInconsistent(i)
  <2>1. PICK S \in {CancelRequests(CancelPending(State, i), i), CancelRequests(State, i)} :
          CreateFriendMessages([S EXCEPT !.link[i].lstatus = "inconsistent"], i)
    BY <1>5 DEF LeftInconsistent
  <2>2. Sane(S, c) /\ S \in StateType
    BY <2>1, CancelRequestsSane, CancelPendingSane DEF Sane
  <2>3. PICK h \in LinkType : h = S.link[i]
    BY <2>2, StateParts
  <2>4. PICK m : m = [h EXCEPT !.lstatus = "inconsistent"]
    OBVIOUS
  <2>5. m \in LinkType /\ Less(h, m)
    BY <2>4 DEF LinkType, Less
  <2>6. [S EXCEPT !.link[i].lstatus = "inconsistent"] = Put(S, i, m)
    BY <2>3, <2>4 DEF Put
  <2>7. Sane(Put(S, i, m), c)
    BY <2>2, <2>3, <2>5, LessSane
  <2> QED BY <1>1, <2>1, <2>6, <2>7, SaneHandled
<1> QED BY <1>3, <1>4, <1>5

\* A node restarts.
LEMMA RestartSane ==
  ASSUME NEW c, Sane(State, c), NEW n \in Node, Restart(n)
  PROVE  Sane(State', c)
<1>1. State \in StateType /\ State.link = link
  BY DEF Sane, State
<1>2. PICK ls : ls = [i \in Link |-> [link[i] EXCEPT !.lonline = @ /\ i # n, !.ronline = @ /\ i # n - 1]]
  OBVIOUS
<1>3. ASSUME NEW i \in Link
      PROVE  ls[i] \in LinkType /\ ls[i].back = link[i].back /\ ls[i].batch = link[i].batch
  <2>1. PICK l \in LinkType : l = link[i]
    BY <1>1, StateLink
  <2>2. ls[i] = [l EXCEPT !.lonline = @ /\ i # n, !.ronline = @ /\ i # n - 1]
    BY <1>2, <2>1
  <2> QED BY <2>1, <2>2 DEF LinkType
<1>4. PICK T : T = [State EXCEPT !.link = ls]
  OBVIOUS
<1>5. T \in StateType /\ T.link = ls /\ T.paid = State.paid
  <2>1. ls \in [Link -> LinkType]
    BY <1>2, <1>3
  <2> HIDE DEF LinkType
  <2> QED BY <1>1, <1>4, <2>1 DEF StateType
<1>6. Sane(T, c)
  BY <1>1, <1>3, <1>5 DEF Sane, Collects, LinkCollects
<1>7. Done(T)
  BY <1>2, <1>4 DEF Restart
<1> QED BY <1>6, <1>7, SaneHandled

\* The buyer creates a transaction.
LEMMA CreateTransactionSane ==
  ASSUME NEW c, Sane(State, c), NEW u \in Uid, CreateTransaction(u)
  PROVE  Sane(State', c)
<1>1. State \in StateType /\ 1 \in Link /\ 1 \in Node
  BY Chain DEF Sane
<1>2. PICK l \in LinkType : l = State.link[1]
  BY <1>1, StateLink
<1>3. PICK m : m = [l EXCEPT !.reqs = Append(@, u)]
  OBVIOUS
<1>4. l.reqs \in Seq(Uid)
  BY LinkParts
<1>5. Append(l.reqs, u) \in Seq(Uid)
  BY <1>4
<1>6. m \in LinkType /\ Less(l, m)
  BY <1>3, <1>5 DEF LinkType, Less
<1>7. PICK r : r = [State.opened EXCEPT ![u] = "request"]
  OBVIOUS
<1>8. State.opened \in [Uid -> Stage]
  BY <1>1, StateParts
<1>9. r \in [Uid -> Stage]
  BY <1>7, <1>8 DEF Stage
<1>10. PICK S0 : S0 = Put(State, 1, m)
  OBVIOUS
<1>11. PICK S : S = [S0 EXCEPT !.opened = r]
  OBVIOUS
<1>12. Sane(S, c)
  BY <1>1, <1>2, <1>6, <1>9, <1>10, <1>11, LessSane, OpenedSane
<1>13. [State EXCEPT !.link[1].reqs = Append(@, u), !.opened[u] = "request"] = S
  <2>1. [State EXCEPT !.link[1].reqs = Append(@, u), !.opened[u] = "request"]
          = [State EXCEPT !.link[1] = m, !.opened = r]
    BY <1>1, <1>2, <1>3, <1>7
  <2> QED BY <1>10, <1>11, <2>1 DEF Put
<1>14. CreateFriendMessages(S, 1)
  BY <1>13 DEF CreateTransaction
<1> QED BY <1>1, <1>12, <1>14, SaneHandled

\* The seller and its invoice; c is what is committed to afterwards.
LEMMA InvoiceStepSane ==
  ASSUME NEW c, Sane(State, c),
         AddInvoice \/ CancelInvoice \/ \E us \in Enough : CommitInvoice(us) /\ us \subseteq c
  PROVE  Sane(State', c)
<1>1. State \in StateType /\ N \in Node /\ N # 1
  BY Chain, ChainAssumption DEF Sane
<1>2. State.invoice = invoice
  BY DEF State
<1>3. invoice.incoming \in SUBSET Uid
  BY <1>1, <1>2, StateParts
<1>4. PICK S1 : S1 = [State EXCEPT !.invoice = NoInvoice]
  OBVIOUS
<1>5. Sane(S1, c)
  <2>1. NoInvoice \in [open : BOOLEAN, incoming : SUBSET Uid]
    BY DEF NoInvoice
  <2> QED BY <1>4, <2>1, InvoiceSane
<1>6. CASE AddInvoice
  <2>1. PICK inv : inv = [open |-> TRUE, incoming |-> {}]
    OBVIOUS
  <2>2. inv \in [open : BOOLEAN, incoming : SUBSET Uid]
    BY <2>1
  <2>3. PICK T : T = [State EXCEPT !.invoice = inv]
    OBVIOUS
  <2>4. State' = T
    BY <1>6, <2>1, <2>3 DEF AddInvoice, State
  <2>5. Sane(T, c)
    BY <2>2, <2>3, InvoiceSane
  <2> QED BY <2>4, <2>5
<1>7. CASE CancelInvoice
  <2>1. PICK us : us = SetToSeq(invoice.incoming)
    OBVIOUS
  <2>2. us \in Seq(Uid)
    BY <1>3, <2>1, InvoiceList
  <2>3. PICK ops : ops = ForEach("cancel", us)
    OBVIOUS
  <2>4. ops \in Seq(OpType) /\ CollectsIn(ops, c)
    BY <2>2, <2>3, CollectsForEach
  <2>5. Sane(PushBack(S1, N, ops), c)
    BY <1>1, <1>5, <2>4, PushBackSane
  <2>6. Sane(Panic(S1, "invoice without origin"), c)
    <3>1. "invoice without origin" \in Place
      BY DEF Place
    <3> QED BY <1>5, <3>1, PanicSane
  <2>7. \/ CreateFriendMessages(PushBack(S1, N, ops), N)
        \/ CreateFriendMessages(Panic(S1, "invoice without origin"), N)
    BY <1>4, <1>7, <2>1, <2>3 DEF CancelInvoice
  <2> QED BY <1>1, <2>5, <2>6, <2>7, SaneHandled
<1>8. ASSUME NEW paying \in Enough, CommitInvoice(paying), paying \subseteq c PROVE Sane(State', c)
  <2>1. PICK V : V = {u \in paying : u \in invoice.incoming /\ HasOrigin(S1, N, u)}
    OBVIOUS
  <2>2. PICK us : us = SetToSeq(V)
    OBVIOUS
  <2>3. us \in Seq(Uid) /\ ToSet(us) \subseteq c
    BY <1>3, <1>8, <2>1, <2>2, InvoiceList
  <2>4. PICK ops : ops = ForEach("collect", us)
    OBVIOUS
  <2>5. ops \in Seq(OpType) /\ CollectsIn(ops, c)
    BY <2>3, <2>4, CollectsForEach
  <2>6. Sane(PushBack(S1, N, ops), c)
    BY <1>1, <1>5, <2>5, PushBackSane
  <2>7. CreateFriendMessages(PushBack(S1, N, ops), N)
    BY <1>4, <1>8, <2>1, <2>2, <2>4 DEF CommitInvoice
  <2> QED BY <1>1, <2>6, <2>7, SaneHandled
<1> QED BY <1>6, <1>7, <1>8

-----------------------------------------------------------------------------
(***************************************************************************)
(* The inductive invariant.                                                *)
(***************************************************************************)
Left == [drops : Nat, closes : 0 .. MaxCloses, breaks : 0 .. MaxBreaks, invoices : Nat,
         created : SUBSET Uid]

NoCloses == left.closes = MaxCloses

IInv ==
  /\ Sane(State, committed)
  /\ left \in Left
  /\ Befriended => Good(State, left.created) /\ Repaid(State)
  /\ Befriended /\ NoCloses => AllOpen(State) /\ panicked \subseteq {"amounts"}

\* The bounds only go down, and nobody forgets that a friend was removed.
LEMMA LeftKeeps ==
  ASSUME left \in Left, [Next]_vars
  PROVE  /\ left' \in Left
         /\ Befriended' => Befriended
         /\ NoCloses' => NoCloses
<1> USE BoundsAssumption DEF Left, Befriended, NoCloses
<1>1. MaxBreaks \in Nat /\ MaxCloses \in Nat
  OBVIOUS
<1>2. CASE UNCHANGED left
  BY <1>2
<1>3. CASE Dropped
  BY <1>3 DEF Dropped
<1>4. CASE Broken
  BY <1>1, <1>4 DEF Broken
<1>5. CASE left.closes > 0 /\ left' = [left EXCEPT !.closes = @ - 1]
  BY <1>1, <1>5
<1>6. CASE left.invoices > 0 /\ left' = [left EXCEPT !.invoices = @ - 1]
  BY <1>6
<1>7. CASE \E u \in Uid : left' = [left EXCEPT !.created = @ \ {u}]
  BY <1>7
<1>8. \/ UNCHANGED left \/ Dropped \/ Broken
      \/ left.closes > 0 /\ left' = [left EXCEPT !.closes = @ - 1]
      \/ left.invoices > 0 /\ left' = [left EXCEPT !.invoices = @ - 1]
      \/ \E u \in Uid : left' = [left EXCEPT !.created = @ \ {u}]
  BY DEF Next, vars, ReceiveRequests, ReceiveBack, PassToken, LeftOffline, RightOffline, LeftOnline,
         RightOnline, SetRequestsStatus, LeftRemoves, RightRemoves, LeftInconsistent,
         RightInconsistent, Reset, Restart, CreateTransaction, AddInvoice, CancelInvoice, CommitInvoice
<1> QED BY <1>2, <1>3, <1>4, <1>5, <1>6, <1>7, <1>8

\* Every step leaves a sane state.
LEMMA SaneStep ==
  ASSUME Sane(State, committed), Next
  PROVE  Sane(State', committed')
<1>1. PICK c : c = committed'
  OBVIOUS
<1>2. committed \subseteq committed'
  BY DEF Next, ReceiveRequests, ReceiveBack, PassToken, LeftOffline, RightOffline, LeftOnline,
         RightOnline, SetRequestsStatus, LeftRemoves, RightRemoves, LeftInconsistent,
         RightInconsistent, Reset, Restart, CreateTransaction, AddInvoice, CancelInvoice, CommitInvoice
<1>3. Sane(State, c)
  <2>1. PICK d : d = committed
    OBVIOUS
  <2> QED BY <1>1, <1>2, <2>1, SaneMore
<1>4. ASSUME NEW i \in Link,
             \/ PassToken(i) \/ RightOffline(i) \/ LeftOnline(i) \/ RightOnline(i)
             \/ SetRequestsStatus(i) \/ RightRemoves(i) \/ RightInconsistent(i) \/ Reset(i)
      PROVE  Sane(State', c)
  BY <1>3, <1>4, LinkStepSane
<1>5. ASSUME NEW i \in Link, ReceiveRequests(i) \/ ReceiveBack(i)
      PROVE  Sane(State', c)
  BY <1>3, <1>5, ReceiveSane
<1>6. ASSUME NEW i \in Link, LeftOffline(i) \/ LeftRemoves(i) \/ LeftInconsistent(i)
      PROVE  Sane(State', c)
  BY <1>3, <1>6, LossSane
<1>7. ASSUME NEW n \in Node, Restart(n) PROVE Sane(State', c)
  BY <1>3, <1>7, RestartSane
<1>8. ASSUME NEW u \in Uid, CreateTransaction(u) PROVE Sane(State', c)
  BY <1>3, <1>8, CreateTransactionSane
<1>9. ASSUME AddInvoice \/ CancelInvoice \/ \E us \in Enough : CommitInvoice(us) PROVE Sane(State', c)
  <2>1. \A us \in Enough : CommitInvoice(us) => us \subseteq c
    BY <1>1 DEF CommitInvoice
  <2> QED BY <1>3, <1>9, <2>1, InvoiceStepSane
<1>10. Sane(State', c)
  BY <1>4, <1>5, <1>6, <1>7, <1>8, <1>9 DEF Next
<1> QED BY <1>1, <1>10

\* While nobody is unfriended every step leaves a good state.
LEMMA GoodNext ==
  ASSUME IInv, Next, Befriended'
  PROVE  /\ Good(State', left'.created) /\ Repaid(State')
         /\ NoCloses' => AllOpen(State') /\ panicked' \subseteq {"amounts"}
<1>1. Befriended /\ (NoCloses' => NoCloses) /\ left \in Left /\ left' \in Left
  BY LeftKeeps DEF IInv
<1>2. PICK k : k = left.created
  OBVIOUS
<1>3. Prepared(State, k)
  <2>1. State.panic = {}
    BY DEF State
  <2>2. k \in SUBSET Uid
    BY <1>1, <1>2 DEF Left
  <2> QED BY <1>1, <1>2, <2>1, <2>2 DEF IInv, Prepared, Sane
<1>4. NoCloses' => AllOpen(State) /\ panicked \subseteq {"amounts"}
  BY <1>1 DEF IInv
<1>5. ASSUME Result(k), left'.created = k
      PROVE  /\ Good(State', left'.created) /\ Repaid(State')
             /\ NoCloses' => AllOpen(State') /\ panicked' \subseteq {"amounts"}
  BY <1>4, <1>5 DEF Result, Quiet
<1>6. ASSUME NEW i \in Link,
             \/ ReceiveRequests(i) \/ ReceiveBack(i) \/ PassToken(i)
             \/ LeftOffline(i) \/ RightOffline(i) \/ LeftOnline(i) \/ RightOnline(i)
      PROVE  Result(k) /\ left'.created = k
  <2>1. Result(k)
    BY <1>3, <1>6, ReceiveRequestsKeeps, ReceiveBackKeeps, PassTokenKeeps, LivenessKeeps
  <2>2. left' = left \/ Dropped
    BY <1>6 DEF ReceiveRequests, ReceiveBack, PassToken, LeftOffline, RightOffline, LeftOnline, RightOnline
  <2>3. left'.created = left.created
    BY <1>1, <2>2 DEF Dropped, Left
  <2> QED BY <1>2, <2>1, <2>3
<1>7. ASSUME NEW i \in Link, SetRequestsStatus(i)
      PROVE  /\ Good(State', left'.created) /\ Repaid(State')
             /\ NoCloses' => AllOpen(State') /\ panicked' \subseteq {"amounts"}
  <2>1. left.closes > 0 /\ left' = [left EXCEPT !.closes = @ - 1]
    BY <1>7 DEF SetRequestsStatus
  <2>2. left'.created = k /\ left'.closes = left.closes - 1
    BY <1>1, <1>2, <2>1 DEF Left
  <2>3. ~NoCloses'
    BY <1>1, <2>2, BoundsAssumption DEF NoCloses, Left
  <2>4. Good(State', k) /\ Repaid(State')
    BY <1>3, <1>7, SetRequestsStatusKeeps
  <2> QED BY <2>2, <2>3, <2>4
<1>8. ASSUME NEW i \in Link, LeftRemoves(i) \/ RightRemoves(i) PROVE FALSE
  <2>1. Broken
    BY <1>8 DEF LeftRemoves, RightRemoves
  <2>2. left'.breaks = left.breaks - 1 /\ left.breaks \in Nat
    BY <1>1, <2>1 DEF Broken, Left
  <2> QED BY <1>1, <2>2 DEF Befriended
<1>9. ASSUME NEW i \in Link, LeftInconsistent(i) \/ RightInconsistent(i) \/ Reset(i) PROVE FALSE
  <2>1. State.link[i] = link[i] /\ LinkOK(State.link[i])
    BY <1>3, StateLink DEF Prepared, Good
  <2>2. link[i].token # "void" /\ link[i].lstatus = "consistent"
    BY <2>1 DEF LinkOK, Synced
  <2> QED BY <1>9, <2>2 DEF LeftInconsistent, RightInconsistent, Reset
<1>10. ASSUME NEW n \in Node, Restart(n) PROVE Result(k) /\ left'.created = k
  <2>1. left'.created = left.created
    BY <1>1, <1>10 DEF Restart, Dropped, Left
  <2> QED BY <1>2, <1>3, <1>10, <2>1, RestartKeeps
<1>11. ASSUME NEW u \in Uid, CreateTransaction(u)
       PROVE  /\ Good(State', left'.created) /\ Repaid(State')
              /\ NoCloses' => AllOpen(State') /\ panicked' \subseteq {"amounts"}
  <2>1. u \in k /\ left'.created = k \ {u}
    BY <1>1, <1>2, <1>11 DEF CreateTransaction, Left
  <2>2. Result(k \ {u})
    BY <1>3, <1>11, <2>1, CreateTransactionKeeps
  <2> QED BY <1>4, <2>1, <2>2 DEF Result, Quiet
<1>12. ASSUME AddInvoice \/ CancelInvoice \/ \E us \in Enough : CommitInvoice(us)
       PROVE  Result(k) /\ left'.created = k
  <2>1. left'.created = left.created
    BY <1>1, <1>12 DEF AddInvoice, CancelInvoice, CommitInvoice, Left
  <2>2. Result(k)
    BY <1>3, <1>12, AddInvoiceKeeps, CancelInvoiceKeeps, CommitInvoiceKeeps
  <2> QED BY <1>2, <2>1, <2>2
<1> QED BY <1>5, <1>6, <1>7, <1>8, <1>9, <1>10, <1>11, <1>12 DEF Next

\* At the start.
LEMMA InitHolds ==
  ASSUME Init
  PROVE  IInv
<1>1. <<>> \in Seq(Uid) /\ <<>> \in Seq(OpType) /\ NothingPending \in [Uid -> Stage]
  BY NoOperations DEF NothingPending, Stage
<1>2. /\ NewLink \in LinkType /\ NewLink.reqs = <<>> /\ NewLink.back = <<>> /\ NewLink.batch = <<>>
      /\ NewLink.lpend = NothingPending /\ NewLink.rpend = NothingPending
      /\ NewLink.lstatus = "consistent" /\ NewLink.rstatus = "consistent" /\ NewLink.token = "left"
      /\ NewLink.lopen /\ NewLink.ropen /\ NewLink.wopen
  BY <1>1 DEF NewLink, LinkType
<1>3. PICK S : S = State
  OBVIOUS
<1>4. /\ S.link = [i \in Link |-> NewLink] /\ S.opened = NothingPending /\ S.invoice = NoInvoice
      /\ S.paid = [i \in Link |-> {}] /\ S.panic = {}
      /\ S = [link |-> S.link, opened |-> S.opened, invoice |-> S.invoice, paid |-> S.paid,
              panic |-> S.panic]
  BY <1>3 DEF Init, State
<1>5. S \in StateType
  <2>1. NoInvoice \in [open : BOOLEAN, incoming : SUBSET Uid]
    BY DEF NoInvoice
  <2>2. [i \in Link |-> NewLink] \in [Link -> LinkType] /\ [i \in Link |-> {}] \in [Link -> SUBSET Uid]
    BY <1>2
  <2> HIDE DEF LinkType
  <2> QED BY <1>1, <1>4, <2>1, <2>2 DEF StateType
<1>6. \A i \in Link : S.link[i] = NewLink /\ S.paid[i] = {}
  BY <1>4
<1>7. Sane(S, committed)
  <2>1. LinkCollects(NewLink, committed)
    BY <1>2, CollectsNothing DEF LinkCollects
  <2> QED BY <1>5, <1>6, <2>1 DEF Sane, Collects
<1>8. left \in Left
  BY BoundsAssumption DEF Init, Left
<1>9. LinkOK(NewLink) /\ Right(NewLink) = NothingPending
  <2>1. ToSet(NewLink.reqs) = {} /\ ToSet(NewLink.back) = {}
    BY <1>2, EmptyQueue
  <2>2. Len(NewLink.reqs) = 0
    BY <1>2
  <2>3. Waiting(NewLink)
    <3>1. Distinct(NewLink.reqs)
      BY <2>2 DEF Distinct
    <3> QED BY <2>1, <3>1 DEF Waiting
  <2>4. CanReturn(NewLink) /\ Right(NewLink) = NothingPending
    BY <1>2, <2>1, AfterNothing DEF CanReturn, NoRequests, Right
  <2>5. Synced(NewLink)
    BY <1>2 DEF Synced
  <2> QED BY <2>3, <2>4, <2>5 DEF LinkOK
<1>10. \A i \in Link : Covers(Source(S, i), S.link[i])
  <2>1. ToSet(NewLink.reqs) = {}
    BY <1>2, EmptyQueue
  <2>2. \A q : Covers(q, NewLink)
    BY <1>2, <2>1 DEF Covers, NothingPending
  <2> QED BY <1>6, <2>2
<1>11. Good(S, left.created)
  <2>1. left.created = Uid
    BY DEF Init
  <2>2. Unused(S.opened, left.created)
    BY <1>4, <2>1 DEF Unused, NothingPending
  <2>3. Answered(Right(S.link[N - 1]), S.invoice)
    BY <1>4 DEF Answered, NoInvoice
  <2> QED BY <1>6, <1>9, <1>10, <2>2, <2>3 DEF Good
<1>12. Repaid(S)
  BY <1>6 DEF Repaid
<1>13. AllOpen(S)
  BY <1>2, <1>6 DEF AllOpen
<1>14. panicked = {}
  BY DEF Init
<1> QED BY <1>3, <1>7, <1>8, <1>11, <1>12, <1>13, <1>14 DEF IInv

\* A chain of friends of any length keeps the invariant: a node's links stay in
\* step with each other through every handler, loss of connection and restart.
THEOREM RequestRelayInvariant == Spec => []IInv
<1>1. IInv /\ [Next]_vars => IInv'
  <2> SUFFICES ASSUME IInv, [Next]_vars PROVE IInv'
    OBVIOUS
  <2>1. CASE UNCHANGED vars
    BY <2>1 DEF IInv, vars, State, Befriended, NoCloses
  <2>2. CASE Next
    <3>1. Sane(State', committed')
      BY <2>2, SaneStep DEF IInv
    <3>2. left' \in Left
      BY LeftKeeps DEF IInv
    <3>3. Befriended' => /\ Good(State', left'.created) /\ Repaid(State')
                         /\ NoCloses' => AllOpen(State') /\ panicked' \subseteq {"amounts"}
      BY <2>2, GoodNext
    <3> QED BY <3>1, <3>2, <3>3 DEF IInv
  <2> QED BY <2>1, <2>2
<1> QED BY <1>1, InitHolds, PTL DEF Spec

\* While nobody is unfriended and requests stay open, unwrap() and expect() of
\* handle_friend.rs, handle_control.rs and sender.rs find what they look for:
\* no handler panics but for the amounts of a request that nobody has checked.
THEOREM OnlyAmountsPanicking == Spec => []OnlyAmountsPanic
<1>1. IInv => OnlyAmountsPanic
  BY DEF IInv, OnlyAmountsPanic, NoCloses
<1> QED BY <1>1, RequestRelayInvariant, PTL

\* What a relay has promised to its right is promised to it from its left.
THEOREM RelaysStayCovered == Spec => []RelaysAreCovered
<1>1. IInv => RelaysAreCovered
  <2> SUFFICES ASSUME IInv, Befriended, NEW i \in Link \ {1}, NEW u \in Uid, link[i].lpend[u] # "none"
               PROVE  link[i - 1].rpend[u] # "none"
    BY DEF RelaysAreCovered
  <2>1. State \in StateType /\ Good(State, left.created) /\ State.link = link
    BY DEF IInv, Sane, State
  <2>2. i - 1 \in Link /\ i \in Node /\ i # 1
    BY Chain
  <2>3. Covers(Source(State, i), State.link[i]) /\ LinkOK(State.link[i - 1])
    BY <2>1, <2>2 DEF Good
  <2>4. Right(State.link[i - 1])[u] # "none"
    BY <2>1, <2>2, <2>3 DEF Covers, Source
  <2> QED BY <2>1, <2>2, <2>3, <2>4, OriginFound
<1> QED BY <1>1, RequestRelayInvariant, PTL

\* A relay that has paid has collected, or the collect is on its way or queued.
THEOREM RelaysGetRepaid == Spec => []RelaysAreRepaid
<1>1. IInv => RelaysAreRepaid
  <2> SUFFICES ASSUME IInv, Befriended, NEW i \in Link \ {1}, NEW u \in paid[i]
               PROVE  \/ Makes("collect", u) \in Range(link[i - 1].back)
                      \/ Makes("collect", u) \in Range(link[i - 1].batch)
                      \/ u \in paid[i - 1]
    BY DEF RelaysAreRepaid
  <2>1. Repaid(State) /\ State.link = link /\ State.paid = paid
    BY DEF IInv, State
  <2>2. u \in paid[i - 1] \cup LinkOwed(link[i - 1])
    BY <2>1 DEF Repaid, Owed
  <2>3. Range(link[i - 1].back) = ToSet(link[i - 1].back) /\ Range(link[i - 1].batch) = ToSet(link[i - 1].batch)
    BY DEF Range, ToSet
  <2> QED BY <2>2, <2>3 DEF LinkOwed
<1> QED BY <1>1, RequestRelayInvariant, PTL

\* Nobody on the route pays for a transaction that the buyer has not committed
\* to, whoever removes a friend in the middle of it.
THEOREM OnlyCommittedGetsPaid == Spec => []OnlyCommittedIsPaid
<1>1. IInv => OnlyCommittedIsPaid
  <2>1. State.paid = paid
    BY DEF State
  <2> QED BY <2>1 DEF IInv, Sane, Collects, OnlyCommittedIsPaid
<1> QED BY <1>1, RequestRelayInvariant, PTL
=============================================================================
