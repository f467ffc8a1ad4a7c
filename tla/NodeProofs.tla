---------------------------- MODULE NodeProofs ----------------------------
(***************************************************************************)
(* Proof that a node is never behind what others know of it, and that they *)
(* know it as it is, for any number of friends, applications, index        *)
(* servers, requests, events and crashes, and channels of any length.      *)
(*                                                                         *)
(* ToldIsOnDisk is not inductive: it says nothing of what is under way.    *)
(* The invariant below follows the two chains from a write to the one who  *)
(* is told.  The funder: its state, the write, the messages that wait for  *)
(* it (fout), the friend.  The index client: its configuration, the write, *)
(* the messages that wait for it (cout), the channel to the application    *)
(* server, its report, its messages (aout), the channel to the             *)
(* application, the application.                                           *)
(*                                                                         *)
(* For AppsAgree and IndexIsTold the invariant KInv further below says     *)
(* what all messages on such a chain, one after the other, make of the     *)
(* report, of what an application shows and of what the index client       *)
(* knows.                                                                  *)
(***************************************************************************)
EXTENDS Node, SequencesExt, SequenceTheorems, FiniteSetTheorems,
        WellFoundedInduction, TLAPS

-----------------------------------------------------------------------------
(***************************************************************************)
(* Queues are only appended to and taken from, and an invariant speaks of  *)
(* all that is in them: a queue is any sequence of its own elements.       *)
(***************************************************************************)
IsQueue(s) == s \in Seq(ToSet(s))

\* A sequence over any set is a queue, and its elements are of that set.
LEMMA QueueOfSeq ==
  ASSUME NEW S, NEW s \in Seq(S)
  PROVE  IsQueue(s) /\ ToSet(s) \subseteq S
BY DEF IsQueue, ToSet

\* The empty queue.
LEMMA EmptyQueue == IsQueue(<<>>) /\ ToSet(<<>>) = {}
BY DEF IsQueue, ToSet

\* A queue with one element.
LEMMA SingleQueue ==
  ASSUME NEW x
  PROVE  IsQueue(<<x>>) /\ ToSet(<<x>>) = {x}
BY DEF IsQueue, ToSet

\* A queue with two elements.
LEMMA PairQueue ==
  ASSUME NEW x, NEW y
  PROVE  IsQueue(<<x, y>>) /\ ToSet(<<x, y>>) = {x, y}
<1>1. <<x, y>> \in Seq({x, y}) /\ DOMAIN <<x, y>> = 1..2
  OBVIOUS
<1>2. ToSet(<<x, y>>) = {x, y}
  BY <1>1 DEF ToSet
<1> QED BY <1>1, <1>2 DEF IsQueue

\* A queue after an element has been appended.
LEMMA AppendQueue ==
  ASSUME NEW s, NEW x, IsQueue(s)
  PROVE  IsQueue(Append(s, x)) /\ ToSet(Append(s, x)) = ToSet(s) \cup {x}
<1> DEFINE T == ToSet(s) \cup {x}
<1>1. s \in Seq(T) /\ x \in T
  BY DEF IsQueue
<1>2. Append(s, x) \in Seq(T)
  BY <1>1
<1>3. ToSet(Append(s, x)) = T
  <2>1. \A i \in 1..Len(s) : i \in 1..Len(Append(s, x)) /\ Append(s, x)[i] = s[i]
    BY <1>1
  <2>2. Len(s) + 1 \in 1..Len(Append(s, x)) /\ Append(s, x)[Len(s) + 1] = x
    BY <1>1
  <2>3. T \subseteq ToSet(Append(s, x))
    BY <1>1, <1>2, <2>1, <2>2 DEF ToSet
  <2> QED
    BY <1>2, <2>3, QueueOfSeq
<1> QED
  BY <1>2, <1>3 DEF IsQueue

\* A queue that is not empty: its first element, and the rest.
LEMMA TailQueue ==
  ASSUME NEW s, IsQueue(s), s # <<>>
  PROVE  /\ IsQueue(Tail(s)) /\ ToSet(Tail(s)) \subseteq ToSet(s)
         /\ Head(s) \in ToSet(s) /\ ToSet(s) = {Head(s)} \cup ToSet(Tail(s))
<1> DEFINE T == ToSet(s)
<1>1. s \in Seq(T) /\ Len(s) \in Nat /\ Len(s) > 0 /\ DOMAIN s = 1..Len(s)
  BY DEF IsQueue
<1>2. Tail(s) \in Seq(T) /\ Len(Tail(s)) = Len(s) - 1
      /\ \A i \in 1..Len(Tail(s)) : Tail(s)[i] = s[i + 1]
  BY <1>1
<1>3. Head(s) = s[1] /\ 1 \in DOMAIN s
  BY <1>1
<1>4. ToSet(s) \subseteq {Head(s)} \cup ToSet(Tail(s))
  <2>1. \A i \in 1..Len(s) : i # 1 => i - 1 \in 1..Len(Tail(s)) /\ Tail(s)[i - 1] = s[i]
    BY <1>1, <1>2
  <2>2. DOMAIN Tail(s) = 1..Len(Tail(s))
    BY <1>2
  <2>3. \A i \in 1..Len(s) : s[i] = Head(s) \/ s[i] \in ToSet(Tail(s))
    BY <1>3, <2>1, <2>2 DEF ToSet
  <2> QED
    BY <1>1, <2>3 DEF ToSet
<1> QED
  BY <1>1, <1>2, <1>3, <1>4, QueueOfSeq DEF ToSet

\* Two queues, one after the other.
LEMMA ConcatQueue ==
  ASSUME NEW s, NEW t, IsQueue(s), IsQueue(t)
  PROVE  IsQueue(s \o t) /\ ToSet(s \o t) = ToSet(s) \cup ToSet(t)
<1> DEFINE T == ToSet(s) \cup ToSet(t)
<1>1. s \in Seq(T) /\ t \in Seq(T)
  BY DEF IsQueue
<1>2. s \o t \in Seq(T)
  BY <1>1
<1>3. ToSet(s \o t) = T
  <2>1. \A i \in 1..Len(t) : Len(s) + i \in 1..Len(s \o t) /\ (s \o t)[Len(s) + i] = t[i]
    BY <1>1
  <2>2. \A i \in 1..Len(s) : i \in 1..Len(s \o t) /\ (s \o t)[i] = s[i]
    BY <1>1
  <2>3. DOMAIN s = 1..Len(s) /\ DOMAIN t = 1..Len(t) /\ DOMAIN (s \o t) = 1..Len(s \o t)
    BY <1>1, <1>2
  <2>4. ToSet(s) \subseteq ToSet(s \o t)
    BY <2>2, <2>3 DEF ToSet
  <2>5. ToSet(t) \subseteq ToSet(s \o t)
    BY <2>1, <2>3 DEF ToSet
  <2> QED
    BY <1>2, <2>4, <2>5, QueueOfSeq
<1> QED
  BY <1>2, <1>3 DEF IsQueue

\* The members of a finite set in some order.
LEMMA SetToSeqQueue ==
  ASSUME NEW S, IsFiniteSet(S)
  PROVE  SetToSeq(S) \in Seq(S)
<1>1. Cardinality(S) \in Nat /\ ExistsBijection(1..Cardinality(S), S)
  BY FS_CardinalityType
<1>2. \E f \in [1..Cardinality(S) -> S] : IsInjective(f)
  BY <1>1 DEF ExistsBijection, Bijection, Injection
<1>3. SetToSeq(S) \in [1..Cardinality(S) -> S]
  BY <1>2 DEF SetToSeq
<1> QED
  BY <1>1, <1>3

-----------------------------------------------------------------------------
(***************************************************************************)
(* Induction over natural numbers, stated for a set instead of a           *)
(* predicate, so that the provers can instantiate it.                      *)
(***************************************************************************)
\* A set of natural numbers has a least one.
LEMMA LeastNatural ==
  ASSUME NEW T, T \subseteq Nat, T # {}
  PROVE  \E m \in T : \A k \in T : m <= k
<1> DEFINE R == OpToRel(<, Nat)
<1>1. IsWellFoundedOn(R, Nat)
  BY NatLessThanWellFounded
<1>2. \A i, j \in Nat : i < j => <<i, j>> \in R
  BY DEF OpToRel
<1> HIDE DEF R
<1>3. PICK m \in T : \A k \in T : ~(<<k, m>> \in R)
  BY <1>1, WFMin
<1>4. ASSUME NEW k \in T PROVE m <= k
  <2>1. k \in Nat /\ m \in Nat
    OBVIOUS
  <2>2. ~(k < m)
    BY <1>2, <1>3, <2>1
  <2> QED BY <2>1, <2>2
<1> QED BY <1>4

\* Induction up to n.
LEMMA Induction ==
  ASSUME NEW n \in Nat, NEW T, 0 \in T, \A k \in 0..(n - 1) : k \in T => k + 1 \in T
  PROVE  \A k \in 0..n : k \in T
<1> DEFINE U == {k \in 0..n : k \notin T}
<1> SUFFICES ASSUME U # {} PROVE FALSE
  OBVIOUS
<1>1. U \subseteq Nat
  OBVIOUS
<1>2. PICK m \in U : \A k \in U : m <= k
  BY <1>1, LeastNatural
<1>3. m # 0 /\ m - 1 \in 0..(n - 1) /\ m - 1 \in T
  BY <1>2
<1> QED BY <1>2, <1>3

-----------------------------------------------------------------------------
\* What the message m says of the index servers is in the set c.
Within(m, c) ==
  /\ m.type = "report" => m.servers \subseteq c
  /\ m.type = "mutations" => m.added \subseteq c

\* Index servers that the index client has asked the database to add.
Adding == UNION {w.added : w \in {v \in ToSet(writes) : v.by = "client"}}

Writers == IsQueue(writes) /\ \A w \in ToSet(writes) : w.by \in {"funder", "client"}

\* The queues are sequences.
Queues ==
  /\ IsQueue(fout) /\ IsQueue(cout) /\ Writers /\ IsQueue(aout)
  /\ IsQueue(fromFunder) /\ IsQueue(fromClient)
  /\ DOMAIN toApp = App /\ \A p \in App : IsQueue(toApp[p])
  /\ DOMAIN view = App /\ IsFiniteSet(apps)

\* The file has the funder's newest state, or one write of it is under way; what
\* waits for that write shows no newer state.
FunderOnDisk ==
  /\ number \in Nat /\ disk.number \in Nat /\ told \in Nat
  /\ disk.number <= number /\ told <= disk.number
  /\ ~Writing("funder") => disk.number = number /\ disk.friends = friends
  /\ \A i \in DOMAIN writes : writes[i].by = "funder" =>
       /\ writes[i].number = number /\ writes[i].friends = friends
       /\ \A j \in DOMAIN writes : writes[j].by = "funder" => i = j
  /\ \A x \in ToSet(fout) : x.to = "friend" => x.msg \in Nat /\ x.msg <= number

\* What the index client reports once its write is done is then in the file, and
\* what anyone behind it has is there now.
ClientOnDisk ==
  /\ config = disk.config \cup Adding
  /\ \A m \in ToSet(cout) : Within(m, disk.config \cup Adding)
  /\ \A m \in ToSet(fromClient) : Within(m, disk.config)
  /\ servers \subseteq disk.config
  /\ \A x \in ToSet(fout) : x.to = "app" => Within(x.msg, disk.config)
  /\ \A m \in ToSet(fromFunder) : Within(m, disk.config)
  /\ \A x \in ToSet(aout) : Within(x.msg, disk.config)
  /\ \A p \in App : \A m \in ToSet(toApp[p]) : Within(m, disk.config)
  /\ \A p \in App : view[p].servers \subseteq disk.config

IInv == Queues /\ FunderOnDisk /\ ClientOnDisk

-----------------------------------------------------------------------------
\* What is within a set is within a larger one: the file only gains servers.
LEMMA WithinMore ==
  ASSUME NEW m, NEW c, NEW d, Within(m, c), c \subseteq d
  PROVE  Within(m, d)
BY DEF Within

\* A broadcast is a queue of copies of the message.
LEMMA ToEachCopies ==
  ASSUME NEW S, NEW m, IsFiniteSet(S)
  PROVE  IsQueue(ToEach(S, m)) /\ \A x \in ToSet(ToEach(S, m)) : x.msg = m
<1> DEFINE s == SetToSeq(S)
           T == {Item(p, m) : p \in S}
<1>1. s \in Seq(S)
  BY SetToSeqQueue
<1>2. ToEach(S, m) \in Seq(T)
  <2> HIDE DEF s
  <2> QED BY <1>1 DEF ToEach, s
<1>3. IsQueue(ToEach(S, m)) /\ ToSet(ToEach(S, m)) \subseteq T
  BY <1>2, QueueOfSeq
<1> QED
  BY <1>3 DEF Item

\* The initial state satisfies the invariant.
LEMMA InitIInv == Init => IInv
<1> SUFFICES ASSUME Init PROVE IInv
  OBVIOUS
<1>1. Queues
  BY EmptyQueue, FS_EmptySet DEF Init, AppServerInit, Queues, Writers
<1>2. FunderOnDisk
  BY EmptyQueue DEF Init, FunderOnDisk, NodeState, Writing
<1>3. ClientOnDisk
  BY EmptyQueue DEF Init, AppServerInit, ClientOnDisk, NodeState, CreateNodeReport, NoView, Adding
<1> QED
  BY <1>1, <1>2, <1>3 DEF IInv

\* A handler of the funder asks for one write if it has changed the state, and
\* what it wants to send shows the state after the change (inner_funder_loop).
LEMMA HandledKeeps ==
  ASSUME IInv, FunderIdle,
         NEW new, NEW live, NEW ms, NEW id, NEW extra, NEW shown,
         Handled(new, live, ms, id, extra, shown),
         IsQueue(extra), \A x \in ToSet(extra) : x.to = "app" /\ x.msg.type = "result",
         UNCHANGED <<disk, told>>
  PROVE  /\ IsQueue(fout)' /\ Writers'
         /\ FunderOnDisk'
         /\ Adding' = Adding
         /\ \A x \in ToSet(fout') : x.to = "app" => Within(x.msg, disk.config)
<1> DEFINE w == [by |-> "funder", friends |-> new, number |-> number + 1]
           shows == IF shown THEN <<Item("friend", number')>> ELSE <<>>
           report1 == IF ms = <<>> /\ id = {} THEN <<>>
                      ELSE <<Item("app", Mutations(id, ms, {}))>>
<1>1. /\ Writers /\ IsQueue(writes) /\ number \in Nat /\ disk.number = number /\ disk.friends = friends
      /\ \A i \in DOMAIN writes : writes[i].by # "funder"
      /\ told \in Nat /\ told <= disk.number
  BY DEF IInv, Queues, Writers, FunderOnDisk, FunderIdle, Writing
<1>2. /\ friends' = new
      /\ \/ new = friends /\ number' = number /\ writes' = writes
         \/ new # friends /\ number' = number + 1 /\ writes' = Append(writes, w)
  BY DEF Handled, Requested
<1>3. fout' = (shows \o report1) \o extra
  BY DEF Handled
<1>4. IsQueue(shows) /\ \A x \in ToSet(shows) : x.to = "friend" /\ x.msg = number'
  BY EmptyQueue, SingleQueue DEF Item
<1>5. IsQueue(report1)
      /\ \A x \in ToSet(report1) : x.to = "app" /\ x.msg.type = "mutations" /\ x.msg.added = {}
  BY EmptyQueue, SingleQueue DEF Item, Mutations
<1>6. IsQueue(fout') /\ ToSet(fout') = (ToSet(shows) \cup ToSet(report1)) \cup ToSet(extra)
  <2> HIDE DEF shows, report1
  <2>1. IsQueue(shows \o report1) /\ ToSet(shows \o report1) = ToSet(shows) \cup ToSet(report1)
    BY <1>4, <1>5, ConcatQueue
  <2> QED BY <2>1, <1>3, ConcatQueue
<1>7. \A x \in ToSet(fout') : x.to = "app" => Within(x.msg, disk.config)
  BY <1>4, <1>5, <1>6 DEF Within
<1>8. Writers' /\ Adding' = Adding
  <2>1. CASE new = friends
    BY <2>1, <1>1, <1>2 DEF Adding, Writers
  <2>2. CASE new # friends
    <3>1. IsQueue(writes') /\ ToSet(writes') = ToSet(writes) \cup {w}
      <4> HIDE DEF w
      <4> QED BY <2>2, <1>1, <1>2, AppendQueue
    <3>2. w.by = "funder"
      OBVIOUS
    <3>3. {v \in ToSet(writes') : v.by = "client"} = {v \in ToSet(writes) : v.by = "client"}
      <4> HIDE DEF w
      <4> QED BY <3>1, <3>2
    <3> QED BY <3>1, <3>2, <3>3, <1>1 DEF Adding, Writers
  <2> QED BY <2>1, <2>2
<1>9. \A x \in ToSet(fout') : x.to = "friend" => x.msg = number'
  BY <1>4, <1>5, <1>6
<1>10. FunderOnDisk'
  <2>1. CASE new = friends
    BY <2>1, <1>1, <1>2, <1>9 DEF FunderOnDisk, Writing
  <2>2. CASE new # friends
    <3>1. /\ DOMAIN writes' = 1..(Len(writes) + 1) /\ Len(writes) \in Nat
          /\ DOMAIN writes = 1..Len(writes)
          /\ writes'[Len(writes) + 1] = w
          /\ \A i \in 1..Len(writes) : writes'[i] = writes[i]
      BY <2>2, <1>1, <1>2 DEF IsQueue
    <3>2. \A i \in DOMAIN writes' : writes'[i].by = "funder" => i = Len(writes) + 1
      BY <3>1, <1>1
    <3>3. Writing("funder")'
      BY <3>1 DEF Writing
    <3>4. number' = number + 1 /\ friends' = new
      BY <2>2, <1>2
    <3> QED
      BY <3>1, <3>2, <3>3, <3>4, <1>1, <1>9 DEF FunderOnDisk
  <2> QED BY <2>1, <2>2
<1> QED
  BY <1>6, <1>7, <1>8, <1>10

\* What a handler of the funder leaves alone keeps what was reported on disk.
LEMMA HandledIInv ==
  ASSUME IInv, IsQueue(fout)', Writers', FunderOnDisk', Adding' = Adding,
         \A x \in ToSet(fout') : x.to = "app" => Within(x.msg, disk.config),
         UNCHANGED <<serverVars, aout, fromFunder, fromClient, appVars, clientVars, disk, view>>
  PROVE  IInv'
<1>1. Queues'
  BY DEF IInv, Queues, serverVars, appVars, clientVars
<1>2. ClientOnDisk'
  BY DEF IInv, ClientOnDisk, serverVars, appVars, clientVars
<1> QED
  BY <1>1, <1>2 DEF IInv

\* A request of an application at the funder (handle_control_message).
LEMMA ControlIInv ==
  ASSUME IInv, Control
  PROVE  IInv'
<1> DEFINE m == Head(toFunder)
           f == m.friend
           result == <<Item("app", [type |-> "result", id |-> m.id])>>
<1>1. /\ FunderIdle
      /\ UNCHANGED <<serverVars, aout, fromFunder, fromClient, appVars, clientVars, disk, view, told>>
  BY DEF Control
<1>2. \E new, live, ms, id, extra, shown :
        /\ Handled(new, live, ms, id, extra, shown)
        /\ extra \in {<<>>, result}
  BY DEF Control, ControlRefused
<1>3. PICK new, live, ms, id, extra, shown :
        /\ Handled(new, live, ms, id, extra, shown)
        /\ extra \in {<<>>, result}
  BY <1>2
<1>4. IsQueue(extra) /\ \A x \in ToSet(extra) : x.to = "app" /\ x.msg.type = "result"
  BY <1>3, EmptyQueue, SingleQueue DEF Item
<1>5. /\ IsQueue(fout)' /\ Writers' /\ FunderOnDisk' /\ Adding' = Adding
      /\ \A x \in ToSet(fout') : x.to = "app" => Within(x.msg, disk.config)
  BY <1>1, <1>3, <1>4, HandledKeeps
<1> QED
  BY <1>1, <1>5, HandledIInv

\* An event from the channeler at the funder: a liveness or a friend's message.
LEMMA CommIInv ==
  ASSUME IInv, NEW type, NEW f, Comm(type, f)
  PROVE  IInv'
<1>1. /\ FunderIdle
      /\ UNCHANGED <<serverVars, aout, fromFunder, fromClient, appVars, clientVars, disk, view, told>>
  BY DEF Comm, channels
<1>2. \/ \E new, live, ms, id, shown : Handled(new, live, ms, id, <<>>, shown)
      \/ UNCHANGED <<funderVars, writes>>
  BY DEF Comm
<1>3. CASE \E new, live, ms, id, shown : Handled(new, live, ms, id, <<>>, shown)
  <2>1. PICK new, live, ms, id, shown : Handled(new, live, ms, id, <<>>, shown)
    BY <1>3
  <2>2. /\ IsQueue(fout)' /\ Writers' /\ FunderOnDisk' /\ Adding' = Adding
        /\ \A x \in ToSet(fout') : x.to = "app" => Within(x.msg, disk.config)
    BY <1>1, <2>1, EmptyQueue, HandledKeeps
  <2> QED
    BY <1>1, <2>2, HandledIInv
<1>4. CASE UNCHANGED <<funderVars, writes>>
  <2>1. /\ IsQueue(fout)' /\ Writers' /\ FunderOnDisk' /\ Adding' = Adding
        /\ \A x \in ToSet(fout') : x.to = "app" => Within(x.msg, disk.config)
    BY <1>1, <1>4 DEF IInv, Queues, Writers, FunderOnDisk, ClientOnDisk, Adding, Writing, funderVars
  <2> QED
    BY <1>1, <2>1, HandledIInv
<1> QED
  BY <1>2, <1>3, <1>4

\* The funder sends what has waited for its write.
LEMMA FunderSendsIInv ==
  ASSUME IInv, FunderSends
  PROVE  IInv'
<1>1. /\ fout # <<>> /\ fout' = Tail(fout) /\ IsQueue(fout) /\ ~Writing("funder")
      /\ UNCHANGED <<serverVars, aout, fromClient, appVars, friends, number, clientVars,
                     disk, writes, view>>
  BY DEF FunderSends, CanSend, IInv, Queues
<1>2. IsQueue(fout') /\ ToSet(fout') \subseteq ToSet(fout) /\ Head(fout) \in ToSet(fout)
  BY <1>1, TailQueue
<1>3. CASE Head(fout).to = "friend" /\ told' = Head(fout).msg /\ UNCHANGED fromFunder
  <2>1. Queues'
    BY <1>1, <1>2, <1>3 DEF IInv, Queues, Writers, serverVars, appVars, clientVars
  <2>2. FunderOnDisk'
    BY <1>1, <1>2, <1>3 DEF IInv, FunderOnDisk, Writing
  <2>3. ClientOnDisk'
    BY <1>1, <1>2, <1>3 DEF IInv, ClientOnDisk, Adding, serverVars, appVars, clientVars
  <2> QED BY <2>1, <2>2, <2>3 DEF IInv
<1>4. CASE /\ Head(fout).to = "app" /\ fromFunder' = Append(fromFunder, Head(fout).msg)
           /\ UNCHANGED told
  <2>0. /\ IsQueue(fromFunder')
        /\ ToSet(fromFunder') = ToSet(fromFunder) \cup {Head(fout).msg}
    BY <1>4, AppendQueue DEF IInv, Queues
  <2>1. Queues'
    BY <1>1, <1>2, <2>0 DEF IInv, Queues, Writers, serverVars, appVars, clientVars
  <2>2. FunderOnDisk'
    BY <1>1, <1>2, <1>4 DEF IInv, FunderOnDisk, Writing
  <2>3. ClientOnDisk'
    BY <1>1, <1>2, <1>4, <2>0 DEF IInv, ClientOnDisk, Adding, serverVars, appVars, clientVars
  <2> QED BY <2>1, <2>2, <2>3 DEF IInv
<1> QED
  BY <1>3, <1>4 DEF FunderSends

\* The index client takes a message of the application server: a server that is
\* added is asked to be written before anything is said of it.
LEMMA ClientTakesIInv ==
  ASSUME IInv, ClientTakes
  PROVE  IInv'
<1>1. /\ cout = <<>> /\ ~Writing("client") /\ IsQueue(writes)
      /\ UNCHANGED <<serverVars, aout, fromFunder, fromClient, appVars, funderVars, disk, view, told>>
  BY DEF ClientTakes, IInv, Queues, Writers, historyVars
<1>2. \A w \in ToSet(writes) : w.by # "client"
  BY <1>1 DEF Writing, ToSet
<1>3. CASE UNCHANGED <<config, cout, writes>>
  BY <1>1, <1>3 DEF IInv, Queues, Writers, FunderOnDisk, ClientOnDisk, Adding, Writing, serverVars,
                    appVars, funderVars
<1>4. CASE \E k \in IndexServer : \E id :
             /\ writes' = Append(writes, [by |-> "client", added |-> {k}])
             /\ config' = config \cup {k}
             /\ cout' = <<Mutations(id, <<>>, {k})>>
  <2>0. PICK k \in IndexServer :
          \E id : /\ writes' = Append(writes, [by |-> "client", added |-> {k}])
                  /\ config' = config \cup {k}
                  /\ cout' = <<Mutations(id, <<>>, {k})>>
    BY <1>4
  <2>1. PICK id : /\ writes' = Append(writes, [by |-> "client", added |-> {k}])
                  /\ config' = config \cup {k}
                  /\ cout' = <<Mutations(id, <<>>, {k})>>
    BY <2>0
  <2> DEFINE w == [by |-> "client", added |-> {k}]
             msg == Mutations(id, <<>>, {k})
  <2>2. w.by = "client" /\ w.added = {k} /\ Within(msg, {k})
    BY DEF Mutations, Within
  <2>3. writes' = Append(writes, w) /\ cout' = <<msg>>
    BY <2>1
  <2> HIDE DEF w, msg
  <2>4. IsQueue(writes') /\ ToSet(writes') = ToSet(writes) \cup {w}
    BY <1>1, <2>3, AppendQueue
  <2>5. IsQueue(cout') /\ ToSet(cout') = {msg}
    BY <2>3, SingleQueue
  <2>6. {v \in ToSet(writes') : v.by = "client"} = {w}
    BY <1>2, <2>2, <2>4
  <2>7. Adding' = {k} /\ Adding = {}
    <3>1. Adding' = UNION {w.added}
      BY <2>6 DEF Adding
    <3>2. {v \in ToSet(writes) : v.by = "client"} = {}
      BY <1>2
    <3> QED BY <3>1, <3>2, <2>2 DEF Adding
  <2>8. Queues'
    BY <1>1, <2>2, <2>4, <2>5 DEF IInv, Queues, Writers, serverVars, appVars, funderVars
  <2>9. FunderOnDisk'
    <3>1. /\ DOMAIN writes' = 1..(Len(writes) + 1) /\ Len(writes) \in Nat
          /\ DOMAIN writes = 1..Len(writes)
          /\ writes'[Len(writes) + 1] = w
          /\ \A i \in 1..Len(writes) : writes'[i] = writes[i]
      BY <1>1, <2>3 DEF IsQueue
    <3>2. \A i \in DOMAIN writes' : writes'[i].by = "funder" =>
             i \in DOMAIN writes /\ writes'[i] = writes[i]
      BY <3>1, <2>2
    <3>3. Writing("funder") => Writing("funder")'
      BY <3>1 DEF Writing
    <3> QED
      BY <1>1, <3>2, <3>3 DEF IInv, FunderOnDisk, funderVars
  <2>10. ClientOnDisk'
    <3>1. \A m \in ToSet(cout') : Within(m, disk'.config \cup Adding')
      BY <2>2, <2>5, <2>7, WithinMore
    <3>2. config' = disk'.config \cup Adding'
      BY <1>1, <2>1, <2>7 DEF IInv, ClientOnDisk
    <3> QED
      BY <1>1, <3>1, <3>2 DEF IInv, ClientOnDisk, serverVars, appVars, funderVars
  <2> QED BY <2>8, <2>9, <2>10 DEF IInv
<1>5. CASE \E id : /\ cout' = <<Mutations({id}, <<>>, {}), [type |-> "result", id |-> id]>>
                   /\ UNCHANGED <<config, writes>>
  <2>1. PICK id : /\ cout' = <<Mutations({id}, <<>>, {}), [type |-> "result", id |-> id]>>
                  /\ UNCHANGED <<config, writes>>
    BY <1>5
  <2> DEFINE msg == Mutations({id}, <<>>, {})
             result == [type |-> "result", id |-> id]
  <2>2. \A c : Within(msg, c) /\ Within(result, c)
    BY DEF Mutations, Within
  <2>3. cout' = <<msg, result>>
    BY <2>1
  <2>4. IsQueue(cout') /\ \A m \in ToSet(cout') : Within(m, disk.config \cup Adding)
    <3> HIDE DEF msg, result
    <3> QED BY <2>2, <2>3, PairQueue
  <2>5. Queues'
    BY <1>1, <2>1, <2>4 DEF IInv, Queues, Writers, serverVars, appVars, funderVars
  <2>6. FunderOnDisk'
    BY <1>1, <2>1 DEF IInv, FunderOnDisk, Writing, funderVars
  <2>7. ClientOnDisk'
    BY <1>1, <2>1, <2>4 DEF IInv, ClientOnDisk, Adding, serverVars, appVars, funderVars
  <2> QED BY <2>5, <2>6, <2>7 DEF IInv
<1> QED
  BY <1>3, <1>4, <1>5 DEF ClientTakes, Requested

\* The index client sends what has waited for its write: it is on disk by now.
LEMMA ClientSendsIInv ==
  ASSUME IInv, ClientSends
  PROVE  IInv'
<1>1. /\ cout # <<>> /\ cout' = Tail(cout) /\ ~Writing("client")
      /\ fromClient' = Append(fromClient, Head(cout))
      /\ IsQueue(cout) /\ IsQueue(fromClient)
      /\ UNCHANGED <<serverVars, aout, fromFunder, appVars, funderVars, config, disk, writes,
                     view, told>>
  BY DEF ClientSends, IInv, Queues, historyVars
<1>2. IsQueue(cout') /\ ToSet(cout') \subseteq ToSet(cout) /\ Head(cout) \in ToSet(cout)
  BY <1>1, TailQueue
<1>3. IsQueue(fromClient') /\ ToSet(fromClient') = ToSet(fromClient) \cup {Head(cout)}
  BY <1>1, AppendQueue
<1>4. {v \in ToSet(writes) : v.by = "client"} = {}
  BY <1>1 DEF Writing, ToSet
<1>5. Adding = {}
  BY <1>4 DEF Adding
<1>6. Within(Head(cout), disk.config)
  BY <1>2, <1>5 DEF IInv, ClientOnDisk, Within
<1>7. Queues'
  BY <1>1, <1>2, <1>3 DEF IInv, Queues, Writers, serverVars, appVars, funderVars
<1>8. FunderOnDisk'
  BY <1>1 DEF IInv, FunderOnDisk, Writing, funderVars
<1>9. ClientOnDisk'
  BY <1>1, <1>2, <1>3, <1>6 DEF IInv, ClientOnDisk, Adding, serverVars, appVars, funderVars
<1> QED BY <1>7, <1>8, <1>9 DEF IInv

\* The database handles the oldest request.
LEMMA DatabaseWritesIInv ==
  ASSUME IInv, DatabaseWrites
  PROVE  IInv'
<1> DEFINE w == Head(writes)
<1>1. /\ writes # <<>> /\ writes' = Tail(writes) /\ disk' = Mutate(disk, w) /\ IsQueue(writes)
      /\ UNCHANGED <<serverVars, aout, fromFunder, fromClient, appVars, funderVars, clientVars,
                     view, told>>
  BY DEF DatabaseWrites, IInv, Queues, Writers, historyVars, channels
<1>2. /\ IsQueue(writes') /\ ToSet(writes) = {w} \cup ToSet(writes')
      /\ w \in ToSet(writes)
  BY <1>1, TailQueue
<1>3. /\ w = writes[1] /\ 1 \in DOMAIN writes /\ DOMAIN writes = 1..Len(writes)
      /\ Len(writes) \in Nat
      /\ DOMAIN writes' = 1..(Len(writes) - 1)
      /\ \A i \in DOMAIN writes' : i + 1 \in DOMAIN writes /\ writes'[i] = writes[i + 1]
  BY <1>1 DEF IsQueue
<1>4. Queues'
  BY <1>1, <1>2 DEF IInv, Queues, Writers, serverVars, appVars, funderVars, clientVars
<1>5. FunderOnDisk'
  <2>1. CASE w.by = "funder"
    <3>1. \A i \in DOMAIN writes' : writes'[i].by # "funder"
      <4> SUFFICES ASSUME NEW i \in DOMAIN writes', writes'[i].by = "funder"
                   PROVE  FALSE
        OBVIOUS
      <4>1. i + 1 = 1
        BY <1>3, <2>1 DEF IInv, FunderOnDisk
      <4> QED BY <4>1, <1>3
    <3>2. disk'.number = number /\ disk'.friends = friends
      BY <1>1, <1>3, <2>1 DEF IInv, FunderOnDisk, Mutate, NodeState
    <3> QED BY <1>1, <3>1, <3>2 DEF IInv, FunderOnDisk, funderVars
  <2>2. CASE w.by # "funder"
    <3>1. disk'.number = disk.number /\ disk'.friends = disk.friends
      BY <1>1, <2>2 DEF Mutate, NodeState
    <3>2. Writing("funder") => Writing("funder")'
      <4> SUFFICES ASSUME NEW i \in DOMAIN writes, writes[i].by = "funder"
                   PROVE  Writing("funder")'
        BY DEF Writing
      <4>1. i - 1 \in DOMAIN writes' /\ writes'[i - 1] = writes[i]
        BY <1>3, <2>2
      <4> QED BY <4>1 DEF Writing
    <3>3. \A i \in DOMAIN writes' : writes'[i].by = "funder" =>
            /\ writes'[i].number = number /\ writes'[i].friends = friends
            /\ \A j \in DOMAIN writes' : writes'[j].by = "funder" => i = j
      <4> SUFFICES ASSUME NEW i \in DOMAIN writes', writes'[i].by = "funder"
                   PROVE  /\ writes'[i].number = number /\ writes'[i].friends = friends
                          /\ \A j \in DOMAIN writes' : writes'[j].by = "funder" => i = j
        OBVIOUS
      <4>1. /\ writes'[i].number = number /\ writes'[i].friends = friends
            /\ \A j \in DOMAIN writes' : writes'[j].by = "funder" => i + 1 = j + 1
        BY <1>3 DEF IInv, FunderOnDisk
      <4> QED BY <4>1, <1>3
    <3> QED BY <1>1, <3>1, <3>2, <3>3 DEF IInv, FunderOnDisk, funderVars
  <2> QED BY <2>1, <2>2
<1>6. disk.config \subseteq disk'.config /\ disk.config \cup Adding = disk'.config \cup Adding'
  <2>1. CASE w.by = "funder"
    <3>1. disk'.config = disk.config
      BY <1>1, <2>1 DEF Mutate, NodeState
    <3>2. {v \in ToSet(writes) : v.by = "client"} = {v \in ToSet(writes') : v.by = "client"}
      BY <1>2, <2>1
    <3> QED BY <3>1, <3>2 DEF Adding
  <2>2. CASE w.by # "funder"
    <3>1. disk'.config = disk.config \cup w.added
      BY <1>1, <2>2 DEF Mutate, NodeState
    <3>2. w.by = "client"
      BY <1>2, <2>2 DEF IInv, Queues, Writers
    <3>3. Adding = w.added \cup Adding'
      BY <1>2, <3>2 DEF Adding
    <3> QED BY <3>1, <3>3
  <2> QED BY <2>1, <2>2
<1>7. ClientOnDisk'
  <2> DEFINE c == disk.config
             d == disk'.config
  <2>1. \A m : Within(m, c) => Within(m, d)
    BY <1>6, WithinMore
  <2>2. config' = d \cup Adding' /\ \A m \in ToSet(cout') : Within(m, d \cup Adding')
    BY <1>1, <1>6 DEF IInv, ClientOnDisk, clientVars
  <2> QED
    BY <1>1, <1>6, <2>1, <2>2 DEF IInv, ClientOnDisk, serverVars, appVars, funderVars
<1> QED BY <1>4, <1>5, <1>7 DEF IInv

\* The node ends and starts again from the file: nothing is under way.
LEMMA CrashIInv ==
  ASSUME IInv, Crash
  PROVE  IInv'
<1>1. Queues'
  BY EmptyQueue, FS_EmptySet DEF Crash, Queues, Writers
<1>2. FunderOnDisk'
  BY EmptyQueue DEF Crash, IInv, FunderOnDisk, Writing
<1>3. ClientOnDisk'
  BY EmptyQueue DEF Crash, ClientOnDisk, CreateNodeReport, NoView, Adding
<1> QED BY <1>1, <1>2, <1>3 DEF IInv

\* Steps of the application server change its report, its messages and the
\* channels; the rest of the node stays as it is.
LEMMA ServerIInv ==
  ASSUME IInv, UNCHANGED <<funderVars, clientVars, disk, writes, view, told>>, IsFiniteSet(apps'),
         IsQueue(aout'), \A x \in ToSet(aout') : Within(x.msg, disk.config),
         IsQueue(fromFunder'), ToSet(fromFunder') \subseteq ToSet(fromFunder),
         IsQueue(fromClient'), ToSet(fromClient') \subseteq ToSet(fromClient),
         servers' \subseteq disk.config, DOMAIN toApp' = App,
         \A p \in App : IsQueue(toApp'[p]) /\ \A m \in ToSet(toApp'[p]) : Within(m, disk.config)
  PROVE  IInv'
<1>1. Queues'
  BY DEF IInv, Queues, Writers, funderVars, clientVars
<1>2. FunderOnDisk'
  BY DEF IInv, FunderOnDisk, Writing, funderVars
<1>3. ClientOnDisk'
  BY DEF IInv, ClientOnDisk, Adding, funderVars, clientVars
<1> QED BY <1>1, <1>2, <1>3 DEF IInv

\* An answer goes to the one who asked, or to nobody.
LEMMA AnswerWithin ==
  ASSUME NEW m, NEW c, Within(m, c), Answer(m)
  PROVE  IsQueue(aout') /\ \A x \in ToSet(aout') : Within(x.msg, c)
BY EmptyQueue, SingleQueue DEF Answer, Item

\* A message of the funder or of the index client at the application server.
LEMMA FromFunderIInv ==
  ASSUME IInv, FunderReported
  PROVE  IInv'
<1> DEFINE m == Head(fromFunder)
           ix == IndexMutations(report, m.ms)
           first == IF ix = <<>> THEN <<>> ELSE <<Item("client", [type |-> "apply", ms |-> ix])>>
<1>1. /\ IsQueue(fromFunder) /\ fromFunder # <<>> /\ fromFunder' = Tail(fromFunder)
      /\ UNCHANGED <<servers, apps, fromClient, appVars>>
  BY DEF FunderReported, FromFunder, Answer, IInv, Queues
<1>2. /\ IsQueue(fromFunder') /\ ToSet(fromFunder') \subseteq ToSet(fromFunder)
      /\ m \in ToSet(fromFunder)
  BY <1>1, TailQueue
<1>3. Within(m, disk.config) /\ IsFiniteSet(apps)
  BY <1>2 DEF IInv, ClientOnDisk, Queues
<1>4. IsQueue(aout') /\ \A x \in ToSet(aout') : Within(x.msg, disk.config)
  <2>1. CASE m.type = "mutations" /\ aout' = first \o Broadcast(m)
    <3>1. IsQueue(first) /\ \A x \in ToSet(first) : x.msg.type = "apply"
      BY EmptyQueue, SingleQueue DEF Item
    <3>2. IsQueue(Broadcast(m)) /\ \A x \in ToSet(Broadcast(m)) : x.msg = m
      BY <1>3, ToEachCopies DEF Broadcast
    <3> HIDE DEF first, m
    <3>3. IsQueue(aout') /\ ToSet(aout') = ToSet(first) \cup ToSet(Broadcast(m))
      BY <2>1, <3>1, <3>2, ConcatQueue
    <3>4. \A x \in ToSet(first) : Within(x.msg, disk.config)
      BY <3>1 DEF Within
    <3>5. \A x \in ToSet(Broadcast(m)) : Within(x.msg, disk.config)
      BY <3>2, <1>3
    <3> QED BY <3>3, <3>4, <3>5
  <2>2. CASE m.type = "result" /\ Answer(m)
    <3> HIDE DEF m
    <3> QED BY <2>2, <1>3, AnswerWithin
  <2> QED
    BY <2>1, <2>2 DEF FunderReported, FromFunder
<1> QED
  BY <1>1, <1>2, <1>4, ServerIInv DEF FunderReported, IInv, Queues, ClientOnDisk, appVars

\* The application server handles a message of the index client.
LEMMA FromIndexClientIInv ==
  ASSUME IInv, FromIndexClient, UNCHANGED nodeVars
  PROVE  IInv'
<1> DEFINE m == Head(fromClient)
<1>1. /\ IsQueue(fromClient) /\ fromClient # <<>> /\ fromClient' = Tail(fromClient)
      /\ UNCHANGED <<apps, fromFunder, appVars>>
  BY DEF FromIndexClient, IInv, Queues
<1>2. /\ IsQueue(fromClient') /\ ToSet(fromClient') \subseteq ToSet(fromClient)
      /\ m \in ToSet(fromClient)
  BY <1>1, TailQueue
<1>3. Within(m, disk.config) /\ IsFiniteSet(apps) /\ servers \subseteq disk.config
  BY <1>2 DEF IInv, ClientOnDisk, Queues
<1>4. /\ IsQueue(aout') /\ \A x \in ToSet(aout') : Within(x.msg, disk.config)
      /\ servers' \subseteq disk.config
  <2>1. CASE m.type = "mutations" /\ aout' = Broadcast(m) /\ servers' = servers \cup m.added
    <3>1. IsQueue(Broadcast(m)) /\ \A x \in ToSet(Broadcast(m)) : x.msg = m
      BY <1>3, ToEachCopies DEF Broadcast
    <3> QED BY <3>1, <2>1, <1>3 DEF Within
  <2>2. CASE m.type = "result" /\ Answer(m)
    <3>1. servers' = servers
      BY <2>2 DEF Answer
    <3> HIDE DEF m
    <3> QED BY <2>2, <3>1, <1>3, AnswerWithin
  <2> QED
    BY <2>1, <2>2 DEF FromIndexClient
<1> QED
  BY <1>1, <1>2, <1>4, ServerIInv DEF IInv, Queues, ClientOnDisk, appVars, nodeVars, historyVars

\* A message of the application server leaves.
LEMMA AppServerSendsIInv ==
  ASSUME IInv, AppServerSends, UNCHANGED nodeVars
  PROVE  IInv'
<1> DEFINE x == Head(aout)
<1>1. /\ IsQueue(aout) /\ aout # <<>> /\ aout' = Tail(aout)
      /\ UNCHANGED <<serverVars, fromFunder, fromClient>>
  BY DEF AppServerSends, IInv, Queues
<1>2. IsQueue(aout') /\ ToSet(aout') \subseteq ToSet(aout) /\ x \in ToSet(aout)
  BY <1>1, TailQueue
<1>3. /\ Within(x.msg, disk.config) /\ DOMAIN toApp = App
      /\ \A p \in App : IsQueue(toApp[p]) /\ \A m \in ToSet(toApp[p]) : Within(m, disk.config)
  BY <1>2 DEF IInv, ClientOnDisk, Queues
<1>4. toApp' = toApp \/ (x.to \in App /\ toApp' = [toApp EXCEPT ![x.to] = Append(@, x.msg)])
  BY DEF AppServerSends
<1>5. /\ DOMAIN toApp' = App
      /\ \A p \in App : IsQueue(toApp'[p]) /\ \A m \in ToSet(toApp'[p]) : Within(m, disk.config)
  <2>1. CASE toApp' = toApp
    BY <2>1, <1>3
  <2>2. CASE x.to \in App /\ toApp' = [toApp EXCEPT ![x.to] = Append(@, x.msg)]
    <3>1. /\ IsQueue(Append(toApp[x.to], x.msg))
          /\ ToSet(Append(toApp[x.to], x.msg)) = ToSet(toApp[x.to]) \cup {x.msg}
      BY <2>2, <1>3, AppendQueue
    <3> QED BY <2>2, <3>1, <1>3
  <2> QED BY <1>4, <2>1, <2>2
<1> QED
  BY <1>1, <1>2, <1>5, ServerIInv DEF IInv, Queues, ClientOnDisk, serverVars, nodeVars, historyVars

\* A connection of an application begins, ends, or carries a request.
LEMMA ConnectionIInv ==
  ASSUME IInv, UNCHANGED nodeVars, NEW p \in App,
         IncomingConnection(p) \/ AppEnded(p) \/ \E m : m.type = "request" /\ FromApp(p, m)
  PROVE  IInv'
<1>1. /\ UNCHANGED <<servers, fromFunder, fromClient, toApp>>
      /\ IsFiniteSet(apps')
      /\ IsQueue(aout') /\ \A x \in ToSet(aout') : Within(x.msg, disk.config)
  <2>0. IsFiniteSet(apps) /\ IsQueue(aout) /\ servers \subseteq disk.config
        /\ \A x \in ToSet(aout) : Within(x.msg, disk.config)
    BY DEF IInv, Queues, ClientOnDisk
  <2>1. CASE IncomingConnection(p)
    <3> DEFINE msg == [type |-> "report", report |-> report, servers |-> servers]
    <3>1. Within(msg, disk.config)
      BY <2>0 DEF Within
    <3>2. aout' = <<Item(p, msg)>> /\ apps' = apps \cup {p}
          /\ UNCHANGED <<servers, fromFunder, fromClient, toApp>>
      BY <2>1 DEF IncomingConnection, channels
    <3> HIDE DEF msg
    <3>3. Item(p, msg).msg = msg
      BY DEF Item
    <3> QED BY <2>0, <3>1, <3>2, <3>3, SingleQueue, FS_AddElement
  <2>2. CASE AppEnded(p)
    BY <2>0, <2>2, FS_RemoveElement DEF AppEnded, channels, appVars
  <2>3. CASE \E m : m.type = "request" /\ FromApp(p, m)
    <3>1. PICK m : m.type = "request" /\ FromApp(p, m)
      BY <2>3
    <3>2. /\ aout' = aout \/ aout' = <<Item(Destination(m.kind), m)>>
          /\ UNCHANGED <<servers, apps, fromFunder, fromClient, toApp>>
      BY <3>1 DEF FromApp, channels, appVars
    <3>3. Within(m, disk.config) /\ Item(Destination(m.kind), m).msg = m
      BY <3>1 DEF Within, Item
    <3> QED BY <2>0, <3>2, <3>3, SingleQueue
  <2> QED BY <2>1, <2>2, <2>3
<1> QED
  BY <1>1, ServerIInv DEF IInv, Queues, ClientOnDisk, nodeVars, historyVars

\* A request of an application.
LEMMA RequestIInv ==
  ASSUME IInv, NEW p \in App, Request(p)
  PROVE  IInv'
<1>1. PICK k \in Kinds, f \in Friend :
        FromApp(p, [type |-> "request", id |-> <<p, sent[p]>>, kind |-> k, friend |-> f])
  BY DEF Request
<1> DEFINE m == [type |-> "request", id |-> <<p, sent[p]>>, kind |-> k, friend |-> f]
<1>2. m.type = "request" /\ FromApp(p, m)
  BY <1>1
<1>3. UNCHANGED nodeVars
  BY DEF Request
<1> HIDE DEF m
<1> QED BY <1>2, <1>3, ConnectionIInv

\* An application takes a message, or closes its connection.
LEMMA AppIInv ==
  ASSUME IInv, NEW p \in App, AppTakes(p) \/ AppCloses(p)
  PROVE  IInv'
<1>1. UNCHANGED <<serverVars, aout, fromFunder, fromClient, funderVars, clientVars, disk, writes, told>>
  BY DEF AppTakes, AppCloses, channels, historyVars
<1>2. /\ DOMAIN toApp' = App /\ DOMAIN view' = App
      /\ \A q \in App : IsQueue(toApp'[q]) /\ \A m \in ToSet(toApp'[q]) : Within(m, disk.config)
      /\ \A q \in App : view'[q].servers \subseteq disk.config
  <2>0. /\ DOMAIN toApp = App /\ DOMAIN view = App
        /\ \A q \in App : IsQueue(toApp[q]) /\ \A m \in ToSet(toApp[q]) : Within(m, disk.config)
        /\ \A q \in App : view[q].servers \subseteq disk.config
    BY DEF IInv, Queues, ClientOnDisk
  <2>1. CASE AppTakes(p)
    <3>1. /\ IsQueue(Tail(toApp[p])) /\ ToSet(Tail(toApp[p])) \subseteq ToSet(toApp[p])
          /\ Head(toApp[p]) \in ToSet(toApp[p])
      BY <2>0, <2>1, TailQueue DEF AppTakes
    <3>2. After(view[p], Head(toApp[p])).servers \subseteq disk.config
      BY <2>0, <3>1 DEF After, Within
    <3> QED BY <2>0, <2>1, <3>1, <3>2 DEF AppTakes
  <2>2. CASE AppCloses(p)
    BY <2>0, <2>2, EmptyQueue DEF AppCloses, NoView
  <2> QED BY <2>1, <2>2
<1>3. Queues'
  BY <1>1, <1>2 DEF IInv, Queues, Writers, serverVars, funderVars, clientVars
<1>4. FunderOnDisk'
  BY <1>1 DEF IInv, FunderOnDisk, Writing, funderVars
<1>5. ClientOnDisk'
  BY <1>1, <1>2 DEF IInv, ClientOnDisk, Adding, serverVars, funderVars, clientVars
<1> QED BY <1>3, <1>4, <1>5 DEF IInv

\* Every step of the node keeps the invariant.
LEMMA NextIInv == IInv /\ [Next]_vars => IInv'
<1> SUFFICES ASSUME IInv, [Next]_vars PROVE IInv'
  OBVIOUS
<1>1. CASE Control
  BY <1>1, ControlIInv
<1>2. CASE FunderSends
  BY <1>2, FunderSendsIInv
<1>3. CASE ClientTakes
  BY <1>3, ClientTakesIInv
<1>4. CASE ClientSends
  BY <1>4, ClientSendsIInv
<1>5. CASE DatabaseWrites
  BY <1>5, DatabaseWritesIInv
<1>6. CASE Crash
  BY <1>6, CrashIInv
<1>7. CASE \E type \in {"online", "offline", "message"}, f \in Friend : Comm(type, f)
  BY <1>7, CommIInv
<1>8. CASE FunderReported
  BY <1>8, FromFunderIInv
<1>8a. CASE (FromIndexClient \/ AppServerSends) /\ UNCHANGED <<nodeVars, sent>>
  BY <1>8a, FromIndexClientIInv, AppServerSendsIInv
<1>9. CASE \E p \in App : (IncomingConnection(p) \/ AppEnded(p)) /\ UNCHANGED <<nodeVars, sent>>
  BY <1>9, ConnectionIInv
<1>10. CASE \E p \in App : Request(p) \/ AppTakes(p) \/ AppCloses(p)
  BY <1>10, RequestIInv, AppIInv
<1>11. CASE UNCHANGED vars
  <2>1. /\ UNCHANGED <<report, servers, apps, requesters, aout, toFunder, fromFunder, toClient,
                       fromClient, toApp, appState>>
        /\ UNCHANGED <<friends, number, online, fout, config, known, cout, disk, writes, view, told>>
    BY <1>11 DEF vars, serverVars, channels, appVars, funderVars, clientVars, historyVars
  <2> QED
    BY <2>1 DEF IInv, Queues, Writers, FunderOnDisk, ClientOnDisk, Adding, Writing
<1> QED
  BY <1>1, <1>2, <1>3, <1>4, <1>5, <1>6, <1>7, <1>8, <1>8a, <1>9, <1>10, <1>11 DEF Next

\* The inductive invariant of the node.
THEOREM NodeInvariant == Spec => []IInv
BY InitIInv, NextIInv, PTL DEF Spec

\* What was shown to a friend, or reported of the index servers to an application,
\* is in the file, whatever the interleaving of the loops and wherever the node is
\* stopped (inner_funder_loop and the index client send after db_client.mutate).
THEOREM ToldStaysOnDisk == Spec => []ToldIsOnDisk
<1>1. IInv => ToldIsOnDisk
  BY DEF IInv, FunderOnDisk, ClientOnDisk, ToldIsOnDisk
<1> QED BY <1>1, NodeInvariant, PTL
-----------------------------------------------------------------------------
(***************************************************************************)
(* Messages that are passed on one after the other.  Each of the           *)
(* definitions below is what a recursive function of the model computes,   *)
(* step by step.                                                           *)
(***************************************************************************)
ForStep(q, x, to) == IF x.to = to THEN Append(q, x.msg) ELSE q
ForTrace(t, out, to) == t[0] = <<>> /\ \A i \in 1..Len(out) : t[i] = ForStep(t[i - 1], out[i], to)

AfterTrace(t, v, msgs) == t[0] = v /\ \A i \in 1..Len(msgs) : t[i] = After(t[i - 1], msgs[i])

KnownStep(k, m) == IF m.type = "apply" THEN ApplyIndexMutations(k, m.ms) ELSE k
KnownTrace(t, k, msgs) == t[0] = k /\ \A i \in 1..Len(msgs) : t[i] = KnownStep(t[i - 1], msgs[i])

MutateTrace(t, r, ms) == t[0] = r /\ \A i \in 1..Len(ms) : t[i] = MutateReport(t[i - 1], ms[i])
ConvertTrace(t, r, ms) ==
  t[0] = <<>> /\ \A i \in 1..Len(ms) : t[i] = t[i - 1] \o IndexMutation(r, ms[i])
ApplyTrace(t, k, ims) ==
  t[0] = k /\ \A i \in 1..Len(ims) : t[i] = ApplyIndexMutation(t[i - 1], ims[i])

\* The messages for one receiver are picked one after the other.
LEMMA ForSteps ==
  ASSUME NEW out, NEW to, Len(out) \in Nat
  PROVE  \E t : ForTrace(t, out, to) /\ For(out, to) = t[Len(out)]
<1> DEFINE Step(i, q) == IF out[i].to = to THEN Append(q, out[i].msg) ELSE q
           Traces(n, t) == t = [i \in 0..n |-> IF i = 0 THEN <<>> ELSE Step(i, t[i - 1])]
           T == {n \in Nat : \E t : Traces(n, t)}
           c == CHOOSE t : Traces(Len(out), t)
<1>1. 0 \in T
  <2>1. Traces(0, [i \in 0..0 |-> <<>>])
    OBVIOUS
  <2> QED BY <2>1
<1>2. For(out, to) = c[Len(out)]
  BY DEF For
<1> HIDE DEF Step
<1>3. ASSUME NEW k \in 0..(Len(out) - 1), k \in T PROVE k + 1 \in T
  <2>1. PICK t : Traces(k, t)
    BY <1>3
  <2> DEFINE u == [i \in 0..(k + 1) |-> IF i = k + 1 THEN Step(i, t[k]) ELSE t[i]]
  <2>2. ASSUME NEW i \in 0..(k + 1) PROVE u[i] = IF i = 0 THEN <<>> ELSE Step(i, u[i - 1])
    <3>1. CASE i = k + 1
      BY <3>1, <2>1
    <3>2. CASE i # k + 1
      BY <3>2, <2>1
    <3> QED BY <3>1, <3>2
  <2>3. Traces(k + 1, u)
    BY <2>2
  <2> HIDE DEF u
  <2>4. \E t1 : Traces(k + 1, t1)
    BY <2>3
  <2> HIDE DEF Traces
  <2> QED BY <2>4
<1> HIDE DEF T
<1>4. Len(out) \in T
  <2>1. \A k \in 0..Len(out) : k \in T
    BY <1>1, <1>3, Induction
  <2> QED BY <2>1
<1>5. \E t : Traces(Len(out), t)
  BY <1>4 DEF T
<1> HIDE DEF Traces
<1>6. Traces(Len(out), c)
  BY <1>5
<1> HIDE DEF c
<1>7. \A i \in 0..Len(out) : c[i] = IF i = 0 THEN <<>> ELSE Step(i, c[i - 1])
  BY <1>6 DEF Traces
<1>8. 0 \in 0..Len(out) /\ \A i \in 1..Len(out) : i \in 0..Len(out) /\ i # 0
  OBVIOUS
<1>9. ForTrace(c, out, to)
  BY <1>7, <1>8 DEF Step, ForTrace, ForStep
<1> QED BY <1>2, <1>9

\* What is known changes with one message after the other.
LEMMA AfterSteps ==
  ASSUME NEW msgs, NEW v, Len(msgs) \in Nat
  PROVE  \E t : AfterTrace(t, v, msgs) /\ AfterEach(v, msgs) = t
<1> DEFINE Step(i, q) == After(q, msgs[i])
           Traces(n, t) == t = [i \in 0..n |-> IF i = 0 THEN v ELSE Step(i, t[i - 1])]
           T == {n \in Nat : \E t : Traces(n, t)}
           c == CHOOSE t : Traces(Len(msgs), t)
<1>1. 0 \in T
  <2>1. Traces(0, [i \in 0..0 |-> v])
    OBVIOUS
  <2> QED BY <2>1
<1>2. AfterEach(v, msgs) = c
  BY DEF AfterEach
<1> HIDE DEF Step
<1>3. ASSUME NEW k \in 0..(Len(msgs) - 1), k \in T PROVE k + 1 \in T
  <2>1. PICK t : Traces(k, t)
    BY <1>3
  <2> DEFINE u == [i \in 0..(k + 1) |-> IF i = k + 1 THEN Step(i, t[k]) ELSE t[i]]
  <2>2. ASSUME NEW i \in 0..(k + 1) PROVE u[i] = IF i = 0 THEN v ELSE Step(i, u[i - 1])
    <3>1. CASE i = k + 1
      BY <3>1, <2>1
    <3>2. CASE i # k + 1
      BY <3>2, <2>1
    <3> QED BY <3>1, <3>2
  <2>3. Traces(k + 1, u)
    BY <2>2
  <2> HIDE DEF u
  <2>4. \E t1 : Traces(k + 1, t1)
    BY <2>3
  <2> HIDE DEF Traces
  <2> QED BY <2>4
<1> HIDE DEF T
<1>4. Len(msgs) \in T
  <2>1. \A k \in 0..Len(msgs) : k \in T
    BY <1>1, <1>3, Induction
  <2> QED BY <2>1
<1>5. \E t : Traces(Len(msgs), t)
  BY <1>4 DEF T
<1> HIDE DEF Traces
<1>6. Traces(Len(msgs), c)
  BY <1>5
<1> HIDE DEF c
<1>7. \A i \in 0..Len(msgs) : c[i] = IF i = 0 THEN v ELSE Step(i, c[i - 1])
  BY <1>6 DEF Traces
<1>8. 0 \in 0..Len(msgs) /\ \A i \in 1..Len(msgs) : i \in 0..Len(msgs) /\ i # 0
  OBVIOUS
<1>9. AfterTrace(c, v, msgs)
  BY <1>7, <1>8 DEF Step, AfterTrace
<1> QED BY <1>2, <1>9

\* The capacities that the index client knows, message after message.
LEMMA KnownSteps ==
  ASSUME NEW msgs, NEW k0, Len(msgs) \in Nat
  PROVE  \E t : KnownTrace(t, k0, msgs) /\ KnownAfter(k0, msgs) = t[Len(msgs)]
<1> DEFINE Step(i, q) == KnownStep(q, msgs[i])
           Traces(n, t) == t = [i \in 0..n |-> IF i = 0 THEN k0 ELSE Step(i, t[i - 1])]
           T == {n \in Nat : \E t : Traces(n, t)}
           c == CHOOSE t : Traces(Len(msgs), t)
<1>1. 0 \in T
  <2>1. Traces(0, [i \in 0..0 |-> k0])
    OBVIOUS
  <2> QED BY <2>1
<1>2. KnownAfter(k0, msgs) = c[Len(msgs)]
  BY DEF KnownAfter, KnownStep
<1> HIDE DEF Step
<1>3. ASSUME NEW k \in 0..(Len(msgs) - 1), k \in T PROVE k + 1 \in T
  <2>1. PICK t : Traces(k, t)
    BY <1>3
  <2> DEFINE u == [i \in 0..(k + 1) |-> IF i = k + 1 THEN Step(i, t[k]) ELSE t[i]]
  <2>2. ASSUME NEW i \in 0..(k + 1) PROVE u[i] = IF i = 0 THEN k0 ELSE Step(i, u[i - 1])
    <3>1. CASE i = k + 1
      BY <3>1, <2>1
    <3>2. CASE i # k + 1
      BY <3>2, <2>1
    <3> QED BY <3>1, <3>2
  <2>3. Traces(k + 1, u)
    BY <2>2
  <2> HIDE DEF u
  <2>4. \E t1 : Traces(k + 1, t1)
    BY <2>3
  <2> HIDE DEF Traces
  <2> QED BY <2>4
<1> HIDE DEF T
<1>4. Len(msgs) \in T
  <2>1. \A k \in 0..Len(msgs) : k \in T
    BY <1>1, <1>3, Induction
  <2> QED BY <2>1
<1>5. \E t : Traces(Len(msgs), t)
  BY <1>4 DEF T
<1> HIDE DEF Traces
<1>6. Traces(Len(msgs), c)
  BY <1>5
<1> HIDE DEF c
<1>7. \A i \in 0..Len(msgs) : c[i] = IF i = 0 THEN k0 ELSE Step(i, c[i - 1])
  BY <1>6 DEF Traces
<1>8. 0 \in 0..Len(msgs) /\ \A i \in 1..Len(msgs) : i \in 0..Len(msgs) /\ i # 0
  OBVIOUS
<1>9. KnownTrace(c, k0, msgs)
  BY <1>7, <1>8 DEF Step, KnownTrace
<1> QED BY <1>2, <1>9

\* A report changes with one mutation after the other.
LEMMA MutateSteps ==
  ASSUME NEW ms, NEW r, Len(ms) \in Nat
  PROVE  \E t : MutateTrace(t, r, ms) /\ MutateAll(r, ms) = t[Len(ms)]
<1> DEFINE Step(i, q) == MutateReport(q, ms[i])
           Traces(n, t) == t = [i \in 0..n |-> IF i = 0 THEN r ELSE Step(i, t[i - 1])]
           T == {n \in Nat : \E t : Traces(n, t)}
           c == CHOOSE t : Traces(Len(ms), t)
<1>1. 0 \in T
  <2>1. Traces(0, [i \in 0..0 |-> r])
    OBVIOUS
  <2> QED BY <2>1
<1>2. MutateAll(r, ms) = c[Len(ms)]
  BY DEF MutateAll
<1> HIDE DEF Step
<1>3. ASSUME NEW k \in 0..(Len(ms) - 1), k \in T PROVE k + 1 \in T
  <2>1. PICK t : Traces(k, t)
    BY <1>3
  <2> DEFINE u == [i \in 0..(k + 1) |-> IF i = k + 1 THEN Step(i, t[k]) ELSE t[i]]
  <2>2. ASSUME NEW i \in 0..(k + 1) PROVE u[i] = IF i = 0 THEN r ELSE Step(i, u[i - 1])
    <3>1. CASE i = k + 1
      BY <3>1, <2>1
    <3>2. CASE i # k + 1
      BY <3>2, <2>1
    <3> QED BY <3>1, <3>2
  <2>3. Traces(k + 1, u)
    BY <2>2
  <2> HIDE DEF u
  <2>4. \E t1 : Traces(k + 1, t1)
    BY <2>3
  <2> HIDE DEF Traces
  <2> QED BY <2>4
<1> HIDE DEF T
<1>4. Len(ms) \in T
  <2>1. \A k \in 0..Len(ms) : k \in T
    BY <1>1, <1>3, Induction
  <2> QED BY <2>1
<1>5. \E t : Traces(Len(ms), t)
  BY <1>4 DEF T
<1> HIDE DEF Traces
<1>6. Traces(Len(ms), c)
  BY <1>5
<1> HIDE DEF c
<1>7. \A i \in 0..Len(ms) : c[i] = IF i = 0 THEN r ELSE Step(i, c[i - 1])
  BY <1>6 DEF Traces
<1>8. 0 \in 0..Len(ms) /\ \A i \in 1..Len(ms) : i \in 0..Len(ms) /\ i # 0
  OBVIOUS
<1>9. MutateTrace(c, r, ms)
  BY <1>7, <1>8 DEF Step, MutateTrace
<1> QED BY <1>2, <1>9

\* The mutations for the index client are collected one after the other.
LEMMA ConvertSteps ==
  ASSUME NEW ms, NEW r, Len(ms) \in Nat
  PROVE  \E t : ConvertTrace(t, r, ms) /\ IndexMutations(r, ms) = t[Len(ms)]
<1> DEFINE Step(i, q) == q \o IndexMutation(r, ms[i])
           Traces(n, t) == t = [i \in 0..n |-> IF i = 0 THEN <<>> ELSE Step(i, t[i - 1])]
           T == {n \in Nat : \E t : Traces(n, t)}
           c == CHOOSE t : Traces(Len(ms), t)
<1>1. 0 \in T
  <2>1. Traces(0, [i \in 0..0 |-> <<>>])
    OBVIOUS
  <2> QED BY <2>1
<1>2. IndexMutations(r, ms) = c[Len(ms)]
  BY DEF IndexMutations
<1> HIDE DEF Step
<1>3. ASSUME NEW k \in 0..(Len(ms) - 1), k \in T PROVE k + 1 \in T
  <2>1. PICK t : Traces(k, t)
    BY <1>3
  <2> DEFINE u == [i \in 0..(k + 1) |-> IF i = k + 1 THEN Step(i, t[k]) ELSE t[i]]
  <2>2. ASSUME NEW i \in 0..(k + 1) PROVE u[i] = IF i = 0 THEN <<>> ELSE Step(i, u[i - 1])
    <3>1. CASE i = k + 1
      BY <3>1, <2>1
    <3>2. CASE i # k + 1
      BY <3>2, <2>1
    <3> QED BY <3>1, <3>2
  <2>3. Traces(k + 1, u)
    BY <2>2
  <2> HIDE DEF u
  <2>4. \E t1 : Traces(k + 1, t1)
    BY <2>3
  <2> HIDE DEF Traces
  <2> QED BY <2>4
<1> HIDE DEF T
<1>4. Len(ms) \in T
  <2>1. \A k \in 0..Len(ms) : k \in T
    BY <1>1, <1>3, Induction
  <2> QED BY <2>1
<1>5. \E t : Traces(Len(ms), t)
  BY <1>4 DEF T
<1> HIDE DEF Traces
<1>6. Traces(Len(ms), c)
  BY <1>5
<1> HIDE DEF c
<1>7. \A i \in 0..Len(ms) : c[i] = IF i = 0 THEN <<>> ELSE Step(i, c[i - 1])
  BY <1>6 DEF Traces
<1>8. 0 \in 0..Len(ms) /\ \A i \in 1..Len(ms) : i \in 0..Len(ms) /\ i # 0
  OBVIOUS
<1>9. ConvertTrace(c, r, ms)
  BY <1>7, <1>8 DEF Step, ConvertTrace
<1> QED BY <1>2, <1>9

\* Mutations are applied by the index client one after the other.
LEMMA ApplySteps ==
  ASSUME NEW ims, NEW k0, Len(ims) \in Nat
  PROVE  \E t : ApplyTrace(t, k0, ims) /\ ApplyIndexMutations(k0, ims) = t[Len(ims)]
<1> DEFINE Step(i, q) == ApplyIndexMutation(q, ims[i])
           Traces(n, t) == t = [i \in 0..n |-> IF i = 0 THEN k0 ELSE Step(i, t[i - 1])]
           T == {n \in Nat : \E t : Traces(n, t)}
           c == CHOOSE t : Traces(Len(ims), t)
<1>1. 0 \in T
  <2>1. Traces(0, [i \in 0..0 |-> k0])
    OBVIOUS
  <2> QED BY <2>1
<1>2. ApplyIndexMutations(k0, ims) = c[Len(ims)]
  BY DEF ApplyIndexMutations
<1> HIDE DEF Step
<1>3. ASSUME NEW k \in 0..(Len(ims) - 1), k \in T PROVE k + 1 \in T
  <2>1. PICK t : Traces(k, t)
    BY <1>3
  <2> DEFINE u == [i \in 0..(k + 1) |-> IF i = k + 1 THEN Step(i, t[k]) ELSE t[i]]
  <2>2. ASSUME NEW i \in 0..(k + 1) PROVE u[i] = IF i = 0 THEN k0 ELSE Step(i, u[i - 1])
    <3>1. CASE i = k + 1
      BY <3>1, <2>1
    <3>2. CASE i # k + 1
      BY <3>2, <2>1
    <3> QED BY <3>1, <3>2
  <2>3. Traces(k + 1, u)
    BY <2>2
  <2> HIDE DEF u
  <2>4. \E t1 : Traces(k + 1, t1)
    BY <2>3
  <2> HIDE DEF Traces
  <2> QED BY <2>4
<1> HIDE DEF T
<1>4. Len(ims) \in T
  <2>1. \A k \in 0..Len(ims) : k \in T
    BY <1>1, <1>3, Induction
  <2> QED BY <2>1
<1>5. \E t : Traces(Len(ims), t)
  BY <1>4 DEF T
<1> HIDE DEF Traces
<1>6. Traces(Len(ims), c)
  BY <1>5
<1> HIDE DEF c
<1>7. \A i \in 0..Len(ims) : c[i] = IF i = 0 THEN k0 ELSE Step(i, c[i - 1])
  BY <1>6 DEF Traces
<1>8. 0 \in 0..Len(ims) /\ \A i \in 1..Len(ims) : i \in 0..Len(ims) /\ i # 0
  OBVIOUS
<1>9. ApplyTrace(c, k0, ims)
  BY <1>7, <1>8 DEF Step, ApplyTrace
<1> QED BY <1>2, <1>9

\* Two sequences of values that begin alike and go on alike are alike.
LEMMA SameSteps ==
  ASSUME NEW n \in Nat, NEW t, NEW u, t[0] = u[0],
         \A i \in 1..n : t[i - 1] = u[i - 1] => t[i] = u[i]
  PROVE  \A i \in 0..n : t[i] = u[i]
<1> DEFINE T == {i \in 0..n : t[i] = u[i]}
<1>1. 0 \in T
  OBVIOUS
<1>2. ASSUME NEW k \in 0..(n - 1), k \in T PROVE k + 1 \in T
  <2>1. k + 1 \in 1..n /\ (k + 1) - 1 = k /\ t[k] = u[k]
    BY <1>2
  <2> QED BY <2>1
<1> HIDE DEF T
<1>3. \A k \in 0..n : k \in T
  BY <1>1, <1>2, Induction
<1> QED BY <1>3 DEF T

\* The first element of a queue, and the others.
LEMMA QueueParts ==
  ASSUME NEW s, IsQueue(s)
  PROVE  /\ Len(s) \in Nat
         /\ Len(s) = 0 <=> s = <<>>
         /\ s # <<>> => /\ Len(Tail(s)) = Len(s) - 1 /\ Head(s) = s[1] /\ Len(s) > 0
                        /\ \A i \in 1..Len(Tail(s)) : Tail(s)[i] = s[i + 1]
         /\ \A x : /\ Len(Append(s, x)) = Len(s) + 1 /\ Append(s, x)[Len(s) + 1] = x
                   /\ \A i \in 1..Len(s) : Append(s, x)[i] = s[i]
BY DEF IsQueue

\* The empty queue before or after another.
LEMMA ConcatNone ==
  ASSUME NEW s, IsQueue(s)
  PROVE  s \o <<>> = s /\ <<>> \o s = s
BY DEF IsQueue

\* One element after a queue.
LEMMA ConcatOne ==
  ASSUME NEW s, NEW x, IsQueue(s)
  PROVE  s \o <<x>> = Append(s, x)
<1> DEFINE U == ToSet(s) \cup {x}
<1>1. s \in Seq(U) /\ x \in U
  BY DEF IsQueue
<1> HIDE DEF U
<1> QED BY <1>1

\* An element that is appended when another queue comes before or follows.
LEMMA ConcatAppend ==
  ASSUME NEW s, NEW t, NEW x, IsQueue(s), IsQueue(t)
  PROVE  /\ s \o Append(t, x) = Append(s \o t, x)
         /\ Append(s, x) \o t = s \o (<<x>> \o t)
<1> DEFINE U == ToSet(s) \cup ToSet(t) \cup {x}
           a == Append(s, x) \o t
           b == s \o (<<x>> \o t)
<1>1. s \in Seq(U) /\ t \in Seq(U) /\ x \in U
  BY DEF IsQueue
<1> HIDE DEF U
<1>2. s \o Append(t, x) = Append(s \o t, x)
  BY <1>1
<1>3. a \in Seq(U) /\ b \in Seq(U) /\ Len(a) = Len(s) + 1 + Len(t) /\ Len(b) = Len(a)
  BY <1>1
<1>4. ASSUME NEW i \in 1..Len(a) PROVE a[i] = b[i]
  <2>1. CASE i <= Len(s)
    BY <2>1, <1>1, <1>3
  <2>2. CASE i = Len(s) + 1
    BY <2>2, <1>1, <1>3
  <2>3. CASE i > Len(s) + 1
    BY <2>3, <1>1, <1>3
  <2> QED BY <2>1, <2>2, <2>3, <1>1, <1>3
<1> HIDE DEF a, b
<1>5. a = b
  BY <1>3, <1>4
<1> QED BY <1>2, <1>5 DEF a, b

\* The first element of a queue that another one follows.
LEMMA ConcatHead ==
  ASSUME NEW s, NEW t, IsQueue(s), IsQueue(t), s # <<>>
  PROVE  s \o t # <<>> /\ Head(s \o t) = Head(s) /\ Tail(s \o t) = Tail(s) \o t
<1> DEFINE T == ToSet(s) \cup ToSet(t)
           a == Tail(s \o t)
           b == Tail(s) \o t
<1>1. s \in Seq(T) /\ t \in Seq(T)
  BY DEF IsQueue
<1>2. /\ s \o t \in Seq(T) /\ Len(s \o t) = Len(s) + Len(t) /\ Len(s) \in Nat \ {0} /\ Len(t) \in Nat
      /\ \A i \in 1..Len(s) : (s \o t)[i] = s[i]
      /\ \A i \in 1..Len(t) : (s \o t)[Len(s) + i] = t[i]
  BY <1>1
<1>3. s \o t # <<>> /\ Head(s \o t) = Head(s)
  BY <1>1, <1>2
<1>4. /\ Tail(s) \in Seq(T) /\ Len(Tail(s)) = Len(s) - 1
      /\ \A i \in 1..(Len(s) - 1) : Tail(s)[i] = s[i + 1]
  BY <1>1
<1>5. /\ a \in Seq(T) /\ Len(a) = Len(s) + Len(t) - 1
      /\ \A i \in 1..Len(a) : a[i] = (s \o t)[i + 1]
  BY <1>2, <1>3
<1>6. /\ b \in Seq(T) /\ Len(b) = Len(s) - 1 + Len(t)
      /\ \A i \in 1..(Len(s) - 1) : b[i] = Tail(s)[i]
      /\ \A i \in 1..Len(t) : b[Len(s) - 1 + i] = t[i]
  BY <1>1, <1>2, <1>4
<1>7. ASSUME NEW i \in 1..Len(a) PROVE a[i] = b[i]
  <2>1. CASE i <= Len(s) - 1
    BY <2>1, <1>2, <1>4, <1>5, <1>6
  <2>2. CASE i > Len(s) - 1
    <3>1. i - (Len(s) - 1) \in 1..Len(t)
      BY <2>2, <1>2, <1>5
    <3>2. PICK j \in 1..Len(t) : j = i - (Len(s) - 1)
      BY <3>1
    <3>3. i = Len(s) - 1 + j /\ i + 1 = Len(s) + j
      BY <3>2, <1>2, <1>5
    <3> QED BY <3>3, <1>2, <1>5, <1>6
  <2> QED BY <2>1, <2>2, <1>2, <1>5
<1> HIDE DEF a, b
<1>8. Len(a) = Len(b)
  BY <1>2, <1>5, <1>6
<1>9. a = b
  BY ONLY <1>5, <1>6, <1>7, <1>8
<1> QED BY <1>3, <1>9 DEF a, b

\* Messages for one receiver: none, and the first before the others.
LEMMA ForNone == ASSUME NEW to PROVE For(<<>>, to) = <<>>
<1>1. Len(<<>>) = 0
  OBVIOUS
<1>2. PICK t : ForTrace(t, <<>>, to) /\ For(<<>>, to) = t[Len(<<>>)]
  BY <1>1, ForSteps
<1> QED BY <1>1, <1>2 DEF ForTrace

LEMMA ForQueue ==
  ASSUME NEW s, NEW to, IsQueue(s)
  PROVE  IsQueue(For(s, to))
<1>1. Len(s) \in Nat
  BY QueueParts
<1>2. PICK t : ForTrace(t, s, to) /\ For(s, to) = t[Len(s)]
  BY <1>1, ForSteps
<1> DEFINE T == {i \in 0..Len(s) : IsQueue(t[i])}
<1>3. 0 \in T
  BY <1>1, <1>2, EmptyQueue DEF ForTrace
<1>4. ASSUME NEW k \in 0..(Len(s) - 1), k \in T PROVE k + 1 \in T
  <2>1. k + 1 \in 1..Len(s) /\ (k + 1) - 1 = k /\ IsQueue(t[k])
    BY <1>1, <1>4
  <2>2. t[k + 1] = ForStep(t[k], s[k + 1], to)
    BY <1>2, <2>1 DEF ForTrace
  <2> QED BY <2>1, <2>2, AppendQueue DEF ForStep
<1> HIDE DEF T
<1>5. \A k \in 0..Len(s) : k \in T
  BY <1>1, <1>3, <1>4, Induction
<1> QED BY <1>1, <1>2, <1>5 DEF T

\* What the first message in s adds for the receiver.
FirstFor(x, to) == IF x.to = to THEN <<x.msg>> ELSE <<>>

LEMMA ForHead ==
  ASSUME NEW s, NEW to, IsQueue(s), s # <<>>
  PROVE  For(s, to) = FirstFor(Head(s), to) \o For(Tail(s), to)
<1> DEFINE h == FirstFor(Head(s), to)
           r == Tail(s)
<1>1. /\ Len(s) \in Nat /\ Len(s) > 0 /\ Len(r) = Len(s) - 1 /\ Len(r) \in Nat /\ Head(s) = s[1] /\ IsQueue(r)
      /\ \A i \in 1..Len(r) : r[i] = s[i + 1]
  BY QueueParts, TailQueue
<1>2. PICK t : ForTrace(t, s, to) /\ For(s, to) = t[Len(s)]
  BY <1>1, ForSteps
<1>3. PICK u : ForTrace(u, r, to) /\ For(r, to) = u[Len(r)]
  BY <1>1, ForSteps
<1>4. IsQueue(h)
  BY EmptyQueue, SingleQueue DEF FirstFor
<1>5. t[1] = h /\ t[0] = <<>>
  <2>1. 1 \in 1..Len(s) /\ 1 - 1 = 0
    BY <1>1
  <2>2. t[0] = <<>> /\ t[1] = ForStep(t[0], s[1], to)
    BY <2>1, <1>2 DEF ForTrace
  <2>3. Append(<<>>, s[1].msg) = <<s[1].msg>>
    OBVIOUS
  <2> QED BY <1>1, <2>2, <2>3 DEF ForStep, FirstFor
<1>6. u[0] = <<>> /\ \A i \in 1..Len(r) : u[i] = ForStep(u[i - 1], r[i], to)
  BY <1>3 DEF ForTrace
<1>7. \A i \in 1..Len(r) : t[i + 1] = ForStep(t[i], r[i], to)
  <2> TAKE i \in 1..Len(r)
  <2>1. i + 1 \in 1..Len(s) /\ (i + 1) - 1 = i
    BY <1>1
  <2> QED BY <2>1, <1>1, <1>2 DEF ForTrace
<1> HIDE DEF h, r
<1> DEFINE T == {i \in 0..Len(r) : IsQueue(u[i]) /\ t[i + 1] = h \o u[i]}
<1>8. 0 \in T
  <2>1. h \o <<>> = h /\ IsQueue(<<>>)
    BY <1>4, ConcatNone, EmptyQueue
  <2>2. IsQueue(u[0]) /\ t[1] = h \o u[0] /\ 0 + 1 = 1 /\ 0 \in 0..Len(r)
    BY <2>1, <1>1, <1>5, <1>6
  <2> QED BY <2>2
<1>9. ASSUME NEW k \in 0..(Len(r) - 1), k \in T PROVE k + 1 \in T
  <2>1. /\ k + 1 \in 1..Len(r) /\ (k + 1) - 1 = k /\ IsQueue(u[k]) /\ t[k + 1] = h \o u[k]
        /\ k + 1 \in 0..Len(r)
    BY <1>1, <1>9
  <2>2. u[k + 1] = ForStep(u[k], r[k + 1], to) /\ t[(k + 1) + 1] = ForStep(t[k + 1], r[k + 1], to)
    BY <1>6, <1>7, <2>1
  <2>3. CASE r[k + 1].to = to
    <3>1. u[k + 1] = Append(u[k], r[k + 1].msg) /\ t[(k + 1) + 1] = Append(h \o u[k], r[k + 1].msg)
      BY <2>1, <2>2, <2>3 DEF ForStep
    <3>2. Append(h \o u[k], r[k + 1].msg) = h \o Append(u[k], r[k + 1].msg)
      <4>1. IsQueue(h) /\ IsQueue(u[k])
        BY <1>4, <2>1
      <4>2. \A a, b, x : IsQueue(a) /\ IsQueue(b) => Append(a \o b, x) = a \o Append(b, x)
        BY ONLY ConcatAppend
      <4> QED BY ONLY <4>1, <4>2
    <3>3. IsQueue(u[k + 1])
      BY <3>1, <2>1, AppendQueue
    <3> QED BY <2>1, <3>1, <3>2, <3>3
  <2>4. CASE r[k + 1].to # to
    BY <2>1, <2>2, <2>4 DEF ForStep
  <2> QED BY <2>3, <2>4
<1> HIDE DEF T
<1>10. \A k \in 0..Len(r) : k \in T
  BY <1>1, <1>8, <1>9, Induction
<1>11. t[Len(r) + 1] = h \o u[Len(r)]
  BY <1>1, <1>10 DEF T
<1>12. Len(r) + 1 = Len(s)
  BY <1>1
<1>13. For(s, to) = h \o For(r, to)
  BY <1>2, <1>3, <1>11, <1>12
<1> QED BY <1>13 DEF h, r

\* One message, and one message before others.
LEMMA ForOne ==
  ASSUME NEW x, NEW to, NEW s, IsQueue(s)
  PROVE  /\ For(<<x>> \o s, to) = FirstFor(x, to) \o For(s, to)
         /\ For(<<x>>, to) = FirstFor(x, to)
<1>1. ASSUME NEW r, IsQueue(r) PROVE For(<<x>> \o r, to) = FirstFor(x, to) \o For(r, to)
  <2>1. IsQueue(<<x>>) /\ <<x>> # <<>> /\ Head(<<x>>) = x /\ Tail(<<x>>) = <<>>
    BY SingleQueue
  <2> DEFINE h == <<x>>
  <2> HIDE DEF h
  <2>2. h \o r # <<>> /\ Head(h \o r) = x /\ Tail(h \o r) = <<>> \o r
    BY <1>1, <2>1, ConcatHead DEF h
  <2>3. <<>> \o r = r /\ IsQueue(h \o r)
    BY <1>1, <2>1, ConcatNone, ConcatQueue DEF h
  <2>4. For(h \o r, to) = FirstFor(Head(h \o r), to) \o For(Tail(h \o r), to)
    BY <2>2, <2>3, ForHead
  <2> QED BY <2>2, <2>3, <2>4 DEF h
<1>2. For(<<x>>, to) = FirstFor(x, to)
  <2>1. IsQueue(<<>>) /\ IsQueue(<<x>>) /\ IsQueue(FirstFor(x, to))
    BY EmptyQueue, SingleQueue DEF FirstFor
  <2>2. <<x>> \o <<>> = <<x>> /\ FirstFor(x, to) \o <<>> = FirstFor(x, to)
    BY <2>1, ConcatNone
  <2> QED BY <2>1, <2>2, <1>1, ForNone
<1> QED BY <1>1, <1>2

\* A broadcast brings each of its receivers the message once, and others nothing.
LEMMA ForBroadcast ==
  ASSUME NEW S, NEW m, NEW p, IsFiniteSet(S)
  PROVE  For(ToEach(S, m), p) = IF p \in S THEN <<m>> ELSE <<>>
<1> DEFINE s == SetToSeq(S)
           e == ToEach(S, m)
           n == Cardinality(S)
<1>1. n \in Nat /\ ExistsBijection(1..n, S)
  BY FS_CardinalityType
<1>2. PICK b : b \in Bijection(1..n, S)
  BY <1>1 DEF ExistsBijection
<1>3. b \in [1..n -> S] /\ IsInjective(b)
  BY <1>2 DEF Bijection, Injection
<1>4. s \in [1..n -> S] /\ IsInjective(s)
  BY <1>3 DEF SetToSeq
<1>5. \A q \in S : \E i \in 1..n : s[i] = q
  <2>1. s \in Injection(1..n, S)
    BY <1>4 DEF Injection
  <2>2. IsFiniteSet(1..n) /\ Cardinality(1..n) = n
    BY <1>1, FS_Interval
  <2>3. s \in Surjection(1..n, S)
    BY <2>1, <2>2, FS_SameCardinalityBij, FS_Injection DEF Bijection
  <2> QED BY <2>3 DEF Surjection
<1>6. \A i, j \in 1..n : s[i] = s[j] => i = j
  BY <1>4 DEF IsInjective
<1> HIDE DEF s
<1>7. /\ DOMAIN e = 1..n /\ \A i \in 1..n : e[i].to = s[i] /\ e[i].msg = m
  BY <1>4 DEF ToEach, s, Item
<1>8. IsQueue(e)
  BY ToEachCopies
<1> HIDE DEF e
<1>9. Len(e) = n
  BY <1>1, <1>7, <1>8 DEF IsQueue
<1>10. PICK t : ForTrace(t, e, p) /\ For(e, p) = t[n]
  BY <1>1, <1>9, ForSteps
<1>11. t[0] = <<>> /\ \A i \in 1..n : t[i] = IF s[i] = p THEN Append(t[i - 1], m) ELSE t[i - 1]
  BY <1>7, <1>9, <1>10 DEF ForTrace, ForStep
<1> DEFINE Seen(i) == \E j \in 1..i : s[j] = p
           T == {i \in 0..n : t[i] = IF Seen(i) THEN <<m>> ELSE <<>>}
<1> HIDE DEF n
<1>12. 0 \in T
  BY <1>1, <1>11
<1>13. ASSUME NEW k \in 0..(n - 1), k \in T PROVE k + 1 \in T
  <2>1. /\ k + 1 \in 1..n /\ (k + 1) - 1 = k /\ k + 1 \in 0..n /\ k \in Nat
        /\ \A j \in 1..k : j \in 1..n /\ j # k + 1
    BY <1>1, <1>13
  <2>2. t[k] = IF Seen(k) THEN <<m>> ELSE <<>>
    BY <1>13
  <2>3. CASE s[k + 1] = p
    <3>1. ~Seen(k) /\ Seen(k + 1)
      BY <2>1, <2>3, <1>6
    <3>2. t[k + 1] = Append(<<>>, m)
      BY <1>11, <2>1, <2>2, <2>3, <3>1
    <3>3. Append(<<>>, m) = <<m>>
      OBVIOUS
    <3> QED BY <3>1, <3>2, <3>3, <2>1
  <2>4. CASE s[k + 1] # p
    <3>1. Seen(k + 1) <=> Seen(k)
      BY <2>1, <2>4
    <3> QED BY <1>11, <2>1, <2>2, <2>4, <3>1
  <2> QED BY <2>3, <2>4
<1> HIDE DEF T
<1>14. \A k \in 0..n : k \in T
  BY <1>1, <1>12, <1>13, Induction
<1>15. t[n] = IF Seen(n) THEN <<m>> ELSE <<>>
  BY <1>1, <1>14 DEF T
<1>16. Seen(n) <=> p \in S
  BY <1>4, <1>5
<1> QED BY <1>10, <1>15, <1>16 DEF e

\* What is known after no message, after one more, and after the first of them.
LEMMA AfterNone == ASSUME NEW v PROVE AfterAll(v, <<>>) = v
<1>1. Len(<<>>) = 0
  OBVIOUS
<1>2. AfterTrace(AfterEach(v, <<>>), v, <<>>)
  BY <1>1, AfterSteps
<1> QED BY <1>1, <1>2 DEF AfterAll, AfterTrace

LEMMA AfterAppend ==
  ASSUME NEW v, NEW s, NEW x, IsQueue(s)
  PROVE  /\ \A i \in 0..Len(s) : AfterEach(v, Append(s, x))[i] = AfterEach(v, s)[i]
         /\ AfterAll(v, Append(s, x)) = After(AfterAll(v, s), x)
<1> DEFINE a == Append(s, x)
           t == AfterEach(v, s)
           u == AfterEach(v, a)
           n == Len(s)
<1>1. n \in Nat /\ Len(a) = n + 1 /\ a[n + 1] = x /\ \A i \in 1..n : a[i] = s[i]
  BY QueueParts
<1>2. AfterTrace(t, v, s) /\ AfterTrace(u, v, a)
  BY <1>1, AfterSteps
<1> HIDE DEF a, t, u
<1>3. /\ t[0] = v /\ u[0] = v
      /\ \A i \in 1..n : t[i] = After(t[i - 1], s[i])
      /\ \A i \in 1..(n + 1) : u[i] = After(u[i - 1], a[i])
  BY <1>1, <1>2 DEF AfterTrace
<1> HIDE DEF n
<1>4. \A i \in 1..n : u[i - 1] = t[i - 1] => u[i] = t[i]
  BY <1>1, <1>3
<1>5. \A i \in 0..n : u[i] = t[i]
  <2>1. n \in Nat /\ u[0] = t[0]
    BY <1>1, <1>3
  <2> QED BY ONLY <2>1, <1>4, SameSteps
<1>6. n + 1 \in 1..(n + 1) /\ (n + 1) - 1 = n /\ n \in 0..n
  BY <1>1
<1>7. u[n + 1] = After(t[n], x)
  BY <1>1, <1>3, <1>5, <1>6
<1> QED BY <1>1, <1>5, <1>7 DEF AfterAll, a, t, u, n

LEMMA AfterHead ==
  ASSUME NEW v, NEW s, IsQueue(s), s # <<>>
  PROVE  /\ \A i \in 0..Len(Tail(s)) :
              AfterEach(After(v, Head(s)), Tail(s))[i] = AfterEach(v, s)[i + 1]
         /\ AfterAll(After(v, Head(s)), Tail(s)) = AfterAll(v, s)
<1> DEFINE r == Tail(s)
           w == After(v, Head(s))
           t == AfterEach(v, s)
           u == AfterEach(w, r)
           n == Len(r)
           z == [i \in 0..n |-> t[i + 1]]
<1>1. n \in Nat /\ Len(s) = n + 1 /\ Head(s) = s[1] /\ \A i \in 1..n : r[i] = s[i + 1]
  BY QueueParts, TailQueue
<1>2. AfterTrace(t, v, s) /\ AfterTrace(u, w, r)
  BY <1>1, AfterSteps
<1> HIDE DEF r, t, u
<1>3. /\ t[0] = v /\ u[0] = w
      /\ \A i \in 1..n : u[i] = After(u[i - 1], r[i])
      /\ \A i \in 1..(n + 1) : t[i] = After(t[i - 1], s[i])
  BY <1>1, <1>2 DEF AfterTrace
<1> HIDE DEF n
<1>4. t[1] = w
  <2>1. 1 \in 1..(n + 1) /\ 1 - 1 = 0
    BY <1>1
  <2> QED BY <2>1, <1>1, <1>3
<1>5. \A i \in 1..n : t[i + 1] = After(t[i], r[i])
  <2> TAKE i \in 1..n
  <2>1. i + 1 \in 1..(n + 1) /\ (i + 1) - 1 = i
    BY <1>1
  <2> QED BY <2>1, <1>1, <1>3
<1>6. u[0] = z[0] /\ \A i \in 1..n : u[i - 1] = z[i - 1] => u[i] = z[i]
  <2>1. u[0] = z[0]
    BY <1>1, <1>3, <1>4
  <2>2. ASSUME NEW i \in 1..n, u[i - 1] = z[i - 1] PROVE u[i] = z[i]
    <3>1. i \in 0..n /\ i - 1 \in 0..n /\ (i - 1) + 1 = i
      BY <1>1
    <3>2. z[i - 1] = t[i] /\ z[i] = t[i + 1]
      BY <3>1
    <3> QED BY <3>2, <2>2, <1>3, <1>5
  <2> QED BY <2>1, <2>2
<1> HIDE DEF z
<1>7. \A i \in 0..n : u[i] = z[i]
  <2>1. n \in Nat
    BY <1>1
  <2> QED BY ONLY <2>1, <1>6, SameSteps
<1>8. \A i \in 0..n : u[i] = t[i + 1]
  BY <1>7 DEF z
<1>9. u[n] = t[n + 1]
  BY <1>1, <1>8
<1> QED BY <1>1, <1>8, <1>9 DEF AfterAll, r, t, u, n

\* What is known of the friends does not depend on what is known of the servers.
LEMMA AfterReport ==
  ASSUME NEW v, NEW w, NEW s, IsQueue(s), v.report = w.report
  PROVE  /\ \A i \in 0..Len(s) : AfterEach(v, s)[i].report = AfterEach(w, s)[i].report
         /\ AfterAll(v, s).report = AfterAll(w, s).report
<1> DEFINE t == AfterEach(v, s)
           u == AfterEach(w, s)
           n == Len(s)
           a == [i \in 0..n |-> t[i].report]
           b == [i \in 0..n |-> u[i].report]
<1>1. n \in Nat
  BY QueueParts
<1>2. AfterTrace(t, v, s) /\ AfterTrace(u, w, s)
  BY <1>1, AfterSteps
<1> HIDE DEF t, u
<1>3. /\ t[0] = v /\ u[0] = w
      /\ \A i \in 1..n : t[i] = After(t[i - 1], s[i])
      /\ \A i \in 1..n : u[i] = After(u[i - 1], s[i])
  BY <1>2 DEF AfterTrace
<1> HIDE DEF n
<1>4. ASSUME NEW x, NEW y, NEW m, x.report = y.report PROVE After(x, m).report = After(y, m).report
  BY <1>4 DEF After
<1>5. \A i \in 1..n : a[i - 1] = b[i - 1] => a[i] = b[i]
  <2> SUFFICES ASSUME NEW i \in 1..n, a[i - 1] = b[i - 1] PROVE a[i] = b[i]
    OBVIOUS
  <2>1. i \in 0..n /\ i - 1 \in 0..n
    BY <1>1
  <2>2. t[i - 1].report = u[i - 1].report
    BY <2>1
  <2>3. After(t[i - 1], s[i]).report = After(u[i - 1], s[i]).report
    BY <2>2, <1>4
  <2> QED BY <2>1, <2>3, <1>3
<1>6. a[0] = b[0]
  BY <1>1, <1>3
<1> HIDE DEF a, b
<1>7. \A i \in 0..n : a[i] = b[i]
  BY <1>1, <1>5, <1>6, SameSteps
<1>8. \A i \in 0..n : t[i].report = u[i].report
  BY <1>7 DEF a, b
<1>9. n \in 0..n
  BY <1>1
<1> QED BY <1>8, <1>9 DEF AfterAll, t, u, n

\* The capacities that are known after no message, one more, and the first.
LEMMA KnownNone == ASSUME NEW k PROVE KnownAfter(k, <<>>) = k
<1>1. Len(<<>>) = 0
  OBVIOUS
<1>2. PICK t : KnownTrace(t, k, <<>>) /\ KnownAfter(k, <<>>) = t[Len(<<>>)]
  BY <1>1, KnownSteps
<1> QED BY <1>1, <1>2 DEF KnownTrace

LEMMA KnownAppend ==
  ASSUME NEW k, NEW s, NEW x, IsQueue(s)
  PROVE  KnownAfter(k, Append(s, x)) = KnownStep(KnownAfter(k, s), x)
<1> DEFINE a == Append(s, x)
           n == Len(s)
<1>1. n \in Nat /\ Len(a) = n + 1 /\ a[n + 1] = x /\ \A i \in 1..n : a[i] = s[i]
  BY QueueParts
<1>2. PICK t : KnownTrace(t, k, s) /\ KnownAfter(k, s) = t[n]
  BY <1>1, KnownSteps
<1> HIDE DEF a
<1>3. PICK u : KnownTrace(u, k, a) /\ KnownAfter(k, a) = u[n + 1]
  BY <1>1, KnownSteps
<1>4. /\ t[0] = k /\ u[0] = k
      /\ \A i \in 1..n : t[i] = KnownStep(t[i - 1], s[i])
      /\ \A i \in 1..(n + 1) : u[i] = KnownStep(u[i - 1], a[i])
  BY <1>1, <1>2, <1>3 DEF KnownTrace
<1> HIDE DEF n
<1>5. \A i \in 1..n : u[i - 1] = t[i - 1] => u[i] = t[i]
  BY <1>1, <1>4
<1>6. \A i \in 0..n : u[i] = t[i]
  <2>1. n \in Nat /\ u[0] = t[0]
    BY <1>1, <1>4
  <2> QED BY ONLY <2>1, <1>5, SameSteps
<1>7. n + 1 \in 1..(n + 1) /\ (n + 1) - 1 = n /\ n \in 0..n
  BY <1>1
<1>8. u[n + 1] = KnownStep(t[n], x)
  BY <1>1, <1>4, <1>6, <1>7
<1> QED BY <1>2, <1>3, <1>8 DEF a

LEMMA KnownHead ==
  ASSUME NEW k, NEW s, IsQueue(s), s # <<>>
  PROVE  KnownAfter(KnownStep(k, Head(s)), Tail(s)) = KnownAfter(k, s)
<1> DEFINE r == Tail(s)
           w == KnownStep(k, Head(s))
           n == Len(r)
<1>1. n \in Nat /\ Len(s) = n + 1 /\ Head(s) = s[1] /\ \A i \in 1..n : r[i] = s[i + 1]
  BY QueueParts, TailQueue
<1>2. PICK t : KnownTrace(t, k, s) /\ KnownAfter(k, s) = t[n + 1]
  BY <1>1, KnownSteps
<1> HIDE DEF r
<1>3. PICK u : KnownTrace(u, w, r) /\ KnownAfter(w, r) = u[n]
  BY <1>1, KnownSteps
<1>4. /\ t[0] = k /\ u[0] = w
      /\ \A i \in 1..n : u[i] = KnownStep(u[i - 1], r[i])
      /\ \A i \in 1..(n + 1) : t[i] = KnownStep(t[i - 1], s[i])
  BY <1>1, <1>2, <1>3 DEF KnownTrace
<1> HIDE DEF n
<1> DEFINE z == [i \in 0..n |-> t[i + 1]]
<1>5. t[1] = w
  <2>1. 1 \in 1..(n + 1) /\ 1 - 1 = 0
    BY <1>1
  <2> QED BY <2>1, <1>1, <1>4
<1>6. \A i \in 1..n : t[i + 1] = KnownStep(t[i], r[i])
  <2> TAKE i \in 1..n
  <2>1. i + 1 \in 1..(n + 1) /\ (i + 1) - 1 = i
    BY <1>1
  <2> QED BY <2>1, <1>1, <1>4
<1>7. u[0] = z[0] /\ \A i \in 1..n : u[i - 1] = z[i - 1] => u[i] = z[i]
  <2>1. u[0] = z[0]
    BY <1>1, <1>4, <1>5
  <2>2. ASSUME NEW i \in 1..n, u[i - 1] = z[i - 1] PROVE u[i] = z[i]
    <3>1. i \in 0..n /\ i - 1 \in 0..n /\ (i - 1) + 1 = i
      BY <1>1
    <3>2. z[i - 1] = t[i] /\ z[i] = t[i + 1]
      BY <3>1
    <3> QED BY <3>2, <2>2, <1>4, <1>6
  <2> QED BY <2>1, <2>2
<1> HIDE DEF z
<1>8. \A i \in 0..n : u[i] = z[i]
  <2>1. n \in Nat
    BY <1>1
  <2> QED BY ONLY <2>1, <1>7, SameSteps
<1>9. u[n] = t[n + 1]
  BY <1>1, <1>8 DEF z
<1> QED BY <1>2, <1>3, <1>9 DEF r

-----------------------------------------------------------------------------
(***************************************************************************)
(* A report and the batches of mutations that the funder sends.            *)
(***************************************************************************)
FriendReports == [enabled : BOOLEAN, online : BOOLEAN, cap : Cap \cup {0}]
IsReport(r) == r \in [DOMAIN r -> FriendReports]

\* The batches that fit the report r: what they speak of is there, or is new.
Batch(r, ms) ==
  \/ ms = <<>>
  \/ \E f : f \notin DOMAIN r /\ ms = <<AddFriendReport(f, 0)>>
  \/ \E f \in DOMAIN r : ms = <<RemoveFriendReport(f)>>
  \/ \E f \in DOMAIN r, b \in BOOLEAN : ms = <<SetField(f, "enabled", b)>>
  \/ \E f \in DOMAIN r, b \in BOOLEAN : ms = <<SetField(f, "online", b)>>
  \/ \E f \in DOMAIN r, cs \in Seq(Cap \cup {0}) : cs # <<>> /\ ms = ChannelReports(f, cs)
  \/ \E f \in DOMAIN r, cs \in Seq(Cap \cup {0}) :
       /\ cs # <<>> /\ ~r[f].online
       /\ ms = Append(ChannelReports(f, cs), SetField(f, "online", TRUE))

\* A report with another value for f.
Changed(q, r, f, v) ==
  DOMAIN q = DOMAIN r /\ q[f] = v /\ \A g \in DOMAIN r : g # f => q[g] = r[g]

\* Batches of no mutation, and of one.
LEMMA MutateShort ==
  ASSUME NEW r
  PROVE  /\ MutateAll(r, <<>>) = r
         /\ \A m : MutateAll(r, <<m>>) = MutateReport(r, m)
<1>1. MutateAll(r, <<>>) = r
  <2>1. Len(<<>>) = 0
    OBVIOUS
  <2>2. PICK t : MutateTrace(t, r, <<>>) /\ MutateAll(r, <<>>) = t[Len(<<>>)]
    BY <2>1, MutateSteps
  <2> QED BY <2>1, <2>2 DEF MutateTrace
<1>2. ASSUME NEW m PROVE MutateAll(r, <<m>>) = MutateReport(r, m)
  <2> DEFINE s == <<m>>
  <2>1. Len(s) = 1 /\ s[1] = m /\ 1 \in 1..1 /\ 1 - 1 = 0 /\ 1 \in Nat
    OBVIOUS
  <2> HIDE DEF s
  <2>2. PICK t : MutateTrace(t, r, s) /\ MutateAll(r, s) = t[1]
    BY <2>1, MutateSteps
  <2>3. t[0] = r /\ t[1] = MutateReport(t[0], s[1])
    BY <2>1, <2>2 DEF MutateTrace
  <2> QED BY <2>1, <2>2, <2>3 DEF s
<1> QED BY <1>1, <1>2

LEMMA ApplyShort ==
  ASSUME NEW k
  PROVE  /\ ApplyIndexMutations(k, <<>>) = k
         /\ \A m : ApplyIndexMutations(k, <<m>>) = ApplyIndexMutation(k, m)
<1>1. ApplyIndexMutations(k, <<>>) = k
  <2>1. Len(<<>>) = 0
    OBVIOUS
  <2>2. PICK t : ApplyTrace(t, k, <<>>) /\ ApplyIndexMutations(k, <<>>) = t[Len(<<>>)]
    BY <2>1, ApplySteps
  <2> QED BY <2>1, <2>2 DEF ApplyTrace
<1>2. ASSUME NEW m PROVE ApplyIndexMutations(k, <<m>>) = ApplyIndexMutation(k, m)
  <2> DEFINE s == <<m>>
  <2>1. Len(s) = 1 /\ s[1] = m /\ 1 \in 1..1 /\ 1 - 1 = 0 /\ 1 \in Nat
    OBVIOUS
  <2> HIDE DEF s
  <2>2. PICK t : ApplyTrace(t, k, s) /\ ApplyIndexMutations(k, s) = t[1]
    BY <2>1, ApplySteps
  <2>3. t[0] = k /\ t[1] = ApplyIndexMutation(t[0], s[1])
    BY <2>1, <2>2 DEF ApplyTrace
  <2> QED BY <2>1, <2>2, <2>3 DEF s
<1> QED BY <1>1, <1>2

\* A mutation becomes no mutation for the index client, or one.
LEMMA ConvertQueue ==
  ASSUME NEW r, NEW m
  PROVE  IsQueue(IndexMutation(r, m))
BY EmptyQueue, SingleQueue DEF IndexMutation

LEMMA ConvertShort ==
  ASSUME NEW r
  PROVE  /\ IndexMutations(r, <<>>) = <<>>
         /\ \A m : IndexMutations(r, <<m>>) = IndexMutation(r, m)
<1>0. \A m : IsQueue(IndexMutation(r, m)) /\ <<>> \o IndexMutation(r, m) = IndexMutation(r, m)
  BY ConvertQueue, ConcatNone
<1>1. IndexMutations(r, <<>>) = <<>>
  <2>1. Len(<<>>) = 0
    OBVIOUS
  <2>2. PICK t : ConvertTrace(t, r, <<>>) /\ IndexMutations(r, <<>>) = t[Len(<<>>)]
    BY <2>1, ConvertSteps
  <2> QED BY <2>1, <2>2 DEF ConvertTrace
<1>2. ASSUME NEW m PROVE IndexMutations(r, <<m>>) = IndexMutation(r, m)
  <2> DEFINE s == <<m>>
  <2>1. Len(s) = 1 /\ s[1] = m /\ 1 \in 1..1 /\ 1 - 1 = 0 /\ 1 \in Nat
    OBVIOUS
  <2> HIDE DEF s
  <2>2. PICK t : ConvertTrace(t, r, s) /\ IndexMutations(r, s) = t[1]
    BY <2>1, ConvertSteps
  <2>3. t[0] = <<>> /\ t[1] = t[0] \o IndexMutation(r, s[1])
    BY <2>1, <2>2 DEF ConvertTrace
  <2> QED BY <1>0, <2>1, <2>2, <2>3 DEF s
<1> QED BY <1>1, <1>2

\* A mutation after a batch.
LEMMA MutateAppend ==
  ASSUME NEW r, NEW s, NEW x, IsQueue(s)
  PROVE  MutateAll(r, Append(s, x)) = MutateReport(MutateAll(r, s), x)
<1> DEFINE a == Append(s, x)
           n == Len(s)
<1>1. n \in Nat /\ Len(a) = n + 1 /\ a[n + 1] = x /\ \A i \in 1..n : a[i] = s[i]
  BY QueueParts
<1>2. PICK t : MutateTrace(t, r, s) /\ MutateAll(r, s) = t[n]
  BY <1>1, MutateSteps
<1> HIDE DEF a
<1>3. PICK u : MutateTrace(u, r, a) /\ MutateAll(r, a) = u[n + 1]
  BY <1>1, MutateSteps
<1>4. /\ t[0] = r /\ u[0] = r
      /\ \A i \in 1..n : t[i] = MutateReport(t[i - 1], s[i])
      /\ \A i \in 1..(n + 1) : u[i] = MutateReport(u[i - 1], a[i])
  BY <1>1, <1>2, <1>3 DEF MutateTrace
<1> HIDE DEF n
<1>5. \A i \in 1..n : u[i - 1] = t[i - 1] => u[i] = t[i]
  BY <1>1, <1>4
<1>6. \A i \in 0..n : u[i] = t[i]
  <2>1. n \in Nat /\ u[0] = t[0]
    BY <1>1, <1>4
  <2> QED BY ONLY <2>1, <1>5, SameSteps
<1>7. n + 1 \in 1..(n + 1) /\ (n + 1) - 1 = n /\ n \in 0..n
  BY <1>1
<1>8. u[n + 1] = MutateReport(t[n], x)
  BY <1>1, <1>4, <1>6, <1>7
<1> QED BY <1>2, <1>3, <1>8 DEF a

LEMMA ApplyAppend ==
  ASSUME NEW k, NEW s, NEW x, IsQueue(s)
  PROVE  ApplyIndexMutations(k, Append(s, x)) = ApplyIndexMutation(ApplyIndexMutations(k, s), x)
<1> DEFINE a == Append(s, x)
           n == Len(s)
<1>1. n \in Nat /\ Len(a) = n + 1 /\ a[n + 1] = x /\ \A i \in 1..n : a[i] = s[i]
  BY QueueParts
<1>2. PICK t : ApplyTrace(t, k, s) /\ ApplyIndexMutations(k, s) = t[n]
  BY <1>1, ApplySteps
<1> HIDE DEF a
<1>3. PICK u : ApplyTrace(u, k, a) /\ ApplyIndexMutations(k, a) = u[n + 1]
  BY <1>1, ApplySteps
<1>4. /\ t[0] = k /\ u[0] = k
      /\ \A i \in 1..n : t[i] = ApplyIndexMutation(t[i - 1], s[i])
      /\ \A i \in 1..(n + 1) : u[i] = ApplyIndexMutation(u[i - 1], a[i])
  BY <1>1, <1>2, <1>3 DEF ApplyTrace
<1> HIDE DEF n
<1>5. \A i \in 1..n : u[i - 1] = t[i - 1] => u[i] = t[i]
  BY <1>1, <1>4
<1>6. \A i \in 0..n : u[i] = t[i]
  <2>1. n \in Nat /\ u[0] = t[0]
    BY <1>1, <1>4
  <2> QED BY ONLY <2>1, <1>5, SameSteps
<1>7. n + 1 \in 1..(n + 1) /\ (n + 1) - 1 = n /\ n \in 0..n
  BY <1>1
<1>8. u[n + 1] = ApplyIndexMutation(t[n], x)
  BY <1>1, <1>4, <1>6, <1>7
<1> QED BY <1>2, <1>3, <1>8 DEF a

\* What each of the mutations does to a report (FunderReport.mutate).
LEMMA AddMutates ==
  ASSUME NEW r, NEW f, IsReport(r)
  PROVE  LET q == MutateReport(r, AddFriendReport(f, 0))
         IN /\ IsReport(q) /\ DOMAIN q = DOMAIN r \cup {f}
            /\ q[f] = [enabled |-> FALSE, online |-> FALSE, cap |-> 0]
            /\ \A g \in DOMAIN r : g # f => q[g] = r[g]
<1> DEFINE v == [enabled |-> FALSE, online |-> FALSE, cap |-> 0]
           q == MutateReport(r, AddFriendReport(f, 0))
<1>1. q = Put(r, f, v)
  BY DEF MutateReport, AddFriendReport
<1>2. v \in FriendReports
  BY DEF FriendReports
<1> HIDE DEF v, q
<1>3. /\ DOMAIN q = DOMAIN r \cup {f} /\ q[f] = v
      /\ \A g \in DOMAIN r : g # f => q[g] = r[g]
      /\ q = [g \in DOMAIN r \cup {f} |-> IF g = f THEN v ELSE r[g]]
  BY <1>1 DEF Put
<1>4. IsReport(q)
  BY <1>2, <1>3 DEF IsReport
<1> QED BY <1>3, <1>4 DEF v, q

LEMMA RemoveMutates ==
  ASSUME NEW r, NEW f, IsReport(r)
  PROVE  LET q == MutateReport(r, RemoveFriendReport(f))
         IN /\ IsReport(q) /\ DOMAIN q = DOMAIN r \ {f}
            /\ \A g \in DOMAIN r : g # f => q[g] = r[g]
<1> DEFINE q == MutateReport(r, RemoveFriendReport(f))
<1>1. q = Drop(r, f)
  BY DEF MutateReport, RemoveFriendReport
<1> HIDE DEF q
<1>2. q = [g \in DOMAIN r \ {f} |-> r[g]]
  BY <1>1 DEF Drop
<1>3. IsReport(q)
  BY <1>2 DEF IsReport
<1> QED BY <1>2, <1>3 DEF q

\* A report with another record for a friend is a report.
LEMMA ChangedReport ==
  ASSUME NEW r, NEW f \in DOMAIN r, NEW v \in FriendReports, IsReport(r)
  PROVE  IsReport([r EXCEPT ![f] = v]) /\ Changed([r EXCEPT ![f] = v], r, f, v)
BY DEF IsReport, Changed

\* Another status, liveness or capacity of a friend.
Enabled(v, b) == [enabled |-> b, online |-> v.online, cap |-> v.cap]
Online(v, b) == [enabled |-> v.enabled, online |-> b, cap |-> v.cap]
Capacity(v, c) == [enabled |-> v.enabled, online |-> v.online, cap |-> c]

LEMMA FieldSet ==
  ASSUME NEW v \in FriendReports, NEW x
  PROVE  /\ [v EXCEPT !["enabled"] = x] = Enabled(v, x)
         /\ [v EXCEPT !["online"] = x] = Online(v, x)
         /\ [v EXCEPT !["cap"] = x] = Capacity(v, x)
         /\ x \in BOOLEAN => Enabled(v, x) \in FriendReports /\ Online(v, x) \in FriendReports
         /\ x \in Cap \cup {0} => Capacity(v, x) \in FriendReports
<1>1. PICK e \in BOOLEAN, o \in BOOLEAN, c \in Cap \cup {0} : v = [enabled |-> e, online |-> o, cap |-> c]
  BY DEF FriendReports
<1>2. v.enabled = e /\ v.online = o /\ v.cap = c
  BY <1>1
<1>3. [v EXCEPT !["enabled"] = x] = Enabled(v, x)
  BY <1>1, <1>2 DEF Enabled
<1>4. [v EXCEPT !["online"] = x] = Online(v, x)
  BY <1>1, <1>2 DEF Online
<1>5. [v EXCEPT !["cap"] = x] = Capacity(v, x)
  BY <1>1, <1>2 DEF Capacity
<1>6. x \in BOOLEAN => Enabled(v, x) \in FriendReports /\ Online(v, x) \in FriendReports
  BY <1>2 DEF FriendReports, Enabled, Online
<1>7. x \in Cap \cup {0} => Capacity(v, x) \in FriendReports
  BY <1>2 DEF FriendReports, Capacity
<1> QED BY <1>3, <1>4, <1>5, <1>6, <1>7

\* A mutation of a field of a friend that is there.
Sets(r, f, m, v) == IsReport(MutateReport(r, m)) /\ Changed(MutateReport(r, m), r, f, v)

LEMMA SetMutates ==
  ASSUME NEW r, NEW f \in DOMAIN r, IsReport(r)
  PROVE  /\ r[f] \in FriendReports
         /\ \A b \in BOOLEAN : /\ Sets(r, f, SetField(f, "enabled", b), Enabled(r[f], b))
                               /\ Sets(r, f, SetField(f, "online", b), Online(r[f], b))
         /\ \A c \in Cap \cup {0} : Sets(r, f, SetField(f, "cap", c), Capacity(r[f], c))
<1>0. r[f] \in FriendReports
  BY DEF IsReport
<1>1. ASSUME NEW field, NEW x
      PROVE  MutateReport(r, SetField(f, field, x)) = [r EXCEPT ![f] = [r[f] EXCEPT ![field] = x]]
  BY DEF MutateReport, SetField
<1>2. ASSUME NEW b \in BOOLEAN
      PROVE  /\ Sets(r, f, SetField(f, "enabled", b), Enabled(r[f], b))
             /\ Sets(r, f, SetField(f, "online", b), Online(r[f], b))
  <2>1. /\ MutateReport(r, SetField(f, "enabled", b)) = [r EXCEPT ![f] = Enabled(r[f], b)]
        /\ MutateReport(r, SetField(f, "online", b)) = [r EXCEPT ![f] = Online(r[f], b)]
    <3>1. [r[f] EXCEPT !["enabled"] = b] = Enabled(r[f], b)
      BY <1>0, FieldSet
    <3>2. [r[f] EXCEPT !["online"] = b] = Online(r[f], b)
      BY <1>0, FieldSet
    <3>3. MutateReport(r, SetField(f, "enabled", b)) = [r EXCEPT ![f] = [r[f] EXCEPT !["enabled"] = b]]
      BY <1>1, Zenon
    <3>4. MutateReport(r, SetField(f, "online", b)) = [r EXCEPT ![f] = [r[f] EXCEPT !["online"] = b]]
      BY <1>1, Zenon
    <3> QED BY ONLY <3>1, <3>2, <3>3, <3>4, Zenon
  <2>2. Enabled(r[f], b) \in FriendReports /\ Online(r[f], b) \in FriendReports
    BY <1>0, FieldSet
  <2> QED BY <2>1, <2>2, ChangedReport DEF Sets
<1>3. ASSUME NEW c \in Cap \cup {0}
      PROVE  Sets(r, f, SetField(f, "cap", c), Capacity(r[f], c))
  <2>1. /\ MutateReport(r, SetField(f, "cap", c)) = [r EXCEPT ![f] = Capacity(r[f], c)]
    <3>1. [r[f] EXCEPT !["cap"] = c] = Capacity(r[f], c)
      BY <1>0, FieldSet
    <3> QED BY <3>1, <1>1
  <2>2. Capacity(r[f], c) \in FriendReports
    BY <1>0, FieldSet
  <2> QED BY <2>1, <2>2, ChangedReport DEF Sets
<1> QED BY <1>0, <1>2, <1>3

\* The reports of a channel's changes.
LEMMA ChannelQueue ==
  ASSUME NEW f, NEW S, NEW cs \in Seq(S)
  PROVE  LET ms == ChannelReports(f, cs)
         IN /\ IsQueue(ms) /\ Len(ms) = Len(cs)
            /\ \A i \in 1..Len(cs) : ms[i] = SetField(f, "cap", cs[i])
<1> DEFINE ms == ChannelReports(f, cs)
           T == {SetField(f, "cap", c) : c \in S}
<1>1. DOMAIN cs = 1..Len(cs) /\ Len(cs) \in Nat /\ \A i \in 1..Len(cs) : cs[i] \in S
  OBVIOUS
<1>2. ms = [i \in 1..Len(cs) |-> SetField(f, "cap", cs[i])]
  BY <1>1 DEF ChannelReports
<1> HIDE DEF ms
<1>3. \A i \in 1..Len(cs) : SetField(f, "cap", cs[i]) \in T
  BY <1>1
<1>4. ms \in [1..Len(cs) -> T]
  BY <1>2, <1>3
<1> HIDE DEF T
<1>5. ms \in Seq(T) /\ Len(ms) = Len(cs)
  BY <1>1, <1>4
<1> QED BY <1>2, <1>5, QueueOfSeq DEF ms

\* A channel that changes several times has its last capacity in the end.
LEMMA ChannelMutates ==
  ASSUME NEW r, NEW f \in DOMAIN r, NEW cs \in Seq(Cap \cup {0}), cs # <<>>, IsReport(r)
  PROVE  LET q == MutateAll(r, ChannelReports(f, cs))
         IN IsReport(q) /\ Changed(q, r, f, Capacity(r[f], Last(cs)))
<1> DEFINE ms == ChannelReports(f, cs)
           n == Len(cs)
           W(i) == IF i = 0 THEN r[f] ELSE Capacity(r[f], cs[i])
<1>1. n \in Nat /\ n > 0 /\ Last(cs) = cs[n] /\ \A i \in 1..n : cs[i] \in Cap \cup {0}
  BY DEF Last
<1>2. Len(ms) = n /\ \A i \in 1..n : ms[i] = SetField(f, "cap", cs[i])
  BY ChannelQueue
<1> HIDE DEF ms
<1>3. PICK t : MutateTrace(t, r, ms) /\ MutateAll(r, ms) = t[n]
  BY <1>1, <1>2, MutateSteps
<1>4. t[0] = r /\ \A i \in 1..n : t[i] = MutateReport(t[i - 1], SetField(f, "cap", cs[i]))
  BY <1>1, <1>2, <1>3 DEF MutateTrace
<1> HIDE DEF n
<1> DEFINE T == {i \in 0..n : IsReport(t[i]) /\ Changed(t[i], r, f, W(i))}
<1>5. 0 \in T
  BY <1>1, <1>4 DEF Changed
<1>6. ASSUME NEW k \in 0..(n - 1), k \in T PROVE k + 1 \in T
  <2>1. k + 1 \in 1..n /\ (k + 1) - 1 = k /\ k + 1 \in 0..n /\ k + 1 # 0 /\ cs[k + 1] \in Cap \cup {0}
    BY <1>1
  <2>2. t[k + 1] = MutateReport(t[k], SetField(f, "cap", cs[k + 1]))
    BY <1>4, <2>1
  <2>3. IsReport(t[k]) /\ Changed(t[k], r, f, W(k))
    BY <1>6
  <2> DEFINE q == t[k]
             q2 == t[k + 1]
             c == cs[k + 1]
  <2> HIDE DEF q, q2, c, W
  <2>4. IsReport(q) /\ f \in DOMAIN q /\ DOMAIN q = DOMAIN r /\ q[f] = W(k)
        /\ \A g \in DOMAIN r : g # f => q[g] = r[g]
    BY <2>3 DEF q, Changed
  <2>5. Sets(q, f, SetField(f, "cap", c), Capacity(q[f], c))
    <3>1. c \in Cap \cup {0}
      BY <2>1 DEF c
    <3> QED BY <2>4, <3>1, SetMutates
  <2>6. q2 = MutateReport(q, SetField(f, "cap", c))
    BY <2>2 DEF q, q2, c
  <2>7. Capacity(q[f], c) = W(k + 1)
    <3>1. q[f].enabled = r[f].enabled /\ q[f].online = r[f].online
      BY <2>4 DEF W, Capacity
    <3> QED BY <3>1, <2>1 DEF W, Capacity, c
  <2>8. IsReport(q2) /\ Changed(q2, r, f, W(k + 1))
    BY <2>4, <2>5, <2>6, <2>7 DEF Sets, Changed
  <2> QED BY <2>1, <2>8 DEF q2
<1> HIDE DEF T
<1>7. \A k \in 0..n : k \in T
  BY <1>1, <1>5, <1>6, Induction
<1>8. n \in T /\ n # 0
  BY <1>1, <1>7
<1> QED BY <1>1, <1>3, <1>8 DEF T, ms

\* And with a friend that comes online.
LEMMA OnlineMutates ==
  ASSUME NEW r, NEW f \in DOMAIN r, NEW cs \in Seq(Cap \cup {0}), cs # <<>>, IsReport(r)
  PROVE  LET q == MutateAll(r, Append(ChannelReports(f, cs), SetField(f, "online", TRUE)))
         IN IsReport(q) /\ Changed(q, r, f, Online(Capacity(r[f], Last(cs)), TRUE))
<1> DEFINE ms == ChannelReports(f, cs)
           n == SetField(f, "online", TRUE)
           q1 == MutateAll(r, ms)
           q == MutateAll(r, Append(ms, n))
<1>1. IsReport(q1) /\ Changed(q1, r, f, Capacity(r[f], Last(cs)))
  BY ChannelMutates
<1>2. IsQueue(ms)
  BY ChannelQueue
<1> HIDE DEF ms
<1>3. q = MutateReport(q1, n)
  BY <1>2, MutateAppend
<1> HIDE DEF q1, q
<1>4. f \in DOMAIN q1 /\ TRUE \in BOOLEAN
  BY <1>1 DEF Changed
<1>5. Sets(q1, f, n, Online(q1[f], TRUE))
  BY <1>1, <1>4, SetMutates
<1> HIDE DEF n
<1>6. IsReport(q) /\ Changed(q, r, f, Online(Capacity(r[f], Last(cs)), TRUE))
  BY <1>1, <1>3, <1>5 DEF Sets, Changed
<1> QED BY <1>6 DEF q, ms, n

\* A batch that fits a report leaves a report.
LEMMA BatchReport ==
  ASSUME NEW r, NEW ms, IsReport(r), Batch(r, ms)
  PROVE  IsReport(MutateAll(r, ms))
<1>1. CASE ms = <<>>
  BY <1>1, MutateShort
<1>2. CASE \E f : f \notin DOMAIN r /\ ms = <<AddFriendReport(f, 0)>>
  <2>1. PICK f : ms = <<AddFriendReport(f, 0)>>
    BY <1>2
  <2>2. MutateAll(r, ms) = MutateReport(r, AddFriendReport(f, 0))
    BY <2>1, MutateShort
  <2> QED BY <2>2, AddMutates
<1>3. CASE \E f \in DOMAIN r : ms = <<RemoveFriendReport(f)>>
  <2>1. PICK f : ms = <<RemoveFriendReport(f)>>
    BY <1>3
  <2>2. MutateAll(r, ms) = MutateReport(r, RemoveFriendReport(f))
    BY <2>1, MutateShort
  <2> QED BY <2>2, RemoveMutates
<1>4. CASE \E f \in DOMAIN r, b \in BOOLEAN : ms = <<SetField(f, "enabled", b)>>
  <2>1. PICK f \in DOMAIN r, b \in BOOLEAN : ms = <<SetField(f, "enabled", b)>>
    BY <1>4
  <2>2. MutateAll(r, ms) = MutateReport(r, SetField(f, "enabled", b))
    BY <2>1, MutateShort
  <2> QED BY <2>2, SetMutates DEF Sets
<1>5. CASE \E f \in DOMAIN r, b \in BOOLEAN : ms = <<SetField(f, "online", b)>>
  <2>1. PICK f \in DOMAIN r, b \in BOOLEAN : ms = <<SetField(f, "online", b)>>
    BY <1>5
  <2>2. MutateAll(r, ms) = MutateReport(r, SetField(f, "online", b))
    BY <2>1, MutateShort
  <2> QED BY <2>2, SetMutates DEF Sets
<1>6. CASE \E f \in DOMAIN r, cs \in Seq(Cap \cup {0}) : cs # <<>> /\ ms = ChannelReports(f, cs)
  BY <1>6, ChannelMutates
<1>7. CASE \E f \in DOMAIN r, cs \in Seq(Cap \cup {0}) :
             cs # <<>> /\ ms = Append(ChannelReports(f, cs), SetField(f, "online", TRUE))
  BY <1>7, OnlineMutates
<1> QED BY <1>1, <1>2, <1>3, <1>4, <1>5, <1>6, <1>7 DEF Batch

\* The capacities k are those of the report r, but for the friends in d.
Tells(k, r, d) ==
  /\ DOMAIN k \subseteq DOMAIN r
  /\ \A f \in DOMAIN r \ d : CalcFriendCapacities(r[f]) = IF f \in DOMAIN k THEN k[f] ELSE 0

\* The friends that mutations for the index client are about.
Told(ims) == {ims[i].friend : i \in DOMAIN ims}

LEMMA ToldShort ==
  /\ Told(<<>>) = {}
  /\ \A im : Told(<<im>>) = {im.friend}
<1>1. Told(<<>>) = {}
  BY DEF Told
<1>2. ASSUME NEW im PROVE Told(<<im>>) = {im.friend}
  <2>1. DOMAIN <<im>> = {1} /\ <<im>>[1] = im
    OBVIOUS
  <2> QED BY <2>1 DEF Told
<1> QED BY <1>1, <1>2

LEMMA ToldAppend ==
  ASSUME NEW s, NEW im, IsQueue(s)
  PROVE  Told(Append(s, im)) = Told(s) \cup {im.friend}
<1> DEFINE a == Append(s, im)
<1>1. /\ Len(s) \in Nat /\ Len(a) = Len(s) + 1 /\ a[Len(s) + 1] = im
      /\ \A i \in 1..Len(s) : a[i] = s[i]
  BY QueueParts
<1>2. DOMAIN s = 1..Len(s) /\ DOMAIN a = 1..Len(a)
  BY AppendQueue DEF IsQueue
<1> HIDE DEF a
<1>3. DOMAIN a = DOMAIN s \cup {Len(s) + 1}
  BY <1>1, <1>2
<1>4. \A i \in DOMAIN s : a[i] = s[i]
  BY <1>1, <1>2
<1>5. Told(a) = Told(s) \cup {im.friend}
  BY <1>1, <1>3, <1>4 DEF Told
<1> QED BY <1>5 DEF a

\* A mutation that adds or changes a friend is converted for the index client.
LEMMA SetTells ==
  ASSUME NEW k, NEW r, NEW d, NEW m, NEW f, NEW q, Tells(k, r, d),
         m.op # "remove", m.friend = f, q = MutateReport(r, m),
         DOMAIN q = DOMAIN r \cup {f}, \A g \in DOMAIN r : g # f => q[g] = r[g]
  PROVE  LET ims == IndexMutation(r, m) IN Tells(ApplyIndexMutations(k, ims), q, d \ Told(ims))
<1> DEFINE cap == CalcFriendCapacities(q[f])
           im == [friend |-> f, remove |-> FALSE, cap |-> cap]
<1>1. CASE f \in DOMAIN r /\ CalcFriendCapacities(r[f]) = cap
  <2>1. IndexMutation(r, m) = <<>>
    BY <1>1 DEF IndexMutation
  <2>2. ApplyIndexMutations(k, IndexMutation(r, m)) = k /\ Told(IndexMutation(r, m)) = {}
    BY <2>1, ApplyShort, ToldShort
  <2> HIDE DEF cap
  <2>3. DOMAIN q = DOMAIN r /\ \A g \in DOMAIN r : CalcFriendCapacities(q[g]) = CalcFriendCapacities(r[g])
    BY <1>1 DEF cap
  <2>4. Tells(k, q, d \ {})
    BY <2>3 DEF Tells
  <2> QED BY <2>2, <2>4
<1>2. CASE ~(f \in DOMAIN r /\ CalcFriendCapacities(r[f]) = cap)
  <2>1. IndexMutation(r, m) = <<im>>
    BY <1>2 DEF IndexMutation
  <2>0. im.friend = f
    OBVIOUS
  <2>2. ApplyIndexMutations(k, IndexMutation(r, m)) = ApplyIndexMutation(k, im)
        /\ Told(IndexMutation(r, m)) = {f}
    <3> HIDE DEF im
    <3>1. ApplyIndexMutations(k, <<im>>) = ApplyIndexMutation(k, im)
      BY ONLY ApplyShort
    <3>2. Told(<<im>>) = {im.friend}
      BY ONLY ToldShort
    <3> QED BY ONLY <2>0, <2>1, <3>1, <3>2
  <2>3. ApplyIndexMutation(k, im) = Put(k, f, cap)
    BY DEF ApplyIndexMutation
  <2> DEFINE k2 == Put(k, f, cap)
  <2> HIDE DEF cap
  <2>4. DOMAIN k2 = DOMAIN k \cup {f} /\ k2[f] = cap /\ \A g \in DOMAIN k : g # f => k2[g] = k[g]
    BY DEF Put
  <2> HIDE DEF k2
  <2>5. Tells(k2, q, d \ {f})
    BY <2>4 DEF Tells, cap
  <2> QED BY <2>2, <2>3, <2>5 DEF k2
<1> QED BY <1>1, <1>2

\* What converted mutations of the friend f do to the capacities of others.
Others(k2, k, f) ==
  DOMAIN k2 \subseteq DOMAIN k \cup {f}
  /\ \A g : g # f => (g \in DOMAIN k <=> g \in DOMAIN k2) /\ (g \in DOMAIN k => k2[g] = k[g])

\* The capacity of f that its mutation m shows in a report r.
Shown(r, m, f) == CalcFriendCapacities(MutateReport(r, m)[f])

\* The conversion of mutations of the friend f, none of which removes it: what is
\* left with the index client is the last capacity that is not the one before the
\* batch (each is compared with the report before the batch).
Converted(k, r, ms, f, n, ims) ==
  LET k2 == ApplyIndexMutations(k, ims)
      c0 == CalcFriendCapacities(r[f])
  IN /\ IsQueue(ims) /\ Others(k2, k, f)
     /\ \/ /\ ims = <<>>
           /\ \A i \in 1..n : Shown(r, ms[i], f) = c0
        \/ /\ ims # <<>> /\ Told(ims) = {f} /\ f \in DOMAIN k2
           /\ \E j \in 1..n : /\ k2[f] = Shown(r, ms[j], f) /\ Shown(r, ms[j], f) # c0
                              /\ \A i \in (j + 1)..n : Shown(r, ms[i], f) = c0

LEMMA SetsConvert ==
  ASSUME NEW k, NEW r, NEW ms, NEW f \in DOMAIN r, IsQueue(ms),
         \A i \in 1..Len(ms) : ms[i].op # "remove" /\ ms[i].friend = f
  PROVE  Converted(k, r, ms, f, Len(ms), IndexMutations(r, ms))
<1> DEFINE n == Len(ms)
           c0 == CalcFriendCapacities(r[f])
<1>1. n \in Nat
  BY QueueParts
<1>2. PICK t : ConvertTrace(t, r, ms) /\ IndexMutations(r, ms) = t[n]
  BY <1>1, ConvertSteps
<1>3. t[0] = <<>> /\ \A i \in 1..n : t[i] = t[i - 1] \o IndexMutation(r, ms[i])
  BY <1>2 DEF ConvertTrace
<1>4. \A i \in 1..n : ms[i].op # "remove" /\ ms[i].friend = f
  OBVIOUS
<1> HIDE DEF n
<1> DEFINE T == {i \in 0..n : Converted(k, r, ms, f, i, t[i])}
<1>5. 0 \in T
  <2>1. Others(k, k, f)
    BY DEF Others
  <2>2. ApplyIndexMutations(k, <<>>) = k
    BY ApplyShort
  <2>3. Converted(k, r, ms, f, 0, <<>>)
    BY <2>1, <2>2, EmptyQueue DEF Converted
  <2> QED BY <1>1, <1>3, <2>3
<1>6. ASSUME NEW i \in 0..(n - 1), i \in T PROVE i + 1 \in T
  <2>1. i + 1 \in 1..n /\ (i + 1) - 1 = i /\ i + 1 \in 0..n /\ i \in Nat
    BY <1>1
  <2> DEFINE m == ms[i + 1]
             c == Shown(r, m, f)
             im == [friend |-> f, remove |-> FALSE, cap |-> c]
             s == t[i]
             k1 == ApplyIndexMutations(k, s)
  <2>2. t[i + 1] = s \o IndexMutation(r, m)
    BY <1>3, <2>1
  <2>3. Converted(k, r, ms, f, i, s)
    BY <1>6
  <2>4. m.op # "remove" /\ m.friend = f
    BY <1>4, <2>1
  <2>5. IndexMutation(r, m) = IF c0 = c THEN <<>> ELSE <<im>>
    <3> HIDE DEF m
    <3> QED BY <2>4 DEF IndexMutation, Shown
  <2>6. IsQueue(s) /\ Others(k1, k, f)
    BY <2>3 DEF Converted
  <2>7. CASE c0 = c
    <3>1. t[i + 1] = s
      BY <2>2, <2>5, <2>6, <2>7, ConcatNone
    <3>2. Converted(k, r, ms, f, i + 1, s)
      <4>1. CASE s = <<>> /\ \A j \in 1..i : Shown(r, ms[j], f) = c0
        <5>1. \A j \in 1..(i + 1) : Shown(r, ms[j], f) = c0
          <6> TAKE j \in 1..(i + 1)
          <6>1. j \in 1..i \/ j = i + 1
            BY <2>1
          <6> QED BY <6>1, <4>1, <2>7
        <5> QED BY <2>3, <4>1, <5>1 DEF Converted
      <4>2. CASE /\ s # <<>> /\ Told(s) = {f} /\ f \in DOMAIN k1
                 /\ \E j \in 1..i : /\ k1[f] = Shown(r, ms[j], f) /\ Shown(r, ms[j], f) # c0
                                    /\ \A l \in (j + 1)..i : Shown(r, ms[l], f) = c0
        <5>1. PICK j \in 1..i : /\ k1[f] = Shown(r, ms[j], f) /\ Shown(r, ms[j], f) # c0
                                /\ \A l \in (j + 1)..i : Shown(r, ms[l], f) = c0
          BY <4>2
        <5>2. j \in 1..(i + 1) /\ \A l \in (j + 1)..(i + 1) : l \in (j + 1)..i \/ l = i + 1
          BY <2>1
        <5>3. \A l \in (j + 1)..(i + 1) : Shown(r, ms[l], f) = c0
          BY <5>1, <5>2, <2>7
        <5> HIDE DEF c0
        <5>4. \E jj \in 1..(i + 1) : /\ k1[f] = Shown(r, ms[jj], f) /\ Shown(r, ms[jj], f) # c0
                                     /\ \A l \in (jj + 1)..(i + 1) : Shown(r, ms[l], f) = c0
          BY <5>1, <5>2, <5>3
        <5> QED BY <4>2, <5>4, <2>6 DEF Converted, c0
      <4> QED BY <2>3, <4>1, <4>2 DEF Converted
    <3> QED BY <2>1, <3>1, <3>2
  <2>8. CASE c0 # c
    <3> DEFINE k2 == ApplyIndexMutations(k, Append(s, im))
    <3>0. im.friend = f /\ ~im.remove /\ im.cap = c
      OBVIOUS
    <3>a. IndexMutation(r, m) = <<im>>
      BY <2>5, <2>8
    <3> HIDE DEF im
    <3>1. t[i + 1] = Append(s, im)
      BY <2>2, <3>a, <2>6, ConcatOne
    <3>2. k2 = Put(k1, f, c)
      <4>1. k2 = ApplyIndexMutation(k1, im)
        BY <2>6, ApplyAppend
      <4> QED BY <4>1, <3>0 DEF ApplyIndexMutation
    <3>3. IsQueue(Append(s, im)) /\ Append(s, im) # <<>>
      <4>1. Len(Append(s, im)) = Len(s) + 1 /\ Len(s) \in Nat
        BY <2>6, QueueParts
      <4>2. IsQueue(Append(s, im))
        BY <2>6, AppendQueue
      <4> QED BY <4>1, <4>2
    <3> HIDE DEF k1, k2, c0
    <3>4. f \in DOMAIN k2 /\ k2[f] = c /\ Others(k2, k1, f)
      BY <3>2 DEF Put, Others
    <3>5. Others(k2, k, f)
      BY <3>4, <2>6 DEF Others
    <3>6. Told(Append(s, im)) = {f}
      <4>1. Told(Append(s, im)) = Told(s) \cup {f}
        BY <2>6, <3>0, ToldAppend
      <4>2. Told(s) \subseteq {f}
        BY <2>3, ToldShort DEF Converted
      <4> QED BY <4>1, <4>2
    <3>7. \E j \in 1..(i + 1) : /\ k2[f] = Shown(r, ms[j], f) /\ Shown(r, ms[j], f) # c0
                                /\ \A l \in (j + 1)..(i + 1) : Shown(r, ms[l], f) = c0
      <4>1. \A l \in ((i + 1) + 1)..(i + 1) : FALSE
        BY <2>1
      <4>2. i + 1 \in 1..(i + 1)
        BY <2>1
      <4> QED BY <4>1, <4>2, <3>4, <2>8
    <3>8. Converted(k, r, ms, f, i + 1, Append(s, im))
      BY <3>3, <3>4, <3>5, <3>6, <3>7 DEF Converted, k2, c0
    <3> QED BY <2>1, <3>1, <3>8
  <2> QED BY <2>7, <2>8
<1> HIDE DEF T
<1>7. \A i \in 0..n : i \in T
  BY <1>1, <1>5, <1>6, Induction
<1>8. n \in T
  BY <1>1, <1>7
<1> QED BY <1>2, <1>8 DEF T, n

\* A capacity that a mutation of the channel, or of the liveness, shows.
LEMMA ShownCap ==
  ASSUME NEW r, NEW f \in DOMAIN r, IsReport(r)
  PROVE  /\ \A c \in Cap \cup {0} :
              Shown(r, SetField(f, "cap", c), f) = IF r[f].enabled /\ r[f].online THEN c ELSE 0
         /\ Shown(r, SetField(f, "online", TRUE), f) = IF r[f].enabled THEN r[f].cap ELSE 0
<1>1. ASSUME NEW c \in Cap \cup {0}
      PROVE  Shown(r, SetField(f, "cap", c), f) = IF r[f].enabled /\ r[f].online THEN c ELSE 0
  <2>1. MutateReport(r, SetField(f, "cap", c))[f] = Capacity(r[f], c)
    BY SetMutates DEF Sets, Changed
  <2> QED BY <2>1 DEF Shown, CalcFriendCapacities, Capacity
<1>2. Shown(r, SetField(f, "online", TRUE), f) = IF r[f].enabled THEN r[f].cap ELSE 0
  <2>1. MutateReport(r, SetField(f, "online", TRUE))[f] = Online(r[f], TRUE)
    <3>1. TRUE \in BOOLEAN
      OBVIOUS
    <3> QED BY <3>1, SetMutates DEF Sets, Changed
  <2>2. /\ Online(r[f], TRUE).enabled = r[f].enabled /\ Online(r[f], TRUE).online = TRUE
        /\ Online(r[f], TRUE).cap = r[f].cap
    BY DEF Online
  <2> QED BY <2>1, <2>2 DEF Shown, CalcFriendCapacities
<1> QED BY <1>1, <1>2

\* Reports of the channel of f alone: f is misled when its capacity is as before
\* and was another one in between.
LEMMA ChannelTells ==
  ASSUME NEW k, NEW r, NEW d, NEW f \in DOMAIN r, NEW cs \in Seq(Cap \cup {0}), cs # <<>>,
         IsReport(r), Tells(k, r, d)
  PROVE  LET ms == ChannelReports(f, cs)
             ims == IndexMutations(r, ms)
         IN Tells(ApplyIndexMutations(k, ims), MutateAll(r, ms), Misleads(r, ms) \cup (d \ Told(ims)))
<1> DEFINE ms == ChannelReports(f, cs)
           ims == IndexMutations(r, ms)
           k2 == ApplyIndexMutations(k, ims)
           q == MutateAll(r, ms)
           n == Len(cs)
           on == r[f].enabled /\ r[f].online
           c0 == CalcFriendCapacities(r[f])
           d2 == Misleads(r, ms) \cup (d \ Told(ims))
<1>1. n \in Nat /\ n > 0 /\ n \in 1..n /\ Last(cs) = cs[n] /\ \A i \in 1..n : cs[i] \in Cap \cup {0}
  BY DEF Last
<1>2. IsQueue(ms) /\ Len(ms) = n /\ \A i \in 1..n : ms[i] = SetField(f, "cap", cs[i])
  BY ChannelQueue
<1>3. DOMAIN q = DOMAIN r /\ q[f] = Capacity(r[f], cs[n]) /\ \A g \in DOMAIN r : g # f => q[g] = r[g]
  BY <1>1, ChannelMutates DEF Changed
<1> HIDE DEF ms
<1>4. \A i \in 1..n : /\ ms[i].op = "set" /\ ms[i].op # "remove" /\ ms[i].friend = f
                      /\ ms[i].field = "cap" /\ ms[i].field # "online" /\ ms[i].value = cs[i]
  <2> TAKE i \in 1..n
  <2>1. ms[i] = [op |-> "set", friend |-> f, field |-> "cap", value |-> cs[i]]
    BY <1>2 DEF SetField
  <2> QED BY <2>1
<1>5. \A i \in 1..n : Shown(r, ms[i], f) = IF on THEN cs[i] ELSE 0
  <2> TAKE i \in 1..n
  <2>1. ms[i] = SetField(f, "cap", cs[i]) /\ cs[i] \in Cap \cup {0}
    BY <1>1, <1>2
  <2> QED BY <2>1, ShownCap
<1>6. c0 = (IF on THEN r[f].cap ELSE 0) /\ CalcFriendCapacities(q[f]) = (IF on THEN cs[n] ELSE 0)
  BY <1>3 DEF CalcFriendCapacities, Capacity
<1>7. Converted(k, r, ms, f, n, ims)
  BY <1>2, <1>4, SetsConvert
<1>8. DOMAIN ms = 1..n
  BY <1>2 DEF IsQueue
<1>9. ASSUME on, cs[n] = r[f].cap, NEW j \in 1..n, cs[j] # r[f].cap PROVE f \in Misleads(r, ms)
  <2>1. q[f].cap = cs[n]
    BY <1>3 DEF Capacity
  <2>2. f \in DOMAIN r \cap DOMAIN MutateAll(r, ms)
    BY <1>3
  <2>3. {i \in DOMAIN ms : ms[i].op = "set" /\ ms[i].friend = f /\ ms[i].field = "online"} = {}
    BY <1>4, <1>8
  <2>4. j \in {i \in DOMAIN ms : ms[i].op = "set" /\ ms[i].friend = f /\ ms[i].field = "cap"}
    BY <1>4, <1>8
  <2>5. ms[j].value # r[f].cap
    BY <1>4, <1>9
  <2>6. MutateAll(r, ms)[f].cap = r[f].cap
    BY <2>1, <1>9
  <2> HIDE DEF q, ims, k2
  <2> QED BY <2>2, <2>3, <2>4, <2>5, <2>6, <1>9 DEF Misleads
<1>10. /\ DOMAIN k2 \subseteq DOMAIN r /\ Others(k2, k, f)
       /\ f \notin d => c0 = IF f \in DOMAIN k THEN k[f] ELSE 0
  BY <1>7 DEF Converted, Others, Tells
<1>11. f \notin d2 => CalcFriendCapacities(q[f]) = IF f \in DOMAIN k2 THEN k2[f] ELSE 0
  <2>1. CASE ims = <<>> /\ \A i \in 1..n : Shown(r, ms[i], f) = c0
    <3>1. k2 = k /\ Told(ims) = {}
      BY <2>1, ApplyShort, ToldShort
    <3>2. CalcFriendCapacities(q[f]) = c0
      BY <2>1, <1>1, <1>5, <1>6
    <3> HIDE DEF k2, c0, q, ims
    <3> QED BY <3>1, <3>2, <1>10
  <2>2. CASE /\ f \in DOMAIN k2
             /\ \E j \in 1..n : /\ k2[f] = Shown(r, ms[j], f) /\ Shown(r, ms[j], f) # c0
                                /\ \A i \in (j + 1)..n : Shown(r, ms[i], f) = c0
    <3>1. PICK j \in 1..n : /\ k2[f] = Shown(r, ms[j], f) /\ Shown(r, ms[j], f) # c0
                            /\ \A i \in (j + 1)..n : Shown(r, ms[i], f) = c0
      BY <2>2
    <3> HIDE DEF k2, c0, q, ims
    <3>2. CASE j = n
      BY <3>1, <3>2, <2>2, <1>1, <1>5, <1>6
    <3>3. CASE j # n
      <4>1. n \in (j + 1)..n
        BY <3>3, <1>1
      <4>2. Shown(r, ms[n], f) = c0
        BY <3>1, <4>1
      <4> HIDE DEF on
      <4>3. Shown(r, ms[n], f) = (IF on THEN cs[n] ELSE 0) /\ Shown(r, ms[j], f) = (IF on THEN cs[j] ELSE 0)
        BY <1>1, <1>5
      <4>4. on /\ cs[n] = r[f].cap /\ cs[j] # r[f].cap
        BY <4>2, <4>3, <3>1, <1>6
      <4>5. f \in Misleads(r, ms)
        BY <4>4, <1>9
      <4> QED BY <4>5
    <3> QED BY <3>2, <3>3
  <2> QED BY <2>1, <2>2, <1>7 DEF Converted
<1>12. ASSUME NEW g \in DOMAIN r \ d2, g # f
       PROVE  CalcFriendCapacities(q[g]) = IF g \in DOMAIN k2 THEN k2[g] ELSE 0
  <2>1. Told(ims) \subseteq {f}
    BY <1>7, ToldShort DEF Converted
  <2>2. g \notin d
    BY <2>1, <1>12
  <2> HIDE DEF k2, q, ims, d2
  <2> QED BY <2>2, <1>3, <1>10, <1>12 DEF Others, Tells
<1> HIDE DEF k2, q, ims, d2
<1>13. Tells(k2, q, d2)
  BY <1>3, <1>10, <1>11, <1>12 DEF Tells
<1> QED BY <1>13 DEF k2, q, ims, d2, ms

\* Reports of the channel of f, which then comes online: f is misled when its
\* capacity is another one than before.
LEMMA OnlineTells ==
  ASSUME NEW k, NEW r, NEW d, NEW f \in DOMAIN r, NEW cs \in Seq(Cap \cup {0}), cs # <<>>,
         ~r[f].online, IsReport(r), Tells(k, r, d)
  PROVE  LET ms == Append(ChannelReports(f, cs), SetField(f, "online", TRUE))
             ims == IndexMutations(r, ms)
         IN Tells(ApplyIndexMutations(k, ims), MutateAll(r, ms), Misleads(r, ms) \cup (d \ Told(ims)))
<1> DEFINE ch == ChannelReports(f, cs)
           x == SetField(f, "online", TRUE)
           ms == Append(ch, x)
           ims == IndexMutations(r, ms)
           k2 == ApplyIndexMutations(k, ims)
           q == MutateAll(r, ms)
           n == Len(cs)
           N == n + 1
           c0 == CalcFriendCapacities(r[f])
           d2 == Misleads(r, ms) \cup (d \ Told(ims))
<1>1. n \in Nat /\ n > 0 /\ n \in 1..n /\ Last(cs) = cs[n] /\ \A i \in 1..n : cs[i] \in Cap \cup {0}
  BY DEF Last
<1>a. IsQueue(ch) /\ Len(ch) = n /\ \A i \in 1..n : ch[i] = SetField(f, "cap", cs[i])
  BY ChannelQueue
<1>3. /\ DOMAIN q = DOMAIN r /\ q[f] = Online(Capacity(r[f], cs[n]), TRUE)
      /\ \A g \in DOMAIN r : g # f => q[g] = r[g]
  <2>1. Changed(q, r, f, Online(Capacity(r[f], Last(cs)), TRUE))
    BY OnlineMutates
  <2> HIDE DEF q
  <2> QED BY <1>1, <2>1 DEF Changed
<1> HIDE DEF ch, x
<1>2. /\ IsQueue(ms) /\ Len(ms) = N /\ ms[N] = SetField(f, "online", TRUE)
      /\ \A i \in 1..n : ms[i] = SetField(f, "cap", cs[i])
  <2>1. IsQueue(ms)
    BY <1>a, AppendQueue
  <2>2. Len(ms) = N /\ ms[N] = x /\ \A i \in 1..n : ms[i] = ch[i]
    BY <1>a, QueueParts
  <2> HIDE DEF ms
  <2> QED BY <1>a, <2>1, <2>2 DEF x
<1> HIDE DEF ms
<1>4. \A i \in 1..N : ms[i].op = "set" /\ ms[i].op # "remove" /\ ms[i].friend = f
  <2> TAKE i \in 1..N
  <2>1. i \in 1..n \/ i = N
    BY <1>1
  <2>2. PICK y, z : ms[i] = [op |-> "set", friend |-> f, field |-> y, value |-> z]
    BY <2>1, <1>2 DEF SetField
  <2> QED BY <2>2
<1>5. (\A i \in 1..n : Shown(r, ms[i], f) = 0) /\ Shown(r, ms[N], f) = IF r[f].enabled THEN r[f].cap ELSE 0
  <2>1. ASSUME NEW i \in 1..n PROVE Shown(r, ms[i], f) = 0
    <3>1. ms[i] = SetField(f, "cap", cs[i]) /\ cs[i] \in Cap \cup {0}
      BY <1>1, <1>2
    <3>2. Shown(r, ms[i], f) = IF r[f].enabled /\ r[f].online THEN cs[i] ELSE 0
      BY <3>1, ShownCap
    <3> QED BY <3>2
  <2>2. Shown(r, ms[N], f) = IF r[f].enabled THEN r[f].cap ELSE 0
    BY <1>2, ShownCap
  <2> QED BY <2>1, <2>2
<1>6. c0 = 0 /\ CalcFriendCapacities(q[f]) = (IF r[f].enabled THEN cs[n] ELSE 0) /\ q[f].cap = cs[n]
  BY <1>3 DEF CalcFriendCapacities, Capacity, Online
<1>7. Converted(k, r, ms, f, N, ims)
  BY <1>2, <1>4, SetsConvert
<1>8. DOMAIN ms = 1..N /\ N \in 1..N
  BY <1>1, <1>2 DEF IsQueue
<1>9. ASSUME cs[n] # r[f].cap PROVE f \in Misleads(r, ms)
  <2>2. f \in DOMAIN r \cap DOMAIN MutateAll(r, ms)
    BY <1>3
  <2>3. N \in {i \in DOMAIN ms : ms[i].op = "set" /\ ms[i].friend = f /\ ms[i].field = "online"}
    BY <1>2, <1>4, <1>8 DEF SetField
  <2>6. MutateAll(r, ms)[f].cap # r[f].cap
    BY <1>6, <1>9
  <2> HIDE DEF q, ims, k2
  <2> QED BY <2>2, <2>3, <2>6 DEF Misleads
<1>10. /\ DOMAIN k2 \subseteq DOMAIN r /\ Others(k2, k, f)
       /\ f \notin d => c0 = IF f \in DOMAIN k THEN k[f] ELSE 0
  BY <1>7 DEF Converted, Others, Tells
<1>11. f \notin d2 => CalcFriendCapacities(q[f]) = IF f \in DOMAIN k2 THEN k2[f] ELSE 0
  <2> SUFFICES ASSUME f \notin d2 PROVE CalcFriendCapacities(q[f]) = IF f \in DOMAIN k2 THEN k2[f] ELSE 0
    OBVIOUS
  <2>0. cs[n] = r[f].cap
    BY <1>9
  <2>1. CASE ims = <<>> /\ \A i \in 1..N : Shown(r, ms[i], f) = c0
    <3>1. k2 = k /\ Told(ims) = {}
      BY <2>1, ApplyShort, ToldShort
    <3>2. CalcFriendCapacities(q[f]) = c0
      BY <2>0, <2>1, <1>8, <1>5, <1>6
    <3> HIDE DEF k2, c0, q, ims
    <3> QED BY <3>1, <3>2, <1>10
  <2>2. CASE /\ f \in DOMAIN k2
             /\ \E j \in 1..N : /\ k2[f] = Shown(r, ms[j], f) /\ Shown(r, ms[j], f) # c0
                                /\ \A i \in (j + 1)..N : Shown(r, ms[i], f) = c0
    <3>1. PICK j \in 1..N : k2[f] = Shown(r, ms[j], f) /\ Shown(r, ms[j], f) # c0
      BY <2>2
    <3> HIDE DEF k2, c0, q, ims
    <3>2. j \in 1..n \/ j = N
      BY <1>1
    <3>3. j = N
      BY <3>1, <3>2, <1>5, <1>6
    <3> QED BY <2>0, <3>1, <3>3, <2>2, <1>5, <1>6
  <2> QED BY <2>1, <2>2, <1>7 DEF Converted
<1>12. ASSUME NEW g \in DOMAIN r \ d2, g # f
       PROVE  CalcFriendCapacities(q[g]) = IF g \in DOMAIN k2 THEN k2[g] ELSE 0
  <2>1. Told(ims) \subseteq {f}
    BY <1>7, ToldShort DEF Converted
  <2>2. g \notin d
    BY <2>1, <1>12
  <2> HIDE DEF k2, q, ims, d2
  <2> QED BY <2>2, <1>3, <1>10, <1>12 DEF Others, Tells
<1> HIDE DEF k2, q, ims, d2
<1>13. Tells(k2, q, d2)
  BY <1>3, <1>10, <1>11, <1>12 DEF Tells
<1> QED BY <1>13 DEF k2, q, ims, d2, ms, ch, x

\* Fewer friends than are excepted are right.
LEMMA TellsMore ==
  ASSUME NEW k, NEW r, NEW d, NEW e, Tells(k, r, d)
  PROVE  Tells(k, r, e \cup d)
BY DEF Tells

\* Every batch is converted so that the index client stays told, but for those
\* whom it misleads (funder_report_mutation_to_index_mutation).
LEMMA BatchTells ==
  ASSUME NEW k, NEW r, NEW ms, NEW d, IsReport(r), Batch(r, ms), Tells(k, r, d)
  PROVE  LET ims == IndexMutations(r, ms)
         IN Tells(ApplyIndexMutations(k, ims), MutateAll(r, ms), Misleads(r, ms) \cup (d \ Told(ims)))
<1> DEFINE Goal == LET ims == IndexMutations(r, ms)
                   IN Tells(ApplyIndexMutations(k, ims), MutateAll(r, ms), Misleads(r, ms) \cup (d \ Told(ims)))
<1>0. ASSUME NEW m, NEW f, m.op # "remove", m.friend = f, ms = <<m>>,
             DOMAIN MutateReport(r, m) = DOMAIN r \cup {f},
             \A g \in DOMAIN r : g # f => MutateReport(r, m)[g] = r[g]
      PROVE  Goal
  <2> DEFINE q == MutateReport(r, m)
             ims == IndexMutation(r, m)
  <2>1. DOMAIN q = DOMAIN r \cup {f} /\ \A g \in DOMAIN r : g # f => q[g] = r[g]
    BY <1>0
  <2>2. q = MutateReport(r, m)
    OBVIOUS
  <2> HIDE DEF q
  <2>3. Tells(ApplyIndexMutations(k, ims), q, d \ Told(ims))
    BY ONLY <2>1, <2>2, <1>0, SetTells, Tells(k, r, d)
  <2>4. IndexMutations(r, ms) = ims /\ MutateAll(r, ms) = q
    BY <1>0, <2>2, MutateShort, ConvertShort
  <2> HIDE DEF ims
  <2> QED BY <2>3, <2>4, TellsMore
<1>1. CASE ms = <<>>
  <2>1. /\ IndexMutations(r, ms) = <<>> /\ MutateAll(r, ms) = r /\ Told(<<>>) = {}
        /\ ApplyIndexMutations(k, <<>>) = k
    BY <1>1, MutateShort, ConvertShort, ApplyShort, ToldShort
  <2>2. Tells(k, r, Misleads(r, ms) \cup (d \ {}))
    BY DEF Tells
  <2> QED BY <2>1, <2>2
<1>2. CASE \E f : f \notin DOMAIN r /\ ms = <<AddFriendReport(f, 0)>>
  <2>1. PICK f : ms = <<AddFriendReport(f, 0)>>
    BY <1>2
  <2> DEFINE m == AddFriendReport(f, 0)
  <2>2. m.op # "remove" /\ m.friend = f
    BY DEF AddFriendReport
  <2>3. /\ DOMAIN MutateReport(r, m) = DOMAIN r \cup {f}
        /\ \A g \in DOMAIN r : g # f => MutateReport(r, m)[g] = r[g]
    BY AddMutates
  <2> HIDE DEF m, Goal
  <2>4. ms = <<m>>
    BY <2>1 DEF m
  <2>5. Goal
    BY ONLY <1>0, <2>2, <2>3, <2>4
  <2> QED BY <2>5 DEF Goal
<1>3. CASE \E f \in DOMAIN r : ms = <<RemoveFriendReport(f)>>
  <2>1. PICK f : ms = <<RemoveFriendReport(f)>>
    BY <1>3
  <2> DEFINE m == RemoveFriendReport(f)
             q == MutateReport(r, m)
             im == [friend |-> f, remove |-> TRUE, cap |-> 0]
  <2>2. DOMAIN q = DOMAIN r \ {f} /\ \A g \in DOMAIN r : g # f => q[g] = r[g]
    BY RemoveMutates
  <2>3. IndexMutation(r, m) = <<im>>
    BY DEF IndexMutation, RemoveFriendReport
  <2>4. IndexMutations(r, ms) = IndexMutation(r, m) /\ MutateAll(r, ms) = q
    BY <2>1, MutateShort, ConvertShort
  <2>5. ApplyIndexMutations(k, <<im>>) = ApplyIndexMutation(k, im)
    BY ApplyShort
  <2>6. ApplyIndexMutation(k, im) = Drop(k, f) /\ im.friend = f
    BY DEF ApplyIndexMutation
  <2>a. Told(<<im>>) = {f}
    <3> HIDE DEF im
    <3> QED BY <2>6, ToldShort
  <2> DEFINE k2 == Drop(k, f)
  <2>7. DOMAIN k2 = DOMAIN k \ {f} /\ \A g \in DOMAIN k : g # f => k2[g] = k[g]
    BY DEF Drop
  <2> HIDE DEF k2, q, im
  <2>8. Tells(k2, q, Misleads(r, ms) \cup (d \ {f}))
    BY <2>2, <2>7 DEF Tells
  <2> QED BY <2>3, <2>4, <2>5, <2>6, <2>8, <2>a DEF k2
<1>4. ASSUME NEW f \in DOMAIN r, NEW field, NEW x, NEW v, ms = <<SetField(f, field, x)>>,
             Sets(r, f, SetField(f, field, x), v)
      PROVE  Goal
  <2> DEFINE m == SetField(f, field, x)
  <2>1. m.op # "remove" /\ m.friend = f
    BY DEF SetField
  <2> HIDE DEF m, Goal
  <2>2. ms = <<m>> /\ Sets(r, f, m, v)
    BY <1>4 DEF m
  <2>3. /\ DOMAIN MutateReport(r, m) = DOMAIN r \cup {f}
        /\ \A g \in DOMAIN r : g # f => MutateReport(r, m)[g] = r[g]
    BY <2>2 DEF Sets, Changed
  <2> QED BY <1>0, <2>1, <2>2, <2>3
<1>5. CASE \E f \in DOMAIN r, b \in BOOLEAN : ms = <<SetField(f, "enabled", b)>>
  <2>1. PICK f \in DOMAIN r, b \in BOOLEAN : ms = <<SetField(f, "enabled", b)>>
    BY <1>5
  <2>2. Sets(r, f, SetField(f, "enabled", b), Enabled(r[f], b))
    BY SetMutates
  <2> QED BY <1>4, <2>1, <2>2
<1>6. CASE \E f \in DOMAIN r, b \in BOOLEAN : ms = <<SetField(f, "online", b)>>
  <2>1. PICK f \in DOMAIN r, b \in BOOLEAN : ms = <<SetField(f, "online", b)>>
    BY <1>6
  <2>2. Sets(r, f, SetField(f, "online", b), Online(r[f], b))
    BY SetMutates
  <2> QED BY <1>4, <2>1, <2>2
<1>7. CASE \E f \in DOMAIN r, cs \in Seq(Cap \cup {0}) : cs # <<>> /\ ms = ChannelReports(f, cs)
  <2>1. PICK f \in DOMAIN r, cs \in Seq(Cap \cup {0}) : cs # <<>> /\ ms = ChannelReports(f, cs)
    BY <1>7
  <2> QED BY <2>1, ChannelTells
<1>8. CASE \E f \in DOMAIN r, cs \in Seq(Cap \cup {0}) :
             /\ cs # <<>> /\ ~r[f].online
             /\ ms = Append(ChannelReports(f, cs), SetField(f, "online", TRUE))
  <2>1. PICK f \in DOMAIN r, cs \in Seq(Cap \cup {0}) :
             /\ cs # <<>> /\ ~r[f].online
             /\ ms = Append(ChannelReports(f, cs), SetField(f, "online", TRUE))
    BY <1>8
  <2> QED BY <2>1, OnlineTells
<1> QED BY <1>1, <1>2, <1>3, <1>5, <1>6, <1>7, <1>8 DEF Batch


-----------------------------------------------------------------------------
(***************************************************************************)
(* Messages that fit what their receiver will know when it takes them.     *)
(***************************************************************************)
\* A message of the funder, for one who knows the report r.
Fits(r, m) ==
  \/ m.type = "result"
  \/ m.type = "mutations" /\ m.added = {} /\ Batch(r, m.ms)

Valid(v, msgs) == \A i \in 1..Len(msgs) : Fits(AfterEach(v, msgs)[i - 1].report, msgs[i])

\* A message that fits changes the report by its batch, and no index server.
LEMMA FitsAfter ==
  ASSUME NEW v, NEW m, IsReport(v.report), Fits(v.report, m)
  PROVE  /\ IsReport(After(v, m).report)
         /\ m.type = "result" => After(v, m) = v
         /\ m.type = "mutations" =>
              After(v, m) = [report |-> MutateAll(v.report, m.ms), servers |-> v.servers \cup m.added]
<1>1. CASE m.type = "result"
  BY <1>1 DEF After
<1>2. CASE m.type = "mutations" /\ m.added = {} /\ Batch(v.report, m.ms)
  <2>1. After(v, m) = [report |-> MutateAll(v.report, m.ms), servers |-> v.servers \cup m.added]
    BY <1>2 DEF After
  <2>2. IsReport(MutateAll(v.report, m.ms))
    BY <1>2, BatchReport
  <2> QED BY <1>2, <2>1, <2>2
<1> QED BY <1>1, <1>2 DEF Fits

LEMMA ValidNone == ASSUME NEW v PROVE Valid(v, <<>>)
BY DEF Valid

LEMMA ValidAppend ==
  ASSUME NEW v, NEW s, NEW x, IsQueue(s), Valid(v, s), Fits(AfterAll(v, s).report, x)
  PROVE  Valid(v, Append(s, x))
<1> DEFINE a == Append(s, x)
           n == Len(s)
<1>1. n \in Nat /\ Len(a) = n + 1 /\ a[n + 1] = x /\ \A i \in 1..n : a[i] = s[i]
  BY QueueParts
<1>2. \A i \in 0..n : AfterEach(v, a)[i] = AfterEach(v, s)[i]
  BY AfterAppend
<1> HIDE DEF a
<1>3. ASSUME NEW i \in 1..(n + 1) PROVE Fits(AfterEach(v, a)[i - 1].report, a[i])
  <2>1. i - 1 \in 0..n
    BY <1>1
  <2>2. AfterEach(v, a)[i - 1] = AfterEach(v, s)[i - 1]
    BY <1>2, <2>1
  <2>3. CASE i \in 1..n
    BY <1>1, <2>2, <2>3 DEF Valid
  <2>4. CASE i = n + 1
    BY <1>1, <2>2, <2>4 DEF AfterAll
  <2> QED BY <1>1, <2>3, <2>4
<1> QED BY <1>1, <1>3 DEF Valid, a

LEMMA ValidHead ==
  ASSUME NEW v, NEW s, IsQueue(s), s # <<>>, Valid(v, s)
  PROVE  Fits(v.report, Head(s)) /\ Valid(After(v, Head(s)), Tail(s))
<1> DEFINE r == Tail(s)
           w == After(v, Head(s))
           n == Len(r)
<1>1. n \in Nat /\ Len(s) = n + 1 /\ Head(s) = s[1] /\ \A i \in 1..n : r[i] = s[i + 1]
  BY QueueParts, TailQueue
<1>2. \A i \in 0..n : AfterEach(w, r)[i] = AfterEach(v, s)[i + 1]
  BY AfterHead
<1>3. AfterEach(v, s)[0] = v
  BY <1>1, AfterSteps DEF AfterTrace
<1> HIDE DEF r, w, n
<1>4. Fits(v.report, Head(s))
  <2>1. 1 \in 1..Len(s) /\ 1 - 1 = 0
    BY <1>1
  <2>2. Fits(AfterEach(v, s)[1 - 1].report, s[1])
    BY <2>1 DEF Valid
  <2> QED BY <2>1, <2>2, <1>1, <1>3
<1>5. ASSUME NEW i \in 1..n PROVE Fits(AfterEach(w, r)[i - 1].report, r[i])
  <2>1. i - 1 \in 0..n /\ (i - 1) + 1 = i /\ i + 1 \in 1..Len(s) /\ (i + 1) - 1 = i
    BY <1>1
  <2>2. AfterEach(w, r)[i - 1] = AfterEach(v, s)[i]
    BY <1>2, <2>1
  <2>3. Fits(AfterEach(v, s)[(i + 1) - 1].report, s[i + 1])
    BY <2>1 DEF Valid
  <2> QED BY <1>1, <2>1, <2>2, <2>3
<1>6. Valid(w, r)
  BY <1>5 DEF Valid, n
<1> QED BY <1>4, <1>6 DEF w, r

LEMMA ValidSame ==
  ASSUME NEW v, NEW w, NEW s, IsQueue(s), v.report = w.report, Valid(v, s)
  PROVE  Valid(w, s)
<1>1. Len(s) \in Nat /\ \A i \in 1..Len(s) : i - 1 \in 0..Len(s)
  BY QueueParts
<1>2. \A i \in 0..Len(s) : AfterEach(v, s)[i].report = AfterEach(w, s)[i].report
  BY AfterReport
<1> QED BY <1>1, <1>2 DEF Valid

-----------------------------------------------------------------------------
(***************************************************************************)
(* The invariant: the funder's state, the messages about it, and what the  *)
(* application server, the applications and the index client know.         *)
(***************************************************************************)
FriendsTyped(fs) == fs \in [DOMAIN fs -> [enabled : BOOLEAN, cap : Cap \cup {0}]]

\* The report r shows the friends fs, and those who are online but for some in a.
Agree(r, fs, on, a) ==
  /\ DOMAIN r = DOMAIN fs
  /\ \A f \in DOMAIN r :
       /\ r[f].enabled = fs[f].enabled /\ r[f].cap = fs[f].cap
       /\ r[f].online = (f \in on) \/ (f \in a /\ f \in on)

\* The messages of the funder on their way to the application server, and the
\* report when it has taken them.
Pending == fromFunder \o For(fout, "app")
Coming == AfterAll(NodeReport, Pending).report

FunderReports ==
  /\ FriendsTyped(friends) /\ FriendsTyped(disk.friends)
  /\ IsReport(report) /\ IsReport(Coming)
  /\ Agree(Coming, friends, online, odd)
  /\ Valid(NodeReport, Pending)

\* What the index client sends changes nothing in the report of the friends.
ClientMessage(m) == m.type = "result" \/ (m.type = "mutations" /\ m.ms = <<>>)

AppsKnow ==
  /\ apps \subseteq App /\ DOMAIN appState = App
  /\ \A m \in ToSet(cout) : ClientMessage(m)
  /\ \A m \in ToSet(fromClient) : ClientMessage(m)
  /\ \A p \in apps : appState[p] = "open" =>
       AfterAll(view[p], toApp[p] \o For(aout, p)) = NodeReport

ClientKnows ==
  /\ IsQueue(toClient)
  /\ Tells(KnownAfter(known, toClient \o For(aout, "client")), report, misled)

KInv == IInv /\ FunderReports /\ AppsKnow /\ ClientKnows

\* What an invariant says of the report is what the property says.
LEMMA AgreeShows ==
  ASSUME NEW r, NEW fs, NEW on, NEW a, IsReport(r), FriendsTyped(fs), Agree(r, fs, on, a)
  PROVE  /\ DOMAIN r = DOMAIN CreateReport(fs, on)
         /\ \A f \in DOMAIN r : \/ r[f] = CreateReport(fs, on)[f]
                                \/ f \in a /\ [r[f] EXCEPT !.online = TRUE] = CreateReport(fs, on)[f]
<1>1. DOMAIN r = DOMAIN CreateReport(fs, on)
  BY DEF Agree, CreateReport
<1>2. ASSUME NEW f \in DOMAIN r
      PROVE  \/ r[f] = CreateReport(fs, on)[f]
             \/ f \in a /\ [r[f] EXCEPT !.online = TRUE] = CreateReport(fs, on)[f]
  <2>1. PICK e \in BOOLEAN, o \in BOOLEAN, c \in Cap \cup {0} : r[f] = [enabled |-> e, online |-> o, cap |-> c]
    BY DEF IsReport, FriendReports
  <2>2. CreateReport(fs, on)[f] = [enabled |-> fs[f].enabled, online |-> f \in on, cap |-> fs[f].cap]
    BY <1>1 DEF CreateReport, FriendReport
  <2>3. /\ fs[f].enabled = e /\ fs[f].cap = c
        /\ (o = (f \in on)) \/ (f \in a /\ f \in on)
    BY <2>1 DEF Agree
  <2>4. CASE o = (f \in on)
    BY <2>1, <2>2, <2>3, <2>4
  <2>5. CASE f \in a /\ f \in on
    <3>1. [r[f] EXCEPT !.online = TRUE] = [enabled |-> e, online |-> TRUE, cap |-> c]
      <4>1. r[f] \in FriendReports /\ r[f].enabled = e /\ r[f].cap = c
        BY <2>1 DEF IsReport
      <4>2. [r[f] EXCEPT !.online = TRUE] = Online(r[f], TRUE)
        BY <4>1, FieldSet
      <4> QED BY <4>1, <4>2 DEF Online
    <3>2. (f \in on) = TRUE
      BY <2>5
    <3> QED BY <3>1, <3>2, <2>2, <2>3, <2>5
  <2> QED BY <2>3, <2>4, <2>5
<1> QED BY <1>1, <1>2

LEMMA KInvImplies == KInv => AppsAgree /\ IndexIsTold
<1> SUFFICES ASSUME KInv PROVE AppsAgree /\ IndexIsTold
  OBVIOUS
<1>1. AppsAgree
  <2>1. /\ DOMAIN Coming = DOMAIN CreateReport(friends, online)
        /\ \A f \in DOMAIN Coming :
             \/ Coming[f] = CreateReport(friends, online)[f]
             \/ f \in odd /\ [Coming[f] EXCEPT !.online = TRUE] = CreateReport(friends, online)[f]
    BY AgreeShows DEF KInv, FunderReports
  <2> QED BY <2>1 DEF AppsAgree, Coming, Pending, KInv, AppsKnow
<1>2. IndexIsTold
  BY DEF KInv, ClientKnows, Tells, IndexIsTold
<1> QED BY <1>1, <1>2

\* The report that is made of the friends' state when the node starts.
LEMMA StartReport ==
  ASSUME NEW fs, FriendsTyped(fs)
  PROVE  /\ IsReport(CreateReport(fs, {}))
         /\ Agree(CreateReport(fs, {}), fs, {}, {})
         /\ \A f \in DOMAIN CreateReport(fs, {}) : CalcFriendCapacities(CreateReport(fs, {})[f]) = 0
<1> DEFINE r == CreateReport(fs, {})
<1>0. \A f : (f \in {}) = FALSE
  OBVIOUS
<1>1. /\ DOMAIN r = DOMAIN fs
      /\ \A f \in DOMAIN fs : r[f].enabled = fs[f].enabled /\ r[f].cap = fs[f].cap
      /\ \A f \in DOMAIN fs : r[f].online = (f \in {})
  BY DEF CreateReport, FriendReport
<1>2. \A f \in DOMAIN fs : fs[f].enabled \in BOOLEAN /\ fs[f].cap \in Cap \cup {0}
  BY DEF FriendsTyped
<1>3. r \in [DOMAIN fs -> FriendReports]
  BY <1>2 DEF CreateReport, FriendReport, FriendReports
<1> HIDE DEF r
<1>4. Agree(r, fs, {}, {})
  BY <1>1 DEF Agree
<1>5. \A f \in DOMAIN r : CalcFriendCapacities(r[f]) = 0
  BY <1>0, <1>1 DEF CalcFriendCapacities
<1> QED BY <1>1, <1>3, <1>4, <1>5 DEF IsReport, r

\* What a handler of the funder adds for the application server: its batch, if
\* there is one or a request to answer, and the result of a request.
LEMMA HandledPending ==
  ASSUME FunderIdle, IsQueue(fromFunder), UNCHANGED fromFunder,
         NEW new, NEW live, NEW ms, NEW id, NEW extra, NEW shown, NEW res,
         Handled(new, live, ms, id, extra, shown),
         extra = <<>> \/ extra = <<Item("app", res)>>
  PROVE  /\ Pending = fromFunder
         /\ \/ ms = <<>> /\ Pending' = fromFunder
            \/ ms = <<>> /\ Pending' = Append(fromFunder, res)
            \/ Pending' = Append(fromFunder, Mutations(id, ms, {}))
            \/ Pending' = Append(Append(fromFunder, Mutations(id, ms, {})), res)
<1> DEFINE M == Mutations(id, ms, {})
           x == Item("friend", number')
           y == Item("app", M)
           shows == IF shown THEN <<x>> ELSE <<>>
           batch == IF ms = <<>> /\ id = {} THEN <<>> ELSE <<y>>
           rest == batch \o extra
<1>1. Pending = fromFunder
  BY ForNone, ConcatNone DEF Pending, FunderIdle
<1>2. fout' = (shows \o batch) \o extra
  BY DEF Handled
<1>3. x.to = "friend" /\ y.to = "app" /\ y.msg = M /\ Item("app", res).to = "app" /\ Item("app", res).msg = res
  BY DEF Item
<1> HIDE DEF x, y, M
<1>4. FirstFor(x, "app") = <<>> /\ FirstFor(y, "app") = <<M>> /\ FirstFor(Item("app", res), "app") = <<res>>
  BY <1>3 DEF FirstFor
<1>5. IsQueue(extra) /\ IsQueue(batch) /\ IsQueue(shows)
  BY EmptyQueue, SingleQueue
<1>6. IsQueue(rest)
  BY <1>5, ConcatQueue
<1>7. fout' = shows \o rest
  <2> DEFINE T == ToSet(shows) \cup ToSet(batch) \cup ToSet(extra)
  <2> HIDE DEF shows, batch
  <2>1. shows \in Seq(T) /\ batch \in Seq(T) /\ extra \in Seq(T)
    BY <1>5 DEF IsQueue
  <2> HIDE DEF T
  <2> QED BY <1>2, <2>1, ConcatAssociative
<1> HIDE DEF rest
<1>8. For(fout', "app") = For(rest, "app")
  <2>0. IsQueue(For(rest, "app"))
    BY <1>6, ForQueue
  <2>1. CASE shown
    <3>1. fout' = <<x>> \o rest
      BY <2>1, <1>7
    <3>2. For(<<x>> \o rest, "app") = FirstFor(x, "app") \o For(rest, "app")
      BY <1>6, ForOne
    <3> QED BY <3>1, <3>2, <1>4, <2>0, ConcatNone
  <2>2. CASE ~shown
    <3>1. fout' = <<>> \o rest
      BY <2>2, <1>7
    <3> QED BY <3>1, <1>6, ConcatNone
  <2> QED BY <2>1, <2>2
<1>9. For(extra, "app") = <<>> \/ For(extra, "app") = <<res>>
  <2>1. CASE extra = <<>>
    BY <2>1, ForNone
  <2>2. CASE extra = <<Item("app", res)>>
    <3>1. For(<<Item("app", res)>>, "app") = FirstFor(Item("app", res), "app")
      BY <1>5, ForOne
    <3> QED BY <2>2, <3>1, <1>4
  <2> QED BY <2>1, <2>2
<1>10. CASE ms = <<>> /\ id = {}
  <2>1. rest = <<>> \o extra
    BY <1>10 DEF rest
  <2>2. rest = extra
    BY <2>1, <1>5, ConcatNone
  <2>3. Pending' = fromFunder \o For(extra, "app")
    BY <2>2, <1>8 DEF Pending
  <2>4. fromFunder \o <<>> = fromFunder /\ fromFunder \o <<res>> = Append(fromFunder, res)
    BY ConcatNone, ConcatOne
  <2> QED BY <1>1, <1>9, <1>10, <2>3, <2>4
<1>11. CASE ~(ms = <<>> /\ id = {})
  <2>1. rest = <<y>> \o extra
    BY <1>11 DEF rest
  <2>2. For(rest, "app") = <<M>> \o For(extra, "app")
    <3>1. For(<<y>> \o extra, "app") = FirstFor(y, "app") \o For(extra, "app")
      BY <1>5, ForOne
    <3> QED BY <3>1, <2>1, <1>4
  <2>3. Pending' = fromFunder \o (<<M>> \o For(extra, "app"))
    BY <2>2, <1>8 DEF Pending
  <2>4. CASE For(extra, "app") = <<>>
    <3>1. <<M>> \o <<>> = <<M>> /\ fromFunder \o <<M>> = Append(fromFunder, M)
      BY SingleQueue, ConcatNone, ConcatOne
    <3> QED BY <1>1, <2>3, <2>4, <3>1 DEF M
  <2>5. CASE For(extra, "app") = <<res>>
    <3>1. Append(fromFunder, M) \o <<res>> = fromFunder \o (<<M>> \o <<res>>)
      BY SingleQueue, ConcatAppend
    <3>2. Append(fromFunder, M) \o <<res>> = Append(Append(fromFunder, M), res)
      BY AppendQueue, ConcatOne
    <3> QED BY <1>1, <2>3, <2>5, <3>1, <3>2 DEF M
  <2> QED BY <1>9, <2>4, <2>5
<1> QED BY <1>10, <1>11

\* A handler whose batch says what it has done keeps the reports.
LEMMA HandledReports ==
  ASSUME IInv, FunderReports, FunderIdle, UNCHANGED <<fromFunder, report, servers, disk>>,
         NEW new, NEW live, NEW ms, NEW id, NEW extra, NEW shown, NEW res,
         Handled(new, live, ms, id, extra, shown),
         extra = <<>> \/ extra = <<Item("app", res)>>, res.type = "result",
         Batch(Coming, ms), FriendsTyped(new),
         Agree(MutateAll(Coming, ms), new, live, odd')
  PROVE  FunderReports'
<1> DEFINE M == Mutations(id, ms, {})
           v == NodeReport
           s == fromFunder
           w == AfterAll(v, s)
<1>0. v' = v /\ friends' = new /\ online' = live
  BY DEF Handled, NodeReport
<1>1. IsQueue(s)
  BY DEF IInv, Queues
<1>2. /\ Pending = s
      /\ \/ ms = <<>> /\ Pending' = s
         \/ ms = <<>> /\ Pending' = Append(s, res)
         \/ Pending' = Append(s, M)
         \/ Pending' = Append(Append(s, M), res)
  BY <1>1, HandledPending
<1>3. w.report = Coming /\ IsReport(w.report) /\ Valid(v, s)
  BY <1>2 DEF Coming, FunderReports
<1>4. /\ M.type = "mutations" /\ M.ms = ms /\ M.added = {}
  BY DEF Mutations
<1> HIDE DEF M, s, v
<1>5. Fits(w.report, M)
  BY <1>3, <1>4 DEF Fits
<1>6. After(w, M).report = MutateAll(Coming, ms) /\ IsReport(After(w, M).report)
  <2> HIDE DEF w
  <2>1. /\ IsReport(After(w, M).report)
        /\ After(w, M) = [report |-> MutateAll(w.report, M.ms), servers |-> w.servers \cup M.added]
    BY <1>3, <1>4, <1>5, FitsAfter
  <2> QED BY <2>1, <1>3, <1>4
<1>7. ASSUME NEW x PROVE Fits(x, res) /\ After(x, res) = x
  BY DEF Fits, After
<1>8. /\ IsQueue(Append(s, M)) /\ AfterAll(v, Append(s, M)) = After(w, M)
      /\ Valid(v, Append(s, M))
  BY <1>1, <1>3, <1>5, AppendQueue, AfterAppend, ValidAppend
<1>9. /\ AfterAll(v, Append(Append(s, M), res)) = After(w, M)
      /\ Valid(v, Append(Append(s, M), res))
  <2>1. AfterAll(v, Append(Append(s, M), res)) = After(AfterAll(v, Append(s, M)), res)
    BY <1>8, AfterAppend
  <2>2. Fits(AfterAll(v, Append(s, M)).report, res)
    BY <1>7
  <2> QED BY <1>7, <1>8, <2>1, <2>2, ValidAppend
<1>10. AfterAll(v, Append(s, res)) = w /\ Valid(v, Append(s, res))
  <2>1. AfterAll(v, Append(s, res)) = After(w, res)
    BY <1>1, AfterAppend
  <2>2. Fits(w.report, res)
    BY <1>7
  <2> QED BY <1>1, <1>3, <1>7, <2>1, <2>2, ValidAppend
<1>11. ms = <<>> => MutateAll(Coming, ms) = Coming
  BY MutateShort
<1>12. /\ Valid(v, Pending') /\ AfterAll(v, Pending').report = MutateAll(Coming, ms)
       /\ IsReport(MutateAll(Coming, ms))
  BY <1>2, <1>3, <1>6, <1>8, <1>9, <1>10, <1>11
<1>13. Coming' = MutateAll(Coming, ms)
  BY <1>0, <1>12 DEF Coming, v
<1> QED BY <1>0, <1>12, <1>13 DEF FunderReports, v

\* What a change of a friend and the mutation that reports it do to a report.
LEMMA AgreeAdd ==
  ASSUME NEW r, NEW fs, NEW on, NEW a, NEW f, NEW b, f \notin DOMAIN fs,
         IsReport(r), FriendsTyped(fs), Agree(r, fs, on, a), a \subseteq b, f \in on => f \in b
  PROVE  LET new == Put(fs, f, [enabled |-> FALSE, cap |-> 0])
         IN /\ FriendsTyped(new)
            /\ Agree(MutateReport(r, AddFriendReport(f, 0)), new, on, b)
<1> DEFINE new == Put(fs, f, [enabled |-> FALSE, cap |-> 0])
           q == MutateReport(r, AddFriendReport(f, 0))
<1>1. /\ DOMAIN new = DOMAIN fs \cup {f} /\ new[f] = [enabled |-> FALSE, cap |-> 0]
      /\ \A g \in DOMAIN fs : new[g] = fs[g]
      /\ new \in [DOMAIN fs \cup {f} -> [enabled : BOOLEAN, cap : Cap \cup {0}]]
  BY DEF Put, FriendsTyped
<1>2. /\ DOMAIN q = DOMAIN r \cup {f} /\ q[f] = [enabled |-> FALSE, online |-> FALSE, cap |-> 0]
      /\ \A g \in DOMAIN r : g # f => q[g] = r[g]
  BY AddMutates
<1> HIDE DEF new, q
<1>3. FriendsTyped(new)
  BY <1>1 DEF FriendsTyped
<1>4. Agree(q, new, on, b)
  <2>1. DOMAIN q = DOMAIN new
    BY <1>1, <1>2 DEF Agree
  <2>2. ASSUME NEW g \in DOMAIN q
        PROVE  /\ q[g].enabled = new[g].enabled /\ q[g].cap = new[g].cap
               /\ q[g].online = (g \in on) \/ (g \in b /\ g \in on)
    <3>1. CASE g = f
      <4>1. q[g].enabled = FALSE /\ q[g].online = FALSE /\ q[g].cap = 0
        BY <3>1, <1>2
      <4>2. new[g].enabled = FALSE /\ new[g].cap = 0
        BY <3>1, <1>1
      <4>3. (g \in on) = FALSE \/ (g \in b /\ g \in on)
        BY <3>1
      <4> QED BY <4>1, <4>2, <4>3
    <3>2. CASE g # f
      BY <3>2, <1>1, <1>2 DEF Agree
    <3> QED BY <3>1, <3>2
  <2> QED BY <2>1, <2>2 DEF Agree
<1> QED BY <1>3, <1>4 DEF new, q

LEMMA AgreeRemove ==
  ASSUME NEW r, NEW fs, NEW on, NEW a, NEW f, f \in DOMAIN fs,
         IsReport(r), FriendsTyped(fs), Agree(r, fs, on, a)
  PROVE  /\ FriendsTyped(Drop(fs, f))
         /\ Agree(MutateReport(r, RemoveFriendReport(f)), Drop(fs, f), on, a \ {f})
<1> DEFINE new == Drop(fs, f)
           q == MutateReport(r, RemoveFriendReport(f))
<1>1. /\ DOMAIN new = DOMAIN fs \ {f} /\ \A g \in DOMAIN fs \ {f} : new[g] = fs[g]
      /\ new \in [DOMAIN fs \ {f} -> [enabled : BOOLEAN, cap : Cap \cup {0}]]
  BY DEF Drop, FriendsTyped
<1>2. DOMAIN q = DOMAIN r \ {f} /\ \A g \in DOMAIN r : g # f => q[g] = r[g]
  BY RemoveMutates
<1> HIDE DEF new, q
<1>3. FriendsTyped(new)
  BY <1>1 DEF FriendsTyped
<1>4. Agree(q, new, on, a \ {f})
  BY <1>1, <1>2 DEF Agree
<1> QED BY <1>3, <1>4 DEF new, q

\* The friends after a change of f.
LEMMA FriendChanged ==
  ASSUME NEW fs, NEW f \in DOMAIN fs, FriendsTyped(fs)
  PROVE  /\ \A b \in BOOLEAN :
              LET new == [fs EXCEPT ![f].enabled = b]
              IN /\ FriendsTyped(new) /\ Changed(new, fs, f, [enabled |-> b, cap |-> fs[f].cap])
         /\ \A c \in Cap \cup {0} :
              LET new == [fs EXCEPT ![f].cap = c]
              IN /\ FriendsTyped(new) /\ Changed(new, fs, f, [enabled |-> fs[f].enabled, cap |-> c])
<1>1. fs[f] \in [enabled : BOOLEAN, cap : Cap \cup {0}]
  BY DEF FriendsTyped
<1>2. ASSUME NEW v \in [enabled : BOOLEAN, cap : Cap \cup {0}]
      PROVE  FriendsTyped([fs EXCEPT ![f] = v]) /\ Changed([fs EXCEPT ![f] = v], fs, f, v)
  BY DEF FriendsTyped, Changed
<1>3. PICK e \in BOOLEAN, k \in Cap \cup {0} : fs[f] = [enabled |-> e, cap |-> k]
  BY <1>1
<1>4. ASSUME NEW b \in BOOLEAN
      PROVE  /\ FriendsTyped([fs EXCEPT ![f].enabled = b])
             /\ Changed([fs EXCEPT ![f].enabled = b], fs, f, [enabled |-> b, cap |-> fs[f].cap])
  <2>1. [fs[f] EXCEPT !.enabled = b] = [enabled |-> b, cap |-> fs[f].cap]
    BY <1>3
  <2>2. [fs EXCEPT ![f].enabled = b] = [fs EXCEPT ![f] = [enabled |-> b, cap |-> fs[f].cap]]
    BY <2>1
  <2>3. [enabled |-> b, cap |-> fs[f].cap] \in [enabled : BOOLEAN, cap : Cap \cup {0}]
    BY <1>3
  <2> QED BY <1>2, <2>2, <2>3
<1>5. ASSUME NEW c \in Cap \cup {0}
      PROVE  /\ FriendsTyped([fs EXCEPT ![f].cap = c])
             /\ Changed([fs EXCEPT ![f].cap = c], fs, f, [enabled |-> fs[f].enabled, cap |-> c])
  <2>1. [fs[f] EXCEPT !.cap = c] = [enabled |-> fs[f].enabled, cap |-> c]
    BY <1>3
  <2>2. [fs EXCEPT ![f].cap = c] = [fs EXCEPT ![f] = [enabled |-> fs[f].enabled, cap |-> c]]
    BY <2>1
  <2>3. [enabled |-> fs[f].enabled, cap |-> c] \in [enabled : BOOLEAN, cap : Cap \cup {0}]
    BY <1>3
  <2> QED BY <1>2, <2>2, <2>3
<1> QED BY <1>4, <1>5

\* A report and the friends change alike at f.
LEMMA AgreeChanged ==
  ASSUME NEW r, NEW fs, NEW on, NEW a, NEW f, NEW q, NEW new, NEW v, NEW w, NEW live, NEW b,
         Agree(r, fs, on, a), Changed(q, r, f, v), Changed(new, fs, f, w),
         v.enabled = w.enabled, v.cap = w.cap,
         v.online = (f \in live) \/ (f \in b /\ f \in live),
         \A g : g # f => (g \in on <=> g \in live) /\ (g \in a => g \in b)
  PROVE  Agree(q, new, live, b)
<1>1. DOMAIN q = DOMAIN new
  BY DEF Agree, Changed
<1>2. ASSUME NEW g \in DOMAIN q
      PROVE  /\ q[g].enabled = new[g].enabled /\ q[g].cap = new[g].cap
             /\ q[g].online = (g \in live) \/ (g \in b /\ g \in live)
  <2>1. CASE g = f
    BY <2>1 DEF Changed
  <2>2. CASE g # f
    <3>1. q[g] = r[g] /\ new[g] = fs[g] /\ (g \in on) = (g \in live)
      BY <2>2 DEF Agree, Changed
    <3> QED BY <3>1, <2>2 DEF Agree, Changed
  <2> QED BY <2>1, <2>2
<1> QED BY <1>1, <1>2 DEF Agree

\* Fewer exceptions are needed when a friend is gone.
LEMMA AgreeSame ==
  ASSUME NEW r, NEW fs, NEW on, NEW a, NEW b, Agree(r, fs, on, a),
         \A g \in DOMAIN fs : g \in a => g \in b
  PROVE  Agree(r, fs, on, b)
BY DEF Agree

\* The handler leaves the friends new and the liveness live, and reports ms.
Reported(new, live, ms) ==
  /\ FriendsTyped(new) /\ Batch(Coming, ms)
  /\ Agree(MutateAll(Coming, ms), new, live, odd')

\* A handler that changes nothing, but for exceptions that are none.
LEMMA ReportedNothing ==
  ASSUME FunderReports, \A g \in DOMAIN friends : g \in odd => g \in odd'
  PROVE  Reported(friends, online, <<>>)
<1>1. MutateAll(Coming, <<>>) = Coming /\ Batch(Coming, <<>>)
  BY MutateShort DEF Batch
<1>2. Agree(Coming, friends, online, odd')
  BY AgreeSame DEF FunderReports
<1> QED BY <1>1, <1>2 DEF Reported, FunderReports

\* A change of the channel or the rate of a friend.
LEMMA ReportedCap ==
  ASSUME FunderReports, UNCHANGED odd, NEW f \in DOMAIN friends, NEW cs \in Seq(Cap \cup {0})
  PROVE  Reported(ChangeChannel(f, cs), online, ChannelReports(f, cs))
<1>1. CASE cs = <<>>
  <2>1. ChangeChannel(f, cs) = friends
    BY <1>1 DEF ChangeChannel
  <2>2. IsQueue(ChannelReports(f, cs)) /\ Len(ChannelReports(f, cs)) = 0
    BY <1>1, ChannelQueue
  <2>3. ChannelReports(f, cs) = <<>>
    BY <2>2, QueueParts
  <2>4. Reported(friends, online, <<>>)
    BY ReportedNothing
  <2> QED BY <2>1, <2>3, <2>4
<1>2. CASE cs # <<>>
  <2> DEFINE c == Last(cs)
             new == [friends EXCEPT ![f].cap = c]
             r == Coming
             ms == ChannelReports(f, cs)
             w == [enabled |-> friends[f].enabled, cap |-> c]
             q == MutateAll(r, ms)
             v == Capacity(r[f], c)
  <2>1. c \in Cap \cup {0} /\ ChangeChannel(f, cs) = new
    BY <1>2 DEF ChangeChannel, Last
  <2>2. /\ FriendsTyped(friends) /\ IsReport(r) /\ Agree(r, friends, online, odd)
        /\ f \in DOMAIN r /\ r[f].enabled = friends[f].enabled
        /\ r[f].online = (f \in online) \/ (f \in odd /\ f \in online)
    BY DEF FunderReports, Agree
  <2>3. FriendsTyped(new) /\ Changed(new, friends, f, w) /\ w.enabled = friends[f].enabled /\ w.cap = c
    <3> HIDE DEF c
    <3> QED BY <2>1, <2>2, FriendChanged
  <2> HIDE DEF new, r, w
  <2>4. Changed(q, r, f, v)
    BY <1>2, <2>2, ChannelMutates
  <2>5. v.enabled = r[f].enabled /\ v.online = r[f].online /\ v.cap = c
    BY DEF Capacity
  <2>6. Batch(r, ms)
    BY <1>2, <2>2 DEF Batch
  <2> HIDE DEF q, v, c, ms
  <2>7. Agree(q, new, online, odd)
    BY <2>2, <2>3, <2>4, <2>5, AgreeChanged
  <2>8. Reported(new, online, ms)
    BY <2>3, <2>6, <2>7 DEF Reported, r, q
  <2> QED BY <2>1, <2>8 DEF ms
<1> QED BY <1>1, <1>2

\* A friend is added, removed, or its status changes.
LEMMA ReportedAdd ==
  ASSUME FunderReports, NEW f, f \notin DOMAIN friends,
         odd' = IF f \in online \ DOMAIN friends THEN odd \cup {f} ELSE odd
  PROVE  Reported(Put(friends, f, [enabled |-> FALSE, cap |-> 0]), online, <<AddFriendReport(f, 0)>>)
<1> DEFINE new == Put(friends, f, [enabled |-> FALSE, cap |-> 0])
           r == Coming
           m == AddFriendReport(f, 0)
<1>1. /\ FriendsTyped(friends) /\ IsReport(r) /\ Agree(r, friends, online, odd)
      /\ f \notin DOMAIN r
  BY DEF FunderReports, Agree
<1>2. odd \subseteq odd' /\ (f \in online => f \in odd')
  OBVIOUS
<1>3. FriendsTyped(new) /\ Agree(MutateReport(r, m), new, online, odd')
  BY <1>1, <1>2, AgreeAdd
<1>4. MutateAll(r, <<m>>) = MutateReport(r, m) /\ Batch(r, <<m>>)
  BY <1>1, MutateShort DEF Batch
<1> HIDE DEF m, new
<1>5. Reported(new, online, <<m>>)
  BY <1>2, <1>3, <1>4 DEF Reported
<1> QED BY <1>5 DEF m, new

LEMMA ReportedRemove ==
  ASSUME FunderReports, NEW f, f \in DOMAIN friends, odd' = odd \ {f}
  PROVE  Reported(Drop(friends, f), online, <<RemoveFriendReport(f)>>)
<1> DEFINE new == Drop(friends, f)
           r == Coming
           m == RemoveFriendReport(f)
<1>1. /\ FriendsTyped(friends) /\ IsReport(r) /\ Agree(r, friends, online, odd)
      /\ f \in DOMAIN r
  BY DEF FunderReports, Agree
<1>2. odd' = odd \ {f}
  OBVIOUS
<1>3. FriendsTyped(new) /\ Agree(MutateReport(r, m), new, online, odd \ {f})
  BY <1>1, AgreeRemove
<1>4. MutateAll(r, <<m>>) = MutateReport(r, m) /\ Batch(r, <<m>>)
  BY <1>1, MutateShort DEF Batch
<1> HIDE DEF m, new
<1>5. Reported(new, online, <<m>>)
  BY <1>2, <1>3, <1>4 DEF Reported
<1> QED BY <1>5 DEF m, new

LEMMA ReportedStatus ==
  ASSUME FunderReports, UNCHANGED odd, NEW f \in DOMAIN friends, NEW b \in BOOLEAN
  PROVE  Reported([friends EXCEPT ![f].enabled = b], online, <<SetField(f, "enabled", b)>>)
<1> DEFINE new == [friends EXCEPT ![f].enabled = b]
           r == Coming
           m == SetField(f, "enabled", b)
           w == [enabled |-> b, cap |-> friends[f].cap]
           q == MutateReport(r, m)
           v == Enabled(r[f], b)
<1>1. /\ FriendsTyped(friends) /\ IsReport(r) /\ Agree(r, friends, online, odd)
      /\ f \in DOMAIN r /\ r[f].cap = friends[f].cap
      /\ r[f].online = (f \in online) \/ (f \in odd /\ f \in online)
  BY DEF FunderReports, Agree
<1>2. FriendsTyped(new) /\ Changed(new, friends, f, w) /\ w.enabled = b /\ w.cap = friends[f].cap
  BY <1>1, FriendChanged
<1> HIDE DEF new, r, w
<1>3. MutateAll(r, <<m>>) = q /\ Changed(q, r, f, v)
  BY <1>1, MutateShort, SetMutates DEF Sets
<1>4. v.enabled = b /\ v.online = r[f].online /\ v.cap = r[f].cap
  BY DEF Enabled
<1>5. Batch(r, <<m>>)
  BY <1>1 DEF Batch
<1> HIDE DEF q, v, m
<1>6. Agree(q, new, online, odd)
  BY <1>1, <1>2, <1>3, <1>4, AgreeChanged
<1>7. Reported(new, online, <<m>>)
  BY <1>1, <1>2, <1>3, <1>5, <1>6 DEF Reported, r
<1> QED BY <1>7 DEF new, m

\* A friend comes online: its channel may change in the same batch.
LEMMA ReportedOnline ==
  ASSUME FunderReports, UNCHANGED odd, NEW f \in DOMAIN friends, f \notin online,
         NEW cs \in Seq(Cap \cup {0})
  PROVE  Reported(ChangeChannel(f, cs), online \cup {f},
                  ChannelReports(f, cs) \o LivenessReport(friends, f, TRUE))
<1> DEFINE live == online \cup {f}
           r == Coming
           n == SetField(f, "online", TRUE)
           ms == ChannelReports(f, cs) \o LivenessReport(friends, f, TRUE)
<1>1. /\ FriendsTyped(friends) /\ IsReport(r) /\ Agree(r, friends, online, odd)
      /\ f \in DOMAIN r /\ r[f].enabled = friends[f].enabled /\ r[f].cap = friends[f].cap
      /\ ~r[f].online
  <2>1. /\ FriendsTyped(friends) /\ IsReport(r) /\ Agree(r, friends, online, odd)
        /\ f \in DOMAIN r /\ r[f].enabled = friends[f].enabled /\ r[f].cap = friends[f].cap
        /\ r[f].online = (f \in online)
    BY DEF FunderReports, Agree
  <2> QED BY <2>1
<1>3. LivenessReport(friends, f, TRUE) = <<n>> /\ TRUE \in BOOLEAN
  BY DEF LivenessReport
<1>4. \A g : g # f => (g \in online <=> g \in live) /\ (g \in odd => g \in odd)
  OBVIOUS
<1>5. (f \in live) = TRUE
  OBVIOUS
<1>a. IsQueue(ChannelReports(f, cs)) /\ Len(ChannelReports(f, cs)) = Len(cs)
  BY ChannelQueue
<1> HIDE DEF r, live
<1>6. CASE cs = <<>>
  <2> DEFINE q == MutateReport(r, n)
             v == Online(r[f], TRUE)
  <2>1. ChannelReports(f, cs) = <<>> /\ ChangeChannel(f, cs) = friends
    BY <1>6, <1>a, QueueParts DEF ChangeChannel
  <2>2. ms = <<n>>
    <3> HIDE DEF n
    <3> QED BY <2>1, <1>3, SingleQueue, ConcatNone
  <2>3. MutateAll(r, <<n>>) = q /\ Changed(q, r, f, v)
    BY <1>1, <1>3, MutateShort, SetMutates DEF Sets
  <2>4. v.enabled = r[f].enabled /\ v.online = TRUE /\ v.cap = r[f].cap
    BY DEF Online
  <2>5. Batch(r, <<n>>)
    BY <1>1, <1>3 DEF Batch
  <2>a. Changed(friends, friends, f, friends[f])
    BY DEF Changed
  <2> HIDE DEF q, v, n, ms
  <2>6. Agree(q, friends, live, odd)
    <3>1. v.enabled = friends[f].enabled /\ v.cap = friends[f].cap /\ v.online = (f \in live)
      BY <1>1, <1>5, <2>4
    <3>2. /\ Agree(r, friends, online, odd) /\ Changed(q, r, f, v)
          /\ Changed(friends, friends, f, friends[f])
      BY <1>1, <2>3, <2>a
    <3> QED BY ONLY <3>1, <3>2, <1>4, AgreeChanged
  <2>7. Reported(friends, live, ms)
    BY <1>1, <2>2, <2>3, <2>5, <2>6 DEF Reported, r
  <2> QED BY <2>1, <2>7 DEF live, ms
<1>7. CASE cs # <<>>
  <2> DEFINE c == Last(cs)
             new == [friends EXCEPT ![f].cap = c]
             w == [enabled |-> friends[f].enabled, cap |-> c]
             q == MutateAll(r, ms)
             v == Online(Capacity(r[f], c), TRUE)
  <2>1. c \in Cap \cup {0} /\ ChangeChannel(f, cs) = new
    BY <1>7 DEF ChangeChannel, Last
  <2>2. ms = Append(ChannelReports(f, cs), n)
    <3> HIDE DEF n
    <3> QED BY <1>3, <1>a, ConcatOne
  <2>3. FriendsTyped(new) /\ Changed(new, friends, f, w) /\ w.enabled = friends[f].enabled /\ w.cap = c
    <3> HIDE DEF c
    <3> QED BY <1>1, <2>1, FriendChanged
  <2>4. Changed(q, r, f, v)
    <3> HIDE DEF ms
    <3> QED BY <1>1, <1>7, <2>2, OnlineMutates
  <2>5. v.enabled = r[f].enabled /\ v.online = TRUE /\ v.cap = c
    BY DEF Online, Capacity
  <2>6. Batch(r, ms)
    <3> HIDE DEF ms
    <3> QED BY <1>1, <1>7, <2>2 DEF Batch
  <2> HIDE DEF q, v, n, ms, c, new, w
  <2>7. Agree(q, new, live, odd)
    <3>1. v.enabled = w.enabled /\ v.cap = w.cap /\ v.online = (f \in live)
      BY <1>1, <1>5, <2>3, <2>5
    <3>2. Agree(r, friends, online, odd) /\ Changed(q, r, f, v) /\ Changed(new, friends, f, w)
      BY <1>1, <2>3, <2>4
    <3> QED BY ONLY <3>1, <3>2, <1>4, AgreeChanged
  <2>8. Reported(new, live, ms)
    BY <2>3, <2>6, <2>7 DEF Reported, r, q
  <2> QED BY <2>1, <2>8 DEF live, ms
<1> QED BY <1>6, <1>7

\* A friend goes offline.
LEMMA ReportedOffline ==
  ASSUME FunderReports, NEW f, odd' = odd \ {f}
  PROVE  Reported(friends, online \ {f}, LivenessReport(friends, f, FALSE))
<1> DEFINE live == online \ {f}
           r == Coming
           n == SetField(f, "online", FALSE)
<1>1. /\ FriendsTyped(friends) /\ IsReport(r) /\ Agree(r, friends, online, odd)
      /\ DOMAIN r = DOMAIN friends
  BY DEF FunderReports, Agree
<1>2. odd' = odd \ {f}
  OBVIOUS
<1>3. /\ \A g : g # f => (g \in online <=> g \in live) /\ (g \in odd => g \in odd \ {f})
      /\ (f \in live) = FALSE
  OBVIOUS
<1> HIDE DEF r, live
<1>4. CASE f \in DOMAIN friends
  <2> DEFINE q == MutateReport(r, n)
             v == Online(r[f], FALSE)
  <2>1. LivenessReport(friends, f, FALSE) = <<n>> /\ FALSE \in BOOLEAN
    BY <1>4 DEF LivenessReport
  <2>2. MutateAll(r, <<n>>) = q /\ Changed(q, r, f, v)
    BY <1>1, <1>4, <2>1, MutateShort, SetMutates DEF Sets
  <2>3. /\ v.enabled = r[f].enabled /\ v.online = FALSE /\ v.cap = r[f].cap
        /\ r[f].enabled = friends[f].enabled /\ r[f].cap = friends[f].cap
    BY <1>1, <1>4 DEF Online, Agree
  <2>4. Batch(r, <<n>>)
    BY <1>1, <1>4, <2>1 DEF Batch
  <2>5. Changed(friends, friends, f, friends[f])
    BY DEF Changed
  <2> HIDE DEF q, v, n
  <2>6. Agree(q, friends, live, odd \ {f})
    <3>1. /\ v.enabled = friends[f].enabled /\ v.cap = friends[f].cap /\ v.online = (f \in live)
      BY <1>3, <2>3
    <3>2. /\ Agree(r, friends, online, odd) /\ Changed(q, r, f, v)
          /\ Changed(friends, friends, f, friends[f])
      BY <1>1, <2>2, <2>5
    <3> QED BY ONLY <3>1, <3>2, <1>3, AgreeChanged
  <2> QED BY <1>1, <1>2, <2>1, <2>2, <2>4, <2>6 DEF Reported, r, live
<1>5. CASE f \notin DOMAIN friends
  <2>1. LivenessReport(friends, f, FALSE) = <<>>
    BY <1>5 DEF LivenessReport
  <2>2. MutateAll(r, <<>>) = r /\ Batch(r, <<>>)
    BY MutateShort DEF Batch
  <2>3. \A g \in DOMAIN r : (g \in online) = (g \in live) /\ (g \in odd => g \in odd \ {f})
    BY <1>1, <1>3, <1>5
  <2>4. Agree(r, friends, live, odd \ {f})
    BY <1>1, <2>3 DEF Agree
  <2> QED BY <1>1, <1>2, <2>1, <2>2, <2>4 DEF Reported, r, live
<1> QED BY <1>4, <1>5

\* A handler that reports what it has done keeps the reports.
LEMMA ReportedKeeps ==
  ASSUME IInv, FunderReports, FunderIdle, UNCHANGED <<fromFunder, report, servers, disk>>,
         NEW new, NEW live, NEW ms, NEW id, NEW extra, NEW shown, NEW res,
         Handled(new, live, ms, id, extra, shown), Reported(new, live, ms),
         extra = <<>> \/ extra = <<Item("app", res)>>, res.type = "result"
  PROVE  FunderReports'
BY HandledReports DEF Reported

\* The reports stay when nothing of them changes.
LEMMA SameReports ==
  ASSUME FunderReports,
         UNCHANGED <<friends, online, fout, fromFunder, report, servers, disk, odd>>
  PROVE  FunderReports'
BY DEF FunderReports, Coming, Pending, NodeReport

-----------------------------------------------------------------------------
(***************************************************************************)
(* Steps of the funder, the database and the node as a whole.              *)
(***************************************************************************)
\* What the applications and the index client know does not depend on the
\* funder's state, but for the exceptions.
LEMMA SameApps ==
  ASSUME AppsKnow, UNCHANGED <<apps, appState, cout, fromClient, view, toApp, aout, report, servers>>
  PROVE  AppsKnow'
BY DEF AppsKnow, NodeReport

LEMMA SameClient ==
  ASSUME ClientKnows, UNCHANGED <<toClient, known, aout, report, misled>>
  PROVE  ClientKnows'
BY DEF ClientKnows, Tells

\* What a handler may do to a channel.
LEMMA ChangesSeq == Changes \subseteq Seq(Cap \cup {0}) /\ <<>> \in Seq(Cap \cup {0})
BY NodeAssumption

\* A request of an application at the funder.
LEMMA ControlKInv ==
  ASSUME KInv, Control
  PROVE  FunderReports' /\ AppsKnow' /\ ClientKnows'
<1> DEFINE m == Head(toFunder)
           f == m.friend
           res == [type |-> "result", id |-> m.id]
<1>0. IInv /\ FunderReports /\ AppsKnow /\ ClientKnows
  BY DEF KInv
<1>1. /\ FunderIdle
      /\ UNCHANGED <<report, servers, apps, aout, fromFunder, toClient, fromClient, toApp, appState,
                     known, cout, disk, view, misled>>
  BY DEF Control, serverVars, appVars, clientVars
<1>2. res.type = "result"
  OBVIOUS
<1> HIDE DEF m, res
<1>4. \E new, live, ms, id, extra, shown :
        /\ Handled(new, live, ms, id, extra, shown) /\ Reported(new, live, ms)
        /\ extra = <<>> \/ extra = <<Item("app", res)>>
  <2>1. CASE /\ m.kind = "add"
             /\ IF f \in DOMAIN friends THEN ControlRefused(m)
                ELSE Handled(Put(friends, f, [enabled |-> FALSE, cap |-> 0]), online,
                             <<AddFriendReport(f, 0)>>, {m.id}, <<>>, FALSE)
             /\ odd' = IF f \in online \ DOMAIN friends THEN odd \cup {f} ELSE odd
    <3>1. CASE f \in DOMAIN friends
      <4>1. Handled(friends, online, <<>>, {m.id}, <<>>, FALSE) /\ odd' = odd
        BY <2>1, <3>1 DEF ControlRefused
      <4>2. Reported(friends, online, <<>>)
        BY <1>0, <4>1, ReportedNothing
      <4> QED BY <4>1, <4>2
    <3>2. CASE f \notin DOMAIN friends
      <4>1. Reported(Put(friends, f, [enabled |-> FALSE, cap |-> 0]), online, <<AddFriendReport(f, 0)>>)
        BY <1>0, <2>1, <3>2, ReportedAdd
      <4>2. Handled(Put(friends, f, [enabled |-> FALSE, cap |-> 0]), online,
                    <<AddFriendReport(f, 0)>>, {m.id}, <<>>, FALSE)
        BY <2>1, <3>2
      <4> QED BY <4>1, <4>2
    <3> QED BY <3>1, <3>2
  <2>2. CASE /\ m.kind = "remove"
             /\ IF f \notin DOMAIN friends THEN ControlRefused(m)
                ELSE Handled(Drop(friends, f), online, <<RemoveFriendReport(f)>>, {m.id}, <<>>, FALSE)
             /\ odd' = odd \ {f}
    <3>1. CASE f \notin DOMAIN friends
      <4>1. Handled(friends, online, <<>>, {m.id}, <<>>, FALSE)
        BY <2>2, <3>1 DEF ControlRefused
      <4>2. \A g \in DOMAIN friends : g \in odd => g \in odd'
        BY <2>2, <3>1
      <4>4. Reported(friends, online, <<>>)
        BY <1>0, <4>2, ReportedNothing
      <4> QED BY <4>1, <4>4
    <3>2. CASE f \in DOMAIN friends
      <4>1. Reported(Drop(friends, f), online, <<RemoveFriendReport(f)>>)
        BY <1>0, <2>2, <3>2, ReportedRemove
      <4>2. Handled(Drop(friends, f), online, <<RemoveFriendReport(f)>>, {m.id}, <<>>, FALSE)
        BY <2>2, <3>2
      <4> QED BY <4>1, <4>2
    <3> QED BY <3>1, <3>2
  <2>3. CASE /\ m.kind \in {"enable", "disable"}
             /\ LET on == m.kind = "enable" IN
                IF f \notin DOMAIN friends THEN ControlRefused(m)
                ELSE Handled([friends EXCEPT ![f].enabled = on], online,
                             <<SetField(f, "enabled", on)>>, {m.id}, <<>>, FALSE)
             /\ UNCHANGED odd
    <3>1. CASE f \notin DOMAIN friends
      <4>1. Handled(friends, online, <<>>, {m.id}, <<>>, FALSE)
        BY <2>3, <3>1 DEF ControlRefused
      <4>2. Reported(friends, online, <<>>)
        BY <1>0, <2>3, ReportedNothing
      <4> QED BY <4>1, <4>2
    <3>2. CASE f \in DOMAIN friends
      <4>1. PICK b \in BOOLEAN : b = (m.kind = "enable")
        OBVIOUS
      <4>2. Handled([friends EXCEPT ![f].enabled = b], online,
                    <<SetField(f, "enabled", b)>>, {m.id}, <<>>, FALSE)
        BY <2>3, <3>2, <4>1
      <4>3. Reported([friends EXCEPT ![f].enabled = b], online, <<SetField(f, "enabled", b)>>)
        BY <1>0, <2>3, <3>2, ReportedStatus
      <4> QED BY <4>2, <4>3
    <3> QED BY <3>1, <3>2
  <2>4. CASE /\ m.kind = "rate"
             /\ IF f \notin DOMAIN friends THEN ControlRefused(m)
                ELSE \E cs \in NewRates(f) :
                       Handled(ChangeChannel(f, cs), online, ChannelReports(f, cs), {m.id}, <<>>, FALSE)
             /\ UNCHANGED odd
    <3>1. CASE f \notin DOMAIN friends
      <4>1. Handled(friends, online, <<>>, {m.id}, <<>>, FALSE)
        BY <2>4, <3>1 DEF ControlRefused
      <4>2. Reported(friends, online, <<>>)
        BY <1>0, <2>4, ReportedNothing
      <4> QED BY <4>1, <4>2
    <3>2. CASE f \in DOMAIN friends
      <4>1. PICK cs \in NewRates(f) :
              Handled(ChangeChannel(f, cs), online, ChannelReports(f, cs), {m.id}, <<>>, FALSE)
        BY <2>4, <3>2
      <4>2. cs \in Seq(Cap \cup {0})
        <5>1. cs = <<>> \/ \E c \in Cap : cs = <<c>>
          BY <4>1 DEF NewRates
        <5>2. <<>> \in Seq(Cap \cup {0}) /\ \A c \in Cap \cup {0} : <<c>> \in Seq(Cap \cup {0})
          OBVIOUS
        <5> QED BY <5>1, <5>2
      <4>3. Reported(ChangeChannel(f, cs), online, ChannelReports(f, cs))
        BY <1>0, <2>4, <3>2, <4>2, ReportedCap
      <4> QED BY <4>1, <4>3
    <3> QED BY <3>1, <3>2
  <2>5. CASE /\ \E cs \in IF m.kind = "transaction" /\ f \in DOMAIN friends /\ f \in online
                          THEN Changes ELSE {<<>>} :
                  Handled(ChangeChannel(f, cs), online, ChannelReports(f, cs), {m.id},
                          <<Item("app", res)>>, cs # <<>>)
             /\ UNCHANGED odd
    <3>1. PICK cs \in IF m.kind = "transaction" /\ f \in DOMAIN friends /\ f \in online
                      THEN Changes ELSE {<<>>} :
                  Handled(ChangeChannel(f, cs), online, ChannelReports(f, cs), {m.id},
                          <<Item("app", res)>>, cs # <<>>)
      BY <2>5
    <3>2. CASE f \in DOMAIN friends
      <4>1. cs \in Seq(Cap \cup {0})
        BY <3>1, ChangesSeq
      <4>2. Reported(ChangeChannel(f, cs), online, ChannelReports(f, cs))
        BY <1>0, <2>5, <3>2, <4>1, ReportedCap
      <4> QED BY <3>1, <4>2
    <3>3. CASE f \notin DOMAIN friends
      <4>1. cs = <<>>
        BY <3>1, <3>3
      <4>2. ChangeChannel(f, cs) = friends
        BY <4>1 DEF ChangeChannel
      <4>3. IsQueue(ChannelReports(f, cs)) /\ Len(ChannelReports(f, cs)) = 0
        <5>1. cs \in Seq({0}) /\ Len(cs) = 0
          BY <4>1
        <5> QED BY <5>1, ChannelQueue
      <4>4. ChannelReports(f, cs) = <<>>
        BY <4>3, QueueParts
      <4>5. Reported(friends, online, <<>>)
        BY <1>0, <2>5, ReportedNothing
      <4> QED BY <3>1, <4>2, <4>4, <4>5
    <3> QED BY <3>2, <3>3
  <2> QED BY <2>1, <2>2, <2>3, <2>4, <2>5 DEF Control, m, res
<1>5. PICK new, live, ms, id, extra, shown :
        /\ Handled(new, live, ms, id, extra, shown) /\ Reported(new, live, ms)
        /\ extra = <<>> \/ extra = <<Item("app", res)>>
  BY <1>4
<1>6. FunderReports'
  BY <1>0, <1>1, <1>2, <1>5, ReportedKeeps
<1> QED BY <1>0, <1>1, <1>6, SameApps, SameClient

\* An event from the channeler at the funder.
LEMMA CommKInv ==
  ASSUME KInv, NEW type, NEW f, Comm(type, f)
  PROVE  FunderReports' /\ AppsKnow' /\ ClientKnows'
<1> DEFINE res == [type |-> "result", id |-> 0]
<1>0. IInv /\ FunderReports /\ AppsKnow /\ ClientKnows
  BY DEF KInv
<1>1. /\ FunderIdle
      /\ UNCHANGED <<report, servers, apps, aout, fromFunder, toClient, fromClient, toApp, appState,
                     known, cout, disk, view, misled>>
  BY DEF Comm, serverVars, appVars, clientVars, channels
<1>2. res.type = "result"
  OBVIOUS
<1>4. \/ \E new, live, ms, shown :
           Handled(new, live, ms, {}, <<>>, shown) /\ Reported(new, live, ms)
      \/ UNCHANGED <<funderVars, odd>>
  <2>1. CASE /\ f \in DOMAIN friends /\ f \notin online /\ UNCHANGED odd
             /\ \E cs \in Changes :
                  Handled(ChangeChannel(f, cs), online \cup {f},
                          ChannelReports(f, cs) \o LivenessReport(friends, f, TRUE), {}, <<>>, TRUE)
    <3>1. PICK cs \in Changes :
            Handled(ChangeChannel(f, cs), online \cup {f},
                    ChannelReports(f, cs) \o LivenessReport(friends, f, TRUE), {}, <<>>, TRUE)
      BY <2>1
    <3>2. cs \in Seq(Cap \cup {0})
      BY ChangesSeq
    <3>3. Reported(ChangeChannel(f, cs), online \cup {f},
                   ChannelReports(f, cs) \o LivenessReport(friends, f, TRUE))
      BY <1>0, <2>1, <3>2, ReportedOnline
    <3> QED BY <3>1, <3>3
  <2>2. CASE /\ Handled(friends, online \ {f}, LivenessReport(friends, f, FALSE), {}, <<>>, FALSE)
             /\ odd' = odd \ {f}
    <3>1. Reported(friends, online \ {f}, LivenessReport(friends, f, FALSE))
      BY <1>0, <2>2, ReportedOffline
    <3> QED BY <2>2, <3>1
  <2>3. CASE /\ f \in DOMAIN friends /\ UNCHANGED odd
             /\ \E cs \in Changes :
                  Handled(ChangeChannel(f, cs), online, ChannelReports(f, cs), {}, <<>>, TRUE)
    <3>1. PICK cs \in Changes :
            Handled(ChangeChannel(f, cs), online, ChannelReports(f, cs), {}, <<>>, TRUE)
      BY <2>3
    <3>2. cs \in Seq(Cap \cup {0})
      BY ChangesSeq
    <3>3. Reported(ChangeChannel(f, cs), online, ChannelReports(f, cs))
      BY <1>0, <2>3, <3>2, ReportedCap
    <3> QED BY <3>1, <3>3
  <2> QED BY <2>1, <2>2, <2>3 DEF Comm
<1> HIDE DEF res
<1>5. FunderReports'
  <2>1. CASE \E new, live, ms, shown :
               Handled(new, live, ms, {}, <<>>, shown) /\ Reported(new, live, ms)
    <3>1. PICK new, live, ms, shown :
            Handled(new, live, ms, {}, <<>>, shown) /\ Reported(new, live, ms)
      BY <2>1
    <3>2. FunderReports'
      BY <1>0, <1>1, <1>2, <3>1, ReportedKeeps
    <3> QED BY <3>2
  <2>2. CASE UNCHANGED <<funderVars, odd>>
    BY <1>0, <1>1, <2>2, SameReports DEF funderVars
  <2> QED BY <1>4, <2>1, <2>2
<1> QED BY <1>0, <1>1, <1>5, SameApps, SameClient

\* The funder sends: what is on its way stays the same.
LEMMA FunderSendsKInv ==
  ASSUME KInv, FunderSends
  PROVE  FunderReports' /\ AppsKnow' /\ ClientKnows'
<1> DEFINE x == Head(fout)
           t == For(Tail(fout), "app")
<1>0. IInv /\ FunderReports /\ AppsKnow /\ ClientKnows
  BY DEF KInv
<1>1. /\ fout # <<>> /\ fout' = Tail(fout) /\ IsQueue(fout) /\ IsQueue(fromFunder)
      /\ UNCHANGED <<report, servers, apps, aout, toClient, fromClient, toApp, appState,
                     friends, online, known, cout, disk, view, odd, misled>>
  BY DEF FunderSends, KInv, IInv, Queues, serverVars, appVars, clientVars
<1>2. For(fout, "app") = FirstFor(x, "app") \o t /\ IsQueue(t)
  BY <1>1, ForHead, ForQueue, TailQueue
<1>3. For(fout', "app") = t
  BY <1>1
<1> HIDE DEF x, t
<1>4. Pending' = Pending
  <2>1. CASE x.to = "friend" /\ UNCHANGED fromFunder
    <3>1. FirstFor(x, "app") = <<>>
      BY <2>1 DEF FirstFor
    <3>2. For(fout, "app") = t
      BY <3>1, <1>2, ConcatNone
    <3> QED BY <2>1, <3>2, <1>3 DEF Pending
  <2>2. CASE x.to = "app" /\ fromFunder' = Append(fromFunder, x.msg)
    <3>1. FirstFor(x, "app") = <<x.msg>>
      BY <2>2 DEF FirstFor
    <3>2. Append(fromFunder, x.msg) \o t = fromFunder \o (<<x.msg>> \o t)
      BY <1>1, <1>2, ConcatAppend
    <3> QED BY <2>2, <3>1, <3>2, <1>2, <1>3 DEF Pending
  <2> QED BY <2>1, <2>2 DEF FunderSends, x
<1>5. FunderReports'
  <2>1. Coming' = Coming /\ NodeReport' = NodeReport
    BY <1>1, <1>4 DEF Coming, NodeReport
  <2> QED BY <1>0, <1>1, <1>4, <2>1 DEF FunderReports
<1> QED BY <1>0, <1>1, <1>5, SameApps, SameClient

\* The database writes.
LEMMA DatabaseWritesKInv ==
  ASSUME KInv, DatabaseWrites
  PROVE  FunderReports' /\ AppsKnow' /\ ClientKnows'
<1>0. IInv /\ FunderReports /\ AppsKnow /\ ClientKnows
  BY DEF KInv
<1>1. UNCHANGED <<report, servers, apps, aout, fromFunder, toClient, fromClient, toApp, appState,
                  friends, online, fout, known, cout, view, odd, misled>>
  BY DEF DatabaseWrites, serverVars, channels, appVars, funderVars, clientVars, historyVars
<1>2. FriendsTyped(disk'.friends)
  <2>1. disk' = Mutate(disk, Head(writes)) /\ writes # <<>> /\ IsQueue(writes)
    BY <1>0 DEF DatabaseWrites, IInv, Queues, Writers
  <2>2. Head(writes) = writes[1] /\ 1 \in DOMAIN writes
    BY <2>1 DEF IsQueue
  <2>3. Head(writes).by = "funder" => Head(writes).friends = friends
    BY <1>0, <2>2 DEF IInv, FunderOnDisk
  <2> QED BY <1>0, <2>1, <2>3 DEF FunderReports, Mutate, NodeState
<1>3. FunderReports'
  BY <1>0, <1>1, <1>2 DEF FunderReports, Coming, Pending, NodeReport
<1> QED BY <1>0, <1>1, <1>3, SameApps, SameClient

\* The node starts, for the first time or again: nothing is under way.
LEMMA StartKInv ==
  ASSUME NEW fs, FriendsTyped(fs), report = CreateReport(fs, {}), friends = fs, online = {},
         FriendsTyped(disk.friends), fout = <<>>, cout = <<>>, aout = <<>>, fromFunder = <<>>,
         fromClient = <<>>, toClient = <<>>, apps = {}, DOMAIN appState = App,
         odd = {},
         known = [x \in {} |-> 0] \/ known = IndexClientState(report)
  PROVE  FunderReports /\ AppsKnow /\ ClientKnows
<1>1. /\ IsReport(report) /\ Agree(report, fs, {}, {})
      /\ \A f \in DOMAIN report : CalcFriendCapacities(report[f]) = 0
  BY StartReport
<1>2. <<>> \o <<>> = <<>> /\ IsQueue(<<>>)
  BY EmptyQueue, ConcatNone
<1>3. Pending = <<>>
  BY <1>2, ForNone DEF Pending
<1>4. Coming = report
  BY <1>3, AfterNone DEF Coming, NodeReport
<1>5. FunderReports
  BY <1>1, <1>3, <1>4, ValidNone DEF FunderReports
<1>6. AppsKnow
  BY EmptyQueue DEF AppsKnow
<1>7. KnownAfter(known, toClient \o For(aout, "client")) = known
  BY <1>2, ForNone, KnownNone
<1>8. DOMAIN known = {}
  BY <1>1 DEF IndexClientState
<1>9. ClientKnows
  BY <1>1, <1>2, <1>7, <1>8 DEF ClientKnows, Tells
<1> QED BY <1>5, <1>6, <1>9

LEMMA InitKInv == Init => KInv
<1> SUFFICES ASSUME Init PROVE KInv
  OBVIOUS
<1>1. FriendsTyped(InitFriends)
  BY NodeAssumption DEF FriendsTyped
<1>2. /\ report = CreateReport(InitFriends, {}) /\ friends = InitFriends /\ online = {}
      /\ disk.friends = InitFriends /\ fout = <<>> /\ cout = <<>> /\ aout = <<>> /\ fromFunder = <<>>
      /\ fromClient = <<>> /\ toClient = <<>> /\ apps = {} /\ DOMAIN appState = App
      /\ odd = {} /\ known = [x \in {} |-> 0]
  BY DEF Init, AppServerInit, NodeState, CreateNodeReport, NoKeys
<1>3. FunderReports /\ AppsKnow /\ ClientKnows
  BY <1>1, <1>2, StartKInv
<1> QED BY <1>3, InitIInv DEF KInv

\* The node ends and starts again from the file.
LEMMA CrashKInv ==
  ASSUME KInv, Crash
  PROVE  FunderReports' /\ AppsKnow' /\ ClientKnows'
<1> DEFINE fs == disk.friends
<1>0. FriendsTyped(fs) /\ DOMAIN appState = App
  BY DEF KInv, FunderReports, AppsKnow
<1>1. /\ report' = CreateReport(fs, {}) /\ friends' = fs /\ online' = {}
      /\ disk' = disk /\ fout' = <<>> /\ cout' = <<>> /\ aout' = <<>> /\ fromFunder' = <<>>
      /\ fromClient' = <<>> /\ toClient' = <<>> /\ apps' = {} /\ DOMAIN appState' = App
      /\ odd' = {} /\ known' = IndexClientState(report')
  BY DEF Crash, CreateNodeReport
<1> HIDE DEF fs
<1>2. /\ IsReport(report') /\ Agree(report', fs, {}, {})
      /\ \A f \in DOMAIN report' : CalcFriendCapacities(report'[f]) = 0
  BY <1>0, <1>1, StartReport
<1>3. <<>> \o <<>> = <<>> /\ IsQueue(<<>>)
  BY EmptyQueue, ConcatNone
<1>4. Pending' = <<>>
  BY <1>1, <1>3, ForNone DEF Pending
<1>5. Coming' = report'
  BY <1>4, AfterNone DEF Coming, NodeReport
<1>6. FunderReports'
  BY <1>0, <1>1, <1>2, <1>4, <1>5, ValidNone DEF FunderReports, fs
<1>7. AppsKnow'
  BY <1>1, EmptyQueue DEF AppsKnow
<1>8. KnownAfter(known', toClient' \o For(aout', "client")) = known'
  BY <1>1, <1>3, ForNone, KnownNone
<1>9. DOMAIN known' = {}
  BY <1>1, <1>2 DEF IndexClientState
<1>10. ClientKnows'
  BY <1>1, <1>2, <1>3, <1>8, <1>9 DEF ClientKnows, Tells
<1> QED BY <1>6, <1>7, <1>10

\* The index client takes a message: the first of those that were on their way.
LEMMA ClientTakesKInv ==
  ASSUME KInv, ClientTakes
  PROVE  FunderReports' /\ AppsKnow' /\ ClientKnows'
<1> DEFINE m == Head(toClient)
           t == For(aout, "client")
<1>0. IInv /\ FunderReports /\ AppsKnow /\ ClientKnows
  BY DEF KInv
<1>1. /\ toClient # <<>> /\ toClient' = Tail(toClient) /\ IsQueue(toClient) /\ IsQueue(aout)
      /\ UNCHANGED <<report, servers, apps, aout, fromFunder, fromClient, toApp, appState,
                     friends, online, fout, disk, view, odd, misled>>
  BY <1>0 DEF ClientTakes, ClientKnows, IInv, Queues, serverVars, appVars, funderVars, historyVars
<1>2. known' = KnownStep(known, m)
  BY DEF ClientTakes, KnownStep
<1>3. \A x \in ToSet(cout') : ClientMessage(x)
  <2>1. CASE UNCHANGED cout
    BY <1>0, <2>1 DEF AppsKnow
  <2>2. CASE \E k \in IndexServer : cout' = <<Mutations({m.id}, <<>>, {k})>>
    <3>1. PICK k \in IndexServer : cout' = <<Mutations({m.id}, <<>>, {k})>>
      BY <2>2
    <3>2. ClientMessage(Mutations({m.id}, <<>>, {k}))
      BY DEF Mutations, ClientMessage
    <3>3. ToSet(cout') = {Mutations({m.id}, <<>>, {k})}
      BY <3>1, SingleQueue
    <3> QED BY <3>2, <3>3
  <2>3. CASE cout' = <<Mutations({m.id}, <<>>, {}), [type |-> "result", id |-> m.id]>>
    <3>1. ClientMessage(Mutations({m.id}, <<>>, {})) /\ ClientMessage([type |-> "result", id |-> m.id])
      BY DEF Mutations, ClientMessage
    <3>2. ToSet(cout') = {Mutations({m.id}, <<>>, {}), [type |-> "result", id |-> m.id]}
      BY <2>3, PairQueue
    <3> QED BY <3>1, <3>2
  <2> QED BY <2>1, <2>2, <2>3 DEF ClientTakes
<1>4. FunderReports'
  BY <1>0, <1>1, SameReports
<1>5. AppsKnow'
  BY <1>0, <1>1, <1>3 DEF AppsKnow, NodeReport
<1>6. ClientKnows'
  <2>1. IsQueue(t)
    BY <1>1, ForQueue
  <2> HIDE DEF t, m
  <2>2. /\ toClient \o t # <<>> /\ Head(toClient \o t) = m /\ Tail(toClient \o t) = Tail(toClient) \o t
        /\ IsQueue(toClient \o t) /\ IsQueue(Tail(toClient))
    BY <1>1, <2>1, ConcatHead, ConcatQueue, TailQueue DEF m
  <2>3. KnownAfter(KnownStep(known, m), Tail(toClient) \o t) = KnownAfter(known, toClient \o t)
    BY <2>2, KnownHead
  <2> QED BY <1>0, <1>1, <1>2, <2>2, <2>3 DEF ClientKnows, t
<1> QED BY <1>4, <1>5, <1>6

\* The index client sends.
LEMMA ClientSendsKInv ==
  ASSUME KInv, ClientSends
  PROVE  FunderReports' /\ AppsKnow' /\ ClientKnows'
<1>0. IInv /\ FunderReports /\ AppsKnow /\ ClientKnows
  BY DEF KInv
<1>1. /\ cout # <<>> /\ cout' = Tail(cout) /\ fromClient' = Append(fromClient, Head(cout))
      /\ IsQueue(cout) /\ IsQueue(fromClient)
      /\ UNCHANGED <<report, servers, apps, aout, fromFunder, toClient, toApp, appState,
                     friends, online, fout, known, disk, view, odd, misled>>
  BY <1>0 DEF ClientSends, IInv, Queues, serverVars, appVars, funderVars, historyVars
<1>2. /\ ToSet(cout') \subseteq ToSet(cout) /\ Head(cout) \in ToSet(cout)
      /\ ToSet(fromClient') = ToSet(fromClient) \cup {Head(cout)}
  BY <1>1, TailQueue, AppendQueue
<1>3. AppsKnow'
  BY <1>0, <1>1, <1>2 DEF AppsKnow, NodeReport
<1> QED BY <1>0, <1>1, <1>3, SameReports, SameClient

-----------------------------------------------------------------------------
(***************************************************************************)
(* Steps of the application server and of the applications.                *)
(***************************************************************************)
\* What p knows when it has taken the messages on their way, and one more.
LEMMA AppHears ==
  ASSUME IInv, AppsKnow, NEW p \in apps, appState[p] = "open", aout = <<>>, NEW x
  PROVE  /\ AfterAll(view[p], toApp[p] \o <<>>) = NodeReport
         /\ AfterAll(view[p], toApp[p] \o <<x>>) = After(NodeReport, x)
<1>1. IsQueue(toApp[p]) /\ p \in App
  BY DEF IInv, Queues, AppsKnow
<1>2. toApp[p] \o <<>> = toApp[p] /\ toApp[p] \o <<x>> = Append(toApp[p], x)
  BY <1>1, ConcatNone, ConcatOne
<1>3. AfterAll(view[p], toApp[p]) = NodeReport
  <2>1. For(aout, p) = <<>>
    BY ForNone
  <2>2. AfterAll(view[p], toApp[p] \o For(aout, p)) = NodeReport
    BY DEF AppsKnow
  <2> QED BY <2>1, <2>2, <1>2
<1>4. AfterAll(view[p], Append(toApp[p], x)) = After(AfterAll(view[p], toApp[p]), x)
  BY <1>1, AfterAppend
<1> QED BY <1>2, <1>3, <1>4

\* What the index client knows when it has taken the messages on their way, and
\* one more.
LEMMA ClientHears ==
  ASSUME ClientKnows, aout = <<>>, NEW x
  PROVE  /\ KnownAfter(known, toClient \o <<x>>) = KnownStep(KnownAfter(known, toClient), x)
         /\ toClient \o <<>> = toClient
         /\ Tells(KnownAfter(known, toClient), report, misled)
<1>1. IsQueue(toClient)
  BY DEF ClientKnows
<1>2. toClient \o <<>> = toClient /\ toClient \o <<x>> = Append(toClient, x)
  BY <1>1, ConcatNone, ConcatOne
<1>3. KnownAfter(known, Append(toClient, x)) = KnownStep(KnownAfter(known, toClient), x)
  BY <1>1, KnownAppend
<1> QED BY <1>2, <1>3, ForNone DEF ClientKnows

\* An answer: to an application that asked, if it is there.
LEMMA AnswerKInv ==
  ASSUME KInv, NEW m, m.type = "result", Answer(m), aout = <<>>,
         UNCHANGED <<apps, toClient, known, view, toApp, appState, cout, odd, misled>>,
         ToSet(fromClient') \subseteq ToSet(fromClient)
  PROVE  AppsKnow' /\ ClientKnows'
<1>0. IInv /\ AppsKnow /\ ClientKnows /\ apps \subseteq App
  BY DEF KInv, AppsKnow
<1>1. /\ UNCHANGED <<report, servers>>
      /\ aout' = <<>> \/ \E q \in apps : aout' = <<Item(q, m)>>
  BY DEF Answer
<1>2. NodeReport' = NodeReport
  BY <1>1 DEF NodeReport
<1>3. ASSUME NEW to PROVE For(aout', to) = <<>> \/ (For(aout', to) = <<m>> /\ to \in apps)
  <2>1. CASE aout' = <<>>
    BY <2>1, ForNone
  <2>2. CASE \E q \in apps : aout' = <<Item(q, m)>>
    <3>1. PICK q \in apps : aout' = <<Item(q, m)>>
      BY <2>2
    <3>2. For(<<Item(q, m)>>, to) = FirstFor(Item(q, m), to)
      BY EmptyQueue, ForOne
    <3> QED BY <3>1, <3>2 DEF FirstFor, Item
  <2> QED BY <1>1, <2>1, <2>2
<1>4. AppsKnow'
  <2>1. ASSUME NEW p \in apps, appState[p] = "open"
        PROVE  AfterAll(view[p], toApp[p] \o For(aout', p)) = NodeReport
    <3>1. After(NodeReport, m) = NodeReport
      BY DEF After
    <3> QED BY <1>0, <1>3, <2>1, <3>1, AppHears
  <2> QED BY <1>0, <1>2, <2>1 DEF AppsKnow
<1>5. ClientKnows'
  <2>1. For(aout', "client") = <<>>
    BY <1>0, <1>3, AppAssumption
  <2> QED BY <1>0, <1>1, <2>1, ClientHears DEF ClientKnows
<1> QED BY <1>4, <1>5

\* The application server takes a message of the funder.
LEMMA FromFunderKInv ==
  ASSUME KInv, FunderReported
  PROVE  FunderReports' /\ AppsKnow' /\ ClientKnows'
<1> DEFINE m == Head(fromFunder)
           t == For(fout, "app")
           v == NodeReport
           ix == IndexMutations(report, m.ms)
<1>0. /\ IInv /\ FunderReports /\ AppsKnow /\ ClientKnows /\ apps \subseteq App /\ IsFiniteSet(apps)
      /\ IsReport(v.report) /\ v.report = report /\ v.servers = servers
  BY DEF KInv, AppsKnow, FunderReports, NodeReport, IInv, Queues
<1>1. /\ fromFunder # <<>> /\ fromFunder' = Tail(fromFunder) /\ IsQueue(fromFunder) /\ IsQueue(fout)
      /\ aout = <<>>
      /\ UNCHANGED <<apps, toClient, fromClient, toApp, appState, friends, online, fout, known, cout,
                     disk, view, odd>>
  BY <1>0 DEF FunderReported, FromFunder, IInv, Queues, appVars, funderVars, clientVars
<1>2. IsQueue(t)
  BY <1>1, ForQueue
<1> HIDE DEF t, m, v
<1>3. /\ Pending # <<>> /\ Head(Pending) = m /\ Tail(Pending) = Pending' /\ IsQueue(Pending)
  <2>1. /\ fromFunder \o t # <<>> /\ Head(fromFunder \o t) = m
        /\ Tail(fromFunder \o t) = Tail(fromFunder) \o t /\ IsQueue(fromFunder \o t)
    BY <1>1, <1>2, ConcatHead, ConcatQueue DEF m
  <2> QED BY <1>1, <2>1 DEF Pending, t
<1>4. Fits(v.report, m) /\ Valid(After(v, m), Pending')
  BY <1>0, <1>3, ValidHead DEF FunderReports, v
<1>5. AfterAll(After(v, m), Pending') = AfterAll(v, Pending)
  BY <1>3, AfterHead
<1>6. /\ IsReport(After(v, m).report)
      /\ m.type = "result" => After(v, m) = v
      /\ m.type = "mutations" =>
           After(v, m) = [report |-> MutateAll(v.report, m.ms), servers |-> v.servers \cup m.added]
  BY <1>0, <1>4, FitsAfter
<1>7. NodeReport' = After(v, m) /\ report' = After(v, m).report
  <2>1. CASE m.type = "mutations" /\ report' = MutateAll(report, m.ms) /\ UNCHANGED servers
    <3>1. m.added = {}
      BY <1>4, <2>1 DEF Fits
    <3> QED BY <1>0, <1>6, <2>1, <3>1 DEF NodeReport
  <2>2. CASE m.type = "result" /\ Answer(m)
    <3>1. UNCHANGED <<report, servers>>
      BY <2>2 DEF Answer
    <3>2. NodeReport' = v
      BY <3>1 DEF NodeReport, v
    <3> QED BY <1>0, <1>6, <2>2, <3>1, <3>2
  <2> QED BY <2>1, <2>2 DEF FunderReported, FromFunder, m
<1>8. FunderReports'
  <2>1. Coming' = Coming
    BY <1>5, <1>7 DEF Coming, v
  <2>2. Valid(NodeReport', Pending') /\ IsReport(report')
    BY <1>1, <1>4, <1>6, <1>7
  <2> QED BY <1>0, <1>1, <2>1, <2>2 DEF FunderReports
<1>9. CASE m.type = "result" /\ Answer(m)
  <2>0. UNCHANGED misled
    BY <1>9 DEF FunderReported, MisledAfter, m
  <2>1. AppsKnow' /\ ClientKnows'
    BY <1>1, <1>9, <2>0, AnswerKInv
  <2> QED BY <1>8, <2>1
<1>10. CASE /\ m.type = "mutations" /\ report' = MutateAll(report, m.ms)
            /\ aout' = (IF ix = <<>> THEN <<>> ELSE <<Item("client", [type |-> "apply", ms |-> ix])>>)
                         \o Broadcast(m)
  <2> DEFINE a == [type |-> "apply", ms |-> ix]
             b == Broadcast(m)
             x == Item("client", a)
  <2>1. IsQueue(b)
    BY <1>0, ToEachCopies DEF Broadcast
  <2>2. ASSUME NEW to PROVE For(b, to) = IF to \in apps THEN <<m>> ELSE <<>>
    BY <1>0, ForBroadcast DEF Broadcast
  <2>3. "client" \notin apps
    BY <1>0, AppAssumption
  <2>4. x.to = "client" /\ x.msg = a /\ a.type = "apply" /\ a.ms = ix
    BY DEF Item
  <2>5. \/ ix = <<>> /\ aout' = b
        \/ aout' = <<x>> \o b
    <3>1. <<>> \o b = b
      BY <2>1, ConcatNone
    <3> QED BY <3>1, <1>10
  <2> HIDE DEF a, b, x, ix
  <2>6. ASSUME NEW p \in apps PROVE For(aout', p) = <<m>>
    <3>1. FirstFor(x, p) = <<>> /\ IsQueue(<<m>>)
      BY <2>3, <2>4, SingleQueue DEF FirstFor
    <3>2. For(<<x>> \o b, p) = FirstFor(x, p) \o For(b, p)
      BY <2>1, ForOne
    <3>3. For(b, p) = <<m>> /\ <<>> \o <<m>> = <<m>>
      BY <2>2, <3>1, ConcatNone
    <3> QED BY <2>5, <3>1, <3>2, <3>3
  <2>7. \/ ix = <<>> /\ For(aout', "client") = <<>>
        \/ For(aout', "client") = <<a>>
    <3>1. FirstFor(x, "client") = <<a>> /\ IsQueue(<<a>>)
      BY <2>4, SingleQueue DEF FirstFor
    <3>2. For(<<x>> \o b, "client") = FirstFor(x, "client") \o For(b, "client")
      BY <2>1, ForOne
    <3>3. For(b, "client") = <<>> /\ <<a>> \o <<>> = <<a>>
      BY <2>2, <2>3, <3>1, ConcatNone
    <3> QED BY <2>5, <3>1, <3>2, <3>3
  <2>8. AppsKnow'
    <3>1. ASSUME NEW p \in apps, appState[p] = "open"
          PROVE  AfterAll(view[p], toApp[p] \o For(aout', p)) = NodeReport'
      BY <1>0, <1>1, <1>7, <2>6, <3>1, AppHears DEF v
    <3> QED BY <1>0, <1>1, <3>1 DEF AppsKnow
  <2>9. ClientKnows'
    <3> DEFINE k == KnownAfter(known, toClient)
    <3>1. Tells(k, report, misled) /\ toClient \o <<>> = toClient
          /\ KnownAfter(known, toClient \o <<a>>) = KnownStep(k, a)
      BY <1>0, <1>1, ClientHears
    <3>2. Batch(report, m.ms)
      BY <1>0, <1>4, <1>10 DEF Fits
    <3>3. Tells(ApplyIndexMutations(k, ix), report', misled')
      <4>1. misled' = Misleads(report, m.ms) \cup (misled \ Told(ix))
        BY <1>10 DEF FunderReported, MisledAfter, m, ix, Told
      <4> QED BY <1>0, <1>10, <3>1, <3>2, <4>1, BatchTells DEF ix
    <3>4. KnownStep(k, a) = ApplyIndexMutations(k, ix)
      BY <2>4 DEF KnownStep
    <3>5. ix = <<>> => ApplyIndexMutations(k, ix) = k
      BY ApplyShort
    <3>6. KnownAfter(known, toClient \o For(aout', "client")) = ApplyIndexMutations(k, ix)
      BY <2>7, <3>1, <3>4, <3>5
    <3> QED BY <1>0, <1>1, <3>3, <3>6 DEF ClientKnows
  <2> QED BY <1>8, <2>8, <2>9
<1> QED BY <1>9, <1>10 DEF FunderReported, FromFunder, m

\* The application server takes a message of the index client.
LEMMA FromIndexClientKInv ==
  ASSUME KInv, FromIndexClient, UNCHANGED nodeVars
  PROVE  FunderReports' /\ AppsKnow' /\ ClientKnows'
<1> DEFINE m == Head(fromClient)
<1>0. /\ IInv /\ FunderReports /\ AppsKnow /\ ClientKnows /\ apps \subseteq App /\ IsFiniteSet(apps)
  BY DEF KInv, AppsKnow, IInv, Queues
<1>1. /\ fromClient # <<>> /\ fromClient' = Tail(fromClient) /\ IsQueue(fromClient)
      /\ IsQueue(fromFunder) /\ IsQueue(fout) /\ aout = <<>>
      /\ UNCHANGED <<report, apps, fromFunder, toClient, toApp, appState, friends, online, fout, known,
                     cout, disk, view, odd, misled>>
  BY <1>0 DEF FromIndexClient, Answer, IInv, Queues, appVars, nodeVars, funderVars, clientVars, historyVars
<1>2. /\ ToSet(fromClient') \subseteq ToSet(fromClient) /\ ClientMessage(m)
  BY <1>0, <1>1, TailQueue DEF AppsKnow
<1>3. FunderReports'
  <2>1. NodeReport'.report = NodeReport.report /\ Pending' = Pending /\ IsQueue(Pending)
    BY <1>1, ForQueue, ConcatQueue DEF NodeReport, Pending
  <2>2. Coming' = Coming
    <3> DEFINE u == NodeReport
               w == NodeReport'
               s == Pending
    <3>1. u.report = w.report /\ IsQueue(s)
      BY <2>1
    <3>2. Coming = AfterAll(u, s).report /\ Coming' = AfterAll(w, s).report
      BY <2>1 DEF Coming
    <3> HIDE DEF u, w, s
    <3>3. AfterAll(u, s).report = AfterAll(w, s).report
      BY ONLY <3>1, AfterReport
    <3> QED BY ONLY <3>2, <3>3
  <2>3. Valid(NodeReport', Pending')
    BY <1>0, <2>1, ValidSame DEF FunderReports
  <2> QED BY <1>0, <1>1, <2>2, <2>3 DEF FunderReports
<1> HIDE DEF m
<1>4. CASE m.type = "result" /\ Answer(m)
  <2>1. AppsKnow' /\ ClientKnows'
    BY <1>1, <1>2, <1>4, AnswerKInv
  <2> QED BY <1>3, <2>1
<1>5. CASE m.type = "mutations" /\ aout' = Broadcast(m) /\ servers' = servers \cup m.added
  <2>1. ASSUME NEW to PROVE For(aout', to) = IF to \in apps THEN <<m>> ELSE <<>>
    BY <1>0, <1>5, ForBroadcast DEF Broadcast
  <2>2. For(aout', "client") = <<>>
    BY <1>0, <2>1, AppAssumption
  <2>3. NodeReport' = After(NodeReport, m)
    <3>1. m.ms = <<>>
      BY <1>2, <1>5 DEF ClientMessage
    <3>2. MutateAll(report, <<>>) = report
      BY MutateShort
    <3> QED BY <1>1, <1>5, <3>1, <3>2 DEF NodeReport, After
  <2>4. AppsKnow'
    <3>1. ASSUME NEW p \in apps, appState[p] = "open"
          PROVE  AfterAll(view[p], toApp[p] \o For(aout', p)) = NodeReport'
      BY <1>0, <1>1, <2>1, <2>3, <3>1, AppHears
    <3> QED BY <1>0, <1>1, <1>2, <3>1 DEF AppsKnow
  <2>5. ClientKnows'
    BY <1>0, <1>1, <2>2, ClientHears DEF ClientKnows
  <2> QED BY <1>3, <2>4, <2>5
<1> QED BY <1>4, <1>5 DEF FromIndexClient, m

\* A message of the application server leaves: it stays on its way.
LEMMA AppServerSendsKInv ==
  ASSUME KInv, AppServerSends, UNCHANGED nodeVars
  PROVE  FunderReports' /\ AppsKnow' /\ ClientKnows'
<1> DEFINE x == Head(aout)
<1>0. /\ IInv /\ FunderReports /\ AppsKnow /\ ClientKnows /\ apps \subseteq App
      /\ IsQueue(toClient) /\ DOMAIN toApp = App /\ \A p \in App : IsQueue(toApp[p])
  BY DEF KInv, AppsKnow, ClientKnows, IInv, Queues
<1>1. /\ aout # <<>> /\ aout' = Tail(aout) /\ IsQueue(aout)
      /\ UNCHANGED <<report, servers, apps, fromFunder, fromClient, appState, friends, online, fout, known,
                     cout, disk, view, odd, misled>>
  BY <1>0 DEF AppServerSends, IInv, Queues, serverVars, nodeVars, funderVars, clientVars, historyVars
<1>2. FunderReports' /\ NodeReport' = NodeReport
  BY <1>0, <1>1, SameReports DEF NodeReport
<1> HIDE DEF x
<1>3. ASSUME NEW to
      PROVE  /\ For(aout, to) = FirstFor(x, to) \o For(aout', to) /\ IsQueue(For(aout', to))
             /\ x.to # to => For(aout', to) = For(aout, to)
  <2>1. For(aout, to) = FirstFor(x, to) \o For(aout', to) /\ IsQueue(For(aout', to))
    BY <1>1, ForHead, ForQueue, TailQueue DEF x
  <2>2. x.to # to => FirstFor(x, to) = <<>>
    BY DEF FirstFor
  <2> QED BY <2>1, <2>2, ConcatNone
<1>4. ASSUME NEW q, IsQueue(q)
      PROVE  Append(q, x.msg) \o For(aout', x.to) = q \o For(aout, x.to)
  <2>1. For(aout, x.to) = <<x.msg>> \o For(aout', x.to) /\ IsQueue(For(aout', x.to))
    BY <1>3 DEF FirstFor
  <2> QED BY <1>4, <2>1, ConcatAppend
<1>5. \/ x.to = "funder" /\ UNCHANGED <<toClient, toApp>>
      \/ x.to = "client" /\ toClient' = Append(toClient, x.msg) /\ UNCHANGED toApp
      \/ x.to \in App /\ UNCHANGED toClient
         /\ toApp' = IF appState[x.to] = "closed" THEN toApp ELSE [toApp EXCEPT ![x.to] = Append(@, x.msg)]
  BY DEF AppServerSends, x
<1>6. AppsKnow'
  <2>1. ASSUME NEW p \in apps, appState[p] = "open"
        PROVE  toApp'[p] \o For(aout', p) = toApp[p] \o For(aout, p)
    <3>1. CASE x.to = p
      <4>1. toApp'[p] = Append(toApp[p], x.msg)
        BY <1>0, <1>5, <2>1, <3>1, AppAssumption
      <4> QED BY <1>0, <1>4, <3>1, <4>1
    <3>2. CASE x.to # p
      <4>1. toApp'[p] = toApp[p]
        BY <1>0, <1>5, <3>2
      <4> QED BY <1>3, <3>2, <4>1
    <3> QED BY <3>1, <3>2
  <2> QED BY <1>0, <1>1, <1>2, <2>1 DEF AppsKnow
<1>7. ClientKnows'
  <2>1. IsQueue(toClient') /\ toClient' \o For(aout', "client") = toClient \o For(aout, "client")
    <3>1. CASE x.to = "client"
      <4>1. toClient' = Append(toClient, x.msg)
        BY <1>5, <3>1, AppAssumption
      <4> QED BY <1>0, <1>4, <3>1, <4>1, AppendQueue
    <3>2. CASE x.to # "client"
      <4>1. toClient' = toClient
        BY <1>5, <3>2
      <4> QED BY <1>0, <1>3, <3>2, <4>1
    <3> QED BY <3>1, <3>2
  <2> QED BY <1>0, <1>1, <2>1 DEF ClientKnows
<1> QED BY <1>2, <1>6, <1>7

\* An application connects: the report comes before every change of it.
LEMMA IncomingKInv ==
  ASSUME KInv, NEW p \in App, IncomingConnection(p), UNCHANGED nodeVars
  PROVE  FunderReports' /\ AppsKnow' /\ ClientKnows'
<1> DEFINE m == [type |-> "report", report |-> report, servers |-> servers]
<1>0. /\ IInv /\ FunderReports /\ AppsKnow /\ ClientKnows /\ apps \subseteq App /\ DOMAIN appState = App
      /\ DOMAIN toApp = App /\ \A q \in App : IsQueue(toApp[q])
  BY DEF KInv, AppsKnow, IInv, Queues
<1>1. /\ aout = <<>> /\ aout' = <<Item(p, m)>> /\ apps' = apps \cup {p}
      /\ appState' = [appState EXCEPT ![p] = "open"]
      /\ UNCHANGED <<report, servers, fromFunder, toClient, fromClient, toApp, friends, online, fout,
                     known, cout, disk, view, odd, misled>>
  BY DEF IncomingConnection, channels, nodeVars, funderVars, clientVars, historyVars
<1>2. FunderReports' /\ NodeReport' = NodeReport
  BY <1>0, <1>1, SameReports DEF NodeReport
<1>3. ASSUME NEW v PROVE After(v, m) = NodeReport
  BY DEF After, NodeReport
<1> HIDE DEF m
<1>4. ASSUME NEW to PROVE For(aout', to) = IF to = p THEN <<m>> ELSE <<>>
  <2>1. For(<<Item(p, m)>>, to) = FirstFor(Item(p, m), to)
    BY EmptyQueue, ForOne
  <2> QED BY <1>1, <2>1 DEF FirstFor, Item
<1>5. AppsKnow'
  <2>1. ASSUME NEW q \in apps', appState'[q] = "open"
        PROVE  AfterAll(view[q], toApp[q] \o For(aout', q)) = NodeReport
    <3>1. CASE q = p
      <4>1. toApp[q] \o <<m>> = Append(toApp[q], m) /\ IsQueue(toApp[q])
        BY <1>0, <3>1, ConcatOne
      <4>2. AfterAll(view[q], Append(toApp[q], m)) = After(AfterAll(view[q], toApp[q]), m)
        BY <4>1, AfterAppend
      <4> QED BY <1>3, <1>4, <3>1, <4>1, <4>2
    <3>2. CASE q # p
      <4>1. q \in apps /\ appState[q] = "open"
        BY <1>0, <1>1, <2>1, <3>2
      <4>2. AfterAll(view[q], toApp[q] \o <<>>) = NodeReport
        BY <1>0, <1>1, <4>1, AppHears
      <4> QED BY <1>4, <3>2, <4>2
    <3> QED BY <3>1, <3>2
  <2>2. apps' \subseteq App /\ DOMAIN appState' = App
    BY <1>0, <1>1
  <2> QED BY <1>0, <1>1, <1>2, <2>1, <2>2 DEF AppsKnow
<1>6. ClientKnows'
  <2>1. For(aout', "client") = <<>>
    BY <1>4, AppAssumption
  <2> QED BY <1>0, <1>1, <2>1, ClientHears DEF ClientKnows
<1> QED BY <1>2, <1>5, <1>6

\* An application has gone.
LEMMA AppEndedKInv ==
  ASSUME KInv, NEW p \in App, AppEnded(p), UNCHANGED nodeVars
  PROVE  FunderReports' /\ AppsKnow' /\ ClientKnows'
<1>0. IInv /\ FunderReports /\ AppsKnow /\ ClientKnows
  BY DEF KInv
<1>1. /\ apps' = apps \ {p}
      /\ UNCHANGED <<report, servers, aout, fromFunder, toClient, fromClient, toApp, appState, friends,
                     online, fout, known, cout, disk, view, odd, misled>>
  BY DEF AppEnded, channels, appVars, nodeVars, funderVars, clientVars, historyVars
<1>2. AppsKnow'
  BY <1>0, <1>1 DEF AppsKnow, NodeReport
<1> QED BY <1>0, <1>1, <1>2, SameReports, SameClient

\* A request goes to the funder or to the index client, and tells neither anything.
LEMMA RequestKInv ==
  ASSUME KInv, NEW p \in App, Request(p)
  PROVE  FunderReports' /\ AppsKnow' /\ ClientKnows'
<1>0. IInv /\ FunderReports /\ AppsKnow /\ ClientKnows /\ apps \subseteq App
  BY DEF KInv, AppsKnow
<1>1. PICK k \in Kinds, f \in Friend :
        FromApp(p, [type |-> "request", id |-> <<p, sent[p]>>, kind |-> k, friend |-> f])
  BY DEF Request
<1> DEFINE m == [type |-> "request", id |-> <<p, sent[p]>>, kind |-> k, friend |-> f]
           to == Destination(m.kind)
<1>2. /\ aout' = <<>> \/ aout' = <<Item(to, m)>>
      /\ UNCHANGED <<report, servers, apps, fromFunder, toClient, fromClient, toApp, appState, friends,
                     online, fout, known, cout, disk, view, odd, misled>>
  BY <1>1 DEF Request, FromApp, channels, appVars, nodeVars, funderVars, clientVars, historyVars
<1>2a. aout = <<>>
  BY <1>1 DEF FromApp
<1>3. to \in {"client", "funder"} /\ m.type # "apply"
  BY DEF Destination
<1> HIDE DEF m, to
<1>4. FunderReports' /\ NodeReport' = NodeReport
  BY <1>0, <1>2, SameReports DEF NodeReport
<1>5. ASSUME NEW x PROVE For(aout', x) = <<>> \/ (x = to /\ For(aout', x) = <<m>>)
  <2>1. For(<<Item(to, m)>>, x) = FirstFor(Item(to, m), x) /\ For(<<>>, x) = <<>>
    BY EmptyQueue, ForOne, ForNone
  <2> QED BY <1>2, <2>1 DEF FirstFor, Item
<1>6. AppsKnow'
  <2>1. ASSUME NEW q \in apps, appState[q] = "open"
        PROVE  AfterAll(view[q], toApp[q] \o For(aout', q)) = NodeReport
    <3>1. For(aout', q) = <<>>
      BY <1>0, <1>3, <1>5, AppAssumption
    <3> QED BY <1>0, <1>2a, <2>1, <3>1, AppHears
  <2> QED BY <1>0, <1>2, <1>4, <2>1 DEF AppsKnow
<1>7. ClientKnows'
  <2>1. KnownStep(KnownAfter(known, toClient), m) = KnownAfter(known, toClient)
    BY <1>3 DEF KnownStep
  <2>2. KnownAfter(known, toClient \o For(aout', "client")) = KnownAfter(known, toClient)
    BY <1>0, <1>2a, <1>5, <2>1, ClientHears
  <2> QED BY <1>0, <1>2, <1>2a, <2>2, ClientHears DEF ClientKnows
<1> QED BY <1>4, <1>6, <1>7

\* An application takes a message, or closes its connection.
LEMMA AppKInv ==
  ASSUME KInv, NEW p \in App, AppTakes(p) \/ AppCloses(p)
  PROVE  FunderReports' /\ AppsKnow' /\ ClientKnows'
<1>0. /\ IInv /\ FunderReports /\ AppsKnow /\ ClientKnows /\ apps \subseteq App /\ DOMAIN appState = App
      /\ DOMAIN toApp = App /\ DOMAIN view = App /\ IsQueue(aout) /\ \A q \in App : IsQueue(toApp[q])
  BY DEF KInv, AppsKnow, IInv, Queues
<1>1. UNCHANGED <<report, servers, apps, aout, fromFunder, toClient, fromClient, friends, online, fout,
                  known, cout, disk, odd, misled>>
  BY DEF AppTakes, AppCloses, serverVars, channels, funderVars, clientVars, historyVars
<1>2. NodeReport' = NodeReport
  BY <1>1 DEF NodeReport
<1>3. \A q \in apps : appState'[q] = "open" =>
        /\ appState[q] = "open"
        /\ AfterAll(view'[q], toApp'[q] \o For(aout, q)) = AfterAll(view[q], toApp[q] \o For(aout, q))
  <2>1. CASE AppTakes(p)
    <3> DEFINE t == For(aout, p)
               s == toApp[p]
    <3>1. /\ s # <<>> /\ toApp' = [toApp EXCEPT ![p] = Tail(s)]
          /\ view' = [view EXCEPT ![p] = After(view[p], Head(s))] /\ UNCHANGED appState
          /\ IsQueue(s) /\ IsQueue(t)
      BY <1>0, <2>1, ForQueue DEF AppTakes
    <3> HIDE DEF s, t
    <3>2. /\ s \o t # <<>> /\ Head(s \o t) = Head(s) /\ Tail(s \o t) = Tail(s) \o t /\ IsQueue(s \o t)
      BY <3>1, ConcatHead, ConcatQueue
    <3>3. AfterAll(After(view[p], Head(s)), Tail(s) \o t) = AfterAll(view[p], s \o t)
      BY <3>2, AfterHead
    <3>4. view'[p] = After(view[p], Head(s)) /\ toApp'[p] = Tail(s)
      BY <1>0, <3>1
    <3>5. \A q \in App : q # p => view'[q] = view[q] /\ toApp'[q] = toApp[q]
      BY <1>0, <3>1
    <3> QED BY <1>0, <3>1, <3>3, <3>4, <3>5 DEF s, t
  <2>2. CASE AppCloses(p)
    <3>1. /\ appState' = [appState EXCEPT ![p] = "closed"]
          /\ \A q \in App : q # p => view'[q] = view[q] /\ toApp'[q] = toApp[q]
      BY <1>0, <2>2 DEF AppCloses
    <3>2. \A q \in apps : appState'[q] = "open" => q # p /\ appState[q] = "open"
      BY <1>0, <3>1
    <3> QED BY <1>0, <3>1, <3>2
  <2> QED BY <2>1, <2>2
<1>4. DOMAIN appState' = App
  BY <1>0 DEF AppTakes, AppCloses
<1>5. AppsKnow'
  BY <1>0, <1>1, <1>2, <1>3, <1>4 DEF AppsKnow
<1> QED BY <1>0, <1>1, <1>5, SameReports, SameClient

\* Every step of the node keeps the invariant.
LEMMA NextKInv == KInv /\ [Next]_vars => KInv'
<1> SUFFICES ASSUME KInv, [Next]_vars PROVE KInv'
  OBVIOUS
<1>0. IInv'
  BY NextIInv DEF KInv
<1> SUFFICES FunderReports' /\ AppsKnow' /\ ClientKnows'
  BY <1>0 DEF KInv
<1>1. CASE Control
  BY <1>1, ControlKInv
<1>2. CASE FunderSends
  BY <1>2, FunderSendsKInv
<1>3. CASE ClientTakes
  BY <1>3, ClientTakesKInv
<1>4. CASE ClientSends
  BY <1>4, ClientSendsKInv
<1>5. CASE DatabaseWrites
  BY <1>5, DatabaseWritesKInv
<1>6. CASE Crash
  BY <1>6, CrashKInv
<1>7. CASE \E type \in {"online", "offline", "message"}, f \in Friend : Comm(type, f)
  BY <1>7, CommKInv
<1>8. CASE FunderReported
  BY <1>8, FromFunderKInv
<1>8a. CASE (FromIndexClient \/ AppServerSends) /\ UNCHANGED <<nodeVars, sent>>
  BY <1>8a, FromIndexClientKInv, AppServerSendsKInv
<1>9. CASE \E p \in App : (IncomingConnection(p) \/ AppEnded(p)) /\ UNCHANGED <<nodeVars, sent>>
  BY <1>9, IncomingKInv, AppEndedKInv
<1>10. CASE \E p \in App : Request(p) \/ AppTakes(p) \/ AppCloses(p)
  BY <1>10, RequestKInv, AppKInv
<1>11. CASE UNCHANGED vars
  <2>1. UNCHANGED <<report, servers, apps, aout, fromFunder, toClient, fromClient, toApp, appState,
                    friends, online, fout, known, cout, disk, view, odd, misled>>
    BY <1>11 DEF vars, serverVars, channels, appVars, funderVars, clientVars, historyVars
  <2>2. FunderReports /\ AppsKnow /\ ClientKnows
    BY DEF KInv
  <2> QED BY <2>1, <2>2, SameReports, SameApps, SameClient
<1> QED
  BY <1>1, <1>2, <1>3, <1>4, <1>5, <1>6, <1>7, <1>8, <1>8a, <1>9, <1>10, <1>11 DEF Next

\* The inductive invariant of what the node reports.
THEOREM ReportInvariant == Spec => []KInv
BY InitKInv, NextKInv, PTL DEF Spec

\* With what is under way, every application knows what the application server
\* knows, and that is the state of the funder, whenever the application connects
\* and wherever the node was stopped (create_report_mutations against
\* create_report, broadcast_node_report_mutations).
THEOREM AppsStayAgreed == Spec => []AppsAgree
BY ReportInvariant, KInvImplies, PTL

\* With what is under way, the index client knows the capacities in the report,
\* but for a friend that came online with another capacity, or whose capacity was
\* changed and changed back in one batch, until it is told of that friend again
\* (handle_from_funder compares each mutation with the report before the batch).
THEOREM IndexStaysTold == Spec => []IndexIsTold
BY ReportInvariant, KInvImplies, PTL
=============================================================================
