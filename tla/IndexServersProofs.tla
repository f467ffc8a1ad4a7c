------------------------- MODULE IndexServersProofs -------------------------
(***************************************************************************)
(* Proofs about the index servers, for any number of servers, clients,     *)
(* ticks, sessions and updates, any loss of messages between servers, and  *)
(* connections that break and come back at any time.                       *)
(*                                                                         *)
(* Why an update that is applied is fresh: the time hash that its client   *)
(* has signed was made before the signature, and a hash is made of hashes  *)
(* that were made before it.  So every hash of the chain, and the tick of  *)
(* the server that checks it at its end, is older than the signature; the  *)
(* clock of that server only has its last TicksToLive ticks.               *)
(*                                                                         *)
(* Why updates of one session are applied in order although the ratchet of *)
(* a node ends: what was under way when the last update was applied had    *)
(* been signed by then, and is no longer fresh when the ratchet has ended. *)
(* What is signed later has a greater counter.                             *)
(***************************************************************************)
EXTENDS IndexServers, SequencesExt, TLAPS

-----------------------------------------------------------------------------
(***************************************************************************)
(* Queues are only appended to and taken from, and an invariant speaks of  *)
(* all that is in them: a queue is any sequence of its own elements.       *)
(***************************************************************************)
IsQueue(s) == s \in Seq(ToSet(s))

\* A sequence over any set is a queue, and its elements are of that set.
LEMMA QueueOfSeq ==
  ASSUME NEW S, NEW s \in Seq(S)
  PROVE  IsQueue(s) /\ ToSet(s) \subseteq S
BY DEF IsQueue, ToSet

\* The empty queue.
LEMMA EmptyQueue == IsQueue(<<>>) /\ ToSet(<<>>) = {}
BY DEF IsQueue, ToSet

\* A queue with one element.
LEMMA SingleQueue ==
  ASSUME NEW x
  PROVE  IsQueue(<<x>>) /\ ToSet(<<x>>) = {x}
BY DEF IsQueue, ToSet

\* A queue after an element has been appended.
LEMMA AppendQueue ==
  ASSUME NEW s, NEW x, IsQueue(s)
  PROVE  IsQueue(Append(s, x)) /\ ToSet(Append(s, x)) = ToSet(s) \cup {x}
<1> DEFINE T == ToSet(s) \cup {x}
<1>1. s \in Seq(T) /\ x \in T
  BY DEF IsQueue
<1>2. Append(s, x) \in Seq(T)
  BY <1>1
<1>3. ToSet(Append(s, x)) = T
  <2>1. \A i \in 1..Len(s) : i \in 1..Len(Append(s, x)) /\ Append(s, x)[i] = s[i]
    BY <1>1
  <2>2. Len(s) + 1 \in 1..Len(Append(s, x)) /\ Append(s, x)[Len(s) + 1] = x
    BY <1>1
  <2>3. T \subseteq ToSet(Append(s, x))
    BY <1>1, <1>2, <2>1, <2>2 DEF ToSet
  <2> QED
    BY <1>2, <2>3, QueueOfSeq
<1> QED
  BY <1>2, <1>3 DEF IsQueue

\* A queue that is not empty: its first element, and the rest.
LEMMA TailQueue ==
  ASSUME NEW s, IsQueue(s), s # <<>>
  PROVE  /\ IsQueue(Tail(s)) /\ ToSet(Tail(s)) \subseteq ToSet(s)
         /\ Head(s) \in ToSet(s) /\ ToSet(s) = {Head(s)} \cup ToSet(Tail(s))
<1> DEFINE T == ToSet(s)
<1>1. s \in Seq(T) /\ Len(s) \in Nat /\ Len(s) > 0 /\ DOMAIN s = 1..Len(s)
  BY DEF IsQueue
<1>2. Tail(s) \in Seq(T) /\ Len(Tail(s)) = Len(s) - 1
      /\ \A i \in 1..Len(Tail(s)) : Tail(s)[i] = s[i + 1]
  BY <1>1
<1>3. Head(s) = s[1] /\ 1 \in DOMAIN s
  BY <1>1
<1>4. ToSet(s) \subseteq {Head(s)} \cup ToSet(Tail(s))
  <2>1. \A i \in 1..Len(s) : i # 1 => i - 1 \in 1..Len(Tail(s)) /\ Tail(s)[i - 1] = s[i]
    BY <1>1, <1>2
  <2>2. DOMAIN Tail(s) = 1..Len(Tail(s))
    BY <1>2
  <2>3. \A i \in 1..Len(s) : s[i] = Head(s) \/ s[i] \in ToSet(Tail(s))
    BY <1>3, <2>1, <2>2 DEF ToSet
  <2> QED
    BY <1>1, <2>3 DEF ToSet
<1> QED
  BY <1>1, <1>2, <1>3, <1>4, QueueOfSeq DEF ToSet

-----------------------------------------------------------------------------
\* The hash h was made when the servers had made v[s] ticks.
MadeBy(h, v) == h = <<h[1], h[2]>> /\ h[1] \in Server /\ h[2] \in 1..v[h[1]]

\* All messages between servers, and all updates that a server may still handle.
Mail == UNION {UNION {ToSet(inbox[s][p]) : p \in Others(s)} : s \in Server}
Forwarded == {m \in Mail : m.type = "forward"}
Submitted == UNION {UNION {ToSet(updates[s][n]) : n \in Node} : s \in Server}
Transit == Submitted \cup {m.update : m \in Forwarded}

InboxShape(in) ==
  /\ DOMAIN in = Server /\ \A s \in Server : DOMAIN in[s] = Others(s)
  /\ \A s \in Server : \A p \in Others(s) : IsQueue(in[s][p])

UpdatesShape(up) ==
  /\ DOMAIN up = Server /\ \A s \in Server : DOMAIN up[s] = Node
  /\ \A s \in Server : \A n \in Node : IsQueue(up[s][n])

Shape ==
  /\ ticks \in [Server -> Nat]
  /\ InboxShape(inbox)
  /\ DOMAIN peer = Server /\ \A s \in Server : DOMAIN peer[s] = Others(s)
  /\ UpdatesShape(updates)
  /\ DOMAIN clock = Server
  /\ \A s \in Server : clock[s] = [last |-> clock[s].last, neighbors |-> clock[s].neighbors]
  /\ DOMAIN ratchets = Server /\ DOMAIN graph = Server
  /\ DOMAIN log = Server /\ \A s \in Server : IsQueue(log[s])
  /\ client \in [Node -> [at : Server \cup {0}, session : Nat, sent : Nat, since : Nat]]

\* Hashes are of ticks that were made, and a clock has its last ticks.
Hashes ==
  /\ \A s \in Server : LET last == clock[s].last IN
       /\ IsQueue(last) /\ Len(last) <= TicksToLive /\ Len(last) <= ticks[s]
       /\ \A i \in 1..Len(last) : last[i] = <<s, ticks[s] - Len(last) + i>>
  /\ \A s \in Server : \A p \in DOMAIN clock[s].neighbors : MadeBy(clock[s].neighbors[p], ticks)
  /\ \A m \in Mail : /\ m.type = "time" => MadeBy(m.hash, ticks)
                     /\ m.type = "closed" => m = Closed
  /\ \A h \in DOMAIN parts : MadeBy(h, ticks) /\ \A g \in parts[h] : MadeBy(g, ticks)
  /\ \A s \in Server : \A k \in 1..ticks[s] : <<s, k>> \in DOMAIN parts

\* The client has signed this counter of this session, and those before it.
SignedByNow(n, session, counter) ==
  /\ n \in Node /\ session \in Nat /\ counter \in Nat
  /\ session <= client[n].session
  /\ session = client[n].session => counter < client[n].sent

\* An update was signed with a hash made before it; what such hashes are made of
\* was made before it as well.
UpdateOk(u) ==
  /\ SignedByNow(u.node, u.session, u.counter)
  /\ u.signed \in [Server -> Nat] /\ \A s \in Server : u.signed[s] <= ticks[s]
  /\ MadeBy(u.hash, u.signed)
  /\ \A h \in DOMAIN parts : MadeBy(h, u.signed) => \A g \in parts[h] : MadeBy(g, u.signed)

ChainOk(u, chain) == IsQueue(chain) /\ \A h \in ToSet(chain) : MadeBy(h, u.signed)

UpdatesOk ==
  /\ \A u \in Transit : UpdateOk(u)
  /\ \A m \in Forwarded : ChainOk(m.update, m.chain)

LogOk ==
  \A s \in Server : \A i \in DOMAIN log[s] :
    /\ SignedByNow(log[s][i].node, log[s][i].session, log[s][i].counter)
    /\ log[s][i].late \in Int /\ log[s][i].late < TicksToLive

\* No update of another session of the node was applied after the i-th.
LastSession(s, i) ==
  \A k \in DOMAIN log[s] :
    k >= i /\ log[s][k].node = log[s][i].node => log[s][k].session = log[s][i].session

RatchetTtl(s, n) == IF n \in DOMAIN ratchets[s] THEN ratchets[s][n].ttl ELSE 0

\* The ratchet of n is that of the last update of n.
IsLastOf(s, n) ==
  /\ ratchets[s][n] = [session |-> ratchets[s][n].session, counter |-> ratchets[s][n].counter,
                       ttl |-> ratchets[s][n].ttl]
  /\ ratchets[s][n].ttl \in 1..TicksToLive
  /\ \E i \in DOMAIN log[s] :
       /\ log[s][i].node = n /\ log[s][i].session = ratchets[s][n].session
       /\ log[s][i].counter = ratchets[s][n].counter
       /\ \A k \in DOMAIN log[s] : k > i => log[s][k].node # n

\* Updates up to e that are under way are kept out by the ratchet, and will no
\* longer be fresh when it has ended.
KeptOut(s, e) ==
  /\ e.node \in DOMAIN ratchets[s] => e.counter <= ratchets[s][e.node].counter
  /\ \A u \in Transit :
       u.node = e.node /\ u.session = e.session /\ u.counter <= e.counter =>
         u.signed[s] + TicksToLive <= ticks[s] + RatchetTtl(s, e.node)

Seen ==
  /\ \A s \in Server : \A n \in DOMAIN ratchets[s] : IsLastOf(s, n)
  /\ \A s \in Server : \A i \in DOMAIN log[s] : LastSession(s, i) => KeptOut(s, log[s][i])

\* The graph has the last update of a node whose ratchet has not ended.
GraphOk ==
  \A s \in Server :
    /\ DOMAIN graph[s] \subseteq DOMAIN ratchets[s]
    /\ \A n \in DOMAIN ratchets[s] :
         LET m == Mutation(ratchets[s][n].session, ratchets[s][n].counter) IN
         HasEdge(graph[s], n, m.friend) <=> m.op = "update"

IInv == Shape /\ Hashes /\ UpdatesOk /\ LogOk /\ Seen /\ AppliedInOrder /\ GraphOk /\ NoHalfOpen

-----------------------------------------------------------------------------
(***************************************************************************)
(* Messages.                                                               *)
(***************************************************************************)
\* try_send loses the message or appends it.
LEMMA TrySendMail ==
  ASSUME NEW in, InboxShape(in), NEW s \in Server, NEW to, NEW msg
  PROVE  LET out == TrySend(in, s, to, msg) IN
         /\ InboxShape(out)
         /\ \A a \in Server : \A b \in Others(a) :
              /\ ToSet(in[a][b]) \subseteq ToSet(out[a][b])
              /\ ToSet(out[a][b]) \subseteq ToSet(in[a][b]) \cup {msg}
<1> DEFINE out == TrySend(in, s, to, msg)
<1>1. DOMAIN out = Server /\ \A a \in Server : DOMAIN out[a] = Others(a)
  BY DEF TrySend
<1>2. ASSUME NEW a \in Server, NEW b \in Others(a)
      PROVE  /\ IsQueue(out[a][b])
             /\ ToSet(in[a][b]) \subseteq ToSet(out[a][b])
             /\ ToSet(out[a][b]) \subseteq ToSet(in[a][b]) \cup {msg}
  <2>1. out[a][b] = Append(in[a][b], msg) \/ out[a][b] = in[a][b]
    BY DEF TrySend
  <2>2. IsQueue(in[a][b])
    BY DEF InboxShape
  <2> HIDE DEF out
  <2> QED BY <2>1, <2>2, AppendQueue
<1> HIDE DEF out
<1>3. InboxShape(out)
  BY <1>1, <1>2 DEF InboxShape
<1> QED BY <1>2, <1>3 DEF out

\* The first message is taken from an inbox.
LEMMA TakenMail ==
  ASSUME Shape, NEW s \in Server, NEW p \in Others(s), inbox[s][p] # <<>>
  PROVE  /\ InboxShape(Taken(s, p))
         /\ Head(inbox[s][p]) \in ToSet(inbox[s][p])
         /\ \A a \in Server : \A b \in Others(a) :
              /\ ToSet(Taken(s, p)[a][b]) \subseteq ToSet(inbox[a][b])
              /\ ToSet(inbox[a][b]) \subseteq ToSet(Taken(s, p)[a][b])
                   \cup (IF a = s /\ b = p THEN {Head(inbox[s][p])} ELSE {})
<1> DEFINE out == Taken(s, p)
<1>1. InboxShape(inbox)
  BY DEF Shape
<1>2. DOMAIN out = Server /\ \A a \in Server : DOMAIN out[a] = Others(a)
  BY <1>1 DEF Taken, InboxShape
<1>3. /\ out[s][p] = Tail(inbox[s][p])
      /\ \A a \in Server : \A b \in Others(a) : a # s \/ b # p => out[a][b] = inbox[a][b]
  BY <1>1 DEF Taken, InboxShape
<1>4. /\ IsQueue(Tail(inbox[s][p])) /\ ToSet(Tail(inbox[s][p])) \subseteq ToSet(inbox[s][p])
      /\ Head(inbox[s][p]) \in ToSet(inbox[s][p])
      /\ ToSet(inbox[s][p]) = {Head(inbox[s][p])} \cup ToSet(Tail(inbox[s][p]))
  BY <1>1, TailQueue DEF InboxShape
<1> HIDE DEF out
<1>5. InboxShape(out)
  BY <1>1, <1>2, <1>3, <1>4 DEF InboxShape
<1> QED BY <1>3, <1>4, <1>5 DEF out

\* Without news of a connection that ended, no connection is left half open.
LEMMA LinksKept ==
  ASSUME NoHalfOpen, UNCHANGED peer,
         \A a \in Server : \A b \in Others(a) :
           Closed \in ToSet(inbox'[a][b]) <=> Closed \in ToSet(inbox[a][b])
  PROVE  NoHalfOpen'
<1>1. \A a \in Server : \A b \in Others(a) : Alive(a, b)' <=> Alive(a, b)
  BY DEF Alive, Others
<1> QED BY <1>1 DEF NoHalfOpen, Unconnected

(***************************************************************************)
(* An update is handled.                                                   *)
(***************************************************************************)
\* A chain that is accepted proves that the server has not made TicksToLive ticks
\* since the signature (verify_expansion_chain).
LEMMA VerifyFresh ==
  ASSUME Shape, Hashes, NEW s \in Server, NEW u, UpdateOk(u), NEW chain, ChainOk(u, chain),
         NEW h \in Verify(clock[s], ratchets[s], parts, u, chain)
  PROVE  /\ MovesForward(ratchets[s], u.node, u.session, u.counter)
         /\ MadeBy(h, u.signed)
         /\ u.signed[s] \in Nat /\ ticks[s] \in Nat /\ ticks[s] - u.signed[s] < TicksToLive
<1> DEFINE n == Len(chain)
           last == clock[s].last
<1>1. /\ MovesForward(ratchets[s], u.node, u.session, u.counter)
      /\ h \in VerifyExpansionChain(clock[s], parts, u.hash, chain)
  BY DEF Verify
<1>2. /\ h \in ToSet(last)
      /\ h \in (IF n = 0 THEN {u.hash} ELSE parts[chain[n]])
  BY <1>1 DEF VerifyExpansionChain
<1>3. MadeBy(h, u.signed)
  <2>1. CASE n = 0
    BY <2>1, <1>2 DEF UpdateOk
  <2>2. CASE n # 0
    <3>1. n \in DOMAIN chain
      BY <2>2 DEF ChainOk, IsQueue
    <3>2. chain[n] \in ToSet(chain)
      BY <3>1 DEF ToSet
    <3>3. MadeBy(chain[n], u.signed)
      BY <3>2 DEF ChainOk
    <3>4. chain[n] \in DOMAIN parts
      <4> DEFINE c == chain[n]
      <4>1. c = <<c[1], c[2]>> /\ c[1] \in Server /\ c[2] \in 1..u.signed[c[1]]
        BY <3>3 DEF MadeBy
      <4>2. u.signed[c[1]] \in Nat /\ ticks[c[1]] \in Nat /\ u.signed[c[1]] <= ticks[c[1]]
        BY <4>1 DEF UpdateOk, Shape
      <4> HIDE DEF c
      <4>3. c[2] \in 1..ticks[c[1]]
        BY <4>1, <4>2
      <4>4. <<c[1], c[2]>> \in DOMAIN parts
        BY <4>1, <4>3 DEF Hashes
      <4> QED BY <4>1, <4>4 DEF c
    <3> QED BY <2>2, <1>2, <3>3, <3>4 DEF UpdateOk
  <2> QED BY <2>1, <2>2
<1>4. /\ IsQueue(last) /\ Len(last) <= TicksToLive /\ Len(last) <= ticks[s]
      /\ \A i \in 1..Len(last) : last[i] = <<s, ticks[s] - Len(last) + i>>
  BY DEF Hashes
<1>5. ticks[s] \in Nat /\ u.signed[s] \in Nat
  BY DEF Shape, UpdateOk
<1>6. PICK i \in 1..Len(last) : h = <<s, ticks[s] - Len(last) + i>>
  <2>1. DOMAIN last = 1..Len(last)
    BY <1>4 DEF IsQueue
  <2>2. \E i \in DOMAIN last : h = last[i]
    BY <1>2 DEF ToSet
  <2> QED BY <2>1, <2>2, <1>4
<1>7. Len(last) \in Nat
  BY <1>4 DEF IsQueue
<1>8. h[1] = s /\ h[2] = ticks[s] - Len(last) + i
  BY <1>6
<1>9. ticks[s] - Len(last) + i <= u.signed[s]
  BY <1>3, <1>8 DEF MadeBy
<1> QED
  BY <1>1, <1>3, <1>4, <1>5, <1>7, <1>9, HashClockAssumption

\* What an update does to the graph: the edge it is about is there or not, as it
\* says, and the edges of other nodes stay.
LEMMA ApplyEdge ==
  ASSUME NEW g, NEW n, NEW m
  PROVE  LET new == ApplyMutation(TickNode(g, n), n, m) IN
         /\ HasEdge(new, n, m.friend) <=> m.op = "update"
         /\ DOMAIN new \subseteq DOMAIN g \cup {n}
         /\ \A a, b : a # n => (HasEdge(new, a, b) <=> HasEdge(g, a, b))
<1> DEFINE t == TickNode(g, n)
           new == ApplyMutation(t, n, m)
<1> SUFFICES /\ HasEdge(new, n, m.friend) <=> m.op = "update"
             /\ DOMAIN new \subseteq DOMAIN g \cup {n}
             /\ \A a, b : a # n => (HasEdge(new, a, b) <=> HasEdge(g, a, b))
  OBVIOUS
<1>1. DOMAIN t = DOMAIN g /\ \A a \in DOMAIN g : a # n => t[a] = g[a]
  BY DEF TickNode, SetEdges
<1> HIDE DEF t
<1>2. CASE m.op = "update"
  <2>1. /\ DOMAIN new = DOMAIN t \cup {n}
        /\ \A a \in DOMAIN t : a # n => new[a] = t[a]
        /\ m.friend \in DOMAIN new[n]
    BY <1>2 DEF ApplyMutation, UpdateEdge, SetEdges
  <2> HIDE DEF new
  <2> QED BY <2>1, <1>1, <1>2 DEF HasEdge, Edges
<1>3. CASE m.op # "update" /\ ~HasEdge(t, n, m.friend)
  <2>1. new = t
    BY <1>3 DEF ApplyMutation, RemoveEdge
  <2> HIDE DEF new
  <2> QED BY <2>1, <1>1, <1>3 DEF HasEdge, Edges
<1>4. CASE m.op # "update" /\ HasEdge(t, n, m.friend) /\ DOMAIN t[n] = {m.friend}
  <2>1. DOMAIN new = DOMAIN t \ {n} /\ \A a \in DOMAIN t : a # n => new[a] = t[a]
    BY <1>4 DEF ApplyMutation, RemoveEdge, RemoveNode
  <2> HIDE DEF new
  <2> QED BY <2>1, <1>1, <1>4 DEF HasEdge, Edges, EmptyGraph
<1>5. CASE m.op # "update" /\ HasEdge(t, n, m.friend) /\ DOMAIN t[n] # {m.friend}
  <2>1. /\ DOMAIN new = DOMAIN t \cup {n}
        /\ \A a \in DOMAIN t : a # n => new[a] = t[a]
        /\ m.friend \notin DOMAIN new[n]
    BY <1>5 DEF ApplyMutation, RemoveEdge, SetEdges
  <2> HIDE DEF new
  <2> QED BY <2>1, <1>1, <1>5 DEF HasEdge, Edges
<1> QED
  BY <1>2, <1>3, <1>4, <1>5

\* What is under way after a step that forwards at most m.
LEMMA TransitFrom ==
  ASSUME NEW m,
         \A a \in Server : \A b \in Others(a) :
           ToSet(inbox'[a][b]) \subseteq ToSet(inbox[a][b]) \cup {m},
         \A a \in Server : \A n \in Node : ToSet(updates'[a][n]) \subseteq ToSet(updates[a][n])
  PROVE  /\ \A x \in Mail' : x \in Mail \/ x = m
         /\ \A x \in Forwarded' : x \in Forwarded \/ (x = m /\ m.type = "forward")
         /\ \A u \in Transit' : u \in Transit \/ (u = m.update /\ m.type = "forward")
<1>1. \A x \in Mail' : x \in Mail \/ x = m
  BY DEF Mail
<1>2. \A x \in Forwarded' : x \in Forwarded \/ (x = m /\ m.type = "forward")
  BY <1>1 DEF Forwarded
<1>3. \A u \in Transit' : u \in Transit \/ (u = m.update /\ m.type = "forward")
  <2> SUFFICES ASSUME NEW u \in Transit' PROVE u \in Transit \/ (u = m.update /\ m.type = "forward")
    OBVIOUS
  <2>1. CASE u \in Submitted'
    <3>1. u \in Submitted
      BY <2>1 DEF Submitted
    <3> QED BY <3>1 DEF Transit
  <2>2. CASE \E x \in Forwarded' : u = x.update
    <3>1. PICK x \in Forwarded' : u = x.update
      BY <2>2
    <3>2. CASE x \in Forwarded
      BY <3>1, <3>2 DEF Transit
    <3>3. CASE x = m /\ m.type = "forward"
      BY <3>1, <3>3
    <3> QED BY <1>2, <3>1, <3>2, <3>3
  <2> QED BY <2>1, <2>2 DEF Transit
<1> QED BY <1>1, <1>2, <1>3

\* What the application of u, an update that passed the verifier, does to the log.
LEMMA AppliedKeeps ==
  ASSUME IInv, NEW s \in Server, NEW u \in Transit,
         MovesForward(ratchets[s], u.node, u.session, u.counter),
         ticks[s] - u.signed[s] < TicksToLive,
         ratchets' = [ratchets EXCEPT ![s] = UpdateRatchet(@, u.node, u.session, u.counter)],
         log' = [log EXCEPT ![s] = Append(@, [node |-> u.node, session |-> u.session,
                    counter |-> u.counter, late |-> ticks[s] - u.signed[s]])],
         Transit' \subseteq Transit, UNCHANGED <<ticks, client>>
  PROVE  (\A t \in Server : IsQueue(log'[t])) /\ LogOk' /\ Seen' /\ AppliedInOrder'
<1> DEFINE e == [node |-> u.node, session |-> u.session,
                 counter |-> u.counter, late |-> ticks[s] - u.signed[s]]
           n == Len(log[s]) + 1
<1>1. /\ e.node = u.node /\ e.session = u.session /\ e.counter = u.counter
      /\ e.late = ticks[s] - u.signed[s]
  OBVIOUS
<1>2. log' = [log EXCEPT ![s] = Append(@, e)]
  OBVIOUS
<1> HIDE DEF e
<1>3. /\ Len(log[s]) \in Nat /\ DOMAIN log[s] = 1..Len(log[s])
      /\ DOMAIN log'[s] = 1..n /\ log'[s][n] = e /\ IsQueue(log'[s])
      /\ \A i \in DOMAIN log[s] : i \in 1..n /\ i < n /\ log'[s][i] = log[s][i]
      /\ \A i \in 1..n : i = n \/ i \in DOMAIN log[s]
      /\ \A t \in Server : t # s => log'[t] = log[t]
  <2>1. IsQueue(log[s]) /\ DOMAIN log = Server
    BY DEF IInv, Shape
  <2>2. log'[s] = Append(log[s], e) /\ \A t \in Server : t # s => log'[t] = log[t]
    BY <1>2, <2>1
  <2>3. Len(log[s]) \in Nat /\ DOMAIN log[s] = 1..Len(log[s])
    BY <2>1 DEF IsQueue
  <2>4. IsQueue(log'[s])
    BY <2>1, <2>2, AppendQueue
  <2> QED
    BY <2>1, <2>2, <2>3, <2>4 DEF IsQueue
<1>4. /\ SignedByNow(u.node, u.session, u.counter)
      /\ u.signed[s] \in Nat /\ ticks[s] \in Nat /\ u.counter \in Nat
  BY DEF IInv, UpdatesOk, UpdateOk, SignedByNow, Shape
<1>5. \A t \in Server : IsQueue(log'[t])
  BY <1>3 DEF IInv, Shape
<1>6. LogOk'
  <2> SUFFICES ASSUME NEW t \in Server, NEW i \in DOMAIN log'[t]
               PROVE  /\ SignedByNow(log'[t][i].node, log'[t][i].session, log'[t][i].counter)
                      /\ log'[t][i].late \in Int /\ log'[t][i].late < TicksToLive
    BY DEF LogOk, SignedByNow
  <2>1. CASE t = s /\ i = n
    BY <2>1, <1>1, <1>3, <1>4
  <2>2. CASE t # s \/ i # n
    BY <2>2, <1>3 DEF IInv, LogOk
  <2> QED BY <2>1, <2>2
<1>7. /\ DOMAIN ratchets'[s] = DOMAIN ratchets[s] \cup {u.node}
      /\ ratchets'[s][u.node] = [session |-> u.session, counter |-> u.counter, ttl |-> TicksToLive]
      /\ \A a \in DOMAIN ratchets[s] : a # u.node => ratchets'[s][a] = ratchets[s][a]
      /\ \A t \in Server : t # s => ratchets'[t] = ratchets[t]
  BY DEF IInv, Shape, UpdateRatchet, Ratchet, Put
\* The counter has grown since every update that is not yet followed by another session.
<1>8. ASSUME NEW i \in DOMAIN log[s], LastSession(s, i),
             log[s][i].node = u.node, log[s][i].session = u.session
      PROVE  log[s][i].counter < u.counter
  <2>1. log[s][i].counter \in Nat
    BY DEF IInv, LogOk, SignedByNow
  <2>2. CASE u.node \in DOMAIN ratchets[s]
    <3>1. log[s][i].counter <= ratchets[s][u.node].counter
      BY <1>8, <2>2 DEF IInv, Seen, KeptOut
    <3>2. PICK k \in DOMAIN log[s] :
            /\ log[s][k].node = u.node /\ log[s][k].session = ratchets[s][u.node].session
            /\ log[s][k].counter = ratchets[s][u.node].counter
            /\ \A j \in DOMAIN log[s] : j > k => log[s][j].node # u.node
      BY <2>2 DEF IInv, Seen, IsLastOf
    <3>3. k >= i
      BY <3>2, <1>3, <1>8
    <3>4. log[s][k].session = u.session
      BY <3>2, <3>3, <1>8 DEF LastSession
    <3>5. ratchets[s][u.node].counter < u.counter
      BY <2>2, <3>2, <3>4 DEF MovesForward
    <3>6. ratchets[s][u.node].counter \in Nat
      BY <3>2 DEF IInv, LogOk, SignedByNow
    <3> QED BY <2>1, <3>1, <3>5, <3>6, <1>4
  <2>3. CASE u.node \notin DOMAIN ratchets[s]
    <3> SUFFICES ASSUME u.counter <= log[s][i].counter PROVE FALSE
      BY <2>1, <1>4
    <3>1. u.signed[s] + TicksToLive <= ticks[s] + RatchetTtl(s, u.node)
      BY <1>8 DEF IInv, Seen, KeptOut
    <3>2. RatchetTtl(s, u.node) = 0
      BY <2>3 DEF RatchetTtl
    <3> QED BY <3>1, <3>2, <1>4, HashClockAssumption
  <2> QED BY <2>2, <2>3
<1>9. Seen'
  <2>1. ASSUME NEW t \in Server, NEW a \in DOMAIN ratchets'[t]
        PROVE  IsLastOf(t, a)'
    <3>1. CASE t # s
      BY <3>1, <1>3, <1>7 DEF IInv, Seen, IsLastOf
    <3>2. CASE t = s /\ a = u.node
      <4>1. n \in DOMAIN log'[s] /\ \A k \in DOMAIN log'[s] : ~(k > n)
        BY <1>3
      <4>2. IsLastOf(s, u.node)'
        BY <4>1, <1>1, <1>3, <1>7, HashClockAssumption DEF IsLastOf
      <4> QED BY <3>2, <4>2
    <3>3. CASE t = s /\ a # u.node
      <4>1. a \in DOMAIN ratchets[s] /\ ratchets'[s][a] = ratchets[s][a]
        BY <3>3, <1>7
      <4>2. PICK i \in DOMAIN log[s] :
              /\ log[s][i].node = a /\ log[s][i].session = ratchets[s][a].session
              /\ log[s][i].counter = ratchets[s][a].counter
              /\ \A k \in DOMAIN log[s] : k > i => log[s][k].node # a
        BY <4>1 DEF IInv, Seen, IsLastOf
      <4>3. /\ ratchets[s][a].ttl \in 1..TicksToLive
            /\ ratchets[s][a] = [session |-> ratchets[s][a].session, counter |-> ratchets[s][a].counter,
                                 ttl |-> ratchets[s][a].ttl]
        BY <4>1 DEF IInv, Seen, IsLastOf
      <4>4. \A k \in DOMAIN log'[s] : k > i => log'[s][k].node # a
        BY <4>2, <1>1, <1>3, <3>3
      <4>5. i \in DOMAIN log'[s] /\ log'[s][i] = log[s][i]
        BY <1>3
      <4>6. IsLastOf(s, a)'
        BY <4>1, <4>2, <4>3, <4>4, <4>5 DEF IsLastOf
      <4> QED BY <3>3, <4>6
    <3> QED BY <3>1, <3>2, <3>3
  <2>2. ASSUME NEW t \in Server, NEW i \in DOMAIN log'[t], LastSession(t, i)'
        PROVE  KeptOut(t, log[t][i])'
    <3>1. CASE t # s
      <4>1. log'[t] = log[t] /\ ratchets'[t] = ratchets[t] /\ ticks'[t] = ticks[t]
        BY <3>1, <1>3, <1>7
      <4>2. LastSession(t, i)
        BY <2>2, <4>1 DEF LastSession
      <4>3. KeptOut(t, log[t][i])
        BY <4>1, <4>2 DEF IInv, Seen
      <4> QED BY <4>1, <4>3 DEF KeptOut, RatchetTtl
    <3>2. CASE t = s /\ log'[s][i].node # u.node
      <4>1. i \in DOMAIN log[s] /\ log'[s][i] = log[s][i]
        BY <3>2, <1>1, <1>3
      <4>2. LastSession(s, i)
        BY <2>2, <3>2, <4>1, <1>3 DEF LastSession
      <4>3. KeptOut(s, log[s][i])
        BY <4>1, <4>2 DEF IInv, Seen
      <4> DEFINE a == log[s][i].node
      <4>4. a # u.node
        BY <3>2, <4>1
      <4>5. (a \in DOMAIN ratchets'[s] <=> a \in DOMAIN ratchets[s])
            /\ (a \in DOMAIN ratchets[s] => ratchets'[s][a] = ratchets[s][a])
        BY <4>4, <1>7
      <4>6. KeptOut(s, log[s][i])'
        BY <4>1, <4>3, <4>5 DEF KeptOut, RatchetTtl
      <4> QED BY <3>2, <4>6
    <3>3. CASE t = s /\ log'[s][i].node = u.node
      <4>1. /\ u.node \in DOMAIN ratchets'[s] /\ ratchets'[s][u.node].ttl = TicksToLive
            /\ ratchets'[s][u.node].counter = u.counter
        BY <1>7
      <4>2. \A v \in Transit' : v.signed[s] \in Nat /\ v.signed[s] <= ticks[s]
        BY DEF IInv, UpdatesOk, UpdateOk
      <4>3. log'[s][i].counter <= u.counter
        <5>1. CASE i = n
          BY <5>1, <1>1, <1>3, <1>4
        <5>2. CASE i # n
          <6>1. i \in DOMAIN log[s] /\ log'[s][i] = log[s][i]
            BY <3>3, <5>2, <1>3
          <6>2. LastSession(s, i)
            BY <2>2, <3>3, <6>1, <1>3 DEF LastSession
          <6>3. n \in DOMAIN log'[s] /\ n >= i
            BY <3>3, <1>3
          <6>4. log[s][i].session = u.session
            BY <2>2, <3>3, <6>1, <6>3, <1>1, <1>3 DEF LastSession
          <6>5. log[s][i].counter < u.counter
            BY <3>3, <6>1, <6>2, <6>4, <1>8
          <6>6. log[s][i].counter \in Nat
            BY <6>1 DEF IInv, LogOk, SignedByNow
          <6> QED BY <6>1, <6>5, <6>6, <1>4
        <5> QED BY <5>1, <5>2
      <4>4. \A v \in Transit' : v.signed[s] + TicksToLive <= ticks[s] + TicksToLive
        BY <4>2, <1>4, HashClockAssumption
      <4>5. KeptOut(s, log[s][i])'
        BY <3>3, <4>1, <4>3, <4>4 DEF KeptOut, RatchetTtl
      <4> QED BY <3>3, <4>5
    <3> QED BY <3>1, <3>2, <3>3
  <2> QED BY <2>1, <2>2 DEF Seen
<1>10. AppliedInOrder'
  <2> SUFFICES ASSUME NEW t \in Server, NEW i \in DOMAIN log'[t], NEW j \in DOMAIN log'[t],
                      i < j, log'[t][i].node = log'[t][j].node,
                      log'[t][i].session = log'[t][j].session
               PROVE  \/ log'[t][i].counter < log'[t][j].counter
                      \/ \E k \in i..j : /\ log'[t][k].node = log'[t][i].node
                                         /\ log'[t][k].session # log'[t][i].session
    BY DEF AppliedInOrder
  <2>1. CASE t # s
    BY <2>1, <1>3 DEF IInv, AppliedInOrder
  <2>2. CASE t = s /\ j # n
    <3>1. /\ i \in DOMAIN log[s] /\ j \in DOMAIN log[s]
          /\ \A k \in i..j : k \in DOMAIN log[s] /\ log'[s][k] = log[s][k]
      BY <2>2, <1>3
    <3>2. i \in i..j /\ j \in i..j
      BY <2>2, <1>3
    <3>3. \/ log[s][i].counter < log[s][j].counter
          \/ \E k \in i..j : /\ log[s][k].node = log[s][i].node
                             /\ log[s][k].session # log[s][i].session
      BY <2>2, <3>1, <3>2 DEF IInv, AppliedInOrder
    <3> QED BY <2>2, <3>1, <3>2, <3>3
  <2>3. CASE t = s /\ j = n
    <3>1. i \in DOMAIN log[s] /\ log'[s][i] = log[s][i] /\ log'[s][j] = e
      BY <2>3, <1>3
    <3>2. CASE LastSession(s, i)
      BY <2>3, <3>1, <3>2, <1>1, <1>8
    <3>3. CASE ~LastSession(s, i)
      <4>1. PICK k \in DOMAIN log[s] : k >= i /\ log[s][k].node = log[s][i].node
                                        /\ log[s][k].session # log[s][i].session
        BY <3>3 DEF LastSession
      <4>2. k \in i..j /\ log'[s][k] = log[s][k]
        BY <4>1, <2>3, <3>1, <1>3
      <4> QED BY <2>3, <3>1, <4>1, <4>2
    <3> QED BY <3>2, <3>3
  <2> QED BY <2>1, <2>2, <2>3
<1> QED BY <1>5, <1>6, <1>9, <1>10

\* What follows from the log and the ratchets stays while they do, and nothing
\* new is under way.
LEMMA HistoryKept ==
  ASSUME IInv, \A u \in Transit' : u \in Transit,
         UNCHANGED <<ticks, ratchets, log, graph>>,
         \A n \in Node : client'[n].session = client[n].session /\ client'[n].sent = client[n].sent
  PROVE  LogOk' /\ Seen' /\ AppliedInOrder' /\ GraphOk'
<1>1. LogOk'
  BY DEF IInv, LogOk, SignedByNow
<1>2. Seen'
  BY DEF IInv, Seen, IsLastOf, KeptOut, LastSession, RatchetTtl
<1>3. AppliedInOrder' /\ GraphOk'
  BY DEF IInv, AppliedInOrder, GraphOk
<1> QED BY <1>1, <1>2, <1>3

\* Updates under way stay as good as they were.
LEMMA UpdatesKept ==
  ASSUME UpdatesOk, \A u \in Transit' : u \in Transit,
         \A m \in Forwarded' : m \in Forwarded \/ ChainOk(m.update, m.chain),
         UNCHANGED <<ticks, parts>>,
         \A n \in Node : client'[n].session = client[n].session /\ client'[n].sent = client[n].sent
  PROVE  UpdatesOk'
<1>1. \A u \in Transit' : UpdateOk(u)'
  BY DEF UpdatesOk, UpdateOk, SignedByNow
<1> QED BY <1>1 DEF UpdatesOk, ChainOk

\* handle_forward_mutations_update, for an update of a client or of a neighbor.
LEMMA HandleUpdateKeeps ==
  ASSUME IInv, NEW s \in Server, NEW from, NEW u \in Transit, NEW chain, ChainOk(u, chain),
         NEW in, InboxShape(in),
         \A a \in Server : \A b \in Others(a) :
           /\ ToSet(in[a][b]) \subseteq ToSet(inbox[a][b])
           /\ Closed \in ToSet(inbox[a][b]) => Closed \in ToSet(in[a][b]),
         HandleUpdate(s, from, u, chain, in),
         UpdatesShape(updates'),
         \A a \in Server : \A n \in Node : ToSet(updates'[a][n]) \subseteq ToSet(updates[a][n]),
         UNCHANGED <<peer, clock, ticks, parts, client>>
  PROVE  IInv'
<1> DEFINE found == Verify(clock[s], ratchets[s], parts, u, chain)
<1>1. CASE found = {}
  <2>1. inbox' = in /\ UNCHANGED <<ratchets, graph, log>>
    BY <1>1 DEF HandleUpdate
  <2>2. \A a \in Server : \A b \in Others(a) :
          /\ ToSet(inbox'[a][b]) \subseteq ToSet(inbox[a][b]) \cup {Closed}
          /\ Closed \in ToSet(inbox'[a][b]) <=> Closed \in ToSet(inbox[a][b])
    BY <2>1
  <2>3. Closed.type = "closed"
    BY DEF Closed
  <2>4. /\ \A m \in Mail' : m \in Mail \/ m = Closed
        /\ \A m \in Forwarded' : m \in Forwarded
        /\ \A v \in Transit' : v \in Transit
    BY <2>2, <2>3, TransitFrom
  <2>5. Shape'
    BY <2>1 DEF IInv, Shape
  <2>6. Hashes'
    BY <2>1, <2>3, <2>4 DEF IInv, Hashes
  <2>7. UpdatesOk'
    BY <2>4, UpdatesKept DEF IInv
  <2>8. LogOk' /\ Seen' /\ AppliedInOrder' /\ GraphOk'
    BY <2>1, <2>4, HistoryKept
  <2>9. NoHalfOpen'
    BY <2>2, LinksKept DEF IInv
  <2> QED BY <2>5, <2>6, <2>7, <2>8, <2>9 DEF IInv
<1>2. CASE found # {}
  <2>1. PICK h \in found :
          inbox' = TrySend(in, s, Others(s) \ {from}, Forward(u, Append(chain, h)))
    BY <1>2 DEF HandleUpdate
  <2>2. /\ ratchets' = [ratchets EXCEPT ![s] = UpdateRatchet(@, u.node, u.session, u.counter)]
        /\ graph' = [graph EXCEPT ![s] =
                       ApplyMutation(TickNode(@, u.node), u.node, Mutation(u.session, u.counter))]
        /\ log' = [log EXCEPT ![s] = Append(@, [node |-> u.node, session |-> u.session,
                     counter |-> u.counter, late |-> ticks[s] - u.signed[s]])]
    BY <1>2 DEF HandleUpdate
  <2>3. UpdateOk(u)
    BY DEF IInv, UpdatesOk
  <2>4. /\ MovesForward(ratchets[s], u.node, u.session, u.counter)
        /\ MadeBy(h, u.signed) /\ ticks[s] - u.signed[s] < TicksToLive
    BY <2>3, VerifyFresh DEF IInv
  <2> DEFINE msg == Forward(u, Append(chain, h))
  <2>5. msg.type = "forward" /\ msg.update = u /\ msg.chain = Append(chain, h) /\ msg # Closed
    BY DEF Forward, Closed
  <2>6. inbox' = TrySend(in, s, Others(s) \ {from}, msg)
    BY <2>1
  <2> HIDE DEF msg
  <2>7. /\ InboxShape(inbox')
        /\ \A a \in Server : \A b \in Others(a) :
             /\ ToSet(in[a][b]) \subseteq ToSet(inbox'[a][b])
             /\ ToSet(inbox'[a][b]) \subseteq ToSet(in[a][b]) \cup {msg}
    BY <2>6, TrySendMail
  <2>8. \A a \in Server : \A b \in Others(a) :
          /\ ToSet(inbox'[a][b]) \subseteq ToSet(inbox[a][b]) \cup {msg}
          /\ Closed \in ToSet(inbox'[a][b]) <=> Closed \in ToSet(inbox[a][b])
    BY <2>5, <2>7
  <2>9. /\ \A m \in Mail' : m \in Mail \/ m = msg
        /\ \A m \in Forwarded' : m \in Forwarded \/ m = msg
        /\ \A v \in Transit' : v \in Transit
    BY <2>5, <2>8, TransitFrom
  <2>10. (\A t \in Server : IsQueue(log'[t])) /\ LogOk' /\ Seen' /\ AppliedInOrder'
    <3>1. Transit' \subseteq Transit
      BY <2>9
    <3> QED BY <2>2, <2>4, <3>1, AppliedKeeps
  <2>11. Shape'
    BY <2>2, <2>7, <2>10 DEF IInv, Shape
  <2>12. Hashes'
    BY <2>5, <2>9 DEF IInv, Hashes
  <2>13. UpdatesOk'
    <3>1. ChainOk(u, Append(chain, h))
      BY <2>4, AppendQueue DEF ChainOk
    <3> QED BY <2>5, <2>9, <3>1, UpdatesKept DEF IInv
  <2>14. GraphOk'
    <3> DEFINE m == Mutation(u.session, u.counter)
               new == ApplyMutation(TickNode(graph[s], u.node), u.node, m)
    <3>1. /\ HasEdge(new, u.node, m.friend) <=> m.op = "update"
          /\ DOMAIN new \subseteq DOMAIN graph[s] \cup {u.node}
          /\ \A a, b : a # u.node => (HasEdge(new, a, b) <=> HasEdge(graph[s], a, b))
      BY ApplyEdge
    <3>2. graph'[s] = new /\ \A t \in Server : t # s => graph'[t] = graph[t]
      BY <2>2 DEF IInv, Shape
    <3>3. /\ DOMAIN ratchets'[s] = DOMAIN ratchets[s] \cup {u.node}
          /\ ratchets'[s][u.node].session = u.session /\ ratchets'[s][u.node].counter = u.counter
          /\ \A a \in DOMAIN ratchets[s] : a # u.node => ratchets'[s][a] = ratchets[s][a]
          /\ \A t \in Server : t # s => ratchets'[t] = ratchets[t]
      BY <2>2 DEF IInv, Shape, UpdateRatchet, Ratchet, Put
    <3> HIDE DEF new
    <3> SUFFICES ASSUME NEW t \in Server
                 PROVE  /\ DOMAIN graph'[t] \subseteq DOMAIN ratchets'[t]
                        /\ \A n \in DOMAIN ratchets'[t] :
                             LET x == Mutation(ratchets'[t][n].session, ratchets'[t][n].counter) IN
                             HasEdge(graph'[t], n, x.friend) <=> x.op = "update"
      BY DEF GraphOk
    <3>4. CASE t # s
      BY <3>2, <3>3, <3>4 DEF IInv, GraphOk
    <3>5. CASE t = s
      <4>1. DOMAIN graph'[s] \subseteq DOMAIN ratchets'[s]
        BY <3>1, <3>2, <3>3 DEF IInv, GraphOk
      <4>2. ASSUME NEW n \in DOMAIN ratchets'[s]
            PROVE  LET x == Mutation(ratchets'[s][n].session, ratchets'[s][n].counter) IN
                   HasEdge(graph'[s], n, x.friend) <=> x.op = "update"
        <5>1. CASE n = u.node
          BY <5>1, <3>1, <3>2, <3>3
        <5>2. CASE n # u.node
          BY <5>2, <3>1, <3>2, <3>3 DEF IInv, GraphOk
        <5> QED BY <5>1, <5>2
      <4> QED BY <3>5, <4>1, <4>2
    <3> QED BY <3>4, <3>5
  <2>15. NoHalfOpen'
    BY <2>8, LinksKept DEF IInv
  <2> QED BY <2>10, <2>11, <2>12, <2>13, <2>14, <2>15 DEF IInv
<1> QED BY <1>1, <1>2

\* An update of a client of this server.
LEMMA ClientMutationsUpdateIInv ==
  ASSUME IInv, NEW s \in Server, NEW n \in Node, ClientMutationsUpdate(s, n)
  PROVE  IInv'
<1> DEFINE u == Head(updates[s][n])
<1>1. UpdatesShape(updates) /\ InboxShape(inbox)
  BY DEF IInv, Shape
<1>2. /\ updates[s][n] # <<>> /\ updates' = [updates EXCEPT ![s][n] = Tail(@)]
      /\ HandleUpdate(s, 0, u, <<>>, inbox)
      /\ UNCHANGED <<peer, clock, ticks, parts, client>>
  BY DEF ClientMutationsUpdate, HandledNext
<1>3. /\ IsQueue(Tail(updates[s][n])) /\ ToSet(Tail(updates[s][n])) \subseteq ToSet(updates[s][n])
      /\ u \in ToSet(updates[s][n])
  BY <1>1, <1>2, TailQueue DEF UpdatesShape
<1>4. /\ updates'[s][n] = Tail(updates[s][n])
      /\ \A a \in Server : \A b \in Node : a # s \/ b # n => updates'[a][b] = updates[a][b]
      /\ DOMAIN updates' = Server /\ \A a \in Server : DOMAIN updates'[a] = Node
  BY <1>1, <1>2 DEF UpdatesShape
<1>5. UpdatesShape(updates')
      /\ \A a \in Server : \A b \in Node : ToSet(updates'[a][b]) \subseteq ToSet(updates[a][b])
  BY <1>1, <1>3, <1>4 DEF UpdatesShape
<1>6. u \in Transit
  BY <1>3 DEF Transit, Submitted
<1>7. ChainOk(u, <<>>)
  BY EmptyQueue DEF ChainOk
<1> HIDE DEF u
<1> QED BY <1>1, <1>2, <1>5, <1>6, <1>7, HandleUpdateKeeps

\* A message of a neighbor.
LEMMA FromServerIInv ==
  ASSUME IInv, NEW s \in Server, NEW p \in Others(s), FromServer(s, p)
  PROVE  IInv'
<1> DEFINE m == Head(inbox[s][p])
           in == Taken(s, p)
<1>1. inbox[s][p] # <<>> /\ UNCHANGED <<clientVars, ticks, parts, breaks>>
  BY DEF FromServer
<1>2. /\ InboxShape(in) /\ m \in ToSet(inbox[s][p])
      /\ \A a \in Server : \A b \in Others(a) :
           /\ ToSet(in[a][b]) \subseteq ToSet(inbox[a][b])
           /\ ToSet(inbox[a][b]) \subseteq ToSet(in[a][b]) \cup (IF a = s /\ b = p THEN {m} ELSE {})
  BY <1>1, TakenMail DEF IInv
<1> HIDE DEF in
<1>3. m \in Mail
  BY <1>2 DEF Mail
<1>4. UNCHANGED <<updates, client>> /\ UpdatesShape(updates)
  BY <1>1 DEF clientVars, IInv, Shape
<1>5. ASSUME m.type = "forward", HandleUpdate(s, p, m.update, m.chain, in), UNCHANGED <<peer, clock>>
      PROVE  IInv'
  <2>1. m \in Forwarded
    BY <1>3, <1>5 DEF Forwarded
  <2>2. m.update \in Transit /\ ChainOk(m.update, m.chain)
    BY <2>1 DEF Transit, IInv, UpdatesOk
  <2>3. m # Closed
    BY <1>5 DEF Closed
  <2>4. \A a \in Server : \A b \in Others(a) :
          /\ ToSet(in[a][b]) \subseteq ToSet(inbox[a][b])
          /\ Closed \in ToSet(inbox[a][b]) => Closed \in ToSet(in[a][b])
    BY <1>2, <2>3
  <2> HIDE DEF m
  <2> QED BY <1>1, <1>2, <1>4, <1>5, <2>2, <2>4, HandleUpdateKeeps
<1>6. ASSUME m.type \in {"time", "closed"}, inbox' = in, UNCHANGED <<ratchets, graph, log>>,
             DOMAIN clock' = Server, \A t \in Server : clock'[t].last = clock[t].last,
             \A t \in Server : clock'[t] = [last |-> clock'[t].last, neighbors |-> clock'[t].neighbors],
             \A t \in Server : \A q \in DOMAIN clock'[t].neighbors :
               \/ q \in DOMAIN clock[t].neighbors /\ clock'[t].neighbors[q] = clock[t].neighbors[q]
               \/ MadeBy(clock'[t].neighbors[q], ticks),
             DOMAIN peer' = Server, \A t \in Server : DOMAIN peer'[t] = Others(t), NoHalfOpen'
      PROVE  IInv'
  <2>1. \A a \in Server : \A b \in Others(a) : ToSet(inbox'[a][b]) \subseteq ToSet(inbox[a][b]) \cup {Closed}
    BY <1>2, <1>6
  <2>2. Closed.type = "closed"
    BY DEF Closed
  <2>3. /\ \A x \in Mail' : x \in Mail \/ x = Closed
        /\ \A x \in Forwarded' : x \in Forwarded
        /\ \A v \in Transit' : v \in Transit
    BY <2>1, <2>2, <1>4, TransitFrom
  <2>4. Shape'
    BY <1>1, <1>2, <1>4, <1>6 DEF IInv, Shape
  <2>5. Hashes'
    BY <1>1, <1>6, <2>2, <2>3 DEF IInv, Hashes
  <2>6. UpdatesOk'
    BY <1>1, <1>4, <2>3, UpdatesKept DEF IInv
  <2>7. LogOk' /\ Seen' /\ AppliedInOrder' /\ GraphOk'
    BY <1>1, <1>4, <1>6, <2>3, HistoryKept
  <2> QED BY <2>4, <2>5, <2>6, <2>7, <1>6 DEF IInv
<1>7. ASSUME m.type = "time", clock' = [clock EXCEPT ![s] = NeighborTick(@, p, m.hash)],
             inbox' = in, UNCHANGED <<peer, ratchets, graph, log>>
      PROVE  IInv'
  <2>1. MadeBy(m.hash, ticks)
    BY <1>3, <1>7 DEF IInv, Hashes
  <2>2. /\ DOMAIN clock' = Server /\ \A t \in Server : t # s => clock'[t] = clock[t]
        /\ clock'[s] = [last |-> clock[s].last, neighbors |-> Put(clock[s].neighbors, p, m.hash)]
        /\ clock'[s].last = clock[s].last /\ clock'[s].neighbors = Put(clock[s].neighbors, p, m.hash)
    BY <1>7 DEF IInv, Shape, NeighborTick
  <2>3. \A q \in DOMAIN clock'[s].neighbors :
               \/ q \in DOMAIN clock[s].neighbors /\ clock'[s].neighbors[q] = clock[s].neighbors[q]
               \/ MadeBy(clock'[s].neighbors[q], ticks)
    BY <2>1, <2>2 DEF Put
  <2>4. NoHalfOpen'
    <3>1. m # Closed
      BY <1>7 DEF Closed
    <3>2. \A a \in Server : \A b \in Others(a) :
            Closed \in ToSet(inbox'[a][b]) <=> Closed \in ToSet(inbox[a][b])
      BY <1>2, <1>7, <3>1
    <3> QED BY <1>7, <3>2, LinksKept DEF IInv
  <2>5. DOMAIN peer' = Server /\ \A t \in Server : DOMAIN peer'[t] = Others(t)
    BY <1>7 DEF IInv, Shape
  <2>6. /\ \A t \in Server : clock'[t].last = clock[t].last
        /\ \A t \in Server : \A q \in DOMAIN clock'[t].neighbors :
               \/ q \in DOMAIN clock[t].neighbors /\ clock'[t].neighbors[q] = clock[t].neighbors[q]
               \/ MadeBy(clock'[t].neighbors[q], ticks)
    BY <2>2, <2>3
  <2>7. \A t \in Server : clock'[t] = [last |-> clock'[t].last, neighbors |-> clock'[t].neighbors]
    BY <2>2 DEF IInv, Shape
  <2> QED BY <1>7, <2>2, <2>4, <2>5, <2>6, <2>7, <1>6
<1>8. ASSUME m.type = "closed", clock' = [clock EXCEPT ![s] = RemoveNeighbor(@, p)],
             peer' = [peer EXCEPT ![s][p] = AfterClosed(s, p)],
             inbox' = in, UNCHANGED <<ratchets, graph, log>>
      PROVE  IInv'
  <2>1. /\ DOMAIN clock' = Server /\ \A t \in Server : t # s => clock'[t] = clock[t]
        /\ clock'[s] = [last |-> clock[s].last, neighbors |-> Drop(clock[s].neighbors, {p})]
        /\ clock'[s].last = clock[s].last /\ clock'[s].neighbors = Drop(clock[s].neighbors, {p})
    BY <1>8 DEF IInv, Shape, RemoveNeighbor
  <2>2. /\ \A t \in Server : clock'[t].last = clock[t].last
        /\ \A t \in Server : \A q \in DOMAIN clock'[t].neighbors :
              q \in DOMAIN clock[t].neighbors /\ clock'[t].neighbors[q] = clock[t].neighbors[q]
    BY <2>1 DEF Drop
  <2>3. /\ DOMAIN peer' = Server /\ \A t \in Server : DOMAIN peer'[t] = Others(t)
        /\ peer'[s][p] = Unconnected(s, p)
        /\ \A a \in Server : \A b \in Others(a) : a # s \/ b # p => peer'[a][b] = peer[a][b]
    BY <1>8 DEF IInv, Shape, AfterClosed
  <2>4. NoHalfOpen'
    <3>1. Closed \in ToSet(inbox[s][p])
      BY <1>2, <1>3, <1>8 DEF IInv, Hashes
    <3>2. /\ s # p /\ p \in Server /\ s \in Others(p)
          /\ \A a \in Server : \A b \in Others(a) : b \in Server /\ a \in Others(b) /\ a # b
      BY DEF Others
    <3>3. \A a \in Server : \A b \in Others(a) :
            a # s \/ b # p => (Closed \in ToSet(inbox'[a][b]) <=> Closed \in ToSet(inbox[a][b]))
      BY <1>2, <1>8
    <3>4. ~Alive(s, p) /\ ~Alive(p, s)
      BY <3>1 DEF Alive
    <3>5. \A a \in Server : \A b \in Others(a) :
            {a, b} # {s, p} => (Alive(a, b)' <=> Alive(a, b))
      BY <2>3, <3>2, <3>3 DEF Alive
    <3> SUFFICES ASSUME NEW a \in Server, NEW b \in Others(a)
                 PROVE  \/ Alive(a, b)'
                        \/ peer'[a][b] = "connected" /\ Closed \in ToSet(inbox'[a][b])
                        \/ peer'[a][b] = Unconnected(a, b)
      BY DEF NoHalfOpen, Unconnected
    <3>6. CASE a = s /\ b = p
      BY <2>3, <3>6
    <3>7. CASE a = p /\ b = s
      BY <2>3, <3>2, <3>3, <3>4, <3>7 DEF IInv, NoHalfOpen
    <3>8. CASE {a, b} # {s, p}
      <4>1. a # s \/ b # p
        BY <3>8
      <4>2. /\ peer'[a][b] = peer[a][b]
            /\ Closed \in ToSet(inbox'[a][b]) <=> Closed \in ToSet(inbox[a][b])
        BY <2>3, <3>3, <4>1
      <4>3. Alive(a, b)' <=> Alive(a, b)
        BY <3>5, <3>8
      <4> QED BY <4>2, <4>3 DEF IInv, NoHalfOpen
    <3> QED BY <3>2, <3>6, <3>7, <3>8
  <2>5. \A t \in Server : clock'[t] = [last |-> clock'[t].last, neighbors |-> clock'[t].neighbors]
    BY <2>1 DEF IInv, Shape
  <2> QED BY <1>8, <2>1, <2>2, <2>3, <2>4, <2>5, <1>6
<1> QED
  BY <1>5, <1>7, <1>8 DEF FromServer, in

\* A tick of a server: a new hash, made of hashes that were made before.
LEMMA TimerTickIInv ==
  ASSUME IInv, NEW s \in Server, TimerTick(s)
  PROVE  IInv'
<1> DEFINE hash == <<s, ticks[s] + 1>>
           msg == TimeHash(hash)
<1>1. /\ ticks' = [ticks EXCEPT ![s] = @ + 1]
      /\ parts' = Put(parts, hash, NextParts(clock[s]))
      /\ clock' = [clock EXCEPT ![s] = InsertTickHash(@, hash)]
      /\ inbox' = TrySend(inbox, s, Others(s), msg)
      /\ ratchets' = [ratchets EXCEPT ![s] = TickRatchets(@)]
      /\ graph' = [graph EXCEPT ![s] = Drop(@, RemovedNodes(s))]
      /\ UNCHANGED <<peer, updates, client, log>>
  BY DEF TimerTick, clientVars
<1>2. /\ ticks \in [Server -> Nat] /\ ticks' \in [Server -> Nat] /\ ticks'[s] = ticks[s] + 1
      /\ \A t \in Server : ticks[t] \in Nat /\ ticks[t] <= ticks'[t] /\ (t # s => ticks'[t] = ticks[t])
  BY <1>1 DEF IInv, Shape
<1>3. MadeBy(hash, ticks')
  BY <1>2 DEF MadeBy
<1>4. \A h : MadeBy(h, ticks) => MadeBy(h, ticks')
  BY <1>2 DEF MadeBy
<1>5. msg.type = "time" /\ msg.hash = hash /\ msg # Closed
  BY DEF TimeHash, Closed
<1> HIDE DEF msg, hash
<1>6. /\ InboxShape(inbox')
      /\ \A a \in Server : \A b \in Others(a) :
           /\ ToSet(inbox[a][b]) \subseteq ToSet(inbox'[a][b])
           /\ ToSet(inbox'[a][b]) \subseteq ToSet(inbox[a][b]) \cup {msg}
  BY <1>1, TrySendMail DEF IInv, Shape
<1>7. /\ \A x \in Mail' : x \in Mail \/ x = msg
      /\ \A x \in Forwarded' : x \in Forwarded
      /\ \A v \in Transit' : v \in Transit
  BY <1>1, <1>5, <1>6, TransitFrom
<1>8. /\ DOMAIN clock' = Server /\ \A t \in Server : t # s => clock'[t] = clock[t]
      /\ clock'[s].neighbors = clock[s].neighbors
      /\ clock'[s] = [last |-> clock'[s].last, neighbors |-> clock'[s].neighbors]
      /\ clock'[s].last = IF Len(clock[s].last) + 1 > TicksToLive
                          THEN Append(Tail(clock[s].last), hash) ELSE Append(clock[s].last, hash)
  <2>1. clock[s] = [last |-> clock[s].last, neighbors |-> clock[s].neighbors]
    BY DEF IInv, Shape
  <2>2. /\ DOMAIN clock' = Server /\ \A t \in Server : t # s => clock'[t] = clock[t]
        /\ clock'[s] = InsertTickHash(clock[s], hash)
    BY <1>1 DEF IInv, Shape
  <2> QED BY <2>1, <2>2 DEF InsertTickHash
<1>9. Shape'
  BY <1>1, <1>2, <1>6, <1>8 DEF IInv, Shape
<1>10. /\ DOMAIN parts' = DOMAIN parts \cup {hash} /\ hash \notin DOMAIN parts
       /\ parts'[hash] = NextParts(clock[s])
       /\ \A h \in DOMAIN parts : parts'[h] = parts[h]
  <2>1. hash \notin DOMAIN parts
    <3>1. ~MadeBy(hash, ticks)
      BY <1>2 DEF MadeBy, hash
    <3> QED BY <3>1 DEF IInv, Hashes
  <2> QED BY <1>1, <2>1 DEF Put
<1>11. Hashes'
  <2>1. LET last == clock'[s].last IN
          /\ IsQueue(last) /\ Len(last) <= TicksToLive /\ Len(last) <= ticks'[s]
          /\ \A i \in 1..Len(last) : last[i] = <<s, ticks'[s] - Len(last) + i>>
    <3> DEFINE old == clock[s].last
               new == clock'[s].last
    <3>1. /\ IsQueue(old) /\ Len(old) \in Nat /\ Len(old) <= TicksToLive /\ Len(old) <= ticks[s]
          /\ \A i \in 1..Len(old) : old[i] = <<s, ticks[s] - Len(old) + i>>
      BY DEF IInv, Hashes, IsQueue
    <3>2. CASE Len(old) + 1 > TicksToLive
      <4>1. Len(old) = TicksToLive /\ old # <<>>
        BY <3>1, <3>2, HashClockAssumption DEF IsQueue
      <4>2. IsQueue(Tail(old)) /\ Len(Tail(old)) = Len(old) - 1
            /\ \A i \in 1..(Len(old) - 1) : Tail(old)[i] = old[i + 1]
        <5>1. IsQueue(Tail(old))
          BY <3>1, <4>1, TailQueue
        <5>2. old \in Seq(ToSet(old))
          BY <3>1 DEF IsQueue
        <5> HIDE DEF old
        <5> QED BY <4>1, <5>1, <5>2
      <4>3. new = Append(Tail(old), hash)
        BY <1>8, <3>2
      <4>4. IsQueue(new)
        BY <4>2, <4>3, AppendQueue
      <4>5. Len(new) = Len(old)
        BY <4>2, <4>3, <3>1 DEF IsQueue
      <4>6. /\ \A i \in 1..(Len(old) - 1) : new[i] = old[i + 1]
            /\ new[Len(old)] = hash
        BY <4>2, <4>3, <3>1, <4>1 DEF IsQueue
      <4>7. \A i \in 1..(Len(old) - 1) : new[i] = <<s, ticks'[s] - Len(new) + i>>
        <5> HIDE DEF new, old
        <5>1. \A i \in 1..(Len(old) - 1) : i + 1 \in 1..Len(old)
                /\ ticks[s] - Len(old) + (i + 1) = ticks'[s] - Len(new) + i
          <6>1. Len(old) \in Nat /\ Len(new) = Len(old) /\ ticks[s] \in Nat /\ ticks'[s] = ticks[s] + 1
            BY <4>5, <3>1, <1>2
          <6>2. \A t, l \in Nat : \A i \in 1..(l - 1) :
                  i + 1 \in 1..l /\ t - l + (i + 1) = (t + 1) - l + i
            OBVIOUS
          <6> QED BY <6>1, <6>2
        <5>2. \A i \in 1..(Len(old) - 1) : old[i + 1] = <<s, ticks[s] - Len(old) + (i + 1)>>
          BY <5>1, <3>1
        <5> QED BY <4>6, <5>1, <5>2
      <4>8. new[Len(new)] = <<s, ticks'[s] - Len(new) + Len(new)>>
        BY <4>5, <4>6, <3>1, <1>2 DEF hash
      <4> HIDE DEF new, old
      <4>9. \A i \in 1..Len(new) : new[i] = <<s, ticks'[s] - Len(new) + i>>
        BY <4>5, <4>7, <4>8, <3>1
      <4>10. Len(new) <= TicksToLive /\ Len(new) <= ticks'[s]
        BY <4>5, <3>1, <1>2, HashClockAssumption
      <4> QED BY <4>4, <4>9, <4>10 DEF new
    <3>3. CASE ~(Len(old) + 1 > TicksToLive)
      <4>1. new = Append(old, hash)
        BY <1>8, <3>3
      <4>2. IsQueue(new)
        BY <4>1, <3>1, AppendQueue
      <4>3. /\ Len(new) = Len(old) + 1 /\ new[Len(old) + 1] = hash
            /\ \A i \in 1..Len(old) : new[i] = old[i]
        BY <4>1, <3>1 DEF IsQueue
      <4>4. \A i \in 1..Len(old) : new[i] = <<s, ticks'[s] - Len(new) + i>>
        <5> HIDE DEF new, old
        <5>1. \A i \in 1..Len(old) : ticks[s] - Len(old) + i = ticks'[s] - Len(new) + i
          BY <4>3, <3>1, <1>2
        <5> QED BY <4>3, <3>1, <5>1
      <4>5. new[Len(new)] = <<s, ticks'[s] - Len(new) + Len(new)>>
        BY <4>3, <3>1, <1>2 DEF hash
      <4> HIDE DEF new, old
      <4>6. \A i \in 1..Len(new) : new[i] = <<s, ticks'[s] - Len(new) + i>>
        BY <4>3, <4>4, <4>5, <3>1
      <4>7. Len(new) <= TicksToLive /\ Len(new) <= ticks'[s]
        BY <4>3, <3>1, <3>3, <1>2, HashClockAssumption
      <4> QED BY <4>2, <4>6, <4>7 DEF new
    <3> QED BY <3>2, <3>3
  <2>2. \A t \in Server : LET last == clock'[t].last IN
          /\ IsQueue(last) /\ Len(last) <= TicksToLive /\ Len(last) <= ticks'[t]
          /\ \A i \in 1..Len(last) : last[i] = <<t, ticks'[t] - Len(last) + i>>
    <3> SUFFICES ASSUME NEW t \in Server
                 PROVE  LET last == clock'[t].last IN
                   /\ IsQueue(last) /\ Len(last) <= TicksToLive /\ Len(last) <= ticks'[t]
                   /\ \A i \in 1..Len(last) : last[i] = <<t, ticks'[t] - Len(last) + i>>
      OBVIOUS
    <3>1. CASE t = s
      BY <3>1, <2>1
    <3>2. CASE t # s
      <4>1. clock'[t] = clock[t] /\ ticks'[t] = ticks[t]
        BY <3>2, <1>2, <1>8
      <4> QED BY <4>1 DEF IInv, Hashes
    <3> QED BY <3>1, <3>2
  <2>3. \A t \in Server : \A p \in DOMAIN clock'[t].neighbors : MadeBy(clock'[t].neighbors[p], ticks')
    BY <1>4, <1>8 DEF IInv, Hashes
  <2>4. \A m \in Mail' : /\ m.type = "time" => MadeBy(m.hash, ticks')
                         /\ m.type = "closed" => m = Closed
    BY <1>3, <1>4, <1>5, <1>7 DEF IInv, Hashes
  <2>5. \A h \in DOMAIN parts' : MadeBy(h, ticks') /\ \A g \in parts'[h] : MadeBy(g, ticks')
    <3>1. \A g \in NextParts(clock[s]) : MadeBy(g, ticks)
      BY DEF NextParts, IInv, Hashes
    <3> QED BY <1>3, <1>4, <1>10, <3>1 DEF IInv, Hashes
  <2>6. \A t \in Server : \A k \in 1..ticks'[t] : <<t, k>> \in DOMAIN parts'
    <3> SUFFICES ASSUME NEW t \in Server, NEW k \in 1..ticks'[t] PROVE <<t, k>> \in DOMAIN parts'
      OBVIOUS
    <3>1. CASE k \in 1..ticks[t]
      BY <3>1, <1>10 DEF IInv, Hashes
    <3>2. CASE k \notin 1..ticks[t]
      <4>1. t = s /\ k = ticks[s] + 1
        BY <3>2, <1>2
      <4> QED BY <4>1, <1>10 DEF hash
    <3> QED BY <3>1, <3>2
  <2> QED BY <2>2, <2>3, <2>4, <2>5, <2>6 DEF Hashes
<1>12. UpdatesOk'
  <2>1. ASSUME NEW u \in Transit' PROVE UpdateOk(u)'
    <3>1. u \in Transit /\ UpdateOk(u)
      BY <1>7 DEF IInv, UpdatesOk
    <3>2. u.signed \in [Server -> Nat] /\ \A t \in Server : u.signed[t] <= ticks'[t]
      BY <3>1, <1>2 DEF UpdateOk
    <3>3. ~MadeBy(hash, u.signed)
      <4>1. u.signed[s] \in Nat /\ u.signed[s] <= ticks[s]
        BY <3>1 DEF UpdateOk
      <4> QED BY <4>1, <1>2 DEF MadeBy, hash
    <3>4. \A h \in DOMAIN parts' : MadeBy(h, u.signed) => \A g \in parts'[h] : MadeBy(g, u.signed)
      BY <3>1, <3>3, <1>10 DEF UpdateOk
    <3>5. SignedByNow(u.node, u.session, u.counter)'
      BY <3>1, <1>1 DEF UpdateOk, SignedByNow
    <3> QED BY <3>1, <3>2, <3>4, <3>5 DEF UpdateOk
  <2>2. \A m \in Forwarded' : ChainOk(m.update, m.chain)
    BY <1>7 DEF IInv, UpdatesOk
  <2> QED BY <2>1, <2>2 DEF UpdatesOk, ChainOk
<1>13. LogOk' /\ AppliedInOrder'
  BY <1>1 DEF IInv, LogOk, AppliedInOrder, SignedByNow
<1>14. /\ DOMAIN ratchets'[s] = {n \in DOMAIN ratchets[s] : ~(ratchets[s][n].ttl <= 1)}
       /\ \A n \in DOMAIN ratchets'[s] : ratchets'[s][n] = [ratchets[s][n] EXCEPT !.ttl = @ - 1]
       /\ \A t \in Server : t # s => ratchets'[t] = ratchets[t]
  BY <1>1 DEF TickRatchets, Expiring, IInv, Shape
<1>15. \A n \in DOMAIN ratchets'[s] :
         /\ n \in DOMAIN ratchets[s] /\ ratchets[s][n].ttl \in 2..TicksToLive
         /\ ratchets'[s][n].session = ratchets[s][n].session
         /\ ratchets'[s][n].counter = ratchets[s][n].counter
         /\ ratchets'[s][n].ttl = ratchets[s][n].ttl - 1
         /\ ratchets'[s][n] = [session |-> ratchets[s][n].session,
                               counter |-> ratchets[s][n].counter, ttl |-> ratchets[s][n].ttl - 1]
  <2> SUFFICES ASSUME NEW n \in DOMAIN ratchets'[s]
               PROVE  /\ n \in DOMAIN ratchets[s] /\ ratchets[s][n].ttl \in 2..TicksToLive
                      /\ ratchets'[s][n].session = ratchets[s][n].session
                      /\ ratchets'[s][n].counter = ratchets[s][n].counter
                      /\ ratchets'[s][n].ttl = ratchets[s][n].ttl - 1
                      /\ ratchets'[s][n] = [session |-> ratchets[s][n].session,
                              counter |-> ratchets[s][n].counter, ttl |-> ratchets[s][n].ttl - 1]
    OBVIOUS
  <2>1. n \in DOMAIN ratchets[s] /\ ~(ratchets[s][n].ttl <= 1)
    BY <1>14
  <2>2. /\ ratchets[s][n].ttl \in 1..TicksToLive
        /\ ratchets[s][n] = [session |-> ratchets[s][n].session,
                             counter |-> ratchets[s][n].counter, ttl |-> ratchets[s][n].ttl]
    BY <2>1 DEF IInv, Seen, IsLastOf
  <2> QED BY <2>1, <2>2, <1>14, HashClockAssumption
<1>16. Seen'
  <2>1. ASSUME NEW t \in Server, NEW n \in DOMAIN ratchets'[t]
        PROVE  IsLastOf(t, n)'
    <3>1. CASE t # s
      BY <3>1, <1>1, <1>14 DEF IInv, Seen, IsLastOf
    <3>2. CASE t = s
      <4>1. /\ n \in DOMAIN ratchets[s] /\ ratchets[s][n].ttl \in 2..TicksToLive
            /\ ratchets'[s][n] = [session |-> ratchets[s][n].session,
                                  counter |-> ratchets[s][n].counter, ttl |-> ratchets[s][n].ttl - 1]
        BY <3>2, <1>15
      <4>2. IsLastOf(s, n)
        BY <4>1 DEF IInv, Seen
      <4>3. ratchets'[s][n].ttl \in 1..TicksToLive
        BY <4>1, HashClockAssumption
      <4>4. IsLastOf(s, n)'
        BY <4>1, <4>2, <4>3, <1>1 DEF IsLastOf
      <4> QED BY <3>2, <4>4
    <3> QED BY <3>1, <3>2
  <2>2. ASSUME NEW t \in Server, NEW i \in DOMAIN log'[t], LastSession(t, i)'
        PROVE  KeptOut(t, log[t][i])'
    <3> DEFINE e == log[t][i]
    <3>1. KeptOut(t, e) /\ log' = log
      BY <2>2, <1>1 DEF IInv, Seen, LastSession
    <3>2. \A u \in Transit' : u.signed[t] \in Nat
      BY <1>7 DEF IInv, UpdatesOk, UpdateOk
    <3>3. CASE t # s
      BY <3>1, <3>3, <1>2, <1>7, <1>14 DEF KeptOut, RatchetTtl
    <3>4. CASE t = s
      <4>1. e.node \in DOMAIN ratchets'[s] =>
              /\ e.node \in DOMAIN ratchets[s] /\ ratchets'[s][e.node].counter = ratchets[s][e.node].counter
        BY <1>15
      <4> DEFINE old == IF e.node \in DOMAIN ratchets[s] THEN ratchets[s][e.node].ttl ELSE 0
                 new == IF e.node \in DOMAIN ratchets'[s] THEN ratchets'[s][e.node].ttl ELSE 0
      <4>2. old \in Nat /\ new \in Nat /\ old <= new + 1
        <5> HIDE DEF e
        <5>1. CASE e.node \notin DOMAIN ratchets[s]
          BY <5>1, <4>1
        <5>2. CASE e.node \in DOMAIN ratchets'[s]
          <6>1. /\ e.node \in DOMAIN ratchets[s] /\ ratchets[s][e.node].ttl \in 2..TicksToLive
                /\ ratchets'[s][e.node].ttl = ratchets[s][e.node].ttl - 1
            BY <5>2, <1>15
          <6> QED BY <5>2, <6>1, HashClockAssumption
        <5>3. CASE e.node \in DOMAIN ratchets[s] /\ e.node \notin DOMAIN ratchets'[s]
          <6>1. ratchets[s][e.node].ttl <= 1
            BY <5>3, <1>14
          <6>2. ratchets[s][e.node].ttl \in 1..TicksToLive
            BY <5>3 DEF IInv, Seen, IsLastOf
          <6> QED BY <5>3, <6>1, <6>2, HashClockAssumption
        <5> QED BY <5>1, <5>2, <5>3
      <4>3. ASSUME NEW u \in Transit', u.node = e.node, u.session = e.session, u.counter <= e.counter
            PROVE  u.signed[s] + TicksToLive <= ticks'[s] + new
        <5>1. u.signed[s] + TicksToLive <= ticks[s] + old
          BY <3>1, <3>4, <4>3, <1>7 DEF KeptOut, RatchetTtl
        <5>2. u.signed[s] \in Nat
          BY <3>2, <3>4
        <5> HIDE DEF e, old, new
        <5> QED BY <5>1, <5>2, <4>2, <1>2, HashClockAssumption
      <4>4. e.node \in DOMAIN ratchets'[s] => e.counter <= ratchets'[s][e.node].counter
        BY <3>1, <3>4, <4>1 DEF KeptOut
      <4>5. log'[t][i] = e
        BY <3>1
      <4> QED BY <3>4, <4>3, <4>4, <4>5 DEF KeptOut, RatchetTtl
    <3> QED BY <3>3, <3>4
  <2> QED BY <2>1, <2>2 DEF Seen
<1>17. GraphOk'
  <2>1. /\ graph'[s] = [n \in DOMAIN graph[s] \ Expiring(ratchets[s]) |-> graph[s][n]]
        /\ \A t \in Server : t # s => graph'[t] = graph[t]
    BY <1>1 DEF IInv, Shape, Drop, RemovedNodes
  <2>2. \A n \in DOMAIN ratchets'[s] : \A f : HasEdge(graph'[s], n, f) <=> HasEdge(graph[s], n, f)
    BY <2>1, <1>14 DEF Expiring, HasEdge, Edges
  <2>3. DOMAIN graph'[s] \subseteq DOMAIN ratchets'[s]
    BY <2>1, <1>14 DEF Expiring, IInv, GraphOk
  <2> SUFFICES ASSUME NEW t \in Server
               PROVE  /\ DOMAIN graph'[t] \subseteq DOMAIN ratchets'[t]
                      /\ \A n \in DOMAIN ratchets'[t] :
                           LET x == Mutation(ratchets'[t][n].session, ratchets'[t][n].counter) IN
                           HasEdge(graph'[t], n, x.friend) <=> x.op = "update"
    BY DEF GraphOk
  <2>4. CASE t # s
    BY <2>1, <2>4, <1>14 DEF IInv, GraphOk
  <2>5. CASE t = s
    <3>1. \A n \in DOMAIN ratchets'[s] :
            /\ n \in DOMAIN ratchets[s]
            /\ ratchets'[s][n].session = ratchets[s][n].session
            /\ ratchets'[s][n].counter = ratchets[s][n].counter
      BY <1>15
    <3>2. \A n \in DOMAIN ratchets'[s] :
            LET x == Mutation(ratchets'[s][n].session, ratchets'[s][n].counter) IN
            HasEdge(graph'[s], n, x.friend) <=> x.op = "update"
      BY <2>2, <3>1 DEF IInv, GraphOk
    <3> QED BY <2>3, <2>5, <3>2
  <2> QED BY <2>4, <2>5
<1>18. NoHalfOpen'
  <2>1. \A a \in Server : \A b \in Others(a) :
          Closed \in ToSet(inbox'[a][b]) <=> Closed \in ToSet(inbox[a][b])
    BY <1>5, <1>6
  <2> QED BY <1>1, <2>1, LinksKept DEF IInv
<1> QED BY <1>9, <1>11, <1>12, <1>13, <1>16, <1>17, <1>18 DEF IInv

\* A change of the connections of s and p: nothing new is under way but the news
\* of an end, and only s and p have another connection.
LEMMA ConnectionKeeps ==
  ASSUME IInv, InboxShape(inbox'), DOMAIN peer' = Server,
         \A t \in Server : DOMAIN peer'[t] = Others(t),
         \A a \in Server : \A b \in Others(a) :
           ToSet(inbox'[a][b]) \subseteq ToSet(inbox[a][b]) \cup {Closed},
         NoHalfOpen', UNCHANGED <<clock, ratchets, graph, log, updates, client, ticks, parts>>
  PROVE  IInv'
<1>1. Closed.type = "closed"
  BY DEF Closed
<1>2. /\ \A x \in Mail' : x \in Mail \/ x = Closed
      /\ \A x \in Forwarded' : x \in Forwarded
      /\ \A v \in Transit' : v \in Transit
  BY <1>1, TransitFrom
<1>3. Shape'
  BY DEF IInv, Shape
<1>4. Hashes'
  BY <1>1, <1>2 DEF IInv, Hashes
<1>5. UpdatesOk'
  BY <1>2, UpdatesKept DEF IInv
<1>6. LogOk' /\ Seen' /\ AppliedInOrder' /\ GraphOk'
  BY <1>2, HistoryKept
<1> QED BY <1>3, <1>4, <1>5, <1>6 DEF IInv

\* Of the pairs of servers, only s and p have another connection.
LEMMA OtherLinks ==
  ASSUME NoHalfOpen, NEW s \in Server, NEW p \in Others(s),
         \A a \in Server : \A b \in Others(a) : {a, b} # {s, p} =>
           peer'[a][b] = peer[a][b] /\ inbox'[a][b] = inbox[a][b],
         \/ Alive(s, p)'
         \/ peer'[s][p] = "connected" /\ Closed \in ToSet(inbox'[s][p])
         \/ peer'[s][p] = Unconnected(s, p),
         \/ Alive(p, s)'
         \/ peer'[p][s] = "connected" /\ Closed \in ToSet(inbox'[p][s])
         \/ peer'[p][s] = Unconnected(p, s)
  PROVE  NoHalfOpen'
<1>1. \A a \in Server : \A b \in Others(a) : b \in Server /\ a \in Others(b)
  BY DEF Others
<1> SUFFICES ASSUME NEW a \in Server, NEW b \in Others(a)
             PROVE  \/ Alive(a, b)'
                    \/ peer'[a][b] = "connected" /\ Closed \in ToSet(inbox'[a][b])
                    \/ peer'[a][b] = Unconnected(a, b)
  BY DEF NoHalfOpen, Unconnected
<1>2. CASE {a, b} # {s, p}
  <2>1. {b, a} # {s, p}
    BY <1>2
  <2>2. Alive(a, b)' <=> Alive(a, b)
    BY <1>1, <1>2, <2>1 DEF Alive
  <2> QED BY <1>2, <2>2 DEF NoHalfOpen
<1>3. CASE a = s /\ b = p
  BY <1>3
<1>4. CASE a = p /\ b = s
  BY <1>4
<1>5. s # p /\ a # b
  BY DEF Others
<1> QED BY <1>2, <1>3, <1>4, <1>5

\* A server connects to one with a lesser key.
LEMMA ServerConnectionIInv ==
  ASSUME IInv, NEW s \in Server, NEW p \in Others(s), ServerConnection(s, p)
  PROVE  IInv'
<1>1. /\ s # p /\ p \in Server /\ s \in Others(p)
      /\ InboxShape(inbox) /\ DOMAIN peer = Server /\ \A t \in Server : DOMAIN peer[t] = Others(t)
      /\ peer[s][p] = "initiating" /\ NoHalfOpen
      /\ UNCHANGED <<clock, ratchets, graph, log, updates, client, ticks, parts>>
  BY DEF ServerConnection, Others, IInv, Shape, clientVars
<1>2. CASE peer[p][s] = "connected"
  <2>1. /\ peer' = [peer EXCEPT ![s][p] = "connected"]
        /\ inbox' = [inbox EXCEPT ![s][p] = <<Closed>>]
    BY <1>2 DEF ServerConnection
  <2>2. IsQueue(<<Closed>>) /\ ToSet(<<Closed>>) = {Closed}
    BY SingleQueue
  <2>3. /\ peer'[s][p] = "connected" /\ inbox'[s][p] = <<Closed>>
        /\ \A a \in Server : \A b \in Others(a) : a # s \/ b # p =>
             peer'[a][b] = peer[a][b] /\ inbox'[a][b] = inbox[a][b]
        /\ DOMAIN peer' = Server /\ \A t \in Server : DOMAIN peer'[t] = Others(t)
        /\ DOMAIN inbox' = Server /\ \A t \in Server : DOMAIN inbox'[t] = Others(t)
    BY <1>1, <2>1 DEF InboxShape
  <2>4. InboxShape(inbox')
    BY <1>1, <2>2, <2>3 DEF InboxShape
  <2>5. \A a \in Server : \A b \in Others(a) : ToSet(inbox'[a][b]) \subseteq ToSet(inbox[a][b]) \cup {Closed}
    BY <2>2, <2>3
  <2>6. peer'[p][s] = "connected" /\ Closed \in ToSet(inbox'[p][s])
    <3>1. ~Alive(p, s) /\ peer[p][s] # Unconnected(p, s)
      BY <1>1, <1>2 DEF Alive, Unconnected
    <3> QED BY <1>1, <1>2, <2>3, <3>1 DEF NoHalfOpen
  <2>7. NoHalfOpen'
    <3>1. \A a \in Server : \A b \in Others(a) : {a, b} # {s, p} =>
            peer'[a][b] = peer[a][b] /\ inbox'[a][b] = inbox[a][b]
      BY <2>3
    <3>2. peer'[s][p] = "connected" /\ Closed \in ToSet(inbox'[s][p])
      BY <2>2, <2>3
    <3> QED BY <1>1, <2>6, <3>1, <3>2, OtherLinks
  <2> QED BY <1>1, <2>3, <2>4, <2>5, <2>7, ConnectionKeeps
<1>3. CASE peer[p][s] # "connected"
  <2>1. /\ peer' = [peer EXCEPT ![s][p] = "connected", ![p][s] = "connected"]
        /\ inbox' = [inbox EXCEPT ![s][p] = <<>>, ![p][s] = <<>>]
    BY <1>3 DEF ServerConnection, NewConnection
  <2>2. IsQueue(<<>>) /\ ToSet(<<>>) = {}
    BY EmptyQueue
  <2>3. /\ peer'[s][p] = "connected" /\ peer'[p][s] = "connected"
        /\ inbox'[s][p] = <<>> /\ inbox'[p][s] = <<>>
        /\ \A a \in Server : \A b \in Others(a) : {a, b} # {s, p} =>
             peer'[a][b] = peer[a][b] /\ inbox'[a][b] = inbox[a][b]
        /\ DOMAIN peer' = Server /\ \A t \in Server : DOMAIN peer'[t] = Others(t)
        /\ DOMAIN inbox' = Server /\ \A t \in Server : DOMAIN inbox'[t] = Others(t)
    BY <1>1, <2>1 DEF InboxShape
  <2>4. \A a \in Server : \A b \in Others(a) :
          {a, b} # {s, p} \/ (a = s /\ b = p) \/ (a = p /\ b = s)
    BY <1>1 DEF Others
  <2>5. \A a \in Server : \A b \in Others(a) : inbox'[a][b] = inbox[a][b] \/ inbox'[a][b] = <<>>
    BY <2>3, <2>4
  <2>6. InboxShape(inbox')
    BY <1>1, <2>2, <2>3, <2>5 DEF InboxShape
  <2>7. \A a \in Server : \A b \in Others(a) : ToSet(inbox'[a][b]) \subseteq ToSet(inbox[a][b]) \cup {Closed}
    BY <2>2, <2>5
  <2>8. NoHalfOpen'
    <3>1. Alive(s, p)' /\ Alive(p, s)'
      BY <2>2, <2>3 DEF Alive
    <3> QED BY <1>1, <2>3, <3>1, OtherLinks
  <2> QED BY <1>1, <2>3, <2>6, <2>7, <2>8, ConnectionKeeps
<1> QED BY <1>2, <1>3

\* A connection breaks.
LEMMA BreakIInv ==
  ASSUME IInv, NEW s \in Server, NEW p \in Others(s), Break(s, p)
  PROVE  IInv'
<1>1. /\ s # p /\ p \in Server /\ s \in Others(p)
      /\ InboxShape(inbox) /\ DOMAIN peer = Server /\ \A t \in Server : DOMAIN peer[t] = Others(t)
      /\ Alive(s, p) /\ NoHalfOpen
      /\ UNCHANGED <<peer, clock, ratchets, graph, log, updates, client, ticks, parts>>
  BY DEF Break, Others, IInv, Shape, clientVars
<1>2. PICK a1 \in {inbox[s][p], <<>>}, b1 \in {inbox[p][s], <<>>} :
        inbox' = [inbox EXCEPT ![s][p] = Append(a1, Closed), ![p][s] = Append(b1, Closed)]
  BY DEF Break
<1>3. /\ IsQueue(a1) /\ ToSet(a1) \subseteq ToSet(inbox[s][p])
      /\ IsQueue(b1) /\ ToSet(b1) \subseteq ToSet(inbox[p][s])
  BY <1>1, EmptyQueue DEF InboxShape
<1>4. /\ IsQueue(Append(a1, Closed)) /\ ToSet(Append(a1, Closed)) = ToSet(a1) \cup {Closed}
      /\ IsQueue(Append(b1, Closed)) /\ ToSet(Append(b1, Closed)) = ToSet(b1) \cup {Closed}
  BY <1>3, AppendQueue
<1>5. /\ inbox'[s][p] = Append(a1, Closed) /\ inbox'[p][s] = Append(b1, Closed)
      /\ \A a \in Server : \A b \in Others(a) : {a, b} # {s, p} => inbox'[a][b] = inbox[a][b]
      /\ DOMAIN inbox' = Server /\ \A t \in Server : DOMAIN inbox'[t] = Others(t)
  BY <1>1, <1>2 DEF InboxShape
<1>6. \A a \in Server : \A b \in Others(a) :
        {a, b} # {s, p} \/ (a = s /\ b = p) \/ (a = p /\ b = s)
  BY <1>1 DEF Others
<1>7. \A a \in Server : \A b \in Others(a) :
        IsQueue(inbox'[a][b]) /\ ToSet(inbox'[a][b]) \subseteq ToSet(inbox[a][b]) \cup {Closed}
  BY <1>1, <1>3, <1>4, <1>5, <1>6 DEF InboxShape
<1>8. InboxShape(inbox')
  BY <1>5, <1>7 DEF InboxShape
<1>9. NoHalfOpen'
  <2>1. /\ peer'[s][p] = "connected" /\ Closed \in ToSet(inbox'[s][p])
        /\ peer'[p][s] = "connected" /\ Closed \in ToSet(inbox'[p][s])
    BY <1>1, <1>4, <1>5 DEF Alive
  <2>2. \A a \in Server : \A b \in Others(a) : {a, b} # {s, p} =>
          peer'[a][b] = peer[a][b] /\ inbox'[a][b] = inbox[a][b]
    BY <1>1, <1>5
  <2> QED BY <1>1, <2>1, <2>2, OtherLinks
<1>10. DOMAIN peer' = Server /\ \A t \in Server : DOMAIN peer'[t] = Others(t)
  BY <1>1
<1> QED BY <1>1, <1>7, <1>8, <1>9, <1>10, ConnectionKeeps

ClientType == [at : Server \cup {0}, session : Nat, sent : Nat, since : Nat]

\* A step of a client: what it signs is newer than all that was applied.
LEMMA ClientKeeps ==
  ASSUME IInv, UNCHANGED <<serverVars, ticks, parts>>, client' \in [Node -> ClientType],
         UpdatesShape(updates'),
         \A n, a, b : SignedByNow(n, a, b) => SignedByNow(n, a, b)',
         \A u \in Submitted' :
           \/ u \in Submitted
           \/ /\ UpdateOk(u)'
              /\ \A s \in Server : \A i \in DOMAIN log[s] :
                   ~(u.node = log[s][i].node /\ u.session = log[s][i].session
                       /\ u.counter <= log[s][i].counter)
  PROVE  IInv'
<1>1. UNCHANGED <<peer, inbox, clock, ratchets, graph, log>>
  BY DEF serverVars
<1>2. Mail' = Mail /\ Forwarded' = Forwarded
  BY <1>1 DEF Mail, Forwarded
<1>3. \A u \in Transit' :
           \/ u \in Transit
           \/ /\ UpdateOk(u)'
              /\ \A s \in Server : \A i \in DOMAIN log[s] :
                   ~(u.node = log[s][i].node /\ u.session = log[s][i].session
                       /\ u.counter <= log[s][i].counter)
  BY <1>2 DEF Transit
<1>4. Shape'
  BY <1>1 DEF IInv, Shape, ClientType
<1>5. Hashes'
  BY <1>1, <1>2 DEF IInv, Hashes
<1>6. UpdatesOk'
  <2>1. \A u \in Transit : UpdateOk(u)'
    BY DEF IInv, UpdatesOk, UpdateOk
  <2> QED BY <1>2, <1>3, <2>1 DEF IInv, UpdatesOk, ChainOk
<1>7. LogOk'
  <2> SUFFICES ASSUME NEW t \in Server, NEW i \in DOMAIN log[t]
               PROVE  /\ SignedByNow(log[t][i].node, log[t][i].session, log[t][i].counter)'
                      /\ log[t][i].late \in Int /\ log[t][i].late < TicksToLive
    BY <1>1 DEF LogOk, SignedByNow
  <2>1. /\ SignedByNow(log[t][i].node, log[t][i].session, log[t][i].counter)
        /\ log[t][i].late \in Int /\ log[t][i].late < TicksToLive
    BY DEF IInv, LogOk
  <2>2. PICK n, a, b : n = log[t][i].node /\ a = log[t][i].session /\ b = log[t][i].counter
    OBVIOUS
  <2>3. SignedByNow(n, a, b)'
    BY <2>1, <2>2
  <2> QED BY <1>1, <2>1, <2>2, <2>3 DEF SignedByNow
<1>8. Seen'
  <2>1. ASSUME NEW s \in Server, NEW n \in DOMAIN ratchets'[s] PROVE IsLastOf(s, n)'
    BY <1>1 DEF IInv, Seen, IsLastOf
  <2>2. ASSUME NEW s \in Server, NEW i \in DOMAIN log'[s], LastSession(s, i)'
        PROVE  KeptOut(s, log[s][i])'
    <3>1. KeptOut(s, log[s][i])
      BY <1>1, <2>2 DEF IInv, Seen, LastSession
    <3> QED BY <1>1, <1>3, <2>2, <3>1 DEF KeptOut, RatchetTtl
  <2> QED BY <2>1, <2>2 DEF Seen
<1>9. AppliedInOrder' /\ GraphOk' /\ NoHalfOpen'
  BY <1>1 DEF IInv, AppliedInOrder, GraphOk, NoHalfOpen, Alive, Unconnected
<1> QED BY <1>4, <1>5, <1>6, <1>7, <1>8, <1>9 DEF IInv

\* A client connects with a new session, leaves, or its server notices that.
LEMMA ClientSessionIInv ==
  ASSUME IInv, NEW n \in Node, NEW s \in Server,
         ClientConnection(n, s) \/ ClientLeaves(n) \/ ClientClosed(s, n)
  PROVE  IInv'
<1>1. client \in [Node -> ClientType] /\ UpdatesShape(updates) /\ ticks[s] \in Nat
  BY DEF IInv, Shape, ClientType
<1>2. UNCHANGED <<serverVars, ticks, parts, updates>>
  BY DEF ClientConnection, ClientLeaves, ClientClosed
<1>3. client' \in [Node -> ClientType] /\ \A m \in Node :
        \/ client'[m].session = client[m].session /\ client'[m].sent = client[m].sent
        \/ client'[m].session = client[m].session + 1
  <2>1. client[n] \in ClientType /\ client[n].session \in Nat
    BY <1>1 DEF ClientType
  <2>2. PICK c : c = [at |-> s, session |-> client[n].session + 1, sent |-> 0, since |-> ticks[s]]
    OBVIOUS
  <2>3. c \in ClientType /\ c.session = client[n].session + 1
    BY <1>1, <2>1, <2>2 DEF ClientType
  <2>4. PICK d : d = [client[n] EXCEPT !.at = 0]
    OBVIOUS
  <2>5. d \in ClientType /\ d.session = client[n].session /\ d.sent = client[n].sent
    BY <2>1, <2>4 DEF ClientType
  <2>6. CASE ClientConnection(n, s)
    <3>1. client' = [client EXCEPT ![n] = c]
      BY <2>2, <2>6 DEF ClientConnection
    <3> QED BY <1>1, <2>3, <3>1
  <2>7. CASE ClientLeaves(n)
    <3>1. client' = [client EXCEPT ![n] = d]
      BY <2>4, <2>7 DEF ClientLeaves
    <3> QED BY <1>1, <2>5, <3>1
  <2>8. CASE ClientClosed(s, n)
    BY <1>1, <2>8 DEF ClientClosed
  <2> QED BY <2>6, <2>7, <2>8
<1>5. \A m \in Node : client[m].session \in Nat
  BY <1>1 DEF ClientType
<1>6. \A m, a, b : SignedByNow(m, a, b) => SignedByNow(m, a, b)'
  BY <1>3, <1>5 DEF SignedByNow
<1>7. Submitted' = Submitted
  BY <1>2 DEF Submitted
<1> QED BY <1>1, <1>2, <1>3, <1>6, <1>7, ClientKeeps

\* A client signs its next update with a hash that its server has sent it.
LEMMA ClientSendsIInv ==
  ASSUME IInv, NEW n \in Node, ClientSends(n)
  PROVE  IInv'
<1> DEFINE s == client[n].at
<1>1. /\ client \in [Node -> ClientType] /\ UpdatesShape(updates) /\ ticks \in [Server -> Nat]
  BY DEF IInv, Shape, ClientType
<1>2. PICK k \in (client[n].since + 1)..ticks[s] :
       updates' = Delivered(s, n,
         [node |-> n, session |-> client[n].session, counter |-> client[n].sent,
          hash |-> <<s, k>>, signed |-> ticks])
  BY DEF ClientSends
<1>0. PICK u : u = [node |-> n, session |-> client[n].session, counter |-> client[n].sent,
                    hash |-> <<s, k>>, signed |-> ticks]
  OBVIOUS
<1>3. /\ s # 0 /\ client' = [client EXCEPT ![n].sent = @ + 1]
      /\ UNCHANGED <<serverVars, ticks, parts>>
  BY DEF ClientSends
<1>4. /\ s \in Server /\ client[n].since \in Nat /\ client[n].session \in Nat /\ client[n].sent \in Nat
  BY <1>1, <1>3 DEF ClientType
<1>5. /\ client' \in [Node -> ClientType]
      /\ \A m \in Node : client'[m].session = client[m].session
      /\ client'[n].sent = client[n].sent + 1 /\ \A m \in Node : m # n => client'[m] = client[m]
  BY <1>1, <1>3 DEF ClientType
<1>6. /\ u.node = n /\ u.session = client[n].session /\ u.counter = client[n].sent
      /\ u.hash = <<s, k>> /\ u.signed = ticks
  BY <1>0
<1>7. updates' = [updates EXCEPT ![s][n] = Append(@, u)]
  BY <1>0, <1>2 DEF Delivered
<1>8. IsQueue(Append(updates[s][n], u))
      /\ ToSet(Append(updates[s][n], u)) = ToSet(updates[s][n]) \cup {u}
  BY <1>1, <1>4, AppendQueue DEF UpdatesShape
<1>9. /\ updates'[s][n] = Append(updates[s][n], u)
      /\ \A a \in Server : \A b \in Node : a # s \/ b # n => updates'[a][b] = updates[a][b]
      /\ DOMAIN updates' = Server /\ \A a \in Server : DOMAIN updates'[a] = Node
  BY <1>1, <1>4, <1>7 DEF UpdatesShape
<1>10. UpdatesShape(updates')
  BY <1>1, <1>8, <1>9 DEF UpdatesShape
<1>11. \A v \in Submitted' : v \in Submitted \/ v = u
  <2> SUFFICES ASSUME NEW a \in Server, NEW b \in Node, NEW v \in ToSet(updates'[a][b])
               PROVE  v \in ToSet(updates[a][b]) \/ v = u
    BY DEF Submitted
  <2> QED BY <1>8, <1>9
<1>12. \A m, a, b : SignedByNow(m, a, b) => SignedByNow(m, a, b)'
  BY <1>4, <1>5 DEF SignedByNow
<1>13. UpdateOk(u)'
  <2>1. SignedByNow(u.node, u.session, u.counter)'
    BY <1>4, <1>5, <1>6 DEF SignedByNow
  <2>2. MadeBy(u.hash, ticks)
    <3>1. ticks[s] \in Nat /\ k \in 1..ticks[s]
      BY <1>1, <1>4
    <3> QED BY <1>4, <1>6, <3>1 DEF MadeBy
  <2>3. \A h \in DOMAIN parts : MadeBy(h, ticks) => \A g \in parts[h] : MadeBy(g, ticks)
    BY DEF IInv, Hashes
  <2>4. \A t \in Server : ticks[t] <= ticks[t]
    BY <1>1
  <2> QED BY <1>1, <1>3, <1>6, <2>1, <2>2, <2>3, <2>4 DEF UpdateOk
<1>14. \A t \in Server : \A i \in DOMAIN log[t] :
         ~(u.node = log[t][i].node /\ u.session = log[t][i].session /\ u.counter <= log[t][i].counter)
  BY <1>4, <1>6 DEF IInv, LogOk, SignedByNow
<1> QED BY <1>3, <1>5, <1>10, <1>11, <1>12, <1>13, <1>14, ClientKeeps

\* The servers start with nothing under way.
LEMMA InitIInv == Init => IInv
<1> SUFFICES ASSUME Init PROVE IInv
  OBVIOUS
<1>1. IsQueue(<<>>) /\ ToSet(<<>>) = {} /\ Len(<<>>) = 0 /\ DOMAIN <<>> = {}
  BY EmptyQueue
<1>2. InboxShape(inbox) /\ UpdatesShape(updates)
  BY <1>1 DEF Init, InboxShape, UpdatesShape
<1>3. Mail = {} /\ Forwarded = {} /\ Submitted = {} /\ Transit = {}
  BY <1>1 DEF Init, Mail, Forwarded, Submitted, Transit
<1>4. Shape
  <2>1. /\ DOMAIN clock = Server /\ DOMAIN ratchets = Server /\ DOMAIN graph = Server
        /\ DOMAIN peer = Server /\ \A s \in Server : DOMAIN peer[s] = Others(s)
        /\ ticks \in [Server -> Nat]
        /\ client \in [Node -> [at : Server \cup {0}, session : Nat, sent : Nat, since : Nat]]
    BY DEF Init
  <2>2. \A s \in Server : clock[s] = [last |-> clock[s].last, neighbors |-> clock[s].neighbors]
    BY DEF Init, ClockInit
  <2>3. DOMAIN log = Server /\ \A s \in Server : IsQueue(log[s])
    BY <1>1 DEF Init
  <2> QED BY <1>2, <2>1, <2>2, <2>3 DEF Shape
<1>5. Hashes
  <2>1. \A s \in Server : ticks[s] = 0 /\ clock[s].last = <<>> /\ DOMAIN clock[s].neighbors = {}
    BY DEF Init, ClockInit, NoKeys
  <2>2. DOMAIN parts = {}
    BY DEF Init, NoKeys
  <2> QED BY <1>1, <1>3, <2>1, <2>2, HashClockAssumption DEF Hashes
<1>6. UpdatesOk
  BY <1>3 DEF UpdatesOk
<1>7. \A s \in Server : DOMAIN log[s] = {} /\ DOMAIN ratchets[s] = {} /\ DOMAIN graph[s] = {}
  BY <1>1 DEF Init, RatchetsInit, EmptyGraph, NoKeys
<1>8. LogOk /\ Seen /\ AppliedInOrder /\ GraphOk
  BY <1>7 DEF LogOk, Seen, AppliedInOrder, GraphOk
<1>9. NoHalfOpen
  BY <1>1 DEF Init, NoHalfOpen, Alive, Others
<1> QED BY <1>4, <1>5, <1>6, <1>8, <1>9 DEF IInv

\* One case per action of the servers and their clients.
LEMMA NextIInv == IInv /\ [Next]_vars => IInv'
<1> SUFFICES ASSUME IInv, [Next]_vars PROVE IInv'
  OBVIOUS
<1>1. ASSUME NEW s \in Server, TimerTick(s) PROVE IInv'
  BY <1>1, TimerTickIInv
<1>2. ASSUME NEW s \in Server, NEW p \in Others(s), FromServer(s, p) PROVE IInv'
  BY <1>2, FromServerIInv
<1>3. ASSUME NEW s \in Server, NEW p \in Others(s), ServerConnection(s, p) PROVE IInv'
  BY <1>3, ServerConnectionIInv
<1>4. ASSUME NEW s \in Server, NEW p \in Others(s), Break(s, p) PROVE IInv'
  BY <1>4, BreakIInv
<1>5. ASSUME NEW s \in Server, NEW n \in Node, ClientMutationsUpdate(s, n) PROVE IInv'
  BY <1>5, ClientMutationsUpdateIInv
<1>6. ASSUME NEW s \in Server, NEW n \in Node, ClientClosed(s, n) \/ ClientConnection(n, s)
      PROVE  IInv'
  BY <1>6, ClientSessionIInv
<1>7. ASSUME NEW n \in Node, ClientSends(n) PROVE IInv'
  BY <1>7, ClientSendsIInv
<1>8. ASSUME NEW n \in Node, ClientLeaves(n) PROVE IInv'
  <2>1. client[n].at \in Server
    BY <1>8 DEF IInv, Shape, ClientLeaves
  <2> QED BY <1>8, <2>1, ClientSessionIInv
<1>9. CASE UNCHANGED vars
  <2>1. UNCHANGED <<peer, inbox, clock, ratchets, graph, log, clients, updates, client, ticks, parts>>
    BY <1>9 DEF vars, serverVars, clientVars
  <2>2. Mail' = Mail /\ Forwarded' = Forwarded /\ Submitted' = Submitted
    BY <2>1 DEF Mail, Forwarded, Submitted
  <2>3. client' \in [Node -> ClientType] /\ UpdatesShape(updates')
    BY <2>1 DEF IInv, Shape, ClientType
  <2>4. \A n, a, b : SignedByNow(n, a, b) => SignedByNow(n, a, b)'
    BY <2>1 DEF SignedByNow
  <2> QED BY <2>1, <2>2, <2>3, <2>4, ClientKeeps DEF serverVars
<1> QED
  BY <1>1, <1>2, <1>3, <1>4, <1>5, <1>6, <1>7, <1>8, <1>9 DEF Next

(***************************************************************************)
(* Theorems.                                                               *)
(***************************************************************************)
\* Every hash is of a tick that was made, whatever is under way was signed with
\* such a hash, ratchets and graphs are those of the last update that was applied.
THEOREM IndexServersInvariant == Spec => []IInv
<1>1. Init => IInv
  BY InitIInv
<1>2. IInv /\ [Next]_vars => IInv'
  BY NextIInv
<1> QED BY <1>1, <1>2, PTL DEF Spec

\* The updates of one session that a server applies have growing counters, also
\* after the ratchet of the node has ended (SimpleVerifier::verify).
THEOREM UpdatesAreInOrder == Spec => []AppliedInOrder
<1>1. IInv => AppliedInOrder
  BY DEF IInv
<1> QED BY <1>1, IndexServersInvariant, PTL

\* What is applied was signed less than TicksToLive ticks of this server ago,
\* however many servers have passed it on (verify_expansion_chain).
THEOREM UpdatesAreFresh == Spec => []AppliedIsFresh
<1>1. IInv => AppliedIsFresh
  BY DEF IInv, LogOk, AppliedIsFresh
<1> QED BY <1>1, IndexServersInvariant, PTL

\* What a server knows of a node is what the last update it has applied said
\* (handle_forward_mutations_update), and nothing after TicksToLive silent ticks
\* (handle_timer_tick).
THEOREM GraphsAreCurrent == Spec => []GraphIsCurrent
<1>1. IInv => GraphIsCurrent
  <2> SUFFICES ASSUME IInv, NEW s \in Server, NEW n \in Node
               PROVE  LET mine == {i \in DOMAIN log[s] : log[s][i].node = n}
                          m == LET u == log[s][Max(mine)] IN Mutation(u.session, u.counter)
                      IN IF n \in DOMAIN ratchets[s]
                         THEN HasEdge(graph[s], n, m.friend) <=> m.op = "update"
                         ELSE n \notin DOMAIN graph[s]
    BY DEF GraphIsCurrent
  <2> DEFINE mine == {i \in DOMAIN log[s] : log[s][i].node = n}
  <2>1. CASE n \in DOMAIN ratchets[s]
    <3>1. PICK i \in DOMAIN log[s] :
            /\ log[s][i].node = n /\ log[s][i].session = ratchets[s][n].session
            /\ log[s][i].counter = ratchets[s][n].counter
            /\ \A k \in DOMAIN log[s] : k > i => log[s][k].node # n
      BY <2>1 DEF IInv, Seen, IsLastOf
    <3>2. DOMAIN log[s] \subseteq Nat
      BY DEF IInv, Shape, IsQueue
    <3>3. Max(mine) = i
      <4>1. i \in mine /\ \A k \in mine : k <= i /\ k \in Nat
        BY <3>1, <3>2
      <4> HIDE DEF mine
      <4> QED BY <4>1 DEF Max
    <3> HIDE DEF mine
    <3>4. HasEdge(graph[s], n, Mutation(ratchets[s][n].session, ratchets[s][n].counter).friend)
            <=> Mutation(ratchets[s][n].session, ratchets[s][n].counter).op = "update"
      BY <2>1 DEF IInv, GraphOk
    <3> QED BY <2>1, <3>1, <3>3, <3>4 DEF mine
  <2>2. CASE n \notin DOMAIN ratchets[s]
    BY <2>2 DEF IInv, GraphOk
  <2> QED BY <2>1, <2>2
<1> QED BY <1>1, IndexServersInvariant, PTL

\* No server waits on a connection that the other side has left
\* (handle of FromServer(None), spawn_server).
THEOREM ServersReconnect == Spec => []NoHalfOpen
<1>1. IInv => NoHalfOpen
  BY DEF IInv
<1> QED BY <1>1, IndexServersInvariant, PTL
=============================================================================
