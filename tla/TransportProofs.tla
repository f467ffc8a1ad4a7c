-------------------------- MODULE TransportProofs --------------------------
(***************************************************************************)
(* Proofs about a connection: through any number of changes of the keys,   *)
(* started by either end or by both at once, what the users are given is   *)
(* what was sent, no message is undecipherable, no change of the keys      *)
(* stays pending, and no living peer is taken for dead.                    *)
(*                                                                         *)
(* The two directions are independent.  A place in the stream of messages  *)
(* of one end has the round of keys in use (k), the next nonce (n), the    *)
(* user messages (u) and the own private keys (x) so far: the k-th keys of *)
(* both ends make round k.  The sender's state is a place, the receiver's  *)
(* state is a place, and what is on the wire leads from the second to the  *)
(* first (Stream).                                                         *)
(***************************************************************************)
EXTENDS Transport, SequencesExt, SequenceTheorems, FiniteSetTheorems,
        WellFoundedInduction, TLAPS

-----------------------------------------------------------------------------
(***************************************************************************)
(* Queues are only appended to and taken from, and an invariant speaks of  *)
(* all that is in them: a queue is any sequence of its own elements.       *)
(***************************************************************************)
IsQueue(s) == s \in Seq(ToSet(s))

\* A sequence over any set is a queue, and its elements are of that set.
LEMMA QueueOfSeq ==
  ASSUME NEW S, NEW s \in Seq(S)
  PROVE  IsQueue(s) /\ ToSet(s) \subseteq S
BY DEF IsQueue, ToSet

\* The empty queue.
LEMMA EmptyQueue == IsQueue(<<>>) /\ ToSet(<<>>) = {}
BY DEF IsQueue, ToSet

\* A queue with one element.
LEMMA SingleQueue ==
  ASSUME NEW x
  PROVE  IsQueue(<<x>>) /\ ToSet(<<x>>) = {x}
BY DEF IsQueue, ToSet

\* A queue after an element has been appended.
LEMMA AppendQueue ==
  ASSUME NEW s, NEW x, IsQueue(s)
  PROVE  IsQueue(Append(s, x)) /\ ToSet(Append(s, x)) = ToSet(s) \cup {x}
<1> DEFINE T == ToSet(s) \cup {x}
<1>1. s \in Seq(T) /\ x \in T
  BY DEF IsQueue
<1>2. Append(s, x) \in Seq(T)
  BY <1>1
<1>3. ToSet(Append(s, x)) = T
  <2>1. \A i \in 1..Len(s) : i \in 1..Len(Append(s, x)) /\ Append(s, x)[i] = s[i]
    BY <1>1
  <2>2. Len(s) + 1 \in 1..Len(Append(s, x)) /\ Append(s, x)[Len(s) + 1] = x
    BY <1>1
  <2>3. T \subseteq ToSet(Append(s, x))
    BY <1>1, <1>2, <2>1, <2>2 DEF ToSet
  <2> QED
    BY <1>2, <2>3, QueueOfSeq
<1> QED
  BY <1>2, <1>3 DEF IsQueue

\* A queue that is not empty: its first element, and the rest.
LEMMA TailQueue ==
  ASSUME NEW s, IsQueue(s), s # <<>>
  PROVE  /\ IsQueue(Tail(s)) /\ ToSet(Tail(s)) \subseteq ToSet(s)
         /\ Head(s) \in ToSet(s) /\ ToSet(s) = {Head(s)} \cup ToSet(Tail(s))
<1> DEFINE T == ToSet(s)
<1>1. s \in Seq(T) /\ Len(s) \in Nat /\ Len(s) > 0 /\ DOMAIN s = 1..Len(s)
  BY DEF IsQueue
<1>2. Tail(s) \in Seq(T) /\ Len(Tail(s)) = Len(s) - 1
      /\ \A i \in 1..Len(Tail(s)) : Tail(s)[i] = s[i + 1]
  BY <1>1
<1>3. Head(s) = s[1] /\ 1 \in DOMAIN s
  BY <1>1
<1>4. ToSet(s) \subseteq {Head(s)} \cup ToSet(Tail(s))
  <2>1. \A i \in 1..Len(s) : i # 1 => i - 1 \in 1..Len(Tail(s)) /\ Tail(s)[i - 1] = s[i]
    BY <1>1, <1>2
  <2>2. DOMAIN Tail(s) = 1..Len(Tail(s))
    BY <1>2
  <2>3. \A i \in 1..Len(s) : s[i] = Head(s) \/ s[i] \in ToSet(Tail(s))
    BY <1>3, <2>1, <2>2 DEF ToSet
  <2> QED
    BY <1>1, <2>3 DEF ToSet
<1> QED
  BY <1>1, <1>2, <1>3, <1>4, QueueOfSeq DEF ToSet

-----------------------------------------------------------------------------
(***************************************************************************)
(* Induction over natural numbers, stated for a set instead of a           *)
(* predicate, so that the provers can instantiate it.                      *)
(***************************************************************************)
\* A set of natural numbers has a least one.
LEMMA LeastNatural ==
  ASSUME NEW T, T \subseteq Nat, T # {}
  PROVE  \E m \in T : \A k \in T : m <= k
<1> DEFINE R == OpToRel(<, Nat)
<1>1. IsWellFoundedOn(R, Nat)
  BY NatLessThanWellFounded
<1>2. \A i, j \in Nat : i < j => <<i, j>> \in R
  BY DEF OpToRel
<1> HIDE DEF R
<1>3. PICK m \in T : \A k \in T : ~(<<k, m>> \in R)
  BY <1>1, WFMin
<1>4. ASSUME NEW k \in T PROVE m <= k
  <2>1. k \in Nat /\ m \in Nat
    OBVIOUS
  <2>2. ~(k < m)
    BY <1>2, <1>3, <2>1
  <2> QED BY <2>1, <2>2
<1> QED BY <1>4

\* Induction up to n.
LEMMA Induction ==
  ASSUME NEW n \in Nat, NEW T, 0 \in T, \A k \in 0..(n - 1) : k \in T => k + 1 \in T
  PROVE  \A k \in 0..n : k \in T
<1> DEFINE U == {k \in 0..n : k \notin T}
<1> SUFFICES ASSUME U # {} PROVE FALSE
  OBVIOUS
<1>1. U \subseteq Nat
  OBVIOUS
<1>2. PICK m \in U : \A k \in U : m <= k
  BY <1>1, LeastNatural
<1>3. m # 0 /\ m - 1 \in 0..(n - 1) /\ m - 1 \in T
  BY <1>2
<1> QED BY <1>2, <1>3

-----------------------------------------------------------------------------
(***************************************************************************)
(* Places in a stream.                                                     *)
(***************************************************************************)
Key(s, k) == [dh |-> {<<s, k>>, <<Peer(s), k>>}, salt |-> <<s, k>>]
CipherAt(s, k, n) == [key |-> Key(s, k), nonce |-> n]
Nonces == 0..(NonceMod - 1)
After(n) == (n + 1) % NonceMod

At(k, n, u, x) == [k |-> k, n |-> n, u |-> u, x |-> x]
Place == [k : Nat, n : Nonces, u : Nat, x : Nat]
Start == At(1, 0, 0, 1)

\* Having sent its Rekey, the sender may go over to the next keys.
Turns(a, c) == c = a \/ (a.x = a.k + 1 /\ c = At(a.k + 1, 0, a.u, a.x))

RekeyBody(s, k) == [t |-> "rekey", dh |-> <<s, k>>]

\* The message m of s leads from place a to place b.
Carries(s, a, m, b) ==
  /\ m = [t |-> "enc", key |-> Key(s, a.k), nonce |-> a.n, body |-> m.body]
  /\ \/ m.body = Msg(a.u + 1) /\ b = At(a.k, After(a.n), a.u + 1, a.x)
     \/ m.body = KeepAlive /\ b = At(a.k, After(a.n), a.u, a.x)
     \/ a.x = a.k /\ m.body = RekeyBody(s, a.x + 1) /\ b = At(a.k, After(a.n), a.u, a.x + 1)

Leads(s, a, m, b) == \E c \in Place : Turns(a, c) /\ Carries(s, c, m, b)

\* The messages w of s lead from place a to place z.
Stream(s, w, a, z) ==
  \E q : /\ q[0] = a /\ \A i \in 0..Len(w) : q[i] \in Place
         /\ \A i \in 1..Len(w) : Leads(s, q[i - 1], w[i], q[i])
         /\ Turns(q[Len(w)], z)

LEMMA AfterNonce == \A n \in Nonces : After(n) \in Nonces /\ 0 \in Nonces
BY RekeyAssumption DEF After, Nonces

LEMMA AtPlace ==
  ASSUME NEW k \in Nat, NEW n \in Nonces, NEW u \in Nat, NEW x \in Nat
  PROVE  /\ At(k, n, u, x) \in Place
         /\ At(k, n, u, x).k = k /\ At(k, n, u, x).n = n /\ At(k, n, u, x).u = u /\ At(k, n, u, x).x = x
BY DEF At, Place

LEMMA TurnsPlace ==
  ASSUME NEW a \in Place, NEW c, Turns(a, c)
  PROVE  c \in Place /\ c.u = a.u /\ c.x = a.x
<1>1. a.k \in Nat /\ a.n \in Nonces /\ a.u \in Nat /\ a.x \in Nat /\ 0 \in Nonces
  BY AfterNonce DEF Place
<1> QED BY <1>1, AtPlace DEF Turns

LEMMA CarriesPlace ==
  ASSUME NEW s, NEW a \in Place, NEW m, NEW b, Carries(s, a, m, b)
  PROVE  b \in Place
<1>1. a.k \in Nat /\ After(a.n) \in Nonces /\ a.u \in Nat /\ a.x \in Nat
      /\ a.u + 1 \in Nat /\ a.x + 1 \in Nat
  BY AfterNonce DEF Place
<1>2. b \in {At(a.k, After(a.n), a.u + 1, a.x), At(a.k, After(a.n), a.u, a.x),
             At(a.k, After(a.n), a.u, a.x + 1)}
  BY DEF Carries
<1> QED BY <1>1, <1>2 DEF At, Place

\* Nobody turns twice.
LEMMA TurnsOnce ==
  ASSUME NEW a \in Place, NEW c, NEW d, Turns(a, c), Turns(c, d)
  PROVE  Turns(a, d)
<1>1. a.k \in Nat /\ a.x \in Nat /\ a.u \in Nat /\ 0 \in Nonces
  BY AfterNonce DEF Place
<1>2. CASE c = a
  BY <1>2
<1>3. CASE a.x = a.k + 1 /\ c = At(a.k + 1, 0, a.u, a.x)
  <2>1. c.k = a.k + 1 /\ c.x = a.k + 1
    BY <1>1, <1>3 DEF At
  <2>2. d = c
    BY <1>1, <2>1 DEF Turns
  <2> QED BY <2>2
<1> QED BY <1>2, <1>3 DEF Turns

\* With nothing under way the receiver is where the sender is, or about to turn.
LEMMA StreamNone ==
  ASSUME NEW s, NEW a \in Place, NEW z, Turns(a, z)
  PROVE  Stream(s, <<>>, a, z)
<1> DEFINE q == [i \in 0..0 |-> a]
<1>1. Len(<<>>) = 0
  OBVIOUS
<1>2. q[0] = a /\ \A i \in 0..0 : q[i] \in Place
  OBVIOUS
<1>3. \A i \in 1..0 : Leads(s, q[i - 1], <<>>[i], q[i])
  OBVIOUS
<1> HIDE DEF q
<1> QED BY <1>1, <1>2, <1>3 DEF Stream

LEMMA StreamEmpty ==
  ASSUME NEW s, NEW a, NEW z, Stream(s, <<>>, a, z)
  PROVE  Turns(a, z)
<1>1. Len(<<>>) = 0
  OBVIOUS
<1> QED BY <1>1 DEF Stream

LEMMA StreamPlaces ==
  ASSUME NEW s, NEW w, NEW a, NEW z, IsQueue(w), Stream(s, w, a, z)
  PROVE  a \in Place /\ z \in Place
<1>1. PICK q : /\ q[0] = a /\ \A i \in 0..Len(w) : q[i] \in Place
               /\ Turns(q[Len(w)], z)
  BY DEF Stream
<1>2. Len(w) \in Nat
  BY DEF IsQueue
<1> QED BY <1>1, <1>2, TurnsPlace

\* The sender goes over to the next keys.
LEMMA StreamTurns ==
  ASSUME NEW s, NEW w, NEW a, NEW z, NEW y, IsQueue(w), Stream(s, w, a, z), Turns(z, y)
  PROVE  Stream(s, w, a, y)
<1>1. PICK q : /\ q[0] = a /\ \A i \in 0..Len(w) : q[i] \in Place
               /\ \A i \in 1..Len(w) : Leads(s, q[i - 1], w[i], q[i])
               /\ Turns(q[Len(w)], z)
  BY DEF Stream
<1>2. Len(w) \in Nat
  BY DEF IsQueue
<1>3. Turns(q[Len(w)], y)
  BY <1>1, <1>2, TurnsOnce
<1> QED BY <1>1, <1>3 DEF Stream

\* The sender sends.
LEMMA StreamAppend ==
  ASSUME NEW s, NEW w, NEW a, NEW z, NEW m, NEW y, IsQueue(w), Stream(s, w, a, z), Carries(s, z, m, y)
  PROVE  Stream(s, Append(w, m), a, y)
<1> DEFINE n == Len(w)
           v == Append(w, m)
<1>1. PICK q : /\ q[0] = a /\ \A i \in 0..n : q[i] \in Place
               /\ \A i \in 1..n : Leads(s, q[i - 1], w[i], q[i])
               /\ Turns(q[n], z)
  BY DEF Stream
<1>2. n \in Nat /\ Len(v) = n + 1 /\ v[n + 1] = m /\ \A i \in 1..n : v[i] = w[i]
  BY DEF IsQueue
<1>3. z \in Place /\ y \in Place
  BY <1>1, <1>2, TurnsPlace, CarriesPlace
<1> HIDE DEF n, v
<1> DEFINE r == [i \in 0..(n + 1) |-> IF i = n + 1 THEN y ELSE q[i]]
<1>4. r[0] = a /\ (\A i \in 0..(n + 1) : r[i] \in Place) /\ r[n + 1] = y /\ \A i \in 0..n : r[i] = q[i]
  BY <1>1, <1>2, <1>3
<1> HIDE DEF r
<1>5. ASSUME NEW i \in 1..(n + 1) PROVE Leads(s, r[i - 1], v[i], r[i])
  <2>1. CASE i = n + 1
    <3>1. i - 1 = n /\ r[i - 1] = q[n] /\ v[i] = m /\ r[i] = y
      BY <1>2, <1>4, <2>1
    <3> QED BY <1>1, <1>3, <3>1 DEF Leads
  <2>2. CASE i # n + 1
    <3>1. i \in 1..n /\ i - 1 \in 0..n /\ i \in 0..n
      BY <1>2, <2>2
    <3> QED BY <1>1, <1>2, <1>4, <3>1
  <2> QED BY <2>1, <2>2
<1>6. Turns(r[n + 1], y)
  BY <1>4 DEF Turns
<1>7. Stream(s, v, a, y)
  BY <1>2, <1>4, <1>5, <1>6 DEF Stream
<1> QED BY <1>7 DEF v

\* The receiver takes a message.
LEMMA StreamHead ==
  ASSUME NEW s, NEW w, NEW a, NEW z, IsQueue(w), w # <<>>, Stream(s, w, a, z)
  PROVE  \E b : Leads(s, a, Head(w), b) /\ Stream(s, Tail(w), b, z)
<1> DEFINE n == Len(w) - 1
           v == Tail(w)
<1>1. PICK q : /\ q[0] = a /\ \A i \in 0..Len(w) : q[i] \in Place
               /\ \A i \in 1..Len(w) : Leads(s, q[i - 1], w[i], q[i])
               /\ Turns(q[Len(w)], z)
  BY DEF Stream
<1>2. n \in Nat /\ Len(w) = n + 1 /\ Len(v) = n /\ Head(w) = w[1] /\ \A i \in 1..n : v[i] = w[i + 1]
  BY DEF IsQueue
<1> HIDE DEF n, v
<1> DEFINE r == [i \in 0..n |-> q[i + 1]]
<1>3. r[0] = q[1] /\ (\A i \in 0..n : r[i] \in Place) /\ r[n] = q[n + 1]
  BY <1>1, <1>2
<1>4. ASSUME NEW i \in 1..n PROVE Leads(s, r[i - 1], v[i], r[i])
  <2>1. i + 1 \in 1..Len(w) /\ (i + 1) - 1 = i /\ r[i - 1] = q[i] /\ r[i] = q[i + 1] /\ v[i] = w[i + 1]
    BY <1>2
  <2>2. Leads(s, q[(i + 1) - 1], w[i + 1], q[i + 1])
    BY <1>1, <2>1
  <2> QED BY <2>1, <2>2
<1> HIDE DEF r
<1>5. Stream(s, v, q[1], z)
  BY <1>1, <1>2, <1>3, <1>4 DEF Stream
<1>6. Leads(s, a, Head(w), q[1])
  <2>1. 1 \in 1..Len(w) /\ 1 - 1 = 0
    BY <1>2
  <2>2. Leads(s, q[1 - 1], w[1], q[1])
    BY <1>1, <2>1
  <2> QED BY <1>1, <1>2, <2>1, <2>2
<1> QED BY <1>5, <1>6 DEF v

\* The sender has drawn a private key that the receiver does not know: the Rekey
\* with the newest one is under way.
LEMMA StreamRekey ==
  ASSUME NEW s, NEW w, NEW a, NEW z, IsQueue(w), Stream(s, w, a, z), z.x # a.x
  PROVE  \E i \in DOMAIN w : w[i].t = "enc" /\ w[i].body = RekeyBody(s, z.x)
<1> DEFINE n == Len(w)
           Sent(i, x) == \E j \in 1..i : w[j].t = "enc" /\ w[j].body = RekeyBody(s, x)
<1>1. PICK q : /\ q[0] = a /\ \A i \in 0..n : q[i] \in Place
               /\ \A i \in 1..n : Leads(s, q[i - 1], w[i], q[i])
               /\ Turns(q[n], z)
  BY DEF Stream
<1>2. n \in Nat /\ DOMAIN w = 1..n
  BY DEF IsQueue
<1> HIDE DEF n
<1> DEFINE T == {i \in 0..n : q[i].x = a.x \/ Sent(i, q[i].x)}
<1>3. 0 \in T
  BY <1>1, <1>2
<1>4. ASSUME NEW i \in 0..(n - 1), i \in T PROVE i + 1 \in T
  <2>1. i + 1 \in 1..n /\ (i + 1) - 1 = i
    BY <1>2
  <2>2. Leads(s, q[(i + 1) - 1], w[i + 1], q[i + 1])
    BY <1>1, <2>1
  <2>3. PICK c \in Place : Turns(q[i], c) /\ Carries(s, c, w[i + 1], q[i + 1])
    BY <2>1, <2>2 DEF Leads
  <2>4. c.x = q[i].x
    <3>1. q[i] \in Place
      BY <1>1, <1>2
    <3> QED BY <2>3, <3>1, TurnsPlace
  <2>5. \/ q[i + 1].x = c.x
        \/ w[i + 1].t = "enc" /\ w[i + 1].body = RekeyBody(s, q[i + 1].x)
    BY <2>3 DEF Carries, At
  <2>6. CASE q[i + 1].x = c.x
    BY <1>2, <1>4, <2>1, <2>4, <2>6
  <2>7. CASE w[i + 1].t = "enc" /\ w[i + 1].body = RekeyBody(s, q[i + 1].x)
    <3>1. i + 1 \in 1..(i + 1) /\ i + 1 \in 0..n
      BY <2>1
    <3> QED BY <2>7, <3>1
  <2> QED BY <2>5, <2>6, <2>7
<1> HIDE DEF T
<1>5. n \in T
  <2>1. \A i \in 0..n : i \in T
    BY <1>2, <1>3, <1>4, Induction
  <2> QED BY <1>2, <2>1
<1>6. q[n].x = a.x \/ Sent(n, q[n].x)
  BY <1>5 DEF T
<1>7. z.x = q[n].x
  BY <1>1, <1>2, TurnsPlace
<1> QED BY <1>2, <1>6, <1>7

-----------------------------------------------------------------------------
(***************************************************************************)
(* One end, given by its channel c, the number d of private keys it has    *)
(* drawn and the number u of user messages it has sent or was given.       *)
(***************************************************************************)
Keys == {NoKey} \cup (Side \X Nat)
Ciphers == [key : {NoKey} \cup {Key(s, k) : s \in Side, k \in Nat}, nonce : Int]
Phases == {"nonce", "dh", "open", "closed", "dead"}
Whys == {None, "unexpected", "garbled", "ended", "user"}
Channel == [phase : Phases, why : Whys, remote : Side \cup {None}, dh : Keys, sender : Ciphers,
            receiver : Ciphers, old : Ciphers, pending : Keys, ticks : Nat]

Lost(c) == c.phase \in {"closed", "dead"}

\* The round of keys that this end uses.
Round(c, d) == IF c.pending = NoKey THEN d ELSE d - 1

Writer(c, d, u) ==
  IF c.phase # "open" THEN Start ELSE At(Round(c, d), c.sender.nonce, u, d)

Reader(c, d, u) ==
  IF c.phase # "open" THEN Start
  ELSE IF c.old = NoCipher THEN At(Round(c, d), c.receiver.nonce, u, Round(c, d))
  ELSE At(Round(c, d) - 1, c.old.nonce, u, Round(c, d))

\* The keys of an end p whose channel is open: those of its round, and as long as
\* the peer may use them those of the round before.
Sends(p, c, d) == \E n \in Nonces : c.sender = CipherAt(p, Round(c, d), n)

Reads(p, c, d) ==
  \E n \in Nonces :
    \/ c.old = NoCipher /\ c.receiver = CipherAt(Peer(p), Round(c, d), n)
    \/ /\ Round(c, d) > 1 /\ c.old = CipherAt(Peer(p), Round(c, d) - 1, n)
       /\ c.receiver = CipherAt(Peer(p), Round(c, d), 0)

Keyed(p, c, d) ==
  /\ d \in Nat /\ Round(c, d) \in Nat /\ Round(c, d) >= 1 /\ c.pending \in {NoKey, <<p, d>>}
  /\ Sends(p, c, d) /\ Reads(p, c, d)

LEMMA Peers == \A p \in Side : Peer(p) \in Side /\ Peer(p) # p /\ Peer(Peer(p)) = p
BY DEF Side, Peer

LEMMA Distinct ==
  /\ \A s, k, l : Key(s, k) = Key(s, l) => k = l
  /\ \A s, k : Key(s, k) # NoKey /\ <<s, k>> # NoKey
  /\ \A s, k, n : CipherAt(s, k, n).key = Key(s, k) /\ CipherAt(s, k, n).nonce = n
  /\ NoCipher.key = NoKey /\ NoCipher.nonce = -1
<1>1. \A s, k : <<s, k>> # NoKey
  BY DEF NoKey
<1>2. \A s, k, l : Key(s, k) = Key(s, l) => k = l
  <2> SUFFICES ASSUME NEW s, NEW k, NEW l, Key(s, k) = Key(s, l) PROVE k = l
    OBVIOUS
  <2>1. Key(s, k).salt = <<s, k>> /\ Key(s, l).salt = <<s, l>>
    BY DEF Key
  <2>2. <<s, k>>[2] = k /\ <<s, l>>[2] = l
    OBVIOUS
  <2> QED BY <2>1, <2>2
<1>3. \A s, k : Key(s, k) # NoKey
  BY DEF Key, NoKey
<1>4. \A s, k, n : CipherAt(s, k, n).key = Key(s, k) /\ CipherAt(s, k, n).nonce = n
  BY DEF CipherAt
<1>5. NoCipher.key = NoKey /\ NoCipher.nonce = -1
  BY DEF NoCipher
<1> QED BY <1>1, <1>2, <1>3, <1>4, <1>5

LEMMA CipherTypes ==
  /\ NoCipher \in Ciphers
  /\ \A s \in Side, k \in Nat, n \in Nonces :
       /\ CipherAt(s, k, n) \in Ciphers /\ CipherAt(s, k, n) # NoCipher
       /\ Bump(CipherAt(s, k, n)) = CipherAt(s, k, After(n))
<1>1. NoCipher \in Ciphers
  BY DEF NoCipher, Ciphers
<1>2. ASSUME NEW s \in Side, NEW k \in Nat, NEW n \in Nonces
      PROVE  /\ CipherAt(s, k, n) \in Ciphers /\ CipherAt(s, k, n) # NoCipher
             /\ Bump(CipherAt(s, k, n)) = CipherAt(s, k, After(n))
  <2>1. n \in Int /\ n # -1
    BY RekeyAssumption DEF Nonces
  <2>2. CipherAt(s, k, n) \in Ciphers
    BY <2>1 DEF CipherAt, Ciphers
  <2>3. CipherAt(s, k, n) # NoCipher
    BY <2>1, Distinct
  <2>4. Bump(CipherAt(s, k, n)) = CipherAt(s, k, After(n))
    BY DEF Bump, CipherAt, After
  <2> QED BY <2>2, <2>3, <2>4
<1> QED BY <1>1, <1>2

\* The keys that both ends derive from their k-th private keys.
LEMMA Derived ==
  ASSUME NEW p \in Side, NEW k
  PROVE  /\ Cipher(SendKey(<<p, k>>, <<Peer(p), k>>)) = CipherAt(p, k, 0)
         /\ Cipher(RecvKey(<<p, k>>, <<Peer(p), k>>)) = CipherAt(Peer(p), k, 0)
<1>1. Peer(Peer(p)) = p /\ {<<p, k>>, <<Peer(p), k>>} = {<<Peer(p), k>>, <<p, k>>}
  BY Peers
<1> QED BY <1>1 DEF Cipher, SendKey, RecvKey, CipherAt, Key

\* End p at place (c, d, u) reads m with the decryptors o and r as its next ones
\* and is then at place b; the keys of a Rekey are yet to be taken.
ReadsOn(p, c, d, u, m, b, o, r) ==
  \/ /\ \/ m.body = Msg(u + 1) /\ b.u = u + 1
        \/ m.body = KeepAlive /\ b.u = u
     /\ Reads(p, [c EXCEPT !.old = o, !.receiver = r], d)
     /\ Reader([c EXCEPT !.old = o, !.receiver = r], d, b.u) = b
  \/ /\ m.body = RekeyBody(Peer(p), Round(c, d) + 1)
     /\ \E n \in Nonces : /\ r = CipherAt(Peer(p), Round(c, d), n) /\ o = NoCipher
                          /\ b = At(Round(c, d), n, u, Round(c, d) + 1)

\* The receiver can read what leads on from its place, and is then at the place
\* that it leads to.
LEMMA Decrypt ==
  ASSUME NEW p \in Side, NEW c \in Channel, NEW d, NEW u \in Nat, NEW m, NEW b,
         c.phase = "open", Keyed(p, c, d), Leads(Peer(p), Reader(c, d, u), m, b)
  PROVE  /\ Decrypts(c, m) /\ m.t = "enc" /\ b \in Place
         /\ \E o, r \in Ciphers :
              TryDecrypt(c, m) = [c EXCEPT !.old = o, !.receiver = r] /\ ReadsOn(p, c, d, u, m, b, o, r)
<1> DEFINE s == Peer(p)
           k == Round(c, d)
           a == Reader(c, d, u)
<1>1. s \in Side /\ k \in Nat /\ k >= 1 /\ k - 1 \in Nat /\ 0 \in Nonces
  BY Peers, AfterNonce, RekeyAssumption DEF Keyed, Nonces
<1>2. PICK n \in Nonces :
        \/ c.old = NoCipher /\ c.receiver = CipherAt(s, k, n)
        \/ k > 1 /\ c.old = CipherAt(s, k - 1, n) /\ c.receiver = CipherAt(s, k, 0)
  BY DEF Keyed, Reads
<1>3. PICK e \in Place : Turns(a, e) /\ Carries(s, e, m, b)
  BY DEF Leads
<1>4. m.t = "enc" /\ m.key = Key(s, e.k) /\ m.nonce = e.n
  BY <1>3 DEF Carries
<1>5. b \in Place
  BY <1>3, CarriesPlace
<1> HIDE DEF k
\* What is read at round l, and the place that it leads to.
<1> DEFINE Body(l, i) ==
      \/ m.body = Msg(u + 1) /\ b = At(l, i, u + 1, k)
      \/ m.body = KeepAlive /\ b = At(l, i, u, k)
      \/ l = k /\ m.body = RekeyBody(s, k + 1) /\ b = At(l, i, u, k + 1)
           New(o, r) == [c EXCEPT !.old = o, !.receiver = r]
           Goal(o, r) ==
      \/ /\ \/ m.body = Msg(u + 1) /\ b.u = u + 1
            \/ m.body = KeepAlive /\ b.u = u
         /\ Reads(p, New(o, r), d)
         /\ Reader(New(o, r), d, b.u) = b
      \/ /\ m.body = RekeyBody(s, k + 1)
         /\ \E i \in Nonces : /\ r = CipherAt(s, k, i) /\ o = NoCipher
                              /\ b = At(k, i, u, k + 1)
<1>6. ASSUME e.u = u, e.x = k PROVE Body(e.k, After(e.n))
  BY <1>3, <1>6 DEF Carries
<1>7. After(n) \in Nonces /\ After(0) \in Nonces /\ \A i \in Nonces : i \in Int /\ i # -1
  BY <1>1, AfterNonce, RekeyAssumption DEF Nonces
<1>8. ASSUME NEW o \in Ciphers, NEW r \in Ciphers
      PROVE  New(o, r).old = o /\ New(o, r).receiver = r /\ Round(New(o, r), d) = k /\ New(o, r).phase = "open"
  BY DEF Channel, Round, k
<1>9. Msg(u + 1) # KeepAlive /\ \A i, j, v, x : At(i, j, v, x).u = v
  BY DEF Msg, KeepAlive, At
<1>10. ASSUME NEW i \in Nonces, Body(k, i), CipherAt(s, k, i) \in Ciphers
       PROVE  Goal(NoCipher, CipherAt(s, k, i))
  <2> DEFINE r == CipherAt(s, k, i)
             f == New(NoCipher, r)
  <2>0. NoCipher \in Ciphers /\ r \in Ciphers
    BY ONLY <1>10, CipherTypes
  <2>1. /\ f.old = NoCipher /\ f.receiver = r /\ Round(f, d) = k /\ f.phase = "open"
    BY ONLY <1>8, <2>0
  <2> HIDE DEF f
  <2>2. Reads(p, f, d)
    BY <2>1 DEF Reads
  <2>3. \A v : Reader(f, d, v) = At(k, i, v, k)
    BY <2>1, Distinct DEF Reader
  <2> QED BY <1>9, <1>10, <2>2, <2>3 DEF f
<1>11. ASSUME NEW i \in Nonces, Body(k - 1, i), k > 1
       PROVE  Goal(CipherAt(s, k - 1, i), CipherAt(s, k, 0))
  <2> DEFINE o == CipherAt(s, k - 1, i)
             r == CipherAt(s, k, 0)
             f == New(o, r)
  <2>1. o \in Ciphers /\ r \in Ciphers /\ o # NoCipher
    BY <1>1, CipherTypes
  <2>2. /\ f.old = o /\ f.receiver = r /\ Round(f, d) = k /\ f.phase = "open"
    BY <1>8, <2>1
  <2> HIDE DEF f
  <2>3. Reads(p, f, d)
    BY <1>11, <2>2 DEF Reads
  <2>4. \A v : Reader(f, d, v) = At(k - 1, i, v, k)
    BY <2>1, <2>2, Distinct DEF Reader
  <2>5. k - 1 # k
    BY <1>1
  <2> QED BY <1>9, <1>11, <2>3, <2>4, <2>5 DEF f
<1>12. ASSUME NEW o \in Ciphers, NEW r \in Ciphers, TryDecrypt(c, m) = New(o, r), Decrypts(c, m), Goal(o, r)
       PROVE  /\ Decrypts(c, m) /\ m.t = "enc" /\ b \in Place
              /\ \E o1, r1 \in Ciphers : TryDecrypt(c, m) = New(o1, r1) /\ Goal(o1, r1)
  BY <1>4, <1>5, <1>12
<1>13. ASSUME c.old = NoCipher, c.receiver = CipherAt(s, k, n)
       PROVE  \E o, r \in Ciphers : TryDecrypt(c, m) = New(o, r) /\ Decrypts(c, m) /\ Goal(o, r)
  <2>1. a = At(k, n, u, k)
    BY <1>13, Distinct DEF Reader, k
  <2>2. e = At(k, n, u, k)
    BY <1>1, <1>3, <2>1 DEF Turns, At
  <2>3. e.k = k /\ e.n = n /\ e.u = u /\ e.x = k
    BY <2>2 DEF At
  <2>4. ~Opens(c.old, m) /\ Opens(c.receiver, m)
    BY <1>4, <1>7, <1>13, <2>3, Distinct DEF Opens
  <2>5. CipherAt(s, k, After(n)) \in Ciphers /\ Bump(CipherAt(s, k, n)) = CipherAt(s, k, After(n))
    BY <1>1, <1>7, CipherTypes
  <2>6. TryDecrypt(c, m) = New(NoCipher, CipherAt(s, k, After(n)))
    BY <1>13, <2>4, <2>5 DEF TryDecrypt, Channel
  <2>7. Goal(NoCipher, CipherAt(s, k, After(n)))
    BY <1>6, <1>7, <1>10, <2>3, <2>5
  <2> HIDE DEF Goal, New
  <2> QED BY <2>4, <2>5, <2>6, <2>7, CipherTypes DEF Decrypts
<1>14. ASSUME k > 1, c.old = CipherAt(s, k - 1, n), c.receiver = CipherAt(s, k, 0)
       PROVE  \E o, r \in Ciphers : TryDecrypt(c, m) = New(o, r) /\ Decrypts(c, m) /\ Goal(o, r)
  <2>1. c.old # NoCipher
    BY <1>1, <1>14, CipherTypes
  <2>2. a = At(k - 1, n, u, k)
    BY <1>14, <2>1, Distinct DEF Reader, k
  <2>3. e = At(k - 1, n, u, k) \/ e = At(k, 0, u, k)
    BY <1>1, <1>3, <2>2 DEF Turns, At
  <2>4. CASE e = At(k - 1, n, u, k)
    <3>1. e.k = k - 1 /\ e.n = n /\ e.u = u /\ e.x = k
      BY <2>4 DEF At
    <3>2. Opens(c.old, m)
      BY <1>4, <1>14, <3>1, Distinct DEF Opens
    <3>3. /\ CipherAt(s, k - 1, After(n)) \in Ciphers /\ CipherAt(s, k, 0) \in Ciphers
          /\ Bump(CipherAt(s, k - 1, n)) = CipherAt(s, k - 1, After(n))
      BY <1>1, <1>7, CipherTypes
    <3>4. TryDecrypt(c, m) = New(CipherAt(s, k - 1, After(n)), CipherAt(s, k, 0))
      BY <1>14, <3>2, <3>3 DEF TryDecrypt, Channel
    <3>5. Goal(CipherAt(s, k - 1, After(n)), CipherAt(s, k, 0))
      BY <1>6, <1>7, <1>11, <1>14, <3>1
    <3> HIDE DEF Goal, New
    <3> QED BY <3>2, <3>3, <3>4, <3>5 DEF Decrypts
  <2>5. CASE e = At(k, 0, u, k)
    <3>1. e.k = k /\ e.n = 0 /\ e.u = u /\ e.x = k
      BY <2>5 DEF At
    <3>2. Key(s, k - 1) # Key(s, k)
      BY <1>1, Distinct
    <3>3. ~Opens(c.old, m) /\ Opens(c.receiver, m)
      BY <1>4, <1>14, <3>1, <3>2, Distinct DEF Opens
    <3>4. CipherAt(s, k, After(0)) \in Ciphers /\ Bump(CipherAt(s, k, 0)) = CipherAt(s, k, After(0))
      BY <1>1, <1>7, CipherTypes
    <3>5. TryDecrypt(c, m) = New(NoCipher, CipherAt(s, k, After(0)))
      BY <1>14, <3>3, <3>4 DEF TryDecrypt, Channel
    <3>6. Goal(NoCipher, CipherAt(s, k, After(0)))
      BY <1>6, <1>7, <1>10, <3>1, <3>4
    <3> HIDE DEF Goal, New
    <3> QED BY <3>3, <3>4, <3>5, <3>6, CipherTypes DEF Decrypts
  <2> QED BY <2>3, <2>4, <2>5
<1>15. /\ Decrypts(c, m) /\ m.t = "enc" /\ b \in Place
       /\ \E o1, r1 \in Ciphers : TryDecrypt(c, m) = New(o1, r1) /\ Goal(o1, r1)
  <2> HIDE DEF Goal, New
  <2> QED BY <1>2, <1>12, <1>13, <1>14
<1>16. \A o, r : Goal(o, r) <=> ReadsOn(p, c, d, u, m, b, o, r)
  BY DEF ReadsOn, k
<1> HIDE DEF Goal
<1> QED BY <1>15, <1>16

-----------------------------------------------------------------------------
(***************************************************************************)
(* Both ends and the wires.                                                *)
(***************************************************************************)
DhOf(s) == [t |-> "dh", dh |-> <<s, 1>>, nonce |-> <<Peer(s), 0>>, sig |-> s]
Half(p) == [Unopened EXCEPT !.phase = "dh", !.remote = Peer(p), !.dh = <<p, 1>>]

\* A user's messages are numbered.
Numbered(seq) == seq \in Seq(Nat) /\ \A i \in 1..Len(seq) : seq[i] = i

\* The state of end p alone.
End(p, c, d, out, in) ==
  /\ c.why # "garbled"
  /\ c.phase = "nonce" => c = Unopened /\ d = 0 /\ out = <<>> /\ in = <<>>
  /\ c.phase = "dh" => c = Half(p) /\ d = 1 /\ out = <<>> /\ in = <<>>
  /\ c.phase = "open" => Keyed(p, c, d)
  /\ Lost(c) => c.pending = NoKey

\* What comes behind the exchange.
Rest(c, w) ==
  IF c.phase = "open" THEN w ELSE IF c.phase = "dh" /\ w # <<>> THEN Tail(w) ELSE <<>>

\* The wire w to end p with channel c, while the peer's is e: the messages of
\* the exchange come first, and an end that is not open has sent no others.
Met(p, c, e, w) ==
  /\ Lost(c) => w = <<>>
  /\ c.phase = "nonce" =>
       \/ w = <<NonceOf(Peer(p))>> /\ (e.phase = "nonce" \/ Lost(e))
       \/ w = <<NonceOf(Peer(p)), DhOf(Peer(p))>> /\ (e.phase = "dh" \/ Lost(e))
  /\ c.phase = "dh" =>
       \/ w = <<>> /\ (e.phase = "nonce" \/ Lost(e))
       \/ w # <<>> /\ Head(w) = DhOf(Peer(p)) /\ (e.phase \in {"dh", "open"} \/ Lost(e))
  /\ c.phase = "open" => e.phase # "nonce"
  /\ e.phase \in {"nonce", "dh"} => Rest(c, w) = <<>>

\* The stream from s, with channel e, to an end with channel c over the wire w.
Flows(s, e, de, ue, c, dc, uc, w) ==
  ~Lost(c) => \E z : /\ Stream(s, Rest(c, w), Reader(c, dc, uc), z)
                     /\ z.u = ue /\ (~Lost(e) => z = Writer(e, de, ue))

Types ==
  /\ sc \in [Side -> Channel] /\ drawn \in [Side -> Nat]
  /\ DOMAIN wire = Side /\ \A p \in Side : IsQueue(wire[p])
  /\ DOMAIN sent = Side /\ \A p \in Side : Numbered(sent[p])
  /\ rcvd \in [Side -> Seq(Nat)] /\ \A p \in Side : Numbered(rcvd[p])

EndOk(p) == End(p, sc[p], drawn[p], sent[p], rcvd[p])
MetOk(p) == Met(p, sc[p], sc[Peer(p)], wire[p])
FlowOk(s) == Flows(s, sc[s], drawn[s], Len(sent[s]),
                   sc[Peer(s)], drawn[Peer(s)], Len(rcvd[Peer(s)]), wire[Peer(s)])

SInv == Types /\ \A p \in Side : EndOk(p) /\ MetOk(p) /\ FlowOk(p)

LEMMA Short ==
  ASSUME NEW x, NEW y
  PROVE  /\ Head(<<x>>) = x /\ Tail(<<x>>) = <<>> /\ Head(<<x, y>>) = x /\ Tail(<<x, y>>) = <<y>>
         /\ Append(<<>>, x) = <<x>> /\ Append(<<x>>, y) = <<x, y>> /\ <<x>> # <<>> /\ <<x, y>> # <<>>
<1>1. Head(<<x>>) = x /\ Tail(<<x>>) = <<>> /\ Head(<<x, y>>) = x
  OBVIOUS
<1>2. Tail(<<x, y>>) = <<y>>
  OBVIOUS
<1>3. Append(<<>>, x) = <<x>>
  OBVIOUS
<1>4. Append(<<x>>, y) = <<x, y>>
  <2> DEFINE s == Append(<<x>>, y)
  <2>1. s \in Seq({x, y}) /\ Len(s) = 2 /\ s[1] = x /\ s[2] = y
    OBVIOUS
  <2> HIDE DEF s
  <2>2. s = <<x, y>>
    BY <2>1
  <2> QED BY <2>2 DEF s
<1>5. <<x>> # <<>> /\ <<x, y>> # <<>>
  OBVIOUS
<1> QED BY <1>1, <1>2, <1>3, <1>4, <1>5

LEMMA NumberedNone == Numbered(<<>>) /\ Len(<<>>) = 0
BY DEF Numbered

LEMMA NumberedNext ==
  ASSUME NEW seq, Numbered(seq)
  PROVE  /\ Len(seq) \in Nat /\ Numbered(Append(seq, Len(seq) + 1))
         /\ Len(Append(seq, Len(seq) + 1)) = Len(seq) + 1
BY DEF Numbered

LEMMA UnopenedChannel ==
  /\ Unopened \in Channel /\ \A p \in Side : Half(p) \in Channel
  /\ Unopened.pending = NoKey /\ Unopened.old = NoCipher /\ Unopened.phase = "nonce" /\ Unopened.why = None
  /\ \A p \in Side : /\ Half(p).pending = NoKey /\ Half(p).old = NoCipher /\ Half(p).phase = "dh"
                     /\ Half(p).why = None /\ Half(p).remote = Peer(p) /\ Half(p).dh = <<p, 1>>
<1>1. Unopened \in Channel
  <2>1. NoKey \in Keys /\ "nonce" \in Phases /\ None \in Whys /\ TicksToRekey \in Nat
    BY RekeyAssumption DEF Keys, Phases, Whys
  <2> QED BY <2>1, CipherTypes DEF Unopened, Channel
<1>2. ASSUME NEW p \in Side PROVE Half(p) \in Channel
  <2>1. Peer(p) \in Side /\ <<p, 1>> \in Keys /\ "dh" \in Phases
    BY Peers DEF Keys, Phases
  <2> QED BY <1>1, <2>1 DEF Half, Channel
<1> QED BY <1>1, <1>2 DEF Unopened, Half

\* The sender sends m, and goes over to the next keys or not.
LEMMA FlowSend ==
  ASSUME NEW p, NEW e, NEW d, NEW u, NEW f, NEW d2, NEW u2, NEW c, NEW dc, NEW uc, NEW w, NEW m, NEW y,
         Flows(p, e, d, u, c, dc, uc, w), IsQueue(w), e.phase = "open", f.phase = "open",
         ~Lost(c), c.phase = "open" \/ (c.phase = "dh" /\ w # <<>>),
         Carries(p, Writer(e, d, u), m, y), Turns(y, Writer(f, d2, u2)), Writer(f, d2, u2).u = u2
  PROVE  Flows(p, f, d2, u2, c, dc, uc, Append(w, m))
<1> DEFINE r == Rest(c, w)
           a == Reader(c, dc, uc)
           z == Writer(e, d, u)
           v == Writer(f, d2, u2)
<1>1. Stream(p, r, a, z)
  BY DEF Flows, Lost
<1>2. IsQueue(r) /\ Rest(c, Append(w, m)) = Append(r, m)
  <2>1. CASE c.phase = "open"
    BY <2>1 DEF Rest
  <2>2. CASE c.phase = "dh" /\ w # <<>>
    <3>1. w \in Seq(ToSet(w) \cup {m})
      BY DEF IsQueue
    <3>2. Tail(Append(w, m)) = Append(Tail(w), m) /\ Append(w, m) # <<>>
      BY <2>2, <3>1
    <3>3. IsQueue(Tail(w))
      BY <2>2, TailQueue
    <3> QED BY <2>2, <3>2, <3>3 DEF Rest
  <2> QED BY <2>1, <2>2
<1> HIDE DEF r, a, z, v
<1>3. Stream(p, Append(r, m), a, y)
  BY <1>1, <1>2, StreamAppend DEF z
<1>4. Stream(p, Append(r, m), a, v)
  <2>1. IsQueue(Append(r, m)) /\ Turns(y, v)
    BY <1>2, AppendQueue DEF v
  <2> QED BY <1>3, <2>1, StreamTurns
<1> QED BY <1>2, <1>4 DEF Flows, a, v

\* The sender changes its keys, or nothing in its stream.
LEMMA FlowTurn ==
  ASSUME NEW p, NEW e, NEW d, NEW u, NEW f, NEW d2, NEW c, NEW dc, NEW uc, NEW w,
         Flows(p, e, d, u, c, dc, uc, w), IsQueue(Rest(c, w)), ~Lost(e),
         Turns(Writer(e, d, u), Writer(f, d2, u)), Writer(f, d2, u).u = u
  PROVE  Flows(p, f, d2, u, c, dc, uc, w)
<1> SUFFICES ASSUME ~Lost(c)
             PROVE  \E z : /\ Stream(p, Rest(c, w), Reader(c, dc, uc), z)
                           /\ z.u = u /\ (~Lost(f) => z = Writer(f, d2, u))
  BY DEF Flows
<1> DEFINE z == Writer(e, d, u)
           v == Writer(f, d2, u)
           a == Reader(c, dc, uc)
           r == Rest(c, w)
<1>1. Stream(p, r, a, z)
  BY DEF Flows
<1>2. Turns(z, v) /\ IsQueue(r)
  OBVIOUS
<1> HIDE DEF z, v, a, r
<1>3. Stream(p, r, a, v)
  BY <1>1, <1>2, StreamTurns
<1> QED BY <1>3 DEF v, a, r

\* The sender is gone.
LEMMA FlowLost ==
  ASSUME NEW p, NEW e, NEW d, NEW u, NEW f, NEW d2, NEW c, NEW dc, NEW uc, NEW w,
         Flows(p, e, d, u, c, dc, uc, w), Lost(f)
  PROVE  Flows(p, f, d2, u, c, dc, uc, w)
BY DEF Flows

\* The receiver takes a message.
LEMMA FlowRead ==
  ASSUME NEW s, NEW e, NEW d, NEW u, NEW c, NEW dc, NEW uc, NEW w,
         Flows(s, e, d, u, c, dc, uc, w), IsQueue(w), w # <<>>, c.phase = "open"
  PROVE  \E b : /\ Leads(s, Reader(c, dc, uc), Head(w), b)
                /\ \A f, df, uf : f.phase = "open" /\ Reader(f, df, uf) = b
                                    => Flows(s, e, d, u, f, df, uf, Tail(w))
<1>1. PICK z : /\ Stream(s, w, Reader(c, dc, uc), z)
               /\ z.u = u /\ (~Lost(e) => z = Writer(e, d, u))
  BY DEF Flows, Lost, Rest
<1>2. PICK b : Leads(s, Reader(c, dc, uc), Head(w), b) /\ Stream(s, Tail(w), b, z)
  BY <1>1, StreamHead
<1>3. ASSUME NEW f, NEW df, NEW uf, f.phase = "open", Reader(f, df, uf) = b
      PROVE  Flows(s, e, d, u, f, df, uf, Tail(w))
  BY <1>1, <1>2, <1>3 DEF Flows, Lost, Rest
<1> QED BY <1>2, <1>3

\* A step of p that leaves the state of the peer alone.
LEMMA StepOf ==
  ASSUME Types', NEW p \in Side, SInv,
         LET s == Peer(p) IN
         /\ sc'[s] = sc[s] /\ drawn'[s] = drawn[s] /\ sent'[s] = sent[s] /\ rcvd'[s] = rcvd[s]
         /\ EndOk(p)' /\ MetOk(p)' /\ MetOk(s)' /\ FlowOk(p)' /\ FlowOk(s)'
  PROVE  SInv'
<1>1. Peer(p) \in Side /\ \A q \in Side : q = p \/ q = Peer(p)
  BY DEF Side, Peer
<1>2. EndOk(Peer(p))'
  BY <1>1 DEF SInv, EndOk
<1> QED BY <1>1, <1>2 DEF SInv

-----------------------------------------------------------------------------
(***************************************************************************)
(* The steps of one end.                                                   *)
(***************************************************************************)
LEMMA StartPlace == Start \in Place /\ Start.u = 0 /\ Turns(Start, Start)
BY AfterNonce, AtPlace, RekeyAssumption DEF Start, Turns, Nonces, At, Place

LEMMA InitSInv == TInit => SInv
<1> SUFFICES ASSUME TInit PROVE SInv
  OBVIOUS
<1>1. /\ sc = [s \in Side |-> Unopened] /\ drawn = [s \in Side |-> 0]
      /\ wire = [s \in Side |-> <<NonceOf(Peer(s))>>]
      /\ sent = [s \in Side |-> <<>>] /\ rcvd = [s \in Side |-> <<>>]
  BY DEF TInit, SCInit
<1>2. Types
  <2>1. \A p \in Side : IsQueue(<<NonceOf(Peer(p))>>)
    BY SingleQueue
  <2> QED BY <1>1, <2>1, UnopenedChannel, NumberedNone DEF Types
<1>3. ASSUME NEW p \in Side PROVE EndOk(p) /\ MetOk(p) /\ FlowOk(p)
  <2> DEFINE s == Peer(p)
  <2>1. /\ s \in Side /\ sc[p] = Unopened /\ sc[s] = Unopened /\ drawn[p] = 0 /\ sent[p] = <<>> /\ rcvd[p] = <<>>
        /\ wire[p] = <<NonceOf(s)>> /\ rcvd[s] = <<>> /\ Unopened.phase = "nonce" /\ Unopened.why = "none"
    BY <1>1, Peers, UnopenedChannel DEF None
  <2>2. EndOk(p) /\ MetOk(p)
    BY <2>1 DEF EndOk, MetOk, End, Met, Lost, Rest
  <2>3. Stream(p, <<>>, Start, Start)
    BY StartPlace, StreamNone
  <2>4. FlowOk(p)
    BY <2>1, <2>3, StartPlace, NumberedNone DEF FlowOk, Flows, Lost, Rest, Reader, Writer
  <2> QED BY <2>2, <2>4
<1> QED BY <1>2, <1>3 DEF SInv

LEMMA SInvParts ==
  ASSUME SInv, NEW p \in Side
  PROVE  /\ Peer(p) \in Side /\ Peer(p) # p /\ Peer(Peer(p)) = p
         /\ sc[p] \in Channel /\ drawn[p] \in Nat /\ IsQueue(wire[p])
         /\ Numbered(sent[p]) /\ Numbered(rcvd[p]) /\ Len(sent[p]) \in Nat /\ Len(rcvd[p]) \in Nat
         /\ End(p, sc[p], drawn[p], sent[p], rcvd[p])
         /\ Met(p, sc[p], sc[Peer(p)], wire[p])
         /\ Met(Peer(p), sc[Peer(p)], sc[p], wire[Peer(p)])
         /\ Flows(p, sc[p], drawn[p], Len(sent[p]), sc[Peer(p)], drawn[Peer(p)], Len(rcvd[Peer(p)]), wire[Peer(p)])
         /\ Flows(Peer(p), sc[Peer(p)], drawn[Peer(p)], Len(sent[Peer(p)]), sc[p], drawn[p], Len(rcvd[p]), wire[p])
         /\ sc[p].phase \in Phases
<1>1. Peer(p) \in Side /\ Peer(p) # p /\ Peer(Peer(p)) = p
  BY Peers
<1>2. Numbered(sent[p]) /\ Numbered(rcvd[p]) /\ Len(sent[p]) \in Nat /\ Len(rcvd[p]) \in Nat
  BY NumberedNext DEF SInv, Types
<1>3. sc[p] \in Channel /\ drawn[p] \in Nat /\ IsQueue(wire[p]) /\ sc[p].phase \in Phases
  BY DEF SInv, Types, Channel
<1>4. End(p, sc[p], drawn[p], sent[p], rcvd[p])
  BY DEF SInv, EndOk
<1>5. /\ Met(p, sc[p], sc[Peer(p)], wire[p])
      /\ Met(Peer(p), sc[Peer(p)], sc[p], wire[Peer(p)])
  BY <1>1 DEF SInv, MetOk
<1>6. /\ Flows(p, sc[p], drawn[p], Len(sent[p]), sc[Peer(p)], drawn[Peer(p)], Len(rcvd[Peer(p)]), wire[Peer(p)])
      /\ Flows(Peer(p), sc[Peer(p)], drawn[Peer(p)], Len(sent[Peer(p)]), sc[p], drawn[p], Len(rcvd[p]), wire[p])
  BY <1>1 DEF SInv, FlowOk
<1> QED BY <1>1, <1>2, <1>3, <1>4, <1>5, <1>6

\* An end goes away: its user has gone, its peer has, or it has stopped.
LEMMA Leaving ==
  ASSUME SInv, NEW p \in Side, NEW ph \in {"closed", "dead"}, NEW why \in Whys \ {"garbled"},
         sc' = [sc EXCEPT ![p] = [Unopened EXCEPT !.phase = ph, !.why = why]],
         wire' = [wire EXCEPT ![p] = <<>>],
         drawn' \in [Side -> Nat], \A q \in Side : q # p => drawn'[q] = drawn[q],
         UNCHANGED <<sent, rcvd>>
  PROVE  SInv'
<1> DEFINE s == Peer(p)
           c == [Unopened EXCEPT !.phase = ph, !.why = why]
<1>1. c \in Channel /\ c.phase = ph /\ c.why = why /\ c.pending = NoKey
  BY UnopenedChannel DEF Channel, Phases
<1>2. s \in Side /\ s # p /\ Peer(s) = p
  BY Peers
<1>3. sc'[p] = c /\ sc'[s] = sc[s] /\ drawn'[s] = drawn[s] /\ wire'[p] = <<>> /\ wire'[s] = wire[s]
  BY <1>2 DEF SInv, Types
<1>4. Types'
  BY <1>1, EmptyQueue DEF SInv, Types
<1> HIDE DEF c
<1>5. EndOk(p)' /\ MetOk(p)' /\ FlowOk(s)'
  BY <1>1, <1>2, <1>3 DEF EndOk, End, MetOk, Met, FlowOk, Flows, Lost, Rest
<1>6. MetOk(s)'
  BY <1>1, <1>2, <1>3, SInvParts DEF MetOk, Met, Lost
<1>7. FlowOk(p)'
  <2>1. Lost(c)
    BY <1>1 DEF Lost
  <2>2. Flows(p, sc[p], drawn[p], Len(sent[p]), sc[s], drawn[s], Len(rcvd[s]), wire[s])
    BY SInvParts
  <2>3. Flows(p, c, drawn'[p], Len(sent[p]), sc[s], drawn[s], Len(rcvd[s]), wire[s])
    BY <2>1, <2>2, FlowLost
  <2> QED BY <1>2, <1>3, <2>3 DEF FlowOk
<1> QED BY <1>2, <1>3, <1>4, <1>5, <1>6, <1>7, StepOf

LEMMA CloseSInv ==
  ASSUME SInv, NEW p \in Side, NEW why \in Whys \ {"garbled"}, Close(p, why),
         drawn' = drawn \/ Draw(p), UNCHANGED <<sent, rcvd>>
  PROVE  SInv'
<1>1. drawn \in [Side -> Nat]
  BY DEF SInv, Types
<1>2. drawn' \in [Side -> Nat] /\ \A q \in Side : q # p => drawn'[q] = drawn[q]
  BY <1>1 DEF Draw
<1> QED BY <1>2, Leaving DEF Close

\* The nonce of the peer.
LEMMA ExchangeNonceSInv ==
  ASSUME SInv, NEW p \in Side, HandleExchangeRandNonce(p), UNCHANGED <<sent, rcvd>>
  PROVE  SInv'
<1> DEFINE s == Peer(p)
           m == Head(wire[p])
           dh == [t |-> "dh", dh |-> Fresh(p), nonce |-> m.nonce, sig |-> p]
<1>1. sc[p].phase = "nonce" /\ wire[p] # <<>> /\ Draw(p)
  BY DEF HandleExchangeRandNonce
<1>2. CASE Close(p, "unexpected")
  BY <1>1, <1>2, CloseSInv DEF Whys, None
<1>3. CASE /\ sc' = [sc EXCEPT ![p] = [@ EXCEPT !.phase = "dh", !.remote = m.pk, !.dh = Fresh(p)]]
           /\ wire' = Put(Take(wire, p), p, dh)
  <2>1. /\ s \in Side /\ s # p /\ Peer(s) = p /\ DOMAIN wire = Side /\ sc \in [Side -> Channel]
        /\ sc[p] = Unopened /\ drawn[p] = 0 /\ sent[p] = <<>> /\ rcvd[p] = <<>>
        /\ IsQueue(wire[s]) /\ IsQueue(wire[p]) /\ drawn \in [Side -> Nat]
    BY <1>1, SInvParts DEF End, SInv, Types
  <2>2. \/ wire[p] = <<NonceOf(s)>> /\ (sc[s].phase = "nonce" \/ Lost(sc[s]))
        \/ wire[p] = <<NonceOf(s), DhOf(s)>> /\ (sc[s].phase = "dh" \/ Lost(sc[s]))
    BY <1>1, SInvParts DEF Met
  <2>3. m = NonceOf(s) /\ (Tail(wire[p]) = <<>> \/ Tail(wire[p]) = <<DhOf(s)>>)
    <3> DEFINE n == NonceOf(s)
               k == DhOf(s)
    <3>1. /\ Head(<<n>>) = n /\ Tail(<<n>>) = <<>> /\ Head(<<n, k>>) = n /\ Tail(<<n, k>>) = <<k>>
      BY Short
    <3>2. wire[p] = <<n>> \/ wire[p] = <<n, k>>
      BY <2>2
    <3> HIDE DEF n, k
    <3> QED BY <3>1, <3>2 DEF n, k
  <2>4. m.nonce = <<s, 0>> /\ m.pk = s /\ Fresh(p) = <<p, 1>>
    BY <2>1, <2>3 DEF NonceOf, Fresh
  <2>5. dh = DhOf(p)
    BY <2>4 DEF DhOf
  <2>6. sc'[p] = Half(p) /\ sc'[s] = sc[s] /\ sc' \in [Side -> Channel]
    BY <1>3, <2>1, <2>4, UnopenedChannel DEF Half
  <2>7. /\ wire'[p] = Tail(wire[p]) /\ DOMAIN wire' = Side
        /\ wire'[s] = IF Lost(sc[s]) THEN wire[s] ELSE Append(wire[s], DhOf(p))
    BY <1>3, <2>1, <2>5 DEF Put, Take, Gone, Lost
  <2>8. drawn' \in [Side -> Nat] /\ drawn'[p] = 1 /\ drawn'[s] = drawn[s]
    BY <1>1, <2>1 DEF Draw
  <2>9. Types'
    <3>1. IsQueue(wire'[p]) /\ IsQueue(wire'[s])
      BY <1>1, <2>1, <2>7, TailQueue, AppendQueue
    <3>2. \A q \in Side : q = p \/ q = s
      BY DEF Side, Peer
    <3> QED BY <2>6, <2>7, <2>8, <3>1, <3>2 DEF Types, SInv
  <2>10. Half(p).phase = "dh" /\ Half(p).why = None /\ ~Lost(Half(p)) /\ Half(p).pending = NoKey
    BY UnopenedChannel DEF Lost
  <2>11. EndOk(p)'
    BY <2>1, <2>6, <2>8, <2>10 DEF EndOk, End, None
  <2>12. MetOk(p)'
    <3>1. \/ wire'[p] = <<>> /\ (sc[s].phase = "nonce" \/ Lost(sc[s]))
          \/ wire'[p] # <<>> /\ Head(wire'[p]) = DhOf(s) /\ (sc[s].phase = "dh" \/ Lost(sc[s]))
      <4> DEFINE n == NonceOf(s)
                 k == DhOf(s)
      <4>1. /\ Tail(<<n>>) = <<>> /\ Tail(<<n, k>>) = <<k>> /\ Head(<<k>>) = k /\ <<k>> # <<>>
        BY Short
      <4>2. \/ wire[p] = <<n>> /\ (sc[s].phase = "nonce" \/ Lost(sc[s]))
            \/ wire[p] = <<n, k>> /\ (sc[s].phase = "dh" \/ Lost(sc[s]))
        BY <2>2
      <4> HIDE DEF n, k
      <4> QED BY <2>7, <4>1, <4>2 DEF k
    <3>2. Rest(Half(p), wire'[p]) = <<>>
      BY <2>3, <2>7, <2>10 DEF Rest
    <3> QED BY <2>6, <2>10, <3>1, <3>2 DEF MetOk, Met
  <2>13. Lost(sc[s]) \/ sc[s].phase \in {"nonce", "dh"}
    BY <2>2
  <2>14. \/ Lost(sc[s]) /\ wire[s] = <<>>
         \/ sc[s].phase = "nonce" /\ wire[s] = <<NonceOf(p)>>
         \/ sc[s].phase = "dh" /\ wire[s] = <<>>
    BY <1>1, <2>1, <2>13, SInvParts DEF Met, Lost
  <2>15. \/ Lost(sc[s]) /\ wire'[s] = <<>>
         \/ sc[s].phase = "nonce" /\ wire'[s] = <<NonceOf(p), DhOf(p)>>
         \/ sc[s].phase = "dh" /\ wire'[s] = <<DhOf(p)>>
    BY <2>7, <2>14, Short DEF Lost
  <2>16. MetOk(s)'
    <3>1. Lost(sc[s]) \/ Rest(sc[s], wire'[s]) = <<>>
      BY <2>15, Short DEF Rest
    <3>2. Lost(sc[s]) => Rest(sc[s], wire'[s]) = <<>>
      BY <2>15 DEF Rest, Lost
    <3> QED BY <2>1, <2>6, <2>10, <2>15, <3>1, <3>2, Short DEF MetOk, Met, Lost
  <2>17. Stream(p, <<>>, Start, Start) /\ Len(sent'[p]) = 0 /\ Start.u = 0
    BY <2>1, StartPlace, StreamNone
  <2>18. FlowOk(p)'
    <3>1. Lost(sc[s]) \/ (Rest(sc[s], wire'[s]) = <<>> /\ sc[s].phase # "open")
      BY <2>15, Short DEF Rest
    <3> QED BY <2>1, <2>6, <2>10, <2>17, <3>1 DEF FlowOk, Flows, Reader, Writer
  <2>19. FlowOk(s)'
    <3>1. Rest(Half(p), wire'[p]) = <<>>
      BY <2>3, <2>7, <2>10 DEF Rest
    <3>2. Rest(sc[p], wire[p]) = <<>> /\ ~Lost(sc[p])
      BY <1>1 DEF Rest, Lost
    <3>3. Reader(sc[p], drawn[p], Len(rcvd[p])) = Start /\ Reader(Half(p), 1, Len(rcvd[p])) = Start
      BY <1>1, <2>10 DEF Reader
    <3>4. Flows(s, sc[s], drawn[s], Len(sent[s]), sc[p], drawn[p], Len(rcvd[p]), wire[p])
      BY SInvParts
    <3>5. Flows(s, sc[s], drawn[s], Len(sent[s]), Half(p), 1, Len(rcvd[p]), wire'[p])
      BY <3>1, <3>2, <3>3, <3>4 DEF Flows
    <3> QED BY <2>1, <2>6, <2>8, <3>5 DEF FlowOk
  <2> QED BY <2>6, <2>8, <2>9, <2>11, <2>12, <2>16, <2>18, <2>19, StepOf
<1> QED BY <1>2, <1>3 DEF HandleExchangeRandNonce

LEMMA AppendHead ==
  ASSUME NEW w, NEW m, IsQueue(w)
  PROVE  Append(w, m) # <<>> /\ (w # <<>> => Head(Append(w, m)) = Head(w))
<1>1. w \in Seq(ToSet(w) \cup {m})
  BY DEF IsQueue
<1> QED BY <1>1

\* The peer's public key: the channel opens.
LEMMA ExchangeDhSInv ==
  ASSUME SInv, NEW p \in Side, HandleExchangeDh(p), UNCHANGED <<sent, rcvd>>
  PROVE  SInv'
<1> DEFINE s == Peer(p)
           w == wire[p]
           m == Head(w)
           f == [Half(p) EXCEPT !.phase = "open", !.sender = CipherAt(p, 1, 0), !.receiver = CipherAt(s, 1, 0)]
<1>1. sc[p].phase = "dh" /\ w # <<>> /\ drawn' = drawn
  BY DEF HandleExchangeDh
<1>2. /\ s \in Side /\ s # p /\ Peer(s) = p /\ DOMAIN wire = Side /\ sc \in [Side -> Channel]
      /\ sc[p] = Half(p) /\ drawn[p] = 1 /\ sent[p] = <<>> /\ rcvd[p] = <<>> /\ IsQueue(w)
  BY <1>1, SInvParts DEF End, SInv, Types
<1>3. m = DhOf(s) /\ (sc[s].phase \in {"dh", "open"} \/ Lost(sc[s]))
  BY <1>1, SInvParts DEF Met
<1>4. m.nonce = <<p, 0>> /\ m.sig = s /\ m.dh = <<s, 1>> /\ sc[p].remote = s /\ sc[p].dh = <<p, 1>>
  BY <1>2, <1>3, UnopenedChannel DEF DhOf
<1>5. sc' = [sc EXCEPT ![p] = f] /\ wire' = [wire EXCEPT ![p] = Tail(w)]
  <2>1. /\ Cipher(SendKey(sc[p].dh, m.dh)) = CipherAt(p, 1, 0)
        /\ Cipher(RecvKey(sc[p].dh, m.dh)) = CipherAt(s, 1, 0)
    BY <1>4, Derived
  <2> QED BY <1>2, <1>4, <2>1 DEF HandleExchangeDh, Take
<1>6. /\ f \in Channel /\ f.phase = "open" /\ f.why = None /\ f.pending = NoKey /\ f.old = NoCipher
      /\ f.sender = CipherAt(p, 1, 0) /\ f.receiver = CipherAt(s, 1, 0)
  <2>1. CipherAt(p, 1, 0) \in Ciphers /\ CipherAt(s, 1, 0) \in Ciphers /\ "open" \in Phases
    BY <1>2, CipherTypes, AfterNonce, RekeyAssumption DEF Nonces, Phases
  <2> QED BY <2>1, UnopenedChannel DEF Channel
<1> HIDE DEF f
<1>7. /\ sc'[p] = f /\ sc'[s] = sc[s] /\ wire'[p] = Tail(w) /\ wire'[s] = wire[s]
  BY <1>2, <1>5
<1>8. Types'
  BY <1>1, <1>2, <1>5, <1>6, TailQueue DEF SInv, Types
<1>9. Round(f, 1) = 1 /\ 0 \in Nonces
  BY <1>6, RekeyAssumption DEF Round, Nonces
<1>10. EndOk(p)'
  <2>1. Keyed(p, f, 1)
    BY <1>6, <1>9 DEF Keyed, Sends, Reads
  <2> QED BY <1>1, <1>2, <1>6, <1>7, <2>1 DEF EndOk, End, None, Lost
<1>11. MetOk(p)'
  BY <1>1, <1>3, <1>6, <1>7, SInvParts DEF MetOk, Met, Lost, Rest
<1>12. MetOk(s)'
  BY <1>1, <1>2, <1>3, <1>6, <1>7, SInvParts DEF MetOk, Met, Lost
<1>13. /\ Writer(f, 1, 0) = Start /\ Reader(f, 1, 0) = Start
       /\ Writer(sc[p], 1, 0) = Start /\ Reader(sc[p], 1, 0) = Start
  BY <1>1, <1>6, <1>9, Distinct DEF Writer, Reader, Start
<1>14. Len(sent[p]) = 0 /\ Len(rcvd[p]) = 0 /\ ~Lost(sc[p]) /\ ~Lost(f)
  BY <1>1, <1>2, <1>6, NumberedNone DEF Lost
<1>15. FlowOk(p)'
  <2>1. Flows(p, sc[p], 1, 0, sc[s], drawn[s], Len(rcvd[s]), wire[s])
    BY <1>2, <1>14, SInvParts
  <2>2. Flows(p, f, 1, 0, sc[s], drawn[s], Len(rcvd[s]), wire[s])
    BY <1>13, <1>14, <2>1 DEF Flows
  <2> QED BY <1>1, <1>2, <1>7, <1>14, <2>2 DEF FlowOk
<1>16. FlowOk(s)'
  <2>1. Flows(s, sc[s], drawn[s], Len(sent[s]), sc[p], 1, 0, w)
    BY <1>2, <1>14, SInvParts
  <2>2. Rest(sc[p], w) = Tail(w) /\ Rest(f, Tail(w)) = Tail(w)
    BY <1>1, <1>6 DEF Rest
  <2>3. Flows(s, sc[s], drawn[s], Len(sent[s]), f, 1, 0, Tail(w))
    BY <1>13, <1>14, <2>1, <2>2 DEF Flows
  <2> QED BY <1>1, <1>2, <1>7, <1>14, <2>3 DEF FlowOk
<1> QED BY <1>1, <1>7, <1>8, <1>10, <1>11, <1>12, <1>15, <1>16, StepOf

\* An open end p sends m and has then the channel f.
LEMMA Sending ==
  ASSUME SInv, NEW p \in Side, NEW f, NEW m, NEW y,
         sc[p].phase = "open", f.phase = "open",
         sc'[p] = f, sc'[Peer(p)] = sc[Peer(p)], drawn'[Peer(p)] = drawn[Peer(p)],
         rcvd'[Peer(p)] = rcvd[Peer(p)],
         wire'[Peer(p)] = IF Lost(sc[Peer(p)]) THEN wire[Peer(p)] ELSE Append(wire[Peer(p)], m),
         Carries(p, Writer(sc[p], drawn[p], Len(sent[p])), m, y),
         Turns(y, Writer(f, drawn'[p], Len(sent'[p]))),
         Writer(f, drawn'[p], Len(sent'[p])).u = Len(sent'[p])
  PROVE  IsQueue(wire'[Peer(p)]) /\ MetOk(Peer(p))' /\ FlowOk(p)'
<1> DEFINE s == Peer(p)
           c == sc[s]
           w == wire[s]
<1>1. /\ s \in Side /\ Peer(s) = p /\ IsQueue(w) /\ c.phase \in Phases
      /\ Met(s, c, sc[p], w)
      /\ Flows(p, sc[p], drawn[p], Len(sent[p]), c, drawn[s], Len(rcvd[s]), w)
  BY SInvParts
<1>2. Lost(c) \/ c.phase = "open" \/ (c.phase = "dh" /\ w # <<>> /\ Head(w) = DhOf(p))
  BY <1>1 DEF Met, Lost, Phases
<1>3. CASE Lost(c)
  BY <1>1, <1>2, <1>3 DEF MetOk, Met, FlowOk, Flows, Lost
<1>4. CASE ~Lost(c)
  <2>1. wire'[s] = Append(w, m) /\ IsQueue(wire'[s])
    BY <1>1, <1>4, AppendQueue
  <2>3. Append(w, m) # <<>> /\ (w # <<>> => Head(Append(w, m)) = Head(w))
    BY <1>1, AppendHead
  <2>4. MetOk(s)'
    BY <1>1, <1>2, <1>4, <2>1, <2>3 DEF MetOk, Met, Lost
  <2>5. Flows(p, f, drawn'[p], Len(sent'[p]), c, drawn[s], Len(rcvd[s]), Append(w, m))
    <3> HIDE DEF c, w, s
    <3> QED BY <1>1, <1>2, <1>4, FlowSend
  <2> QED BY <1>1, <2>1, <2>4, <2>5 DEF FlowOk
<1> QED BY <1>3, <1>4

\* An open end p sends nothing; it goes over to the next keys, or not.
LEMMA Resting ==
  ASSUME SInv, NEW p \in Side, NEW f,
         sc[p].phase = "open", f.phase = "open",
         sc'[p] = f, sc'[Peer(p)] = sc[Peer(p)], drawn'[Peer(p)] = drawn[Peer(p)],
         rcvd'[Peer(p)] = rcvd[Peer(p)], wire'[Peer(p)] = wire[Peer(p)], sent'[p] = sent[p],
         Turns(Writer(sc[p], drawn[p], Len(sent[p])), Writer(f, drawn'[p], Len(sent[p])))
  PROVE  MetOk(Peer(p))' /\ FlowOk(p)'
<1> DEFINE s == Peer(p)
           c == sc[s]
           w == wire[s]
           u == Len(sent[p])
<1>1. /\ s \in Side /\ Peer(s) = p /\ IsQueue(w) /\ Met(s, c, sc[p], w)
      /\ Flows(p, sc[p], drawn[p], u, c, drawn[s], Len(rcvd[s]), w)
  BY SInvParts
<1>2. MetOk(s)'
  BY <1>1 DEF MetOk, Met, Lost
<1>3. IsQueue(Rest(c, w)) /\ ~Lost(sc[p])
  BY <1>1, TailQueue, EmptyQueue DEF Rest, Lost
<1>4. Writer(f, drawn'[p], u).u = u
  BY DEF Writer, At
<1>5. Flows(p, f, drawn'[p], u, c, drawn[s], Len(rcvd[s]), w)
  <2> HIDE DEF c, w, s, u
  <2>1. Turns(Writer(sc[p], drawn[p], u), Writer(f, drawn'[p], u))
    BY DEF u
  <2> QED BY <1>1, <1>3, <1>4, <2>1, FlowTurn
<1> QED BY <1>1, <1>2, <1>5 DEF FlowOk

\* The place that an open end sends from, and its keys after sending.
LEMMA WriterAt ==
  ASSUME NEW p \in Side, NEW c, NEW d, NEW u \in Nat, c.phase = "open", Keyed(p, c, d)
  PROVE  \E n \in Nonces :
           /\ c.sender = CipherAt(p, Round(c, d), n) /\ Writer(c, d, u) = At(Round(c, d), n, u, d)
           /\ Bump(c.sender) = CipherAt(p, Round(c, d), After(n)) /\ After(n) \in Nonces
           /\ Bump(c.sender) \in Ciphers
           /\ \A body : Encrypt(c, body)
                          = [t |-> "enc", key |-> Key(p, Round(c, d)), nonce |-> n, body |-> body]
<1>1. PICK n \in Nonces : c.sender = CipherAt(p, Round(c, d), n)
  BY DEF Keyed, Sends
<1>2. Round(c, d) \in Nat
  BY DEF Keyed
<1>3. c.sender.key = Key(p, Round(c, d)) /\ c.sender.nonce = n
  BY <1>1, Distinct
<1>4. Writer(c, d, u) = At(Round(c, d), n, u, d)
  BY <1>3 DEF Writer
<1>5. Bump(c.sender) = CipherAt(p, Round(c, d), After(n)) /\ After(n) \in Nonces
  BY <1>1, <1>2, CipherTypes, AfterNonce
<1>6. Bump(c.sender) \in Ciphers
  BY <1>2, <1>5, CipherTypes
<1>7. \A body : Encrypt(c, body)
                  = [t |-> "enc", key |-> Key(p, Round(c, d)), nonce |-> n, body |-> body]
  BY <1>3 DEF Encrypt
<1> QED BY <1>1, <1>4, <1>5, <1>6, <1>7

LEMMA CarriesBody ==
  ASSUME NEW p, NEW k \in Nat, NEW n \in Nonces, NEW u \in Nat, NEW x \in Nat, NEW body
  PROVE  LET m == [t |-> "enc", key |-> Key(p, k), nonce |-> n, body |-> body]
             a == At(k, n, u, x)
         IN /\ body = Msg(u + 1) => Carries(p, a, m, At(k, After(n), u + 1, x))
            /\ body = KeepAlive => Carries(p, a, m, At(k, After(n), u, x))
            /\ body = RekeyBody(p, x + 1) /\ x = k => Carries(p, a, m, At(k, After(n), u, x + 1))
<1> DEFINE m == [t |-> "enc", key |-> Key(p, k), nonce |-> n, body |-> body]
           a == At(k, n, u, x)
<1>1. a.k = k /\ a.n = n /\ a.u = u /\ a.x = x
  BY DEF At
<1>2. m.body = body /\ m = [t |-> "enc", key |-> Key(p, k), nonce |-> n, body |-> m.body]
  OBVIOUS
<1> HIDE DEF a, m
<1>3. /\ body = Msg(u + 1) => Carries(p, a, m, At(k, After(n), u + 1, x))
      /\ body = KeepAlive => Carries(p, a, m, At(k, After(n), u, x))
      /\ body = RekeyBody(p, x + 1) /\ x = k => Carries(p, a, m, At(k, After(n), u, x + 1))
  BY <1>1, <1>2 DEF Carries
<1> QED BY <1>3 DEF a, m

\* What Put does.
LEMMA PutWire ==
  ASSUME SInv, NEW p \in Side, NEW m, NEW v, v = wire \/ v = Take(wire, p), IsQueue(v[p])
  PROVE  /\ DOMAIN Put(v, p, m) = Side /\ Put(v, p, m)[p] = v[p]
         /\ Put(v, p, m)[Peer(p)] = IF Lost(sc[Peer(p)]) THEN wire[Peer(p)] ELSE Append(wire[Peer(p)], m)
<1>1. Peer(p) \in Side /\ Peer(p) # p /\ DOMAIN wire = Side
  BY Peers DEF SInv, Types
<1>2. DOMAIN v = Side /\ v[Peer(p)] = wire[Peer(p)]
  BY <1>1 DEF Take
<1> QED BY <1>1, <1>2 DEF Put, Gone, Lost

LEMMA TwoSides == \A p \in Side : \A q \in Side : q = p \/ q = Peer(p)
BY DEF Side, Peer

\* An open end sends a message of its user, or a keepalive.
LEMMA UserSInv ==
  ASSUME SInv, NEW p \in Side, NEW body, User(p, body), UNCHANGED rcvd,
         \/ body = Msg(Len(sent[p]) + 1) /\ sent' = [sent EXCEPT ![p] = Append(@, Len(sent[p]) + 1)]
         \/ body = KeepAlive /\ UNCHANGED sent
  PROVE  SInv'
<1> DEFINE s == Peer(p)
           c == sc[p]
           d == drawn[p]
           u == Len(sent[p])
           f == [c EXCEPT !.sender = Bump(c.sender)]
           m == Encrypt(c, body)
<1>1. /\ c.phase = "open" /\ sc' = [sc EXCEPT ![p] = f] /\ wire' = Put(wire, p, m) /\ drawn' = drawn
  <2>1. sc' = [sc EXCEPT ![p] = f]
    BY DEF User, Open
  <2>2. wire' = Put(wire, p, m) /\ drawn' = drawn /\ c.phase = "open"
    BY Zenon DEF User, Open
  <2> QED BY <2>1, <2>2
<1>2. /\ s \in Side /\ s # p /\ Peer(s) = p /\ sc \in [Side -> Channel] /\ c \in Channel /\ u \in Nat
      /\ d \in Nat /\ Keyed(p, c, d) /\ IsQueue(wire[p]) /\ c.why # "garbled"
  BY <1>1, SInvParts DEF SInv, Types, End
<1>3. PICK n \in Nonces :
        /\ Writer(c, d, u) = At(Round(c, d), n, u, d)
        /\ Bump(c.sender) = CipherAt(p, Round(c, d), After(n)) /\ After(n) \in Nonces
        /\ Bump(c.sender) \in Ciphers
        /\ m = [t |-> "enc", key |-> Key(p, Round(c, d)), nonce |-> n, body |-> body]
  <2> HIDE DEF c, d, u
  <2>1. \E n \in Nonces :
          /\ c.sender = CipherAt(p, Round(c, d), n) /\ Writer(c, d, u) = At(Round(c, d), n, u, d)
          /\ Bump(c.sender) = CipherAt(p, Round(c, d), After(n)) /\ After(n) \in Nonces
          /\ Bump(c.sender) \in Ciphers
          /\ \A bd : Encrypt(c, bd)
                       = [t |-> "enc", key |-> Key(p, Round(c, d)), nonce |-> n, body |-> bd]
    <3>1. p \in Side /\ u \in Nat /\ c.phase = "open" /\ Keyed(p, c, d)
      BY <1>1, <1>2
    <3> QED BY ONLY <3>1, WriterAt
  <2> QED BY <2>1 DEF m
<1>4. /\ f \in Channel /\ f.phase = "open" /\ f.why = c.why /\ f.pending = c.pending /\ f.old = c.old
      /\ f.sender = Bump(c.sender) /\ f.receiver = c.receiver
  BY <1>1, <1>2, <1>3 DEF Channel
<1> DEFINE u2 == Len(sent'[p])
<1>5. /\ sc'[p] = f /\ sc'[s] = sc[s]
      /\ wire'[p] = wire[p] /\ DOMAIN wire' = Side
      /\ wire'[s] = IF Lost(sc[s]) THEN wire[s] ELSE Append(wire[s], m)
  BY <1>1, <1>2, PutWire
<1> HIDE DEF c, f, m
<1>6. Round(f, d) = Round(c, d) /\ Round(c, d) \in Nat
  BY <1>2, <1>4 DEF Round, Keyed
<1>7. /\ Numbered(sent'[p]) /\ sent'[s] = sent[s] /\ DOMAIN sent' = Side
      /\ \/ body = Msg(u + 1) /\ u2 = u + 1
         \/ body = KeepAlive /\ u2 = u
  BY <1>2, NumberedNext DEF SInv, Types
<1>8. Writer(f, d, u2) = At(Round(c, d), After(n), u2, d)
  BY <1>3, <1>4, <1>6, Distinct DEF Writer
<1>9. Carries(p, Writer(c, d, u), m, Writer(f, d, u2))
  BY <1>2, <1>3, <1>6, <1>7, <1>8, CarriesBody
<1>10. /\ Turns(Writer(f, d, u2), Writer(f, d, u2)) /\ Writer(f, d, u2).u = u2
  BY <1>8 DEF Turns, At
<1>11. IsQueue(wire'[s]) /\ MetOk(s)' /\ FlowOk(p)'
  <2>1. sc[p] = c /\ sc[p].phase = "open"
    BY <1>1 DEF c
  <2> HIDE DEF s, u2, d, u
  <2>2. Carries(p, Writer(sc[p], drawn[p], Len(sent[p])), m, Writer(f, drawn'[p], Len(sent'[p])))
    BY <1>1, <1>9, <2>1 DEF d, u, u2
  <2>3. /\ Turns(Writer(f, drawn'[p], Len(sent'[p])), Writer(f, drawn'[p], Len(sent'[p])))
        /\ Writer(f, drawn'[p], Len(sent'[p])).u = Len(sent'[p])
    BY <1>1, <1>10 DEF d, u2
  <2> QED BY <1>1, <1>4, <1>5, <2>1, <2>2, <2>3, Sending DEF s
<1>12. Types'
  <2>1. \A q \in Side : IsQueue(wire'[q]) /\ Numbered(sent'[q])
    BY <1>2, <1>5, <1>7, <1>11, TwoSides DEF SInv, Types
  <2>2. sc' \in [Side -> Channel]
    BY <1>1, <1>2, <1>4
  <2> QED BY <1>1, <1>5, <1>7, <2>1, <2>2 DEF SInv, Types
<1>13. EndOk(p)'
  <2>1. Keyed(p, f, d)
    BY <1>2, <1>3, <1>4, <1>6 DEF Keyed, Sends, Reads
  <2> QED BY <1>1, <1>2, <1>4, <1>5, <2>1 DEF EndOk, End, Lost
<1>14. MetOk(p)'
  BY <1>1, <1>2, <1>4, <1>5, SInvParts DEF MetOk, Met, Lost, Rest, c
<1>15. FlowOk(s)'
  <2>1. Flows(s, sc[s], drawn[s], Len(sent[s]), c, d, Len(rcvd[p]), wire[p])
    BY <1>2, SInvParts DEF c
  <2>2. /\ Rest(f, wire[p]) = Rest(c, wire[p]) /\ ~Lost(c)
        /\ Reader(f, d, Len(rcvd[p])) = Reader(c, d, Len(rcvd[p]))
    BY <1>1, <1>4, <1>6 DEF Rest, Lost, Reader, c
  <2>3. Flows(s, sc[s], drawn[s], Len(sent[s]), f, d, Len(rcvd[p]), wire[p])
    BY <2>1, <2>2 DEF Flows
  <2> QED BY <1>1, <1>2, <1>5, <1>7, <2>3 DEF FlowOk
<1> QED BY <1>1, <1>5, <1>7, <1>11, <1>12, <1>13, <1>14, <1>15, StepOf


\* An open end can read what comes next.
LEMMA ReadHead ==
  ASSUME SInv, NEW p \in Side, sc[p].phase = "open", wire[p] # <<>>
  PROVE  /\ Decrypts(sc[p], Head(wire[p]))
         /\ \E b \in Place, o, r \in Ciphers :
              /\ TryDecrypt(sc[p], Head(wire[p])) = [sc[p] EXCEPT !.old = o, !.receiver = r]
              /\ \A f, df, uf :
                   f.phase = "open" /\ Reader(f, df, uf) = b
                     => Flows(Peer(p), sc[Peer(p)], drawn[Peer(p)], Len(sent[Peer(p)]), f, df, uf, Tail(wire[p]))
              /\ ReadsOn(p, sc[p], drawn[p], Len(rcvd[p]), Head(wire[p]), b, o, r)
<1> DEFINE s == Peer(p)
           c == sc[p]
           d == drawn[p]
           u == Len(rcvd[p])
           w == wire[p]
           m == Head(w)
           e == sc[s]
           de == drawn[s]
           ue == Len(sent[s])
<1>1. /\ c \in Channel /\ u \in Nat /\ IsQueue(w) /\ Keyed(p, c, d) /\ c.phase = "open" /\ w # <<>>
      /\ Flows(s, e, de, ue, c, d, u, w)
  BY SInvParts DEF End
<1> HIDE DEF c, d, u, w, e, de, ue
<1>2. PICK b : /\ Leads(s, Reader(c, d, u), m, b)
               /\ \A f, df, uf : f.phase = "open" /\ Reader(f, df, uf) = b
                                    => Flows(s, e, de, ue, f, df, uf, Tail(w))
  BY ONLY <1>1, FlowRead
<1> HIDE DEF m
<1>3. /\ Decrypts(c, m) /\ m.t = "enc" /\ b \in Place
      /\ \E o, r \in Ciphers :
           TryDecrypt(c, m) = [c EXCEPT !.old = o, !.receiver = r] /\ ReadsOn(p, c, d, u, m, b, o, r)
  <2>1. /\ p \in Side /\ c \in Channel /\ u \in Nat /\ c.phase = "open" /\ Keyed(p, c, d)
        /\ Leads(Peer(p), Reader(c, d, u), m, b)
    BY <1>1, <1>2
  <2> QED BY ONLY <2>1, Decrypt
<1> QED BY <1>2, <1>3 DEF c, d, u, w, e, de, ue, m

\* An open end reads a message for its user, or a keepalive.
LEMMA ReadUserSInv ==
  ASSUME SInv, NEW p \in Side, NEW i \in Nat,
         ReaderUser(p, IF i = 0 THEN KeepAlive ELSE Msg(i)),
         rcvd' = [rcvd EXCEPT ![p] = Given(@, i)], UNCHANGED sent
  PROVE  SInv' /\ (i # 0 => i = Len(rcvd[p]) + 1)
<1> DEFINE s == Peer(p)
           c == sc[p]
           d == drawn[p]
           u == Len(rcvd[p])
           w == wire[p]
           m == Head(w)
<1>1. /\ c.phase = "open" /\ w # <<>> /\ m.body = (IF i = 0 THEN KeepAlive ELSE Msg(i)) /\ m.body.t # "rekey"
      /\ sc' = [sc EXCEPT ![p] = TryDecrypt(c, m)] /\ wire' = [wire EXCEPT ![p] = Tail(w)] /\ drawn' = drawn
  BY DEF ReaderUser, Open, Take
<1>2. /\ s \in Side /\ s # p /\ Peer(s) = p /\ sc \in [Side -> Channel] /\ c \in Channel /\ u \in Nat
      /\ d \in Nat /\ Keyed(p, c, d) /\ IsQueue(w) /\ c.why # "garbled" /\ DOMAIN wire = Side /\ Numbered(rcvd[p])
      /\ rcvd \in [Side -> Seq(Nat)]
  BY <1>1, SInvParts DEF SInv, Types, End
<1>3. PICK b \in Place, o \in Ciphers, r \in Ciphers :
        /\ TryDecrypt(c, m) = [c EXCEPT !.old = o, !.receiver = r]
        /\ \A f, df, uf : f.phase = "open" /\ Reader(f, df, uf) = b
             => Flows(s, sc[s], drawn[s], Len(sent[s]), f, df, uf, Tail(w))
        /\ ReadsOn(p, c, d, u, m, b, o, r)
  BY <1>1, ReadHead
<1> DEFINE f == [c EXCEPT !.old = o, !.receiver = r]
<1>4. /\ f \in Channel /\ f.phase = "open" /\ f.why = c.why /\ f.pending = c.pending
      /\ f.sender = c.sender
  BY <1>1, <1>2 DEF Channel
<1>5. /\ \/ m.body = Msg(u + 1) /\ b.u = u + 1
         \/ m.body = KeepAlive /\ b.u = u
      /\ Reads(p, f, d) /\ Reader(f, d, b.u) = b
  <2>1. RekeyBody(s, Round(c, d) + 1).t = "rekey"
    BY DEF RekeyBody
  <2> QED BY <1>1, <1>3, <2>1 DEF ReadsOn
<1>6. sc' = [sc EXCEPT ![p] = f]
  BY <1>1, <1>3
<1> HIDE DEF c, f
<1>7. \/ m.body = Msg(u + 1) /\ b.u = u + 1 /\ i = u + 1
      \/ m.body = KeepAlive /\ b.u = u /\ i = 0
  BY <1>1, <1>2, <1>5 DEF Msg, KeepAlive
<1>8. Numbered(rcvd'[p]) /\ Len(rcvd'[p]) = b.u /\ rcvd'[s] = rcvd[s] /\ rcvd' \in [Side -> Seq(Nat)]
  <2>1. rcvd'[p] = Given(rcvd[p], i) /\ rcvd'[s] = rcvd[s]
    BY <1>2
  <2>2. ASSUME i = 0 PROVE Numbered(rcvd'[p]) /\ Len(rcvd'[p]) = b.u
    BY <1>2, <1>7, <2>1, <2>2 DEF Given
  <2>3. ASSUME i = u + 1, b.u = u + 1 PROVE Numbered(rcvd'[p]) /\ Len(rcvd'[p]) = b.u
    <3>1. i # 0 /\ rcvd'[p] = Append(rcvd[p], u + 1)
      BY <1>2, <2>1, <2>3 DEF Given
    <3>2. Numbered(Append(rcvd[p], u + 1)) /\ Len(Append(rcvd[p], u + 1)) = u + 1
      BY <1>2, NumberedNext
    <3> QED BY <2>3, <3>1, <3>2
  <2>4. Numbered(rcvd'[p]) /\ Len(rcvd'[p]) = b.u
    BY <1>7, <2>2, <2>3
  <2>5. rcvd' \in [Side -> Seq(Nat)]
    BY <1>2, <2>1, <2>4 DEF Numbered
  <2> QED BY <2>1, <2>4, <2>5
<1>9. sc'[p] = f /\ sc'[s] = sc[s] /\ wire'[p] = Tail(w) /\ wire'[s] = wire[s]
  BY <1>1, <1>2, <1>6
<1>10. Types'
  <2>1. IsQueue(Tail(w))
    BY <1>1, <1>2, TailQueue
  <2>2. \A q \in Side : IsQueue(wire'[q]) /\ Numbered(rcvd'[q])
    BY <1>2, <1>8, <1>9, <2>1, TwoSides DEF SInv, Types
  <2>3. sc' \in [Side -> Channel]
    BY <1>2, <1>4, <1>6
  <2> QED BY <1>1, <1>2, <1>8, <2>2, <2>3 DEF SInv, Types
<1>11. Round(f, d) = Round(c, d)
  BY <1>4 DEF Round
<1>12. EndOk(p)'
  <2>1. Keyed(p, f, d)
    BY <1>2, <1>4, <1>5, <1>11 DEF Keyed, Sends
  <2> QED BY <1>1, <1>2, <1>4, <1>9, <2>1 DEF EndOk, End, Lost
<1>13. MetOk(p)'
  BY <1>1, <1>2, <1>4, <1>9, SInvParts DEF MetOk, Met, Lost, Rest, c
<1>14. MetOk(s)' /\ FlowOk(p)'
  <2>1. Writer(f, d, Len(sent[p])) = Writer(sc[p], d, Len(sent[p]))
    BY <1>1, <1>4, <1>11 DEF Writer, c
  <2>2. Turns(Writer(sc[p], drawn[p], Len(sent[p])), Writer(f, drawn'[p], Len(sent[p])))
    BY <1>1, <2>1 DEF Turns
  <2>3. sc[p].phase = "open"
    BY <1>1 DEF c
  <2> HIDE DEF s, d, u, w, m
  <2> QED BY <1>1, <1>4, <1>8, <1>9, <2>2, <2>3, Resting DEF s
<1>15. FlowOk(s)'
  <2>1. Flows(s, sc[s], drawn[s], Len(sent[s]), f, d, b.u, Tail(w))
    BY <1>3, <1>4, <1>5
  <2> QED BY <1>1, <1>2, <1>8, <1>9, <2>1 DEF FlowOk
<1>16. SInv'
  BY <1>1, <1>8, <1>9, <1>10, <1>12, <1>13, <1>14, <1>15, StepOf
<1> QED BY <1>7, <1>16

\* The keys of the next round.
LEMMA NextRound ==
  ASSUME NEW p \in Side, NEW g \in Channel, NEW e \in Nat, NEW n \in Nonces, NEW f,
         g.phase = "open", e > 1, g.receiver = CipherAt(Peer(p), e - 1, n),
         f = NewKeys(g, <<p, e>>, <<Peer(p), e>>)
  PROVE  /\ f \in Channel /\ f.phase = "open" /\ f.why = g.why /\ f.pending = NoKey
         /\ Round(f, e) = e /\ Keyed(p, f, e)
         /\ \A u : Writer(f, e, u) = At(e, 0, u, e) /\ Reader(f, e, u) = At(e - 1, n, u, e)
<1> DEFINE s == Peer(p)
           r == CipherAt(s, e - 1, n)
<1>1. s \in Side /\ e - 1 \in Nat /\ 0 \in Nonces
  BY Peers, AfterNonce
<1>2. /\ r \in Ciphers /\ r # NoCipher
      /\ CipherAt(s, e, 0) \in Ciphers /\ CipherAt(p, e, 0) \in Ciphers
  BY <1>1, CipherTypes
<1>3. g.receiver = r
  OBVIOUS
<1>4. /\ f = [g EXCEPT !.old = r, !.receiver = CipherAt(s, e, 0), !.sender = CipherAt(p, e, 0),
                       !.pending = NoKey, !.ticks = TicksToRekey]
  <2>1. /\ Cipher(SendKey(<<p, e>>, <<s, e>>)) = CipherAt(p, e, 0)
        /\ Cipher(RecvKey(<<p, e>>, <<s, e>>)) = CipherAt(s, e, 0)
    BY Derived
  <2>2. f = NewKeys(g, <<p, e>>, <<s, e>>)
    OBVIOUS
  <2> QED BY <1>3, <2>1, <2>2 DEF NewKeys
<1>5. /\ f \in Channel /\ f.phase = "open" /\ f.why = g.why /\ f.pending = NoKey
      /\ f.old = r /\ f.receiver = CipherAt(s, e, 0) /\ f.sender = CipherAt(p, e, 0)
  <2>1. NoKey \in Keys /\ TicksToRekey \in Nat
    BY RekeyAssumption DEF Keys
  <2> HIDE DEF r
  <2> QED BY <1>2, <1>3, <1>4, <2>1 DEF Channel
<1>6. Round(f, e) = e
  BY <1>5 DEF Round
<1>7. Keyed(p, f, e)
  BY <1>1, <1>5, <1>6 DEF Keyed, Sends, Reads
<1>8. \A u : Writer(f, e, u) = At(e, 0, u, e) /\ Reader(f, e, u) = At(e - 1, n, u, e)
  BY <1>2, <1>5, <1>6, Distinct DEF Writer, Reader
<1> QED BY <1>5, <1>6, <1>7, <1>8

\* An open end reads a Rekey: it completes the change that the end has started,
\* or is answered.
LEMMA ReadRekeySInv ==
  ASSUME SInv, NEW p \in Side, ReaderRekey(p), UNCHANGED <<sent, rcvd>>
  PROVE  SInv'
<1> DEFINE s == Peer(p)
           c == sc[p]
           d == drawn[p]
           k == Round(c, d)
           u == Len(rcvd[p])
           us == Len(sent[p])
           w == wire[p]
           m == Head(w)
           g == TryDecrypt(c, m)
<1>1. c.phase = "open" /\ w # <<>>
  BY DEF ReaderRekey, Open
<1>2. /\ s \in Side /\ s # p /\ Peer(s) = p /\ sc \in [Side -> Channel] /\ c \in Channel /\ u \in Nat /\ us \in Nat
      /\ d \in Nat /\ Keyed(p, c, d) /\ IsQueue(w) /\ c.why # "garbled" /\ DOMAIN wire = Side
      /\ drawn \in [Side -> Nat]
  BY <1>1, SInvParts DEF SInv, Types, End
<1>3. /\ Decrypts(c, m)
      /\ \E b \in Place, o, r \in Ciphers :
        /\ g = [c EXCEPT !.old = o, !.receiver = r]
        /\ \A f, df, uf : f.phase = "open" /\ Reader(f, df, uf) = b
             => Flows(s, sc[s], drawn[s], Len(sent[s]), f, df, uf, Tail(w))
        /\ ReadsOn(p, c, d, u, m, b, o, r)
  BY <1>1, ReadHead
<1>4. m.body.t = "rekey" /\ HandleIncomingRekey(p, m, g)
  BY <1>3 DEF ReaderRekey
<1>5. PICK b \in Place, o \in Ciphers, r \in Ciphers :
        /\ g = [c EXCEPT !.old = o, !.receiver = r]
        /\ \A f, df, uf : f.phase = "open" /\ Reader(f, df, uf) = b
             => Flows(s, sc[s], drawn[s], Len(sent[s]), f, df, uf, Tail(w))
        /\ ReadsOn(p, c, d, u, m, b, o, r)
  BY <1>3
<1>6. /\ m.body = RekeyBody(s, k + 1)
      /\ \E n \in Nonces : r = CipherAt(s, k, n) /\ b = At(k, n, u, k + 1)
  <2>1. Msg(u + 1).t # "rekey" /\ KeepAlive.t # "rekey"
    BY DEF Msg, KeepAlive
  <2> QED BY <1>4, <1>5, <2>1 DEF ReadsOn
<1>7. PICK n \in Nonces : r = CipherAt(s, k, n) /\ b = At(k, n, u, k + 1)
  BY <1>6
<1>8. m.body.dh = <<s, k + 1>> /\ g.pending = c.pending /\ g.sender = c.sender
  <2>1. m.body.dh = <<s, k + 1>>
    BY <1>6 DEF RekeyBody
  <2> HIDE DEF g, c
  <2>2. g.pending = c.pending /\ g.sender = c.sender
    BY <1>2, <1>5 DEF Channel
  <2> QED BY <2>1, <2>2
<1>9. k \in Nat /\ k >= 1 /\ c.pending \in {NoKey, <<p, d>>}
  BY <1>2 DEF Keyed
<1> DEFINE e == k + 1
           f == NewKeys(g, <<p, e>>, <<s, e>>)
           mr == Encrypt(c, RekeyBody(p, e))
<1>10. /\ sc' = [sc EXCEPT ![p] = f] /\ expected' = expected
       /\ \/ /\ k = d - 1 /\ d = e /\ wire' = Take(wire, p) /\ drawn' = drawn
          \/ /\ k = d /\ wire' = Put(Take(wire, p), p, mr) /\ Draw(p)
  <2>1. CASE /\ g.pending # NoKey
             /\ sc' = [sc EXCEPT ![p] = NewKeys(g, g.pending, m.body.dh)]
             /\ wire' = Take(wire, p)
             /\ UNCHANGED drawn
    <3>1. k = d - 1 /\ d = e /\ g.pending = <<p, e>>
      BY <1>2, <1>8, <1>9, <2>1 DEF Round
    <3> HIDE DEF g, e, k, m
    <3> QED BY <1>8, <2>1, <3>1 DEF ReaderRekey, e
  <2>2. CASE /\ g.pending = NoKey
             /\ sc' = [sc EXCEPT ![p] = NewKeys(g, Fresh(p), m.body.dh)]
             /\ wire' = Put(Take(wire, p), p, Encrypt(g, [t |-> "rekey", dh |-> Fresh(p)]))
             /\ Draw(p)
    <3>1. k = d /\ Fresh(p) = <<p, e>>
      BY <1>8, <2>2 DEF Round, Fresh
    <3>2. Encrypt(g, [t |-> "rekey", dh |-> Fresh(p)]) = mr
      BY <1>8, <3>1 DEF Encrypt, RekeyBody
    <3> HIDE DEF g, e, k, m, mr
    <3> QED BY <1>8, <2>2, <3>1, <3>2 DEF ReaderRekey, e
  <2> QED BY <1>4, <2>1, <2>2 DEF HandleIncomingRekey
<1>11. /\ f \in Channel /\ f.phase = "open" /\ f.why = c.why /\ f.pending = NoKey
       /\ Round(f, e) = e /\ Keyed(p, f, e)
       /\ \A v : Writer(f, e, v) = At(e, 0, v, e) /\ Reader(f, e, v) = At(e - 1, n, v, e)
  <2>1. e \in Nat /\ e > 1 /\ e - 1 = k
    BY <1>9
  <2>2. p \in Side /\ g \in Channel /\ n \in Nonces /\ g.phase = "open" /\ g.why = c.why
    <3> HIDE DEF g, c
    <3> QED BY <1>1, <1>2, <1>5 DEF Channel
  <2>3. g.receiver = CipherAt(s, e - 1, n)
    <3> HIDE DEF g, c, k
    <3> QED BY <1>2, <1>5, <1>7, <2>1 DEF Channel
  <2>4. f = NewKeys(g, <<p, e>>, <<s, e>>)
    OBVIOUS
  <2> HIDE DEF f, e, c, g, k
  <2>5. /\ f \in Channel /\ f.phase = "open" /\ f.why = g.why /\ f.pending = NoKey
        /\ Round(f, e) = e /\ Keyed(p, f, e)
        /\ \A v : Writer(f, e, v) = At(e, 0, v, e) /\ Reader(f, e, v) = At(e - 1, n, v, e)
    BY ONLY <2>1, <2>2, <2>3, <2>4, NextRound
  <2> QED BY <2>2, <2>5
<1>12. drawn' \in [Side -> Nat] /\ drawn'[p] = e /\ drawn'[s] = drawn[s]
  BY <1>2, <1>10 DEF Draw
<1>13. /\ DOMAIN wire' = Side /\ wire'[p] = Tail(w)
       /\ \/ k = d - 1 /\ d = e /\ wire'[s] = wire[s]
          \/ k = d /\ wire'[s] = IF Lost(sc[s]) THEN wire[s] ELSE Append(wire[s], mr)
  <2>1. Take(wire, p)[p] = Tail(w) /\ Take(wire, p)[s] = wire[s] /\ DOMAIN Take(wire, p) = Side
    BY <1>2 DEF Take
  <2>2. IsQueue(Take(wire, p)[p])
    BY <1>1, <1>2, <2>1, TailQueue
  <2> HIDE DEF mr, k, e, f
  <2>3. /\ DOMAIN Put(Take(wire, p), p, mr) = Side /\ Put(Take(wire, p), p, mr)[p] = Tail(w)
        /\ Put(Take(wire, p), p, mr)[s] = IF Lost(sc[s]) THEN wire[s] ELSE Append(wire[s], mr)
    BY <2>1, <2>2, PutWire
  <2> QED BY <1>10, <2>1, <2>3
<1> HIDE DEF f, mr, g
<1>14. sc'[p] = f /\ sc'[s] = sc[s]
  BY <1>2, <1>10
<1>15. e \in Nat /\ e - 1 = k
  BY <1>9
<1>16. PICK i \in Nonces :
         /\ Writer(c, d, us) = At(k, i, us, d) /\ After(i) \in Nonces
         /\ mr = [t |-> "enc", key |-> Key(p, k), nonce |-> i, body |-> RekeyBody(p, e)]
  <2> HIDE DEF c, d, us
  <2>1. \E i \in Nonces :
          /\ c.sender = CipherAt(p, Round(c, d), i) /\ Writer(c, d, us) = At(Round(c, d), i, us, d)
          /\ Bump(c.sender) = CipherAt(p, Round(c, d), After(i)) /\ After(i) \in Nonces
          /\ Bump(c.sender) \in Ciphers
          /\ \A bd : Encrypt(c, bd)
                       = [t |-> "enc", key |-> Key(p, Round(c, d)), nonce |-> i, body |-> bd]
    <3>1. p \in Side /\ us \in Nat /\ c.phase = "open" /\ Keyed(p, c, d)
      BY <1>1, <1>2
    <3> QED BY ONLY <3>1, WriterAt
  <2> QED BY <2>1 DEF mr
<1>17. IsQueue(wire'[s]) /\ MetOk(s)' /\ FlowOk(p)'
  <2>1. sc[p].phase = "open" /\ Writer(f, drawn'[p], us) = At(e, 0, us, e) /\ Writer(sc[p], drawn[p], us) = At(k, i, us, d)
    BY <1>1, <1>11, <1>12, <1>16
  <2>2. CASE k = d - 1 /\ d = e /\ wire'[s] = wire[s]
    <3>1. Turns(At(k, i, us, d), At(e, 0, us, e))
      BY <1>2, <1>9, <2>2 DEF Turns, At
    <3>2. IsQueue(wire'[s])
      BY <1>2, <2>2, SInvParts
    <3>3. Turns(Writer(sc[p], drawn[p], Len(sent[p])), Writer(f, drawn'[p], Len(sent[p])))
      BY <2>1, <3>1
    <3> HIDE DEF s, c, d, k, u, us, w, m, e
    <3> QED BY <1>11, <1>12, <1>14, <2>1, <2>2, <3>2, <3>3, Resting DEF s
  <2>3. CASE k = d /\ wire'[s] = IF Lost(sc[s]) THEN wire[s] ELSE Append(wire[s], mr)
    <3> DEFINE y == At(k, After(i), us, d + 1)
    <3>1. Carries(p, At(k, i, us, d), mr, y)
      <4>1. d = k /\ RekeyBody(p, e) = RekeyBody(p, d + 1)
        BY <2>3
      <4> HIDE DEF k, d, us, e
      <4> QED BY <1>2, <1>9, <1>16, <4>1, CarriesBody
    <3>2. Turns(y, At(e, 0, us, e))
      BY <1>2, <1>9, <2>3 DEF Turns, At
    <3>3. At(e, 0, us, e).u = us
      BY DEF At
    <3>4. /\ Carries(p, Writer(sc[p], drawn[p], Len(sent[p])), mr, y)
          /\ Turns(y, Writer(f, drawn'[p], Len(sent'[p])))
          /\ Writer(f, drawn'[p], Len(sent'[p])).u = Len(sent'[p])
      BY <2>1, <3>1, <3>2, <3>3
    <3> HIDE DEF s, c, d, k, u, us, w, m, e, y
    <3> QED BY <1>11, <1>12, <1>14, <2>1, <2>3, <3>4, Sending DEF s
  <2> QED BY <1>13, <2>2, <2>3
<1>18. Types'
  <2>1. IsQueue(Tail(w))
    BY <1>1, <1>2, TailQueue
  <2>2. \A q \in Side : IsQueue(wire'[q])
    BY <1>2, <1>13, <1>17, <2>1, TwoSides
  <2>3. sc' \in [Side -> Channel]
    BY <1>2, <1>10, <1>11
  <2> QED BY <1>12, <1>13, <2>2, <2>3 DEF SInv, Types
<1>19. EndOk(p)'
  BY <1>2, <1>11, <1>12, <1>14 DEF EndOk, End, Lost
<1>20. MetOk(p)'
  BY <1>1, <1>2, <1>11, <1>14, SInvParts DEF MetOk, Met, Lost, Rest
<1>21. FlowOk(s)'
  <2>1. Reader(f, e, u) = b
    BY <1>7, <1>11, <1>15
  <2>2. Flows(s, sc[s], drawn[s], Len(sent[s]), f, e, u, Tail(w))
    BY <1>5, <1>11, <2>1
  <2> QED BY <1>2, <1>12, <1>13, <1>14, <2>2 DEF FlowOk
<1> QED BY <1>12, <1>14, <1>17, <1>18, <1>19, <1>20, <1>21, StepOf

\* A step of an open end that reads nothing.
LEMMA SameReader ==
  ASSUME SInv, NEW p \in Side, NEW f \in Channel, sc[p].phase = "open", f.phase = "open", f.why = sc[p].why,
         sc'[p] = f, sc'[Peer(p)] = sc[Peer(p)], wire'[p] = wire[p], drawn'[Peer(p)] = drawn[Peer(p)],
         Keyed(p, f, drawn'[p]), f.old = sc[p].old, f.receiver = sc[p].receiver,
         Round(f, drawn'[p]) = Round(sc[p], drawn[p]),
         sent'[Peer(p)] = sent[Peer(p)], rcvd'[p] = rcvd[p]
  PROVE  EndOk(p)' /\ MetOk(p)' /\ FlowOk(Peer(p))'
<1> DEFINE s == Peer(p)
           c == sc[p]
           d == drawn[p]
           u == Len(rcvd[p])
<1>1. Peer(s) = p /\ c.why # "garbled" /\ Flows(s, sc[s], drawn[s], Len(sent[s]), c, d, u, wire[p])
  BY SInvParts DEF End
<1>2. EndOk(p)'
  BY <1>1 DEF EndOk, End, Lost
<1>3. MetOk(p)'
  BY <1>1, SInvParts DEF MetOk, Met, Lost, Rest
<1>4. Reader(f, drawn'[p], u) = Reader(c, d, u) /\ Rest(f, wire[p]) = Rest(c, wire[p]) /\ ~Lost(c)
  BY DEF Reader, Rest, Lost
<1>5. Flows(s, sc[s], drawn[s], Len(sent[s]), f, drawn'[p], u, wire[p])
  BY <1>1, <1>4 DEF Flows
<1>6. FlowOk(s)'
  BY <1>1, <1>5 DEF FlowOk
<1> QED BY <1>2, <1>3, <1>6

LEMMA StillSInv ==
  ASSUME SInv, UNCHANGED <<sc, wire, drawn, sent, rcvd>>
  PROVE  SInv'
BY DEF SInv, Types, EndOk, MetOk, FlowOk

\* A tick: an open end counts down, or starts a change of the keys.
LEMMA TickSInv ==
  ASSUME SInv, NEW p \in Side, SCTick(p), UNCHANGED <<sent, rcvd>>
  PROVE  SInv'
<1> DEFINE s == Peer(p)
           c == sc[p]
           d == drawn[p]
           us == Len(sent[p])
<1>1. /\ s \in Side /\ s # p /\ Peer(s) = p /\ sc \in [Side -> Channel] /\ c \in Channel /\ us \in Nat
      /\ d \in Nat /\ Keyed(p, c, d) /\ c.phase = "open" /\ DOMAIN wire = Side /\ IsQueue(wire[p]) /\ IsQueue(wire[s])
      /\ drawn \in [Side -> Nat]
  BY SInvParts DEF SInv, Types, End, SCTick, CreateRekey, Open
<1>2. CASE UNCHANGED <<sc, wire, drawn>>
  BY <1>2, StillSInv
<1>3. CASE c.ticks > 0 /\ sc' = [sc EXCEPT ![p].ticks = @ - 1] /\ UNCHANGED <<wire, drawn>>
  <2> DEFINE f == [c EXCEPT !.ticks = c.ticks - 1]
  <2>1. sc' = [sc EXCEPT ![p] = f]
    BY <1>1, <1>3
  <2>2. /\ f \in Channel /\ f.phase = "open" /\ f.why = c.why /\ f.pending = c.pending
        /\ f.old = c.old /\ f.receiver = c.receiver /\ f.sender = c.sender
    <3>1. c.ticks - 1 \in Nat
      BY <1>1, <1>3 DEF Channel
    <3> HIDE DEF c
    <3> QED BY <1>1, <3>1 DEF Channel
  <2> HIDE DEF f
  <2>3. sc'[p] = f /\ sc'[s] = sc[s] /\ sc' \in [Side -> Channel]
    BY <1>1, <2>1, <2>2
  <2>4. Round(f, d) = Round(c, d)
    BY <2>2 DEF Round
  <2>5. Keyed(p, f, d) /\ Writer(f, d, us) = Writer(c, d, us)
    BY <1>1, <2>2, <2>4 DEF Keyed, Sends, Reads, Writer
  <2>6. Turns(Writer(sc[p], drawn[p], Len(sent[p])), Writer(f, drawn'[p], Len(sent[p])))
    BY <1>3, <2>5 DEF Turns
  <2>7. Types'
    BY <1>3, <2>3 DEF SInv, Types
  <2>8. MetOk(s)' /\ FlowOk(p)'
    BY <1>1, <1>3, <2>2, <2>3, <2>6, Resting
  <2>9. EndOk(p)' /\ MetOk(p)' /\ FlowOk(s)'
    BY <1>1, <1>3, <2>2, <2>3, <2>4, <2>5, SameReader
  <2> QED BY <1>3, <2>3, <2>7, <2>8, <2>9, StepOf
<1>4. CASE /\ c.pending = NoKey
           /\ sc' = [sc EXCEPT ![p] = [@ EXCEPT !.pending = Fresh(p), !.sender = Bump(sc[p].sender),
                                                !.ticks = TicksToRekey]]
           /\ wire' = Put(wire, p, Encrypt(sc[p], [t |-> "rekey", dh |-> Fresh(p)]))
           /\ Draw(p)
  <2> DEFINE e == d + 1
             f == [c EXCEPT !.pending = <<p, e>>, !.sender = Bump(c.sender), !.ticks = TicksToRekey]
             m == Encrypt(c, RekeyBody(p, e))
  <2>1. sc' = [sc EXCEPT ![p] = f] /\ wire' = Put(wire, p, m)
    BY <1>4 DEF Fresh, RekeyBody
  <2>2. drawn' \in [Side -> Nat] /\ drawn'[p] = e /\ drawn'[s] = drawn[s] /\ e \in Nat /\ Round(c, d) = d /\ d >= 1
    BY <1>1, <1>4 DEF Draw, Round, Keyed
  <2>3. PICK n \in Nonces :
         /\ Writer(c, d, us) = At(d, n, us, d) /\ After(n) \in Nonces
         /\ Bump(c.sender) = CipherAt(p, d, After(n)) /\ Bump(c.sender) \in Ciphers
         /\ m = [t |-> "enc", key |-> Key(p, d), nonce |-> n, body |-> RekeyBody(p, e)]
    <3> HIDE DEF c, d, us, e
    <3>1. \E n \in Nonces :
            /\ c.sender = CipherAt(p, Round(c, d), n) /\ Writer(c, d, us) = At(Round(c, d), n, us, d)
            /\ Bump(c.sender) = CipherAt(p, Round(c, d), After(n)) /\ After(n) \in Nonces
            /\ Bump(c.sender) \in Ciphers
            /\ \A bd : Encrypt(c, bd)
                         = [t |-> "enc", key |-> Key(p, Round(c, d)), nonce |-> n, body |-> bd]
      <4>1. p \in Side /\ us \in Nat /\ c.phase = "open" /\ Keyed(p, c, d)
        BY <1>1
      <4> QED BY ONLY <4>1, WriterAt
    <3> QED BY <2>2, <3>1 DEF m
  <2>4. /\ f \in Channel /\ f.phase = "open" /\ f.why = c.why /\ f.pending = <<p, e>>
        /\ f.old = c.old /\ f.receiver = c.receiver /\ f.sender = Bump(c.sender)
    <3>1. <<p, e>> \in Keys /\ TicksToRekey \in Nat
      BY <2>2, RekeyAssumption DEF Keys
    <3> HIDE DEF c, e
    <3> QED BY <1>1, <2>3, <3>1 DEF Channel
  <2> HIDE DEF f, m
  <2>5. /\ sc'[p] = f /\ sc'[s] = sc[s] /\ sc' \in [Side -> Channel]
    BY <1>1, <2>1, <2>4
  <2>6. /\ DOMAIN wire' = Side /\ wire'[p] = wire[p]
        /\ wire'[s] = IF Lost(sc[s]) THEN wire[s] ELSE Append(wire[s], m)
    BY <1>1, <2>1, PutWire
  <2>7. Round(f, e) = d
    <3>1. <<p, e>> # NoKey
      BY Distinct
    <3> QED BY <1>1, <2>4, <3>1 DEF Round
  <2>8. Keyed(p, f, e)
    <3>1. Sends(p, f, e)
      BY <2>3, <2>4, <2>7 DEF Sends
    <3>2. Reads(p, f, e)
      BY <1>1, <2>2, <2>4, <2>7 DEF Keyed, Reads
    <3>3. f.pending \in {NoKey, <<p, e>>}
      BY <2>4
    <3>4. e \in Nat /\ Round(f, e) \in Nat /\ Round(f, e) >= 1
      BY <1>1, <2>2, <2>7
    <3> QED BY <3>1, <3>2, <3>3, <3>4 DEF Keyed
  <2>9. Writer(f, e, us) = At(d, After(n), us, e) /\ At(d, After(n), us, e).u = us
    BY <2>3, <2>4, <2>7, Distinct DEF Writer, At
  <2>10. Carries(p, Writer(c, d, us), m, Writer(f, e, us))
    <3>1. Carries(p, At(d, n, us, d), m, At(d, After(n), us, d + 1))
      <4> HIDE DEF d, us
      <4> QED BY <1>1, <2>3, CarriesBody
    <3> QED BY <2>3, <2>9, <3>1
  <2>11. IsQueue(wire'[s]) /\ MetOk(s)' /\ FlowOk(p)'
    <3>1. /\ Carries(p, Writer(sc[p], drawn[p], Len(sent[p])), m, Writer(f, drawn'[p], Len(sent'[p])))
          /\ Turns(Writer(f, drawn'[p], Len(sent'[p])), Writer(f, drawn'[p], Len(sent'[p])))
          /\ Writer(f, drawn'[p], Len(sent'[p])).u = Len(sent'[p])
      BY <2>2, <2>9, <2>10 DEF Turns
    <3>2. sc[p].phase = "open"
      BY <1>1
    <3> HIDE DEF s, c, d, us, e
    <3> QED BY <2>2, <2>4, <2>5, <2>6, <3>1, <3>2, Sending DEF s
  <2>12. EndOk(p)' /\ MetOk(p)' /\ FlowOk(s)'
    <3>1. /\ sc[p].phase = "open" /\ f.why = sc[p].why /\ Keyed(p, f, drawn'[p])
          /\ f.old = sc[p].old /\ f.receiver = sc[p].receiver
          /\ Round(f, drawn'[p]) = Round(sc[p], drawn[p])
      BY <1>1, <2>2, <2>4, <2>7, <2>8
    <3> HIDE DEF s, c, d, us, e
    <3> QED BY <2>2, <2>4, <2>5, <2>6, <3>1, SameReader DEF s
  <2>13. Types'
    <3>1. \A q \in Side : IsQueue(wire'[q])
      BY <1>1, <2>6, <2>11, TwoSides
    <3> QED BY <2>2, <2>5, <2>6, <3>1 DEF SInv, Types
  <2> QED BY <2>2, <2>5, <2>11, <2>12, <2>13, StepOf
<1>5. \/ UNCHANGED <<sc, wire, drawn>>
      \/ c.ticks > 0 /\ sc' = [sc EXCEPT ![p].ticks = @ - 1] /\ UNCHANGED <<wire, drawn>>
      \/ /\ c.pending = NoKey
         /\ sc' = [sc EXCEPT ![p] = [@ EXCEPT !.pending = Fresh(p), !.sender = Bump(sc[p].sender),
                                              !.ticks = TicksToRekey]]
         /\ wire' = Put(wire, p, Encrypt(sc[p], [t |-> "rekey", dh |-> Fresh(p)]))
         /\ Draw(p)
  BY DEF SCTick, CreateRekey
<1> QED BY <1>2, <1>3, <1>4, <1>5

LEMMA StepSInv ==
  ASSUME SInv, NEW p \in Side,
         \/ Exchange(p) \/ Receive(p) \/ RekeyTick(p) \/ ChannelCloses(p)
         \/ KaStart(p) \/ MessageFromRemote(p) \/ MessageFromUser(p)
         \/ KaTick(p) \/ KaCloses(p) \/ Crash(p)
  PROVE  SInv'
<1>1. CASE Exchange(p)
  BY <1>1, ExchangeNonceSInv, ExchangeDhSInv DEF Exchange
<1>2. CASE Receive(p)
  BY <1>2, ReadRekeySInv DEF Receive
<1>3. CASE RekeyTick(p)
  BY <1>3, TickSInv DEF RekeyTick
<1>4. CASE ChannelCloses(p)
  <2>1. "ended" \in Whys \ {"garbled"} /\ "user" \in Whys \ {"garbled"}
    BY DEF Whys
  <2> QED BY <1>4, <2>1, CloseSInv DEF ChannelCloses, ReaderClosed, UserClosed
<1>5. CASE KaStart(p) \/ KaCloses(p)
  BY <1>5, StillSInv DEF KaStart, KaCloses, scVars
<1>6. CASE MessageFromRemote(p)
  <2>1. PICK i \in 0..MaxSends[Peer(p)] :
          /\ ReaderUser(p, IF i = 0 THEN KeepAlive ELSE Msg(i))
          /\ rcvd' = [rcvd EXCEPT ![p] = Given(@, i)]
    BY <1>6 DEF MessageFromRemote
  <2>2. i \in Nat /\ UNCHANGED sent
    BY <1>6, KeepaliveAssumption, Peers DEF MessageFromRemote
  <2> QED BY <2>1, <2>2, ReadUserSInv
<1>7. CASE MessageFromUser(p)
  BY <1>7, UserSInv DEF MessageFromUser
<1>8. CASE KaTick(p)
  <2>1. CASE User(p, KeepAlive)
    BY <1>8, <2>1, UserSInv DEF KaTick
  <2>2. CASE UNCHANGED scVars
    BY <1>8, <2>2, StillSInv DEF KaTick, scVars
  <2> QED BY <1>8, <2>1, <2>2 DEF KaTick
<1>9. CASE Crash(p)
  <2>1. None \in Whys \ {"garbled"} /\ Unopened.why = None
    BY UnopenedChannel DEF Whys, None
  <2>2. [Unopened EXCEPT !.phase = "dead"] = [Unopened EXCEPT !.phase = "dead", !.why = None]
    BY <2>1, UnopenedChannel DEF Channel
  <2>3. drawn' \in [Side -> Nat] /\ \A q \in Side : q # p => drawn'[q] = drawn[q]
    BY <1>9 DEF Crash, SInv, Types
  <2> QED BY <1>9, <2>1, <2>2, <2>3, Leaving DEF Crash
<1> QED BY <1>1, <1>2, <1>3, <1>4, <1>5, <1>6, <1>7, <1>8, <1>9

LEMMA NextSInv == SInv /\ [Next]_vars => SInv'
<1> SUFFICES ASSUME SInv, [Next]_vars PROVE SInv'
  OBVIOUS
<1>1. CASE Next
  <2>1. CASE Tick
    BY <2>1, StillSInv DEF Tick, scVars
  <2> QED BY <1>1, <2>1, StepSInv DEF Next
<1>2. CASE UNCHANGED vars
  BY <1>2, StillSInv DEF vars, scVars
<1> QED BY <1>1, <1>2

\* In every state the messages under way lead from the place of the receiver to the
\* place of the sender, in both directions, whatever keys are being changed.
THEOREM StreamInvariant == Spec => []SInv
BY InitSInv, NextSInv, PTL DEF Spec

-----------------------------------------------------------------------------
(***************************************************************************)
(* The users are given what was sent.                                      *)
(***************************************************************************)
\* A stream does not go back.
LEMMA StreamUp ==
  ASSUME NEW s, NEW w, NEW a, NEW z, IsQueue(w), Stream(s, w, a, z)
  PROVE  a.u \in Nat /\ z.u \in Nat /\ a.u <= z.u
<1> DEFINE n == Len(w)
<1>1. PICK q : /\ q[0] = a /\ \A i \in 0..n : q[i] \in Place
               /\ \A i \in 1..n : Leads(s, q[i - 1], w[i], q[i])
               /\ Turns(q[n], z)
  BY DEF Stream
<1>2. n \in Nat
  BY DEF IsQueue
<1> HIDE DEF n
<1> DEFINE T == {i \in 0..n : a.u <= q[i].u}
<1>3. a.u \in Nat /\ \A i \in 0..n : q[i].u \in Nat
  BY <1>1, <1>2 DEF Place
<1>4. 0 \in T
  BY <1>1, <1>2, <1>3
<1>5. ASSUME NEW i \in 0..(n - 1), i \in T PROVE i + 1 \in T
  <2>1. i + 1 \in 1..n /\ (i + 1) - 1 = i /\ i \in 0..n /\ i + 1 \in 0..n
    BY <1>2
  <2>2. Leads(s, q[(i + 1) - 1], w[i + 1], q[i + 1])
    BY <1>1, <2>1
  <2>3. PICK c \in Place : Turns(q[i], c) /\ Carries(s, c, w[i + 1], q[i + 1])
    BY <2>1, <2>2 DEF Leads
  <2>4. c.u = q[i].u
    <3>1. q[i] \in Place
      BY <1>1, <2>1
    <3> QED BY <2>3, <3>1, TurnsPlace
  <2>5. q[i + 1].u = c.u \/ q[i + 1].u = c.u + 1
    BY <2>3 DEF Carries, At
  <2> QED BY <1>3, <1>5, <2>1, <2>4, <2>5
<1> HIDE DEF T
<1>6. n \in T
  <2>1. \A i \in 0..n : i \in T
    BY <1>2, <1>4, <1>5, Induction
  <2> QED BY <1>2, <2>1
<1>7. q[n] \in Place
  BY <1>1, <1>2
<1>8. z.u = q[n].u
  BY <1>1, <1>7, TurnsPlace
<1> QED BY <1>3, <1>2, <1>6, <1>8 DEF T

\* What an open end was given was sent.
LEMMA GivenWasSent ==
  ASSUME NEW s, NEW e, NEW d, NEW u, NEW c, NEW dc, NEW uc, NEW w,
         Flows(s, e, d, u, c, dc, uc, w), IsQueue(w), c.phase = "open"
  PROVE  uc <= u
<1> DEFINE a == Reader(c, dc, uc)
<1>1. PICK z : Stream(s, w, a, z) /\ z.u = u
  BY DEF Flows, Lost, Rest
<1>2. a.u = uc
  BY DEF Reader, At
<1> HIDE DEF a
<1>3. a.u <= z.u
  BY <1>1, StreamUp
<1> QED BY <1>1, <1>2, <1>3

LEMMA FifoStep ==
  ASSUME SInv, [Next]_vars
  PROVE  [Abstract!Next]_<<sent, rcvd>>
<1>1. CASE UNCHANGED <<sent, rcvd>>
  BY <1>1
<1>2. ASSUME NEW p \in Side, MessageFromUser(p) PROVE Abstract!Send(p)
  <2>1. Len(sent[p]) \in Nat /\ UNCHANGED rcvd /\ sent' = [sent EXCEPT ![p] = Append(@, Len(sent[p]) + 1)]
    BY <1>2, SInvParts DEF MessageFromUser
  <2>2. Len(sent[p]) + 1 \in 1..(Len(sent[p]) + 1)
    BY <2>1
  <2> QED BY <2>1, <2>2 DEF Abstract!Send
<1>3. ASSUME NEW p \in Side, MessageFromRemote(p) PROVE UNCHANGED <<sent, rcvd>> \/ Abstract!Give(p)
  <2> DEFINE s == Peer(p)
  <2>1. PICK i \in 0..MaxSends[s] :
          /\ ReaderUser(p, IF i = 0 THEN KeepAlive ELSE Msg(i))
          /\ rcvd' = [rcvd EXCEPT ![p] = Given(@, i)]
    BY <1>3 DEF MessageFromRemote
  <2>2. i \in Nat /\ UNCHANGED sent /\ rcvd \in [Side -> Seq(Nat)] /\ s \in Side
    BY <1>3, KeepaliveAssumption, Peers DEF MessageFromRemote, SInv, Types
  <2>3. SInv' /\ (i # 0 => i = Len(rcvd[p]) + 1)
    BY <2>1, <2>2, ReadUserSInv
  <2>4. CASE i = 0
    BY <2>1, <2>2, <2>4 DEF Given
  <2>5. CASE i # 0
    <3>1. sc'[p].phase = "open"
      <4>1. sc[p].phase = "open" /\ sc \in [Side -> Channel] /\ sc' = [sc EXCEPT ![p] = TryDecrypt(sc[p], Head(wire[p]))]
        BY <2>1 DEF ReaderUser, Open, SInv, Types
      <4>2. TryDecrypt(sc[p], Head(wire[p])).phase = "open"
        BY <4>1 DEF TryDecrypt, Channel
      <4> QED BY <4>1, <4>2
    <3>2. Len(rcvd'[p]) <= Len(sent'[s])
      <4>1. /\ IsQueue(wire'[p]) /\ Peer(s) = p
            /\ Flows(s, sc'[s], drawn'[s], Len(sent'[s]), sc'[p], drawn'[p], Len(rcvd'[p]), wire'[p])
        BY <2>2, <2>3, Peers DEF SInv, Types, FlowOk
      <4> QED BY <3>1, <4>1, GivenWasSent
    <3>3. rcvd'[p] = Append(rcvd[p], i) /\ Len(rcvd'[p]) = i /\ i = Len(rcvd[p]) + 1 /\ Len(rcvd[p]) \in Nat
      BY <2>1, <2>2, <2>3, <2>5 DEF Given
    <3>4. Len(sent[s]) \in Nat /\ \A j \in 1..Len(sent[s]) : sent[s][j] = j
      BY <2>2, SInvParts DEF Numbered
    <3>5. Len(rcvd[p]) < Len(sent[s]) /\ sent[s][Len(rcvd[p]) + 1] = i
      BY <2>2, <3>2, <3>3, <3>4
    <3>6. Abstract!Peer(p) = s
      <4>1. \A q \in Side : q # p <=> q = s
        BY TwoSides, Peers
      <4> QED BY <2>2, <4>1 DEF Abstract!Peer
    <3> QED BY <2>1, <2>2, <2>5, <3>5, <3>6 DEF Abstract!Give, Given
  <2> QED BY <2>4, <2>5
<1>4. ASSUME NEW p \in Side,
             \/ Exchange(p) \/ Receive(p) \/ RekeyTick(p) \/ ChannelCloses(p) \/ KaStart(p)
             \/ KaTick(p) \/ KaCloses(p) \/ Crash(p)
      PROVE  UNCHANGED <<sent, rcvd>>
  BY <1>4 DEF Exchange, Receive, RekeyTick, ChannelCloses, KaStart, KaTick, KaCloses, Crash
<1>5. CASE Tick \/ UNCHANGED vars
  BY <1>5 DEF Tick, vars
<1> QED BY <1>1, <1>2, <1>3, <1>4, <1>5 DEF Next, Abstract!Next

\* Through every change of the keys, also one that both ends start at once, each user
\* is given exactly what the other has sent, in order and once, for any number of
\* messages and changes (secure_channel state.rs, keepalive.rs).
THEOREM FifoIsImplemented == Spec => ImplementsFifo
<1>1. TInit => Abstract!Init
  BY DEF TInit, Abstract!Init
<1>2. SInv /\ [Next]_vars => [Abstract!Next]_<<sent, rcvd>>
  BY FifoStep
<1> QED BY <1>1, <1>2, StreamInvariant, PTL DEF Spec, ImplementsFifo, Abstract!Spec

-----------------------------------------------------------------------------
(***************************************************************************)
(* A change of the keys comes to an end.                                   *)
(***************************************************************************)
LEMMA PendingEnd ==
  ASSUME SInv, NEW s \in Side, sc[s].pending # NoKey
  PROVE  /\ sc[s].phase = "open" /\ Keyed(s, sc[s], drawn[s])
         /\ sc[s].pending = <<s, drawn[s]>> /\ Round(sc[s], drawn[s]) = drawn[s] - 1
<1>1. sc[s].phase = "open"
  BY SInvParts, UnopenedChannel DEF End, Lost, Phases
<1> QED BY <1>1, SInvParts DEF End, Keyed, Round

\* The private keys of the peer that an end knows of.
LEMMA ReaderKnows ==
  ASSUME NEW c, NEW d, NEW u, c.phase = "open"
  PROVE  Reader(c, d, u).x = Round(c, d)
BY DEF Reader, At

LEMMA RekeyStep == SInv => RekeyIsUnderWay
<1> DEFINE Rekeys(w) == {i \in DOMAIN w : w[i].t = "enc" /\ w[i].body.t = "rekey"}
<1> SUFFICES ASSUME SInv, NEW s \in Side, sc[s].pending # NoKey, Rekeys(wire[s]) = {}, ~Gone(Peer(s))
             PROVE  \E i \in Rekeys(wire[Peer(s)]) : wire[Peer(s)][i].body.dh = sc[s].pending
  BY DEF RekeyIsUnderWay
<1> DEFINE p == Peer(s)
           c == sc[s]
           d == drawn[s]
           e == sc[p]
           a == Reader(c, d, Len(rcvd[s]))
           z == Writer(e, drawn[p], Len(sent[p]))
           b == Reader(e, drawn[p], Len(rcvd[p]))
           y == Writer(c, d, Len(sent[s]))
           r == Rest(e, wire[p])
<1>1. /\ c.phase = "open" /\ Keyed(s, c, d) /\ c.pending = <<s, d>> /\ Round(c, d) = d - 1
      /\ d \in Nat /\ ~Lost(c) /\ ~Lost(e)
  BY PendingEnd, SInvParts DEF Lost, Gone
<1>2. /\ Peer(p) = s /\ p \in Side /\ IsQueue(wire[s]) /\ IsQueue(wire[p]) /\ drawn[p] \in Nat
      /\ Stream(p, wire[s], a, z) /\ Stream(s, r, b, y)
  BY <1>1, SInvParts DEF Flows, Rest
<1>3. e.phase \in {"dh", "open"}
  BY <1>1, <1>2, SInvParts DEF Met, Lost, Phases
<1>4. a.x = d - 1 /\ y.x = d
  BY <1>1, ReaderKnows DEF Writer, At
<1>5. z.x = a.x
  <2> SUFFICES ASSUME z.x # a.x PROVE FALSE
    OBVIOUS
  <2> HIDE DEF z, a
  <2>1. PICK i \in DOMAIN wire[s] : wire[s][i].t = "enc" /\ wire[s][i].body = RekeyBody(p, z.x)
    BY <1>2, StreamRekey
  <2>2. wire[s][i].body.t = "rekey"
    BY <2>1 DEF RekeyBody
  <2> QED BY <2>1, <2>2
<1>6. b.x # y.x
  <2>1. CASE e.phase = "open"
    <3>1. z.x = drawn[p]
      BY <2>1 DEF Writer, At
    <3>2. Round(e, drawn[p]) <= drawn[p] /\ Round(e, drawn[p]) \in Int
      BY <1>2 DEF Round
    <3>3. b.x = Round(e, drawn[p])
      BY <2>1, ReaderKnows
    <3> HIDE DEF b, y, z, a
    <3> QED BY <1>1, <1>4, <1>5, <3>1, <3>2, <3>3
  <2>2. CASE e.phase = "dh"
    <3>1. z = Start /\ b = Start
      BY <2>2 DEF Writer, Reader
    <3> HIDE DEF b, y, z, a
    <3> QED BY <1>1, <1>4, <1>5, <3>1
  <2> QED BY <1>3, <2>1, <2>2
<1>7. IsQueue(r)
  BY <1>2, TailQueue, EmptyQueue DEF Rest
<1>8. PICK i \in DOMAIN r : r[i].t = "enc" /\ r[i].body = RekeyBody(s, d)
  <2> HIDE DEF r, b, y
  <2>1. \E i \in DOMAIN r : r[i].t = "enc" /\ r[i].body = RekeyBody(s, y.x)
    BY <1>2, <1>6, <1>7, StreamRekey
  <2> QED BY <1>4, <2>1
<1>9. \E j \in DOMAIN wire[p] : wire[p][j] = r[i]
  <2>1. CASE r = wire[p]
    BY <2>1
  <2>2. CASE r = Tail(wire[p]) /\ wire[p] # <<>>
    <3>1. i + 1 \in DOMAIN wire[p] /\ wire[p][i + 1] = Tail(wire[p])[i]
      BY <1>2, <2>2 DEF IsQueue
    <3> QED BY <2>2, <3>1
  <2>3. CASE r = <<>>
    BY <2>3
  <2> QED BY <2>1, <2>2, <2>3 DEF Rest
<1>10. PICK j \in DOMAIN wire[p] : wire[p][j] = r[i]
  BY <1>9
<1>11. wire[p][j].t = "enc" /\ wire[p][j].body.t = "rekey" /\ wire[p][j].body.dh = c.pending
  BY <1>1, <1>8, <1>10 DEF RekeyBody
<1> QED BY <1>10, <1>11

\* A change of the keys that an end has started is never stuck: its Rekey, or the one
\* that completes it, is under way, or the peer is gone, through any number of changes
\* (secure_channel state.rs create_rekey and handle_incoming_rekey).
THEOREM RekeyStaysUnderWay == Spec => []RekeyIsUnderWay
BY StreamInvariant, RekeyStep, PTL

-----------------------------------------------------------------------------
(***************************************************************************)
(* No living peer is taken for dead.  As long as end s runs and its peer p *)
(* does, a message that shows that p lives comes before s gives p up       *)
(* (Hope): it is under way, or p will send one, or p is still to start its *)
(* loop.  A tick that a loop has not yet handled counts as handled.        *)
(***************************************************************************)
Shows(m) == m.t = "enc" /\ m.body.t # "rekey"
HalfTicks == KeepaliveTicks \div 2
Waiting(s) == IF "ka" \in tick[s] THEN 1 ELSE 0
CloseIn(s) == ka[s].close - Waiting(s)
SendIn(s) == ka[s].send - Waiting(s)

KaStates == [phase : {"new", "open", "closed"}, why : {None, "timeout", "ended", "user", "dead"},
             close : Nat, send : Nat]
KaTypes ==
  ka \in [Side -> KaStates] /\ tick \in [Side -> SUBSET {"sc", "ka"}] /\ aged \in [Side -> Nat]

\* The connection of s is in use, and the peer has not given it up.
Both(s) == KaOpen(s) /\ Open(s) /\ ~Gone(Peer(s)) /\ ka[Peer(s)].phase # "closed"

Hope(s) ==
  \/ \E i \in 1..Len(wire[s]) : i <= aged[s] /\ Shows(wire[s][i]) /\ CloseIn(s) >= 1
  \/ \E i \in 1..Len(wire[s]) : Shows(wire[s][i]) /\ CloseIn(s) >= 2
  \/ KaOpen(Peer(s)) /\ CloseIn(s) >= SendIn(Peer(s)) + 2
  \/ Open(Peer(s)) /\ ka[Peer(s)].phase = "new" /\ CloseIn(s) >= HalfTicks + 2
  \/ ~Open(Peer(s)) /\ CloseIn(s) >= HalfTicks + (IF aged[Peer(s)] > 0 THEN 2 ELSE 3)

Clock(s) ==
  /\ KaOpen(s) => Open(s) \/ Gone(Peer(s))
  /\ ka[s].phase = "new" => "ka" \notin tick[s]
  /\ ~Open(s) /\ ~Gone(s) => ka[s].phase = "new"
  /\ KaOpen(s) => ka[s].send >= 1 /\ ka[s].send <= HalfTicks
  /\ Both(s) => Hope(s)
  /\ ka[s].why = "timeout" => Gone(Peer(s)) \/ ka[Peer(s)].phase = "closed"

TInv == KaTypes /\ \A s \in Side : Clock(s)

Grows(w, v) == v = w \/ \E m : v = Append(w, m)

LEMMA GrowsKeeps ==
  ASSUME NEW w, NEW v, IsQueue(w), Grows(w, v)
  PROVE  Len(w) \in Nat /\ Len(v) \in Nat /\ Len(w) <= Len(v) /\ \A i \in 1..Len(w) : i \in 1..Len(v) /\ v[i] = w[i]
<1>1. w \in Seq(ToSet(w)) /\ Len(w) \in Nat
  BY DEF IsQueue
<1>2. CASE v = w
  BY <1>1, <1>2
<1>3. ASSUME NEW m, v = Append(w, m)
      PROVE  Len(v) = Len(w) + 1 /\ \A i \in 1..Len(w) : v[i] = w[i]
  <2>1. w \in Seq(ToSet(w) \cup {m})
    BY <1>1
  <2> QED BY <1>3, <2>1
<1> QED BY <1>1, <1>2, <1>3 DEF Grows

LEMMA LastOne ==
  ASSUME NEW w, NEW m, IsQueue(w)
  PROVE  Len(Append(w, m)) \in 1..Len(Append(w, m)) /\ Append(w, m)[Len(Append(w, m))] = m
<1>1. w \in Seq(ToSet(w) \cup {m}) /\ Len(w) \in Nat
  BY DEF IsQueue
<1> QED BY <1>1

LEMMA Counts ==
  ASSUME KaTypes, NEW s \in Side
  PROVE  /\ CloseIn(s) \in Int /\ SendIn(s) \in Int /\ Waiting(s) \in {0, 1} /\ aged[s] \in Nat
         /\ ka[s].close \in Nat /\ ka[s].send \in Nat /\ HalfTicks \in Nat
         /\ ka[s].phase \in {"new", "open", "closed"} /\ ka[s] \in KaStates
<1>1. HalfTicks \in Nat
  BY KeepaliveAssumption DEF HalfTicks
<1>2. ka[s] \in KaStates /\ aged[s] \in Nat
  BY DEF KaTypes
<1>3. ka[s].close \in Nat /\ ka[s].send \in Nat /\ ka[s].phase \in {"new", "open", "closed"}
  BY <1>2 DEF KaStates
<1>4. Waiting(s) \in {0, 1}
  BY DEF Waiting
<1> QED BY <1>1, <1>2, <1>3, <1>4 DEF CloseIn, SendIn

LEMMA HalfOf ==
  ASSUME KeepaliveTicks >= 5
  PROVE  HalfTicks \in Nat /\ HalfTicks >= 2 /\ HalfTicks + 3 <= KeepaliveTicks
BY KeepaliveAssumption DEF HalfTicks

\* The peer p of s takes a step: what s hopes for stays.
LEMMA PeerClock ==
  ASSUME SInv, TInv, KaTypes', NEW s \in Side, NEW p, p = Peer(s),
         sc'[s] = sc[s], ka'[s] = ka[s], tick'[s] = tick[s], aged'[s] = aged[s],
         Grows(wire[s], wire'[s]), Gone(p) => Gone(p)', ka[p].phase = "closed" => ka'[p].phase = "closed",
         \/ Gone(p)' \/ ka'[p].phase = "closed" \/ ~Open(s)
         \/ KaOpen(p) /\ KaOpen(p)' /\ SendIn(p)' <= SendIn(p)
         \/ KaOpen(p) /\ \E m : Shows(m) /\ wire'[s] = Append(wire[s], m)
         \/ Open(p) /\ Open(p)' /\ ka[p].phase = "new" /\ ka'[p].phase = "new"
         \/ Open(p) /\ ka[p].phase = "new" /\ KaOpen(p)' /\ SendIn(p)' <= HalfTicks
         \/ ~Open(p) /\ Open(p)' /\ ka[p].phase = "new" /\ ka'[p].phase = "new"
  PROVE  Clock(s)'
<1>1. p \in Side /\ s # p /\ Clock(s) /\ Clock(p) /\ IsQueue(wire[s])
  BY SInvParts DEF TInv
<1>2. /\ CloseIn(s) \in Int /\ CloseIn(s)' = CloseIn(s) /\ SendIn(p) \in Int /\ HalfTicks \in Nat /\ aged[s] \in Nat
      /\ SendIn(p)' \in Int
  <2>1. CloseIn(s) \in Int /\ SendIn(p) \in Int /\ HalfTicks \in Nat /\ aged[s] \in Nat
    BY <1>1, Counts DEF TInv
  <2>2. CloseIn(s)' = CloseIn(s)
    BY DEF CloseIn, Waiting
  <2>3. ka'[p].send \in Nat
    BY <1>1 DEF KaTypes, KaStates
  <2>4. SendIn(p)' \in Int
    BY <2>3 DEF SendIn, Waiting
  <2> QED BY <2>1, <2>2, <2>4
<1>3. KaOpen(p) => SendIn(p) >= 0
  <2>1. Waiting(p) \in {0, 1} /\ ka[p].send \in Nat
    BY <1>1, Counts DEF TInv
  <2> QED BY <1>1, <2>1 DEF Clock, SendIn
<1>4. /\ KaOpen(s)' => Open(s)' \/ Gone(Peer(s))'
      /\ ka'[s].phase = "new" => "ka" \notin tick'[s]
      /\ ~Open(s)' /\ ~Gone(s)' => ka'[s].phase = "new"
      /\ KaOpen(s)' => ka'[s].send >= 1 /\ ka'[s].send <= HalfTicks
      /\ ka'[s].why = "timeout" => Gone(Peer(s))' \/ ka'[Peer(s)].phase = "closed"
  BY <1>1 DEF Clock, KaOpen, Open, Gone
<1>5. ASSUME Both(s)' PROVE Hope(s)'
  <2>1. Both(s) /\ Hope(s) /\ Open(s) /\ ~Gone(p)' /\ ka'[p].phase # "closed"
    BY <1>1, <1>5 DEF Both, Clock, KaOpen, Open
  <2>2. /\ Len(wire[s]) \in Nat /\ Len(wire'[s]) \in Nat
        /\ \A i \in 1..Len(wire[s]) : i \in 1..Len(wire'[s]) /\ wire'[s][i] = wire[s][i]
    BY <1>1, GrowsKeeps
  <2>3. CASE \E i \in 1..Len(wire[s]) : i <= aged[s] /\ Shows(wire[s][i]) /\ CloseIn(s) >= 1
    <3>1. PICK i \in 1..Len(wire[s]) : i <= aged[s] /\ Shows(wire[s][i]) /\ CloseIn(s) >= 1
      BY <2>3
    <3>2. i \in 1..Len(wire'[s]) /\ wire'[s][i] = wire[s][i]
      BY <2>2
    <3>3. i <= aged'[s] /\ Shows(wire'[s][i]) /\ CloseIn(s)' >= 1
      BY <1>2, <3>1, <3>2
    <3> QED BY <3>2, <3>3 DEF Hope, Shows
  <2>4. CASE \E i \in 1..Len(wire[s]) : Shows(wire[s][i]) /\ CloseIn(s) >= 2
    <3>1. PICK i \in 1..Len(wire[s]) : Shows(wire[s][i]) /\ CloseIn(s) >= 2
      BY <2>4
    <3>2. i \in 1..Len(wire'[s]) /\ wire'[s][i] = wire[s][i]
      BY <2>2
    <3>3. Shows(wire'[s][i]) /\ CloseIn(s)' >= 2
      BY <1>2, <3>1, <3>2
    <3> QED BY <3>2, <3>3 DEF Hope, Shows
  <2>5. CASE KaOpen(p) /\ CloseIn(s) >= SendIn(p) + 2
    <3>1. CASE KaOpen(p)' /\ SendIn(p)' <= SendIn(p)
      <4>1. CloseIn(s)' >= SendIn(p)' + 2
        BY <1>2, <2>5, <3>1
      <4> QED BY <3>1, <4>1 DEF Hope
    <3>2. CASE \E m : Shows(m) /\ wire'[s] = Append(wire[s], m)
      <4>1. CloseIn(s)' >= 2
        BY <1>2, <1>3, <2>5
      <4>2. PICK i \in 1..Len(wire'[s]) : Shows(wire'[s][i])
        BY <1>1, <3>2, LastOne
      <4> QED BY <4>1, <4>2 DEF Hope, Shows
    <3> QED BY <2>1, <2>5, <3>1, <3>2 DEF KaOpen
  <2>6. CASE Open(p) /\ ka[p].phase = "new" /\ CloseIn(s) >= HalfTicks + 2
    <3>1. CASE Open(p)' /\ ka'[p].phase = "new"
      BY <1>2, <2>6, <3>1 DEF Hope, HalfTicks
    <3>2. CASE KaOpen(p)' /\ SendIn(p)' <= HalfTicks
      <4>1. CloseIn(s)' >= SendIn(p)' + 2
        BY <1>2, <2>6, <3>2
      <4> QED BY <3>2, <4>1 DEF Hope
    <3> QED BY <2>1, <2>6, <3>1, <3>2 DEF KaOpen
  <2>7. CASE ~Open(p) /\ CloseIn(s) >= HalfTicks + (IF aged[p] > 0 THEN 2 ELSE 3)
    <3>1. ~KaOpen(p)
      BY <1>1, <2>1, <2>7 DEF Clock, Both, KaOpen
    <3>2. Open(p)' /\ ka'[p].phase = "new"
      BY <2>1, <2>7, <3>1
    <3>3. CloseIn(s)' >= HalfTicks + 2
      BY <1>2, <2>7
    <3> QED BY <3>2, <3>3 DEF Hope, HalfTicks
  <2> QED BY <2>1, <2>3, <2>4, <2>5, <2>6, <2>7 DEF Hope
<1> QED BY <1>4, <1>5 DEF Clock, HalfTicks

\* End p itself takes a step.
LEMMA OwnClock ==
  ASSUME SInv, TInv, KaTypes', KeepaliveTicks >= 5, NEW p \in Side, NEW s, s = Peer(p),
         sc'[s] = sc[s], ka'[s] = ka[s], tick'[s] = tick[s], aged'[s] = aged[s],
         KaOpen(p)' => Open(p)' \/ Gone(s),
         ka'[p].phase = "new" => ka[p].phase = "new" /\ tick'[p] \subseteq tick[p],
         ~Open(p)' /\ ~Gone(p)' => ka'[p].phase = "new",
         KaOpen(p)' => ka'[p].send >= 1 /\ ka'[p].send <= HalfTicks,
         ka'[p].why = "timeout" => ka[p].why = "timeout" \/ Gone(s) \/ ka[s].phase = "closed",
         \/ ~Both(p)'
         \/ Both(p) /\ CloseIn(p)' = CloseIn(p) /\ wire'[p] = wire[p] /\ aged'[p] = aged[p]
         \/ /\ Both(p) /\ CloseIn(p)' = CloseIn(p) /\ aged'[p] >= aged[p] - 1
            /\ wire[p] # <<>> /\ wire'[p] = Tail(wire[p]) /\ ~Shows(Head(wire[p]))
         \/ CloseIn(p)' >= KeepaliveTicks
         \/ CloseIn(p)' >= KeepaliveTicks - 1 /\ Open(s)
  PROVE  Clock(p)'
<1>1. s \in Side /\ s # p /\ Clock(s) /\ Clock(p) /\ IsQueue(wire[p])
  BY SInvParts DEF TInv
<1>2. Gone(s)' = Gone(s) /\ Open(s)' = Open(s) /\ KaOpen(s)' = KaOpen(s) /\ SendIn(s)' = SendIn(s)
  BY DEF Gone, Open, KaOpen, SendIn, Waiting
<1>3. /\ CloseIn(p) \in Int /\ SendIn(s) \in Int /\ HalfTicks \in Nat /\ aged[p] \in Nat /\ aged[s] \in Nat
      /\ Waiting(s) \in {0, 1} /\ ka[s].send \in Nat /\ ka[s].phase \in {"new", "open", "closed"}
  BY <1>1, Counts DEF TInv
<1>4. CloseIn(p)' \in Int /\ aged'[p] \in Nat
  <2>1. ka'[p].close \in Nat /\ aged'[p] \in Nat
    BY DEF KaTypes, KaStates
  <2> QED BY <2>1 DEF CloseIn, Waiting
<1>5. ASSUME Both(p)' PROVE Hope(p)'
  <2>1. ~Gone(s) /\ ka[s].phase # "closed"
    BY <1>2, <1>5 DEF Both
  <2>2. ASSUME Hope(p), wire'[p] = wire[p], aged'[p] = aged[p], CloseIn(p)' = CloseIn(p) PROVE Hope(p)'
    BY <1>2, <2>2 DEF Hope, Shows, HalfTicks
  <2>3. ASSUME Hope(p), CloseIn(p)' = CloseIn(p), aged'[p] >= aged[p] - 1,
               wire[p] # <<>>, wire'[p] = Tail(wire[p]), ~Shows(Head(wire[p]))
        PROVE  Hope(p)'
    <3> DEFINE w == wire[p]
               v == wire'[p]
    <3>1. /\ Len(w) \in Nat /\ Len(v) = Len(w) - 1 /\ Head(w) = w[1]
          /\ \A i \in 1..Len(v) : v[i] = w[i + 1]
      BY <1>1, <2>3 DEF IsQueue
    <3>2. ASSUME NEW i \in 1..Len(w), Shows(w[i])
          PROVE  i - 1 \in 1..Len(v) /\ v[i - 1] = w[i] /\ (i <= aged[p] => i - 1 <= aged'[p])
      <4>1. i # 1
        BY <2>3, <3>1, <3>2
      <4>2. i - 1 \in 1..Len(v) /\ (i - 1) + 1 = i
        BY <3>1, <4>1
      <4> QED BY <1>3, <1>4, <2>3, <3>1, <4>2
    <3> HIDE DEF w, v
    <3>3. CASE \E i \in 1..Len(w) : i <= aged[p] /\ Shows(w[i]) /\ CloseIn(p) >= 1
      <4>1. PICK i \in 1..Len(w) : i <= aged[p] /\ Shows(w[i]) /\ CloseIn(p) >= 1
        BY <3>3
      <4>2. i - 1 \in 1..Len(v) /\ Shows(v[i - 1]) /\ i - 1 <= aged'[p] /\ CloseIn(p)' >= 1
        BY <2>3, <3>2, <4>1
      <4>3. \E j \in 1..Len(v) : j <= aged'[p] /\ Shows(v[j]) /\ CloseIn(p)' >= 1
        BY <4>2
      <4> QED BY <4>3 DEF Hope, Shows, v
    <3>4. CASE \E i \in 1..Len(w) : Shows(w[i]) /\ CloseIn(p) >= 2
      <4>1. PICK i \in 1..Len(w) : Shows(w[i]) /\ CloseIn(p) >= 2
        BY <3>4
      <4>2. i - 1 \in 1..Len(v) /\ Shows(v[i - 1]) /\ CloseIn(p)' >= 2
        BY <2>3, <3>2, <4>1
      <4>3. \E j \in 1..Len(v) : Shows(v[j]) /\ CloseIn(p)' >= 2
        BY <4>2
      <4> QED BY <4>3 DEF Hope, Shows, v
    <3>5. CASE \/ KaOpen(s) /\ CloseIn(p) >= SendIn(s) + 2
               \/ Open(s) /\ ka[s].phase = "new" /\ CloseIn(p) >= HalfTicks + 2
               \/ ~Open(s) /\ CloseIn(p) >= HalfTicks + (IF aged[s] > 0 THEN 2 ELSE 3)
      BY <1>2, <2>3, <3>5 DEF Hope, HalfTicks
    <3> QED BY <2>3, <3>3, <3>4, <3>5 DEF Hope, w
  <2>4. ASSUME CloseIn(p)' >= KeepaliveTicks - 1, Open(s) PROVE Hope(p)'
    <3>1. CASE KaOpen(s)
      <4>1. SendIn(s) <= HalfTicks
        BY <1>1, <1>3, <3>1 DEF Clock, SendIn
      <4>2. CloseIn(p)' >= SendIn(s)' + 2
        BY <1>2, <1>3, <1>4, <2>4, <4>1, HalfOf, KeepaliveAssumption
      <4> QED BY <1>2, <3>1, <4>2 DEF Hope
    <3>2. CASE ka[s].phase = "new"
      <4>1. CloseIn(p)' >= HalfTicks + 2
        BY <1>3, <1>4, <2>4, HalfOf, KeepaliveAssumption
      <4> QED BY <1>2, <2>4, <3>2, <4>1 DEF Hope, HalfTicks
    <3> QED BY <1>3, <2>1, <3>1, <3>2 DEF KaOpen
  <2>5. ASSUME CloseIn(p)' >= KeepaliveTicks PROVE Hope(p)'
    <3>1. CASE Open(s)
      <4>1. CloseIn(p)' >= KeepaliveTicks - 1
        BY <1>4, <2>5, KeepaliveAssumption
      <4> QED BY <2>4, <3>1, <4>1
    <3>2. CASE ~Open(s)
      <4>1. CloseIn(p)' >= HalfTicks + 3 /\ CloseIn(p)' >= HalfTicks + 2
        BY <1>3, <1>4, <2>5, HalfOf, KeepaliveAssumption
      <4> QED BY <1>2, <3>2, <4>1 DEF Hope, HalfTicks
    <3> QED BY <3>1, <3>2
  <2>6. Both(p) => Hope(p)
    BY <1>1 DEF Clock
  <2> QED BY <1>5, <2>2, <2>3, <2>4, <2>5, <2>6
<1>6. ka'[p].phase = "new" => "ka" \notin tick'[p]
  BY <1>1 DEF Clock
<1>7. ka'[p].why = "timeout" => Gone(s)' \/ ka'[s].phase = "closed"
  BY <1>1, <1>2 DEF Clock
<1> QED BY <1>2, <1>5, <1>6, <1>7 DEF Clock, HalfTicks

\* What the steps of the secure channel change.
LEMMA UserEffect ==
  ASSUME SInv, NEW p \in Side, NEW body, User(p, body), body.t # "rekey"
  PROVE  /\ sc'[Peer(p)] = sc[Peer(p)] /\ Open(p) /\ Open(p)' /\ wire'[p] = wire[p]
         /\ Grows(wire[Peer(p)], wire'[Peer(p)])
         /\ ~Open(Peer(p)) \/ \E m : Shows(m) /\ wire'[Peer(p)] = Append(wire[Peer(p)], m)
<1> DEFINE s == Peer(p)
           m == Encrypt(sc[p], body)
<1>1. /\ s \in Side /\ s # p /\ sc \in [Side -> Channel] /\ sc[p].phase = "open" /\ IsQueue(wire[p])
      /\ wire' = Put(wire, p, m) /\ sc' = [sc EXCEPT ![p].sender = Bump(@)]
  BY SInvParts DEF User, Open, SInv, Types
<1>2. sc'[s] = sc[s] /\ sc'[p].phase = "open"
  BY <1>1 DEF Channel
<1>3. Shows(m)
  BY DEF Shows, Encrypt
<1> HIDE DEF m
<1>4. wire'[p] = wire[p] /\ wire'[s] = IF Lost(sc[s]) THEN wire[s] ELSE Append(wire[s], m)
  BY <1>1, PutWire
<1>5. Open(s) => ~Lost(sc[s])
  BY DEF Open, Lost
<1> QED BY <1>1, <1>2, <1>3, <1>4, <1>5 DEF Open, Grows

LEMMA TickEffect ==
  ASSUME SInv, NEW p \in Side, SCTick(p)
  PROVE  /\ sc'[Peer(p)] = sc[Peer(p)] /\ Open(p) /\ Open(p)' /\ wire'[p] = wire[p]
         /\ Grows(wire[Peer(p)], wire'[Peer(p)])
<1> DEFINE s == Peer(p)
           m == Encrypt(sc[p], [t |-> "rekey", dh |-> Fresh(p)])
<1>1. s \in Side /\ s # p /\ sc \in [Side -> Channel] /\ sc[p].phase = "open" /\ IsQueue(wire[p]) /\ sc[p] \in Channel
  BY SInvParts DEF SCTick, CreateRekey, Open, SInv, Types
<1>2. \/ UNCHANGED <<sc, wire>>
      \/ sc' = [sc EXCEPT ![p].ticks = @ - 1] /\ UNCHANGED wire
      \/ /\ sc' = [sc EXCEPT ![p] = [@ EXCEPT !.pending = Fresh(p), !.sender = Bump(sc[p].sender),
                                              !.ticks = TicksToRekey]]
         /\ wire' = Put(wire, p, m)
  BY DEF SCTick, CreateRekey
<1>3. sc'[s] = sc[s] /\ sc'[p].phase = "open"
  BY <1>1, <1>2 DEF Channel
<1> HIDE DEF m
<1>4. wire'[p] = wire[p] /\ (wire'[s] = wire[s] \/ wire'[s] = Append(wire[s], m))
  <2>1. /\ Put(wire, p, m)[p] = wire[p]
        /\ Put(wire, p, m)[s] = IF Lost(sc[s]) THEN wire[s] ELSE Append(wire[s], m)
    BY <1>1, PutWire
  <2>2. wire' = wire \/ wire' = Put(wire, p, m)
    BY <1>2
  <2> QED BY <2>1, <2>2
<1> QED BY <1>1, <1>3, <1>4 DEF Open, Grows

LEMMA RekeyEffect ==
  ASSUME SInv, NEW p \in Side, ReaderRekey(p)
  PROVE  /\ sc'[Peer(p)] = sc[Peer(p)] /\ Open(p) /\ Open(p)' /\ wire[p] # <<>> /\ wire'[p] = Tail(wire[p])
         /\ ~Shows(Head(wire[p])) /\ Grows(wire[Peer(p)], wire'[Peer(p)])
<1> DEFINE s == Peer(p)
           w == wire[p]
           g == TryDecrypt(sc[p], Head(w))
           m == Encrypt(g, [t |-> "rekey", dh |-> Fresh(p)])
<1>1. /\ s \in Side /\ s # p /\ sc \in [Side -> Channel] /\ sc[p].phase = "open" /\ sc[p] \in Channel
      /\ w # <<>> /\ IsQueue(w) /\ DOMAIN wire = Side
  BY SInvParts DEF ReaderRekey, Open, SInv, Types
<1>2. Head(w).body.t = "rekey" /\ HandleIncomingRekey(p, Head(w), g)
  BY <1>1, ReadHead DEF ReaderRekey
<1>3. \E x, y : sc' = [sc EXCEPT ![p] = NewKeys(g, x, y)]
  BY <1>2 DEF HandleIncomingRekey
<1>4. g.phase = "open" /\ \A x, y : NewKeys(g, x, y).phase = "open"
  <2>1. g.phase = "open" /\ DOMAIN g = DOMAIN sc[p] /\ "phase" \in DOMAIN sc[p]
    BY <1>1 DEF TryDecrypt, Channel
  <2> HIDE DEF g
  <2> QED BY <2>1 DEF NewKeys
<1>5. sc'[s] = sc[s] /\ sc'[p].phase = "open"
  BY <1>1, <1>3, <1>4
<1>6. wire' = Take(wire, p) \/ wire' = Put(Take(wire, p), p, m)
  BY <1>2 DEF HandleIncomingRekey
<1> HIDE DEF m
<1>7. wire'[p] = Tail(w) /\ (wire'[s] = wire[s] \/ wire'[s] = Append(wire[s], m))
  <2>1. Take(wire, p)[p] = Tail(w) /\ Take(wire, p)[s] = wire[s]
    BY <1>1 DEF Take
  <2>2. IsQueue(Take(wire, p)[p])
    BY <1>1, <2>1, TailQueue
  <2>3. /\ Put(Take(wire, p), p, m)[p] = Tail(w)
        /\ Put(Take(wire, p), p, m)[s] = IF Lost(sc[s]) THEN wire[s] ELSE Append(wire[s], m)
    BY <2>1, <2>2, PutWire
  <2> QED BY <1>6, <2>1, <2>3
<1> QED BY <1>1, <1>2, <1>5, <1>7 DEF Open, Grows, Shows

LEMMA ReadEffect ==
  ASSUME SInv, NEW p \in Side, NEW body, ReaderUser(p, body)
  PROVE  /\ sc'[Peer(p)] = sc[Peer(p)] /\ Open(p) /\ Open(p)' /\ wire'[Peer(p)] = wire[Peer(p)]
         /\ Open(Peer(p)) \/ Gone(Peer(p))
<1> DEFINE s == Peer(p)
           g == TryDecrypt(sc[p], Head(wire[p]))
<1>1. /\ s \in Side /\ s # p /\ sc \in [Side -> Channel] /\ sc[p].phase = "open" /\ sc[p] \in Channel
      /\ wire[p] # <<>> /\ DOMAIN wire = Side /\ wire' = Take(wire, p) /\ sc' = [sc EXCEPT ![p] = g]
  BY SInvParts DEF ReaderUser, Open, SInv, Types
<1>2. g.phase = "open"
  BY <1>1 DEF TryDecrypt, Channel
<1>3. sc'[s] = sc[s] /\ sc'[p].phase = "open" /\ wire'[s] = wire[s]
  BY <1>1, <1>2 DEF Take
<1>4. sc[s].phase \notin {"nonce", "dh"}
  BY <1>1, SInvParts DEF Met, Rest
<1>5. sc[s].phase \in Phases
  BY <1>1, SInvParts
<1> QED BY <1>1, <1>3, <1>4, <1>5 DEF Open, Gone, Phases

LEMMA ExchangeEffect ==
  ASSUME SInv, NEW p \in Side, HandleExchangeRandNonce(p) \/ HandleExchangeDh(p)
  PROVE  /\ sc'[Peer(p)] = sc[Peer(p)] /\ ~Open(p) /\ ~Gone(p) /\ Grows(wire[Peer(p)], wire'[Peer(p)])
         /\ Gone(p)' \/ Open(p)' \/ (~Open(Peer(p)) /\ sc'[p].phase = "dh")
<1> DEFINE s == Peer(p)
           m == [t |-> "dh", dh |-> Fresh(p), nonce |-> Head(wire[p]).nonce, sig |-> p]
<1>1. /\ s \in Side /\ s # p /\ sc \in [Side -> Channel] /\ sc[p] \in Channel /\ DOMAIN wire = Side /\ IsQueue(wire[p])
      /\ Unopened \in Channel
  BY SInvParts, UnopenedChannel DEF SInv, Types
<1>2. ASSUME NEW why, Close(p, why) PROVE sc'[s] = sc[s] /\ sc'[p].phase = "closed" /\ wire'[s] = wire[s]
  BY <1>1, <1>2 DEF Close, Channel
<1>3. CASE HandleExchangeDh(p)
  <2>1. sc[p].phase = "dh"
    BY <1>3 DEF HandleExchangeDh
  <2>2. CASE Close(p, "garbled")
    BY <1>2, <2>1, <2>2 DEF Open, Gone, Grows
  <2>3. CASE ~Close(p, "garbled")
    <3>1. /\ wire' = Take(wire, p)
          /\ \E a, b : sc' = [sc EXCEPT ![p] = [@ EXCEPT !.phase = "open", !.sender = a, !.receiver = b]]
      BY <1>3, <2>3 DEF HandleExchangeDh
    <3>2. wire'[s] = wire[s] /\ sc'[s] = sc[s] /\ sc'[p].phase = "open"
      BY <1>1, <3>1 DEF Take, Channel
    <3> QED BY <2>1, <3>2 DEF Open, Gone, Grows
  <2> QED BY <2>2, <2>3
<1>4. CASE HandleExchangeRandNonce(p)
  <2>1. sc[p].phase = "nonce" /\ wire[p] # <<>>
    BY <1>4 DEF HandleExchangeRandNonce
  <2>2. ~Open(s)
    BY <1>1, <2>1, SInvParts DEF Met, Open
  <2>3. CASE Close(p, "unexpected")
    BY <1>2, <2>1, <2>3 DEF Open, Gone, Grows
  <2>4. CASE ~Close(p, "unexpected")
    <3>1. /\ wire' = Put(Take(wire, p), p, m)
          /\ sc' = [sc EXCEPT ![p] = [@ EXCEPT !.phase = "dh", !.remote = Head(wire[p]).pk, !.dh = Fresh(p)]]
      BY <1>4, <2>4 DEF HandleExchangeRandNonce
    <3>2. sc'[s] = sc[s] /\ sc'[p].phase = "dh"
      BY <1>1, <3>1 DEF Channel
    <3>3. IsQueue(Take(wire, p)[p])
      BY <1>1, <2>1, TailQueue DEF Take
    <3> HIDE DEF m
    <3>4. wire'[s] = wire[s] \/ wire'[s] = Append(wire[s], m)
      BY <3>1, <3>3, PutWire
    <3> QED BY <2>1, <2>2, <3>2, <3>4 DEF Open, Gone, Grows
  <2> QED BY <2>3, <2>4
<1> QED BY <1>3, <1>4

LEMMA KaSets ==
  ASSUME KaTypes, NEW p \in Side, NEW k \in KaStates, ka' = [ka EXCEPT ![p] = k]
  PROVE  ka' \in [Side -> KaStates] /\ ka'[p] = k /\ ka'[Peer(p)] = ka[Peer(p)]
BY Peers DEF KaTypes

LEMMA AgedSets ==
  ASSUME KaTypes, NEW p \in Side, Aged(p)
  PROVE  aged' \in [Side -> Nat] /\ aged'[p] >= aged[p] - 1 /\ aged'[Peer(p)] = aged[Peer(p)]
<1>1. aged[p] \in Nat /\ aged \in [Side -> Nat] /\ Peer(p) \in Side /\ Peer(p) # p
  BY Peers DEF KaTypes
<1> QED BY <1>1 DEF Aged

LEMMA ClockParts ==
  ASSUME SInv, TInv, NEW p \in Side
  PROVE  /\ KaTypes /\ Peer(p) \in Side /\ Peer(p) # p /\ Peer(Peer(p)) = p /\ Clock(p) /\ Clock(Peer(p))
         /\ ka[p] \in KaStates /\ ka[p].phase \in {"new", "open", "closed"}
         /\ ka[p].close \in Nat /\ ka[p].send \in Nat /\ HalfTicks \in Nat /\ aged[p] \in Nat
         /\ SendIn(p) \in Int /\ CloseIn(p) \in Int /\ Waiting(p) \in {0, 1}
BY Peers, Counts DEF TInv

LEMMA BothClocks ==
  ASSUME KaTypes', NEW p \in Side, Clock(p)', Clock(Peer(p))'
  PROVE  TInv'
BY TwoSides DEF TInv

\* The peer of an end whose loops stay as they are.
LEMMA PeerOfSame ==
  ASSUME SInv, TInv, KaTypes', NEW p \in Side, sc'[Peer(p)] = sc[Peer(p)],
         ka' = ka, tick'[Peer(p)] = tick[Peer(p)], aged'[Peer(p)] = aged[Peer(p)],
         Grows(wire[Peer(p)], wire'[Peer(p)]), Open(p), Open(p)',
         "ka" \in tick'[p] <=> "ka" \in tick[p]
  PROVE  Clock(Peer(p))'
<1> DEFINE s == Peer(p)
<1>1. s \in Side /\ p = Peer(s) /\ ka[p].phase \in {"new", "open", "closed"} /\ SendIn(p) \in Int
  BY ClockParts
<1>2. SendIn(p)' <= SendIn(p)
  BY <1>1 DEF SendIn, Waiting
<1>3. ~Gone(p)
  BY DEF Open, Gone
<1>4. /\ Gone(p) => Gone(p)'
      /\ ka[p].phase = "closed" => ka'[p].phase = "closed"
      /\ \/ Gone(p)' \/ ka'[p].phase = "closed" \/ ~Open(s)
         \/ KaOpen(p) /\ KaOpen(p)' /\ SendIn(p)' <= SendIn(p)
         \/ KaOpen(p) /\ \E m : Shows(m) /\ wire'[s] = Append(wire[s], m)
         \/ Open(p) /\ Open(p)' /\ ka[p].phase = "new" /\ ka'[p].phase = "new"
         \/ Open(p) /\ ka[p].phase = "new" /\ KaOpen(p)' /\ SendIn(p)' <= HalfTicks
         \/ ~Open(p) /\ Open(p)' /\ ka[p].phase = "new" /\ ka'[p].phase = "new"
  BY <1>1, <1>2, <1>3 DEF KaOpen
<1>5. ka'[s] = ka[s]
  OBVIOUS
<1> HIDE DEF s
<1> QED BY <1>1, <1>4, <1>5, PeerClock DEF s

LEMMA ExchangeTInv ==
  ASSUME SInv, TInv, KeepaliveTicks >= 5, NEW p \in Side, Exchange(p)
  PROVE  TInv'
<1> DEFINE s == Peer(p)
<1>1. /\ sc'[s] = sc[s] /\ ~Open(p) /\ ~Gone(p) /\ Grows(wire[s], wire'[s])
      /\ Gone(p)' \/ Open(p)' \/ (~Open(s) /\ sc'[p].phase = "dh")
      /\ UNCHANGED <<ka, tick>>
  BY ExchangeEffect DEF Exchange
<1>2. /\ s \in Side /\ p = Peer(s) /\ Clock(p) /\ aged' \in [Side -> Nat] /\ aged'[s] = aged[s] /\ KaTypes'
  BY <1>1, ClockParts, AgedSets DEF Exchange, KaTypes
<1>3. ka[p].phase = "new" /\ ka'[p].phase = "new" /\ ~KaOpen(p)' /\ ~Both(p)'
  BY <1>1, <1>2 DEF Clock, KaOpen, Both
<1> HIDE DEF s
<1>4. Clock(s)'
  BY <1>1, <1>2, <1>3, PeerClock
<1>5. Clock(p)'
  BY <1>1, <1>2, <1>3, OwnClock DEF s
<1> QED BY <1>2, <1>4, <1>5, BothClocks DEF s

LEMMA ReceiveTInv ==
  ASSUME SInv, TInv, KeepaliveTicks >= 5, NEW p \in Side, Receive(p)
  PROVE  TInv'
<1> DEFINE s == Peer(p)
<1>1. /\ sc'[s] = sc[s] /\ Open(p) /\ Open(p)' /\ wire[p] # <<>> /\ wire'[p] = Tail(wire[p])
      /\ ~Shows(Head(wire[p])) /\ Grows(wire[s], wire'[s]) /\ UNCHANGED <<ka, tick>>
  BY RekeyEffect DEF Receive
<1>2. /\ s \in Side /\ p = Peer(s) /\ Clock(p) /\ aged' \in [Side -> Nat] /\ aged'[s] = aged[s] /\ KaTypes'
      /\ aged'[p] >= aged[p] - 1
  BY <1>1, ClockParts, AgedSets DEF Receive, KaTypes
<1>3. /\ CloseIn(p)' = CloseIn(p) /\ (KaOpen(p)' => ka'[p].send >= 1 /\ ka'[p].send <= HalfTicks)
      /\ Both(p)' => Both(p)
  BY <1>1, <1>2 DEF CloseIn, Waiting, KaOpen, Both, Gone, Clock
<1> HIDE DEF s
<1>4. Clock(s)'
  BY <1>1, <1>2, PeerOfSame DEF s
<1>5. Clock(p)'
  BY <1>1, <1>2, <1>3, OwnClock DEF s
<1> QED BY <1>2, <1>4, <1>5, BothClocks DEF s

LEMMA RekeyTickTInv ==
  ASSUME SInv, TInv, KeepaliveTicks >= 5, NEW p \in Side, RekeyTick(p)
  PROVE  TInv'
<1> DEFINE s == Peer(p)
<1>1. /\ sc'[s] = sc[s] /\ Open(p) /\ Open(p)' /\ wire'[p] = wire[p]
      /\ Grows(wire[s], wire'[s]) /\ UNCHANGED <<ka, aged>> /\ tick' = [tick EXCEPT ![p] = @ \ {"sc"}]
  BY TickEffect DEF RekeyTick
<1>2. s \in Side /\ s # p /\ p = Peer(s) /\ Clock(p) /\ KaTypes
  BY ClockParts
<1>3. KaTypes' /\ tick'[s] = tick[s] /\ tick'[p] \subseteq tick[p] /\ ("ka" \in tick'[p] <=> "ka" \in tick[p])
  BY <1>1, <1>2 DEF KaTypes
<1>4. /\ CloseIn(p)' = CloseIn(p) /\ (KaOpen(p)' => ka'[p].send >= 1 /\ ka'[p].send <= HalfTicks)
      /\ Both(p)' => Both(p)
  BY <1>1, <1>2, <1>3 DEF CloseIn, Waiting, KaOpen, Both, Gone, Clock
<1> HIDE DEF s
<1>5. Clock(s)'
  BY <1>1, <1>2, <1>3, PeerOfSame DEF s
<1>6. Clock(p)'
  BY <1>1, <1>2, <1>3, <1>4, OwnClock DEF s
<1> QED BY <1>2, <1>3, <1>5, <1>6, BothClocks DEF s

\* An end that goes away, or whose loop does.
LEMMA LeavesTInv ==
  ASSUME SInv, TInv, KeepaliveTicks >= 5, NEW p \in Side, KaTypes',
         LET s == Peer(p) IN
         /\ sc'[s] = sc[s] /\ ka'[s] = ka[s] /\ tick'[s] = tick[s] /\ aged'[s] = aged[s] /\ wire'[s] = wire[s],
         ka'[p] = ka[p] \/ ka'[p].phase = "closed", tick'[p] \subseteq tick[p],
         Gone(p)' \/ (ka'[p].phase = "closed" /\ KaOpen(p) /\ sc' = sc),
         KaOpen(p)' => Gone(Peer(p)),
         ka'[p].why = "timeout" => ka[p].why = "timeout" \/ Gone(Peer(p)) \/ ka[Peer(p)].phase = "closed"
  PROVE  TInv'
<1> DEFINE s == Peer(p)
<1>1. s \in Side /\ p = Peer(s) /\ Clock(p) /\ Grows(wire[s], wire'[s])
  BY ClockParts DEF Grows
<1>2. Gone(p) => Gone(p)'
  BY DEF Gone
<1>3. ka[p].phase = "closed" => ka'[p].phase = "closed"
  OBVIOUS
<1>4. Gone(p)' \/ ka'[p].phase = "closed"
  OBVIOUS
<1>5. ~Both(p)'
  BY <1>4 DEF Both, KaOpen, Open, Gone
<1>6. ~Open(p)' /\ ~Gone(p)' => ka'[p].phase = "new"
  BY <1>1 DEF Clock, Open, Gone, KaOpen
<1>7. KaOpen(p)' => Open(p)' \/ Gone(s)
  OBVIOUS
<1>8. KaOpen(p)' => ka'[p].send >= 1 /\ ka'[p].send <= HalfTicks
  BY <1>1 DEF Clock, KaOpen
<1>9. ka'[p].phase = "new" => ka[p].phase = "new" /\ tick'[p] \subseteq tick[p]
  OBVIOUS
<1> HIDE DEF s
<1>10. Clock(s)'
  BY <1>1, <1>2, <1>3, <1>4, PeerClock DEF s
<1>11. Clock(p)'
  BY <1>1, <1>5, <1>6, <1>7, <1>8, <1>9, OwnClock DEF s
<1> QED BY <1>10, <1>11, BothClocks DEF s

LEMMA ClosedState == \A why \in {"timeout", "ended", "user", "dead"} :
  LET k == [KaNew EXCEPT !.phase = "closed", !.why = why]
  IN k \in KaStates /\ k.phase = "closed" /\ k.why = why
BY DEF KaNew, KaStates, None

LEMMA ChannelClosesTInv ==
  ASSUME SInv, TInv, KeepaliveTicks >= 5, NEW p \in Side, ChannelCloses(p)
  PROVE  TInv'
<1>1. /\ \E why : Close(p, why)
      /\ KaOpen(p) => Gone(Peer(p))
      /\ UNCHANGED <<ka, tick, aged>>
  BY DEF ChannelCloses, ReaderClosed, UserClosed, Ended, Gone, KaOpen
<1>2. Gone(p)' /\ sc'[Peer(p)] = sc[Peer(p)] /\ wire'[Peer(p)] = wire[Peer(p)]
  <2>1. PICK why : Close(p, why)
    BY <1>1
  <2> DEFINE c == [Unopened EXCEPT !.phase = "closed", !.why = why]
  <2>2. c.phase \in {"closed", "dead"}
    BY UnopenedChannel DEF Channel
  <2>3. sc' = [sc EXCEPT ![p] = c] /\ wire' = [wire EXCEPT ![p] = <<>>]
    BY <2>1 DEF Close
  <2> HIDE DEF c
  <2> QED BY <2>2, <2>3, Peers DEF SInv, Types, Gone
<1>3. KaTypes'
  BY <1>1 DEF TInv, KaTypes
<1>4. KaOpen(p)' => Gone(Peer(p))
  BY <1>1 DEF KaOpen
<1> QED BY <1>1, <1>2, <1>3, <1>4, LeavesTInv

LEMMA CrashTInv ==
  ASSUME SInv, TInv, KeepaliveTicks >= 5, NEW p \in Side, Crash(p)
  PROVE  TInv'
<1> DEFINE s == Peer(p)
           k == [KaNew EXCEPT !.phase = "closed", !.why = "dead"]
<1>1. s \in Side /\ s # p /\ KaTypes /\ k \in KaStates /\ k.phase = "closed" /\ k.why = "dead"
  BY ClockParts, ClosedState
<1>2. Gone(p)' /\ sc'[s] = sc[s] /\ wire'[s] = wire[s]
  <2> DEFINE c == [Unopened EXCEPT !.phase = "dead"]
  <2>1. c.phase \in {"closed", "dead"}
    BY UnopenedChannel DEF Channel
  <2>2. sc' = [sc EXCEPT ![p] = c] /\ wire' = [wire EXCEPT ![p] = <<>>]
    BY DEF Crash
  <2> HIDE DEF c
  <2> QED BY <2>1, <2>2, Peers DEF SInv, Types, Gone
<1>3. ka' = [ka EXCEPT ![p] = k]
  BY DEF Crash, KaClose
<1> HIDE DEF k
<1>4. ka' \in [Side -> KaStates] /\ ka'[p] = k /\ ka'[s] = ka[s]
  BY <1>1, <1>3, KaSets
<1>5. tick' \in [Side -> SUBSET {"sc", "ka"}] /\ tick'[p] \subseteq tick[p] /\ tick'[s] = tick[s]
  BY <1>1 DEF Crash, KaTypes
<1>6. aged' \in [Side -> Nat] /\ aged'[s] = aged[s]
  BY <1>1 DEF Crash, KaTypes
<1>7. KaTypes' /\ ~KaOpen(p)' /\ ka'[p].why # "timeout"
  BY <1>1, <1>4, <1>5, <1>6 DEF KaTypes, KaOpen
<1> QED BY <1>1, <1>2, <1>4, <1>5, <1>6, <1>7, LeavesTInv

\* The loop of p ends; why is "timeout" only if the peer has gone.
LEMMA LoopEndsTInv ==
  ASSUME SInv, TInv, KeepaliveTicks >= 5, NEW p \in Side, NEW why \in {"timeout", "ended", "user"},
         KaOpen(p), KaClose(p, why), UNCHANGED scVars,
         tick' = tick \/ tick' = [tick EXCEPT ![p] = @ \ {"ka"}], UNCHANGED aged,
         why = "timeout" => Gone(Peer(p)) \/ ka[Peer(p)].phase = "closed"
  PROVE  TInv'
<1> DEFINE s == Peer(p)
           k == [KaNew EXCEPT !.phase = "closed", !.why = why]
<1>1. s \in Side /\ s # p /\ KaTypes /\ k \in KaStates /\ k.phase = "closed" /\ k.why = why
  BY ClockParts, ClosedState
<1>2. ka' = [ka EXCEPT ![p] = k]
  BY DEF KaClose
<1> HIDE DEF k
<1>3. ka' \in [Side -> KaStates] /\ ka'[p] = k /\ ka'[s] = ka[s]
  BY <1>1, <1>2, KaSets
<1>4. tick' \in [Side -> SUBSET {"sc", "ka"}] /\ tick'[p] \subseteq tick[p] /\ tick'[s] = tick[s]
  BY <1>1 DEF KaTypes
<1>5. KaTypes' /\ ~KaOpen(p)' /\ ka'[p].phase = "closed"
  BY <1>1, <1>3, <1>4 DEF KaTypes, KaOpen
<1>6. sc' = sc /\ sc'[s] = sc[s] /\ wire'[s] = wire[s] /\ aged'[s] = aged[s]
  BY DEF scVars
<1>7. ka'[p].why = "timeout" => Gone(s) \/ ka[s].phase = "closed"
  BY <1>1, <1>3
<1> QED BY <1>3, <1>4, <1>5, <1>6, <1>7, LeavesTInv

LEMMA KaStartTInv ==
  ASSUME SInv, TInv, KeepaliveTicks >= 5, NEW p \in Side, KaStart(p)
  PROVE  TInv'
<1> DEFINE s == Peer(p)
           k == [ka[p] EXCEPT !.phase = "open", !.close = KeepaliveTicks, !.send = HalfTicks]
<1>1. /\ s \in Side /\ s # p /\ p = Peer(s) /\ KaTypes /\ Clock(p) /\ HalfTicks \in Nat /\ HalfTicks >= 2
      /\ KeepaliveTicks \in Nat /\ ka[p] \in KaStates
  BY ClockParts, HalfOf, KeepaliveAssumption
<1>2. k \in KaStates /\ k.phase = "open" /\ k.close = KeepaliveTicks /\ k.send = HalfTicks /\ k.why = ka[p].why
  BY <1>1 DEF KaStates
<1>3. Open(p) /\ ka[p].phase = "new" /\ ka' = [ka EXCEPT ![p] = k] /\ UNCHANGED <<sc, wire, tick, aged>>
  BY DEF KaStart, HalfTicks, scVars
<1> HIDE DEF k
<1>4. ka' \in [Side -> KaStates] /\ ka'[p] = k /\ ka'[s] = ka[s]
  BY <1>1, <1>2, <1>3, KaSets
<1>5. /\ KaTypes' /\ KaOpen(p)' /\ Open(p)' /\ sc'[s] = sc[s] /\ tick'[s] = tick[s] /\ aged'[s] = aged[s]
      /\ Grows(wire[s], wire'[s]) /\ Gone(p)' = Gone(p)
  BY <1>1, <1>2, <1>3, <1>4 DEF KaTypes, KaOpen, Open, Gone, Grows
<1>6. "ka" \notin tick'[p]
  BY <1>1, <1>3 DEF Clock
<1>7. SendIn(p)' <= HalfTicks /\ CloseIn(p)' >= KeepaliveTicks
  BY <1>1, <1>2, <1>4, <1>6 DEF SendIn, CloseIn, Waiting
<1>8. ka'[p].phase # "new" /\ ka'[p].why = ka[p].why /\ ka'[p].send >= 1 /\ ka'[p].send <= HalfTicks
  BY <1>1, <1>2, <1>4
<1> HIDE DEF s
<1>9. Clock(s)'
  BY <1>1, <1>3, <1>4, <1>5, <1>7, PeerClock
<1>10. Clock(p)'
  BY <1>1, <1>4, <1>5, <1>7, <1>8, OwnClock DEF s
<1> QED BY <1>5, <1>9, <1>10, BothClocks DEF s

LEMMA MessageFromRemoteTInv ==
  ASSUME SInv, TInv, KeepaliveTicks >= 5, NEW p \in Side, MessageFromRemote(p)
  PROVE  TInv'
<1> DEFINE s == Peer(p)
           k == [ka[p] EXCEPT !.close = KeepaliveTicks]
<1>1. /\ s \in Side /\ s # p /\ p = Peer(s) /\ KaTypes /\ Clock(p) /\ KeepaliveTicks \in Nat /\ ka[p] \in KaStates
      /\ SendIn(p) \in Int /\ ka[p].send \in Nat
  BY ClockParts, KeepaliveAssumption
<1>2. k \in KaStates /\ k.phase = ka[p].phase /\ k.close = KeepaliveTicks /\ k.send = ka[p].send /\ k.why = ka[p].why
  BY <1>1 DEF KaStates
<1>3. KaOpen(p) /\ ka' = [ka EXCEPT ![p] = k] /\ UNCHANGED tick /\ Aged(p)
  BY DEF MessageFromRemote
<1>4. /\ sc'[s] = sc[s] /\ Open(p) /\ Open(p)' /\ wire'[s] = wire[s]
      /\ Open(s) \/ Gone(s)
  BY ReadEffect DEF MessageFromRemote
<1> HIDE DEF k
<1>5. /\ ka' \in [Side -> KaStates] /\ ka'[p] = k /\ ka'[s] = ka[s]
      /\ aged' \in [Side -> Nat] /\ aged'[s] = aged[s]
  BY <1>1, <1>2, <1>3, KaSets, AgedSets
<1>6. KaTypes' /\ KaOpen(p)' /\ tick'[s] = tick[s] /\ Grows(wire[s], wire'[s]) /\ ~Gone(p)
  BY <1>1, <1>2, <1>3, <1>4, <1>5 DEF KaTypes, KaOpen, Open, Gone, Grows
<1>7. SendIn(p)' <= SendIn(p) /\ CloseIn(p)' >= KeepaliveTicks - 1
  <2>1. SendIn(p)' = SendIn(p)
    BY <1>2, <1>3, <1>5 DEF SendIn, Waiting
  <2>2. CloseIn(p)' >= KeepaliveTicks - 1
    BY <1>1, <1>2, <1>5 DEF CloseIn, Waiting
  <2> QED BY <1>1, <2>1, <2>2
<1>8. /\ ka'[p].phase = "open" /\ ka'[p].why = ka[p].why /\ ka'[p].send >= 1 /\ ka'[p].send <= HalfTicks
      /\ ka[p].phase = "open"
  BY <1>1, <1>2, <1>3, <1>5 DEF Clock, KaOpen
<1>9. ~Both(p)' \/ Open(s)
  BY <1>1, <1>4 DEF Both, Gone
<1> HIDE DEF s
<1>10. Clock(s)'
  BY <1>1, <1>3, <1>4, <1>5, <1>6, <1>7, <1>8, PeerClock
<1>11. Clock(p)'
  BY <1>1, <1>4, <1>5, <1>6, <1>7, <1>8, <1>9, OwnClock DEF s
<1> QED BY <1>6, <1>10, <1>11, BothClocks DEF s

\* End p sends a message that shows that it lives.
LEMMA ShowsTInv ==
  ASSUME SInv, TInv, KeepaliveTicks >= 5, NEW p \in Side, NEW body, body.t # "rekey", User(p, body),
         KaOpen(p), NEW k \in KaStates, ka' = [ka EXCEPT ![p] = k], k.phase = "open", k.why = ka[p].why,
         k.send = HalfTicks, UNCHANGED aged, tick' \in [Side -> SUBSET {"sc", "ka"}],
         tick'[Peer(p)] = tick[Peer(p)], CloseIn(p)' = CloseIn(p)
  PROVE  TInv'
<1> DEFINE s == Peer(p)
<1>1. s \in Side /\ s # p /\ p = Peer(s) /\ KaTypes /\ Clock(p) /\ HalfTicks \in Nat /\ HalfTicks >= 2
  BY ClockParts, HalfOf
<1>2. /\ sc'[s] = sc[s] /\ Open(p) /\ Open(p)' /\ wire'[p] = wire[p]
      /\ Grows(wire[s], wire'[s])
      /\ ~Open(s) \/ \E m : Shows(m) /\ wire'[s] = Append(wire[s], m)
  BY UserEffect
<1>3. ka' \in [Side -> KaStates] /\ ka'[p] = k /\ ka'[s] = ka[s]
  BY <1>1, KaSets
<1>4. KaTypes' /\ KaOpen(p)' /\ ~Gone(p) /\ ka[p].phase = "open" /\ ka'[p].phase = "open" /\ aged'[s] = aged[s]
  BY <1>1, <1>2, <1>3 DEF KaTypes, KaOpen, Open, Gone
<1>5. Both(p)' => Both(p)
  BY <1>1, <1>2, <1>3 DEF Both, Gone
<1>6. aged'[p] = aged[p] /\ tick'[s] = tick[s] /\ ka'[p].send >= 1 /\ ka'[p].send <= HalfTicks
  BY <1>1, <1>3
<1> HIDE DEF s
<1>7. Clock(s)'
  BY <1>1, <1>2, <1>3, <1>4, <1>6, PeerClock
<1>8. Clock(p)'
  BY <1>1, <1>2, <1>3, <1>4, <1>5, <1>6, OwnClock DEF s
<1> QED BY <1>4, <1>7, <1>8, BothClocks DEF s

LEMMA MessageFromUserTInv ==
  ASSUME SInv, TInv, KeepaliveTicks >= 5, NEW p \in Side, MessageFromUser(p)
  PROVE  TInv'
<1> DEFINE k == [ka[p] EXCEPT !.send = HalfTicks]
           body == Msg(Len(sent[p]) + 1)
<1>1. KaTypes /\ ka[p] \in KaStates /\ HalfTicks \in Nat
  BY ClockParts
<1>2. k \in KaStates /\ k.phase = ka[p].phase /\ k.close = ka[p].close /\ k.send = HalfTicks /\ k.why = ka[p].why
  BY <1>1 DEF KaStates
<1>3. /\ KaOpen(p) /\ User(p, body) /\ body.t # "rekey" /\ ka' = [ka EXCEPT ![p] = k]
      /\ UNCHANGED <<tick, aged>>
  BY DEF MessageFromUser, HalfTicks, Msg
<1> HIDE DEF k, body
<1>4. ka'[p] = k
  BY <1>1, <1>2, <1>3, KaSets
<1>5. CloseIn(p)' = CloseIn(p)
  BY <1>2, <1>3, <1>4 DEF CloseIn, Waiting
<1>6. tick' \in [Side -> SUBSET {"sc", "ka"}] /\ tick'[Peer(p)] = tick[Peer(p)] /\ k.phase = "open"
  BY <1>1, <1>2, <1>3 DEF KaTypes, KaOpen
<1> QED BY <1>2, <1>3, <1>5, <1>6, ShowsTInv

\* What is hoped for comes before the end of the count.
LEMMA HopeInTime ==
  ASSUME SInv, TInv, NEW p \in Side, Both(p)
  PROVE  CloseIn(p) >= 1
<1> DEFINE s == Peer(p)
<1>1. s \in Side /\ Clock(p) /\ Clock(s) /\ CloseIn(p) \in Int
  BY ClockParts
<1>2. Waiting(s) \in {0, 1} /\ ka[s].send \in Nat /\ HalfTicks \in Nat
  BY <1>1, ClockParts
<1>3. KaOpen(s) => SendIn(s) >= 0 /\ SendIn(s) \in Int
  BY <1>1, <1>2 DEF Clock, SendIn
<1>4. Hope(p)
  BY <1>1 DEF Clock
<1> QED BY <1>1, <1>2, <1>3, <1>4 DEF Hope

LEMMA KaTickTInv ==
  ASSUME SInv, TInv, KeepaliveTicks >= 5, NEW p \in Side, KaTick(p)
  PROVE  TInv'
<1> DEFINE s == Peer(p)
           close == IF ka[p].close = 0 THEN 0 ELSE ka[p].close - 1
           send == IF ka[p].send = 0 THEN 0 ELSE ka[p].send - 1
<1>1. /\ s \in Side /\ s # p /\ p = Peer(s) /\ KaTypes /\ Clock(p) /\ ka[p] \in KaStates
      /\ ka[p].close \in Nat /\ ka[p].send \in Nat /\ HalfTicks \in Nat /\ SendIn(p) \in Int
  BY ClockParts
<1>2. KaOpen(p) /\ "ka" \in tick[p] /\ tick' = [tick EXCEPT ![p] = @ \ {"ka"}] /\ UNCHANGED aged
  BY DEF KaTick
<1>3. /\ tick' \in [Side -> SUBSET {"sc", "ka"}] /\ tick'[s] = tick[s] /\ "ka" \notin tick'[p]
      /\ tick'[p] \subseteq tick[p]
  BY <1>1, <1>2 DEF KaTypes
<1>4. CloseIn(p) = ka[p].close - 1 /\ SendIn(p) = ka[p].send - 1 /\ ka[p].send >= 1 /\ ka[p].send <= HalfTicks
  BY <1>1, <1>2 DEF CloseIn, SendIn, Waiting, Clock
<1>5. CASE close = 0 /\ KaClose(p, "timeout") /\ UNCHANGED scVars
  <2>1. Gone(s) \/ ka[s].phase = "closed"
    <3> SUFFICES ASSUME ~Gone(s), ka[s].phase # "closed" PROVE FALSE
      OBVIOUS
    <3>1. Both(p)
      BY <1>1, <1>2 DEF Both, Clock
    <3>2. CloseIn(p) >= 1
      BY <3>1, HopeInTime
    <3> QED BY <1>1, <1>4, <1>5, <3>2
  <2> QED BY <1>2, <1>5, <2>1, LoopEndsTInv
<1>6. CASE /\ close > 0 /\ send > 0
           /\ ka' = [ka EXCEPT ![p] = [@ EXCEPT !.close = close, !.send = send]]
           /\ UNCHANGED scVars
  <2> DEFINE k == [ka[p] EXCEPT !.close = close, !.send = send]
  <2>1. close \in Nat /\ send \in Nat /\ close = ka[p].close - 1 /\ send = ka[p].send - 1
    BY <1>1, <1>6
  <2> HIDE DEF close, send
  <2>2. k \in KaStates /\ k.phase = ka[p].phase /\ k.why = ka[p].why /\ k.close = close /\ k.send = send
    BY <1>1, <2>1 DEF KaStates
  <2>3. ka' = [ka EXCEPT ![p] = k] /\ UNCHANGED <<sc, wire, aged>>
    BY <1>2, <1>6 DEF scVars
  <2> HIDE DEF k
  <2>4. ka' \in [Side -> KaStates] /\ ka'[p] = k /\ ka'[s] = ka[s]
    BY <1>1, <2>2, <2>3, KaSets
  <2>5. CloseIn(p)' = CloseIn(p) /\ SendIn(p)' = SendIn(p)
    BY <1>1, <1>3, <1>4, <2>1, <2>2, <2>4 DEF CloseIn, SendIn, Waiting
  <2>6. /\ KaTypes' /\ KaOpen(p)' /\ ka[p].phase = "open" /\ ka'[p].phase = "open" /\ ka'[p].why = ka[p].why
        /\ sc'[s] = sc[s] /\ aged'[s] = aged[s] /\ aged'[p] = aged[p] /\ wire'[p] = wire[p]
        /\ Grows(wire[s], wire'[s]) /\ Gone(p)' = Gone(p) /\ Open(p)' = Open(p) /\ Both(p)' = Both(p)
    BY <1>1, <1>2, <1>3, <2>2, <2>3, <2>4 DEF KaTypes, KaOpen, Grows, Gone, Open, Both
  <2>7. SendIn(p)' <= SendIn(p) /\ ka'[p].send >= 1 /\ ka'[p].send <= HalfTicks
    BY <1>1, <1>4, <1>6, <2>1, <2>2, <2>4, <2>5
  <2>8. /\ KaOpen(p)' => Open(p)' \/ Gone(s)
        /\ ~Open(p)' /\ ~Gone(p)' => ka'[p].phase = "new"
    BY <1>1, <1>2, <2>6 DEF Clock
  <2> HIDE DEF s
  <2>9. Clock(s)'
    BY <1>1, <1>2, <1>3, <2>4, <2>6, <2>7, PeerClock
  <2>10. Clock(p)'
    BY <1>1, <1>3, <2>4, <2>5, <2>6, <2>7, <2>8, OwnClock DEF s
  <2> QED BY <2>6, <2>9, <2>10, BothClocks DEF s
<1>7. CASE /\ close > 0 /\ send = 0 /\ User(p, KeepAlive)
           /\ ka' = [ka EXCEPT ![p] = [@ EXCEPT !.close = close, !.send = HalfTicks]]
  <2> DEFINE k == [ka[p] EXCEPT !.close = close, !.send = HalfTicks]
  <2>1. close \in Nat /\ close = ka[p].close - 1 /\ KeepAlive.t # "rekey"
    BY <1>1, <1>7 DEF KeepAlive
  <2> HIDE DEF close
  <2>2. k \in KaStates /\ k.phase = ka[p].phase /\ k.why = ka[p].why /\ k.close = close /\ k.send = HalfTicks
    BY <1>1, <2>1 DEF KaStates
  <2>3. ka' = [ka EXCEPT ![p] = k] /\ k.phase = "open"
    BY <1>2, <1>7, <2>2 DEF KaOpen
  <2> HIDE DEF k
  <2>4. ka'[p] = k
    BY <1>1, <2>2, <2>3, KaSets
  <2>5. CloseIn(p)' = CloseIn(p)
    BY <1>1, <1>3, <1>4, <2>1, <2>2, <2>4 DEF CloseIn, Waiting
  <2> QED BY <1>2, <1>3, <1>7, <2>1, <2>2, <2>3, <2>5, ShowsTInv
<1>8. CASE KaClose(p, "ended") /\ UNCHANGED scVars
  BY <1>2, <1>8, LoopEndsTInv
<1> QED BY <1>5, <1>6, <1>7, <1>8 DEF KaTick, HalfTicks

LEMMA KaClosesTInv ==
  ASSUME SInv, TInv, KeepaliveTicks >= 5, NEW p \in Side, KaCloses(p)
  PROVE  TInv'
<1>1. KaOpen(p) /\ UNCHANGED scVars /\ UNCHANGED tick /\ UNCHANGED aged
  BY DEF KaCloses
<1>2. KaClose(p, "ended") \/ KaClose(p, "user")
  BY DEF KaCloses
<1> QED BY <1>1, <1>2, LoopEndsTInv

\* A tick of both timers.
LEMMA TickTInv ==
  ASSUME SInv, TInv, KeepaliveTicks >= 5, Tick
  PROVE  TInv'
<1>1. /\ Timely /\ tick' = [q \in Side |-> Clients(q)] /\ aged' = [q \in Side |-> Len(wire[q])]
      /\ UNCHANGED <<sc, wire, ka>>
  BY DEF Tick, scVars
<1>2. \A q \in Side : Len(wire[q]) \in Nat
  BY SInvParts DEF IsQueue
<1>3. KaTypes'
  <2>1. \A q \in Side : Clients(q) \in SUBSET {"sc", "ka"}
    BY DEF Clients
  <2> QED BY <1>1, <1>2, <2>1 DEF TInv, KaTypes
<1>4. ASSUME NEW q \in Side PROVE /\ "ka" \in tick'[q] => KaOpen(q)
                                  /\ KaOpen(q) /\ Up(q) => "ka" \in tick'[q] /\ "ka" \notin tick[q]
  <2>1. "ka" \in Clients(q) <=> KaOpen(q) /\ Up(q)
    BY DEF Clients
  <2> QED BY <1>1, <2>1 DEF Timely
<1>5. ASSUME NEW s \in Side PROVE Clock(s)'
  <2> DEFINE p == Peer(s)
  <2>1. /\ p \in Side /\ s # p /\ Peer(p) = s /\ Clock(s) /\ Clock(p)
        /\ CloseIn(s) \in Int /\ SendIn(p) \in Int /\ HalfTicks \in Nat
        /\ ka[s].close \in Nat /\ ka[p].send \in Nat
    BY ClockParts
  <2>2. /\ KaOpen(s)' = KaOpen(s) /\ Open(s)' = Open(s) /\ Gone(s)' = Gone(s) /\ Both(s)' = Both(s)
        /\ KaOpen(p)' = KaOpen(p) /\ Open(p)' = Open(p) /\ Gone(p)' = Gone(p)
    BY <1>1 DEF KaOpen, Open, Gone, Both
  <2>3. ASSUME Both(s) PROVE Hope(s)'
    <3>1. KaOpen(s) /\ Open(s) /\ ~Gone(p) /\ ka[p].phase # "closed" /\ Up(s) /\ Up(p)
      BY <2>3 DEF Both, Open, Gone, Up
    <3>2. CloseIn(s)' = CloseIn(s) - 1
      <4>1. Waiting(s) = 0 /\ Waiting(s)' = 1 /\ ka'[s] = ka[s]
        BY <1>1, <1>4, <3>1 DEF Waiting
      <4> QED BY <2>1, <4>1 DEF CloseIn
    <3>3. aged[s] = 0 /\ (aged[p] = 0 \/ sc[p].phase = "closed") /\ ~(Open(p) /\ ka[p].phase = "new")
      BY <1>1, <2>1, <3>1 DEF Timely, Open
    <3>4. aged'[s] = Len(wire[s]) /\ aged'[p] = Len(wire[p]) /\ wire' = wire
      BY <1>1, <2>1
    <3>5. Hope(s)
      BY <2>1, <2>3 DEF Clock
    <3>6. CASE \E i \in 1..Len(wire[s]) : Shows(wire[s][i]) /\ CloseIn(s) >= 2
      <4>1. PICK i \in 1..Len(wire[s]) : Shows(wire[s][i]) /\ CloseIn(s) >= 2
        BY <3>6
      <4>2. i <= aged'[s] /\ CloseIn(s)' >= 1 /\ i \in 1..Len(wire'[s]) /\ Shows(wire'[s][i])
        BY <1>2, <2>1, <3>2, <3>4, <4>1
      <4> QED BY <4>2 DEF Hope, Shows
    <3>7. CASE KaOpen(p) /\ CloseIn(s) >= SendIn(p) + 2
      <4>1. Waiting(p) = 0 /\ Waiting(p)' = 1 /\ ka'[p] = ka[p]
        BY <1>1, <1>4, <2>1, <3>1, <3>7 DEF Waiting
      <4>2. SendIn(p)' = SendIn(p) - 1
        BY <2>1, <4>1 DEF SendIn
      <4>3. CloseIn(s)' >= SendIn(p)' + 2
        BY <2>1, <3>2, <3>7, <4>2
      <4> QED BY <2>2, <3>7, <4>3 DEF Hope
    <3>8. CASE ~Open(p) /\ CloseIn(s) >= HalfTicks + (IF aged[p] > 0 THEN 2 ELSE 3)
      <4>1. sc[p].phase = "dh"
        BY <2>1, <3>1, <3>8, SInvParts DEF Met, Open, Gone, Phases
      <4>2. wire[p] # <<>> /\ IsQueue(wire[p])
        BY <2>1, <3>1, <4>1, SInvParts DEF Met, Open, Lost
      <4>3. aged'[p] > 0
        BY <3>4, <4>2 DEF IsQueue
      <4>4. aged[p] = 0
        BY <3>1, <3>3 DEF Gone
      <4>5. CloseIn(s)' >= HalfTicks + 2
        BY <2>1, <3>2, <3>8, <4>4
      <4> QED BY <2>2, <3>8, <4>3, <4>5 DEF Hope, HalfTicks
    <3>9. ~\E i \in 1..Len(wire[s]) : i <= aged[s] /\ Shows(wire[s][i]) /\ CloseIn(s) >= 1
      BY <1>2, <3>3
    <3> QED BY <3>3, <3>5, <3>6, <3>7, <3>8, <3>9 DEF Hope
  <2>4. ka'[s] = ka[s] /\ ka'[p] = ka[p] /\ (ka[s].phase = "new" => "ka" \notin tick'[s])
    BY <1>1, <1>4 DEF KaOpen
  <2> QED BY <2>1, <2>2, <2>3, <2>4 DEF Clock, HalfTicks
<1> QED BY <1>3, <1>5 DEF TInv

LEMMA InitTInv == TInit => TInv
<1> SUFFICES ASSUME TInit PROVE TInv
  OBVIOUS
<1>1. /\ ka = [s \in Side |-> KaNew] /\ tick = [s \in Side |-> {}] /\ aged = [s \in Side |-> 0]
  BY DEF TInit
<1>2. KaNew \in KaStates /\ KaNew.phase = "new" /\ KaNew.why = None
  BY DEF KaNew, KaStates
<1>3. KaTypes
  BY <1>1, <1>2 DEF KaTypes
<1>4. ASSUME NEW s \in Side PROVE Clock(s)
  BY <1>1, <1>2 DEF Clock, KaOpen, Both, None
<1> QED BY <1>3, <1>4 DEF TInv

LEMMA NextTInv ==
  ASSUME KeepaliveTicks >= 5, SInv, TInv, [Next]_vars
  PROVE  TInv'
<1>1. ASSUME NEW p \in Side,
             \/ Exchange(p) \/ Receive(p) \/ RekeyTick(p) \/ ChannelCloses(p)
             \/ KaStart(p) \/ MessageFromRemote(p) \/ MessageFromUser(p)
             \/ KaTick(p) \/ KaCloses(p) \/ Crash(p)
      PROVE  TInv'
  BY <1>1, ExchangeTInv, ReceiveTInv, RekeyTickTInv, ChannelClosesTInv, KaStartTInv,
     MessageFromRemoteTInv, MessageFromUserTInv, KaTickTInv, KaClosesTInv, CrashTInv
<1>2. CASE Tick
  BY <1>2, TickTInv
<1>3. CASE UNCHANGED vars
  BY <1>3 DEF vars, scVars, TInv, KaTypes, Clock, KaOpen, Open, Gone, Both, Hope, CloseIn, SendIn,
     Waiting, Shows, HalfTicks
<1> QED BY <1>1, <1>2, <1>3 DEF Next

\* An end closes only for a reason: no message is ever undecipherable, and with at least
\* five ticks to the end (the code has 32) no end whose peer lives and is in time
\* gives it up (keepalive.rs).
THEOREM EveryCloseHasAReason ==
  ASSUME KeepaliveTicks >= 5
  PROVE  Spec => []ClosesForAReason
<1>1. TInit => SInv /\ TInv
  BY InitSInv, InitTInv
<1>2. SInv /\ TInv /\ [Next]_vars => SInv' /\ TInv'
  BY NextSInv, NextTInv
<1>3. SInv /\ TInv => ClosesForAReason
  BY SInvParts DEF ClosesForAReason, TInv, Clock, End
<1> QED BY <1>1, <1>2, <1>3, PTL DEF Spec
=============================================================================
