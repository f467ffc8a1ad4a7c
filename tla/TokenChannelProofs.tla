------------------------- MODULE TokenChannelProofs -------------------------
(***************************************************************************)
(* Proofs about the token channel, for batches of any length and any       *)
(* number of drops, restarts, removals and resets.                         *)
(*                                                                         *)
(* The inductive invariant is stated for values: F for the friends, in for *)
(* the inboxes and n for the next fresh value.  A handler first changes    *)
(* its friend and takes its event, and then sends, so that its proof goes  *)
(* through a state that is never the value of the variables.               *)
(***************************************************************************)
EXTENDS TokenChannel, MutualCreditProofs

-----------------------------------------------------------------------------
(***************************************************************************)
(* Queues are only appended to and taken from, and an invariant speaks of  *)
(* all that is in them: a queue is any sequence of its own elements.       *)
(***************************************************************************)
IsQueue(s) == s \in Seq(ToSet(s))

\* A sequence over any set is a queue, and its elements are of that set.
LEMMA QueueOfSeq ==
  ASSUME NEW S, NEW s \in Seq(S)
  PROVE  IsQueue(s) /\ ToSet(s) \subseteq S
BY DEF IsQueue, ToSet

\* The empty queue.
LEMMA EmptyQueue == IsQueue(<<>>) /\ ToSet(<<>>) = {}
BY DEF IsQueue, ToSet

\* A queue after an element has been appended.
LEMMA AppendQueue ==
  ASSUME NEW s, NEW x, IsQueue(s)
  PROVE  IsQueue(Append(s, x)) /\ ToSet(Append(s, x)) = ToSet(s) \cup {x}
<1> DEFINE T == ToSet(s) \cup {x}
<1>1. s \in Seq(T) /\ x \in T
  BY DEF IsQueue
<1>2. Append(s, x) \in Seq(T)
  BY <1>1
<1>3. ToSet(Append(s, x)) = T
  <2>1. \A i \in 1..Len(s) : i \in 1..Len(Append(s, x)) /\ Append(s, x)[i] = s[i]
    BY <1>1
  <2>2. Len(s) + 1 \in 1..Len(Append(s, x)) /\ Append(s, x)[Len(s) + 1] = x
    BY <1>1
  <2>3. T \subseteq ToSet(Append(s, x))
    BY <1>1, <1>2, <2>1, <2>2 DEF ToSet
  <2> QED
    BY <1>2, <2>3, QueueOfSeq
<1> QED
  BY <1>2, <1>3 DEF IsQueue

\* A queue that is not empty: its first element, and the rest.
LEMMA TailQueue ==
  ASSUME NEW s, IsQueue(s), s # <<>>
  PROVE  /\ IsQueue(Tail(s)) /\ ToSet(Tail(s)) \subseteq ToSet(s)
         /\ Head(s) \in ToSet(s) /\ ToSet(s) = {Head(s)} \cup ToSet(Tail(s))
<1> DEFINE T == ToSet(s)
<1>1. s \in Seq(T) /\ Len(s) \in Nat /\ Len(s) > 0 /\ DOMAIN s = 1..Len(s)
  BY DEF IsQueue
<1>2. Tail(s) \in Seq(T) /\ Len(Tail(s)) = Len(s) - 1
      /\ \A i \in 1..Len(Tail(s)) : Tail(s)[i] = s[i + 1]
  BY <1>1
<1>3. Head(s) = s[1] /\ 1 \in DOMAIN s
  BY <1>1
<1>4. ToSet(s) \subseteq {Head(s)} \cup ToSet(Tail(s))
  <2>1. \A i \in 1..Len(s) : i # 1 => i - 1 \in 1..Len(Tail(s)) /\ Tail(s)[i - 1] = s[i]
    BY <1>1, <1>2
  <2>2. DOMAIN Tail(s) = 1..Len(Tail(s))
    BY <1>2
  <2>3. \A i \in 1..Len(s) : s[i] = Head(s) \/ s[i] \in ToSet(Tail(s))
    BY <1>3, <2>1, <2>2 DEF ToSet
  <2> QED
    BY <1>1, <2>3 DEF ToSet
<1> QED
  BY <1>1, <1>2, <1>3, <1>4, QueueOfSeq DEF ToSet

-----------------------------------------------------------------------------
IsMove(e) == e.type = "move"

TermsType == [token : Nat, ic : Nat, balance : Int]

TokenType == [old : Nat, new : Nat, ic : Nat, ctr : Nat, ops : Seq(Op),
              relays : Nat \cup {NoRelays},
              balance : Int, localDebt : Int, remoteDebt : Int]

SentType == [status : {"never", "last", "transition"}, last : Nat, prev : Nat]

FriendType == [status       : {"none", "incoming", "outgoing", "inconsistent"},
               mc           : IntLedger,
               token        : TokenType,
               localTerms   : TermsType,
               remoteTerms  : TermsType,
               wants        : Nat,
               aside        : BOOLEAN,
               sent         : SentType,
               relays       : Nat,
               remoteRelays : Nat]

IsEvent(e) ==
  \/ e.type \in {"online", "offline"}
  \/ e.type = "move" /\ e.token \in TokenType
  \/ e.type = "inconsistency" /\ e.terms \in TermsType /\ e.terms # NoTerms

Types(F, in, n) ==
  /\ F \in [Side -> FriendType]
  /\ \A p \in Side : F[p].status = "inconsistent" => F[p].localTerms # NoTerms
  /\ DOMAIN in = Side /\ in = [p \in Side |-> in[p]]
  /\ \A p \in Side : IsQueue(in[p]) /\ \A e \in ToSet(in[p]) : IsEvent(e)
  /\ n \in Nat /\ n >= 2

-----------------------------------------------------------------------------
(***************************************************************************)
(* Resets.  Tokens and terms are named by the fresh values in them.        *)
(***************************************************************************)
Tokens(F, in) ==
  {F[p].token : p \in Side}
    \cup UNION {{e.token : e \in {x \in ToSet(in[p]) : IsMove(x)}} : p \in Side}

Terms(F, in) ==
  ((UNION {{F[p].localTerms, F[p].remoteTerms} : p \in Side})
    \cup (UNION {{e.terms : e \in {x \in ToSet(in[p]) : x.type = "inconsistency"}}
                  : p \in Side}))
   \ {NoTerms}

\* The friend has accepted the terms and not sent anything since.
HasReset(f, terms) ==
  /\ f.token.ops = <<>> /\ f.token.relays = NoRelays
  /\ f.token.ic = terms.ic /\ f.token.ctr = 0
  /\ f.token.balance = -terms.balance
  /\ f.token.localDebt = 0 /\ f.token.remoteDebt = 0
  /\ f.mc = NewLedger(-terms.balance)

Resets(F, in, n) ==
  /\ \A t \in Tokens(F, in) : t.old < t.new /\ t.new < n
  /\ \A terms \in Terms(F, in) :
       /\ 2 <= terms.token /\ terms.token < n
       /\ \A t \in Tokens(F, in) : t.new # terms.token
       /\ \A other \in Terms(F, in) : other.token = terms.token => other = terms
       /\ \A p \in Side : F[p].status = "outgoing" /\ F[p].token.old = terms.token
                            => HasReset(F[p], terms)

-----------------------------------------------------------------------------
(***************************************************************************)
(* One token, as long as the friends are together.                         *)
(***************************************************************************)
\* Once t is in the queue nothing else comes after it.
InOrder(s, t) ==
  \A i, j \in 1..Len(s) :
    i < j /\ IsMove(s[i]) /\ IsMove(s[j]) /\ s[i].token = t => s[j].token = t

\* The peer g holds the token that f gave away.
Held(f, g, fIn, gIn) ==
  /\ g.status = "incoming" /\ g.token = f.token /\ g.mc = Mirror(f.mc)
  /\ \A e \in ToSet(gIn) : IsMove(e) => e.token = f.token
  /\ \A e \in ToSet(fIn) : IsMove(e) => e.token.new = f.token.old
  /\ f.sent.status # "never" => g.remoteRelays = f.sent.last
  /\ g.sent.status # "never" => g.sent.status = "last" /\ f.remoteRelays = g.sent.last

\* The token that f gave away has not reached g, which will accept it.
UnderWay(f, g, fIn, gIn) ==
  /\ g.status = "outgoing" /\ IsNext(g, f.token) /\ IsAcceptable(g, f.token)
  /\ ProcessAll(f.token.ops, g.mc) = Mirror(f.mc)
  /\ \A e \in ToSet(fIn) : IsMove(e) => e.token = g.token
  /\ \A e \in ToSet(gIn) : IsMove(e) => e.token = f.token \/ e.token.new = g.token.old
  /\ InOrder(gIn, f.token)
  /\ g.sent.status # "never" => f.remoteRelays = g.sent.last
  /\ f.sent.status # "never" =>
       IF f.token.relays = NoRelays
         THEN f.sent.status = "last" /\ g.remoteRelays = f.sent.last
         ELSE /\ f.token.relays = f.sent.last
              /\ f.sent.status = "transition" => g.remoteRelays = f.sent.prev

Given(p, F, in) ==
  LET f == F[p]
      g == F[Peer(p)]
      q == Peer(p)
  IN  /\ f.status = "outgoing" /\ Sound(f.mc)
      /\ \A e \in ToSet(in[p]) \cup ToSet(in[q]) : e.type # "inconsistency"
      /\ \/ Held(f, g, in[p], in[q])
         \/ UnderWay(f, g, in[p], in[q])

Inv(F, in, n, calm) ==
  /\ Types(F, in, n)
  /\ Resets(F, in, n)
  /\ calm => \E p \in Side : Given(p, F, in)

\* The inductive invariant.
IInv == Inv(friend, inbox, fresh, Together)

-----------------------------------------------------------------------------
(***************************************************************************)
(* Queues.  A queue that is Less than another holds no other messages, and *)
(* holds them in the same order.                                           *)
(***************************************************************************)
Less(s, old) ==
  /\ IsQueue(s)
  /\ \A e \in ToSet(s) : e \in ToSet(old) \/ e.type \in {"online", "offline"}
  /\ \A t : InOrder(old, t) => InOrder(s, t)

\* The two sides.
LEMMA Sides ==
  ASSUME NEW p \in Side
  PROVE  /\ Peer(p) \in Side /\ Peer(p) # p /\ Peer(Peer(p)) = p
         /\ \A q \in Side : q = p \/ q = Peer(p)
BY DEF Side, Peer

\* The elements of a queue by their places.
LEMMA QueuePlaces ==
  ASSUME NEW s, IsQueue(s)
  PROVE  /\ Len(s) \in Nat /\ s \in Seq(ToSet(s))
         /\ \A i \in 1..Len(s) : s[i] \in ToSet(s)
         /\ \A e \in ToSet(s) : \E i \in 1..Len(s) : s[i] = e
BY DEF IsQueue, ToSet

\* A queue is less than itself, and nothing is less than the empty one.
LEMMA LessSame == ASSUME NEW s, IsQueue(s) PROVE Less(s, s) /\ Less(<<>>, s)
<1>1. Less(s, s)
  BY DEF Less
<1>2. Len(<<>>) = 0
  OBVIOUS
<1>3. \A t : InOrder(<<>>, t)
  BY <1>2 DEF InOrder
<1> QED BY <1>1, <1>3, EmptyQueue DEF Less

\* What is left when the first event was taken; what comes after a token.
LEMMA LessTail ==
  ASSUME NEW s, IsQueue(s), s # <<>>
  PROVE  /\ Less(Tail(s), s) /\ Head(s) \in ToSet(s)
         /\ \A t : InOrder(s, t) /\ IsMove(Head(s)) /\ Head(s).token = t
                  => \A e \in ToSet(Tail(s)) : IsMove(e) => e.token = t
<1>1. s \in Seq(ToSet(s)) /\ Len(s) \in Nat /\ Len(s) > 0
  BY DEF IsQueue
<1>2. /\ Len(Tail(s)) = Len(s) - 1 /\ Head(s) = s[1]
      /\ \A i \in 1..Len(Tail(s)) : i + 1 \in 1..Len(s) /\ Tail(s)[i] = s[i + 1]
  BY <1>1
<1>3. IsQueue(Tail(s)) /\ ToSet(Tail(s)) \subseteq ToSet(s) /\ Head(s) \in ToSet(s)
  BY TailQueue
<1>4. ASSUME NEW t, InOrder(s, t) PROVE InOrder(Tail(s), t)
  <2> SUFFICES ASSUME NEW i \in 1..Len(Tail(s)), NEW j \in 1..Len(Tail(s)), i < j,
                      IsMove(Tail(s)[i]), IsMove(Tail(s)[j]), Tail(s)[i].token = t
               PROVE  Tail(s)[j].token = t
    BY DEF InOrder
  <2>1. i + 1 \in 1..Len(s) /\ j + 1 \in 1..Len(s) /\ i + 1 < j + 1
    BY <1>1, <1>2
  <2> QED BY <1>2, <1>4, <2>1 DEF InOrder
<1>5. ASSUME NEW t, InOrder(s, t), IsMove(Head(s)), Head(s).token = t,
             NEW e \in ToSet(Tail(s)), IsMove(e)
      PROVE  e.token = t
  <2>1. PICK i \in 1..Len(Tail(s)) : Tail(s)[i] = e
    BY <1>3, QueuePlaces
  <2>2. i + 1 \in 1..Len(s) /\ s[i + 1] = e /\ 1 < i + 1 /\ 1 \in 1..Len(s)
    BY <1>1, <1>2, <2>1
  <2> QED BY <1>2, <1>5, <2>2 DEF InOrder
<1> QED BY <1>3, <1>4, <1>5 DEF Less

\* What is left when the last messages are lost.
LEMMA LessPrefix ==
  ASSUME NEW s, IsQueue(s), NEW k \in 0..Len(s)
  PROVE  Less(SubSeq(s, 1, k), s)
<1> DEFINE u == SubSeq(s, 1, k)
<1>1. s \in Seq(ToSet(s)) /\ Len(s) \in Nat
  BY DEF IsQueue
<1>2. /\ u \in Seq(ToSet(s)) /\ Len(u) = k
      /\ \A i \in 1..k : i \in 1..Len(s) /\ u[i] = s[i]
  BY <1>1
<1> HIDE DEF u
<1>3. IsQueue(u) /\ ToSet(u) \subseteq ToSet(s)
  BY <1>2, QueueOfSeq
<1>4. ASSUME NEW t, InOrder(s, t) PROVE InOrder(u, t)
  BY <1>2, <1>4 DEF InOrder
<1>5. Less(u, s)
  BY <1>3, <1>4 DEF Less
<1> QED BY <1>5 DEF u

\* An element in the last place.
LEMMA AppendOrder ==
  ASSUME NEW s, IsQueue(s), NEW x, NEW t, InOrder(s, t),
         IsMove(x) => \/ x.token = t
                      \/ \A e \in ToSet(s) : IsMove(e) => e.token # t
  PROVE  InOrder(Append(s, x), t)
<1>1. s \in Seq(ToSet(s)) /\ Len(s) \in Nat
  BY DEF IsQueue
<1> DEFINE u == Append(s, x)
<1>2. /\ Len(u) = Len(s) + 1 /\ u[Len(s) + 1] = x
      /\ \A i \in 1..Len(s) : u[i] = s[i]
  BY <1>1
<1> HIDE DEF u
<1>3. \A i \in 1..Len(s) : s[i] \in ToSet(s)
  BY QueuePlaces
<1> SUFFICES ASSUME NEW i \in 1..Len(u), NEW j \in 1..Len(u), i < j,
                    IsMove(u[i]), IsMove(u[j]), u[i].token = t
             PROVE  u[j].token = t
  BY DEF InOrder, u
<1>4. i \in 1..Len(s) /\ u[i] = s[i]
  BY <1>1, <1>2
<1>5. CASE j \in 1..Len(s)
  BY <1>2, <1>4, <1>5 DEF InOrder
<1>6. CASE j = Len(s) + 1
  BY <1>2, <1>3, <1>4, <1>6
<1> QED BY <1>1, <1>2, <1>5, <1>6

\* An event that tells of the connection.
LEMMA LessLive ==
  ASSUME NEW s, NEW old, Less(s, old), NEW x \in {"online", "offline"}
  PROVE  Less(Append(s, LivenessEvent(x)), old)
<1> DEFINE e == LivenessEvent(x)
<1>1. e.type \in {"online", "offline"} /\ ~IsMove(e)
  BY DEF LivenessEvent, IsMove
<1> HIDE DEF e
<1>2. IsQueue(Append(s, e)) /\ ToSet(Append(s, e)) = ToSet(s) \cup {e}
  BY AppendQueue DEF Less
<1>3. ASSUME NEW t, InOrder(old, t) PROVE InOrder(Append(s, e), t)
  BY <1>1, <1>3, AppendOrder DEF Less
<1>4. Less(Append(s, e), old)
  BY <1>1, <1>2, <1>3 DEF Less
<1> QED BY <1>4 DEF e

-----------------------------------------------------------------------------
(***************************************************************************)
(* Tokens and terms.                                                       *)
(***************************************************************************)
\* Where a token is.
LEMMA TokensMember ==
  ASSUME NEW F, NEW in, NEW t
  PROVE  t \in Tokens(F, in) <=>
           \/ \E p \in Side : t = F[p].token
           \/ \E p \in Side : \E e \in ToSet(in[p]) : IsMove(e) /\ t = e.token
BY DEF Tokens

\* Where terms are.
LEMMA TermsMember ==
  ASSUME NEW F, NEW in, NEW t
  PROVE  t \in Terms(F, in) <=>
           /\ t # NoTerms
           /\ \/ \E p \in Side : t = F[p].localTerms \/ t = F[p].remoteTerms
              \/ \E p \in Side : \E e \in ToSet(in[p]) :
                    e.type = "inconsistency" /\ t = e.terms
<1> DEFINE A == UNION {{F[p].localTerms, F[p].remoteTerms} : p \in Side}
           M(p) == {e.terms : e \in {x \in ToSet(in[p]) : x.type = "inconsistency"}}
           B == UNION {M(p) : p \in Side}
<1>1. t \in A <=> \E p \in Side : t = F[p].localTerms \/ t = F[p].remoteTerms
  OBVIOUS
<1>2. \A p : t \in M(p) <=> \E e \in ToSet(in[p]) : e.type = "inconsistency" /\ t = e.terms
  OBVIOUS
<1>3. t \in B <=> \E p \in Side : t \in M(p)
  OBVIOUS
<1>4. t \in Terms(F, in) <=> t # NoTerms /\ (t \in A \/ t \in B)
  BY DEF Terms
<1> HIDE DEF A, B, M
<1> QED BY <1>1, <1>2, <1>3, <1>4

\* No message is in in2 that is not in in; the friends have these tokens, and these
\* terms.
NoMessageAdded(in, in2) == \A p \in Side : ToSet(in2[p]) \subseteq ToSet(in[p])

FriendTokens(G, S) == \A p \in Side : G[p].token \in S

FriendTerms(G, T) ==
  \A p \in Side : /\ G[p].localTerms # NoTerms => G[p].localTerms \in T
                  /\ G[p].remoteTerms # NoTerms => G[p].remoteTerms \in T

\* No messages are added: new tokens and terms are those of the friends.
LEMMA NoMessageTokens ==
  ASSUME NEW F, NEW in, NEW G, NEW in2, NoMessageAdded(in, in2),
         FriendTokens(G, Tokens(F, in)), FriendTerms(G, Terms(F, in))
  PROVE  Tokens(G, in2) \subseteq Tokens(F, in) /\ Terms(G, in2) \subseteq Terms(F, in)
<1> USE DEF NoMessageAdded, FriendTokens, FriendTerms
<1>1. \A p \in Side : \A e \in ToSet(in2[p]) : e \in ToSet(in[p])
  OBVIOUS
<1>2. \A t \in Tokens(G, in2) : t \in Tokens(F, in)
  BY <1>1, TokensMember
<1>3. ASSUME NEW t \in Terms(G, in2) PROVE t \in Terms(F, in)
  <2>1. t # NoTerms
    BY TermsMember
  <2>2. CASE \E p \in Side : t = G[p].localTerms \/ t = G[p].remoteTerms
    BY <2>1, <2>2
  <2>3. CASE \E p \in Side : \E e \in ToSet(in2[p]) : e.type = "inconsistency" /\ t = e.terms
    <3>1. \E p \in Side : \E e \in ToSet(in[p]) : e.type = "inconsistency" /\ t = e.terms
      BY <1>1, <2>3
    <3> QED BY <2>1, <3>1, TermsMember
  <2> QED BY <2>2, <2>3, TermsMember
<1> QED BY <1>2, <1>3

\* The tokens and terms of the friends and messages themselves.
LEMMA OwnTokens ==
  ASSUME NEW F, NEW in, NEW p \in Side
  PROVE  /\ F[p].token \in Tokens(F, in)
         /\ F[p].localTerms # NoTerms => F[p].localTerms \in Terms(F, in)
         /\ F[p].remoteTerms # NoTerms => F[p].remoteTerms \in Terms(F, in)
         /\ \A e \in ToSet(in[p]) : IsMove(e) => e.token \in Tokens(F, in)
         /\ \A e \in ToSet(in[p]) :
              e.type = "inconsistency" /\ e.terms # NoTerms => e.terms \in Terms(F, in)
<1>1. F[p].token \in Tokens(F, in)
  BY TokensMember
<1>2. \A e \in ToSet(in[p]) : IsMove(e) => e.token \in Tokens(F, in)
  BY TokensMember
<1>3. /\ F[p].localTerms # NoTerms => F[p].localTerms \in Terms(F, in)
      /\ F[p].remoteTerms # NoTerms => F[p].remoteTerms \in Terms(F, in)
  BY TermsMember
<1>4. \A e \in ToSet(in[p]) :
        e.type = "inconsistency" /\ e.terms # NoTerms => e.terms \in Terms(F, in)
  BY TermsMember
<1> QED BY <1>1, <1>2, <1>3, <1>4

\* A step that makes no terms, and no token but one with the next fresh value
\* or the one that friends begin with.
LEMMA ResetsToken ==
  ASSUME NEW F, NEW in, NEW n \in Nat, n >= 2, Resets(F, in, n),
         \A t \in Tokens(F, in) : t.old \in Nat /\ t.new \in Nat,
         \A t \in Terms(F, in) : t.token \in Nat,
         NEW F2, NEW in2, NEW n2 \in Nat, n <= n2,
         Terms(F2, in2) \subseteq Terms(F, in),
         \A t \in Tokens(F2, in2) :
           \/ t \in Tokens(F, in)
           \/ t.new = n /\ n < n2 /\ t.old \in Nat /\ t.old < n
           \/ t.old = 0 /\ t.new = 1,
         \A p \in Side : F2[p].status = "outgoing" =>
           \/ /\ F[p].status = "outgoing"
              /\ F2[p].token = F[p].token /\ F2[p].mc = F[p].mc
           \/ \A terms \in Terms(F2, in2) :
                F2[p].token.old = terms.token => HasReset(F2[p], terms)
  PROVE  Resets(F2, in2, n2)
<1>1. \A t \in Tokens(F2, in2) : t.old < t.new /\ t.new < n2
  BY DEF Resets
<1>2. ASSUME NEW terms \in Terms(F2, in2)
      PROVE  /\ 2 <= terms.token /\ terms.token < n2
             /\ \A t \in Tokens(F2, in2) : t.new # terms.token
             /\ \A other \in Terms(F2, in2) : other.token = terms.token => other = terms
             /\ \A p \in Side : F2[p].status = "outgoing" /\ F2[p].token.old = terms.token
                                  => HasReset(F2[p], terms)
  <2>1. terms \in Terms(F, in) /\ terms.token \in Nat
    OBVIOUS
  <2>2. 2 <= terms.token /\ terms.token < n /\ terms.token < n2
    BY <2>1 DEF Resets
  <2>3. \A t \in Tokens(F2, in2) : t.new # terms.token
    BY <2>1, <2>2 DEF Resets
  <2>4. \A other \in Terms(F2, in2) : other.token = terms.token => other = terms
    BY <2>1 DEF Resets
  <2>5. ASSUME NEW p \in Side, F2[p].status = "outgoing", F2[p].token.old = terms.token
        PROVE  HasReset(F2[p], terms)
    BY <2>1, <2>5 DEF Resets, HasReset
  <2> QED BY <2>2, <2>3, <2>4, <2>5
<1> QED BY <1>1, <1>2 DEF Resets

\* A step that makes terms with the next fresh value, and no token.
LEMMA ResetsTerms ==
  ASSUME NEW F, NEW in, NEW n \in Nat, n >= 2, Resets(F, in, n),
         \A t \in Tokens(F, in) : t.old \in Nat /\ t.new \in Nat,
         \A t \in Terms(F, in) : t.token \in Nat,
         NEW F2, NEW in2, NEW new, new.token = n,
         \A terms \in Terms(F2, in2) : terms \in Terms(F, in) \/ terms = new,
         Tokens(F2, in2) \subseteq Tokens(F, in),
         \A p \in Side : F2[p].token \in Tokens(F, in),
         \A p \in Side : F2[p].status = "outgoing" =>
           /\ F[p].status = "outgoing"
           /\ F2[p].token = F[p].token /\ F2[p].mc = F[p].mc
  PROVE  Resets(F2, in2, n + 1)
<1>1. \A t \in Tokens(F2, in2) : t.old < t.new /\ t.new < n /\ t.new < n + 1
  BY DEF Resets
<1>2. ASSUME NEW terms \in Terms(F2, in2)
      PROVE  /\ 2 <= terms.token /\ terms.token < n + 1
             /\ \A t \in Tokens(F2, in2) : t.new # terms.token
             /\ \A other \in Terms(F2, in2) : other.token = terms.token => other = terms
             /\ \A p \in Side : F2[p].status = "outgoing" /\ F2[p].token.old = terms.token
                                  => HasReset(F2[p], terms)
  <2>0. \A other \in Terms(F, in) : other.token \in Nat /\ 2 <= other.token /\ other.token < n
    BY DEF Resets
  <2>1. CASE terms \in Terms(F, in)
    <3>1. 2 <= terms.token /\ terms.token < n /\ terms.token < n + 1
      BY <2>0, <2>1
    <3>2. \A t \in Tokens(F2, in2) : t.new # terms.token
      BY <2>1 DEF Resets
    <3>3. \A other \in Terms(F2, in2) : other.token = terms.token => other = terms
      BY <2>1, <3>1 DEF Resets
    <3>4. ASSUME NEW p \in Side, F2[p].status = "outgoing", F2[p].token.old = terms.token
          PROVE  HasReset(F2[p], terms)
      BY <2>1, <3>4 DEF Resets, HasReset
    <3> QED BY <3>1, <3>2, <3>3, <3>4
  <2>2. CASE terms = new
    <3>1. 2 <= terms.token /\ terms.token < n + 1
      BY <2>2
    <3>2. \A t \in Tokens(F2, in2) : t.new # terms.token
      BY <1>1, <2>2
    <3>3. \A other \in Terms(F2, in2) : other.token = terms.token => other = terms
      BY <2>0, <2>2
    <3>4. \A p \in Side : F2[p].token.old # terms.token
      <4> SUFFICES ASSUME NEW p \in Side PROVE F2[p].token.old # n
        BY <2>2
      <4>1. F2[p].token \in Tokens(F, in)
        OBVIOUS
      <4>2. F2[p].token.old < F2[p].token.new /\ F2[p].token.new < n
        BY <4>1 DEF Resets
      <4> QED BY <4>1, <4>2
    <3> QED BY <3>1, <3>2, <3>3, <3>4
  <2> QED BY <2>1, <2>2
<1> QED BY <1>1, <1>2 DEF Resets

\* Tokens and terms are well typed.
LEMMA TypedTokens ==
  ASSUME NEW F, NEW in, NEW n, Types(F, in, n)
  PROVE  /\ \A t \in Tokens(F, in) : t \in TokenType /\ t.old \in Nat /\ t.new \in Nat
         /\ \A t \in Terms(F, in) : t \in TermsType /\ t.token \in Nat
         /\ n \in Nat /\ n >= 2
         /\ \A p \in Side : F[p] \in FriendType /\ F[p].token \in Tokens(F, in)
<1>1. \A p \in Side : F[p] \in FriendType /\ F[p].token \in TokenType
                      /\ F[p].localTerms \in TermsType /\ F[p].remoteTerms \in TermsType
  BY DEF Types, FriendType
<1>2. \A p \in Side : \A e \in ToSet(in[p]) :
        /\ IsMove(e) => e.token \in TokenType
        /\ e.type = "inconsistency" => e.terms \in TermsType
  BY DEF Types, IsEvent, IsMove
<1>3. \A t \in Tokens(F, in) : t \in TokenType
  BY <1>1, <1>2, TokensMember
<1>4. \A t \in Terms(F, in) : t \in TermsType
  BY <1>1, <1>2, TermsMember
<1>5. /\ \A t \in TokenType : t.old \in Nat /\ t.new \in Nat
      /\ \A t \in TermsType : t.token \in Nat
  BY DEF TokenType, TermsType
<1>6. \A p \in Side : F[p].token \in Tokens(F, in)
  BY TokensMember
<1> QED BY <1>1, <1>3, <1>4, <1>5, <1>6 DEF Types

-----------------------------------------------------------------------------
(***************************************************************************)
(* Changes that every handler makes.                                       *)
(***************************************************************************)
\* Messages are lost, and events of the connection come.
LEMMA LessKeeps ==
  ASSUME NEW F, NEW in, NEW n, NEW calm, Inv(F, in, n, calm),
         NEW in2, DOMAIN in2 = Side, in2 = [p \in Side |-> in2[p]],
         \A p \in Side : Less(in2[p], in[p])
  PROVE  Inv(F, in2, n, calm)
<1>1. Types(F, in, n) /\ Resets(F, in, n)
  BY DEF Inv
<1>2. \A p \in Side : \A e \in ToSet(in2[p]) :
        e \in ToSet(in[p]) \/ e.type \in {"online", "offline"}
  BY DEF Less
<1>3. \A p \in Side : \A e \in ToSet(in2[p]) :
        /\ IsMove(e) => e \in ToSet(in[p])
        /\ e.type = "inconsistency" => e \in ToSet(in[p])
  BY <1>2 DEF IsMove
<1>4. Types(F, in2, n)
  BY <1>1, <1>2 DEF Types, Less, IsEvent
<1>5. Tokens(F, in2) \subseteq Tokens(F, in)
  BY <1>3, TokensMember
<1>6. Terms(F, in2) \subseteq Terms(F, in)
  BY <1>3, TermsMember
<1>7. Resets(F, in2, n)
  BY <1>1, <1>5, <1>6, TypedTokens, ResetsToken
<1>8. ASSUME NEW p \in Side, Given(p, F, in) PROVE Given(p, F, in2)
  <2> DEFINE q == Peer(p)
             f == F[p]
             g == F[q]
  <2>1. q \in Side
    BY Sides
  <2>2. /\ f.status = "outgoing" /\ Sound(f.mc)
        /\ \A e \in ToSet(in[p]) \cup ToSet(in[q]) : e.type # "inconsistency"
        /\ Held(f, g, in[p], in[q]) \/ UnderWay(f, g, in[p], in[q])
    BY <1>8 DEF Given
  <2>3. /\ \A e \in ToSet(in2[p]) \cup ToSet(in2[q]) : e.type # "inconsistency"
        /\ \A e \in ToSet(in2[p]) : IsMove(e) => e \in ToSet(in[p])
        /\ \A e \in ToSet(in2[q]) : IsMove(e) => e \in ToSet(in[q])
        /\ InOrder(in[q], f.token) => InOrder(in2[q], f.token)
    BY <1>3, <2>1, <2>2 DEF Less
  <2> HIDE DEF f, g, q
  <2>4. CASE Held(f, g, in[p], in[q])
    <3>1. Held(f, g, in2[p], in2[q])
      BY <2>3, <2>4 DEF Held
    <3> QED BY <2>2, <2>3, <3>1 DEF Given, f, g, q
  <2>5. CASE UnderWay(f, g, in[p], in[q])
    <3>1. UnderWay(f, g, in2[p], in2[q])
      BY <2>3, <2>5 DEF UnderWay
    <3> QED BY <2>2, <2>3, <3>1 DEF Given, f, g, q
  <2> QED BY <2>2, <2>4, <2>5
<1> QED BY <1>4, <1>7, <1>8 DEF Inv

\* What to send, and which relays the node has, may change.
LEMMA FriendKeeps ==
  ASSUME NEW F, NEW in, NEW n, NEW calm, Inv(F, in, n, calm), NEW p \in Side,
         NEW g \in FriendType,
         g.status = F[p].status, g.mc = F[p].mc, g.token = F[p].token,
         g.localTerms = F[p].localTerms, g.remoteTerms = F[p].remoteTerms,
         g.sent = F[p].sent, g.remoteRelays = F[p].remoteRelays
  PROVE  Inv([F EXCEPT ![p] = g], in, n, calm)
<1>1. Types(F, in, n) /\ Resets(F, in, n)
  BY DEF Inv
<1>2. PICK G : G = [F EXCEPT ![p] = g]
  OBVIOUS
<1>3. G \in [Side -> FriendType]
  BY <1>1, <1>2 DEF Types
<1>4. ASSUME NEW q \in Side
      PROVE  /\ G[q].status = F[q].status /\ G[q].mc = F[q].mc /\ G[q].token = F[q].token
             /\ G[q].localTerms = F[q].localTerms /\ G[q].remoteTerms = F[q].remoteTerms
             /\ G[q].sent = F[q].sent /\ G[q].remoteRelays = F[q].remoteRelays
  BY <1>1, <1>2 DEF Types
<1>5. Types(G, in, n)
  BY <1>1, <1>3, <1>4 DEF Types
<1>6. Tokens(G, in) \subseteq Tokens(F, in)
  BY <1>4, TokensMember
<1>7. Terms(G, in) \subseteq Terms(F, in)
  BY <1>4, TermsMember
<1>8. Resets(G, in, n)
  BY <1>1, <1>4, <1>6, <1>7, TypedTokens, ResetsToken
<1>9. ASSUME NEW q \in Side, Given(q, F, in) PROVE Given(q, G, in)
  <2>1. Peer(q) \in Side
    BY Sides
  <2> QED BY <1>4, <1>9, <2>1 DEF Given, Held, UnderWay, IsNext, IsAcceptable
<1> QED BY <1>2, <1>5, <1>8, <1>9 DEF Inv

\* A message says what its sender keeps: its last token, or its reset terms.
IsOwnMessage(f, m) ==
  \/ /\ f.status = "outgoing"
     /\ m.type = "move" /\ m.token = f.token
  \/ /\ f.status = "inconsistent"
     /\ m.type = "inconsistency" /\ m.terms = f.localTerms

\* Such a message is sent.
LEMMA AppendKeeps ==
  ASSUME NEW F, NEW in, NEW n, NEW calm, Inv(F, in, n, calm), NEW p \in Side,
         NEW m, IsOwnMessage(F[p], m)
  PROVE  Inv(F, [in EXCEPT ![Peer(p)] = Append(in[Peer(p)], m)], n, calm)
<1> DEFINE r == Peer(p)
<1>1. Types(F, in, n) /\ Resets(F, in, n)
  BY DEF Inv
<1>2. r \in Side /\ r # p /\ Peer(r) = p
  BY Sides
<1>3. PICK in2 : in2 = [in EXCEPT ![r] = Append(in[r], m)]
  OBVIOUS
<1>4. /\ DOMAIN in2 = Side /\ in2 = [q \in Side |-> in2[q]]
      /\ in2[r] = Append(in[r], m) /\ in2[p] = in[p]
  BY <1>1, <1>2, <1>3 DEF Types
<1>5. IsQueue(in[r])
  BY <1>1, <1>2 DEF Types
<1>s. \A q \in Side : q = p \/ q = r
  BY Sides
<1> HIDE DEF r
<1>6. IsQueue(in2[r]) /\ ToSet(in2[r]) = ToSet(in[r]) \cup {m}
  <2>1. IsQueue(Append(in[r], m)) /\ ToSet(Append(in[r], m)) = ToSet(in[r]) \cup {m}
    BY <1>5, AppendQueue
  <2> QED BY <1>4, <2>1
<1>7. \A q \in Side : \A e \in ToSet(in2[q]) : e \in ToSet(in[q]) \/ e = m
  BY <1>4, <1>6, <1>s
<1>8. IsEvent(m)
  BY <1>1 DEF IsEvent, IsOwnMessage, Types, FriendType
<1>9. Types(F, in2, n)
  BY <1>1, <1>4, <1>6, <1>7, <1>8, <1>s DEF Types
<1>10. Tokens(F, in2) \subseteq Tokens(F, in)
  <2>1. IsMove(m) => m.token = F[p].token
    BY DEF IsMove, IsOwnMessage
  <2> QED BY <1>7, <2>1, TokensMember
<1>11. Terms(F, in2) \subseteq Terms(F, in)
  <2>1. m.type = "inconsistency" => m.terms = F[p].localTerms
    BY DEF IsOwnMessage
  <2> QED BY <1>7, <2>1, TermsMember
<1>12. Resets(F, in2, n)
  BY <1>1, <1>10, <1>11, TypedTokens, ResetsToken
<1>13. ASSUME NEW q \in Side, Given(q, F, in) PROVE Given(q, F, in2)
  <2> DEFINE f == F[q]
             g == F[Peer(q)]
  <2>0. Peer(q) \in Side /\ (q = p => Peer(q) = r) /\ (q = r => Peer(q) = p)
    BY <1>2, Sides DEF r
  <2>1. /\ f.status = "outgoing" /\ Sound(f.mc)
        /\ \A e \in ToSet(in[q]) \cup ToSet(in[Peer(q)]) : e.type # "inconsistency"
        /\ Held(f, g, in[q], in[Peer(q)]) \/ UnderWay(f, g, in[q], in[Peer(q)])
    BY <1>13 DEF Given
  <2>2. f.status = "outgoing" /\ g.status \in {"incoming", "outgoing"}
    BY <2>1 DEF Held, UnderWay
  <2>3. F[p].status = "outgoing" /\ IsMove(m) /\ m.token = F[p].token
    BY <1>s, <2>0, <2>2 DEF IsOwnMessage, IsMove
  <2>4. \A e \in ToSet(in2[q]) \cup ToSet(in2[Peer(q)]) : e.type # "inconsistency"
    BY <1>7, <2>0, <2>1, <2>3 DEF IsMove
  <2>5. CASE q = p
    <3>1. f = F[p] /\ in2[q] = in[q] /\ Peer(q) = r
      BY <1>4, <2>0, <2>5
    <3>2. \A t : InOrder(in[r], t) /\ m.token = t => InOrder(in2[r], t)
      BY <1>4, <1>5, AppendOrder
    <3> HIDE DEF f, g
    <3>3. Held(f, g, in[q], in[r]) => Held(f, g, in2[q], in2[r])
      BY <1>6, <2>3, <3>1 DEF Held
    <3>4. UnderWay(f, g, in[q], in[r]) => UnderWay(f, g, in2[q], in2[r])
      BY <1>6, <2>3, <3>1, <3>2 DEF UnderWay
    <3> QED BY <2>1, <2>4, <3>1, <3>3, <3>4 DEF Given, f, g
  <2>6. CASE q = r
    <3>1. g = F[p] /\ in2[p] = in[p] /\ Peer(q) = p
      BY <1>4, <2>0, <2>6
    <3> HIDE DEF f, g
    <3>2. UnderWay(f, g, in[r], in[p])
      BY <2>1, <2>3, <2>6, <3>1 DEF Held
    <3>3. UnderWay(f, g, in2[r], in2[p])
      BY <1>6, <2>3, <3>1, <3>2 DEF UnderWay
    <3> QED BY <2>1, <2>4, <2>6, <3>1, <3>3 DEF Given, f, g
  <2> QED BY <1>s, <2>5, <2>6
<1>14. Inv(F, in2, n, calm)
  BY <1>9, <1>12, <1>13 DEF Inv
<1> QED BY <1>3, <1>14 DEF r

\* The Channeler drops a message, takes it, or lets it overwrite another one.
LEMMA SendKeeps ==
  ASSUME NEW n, NEW calm, NEW p \in Side, NEW f, NEW m, NEW in,
         Inv([friend EXCEPT ![p] = f], in, n, calm),
         IsOwnMessage(f, m), p \in DOMAIN friend, Send(p, f, m, in)
  PROVE  Inv(friend', inbox', n, calm)
<1> DEFINE q == Peer(p)
<1>1. PICK F : F = [friend EXCEPT ![p] = f]
  OBVIOUS
<1>2. friend' = F /\ F[p] = f /\ Inv(F, in, n, calm)
  BY <1>1 DEF Send
<1>3. \/ inbox' = in
      \/ inbox' = [in EXCEPT ![q] = Append(in[q], m)]
      \/ in[q] # <<>> /\ inbox' = [in EXCEPT ![q] = Append(Front(in[q]), m)]
  BY DEF Send
<1>4. q \in Side
  BY Sides
<1>5. DOMAIN in = Side /\ in = [r \in Side |-> in[r]] /\ \A r \in Side : IsQueue(in[r])
  BY <1>2 DEF Inv, Types
<1>6. CASE inbox' = in
  BY <1>2, <1>6
<1>7. CASE inbox' = [in EXCEPT ![q] = Append(in[q], m)]
  BY <1>2, <1>7, AppendKeeps
<1>8. CASE in[q] # <<>> /\ inbox' = [in EXCEPT ![q] = Append(Front(in[q]), m)]
  <2>1. Front(in[q]) = SubSeq(in[q], 1, Len(in[q]) - 1) /\ Len(in[q]) - 1 \in 0..Len(in[q])
    BY <1>4, <1>5, <1>8 DEF Front, IsQueue
  <2>2. Less(Front(in[q]), in[q])
    BY <1>4, <1>5, <2>1, LessPrefix
  <2>3. PICK s : s = Front(in[q])
    OBVIOUS
  <2>4. PICK in1 : in1 = [in EXCEPT ![q] = s]
    OBVIOUS
  <2>5. /\ DOMAIN in1 = Side /\ in1 = [r \in Side |-> in1[r]]
        /\ in1[q] = s /\ \A r \in Side : r # q => in1[r] = in[r]
    BY <1>4, <1>5, <2>4
  <2>6. \A r \in Side : Less(in1[r], in[r])
    BY <1>5, <2>2, <2>3, <2>5, LessSame
  <2>7. Inv(F, in1, n, calm)
    BY <1>2, <2>5, <2>6, LessKeeps
  <2>8. [in1 EXCEPT ![q] = Append(in1[q], m)] = [in EXCEPT ![q] = Append(s, m)]
    BY <1>4, <1>5, <2>4, <2>5
  <2>9. Inv(F, [in1 EXCEPT ![q] = Append(in1[q], m)], n, calm)
    BY <1>2, <2>7, AppendKeeps
  <2> QED BY <1>2, <1>8, <2>3, <2>8, <2>9
<1> QED BY <1>3, <1>6, <1>7, <1>8

-----------------------------------------------------------------------------
(***************************************************************************)
(* Sending.                                                                *)
(***************************************************************************)
\* What a side that holds the token becomes when it sends a batch.
Sending(f, ops, rest) ==
  LET mc2 == QueueAll(ops, f.mc)
      r == RelaysToSend(f)
  IN  [f EXCEPT !.status = "outgoing", !.mc = mc2,
                !.token = NextMoveToken(f, mc2, ops, r), !.wants = rest,
                !.aside = FALSE, !.sent = SentRelays(f, r)]

\* It is well typed.
LEMMA SendingTyped ==
  ASSUME NEW f \in FriendType, NEW ops \in Seq(Op), NEW rest \in Nat, fresh \in Nat
  PROVE  LET f2 == Sending(f, ops, rest)
             r == RelaysToSend(f)
             mc2 == QueueAll(ops, f.mc)
         IN  /\ f2 \in FriendType
             /\ f2.status = "outgoing" /\ f2.mc = mc2
             /\ f2.token = NextMoveToken(f, mc2, ops, r)
             /\ f2.sent = SentRelays(f, r) /\ f2.remoteRelays = f.remoteRelays
             /\ f2.localTerms = f.localTerms /\ f2.remoteTerms = f.remoteTerms
             /\ r \in Nat \cup {NoRelays}
<1> DEFINE r == RelaysToSend(f)
           mc2 == QueueAll(ops, f.mc)
           token == NextMoveToken(f, mc2, ops, r)
           sent == SentRelays(f, r)
<1>1. /\ f.mc \in IntLedger /\ f.token \in TokenType /\ f.sent \in SentType
      /\ f.relays \in Nat
  BY DEF FriendType
<1>2. mc2 \in IntLedger
  BY <1>1, BatchInt
<1>3. r \in Nat \cup {NoRelays}
  BY <1>1 DEF RelaysToSend
<1>4. f.sent.last \in Nat
  BY <1>1 DEF SentType
<1>5. /\ mc2.balance \in Int /\ mc2.localPendingDebt \in Int /\ mc2.remotePendingDebt \in Int
  BY <1>2 DEF IntLedger
<1>6. f.token.new \in Nat /\ f.token.ic \in Nat /\ f.token.ctr + 1 \in Nat
  BY <1>1 DEF TokenType
<1>7. Sending(f, ops, rest) = [f EXCEPT !.status = "outgoing", !.mc = mc2, !.token = token,
                                         !.wants = rest, !.aside = FALSE, !.sent = sent]
  BY DEF Sending
<1> HIDE DEF r, mc2
<1>8. token \in TokenType
  BY <1>3, <1>5, <1>6 DEF NextMoveToken, TokenType
<1>9. sent \in SentType
  <2>1. CASE r = NoRelays
    BY <1>1, <2>1 DEF SentRelays
  <2>2. CASE r # NoRelays /\ f.sent.status = "never"
    BY <1>3, <2>2 DEF SentRelays, SentType
  <2>3. CASE r # NoRelays /\ f.sent.status # "never"
    <3>1. sent = [status |-> "transition", last |-> r, prev |-> f.sent.last]
      BY <2>3 DEF SentRelays
    <3> QED BY <1>3, <1>4, <2>3, <3>1 DEF SentType
  <2> QED BY <2>1, <2>2, <2>3
<1> HIDE DEF token, sent
<1>10. Sending(f, ops, rest) \in FriendType
  BY <1>2, <1>7, <1>8, <1>9 DEF FriendType
<1>11. /\ Sending(f, ops, rest).status = "outgoing" /\ Sending(f, ops, rest).mc = mc2
       /\ Sending(f, ops, rest).token = token /\ Sending(f, ops, rest).sent = sent
       /\ Sending(f, ops, rest).remoteRelays = f.remoteRelays
       /\ Sending(f, ops, rest).localTerms = f.localTerms
       /\ Sending(f, ops, rest).remoteTerms = f.remoteTerms
  BY <1>7 DEF FriendType
<1> QED BY <1>3, <1>10, <1>11 DEF r, mc2, token, sent

\* The peer of a side that sends a batch will accept it.
LEMMA SendingUnderWay ==
  ASSUME NEW f \in FriendType, NEW g \in FriendType, NEW fIn, NEW gIn,
         NEW ops \in Seq(Op), NEW rest \in Nat, fresh \in Nat,
         g.status = "outgoing", Sound(g.mc), Held(g, f, gIn, fIn),
         SendableAll(ops, f.mc), NoRepeats(ops, f.mc),
         IsQueue(gIn),
         \A e \in ToSet(gIn) : IsMove(e) => e.token.new < fresh /\ e.token.new \in Nat
  PROVE  LET f2 == Sending(f, ops, rest)
         IN  Sound(f2.mc) /\ UnderWay(f2, g, fIn, gIn)
<1> DEFINE r == RelaysToSend(f)
           mc2 == QueueAll(ops, f.mc)
           token == NextMoveToken(f, mc2, ops, r)
<1>1. PICK f2 : f2 = Sending(f, ops, rest)
  OBVIOUS
<1>2. /\ f2 \in FriendType /\ f2.status = "outgoing" /\ f2.mc = mc2
      /\ f2.token = token /\ f2.sent = SentRelays(f, r) /\ f2.remoteRelays = f.remoteRelays
      /\ r \in Nat \cup {NoRelays}
  BY <1>1, SendingTyped
<1>3. /\ token.old = f.token.new /\ token.new = fresh /\ token.ic = f.token.ic
      /\ token.ctr = f.token.ctr + 1 /\ token.ops = ops /\ token.relays = r
      /\ token.balance = mc2.balance /\ token.localDebt = mc2.localPendingDebt
      /\ token.remoteDebt = mc2.remotePendingDebt
  BY DEF NextMoveToken
<1>4. /\ f.token = g.token /\ f.mc = Mirror(g.mc)
      /\ \A e \in ToSet(fIn) : IsMove(e) => e.token = g.token
      /\ \A e \in ToSet(gIn) : IsMove(e) => e.token.new = g.token.old
      /\ g.sent.status # "never" => f.remoteRelays = g.sent.last
      /\ f.sent.status # "never" => f.sent.status = "last" /\ g.remoteRelays = f.sent.last
  BY DEF Held
<1>5. /\ Sound(mc2) /\ ProcessAllOk(ops, g.mc) /\ ProcessAll(ops, g.mc) = Mirror(mc2)
  <2>1. Sound(f.mc)
    BY <1>4, MirrorSound
  <2>2. Mirror(f.mc) = g.mc
    BY <1>4, MirrorTwice DEF Sound
  <2> QED BY <2>1, <2>2, BatchMirror
<1>6. IsNext(g, f2.token) /\ IsAcceptable(g, f2.token)
  <2>1. /\ Mirror(mc2).balance = -mc2.balance
        /\ Mirror(mc2).localPendingDebt = mc2.remotePendingDebt
        /\ Mirror(mc2).remotePendingDebt = mc2.localPendingDebt
    BY DEF Mirror
  <2> HIDE DEF token, mc2
  <2> QED BY <1>2, <1>3, <1>4, <1>5, <2>1 DEF IsNext, IsAcceptable
<1>7. \A e \in ToSet(gIn) : IsMove(e) => e.token # f2.token
  BY <1>2, <1>3
<1>8. InOrder(gIn, f2.token)
  BY <1>7, QueuePlaces DEF InOrder
<1>9. f2.sent.status # "never" =>
        IF f2.token.relays = NoRelays
          THEN f2.sent.status = "last" /\ g.remoteRelays = f2.sent.last
          ELSE /\ f2.token.relays = f2.sent.last
               /\ f2.sent.status = "transition" => g.remoteRelays = f2.sent.prev
  <2>1. f2.token.relays = r
    BY <1>2, <1>3
  <2>2. CASE r = NoRelays
    BY <1>2, <1>4, <2>1, <2>2 DEF SentRelays
  <2>3. CASE r # NoRelays /\ f.sent.status = "never"
    BY <1>2, <2>1, <2>3 DEF SentRelays
  <2>4. CASE r # NoRelays /\ f.sent.status # "never"
    <3>1. f2.sent = [status |-> "transition", last |-> r, prev |-> f.sent.last]
      BY <1>2, <2>4 DEF SentRelays
    <3> QED BY <1>4, <2>1, <2>4, <3>1
  <2> QED BY <2>2, <2>3, <2>4
<1> QED BY <1>1, <1>2, <1>3, <1>4, <1>5, <1>6, <1>7, <1>8, <1>9 DEF UnderWay

\* Who sends a batch gives the token away.
LEMMA SendingGiven ==
  ASSUME NEW F, NEW in, Types(F, in, fresh), Resets(F, in, fresh), NEW p \in Side,
         F[p].status = "incoming", NEW ops \in Seq(Op), SendableAll(ops, F[p].mc),
         NoRepeats(ops, F[p].mc), NEW rest \in Nat, NEW q \in Side, Given(q, F, in)
  PROVE  Given(p, [F EXCEPT ![p] = Sending(F[p], ops, rest)], in)
<1> DEFINE f == F[p]
<1>1. PICK f2 : f2 = Sending(f, ops, rest)
  OBVIOUS
<1>2. PICK G : G = [F EXCEPT ![p] = f2]
  OBVIOUS
<1>3. f \in FriendType /\ F \in [Side -> FriendType] /\ fresh \in Nat
  BY DEF Types
<1>4. q = Peer(p) /\ Peer(q) = p /\ q # p
  <2>1. F[q].status = "outgoing"
    BY DEF Given
  <2> QED BY <2>1, Sides
<1>5. /\ F[q].status = "outgoing" /\ Sound(F[q].mc)
      /\ \A e \in ToSet(in[q]) \cup ToSet(in[p]) : e.type # "inconsistency"
      /\ Held(F[q], f, in[q], in[p])
  BY <1>4 DEF Given, UnderWay
<1>6. \A e \in ToSet(in[q]) : IsMove(e) => e.token.new < fresh /\ e.token.new \in Nat
  <2>1. \A t \in Tokens(F, in) : t.new < fresh /\ t.new \in Nat
    BY TypedTokens DEF Resets
  <2> QED BY <2>1, OwnTokens
<1>7. IsQueue(in[q]) /\ F[q] \in FriendType
  BY <1>3 DEF Types
<1>8. Sound(f2.mc) /\ UnderWay(f2, F[q], in[p], in[q])
  BY <1>1, <1>3, <1>5, <1>6, <1>7, SendingUnderWay
<1>9. f2.status = "outgoing"
  BY <1>1, <1>3, SendingTyped
<1>10. G[p] = f2 /\ G[q] = F[q]
  BY <1>2, <1>3, <1>4
<1>11. Given(p, G, in)
  BY <1>4, <1>5, <1>8, <1>9, <1>10 DEF Given
<1> QED BY <1>1, <1>2, <1>11

\* The side that holds the token sends a batch.
LEMMA SendingKeeps ==
  ASSUME NEW F, NEW in, NEW calm, Inv(F, in, fresh, calm), NEW p \in Side,
         F[p].status = "incoming", NEW ops \in Seq(Op), SendableAll(ops, F[p].mc),
         calm => NoRepeats(ops, F[p].mc), NEW rest \in Nat
  PROVE  Inv([F EXCEPT ![p] = Sending(F[p], ops, rest)], in, fresh + 1, calm)
<1>1. Types(F, in, fresh) /\ Resets(F, in, fresh) /\ fresh \in Nat /\ fresh >= 2
  BY DEF Inv, Types
<1>2. F[p] \in FriendType /\ F \in [Side -> FriendType]
  BY <1>1 DEF Types
<1> DEFINE f == F[p]
           r == RelaysToSend(f)
           mc2 == QueueAll(ops, f.mc)
           token == NextMoveToken(f, mc2, ops, r)
<1>3. PICK f2 : f2 = Sending(f, ops, rest)
  OBVIOUS
<1>4. /\ f2 \in FriendType /\ f2.status = "outgoing"
      /\ f2.token = token
      /\ f2.localTerms = f.localTerms /\ f2.remoteTerms = f.remoteTerms
  BY <1>1, <1>2, <1>3, SendingTyped
<1>5. token.old = f.token.new /\ token.new = fresh
  BY DEF NextMoveToken
<1> HIDE DEF token
<1>6. PICK G : G = [F EXCEPT ![p] = f2]
  OBVIOUS
<1>7. G \in [Side -> FriendType] /\ G[p] = f2 /\ \A q \in Side : q # p => G[q] = F[q]
  BY <1>2, <1>4, <1>6
<1>8. Types(G, in, fresh + 1)
  BY <1>1, <1>4, <1>7 DEF Types
<1>9. /\ \A t \in Tokens(F, in) : t.old \in Nat /\ t.new \in Nat /\ t.new < fresh
      /\ f.token \in Tokens(F, in)
  BY <1>1, TypedTokens DEF Resets
<1>10. Resets(G, in, fresh + 1)
  <2>1. \A t \in Tokens(G, in) : t \in Tokens(F, in) \/ t = token
    BY <1>4, <1>7, TokensMember
  <2>2. Terms(G, in) \subseteq Terms(F, in)
    BY <1>4, <1>7, TermsMember
  <2>3. \A terms \in Terms(G, in) : G[p].token.old # terms.token
    BY <1>1, <1>4, <1>5, <1>7, <1>9, <2>2 DEF Resets
  <2>4. \A t \in Tokens(G, in) :
          t \in Tokens(F, in)
            \/ (t.new = fresh /\ fresh < fresh + 1 /\ t.old \in Nat /\ t.old < fresh)
    BY <1>1, <1>5, <1>9, <2>1
  <2>5. \A q \in Side : G[q].status = "outgoing" =>
           \/ /\ F[q].status = "outgoing"
              /\ G[q].token = F[q].token /\ G[q].mc = F[q].mc
           \/ \A terms \in Terms(G, in) :
                G[q].token.old = terms.token => HasReset(G[q], terms)
    BY <1>7, <2>3
  <2>6. /\ \A t \in Terms(F, in) : t.token \in Nat
        /\ fresh + 1 \in Nat /\ fresh <= fresh + 1
    BY <1>1, TypedTokens
  <2> QED BY <1>1, <1>9, <2>2, <2>4, <2>5, <2>6, ResetsToken
<1>11. ASSUME calm, NEW q \in Side, Given(q, F, in) PROVE Given(p, G, in)
  BY <1>1, <1>3, <1>6, <1>11, SendingGiven
<1>12. Inv(G, in, fresh + 1, calm)
  BY <1>8, <1>10, <1>11 DEF Inv
<1> QED BY <1>3, <1>6, <1>12

\* A batch of the operations on offer.
LEMMA BatchType == BoundedSeq(Ops, MaxBatch) \subseteq Seq(Op)
<1> SUFFICES ASSUME NEW s \in BoundedSeq(Ops, MaxBatch) PROVE s \in Seq(Op)
  OBVIOUS
<1>1. PICK k \in 0..MaxBatch : s \in [1..k -> Ops]
  BY DEF BoundedSeq, SeqOf
<1>2. k \in Nat
  BY BatchAssumption
<1> QED BY <1>1, <1>2, OpsAssumption

\* What parted is set to says that the friends have parted.
LEMMA PartedSet == [q \in Side |-> EffectiveLedger(q)] # <<>>
<1>1. DOMAIN <<>> # Side
  BY DEF Side
<1> QED BY <1>1

\* Friends that stay together after a batch was sent were sent no pending identifier
\* again.
LEMMA StillTogether ==
  ASSUME NEW ops, NEW m, Together',
         parted' = IF Together /\ ~NoRepeats(ops, m)
                     THEN [q \in Side |-> EffectiveLedger(q)] ELSE parted
  PROVE  NoRepeats(ops, m)
BY PartedSet DEF Together

\* What is sent at the end of a handler that made f of its friend.
LEMMA MessagesKeep ==
  ASSUME NEW p \in Side, NEW f, NEW cmds, NEW in, NEW isOnline, NEW used \in {0, 1},
         NEW calm, DOMAIN friend = Side,
         Inv([friend EXCEPT ![p] = f], in, fresh + used, calm),
         f.status = "incoming" => used = 0, fresh \in Nat,
         calm => Together',
         CreateFriendMessages(p, f, cmds, in, isOnline, used)
  PROVE  Inv(friend', inbox', fresh', calm)
<1>1. PICK F : F = [friend EXCEPT ![p] = f]
  OBVIOUS
<1>2. F[p] = f /\ Inv(F, in, fresh + used, calm)
  BY <1>1
<1>3. f \in FriendType /\ F \in [Side -> FriendType]
  BY <1>2 DEF Inv, Types
<1>4. CASE Quiet(p, f, in) /\ fresh' = fresh + used
  BY <1>1, <1>2, <1>4 DEF Quiet
<1>5. CASE f.status = "incoming" /\ SendIncoming(p, f, cmds, in)
  <2>1. PICK ops \in BoundedSeq(Ops, MaxBatch), rest \in 0 .. f.wants :
          /\ SendableAll(ops, f.mc)
          /\ SendMoveToken(p, f, ops, RelaysToSend(f), rest, cmds, in)
    BY <1>5 DEF SendIncoming
  <2>2. f.wants \in Nat /\ rest \in Nat /\ ops \in Seq(Op) /\ fresh + used = fresh
    BY <1>3, <1>5, BatchType DEF FriendType
  <2> DEFINE mc2 == QueueAll(ops, f.mc)
             r == RelaysToSend(f)
             token == NextMoveToken(f, mc2, ops, r)
  <2>3. CASE Quiet(p, [f EXCEPT !.wants = 0, !.aside = FALSE], in) /\ fresh' = fresh
    <3>1. PICK g : g = [f EXCEPT !.wants = 0, !.aside = FALSE]
      OBVIOUS
    <3>2. /\ g \in FriendType
          /\ g.status = f.status /\ g.mc = f.mc /\ g.token = f.token
          /\ g.localTerms = f.localTerms /\ g.remoteTerms = f.remoteTerms
          /\ g.sent = f.sent /\ g.remoteRelays = f.remoteRelays
      BY <1>3, <3>1 DEF FriendType
    <3>3. Inv([F EXCEPT ![p] = g], in, fresh, calm)
      BY <1>2, <2>2, <3>2, FriendKeeps
    <3>4. [F EXCEPT ![p] = g] = [friend EXCEPT ![p] = g]
      BY <1>1
    <3> QED BY <2>3, <3>1, <3>3, <3>4 DEF Quiet
  <2>4. CASE /\ Send(p, Sending(f, ops, rest), MoveMessage(token, rest > 0 \/ r # NoRelays), in)
             /\ fresh' = fresh + 1
             /\ parted' = IF Together /\ ~NoRepeats(ops, f.mc)
                            THEN [q \in Side |-> EffectiveLedger(q)] ELSE parted
    <3>0. calm => NoRepeats(ops, f.mc)
      BY <2>4, StillTogether
    <3>1. PICK g : g = Sending(f, ops, rest)
      OBVIOUS
    <3>2. PICK m : m = MoveMessage(token, rest > 0 \/ r # NoRelays)
      OBVIOUS
    <3>3. g.status = "outgoing" /\ g.token = token
      BY <1>3, <2>2, <3>1, SendingTyped
    <3> HIDE DEF token
    <3>4. IsOwnMessage(g, m)
      BY <3>2, <3>3 DEF MoveMessage, IsOwnMessage
    <3>5. Inv([F EXCEPT ![p] = g], in, fresh + 1, calm)
      BY <1>2, <1>5, <2>1, <2>2, <3>0, <3>1, SendingKeeps
    <3>6. [F EXCEPT ![p] = g] = [friend EXCEPT ![p] = g]
      BY <1>1
    <3>7. Send(p, g, m, in)
      BY <2>4, <3>1, <3>2
    <3> QED BY <2>4, <3>4, <3>5, <3>6, <3>7, SendKeeps
  <2> QED BY <2>1, <2>3, <2>4 DEF SendMoveToken, Sending
<1>6. CASE f.status = "outgoing" /\ SendOutgoing(p, f, cmds, in) /\ fresh' = fresh + used
  <2>1. CASE Quiet(p, f, in)
    BY <1>4, <1>6, <2>1
  <2>2. CASE \E w \in BOOLEAN : TransmitOutgoing(p, f, w, in)
    <3>1. PICK w \in BOOLEAN : TransmitOutgoing(p, f, w, in)
      BY <2>2
    <3>2. PICK m : m = MoveMessage(f.token, w)
      OBVIOUS
    <3>3. IsOwnMessage(f, m)
      BY <1>6, <3>2 DEF MoveMessage, IsOwnMessage
    <3>4. Send(p, f, m, in)
      BY <3>1, <3>2 DEF TransmitOutgoing
    <3>5. Inv(friend', inbox', fresh + used, calm)
      BY <3>3, <3>4, SendKeeps
    <3> QED BY <1>6, <3>5
  <2> QED BY <1>6, <2>1, <2>2 DEF SendOutgoing
<1>7. CASE f.status = "inconsistent" /\ SendInconsistent(p, f, cmds, in) /\ fresh' = fresh + used
  <2>1. CASE Quiet(p, f, in)
    BY <1>4, <1>7, <2>1
  <2>2. CASE Send(p, f, InconsistencyMessage(f.localTerms), in)
    <3>1. PICK m : m = InconsistencyMessage(f.localTerms)
      OBVIOUS
    <3>2. IsOwnMessage(f, m)
      BY <1>7, <3>1 DEF InconsistencyMessage, IsOwnMessage
    <3>3. Inv(friend', inbox', fresh + used, calm)
      BY <2>2, <3>1, <3>2, SendKeeps
    <3> QED BY <1>7, <3>3
  <2> QED BY <1>7, <2>1, <2>2 DEF SendInconsistent
<1> QED BY <1>4, <1>5, <1>6, <1>7 DEF CreateFriendMessages, SendFriend

-----------------------------------------------------------------------------
(***************************************************************************)
(* Messages and events from the Channeler.                                 *)
(***************************************************************************)
\* What the invariant says of the variables.
LEMMA StateTypes ==
  ASSUME IInv
  PROVE  /\ friend \in [Side -> FriendType] /\ DOMAIN friend = Side
         /\ DOMAIN inbox = Side /\ inbox = [p \in Side |-> inbox[p]]
         /\ \A p \in Side : IsQueue(inbox[p]) /\ \A e \in ToSet(inbox[p]) : IsEvent(e)
         /\ fresh \in Nat /\ fresh >= 2 /\ fresh + 0 = fresh
         /\ \A p \in Side : [friend EXCEPT ![p] = friend[p]] = friend
         /\ Types(friend, inbox, fresh) /\ Resets(friend, inbox, fresh)
<1>1. Types(friend, inbox, fresh) /\ Resets(friend, inbox, fresh)
  BY DEF IInv, Inv
<1>2. friend \in [Side -> FriendType]
  BY <1>1 DEF Types
<1>3. \A p \in Side : [friend EXCEPT ![p] = friend[p]] = friend
  BY <1>2
<1> QED BY <1>1, <1>2, <1>3 DEF Types

\* An event was taken from the inbox.
LEMMA TakenKeeps ==
  ASSUME IInv, NEW p \in Side, inbox[p] # <<>>
  PROVE  /\ Inv(friend, Taken(p), fresh, Together)
         /\ Head(inbox[p]) \in ToSet(inbox[p])
         /\ \A q \in Side : ToSet(Taken(p)[q]) \subseteq ToSet(inbox[q])
         /\ Taken(p)[p] = Tail(inbox[p]) /\ Taken(p)[Peer(p)] = inbox[Peer(p)]
<1>1. PICK in2 : in2 = Taken(p)
  OBVIOUS
<1>2. /\ DOMAIN in2 = Side /\ in2 = [q \in Side |-> in2[q]]
      /\ in2[p] = Tail(inbox[p]) /\ \A q \in Side : q # p => in2[q] = inbox[q]
  BY <1>1, StateTypes DEF Taken
<1>3. IsQueue(inbox[p]) /\ \A q \in Side : IsQueue(inbox[q])
  BY StateTypes
<1>4. Less(Tail(inbox[p]), inbox[p]) /\ Head(inbox[p]) \in ToSet(inbox[p])
  BY <1>3, LessTail
<1>5. \A q \in Side : Less(in2[q], inbox[q])
  BY <1>2, <1>3, <1>4, LessSame
<1>6. Inv(friend, in2, fresh, Together)
  BY <1>2, <1>5, LessKeeps DEF IInv
<1>7. ToSet(Tail(inbox[p])) \subseteq ToSet(inbox[p])
  BY <1>3, TailQueue
<1> QED BY <1>1, <1>2, <1>4, <1>6, <1>7, Sides

\* A friend with more to send, or to put aside, or with other relays of its own.
LEMMA WantsChanged ==
  ASSUME NEW f \in FriendType, NEW g,
         \/ g = [f EXCEPT !.aside = FALSE]
         \/ g = [f EXCEPT !.wants = @ + 1, !.aside = FALSE]
         \/ g = [f EXCEPT !.relays = @ + 1, !.aside = FALSE]
         \/ g = [f EXCEPT !.wants = @ + 1, !.aside = @ \/ f.wants = 0]
  PROVE  /\ g \in FriendType
         /\ g.status = f.status /\ g.mc = f.mc /\ g.token = f.token
         /\ g.localTerms = f.localTerms /\ g.remoteTerms = f.remoteTerms
         /\ g.sent = f.sent /\ g.remoteRelays = f.remoteRelays
<1>1. f.wants \in Nat /\ f.wants + 1 \in Nat /\ f.relays \in Nat /\ f.relays + 1 \in Nat
  BY DEF FriendType
<1>2. CASE g = [f EXCEPT !.aside = FALSE]
  BY <1>2 DEF FriendType
<1>3. CASE g = [f EXCEPT !.wants = @ + 1, !.aside = FALSE]
  BY <1>1, <1>3 DEF FriendType
<1>4. CASE g = [f EXCEPT !.relays = @ + 1, !.aside = FALSE]
  BY <1>1, <1>4 DEF FriendType
<1>5. CASE g = [f EXCEPT !.wants = @ + 1, !.aside = @ \/ f.wants = 0]
  <2>1. PICK a \in BOOLEAN : a = (f.aside \/ f.wants = 0)
    OBVIOUS
  <2>2. g = [f EXCEPT !.wants = @ + 1, !.aside = a]
    BY <1>5, <2>1 DEF FriendType
  <2> QED BY <1>1, <2>1, <2>2 DEF FriendType
<1> QED BY <1>2, <1>3, <1>4, <1>5

\* A handler that leaves its friend as it is, and sends.
LEMMA AnswerKeeps ==
  ASSUME IInv, NEW p \in Side, inbox[p] # <<>>, NEW cmds, NEW isOnline,
         CreateFriendMessages(p, friend[p], cmds, Taken(p), isOnline, 0)
  PROVE  Inv(friend', inbox', fresh', Together /\ Together')
<1>1. PICK calm \in BOOLEAN : calm <=> Together /\ Together'
  OBVIOUS
<1>2. PICK f : f = friend[p]
  OBVIOUS
<1>3. Inv([friend EXCEPT ![p] = f], Taken(p), fresh + 0, calm)
  <2>1. Inv(friend, Taken(p), fresh, Together)
    BY TakenKeeps
  <2>2. Inv(friend, Taken(p), fresh, calm)
    BY <1>1, <2>1 DEF Inv
  <2> QED BY <1>2, <2>2, StateTypes
<1>4. Inv(friend', inbox', fresh', calm)
  BY <1>1, <1>2, <1>3, StateTypes, MessagesKeep
<1> QED BY <1>1, <1>4 DEF Inv

\* The same, of one that changes what there is to send, or the node's own relays.
LEMMA AnswerChanged ==
  ASSUME IInv, NEW p \in Side, NEW in, Inv(friend, in, fresh, Together),
         NEW cmds, NEW isOnline, NEW g \in FriendType,
         g.status = friend[p].status, g.mc = friend[p].mc, g.token = friend[p].token,
         g.localTerms = friend[p].localTerms, g.remoteTerms = friend[p].remoteTerms,
         g.sent = friend[p].sent, g.remoteRelays = friend[p].remoteRelays,
         CreateFriendMessages(p, g, cmds, in, isOnline, 0)
  PROVE  Inv(friend', inbox', fresh', Together /\ Together')
<1>1. PICK calm \in BOOLEAN : calm <=> Together /\ Together'
  OBVIOUS
<1>2. Inv(friend, in, fresh, calm)
  BY <1>1 DEF Inv
<1>3. Inv([friend EXCEPT ![p] = g], in, fresh, calm)
  BY <1>2, FriendKeeps
<1>4. Inv(friend', inbox', fresh', calm)
  BY <1>1, <1>3, StateTypes, MessagesKeep
<1> QED BY <1>1, <1>4 DEF Inv

\* Online.
LEMMA OnlineIInv ==
  ASSUME IInv, NEW p \in Side, HandleOnline(p)
  PROVE  Inv(friend', inbox', fresh', Together /\ Together')
<1>1. inbox[p] # <<>>
  BY DEF HandleOnline, Arrived
<1>2. CASE inbox' = Taken(p) /\ UNCHANGED <<friend, fresh>>
  BY <1>1, <1>2, TakenKeeps DEF Inv
<1>3. CASE CreateFriendMessages(p, [friend[p] EXCEPT !.aside = FALSE], {"resend_outgoing"},
                                Taken(p), TRUE, 0)
  <2>1. PICK g : g = [friend[p] EXCEPT !.aside = FALSE]
    OBVIOUS
  <2>2. /\ g \in FriendType
        /\ g.status = friend[p].status /\ g.mc = friend[p].mc /\ g.token = friend[p].token
        /\ g.localTerms = friend[p].localTerms /\ g.remoteTerms = friend[p].remoteTerms
        /\ g.sent = friend[p].sent /\ g.remoteRelays = friend[p].remoteRelays
    BY <2>1, StateTypes, WantsChanged
  <2>3. Inv(friend, Taken(p), fresh, Together)
    BY <1>1, TakenKeeps
  <2> QED BY <1>3, <2>1, <2>2, <2>3, AnswerChanged
<1> QED BY <1>2, <1>3 DEF HandleOnline

\* Some requests were canceled, and nothing else changed.
LEMMA CanceledType ==
  ASSUME NEW f \in FriendType, NEW g \in RequestsCanceled(f)
  PROVE  /\ g \in FriendType
         /\ g.status = f.status /\ g.mc = f.mc /\ g.token = f.token
         /\ g.localTerms = f.localTerms /\ g.remoteTerms = f.remoteTerms
         /\ g.sent = f.sent /\ g.remoteRelays = f.remoteRelays
<1>1. f.wants \in Nat
  BY DEF FriendType
<1>2. PICK w \in 0 .. f.wants : g = [f EXCEPT !.wants = w]
  BY DEF RequestsCanceled
<1>3. w \in Nat
  BY <1>1
<1> QED BY <1>2, <1>3 DEF FriendType

\* Offline.
LEMMA OfflineIInv ==
  ASSUME IInv, NEW p \in Side, HandleOffline(p)
  PROVE  Inv(friend', inbox', fresh', Together)
<1>1. PICK f \in RequestsCanceled(friend[p]) : Quiet(p, f, Taken(p))
  BY DEF HandleOffline
<1>2. inbox[p] # <<>> /\ fresh' = fresh
  BY DEF HandleOffline, Arrived
<1>3. friend[p] \in FriendType
  BY StateTypes
<1>4. Inv([friend EXCEPT ![p] = f], Taken(p), fresh, Together)
  BY <1>2, <1>3, CanceledType, TakenKeeps, FriendKeeps
<1> QED BY <1>1, <1>2, <1>4 DEF Quiet

\* As long as the friends are together every channel is consistent, no reset is on its
\* way, and a token is the one that the receiver holds, the one before that, or
\* the one that it will accept.
LEMMA CalmToken ==
  ASSUME NEW F, NEW in, NEW n, Types(F, in, n), Resets(F, in, n),
         NEW q \in Side, Given(q, F, in), NEW p \in Side
  PROVE  /\ F[p].status \in {"incoming", "outgoing"}
         /\ \A e \in ToSet(in[p]) : e.type # "inconsistency"
         /\ \A e \in ToSet(in[p]) : IsMove(e) =>
              \/ F[p].status = "incoming" /\ e.token = F[p].token
              \/ F[p].status = "outgoing" /\ IsRepeated(F[p], e.token)
              \/ /\ F[p].status = "outgoing" /\ q = Peer(p)
                 /\ UnderWay(F[q], F[p], in[q], in[p]) /\ e.token = F[q].token
<1>1. /\ F[q].status = "outgoing" /\ Peer(q) \in Side
      /\ \A e \in ToSet(in[q]) \cup ToSet(in[Peer(q)]) : e.type # "inconsistency"
      /\ \/ Held(F[q], F[Peer(q)], in[q], in[Peer(q)])
         \/ UnderWay(F[q], F[Peer(q)], in[q], in[Peer(q)])
  BY Sides DEF Given
<1>2. p = q \/ p = Peer(q)
  BY Sides
<1>3. F[p].status \in {"incoming", "outgoing"}
  BY <1>1, <1>2 DEF Held, UnderWay
<1>4. \A e \in ToSet(in[p]) : e.type # "inconsistency"
  BY <1>1, <1>2
<1>5. \A t \in Tokens(F, in) : t.old \in Nat /\ t.new \in Nat /\ t.old < t.new
  BY TypedTokens DEF Resets
<1>6. ASSUME NEW e \in ToSet(in[p]), IsMove(e)
      PROVE  \/ F[p].status = "incoming" /\ e.token = F[p].token
             \/ F[p].status = "outgoing" /\ IsRepeated(F[p], e.token)
             \/ /\ F[p].status = "outgoing" /\ q = Peer(p)
                /\ UnderWay(F[q], F[p], in[q], in[p]) /\ e.token = F[q].token
  <2>1. /\ F[p].token \in Tokens(F, in) /\ e.token \in Tokens(F, in)
    BY <1>6, TokensMember
  <2>2. ASSUME e.token.new = F[p].token.old PROVE IsRepeated(F[p], e.token)
    <3>1. e.token.old < e.token.new /\ F[p].token.old < F[p].token.new
          /\ e.token.old \in Nat /\ e.token.new \in Nat /\ F[p].token.new \in Nat
      BY <1>5, <2>1
    <3>2. e.token.old # F[p].token.new
      BY <2>2, <3>1
    <3> QED BY <2>2, <3>2 DEF IsRepeated, IsNext
  <2>3. CASE p = q
    <3>1. CASE Held(F[q], F[Peer(q)], in[q], in[Peer(q)])
      BY <1>1, <1>6, <2>2, <2>3, <3>1 DEF Held
    <3>2. CASE UnderWay(F[q], F[Peer(q)], in[q], in[Peer(q)])
      BY <1>1, <1>6, <2>2, <2>3, <3>2 DEF UnderWay, IsNext
    <3> QED BY <1>1, <3>1, <3>2
  <2>4. CASE p = Peer(q)
    <3>0. q = Peer(p)
      BY <2>4, Sides
    <3>1. CASE Held(F[q], F[Peer(q)], in[q], in[Peer(q)])
      BY <1>6, <2>4, <3>1 DEF Held
    <3>2. CASE UnderWay(F[q], F[Peer(q)], in[q], in[Peer(q)])
      <4>1. F[p].status = "outgoing" /\ (e.token = F[q].token \/ e.token.new = F[p].token.old)
        BY <1>6, <2>4, <3>2 DEF UnderWay
      <4> QED BY <2>2, <2>4, <3>0, <3>2, <4>1
    <3> QED BY <1>1, <3>1, <3>2
  <2> QED BY <1>2, <2>3, <2>4
<1> QED BY <1>3, <1>4, <1>6

\* A friend that has received a token.
LEMMA ReceivedType ==
  ASSUME NEW f \in FriendType, NEW token \in TokenType, NEW new \in {0, 1}
  PROVE  LET g == TokenReceived(f, token, new)
         IN  /\ g \in FriendType
             /\ g.status = "incoming" /\ g.mc = ProcessAll(token.ops, f.mc)
             /\ g.token = token
             /\ g.localTerms = f.localTerms /\ g.remoteTerms = f.remoteTerms
             /\ g.sent.last = f.sent.last
             /\ g.sent.status = IF f.sent.status = "transition" THEN "last"
                                                                ELSE f.sent.status
             /\ g.remoteRelays = IF token.relays = NoRelays THEN f.remoteRelays
                                                            ELSE token.relays
<1> DEFINE mc2 == ProcessAll(token.ops, f.mc)
           status == IF f.sent.status = "transition" THEN "last" ELSE f.sent.status
           sent == [f.sent EXCEPT !.status = status]
           known == IF token.relays = NoRelays THEN f.remoteRelays ELSE token.relays
           g == TokenReceived(f, token, new)
<1>1. /\ f.mc \in IntLedger /\ f.sent \in SentType /\ f.remoteRelays \in Nat
      /\ f.wants + new \in Nat /\ token.ops \in Seq(Op) /\ token.relays \in Nat \cup {NoRelays}
  <2>1. /\ f.mc \in IntLedger /\ f.sent \in SentType /\ f.remoteRelays \in Nat
        /\ f.wants \in Nat
    BY DEF FriendType
  <2>2. token.ops \in Seq(Op) /\ token.relays \in Nat \cup {NoRelays}
    BY DEF TokenType
  <2> QED BY <2>1, <2>2
<1>2. mc2 \in IntLedger
  BY <1>1, BatchInt
<1>3. sent \in SentType /\ sent.status = status /\ sent.last = f.sent.last
  BY <1>1 DEF SentType
<1>4. known \in Nat
  BY <1>1
<1>5. g = [f EXCEPT !.status = "incoming", !.mc = mc2, !.token = token,
                    !.wants = f.wants + new, !.sent = sent, !.remoteRelays = known]
  BY DEF TokenReceived, FriendType
<1> HIDE DEF mc2, sent, known, g
<1>6. /\ g \in FriendType /\ g.status = "incoming" /\ g.mc = mc2 /\ g.token = token
      /\ g.localTerms = f.localTerms /\ g.remoteTerms = f.remoteTerms
      /\ g.sent = sent /\ g.remoteRelays = known
  BY <1>1, <1>2, <1>3, <1>4, <1>5 DEF FriendType
<1> QED BY <1>3, <1>6 DEF mc2, known, g

\* A new token is received: its sender's ledger is mirrored again.
LEMMA ReceivedGiven ==
  ASSUME IInv, NEW p \in Side, HandleToken(p)
  PROVE  \E g, cmds, in :
           /\ g.status = "incoming"
           /\ Inv([friend EXCEPT ![p] = g], in, fresh + 0, Together)
           /\ Together => /\ Given(Peer(p), [friend EXCEPT ![p] = g], in)
                              /\ Given(Peer(p), friend, inbox)
           /\ CreateFriendMessages(p, g, cmds, in, online[p], 0)
<1> DEFINE m == Head(inbox[p])
           f == friend[p]
           q == Peer(p)
<1>1. /\ inbox[p] # <<>> /\ IsMove(m) /\ f.status = "outgoing"
      /\ IsNext(f, m.token)
  BY DEF HandleToken, ArrivedToken, Arrived, IsMove
<1>2. PICK new \in {0, 1} :
        CreateFriendMessages(p, TokenReceived(f, m.token, new),
                             {"try_send"} \cup WantsToken(m), Taken(p), online[p], 0)
  BY DEF HandleToken
<1>3. /\ Types(friend, inbox, fresh) /\ Resets(friend, inbox, fresh)
      /\ f \in FriendType /\ friend \in [Side -> FriendType] /\ fresh \in Nat /\ fresh >= 2
  BY StateTypes
<1>4. /\ Types(friend, Taken(p), fresh) /\ m \in ToSet(inbox[p])
      /\ \A r \in Side : ToSet(Taken(p)[r]) \subseteq ToSet(inbox[r])
      /\ Taken(p)[p] = Tail(inbox[p]) /\ Taken(p)[q] = inbox[q]
  BY <1>1, TakenKeeps DEF Inv
<1>5. m.token \in Tokens(friend, inbox) /\ m.token \in TokenType
  BY <1>1, <1>3, <1>4, TokensMember, TypedTokens
<1>6. PICK g : g = TokenReceived(f, m.token, new)
  OBVIOUS
<1>7. /\ g \in FriendType
      /\ g.status = "incoming" /\ g.mc = ProcessAll(m.token.ops, f.mc)
      /\ g.token = m.token
      /\ g.localTerms = f.localTerms /\ g.remoteTerms = f.remoteTerms
      /\ g.sent.last = f.sent.last
      /\ g.sent.status = IF f.sent.status = "transition" THEN "last" ELSE f.sent.status
      /\ g.remoteRelays = IF m.token.relays = NoRelays THEN f.remoteRelays
                                                       ELSE m.token.relays
  BY <1>3, <1>5, <1>6, ReceivedType
<1>8. PICK G : G = [friend EXCEPT ![p] = g]
  OBVIOUS
<1>9. PICK in : in = Taken(p)
  OBVIOUS
<1>10. G \in [Side -> FriendType] /\ G[p] = g /\ \A r \in Side : r # p => G[r] = friend[r]
  BY <1>3, <1>7, <1>8
<1>11. Types(G, in, fresh)
  BY <1>4, <1>7, <1>9, <1>10 DEF Types
<1> HIDE DEF m, f
<1>12. Resets(G, in, fresh)
  <2>1. \A r \in Side : /\ G[r].token \in Tokens(friend, inbox)
                        /\ G[r].localTerms = friend[r].localTerms
                        /\ G[r].remoteTerms = friend[r].remoteTerms
    BY <1>5, <1>7, <1>10, OwnTokens DEF f
  <2>2. Tokens(G, in) \subseteq Tokens(friend, inbox) /\ Terms(G, in) \subseteq Terms(friend, inbox)
    <3>1. FriendTerms(G, Terms(friend, inbox))
      BY <2>1, OwnTokens DEF FriendTerms
    <3>2. NoMessageAdded(inbox, in)
      BY <1>4, <1>9 DEF NoMessageAdded
    <3>3. FriendTokens(G, Tokens(friend, inbox))
      BY <2>1 DEF FriendTokens
    <3> QED BY <3>1, <3>2, <3>3, NoMessageTokens
  <2>3. \A r \in Side : G[r].status = "outgoing" =>
           friend[r].status = "outgoing" /\ G[r].token = friend[r].token /\ G[r].mc = friend[r].mc
    BY <1>7, <1>10
  <2> QED BY <1>3, <2>1, <2>2, <2>3, TypedTokens, ResetsToken
<1>13. ASSUME NEW r \in Side, Given(r, friend, inbox) PROVE Given(q, G, in) /\ r = q
  <2>1. r = q /\ UnderWay(friend[q], f, inbox[q], inbox[p]) /\ m.token = friend[q].token
    BY <1>1, <1>3, <1>4, <1>13, CalmToken DEF IsRepeated, f, m
  <2>2. q \in Side /\ Peer(q) = p /\ q # p
    BY Sides
  <2>3. /\ friend[q].status = "outgoing" /\ Sound(friend[q].mc)
        /\ \A e \in ToSet(inbox[p]) \cup ToSet(inbox[q]) : e.type # "inconsistency"
    BY <1>13, <2>1, <2>2 DEF Given
  <2>4. \A e \in ToSet(in[p]) : IsMove(e) => e.token = m.token
    <3>1. InOrder(inbox[p], m.token) /\ IsQueue(inbox[p])
      BY <1>3, <2>1 DEF UnderWay, Types
    <3> QED BY <1>1, <1>4, <1>9, <3>1, LessTail DEF m
  <2>5. \A e \in ToSet(in[q]) : IsMove(e) => e.token.new = m.token.old
    BY <1>1, <1>4, <1>9, <2>1 DEF UnderWay, IsNext
  <2>6. g.mc = Mirror(friend[q].mc)
    BY <1>7, <2>1 DEF UnderWay
  <2>7. /\ friend[q].sent.status # "never" => g.remoteRelays = friend[q].sent.last
        /\ g.sent.status # "never" =>
             g.sent.status = "last" /\ friend[q].remoteRelays = g.sent.last
    <3>1. f.sent.status \in {"never", "last", "transition"}
      BY <1>3 DEF FriendType, SentType, f
    <3> QED BY <1>7, <2>1, <3>1 DEF UnderWay
  <2>8. Held(friend[q], g, in[q], in[p])
    BY <1>7, <2>1, <2>4, <2>5, <2>6, <2>7 DEF Held
  <2>9. \A e \in ToSet(in[q]) \cup ToSet(in[p]) : e.type # "inconsistency"
    BY <1>4, <1>9, <2>2, <2>3
  <2> QED BY <1>10, <2>1, <2>2, <2>3, <2>8, <2>9 DEF Given
<1>14. Together => \E r \in Side : Given(r, friend, inbox)
  BY DEF IInv, Inv
<1>15. Inv(G, in, fresh + 0, Together)
  BY <1>3, <1>11, <1>12, <1>13, <1>14, Sides DEF Inv
<1>16. CreateFriendMessages(p, g, {"try_send"} \cup WantsToken(m), in, online[p], 0)
  BY <1>2, <1>6, <1>9
<1>17. Together => Given(q, G, in) /\ Given(q, friend, inbox)
  BY <1>13, <1>14
<1> QED BY <1>7, <1>8, <1>15, <1>16, <1>17

\* Then it may be sent on.
LEMMA TokenIInv ==
  ASSUME IInv, NEW p \in Side, HandleToken(p)
  PROVE  Inv(friend', inbox', fresh', Together /\ Together')
<1>1. PICK calm \in BOOLEAN : calm <=> Together /\ Together'
  OBVIOUS
<1>2. PICK g, cmds, in :
        /\ Inv([friend EXCEPT ![p] = g], in, fresh + 0, Together)
        /\ CreateFriendMessages(p, g, cmds, in, online[p], 0)
  BY ReceivedGiven
<1>3. Inv([friend EXCEPT ![p] = g], in, fresh + 0, calm)
  BY <1>1, <1>2 DEF Inv
<1>4. Inv(friend', inbox', fresh', calm)
  BY <1>1, <1>2, <1>3, StateTypes, MessagesKeep
<1> QED BY <1>1, <1>4 DEF Inv

-----------------------------------------------------------------------------
(***************************************************************************)
(* Inconsistent channels, resets and friends that come and go.             *)
(***************************************************************************)
OthersSame(F, G, p) == \A q \in Side : q # p => G[q] = F[q]

\* One friend has changed, and messages may have been lost: where tokens come from.
LEMMA ChangedTokens ==
  ASSUME NEW F, NEW in, NEW G, NEW in2, NoMessageAdded(in, in2), NEW p \in Side,
         OthersSame(F, G, p), NEW t \in Tokens(G, in2)
  PROVE  t \in Tokens(F, in) \/ t = G[p].token
<1>1. CASE \E q \in Side : t = G[q].token
  BY <1>1, OwnTokens DEF OthersSame
<1>2. CASE \E q \in Side : \E e \in ToSet(in2[q]) : IsMove(e) /\ t = e.token
  BY <1>2, OwnTokens DEF NoMessageAdded
<1> QED BY <1>1, <1>2, TokensMember

\* ... and where terms come from.
LEMMA ChangedTerms ==
  ASSUME NEW F, NEW in, NEW G, NEW in2, NoMessageAdded(in, in2), NEW p \in Side,
         OthersSame(F, G, p), NEW t \in Terms(G, in2), t \notin Terms(F, in)
  PROVE  t # NoTerms /\ (t = G[p].localTerms \/ t = G[p].remoteTerms)
<1>1. t # NoTerms
  BY TermsMember
<1>2. CASE \E q \in Side : t = G[q].localTerms \/ t = G[q].remoteTerms
  BY <1>1, <1>2, OwnTokens DEF OthersSame
<1>3. CASE \E q \in Side : \E e \in ToSet(in2[q]) : e.type = "inconsistency" /\ t = e.terms
  BY <1>1, <1>3, OwnTokens DEF NoMessageAdded
<1> QED BY <1>1, <1>2, <1>3, TermsMember

\* g has no terms of its own making, and no token but one that is known, the next
\* one or the one that friends begin with.
NoNewTerms(g, F, in, n, n2) ==
  /\ g.status = "inconsistent" => g.localTerms # NoTerms
  /\ \/ g.token \in Tokens(F, in)
     \/ g.token.new = n /\ n < n2 /\ g.token.old < n
     \/ g.token.old = 0 /\ g.token.new = 1
  /\ g.localTerms = NoTerms \/ g.localTerms \in Terms(F, in)
  /\ g.remoteTerms = NoTerms \/ g.remoteTerms \in Terms(F, in)
  /\ g.status = "outgoing" =>
       \A terms \in Terms(F, in) : g.token.old = terms.token => HasReset(g, terms)

\* Such a friend.
LEMMA ChangeKeeps ==
  ASSUME NEW F, NEW in, NEW n, Types(F, in, n), Resets(F, in, n),
         NEW p \in Side, NEW g \in FriendType,
         NEW in2, NoMessageAdded(in, in2), Types(F, in2, n),
         NEW n2 \in Nat, n <= n2,
         NoNewTerms(g, F, in, n, n2)
  PROVE  Inv([F EXCEPT ![p] = g], in2, n2, FALSE)
<1> USE DEF NoNewTerms
<1>1. PICK G : G = [F EXCEPT ![p] = g]
  OBVIOUS
<1>2. F \in [Side -> FriendType] /\ n \in Nat /\ n >= 2
  BY DEF Types
<1>3. G \in [Side -> FriendType] /\ G[p] = g /\ \A q \in Side : q # p => G[q] = F[q]
  BY <1>1, <1>2
<1>4. Types(G, in2, n2)
  BY <1>2, <1>3 DEF Types
<1>5. /\ \A t \in Tokens(G, in2) : t \in Tokens(F, in) \/ t = g.token
      /\ Terms(G, in2) \subseteq Terms(F, in)
  <2>1. OthersSame(F, G, p)
    BY <1>3 DEF OthersSame
  <2>2. ASSUME NEW t \in Tokens(G, in2) PROVE t \in Tokens(F, in) \/ t = g.token
    BY <1>3, <2>1, ChangedTokens
  <2>3. ASSUME NEW t \in Terms(G, in2), t \notin Terms(F, in) PROVE FALSE
    <3>1. t # NoTerms /\ (t = G[p].localTerms \/ t = G[p].remoteTerms)
      BY <2>1, <2>3, ChangedTerms
    <3> QED BY <1>3, <2>3, <3>1
  <2> QED BY <2>2, <2>3
<1>6. g.token.old \in Nat
  BY DEF FriendType, TokenType
<1>7. \A t \in Tokens(G, in2) :
           \/ t \in Tokens(F, in)
           \/ t.new = n /\ n < n2 /\ t.old \in Nat /\ t.old < n
           \/ t.old = 0 /\ t.new = 1
  BY <1>5, <1>6
<1>8. \A q \in Side : G[q].status = "outgoing" =>
        \/ F[q].status = "outgoing" /\ G[q].token = F[q].token /\ G[q].mc = F[q].mc
        \/ \A terms \in Terms(G, in2) :
             G[q].token.old = terms.token => HasReset(G[q], terms)
  BY <1>3, <1>5
<1>9. Resets(G, in2, n2)
  BY <1>2, <1>5, <1>7, <1>8, TypedTokens, ResetsToken
<1> QED BY <1>1, <1>4, <1>9 DEF Inv

\* A friend whose channel has become inconsistent.
LEMMA QuarrelKeeps ==
  ASSUME NEW F, NEW in, NEW n, Types(F, in, n), Resets(F, in, n),
         NEW p \in Side, NEW g \in FriendType,
         NEW in2, NoMessageAdded(in, in2), Types(F, in2, n),
         g.status = "inconsistent", g.token = F[p].token, g.localTerms.token = n,
         g.remoteTerms = NoTerms \/ g.remoteTerms \in Terms(F, in)
  PROVE  Inv([F EXCEPT ![p] = g], in2, n + 1, FALSE)
<1>1. PICK G : G = [F EXCEPT ![p] = g]
  OBVIOUS
<1>2. F \in [Side -> FriendType] /\ n \in Nat /\ n >= 2 /\ n + 1 \in Nat /\ n + 1 >= 2
  BY DEF Types
<1>3. G \in [Side -> FriendType] /\ G[p] = g /\ \A q \in Side : q # p => G[q] = F[q]
  BY <1>1, <1>2
<1>4. g.localTerms # NoTerms
  BY <1>2 DEF NoTerms
<1>5. Types(G, in2, n + 1)
  BY <1>2, <1>3, <1>4 DEF Types
<1>6. F[p].token \in Tokens(F, in)
  BY OwnTokens
<1>7. /\ Tokens(G, in2) \subseteq Tokens(F, in)
      /\ \A t \in Terms(G, in2) : t \in Terms(F, in) \/ t = g.localTerms
  <2>1. OthersSame(F, G, p)
    BY <1>3 DEF OthersSame
  <2>2. ASSUME NEW t \in Tokens(G, in2) PROVE t \in Tokens(F, in) \/ t = G[p].token
    BY <2>1, ChangedTokens
  <2>3. ASSUME NEW t \in Terms(G, in2), t \notin Terms(F, in)
        PROVE  t = g.localTerms
    <3>1. t # NoTerms /\ (t = G[p].localTerms \/ t = G[p].remoteTerms)
      BY <2>1, <2>3, ChangedTerms
    <3> QED BY <1>3, <2>3, <3>1
  <2> QED BY <1>3, <1>6, <2>2, <2>3
<1>8. \A q \in Side : G[q].token \in Tokens(F, in)
  BY <1>3, OwnTokens
<1>9. \A q \in Side : G[q].status = "outgoing" =>
        F[q].status = "outgoing" /\ G[q].token = F[q].token /\ G[q].mc = F[q].mc
  BY <1>3
<1>10. Resets(G, in2, n + 1)
  BY <1>2, <1>7, <1>8, <1>9, TypedTokens, ResetsTerms
<1> QED BY <1>1, <1>5, <1>10 DEF Inv

\* While an event is handled.
LEMMA EventFacts ==
  ASSUME IInv, NEW p \in Side, inbox[p] # <<>>
  PROVE  /\ Types(friend, inbox, fresh) /\ Resets(friend, inbox, fresh)
         /\ Types(friend, Taken(p), fresh) /\ NoMessageAdded(inbox, Taken(p))
         /\ friend[p] \in FriendType
         /\ fresh \in Nat /\ fresh + 1 \in Nat
         /\ Head(inbox[p]) \in ToSet(inbox[p])
         /\ Together =>
              /\ friend[p].status \in {"incoming", "outgoing"}
              /\ Head(inbox[p]).type # "inconsistency"
<1>1. /\ Types(friend, inbox, fresh) /\ Resets(friend, inbox, fresh)
      /\ friend[p] \in FriendType /\ fresh \in Nat /\ fresh + 1 \in Nat
  BY StateTypes
<1>2. /\ Types(friend, Taken(p), fresh) /\ Head(inbox[p]) \in ToSet(inbox[p])
      /\ NoMessageAdded(inbox, Taken(p))
  BY TakenKeeps DEF Inv, NoMessageAdded
<1>3. ASSUME Together
      PROVE  /\ friend[p].status \in {"incoming", "outgoing"}
             /\ Head(inbox[p]).type # "inconsistency"
  <2>1. PICK q \in Side : Given(q, friend, inbox)
    BY <1>3 DEF IInv, Inv
  <2> QED BY <1>1, <1>2, <2>1, CalmToken
<1> QED BY <1>1, <1>2, <1>3

\* The terms a side makes.
LEMMA GenResetTermsType ==
  ASSUME NEW f \in FriendType, fresh \in Nat
  PROVE  GenResetTerms(f) \in TermsType /\ GenResetTerms(f).token = fresh
<1>1. f.token.ic + 1 \in Nat /\ BalanceForReset(f.mc) \in Int
  BY DEF FriendType, TokenType, IntLedger, BalanceForReset
<1> QED BY <1>1 DEF GenResetTerms, TermsType

\* A token that is not accepted: only when the friends are no longer together.
LEMMA TokenErrorRemoved ==
  ASSUME IInv, NEW p \in Side, HandleTokenError(p)
  PROVE  ~Together
<1> DEFINE m == Head(inbox[p])
           f == friend[p]
<1>1. /\ inbox[p] # <<>> /\ IsMove(m)
      /\ \/ f.status = "incoming" /\ m.token # f.token
         \/ /\ f.status = "outgoing"
            /\ IF IsNext(f, m.token) THEN ~IsAcceptable(f, m.token)
                                     ELSE ~IsRepeated(f, m.token)
  BY DEF HandleTokenError, ArrivedToken, Arrived, IsMove
<1> SUFFICES ASSUME Together PROVE FALSE
  OBVIOUS
<1>2. PICK q \in Side : Given(q, friend, inbox)
  BY DEF IInv, Inv
<1>3. \/ f.status = "incoming" /\ m.token = f.token
      \/ f.status = "outgoing" /\ IsRepeated(f, m.token)
      \/ /\ f.status = "outgoing" /\ q = Peer(p)
         /\ UnderWay(friend[q], f, inbox[q], inbox[p]) /\ m.token = friend[q].token
  BY <1>1, <1>2, EventFacts, CalmToken
<1> QED BY <1>1, <1>3 DEF UnderWay, IsRepeated

\* Such a token.
LEMMA TokenErrorIInv ==
  ASSUME IInv, NEW p \in Side, HandleTokenError(p)
  PROVE  Inv(friend', inbox', fresh', Together)
<1> DEFINE m == Head(inbox[p])
           f == friend[p]
<1>1. /\ inbox[p] # <<>> /\ IsMove(m)
      /\ \/ f.status = "incoming" /\ m.token # f.token
         \/ /\ f.status = "outgoing"
            /\ IF IsNext(f, m.token) THEN ~IsAcceptable(f, m.token)
                                     ELSE ~IsRepeated(f, m.token)
  BY DEF HandleTokenError, ArrivedToken, Arrived, IsMove
<1>2. PICK h \in RequestsCanceled(f) :
        CreateFriendMessages(p, [h EXCEPT !.status = "inconsistent",
                                          !.localTerms = GenResetTerms(f),
                                          !.remoteTerms = NoTerms],
                             {"try_send"}, Taken(p), online[p], 1)
  BY DEF HandleTokenError
<1>3. PICK g : g = [h EXCEPT !.status = "inconsistent", !.localTerms = GenResetTerms(f),
                             !.remoteTerms = NoTerms]
  OBVIOUS
<1>4. ~Together
  BY TokenErrorRemoved
<1>5. NoTerms \in TermsType
  BY DEF NoTerms, TermsType
<1>6. /\ g \in FriendType /\ g.status = "inconsistent" /\ g.token = f.token
      /\ g.localTerms.token = fresh /\ g.remoteTerms = NoTerms
  <2>1. h \in FriendType /\ h.token = f.token
    BY <1>1, EventFacts, CanceledType
  <2>2. GenResetTerms(f) \in TermsType /\ GenResetTerms(f).token = fresh
    BY <1>1, EventFacts, GenResetTermsType
  <2> QED BY <1>3, <1>5, <2>1, <2>2 DEF FriendType
<1>7. Inv([friend EXCEPT ![p] = g], Taken(p), fresh + 1, FALSE)
  BY <1>1, <1>6, EventFacts, QuarrelKeeps
<1>8. Inv(friend', inbox', fresh', FALSE)
  BY <1>1, <1>2, <1>3, <1>6, <1>7, EventFacts, StateTypes, MessagesKeep
<1> QED BY <1>4, <1>8 DEF Inv

\* A friend after a reset.
LEMMA AfterResetType ==
  ASSUME NEW f \in FriendType, NEW status \in {"incoming", "outgoing"}, NEW b \in Int,
         NEW token \in TokenType, NEW g \in AfterReset(f, status, b, token)
  PROVE  /\ g \in FriendType /\ g.status = status /\ g.token = token
         /\ g.mc = NewLedger(b) /\ g.localTerms = NoTerms /\ g.remoteTerms = NoTerms
<1>1. f.wants \in Nat /\ f.wants + 1 \in Nat
  BY DEF FriendType
<1>2. PICK w \in {f.wants, f.wants + 1} :
        g = [f EXCEPT !.status = status, !.mc = NewLedger(b), !.token = token,
                      !.localTerms = NoTerms, !.remoteTerms = NoTerms, !.wants = w]
  BY DEF AfterReset
<1>3. NewLedger(b) \in IntLedger /\ NoTerms \in TermsType /\ w \in Nat
  BY <1>1, NewLedgerInt DEF NoTerms, TermsType
<1> HIDE DEF NewLedger, NoTerms
<1> QED BY <1>2, <1>3 DEF FriendType

\* A reset token is received.
LEMMA ResetIInv ==
  ASSUME IInv, NEW p \in Side, HandleReset(p)
  PROVE  Inv(friend', inbox', fresh', Together)
<1> DEFINE m == Head(inbox[p])
           f == friend[p]
<1>1. inbox[p] # <<>> /\ IsMove(m) /\ f.status = "inconsistent"
  BY DEF HandleReset, ArrivedToken, Arrived, IsMove
<1>2. PICK g \in AfterReset(f, "incoming", f.localTerms.balance, m.token) :
        CreateFriendMessages(p, g, {"try_send"} \cup WantsToken(m), Taken(p), online[p], 0)
  BY DEF HandleReset
<1>3. ~Together
  BY <1>1, EventFacts
<1>4. m.token \in Tokens(friend, inbox) /\ m.token \in TokenType
  BY <1>1, EventFacts, OwnTokens, TypedTokens
<1>5. f.localTerms.balance \in Int /\ f \in FriendType
  BY <1>1, EventFacts DEF FriendType, TermsType
<1>6. /\ g \in FriendType /\ g.status = "incoming" /\ g.token = m.token
      /\ g.localTerms = NoTerms /\ g.remoteTerms = NoTerms
  BY <1>4, <1>5, AfterResetType
<1>7. Inv([friend EXCEPT ![p] = g], Taken(p), fresh + 0, FALSE)
  <2>1. NoNewTerms(g, friend, inbox, fresh, fresh)
    BY <1>4, <1>6 DEF NoNewTerms
  <2>2. fresh \in Nat /\ fresh <= fresh /\ fresh + 0 = fresh
    BY <1>1, EventFacts
  <2> QED BY <1>1, <1>6, <2>1, <2>2, EventFacts, ChangeKeeps
<1>8. Inv(friend', inbox', fresh', FALSE)
  BY <1>1, <1>2, <1>7, EventFacts, StateTypes, MessagesKeep
<1> QED BY <1>3, <1>8 DEF Inv

\* The peer's reset terms are received.
LEMMA InconsistencyIInv ==
  ASSUME IInv, NEW p \in Side, HandleInconsistency(p)
  PROVE  Inv(friend', inbox', fresh', Together)
<1> DEFINE m == Head(inbox[p])
           f == friend[p]
<1>1. inbox[p] # <<>> /\ m.type = "inconsistency"
  BY DEF HandleInconsistency, Arrived
<1>2. ~Together
  BY <1>1, EventFacts
<1>3. m.terms \in Terms(friend, inbox) /\ m.terms # NoTerms /\ m.terms \in TermsType
  <2>1. IsEvent(m)
    BY <1>1, EventFacts, StateTypes
  <2> QED BY <1>1, <2>1, EventFacts, OwnTokens DEF IsEvent
<1>4. CASE f.status = "incoming" /\ Quiet(p, f, Taken(p)) /\ fresh' = fresh
  BY <1>1, <1>4, TakenKeeps, StateTypes DEF Quiet
<1>5. CASE /\ f.status = "outgoing"
           /\ \E h \in RequestsCanceled(f) :
                CreateFriendMessages(p, [h EXCEPT !.status = "inconsistent",
                                                  !.localTerms = GenResetTerms(f),
                                                  !.remoteTerms = m.terms],
                                     {"try_send"}, Taken(p), online[p], 1)
  <2>1. PICK h \in RequestsCanceled(f) :
          CreateFriendMessages(p, [h EXCEPT !.status = "inconsistent",
                                            !.localTerms = GenResetTerms(f),
                                            !.remoteTerms = m.terms],
                               {"try_send"}, Taken(p), online[p], 1)
    BY <1>5
  <2>2. PICK g : g = [h EXCEPT !.status = "inconsistent", !.localTerms = GenResetTerms(f),
                               !.remoteTerms = m.terms]
    OBVIOUS
  <2>3. h \in FriendType /\ h.token = f.token
    BY <1>1, EventFacts, CanceledType
  <2>4. GenResetTerms(f) \in TermsType /\ GenResetTerms(f).token = fresh
    BY <1>1, EventFacts, GenResetTermsType
  <2>5. /\ g \in FriendType /\ g.status = "inconsistent" /\ g.token = f.token
        /\ g.localTerms.token = fresh /\ g.remoteTerms = m.terms
    BY <1>3, <2>2, <2>3, <2>4 DEF FriendType
  <2>6. Inv([friend EXCEPT ![p] = g], Taken(p), fresh + 1, FALSE)
    BY <1>1, <1>3, <2>5, EventFacts, QuarrelKeeps
  <2>7. Inv(friend', inbox', fresh', FALSE)
    BY <1>1, <2>1, <2>2, <2>5, <2>6, EventFacts, StateTypes, MessagesKeep
  <2> QED BY <1>2, <2>7 DEF Inv
<1>6. CASE /\ f.status = "inconsistent"
           /\ \E h \in RequestsCanceled(f) :
                Quiet(p, [h EXCEPT !.remoteTerms = m.terms], Taken(p))
           /\ fresh' = fresh
  <2>1. PICK h \in RequestsCanceled(f) : Quiet(p, [h EXCEPT !.remoteTerms = m.terms], Taken(p))
    BY <1>6
  <2>2. PICK g : g = [h EXCEPT !.remoteTerms = m.terms]
    OBVIOUS
  <2>3. /\ h \in FriendType /\ h.token = f.token /\ h.status = f.status
        /\ h.localTerms = f.localTerms
    BY <1>1, EventFacts, CanceledType
  <2>4. /\ g \in FriendType /\ g.status = "inconsistent" /\ g.token = f.token
        /\ g.localTerms = f.localTerms /\ g.remoteTerms = m.terms
    BY <1>3, <1>6, <2>2, <2>3 DEF FriendType
  <2>5. f.localTerms # NoTerms
    BY <1>1, <1>6, EventFacts DEF Types
  <2>6. f.token \in Tokens(friend, inbox) /\ f.localTerms \in Terms(friend, inbox)
    BY <2>5, OwnTokens
  <2>7. Inv([friend EXCEPT ![p] = g], Taken(p), fresh, FALSE)
    <3>1. NoNewTerms(g, friend, inbox, fresh, fresh)
      BY <1>3, <2>4, <2>5, <2>6 DEF NoNewTerms
    <3>2. fresh \in Nat /\ fresh <= fresh
      BY <1>1, EventFacts
    <3> QED BY <1>1, <2>4, <3>1, <3>2, EventFacts, ChangeKeeps
  <2>8. Inv([friend EXCEPT ![p] = g], Taken(p), fresh, Together)
    BY <1>2, <2>7 DEF Inv
  <2> QED BY <1>6, <2>1, <2>2, <2>8 DEF Quiet
<1> QED BY <1>4, <1>5, <1>6 DEF HandleInconsistency

\* The user accepts the peer's terms.
LEMMA ResetFriendChannelIInv ==
  ASSUME IInv, NEW p \in Side, ResetFriendChannel(p)
  PROVE  Inv(friend', inbox', fresh', Together)
<1> DEFINE f == friend[p]
           terms == f.remoteTerms
           token == ResetToken(f)
<1>1. f.status = "inconsistent" /\ terms # NoTerms
  BY DEF ResetFriendChannel
<1>2. PICK g \in AfterReset(f, "outgoing", -terms.balance, token) :
        CreateFriendMessages(p, g, {"local_reset"}, inbox, TRUE, 1)
  BY DEF ResetFriendChannel
<1>3. /\ Types(friend, inbox, fresh) /\ Resets(friend, inbox, fresh) /\ f \in FriendType
      /\ fresh \in Nat /\ fresh >= 2 /\ DOMAIN friend = Side
  BY StateTypes
<1>4. ~Together
  BY <1>1, <1>3, CalmToken DEF IInv, Inv
<1>5. terms \in TermsType /\ terms \in Terms(friend, inbox)
  BY <1>1, <1>3, OwnTokens DEF FriendType
<1>6. terms.token \in Nat /\ terms.ic \in Nat /\ terms.balance \in Int /\ -terms.balance \in Int
  BY <1>5 DEF TermsType
<1>7. /\ token.old = terms.token /\ token.new = fresh /\ token.ic = terms.ic /\ token.ctr = 0
      /\ token.ops = <<>> /\ token.relays = NoRelays /\ token.balance = -terms.balance
      /\ token.localDebt = 0 /\ token.remoteDebt = 0
  BY DEF ResetToken
<1>8. token \in TokenType
  BY <1>3, <1>6 DEF ResetToken, TokenType
<1> HIDE DEF f, terms, token
<1>9. /\ g \in FriendType /\ g.status = "outgoing" /\ g.token = token
      /\ g.mc = NewLedger(-terms.balance) /\ g.localTerms = NoTerms /\ g.remoteTerms = NoTerms
  BY <1>3, <1>6, <1>8, AfterResetType
<1>10. terms.token < fresh
  BY <1>3, <1>5 DEF Resets
<1>11. \A other \in Terms(friend, inbox) : token.old = other.token => HasReset(g, other)
  <2> SUFFICES ASSUME NEW other \in Terms(friend, inbox), token.old = other.token
               PROVE  HasReset(g, other)
    OBVIOUS
  <2>1. other = terms
    BY <1>3, <1>5, <1>7 DEF Resets
  <2> QED BY <1>7, <1>9, <2>1 DEF HasReset
<1>12. NoNewTerms(g, friend, inbox, fresh, fresh + 1)
  BY <1>3, <1>7, <1>9, <1>10, <1>11 DEF NoNewTerms
<1>13. NoMessageAdded(inbox, inbox) /\ fresh + 1 \in Nat /\ fresh <= fresh + 1
  BY <1>3 DEF NoMessageAdded
<1>14. Inv([friend EXCEPT ![p] = g], inbox, fresh + 1, FALSE)
  BY <1>3, <1>9, <1>12, <1>13, ChangeKeeps
<1>15. Inv(friend', inbox', fresh', FALSE)
  BY <1>2, <1>3, <1>9, <1>14, MessagesKeep
<1> QED BY <1>4, <1>15 DEF Inv

\* The user has work for the friend, or changes the node's relays; or something is
\* put aside.
LEMMA CommandIInv ==
  ASSUME IInv, NEW p \in Side, Work(p) \/ PutAside(p) \/ ChangeRelays(p)
  PROVE  Inv(friend', inbox', fresh', Together /\ Together')
<1>1. friend[p] \in FriendType /\ friend[p].wants \in Nat /\ friend[p].relays \in Nat
  BY StateTypes DEF FriendType
<1>2. CASE Work(p) \/ ChangeRelays(p)
  <2>1. PICK g, cmds :
          /\ g \in {[friend[p] EXCEPT !.wants = @ + 1, !.aside = FALSE],
                    [friend[p] EXCEPT !.relays = @ + 1, !.aside = FALSE]}
          /\ CreateFriendMessages(p, g, cmds, inbox, online[p], 0)
    BY <1>2 DEF Work, ChangeRelays
  <2>2. /\ g \in FriendType
        /\ g.status = friend[p].status /\ g.mc = friend[p].mc /\ g.token = friend[p].token
        /\ g.localTerms = friend[p].localTerms /\ g.remoteTerms = friend[p].remoteTerms
        /\ g.sent = friend[p].sent /\ g.remoteRelays = friend[p].remoteRelays
    BY <1>1, <2>1, WantsChanged
  <2> QED BY <2>1, <2>2, AnswerChanged DEF IInv
<1>3. CASE PutAside(p)
  <2>1. PICK g : g = [friend[p] EXCEPT !.wants = @ + 1, !.aside = @ \/ friend[p].wants = 0]
    OBVIOUS
  <2>2. /\ g \in FriendType
        /\ g.status = friend[p].status /\ g.mc = friend[p].mc /\ g.token = friend[p].token
        /\ g.localTerms = friend[p].localTerms /\ g.remoteTerms = friend[p].remoteTerms
        /\ g.sent = friend[p].sent /\ g.remoteRelays = friend[p].remoteRelays
    BY <1>1, <2>1, WantsChanged
  <2>3. friend' = [friend EXCEPT ![p] = g] /\ inbox' = inbox /\ fresh' = fresh
    BY <1>3, <2>1 DEF PutAside, Quiet
  <2>4. Inv([friend EXCEPT ![p] = g], inbox, fresh, Together)
    BY <2>2, FriendKeeps DEF IInv
  <2> QED BY <2>3, <2>4 DEF Inv
<1> QED BY <1>2, <1>3

-----------------------------------------------------------------------------
(***************************************************************************)
(* Connections, restarts and unfriending.                                  *)
(***************************************************************************)
\* An inbox after the connection broke.
LEMMA BrokenLess ==
  ASSUME IInv, NEW p \in Side, NEW s \in BrokenInbox(p)
  PROVE  Less(s, inbox[p])
<1>1. IsQueue(inbox[p])
  BY StateTypes
<1>2. Len(inbox[p]) \in Nat
  BY <1>1, QueuePlaces
<1>3. CASE link
  <2>1. PICK u \in Remains(inbox[p]) : s = Append(u, LivenessEvent("offline"))
    BY <1>3 DEF BrokenInbox
  <2>2. PICK k \in 0 .. Len(inbox[p]) : u = SubSeq(inbox[p], 1, k)
    BY DEF Remains
  <2>3. Less(u, inbox[p])
    BY <1>1, <2>2, LessPrefix
  <2> QED BY <2>1, <2>3, LessLive
<1>4. CASE ~link
  BY <1>1, <1>4, LessSame DEF BrokenInbox
<1> QED BY <1>3, <1>4

\* The two inboxes after a step of the Channeler.
LEMMA InboxesKeep ==
  ASSUME IInv, NEW in, DOMAIN in = Side, in = [q \in Side |-> in[q]],
         \A p \in Side : Less(in[p], inbox[p])
  PROVE  Inv(friend, in, fresh, Together)
BY LessKeeps DEF IInv

\* Connect, Disconnect, and the end of a process.
LEMMA LinkIInv ==
  ASSUME IInv, Connect \/ Disconnect \/ \E p \in Side : Crash(p)
  PROVE  Inv(friend', inbox', fresh', Together)
<1>0. \A p \in Side : IsQueue(inbox[p])
  BY StateTypes
<1>1. CASE Connect
  <2>1. /\ inbox' = [p \in Side |-> Append(inbox[p], LivenessEvent("online"))]
        /\ friend' = friend /\ fresh' = fresh
    BY <1>1 DEF Connect
  <2>2. PICK in2 : in2 = [p \in Side |-> Append(inbox[p], LivenessEvent("online"))]
    OBVIOUS
  <2>3. \A p \in Side : Less(in2[p], inbox[p])
    BY <1>0, <2>2, LessSame, LessLive
  <2>4. Inv(friend, in2, fresh, Together)
    BY <2>2, <2>3, InboxesKeep
  <2> QED BY <2>1, <2>2, <2>4
<1>2. CASE Disconnect
  <2>1. PICK s \in BrokenInbox("Low"), t \in BrokenInbox("High") :
          inbox' = [p \in Side |-> IF p = "Low" THEN s ELSE t]
    BY <1>2 DEF Disconnect
  <2>2. friend' = friend /\ fresh' = fresh
    BY <1>2 DEF Disconnect
  <2>3. PICK in2 : in2 = [p \in Side |-> IF p = "Low" THEN s ELSE t]
    OBVIOUS
  <2>4. "Low" \in Side /\ "High" \in Side /\ \A p \in Side : p = "Low" \/ p = "High"
    BY DEF Side
  <2>5. Less(s, inbox["Low"]) /\ Less(t, inbox["High"])
    BY <2>1, <2>4, BrokenLess
  <2>6. \A p \in Side : Less(in2[p], inbox[p])
    BY <2>3, <2>4, <2>5
  <2>7. Inv(friend, in2, fresh, Together)
    BY <2>3, <2>6, InboxesKeep
  <2> QED BY <2>1, <2>2, <2>3, <2>7
<1>3. CASE \E p \in Side : Crash(p)
  <2>1. PICK p \in Side : Crash(p)
    BY <1>3
  <2>2. PICK s \in BrokenInbox(Peer(p)) :
          inbox' = [q \in Side |-> IF q = p THEN <<>> ELSE s]
    BY <2>1 DEF Crash
  <2>3. friend' = friend /\ fresh' = fresh
    BY <2>1 DEF Crash
  <2>4. PICK in2 : in2 = [q \in Side |-> IF q = p THEN <<>> ELSE s]
    OBVIOUS
  <2>5. Less(s, inbox[Peer(p)]) /\ Less(<<>>, inbox[p])
    BY <1>0, <2>2, Sides, BrokenLess, LessSame
  <2>6. \A q \in Side : Less(in2[q], inbox[q])
    BY <2>4, <2>5, Sides
  <2>7. Inv(friend, in2, fresh, Together)
    BY <2>4, <2>6, InboxesKeep
  <2> QED BY <2>2, <2>3, <2>4, <2>7
<1> QED BY <1>1, <1>2, <1>3

\* Friends that are new.
LEMMA NewFriendType ==
  ASSUME NEW p, NEW b \in Int, NEW own \in Nat, NEW known \in Nat
  PROVE  LET f == NewFriend(p, b, own, known)
         IN  /\ f \in FriendType
             /\ f.status = IF p = "Low" THEN "outgoing" ELSE "incoming"
             /\ f.mc = NewLedger(IF p = "Low" THEN b ELSE -b)
             /\ f.token = InitialMoveToken(b) /\ f.token.old = 0 /\ f.token.new = 1
             /\ f.localTerms = NoTerms /\ f.remoteTerms = NoTerms
             /\ f.sent.status = "never"
<1> DEFINE mc == NewLedger(IF p = "Low" THEN b ELSE -b)
           token == InitialMoveToken(b)
           sent == [status |-> "never", last |-> 0, prev |-> 0]
<1>1. PICK f : f = NewFriend(p, b, own, known)
  OBVIOUS
<1>2. mc \in IntLedger
  BY NewLedgerInt
<1>3. token \in TokenType /\ token.old = 0 /\ token.new = 1
  BY DEF InitialMoveToken, TokenType, NoRelays
<1>4. NoTerms \in TermsType /\ sent \in SentType
  BY DEF NoTerms, TermsType, SentType
<1>5. f = [status |-> IF p = "Low" THEN "outgoing" ELSE "incoming", mc |-> mc, token |-> token,
           localTerms |-> NoTerms, remoteTerms |-> NoTerms, wants |-> 0, aside |-> FALSE, sent |-> sent,
           relays |-> own, remoteRelays |-> known]
  BY <1>1 DEF NewFriend
<1> HIDE DEF mc, token, NoTerms
<1>6. f \in FriendType
  BY <1>2, <1>3, <1>4, <1>5 DEF FriendType
<1>7. /\ f.status = IF p = "Low" THEN "outgoing" ELSE "incoming"
      /\ f.mc = mc /\ f.token = token /\ f.localTerms = NoTerms /\ f.remoteTerms = NoTerms
      /\ f.sent.status = "never"
  BY <1>5
<1> QED BY <1>1, <1>3, <1>6, <1>7 DEF mc, token

\* A friend is added.
LEMMA AddFriendIInv ==
  ASSUME IInv, NEW p \in Side, AddFriend(p)
  PROVE  Inv(friend', inbox', fresh', Together)
<1>1. PICK b \in {0, InitialBalance} :
        friend' = [friend EXCEPT
                     ![p] = NewFriend(p, b, friend[p].relays, friend[Peer(p)].relays)]
  BY DEF AddFriend
<1>2. /\ Types(friend, inbox, fresh) /\ Resets(friend, inbox, fresh)
      /\ \A q \in Side : friend[q] \in FriendType
      /\ fresh \in Nat /\ fresh <= fresh
  BY StateTypes
<1>3. ~Together
  BY <1>2, CalmToken DEF IInv, Inv, AddFriend
<1>4. b \in Int /\ friend[p].relays \in Nat /\ friend[Peer(p)].relays \in Nat
  BY <1>2, Sides, BalanceAssumption, MaxDebtAssumption DEF FriendType
<1>5. PICK g : g = NewFriend(p, b, friend[p].relays, friend[Peer(p)].relays)
  OBVIOUS
<1>6. /\ g \in FriendType /\ g.status \in {"incoming", "outgoing"}
      /\ g.token.old = 0 /\ g.token.new = 1
      /\ g.localTerms = NoTerms /\ g.remoteTerms = NoTerms
  BY <1>4, <1>5, NewFriendType
<1>7. \A terms \in Terms(friend, inbox) : terms.token # 0
  BY <1>2 DEF Resets
<1>8. NoNewTerms(g, friend, inbox, fresh, fresh) /\ NoMessageAdded(inbox, inbox)
  BY <1>6, <1>7 DEF NoNewTerms, NoMessageAdded
<1>9. Inv([friend EXCEPT ![p] = g], inbox, fresh, FALSE)
  BY <1>2, <1>6, <1>8, ChangeKeeps
<1>10. inbox' = inbox /\ fresh' = fresh /\ friend' = [friend EXCEPT ![p] = g]
  BY <1>1, <1>5 DEF AddFriend
<1> QED BY <1>3, <1>9, <1>10 DEF Inv

\* It is remembered for good that a friend was removed.
LEMMA RemovedForGood ==
  ASSUME NEW p \in Side, RemoveFriend(p), friend[p].status # "inconsistent"
  PROVE  ~Together'
<1>1. parted' = IF Together THEN [q \in Side |-> EffectiveLedger(q)] ELSE parted
  BY DEF RemoveFriend
<1> QED BY <1>1, PartedSet DEF Together

\* A friend is removed, and the line ends.
LEMMA RemoveFriendIInv ==
  ASSUME IInv, NEW p \in Side, RemoveFriend(p)
  PROVE  Inv(friend', inbox', fresh', Together')
<1>1. CASE Crash(p) /\ UNCHANGED parted
  BY <1>1, LinkIInv DEF Together
<1>2. CASE /\ friend' = [friend EXCEPT ![p] = NoFriend(@.relays)]
           /\ \E s \in BrokenInbox("Low"), t \in BrokenInbox("High") :
                inbox' = [q \in Side |-> IF q = "Low" THEN s ELSE t]
           /\ parted' = IF Together THEN [q \in Side |-> EffectiveLedger(q)] ELSE parted
           /\ UNCHANGED fresh
  <2>1. PICK s \in BrokenInbox("Low"), t \in BrokenInbox("High") :
          inbox' = [q \in Side |-> IF q = "Low" THEN s ELSE t]
    BY <1>2
  <2>2. PICK in2 : in2 = [q \in Side |-> IF q = "Low" THEN s ELSE t]
    OBVIOUS
  <2>3. "Low" \in Side /\ "High" \in Side /\ \A q \in Side : q = "Low" \/ q = "High"
    BY DEF Side
  <2>4. Less(s, inbox["Low"]) /\ Less(t, inbox["High"])
    BY <2>1, <2>3, BrokenLess
  <2>5. \A q \in Side : Less(in2[q], inbox[q])
    BY <2>2, <2>3, <2>4
  <2>6. Types(friend, in2, fresh) /\ Resets(friend, in2, fresh)
    BY <2>2, <2>5, InboxesKeep DEF Inv
  <2>7. friend[p] \in FriendType /\ friend[p].relays \in Nat /\ fresh \in Nat /\ fresh <= fresh
    BY StateTypes DEF FriendType
  <2>8. PICK g : g = NoFriend(friend[p].relays)
    OBVIOUS
  <2>9. PICK h : h = NewFriend("Low", 0, friend[p].relays, 0)
    OBVIOUS
  <2>10. /\ h \in FriendType /\ h.token.old = 0 /\ h.token.new = 1
         /\ h.localTerms = NoTerms /\ h.remoteTerms = NoTerms
    BY <2>7, <2>9, NewFriendType
  <2>11. g = [h EXCEPT !.status = "none"]
    BY <2>8, <2>9 DEF NoFriend
  <2>12. /\ g \in FriendType /\ g.status = "none" /\ g.token.old = 0 /\ g.token.new = 1
         /\ g.localTerms = NoTerms /\ g.remoteTerms = NoTerms
    BY <2>10, <2>11 DEF FriendType
  <2>13. NoNewTerms(g, friend, in2, fresh, fresh) /\ NoMessageAdded(in2, in2)
    BY <2>12 DEF NoNewTerms, NoMessageAdded
  <2>14. Inv([friend EXCEPT ![p] = g], in2, fresh, FALSE)
    BY <2>6, <2>7, <2>12, <2>13, ChangeKeeps
  <2>15. parted' # <<>>
    BY <1>2, PartedSet DEF Together
  <2>16. Inv([friend EXCEPT ![p] = g], in2, fresh, Together')
    BY <2>14, <2>15 DEF Inv, Together
  <2>17. friend' = [friend EXCEPT ![p] = g] /\ inbox' = in2 /\ fresh' = fresh
    BY <1>2, <2>1, <2>2, <2>8
  <2> QED BY <2>16, <2>17
<1> QED BY <1>1, <1>2 DEF RemoveFriend

-----------------------------------------------------------------------------
(***************************************************************************)
(* The invariant and what follows from it.                                 *)
(***************************************************************************)
\* Friends begin with the token at the high side.
LEMMA InitIInv == Init => IInv
<1> SUFFICES ASSUME Init PROVE IInv
  OBVIOUS
<1>1. /\ friend = [p \in Side |-> NewFriend(p, InitialBalance, 0, 0)]
      /\ inbox = [p \in Side |-> <<>>] /\ fresh = 2
  BY DEF Init
<1> DEFINE lo == friend["Low"]
           hi == friend["High"]
           b == InitialBalance
<1>2. "Low" \in Side /\ "High" \in Side /\ Peer("Low") = "High"
      /\ \A p \in Side : p = "Low" \/ p = "High"
  BY DEF Side, Peer
<1>3. b \in Int
  BY BalanceAssumption, MaxDebtAssumption
<1>4. \A p \in Side : /\ friend[p] = NewFriend(p, b, 0, 0)
                      /\ friend[p] \in FriendType
                      /\ friend[p].token.old = 0 /\ friend[p].token.new = 1
                      /\ friend[p].localTerms = NoTerms /\ friend[p].remoteTerms = NoTerms
                      /\ friend[p].status # "inconsistent"
  BY <1>1, <1>2, <1>3, NewFriendType
<1>5. /\ lo.status = "outgoing" /\ hi.status = "incoming" /\ lo.token = hi.token
      /\ lo.mc = NewLedger(b) /\ hi.mc = NewLedger(-b)
      /\ lo.sent.status = "never" /\ hi.sent.status = "never"
  BY <1>2, <1>3, <1>4, NewFriendType
<1>6. \A p \in Side : inbox[p] = <<>> /\ IsQueue(inbox[p]) /\ ToSet(inbox[p]) = {}
  BY <1>1, EmptyQueue
<1>7. Types(friend, inbox, fresh)
  BY <1>1, <1>4, <1>6 DEF Types
<1>8. \A t \in Tokens(friend, inbox) : t.old = 0 /\ t.new = 1
  BY <1>4, <1>6, TokensMember
<1>9. Terms(friend, inbox) = {}
  BY <1>4, <1>6, TermsMember
<1>10. Resets(friend, inbox, fresh)
  BY <1>1, <1>8, <1>9 DEF Resets
<1>11. Sound(lo.mc) /\ hi.mc = Mirror(lo.mc)
  BY <1>5, BalanceAssumption, NewLedgerSound
<1>12. Held(lo, hi, inbox["Low"], inbox["High"])
  BY <1>2, <1>5, <1>6, <1>11 DEF Held
<1>13. Given("Low", friend, inbox)
  BY <1>2, <1>5, <1>6, <1>11, <1>12 DEF Given
<1> QED BY <1>2, <1>7, <1>10, <1>13 DEF IInv, Inv

\* What is sent at the end of a handler parts the friends, or leaves parted alone.
LEMMA MessagesParted ==
  ASSUME NEW p, NEW f, NEW cmds, NEW in, NEW isOnline, NEW used,
         CreateFriendMessages(p, f, cmds, in, isOnline, used)
  PROVE  \/ parted' = parted
         \/ Together /\ parted' = [q \in Side |-> EffectiveLedger(q)]
<1>1. CASE f.status = "incoming" /\ SendIncoming(p, f, cmds, in)
  <2>1. PICK ops, rest : SendMoveToken(p, f, ops, RelaysToSend(f), rest, cmds, in)
    BY <1>1 DEF SendIncoming
  <2> QED BY <2>1 DEF SendMoveToken
<1>2. CASE UNCHANGED parted
  BY <1>2
<1> QED BY <1>1, <1>2 DEF CreateFriendMessages, SendFriend

\* The removal of a friend, or a pending identifier that is sent again, sets parted
\* to what is seen at that moment, and nothing changes it later.
LEMMA PartedChanges ==
  ASSUME Next
  PROVE  \/ parted' = parted
         \/ Together /\ parted' = [q \in Side |-> EffectiveLedger(q)]
<1> DEFINE Goal == \/ parted' = parted
                   \/ Together /\ parted' = [q \in Side |-> EffectiveLedger(q)]
<1>0. ASSUME NEW p \in Side, NEW f, NEW cmds, NEW in, NEW isOnline, NEW used,
             CreateFriendMessages(p, f, cmds, in, isOnline, used)
      PROVE  Goal
  BY <1>0, MessagesParted
<1> HIDE DEF Goal
<1>1. ASSUME NEW p \in Side, Handle(p) PROVE Goal
  <2>1. CASE HandleOnline(p)
    <3>1. CASE UNCHANGED parted
      BY <3>1 DEF Goal
    <3> QED BY <1>0, <2>1, <3>1 DEF HandleOnline
  <2>2. CASE HandleOffline(p) \/ HandleStranger(p)
    BY <2>2 DEF HandleOffline, HandleStranger, Goal
  <2>3. CASE HandleDuplicate(p) \/ HandleRepeated(p) \/ HandleNoReset(p)
    BY <1>0, <2>3 DEF HandleDuplicate, HandleRepeated, HandleNoReset
  <2>4. CASE HandleToken(p) \/ HandleTokenError(p) \/ HandleReset(p)
    BY <1>0, <2>4 DEF HandleToken, HandleTokenError, HandleReset
  <2>5. CASE HandleInconsistency(p)
    <3>1. CASE UNCHANGED parted
      BY <3>1 DEF Goal
    <3> QED BY <1>0, <2>5, <3>1 DEF HandleInconsistency
  <2> QED BY <1>1, <2>1, <2>2, <2>3, <2>4, <2>5 DEF Handle
<1>2. ASSUME NEW p \in Side, Work(p) \/ ChangeRelays(p) \/ ResetFriendChannel(p) PROVE Goal
  BY <1>0, <1>2 DEF Work, ChangeRelays, ResetFriendChannel
<1>3. ASSUME NEW p \in Side, PutAside(p) \/ Restart(p) \/ AddFriend(p) PROVE Goal
  BY <1>3 DEF PutAside, Restart, AddFriend, Goal
<1>4. ASSUME NEW p \in Side, RemoveFriend(p) PROVE Goal
  BY <1>4 DEF RemoveFriend, Goal
<1>5. ASSUME Connect \/ Disconnect PROVE Goal
  BY <1>5 DEF Connect, Disconnect, Goal
<1>6. Goal
  <2>1. ASSUME NEW p \in Side,
               \/ Handle(p) \/ Work(p) \/ PutAside(p) \/ ChangeRelays(p)
               \/ ResetFriendChannel(p) \/ Restart(p) \/ RemoveFriend(p) \/ AddFriend(p)
        PROVE  Goal
    BY <1>1, <1>2, <1>3, <1>4, <2>1
  <2> QED BY <1>5, <2>1 DEF Next
<1> QED BY <1>6 DEF Goal

\* Every step keeps the invariant.
LEMMA NextIInv == IInv /\ [Next]_vars => IInv'
<1> SUFFICES ASSUME IInv, [Next]_vars PROVE IInv'
  OBVIOUS
<1>p. Together' => Together
  <2>1. CASE Next
    BY <2>1, PartedChanges DEF Together
  <2>2. CASE UNCHANGED vars
    BY <2>2 DEF vars, Together
  <2> QED BY <2>1, <2>2
<1>0. ASSUME \/ Inv(friend', inbox', fresh', Together)
             \/ Inv(friend', inbox', fresh', Together /\ Together')
      PROVE  IInv'
  BY <1>0, <1>p DEF IInv, Inv
<1>1. ASSUME NEW p \in Side, Handle(p) PROVE IInv'
  <2>1. CASE HandleOnline(p)
    BY <1>0, <2>1, OnlineIInv
  <2>2. CASE HandleOffline(p)
    BY <1>0, <2>2, OfflineIInv
  <2>3. CASE HandleStranger(p)
    <3>1. inbox[p] # <<>> /\ inbox' = Taken(p) /\ UNCHANGED <<friend, fresh, parted>>
      BY <2>3 DEF HandleStranger, Arrived
    <3> QED BY <1>0, <3>1, TakenKeeps
  <2>4. CASE HandleDuplicate(p)
    BY <1>0, <2>4, AnswerKeeps DEF HandleDuplicate, ArrivedToken, Arrived
  <2>5. CASE HandleRepeated(p)
    BY <1>0, <2>5, AnswerKeeps DEF HandleRepeated, ArrivedToken, Arrived
  <2>6. CASE HandleToken(p)
    BY <1>0, <2>6, TokenIInv
  <2>7. CASE HandleTokenError(p)
    BY <1>0, <2>7, TokenErrorIInv
  <2>8. CASE HandleReset(p)
    BY <1>0, <2>8, ResetIInv
  <2>9. CASE HandleNoReset(p)
    BY <1>0, <2>9, AnswerKeeps DEF HandleNoReset, ArrivedToken, Arrived
  <2>10. CASE HandleInconsistency(p)
    BY <1>0, <2>10, InconsistencyIInv
  <2> QED BY <1>1, <2>1, <2>2, <2>3, <2>4, <2>5, <2>6, <2>7, <2>8, <2>9, <2>10 DEF Handle
<1>2. ASSUME NEW p \in Side, Work(p) \/ PutAside(p) \/ ChangeRelays(p) PROVE IInv'
  BY <1>0, <1>2, CommandIInv
<1>3. ASSUME NEW p \in Side, ResetFriendChannel(p) PROVE IInv'
  BY <1>0, <1>3, ResetFriendChannelIInv
<1>4. ASSUME NEW p \in Side, Restart(p) PROVE IInv'
  BY <1>0, <1>4, LinkIInv DEF Restart
<1>5. ASSUME NEW p \in Side, RemoveFriend(p) PROVE IInv'
  BY <1>5, RemoveFriendIInv DEF IInv
<1>6. ASSUME NEW p \in Side, AddFriend(p) PROVE IInv'
  BY <1>0, <1>6, AddFriendIInv
<1>7. CASE Connect \/ Disconnect
  BY <1>0, <1>7, LinkIInv
<1>8. CASE UNCHANGED vars
  BY <1>8 DEF vars, IInv, Together
<1> QED BY <1>1, <1>2, <1>3, <1>4, <1>5, <1>6, <1>7, <1>8 DEF Next

\* The inductive invariant holds throughout.
THEOREM TokenChannelInvariant == Spec => []IInv
<1>1. Init => IInv
  BY InitIInv
<1>2. IInv /\ [Next]_vars => IInv'
  BY NextIInv
<1> QED BY <1>1, <1>2, PTL DEF Spec

\* For batches of any length, and whatever is lost, repeated or overwritten: until a
\* friend is removed, or a request sent whose identifier is pending, there is one
\* token, and the side that gave it away is mirrored by its peer or will be.
THEOREM OneTokenAlways == Spec => []OneToken
<1>1. IInv => OneToken
  <2> SUFFICES ASSUME IInv, Together PROVE \E p \in Side : GaveToken(p)
    BY DEF OneToken
  <2>1. PICK p \in Side : Given(p, friend, inbox)
    BY DEF IInv, Inv
  <2>2. GaveToken(p)
    BY <2>1 DEF Given, Held, UnderWay, GaveToken
  <2> QED BY <2>2
<1> QED BY <1>1, TokenChannelInvariant, PTL

\* For any sequence of removals, restarts and resets: a reset token that matches the
\* peer's current terms is accepted, and the new ledgers agree.
THEOREM ResetsAreAccepted == Spec => []ResetIsAccepted
<1>1. IInv => ResetIsAccepted
  <2> SUFFICES ASSUME IInv, NEW p \in Side,
                      friend[p].status = "outgoing", friend[Peer(p)].status = "inconsistent",
                      friend[p].token.old = friend[Peer(p)].localTerms.token
               PROVE  /\ IsReset(friend[Peer(p)], friend[p].token)
                      /\ NewLedger(friend[Peer(p)].localTerms.balance) = Mirror(friend[p].mc)
    BY DEF ResetIsAccepted
  <2> DEFINE terms == friend[Peer(p)].localTerms
  <2>1. /\ Types(friend, inbox, fresh) /\ Resets(friend, inbox, fresh) /\ Peer(p) \in Side
    BY StateTypes, Sides
  <2>2. terms # NoTerms
    BY <2>1 DEF Types
  <2>3. terms \in Terms(friend, inbox)
    BY <2>1, <2>2, OwnTokens
  <2>4. HasReset(friend[p], terms)
    BY <2>1, <2>3 DEF Resets
  <2>5. terms.balance \in Int
    BY <2>1, <2>3, TypedTokens DEF TermsType
  <2>6. NewLedger(terms.balance) = Mirror(NewLedger(-terms.balance))
    BY <2>5, NewLedgerInt
  <2> QED BY <2>4, <2>6 DEF HasReset, IsReset
<1> QED BY <1>1, TokenChannelInvariant, PTL

\* Until a friend is removed or a pending identifier sent again: the side that holds
\* the token knows that its peer has the relays it sent last, and during a transition
\* the peer has these or those before.
THEOREM RelaysAreKnown == Spec => []PeerKnowsRelays
<1>1. IInv => PeerKnowsRelays
  <2> SUFFICES ASSUME IInv, Together, NEW p \in Side
               PROVE  LET f == friend[p]
                          known == friend[Peer(p)].remoteRelays
                      IN  /\ f.status = "incoming" /\ f.sent.status # "never"
                               => f.sent.status = "last" /\ known = f.sent.last
                          /\ f.sent.status = "transition" => known \in {f.sent.last, f.sent.prev}
    BY DEF PeerKnowsRelays
  <2>1. PICK q \in Side : Given(q, friend, inbox)
    BY DEF IInv, Inv
  <2>2. p = q \/ (p = Peer(q) /\ q = Peer(p))
    BY Sides
  <2> DEFINE f == friend[q]
             g == friend[Peer(q)]
  <2>3. f.status = "outgoing"
    BY <2>1 DEF Given
  <2>4. CASE Held(f, g, inbox[q], inbox[Peer(q)])
    BY <2>2, <2>3, <2>4 DEF Held
  <2>5. CASE UnderWay(f, g, inbox[q], inbox[Peer(q)])
    BY <2>2, <2>3, <2>5 DEF UnderWay
  <2> QED BY <2>1, <2>4, <2>5 DEF Given
<1> QED BY <1>1, TokenChannelInvariant, PTL

-----------------------------------------------------------------------------
(***************************************************************************)
(* The credit line.  Seen from outside the two ledgers are those of the    *)
(* side that gave the token away and their mirror image; they change when  *)
(* a batch is sent.                                                        *)
(***************************************************************************)
View(F) ==
  [p \in Side |-> LET f == F[p]
                      g == F[Peer(p)]
                  IN  IF f.status = "outgoing" /\ g.status = "outgoing" /\ IsNext(f, g.token)
                        THEN ProcessAll(g.token.ops, f.mc) ELSE f.mc]

Pair(p, m) == [s \in Side |-> IF s = p THEN m ELSE Mirror(m)]

\* One batch that a side may send, applied to both ledgers at once.
BatchOf(v, w) ==
  \E p \in Side, ops \in BoundedSeq(Ops, MaxBatch) :
    /\ Sound(v[p]) /\ v = Pair(p, v[p])
    /\ SendableAll(ops, v[p]) /\ NoRepeats(ops, v[p])
    /\ w = Pair(p, QueueAll(ops, v[p]))

\* The view is that of the side that gave the token away.
LEMMA ViewOf ==
  ASSUME NEW F, NEW in, NEW n, Types(F, in, n), Resets(F, in, n),
         NEW q \in Side, Given(q, F, in)
  PROVE  View(F) = Pair(q, F[q].mc)
<1> DEFINE r == Peer(q)
<1>1. r \in Side /\ r # q /\ Peer(r) = q /\ \A s \in Side : s = q \/ s = r
  BY Sides
<1>2. /\ F[q].status = "outgoing"
      /\ Held(F[q], F[r], in[q], in[r]) \/ UnderWay(F[q], F[r], in[q], in[r])
  BY DEF Given
<1>3. \A s \in Side : /\ F[s].token.old \in Nat /\ F[s].token.new \in Nat
                      /\ F[s].token.old < F[s].token.new
  BY TypedTokens, OwnTokens DEF Resets
<1> HIDE DEF r
<1>4. View(F)[q] = F[q].mc /\ View(F)[r] = Mirror(F[q].mc)
  <2>1. CASE Held(F[q], F[r], in[q], in[r])
    BY <1>1, <1>2, <2>1 DEF View, Held, r
  <2>2. CASE UnderWay(F[q], F[r], in[q], in[r])
    <3>1. /\ F[r].status = "outgoing" /\ F[q].token.old = F[r].token.new
          /\ ProcessAll(F[q].token.ops, F[r].mc) = Mirror(F[q].mc)
      BY <2>2 DEF UnderWay, IsNext
    <3>2. F[r].token.old # F[q].token.new
      BY <1>1, <1>3, <3>1
    <3> QED BY <1>1, <1>2, <3>1, <3>2 DEF View, IsNext, r
  <2> QED BY <1>2, <2>1, <2>2
<1> QED BY <1>1, <1>4 DEF View, Pair

\* The view depends on ledgers, tokens and who holds them.
LEMMA ViewSame ==
  ASSUME NEW F, NEW G,
         \A p \in Side : G[p].status = F[p].status /\ G[p].token = F[p].token /\ G[p].mc = F[p].mc
  PROVE  View(G) = View(F)
<1>1. \A p \in Side : Peer(p) \in Side
  BY Sides
<1> QED BY <1>1 DEF View, IsNext

\* What is sent at the end of a handler that made f of its friend: nothing new, or
\* one batch.
LEMMA MessagesView ==
  ASSUME NEW p \in Side, NEW f, NEW cmds, NEW in, NEW isOnline, NEW used \in {0, 1},
         DOMAIN friend = Side, Inv([friend EXCEPT ![p] = f], in, fresh + used, TRUE),
         f.status = "incoming" => used = 0, fresh \in Nat, Together',
         CreateFriendMessages(p, f, cmds, in, isOnline, used)
  PROVE  LET v == View([friend EXCEPT ![p] = f])
         IN  View(friend') = v \/ BatchOf(v, View(friend'))
<1>1. PICK F : F = [friend EXCEPT ![p] = f]
  OBVIOUS
<1>2. F[p] = f /\ Inv(F, in, fresh + used, TRUE)
  BY <1>1
<1>3. f \in FriendType /\ F \in [Side -> FriendType]
  BY <1>2 DEF Inv, Types
<1>4. CASE friend' = [friend EXCEPT ![p] = f]
  BY <1>4
<1>5. CASE f.status = "incoming" /\ SendIncoming(p, f, cmds, in)
  <2>1. PICK ops \in BoundedSeq(Ops, MaxBatch), rest \in 0 .. f.wants :
          /\ SendableAll(ops, f.mc)
          /\ SendMoveToken(p, f, ops, RelaysToSend(f), rest, cmds, in)
    BY <1>5 DEF SendIncoming
  <2>2. f.wants \in Nat /\ rest \in Nat /\ ops \in Seq(Op) /\ fresh + used = fresh
    BY <1>3, <1>5, BatchType DEF FriendType
  <2>3. CASE friend' = [friend EXCEPT ![p] = [f EXCEPT !.wants = 0, !.aside = FALSE]]
    <3>1. PICK g : g = [f EXCEPT !.wants = 0, !.aside = FALSE]
      OBVIOUS
    <3>2. g.status = f.status /\ g.mc = f.mc /\ g.token = f.token
      BY <1>3, <3>1 DEF FriendType
    <3>3. PICK G : G = [friend EXCEPT ![p] = g]
      OBVIOUS
    <3>4. \A s \in Side : /\ G[s].status = F[s].status /\ G[s].token = F[s].token
                          /\ G[s].mc = F[s].mc
      BY <1>1, <3>2, <3>3
    <3>5. View(G) = View(F)
      BY <3>4, ViewSame
    <3> QED BY <1>1, <2>3, <3>1, <3>3, <3>5
  <2>4. CASE /\ friend' = [friend EXCEPT ![p] = Sending(f, ops, rest)]
             /\ parted' = IF Together /\ ~NoRepeats(ops, f.mc)
                            THEN [q \in Side |-> EffectiveLedger(q)] ELSE parted
    <3>0. NoRepeats(ops, f.mc)
      BY <2>4, StillTogether
    <3>1. PICK g : g = Sending(f, ops, rest)
      OBVIOUS
    <3>2. PICK G : G = [F EXCEPT ![p] = g]
      OBVIOUS
    <3>3. G = friend' /\ G[p] = g /\ Inv(G, in, fresh + 1, TRUE)
      BY <1>1, <1>2, <1>3, <1>5, <2>1, <2>2, <2>4, <3>0, <3>1, <3>2, SendingKeeps
    <3>4. PICK q \in Side : Given(q, F, in)
      BY <1>2 DEF Inv
    <3>5. q = Peer(p) /\ Peer(q) = p /\ q # p
      <4>1. F[q].status = "outgoing"
        BY <3>4 DEF Given
      <4> QED BY <1>2, <1>5, <4>1, Sides
    <3>6. Given(p, G, in)
      <4>1. Types(F, in, fresh) /\ Resets(F, in, fresh)
        BY <1>2, <2>2 DEF Inv
      <4> QED BY <1>2, <1>5, <2>1, <2>2, <3>0, <3>1, <3>2, <3>4, <4>1, SendingGiven
    <3>7. View(G) = Pair(p, QueueAll(ops, f.mc))
      <4>1. View(G) = Pair(p, G[p].mc)
        BY <3>3, <3>6, ViewOf DEF Inv
      <4>2. g.mc = QueueAll(ops, f.mc)
        BY <1>3, <2>2, <3>1, SendingTyped
      <4> QED BY <3>3, <4>1, <4>2
    <3>8. Sound(f.mc) /\ View(F) = Pair(p, f.mc)
      <4>1. Sound(F[q].mc) /\ f.mc = Mirror(F[q].mc)
        BY <1>2, <1>5, <3>4, <3>5 DEF Given, Held, UnderWay
      <4>2. Sound(f.mc) /\ Mirror(f.mc) = F[q].mc
        BY <4>1, MirrorSound, MirrorTwice DEF Sound
      <4>3. View(F) = Pair(q, F[q].mc)
        BY <1>2, <3>4, ViewOf DEF Inv
      <4> QED BY <3>5, <4>1, <4>2, <4>3, Sides DEF Pair
    <3>9. View(F)[p] = f.mc
      BY <3>8 DEF Pair
    <3>10. BatchOf(View(F), View(G))
      BY <2>1, <3>0, <3>7, <3>8, <3>9 DEF BatchOf
    <3> QED BY <1>1, <3>3, <3>10
  <2> QED BY <2>1, <2>3, <2>4 DEF SendMoveToken, Sending, Quiet, Send
<1>6. CASE f.status # "incoming"
  BY <1>4, <1>6 DEF CreateFriendMessages, SendFriend, SendOutgoing, SendInconsistent,
                    TransmitOutgoing, Quiet, Send
<1> QED BY <1>4, <1>5, <1>6 DEF CreateFriendMessages, SendFriend, Quiet

\* Every step of friends that stay together leaves the view alone or is one
\* batch.
LEMMA NextView ==
  ASSUME IInv, IInv', Next, Together, Together'
  PROVE  View(friend') = View(friend) \/ BatchOf(View(friend), View(friend'))
<1> DEFINE Goal == View(friend') = View(friend) \/ BatchOf(View(friend), View(friend'))
<1>1. /\ Types(friend, inbox, fresh) /\ Resets(friend, inbox, fresh)
      /\ DOMAIN friend = Side /\ fresh \in Nat /\ fresh + 0 = fresh
      /\ \A p \in Side : friend[p] \in FriendType
      /\ \A p \in Side : [friend EXCEPT ![p] = friend[p]] = friend
  BY StateTypes
<1>2. PICK q \in Side : Given(q, friend, inbox)
  BY DEF IInv, Inv
<1>3. /\ \A p \in Side : friend[p].status \in {"incoming", "outgoing"}
      /\ \A p \in Side : \A e \in ToSet(inbox[p]) : e.type # "inconsistency"
  BY <1>1, <1>2, CalmToken
\* A handler that leaves its friend as it is.
<1>4. ASSUME NEW p \in Side, inbox[p] # <<>>, NEW cmds, NEW isOnline,
             CreateFriendMessages(p, friend[p], cmds, Taken(p), isOnline, 0)
      PROVE  Goal
  <2>1. Inv([friend EXCEPT ![p] = friend[p]], Taken(p), fresh + 0, TRUE)
    <3>1. Inv(friend, Taken(p), fresh, Together)
      BY <1>4, TakenKeeps
    <3>2. Inv(friend, Taken(p), fresh, TRUE)
      BY <3>1 DEF Inv
    <3> QED BY <1>1, <3>2
  <2>2. PICK f : f = friend[p]
    OBVIOUS
  <2>3. \/ View(friend') = View([friend EXCEPT ![p] = f])
        \/ BatchOf(View([friend EXCEPT ![p] = f]), View(friend'))
    BY <1>1, <1>4, <2>1, <2>2, MessagesView
  <2>4. [friend EXCEPT ![p] = f] = friend
    BY <1>1, <2>2
  <2> QED BY <2>3, <2>4
\* A change that does not concern the channel.
<1>5. ASSUME NEW p \in Side, NEW g,
             g.status = friend[p].status, g.mc = friend[p].mc, g.token = friend[p].token
      PROVE  View([friend EXCEPT ![p] = g]) = View(friend)
  <2>1. PICK G : G = [friend EXCEPT ![p] = g]
    OBVIOUS
  <2>2. \A s \in Side : /\ G[s].status = friend[s].status /\ G[s].token = friend[s].token
                        /\ G[s].mc = friend[s].mc
    BY <1>1, <1>5, <2>1
  <2> QED BY <2>1, <2>2, ViewSame
<1> HIDE DEF Goal
<1>6. ASSUME NEW p \in Side, Handle(p) PROVE Goal
  <2>1. CASE HandleOnline(p)
    <3>1. inbox[p] # <<>>
      BY <2>1 DEF HandleOnline, Arrived
    <3>2. CASE friend' = friend
      BY <3>2 DEF Goal
    <3>3. CASE CreateFriendMessages(p, [friend[p] EXCEPT !.aside = FALSE], {"resend_outgoing"},
                                    Taken(p), TRUE, 0)
      <4>1. PICK g : g = [friend[p] EXCEPT !.aside = FALSE]
        OBVIOUS
      <4>2. /\ g \in FriendType
            /\ g.status = friend[p].status /\ g.mc = friend[p].mc /\ g.token = friend[p].token
            /\ g.localTerms = friend[p].localTerms /\ g.remoteTerms = friend[p].remoteTerms
            /\ g.sent = friend[p].sent /\ g.remoteRelays = friend[p].remoteRelays
        BY <1>1, <4>1, WantsChanged
      <4>3. Inv([friend EXCEPT ![p] = g], Taken(p), fresh, Together)
        BY <3>1, <4>2, TakenKeeps, FriendKeeps
      <4>4. Inv([friend EXCEPT ![p] = g], Taken(p), fresh + 0, TRUE)
        BY <1>1, <4>3 DEF Inv
      <4>5. View([friend EXCEPT ![p] = g]) = View(friend)
        BY <1>5, <4>2
      <4> QED BY <1>1, <3>3, <4>1, <4>4, <4>5, MessagesView DEF Goal
    <3> QED BY <2>1, <3>2, <3>3 DEF HandleOnline
  <2>2. CASE HandleOffline(p)
    <3>1. PICK g \in RequestsCanceled(friend[p]) : friend' = [friend EXCEPT ![p] = g]
      BY <2>2 DEF HandleOffline, Quiet
    <3>2. g.status = friend[p].status /\ g.mc = friend[p].mc /\ g.token = friend[p].token
      BY <1>1, CanceledType
    <3>3. View([friend EXCEPT ![p] = g]) = View(friend)
      BY <1>5, <3>2
    <3> QED BY <3>1, <3>3 DEF Goal
  <2>3. CASE HandleStranger(p)
    BY <1>3, <2>3 DEF HandleStranger
  <2>4. CASE HandleDuplicate(p)
    BY <1>4, <2>4 DEF HandleDuplicate, ArrivedToken, Arrived
  <2>5. CASE HandleRepeated(p)
    BY <1>4, <2>5 DEF HandleRepeated, ArrivedToken, Arrived
  <2>6. CASE HandleToken(p)
    <3>1. PICK g, cmds, in :
            /\ g.status = "incoming"
            /\ Inv([friend EXCEPT ![p] = g], in, fresh + 0, Together)
            /\ Given(Peer(p), [friend EXCEPT ![p] = g], in)
            /\ Given(Peer(p), friend, inbox)
            /\ CreateFriendMessages(p, g, cmds, in, online[p], 0)
      BY <1>2, <2>6, ReceivedGiven
    <3>2. PICK G : G = [friend EXCEPT ![p] = g]
      OBVIOUS
    <3>3. Peer(p) \in Side /\ Peer(p) # p /\ G[Peer(p)] = friend[Peer(p)]
      BY <1>1, <3>2, Sides
    <3>4. View(G) = Pair(Peer(p), G[Peer(p)].mc)
      BY <1>1, <3>1, <3>2, <3>3, ViewOf DEF Inv
    <3>5. View(friend) = Pair(Peer(p), friend[Peer(p)].mc)
      BY <1>1, <3>1, <3>3, ViewOf
    <3>6. Inv(G, in, fresh + 0, TRUE)
      BY <3>1, <3>2 DEF Inv
    <3>7. View(friend') = View(G) \/ BatchOf(View(G), View(friend'))
      BY <1>1, <3>1, <3>2, <3>6, MessagesView
    <3> QED BY <3>3, <3>4, <3>5, <3>7 DEF Goal
  <2>7. CASE HandleTokenError(p)
    BY <1>1, <2>7, TokenErrorRemoved
  <2>8. CASE HandleReset(p) \/ HandleNoReset(p)
    BY <1>3, <2>8 DEF HandleReset, HandleNoReset, ArrivedToken
  <2>9. CASE HandleInconsistency(p)
    <3>1. inbox[p] # <<>> /\ Head(inbox[p]).type = "inconsistency"
      BY <2>9 DEF HandleInconsistency, Arrived
    <3> QED BY <1>3, <3>1, EventFacts
  <2> QED BY <1>6, <2>1, <2>2, <2>3, <2>4, <2>5, <2>6, <2>7, <2>8, <2>9 DEF Handle
<1>7. ASSUME NEW p \in Side, Work(p) \/ ChangeRelays(p) PROVE Goal
  <2>1. PICK g, cmds :
          /\ g \in {[friend[p] EXCEPT !.wants = @ + 1, !.aside = FALSE],
                    [friend[p] EXCEPT !.relays = @ + 1, !.aside = FALSE]}
          /\ CreateFriendMessages(p, g, cmds, inbox, online[p], 0)
    BY <1>7 DEF Work, ChangeRelays
  <2>2. /\ g \in FriendType
        /\ g.status = friend[p].status /\ g.mc = friend[p].mc /\ g.token = friend[p].token
        /\ g.localTerms = friend[p].localTerms /\ g.remoteTerms = friend[p].remoteTerms
        /\ g.sent = friend[p].sent /\ g.remoteRelays = friend[p].remoteRelays
    BY <1>1, <2>1, WantsChanged
  <2>3. Inv([friend EXCEPT ![p] = g], inbox, fresh, Together)
    BY <2>2, FriendKeeps DEF IInv
  <2>4. Inv([friend EXCEPT ![p] = g], inbox, fresh + 0, TRUE)
    BY <1>1, <2>3 DEF Inv
  <2>5. View([friend EXCEPT ![p] = g]) = View(friend)
    BY <1>5, <2>2
  <2> QED BY <1>1, <2>1, <2>4, <2>5, MessagesView DEF Goal
<1>a. ASSUME NEW p \in Side, PutAside(p) PROVE Goal
  <2>1. PICK g : g = [friend[p] EXCEPT !.wants = @ + 1, !.aside = @ \/ friend[p].wants = 0]
    OBVIOUS
  <2>2. g.status = friend[p].status /\ g.mc = friend[p].mc /\ g.token = friend[p].token
    BY <1>1, <2>1, WantsChanged
  <2>3. friend' = [friend EXCEPT ![p] = g]
    BY <1>a, <2>1 DEF PutAside, Quiet
  <2> QED BY <1>5, <2>2, <2>3 DEF Goal
<1>8. ASSUME NEW p \in Side, ResetFriendChannel(p) \/ AddFriend(p) PROVE FALSE
  BY <1>3, <1>8 DEF ResetFriendChannel, AddFriend
<1>9. ASSUME NEW p \in Side, RemoveFriend(p) PROVE FALSE
  BY <1>3, <1>9, RemovedForGood
<1>10. ASSUME NEW p \in Side, Restart(p) PROVE Goal
  BY <1>10 DEF Restart, Crash, Goal
<1>11. ASSUME Connect \/ Disconnect PROVE Goal
  BY <1>11 DEF Connect, Disconnect, Goal
<1>12. Goal
  <2>1. ASSUME NEW p \in Side,
               \/ Handle(p) \/ Work(p) \/ PutAside(p) \/ ChangeRelays(p)
               \/ ResetFriendChannel(p) \/ Restart(p) \/ RemoveFriend(p) \/ AddFriend(p)
        PROVE  Goal
    BY <1>6, <1>7, <1>a, <1>8, <1>9, <1>10, <2>1
  <2> QED BY <1>11, <2>1 DEF Next
<1> QED BY <1>12 DEF Goal

-----------------------------------------------------------------------------
(***************************************************************************)
(* What an outsider sees: the two views while they are together, and the   *)
(* last ones after that.                                                   *)
(***************************************************************************)
Seen == IF Together THEN [p \in Side |-> EffectiveLedger(p)] ELSE parted

\* The effective ledgers are the view of the friends.
LEMMA SeenIsView ==
  /\ Together => Seen = View(friend)
  /\ ~Together => Seen = parted
BY DEF Seen, EffectiveLedger, View

\* The same of the next state.
LEMMA SeenIsViewNext ==
  /\ Together' => Seen' = View(friend')
  /\ ~Together' => Seen' = parted'
BY DEF Seen, EffectiveLedger, View

\* Every step leaves what is seen alone or is one batch.
LEMMA NextSeen ==
  ASSUME IInv, IInv', Next
  PROVE  Seen' = Seen \/ BatchOf(Seen, Seen')
<1>1. CASE Together /\ Together'
  BY <1>1, NextView, SeenIsView, SeenIsViewNext
<1>2. CASE Together /\ ~Together'
  BY <1>2, PartedChanges, SeenIsViewNext DEF Together, Seen
<1>3. CASE ~Together
  BY <1>3, PartedChanges, SeenIsView, SeenIsViewNext DEF Together
<1> QED BY <1>1, <1>2, <1>3

(***************************************************************************)
(* Whatever is lost, repeated, overwritten or replayed after a restart,    *)
(* and however many operations go in a batch: a batch takes effect as a    *)
(* whole, on both ledgers at once and at most once, and only if every      *)
(* operation of it was one its sender could queue at that point and none   *)
(* was a request whose identifier was pending.  The batch that has such a  *)
(* request, or the removal of a friend, is the end of it.                  *)
(***************************************************************************)
THEOREM BatchesAreAtomic == Spec => [][BatchOf(Seen, Seen')]_Seen
<1>1. IInv /\ IInv' /\ [Next]_vars => [BatchOf(Seen, Seen')]_Seen
  <2>1. ASSUME IInv, IInv', Next PROVE [BatchOf(Seen, Seen')]_Seen
    BY <2>1, NextSeen
  <2>2. ASSUME UNCHANGED vars PROVE Seen' = Seen
    BY <2>2 DEF vars, Seen, Together, EffectiveLedger
  <2> QED BY <2>1, <2>2
<1> QED BY <1>1, TokenChannelInvariant, PTL DEF Spec

\* The credit line's operators are those of the channel.
LEMMA LineOperators ==
  ASSUME NEW ops, NEW m
  PROVE  /\ Line!SendableAll(ops, m) <=> SendableAll(ops, m)
         /\ Line!ProcessAllOk(ops, m) <=> ProcessAllOk(ops, m)
         /\ Line!QueueAll(ops, m) = QueueAll(ops, m)
         /\ Line!ProcessAll(ops, m) = ProcessAll(ops, m)
<1>1. Line!QueueTrace(ops, m) = QueueTrace(ops, m)
  BY Zenon DEF Line!QueueTrace, QueueTrace, Line!Push, Push, Line!Repeats, Repeats,
     Line!QueueRequestFits, QueueRequestFits,
     Line!QueueRequestInRange, QueueRequestInRange, Line!QueueRequestTrusted, QueueRequestTrusted,
     Line!NewLocalPendingDebt, NewLocalPendingDebt, Line!U128, U128, Line!I128, I128,
     Line!Queue, Queue, Line!QueueRequest, QueueRequest, Line!QueueResponse, QueueResponse,
     Line!QueueCancel, QueueCancel, Line!QueueCollect, QueueCollect, Line!PendingTransaction,
     PendingTransaction, Line!Responded, Responded, Line!NoTransaction, NoTransaction,
     Line!Freeze, Freeze, Line!AnyLock, AnyLock
<1>2. Line!ProcessTrace(ops, m) = ProcessTrace(ops, m)
  BY Zenon DEF Line!ProcessTrace, ProcessTrace, Line!Process, Process, Line!ProcessRequest,
     ProcessRequest, Line!ProcessResponse, ProcessResponse,
     Line!ProcessCancel, ProcessCancel, Line!ProcessCollect, ProcessCollect,
     Line!PendingTransaction, PendingTransaction, Line!Responded, Responded,
     Line!NoTransaction, NoTransaction, Line!Freeze, Freeze, Line!AnyLock, AnyLock,
     Line!NewRemotePendingDebt, NewRemotePendingDebt
<1>3. \A op, l : Line!Sendable(op, l) <=> Sendable(op, l)
  BY DEF Line!Sendable, Sendable, Line!QueueOk, QueueOk, Line!QueueRequestOk, QueueRequestOk,
     Line!Repeats, Repeats, Line!QueueRequestFits, QueueRequestFits,
     Line!QueueRequestInRange, QueueRequestInRange, Line!QueueRequestTrusted, QueueRequestTrusted,
     Line!NewLocalPendingDebt, NewLocalPendingDebt, Line!QueueCollectOk, QueueCollectOk,
     Line!U128, U128, Line!I128, I128
<1>4. \A op, l : Line!ProcessOk(op, l) <=> ProcessOk(op, l)
  BY DEF Line!ProcessOk, ProcessOk, Line!ProcessRequestOk, ProcessRequestOk,
     Line!NewRemotePendingDebt, NewRemotePendingDebt, Line!ProcessCollectOk, ProcessCollectOk,
     Line!U128, U128, Line!I128, I128
<1>5. Line!SendableAll(ops, m) <=> SendableAll(ops, m)
  BY <1>1, <1>3 DEF Line!SendableAll, SendableAll
<1>6. Line!ProcessAllOk(ops, m) <=> ProcessAllOk(ops, m)
  BY <1>2, <1>4 DEF Line!ProcessAllOk, ProcessAllOk
<1>7. /\ Line!QueueAll(ops, m) = QueueAll(ops, m)
      /\ Line!ProcessAll(ops, m) = ProcessAll(ops, m)
  BY <1>1, <1>2 DEF Line!QueueAll, QueueAll, Line!ProcessAll, ProcessAll
<1> QED BY <1>5, <1>6, <1>7

\* The credit line starts as the channel does, and has its batches.
LEMMA LineLedgers ==
  ASSUME NEW b
  PROVE  /\ Line!NewLedger(b) = NewLedger(b) /\ Line!Side = Side
         /\ Line!BoundedSeq(Ops, MaxBatch) = BoundedSeq(Ops, MaxBatch)
<1>1. Line!NewLedger(b) = NewLedger(b) /\ Line!Side = Side
  BY DEF Line!NewLedger, NewLedger, Line!NoTransaction, NoTransaction, Line!AnyLock, AnyLock,
         Line!Side, Side
<1>2. Line!BoundedSeq(Ops, MaxBatch) = BoundedSeq(Ops, MaxBatch)
  BY Zenon DEF Line!BoundedSeq, BoundedSeq, Line!SeqOf, SeqOf
<1> QED BY <1>1, <1>2

\* A batch is a step of the credit line.
LEMMA LineBatch ==
  ASSUME BatchOf(Seen, Seen')
  PROVE  Line!Next
<1>1. PICK p \in Side, ops \in BoundedSeq(Ops, MaxBatch) :
        /\ Sound(Seen[p]) /\ Seen = Pair(p, Seen[p])
        /\ SendableAll(ops, Seen[p]) /\ NoRepeats(ops, Seen[p])
        /\ Seen' = Pair(p, QueueAll(ops, Seen[p]))
  BY DEF BatchOf
<1>2. PICK m : m = Seen[p]
  OBVIOUS
<1>3. ops \in Seq(Op)
  BY BatchType
<1>4. ProcessAllOk(ops, Mirror(m)) /\ ProcessAll(ops, Mirror(m)) = Mirror(QueueAll(ops, m))
  BY <1>1, <1>2, <1>3, BatchMirror
<1>5. Peer(p) \in Side /\ Peer(p) # p
  BY Sides DEF Side, Peer
<1>6. Seen[p] = m /\ \A s \in Side : s # p => Seen[s] = Mirror(m)
  BY <1>1, <1>2 DEF Pair
<1>7. Seen' = [s \in Side |-> IF s = p THEN QueueAll(ops, Seen[p]) ELSE ProcessAll(ops, Seen[s])]
  <2>1. Seen' = [s \in Side |-> IF s = p THEN QueueAll(ops, m) ELSE Mirror(QueueAll(ops, m))]
    BY <1>1, <1>2 DEF Pair
  <2> QED BY <1>4, <1>6, <2>1
<1>8. SendableAll(ops, Seen[p]) /\ ProcessAllOk(ops, Seen[Peer(p)])
  BY <1>1, <1>4, <1>5, <1>6
<1>9. Line!Transfer(p, ops)
  <2>1. Line!Peer(p) = Peer(p)
    BY DEF Line!Peer, Peer
  <2>2. /\ Line!SendableAll(ops, Seen[p])
        /\ Line!ProcessAllOk(ops, Seen[Line!Peer(p)])
        /\ Seen' = [s \in Line!Side |-> IF s = p THEN Line!QueueAll(ops, Seen[p])
                                                 ELSE Line!ProcessAll(ops, Seen[s])]
    BY <1>7, <1>8, <2>1, LineOperators, LineLedgers
  <2> QED BY <2>2 DEF Line!Transfer, Seen
<1>10. p \in Line!Side /\ ops \in Line!BoundedSeq(Ops, MaxBatch)
  BY LineLedgers
<1> QED BY <1>9, <1>10 DEF Line!Next

(***************************************************************************)
(* For batches of any length the channel implements the credit line, until *)
(* a friend is removed or a pending identifier is sent again: what         *)
(* CreditLineProofs shows of the line (the mirrored ledgers, the bounded   *)
(* exposure) holds of the channel as an outsider sees it.                  *)
(***************************************************************************)
THEOREM ChannelImplementsLine == Spec => ImplementsCreditLine
<1>1. Init => Line!Init
  <2> SUFFICES ASSUME Init PROVE Line!Init
    OBVIOUS
  <2>1. /\ Together
        /\ friend = [p \in Side |-> NewFriend(p, InitialBalance, 0, 0)]
    BY DEF Init, Together
  <2>2. \A p \in Side : /\ Peer(p) \in Side
                        /\ ~(friend[p].status = "outgoing" /\ friend[Peer(p)].status = "outgoing")
                        /\ friend[p].mc = NewLedger(IF p = "Low" THEN InitialBalance
                                                                 ELSE -InitialBalance)
    BY <2>1 DEF NewFriend, Side, Peer
  <2>3. \A p \in Side : EffectiveLedger(p) = friend[p].mc
    BY <2>2 DEF EffectiveLedger
  <2>4. Seen = [p \in Side |-> NewLedger(IF p = "Low" THEN InitialBalance ELSE -InitialBalance)]
    BY <2>1, <2>2, <2>3 DEF Seen
  <2>5. Seen = [p \in Line!Side |-> Line!NewLedger(IF p = "Low" THEN InitialBalance
                                                                ELSE -InitialBalance)]
    BY <2>4, LineLedgers
  <2> QED BY <2>5 DEF Line!Init, Seen
<1>2. IInv /\ IInv' /\ [Next]_vars => [Line!Next]_Seen
  <2>1. ASSUME IInv, IInv', Next PROVE [Line!Next]_Seen
    BY <2>1, NextSeen, LineBatch
  <2>2. ASSUME UNCHANGED vars PROVE Seen' = Seen
    BY <2>2 DEF vars, Seen, Together, EffectiveLedger
  <2> QED BY <2>1, <2>2
<1>3. IInv /\ IInv' /\ [Next]_vars
        => [Line!Next]_(IF Together THEN [p \in Side |-> EffectiveLedger(p)] ELSE parted)
  BY <1>2 DEF Seen
<1> QED BY <1>1, <1>3, TokenChannelInvariant, PTL DEF Spec, ImplementsCreditLine, Line!Spec
=============================================================================
