----------------------------- MODULE HashClock -----------------------------
(***************************************************************************)
(* How an index server decides that an update is fresh and new             *)
(* (index_server/src/verifier): a clock of hashes and a pool of ratchets.  *)
(*                                                                         *)
(* The hash of a tick is taken to be free of collisions: <<s, k>> is the   *)
(* hash of the k-th tick of server s.  It is made of a random value and of *)
(* the last hash of every neighbor; `parts' gives the neighbors' hashes    *)
(* that each hash is made of, so a link of a proof, a list of hashes, is   *)
(* named by the hash of that list.                                         *)
(***************************************************************************)
EXTENDS Integers, Sequences, FiniteSets, SequencesExt

CONSTANT TicksToLive  \* ticks_to_live, of the clock and of the ratchets

ASSUME HashClockAssumption == TicksToLive \in Nat \ {0}

NoKeys == [k \in {} |-> 0]
Put(f, k, v) == [x \in DOMAIN f \cup {k} |-> IF x = k THEN v ELSE f[x]]
Drop(f, S) == [x \in DOMAIN f \ S |-> f[x]]

(***************************************************************************)
(* The clock: its last ticks and the last hash of each neighbor.           *)
(***************************************************************************)
ClockInit == [last |-> <<>>, neighbors |-> NoKeys]

NeighborTick(clock, p, hash) == [clock EXCEPT !.neighbors = Put(@, p, hash)]
RemoveNeighbor(clock, p) == [clock EXCEPT !.neighbors = Drop(@, {p})]

\* Slip: the oldest tick is dropped one tick late.
InsertTickHashLate(clock, hash) ==
  [clock EXCEPT !.last = IF Len(@) > TicksToLive THEN Append(Tail(@), hash) ELSE Append(@, hash)]

InsertTickHash(clock, hash) ==
  [clock EXCEPT !.last = IF Len(@) + 1 > TicksToLive THEN Append(Tail(@), hash) ELSE Append(@, hash)]

\* The neighbors' hashes in the next tick of the clock.
NextParts(clock) == {clock.neighbors[p] : p \in DOMAIN clock.neighbors}

\* verify_expansion_chain: the chain leads from the origin's hash, link by
\* link, to a list with a tick of this clock; the ticks it may return.
VerifyExpansionChain(clock, parts, origin, chain) ==
  LET list(i) == IF i = 0 THEN {origin} ELSE parts[chain[i]] IN
  IF \A i \in 1..Len(chain) : chain[i] \in list(i - 1)
  THEN list(Len(chain)) \cap ToSet(clock.last)
  ELSE {}

(***************************************************************************)
(* The ratchets: for each node the session and the counter seen last.      *)
(***************************************************************************)
\* SimpleVerifier::new: no node has a ratchet.
RatchetsInit == NoKeys

\* Slip: the counter that was seen last passes again.
MovesForwardOrSame(ratchets, n, session, counter) ==
  n \in DOMAIN ratchets /\ ratchets[n].session = session => ratchets[n].counter <= counter

\* The node is new, or its session is another one, or the counter has grown.
MovesForward(ratchets, n, session, counter) ==
  n \in DOMAIN ratchets /\ ratchets[n].session = session => ratchets[n].counter < counter

Ratchet(session, counter) == [session |-> session, counter |-> counter, ttl |-> TicksToLive]

UpdateRatchet(ratchets, n, session, counter) == Put(ratchets, n, Ratchet(session, counter))

\* The nodes whose ratchet ends with the next tick.
Expiring(ratchets) == {n \in DOMAIN ratchets : ratchets[n].ttl <= 1}

TickRatchets(ratchets) ==
  [n \in DOMAIN ratchets \ Expiring(ratchets) |-> [ratchets[n] EXCEPT !.ttl = @ - 1]]

\* SimpleVerifier.verify: the ticks that prove the update fresh, none if its
\* ratchet does not move forward.
Verify(clock, ratchets, parts, u, chain) ==
  IF MovesForward(ratchets, u.node, u.session, u.counter)
  THEN VerifyExpansionChain(clock, parts, u.hash, chain) ELSE {}
============================================================================
