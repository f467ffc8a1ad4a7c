------------------------------ MODULE SeqMap ------------------------------
(***************************************************************************)
(* A map whose pairs are handed out in turn (index_client/src/seq_map.rs). *)
(* It has the map, the queue of its keys, next one first, and a countdown  *)
(* of the keys that remain in this cycle.                                  *)
(***************************************************************************)
EXTENDS Integers, Sequences, FiniteSets, SequencesExt

Without(queue, k) == SelectSeq(queue, LAMBDA q : q # k)

SeqMapNew(map) ==
  [map |-> map, queue |-> SetToSeq(DOMAIN map), countdown |-> Cardinality(DOMAIN map)]

\* The key goes to the end of the queue; the countdown is left alone.
SeqUpdate(s, k, v) ==
  [s EXCEPT !.queue = Append(Without(@, k), k),
            !.map = [j \in DOMAIN @ \cup {k} |-> IF j = k THEN v ELSE @[j]]]

SeqRemove(s, k) ==
  [s EXCEPT !.queue = Without(@, k), !.map = [j \in DOMAIN @ \ {k} |-> @[j]]]

ResetCountdown(s) == [s EXCEPT !.countdown = Len(s.queue)]

\* Slip: the key stays at the front.
SeqTurnedStays(queue) == queue

SeqTurned(queue) == Append(Tail(queue), Head(queue))

\* next: the pair at the front, and the map afterwards; only if there is one.
SeqFront(s) == [key |-> Head(s.queue), value |-> s.map[Head(s.queue)]]

SeqNext(s) ==
  IF s.queue = <<>> THEN s
  ELSE [s EXCEPT !.queue = SeqTurned(@), !.countdown = IF @ > 0 THEN @ - 1 ELSE 0]
============================================================================
