------------------------------ MODULE MCGraph ------------------------------
(***************************************************************************)
(* Five nodes in a ring with a chord, so that ways of different lengths    *)
(* join them.  Two of them report capacities of several kinds of each      *)
(* other, the rest report that one credit may pass.  With MaxRate = 1 some *)
(* of the ways cost more than a rate holds: the longest, and one of the    *)
(* two shortest from 1 to 4.                                               *)
(***************************************************************************)
EXTENDS GraphService

Edge(send, recv, rate) == [send |-> send, recv |-> recv, rate |-> rate]

Friends == {{1, 2}, {2, 3}, {3, 4}, {4, 5}, {5, 1}, {2, 4}}

MCReport(a, b) ==
  IF {a, b} = {2, 4} THEN {Edge(2, 1, 0), Edge(0, 2, 0)}
  ELSE IF {a, b} \in Friends THEN {Edge(1, 1, IF <<a, b>> = <<1, 5>> THEN 2 ELSE 1)} ELSE {}

MCAsked == {<<1, 3>>, <<1, 4>>, <<4, 1>>, <<2, 5>>, <<2, 4>>}
MCExcludable == {<<1, 2>>, <<5, 4>>}
============================================================================
