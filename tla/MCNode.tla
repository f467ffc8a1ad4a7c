------------------------------ MODULE MCNode ------------------------------
(***************************************************************************)
(* One friend, and two applications that connect at any time.              *)
(***************************************************************************)
EXTENDS Node

CONSTANTS f1, p1, p2

MCFriends == [f \in {f1} |-> [enabled |-> TRUE, cap |-> 1]]
MCPermissions == [p \in App |-> IF p = p1 THEN {"config", "buyer", "routes"} ELSE {"config"}]

MCRequests == [p \in App |-> 1]

\* Nothing; another capacity; another one that is changed back.  When a rate has
\* made it 2 before: a report of the same capacity, and a change after one.
MCChanges == {<<>>, <<2>>, <<2, 1>>}
============================================================================
