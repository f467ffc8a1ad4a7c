---------------------------- MODULE MCTransport ----------------------------
(***************************************************************************)
(* One end sends two messages while both ends change the keys; the other   *)
(* end answers with keepalives only.                                       *)
(***************************************************************************)
EXTENDS Transport

SendsOfA == [s \in Side |-> IF s = "a" THEN 2 ELSE 0]
============================================================================
