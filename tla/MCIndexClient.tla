--------------------------- MODULE MCIndexClient ---------------------------
(***************************************************************************)
(* Two friends and two index servers.                                      *)
(***************************************************************************)
EXTENDS IndexClient

CONSTANTS f1, f2, k1, k2

Said(c) == [send |-> c, recv |-> 1, rate |-> 0]
MCValue == {Said(2)}
MCFriends == [f \in {f1, f2} |-> Said(1)]
MCServers == <<k1>>
============================================================================
