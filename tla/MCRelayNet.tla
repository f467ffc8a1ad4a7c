---------------------------- MODULE MCRelayNet ----------------------------
(***************************************************************************)
(* One friend moves between two relays, one of which becomes local and     *)
(* stops being so.                                                         *)
(***************************************************************************)
EXTENDS RelayNet

CONSTANTS r1, r2

Relays == {r1, r2}
LocalSets == {{}, {r1}}
FriendSets == {{r1}, {r2}}
============================================================================
