----------------------------- MODULE MCChanneler ----------------------------
(***************************************************************************)
(* One friend, with either order of the keys, for TLC.                     *)
(***************************************************************************)
EXTENDS Channeler

CONSTANTS a1, a2

\* The second relay comes and goes.
OneOrBoth == {{a1}, {a1, a2}}
=============================================================================
