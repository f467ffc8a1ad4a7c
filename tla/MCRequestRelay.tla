--------------------------- MODULE MCRequestRelay ---------------------------
(***************************************************************************)
(* A buyer, a relay and a seller, for TLC.                                 *)
(***************************************************************************)
EXTENDS RequestRelay

\* The buyer pays in parts: the seller needs every transaction.
AllOfThem == {Uid}
=============================================================================
