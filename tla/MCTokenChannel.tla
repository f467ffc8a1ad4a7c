--------------------------- MODULE MCTokenChannel ---------------------------
(***************************************************************************)
(* Two friends for TLC, with one request identifier and a few operations.  *)
(***************************************************************************)
EXTENDS TokenChannel

MCOp(kind, pay) ==
  [kind |-> kind, id |-> CHOOSE u \in Uid : TRUE, pay |-> pay, fees |-> 0,
   src |-> AnyLock, dest |-> AnyLock, valid |-> TRUE]

\* A payment of one credit.
Payment == {MCOp("enable", 0), MCOp("setmax", 1), MCOp("request", 1), MCOp("response", 0),
            MCOp("cancel", 0), MCOp("collect", 0)}

\* The first operations of a payment, in batches with something left over; operations
\* over a link that breaks; relays that change; and friends who remove each other and
\* reset the channel.
Paying == [work |-> 3, drops |-> 0, relays |-> 0, removals |-> 0, resets |-> 1]
Breaking == [work |-> 2, drops |-> 1, relays |-> 0, removals |-> 0, resets |-> 0]
Moving == [work |-> 1, drops |-> 1, relays |-> 1, removals |-> 0, resets |-> 0]
Parting == [work |-> 0, drops |-> 0, relays |-> 0, removals |-> 1, resets |-> 2]
AllBudgets == {Paying, Breaking, Moving, Parting}
===========================================================================
