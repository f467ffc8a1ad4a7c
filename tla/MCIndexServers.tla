-------------------------- MODULE MCIndexServers --------------------------
(***************************************************************************)
(* Three servers that all know each other, so that an update reaches each  *)
(* of them by two ways.                                                    *)
(***************************************************************************)
EXTENDS IndexServers

CONSTANT f1

\* The first session of a client reports a friend, the second removes it.
MCMutation(session, counter) ==
  IF session = 1
  THEN [op |-> "update", friend |-> f1, edge |-> [send |-> session, recv |-> 1, rate |-> 0]]
  ELSE [op |-> "remove", friend |-> f1]

MCFragile == {<<3, 2>>}
MCTicks == <<1, 3, 1>>
MCHome == <<1, 2>>

\* The state after the servers 3, 2 and 1 have ticked, one after the other, and
\* their hashes have arrived; the client is connected to its first server.
Warm ==
  /\ peer = [s \in Server |-> [p \in Others(s) |-> "connected"]]
  /\ inbox = [s \in Server |-> [p \in Others(s) |-> <<>>]]
  /\ clock = [s \in Server |-> [last |-> <<<<s, 1>>>>, neighbors |-> [p \in Others(s) |-> <<p, 1>>]]]
  /\ ratchets = [s \in Server |-> NoKeys]
  /\ graph = [s \in Server |-> EmptyGraph]
  /\ ticks = [s \in Server |-> 1]
  /\ parts = [h \in Server \X {1} |-> {<<p, 1>> : p \in {q \in Server : q > h[1]}}]
  /\ clients = [s \in Server |-> IF s = Home[1] THEN Node ELSE {}]
  /\ updates = [s \in Server |-> [n \in Node |-> <<>>]]
  /\ client = [n \in Node |-> [at |-> Home[1], session |-> 1, sent |-> 0, since |-> 0]]
  /\ breaks = 0
  /\ log = [s \in Server |-> <<>>]

WarmSpec == Warm /\ [][Next]_vars
============================================================================
