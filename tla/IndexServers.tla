--------------------------- MODULE IndexServers ---------------------------
(***************************************************************************)
(* Index servers that trust each other (index_server/src/server.rs), and   *)
(* the clients that send them updates of what they can forward.  An update *)
(* is forwarded by every server that accepts it to all its other           *)
(* neighbors; it carries a proof, extended by each server, that it was     *)
(* signed after a recent tick of the server that checks it.                *)
(*                                                                         *)
(* Every server is one loop that handles one event at a time.  A message   *)
(* to a neighbor is sent with try_send: a queue that is full loses it.  Of *)
(* two servers the one with the greater key connects.  A client signs with *)
(* a time hash that its server has sent it over this connection.           *)
(***************************************************************************)
EXTENDS CapacityGraph, HashClock

CONSTANTS
  Server,             \* public keys of the servers, ordered: a set of numbers
  Node,               \* public keys of the clients
  Mutation(_, _),     \* Mutation(session, counter): what an update says
  Home,               \* Home[k]: the server of the k-th session of a client
  Fragile,            \* pairs of servers whose connections may break
  QueueLen,           \* messages that a connection between servers holds
  MaxTicks,           \* bound: ticks, for each server
  MaxSessions,        \* bound: sessions of a client
  MaxUpdates,         \* bound: updates of a session
  MaxBreaks           \* bound: connections between servers that break

ASSUME IndexServersAssumption == Server \subseteq Nat \ {0}

VARIABLES
  peer,      \* peer[s][p]: what s knows of its connection with p
  inbox,     \* inbox[s][p]: messages of p that s has not handled yet
  clock,     \* clock[s], the hash clock
  ratchets,  \* ratchets[s]
  graph,     \* graph[s]
  ticks,     \* ticks[s]: the ticks of s so far
  parts,     \* parts[h]: the neighbors' hashes that the hash h is made of
  clients,   \* clients[s]: the clients that s has a connection of
  updates,   \* updates[s][n]: updates of n that s has not handled yet
  client,    \* client[n]: its server (0: none), its session, updates sent, first tick seen
  breaks,    \* connections that broke so far
  log        \* history: log[s], the updates that s has applied

serverVars == <<peer, inbox, clock, ratchets, graph, log>>
clientVars == <<clients, updates, client>>
vars == <<serverVars, clientVars, ticks, parts, breaks>>

Others(s) == Server \ {s}
Closed == [type |-> "closed"]
TimeHash(h) == [type |-> "time", hash |-> h]
Forward(u, chain) == [type |-> "forward", update |-> u, chain |-> chain]

\* compare_public_key: the lesser key waits for the greater one.
Unconnected(s, p) == IF s < p THEN "listening" ELSE "initiating"

Alive(s, p) ==
  /\ peer[s][p] = "connected" /\ peer[p][s] = "connected"
  /\ Closed \notin ToSet(inbox[s][p]) \cup ToSet(inbox[p][s])

\* The servers have started and connected to each other.
Init ==
  /\ peer = [s \in Server |-> [p \in Others(s) |-> "connected"]]
  /\ inbox = [s \in Server |-> [p \in Others(s) |-> <<>>]]
  /\ clock = [s \in Server |-> ClockInit]
  /\ ratchets = [s \in Server |-> RatchetsInit]
  /\ graph = [s \in Server |-> EmptyGraph]
  /\ ticks = [s \in Server |-> 0]
  /\ parts = NoKeys
  /\ clients = [s \in Server |-> {}]
  /\ updates = [s \in Server |-> [n \in Node |-> <<>>]]
  /\ client = [n \in Node |-> [at |-> 0, session |-> 0, sent |-> 0, since |-> 0]]
  /\ breaks = 0
  /\ log = [s \in Server |-> <<>>]

\* try_send of msg from s to the connected servers in `to'; `in' are the inboxes.
TrySend(in, s, to, msg) ==
  [p \in Server |-> [q \in Others(p) |->
     IF q = s /\ p \in to /\ Alive(s, p) /\ Len(in[p][s]) < QueueLen
     THEN Append(in[p][q], msg) ELSE in[p][q]]]

\* s takes the first message of p.
Taken(s, p) == [inbox EXCEPT ![s][p] = Tail(@)]

\* A new connection of s and p: the messages of each arrive in order.
NewConnection(s, p) == [inbox EXCEPT ![s][p] = <<>>, ![p][s] = <<>>]

\* The messages of a client reach its server in order, and its client_handler
\* passes them on to the loop one by one.
Delivered(s, n, u) == [updates EXCEPT ![s][n] = Append(@, u)]
HandledNext(s, n) == [updates EXCEPT ![s][n] = Tail(@)]

(***************************************************************************)
(* Updates.                                                                *)
(***************************************************************************)
ApplyMutation(g, n, m) ==
  IF m.op = "update" THEN UpdateEdge(g, n, m.friend, m.edge) ELSE RemoveEdge(g, n, m.friend)

\* handle_forward_mutations_update: s handles the update u with a chain, from
\* the server or the client `from'; `in' are the inboxes without it.
HandleUpdate(s, from, u, chain, in) ==
  LET found == Verify(clock[s], ratchets[s], parts, u, chain) IN
  IF found # {}
  THEN /\ ratchets' = [ratchets EXCEPT ![s] = UpdateRatchet(@, u.node, u.session, u.counter)]
       /\ graph' = [graph EXCEPT ![s] =
                      ApplyMutation(TickNode(@, u.node), u.node, Mutation(u.session, u.counter))]
       /\ \E h \in found : inbox' = TrySend(in, s, Others(s) \ {from}, Forward(u, Append(chain, h)))
       /\ log' = [log EXCEPT ![s] = Append(@, [node |-> u.node, session |-> u.session,
                     counter |-> u.counter, late |-> ticks[s] - u.signed[s]])]
  ELSE inbox' = in /\ UNCHANGED <<ratchets, graph, log>>

ClientMutationsUpdate(s, n) ==
  /\ updates[s][n] # <<>>
  /\ updates' = HandledNext(s, n)
  /\ HandleUpdate(s, 0, Head(updates[s][n]), <<>>, inbox)
  /\ UNCHANGED <<peer, clock, ticks, parts, clients, client, breaks>>

(***************************************************************************)
(* Messages of the neighbors, ticks, connections.                          *)
(***************************************************************************)
\* Slip: the end of a connection is not followed by another.
AfterClosedStays(s, p) == "connected"

AfterClosed(s, p) == Unconnected(s, p)

FromServer(s, p) ==
  /\ inbox[s][p] # <<>>
  /\ LET m == Head(inbox[s][p]) IN
     \/ /\ m.type = "time"
        /\ clock' = [clock EXCEPT ![s] = NeighborTick(@, p, m.hash)]
        /\ inbox' = Taken(s, p)
        /\ UNCHANGED <<peer, ratchets, graph, log>>
     \/ /\ m.type = "forward"
        /\ HandleUpdate(s, p, m.update, m.chain, Taken(s, p))
        /\ UNCHANGED <<peer, clock>>
     \/ /\ m.type = "closed"
        /\ clock' = [clock EXCEPT ![s] = RemoveNeighbor(@, p)]
        /\ peer' = [peer EXCEPT ![s][p] = AfterClosed(s, p)]
        /\ inbox' = Taken(s, p)
        /\ UNCHANGED <<ratchets, graph, log>>
  /\ UNCHANGED <<clientVars, ticks, parts, breaks>>

\* Slip: nodes that were not heard of stay in the graph.
RemovedNodesNone(s) == {}

RemovedNodes(s) == Expiring(ratchets[s])

\* handle_timer_tick.
TimerTick(s) ==
  /\ ticks[s] < MaxTicks[s]
  /\ LET hash == <<s, ticks[s] + 1>> IN
     /\ ticks' = [ticks EXCEPT ![s] = @ + 1]
     /\ parts' = Put(parts, hash, NextParts(clock[s]))
     /\ clock' = [clock EXCEPT ![s] = InsertTickHash(@, hash)]
     /\ inbox' = TrySend(inbox, s, Others(s), TimeHash(hash))
  /\ ratchets' = [ratchets EXCEPT ![s] = TickRatchets(@)]
  /\ graph' = [graph EXCEPT ![s] = Drop(@, RemovedNodes(s))]
  /\ UNCHANGED <<peer, clientVars, breaks, log>>

\* A connection of s to p, which it initiates.  The other side refuses it
\* while it still holds an earlier one, and s learns that it was closed.
ServerConnection(s, p) ==
  /\ peer[s][p] = "initiating"
  /\ IF peer[p][s] = "connected"
     THEN /\ peer' = [peer EXCEPT ![s][p] = "connected"]
          /\ inbox' = [inbox EXCEPT ![s][p] = <<Closed>>]
     ELSE /\ peer' = [peer EXCEPT ![s][p] = "connected", ![p][s] = "connected"]
          /\ inbox' = NewConnection(s, p)
  /\ UNCHANGED <<clock, ratchets, graph, log, clientVars, ticks, parts, breaks>>

\* The connection of s and p breaks; what is under way arrives or is lost.
Break(s, p) ==
  /\ <<s, p>> \in Fragile /\ breaks < MaxBreaks
  /\ Alive(s, p)
  /\ breaks' = breaks + 1
  /\ \E a \in {inbox[s][p], <<>>}, b \in {inbox[p][s], <<>>} :
       inbox' = [inbox EXCEPT ![s][p] = Append(a, Closed), ![p][s] = Append(b, Closed)]
  /\ UNCHANGED <<peer, clock, ratchets, graph, log, clientVars, ticks, parts>>

(***************************************************************************)
(* Clients.                                                                *)
(***************************************************************************)
\* A client connects, with a new session; a server that still holds an earlier
\* connection of this client refuses, and the client is as before.
ClientConnection(n, s) ==
  /\ client[n].at = 0 /\ client[n].session < MaxSessions
  /\ s = Home[client[n].session + 1] /\ n \notin clients[s]
  /\ client' = [client EXCEPT ![n] = [at |-> s, session |-> @.session + 1, sent |-> 0, since |-> ticks[s]]]
  /\ clients' = [clients EXCEPT ![s] = @ \cup {n}]
  /\ UNCHANGED <<serverVars, updates, ticks, parts, breaks>>

\* The client signs its next update with a time hash of its server.
ClientSends(n) ==
  LET s == client[n].at IN
  /\ s # 0 /\ client[n].sent < MaxUpdates
  /\ \E k \in (client[n].since + 1)..ticks[s] :
       updates' = Delivered(s, n,
         [node |-> n, session |-> client[n].session, counter |-> client[n].sent,
          hash |-> <<s, k>>, signed |-> ticks])
  /\ client' = [client EXCEPT ![n].sent = @ + 1]
  /\ UNCHANGED <<serverVars, clients, ticks, parts, breaks>>

ClientLeaves(n) ==
  /\ client[n].at # 0
  /\ client' = [client EXCEPT ![n].at = 0]
  /\ UNCHANGED <<serverVars, clients, updates, ticks, parts, breaks>>

\* The client's handler has passed on what came before the end.
ClientClosed(s, n) ==
  /\ n \in clients[s] /\ client[n].at # s /\ updates[s][n] = <<>>
  /\ clients' = [clients EXCEPT ![s] = @ \ {n}]
  /\ UNCHANGED <<serverVars, updates, client, ticks, parts, breaks>>

Next ==
  \/ \E s \in Server :
       \/ TimerTick(s)
       \/ \E p \in Others(s) : FromServer(s, p) \/ ServerConnection(s, p) \/ Break(s, p)
       \/ \E n \in Node : ClientMutationsUpdate(s, n) \/ ClientClosed(s, n) \/ ClientConnection(n, s)
  \/ \E n \in Node : ClientSends(n) \/ ClientLeaves(n)

Spec == Init /\ [][Next]_vars

(***************************************************************************)
(* Properties.                                                             *)
(***************************************************************************)
\* The updates of one session that a server applies have growing counters,
\* even after the ratchet has ended and the update comes again by another way:
\* its time proof has ended no later (SimpleVerifier has one ticks_to_live for
\* both).  The order is lost only when another session was applied between.
AppliedInOrder ==
  \A s \in Server : \A i, j \in DOMAIN log[s] :
    i < j /\ log[s][i].node = log[s][j].node /\ log[s][i].session = log[s][j].session =>
      \/ log[s][i].counter < log[s][j].counter
      \/ \E k \in i..j : log[s][k].node = log[s][i].node /\ log[s][k].session # log[s][i].session

\* An update is applied within TicksToLive ticks of the server after it was
\* signed, however many servers it has passed (verify_expansion_chain).
AppliedIsFresh ==
  \A s \in Server : \A i \in DOMAIN log[s] : log[s][i].late < TicksToLive

\* What a server knows of a node is what the last update it applied said, and
\* it knows nothing of a node it has not heard of for TicksToLive ticks.
GraphIsCurrent ==
  \A s \in Server, n \in Node :
    LET mine == {i \in DOMAIN log[s] : log[s][i].node = n}
        m == LET u == log[s][Max(mine)] IN Mutation(u.session, u.counter)
    IN IF n \in DOMAIN ratchets[s]
       THEN HasEdge(graph[s], n, m.friend) <=> m.op = "update"
       ELSE n \notin DOMAIN graph[s]

\* A server never waits on a connection that the other side has left: while it
\* holds one that does not stand, the news of its end is on the way, and the
\* server that has to connect is then trying (FromServer(None), spawn_server).
NoHalfOpen ==
  \A s \in Server : \A p \in Others(s) :
    \/ Alive(s, p)
    \/ peer[s][p] = "connected" /\ Closed \in ToSet(inbox[s][p])
    \/ peer[s][p] = Unconnected(s, p)
============================================================================
