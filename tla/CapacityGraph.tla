--------------------------- MODULE CapacityGraph ---------------------------
(***************************************************************************)
(* The capacity graph of an index server (index_server/src/graph): what    *)
(* every node reports of its friends, and the search for a route.          *)
(*                                                                         *)
(* A graph maps a node to its edges, and those map a friend to what the    *)
(* node said of it last: the capacities to send and to receive, the rate   *)
(* charged, and the edge's age in messages of the node.  A rate is a       *)
(* number: Rate's two parts (u32) are added in the same way, and a sum     *)
(* that does not fit has no value.                                         *)
(***************************************************************************)
EXTENDS Integers, Sequences, FiniteSets, SequencesExt, FiniteSetsExt

CONSTANTS
  BaseMaxEdgeAge,  \* BASE_MAX_EDGE_AGE (16)
  EdgeAgeFactor,   \* messages allowed for each edge of the node (3)
  MaxRate          \* the largest rate (u32::max_value)

ASSUME CapacityGraphAssumption ==
  BaseMaxEdgeAge \in Nat \ {0} /\ EdgeAgeFactor \in Nat /\ MaxRate \in Nat

EmptyGraph == [a \in {} |-> 0]

Edges(g, a) == IF a \in DOMAIN g THEN g[a] ELSE EmptyGraph

HasEdge(g, a, b) == b \in DOMAIN Edges(g, a)

SetEdges(g, a, edges) == [n \in DOMAIN g \cup {a} |-> IF n = a THEN edges ELSE g[n]]

(***************************************************************************)
(* Changes.                                                                *)
(***************************************************************************)
UpdateEdge(g, a, b, e) ==
  LET edge == [send |-> e.send, recv |-> e.recv, rate |-> e.rate, age |-> 0] IN
  SetEdges(g, a, [c \in DOMAIN Edges(g, a) \cup {b} |-> IF c = b THEN edge ELSE g[a][c]])

RemoveNode(g, a) == [n \in DOMAIN g \ {a} |-> g[n]]

\* A node goes with its last edge.
RemoveEdge(g, a, b) ==
  IF ~HasEdge(g, a, b) THEN g
  ELSE IF DOMAIN g[a] = {b} THEN RemoveNode(g, a)
  ELSE SetEdges(g, a, [c \in DOMAIN g[a] \ {b} |-> g[a][c]])

MaxEdgeAge(edges) == BaseMaxEdgeAge + EdgeAgeFactor * Cardinality(DOMAIN edges)

\* Every edge of a becomes older, and goes when it is too old; the node
\* stays, even without edges.
TickNode(g, a) ==
  IF a \notin DOMAIN g THEN g
  ELSE SetEdges(g, a, [b \in {c \in DOMAIN g[a] : g[a][c].age + 1 < MaxEdgeAge(g[a])} |->
                         [g[a][b] EXCEPT !.age = @ + 1]])

(***************************************************************************)
(* Routes.                                                                 *)
(***************************************************************************)
SendCapacity(g, a, b) ==
  IF HasEdge(g, a, b) /\ HasEdge(g, b, a) THEN Min({g[a][b].send, g[b][a].recv}) ELSE 0

\* Friends of a that take cap credits from it, without the excluded edges (none or one).
Neighbors(g, a, cap, exclude) ==
  {b \in DOMAIN Edges(g, a) : SendCapacity(g, a, b) >= cap /\ <<a, b>> \notin exclude}

\* Slip: the nodes found last are looked at first.
BfsPushFront(queue, new) == new \o Tail(queue)

BfsPush(queue, new) == Tail(queue) \o new

\* bfs: the route to every node that was seen and the queue of those whose
\* friends were not looked at yet; the search ends when dst was seen or the
\* queue is empty.  Every node enters the queue at most once.
Bfs(g, src, dst, cap, exclude) ==
  LET round(st) ==
        LET node == Head(st.queue)
            new == SetToSeq(Neighbors(g, node, cap, exclude) \ DOMAIN st.route)
        IN [queue |-> BfsPush(st.queue, new),
            route |-> [n \in DOMAIN st.route \cup ToSet(new) |->
                         IF n \in DOMAIN st.route THEN st.route[n] ELSE Append(st.route[node], n)]]
      nodes == {src} \cup UNION {DOMAIN g[a] : a \in DOMAIN g}
      after[k \in 0..Cardinality(nodes)] ==
        IF k = 0 THEN [queue |-> <<src>>, route |-> [n \in {src} |-> <<src>>]]
        ELSE LET st == after[k - 1] IN
             IF st.queue = <<>> \/ (dst # src /\ dst \in DOMAIN st.route) THEN st ELSE round(st)
      found == after[Cardinality(nodes)].route
  IN IF dst # src /\ dst \in DOMAIN found THEN {found[dst]} ELSE {}

\* The least capacity along the route.
RouteCapacity(g, route) ==
  Min({SendCapacity(g, route[i], route[i + 1]) : i \in 1..(Len(route) - 1)})

\* The sum of the rates of all the edges but the last, if it fits.
RouteRate(g, route) ==
  LET upTo[i \in 0..(Len(route) - 2)] ==
        IF i = 0 THEN 0 ELSE upTo[i - 1] + g[route[i]][route[i + 1]].rate
  IN {upTo[Len(route) - 2]} \cap 0..MaxRate

\* get_multi_routes: the one route that was found, if any, and if its rate fits.
MultiRoutes(g, a, b, cap, exclude) ==
  LET routes == Bfs(g, a, b, cap, exclude)
      answer(r) == {[route |-> r, capacity |-> RouteCapacity(g, r), rate |-> rate] :
                      rate \in RouteRate(g, r)}
  IN UNION {answer(r) : r \in routes}
============================================================================
