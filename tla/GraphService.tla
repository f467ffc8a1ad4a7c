--------------------------- MODULE GraphService ---------------------------
(***************************************************************************)
(* The graph service of an index server (graph_service.rs): one task owns  *)
(* the graph and serves one request after the other.  Routes are asked of  *)
(* the graph as it is, so what they promise is an invariant of the graph.  *)
(***************************************************************************)
EXTENDS CapacityGraph

CONSTANTS
  Node,          \* public keys of nodes
  Asked,         \* pairs of nodes that routes are asked for
  Excludable,    \* edges that a request may exclude
  Report(_, _)   \* Report(a, b): what node a may report of its friend b

VARIABLE graph

Init == graph = EmptyGraph

ServeUpdateEdge(a, b) == \E e \in Report(a, b) : graph' = UpdateEdge(graph, a, b, e)
ServeRemoveEdge(a, b) == graph' = RemoveEdge(graph, a, b)
ServeRemoveNode(a) == graph' = RemoveNode(graph, a)
ServeTick(a) == graph' = TickNode(graph, a)
ServeMultiRoutes(a, b, cap, exclude) == MultiRoutes(graph, a, b, cap, exclude)

Next ==
  \E a \in Node :
    \/ ServeRemoveNode(a)
    \/ ServeTick(a)
    \/ \E b \in Node \ {a} : ServeUpdateEdge(a, b) \/ ServeRemoveEdge(a, b)

Spec == Init /\ [][Next]_graph

(***************************************************************************)
(* Properties.                                                             *)
(***************************************************************************)
Capacities == {e.send : e \in UNION {Report(a, b) : a, b \in Node}}

\* The edges that a route for cap credits may use, without the search.
Usable(cap, exclude) ==
  {ab \in Node \X Node :
     /\ ab \notin exclude
     /\ HasEdge(graph, ab[1], ab[2])
     /\ IF HasEdge(graph, ab[2], ab[1])
        THEN graph[ab[1]][ab[2]].send >= cap /\ graph[ab[2]][ab[1]].recv >= cap
        ELSE cap = 0}

\* The nodes at most k edges away from a, for every k.
Reach(a, usable) ==
  LET r[k \in 0..Cardinality(Node)] ==
        IF k = 0 THEN {a}
        ELSE LET near == r[k - 1] IN near \cup {b \in Node : \E c \in near : <<c, b>> \in usable}
  IN r

\* What the ways with k edges from a cost, and the node each leads to, for
\* every k: the last edge is paid for as well.
Costs(a, usable) ==
  LET c[k \in 0..Cardinality(Node)] ==
        IF k = 0 THEN {<<a, 0>>}
        ELSE {<<e[2], w[2] + graph[e[1]][e[2]].rate>> :
                <<w, e>> \in {we \in c[k - 1] \X usable : we[1][1] = we[2][1]}}
  IN c

\* A route is found only if the nodes are joined by edges that carry the
\* wanted credits, and then always, unless the rates of a shortest way add up
\* to more than a rate holds (get_route_rate); it is a path along such edges,
\* avoids the excluded edge, is as short as any, and carries and costs what
\* the answer says.
RoutesAreShortest ==
  \A <<a, b>> \in Asked, cap \in Capacities, exclude \in {{}} \cup {{e} : e \in Excludable} :
      LET usable == Usable(cap, exclude)
          reach == Reach(a, usable)
          dist == {k \in DOMAIN reach : b \in reach[k]}
          prices == IF dist = {} THEN {}
                    ELSE {w[2] : w \in {v \in Costs(a, usable)[Min(dist) - 1] : <<v[1], b>> \in usable}}
          answers == ServeMultiRoutes(a, b, cap, exclude)
      IN /\ dist = {} => answers = {}
         /\ (answers = {} /\ dist # {}) => \E p \in prices : p > MaxRate
         /\ \A m \in answers :
              /\ Len(m.route) = Min(dist) + 1
              /\ m.route[1] = a /\ Last(m.route) = b
              /\ \A i \in 1..(Len(m.route) - 1) : <<m.route[i], m.route[i + 1]>> \in usable
              /\ m.capacity >= cap
              /\ \E i \in 1..(Len(m.route) - 1) :
                   SendCapacity(graph, m.route[i], m.route[i + 1]) = m.capacity
              /\ m.rate \in prices /\ m.rate <= MaxRate
============================================================================
