---------------------------- MODULE IndexClient ----------------------------
(***************************************************************************)
(* The index client of a node (index_client/src): it tells an index server *)
(* what the node can forward to and from its friends, asks for routes, and *)
(* moves to the next server of its list when a connection ends.            *)
(*                                                                         *)
(* Tasks that run beside each other:                                       *)
(*   - the main loop (index_client_loop), one event at a time;             *)
(*   - the connection task of try_connect_to_server, which connects, waits *)
(*     for the end of the session and reports it;                          *)
(*   - send_full_state, which starts with a session and sends all friends; *)
(*   - the session (single_client_loop), which passes control messages on  *)
(*     to the server in order;                                             *)
(*   - a task for every open request of routes.                            *)
(* The control channel of the session holds one message of each sender,    *)
(* which goes on when its message was taken.  What the session has taken   *)
(* is at the server; a session is over before the next one begins.         *)
(***************************************************************************)
EXTENDS CapacityGraph, SeqMap

CONSTANTS
  Friend, Value,      \* friends of the node, and what is said of a friend
  Key,                \* public keys of index servers
  Request,            \* ids of requests of routes
  Me,                 \* the node
  InitFriends,        \* IndexClientState.friends when the node starts
  InitServers,        \* IndexClientConfig.index_servers
  MaxOpenRequests, KeepaliveTicks, BackoffTicks,
  MaxChanges,         \* bound: batches of mutations from the application server
  MaxConfigs,         \* bound: index servers added or removed
  MaxFaults           \* bound: connections that fail or break

ASSUME IndexClientAssumption ==
  /\ MaxOpenRequests \in Nat /\ KeepaliveTicks \in Nat \ {0} /\ BackoffTicks \in Nat \ {0}
  /\ MaxChanges \in Nat /\ MaxConfigs \in Nat /\ MaxFaults \in Nat

VARIABLES
  servers,  \* index_servers, the next one to be used first
  conn,     \* conn_status: status, server, sender (opt_control_sender), ticks
  numOpen,  \* num_open_requests
  seq,      \* the friends, a SeqMap
  held,     \* mutations that the main loop applied to the friends and has yet to send
  events,   \* events of the other tasks for the main loop
  task,     \* connection task: phase, and whether cancel_sender was used or dropped
  full,     \* send_full_state: phase, and the update it holds
  session,  \* session: open or not, and SingleClient.open_requests
  control,  \* control channel of the session
  graph,    \* what the index servers know of this node
  answers,  \* answers[r]: answers to r so far, or -1 before it was asked
  left      \* what remains of the bounds

loopVars == <<servers, conn, numOpen, seq, held, answers>>
vars == <<loopVars, events, task, full, session, control, graph, left>>

Empty(n) == [status |-> "empty", server |-> {}, sender |-> FALSE, ticks |-> n]
NoTask == [phase |-> "none", cancelled |-> FALSE]
NoFull == [phase |-> "none", update |-> {}, last |-> FALSE]
NoSession == [open |-> FALSE, requests |-> {}]

UpdateFriend(f, v) == [op |-> "update", friend |-> f, edge |-> v]
RemoveFriend(f) == [op |-> "remove", friend |-> f]

\* AddIndexServer, in the list and in the stored configuration.
WithServer(l, k) == Append(Without(l, k), k)

Spend(b) == left[b] > 0 /\ left' = [left EXCEPT ![b] = @ - 1]

(***************************************************************************)
(* Connecting.                                                             *)
(***************************************************************************)
\* try_connect_to_server with the list l: the first server, which becomes the last.
TryConnect(l) ==
  IF l = <<>>
  THEN conn' = Empty(0) /\ servers' = l /\ UNCHANGED task
  ELSE /\ conn' = [status |-> "connecting", server |-> {Head(l)}, sender |-> FALSE, ticks |-> 0]
       /\ servers' = Append(Tail(l), Head(l))
       /\ task' = [phase |-> "connecting", cancelled |-> FALSE]

Init ==
  /\ conn = [status |-> "connecting", server |-> {Head(InitServers)}, sender |-> FALSE, ticks |-> 0]
  /\ servers = Append(Tail(InitServers), Head(InitServers))
  /\ task = [phase |-> "connecting", cancelled |-> FALSE]
  /\ seq = SeqMapNew(InitFriends)
  /\ numOpen = 0 /\ held = <<>> /\ events = <<>> /\ control = <<>>
  /\ full = NoFull /\ session = NoSession
  /\ graph = EmptyGraph
  /\ answers = [r \in Request |-> -1]
  /\ left = [changes |-> MaxChanges, configs |-> MaxConfigs, faults |-> MaxFaults]

\* The session stands, the full state is being sent, the main loop is told.
Connected ==
  /\ task.phase = "connecting" /\ ~session.open
  /\ task' = [task EXCEPT !.phase = "open"]
  /\ session' = [open |-> TRUE, requests |-> {}]
  /\ full' = [NoFull EXCEPT !.phase = "reset"]
  /\ events' = Append(events, [type |-> "connected"])
  /\ UNCHANGED <<loopVars, control, graph, left>>

\* The connection attempt fails, or it was cancelled, or so was the session.
Ends ==
  /\ \/ task.phase = "connecting" /\ Spend("faults")
     \/ task.phase \in {"connecting", "open"} /\ task.cancelled /\ UNCHANGED left
  /\ task' = [task EXCEPT !.phase = "closing"]
  /\ UNCHANGED <<loopVars, events, full, session, control, graph>>

\* send_full_state is cancelled, and the main loop is told.
Closed ==
  /\ task.phase = "closing"
  /\ task' = NoTask /\ full' = NoFull
  /\ events' = Append(events, [type |-> "closed"])
  /\ UNCHANGED <<loopVars, session, control, graph, left>>

(***************************************************************************)
(* The session.                                                            *)
(***************************************************************************)
Apply(g, m) ==
  IF m.op = "update" THEN UpdateEdge(g, Me, m.friend, m.edge) ELSE RemoveEdge(g, Me, m.friend)

\* The server makes the node's edges older and applies the mutations.
Applied(g, mutations) == FoldLeft(Apply, TickNode(g, Me), mutations)

SessionTakes ==
  /\ session.open /\ control # <<>>
  /\ control' = Tail(control)
  /\ LET m == Head(control) IN
     \/ /\ m.type = "mutations"
        /\ graph' = Applied(graph, m.mutations) /\ UNCHANGED session
     \/ /\ m.type = "routes"
        /\ session' = [session EXCEPT !.requests = @ \cup {m.id}] /\ UNCHANGED graph
  /\ UNCHANGED <<loopVars, events, task, full, left>>

Response(r, ok) == [type |-> "routes", id |-> r, ok |-> ok]

\* The server answers a request: handle_server_message.
ServerResponds(r) ==
  /\ r \in session.requests
  /\ session' = [session EXCEPT !.requests = @ \ {r}]
  /\ events' = Append(events, Response(r, TRUE))
  /\ UNCHANGED <<loopVars, task, full, control, graph, left>>

\* The main loop or send_full_state may still send to the session.
HasSender ==
  \/ conn.sender \/ full.phase \in {"reset", "next", "send"}
  \/ [type |-> "connected"] \in ToSet(events)

\* Slip: a request that the session has not taken yet is forgotten.
FailedOpen == session.requests

\* Requests that end with the session: their response_sender is dropped.
Failed ==
  session.requests
    \cup {control[i].id : i \in {j \in DOMAIN control : control[j].type = "routes"}}

\* The server closes the connection, or the control channel is closed.
SessionEnds ==
  /\ session.open
  /\ \/ Spend("faults")
     \/ ~HasSender /\ control = <<>> /\ UNCHANGED left
  /\ session' = NoSession /\ control' = <<>>
  /\ LET failed == SetToSeq(Failed) IN
     events' = events \o [i \in DOMAIN failed |-> Response(failed[i], FALSE)]
  /\ task' = IF task.phase = "open" THEN [task EXCEPT !.phase = "closing"] ELSE task
  /\ UNCHANGED <<loopVars, full, graph>>

\* External: an index server that the node has not spoken to for long forgets it.
ServerForgets ==
  /\ ~session.open /\ graph # EmptyGraph
  /\ graph' = EmptyGraph
  /\ UNCHANGED <<loopVars, events, task, full, session, control, left>>

(***************************************************************************)
(* send_full_state.                                                        *)
(***************************************************************************)
\* next_update of the friends s: the friend whose turn it is, as it is now.
NextUpdate(s) == UpdateFriend(SeqFront(s).key, SeqFront(s).value)

Sent(from, mutations) == [from |-> from, type |-> "mutations", mutations |-> mutations]
Idle(from) == \A i \in DOMAIN control : control[i].from # from

FullReset ==
  /\ full.phase = "reset"
  /\ seq' = ResetCountdown(seq)
  /\ full' = [full EXCEPT !.phase = "next"]
  /\ UNCHANGED <<servers, conn, numOpen, held, answers, events, task, session, control, graph, left>>

FullNext ==
  /\ full.phase = "next" /\ Idle("full")
  /\ seq' = SeqNext(seq)
  /\ full' = IF seq.queue = <<>> THEN NoFull
             ELSE [phase |-> "send", update |-> {NextUpdate(seq)},
                   last |-> seq'.countdown = 0]
  /\ UNCHANGED <<servers, conn, numOpen, held, answers, events, task, session, control, graph, left>>

\* The update is sent as it was when it was taken from the friends.
FullSend ==
  /\ full.phase = "send"
  /\ control' = IF session.open THEN Append(control, Sent("full", SetToSeq(full.update))) ELSE control
  /\ full' = IF session.open /\ ~full.last THEN [NoFull EXCEPT !.phase = "next"] ELSE NoFull
  /\ UNCHANGED <<loopVars, events, task, session, graph, left>>

(***************************************************************************)
(* The main loop.                                                          *)
(***************************************************************************)
\* The loop waits neither for the session nor for the friends.
MainIdle == Idle("main") /\ held = <<>>

\* Sending to the session: the sender is kept if the session stands.
Send(msg, c) ==
  /\ control' = IF session.open THEN Append(control, msg) ELSE control
  /\ conn' = [c EXCEPT !.sender = session.open]

\* The mutations with the state of the friend whose turn it is in s.
WithNext(s, mutations) ==
  IF s.queue = <<>> THEN mutations
  ELSE Append(mutations, NextUpdate(s))

TimerTick ==
  /\ MainIdle
  /\ \/ /\ conn.status = "empty"
        /\ LET n == IF conn.ticks > 0 THEN conn.ticks - 1 ELSE 0 IN
           IF n = 0 THEN TryConnect(servers) ELSE conn' = Empty(n) /\ UNCHANGED <<servers, task>>
        /\ UNCHANGED <<seq, control>>
     \/ /\ conn.status = "connected" /\ conn.sender
        /\ IF conn.ticks > 1
           THEN conn' = [conn EXCEPT !.ticks = @ - 1] /\ UNCHANGED <<seq, control>>
           ELSE /\ Send(Sent("main", WithNext(seq, <<>>)), [conn EXCEPT !.ticks = KeepaliveTicks])
                /\ seq' = SeqNext(seq)
        /\ UNCHANGED <<servers, task>>
  /\ UNCHANGED <<numOpen, held, answers, events, full, session, graph, left>>

SeqMutate(s, m) == IF m.op = "update" THEN SeqUpdate(s, m.friend, m.edge) ELSE SeqRemove(s, m.friend)

\* The friends change; when a server is connected the loop then asks them for the
\* update that goes along, and send_full_state may ask for its own meanwhile.
ApplyMutations(mutations) ==
  /\ MainIdle /\ Spend("changes")
  /\ seq' = FoldLeft(SeqMutate, seq, mutations)
  /\ held' = IF conn.sender THEN mutations ELSE <<>>
  /\ UNCHANGED <<servers, conn, numOpen, answers, events, task, full, session, control, graph>>

SendMutations ==
  /\ held # <<>> /\ held' = <<>>
  /\ Send(Sent("main", WithNext(seq, held)), [conn EXCEPT !.ticks = KeepaliveTicks])
  /\ seq' = SeqNext(seq)
  /\ UNCHANGED <<servers, numOpen, answers, events, task, full, session, graph, left>>

Answer(r) == answers' = [answers EXCEPT ![r] = @ + 1]

RequestRoutes(r) ==
  /\ MainIdle /\ answers[r] = -1
  /\ IF numOpen >= MaxOpenRequests \/ ~conn.sender \/ ~session.open
     THEN /\ answers' = [answers EXCEPT ![r] = 1]  \* return_response_routes_failure
          /\ conn' = [conn EXCEPT !.sender = @ /\ (numOpen >= MaxOpenRequests \/ session.open)]
          /\ UNCHANGED <<numOpen, control>>
     ELSE /\ answers' = [answers EXCEPT ![r] = 0]
          /\ numOpen' = numOpen + 1
          /\ control' = Append(control, [from |-> "main", type |-> "routes", id |-> r])
          /\ UNCHANGED conn
  /\ UNCHANGED <<servers, seq, held, events, task, full, session, graph, left>>

AddIndexServer(k) ==
  /\ MainIdle /\ Spend("configs")
  /\ LET l == WithServer(servers, k) IN
     IF conn.status = "empty" THEN TryConnect(l) ELSE servers' = l /\ UNCHANGED <<conn, task>>
  /\ UNCHANGED <<numOpen, seq, held, answers, events, full, session, control, graph>>

Cancels(k) == conn.server = {k}

\* The connection to the server is cancelled, whether it stands already or not.
RemoveIndexServer(k) ==
  /\ MainIdle /\ Spend("configs")
  /\ servers' = Without(servers, k)
  /\ IF Cancels(k)
     THEN task' = [task EXCEPT !.cancelled = TRUE] /\ conn' = [conn EXCEPT !.sender = FALSE]
     ELSE UNCHANGED <<task, conn>>
  /\ UNCHANGED <<numOpen, seq, held, answers, events, full, session, control, graph>>

HandleConnected ==
  /\ conn' = IF conn.status # "connecting" THEN conn
             ELSE [conn EXCEPT !.status = "connected", !.sender = TRUE, !.ticks = KeepaliveTicks]
  /\ UNCHANGED <<numOpen, answers>>

HandleClosed ==
  /\ conn' = Empty(BackoffTicks)
  /\ UNCHANGED <<numOpen, answers>>

HandleResponseRoutes(r) ==
  /\ numOpen' = numOpen - 1
  /\ Answer(r)
  /\ UNCHANGED conn

HandleEvent ==
  /\ MainIdle /\ events # <<>>
  /\ events' = Tail(events)
  /\ \/ Head(events).type = "connected" /\ HandleConnected
     \/ Head(events).type = "closed" /\ HandleClosed
     \/ Head(events).type = "routes" /\ HandleResponseRoutes(Head(events).id)
  /\ UNCHANGED <<servers, seq, held, task, full, session, control, graph, left>>

Next ==
  \/ Connected \/ Ends \/ Closed
  \/ SessionTakes \/ SessionEnds \/ ServerForgets
  \/ FullReset \/ FullNext \/ FullSend
  \/ TimerTick \/ HandleEvent \/ SendMutations
  \/ \E f \in Friend : ApplyMutations(<<RemoveFriend(f)>>) \/ \E v \in Value : ApplyMutations(<<UpdateFriend(f, v)>>)
  \/ \E r \in Request : RequestRoutes(r) \/ ServerResponds(r)
  \/ \E k \in Key : AddIndexServer(k) \/ RemoveIndexServer(k)

Spec == Init /\ [][Next]_vars

\* The tasks and the session go on; the main loop, which takes its events from
\* several streams in turn, does not neglect one of them forever; connection
\* attempts succeed but for MaxFaults of them; the server answers.
Fairness ==
  /\ WF_vars(Connected) /\ WF_vars(Ends) /\ WF_vars(Closed)
  /\ WF_vars(SessionTakes) /\ WF_vars(SessionEnds)
  /\ WF_vars(FullReset) /\ WF_vars(FullNext) /\ WF_vars(FullSend)
  /\ WF_vars(TimerTick) /\ WF_vars(SendMutations) /\ SF_vars(HandleEvent)
  /\ \A r \in Request : WF_vars(ServerResponds(r))

FairSpec == Spec /\ Fairness

(***************************************************************************)
(* Properties.                                                             *)
(***************************************************************************)
Outstanding ==
  session.requests
    \cup {control[i].id : i \in {j \in DOMAIN control : control[j].type = "routes"}}
    \cup {events[i].id : i \in {j \in DOMAIN events : events[j].type = "routes"}}

\* Every request that was accepted is in exactly one place until it is answered:
\* num_open_requests counts them, is within its limit, and its checked_sub in
\* handle_response_routes never fails, whenever a session ends.
OpenRequestsAreCounted ==
  /\ numOpen = Cardinality(Outstanding) /\ numOpen <= MaxOpenRequests
  /\ Outstanding = {r \in Request : answers[r] = 0}

Known == Edges(graph, Me)
ServerKnows ==
  /\ DOMAIN Known = DOMAIN seq.map
  /\ \A f \in DOMAIN Known :
       [send |-> Known[f].send, recv |-> Known[f].recv, rate |-> Known[f].rate] = seq.map[f]

\* When there is a server to talk to and the friends no longer change, the
\* servers come to know the friends and keep knowing them, though
\* send_full_state may send what it read before a change after the change
\* itself, may leave out a friend that changed meanwhile, and may bring back one
\* that was removed: the rotation of SeqMap repairs the first two before the
\* edges are too old, and age removes the last.
ServerLearns == <>[](servers # <<>>) => <>[]ServerKnows
============================================================================
