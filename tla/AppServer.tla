----------------------------- MODULE AppServer -----------------------------
(***************************************************************************)
(* The application server of a node (app_server/src/server.rs) between the *)
(* applications, the funder and the index client.  It keeps the report of  *)
(* the node, gives it to every application that connects, passes on every  *)
(* change of it, and remembers which application has asked for what.       *)
(*                                                                         *)
(* It is one loop that handles one event at a time; what a handler sends   *)
(* is in `aout' and leaves in order, each message when its channel has     *)
(* room.  Until all has left, no other event is handled.  An application   *)
(* here is one connection: it connects once.  A request is one the         *)
(* application has sent at some time before it is handled.                 *)
(***************************************************************************)
EXTENDS Report

CONSTANTS
  App,          \* connections of applications
  Permissions,  \* Permissions[p]: subset of {"config", "buyer", "routes"}; seller is as config
  QueueLen      \* messages that a channel holds (channel_len and one more)

\* A message of the application server is for one of these or for an application.
ASSUME AppAssumption == {"client", "funder"} \cap App = {}

VARIABLES
  report,      \* node_report.funder_report
  servers,     \* node_report.index_client_report: index servers
  apps,        \* apps: the connections that are open
  requesters,  \* route_requests and transactions: the application of a request
  aout,        \* messages of the current handler that were not sent yet
  toFunder, fromFunder, toClient, fromClient,  \* channels
  toApp,       \* toApp[p]: messages for p on their way
  appState     \* appState[p]: "new", "open" or "closed"

channels == <<toFunder, fromFunder, toClient, fromClient>>
appVars == <<toApp, appState>>
serverVars == <<report, servers, apps, requesters>>

Room(queue) == Len(queue) < QueueLen
NoKeys == [x \in {} |-> 0]

AppServerInit(r, s) ==
  /\ report = r /\ servers = s
  /\ apps = {} /\ requesters = NoKeys /\ aout = <<>>
  /\ toFunder = <<>> /\ fromFunder = <<>> /\ toClient = <<>> /\ fromClient = <<>>
  /\ toApp = [p \in App |-> <<>>]
  /\ appState = [p \in App |-> "new"]

Item(to, msg) == [to |-> to, msg |-> msg]
ToEach(ps, msg) == LET s == SetToSeq(ps) IN [i \in DOMAIN s |-> Item(s[i], msg)]
Mutations(id, ms, added) == [type |-> "mutations", id |-> id, ms |-> ms, added |-> added]

\* handle_incoming_connection: the report goes to the application first.
IncomingConnection(p) ==
  /\ aout = <<>> /\ appState[p] = "new"
  /\ appState' = [appState EXCEPT ![p] = "open"]
  /\ aout' = <<Item(p, [type |-> "report", report |-> report, servers |-> servers])>>
  /\ apps' = apps \cup {p}
  /\ UNCHANGED <<report, servers, requesters, channels, toApp>>

\* Slip: what follows from a request is reported to the one who asked only.
BroadcastToRequester(msg) == ToEach({p \in apps : \A i \in msg.id : i[1] = p}, msg)

\* broadcast_node_report_mutations.
Broadcast(msg) == ToEach(apps, msg)

\* An answer goes to the application that asked, if it is still there.
Answer(msg) ==
  /\ requesters' = Drop(requesters, msg.id)
  /\ aout' = IF msg.id \in DOMAIN requesters /\ requesters[msg.id] \in apps
             THEN <<Item(requesters[msg.id], msg)>> ELSE <<>>
  /\ UNCHANGED <<report, servers>>

\* handle_from_funder: ReportMutations, or the result of a transaction.
FromFunder ==
  /\ aout = <<>> /\ fromFunder # <<>>
  /\ fromFunder' = Tail(fromFunder)
  /\ LET m == Head(fromFunder) IN
     \/ /\ m.type = "mutations"
        /\ LET index == IndexMutations(report, m.ms) IN
           aout' = (IF index = <<>> THEN <<>> ELSE <<Item("client", [type |-> "apply", ms |-> index])>>)
                     \o Broadcast(m)
        /\ report' = MutateAll(report, m.ms)
        /\ UNCHANGED <<servers, requesters>>
     \/ m.type = "result" /\ Answer(m)
  /\ UNCHANGED <<apps, toFunder, toClient, fromClient, appVars>>

\* handle_from_index_client: ReportMutations, or routes.
FromIndexClient ==
  /\ aout = <<>> /\ fromClient # <<>>
  /\ fromClient' = Tail(fromClient)
  /\ LET m == Head(fromClient) IN
     \/ /\ m.type = "mutations"
        /\ aout' = Broadcast(m)
        /\ servers' = servers \cup m.added
        /\ UNCHANGED <<report, requesters>>
     \/ m.type = "result" /\ Answer(m)
  /\ UNCHANGED <<apps, toFunder, fromFunder, toClient, appVars>>

\* check_permissions, by the kind of the request.
CheckPermissions(p, kind) ==
  CASE kind \in {"transaction", "close"} -> "buyer" \in Permissions[p]
    [] kind = "routes" -> "routes" \in Permissions[p]
    [] OTHER -> "config" \in Permissions[p]

Destination(kind) == IF kind \in {"routes", "server"} THEN "client" ELSE "funder"

\* handle_app_message: a request that is not permitted is dropped.  The
\* application of a request to close a payment is not noted.
FromApp(p, m) ==
  /\ aout = <<>> /\ p \in apps
  /\ IF CheckPermissions(p, m.kind)
     THEN /\ aout' = <<Item(Destination(m.kind), m)>>
          /\ requesters' = IF m.kind \in {"routes", "transaction"}
                           THEN Put(requesters, m.id, p) ELSE requesters
     ELSE UNCHANGED <<aout, requesters>>
  /\ UNCHANGED <<report, servers, apps, channels, appVars>>

\* handle_from_app, at the end of the connection.
AppEnded(p) ==
  /\ aout = <<>> /\ p \in apps /\ appState[p] = "closed"
  /\ apps' = apps \ {p}
  /\ UNCHANGED <<report, servers, requesters, aout, channels, appVars>>

\* The next message leaves; one for an application that has gone is dropped.
AppServerSends ==
  /\ aout # <<>> /\ aout' = Tail(aout)
  /\ LET to == Head(aout).to
         msg == Head(aout).msg
     IN \/ /\ to = "funder" /\ Room(toFunder)
           /\ toFunder' = Append(toFunder, msg) /\ UNCHANGED <<toClient, toApp>>
        \/ /\ to = "client" /\ Room(toClient)
           /\ toClient' = Append(toClient, msg) /\ UNCHANGED <<toFunder, toApp>>
        \/ /\ to \in App /\ (appState[to] = "closed" \/ Room(toApp[to]))
           /\ toApp' = IF appState[to] = "closed" THEN toApp ELSE [toApp EXCEPT ![to] = Append(@, msg)]
           /\ UNCHANGED <<toFunder, toClient>>
  /\ UNCHANGED <<serverVars, fromFunder, fromClient, appState>>
============================================================================
