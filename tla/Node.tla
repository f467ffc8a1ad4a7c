------------------------------- MODULE Node -------------------------------
(***************************************************************************)
(* A node (node/src/node.rs): the loop of the funder (funder/src/funder.rs *)
(* and handler.rs), the application server, the loop of the index client   *)
(* as far as they talk to each other, the database that the funder and the *)
(* index client share (database/src), and the end and restart of the node. *)
(*                                                                         *)
(* Every loop handles one event at a time and waits while a channel that   *)
(* it sends to is full.  A change of the funder's state is written before  *)
(* anything that follows from it is sent; what a handler does to a friend  *)
(* is reduced to a new status, to the capacities that its channel has one  *)
(* after the other, or to both, and to a message to the friend that shows  *)
(* the new state (by its number).                                          *)
(***************************************************************************)
EXTENDS AppServer

CONSTANTS
  Friend,
  Cap,           \* capacities that a channel may have; 0 may be one of them
  IndexServer,   \* index servers that may be added
  InitFriends,   \* the friends when the node is first started
  Kinds,         \* requests that the applications send
  MaxRequests,   \* bound: MaxRequests[p], requests of the application p
  MaxEvents,     \* bound: events from the channeler
  Changes,       \* what one handler may do to a channel: capacities one after the other
  MaxCrashes     \* bound: crashes, or writes that fail

ASSUME NodeAssumption ==
  /\ QueueLen \in Nat \ {0}
  /\ InitFriends \in [DOMAIN InitFriends -> [enabled : BOOLEAN, cap : Cap \cup {0}]]
  /\ Changes \subseteq Seq(Cap \cup {0})
  /\ MaxRequests \in [App -> Nat] /\ MaxEvents \in Nat /\ MaxCrashes \in Nat

VARIABLES
  friends,   \* FunderState.friends
  number,    \* changes of the funder's state so far
  online,    \* Ephemeral.liveness
  fout,      \* messages of the funder's handler that were not sent yet
  config,    \* index servers in the memory of the index client
  known,     \* capacities in the memory of the index client
  cout,      \* messages of the index client that were not sent yet
  disk,      \* the state in the file
  writes,    \* requests to the database that were not handled yet
  view,      \* view[p]: the report as the application p knows it
  sent,      \* sent[p]: requests of p so far
  told,      \* history: the newest number that a friend was shown
  odd,       \* history: friends added while still online
  misled,    \* history: friends of whom the last that the index client was told is wrong
  left       \* what remains of the bounds

funderVars == <<friends, number, online, fout>>
clientVars == <<config, known, cout>>
historyVars == <<told, odd, misled>>
vars == <<serverVars, aout, channels, appVars, funderVars, clientVars, disk, writes,
          view, sent, historyVars, left>>

NoView == [report |-> NoKeys, servers |-> {}]

\* What is in the file, a request w to change it, and the report made of it.
NodeState(fs, n, c) == [friends |-> fs, number |-> n, config |-> c]
Mutate(d, w) ==
  IF w.by = "funder" THEN NodeState(w.friends, w.number, d.config)
  ELSE NodeState(d.friends, d.number, d.config \cup w.added)
CreateNodeReport(d) == [report |-> CreateReport(d.friends, {}), servers |-> d.config]

\* DatabaseClient::mutate: the request; the caller waits until it was handled.
Requested(w) == Append(writes, w)
Writing(who) == \E i \in DOMAIN writes : writes[i].by = who

Spend(b) == left[b] > 0 /\ left' = [left EXCEPT ![b] = @ - 1]

Init ==
  /\ friends = InitFriends /\ number = 0 /\ online = {}
  /\ fout = <<>> /\ cout = <<>> /\ writes = <<>>
  /\ config = {} /\ known = NoKeys
  /\ disk = NodeState(InitFriends, 0, {})
  /\ LET r == CreateNodeReport(disk) IN AppServerInit(r.report, r.servers)
  /\ view = [p \in App |-> NoView] /\ sent = [p \in App |-> 0]
  /\ told = 0
  /\ odd = {} /\ misled = {}
  /\ left = [events |-> MaxEvents, crashes |-> MaxCrashes]

(***************************************************************************)
(* The funder.                                                             *)
(***************************************************************************)
FunderIdle == fout = <<>> /\ ~Writing("funder")

\* Slip: the messages do not wait for the database.
CanSendAtOnce == TRUE

CanSend == ~Writing("funder")

\* The end of inner_funder_loop's body, for a handler that leaves the friends
\* new and the liveness live and reports ms: id is the request's, if any, extra
\* are control messages, and shown tells whether a friend is sent a message.
Handled(new, live, ms, id, extra, shown) ==
  /\ friends' = new /\ online' = live
  /\ number' = IF new # friends THEN number + 1 ELSE number
  /\ writes' = IF new = friends THEN writes
               ELSE Requested([by |-> "funder", friends |-> new, number |-> number + 1])
  /\ fout' = (IF shown THEN <<Item("friend", number')>> ELSE <<>>)
               \o (IF ms = <<>> /\ id = {} THEN <<>> ELSE <<Item("app", Mutations(id, ms, {}))>>)
               \o extra

\* A handler that changes f's channel gives it the capacities cs, one after the
\* other, and reports each of them (McMutation, SetDirection).
ChannelReports(f, cs) == [i \in DOMAIN cs |-> SetField(f, "cap", cs[i])]
ChangeChannel(f, cs) == IF cs = <<>> THEN friends ELSE [friends EXCEPT ![f].cap = Last(cs)]

\* control_set_friend_rate: a rate as before is not reported; a rate without
\* capacity makes no difference.
NewRates(f) ==
  {<<>>} \cup IF friends[f].cap = 0 THEN {} ELSE {<<c>> : c \in Cap \ {0, friends[f].cap}}

\* A request that fails changes nothing, and is still reported.
ControlRefused(m) == Handled(friends, online, <<>>, {m.id}, <<>>, FALSE)

\* handle_control_message.
Control ==
  /\ FunderIdle /\ toFunder # <<>>
  /\ toFunder' = Tail(toFunder)
  /\ LET m == Head(toFunder)
         f == m.friend
     IN \/ /\ m.kind = "add"
           /\ IF f \in DOMAIN friends THEN ControlRefused(m)
              ELSE Handled(Put(friends, f, [enabled |-> FALSE, cap |-> 0]), online,
                           <<AddFriendReport(f, 0)>>, {m.id}, <<>>, FALSE)
           /\ odd' = IF f \in online \ DOMAIN friends THEN odd \cup {f} ELSE odd
        \/ /\ m.kind = "remove"
           /\ IF f \notin DOMAIN friends THEN ControlRefused(m)
              ELSE Handled(Drop(friends, f), online, <<RemoveFriendReport(f)>>, {m.id}, <<>>, FALSE)
           /\ odd' = odd \ {f}
        \/ /\ m.kind \in {"enable", "disable"}
           /\ LET on == m.kind = "enable" IN
              IF f \notin DOMAIN friends THEN ControlRefused(m)
              ELSE Handled([friends EXCEPT ![f].enabled = on], online,
                           <<SetField(f, "enabled", on)>>, {m.id}, <<>>, FALSE)
           /\ UNCHANGED odd
        \/ /\ m.kind = "rate"
           /\ IF f \notin DOMAIN friends THEN ControlRefused(m)
              ELSE \E cs \in NewRates(f) :
                     Handled(ChangeChannel(f, cs), online, ChannelReports(f, cs), {m.id}, <<>>, FALSE)
           /\ UNCHANGED odd
        \/ /\ m.kind \in {"transaction", "close"}
           /\ \E cs \in IF m.kind = "transaction" /\ f \in DOMAIN friends /\ f \in online
                        THEN Changes ELSE {<<>>} :
                Handled(ChangeChannel(f, cs), online, ChannelReports(f, cs), {m.id},
                        <<Item("app", [type |-> "result", id |-> m.id])>>, cs # <<>>)
           /\ UNCHANGED odd
  /\ UNCHANGED <<serverVars, aout, fromFunder, toClient, fromClient, appVars, clientVars, disk,
                 view, sent, told, misled, left>>

\* handle_liveness_message and handle_friend_message.  A friend that comes online
\* with the token on this side is sent what was waiting for it: its channel
\* changes in the same batch.  A message is applied and answered in one batch: a
\* request that is taken and canceled at once changes the channel and changes it
\* back.  An event that is refused changes nothing.
Comm(type, f) ==
  /\ FunderIdle /\ Spend("events")
  /\ \/ /\ type = "online"
        /\ IF f \in DOMAIN friends /\ friends[f].enabled /\ f \notin online
           THEN \E cs \in Changes :
                  Handled(ChangeChannel(f, cs), online \cup {f},
                          ChannelReports(f, cs) \o LivenessReport(friends, f, TRUE), {}, <<>>, TRUE)
           ELSE UNCHANGED <<funderVars, writes>>
        /\ UNCHANGED odd
     \/ /\ type = "offline"
        /\ Handled(friends, online \ {f}, LivenessReport(friends, f, FALSE), {}, <<>>, FALSE)
        /\ odd' = odd \ {f}
     \/ /\ type = "message"
        /\ IF f \in DOMAIN friends
           THEN \E cs \in Changes :
                  Handled(ChangeChannel(f, cs), online, ChannelReports(f, cs), {}, <<>>, TRUE)
           ELSE UNCHANGED <<funderVars, writes>>
        /\ UNCHANGED odd
  /\ UNCHANGED <<serverVars, aout, channels, appVars, clientVars, disk, view, sent, told, misled>>

FunderSends ==
  /\ CanSend /\ fout # <<>>
  /\ fout' = Tail(fout)
  /\ LET x == Head(fout) IN
     \/ x.to = "friend" /\ told' = x.msg /\ UNCHANGED fromFunder
     \/ x.to = "app" /\ Room(fromFunder) /\ fromFunder' = Append(fromFunder, x.msg) /\ UNCHANGED told
  /\ UNCHANGED <<serverVars, aout, toFunder, toClient, fromClient, appVars, friends, number, online,
                 clientVars, disk, writes, view, sent, odd, misled, left>>

(***************************************************************************)
(* The index client.                                                       *)
(***************************************************************************)
\* handle_from_app_server.  A server that is added is written first; the report
\* of a request of routes goes before the routes.
ClientTakes ==
  /\ cout = <<>> /\ ~Writing("client") /\ toClient # <<>>
  /\ toClient' = Tail(toClient)
  /\ LET m == Head(toClient) IN
     IF m.type = "apply"
     THEN /\ known' = ApplyIndexMutations(known, m.ms)
          /\ UNCHANGED <<config, cout, writes>>
     ELSE IF m.kind = "server"
     THEN /\ \E k \in IndexServer :
               /\ writes' = Requested([by |-> "client", added |-> {k}])
               /\ config' = config \cup {k}
               /\ cout' = <<Mutations({m.id}, <<>>, {k})>>
          /\ UNCHANGED known
     ELSE /\ cout' = <<Mutations({m.id}, <<>>, {}), [type |-> "result", id |-> m.id]>>
          /\ UNCHANGED <<config, known, writes>>
  /\ UNCHANGED <<serverVars, aout, toFunder, fromFunder, fromClient, appVars, funderVars, disk,
                 view, sent, historyVars, left>>

ClientSends ==
  /\ cout # <<>> /\ ~Writing("client") /\ Room(fromClient)
  /\ cout' = Tail(cout)
  /\ fromClient' = Append(fromClient, Head(cout))
  /\ UNCHANGED <<serverVars, aout, toFunder, fromFunder, toClient, appVars, funderVars,
                 config, known, disk, writes, view, sent, historyVars, left>>

(***************************************************************************)
(* The database, crashes.                                                  *)
(***************************************************************************)
\* mutate_db, with an atomic write, and the answer to the one who asked.
DatabaseWrites ==
  /\ writes # <<>>
  /\ writes' = Tail(writes)
  /\ disk' = Mutate(disk, Head(writes))
  /\ UNCHANGED <<serverVars, aout, channels, appVars, funderVars, clientVars,
                 view, sent, historyVars, left>>

\* The node ends, for whatever reason: any of its loops returning an error (a
\* write that fails is one) ends all of them.  It starts again from the file.
Crash ==
  /\ Spend("crashes")
  /\ friends' = disk.friends /\ number' = disk.number /\ online' = {}
  /\ fout' = <<>> /\ cout' = <<>> /\ writes' = <<>>
  /\ config' = disk.config
  /\ LET r == CreateNodeReport(disk) IN
     report' = r.report /\ servers' = r.servers /\ known' = IndexClientState(r.report)
  /\ apps' = {} /\ requesters' = NoKeys /\ aout' = <<>>
  /\ toFunder' = <<>> /\ fromFunder' = <<>> /\ toClient' = <<>> /\ fromClient' = <<>>
  /\ toApp' = [p \in App |-> <<>>]
  /\ appState' = [p \in App |-> IF appState[p] = "open" THEN "closed" ELSE appState[p]]
  /\ odd' = {} /\ misled' = {}
  /\ view' = [p \in App |-> NoView]
  /\ UNCHANGED <<disk, sent, told>>

(***************************************************************************)
(* The applications.                                                       *)
(***************************************************************************)
\* What an application knows after the message m: mutate of its report.
After(v, m) ==
  IF m.type = "report" THEN [report |-> m.report, servers |-> m.servers]
  ELSE IF m.type = "mutations"
  THEN [report |-> MutateAll(v.report, m.ms), servers |-> v.servers \cup m.added]
  ELSE v

AppTakes(p) ==
  /\ toApp[p] # <<>>
  /\ toApp' = [toApp EXCEPT ![p] = Tail(@)]
  /\ view' = [view EXCEPT ![p] = After(@, Head(toApp[p]))]
  /\ UNCHANGED <<serverVars, aout, channels, appState, funderVars, clientVars, disk, writes,
                 sent, historyVars, left>>

AppCloses(p) ==
  /\ appState[p] = "open"
  /\ appState' = [appState EXCEPT ![p] = "closed"]
  /\ toApp' = [toApp EXCEPT ![p] = <<>>]
  /\ view' = [view EXCEPT ![p] = NoView]
  /\ UNCHANGED <<serverVars, aout, channels, funderVars, clientVars, disk, writes,
                 sent, historyVars, left>>

\* The friends of whom the batch ms, each mutation of it compared with the report
\* r before the batch, tells the index client something wrong: those who came
\* online with another capacity than before, and those whose capacity was changed
\* and changed back.
Misleads(r, ms) ==
  LET sets(f, field) == {i \in DOMAIN ms : ms[i].op = "set" /\ ms[i].friend = f /\ ms[i].field = field}
      same(f) == MutateAll(r, ms)[f].cap = r[f].cap
  IN {f \in DOMAIN r \cap DOMAIN MutateAll(r, ms) :
        IF sets(f, "online") # {} THEN ~same(f)
        ELSE /\ r[f].enabled /\ r[f].online /\ same(f)
             /\ \E i \in sets(f, "cap") : ms[i].value # r[f].cap}

\* What the index client was told wrong is right again when it is told anything else.
MisledAfter(m) ==
  IF m.type # "mutations" THEN misled
  ELSE LET ims == IndexMutations(report, m.ms) IN
       Misleads(report, m.ms) \cup (misled \ {ims[i].friend : i \in DOMAIN ims})

FunderReported ==
  /\ FromFunder
  /\ misled' = MisledAfter(Head(fromFunder))
  /\ UNCHANGED <<funderVars, clientVars, disk, writes, view, sent, told, odd, left>>

nodeVars == <<funderVars, clientVars, disk, writes, view, historyVars, left>>

Request(p) ==
  /\ appState[p] = "open" /\ sent[p] < MaxRequests[p]
  /\ \E k \in Kinds, f \in Friend :
       FromApp(p, [type |-> "request", id |-> <<p, sent[p]>>, kind |-> k, friend |-> f])
  /\ sent' = [sent EXCEPT ![p] = @ + 1]
  /\ UNCHANGED nodeVars

Next ==
  \/ Control \/ FunderSends \/ ClientTakes \/ ClientSends \/ DatabaseWrites \/ Crash
  \/ \E type \in {"online", "offline", "message"}, f \in Friend : Comm(type, f)
  \/ FunderReported
  \/ (FromIndexClient \/ AppServerSends) /\ UNCHANGED <<nodeVars, sent>>
  \/ \E p \in App :
       \/ (IncomingConnection(p) \/ AppEnded(p)) /\ UNCHANGED <<nodeVars, sent>>
       \/ Request(p) \/ AppTakes(p) \/ AppCloses(p)

Spec == Init /\ [][Next]_vars

(***************************************************************************)
(* Properties.                                                             *)
(***************************************************************************)
\* What was shown to a friend, or reported of the index servers to an
\* application, is in the file: a node that starts again is never behind what
\* others know of it (inner_funder_loop sends after db_client.mutate).
ToldIsOnDisk ==
  /\ told <= disk.number
  /\ \A p \in App : view[p].servers \subseteq disk.config

\* The messages in out that are for `to'.
For(out, to) ==
  LET t[i \in 0..Len(out)] == IF i = 0 THEN <<>>
                              ELSE IF out[i].to = to THEN Append(t[i - 1], out[i].msg) ELSE t[i - 1]
  IN t[Len(out)]

\* What is known after each of the messages, of one who knows v (a node report)
\* or k (capacities) before them.
AfterEach(v, msgs) ==
  LET t[i \in 0..Len(msgs)] == IF i = 0 THEN v ELSE After(t[i - 1], msgs[i]) IN t
AfterAll(v, msgs) == AfterEach(v, msgs)[Len(msgs)]

KnownAfter(k, msgs) ==
  LET t[i \in 0..Len(msgs)] ==
        IF i = 0 THEN k
        ELSE IF msgs[i].type = "apply" THEN ApplyIndexMutations(t[i - 1], msgs[i].ms) ELSE t[i - 1]
  IN t[Len(msgs)]

NodeReport == [report |-> report, servers |-> servers]

\* With what is under way, every application knows what the application server
\* knows, and that is the state of the funder, whenever the application connects
\* (create_report_mutations against create_report).  Only the liveness of a friend
\* that was added while its former connection was up is behind.
AppsAgree ==
  /\ LET r == AfterAll(NodeReport, fromFunder \o For(fout, "app")).report
         now == CreateReport(friends, online)
     IN /\ DOMAIN r = DOMAIN now
        /\ \A f \in DOMAIN r : r[f] = now[f] \/ (f \in odd /\ [r[f] EXCEPT !.online = TRUE] = now[f])
  /\ \A p \in apps : appState[p] = "open" =>
       AfterAll(view[p], toApp[p] \o For(aout, p)) = NodeReport

\* With what is under way, the index client knows the capacities in the report.
\* Each mutation of a batch is converted alone (handle_from_funder): only a friend
\* who came online with another capacity, or whose capacity was changed and changed
\* back in one batch, is wrong, and no longer than until the next that is told of it.
IndexIsTold ==
  LET k == KnownAfter(known, toClient \o For(aout, "client"))
  IN /\ DOMAIN k \subseteq DOMAIN report
     /\ \A f \in DOMAIN report \ misled :
          CalcFriendCapacities(report[f]) = IF f \in DOMAIN k THEN k[f] ELSE 0
============================================================================
