----------------------------- MODULE Channeler ------------------------------
(***************************************************************************)
(* The Channeler of one node (channeler/src/channeler.rs) keeps the node   *)
(* connected to its enabled friends and tells the funder who is online.    *)
(* It connects to friends with a lower public key, through a pool of       *)
(* relays each, and waits for those with a higher one.                     *)
(*                                                                         *)
(* The tasks are: the funder, as far as it configures the Channeler and    *)
(* hears of its friends; the Channeler's loop; a task for every connection *)
(* that forwards what it receives; and the loop of every pool.  Queues are *)
(* in order, and what two tasks send into one queue mixes in any way.      *)
(* Messages to friends are part of TokenChannel.                           *)
(***************************************************************************)
EXTENDS ConnectPool

CONSTANTS Friends,
          RelayLists,   \* what the relays of a friend may be
          Reachable,    \* addresses through which a connection comes about
          ConnId,       \* connections at the same time
          PoolId,       \* pools at the same time
          ChannelLen,   \* reports that wait for the funder
          MaxUpdates,   \* how often the funder updates a friend,
          MaxDisables,  \* disables one,
          MaxBreaks     \* and a connection breaks

ASSUME RelayListsAssumption == RelayLists \subseteq SUBSET Addr
ASSUME ReachableAssumption == Reachable \subseteq Addr
ASSUME ChannelLenAssumption == ChannelLen \in Nat \ {0}
ASSUME NobodyAssumption == None \notin Friends \cup ConnId \cup PoolId

VARIABLES larger,    \* friends with a larger public key than ours
          enabled,   \* funder: friends with FriendStatus::Enabled
          online,    \* funder: Liveness
          commands,  \* from the funder to the Channeler
          reports,   \* from the Channeler to the funder
          entry,     \* in_friends and out_friends
          events,    \* the Channeler's own events
          conns,     \* connections
          pools,     \* connect pools
          config,    \* the configuration the loop waits to hand to a pool
          failed,    \* channeler_loop has returned an error
          left       \* what is left of the bounds

vars == <<larger, enabled, online, commands, reports, entry, events, conns,
          pools, config, failed, left>>

UpdateCommand(f, relays) == [type |-> "update", friend |-> f, relays |-> relays]
RemoveCommand(f) == [type |-> "remove", friend |-> f, relays |-> {}]
Report(type, f) == [type |-> type, friend |-> f]
ConnEvent(type, c) == [type |-> type, conn |-> c]

NoEntry == [status |-> "none", conn |-> None, pool |-> None]
FreeConn == [friend |-> None, stage |-> "free", up |-> FALSE]
FreePool == [friend |-> None, stage |-> "free", requests |-> 0,
             state |-> NewPool]
NoConfig == [pool |-> None, relays |-> {}]

\* handle_init: the Channeler is told of every enabled friend.
Init ==
  /\ larger \in SUBSET Friends
  /\ enabled \in SUBSET Friends
  /\ online = {}
  /\ \E order \in SetToSeqs(enabled), relays \in [Friends -> RelayLists] :
       commands = [i \in DOMAIN order |->
                     UpdateCommand(order[i], relays[order[i]])]
  /\ reports = <<>>
  /\ entry = [f \in Friends |-> NoEntry]
  /\ events = <<>>
  /\ conns = [c \in ConnId |-> FreeConn]
  /\ pools = [p \in PoolId |-> FreePool]
  /\ config = NoConfig
  /\ failed = FALSE
  /\ left = [updates |-> MaxUpdates, disables |-> MaxDisables,
             breaks |-> MaxBreaks]

-----------------------------------------------------------------------------
(***************************************************************************)
(* The funder.                                                             *)
(***************************************************************************)
\* control_set_friend_status, enable_friend; the old status is not looked at
EnableFriend(f) ==
  /\ left.updates > 0
  /\ enabled' = enabled \cup {f}
  /\ \E relays \in RelayLists :
       commands' = Append(commands, UpdateCommand(f, relays))
  /\ left' = [left EXCEPT !.updates = @ - 1]
  /\ UNCHANGED <<larger, online, reports, entry, events, conns, pools, config,
                 failed>>

\* control_set_friend_status, control_remove_friend, disable_friend
DisableFriend(f) ==
  /\ left.disables > 0
  /\ enabled' = enabled \ {f}
  /\ commands' = Append(commands, RemoveCommand(f))
  /\ left' = [left EXCEPT !.disables = @ - 1]
  /\ UNCHANGED <<larger, online, reports, entry, events, conns, pools, config,
                 failed>>

\* control_set_friend_relays asks whether the friend is enabled;
\* collect_outgoing_move_token only whether it is online.
UpdateFriend(f) ==
  /\ f \in enabled \cup online /\ left.updates > 0
  /\ \E relays \in RelayLists :
       commands' = Append(commands, UpdateCommand(f, relays))
  /\ left' = [left EXCEPT !.updates = @ - 1]
  /\ UNCHANGED <<larger, enabled, online, reports, entry, events, conns, pools,
                 config, failed>>

\* Slip: Offline is taken only for enabled friends.
LivenessIfEnabled(r) ==
  IF r.friend \notin enabled THEN online
  ELSE CASE r.type = "online"  -> online \cup {r.friend}
         [] r.type = "offline" -> online \ {r.friend}
         [] OTHER              -> online

\* The new liveness after handle_liveness_message.  Online is an error, and
\* ignored, when the friend is disabled; it is one when the friend is online.
Liveness(r) ==
  CASE r.type = "online" /\ r.friend \in enabled -> online \cup {r.friend}
    [] r.type = "offline"                        -> online \ {r.friend}
    [] OTHER                                     -> online

HandleReport ==
  /\ reports # <<>> /\ Head(reports).type # "message"
  /\ online' = Liveness(Head(reports))
  /\ reports' = Tail(reports)
  /\ UNCHANGED <<larger, enabled, commands, entry, events, conns, pools, config,
                 failed, left>>

\* handle_friend_message, as far as the Channeler is concerned
HandleMessage ==
  /\ reports # <<>> /\ Head(reports).type = "message"
  /\ reports' = Tail(reports)
  /\ UNCHANGED <<larger, enabled, online, commands, entry, events, conns, pools,
                 config, failed, left>>

\* The message confirms our change of relays; whether the friend is enabled
\* does not matter.
HandleConfirmation ==
  /\ reports # <<>> /\ Head(reports).type = "message" /\ left.updates > 0
  /\ reports' = Tail(reports)
  /\ \E relays \in RelayLists :
       commands' = Append(commands, UpdateCommand(Head(reports).friend, relays))
  /\ left' = [left EXCEPT !.updates = @ - 1]
  /\ UNCHANGED <<larger, enabled, online, entry, events, conns, pools, config,
                 failed>>

-----------------------------------------------------------------------------
(***************************************************************************)
(* The Channeler's loop takes one event at a time, and waits in between    *)
(* when a pool has not taken its configuration yet.                        *)
(***************************************************************************)
Ready == ~failed /\ config = NoConfig

Commanded(type) == Ready /\ commands # <<>> /\ Head(commands).type = type

\* The loop waits while the funder's queue is full.
Happened(type) ==
  /\ Ready /\ Len(reports) < ChannelLen
  /\ events # <<>> /\ Head(events).type = type

FreeConns == {c \in ConnId : conns[c].stage = "free"}
FreePools == {p \in PoolId : pools[p].stage = "free"}

PoolOf(f) == pools[entry[f].pool]

IsAlive(p) == p \in PoolId /\ pools[p].stage = "live"

\* UpdateFriend of a friend we listen to, also a new one.  The listen pool is
\* told, too.
HandleUpdateListen ==
  LET f == Head(commands).friend IN
  /\ Commanded("update") /\ f \in larger
  /\ commands' = Tail(commands)
  /\ entry' = [entry EXCEPT ![f].status = IF @ = "none" THEN "waiting" ELSE @]
  /\ UNCHANGED <<larger, enabled, online, reports, events, conns, pools, config,
                 failed, left>>

\* try_create_friend, connect_out_friend for a friend we connect to
HandleUpdateNew ==
  LET f == Head(commands).friend IN
  /\ Commanded("update") /\ f \notin larger /\ entry[f].status = "none"
  /\ FreePools # {}
  /\ LET p == CHOOSE p \in FreePools : TRUE IN
       /\ pools' = [pools EXCEPT ![p] = [friend |-> f, stage |-> "live",
                                         requests |-> 1, state |-> NewPool]]
       /\ entry' = [entry EXCEPT ![f] = [status |-> "waiting", conn |-> None,
                                         pool |-> p]]
       /\ config' = [pool |-> p, relays |-> Head(commands).relays]
  /\ commands' = Tail(commands)
  /\ UNCHANGED <<larger, enabled, online, reports, events, conns, failed, left>>

\* The friend is known already.  ConnectorConfigError when its pool has ended.
HandleUpdateKnown ==
  LET f == Head(commands).friend
      p == entry[f].pool
  IN  /\ Commanded("update") /\ f \notin larger /\ entry[f].status # "none"
      /\ commands' = Tail(commands)
      /\ IF IsAlive(p)
           THEN /\ config' = [pool |-> p, relays |-> Head(commands).relays]
                /\ UNCHANGED failed
           ELSE /\ failed' = TRUE
                /\ UNCHANGED config
      /\ UNCHANGED <<larger, enabled, online, reports, entry, events, conns,
                     pools, left>>

EntryAfterRemove(f) == NoEntry

\* RemoveFriend: the closer of the connection and the clients of the pool are
\* dropped.
HandleRemove ==
  LET f == Head(commands).friend IN
  /\ Commanded("remove")
  /\ commands' = Tail(commands)
  /\ entry' = [entry EXCEPT ![f] = EntryAfterRemove(f)]
  /\ pools' = IF entry[f].pool \in PoolId /\ ~IsAlive(entry[f].pool)
                THEN [pools EXCEPT ![entry[f].pool] = FreePool] ELSE pools
  /\ UNCHANGED <<larger, enabled, online, reports, events, conns, config, failed,
                 left>>

\* handle_connection aborts unless the friend waits for a connection.
Accepts(f) == entry[f].status = "waiting"

HandleConnection ==
  LET c == Head(events).conn
      f == conns[c].friend
  IN  /\ Happened("connection")
      /\ events' = Tail(events)
      /\ IF Accepts(f)
           THEN /\ entry' = [entry EXCEPT ![f].status = "connected",
                                          ![f].conn = c]
                /\ conns' = [conns EXCEPT ![c].stage = "receiving"]
                /\ reports' = Append(reports, Report("online", f))
           ELSE /\ conns' = [conns EXCEPT ![c] = FreeConn]
                /\ UNCHANGED <<entry, reports>>
      /\ UNCHANGED <<larger, enabled, online, commands, pools, config, failed,
                     left>>

\* handle_friend_event, IncomingMessage
HandleIncoming ==
  /\ Happened("message")
  /\ events' = Tail(events)
  /\ reports' = Append(reports,
                       Report("message", conns[Head(events).conn].friend))
  /\ UNCHANGED <<larger, enabled, online, commands, entry, conns, pools, config,
                 failed, left>>

\* Slip: no new connection is asked for.
RequestNever(f) == {}

\* connect_out_friend after a connection was closed: the pools that are asked
RequestAgain(f) ==
  IF f \notin larger /\ entry[f].status # "none" /\ IsAlive(entry[f].pool)
    THEN {entry[f].pool} ELSE {}

\* handle_friend_event, ReceiverClosed: the event names the friend and not
\* the connection.
HandleReceiverClosed ==
  LET c == Head(events).conn
      f == conns[c].friend
  IN  /\ Happened("closed")
      /\ events' = Tail(events)
      /\ reports' = Append(reports, Report("offline", f))
      /\ conns' = [conns EXCEPT ![c] = FreeConn]
      /\ entry' = IF entry[f].status = "none" THEN entry
                  ELSE [entry EXCEPT ![f].status = "waiting", ![f].conn = None]
      /\ pools' = [p \in PoolId |->
                     IF p \in RequestAgain(f)
                       THEN [pools[p] EXCEPT !.requests = @ + 1] ELSE pools[p]]
      /\ UNCHANGED <<larger, enabled, online, commands, config, failed, left>>

-----------------------------------------------------------------------------
(***************************************************************************)
(* Connections.                                                            *)
(***************************************************************************)
\* A friend that has no connection to us connects through one of our relays,
\* which let it in.
Dial(f) ==
  /\ f \in larger /\ entry[f].status # "none"
  /\ \A c \in ConnId : conns[c].friend = f => ~conns[c].up
  /\ FreeConns # {}
  /\ LET c == CHOOSE c \in FreeConns : TRUE IN
       conns' = [conns EXCEPT ![c] = [friend |-> f, stage |-> "made",
                                      up |-> TRUE]]
  /\ UNCHANGED <<larger, enabled, online, commands, reports, entry, events,
                 pools, config, failed, left>>

\* The task that has the connection sends it to the Channeler.
Offer(c) ==
  /\ conns[c].stage = "made"
  /\ conns' = [conns EXCEPT ![c].stage = "offered"]
  /\ events' = Append(events, ConnEvent("connection", c))
  /\ UNCHANGED <<larger, enabled, online, commands, reports, entry, pools,
                 config, failed, left>>

\* The receiving task of handle_connection; it has one place in the queue.
Receive(c) ==
  /\ conns[c].stage = "receiving"
  /\ ~Contains(events, ConnEvent("message", c))
  /\ events' = Append(events, ConnEvent("message", c))
  /\ UNCHANGED <<larger, enabled, online, commands, reports, entry, conns, pools,
                 config, failed, left>>

CloserDropped(c) == entry[conns[c].friend].conn # c

EndReceive(c) ==
  /\ conns[c].stage = "receiving"
  /\ ~conns[c].up \/ CloserDropped(c)
  /\ conns' = [conns EXCEPT ![c].stage = "closed", ![c].up = FALSE]
  /\ events' = Append(events, ConnEvent("closed", c))
  /\ UNCHANGED <<larger, enabled, online, commands, reports, entry, pools,
                 config, failed, left>>

Break(c) ==
  /\ conns[c].up /\ left.breaks > 0
  /\ conns' = [conns EXCEPT ![c].up = FALSE]
  /\ left' = [left EXCEPT !.breaks = @ - 1]
  /\ UNCHANGED <<larger, enabled, online, commands, reports, entry, events,
                 pools, config, failed>>

-----------------------------------------------------------------------------
(***************************************************************************)
(* connect_pool_loop.                                                      *)
(***************************************************************************)
\* The loop ends by itself.  A configuration that was on its way is lost.
PoolEnds(p) ==
  /\ pools' = [pools EXCEPT ![p] = IF entry[pools[p].friend].pool = p
                                     THEN [FreePool EXCEPT !.stage = "dead"]
                                     ELSE FreePool]
  /\ config' = IF config.pool = p THEN NoConfig ELSE config

\* handle_connect_request, with MultipleConnectRequests
TakeRequest(p) ==
  /\ pools[p].stage = "live" /\ pools[p].requests > 0
  /\ IF RequestOk(pools[p].state)
       THEN /\ pools' = [pools EXCEPT ![p].requests = @ - 1,
                                      ![p].state = HandleConnectRequest(@)]
            /\ UNCHANGED config
       ELSE PoolEnds(p)
  /\ UNCHANGED <<larger, enabled, online, commands, reports, entry, events,
                 conns, failed, left>>

TakeConfig(p) ==
  /\ config.pool = p /\ pools[p].stage = "live"
  /\ \E state \in HandleConfigRequest(pools[p].state, config.relays) :
       pools' = [pools EXCEPT ![p].state = state]
  /\ config' = NoConfig
  /\ UNCHANGED <<larger, enabled, online, commands, reports, entry, events,
                 conns, failed, left>>

Tick(p) ==
  /\ pools[p].stage = "live"
  /\ HandleTimerTick(pools[p].state) # pools[p].state
  /\ pools' = [pools EXCEPT ![p].state = HandleTimerTick(@)]
  /\ UNCHANGED <<larger, enabled, online, commands, reports, entry, events,
                 conns, config, failed, left>>

Reported(p) == pools[p].stage = "live" /\ pools[p].state.attempts > 0

\* A task reports an attempt that the pool has given up: unreachable!()
AttemptUnexpected(p) ==
  /\ Reported(p) /\ ~AttemptDoneOk(pools[p].state)
  /\ PoolEnds(p)
  /\ UNCHANGED <<larger, enabled, online, commands, reports, entry, events,
                 conns, failed, left>>

\* An attempt has come to nothing.
AttemptFails(p) ==
  /\ Reported(p) /\ AttemptDoneOk(pools[p].state)
  /\ pools' = [pools EXCEPT ![p].state = HandleConnectAttemptDone(@, FALSE)]
  /\ UNCHANGED <<larger, enabled, online, commands, reports, entry, events,
                 conns, config, failed, left>>

Reaches(p) == pools[p].state.address \in Reachable

\* An attempt has given a connection: the task of connect_out_friend gets it.
\* The attempt may be one that was canceled too late.
AttemptSucceeds(p) ==
  /\ Reported(p) /\ AttemptDoneOk(pools[p].state)
  /\ Reaches(p) \/ pools[p].state.attempts > 1
  /\ pools' = [pools EXCEPT ![p].state = HandleConnectAttemptDone(@, TRUE)]
  /\ FreeConns # {}
  /\ LET c == CHOOSE c \in FreeConns : TRUE IN
       conns' = [conns EXCEPT ![c] = [friend |-> pools[p].friend,
                                      stage |-> "made", up |-> TRUE]]
  /\ UNCHANGED <<larger, enabled, online, commands, reports, entry, events,
                 config, failed, left>>

\* ConfigRequestClosed: the friend was removed.
ClosePool(p) ==
  /\ pools[p].stage = "live" /\ entry[pools[p].friend].pool # p
  /\ pools' = [pools EXCEPT ![p] = FreePool]
  /\ UNCHANGED <<larger, enabled, online, commands, reports, entry, events,
                 conns, config, failed, left>>

-----------------------------------------------------------------------------
Loop ==
  \/ HandleUpdateListen \/ HandleUpdateNew \/ HandleUpdateKnown \/ HandleRemove
  \/ HandleConnection \/ HandleIncoming \/ HandleReceiverClosed

Funder ==
  \/ \E f \in Friends : EnableFriend(f) \/ DisableFriend(f) \/ UpdateFriend(f)
  \/ HandleReport \/ HandleMessage \/ HandleConfirmation

Connections ==
  \/ \E f \in Friends : Dial(f)
  \/ \E c \in ConnId : Offer(c) \/ Receive(c) \/ EndReceive(c) \/ Break(c)

Pool(p) ==
  \/ TakeRequest(p) \/ TakeConfig(p) \/ Tick(p)
  \/ AttemptFails(p) \/ AttemptSucceeds(p) \/ AttemptUnexpected(p)
  \/ ClosePool(p)

Next == Loop \/ Funder \/ Connections \/ \E p \in PoolId : Pool(p)

Spec == Init /\ [][Next]_vars

(***************************************************************************)
(* Every task goes on when it can, the friends that are to connect to us   *)
(* keep trying, and a reachable relay that is tried again and again gives  *)
(* a connection in the end.  The Channeler takes commands and events in    *)
(* turn (select_streams).                                                  *)
(***************************************************************************)
Fairness ==
  /\ WF_vars(HandleReport \/ HandleMessage)
  /\ WF_vars(HandleUpdateListen \/ HandleUpdateNew \/ HandleUpdateKnown
             \/ HandleRemove)
  /\ WF_vars(HandleConnection \/ HandleIncoming \/ HandleReceiverClosed)
  /\ \A f \in Friends : WF_vars(Dial(f))
  /\ \A c \in ConnId : WF_vars(Offer(c) \/ EndReceive(c))
  /\ \A p \in PoolId :
       /\ WF_vars(TakeRequest(p) \/ TakeConfig(p))
       /\ WF_vars(Tick(p) \/ AttemptFails(p) \/ AttemptUnexpected(p))
       /\ SF_vars(Reaches(p) /\ AttemptSucceeds(p))

FairSpec == Spec /\ Fairness

-----------------------------------------------------------------------------
NobodyDisabled == left.disables = MaxDisables

\* Nothing about f is on the way to the funder.
Settled(f) ==
  /\ \A i \in DOMAIN reports : reports[i].friend # f
  /\ \A c \in ConnId :
       /\ conns[c].friend = f
       => /\ conns[c].stage # "closed"
          /\ conns[c].stage = "receiving" => ~CloserDropped(c)

\* When all is settled the funder thinks that a friend is online only if there
\* is a connection, whatever was disabled, enabled and broken; and, as long as
\* nobody was disabled, also the other way round.
ViewsAgree ==
  \A f \in Friends : Settled(f) =>
    /\ f \in online => entry[f].status = "connected"
    /\ NobodyDisabled /\ entry[f].status = "connected" => f \in online

\* f is to be online: it is enabled, and there is a way to reach it.
Wanted(f) ==
  /\ NobodyDisabled /\ f \in enabled /\ entry[f].status # "none"
  /\ \/ f \in larger
     \/ /\ IsAlive(entry[f].pool)
        /\ PoolOf(f).state.config \cap Reachable # {}

\* An enabled friend comes online, also after connections that broke.
EnabledComesOnline ==
  \A f \in Friends : Wanted(f) ~> (f \in online \/ ~Wanted(f))
=============================================================================
