----------------------------- MODULE RelayNet -----------------------------
(***************************************************************************)
(* The relay servers (relay/src/server) with the listen pool of one node:  *)
(* friends connect to the node through a relay, which keeps each as a half *)
(* tunnel until the node's listener accepts or rejects it, or time is up.  *)
(***************************************************************************)
EXTENDS ListenPool

CONSTANTS
  HalfTunnelTicks, \* ticks after which a half tunnel is given up
  LocalChoices, FriendChoices, \* bound: sets of addresses that are configured
  MaxConfigs,      \* bound: changes of the configuration
  MaxConnects,     \* bound: connections of friends
  MaxFaults        \* bound: failed or broken connections to a relay

ASSUME RelayNetAssumption ==
  /\ HalfTunnelTicks \in Nat \ {0}
  /\ LocalChoices \subseteq SUBSET Address /\ FriendChoices \subseteq SUBSET Address
  /\ MaxConfigs \in Nat /\ MaxConnects \in Nat /\ MaxFaults \in Nat

VARIABLES
  server,   \* server[a]: listener id of the node at relay a (0: none), half tunnels, slot
  incoming, \* Listen connections on their way to the servers
  accepts,  \* accept_connection tasks of the listeners
  asked,    \* asked[f]: the addresses given for friend f
  left      \* what remains of the bounds

vars == <<poolVars, server, incoming, accepts, asked, left>>

NoServer == [id |-> 0, half |-> [f \in {} |-> 0], slot |-> <<>>]
Without(h, f) == [g \in (DOMAIN h) \ {f} |-> h[g]]

\* Listener tasks that have ended everywhere.
Free ==
  {i \in Listener : /\ lis[i].phase \in {"free", "reported"}
                    /\ i \notin incoming
                    /\ \A a \in Address : server[a].id # i
                    /\ \A x \in accepts : x.id # i}

Init ==
  /\ PoolInit
  /\ server = [a \in Address |-> NoServer]
  /\ incoming = {} /\ accepts = {}
  /\ asked = [f \in Friend |-> {}]
  /\ left = [configs |-> MaxConfigs, connects |-> MaxConnects, faults |-> MaxFaults]

Spend(b) == left[b] > 0 /\ left' = [left EXCEPT ![b] = @ - 1]

Config ==
  /\ Spend("configs")
  /\ \/ \E addrs \in LocalChoices : SetLocalAddresses(addrs, Free) /\ UNCHANGED asked
     \/ \E f \in Friend, addrs \in FriendChoices :
          UpdateFriend(f, addrs, Free) /\ asked' = [asked EXCEPT ![f] = addrs]
     \/ \E f \in Friend : RemoveFriend(f) /\ asked' = [asked EXCEPT ![f] = {}]
  /\ UNCHANGED <<server, incoming, accepts>>

\* A listener that is done reports it when its accept tasks are done as well.
Report(i) ==
  /\ \A x \in accepts : x.id # i
  /\ RelayClosed(i)
  /\ UNCHANGED <<server, incoming, accepts, asked, left>>

\* The backoff is long enough for a listener that the pool has let go of to
\* finish: otherwise the late report of each listener ends the next one.
OrphansAreDone(a) ==
  \A i \in Listener : lis[i].addr = a /\ lis[i].phase \in {"dial", "listen", "ended"} => Held(i)

Tick ==
  /\ \A a \in DOMAIN relays : relays[a].wait = 1 => OrphansAreDone(a)
  /\ PoolTick(Free)
  /\ UNCHANGED <<server, incoming, accepts, asked, left>>

(***************************************************************************)
(* The listener and its server.                                            *)
(***************************************************************************)
\* conn_processor: the first message of the connection says that it is for
\* listening, and it goes on to the server.
Introduced(i) == incoming \cup {i}

\* The listener has connected and sends Listen.
Dialed(i) ==
  /\ lis[i].phase = "dial"
  /\ lis' = [lis EXCEPT ![i].phase = "listen", ![i].conn = TRUE]
  /\ incoming' = Introduced(i)
  /\ UNCHANGED <<relays, local, server, accepts, asked, left>>

DialFails(i) ==
  /\ Spend("faults")
  /\ ListenerDialFails(i)
  /\ UNCHANGED <<server, incoming, accepts, asked>>

\* The connection breaks, and the keepalive of each end will notice.
Breaks(i) ==
  /\ Spend("faults")
  /\ lis[i].phase = "listen" /\ lis[i].conn
  /\ lis' = [lis EXCEPT ![i].conn = FALSE, ![i].out = <<>>]
  /\ UNCHANGED <<relays, local, server, incoming, accepts, asked>>

\* A Listen of a key that listens already is discarded.
ServerListen(i) ==
  /\ i \in incoming
  /\ incoming' = incoming \ {i}
  /\ LET a == lis[i].addr
     IN IF server[a].id # 0
        THEN lis' = [lis EXCEPT ![i].conn = FALSE] /\ UNCHANGED server
        ELSE server' = [server EXCEPT ![a].id = i] /\ UNCHANGED lis
  /\ UNCHANGED <<relays, local, accepts, asked, left>>

\* Slip: the listener stays on record without its half tunnels.
ClosedStays(s) == [s EXCEPT !.half = NoServer.half, !.slot = <<>>]
Closed(s) == NoServer

ServerListenerClosed(a) ==
  /\ server[a].id # 0
  /\ ~lis[server[a].id].conn
  /\ server' = [server EXCEPT ![a] = Closed(@)]
  /\ UNCHANGED <<poolVars, incoming, accepts, asked, left>>

\* A Connect for a listener without a half tunnel of this friend, and with
\* room for the news; any other one is discarded.
ServerConnect(a, f) ==
  /\ Spend("connects")
  /\ server[a].id # 0 /\ f \notin DOMAIN server[a].half /\ server[a].slot = <<>>
  /\ server' = [server EXCEPT
       ![a].slot = <<f>>,
       ![a].half = [g \in (DOMAIN @) \cup {f} |-> IF g = f THEN HalfTunnelTicks ELSE @[g]]]
  /\ UNCHANGED <<poolVars, incoming, accepts, asked>>

\* IncomingConnection: reject a friend that is not allowed, or try to accept.
ListenerServerMessage(a) ==
  LET i == server[a].id
      f == Head(server[a].slot)
  IN /\ i # 0 /\ server[a].slot # <<>>
     /\ lis[i].phase = "listen" /\ lis[i].conn
     /\ server' = [server EXCEPT ![a].slot = <<>>]
     /\ IF f \in lis[i].allowed
        THEN accepts' = accepts \cup {[id |-> i, f |-> f, n |-> left.connects]} /\ UNCHANGED lis
        ELSE lis' = [lis EXCEPT ![i].out = Append(@, f)] /\ UNCHANGED accepts
     /\ UNCHANGED <<relays, local, incoming, asked, left>>

\* accept_connection has connected: the server joins the two ends, if the
\* half tunnel is still there.
ServerAccept(x) ==
  LET a == lis[x.id].addr
  IN /\ x \in accepts
     /\ accepts' = accepts \ {x}
     /\ server' = [server EXCEPT ![a].half = Without(@, x.f)]
     /\ UNCHANGED <<poolVars, incoming, asked, left>>

\* It has not: PendingReject, if the listener is still there.
AcceptFails(x) ==
  /\ Spend("faults")
  /\ x \in accepts
  /\ accepts' = accepts \ {x}
  /\ lis' = IF lis[x.id].phase = "listen" /\ lis[x.id].conn
            THEN [lis EXCEPT ![x.id].out = Append(@, x.f)] ELSE lis
  /\ UNCHANGED <<relays, local, server, incoming, asked>>

\* ListenerMessage.
ServerReject(a) ==
  LET i == server[a].id
  IN /\ i # 0 /\ lis[i].out # <<>>
     /\ server' = [server EXCEPT ![a].half = Without(@, Head(lis[i].out))]
     /\ lis' = [lis EXCEPT ![i].out = Tail(@)]
     /\ UNCHANGED <<relays, local, incoming, accepts, asked, left>>

\* Half tunnels that were not accepted in time are dropped.
Expired(h) == [f \in {g \in DOMAIN h : h[g] > 1} |-> h[f] - 1]

ServerTick(a) ==
  /\ DOMAIN server[a].half # {}
  /\ server' = [server EXCEPT ![a].half = Expired(@)]
  /\ UNCHANGED <<poolVars, incoming, accepts, asked, left>>

(***************************************************************************)
(* The whole.                                                              *)
(***************************************************************************)
ListenerWorks(i) ==
  \/ Report(i) \/ Dialed(i) \/ ServerListen(i)
  \/ ListenerAccessControlOp(i) /\ UNCHANGED <<server, incoming, accepts, asked, left>>
  \/ ListenerEnds(i) /\ UNCHANGED <<server, incoming, accepts, asked, left>>

ServerWorks(a) ==
  ServerListenerClosed(a) \/ ListenerServerMessage(a) \/ ServerReject(a)

Next ==
  \/ Config \/ Tick
  \/ \E i \in Listener : ListenerWorks(i) \/ DialFails(i) \/ Breaks(i)
  \/ \E a \in Address :
       ServerWorks(a) \/ ServerTick(a) \/ \E f \in Friend : ServerConnect(a, f)
  \/ \E x \in accepts : ServerAccept(x) \/ AcceptFails(x)

Spec == Init /\ [][Next]_vars

\* Every task runs, an attempt to connect ends, and the timers tick.
FairSpec ==
  /\ Spec
  /\ WF_vars(Tick)
  /\ \A i \in Listener : WF_vars(ListenerWorks(i))
  /\ \A a \in Address : WF_vars(ServerWorks(a))
  /\ WF_vars(\E x \in accepts : ServerAccept(x) \/ AcceptFails(x))

----------------------------------------------------------------------------
\* The pool listens at every local address, and lets every friend in at the
\* addresses it was told for it, through every order of the changes
\* (listen_pool_state.rs).
PoolServes ==
  /\ local \subseteq DOMAIN relays
  /\ \A f \in Friend : \A a \in asked[f] : a \in DOMAIN relays /\ f \in relays[a].friends

\* Who may connect through a running listener is, once the operations under
\* way have been applied, what the pool has on record; a listener started
\* again has not missed anything (listen_pool.rs handle_timer_tick).
AccessAgrees ==
  \A a \in DOMAIN relays : LET i == relays[a].id IN
    relays[a].wait = 0 /\ lis[i].phase \in {"dial", "listen"} =>
      LET o == lis[i].ops
          after == IF o = <<>> THEN lis[i].allowed
                   ELSE IF o[1].op = "add" THEN lis[i].allowed \cup {o[1].f}
                   ELSE lis[i].allowed \ {o[1].f}
      IN lis[i].addr = a /\ after = relays[a].friends

\* When the configuration and the network have come to rest, the server of
\* every relay in use has the listener that the pool holds: a listener that
\* outlived its place, or one that was turned away because of it, does not
\* keep the node from being reached (listen_pool.rs handle_relay_closed).
ListensAgain ==
  <>[](\A a \in DOMAIN relays : relays[a].wait = 0 /\ server[a].id = relays[a].id
                                /\ lis[relays[a].id].conn)
============================================================================
