---------------------------- MODULE ListenPool ----------------------------
(***************************************************************************)
(* The listen pool of a node (listen_pool.rs, listen_pool_state.rs) and    *)
(* the client listeners it spawns (relay/src/client/client_listener.rs).   *)
(* The pool keeps one listener for every relay that the node or one of its *)
(* friends uses, tells each listener which friends may connect through it, *)
(* and starts a listener again some ticks after it has closed.             *)
(*                                                                         *)
(* A listener is a task of its own: it dials its relay, may outlive the    *)
(* pool's interest in it, and reports its end by the address only.         *)
(***************************************************************************)
EXTENDS Integers, Sequences, FiniteSets

CONSTANTS
  Address,       \* addresses of relays
  Friend,        \* public keys of friends
  BackoffTicks,  \* ticks between the end of a listener and the next one
  MaxListeners   \* bound: listener tasks that live at the same time

ASSUME ListenPoolAssumption ==
  BackoffTicks \in Nat \ {0} /\ MaxListeners \in Nat \ {0}

VARIABLES
  relays,  \* relays[a]: the relay at a: friends, ticks to wait (0: connected), listener
  local,   \* local_addresses
  lis      \* lis[i]: listener task i

poolVars == <<relays, local, lis>>

Listener == 1..MaxListeners

\* A listener: the address, its phase, whether its connection stands, the
\* access control, the operations on it under way, Rejects for the server.
NoListener == [addr |-> "none", phase |-> "free", conn |-> FALSE, allowed |-> {}, ops |-> <<>>, out |-> <<>>]

Connected(a, i) == a \in DOMAIN relays /\ relays[a].wait = 0 /\ relays[a].id = i

\* The pool still has the sender of the access control of listener i.
Held(i) == \E a \in DOMAIN relays : Connected(a, i)

Known(f) == {a \in DOMAIN relays : f \in relays[a].friends}

Keep(r, S) == [a \in (DOMAIN r) \cap S |-> r[a]]

PoolInit ==
  /\ relays = [a \in {} |-> 0]
  /\ local = {}
  /\ lis = [i \in Listener |-> NoListener]

\* The listeners for the addresses in S, each with its own free task of F.
Assign(S, F) == {g \in [S -> F] : \A a, b \in S : g[a] = g[b] => a = b}
Spawns(S, F) == IF S = {} THEN {<<>>} ELSE IF Cardinality(F) < Cardinality(S) THEN {}
                ELSE {CHOOSE g \in Assign(S, F) : TRUE}

\* spawn_listen: a listener for a that lets the friends fs in.
SpawnListen(a, fs) ==
  [NoListener EXCEPT !.addr = a, !.phase = "dial", !.allowed = fs]

\* The pool after spawning the listeners g for the addresses of its domain,
\* and sending op to the listeners of the addresses in `told'.
Respawned(r, g, fs) ==
  [a \in (DOMAIN r) \cup (DOMAIN g) |->
     IF a \in DOMAIN g THEN [friends |-> fs[a], wait |-> 0, id |-> g[a]] ELSE r[a]]

Told(l, r, told, op) ==
  [i \in Listener |->
     IF \E a \in told \cap DOMAIN r : r[a].wait = 0 /\ r[a].id = i /\ l[i].phase \in {"dial", "listen"}
     THEN [l[i] EXCEPT !.ops = Append(@, op)] ELSE l[i]]

Spawned(l, g, fs) ==
  [i \in Listener |->
     IF \E a \in DOMAIN g : g[a] = i
     THEN LET a == CHOOSE a \in DOMAIN g : g[a] = i IN SpawnListen(a, fs[a])
     ELSE l[i]]

\* A channel for operations has room for one: the pool waits for room.
Room(told) ==
  \A a \in told \cap DOMAIN relays : relays[a].wait = 0 => lis[relays[a].id].ops = <<>>

(***************************************************************************)
(* Configuration.  F is the set of listener tasks that are free.           *)
(***************************************************************************)
\* Relays without friends that are no longer local are dropped; a new local
\* relay lets in every friend of the relays that are kept.
SetLocalAddresses(addrs, F) ==
  LET kept == Keep(relays, {a \in DOMAIN relays : relays[a].friends # {} \/ a \in addrs})
      all == UNION {kept[a].friends : a \in DOMAIN kept}
      fs == [a \in Address |-> all]
  IN /\ local' = addrs
     /\ \E g \in Spawns(addrs \ DOMAIN kept, F) :
          /\ relays' = Respawned(kept, g, fs)
          /\ lis' = Spawned(lis, g, fs)

\* Slip: relays that are local are not spared.
RetainedListed(f, addrs) ==
  {a \in DOMAIN relays : a \in addrs \/ relays[a].friends \ {f} # {}}

\* Relays that stay when friend f moves to addrs.
Retained(f, addrs) ==
  {a \in DOMAIN relays : a \in addrs \cup local \/ relays[a].friends \ {f} # {}}

\* The friend is added at its addresses and at the local ones, and removed
\* elsewhere; a relay that nobody needs is dropped, a new one is spawned.
UpdateFriend(f, addrs, F) ==
  LET at == addrs \cup local
      add == (at \cap DOMAIN relays) \ Known(f)
      remove == Known(f) \ at
      kept == [a \in Retained(f, addrs) |->
                 [relays[a] EXCEPT !.friends = IF a \in at THEN @ \cup {f} ELSE @ \ {f}]]
      fs == [a \in Address |-> {f}]
      told == Told(Told(lis, kept, add, [op |-> "add", f |-> f]),
                   kept, remove, [op |-> "remove", f |-> f])
  IN /\ Room(add \cup remove)
     /\ \E g \in Spawns(at \ DOMAIN relays, F) :
          /\ relays' = Respawned(kept, g, fs)
          /\ lis' = Spawned(told, g, fs)
     /\ UNCHANGED local

RemoveFriend(f) ==
  LET kept == [a \in {b \in DOMAIN relays : b \in local \/ relays[b].friends \ {f} # {}} |->
                 [relays[a] EXCEPT !.friends = @ \ {f}]]
  IN /\ Room(Known(f))
     /\ relays' = kept
     /\ lis' = Told(lis, kept, Known(f), [op |-> "remove", f |-> f])
     /\ UNCHANGED local

(***************************************************************************)
(* The end of a listener, and the timer.                                   *)
(***************************************************************************)
\* The report names the address, whatever listener is there by now.
HandleRelayClosed(a) ==
  IF a \in DOMAIN relays
  THEN [relays EXCEPT ![a].wait = BackoffTicks, ![a].id = 0] ELSE relays

RelayClosed(i) ==
  /\ lis[i].phase = "ended"
  /\ relays' = HandleRelayClosed(lis[i].addr)
  /\ lis' = [lis EXCEPT ![i].phase = "reported"]
  /\ UNCHANGED local

\* Slip: the friends that the relay had are forgotten.
RespawnFriendsNone(r) == [a \in DOMAIN r |-> {}]
RespawnFriends(r) == [a \in DOMAIN r |-> r[a].friends]

\* Count down, and listen again where the count has ended.
PoolTick(F) ==
  LET due == {a \in DOMAIN relays : relays[a].wait = 1}
      less == [a \in DOMAIN relays |->
                 [relays[a] EXCEPT !.wait = IF @ > 1 THEN @ - 1 ELSE 0]]
  IN /\ \E a \in DOMAIN relays : relays[a].wait > 0
     /\ \E g \in Spawns(due, F) :
          /\ relays' = [a \in DOMAIN less |->
                          IF a \in due THEN [less[a] EXCEPT !.id = g[a]] ELSE less[a]]
          /\ lis' = Spawned(lis, g, RespawnFriends(relays))
     /\ UNCHANGED local

(***************************************************************************)
(* A client listener, apart from what it does with the relay server.       *)
(***************************************************************************)
Ended(i) == lis' = [lis EXCEPT ![i].phase = "ended", ![i].conn = FALSE,
                               ![i].ops = <<>>, ![i].out = <<>>]

ListenerDialFails(i) ==
  /\ lis[i].phase = "dial"
  /\ Ended(i)
  /\ UNCHANGED <<relays, local>>

ListenerAccessControlOp(i) ==
  /\ lis[i].phase = "listen" /\ lis[i].ops # <<>>
  /\ LET o == Head(lis[i].ops)
     IN lis' = [lis EXCEPT ![i].ops = Tail(@),
                           ![i].allowed = IF o.op = "add" THEN @ \cup {o.f} ELSE @ \ {o.f}]
  /\ UNCHANGED <<relays, local>>

\* AccessControlClosed, when the pool has let go of it, or ServerClosed.
ListenerEnds(i) ==
  /\ lis[i].phase = "listen"
  /\ (~Held(i) /\ lis[i].ops = <<>>) \/ ~lis[i].conn
  /\ Ended(i)
  /\ UNCHANGED <<relays, local>>
============================================================================
