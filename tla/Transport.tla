----------------------------- MODULE Transport -----------------------------
(***************************************************************************)
(* A connection as the rest of the system uses it: keepalives              *)
(* (src/components/keepalive) over an encrypted channel, with the ticks of *)
(* the timer service (src/components/timer) at both ends.                  *)
(*                                                                         *)
(* The two timers tick together, and Timely says that what was under way   *)
(* at a tick has been handled when the next but one comes: no connection   *)
(* can tell a slow peer from a dead one without such an assumption.        *)
(***************************************************************************)
EXTENDS SecureChannel, FiniteSets

CONSTANTS
  KeepaliveTicks, \* ticks without a message after which the peer is given up
  MaxSends,       \* bound: MaxSends[s] messages are sent by the user of s
  MaxCrashes      \* bound: ends that stop without a word

ASSUME KeepaliveAssumption ==
  KeepaliveTicks \in Nat \ {0} /\ MaxSends \in [Side -> Nat] /\ MaxCrashes \in Nat

VARIABLES
  ka,     \* ka[s]: the keepalive loop of s
  tick,   \* tick[s]: the loops of s that a tick is waiting for
  aged,   \* aged[s]: messages to s that were under way at the last tick
  sent, rcvd  \* sent[s], rcvd[s]: messages of the users

vars == <<scVars, ka, tick, aged, sent, rcvd>>

Msg(d) == [t |-> "msg", d |-> d]
KeepAlive == [t |-> "keepalive", d |-> 0]

Up(s) == sc[s].phase # "dead"
KaOpen(s) == ka[s].phase = "open"
KaNew == [phase |-> "new", why |-> None, close |-> 0, send |-> 0]
KaClose(s, why) == ka' = [ka EXCEPT ![s] = [KaNew EXCEPT !.phase = "closed", !.why = why]]

TInit ==
  /\ SCInit
  /\ ka = [s \in Side |-> KaNew]
  /\ tick = [s \in Side |-> {}]
  /\ aged = [s \in Side |-> 0]
  /\ sent = [s \in Side |-> <<>>] /\ rcvd = [s \in Side |-> <<>>]

\* A message leaves the wire of s.
Aged(s) == aged' = [aged EXCEPT ![s] = IF @ > 0 THEN @ - 1 ELSE 0]

(***************************************************************************)
(* The secure channel under the keepalive loop.                            *)
(***************************************************************************)
Exchange(s) ==
  /\ HandleExchangeRandNonce(s) \/ HandleExchangeDh(s)
  /\ Aged(s)
  /\ UNCHANGED <<ka, tick, sent, rcvd>>

Receive(s) ==
  /\ ReaderRekey(s)
  /\ Aged(s)
  /\ UNCHANGED <<ka, tick, sent, rcvd>>

RekeyTick(s) ==
  /\ "sc" \in tick[s]
  /\ tick' = [tick EXCEPT ![s] = @ \ {"sc"}]
  /\ SCTick(s)
  /\ UNCHANGED <<ka, aged, sent, rcvd>>

\* The loop ends when its reader or its user does.
ChannelCloses(s) ==
  /\ \/ ReaderClosed(s)
     \/ ka[s].phase = "closed" /\ UserClosed(s)
  /\ UNCHANGED <<ka, tick, aged, sent, rcvd>>

(***************************************************************************)
(* The keepalive loop.                                                     *)
(***************************************************************************)
\* transform_keepalive: the loop starts when the channel is open.
KaStart(s) ==
  /\ Open(s) /\ ka[s].phase = "new"
  /\ ka' = [ka EXCEPT ![s] = [@ EXCEPT !.phase = "open", !.close = KeepaliveTicks,
                                       !.send = KeepaliveTicks \div 2]]
  /\ UNCHANGED <<scVars, tick, aged, sent, rcvd>>

\* What the user of s has been given when message d (0: a keepalive) came.
GivenAll(seq, d) == Append(seq, d)   \* slip: keepalives too
Given(seq, d) == IF d = 0 THEN seq ELSE Append(seq, d)

\* Anything from the remote side shows that it lives; user messages go on.
MessageFromRemote(s) ==
  /\ KaOpen(s) /\ wire[s] # <<>>
  /\ \E d \in 0..MaxSends[Peer(s)] :
       /\ ReaderUser(s, IF d = 0 THEN KeepAlive ELSE Msg(d))
       /\ rcvd' = [rcvd EXCEPT ![s] = Given(@, d)]
  /\ ka' = [ka EXCEPT ![s].close = KeepaliveTicks]
  /\ Aged(s)
  /\ UNCHANGED <<tick, sent>>

\* A user message also tells the remote side that we live.
MessageFromUser(s) ==
  /\ KaOpen(s) /\ Len(sent[s]) < MaxSends[s]
  /\ LET d == Len(sent[s]) + 1
     IN User(s, Msg(d)) /\ sent' = [sent EXCEPT ![s] = Append(@, d)]
  /\ ka' = [ka EXCEPT ![s].send = KeepaliveTicks \div 2]
  /\ UNCHANGED <<tick, aged, rcvd>>

\* Both counts go down; the first one's end closes, the second one's sends.
KaTick(s) ==
  /\ KaOpen(s) /\ "ka" \in tick[s]
  /\ tick' = [tick EXCEPT ![s] = @ \ {"ka"}]
  /\ LET close == IF ka[s].close = 0 THEN 0 ELSE ka[s].close - 1
         send == IF ka[s].send = 0 THEN 0 ELSE ka[s].send - 1
     IN \/ /\ close = 0
           /\ KaClose(s, "timeout")
           /\ UNCHANGED scVars
        \/ /\ close > 0 /\ send > 0
           /\ ka' = [ka EXCEPT ![s] = [@ EXCEPT !.close = close, !.send = send]]
           /\ UNCHANGED scVars
        \/ /\ close > 0 /\ send = 0 /\ Open(s)
           /\ User(s, KeepAlive)
           /\ ka' = [ka EXCEPT ![s] = [@ EXCEPT !.close = close, !.send = KeepaliveTicks \div 2]]
        \/ /\ close > 0 /\ send = 0 /\ ~Open(s)   \* can not send: the loop ends
           /\ KaClose(s, "ended")
           /\ UNCHANGED scVars
  /\ UNCHANGED <<aged, sent, rcvd>>

\* The channel below has ended, or the user has dropped the connection.
KaCloses(s) ==
  /\ KaOpen(s)
  /\ \/ ~Open(s) /\ KaClose(s, "ended")
     \/ KaClose(s, "user")
  /\ UNCHANGED <<scVars, tick, aged, sent, rcvd>>

(***************************************************************************)
(* The timer and the faults.                                               *)
(***************************************************************************)
\* The loops of s that asked the timer for a stream and still run.
Clients(s) ==
  {c \in {"sc", "ka"} : Up(s) /\ (c = "sc" => Open(s)) /\ (c = "ka" => KaOpen(s))}

\* timer_loop waits for every client, and what is sent is handled in time.
Timely ==
  \A s \in Side : Up(s) =>
    /\ tick[s] \cap Clients(s) = {}
    /\ aged[s] = 0 \/ sc[s].phase = "closed"
    /\ ~(Open(s) /\ ka[s].phase = "new")

Tick ==
  /\ Timely
  /\ \E s \in Side : Clients(s) # {}
  /\ tick' = [s \in Side |-> Clients(s)]
  /\ aged' = [s \in Side |-> Len(wire[s])]
  /\ UNCHANGED <<scVars, ka, sent, rcvd>>

\* The process of s stops and its peer hears nothing of it.
Crash(s) ==
  /\ Cardinality({p \in Side : ~Up(p)}) < MaxCrashes /\ Up(s)
  /\ sc' = [sc EXCEPT ![s] = [Unopened EXCEPT !.phase = "dead"]]
  /\ KaClose(s, "dead")
  /\ wire' = [wire EXCEPT ![s] = <<>>]
  /\ tick' = [tick EXCEPT ![s] = {}]
  /\ aged' = [aged EXCEPT ![s] = 0]
  /\ UNCHANGED <<expected, drawn, sent, rcvd>>

Next ==
  \/ \E s \in Side :
       /\ Up(s)
       /\ \/ Exchange(s) \/ Receive(s) \/ RekeyTick(s) \/ ChannelCloses(s)
          \/ KaStart(s) \/ MessageFromRemote(s) \/ MessageFromUser(s)
          \/ KaTick(s) \/ KaCloses(s)
          \/ Crash(s)
  \/ Tick

Spec == TInit /\ [][Next]_vars

----------------------------------------------------------------------------
\* Through every change of the keys, also one that both ends start at once,
\* the users are given exactly what was sent, in order and once
\* (state.rs try_decrypt and handle_incoming_rekey).
Abstract == INSTANCE Fifo
ImplementsFifo == Abstract!Spec

\* An end closes only because its user did, its peer is gone, or
\* the peer is not the expected one: never because a message could not be
\* decrypted, and never because a living peer was taken for dead (keepalive.rs).
ClosesForAReason ==
  \A s \in Side :
    /\ sc[s].why # "garbled"
    /\ ka[s].why = "timeout" => Gone(Peer(s)) \/ ka[Peer(s)].phase = "closed"

\* While a change of the keys is pending, the Rekey of this end or the one
\* that completes it is under way, or the peer is gone: create_rekey can not
\* answer RekeyInProgress for ever (state.rs:235).
RekeyIsUnderWay ==
  \A s \in Side : sc[s].pending # NoKey =>
    LET Rekeys(w) == {i \in DOMAIN w : w[i].t = "enc" /\ w[i].body.t = "rekey"}
    IN \/ \E i \in Rekeys(wire[Peer(s)]) : wire[Peer(s)][i].body.dh = sc[s].pending
       \/ Rekeys(wire[s]) # {}
       \/ Gone(Peer(s))
============================================================================
