---------------------------- MODULE ConnectPool -----------------------------
(***************************************************************************)
(* The pool of relays through which a node tries to reach one friend, as a *)
(* value (channeler/src/connect_pool.rs).  At most one connection is asked *)
(* for at a time; the pool goes around its addresses until one of them     *)
(* gives a connection.                                                     *)
(***************************************************************************)
EXTENDS Naturals, SequencesExt

CONSTANTS Addr,          \* addresses of relays
          None,          \* no address
          BackoffTicks   \* backoff_ticks

ASSUME BackoffAssumption == BackoffTicks \in Nat \ {0}
ASSUME NoneAssumption == None \notin Addr

(***************************************************************************)
(* addresses are those that wait for their turn, address the one of the    *)
(* attempt under way.  attempts counts the tasks of create_conn_attempt    *)
(* that have not reported yet, and config is the last configuration.       *)
(***************************************************************************)
NewPool == [addresses |-> <<>>, status |-> "no_request", ticks |-> 0,
            address |-> None, attempts |-> 0, config |-> {}]

\* An attempt with the first address
StartAttempt(p) ==
  [p EXCEPT !.status = "connecting", !.ticks = 0,
            !.address = Head(p.addresses), !.addresses = Tail(@),
            !.attempts = @ + 1]

Wait(p, ticks) ==
  [p EXCEPT !.status = "waiting", !.ticks = ticks, !.address = None]

\* handle_connect_request; a second request ends the pool
RequestOk(p) == p.status = "no_request"

HandleConnectRequest(p) ==
  IF p.addresses = <<>> THEN Wait(p, 0) ELSE StartAttempt(p)

AddAddress(p, a) ==
  LET q == IF Contains(p.addresses, a) THEN p
           ELSE [p EXCEPT !.addresses = Append(@, a)]
  IN  IF p.addresses = <<>> /\ p.status = "waiting" THEN StartAttempt(q) ELSE q

RemoveAddress(p, a) ==
  LET q == [p EXCEPT !.addresses = SelectSeq(@, LAMBDA b : b # a)] IN
  IF p.status # "connecting" \/ p.address # a THEN q
  ELSE IF q.addresses # <<>> THEN StartAttempt(q)   \* the other one reports too
  ELSE Wait(q, 0)

\* handle_config_request: a HashSet gives its elements in any order.
HandleConfigRequest(p, config) ==
  LET old == Range(p.addresses)
      Removed(order) == FoldLeft(RemoveAddress, p, order)
      Added(q, order) == FoldLeft(AddAddress, q, order)
  IN  {[Added(Removed(r), s) EXCEPT !.config = config] :
         r \in SetToSeqs(old \ config), s \in SetToSeqs(config \ old)}

\* handle_timer_tick, with saturating_sub
HandleTimerTick(p) ==
  LET ticks == IF p.ticks > 0 THEN p.ticks - 1 ELSE 0 IN
  IF p.status # "waiting" THEN p
  ELSE IF ticks # 0 THEN [p EXCEPT !.ticks = ticks]
  ELSE IF p.addresses # <<>> THEN StartAttempt(p)
  ELSE Wait(p, BackoffTicks)

\* handle_connect_attempt_done is unreachable!() unless an attempt is under way
AttemptDoneOk(p) == p.status = "connecting"

HandleConnectAttemptDone(p, success) ==
  LET q == [p EXCEPT !.attempts = @ - 1, !.addresses = Append(@, p.address)] IN
  IF success THEN [q EXCEPT !.status = "no_request", !.address = None]
             ELSE Wait(q, BackoffTicks)
=============================================================================
