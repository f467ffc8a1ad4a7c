---------------------------- MODULE TokenChannel ----------------------------
(***************************************************************************)
(* Two friends keep their ledgers equal by passing one token back and      *)
(* forth: the side that holds it may send a batch of operations, and gives *)
(* the token away with it.  The module follows                             *)
(*   token_channel.rs            what a move token does to a channel,      *)
(*   handler/handle_friend.rs    the handlers of a friend's messages,      *)
(*   handler/handle_liveness.rs  Online and Offline,                       *)
(*   handler/handle_control.rs   the user's commands, and                  *)
(*   handler/sender.rs           what is sent at the end of every handler. *)
(* One event is one step: the funder persists the result of a handler and  *)
(* then sends its messages (funder.rs).                                    *)
(*                                                                         *)
(* The Channeler is the environment.  inbox[p] holds what it has for the   *)
(* funder of p, in order.  While the link is up a message that p sends     *)
(* joins the inbox of its peer, and may take the place of the message      *)
(* before it (overwrite_channel.rs).  When the link breaks some of the     *)
(* last messages are lost and both sides will see Offline.                 *)
(***************************************************************************)
EXTENDS MutualCredit, SequencesExt

CONSTANTS Ops,             \* operations a side may want to send
          MaxBatch,        \* max_operations_in_batch
          InitialBalance,  \* balance of the low side when friends are added
          Budgets          \* bounds, each explored on its own: how often there is
                           \* work, the link drops, a node changes its relays (work,
                           \* too), there are removals, and the user resets a channel

ASSUME BatchAssumption == MaxBatch \in Nat \ {0}
ASSUME OpsAssumption == Ops \subseteq Op
ASSUME BudgetsAssumption ==
  Budgets \subseteq [work : Nat, drops : Nat, relays : Nat, removals : Nat, resets : Nat]
ASSUME BalanceAssumption == InitialBalance \in -MaxDebt .. MaxDebt

VARIABLES friend,   \* friend[p]: what p keeps about its peer (FriendState)
          online,   \* online[p]: p's Liveness says that its peer is online
          inbox,    \* inbox[p]: events and messages for p, in order
          link,     \* the two Channelers are connected
          fresh,    \* the next unused signature or random value
          parted,   \* history: the ledgers when a friend was first removed or an
                    \* identifier that is pending first sent again, or <<>>
          left      \* what is left of the bounds

vars == <<friend, online, inbox, link, fresh, parted, left>>

\* The side with the lower public key sends first.
Side == {"Low", "High"}
Peer(p) == IF p = "Low" THEN "High" ELSE "Low"

-----------------------------------------------------------------------------
NoRelays == -1      \* opt_local_relays is None

\* initial_move_token: both sides can compute it.  Signatures 0 and 1 are
\* made from the two public keys.
InitialMoveToken(balance) ==
  [old |-> 0, new |-> 1, ic |-> 0, ctr |-> 0, ops |-> <<>>, relays |-> NoRelays,
   balance |-> balance, localDebt |-> 0, remoteDebt |-> 0]

NoTerms == [token |-> 0, ic |-> 0, balance |-> 0]

(***************************************************************************)
(* FriendState::new and TokenChannel::new.  wants counts what is to be     *)
(* sent: a limit or a request status that differs from the wanted one, and *)
(* the operations in the three queues; aside is history: all of it was put *)
(* aside (PutAside) since the token was last asked for.  Lists of relays   *)
(* are versions here: relays is the node's own list, sent what it has told *)
(* its peer, and remoteRelays what it knows of its peer, first from the    *)
(* user.                                                                   *)
(***************************************************************************)
NewFriend(p, balance, ownRelays, peerRelays) ==
  [status       |-> IF p = "Low" THEN "outgoing" ELSE "incoming",
   mc           |-> NewLedger(IF p = "Low" THEN balance ELSE -balance),
   token        |-> InitialMoveToken(balance),
   localTerms   |-> NoTerms,
   remoteTerms  |-> NoTerms,
   wants        |-> 0,
   aside        |-> FALSE,
   sent         |-> [status |-> "never", last |-> 0, prev |-> 0],
   relays       |-> ownRelays,
   remoteRelays |-> peerRelays]

NoFriend(ownRelays) ==
  [NewFriend("Low", 0, ownRelays, 0) EXCEPT !.status = "none"]

Init ==
  /\ friend = [p \in Side |-> NewFriend(p, InitialBalance, 0, 0)]
  /\ online = [p \in Side |-> FALSE]
  /\ inbox = [p \in Side |-> <<>>]
  /\ link = FALSE
  /\ fresh = 2
  /\ parted = <<>>
  /\ left \in Budgets

-----------------------------------------------------------------------------
(***************************************************************************)
(* The outcome of a handler: the friend's new state and what goes out, at  *)
(* most one message.  Send puts both in place; `in' is the inbox after the *)
(* event was taken.                                                        *)
(***************************************************************************)
MoveMessage(token, wanted) ==
  [type |-> "move", token |-> token, wanted |-> wanted]
InconsistencyMessage(terms) == [type |-> "inconsistency", terms |-> terms]
LivenessEvent(type) == [type |-> type]

IsMessage(e) == e.type \in {"move", "inconsistency"}

Quiet(p, f, in) ==
  /\ friend' = [friend EXCEPT ![p] = f]
  /\ inbox' = in

\* Channeler: the message is dropped when there is no connection, and may
\* overwrite one that is still waiting to be sent.
Send(p, f, m, in) ==
  LET q == Peer(p) IN
  /\ friend' = [friend EXCEPT ![p] = f]
  /\ \/ ~link /\ inbox' = in
     \/ link /\ inbox' = [in EXCEPT ![q] = Append(@, m)]
     \/ /\ link /\ in[q] # <<>> /\ IsMessage(Last(in[q]))
        /\ inbox' = [in EXCEPT ![q] = Append(Front(@), m)]

(***************************************************************************)
(* sender.rs.  The commands are try_send, resend_outgoing and              *)
(* remote_wants_token; local_reset is part of ResetFriendChannel.          *)
(***************************************************************************)
RelaysToSend(f) ==
  IF f.sent.status = "never" \/ f.relays # f.sent.last THEN f.relays ELSE NoRelays

\* estimate_should_send
ShouldSend(f) == f.wants > 0 \/ RelaysToSend(f) # NoRelays

\* create_unsigned_move_token, for a batch that leaves the ledger mc2.
NextMoveToken(f, mc2, ops, r) ==
  [old |-> f.token.new, new |-> fresh, ic |-> f.token.ic, ctr |-> f.token.ctr + 1,
   ops |-> ops, relays |-> r, balance |-> mc2.balance,
   localDebt |-> mc2.localPendingDebt, remoteDebt |-> mc2.remotePendingDebt]

\* sent_local_relays when the relays r are in the batch
SentRelays(f, r) ==
  CASE r = NoRelays -> f.sent
    [] r # NoRelays /\ f.sent.status = "never" -> [status |-> "last", last |-> r, prev |-> r]
    [] OTHER -> [status |-> "transition", last |-> r, prev |-> f.sent.last]

IsNext(f, token) == token.old = f.token.new

\* No friend was removed and no identifier that is pending was sent again.
Together == parted = <<>>

\* The ledger of p when what its peer has sent is processed.
EffectiveLedger(p) ==
  LET f == friend[p]
      g == friend[Peer(p)]
  IN  IF f.status = "outgoing" /\ g.status = "outgoing" /\ IsNext(f, g.token)
        THEN ProcessAll(g.token.ops, f.mc) ELSE f.mc

\* send_move_token: an empty batch is not sent unless somebody asked for it.
SendMoveToken(p, f, ops, r, rest, cmds, in) ==
  LET mc2 == QueueAll(ops, f.mc)
      token == NextMoveToken(f, mc2, ops, r)
  IN IF ops = <<>> /\ r = NoRelays
          /\ cmds \cap {"resend_outgoing", "remote_wants_token"} = {}
       THEN /\ Quiet(p, [f EXCEPT !.wants = 0, !.aside = FALSE], in)
            /\ UNCHANGED <<fresh, parted>>
       ELSE /\ Send(p, [f EXCEPT !.status = "outgoing", !.mc = mc2,
                                 !.token = token, !.wants = rest, !.aside = FALSE,
                                 !.sent = SentRelays(f, r)],
                    MoveMessage(token, rest > 0 \/ r # NoRelays), in)
            /\ fresh' = fresh + 1
            /\ parted' = IF Together /\ ~NoRepeats(ops, f.mc)
                           THEN [q \in Side |-> EffectiveLedger(q)] ELSE parted

\* collect_outgoing_move_token: the side holds the token and collects a batch.
\* Requests that lack trust are canceled on the way; what is left when the
\* batch is full waits, and the token is wanted back.
SendIncoming(p, f, cmds, in) ==
  \E ops \in BoundedSeq(Ops, MaxBatch), rest \in 0 .. f.wants :
    /\ Len(ops) + rest <= f.wants
    /\ SendableAll(ops, f.mc)
    /\ rest > 0 => Len(ops) = MaxBatch
    /\ SendMoveToken(p, f, ops, RelaysToSend(f), rest, cmds, in)

\* transmit_outgoing: the token that was sent last, again
TransmitOutgoing(p, f, wanted, in) == Send(p, f, MoveMessage(f.token, wanted), in)

\* Slip: only a resend is sent, the token is never asked for.
SendOutgoingUnasked(p, f, cmds, in) ==
  IF "resend_outgoing" \in cmds
    THEN TransmitOutgoing(p, f, f.token.relays # NoRelays, in)
    ELSE Quiet(p, f, in)

SendOutgoing(p, f, cmds, in) ==
  IF ShouldSend(f) THEN TransmitOutgoing(p, f, TRUE, in)
  ELSE IF "resend_outgoing" \in cmds
         THEN TransmitOutgoing(p, f, f.token.relays # NoRelays, in)
         ELSE Quiet(p, f, in)

SendInconsistent(p, f, cmds, in) ==
  IF cmds \cap {"try_send", "resend_outgoing"} # {}
    THEN Send(p, f, InconsistencyMessage(f.localTerms), in)
    ELSE Quiet(p, f, in)

\* send_friend_iter1, after a handler that has drawn `used' fresh values
SendFriend(p, f, cmds, in, used) ==
  \/ f.status = "incoming" /\ SendIncoming(p, f, cmds, in)
  \/ /\ f.status = "outgoing"
     /\ SendOutgoing(p, f, cmds, in)
     /\ fresh' = fresh + used /\ UNCHANGED parted
  \/ /\ f.status = "inconsistent"
     /\ SendInconsistent(p, f, cmds, in)
     /\ fresh' = fresh + used /\ UNCHANGED parted

\* create_friend_messages: only to friends that are online
CreateFriendMessages(p, f, cmds, in, isOnline, used) ==
  IF ~isOnline \/ cmds = {} THEN Quiet(p, f, in) /\ fresh' = fresh + used /\ UNCHANGED parted
  ELSE SendFriend(p, f, cmds, in, used)

-----------------------------------------------------------------------------
(***************************************************************************)
(* Messages and events from the Channeler.                                 *)
(***************************************************************************)
Arrived(p, type) == inbox[p] # <<>> /\ Head(inbox[p]).type = type

Taken(p) == [inbox EXCEPT ![p] = Tail(@)]

\* cancel_pending_requests, cancel_pending_user_requests: other reasons to
\* send, such as backwards operations, stay.
RequestsCanceled(f) == {[f EXCEPT !.wants = w] : w \in 0 .. f.wants}

\* handle_liveness_message
HandleOnline(p) ==
  /\ Arrived(p, "online")
  /\ IF friend[p].status = "none" \/ online[p]
       THEN /\ inbox' = Taken(p)
            /\ UNCHANGED <<friend, online, fresh, parted>>
       ELSE /\ online' = [online EXCEPT ![p] = TRUE]
            /\ CreateFriendMessages(p, [friend[p] EXCEPT !.aside = FALSE],
                                    {"resend_outgoing"}, Taken(p), TRUE, 0)
  /\ UNCHANGED <<link, left>>

HandleOffline(p) ==
  /\ Arrived(p, "offline")
  /\ online' = [online EXCEPT ![p] = FALSE]
  /\ \E f \in RequestsCanceled(friend[p]) : Quiet(p, f, Taken(p))
  /\ UNCHANGED <<link, fresh, parted, left>>

\* handle_friend_message: a message of somebody who is not a friend
HandleStranger(p) ==
  /\ Arrived(p, "move") \/ Arrived(p, "inconsistency")
  /\ friend[p].status = "none"
  /\ inbox' = Taken(p)
  /\ UNCHANGED <<friend, online, link, fresh, parted, left>>

\* gen_reset_terms
GenResetTerms(f) ==
  [token |-> fresh, ic |-> f.token.ic + 1, balance |-> BalanceForReset(f.mc)]

\* The move token of p's message is for a channel in the given state.
ArrivedToken(p, status) == Arrived(p, "move") /\ friend[p].status = status

\* Slip: no token is recognised as the one before ours.
NeverRepeated(f, token) == FALSE

IsRepeated(f, token) == ~IsNext(f, token) /\ f.token.old = token.new

\* handle_incoming_token_match finds nothing wrong
IsAcceptable(f, token) ==
  LET mc2 == ProcessAll(token.ops, f.mc) IN
  /\ token.ic = f.token.ic
  /\ token.ctr = f.token.ctr + 1
  /\ ProcessAllOk(token.ops, f.mc)
  /\ mc2.balance = -token.balance
  /\ mc2.localPendingDebt = token.remoteDebt
  /\ mc2.remotePendingDebt = token.localDebt

WantsToken(m) == IF m.wanted THEN {"remote_wants_token"} ELSE {}

\* TcIncoming::handle_incoming gives Duplicate
HandleDuplicate(p) ==
  LET m == Head(inbox[p]) IN
  /\ ArrivedToken(p, "incoming")
  /\ m.token = friend[p].token
  /\ CreateFriendMessages(p, friend[p], WantsToken(m), Taken(p), online[p], 0)
  /\ UNCHANGED <<online, link, left>>

\* TcOutgoing::handle_incoming gives RetransmitOutgoing
HandleRepeated(p) ==
  /\ ArrivedToken(p, "outgoing")
  /\ IsRepeated(friend[p], Head(inbox[p]).token)
  /\ CreateFriendMessages(p, friend[p], {"resend_outgoing"}, Taken(p),
                          online[p], 0)
  /\ UNCHANGED <<online, link, left>>

\* Slip: the operations are checked and not applied.
TokenReceivedUnapplied(f, token, new) ==
  [f EXCEPT !.status = "incoming", !.token = token, !.wants = @ + new]

\* Slip: the peer's relays are not stored.
TokenReceivedNoRelays(f, token, new) ==
  [f EXCEPT !.status = "incoming", !.mc = ProcessAll(token.ops, @),
            !.token = token, !.wants = @ + new,
            !.sent.status = IF @ = "transition" THEN "last" ELSE @]

\* The friend after the mutations of handle_move_token_success
TokenReceived(f, token, new) ==
  [f EXCEPT !.status = "incoming",
            !.mc = ProcessAll(token.ops, @),
            !.token = token,
            !.wants = @ + new,
            !.sent.status = IF @ = "transition" THEN "last" ELSE @,
            !.remoteRelays = IF token.relays = NoRelays THEN @
                                                        ELSE token.relays]

\* TcOutgoing::handle_incoming gives Received.  The operations may leave the
\* node with something new to send back: a response, a cancel or a collect.
HandleToken(p) ==
  LET m == Head(inbox[p])
      f == friend[p]
  IN  /\ ArrivedToken(p, "outgoing")
      /\ IsNext(f, m.token) /\ IsAcceptable(f, m.token)
      /\ \E new \in {0, 1} :
           /\ new = 1 => m.token.ops # <<>> /\ left.work > 0
           /\ left' = [left EXCEPT !.work = @ - new]
           /\ CreateFriendMessages(p, TokenReceived(f, m.token, new),
                {"try_send"} \cup WantsToken(m), Taken(p), online[p], 0)
      /\ UNCHANGED <<online, link>>

\* handle_move_token_error
HandleTokenError(p) ==
  LET token == Head(inbox[p]).token
      f == friend[p]
  IN  /\ \/ ArrivedToken(p, "incoming") /\ token # f.token
         \/ /\ ArrivedToken(p, "outgoing")
            /\ IF IsNext(f, token) THEN ~IsAcceptable(f, token)
                                   ELSE ~IsRepeated(f, token)
      /\ \E g \in RequestsCanceled(f) :
           CreateFriendMessages(p,
             [g EXCEPT !.status = "inconsistent", !.localTerms = GenResetTerms(f),
                       !.remoteTerms = NoTerms],
             {"try_send"}, Taken(p), online[p], 1)
      /\ UNCHANGED <<online, link, left>>

\* The conditions of try_reset_channel
IsReset(f, token) ==
  /\ token.old = f.localTerms.token
  /\ token.ops = <<>> /\ token.relays = NoRelays
  /\ token.ic = f.localTerms.ic /\ token.ctr = 0
  /\ token.balance = -f.localTerms.balance
  /\ token.localDebt = 0 /\ token.remoteDebt = 0

\* Limits and request status are to be sent anew after a reset.
AfterReset(f, status, balance, token) ==
  {[f EXCEPT !.status = status, !.mc = NewLedger(balance), !.token = token,
             !.localTerms = NoTerms, !.remoteTerms = NoTerms, !.wants = w]
     : w \in {f.wants, f.wants + 1}}

\* try_reset_channel: TokenChannel::new_from_remote_reset
HandleReset(p) ==
  LET m == Head(inbox[p])
      f == friend[p]
  IN  /\ ArrivedToken(p, "inconsistent")
      /\ IsReset(f, m.token)
      /\ \E g \in AfterReset(f, "incoming", f.localTerms.balance, m.token) :
           CreateFriendMessages(p, g, {"try_send"} \cup WantsToken(m), Taken(p),
                                online[p], 0)
      /\ UNCHANGED <<online, link, left>>

\* try_reset_channel: anything but a reset is answered with the reset terms
HandleNoReset(p) ==
  /\ ArrivedToken(p, "inconsistent")
  /\ ~IsReset(friend[p], Head(inbox[p]).token)
  /\ CreateFriendMessages(p, friend[p], {"resend_outgoing"}, Taken(p),
                          online[p], 0)
  /\ UNCHANGED <<online, link, left>>

\* Slip: the peer's terms are always answered with our own.
HandleInconsistencyAnswered(p) ==
  LET terms == Head(inbox[p]).terms
      f == friend[p]
  IN  /\ Arrived(p, "inconsistency")
      /\ \/ /\ f.status = "incoming"
            /\ Quiet(p, f, Taken(p)) /\ UNCHANGED <<fresh, parted>>
         \/ /\ f.status = "outgoing"
            /\ CreateFriendMessages(p,
                 [f EXCEPT !.status = "inconsistent",
                           !.localTerms = GenResetTerms(f),
                           !.remoteTerms = terms],
                 {"try_send"}, Taken(p), online[p], 1)
         \/ /\ f.status = "inconsistent"
            /\ CreateFriendMessages(p, [f EXCEPT !.remoteTerms = terms],
                                    {"try_send"}, Taken(p), online[p], 0)
      /\ UNCHANGED <<online, link, left>>

\* handle_inconsistency_error.  The side that holds the token ignores it:
\* its handler fails, and with it everything it has done.
HandleInconsistency(p) ==
  LET terms == Head(inbox[p]).terms
      f == friend[p]
  IN  /\ Arrived(p, "inconsistency")
      /\ \/ /\ f.status = "incoming"
            /\ Quiet(p, f, Taken(p)) /\ UNCHANGED <<fresh, parted>>
         \/ /\ f.status = "outgoing"
            /\ \E g \in RequestsCanceled(f) :
                 CreateFriendMessages(p,
                   [g EXCEPT !.status = "inconsistent",
                             !.localTerms = GenResetTerms(f),
                             !.remoteTerms = terms],
                   {"try_send"}, Taken(p), online[p], 1)
         \/ /\ f.status = "inconsistent"
            /\ \E g \in RequestsCanceled(f) :
                 Quiet(p, [g EXCEPT !.remoteTerms = terms], Taken(p))
            /\ UNCHANGED <<fresh, parted>>
      /\ UNCHANGED <<online, link, left>>

-----------------------------------------------------------------------------
(***************************************************************************)
(* Commands of the user and of other friends.                              *)
(***************************************************************************)
\* Something new is to be sent to the peer: a limit, a status, a request, or
\* what follows from another friend's message.
Work(p) ==
  /\ left.work > 0 /\ friend[p].status # "none"
  /\ left' = [left EXCEPT !.work = @ - 1]
  /\ CreateFriendMessages(p, [friend[p] EXCEPT !.wants = @ + 1, !.aside = FALSE],
                          {"try_send"}, inbox, online[p], 0)
  /\ UNCHANGED <<online, link>>

\* A request of the peer's could not be passed on, and its cancel is put into the
\* queue after send_friend_iter1 has dealt with the peer: while the token is away
\* init_cancel_pending_move_token passes the peer over, and nobody asks for the
\* token.
PutAside(p) ==
  /\ left.work > 0 /\ friend[p].status = "outgoing" /\ online[p]
  /\ left' = [left EXCEPT !.work = @ - 1]
  /\ Quiet(p, [friend[p] EXCEPT !.wants = @ + 1,
                                !.aside = @ \/ friend[p].wants = 0], inbox)
  /\ UNCHANGED <<online, link, fresh, parted>>

\* control_add_relay, control_remove_relay
ChangeRelays(p) ==
  /\ left.relays > 0 /\ left.work > 0
  /\ left' = [left EXCEPT !.relays = @ - 1, !.work = @ - 1]
  /\ CreateFriendMessages(p, [friend[p] EXCEPT !.relays = @ + 1, !.aside = FALSE],
                          IF friend[p].status = "none" THEN {} ELSE {"try_send"},
                          inbox, online[p], 0)
  /\ UNCHANGED <<online, link>>

\* Slip: the balance is not negated.
ResetTokenSameSign(f) ==
  [old |-> f.remoteTerms.token, new |-> fresh, ic |-> f.remoteTerms.ic,
   ctr |-> 0, ops |-> <<>>, relays |-> NoRelays,
   balance |-> f.remoteTerms.balance, localDebt |-> 0, remoteDebt |-> 0]

\* apply_local_reset
ResetToken(f) ==
  [old |-> f.remoteTerms.token, new |-> fresh, ic |-> f.remoteTerms.ic,
   ctr |-> 0, ops |-> <<>>, relays |-> NoRelays,
   balance |-> -f.remoteTerms.balance, localDebt |-> 0, remoteDebt |-> 0]

\* control_reset_friend_channel: the user accepts the peer's reset terms.
\* Nothing at all happens while the peer is offline.
ResetFriendChannel(p) ==
  LET f == friend[p] IN
  /\ f.status = "inconsistent" /\ f.remoteTerms # NoTerms
  /\ online[p] /\ left.resets > 0
  /\ left' = [left EXCEPT !.resets = @ - 1]
  /\ \E g \in AfterReset(f, "outgoing", -f.remoteTerms.balance, ResetToken(f)) :
       CreateFriendMessages(p, g, {"local_reset"}, inbox, TRUE, 1)
  /\ UNCHANGED <<online, link>>

-----------------------------------------------------------------------------
(***************************************************************************)
(* Connections, restarts and unfriending.  A broken connection loses the   *)
(* messages that had not reached the peer's funder.                        *)
(***************************************************************************)
Remains(s) ==
  {SubSeq(s, 1, n) : n \in {n \in 0 .. Len(s) :
                              \A i \in n + 1 .. Len(s) : IsMessage(s[i])}}

BrokenInbox(p) ==
  {IF link THEN Append(s, LivenessEvent("offline")) ELSE s
     : s \in IF link THEN Remains(inbox[p]) ELSE {inbox[p]}}

Connect ==
  /\ ~link
  /\ \A p \in Side : friend[p].status # "none"
  /\ link' = TRUE
  /\ inbox' = [p \in Side |-> Append(inbox[p], LivenessEvent("online"))]
  /\ UNCHANGED <<friend, online, fresh, parted, left>>

Disconnect ==
  /\ link /\ left.drops > 0
  /\ link' = FALSE
  /\ left' = [left EXCEPT !.drops = @ - 1]
  /\ \E s \in BrokenInbox("Low"), t \in BrokenInbox("High") :
       inbox' = [p \in Side |-> IF p = "Low" THEN s ELSE t]
  /\ UNCHANGED <<friend, online, fresh, parted>>

\* The process of p ends and starts again from its database.
Crash(p) ==
  /\ link' = FALSE
  /\ online' = [online EXCEPT ![p] = FALSE]
  /\ \E s \in BrokenInbox(Peer(p)) :
       inbox' = [q \in Side |-> IF q = p THEN <<>> ELSE s]
  /\ UNCHANGED <<friend, fresh>>

Restart(p) ==
  /\ left.drops > 0
  /\ left' = [left EXCEPT !.drops = @ - 1]
  /\ Crash(p)
  /\ UNCHANGED parted

\* control_remove_friend: the Channeler also drops the connection.
RemoveFriend(p) ==
  /\ left.removals > 0
  /\ left' = [left EXCEPT !.removals = @ - 1]
  /\ \/ /\ friend[p].status \in {"incoming", "outgoing"}
        /\ friend' = [friend EXCEPT ![p] = NoFriend(@.relays)]
        /\ link' = FALSE
        /\ \E s \in BrokenInbox("Low"), t \in BrokenInbox("High") :
             inbox' = [q \in Side |-> IF q = "Low" THEN s ELSE t]
        /\ parted' = IF Together THEN [q \in Side |-> EffectiveLedger(q)] ELSE parted
        /\ UNCHANGED <<online, fresh>>
     \/ /\ friend[p].status = "inconsistent"   \* unreachable!(), and the node is down
        /\ Crash(p)
        /\ UNCHANGED parted

\* control_add_friend and setting the friend's status to enabled.  The user
\* may not remember the balance.
AddFriend(p) ==
  /\ friend[p].status = "none"
  /\ \E b \in {0, InitialBalance} :
       friend' = [friend EXCEPT
                    ![p] = NewFriend(p, b, @.relays, friend[Peer(p)].relays)]
  /\ UNCHANGED <<online, inbox, link, fresh, parted, left>>

-----------------------------------------------------------------------------
Handle(p) ==
  \/ HandleOnline(p)    \/ HandleOffline(p)     \/ HandleStranger(p)
  \/ HandleDuplicate(p) \/ HandleRepeated(p)    \/ HandleToken(p)
  \/ HandleTokenError(p)
  \/ HandleReset(p)     \/ HandleNoReset(p)     \/ HandleInconsistency(p)

Next ==
  \/ \E p \in Side : \/ Handle(p)
                     \/ Work(p) \/ PutAside(p) \/ ChangeRelays(p) \/ ResetFriendChannel(p)
                     \/ Restart(p) \/ RemoveFriend(p) \/ AddFriend(p)
  \/ Connect
  \/ Disconnect

Spec == Init /\ [][Next]_vars

(***************************************************************************)
(* The Channeler keeps trying to connect to a friend, and a funder handles *)
(* every event it is given: weak fairness of Handle(p), which is enabled   *)
(* while the inbox is not empty and is the step that takes the first event *)
(* (written out, as TLC evaluates this much faster than ENABLED Handle(p)).*)
(***************************************************************************)
Taking(p) == inbox[p] # <<>> /\ inbox'[p] = Tail(inbox[p])

Fairness ==
  /\ WF_vars(Connect)
  /\ \A p \in Side : []<>(inbox[p] = <<>>) \/ []<><<Taking(p)>>_vars

FairSpec == Spec /\ Fairness

-----------------------------------------------------------------------------
\* p has given the token away, and its peer either holds it or will accept it
\* and then hold the mirror image of p's ledger.
GaveToken(p) ==
  LET f == friend[p]
      g == friend[Peer(p)]
  IN  /\ f.status = "outgoing"
      /\ \/ /\ g.status = "incoming" /\ g.token = f.token
            /\ g.mc = Mirror(f.mc)
         \/ /\ g.status = "outgoing" /\ IsNext(g, f.token)
            /\ IsAcceptable(g, f.token)
            /\ ProcessAll(f.token.ops, g.mc) = Mirror(f.mc)

\* Until somebody removes a friend or sends a request whose identifier is pending
\* there is exactly one token, whatever is lost, repeated or overwritten on the way,
\* and so no inconsistency.
OneToken == Together => \E p \in Side : GaveToken(p)

\* A reset token that matches the peer's current terms will be accepted and
\* makes the two new ledgers agree.
ResetIsAccepted ==
  \A p \in Side :
    LET f == friend[p]
        g == friend[Peer(p)]
    IN  /\ f.status = "outgoing" /\ g.status = "inconsistent"
        /\ f.token.old = g.localTerms.token
        => /\ IsReset(g, f.token)
           /\ NewLedger(g.localTerms.balance) = Mirror(f.mc)

\* Holding the token proves that the peer knows the relays we last sent, and
\* during a transition it knows the new ones or those before.
PeerKnowsRelays ==
  Together =>
    \A p \in Side :
      LET f == friend[p]
          known == friend[Peer(p)].remoteRelays
      IN  /\ f.status = "incoming" /\ f.sent.status # "never"
               => f.sent.status = "last" /\ known = f.sent.last
          /\ f.sent.status = "transition" => known \in {f.sent.last, f.sent.prev}

\* What is to be sent is sent in the end, also when the other side has the
\* token and nothing to send itself, as soon as there is more than what was put
\* aside, and unless the friends are no longer together.
WantsAreServed ==
  \A p \in Side :
    friend[p].wants > 0 /\ ~friend[p].aside ~> friend[p].wants = 0 \/ ~Together

\* The two sides do not retransmit to each other for ever.
Quiescence == <>[](\A p \in Side : inbox[p] = <<>>)

(***************************************************************************)
(* Seen from outside the channel is a credit line: a batch takes effect on *)
(* both sides when it is sent, although the receiver only processes it     *)
(* when the token arrives.  The line ends when a friend is removed or an   *)
(* identifier that is pending is sent again.                               *)
(***************************************************************************)
Line == INSTANCE CreditLine
          WITH InitialBalances <- {InitialBalance},
               mc <- IF Together THEN [p \in Side |-> EffectiveLedger(p)] ELSE parted

\* Every step is a step of the credit line, in which a batch of any length is one.
ImplementsCreditLine == Line!Spec
=============================================================================
