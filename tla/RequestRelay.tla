---------------------------- MODULE RequestRelay ----------------------------
(***************************************************************************)
(* Requests travel along a chain of friends from a buyer, node 1, to a     *)
(* seller, node N, and responses, cancels and collects travel back.  The   *)
(* module follows a funder that has several friends:                       *)
(*   handler/handle_friend.rs   forwarding of each operation,              *)
(*   handler/canceler.rs        cancels when a friend is lost,             *)
(*   handler/sender.rs          what is sent at the end of every handler,  *)
(*   handler/handle_control.rs  transactions, invoices, unfriending.       *)
(*                                                                         *)
(* Link i joins node i, its left side, and node i + 1.  The channel below  *)
(* is the one of module TokenChannel: an operation in a token that was     *)
(* given away arrives once, whatever the connection does.  So a link has   *)
(* one token, held by a side or on its way with a batch.  Amounts are left *)
(* to module CreditLine; whether there is enough trust is a free choice    *)
(* when a request is to be sent, and so is whether amounts that nobody has *)
(* checked can be added up.                                                *)
(***************************************************************************)
EXTENDS Integers, Sequences, FiniteSets, SequencesExt

CONSTANTS N,          \* number of nodes
          Uid,        \* transactions the buyer may create
          Enough,     \* sets of transactions that pay the whole invoice
          MaxBatch,   \* max_operations_in_batch
          MaxDrops,   \* how often a side loses its liveness,
          MaxCloses,  \* a node closes or opens its requests,
          MaxBreaks,  \* a friend is removed and added again,
          MaxEvents,  \* how often any of these three happens,
          MaxInvoices \* and how often an invoice is issued

ASSUME ChainAssumption == N \in Nat /\ N >= 2
ASSUME UidAssumption == IsFiniteSet(Uid)
ASSUME EnoughAssumption == Enough \subseteq SUBSET Uid
ASSUME BatchAssumption == MaxBatch \in Nat /\ MaxBatch >= 1
ASSUME BoundsAssumption == {MaxDrops, MaxCloses, MaxBreaks, MaxEvents, MaxInvoices} \subseteq Nat

VARIABLES link,       \* link[i]: what both ends keep about each other
          opened,     \* the buyer's open_transactions, with their responses
          invoice,    \* the seller's invoice and its incoming transactions
          committed,  \* history: transactions the buyer has committed to
          paid,       \* history: paid[i], those whose collect node i has seen
          panicked,   \* places where a node has panicked
          left        \* what is left of the bounds

vars == <<link, opened, invoice, committed, paid, panicked, left>>

Node == 1 .. N
Link == 1 .. N - 1

-----------------------------------------------------------------------------
(***************************************************************************)
(* Pending transactions and what operations make of them.                  *)
(***************************************************************************)
NothingPending == [u \in Uid |-> "none"]

Makes(op, u) == [kind |-> op, id |-> u]

\* The elements of a sequence that are in T, in their order
Only(s, T) ==
  LET t[k \in 0 .. Len(s)] ==
        IF k = 0 THEN <<>>
        ELSE IF s[k] \in T THEN Append(t[k - 1], s[k]) ELSE t[k - 1]
  IN  t[Len(s)]

\* A sequence of the given operation for each of the requests
ForEach(kind, us) == [k \in 1 .. Len(us) |-> Makes(kind, us[k])]

StageAfter(kind) == CASE kind = "request"  -> "request"
                      [] kind = "response" -> "response"
                      [] OTHER             -> "none"

StageBefore(kind) == CASE kind = "request"  -> {"none"}
                       [] kind = "response" -> {"request"}
                       [] kind = "cancel"   -> {"request", "response"}
                       [] kind = "collect"  -> {"response"}

\* The pending transactions after each of the operations
Trace(ops, pending) ==
  LET t[k \in 0 .. Len(ops)] ==
        IF k = 0 THEN pending
        ELSE [t[k - 1] EXCEPT ![ops[k].id] = StageAfter(ops[k].kind)]
  IN  t

After(ops, pending) == Trace(ops, pending)[Len(ops)]

Fits(ops, pending) ==
  \A k \in 1 .. Len(ops) :
    Trace(ops, pending)[k - 1][ops[k].id] \in StageBefore(ops[k].kind)

-----------------------------------------------------------------------------
(***************************************************************************)
(* reqs is pending_requests, or pending_user_requests at the buyer, and    *)
(* back is pending_backwards_ops.  lpend and rpend are the transactions    *)
(* that the left side has made pending and that the right side has taken.  *)
(* ropen says whether the right side takes requests, lopen what its friend *)
(* knows of it and wopen what its user wants.  aside: what is in back was  *)
(* queued without a command to send it, and the token is not asked for.    *)
(***************************************************************************)
NewLink ==
  [lstatus |-> "consistent", rstatus |-> "consistent",
   lonline |-> TRUE, ronline |-> TRUE,
   reqs |-> <<>>, back |-> <<>>, aside |-> FALSE,
   lpend |-> NothingPending, rpend |-> NothingPending,
   lopen |-> TRUE, ropen |-> TRUE, wopen |-> TRUE,
   token |-> "left", batch |-> <<>>]

NoInvoice == [open |-> FALSE, incoming |-> {}]

Init ==
  /\ link = [i \in Link |-> NewLink]
  /\ opened = NothingPending
  /\ invoice = NoInvoice
  /\ committed = {}
  /\ paid = [i \in Link |-> {}]
  /\ panicked = {}
  /\ left = [drops |-> MaxDrops, closes |-> MaxCloses, breaks |-> MaxBreaks,
             invoices |-> MaxInvoices, created |-> Uid]

\* What a handler works on; `panic' says where it panics.
State == [link |-> link, opened |-> opened, invoice |-> invoice,
          paid |-> paid, panic |-> {}]

Panic(S, where) == [S EXCEPT !.panic = @ \cup {where}]

\* A handler that panics changes nothing: its mutations are not persisted.
\* What a node does when it is started again follows without the panic as well,
\* and is not followed a second time.
Done(S) ==
  /\ panicked = {}
  /\ IF S.panic = {}
       THEN /\ link' = S.link /\ opened' = S.opened /\ invoice' = S.invoice
            /\ paid' = S.paid
            /\ UNCHANGED panicked
       ELSE /\ panicked' = S.panic
            /\ UNCHANGED <<link, opened, invoice, paid>>

-----------------------------------------------------------------------------
\* find_request_origin gives a friend
HasOrigin(S, n, u) ==
  /\ n > 1
  /\ S.link[n - 1].rstatus = "consistent"
  /\ S.link[n - 1].rpend[u] # "none"

\* PushBackPendingBackwardsOp to the friend the requests came from
Queued(S, n, ops, aside) ==
  LET l == S.link[n - 1] IN
  [S EXCEPT !.link[n - 1] = [l EXCEPT !.back = l.back \o ops, !.aside = aside]]

\* with the command to send (set_try_send), which asks for the token,
PushBack(S, n, ops) == IF ops = <<>> THEN S ELSE Queued(S, n, ops, FALSE)

\* and without.  It may have been asked for already.
PushAside(S, n, ops) ==
  IF ops = <<>> THEN S
  ELSE Queued(S, n, ops, IF S.link[n - 1].back = <<>> THEN TRUE
                         ELSE S.link[n - 1].aside)

\* Operations of transactions that the node takes for its own
Own(S, n, ops) == Only(ops, {op \in Range(ops) : ~HasOrigin(S, n, op.id)})
Foreign(S, n, ops) == Only(ops, {op \in Range(ops) : HasOrigin(S, n, op.id)})

\* Slip: a collect is not passed on.
HandleBackKeepsCollects(S, n, ops) ==
  LET own   == Own(S, n, ops)
      mine  == IF n = 1 THEN S.opened ELSE NothingPending
      after == [S EXCEPT !.opened = IF n = 1 THEN After(own, S.opened) ELSE @]
      kept  == SelectSeq(Foreign(S, n, ops), LAMBDA op : op.kind # "collect")
  IN  IF Fits(own, mine)
        THEN PushBack(after, n, kept)
        ELSE Panic(S, "not our transaction")

(***************************************************************************)
(* handle_response_send_funds, handle_cancel_send_funds,                   *)
(* handle_collect_send_funds, and the canceler, which hands the node       *)
(* cancels of its own making.  An operation without an origin is taken for *)
(* one of the node's own transactions, and unwrap() is called on it.       *)
(***************************************************************************)
HandleBack(S, n, ops) ==
  LET own   == Own(S, n, ops)
      mine  == IF n = 1 THEN S.opened ELSE NothingPending
      after == [S EXCEPT !.opened = IF n = 1 THEN After(own, S.opened) ELSE @]
  IN  IF Fits(own, mine)
        THEN PushBack(after, n, Foreign(S, n, ops))
        ELSE Panic(S, "not our transaction")

\* Slip: requests that are already pending at the friend are canceled too.
CancelRequestsAndPending(S, n) ==
  LET us == S.link[n].reqs
              \o SetToSeq({u \in Uid : S.link[n].lpend[u] = "request"})
  IN  HandleBack([S EXCEPT !.link[n].reqs = <<>>], n, ForEach("cancel", us))

\* cancel_pending_requests, cancel_pending_user_requests
CancelRequests(S, n) ==
  LET us == S.link[n].reqs
  IN  HandleBack([S EXCEPT !.link[n].reqs = <<>>], n, ForEach("cancel", us))

\* cancel_local_pending_transactions
CancelPending(S, n) ==
  LET us == SetToSeq({u \in Uid : S.link[n].lpend[u] # "none"})
  IN  HandleBack([S EXCEPT !.link[n].lpend = NothingPending], n,
                 ForEach("cancel", us))

\* is_friend_ready
Ready(l) == l.lonline /\ l.lstatus = "consistent" /\ l.lopen

(***************************************************************************)
(* handle_request_send_funds.  The seller responds if the invoice is open; *)
(* the responses are signed later, the last one first.  A relay may find   *)
(* that too few fees are left: `refused' are the requests it cancels.      *)
(***************************************************************************)
Refused(S, n, us) ==
  IF n = N THEN {IF S.invoice.open THEN {} ELSE Range(us)}
  ELSE IF Ready(S.link[n]) THEN SUBSET Range(us) ELSE {Range(us)}

\* Slip: refused requests are dropped, and nobody is told.
HandleRequestsDropped(S, n, us, refused) ==
  LET taken == Only(us, Uid \ refused)
  IN  IF n = N
        THEN PushBack([S EXCEPT !.invoice.incoming = @ \cup Range(taken)], n,
                      ForEach("response", Reverse(taken)))
        ELSE [S EXCEPT !.link[n].reqs = @ \o taken]

HandleRequests(S, n, us, refused) ==
  LET taken   == Only(us, Uid \ refused)
      cancels == ForEach("cancel", Only(us, refused))
  IN  IF n = N
        THEN PushBack([S EXCEPT !.invoice.incoming = @ \cup Range(taken)], n,
                      cancels \o ForEach("response", Reverse(taken)))
        ELSE PushBack([S EXCEPT !.link[n].reqs = @ \o taken], n, cancels)

-----------------------------------------------------------------------------
(***************************************************************************)
(* sender.rs.  A side that holds the token and has something to send sends *)
(* all of it, up to the limit of a batch.                                  *)
(***************************************************************************)
SendsRight(S, n) ==
  /\ n < N
  /\ S.link[n].lstatus = "consistent" /\ S.link[n].lonline
  /\ S.link[n].token = "left"

\* Requests that lack trust, for each way it may turn out
Untrusted(S, n) == IF SendsRight(S, n) THEN SUBSET Range(S.link[n].reqs) ELSE {{}}

\* The number of requests that are tried: all of them, or so many that the
\* batch is full.
Tried(S, n, untrusted) ==
  LET us      == S.link[n].reqs
      sent(k) == Len(Only(SubSeq(us, 1, k), Uid \ untrusted))
  IN  IF SendsRight(S, n)
        THEN {k \in 0 .. Len(us) : /\ k > 0 => sent(k - 1) < MaxBatch
                                   /\ k < Len(us) => sent(k) = MaxBatch}
        ELSE {0}

\* Requests to the right.  A request that lacks trust is canceled; one of our
\* own is reported to the user, and its transaction stays open.  One that is
\* pending already is sent and not added, and the friend does not accept it.
\* The token is sent without any if it may be sent empty.
SendRequests(S, n, untrusted, k, empty) ==
  LET l       == S.link[n]
      us      == SubSeq(l.reqs, 1, k)
      trusted == Only(us, Uid \ untrusted)
      ops     == ForEach("request", trusted)
      added   == ForEach("request", Only(trusted, {u \in Uid : l.lpend[u] = "none"}))
      cancels == ForEach("cancel", Only(us, untrusted))
      fit     == Fits(ops, l.lpend)
      sent    == [l EXCEPT !.reqs = SubSeq(@, k + 1, Len(@)),
                           !.lpend = After(added, @),
                           !.token = IF ops = <<>> /\ ~empty THEN @
                                     ELSE IF fit THEN "right coming" ELSE "void",
                           !.batch = IF fit THEN ops ELSE <<>>]
  IN  IF ~SendsRight(S, n) \/ (k = 0 /\ ~empty)
        THEN S
      ELSE IF k > 0 /\ ~l.lopen
        THEN Panic(S, "request cannot be queued")
      ELSE PushAside([S EXCEPT !.link[n] = sent], n, Foreign(S, n, cancels))

\* How many answers go into a batch.  A change of request status comes first.
Room(l) ==
  LET limit == IF l.ropen = l.wopen THEN MaxBatch ELSE MaxBatch - 1
  IN  IF Len(l.back) < limit THEN Len(l.back) ELSE limit

\* Slip: what was sent stays in the queue.
SendBackKept(S, n, empty) ==
  LET l    == S.link[n - 1]
      ops  == SubSeq(l.back, 1, Room(l))
      sent == [l EXCEPT !.aside = FALSE,
                        !.rpend = After(ops, @), !.ropen = l.wopen,
                        !.token = "left coming", !.batch = ops]
  IN  IF n = 1 \/ l.rstatus # "consistent" \/ ~l.ronline \/ l.token # "right"
           \/ (l.back = <<>> /\ l.ropen = l.wopen /\ ~empty)
        THEN S
      ELSE IF ~Fits(ops, l.rpend)
        THEN Panic(S, "backwards operation cannot be queued")
      ELSE [S EXCEPT !.link[n - 1] = sent]

\* Backwards operations, and a change of request status, to the left.  The
\* token is asked for at once if something stays behind.
SendBack(S, n, empty) ==
  LET l    == S.link[n - 1]
      ops  == SubSeq(l.back, 1, Room(l))
      sent == [l EXCEPT !.back = SubSeq(@, Room(l) + 1, Len(@)), !.aside = FALSE,
                        !.rpend = After(ops, @), !.ropen = l.wopen,
                        !.token = "left coming", !.batch = ops]
  IN  IF n = 1 \/ l.rstatus # "consistent" \/ ~l.ronline \/ l.token # "right"
           \/ (l.back = <<>> /\ l.ropen = l.wopen /\ ~empty)
        THEN S
      ELSE IF ~Fits(ops, l.rpend)
        THEN Panic(S, "backwards operation cannot be queued")
      ELSE [S EXCEPT !.link[n - 1] = sent]

\* create_friend_messages.  Cancels that the first iteration brings about are
\* sent in the second, if their friend's token is here; if it is away, they
\* are queued and nobody asks for it.  A request that is tried may have amounts
\* that cannot be added up, or more than the total of its payment: nobody has
\* checked them before.  For which of its two friends a node may send an empty
\* token: the one that has just come online (resend_outgoing), or nobody.
Messages(S, n, toright, toleft) ==
  \E untrusted \in Untrusted(S, n) :
    \E k \in Tried(S, n, untrusted) :
      \/ Done(SendBack(SendRequests(S, n, untrusted, k, toright), n, toleft))
      \/ k > 0 /\ Done(Panic(S, "amounts"))

CreateFriendMessages(S, n) == Messages(S, n, FALSE, FALSE)

-----------------------------------------------------------------------------
(***************************************************************************)
(* Move tokens.                                                            *)
(***************************************************************************)
Consistent(l) == l.lstatus = "consistent" /\ l.rstatus = "consistent"

\* Node i + 1 receives the requests of node i.
ReceiveRequests(i) ==
  LET l  == link[i]
      us == [k \in 1 .. Len(l.batch) |-> l.batch[k].id]
      S  == [State EXCEPT !.link[i] = [l EXCEPT !.token = "right",
                                                !.batch = <<>>,
                                                !.rpend = After(l.batch, @)]]
  IN  /\ Consistent(l) /\ l.token = "right coming" /\ l.ronline
      /\ \E refused \in Refused(S, i + 1, us) :
           CreateFriendMessages(HandleRequests(S, i + 1, us, refused), i + 1)
      /\ UNCHANGED <<committed, left>>

\* remote_requests_closed as handle_incoming_token_match computes it: true
\* when requests were closed and are open now.
RemoteRequestsClosed(before, now) == now /\ ~before

\* Node i receives backwards operations of node i + 1.
ReceiveBack(i) ==
  LET l == link[i]
      S == [State EXCEPT
              !.link[i] = [l EXCEPT !.token = "left", !.batch = <<>>,
                                    !.lpend = After(l.batch, @),
                                    !.lopen = l.ropen],
              !.paid[i] = @ \cup {u \in Uid :
                                    Makes("collect", u) \in Range(l.batch)}]
      T == IF RemoteRequestsClosed(l.lopen, l.ropen)
             THEN CancelRequests(S, i) ELSE S
  IN  /\ Consistent(l) /\ l.token = "left coming" /\ l.lonline
      /\ CreateFriendMessages(HandleBack(T, i, l.batch), i)
      /\ UNCHANGED <<committed, left>>

\* The right side has sent that it wants the token.
AsksForToken(l) == (l.back # <<>> /\ ~l.aside) \/ l.ropen # l.wopen

\* The side without the token asks for it, and the other has nothing to send.
PassToken(i) ==
  LET l == link[i] IN
  /\ Consistent(l) /\ l.lonline /\ l.ronline
  /\ \/ /\ l.token = "left" /\ AsksForToken(l)
        /\ CreateFriendMessages([State EXCEPT !.link[i].token = "right"], i + 1)
     \/ /\ l.token = "right" /\ l.reqs # <<>>
        /\ CreateFriendMessages([State EXCEPT !.link[i].token = "left"], i)
  /\ UNCHANGED <<committed, left>>

-----------------------------------------------------------------------------
(***************************************************************************)
(* Liveness of friends and restarts.                                       *)
(***************************************************************************)
\* The bound on drops, changes of request status and removals together
MoreEvents ==
  (MaxDrops - left.drops) + (MaxCloses - left.closes) + (MaxBreaks - left.breaks) < MaxEvents

Dropped == MoreEvents /\ left.drops > 0 /\ left' = [left EXCEPT !.drops = @ - 1]

LeftOffline(i) ==
  /\ link[i].lonline /\ Dropped
  /\ CreateFriendMessages(
       CancelRequests([State EXCEPT !.link[i].lonline = FALSE], i), i)
  /\ UNCHANGED committed

RightOffline(i) ==
  /\ link[i].ronline /\ Dropped
  /\ Done([State EXCEPT !.link[i].ronline = FALSE])
  /\ UNCHANGED committed

\* A side that comes online sends the token that it holds, or says again that
\* it wants the other's.
LeftOnline(i) ==
  /\ ~link[i].lonline
  /\ Messages([State EXCEPT !.link[i].lonline = TRUE], i, TRUE, FALSE)
  /\ UNCHANGED <<committed, left>>

RightOnline(i) ==
  /\ ~link[i].ronline
  /\ Messages([State EXCEPT !.link[i].ronline = TRUE, !.link[i].aside = FALSE],
              i + 1, FALSE, TRUE)
  /\ UNCHANGED <<committed, left>>

\* Queues are persisted, liveness is not.
Restart(n) ==
  /\ Dropped
  /\ Done([State EXCEPT !.link = [i \in Link |->
             [link[i] EXCEPT !.lonline = @ /\ i # n,
                             !.ronline = @ /\ i # n - 1]]])
  /\ UNCHANGED committed

-----------------------------------------------------------------------------
(***************************************************************************)
(* The users.                                                              *)
(***************************************************************************)
\* control_create_transaction
CreateTransaction(u) ==
  /\ u \in left.created /\ Ready(link[1])
  /\ left' = [left EXCEPT !.created = @ \ {u}]
  /\ CreateFriendMessages([State EXCEPT !.link[1].reqs = Append(@, u),
                                        !.opened[u] = "request"], 1)
  /\ UNCHANGED committed

\* control_set_requests_status of node i + 1 towards node i
SetRequestsStatus(i) ==
  /\ MoreEvents /\ left.closes > 0 /\ left' = [left EXCEPT !.closes = @ - 1]
  /\ CreateFriendMessages([State EXCEPT !.link[i].wopen = ~@,
                                        !.link[i].aside = FALSE], i + 1)
  /\ UNCHANGED committed

\* control_add_invoice
AddInvoice ==
  /\ panicked = {} /\ ~invoice.open /\ left.invoices > 0
  /\ left' = [left EXCEPT !.invoices = @ - 1]
  /\ invoice' = [open |-> TRUE, incoming |-> {}]
  /\ UNCHANGED <<link, opened, committed, paid, panicked>>

\* Slip: the transactions of the invoice are collected and not canceled.
CancelInvoiceCollects ==
  LET us == SetToSeq(invoice.incoming)
      S  == [State EXCEPT !.invoice = NoInvoice]
  IN  /\ invoice.open
      /\ CreateFriendMessages(
           IF \A u \in invoice.incoming : HasOrigin(S, N, u)
             THEN PushBack(S, N, ForEach("collect", us))
             ELSE Panic(S, "invoice without origin"), N)
      /\ UNCHANGED <<committed, left>>

\* control_cancel_invoice: every incoming transaction must have an origin.
CancelInvoice ==
  LET us == SetToSeq(invoice.incoming)
      S  == [State EXCEPT !.invoice = NoInvoice]
  IN  /\ invoice.open
      /\ CreateFriendMessages(
           IF \A u \in invoice.incoming : HasOrigin(S, N, u)
             THEN PushBack(S, N, ForEach("cancel", us))
             ELSE Panic(S, "invoice without origin"), N)
      /\ UNCHANGED <<committed, left>>

\* control_commit_invoice, with the commits of a buyer that has the responses
CommitInvoice(us) ==
  LET S    == [State EXCEPT !.invoice = NoInvoice]
      pays == SetToSeq({u \in us : u \in invoice.incoming /\ HasOrigin(S, N, u)})
  IN  /\ invoice.open
      /\ us \in Enough /\ \A u \in us : opened[u] = "response"
      /\ committed' = committed \cup us
      /\ CreateFriendMessages(PushBack(S, N, ForEach("collect", pays)), N)
      /\ UNCHANGED left

-----------------------------------------------------------------------------
(***************************************************************************)
(* Unfriending.  A friend that is removed and added again has a new        *)
(* channel, and the two sides find out that they disagree.                 *)
(***************************************************************************)
Broken == MoreEvents /\ left.breaks > 0 /\ left' = [left EXCEPT !.breaks = @ - 1]

\* Node i removes node i + 1 (control_remove_friend) and adds it again.
LeftRemoves(i) ==
  LET S == CancelPending(CancelRequests(State, i), i) IN
  /\ link[i].lstatus = "consistent" /\ Broken
  /\ CreateFriendMessages([S EXCEPT !.link[i].lopen = FALSE,
                                    !.link[i].token = "void",
                                    !.link[i].batch = <<>>], i)
  /\ UNCHANGED committed

\* Node i + 1 removes node i and adds it again.
RightRemoves(i) ==
  /\ link[i].rstatus = "consistent" /\ Broken
  /\ Done([State EXCEPT !.link[i] =
             [@ EXCEPT !.rpend = NothingPending, !.back = <<>>, !.aside = FALSE,
                       !.ropen = FALSE, !.wopen = FALSE,
                       !.token = "void", !.batch = <<>>]])
  /\ UNCHANGED committed

\* handle_move_token_error cancels what is pending; handle_inconsistency_error
\* cancels the queued requests only.
LeftInconsistent(i) ==
  /\ link[i].token = "void" /\ link[i].lstatus = "consistent"
  /\ \E S \in {CancelRequests(CancelPending(State, i), i), CancelRequests(State, i)} :
       CreateFriendMessages([S EXCEPT !.link[i].lstatus = "inconsistent"], i)
  /\ UNCHANGED <<committed, left>>

RightInconsistent(i) ==
  /\ link[i].token = "void" /\ link[i].rstatus = "consistent"
  /\ Done([State EXCEPT !.link[i].rstatus = "inconsistent"])
  /\ UNCHANGED <<committed, left>>

\* One side accepts the reset terms of the other, which gets the token.
Reset(i) ==
  LET fresh(side) ==
        [State EXCEPT !.link[i] =
           [@ EXCEPT !.lstatus = "consistent", !.rstatus = "consistent",
                     !.lpend = NothingPending, !.rpend = NothingPending,
                     !.lopen = FALSE, !.ropen = FALSE,
                     !.token = side, !.batch = <<>>, !.aside = FALSE]]
  IN  /\ link[i].lstatus = "inconsistent" /\ link[i].rstatus = "inconsistent"
      /\ \/ CreateFriendMessages(fresh("left"), i)
         \/ CreateFriendMessages(fresh("right"), i + 1)
      /\ UNCHANGED <<committed, left>>

-----------------------------------------------------------------------------
Next ==
  \/ \E i \in Link :
       \/ ReceiveRequests(i) \/ ReceiveBack(i) \/ PassToken(i)
       \/ LeftOffline(i) \/ RightOffline(i) \/ LeftOnline(i) \/ RightOnline(i)
       \/ SetRequestsStatus(i)
       \/ LeftRemoves(i) \/ RightRemoves(i)
       \/ LeftInconsistent(i) \/ RightInconsistent(i) \/ Reset(i)
  \/ \E n \in Node : Restart(n)
  \/ \E u \in Uid : CreateTransaction(u)
  \/ AddInvoice
  \/ CancelInvoice
  \/ \E us \in Enough : CommitInvoice(us)

Spec == Init /\ [][Next]_vars

(***************************************************************************)
(* The system does not stop while it can go on: tokens arrive and are      *)
(* given when asked for (module TokenChannel), friends come online again,  *)
(* and the seller settles its invoices.  This is weak fairness of all of   *)
(* these steps together, with their guards written out for TLC.            *)
(***************************************************************************)
CanGoOn ==
  \/ invoice.open
  \/ \E i \in Link :
       LET l == link[i] IN
       \/ ~l.lonline \/ ~l.ronline
       \/ Consistent(l) /\ \/ l.token \in {"left coming", "right coming"}
                           \/ l.token = "left" /\ AsksForToken(l)
                           \/ l.token = "right" /\ l.reqs # <<>>

GoesOn == link' # link \/ invoice' # invoice

Fairness == []<>~CanGoOn \/ []<><<GoesOn>>_vars

FairSpec == Spec /\ Fairness

-----------------------------------------------------------------------------
\* Nobody has been unfriended so far.
Befriended == left.breaks = MaxBreaks

\* While nobody is unfriended and requests stay open no handler panics, but for
\* the amounts of a request that nobody has checked: every operation that comes
\* back finds its origin, and whatever is queued can be sent when the token
\* comes.
OnlyAmountsPanic ==
  Befriended /\ left.closes = MaxCloses => panicked \subseteq {"amounts"}

\* The sender's expectation that a queued request can be sent: when the friend
\* closes its requests, the requests that wait for it are canceled first
\* (cancel_pending_requests), so queue_request never fails on a closed channel.
ClosingIsHandled == "request cannot be queued" \notin panicked

\* What a relay has promised to its right is promised to it from its left, so
\* that it can never be made to pay without being paid, while nobody is
\* unfriended.
RelaysAreCovered ==
  Befriended =>
  \A i \in Link \ {1}, u \in Uid :
    link[i].lpend[u] # "none" => link[i - 1].rpend[u] # "none"

\* A relay that has paid has collected, or has the collect in its queue, while
\* nobody is unfriended.
RelaysAreRepaid ==
  Befriended =>
  \A i \in Link \ {1} :
    \A u \in paid[i] :
      \/ Makes("collect", u) \in Range(link[i - 1].back)
      \/ Makes("collect", u) \in Range(link[i - 1].batch)
      \/ u \in paid[i - 1]

\* Nobody on the route pays for a transaction that the buyer has not committed
\* to, even when friends are removed in the middle of it.
OnlyCommittedIsPaid == \A i \in Link : paid[i] \subseteq committed

\* A cancel of the transaction was queued for a friend whose token is away, and
\* nobody asks for the token.
PutAside(u) ==
  \E i \in Link : link[i].aside /\ Makes("cancel", u) \in Range(link[i].back)

\* Credits do not stay frozen: every pending transaction is collected or
\* canceled in the end, while nobody is unfriended and no handler panics; all
\* but those whose cancel the sender has put aside.
FrozenIsReleased ==
  <>[](Befriended /\ panicked = {} =>
         \A i \in Link, u \in Uid : link[i].lpend[u] = "none" \/ PutAside(u))
=============================================================================
