# A TLA+ verification of an Offst node

Offst is a credit network. Nodes that trust each other become *friends*; two
friends keep one line of credit, and payments travel along chains of friends.
This directory models the protocol by which two friends keep that line of
credit, the way requests travel along a chain of friends, the payments of a
buyer, the parts of a node that keep it connected to its friends, the encrypted
connections and relays below them, the index servers that find routes, and the
loops, channels and the database of a node as a whole; checks them with TLC, and
proves with TLAPS the accounting, the token protocol, the relaying of requests,
the order of updates at the index servers and what survives a crash.

Paths below are relative to `src/components/`.

## 1. The system

| Component | State | Operations | Talks to |
|---|---|---|---|
| Mutual credit (`funder/src/mutual_credit`) | balance, the two limits, frozen credits, request status, pending transactions | queue and process: enable, disable, set limit, request, response, cancel, collect | called by the token channel and the sender |
| Token channel (`funder/src/token_channel.rs`, `friend.rs`) | direction (who has the token), last move token, the ledger; or reset terms when inconsistent | receive a move token (duplicate, repeat, new, error), send one, reset | friend handlers, sender |
| Friend handlers (`funder/src/handler/handle_friend.rs`) | the friends' queues of requests and backwards operations | move token request, inconsistency error | token channel, canceler, sender |
| Sender (`funder/src/handler/sender.rs`) | none (commands collected by a handler) | builds and transmits batches, asks for the token, retransmits, applies a local reset | runs at the end of every handler |
| Canceler (`funder/src/handler/canceler.rs`) | none | cancels queued requests and pending transactions of a friend | other friends' queues |
| Liveness (`funder/src/liveness.rs`) | set of online friends, lost on restart | Online, Offline | from the Channeler |
| Control (`funder/src/handler/handle_control.rs`) | friends, relays, limits, payments, invoices | the user's commands | applications, through the app server |
| Funder loop (`funder/src/funder.rs`) | the persisted state | one event at a time: handle, persist, send | database, Channeler, app server |
| Channeler (`channeler/src/channeler.rs`) | for every enabled friend whether it is connected | update and remove a friend, connection made, closed, send with overwriting | funder, pools |
| Connect pool (`channeler/src/connect_pool.rs`) | a friend's relays, the attempt under way | connect, configure, tick, attempt done | Channeler, relays |
| Listen pool (`channeler/src/listen_pool.rs`, `listen_pool_state.rs`) | the relays listened on, whom each lets in, ticks until a relay is tried again | set local relays, update and remove a friend, a listener closed, tick | Channeler, client listeners |
| Relay (`relay/src/server`, `relay/src/client`) | listeners, half tunnels with their time, access control of a listener | listen, connect, accept, reject, tick, access control operations | listen pool, connect pool |
| Secure channel (`secure_channel/src`) | keys and nonces of both directions, the key being negotiated, the key before | exchange, encrypt, decrypt, rekey on a tick and on a message | below every connection |
| Keepalive (`keepalive/src/keepalive.rs`) | ticks until a keepalive is sent, ticks until the remote side is given up | message from user, from remote, tick | above the secure channel |
| Index server (`index_server/src`) | neighbours, hash clock, ratchets, capacity graph, sessions of clients | updates of clients and neighbours, ticks, connections, routes | other index servers, index clients |
| Index client (`index_client/src`) | list of servers, connection status, open requests, the friends in turn | mutations, routes, servers added and removed, connection events, ticks | app server, database, an index server |
| App server (`app_server/src/server.rs`) | connected applications, the node's report, who asked for what | application connects, asks, leaves; messages of funder and index client | funder, index client |
| Reports (`funder/src/report.rs`, `proto/src/report`) | a copy of what the applications may see | mutations, conversion to capacities | from the funder to app server and index client |
| Database (`database/src`) | a file | apply mutations atomically | funder, index client |
| Node (`node/src/node.rs`) | the channels between the loops | start all loops from the file, end with any of them | all of them |
| Timer, identity, crypto, proto, net, version, stctrl, bin | plumbing | | |

What is hard:

- **Agreement without a leader.** The two ledgers are only ever compared through
  the three numbers a move token states; limits, request status and pending
  transactions are not in it and must agree all the same.
- **Unreliable delivery.** A connection may break with messages in flight, and
  the Channeler's overwrite channel replaces a waiting message by a newer one.
  Tokens are repeated on reconnection.
- **Restarts.** State is persisted before messages leave; liveness and
  everything received and unhandled is lost.
- **Inconsistency.** When a user removes a friend and adds it again the two sides
  disagree. They exchange reset terms; errors, terms and resets cross on the way.
- **Numbers.** Balances are `i128`, amounts `u128`, limits up to 2^127-1; several
  updates `unwrap()` checked arithmetic.
- **Several friends, one payment.** A relay promises on its right what was
  promised to it on its left, in different messages to different friends; any of
  them may go offline, close its requests or be removed in between.
- **Connections of the past.** A friend is disabled, enabled and updated while
  connections to it are being made and end; what their tasks report arrives later,
  and does not always say which connection it is about.
- **Tasks that outlive their use.** A listener that the pool no longer wants ends
  later and reports its end by its address, which a new listener may have by then.
- **Keys changed from both ends.** Either end of an encrypted connection changes
  the keys, with messages of both directions under way; both may start at once.
- **Updates that travel by several ways.** Index servers flood updates to all
  neighbours over queues that overflow. A copy may arrive late, after newer ones,
  after the record of the node has expired, or twice.
- **Two writers of one state.** The full state of a new session with an index
  server is sent beside the changes that happen meanwhile.
- **A crash between two steps.** State is changed in memory, written, and told to
  friends and applications, in three steps; the node may end between any of them.
- **Everyone waits.** The token lies with a side that has nothing to say; the
  other one must ask for it. Loops that wait for room in each other's channels.

`PROJECT.json` lists each of these as a hazard at its line, with the properties
that cover it or the reason why none does.

## 2. Modules

    MutualCredit   the ledger as a value, and what operations do to it
      |
      +-- CreditLine          two ledgers, operations delivered at once
      |     +-- CreditLineProofs   theorems, checked by TLAPS; so are all ...Proofs
      |     +-- MCCreditLine
      |
      +-- TokenChannel        two friends, tokens, losses, restarts, resets
            |  INSTANCE CreditLine: what the channel implements
            +-- TokenChannelProofs
            +-- MCTokenChannel

    RequestRelay   a chain of nodes, over channels that deliver
      +-- RequestRelayProofs
      +-- MCRequestRelay

    Payments       the payments of a buyer, over routes that answer
      +-- PaymentsProofs
      +-- MCPayments

    ConnectPool    the pool of a friend's relays as a value
      +-- Channeler           the Channeler, its tasks and pools, and the funder
            +-- MCChanneler

    SecureChannel  both ends of an encrypted connection
      +-- Transport           with the keepalive loops and the timers
            |  INSTANCE Fifo: what the users of a connection see
            +-- TransportProofs
            +-- MCTransport

    ListenPool     the listen pool and its listeners
      +-- RelayNet            with the relay servers
            +-- MCRelayNet

    CapacityGraph  the graph of an index server as a value, and the search
      +-- GraphService        the task that owns a graph
      |     +-- MCGraph
      +-- IndexServers        servers that flood updates; EXTENDS HashClock too,
      |     |                 the clock of hashes and the ratchets as values
      |     +-- IndexServersProofs
      |     +-- MCIndexServers
      +-- IndexClient         the client and its server; EXTENDS SeqMap too,
            |                 the friends in turn as a value
            +-- MCIndexClient

    Report         what is reported of friends, as values
      +-- AppServer           the application server
            +-- Node          funder loop, index client loop, database, crashes
                  +-- NodeProofs
                  +-- MCNode

`MutualCreditProofs` holds the lemmas about a ledger that two proofs share
(section 4). The `MC` modules only give constants their values for TLC.

### MutualCredit

`mutual_credit/types.rs`, `outgoing.rs` and `incoming.rs`. A ledger is a record;
`Queue(op, mc)` and `Process(op, mc)` are the new ledgers, `QueueOk` and
`ProcessOk` say that the code returns no error. The checks appear in the code's
order of conditions, and each `checked_add`/`checked_sub` is a membership in
`U128` or `I128`. These are scaled: `MaxDebt` stands for `MAX_FUNDER_DEBT`
(2^127-1), `I128` is `-MaxDebt-1 .. MaxDebt`, `U128` is `0 .. 2*MaxDebt+1`, so
that a small instance meets every overflow. `MutualCredit` is written with
functions and no recursive operator, so that it can be proved about.

What is abstracted: a route, a signature and the comparison with an invoice's
total depend on the operation only and are the flag `valid`; a plain lock is
named by the hash lock it opens.

`Sendable` is what the sender puts into a batch: what the ledger accepts, limits
or request status only when they change, and a request whose identifier is pending
already (`Repeats`), which `queue_operation_or_cancel` sends without changing the
ledger (`Push`) and the friend rejects.

### CreditLine

What two friends promise each other: a batch of operations queued by one takes
effect on both sides as if at once, if the other accepts all of it (`Transfer`), and a reset replaces both ledgers by fresh
ones with the balance one side had for a reset (`Reset`). It is the abstract
specification of the token channel and the place where the accounting is checked
and proved.

### TokenChannel

Two funders with one friendship. The state of a side (`friend[p]`) is the code's
`FriendState`: channel status and direction, ledger, last move token, both reset
terms, the relays sent, and `wants`, the number of things queued for the friend
(what `estimate_should_send` looks at); the history field `aside` is true while all
of these were queued without asking for the token. One action is one event of the funder
loop, with everything the handler does up to the messages it sends at the end.
These are the sender's, in the parts it has in `sender.rs`: `SendFriend` looks at
the channel and either answers with reset terms, transmits the last token again
or asks for the token (`TransmitOutgoing`), or fills a batch (`SendIncoming`) and
signs it (`NextMoveToken`, `SendMoveToken`), with relays when they changed
(`SentRelays`); `CreateFriendMessages` combines them. The actions:

| Action | Code |
|---|---|
| `HandleOnline`, `HandleOffline` | `handle_liveness_message` |
| `HandleDuplicate` | `TcIncoming::handle_incoming`, the same token again |
| `HandleRepeated` | `TcOutgoing::handle_incoming`, `RetransmitOutgoing` |
| `HandleToken` | `handle_incoming_token_match` and `handle_move_token_success` |
| `HandleTokenError` | `handle_move_token_error` |
| `HandleReset`, `HandleNoReset` | `try_reset_channel` |
| `HandleInconsistency` | `handle_inconsistency_error` |
| `HandleStranger` | a message of somebody who is not a friend |
| `Work` | any command or event that leaves something to send |
| `PutAside` | `init_cancel_pending_move_token`: the first iteration of the sender, for another friend, queues a cancel for one whose token is away |
| `ChangeRelays` | `control_add_relay`, `control_remove_relay` |
| `ResetFriendChannel` | `control_reset_friend_channel`, `apply_local_reset` |
| `RemoveFriend`, `AddFriend` | the control commands; adding includes enabling |
| `Restart` | the process ends and starts from its database (`handle_init`) |
| `Connect`, `Disconnect` | the Channeler |

Abstractions. A signature is a fresh number, so that verification of an honest
peer's token succeeds and two tokens never have the same signature. A batch is
any sequence of operations that the ledger accepts one after the other; where
they come from (other friends, the user) is the subject of `RequestRelay` and
`Payments`. Lists of
relays are version numbers. Counters (`u64`, `u128`) do not wrap. An inbox is
the funder's event queue. A message is put there at once when the link is up, and
handled whenever; a message that travels longer is one that is handled later. A
broken connection loses any number of the last messages and then shows as
Offline, at each side in its own time, so that a side may see messages, Offline
and Online of two connections in a row.

`Init` chooses one of the `Budgets`, which bound what users and network do. The
refinement maps the two ledgers to those of `CreditLine`, each after the token
that is on its way. Once a friend was removed, or a request was sent whose identifier is
pending (the peer rejects it, and two honest sides are inconsistent), nothing more is
claimed: `Together` is the time before, and the history variable `parted` holds the
ledgers of that moment for the mapping.

### RequestRelay

A chain of nodes, the buyer first and the seller last. `link[i]` is what both
ends of a friendship keep: the queues of requests (to the right) and of backwards
operations (to the left), the transactions pending on either side, whether
requests are open, liveness, and the token with its batch. That an operation
arrives once in a token that was given away is what `TokenChannel` shows; so a
link has one token. Amounts are left out: whether a request has enough trust or
enough fees, and whether its amounts can be added up at all, is a free choice.

| Action | Code |
|---|---|
| `ReceiveRequests` | `handle_request_send_funds`, `forward_request` |
| `ReceiveBack` | `handle_response_send_funds`, `handle_cancel_send_funds`, `handle_collect_send_funds`, and the effect of a friend that opens or closes its requests |
| `PassToken` | a token asked for (`AsksForToken`) and given by a side with nothing to send |
| `LeftOffline` ... `RightOnline`, `Restart` | `handle_liveness_message`, `handle_init` |
| `CreateTransaction`, `SetRequestsStatus`, `AddInvoice`, `CancelInvoice`, `CommitInvoice` | the control commands |
| `LeftRemoves`, `RightRemoves`, `LeftInconsistent`, `RightInconsistent`, `Reset` | `control_remove_friend` and what follows it |

Each of them ends with `CreateFriendMessages`, the sender. It tries the requests that
wait until `MaxBatch` of them fit (`Tried`), and any request that it tries may have
amounts that `queue_request` refuses (`"amounts"`: nobody has looked at them before).
Cancels that it brings about on the way are queued for the left friend; when that
friend's token is away nobody asks for it, and `aside` says that nothing else is
queued there. A friend that comes online is sent a token even if it is empty. A
handler that panics leaves the state as it is and adds to `panicked`: its mutations are
not persisted, and the behaviour ends there, for the process does. Operations go one
way on a link: the buyer never relays. A transaction is created once, so that the
repeated request of `MutualCredit` is not met here.

### Payments

One buyer with several payments, each of several transactions through several
friends. `status`, `num` and `life` are the `Payment`s, `payment` and `responses`
the `open_transactions`; `queued`, `requested` and `responded` say where the
request of a transaction is. An answer comes in a move token, and with the token
the node sends what waits for that friend, in the same action (`SendQueued`).
`life[p]` counts how often a payment id was used and stands for the random
`ack_uid`, which is drawn once in the life of a payment; the user may acknowledge
with any `ack_uid` it was ever sent. A move token carries one answer.

### ConnectPool and Channeler

A node and the connections to its friends. It waits for friends with a larger
public key to connect (`larger`; `in_friends` in the code) and connects to the
others (`out_friends`), each through a pool of relays. `ConnectPool` is the pool as
a value: the queue of addresses, the attempt under way, the backoff. `attempts`
counts the tasks that will report, those of canceled attempts too. `Channeler` has
the tasks around it: the funder as far as it configures the Channeler and hears
from it, the Channeler's loop, a receiving task for every connection, the loop of
every pool.

| Action | Code |
|---|---|
| `EnableFriend`, `DisableFriend` | `control_set_friend_status` (neither looks at the old status) |
| `UpdateFriend` | `control_set_friend_relays`, and the sender, whenever it tells the Channeler of new relays |
| `HandleReport`, `HandleMessage`, `HandleConfirmation` | `handle_liveness_message`, `handle_friend_message` |
| `HandleUpdateListen`, `HandleUpdateNew`, `HandleUpdateKnown`, `HandleRemove` | `handle_from_funder`, `try_create_friend` |
| `HandleConnection` | `handle_connection` |
| `HandleIncoming`, `HandleReceiverClosed` | `handle_friend_event` |
| `Offer`, `Receive`, `EndReceive` | the tasks of `connect_out_friend` and `handle_connection` |
| `TakeRequest`, `TakeConfig`, `Tick`, `AttemptFails`, `AttemptSucceeds`, `AttemptUnexpected`, `ClosePool` | `connect_pool_loop` |
| `Dial`, `Break` | friends that connect, and the network |

The event queue of the Channeler mixes what its senders send in any way and keeps
the order of each. The queue to the funder is bounded (`ChannelLen`) and the loop
waits for it; the one from the funder is not. While the loop hands a configuration
to a pool (`config`) it does nothing else. Outgoing messages and their overwriting
belong to `TokenChannel`. A friend that is to connect is let in here; whether it is,
is the subject of `RelayNet`, which is not composed with `Channeler`.

### SecureChannel and Transport

Both ends of a connection. `SecureChannel` has the exchange of nonces and keys
that opens it and the loop of each end; a symmetric key is what the two private
keys and the salt determine, and decryption succeeds exactly under the right key
and nonce (`NonceMod` stands for 2^96). `Transport` puts the keepalive loop of each
end above it and the timer beside it.

| Action | Code |
|---|---|
| `Exchange` | `ScStateInitial::handle_exchange_rand_nonce`, `ScStateHalf::handle_exchange_dh` |
| `Receive` | the reader's branch of `secure_channel_loop`: a message, a change of keys, or garbage |
| `RekeyTick` | its timer branch, `create_rekey` |
| `MessageFromUser`, `MessageFromRemote`, `KaTick`, `KaCloses` | `inner_keepalive_loop` |
| `ChannelCloses` | the end of the other end, of the user or of the loop |
| `Tick` | `timer_loop`: a tick for every client, which takes it in its own time |
| `Crash` | a machine that disappears |

A TCP connection neither loses nor repeats nor reorders. `Fifo` is what the users
see: what was sent arrives in order and once, until the connection ends.

### ListenPool and RelayNet

The pool of relays that a node listens on, the client listeners it spawns, and
the relay servers. A listener is a task: it dials, listens, and reports its end
(`RelayClosed`) with nothing but its address.

| Action | Code |
|---|---|
| `Config` | `SetLocalAddresses`, `UpdateFriend`, `RemoveFriend` of `listen_pool_state.rs` with the operations sent to the listeners |
| `Report`, `Tick` | `handle_relay_closed`, the timer of `listen_pool_loop` |
| `Dialed`, `DialFails`, `ListenerAccessControlOp`, `ListenerServerMessage`, `ListenerEnds` | `inner_client_listener` |
| `ServerListen`, `ServerConnect`, `ServerAccept`, `ServerReject`, `ServerListenerClosed`, `ServerTick` | `relay_server_loop` |
| `AcceptFails` | `accept_connection` |
| `Breaks` | the network |

An accepted tunnel is a plain connection and leaves the model.

### CapacityGraph and GraphService

`CapacityGraph` is `simple_capacity_graph.rs` and `bfs.rs` as operators: what a
node says of its friends, ageing, and the search. `GraphService` is the task that
owns a graph. A rate is one number.

### HashClock and IndexServers

Index servers that flood the updates of nodes. The hash of a tick is the pair of
server and number; `parts` says of which neighbours' hashes it is made, so a time
proof (the expansion chain) is a list of hashes. The history variable `log` has the updates
each server has applied.

| Action | Code |
|---|---|
| `ClientMutationsUpdate`, `FromServer` | `handle_forward_mutations_update`, `handle_from_server`, the end of a connection |
| `TimerTick` | `handle_timer_tick` |
| `ServerConnection`, `ClientConnection`, `ClientClosed` | the events of `server_loop` |
| `ClientSends` | `single_client.rs`, signing with a time hash of its server |
| `Break`, `ClientLeaves` | the network |

### SeqMap and IndexClient

The main loop of the index client with the tasks beside it: the connection task,
`send_full_state`, the session, the requests for routes.

| Action | Code |
|---|---|
| `Connected`, `Ends`, `Closed` | the task of `try_connect_to_server` |
| `SessionTakes`, `ServerResponds`, `SessionEnds` | `single_client_loop` |
| `FullReset`, `FullNext`, `FullSend` | `send_full_state` |
| `TimerTick`, `HandleEvent` | `handle_timer_tick`, the events of `index_client_loop` |
| `ApplyMutations`, `SendMutations`, `RequestRoutes`, `AddIndexServer`, `RemoveIndexServer` | `handle_from_app_server` |
| `ServerForgets` | the index server's ratchet ends (external) |

A handler of the main loop is one step, but for the one that applies mutations: it
changes the friends (`ApplyMutations`) and asks them for the next update afterwards
(`SendMutations`), and `send_full_state` may ask in between. The loop waits where its
last message to the session was not taken yet. What the session has taken is at the server, and
one session is over before the next begins. The index servers are one graph.

### Report, AppServer and Node

The loops of one node and the bounded channels between them. What a handler sends
leaves message by message, each when its channel has room, and the loop takes no
other event before. A friend in the funder's state is its status and the capacity
of its channel. A handler gives a channel a free choice of capacities, one after the
other, and each is reported by a mutation of its own (`ChannelReports`), as
`McMutation` and `SetDirection` are. A state has a number, and a message to a friend shows the number of the state that
it follows from.

| Action | Code |
|---|---|
| `Control`, `Comm`, `FunderSends` | `inner_funder_loop` with `handle_control_message`, `handle_liveness_message`, `handle_friend_message` |
| `ClientTakes`, `ClientSends` | `index_client_loop`, as seen from the app server |
| `DatabaseWrites` | `database_loop`, `mutate_db` |
| `Crash` | any loop ends with an error, and the node starts again from the file |
| `IncomingConnection`, `FromApp` (in `Request`), `AppEnded`, `FromFunder`, `FromIndexClient`, `AppServerSends` | `app_server_loop` |
| `AppTakes`, `AppCloses` | the application's end (`node/src/connect`) |

## 3. What is checked

| Run | Properties | Distinct states |
|---|---|---|
| `credit_line` | `Mirrored`: the ledgers mirror each other. `QueuedIsAccepted`: the one honest operation that is rejected is a request whose identifier is pending. `PendingDebtIsSum`: frozen credits are the sum over the pending transactions. `ExposureInRange`: nothing overflows. `TrustRespected`: exposure grows only up to the limit. `TypeOK` | 91,836 |
| `token` | `OneToken`: one side has given the token away and the other holds it or will accept it, with equal ledgers afterwards. `ResetIsAccepted`: a reset that matches the terms is accepted. `PeerKnowsRelays`: the friend always knows one of the lists the node still listens on. `ImplementsCreditLine`: refinement. `WantsAreServed`, `Quiescence`: all that is queued is sent, unless it was put aside, and nobody answers for ever | 362,892 |
| `relay` | `RelaysAreCovered`, `RelaysAreRepaid`: a relay that pays is paid. `OnlyCommittedIsPaid`. `OnlyAmountsPanic`: while nobody is unfriended and requests are not closed, a node panics only on amounts that nobody has checked. `FrozenIsReleased`: frozen credits are released on every link, but for cancels that were put aside | 2,009,426 |
| `payments` | `CountsMatch`: `num_transactions` is right. `AnswersFindTransaction`. `ClosingIsTruthful`, `NothingIsForgotten`: what the user is told is true, and told before it is forgotten. `ClosedPaymentEnds` | 241,250 |
| `channeler` | `ViewsAgree`: what the funder thinks of a friend is what the Channeler knows, once reports have arrived. `EnabledComesOnline` | 440,550 |
| `transport` | `ImplementsFifo`: refinement. `ClosesForAReason`: no message fails to decrypt, and no living peer is taken for dead. `RekeyIsUnderWay`: while a change of keys is pending, a message that completes it is on the way | 1,147,726 |
| `net` | `PoolServes`: the pool keeps every relay that is local or was given for a friend, through any order of changes. `AccessAgrees`: with what is under way, a listener lets in whom the pool says. `ListensAgain`: the server of every relay in use comes to have the listener that the pool holds | 294,159 |
| `graph` | `RoutesAreShortest`: against a definition by reachability; a route is found when there is one, unless the rates of a shortest way overflow | 21,125 |
| `index_servers` | `AppliedInOrder`, `AppliedIsFresh`: what is applied is in order and recent, by whatever way it came. `GraphIsCurrent`: old state goes. `NoHalfOpen`: no server waits on a connection the other has left | 825,188 |
| `index_client` | `OpenRequestsAreCounted`: every request is in one place until it is answered. `ServerLearns`: the servers come to know the friends, in spite of the race of `send_full_state` | 266,628 |
| `node` | `ToldIsOnDisk`: what others were shown survives a crash. `AppsAgree`, `IndexIsTold`: with what is under way, applications and index client know the funder's state, but for capacities that one batch made wrong (`misled`) | 5,135,865 |
| `relay_closed` | `ClosingIsHandled`, **violated**: requests for a friend that closes its requests are not canceled, and the node panics | |

For each property of a passing run `PROJECT.json` names a mutant, a plausible
mistake in the code that makes the property fail (a definition marked `Slip`).

**Bounds.** They bound what users and network do; behaviours are not bounded
otherwise, and attempts may fail for ever.

- `credit_line` has two transactions and `MaxDebt = 2`, so that amounts go from 0
  to one over the largest debt and a second transaction meets credits frozen by
  the first. A batch has one operation (`MaxBatch = 1`); the theorems
  are for batches of any length, and `token` checks batches of two.
- `token` has batches of two operations, so that a batch may leave something over,
  and starts with one of four budgets. `Paying`: three pieces of work and a reset, from
  opening requests to a payment and its answer, or to a request sent twice. `Breaking`:
  two pieces of work over a link that breaks once, which suffices for a lost token, a
  lost answer or a repeat. `Moving`: a change of relays. `Parting`: one removal and two resets, so that both users may reset and
  old terms meet new ones.
- `relay` has three nodes, so that there is a relay with two neighbours, two
  transactions that may cross or share a batch of at most two, two changes of request
  status (closed and open again), one drop, one removal and one invoice.
- `payments` has two payments, two transactions, two friends and seven commands:
  enough to use a payment id again after it was acknowledged, and to acknowledge
  with the wrong `ack_uid`.
- `channeler` has one friend with either order of the keys (friends share nothing
  but the loop), two relays of which one can be reached and the other comes and
  goes, two updates, one disable and one break: three connections (old, new and
  refused) and two pools (old and new) at a time.
- `transport`: each end may change the keys once, so that both may at once; two
  messages, and nonces modulo 2; one end may disappear.
- `net`: two relays, one of them local at times, one friend that moves between
  them; three changes of configuration, one connection, one fault, and four
  listeners, of which two may be left over from earlier configurations.
- `graph`: five nodes in a ring with a chord, so that routes of two lengths
  compete. An edge is dropped at age 1 (16, and 3 for each edge, in the code). Rates
  are 0 or 1 and `MaxRate = 1`, so that the sum along two edges may overflow.
- `index_servers`: three servers that all know each other, so that an update
  arrives by two ways; one node with two sessions at different servers; queues of
  one message; one connection that breaks; `TicksToLive` 2, and three ticks of the
  server that checks. The run starts after the first ticks (`WarmSpec`), for
  before that no update can be signed.
- `index_client`: two friends, two servers, one change, one configuration, one
  fault and one request.
- `node`: one friend, two applications with one request each of any kind, one
  event from the Channeler, one crash, channels of one message; a handler changes a
  channel up to twice, so that it may change it back.

`CHECK_DEADLOCK FALSE`, in all runs but `credit_line`, `graph` and `index_client`:
nodes with nothing to say stop, and so does everything whose bounds are used up.
In `node` this also covers the deadlock described under the findings.

**Fairness.** `TokenChannel`: `WF_vars(Connect)`, the connector pool tries again
for ever (`channeler/src/connect_pool.rs`), and the funder loop of each side takes
every event it is given; this is written out as "infinitely often the inbox is
empty or an event is taken", which is the same and cheaper to check.
`RequestRelay`: likewise, weak fairness of all steps that go on together: tokens
arrive and are given when asked for, which is what `token` shows of the channel
below, friends come online again, and the seller settles each invoice, without which
credits stay frozen by design. `Payments`: friends come online, the token comes,
and every pending transaction is answered, which is `FrozenIsReleased` but for the
cancels that it excepts: there a payment may wait as long as the token is not asked for.
`Channeler`: every task goes on when it can; the loop takes commands and events in
turn, since `select_streams` alternates between its streams; a reachable relay
that is tried again and again gives a connection in the end (a strong fairness,
an assumption about the network). `RelayNet`: every task runs, attempts to connect
end, timers tick. `IndexClient`: the tasks and the session go on; the main loop
does not neglect its events (strong fairness, by `select_streams`); attempts to
connect succeed but for `MaxFaults` of them; the server answers. Nothing else is
assumed of users, and losses are bounded. The other modules claim no liveness.

**Assumptions on time.** `Transport`: what was under way at a tick is handled
before the next but one (`Timely`); ticks are seconds and messages are not.
`RelayNet`: the backoff is long enough for a listener that the pool has let go of
to finish (`OrphansAreDone`). Without it TLC finds a livelock: the late report of
each listener, which names the address only, ends the next listener there.

### Findings

The run `relay_closed` shows one disagreement of the code with its own words:
`token_channel.rs:458` sets `remote_requests_closed` when requests were opened, not
when they were closed. Requests queued for a friend that closes its requests stay
queued, and sending them reaches `unreachable!()` (`handler/sender.rs:168`).

What follows was met while modelling. The models contain it, and properties that
would meet it say what they leave out.

The funder:

- `handler/sender.rs:329`: when a user accepts the friend's reset terms and there
  is nothing else to send, `send_friend_iter1` builds the reset token and does not
  transmit it; the friend stays inconsistent until the connection breaks. The
  repository's test sets a limit first.
- `handler/sender.rs:483`: a node's own request that lacks trust is reported as a
  failure, but its transaction stays open; creating it again is never answered, and
  the payment can never be closed.
- `handler/sender.rs:161`: a request whose identifier is pending is logged, not queued,
  and sent all the same; the friend rejects the batch (`mutual_credit/incoming.rs:235`)
  and the channel becomes inconsistent between two honest sides. Nothing on the way
  (`handler/handle_friend.rs:121`) checks for it. (`QueuedIsAccepted` names it as the
  only such operation; it ends `Together`.)
- `mutual_credit/outgoing.rs:115` and `:134`: the amounts of a request are first checked
  when it is put into a batch. One that pays more than the total of its invoice, or
  whose credits overflow, reaches `unreachable!()` at `handler/sender.rs:168`
  (`OnlyAmountsPanic`).
- `handler/sender.rs:828`: a cancel that the first iteration of the sender queues for a
  friend whose token is away does not ask for the token. It waits until something else
  does, and the credits stay frozen on the links before it (`aside` in `TokenChannel` and
  `RequestRelay`; without that exception TLC finds `FrozenIsReleased` violated after 14
  states).
- `handler/handle_control.rs:936`: a commit that leaves out an incoming transaction
  of the invoice leaves it pending for ever. (The runs commit to all transactions,
  `AllOfThem`.)
- `handler/handle_control.rs:60`: the wanted limit is stored unchecked; a value over
  `MAX_FUNDER_DEBT` cannot be queued.
- `handler/handle_friend.rs:585`: new relays of a friend, from a move token, are
  stored and not told to the Channeler.
- `node/src/node.rs:211` passes `max_node_relays` and `max_operations_in_batch` to
  `funder_loop`, whose parameters (`funder/src/funder.rs:151`) are in the opposite
  order.

Around unfriending (it is why `OnlyAmountsPanic` is stated for the time before it):

- `handler/canceler.rs:127`: `control_remove_friend` on an inconsistent channel
  reaches `unreachable!()` (`RemoveFriend` in `TokenChannel`).
- `handler/utils.rs:30`: `find_request_origin` passes over inconsistent friends. A
  relay whose left friend was removed or is inconsistent takes the answer that
  comes from the right for one of its own and panics (`"not our transaction"`).
- `handler/handle_control.rs:903`: canceling an invoice after such a loss panics
  (`"invoice without origin"`).
- `handler/sender.rs:168`: `pending_backwards_ops` survive a reset and their
  transactions do not; sending them panics (`"backwards operation cannot be
  queued"`).

Connections:

- `channeler/src/connect_pool.rs:288`: a new list of relays is compared with the
  addresses that wait, which the one being tried is not among. A list that still
  names it adds it a second time; a later list without it then cancels the
  attempt, and the canceled task's report meets `unreachable!()` or is taken for
  that of the next attempt. The pool's task ends, and with the next update of that
  friend so does the Channeler (`ConnectorConfigError`).
- `channeler/src/channeler.rs:416`: `ReceiverClosed` names a friend and not a
  connection. When a friend is disabled and enabled again before the event of its
  old connection arrives, the event ends the new connection. The Channeler then
  asks the pool for a second connection while the first request is open, which ends
  the pool (`MultipleConnectRequests`), and the next update ends the Channeler.
  `FriendAlreadyOnline`, which "would mean a bug in the Channeler"
  (`handler/handle_liveness.rs:56`), can be reached as well. It is why one half of
  `ViewsAgree` and `EnabledComesOnline` are stated for the time before a friend is
  disabled (`NobodyDisabled`).
- `handler/sender.rs:572` and `handler/handle_friend.rs:640` update a friend that may
  have been disabled. The Channeler connects to it again, its Online is refused, and
  when it is enabled later no new Online comes.
- `channeler/src/listen_pool_state.rs:33`: `set_local_addresses` keeps relays that have
  friends though they are no longer needed; one that is listened on already and
  becomes local does not let in the other friends.
- `relay/src/server/server.rs`: the record of a listener's `tunnels` is never filled.

Index servers and client:

- `index_server/src/graph/simple_capacity_graph.rs:144`: `get_route_rate` sums what
  each node charges towards the *next* node, where
  `proto/src/index_server/messages.rs:56` and `funder/src/handler/handle_friend.rs:221`
  charge by the rate of the *previous* one.
- `index_server/src/graph/simple_capacity_graph.rs:147` and `:181`: when the rates along
  the way that the search finds overflow, no route is returned for that way, though
  another may exist (`RoutesAreShortest` says when).
- `index_server/src/verifier/simple_verifier.rs`: with two sessions of a node at
  different servers an update may be applied twice, or an older session's over the
  newer one's, against "If we got here, the message was new" and "This should protect
  against out of order messages". It is why `AppliedInOrder` excepts updates with
  another session between them.
- `index_client/src/seq_map.rs:50`: a friend that is updated while the full state is
  being sent moves to the end, and the countdown no longer covers all friends. The
  rotation repairs it later (`ServerLearns`).

The node:

- `node/src/node.rs:376`: the channels are bounded and both loops wait to send. The
  app server may wait for room in the funder's channel while the funder waits for
  room in the app server's; then neither goes on.
- `app_server/src/server.rs`: `close_payment_requests` is never filled, so that
  `ResponseClosePayment` never reaches an application; a request that is not permitted
  is dropped without an answer.
- `app_server/src/server.rs:250`: each mutation of a batch is converted against the
  report *before* the batch. When a handler changes a capacity and changes it back (a
  request that is canceled at once), only the first change is told to the index
  client; when a friend comes online with another capacity than before, the old one is
  told. The index client then has a capacity that is not the friend's until it is told
  of that friend again (left out of `IndexIsTold` by `misled`, which holds just these).
- A friend added while its former connection is still up is reported offline, which
  the comment in `funder/src/report.rs` calls pessimistic (left out of `AppsAgree` by
  `odd`).

## 4. What is proved

The proof modules and what they extend:

    MutualCreditProofs   one ledger, its mirror image, batches
      +-- CreditLineProofs
      +-- TokenChannelProofs
    RequestRelayProofs, PaymentsProofs, TransportProofs, IndexServersProofs and
    NodeProofs           each on its own

A proof module begins with the few lemmas about queues (`AppendQueue`, `TailQueue`,
...) and about induction that it needs; they are the same wherever they appear.

Every theorem is about the module's `Spec` without fairness, and holds for every
value of the constants that the assumptions admit: all bounds on users and
network (`Max...`, `Budgets`) are arbitrary natural numbers. The assumptions are
named in the modules that declare the constants and evaluated by TLC on the runs.

**Induction.** The provers cannot instantiate an induction theorem that takes a
predicate. So it is stated for a *set*: `Induction` says that a set of naturals that
has 0 and, with each k below n, also k+1, has all up to n;
`LeastNatural`, from which it follows, that a non-empty set of naturals has a least
element. With that the recursive functions that run along a batch or a queue
(`Trace` and `Only` in `RequestRelay`, the ledgers after each operation in
`MutualCredit`, the reports after each message in `Node`) are shown to exist and to
satisfy their equations, so that theorems hold for batches and queues of any length.

### CreditLine

`CreditLineProofs` proves of `CreditLine`, for every `MaxDebt` and `MaxBatch`, every set
of request identifiers and locks, every set of operations and of initial balances:

| Theorem | States |
|---|---|
| `TypeCorrect` | `[]TypeOK` |
| `LedgersMirror` | `[]Mirrored` |
| `NoRejection` | `[]QueuedIsAccepted`: of all that is sent, just the repeated requests are rejected |
| `ExposureFits` | `[]ExposureInRange` |
| `TrustIsKept` | `TrustRespected`, an action property |
| `PendingDebtCovers` | frozen credits are at least those of each pending transaction |
| `FrozenIsPending` | `[]PendingDebtIsSum` |

The assumptions are those of the modules: `MaxDebt` is a natural number, there
is a lock, operations are operations and initial balances at most `MaxDebt` in
size. `FrozenIsPending` also needs that there are finitely many request
identifiers; they are 16 bytes.

The argument. `Mirrored` alone is not inductive: to know that a cancel keeps the
amounts in range one must know that the credits it releases were frozen. The
invariant `Paired` says that the ledgers mirror each other and that the ledger of
each side is `Sound`: typed; both amounts of frozen credits are the sum over the
pending transactions (`IsFrozenSum`, stated by the existence of a weight for every
set of transactions, which the steps can update without induction); a transaction that is
not there freezes nothing (`NothingIsFree`); and balance and frozen credits together
stay within `MaxDebt` on either side. `QueueMirror` shows that processing an operation
on the mirror image of a ledger is the mirror image of queueing it, so that one
side is enough: `QueueSound` goes through the seven operations, `ResetPair`
through the reset, and `PairedInvariant` combines them. `TrustIsKept` follows
from `QueueExposure`: a request raises the friend's exposure only as far as the
guard allows, a cancel lowers it, a collect moves it from frozen to owed. The
lemmas about one ledger are in `MutualCreditProofs`, which also has them for
batches (`BatchMirror`). `SumIsTotal` ties the weights to `SumFunction`, the fold
that the property uses: the weights satisfy the fold's equation, so the fold
exists, and a smallest set on which the two differ shows that they do not.

### TokenChannel

`TokenChannelProofs` proves of `TokenChannel`, for batches of any size and any
number of losses, repetitions, overwritten messages, restarts, removals and resets:

| Theorem | States |
|---|---|
| `OneTokenAlways` | `[]OneToken` |
| `ResetsAreAccepted` | `[]ResetIsAccepted` |
| `RelaysAreKnown` | `[]PeerKnowsRelays` |
| `BatchesAreAtomic` | a batch takes effect as a whole, on both ledgers at once, at most once, and only if its sender could queue every operation of it and repeated no pending request |
| `ChannelImplementsLine` | `ImplementsCreditLine`, for any `MaxBatch` |

The invariant `IInv` has three parts. `Types`. `Resets`: every token is newer than
the one before it, terms of a reset have values of their own, two terms with one
value are the same, and who has given away a token that follows some terms has
reset to just those terms. And, while the friends are `Together` (nobody was removed
and no pending request repeated), `Given`: one side has
given the token away, its ledger is `Sound`, and either the peer has it (`Held`:
the same token, the mirrored ledger, and nothing under way but copies of this
token and of the one before) or it is under way (`UnderWay`: the peer will accept it and
then has the mirrored ledger; whatever else is under way to the peer is older and
comes first). The last clause, `InOrder`, is what makes repeats harmless, and the
one that is hard to see in the code: a stale copy *behind* the new token would look
like an inconsistency. The relays are in `Held` and `UnderWay` too, since the relays
of the move token before are known to have arrived only by the token itself.

A handler changes its friend and then sends, in one step. The invariant is
therefore stated for values, and each proof goes through the value in between.

The refinement maps the two ledgers to those of the line. A step of the channel changes
the mapped ledgers not at all or by one batch (`BatchesAreAtomic`), and by `BatchMirror`
the peer accepts a batch that repeats nothing; so the step that gives the token away is a
`Transfer` of that batch, and a reset is a `Reset`. A batch that repeats a pending request
is where the mapping stops (`parted`). What `CreditLineProofs` shows of the line holds of
the channel as mapped.

### RequestRelay

`RequestRelayProofs` proves of `RequestRelay`, for a chain of any length, any finite
set of transactions and any number of disconnections, restarts, changes of request
status and removals:

| Theorem | States |
|---|---|
| `OnlyAmountsPanicking` | `[]OnlyAmountsPanic` |
| `RelaysStayCovered` | `[]RelaysAreCovered` |
| `RelaysGetRepaid` | `[]RelaysAreRepaid` |
| `OnlyCommittedGetsPaid` | `[]OnlyCommittedIsPaid` |

None of the four is inductive. `RelaysAreCovered` compares two links, and says
nothing of the operations queued at the node between them and travelling to it.
The invariant `IInv` says:

- of all states, `Sane`: types, and every collect that is queued, under way or done
  is of a committed transaction;
- while nobody is unfriended (`Befriended`), of every link (`LinkOK`): both ends
  agree once the batch under way has arrived (`Synced`), the queued answers can be
  sent one after the other (`CanReturn`), queued requests are different from each other and from
  what is pending (`Waiting`);
- of every node, `Covers`: what it has asked for on its right, or queued there, is
  at the same stage on its left, *counting the answers it has queued for its left*.
  At the buyer the left is its `open_transactions`, at the seller the right is its
  invoice (`Answered`);
- `Repaid`: `RelaysAreRepaid`;
- while no friend has closed its requests either: all are open, and nothing has
  panicked but on amounts.

An answer that arrives from the right is pending there; by `Covers` it is at the
same stage on the left, so the search for its origin finds it, and putting it in
the queue for the left is possible (`CanReturn`). What waits in a queue can be sent
when the token comes, since `Synced` gives both ends the same pending transactions.

The proof follows the code. Every handler changes the links of its node only
(`Beside`), prepares the node (`Able`: both links are in order and the node can
still answer) and passes operations back one at a time (`Backed`); `GoodBacked`
combines them, by induction along the batch. `SendRequestsFollows` and
`SendBackFollows` are the sender, which ends every handler. `RequestRelay` removes
queued requests with `Only(s, T)` rather than with `SelectSeq`, whose operator
parameter the provers cannot instantiate; it is the same sequence.

`OnlyAmountsPanicking` excludes what the findings describe and the code does not handle:
removing a friend, closing requests that are in use, and amounts that nobody checks.

### Payments

`PaymentsProofs` proves of `Payments`, for every set of payment ids and friends,
every finite set of request ids and without any bound:

| Theorem | States |
|---|---|
| `PaymentsTyped` | `[]TypeOK` |
| `CountsAreRight` | `[]CountsMatch` |
| `AnswersAreFound` | `[]AnswersFindTransaction` |
| `ReportsAreTrue` | `[]ClosingIsTruthful` |
| `OutcomesAreSent` | `NothingIsForgotten`, an action property |

The invariant `IInv` adds `OutcomesKnown`: what was sent to the user and what was
collected concern lives up to the current one; in its current life a payment that
was reported canceled is canceled or gone, one that is successful has collected,
and one that was acknowledged was reported. The counts need
`AnswersFindTransaction`, for a collect must find a transaction of the payment it
counts for, and that needs each transaction to be in one place. `TypeOK` of
`Payments` is part of `IInv` and proved; no run repeats it.
`RemoveKeepsCounts` is the lemma about `remove_transaction` for a set of
transactions, by the cardinality of a difference; `OutcomesStay` covers all steps
that collect and report nothing.

### Transport

`TransportProofs` proves of `Transport`, for any number of messages, keepalives,
changes of the keys and crashes, whatever `NonceMod` and `TicksToRekey`:

| Theorem | States |
|---|---|
| `FifoIsImplemented` | `ImplementsFifo`, the refinement |
| `RekeyStaysUnderWay` | `[]RekeyIsUnderWay` |
| `EveryCloseHasAReason` | `[]ClosesForAReason`, if `KeepaliveTicks >= 5` |

*Streams.* The two directions are taken apart. A *place* in what one end sends is the
round of keys in use, the next nonce, and how many user messages and own private keys
came before it: the k-th private keys of both ends make the k-th round. Each message
leads from a place to the next (`Carries`), and having sent its `Rekey` a sender may
turn to the next round (`Turns`). `Writer` is the place of a sender and `Reader` that
of a receiver, with its old decryptor as long as there is one. The invariant `SInv`
(theorem `StreamInvariant`) says that what is on each wire leads from the
reader's place to the writer's (`Stream`); that the keys of an open end are those of
its round, and its peer's of the round before while it has an old decryptor
(`Keyed`); and that the messages of the exchange come first (`Met`). The lemma
`Decrypt` is the centre: the next message opens under one of the receiver's two
decryptors, and `try_decrypt` brings it to just the place that the message leads to.
The nonces of two rounds may coincide, so this rests on the keys being different.
The three theorems follow: the user messages between two places are consecutive
numbers; a pending end is one key ahead of its round, so its `Rekey` is in front of
the peer, or the peer has turned and its own is in front of this end; and no
message is garbled.

*Keepalives.* `TInv` says of an end whose peer lives that a message which
shows it comes before the count ends (`Hope`): one is on the wire, and was there at
the last tick or there is another tick to spare; or the peer's own count ends two
ticks earlier; or the peer is still to finish the exchange or start its loop, with
time for that and half the count. `send_ticks` is at most half of the count, two ticks go by
on the way (`Timely`) and one before the loop starts, hence five ticks; the
code has 32 (`KEEPALIVE_TICKS`, `proto/src/consts.rs`) and the run five. With
four, TLC finds a living peer that is given up. A `Rekey` does not count as a sign of life, for the
keepalive loop does not see it.

### IndexServers

`IndexServersProofs` proves of `IndexServers`, for any number of servers and
clients, any `TicksToLive`, and any loss of messages and connections:

| Theorem | States |
|---|---|
| `UpdatesAreInOrder` | `[]AppliedInOrder` |
| `UpdatesAreFresh` | `[]AppliedIsFresh` |
| `GraphsAreCurrent` | `[]GraphIsCurrent` |
| `ServersReconnect` | `[]NoHalfOpen` |

*Freshness.* The hash that a client has signed was made before the signature, and
a hash is made of hashes made before it (`Hashes`, `UpdateOk`). So all hashes of the
chain, down to the tick of the server that checks it, are older than the signature
(`ChainOk`); a clock has only its last `TicksToLive` ticks.

*Order.* A ratchet ends after `TicksToLive` ticks, and with it the knowledge which
counters were used. `Seen` says why no old copy comes through afterwards: what
was under way when an update was applied had been signed by then, and is no longer
fresh when the ratchet has ended (`KeptOut`); what is signed later has a greater
counter. `GraphOk` ties the graph to the ratchets.

The theorems are about `Spec`, from the first tick on; the run starts warm
(`WarmSpec`).

### Node

`NodeProofs` proves of `Node`, for any number of friends, applications, index
servers, requests and crashes and channels of any length:

| Theorem | States |
|---|---|
| `ToldStaysOnDisk` | `[]ToldIsOnDisk` |
| `AppsStayAgreed` | `[]AppsAgree` |
| `IndexStaysTold` | `[]IndexIsTold` |

*What was told is on disk.* The invariant `IInv` follows two chains from a write to
the one who is told (`FunderOnDisk`, `ClientOnDisk`): the state in memory, the write
under way, the messages that wait for it, the channels, and the reports; what is at
one place of the chain is in the file, or is being written in front of it.

*What is known of the node.* `KInv` (theorem `ReportInvariant`) adds three links of
a second chain, each an equation about *all* the messages under way:

- `FunderReports`: the report of the application server, changed by the funder's
  messages in the channel and waiting for the disk, one after the other, shows the
  funder's friends and who is online (`Agree`). `Valid` says that each of these
  messages fits the report it will meet, which is what makes converting a mutation
  against the report of that moment right;
- `AppsKnow`: what an application shows, changed by the messages in its channel and
  those the server has yet to send it, is the report of the server;
- `ClientKnows`: the same of the index client and the capacities in the report.

A step of the funder appends to the first chain what it changes in the state
(`create_report_mutations`); taking a message moves it from the first chain into the
report and, as the broadcast and the converted mutations, to the ends of the others.
`AppsAgree` and `IndexIsTold` follow from `KInv`. A batch of mutations is converted
mutation by mutation against the report *before* it, as in `handle_from_funder`.
`ClientKnows` is therefore stated with `misled`, the friends of whom the last that was
told is wrong (`Tells`): `ChannelTells` goes along the capacities that one handler gives
a channel, `OnlineTells` along those of a friend that comes online, and `BatchTells`
combines them with the other batches. They show that nobody else is ever told wrong,
and that the next mutation of a friend puts it right. The folds along channels and batches (`For`, `AfterEach`,
`KnownAfter`, `MutateAll`, `IndexMutations`, `ApplyIndexMutations`) are recursive
functions over the positions of the sequence; a lemma each (`ForSteps`, ...) shows that the
function exists and satisfies its equations, and others how it behaves under
`Append`, `Tail` and `\o`.

### Only model-checked

| Property | Why |
|---|---|
| all liveness: `WantsAreServed`, `Quiescence`, `FrozenIsReleased`, `ClosedPaymentEnds`, `EnabledComesOnline`, `ListensAgain`, `ServerLearns` | out of the prover's reach |
| `RoutesAreShortest` | a search by levels against reachability; not attempted |
| `PoolServes`, `AccessAgrees` (`RelayNet`), `ViewsAgree` (`Channeler`), `OpenRequestsAreCounted` (`IndexClient`) | not proved yet |
| `ClosingIsHandled` | violated, see the findings |

## 5. Plan

All components that keep protocol state are modelled. What is left are proofs about
`RelayNet`, `Channeler` and `IndexClient`.

## 6. Not modelled

- Identity, cryptography, serialization, sockets, the version prefix, the command
  line, start-up and logging: they carry none of the protocol's state. Signatures and
  keys are fresh values in the models, messages are records.
- The two ends of an accepted tunnel of a relay: copying from one to the other.
- The composition of `Channeler` with `RelayNet` and of `Node` with the funder's
  modules. Each module takes from the one below what a property of that one says:
  `RequestRelay` one token per link from `OneToken`, `Payments` answers from
  `FrozenIsReleased`, `Channeler` connections from `net`, and all of them ordered
  messages from `transport`.
