# A TLA+ model of stars_gaming

stars_gaming is a set of C++ game servers (login, lobby, game, robots) on top of a
small networking library built on boost::asio: event loops, TCP sessions with
length-prefixed protobuf frames, synchronous and asynchronous requests by sequence
id, a client that reconnects, and a client of a message queue. This directory holds
TLA+ modules for the library's concurrent core, for the client of the message queue,
for the lobby's bookkeeping of players and for the rules of the card game; TLC configurations that check them on
small instances; and proofs that TLAPS checks for every size.

Paths below are relative to `src/server/`; `libserver`, `libmessage` and `libtools`
are under `common/`, `lobbysvr`, `loginsvr`, `gamesvr` and `robotsvr` under `server/`.

## 1. The system

### Components, their state and how they interact

| component | state | operations | talks to |
|---|---|---|---|
| `IoLoop`, `IoLoopPool` (libtools) | a thread and its queue of handlers; `m_next_index` | `post` (on the spot in the loop's own thread, else queued), `run`, `get_next_loop` | everything below runs in some loop |
| `Session` (libserver) | `m_sequenceid`, a `SynRequest`, an `AsyncRequest` | `send` in three forms, `close` | posts to its own loop |
| `AsyncRequest` | `m_items`: id -> callback and deadline timer | `send_request`, `on_response_come`, `on_response_timeout` | posts the callback to the loop the caller named |
| `SynRequest` | one `m_promise`, one `m_send_sequenceid` | `wait_response` in the caller's thread, `response_come` in the loop's | the session's write |
| `TcpSession`, `SendQueue` | socket, receive and send buffer, queue of messages to write, time of the last message | read in three stages, chained writes, `do_close`, `check_alive` | the dealer (messages, opening, end), the session manager (end) |
| `Server`, `ServerSessionManager` | `m_session_all`, `m_current_session`, check timer | accept, `do_add_session`, `do_close_session`, `check_session_alive` | sessions in other loops |
| `Client` | four flags, `m_socket`, four timers, `m_session_ref` | `connect`, `close_client`, the timers' and the connect's handlers, `close_session` | its session, in the same loop |
| `MessageDealer`, `TaskManager` | registries of handlers | give a message to its handler's loop | sessions -> modules |
| lobby `PlayerManager` | `m_login_user`, `m_online_user`, `Player` objects | login by token, end of a session, user of a message | sessions (shut down), message queue |
| lobby `LobbyModule` | route table | `dispatch_app_msg` | message queue |
| login `LoginModule` | `m_session_time`; accounts in Redis and MongoDB | login or registration | stores, lobby |
| `MqClient`, `MqSession`, `MqHandler` | AMQP connection, channel, pending requests | connect, publish, consume | message queue |
| game `PlayerManager`, `GameRoom`, `RoomManager` | players, rooms | a variant of the lobby's manager; rooms are a skeleton | sessions |
| `Combination`, `CardDealer` | hands, groups | checks of groups and declarations, search for the best groups, dealing | - |
| `Robot` | a client that logs in | - | login, lobby |

### What is hard about it

* Handlers that are already in a loop's queue cannot be called back. Cancelling a timer
  that has expired, closing a socket whose read has completed, forgetting a request
  whose response is being dealt: the late handler still runs, in a state it was not
  started for.
* `IoLoop::post` is a queue for other threads and a plain call for its own. The same
  call is a step of its own or happens in the middle of the caller, depending on which
  loop a session was given.
* Sessions, their manager and the players live in different loops and hear of each
  other's ends late.
* Requests may be answered late, twice or never; one promise serves all threads that make
  synchronous requests.
* The connection to the message queue, its channel and the bindings asked for come up in any
  order, and the flags that say how far they are outlive a lost connection.
* The card rules walk sorted hands in which the ace has two places and wild cards none, and
  the search for the best groups stops early and in a fixed order.

`PROJECT.json` lists each such place with its line under `hazards`.

### What makes each component correct

* requests: no callback is forgotten, none hears anything after its timeout, each is called
  eventually; a synchronous call returns, with the answer to its own request;
* sessions: one read and one write at a time, messages in order and none lost, a bounded
  queue, an end that is reported exactly once;
* the manager: every open session is in the table, the limit holds, places are freed, silent
  peers are closed;
* the client: its flags tell the truth, it keeps trying, it notices a silent server;
* the lobby: the two maps agree, a message is forwarded for the right user, nobody stays
  logged in over a dead connection;
* the message queue's client: whatever was bound, before or after the channel opened or the
  broker restarted, is bound at the broker; a connection that works is not replaced;
* the rules: the walks accept exactly the groups they are named after, and the two checks of a
  declaration agree;
* the search: what the server lays for a player is that player's hand, stands up to the
  server's own check, and cannot be laid for less.

## 2. The modules

| module | models | state and actions |
|---|---|---|
| `RequestContract` | nothing: the abstract promise of an asynchronous request | `Issue`, `Answer`, `TimeOut`, `Retire` per request |
| `AsyncRequest` | `AsyncRequest.inl`, the asynchronous and numbering parts of `Session.inl` | the table and its timers (`m_items`, `m_timer`), the counter, the loop thread between load and increment of the counter (`current`), calls posted and run; one action per handler, and `sync_load`/`sync_increment` for threads that draw ids at the same time |
| `SendContract` | nothing: the abstract promise of a session about the messages it is given | `Accept`, `Deliver`, `End` |
| `SendQueue` | `SendQueue.cpp` | operators on a record of contents and capacity |
| `TcpSession` | `TcpSession.cpp`, `Session.inl` | one session and its loop in a record `s`; each C++ function is an operator from the session before a call to the session after it, so a handler composes its calls in the code's order, including those that `post` makes on the spot |
| `ServerSessionManager` | `Server.cpp`, `ServerSessionManager.cpp`, the life of many sessions | the sessions, table and loops in a record `w`; `RunTask(l)` runs the next task of loop `l`; `on_check_handle` starts a walk over the table, `check_session_alive(s)` is its visit of one entry, between which the other loops run |
| `Client` | `Client.cpp` | the client and its loop in a record `c`; `run` runs the next handler, `expire` a timer; a read error of a session that is already closed is a handler that does nothing (`Outlive`) |
| `SynRequest` | `Synrequest.inl` | a call (`do_send_syn_message`, `wait_response`) as nine steps of the calling thread, drawing the id and storing it apart, `response_come` as the comparison of ids and, later, `set_value` |
| `LobbyPlayers` | `lobbysvr/PlayerManager.cpp`, `PlayerTaskManager.cpp`, `Player.h` | the two maps, the players' fields, the task loop's inbox, shut-downs on their way |
| `MqClient` | `MqClient.cpp`, `MqSession.cpp`, `MqHandler.h` | client and session in a record `m`, the posted calls, an external broker with its queue, exchanges and bindings; the channel's commands are answered in order, one by one |
| `Rummy` | `gamesvr/Combination.cpp`, `CardDealer.cpp` | pure operators on cards and groups; the state is a declaration being laid, card by card |
| `RummySearch` | the rest of `Combination.cpp`: `search_all_group`, `default_declare`, `post_best_card` | extends `Rummy`; a hand draws a card, throws one away, is laid; the choices of jokers held from one second life to the next (`m_joker_cards`, `m_joker_combines`) are threaded through the search |
| `AsyncRequestProofs`, `SynRequestProofs`, `TcpSessionProofs`, `ServerSessionManagerProofs`, `ClientProofs`, `LobbyPlayersProofs`, `MqClientProofs`, `RummyProofs` | | the inductive invariant of the module they extend, lemmas, theorems and proofs |
| `MC...` | | what TLC is run on |

`map` in `PROJECT.json` gives the lines behind every definition. Definitions whose comment
starts with "Fault:" are not part of any specification: each is a plausible mistake in the
definition that follows it, kept to show which property notices it (`mutants` in
`PROJECT.json`).

How they fit together. `AsyncRequest` and `SynRequest` share the counter of a session; ids
drawn twice are the first module's subject, so the second takes ids as distinct.
`ServerSessionManager` reduces a session to what `TcpSession` shows of it: it is open
or not, has at most one read under way, and reports its end once. `LobbyPlayers` takes from
`TcpSession` that the end is dealt once and that at most one message is dealt after
it (`OpenedAndEndedOnce`). `Client` runs its session's calls on the spot, as a session in
the client's loop does. `RummySearch` uses the predicates and the check of a loser's declaration of
`Rummy`, and compares the search with `LeastCost`, a definition by sets of disjoint groups that
shares nothing with the search but those predicates. `LobbyPlayers` also stands for the game
server's player manager, a copy of the lobby's in which nobody ever enters a room.

Asio and the operating system are external: an operation completes at any time, with any
outcome the code distinguishes; a closed socket completes what is in progress with an
error; a completed operation stays queued. Advancing an iterator whose element was erased, and
using a null pointer, end the process or not as a nondeterministic choice (`crashed`).

## 3. The runs

| run | instance | states | shows |
|---|---|---|---|
| `async_request` | 2 requests, 1 synchronous thread, ids below 2 for it, 3 responses | 66 000 | `HandlerFindsItem` (the assertion in `on_response_timeout`), `NoRequestForgotten`, `TimeoutIsLast`, `EveryRequestCalledBack`, and that the table implements `RequestContract` with its fairness |
| `tcp_session` | 3 messages to write, 2 frames, queue of 1 growing once, 1 call of `close` or `check_alive`, both ways of starting | 600 000 | one write and one read at a time, that the session implements `SendContract` (accepted messages are delivered in order, at most one after the end), bound of the queue, one report of the end, announcement first in a shared loop, `close` ends in a report |
| `server_sessions` | 2 loops; 2 connections and a limit of 1 or 2, with a message each; 3 connections and a limit of 1 | 88 000 | table and sockets agree, limit, entries held by someone, life cycle; the walk over the table is broken only by a session in the manager's own loop; silent sessions are closed, places are freed |
| `client` | 3 calls of other threads | 467 000 | the flags are truthful and no null pointer is used unless two attempts overlapped; watched while connected; keeps trying; drops a silent server |
| `client_close` | 2 calls | (violation) | `close_client` while connected starts a new attempt |
| `sync_request` | 2 threads, 2 requests, up to 3 answers each | 160 000 | own answer, survival and nothing left behind but for two named races; calls return |
| `lobby_players` | 2 users, 2 sessions, 2 players, 2 messages each (and a late one), inbox of 2 | 236 000 | the maps agree, no ghosts but in two named cases, messages forwarded for the right user, the old session ends |
| `lobby_offline` | as above, 1 message | (violation) | a user's record goes with the connection |
| `rummy` | groups of up to 6 cards, 2 suits, 7 points, both jokers, 3 wild points; declarations of up to 3 groups of 3 cards, or of 2 with loose cards among them, 2 suits, 3 points, a wild one | 495 000 | straights, pure straights and three of a kind against their definition; the check of a winner and of a loser agree |
| `rummy_kind` | groups of up to 4 cards | (violation) | a wild card can hide two different points |
| `rummy_search` | 9 hands of 7, 10 and 13 cards, 5 cards to draw, 2 wild points | 264 | the hand laid is the hand held, passes `check_lose_declare` at its score, costs what `LeastCost` says (hands of up to 10 cards); the card thrown away leaves what was promised |
| `mq` | 2 exchanges, 2 keys, one of them configured; 2 calls of `connect` and of `bind_exchange`, 1 of `close_client` and of `close`, 1 restart of the broker, any number of lost connections | 4 004 000 | bindings reach the broker; one `connect` is safe |

### Why the bounds are enough

Every bound is a constant named in its module. The races are between two requests, two
callers, two users or two sessions; a third party adds repetitions. Two requests share a
counter with a thread that may draw an id between load and increment; three responses
allow one request to be answered twice and late. A queue of initial size 1 with limit 1
grows, is full again and refuses within three messages. Two sessions with a limit of
two fill the table, two with a limit of one need a freed place, and a third lets a place be freed
and taken while another connection is turned away. Three calls of a client's other threads
reach connect-close-connect in every position of the handlers. Two timer rounds do not
queue up (`RoundOver` in the manager, `expire` in the client): the code waits one second
or more between them. For the cards, 2..5 and Q..A are the points around both places
of the ace, and three groups are what the smallest winning declaration with a three of a
kind needs. `rummy_search` is one deterministic search per hand, so that its states are few and
each is long to compute: the hands are chosen for the choices the search has to make (one joker
that two groups want, two jokers that two cards want, a low and a high ace, the same run twice, a wild card inside a run, more jokers than
groups), and one turn is enough, because posting and declaring look at nothing but the hand.
`LeastCost` enumerates disjoint groups and is compared up to 10 cards (`Compared`). For the
message queue, two exchanges tell a configured one from one that is asked for later, two keys a
first key from a second, and a second `connect` is what replaces a connection. `CHECK_DEADLOCK FALSE` is set throughout because the bounds, and
peers that stay away, let every instance come to rest.

### Fairness

* Loops run what is in their queue (`IoLoop::run` is a thread of its own, and no handler
  modelled here blocks): weak fairness of `run`, `do_handle_message`,
  `shutdown(s)`, of the steps of a handler that is cut in two, and of `set_value`. For
  `RunTask(l)` of the manager the fairness is strong: the visits of `check_session_alive` are steps
  of the manager's loop, between which no other task of that loop runs, so that a task is not enabled
  all the time; but the walk and the task wait in one FIFO, and a walk comes to its end.
* Timers that are waited for expire: weak fairness of `expire`, `on_check_handle`, and of
  the timeout among the steps of a thread inside `wait_response`.
* Nothing is assumed of peers, of the network, or of the code that calls in: a connect may
  hang, a message never come, a caller never call again.

## 4. The proofs

`AsyncRequestProofs` proves, from `RequestAssumption` (`NoRequest` is no request, the bounds
are naturals), for any number of requests, threads and responses:

* `AssertionHolds`: `Spec => []HandlerFindsItem`;
* `RequestsKept`: `Spec => []NoRequestForgotten`;
* `NothingAfterTimeout`: `Spec => []TimeoutIsLast`;
* `TableTypes`: `Spec => []TypeOK`;
* `TableImplementsContract`: `Spec => Contract!CSafety`, the safety part of the refinement.

The argument is the inductive invariant `TableInv`. That the table is never asked to insert an
id it holds rests on `IdsBelowCounter` and `CurrentIdFresh`: all ids in the table lie below
the counter and below the one being given out, and other threads only ever raise the counter
in between. That the timeout is last rests on
`OneEntryEach` (a request has one entry, and only after it was sent), and that an
erased entry was answered on `AbortedWasAnswered`.

`LobbyPlayersProofs` proves, from `LobbyAssumption` (the three "none" values are outside
their sets), for any users, sessions and players:

* `LobbyMapsAgree`: `Spec => []MapsAgree`;
* `LobbyNoGhosts`: `Spec => []NoGhosts`;
* `LobbyRightUser`: `Spec => RightUser`;
* `LobbyTypes`: `Spec => []TypeOK`.

The inductive invariant `IInv` adds to them how ends reach the lobby (`EndsFirst`: an end
that waits in the inbox is that of a closed session), that the player found under a session
belongs to the user of its last login (`OnlineIsLast`), and that a session only one user has
logged in on leads to that user's player (`OneUser`). `NoGhosts` needs all of them: the end
of a session erases the user found under it, and only these facts say that nobody else is
left there.

`SynRequestProofs` proves, from `SynAssumption` (the bounds are naturals), for any number of
threads, requests and answers:

* `AnswersAreOwn`: `Spec => []OwnAnswer`;
* `ProcessSurvives`: `Spec => []Survives`;
* `NoPromiseLeft`: `Spec => []NothingLeft`.

The inductive invariant says where the one promise and the one id belong: to the caller inside
(`CallerAlone`, `PromiseIsOwn`), to nobody, or to a request nobody answered yet, when none is stored (`IdleId`), and that an answer which
`response_come` let pass finds its caller inside or is counted as raced (`PassedInTime`). `Survives`
needs the answers counted, on the wire, let pass and set (`AnswersCounted`): a promise is set twice only if a
request is answered twice. `NothingLeft` holds with any overlap, because every caller that made a
promise still has the reset before it (`PromiseHasCaller`).

`TcpSessionProofs` proves, from `SessionAssumption` and `QueueAssumption` (the bounds are naturals, the
queue starts with room for something), for any number of messages, frames and calls and any sizes
of the queue:

* `OneWriteHolds`, `WrittenInOrderHolds`, `QueueBoundedHolds`: `Spec => []OneWriteAtATime`,
  `[]WrittenInOrder`, `[]QueueBounded`;
* `OneReadHolds`: `Spec => []OneReadAtATime`;
* `OpenedAndEndedOnceHolds`: `Spec => []OpenedAndEndedOnce`;
* `SessionImplementsSending`: `Spec => Channel!CSafety`, the refinement of `SendContract`.

Its invariant is a predicate on a session and is shown of every function of the module, since a handler
composes them and is atomic only as a whole. `OneWrite` and `OneRead` tie the operation in progress to
the handler in the loop that will end it (never both, never two), `Writes` and `Reads` say that
one of them is there when it must be; `LastMessage` says why only one message can follow the end: a
frame that was read when the socket closed, of which there is at most one because there is at most one read.

`SendContract` knows neither queue nor loop. In the refinement `ended` is the closed socket, and `owed`
a completion without error that was in the loop when the socket closed. `Sends` says what a call may do to the
contract's variables; most calls are `Quiet`, and since quiet ones may come before and after (`QuietAround`), a handler made
of several calls is still one step of the contract. `WrittenInOrder` is what makes the front of the queue the next
message to deliver (`NextInQueue`), and `OneWrite` why only one delivery is owed. A message accepted after the end is never
delivered; the contract, like the code, says nothing to its sender.

`ServerSessionManagerProofs` proves, from `ManagerAssumption` (at least one loop), for any number of loops,
connections and messages and any limit:

* `OpenIsTrackedHolds`, `LimitHoldsAlways`, `EntriesHeldAlways`: `Spec => []OpenIsTracked`,
  `[]LimitHolds`, `[]EntriesHeld`;
* `LifeCycleHolds`: `Spec => []LifeCycle`;
* `WalkBrokenHolds`: `Spec => []WalkBrokenBySharedLoop`.

The invariant follows one session through the loops (`Life`): in which loop each kind of its tasks may
wait and what that says of it (`Waiting`), and how many things may still be dealt after
its end (`Owed`). `Table` says that numbers are given once, which makes the number of
open sessions that of keys and gives the limit. An entry of a closed session is held by the
`do_close_session` on its way to the manager (`ClosedHeld`), one of an open session by its read (`OpenHeld`).
The lemmas say of each function what it does to its session, and that it leaves the others alone (`Same`).

`ClientProofs` proves, from `ClientAssumption` (the bound is a natural), for any number of calls:

* `FlagsTruthfulHolds`: `Spec => []FlagsTruthful`;
* `CrashNeedsOverlapHolds`: `Spec => []CrashNeedsOverlap`;
* `WatchedHolds`: `Spec => []WatchedWhileConnected`.

`Truthful` ties the flags to the socket, the attempt in progress or its completion in the loop, and the
reconnect timer or its handler. It is inductive only with the order of the loop (`Ordered`): a handler of the
reconnect timer that comes too late stands before the completion of the attempt that made it late,
and finds the client connecting.

`MqClientProofs` proves, from `MqAssumption` (finitely many exchanges and keys, a configuration
made of them), for any number of calls, lost connections and restarts of the broker:

* `BindingsReachHolds`: `Spec => []BindingsReach`;
* `OneConnectIsSafeHolds`: `Spec => []OneConnectIsSafe`.

`Reach` says of every recorded exchange that its keys are bound or some command that waits will lead to it:
a binding, its declaration, or that of the queue, which declares the exchanges. `Firsts` follows the first key
of an exchange from the call through the loop into `m_binds` (`NextFor`: no other key of the
exchange is before it). `OneConnection` is about an application that connects once: nothing is sent before the channel
opens, and every binding has the queue and its exchange declared before it (`Sorted`). `Steady`
is the accident the safety of the connection rests on: `m_is_connecting` is set as long as
`m_auto_reconnect` is.

`RummyProofs` proves, from `RummyAssumption` (colors of 1..4, points from the 2 to the ace, no group of more
than `MAX_CARD_COUNT` cards, which is 14), for any deck made of such cards, any wild point and any number of groups:

* `GroupsRightTheorem`: `Spec => []GroupsRight`;
* `DeclareAgreesTheorem`: `Spec => []DeclareAgrees`.

The invariant `Laying` is no more than the types of what is laid; the work is in what the walks over a sorted
group compute. There is no induction over sequences to be had, so each place that calls for one takes the least
position at which the claim fails, and looks at the one before (`LeastExists`, `Rising`, `AllAlike`).

* Sorting (`SortedSorts`): `Listed` puts an element where its rank says. In a finite set that a strict order
  compares throughout, ranks grow with the order and take every value up to the size (`RankGrows`, `RankTakesAll`), so
  the result is a permutation that ascends. `PlainPicks` says the same of the cards that are no jokers.
* Straights (`WalkFindsStraights`): the gaps of a run telescope to the distance of its ends (`HolesOfRun`), and n
  places around the cards exist if and only if that distance is below n: with the ace high (`FitsHigh`) by
  starting at the first card or as far up as the ace allows, with the ace low (`FitsLow`) by starting at 1. Fourteen
  cards are the longest run there is, which is where the bound on a group is needed.
* Pure straights: no pure one is refused (`PureTaken`), and one that is taken is pure or has an ace that
  ended the walk (`PureMeans`).
* Three of a kind (`KindTaken`, `KindMeans`): without a joker between them the other cards are neighbours, and alike
  because each is like the one before.
* Declarations (`ChecksAgree`): if no group is loose, the score is an empty sum (`NothingLoose`) and the
  loser's check comes down to the lives it counts among the groups (`LoseMeans`, `CountsOf`).

The inductive invariants of the last six modules were also model-checked on the instances of their runs.

Only model-checked:

* all liveness, which is out of this prover's reach, including the fairness of `RequestContract`;
* the properties of `RummySearch`. What the search finds is computed by recursion and by folds over lists of groups, so
  that any fact about it takes induction over data, which the installed provers cannot do; and
  the properties depend on the hands that are dealt: for 11 or 14 cards `DeclarationStands` is not true (section 5).

Every other invariant and action property of a passing run is stated by a theorem.

## 5. What the model shows about the code

Three runs end in a violation; `findings` in `PROJECT.json` quotes the lines.

* `client_close`: `Client::close_session` calls `connect()` whatever `m_auto_reconnect`
  says, so that `close_client` on a connected client starts a new attempt.
* `lobby_offline`: the comment on `m_login_user` promises five minutes; `on_session_close`
  erases the user at once.
* `rummy_kind`: `is_cards_three_of_kind` compares neighbours only, and a wild card in
  between hides two different points.

Several properties that hold name the cases in which the code falls short of the stronger
statement:

* `CrashNeedsOverlap`, `FlagsTruthful`: a `connect(ip, port)` that meets an expired
  reconnect timer starts two attempts, and the aborted one's completion takes the socket from the
  other.
* `OwnAnswer`, `Survives`: `response_come` compares ids before it takes the lock; an
  answer that was let pass while its caller timed out is set on the next request's promise.
  Two threads inside `wait_response` replace each other's promise.
* `WalkBrokenBySharedLoop`: a silent session in the manager's own loop erases itself under
  the iterator of `check_session_alive`.
* `LifeCycle`: the two posts of `start()` let a message, or the end, be dealt before the
  opening of a session in another loop.
* `NoGhosts`: a session that two users logged in on, or a login handled after its session's end,
  leaves a user logged in over a dead connection.
* `GroupsRight`: `is_cards_pure_straight` ends with success at an ace that closes a run
  from the 2 and takes whatever lies behind it (2, A, printed joker), and `is_cards_three_of_kind` takes different cards on the two sides of a joker. `DeclareAgrees`:
  a group of no known type is passed over by `is_groups_declare` and refused by
  `check_lose_declare`.

* `DeclarationStands`: the search fills a three of a kind with any number of jokers and the check
  takes four cards only. In the nine hands of `rummy_search` and what is drawn to them, one of them of 13 cards
  (the size this game deals), the order of the search keeps the larger groups out. That it does so for
  every hand of 13 is not shown; laid directly, a hand of 11 or 14 cards may be given a group that the check refuses.
* `BindingsReach`: `m_binds.insert` ignores an exchange that is known, so that a second key of an exchange
  asked for before the channel opens is never bound.
* `OneConnectIsSafe`: `MqHandler::onConnected` clears `m_is_connected` as `onClosed` does, and
  nothing sets it. `is_connected()` is never true; `m_is_connecting` stays set, and this
  alone keeps the timer from replacing a working connection every few seconds. For the same reason a lost
  connection is never made again by the timer, `close_client` does not close the
  session, and a second `connect()` replaces a connection that is up, destroying the handler
  before the connection that refers to it. `m_is_session_opend` survives the loss, and what is
  bound before the new channel is ready goes ahead of the declaration of the queue.

## 6. Not modelled, and the plan

Not modelled for good: the tools (ciphers, digests, parsers), logging, process start, generated
and vendored code, the test programs, the backup copies of the client library and of the
game server. Of the modelled files, the bytes of a frame (each check of them is a choice),
addresses, statistics and log output are left out. In the lobby,
`on_kick_out_user`, `make_player` and `on_timeout` have no caller; line 97 of its
`PlayerManager.cpp` (`jv["user_id"].;`) does not compile as it stands and is read as taking the
token's user id. Data races on plain
pointers and the start of the loops' threads are not modelled: a handler is atomic except where
a module splits it. Three smaller things: a session does at most one thing on the spot with a message it deals
(`React`: a reply or a close; the library itself makes only the reply to a heartbeat there, and the
servers' task managers post to their own loop); the lobby's peers do not send `CMD_SESSION_OPEN` or
`CMD_SESSION_CLOSE`, which `do_handle_message` would take from them as from the session itself (`Contents`); the
`consume` that follows the bindings of a queue is not among the channel's commands (`answer`).

Not modelled because there is no behaviour to model at this commit:

* the login server, the robots that log in through it, and the stores it alone uses. Its source does not build
  (`loginsvr/LoginModule.cpp` line 17, `FIELD_CLASS13` given fourteen fields in
  `common_define/UserCommon.h`), and read as meant no login completes: `Redis::pair_array_to_json` (line 73)
  returns nothing for every valid template, the default name of a Redis connection fails the assertion
  of `get_client`, `query_from_mongo` dereferences an empty result. What its hazards would
  be is kept in `PROJECT.json`;
* sending and receiving over the message queue, and the lobby's dispatch on top of it: `MqSession::do_write`
  (line 189) takes the success of `encode_message` for an error and returns before it publishes;
  `recv_data` decodes a message and drops it;
* rooms and rounds: `RoomManager::dispach_room_msg` is commented out.

Shuffling and dealing (`CardDealer`) choose cards at random and keep no rule a property
could be about; the frame's layout (`MessageBuffer`) is straight-line copying. Most of the repository's
395 000 lines are vendored or generated (protobuf, three copies of a JSON library, AMQP-CPP, the drivers,
spdlog); the servers' own logic, which the modules follow, is a few thousand.

Left to do: the login server, over external stores, and sending over the message queue, once they work.
