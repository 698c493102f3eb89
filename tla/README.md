# mniam-headless: a TLA+ model of the game server

`mniam-headless` is a server for a small network game.  Remote players connect
over TCP; the server runs a match in a two-dimensional world, tells everybody
what the world looks like, asks everybody for a direction, and moves the world
on.  Players eat food and each other.

This directory holds TLA+ models of that server (paths below are relative to
`src/src/`), the configurations TLC checks them with, and theorems proved with
TLAPS.  `PROJECT.json` maps every definition to the lines it models.

Contents: [1 Inventory](#1-inventory) · [2 Modules](#2-modules) ·
[3 Runs](#3-runs) · [4 Fairness](#4-fairness) · [5 Proofs](#5-proofs) ·
[6 Findings](#6-findings) · [7 What is not modelled](#7-what-is-not-modelled) ·
[8 Plan](#8-plan)

## 1 Inventory

### Threads

| thread | runs | shares |
|---|---|---|
| game (main) | `main`, `Game::update`, `Server::runTransaction`, `Transaction::waitForFinish` | the client map, `ClientTransaction` objects, each client's queue |
| server | `Server::serverThreadFunc` (accepts connections) | the client map, `isAccepting` |
| one per client | `ConnectionClient::clientThreadFunc` | its queue, `active`, `disconnectionTime`, `ClientTransaction` objects it has a reference to, AMCOM response map |
| (legacy) one per connection | `connectionThread` of `RemoteConnection` | every field of its `RemoteConnection`, with no lock |

### Components

**Client transactions** (`connection_client.*`, `connection_transaction.h`,
`amcom_transactions.h`).  State: the `Transaction` object with its map of
`ClientTransaction`s (state, response size, binary semaphore), the AMCOM
responses, each client's queue of *references* into that map, `active`, the
socket.  The game thread constructs a `ClientTransaction` per client, queues a
reference, and waits on the semaphores up to a common deadline.  The client's
thread polls its queue every 10 ms, writes the request, reads with a timeout of
500 ms, validates, saves the response, sets the state and releases the semaphore;
a failed write, or a response size found to be 0 afterwards, ends the thread.  The
write has no timeout.
*Hard*: the game thread frees the map while a thread may still use it; both sides
have timeouts of the same length, started at different moments; a reply may come
after its read, or in two parts; `responseSize` is read after the semaphore is
released; `active` is tested twice and cleared in between.
*Correct when*: a thread writes only to its client's transaction of the current
run; a success is an answer, and the answer to this run's request; a prompt
client succeeds whatever the others do; every run ends; a gone peer is given up.

**Connection server** (`connection_server.*`).  State: the map of clients with
its mutex, `isAccepting`, `clientLimit`, the id counter.  Operations: accept,
`rejectIncomingConnections`, `acceptIncomingConnections`, `removeClient`,
`removeAllInactiveClients`, `getClients`, `getClient`, `runTransaction`,
`runTransactionWithSingleClient`.
*Hard*: the size is tested without the mutex; clients are destroyed, and their
threads joined, while it is held, and such a thread may be stuck in a write;
members are destroyed in reverse order; a snapshot reads a client field by field while its thread ends.
*Correct when*: the limit holds, ids are never used again, no thread outlives
what it uses, a snapshot tells no time of disconnection that was never set, and
erasing inactive clients gives the mutex back.

**Game** (`amgame.*`, `player.*`, `food.*`, `main.cpp`).  State: the phase,
`players`, `food`, each player's last shown hitpoints, each piece's `isAlive`.
`Game::update` runs one phase per call: NEW_GAME requests to one client after the
other, then FOOD_UPDATE, PLAYER_UPDATE and MOVE in a cycle, GAME_OVER after
`finish`.  Updates are sent in batches.
*Hard*: batches that fill up just before, at, or after the last piece; players
are numbered at two places and counted at two; clients come and go during a
match and while it is set up.
*Correct when*: before each MOVE, and at the end, every client of the match knows
the food that is left and everyone's hitpoints; food is reported eaten once; no
batch outgrows its packet; nobody hears of more players than were announced; what
is displayed is a player's hitpoints, or what the clients were told of them before
it was eaten.

**Engine** (`engine/`).  State: players and food with hitpoints, which bodies are
simulated, which touch.  `World::step` runs the physics library, whose contact
callbacks eat, then handles contacts that go on, then updates all bodies.
*Hard*: the callbacks of one step come in an order nobody chose, with objects
already dead whose bodies still take part.
*Correct when*: hitpoints are moved and never made; the dead stay dead; a match
never runs out of players; contests between touching players get settled.

**Legacy remote connection** (`remote_connection.*`).  State: `alive`,
`identified`, the angle, the thread's handle, the socket, a
`RemoteConnectionTransaction` (request, awaited confirmation, state) and queues
of states to send.  The caller hands the connection thread one request at a time;
nothing guards the fields.  Operations: `connectPlayer`, `disconnectPlayer`,
`waitForDisconnection`, and the requests.  No other code creates one.
*Hard*: a request set up while the last one is being reported as sent; one left
behind by a connection and sent by the next; a disconnection asked for before the
thread marks itself alive; a wait of 3 s that gives up a thread still connecting,
or one that nothing has asked to end; `connectPlayer` called again without it.
*Correct when*: for a caller that waits for each transaction and each connection,
at most one thread runs, a finished transaction is this one and has been
answered if it has an answer, the sending of each is tried once, and both requests
and disconnections take effect.

**AMCOM codec** (`amcom.*`, `amcom_packets.h`).  Packet types and their limits,
which the other modules use; `amcom.c` is a set of stubs for users to fill in,
so there is no behaviour of it to model.

### Interaction

`Game::update` → `Server::runTransaction` → `ConnectionClient::runTransaction` →
queue → client thread → socket → back through the semaphore to
`waitForFinish`; and `Game::update` → `World::step` → contact callbacks.  The
server thread adds clients at any time.

## 2 Modules

| module | models | composed with |
|---|---|---|
| `RequestReply` | the abstract specification: what a transaction promises the game | |
| `Transactions` | game thread and connection threads over one `Transaction` at a time, heap cells, sockets, peers | implements `RequestReply` (INSTANCE `Abstract`) |
| `Engine` | the world and its step | |
| `Game` | a match | INSTANCE of `Engine` (`World`) |
| `ConnectionServer` | the client map, its snapshots and the lives of the client threads | |
| `RemoteConnection` | the older connection class: a caller, up to two connection threads, peers | |
| `MCTransactions`, `MCEngine` | symmetry sets for TLC | |
| `TransactionsProofs`, `PromptProofs`, `RefinementProofs`, `EngineProofs`, `GameProofs`, `ConnectionServerProofs`, `RemoteConnectionProofs` | theorems | `GameProofs` uses those of `EngineProofs`; `PromptProofs` extends `RefinementProofs`, and that `TransactionsProofs` |
| `SumTheorems` | theorems on sums over finite sets | `EngineProofs` extends it |

Definitions whose comment starts with *Mutant* are deliberate mistakes: variants
of a definition in which a property of the runs has been seen to fail.

### Transactions

`slot` is the map `clientTransactions`; a cell of `Cells` is the storage of one of
its nodes, and `state[a] = "FREED"` says it is free.  `Emplace` may choose any
free cell, also the one freed a moment ago, as an allocator may.  `queue` and
`cur` hold references, which survive the cells they refer to.  The result of
reading a freed cell is chosen freely (`Runnable`, `SizeIsZero`,
`SizeIsPositive`); a write to one is lost, since the next constructor overwrites
it (`Put`).  Writing freed memory is undefined behaviour of which the model keeps
only the part that stays within the allocator's cells; what it leaves out can only
be worse, and the three runs expected to fail do not need it.

Time is not counted.  `SlowClients` are those whose peer may answer late or never,
or take no data: only for them can a read time out (`ReadTimeout`), and only
behind a read from, or a write to, one of them can a wait end before its thread
is done (`DeadlinePasses`): 100 ms and 500 ms are far longer than a poll of 10 ms.
A write blocks while the peer, though there, has `Window` requests it has not
taken; the code gives it no timeout (`Sent`).  `SplitClients` are those whose reply may arrive in two pieces
(`read` is not `read_n`), `LossyClients` those whose peer may close.

`kind` abstracts the packet: NEW_GAME and MOVE have replies, "UPDATE" stands for
FOOD_UPDATE and PLAYER_UPDATE, which have none, as GAME_OVER, after which nothing
follows.  The server's limit is that of a GAME_OVER packet, so one is enough.  A payload is the
number of the run it belongs to, so that a stale reply can be told from a fresh
one.  `ReadInvalid` models the validator rejecting a packet of another kind, and
the size 0 it leaves behind; `ReadShort` a read that returns less than was asked
for, after which the thread goes on: the rest of a divided reply, or late replies
to MOVE that together are shorter than the reply expected now (`OnlyMoves`).

`Held(c)` are the cells thread c is still going to write.  Its look at
`responseSize` after the release (pc `SIZE`) is not among them: the cell may be
free by then, which `healthy_stopped` is about.

`overdue` and `unread` are history variables: they say that a wait has ended
while the thread was still at work, and that a reply has missed its read.  The
safety properties are conditional on the first; sections 3 and 6 say what happens
without the condition.

The refinement mapping is at the end of the module: a client is *asked* while it
has a cell, *served* once that cell is DONE, *judged* once the wait has left it
behind.

### Engine

`StartStep`, then any sequence of `PlayersMeet`, `PlayerMeetsFood`,
`FoodMeetsBoundaries` and `PlayersPart` between simulated bodies, then
`ListContacts`, one `HandleOngoing` per contact, and `Update`.  The order of
contacts is the library's, hence arbitrary.  Positions, radii, velocities and
angles are left to it as well: the model allows every contact they might allow.
`FoodMeetsBoundaries` and `PlayerMeetsFood` have no effect on the dead, so their
guards leave those cases out.  `grown` and `escaped` are history variables.

### Game

One action per iteration of a loop of `Game::update`; `World!…` actions of
`Engine` inside.  A transaction is one step, seen by clients that are prompt:
`Transactions` is the model of what is behind it.  `told` is what a client knows
(external: the remote program); it stores each state under its number.  The
number of steps per MOVE, food per player and batch limits are constants (5, 6,
and the AMCOM limits, in the code).  `Accept` and `Leave` happen at any time.
`NewMatch` removes the inactive clients and counts the rest in one step, though
the server thread might add one in between: the number is used by nobody who would
see a difference.  `numberOfPlayers` is what `newMatch` counted, `announced` what each client was
told in NEW_GAME, which is counted again from a later snapshot.  `Finish` may come
between any two calls of `update`, also after GAME_END; GAME_OVER then ends the
match, again.

### ConnectionServer

The server thread's test and admission are two steps, with the mutex taken only
for the second.  `Destroy` is the destructor of a `ConnectionClient` up to the
join: the queue and mutex go first (they are declared after the thread), then the
thread is asked to stop; `Join` is the end.  A connection thread is "polling"
while it uses the queue and mutex, "leaving" once it has left its loop,
"stamped" once it has set `disconnectionTime`, and "ended" once it has cleared
`active` and returned.  `getClients` and `getClient` read `isActive` and
`getDisconnectionTime` of one client after the other, with the threads running in
between; `snapshot` is what has been read of the client at hand.

### RemoteConnection

A thread and the socket it opens have the number of the call of `connectPlayer`
that started it.  The three assignments of `setupTransaction` are three steps
(`SetUp`, `WriteConfirmation`, `WriteState`).  In the thread, looking for a
request and sending it is one step, `indicateTransmission` another, so that a
request may be set up in between; the loop that takes states off a queue
(`size`, `front`, `pop`) is part of the former.  Receiving a packet and
`indicateReception` are one.  `Usable` is what every call on `connectionSocket`
depends on: another thread of the same object may have closed or replaced it.
`SendSucceeds` knows TCP: a peer that closed answers the first send with a reset,
and only the next one fails.  `ReadWild` is an error of `recv` taken for a length:
`bytesAvailable` is never written when there is no socket to ask, and a peer may
reset the connection between FIONREAD and `recv`.  Nothing follows it.

Nothing in the code stops a caller from calling out of turn, and the model does
not either: `early` is a history variable that says a call has come before its
time (`connectPlayer` before the last thread was waited for, `disconnectPlayer`
before the connection was made, `waitForDisconnection` before the thread was asked
to end), `hasty` that a transaction was set up before the last one was finished.
The class is documented for neither, and the properties are conditional on them;
both happen in the model, whose threads then share the object.  `tried` counts how
often the sending of each transaction was attempted, `transmitted` are those that
`send` took.

## 3 Runs

Passing runs:

| run | instance | shows |
|---|---|---|
| `transactions` | two prompt clients; the peer of 1 may close, replies of 2 may split; 6 runs (2 NEW_GAME, then updates, moves, GAME_OVER), 3 cells | `WritesOwnTransaction`, `SignalledOnce`: no thread writes to what is not its own; `ImplementsRequestReply`: exactly the clients served are counted |
| `transactions_slow` | client 2 slow, its replies may split; 5 runs, 2 cells | as long as no wait has ended early (`overdue`), late replies in later runs included: `SuccessMeansAnswered`, `ReplyMatchesRequest`, `PromptClientSucceeds` (what is counted has been answered, the slow client harms nobody else) and `ImplementsWhileTimely` (every step so far is one of `RequestReply`) |
| `transactions_liveness` | a game that goes on for ever (`Recycle`); the peer of 1 may close, that of 2 may be silent or take no data for ever | `RunsFinish`: every transaction ends all the same; `ClosedPeerDropped`: a peer that went away is found out |
| `engine` | 4 players, 3 pieces of food, all orders of contacts | `Conservation`, `SomebodyLives`, `ContestsSettled`, `DeadStayDead` |
| `game` | up to 3 clients, one of which may leave, any of which may not answer NEW_GAME; batches of 2 | `FoodViewExact`, `PlayerViewExact`, `EatenReportedOnce`, `BatchFits`, `AnnouncedCovers`, `ShowsHp`, `NumbersInOrder`, `WinnerKnown` |
| `server` | limit 2, four connections | `LimitRespected`, `TeardownSafe`, `ThreadsHaveClients`, `IdsAreFresh`, `SnapshotTimesSet`, `MutexReleased` |
| `remote` | two connections, two requests of three kinds (one, if a call comes early), peers that close or reset | `OneThread`, `IdentifiedByThisPeer`, `FinishedMeansDone`, `SentOnce`, `DisconnectHonoured`, `RequestServed` |

Each component's run also checks its `TypeOK`.  Where two runs of `Transactions`
could check the same property, it stands in the one whose peers make it harder
(`ReplyMatchesRequest`: with late and divided replies).

Runs in which TLC finds a violation of what the repository says of itself
(section 6): `stale_reply`, `false_success`, `healthy_stopped`, `player_number`,
`remove_client`.

### Bounds, and why they are enough

* `MaxRuns` = 6 with two clients gives every kind of transaction after every
  other that the game can run, with two left over for a late reply or a dangling
  reference to do harm; the three violations need at most five.  With `Recycle`
  run numbers start again after the NEW_GAME ones, as long as no wait has ended
  early, which makes the state space of an endless game finite; there, numbers are
  compared by no property.  That instance has `MaxRuns` = 3, a `Window` of one
  request (so that one answer that does not come already blocks the next write),
  and `MaxQueue` = 0: no transaction is started while one is left in a queue of a
  thread that runs.  Elsewhere `MaxQueue` and `Window` are as large as `MaxRuns` and
  bound nothing.  The slow instance has 5 runs, which reaches a MOVE with a late NEW_GAME reply before it; what
  it checks is proved for any number (section 5).
* Two clients are enough for one's thread to meet the other's cell; three cells
  allow an allocator that hands out a new one and one that hands out the old.
* Four players allow two contests that feed into a third, and a tie that
  is broken by a fourth; three pieces of food make ties among the strong.
* Three clients with one piece of food each and batches of two give a full
  batch before the end, at the end, and a rest of one; the code's limits are
  larger, but only their being reached matters.  One world step per MOVE: the
  contacts of one step already reach every division of the food, and `engine` has
  steps in any number.
* Four connections against a limit of two fill the map, empty and fill it.
  `MaxConnections` is a bound of the model.
* Two connections of a `RemoteConnection` are what it takes for one to inherit
  from, or run beside, another; two requests to overtake each other; IDENTIFY,
  MOVE and FOOD_UPDATE are one of each way of being confirmed (`identified`, the
  angle, not at all).  `MaxThreads`, `MaxRequests` and `MaxStates` are bounds of the model, and so is
  `MaxEarly` (`EarlyBound`): a call comes early only while at most one transaction
  has been set up, and no other is set up afterwards.  What is left of the
  properties then is `TypeOK`, as the others do not hold for such a caller.

`CHECK_DEADLOCK FALSE` stands where the system does stop: after `MaxRuns`
transactions (the bound), at the end of a match, when the server thread has
ended, when a caller's requests and connections are used up.
`engine` checks for deadlock.

## 4 Fairness

`Transactions!Fairness`: weak fairness of the game thread's steps, deadlines
included; of each connection thread, with its read timeouts, except in a write to a
slow client (which has no timeout and may block for ever); and of the answers of
the peers of the other clients while they are there.  Of a slow client's peer
nothing is assumed: it may be silent but open for ever, the case the deadlines are
for.  There is no fairness of `Close`, and none between the branches of a read.
`ClosedPeerDropped` leaves out what follows a wait that ended early: a late thread
of another client may then finish, again and again, the transactions of this one,
as in `false_success`.

`ConnectionServer!Fairness`: weak fairness of what the owner does with the mutex in
its hands (`Locked`), and nothing else.  Of the connection threads nothing is
assumed, not even that they leave their loop when asked to: a thread may be in a
write that blocks, or be polling what `removeClient` has destroyed.  That is why
`MutexReleased` speaks of `removeAllInactiveClients` and `getClients` only; a
`removeClient` that joins such a thread keeps the mutex.  Nothing makes a new
connection arrive, or a caller call.

`RemoteConnection!Fairness`: weak fairness of what the caller has begun (`Call`:
`setupTransaction` and the wait of 3 s come to an end), of each connection thread
and of each peer's answers.  Nothing makes the caller call, or a peer close.  The
only unbounded step of a thread is the connection attempt, which the operating
system ends.

`Engine` and `Game` have safety properties only: the physics library decides when
a step is over.

## 5 Proofs

For every value of the constants allowed by the assumptions
(`ClientsAssumption`, `CellsAssumption`, `BoundsAssumption`;
`Engine!ObjectsAssumption`; `Game!ConstantsAssumption`;
`ConnectionServer!ConstantsAssumption`; `RemoteConnection!ConstantsAssumption`):

| theorem | states |
|---|---|
| `TransactionsProofs!TypeCorrect` | `Spec => []TypeOK` |
| `TransactionsProofs!OwnershipCorrect` | `Spec => []WritesOwnTransaction` |
| `TransactionsProofs!SignalsCorrect` | `Spec => []SignalledOnce` |
| `TransactionsProofs!AnswersCorrect` | `Spec => []SuccessMeansAnswered` |
| `TransactionsProofs!RepliesCorrect` | `Spec => []ReplyMatchesRequest` |
| `PromptProofs!PromptCorrect` | `Spec => []PromptClientSucceeds` |
| `PromptProofs!PromptReplies` | `Spec => [](overdue = {} => ...)`: until a wait ends before its thread is done, no reply of a prompt client misses its read, and the reply saved for it is this run's |
| `PromptProofs!PromptGetsResponse` | `SlowClients = {}` and `SplitClients = {}` imply `Spec => []GetsResponseToRequest` |
| `PromptProofs!PromptTrueMeansFinished` | `SlowClients = {}` implies `Spec => []TrueMeansFinished` |
| `PromptProofs!ReadsEnd` | `Spec => []ReplyIsOwed`: who waits in `read()` is owed a reply |
| `RefinementProofs!TimelyRefinement` | `Spec => ImplementsWhileTimely`, slow peers or not |
| `RefinementProofs!RefinementCorrect` | `SlowClients = {}` implies `Spec => ImplementsRequestReply` |
| `EngineProofs!ConservationCorrect` | `Spec => []Conservation` |
| `EngineProofs!TypeCorrect` | `Spec => []TypeOK` |
| `EngineProofs!SurvivorCorrect` | `Spec => []SomebodyLives` |
| `EngineProofs!ContestsCorrect` | `Spec => []ContestsSettled` |
| `EngineProofs!DeathIsFinal` | `Spec => DeadStayDead` |
| `GameProofs!WorldCorrect` | `Spec => World!Spec`: a match is a behaviour of `Engine` |
| `GameProofs!TypeCorrect` | `Spec => []TypeOK` |
| `GameProofs!RangesCorrect` | `Spec => []RangesInv`: each loop stays within its own range |
| `GameProofs!BatchesCorrect` | `Spec => []BatchFits` |
| `GameProofs!FoodViewCorrect` | `Spec => []FoodViewExact` |
| `GameProofs!PlayerViewCorrect` | `Spec => []PlayerViewExact` |
| `GameProofs!ReportsCorrect` | `Spec => []EatenReportedOnce` |
| `GameProofs!AnnouncementCorrect` | `Spec => []AnnouncedCovers` |
| `GameProofs!DisplayCorrect` | `Spec => []ShowsHp` |
| `GameProofs!NumbersCorrect` | `Spec => []NumbersInOrder` |
| `GameProofs!WinnerCorrect` | `Spec => []WinnerKnown` |
| `GameProofs!MatchCorrect` | `Spec => [](World!SomebodyLives /\ World!Conservation) /\ World!DeadStayDead` |
| `ConnectionServerProofs!TypeCorrect` | `Spec => []TypeOK` |
| `ConnectionServerProofs!LimitCorrect` | `Spec => []LimitRespected` |
| `ConnectionServerProofs!TeardownCorrect` | `Spec => []TeardownSafe` |
| `ConnectionServerProofs!IdsCorrect` | `Spec => []IdsAreFresh` |
| `ConnectionServerProofs!SnapshotCorrect` | `Spec => []SnapshotTimesSet` |
| `ConnectionServerProofs!LifetimeCorrect` | `Spec => [](ThreadsHaveClients /\ JoinIsAnswered)` |
| `RemoteConnectionProofs!TypeCorrect` | `Spec => []TypeOK` |
| `RemoteConnectionProofs!OneThreadCorrect` | `Spec => []OneThread` |
| `RemoteConnectionProofs!IdentifiedCorrect` | `Spec => []IdentifiedByThisPeer` |
| `RemoteConnectionProofs!SocketsCorrect` | `Spec => []SocketsReleased` |
| `RemoteConnectionProofs!SentOnceCorrect` | `Spec => []SentOnce` |
| `RemoteConnectionProofs!FinishedCorrect` | `Spec => []FinishedMeansDone` |

**Transactions.**  `TypeOK` is not inductive: what a thread writes to the wire
comes from a cell it refers to, which must have been constructed at some time.
`TypeInv` adds that (`ReferencesOK`, `GameOK`).  On top of it, and only while
`overdue` is empty, `OwnershipInv` describes the life of a reference:

* `SlotsInv`: no two clients share a cell, a cell in the map is not free, and a
  client still to be visited by the emplacing loop has none.
* `HoldsInv`: a thread's queue and reference together hold at most one cell, and
  that is its client's.
* `SignalInv`: while a thread uses a cell, and when it is submitted, its semaphore
  is 0.
* `ScopeInv`: a cell is in use from its submission to the end of its wait at most.

Freeing is then safe because `WaitExpire` either adds to `overdue` or finds the
cell no longer held, and `Finish` follows only when every wait is over.  The
replies need two more: `AnswersInv` (a pending cell's request is this run's, and
one that is DONE and expects a reply has it saved: `RequestInv`, `DoneInv`) and
`StreamInv` (the connection of a client none of whose replies missed its read is
empty between transactions, and carries one request or reply of this run during
one).

**Refinement.**  `TimelyRefinement` holds for every instance: a step after which no
wait has ended early (`overdue' = {}`) is a step of `RequestReply` or a stutter,
because `overdue` never shrinks (`OverdueMonotonic`) and `OwnershipInv` holds
while it is empty.  With no slow client it stays empty (`NeverOverdue`), and the
whole specification implements the abstract one.  `ProgressInv` adds what the state of a cell says
about its thread: IDLE when submitted, SCHEDULED while pending, WAITING during the
read, and DONE only while the thread is about to release the semaphore, or has and
the game has not acquired it, or the wait is over for that client.  The last part
is what makes a wait that expires a wait for a client that was not served.  Most
steps are then stuttering steps (`QuietRefines`); a thread's write to its cell is
`Serve` or a stutter (`WriteRefines`).

**Prompt clients.**  `PromptInv` is one predicate, `PromptOK(c)`, for each client
whose peer answers in time and in one piece: as long as it is connected and not
being stopped, nothing has missed its read, its read finds the whole reply it
expects, and once its cell is in the map either its thread is using the cell, or
has finished it as DONE and the wait has not noticed, or the wait has counted it.
The lemmas `Frame` and `ThreadLeavesOthers` say that a step of another client's
thread or peer changes none of that, which is the point of the property.

Three findings (section 6) have a theorem that says what they need to happen:
`stale_reply` a reply that is late or divided (`PromptGetsResponse`),
`false_success` one that is late (`PromptTrueMeansFinished`), `player_number` a
client that does not join (`NumbersCorrect`).  The first rests on `ReadsInv`: a
prompt client's thread that reads, reads the whole reply it expects, so that
nothing such a client sends misses its read.

**Engine.**  `IInv` adds to the properties that contacts are between players of
the world, and that the contacts visited so far are settled (`VisitedSettled`).  `FightEffect` is the lemma on what a
fight does.  `SomebodyLives` is inductive because whoever is eaten leaves behind a
living eater, and the boundaries kill food only.

`Conservation` compares a sum over the objects of the world with what was put in.
The sum is `MapThenSumSet`, which is defined by recursion, through the choice of a
function that conforms to it.  The library's induction theorems take a predicate as
a parameter, which the provers cannot instantiate; `SumTheorems` therefore proves
an induction over *sets* from `WFMin` (`NatSetInduction`, then `SubsetInduction`
for the subsets of a finite set), constructs the function for every finite set
(`SumExists`), shows that all that conform agree on it (`SumAgree`), and derives
from that how a sum splits (`SumSplit`), changes (`SumChange`) and is unaffected by
a move (`SumMove`).  In `EngineProofs`, `EatMoves` says that a meal is such a move,
and `Balanced` and `HitpointsOK` (nothing outside the world has hitpoints) are
what each action then keeps.

**Game.**  `WorldCorrect` is proved first: every step of a match is one of
`Engine` or leaves the world alone, so `EngineProofs` (instantiated as
`WorldProofs`) gives its invariant for the world of a match.  The rest is `Inv`:

* `RangesInv`: where each loop of each phase stands, and that the clients it goes
  through are those of the match.
* `BatchInv`: the states collected so far are of different objects, all of them
  already visited.
* `FoodInv`, `PlayerInv`: for every object already visited, what a client *would*
  know if the batch at hand were sent now (`Stored(told, batch)`) is what there is.
  This is what carries the argument over a batch that fills up anywhere in the
  loop; `StoredAppend` is the lemma on adding one state.
* `AnnounceInv`: `newMatch` and NEW_GAME's snapshot count at least the players
  that join.
* `SpriteInv`: `lastHp` is positive, and current for the living.
* `ShownInv`: during a MOVE phase `lastHp` is what the clients have been told;
  after it, for those the phase has killed.  It begins with nothing told, and is
  renewed whenever the players' states are sent (`PlayerInv`).

* `OrderInv`: the players of the world are those that joined; the k-th client
  invited has the number k - 1; those that joined stand in that order, and if none
  of them stayed out so far, at the places of their numbers.

`WinnerKnown` joins three of these: the clients know everybody's hitpoints when the
game is over (`PlayerInv`), the world has no players but those of the roster
(`OrderInv`), and one of them is alive (`MatchCorrect`, from `Engine`).

A hitpoint lost between two updates cannot be missed because food only loses
hitpoints (`FoodOnlyLoses`, from `Engine`) and its `isAlive` follows them.

**ConnectionServer.**  The test without the mutex is sound because only the
server's thread adds clients: `LimitInv` carries its result to the admission.
`TeardownInv` says a client that `removeAllInactiveClients` destroys has ended,
which follows from `active` being cleared last; `SnapshotInv` rests on the same
order from the other side, the disconnection time being set before.  `ThreadsOK`
says that ids not yet given out have no thread, hence no id is given out twice.
`LifeInv` follows the one client that is being destroyed (`victim`) from the stop
request to the join: it stays in the map in between, the walk over the map never
comes back to it, and no other client in the map was asked to stop.  So no thread
outlives its client's memory (`ThreadsHaveClients`), however the client is removed,
and the mutex is held only for threads that have been told to end
(`JoinIsAnswered`), which is the safety half of `MutexReleased`.

**RemoteConnection.**  Two invariants, one for each of the conditions.
`ConnectionInv` holds as long as none of the three calls comes early
(`~early`): the thread that runs is the one the handle is of (`HandleInv`), and
`connectionSocket` is its own and connected from the connection to the end
(`SocketInv`), so that nothing reads an uninitialised length and what is opened is
closed again by the thread that opened it (`SocketsReleased`, up to a reset between
FIONREAD and `recv`); it connects with
`identified` cleared (`IdentifiedInv`).  On top of it `RequestInv`, as long as each
transaction was waited for (`~hasty`): `TransactionInv` says how far the
transaction has come, with the three assignments of `setupTransaction` and the
time between sending and `indicateTransmission` as places of their own, and
`WireInv` that a connection carries, besides updates, at most this transaction's
request or its reply.  A request left behind by a connection that ended is not on
the next one's wire (`carrier # t`), which is why setting up another is safe then.
`TransmittedInv` adds that a request which is past its sending, over the connection
that is still alive, was taken by `send`: a send that fails clears `alive` first.
All of it ends at a crash (`ReadWild`), after which nothing happens.

Only model-checked: the liveness properties `RunsFinish`, `ClosedPeerDropped`,
`MutexReleased`, `DisconnectHonoured` and `RequestServed`, for which the prover
would need ENABLED.  Every invariant and action property of a passing run is
proved.  No module with theorems reaches a RECURSIVE operator.

## 6 Findings

Each has a run whose counterexample shows it.

* **`false_success`, `healthy_stopped`** (connection threads use freed
  transactions).  A wait's deadline of 500 ms starts before the thread's read
  timeout of 500 ms, and an update's deadline of 100 ms starts behind a read that
  may last 500 ms.  With a silent peer the wait ends first; the game frees the
  `ClientTransaction`, and the thread later marks it DONE and releases its
  semaphore.  If the cell has become another client's, that client "succeeds"
  without an answer (`TrueMeansFinished`).  Even with prompt peers only, line 124
  reads `responseSize` after line 123 has released the semaphore: the thread may
  find 0 and drop a healthy connection (`StoppedMeansClosed`).
* **`stale_reply`**.  Nothing discards a reply that missed its read: it is taken
  for the reply to the next request of its kind, and every later one is late by
  one (`GetsResponseToRequest`).
* **`player_number`**.  Clients are numbered as they are asked, players as they
  have answered: after a client that did not answer NEW_GAME, updates come
  under other numbers than the players were given.
* **`remove_client`**.  `removeClient` on a connected client destroys the queue
  and mutex before its thread is stopped.  No caller exists today;
  `removeAllInactiveClients` is safe (`TeardownSafe`).

## 7 What is not modelled

* Positions, angles, speeds, radii, rendering, logging.
* Connection and round-trip times are displayed only; of them the disconnection
  time is modelled (`disconnected`), because a snapshot must agree with it.  The log
  of round trips is pushed and popped by one thread while another walks it, with no
  lock in common: a walk over a container that changes may return anything, and a
  model could say no more than that.
* The bytes of packets: the codec is stubs; kinds and sizes are what matter.
* The wrap-around of the unsigned client id after 2^32 connections, and of
  hitpoints in the 8 and 16 bits they are sent in: a match has fewer.
* `Game::clear` (only the destructor calls it), `addBot` (prints a line).
* Exceptions of the socket library and allocation failure.
* In `Game`, transactions that fail for a slow client (they are in
  `Transactions`): a client that misses an update is outside `FoodViewExact`
  because the code never sends it again.
* In `RemoteConnection`: the result of `recv` kept in a `size_t`, whose test for a
  negative number is never true (the model takes the branches that can be taken);
  a send that blocks; the turns of the loop that takes states off a queue; two
  threads inside one queue of states at the same moment;
  the pause of 2 s after a failed connection, which is part of the step that
  fails.
* The codec has no behaviour to model: `amcom.c` is stubs.

## 8 Plan

Done: every component that has behaviour is modelled, with a type invariant,
safety properties, and liveness where the code gives reasons for it; everything
but the liveness properties is proved.

Next:

1. Shorter proofs for `TransactionsProofs`, with lemmas for steps that leave the
   cells alone, as `QuietStep` in `RemoteConnectionProofs`.
2. Weaker conditions for the theorems of `RemoteConnection`: what still holds once a
   call has come early.
3. `Game` over `RequestReply` instead of transactions of one step, so that a client
   that misses an update is in the model, with the views of the others unharmed.
