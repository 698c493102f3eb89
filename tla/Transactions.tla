---------------------------- MODULE Transactions ----------------------------
(***************************************************************************)
(* The request-reply exchange between the game thread and the connection   *)
(* threads: ConnectionClient, ClientTransaction (connection_client.cpp),   *)
(* Transaction (connection_transaction.h), Server::runTransaction and its  *)
(* single-client form, the AMCOM transactions' response store and the      *)
(* order in which Game::update runs its transactions.                      *)
(*                                                                         *)
(* One game thread starts one transaction ("run") at a time; every client  *)
(* has a thread that pops references to ClientTransaction objects, talks   *)
(* to its socket and releases a semaphore in the object.  The objects are  *)
(* nodes of a std::map owned by the game thread: it frees them after       *)
(* waitForFinish whether or not a connection thread still uses them, and   *)
(* the allocator may hand the same cell out again.                         *)
(***************************************************************************)
EXTENDS Naturals, FiniteSets, SequencesExt

CONSTANTS
  Clients,        \* ids of the connected clients (keys of Server::clients)
  SlowClients,    \* clients whose peer may answer, or take data, after a
                  \* deadline, or never
  SplitClients,   \* clients whose reply may reach read() in two parts
  LossyClients,   \* clients whose peer may close the connection
  Cells,          \* heap cells for ClientTransaction objects
  None,           \* no cell
  Window,         \* requests a connection holds for a peer that takes none
  MaxRuns,        \* bound: number of transactions the game runs
  MaxQueue,       \* bound: references queued for a client when a run starts
  Recycle         \* TRUE: run numbers wrap, so that the game never ends,
                  \* until a wait ends early

ASSUME ClientsAssumption ==
  /\ Clients \subseteq Nat \ {0}
  /\ IsFiniteSet(Clients)
  /\ SlowClients \subseteq Clients
  /\ SplitClients \subseteq Clients
  /\ LossyClients \subseteq Clients

ASSUME CellsAssumption ==
  /\ None \notin Cells
  /\ IsFiniteSet(Cells)
  /\ Cardinality(Cells) >= Cardinality(Clients)

ASSUME BoundsAssumption ==
  /\ {MaxRuns, MaxQueue} \subseteq Nat
  /\ MaxRuns > Cardinality(Clients)
  /\ Window \in Nat \ {0}
  /\ Recycle \in BOOLEAN

VARIABLES
  gpc,        \* where the game thread is
  kind,       \* kind of the current, or last, transaction
  run,        \* its number
  asked,      \* clients that were sent NEW_GAME.request
  todo,       \* clients the loop of the game thread still has to visit
  slot,       \* Transaction::clientTransactions: client -> cell, or None
  succeeded,  \* clients counted by waitForFinish
  responses,  \* AMCOMTransaction::responses: the run the saved reply answers
  players,    \* Game::players
  tpc,        \* where each connection thread is
  cur,        \* the ClientTransaction& each connection thread holds
  queue,      \* ConnectionClient::transactions
  active,     \* ConnectionClient::active
  state,      \* ClientTransaction::state, or "FREED"
  expects,    \* ClientTransaction::responseSize, "NOTHING" standing for 0
  ask,        \* number of the run whose request the cell refers to
  signal,     \* ClientTransaction::endOfTransactionSignal
  peer,       \* the remote end of each socket
  requests,   \* requests the peer has not answered yet
  inbox,      \* replies in the receive buffer of the socket
  overdue,    \* history: clients waited for in vain while their thread was
              \* still using the transaction
  unread      \* history: clients whose reply missed the read meant for it

game    == <<gpc, kind, run, asked, todo, players>>
results == <<succeeded, responses>>
threads == <<tpc, cur, active>>
cells   == <<state, expects, ask, signal>>
net     == <<peer, requests, inbox>>
history == <<overdue, unread>>
vars    == <<game, slot, results, threads, queue, cells, net, history>>

Replied  == {"NEW_GAME", "MOVE", "GAME_OVER"}
Kinds    == Replied \cup {"UPDATE"}
Expected == Replied \cup {"NOTHING"}
States   == {"IDLE", "SCHEDULED", "WAITING", "DONE", "TIMEOUT", "FREED"}
Runs     == 1 .. MaxRuns
Request  == [kind : Replied, run : Runs]
Reply    == [kind : Replied, run : Runs, part : {"WHOLE", "REST"}]
GamePC   == {"idle", "emplace", "submit", "wait"}
ThreadPC == {"POLL", "CHECK", "READ", "SIGNAL_STOP", "SIGNAL_SIZE",
             "SIGNAL_DONE", "SIZE", "STOPPED", "EXITED"}

TypeOK ==
  /\ gpc \in GamePC
  /\ kind \in Kinds
  /\ run \in 0 .. MaxRuns
  /\ asked \subseteq Clients
  /\ todo \subseteq Clients
  /\ players \subseteq Clients
  /\ slot \in [Clients -> Cells \cup {None}]
  /\ succeeded \subseteq Clients
  /\ responses \in [Clients -> 0 .. MaxRuns]
  /\ tpc \in [Clients -> ThreadPC]
  /\ cur \in [Clients -> Cells \cup {None}]
  /\ queue \in [Clients -> Seq(Cells)]
  /\ active \in [Clients -> BOOLEAN]
  /\ state \in [Cells -> States]
  /\ expects \in [Cells -> Expected]
  /\ ask \in [Cells -> 0 .. MaxRuns]
  /\ signal \in [Cells -> {0, 1}]
  /\ peer \in [Clients -> {"open", "closed", "reset"}]
  /\ requests \in [Clients -> Seq(Request)]
  /\ inbox \in [Clients -> Seq(Reply)]
  /\ overdue \subseteq Clients
  /\ unread \subseteq Clients

Init ==
  /\ gpc = "idle"
  /\ kind = "NEW_GAME"
  /\ run = 0
  /\ asked = {}
  /\ todo = {}
  /\ players = {}
  /\ slot = [c \in Clients |-> None]
  /\ succeeded = {}
  /\ responses = [c \in Clients |-> 0]
  /\ tpc = [c \in Clients |-> "POLL"]
  /\ cur = [c \in Clients |-> None]
  /\ queue = [c \in Clients |-> <<>>]
  /\ active = [c \in Clients |-> TRUE]
  /\ state = [a \in Cells |-> "FREED"]
  /\ expects = [a \in Cells |-> "NOTHING"]
  /\ ask = [a \in Cells |-> 0]
  /\ signal = [a \in Cells |-> 0]
  /\ peer = [c \in Clients |-> "open"]
  /\ requests = [c \in Clients |-> <<>>]
  /\ inbox = [c \in Clients |-> <<>>]
  /\ overdue = {}
  /\ unread = {}

(***************************************************************************)
(* Helpers.                                                                *)
(***************************************************************************)

\* A std::map is walked in the order of its keys.
IsFirst(c) == c \in todo /\ \A d \in todo : c <= d

\* Mutant: a reply to an UPDATE is expected as well.
ResponseSizeOfAll(k) == k

\* responseSize given to the constructor: only an AMCOMTransaction has one.
ResponseSize(k) == IF k = "UPDATE" THEN "NOTHING" ELSE k

\* The thread has left, or is about to leave, its loop.
Stopping(c) == tpc[c] \in {"STOPPED", "EXITED"}

\* The cells connection thread c is going to write, or to read before it
\* writes them for the last time: it does so when it releases the semaphore.
\* The look at responseSize that follows (SIZE) is not counted.
Held(c) ==
  IF Stopping(c) THEN {}
  ELSE ToSet(queue[c]) \cup
       (IF tpc[c] \in {"POLL", "SIZE"} THEN {} ELSE {cur[c]})

\* A write to a cell that was freed has no effect a later owner can see: the
\* constructor overwrites it.
Put(f, a, v) == IF state[a] = "FREED" THEN f ELSE [f EXCEPT ![a] = v]

(***************************************************************************)
(* The game thread.                                                        *)
(***************************************************************************)

\* The run after run n.  When run numbers are recycled, the numbers of the
\* NEW_GAME runs are not used again.
NextRun(n) == IF n < MaxRuns THEN n + 1 ELSE Cardinality(Clients) + 1

\* The bounds.  (A queue has none in the code: it grows while a thread is in a
\* write that blocks.  That of a thread that has ended gets one more at most.)
MayStart ==
  /\ run < MaxRuns \/ (Recycle /\ overdue = {})
  /\ \A c \in Clients : Len(queue[c]) <= MaxQueue \/ tpc[c] = "EXITED"

\* Game::update: NEW_GAME.request to one client after the other ...
StartNewGame(c) ==
  /\ gpc = "idle"
  /\ MayStart
  /\ c \in Clients \ asked
  /\ \A d \in Clients \ asked : c <= d
  /\ asked' = asked \cup {c}
  /\ kind' = "NEW_GAME"
  /\ run' = NextRun(run)
  /\ todo' = {c}
  /\ gpc' = "emplace"
  /\ UNCHANGED <<players, slot, results, threads, queue, cells, net, history>>

\* ... then FOOD_UPDATE and PLAYER_UPDATE requests (none when there is no
\* player, hence neither food) and MOVE requests, to all clients, and in the end
\* one GAME_OVER.request: the server admits no more players than fit in one.
StartBroadcast(k) ==
  /\ gpc = "idle"
  /\ MayStart
  /\ asked = Clients
  /\ kind # "GAME_OVER"
  /\ k \in {"UPDATE", "GAME_OVER"} => players # {}
  /\ k = "MOVE" => kind = "UPDATE" \/ players = {}
  /\ kind' = k
  /\ run' = NextRun(run)
  /\ todo' = Clients
  /\ gpc' = "emplace"
  /\ UNCHANGED <<asked, players, slot, results, threads, queue, cells, net,
                 history>>

\* Server::runTransaction: a client that is not active is passed over ...
SkipInactive(c) ==
  /\ gpc = "emplace"
  /\ IsFirst(c)
  /\ ~active[c]
  /\ todo' = todo \ {c}
  /\ UNCHANGED <<gpc, kind, run, asked, players, slot, results, threads, queue,
                 cells, net, history>>

\* ... and for an active one a ClientTransaction is constructed in the map.
Emplace(c) ==
  /\ gpc = "emplace"
  /\ IsFirst(c)
  /\ active[c]
  /\ \E a \in Cells :
       /\ state[a] = "FREED"
       /\ slot' = [slot EXCEPT ![c] = a]
       /\ state' = [state EXCEPT ![a] = "IDLE"]
       /\ expects' = [expects EXCEPT ![a] = ResponseSize(kind)]
       /\ ask' = [ask EXCEPT ![a] = run]
       /\ signal' = [signal EXCEPT ![a] = 0]
  /\ gpc' = "submit"
  /\ UNCHANGED <<kind, run, asked, todo, players, results, threads, queue, net,
                 history>>

\* ConnectionClient::runTransaction, which looks at active again.
Submit(c) ==
  /\ gpc = "submit"
  /\ IsFirst(c)
  /\ IF active[c]
       THEN /\ state' = [state EXCEPT ![slot[c]] = "SCHEDULED"]
            /\ queue' = [queue EXCEPT ![c] = Append(@, slot[c])]
       ELSE UNCHANGED <<state, queue>>
  /\ todo' = todo \ {c}
  /\ gpc' = "emplace"
  /\ UNCHANGED <<kind, run, asked, players, slot, results, threads, expects,
                 ask, signal, net, history>>

\* Mutant: an UPDATE, which has no reply, is not waited for.
WaitedForReplies == {c \in Clients : slot[c] # None /\ kind # "UPDATE"}

WaitedFor == {c \in Clients : slot[c] # None}

\* Transaction::waitForFinish takes the time and walks clientTransactions.
StartWait ==
  /\ gpc = "emplace"
  /\ todo = {}
  /\ todo' = WaitedFor
  /\ gpc' = "wait"
  /\ UNCHANGED <<kind, run, asked, players, slot, results, threads, queue,
                 cells, net, history>>

\* Mutant: the state is not looked at after the semaphore was acquired.
SuccessfulAnyway(a) == TRUE

Successful(a) == state[a] = "DONE"

\* ClientTransaction::waitUntil acquires the semaphore.
WaitAcquire(c) ==
  /\ gpc = "wait"
  /\ IsFirst(c)
  /\ signal[slot[c]] = 1
  /\ signal' = [signal EXCEPT ![slot[c]] = 0]
  /\ succeeded' = IF Successful(slot[c]) THEN succeeded \cup {c}
                  ELSE succeeded
  /\ todo' = todo \ {c}
  /\ UNCHANGED <<gpc, kind, run, asked, players, slot, responses, threads,
                 queue, state, expects, ask, net, history>>

\* Mutant: acquire() without a deadline.
DeadlineNeverPasses(c) == FALSE

\* The deadline of a wait can pass before thread c releases the semaphore.
\* The deadlines are 100 ms and 500 ms and a poll is 10 ms: only the read, of up
\* to 500 ms, and the write, which has no timeout, take so long, with a slow
\* peer, and the thread may be anywhere when the deadline passes.  A thread that
\* has ended lets every deadline pass.
DeadlinePasses(c) ==
  \/ c \in SlowClients
  \/ slot[c] \notin Held(c) /\ tpc[c] # "STOPPED"

\* ClientTransaction::waitUntil gives up.
WaitExpire(c) ==
  /\ gpc = "wait"
  /\ IsFirst(c)
  /\ signal[slot[c]] = 0
  /\ DeadlinePasses(c)
  /\ overdue' = IF slot[c] \in Held(c) THEN overdue \cup {c} ELSE overdue
  /\ todo' = todo \ {c}
  /\ UNCHANGED <<gpc, kind, run, asked, players, slot, results, threads, queue,
                 cells, net, unread>>

\* Mutant: the transaction object is kept for the next run: reset() clears
\* clientTransactions but not responses.
ResponsesKept == responses

\* Each run has an object of its own.
NoResponses == [c \in Clients |-> 0]

\* The game has used the result; the Transaction object goes out of scope, or
\* is reset by the next run, and its ClientTransactions are freed.
Finish ==
  /\ gpc = "wait"
  /\ todo = {}
  /\ players' = IF kind = "NEW_GAME" THEN players \cup succeeded ELSE players
  /\ slot' = [c \in Clients |-> None]
  /\ state' = [a \in Cells |-> "FREED"]
  /\ succeeded' = {}
  /\ responses' = NoResponses
  /\ gpc' = "idle"
  /\ UNCHANGED <<kind, run, asked, todo, threads, queue, expects, ask, signal,
                 net, history>>

(***************************************************************************)
(* A connection thread: clientThreadFunc.                                  *)
(***************************************************************************)

\* The reference to the transaction goes out of scope.
LeaveScope(c, l) ==
  /\ cur' = [cur EXCEPT ![c] = None]
  /\ tpc' = [tpc EXCEPT ![c] = l]

\* Mutant: front() without pop_front().
NotPopped(q) == q

Popped(q) == Tail(q)

\* The front of the queue is taken under transactionsMutex.
Pop(c) ==
  /\ tpc[c] = "POLL"
  /\ queue[c] # <<>>
  /\ cur' = [cur EXCEPT ![c] = Head(queue[c])]
  /\ queue' = [queue EXCEPT ![c] = Popped(@)]
  /\ tpc' = [tpc EXCEPT ![c] = "CHECK"]
  /\ UNCHANGED <<game, slot, results, active, cells, net, history>>

\* SCHEDULED == transaction.state does not hold: only a cell that was freed
\* or constructed again can be in another state.
Skip(c) ==
  /\ tpc[c] = "CHECK"
  /\ state[cur[c]] # "SCHEDULED"
  /\ LeaveScope(c, "POLL")
  /\ UNCHANGED <<game, slot, results, queue, active, cells, net, history>>

\* The state is SCHEDULED, or is read as such from a cell that was freed.
Runnable(c) ==
  /\ tpc[c] = "CHECK"
  /\ state[cur[c]] \in {"SCHEDULED", "FREED"}

\* write_n fails: the peer has reset the connection.
WriteFails(c) ==
  /\ Runnable(c)
  /\ peer[c] = "reset"
  /\ state' = Put(state, cur[c], "TIMEOUT")
  /\ tpc' = [tpc EXCEPT ![c] = "SIGNAL_STOP"]
  /\ UNCHANGED <<game, slot, results, cur, queue, active, expects, ask, signal,
                 net, history>>

\* write_n succeeds, on a connection the peer has closed as well: its answer
\* to the data is a reset.  It blocks, without a timeout, while the peer is
\* there and takes nothing out of a full buffer.
Sent(c) ==
  /\ Runnable(c)
  /\ peer[c] # "reset"
  /\ peer[c] = "open" => Len(requests[c]) < Window
  /\ peer' = [peer EXCEPT ![c] = IF @ = "closed" THEN "reset" ELSE @]

\* A request that needs no reply is done once it is written.
WriteUpdate(c) ==
  /\ Sent(c)
  /\ expects[cur[c]] = "NOTHING"
  /\ state' = Put(state, cur[c], "DONE")
  /\ tpc' = [tpc EXCEPT ![c] = "SIGNAL_DONE"]
  /\ UNCHANGED <<game, slot, results, cur, queue, active, expects, ask, signal,
                 requests, inbox, history>>

WriteRequest(c) ==
  /\ Sent(c)
  /\ expects[cur[c]] # "NOTHING"
  /\ state' = Put(state, cur[c], "WAITING")
  /\ tpc' = [tpc EXCEPT ![c] = "READ"]
  /\ requests' = IF peer[c] = "open"
                 THEN [requests EXCEPT ![c] = Append(@,
                         [kind |-> expects[cur[c]], run |-> ask[cur[c]]])]
                 ELSE requests
  /\ UNCHANGED <<game, slot, results, cur, queue, active, expects, ask, signal,
                 inbox, history>>

\* Mutant: DONE is never set.
AfterReadFails(c, s) ==
  /\ state' = Put(state, cur[c], IF s = "DONE" THEN "WAITING" ELSE s)
  /\ tpc' = [tpc EXCEPT ![c] = "SIGNAL_SIZE"]

\* The end of the read, whatever it returned: the state is set, and the
\* semaphore is released next.
AfterRead(c, s) ==
  /\ state' = Put(state, cur[c], s)
  /\ tpc' = [tpc EXCEPT ![c] = "SIGNAL_SIZE"]

\* The bytes read are the whole of a packet of the expected kind.
WholeReply(c) ==
  /\ Head(inbox[c]).part = "WHOLE"
  /\ Head(inbox[c]).kind = expects[cur[c]]

\* They are the second part of an earlier reply and nothing else.
OnlyRest(c) == Head(inbox[c]).part = "REST" /\ Len(inbox[c]) = 1

\* Bytes of a reply, header included.
ReplySize(k) == IF k = "MOVE" THEN 9 ELSE 132

\* They are late replies to MOVE.request, too short for the reply that is
\* expected now.
OnlyMoves(c) ==
  /\ expects[cur[c]] \in Replied \ {"MOVE"}
  /\ \A i \in 1 .. Len(inbox[c]) : inbox[c][i].kind = "MOVE"
  /\ ReplySize("MOVE") * Len(inbox[c]) < ReplySize(expects[cur[c]])

\* read returns responseSize bytes and the validator accepts them:
\* saveResponse emplaces the payload, which keeps a value already there.
ReadValid(c) ==
  /\ tpc[c] = "READ"
  /\ inbox[c] # <<>>
  /\ WholeReply(c)
  /\ AfterRead(c, "DONE")
  /\ responses' = IF state[cur[c]] # "FREED" /\ responses[c] = 0
                  THEN [responses EXCEPT ![c] = Head(inbox[c]).run]
                  ELSE responses
  /\ inbox' = [inbox EXCEPT ![c] = Tail(@)]
  /\ UNCHANGED <<game, slot, succeeded, cur, queue, active, expects, ask,
                 signal, peer, requests, history>>

\* read returns responseSize bytes that are no packet of the expected kind:
\* the start of another one, or the rest of one with more behind it.
ReadInvalid(c) ==
  /\ tpc[c] = "READ"
  /\ inbox[c] # <<>>
  /\ ~WholeReply(c)
  /\ ~(OnlyRest(c) /\ Head(inbox[c]).kind = expects[cur[c]])
  /\ ~OnlyMoves(c)
  /\ expects[cur[c]] # "NOTHING"
  /\ AfterRead(c, "TIMEOUT")
  /\ expects' = Put(expects, cur[c], "NOTHING")
  /\ inbox' = [inbox EXCEPT ![c] = Tail(@)]
  /\ UNCHANGED <<game, slot, results, cur, queue, active, ask, signal, peer,
                 requests, history>>

\* read returns another number of bytes than responseSize: all there is is
\* less, or responseSize is now that of a later owner of the cell.
ReadShort(c) ==
  /\ tpc[c] = "READ"
  /\ inbox[c] # <<>>
  /\ OnlyRest(c) \/ OnlyMoves(c) \/ expects[cur[c]] = "NOTHING"
  /\ AfterRead(c, "TIMEOUT")
  /\ inbox' = [inbox EXCEPT ![c] = IF OnlyMoves(c) THEN <<>> ELSE Tail(@)]
  /\ unread' = unread \cup {c}
  /\ UNCHANGED <<game, slot, results, cur, queue, active, expects, ask, signal,
                 peer, requests, overdue>>

\* read (it is not read_n) returns the first part of the reply; the rest
\* arrives later.
ReadPart(c) ==
  /\ tpc[c] = "READ"
  /\ c \in SplitClients
  /\ inbox[c] # <<>>
  /\ WholeReply(c)
  /\ AfterRead(c, "TIMEOUT")
  /\ inbox' = [inbox EXCEPT ![c] = <<[Head(@) EXCEPT !.part = "REST"]>> \o Tail(@)]
  /\ unread' = unread \cup {c}
  /\ UNCHANGED <<game, slot, results, cur, queue, active, expects, ask, signal,
                 peer, requests, overdue>>

\* The read timeout of 500 ms passes.
ReadTimeout(c) ==
  /\ tpc[c] = "READ"
  /\ c \in SlowClients
  /\ inbox[c] = <<>>
  /\ peer[c] = "open"
  /\ AfterRead(c, "TIMEOUT")
  /\ unread' = unread \cup {c}
  /\ UNCHANGED <<game, slot, results, cur, queue, active, expects, ask, signal,
                 net, overdue>>

\* read returns 0, or an error, at the end of the stream.
ReadClosed(c) ==
  /\ tpc[c] = "READ"
  /\ peer[c] # "open"
  /\ inbox[c] = <<>> \/ peer[c] = "reset"
  /\ AfterRead(c, "TIMEOUT")
  /\ UNCHANGED <<game, slot, results, cur, queue, active, expects, ask, signal,
                 net, history>>

\* Mutant: after a failed write the code after the read is run as well.
FailedWriteGoesOn(c) == tpc' = [tpc EXCEPT ![c] = "SIGNAL_SIZE"] /\ UNCHANGED cur

\* Mutant: no request_stop() after a failed write.
FailedWritePolls(c) == LeaveScope(c, "POLL")

AfterFailedWrite(c) == LeaveScope(c, "STOPPED")

\* endOfTransactionSignal.release(); after a failed write, request_stop().
Release(c) ==
  /\ \/ tpc[c] = "SIGNAL_STOP" /\ AfterFailedWrite(c)
     \/ tpc[c] = "SIGNAL_DONE" /\ LeaveScope(c, "POLL")
     \/ tpc[c] = "SIGNAL_SIZE" /\ tpc' = [tpc EXCEPT ![c] = "SIZE"]
                               /\ UNCHANGED cur
  /\ signal' = Put(signal, cur[c], 1)
  /\ UNCHANGED <<game, slot, results, queue, active, state, expects, ask, net,
                 history>>

\* if (transaction.responseSize == 0), after the release.  Of a cell that was
\* freed any value may be read.
SizeIsZero(c) ==
  /\ tpc[c] = "SIZE"
  /\ expects[cur[c]] = "NOTHING" \/ state[cur[c]] = "FREED"
  /\ LeaveScope(c, "STOPPED")
  /\ UNCHANGED <<game, slot, results, queue, active, cells, net, history>>

SizeIsPositive(c) ==
  /\ tpc[c] = "SIZE"
  /\ expects[cur[c]] # "NOTHING" \/ state[cur[c]] = "FREED"
  /\ LeaveScope(c, "POLL")
  /\ UNCHANGED <<game, slot, results, queue, active, cells, net, history>>

\* The loop ends; the socket is closed with the thread's stack.
Exit(c) ==
  /\ tpc[c] = "STOPPED"
  /\ active' = [active EXCEPT ![c] = FALSE]
  /\ tpc' = [tpc EXCEPT ![c] = "EXITED"]
  /\ UNCHANGED <<game, slot, results, cur, queue, cells, net, history>>

(***************************************************************************)
(* The peers.                                                              *)
(***************************************************************************)

\* The peer answers its requests in order.
Answer(c) ==
  /\ peer[c] = "open"
  /\ requests[c] # <<>>
  /\ requests' = [requests EXCEPT ![c] = Tail(@)]
  /\ inbox' = [inbox EXCEPT ![c] = Append(@,
       [kind |-> Head(requests[c]).kind, run |-> Head(requests[c]).run,
        part |-> "WHOLE"])]
  /\ UNCHANGED <<game, slot, results, threads, queue, cells, peer, history>>

\* It goes away; what it has not answered it never will.
Close(c) ==
  /\ c \in LossyClients
  /\ peer[c] = "open"
  /\ peer' = [peer EXCEPT ![c] = "closed"]
  /\ requests' = [requests EXCEPT ![c] = <<>>]
  /\ UNCHANGED <<game, slot, results, threads, queue, cells, inbox, history>>

Game(c) ==
  \/ StartNewGame(c) \/ SkipInactive(c) \/ Emplace(c) \/ Submit(c)
  \/ WaitAcquire(c) \/ WaitExpire(c)

Read(c) ==
  \/ ReadValid(c) \/ ReadInvalid(c) \/ ReadShort(c)
  \/ ReadPart(c) \/ ReadTimeout(c) \/ ReadClosed(c)

Thread(c) ==
  \/ Pop(c) \/ Skip(c)
  \/ WriteFails(c) \/ WriteUpdate(c) \/ WriteRequest(c)
  \/ Read(c)
  \/ Release(c) \/ SizeIsZero(c) \/ SizeIsPositive(c) \/ Exit(c)

Next ==
  \/ \E c \in Clients : Game(c) \/ Thread(c) \/ Answer(c) \/ Close(c)
  \/ \E k \in Kinds \ {"NEW_GAME"} : StartBroadcast(k)
  \/ StartWait
  \/ Finish

Spec == Init /\ [][Next]_vars

\* The threads are scheduled, and deadlines and read timeouts pass.  Of a slow
\* client's peer nothing is assumed: a write to it may block for ever.  The
\* others, while they are there, answer.
Fairness ==
  /\ WF_vars(\E k \in {"UPDATE", "MOVE"} : StartBroadcast(k))
  /\ WF_vars(StartWait)
  /\ WF_vars(Finish)
  /\ \A c \in Clients :
       /\ WF_vars(Game(c))
       /\ WF_vars(Thread(c) /\ (tpc[c] = "CHECK" => c \notin SlowClients))
  /\ \A c \in Clients \ SlowClients : WF_vars(Answer(c))

FairSpec == Spec /\ Fairness

(***************************************************************************)
(* Properties.                                                             *)
(***************************************************************************)

\* The results of a run are complete: the game is about to use them.
Waited == gpc = "wait" /\ todo = {}

\* As long as no wait has ended before the thread waited for was done, a
\* connection thread writes to no ClientTransaction but the one the current
\* run made for its own client (clientThreadFunc keeps a reference that
\* Transaction::reset and the destructor do not know of).  Nothing of the kind
\* holds for its read of responseSize after the release: StoppedMeansClosed.
WritesOwnTransaction ==
  overdue = {} => \A c \in Clients : Held(c) \subseteq {slot[c]} \ {None}

\* The binary semaphore is never released twice: that is undefined behaviour.
SignalledOnce ==
  overdue = {} =>
    \A c \in Clients :
      tpc[c] \in {"SIGNAL_STOP", "SIGNAL_SIZE", "SIGNAL_DONE"} =>
        signal[cur[c]] = 0

\* A client counted by waitForFinish has answered, if an answer was asked
\* for: Game::update creates a Player from that answer.
SuccessMeansAnswered ==
  overdue = {} /\ kind # "UPDATE" =>
    \A c \in succeeded : responses[c] # 0

\* The reply saved for a client answers the request of this very run, unless
\* an earlier reply of that client missed its read.
ReplyMatchesRequest ==
  overdue = {} =>
    \A c \in Clients \ unread : responses[c] \in {0, run}

\* A client whose peer is there and prompt is never counted as failed, as
\* long as its thread runs.
PromptClientSucceeds ==
  Waited /\ overdue = {} =>
    \A c \in Clients \ (SlowClients \cup SplitClients) :
      slot[c] # None /\ peer[c] = "open" /\ ~Stopping(c) => c \in succeeded

\* Violated (connection_client.h:67 "Gets the response to the request."): the
\* reply saved for a client answers the request of this very run, as long as
\* every thread was done when its wait ended.
GetsResponseToRequest ==
  overdue = {} => \A c \in Clients : responses[c] \in {0, run}

\* Violated (connection_client.h:53 "true if the transaction has successfully
\* finished"): a client counted by waitForFinish has answered.
TrueMeansFinished ==
  kind # "UPDATE" => \A c \in succeeded : responses[c] # 0

\* Violated (connection_client.cpp:125 "this means that the socket was closed"):
\* a connection thread is stopped only when the peer has gone.
StoppedMeansClosed == \A c \in Clients : Stopping(c) => peer[c] # "open"

\* A run always ends: no waitUntil blocks the game for ever, whatever a silent
\* peer, or one that takes no data, and its thread do.
RunsFinish == gpc # "idle" ~> gpc = "idle"

\* Until the game is over, a connection its peer has closed is given up,
\* however slow the other clients are, unless a wait has ended before the thread
\* it was for: that thread may then finish, again and again, what this client's
\* was going to write.
ClosedPeerDropped ==
  \A c \in Clients \ SlowClients :
    peer[c] # "open" ~> ~active[c] \/ kind = "GAME_OVER" \/ overdue # {}

(***************************************************************************)
(* The refinement of RequestReply.                                         *)
(***************************************************************************)

Phase == CASE gpc = "idle" -> "idle"
           [] gpc = "wait" -> "waiting"
           [] OTHER        -> "asking"

Asked  == {c \in Clients : slot[c] # None}
Served == {c \in Asked : state[slot[c]] = "DONE"}
Judged == IF gpc = "wait" THEN Asked \ todo ELSE {}

Abstract == INSTANCE RequestReply WITH
  phase <- Phase, asked <- Asked, served <- Served, judged <- Judged,
  counted <- succeeded

\* As long as every peer is prompt, the exchange keeps what RequestReply
\* promises: exactly the clients that were served are counted, each once, and
\* nothing of a run is left over for the next one (Server::runTransaction,
\* Transaction::waitForFinish and reset).
ImplementsRequestReply == Abstract!Spec

\* With slow peers it keeps that promise until a wait ends before the thread it
\* waits for is done: every step before that one is a step of RequestReply.
ImplementsWhileTimely ==
  Abstract!Init /\ [][overdue' = {} => Abstract!Next]_(Abstract!vars)
=============================================================================
