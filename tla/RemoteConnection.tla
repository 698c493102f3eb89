-------------------------- MODULE RemoteConnection --------------------------
(***************************************************************************)
(* RemoteConnection and RemoteConnectionTransaction (remote_connection.h,  *)
(* remote_connection.cpp): one caller hands one request at a time to the   *)
(* connection thread, through fields that no lock guards.                  *)
(*                                                                         *)
(* connectPlayer starts a thread; disconnectPlayer asks it to end;         *)
(* waitForDisconnection waits up to 3 s for its end and then forgets it,   *)
(* so that connectPlayer may start another one on the same object.  The    *)
(* thread and the socket of the t-th call of connectPlayer are both t.     *)
(***************************************************************************)
EXTENDS Naturals, Sequences, FiniteSets

CONSTANTS
  MaxThreads,    \* bound: calls of connectPlayer
  MaxRequests,   \* bound: transactions the caller sets up ...
  MaxEarly,      \* bound: ... if any of its other calls comes early
  Requests,      \* kinds of request the caller makes
  MaxUpdates,    \* AMCOM_MAX_PLAYER_UPDATES, AMCOM_MAX_FOOD_UPDATES
  MaxStates      \* bound: states waiting in a queue

Updates   == {"PLAYER_UPDATE", "FOOD_UPDATE"}
Confirmed == {"IDENTIFY", "NEW_GAME", "MOVE"}

ASSUME ConstantsAssumption ==
  /\ {MaxThreads, MaxRequests, MaxEarly, MaxStates} \subseteq Nat
  /\ MaxEarly <= MaxRequests
  /\ MaxUpdates \in Nat \ {0}
  /\ Requests \subseteq Updates \cup Confirmed

VARIABLES
  caller,        \* where the caller's thread is
  handle,        \* connectionThreadHandle
  alive,         \* RemoteConnection::alive
  identified,    \* RemoteConnection::identified
  angle,         \* moveAngle: the transaction whose reply it was set by
  socket,        \* connectionSocket, 0 standing for INVALID_SOCKET
  request,       \* RemoteConnectionTransaction::request
  confirmation,  \* RemoteConnectionTransaction::confirmation
  state,         \* RemoteConnectionTransaction::state
  queued,        \* lengths of the queues of player and food states
  pc,            \* where each connection thread is
  opened,        \* the state of each socket
  peer,          \* the remote end of each socket
  requests,      \* requests the peer has not taken yet
  inbox,         \* replies in the receive buffer of each socket
  number,        \* history: number of the transaction set up last
  carrier,       \* history: connection it was set up, or sent, on
  tried,         \* history: how often the sending of each was tried
  transmitted,   \* history: transactions that send has taken
  answered,      \* history: transactions a reply was received to
  greeted,       \* history: connections with an IDENTIFY.response
  hasty,         \* history: one was set up before the last was finished
  early          \* history: connectPlayer, disconnectPlayer or
                 \* waitForDisconnection was called before its time

call == <<caller, handle>>
tx   == <<request, confirmation, state>>
data == <<identified, angle, tx, queued>>
wire == <<peer, requests, inbox>>
log  == <<number, carrier, tried, transmitted, answered, greeted>>
past == <<log, hasty, early>>
vars == <<call, alive, data, socket, pc, opened, wire, past>>

Threads == 1 .. MaxThreads
Numbers == 1 .. MaxRequests
Message == [kind : Updates \cup Confirmed, number : Numbers,
            states : 0 .. MaxUpdates]

TypeOK ==
  /\ caller \in {"free", "confirmation", "state", "wait", "crashed"}
  /\ handle \in {0} \cup Threads
  /\ alive \in BOOLEAN
  /\ identified \in BOOLEAN
  /\ angle \in {0} \cup Numbers
  /\ socket \in {0} \cup Threads
  /\ request \in Updates \cup Confirmed \cup {"NO_PACKET"}
  /\ confirmation \in Confirmed \cup {"NO_PACKET"}
  /\ state \in {"IDLE", "REQUEST_TO_SEND", "AWAITING", "FINISHED"}
  /\ queued \in [Updates -> 0 .. MaxStates]
  /\ pc \in [Threads -> {"none", "resolve", "connect", "mark", "loop",
                         "indicate", "receive", "shutdown", "drain", "ended",
                         "crashed"}]
  /\ opened \in [Threads -> {"no", "open", "connected", "closed"}]
  /\ peer \in [Threads -> {"open", "closed", "reset"}]
  /\ requests \in [Threads -> Seq(Message)]
  /\ inbox \in [Threads -> Seq(Message)]
  /\ number \in {0} \cup Numbers
  /\ carrier \in {0} \cup Threads
  /\ tried \in [Numbers -> Nat]
  /\ transmitted \subseteq Numbers
  /\ answered \subseteq Numbers
  /\ greeted \subseteq Threads
  /\ hasty \in BOOLEAN
  /\ early \in BOOLEAN

Init ==
  /\ caller = "free"
  /\ handle = 0
  /\ alive = FALSE
  /\ identified = FALSE
  /\ angle = 0
  /\ socket = 0
  /\ request = "NO_PACKET"
  /\ confirmation = "NO_PACKET"
  /\ state = "IDLE"
  /\ queued = [k \in Updates |-> 0]
  /\ pc = [t \in Threads |-> "none"]
  /\ opened = [t \in Threads |-> "no"]
  /\ peer = [t \in Threads |-> "open"]
  /\ requests = [t \in Threads |-> <<>>]
  /\ inbox = [t \in Threads |-> <<>>]
  /\ number = 0
  /\ carrier = 0
  /\ tried = [n \in Numbers |-> 0]
  /\ transmitted = {}
  /\ answered = {}
  /\ greeted = {}
  /\ hasty = FALSE
  /\ early = FALSE

(***************************************************************************)
(* The caller.                                                             *)
(***************************************************************************)

\* The thread is on its way to a connection.
Connecting(t) == pc[t] \in {"resolve", "connect", "mark"}
InLoop(t)     == pc[t] \in {"loop", "indicate", "receive"}
Running(t)    == Connecting(t) \/ InLoop(t) \/ pc[t] \in {"shutdown", "drain"}

\* Bound: a call comes early only before many transactions.
EarlyBound == early' => number <= MaxEarly

\* Mutant: what the last connection left behind is kept.
IdentifiedOnConnect == identified

IdentifiedWhenConnecting == FALSE

\* It may be called before the thread of the last call has been waited for,
\* and is then early.
ConnectPlayer(t) ==
  /\ caller = "free"
  /\ pc[t] = "none"
  /\ \A u \in 1 .. t - 1 : pc[u] # "none"
  /\ alive' = FALSE
  /\ identified' = IdentifiedWhenConnecting
  /\ handle' = t
  /\ pc' = [pc EXCEPT ![t] = "resolve"]
  /\ early' = (early \/ handle # 0)
  /\ EarlyBound
  /\ UNCHANGED <<caller, angle, socket, tx, queued, opened, wire, log, hasty>>

\* It is early while the connection is not made: the thread sets alive again.
DisconnectPlayer ==
  /\ caller = "free"
  /\ alive' = FALSE
  /\ identified' = FALSE
  /\ early' = (early \/ \E t \in Threads : t = handle /\ Connecting(t))
  /\ EarlyBound
  /\ UNCHANGED <<call, angle, socket, tx, queued, pc, opened, wire, log,
                 hasty>>

\* waitForDisconnection, early where nothing has asked the thread to end ...
WaitForDisconnection ==
  /\ caller = "free"
  /\ handle # 0
  /\ caller' = "wait"
  /\ early' = (early \/ alive \/ Connecting(handle))
  /\ EarlyBound
  /\ UNCHANGED <<handle, alive, data, socket, pc, opened, wire, log, hasty>>

\* Mutant: the thread is given no time to end.
WaitOverAtOnce == TRUE

\* ... ends with the thread, or after 3 s: connecting may take longer, and a
\* thread that finds alive set again goes on; leaving the loop and the pause of
\* 2 s that the thread ends with do not.
WaitOver ==
  \/ pc[handle] = "ended"
  \/ Connecting(handle)
  \/ InLoop(handle) /\ alive

ForgetThread ==
  /\ caller = "wait"
  /\ WaitOver
  /\ handle' = 0
  /\ caller' = "free"
  /\ UNCHANGED <<alive, data, socket, pc, opened, wire, past>>

\* identify, newGame, sendMoveRequest, sendPlayerUpdate, sendFoodUpdate, and
\* the first assignment of setupTransaction.  Before an update the caller may
\* push states on the queue, which it does not while the thread may pop: a
\* std::queue allows no push during a pop.
SetUp(k) ==
  /\ caller = "free"
  /\ alive
  /\ number < IF early THEN MaxEarly ELSE MaxRequests
  /\ request' = k
  /\ number' = number + 1
  /\ carrier' = handle
  /\ hasty' = \/ hasty
               \/ state = "REQUEST_TO_SEND"
               \/ (state = "AWAITING" /\ carrier = handle)
  /\ caller' = "confirmation"
  /\ \/ UNCHANGED queued
     \/ /\ k \in Updates
        /\ ~(state = "REQUEST_TO_SEND" /\ request = k)
        /\ \E n \in queued[k] + 1 .. MaxStates :
             queued' = [queued EXCEPT ![k] = n]
  /\ UNCHANGED <<handle, alive, identified, angle, socket, confirmation, state,
                 pc, opened, wire, tried, transmitted, answered, greeted, early>>

\* Mutant: an update is taken to be confirmed as well.
ConfirmationOfAll(k) == IF k \in Updates THEN "MOVE" ELSE k

\* The response of a kind is named like its request.
Confirmation(k) == IF k \in Updates THEN "NO_PACKET" ELSE k

\* ... the second ...
WriteConfirmation ==
  /\ caller = "confirmation"
  /\ confirmation' = Confirmation(request)
  /\ caller' = "state"
  /\ UNCHANGED <<handle, alive, identified, angle, socket, request, state,
                 queued, pc, opened, wire, past>>

\* ... and the last one.
WriteState ==
  /\ caller = "state"
  /\ state' = "REQUEST_TO_SEND"
  /\ caller' = "free"
  /\ UNCHANGED <<handle, alive, identified, angle, socket, request,
                 confirmation, queued, pc, opened, wire, past>>

(***************************************************************************)
(* The connection thread: connectionThread.                                *)
(***************************************************************************)

Go(t, l) == pc' = [pc EXCEPT ![t] = l]

\* getaddrinfo fails, or socket does, which leaves INVALID_SOCKET behind.
GiveUp(t) ==
  /\ pc[t] = "resolve"
  /\ Go(t, "ended")
  /\ socket' \in {socket, 0}
  /\ UNCHANGED <<call, alive, data, opened, wire, past>>

OpenSocket(t) ==
  /\ pc[t] = "resolve"
  /\ Go(t, "connect")
  /\ socket' = t
  /\ opened' = [opened EXCEPT ![t] = "open"]
  /\ UNCHANGED <<call, alive, data, wire, past>>

ConnectSucceeds(t) ==
  /\ pc[t] = "connect"
  /\ opened[t] = "open"
  /\ Go(t, "mark")
  /\ opened' = [opened EXCEPT ![t] = "connected"]
  /\ UNCHANGED <<call, alive, data, socket, wire, past>>

\* closesocket of whatever connectionSocket is now.
CloseCurrent ==
  opened' = IF socket = 0 THEN opened ELSE [opened EXCEPT ![socket] = "closed"]

\* The next address is tried, if there is one.
ConnectFails(t) ==
  /\ pc[t] = "connect"
  /\ CloseCurrent
  /\ socket' = 0
  /\ Go(t, "resolve") \/ Go(t, "ended")
  /\ UNCHANGED <<call, alive, data, wire, past>>

\* connectionSocket is looked at once more, and alive set, whatever it was.
Mark(t) ==
  /\ pc[t] = "mark"
  /\ IF socket = 0
       THEN Go(t, "ended") /\ UNCHANGED alive
       ELSE Go(t, "loop") /\ alive' = TRUE
  /\ UNCHANGED <<call, data, socket, opened, wire, past>>

\* The socket the thread would use now.
Usable == socket # 0 /\ opened[socket] = "connected"

\* Mutant: the loop waits for the confirmation of what was sent.
ContinuesAwaiting == alive \/ state = "AWAITING"

\* while (player->alive)
Continues == alive

LeaveLoop(t) ==
  /\ pc[t] = "loop"
  /\ ~Continues
  /\ Go(t, "shutdown")
  /\ UNCHANGED <<call, alive, data, socket, opened, wire, past>>

\* getRequestToSend returns AMCOM_NO_PACKET.
NothingToSend(t) ==
  /\ pc[t] = "loop"
  /\ Continues
  /\ state # "REQUEST_TO_SEND"
  /\ Go(t, "receive")
  /\ UNCHANGED <<call, alive, data, socket, opened, wire, past>>

\* Mutant: all the states there are.
TakenAll == IF request \in Updates THEN queued[request] ELSE 0

\* The states taken from the queue for one update request.
Taken ==
  IF request \notin Updates THEN 0
  ELSE IF queued[request] < MaxUpdates THEN queued[request] ELSE MaxUpdates

\* Over a connection the peer has closed a send succeeds once: its answer to
\* the data is a reset.
SendSucceeds ==
  /\ Usable
  /\ peer[socket] # "reset"
  /\ peer' = [peer EXCEPT ![socket] = IF @ = "closed" THEN "reset" ELSE @]
  /\ requests' =
       IF peer[socket] = "closed" THEN requests
       ELSE [requests EXCEPT ![socket] = Append(@,
               [kind |-> request, number |-> number, states |-> Taken])]
  /\ transmitted' = transmitted \cup {number}
  /\ UNCHANGED alive

SendFails ==
  /\ Usable => peer[socket] = "reset"
  /\ alive' = FALSE
  /\ UNCHANGED <<peer, requests, transmitted>>

\* A case of the switch, up to the end of the send.
Send(t) ==
  /\ pc[t] = "loop"
  /\ Continues
  /\ state = "REQUEST_TO_SEND"
  /\ SendSucceeds \/ SendFails
  /\ queued' = IF request \in Updates THEN [queued EXCEPT ![request] = @ - Taken]
               ELSE queued
  /\ tried' = [tried EXCEPT ![number] = @ + 1]
  /\ carrier' = t
  /\ Go(t, "indicate")
  /\ UNCHANGED <<call, identified, angle, socket, tx, opened, inbox, number,
                 answered, greeted, hasty, early>>

\* Mutant: no confirmation is waited for.
TransmittedIsFinished == "FINISHED"

\* Mutant: an update stays to be sent.
TransmittedStays == IF confirmation # "NO_PACKET" THEN "AWAITING" ELSE state

Transmitted == IF confirmation # "NO_PACKET" THEN "AWAITING" ELSE "FINISHED"

\* indicateTransmission, whether or not the request was sent.
Indicate(t) ==
  /\ pc[t] = "indicate"
  /\ state' = Transmitted
  /\ Go(t, "receive")
  /\ UNCHANGED <<call, alive, identified, angle, socket, request, confirmation,
                 queued, opened, wire, past>>

\* indicateReception of a packet of kind k finishes the transaction.
FinishedBy(k) == state = "AWAITING" /\ k = confirmation

\* Data is available: recv, AMCOM_Deserialize and packetReceived.
Receive(t) ==
  /\ pc[t] = "receive"
  /\ Usable
  /\ inbox[socket] # <<>>
  /\ LET m == Head(inbox[socket]) IN
       /\ identified' = (identified \/ m.kind = "IDENTIFY")
       /\ greeted' = IF m.kind = "IDENTIFY" THEN greeted \cup {socket} ELSE greeted
       /\ angle' = IF m.kind = "MOVE" THEN m.number ELSE angle
       /\ state' = IF FinishedBy(m.kind) THEN "FINISHED" ELSE state
       /\ answered' = answered \cup {m.number}
  /\ inbox' = [inbox EXCEPT ![socket] = Tail(@)]
  /\ Go(t, "loop")
  /\ UNCHANGED <<call, alive, socket, request, confirmation, queued, opened,
                 peer, requests, number, carrier, tried, transmitted, hasty, early>>

\* FIONREAD says that there is none, at the end of the stream as well.
NothingToReceive(t) ==
  /\ pc[t] = "receive"
  /\ Usable => inbox[socket] = <<>>
  /\ Go(t, "loop")
  /\ UNCHANGED <<call, alive, data, socket, opened, wire, past>>

\* recv returns an error, which as a size_t is taken for a length: the peer has
\* reset the connection since FIONREAD found data, or there is no socket, and the
\* number of bytes available is not written but what it was before.
ReadWild(t) ==
  /\ pc[t] = "receive"
  /\ Usable => inbox[socket] # <<>>
  /\ peer' = IF Usable THEN [peer EXCEPT ![socket] = "reset"] ELSE peer
  /\ pc' = [u \in Threads |-> "crashed"]
  /\ caller' = "crashed"
  /\ UNCHANGED <<handle, alive, data, socket, opened, requests, inbox, past>>

Shutdown(t) ==
  /\ pc[t] = "shutdown"
  /\ IF Usable /\ peer[socket] # "reset"
       THEN Go(t, "drain") /\ UNCHANGED opened
       ELSE Go(t, "ended") /\ CloseCurrent
  /\ UNCHANGED <<call, alive, data, socket, wire, past>>

\* What is left is received and dropped; the pause at the end is left out.
CloseSocket(t) ==
  /\ pc[t] = "drain"
  /\ CloseCurrent
  /\ socket' = 0
  /\ Go(t, "ended")
  /\ UNCHANGED <<call, alive, data, wire, past>>

(***************************************************************************)
(* The peer.                                                               *)
(***************************************************************************)

\* It takes the next request, and answers it unless it is an update.
Answer(t) ==
  /\ opened[t] = "connected"
  /\ peer[t] = "open"
  /\ requests[t] # <<>>
  /\ requests' = [requests EXCEPT ![t] = Tail(@)]
  /\ inbox' = IF Head(requests[t]).kind \in Updates THEN inbox
              ELSE [inbox EXCEPT ![t] = Append(@, Head(requests[t]))]
  /\ UNCHANGED <<call, alive, data, socket, pc, opened, peer, past>>

\* It closes the connection, or the connection is reset.
Lose(t) ==
  /\ opened[t] = "connected"
  /\ peer[t] = "open"
  /\ \E s \in {"closed", "reset"} : peer' = [peer EXCEPT ![t] = s]
  /\ requests' = [requests EXCEPT ![t] = <<>>]
  /\ inbox' = [inbox EXCEPT ![t] = IF peer'[t] = "reset" THEN <<>> ELSE @]
  /\ UNCHANGED <<call, alive, data, socket, pc, opened, past>>

Caller ==
  \/ \E t \in Threads : ConnectPlayer(t)
  \/ DisconnectPlayer \/ WaitForDisconnection
  \/ \E k \in Requests : SetUp(k)

\* What the caller has begun it brings to its end.
Call == ForgetThread \/ WriteConfirmation \/ WriteState

Thread(t) ==
  \/ GiveUp(t) \/ OpenSocket(t) \/ ConnectSucceeds(t) \/ ConnectFails(t)
  \/ Mark(t) \/ LeaveLoop(t)
  \/ NothingToSend(t) \/ Send(t) \/ Indicate(t)
  \/ Receive(t) \/ NothingToReceive(t) \/ ReadWild(t)
  \/ Shutdown(t) \/ CloseSocket(t)

Next ==
  \/ Caller
  \/ Call
  \/ \E t \in Threads : Thread(t) \/ Answer(t) \/ Lose(t)

Spec == Init /\ [][Next]_vars

\* The threads are scheduled and a peer that is there answers.
Fairness ==
  /\ WF_vars(Call)
  /\ \A t \in Threads : WF_vars(Thread(t)) /\ WF_vars(Answer(t))

FairSpec == Spec /\ Fairness

(***************************************************************************)
(* Properties.                                                             *)
(***************************************************************************)

\* As long as none of the three calls comes early, connectPlayer never starts a
\* second thread beside one that still runs: the time waitForDisconnection allows
\* is enough.
OneThread ==
  ~early => Cardinality({t \in Threads : Running(t)}) <= 1

\* While a connection is alive, isIdentified speaks of its own peer and not of
\* one before (a late IDENTIFY.response sets it after disconnectPlayer).
IdentifiedByThisPeer ==
  ~early /\ alive /\ identified => handle \in greeted

\* A caller that waits for one transaction to be finished before it sets up
\* the next: isTransactionFinished says so only when the reply to this very
\* transaction is there, and getPlayerMoveAngle is the angle in it; a transaction
\* without a reply was handed to the transport, unless its connection ended.
FinishedMeansDone ==
  ~hasty /\ ~early /\ caller = "free" /\ state = "FINISHED" =>
    /\ confirmation # "NO_PACKET" => number \in answered
    /\ request = "MOVE" => angle = number
    /\ alive /\ carrier = handle => number \in transmitted

\* The sending of its requests is tried once each, of those left over by a
\* disconnection too: nothing is sent again that a reply may come to.
SentOnce == ~hasty /\ ~early => \A n \in Numbers : tried[n] <= 1

\* Threads in their loop end once the connection is given up.
DisconnectHonoured ==
  ~alive /\ (\E t \in Threads : InLoop(t))
    ~> (\A t \in Threads : ~Running(t)) \/ early

\* The transaction of such a caller is finished, unless the connection is
\* given up or the peer goes away.
RequestServed ==
  state = "REQUEST_TO_SEND" /\ carrier = handle
    ~> \/ state = "FINISHED" \/ ~alive \/ hasty \/ early
       \/ \E t \in Threads : carrier = t /\ peer[t] # "open"
=============================================================================
