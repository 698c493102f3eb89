----------------------- MODULE RemoteConnectionProofs -----------------------
(***************************************************************************)
(* Theorems about RemoteConnection, for any number of connections and      *)
(* transactions: what a caller can rely on that waits for one transaction  *)
(* before it sets up the next, and for a connection before it gives it up. *)
(***************************************************************************)
EXTENDS RemoteConnection, FiniteSetTheorems, SequenceTheorems, TLAPS

\* A transaction has been set up as soon as anything speaks of it.
TypeInv ==
  /\ TypeOK
  /\ request = "NO_PACKET" <=> number = 0
  /\ \/ state # "IDLE"
     \/ caller \in {"confirmation", "state"}
     \/ \E t \in Threads : pc[t] = "indicate"
     => number # 0

\* The thread that runs is the one the handle is of, ...
HandleInv ==
  /\ \A t \in Threads : Running(t) => t = handle
  /\ \A t \in Threads : pc[t] = "none" => t # handle /\ t # carrier
  /\ caller = "crashed" => \A t \in Threads : ~Running(t)
  /\ caller = "wait" => ~alive /\ \A t \in Threads : ~Connecting(t)
  /\ alive => handle \in Threads
  /\ \A t \in Threads : Connecting(t) => ~alive /\ t # carrier

\* ... its socket is in connectionSocket, ...
SocketInv ==
  \A t \in Threads :
    /\ pc[t] = "connect" => socket = t /\ opened[t] = "open"
    /\ pc[t] \in {"mark", "loop", "indicate", "receive", "shutdown",
                  "drain"} =>
         socket = t /\ opened[t] = "connected"

\* ... and it starts without having been identified.
IdentifiedInv ==
  /\ \A t \in Threads : Connecting(t) => ~identified
  /\ alive /\ identified => handle \in greeted

\* As long as none of the caller's calls comes early.
ConnectionInv == ~early => HandleInv /\ SocketInv /\ IdentifiedInv

\* The transaction may have a reply on its way.
Outstanding ==
  /\ caller \notin {"confirmation", "state"}
  /\ confirmation = request
  /\ state = "AWAITING" \/ \E t \in Threads : pc[t] = "indicate"

\* Nobody has tried to send it yet, ...
NotSent == \A n \in Numbers : n >= number => tried[n] = 0

\* ... or somebody has, once.
SentNow ==
  /\ number # 0 => tried[number] = 1
  /\ \A n \in Numbers : n > number => tried[n] = 0

\* A transaction is set up, sent, reported as sent, and finished by its reply.
TransactionInv ==
  /\ \A n \in Numbers : tried[n] <= 1
  /\ \A t \in Threads : pc[t] = "indicate" => state = "REQUEST_TO_SEND"
  /\ caller \in {"confirmation", "state"} =>
       NotSent /\ state # "REQUEST_TO_SEND"
  /\ caller \notin {"confirmation", "state"} =>
       /\ number # 0 => state # "IDLE" /\ confirmation = Confirmation(request)
       /\ IF state = "REQUEST_TO_SEND" /\ \A t \in Threads : pc[t] # "indicate"
            THEN NotSent ELSE SentNow
       /\ state = "AWAITING" => confirmation # "NO_PACKET"
       /\ state = "FINISHED" =>
            /\ confirmation # "NO_PACKET" => number \in answered
            /\ request = "MOVE" => angle = number
  /\ caller = "state" => confirmation = Confirmation(request)

\* What a connection carries beside updates is the request of this
\* transaction, or its reply.
WireInv ==
  \A t \in Threads :
    /\ pc[t] = "none" => requests[t] = <<>> /\ inbox[t] = <<>>
    /\ t = handle =>
       /\ carrier # t => inbox[t] = <<>> /\ requests[t] = <<>>
       /\ \A i \in DOMAIN requests[t] :
            requests[t][i].kind \notin Updates =>
              /\ Outstanding
              /\ requests[t][i].kind = request
              /\ requests[t][i].number = number
              /\ inbox[t] = <<>>
              /\ \A j \in DOMAIN requests[t] :
                   requests[t][j].kind \notin Updates => j = i
       /\ inbox[t] # <<>> =>
            /\ Outstanding
            /\ Len(inbox[t]) = 1
            /\ inbox[t][1].kind = request
            /\ inbox[t][1].number = number

\* The transaction was sent, over the connection that is still alive: ...
SentOver ==
  /\ caller \notin {"confirmation", "state"}
  /\ state # "REQUEST_TO_SEND" \/ \E t \in Threads : pc[t] = "indicate"
  /\ alive /\ carrier = handle

\* ... send has taken it.
TransmittedInv == SentOver => number = 0 \/ number \in transmitted

\* As long as the caller waits for each transaction as well, and no error was
\* taken for a length.
Orderly == ~hasty /\ ~early /\ caller # "crashed"

RequestInv == Orderly => TransactionInv /\ WireInv

TakenInv == Orderly => TransmittedInv

\* What has come early stays so; nothing goes on after a crash.
LEMMA NotCrashedBefore ==
  ASSUME [Next]_vars, ~early', caller' # "crashed"
  PROVE  /\ ~early /\ caller # "crashed"
         /\ \A t \in Threads : ~ReadWild(t)
         /\ hasty => hasty'
<1> USE DEF call, past
<1> DEFINE Kept == /\ ~early /\ caller # "crashed"
                   /\ \A t \in Threads : ~ReadWild(t)
                   /\ hasty => hasty'
<1>1. CASE UNCHANGED vars
  <2>1. ASSUME NEW t \in Threads, ReadWild(t) PROVE FALSE
    BY <1>1, <2>1 DEF vars, ReadWild
  <2> QED
    BY <1>1, <2>1 DEF vars
<1>2. CASE Caller \/ Call
  <2>1. ASSUME NEW t \in Threads, ReadWild(t) PROVE FALSE
    BY <2>1 DEF ReadWild
  <2>2. CASE \E t \in Threads : ConnectPlayer(t)
    <3>1. ~early /\ caller # "crashed" /\ hasty' = hasty
      BY <2>2, Zenon DEF ConnectPlayer
    <3> QED
      BY <2>1, <3>1
  <2>3. CASE DisconnectPlayer
    BY <2>1, <2>3 DEF DisconnectPlayer
  <2>5. CASE WaitForDisconnection
    BY <2>1, <2>5 DEF WaitForDisconnection
  <2>6. CASE Call
    BY <2>1, <2>6 DEF Call, ForgetThread, WriteConfirmation, WriteState
  <2>4. CASE \E k \in Requests : SetUp(k)
    BY <2>1, <2>4 DEF SetUp
  <2> QED
    BY <1>2, <2>2, <2>3, <2>4, <2>5, <2>6 DEF Caller
<1>3. ASSUME NEW t \in Threads, Thread(t) \/ Answer(t) \/ Lose(t)
      PROVE  Kept
  <2>1. ASSUME NEW u \in Threads, ReadWild(u) PROVE FALSE
    BY <2>1 DEF ReadWild
  <2> QED
    BY <1>3, <2>1
       DEF Thread, GiveUp, OpenSocket, ConnectSucceeds, ConnectFails, Mark,
           LeaveLoop, NothingToSend, Send, Indicate, Receive,
           NothingToReceive, Shutdown, CloseSocket, Answer, Lose, log
<1> QED
  BY <1>1, <1>2, <1>3 DEF Next

LEMMA OrderlyBefore ==
  ASSUME [Next]_vars, Orderly'
  PROVE  Orderly /\ \A t \in Threads : ~ReadWild(t)
BY NotCrashedBefore DEF Orderly

(***************************************************************************)
(* Types.                                                                  *)
(***************************************************************************)

LEMMA InitType == Init => TypeInv
<1> SUFFICES ASSUME Init PROVE TypeInv
  OBVIOUS
<1>1. TypeOK
  <2>1. <<>> \in Seq(Message) /\ 0 \in 0 .. MaxStates
    BY ConstantsAssumption
  <2> QED
    BY <2>1 DEF Init, TypeOK
<1> QED
  BY <1>1 DEF Init, TypeInv

LEMMA TakenType ==
  ASSUME TypeOK
  PROVE  /\ Taken \in 0 .. MaxUpdates
         /\ request \in Updates => queued[request] - Taken \in 0 .. MaxStates
BY ConstantsAssumption DEF TypeOK, Taken

LEMMA NextType == TypeInv /\ [Next]_vars => TypeInv'
<1> SUFFICES ASSUME TypeInv, [Next]_vars PROVE TypeInv'
  OBVIOUS
<1> USE ConstantsAssumption
       DEF TypeInv, TypeOK, call, tx, data, wire, log, past
<1> Updates \cap Confirmed = {} /\ "NO_PACKET" \notin Updates \cup Confirmed
  BY DEF Updates, Confirmed
<1>1. CASE UNCHANGED vars
  BY <1>1 DEF vars
<1>2. ASSUME NEW t \in Threads, ConnectPlayer(t) PROVE TypeInv'
  BY <1>2 DEF ConnectPlayer, IdentifiedWhenConnecting
<1>3. CASE DisconnectPlayer \/ WaitForDisconnection
  BY <1>3 DEF DisconnectPlayer, WaitForDisconnection, Connecting
<1>4. ASSUME NEW k \in Requests, SetUp(k) PROVE TypeInv'
  <2>1. /\ number' = number + 1
        /\ number' \in Numbers
        /\ request' = k
        /\ k \in Updates \cup Confirmed
    BY <1>4 DEF SetUp, Numbers
  <2>2. queued' \in [Updates -> 0 .. MaxStates]
    <3>1. CASE UNCHANGED queued
      BY <3>1
    <3>2. ASSUME NEW n \in queued[k] + 1 .. MaxStates, k \in Updates,
                 queued' = [queued EXCEPT ![k] = n]
          PROVE  queued' \in [Updates -> 0 .. MaxStates]
      <4>1. n \in 0 .. MaxStates
        BY <3>2
      <4> QED
        BY <3>2, <4>1
    <3> QED
      BY <1>4, <3>1, <3>2 DEF SetUp
  <2>3. /\ caller' = "confirmation"
        /\ carrier' \in {0} \cup Threads
        /\ hasty' \in BOOLEAN
    BY <1>4 DEF SetUp
  <2>4. UNCHANGED <<handle, alive, identified, angle, socket, confirmation,
                    state, pc, opened, wire, tried, transmitted, answered,
                    greeted, early>>
    BY <1>4 DEF SetUp
  <2>5. number' \in Numbers /\ number' # 0 /\ request' # "NO_PACKET"
    BY <2>1 DEF Numbers
  <2> QED
    BY <2>1, <2>2, <2>3, <2>4, <2>5
<1>5. CASE Call
  BY <1>5 DEF Call, ForgetThread, WriteConfirmation, WriteState, Confirmation
<1>6. ASSUME NEW t \in Threads,
             \/ GiveUp(t) \/ OpenSocket(t) \/ ConnectSucceeds(t)
             \/ ConnectFails(t) \/ Mark(t) \/ Shutdown(t) \/ CloseSocket(t)
             \/ LeaveLoop(t) \/ NothingToSend(t) \/ NothingToReceive(t)
             \/ ReadWild(t)
      PROVE  TypeInv'
  <2>1. \A u \in Threads : pc'[u] = "indicate" => pc[u] = "indicate"
    BY <1>6 DEF GiveUp, OpenSocket, ConnectSucceeds, ConnectFails, Mark,
                Shutdown, CloseSocket, LeaveLoop, NothingToSend,
                NothingToReceive, ReadWild, Go
  <2>2. /\ UNCHANGED <<request, number, state>>
        /\ caller' \in {caller, "crashed"}
    BY <1>6 DEF GiveUp, OpenSocket, ConnectSucceeds, ConnectFails, Mark,
                Shutdown, CloseSocket, LeaveLoop, NothingToSend,
                NothingToReceive, ReadWild, Go
  <2> DEFINE Places == {"none", "resolve", "connect", "mark", "loop",
                        "indicate", "receive", "shutdown", "drain", "ended",
                        "crashed"}
  <2>3. pc' \in [Threads -> Places]
    <3>1. ASSUME NEW l \in Places, Go(t, l) PROVE pc' \in [Threads -> Places]
      BY <3>1 DEF Go
    <3>2. CASE ReadWild(t)
      BY <3>2 DEF ReadWild
    <3>3. \/ ReadWild(t)
          \/ Go(t, "connect") \/ Go(t, "ended") \/ Go(t, "mark")
          \/ Go(t, "resolve") \/ Go(t, "loop") \/ Go(t, "drain")
          \/ Go(t, "shutdown") \/ Go(t, "receive")
      BY <1>6 DEF GiveUp, OpenSocket, ConnectSucceeds, ConnectFails, Mark,
                  Shutdown, CloseSocket, LeaveLoop, NothingToSend,
                  NothingToReceive
    <3> QED
      BY <3>1, <3>2, <3>3
  <2>4. socket' \in {0} \cup Threads /\ alive' \in BOOLEAN
    BY <1>6
       DEF GiveUp, OpenSocket, ConnectSucceeds, ConnectFails, Mark, Shutdown,
                 CloseSocket, LeaveLoop, NothingToSend, NothingToReceive,
                 ReadWild
  <2>5. opened' \in [Threads -> {"no", "open", "connected", "closed"}]
    BY <1>6
       DEF GiveUp, OpenSocket, ConnectSucceeds, ConnectFails, Mark, Shutdown,
                 CloseSocket, LeaveLoop, NothingToSend, NothingToReceive,
                 ReadWild,
                 CloseCurrent
  <2>6. UNCHANGED <<handle, identified, angle, tx, queued, requests, inbox,
                    past>>
    BY <1>6
       DEF GiveUp, OpenSocket, ConnectSucceeds, ConnectFails, Mark, Shutdown,
                 CloseSocket, LeaveLoop, NothingToSend, NothingToReceive,
                 ReadWild
  <2>7. peer' \in [Threads -> {"open", "closed", "reset"}]
    BY <1>6
       DEF GiveUp, OpenSocket, ConnectSucceeds, ConnectFails, Mark, Shutdown,
                 CloseSocket, LeaveLoop, NothingToSend, NothingToReceive,
                 ReadWild
  <2> QED
    BY <2>1, <2>2, <2>3, <2>4, <2>5, <2>6, <2>7
<1>7. ASSUME NEW t \in Threads, Send(t) PROVE TypeInv'
  <2>1. number \in Numbers /\ request \in Updates \cup Confirmed
    BY <1>7 DEF Send
  <2>2. requests' \in [Threads -> Seq(Message)]
    <3>1. [kind |-> request, number |-> number, states |-> Taken] \in Message
      BY <2>1, TakenType DEF Message
    <3>2. CASE SendFails
      BY <3>2 DEF SendFails
    <3>3. CASE SendSucceeds
      BY <3>1, <3>3 DEF SendSucceeds, Usable
    <3> QED
      BY <1>7, <3>2, <3>3 DEF Send
  <2>3. peer' \in [Threads -> {"open", "closed", "reset"}]
    BY <1>7 DEF Send, SendSucceeds, SendFails
  <2>4. queued' \in [Updates -> 0 .. MaxStates]
    BY <1>7, TakenType DEF Send
  <2>5. alive' \in BOOLEAN
    BY <1>7 DEF Send, SendSucceeds, SendFails
  <2>6. /\ tried' \in [Numbers -> Nat] /\ carrier' \in Threads
        /\ transmitted' \subseteq Numbers
    <3>1. tried' \in [Numbers -> Nat] /\ carrier' \in Threads
      BY <1>7 DEF Send
    <3>2. transmitted' \in {transmitted, transmitted \cup {number}}
      BY <1>7 DEF Send, SendSucceeds, SendFails
    <3> QED
      BY <2>1, <3>1, <3>2
  <2>7. pc' \in [Threads -> {"none", "resolve", "connect", "mark", "loop",
                            "indicate", "receive", "shutdown", "drain",
                            "ended", "crashed"}]
    BY <1>7 DEF Send, Go
  <2>8. number # 0
    BY <1>7 DEF Send
  <2>9. UNCHANGED <<call, identified, angle, socket, tx, opened, inbox,
                    number, answered, greeted, hasty, early>>
    BY <1>7 DEF Send
  <2>10. TypeOK'
    <3>1. carrier' \in {0} \cup Threads
      BY <2>6
    <3>2. /\ requests' \in [Threads -> Seq(Message)]
          /\ peer' \in [Threads -> {"open", "closed", "reset"}]
          /\ queued' \in [Updates -> 0 .. MaxStates]
          /\ alive' \in BOOLEAN
          /\ tried' \in [Numbers -> Nat]
          /\ transmitted' \subseteq Numbers
      BY <2>2, <2>3, <2>4, <2>5, <2>6
    <3> QED
      BY <2>7, <2>9, <3>1, <3>2
  <2> HIDE DEF TypeOK
  <2> QED
    BY <2>8, <2>9, <2>10
<1>8. ASSUME NEW t \in Threads, Indicate(t) PROVE TypeInv'
  BY <1>8 DEF Indicate, Transmitted, Go
<1>9. ASSUME NEW t \in Threads, Receive(t) PROVE TypeInv'
  <2>1. /\ socket \in Threads
        /\ Head(inbox[socket]) \in Message
        /\ Tail(inbox[socket]) \in Seq(Message)
    BY <1>9 DEF Receive, Usable
  <2>2. /\ pc' = [pc EXCEPT ![t] = "loop"]
        /\ inbox' \in [Threads -> Seq(Message)]
    BY <1>9, <2>1 DEF Receive, Go
  <2>3. /\ identified' \in BOOLEAN
        /\ angle' \in {0} \cup Numbers
        /\ answered' \subseteq Numbers
        /\ greeted' \subseteq Threads
    BY <1>9, <2>1 DEF Receive, Message
  <2>4. state' = state \/ (state = "AWAITING" /\ state' = "FINISHED")
    BY <1>9 DEF Receive, FinishedBy
  <2>5. UNCHANGED <<call, alive, socket, request, confirmation, queued,
                    opened, peer, requests, number, carrier, tried,
                    transmitted, hasty, early>>
    BY <1>9 DEF Receive
  <2> QED
    BY <2>2, <2>3, <2>4, <2>5
<1>10. ASSUME NEW t \in Threads, Answer(t) PROVE TypeInv'
  <2>1. /\ Head(requests[t]) \in Message
        /\ Tail(requests[t]) \in Seq(Message)
    BY <1>10 DEF Answer
  <2> QED
    BY <1>10, <2>1 DEF Answer
<1>11. ASSUME NEW t \in Threads, Lose(t) PROVE TypeInv'
  BY <1>11 DEF Lose
<1> QED
  BY <1>1, <1>2, <1>3, <1>4, <1>5, <1>6, <1>7, <1>8, <1>9, <1>10,
     <1>11 DEF Next, Caller, Thread

\* Every variable keeps its type; above all, no update takes more states than
\* there are or than fit, for a caller that does not push while the thread pops.
THEOREM TypeCorrect == Spec => []TypeOK
<1>1. Spec => []TypeInv
  BY InitType, NextType, PTL DEF Spec
<1>2. TypeInv => TypeOK
  BY DEF TypeInv
<1> QED
  BY <1>1, <1>2, PTL

(***************************************************************************)
(* One thread at a time.                                                   *)
(***************************************************************************)

LEMMA InitConnection == Init => ConnectionInv
BY DEF Init, ConnectionInv, HandleInv, SocketInv, IdentifiedInv, Running,
       Connecting, InLoop, Threads

\* Nobody runs when a connection is made, and the wait for one that was made
\* is over only once its thread has ended.
LEMMA CallerKeepsConnection ==
  TypeInv /\ ConnectionInv /\ (Caller \/ Call) => ConnectionInv'
<1> SUFFICES ASSUME TypeInv, ConnectionInv, Caller \/ Call, ~early'
             PROVE  (HandleInv /\ SocketInv /\ IdentifiedInv)'
  BY DEF ConnectionInv
<1> USE DEF TypeInv, TypeOK, HandleInv, SocketInv, IdentifiedInv, Connecting,
            InLoop, Running, data, past
<1>1. ~early
  BY DEF Caller, Call, ConnectPlayer, DisconnectPlayer, WaitForDisconnection,
         SetUp, ForgetThread, WriteConfirmation, WriteState
<1>2. HandleInv /\ SocketInv /\ IdentifiedInv
  BY <1>1 DEF ConnectionInv
<1>3. ASSUME NEW t \in Threads, ConnectPlayer(t)
      PROVE  (HandleInv /\ SocketInv /\ IdentifiedInv)'
  <2>0. handle = 0
    BY <1>3 DEF ConnectPlayer
  <2>1. \A u \in Threads : ~Running(u)
    BY <1>2, <2>0 DEF Threads
  <2>2. /\ pc' = [pc EXCEPT ![t] = "resolve"]
        /\ pc[t] = "none"
        /\ handle' = t
        /\ UNCHANGED <<caller, socket, opened, carrier>>
        /\ caller = "free"
        /\ ~identified' /\ ~alive'
        /\ t # carrier
    BY <1>2, <1>3 DEF ConnectPlayer, IdentifiedWhenConnecting, log
  <2> QED
    BY <1>2, <2>1, <2>2
<1>4. CASE DisconnectPlayer \/ WaitForDisconnection
  <2>1. /\ UNCHANGED <<handle, pc, socket, opened, carrier>>
        /\ caller' \in {"free", "wait"}
        /\ ~alive'
        /\ identified' => identified
        /\ \A t \in Threads : t = handle => ~Connecting(t)
    <3>1. CASE DisconnectPlayer
      BY <3>1 DEF DisconnectPlayer, log, call
    <3>2. CASE WaitForDisconnection
      BY <3>2 DEF WaitForDisconnection, log
    <3> QED
      BY <1>4, <3>1, <3>2
  <2>2. \A t \in Threads : ~Connecting(t)
    BY <1>2, <2>1
  <2> QED
    BY <1>2, <2>1, <2>2
<1>5. ASSUME NEW k \in Requests, SetUp(k)
      PROVE  (HandleInv /\ SocketInv /\ IdentifiedInv)'
  BY <1>2, <1>5 DEF SetUp
<1>6. CASE ForgetThread
  <2>1. \A t \in Threads : ~Running(t)
    BY <1>2, <1>6 DEF ForgetThread, WaitOver
  <2> QED
    BY <1>2, <1>6, <2>1 DEF ForgetThread, log, Threads
<1>7. CASE WriteConfirmation \/ WriteState
  BY <1>2, <1>7 DEF WriteConfirmation, WriteState, log
<1> QED
  BY <1>3, <1>4, <1>5, <1>6, <1>7 DEF Caller, Call

\* The thread that runs keeps to its own socket.
LEMMA ThreadKeepsConnection ==
  ASSUME TypeInv, ConnectionInv, NEW t \in Threads, Thread(t)
  PROVE  ConnectionInv'
<1> SUFFICES ASSUME ~early'
             PROVE  (HandleInv /\ SocketInv /\ IdentifiedInv)'
  BY DEF ConnectionInv
<1> USE DEF TypeInv, TypeOK, HandleInv, SocketInv, IdentifiedInv, Connecting,
            InLoop, Running, data, past, call, log
<1>1. ~early
  BY DEF Thread, GiveUp, OpenSocket, ConnectSucceeds, ConnectFails, Mark,
         LeaveLoop, NothingToSend, Send, Indicate, Receive, NothingToReceive,
         ReadWild, Shutdown, CloseSocket
<1>2. HandleInv /\ SocketInv /\ IdentifiedInv
  BY <1>1 DEF ConnectionInv
<1>3. Running(t)
  BY DEF Thread, GiveUp, OpenSocket, ConnectSucceeds, ConnectFails, Mark,
              LeaveLoop, NothingToSend, Send, Indicate, Receive,
              NothingToReceive, ReadWild, Shutdown, CloseSocket
<1>4. t = handle /\ \A u \in Threads \ {t} : pc[u] \in {"none", "ended", "crashed"}
  <2>1. t = handle /\ \A u \in Threads \ {t} : ~Running(u)
    BY <1>2, <1>3
  <2> QED
    BY <2>1
<1>5. CASE GiveUp(t)
  BY <1>2, <1>4, <1>5 DEF GiveUp, Go
<1>6. CASE OpenSocket(t)
  BY <1>2, <1>4, <1>6 DEF OpenSocket, Go
<1>7. CASE ConnectSucceeds(t)
  BY <1>2, <1>4, <1>7 DEF ConnectSucceeds, Go
<1>8. CASE ConnectFails(t)
  <2>1. \/ pc' = [pc EXCEPT ![t] = "resolve"]
        \/ pc' = [pc EXCEPT ![t] = "ended"]
    BY <1>8 DEF ConnectFails, Go
  <2>2. UNCHANGED <<caller, handle, alive, identified, carrier, greeted>>
    BY <1>8 DEF ConnectFails
  <2>3. Connecting(t) /\ caller # "crashed" /\ caller # "wait"
    BY <1>2, <1>3, <1>8 DEF ConnectFails
  <2>4. ~alive /\ ~identified /\ t # carrier
    BY <1>2, <2>3
  <2>5. HandleInv'
    BY <1>2, <1>4, <2>1, <2>2, <2>3, <2>4
  <2>6. SocketInv'
    BY <1>2, <1>4, <2>1
  <2>7. IdentifiedInv'
    BY <1>2, <1>4, <2>1, <2>2, <2>4
  <2> QED
    BY <2>5, <2>6, <2>7
<1>9. CASE Shutdown(t)
  BY <1>2, <1>4, <1>9 DEF Shutdown, Go
<1>10. CASE CloseSocket(t)
  BY <1>2, <1>4, <1>10 DEF CloseSocket, Go
<1>11. CASE Mark(t)
  <2>1. /\ socket = t /\ t # 0 /\ opened[t] = "connected"
        /\ caller # "crashed" /\ caller # "wait" /\ ~identified
    BY <1>2, <1>3, <1>11 DEF Mark, Threads
  <2>2. /\ pc' = [pc EXCEPT ![t] = "loop"]
        /\ UNCHANGED <<caller, handle, identified, socket, opened, carrier>>
    BY <1>11, <2>1 DEF Mark, Go
  <2> QED
    BY <1>2, <1>4, <2>1, <2>2
<1>12. CASE LeaveLoop(t) \/ NothingToSend(t) \/ NothingToReceive(t)
  <2>1. /\ InLoop(t)
        /\ UNCHANGED <<caller, handle, alive, identified, socket, opened,
                       carrier, greeted>>
        /\ \/ pc' = [pc EXCEPT ![t] = "shutdown"]
           \/ pc' = [pc EXCEPT ![t] = "receive"]
           \/ pc' = [pc EXCEPT ![t] = "loop"]
    BY <1>12 DEF LeaveLoop, NothingToSend, NothingToReceive, Go
  <2> QED
    BY <1>2, <1>4, <2>1
<1>13. CASE ReadWild(t)
  <2>1. /\ \A u \in Threads : pc'[u] = "crashed"
        /\ UNCHANGED <<handle, alive, identified, greeted>>
        /\ caller' = "crashed"
    BY <1>13 DEF ReadWild
  <2> QED
    BY <1>2, <2>1
<1>14. CASE Send(t)
  BY <1>2, <1>4, <1>14 DEF Send, SendSucceeds, SendFails, Go
<1>15. CASE Indicate(t)
  BY <1>2, <1>4, <1>15 DEF Indicate, Go
<1>16. CASE Receive(t)
  BY <1>2, <1>4, <1>16 DEF Receive, Go
<1> QED
  BY <1>5, <1>6, <1>7, <1>8, <1>9, <1>10, <1>11, <1>12, <1>13, <1>14, <1>15,
     <1>16 DEF Thread

LEMMA NextConnection ==
  TypeInv /\ ConnectionInv /\ [Next]_vars => ConnectionInv'
<1> SUFFICES ASSUME TypeInv, ConnectionInv, [Next]_vars PROVE ConnectionInv'
  OBVIOUS
<1>1. ASSUME \/ UNCHANGED vars
             \/ \E t \in Threads : Answer(t) \/ Lose(t)
      PROVE  ConnectionInv'
  BY <1>1 DEF vars, Answer, Lose, ConnectionInv, HandleInv, SocketInv,
              IdentifiedInv, Connecting, InLoop, Running, call, data, past, log
<1> QED
  BY <1>1, CallerKeepsConnection, ThreadKeepsConnection DEF Next

LEMMA ConnectionInvariance == Spec => [](TypeInv /\ ConnectionInv)
<1>1. Init => TypeInv /\ ConnectionInv
  BY InitType, InitConnection
<1>2. TypeInv /\ ConnectionInv /\ [Next]_vars => (TypeInv /\ ConnectionInv)'
  BY NextType, NextConnection
<1> QED
  BY <1>1, <1>2, PTL DEF Spec

\* As long as none of the three calls comes early (connectPlayer before the last
\* thread was waited for, disconnectPlayer before the connection was made, or
\* waitForDisconnection before the thread was asked to end), the handle is
\* forgotten only once its thread has ended.
THEOREM OneThreadCorrect == Spec => []OneThread
<1>1. TypeInv /\ ConnectionInv => OneThread
  <2> SUFFICES ASSUME ConnectionInv, ~early
               PROVE  Cardinality({t \in Threads : Running(t)}) <= 1
    BY DEF OneThread
  <2>1. {t \in Threads : Running(t)} \subseteq {handle}
    BY DEF ConnectionInv, HandleInv
  <2>2. IsFiniteSet({handle}) /\ Cardinality({handle}) = 1
    BY FS_Singleton
  <2> QED
    BY <2>1, <2>2, FS_Subset
<1> QED
  BY <1>1, ConnectionInvariance, PTL

\* As long as none of the three calls comes early, isIdentified is not what an
\* earlier peer said.
THEOREM IdentifiedCorrect == Spec => []IdentifiedByThisPeer
<1>1. ConnectionInv => IdentifiedByThisPeer
  BY DEF ConnectionInv, IdentifiedInv, IdentifiedByThisPeer
<1> QED
  BY <1>1, ConnectionInvariance, PTL

(***************************************************************************)
(* One request at a time.                                                  *)
(***************************************************************************)

IInv == TypeInv /\ ConnectionInv /\ RequestInv /\ TakenInv /\ SentOnce

LEMMA InitRequest == Init => RequestInv /\ TakenInv /\ SentOnce
<1> SUFFICES ASSUME Init
             PROVE  TransactionInv /\ WireInv /\ TransmittedInv /\ SentOnce
  BY DEF RequestInv, TakenInv
<1>1. \A n \in Numbers : tried[n] = 0
  BY DEF Init
<1>2. TransactionInv
  BY <1>1 DEF Init, TransactionInv, SentNow
<1>3. WireInv
  BY DEF Init, WireInv
<1>4. TransmittedInv /\ SentOnce
  BY <1>1 DEF Init, TransmittedInv, SentOnce
<1> QED
  BY <1>2, <1>3, <1>4

SettingUp == caller \in {"confirmation", "state"}

\* A step that does not touch the transaction or the wire.
LEMMA QuietStep ==
  ASSUME TransactionInv, WireInv,
         UNCHANGED <<tx, angle, number, carrier, tried, answered, requests,
                     inbox>>,
         caller' # caller => {caller, caller'} \subseteq {"free", "wait"},
         handle' \in {handle, 0},
         \A u \in Threads : /\ pc'[u] = "indicate" <=> pc[u] = "indicate"
                            /\ pc'[u] = "none" => pc[u] = "none"
  PROVE  TransactionInv' /\ WireInv'
<1> USE DEF tx
<1>1. /\ Outstanding' <=> Outstanding
      /\ NotSent' <=> NotSent
      /\ SentNow' <=> SentNow
      /\ Confirmation(request)' = Confirmation(request)
  BY DEF Outstanding, NotSent, SentNow, Confirmation
<1>2. TransactionInv'
  BY <1>1 DEF TransactionInv
<1>3. \A u \in Threads : u = handle' => u = handle
  BY DEF Threads
<1>4. WireInv'
  BY <1>1, <1>3, Zenon DEF WireInv
<1> QED
  BY <1>2, <1>4

LEMMA CallerKeepsRequest == IInv /\ (Caller \/ Call) => RequestInv'
<1> SUFFICES ASSUME IInv, Caller \/ Call, Orderly'
             PROVE  TransactionInv' /\ WireInv'
  BY DEF RequestInv
<1> USE DEF call, data, tx, wire, past, log
<1>1. Orderly
  BY OrderlyBefore DEF Next
<1>2. TypeInv /\ HandleInv /\ TransactionInv /\ WireInv
  BY <1>1 DEF IInv, ConnectionInv, RequestInv, Orderly
<1>3. ASSUME NEW t \in Threads, ConnectPlayer(t)
      PROVE  TransactionInv' /\ WireInv'
  <2>1. /\ pc[t] = "none" /\ pc' = [pc EXCEPT ![t] = "resolve"]
        /\ handle' = t
        /\ UNCHANGED <<caller, angle, tx, number, carrier, tried, answered,
                       requests, inbox>>
    BY <1>3 DEF ConnectPlayer
  <2>2. \A u \in Threads : /\ pc'[u] = "indicate" <=> pc[u] = "indicate"
                           /\ pc'[u] = "none" => pc[u] = "none"
    BY <1>2, <2>1 DEF TypeInv, TypeOK
  <2>3. requests[t] = <<>> /\ inbox[t] = <<>>
    BY <1>2, <2>1 DEF WireInv
  <2>4. /\ NotSent' <=> NotSent
        /\ SentNow' <=> SentNow
        /\ Confirmation(request)' = Confirmation(request)
    BY <2>1 DEF NotSent, SentNow, Confirmation
  <2>5. TransactionInv'
    BY <1>2, <2>1, <2>2, <2>4 DEF TransactionInv
  <2>6. WireInv'
    BY <1>2, <2>1, <2>2, <2>3 DEF WireInv
  <2> QED
    BY <2>5, <2>6
<1>4. CASE DisconnectPlayer \/ WaitForDisconnection \/ ForgetThread
  BY <1>2, <1>4, QuietStep
     DEF DisconnectPlayer, WaitForDisconnection, ForgetThread
<1>5. ASSUME NEW k \in Requests, SetUp(k)
      PROVE  TransactionInv' /\ WireInv'
  <2>1. /\ caller = "free" /\ caller' = "confirmation"
        /\ handle \in Threads /\ carrier' = handle
        /\ number' = number + 1
        /\ UNCHANGED <<handle, angle, confirmation, state, pc, requests,
                       inbox, tried, answered>>
    BY <1>2, <1>5 DEF SetUp, HandleInv
  <2>2. state # "REQUEST_TO_SEND" /\ ~(state = "AWAITING" /\ carrier = handle)
    BY <1>5 DEF SetUp, Orderly
  <2>3. \A u \in Threads : pc[u] # "indicate"
    BY <1>2, <2>2 DEF TransactionInv
  <2>4. NotSent'
    BY <1>2, <2>1, <2>2 DEF TransactionInv, SentNow, NotSent, TypeInv, TypeOK,
                            Numbers
  <2>5. TransactionInv'
    BY <1>2, <2>1, <2>2, <2>3, <2>4 DEF TransactionInv
  <2>6. /\ inbox[handle] = <<>>
        /\ \A i \in DOMAIN requests[handle] :
             requests[handle][i].kind \in Updates
    BY <1>2, <2>1, <2>2, <2>3 DEF WireInv, Outstanding
  <2>7. WireInv'
    BY <1>2, <2>1, <2>6 DEF WireInv
  <2> QED
    BY <2>5, <2>7
<1>6. CASE WriteConfirmation \/ WriteState
  <2>1. /\ SettingUp
        /\ UNCHANGED <<handle, angle, request, number, carrier, tried, answered,
                       pc, requests, inbox>>
    BY <1>6 DEF WriteConfirmation, WriteState, SettingUp
  <2>2. \A t \in Threads : t = handle =>
          /\ inbox[t] = <<>>
          /\ \A i \in DOMAIN requests[t] : requests[t][i].kind \in Updates
    BY <1>2, <2>1 DEF WireInv, Outstanding, SettingUp
  <2>3. WireInv'
    BY <1>2, <2>1, <2>2 DEF WireInv
  <2>4. /\ NotSent' <=> NotSent
        /\ Confirmation(request)' = Confirmation(request)
    BY <2>1 DEF NotSent, Confirmation
  <2>5. TransactionInv'
    <3>1. CASE WriteConfirmation
      BY <1>2, <2>1, <2>4, <3>1 DEF WriteConfirmation, TransactionInv
    <3>2. CASE WriteState
      BY <1>2, <2>1, <2>4, <3>2 DEF WriteState, TransactionInv
    <3> QED
      BY <1>6, <3>1, <3>2
  <2> QED
    BY <2>3, <2>5
<1> QED
  BY <1>3, <1>4, <1>5, <1>6 DEF Caller, Call

\* The request goes out over the connection, once.
LEMMA SendKeepsRequest ==
  ASSUME TypeInv, HandleInv, SocketInv, TransactionInv, WireInv,
         NEW t \in Threads, Send(t)
  PROVE  TransactionInv' /\ WireInv'
<1> USE DEF tx, TypeInv, TypeOK
<1>1. /\ pc[t] = "loop" /\ pc' = [pc EXCEPT ![t] = "indicate"]
      /\ state = "REQUEST_TO_SEND"
      /\ tried' = [tried EXCEPT ![number] = @ + 1]
      /\ carrier' = t
      /\ UNCHANGED <<caller, handle, angle, request, confirmation, state,
                     inbox, number, answered>>
  BY DEF Send, Go, call
<1>2. t = handle /\ socket = t
  BY <1>1 DEF HandleInv, SocketInv, Running, InLoop
<1>3. \A u \in Threads : pc[u] # "indicate"
  BY <1>1, <1>2 DEF HandleInv, Running, InLoop
<1>4. /\ number \in Numbers
      /\ ~SettingUp
      /\ NotSent
      /\ confirmation = Confirmation(request)
  BY <1>1, <1>3 DEF TransactionInv, SettingUp, Numbers
<1>5. SentNow' /\ \A n \in Numbers : tried'[n] <= 1
  BY <1>1, <1>4 DEF TransactionInv, NotSent, SentNow, Numbers
<1>6. TransactionInv'
  <2>1. Confirmation(request)' = Confirmation(request)
    BY <1>1 DEF Confirmation
  <2> QED
    BY <1>1, <1>4, <1>5, <2>1 DEF TransactionInv, SettingUp
<1>7. /\ inbox[t] = <<>>
      /\ \A i \in DOMAIN requests[t] : requests[t][i].kind \in Updates
  BY <1>1, <1>2, <1>3 DEF WireInv, Outstanding
<1>8. request \notin Updates => Outstanding'
  BY <1>1, <1>4 DEF Outstanding, Confirmation, SettingUp
<1>9. \/ requests' = requests
      \/ \E s : requests' = [requests EXCEPT ![t] = Append(@,
                  [kind |-> request, number |-> number, states |-> s])]
  BY <1>2 DEF Send, SendSucceeds, SendFails
<1>10. WireInv'
  <2>1. CASE requests' = requests
    BY <1>1, <1>2, <1>7, <2>1 DEF WireInv
  <2>2. ASSUME NEW s, requests' = [requests EXCEPT ![t] = Append(@,
                        [kind |-> request, number |-> number, states |-> s])]
        PROVE  WireInv'
    <3> DEFINE r == requests[t]
               m == [kind |-> request, number |-> number, states |-> s]
    <3>1. /\ r \in Seq(Message)
          /\ requests'[t] = Append(r, m)
          /\ \A u \in Threads \ {t} : requests'[u] = requests[u]
      BY <2>2
    <3>2. /\ \A i \in DOMAIN Append(r, m) :
               i = Len(r) + 1 \/ (i \in DOMAIN r /\ Append(r, m)[i] = r[i])
          /\ Append(r, m)[Len(r) + 1] = m
      BY <3>1
    <3>3. \A i \in DOMAIN requests'[t] : requests'[t][i].kind \notin Updates =>
            i = Len(r) + 1 /\ requests'[t][i] = m /\ request \notin Updates
      BY <1>7, <3>1, <3>2
    <3>4. \A u \in Threads : pc'[u] = "none" => u # t /\ pc[u] = "none"
      BY <1>1
    <3>5. \A u \in Threads : pc'[u] = "none" =>
            requests'[u] = <<>> /\ inbox'[u] = <<>>
      BY <1>1, <3>1, <3>4 DEF WireInv
    <3>6. \A i \in DOMAIN requests'[t] :
            requests'[t][i].kind \notin Updates =>
              /\ Outstanding'
              /\ requests'[t][i].kind = request'
              /\ requests'[t][i].number = number'
              /\ \A j \in DOMAIN requests'[t] :
                   requests'[t][j].kind \notin Updates => j = i
      BY <1>1, <1>8, <3>3
    <3>7. inbox'[t] = <<>> /\ carrier' = t /\ handle' = t
      BY <1>1, <1>2, <1>7
    <3> QED
      BY <3>5, <3>6, <3>7 DEF WireInv
  <2> QED
    BY <1>9, <2>1, <2>2
<1> QED
  BY <1>6, <1>10

\* Reported as sent, it awaits its reply or is finished.
LEMMA IndicateKeepsRequest ==
  ASSUME TypeInv, HandleInv, TransactionInv, WireInv,
         NEW t \in Threads, Indicate(t)
  PROVE  TransactionInv' /\ WireInv'
<1> USE DEF TypeInv, TypeOK
<1>1. /\ pc[t] = "indicate" /\ pc' = [pc EXCEPT ![t] = "receive"]
      /\ state' = Transmitted
      /\ UNCHANGED <<caller, handle, angle, request, confirmation, requests,
                     inbox, number, carrier, tried, answered>>
  BY DEF Indicate, Go, call, wire, past, log
<1>2. \A u \in Threads \ {t} : pc[u] # "indicate"
  BY <1>1 DEF HandleInv, Running, InLoop
<1>3. state = "REQUEST_TO_SEND" /\ ~SettingUp
  BY <1>1 DEF TransactionInv, SettingUp
<1>4. SentNow /\ number # 0 /\ confirmation = Confirmation(request)
  BY <1>1, <1>3 DEF TransactionInv, SettingUp
<1>5. /\ SentNow'
      /\ Confirmation(request)' = Confirmation(request)
      /\ \A u \in Threads : pc'[u] # "indicate"
  BY <1>1, <1>2, <1>4 DEF SentNow, Confirmation
<1>6. TransactionInv'
  <2>1. \/ state' = "AWAITING" /\ confirmation # "NO_PACKET"
        \/ state' = "FINISHED" /\ confirmation = "NO_PACKET"
    BY <1>1 DEF Transmitted
  <2>2. confirmation = "NO_PACKET" => request # "MOVE"
    BY <1>4 DEF Confirmation, Updates
  <2> QED
    BY <1>1, <1>3, <1>4, <1>5, <2>1, <2>2 DEF TransactionInv, SettingUp
<1>7. Outstanding => Outstanding'
  BY <1>1, <1>3, <1>4 DEF Outstanding, Transmitted
<1>8. WireInv'
  BY <1>1, <1>7 DEF WireInv
<1> QED
  BY <1>6, <1>8

LEMMA TailOfOne ==
  ASSUME NEW S, NEW s \in Seq(S), Len(s) = 1 PROVE Tail(s) = <<>>
<1>1. s # <<>>
  OBVIOUS
<1>2. Tail(s) \in Seq(S) /\ Len(Tail(s)) = 0
  BY <1>1
<1> QED
  BY <1>2, EmptySeq

\* What is received is the reply to the transaction, and finishes it.
LEMMA ReceiveKeepsRequest ==
  ASSUME TypeInv, HandleInv, SocketInv, TransactionInv, WireInv,
         NEW t \in Threads, Receive(t)
  PROVE  TransactionInv' /\ WireInv'
<1> USE DEF TypeInv, TypeOK
<1> DEFINE m == Head(inbox[t])
<1>1. pc[t] = "receive"
  BY DEF Receive
<1>2. t = handle /\ socket = t
  BY <1>1 DEF HandleInv, SocketInv, Running, InLoop
<1>3. \A u \in Threads : pc[u] # "indicate"
  BY <1>1, <1>2 DEF HandleInv, Running, InLoop
<1>4. /\ inbox[t] # <<>>
      /\ angle' = IF m.kind = "MOVE" THEN m.number ELSE angle
      /\ state' = IF FinishedBy(m.kind) THEN "FINISHED" ELSE state
      /\ answered' = answered \cup {m.number}
      /\ inbox' = [inbox EXCEPT ![t] = Tail(@)]
      /\ pc' = [pc EXCEPT ![t] = "loop"]
      /\ UNCHANGED <<caller, handle, request, confirmation, requests, number,
                     carrier, tried>>
  BY <1>2 DEF Receive, Go, call
<1>5. /\ Outstanding
      /\ Len(inbox[t]) = 1
      /\ m.kind = request /\ m.number = number
      /\ \A i \in DOMAIN requests[t] : requests[t][i].kind \in Updates
  <2>1. Len(inbox[t]) = 1 /\ m = inbox[t][1]
    BY <1>2, <1>4 DEF WireInv
  <2> QED
    BY <1>2, <1>4, <2>1 DEF WireInv
<1>6. /\ state = "AWAITING" /\ ~SettingUp /\ confirmation = request
      /\ number # 0
  BY <1>3, <1>5 DEF Outstanding, SettingUp
<1>7. /\ state' = "FINISHED" /\ number \in answered'
      /\ request = "MOVE" => angle' = number
  BY <1>4, <1>5, <1>6 DEF FinishedBy
<1>8. TransactionInv'
  <2>1. /\ SentNow'
        /\ Confirmation(request)' = Confirmation(request)
    BY <1>4, <1>6 DEF TransactionInv, SettingUp, SentNow, Confirmation
  <2>2. \A u \in Threads : pc'[u] # "indicate"
    BY <1>3, <1>4
  <2> QED
    BY <1>4, <1>6, <1>7, <2>1, <2>2 DEF TransactionInv, SettingUp
<1>9. inbox'[t] = <<>> /\ \A u \in Threads \ {t} : inbox'[u] = inbox[u]
  <2>1. Tail(inbox[t]) = <<>>
    BY <1>5, TailOfOne
  <2> QED
    BY <1>4, <2>1
<1>10. WireInv'
  BY <1>2, <1>4, <1>5, <1>9 DEF WireInv
<1> QED
  BY <1>8, <1>10

\* The peer takes the one request it must answer, and answers it.
LEMMA AnswerKeepsRequest ==
  ASSUME TypeInv, TransactionInv, WireInv, NEW t \in Threads, Answer(t)
  PROVE  TransactionInv' /\ WireInv'
<1> USE DEF TypeInv, TypeOK
<1> DEFINE r == requests[t]
<1>1. /\ r # <<>> /\ requests' = [requests EXCEPT ![t] = Tail(r)]
      /\ UNCHANGED <<caller, handle, pc, angle, request, confirmation, state,
                     number, carrier, tried, answered>>
      /\ inbox' = IF Head(r).kind \in Updates THEN inbox
                  ELSE [inbox EXCEPT ![t] = Append(@, Head(r))]
  BY DEF Answer, call, data, tx, past, log
<1>2. /\ Outstanding' <=> Outstanding
      /\ NotSent' <=> NotSent
      /\ SentNow' <=> SentNow
      /\ Confirmation(request)' = Confirmation(request)
  BY <1>1 DEF Outstanding, NotSent, SentNow, Confirmation
<1>3. TransactionInv'
  BY <1>1, <1>2 DEF TransactionInv
<1>4. /\ r \in Seq(Message) /\ Head(r) = r[1] /\ 1 \in DOMAIN r
      /\ \A i \in DOMAIN Tail(r) : i + 1 \in DOMAIN r /\ Tail(r)[i] = r[i + 1]
                                   /\ i + 1 # 1 /\ i \in Nat
  BY <1>1
<1>5. /\ requests'[t] = Tail(r)
      /\ \A u \in Threads \ {t} :
           requests'[u] = requests[u] /\ inbox'[u] = inbox[u]
  BY <1>1
<1>6. pc[t] # "none"
  BY <1>1 DEF WireInv
<1>7. ASSUME t = handle
      PROVE  /\ carrier = t
             /\ \A i \in DOMAIN Tail(r) : Tail(r)[i].kind \notin Updates =>
                  /\ Outstanding
                  /\ Tail(r)[i].kind = request
                  /\ Tail(r)[i].number = number
                  /\ inbox'[t] = <<>>
                  /\ \A j \in DOMAIN Tail(r) :
                       Tail(r)[j].kind \notin Updates => j = i
  <2>1. carrier = t
    BY <1>1, <1>7 DEF WireInv
  <2>2. ASSUME NEW i \in DOMAIN Tail(r), Tail(r)[i].kind \notin Updates
        PROVE  /\ Outstanding
               /\ Tail(r)[i].kind = request
               /\ Tail(r)[i].number = number
               /\ inbox'[t] = <<>>
               /\ \A j \in DOMAIN Tail(r) :
                    Tail(r)[j].kind \notin Updates => j = i
    <3>1. /\ Outstanding
          /\ r[i + 1].kind = request
          /\ r[i + 1].number = number
          /\ inbox[t] = <<>>
          /\ \A j \in DOMAIN r : r[j].kind \notin Updates => j = i + 1
      BY <1>4, <1>7, <2>2 DEF WireInv
    <3>2. Head(r).kind \in Updates
      BY <1>4, <3>1
    <3>3. \A j \in DOMAIN Tail(r) : Tail(r)[j].kind \notin Updates => j = i
      BY <1>4, <3>1
    <3> QED
      BY <1>1, <1>4, <3>1, <3>2, <3>3
  <2> QED
    BY <2>1, <2>2
<1>8. ASSUME t = handle, inbox'[t] # <<>>
      PROVE  /\ Outstanding
             /\ Len(inbox'[t]) = 1
             /\ inbox'[t][1].kind = request
             /\ inbox'[t][1].number = number
  <2>1. CASE Head(r).kind \in Updates
    BY <1>1, <1>8, <2>1 DEF WireInv
  <2>2. CASE Head(r).kind \notin Updates
    <3>1. /\ Outstanding /\ inbox[t] = <<>>
          /\ Head(r).kind = request /\ Head(r).number = number
      BY <1>4, <1>8, <2>2 DEF WireInv
    <3>2. inbox'[t] = Append(<<>>, Head(r)) /\ Head(r) \in Message
      BY <1>1, <1>4, <2>2, <3>1
    <3>3. Len(inbox'[t]) = 1 /\ inbox'[t][1] = Head(r)
      BY <3>2
    <3> QED
      BY <3>1, <3>3
  <2> QED
    BY <2>1, <2>2
<1>9. WireInv'
  <2>1. \A u \in Threads : pc'[u] = "none" =>
          requests'[u] = <<>> /\ inbox'[u] = <<>>
    BY <1>1, <1>5, <1>6 DEF WireInv
  <2>2. CASE t = handle
    BY <1>1, <1>2, <1>5, <1>7, <1>8, <2>1, <2>2 DEF WireInv
  <2>3. CASE t # handle
    BY <1>1, <1>2, <1>5, <2>1, <2>3 DEF WireInv
  <2> QED
    BY <2>2, <2>3
<1> QED
  BY <1>3, <1>9

\* A connection that is lost loses what it carried.
LEMMA LoseKeepsRequest ==
  ASSUME TypeInv, TransactionInv, WireInv, NEW t \in Threads, Lose(t)
  PROVE  TransactionInv' /\ WireInv'
<1> USE DEF TypeInv, TypeOK
<1>1. /\ UNCHANGED <<caller, handle, pc, angle, request, confirmation, state,
                     number, carrier, tried, answered>>
      /\ requests' = [requests EXCEPT ![t] = <<>>]
      /\ inbox' = inbox \/ inbox' = [inbox EXCEPT ![t] = <<>>]
  BY DEF Lose, call, data, tx, past, log
<1>2. /\ Outstanding' <=> Outstanding
      /\ NotSent' <=> NotSent
      /\ SentNow' <=> SentNow
      /\ Confirmation(request)' = Confirmation(request)
  BY <1>1 DEF Outstanding, NotSent, SentNow, Confirmation
<1>3. TransactionInv'
  BY <1>1, <1>2 DEF TransactionInv
<1>4. \A u \in Threads : /\ requests'[u] \in {requests[u], <<>>}
                         /\ inbox'[u] \in {inbox[u], <<>>}
  BY <1>1
<1>5. WireInv'
  BY <1>1, <1>2, <1>4 DEF WireInv
<1> QED
  BY <1>3, <1>5

LEMMA NextRequest == IInv /\ [Next]_vars => RequestInv'
<1> SUFFICES ASSUME IInv, [Next]_vars PROVE RequestInv'
  OBVIOUS
<1>1. CASE Caller \/ Call
  BY <1>1, CallerKeepsRequest
<1>2. ASSUME NEW t \in Threads, Thread(t) \/ Answer(t) \/ Lose(t)
      PROVE  RequestInv'
  <2> SUFFICES ASSUME Orderly'
               PROVE  TransactionInv' /\ WireInv'
    BY DEF RequestInv
  <2>1. Orderly /\ ~ReadWild(t)
    BY OrderlyBefore
  <2>2. TypeInv /\ HandleInv /\ SocketInv /\ TransactionInv /\ WireInv
    BY <2>1 DEF IInv, ConnectionInv, RequestInv, Orderly
  <2>3. CASE \/ GiveUp(t) \/ OpenSocket(t) \/ ConnectSucceeds(t)
             \/ ConnectFails(t) \/ Mark(t) \/ LeaveLoop(t)
             \/ NothingToSend(t) \/ NothingToReceive(t)
             \/ Shutdown(t) \/ CloseSocket(t)
    <3>1. /\ UNCHANGED <<caller, handle, tx, angle, number, carrier, tried,
                         answered, requests, inbox>>
          /\ pc[t] \notin {"none", "indicate"}
          /\ \E l \in {"connect", "mark", "resolve", "loop", "receive",
                       "shutdown", "drain", "ended"} :
               pc' = [pc EXCEPT ![t] = l]
      BY <2>3 DEF GiveUp, OpenSocket, ConnectSucceeds, ConnectFails, Mark,
                  LeaveLoop, NothingToSend, NothingToReceive, Shutdown,
                  CloseSocket, Go, call, data, wire, past, log
    <3>2. \A u \in Threads : /\ pc'[u] = "indicate" <=> pc[u] = "indicate"
                             /\ pc'[u] = "none" => pc[u] = "none"
      BY <2>2, <3>1 DEF TypeInv, TypeOK
    <3> QED
      BY <2>2, <3>1, <3>2, QuietStep
  <2>5. CASE Send(t)
    BY <2>2, <2>5, SendKeepsRequest
  <2>6. CASE Indicate(t)
    BY <2>2, <2>6, IndicateKeepsRequest
  <2>7. CASE Receive(t)
    BY <2>2, <2>7, ReceiveKeepsRequest
  <2>8. CASE Answer(t)
    BY <2>2, <2>8, AnswerKeepsRequest
  <2>9. CASE Lose(t)
    BY <2>2, <2>9, LoseKeepsRequest
  <2> QED
    BY <1>2, <2>1, <2>3, <2>5, <2>6, <2>7, <2>8, <2>9 DEF Thread
<1>3. CASE UNCHANGED vars
  <2>1. UNCHANGED <<caller, handle, tx, angle, number, carrier, tried,
                    answered, requests, inbox, pc, hasty, early>>
    BY <1>3 DEF vars, call, data, wire, past, log
  <2> QED
    BY <2>1, QuietStep DEF IInv, RequestInv, Orderly
<1> QED
  BY <1>1, <1>2, <1>3 DEF Next

LEMMA NextTaken == IInv /\ [Next]_vars => TakenInv'
<1> SUFFICES ASSUME IInv, [Next]_vars, Orderly', SentOver'
             PROVE  number' = 0 \/ number' \in transmitted'
  BY DEF TakenInv, TransmittedInv
<1> USE DEF call, data, tx, wire, past, log, SentOver
<1>1. /\ TypeInv /\ HandleInv /\ TransactionInv
      /\ SentOver => number = 0 \/ number \in transmitted
      /\ \A t \in Threads : ~ReadWild(t)
  BY OrderlyBefore DEF IInv, ConnectionInv, RequestInv, TakenInv, Orderly,
                       TransmittedInv
<1>2. CASE \/ \E t \in Threads : ConnectPlayer(t)
           \/ DisconnectPlayer
           \/ \E k \in Requests : SetUp(k)
           \/ WriteConfirmation
  BY <1>2 DEF ConnectPlayer, DisconnectPlayer, SetUp, WriteConfirmation
<1>3. CASE WaitForDisconnection
  <2>1. /\ UNCHANGED <<handle, alive, state, pc, number, carrier, transmitted>>
        /\ caller = "free"
    BY <1>3 DEF WaitForDisconnection
  <2> QED
    BY <1>1, <2>1
<1>11. CASE ForgetThread
  BY <1>1, <1>11 DEF ForgetThread, HandleInv
<1>4. CASE WriteState
  BY <1>1, <1>4 DEF WriteState, TransactionInv
<1>5. ASSUME NEW t \in Threads,
             \/ GiveUp(t) \/ OpenSocket(t) \/ ConnectSucceeds(t)
             \/ ConnectFails(t) \/ LeaveLoop(t) \/ NothingToSend(t)
             \/ NothingToReceive(t) \/ Shutdown(t) \/ CloseSocket(t)
      PROVE  number' = 0 \/ number' \in transmitted'
  <2>1. /\ UNCHANGED <<caller, handle, alive, state, number, carrier,
                       transmitted>>
        /\ \E l \in {"connect", "mark", "resolve", "loop", "receive",
                     "shutdown", "drain", "ended"} :
             pc' = [pc EXCEPT ![t] = l]
    BY <1>5 DEF GiveUp, OpenSocket, ConnectSucceeds, ConnectFails, LeaveLoop,
                NothingToSend, NothingToReceive, Shutdown, CloseSocket, Go
  <2>2. \A u \in Threads : pc'[u] = "indicate" => pc[u] = "indicate"
    BY <1>1, <2>1 DEF TypeInv, TypeOK
  <2> QED
    BY <1>1, <2>1, <2>2
<1>6. ASSUME NEW t \in Threads, Mark(t)
      PROVE  number' = 0 \/ number' \in transmitted'
  <2>1. t = handle /\ t # carrier /\ ~alive
    BY <1>1, <1>6 DEF Mark, HandleInv, Running, Connecting
  <2> QED
    BY <1>6, <2>1 DEF Mark
<1>7. ASSUME NEW t \in Threads, Send(t)
      PROVE  number' = 0 \/ number' \in transmitted'
  BY <1>7 DEF Send, SendSucceeds, SendFails
<1>8. ASSUME NEW t \in Threads, Indicate(t)
      PROVE  number' = 0 \/ number' \in transmitted'
  BY <1>1, <1>8 DEF Indicate
<1>9. ASSUME NEW t \in Threads, Receive(t)
      PROVE  number' = 0 \/ number' \in transmitted'
  <2>1. \A u \in Threads : pc'[u] = "indicate" => pc[u] = "indicate"
    BY <1>1, <1>9 DEF Receive, Go, TypeInv, TypeOK
  <2>2. state' # "REQUEST_TO_SEND" => state # "REQUEST_TO_SEND"
    BY <1>9 DEF Receive, FinishedBy
  <2> QED
    BY <1>1, <1>9, <2>1, <2>2 DEF Receive
<1>10. CASE UNCHANGED vars \/ \E t \in Threads : Answer(t) \/ Lose(t)
  <2>1. UNCHANGED <<caller, handle, alive, state, pc, number, carrier,
                    transmitted>>
    BY <1>10 DEF vars, Answer, Lose
  <2> QED
    BY <1>1, <2>1
<1> QED
  BY <1>1, <1>2, <1>3, <1>4, <1>5, <1>6, <1>7, <1>8, <1>9, <1>10, <1>11
     DEF Next, Caller, Call, Thread

\* Only the step that sends tries to, and leaves the transaction tried once.
LEMMA NextOnce == IInv /\ [Next]_vars => SentOnce'
<1> SUFFICES ASSUME IInv, [Next]_vars PROVE SentOnce'
  OBVIOUS
<1>1. ASSUME NEW t \in Threads, Send(t) PROVE SentOnce'
  <2> SUFFICES ASSUME ~hasty, ~early PROVE \A n \in Numbers : tried'[n] <= 1
    BY <1>1 DEF SentOnce, Send
  <2>1. HandleInv /\ SocketInv /\ TypeInv
    BY DEF IInv, ConnectionInv
  <2>2. caller # "crashed"
    BY <1>1, <2>1 DEF HandleInv, Send, Running, InLoop
  <2>3. TransactionInv /\ WireInv
    BY <2>2 DEF IInv, RequestInv, Orderly
  <2> QED
    BY <1>1, <2>1, <2>3, SendKeepsRequest DEF TransactionInv
<1>2. ASSUME UNCHANGED tried, ~hasty' => ~hasty, ~early' => ~early
      PROVE  SentOnce'
  BY <1>2 DEF IInv, SentOnce
<1>3. CASE Caller \/ Call
  BY <1>2, <1>3
     DEF Caller, ConnectPlayer, DisconnectPlayer, WaitForDisconnection, SetUp,
         Call, ForgetThread, WriteConfirmation, WriteState, past, log
<1>4. ASSUME NEW t \in Threads, Thread(t) \/ Answer(t) \/ Lose(t), ~Send(t)
      PROVE  UNCHANGED <<tried, hasty, early>>
  BY <1>4
     DEF Thread, GiveUp, OpenSocket, ConnectSucceeds, ConnectFails, Mark,
         LeaveLoop, NothingToSend, Indicate, Receive, NothingToReceive,
         ReadWild, Shutdown, CloseSocket, Answer, Lose, past, log
<1>5. CASE UNCHANGED vars
  BY <1>2, <1>5 DEF vars, past, log
<1> QED
  BY <1>1, <1>2, <1>3, <1>4, <1>5 DEF Next

LEMMA Invariance == Spec => []IInv
<1>1. Init => IInv
  BY InitType, InitConnection, InitRequest DEF IInv
<1>2. IInv /\ [Next]_vars => IInv'
  BY NextType, NextConnection, NextRequest, NextTaken, NextOnce DEF IInv
<1> QED
  BY <1>1, <1>2, PTL DEF Spec

\* For a caller that waits, the sending of a transaction is tried at most once,
\* however connections end between its being set up and its being sent.
THEOREM SentOnceCorrect == Spec => []SentOnce
<1>1. IInv => SentOnce
  BY DEF IInv
<1> QED
  BY <1>1, Invariance, PTL

\* For a caller that waits, isTransactionFinished speaks of this transaction: it
\* was answered or, where there is no answer, taken by send or its connection
\* has ended.
THEOREM FinishedCorrect == Spec => []FinishedMeansDone
<1>1. IInv => FinishedMeansDone
  <2> SUFFICES ASSUME IInv, ~hasty, ~early, caller = "free",
                      state = "FINISHED"
               PROVE  /\ confirmation # "NO_PACKET" => number \in answered
                      /\ request = "MOVE" => angle = number
                      /\ alive /\ carrier = handle => number \in transmitted
    BY DEF FinishedMeansDone
  <2>1. TransactionInv /\ TransmittedInv /\ number # 0
    BY DEF IInv, RequestInv, TakenInv, Orderly, TypeInv
  <2>2. alive /\ carrier = handle => number \in transmitted
    BY <2>1 DEF TransmittedInv, SentOver
  <2> QED
    BY <2>1, <2>2 DEF TransactionInv
<1> QED
  BY <1>1, Invariance, PTL

(***************************************************************************)
(* Sockets.                                                                *)
(***************************************************************************)

UsesSocket(t) ==
  pc[t] \in {"connect", "mark", "loop", "indicate", "receive", "shutdown",
             "drain"}

\* A thread uses the socket it has opened itself, which nobody else closes; it
\* leaves none open behind, and reads from none that is not connected.
OwnSockets ==
  /\ \A t \in Threads :
       UsesSocket(t) <=> opened[t] \in {"open", "connected"}
  /\ \A t \in Threads : UsesSocket(t) => socket = t

SocketsReleased ==
  ~early /\ caller # "crashed" =>
    OwnSockets /\ \A t \in Threads : pc[t] = "receive" => Usable

LEMMA SocketsKept ==
  ASSUME TypeInv, SocketInv, HandleInv, OwnSockets, [Next]_vars,
         \A t \in Threads : ~ReadWild(t)
  PROVE  OwnSockets'
<1> USE DEF TypeInv, TypeOK, OwnSockets, UsesSocket, data, past, call, log
<1>2. CASE \E t \in Threads : ConnectPlayer(t)
  BY <1>2 DEF ConnectPlayer
<1>3. CASE \/ DisconnectPlayer \/ WaitForDisconnection
           \/ \E k \in Requests : SetUp(k)
  BY <1>3 DEF DisconnectPlayer, WaitForDisconnection, SetUp
<1>4. CASE Call
  BY <1>4 DEF Call, ForgetThread, WriteConfirmation, WriteState
<1>5. ASSUME NEW t \in Threads, NEW l \in {"resolve", "ended"},
             \A u \in Threads \ {t} : ~UsesSocket(u),
             pc' = [pc EXCEPT ![t] = l],
             opened' = [opened EXCEPT ![t] = "closed"]
      PROVE  OwnSockets'
  <2>1. \A u \in Threads : ~UsesSocket(u)'
    BY <1>5
  <2>2. \A u \in Threads : opened'[u] \notin {"open", "connected"}
    BY <1>5
  <2> HIDE DEF UsesSocket, TypeInv
  <2> QED
    BY <2>1, <2>2
<1>6. ASSUME NEW t \in Threads, Thread(t) PROVE OwnSockets'
  <2>1. t # 0
    BY DEF Threads
  <2>2. CASE GiveUp(t)
    <3>1. pc[t] = "resolve" /\ pc' = [pc EXCEPT ![t] = "ended"]
          /\ opened' = opened /\ \A u \in Threads : ~UsesSocket(u)
      BY <2>2 DEF GiveUp, Go, HandleInv, Running, Connecting, InLoop
    <3> QED
      BY <2>1, <3>1
  <2>3. CASE OpenSocket(t)
    BY <2>1, <2>3 DEF OpenSocket, Go, HandleInv, Running, Connecting,
                            InLoop
  <2>4. CASE ConnectSucceeds(t)
    BY <2>1, <2>4 DEF ConnectSucceeds, Go
  <2>5. CASE ConnectFails(t)
    <3>1. socket = t /\ opened' = [opened EXCEPT ![t] = "closed"]
      BY <2>1, <2>5 DEF ConnectFails, CloseCurrent
    <3>2. \A u \in Threads \ {t} : ~UsesSocket(u)
      BY <3>1
    <3>3. \/ pc' = [pc EXCEPT ![t] = "resolve"]
          \/ pc' = [pc EXCEPT ![t] = "ended"]
      BY <2>5 DEF ConnectFails, Go
    <3> QED
      BY <1>5, <3>1, <3>2, <3>3
  <2>6. CASE Mark(t)
    BY <2>1, <2>6 DEF Mark, Go
  <2>7. CASE LeaveLoop(t) \/ NothingToSend(t) \/ NothingToReceive(t)
    BY <2>1, <2>7 DEF LeaveLoop, NothingToSend, NothingToReceive, Go
  <2>8. CASE Send(t)
    BY <2>1, <2>8 DEF Send, SendSucceeds, SendFails, Go
  <2>9. CASE Indicate(t)
    BY <2>1, <2>9 DEF Indicate, Go
  <2>10. CASE Receive(t)
    BY <2>1, <2>10 DEF Receive, Go
  <2>12. CASE Shutdown(t) \/ CloseSocket(t)
    <3>1. socket = t /\ \A u \in Threads \ {t} : ~UsesSocket(u)
      BY <2>12 DEF Shutdown, CloseSocket
    <3>2. \/ pc' = [pc EXCEPT ![t] = "drain"] /\ opened' = opened
             /\ socket' = socket
          \/ pc' = [pc EXCEPT ![t] = "ended"]
             /\ opened' = [opened EXCEPT ![t] = "closed"]
      BY <2>1, <2>12, <3>1 DEF Shutdown, CloseSocket, CloseCurrent, Go
    <3>3. CASE pc' = [pc EXCEPT ![t] = "drain"] /\ opened' = opened
               /\ socket' = socket
      <4>1. pc[t] \in {"shutdown", "drain"}
        BY <2>12 DEF Shutdown, CloseSocket
      <4>2. \A u \in Threads : UsesSocket(u)' <=> UsesSocket(u)
        BY <3>3, <4>1
      <4> HIDE DEF UsesSocket, TypeInv
      <4> QED
        BY <2>1, <3>3, <4>2
    <3> QED
      BY <1>5, <3>1, <3>2, <3>3
  <2> QED
    BY <1>6, <2>2, <2>3, <2>4, <2>5, <2>6, <2>7, <2>8, <2>9, <2>10, <2>12
       DEF Thread
<1>7. CASE \/ UNCHANGED vars
           \/ \E t \in Threads : Answer(t) \/ Lose(t)
  BY <1>7 DEF vars, Answer, Lose
<1> QED
  BY <1>2, <1>3, <1>4, <1>6, <1>7 DEF Next, Caller

LEMMA NextReleased ==
  TypeInv /\ ConnectionInv /\ SocketsReleased /\ [Next]_vars
    => SocketsReleased'
<1> SUFFICES ASSUME TypeInv, ConnectionInv, SocketsReleased, [Next]_vars,
                    ~early', caller' # "crashed"
             PROVE  (OwnSockets /\ \A t \in Threads : pc[t] = "receive" => Usable)'
  BY DEF SocketsReleased
<1>1. ~early /\ caller # "crashed" /\ \A t \in Threads : ~ReadWild(t)
  BY NotCrashedBefore
<1>2. OwnSockets'
  BY <1>1, SocketsKept DEF ConnectionInv, SocketsReleased
<1>3. SocketInv'
  BY NextConnection DEF ConnectionInv
<1>4. (\A t \in Threads : pc[t] = "receive" => Usable)'
  BY <1>3 DEF SocketInv, Usable, Threads
<1> QED
  BY <1>2, <1>4

\* As long as none of the three calls comes early, no socket is leaked, closed
\* twice or used by two threads (closesocket of whatever connectionSocket is),
\* and FIONREAD is never asked of a socket that is not connected: what is left
\* that recv can fail on is a reset between the two.
THEOREM SocketsCorrect == Spec => []SocketsReleased
<1>1. Init => SocketsReleased
  BY DEF Init, SocketsReleased, OwnSockets, UsesSocket, Threads
<1> QED
  BY <1>1, NextReleased, ConnectionInvariance, PTL DEF Spec
=============================================================================
