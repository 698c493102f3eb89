-------------------------- MODULE ConnectionServer --------------------------
(***************************************************************************)
(* Server (connection_server.cpp): the thread that accepts clients, the    *)
(* operations of the thread that owns the server, and what the life of a   *)
(* ConnectionClient and its thread means to them.                          *)
(*                                                                         *)
(* The map of clients is guarded by clientsMutex, except for the test of   *)
(* its size before a client is admitted.  Erasing a client runs its        *)
(* destructor: the members declared after the thread (queue and mutex) are *)
(* destroyed first, then the thread is asked to stop and joined.           *)
(***************************************************************************)
EXTENDS Naturals, FiniteSets

CONSTANTS
  ClientLimit,      \* the limit given to the constructor
  MaxConnections    \* bound: connections that are admitted

ASSUME ConstantsAssumption ==
  /\ ClientLimit \in Nat
  /\ MaxConnections \in Nat

VARIABLES
  isAccepting,  \* Server::isAccepting
  clients,      \* keys of Server::clients
  mutex,        \* holder of clientsMutex, or "free"
  nextId,       \* the static clientId of serverThreadFunc
  server,       \* where the server thread is
  owner,        \* where the owner's thread is
  scan,         \* clients the owner's walk has not looked at yet
  snapshot,     \* what getClients has read of them
  victim,       \* the client that is being destroyed
  destroyed,    \* clients whose queue and mutex are destroyed
  thread,       \* where each connection thread is
  active,       \* ConnectionClient::active
  stop,         \* threads that were asked to stop
  disconnected, \* clients with a ConnectionClient::disconnectionTime
  removed       \* history: clients destroyed by removeClient

erasing == <<owner, scan, snapshot, victim, destroyed, removed>>
conns   == <<thread, active, stop, disconnected>>
vars    == <<isAccepting, clients, mutex, nextId, server, erasing, conns>>

Ids  == 0 .. MaxConnections - 1
Info == [active : {"unread", "yes", "no"},
         since  : {"unread", "zero", "set", "never set"}]

NoInfo == [i \in Ids |-> [active |-> "unread", since |-> "unread"]]

TypeOK ==
  /\ isAccepting \in BOOLEAN
  /\ clients \subseteq Ids
  /\ mutex \in {"free", "owner"}
  /\ nextId \in 0 .. MaxConnections
  /\ server \in {"accept", "check", "admit", "ended"}
  /\ owner \in {"idle", "erase", "join", "list"}
  /\ scan \subseteq Ids
  /\ snapshot \in [Ids -> Info]
  /\ victim \subseteq Ids
  /\ destroyed \subseteq Ids
  /\ thread \in [Ids -> {"none", "polling", "leaving", "stamped", "ended"}]
  /\ active = {i \in Ids : thread[i] \in {"polling", "leaving", "stamped"}}
  /\ stop \subseteq Ids
  /\ disconnected \subseteq Ids
  /\ removed \subseteq Ids

Init ==
  /\ isAccepting = TRUE
  /\ clients = {}
  /\ mutex = "free"
  /\ nextId = 0
  /\ server = "accept"
  /\ owner = "idle"
  /\ scan = {}
  /\ snapshot = NoInfo
  /\ victim = {}
  /\ destroyed = {}
  /\ thread = [i \in Ids |-> "none"]
  /\ active = {}
  /\ stop = {}
  /\ disconnected = {}
  /\ removed = {}

(***************************************************************************)
(* The server thread.                                                      *)
(***************************************************************************)

\* accept returns a connection ...
Connect ==
  /\ server = "accept"
  /\ nextId < MaxConnections
  /\ server' = "check"
  /\ UNCHANGED <<isAccepting, clients, mutex, nextId, erasing, conns>>

\* ... or an error, which ends the thread.
AcceptFails ==
  /\ server = "accept"
  /\ server' = "ended"
  /\ UNCHANGED <<isAccepting, clients, mutex, nextId, erasing, conns>>

\* Mutant: one client too many.
HasRoomForOneMore == Cardinality(clients) <= ClientLimit

HasRoom == Cardinality(clients) < ClientLimit

\* isAccepting and the number of clients are tested without the mutex.
Check ==
  /\ server = "check"
  /\ server' = IF isAccepting /\ HasRoom THEN "admit" ELSE "accept"
  /\ UNCHANGED <<isAccepting, clients, mutex, nextId, erasing, conns>>

\* Mutant: a client gets the lowest number that is free.
FreshIdLowest ==
  CHOOSE i \in Ids : i \notin clients /\ \A j \in 0 .. i - 1 : j \in clients

FreshId == nextId

\* The client is constructed in the map, its thread started.
Admit ==
  /\ server = "admit"
  /\ mutex = "free"
  /\ clients' = clients \cup {FreshId}
  /\ thread' = [thread EXCEPT ![FreshId] = "polling"]
  /\ active' = active \cup {FreshId}
  /\ nextId' = nextId + 1
  /\ server' = "accept"
  /\ UNCHANGED <<isAccepting, mutex, erasing, stop, disconnected>>

(***************************************************************************)
(* The owner's thread.                                                     *)
(***************************************************************************)

RejectIncomingConnections ==
  /\ owner = "idle"
  /\ isAccepting' = FALSE
  /\ UNCHANGED <<clients, mutex, nextId, server, erasing, conns>>

AcceptIncomingConnections ==
  /\ owner = "idle"
  /\ isAccepting' = TRUE
  /\ UNCHANGED <<clients, mutex, nextId, server, erasing, conns>>

RemoveAllInactiveClients ==
  /\ owner = "idle"
  /\ mutex = "free"
  /\ mutex' = "owner"
  /\ owner' = "erase"
  /\ scan' = clients
  /\ UNCHANGED <<isAccepting, clients, nextId, server, snapshot, victim,
                 destroyed, removed, conns>>

\* The destructor of client i up to the join of its thread.
Destroy(i) ==
  /\ victim' = {i}
  /\ destroyed' = destroyed \cup {i}
  /\ stop' = stop \cup {i}
  /\ owner' = "join"

\* Mutant: the condition is the wrong way round.
ErasableActive(i) == i \in active

Erasable(i) == i \notin active

\* std::erase_if looks at the next client.
EraseInactive(i) ==
  /\ owner = "erase"
  /\ i \in scan
  /\ scan' = scan \ {i}
  /\ IF Erasable(i) THEN Destroy(i)
     ELSE UNCHANGED <<victim, destroyed, stop, owner>>
  /\ UNCHANGED <<isAccepting, clients, mutex, nextId, server, snapshot, removed,
                 thread, active, disconnected>>

RemoveClient(i) ==
  /\ owner = "idle"
  /\ mutex = "free"
  /\ i \in clients
  /\ mutex' = "owner"
  /\ Destroy(i)
  /\ removed' = removed \cup {i}
  /\ UNCHANGED <<isAccepting, clients, nextId, server, scan, snapshot, thread,
                 active, disconnected>>

\* Mutant: the thread is asked to stop, but not joined.
JoinNot(i) ==
  /\ owner = "join"
  /\ i \in victim
  /\ clients' = clients \ {i}
  /\ victim' = {}
  /\ owner' = "erase"
  /\ UNCHANGED <<isAccepting, mutex, nextId, server, scan, snapshot, destroyed,
                 removed, conns>>

\* The thread is joined, the node of the map freed.
Join(i) ==
  /\ owner = "join"
  /\ i \in victim
  /\ thread[i] = "ended"
  /\ clients' = clients \ {i}
  /\ victim' = {}
  /\ owner' = "erase"
  /\ UNCHANGED <<isAccepting, mutex, nextId, server, scan, snapshot, destroyed,
                 removed, conns>>

Unlocked == "free"

\* The lock_guard goes out of scope.
Unlock ==
  /\ owner \in {"erase", "list"}
  /\ scan = {}
  /\ mutex' = Unlocked
  /\ owner' = "idle"
  /\ snapshot' = NoInfo
  /\ UNCHANGED <<isAccepting, clients, nextId, server, scan, victim,
                 destroyed, removed, conns>>

\* getClients, and getClient for one client ...
GetClients(S) ==
  /\ owner = "idle"
  /\ mutex = "free"
  /\ mutex' = "owner"
  /\ owner' = "list"
  /\ scan' = S
  /\ UNCHANGED <<isAccepting, clients, nextId, server, snapshot, victim,
                 destroyed, removed, conns>>

\* ... look at active twice, for ClientInfo::active and for
\* howLongDisconnected, in the order the compiler puts the arguments in.
ReadInfo(i, field, value) ==
  /\ owner = "list"
  /\ i \in scan
  /\ snapshot[i][field] = "unread"
  /\ snapshot' = [snapshot EXCEPT ![i][field] = value]
  /\ scan' = IF \E f \in {"active", "since"} : snapshot'[i][f] = "unread"
             THEN scan ELSE scan \ {i}
  /\ UNCHANGED <<isAccepting, clients, mutex, nextId, server, owner, victim,
                 destroyed, removed, conns>>

IsActive(i) == ReadInfo(i, "active", IF i \in active THEN "yes" ELSE "no")

GetDisconnectionTime(i) ==
  ReadInfo(i, "since", IF i \in active THEN "zero"
                       ELSE IF i \in disconnected THEN "set" ELSE "never set")

(***************************************************************************)
(* The connection threads.                                                 *)
(***************************************************************************)

\* Mutant: active is cleared before anything else is done.
InactiveWhenLeaving(i) == active \ {i}

ActiveWhenLeaving(i) == active

\* A failed transaction, or the owner, has asked the thread to stop.
LeaveLoop(i) ==
  /\ thread[i] = "polling"
  /\ thread' = [thread EXCEPT ![i] = "leaving"]
  /\ active' = ActiveWhenLeaving(i)
  /\ UNCHANGED <<isAccepting, clients, mutex, nextId, server, erasing, stop,
                 disconnected>>

\* disconnectionTime is set ...
Stamp(i) ==
  /\ thread[i] = "leaving"
  /\ thread' = [thread EXCEPT ![i] = "stamped"]
  /\ disconnected' = disconnected \cup {i}
  /\ UNCHANGED <<isAccepting, clients, mutex, nextId, server, erasing, active,
                 stop>>

\* ... and then the last thing the thread does to its client.
End(i) ==
  /\ thread[i] = "stamped"
  /\ active' = active \ {i}
  /\ thread' = [thread EXCEPT ![i] = "ended"]
  /\ UNCHANGED <<isAccepting, clients, mutex, nextId, server, erasing, stop,
                 disconnected>>

ServerThread == Connect \/ AcceptFails \/ Check \/ Admit

Locked ==
  \/ \E i \in Ids : EraseInactive(i) \/ Join(i)
  \/ \E i \in Ids : IsActive(i) \/ GetDisconnectionTime(i)
  \/ Unlock

OwnerCalls ==
  \/ RejectIncomingConnections \/ AcceptIncomingConnections
  \/ RemoveAllInactiveClients
  \/ \E i \in Ids : RemoveClient(i)
  \/ GetClients(clients)
  \/ \E i \in clients : GetClients({i})

Next ==
  \/ ServerThread
  \/ Locked
  \/ OwnerCalls
  \/ \E i \in Ids : LeaveLoop(i) \/ Stamp(i) \/ End(i)

Spec == Init /\ [][Next]_vars

\* The owner's thread is scheduled.  Of the connection threads nothing is
\* assumed: one may stay in a write, which has no timeout, for as long as its
\* peer takes no data.
Fairness == WF_vars(Locked)

FairSpec == Spec /\ Fairness

(***************************************************************************)
(* Properties.                                                             *)
(***************************************************************************)

\* Though it is tested without the mutex, the limit is never exceeded: the
\* other threads only remove clients, one at a time (Server::clientLimit).
LimitRespected == Cardinality(clients) <= ClientLimit

\* No client ever gets the id of an earlier one (a reference to a client is
\* kept by its id across calls, as by Game::players).
IdsAreFresh == [][\A i \in clients' \ clients : thread[i] = "none"]_vars

\* removeAllInactiveClients erases only clients whose thread is done with them:
\* it makes no thread find its queue and mutex destroyed.
TeardownSafe == \A i \in destroyed \ removed : thread[i] # "polling"

\* A client outlives its thread, by whichever operation it is removed: what the
\* thread writes last (disconnectionTime, active) it writes to a client that is
\* still in the map (the std::jthread joins in the destructor).
ThreadsHaveClients == active \subseteq clients

\* removeAllInactiveClients and getClients give clientsMutex back, whatever the
\* connection threads do: what is erased and joined, under the lock, is a thread
\* that is done.  (removeClient joins one that may not be: a peer that takes no
\* data then keeps the mutex from everybody.)
MutexReleased ==
  mutex = "owner" ~> mutex = "free" \/ victim \cap removed # {}

\* A snapshot never tells how long a client has been disconnected from a time
\* that was never set, though active and the time are read while the thread
\* ends (Server::getClients, ConnectionClient::getDisconnectionTime).
SnapshotTimesSet == \A i \in Ids : snapshot[i].since # "never set"

\* Violated (connection_server.h:65 "If the client is connected, it will be
\* first disconnected."): the thread of a client that is removed has left its
\* loop before the client's queue and mutex are destroyed.
FirstDisconnected == \A i \in destroyed : thread[i] # "polling"
=============================================================================
