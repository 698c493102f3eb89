----------------------- MODULE ConnectionServerProofs -----------------------
(***************************************************************************)
(* Theorems about ConnectionServer, for every limit and any number of      *)
(* connections.                                                            *)
(***************************************************************************)
EXTENDS ConnectionServer, FiniteSetTheorems, TLAPS

\* The thread of a client exists from the moment it is in the map.
ThreadsOK ==
  /\ \A i \in Ids : i >= nextId => thread[i] = "none"
  /\ \A i \in clients \cup scan : thread[i] # "none"
  /\ server \in {"check", "admit"} => nextId < MaxConnections

\* The test made without the mutex still holds when the client is admitted.
LimitInv ==
  /\ LimitRespected
  /\ server = "admit" => Cardinality(clients) < ClientLimit

\* The clients removeAllInactiveClients destroys are done with.
TeardownInv == \A i \in destroyed \ removed : thread[i] = "ended"

\* A thread whose client is not active any more has set the time before.
SnapshotInv ==
  /\ \A i \in Ids : thread[i] \in {"stamped", "ended"} => i \in disconnected
  /\ SnapshotTimesSet

IInv == TypeOK /\ ThreadsOK /\ LimitInv /\ TeardownInv /\ SnapshotInv

\* Sets of ids are finite, and erasing makes them no larger.
LEMMA IdsFinite ==
  ASSUME NEW S \in SUBSET Ids
  PROVE  /\ IsFiniteSet(S) /\ Cardinality(S) \in Nat
         /\ \A T \in SUBSET S : Cardinality(T) \in Nat /\ Cardinality(T) <= Cardinality(S)
         /\ \A i \in Ids : Cardinality(S \cup {i}) <= Cardinality(S) + 1
<1>1. IsFiniteSet(Ids)
  BY ConstantsAssumption, FS_Interval DEF Ids
<1>2. IsFiniteSet(S) /\ Cardinality(S) \in Nat
  BY <1>1, FS_Subset, FS_CardinalityType
<1>3. ASSUME NEW T \in SUBSET S
      PROVE  Cardinality(T) \in Nat /\ Cardinality(T) <= Cardinality(S)
  BY <1>2, FS_Subset, FS_CardinalityType
<1>4. ASSUME NEW i \in Ids PROVE Cardinality(S \cup {i}) <= Cardinality(S) + 1
  BY <1>2, FS_AddElement
<1> QED
  BY <1>2, <1>3, <1>4

LEMMA InitIInv == Init => IInv
<1> SUFFICES ASSUME Init PROVE IInv
  OBVIOUS
<1>1. TypeOK /\ ThreadsOK /\ TeardownInv
  BY ConstantsAssumption
     DEF Init, NoInfo, Info, TypeOK, ThreadsOK, TeardownInv, Ids
<1>2. LimitInv
  BY ConstantsAssumption, FS_EmptySet DEF Init, LimitInv, LimitRespected
<1>3. SnapshotInv
  BY DEF Init, NoInfo, SnapshotInv, SnapshotTimesSet
<1> QED
  BY <1>1, <1>2, <1>3 DEF IInv

LEMMA NextIInv == IInv /\ [Next]_vars => IInv'
<1> SUFFICES ASSUME IInv, [Next]_vars PROVE IInv'
  OBVIOUS
<1> USE ConstantsAssumption DEF IInv, erasing, conns
<1>1. CASE Connect \/ AcceptFails
  BY <1>1 DEF Connect, AcceptFails, TypeOK, ThreadsOK, LimitInv,
              LimitRespected, TeardownInv, SnapshotInv, SnapshotTimesSet
<1>2. CASE Check
  BY <1>2 DEF Check, HasRoom, TypeOK, ThreadsOK, LimitInv, LimitRespected,
              TeardownInv, SnapshotInv, SnapshotTimesSet
<1>3. CASE Admit
  <2>1. nextId \in Ids
    BY <1>3 DEF Admit, TypeOK, ThreadsOK, Ids
  <2>2. TypeOK'
    BY <1>3, <2>1 DEF Admit, FreshId, TypeOK, Ids
  <2>3. ThreadsOK'
    BY <1>3, <2>1 DEF Admit, FreshId, TypeOK, ThreadsOK, Ids
  <2>4. Cardinality(clients') <= Cardinality(clients) + 1
        /\ Cardinality(clients) \in Nat /\ Cardinality(clients') \in Nat
    <3>1. clients \in SUBSET Ids /\ clients' \in SUBSET Ids
      BY <2>2 DEF TypeOK
    <3> QED
      BY <1>3, <2>1, <3>1, IdsFinite DEF Admit, FreshId
  <2>5. LimitInv'
    BY <1>3, <2>4 DEF Admit, LimitInv, LimitRespected
  <2>6. TeardownInv'
    BY <1>3, <2>1 DEF Admit, FreshId, TypeOK, ThreadsOK, TeardownInv, Ids
  <2>7. SnapshotInv'
    BY <1>3, <2>1 DEF Admit, FreshId, TypeOK, SnapshotInv, SnapshotTimesSet
  <2> QED
    BY <2>2, <2>3, <2>5, <2>6, <2>7
<1>4. CASE RejectIncomingConnections \/ AcceptIncomingConnections
  BY <1>4 DEF RejectIncomingConnections, AcceptIncomingConnections, TypeOK,
              ThreadsOK, LimitInv, LimitRespected, TeardownInv, SnapshotInv,
              SnapshotTimesSet
<1>5. CASE RemoveAllInactiveClients
  BY <1>5 DEF RemoveAllInactiveClients, TypeOK, ThreadsOK, LimitInv,
              LimitRespected, TeardownInv, SnapshotInv, SnapshotTimesSet
<1>6. ASSUME NEW i \in Ids, EraseInactive(i) PROVE IInv'
  <2>1. thread[i] # "none" /\ (i \notin active => thread[i] = "ended")
    BY <1>6 DEF EraseInactive, TypeOK, ThreadsOK
  <2>2. TypeOK' /\ ThreadsOK' /\ LimitInv' /\ SnapshotInv'
    BY <1>6 DEF EraseInactive, Destroy, TypeOK, ThreadsOK, LimitInv,
                LimitRespected, SnapshotInv, SnapshotTimesSet
  <2>3. TeardownInv'
    BY <1>6, <2>1 DEF EraseInactive, Erasable, Destroy, TeardownInv
  <2> QED
    BY <2>2, <2>3
<1>7. ASSUME NEW i \in Ids, RemoveClient(i) PROVE IInv'
  BY <1>7 DEF RemoveClient, Destroy, TypeOK, ThreadsOK, LimitInv,
              LimitRespected, TeardownInv, SnapshotInv, SnapshotTimesSet
<1>8. ASSUME NEW i \in Ids, Join(i) PROVE IInv'
  <2>1. TypeOK' /\ ThreadsOK' /\ TeardownInv' /\ SnapshotInv'
    BY <1>8 DEF Join, TypeOK, ThreadsOK, TeardownInv, SnapshotInv,
                SnapshotTimesSet
  <2>2. Cardinality(clients') <= Cardinality(clients)
        /\ Cardinality(clients) \in Nat /\ Cardinality(clients') \in Nat
    <3>1. clients \in SUBSET Ids /\ clients' \in SUBSET clients
      BY <1>8 DEF Join, TypeOK
    <3> QED
      BY <3>1, IdsFinite
  <2>3. LimitInv'
    BY <1>8, <2>2 DEF Join, LimitInv, LimitRespected
  <2> QED
    BY <2>1, <2>3
<1>9. CASE Unlock
  BY <1>9 DEF Unlock, Unlocked, NoInfo, Info, TypeOK, ThreadsOK, LimitInv,
              LimitRespected, TeardownInv, SnapshotInv, SnapshotTimesSet
<1>10. ASSUME NEW i \in Ids, LeaveLoop(i) PROVE IInv'
  BY <1>10 DEF LeaveLoop, ActiveWhenLeaving, TypeOK, ThreadsOK, LimitInv,
               LimitRespected, TeardownInv, SnapshotInv, SnapshotTimesSet
<1>11. ASSUME NEW i \in Ids, Stamp(i) \/ End(i) PROVE IInv'
  BY <1>11 DEF Stamp, End, TypeOK, ThreadsOK, LimitInv, LimitRespected,
               TeardownInv, SnapshotInv, SnapshotTimesSet
<1>12. ASSUME NEW S \in SUBSET clients, GetClients(S) PROVE IInv'
  BY <1>12 DEF GetClients, TypeOK, ThreadsOK, LimitInv, LimitRespected,
               TeardownInv, SnapshotInv, SnapshotTimesSet
<1>13. ASSUME NEW i \in Ids, NEW f \in {"active", "since"}, NEW v,
              ReadInfo(i, f, v),
              f = "active" => v \in {"yes", "no"},
              f = "since" => v \in {"zero", "set"}
       PROVE  IInv'
  <2>1. /\ snapshot' = [snapshot EXCEPT ![i] = [snapshot[i] EXCEPT ![f] = v]]
        /\ scan' \in SUBSET scan
    BY <1>13 DEF ReadInfo
  <2>2. snapshot' \in [Ids -> Info]
    <3>1. snapshot[i] \in Info
      BY DEF TypeOK
    <3>2. [snapshot[i] EXCEPT ![f] = v] \in Info
      BY <1>13, <3>1 DEF Info
    <3> QED
      BY <2>1, <3>2 DEF TypeOK
  <2>3. TypeOK' /\ ThreadsOK' /\ LimitInv' /\ TeardownInv'
    BY <1>13, <2>1, <2>2 DEF ReadInfo, TypeOK, ThreadsOK, LimitInv,
                             LimitRespected, TeardownInv
  <2>4. SnapshotInv'
    <3>1. \A j \in Ids : snapshot'[j].since # "never set"
      BY <1>13, <2>1 DEF SnapshotInv, SnapshotTimesSet, TypeOK, Info
    <3> QED
      BY <1>13, <3>1 DEF ReadInfo, SnapshotInv, SnapshotTimesSet
  <2> QED
    BY <2>3, <2>4
<1>14. ASSUME NEW i \in Ids, IsActive(i) \/ GetDisconnectionTime(i) PROVE IInv'
  <2>1. CASE IsActive(i)
    BY <1>13, <2>1 DEF IsActive
  <2>2. CASE GetDisconnectionTime(i)
    <3>1. i \notin active => i \in disconnected
      BY <2>2 DEF GetDisconnectionTime, ReadInfo, TypeOK, ThreadsOK, SnapshotInv
    <3> QED
      BY <1>13, <2>2, <3>1 DEF GetDisconnectionTime
  <2> QED
    BY <1>14, <2>1, <2>2
<1>15. CASE UNCHANGED vars
  BY <1>15 DEF vars, TypeOK, ThreadsOK, LimitInv, LimitRespected, TeardownInv,
               SnapshotInv, SnapshotTimesSet
<1> QED
  BY <1>1, <1>2, <1>3, <1>4, <1>5, <1>6, <1>7, <1>8, <1>9, <1>10, <1>11, <1>12,
     <1>14, <1>15
     DEF Next, ServerThread, Locked, OwnerCalls, TypeOK

LEMMA Invariance == Spec => []IInv
BY InitIInv, NextIInv, PTL DEF Spec

\* The types of the variables; active says exactly which threads have not yet
\* done the last thing they do to their client.
THEOREM TypeCorrect == Spec => []TypeOK
<1>1. IInv => TypeOK
  BY DEF IInv
<1> QED
  BY Invariance, <1>1, PTL

\* Server::clients never holds more clients than the limit, though its size is
\* tested before clientsMutex is locked.
THEOREM LimitCorrect == Spec => []LimitRespected
<1>1. IInv => LimitRespected
  BY DEF IInv, LimitInv
<1> QED
  BY Invariance, <1>1, PTL

\* No client is admitted under the id of an earlier one.
THEOREM IdsCorrect == Spec => IdsAreFresh
<1>1. IInv /\ [Next]_vars => [\A i \in clients' \ clients : thread[i] = "none"]_vars
  <2> SUFFICES ASSUME IInv, Next, NEW i \in clients' \ clients
               PROVE  thread[i] = "none"
    OBVIOUS
  <2>1. Admit
    BY DEF Next, ServerThread, Connect, AcceptFails, Check, Locked,
           EraseInactive, Join, IsActive, GetDisconnectionTime, ReadInfo,
           Unlock, OwnerCalls, RejectIncomingConnections,
           AcceptIncomingConnections, RemoveAllInactiveClients, RemoveClient,
           GetClients, LeaveLoop, Stamp, End
  <2>2. i = nextId /\ i \in Ids
    BY <2>1, ConstantsAssumption
       DEF Admit, FreshId, IInv, TypeOK, ThreadsOK, Ids
  <2> QED
    BY <2>2, ConstantsAssumption DEF IInv, ThreadsOK, TypeOK
<1> QED
  BY Invariance, <1>1, PTL DEF Spec, IdsAreFresh

\* However the reads of Server::getClients and the end of a thread interleave,
\* no disconnection time is told that was never set.
THEOREM SnapshotCorrect == Spec => []SnapshotTimesSet
<1>1. IInv => SnapshotTimesSet
  BY DEF IInv, SnapshotInv
<1> QED
  BY Invariance, <1>1, PTL

\* Server::removeAllInactiveClients leaves no connection thread behind that
\* polls a queue or locks a mutex destroyed with its ConnectionClient.
THEOREM TeardownCorrect == Spec => []TeardownSafe
<1>1. IInv => TeardownSafe
  BY DEF IInv, TeardownInv, TeardownSafe
<1> QED
  BY Invariance, <1>1, PTL

(***************************************************************************)
(* The lives of the clients and of their threads.                          *)
(***************************************************************************)

\* The owner waits, with clientsMutex held, only for the end of a thread that
\* it has asked to stop, and nobody else was asked.
JoinIsAnswered ==
  /\ owner = "join" => \A i \in victim : i \in stop /\ thread[i] # "none"
  /\ \A i \in stop \cap clients : owner = "join" /\ i \in victim

LifeInv ==
  /\ ThreadsHaveClients
  /\ scan \subseteq clients \ victim
  /\ victim \subseteq clients \cap stop
  /\ owner = "join" <=> victim # {}
  /\ owner # "join" => stop \cap clients = {}
  /\ owner = "join" => \E i \in Ids : victim = {i} /\ stop \cap clients = {i}
  /\ owner # "idle" => mutex = "owner"
  /\ owner = "idle" => scan = {}
  /\ \A i \in stop : i < nextId

LEMMA InitLife == Init => LifeInv
BY DEF Init, LifeInv, ThreadsHaveClients

LEMMA NextLife == IInv /\ LifeInv /\ [Next]_vars => LifeInv'
<1> SUFFICES ASSUME IInv, LifeInv, [Next]_vars PROVE LifeInv'
  OBVIOUS
<1> USE ConstantsAssumption
    DEF IInv, TypeOK, LifeInv, ThreadsHaveClients, erasing, conns
<1>1. CASE Connect \/ AcceptFails \/ Check
  BY <1>1 DEF Connect, AcceptFails, Check
<1>2. CASE Admit
  <2>1. nextId \in Ids /\ nextId \notin stop
    BY <1>2 DEF Admit, ThreadsOK, Ids
  <2>2. owner = "idle"
    BY <1>2 DEF Admit
  <2> QED
    BY <1>2, <2>1, <2>2 DEF Admit, FreshId
<1>3. CASE RejectIncomingConnections \/ AcceptIncomingConnections
  BY <1>3 DEF RejectIncomingConnections, AcceptIncomingConnections
<1>4. CASE RemoveAllInactiveClients
  BY <1>4 DEF RemoveAllInactiveClients
<1>5. ASSUME NEW i \in Ids, i \in clients, owner # "join", Destroy(i),
             scan' = scan \ {i}, clients' = clients, active' = active,
             mutex' = "owner", nextId' = nextId, thread' = thread
      PROVE  LifeInv'
  <2>1. i < nextId
    BY <1>5 DEF ThreadsOK, Ids
  <2>2. victim' = {i} /\ stop' = stop \cup {i} /\ owner' = "join"
    BY <1>5 DEF Destroy
  <2>3. stop' \cap clients' = {i}
    BY <1>5, <2>2
  <2> QED
    BY <1>5, <2>1, <2>2, <2>3
<1>6. ASSUME NEW i \in Ids, EraseInactive(i) PROVE LifeInv'
  <2>1. CASE Erasable(i)
    BY <1>5, <1>6, <2>1 DEF EraseInactive
  <2>2. CASE ~Erasable(i)
    BY <1>6, <2>2 DEF EraseInactive
  <2> QED
    BY <2>1, <2>2
<1>7. ASSUME NEW i \in Ids, RemoveClient(i) PROVE LifeInv'
  <2>1. scan' = scan \ {i}
    BY <1>7 DEF RemoveClient
  <2> QED
    BY <1>5, <1>7, <2>1 DEF RemoveClient
<1>8. ASSUME NEW i \in Ids, Join(i) PROVE LifeInv'
  <2>1. victim = {i} /\ stop \cap clients = {i} /\ i \notin active
    BY <1>8 DEF Join
  <2> QED
    BY <1>8, <2>1 DEF Join
<1>9. CASE Unlock
  BY <1>9 DEF Unlock, Unlocked
<1>10. ASSUME NEW i \in Ids, LeaveLoop(i) \/ Stamp(i) \/ End(i)
       PROVE  LifeInv'
  BY <1>10 DEF LeaveLoop, ActiveWhenLeaving, Stamp, End
<1>11. ASSUME NEW S \in SUBSET clients, GetClients(S) PROVE LifeInv'
  BY <1>11 DEF GetClients
<1>12. ASSUME NEW i \in Ids, NEW f, NEW v, ReadInfo(i, f, v)
       PROVE  LifeInv'
  <2>1. scan' \subseteq scan
    BY <1>12 DEF ReadInfo
  <2> QED
    BY <1>12, <2>1 DEF ReadInfo
<1>13. CASE UNCHANGED vars
  BY <1>13 DEF vars
<1> QED
  BY <1>1, <1>2, <1>3, <1>4, <1>6, <1>7, <1>8, <1>9, <1>10, <1>11, <1>12,
     <1>13
     DEF Next, ServerThread, Locked, OwnerCalls, IsActive,
         GetDisconnectionTime

\* Removing a client, by removeClient or removeAllInactiveClients, frees it
\* only after the last thing its thread does to it, and the owner, who holds
\* clientsMutex all the while, waits for no thread that was not asked to stop.
THEOREM LifetimeCorrect == Spec => [](ThreadsHaveClients /\ JoinIsAnswered)
<1>1. IInv /\ LifeInv => ThreadsHaveClients /\ JoinIsAnswered
  <2> SUFFICES ASSUME IInv, LifeInv PROVE JoinIsAnswered
    BY DEF LifeInv
  <2>1. CASE owner = "join"
    BY <2>1 DEF LifeInv, JoinIsAnswered, IInv, ThreadsOK
  <2>2. CASE owner # "join"
    BY <2>2 DEF LifeInv, JoinIsAnswered
  <2> QED
    BY <2>1, <2>2
<1>2. Spec => [](IInv /\ LifeInv)
  BY InitLife, NextLife, Invariance, PTL DEF Spec
<1> QED
  BY <1>1, <1>2, PTL
=============================================================================
