------------------------- MODULE TransactionsProofs -------------------------
(***************************************************************************)
(* Theorems about Transactions, for every set of clients and of cells and  *)
(* every number of runs.                                                   *)
(***************************************************************************)
EXTENDS Transactions, FiniteSetTheorems, SequenceTheorems, TLAPS

(***************************************************************************)
(* Type correctness.  TypeOK is not inductive: a request is written from   *)
(* the cell a thread holds, so that its type depends on references being   *)
(* references to cells that were constructed.                              *)
(***************************************************************************)

\* Cells in which a ClientTransaction was constructed at some time.
Constructed == {a \in Cells : ask[a] # 0}

\* Every reference is one to such a cell.
ReferencesOK ==
  /\ slot \in [Clients -> Constructed \cup {None}]
  /\ cur \in [Clients -> Constructed \cup {None}]
  /\ queue \in [Clients -> Seq(Constructed)]
  /\ \A c \in Clients :
       tpc[c] \notin {"POLL", "STOPPED", "EXITED"} => cur[c] # None

\* The game is in a run when it is not idle, and submits what it emplaced.
GameOK ==
  /\ gpc # "idle" => run # 0
  /\ gpc = "submit" => \A c \in Clients : IsFirst(c) => slot[c] # None
  /\ gpc = "wait" => \A c \in todo : slot[c] # None

TypeInv == TypeOK /\ ReferencesOK /\ GameOK

LEMMA CardinalityType == Cardinality(Clients) \in Nat
BY FS_CardinalityType, ClientsAssumption

LEMMA NextRunType ==
  ASSUME NEW n \in 0 .. MaxRuns
  PROVE  NextRun(n) \in 1 .. MaxRuns
BY CardinalityType, BoundsAssumption DEF NextRun

LEMMA PutType ==
  ASSUME NEW S, NEW f \in [Cells -> S], NEW a, NEW v \in S
  PROVE  Put(f, a, v) \in [Cells -> S]
BY DEF Put

LEMMA SeqWidens ==
  ASSUME NEW S, NEW T, S \subseteq T, NEW s \in Seq(S)
  PROVE  s \in Seq(T)
OBVIOUS

LEMMA SingletonSeq ==
  ASSUME NEW S, NEW s \in Seq(S), Len(s) = 1
  PROVE  Head(s) = s[1] /\ Tail(s) = <<>>
<1>1. s # <<>>
  BY EmptySeq
<1>2. Tail(s) \in Seq(S) /\ Len(Tail(s)) = 0
  BY <1>1, HeadTailProperties
<1>3. Tail(s) = <<>>
  BY <1>2, EmptySeq
<1>4. Head(s) = s[1]
  BY <1>1
<1> QED
  BY <1>3, <1>4

LEMMA InitType == Init => TypeInv
BY CellsAssumption, BoundsAssumption
   DEF Init, TypeInv, TypeOK, ReferencesOK, GameOK, GamePC, Kinds, ThreadPC,
       States, Expected, Replied

LEMMA NextType == TypeInv /\ [Next]_vars => TypeInv'
<1> SUFFICES ASSUME TypeInv, [Next]_vars PROVE TypeInv'
  OBVIOUS
<1> USE CellsAssumption DEF TypeInv, game, results, threads, cells, net, history
<1>1. ASSUME NEW c \in Clients, StartNewGame(c) PROVE TypeInv'
  <2>1. TypeOK'
    <3>1. run' \in 0 .. MaxRuns
      BY <1>1, NextRunType DEF TypeOK, StartNewGame
    <3> QED
      BY <1>1, <3>1 DEF TypeOK, StartNewGame, GamePC, Kinds, Replied
  <2>2. ReferencesOK'
    BY <1>1, NextRunType DEF ReferencesOK, Constructed, StartNewGame
  <2>3. GameOK'
    BY <1>1, NextRunType
       DEF TypeOK, GameOK, StartNewGame, GamePC, Kinds, Runs, Replied
  <2> QED
    BY <2>1, <2>2, <2>3
<1>2. ASSUME NEW k \in Kinds \ {"NEW_GAME"}, StartBroadcast(k) PROVE TypeInv'
  <2>1. TypeOK'
    BY <1>2, NextRunType
       DEF TypeOK, ReferencesOK, GameOK, Constructed, StartBroadcast, GamePC,
           Kinds, Replied
  <2>2. ReferencesOK'
    BY <1>2, NextRunType DEF ReferencesOK, Constructed, StartBroadcast
  <2>3. GameOK'
    BY <1>2, NextRunType
       DEF TypeOK, GameOK, StartBroadcast, GamePC, Kinds, Replied
  <2> QED
    BY <2>1, <2>2, <2>3
<1>3. ASSUME NEW c \in Clients, SkipInactive(c) PROVE TypeInv'
  <2>1. TypeOK'
    BY <1>3 DEF TypeOK, SkipInactive
  <2>2. ReferencesOK'
    BY <1>3 DEF ReferencesOK, Constructed, SkipInactive, IsFirst
  <2>3. GameOK'
    BY <1>3 DEF ReferencesOK, GameOK, IsFirst, SkipInactive
  <2> QED
    BY <2>1, <2>2, <2>3
<1>4. ASSUME NEW c \in Clients, Emplace(c) PROVE TypeInv'
  <2>1. TypeOK'
    BY <1>4, SeqWidens
       DEF TypeOK, Constructed, Emplace, ResponseSize, Kinds, Expected, States,
           GamePC, IsFirst, Replied
  <2>2. ReferencesOK'
    <3>1. PICK a \in Cells :
            /\ slot' = [slot EXCEPT ![c] = a]
            /\ ask' = [ask EXCEPT ![a] = run]
      BY <1>4 DEF Emplace
    <3>2. a \in Constructed' /\ Constructed \subseteq Constructed'
      BY <1>4, <3>1 DEF TypeOK, GameOK, Emplace, Constructed
    <3>3. queue' \in [Clients -> Seq(Constructed')]
      BY <1>4, <3>2, SeqWidens DEF ReferencesOK, Emplace
    <3> QED
      BY <1>4, <3>1, <3>2, <3>3 DEF ReferencesOK, Emplace
  <2>3. GameOK'
    <3>1. \A d \in Clients : IsFirst(d) => d = c
      BY <1>4, ClientsAssumption DEF Emplace, IsFirst
    <3> QED
      BY <1>4, <3>1 DEF TypeOK, GameOK, Emplace, IsFirst
  <2> QED
    BY <2>1, <2>2, <2>3
<1>5. ASSUME NEW c \in Clients, Submit(c) PROVE TypeInv'
  <2>1. TypeOK'
    <3>1. slot[c] \in Cells
      BY <1>5 DEF TypeOK, GameOK, Submit
    <3>4. Append(queue[c], slot[c]) \in Seq(Cells)
      BY <3>1 DEF TypeOK
    <3>2. queue' \in [Clients -> Seq(Cells)]
      BY <1>5, <3>4 DEF TypeOK, Submit
    <3>3. state' \in [Cells -> States]
      BY <1>5 DEF TypeOK, Submit, States
    <3> QED
      BY <1>5, <3>2, <3>3 DEF TypeOK, Submit, GamePC
  <2>2. ReferencesOK'
    <3>1. slot[c] \in Constructed
      BY <1>5 DEF ReferencesOK, GameOK, Submit
    <3>2. Constructed' = Constructed
      BY <1>5 DEF Submit, Constructed
    <3>4. Append(queue[c], slot[c]) \in Seq(Constructed)
      BY <3>1 DEF ReferencesOK
    <3>3. queue' \in [Clients -> Seq(Constructed)]
      BY <1>5, <3>4 DEF ReferencesOK, Submit
    <3> QED
      BY <1>5, <3>2, <3>3 DEF ReferencesOK, Submit
  <2>3. GameOK'
    BY <1>5 DEF GameOK, Submit
  <2> QED
    BY <2>1, <2>2, <2>3
<1>6. CASE StartWait
  <2>1. TypeOK'
    BY <1>6 DEF TypeOK, StartWait, GamePC, WaitedFor
  <2>2. ReferencesOK'
    BY <1>6 DEF ReferencesOK, Constructed, StartWait, WaitedFor
  <2>3. GameOK'
    BY <1>6 DEF GameOK, StartWait, WaitedFor
  <2> QED
    BY <2>1, <2>2, <2>3
<1>7. ASSUME NEW c \in Clients, WaitAcquire(c) PROVE TypeInv'
  <2>1. TypeOK'
    BY <1>7 DEF TypeOK, WaitAcquire, Successful
  <2>2. ReferencesOK'
    BY <1>7 DEF ReferencesOK, Constructed, WaitAcquire, IsFirst, Successful
  <2>3. GameOK'
    BY <1>7 DEF ReferencesOK, GameOK, IsFirst, WaitAcquire, Successful
  <2> QED
    BY <2>1, <2>2, <2>3
<1>8. ASSUME NEW c \in Clients, WaitExpire(c) PROVE TypeInv'
  <2>1. TypeOK'
    BY <1>8 DEF TypeOK, WaitExpire
  <2>2. ReferencesOK'
    BY <1>8 DEF ReferencesOK, Constructed, WaitExpire, IsFirst
  <2>3. GameOK'
    BY <1>8 DEF ReferencesOK, GameOK, IsFirst, WaitExpire
  <2> QED
    BY <2>1, <2>2, <2>3
<1>9. CASE Finish
  <2>1. TypeOK'
    BY <1>9, BoundsAssumption DEF TypeOK, Finish, GamePC, States, NoResponses
  <2>2. ReferencesOK'
    BY <1>9 DEF ReferencesOK, Constructed, Finish, NoResponses
  <2>3. GameOK'
    BY <1>9 DEF GameOK, Finish, NoResponses
  <2> QED
    BY <2>1, <2>2, <2>3
<1>10. ASSUME NEW c \in Clients, Pop(c) PROVE TypeInv'
  <2>1. TypeOK'
    BY <1>10 DEF TypeOK, Pop, ThreadPC, Popped
  <2>2. ReferencesOK'
    <3>1. Constructed' = Constructed
      BY <1>10 DEF Pop, Constructed, Popped
    <3>2. Head(queue[c]) \in Constructed /\ Tail(queue[c]) \in Seq(Constructed)
      BY <1>10 DEF ReferencesOK, Pop, Popped
    <3>3. Head(queue[c]) # None
      BY <3>2 DEF Constructed
    <3> QED
      BY <1>10, <3>1, <3>2, <3>3 DEF ReferencesOK, Pop, Popped
  <2>3. GameOK'
    BY <1>10 DEF GameOK, IsFirst, Pop, Popped
  <2> QED
    BY <2>1, <2>2, <2>3
<1>11. ASSUME NEW c \in Clients, Skip(c) PROVE TypeInv'
  <2>1. TypeOK'
    BY <1>11 DEF TypeOK, Skip, LeaveScope, ThreadPC
  <2>2. ReferencesOK'
    BY <1>11 DEF TypeOK, ReferencesOK, Constructed, Skip, LeaveScope, ThreadPC
  <2>3. GameOK'
    BY <1>11 DEF GameOK, IsFirst, Skip, LeaveScope
  <2> QED
    BY <2>1, <2>2, <2>3
<1>12. ASSUME NEW c \in Clients, WriteFails(c) PROVE TypeInv'
  <2>1. TypeOK'
    BY <1>12, PutType DEF TypeOK, WriteFails, Runnable, ThreadPC, States
  <2>2. ReferencesOK'
    BY <1>12, PutType DEF ReferencesOK, Constructed, WriteFails, Runnable
  <2>3. GameOK'
    BY <1>12, PutType DEF GameOK, IsFirst, WriteFails, Runnable
  <2> QED
    BY <2>1, <2>2, <2>3
<1>13. ASSUME NEW c \in Clients, WriteUpdate(c) PROVE TypeInv'
  <2>1. TypeOK'
    BY <1>13, PutType DEF TypeOK, WriteUpdate, Sent, Runnable, ThreadPC, States
  <2>2. ReferencesOK'
    BY <1>13, PutType
       DEF ReferencesOK, Constructed, WriteUpdate, Sent, Runnable
  <2>3. GameOK'
    BY <1>13, PutType DEF GameOK, IsFirst, WriteUpdate, Sent, Runnable
  <2> QED
    BY <2>1, <2>2, <2>3
<1>14. ASSUME NEW c \in Clients, WriteRequest(c) PROVE TypeInv'
  <2>1. TypeOK'
    <3>1. cur[c] \in Constructed
      BY <1>14 DEF ReferencesOK, WriteRequest, Sent, Runnable
    <3>2. [kind |-> expects[cur[c]], run |-> ask[cur[c]]] \in Request
      BY <1>14, <3>1, BoundsAssumption
         DEF TypeOK, Constructed, WriteRequest, Request, Runs, Expected,
             Replied
    <3>3. requests' \in [Clients -> Seq(Request)]
      BY <1>14, <3>2 DEF TypeOK, WriteRequest
    <3>4. state' \in [Cells -> States]
      BY <1>14, PutType DEF TypeOK, WriteRequest, States
    <3> QED
      BY <1>14, <3>3, <3>4 DEF TypeOK, WriteRequest, Sent, ThreadPC
  <2>2. ReferencesOK'
    BY <1>14, PutType
       DEF ReferencesOK, Constructed, WriteRequest, Sent, Runnable
  <2>3. GameOK'
    BY <1>14, PutType DEF GameOK, IsFirst, WriteRequest, Sent, Runnable
  <2> QED
    BY <2>1, <2>2, <2>3
<1>15. ASSUME NEW c \in Clients, ReadValid(c) PROVE TypeInv'
  <2>1. TypeOK'
    <3>1. /\ Head(inbox[c]) \in Reply
          /\ Tail(inbox[c]) \in Seq(Reply)
      BY <1>15 DEF TypeOK, ReadValid
    <3>2. inbox' \in [Clients -> Seq(Reply)]
      BY <1>15, <3>1 DEF TypeOK, ReadValid
    <3>3. state' \in [Cells -> States]
      BY <1>15, PutType DEF TypeOK, ReadValid, AfterRead, States
    <3>4. Head(inbox[c]).run \in 0 .. MaxRuns
      BY <3>1 DEF Reply, Runs, Replied
    <3>5. responses' \in [Clients -> 0 .. MaxRuns]
      BY <1>15, <3>4 DEF TypeOK, ReadValid
    <3> QED
      BY <1>15, <3>2, <3>3, <3>5 DEF TypeOK, ReadValid, AfterRead, ThreadPC
  <2>2. ReferencesOK'
    BY <1>15, PutType DEF ReferencesOK, Constructed, ReadValid, AfterRead
  <2>3. GameOK'
    BY <1>15, PutType DEF GameOK, IsFirst, ReadValid, AfterRead
  <2> QED
    BY <2>1, <2>2, <2>3
<1>16. ASSUME NEW c \in Clients, ReadInvalid(c) PROVE TypeInv'
  <2>1. TypeOK'
    <3>1. /\ Head(inbox[c]) \in Reply
          /\ Tail(inbox[c]) \in Seq(Reply)
      BY <1>16 DEF TypeOK, ReadInvalid
    <3>2. inbox' \in [Clients -> Seq(Reply)]
      BY <1>16, <3>1 DEF TypeOK, ReadInvalid
    <3>3. state' \in [Cells -> States]
      BY <1>16, PutType DEF TypeOK, ReadInvalid, AfterRead, States
    <3> QED
      BY <1>16, <3>1, <3>2, <3>3, PutType
         DEF TypeOK, ReadInvalid, AfterRead, ThreadPC, Expected, Replied
  <2>2. ReferencesOK'
    BY <1>16, PutType DEF ReferencesOK, Constructed, ReadInvalid, AfterRead
  <2>3. GameOK'
    BY <1>16, PutType DEF GameOK, IsFirst, ReadInvalid, AfterRead
  <2> QED
    BY <2>1, <2>2, <2>3
<1>17. ASSUME NEW c \in Clients, ReadShort(c) PROVE TypeInv'
  <2>1. TypeOK'
    <3>1. /\ Head(inbox[c]) \in Reply
          /\ Tail(inbox[c]) \in Seq(Reply)
      BY <1>17 DEF TypeOK, ReadShort
    <3>2. inbox' \in [Clients -> Seq(Reply)]
      BY <1>17, <3>1 DEF TypeOK, ReadShort
    <3>3. state' \in [Cells -> States]
      BY <1>17, PutType DEF TypeOK, ReadShort, AfterRead, States
    <3> QED
      BY <1>17, <3>1, <3>2, <3>3 DEF TypeOK, ReadShort, AfterRead, ThreadPC
  <2>2. ReferencesOK'
    BY <1>17, PutType DEF ReferencesOK, Constructed, ReadShort, AfterRead
  <2>3. GameOK'
    BY <1>17, PutType DEF GameOK, IsFirst, ReadShort, AfterRead
  <2> QED
    BY <2>1, <2>2, <2>3
<1>18. ASSUME NEW c \in Clients, ReadPart(c) PROVE TypeInv'
  <2>1. TypeOK'
    <3>1. /\ Head(inbox[c]) \in Reply
          /\ Tail(inbox[c]) \in Seq(Reply)
      BY <1>18 DEF TypeOK, ReadPart
    <3>4. [Head(inbox[c]) EXCEPT !.part = "REST"] \in Reply
      BY <3>1 DEF Reply, Replied
    <3>2. inbox' \in [Clients -> Seq(Reply)]
      BY <1>18, <3>1, <3>4 DEF TypeOK, ReadPart
    <3>3. state' \in [Cells -> States]
      BY <1>18, PutType DEF TypeOK, ReadPart, AfterRead, States
    <3> QED
      BY <1>18, <3>1, <3>2, <3>3 DEF TypeOK, ReadPart, AfterRead, ThreadPC
  <2>2. ReferencesOK'
    BY <1>18, PutType DEF ReferencesOK, Constructed, ReadPart, AfterRead
  <2>3. GameOK'
    BY <1>18, PutType DEF GameOK, IsFirst, ReadPart, AfterRead
  <2> QED
    BY <2>1, <2>2, <2>3
<1>19. ASSUME NEW c \in Clients, ReadTimeout(c) PROVE TypeInv'
  <2>1. TypeOK'
    BY <1>19, PutType DEF TypeOK, ReadTimeout, AfterRead, ThreadPC, States
  <2>2. ReferencesOK'
    BY <1>19, PutType DEF ReferencesOK, Constructed, ReadTimeout, AfterRead
  <2>3. GameOK'
    BY <1>19, PutType DEF GameOK, IsFirst, ReadTimeout, AfterRead
  <2> QED
    BY <2>1, <2>2, <2>3
<1>20. ASSUME NEW c \in Clients, ReadClosed(c) PROVE TypeInv'
  <2>1. TypeOK'
    BY <1>20, PutType DEF TypeOK, ReadClosed, AfterRead, ThreadPC, States
  <2>2. ReferencesOK'
    BY <1>20, PutType DEF ReferencesOK, Constructed, ReadClosed, AfterRead
  <2>3. GameOK'
    BY <1>20, PutType DEF GameOK, IsFirst, ReadClosed, AfterRead
  <2> QED
    BY <2>1, <2>2, <2>3
<1>21. ASSUME NEW c \in Clients, Release(c) PROVE TypeInv'
  <2>1. TypeOK'
    <3>1. signal' \in [Cells -> {0, 1}]
      BY <1>21, PutType DEF TypeOK, Release, AfterFailedWrite
    <3> QED
      BY <1>21, <3>1
         DEF TypeOK, Release, LeaveScope, ThreadPC, AfterFailedWrite
  <2>2. ReferencesOK'
    BY <1>21, PutType
       DEF TypeOK, ReferencesOK, Constructed, Release, LeaveScope, ThreadPC,
           AfterFailedWrite
  <2>3. GameOK'
    BY <1>21, PutType
       DEF GameOK, IsFirst, Release, LeaveScope, AfterFailedWrite
  <2> QED
    BY <2>1, <2>2, <2>3
<1>22. ASSUME NEW c \in Clients, SizeIsZero(c) PROVE TypeInv'
  <2>1. TypeOK'
    BY <1>22 DEF TypeOK, SizeIsZero, LeaveScope, ThreadPC
  <2>2. ReferencesOK'
    BY <1>22
       DEF TypeOK, ReferencesOK, Constructed, SizeIsZero, LeaveScope, ThreadPC
  <2>3. GameOK'
    BY <1>22 DEF GameOK, IsFirst, SizeIsZero, LeaveScope
  <2> QED
    BY <2>1, <2>2, <2>3
<1>23. ASSUME NEW c \in Clients, SizeIsPositive(c) PROVE TypeInv'
  <2>1. TypeOK'
    BY <1>23 DEF TypeOK, SizeIsPositive, LeaveScope, ThreadPC
  <2>2. ReferencesOK'
    BY <1>23
       DEF TypeOK, ReferencesOK, Constructed, SizeIsPositive, LeaveScope,
           ThreadPC
  <2>3. GameOK'
    BY <1>23 DEF GameOK, IsFirst, SizeIsPositive, LeaveScope
  <2> QED
    BY <2>1, <2>2, <2>3
<1>24. ASSUME NEW c \in Clients, Exit(c) PROVE TypeInv'
  <2>1. TypeOK'
    BY <1>24 DEF TypeOK, Exit, ThreadPC
  <2>2. ReferencesOK'
    BY <1>24 DEF ReferencesOK, Constructed, Exit
  <2>3. GameOK'
    BY <1>24 DEF GameOK, IsFirst, Exit
  <2> QED
    BY <2>1, <2>2, <2>3
<1>25. ASSUME NEW c \in Clients, Answer(c) PROVE TypeInv'
  <2>1. TypeOK'
    <3>1. /\ Head(requests[c]) \in Request
          /\ Tail(requests[c]) \in Seq(Request)
      BY <1>25 DEF TypeOK, Answer
    <3>2. [kind |-> Head(requests[c]).kind, run |-> Head(requests[c]).run,
           part |-> "WHOLE"] \in Reply
      BY <3>1 DEF Request, Reply, Replied
    <3>3. inbox' \in [Clients -> Seq(Reply)]
      BY <1>25, <3>2 DEF TypeOK, Answer
    <3>4. requests' \in [Clients -> Seq(Request)]
      BY <1>25, <3>1 DEF TypeOK, Answer
    <3> QED
      BY <1>25, <3>3, <3>4 DEF TypeOK, Answer
  <2>2. ReferencesOK'
    BY <1>25 DEF ReferencesOK, Constructed, Answer
  <2>3. GameOK'
    BY <1>25 DEF GameOK, IsFirst, Answer
  <2> QED
    BY <2>1, <2>2, <2>3
<1>26. ASSUME NEW c \in Clients, Close(c) PROVE TypeInv'
  <2>1. TypeOK'
    BY <1>26 DEF TypeOK, Close
  <2>2. ReferencesOK'
    BY <1>26 DEF ReferencesOK, GameOK, Constructed, Close
  <2>3. GameOK'
    BY <1>26 DEF ReferencesOK, GameOK, IsFirst, Close
  <2> QED
    BY <2>1, <2>2, <2>3
<1>27. CASE UNCHANGED vars
  BY <1>27 DEF vars, TypeOK, ReferencesOK, GameOK, Constructed, IsFirst
<1> QED
  BY <1>1, <1>2, <1>3, <1>4, <1>5, <1>6, <1>7, <1>8, <1>9, <1>10, <1>11, <1>12,
     <1>13, <1>14, <1>15, <1>16, <1>17, <1>18, <1>19, <1>20, <1>21, <1>22,
     <1>23, <1>24, <1>25, <1>26, <1>27
     DEF Next, Game, Thread, Read

\* Every variable, in every reachable state, has the type TypeOK gives it; the
\* references held by threads, queues and the map are to constructed cells.
THEOREM TypeCorrect == Spec => []TypeOK
<1>1. TypeInv => TypeOK
  BY DEF TypeInv
<1> QED
  BY InitType, NextType, <1>1, PTL DEF Spec

(***************************************************************************)
(* Ownership.  As long as no wait has ended early, the cell a client was   *)
(* given in the current run is the only one its thread uses, and it is in  *)
(* use only between Submit and the end of the wait.                        *)
(***************************************************************************)

Busy(c) == tpc[c] \in {"CHECK", "READ", "SIGNAL_STOP", "SIGNAL_SIZE",
                       "SIGNAL_DONE"}

\* Thread c has a transaction to run, or is running one.
Using(c) == ~Stopping(c) /\ (Busy(c) \/ queue[c] # <<>>)

\* clientTransactions: different clients have different live cells, and a
\* client the loop of runTransaction has not reached has none.
SlotsInv ==
  /\ \A c, d \in Clients : slot[c] = slot[d] /\ slot[c] # None => c = d
  /\ \A c \in Clients : slot[c] # None => state[slot[c]] # "FREED"
  /\ gpc = "idle" => \A c \in Clients : slot[c] = None
  /\ gpc = "emplace" => \A c \in todo : slot[c] = None
  /\ gpc = "submit" => \A c \in todo : IsFirst(c) \/ slot[c] = None

\* What a thread holds is its client's cell, and it holds it once.
HoldsInv ==
  \A c \in Clients : ~Stopping(c) =>
    /\ Busy(c) => queue[c] = <<>> /\ cur[c] = slot[c] /\ slot[c] # None
    /\ queue[c] # <<>> => slot[c] # None /\ queue[c] = <<slot[c]>>

\* The semaphore of a cell in use, or about to be, has not been released.
SignalInv ==
  \A c \in Clients :
    Using(c) \/ (gpc = "submit" /\ IsFirst(c)) => signal[slot[c]] = 0

\* A cell is in use from Submit to the end of the wait at most.
ScopeInv ==
  \A c \in Clients : Using(c) =>
    /\ gpc = "submit" => ~IsFirst(c)
    /\ gpc = "wait" => c \in todo

OwnershipInv == SlotsInv /\ HoldsInv /\ SignalInv /\ ScopeInv

LEMMA HeldIsOwn ==
  ASSUME TypeInv, HoldsInv, NEW c \in Clients
  PROVE  /\ Held(c) \subseteq {slot[c]} \ {None}
         /\ Using(c) => slot[c] \in Held(c)
<1>1. CASE Stopping(c)
  BY <1>1 DEF Held, Using
<1>2. CASE ~Stopping(c) /\ Busy(c)
  BY <1>2 DEF HoldsInv, Held, Busy, Using, ToSet
<1>3. CASE ~Stopping(c) /\ ~Busy(c)
  <2>1. tpc[c] \in {"POLL", "SIZE"}
    BY <1>3 DEF TypeInv, TypeOK, ThreadPC, Busy, Stopping
  <2>2. Held(c) = ToSet(queue[c])
    BY <1>3, <2>1 DEF Held
  <2>3. CASE queue[c] = <<>>
    BY <1>3, <2>2, <2>3 DEF Using, ToSet
  <2>4. CASE queue[c] = <<slot[c]>> /\ slot[c] # None
    BY <2>2, <2>4 DEF ToSet
  <2> QED
    BY <1>3, <2>3, <2>4 DEF HoldsInv
<1> QED
  BY <1>1, <1>2, <1>3

\* Clients are numbers, and only one of them is the first.
LEMMA FirstUnique ==
  ASSUME TypeInv, NEW c \in Clients, NEW d \in Clients, IsFirst(c), IsFirst(d)
  PROVE  c = d
BY ClientsAssumption DEF IsFirst

LEMMA InitOwnership == Init => OwnershipInv
BY
   DEF Init, OwnershipInv, SlotsInv, HoldsInv, SignalInv, ScopeInv, Busy,
       Using, Stopping

LEMMA OverdueMonotonic == TypeInv /\ [Next]_vars => overdue \subseteq overdue'
BY
   DEF Next, vars, Game, Thread, Read, StartNewGame, StartBroadcast,
       SkipInactive, Emplace, Submit, StartWait, WaitAcquire, WaitExpire,
       Finish, Pop, Skip, WriteFails, WriteUpdate, WriteRequest, ReadValid,
       ReadInvalid, ReadShort, ReadPart, ReadTimeout, ReadClosed, Release,
       SizeIsZero, SizeIsPositive, Exit, Answer, Close, game, results, threads,
       cells, net, history, WaitedFor, Successful, NoResponses, Popped, AfterFailedWrite

LEMMA NextOwnership ==
  TypeInv /\ OwnershipInv /\ [Next]_vars /\ overdue' = {} => OwnershipInv'
<1> SUFFICES ASSUME TypeInv, OwnershipInv, [Next]_vars, overdue' = {}
             PROVE  OwnershipInv'
  OBVIOUS
<1> USE CellsAssumption
    DEF OwnershipInv, game, results, threads, cells, net, history
<1>1. ASSUME NEW c \in Clients, StartNewGame(c) PROVE OwnershipInv'
  <2>1. SlotsInv'
    BY <1>1 DEF SlotsInv, StartNewGame
  <2>2. HoldsInv'
    BY <1>1 DEF HoldsInv, Busy, Using, Stopping, StartNewGame
  <2>3. SignalInv'
    BY <1>1 DEF SignalInv, Busy, Using, Stopping, IsFirst, StartNewGame
  <2>4. ScopeInv'
    BY <1>1 DEF ScopeInv, StartNewGame
  <2> QED
    BY <2>1, <2>2, <2>3, <2>4
<1>2. ASSUME NEW k \in Kinds \ {"NEW_GAME"}, StartBroadcast(k) PROVE OwnershipInv'
  <2>1. SlotsInv'
    BY <1>2 DEF SlotsInv, StartBroadcast
  <2>2. HoldsInv'
    BY <1>2 DEF HoldsInv, Busy, Using, Stopping, StartBroadcast
  <2>3. SignalInv'
    BY <1>2 DEF SignalInv, Busy, Using, Stopping, IsFirst, StartBroadcast
  <2>4. ScopeInv'
    BY <1>2 DEF ScopeInv, StartBroadcast
  <2> QED
    BY <2>1, <2>2, <2>3, <2>4
<1>3. ASSUME NEW c \in Clients, SkipInactive(c) PROVE OwnershipInv'
  <2>1. SlotsInv'
    BY <1>3 DEF SlotsInv, SkipInactive
  <2>2. HoldsInv'
    BY <1>3 DEF HoldsInv, Busy, Using, Stopping, SkipInactive
  <2>3. SignalInv'
    BY <1>3 DEF SignalInv, Busy, Using, Stopping, IsFirst, SkipInactive
  <2>4. ScopeInv'
    BY <1>3 DEF ScopeInv, SkipInactive
  <2> QED
    BY <2>1, <2>2, <2>3, <2>4
<1>4. ASSUME NEW c \in Clients, Emplace(c) PROVE OwnershipInv'
  <2>1. SlotsInv'
    BY <1>4, FirstUnique DEF SlotsInv, TypeInv, TypeOK, IsFirst, Emplace
  <2>2. HoldsInv'
    <3>1. slot[c] = None
      BY <1>4 DEF SlotsInv, Emplace, IsFirst
    <3>2. ~Using(c)
      BY <3>1 DEF HoldsInv, Using
    <3> QED
      BY <1>4, <3>2
         DEF HoldsInv, Using, Busy, Stopping, TypeInv, TypeOK, Emplace
  <2>3. SignalInv'
    <3>1. slot[c] = None
      BY <1>4 DEF SlotsInv, Emplace, IsFirst
    <3>2. ~Using(c)
      BY <3>1 DEF HoldsInv, Using
    <3>3. PICK a \in Cells : /\ state[a] = "FREED"
                            /\ slot' = [slot EXCEPT ![c] = a]
                            /\ signal' = [signal EXCEPT ![a] = 0]
      BY <1>4 DEF Emplace
    <3>4. signal'[slot'[c]] = 0
      BY <3>3 DEF TypeInv, TypeOK
    <3>5. ASSUME NEW d \in Clients, d # c, Using(d)
          PROVE  signal'[slot'[d]] = 0
      BY <3>3, <3>5 DEF SignalInv, HoldsInv, SlotsInv, Using, TypeInv, TypeOK
    <3>6. \A d \in Clients : IsFirst(d) => d = c
      BY <1>4, FirstUnique DEF Emplace
    <3>7. \A d \in Clients : (Using(d)' => Using(d)) /\ (IsFirst(d)' => IsFirst(d))
      BY <1>4 DEF Emplace, Using, Busy, Stopping, IsFirst
    <3> QED
      BY <3>2, <3>4, <3>5, <3>6, <3>7 DEF SignalInv
  <2>4. ScopeInv'
    BY <1>4, FirstUnique
       DEF ScopeInv, HoldsInv, SlotsInv, Busy, Using, Stopping, IsFirst,
           TypeInv, TypeOK, ThreadPC, Emplace
  <2> QED
    BY <2>1, <2>2, <2>3, <2>4
<1>5. ASSUME NEW c \in Clients, Submit(c) PROVE OwnershipInv'
  <2>1. SlotsInv'
    BY <1>5, FirstUnique DEF SlotsInv, TypeInv, TypeOK, Submit
  <2>2. HoldsInv'
    <3>1. slot[c] # None
      BY <1>5 DEF TypeInv, GameOK, Submit
    <3>2. CASE Stopping(c) \/ ~active[c]
      BY <1>5, <3>2 DEF HoldsInv, Busy, Stopping, TypeInv, TypeOK, Submit
    <3>3. CASE ~Stopping(c) /\ active[c]
      <4>1. ~Busy(c) /\ queue[c] = <<>>
        BY <1>5, <3>3 DEF ScopeInv, Using, Submit
      <4>2. Append(queue[c], slot[c]) = <<slot[c]>>
        BY <4>1
      <4> QED
        BY <1>5, <3>1, <3>3, <4>1, <4>2
           DEF HoldsInv, Busy, Stopping, TypeInv, TypeOK, Submit
    <3> QED
      BY <3>2, <3>3
  <2>3. SignalInv'
    BY <1>5, FirstUnique
       DEF SignalInv, HoldsInv, Busy, Using, Stopping, IsFirst, TypeInv,
           TypeOK, ThreadPC, Submit
  <2>4. ScopeInv'
    BY <1>5, FirstUnique DEF ScopeInv, Submit
  <2> QED
    BY <2>1, <2>2, <2>3, <2>4
<1>6. CASE StartWait
  <2>1. SlotsInv'
    BY <1>6 DEF SlotsInv, StartWait, WaitedFor
  <2>2. HoldsInv'
    BY <1>6 DEF HoldsInv, Busy, Using, Stopping, StartWait, WaitedFor
  <2>3. SignalInv'
    BY <1>6 DEF SignalInv, Busy, Using, Stopping, IsFirst, StartWait, WaitedFor
  <2>4. ScopeInv'
    BY <1>6
       DEF ScopeInv, HoldsInv, Busy, Using, Stopping, IsFirst, TypeInv, TypeOK,
           ThreadPC, StartWait, WaitedFor
  <2> QED
    BY <2>1, <2>2, <2>3, <2>4
<1>7. ASSUME NEW c \in Clients, WaitAcquire(c) PROVE OwnershipInv'
  <2>1. SlotsInv'
    BY <1>7 DEF SlotsInv, WaitAcquire, Successful
  <2>2. HoldsInv'
    BY <1>7 DEF HoldsInv, Busy, Using, Stopping, WaitAcquire, Successful
  <2>3. SignalInv'
    BY <1>7
       DEF SignalInv, Busy, Using, Stopping, IsFirst, WaitAcquire, Successful
  <2>4. ScopeInv'
    BY <1>7
       DEF ScopeInv, HoldsInv, SlotsInv, SignalInv, Busy, Using, Stopping,
           IsFirst, TypeInv, TypeOK, ThreadPC, WaitAcquire, Successful
  <2> QED
    BY <2>1, <2>2, <2>3, <2>4
<1>8. ASSUME NEW c \in Clients, WaitExpire(c) PROVE OwnershipInv'
  <2>1. SlotsInv'
    BY <1>8, HeldIsOwn DEF SlotsInv, WaitExpire
  <2>2. HoldsInv'
    BY <1>8, HeldIsOwn DEF HoldsInv, Busy, Using, Stopping, WaitExpire
  <2>3. SignalInv'
    BY <1>8, HeldIsOwn
       DEF SignalInv, Busy, Using, Stopping, IsFirst, WaitExpire
  <2>4. ScopeInv'
    BY <1>8, HeldIsOwn DEF ScopeInv, Busy, Using, Stopping, IsFirst, WaitExpire
  <2> QED
    BY <2>1, <2>2, <2>3, <2>4
<1>9. CASE Finish
  <2>1. SlotsInv'
    BY <1>9 DEF SlotsInv, Finish, NoResponses
  <2>2. HoldsInv'
    BY <1>9
       DEF HoldsInv, SlotsInv, ScopeInv, Busy, Using, Stopping, TypeInv,
           TypeOK, ThreadPC, Finish, NoResponses
  <2>3. SignalInv'
    <3>1. \A d \in Clients : ~Using(d)
      BY <1>9 DEF ScopeInv, Finish, NoResponses
    <3>2. \A d \in Clients : ~Using(d)'
      BY <1>9, <3>1 DEF Using, Busy, Stopping, Finish, NoResponses
    <3> QED
      BY <1>9, <3>2 DEF SignalInv, Finish, NoResponses
  <2>4. ScopeInv'
    BY <1>9 DEF ScopeInv, Finish, NoResponses
  <2> QED
    BY <2>1, <2>2, <2>3, <2>4
<1>10. ASSUME NEW c \in Clients, Pop(c) PROVE OwnershipInv'
  <2>1. SlotsInv'
    BY <1>10 DEF SlotsInv, IsFirst, Pop, Popped
  <2>2. HoldsInv'
    <3>1. slot[c] # None /\ queue[c] = <<slot[c]>>
      BY <1>10 DEF HoldsInv, Stopping, Pop, Popped
    <3>2. Head(queue[c]) = slot[c] /\ Tail(queue[c]) = <<>>
      BY <3>1
    <3> QED
      BY <1>10, <3>1, <3>2
         DEF HoldsInv, Busy, Stopping, TypeInv, TypeOK, Pop, Popped
  <2>3. SignalInv'
    BY <1>10 DEF SignalInv, Busy, Using, Stopping, IsFirst, Pop, Popped
  <2>4. ScopeInv'
    BY <1>10 DEF ScopeInv, Busy, Using, Stopping, IsFirst, Pop, Popped
  <2> QED
    BY <2>1, <2>2, <2>3, <2>4
<1>11. ASSUME NEW c \in Clients, Skip(c) PROVE OwnershipInv'
  <2>1. SlotsInv'
    BY <1>11 DEF SlotsInv, IsFirst, Skip, LeaveScope
  <2>2. HoldsInv'
    BY <1>11
       DEF HoldsInv, Busy, Using, Stopping, TypeInv, TypeOK, ThreadPC, Skip,
           LeaveScope
  <2>3. SignalInv'
    BY <1>11 DEF SignalInv, Busy, Using, Stopping, IsFirst, Skip, LeaveScope
  <2>4. ScopeInv'
    BY <1>11 DEF ScopeInv, Busy, Using, Stopping, IsFirst, Skip, LeaveScope
  <2> QED
    BY <2>1, <2>2, <2>3, <2>4
<1>12. ASSUME NEW c \in Clients, WriteFails(c) PROVE OwnershipInv'
  <2>1. SlotsInv'
    BY <1>12 DEF SlotsInv, IsFirst, WriteFails, Runnable, Put
  <2>2. HoldsInv'
    BY <1>12 DEF HoldsInv, Busy, Using, Stopping, WriteFails, Runnable, Put
  <2>3. SignalInv'
    BY <1>12
       DEF SignalInv, Busy, Using, Stopping, IsFirst, WriteFails, Runnable, Put
  <2>4. ScopeInv'
    BY <1>12
       DEF ScopeInv, Busy, Using, Stopping, IsFirst, WriteFails, Runnable, Put
  <2> QED
    BY <2>1, <2>2, <2>3, <2>4
<1>13. ASSUME NEW c \in Clients, WriteUpdate(c) PROVE OwnershipInv'
  <2>1. SlotsInv'
    BY <1>13 DEF SlotsInv, IsFirst, WriteUpdate, Sent, Runnable, Put
  <2>2. HoldsInv'
    BY <1>13
       DEF HoldsInv, Busy, Using, Stopping, WriteUpdate, Sent, Runnable, Put
  <2>3. SignalInv'
    BY <1>13
       DEF SignalInv, Busy, Using, Stopping, IsFirst, WriteUpdate, Sent,
           Runnable, Put
  <2>4. ScopeInv'
    BY <1>13
       DEF ScopeInv, Busy, Using, Stopping, IsFirst, WriteUpdate, Sent,
           Runnable, Put
  <2> QED
    BY <2>1, <2>2, <2>3, <2>4
<1>14. ASSUME NEW c \in Clients, WriteRequest(c) PROVE OwnershipInv'
  <2>1. SlotsInv'
    BY <1>14 DEF SlotsInv, IsFirst, WriteRequest, Sent, Runnable, Put
  <2>2. HoldsInv'
    BY <1>14
       DEF HoldsInv, Busy, Using, Stopping, WriteRequest, Sent, Runnable, Put
  <2>3. SignalInv'
    BY <1>14
       DEF SignalInv, Busy, Using, Stopping, IsFirst, WriteRequest, Sent,
           Runnable, Put
  <2>4. ScopeInv'
    BY <1>14
       DEF ScopeInv, Busy, Using, Stopping, IsFirst, WriteRequest, Sent,
           Runnable, Put
  <2> QED
    BY <2>1, <2>2, <2>3, <2>4
<1>15. ASSUME NEW c \in Clients, ReadValid(c) PROVE OwnershipInv'
  <2>1. SlotsInv'
    BY <1>15 DEF SlotsInv, IsFirst, ReadValid, AfterRead, Put
  <2>2. HoldsInv'
    BY <1>15 DEF HoldsInv, Busy, Using, Stopping, ReadValid, AfterRead, Put
  <2>3. SignalInv'
    BY <1>15
       DEF SignalInv, Busy, Using, Stopping, IsFirst, ReadValid, AfterRead, Put
  <2>4. ScopeInv'
    BY <1>15
       DEF ScopeInv, Busy, Using, Stopping, IsFirst, ReadValid, AfterRead, Put
  <2> QED
    BY <2>1, <2>2, <2>3, <2>4
<1>16. ASSUME NEW c \in Clients, ReadInvalid(c) PROVE OwnershipInv'
  <2>1. SlotsInv'
    BY <1>16 DEF SlotsInv, IsFirst, ReadInvalid, AfterRead, Put
  <2>2. HoldsInv'
    BY <1>16 DEF HoldsInv, Busy, Using, Stopping, ReadInvalid, AfterRead, Put
  <2>3. SignalInv'
    BY <1>16
       DEF SignalInv, Busy, Using, Stopping, IsFirst, ReadInvalid, AfterRead,
           Put
  <2>4. ScopeInv'
    BY <1>16
       DEF ScopeInv, Busy, Using, Stopping, IsFirst, ReadInvalid, AfterRead,
           Put
  <2> QED
    BY <2>1, <2>2, <2>3, <2>4
<1>17. ASSUME NEW c \in Clients, ReadShort(c) PROVE OwnershipInv'
  <2>1. SlotsInv'
    BY <1>17 DEF SlotsInv, IsFirst, ReadShort, AfterRead, Put
  <2>2. HoldsInv'
    BY <1>17 DEF HoldsInv, Busy, Using, Stopping, ReadShort, AfterRead, Put
  <2>3. SignalInv'
    BY <1>17
       DEF SignalInv, Busy, Using, Stopping, IsFirst, ReadShort, AfterRead, Put
  <2>4. ScopeInv'
    BY <1>17
       DEF ScopeInv, Busy, Using, Stopping, IsFirst, ReadShort, AfterRead, Put
  <2> QED
    BY <2>1, <2>2, <2>3, <2>4
<1>18. ASSUME NEW c \in Clients, ReadPart(c) PROVE OwnershipInv'
  <2>1. SlotsInv'
    BY <1>18 DEF SlotsInv, IsFirst, ReadPart, AfterRead, Put
  <2>2. HoldsInv'
    BY <1>18 DEF HoldsInv, Busy, Using, Stopping, ReadPart, AfterRead, Put
  <2>3. SignalInv'
    BY <1>18
       DEF SignalInv, Busy, Using, Stopping, IsFirst, ReadPart, AfterRead, Put
  <2>4. ScopeInv'
    BY <1>18
       DEF ScopeInv, Busy, Using, Stopping, IsFirst, ReadPart, AfterRead, Put
  <2> QED
    BY <2>1, <2>2, <2>3, <2>4
<1>19. ASSUME NEW c \in Clients, ReadTimeout(c) PROVE OwnershipInv'
  <2>1. SlotsInv'
    BY <1>19 DEF SlotsInv, IsFirst, ReadTimeout, AfterRead, Put
  <2>2. HoldsInv'
    BY <1>19 DEF HoldsInv, Busy, Using, Stopping, ReadTimeout, AfterRead, Put
  <2>3. SignalInv'
    BY <1>19
       DEF SignalInv, Busy, Using, Stopping, IsFirst, ReadTimeout, AfterRead,
           Put
  <2>4. ScopeInv'
    BY <1>19
       DEF ScopeInv, Busy, Using, Stopping, IsFirst, ReadTimeout, AfterRead,
           Put
  <2> QED
    BY <2>1, <2>2, <2>3, <2>4
<1>20. ASSUME NEW c \in Clients, ReadClosed(c) PROVE OwnershipInv'
  <2>1. SlotsInv'
    BY <1>20 DEF SlotsInv, IsFirst, ReadClosed, AfterRead, Put
  <2>2. HoldsInv'
    BY <1>20 DEF HoldsInv, Busy, Using, Stopping, ReadClosed, AfterRead, Put
  <2>3. SignalInv'
    BY <1>20
       DEF SignalInv, Busy, Using, Stopping, IsFirst, ReadClosed, AfterRead,
           Put
  <2>4. ScopeInv'
    BY <1>20
       DEF ScopeInv, Busy, Using, Stopping, IsFirst, ReadClosed, AfterRead, Put
  <2> QED
    BY <2>1, <2>2, <2>3, <2>4
<1>21. ASSUME NEW c \in Clients, Release(c) PROVE OwnershipInv'
  <2>1. SlotsInv'
    BY <1>21 DEF SlotsInv, IsFirst, Release, LeaveScope, Put, AfterFailedWrite
  <2>2. HoldsInv'
    BY <1>21
       DEF HoldsInv, Busy, Using, Stopping, TypeInv, TypeOK, ThreadPC, Release,
           LeaveScope, Put, AfterFailedWrite
  <2>3. SignalInv'
    <3>1. cur[c] = slot[c] /\ slot[c] # None /\ queue[c] = <<>>
      BY <1>21 DEF HoldsInv, Busy, Stopping, Release, AfterFailedWrite
    <3>2. ~Using(c)'
      BY <1>21, <3>1
         DEF TypeInv, TypeOK, Using, Busy, Stopping, Release, LeaveScope,
             AfterFailedWrite
    <3>3. ASSUME NEW d \in Clients, Using(d)' \/ (gpc = "submit" /\ IsFirst(d))
          PROVE  signal'[slot[d]] = 0
      <4>1. d # c
        BY <1>21, <3>2, <3>3
           DEF ScopeInv, Using, Busy, Stopping, Release, AfterFailedWrite
      <4>2. slot[d] # slot[c]
        BY <3>1, <4>1 DEF SlotsInv
      <4>3. signal[slot[d]] = 0
        BY <1>21, <3>3, <4>1
           DEF SignalInv, TypeInv, TypeOK, Using, Busy, Stopping, Release,
               LeaveScope, AfterFailedWrite
      <4> QED
        BY <1>21, <3>1, <4>2, <4>3 DEF TypeOK, Release, Put, AfterFailedWrite
    <3> QED
      BY <1>21, <3>3 DEF SignalInv, Release, IsFirst, AfterFailedWrite
  <2>4. ScopeInv'
    BY <1>21
       DEF ScopeInv, Busy, Using, Stopping, IsFirst, TypeInv, TypeOK, ThreadPC,
           Release, LeaveScope, Put, AfterFailedWrite
  <2> QED
    BY <2>1, <2>2, <2>3, <2>4
<1>22. ASSUME NEW c \in Clients, SizeIsZero(c) PROVE OwnershipInv'
  <2>1. SlotsInv'
    BY <1>22 DEF SlotsInv, IsFirst, SizeIsZero, LeaveScope
  <2>2. HoldsInv'
    BY <1>22 DEF HoldsInv, Busy, Using, Stopping, SizeIsZero, LeaveScope
  <2>3. SignalInv'
    BY <1>22
       DEF SignalInv, Busy, Using, Stopping, IsFirst, SizeIsZero, LeaveScope
  <2>4. ScopeInv'
    BY <1>22
       DEF ScopeInv, Busy, Using, Stopping, IsFirst, SizeIsZero, LeaveScope
  <2> QED
    BY <2>1, <2>2, <2>3, <2>4
<1>23. ASSUME NEW c \in Clients, SizeIsPositive(c) PROVE OwnershipInv'
  <2>1. SlotsInv'
    BY <1>23 DEF SlotsInv, IsFirst, SizeIsPositive, LeaveScope
  <2>2. HoldsInv'
    BY <1>23 DEF HoldsInv, Busy, Using, Stopping, SizeIsPositive, LeaveScope
  <2>3. SignalInv'
    BY <1>23
       DEF SignalInv, Busy, Using, Stopping, IsFirst, SizeIsPositive,
           LeaveScope
  <2>4. ScopeInv'
    BY <1>23
       DEF ScopeInv, Busy, Using, Stopping, IsFirst, SizeIsPositive, LeaveScope
  <2> QED
    BY <2>1, <2>2, <2>3, <2>4
<1>24. ASSUME NEW c \in Clients, Exit(c) PROVE OwnershipInv'
  <2>1. SlotsInv'
    BY <1>24 DEF SlotsInv, IsFirst, Exit
  <2>2. HoldsInv'
    BY <1>24 DEF HoldsInv, Busy, Using, Stopping, Exit
  <2>3. SignalInv'
    BY <1>24 DEF SignalInv, Busy, Using, Stopping, IsFirst, Exit
  <2>4. ScopeInv'
    BY <1>24 DEF ScopeInv, Busy, Using, Stopping, IsFirst, Exit
  <2> QED
    BY <2>1, <2>2, <2>3, <2>4
<1>25. ASSUME NEW c \in Clients, Answer(c) PROVE OwnershipInv'
  <2>1. SlotsInv'
    BY <1>25 DEF SlotsInv, IsFirst, Answer
  <2>2. HoldsInv'
    BY <1>25 DEF HoldsInv, Busy, Using, Stopping, Answer
  <2>3. SignalInv'
    BY <1>25 DEF SignalInv, Busy, Using, Stopping, IsFirst, Answer
  <2>4. ScopeInv'
    BY <1>25 DEF ScopeInv, Busy, Using, Stopping, IsFirst, Answer
  <2> QED
    BY <2>1, <2>2, <2>3, <2>4
<1>26. ASSUME NEW c \in Clients, Close(c) PROVE OwnershipInv'
  <2>1. SlotsInv'
    BY <1>26 DEF SlotsInv, IsFirst, Close
  <2>2. HoldsInv'
    BY <1>26 DEF HoldsInv, Busy, Using, Stopping, Close
  <2>3. SignalInv'
    BY <1>26 DEF SignalInv, Busy, Using, Stopping, IsFirst, Close
  <2>4. ScopeInv'
    BY <1>26 DEF ScopeInv, Busy, Using, Stopping, IsFirst, Close
  <2> QED
    BY <2>1, <2>2, <2>3, <2>4
<1>30. CASE UNCHANGED vars
  BY <1>30
     DEF vars, SlotsInv, HoldsInv, SignalInv, ScopeInv, Busy, Using, Stopping,
         IsFirst
<1> QED
  BY <1>1, <1>2, <1>3, <1>4, <1>5, <1>6, <1>7, <1>8, <1>9, <1>10, <1>11, <1>12,
     <1>13, <1>14, <1>15, <1>16, <1>17, <1>18, <1>19, <1>20, <1>21, <1>22,
     <1>23, <1>24, <1>25, <1>26, <1>30
     DEF Next, Game, Thread, Read

\* The invariant behind the next two theorems.
LEMMA OwnershipInvariance ==
  Spec => [](TypeInv /\ (overdue = {} => OwnershipInv))
<1> DEFINE IInv == TypeInv /\ (overdue = {} => OwnershipInv)
<1>1. Init => IInv
  BY InitType, InitOwnership
<1>2. IInv /\ [Next]_vars => IInv'
  BY NextType, NextOwnership, OverdueMonotonic
<1> QED
  BY <1>1, <1>2, PTL DEF Spec

\* WritesOwnTransaction, for every instance: until a wait ends before the thread
\* it waits for is done, no connection thread uses a ClientTransaction that was
\* freed, or that is another client's.
THEOREM OwnershipCorrect == Spec => []WritesOwnTransaction
<1>1. TypeInv /\ (overdue = {} => OwnershipInv) => WritesOwnTransaction
  BY HeldIsOwn DEF WritesOwnTransaction, OwnershipInv
<1> QED
  BY OwnershipInvariance, <1>1, PTL

\* SignalledOnce, for every instance: until then, no semaphore is released
\* twice.
THEOREM SignalsCorrect == Spec => []SignalledOnce
<1>1. TypeInv /\ (overdue = {} => OwnershipInv) => SignalledOnce
  BY DEF SignalledOnce, OwnershipInv, HoldsInv, SignalInv, Using, Busy,
         Stopping
<1> QED
  BY OwnershipInvariance, <1>1, PTL

(***************************************************************************)
(* Answers.  What a thread finds in its cell is what the current run put   *)
(* there, and DONE means that the reply was saved.                         *)
(***************************************************************************)

\* The transaction of client c is queued, or popped and not yet written.
Pending(c) == ~Stopping(c) /\ (queue[c] # <<>> \/ tpc[c] = "CHECK")

\* The cell of a pending transaction holds the request of the current run.
RequestInv ==
  /\ \A c \in Clients :
       Pending(c) \/ (gpc = "submit" /\ IsFirst(c)) =>
         expects[slot[c]] = ResponseSize(kind) /\ ask[slot[c]] = run
  /\ gpc = "idle" => succeeded = {} /\ \A c \in Clients : responses[c] = 0

\* A reply-bearing transaction that is DONE has its reply saved, and it is
\* such transactions that are counted.
DoneInv ==
  kind # "UPDATE" =>
    \A c \in Clients :
      (slot[c] # None /\ state[slot[c]] = "DONE") \/ c \in succeeded =>
        responses[c] # 0

AnswersInv == RequestInv /\ DoneInv

\* As long as no reply of client c missed its read, the connection is empty
\* between transactions, and carries the request or the reply of the current
\* run during one.
StreamInv ==
  \A c \in Clients \ unread : ~Stopping(c) =>
    /\ tpc[c] # "READ" /\ peer[c] # "reset" =>
         inbox[c] = <<>> /\ requests[c] = <<>>
    /\ peer[c] # "open" => requests[c] = <<>>
    /\ tpc[c] = "READ" =>
         \/ inbox[c] = <<>> /\ requests[c] = <<>>
         \/ inbox[c] = <<>> /\ Len(requests[c]) = 1 /\ requests[c][1].run = run
         \/ requests[c] = <<>> /\ Len(inbox[c]) = 1 /\ inbox[c][1].run = run

RepliesInv ==
  /\ StreamInv
  /\ \A c \in Clients \ unread : responses[c] \in {0, run}

LEMMA InitAnswers == Init => AnswersInv
BY DEF Init, AnswersInv, RequestInv, DoneInv, Pending, Stopping

LEMMA InitReplies == Init => RepliesInv
BY DEF Init, RepliesInv, StreamInv, Stopping

LEMMA NextAnswers ==
  TypeInv /\ OwnershipInv /\ AnswersInv /\ [Next]_vars => AnswersInv'
<1> SUFFICES ASSUME TypeInv, OwnershipInv, AnswersInv, [Next]_vars
             PROVE  AnswersInv'
  OBVIOUS
<1> USE CellsAssumption
    DEF AnswersInv, OwnershipInv, TypeInv, game, results, threads, cells, net,
        history
<1>1. ASSUME NEW c \in Clients, StartNewGame(c) PROVE AnswersInv'
  <2>1. RequestInv'
    BY <1>1
       DEF RequestInv, Pending, ResponseSize, TypeOK, ThreadPC, HoldsInv,
           SlotsInv, Using, Busy, Stopping, IsFirst, StartNewGame
  <2>2. DoneInv'
    BY <1>1
       DEF DoneInv, RequestInv, Pending, ResponseSize, States, TypeOK,
           ThreadPC, HoldsInv, SlotsInv, Using, Busy, Stopping, IsFirst,
           StartNewGame
  <2> QED
    BY <2>1, <2>2
<1>2. ASSUME NEW k \in Kinds \ {"NEW_GAME"}, StartBroadcast(k) PROVE AnswersInv'
  <2>1. RequestInv'
    BY <1>2
       DEF RequestInv, Pending, ResponseSize, TypeOK, ThreadPC, HoldsInv,
           SlotsInv, Using, Busy, Stopping, IsFirst, StartBroadcast
  <2>2. DoneInv'
    BY <1>2
       DEF DoneInv, RequestInv, Pending, ResponseSize, States, TypeOK,
           ThreadPC, HoldsInv, SlotsInv, Using, Busy, Stopping, IsFirst,
           StartBroadcast
  <2> QED
    BY <2>1, <2>2
<1>3. ASSUME NEW c \in Clients, SkipInactive(c) PROVE AnswersInv'
  <2>1. RequestInv'
    BY <1>3
       DEF RequestInv, Pending, ResponseSize, Using, Busy, Stopping, IsFirst,
           SkipInactive
  <2>2. DoneInv'
    BY <1>3 DEF DoneInv, SkipInactive
  <2> QED
    BY <2>1, <2>2
<1>4. ASSUME NEW c \in Clients, Emplace(c) PROVE AnswersInv'
  <2>1. RequestInv'
    <3>1. slot[c] = None
      BY <1>4 DEF SlotsInv, Emplace, IsFirst
    <3>2. PICK a \in Cells : /\ state[a] = "FREED"
                            /\ slot' = [slot EXCEPT ![c] = a]
                            /\ expects' = [expects EXCEPT ![a] = ResponseSize(kind)]
                            /\ ask' = [ask EXCEPT ![a] = run]
      BY <1>4 DEF Emplace
    <3>3. /\ expects'[slot'[c]] = ResponseSize(kind)
          /\ ask'[slot'[c]] = run
      BY <3>2 DEF TypeOK
    <3>4. ~Pending(c)
      BY <3>1 DEF HoldsInv, Pending, Busy
    <3>5. ASSUME NEW d \in Clients, d # c, Pending(d)
          PROVE  /\ expects'[slot'[d]] = ResponseSize(kind)
                 /\ ask'[slot'[d]] = run
      <4>1. slot[d] \in Cells /\ state[slot[d]] # "FREED"
        BY <3>5 DEF HoldsInv, SlotsInv, Pending, Busy, TypeOK
      <4> QED
        BY <3>2, <3>5, <4>1 DEF RequestInv, TypeOK
    <3>6. \A d \in Clients : IsFirst(d) => d = c
      BY <1>4, FirstUnique DEF Emplace
    <3>7. \A d \in Clients : (Pending(d)' => Pending(d)) /\ (IsFirst(d)' => IsFirst(d))
      BY <1>4 DEF Emplace, Pending, Stopping, IsFirst
    <3>8. kind' = kind /\ run' = run /\ gpc' # "idle"
      BY <1>4 DEF Emplace
    <3> QED
      BY <3>3, <3>4, <3>5, <3>6, <3>7, <3>8 DEF RequestInv, ResponseSize
  <2>2. DoneInv'
    BY <1>4, FirstUnique DEF DoneInv, Emplace
  <2> QED
    BY <2>1, <2>2
<1>5. ASSUME NEW c \in Clients, Submit(c) PROVE AnswersInv'
  <2>1. RequestInv'
    BY <1>5, FirstUnique
       DEF RequestInv, Pending, ResponseSize, TypeOK, ThreadPC, Using, Busy,
           Stopping, IsFirst, Submit
  <2>2. DoneInv'
    BY <1>5, FirstUnique
       DEF DoneInv, Pending, ResponseSize, States, TypeOK, ThreadPC, Using,
           Busy, Stopping, IsFirst, Submit
  <2> QED
    BY <2>1, <2>2
<1>6. CASE StartWait
  <2>1. RequestInv'
    BY <1>6
       DEF RequestInv, Pending, ResponseSize, Using, Busy, Stopping, IsFirst,
           StartWait, WaitedFor
  <2>2. DoneInv'
    BY <1>6 DEF DoneInv, StartWait, WaitedFor
  <2> QED
    BY <2>1, <2>2
<1>7. ASSUME NEW c \in Clients, WaitAcquire(c) PROVE AnswersInv'
  <2>1. RequestInv'
    BY <1>7
       DEF RequestInv, Pending, ResponseSize, Using, Busy, Stopping, IsFirst,
           WaitAcquire, Successful
  <2>2. DoneInv'
    <3>1. slot[c] # None
      BY <1>7 DEF GameOK, IsFirst, WaitAcquire, Successful
    <3> QED
      BY <1>7, <3>1 DEF DoneInv, TypeOK, WaitAcquire, Successful
  <2> QED
    BY <2>1, <2>2
<1>8. ASSUME NEW c \in Clients, WaitExpire(c) PROVE AnswersInv'
  <2>1. RequestInv'
    BY <1>8
       DEF RequestInv, Pending, ResponseSize, Using, Busy, Stopping, IsFirst,
           WaitExpire
  <2>2. DoneInv'
    BY <1>8 DEF DoneInv, WaitExpire
  <2> QED
    BY <2>1, <2>2
<1>9. CASE Finish
  <2>1. RequestInv'
    BY <1>9
       DEF RequestInv, Pending, ResponseSize, GameOK, TypeOK, ThreadPC,
           HoldsInv, SlotsInv, ScopeInv, Using, Busy, Stopping, IsFirst, Finish, NoResponses
  <2>2. DoneInv'
    BY <1>9 DEF DoneInv, Finish, NoResponses
  <2> QED
    BY <2>1, <2>2
<1>10. ASSUME NEW c \in Clients, Pop(c) PROVE AnswersInv'
  <2>1. RequestInv'
    BY <1>10
       DEF RequestInv, Pending, ResponseSize, Using, Busy, Stopping, IsFirst,
           Pop, Popped
  <2>2. DoneInv'
    BY <1>10 DEF DoneInv, Pop, Popped
  <2> QED
    BY <2>1, <2>2
<1>11. ASSUME NEW c \in Clients, Skip(c) PROVE AnswersInv'
  <2>1. RequestInv'
    BY <1>11
       DEF RequestInv, Pending, ResponseSize, Using, Busy, Stopping, IsFirst,
           Skip, LeaveScope
  <2>2. DoneInv'
    BY <1>11 DEF DoneInv, Skip, LeaveScope
  <2> QED
    BY <2>1, <2>2
<1>12. ASSUME NEW c \in Clients, WriteFails(c) PROVE AnswersInv'
  <2>1. RequestInv'
    BY <1>12
       DEF RequestInv, Pending, ResponseSize, Using, Busy, Stopping, IsFirst,
           WriteFails, Runnable, Put
  <2>2. DoneInv'
    BY <1>12 DEF DoneInv, WriteFails, Runnable, Put
  <2> QED
    BY <2>1, <2>2
<1>13. ASSUME NEW c \in Clients, WriteUpdate(c) PROVE AnswersInv'
  <2>1. RequestInv'
    BY <1>13
       DEF RequestInv, Pending, ResponseSize, Using, Busy, Stopping, IsFirst,
           WriteUpdate, Sent, Runnable, Put
  <2>2. DoneInv'
    <3>1. expects[slot[c]] = "NOTHING"
      BY <1>13 DEF HoldsInv, Busy, Stopping, WriteUpdate, Sent, Runnable
    <3>2. ResponseSize(kind) = "NOTHING"
      BY <1>13, <3>1
         DEF RequestInv, Pending, Stopping, WriteUpdate, Sent, Runnable
    <3>3. kind = "UPDATE"
      BY <3>2 DEF ResponseSize, TypeOK, Kinds, Replied
    <3> QED
      BY <1>13, <3>3 DEF DoneInv, WriteUpdate
  <2> QED
    BY <2>1, <2>2
<1>14. ASSUME NEW c \in Clients, WriteRequest(c) PROVE AnswersInv'
  <2>1. RequestInv'
    BY <1>14
       DEF RequestInv, Pending, ResponseSize, Using, Busy, Stopping, IsFirst,
           WriteRequest, Sent, Runnable, Put
  <2>2. DoneInv'
    BY <1>14 DEF DoneInv, WriteRequest, Sent, Runnable, Put
  <2> QED
    BY <2>1, <2>2
<1>15. ASSUME NEW c \in Clients, ReadValid(c) PROVE AnswersInv'
  <2>1. RequestInv'
    BY <1>15
       DEF RequestInv, Pending, ResponseSize, TypeOK, ThreadPC, HoldsInv,
           SlotsInv, Using, Busy, Stopping, IsFirst, ReadValid, AfterRead, Put
  <2>2. DoneInv'
    <3>1. cur[c] = slot[c] /\ slot[c] # None
      BY <1>15 DEF HoldsInv, Busy, Stopping, ReadValid
    <3>2. state[cur[c]] # "FREED"
      BY <3>1 DEF SlotsInv
    <3>3. Head(inbox[c]) \in Reply
      BY <1>15 DEF TypeOK, ReadValid
    <3>4. Head(inbox[c]).run # 0
      BY <3>3 DEF Reply, Runs, Replied
    <3>5. responses'[c] # 0
      BY <1>15, <3>2, <3>4 DEF TypeOK, ReadValid
    <3>6. ASSUME NEW d \in Clients, d # c
          PROVE  /\ responses'[d] = responses[d]
                 /\ slot[d] # None => state'[slot[d]] = state[slot[d]]
      <4>1. slot[d] # None => slot[d] # cur[c]
        BY <3>1, <3>6 DEF SlotsInv
      <4> QED
        BY <1>15, <3>6, <4>1 DEF ReadValid, AfterRead, Put
    <3>7. slot' = slot /\ succeeded' = succeeded /\ kind' = kind
      BY <1>15 DEF ReadValid
    <3> QED
      BY <3>5, <3>6, <3>7 DEF DoneInv
  <2> QED
    BY <2>1, <2>2
<1>16. ASSUME NEW c \in Clients, ReadInvalid(c) PROVE AnswersInv'
  <2>1. RequestInv'
    <3>1. cur[c] = slot[c] /\ slot[c] # None /\ queue[c] = <<>> /\ Using(c)
      BY <1>16 DEF HoldsInv, Using, Busy, Stopping, ReadInvalid
    <3>2. ~Pending(c)'
      BY <1>16, <3>1 DEF Pending, TypeOK, ReadInvalid, AfterRead
    <3>3. ~(gpc = "submit" /\ IsFirst(c))
      BY <3>1 DEF ScopeInv
    <3>4. ASSUME NEW d \in Clients, d # c
          PROVE  /\ expects'[slot[d]] = expects[slot[d]]
                 /\ Pending(d)' => Pending(d)
      <4>1. slot[d] # slot[c]
        BY <3>1, <3>4 DEF SlotsInv
      <4> QED
        BY <1>16, <3>1, <3>4, <4>1
           DEF Pending, Stopping, ReadInvalid, AfterRead, Put
    <3> QED
      BY <1>16, <3>2, <3>3, <3>4 DEF RequestInv, ReadInvalid, IsFirst
  <2>2. DoneInv'
    BY <1>16 DEF DoneInv, ReadInvalid, AfterRead, Put
  <2> QED
    BY <2>1, <2>2
<1>17. ASSUME NEW c \in Clients, ReadShort(c) PROVE AnswersInv'
  <2>1. RequestInv'
    BY <1>17
       DEF RequestInv, Pending, ResponseSize, Using, Busy, Stopping, IsFirst,
           ReadShort, AfterRead, Put
  <2>2. DoneInv'
    BY <1>17 DEF DoneInv, ReadShort, AfterRead, Put
  <2> QED
    BY <2>1, <2>2
<1>18. ASSUME NEW c \in Clients, ReadPart(c) PROVE AnswersInv'
  <2>1. RequestInv'
    BY <1>18
       DEF RequestInv, Pending, ResponseSize, Using, Busy, Stopping, IsFirst,
           ReadPart, AfterRead, Put
  <2>2. DoneInv'
    BY <1>18 DEF DoneInv, ReadPart, AfterRead, Put
  <2> QED
    BY <2>1, <2>2
<1>19. ASSUME NEW c \in Clients, ReadTimeout(c) PROVE AnswersInv'
  <2>1. RequestInv'
    BY <1>19
       DEF RequestInv, Pending, ResponseSize, Using, Busy, Stopping, IsFirst,
           ReadTimeout, AfterRead, Put
  <2>2. DoneInv'
    BY <1>19 DEF DoneInv, ReadTimeout, AfterRead, Put
  <2> QED
    BY <2>1, <2>2
<1>20. ASSUME NEW c \in Clients, ReadClosed(c) PROVE AnswersInv'
  <2>1. RequestInv'
    BY <1>20
       DEF RequestInv, Pending, ResponseSize, Using, Busy, Stopping, IsFirst,
           ReadClosed, AfterRead, Put
  <2>2. DoneInv'
    BY <1>20 DEF DoneInv, ReadClosed, AfterRead, Put
  <2> QED
    BY <2>1, <2>2
<1>21. ASSUME NEW c \in Clients, Release(c) PROVE AnswersInv'
  <2>1. RequestInv'
    <3>1. \A d \in Clients : Pending(d)' => Pending(d)
      BY <1>21
         DEF Pending, Busy, Stopping, TypeOK, Release, LeaveScope,
             AfterFailedWrite
    <3> QED
      BY <1>21, <3>1 DEF RequestInv, Release, IsFirst, AfterFailedWrite
  <2>2. DoneInv'
    BY <1>21 DEF DoneInv, Release, LeaveScope, Put, AfterFailedWrite
  <2> QED
    BY <2>1, <2>2
<1>22. ASSUME NEW c \in Clients, SizeIsZero(c) PROVE AnswersInv'
  <2>1. RequestInv'
    BY <1>22
       DEF RequestInv, Pending, ResponseSize, Using, Busy, Stopping, IsFirst,
           SizeIsZero, LeaveScope
  <2>2. DoneInv'
    BY <1>22 DEF DoneInv, SizeIsZero, LeaveScope
  <2> QED
    BY <2>1, <2>2
<1>23. ASSUME NEW c \in Clients, SizeIsPositive(c) PROVE AnswersInv'
  <2>1. RequestInv'
    BY <1>23
       DEF RequestInv, Pending, ResponseSize, Using, Busy, Stopping, IsFirst,
           SizeIsPositive, LeaveScope
  <2>2. DoneInv'
    BY <1>23 DEF DoneInv, SizeIsPositive, LeaveScope
  <2> QED
    BY <2>1, <2>2
<1>24. ASSUME NEW c \in Clients, Exit(c) PROVE AnswersInv'
  <2>1. RequestInv'
    BY <1>24
       DEF RequestInv, Pending, ResponseSize, Using, Busy, Stopping, IsFirst,
           Exit
  <2>2. DoneInv'
    BY <1>24 DEF DoneInv, Exit
  <2> QED
    BY <2>1, <2>2
<1>25. ASSUME NEW c \in Clients, Answer(c) PROVE AnswersInv'
  <2>1. RequestInv'
    BY <1>25
       DEF RequestInv, Pending, ResponseSize, Using, Busy, Stopping, IsFirst,
           Answer
  <2>2. DoneInv'
    BY <1>25 DEF DoneInv, Answer
  <2> QED
    BY <2>1, <2>2
<1>26. ASSUME NEW c \in Clients, Close(c) PROVE AnswersInv'
  <2>1. RequestInv'
    BY <1>26
       DEF RequestInv, Pending, ResponseSize, Using, Busy, Stopping, IsFirst,
           Close
  <2>2. DoneInv'
    BY <1>26 DEF DoneInv, Close
  <2> QED
    BY <2>1, <2>2
<1>30. CASE UNCHANGED vars
  BY <1>30
     DEF vars, RequestInv, Pending, ResponseSize, GameOK, TypeOK, ThreadPC,
         HoldsInv, SlotsInv, Using, Busy, Stopping, IsFirst, DoneInv, States
<1> QED
  BY <1>1, <1>2, <1>3, <1>4, <1>5, <1>6, <1>7, <1>8, <1>9, <1>10, <1>11, <1>12,
     <1>13, <1>14, <1>15, <1>16, <1>17, <1>18, <1>19, <1>20, <1>21, <1>22,
     <1>23, <1>24, <1>25, <1>26, <1>30
     DEF Next, Game, Thread, Read

LEMMA NextReplies ==
  TypeInv /\ OwnershipInv /\ AnswersInv /\ RepliesInv /\ [Next]_vars => RepliesInv'
<1> SUFFICES ASSUME TypeInv, OwnershipInv, AnswersInv, RepliesInv, [Next]_vars
             PROVE  RepliesInv'
  OBVIOUS
<1> USE CellsAssumption
    DEF RepliesInv, OwnershipInv, TypeInv, game, results, threads, cells, net,
        history
<1>1. ASSUME NEW c \in Clients, StartNewGame(c) PROVE RepliesInv'
  <2>1. StreamInv'
    BY <1>1
       DEF StreamInv, Pending, TypeOK, ThreadPC, HoldsInv, SlotsInv, Using,
           Busy, Stopping, IsFirst, StartNewGame
  <2>2. (\A d \in Clients \ unread : responses[d] \in {0, run})'
    BY <1>1
       DEF AnswersInv, RequestInv, TypeOK, ThreadPC, HoldsInv, SlotsInv, Using,
           Busy, Stopping, IsFirst, StartNewGame
  <2> QED
    BY <2>1, <2>2
<1>2. ASSUME NEW k \in Kinds \ {"NEW_GAME"}, StartBroadcast(k) PROVE RepliesInv'
  <2>1. StreamInv'
    BY <1>2
       DEF StreamInv, Pending, TypeOK, ThreadPC, HoldsInv, SlotsInv, Using,
           Busy, Stopping, IsFirst, StartBroadcast
  <2>2. (\A d \in Clients \ unread : responses[d] \in {0, run})'
    BY <1>2
       DEF AnswersInv, RequestInv, TypeOK, ThreadPC, HoldsInv, SlotsInv, Using,
           Busy, Stopping, IsFirst, StartBroadcast
  <2> QED
    BY <2>1, <2>2
<1>3. ASSUME NEW c \in Clients, SkipInactive(c) PROVE RepliesInv'
  <2>1. StreamInv'
    BY <1>3
       DEF StreamInv, Pending, Using, Busy, Stopping, IsFirst, SkipInactive
  <2>2. (\A d \in Clients \ unread : responses[d] \in {0, run})'
    BY <1>3 DEF AnswersInv, SkipInactive
  <2> QED
    BY <2>1, <2>2
<1>4. ASSUME NEW c \in Clients, Emplace(c) PROVE RepliesInv'
  <2>1. StreamInv'
    BY <1>4 DEF StreamInv, Pending, Using, Busy, Stopping, IsFirst, Emplace
  <2>2. (\A d \in Clients \ unread : responses[d] \in {0, run})'
    BY <1>4 DEF AnswersInv, Emplace
  <2> QED
    BY <2>1, <2>2
<1>5. ASSUME NEW c \in Clients, Submit(c) PROVE RepliesInv'
  <2>1. StreamInv'
    BY <1>5 DEF StreamInv, Pending, Using, Busy, Stopping, IsFirst, Submit
  <2>2. (\A d \in Clients \ unread : responses[d] \in {0, run})'
    BY <1>5 DEF AnswersInv, Submit
  <2> QED
    BY <2>1, <2>2
<1>6. CASE StartWait
  <2>1. StreamInv'
    BY <1>6
       DEF StreamInv, Pending, Using, Busy, Stopping, IsFirst, StartWait,
           WaitedFor
  <2>2. (\A d \in Clients \ unread : responses[d] \in {0, run})'
    BY <1>6 DEF AnswersInv, StartWait, WaitedFor
  <2> QED
    BY <2>1, <2>2
<1>7. ASSUME NEW c \in Clients, WaitAcquire(c) PROVE RepliesInv'
  <2>1. StreamInv'
    BY <1>7
       DEF StreamInv, Pending, Using, Busy, Stopping, IsFirst, WaitAcquire,
           Successful
  <2>2. (\A d \in Clients \ unread : responses[d] \in {0, run})'
    BY <1>7 DEF AnswersInv, WaitAcquire, Successful
  <2> QED
    BY <2>1, <2>2
<1>8. ASSUME NEW c \in Clients, WaitExpire(c) PROVE RepliesInv'
  <2>1. StreamInv'
    BY <1>8 DEF StreamInv, Pending, Using, Busy, Stopping, IsFirst, WaitExpire
  <2>2. (\A d \in Clients \ unread : responses[d] \in {0, run})'
    BY <1>8 DEF AnswersInv, WaitExpire
  <2> QED
    BY <2>1, <2>2
<1>9. CASE Finish
  <2>1. StreamInv'
    BY <1>9
       DEF StreamInv, Pending, Using, Busy, Stopping, IsFirst, Finish,
           NoResponses
  <2>2. (\A d \in Clients \ unread : responses[d] \in {0, run})'
    BY <1>9 DEF AnswersInv, Finish, NoResponses
  <2> QED
    BY <2>1, <2>2
<1>10. ASSUME NEW c \in Clients, Pop(c) PROVE RepliesInv'
  <2>1. StreamInv'
    BY <1>10
       DEF StreamInv, Pending, Using, Busy, Stopping, IsFirst, Pop, Popped
  <2>2. (\A d \in Clients \ unread : responses[d] \in {0, run})'
    BY <1>10 DEF AnswersInv, Pop, Popped
  <2> QED
    BY <2>1, <2>2
<1>11. ASSUME NEW c \in Clients, Skip(c) PROVE RepliesInv'
  <2>1. StreamInv'
    BY <1>11
       DEF StreamInv, Pending, Using, Busy, Stopping, IsFirst, Skip, LeaveScope
  <2>2. (\A d \in Clients \ unread : responses[d] \in {0, run})'
    BY <1>11 DEF AnswersInv, Skip, LeaveScope
  <2> QED
    BY <2>1, <2>2
<1>12. ASSUME NEW c \in Clients, WriteFails(c) PROVE RepliesInv'
  <2>1. StreamInv'
    BY <1>12
       DEF StreamInv, Pending, Using, Busy, Stopping, IsFirst, WriteFails,
           Runnable, Put
  <2>2. (\A d \in Clients \ unread : responses[d] \in {0, run})'
    BY <1>12 DEF AnswersInv, WriteFails, Runnable, Put
  <2> QED
    BY <2>1, <2>2
<1>13. ASSUME NEW c \in Clients, WriteUpdate(c) PROVE RepliesInv'
  <2>1. StreamInv'
    BY <1>13
       DEF StreamInv, Pending, Using, Busy, Stopping, IsFirst, WriteUpdate,
           Sent, Runnable, Put
  <2>2. (\A d \in Clients \ unread : responses[d] \in {0, run})'
    BY <1>13 DEF AnswersInv, WriteUpdate, Sent, Runnable, Put
  <2> QED
    BY <2>1, <2>2
<1>14. ASSUME NEW c \in Clients, WriteRequest(c) PROVE RepliesInv'
  <2>1. StreamInv'
    BY <1>14
       DEF StreamInv, AnswersInv, RequestInv, Pending, TypeOK, ThreadPC,
           HoldsInv, SlotsInv, Using, Busy, Stopping, IsFirst, WriteRequest,
           Sent, Runnable, Put
  <2>2. (\A d \in Clients \ unread : responses[d] \in {0, run})'
    BY <1>14 DEF AnswersInv, WriteRequest, Sent, Runnable, Put
  <2> QED
    BY <2>1, <2>2
<1>15. ASSUME NEW c \in Clients, ReadValid(c) PROVE RepliesInv'
  <2>1. StreamInv'
    <3>1. ASSUME c \notin unread
          PROVE  /\ requests[c] = <<>> /\ Len(inbox[c]) = 1
                 /\ Head(inbox[c]).run = run /\ Tail(inbox[c]) = <<>>
      <4>1. requests[c] = <<>> /\ Len(inbox[c]) = 1 /\ inbox[c][1].run = run
        BY <1>15, <3>1 DEF StreamInv, Stopping, ReadValid
      <4> QED
        BY <4>1, SingletonSeq DEF TypeOK
    <3> QED
      BY <1>15, <3>1 DEF StreamInv, Stopping, TypeOK, ReadValid, AfterRead
  <2>2. (\A d \in Clients \ unread : responses[d] \in {0, run})'
    <3>1. ASSUME c \notin unread
          PROVE  /\ requests[c] = <<>> /\ Len(inbox[c]) = 1
                 /\ Head(inbox[c]).run = run /\ Tail(inbox[c]) = <<>>
      <4>1. requests[c] = <<>> /\ Len(inbox[c]) = 1 /\ inbox[c][1].run = run
        BY <1>15, <3>1 DEF StreamInv, Stopping, ReadValid
      <4> QED
        BY <4>1, SingletonSeq DEF TypeOK
    <3> QED
      BY <1>15, <3>1 DEF ReadValid
  <2> QED
    BY <2>1, <2>2
<1>16. ASSUME NEW c \in Clients, ReadInvalid(c) PROVE RepliesInv'
  <2>1. StreamInv'
    <3>1. ASSUME c \notin unread
          PROVE  /\ requests[c] = <<>> /\ Len(inbox[c]) = 1
                 /\ Head(inbox[c]).run = run /\ Tail(inbox[c]) = <<>>
      <4>1. requests[c] = <<>> /\ Len(inbox[c]) = 1 /\ inbox[c][1].run = run
        BY <1>16, <3>1 DEF StreamInv, Stopping, ReadInvalid
      <4> QED
        BY <4>1, SingletonSeq DEF TypeOK
    <3> QED
      BY <1>16, <3>1 DEF StreamInv, Stopping, TypeOK, ReadInvalid, AfterRead
  <2>2. (\A d \in Clients \ unread : responses[d] \in {0, run})'
    BY <1>16 DEF AnswersInv, ReadInvalid, AfterRead, Put
  <2> QED
    BY <2>1, <2>2
<1>17. ASSUME NEW c \in Clients, ReadShort(c) PROVE RepliesInv'
  <2>1. StreamInv'
    BY <1>17
       DEF StreamInv, Pending, Using, Busy, Stopping, IsFirst, ReadShort,
           AfterRead, Put
  <2>2. (\A d \in Clients \ unread : responses[d] \in {0, run})'
    BY <1>17 DEF AnswersInv, ReadShort, AfterRead, Put
  <2> QED
    BY <2>1, <2>2
<1>18. ASSUME NEW c \in Clients, ReadPart(c) PROVE RepliesInv'
  <2>1. StreamInv'
    BY <1>18
       DEF StreamInv, Pending, Using, Busy, Stopping, IsFirst, ReadPart,
           AfterRead, Put
  <2>2. (\A d \in Clients \ unread : responses[d] \in {0, run})'
    BY <1>18 DEF AnswersInv, ReadPart, AfterRead, Put
  <2> QED
    BY <2>1, <2>2
<1>19. ASSUME NEW c \in Clients, ReadTimeout(c) PROVE RepliesInv'
  <2>1. StreamInv'
    BY <1>19
       DEF StreamInv, Pending, Using, Busy, Stopping, IsFirst, ReadTimeout,
           AfterRead, Put
  <2>2. (\A d \in Clients \ unread : responses[d] \in {0, run})'
    BY <1>19 DEF AnswersInv, ReadTimeout, AfterRead, Put
  <2> QED
    BY <2>1, <2>2
<1>20. ASSUME NEW c \in Clients, ReadClosed(c) PROVE RepliesInv'
  <2>1. StreamInv'
    BY <1>20
       DEF StreamInv, Pending, Using, Busy, Stopping, IsFirst, ReadClosed,
           AfterRead, Put
  <2>2. (\A d \in Clients \ unread : responses[d] \in {0, run})'
    BY <1>20 DEF AnswersInv, ReadClosed, AfterRead, Put
  <2> QED
    BY <2>1, <2>2
<1>21. ASSUME NEW c \in Clients, Release(c) PROVE RepliesInv'
  <2>1. StreamInv'
    BY <1>21
       DEF StreamInv, Pending, TypeOK, ThreadPC, Using, Busy, Stopping,
           IsFirst, Release, LeaveScope, Put, AfterFailedWrite
  <2>2. (\A d \in Clients \ unread : responses[d] \in {0, run})'
    BY <1>21 DEF AnswersInv, Release, LeaveScope, Put, AfterFailedWrite
  <2> QED
    BY <2>1, <2>2
<1>22. ASSUME NEW c \in Clients, SizeIsZero(c) PROVE RepliesInv'
  <2>1. StreamInv'
    BY <1>22
       DEF StreamInv, Pending, Using, Busy, Stopping, IsFirst, SizeIsZero,
           LeaveScope
  <2>2. (\A d \in Clients \ unread : responses[d] \in {0, run})'
    BY <1>22 DEF AnswersInv, SizeIsZero, LeaveScope
  <2> QED
    BY <2>1, <2>2
<1>23. ASSUME NEW c \in Clients, SizeIsPositive(c) PROVE RepliesInv'
  <2>1. StreamInv'
    BY <1>23
       DEF StreamInv, Pending, Using, Busy, Stopping, IsFirst, SizeIsPositive,
           LeaveScope
  <2>2. (\A d \in Clients \ unread : responses[d] \in {0, run})'
    BY <1>23 DEF AnswersInv, SizeIsPositive, LeaveScope
  <2> QED
    BY <2>1, <2>2
<1>24. ASSUME NEW c \in Clients, Exit(c) PROVE RepliesInv'
  <2>1. StreamInv'
    BY <1>24 DEF StreamInv, Pending, Using, Busy, Stopping, IsFirst, Exit
  <2>2. (\A d \in Clients \ unread : responses[d] \in {0, run})'
    BY <1>24 DEF AnswersInv, Exit
  <2> QED
    BY <2>1, <2>2
<1>25. ASSUME NEW c \in Clients, Answer(c) PROVE RepliesInv'
  <2>1. StreamInv'
    <3>1. ASSUME c \notin unread, ~Stopping(c)
          PROVE  /\ tpc[c] = "READ" /\ inbox[c] = <<>>
                 /\ Len(requests[c]) = 1 /\ Head(requests[c]).run = run
                 /\ Tail(requests[c]) = <<>>
      <4>1. /\ tpc[c] = "READ" /\ inbox[c] = <<>>
            /\ Len(requests[c]) = 1 /\ requests[c][1].run = run
        BY <1>25, <3>1 DEF StreamInv, Answer
      <4> QED
        BY <4>1, SingletonSeq DEF TypeOK
    <3>2. ASSUME c \notin unread, ~Stopping(c)
          PROVE  Len(inbox'[c]) = 1 /\ inbox'[c][1].run = run
      <4> DEFINE r == [kind |-> Head(requests[c]).kind,
                       run |-> Head(requests[c]).run, part |-> "WHOLE"]
      <4>1. inbox'[c] = Append(<<>>, r)
        BY <1>25, <3>1, <3>2 DEF TypeOK, Answer
      <4>2. r.run = run
        BY <3>1, <3>2
      <4> HIDE DEF r
      <4> QED
        BY <4>1, <4>2
    <3> QED
      BY <1>25, <3>1, <3>2 DEF StreamInv, Stopping, TypeOK, Answer
  <2>2. (\A d \in Clients \ unread : responses[d] \in {0, run})'
    BY <1>25 DEF AnswersInv, Answer
  <2> QED
    BY <2>1, <2>2
<1>26. ASSUME NEW c \in Clients, Close(c) PROVE RepliesInv'
  <2>1. StreamInv'
    BY <1>26
       DEF StreamInv, Pending, TypeOK, ThreadPC, Using, Busy, Stopping,
           IsFirst, Close
  <2>2. (\A d \in Clients \ unread : responses[d] \in {0, run})'
    BY <1>26 DEF AnswersInv, Close
  <2> QED
    BY <2>1, <2>2
<1>30. CASE UNCHANGED vars
  BY <1>30
     DEF vars, StreamInv, AnswersInv, RequestInv, Pending, TypeOK, ThreadPC,
         HoldsInv, SlotsInv, Using, Busy, Stopping, IsFirst
<1> QED
  BY <1>1, <1>2, <1>3, <1>4, <1>5, <1>6, <1>7, <1>8, <1>9, <1>10, <1>11, <1>12,
     <1>13, <1>14, <1>15, <1>16, <1>17, <1>18, <1>19, <1>20, <1>21, <1>22,
     <1>23, <1>24, <1>25, <1>26, <1>30
     DEF Next, Game, Thread, Read

\* The invariant behind the next two theorems.
LEMMA RepliesInvariance ==
  Spec => [](/\ TypeInv
             /\ overdue = {} => OwnershipInv /\ AnswersInv /\ RepliesInv)
<1> DEFINE IInv ==
      /\ TypeInv
      /\ overdue = {} => OwnershipInv /\ AnswersInv /\ RepliesInv
<1>1. Init => IInv
  BY InitType, InitOwnership, InitAnswers, InitReplies
<1>2. IInv /\ [Next]_vars => IInv'
  BY NextType, NextOwnership, NextAnswers, NextReplies, OverdueMonotonic
<1> QED
  BY <1>1, <1>2, PTL DEF Spec

\* SuccessMeansAnswered, for every instance: until a wait ends before the
\* thread it waits for is done, a client counted by waitForFinish has its reply
\* saved.
THEOREM AnswersCorrect == Spec => []SuccessMeansAnswered
<1>1. TypeInv /\ (overdue = {} => OwnershipInv /\ AnswersInv /\ RepliesInv)
        => SuccessMeansAnswered
  BY DEF SuccessMeansAnswered, AnswersInv, DoneInv, TypeInv, TypeOK
<1> QED
  BY RepliesInvariance, <1>1, PTL

\* ReplyMatchesRequest, for every instance: until then, the reply of a client
\* that never missed a read answers the request of the current run.
THEOREM RepliesCorrect == Spec => []ReplyMatchesRequest
<1>1. TypeInv /\ (overdue = {} => OwnershipInv /\ AnswersInv /\ RepliesInv)
        => ReplyMatchesRequest
  BY DEF ReplyMatchesRequest, RepliesInv
<1> QED
  BY RepliesInvariance, <1>1, PTL
=============================================================================
