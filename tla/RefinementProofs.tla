-------------------------- MODULE RefinementProofs --------------------------
(***************************************************************************)
(* Transactions implements RequestReply until a wait ends early: for ever, *)
(* if the peers are prompt.  For every set of clients and of cells and     *)
(* every number of runs.                                                   *)
(***************************************************************************)
EXTENDS TransactionsProofs

\* The state of a cell says how far its client's thread has come; it is DONE
\* only while the thread is about to release the semaphore, until the game
\* has acquired it.
ProgressInv ==
  /\ \A c \in Clients : gpc = "submit" /\ IsFirst(c) => state[slot[c]] = "IDLE"
  /\ \A c \in Clients : Pending(c) => state[slot[c]] = "SCHEDULED"
  /\ \A c \in Clients : tpc[c] = "READ" => state[slot[c]] = "WAITING"
  /\ \A c \in Clients : slot[c] # None /\ state[slot[c]] = "DONE" =>
       signal[slot[c]] = 1 \/ Using(c) \/ (gpc = "wait" /\ c \notin todo)

\* A thread writes to the cell of its own client, which is not free.
LEMMA OwnCell ==
  ASSUME TypeInv, OwnershipInv, NEW c \in Clients, Busy(c)
  PROVE  /\ Using(c)
         /\ cur[c] = slot[c] /\ slot[c] \in Cells /\ state[slot[c]] # "FREED"
         /\ queue[c] = <<>>
         /\ \A d \in Clients \ {c} : slot[d] # slot[c]
         /\ \A v : Put(state, cur[c], v) = [state EXCEPT ![slot[c]] = v]
         /\ \A v : Put(signal, cur[c], v) = [signal EXCEPT ![slot[c]] = v]
<1>1. Using(c)
  BY DEF Using, Busy, Stopping
<1>2. cur[c] = slot[c] /\ slot[c] \in Cells /\ queue[c] = <<>>
  BY <1>1 DEF OwnershipInv, HoldsInv, Using, TypeInv, TypeOK
<1>3. state[slot[c]] # "FREED" /\ \A d \in Clients \ {c} : slot[d] # slot[c]
  BY <1>2, CellsAssumption DEF OwnershipInv, SlotsInv
<1> QED
  BY <1>1, <1>2, <1>3 DEF Put

LEMMA InitProgress == Init => ProgressInv
BY DEF Init, ProgressInv, Pending, Stopping

\* Without slow clients no wait ends early.
LEMMA NeverOverdue ==
  ASSUME SlowClients = {}, TypeInv, overdue = {}, [Next]_vars
  PROVE  overdue' = {}
BY DEF DeadlinePasses, Next, vars, Game, Thread, Read, StartNewGame,
       StartBroadcast, SkipInactive, Emplace, Submit, StartWait, WaitAcquire,
       WaitExpire, Finish, Pop, Skip, WriteFails, WriteUpdate, WriteRequest,
       ReadValid, ReadInvalid, ReadShort, ReadPart, ReadTimeout, ReadClosed,
       Release, SizeIsZero, SizeIsPositive, Exit, Answer, Close, game, results,
       threads, cells, net, history, WaitedFor, Successful, NoResponses, Popped, AfterFailedWrite

\* A step in which a thread writes the state of its cell.
LEMMA ThreadWrites ==
  ASSUME TypeInv, OwnershipInv, ProgressInv, NEW c \in Clients, Busy(c),
         NEW v \in States, state' = Put(state, cur[c], v),
         NEW l \in {"READ", "SIGNAL_STOP", "SIGNAL_SIZE", "SIGNAL_DONE"},
         tpc' = [tpc EXCEPT ![c] = l],
         l = "READ" => v = "WAITING",
         UNCHANGED <<gpc, todo, slot, queue, signal>>
  PROVE  ProgressInv'
<1>1. /\ Using(c) /\ queue[c] = <<>> /\ slot[c] # None
      /\ state'[slot[c]] = v
      /\ \A d \in Clients \ {c} : slot[d] # None => state'[slot[d]] = state[slot[d]]
  BY OwnCell, CellsAssumption DEF TypeInv, TypeOK
<1>2. /\ ~Pending(c)' /\ Using(c)' /\ tpc'[c] = l
      /\ \A d \in Clients \ {c} :
           /\ tpc'[d] = tpc[d]
           /\ Pending(d)' <=> Pending(d)
           /\ Using(d)' <=> Using(d)
  BY <1>1 DEF TypeInv, TypeOK, Pending, Using, Busy, Stopping
<1>3. \A d \in Clients : IsFirst(d)' <=> IsFirst(d)
  BY DEF IsFirst
<1>4. \A d \in Clients : Pending(d) \/ tpc[d] = "READ" => slot[d] # None
  BY DEF OwnershipInv, HoldsInv, Pending, Busy, Stopping
<1>5. gpc = "submit" => ~IsFirst(c) /\ \A d \in Clients : IsFirst(d) => slot[d] # None
  BY <1>1 DEF OwnershipInv, ScopeInv, TypeInv, GameOK
<1>6. \A d \in Clients : gpc' = "submit" /\ IsFirst(d)' => state'[slot'[d]] = "IDLE"
  BY <1>1, <1>3, <1>5 DEF ProgressInv
<1>7. \A d \in Clients : Pending(d)' => state'[slot'[d]] = "SCHEDULED"
  BY <1>1, <1>2, <1>4 DEF ProgressInv
<1>8. \A d \in Clients : tpc'[d] = "READ" => state'[slot'[d]] = "WAITING"
  BY <1>1, <1>2, <1>4 DEF ProgressInv
<1>9. \A d \in Clients : slot'[d] # None /\ state'[slot'[d]] = "DONE" =>
        signal'[slot'[d]] = 1 \/ Using(d)' \/ (gpc' = "wait" /\ d \notin todo')
  BY <1>1, <1>2 DEF ProgressInv
<1> QED
  BY <1>6, <1>7, <1>8, <1>9 DEF ProgressInv

LEMMA NextProgress ==
  TypeInv /\ OwnershipInv /\ ProgressInv /\ [Next]_vars => ProgressInv'
<1> SUFFICES ASSUME TypeInv, OwnershipInv, ProgressInv, [Next]_vars
             PROVE  ProgressInv'
  OBVIOUS
<1> USE CellsAssumption
    DEF ProgressInv, OwnershipInv, TypeInv, Pending, Using, Busy, Stopping,
        IsFirst,
        game, results, threads, cells, net, history
<1>1. ASSUME NEW c \in Clients, StartNewGame(c) PROVE ProgressInv'
  BY <1>1 DEF StartNewGame, SlotsInv, HoldsInv
<1>2. ASSUME NEW k \in Kinds \ {"NEW_GAME"}, StartBroadcast(k) PROVE ProgressInv'
  BY <1>2 DEF StartBroadcast, SlotsInv, HoldsInv
<1>3. ASSUME NEW c \in Clients, SkipInactive(c) PROVE ProgressInv'
  BY <1>3 DEF SkipInactive
<1>4. ASSUME NEW c \in Clients, Emplace(c) PROVE ProgressInv'
  <2>1. PICK a \in Cells : /\ state[a] = "FREED"
                          /\ slot' = [slot EXCEPT ![c] = a]
                          /\ state' = [state EXCEPT ![a] = "IDLE"]
                          /\ signal' = [signal EXCEPT ![a] = 0]
    BY <1>4 DEF Emplace
  <2>2. /\ gpc = "emplace" /\ gpc' = "submit" /\ IsFirst(c)
        /\ UNCHANGED <<todo, tpc, queue>>
    BY <1>4 DEF Emplace
  <2>3. /\ slot'[c] = a /\ state'[a] = "IDLE"
        /\ \A d \in Clients \ {c} : slot'[d] = slot[d]
        /\ \A d \in Clients \ {c} : slot[d] # None =>
             state'[slot[d]] = state[slot[d]] /\ signal'[slot[d]] = signal[slot[d]]
    BY <2>1 DEF TypeOK, SlotsInv
  <2>4. slot[c] = None /\ ~Pending(c) /\ tpc[c] # "READ"
    BY <2>2 DEF SlotsInv, HoldsInv
  <2>5. \A d \in Clients : Pending(d) \/ tpc[d] = "READ" => slot[d] # None
    BY DEF HoldsInv
  <2>6. \A d \in Clients : IsFirst(d)' => d = c
    BY <2>2, ClientsAssumption
  <2>7. \A d \in Clients : gpc' = "submit" /\ IsFirst(d)' => state'[slot'[d]] = "IDLE"
    BY <2>3, <2>6
  <2>8. \A d \in Clients : Pending(d)' => state'[slot'[d]] = "SCHEDULED"
    BY <2>2, <2>3, <2>4, <2>5
  <2>9. \A d \in Clients : tpc'[d] = "READ" => state'[slot'[d]] = "WAITING"
    BY <2>2, <2>3, <2>4, <2>5
  <2>10. \A d \in Clients : slot'[d] # None /\ state'[slot'[d]] = "DONE" =>
           signal'[slot'[d]] = 1 \/ Using(d)' \/ (gpc' = "wait" /\ d \notin todo')
    BY <2>2, <2>3
  <2> QED
    BY <2>7, <2>8, <2>9, <2>10
<1>5. ASSUME NEW c \in Clients, Submit(c) PROVE ProgressInv'
  <2>1. /\ gpc = "submit" /\ gpc' = "emplace" /\ IsFirst(c)
        /\ UNCHANGED <<slot, signal, tpc>>
    BY <1>5 DEF Submit
  <2>2. /\ slot[c] \in Cells /\ state[slot[c]] = "IDLE"
        /\ \A d \in Clients \ {c} : slot[d] # slot[c]
    BY <2>1 DEF TypeOK, GameOK, SlotsInv
  <2>3. ~Pending(c) /\ tpc[c] # "READ"
    BY <2>1, <2>2
  <2>4. CASE active[c]
    <3>1. /\ state' = [state EXCEPT ![slot[c]] = "SCHEDULED"]
          /\ \A d \in Clients \ {c} : queue'[d] = queue[d]
      BY <1>5, <2>4 DEF Submit, TypeOK
    <3>2. /\ state'[slot[c]] = "SCHEDULED"
          /\ \A d \in Clients \ {c} : slot[d] # None =>
               state'[slot[d]] = state[slot[d]]
      BY <2>2, <3>1 DEF TypeOK
    <3>3. \A d \in Clients : Pending(d) \/ tpc[d] = "READ" => slot[d] # None
      BY DEF HoldsInv
    <3>4. \A d \in Clients : Pending(d)' => state'[slot'[d]] = "SCHEDULED"
      BY <2>1, <3>1, <3>2, <3>3
    <3>5. \A d \in Clients : tpc'[d] = "READ" => state'[slot'[d]] = "WAITING"
      BY <2>1, <2>3, <3>2, <3>3
    <3>6. \A d \in Clients : slot'[d] # None /\ state'[slot'[d]] = "DONE" =>
            signal'[slot'[d]] = 1 \/ Using(d)'
      BY <2>1, <3>1, <3>2
    <3> QED
      BY <2>1, <3>4, <3>5, <3>6
  <2>5. CASE ~active[c]
    BY <1>5, <2>1, <2>5 DEF Submit
  <2> QED
    BY <2>4, <2>5
<1>6. ASSUME StartWait PROVE ProgressInv'
  BY <1>6 DEF StartWait, WaitedFor
<1>7. ASSUME NEW c \in Clients, WaitAcquire(c) PROVE ProgressInv'
  BY <1>7 DEF WaitAcquire, TypeOK, GameOK, SlotsInv, HoldsInv, Successful
<1>8. ASSUME NEW c \in Clients, WaitExpire(c) PROVE ProgressInv'
  BY <1>8 DEF WaitExpire
<1>9. ASSUME Finish PROVE ProgressInv'
  BY <1>9 DEF Finish, TypeOK, ScopeInv, HoldsInv, NoResponses
<1>10. ASSUME NEW c \in Clients, Pop(c) PROVE ProgressInv'
  BY <1>10 DEF Pop, HoldsInv, TypeOK, Popped
<1>11. ASSUME NEW c \in Clients, Skip(c) PROVE ProgressInv'
  BY <1>11 DEF Skip, HoldsInv, SlotsInv, LeaveScope, TypeOK
<1>12. ASSUME NEW c \in Clients, WriteFails(c) PROVE ProgressInv'
  BY <1>12, ThreadWrites DEF WriteFails, Runnable, States
<1>13. ASSUME NEW c \in Clients, WriteUpdate(c) PROVE ProgressInv'
  BY <1>13, ThreadWrites DEF WriteUpdate, Runnable, Sent, States
<1>14. ASSUME NEW c \in Clients, WriteRequest(c) PROVE ProgressInv'
  BY <1>14, ThreadWrites DEF WriteRequest, Runnable, Sent, States
<1>15. ASSUME NEW c \in Clients, ReadValid(c) PROVE ProgressInv'
  BY <1>15, ThreadWrites DEF ReadValid, AfterRead, States
<1>16. ASSUME NEW c \in Clients, ReadInvalid(c) PROVE ProgressInv'
  BY <1>16, ThreadWrites DEF ReadInvalid, AfterRead, States
<1>17. ASSUME NEW c \in Clients, ReadShort(c) PROVE ProgressInv'
  BY <1>17, ThreadWrites DEF ReadShort, AfterRead, States
<1>18. ASSUME NEW c \in Clients, ReadPart(c) PROVE ProgressInv'
  BY <1>18, ThreadWrites DEF ReadPart, AfterRead, States
<1>19. ASSUME NEW c \in Clients, ReadTimeout(c) PROVE ProgressInv'
  BY <1>19, ThreadWrites DEF ReadTimeout, AfterRead, States
<1>20. ASSUME NEW c \in Clients, ReadClosed(c) PROVE ProgressInv'
  BY <1>20, ThreadWrites DEF ReadClosed, AfterRead, States
<1>21. ASSUME NEW c \in Clients, Release(c) PROVE ProgressInv'
  <2>1. /\ Busy(c) /\ tpc[c] \notin {"CHECK", "READ"}
        /\ signal' = Put(signal, cur[c], 1)
        /\ tpc' \in {[tpc EXCEPT ![c] = l] : l \in {"STOPPED", "POLL", "SIZE"}}
        /\ UNCHANGED <<gpc, todo, slot, state, queue>>
    BY <1>21 DEF Release, LeaveScope, AfterFailedWrite
  <2>2. signal'[slot[c]] = 1 /\ queue[c] = <<>>
    BY <2>1, OwnCell DEF TypeOK
  <2>3. \A d \in Clients \ {c} : slot[d] # None => signal'[slot[d]] = signal[slot[d]]
    BY <2>1, OwnCell DEF TypeOK
  <2>4. /\ ~Pending(c)' /\ tpc'[c] # "READ"
        /\ \A d \in Clients \ {c} : tpc'[d] = tpc[d]
    BY <2>1, <2>2 DEF TypeOK
  <2> QED
    BY <2>1, <2>2, <2>3, <2>4
<1>22. ASSUME NEW c \in Clients, SizeIsZero(c) PROVE ProgressInv'
  BY <1>22 DEF SizeIsZero, LeaveScope, TypeOK
<1>23. ASSUME NEW c \in Clients, SizeIsPositive(c) PROVE ProgressInv'
  BY <1>23 DEF SizeIsPositive, LeaveScope, TypeOK, HoldsInv
<1>24. ASSUME NEW c \in Clients, Exit(c) PROVE ProgressInv'
  BY <1>24 DEF Exit, TypeOK
<1>25. ASSUME NEW c \in Clients, Answer(c) PROVE ProgressInv'
  BY <1>25 DEF Answer
<1>26. ASSUME NEW c \in Clients, Close(c) PROVE ProgressInv'
  BY <1>26 DEF Close
<1>30. CASE UNCHANGED vars
  BY <1>30 DEF vars
<1> QED
  BY <1>1, <1>2, <1>3, <1>4, <1>5, <1>6, <1>7, <1>8, <1>9, <1>10, <1>11, <1>12,
     <1>13, <1>14, <1>15, <1>16, <1>17, <1>18, <1>19, <1>20, <1>21, <1>22,
     <1>23, <1>24, <1>25, <1>26, <1>30
     DEF Next, Game, Thread, Read

(***************************************************************************)
(* The steps of Transactions as steps of RequestReply.                     *)
(***************************************************************************)

LEMMA InitRefines == Init => Abstract!Init
BY DEF Init, Abstract!Init, Phase, Asked, Served, Judged

\* What a write to a thread's cell is to RequestReply: DONE serves its client.
LEMMA WriteRefines ==
  ASSUME TypeInv, OwnershipInv, NEW c \in Clients, Busy(c),
         state[slot[c]] # "DONE",
         NEW v, state' = Put(state, cur[c], v),
         UNCHANGED <<gpc, todo, slot, succeeded>>
  PROVE  [Abstract!Next]_(Abstract!vars)
<1>1. /\ slot[c] \in Cells /\ slot[c] # None
      /\ state' = [state EXCEPT ![slot[c]] = v]
      /\ \A d \in Clients \ {c} : slot[d] # slot[c]
  BY OwnCell, CellsAssumption
<1>2. /\ state'[slot[c]] = v
      /\ \A d \in Clients \ {c} : slot[d] # None => state'[slot[d]] = state[slot[d]]
  BY <1>1 DEF TypeInv, TypeOK
<1>3. Phase' = Phase /\ Asked' = Asked /\ Judged' = Judged
  BY DEF Phase, Asked, Judged
<1>4. c \in Asked \ (Served \cup Judged)
  <2>1. gpc = "wait" => c \in todo
    BY OwnCell DEF OwnershipInv, ScopeInv
  <2> QED
    BY <1>1, <2>1 DEF Asked, Served, Judged
<1>5. CASE v = "DONE"
  <2>1. Served' = Served \cup {c}
    BY <1>2, <1>3, <1>4, <1>5 DEF Served, Asked
  <2>2. Abstract!Serve(c)
    BY <1>3, <1>4, <2>1 DEF Abstract!Serve
  <2> QED
    BY <2>2 DEF Abstract!Next
<1>6. CASE v # "DONE"
  <2>1. Served' = Served
    BY <1>2, <1>3, <1>4, <1>6 DEF Served, Asked
  <2> QED
    BY <1>3, <2>1 DEF Abstract!vars
<1> QED
  BY <1>5, <1>6

\* A step that changes none of these is a stuttering step.
LEMMA QuietRefines ==
  ASSUME UNCHANGED <<gpc, todo, slot, state, succeeded>>
  PROVE  [Abstract!Next]_(Abstract!vars)
BY DEF Abstract!vars, Phase, Asked, Served, Judged

LEMMA NextRefines ==
  ASSUME TypeInv, OwnershipInv, ProgressInv, overdue' = {}, [Next]_vars
  PROVE  [Abstract!Next]_(Abstract!vars)
<1> DEFINE Step == [Abstract!Next]_(Abstract!vars)
<1> USE CellsAssumption DEF game, results, threads, cells, net, history
<1>1. ASSUME NEW c \in Clients, StartNewGame(c) PROVE Step
  <2>1. Abstract!Begin
    BY <1>1 DEF StartNewGame, Abstract!Begin, Phase, Asked, Served, Judged
  <2> QED
    BY <2>1 DEF Abstract!Next
<1>2. ASSUME NEW k \in Kinds \ {"NEW_GAME"}, StartBroadcast(k) PROVE Step
  <2>1. Abstract!Begin
    BY <1>2 DEF StartBroadcast, Abstract!Begin, Phase, Asked, Served, Judged
  <2> QED
    BY <2>1 DEF Abstract!Next
<1>3. ASSUME NEW c \in Clients, SkipInactive(c) PROVE Step
  BY <1>3 DEF SkipInactive, Abstract!vars, Phase, Asked, Served, Judged
<1>4. ASSUME NEW c \in Clients, Emplace(c) PROVE Step
  <2>1. PICK a \in Cells : /\ state[a] = "FREED"
                          /\ slot' = [slot EXCEPT ![c] = a]
                          /\ state' = [state EXCEPT ![a] = "IDLE"]
    BY <1>4 DEF Emplace
  <2>2. /\ gpc = "emplace" /\ gpc' = "submit" /\ IsFirst(c)
        /\ UNCHANGED <<todo, succeeded>>
    BY <1>4 DEF Emplace
  <2>3. /\ slot[c] = None /\ slot'[c] = a /\ state'[a] = "IDLE"
        /\ \A d \in Clients \ {c} : slot'[d] = slot[d]
        /\ \A d \in Clients : slot[d] # None => state'[slot[d]] = state[slot[d]]
    BY <2>1, <2>2 DEF IsFirst, TypeInv, TypeOK, OwnershipInv, SlotsInv
  <2>4. Asked' = Asked \cup {c} /\ c \notin Asked
    BY <2>3 DEF Asked
  <2>5. Served' = Served
    BY <2>3, <2>4 DEF Served, Asked
  <2>6. Abstract!Ask(c)
    BY <2>2, <2>4, <2>5 DEF Abstract!Ask, Phase, Judged
  <2> QED
    BY <2>6 DEF Abstract!Next
<1>5. ASSUME NEW c \in Clients, Submit(c) PROVE Step
  <2>1. /\ gpc = "submit" /\ gpc' = "emplace" /\ IsFirst(c)
        /\ UNCHANGED <<slot, succeeded>>
        /\ state' \in {state, [state EXCEPT ![slot[c]] = "SCHEDULED"]}
    BY <1>5 DEF Submit
  <2>2. slot[c] \in Cells /\ state[slot[c]] = "IDLE"
    BY <2>1 DEF TypeInv, TypeOK, GameOK, ProgressInv
  <2>3. \A d \in Clients : slot[d] # None =>
          (state'[slot[d]] = "DONE" <=> state[slot[d]] = "DONE")
    BY <2>1, <2>2 DEF TypeInv, TypeOK
  <2> QED
    BY <2>1, <2>3 DEF Abstract!vars, Phase, Asked, Served, Judged
<1>6. ASSUME StartWait PROVE Step
  <2>1. Abstract!Wait
    BY <1>6
       DEF StartWait, Abstract!Wait, Phase, Asked, Served, Judged, WaitedFor
  <2> QED
    BY <2>1 DEF Abstract!Next
<1>7. ASSUME NEW c \in Clients, WaitAcquire(c) PROVE Step
  <2>1. /\ gpc = "wait" /\ c \in todo /\ todo' = todo \ {c}
        /\ UNCHANGED <<gpc, slot, state>>
        /\ succeeded' = IF state[slot[c]] = "DONE" THEN succeeded \cup {c}
                        ELSE succeeded
    BY <1>7 DEF WaitAcquire, IsFirst, Successful
  <2>2. c \in Asked \ Judged /\ Judged' = Judged \cup {c}
    BY <2>1 DEF TypeInv, GameOK, Asked, Judged
  <2>3. c \in Served <=> state[slot[c]] = "DONE"
    BY <2>2 DEF Served
  <2>4. Abstract!Judge(c)
    BY <2>1, <2>2, <2>3 DEF Abstract!Judge, Phase, Asked, Served
  <2> QED
    BY <2>4 DEF Abstract!Next
<1>8. ASSUME NEW c \in Clients, WaitExpire(c) PROVE Step
  <2>1. /\ gpc = "wait" /\ c \in todo /\ todo' = todo \ {c}
        /\ UNCHANGED <<gpc, slot, state, succeeded>>
        /\ signal[slot[c]] = 0
        /\ slot[c] \notin Held(c)
    BY <1>8 DEF WaitExpire, IsFirst, DeadlinePasses
  <2>2. c \in Asked \ Judged /\ Judged' = Judged \cup {c}
    BY <2>1 DEF TypeInv, GameOK, Asked, Judged
  <2>3. ~Using(c)
    BY <2>1, HeldIsOwn DEF OwnershipInv
  <2>4. c \notin Served
    BY <2>1, <2>2, <2>3 DEF ProgressInv, Served, Asked
  <2>5. Abstract!Judge(c)
    BY <2>1, <2>2, <2>4 DEF Abstract!Judge, Phase, Asked, Served
  <2> QED
    BY <2>5 DEF Abstract!Next
<1>9. ASSUME Finish PROVE Step
  <2>1. Asked' = {} /\ Served' = {} /\ Judged' = {} /\ Judged = Asked
    BY <1>9 DEF Finish, Asked, Served, Judged, NoResponses
  <2>2. Abstract!End
    BY <1>9, <2>1 DEF Finish, Abstract!End, Phase, NoResponses
  <2> QED
    BY <2>2 DEF Abstract!Next
<1>10. ASSUME NEW c \in Clients, Pop(c) PROVE Step
  BY <1>10, QuietRefines DEF Pop, Popped
<1>11. ASSUME NEW c \in Clients, Skip(c) PROVE Step
  BY <1>11, QuietRefines DEF Skip, LeaveScope
<1>12. ASSUME NEW c \in Clients, WriteFails(c) PROVE Step
  <2>1. state[slot[c]] = "SCHEDULED" /\ Busy(c)
    BY <1>12 DEF WriteFails, Runnable, ProgressInv, Pending, Busy, Stopping
  <2> QED
    BY <1>12, <2>1, WriteRefines DEF WriteFails
<1>13. ASSUME NEW c \in Clients, WriteUpdate(c) PROVE Step
  <2>1. state[slot[c]] = "SCHEDULED" /\ Busy(c)
    BY <1>13
       DEF WriteUpdate, Sent, Runnable, ProgressInv, Pending, Busy, Stopping
  <2> QED
    BY <1>13, <2>1, WriteRefines DEF WriteUpdate, Sent
<1>14. ASSUME NEW c \in Clients, WriteRequest(c) PROVE Step
  <2>1. state[slot[c]] = "SCHEDULED" /\ Busy(c)
    BY <1>14
       DEF WriteRequest, Sent, Runnable, ProgressInv, Pending, Busy, Stopping
  <2> QED
    BY <1>14, <2>1, WriteRefines DEF WriteRequest, Sent
<1>15. ASSUME NEW c \in Clients, ReadValid(c) PROVE Step
  <2>1. state[slot[c]] = "WAITING" /\ Busy(c)
    BY <1>15 DEF ReadValid, ProgressInv, Busy
  <2> QED
    BY <1>15, <2>1, WriteRefines DEF ReadValid, AfterRead
<1>16. ASSUME NEW c \in Clients, ReadInvalid(c) PROVE Step
  <2>1. state[slot[c]] = "WAITING" /\ Busy(c)
    BY <1>16 DEF ReadInvalid, ProgressInv, Busy
  <2> QED
    BY <1>16, <2>1, WriteRefines DEF ReadInvalid, AfterRead
<1>17. ASSUME NEW c \in Clients, ReadShort(c) PROVE Step
  <2>1. state[slot[c]] = "WAITING" /\ Busy(c)
    BY <1>17 DEF ReadShort, ProgressInv, Busy
  <2> QED
    BY <1>17, <2>1, WriteRefines DEF ReadShort, AfterRead
<1>18. ASSUME NEW c \in Clients, ReadPart(c) PROVE Step
  <2>1. state[slot[c]] = "WAITING" /\ Busy(c)
    BY <1>18 DEF ReadPart, ProgressInv, Busy
  <2> QED
    BY <1>18, <2>1, WriteRefines DEF ReadPart, AfterRead
<1>19. ASSUME NEW c \in Clients, ReadTimeout(c) PROVE Step
  <2>1. state[slot[c]] = "WAITING" /\ Busy(c)
    BY <1>19 DEF ReadTimeout, ProgressInv, Busy
  <2> QED
    BY <1>19, <2>1, WriteRefines DEF ReadTimeout, AfterRead
<1>20. ASSUME NEW c \in Clients, ReadClosed(c) PROVE Step
  <2>1. state[slot[c]] = "WAITING" /\ Busy(c)
    BY <1>20 DEF ReadClosed, ProgressInv, Busy
  <2> QED
    BY <1>20, <2>1, WriteRefines DEF ReadClosed, AfterRead
<1>21. ASSUME NEW c \in Clients, Release(c) PROVE Step
  BY <1>21, QuietRefines DEF Release, LeaveScope, AfterFailedWrite
<1>22. ASSUME NEW c \in Clients, SizeIsZero(c) PROVE Step
  BY <1>22, QuietRefines DEF SizeIsZero, LeaveScope
<1>23. ASSUME NEW c \in Clients, SizeIsPositive(c) PROVE Step
  BY <1>23, QuietRefines DEF SizeIsPositive, LeaveScope
<1>24. ASSUME NEW c \in Clients, Exit(c) PROVE Step
  BY <1>24, QuietRefines DEF Exit
<1>25. ASSUME NEW c \in Clients, Answer(c) PROVE Step
  BY <1>25, QuietRefines DEF Answer
<1>26. ASSUME NEW c \in Clients, Close(c) PROVE Step
  BY <1>26, QuietRefines DEF Close
<1>30. CASE UNCHANGED vars
  BY <1>30, QuietRefines DEF vars
<1> QED
  BY <1>1, <1>2, <1>3, <1>4, <1>5, <1>6, <1>7, <1>8, <1>9, <1>10, <1>11, <1>12,
     <1>13, <1>14, <1>15, <1>16, <1>17, <1>18, <1>19, <1>20, <1>21, <1>22, <1>23, <1>24,
     <1>25, <1>26, <1>30
     DEF Next, Game, Thread, Read

\* ImplementsWhileTimely, for every instance, slow peers or not: until a wait
\* ends before the thread it waits for is done, a run counts exactly the clients
\* it served, judges each of them once, and leaves nothing behind.
THEOREM TimelyRefinement == Spec => ImplementsWhileTimely
<1> DEFINE IInv == TypeInv /\ (overdue = {} => OwnershipInv /\ ProgressInv)
<1>1. Init => IInv
  BY InitType, InitOwnership, InitProgress
<1>2. IInv /\ [Next]_vars => IInv'
  BY NextType, NextOwnership, NextProgress, OverdueMonotonic
<1>3. IInv /\ [Next]_vars => [overdue' = {} => Abstract!Next]_(Abstract!vars)
  BY NextRefines, OverdueMonotonic
<1> QED
  BY <1>1, <1>2, <1>3, InitRefines, PTL DEF Spec, ImplementsWhileTimely

\* ImplementsRequestReply, for every instance whose peers are prompt: there it
\* is kept for ever.
THEOREM RefinementCorrect ==
  ASSUME SlowClients = {}
  PROVE  Spec => ImplementsRequestReply
<1> DEFINE Timely == TypeInv /\ overdue = {}
<1>1. Init => Timely
  BY InitType DEF Init
<1>2. Timely /\ [Next]_vars => Timely'
  BY NextType, NeverOverdue
<1>3. /\ Timely'
      /\ [overdue' = {} => Abstract!Next]_(Abstract!vars)
      => [Abstract!Next]_(Abstract!vars)
  OBVIOUS
<1> QED
  BY <1>1, <1>2, <1>3, TimelyRefinement, PTL
     DEF Spec, ImplementsRequestReply, ImplementsWhileTimely, Abstract!Spec
=============================================================================
