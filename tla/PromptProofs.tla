---------------------------- MODULE PromptProofs ----------------------------
(***************************************************************************)
(* PromptClientSucceeds, for every instance of Transactions: one client's  *)
(* trouble is never another one's.                                         *)
(***************************************************************************)
EXTENDS RefinementProofs

\* Only a thread that has ended is not active.
ActiveInv == \A c \in Clients : active[c] <=> tpc[c] # "EXITED"

\* The thread has done its part of the run, and the wait has not noticed yet.
Finished(c) ==
  /\ signal[slot[c]] = 1
  /\ state[slot[c]] = "DONE"
  /\ gpc = "wait" => c \in todo

\* What the thread reads is the whole reply it expects.
ReadsReply(c) ==
  /\ expects[slot[c]] # "NOTHING"
  /\ \A i \in 1 .. Len(requests[c]) : requests[c][i].kind = expects[slot[c]]
  /\ \A i \in 1 .. Len(inbox[c]) :
       inbox[c][i].kind = expects[slot[c]] /\ inbox[c][i].part = "WHOLE"

\* The run is on its way to success for client c.
PromptOK(c) ==
  ~Stopping(c) /\ peer[c] = "open" =>
    /\ c \notin unread
    /\ tpc[c] # "SIGNAL_STOP"
    /\ tpc[c] = "READ" => ReadsReply(c)
    /\ tpc[c] \in {"SIGNAL_SIZE", "SIGNAL_DONE"} => state[slot[c]] = "DONE"
    /\ slot[c] # None /\ ~(gpc = "submit" /\ IsFirst(c)) =>
         \/ Using(c)
         \/ Finished(c)
         \/ gpc = "wait" /\ c \in succeeded \ todo

Prompt == Clients \ (SlowClients \cup SplitClients)

PromptInv == \A c \in Prompt : PromptOK(c)

LEMMA InitPrompt == Init => ActiveInv /\ PromptInv
BY DEF Init, ActiveInv, PromptInv, PromptOK, Prompt, Stopping

LEMMA NextActive == TypeInv /\ ActiveInv /\ [Next]_vars => ActiveInv'
<1> SUFFICES ASSUME TypeInv, ActiveInv, [Next]_vars
             PROVE  ActiveInv'
  OBVIOUS
<1> USE DEF ActiveInv, TypeInv, TypeOK, threads
<1>1. CASE UNCHANGED vars
  BY <1>1 DEF vars
<1>2. CASE \/ \E c \in Clients : Game(c) \/ Answer(c) \/ Close(c)
           \/ \E k \in Kinds \ {"NEW_GAME"} : StartBroadcast(k)
           \/ StartWait \/ Finish
  BY <1>2 DEF Game, StartNewGame, SkipInactive, Emplace, Submit, WaitAcquire,
              WaitExpire, Answer, Close, StartBroadcast, StartWait, Finish
<1>3. ASSUME NEW c \in Clients, Exit(c) PROVE ActiveInv'
  BY <1>3 DEF Exit
<1>4. ASSUME NEW c \in Clients, Thread(c), ~Exit(c) PROVE ActiveInv'
  <2>1. /\ UNCHANGED active
        /\ tpc[c] # "EXITED"
        /\ \E l \in ThreadPC \ {"EXITED"} : tpc' = [tpc EXCEPT ![c] = l]
    BY <1>4
       DEF Thread, Read, Pop, Skip, LeaveScope, WriteFails, WriteUpdate, Sent,
           Runnable, WriteRequest, AfterRead, ReadValid, ReadInvalid,
           ReadShort, ReadPart, ReadTimeout, ReadClosed, Release,
           AfterFailedWrite, SizeIsZero, SizeIsPositive, ThreadPC
  <2> QED
    BY <2>1
<1> QED
  BY <1>1, <1>2, <1>3, <1>4 DEF Next

\* A step that leaves what client d is about alone.
LEMMA Frame ==
  ASSUME TypeInv, OwnershipInv, NEW d \in Clients, PromptOK(d),
         gpc' = gpc, todo' = todo, tpc'[d] = tpc[d], slot'[d] = slot[d],
         queue'[d] = queue[d], peer'[d] = peer[d], requests'[d] = requests[d],
         inbox'[d] = inbox[d], d \in unread' <=> d \in unread,
         d \in succeeded' <=> d \in succeeded,
         slot[d] # None => /\ state'[slot[d]] = state[slot[d]]
                           /\ expects'[slot[d]] = expects[slot[d]]
                           /\ signal'[slot[d]] = signal[slot[d]]
  PROVE  PromptOK(d)'
<1>1. Stopping(d)' <=> Stopping(d)
  BY DEF Stopping
<1>2. (Using(d)' <=> Using(d)) /\ (IsFirst(d)' <=> IsFirst(d))
  BY <1>1 DEF Using, Busy, IsFirst
<1>3. Busy(d) /\ ~Stopping(d) => slot[d] # None
  BY DEF OwnershipInv, HoldsInv
<1>4. slot[d] # None /\ Finished(d) => Finished(d)'
  BY DEF Finished
<1>5. tpc[d] = "READ" /\ ~Stopping(d) /\ ReadsReply(d) => ReadsReply(d)'
  BY <1>3 DEF ReadsReply, Busy
<1> QED
  BY <1>1, <1>2, <1>3, <1>4, <1>5 DEF PromptOK, Busy

\* What a step of thread c leaves alone.
\* What a peer sends is the whole reply to what it was asked.
LEMMA AnswerKeepsReads ==
  ASSUME TypeInv, NEW c \in Clients, Answer(c), ReadsReply(c)
  PROVE  ReadsReply(c)'
<1> USE DEF TypeInv, TypeOK, game, results, threads, cells, net
<1> DEFINE r == [kind |-> Head(requests[c]).kind,
                 run |-> Head(requests[c]).run, part |-> "WHOLE"]
<1>1. /\ inbox'[c] = Append(inbox[c], r) /\ requests'[c] = Tail(requests[c])
      /\ requests[c] # <<>> /\ UNCHANGED <<slot, expects>>
  BY DEF Answer
<1>2. r.kind = expects[slot[c]] /\ r.part = "WHOLE"
  BY <1>1 DEF ReadsReply
<1> HIDE DEF r
<1> QED
  BY <1>1, <1>2 DEF ReadsReply

LEMMA ThreadLeavesOthers ==
  ASSUME TypeInv, OwnershipInv, NEW c \in Clients, Thread(c)
  PROVE  /\ UNCHANGED <<gpc, todo, slot, succeeded>>
         /\ \A d \in Clients \ {c} :
              /\ tpc'[d] = tpc[d] /\ queue'[d] = queue[d]
              /\ peer'[d] = peer[d] /\ requests'[d] = requests[d]
              /\ inbox'[d] = inbox[d] /\ (d \in unread' <=> d \in unread)
              /\ slot[d] # None => /\ state'[slot[d]] = state[slot[d]]
                                   /\ expects'[slot[d]] = expects[slot[d]]
                                   /\ signal'[slot[d]] = signal[slot[d]]
<1> USE DEF TypeInv, TypeOK, game, results, threads, cells, net, history
<1>1. ASSUME Busy(c)
      PROVE  \A f, v : \A d \in Clients \ {c} :
               slot[d] # None => Put(f, cur[c], v)[slot[d]] = f[slot[d]]
  BY <1>1, OwnCell DEF Put
<1>2. CASE Pop(c) \/ Skip(c) \/ SizeIsZero(c) \/ SizeIsPositive(c) \/ Exit(c)
  BY <1>2 DEF Pop, Skip, SizeIsZero, SizeIsPositive, Exit, LeaveScope, Popped
<1>3. CASE WriteFails(c) \/ WriteUpdate(c) \/ WriteRequest(c)
  BY <1>1, <1>3 DEF WriteFails, WriteUpdate, WriteRequest, Sent, Runnable, Busy
<1>4. CASE Read(c)
  BY <1>1, <1>4
     DEF Read, ReadValid, ReadInvalid, ReadShort, ReadPart, ReadTimeout,
         ReadClosed, AfterRead, Busy
<1>5. CASE Release(c)
  BY <1>1, <1>5 DEF Release, LeaveScope, AfterFailedWrite, Busy
<1> QED
  BY <1>2, <1>3, <1>4, <1>5 DEF Thread

LEMMA NextPrompt ==
  TypeInv /\ OwnershipInv /\ RepliesInv /\ ProgressInv /\ ActiveInv /\ PromptInv
    /\ [Next]_vars => PromptInv'
<1> SUFFICES ASSUME TypeInv, OwnershipInv, RepliesInv, ProgressInv, ActiveInv,
                    PromptInv, [Next]_vars
             PROVE  PromptInv'
  OBVIOUS
<1>0. \A d \in Clients : Busy(d) => ~Stopping(d) /\ Using(d) /\ slot[d] # None
  BY DEF Using, Busy, Stopping, OwnershipInv, HoldsInv
<1> USE DEF PromptInv, Prompt, TypeInv, TypeOK, game, results, threads, cells,
            net, history
<1>1. ASSUME NEW c \in Clients, StartNewGame(c) PROVE PromptInv'
  <2>1. \A d \in Clients : slot'[d] = None /\ ~Busy(d)
    BY <1>0, <1>1 DEF StartNewGame, OwnershipInv, SlotsInv
  <2> QED
    BY <1>1, <2>1 DEF StartNewGame, PromptOK, Stopping, Busy
<1>2. ASSUME NEW k \in Kinds \ {"NEW_GAME"}, StartBroadcast(k) PROVE PromptInv'
  <2>1. \A d \in Clients : slot'[d] = None /\ ~Busy(d)
    BY <1>0, <1>2 DEF StartBroadcast, OwnershipInv, SlotsInv
  <2> QED
    BY <1>2, <2>1 DEF StartBroadcast, PromptOK, Stopping, Busy
<1>3. ASSUME NEW c \in Clients, SkipInactive(c) PROVE PromptInv'
  <2>1. /\ gpc = "emplace" /\ gpc' = gpc /\ IsFirst(c) /\ ~active[c]
        /\ UNCHANGED <<slot, tpc, queue, cur, state, expects, signal, peer,
                      requests, inbox, unread, succeeded>>
    BY <1>3 DEF SkipInactive
  <2>2. ASSUME NEW d \in Prompt PROVE PromptOK(d)'
    <3>1. (Stopping(d)' <=> Stopping(d)) /\ (Using(d)' <=> Using(d))
      BY <2>1 DEF Stopping, Using, Busy
    <3>2. ReadsReply(d) => ReadsReply(d)'
      BY <2>1 DEF ReadsReply
    <3>3. Finished(d) => Finished(d)'
      BY <2>1 DEF Finished
    <3> QED
      BY <2>1, <3>1, <3>2, <3>3 DEF PromptOK
  <2> QED
    BY <2>2
<1>4. ASSUME NEW c \in Clients, Emplace(c) PROVE PromptInv'
  <2>1. PICK a \in Cells : /\ state[a] = "FREED"
                          /\ slot' = [slot EXCEPT ![c] = a]
                          /\ state' = [state EXCEPT ![a] = "IDLE"]
                          /\ expects' = [expects EXCEPT ![a] = ResponseSize(kind)]
                          /\ signal' = [signal EXCEPT ![a] = 0]
    BY <1>4 DEF Emplace
  <2>2. /\ gpc = "emplace" /\ gpc' = "submit" /\ IsFirst(c) /\ IsFirst(c)'
        /\ UNCHANGED <<todo, tpc, queue, peer, requests, inbox, unread, succeeded>>
    BY <1>4 DEF Emplace, IsFirst
  <2>3. \A d \in Clients \ {c} :
          /\ slot'[d] = slot[d]
          /\ slot[d] # None => /\ slot[d] # a
                               /\ state'[slot[d]] = state[slot[d]]
                               /\ expects'[slot[d]] = expects[slot[d]]
                               /\ signal'[slot[d]] = signal[slot[d]]
    BY <2>1 DEF OwnershipInv, SlotsInv
  <2>4. ~Busy(c)
    BY <1>0, <2>2 DEF OwnershipInv, SlotsInv, IsFirst
  <2>5. ASSUME NEW d \in Prompt PROVE PromptOK(d)'
    <3>1. CASE d = c
      BY <2>2, <2>4, <3>1 DEF PromptOK, Stopping, Busy
    <3>2. CASE d # c
      <4>1. (Stopping(d)' <=> Stopping(d)) /\ (Busy(d)' <=> Busy(d))
        BY <2>2, <2>3, <3>2 DEF Stopping, Busy
      <4>2. Using(d) => Using(d)'
        BY <1>0, <2>2, <2>3, <3>2 DEF Using, Busy, Stopping
      <4>3. slot[d] # None /\ ReadsReply(d) => ReadsReply(d)'
        BY <2>2, <2>3, <3>2 DEF ReadsReply
      <4>4. slot[d] # None /\ Finished(d) => Finished(d)'
        BY <2>2, <2>3, <3>2 DEF Finished
      <4>5. tpc[d] \in {"READ", "SIGNAL_SIZE", "SIGNAL_DONE"} => Busy(d)
        BY DEF Busy
      <4> QED
        BY <1>0, <2>2, <2>3, <3>2, <4>1, <4>2, <4>3, <4>4, <4>5 DEF PromptOK
    <3> QED
      BY <3>1, <3>2
  <2> QED
    BY <2>5
<1>5. ASSUME NEW c \in Clients, Submit(c) PROVE PromptInv'
  <2>1. /\ gpc = "submit" /\ gpc' = "emplace" /\ IsFirst(c)
        /\ UNCHANGED <<slot, tpc, expects, signal, peer, requests, inbox, unread,
                      succeeded>>
        /\ slot[c] # None
    BY <1>5, CellsAssumption DEF Submit, GameOK, IsFirst
  <2>2. \A d \in Clients \ {c} :
          /\ ~IsFirst(d)
          /\ queue'[d] = queue[d]
          /\ slot[d] # None => state'[slot[d]] = state[slot[d]]
    BY <1>5, <2>1, FirstUnique DEF Submit, OwnershipInv, SlotsInv
  <2>3. ~Busy(c)
    BY <1>0, <2>1 DEF OwnershipInv, ScopeInv
  <2>4. ~Stopping(c) => queue'[c] # <<>>
    BY <1>5 DEF Submit, ActiveInv, Stopping
  <2>5. ASSUME NEW d \in Prompt PROVE PromptOK(d)'
    <3>1. CASE d = c
      BY <2>1, <2>3, <2>4, <3>1 DEF PromptOK, Stopping, Busy, Using
    <3>2. CASE d # c
      BY <1>0, <2>1, <2>2, <3>2
         DEF PromptOK, Stopping, ReadsReply, Using, Busy, Finished
    <3> QED
      BY <3>1, <3>2
  <2> QED
    BY <2>5
<1>6. ASSUME StartWait PROVE PromptInv'
  BY <1>6 DEF StartWait, WaitedFor, PromptOK, Stopping, ReadsReply, Using, Busy,
              Finished
<1>7. ASSUME NEW c \in Clients, WaitAcquire(c) PROVE PromptInv'
  <2>1. /\ gpc = "wait" /\ gpc' = gpc /\ c \in todo /\ todo' = todo \ {c}
        /\ slot[c] # None /\ signal[slot[c]] = 1
        /\ signal' = [signal EXCEPT ![slot[c]] = 0]
        /\ succeeded' = IF Successful(slot[c]) THEN succeeded \cup {c}
                        ELSE succeeded
        /\ UNCHANGED <<slot, tpc, queue, state, expects, peer, requests, inbox,
                      unread>>
    BY <1>7 DEF WaitAcquire, IsFirst, GameOK
  <2>2. ~Using(c)
    BY <2>1 DEF OwnershipInv, SignalInv
  <2>3. \A d \in Clients \ {c} :
          slot[d] # None => signal'[slot[d]] = signal[slot[d]]
    BY <2>1 DEF OwnershipInv, SlotsInv
  <2>4. ASSUME NEW d \in Prompt PROVE PromptOK(d)'
    <3>1. CASE d = c
      BY <1>0, <2>1, <2>2, <3>1
         DEF PromptOK, Stopping, Busy, Using, Finished, Successful
    <3>2. CASE d # c
      BY <1>0, <2>1, <2>3, <3>2
         DEF PromptOK, Stopping, ReadsReply, Using, Busy, Finished
    <3> QED
      BY <3>1, <3>2
  <2> QED
    BY <2>4
<1>8. ASSUME NEW c \in Clients, WaitExpire(c) PROVE PromptInv'
  <2>1. /\ gpc = "wait" /\ gpc' = gpc /\ c \in todo /\ todo' = todo \ {c}
        /\ slot[c] # None /\ signal[slot[c]] = 0 /\ DeadlinePasses(c)
        /\ UNCHANGED <<slot, tpc, queue, state, expects, signal, peer, requests,
                      inbox, unread, succeeded>>
    BY <1>8 DEF WaitExpire, IsFirst, GameOK
  <2>2. c \in Prompt => ~Using(c)
    BY <2>1, HeldIsOwn DEF DeadlinePasses, OwnershipInv
  <2>3. ASSUME NEW d \in Prompt PROVE PromptOK(d)'
    <3>1. CASE d = c
      BY <1>0, <2>1, <2>2, <3>1 DEF PromptOK, Stopping, Finished
    <3>2. CASE d # c
      BY <1>0, <2>1, <3>2
         DEF PromptOK, Stopping, ReadsReply, Using, Busy, Finished
    <3> QED
      BY <3>1, <3>2
  <2> QED
    BY <2>3
<1>9. ASSUME Finish PROVE PromptInv'
  <2>1. \A d \in Clients : slot'[d] = None /\ ~Busy(d)
    BY <1>0, <1>9 DEF Finish, OwnershipInv, ScopeInv
  <2> QED
    BY <1>9, <2>1 DEF Finish, PromptOK, Stopping, Busy
\* The steps of a thread: what they do to their own client.
<1>10. ASSUME NEW c \in Prompt, Pop(c) PROVE PromptOK(c)'
  BY <1>10 DEF Pop, PromptOK, Stopping, Using, Busy
<1>11. ASSUME NEW c \in Prompt, Skip(c) PROVE PromptOK(c)'
  <2>1. Busy(c) /\ Pending(c) /\ cur[c] = slot[c]
    BY <1>0, <1>11 DEF Skip, Busy, Pending, Stopping, OwnershipInv, HoldsInv
  <2> QED
    BY <1>11, <2>1 DEF Skip, ProgressInv
<1>12. ASSUME NEW c \in Prompt, WriteFails(c) PROVE PromptOK(c)'
  BY <1>12 DEF WriteFails, PromptOK
<1>13. ASSUME NEW c \in Prompt, WriteUpdate(c) PROVE PromptOK(c)'
  <2>1. Busy(c) /\ cur[c] = slot[c] /\ state'[slot[c]] = "DONE"
    BY <1>13, OwnCell DEF WriteUpdate, Sent, Runnable, Busy
  <2> QED
    BY <1>13, <2>1
       DEF WriteUpdate, Sent, Runnable, PromptOK, Stopping, Using, Busy
<1>14. ASSUME NEW c \in Prompt, WriteRequest(c) PROVE PromptOK(c)'
  <2>1. Busy(c) /\ cur[c] = slot[c] /\ tpc[c] = "CHECK" /\ expects' = expects
    BY <1>14, OwnCell DEF WriteRequest, Sent, Runnable, Busy
  <2>2. ASSUME peer[c] = "open", c \notin unread PROVE ReadsReply(c)'
    <3>1. inbox[c] = <<>> /\ requests[c] = <<>>
      BY <1>0, <2>1, <2>2 DEF RepliesInv, StreamInv
    <3>2. requests'[c] = <<[kind |-> expects[slot[c]], run |-> ask[slot[c]]]>>
      BY <1>14, <2>1, <2>2, <3>1 DEF WriteRequest, Sent
    <3> QED
      BY <1>14, <2>1, <3>1, <3>2 DEF WriteRequest, ReadsReply
  <2> QED
    BY <1>14, <2>1, <2>2
       DEF WriteRequest, Sent, Runnable, PromptOK, Stopping, Using, Busy
<1>15. ASSUME NEW c \in Prompt, ReadValid(c) PROVE PromptOK(c)'
  <2>1. Busy(c) /\ cur[c] = slot[c] /\ state'[slot[c]] = "DONE"
    BY <1>15, OwnCell DEF ReadValid, AfterRead, Busy
  <2> QED
    BY <1>15, <2>1 DEF ReadValid, AfterRead, PromptOK, Stopping, Using, Busy
\* No other read ends for a client that is prompt and there.
<1>16. ASSUME NEW c \in Prompt, ReadInvalid(c) \/ ReadShort(c)
       PROVE  PromptOK(c)'
  <2>1. Busy(c) /\ cur[c] = slot[c] /\ inbox[c] # <<>> /\ tpc[c] = "READ"
        /\ peer' = peer
    BY <1>16, OwnCell DEF ReadInvalid, ReadShort, Busy
  <2>2. ASSUME peer[c] = "open" PROVE FALSE
    <3>1. ReadsReply(c)
      BY <1>0, <2>1, <2>2 DEF PromptOK
    <3>2. Head(inbox[c]) = inbox[c][1] /\ 1 \in 1 .. Len(inbox[c])
      BY <2>1
    <3>3. ~OnlyMoves(c)
      BY <2>1, <3>1, <3>2 DEF ReadsReply, OnlyMoves
    <3> QED
      BY <1>16, <2>1, <3>1, <3>2, <3>3
         DEF ReadsReply, ReadInvalid, ReadShort, WholeReply, OnlyRest
  <2> QED
    BY <2>1, <2>2 DEF PromptOK
<1>17. ASSUME NEW c \in Prompt, ReadPart(c) \/ ReadTimeout(c) \/ ReadClosed(c)
       PROVE  PromptOK(c)'
  BY <1>17 DEF ReadPart, ReadTimeout, ReadClosed, PromptOK
<1>18. ASSUME NEW c \in Prompt, Release(c) PROVE PromptOK(c)'
  <2>1. Busy(c) /\ slot[c] # None /\ queue[c] = <<>> /\ signal'[slot[c]] = 1
        /\ UNCHANGED <<gpc, todo, slot, state, peer, unread>>
    BY <1>0, <1>18, OwnCell DEF Release, Busy
  <2>2. gpc = "wait" => c \in todo
    BY <1>0, <2>1 DEF OwnershipInv, ScopeInv
  <2>3. CASE tpc[c] = "SIGNAL_STOP"
    BY <1>18, <2>3
       DEF Release, AfterFailedWrite, LeaveScope, PromptOK, Stopping
  <2>4. CASE tpc[c] # "SIGNAL_STOP"
    <3>1. tpc[c] \in {"SIGNAL_SIZE", "SIGNAL_DONE"} /\ tpc'[c] \in {"SIZE", "POLL"}
      BY <1>18, <2>4 DEF Release, LeaveScope
    <3>2. Finished(c)' \/ peer[c] # "open"
      BY <1>0, <2>1, <2>2, <3>1 DEF PromptOK, Finished
    <3> QED
      BY <1>0, <2>1, <3>1, <3>2 DEF PromptOK, Stopping
  <2> QED
    BY <2>3, <2>4
<1>19. ASSUME NEW c \in Prompt, SizeIsZero(c) \/ Exit(c) PROVE PromptOK(c)'
  BY <1>19 DEF SizeIsZero, Exit, LeaveScope, PromptOK, Stopping
<1>20. ASSUME NEW c \in Prompt, SizeIsPositive(c) PROVE PromptOK(c)'
  BY <1>20 DEF SizeIsPositive, LeaveScope, PromptOK, Stopping, Using, Busy,
               IsFirst, Finished
<1>21. ASSUME NEW c \in Clients, Thread(c) PROVE PromptInv'
  <2>1. ASSUME NEW d \in Prompt, d # c PROVE PromptOK(d)'
    <3>1. /\ gpc' = gpc /\ todo' = todo /\ slot'[d] = slot[d]
          /\ succeeded' = succeeded
      BY <1>21, ThreadLeavesOthers
    <3>2. /\ tpc'[d] = tpc[d] /\ queue'[d] = queue[d] /\ peer'[d] = peer[d]
          /\ requests'[d] = requests[d] /\ inbox'[d] = inbox[d]
          /\ d \in unread' <=> d \in unread
          /\ slot[d] # None => /\ state'[slot[d]] = state[slot[d]]
                               /\ expects'[slot[d]] = expects[slot[d]]
                               /\ signal'[slot[d]] = signal[slot[d]]
      BY <1>21, <2>1, ThreadLeavesOthers
    <3>3. PromptOK(d)
      OBVIOUS
    <3> HIDE DEF TypeInv
    <3> QED
      BY <2>1, <3>1, <3>2, <3>3, Frame
  <2>2. c \in Prompt => PromptOK(c)'
    BY <1>10, <1>11, <1>12, <1>13, <1>14, <1>15, <1>16, <1>17, <1>18, <1>19,
       <1>20, <1>21 DEF Thread, Read
  <2> QED
    BY <2>1, <2>2
<1>22. ASSUME NEW c \in Clients, Answer(c) PROVE PromptInv'
  <2>1. ASSUME NEW d \in Prompt, d # c PROVE PromptOK(d)'
    BY <1>22, <2>1, Frame DEF Answer
  <2>2. ReadsReply(c) => ReadsReply(c)'
    BY <1>22, AnswerKeepsReads
  <2>3. c \in Prompt => PromptOK(c)'
    BY <1>22, <2>2
       DEF Answer, PromptOK, Stopping, Using, Busy, IsFirst, Finished
  <2> QED
    BY <2>1, <2>3
<1>23. ASSUME NEW c \in Clients, Close(c) PROVE PromptInv'
  <2>1. ASSUME NEW d \in Prompt, d # c PROVE PromptOK(d)'
    BY <1>23, <2>1, Frame DEF Close
  <2> QED
    BY <1>23, <2>1 DEF Close, PromptOK
<1>30. CASE UNCHANGED vars
  BY <1>30 DEF vars, PromptOK, Stopping, ReadsReply, Using, Busy, IsFirst,
               Finished
<1> QED
  BY <1>1, <1>2, <1>3, <1>4, <1>5, <1>6, <1>7, <1>8, <1>9, <1>21, <1>22, <1>23,
     <1>30
     DEF Next, Game

\* PromptClientSucceeds, for every instance: as long as no wait has ended
\* before the thread it waits for was done, a client whose peer is there and
\* prompt, and whose thread runs, is counted by waitForFinish.
THEOREM PromptCorrect == Spec => []PromptClientSucceeds
<1> DEFINE IInv ==
      /\ TypeInv /\ ActiveInv
      /\ overdue = {} => /\ OwnershipInv /\ AnswersInv /\ RepliesInv
                        /\ ProgressInv /\ PromptInv
<1>1. Init => IInv
  BY InitType, InitOwnership, InitAnswers, InitReplies, InitProgress, InitPrompt
<1>2. IInv /\ [Next]_vars => IInv'
  BY NextType, NextOwnership, NextAnswers, NextReplies, NextProgress, NextActive,
     NextPrompt, OverdueMonotonic
<1>3. IInv => PromptClientSucceeds
  <2> SUFFICES ASSUME IInv, Waited, overdue = {},
                      NEW c \in Clients \ (SlowClients \cup SplitClients),
                      slot[c] # None, peer[c] = "open", ~Stopping(c)
               PROVE  c \in succeeded
    BY DEF PromptClientSucceeds
  <2>1. ~Using(c) /\ ~Finished(c) /\ gpc = "wait"
    BY DEF Waited, OwnershipInv, ScopeInv, Finished
  <2> QED
    BY <2>1 DEF PromptInv, Prompt, PromptOK
<1> QED
  BY <1>1, <1>2, <1>3, PTL DEF Spec

(***************************************************************************)
(* Prompt clients and their replies.                                       *)
(***************************************************************************)

\* What a prompt client's thread reads is the whole reply it expects.
ReadsInv == \A c \in Prompt : tpc[c] = "READ" => ReadsReply(c)

\* No reply of a prompt client misses its read.
NothingMissed == Prompt \cap unread = {}

LEMMA InitMissed == Init => ReadsInv /\ NothingMissed
BY DEF Init, ReadsInv, NothingMissed, Prompt

LEMMA AppendOf ==
  ASSUME NEW S, NEW s \in Seq(S), NEW r
  PROVE  /\ Append(s, r) # <<>>
         /\ Len(Append(s, r)) = Len(s) + 1
         /\ Append(s, r)[Len(s) + 1] = r
         /\ \A i \in 1 .. Len(s) : Append(s, r)[i] = s[i]
<1>1. Len(Append(s, r)) = Len(s) + 1 /\ Len(s) \in Nat /\ Len(<<>>) = 0
  OBVIOUS
<1>2. Append(s, r) # <<>>
  BY <1>1
<1> QED
  BY <1>1, <1>2

LEMMA NextReads ==
  TypeInv /\ OwnershipInv /\ RepliesInv /\ ReadsInv /\ NothingMissed
    /\ [Next]_vars => ReadsInv'
<1> SUFFICES ASSUME TypeInv, OwnershipInv, RepliesInv, ReadsInv, NothingMissed,
                    [Next]_vars
             PROVE  ReadsInv'
  OBVIOUS
<1> USE DEF TypeInv, TypeOK, game, results, threads, cells, net, history
<1>1. CASE UNCHANGED <<tpc, slot, expects, requests, inbox>>
  BY <1>1 DEF ReadsInv, ReadsReply
<1>2. \A c \in Clients : tpc[c] = "READ" => slot[c] # None
  BY DEF OwnershipInv, HoldsInv, Busy, Stopping
<1>3. ASSUME NEW c \in Clients, Thread(c) PROVE ReadsInv'
  <2>1. /\ slot' = slot
        /\ \A d \in Clients \ {c} :
             /\ tpc'[d] = tpc[d]
             /\ requests'[d] = requests[d] /\ inbox'[d] = inbox[d]
             /\ slot[d] # None => expects'[slot[d]] = expects[slot[d]]
    BY <1>3, ThreadLeavesOthers
  <2>2. ASSUME NEW d \in Prompt \ {c}, tpc'[d] = "READ" PROVE ReadsReply(d)'
    <3>1. d \in Clients \ {c} /\ tpc[d] = "READ" /\ ReadsReply(d)
      BY <2>1, <2>2 DEF ReadsInv, Prompt
    <3> QED
      BY <1>2, <2>1, <3>1 DEF ReadsReply
  <2>3. CASE WriteRequest(c)
    <3>1. /\ expects' = expects /\ inbox' = inbox /\ Busy(c)
          /\ expects[cur[c]] # "NOTHING" /\ tpc[c] = "CHECK"
      BY <2>3 DEF WriteRequest, Sent, Runnable, Busy
    <3>2. cur[c] = slot[c]
      BY <3>1, OwnCell
    <3>3. c \in Prompt => inbox[c] = <<>> /\ requests[c] = <<>>
      BY <2>3, <3>1
         DEF WriteRequest, Sent, RepliesInv, StreamInv, NothingMissed, Prompt,
             Stopping
    <3>4. \/ requests'[c] = requests[c]
          \/ requests'[c] =
               Append(requests[c], [kind |-> expects[slot[c]],
                                    run |-> ask[slot[c]]])
      BY <2>3, <3>2 DEF WriteRequest
    <3>5. c \in Prompt => ReadsReply(c)'
      BY <2>1, <3>1, <3>2, <3>3, <3>4 DEF ReadsReply
    <3> QED
      BY <2>2, <3>5 DEF ReadsInv
  <2>4. CASE ~WriteRequest(c)
    <3>1. PICK l \in ThreadPC \ {"READ"} : tpc' = [tpc EXCEPT ![c] = l]
      BY <1>3, <2>4
         DEF Thread, Read, Pop, Skip, LeaveScope, WriteFails, WriteUpdate,
             Sent, AfterRead, ReadValid, ReadInvalid, ReadShort, ReadPart,
             ReadTimeout, ReadClosed, Release, AfterFailedWrite, SizeIsZero,
             SizeIsPositive, Exit, ThreadPC
    <3>2. tpc'[c] # "READ"
      BY <3>1
    <3> QED
      BY <2>2, <3>2 DEF ReadsInv
  <2> QED
    BY <2>3, <2>4
<1>4. ASSUME NEW c \in Clients, Emplace(c) PROVE ReadsInv'
  <2>1. PICK a \in Cells : /\ state[a] = "FREED"
                          /\ slot' = [slot EXCEPT ![c] = a]
                          /\ expects' = [expects EXCEPT ![a] = ResponseSize(kind)]
    BY <1>4 DEF Emplace
  <2>2. UNCHANGED <<tpc, requests, inbox>> /\ slot[c] = None
    BY <1>4 DEF Emplace, IsFirst, OwnershipInv, SlotsInv
  <2>3. ASSUME NEW d \in Clients, tpc[d] = "READ"
        PROVE  /\ slot'[d] = slot[d]
               /\ expects'[slot[d]] = expects[slot[d]]
    <3>1. d # c /\ slot[d] # a
      BY <1>2, <2>1, <2>2, <2>3 DEF OwnershipInv, SlotsInv
    <3> QED
      BY <1>2, <2>1, <2>3, <3>1
  <2>4. ASSUME NEW d \in Prompt, tpc[d] = "READ" PROVE ReadsReply(d)'
    <3>1. d \in Clients /\ ReadsReply(d)
      BY <2>4 DEF ReadsInv, Prompt
    <3>2. expects'[slot'[d]] = expects[slot[d]]
      BY <2>3, <2>4, <3>1
    <3> QED
      BY <2>2, <3>1, <3>2 DEF ReadsReply
  <2> QED
    BY <2>2, <2>4 DEF ReadsInv
<1>5. CASE Finish
  <2>1. \A c \in Clients : tpc[c] # "READ"
    BY <1>5 DEF Finish, OwnershipInv, ScopeInv, Using, Busy, Stopping
  <2> QED
    BY <1>5, <2>1 DEF Finish, ReadsInv, Prompt
<1>6. ASSUME NEW c \in Clients, Answer(c) PROVE ReadsInv'
  <2>1. ASSUME NEW d \in Prompt \ {c}, ReadsReply(d) PROVE ReadsReply(d)'
    <3>1. /\ requests'[d] = requests[d] /\ inbox'[d] = inbox[d]
          /\ UNCHANGED <<slot, expects>>
      BY <1>6, <2>1 DEF Answer, Prompt
    <3> QED
      BY <2>1, <3>1 DEF ReadsReply
  <2>2. tpc' = tpc
    BY <1>6 DEF Answer
  <2> QED
    BY <1>6, <2>1, <2>2, AnswerKeepsReads DEF ReadsInv
<1>7. ASSUME NEW c \in Clients, Close(c) PROVE ReadsInv'
  BY <1>7 DEF Close, ReadsInv, ReadsReply, Prompt
<1>8. ASSUME NEW c \in Clients, Game(c), ~Emplace(c)
      PROVE  UNCHANGED <<tpc, slot, expects, requests, inbox>>
  BY <1>8 DEF Game, StartNewGame, SkipInactive, Submit, WaitAcquire, WaitExpire
<1>9. CASE \/ \E k \in Kinds \ {"NEW_GAME"} : StartBroadcast(k)
           \/ StartWait \/ UNCHANGED vars
  BY <1>1, <1>9 DEF StartBroadcast, StartWait, vars
<1> QED
  BY <1>1, <1>3, <1>4, <1>5, <1>6, <1>7, <1>8, <1>9 DEF Next

LEMMA NextMissed ==
  ASSUME TypeInv, OwnershipInv, ReadsInv, NothingMissed, [Next]_vars
  PROVE  NothingMissed'
<1> USE DEF TypeInv, TypeOK, game, results, threads, cells, net, history
<1>1. CASE UNCHANGED unread
  BY <1>1 DEF NothingMissed, Prompt
<1>2. ASSUME NEW c \in Clients, ReadShort(c) PROVE c \notin Prompt
  <2> SUFFICES ASSUME ReadsReply(c) PROVE FALSE
    BY <1>2 DEF ReadShort, ReadsInv
  <2>1. /\ inbox[c] # <<>> /\ cur[c] = slot[c]
        /\ OnlyRest(c) \/ OnlyMoves(c) \/ expects[cur[c]] = "NOTHING"
    BY <1>2, OwnCell DEF ReadShort, Busy
  <2>2. Head(inbox[c]) = inbox[c][1] /\ 1 \in 1 .. Len(inbox[c])
    BY <2>1, EmptySeq
  <2>3. ~OnlyRest(c) /\ ~OnlyMoves(c)
    BY <2>1, <2>2 DEF OnlyRest, OnlyMoves, ReadsReply
  <2> QED
    BY <2>1, <2>3 DEF ReadsReply
<1>3. ASSUME NEW c \in Clients, ReadShort(c) \/ ReadPart(c) \/ ReadTimeout(c)
      PROVE  NothingMissed'
  <2>1. c \notin Prompt
    BY <1>2, <1>3 DEF ReadPart, ReadTimeout, Prompt
  <2>2. unread' = unread \cup {c}
    BY <1>3 DEF ReadShort, ReadPart, ReadTimeout
  <2> QED
    BY <2>1, <2>2 DEF NothingMissed, Prompt
<1>4. ASSUME NEW c \in Clients, Game(c) \/ Answer(c) \/ Close(c)
      PROVE  UNCHANGED unread
  BY <1>4 DEF Game, StartNewGame, SkipInactive, Emplace, Submit, WaitAcquire,
              WaitExpire, Answer, Close
<1>5. ASSUME NEW c \in Clients, Thread(c),
             ~(ReadShort(c) \/ ReadPart(c) \/ ReadTimeout(c))
      PROVE  UNCHANGED unread
  BY <1>5
     DEF Thread, Read, Pop, Skip, WriteFails, WriteUpdate, Sent, WriteRequest,
         ReadValid, ReadInvalid, ReadClosed, Release, SizeIsZero,
         SizeIsPositive, Exit
<1>6. CASE \/ \E k \in Kinds \ {"NEW_GAME"} : StartBroadcast(k)
           \/ StartWait \/ Finish \/ UNCHANGED vars
  BY <1>1, <1>6 DEF StartBroadcast, StartWait, Finish, vars
<1> QED
  BY <1>1, <1>3, <1>4, <1>5, <1>6 DEF Next

\* Until a wait ends before the thread it waits for is done, no reply of a prompt
\* client misses its read, and the reply saved for it is the one to the request
\* of this very run, whatever the other clients do.
THEOREM PromptReplies ==
  Spec => [](overdue = {} => /\ Prompt \cap unread = {}
                            /\ \A c \in Prompt : responses[c] \in {0, run})
<1> DEFINE IInv ==
      /\ TypeInv
      /\ overdue = {} => /\ OwnershipInv /\ AnswersInv /\ RepliesInv
                        /\ ReadsInv /\ NothingMissed
<1>1. Init => IInv
  BY InitType, InitOwnership, InitAnswers, InitReplies, InitMissed
<1>2. IInv /\ [Next]_vars => IInv'
  BY NextType, NextOwnership, NextAnswers, NextReplies, NextReads, NextMissed,
     OverdueMonotonic
<1>3. IInv => (overdue = {} => /\ Prompt \cap unread = {}
                              /\ \A c \in Prompt : responses[c] \in {0, run})
  BY DEF NothingMissed, RepliesInv, Prompt
<1> QED
  BY <1>1, <1>2, <1>3, PTL DEF Spec

\* GetsResponseToRequest holds where every peer is prompt and sends its replies
\* in one part (connection_client.h:67): late and divided replies are all that
\* stands against it.
THEOREM PromptGetsResponse ==
  ASSUME SlowClients = {}, SplitClients = {}
  PROVE  Spec => []GetsResponseToRequest
<1>1. (overdue = {} => /\ Prompt \cap unread = {}
                       /\ \A c \in Prompt : responses[c] \in {0, run})
        => GetsResponseToRequest
  BY DEF Prompt, GetsResponseToRequest
<1> QED
  BY <1>1, PromptReplies, PTL

\* TrueMeansFinished holds where every peer is prompt (connection_client.h:53).
THEOREM PromptTrueMeansFinished ==
  ASSUME SlowClients = {}
  PROVE  Spec => []TrueMeansFinished
<1>1. TypeInv /\ overdue = {} /\ [Next]_vars => (TypeInv /\ overdue = {})'
  BY NextType, NeverOverdue
<1>2. Init => TypeInv /\ overdue = {}
  BY InitType DEF Init
<1>3. overdue = {} /\ SuccessMeansAnswered => TrueMeansFinished
  BY DEF SuccessMeansAnswered, TrueMeansFinished
<1> QED
  BY <1>1, <1>2, <1>3, AnswersCorrect, PTL DEF Spec

(***************************************************************************)
(* The end of a read.                                                      *)
(***************************************************************************)

\* A connection thread waits in read() only for what will come: as long as the
\* connection is open, there is a reply in it or a request the peer still has
\* to answer, whatever was left of earlier transactions.
ReplyIsOwed ==
  \A c \in Clients :
    tpc[c] = "READ" /\ peer[c] = "open" =>
      inbox[c] # <<>> \/ requests[c] # <<>>

\* ReplyIsOwed, for every instance, late and divided replies included: no
\* thread waits in read() for a reply that nobody will send, so that a read
\* from a peer that answers comes to its end.
THEOREM ReadsEnd == Spec => []ReplyIsOwed
<1>1. Init => ReplyIsOwed
  BY DEF Init, ReplyIsOwed
<1>2. TypeInv /\ ReplyIsOwed /\ [Next]_vars => ReplyIsOwed'
  <2> SUFFICES ASSUME TypeInv, ReplyIsOwed, [Next]_vars PROVE ReplyIsOwed'
    OBVIOUS
  <2> USE DEF TypeInv, TypeOK, game, results, threads, cells, net, history
  <2>1. CASE UNCHANGED <<tpc, peer, inbox, requests>>
    BY <2>1 DEF ReplyIsOwed
  <2>2. ASSUME NEW c \in Clients, tpc'[c] # "READ",
               \A d \in Clients \ {c} :
                 /\ tpc'[d] = tpc[d] /\ peer'[d] = peer[d]
                 /\ inbox'[d] = inbox[d] /\ requests'[d] = requests[d]
        PROVE  ReplyIsOwed'
    BY <2>2 DEF ReplyIsOwed
  <2>3. ASSUME NEW c \in Clients, WriteRequest(c) PROVE ReplyIsOwed'
    <3>1. /\ inbox' = inbox
          /\ tpc' = [tpc EXCEPT ![c] = "READ"]
          /\ peer' = [peer EXCEPT ![c] = IF @ = "closed" THEN "reset" ELSE @]
      BY <2>3 DEF WriteRequest, Sent
    <3>2. CASE peer[c] = "open"
      <4>1. PICK r : requests' = [requests EXCEPT ![c] = Append(@, r)]
        BY <2>3, <3>2 DEF WriteRequest
      <4>2. requests'[c] = Append(requests[c], r)
        BY <4>1
      <4>3. requests[c] \in Seq(Request)
        OBVIOUS
      <4>4. Append(requests[c], r) # <<>>
        BY <4>3, AppendOf
      <4>5. requests'[c] # <<>>
        BY <4>2, <4>4
      <4> QED
        BY <3>1, <4>1, <4>5 DEF ReplyIsOwed
    <3>3. CASE peer[c] # "open"
      <4>1. requests' = requests /\ peer'[c] # "open"
        BY <2>3, <3>1, <3>3 DEF WriteRequest
      <4> QED
        BY <3>1, <4>1 DEF ReplyIsOwed
    <3> QED
      BY <3>2, <3>3
  <2>4. ASSUME NEW c \in Clients, Thread(c), ~WriteRequest(c)
        PROVE  /\ tpc'[c] # "READ"
               /\ \A d \in Clients \ {c} :
                    /\ tpc'[d] = tpc[d] /\ peer'[d] = peer[d]
                    /\ inbox'[d] = inbox[d] /\ requests'[d] = requests[d]
    <3>1. PICK l \in ThreadPC \ {"READ"} : tpc' = [tpc EXCEPT ![c] = l]
      BY <2>4
         DEF Thread, Read, Pop, Skip, LeaveScope, WriteFails, WriteUpdate,
             Sent, AfterRead, ReadValid, ReadInvalid, ReadShort, ReadPart,
             ReadTimeout, ReadClosed, Release, AfterFailedWrite, SizeIsZero,
             SizeIsPositive, Exit, ThreadPC
    <3>2. \A d \in Clients \ {c} : inbox'[d] = inbox[d]
      BY <2>4
         DEF Thread, Read, Pop, Skip, WriteFails, WriteUpdate, Sent,
             ReadValid, ReadInvalid, ReadShort, ReadPart, ReadTimeout,
             ReadClosed, Release, SizeIsZero, SizeIsPositive, Exit
    <3>3. /\ requests' = requests
          /\ \A d \in Clients \ {c} : peer'[d] = peer[d]
      BY <2>4
         DEF Thread, Read, Pop, Skip, WriteFails, WriteUpdate, Sent,
             ReadValid, ReadInvalid, ReadShort, ReadPart, ReadTimeout,
             ReadClosed, Release, SizeIsZero, SizeIsPositive, Exit
    <3> QED
      BY <3>1, <3>2, <3>3
  <2>5. ASSUME NEW c \in Clients, Answer(c) PROVE ReplyIsOwed'
    <3>1. PICK r : inbox' = [inbox EXCEPT ![c] = Append(@, r)]
      BY <2>5 DEF Answer
    <3>2. inbox'[c] = Append(inbox[c], r)
      BY <3>1
    <3>3. inbox[c] \in Seq(Reply)
      OBVIOUS
    <3>4. Append(inbox[c], r) # <<>>
      BY <3>3, AppendOf
    <3>5. inbox'[c] # <<>>
      BY <3>2, <3>4
    <3> QED
      BY <2>5, <3>1, <3>5 DEF Answer, ReplyIsOwed
  <2>6. ASSUME NEW c \in Clients, Close(c) PROVE ReplyIsOwed'
    BY <2>6 DEF Close, ReplyIsOwed
  <2>7. ASSUME NEW c \in Clients, Game(c) PROVE UNCHANGED <<tpc, net>>
    BY <2>7 DEF Game, StartNewGame, SkipInactive, Emplace, Submit, WaitAcquire,
                WaitExpire
  <2>8. CASE \/ \E k \in Kinds \ {"NEW_GAME"} : StartBroadcast(k)
             \/ StartWait \/ Finish \/ UNCHANGED vars
    BY <2>1, <2>8 DEF StartBroadcast, StartWait, Finish, vars
  <2> QED
    BY <2>1, <2>2, <2>3, <2>4, <2>5, <2>6, <2>7, <2>8 DEF Next
<1>3. Init => TypeInv
  BY InitType
<1>4. TypeInv /\ [Next]_vars => TypeInv'
  BY NextType
<1> QED
  BY <1>1, <1>2, <1>3, <1>4, PTL DEF Spec
=============================================================================
