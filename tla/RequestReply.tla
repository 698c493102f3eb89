---------------------------- MODULE RequestReply ----------------------------
(***************************************************************************)
(* What a transaction promises the game (Server::runTransaction followed   *)
(* by Transaction::waitForFinish, with Transaction::reset at the end),     *)
(* whatever queues, threads, semaphores and sockets are behind it:         *)
(*                                                                         *)
(*   - some of the clients are asked, one after the other;                 *)
(*   - each of them is served at most once, and no other one is;           *)
(*   - the wait judges each of them once, and counts exactly those that    *)
(*     were served;                                                        *)
(*   - it ends when all are judged, and the next run starts from nothing.  *)
(***************************************************************************)

CONSTANT Clients

VARIABLES
  phase,    \* "idle", "asking" or "waiting"
  asked,    \* clients this run was submitted to
  served,   \* those whose part of the run was finished successfully
  judged,   \* those the wait has dealt with
  counted   \* those it has counted

vars == <<phase, asked, served, judged, counted>>

Init ==
  /\ phase = "idle"
  /\ asked = {} /\ served = {} /\ judged = {} /\ counted = {}

Begin ==
  /\ phase = "idle"
  /\ phase' = "asking"
  /\ UNCHANGED <<asked, served, judged, counted>>

Ask(c) ==
  /\ phase = "asking"
  /\ c \notin asked
  /\ asked' = asked \cup {c}
  /\ UNCHANGED <<phase, served, judged, counted>>

\* A client may be served while others are still being asked.
Serve(c) ==
  /\ c \in asked \ (served \cup judged)
  /\ served' = served \cup {c}
  /\ UNCHANGED <<phase, asked, judged, counted>>

Wait ==
  /\ phase = "asking"
  /\ phase' = "waiting"
  /\ UNCHANGED <<asked, served, judged, counted>>

Judge(c) ==
  /\ phase = "waiting"
  /\ c \in asked \ judged
  /\ judged' = judged \cup {c}
  /\ counted' = counted \cup ({c} \cap served)
  /\ UNCHANGED <<phase, asked, served>>

End ==
  /\ phase = "waiting"
  /\ judged = asked
  /\ phase' = "idle"
  /\ asked' = {} /\ served' = {} /\ judged' = {} /\ counted' = {}

Next ==
  \/ Begin \/ Wait \/ End
  \/ \E c \in Clients : Ask(c) \/ Serve(c) \/ Judge(c)

Spec == Init /\ [][Next]_vars
=============================================================================
