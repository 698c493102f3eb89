----------------------------- MODULE GameProofs -----------------------------
(***************************************************************************)
(* Theorems about Game, for any number of clients, food and any limits.    *)
(***************************************************************************)
EXTENDS Game, FiniteSetTheorems, TLAPS

WorldProofs == INSTANCE EngineProofs

(***************************************************************************)
(* The world of a match is the one of module Engine.                       *)
(***************************************************************************)

LEMMA IdsDiffer ==
  /\ \A c, d \in Clients : PlayerOf(c) = PlayerOf(d) => c = d
  /\ \A m, n \in Nat : FoodOf(m) = FoodOf(n) => m = n
  /\ PlayerIds \cap FoodIds = {}
BY DEF PlayerIds, FoodIds, PlayerOf, FoodOf

LEMMA MaxFoodNat == MaxFood \in Nat /\ Cardinality(Clients) \in Nat
BY ConstantsAssumption, FS_CardinalityType DEF MaxFood

LEMMA IdsFinite == IsFiniteSet(PlayerIds) /\ IsFiniteSet(FoodIds)
<1>1. IsFiniteSet(PlayerIds)
  <2> DEFINE f == [c \in Clients |-> PlayerOf(c)]
  <2>1. f \in Surjection(Clients, PlayerIds)
    BY DEF Surjection, PlayerIds
  <2> QED
    BY <2>1, ConstantsAssumption, FS_Surjection
<1>2. IsFiniteSet(FoodIds)
  <2> DEFINE f == [n \in 0 .. MaxFood - 1 |-> FoodOf(n)]
  <2>1. f \in Surjection(0 .. MaxFood - 1, FoodIds)
    BY DEF Surjection, FoodIds
  <2>2. IsFiniteSet(0 .. MaxFood - 1)
    BY MaxFoodNat, FS_Interval
  <2> QED
    BY <2>1, <2>2, FS_Surjection
<1> QED
  BY <1>1, <1>2

LEMMA WorldStep == [Next]_vars => [World!Next]_(World!vars)
<1> SUFFICES ASSUME [Next]_vars PROVE World!Next \/ UNCHANGED world
  BY DEF World!vars, World!objects, world
<1>1. CASE \E c \in Clients : Accept(c) \/ Leave(c)
  BY <1>1 DEF Accept, Leave
<1>2. CASE Invite
  BY <1>2 DEF Invite, Joins, StaysOut, World!Next, World!AddPlayer
<1>3. CASE PlaceFood
  BY <1>3 DEF PlaceFood, World!Next, World!AddFood
<1>4. CASE StartStep \/ InStep \/ EndStep
  BY <1>4 DEF StartStep, InStep, EndStep, World!Next
<1>5. CASE NewMatch \/ ListClients \/ EndInvite \/ StartMatch
  BY <1>5 DEF NewMatch, ListClients, EndInvite, StartMatch
<1>6. CASE SendFood \/ EndSendFood \/ UpdatePlayers \/ GameOver
  BY <1>6 DEF SendFood, EndSendFood, UpdatePlayers, GameOver, SendPlayer,
              EndSendPlayers
<1>7. CASE Move \/ UpdateSprites \/ ReportFood \/ EndReport \/ Finish
  BY <1>7 DEF Move, UpdateSprites, ReportFood, EndReport, Finish
<1>8. CASE UNCHANGED vars
  BY <1>8 DEF vars, world
<1> QED
  BY <1>1, <1>2, <1>3, <1>4, <1>5, <1>6, <1>7, <1>8 DEF Next, Update

\* Every step of a match is a step of the world or none: what holds in every
\* order of contacts holds in a match.
THEOREM WorldCorrect == Spec => World!Spec
<1>1. Init => World!Init
  BY DEF Init
<1> QED
  BY <1>1, WorldStep, PTL DEF Spec, World!Spec

\* What is proved of module Engine holds of the world of a match.
LEMMA WorldAssumption == WorldProofs!ObjectsAssumption
BY IdsDiffer, IdsFinite DEF IsFiniteSet, WorldProofs!IsFiniteSet

LEMMA SameStep ==
  [World!Next]_(World!vars) => [WorldProofs!Next]_(WorldProofs!vars)
<1> SUFFICES ASSUME [World!Next]_(World!vars)
             PROVE  WorldProofs!Next \/ UNCHANGED WorldProofs!vars
  OBVIOUS
<1> USE DEF World!objects, WorldProofs!objects, World!Alive,
            WorldProofs!Alive
<1>1. CASE UNCHANGED World!vars
  BY <1>1 DEF World!vars, WorldProofs!vars
<1>2. ASSUME NEW p \in PlayerIds, World!AddPlayer(p)
      PROVE  WorldProofs!AddPlayer(p)
  BY <1>2 DEF World!AddPlayer, WorldProofs!AddPlayer, World!PlayerHP,
              WorldProofs!PlayerHP
<1>3. ASSUME NEW f \in FoodIds, World!AddFood(f)
      PROVE  WorldProofs!AddFood(f)
  BY <1>3 DEF World!AddFood, WorldProofs!AddFood, World!FoodHP,
              WorldProofs!FoodHP
<1>4. World!StartStep => WorldProofs!StartStep
  BY DEF World!StartStep, WorldProofs!StartStep
<1>5. World!Update => WorldProofs!Update
  BY DEF World!Update, WorldProofs!Update, World!Simulated,
         WorldProofs!Simulated
<1>6. ASSUME NEW e, World!Fight(e)
      PROVE  WorldProofs!Fight(e)
  BY <1>6 DEF World!Fight, WorldProofs!Fight, World!Beats,
              WorldProofs!Beats, World!Eat, WorldProofs!Eat
<1>7. ASSUME NEW p \in players, NEW q \in players, World!PlayersMeet(p, q)
      PROVE  WorldProofs!PlayersMeet(p, q)
  BY <1>6, <1>7 DEF World!PlayersMeet, WorldProofs!PlayersMeet
<1>8. ASSUME NEW p \in players, NEW f \in food, World!PlayerMeetsFood(p, f)
      PROVE  WorldProofs!PlayerMeetsFood(p, f)
  BY <1>8 DEF World!PlayerMeetsFood, WorldProofs!PlayerMeetsFood,
              World!CanEat, WorldProofs!CanEat, World!Eat, WorldProofs!Eat
<1>9. ASSUME NEW f \in food, World!FoodMeetsBoundaries(f)
      PROVE  WorldProofs!FoodMeetsBoundaries(f)
  BY <1>9 DEF World!FoodMeetsBoundaries, WorldProofs!FoodMeetsBoundaries,
              World!Killed, WorldProofs!Killed
<1>10. ASSUME NEW e \in touching,
              World!PlayersPart(e) \/ World!HandleOngoing(e)
       PROVE  WorldProofs!PlayersPart(e) \/ WorldProofs!HandleOngoing(e)
  BY <1>6, <1>10 DEF World!PlayersPart, WorldProofs!PlayersPart,
                     World!HandleOngoing, WorldProofs!HandleOngoing
<1>11. World!ListContacts => WorldProofs!ListContacts
  BY DEF World!ListContacts, WorldProofs!ListContacts,
         World!OngoingContacts, WorldProofs!OngoingContacts
<1> QED
  BY <1>1, <1>2, <1>3, <1>4, <1>5, <1>7, <1>8, <1>9, <1>10, <1>11
     DEF World!Next, WorldProofs!Next, World!Simulate, WorldProofs!Simulate

LEMMA WorldInvariance == Spec => []WorldProofs!IInv
<1>1. World!Init => WorldProofs!Init
  BY DEF World!Init, WorldProofs!Init, World!Objects, WorldProofs!Objects
<1>2. WorldProofs!Spec => []WorldProofs!IInv
  BY WorldAssumption, WorldProofs!Invariance
<1> QED
  BY <1>1, <1>2, SameStep, WorldCorrect, PTL DEF World!Spec, WorldProofs!Spec

LEMMA WorldTypes ==
  ASSUME WorldProofs!IInv
  PROVE  /\ World!TypeOK
         /\ hp \in [PlayerIds \cup FoodIds -> Nat]
BY DEF WorldProofs!IInv, WorldProofs!TypeOK, World!TypeOK, World!Objects,
       WorldProofs!Objects, World!Contacts, WorldProofs!Contacts

LEMMA FoodOnlyLoses ==
  ASSUME WorldProofs!IInv, [Next]_vars, NEW f \in food
  PROVE  f \in food' /\ hp'[f] \in {hp[f], 0}
BY WorldStep, SameStep, WorldAssumption, WorldProofs!FoodOnlyLoses

(***************************************************************************)
(* The inductive invariant.                                                *)
(***************************************************************************)

TypeInv ==
  /\ pc \in PC
  /\ next \in Nat
  /\ steps \in 0 .. StepsPerMove
  /\ invited \in Seq(Clients)
  /\ roster \in Seq(Clients)
  /\ isAlive \in Seq(BOOLEAN)
  /\ lastHp \in [Clients -> Nat]
  /\ batch \in Seq(State)
  /\ connected \subseteq Clients
  /\ active \subseteq connected
  /\ numberOfPlayers \in 0 .. Cardinality(Clients)
  /\ number \in [Clients -> {Unknown} \cup Nat]
  /\ announced \in [Clients -> {Unknown} \cup Nat]
  /\ told \in [Clients -> Told]
  /\ reports \in [0 .. MaxFood - 1 -> Nat]

SendingFood    == pc \in {"food_update", "report"}
SendingPlayers == pc \in {"player_update", "game_over"}

\* What the loops and lists of the phases run over.
RangesInv ==
  /\ pc \in {"main_menu", "new_game", "move", "world", "game_end"} => next = 0
  /\ pc = "invite" => next <= Len(invited) /\ Len(roster) <= next
  /\ pc = "place_food" => next = NFood
  /\ SendingFood => next <= NFood
  /\ SendingPlayers => next <= Len(roster)
  /\ pc \in {"main_menu", "new_game"} => roster = <<>> /\ invited = <<>>
  /\ pc \in {"main_menu", "new_game", "invite"} => isAlive = <<>>
  /\ Len(roster) <= Len(invited)
  /\ Len(invited) <= Cardinality(Clients)
  /\ NFood <= MaxFood
  /\ \A n \in 0 .. NFood - 1 : FoodOf(n) \in food
  /\ \A i \in DOMAIN roster : PlayerOf(roster[i]) \in players
  /\ ToSet(invited) \subseteq connected
  /\ pc # "world" => steps = 0
  /\ pc # "world" \/ steps = StepsPerMove => stage = "idle"

\* States collected for different objects, all of them visited.
Distinct(b, n) ==
  \A s, t \in ToSet(b) : s.no < n /\ (s.no = t.no => s = t)

BatchInv ==
  /\ ~(SendingFood \/ SendingPlayers) \/ next = 0 => batch = <<>>
  /\ SendingFood => /\ Len(batch) < MaxFoodUpdates
                    /\ next = NFood => batch = <<>>
                    /\ \A s \in ToSet(batch) : s.state \in {0, 1}
  /\ SendingPlayers => /\ Len(batch) < MaxPlayerUpdates
                       /\ next = Len(roster) => batch = <<>>
  /\ Distinct(batch, next)

\* What a client ought to know of a piece of food, and knows once it has been
\* sent what is collected.
Shown(n) == IF isAlive[n + 1] THEN 1 ELSE 0

FoodInv ==
  /\ \A n \in 0 .. NFood - 1 : hp[FoodOf(n)] \in {0, 1}
  /\ \A n \in 0 .. NFood - 1 : ~isAlive[n + 1] => hp[FoodOf(n)] = 0
  /\ \A n \in 0 .. NFood - 1 :
       pc \notin {"world", "report"} \/ (pc = "report" /\ n < next)
         => (isAlive[n + 1] <=> hp[FoodOf(n)] = 1)
  /\ \A n \in 0 .. MaxFood - 1 :
       reports[n] = IF n < NFood /\ ~isAlive[n + 1] THEN 1 ELSE 0
  /\ \A c \in Audience, n \in 0 .. NFood - 1 :
       /\ (pc = "food_update" /\ n < next) \/ pc = "report"
            => Stored(told[c].food, batch)[n] = Shown(n)
       /\ pc \in {"player_update", "move", "world"}
            => told[c].food[n] = Shown(n)

PlayerInv ==
  \A c \in Audience, i \in 0 .. Len(roster) - 1 :
    /\ SendingPlayers /\ i < next
         => Stored(told[c].hp, batch)[i] = hp[PlayerOf(roster[i + 1])]
    /\ pc \in {"move", "game_end"}
         => told[c].hp[i] = hp[PlayerOf(roster[i + 1])]

AnnounceInv ==
  /\ \A c \in Clients, i \in 0 .. Cardinality(Clients) - 1 :
       told[c].hp[i] # Unknown => i < Len(roster)
  /\ pc = "invite" =>
       /\ \A j \in 1 .. next :
            invited[j] \in active => announced[invited[j]] = Len(invited)
       /\ \A c \in Clients, i \in 0 .. Cardinality(Clients) - 1 :
            told[c].hp[i] = Unknown
  /\ pc \notin {"main_menu", "new_game", "invite"} =>
       \A c \in Audience : announced[c] = Len(invited)

SpriteInv ==
  \A i \in DOMAIN roster :
    /\ lastHp[roster[i]] > 0
    /\ pc # "world" /\ World!Alive(PlayerOf(roster[i]))
         => lastHp[roster[i]] = hp[PlayerOf(roster[i])]

Inv ==
  /\ TypeInv /\ RangesInv /\ BatchInv /\ FoodInv /\ PlayerInv /\ AnnounceInv
  /\ SpriteInv

(***************************************************************************)
(* What sending does to what the clients know.                             *)
(***************************************************************************)

LEMMA StoredDomain ==
  ASSUME NEW view, NEW b
  PROVE  DOMAIN Stored(view, b) = DOMAIN view
BY DEF Stored

LEMMA StoredNothing ==
  ASSUME NEW D, NEW R, NEW view \in [D -> R]
  PROVE  Stored(view, <<>>) = view
BY DEF Stored, ToSet

LEMMA StoredState ==
  ASSUME NEW view, NEW b, NEW m, Distinct(b, m), NEW n \in DOMAIN view
  PROVE  /\ \A s \in ToSet(b) : s.no = n => Stored(view, b)[n] = s.state
         /\ (\A s \in ToSet(b) : s.no # n) => Stored(view, b)[n] = view[n]
<1>1. ASSUME NEW s \in ToSet(b), s.no = n
      PROVE  Stored(view, b)[n] = s.state
  <2> DEFINE t == CHOOSE u \in ToSet(b) : u.no = n
  <2>1. t \in ToSet(b) /\ t.no = n
    BY <1>1
  <2>2. Stored(view, b)[n] = t.state
    BY <1>1 DEF Stored
  <2> QED
    BY <1>1, <2>1, <2>2 DEF Distinct
<1> QED
  BY <1>1 DEF Stored

LEMMA AppendedSet ==
  ASSUME NEW b \in Seq(State), NEW s \in State
  PROVE  /\ Append(b, s) \in Seq(State)
         /\ Append(b, s) # <<>>
         /\ Len(Append(b, s)) = Len(b) + 1
         /\ ToSet(Append(b, s)) = ToSet(b) \cup {s}
<1> Append(b, s) \in Seq(State) /\ Len(Append(b, s)) = Len(b) + 1
  OBVIOUS
<1>1. ToSet(Append(b, s)) \subseteq ToSet(b) \cup {s}
  BY DEF ToSet
<1>2. s \in ToSet(Append(b, s))
  <2>1. Append(b, s)[Len(b) + 1] = s
    OBVIOUS
  <2> QED
    BY <2>1 DEF ToSet
<1>3. ASSUME NEW i \in DOMAIN b PROVE b[i] \in ToSet(Append(b, s))
  <2>1. Append(b, s)[i] = b[i] /\ i \in DOMAIN Append(b, s)
    OBVIOUS
  <2> QED
    BY <2>1 DEF ToSet
<1> QED
  BY <1>1, <1>2, <1>3 DEF ToSet

\* One more state, of an object that was not visited yet.
LEMMA StoredAppend ==
  ASSUME NEW b \in Seq(State), NEW m \in Nat, NEW v \in Nat, Distinct(b, m)
  PROVE  LET s == [no |-> m, state |-> v] IN
         /\ s \in State
         /\ Distinct(Append(b, s), m + 1)
         /\ \A view : \A n \in DOMAIN view :
              Stored(view, Append(b, s))[n]
                = IF n = m THEN v ELSE Stored(view, b)[n]
<1> DEFINE s == [no |-> m, state |-> v]
<1>1. s \in State /\ s.no = m /\ s.state = v
  BY DEF State
<1>2. ToSet(Append(b, s)) = ToSet(b) \cup {s}
  BY <1>1, AppendedSet
<1>3. \A t \in ToSet(b) : t.no \in Nat /\ t.no < m
  <2>1. \A t \in ToSet(b) : t \in State
    BY DEF ToSet
  <2> QED
    BY <2>1 DEF Distinct, State
<1>4. Distinct(Append(b, s), m + 1)
  BY <1>1, <1>2, <1>3 DEF Distinct
<1>5. ASSUME NEW view, NEW n \in DOMAIN view
      PROVE  Stored(view, Append(b, s))[n]
               = IF n = m THEN v ELSE Stored(view, b)[n]
  <2>1. CASE n = m
    BY <1>1, <1>2, <1>4, <2>1, StoredState
  <2>2. CASE n # m /\ \E t \in ToSet(b) : t.no = n
    BY <1>2, <1>4, <2>2, StoredState
  <2>3. CASE n # m /\ \A t \in ToSet(b) : t.no # n
    BY <1>1, <1>2, <1>4, <2>3, StoredState
  <2> QED
    BY <2>1, <2>2, <2>3
<1> QED
  BY <1>1, <1>4, <1>5

\* The requests of a food phase: what is sent and what is kept for the next
\* one add up.
LEMMA FoodBatchEffect ==
  ASSUME TypeInv, NEW b \in Seq(State), FoodBatch(b),
         \A s \in ToSet(b) : s.state \in {0, 1},
         \A s \in ToSet(b) : \A t \in ToSet(b) : s.no = t.no => s = t
  PROVE  /\ told' \in [Clients -> Told]
         /\ batch' = <<>> \/ batch' = b
         /\ FoodDue(b) => batch' = <<>>
         /\ ~FoodDue(b) => batch' = b
         /\ \A c \in Clients : told'[c].hp = told[c].hp
         /\ \A c \in active :
              Stored(told'[c].food, batch') = Stored(told[c].food, b)
<1> USE DEF TypeInv
<1>1. CASE FoodDue(b)
  <2>1. TellFood(b) /\ batch' = <<>>
    BY <1>1 DEF FoodBatch
  <2>2. ASSUME NEW c \in active
        PROVE  /\ told'[c] \in Told
               /\ told'[c].hp = told[c].hp
               /\ told'[c].food = Stored(told[c].food, b)
    <3>1. c \in Clients /\ told[c] \in Told
      OBVIOUS
    <3>2. told'[c] = [told[c] EXCEPT !.food = Stored(@, b)]
      BY <2>1, <3>1 DEF TellFood
    <3>3. Stored(told[c].food, b) \in [0 .. MaxFood - 1 -> {Unknown, 0, 1}]
      BY <3>1 DEF Told, Stored
    <3> QED
      BY <3>1, <3>2, <3>3 DEF Told
  <2>3. \A c \in Clients \ active : told'[c] = told[c]
    BY <2>1 DEF TellFood
  <2>4. told' \in [Clients -> Told]
    BY <2>1, <2>2, <2>3 DEF TellFood
  <2>5. ASSUME NEW c \in active
        PROVE  Stored(told'[c].food, batch') = Stored(told[c].food, b)
    BY <2>1, <2>2, <2>5, StoredNothing DEF Told
  <2> QED
    BY <1>1, <2>1, <2>2, <2>3, <2>4, <2>5
<1>2. CASE ~FoodDue(b)
  BY <1>2 DEF FoodBatch
<1> QED
  BY <1>1, <1>2

LEMMA EmptyBatch ==
  /\ ToSet(<<>>) = {}
  /\ Len(<<>>) = 0
  /\ \A n : Distinct(<<>>, n)
BY DEF ToSet, Distinct

LEMMA ToldNothing ==
  ASSUME TypeInv, batch = <<>>, NEW c \in Clients
  PROVE  /\ Stored(told[c].food, batch) = told[c].food
         /\ Stored(told[c].hp, batch) = told[c].hp
BY StoredNothing DEF TypeInv, Told

(***************************************************************************)
(* Every step keeps the invariant.                                         *)
(***************************************************************************)

LEMMA AcceptKeeps ==
  ASSUME Inv, WorldProofs!IInv, WorldProofs!IInv', NEW c \in Clients, Accept(c)
  PROVE  Inv'
<1> USE DEF Inv
<1>0. Audience' = Audience
  BY DEF Accept, match, given, Audience, RangesInv
<1>9. pc = "invite" =>
        \A j \in 1 .. next : invited[j] \in active' => invited[j] \in active
  BY DEF Accept, match, RangesInv, TypeInv, ToSet
<1>1. TypeInv'
  BY DEF Accept, match, world, given, TypeInv, PC, State
<1>2. RangesInv'
  BY
     DEF Accept, match, world, given, RangesInv, SendingFood, SendingPlayers,
         NFood
<1>3. BatchInv'
  BY
     DEF Accept, match, world, given, BatchInv, SendingFood, SendingPlayers,
         NFood
<1>4. FoodInv'
  BY <1>0 DEF Accept, match, world, given, FoodInv, NFood, Shown
<1>5. PlayerInv'
  BY <1>0 DEF Accept, match, world, given, PlayerInv, SendingPlayers
<1>6. AnnounceInv'
  BY <1>0, <1>9 DEF Accept, match, world, given, AnnounceInv, RangesInv
<1>7. SpriteInv'
  BY DEF Accept, match, world, given, SpriteInv, World!Alive
<1> QED
  BY <1>1, <1>2, <1>3, <1>4, <1>5, <1>6, <1>7

LEMMA LeaveKeeps ==
  ASSUME Inv, WorldProofs!IInv, WorldProofs!IInv', NEW c \in Clients, Leave(c)
  PROVE  Inv'
<1> USE DEF Inv
<1>1. TypeInv'
  BY DEF Leave, match, world, given, TypeInv, PC, State
<1>2. RangesInv'
  BY
     DEF Leave, match, world, given, RangesInv, SendingFood, SendingPlayers,
         NFood
<1>3. BatchInv'
  BY
     DEF Leave, match, world, given, BatchInv, SendingFood, SendingPlayers,
         NFood
<1>4. FoodInv'
  BY DEF Leave, match, world, given, FoodInv, NFood, Shown, Audience
<1>5. PlayerInv'
  BY DEF Leave, match, world, given, PlayerInv, Audience, SendingPlayers
<1>6. AnnounceInv'
  BY DEF Leave, match, world, given, AnnounceInv, Audience
<1>7. SpriteInv'
  BY DEF Leave, match, world, given, SpriteInv, World!Alive
<1> QED
  BY <1>1, <1>2, <1>3, <1>4, <1>5, <1>6, <1>7

LEMMA NewMatchKeeps ==
  ASSUME Inv, WorldProofs!IInv, WorldProofs!IInv', NewMatch
  PROVE  Inv'
<1> USE DEF Inv
<1>1. TypeInv'
  <2>1. connected' \subseteq Clients /\ IsFiniteSet(Clients)
    BY ConstantsAssumption DEF NewMatch, Remaining, TypeInv
  <2>2. Cardinality(connected') \in 0 .. Cardinality(Clients)
    BY <2>1, FS_Subset, FS_CardinalityType
  <2> QED
    BY <2>2 DEF NewMatch, Remaining, given, world, TypeInv, PC
<1>2. RangesInv'
  BY EmptyBatch
     DEF NewMatch, Remaining, given, world, RangesInv, SendingFood,
         SendingPlayers, NFood
<1>3. BatchInv'
  BY
     DEF NewMatch, Remaining, given, world, BatchInv, SendingFood,
         SendingPlayers, NFood
<1>4. FoodInv'
  BY DEF NewMatch, Remaining, given, world, FoodInv, NFood, Shown, Audience
<1>5. PlayerInv'
  BY DEF NewMatch, Remaining, given, world, PlayerInv, Audience, SendingPlayers
<1>6. AnnounceInv'
  BY DEF NewMatch, Remaining, given, world, AnnounceInv, Audience
<1>7. SpriteInv'
  BY DEF NewMatch, Remaining, given, world, SpriteInv, World!Alive
<1> QED
  BY <1>1, <1>2, <1>3, <1>4, <1>5, <1>6, <1>7

LEMMA ListClientsKeeps ==
  ASSUME Inv, WorldProofs!IInv, WorldProofs!IInv', ListClients
  PROVE  Inv'
<1> USE DEF Inv
<1>0. /\ invited' \in Seq(Clients)
      /\ Len(invited') <= Cardinality(Clients)
      /\ ToSet(invited') \subseteq connected
  <2>1. connected \subseteq Clients /\ IsFiniteSet(Clients)
    BY ConstantsAssumption DEF TypeInv
  <2>2. /\ Cardinality(connected) \in Nat
        /\ Cardinality(connected) <= Cardinality(Clients)
    BY <2>1, FS_Subset, FS_CardinalityType
  <2>3. invited' \in [1 .. Cardinality(connected) -> connected]
    BY DEF ListClients, InOrder
  <2> QED
    BY <2>1, <2>2, <2>3 DEF ToSet
<1>1. TypeInv'
  BY <1>0 DEF ListClients, net, given, world, TypeInv, PC, State
<1>2. RangesInv'
  BY <1>0
     DEF ListClients, net, given, world, RangesInv, SendingFood,
         SendingPlayers, NFood
<1>3. BatchInv'
  BY
     DEF ListClients, net, given, world, BatchInv, SendingFood, SendingPlayers,
         NFood
<1>4. FoodInv'
  BY DEF ListClients, net, given, world, FoodInv, NFood, Shown, Audience
<1>5. PlayerInv'
  BY DEF ListClients, net, given, world, PlayerInv, Audience, SendingPlayers
<1>6. AnnounceInv'
  BY EmptyBatch DEF ListClients, net, given, world, AnnounceInv, RangesInv
<1>7. SpriteInv'
  BY DEF ListClients, net, given, world, SpriteInv, World!Alive
<1> QED
  BY <1>1, <1>2, <1>3, <1>4, <1>5, <1>6, <1>7

LEMMA EndInviteKeeps ==
  ASSUME Inv, WorldProofs!IInv, WorldProofs!IInv', EndInvite
  PROVE  Inv'
<1> USE DEF Inv
<1>1. TypeInv'
  BY DEF EndInvite, match, net, given, world, TypeInv, PC, State
<1>2. RangesInv'
  BY
     DEF EndInvite, match, net, given, world, RangesInv, SendingFood,
         SendingPlayers, NFood
<1>3. BatchInv'
  BY EmptyBatch, ConstantsAssumption
     DEF EndInvite, match, net, given, world, BatchInv, SendingFood,
         SendingPlayers, NFood
<1>4. FoodInv'
  BY DEF EndInvite, match, net, given, world, FoodInv, NFood, Shown, Audience
<1>5. PlayerInv'
  BY
     DEF EndInvite, match, net, given, world, PlayerInv, Audience,
         SendingPlayers
<1>6. AnnounceInv'
  BY DEF EndInvite, match, net, given, world, AnnounceInv, Audience, ToSet,
         TypeInv
<1>7. SpriteInv'
  BY DEF EndInvite, match, net, given, world, SpriteInv, World!Alive
<1> QED
  BY <1>1, <1>2, <1>3, <1>4, <1>5, <1>6, <1>7

LEMMA StartMatchKeeps ==
  ASSUME Inv, WorldProofs!IInv, WorldProofs!IInv', StartMatch
  PROVE  Inv'
<1> USE DEF Inv
<1>1. TypeInv'
  BY DEF StartMatch, match, net, given, world, TypeInv, PC, State
<1>2. RangesInv'
  BY
     DEF StartMatch, match, net, given, world, RangesInv, SendingFood,
         SendingPlayers, NFood
<1>3. BatchInv'
  BY EmptyBatch, ConstantsAssumption
     DEF StartMatch, match, net, given, world, BatchInv, SendingFood,
         SendingPlayers, NFood
<1>4. FoodInv'
  BY DEF StartMatch, match, net, given, world, FoodInv, NFood, Shown, Audience
<1>5. PlayerInv'
  BY
     DEF StartMatch, match, net, given, world, PlayerInv, Audience,
         SendingPlayers
<1>6. AnnounceInv'
  BY DEF StartMatch, match, net, given, world, AnnounceInv, Audience
<1>7. SpriteInv'
  BY DEF StartMatch, match, net, given, world, SpriteInv, World!Alive
<1> QED
  BY <1>1, <1>2, <1>3, <1>4, <1>5, <1>6, <1>7

LEMMA EndSendFoodKeeps ==
  ASSUME Inv, WorldProofs!IInv, WorldProofs!IInv', EndSendFood
  PROVE  Inv'
<1> USE DEF Inv
<1>1. TypeInv'
  BY DEF EndSendFood, match, net, given, world, TypeInv, PC, State
<1>2. RangesInv'
  BY
     DEF EndSendFood, match, net, given, world, RangesInv, SendingFood,
         SendingPlayers, NFood
<1>3. BatchInv'
  BY EmptyBatch, ConstantsAssumption
     DEF EndSendFood, match, net, given, world, BatchInv, SendingFood,
         SendingPlayers, NFood
<1>4. FoodInv'
  <2>1. batch = <<>>
    BY DEF EndSendFood, BatchInv, SendingFood
  <2>2. \A c \in Audience : Stored(told[c].food, batch) = told[c].food
    BY <2>1, ToldNothing DEF Audience, TypeInv
  <2> QED
    BY <2>2 DEF EndSendFood, match, net, given, world, FoodInv, NFood, Shown,
                Audience
<1>5. PlayerInv'
  BY
     DEF EndSendFood, match, net, given, world, PlayerInv, Audience,
         SendingPlayers
<1>6. AnnounceInv'
  BY DEF EndSendFood, match, net, given, world, AnnounceInv, Audience
<1>7. SpriteInv'
  BY DEF EndSendFood, match, net, given, world, SpriteInv, World!Alive
<1> QED
  BY <1>1, <1>2, <1>3, <1>4, <1>5, <1>6, <1>7

LEMMA MoveKeeps ==
  ASSUME Inv, WorldProofs!IInv, WorldProofs!IInv', Move
  PROVE  Inv'
<1> USE DEF Inv
<1>1. TypeInv'
  BY DEF Move, match, net, given, world, TypeInv, PC, State
<1>2. RangesInv'
  BY
     DEF Move, match, net, given, world, RangesInv, SendingFood,
         SendingPlayers, NFood
<1>3. BatchInv'
  BY
     DEF Move, match, net, given, world, BatchInv, SendingFood, SendingPlayers,
         NFood
<1>4. FoodInv'
  BY DEF Move, match, net, given, world, FoodInv, NFood, Shown, Audience
<1>5. PlayerInv'
  BY DEF Move, match, net, given, world, PlayerInv, Audience, SendingPlayers
<1>6. AnnounceInv'
  BY DEF Move, match, net, given, world, AnnounceInv, Audience
<1>7. SpriteInv'
  BY DEF Move, match, net, given, world, SpriteInv, World!Alive
<1> QED
  BY <1>1, <1>2, <1>3, <1>4, <1>5, <1>6, <1>7

LEMMA UpdateSpritesKeeps ==
  ASSUME Inv, WorldProofs!IInv, WorldProofs!IInv', UpdateSprites
  PROVE  Inv'
<1> USE DEF Inv
<1>0. next = 0 /\ batch = <<>>
  BY DEF UpdateSprites, RangesInv, BatchInv, SendingFood, SendingPlayers
<1>9. lastHp' \in [Clients -> Nat]
  BY WorldTypes DEF UpdateSprites, Refreshed, TypeInv, PlayerIds
<1>1. TypeInv'
  BY <1>9, ConstantsAssumption
     DEF UpdateSprites, Refreshed, net, given, world, TypeInv, PC, State
<1>2. RangesInv'
  BY
     DEF UpdateSprites, Refreshed, net, given, world, RangesInv, SendingFood,
         SendingPlayers, NFood
<1>3. BatchInv'
  BY <1>0, EmptyBatch, ConstantsAssumption
     DEF UpdateSprites, Refreshed, net, given, world, BatchInv, SendingFood,
         SendingPlayers, NFood
<1>4. FoodInv'
  <2>1. \A c \in Audience : Stored(told[c].food, batch) = told[c].food
    BY <1>0, ToldNothing DEF Audience, TypeInv
  <2> QED
    BY <1>0, <2>1 DEF UpdateSprites, net, given, world, FoodInv, NFood, Shown,
                      Audience
<1>5. PlayerInv'
  BY
     DEF UpdateSprites, Refreshed, net, given, world, PlayerInv, Audience,
         SendingPlayers
<1>6. AnnounceInv'
  BY DEF UpdateSprites, Refreshed, net, given, world, AnnounceInv, Audience
<1>7. SpriteInv'
  <2> SUFFICES ASSUME NEW i \in DOMAIN roster
               PROVE  /\ lastHp'[roster[i]] > 0
                      /\ World!Alive(PlayerOf(roster[i]))
                           => lastHp'[roster[i]] = hp[PlayerOf(roster[i])]
    BY DEF UpdateSprites, world, SpriteInv, World!Alive
  <2> DEFINE c == roster[i]
  <2>1. c \in Clients /\ c \in ToSet(roster)
    BY DEF TypeInv, ToSet
  <2>2. lastHp'[c] = IF Refreshed(c) THEN hp[PlayerOf(c)] ELSE lastHp[c]
    BY <2>1 DEF UpdateSprites
  <2> QED
    BY <2>1, <2>2 DEF SpriteInv, Refreshed, World!Alive
<1> QED
  BY <1>1, <1>2, <1>3, <1>4, <1>5, <1>6, <1>7

LEMMA EndReportKeeps ==
  ASSUME Inv, WorldProofs!IInv, WorldProofs!IInv', EndReport
  PROVE  Inv'
<1> USE DEF Inv
<1>1. TypeInv'
  BY DEF EndReport, match, net, given, world, TypeInv, PC, State
<1>2. RangesInv'
  BY
     DEF EndReport, match, net, given, world, RangesInv, SendingFood,
         SendingPlayers, NFood
<1>3. BatchInv'
  BY EmptyBatch, ConstantsAssumption
     DEF EndReport, match, net, given, world, BatchInv, SendingFood,
         SendingPlayers, NFood
<1>4. FoodInv'
  <2>1. batch = <<>>
    BY DEF EndReport, BatchInv, SendingFood
  <2>2. \A c \in Audience : Stored(told[c].food, batch) = told[c].food
    BY <2>1, ToldNothing DEF Audience, TypeInv
  <2> QED
    BY <2>2 DEF EndReport, match, net, given, world, FoodInv, NFood, Shown,
                Audience
<1>5. PlayerInv'
  BY
     DEF EndReport, match, net, given, world, PlayerInv, Audience,
         SendingPlayers
<1>6. AnnounceInv'
  BY DEF EndReport, match, net, given, world, AnnounceInv, Audience
<1>7. SpriteInv'
  BY DEF EndReport, match, net, given, world, SpriteInv, World!Alive
<1> QED
  BY <1>1, <1>2, <1>3, <1>4, <1>5, <1>6, <1>7

LEMMA FinishKeeps ==
  ASSUME Inv, WorldProofs!IInv, WorldProofs!IInv', Finish
  PROVE  Inv'
<1> USE DEF Inv
<1>1. TypeInv'
  BY DEF Finish, match, net, given, world, TypeInv, PC, State
<1>2. RangesInv'
  BY
     DEF Finish, match, net, given, world, RangesInv, SendingFood,
         SendingPlayers, NFood
<1>3. BatchInv'
  BY EmptyBatch, ConstantsAssumption
     DEF Finish, match, net, given, world, BatchInv, SendingFood,
         SendingPlayers, NFood
<1>4. FoodInv'
  BY DEF Finish, match, net, given, world, FoodInv, NFood, Shown, Audience
<1>5. PlayerInv'
  BY DEF Finish, match, net, given, world, PlayerInv, Audience, SendingPlayers
<1>6. AnnounceInv'
  BY EmptyBatch DEF Finish, match, net, given, world, AnnounceInv, Audience,
                    RangesInv
<1>7. SpriteInv'
  BY DEF Finish, match, net, given, world, SpriteInv, World!Alive
<1> QED
  BY <1>1, <1>2, <1>3, <1>4, <1>5, <1>6, <1>7

LEMMA EndSendPlayersKeeps ==
  ASSUME Inv, WorldProofs!IInv, WorldProofs!IInv', SendingPlayers, NEW phase,
         phase = IF pc = "player_update" THEN "move" ELSE "game_end",
         EndSendPlayers(phase)
  PROVE  Inv'
<1> USE DEF Inv
<1> USE DEF SendingPlayers
<1>0. batch = <<>>
  BY DEF EndSendPlayers, BatchInv
<1>1. TypeInv'
  BY DEF EndSendPlayers, match, net, given, world, TypeInv, PC, State
<1>2. RangesInv'
  BY
     DEF EndSendPlayers, match, net, given, world, RangesInv, SendingFood,
         SendingPlayers, NFood
<1>3. BatchInv'
  BY <1>0, EmptyBatch
     DEF EndSendPlayers, match, net, given, world, BatchInv, SendingFood,
         SendingPlayers, NFood
<1>4. FoodInv'
  BY
     DEF EndSendPlayers, match, net, given, world, FoodInv, NFood, Shown,
         Audience
<1>5. PlayerInv'
  <2>1. \A c \in Audience : Stored(told[c].hp, batch) = told[c].hp
    BY <1>0, ToldNothing DEF Audience, TypeInv
  <2> QED
    BY <2>1 DEF EndSendPlayers, match, net, given, world, PlayerInv, Audience
<1>6. AnnounceInv'
  BY DEF EndSendPlayers, match, net, given, world, AnnounceInv, Audience
<1>7. SpriteInv'
  BY DEF EndSendPlayers, match, net, given, world, SpriteInv, World!Alive
<1> QED
  BY <1>1, <1>2, <1>3, <1>4, <1>5, <1>6, <1>7

LEMMA StutterKeeps ==
  ASSUME Inv, WorldProofs!IInv, WorldProofs!IInv', UNCHANGED vars
  PROVE  Inv'
<1> USE DEF Inv
<1>1. TypeInv'
  BY DEF vars, match, net, given, world, TypeInv, PC, State
<1>2. RangesInv'
  BY
     DEF vars, match, net, given, world, RangesInv, SendingFood,
         SendingPlayers, NFood
<1>3. BatchInv'
  BY
     DEF vars, match, net, given, world, BatchInv, SendingFood, SendingPlayers,
         NFood
<1>4. FoodInv'
  BY DEF vars, match, net, given, world, FoodInv, NFood, Shown, Audience
<1>5. PlayerInv'
  BY DEF vars, match, net, given, world, PlayerInv, Audience, SendingPlayers
<1>6. AnnounceInv'
  BY DEF vars, match, net, given, world, AnnounceInv, Audience
<1>7. SpriteInv'
  BY DEF vars, match, net, given, world, SpriteInv, World!Alive
<1> QED
  BY <1>1, <1>2, <1>3, <1>4, <1>5, <1>6, <1>7

LEMMA InviteKeeps ==
  ASSUME Inv, WorldProofs!IInv, WorldProofs!IInv', Invite
  PROVE  Inv'
<1> USE DEF Inv
<1> DEFINE c == invited[next + 1]
<1>10. /\ pc = "invite" /\ pc' = "invite" /\ next < Len(invited)
       /\ Announce(c)
       /\ Joins(c) \/ StaysOut
       /\ next' = next + 1
       /\ UNCHANGED <<steps, numberOfPlayers, invited, isAlive, batch,
                      connected, active, told, reports>>
  BY DEF Invite
<1> HIDE DEF c
<1>20. c = invited[next + 1]
  BY DEF c
<1>0. /\ c \in Clients /\ c \in connected
      /\ isAlive = <<>> /\ batch = <<>>
      /\ next + 1 <= Len(invited) /\ next + 1 \in 1 .. Len(invited)
  BY <1>10, <1>20
     DEF TypeInv, RangesInv, BatchInv, SendingFood, SendingPlayers,
                      ToSet
<1>11. \/ Joins(c) /\ roster' = Append(roster, c)
       \/ UNCHANGED <<roster, lastHp, world>>
  BY <1>10 DEF Joins, StaysOut
<1>12. ASSUME Joins(c)
       PROVE  /\ roster' \in Seq(Clients) /\ Len(roster') = Len(roster) + 1
              /\ roster'[Len(roster) + 1] = c
              /\ \A i \in DOMAIN roster : roster'[i] = roster[i]
              /\ players' = players \cup {PlayerOf(c)}
              /\ food' = food /\ stage' = stage
              /\ PlayerOf(c) \notin players
              /\ hp' = [hp EXCEPT ![PlayerOf(c)] = 2]
              /\ lastHp' = [lastHp EXCEPT ![c] = 2]
  BY <1>0, <1>12 DEF Joins, TypeInv, World!AddPlayer, World!PlayerHP
<1>1. TypeInv'
  <2>1. /\ number' \in [Clients -> {Unknown} \cup Nat]
        /\ announced' \in [Clients -> {Unknown} \cup Nat]
    <3>1. next \in Nat /\ Len(invited) \in Nat
      BY DEF TypeInv
    <3>2. CASE c \in active
      BY <1>0, <1>10, <3>1, <3>2 DEF Announce, PlayersToAnnounce, TypeInv
    <3>3. CASE c \notin active
      BY <1>10, <3>3 DEF Announce, given, TypeInv
    <3> QED
      BY <3>2, <3>3
  <2>2. roster' \in Seq(Clients) /\ lastHp' \in [Clients -> Nat]
    <3>1. CASE Joins(c)
      <4>1. roster' \in Seq(Clients) /\ lastHp' = [lastHp EXCEPT ![c] = 2]
        BY <1>12, <3>1, Zenon
      <4> QED
        BY <1>0, <4>1 DEF TypeInv
    <3>2. CASE UNCHANGED <<roster, lastHp, world>>
      BY <3>2 DEF TypeInv
    <3> QED
      BY <1>11, <3>1, <3>2
  <2> QED
    BY <1>10, <2>1, <2>2 DEF TypeInv
<1>2. RangesInv'
  <2> USE DEF RangesInv, SendingFood, SendingPlayers, NFood
  <2>1. CASE Joins(c)
    <3>1. \A i \in DOMAIN roster' : PlayerOf(roster'[i]) \in players'
      <4> SUFFICES ASSUME NEW i \in DOMAIN roster'
                   PROVE  PlayerOf(roster'[i]) \in players'
        OBVIOUS
      <4>1. i \in DOMAIN roster \/ i = Len(roster) + 1
        BY <1>12, <2>1 DEF TypeInv
      <4> QED
        BY <1>12, <2>1, <4>1
    <3> QED
      BY <1>0, <1>10, <1>12, <2>1, <3>1 DEF TypeInv
  <2>2. CASE UNCHANGED <<roster, lastHp, world>>
    BY <1>0, <1>10, <2>2 DEF world, TypeInv
  <2> QED
    BY <1>11, <2>1, <2>2
<1>3. BatchInv'
  BY <1>0, <1>10, EmptyBatch DEF BatchInv, SendingFood, SendingPlayers
<1>4. FoodInv'
  BY <1>0, <1>10, EmptyBatch DEF FoodInv, NFood, Shown
<1>5. PlayerInv'
  BY <1>10 DEF PlayerInv, SendingPlayers
<1>6. AnnounceInv'
  <2>1. \A j \in 1 .. next + 1 :
          invited[j] \in active => announced'[invited[j]] = Len(invited)
    <3> SUFFICES ASSUME NEW j \in 1 .. next + 1, invited[j] \in active
                 PROVE  announced'[invited[j]] = Len(invited)
      OBVIOUS
    <3>1. CASE invited[j] = c
      BY <1>0, <1>10, <3>1 DEF Announce, PlayersToAnnounce, TypeInv
    <3>2. CASE invited[j] # c
      <4>1. announced[invited[j]] = Len(invited)
        <5>1. j \in 1 .. next
          <6>1. j = next + 1 \/ j \in 1 .. next
            BY DEF TypeInv
          <6> QED
            BY <1>20, <3>2, <6>1
        <5> QED
          BY <1>10, <5>1 DEF AnnounceInv
      <4> QED
        BY <1>10, <3>2, <4>1 DEF Announce, given, TypeInv
    <3> QED
      BY <3>1, <3>2
  <2> QED
    BY <1>10, <2>1 DEF AnnounceInv
<1>7. SpriteInv'
  <2> SUFFICES ASSUME NEW i \in DOMAIN roster'
               PROVE  /\ lastHp'[roster'[i]] > 0
                      /\ hp'[PlayerOf(roster'[i])] > 0
                           => lastHp'[roster'[i]] = hp'[PlayerOf(roster'[i])]
    BY DEF SpriteInv, World!Alive
  <2>1. CASE UNCHANGED <<roster, lastHp, world>>
    BY <1>10, <2>1 DEF SpriteInv, world, World!Alive
  <2>2. CASE Joins(c) /\ i = Len(roster) + 1
    <3>1. PlayerOf(c) \in PlayerIds \cup FoodIds
      BY <1>0 DEF PlayerIds
    <3> QED
      BY <1>0, <1>12, <2>2, <3>1, WorldTypes DEF TypeInv
  <2>3. CASE Joins(c) /\ i \in DOMAIN roster
    <3>1. roster'[i] = roster[i] /\ roster[i] \in Clients
      BY <1>12, <2>3 DEF TypeInv
    <3>2. PlayerOf(roster[i]) # PlayerOf(c) /\ roster[i] # c
      BY <1>12, <2>3 DEF RangesInv
    <3>3. /\ lastHp'[roster[i]] = lastHp[roster[i]]
          /\ hp'[PlayerOf(roster[i])] = hp[PlayerOf(roster[i])]
      <4>1. PlayerOf(roster[i]) \in PlayerIds
        BY <3>1 DEF PlayerIds
      <4> QED
        BY <1>12, <2>3, <3>1, <3>2, <4>1, WorldTypes DEF TypeInv
    <3>4. i \in DOMAIN roster
      BY <2>3
    <3> QED
      BY <1>10, <3>1, <3>3, <3>4 DEF SpriteInv, World!Alive
  <2> QED
    BY <1>11, <1>12, <2>1, <2>2, <2>3 DEF TypeInv
<1> QED
  BY <1>1, <1>2, <1>3, <1>4, <1>5, <1>6, <1>7

LEMMA AppendKeeps ==
  ASSUME NEW S, NEW q \in Seq(S), NEW x \in S, NEW n \in 0 .. Len(q) - 1
  PROVE  Append(q, x)[n + 1] = q[n + 1]
OBVIOUS

LEMMA PlaceFoodKeeps ==
  ASSUME Inv, WorldProofs!IInv, WorldProofs!IInv', PlaceFood
  PROVE  Inv'
<1> USE DEF Inv
<1> USE DEF PlaceFood, match, net, given
<1>0. /\ isAlive' = Append(isAlive, TRUE)
      /\ isAlive' \in Seq(BOOLEAN)
      /\ Len(isAlive') = next + 1 /\ isAlive'[next + 1] = TRUE
      /\ \A n \in 0 .. next - 1 : isAlive'[n + 1] = isAlive[n + 1]
      /\ next = Len(isAlive) /\ batch = <<>>
  <2>1. next = Len(isAlive) /\ batch = <<>> /\ isAlive' = Append(isAlive, TRUE)
    BY DEF RangesInv, BatchInv, SendingFood, SendingPlayers, NFood
  <2>2. isAlive \in Seq(BOOLEAN) /\ TRUE \in BOOLEAN
    BY DEF TypeInv
  <2>3. /\ Append(isAlive, TRUE) \in Seq(BOOLEAN)
        /\ Len(Append(isAlive, TRUE)) = Len(isAlive) + 1
    BY <2>2
  <2>4. Append(isAlive, TRUE)[Len(isAlive) + 1] = TRUE
    BY <2>2
  <2>5. \A n \in 0 .. Len(isAlive) - 1 :
          Append(isAlive, TRUE)[n + 1] = isAlive[n + 1]
    BY <2>2, AppendKeeps
  <2> QED
    BY <2>1, <2>3, <2>4, <2>5
<1>11. /\ players' = players /\ stage' = stage
       /\ food' = food \cup {FoodOf(next)}
       /\ FoodOf(next) \in FoodIds
       /\ hp' = [hp EXCEPT ![FoodOf(next)] = 1]
  BY DEF World!AddFood, World!FoodHP
<1>12. next \in 0 .. MaxFood - 1
  BY <1>11, IdsDiffer, MaxFoodNat DEF FoodIds, TypeInv
<1>13. /\ hp'[FoodOf(next)] = 1
       /\ \A n \in 0 .. next - 1 : hp'[FoodOf(n)] = hp[FoodOf(n)]
       /\ \A p \in PlayerIds : hp'[p] = hp[p]
  <2>1. \A n \in 0 .. next - 1 :
          n \in 0 .. MaxFood - 1 /\ n \in Nat /\ next \in Nat /\ n # next
    BY <1>12, MaxFoodNat DEF TypeInv
  <2>2. \A n \in 0 .. next - 1 :
          FoodOf(n) \in FoodIds /\ FoodOf(n) # FoodOf(next)
    BY <2>1, IdsDiffer DEF FoodIds
  <2>3. \A p \in PlayerIds : p # FoodOf(next)
    BY <1>11, IdsDiffer
  <2> QED
    BY <1>11, <2>2, <2>3, WorldTypes
<1>1. TypeInv'
  BY <1>0 DEF TypeInv, PC
<1>2. RangesInv'
  <2>1. \A n \in 0 .. Len(isAlive') - 1 : FoodOf(n) \in food'
    BY <1>0, <1>11 DEF RangesInv, NFood, TypeInv
  <2> QED
    BY <1>0, <1>11, <1>12, <2>1, MaxFoodNat
       DEF RangesInv, SendingFood, SendingPlayers, NFood, TypeInv
<1>3. BatchInv'
  BY <1>0, EmptyBatch DEF BatchInv, SendingFood, SendingPlayers
<1>4. FoodInv'
  <2> USE DEF FoodInv, NFood
  <2>0. \A n \in 0 .. next : n = next \/ n \in 0 .. Len(isAlive) - 1
    BY <1>0 DEF TypeInv
  <2>1. ASSUME NEW n \in 0 .. next
        PROVE  /\ isAlive'[n + 1] <=> hp'[FoodOf(n)] = 1
               /\ hp'[FoodOf(n)] \in {0, 1}
    <3>1. CASE n = next
      BY <1>0, <1>13, <3>1
    <3>2. CASE n \in 0 .. next - 1
      <4>1. /\ isAlive'[n + 1] = isAlive[n + 1]
            /\ hp'[FoodOf(n)] = hp[FoodOf(n)]
        BY <1>0, <1>13, <3>2
      <4>2. n \in 0 .. Len(isAlive) - 1
        BY <1>0, <3>2
      <4> QED
        BY <4>1, <4>2
    <3> QED
      BY <1>0, <2>0, <3>1, <3>2
  <2>3. \A n \in 0 .. MaxFood - 1 :
          reports'[n] = IF n < Len(isAlive') /\ ~isAlive'[n + 1] THEN 1 ELSE 0
    BY <1>0, <1>12 DEF TypeInv
  <2> QED
    <3>1. Len(isAlive') - 1 = next
      BY <1>0 DEF TypeInv
    <3>2. pc = "place_food" /\ pc' = "place_food"
      OBVIOUS
    <3> QED
      BY <2>1, <2>3, <3>1, <3>2
<1>5. PlayerInv'
  BY DEF PlayerInv, SendingPlayers
<1>6. AnnounceInv'
  BY DEF AnnounceInv, Audience
<1>7. SpriteInv'
  <2>1. \A i \in DOMAIN roster : PlayerOf(roster[i]) \in PlayerIds
    BY DEF TypeInv, PlayerIds
  <2> QED
    BY <1>13, <2>1 DEF SpriteInv, World!Alive
<1> QED
  BY <1>1, <1>2, <1>3, <1>4, <1>5, <1>6, <1>7

LEMMA SendFoodKeeps ==
  ASSUME Inv, WorldProofs!IInv, WorldProofs!IInv', SendFood
  PROVE  Inv'
<1> USE DEF Inv
<1> DEFINE s == [no |-> next, state |-> hp[FoodOf(next)]]
           b == Append(batch, s)
<1>0. /\ pc = "food_update" /\ pc' = "food_update"
      /\ next < NFood /\ next' = next + 1
      /\ FoodBatch(b)
      /\ UNCHANGED <<steps, match, isAlive, connected, active, given, reports,
                     world>>
  BY DEF SendFood
<1> HIDE DEF s, b
<1>1. /\ hp[FoodOf(next)] \in {0, 1} /\ hp[FoodOf(next)] = Shown(next)
      /\ next \in 0 .. NFood - 1
  <2>1. next \in 0 .. NFood - 1
    BY <1>0 DEF TypeInv, NFood
  <2> QED
    BY <1>0, <2>1 DEF FoodInv, Shown
<1>2. /\ s \in State /\ s.state \in {0, 1} /\ Distinct(b, next + 1)
      /\ \A view : \A n \in DOMAIN view :
           Stored(view, b)[n]
             = IF n = next THEN hp[FoodOf(next)] ELSE Stored(view, batch)[n]
  BY <1>1, StoredAppend DEF s, b, TypeInv, BatchInv
<1>3. /\ b \in Seq(State) /\ b # <<>> /\ Len(b) = Len(batch) + 1
      /\ ToSet(b) = ToSet(batch) \cup {s}
  BY <1>2, AppendedSet DEF b, TypeInv
<1>4. \A u \in ToSet(b) : u.state \in {0, 1}
  BY <1>0, <1>2, <1>3 DEF BatchInv, SendingFood
<1>5. /\ told' \in [Clients -> Told]
      /\ batch' = <<>> \/ batch' = b
      /\ FoodDue(b) => batch' = <<>>
      /\ ~FoodDue(b) => batch' = b
      /\ \A c \in Clients : told'[c].hp = told[c].hp
      /\ \A c \in active :
           Stored(told'[c].food, batch') = Stored(told[c].food, b)
  BY <1>0, <1>2, <1>3, <1>4, FoodBatchEffect DEF Distinct
<1>11. TypeInv'
  <2>1. batch' \in Seq(State) /\ next' \in Nat
    <3>1. <<>> \in Seq(State) /\ next + 1 \in Nat
      BY DEF TypeInv
    <3> QED
      BY <1>0, <1>3, <1>5, <3>1, Zenon
  <2> QED
    BY <1>0, <1>5, <2>1 DEF TypeInv, match, given
<1>12. RangesInv'
  BY <1>0, <1>1
     DEF RangesInv, match, world, SendingFood, SendingPlayers, NFood,
                    TypeInv
<1>13. BatchInv'
  <2>1. Len(batch') < MaxFoodUpdates
    BY <1>0, <1>3, <1>5, ConstantsAssumption, EmptyBatch
       DEF FoodDue, BatchInv, SendingFood, TypeInv
  <2>2. next' = NFood' => batch' = <<>>
    BY <1>0, <1>1, <1>3, <1>5 DEF FoodDue, NFood, TypeInv
  <2>3. \A u \in ToSet(batch') : u.state \in {0, 1}
    BY <1>4, <1>5, EmptyBatch
  <2>4. Distinct(batch', next')
    BY <1>0, <1>2, <1>5, EmptyBatch
  <2>5. next' # 0
    BY <1>0 DEF TypeInv
  <2> QED
    BY <1>0, <2>1, <2>2, <2>3, <2>4, <2>5
       DEF BatchInv, SendingFood, SendingPlayers
<1>14. FoodInv'
  <2>1. ASSUME NEW c \in Audience, NEW n \in 0 .. NFood - 1, n < next + 1
        PROVE  Stored(told'[c].food, batch')[n] = Shown(n)
    <3>1. c \in active /\ c \in Clients /\ n \in DOMAIN told[c].food
      <4>1. n \in 0 .. MaxFood - 1
        BY MaxFoodNat DEF RangesInv, NFood, TypeInv
      <4> QED
        BY <4>1 DEF Audience, TypeInv, Told
    <3>2. Stored(told'[c].food, batch')[n]
            = IF n = next THEN hp[FoodOf(next)]
              ELSE Stored(told[c].food, batch)[n]
      BY <1>2, <1>5, <3>1
    <3>3. n # next => n < next
      BY <2>1, <1>1 DEF NFood, TypeInv
    <3>4. n # next => Stored(told[c].food, batch)[n] = Shown(n)
      BY <1>0, <3>3 DEF FoodInv
    <3> QED
      BY <1>1, <3>2, <3>4
  <2>2. Audience' = Audience
    BY <1>0 DEF Audience, match
  <2> QED
    BY <1>0, <2>1, <2>2 DEF FoodInv, NFood, Shown, world
<1>15. PlayerInv'
  BY <1>0 DEF PlayerInv, SendingPlayers
<1>16. AnnounceInv'
  BY <1>0, <1>5 DEF AnnounceInv, Audience, match, given
<1>17. SpriteInv'
  BY <1>0 DEF SpriteInv, World!Alive, match, world
<1> QED
  BY <1>11, <1>12, <1>13, <1>14, <1>15, <1>16, <1>17

LEMMA ExceptKeeps ==
  ASSUME NEW q \in Seq(BOOLEAN), NEW i \in DOMAIN q
  PROVE  LET r == [q EXCEPT ![i] = FALSE] IN
         /\ r \in Seq(BOOLEAN) /\ Len(r) = Len(q)
         /\ r[i] = FALSE
         /\ \A j \in DOMAIN q \ {i} : r[j] = q[j]
OBVIOUS

LEMMA ReportFoodKeeps ==
  ASSUME Inv, WorldProofs!IInv, WorldProofs!IInv', ReportFood
  PROVE  Inv'
<1> USE DEF Inv
<1> DEFINE eaten == isAlive[next + 1] /\ hp[FoodOf(next)] = 0
           b == IF eaten THEN Append(batch, [no |-> next, state |-> 0])
                ELSE batch
<1>0. /\ pc = "report" /\ pc' = "report"
      /\ next < NFood /\ next' = next + 1 /\ next \in 0 .. NFood - 1
      /\ UNCHANGED <<steps, match, connected, active, given, world>>
  BY DEF ReportFood, TypeInv, NFood
<1>1. hp[FoodOf(next)] \in {0, 1} /\ NFood <= MaxFood /\ NFood \in Nat
  BY <1>0 DEF FoodInv, RangesInv, NFood, TypeInv
<1>2. /\ FoodBatch(b)
      /\ isAlive' = IF eaten THEN [isAlive EXCEPT ![next + 1] = FALSE]
                    ELSE isAlive
      /\ reports' = IF eaten THEN [reports EXCEPT ![next] = @ + 1]
                    ELSE reports
  BY <1>1 DEF ReportFood, NewlyEaten, World!Alive
<1>3. /\ b \in Seq(State)
      /\ Len(b) = Len(batch) \/ (Len(b) = Len(batch) + 1 /\ b # <<>>)
      /\ b # batch => b # <<>>
      /\ \A u \in ToSet(b) : u.state \in {0, 1}
      /\ Distinct(b, next + 1)
      /\ \A view : \A n \in DOMAIN view :
           Stored(view, b)[n]
             = IF n = next /\ eaten THEN 0 ELSE Stored(view, batch)[n]
  <2>0. /\ batch \in Seq(State) /\ next \in Nat /\ Distinct(batch, next)
        /\ \A u \in ToSet(batch) : u.state \in {0, 1}
    BY <1>0 DEF TypeInv, BatchInv, SendingFood
  <2>1. CASE eaten
    <3> DEFINE s == [no |-> next, state |-> 0]
    <3>1. /\ s \in State /\ Distinct(Append(batch, s), next + 1)
          /\ \A view : \A n \in DOMAIN view :
               Stored(view, Append(batch, s))[n]
                 = IF n = next THEN 0 ELSE Stored(view, batch)[n]
      BY <2>0, StoredAppend
    <3>2. /\ Append(batch, s) \in Seq(State) /\ Append(batch, s) # <<>>
          /\ Len(Append(batch, s)) = Len(batch) + 1
          /\ ToSet(Append(batch, s)) = ToSet(batch) \cup {s}
      BY <2>0, <3>1, AppendedSet
    <3>3. b = Append(batch, s) /\ s.state = 0
      BY <2>1
    <3> QED
      BY <2>0, <2>1, <3>1, <3>2, <3>3
  <2>2. CASE ~eaten
    <3>1. Distinct(batch, next + 1)
      <4>1. \A u \in ToSet(batch) : u.no \in Nat
        <5>1. \A u \in ToSet(batch) : u \in State
          BY <2>0 DEF ToSet
        <5> QED
          BY <5>1 DEF State
      <4> QED
        BY <2>0, <4>1 DEF Distinct
    <3> QED
      BY <2>0, <2>2, <3>1
  <2> QED
    BY <2>1, <2>2
<1> HIDE DEF b
<1>5. /\ told' \in [Clients -> Told]
      /\ batch' = <<>> \/ batch' = b
      /\ FoodDue(b) => batch' = <<>>
      /\ ~FoodDue(b) => batch' = b
      /\ \A c \in Clients : told'[c].hp = told[c].hp
      /\ \A c \in active :
           Stored(told'[c].food, batch') = Stored(told[c].food, b)
  BY <1>2, <1>3, FoodBatchEffect DEF Distinct
<1>6. /\ isAlive' \in Seq(BOOLEAN) /\ Len(isAlive') = Len(isAlive)
      /\ NFood' = NFood
      /\ \A n \in 0 .. NFood - 1 : n # next => isAlive'[n + 1] = isAlive[n + 1]
      /\ isAlive'[next + 1] <=> isAlive[next + 1] /\ ~eaten
  <2>1. CASE eaten
    <3>1. isAlive \in Seq(BOOLEAN) /\ next + 1 \in DOMAIN isAlive
      BY <1>0 DEF TypeInv, NFood
    <3>2. /\ isAlive' \in Seq(BOOLEAN) /\ Len(isAlive') = Len(isAlive)
          /\ isAlive'[next + 1] = FALSE
          /\ \A j \in DOMAIN isAlive \ {next + 1} : isAlive'[j] = isAlive[j]
      BY <1>2, <2>1, <3>1, ExceptKeeps
    <3>3. \A n \in 0 .. NFood - 1 :
            n # next => n + 1 \in DOMAIN isAlive \ {next + 1}
      BY <1>0, <3>1 DEF NFood
    <3> QED
      BY <2>1, <3>2, <3>3 DEF NFood
  <2>2. CASE ~eaten
    BY <1>0, <1>2, <2>2 DEF TypeInv, NFood
  <2> QED
    BY <2>1, <2>2
<1>11. TypeInv'
  <2>1. reports' \in [0 .. MaxFood - 1 -> Nat]
    <3>1. next \in 0 .. MaxFood - 1
      BY <1>0, <1>1, MaxFoodNat
    <3>2. reports \in [0 .. MaxFood - 1 -> Nat] /\ reports[next] + 1 \in Nat
      <4>1. reports \in [0 .. MaxFood - 1 -> Nat]
        BY Zenon DEF TypeInv
      <4> QED
        BY <3>1, <4>1
    <3>3. CASE eaten
      <4>1. reports' = [reports EXCEPT ![next] = reports[next] + 1]
        BY <1>2, <3>3, Zenon
      <4> QED
        BY <3>2, <4>1
    <3>4. CASE ~eaten
      <4>1. reports' = reports
        BY <1>2, <3>4, Zenon
      <4> QED
        BY <3>2, <4>1
    <3> QED
      BY <3>3, <3>4
  <2>2. batch' \in Seq(State) /\ next' \in Nat
    <3>1. <<>> \in Seq(State) /\ next + 1 \in Nat
      BY DEF TypeInv
    <3> QED
      BY <1>0, <1>3, <1>5, <3>1, Zenon
  <2> QED
    BY <1>0, <1>5, <1>6, <2>1, <2>2 DEF TypeInv, match, given
<1>12. RangesInv'
  BY <1>0, <1>6
     DEF RangesInv, match, world, SendingFood, SendingPlayers, NFood,
                    TypeInv
<1>13. BatchInv'
  <2>1. Len(batch') < MaxFoodUpdates
    BY <1>0, <1>3, <1>5, ConstantsAssumption, EmptyBatch
       DEF FoodDue, BatchInv, SendingFood, TypeInv
  <2>2. next' = NFood' => batch' = <<>>
    BY <1>0, <1>1, <1>3, <1>5, <1>6 DEF FoodDue, TypeInv
  <2>3. \A u \in ToSet(batch') : u.state \in {0, 1}
    BY <1>3, <1>5, EmptyBatch
  <2>4. Distinct(batch', next')
    BY <1>0, <1>3, <1>5, EmptyBatch
  <2>5. next' # 0
    BY <1>0 DEF TypeInv
  <2> QED
    BY <1>0, <2>1, <2>2, <2>3, <2>4, <2>5
       DEF BatchInv, SendingFood, SendingPlayers
<1>14. FoodInv'
  <2>1. ASSUME NEW c \in Audience, NEW n \in 0 .. NFood - 1
        PROVE  Stored(told'[c].food, batch')[n]
                 = IF isAlive'[n + 1] THEN 1 ELSE 0
    <3>1. c \in active /\ c \in Clients /\ n \in DOMAIN told[c].food
      <4>1. n \in 0 .. MaxFood - 1
        BY <1>1, MaxFoodNat
      <4> QED
        BY <4>1 DEF Audience, TypeInv, Told
    <3>2. Stored(told'[c].food, batch')[n]
            = IF n = next /\ eaten THEN 0
              ELSE Stored(told[c].food, batch)[n]
      BY <1>3, <1>5, <3>1
    <3>3. Stored(told[c].food, batch)[n] = Shown(n)
      BY <1>0 DEF FoodInv
    <3> QED
      BY <1>6, <3>2, <3>3 DEF Shown
  <2>2. Audience' = Audience
    BY <1>0 DEF Audience, match
  <2>3. ASSUME NEW n \in 0 .. MaxFood - 1
        PROVE  reports'[n] = IF n < NFood /\ ~isAlive'[n + 1] THEN 1 ELSE 0
    <3>1. reports[n] = IF n < NFood /\ ~isAlive[n + 1] THEN 1 ELSE 0
      BY DEF FoodInv
    <3>2. CASE n = next /\ eaten
      BY <1>0, <1>1, <1>2, <1>6, <3>1, <3>2 DEF TypeInv
    <3>3. CASE ~(n = next /\ eaten)
      <4>1. reports'[n] = reports[n]
        BY <1>2, <3>3 DEF TypeInv
      <4>2. n < NFood => (isAlive'[n + 1] <=> isAlive[n + 1])
        BY <1>1, <1>6, <3>3
      <4> QED
        BY <3>1, <4>1, <4>2
    <3> QED
      BY <3>2, <3>3
  <2>4. ASSUME NEW n \in 0 .. NFood - 1
        PROVE  /\ ~isAlive'[n + 1] => hp[FoodOf(n)] = 0
               /\ n < next + 1 => (isAlive'[n + 1] <=> hp[FoodOf(n)] = 1)
    <3>1. /\ ~isAlive[n + 1] => hp[FoodOf(n)] = 0
          /\ n < next => (isAlive[n + 1] <=> hp[FoodOf(n)] = 1)
          /\ hp[FoodOf(n)] \in {0, 1}
      BY <1>0 DEF FoodInv
    <3>2. n < next + 1 => n < next \/ n = next
      BY <1>0, <1>1
    <3>3. CASE n = next
      BY <1>0, <1>6, <3>1, <3>3
    <3>4. CASE n # next
      BY <1>6, <3>1, <3>2, <3>4
    <3> QED
      BY <3>3, <3>4
  <2>5. \A n \in 0 .. NFood - 1 : hp[FoodOf(n)] \in {0, 1}
    BY DEF FoodInv
  <2>6. hp' = hp
    BY <1>0 DEF world
  <2> QED
    BY <1>0, <1>6, <2>1, <2>2, <2>3, <2>4, <2>5, <2>6 DEF FoodInv, Shown
<1>15. PlayerInv'
  BY <1>0 DEF PlayerInv, SendingPlayers
<1>16. AnnounceInv'
  BY <1>0, <1>5 DEF AnnounceInv, Audience, match, given
<1>17. SpriteInv'
  BY <1>0 DEF SpriteInv, World!Alive, match, world
<1> QED
  BY <1>11, <1>12, <1>13, <1>14, <1>15, <1>16, <1>17

LEMMA TellPlayersEffect ==
  ASSUME TypeInv, NEW b, TellPlayers(b),
         \A s \in ToSet(b) : s.state \in Nat,
         \A s \in ToSet(b) : \A u \in ToSet(b) : s.no = u.no => s = u
  PROVE  /\ told' \in [Clients -> Told]
         /\ \A c \in Clients : told'[c].food = told[c].food
         /\ \A c \in active : told'[c].hp = Stored(told[c].hp, b)
         /\ \A c \in Clients \ active : told'[c] = told[c]
<1> USE DEF TypeInv
<1> DEFINE D == 0 .. Cardinality(Clients) - 1
<1>1. ASSUME NEW c \in active
      PROVE  /\ told'[c] \in Told
             /\ told'[c].food = told[c].food
             /\ told'[c].hp = Stored(told[c].hp, b)
  <2>1. c \in Clients /\ told[c] \in Told
    OBVIOUS
  <2>2. told'[c] = [told[c] EXCEPT !.hp = Stored(@, b)]
    BY <2>1 DEF TellPlayers
  <2>3. Stored(told[c].hp, b) \in [D -> {Unknown} \cup Nat]
    BY <2>1 DEF Told, Stored
  <2> QED
    BY <2>1, <2>2, <2>3 DEF Told
<1>2. \A c \in Clients \ active : told'[c] = told[c]
  BY DEF TellPlayers
<1>3. told' \in [Clients -> Told]
  BY <1>1, <1>2 DEF TellPlayers
<1> QED
  BY <1>1, <1>2, <1>3

LEMMA SendPlayerKeeps ==
  ASSUME Inv, WorldProofs!IInv, WorldProofs!IInv', SendingPlayers, SendPlayer
  PROVE  Inv'
<1> USE DEF Inv
<1> DEFINE p == PlayerOf(roster[next + 1])
           b == Append(batch, PlayerState)
           due == Len(b) = MaxPlayerUpdates \/ next = Len(roster) - 1
<1>0. /\ pc \in {"player_update", "game_over"} /\ pc' = pc
      /\ next < Len(roster) /\ next' = next + 1
      /\ next \in 0 .. Len(roster) - 1
      /\ next \in 0 .. Cardinality(Clients) - 1
      /\ UNCHANGED <<steps, match, isAlive, connected, active, given, reports,
                     world>>
  <2>1. /\ pc \in {"player_update", "game_over"} /\ pc' = pc
        /\ next < Len(roster) /\ next' = next + 1
        /\ UNCHANGED <<steps, match, isAlive, connected, active, given,
                       reports, world>>
    BY DEF SendPlayer, SendingPlayers
  <2>2. next \in Nat /\ Len(roster) \in Nat /\ Len(invited) \in Nat
    BY DEF TypeInv
  <2>3. Len(roster) <= Cardinality(Clients)
    BY <2>2, MaxFoodNat DEF RangesInv
  <2> QED
    BY <2>1, <2>2, <2>3, MaxFoodNat
<1>1. /\ due => TellPlayers(b) /\ batch' = <<>>
      /\ ~due => batch' = b /\ told' = told
  BY DEF SendPlayer
<1>2. hp[p] \in Nat
  <2>1. roster[next + 1] \in Clients
    BY <1>0 DEF TypeInv
  <2> QED
    BY <2>1, WorldTypes DEF PlayerIds
<1> HIDE DEF p
<1>3. /\ PlayerState \in State
      /\ Distinct(b, next + 1)
      /\ \A view : \A n \in DOMAIN view :
           Stored(view, b)[n]
             = IF n = next THEN hp[p] ELSE Stored(view, batch)[n]
  <2>1. PlayerState = [no |-> next, state |-> hp[p]]
    BY DEF PlayerState, p
  <2>2. /\ [no |-> next, state |-> hp[p]] \in State
        /\ Distinct(Append(batch, [no |-> next, state |-> hp[p]]), next + 1)
        /\ \A view : \A n \in DOMAIN view :
             Stored(view, Append(batch, [no |-> next, state |-> hp[p]]))[n]
               = IF n = next THEN hp[p] ELSE Stored(view, batch)[n]
    BY <1>2, StoredAppend DEF TypeInv, BatchInv
  <2> QED
    BY <2>1, <2>2, Zenon
<1>4. /\ b \in Seq(State) /\ Len(b) = Len(batch) + 1
      /\ \A s \in ToSet(b) : s.no \in Nat /\ s.no <= next /\ s.state \in Nat
  <2>1. b \in Seq(State) /\ Len(b) = Len(batch) + 1
    BY <1>3, AppendedSet DEF TypeInv
  <2>2. \A s \in ToSet(b) : s \in State
    BY <2>1 DEF ToSet
  <2> QED
    BY <1>0, <1>3, <2>1, <2>2 DEF State, Distinct
<1> HIDE DEF b, due
<1>5. /\ told' \in [Clients -> Told]
      /\ batch' = <<>> \/ batch' = b
      /\ due => batch' = <<>>
      /\ \A c \in Clients : told'[c].food = told[c].food
      /\ \A c \in active : Stored(told'[c].hp, batch') = Stored(told[c].hp, b)
      /\ \A c \in Clients :
           told'[c].hp \in {told[c].hp, Stored(told[c].hp, b)}
  <2>1. CASE due
    <3>1. /\ told' \in [Clients -> Told]
          /\ \A c \in Clients : told'[c].food = told[c].food
          /\ \A c \in active : told'[c].hp = Stored(told[c].hp, b)
          /\ \A c \in Clients \ active : told'[c] = told[c]
      BY <1>1, <1>3, <1>4, <2>1, TellPlayersEffect DEF Distinct
    <3>2. \A c \in Clients : told'[c].hp
            \in [0 .. Cardinality(Clients) - 1 -> {Unknown} \cup Nat]
      BY <3>1 DEF Told
    <3>3. \A c \in Clients : Stored(told'[c].hp, <<>>) = told'[c].hp
      BY <3>2, StoredNothing
    <3> QED
      BY <1>1, <2>1, <3>1, <3>3 DEF TypeInv
  <2>2. CASE ~due
    BY <1>1, <2>2 DEF TypeInv
  <2> QED
    BY <2>1, <2>2
<1>11. TypeInv'
  <2>1. batch' \in Seq(State) /\ next' \in Nat
    <3>1. <<>> \in Seq(State) /\ next + 1 \in Nat
      BY DEF TypeInv
    <3> QED
      BY <1>0, <1>4, <1>5, <3>1, Zenon
  <2> QED
    BY <1>0, <1>5, <2>1 DEF TypeInv, match, given
<1>12. RangesInv'
  BY <1>0
     DEF RangesInv, match, world, SendingFood, SendingPlayers, NFood, TypeInv
<1>13. BatchInv'
  <2>1. Len(batch') < MaxPlayerUpdates
    <3>1. Len(batch) < MaxPlayerUpdates
      BY DEF BatchInv
    <3>2. CASE due
      BY <1>5, <3>2, ConstantsAssumption, EmptyBatch
    <3>3. CASE ~due
      BY <1>1, <1>4, <3>1, <3>3, ConstantsAssumption DEF due, TypeInv
    <3> QED
      BY <3>2, <3>3
  <2>2. next' = Len(roster') => batch' = <<>>
    BY <1>0, <1>5 DEF due, TypeInv, match
  <2>3. Distinct(batch', next')
    BY <1>0, <1>3, <1>5, EmptyBatch
  <2>4. next' # 0
    BY <1>0 DEF TypeInv
  <2> QED
    BY <1>0, <2>1, <2>2, <2>3, <2>4
       DEF BatchInv, SendingFood, SendingPlayers
<1>14. FoodInv'
  <2>1. Audience' = Audience /\ NFood' = NFood /\ hp' = hp
    BY <1>0 DEF Audience, NFood, match, world
  <2>2. \A c \in Audience : told'[c].food = told[c].food
    BY <1>5 DEF Audience, TypeInv
  <2> QED
    BY <1>0, <2>1, <2>2 DEF FoodInv, Shown
<1>15. PlayerInv'
  <2>1. ASSUME NEW c \in Audience, NEW i \in 0 .. Len(roster) - 1, i < next + 1
        PROVE  Stored(told'[c].hp, batch')[i] = hp[PlayerOf(roster[i + 1])]
    <3>1. c \in active /\ c \in Clients /\ i \in DOMAIN told[c].hp
      <4>1. i \in 0 .. Cardinality(Clients) - 1
        BY MaxFoodNat DEF RangesInv, TypeInv
      <4> QED
        BY <4>1 DEF Audience, TypeInv, Told
    <3>2. Stored(told'[c].hp, batch')[i]
            = IF i = next THEN hp[p] ELSE Stored(told[c].hp, batch)[i]
      BY <1>3, <1>5, <3>1
    <3>3. i # next => i < next
      BY <2>1, <1>0
    <3>4. i # next =>
            Stored(told[c].hp, batch)[i] = hp[PlayerOf(roster[i + 1])]
      BY <3>3 DEF PlayerInv
    <3> QED
      BY <3>2, <3>4 DEF p
  <2>2. Audience' = Audience /\ roster' = roster /\ hp' = hp
    BY <1>0 DEF Audience, match, world
  <2> QED
    BY <1>0, <2>1, <2>2 DEF PlayerInv, SendingPlayers
<1>16. AnnounceInv'
  <2>1. ASSUME NEW c \in Clients, NEW i \in 0 .. Cardinality(Clients) - 1,
               told'[c].hp[i] # Unknown
        PROVE  i < Len(roster)
    <3>1. told[c].hp[i] # Unknown => i < Len(roster)
      BY DEF AnnounceInv
    <3>2. CASE told'[c].hp = told[c].hp
      BY <2>1, <3>1, <3>2
    <3>3. CASE told'[c].hp = Stored(told[c].hp, b)
      <4>1. i \in DOMAIN told[c].hp
        BY DEF TypeInv, Told
      <4>2. CASE \E s \in ToSet(b) : s.no = i
        BY <1>0, <1>4, <4>2
      <4>3. CASE \A s \in ToSet(b) : s.no # i
        <5>1. Stored(told[c].hp, b)[i] = told[c].hp[i]
          BY <1>3, <4>1, <4>3, StoredState
        <5> QED
          BY <2>1, <3>1, <3>3, <5>1
      <4> QED
        BY <4>2, <4>3
    <3> QED
      BY <1>5, <3>2, <3>3
  <2> QED
    BY <1>0, <2>1 DEF AnnounceInv, Audience, match, given
<1>17. SpriteInv'
  BY <1>0 DEF SpriteInv, World!Alive, match, world
<1> QED
  BY <1>11, <1>12, <1>13, <1>14, <1>15, <1>16, <1>17

LEMMA WorldStepKeeps ==
  ASSUME Inv, WorldProofs!IInv, WorldProofs!IInv',
         StartStep \/ InStep \/ EndStep
  PROVE  Inv'
<1> USE DEF Inv
<1>0. /\ pc = "world" /\ pc' = "world"
      /\ UNCHANGED <<next, match, isAlive, batch, net, reports>>
  BY DEF StartStep, InStep, EndStep
<1>1. players' = players /\ food' = food
  BY DEF StartStep, InStep, EndStep, World!StartStep, World!Simulate,
         World!Update, World!PlayersMeet, World!PlayerMeetsFood,
         World!FoodMeetsBoundaries, World!PlayersPart, World!HandleOngoing,
         World!ListContacts, World!objects
<1>2. /\ steps' \in 0 .. StepsPerMove
      /\ steps' = StepsPerMove => stage' = "idle"
  <2>1. CASE StartStep
    BY <2>1 DEF StartStep, TypeInv
  <2>2. CASE EndStep
    <3>1. stage = "ongoing" /\ stage' = "idle" /\ steps' = steps + 1
      BY <2>2 DEF EndStep, World!Update
    <3>2. steps # StepsPerMove
      BY <3>1 DEF RangesInv
    <3> QED
      BY <3>1, <3>2, ConstantsAssumption DEF TypeInv
  <2>3. CASE InStep
    <3>1. stage # "idle" /\ steps' = steps
      BY <2>3 DEF InStep, World!Simulate, World!PlayersMeet,
                  World!PlayerMeetsFood, World!FoodMeetsBoundaries,
                  World!PlayersPart, World!HandleOngoing, World!ListContacts
    <3>2. steps # StepsPerMove
      BY <3>1 DEF RangesInv
    <3> QED
      BY <3>1, <3>2 DEF TypeInv
  <2> QED
    BY <2>1, <2>2, <2>3
<1>3. \A n \in 0 .. NFood - 1 : hp'[FoodOf(n)] \in {hp[FoodOf(n)], 0}
  BY FoodOnlyLoses DEF RangesInv, Next, Update
<1>11. TypeInv'
  BY <1>0, <1>2 DEF TypeInv, match, net, given
<1>12. RangesInv'
  BY <1>0, <1>1, <1>2
     DEF RangesInv, match, net, SendingFood, SendingPlayers, NFood
<1>13. BatchInv'
  BY <1>0 DEF BatchInv, SendingFood, SendingPlayers
<1>14. FoodInv'
  <2>1. Audience' = Audience /\ NFood' = NFood /\ told' = told
    BY <1>0 DEF Audience, NFood, match, net
  <2>2. \A n \in 0 .. NFood - 1 : hp'[FoodOf(n)] \in {0, 1}
    BY <1>3 DEF FoodInv
  <2>3. \A n \in 0 .. NFood - 1 : ~isAlive[n + 1] => hp'[FoodOf(n)] = 0
    BY <1>3 DEF FoodInv
  <2> QED
    BY <1>0, <2>1, <2>2, <2>3 DEF FoodInv, Shown
<1>15. PlayerInv'
  BY <1>0 DEF PlayerInv, SendingPlayers
<1>16. AnnounceInv'
  BY <1>0 DEF AnnounceInv, Audience, match, net, given
<1>17. SpriteInv'
  BY <1>0 DEF SpriteInv, match
<1> QED
  BY <1>11, <1>12, <1>13, <1>14, <1>15, <1>16, <1>17

LEMMA InitInv == Init => Inv
<1> SUFFICES ASSUME Init PROVE Inv
  OBVIOUS
<1>1. TypeInv
  <2>1. /\ <<>> \in Seq(Clients) /\ <<>> \in Seq(BOOLEAN)
        /\ <<>> \in Seq(State)
        /\ 0 \in 0 .. StepsPerMove /\ 0 \in 0 .. Cardinality(Clients)
    BY ConstantsAssumption, MaxFoodNat
  <2>2. told \in [Clients -> Told]
    BY DEF Init, Told
  <2> QED
    BY <2>1, <2>2 DEF Init, TypeInv, PC
<1>2. RangesInv
  BY MaxFoodNat, EmptyBatch
     DEF Init, RangesInv, SendingFood, SendingPlayers, NFood, World!Init
<1>3. BatchInv
  BY EmptyBatch DEF Init, BatchInv, SendingFood, SendingPlayers
<1>4. FoodInv
  BY EmptyBatch DEF Init, FoodInv, NFood, Shown
<1>5. PlayerInv
  BY DEF Init, PlayerInv, SendingPlayers
<1>6. AnnounceInv
  BY DEF Init, AnnounceInv
<1>7. SpriteInv
  BY EmptyBatch DEF Init, SpriteInv
<1> QED
  BY <1>1, <1>2, <1>3, <1>4, <1>5, <1>6, <1>7 DEF Inv

LEMMA NextInv ==
  WorldProofs!IInv /\ WorldProofs!IInv' /\ Inv /\ [Next]_vars => Inv'
<1> SUFFICES ASSUME WorldProofs!IInv, WorldProofs!IInv', Inv, [Next]_vars
             PROVE  Inv'
  OBVIOUS
<1>1. CASE \E c \in Clients : Accept(c) \/ Leave(c)
  BY <1>1, AcceptKeeps, LeaveKeeps
<1>2. CASE NewMatch \/ ListClients \/ Invite \/ EndInvite
  BY <1>2, NewMatchKeeps, ListClientsKeeps, InviteKeeps, EndInviteKeeps
<1>3. CASE PlaceFood \/ StartMatch \/ SendFood \/ EndSendFood
  BY <1>3, PlaceFoodKeeps, StartMatchKeeps, SendFoodKeeps, EndSendFoodKeeps
<1>4. CASE UpdatePlayers
  BY <1>4, SendPlayerKeeps, EndSendPlayersKeeps
     DEF UpdatePlayers, SendingPlayers
<1>5. CASE GameOver
  BY <1>5, SendPlayerKeeps, EndSendPlayersKeeps DEF GameOver, SendingPlayers
<1>6. CASE Move \/ StartStep \/ InStep \/ EndStep \/ UpdateSprites
  BY <1>6, MoveKeeps, WorldStepKeeps, UpdateSpritesKeeps
<1>7. CASE ReportFood \/ EndReport \/ Finish
  BY <1>7, ReportFoodKeeps, EndReportKeeps, FinishKeeps
<1>8. CASE UNCHANGED vars
  BY <1>8, StutterKeeps
<1> QED
  BY <1>1, <1>2, <1>3, <1>4, <1>5, <1>6, <1>7, <1>8 DEF Next, Update

LEMMA Invariance == Spec => [](Inv /\ WorldProofs!IInv)
BY InitInv, NextInv, WorldInvariance, PTL DEF Spec

(***************************************************************************)
(* The theorems.                                                           *)
(***************************************************************************)

\* Every variable keeps its type; the bound on the loop index is a coarse one.
THEOREM TypeCorrect == Spec => []TypeOK
<1>1. Inv /\ WorldProofs!IInv => TypeOK
  <2> SUFFICES ASSUME Inv, WorldProofs!IInv PROVE TypeOK
    OBVIOUS
  <2>1. next \in 0 .. MaxFood + Cardinality(Clients)
    <3>1. /\ next \in Nat /\ NFood \in Nat
          /\ Len(roster) \in Nat /\ Len(invited) \in Nat
      BY DEF Inv, TypeInv, NFood
    <3>2. next <= MaxFood \/ next <= Cardinality(Clients)
      <4>1. \/ next = 0 \/ next <= Len(invited) \/ next = NFood
            \/ next <= NFood \/ next <= Len(roster)
        BY DEF Inv, TypeInv, PC, RangesInv, SendingFood, SendingPlayers
      <4> QED
        BY <3>1, <4>1, MaxFoodNat DEF Inv, RangesInv
    <3> QED
      BY <3>1, <3>2, MaxFoodNat
  <2> QED
    BY <2>1, WorldTypes DEF Inv, TypeInv, TypeOK
<1> QED
  BY <1>1, Invariance, PTL

\* The loops of Game::update run over no more than the clients listed, the
\* players that joined and the food placed; every player and every piece they
\* come to is in the world.
THEOREM RangesCorrect == Spec => []RangesInv
BY Invariance, PTL DEF Inv

\* No update request holds more states than its packet has room for, and none
\* is sent too late (amcom_transactions.h: addPlayer, addFood).
THEOREM BatchesCorrect == Spec => []BatchFits
<1>1. Inv => BatchFits
  <2> SUFFICES ASSUME Inv PROVE BatchFits
    OBVIOUS
  <2>1. CASE SendingFood
    BY <2>1 DEF Inv, BatchInv, BatchFits, SendingFood
  <2>2. CASE ~SendingFood
    BY <2>2, EmptyBatch, ConstantsAssumption
       DEF Inv, BatchInv, BatchFits, SendingFood
  <2> QED
    BY <2>1, <2>2
<1> QED
  BY <1>1, Invariance, PTL

\* Before a MOVE request every client of the match knows which food is left,
\* for every number of clients and pieces, and every limit of the packets.
THEOREM FoodViewCorrect == Spec => []FoodViewExact
<1>1. Inv => FoodViewExact
  <2> SUFFICES ASSUME Inv, pc = "move",
                      NEW c \in Audience, NEW n \in 0 .. NFood - 1
               PROVE  told[c].food[n]
                        = IF World!Alive(FoodOf(n)) THEN 1 ELSE 0
    BY DEF FoodViewExact
  <2> QED
    BY DEF Inv, FoodInv, Shown, World!Alive
<1> QED
  BY <1>1, Invariance, PTL

\* It knows everybody's hitpoints then, and when it is told of the game's end.
THEOREM PlayerViewCorrect == Spec => []PlayerViewExact
<1>1. Inv => PlayerViewExact
  BY DEF Inv, PlayerInv, PlayerViewExact
<1> QED
  BY <1>1, Invariance, PTL

\* Food::updateSprite reports each piece once, after the step it was eaten in.
THEOREM ReportsCorrect == Spec => []EatenReportedOnce
<1>1. Inv => EatenReportedOnce
  <2> SUFFICES ASSUME Inv PROVE EatenReportedOnce
    OBVIOUS
  <2>1. \A n \in DOMAIN reports : reports[n] <= 1
    BY DEF Inv, TypeInv, FoodInv
  <2>2. ASSUME pc = "move", NEW n \in 0 .. NFood - 1
        PROVE  reports[n] = 1 <=> ~World!Alive(FoodOf(n))
    <3>1. n \in 0 .. MaxFood - 1 /\ n < NFood
      BY MaxFoodNat DEF Inv, TypeInv, RangesInv, NFood
    <3>2. /\ hp[FoodOf(n)] \in {0, 1}
          /\ isAlive[n + 1] <=> hp[FoodOf(n)] = 1
          /\ reports[n] = IF ~isAlive[n + 1] THEN 1 ELSE 0
      BY <2>2, <3>1 DEF Inv, FoodInv
    <3> QED
      BY <3>2 DEF World!Alive
  <2> QED
    BY <2>1, <2>2 DEF EatenReportedOnce
<1> QED
  BY <1>1, Invariance, PTL

\* No client hears of more players than NEW_GAME announced to it.
THEOREM AnnouncementCorrect == Spec => []AnnouncedCovers
<1>1. Inv => AnnouncedCovers
  <2> SUFFICES ASSUME Inv, NEW c \in Audience,
                      NEW i \in 0 .. Cardinality(Clients) - 1,
                      told[c].hp[i] # Unknown
               PROVE  i < announced[c]
    BY DEF AnnouncedCovers
  <2>1. c \in Clients /\ i < Len(roster) /\ Len(roster) <= Len(invited)
    BY DEF Inv, AnnounceInv, Audience, TypeInv, RangesInv
  <2>2. pc \notin {"main_menu", "new_game", "invite"}
    BY <2>1, EmptyBatch DEF Inv, AnnounceInv, RangesInv
  <2>3. announced[c] = Len(invited)
    BY <2>2 DEF Inv, AnnounceInv
  <2> QED
    BY <2>1, <2>3 DEF Inv, TypeInv
<1> QED
  BY <1>1, Invariance, PTL

\* What a client was last told of a player, and what main shows of it: nothing
\* is told before the first request; during a MOVE phase the two agree unless
\* the player is dead already; after it they agree for those it has killed.
ShownInv ==
  \A c \in Audience, i \in 0 .. Len(roster) - 1 :
    /\ pc \in {"place_food", "food_update"} => told[c].hp[i] = Unknown
    /\ pc = "world" /\ told[c].hp[i] > 0
         => lastHp[roster[i + 1]] = told[c].hp[i]
    /\ pc = "report" \/ (pc = "player_update" /\ next = 0)
         => (~World!Alive(PlayerOf(roster[i + 1])) /\ told[c].hp[i] > 0
               => lastHp[roster[i + 1]] = told[c].hp[i])

\* Every step keeps that; the phases in which it says nothing are left out.
LEMMA NextShown ==
  ASSUME Inv, Inv', WorldProofs!IInv, ShownInv, [Next]_vars
  PROVE  ShownInv'
<1> USE DEF match, net, given, world
<1>0. ASSUME pc' \notin {"place_food", "food_update", "world", "report"},
             pc' = "player_update" => next' # 0
      PROVE  ShownInv'
  <2> SUFFICES ASSUME NEW c \in Audience', NEW i \in (0 .. Len(roster) - 1)'
               PROVE  /\ pc' \notin {"place_food", "food_update"}
                      /\ pc' # "world"
                      /\ ~(pc' = "report" \/ (pc' = "player_update" /\ next' = 0))
    BY Zenon DEF ShownInv
  <2> QED
    BY <1>0
<1>15. \A i \in 0 .. Len(roster) - 1 :
         i + 1 \in DOMAIN roster /\ roster[i + 1] \in Clients
  <2>1. roster \in Seq(Clients)
    BY DEF Inv, TypeInv
  <2> QED
    BY <2>1
<1>1. CASE UNCHANGED vars
  BY <1>1 DEF vars, ShownInv, Audience, World!Alive
<1>2. ASSUME NEW c \in Clients, Accept(c)
      PROVE  ShownInv'
  <2>1. Audience' = Audience
    BY <1>2 DEF Accept, Audience, Inv, RangesInv
  <2> QED
    BY <1>2, <2>1 DEF Accept, ShownInv, World!Alive
<1>3. ASSUME NEW c \in Clients, Leave(c)
      PROVE  ShownInv'
  BY <1>3 DEF Leave, ShownInv, Audience, World!Alive
<1>4. CASE NewMatch \/ ListClients \/ Invite
  BY <1>0, <1>4 DEF NewMatch, ListClients, Invite
<1>5. CASE EndInvite
  <2>1. /\ pc = "invite" /\ pc' = "place_food" /\ told' = told
        /\ roster' = roster /\ Audience' = Audience
    BY <1>5 DEF EndInvite, Audience
  <2>2. \A c \in Audience, i \in 0 .. Len(roster) - 1 :
          c \in Clients /\ i \in 0 .. Cardinality(Clients) - 1
    BY MaxFoodNat DEF Inv, RangesInv, TypeInv, Audience
  <2> QED
    BY <2>1, <2>2 DEF ShownInv, Inv, AnnounceInv
<1>6. CASE PlaceFood \/ StartMatch
  BY <1>6 DEF PlaceFood, StartMatch, ShownInv, Audience
<1>7. CASE SendFood \/ ReportFood
  <2>1. /\ pc' = pc /\ pc \in {"food_update", "report"}
        /\ UNCHANGED <<match, active, hp>>
    BY <1>7 DEF SendFood, ReportFood
  <2>2. ASSUME NEW c \in Clients PROVE told'[c].hp = told[c].hp
    <3>1. \A b : FoodBatch(b) => told'[c].hp = told[c].hp
      BY DEF FoodBatch, TellFood, Inv, TypeInv, Told
    <3> QED
      BY <1>7, <3>1 DEF SendFood, ReportFood
  <2>3. Audience' = Audience /\ Audience \subseteq Clients
    BY <2>1 DEF Audience, Inv, TypeInv
  <2>4. \A c \in Audience, i \in 0 .. Len(roster) - 1 :
          told'[c].hp[i] = told[c].hp[i]
    BY <2>2, <2>3
  <2>5. roster' = roster /\ lastHp' = lastHp /\ hp' = hp
    BY <2>1
  <2> QED
    BY <2>1, <2>3, <2>4, <2>5 DEF ShownInv, World!Alive
<1>8. CASE EndSendFood
  BY <1>8 DEF EndSendFood, ShownInv, Audience, Unknown
<1>9. CASE UpdatePlayers \/ GameOver
  <2>1. \/ pc' \in {"move", "game_end", "game_over"}
        \/ pc' = "player_update" /\ next' = next + 1 /\ next \in Nat
    BY <1>9 DEF UpdatePlayers, GameOver, SendPlayer, EndSendPlayers, Inv,
                TypeInv
  <2> QED
    BY <1>0, <2>1
<1>10. CASE Move
  <2>1. /\ pc = "move" /\ pc' = "world"
        /\ UNCHANGED <<told, roster, lastHp>> /\ Audience' = Audience
    BY <1>10 DEF Move, Audience
  <2>2. ASSUME NEW c \in Audience, NEW i \in 0 .. Len(roster) - 1,
               told[c].hp[i] > 0
        PROVE  lastHp[roster[i + 1]] = told[c].hp[i]
    <3>1. told[c].hp[i] = hp[PlayerOf(roster[i + 1])]
      BY <2>1 DEF Inv, PlayerInv
    <3>2. i + 1 \in DOMAIN roster
      BY <1>15
    <3> QED
      BY <2>1, <2>2, <3>1, <3>2 DEF Inv, SpriteInv, World!Alive
  <2> QED
    BY <2>1, <2>2 DEF ShownInv
<1>11. CASE StartStep \/ InStep \/ EndStep
  BY <1>11 DEF StartStep, InStep, EndStep, ShownInv, Audience
<1>12. CASE UpdateSprites
  <2>1. /\ pc = "world" /\ pc' = "report"
        /\ UNCHANGED <<told, roster, hp>> /\ Audience' = Audience
    BY <1>12 DEF UpdateSprites, Audience
  <2>2. \A d \in Clients :
          ~World!Alive(PlayerOf(d)) => lastHp'[d] = lastHp[d]
    BY <1>12 DEF UpdateSprites, Refreshed
  <2>3. \A i \in 0 .. Len(roster) - 1 : roster[i + 1] \in Clients
    BY <1>15
  <2> QED
    BY <2>1, <2>2, <2>3 DEF ShownInv, World!Alive
<1>13. CASE EndReport
  BY <1>13 DEF EndReport, ShownInv, Audience, World!Alive
<1>14. CASE Finish
  BY <1>0, <1>14 DEF Finish
<1> QED
  BY <1>1, <1>2, <1>3, <1>4, <1>5, <1>6, <1>7, <1>8, <1>9, <1>10, <1>11,
     <1>12, <1>13, <1>14 DEF Next, Update

\* What main shows of a player after a MOVE phase are its hitpoints or, when it
\* was eaten in that phase, those the clients had been told before it.
THEOREM DisplayCorrect == Spec => []ShowsHp
<1>1. Inv /\ ShownInv => ShowsHp
  <2> SUFFICES ASSUME Inv, ShownInv, pc = "player_update", next = 0,
                      NEW i \in 0 .. Len(roster) - 1
               PROVE  LET c == roster[i + 1]
                      IN  IF World!Alive(PlayerOf(c))
                          THEN lastHp[c] = hp[PlayerOf(c)]
                          ELSE /\ lastHp[c] > 0
                               /\ \A d \in Audience :
                                    told[d].hp[i] > 0
                                      => lastHp[c] = told[d].hp[i]
    BY DEF ShowsHp
  <2>1. i + 1 \in DOMAIN roster
    BY DEF Inv, TypeInv
  <2> QED
    BY <2>1 DEF Inv, SpriteInv, ShownInv
<1>2. Init => ShownInv
  BY DEF Init, ShownInv
<1>3. Inv /\ Inv' /\ WorldProofs!IInv /\ ShownInv /\ [Next]_vars => ShownInv'
  BY NextShown
<1> QED
  BY <1>1, <1>2, <1>3, Invariance, PTL DEF Spec

\* A match has a survivor from its first player on, no order of the contacts
\* heals a player that was eaten, and the hitpoints of the match are those of
\* the players NEW_GAME let in and the food placed for them, less what the
\* boundaries took.
THEOREM MatchCorrect ==
  Spec => /\ [](World!SomebodyLives /\ World!Conservation)
          /\ World!DeadStayDead
<1>1. World!Spec => WorldProofs!Spec
  <2>1. World!Init => WorldProofs!Init
    BY DEF World!Init, WorldProofs!Init, World!Objects, WorldProofs!Objects
  <2> QED
    BY <2>1, SameStep, PTL DEF World!Spec, WorldProofs!Spec
<1>2. WorldProofs!SomebodyLives => World!SomebodyLives
  BY DEF WorldProofs!SomebodyLives, World!SomebodyLives, World!Alive,
         WorldProofs!Alive
<1>3. WorldProofs!Conservation => World!Conservation
  BY DEF WorldProofs!Conservation, World!Conservation, World!PlayerHP,
         WorldProofs!PlayerHP, World!FoodHP, WorldProofs!FoodHP,
         World!Objects, WorldProofs!Objects,
         World!MapThenSumSet, WorldProofs!MapThenSumSet,
         World!MapThenFoldSet, WorldProofs!MapThenFoldSet,
         World!Cardinality, WorldProofs!Cardinality
<1>4. [\A o \in players \cup food : ~WorldProofs!Alive(o) => hp'[o] = 0]_(
        WorldProofs!vars)
      => [\A o \in players \cup food : ~World!Alive(o) => hp'[o] = 0]_(
           World!vars)
  BY DEF World!Alive, WorldProofs!Alive, World!vars, WorldProofs!vars,
         World!objects, WorldProofs!objects
<1>5. WorldProofs!Spec => []WorldProofs!SomebodyLives
  BY WorldAssumption, WorldProofs!SurvivorCorrect
<1>6. WorldProofs!Spec => []WorldProofs!Conservation
  BY WorldAssumption, WorldProofs!ConservationCorrect
<1>7. WorldProofs!Spec => WorldProofs!DeadStayDead
  BY WorldAssumption, WorldProofs!DeathIsFinal
<1> QED
  BY <1>1, <1>2, <1>3, <1>4, <1>5, <1>6, <1>7, WorldCorrect, PTL
     DEF World!DeadStayDead, WorldProofs!DeadStayDead

(***************************************************************************)
(* Player numbers, and who has won.                                        *)
(***************************************************************************)

\* The clients that NEW_GAME has been sent to, as an index of invited.
Asked == IF pc = "invite" THEN next ELSE Len(invited)

\* The players joined in the order of their client ids; each is known by the
\* place it was invited at.
OrderInv ==
  /\ players = {PlayerOf(roster[i]) : i \in DOMAIN roster}
  /\ \A j, k \in DOMAIN invited : j < k => invited[j] < invited[k]
  /\ \A i \in DOMAIN roster :
       \E k \in 1 .. Asked :
         i <= k /\ roster[i] = invited[k] /\ number[roster[i]] = k - 1
  /\ \A i, j \in DOMAIN roster :
       i < j => number[roster[i]] < number[roster[j]]
  /\ Len(roster) = Asked => NumbersAgree

LEMMA InitOrder == Init => OrderInv
BY EmptyBatch DEF Init, OrderInv, NumbersAgree, World!Init

LEMMA InviteOrder ==
  ASSUME Inv, OrderInv, Invite
  PROVE  OrderInv'
<1> DEFINE c == invited[next + 1]
<1> USE DEF Inv
<1>1. /\ pc = "invite" /\ pc' = "invite" /\ next < Len(invited)
      /\ Announce(c) /\ (Joins(c) \/ StaysOut)
      /\ next' = next + 1 /\ invited' = invited /\ active' = active
  BY DEF Invite
<1>2. /\ next \in Nat /\ Len(invited) \in Nat /\ Len(roster) \in Nat
      /\ DOMAIN invited = 1 .. Len(invited)
      /\ DOMAIN roster = 1 .. Len(roster)
      /\ Len(roster) <= next /\ next + 1 \in DOMAIN invited
      /\ Asked = next /\ Asked' = next + 1
      /\ \A k \in DOMAIN invited : invited[k] \in Nat /\ invited[k] \in Clients
  <2>1. /\ next \in Nat /\ Len(invited) \in Nat /\ Len(roster) \in Nat
        /\ DOMAIN invited = 1 .. Len(invited)
        /\ DOMAIN roster = 1 .. Len(roster)
    BY DEF TypeInv
  <2>2. Len(roster) <= next /\ next + 1 \in DOMAIN invited
    BY <1>1, <2>1 DEF RangesInv
  <2>3. Asked = next /\ Asked' = next + 1
    BY <1>1 DEF Asked
  <2>4. \A k \in DOMAIN invited : invited[k] \in Nat /\ invited[k] \in Clients
    <3>1. \A k \in DOMAIN invited : invited[k] \in Clients
      BY DEF TypeInv
    <3>2. Clients \subseteq Nat
      BY ConstantsAssumption
    <3> QED
      BY <3>1, <3>2
  <2> QED
    BY <2>1, <2>2, <2>3, <2>4
<1>3. \A i \in DOMAIN roster : roster[i] # c
  <2> TAKE i \in DOMAIN roster
  <2>1. PICK k \in 1 .. next : roster[i] = invited[k]
    BY <1>2 DEF OrderInv
  <2>2. k \in DOMAIN invited /\ k < next + 1
    BY <1>2, <2>1
  <2>3. invited[k] < invited[next + 1]
    BY <1>2, <2>2 DEF OrderInv
  <2> QED
    BY <1>2, <2>1, <2>2, <2>3
<1>4. /\ \A i \in DOMAIN roster : number'[roster[i]] = number[roster[i]]
      /\ c \in active => number'[c] = next
  BY <1>1, <1>2, <1>3 DEF Announce, given, TypeInv
<1> HIDE DEF c
<1>5. \A j, k \in DOMAIN invited' : j < k => invited'[j] < invited'[k]
  BY <1>1 DEF OrderInv
<1>6. CASE StaysOut
  <2>1. roster' = roster /\ players' = players
    BY <1>6 DEF StaysOut, world
  <2>2. ASSUME NEW i \in DOMAIN roster
        PROVE  \E k \in 1 .. Asked' :
                 /\ i <= k /\ roster[i] = invited[k]
                 /\ number'[roster[i]] = k - 1
    <3>1. PICK k \in 1 .. next :
            i <= k /\ roster[i] = invited[k] /\ number[roster[i]] = k - 1
      BY <1>2 DEF OrderInv
    <3>2. k \in 1 .. Asked'
      BY <1>2, <3>1
    <3> QED
      BY <1>4, <3>1, <3>2
  <2>3. ASSUME NEW i \in DOMAIN roster, NEW j \in DOMAIN roster, i < j
        PROVE  number'[roster[i]] < number'[roster[j]]
    BY <1>4, <2>3 DEF OrderInv
  <2>4. Len(roster') # Asked'
    <3>1. Len(roster) <= next /\ Len(roster) \in Nat /\ next \in Nat
      BY <1>2
    <3>2. Len(roster) # next + 1
      BY <3>1
    <3> QED
      BY <1>2, <2>1, <3>2
  <2> QED
    BY <1>1, <1>5, <2>1, <2>2, <2>3, <2>4 DEF OrderInv
<1>7. CASE Joins(c)
  <2>1. /\ c \in active /\ roster' = Append(roster, c)
        /\ players' = players \cup {PlayerOf(c)}
    BY <1>7 DEF Joins, World!AddPlayer
  <2>2. /\ DOMAIN roster' = 1 .. Len(roster) + 1
        /\ Len(roster') = Len(roster) + 1
        /\ roster'[Len(roster) + 1] = c
        /\ \A i \in DOMAIN roster : roster'[i] = roster[i]
    BY <1>2, <2>1 DEF TypeInv, c
  <2>3. players' = {PlayerOf(roster'[i]) : i \in DOMAIN roster'}
    BY <1>2, <2>1, <2>2 DEF OrderInv
  <2>4. ASSUME NEW i \in DOMAIN roster
        PROVE  \E k \in 1 .. next :
                 /\ i <= k /\ roster'[i] = invited[k]
                 /\ number'[roster'[i]] = k - 1
    <3>1. PICK k \in 1 .. next :
            i <= k /\ roster[i] = invited[k] /\ number[roster[i]] = k - 1
      BY <1>2 DEF OrderInv
    <3> QED
      BY <1>4, <2>2, <3>1
  <2>5. /\ roster'[Len(roster) + 1] = invited[next + 1]
        /\ number'[roster'[Len(roster) + 1]] = next
        /\ Len(roster) + 1 <= next + 1
    BY <1>2, <1>4, <2>1, <2>2 DEF c
  <2>6. ASSUME NEW i \in DOMAIN roster'
        PROVE  \E k \in 1 .. Asked' :
                 /\ i <= k /\ roster'[i] = invited'[k]
                 /\ number'[roster'[i]] = k - 1
    <3>1. CASE i \in DOMAIN roster
      BY <1>1, <1>2, <2>4, <3>1
    <3>2. CASE i = Len(roster) + 1
      <4>1. next + 1 \in 1 .. Asked' /\ next = (next + 1) - 1
        BY <1>2
      <4> QED
        BY <1>1, <2>5, <3>2, <4>1
    <3> QED
      BY <1>2, <2>2, <3>1, <3>2
  <2>7. ASSUME NEW i \in DOMAIN roster', NEW j \in DOMAIN roster', i < j
        PROVE  number'[roster'[i]] < number'[roster'[j]]
    <3>1. i \in DOMAIN roster
      BY <1>2, <2>2, <2>7
    <3>2. CASE j \in DOMAIN roster
      BY <1>4, <2>2, <2>7, <3>1, <3>2 DEF OrderInv
    <3>3. CASE j = Len(roster) + 1
      <4>1. PICK k \in 1 .. next : number'[roster'[i]] = k - 1
        BY <2>4, <3>1
      <4> QED
        BY <1>2, <2>5, <3>3, <4>1
    <3> QED
      BY <1>2, <2>2, <3>2, <3>3
  <2>8. ASSUME Len(roster') = Asked'
        PROVE  NumbersAgree'
    <3>1. Len(roster) = next
      <4>1. Len(roster) + 1 = next + 1
        BY <1>2, <2>2, <2>8
      <4>2. Len(roster) \in Nat /\ next \in Nat
        BY <1>2
      <4> QED
        BY <4>1, <4>2
    <3>2. \A i \in 1 .. Len(roster) : number[roster[i]] = i - 1
      BY <1>2, <3>1 DEF OrderInv, NumbersAgree
    <3>3. ASSUME NEW i \in 1 .. Len(roster')
          PROVE  number'[roster'[i]] = i - 1
      <4>1. CASE i \in 1 .. Len(roster)
        BY <1>2, <1>4, <2>2, <3>2, <4>1
      <4>2. CASE i = Len(roster) + 1
        BY <1>2, <2>5, <3>1, <4>2
      <4> QED
        BY <1>2, <2>2, <4>1, <4>2
    <3> QED
      BY <3>3 DEF NumbersAgree
  <2> QED
    BY <1>5, <2>3, <2>6, <2>7, <2>8 DEF OrderInv
<1> QED
  BY <1>1, <1>6, <1>7

LEMMA NextOrder == Inv /\ OrderInv /\ [Next]_vars => OrderInv'
<1> SUFFICES ASSUME Inv, OrderInv, [Next]_vars PROVE OrderInv'
  OBVIOUS
<1>1. CASE /\ UNCHANGED <<roster, invited, number, players>>
           /\ Asked' = Asked \/ (roster = <<>> /\ invited = <<>>)
  <2>1. CASE Asked' = Asked
    BY <1>1, <2>1 DEF OrderInv, NumbersAgree
  <2>2. CASE roster = <<>> /\ invited = <<>>
    BY <1>1, <2>2, EmptyBatch DEF OrderInv, NumbersAgree
  <2> QED
    BY <1>1, <2>1, <2>2
<1>2. ASSUME pc # "invite", pc' # "invite", UNCHANGED <<match, given, players>>
      PROVE  OrderInv'
  <2>1. Asked' = Asked
    BY <1>2 DEF Asked, match
  <2> QED
    BY <1>1, <1>2, <2>1 DEF match, given
<1>3. CASE \E c \in Clients : Accept(c) \/ Leave(c)
  <2>1. UNCHANGED <<pc, next, match, given, players>>
    BY <1>3 DEF Accept, Leave, world
  <2>2. Asked' = Asked
    BY <2>1 DEF Asked, match
  <2> QED
    BY <1>1, <2>1, <2>2 DEF match, given
<1>4. CASE NewMatch
  <2>1. /\ pc = "main_menu" /\ pc' = "new_game"
        /\ UNCHANGED <<roster, invited, given, players>>
    BY <1>4 DEF NewMatch, world
  <2>2. Asked' = Asked
    BY <2>1 DEF Asked
  <2> QED
    BY <1>1, <2>1, <2>2 DEF given
<1>5. CASE ListClients
  <2>1. /\ pc = "new_game" /\ roster = <<>> /\ roster' = <<>>
        /\ invited' \in InOrder(connected) /\ players' = players
    BY <1>5 DEF ListClients, Inv, RangesInv, world
  <2>2. \A j, k \in DOMAIN invited' : j < k => invited'[j] < invited'[k]
    BY <2>1 DEF InOrder
  <2>3. DOMAIN roster' = {} /\ DOMAIN roster = {} /\ Len(roster') = 0
    BY <2>1
  <2>4. players' = {PlayerOf(roster'[i]) : i \in DOMAIN roster'}
    BY <2>1, <2>3 DEF OrderInv
  <2>5. NumbersAgree'
    BY <2>3 DEF NumbersAgree
  <2> QED
    BY <2>2, <2>3, <2>4, <2>5 DEF OrderInv
<1>6. CASE Invite
  BY <1>6, InviteOrder
<1>7. CASE EndInvite
  <2>1. /\ pc = "invite" /\ pc' = "place_food" /\ next = Len(invited)
        /\ UNCHANGED <<match, given, players>>
    BY <1>7 DEF EndInvite, net, world
  <2>2. Asked' = Asked
    BY <2>1 DEF Asked, match
  <2> QED
    BY <1>1, <2>1, <2>2 DEF match, given
<1>8. CASE PlaceFood \/ StartMatch
  BY <1>2, <1>8 DEF PlaceFood, StartMatch, World!AddFood, net, world
<1>9. CASE SendFood \/ EndSendFood \/ UpdatePlayers \/ GameOver
  BY <1>2, <1>9 DEF SendFood, EndSendFood, UpdatePlayers, GameOver, SendPlayer,
                    EndSendPlayers, net, world
<1>10. CASE StartStep \/ InStep \/ EndStep
  <2>1. /\ pc = "world" /\ pc' = "world"
        /\ UNCHANGED <<match, given>> /\ players' = players
    BY <1>10
       DEF StartStep, InStep, EndStep, net, World!StartStep, World!Simulate,
           World!Update, World!PlayersMeet, World!PlayerMeetsFood,
           World!FoodMeetsBoundaries, World!PlayersPart, World!HandleOngoing,
           World!ListContacts, World!objects
  <2> QED
    BY <1>2, <2>1
<1>11. CASE Move \/ EndReport \/ Finish
  BY <1>2, <1>11 DEF Move, EndReport, Finish, net, world
<1>12. CASE UpdateSprites
  <2>1. /\ pc = "world" /\ pc' = "report"
        /\ UNCHANGED <<roster, invited, given, players>>
    BY <1>12 DEF UpdateSprites, net, world
  <2>2. Asked' = Asked
    BY <2>1 DEF Asked
  <2> QED
    BY <1>1, <2>1, <2>2 DEF given
<1>13. CASE ReportFood
  BY <1>2, <1>13 DEF ReportFood, world
<1>14. CASE UNCHANGED vars
  <2>1. Asked' = Asked
    BY <1>14 DEF Asked, vars, match
  <2> QED
    BY <1>1, <1>14, <2>1 DEF vars, match, net, given, world
<1> QED
  BY <1>3, <1>4, <1>5, <1>6, <1>7, <1>8, <1>9, <1>10, <1>11, <1>12, <1>13,
     <1>14
     DEF Next, Update

LEMMA OrderInvariance == Spec => [](Inv /\ OrderInv /\ WorldProofs!IInv)
BY InitOrder, NextOrder, Invariance, PTL DEF Spec

\* NEW_GAME numbers the players of a match in the order in which the updates
\* number them, and alike if all that are invited join.
THEOREM NumbersCorrect == Spec => []NumbersInOrder
<1>1. Inv /\ OrderInv => NumbersInOrder
  <2> SUFFICES ASSUME Inv, OrderInv PROVE NumbersInOrder
    OBVIOUS
  <2>1. DOMAIN roster = 1 .. Len(roster) /\ Len(invited) \in Nat
    BY DEF Inv, TypeInv
  <2>2. ASSUME NEW i \in 1 .. Len(roster)
        PROVE  i - 1 <= number[roster[i]] /\ number[roster[i]] < Len(invited)
    <3>1. PICK k \in 1 .. Asked : i <= k /\ number[roster[i]] = k - 1
      BY <2>1 DEF OrderInv
    <3>2. Asked \in Nat /\ Asked <= Len(invited)
      BY <2>1 DEF Asked, Inv, RangesInv, TypeInv
    <3> QED
      BY <2>1, <3>1, <3>2
  <2>3. \A i, j \in 1 .. Len(roster) :
          i < j => number[roster[i]] < number[roster[j]]
    BY <2>1 DEF OrderInv
  <2>4. pc # "invite" /\ Len(roster) = Len(invited) => NumbersAgree
    BY DEF OrderInv, Asked
  <2> QED
    BY <2>2, <2>3, <2>4 DEF NumbersInOrder
<1> QED
  BY <1>1, OrderInvariance, PTL

\* A client that stays to the end has been told of a player that is alive.
THEOREM WinnerCorrect == Spec => []WinnerKnown
<1>1. Inv /\ OrderInv /\ World!SomebodyLives => WinnerKnown
  <2> SUFFICES ASSUME Inv, OrderInv, World!SomebodyLives, pc = "game_end",
                      roster # <<>>, NEW c \in Audience
               PROVE  \E i \in 0 .. Len(roster) - 1 : told[c].hp[i] > 0
    BY DEF WinnerKnown
  <2>1. DOMAIN roster = 1 .. Len(roster) /\ Len(roster) \in Nat
    BY DEF Inv, TypeInv
  <2>2. 1 \in DOMAIN roster
    BY <2>1, EmptyBatch DEF Inv, TypeInv
  <2>3. players # {}
    BY <2>2 DEF OrderInv
  <2>4. PICK j \in DOMAIN roster : World!Alive(PlayerOf(roster[j]))
    BY <2>3 DEF World!SomebodyLives, OrderInv
  <2>5. j - 1 \in 0 .. Len(roster) - 1 /\ (j - 1) + 1 = j
    BY <2>1, <2>4
  <2>6. told[c].hp[j - 1] = hp[PlayerOf(roster[j])]
    BY <2>5 DEF Inv, PlayerInv
  <2> QED
    BY <2>4, <2>5, <2>6 DEF World!Alive
<1> QED
  BY <1>1, OrderInvariance, MatchCorrect, PTL
=============================================================================
