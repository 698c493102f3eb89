---------------------------- MODULE EngineProofs ----------------------------
(***************************************************************************)
(* Theorems about Engine, for any number of players and pieces of food.    *)
(***************************************************************************)
EXTENDS Engine, SumTheorems, TLAPS

\* Contacts are between players of the world, and listed only while they are
\* visited.
ContactsOK ==
  /\ \A e \in touching : e \subseteq players \cap enabled
  /\ stage # "ongoing" => pending = {}

\* The contacts visited so far are settled.
VisitedSettled ==
  stage = "ongoing" =>
    \A e \in touching \ pending : \A p, q \in e :
      Beats(p, q) => {p, q} \cap grown # {}

IInv == TypeOK /\ ContactsOK /\ VisitedSettled /\ SomebodyLives

(***************************************************************************)
(* What eating does to the hitpoints.                                      *)
(***************************************************************************)

LEMMA EatType ==
  ASSUME hp \in [Objects -> Nat], NEW w \in Objects, NEW l \in Objects, w # l
  PROVE  /\ Eat(w, l) \in [Objects -> Nat]
         /\ Eat(w, l)[w] = hp[w] + hp[l]
         /\ Eat(w, l)[l] = 0
         /\ \A o \in Objects \ {w, l} : Eat(w, l)[o] = hp[o]
BY DEF Eat

\* Whatever a fight of two players ends in, the types are kept, nobody returns
\* from the dead, somebody lives, and the fight is settled.
LEMMA FightEffect ==
  ASSUME TypeOK, NEW a \in players, NEW b \in players, Fight({a, b})
  PROVE  /\ hp' \in [Objects -> Nat]
         /\ grown \subseteq grown' /\ grown' \subseteq players
         /\ \A o \in Objects : ~Alive(o) => hp'[o] = 0
         /\ (\E p \in players : Alive(p)) => (\E p \in players : Alive(p)')
         /\ \A o \in Objects \ grown' : hp'[o] \in {hp[o], 0}
         /\ \A p, q \in {a, b} : ~Beats(p, q)'
<1> a \in Objects /\ b \in Objects /\ hp \in [Objects -> Nat]
  BY DEF TypeOK, Objects
<1>1. ASSUME NEW w \in {a, b}, NEW l \in {a, b}, Beats(w, l),
             hp' = Eat(w, l), grown' = grown \cup {w}
      PROVE  /\ hp' \in [Objects -> Nat]
             /\ grown \subseteq grown' /\ grown' \subseteq players
             /\ \A o \in Objects : ~Alive(o) => hp'[o] = 0
             /\ (\E p \in players : Alive(p)) => (\E p \in players : Alive(p)')
             /\ \A o \in Objects \ grown' : hp'[o] \in {hp[o], 0}
             /\ \A p, q \in {a, b} : ~Beats(p, q)'
  <2>1. w \in Objects /\ l \in Objects /\ {a, b} = {w, l} /\ w # l
    BY <1>1 DEF Beats
  <2>2. /\ hp' \in [Objects -> Nat]
        /\ hp'[w] = hp[w] + hp[l]
        /\ hp'[l] = 0
        /\ \A o \in Objects \ {w, l} : hp'[o] = hp[o]
    BY <1>1, <2>1, EatType
  <2>3. hp[w] \in Nat \ {0} /\ hp[l] \in Nat
    BY <1>1, <2>1 DEF Beats, Alive
  <2>4. Alive(w)' /\ ~Alive(l)'
    BY <2>2, <2>3 DEF Alive
  <2>5. \A o \in Objects : ~Alive(o) => hp'[o] = 0
    BY <2>1, <2>2, <2>3 DEF Alive
  <2>6. \A p, q \in {a, b} : ~Beats(p, q)'
    BY <2>1, <2>2, <2>4 DEF Beats
  <2> QED
    BY <1>1, <2>1, <2>2, <2>4, <2>5, <2>6 DEF TypeOK
<1>2. CASE (\A w, l \in {a, b} : ~Beats(w, l)) /\ UNCHANGED <<hp, grown>>
  BY <1>2 DEF TypeOK, Alive, Beats
<1> QED
  BY <1>1, <1>2 DEF Fight

(***************************************************************************)
(* The invariant.                                                          *)
(***************************************************************************)

LEMMA InitIInv == Init => IInv
BY DEF Init, IInv, TypeOK, ContactsOK, VisitedSettled,
       SomebodyLives, Objects, Alive

LEMMA NextIInv == IInv /\ [Next]_vars => IInv'
<1> SUFFICES ASSUME IInv, [Next]_vars PROVE IInv'
  OBVIOUS
<1> USE ObjectsAssumption DEF IInv, objects
<1>1. ASSUME NEW p \in PlayerIds, AddPlayer(p) PROVE IInv'
  <2>1. /\ hp' \in [Objects -> Nat]
        /\ hp'[p] = 2
        /\ \A o \in Objects \ {p} : hp'[o] = hp[o]
    BY <1>1 DEF TypeOK, AddPlayer, Objects, PlayerHP
  <2>2. TypeOK'
    BY <1>1, <2>1 DEF TypeOK, AddPlayer
  <2>3. ContactsOK'
    BY <1>1 DEF ContactsOK, AddPlayer
  <2>5. VisitedSettled'
    BY <1>1 DEF VisitedSettled, AddPlayer
  <2>6. SomebodyLives'
    BY <1>1, <2>1 DEF AddPlayer, SomebodyLives, Alive
  <2> QED
    BY <2>2, <2>3, <2>5, <2>6
<1>2. ASSUME NEW f \in FoodIds, AddFood(f) PROVE IInv'
  <2>1. /\ hp' \in [Objects -> Nat]
        /\ hp'[f] = 1
        /\ \A o \in Objects \ {f} : hp'[o] = hp[o]
    BY <1>2 DEF TypeOK, AddFood, Objects, FoodHP
  <2>2. TypeOK'
    BY <1>2, <2>1 DEF TypeOK, AddFood
  <2>3. ContactsOK'
    BY <1>2 DEF ContactsOK, AddFood
  <2>5. VisitedSettled'
    BY <1>2 DEF VisitedSettled, AddFood
  <2>6. SomebodyLives'
    BY <1>2, <2>1 DEF TypeOK, AddFood, SomebodyLives, Alive, Objects
  <2> QED
    BY <2>2, <2>3, <2>5, <2>6
<1>3. CASE StartStep
  BY <1>3 DEF StartStep, TypeOK, ContactsOK, VisitedSettled,
              SomebodyLives, Alive
<1>4. ASSUME NEW p \in players, NEW q \in players, PlayersMeet(p, q)
      PROVE  IInv'
  <2>1. /\ hp' \in [Objects -> Nat]
        /\ grown \subseteq grown' /\ grown' \subseteq players
        /\ \A o \in Objects : ~Alive(o) => hp'[o] = 0
        /\ (\E r \in players : Alive(r)) => (\E r \in players : Alive(r)')
    BY <1>4, FightEffect DEF PlayersMeet
  <2>2. {p, q} \in Contacts
    BY DEF TypeOK, Contacts
  <2>3. TypeOK'
    BY <1>4, <2>1, <2>2 DEF TypeOK, PlayersMeet
  <2>4. ContactsOK'
    BY <1>4 DEF ContactsOK, PlayersMeet
  <2>6. VisitedSettled'
    BY <1>4 DEF VisitedSettled, PlayersMeet
  <2>7. SomebodyLives'
    BY <1>4, <2>1 DEF PlayersMeet, SomebodyLives
  <2> QED
    BY <2>3, <2>4, <2>6, <2>7
<1>5. ASSUME NEW p \in players, NEW f \in food, PlayerMeetsFood(p, f)
      PROVE  IInv'
  <2>1. p \in Objects /\ f \in Objects /\ p # f
    BY DEF TypeOK, Objects
  <2>2. /\ hp' \in [Objects -> Nat]
        /\ hp'[p] = hp[p] + hp[f]
        /\ hp'[f] = 0
        /\ \A o \in Objects \ {p, f} : hp'[o] = hp[o]
    BY <1>5, <2>1, EatType DEF TypeOK, PlayerMeetsFood
  <2>3. Alive(p) /\ Alive(p)' /\ ~Alive(f)'
    BY <1>5, <2>1, <2>2 DEF TypeOK, PlayerMeetsFood, CanEat, Alive
  <2>4. TypeOK'
    BY <1>5, <2>2 DEF TypeOK, PlayerMeetsFood
  <2>5. ContactsOK'
    BY <1>5 DEF ContactsOK, PlayerMeetsFood
  <2>7. VisitedSettled'
    BY <1>5 DEF VisitedSettled, PlayerMeetsFood
  <2>8. SomebodyLives'
    BY <1>5, <2>3 DEF PlayerMeetsFood, SomebodyLives
  <2> QED
    BY <2>4, <2>5, <2>7, <2>8
<1>6. ASSUME NEW f \in food, FoodMeetsBoundaries(f) PROVE IInv'
  <2>1. /\ hp' \in [Objects -> Nat]
        /\ hp'[f] = 0
        /\ \A o \in Objects \ {f} : hp'[o] = hp[o]
    BY <1>6 DEF TypeOK, FoodMeetsBoundaries, Killed, Objects
  <2>2. TypeOK'
    BY <1>6, <2>1 DEF TypeOK, FoodMeetsBoundaries
  <2>3. ContactsOK'
    BY <1>6 DEF ContactsOK, FoodMeetsBoundaries
  <2>5. VisitedSettled'
    BY <1>6 DEF VisitedSettled, FoodMeetsBoundaries
  <2>6. SomebodyLives'
    BY <1>6, <2>1
       DEF TypeOK, FoodMeetsBoundaries, SomebodyLives, Alive, Objects
  <2> QED
    BY <2>2, <2>3, <2>5, <2>6
<1>7. ASSUME NEW e \in touching, PlayersPart(e) PROVE IInv'
  <2>1. TypeOK'
    BY <1>7 DEF TypeOK, ContactsOK, PlayersPart
  <2>2. ContactsOK' /\ VisitedSettled' /\ SomebodyLives'
    BY <1>7 DEF PlayersPart, ContactsOK, VisitedSettled,
                SomebodyLives, Alive
  <2> QED
    BY <2>1, <2>2
<1>8. ASSUME NEW e \in touching, HandleOngoing(e) PROVE IInv'
  <2>1. PICK a \in players, b \in players : e = {a, b}
    BY DEF TypeOK, ContactsOK, Contacts
  <2>2. /\ hp' \in [Objects -> Nat]
        /\ grown \subseteq grown' /\ grown' \subseteq players
        /\ \A o \in Objects : ~Alive(o) => hp'[o] = 0
        /\ (\E r \in players : Alive(r)) => (\E r \in players : Alive(r)')
        /\ \A o \in Objects \ grown' : hp'[o] \in {hp[o], 0}
        /\ \A p, q \in {a, b} : ~Beats(p, q)'
    BY <1>8, <2>1, FightEffect DEF HandleOngoing
  <2>3. TypeOK'
    BY <1>8, <2>2 DEF TypeOK, HandleOngoing
  <2>4. ContactsOK'
    BY <1>8 DEF ContactsOK, HandleOngoing
  <2>6. VisitedSettled'
    <3> SUFFICES ASSUME NEW d \in touching \ pending', NEW p \in d, NEW q \in d,
                        Beats(p, q)', p \notin grown', q \notin grown'
                 PROVE  FALSE
      BY <1>8 DEF VisitedSettled, HandleOngoing
    <3>1. d # e /\ d \in touching \ pending
      BY <1>8, <2>1, <2>2 DEF HandleOngoing
    <3>2. p \in Objects /\ q \in Objects
      BY DEF TypeOK, ContactsOK, Objects
    <3>3. hp'[p] = hp[p] /\ hp'[q] = hp[q]
      BY <2>2, <3>2 DEF Beats, Alive
    <3>4. Beats(p, q)
      BY <3>3 DEF Beats, Alive
    <3> QED
      BY <1>8, <2>2, <3>1, <3>4 DEF VisitedSettled, HandleOngoing
  <2>7. SomebodyLives'
    BY <1>8, <2>2 DEF HandleOngoing, SomebodyLives
  <2> QED
    BY <2>3, <2>4, <2>6, <2>7
<1>9. CASE ListContacts
  BY <1>9 DEF ListContacts, OngoingContacts, TypeOK, ContactsOK,
              VisitedSettled, SomebodyLives, Alive
<1>10. CASE Update
  <2>1. TypeOK' /\ ContactsOK'
    BY <1>10 DEF Update, Simulated, TypeOK, ContactsOK
  <2>2. VisitedSettled' /\ SomebodyLives'
    BY <1>10 DEF Update, Simulated, VisitedSettled, SomebodyLives,
                 Alive
  <2> QED
    BY <2>1, <2>2
<1>11. CASE UNCHANGED vars
  BY <1>11 DEF vars, TypeOK, ContactsOK, VisitedSettled,
               SomebodyLives, Beats, Alive
<1> QED
  BY <1>1, <1>2, <1>3, <1>4, <1>5, <1>6, <1>7, <1>8, <1>9, <1>10, <1>11
     DEF Next, Simulate

LEMMA Invariance == Spec => []IInv
BY InitIInv, NextIInv, PTL DEF Spec

\* Food is never healed, whatever the handlers do.
LEMMA FoodOnlyLoses ==
  ASSUME IInv, [Next]_vars, NEW f \in food
  PROVE  f \in food' /\ hp'[f] \in {hp[f], 0}
<1> USE ObjectsAssumption DEF IInv, objects
<1>0. hp \in [Objects -> Nat] /\ f \in Objects /\ f \notin players
  BY DEF TypeOK, Objects
<1>1. CASE UNCHANGED vars
  BY <1>1 DEF vars
<1>2. CASE \E p \in PlayerIds : AddPlayer(p)
  BY <1>0, <1>2 DEF TypeOK, AddPlayer
<1>3. CASE \E g \in FoodIds : AddFood(g)
  BY <1>0, <1>3 DEF AddFood
<1>4. ASSUME NEW p \in players, NEW q \in players, Fight({p, q})
      PROVE  hp'[f] \in {hp[f], 0}
  BY <1>0, <1>4, FightEffect
<1>5. CASE \E p, q \in players : PlayersMeet(p, q)
  BY <1>4, <1>5 DEF PlayersMeet
<1>6. ASSUME NEW p \in players, NEW g \in food, PlayerMeetsFood(p, g)
      PROVE  f \in food' /\ hp'[f] \in {hp[f], 0}
  <2>1. p \in Objects /\ g \in Objects /\ p # g /\ f # p
    BY <1>0 DEF TypeOK, Objects
  <2> QED
    BY <1>0, <1>6, <2>1, EatType DEF PlayerMeetsFood
<1>7. CASE \E g \in food : FoodMeetsBoundaries(g)
  BY <1>0, <1>7 DEF FoodMeetsBoundaries, Killed
<1>8. ASSUME NEW e \in touching, HandleOngoing(e)
      PROVE  f \in food' /\ hp'[f] \in {hp[f], 0}
  <2>1. PICK a \in players, b \in players : e = {a, b}
    BY DEF TypeOK, ContactsOK, Contacts
  <2> QED
    BY <1>4, <1>8, <2>1 DEF HandleOngoing
<1>9. CASE StartStep \/ ListContacts \/ Update
  BY <1>9 DEF StartStep, ListContacts, Update
<1>10. CASE \E e \in touching : PlayersPart(e)
  BY <1>10 DEF PlayersPart
<1> QED
  BY <1>1, <1>2, <1>3, <1>5, <1>6, <1>7, <1>8, <1>9, <1>10
     DEF Next, Simulate

(***************************************************************************)
(* The theorems.                                                           *)
(***************************************************************************)

\* Mortal::hitpoints is never negative, and contacts are between players.
THEOREM TypeCorrect == Spec => []TypeOK
BY Invariance, PTL DEF IInv

\* A match never runs out of players, however many there are and in whatever
\* order the physics library reports their contacts (ContactListener::handle).
THEOREM SurvivorCorrect == Spec => []SomebodyLives
BY Invariance, PTL DEF IInv

\* processOngoingContacts settles every contact of two players neither of which
\* ate while it ran.
THEOREM ContestsCorrect == Spec => []ContestsSettled
<1>1. IInv => ContestsSettled
  BY DEF IInv, VisitedSettled, ContestsSettled
<1> QED
  BY Invariance, <1>1, PTL

\* No order of the handlers heals an object that was killed.
THEOREM DeathIsFinal == Spec => DeadStayDead
<1> DEFINE StayDead == \A o \in players \cup food : ~Alive(o) => hp'[o] = 0
<1>1. IInv /\ [Next]_vars => [StayDead]_vars
  <2> SUFFICES ASSUME IInv, Next, NEW o \in players \cup food, ~Alive(o)
               PROVE  hp'[o] = 0
    BY Zenon
  <2> USE DEF IInv, objects
  <2>0. hp \in [Objects -> Nat] /\ o \in Objects /\ hp[o] = 0
    BY DEF TypeOK, Objects, Alive
  <2>1. CASE \E p \in PlayerIds : AddPlayer(p)
    BY <2>0, <2>1, ObjectsAssumption DEF TypeOK, AddPlayer
  <2>2. CASE \E f \in FoodIds : AddFood(f)
    BY <2>0, <2>2, ObjectsAssumption DEF TypeOK, AddFood
  <2>3. ASSUME NEW p \in players, NEW q \in players, Fight({p, q})
        PROVE  hp'[o] = 0
    BY <2>0, <2>3, FightEffect
  <2>4. ASSUME NEW p \in players, NEW f \in food, PlayerMeetsFood(p, f)
        PROVE  hp'[o] = 0
    <3>1. p \in Objects /\ f \in Objects /\ p # f
      BY ObjectsAssumption DEF TypeOK, Objects
    <3>2. o # p
      BY <2>4 DEF PlayerMeetsFood, CanEat
    <3> QED
      BY <2>0, <2>4, <3>1, <3>2, EatType DEF PlayerMeetsFood
  <2>5. CASE \E f \in food : FoodMeetsBoundaries(f)
    BY <2>0, <2>5 DEF FoodMeetsBoundaries, Killed
  <2>6. ASSUME NEW e \in touching, HandleOngoing(e) PROVE hp'[o] = 0
    <3>1. PICK a \in players, b \in players : e = {a, b}
      BY DEF TypeOK, ContactsOK, Contacts
    <3> QED
      BY <2>3, <2>6, <3>1 DEF HandleOngoing
  <2>7. CASE StartStep \/ ListContacts \/ Update
    BY <2>0, <2>7 DEF StartStep, ListContacts, Update
  <2>8. ASSUME NEW e \in touching, PlayersPart(e) PROVE hp'[o] = 0
    BY <2>0, <2>8 DEF PlayersPart
  <2> QED
    BY <2>1, <2>2, <2>3, <2>4, <2>5, <2>6, <2>7, <2>8
       DEF Next, Simulate, PlayersMeet
<1> QED
  BY Invariance, <1>1, PTL DEF Spec, DeadStayDead

(***************************************************************************)
(* The hitpoints add up.                                                   *)
(***************************************************************************)

\* What Conservation needs to be inductive: nothing outside the world has
\* hitpoints, food is whole or dead, and what escaped is dead.
HitpointsOK ==
  /\ \A o \in Objects \ (players \cup food) : hp[o] = 0
  /\ \A f \in food : hp[f] \in {0, FoodHP}
  /\ \A f \in escaped : hp[f] = 0

Balanced ==
  Sum(hp, Objects) + Cardinality(escaped)
    = 2 * Cardinality(players) + Cardinality(food)

LEMMA FiniteWorld ==
  ASSUME TypeOK
  PROVE  /\ IsFiniteSet(Objects)
         /\ IsFiniteSet(players) /\ Cardinality(players) \in Nat
         /\ IsFiniteSet(food) /\ Cardinality(food) \in Nat
         /\ IsFiniteSet(escaped) /\ Cardinality(escaped) \in Nat
<1>1. IsFiniteSet(Objects)
  BY ObjectsAssumption, FS_Union DEF Objects
<1>2. players \in SUBSET Objects /\ food \in SUBSET Objects
      /\ escaped \in SUBSET Objects
  BY DEF TypeOK, Objects
<1>3. IsFiniteSet(players) /\ IsFiniteSet(food) /\ IsFiniteSet(escaped)
  BY <1>1, <1>2, FS_Subset
<1> QED
  BY <1>1, <1>3, FS_CardinalityType

\* Eating moves hitpoints.
LEMMA EatMoves ==
  ASSUME TypeOK, NEW w \in Objects, NEW l \in Objects, w # l
  PROVE  Sum(Eat(w, l), Objects) = Sum(hp, Objects)
<1> DEFINE k == Eat(w, l)
<1>1. /\ k \in [Objects -> Nat]
      /\ k[w] = hp[w] + hp[l] /\ k[l] = 0
      /\ \A o \in Objects \ {w, l} : k[o] = hp[o]
  BY EatType DEF TypeOK
<1> HIDE DEF k
<1>2. hp \in [Objects -> Int] /\ k \in [Objects -> Int]
  BY <1>1 DEF TypeOK
<1>3. k[w] + k[l] = hp[w] + hp[l]
  BY <1>1, <1>2
<1>4. Sum(k, Objects) = Sum(hp, Objects)
  BY <1>1, <1>2, <1>3, FiniteWorld, SumMove
<1> QED
  BY <1>4 DEF k

LEMMA FightMoves ==
  ASSUME TypeOK, NEW a \in players, NEW b \in players, Fight({a, b})
  PROVE  /\ Sum(hp', Objects) = Sum(hp, Objects)
         /\ \A o \in Objects \ players : hp'[o] = hp[o]
<1> a \in Objects /\ b \in Objects /\ hp \in [Objects -> Nat]
  BY DEF TypeOK, Objects
<1>1. ASSUME NEW w \in {a, b}, NEW l \in {a, b}, Beats(w, l), hp' = Eat(w, l)
      PROVE  /\ Sum(hp', Objects) = Sum(hp, Objects)
             /\ \A o \in Objects \ players : hp'[o] = hp[o]
  <2>1. w \in Objects /\ l \in Objects /\ w # l
    BY <1>1 DEF Beats
  <2>2. \A o \in Objects \ {w, l} : hp'[o] = hp[o]
    BY <1>1, <2>1, EatType
  <2> QED
    BY <1>1, <2>1, <2>2, EatMoves
<1>2. CASE hp' = hp
  BY <1>2
<1> QED
  BY <1>1, <1>2 DEF Fight

\* Changing the hitpoints of one object changes the sum by as much.
LEMMA HitpointsSet ==
  ASSUME TypeOK, NEW o \in Objects, NEW n \in Nat, hp' = [hp EXCEPT ![o] = n]
  PROVE  /\ Sum(hp', Objects) = Sum(hp, Objects) + n - hp[o]
         /\ hp'[o] = n
         /\ \A x \in Objects \ {o} : hp'[x] = hp[x]
         /\ Sum(hp, Objects) \in Int
<1> DEFINE k == [hp EXCEPT ![o] = n]
<1>1. /\ hp \in [Objects -> Int] /\ k \in [Objects -> Int]
      /\ k[o] = n /\ \A x \in Objects \ {o} : k[x] = hp[x]
  BY DEF TypeOK
<1>2. hp' = k
  OBVIOUS
<1> HIDE DEF k
<1>3. Sum(k, Objects) = Sum(hp, Objects) + k[o] - hp[o]
  BY <1>1, FiniteWorld, SumChange
<1>4. Sum(hp, Objects) \in Int
  BY <1>1, FiniteWorld, SumType
<1> QED
  BY <1>1, <1>2, <1>3, <1>4

LEMMA InitBalanced == Init => HitpointsOK /\ Balanced
<1> SUFFICES ASSUME Init PROVE HitpointsOK /\ Balanced
  OBVIOUS
<1>1. HitpointsOK
  BY DEF Init, HitpointsOK, Objects
<1>2. IsFiniteSet(Objects)
  BY ObjectsAssumption, FS_Union DEF Objects
<1>3. Sum(hp, Objects) = 0
  BY <1>2, SumZero DEF Init
<1>4. Balanced
  BY <1>3, FS_EmptySet DEF Init, Balanced
<1> QED
  BY <1>1, <1>4

LEMMA NextBalanced ==
  ASSUME IInv, HitpointsOK, Balanced, [Next]_vars
  PROVE  HitpointsOK' /\ Balanced'
<1> USE ObjectsAssumption DEF objects
<1> TypeOK /\ ContactsOK
  BY DEF IInv
<1>0. hp \in [Objects -> Nat] /\ players \subseteq Objects
      /\ food \subseteq Objects /\ escaped \subseteq food
      /\ players \cap food = {}
  BY DEF TypeOK, Objects
<1>1. ASSUME NEW p \in PlayerIds, AddPlayer(p)
      PROVE  HitpointsOK' /\ Balanced'
  <2>1. p \in Objects /\ p \notin players /\ p \notin food /\ hp[p] = 0
    BY <1>1 DEF AddPlayer, TypeOK, HitpointsOK, Objects
  <2>2. /\ Sum(hp', Objects) = Sum(hp, Objects) + 2
        /\ \A x \in Objects \ {p} : hp'[x] = hp[x]
        /\ Sum(hp, Objects) \in Int
    <3>1. hp' = [hp EXCEPT ![p] = 2]
      BY <1>1 DEF AddPlayer, PlayerHP
    <3>2. /\ Sum(hp', Objects) = Sum(hp, Objects) + 2 - hp[p]
          /\ \A x \in Objects \ {p} : hp'[x] = hp[x]
          /\ Sum(hp, Objects) \in Int
      BY <2>1, <3>1, HitpointsSet
    <3> QED
      BY <2>1, <3>2
  <2>3. Cardinality(players') = Cardinality(players) + 1
    BY <1>1, <2>1, FiniteWorld, FS_AddElement DEF AddPlayer
  <2>4. HitpointsOK'
    BY <1>0, <1>1, <2>1, <2>2 DEF HitpointsOK, AddPlayer
  <2>5. escaped' = escaped /\ food' = food
    BY <1>1 DEF AddPlayer
  <2>6. Balanced'
    BY <2>2, <2>3, <2>5, FiniteWorld DEF Balanced
  <2> QED
    BY <2>4, <2>6
<1>2. ASSUME NEW f \in FoodIds, AddFood(f)
      PROVE  HitpointsOK' /\ Balanced'
  <2>1. f \in Objects /\ f \notin players /\ f \notin food /\ hp[f] = 0
    BY <1>2 DEF AddFood, TypeOK, HitpointsOK, Objects
  <2>2. /\ Sum(hp', Objects) = Sum(hp, Objects) + 1
        /\ hp'[f] = 1
        /\ \A x \in Objects \ {f} : hp'[x] = hp[x]
        /\ Sum(hp, Objects) \in Int
    <3>1. hp' = [hp EXCEPT ![f] = 1]
      BY <1>2 DEF AddFood, FoodHP
    <3>2. /\ Sum(hp', Objects) = Sum(hp, Objects) + 1 - hp[f]
          /\ hp'[f] = 1
          /\ \A x \in Objects \ {f} : hp'[x] = hp[x]
          /\ Sum(hp, Objects) \in Int
      BY <2>1, <3>1, HitpointsSet
    <3> QED
      BY <2>1, <3>2
  <2>3. Cardinality(food') = Cardinality(food) + 1
    BY <1>2, <2>1, FiniteWorld, FS_AddElement DEF AddFood
  <2>4. HitpointsOK'
    BY <1>0, <1>2, <2>1, <2>2 DEF HitpointsOK, AddFood, FoodHP
  <2>5. escaped' = escaped /\ players' = players
    BY <1>2 DEF AddFood
  <2>6. Balanced'
    BY <2>2, <2>3, <2>5, FiniteWorld DEF Balanced
  <2> QED
    BY <2>4, <2>6
<1>3. ASSUME NEW a \in players, NEW b \in players, Fight({a, b}),
             UNCHANGED <<players, food, escaped>>
      PROVE  HitpointsOK' /\ Balanced'
  <2>1. /\ Sum(hp', Objects) = Sum(hp, Objects)
        /\ \A o \in Objects \ players : hp'[o] = hp[o]
    BY <1>3, FightMoves
  <2>2. HitpointsOK'
    BY <1>0, <1>3, <2>1 DEF HitpointsOK
  <2>3. Balanced'
    BY <1>3, <2>1 DEF Balanced
  <2> QED
    BY <2>2, <2>3
<1>4. CASE \E p, q \in players : PlayersMeet(p, q)
  BY <1>3, <1>4 DEF PlayersMeet
<1>5. ASSUME NEW e \in touching, HandleOngoing(e)
      PROVE  HitpointsOK' /\ Balanced'
  <2>1. PICK a \in players, b \in players : e = {a, b}
    BY DEF TypeOK, ContactsOK, Contacts
  <2> QED
    BY <1>3, <1>5, <2>1 DEF HandleOngoing
<1>6. ASSUME NEW p \in players, NEW f \in food, PlayerMeetsFood(p, f)
      PROVE  HitpointsOK' /\ Balanced'
  <2>1. p \in Objects /\ f \in Objects /\ p # f
    BY <1>0
  <2>2. hp' = Eat(p, f) /\ UNCHANGED <<players, food, escaped>>
    BY <1>6 DEF PlayerMeetsFood
  <2>3. hp'[f] = 0 /\ \A o \in Objects \ {p, f} : hp'[o] = hp[o]
    BY <1>0, <2>1, <2>2, EatType
  <2>4. Sum(hp', Objects) = Sum(hp, Objects)
    BY <2>1, <2>2, EatMoves
  <2>5. HitpointsOK'
    BY <1>0, <2>2, <2>3 DEF HitpointsOK
  <2>6. Balanced'
    BY <2>2, <2>4 DEF Balanced
  <2> QED
    BY <2>5, <2>6
<1>7. ASSUME NEW f \in food, FoodMeetsBoundaries(f)
      PROVE  HitpointsOK' /\ Balanced'
  <2>1. f \in Objects /\ hp[f] = 1 /\ f \notin escaped
    BY <1>0, <1>7 DEF HitpointsOK, FoodMeetsBoundaries, Alive, FoodHP
  <2>2. /\ Sum(hp', Objects) = Sum(hp, Objects) - 1
        /\ hp'[f] = 0
        /\ \A x \in Objects \ {f} : hp'[x] = hp[x]
        /\ Sum(hp, Objects) \in Int
    <3>1. hp' = [hp EXCEPT ![f] = 0]
      BY <1>7 DEF FoodMeetsBoundaries, Killed
    <3>2. /\ Sum(hp', Objects) = Sum(hp, Objects) + 0 - hp[f]
          /\ hp'[f] = 0
          /\ \A x \in Objects \ {f} : hp'[x] = hp[x]
          /\ Sum(hp, Objects) \in Int
      BY <2>1, <3>1, HitpointsSet
    <3> QED
      BY <2>1, <3>2
  <2>3. /\ escaped' = escaped \cup {f}
        /\ players' = players /\ food' = food
    BY <1>7 DEF FoodMeetsBoundaries
  <2>4. Cardinality(escaped') = Cardinality(escaped) + 1
    BY <2>1, <2>3, FiniteWorld, FS_AddElement
  <2>5. HitpointsOK'
    BY <1>0, <2>1, <2>2, <2>3 DEF HitpointsOK
  <2>6. Balanced'
    BY <2>2, <2>3, <2>4, FiniteWorld DEF Balanced
  <2> QED
    BY <2>5, <2>6
<1>8. CASE UNCHANGED <<players, food, hp, escaped>>
  BY <1>8 DEF HitpointsOK, Balanced
<1>9. CASE \/ StartStep \/ ListContacts \/ Update \/ UNCHANGED vars
           \/ \E e \in touching : PlayersPart(e)
  BY <1>8, <1>9 DEF StartStep, ListContacts, Update, PlayersPart, vars
<1> QED
  BY <1>1, <1>2, <1>4, <1>5, <1>6, <1>7, <1>9 DEF Next, Simulate

\* Nobody gains or loses hitpoints but by eating and at the boundaries: the
\* handlers move what AddPlayer and AddFood brought in, whatever the number of
\* players and the order of the contacts (ContactListener::handle).
THEOREM ConservationCorrect == Spec => []Conservation
<1> DEFINE Book == HitpointsOK /\ Balanced
<1>1. Init => Book
  BY InitBalanced
<1>2. IInv /\ Book /\ [Next]_vars => Book'
  BY NextBalanced
<1>3. IInv /\ Book => Conservation
  <2>1. Sum(hp, Objects) = MapThenSumSet(LAMBDA o : hp[o], Objects)
    BY DEF Sum
  <2> QED
    BY <2>1, FiniteWorld DEF IInv, Balanced, Conservation, PlayerHP, FoodHP
<1> QED
  BY Invariance, <1>1, <1>2, <1>3, PTL DEF Spec
=============================================================================
