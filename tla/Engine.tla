------------------------------- MODULE Engine -------------------------------
(***************************************************************************)
(* The game world: Mortal, Food and Player (world_object.hpp), the contact *)
(* handlers and World::step (engine.cpp).                                  *)
(*                                                                         *)
(* Where the bodies are is the physics library's business: during a step   *)
(* it reports contacts beginning and ending between any enabled bodies, in *)
(* any order.  What the game adds is what a contact does to the hitpoints. *)
(***************************************************************************)
EXTENDS Integers, FiniteSetsExt

CONSTANTS
  PlayerIds,      \* the players that can be added to the world
  FoodIds         \* the pieces of food that can be added

ASSUME ObjectsAssumption ==
  /\ IsFiniteSet(PlayerIds)
  /\ IsFiniteSet(FoodIds)
  /\ PlayerIds \cap FoodIds = {}

VARIABLES
  players,    \* World::players
  food,       \* World::food
  hp,         \* Mortal::hitpoints, 0 for what is not in the world
  enabled,    \* bodies that take part in the simulation
  touching,   \* contacts of two players for which IsTouching holds
  stage,      \* where World::step is
  pending,    \* contacts processOngoingContacts has not visited yet
  grown,      \* history: players that ate since the contacts were listed
  escaped     \* history: pieces of food the boundaries killed

objects == <<players, food>>
vars == <<objects, hp, enabled, touching, stage, pending, grown, escaped>>

Objects  == PlayerIds \cup FoodIds
Contacts == {{p, q} : p, q \in PlayerIds}

TypeOK ==
  /\ players \subseteq PlayerIds
  /\ food \subseteq FoodIds
  /\ hp \in [Objects -> Nat]
  /\ enabled \subseteq players \cup food
  /\ touching \subseteq Contacts
  /\ stage \in {"idle", "collide", "ongoing"}
  /\ pending \subseteq touching
  /\ grown \subseteq players
  /\ escaped \subseteq food

Init ==
  /\ players = {}
  /\ food = {}
  /\ hp = [o \in Objects |-> 0]
  /\ enabled = {}
  /\ touching = {}
  /\ stage = "idle"
  /\ pending = {}
  /\ grown = {}
  /\ escaped = {}

PlayerHP == 2
FoodHP   == 1

Alive(o) == hp[o] > 0

(***************************************************************************)
(* Building the world, between two steps.                                  *)
(***************************************************************************)

AddPlayer(p) ==
  /\ stage = "idle"
  /\ p \in PlayerIds \ players
  /\ players' = players \cup {p}
  /\ hp' = [hp EXCEPT ![p] = PlayerHP]
  /\ enabled' = enabled \cup {p}
  /\ UNCHANGED <<food, touching, stage, pending, grown, escaped>>

AddFood(f) ==
  /\ stage = "idle"
  /\ f \in FoodIds \ food
  /\ food' = food \cup {f}
  /\ hp' = [hp EXCEPT ![f] = FoodHP]
  /\ enabled' = enabled \cup {f}
  /\ UNCHANGED <<players, touching, stage, pending, grown, escaped>>

(***************************************************************************)
(* The contact handlers.                                                   *)
(***************************************************************************)

\* Mutant: the loser is killed before its hitpoints are added.
EatKillFirst(w, l) == [hp EXCEPT ![l] = 0]

\* w.heal(l.hp()); l.kill()
Eat(w, l) == [hp EXCEPT ![w] = @ + hp[l], ![l] = 0]

Beats(w, l) == Alive(w) /\ Alive(l) /\ hp[w] > hp[l]

\* Mutant: two players of equal strength kill each other.
FightToDeath(e) ==
  IF \E w, l \in e : w # l /\ hp[w] = hp[l]
  THEN /\ hp' = [o \in Objects |-> IF o \in e THEN 0 ELSE hp[o]]
       /\ UNCHANGED grown
  ELSE \E w, l \in e : Beats(w, l) /\ hp' = Eat(w, l) /\ grown' = grown \cup {w}

\* handle(Player&, Player&): the stronger player eats the weaker one.
Fight(e) ==
  \/ \E w, l \in e : Beats(w, l) /\ hp' = Eat(w, l) /\ grown' = grown \cup {w}
  \/ (\A w, l \in e : ~Beats(w, l)) /\ UNCHANGED <<hp, grown>>

(***************************************************************************)
(* World::step: the simulation step with its contact events, the contacts  *)
(* that go on, and the update of every object.                             *)
(***************************************************************************)

StartStep ==
  /\ stage = "idle"
  /\ stage' = "collide"
  /\ UNCHANGED <<objects, hp, enabled, touching, pending, grown, escaped>>

\* BeginContact of two players.
PlayersMeet(p, q) ==
  /\ stage = "collide"
  /\ {p, q} \subseteq enabled
  /\ p # q
  /\ {p, q} \notin touching
  /\ touching' = touching \cup {{p, q}}
  /\ Fight({p, q})
  /\ UNCHANGED <<objects, enabled, stage, pending, escaped>>

\* Mutant: it is not checked that the player is alive.
FoodIsThere(p, f) == Alive(f)

CanEat(p, f) == Alive(p) /\ Alive(f)

\* BeginContact of a player and a piece of food.  Either may be dead, killed
\* in the same step: then nothing happens.
PlayerMeetsFood(p, f) ==
  /\ stage = "collide"
  /\ {p, f} \subseteq enabled
  /\ CanEat(p, f)
  /\ hp' = Eat(p, f)
  /\ grown' = grown \cup {p}
  /\ UNCHANGED <<objects, enabled, touching, stage, pending, escaped>>

\* Mutant: the damage is that which kills a new player.
KilledByDamage(o) == [hp EXCEPT ![o] = @ - PlayerHP]

\* harm(hitpoints)
Killed(o) == [hp EXCEPT ![o] = 0]

\* BeginContact of a piece of food and the boundaries of the map: kill(),
\* which takes nothing from what is dead.
FoodMeetsBoundaries(f) ==
  /\ stage = "collide"
  /\ f \in enabled
  /\ Alive(f)
  /\ hp' = Killed(f)
  /\ escaped' = escaped \cup {f}
  /\ UNCHANGED <<objects, enabled, touching, stage, pending, grown>>

\* EndContact of two players.
PlayersPart(e) ==
  /\ stage = "collide"
  /\ e \in touching
  /\ touching' = touching \ {e}
  /\ UNCHANGED <<objects, hp, enabled, stage, pending, grown, escaped>>

\* Mutant: processOngoingContacts is not called.
NoContacts == {}

OngoingContacts == touching

\* processOngoingContacts walks the contacts of the world.
ListContacts ==
  /\ stage = "collide"
  /\ stage' = "ongoing"
  /\ pending' = OngoingContacts
  /\ grown' = {}
  /\ UNCHANGED <<objects, hp, enabled, touching, escaped>>

HandleOngoing(e) ==
  /\ stage = "ongoing"
  /\ e \in pending
  /\ pending' = pending \ {e}
  /\ Fight(e)
  /\ UNCHANGED <<objects, enabled, touching, stage, escaped>>

Simulated == {o \in players \cup food : Alive(o)}

\* Mortal::update of all: SetEnabled(alive()), which destroys the contacts of
\* a body that is disabled.
Update ==
  /\ stage = "ongoing"
  /\ pending = {}
  /\ enabled' = Simulated
  /\ touching' = {e \in touching : e \subseteq enabled'}
  /\ grown' = {}
  /\ stage' = "idle"
  /\ UNCHANGED <<objects, hp, pending, escaped>>

\* What happens between the start of a step and its update.
Simulate ==
  \/ \E p, q \in players : PlayersMeet(p, q)
  \/ \E p \in players, f \in food : PlayerMeetsFood(p, f)
  \/ \E f \in food : FoodMeetsBoundaries(f)
  \/ \E e \in touching : PlayersPart(e) \/ HandleOngoing(e)
  \/ ListContacts

Next ==
  \/ \E p \in PlayerIds : AddPlayer(p)
  \/ \E f \in FoodIds : AddFood(f)
  \/ StartStep
  \/ Simulate
  \/ Update

Spec == Init /\ [][Next]_vars

(***************************************************************************)
(* Properties.                                                             *)
(***************************************************************************)

\* Hitpoints are neither made nor lost by Food-Player and Player-Player
\* contacts: only the boundaries take some away.
Conservation ==
  MapThenSumSet(LAMBDA o : hp[o], Objects) + FoodHP * Cardinality(escaped)
    = PlayerHP * Cardinality(players) + FoodHP * Cardinality(food)

\* The dead stay dead: no order of the contact events of a step heals an
\* object that is in the world and has no hitpoints.
DeadStayDead ==
  [][\A o \in players \cup food : ~Alive(o) => hp'[o] = 0]_vars

\* Whatever the order of the contacts, a match never runs out of players.
SomebodyLives == players # {} => \E p \in players : Alive(p)

\* What processOngoingContacts is for: players that go on touching do not
\* both live on with different strengths at the end of a step, unless one of
\* them became stronger while the contacts were visited.
ContestsSettled ==
  stage = "ongoing" /\ pending = {} =>
    \A e \in touching : \A p, q \in e :
      Beats(p, q) => {p, q} \cap grown # {}
=============================================================================
