-------------------------------- MODULE Game --------------------------------
(***************************************************************************)
(* A match: Game::newMatch and the phases of Game::update (amgame.cpp),    *)
(* the FOOD_UPDATE, PLAYER_UPDATE and GAME_OVER batches                    *)
(* (amcom_transactions.h), Player and Food (player.cpp, food.cpp), on top  *)
(* of the game world of module Engine.                                     *)
(*                                                                         *)
(* A transaction is one step here, as seen by clients that are prompt: the *)
(* request reaches every client that is active.  Module Transactions says  *)
(* what is behind it.                                                      *)
(***************************************************************************)
EXTENDS Integers, SequencesExt

CONSTANTS
  Clients,            \* ids of the clients that may connect
  Leavers,            \* those whose connection may end
  FoodPerPlayer,      \* food positionFood adds for each player
  MaxPlayerUpdates,   \* AMCOM_MAX_PLAYER_UPDATES
  MaxFoodUpdates,     \* AMCOM_MAX_FOOD_UPDATES
  StepsPerMove        \* world steps between two MOVE requests

ASSUME ConstantsAssumption ==
  /\ Clients \subseteq Nat
  /\ IsFiniteSet(Clients)
  /\ Leavers \subseteq Clients
  /\ FoodPerPlayer \in Nat
  /\ {MaxPlayerUpdates, MaxFoodUpdates, StepsPerMove} \subseteq Nat \ {0}

VARIABLES
  pc,           \* where Game::update is in the current phase
  next,         \* playerNo or foodNo of the loop
  steps,        \* world steps made since the last MOVE
  invited,      \* the clients of the match, in the order of their numbers
  roster,       \* Game::players, by client id
  isAlive,      \* Food::isAlive of the food, by number
  lastHp,       \* Player::lastHp, by client id
  batch,        \* states collected for the next update request
  connected,    \* Server::clients
  active,       \* those with an active connection
  numberOfPlayers,  \* Game::numberOfPlayers
  number,       \* the player number each client was given in NEW_GAME
  announced,    \* the number of players it was given there
  told,         \* what each client was last told of food and players
  reports,      \* history: how often a MOVE phase reported a piece eaten
  players, food, hp, enabled, touching, stage, pending, grown, escaped

match == <<numberOfPlayers, invited, roster, lastHp>>
given == <<number, announced>>
net   == <<connected, active, given, told>>
world == <<players, food, hp, enabled, touching, stage, pending, grown,
           escaped>>
vars  == <<pc, next, steps, match, isAlive, batch, net, reports, world>>

MaxFood   == FoodPerPlayer * Cardinality(Clients)
PlayerOf(c) == <<"player", c>>
FoodOf(n)   == <<"food", n>>
PlayerIds == {PlayerOf(c) : c \in Clients}
FoodIds   == {FoodOf(n) : n \in 0 .. MaxFood - 1}
World     == INSTANCE Engine

Unknown  == -1
Told     == [food : [0 .. MaxFood - 1 -> {Unknown, 0, 1}],
             hp   : [0 .. Cardinality(Clients) - 1 -> {Unknown} \cup Nat]]
State    == [no : Nat, state : Nat]
PC       == {"main_menu", "new_game", "invite", "place_food", "food_update",
             "player_update", "move", "world", "report", "game_over",
             "game_end"}

TypeOK ==
  /\ pc \in PC
  /\ next \in 0 .. MaxFood + Cardinality(Clients)
  /\ steps \in 0 .. StepsPerMove
  /\ invited \in Seq(Clients)
  /\ roster \in Seq(Clients)
  /\ isAlive \in Seq(BOOLEAN)
  /\ lastHp \in [Clients -> Nat]
  /\ batch \in Seq(State)
  /\ connected \subseteq Clients
  /\ active \subseteq connected
  /\ numberOfPlayers \in 0 .. Cardinality(Clients)
  /\ number \in [Clients -> {Unknown} \cup Nat]
  /\ announced \in [Clients -> {Unknown} \cup Nat]
  /\ told \in [Clients -> Told]
  /\ reports \in [0 .. MaxFood - 1 -> Nat]
  /\ World!TypeOK

Init ==
  /\ pc = "main_menu"
  /\ next = 0
  /\ steps = 0
  /\ invited = <<>>
  /\ roster = <<>>
  /\ isAlive = <<>>
  /\ lastHp = [c \in Clients |-> 0]
  /\ batch = <<>>
  /\ connected = {}
  /\ active = {}
  /\ numberOfPlayers = 0
  /\ number = [c \in Clients |-> Unknown]
  /\ announced = number
  /\ told = [c \in Clients |->
               [food |-> [n \in 0 .. MaxFood - 1 |-> Unknown],
                hp |-> [i \in 0 .. Cardinality(Clients) - 1 |-> Unknown]]]
  /\ reports = [n \in 0 .. MaxFood - 1 |-> 0]
  /\ World!Init

(***************************************************************************)
(* The clients.                                                            *)
(***************************************************************************)

\* The server thread accepts a client at any time, during a match as well.
Accept(c) ==
  /\ c \in Clients \ connected
  /\ \A d \in connected : d < c
  /\ connected' = connected \cup {c}
  /\ active' = active \cup {c}
  /\ UNCHANGED <<pc, next, steps, match, isAlive, batch, given, told, reports,
                 world>>

\* A connection thread ends.
Leave(c) ==
  /\ c \in active \cap Leavers
  /\ active' = active \ {c}
  /\ UNCHANGED <<pc, next, steps, match, isAlive, batch, connected, given,
                 told, reports, world>>

(***************************************************************************)
(* NEW_GAME_REQUEST.                                                       *)
(***************************************************************************)

\* Mutant: the clients that are active are removed.
ActiveRemoved == connected \ active

\* removeAllInactiveClients
Remaining == active

\* main waits for two clients; newMatch removes the inactive ones and counts.
NewMatch ==
  /\ pc = "main_menu"
  /\ Cardinality(connected) >= 2
  /\ connected' = Remaining
  /\ numberOfPlayers' = Cardinality(connected')
  /\ pc' = "new_game"
  /\ UNCHANGED <<next, steps, invited, roster, lastHp, isAlive, batch, active,
                 given, told, reports, world>>

\* The keys of a map in the order of an iteration over it.
InOrder(S) ==
  {s \in [1 .. Cardinality(S) -> S] :
     \A i, j \in DOMAIN s : i < j => s[i] < s[j]}

\* getClients
ListClients ==
  /\ pc = "new_game"
  /\ invited' \in InOrder(connected)
  /\ pc' = "invite"
  /\ UNCHANGED <<next, steps, numberOfPlayers, roster, lastHp, isAlive, batch,
                 net, reports, world>>

\* Mutant: the number newMatch counted.
CountedByNewMatch == numberOfPlayers

\* The number of players NEW_GAME.request announces.
PlayersToAnnounce == Len(invited)

\* Mutant: players are numbered from 1.
AnnounceFromOne(c) ==
  IF c \in active
  THEN /\ number' = [number EXCEPT ![c] = next + 1]
       /\ announced' = [announced EXCEPT ![c] = PlayersToAnnounce]
  ELSE UNCHANGED given

\* NEW_GAME.request to the next client ...
Announce(c) ==
  IF c \in active
  THEN /\ number' = [number EXCEPT ![c] = next]
       /\ announced' = [announced EXCEPT ![c] = PlayersToAnnounce]
  ELSE UNCHANGED given

\* ... which answers in time ...
Joins(c) ==
  /\ c \in active
  /\ roster' = Append(roster, c)
  /\ World!AddPlayer(PlayerOf(c))
  /\ lastHp' = [lastHp EXCEPT ![c] = World!PlayerHP]

\* ... or does not, or is not there any more.
StaysOut == UNCHANGED <<roster, lastHp, world>>

Invite ==
  /\ pc = "invite"
  /\ next < Len(invited)
  /\ Announce(invited[next + 1])
  /\ Joins(invited[next + 1]) \/ StaysOut
  /\ next' = next + 1
  /\ UNCHANGED <<pc, steps, numberOfPlayers, invited, isAlive, batch, connected,
                 active, told, reports>>

EndInvite ==
  /\ pc = "invite"
  /\ next = Len(invited)
  /\ pc' = "place_food"
  /\ next' = 0
  /\ UNCHANGED <<steps, match, isAlive, batch, net, reports, world>>

\* positionFood; Food::Food sets isAlive.
PlaceFood ==
  /\ pc = "place_food"
  /\ next < Len(roster) * FoodPerPlayer
  /\ World!AddFood(FoodOf(next))
  /\ isAlive' = Append(isAlive, TRUE)
  /\ next' = next + 1
  /\ UNCHANGED <<pc, steps, match, batch, net, reports>>

StartMatch ==
  /\ pc = "place_food"
  /\ next = Len(roster) * FoodPerPlayer
  /\ pc' = "food_update"
  /\ next' = 0
  /\ UNCHANGED <<steps, match, isAlive, batch, net, reports, world>>

(***************************************************************************)
(* The updates.                                                            *)
(***************************************************************************)

\* What a client holds after the states of a request, stored by their numbers.
Stored(view, b) ==
  [n \in DOMAIN view |-> IF \E s \in ToSet(b) : s.no = n
                         THEN (CHOOSE s \in ToSet(b) : s.no = n).state
                         ELSE view[n]]

\* Every active client is sent the request.
TellFood(b) ==
  told' = [c \in Clients |-> IF c \notin active THEN told[c]
             ELSE [told[c] EXCEPT !.food = Stored(@, b)]]

TellPlayers(b) ==
  told' = [c \in Clients |-> IF c \notin active THEN told[c]
             ELSE [told[c] EXCEPT !.hp = Stored(@, b)]]

NFood == Len(isAlive)

\* Mutant: a request is sent only once the loop has come to its end.
FoodDueAtEnd(b) == b # <<>> /\ next = NFood - 1

\* Mutant: only a full batch is sent.
FoodDueWhenFull(b) == Len(b) = MaxFoodUpdates

\* The batch is sent when it is full, and at the end of the loop unless empty.
FoodDue(b) == Len(b) = MaxFoodUpdates \/ (b # <<>> /\ next = NFood - 1)

FoodBatch(b) ==
  IF FoodDue(b) THEN TellFood(b) /\ batch' = <<>>
  ELSE batch' = b /\ UNCHANGED told

\* FOOD_UPDATE_REQUEST: all the food there is.
SendFood ==
  /\ pc = "food_update"
  /\ next < NFood
  /\ FoodBatch(Append(batch, [no |-> next, state |-> hp[FoodOf(next)]]))
  /\ next' = next + 1
  /\ UNCHANGED <<pc, steps, match, isAlive, connected, active, given, reports,
                 world>>

EndSendFood ==
  /\ pc = "food_update"
  /\ next = NFood
  /\ pc' = "player_update"
  /\ next' = 0
  /\ UNCHANGED <<steps, match, isAlive, batch, net, reports, world>>

\* Mutant: playerNo counts the states of the request.
PlayerStateInBatch ==
  [no |-> Len(batch), state |-> hp[PlayerOf(roster[next + 1])]]

PlayerState == [no |-> next, state |-> hp[PlayerOf(roster[next + 1])]]

\* A turn of the loop over the players; the last one's batch is never empty.
SendPlayer ==
  /\ next < Len(roster)
  /\ LET b == Append(batch, PlayerState)
     IN  IF Len(b) = MaxPlayerUpdates \/ next = Len(roster) - 1
         THEN TellPlayers(b) /\ batch' = <<>>
         ELSE batch' = b /\ UNCHANGED told
  /\ next' = next + 1
  /\ UNCHANGED <<pc, steps, match, isAlive, connected, active, given, reports,
                 world>>

EndSendPlayers(phase) ==
  /\ next = Len(roster)
  /\ pc' = phase
  /\ next' = 0
  /\ UNCHANGED <<steps, match, isAlive, batch, net, reports, world>>

\* PLAYER_UPDATE_REQUEST
UpdatePlayers ==
  /\ pc = "player_update"
  /\ SendPlayer \/ EndSendPlayers("move")

\* GAME_OVER_REQUEST sends the same states.
GameOver ==
  /\ pc = "game_over"
  /\ SendPlayer \/ EndSendPlayers("game_end")

(***************************************************************************)
(* MOVE_REQUEST.                                                           *)
(***************************************************************************)

\* The clients are asked for their angles.
Move ==
  /\ pc = "move"
  /\ pc' = "world"
  /\ UNCHANGED <<next, steps, match, isAlive, batch, net, reports, world>>

StartStep ==
  /\ pc = "world"
  /\ steps < StepsPerMove
  /\ World!StartStep
  /\ UNCHANGED <<pc, next, steps, match, isAlive, batch, net, reports>>

InStep ==
  /\ pc = "world"
  /\ World!Simulate
  /\ UNCHANGED <<pc, next, steps, match, isAlive, batch, net, reports>>

EndStep ==
  /\ pc = "world"
  /\ World!Update
  /\ steps' = steps + 1
  /\ UNCHANGED <<pc, next, match, isAlive, batch, net, reports>>

\* Mutant: dead or alive.
RefreshedAlways(c) == c \in ToSet(roster)

\* The players Player::updateSprite does something for.
Refreshed(c) == c \in ToSet(roster) /\ World!Alive(PlayerOf(c))

\* Player::updateSprite of all players.
UpdateSprites ==
  /\ pc = "world"
  /\ steps = StepsPerMove
  /\ lastHp' = [c \in Clients |->
       IF Refreshed(c) THEN hp[PlayerOf(c)] ELSE lastHp[c]]
  /\ steps' = 0
  /\ pc' = "report"
  /\ UNCHANGED <<next, numberOfPlayers, invited, roster, isAlive, batch, net,
                 reports, world>>

\* Mutant: isAlive stays true.
NewlyEatenForgets(n) ==
  /\ isAlive[n + 1] /\ ~World!Alive(FoodOf(n))
  /\ UNCHANGED isAlive

\* Food::updateSprite returns true.
NewlyEaten(n) ==
  /\ isAlive[n + 1] /\ ~World!Alive(FoodOf(n))
  /\ isAlive' = [isAlive EXCEPT ![n + 1] = FALSE]

\* The food eaten since the last time.
ReportFood ==
  /\ pc = "report"
  /\ next < NFood
  /\ \/ /\ NewlyEaten(next)
        /\ reports' = [reports EXCEPT ![next] = @ + 1]
        /\ FoodBatch(Append(batch, [no |-> next, state |-> 0]))
     \/ /\ ~isAlive[next + 1] \/ World!Alive(FoodOf(next))
        /\ FoodBatch(batch)
        /\ UNCHANGED <<isAlive, reports>>
  /\ next' = next + 1
  /\ UNCHANGED <<pc, steps, match, connected, active, given, world>>

EndReport ==
  /\ pc = "report"
  /\ next = NFood
  /\ pc' = "player_update"
  /\ next' = 0
  /\ UNCHANGED <<steps, match, isAlive, batch, net, reports, world>>

\* Game::finish, between two calls of update.
Finish ==
  /\ pc \in {"main_menu", "new_game", "food_update", "player_update", "move",
             "game_end"}
  /\ next = 0
  /\ pc' = "game_over"
  /\ UNCHANGED <<next, steps, match, isAlive, batch, net, reports, world>>

Update ==
  \/ NewMatch \/ ListClients \/ Invite \/ EndInvite
  \/ PlaceFood \/ StartMatch
  \/ SendFood \/ EndSendFood \/ UpdatePlayers \/ GameOver
  \/ Move \/ StartStep \/ InStep \/ EndStep \/ UpdateSprites
  \/ ReportFood \/ EndReport

Next ==
  \/ \E c \in Clients : Accept(c) \/ Leave(c)
  \/ Update
  \/ Finish

Spec == Init /\ [][Next]_vars

(***************************************************************************)
(* Properties.                                                             *)
(***************************************************************************)

\* Clients that were there from the start of the match and still are.
Audience == active \cap ToSet(invited)

\* Before a MOVE request every such client knows exactly which food is left,
\* however the food was divided into requests.
FoodViewExact ==
  pc = "move" =>
    \A c \in Audience, n \in 0 .. NFood - 1 :
      told[c].food[n] = IF World!Alive(FoodOf(n)) THEN 1 ELSE 0

\* It knows the hitpoints of every player as well, and so it does when it has
\* been told that the game is over.
PlayerViewExact ==
  pc \in {"move", "game_end"} =>
    \A c \in Audience, i \in 0 .. Len(roster) - 1 :
      told[c].hp[i] = hp[PlayerOf(roster[i + 1])]

\* Food is reported eaten in one MOVE phase only: the one it was eaten in.
EatenReportedOnce ==
  /\ \A n \in DOMAIN reports : reports[n] <= 1
  /\ pc = "move" =>
       \A n \in 0 .. NFood - 1 : reports[n] = 1 <=> ~World!Alive(FoodOf(n))

\* No request outgrows its buffer.
BatchFits ==
  Len(batch) < IF pc \in {"food_update", "report"} THEN MaxFoodUpdates
               ELSE MaxPlayerUpdates

\* Violated (amcom_packets.h:72 "Player number"): the number under which a
\* player's state is sent is the player number it was given in NEW_GAME.
NumbersAgree ==
  \A i \in 1 .. Len(roster) : number[roster[i]] = i - 1

\* What remains of that: the numbers given in NEW_GAME are those of a match of
\* this size, in the order in which the players' states are sent, and the two
\* agree when every client that was invited has joined.
NumbersInOrder ==
  /\ \A i \in 1 .. Len(roster) :
       i - 1 <= number[roster[i]] /\ number[roster[i]] < Len(invited)
  /\ \A i, j \in 1 .. Len(roster) :
       i < j => number[roster[i]] < number[roster[j]]
  /\ pc # "invite" /\ Len(roster) = Len(invited) => NumbersAgree

\* Whoever is there from the start of the match to its end has been told of a
\* winner: a player with hitpoints left (GAME_OVER_REQUEST, MutualEatListener).
WinnerKnown ==
  pc = "game_end" /\ roster # <<>> =>
    \A c \in Audience : \E i \in 0 .. Len(roster) - 1 : told[c].hp[i] > 0

\* What main prints for a player after a MOVE phase is the hitpoints it has or,
\* once it was eaten, those it had when the phase that it did not survive began
\* (Player::updateSprite runs after the five steps and leaves the dead alone):
\* the same that the clients were last told before.  What it ate in that very
\* phase is not in them.
ShowsHp ==
  pc = "player_update" /\ next = 0 =>
    \A i \in 0 .. Len(roster) - 1 :
      LET c == roster[i + 1]
      IN  IF World!Alive(PlayerOf(c)) THEN lastHp[c] = hp[PlayerOf(c)]
          ELSE /\ lastHp[c] > 0
               /\ \A d \in Audience :
                    told[d].hp[i] > 0 => lastHp[c] = told[d].hp[i]

\* No player is heard of whose number is not below the number of players that
\* NEW_GAME announced: clients may be accepted while the match is set up, after
\* newMatch has counted them (numberOfPlayers is stale by then).
AnnouncedCovers ==
  \A c \in Audience, i \in 0 .. Cardinality(Clients) - 1 :
    told[c].hp[i] # Unknown => i < announced[c]
=============================================================================
