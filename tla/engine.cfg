SPECIFICATION Spec
CONSTANTS
  PlayerIds = {p1, p2, p3, p4}
  FoodIds = {f1, f2, f3}
SYMMETRY ObjectSymmetry
INVARIANTS TypeOK Conservation SomebodyLives ContestsSettled
PROPERTY DeadStayDead
