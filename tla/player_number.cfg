SPECIFICATION Spec
CONSTANTS
  Clients = {0, 1}
  Leavers = {}
  FoodPerPlayer = 1
  MaxPlayerUpdates = 2
  MaxFoodUpdates = 2
  StepsPerMove = 1
INVARIANT NumbersAgree
CHECK_DEADLOCK FALSE
