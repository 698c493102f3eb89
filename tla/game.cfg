SPECIFICATION Spec
CONSTANTS
  Clients = {0,1,2}
  Leavers = {1}
  FoodPerPlayer = 1
  MaxPlayerUpdates = 2
  MaxFoodUpdates = 2
  StepsPerMove = 1
INVARIANTS
  TypeOK FoodViewExact PlayerViewExact EatenReportedOnce BatchFits
  AnnouncedCovers ShowsHp NumbersInOrder WinnerKnown
CHECK_DEADLOCK FALSE
