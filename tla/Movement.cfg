SPECIFICATION FairSpec
CONSTANTS
  Axes = {"ahead", "left"}
  MaxSpeed = 3
  Durations = {0, 2, 4}
  Timeouts = {1, 3, 6}
  Beyond = 7
  Orders = 4
  StopAgain = FALSE
INVARIANTS
  TypeOK
  StopsAtRest
PROPERTIES
  EveryMoveEnds
  LoopPhases
