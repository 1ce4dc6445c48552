SPECIFICATION MCSpec
CONSTANTS
  GcsModes = {"MANUAL"}
  Orders = {"arm", "disarm", "motor_test"}
  EnvFaults = {}
  Depths = {"shallow"}
  MaxMoves = 0
  BatHold = 0
  SurfHold = 0
  LockMiss = TRUE
INVARIANTS
  ArmingDropsOldTest
