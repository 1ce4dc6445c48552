SPECIFICATION WSpec
CONSTANTS
  GcsModes = {"MANUAL", "SURFACE"}
  Orders = {"arm", "disarm", "manual_control"}
  EnvFaults = {"battery", "link"}
  Depths = {"none", "deep", "shallow"}
  MaxMoves = 0
  BatHold = 1
  SurfHold = 1
  LockMiss = TRUE
INVARIANTS
  TypeOK
  SurfacedDisarmEarned
  BatteryDebounced
