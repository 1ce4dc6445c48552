SPECIFICATION WFairSpec
CONSTANTS
  GcsModes = {"MANUAL", "AUTOTUNE", "MOTOR_TUNE", "AUTO"}
  Orders = {"js_arm", "disarm", "stunt"}
  EnvFaults = {"leak"}
  Depths = {"deep", "shallow"}
  MaxMoves = 0
  BatHold = 0
  SurfHold = 1
  LockMiss = FALSE
INVARIANTS
  FailsafeOwnsThrusters
PROPERTIES
  AbandonedEndsDisarmed
