SPECIFICATION MCSpec
CONSTANTS
  GcsModes = {"MANUAL", "MOTOR_DETECT", "MOTOR_TUNE"}
  Orders = {"arm", "js_arm", "disarm", "stunt", "pattern", "autotune", "motor_test", "calibrate", "manual_control"}
  EnvFaults = {"leak"}
  Depths = {"shallow"}
  MaxMoves = 0
  BatHold = 0
  SurfHold = 0
  LockMiss = FALSE
INVARIANTS
  InterruptedNeverDrives
  SelfDisarmSticks
  ArmingDropsOldTest
  DisarmDropsSticks
