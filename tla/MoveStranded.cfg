SPECIFICATION MFairSpec
CONSTANTS
  GcsModes = {"MANUAL"}
  Orders = {"js_arm", "disarm"}
  EnvFaults = {}
  Depths = {"none", "deep", "shallow"}
  MaxMoves = 1
  BatHold = 0
  SurfHold = 0
  LockMiss = FALSE
  LateHold = 1
  Pipelined = FALSE
  Aborts = FALSE
  SnapMiss = FALSE
PROPERTIES
  EveryMoveAnswered
