SPECIFICATION MFairSpec
CONSTANTS
  GcsModes = {"MANUAL"}
  Orders = {"js_arm", "manual_control"}
  EnvFaults = {}
  Depths = {"none", "deep"}
  MaxMoves = 2
  BatHold = 0
  SurfHold = 0
  LockMiss = FALSE
  LateHold = 1
  Pipelined = FALSE
  Aborts = FALSE
  SnapMiss = FALSE
PROPERTIES
  EveryMoveAnswered
INVARIANTS
  MTypeOK
  AcceptedMeansEnded
