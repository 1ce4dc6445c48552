SPECIFICATION MSpec
CONSTANTS
  GcsModes = {}
  Orders = {"js_arm"}
  EnvFaults = {}
  Depths = {"deep"}
  MaxMoves = 2
  BatHold = 0
  SurfHold = 0
  LockMiss = TRUE
  LateHold = 1
  Pipelined = TRUE
  Aborts = TRUE
  SnapMiss = TRUE
PROPERTIES
  OneTerminalResult
