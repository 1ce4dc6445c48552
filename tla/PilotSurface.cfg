SPECIFICATION WSpec
CONSTANTS
  GcsModes = {"MANUAL", "SURFACE"}
  Orders = {"js_arm"}
  EnvFaults = {"link"}
  Depths = {"none", "deep", "shallow"}
  MaxMoves = 0
  BatHold = 0
  SurfHold = 0
  LockMiss = FALSE
INVARIANTS
  PilotSurfaceKeepsThrusters
