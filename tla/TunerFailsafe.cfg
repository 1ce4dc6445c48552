SPECIFICATION WSpec
CONSTANTS
  GcsModes = {"MANUAL"}
  Orders = {"js_arm", "disarm", "autotune"}
  EnvFaults = {"leak"}
  Depths = {"none", "deep", "shallow"}
  MaxMoves = 0
  BatHold = 0
  SurfHold = 0
  LockMiss = FALSE
INVARIANTS
  TunerYieldsToFailsafe
