SPECIFICATION FairSpec
CONSTANTS
  QCAP = 3
  MaxTexts = 6
  MAX_ITEMS = 3
  MaxMissions = 3
  Channel = 3
  MaxFaults = 4
  Timeout = 2
  Lag = 1
  Wrap = 7
  Budget = 3
  UncheckedFail = FALSE
  CalLockMiss = FALSE
  LORA_RING_SZ = 8
  Base = 2
  FrameLens = {1, 2, 3}
  Cap = 2
  MaxFrames = 5
INVARIANTS
  QTypeOK
  NoTextLost
  UTypeOK
  StoredWhole
  AckedIsStored
  PTypeOK
  LegacyGone
  OperatorKeepsValue
  SaveNeverSilent
  CalibrationSaved
  FramesWhole
PROPERTIES
  RingIsFifo
  WaitingIsSent
  UploadEnds
  LossReported
  LossIsReal
CHECK_DEADLOCK FALSE
