SPECIFICATION FairSpec
CONSTANTS
  LinkTimeout = 2
  Watchdog = 1
  Fifo = 2
  Upsets = 2
INVARIANTS
  TypeOK
  DeadMan
PROPERTIES
  DisarmStops
  ModeFollows
