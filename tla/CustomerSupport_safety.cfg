SPECIFICATION Spec
CONSTANTS
  w = w
  r = r
  Messages <- OneWrite
  Writes <- OneWrite
  MaxCommands = 2
  MaxCopies = 2
  MaxEventCopies = 1
  MaxCrashes = 1
  LoopsMayFail = TRUE
  MaxHttpFaults = 0
  MaxSendFaults = 1
INVARIANTS
  TypeOK
  OneCommandPerLife
  NotifiedOncePerLife
CHECK_DEADLOCK FALSE
