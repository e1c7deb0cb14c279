SPECIFICATION FairSpec
CONSTANTS
  w = w
  r = r
  Messages <- WriteAndRead
  Writes <- OneWrite
  MaxCommands = 1
  MaxCopies = 1
  MaxEventCopies = 1
  MaxCrashes = 1
  LoopsMayFail = FALSE
  MaxHttpFaults = 1
  MaxSendFaults = 0
PROPERTIES
  MessagesAreAnswered
  AlertsGetThrough
CHECK_DEADLOCK FALSE
