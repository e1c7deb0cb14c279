SPECIFICATION FairSpec
CONSTANTS
  s = s
  Commands <- OneSync
  SyncCommands <- OneSync
  MaxEvents = 2
  BatchLimit = 1
  MaxOutages = 2
  MaxCrashes = 2
  MaxDbFaults = 1
PROPERTIES
  ImplementsDelivery
  OutboxDrains
CHECK_DEADLOCK FALSE
