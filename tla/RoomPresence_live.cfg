SPECIFICATION FairSpec
CONSTANTS
  ana = ana
  bia = bia
  caio = caio
  Browsers <- Two
  MaxSockets = 2
  MaxAsks = 1
  MaxPins = 1
  SendBuffer = 12
  StaleSockets = FALSE
  CloseMayFail = TRUE
 
PROPERTY PresenceCatchesUp
CHECK_DEADLOCK FALSE
