SPECIFICATION Spec
CONSTANTS
  ana = ana
  bia = bia
  caio = caio
  Browsers <- Two
  MaxSockets = 3
  MaxAsks = 2
  MaxPins = 0
  SendBuffer = 12
  StaleSockets = FALSE
  CloseMayFail = FALSE
SYMMETRY Renamings
INVARIANTS
  TypeOK
  NoOrphanShare
  SharingHasMedia
  RosterIsRight
CHECK_DEADLOCK FALSE
