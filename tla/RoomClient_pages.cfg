SPECIFICATION ClientSpec
CONSTANTS
  h1 = h1
  h2 = h2
  v1 = v1
  People <- TwoHostsOneVisitor
  Hosts <- TwoHosts
  MaxKnocks = 1
  MaxQueue = 1
  KnockTTL = 0
  AdmitTTL = 2
  MaxRestarts = 1
  InstantClicks = FALSE
  Keys = {screen, camera}
  NoKey = NoKey
  MaxCaptures = 2
  MaxPublishers = 4
  MaxAttempts = 2
  MaxDrops = 1
  MaxFailures = 1
  MaxViewers = 5
  MaxShares = 2
  MaxReconnects = 1
INVARIANTS
  CaptureIsHeld
  HeldIsOpen
  WaitersAreShown
  AnsweredAreGone
  RefusedStaysOut
  DeniedMeansOver
SYMMETRY Symmetry
CHECK_DEADLOCK FALSE
