SPECIFICATION EditorSpec
CONSTANTS
  t1 = t1
  t2 = t2
  Tabs <- OneTab
  MaxEdits = 1
  MaxClicks = 1
  MaxNet = 2
  MaxFaults = 1
  MaxFinishes = 1
  Clicks <- EveryButton
  MaxBlocks = 6
  MaxEdges = 5
  MaxChanges = 2
  Palette <- Added
  SegmentSize = 7
  CrmSize = 5
  Limit = 3
INVARIANTS
  TypeOK
  QuietMeansSaved
  PauseHolds
  PublishIsNotRefused
  StatusIsMetas
  RefusedOnlyWhenTorn
  WalksAgree
  NobodyIsInvented
CHECK_DEADLOCK FALSE
