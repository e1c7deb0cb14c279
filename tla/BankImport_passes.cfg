SPECIFICATION FairSpec
CONSTANTS
  t1 = t1
  t2 = t2
  Tx <- Two
  Old <- Older
  Patches <- SomePatches
  MaxEvents = 2
INVARIANTS
  OnlyTheGapTells
  CorrectionsStand
PROPERTY ImportedOrMissed
CHECK_DEADLOCK FALSE
