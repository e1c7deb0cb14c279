SPECIFICATION FairSpec
CONSTANTS
  ana = ana
  bia = bia
  w1 = w1
  w2 = w2
  NumCampaigns = 2
  Contacts <- OneContact
  Reviewed <- NoCampaigns
  Workers <- OneWorker
  BatchSize = 1
  TestBatch = 10
  MaxRequests = 2
  MaxSaves = 0
  MaxHooks = 0
  MaxReplies = 0
  MaxClosings = 0
  MaxFaults = 1
  OneLaunch = TRUE
  HooksOverlap = FALSE
INVARIANT FinishedIsDrained
PROPERTIES
  QueuedIsSent
  DrainedIsFinished
CHECK_DEADLOCK FALSE
