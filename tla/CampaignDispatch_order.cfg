SPECIFICATION OrderSpec
CONSTANTS
  ana = ana
  bia = bia
  w1 = w1
  w2 = w2
  NumCampaigns = 1
  Contacts <- OneContact
  Reviewed <- NoCampaigns
  Workers <- OneWorker
  BatchSize = 1
  TestBatch = 10
  MaxRequests = 3
  MaxSaves = 1
  MaxHooks = 2
  MaxReplies = 1
  MaxClosings = 1
  MaxFaults = 1
  OneLaunch = FALSE
  HooksOverlap = FALSE
INVARIANTS
  TypeOK
  SentAsOrdered
PROPERTY OnceNeverRegresses
CHECK_DEADLOCK FALSE
