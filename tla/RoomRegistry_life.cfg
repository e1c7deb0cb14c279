SPECIFICATION SceneSpec
CONSTANTS
  p1 = p1
  p2 = p2
  h1 = h1
  h2 = h2
  People <- TwoPeople
  MaxMade = 2
  MaxRooms = 2
  EmptyGrace = 1
  MaxAge = 3
  Idle = 0
  Grace = 1
  Handlers <- OneHandler
  MaxRestarts = 1
  Overlap = FALSE
INVARIANTS
  AnsweredRoomsSurvive
  DeletedStaysDeleted
PROPERTIES
  ClosedOnlyWarned
  EveryRoomEnds
