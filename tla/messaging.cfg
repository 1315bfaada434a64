SPECIFICATION BusSpec
CONSTANTS
  Peer = {a, b}
  MaxMade = 3
  MaxSaves = 2
  MaxResumes = 2
INVARIANTS
  DirectSurvives
  DeliveredOnce
  QuestionFirst
CHECK_DEADLOCK FALSE
