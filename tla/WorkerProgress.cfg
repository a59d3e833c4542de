CONSTANTS
  TableSize = 2
  MaxEvents = 1
  IntMax = 3
  FactRoom = 2
  ByteRoom = 1
  MaxOffset = 0
  Env = {"head", "stop", "timers"}
SPECIFICATION FairSpec
PROPERTY AnswersEventually
PROPERTY ClosesEventually
PROPERTY StopsEventually
