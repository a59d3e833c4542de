CONSTANTS
  MaxPending = 2
  MaxSubmissions = 1
  TimeoutFrames = 2
  MaxWork = 2
  WorkFrames = 3
  MaxRequests = 3
  MaxWorks = 2
  MaxSessions = 2
SPECIFICATION FairSpec
CHECK_DEADLOCK FALSE
INVARIANT AnsweredOnce
INVARIANT BusyIsAsked
PROPERTY WorkAnswered
