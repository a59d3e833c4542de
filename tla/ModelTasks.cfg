CONSTANTS
  f = f
  g = g
  Fns = {f, g}
  Regions = {1, 2}
  Home <- Homes
  Capacity = 1
  Plans <- Menu
  MaxCalls <- Most
  Callees <- Uses
  MaxWaits <- Longest
  MaxCancels = 1
  MaxSpurious = 1
  None = None
SPECIFICATION Spec
CHECK_DEADLOCK FALSE
INVARIANT WaitsAreLive
INVARIANT HostFollows
INVARIANT AnswersAreOwn
PROPERTY CancelIsFinal
