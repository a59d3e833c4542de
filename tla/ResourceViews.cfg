CONSTANTS
  k1 = k1
  k2 = k2
  k3 = k3
  v1 = v1
  v2 = v2
  v3 = v3
  Keys = {k1, k2, k3}
  Caches = {1, 2}
  HomeOf <- Homes
  Cost <- Costs
  MaxEntries = 2
  MaxCost = 2
  MaxAge = 0
  Attempts = 1
  Delay = 1
  MaxDelay = 1
  MaxConcurrent = 1
  StartsPerFrame = 1
  CompletionsPerFrame = 1
  Plans = {}
  Refusing = {}
  Latency = 1
  MaxLate = 0
  Env = {"fail", "invalidate", "clear", "cancel", "dispose"}
  Views = {v1, v2, v3}
  CollectionOf <- Places
  Asks <- Lists
SPECIFICATION ViewSpec
INVARIANT ReadersCurrent
INVARIANT LoadsWanted
INVARIANT ValuesOwned
PROPERTY PlanAdmitted
