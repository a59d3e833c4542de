CONSTANTS
  k1 = k1
  k2 = k2
  k3 = k3
  Keys = {k1, k2, k3}
  Caches = {1, 2}
  HomeOf <- TwoCaches
  Cost <- Uniform
  MaxEntries = 2
  MaxCost = 2
  MaxAge = 0
  Attempts = 2
  Delay = 1
  MaxDelay = 2
  MaxConcurrent = 1
  StartsPerFrame = 1
  CompletionsPerFrame = 1
  Plans <- BesideRefusing
  Refusing = {k1}
  Latency = 1
  MaxLate = 0
  Env = {}
SPECIFICATION FairSpec
PROPERTY RefusalBlocksNobody
