CONSTANTS
  k1 = k1
  k2 = k2
  k3 = k3
  Keys = {k1, k2}
  Caches = {1}
  HomeOf <- OneCache
  Cost <- Uniform
  MaxEntries = 2
  MaxCost = 2
  MaxAge = 1
  Attempts = 2
  Delay = 1
  MaxDelay = 1
  MaxConcurrent = 1
  StartsPerFrame = 1
  CompletionsPerFrame = 1
  Plans <- TwoKeys
  Refusing = {}
  Latency = 0
  MaxLate = 1
  Env = {"fail", "invalidate", "cancel", "clear", "retry", "dispose", "sync", "throw", "decline", "offline"}
SPECIFICATION Spec
INVARIANT BudgetsHold
INVARIANT NoIntruder
INVARIANT BudgetIsFailures
INVARIANT WorkFollowsDemand
