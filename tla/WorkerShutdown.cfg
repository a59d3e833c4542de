CONSTANTS
  TableSize = 2
  MaxEvents = 1
  IntMax = 3
  FactRoom = 2
  ByteRoom = 1
  MaxOffset = 2
  Env = {"stop", "fault", "refuse", "gap", "clip", "timers"}
SPECIFICATION Spec
INVARIANT PayloadStable
INVARIANT HonestVerdict
INVARIANT SleepsOnlyWhenDone
INVARIANT FreedAfterNative
INVARIANT SlotInv
PROPERTY KeepsPromise
PROPERTY Contiguous
PROPERTY FactsInsideStream
