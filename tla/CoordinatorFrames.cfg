CONSTANTS
  software = software
  gpu = gpu
  plain = plain
  NoRenderer = NoRenderer
  NumDisplays = 2
  Renderers <- All
  Bindings <- GpuAndAny
  Device <- Devices
  Deferring <- Gpu
  ZeroCopy <- Gpu
  Moving = {0}
  Software = software
  MaxStrips = 3
  FrameLimit = 3
  Env = {"err", "panic", "overlay", "configure"}
SPECIFICATION FairSpec
INVARIANT AtRest
INVARIANT UnwoundDestroyed
INVARIANT HistoryHonest
INVARIANT BorrowsReported
INVARIANT NothingForgotten
PROPERTY KeepsContract
PROPERTY CallReturns
