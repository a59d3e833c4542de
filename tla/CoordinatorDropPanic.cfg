CONSTANTS
  software = software
  gpu = gpu
  plain = plain
  NoRenderer = NoRenderer
  NumDisplays = 2
  Renderers <- Both
  Bindings <- TwoOnGpu
  Device <- Gpu
  Deferring <- Gpu
  ZeroCopy <- Gpu
  Moving = {}
  Software = software
  MaxStrips = 1
  FrameLimit = 2
  Env = {"err", "panic", "dropPanic"}
SPECIFICATION Spec
INVARIANT UnwoundDestroyed
