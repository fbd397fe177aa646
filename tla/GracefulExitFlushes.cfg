SPECIFICATION WorkerSpec
CONSTANTS
  Good = {m1}
  Bad = {}
  MaxDeliver = 2
  BatchSize = 2
INVARIANT GracefulExitFlushes
