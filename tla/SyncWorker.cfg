SPECIFICATION WorkerSpec
CONSTANTS
  Good = {m1, m2}
  Bad = {}
  MaxDeliver = 2
  BatchSize = 2
INVARIANTS WorkerTypeOK AckedAccountedFor
