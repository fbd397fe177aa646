SPECIFICATION FairSpec
CONSTANTS
  Ops = {a, b}
  Pushers = {p, q}
  BatchSize = 2
  MaxPushes = 4
INVARIANTS
  TypeOK
  NoLostWakeup
  FifoHandover
  DrainedByStop
PROPERTIES
  EveryOpHandled
  StopCompletes
  ImplementsWriter
CHECK_DEADLOCK FALSE
