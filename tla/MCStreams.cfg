SPECIFICATION StreamsSpec
CONSTANTS
  PartitionKeys = {"k1", "k2"}
  Batches = {1, 2}
  Events = {1, 2, 3}
  KeyOf <- TwoKeys
  Payload <- TwoBatches
  Nats = {2}
  Ticks = {t1, t2}
  MaxFaults = 2
  Torn = Torn
  Messages = {1, 2, 3, 4}
  BadJson = {3}
  BatchMaxRows = 2
  MaxLoaderFaults = 2
  Tabs = {1, 2}
  OpIds = {1, 2}
  MaxCloses = 1
INVARIANTS
  StreamsTypeOK
  LossExplained ReplayInSpoolOrder
  SkippedIsHandled
  EditSurvives
PROPERTIES
  SpoolEmpties
  MessagesAreStored
CHECK_DEADLOCK FALSE
