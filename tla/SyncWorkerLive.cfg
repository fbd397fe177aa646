SPECIFICATION FairWorkerSpec
CONSTANTS
  Good = {m1}
  Bad = {x}
  MaxDeliver = 2
  BatchSize = 2
PROPERTIES AckedLeavesMemory DeliveredIsHandled ShutdownCompletes
