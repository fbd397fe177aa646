SPECIFICATION SnapSpec
CONSTANTS
  Ops <- MCOps2
  Branches <- MCBranches
  BranchOf <- MCBranchOf2
  HlcOf <- MCHlcOf2
  Main = "main"
  Runs = {r1}
  SnapshotEvery = 1
  QueryErrors = FALSE
  MaxBatch = 1
  MaxSnaps = 1
PROPERTY RowsConsistent
