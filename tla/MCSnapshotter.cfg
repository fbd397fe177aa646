SPECIFICATION SnapSpec
CONSTANTS
  Ops <- MCOps2
  Branches <- MCBranches
  BranchOf <- MCBranchOf2
  HlcOf <- MCHlcOf2
  Main = "main"
  Runs = {r1, r2}
  SnapshotEvery = 2
  QueryErrors = TRUE
  MaxBatch = 2
  MaxSnaps = 1
SYMMETRY Symmetry
INVARIANTS SnapTypeOK LossIsExplained
