SPECIFICATION ServicesSpec
CONSTANTS
  Ops = {1, 2, 3, 4, 5, 6}
  Branches = {"main", "draft"}
  BranchOf <- MCBranchOf
  HlcOf <- MCHlcOf
  Starts = {r1, r2, r3}
  StartKeys = {k1, k2}
  Candidates = {"c1", "c2"}
  Nobody = Nobody
  Ttl = 1
  Callers = {1, 2, 3}
  CallerOf <- ElectionCaller
  Skew <- ClockSkew
  MaxNow = 3
  MaxEpoch = 2
  Capacity = 2
  TtlMs = 2
  MaxBufferTime = 4
  MaxPushes = 4
  MaxSkew = 1
  Creators = {"ann", "bob"}
  Sales = {1, 2, 3}
  CreatorOf <- SaleCreator
  Net <- SaleNet
  MinPayout = 3
  Payable = {"ann", "bob"}
  Passes = {1, 2}
  Frames = {"o1", "bad"}
  Invalid = {"bad"}
  Conns = {1, 2}
  OutCap = 1
  MaxFrames = 2
INVARIANTS
  ServicesTypeOK
  HeadIsLatest
  LateRepeatCreatesNothing
  EpochNamesOnePrimary
  ReplayIsComplete
  LedgerIsBacked CountsTellTheRun
  AnswerIsDurable StoredReachesTheBus
PROPERTIES
  HeadsAdvance
  HeardPrimaryKept
CHECK_DEADLOCK FALSE
