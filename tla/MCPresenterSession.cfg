SPECIFICATION Spec
CONSTANTS
  Requests = {r1, r2, r3}
  Slides = {s1, s2}
  Presenters = {p1}
  Keys = {k1}
  StartModes = {"live", "rehearsal"}
  NoKey = NoKey
  NoRecord = NoRecord
  InFlight = InFlight
  NoRow = NoRow
SYMMETRY Symmetry
INVARIANTS
  TypeOK
  VersionsAreWrites
  NothingOverwritten
  KeyAppliedOnce
  AuditAccounted
PROPERTY LifecycleKept
