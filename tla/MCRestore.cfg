SPECIFICATION Spec
CONSTANTS
  s1 = s1
  s2 = s2
  d1 = d1
  d2 = d2
  r1 = r1
  r2 = r2
  Before = Before
  Stray = Stray
  NoRun = NoRun
  Snapshot <- TwoSnapshots
  Database <- TwoDatabases
  ExportOf <- MoreOfOne
  Archived <- OneDatabase
  Tolerant <- OneDatabase
  Namesake <- OneSnapshot
  Run <- TwoRuns
INVARIANTS
  TypeOK
  OneRestorePerSnapshot
  ReservationIsHeld
  UntouchedIsUntouched
  UndisturbedLoadIsWhole
PROPERTIES
  KeepsReport
SYMMETRY RunSymmetry
CHECK_DEADLOCK FALSE
