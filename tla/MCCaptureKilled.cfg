SPECIFICATION Spec
CONSTANTS
  s1 = s1
  s2 = s2
  s3 = s3
  d1 = d1
  d2 = d2
  v1 = v1
  v2 = v2
  c1 = c1
  c2 = c2
  c3 = c3
  r1 = r1
  r2 = r2
  f1 = f1
  f2 = f2
  Source <- OneSource
  Sqlite <- OneDatabase
  SourceOf <- InEach
  Killable <- OneDatabase
  Sealed <- None
  Service <- None
  Exportable <- None
  Tolerant <- None
  Cut <- None
  File <- TwoFiles
  FileOf <- FileEach
  Run <- OneRun
  Container <- Helpers
  NoSource = NoSource
  NoService = NoService
  NoContainer = NoContainer
SYMMETRY HelperSymmetry
INVARIANT
  ConsistentIsWhole
