SPECIFICATION Spec
CONSTANTS
  n1 = n1
  n2 = n2
  a = a
  b = b
  k1 = k1
  k2 = k2
  k3 = k3
  r1 = r1
  r2 = r2
  r3 = r3
  r4 = r4
  r5 = r5
  NoKey = NoKey
  Secret <- OneSecret
  Passphrase <- TwoPassphrases
  Key <- ThreeKeys
  Request <- FiveCalls
  Exclusive = TRUE
INVARIANTS
  TypeOK
  SecretsStayReadable
  LoadedKeyIsCurrent
PROPERTY KeepsVault
SYMMETRY CallSymmetry
CHECK_DEADLOCK FALSE
