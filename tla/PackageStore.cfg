CONSTANTS
  r1 = r1
  r2 = r2
  a = a
  b = b
  Root = {r1, r2}
  Package = {a, b}
  Version = {1, 2}
  Native = {a}
  Together = FALSE
  Faults = {"crash"}
  MaxLoads = 3
  MaxStarts = 3
SPECIFICATION Spec
SYMMETRY RootSymmetry
INVARIANTS
  LockedIsInstalled
  TrustedIsWhole
  OneVersion
CHECK_DEADLOCK FALSE
