SPECIFICATION FairSpec
CONSTANTS
  None = None
  fa = fa
  fc = fc
  ft = ft
  ka = ka
  kb = kb
  Leaf <- MCLeaf
  Comp <- MCComp
  Programs <- Calls
  SingleUse = TRUE
  Timed = {ft}
INVARIANTS
  SettlesRight
PROPERTIES
  EventuallySettled
