SPECIFICATION FairSpec
CONSTANTS
  a1 = a1
  a2 = a2
  a3 = a3
  null = null
  Object = {a1, a2, a3}
  Literal = {null}
  Global = {"exception"}
  Opaque = {}
  Size <- MCSize
  MaxSlots = 1
  MaxFields = 2
INVARIANTS
  NoDangling
PROPERTIES
  FreesOnlyGarbage
  FreesAllGarbage
  CollectionEnds
