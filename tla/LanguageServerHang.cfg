CONSTANTS
  a = a
  b = b
  c = c
  None = None
  File = {a, b, c}
  Link <- Chain
  Limit = 2
  MaxOpen = 3
  MaxEdits = 3
SPECIFICATION Spec
INVARIANT
  EvictionEnds
CHECK_DEADLOCK FALSE
