SPECIFICATION FairSpec
CONSTANTS
  None = None
  r = r
  a = a
  b = b
  e = e
  g = g
  Root = r
  Task <- MCTask
  External <- MCExternal
  Composed = {g}
  MayHook <- Members
  MayAwait <- Awaits
  MayCancel = {a}
  MayYield = {}
PROPERTIES
  CancelledDropped
