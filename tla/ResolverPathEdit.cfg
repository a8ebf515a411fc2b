CONSTANTS
  p = p
  q = q
  r = r
  Package <- MCPackage
  Version <- MCVersion
  Scenario <- MCScenario
  Project <- MCProject
  Rewritten <- MCRewritten
  MaxRounds = 8
  MaxEdits = 1
SPECIFICATION Spec
INVARIANT
  FullGraphLocked
CHECK_DEADLOCK FALSE
