CONSTANTS
  Programs <- MCPrograms
  Operands <- MCOperands
  Operators <- MCOperators
  MaxChain = 3
SPECIFICATION Spec
INVARIANTS ReadBack KeepsProgram
PROPERTY Settled
CHECK_DEADLOCK FALSE
