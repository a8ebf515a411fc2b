SPECIFICATION TrySpec
CONSTANTS
  Programs <- Pairs
  MaxEntries = 3
INVARIANTS
  UnwindingExact
PROPERTY RunsAsWritten
