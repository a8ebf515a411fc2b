SPECIFICATION TrySpec
CONSTANTS
  Programs <- Rethrow
  MaxEntries = 3
PROPERTY RunsAsWritten
