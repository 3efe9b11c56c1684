\* One job whose payload nobody can decode.
SPECIFICATION Spec
CONSTANTS
  Jobs = {j1, j2}
  Malformed = {j1}
  Consumers = {c1}
  MaxRetries = 1
  MaxReturn = 100
  NTables = 2
  Nearby = 2
  Maintained = TRUE
  Budgets <- Undisturbed
INVARIANTS
  TerminalDeadLetters
CHECK_DEADLOCK FALSE
