\* the status of a settled period, which the documentation calls final
CONSTANTS
  Backends   <- PostgreSQLOnly
  Closers    = {c1, c2}
  Appliers   = {a1}
  TxnIds     <- MCTxnIds
  MaxWrites  = 2
  MaxRenames = 0
  Nobody     = Nobody
SPECIFICATION Spec
PROPERTY SettledIsFinal
