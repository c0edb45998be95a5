\* two close and two apply requests against both databases
CONSTANTS
  Backends   <- BothBackends
  Closers    = {c1, c2}
  Appliers   = {a1, a2}
  TxnIds     <- MCTxnIds
  MaxWrites  = 2
  MaxRenames = 1
  Nobody     = Nobody
SPECIFICATION Spec
INVARIANTS
  TypeOK
  OneBatchPerClosing
  ClosedHasDates
PROPERTIES
  SettlesASnapshot
  ImplementsLifecycle
  RequestsAnswered
