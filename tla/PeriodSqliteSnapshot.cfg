\* an apply in the SERIALIZABLE session of a sqlite deployment
CONSTANTS
  Backends   <- SQLiteOnly
  Closers    = {c1, c2}
  Appliers   = {a1}
  TxnIds     <- MCTxnIds
  MaxWrites  = 2
  MaxRenames = 0
  Nobody     = Nobody
SPECIFICATION Spec
PROPERTY SettlesASnapshotAnywhere
