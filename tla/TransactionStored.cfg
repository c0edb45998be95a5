\* what SQLite stores, with requests that need not overlap
SPECIFICATION Spec
CONSTANTS
  Databases = {"sqlite"}
  Requests = {r1, r2}
  MaxId = 2
  NUsers = 2
  Cents = {1, 2}
  Admins <- MCAdmins
  Samples <- MCSamples
  Contents <- MCContents
  Null = Null
  NoRow = NoRow
  Idle = Idle
SYMMETRY RequestSymmetry
INVARIANT StoredIsValid
\* nobody has to send a request
CHECK_DEADLOCK FALSE
