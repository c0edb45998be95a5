\* an approval that overlaps with its creator's requests, on PostgreSQL
SPECIFICATION Spec
CONSTANTS
  Databases = {"postgresql"}
  Requests = {r1, r2}
  MaxId = 2
  NUsers = 2
  Cents = {1, 2}
  Admins <- MCAdmins
  Samples <- MCSamples
  Contents <- MCContents
  Null = Null
  NoRow = NoRow
  Idle = Idle
SYMMETRY RequestSymmetry
INVARIANT ApprovedAsSubmitted
\* nobody has to send a request
CHECK_DEADLOCK FALSE
