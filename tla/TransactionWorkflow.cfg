\* two requests under way at once, against both databases
SPECIFICATION Spec
CONSTANTS
  Databases = {"postgresql", "sqlite"}
  Requests = {r1, r2}
  MaxId = 2
  NUsers = 2
  Cents = {1, 2}
  Admins <- MCAdmins
  Samples <- MCSamples
  Contents <- MCContents
  Null = Null
  NoRow = NoRow
  Idle = Idle
SYMMETRY RequestSymmetry
INVARIANTS
  TypeOK
  ValidUnlessOvertaken
  ApprovedUnlessOvertaken
  SharesHaveTransaction
PROPERTY ApiRowsFrozen
\* nobody has to send a request
CHECK_DEADLOCK FALSE
