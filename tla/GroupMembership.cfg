\* two requests that may overlap, against both databases
SPECIFICATION FairSpec
CONSTANTS
  Databases = {"postgresql", "sqlite"}
  Requests = {r1, r2}
  a = a
  b = b
  c = c
  p1 = p1
  p2 = p2
  Users = {a, b, c}
  Groups <- MCGroups
  MaxId = 3
  Periods = {p1, p2}
  Nobody = Nobody
  NoRow = NoRow
  Idle = Idle
  Over = Over
INVARIANTS
  TypeOK
  OneBinding
  OneOwnerUnlessAstray
  DeletedLeavesNothing
PROPERTIES
  LeavesNothingOpen
  RequestsAnswered
\* nobody has to send a request
CHECK_DEADLOCK FALSE
