\* two callbacks or approvals that may overlap, and as many as there are tokens for
SPECIFICATION Spec
CONSTANTS
  a = a
  b = b
  google = google
  microsoft = microsoft
  Users = {a, b}
  Accounts = {google, microsoft}
  Profile <- MCProfile
  Links = {l1, l2, l3}
  Requests = {r1, r2}
  Nobody = Nobody
  NoLink = NoLink
  Idle = Idle
SYMMETRY Symmetry
INVARIANTS
  TypeOK
  ApprovedAreLinked
  CreatedUsersGetIn
  OnePendingUnlessOverlap
PROPERTIES
  LockedOutForGood
  ExpiredRequestBlocks
