\* requests that overlap, and more of them than there are ids of tokens
SPECIFICATION Spec
CONSTANTS
  Users = {a, b}
  Tokens = {t1, t2, t3, t4}
  Requests = {r1, r2}
  NoToken = NoToken
  Idle = Idle
SYMMETRY Symmetry
INVARIANTS
  TypeOK
  OneLivePerLogin
  EndedStaysOut
PROPERTIES
  KeepsPromise
