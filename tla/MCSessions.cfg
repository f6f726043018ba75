CONSTANTS
  a1 = a1 a2 = a2
  s1 = s1 s2 = s2 s3 = s3
  i1 = i1 i2 = i2 i3 = i3 i4 = i4
  q1 = q1 q2 = q2
  Accounts = {a1, a2}
  Protected = {a1}
  States = {s1, s2, s3}
  Ids = {i1, i2, i3, i4}
  Requests = {q1, q2}
  Idle = Idle
  None = None
SPECIFICATION Spec
SYMMETRY Symmetry
INVARIANTS
  TypeOK
  OneLiveToken
  PromotionRequired
  InvalidationReachesSuccessors
PROPERTIES
  BanEnforced
