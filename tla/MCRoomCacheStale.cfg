CONSTANTS
  Users = {u1, u2}
  Rooms = {r1}
  Tasks = {t1, t2}
  Fills = {f1, f2}
  Idle = Idle
  QueriesFail = FALSE
SPECIFICATION Spec
INVARIANT CacheInvalidated
