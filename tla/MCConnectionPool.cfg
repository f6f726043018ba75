CONSTANTS
  c1 = c1  c2 = c2  c3 = c3  c4 = c4
  t1 = t1  t2 = t2
  Tab = {t1, t2}
  Name = {n1}
  Call = {c1, c2, c3, c4}
  TabOf <- MCTabOf
  NoCall = NoCall
SPECIFICATION Spec
INVARIANTS
  OneConnection
  GivenUsable
  NoLostWaiter
PROPERTIES
  CallsSettle
  SharedSpec
CHECK_DEADLOCK FALSE
