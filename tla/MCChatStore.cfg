CONSTANTS
  c1 = c1  c2 = c2  c3 = c3
  t1 = t1  t2 = t2
  Tab = {t1, t2}
  Name = {r1}
  Call = {c1, c2, c3}
  TabOf <- MCTabOf
  NoCall = NoCall
  Message = {1, 2, 3}
  Stamp <- MCStamp
  NoLimit = NoLimit
  Account = {a1, a2}
  NoRow = NoRow
  NoDatabase = NoDatabase
  NoOp = NoOp
  Batch = {{}, {1, 2}, {2, 3}, {3}}
SPECIFICATION StoreSpec
SYMMETRY Symmetry
INVARIANTS
  StoreTypeOK
  KeptWhileListed
  PagesExact
