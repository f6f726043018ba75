CONSTANTS
  Sockets = {s1, s2}
  Messages = {m1, m2, m3}
  MaxStamp = 3
  Take = 2
  Fetched = {NoMessage, m1, m2, m3}
  Syncs = {k1, k2}
  Idle = Idle
  NoMessage = NoMessage
SPECIFICATION MCSpec
SYMMETRY Symmetry
INVARIANTS
  TypeOK
  RoomKnown
  NothingMissed
  CursorTold
