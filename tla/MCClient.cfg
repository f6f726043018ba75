CONSTANTS
  \* members of a room
  Member = {m1, m2}
  MemberFlags = {f1, f2}
  Title = {t1, t2}
  Cursor = {u1}
  MemberCall = {d1, d2}
  MaxDeletions = 2
  Null = Null
  \* sockets and listeners
  l1 = l1  l2 = l2
  f1 = f1  f2 = f2
  Socket = {s1, s2, s3}
  Listener = {l1, l2}
  Packet = {f1, f2}
  Wanted <- MCWanted
  Nobody = Nobody
  \* buffers
  Base = 4
  Items <- MCItems
  Lengths = {0, 3, 8}
  Starts = {0, 2}
  NullValue = 0
  MaxItems = 3
  \* encodings
  SampleBytes = {0, 1, 127, 128, 170, 255}
  MaxBytes = 6
SPECIFICATION MCSpec
SYMMETRY Symmetry
CHECK_DEADLOCK FALSE
INVARIANTS
  ClientTypeOK
  SavedIsKept
  ListenersFollow
  ReadsBack
  CodecsExact
