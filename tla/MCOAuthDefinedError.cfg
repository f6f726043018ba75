CONSTANTS
  \* profile
  Accounts = {a1, a2}
  Names = {n1}
  Tags = {t1, t2}
  Keys = {k1, k2}
  Requests = {r1, r2}
  None = None
  \* friends
  Users = {a1, a2}
  Askable <- MCAskable
  Labels = {k1, k2}
  NoRow = NoRow
  Handlers = {r1, r2}
  Unused = Unused
  \* game
  Height = 16
  BallRadius = 2
  Reach = 3
  Serve <- MCServe
  MaxVelocity = 4
  Strokes <- MCStrokes
  Guess <- MCGuess
  NaN = NaN
  MaxFrames = 3
  \* oauth
  Sources = {n1}
  Redirects = {t1, t2}
  States = {k1, k2}
  Flows = {r1, r2}
  Absent = Absent
SPECIFICATION MCSpec
SYMMETRY Symmetry
INVARIANTS
  DefinedErrorRecognised
