----------------------------- MODULE GameRooms -----------------------------
(***************************************************************************)
(* The game gateway: its one room (CREATE always names NULL_UUID), the     *)
(* queue of frames the players' FRAME messages build, and syncFrame, which *)
(* merges a late frame into the queue and simulates the later ones again.  *)
(* Positions and velocities are those along the court, from goal to goal;  *)
(* a reflection keeps the speed here, where the code raises it by a tenth. *)
(* The gateway sends to the sockets in `clients`, and HANDSHAKE throws     *)
(* before it adds one: no frame is sent to anybody, and sends are left out.*)
(***************************************************************************)
EXTENDS Integers, Sequences

CONSTANTS
  Height, BallRadius, Reach, Serve, MaxVelocity,  \* the court; Reach is both radii
  Strokes,     \* inputs: a sender's paddle, whether it hit, and the ball it saw
  Guess,       \* input: the paddle a sender assumes for its opponent
  NaN,         \* the position that 0 / 0 gives
  MaxFrames    \* bound: frames a player sends in a game

Players == {1, 2}

ASSUME GameAssumption ==
  /\ {Height, BallRadius, MaxVelocity, MaxFrames} \subseteq Nat
  /\ {Reach, Serve} \subseteq Int
  /\ 2 * BallRadius <= Height
  /\ NaN \notin Int

VARIABLES
  players,     \* whether each player's socket is open
  clients,     \* the sockets that completed HANDSHAKE
  members,     \* gameRoomList: how many entries the room has (all are ''), 0 for no room
  worldFrames, \* the room's queue of [fixed, frame]
  sent,        \* history: the paddles each player sent in this game, by frame
  simulated,   \* history: ids of frames that syncFrame has gone over
  reused       \* history: the room was created again over the frames of a game

gameVars == <<players, clients, members, worldFrames, sent, simulated, reused>>

Bodies == [pos : Int \cup {NaN}, vel : Int]
Paddles == [pos : Int, vel : Int]
Frames == [id : Nat, paddle : [Players -> Paddles], hit : [Players -> BOOLEAN],
           ball : Bodies, score : [Players -> Nat]]
Entries == [fixed : BOOLEAN, frame : Frames]

ASSUME StrokesAssumption ==
  /\ Strokes \subseteq [paddle : Paddles, hit : BOOLEAN, ball : Bodies]
  /\ Guess \in Paddles

GameInit ==
  /\ players = [p \in Players |-> FALSE]
  /\ clients = {}
  /\ members = 0
  /\ worldFrames = <<>>
  /\ sent = [p \in Players |-> <<>>]
  /\ simulated = {}
  /\ reused = FALSE

(***************************************************************************)
(* The physics.                                                            *)
(***************************************************************************)

\* NaN is neither less nor greater than anything
Less(x, y) == x # NaN /\ y # NaN /\ x < y
Plus(x, y) == IF x = NaN THEN NaN ELSE x + y

\* Mutant of GetScore: the ball stays behind the goal line.
GetScoreOnly(f) ==
  IF Less(f.ball.pos, BallRadius) THEN [f EXCEPT !.score[1] = @ + 1]
  ELSE IF Less(Height - BallRadius, f.ball.pos) THEN [f EXCEPT !.score[2] = @ + 1]
  ELSE f

\* a ball behind a goal line counts, and is served again from the middle
GetScore(f) ==
  LET served == [pos |-> Height \div 2, vel |-> Serve]
  IN IF Less(f.ball.pos, BallRadius) THEN [f EXCEPT !.score[1] = @ + 1, !.ball = served]
     ELSE IF Less(Height - BallRadius, f.ball.pos)
     THEN [f EXCEPT !.score[2] = @ + 1, !.ball = served]
     ELSE f

Near(f, p) ==
  LET gap == f.paddle[p].pos - f.ball.pos
  IN f.ball.pos # NaN /\ gap \in (- Reach) .. Reach

\* The ball after player p's paddle: put at its edge, thrown back if it came
\* nearer.  Where both centres are the same, the direction is 0 / 0.
Reflected(f, p) ==
  LET normal == f.paddle[p].pos - f.ball.pos
  IN [pos |-> IF normal > 0 THEN f.paddle[p].pos - Reach
              ELSE IF normal < 0 THEN f.paddle[p].pos + Reach ELSE NaN,
      vel |-> (IF normal * f.ball.vel > 0 THEN - f.ball.vel ELSE f.ball.vel)
              + f.paddle[p].vel \div 8]

\* physicsEngine: the first paddle that is hit, the speed limit, the goals
PhysicsEngine(f) ==
  LET hit == [p \in Players |-> Near(f, p) /\ (p = 2 => ~Near(f, 1))]
      ball == IF hit[1] THEN Reflected(f, 1) ELSE IF hit[2] THEN Reflected(f, 2) ELSE f.ball
      limited == [ball EXCEPT !.vel = IF @ > MaxVelocity THEN MaxVelocity ELSE @]
  IN GetScore([f EXCEPT !.hit = hit, !.ball = limited])

(***************************************************************************)
(* syncFrame: the frame of that id takes the sender's paddle, and its ball *)
(* if it was hit; each later one the sender's paddle and the ball moved on *)
(* by their velocities, which start from zero when the id is not queued.   *)
(* The comparison `fixed == true` (line 166) leaves fixed as it is.        *)
(***************************************************************************)
Rest == [pos |-> 0, vel |-> 0]
Moved(body) == [body EXCEPT !.pos = Plus(@, body.vel)]

MergedFrame(player, f, frame) ==
  GetScore([f EXCEPT !.paddle[player] = frame.paddle[player],
                     !.ball = IF frame.hit[1] \/ frame.hit[2] THEN frame.ball ELSE @])

\* Mutant of LaterFrame: the paddle of the other player is moved.
LaterFrameOfOther(player, f, paddle, ball) ==
  PhysicsEngine([f EXCEPT !.paddle[3 - player] = paddle, !.ball = ball])

LaterFrame(player, f, paddle, ball) ==
  PhysicsEngine([f EXCEPT !.paddle[player] = paddle, !.ball = ball])

\* One turn of the loop: what it makes of a queued frame f, and the paddle and the
\* ball that it leaves for the next one.
SyncTurn(player, frame, f, left) ==
  LET paddle == Moved(left.paddle)
      ball == Moved(left.ball)
      merged == MergedFrame(player, f, frame)
  IN IF f.id = frame.id
     THEN [paddle |-> merged.paddle[player], ball |-> merged.ball, frame |-> merged]
     ELSE IF f.id > frame.id
     THEN [paddle |-> paddle, ball |-> ball, frame |-> LaterFrame(player, f, paddle, ball)]
     ELSE [paddle |-> left.paddle, ball |-> left.ball, frame |-> f]

SyncTurns(player, frames, frame) ==
  LET turn[i \in 0 .. Len(frames)] ==
        IF i = 0 THEN [paddle |-> Rest, ball |-> Rest, frame |-> frame]
        ELSE SyncTurn(player, frame, frames[i].frame, turn[i - 1])
  IN turn

SyncFrame(player, frames, frame) ==
  [i \in 1 .. Len(frames) |->
     [frames[i] EXCEPT !.frame = SyncTurns(player, frames, frame)[i].frame]]

\* the splice after a RESYNC: the entries before the first one that is not fixed go
DropFixed(frames) ==
  LET n == CHOOSE n \in 1 .. Len(frames) + 1 :
             /\ n = Len(frames) + 1 \/ ~frames[n].fixed
             /\ \A i \in 1 .. n - 1 : frames[i].fixed
  IN SubSeq(frames, n, Len(frames))

(***************************************************************************)
(* The handlers.  A player sends its frames in order, starting with 1.     *)
(***************************************************************************)
OpenSocket(p) ==
  /\ ~players[p]
  /\ players' = [players EXCEPT ![p] = TRUE]
  /\ UNCHANGED <<clients, members, worldFrames, sent, simulated, reused>>

\* The upgrade is not verified (line 21), so client.auth is undefined: the
\* handler throws, and the exception filter terminates the socket.  A close by
\* the peer does the same; both end in handleServiceDisconnect.
Disconnect(p) ==
  /\ players[p]
  /\ players' = [players EXCEPT ![p] = FALSE]
  /\ clients' = clients \ {p}
  /\ UNCHANGED <<members, worldFrames, sent, simulated, reused>>

\* CREATE: the room is new or starts again, the frames are not touched
CreateRoom(p) ==
  /\ players[p] /\ ~reused                  \* bound: one game after the first
  /\ members' = 1
  /\ sent' = [q \in Players |-> <<>>]
  /\ reused' = (worldFrames # <<>>)
  /\ UNCHANGED <<players, clients, worldFrames, simulated>>

\* Mutant of JoinRoom: rejected when more than three are in the room.
JoinRoomLate(p) ==
  /\ players[p] /\ members \in 1 .. 3
  /\ members' = members + 1
  /\ UNCHANGED <<players, clients, worldFrames, sent, simulated, reused>>

\* JOIN: rejected without a room, or when three are in it
JoinRoom(p) ==
  /\ players[p] /\ members \in 1 .. 2
  /\ members' = members + 1
  /\ UNCHANGED <<players, clients, worldFrames, sent, simulated, reused>>

\* FRAME of player p: queued if it is the newest one, merged otherwise
GetFrame(p, stroke) ==
  LET id == Len(sent[p]) + 1
      frame == [id |-> id, ball |-> stroke.ball, score |-> [q \in Players |-> 0],
                paddle |-> [q \in Players |-> IF q = p THEN stroke.paddle ELSE Guess],
                hit |-> [q \in Players |-> q = p /\ stroke.hit]]
      size == Len(worldFrames)
  IN /\ players[p] /\ members > 0 /\ id <= MaxFrames
     /\ sent' = [sent EXCEPT ![p] = Append(@, stroke.paddle)]
     /\ IF size = 0 \/ worldFrames[size].frame.id < id
        THEN /\ worldFrames' = Append(worldFrames, [fixed |-> FALSE, frame |-> frame])
             /\ UNCHANGED simulated
        ELSE /\ worldFrames' = DropFixed(SyncFrame(p, worldFrames, frame))
             /\ simulated' = simulated \cup
                  {j \in 1 .. MaxFrames : \E i \in 1 .. size :
                     worldFrames[i].frame.id = j /\ j >= id}
     /\ UNCHANGED <<players, clients, members, reused>>

GameNext ==
  \E p \in Players :
    \/ OpenSocket(p) \/ Disconnect(p) \/ CreateRoom(p) \/ JoinRoom(p)
    \/ \E stroke \in Strokes : GetFrame(p, stroke)

GameSpec == GameInit /\ [][GameNext]_gameVars
-----------------------------------------------------------------------------
(***************************************************************************)
(* Properties.                                                             *)
(***************************************************************************)

\* Every variable has its type, and no socket is ever added to clients.
GameTypeOK ==
  /\ players \in [Players -> BOOLEAN]
  /\ clients = {}
  /\ members \in 0 .. 3
  /\ worldFrames \in Seq(Entries)
  /\ sent \in [Players -> Seq(Paddles)]
  /\ simulated \subseteq 1 .. MaxFrames
  /\ reused \in BOOLEAN

\* In the first game of the room, the queue holds the frames in order, each with
\* the paddles that the players themselves sent for it: a paddle assumed by the
\* opponent is replaced, and never comes back when frames are simulated again.
PaddlesKept ==
  ~reused =>
    \A i \in 1 .. Len(worldFrames) :
      /\ worldFrames[i].frame.id = i
      /\ \A p \in Players :
           i <= Len(sent[p]) => worldFrames[i].frame.paddle[p] = sent[p][i]

\* In every frame that syncFrame went over, the ball is between the goal lines,
\* unless it met the very centre of a paddle.
BallInPlay ==
  \A i \in 1 .. Len(worldFrames) :
    worldFrames[i].frame.id \in simulated =>
      worldFrames[i].frame.ball.pos \in BallRadius .. Height - BallRadius \cup {NaN}

\* Both of these, of the frame queue.
FramesKept == PaddlesKept /\ BallInPlay

=============================================================================
