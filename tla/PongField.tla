------------------------------ MODULE PongField ------------------------------
(***************************************************************************)
(* The playing field of the UDP Pong example as a pure function: one step  *)
(* of the simulation (example/pong_server.cpp, step), and what the client  *)
(* accepts of a snapshot (example/pong-client.cpp, parse_state).  The      *)
(* scores only ever grow and decide nothing, so they are left out.         *)
(***************************************************************************)
EXTENDS Integers

CONSTANTS
    Width, Height, PaddleHeight,    \* of the server (24, 12, 3)
    StartY,                         \* where paddles start (4)
    ViewWidth, ViewHeight, ViewTop  \* the ranges that the client, a program of its
                                    \* own, repeats as numbers (24, 12, 9)

ASSUME FieldAssumption ==
    /\ Width \in Nat /\ Height \in Nat /\ PaddleHeight \in Nat /\ StartY \in Nat
    /\ Width >= 3 /\ Height >= 2
    /\ StartY + PaddleHeight <= Height

\* The two programs are built for the same board.
ASSUME ViewAssumption ==
    /\ ViewWidth \in Nat /\ ViewHeight \in Nat /\ ViewTop \in Nat
    /\ Width <= ViewWidth /\ Height <= ViewHeight /\ Height - PaddleHeight <= ViewTop

Directions == {-1, 0, 1}
Velocities == {-1, 1}

\* Every field whose paddles and ball are on the board.
Fields == [ly : 0..(Height - PaddleHeight), ry : 0..(Height - PaddleHeight),
           x : 0..(Width - 1), y : 0..(Height - 1), dx : Velocities, dy : Velocities]

Clamp(n, low, high) == IF n < low THEN low ELSE IF n > high THEN high ELSE n

\* reset_ball
ResetBall(f, direction) ==
    [f EXCEPT !.x = Width \div 2, !.y = Height \div 2, !.dx = direction, !.dy = 1]

StartField ==
    ResetBall([ly |-> StartY, ry |-> StartY, x |-> 0, y |-> 0, dx |-> 1, dy |-> 1], 1)

\* The paddle at height top covers row y.
Covers(top, y) == y >= top /\ y < top + PaddleHeight

\* Mutant: a ball that the paddle misses flies on over the goal line.
StepNoGoal(f, left, right) ==
    LET ly == Clamp(f.ly + left, 0, Height - PaddleHeight)
        ry == Clamp(f.ry + right, 0, Height - PaddleHeight)
        dy == IF f.y + f.dy \in 0..(Height - 1) THEN f.dy ELSE -f.dy
    IN  [ly |-> ly, ry |-> ry, x |-> f.x + f.dx, y |-> f.y + dy, dx |-> f.dx, dy |-> dy]

\* step() with both players seated: paddles move, the ball bounces off the walls
\* and the paddles, and a ball at the edge scores and is put back.
FieldStep(f, left, right) ==
    LET ly == Clamp(f.ly + left, 0, Height - PaddleHeight)
        ry == Clamp(f.ry + right, 0, Height - PaddleHeight)
        dy == IF f.y + f.dy < 0 \/ f.y + f.dy >= Height THEN -f.dy ELSE f.dy
        y  == f.y + dy
        hitLeft  == f.x + f.dx = 2 /\ f.dx < 0 /\ Covers(ly, y)
        hitRight == f.x + f.dx = Width - 3 /\ f.dx > 0 /\ Covers(ry, y)
        dx == IF hitLeft THEN 1 ELSE IF hitRight THEN -1 ELSE f.dx
        g  == [ly |-> ly, ry |-> ry, x |-> f.x + dx, y |-> y, dx |-> dx, dy |-> dy]
    IN  IF g.x <= 0 THEN ResetBall(g, 1)
        ELSE IF g.x >= Width - 1 THEN ResetBall(g, -1)
        ELSE g

\* parse_state: the ranges of a snapshot.
Parses(f) ==
    /\ f.ly >= 0 /\ f.ry >= 0 /\ f.ly <= ViewTop /\ f.ry <= ViewTop
    /\ f.x >= 0 /\ f.x < ViewWidth
    /\ f.y >= 0 /\ f.y < ViewHeight

\* The field starts on the board, and whatever the players do, a step and the reset
\* after a departure leave it there: no snapshot is ever refused by parse_state.
FieldSound ==
    /\ StartField \in Fields
    /\ \A f \in Fields : Parses(f) /\ ResetBall(f, 1) \in Fields
    /\ \A f \in Fields, left \in Directions, right \in Directions :
          FieldStep(f, left, right) \in Fields
===============================================================================
