------------------------------- MODULE Physics -------------------------------
(***************************************************************************)
(* The functions that the dynamics is made of, in integers: a position is  *)
(* a number of Units, that many to a cell of the screen, and a velocity    *)
(* the like.  1/d^3, irrational in general, is Weight[d^2]; the theorems   *)
(* hold for any weights, and so for the rounded ones of the program.       *)
(***************************************************************************)
EXTENDS Integers

CONSTANTS
  Unit,          \* positions to a cell
  MAX_X, MAX_Y,  \* the size of the field, in cells
  Weight         \* how strong an obstacle is, by the square of its distance

\* An obstacle acts at a distance of less than four cells.
Reach == 1 .. 15

ASSUME PhysicsAssumption ==
  /\ Unit \in Nat \ {0}
  /\ MAX_X \in Nat /\ MAX_X >= 2 /\ MAX_Y \in Nat /\ MAX_Y >= 2
  /\ Weight \in [Reach -> Nat]

\* A difference of two positions as an int, in cells: truncated towards zero.
InCells(d) == IF d >= 0 THEN d \div Unit ELSE -((-d) \div Unit)

(***************************************************************************)
(* compute_repulsion_forces.                                               *)
(***************************************************************************)
\* The push is in proportion to the commanded force, component by component.  As
\* soon as one component is positive both are taken with their sign.
Gain(fx, fy) ==
  IF fx >= 1 \/ fy >= 1 THEN <<4 * fx, 4 * fy>>
  ELSE IF fx <= -1 \/ fy <= -1 THEN <<-(4 * fx), -(4 * fy)>>
  ELSE <<1, 1>>

\* What an obstacle does to a drone that is dx, dy away from it.
Push(fx, fy, dx, dy) ==
  LET d2 == dx * dx + dy * dy
  IN IF d2 \in Reach
     THEN <<Gain(fx, fy)[1] * dx * Weight[d2], Gain(fx, fy)[2] * dy * Weight[d2]>>
     ELSE <<0, 0>>

\* What the loop has added up after all of p[1], ..., p[n].
Total(p, n) ==
  LET sum[k \in 0 .. n] == IF k = 0 THEN 0 ELSE sum[k - 1] + p[k]
  IN sum[n]

\* The pushes of n obstacles, an array of cells, on a drone at x, y.
Pushes(fx, fy, x, y, n, obstacles) ==
  [i \in 1 .. n |-> Push(fx, fy, InCells(x - Unit * obstacles[i][1]),
                                 InCells(y - Unit * obstacles[i][2]))]

ComputeRepulsionForces(fx, fy, x, y, n, obstacles) ==
  LET pushes == Pushes(fx, fy, x, y, n, obstacles)
  IN <<Total([i \in 1 .. n |-> pushes[i][1]], n), Total([i \in 1 .. n |-> pushes[i][2]], n)>>

(***************************************************************************)
(* enforce_geofence.  A wall takes the whole velocity.                     *)
(***************************************************************************)
AtRest(x, y) == [x |-> x, y |-> y, vx |-> 0, vy |-> 0]

FenceX(s) ==
  LET left == IF s.x <= Unit THEN AtRest(Unit, s.y) ELSE s
  IN IF left.x >= Unit * (MAX_X - 1) THEN AtRest(Unit * (MAX_X - 1), left.y) ELSE left

\* The upper wall is where the border is drawn, and the drone is put one cell
\* below it.
FenceY(s) ==
  LET low == IF s.y <= Unit THEN AtRest(s.x, Unit) ELSE s
  IN IF low.y >= Unit * MAX_Y THEN AtRest(low.x, Unit * (MAX_Y - 1)) ELSE low

EnforceGeofence(s) == FenceY(FenceX(s))

\* What the fence promises: the cell the drone is drawn in is inside the borders,
\* which are drawn at 0, MAX_X and MAX_Y.
InsideBorders(s) ==
  /\ s.x >= Unit /\ s.x < Unit * MAX_X
  /\ s.y >= Unit /\ s.y < Unit * MAX_Y
=============================================================================
