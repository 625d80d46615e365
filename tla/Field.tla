-------------------------------- MODULE Field --------------------------------
(***************************************************************************)
(* Where things can be on the field: the cells the generators choose from, *)
(* the drone, and when the window takes the drone to be on a target.       *)
(***************************************************************************)
EXTENDS Physics

\* rand() % n, for any rand().
Below(n) == 0 .. n - 1

\* Targets have even coordinates, and obstacles odd ones.
TargetCells ==
  {<<2 * a + 2, 2 * b + 2>> : a \in Below((MAX_X - 2) \div 2), b \in Below((MAX_Y - 2) \div 2)}

ObstacleCells ==
  {<<2 * a + 1, 2 * b + 1>> : a \in Below((MAX_X - 1) \div 2), b \in Below((MAX_Y - 1) \div 2)}

\* draw_borders leaves these.
Inside == (1 .. MAX_X - 1) \X (1 .. MAX_Y - 1)

\* What an array of the state holds before a generator has sent anything, and
\* after the end of a shorter list.
Origin == <<0, 0>>

\* The cell in which the drone is drawn.
CellOf(drone) == <<drone.x \div Unit, drone.y \div Unit>>

\* Differences are truncated to whole cells, so that this is the target's cell
\* and what is less than a cell to the left of it or above.
Covers(drone, target) ==
  /\ InCells(drone.x - Unit * target[1]) = 0
  /\ InCells(drone.y - Unit * target[2]) = 0
=============================================================================
