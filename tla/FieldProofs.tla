----------------------------- MODULE FieldProofs -----------------------------
(***************************************************************************)
(* What the functions of the dynamics and of the window promise for fields *)
(* of any size, any positions and velocities, and any strength of the      *)
(* repulsion.                                                              *)
(***************************************************************************)
EXTENDS Field, WellFoundedInduction, TLAPS

Drones == [x : Int, y : Int, vx : Int, vy : Int]

\* Multiplication by Unit, as far as the walls need it.
LEMMA Walls ==
  /\ Unit * (MAX_X - 1) \in Int /\ Unit * MAX_X \in Int
  /\ Unit * (MAX_Y - 1) \in Int /\ Unit * MAX_Y \in Int
  /\ Unit * (MAX_X - 1) >= Unit /\ Unit * (MAX_X - 1) = Unit * MAX_X - Unit
  /\ Unit * (MAX_Y - 1) >= Unit /\ Unit * (MAX_Y - 1) = Unit * MAX_Y - Unit
BY PhysicsAssumption

\* What the fence makes of a drone, coordinate by coordinate (Dynamics_functions.c:57-82).
LEMMA Fenced ==
  ASSUME NEW s \in Drones
  PROVE  LET f == EnforceGeofence(s)
         IN /\ f \in Drones
            /\ f.x = IF s.x >= Unit * (MAX_X - 1) THEN Unit * (MAX_X - 1)
                     ELSE IF s.x <= Unit THEN Unit ELSE s.x
            /\ f.y = IF s.y >= Unit * MAX_Y THEN Unit * (MAX_Y - 1)
                     ELSE IF s.y <= Unit THEN Unit ELSE s.y
            /\ f.vx = IF s.x <= Unit \/ s.x >= Unit * (MAX_X - 1) \/ s.y <= Unit \/ s.y >= Unit * MAX_Y
                      THEN 0 ELSE s.vx
            /\ f.vy = IF s.x <= Unit \/ s.x >= Unit * (MAX_X - 1) \/ s.y <= Unit \/ s.y >= Unit * MAX_Y
                      THEN 0 ELSE s.vy
<1>. DEFINE wx == Unit * (MAX_X - 1)
            wy == Unit * MAX_Y
            wz == Unit * (MAX_Y - 1)
            left == IF s.x <= Unit THEN AtRest(Unit, s.y) ELSE s
            g == IF left.x >= wx THEN AtRest(wx, left.y) ELSE left
            low == IF g.y <= Unit THEN AtRest(g.x, Unit) ELSE g
            f == IF low.y >= wy THEN AtRest(low.x, wz) ELSE low
<1>1. f = EnforceGeofence(s)
  BY DEF EnforceGeofence, FenceX, FenceY
<1>2. Unit \in Int /\ wx \in Int /\ wy \in Int /\ wz \in Int /\ wx >= Unit /\ wz >= Unit /\ wy > Unit
  BY Walls, PhysicsAssumption
<1>. HIDE DEF wx, wy, wz
<1>3. \A x, y \in Int : /\ AtRest(x, y) \in Drones
                        /\ AtRest(x, y).x = x /\ AtRest(x, y).y = y
                        /\ AtRest(x, y).vx = 0 /\ AtRest(x, y).vy = 0
  BY DEF Drones, AtRest
<1>4. \A d \in Drones : d.x \in Int /\ d.y \in Int
  BY DEF Drones
<1>5. /\ left \in Drones /\ left.y = s.y /\ left.x = (IF s.x <= Unit THEN Unit ELSE s.x)
      /\ left.vx = (IF s.x <= Unit THEN 0 ELSE s.vx) /\ left.vy = (IF s.x <= Unit THEN 0 ELSE s.vy)
  BY <1>2, <1>3, <1>4
<1>. HIDE DEF left
<1>6. /\ g \in Drones /\ g.y = s.y /\ g.x = (IF left.x >= wx THEN wx ELSE left.x)
      /\ g.vx = (IF left.x >= wx THEN 0 ELSE left.vx) /\ g.vy = (IF left.x >= wx THEN 0 ELSE left.vy)
  BY <1>2, <1>3, <1>5, <1>4
<1>. HIDE DEF g
<1>7. /\ low \in Drones /\ low.x = g.x /\ low.y = (IF g.y <= Unit THEN Unit ELSE g.y)
      /\ low.vx = (IF g.y <= Unit THEN 0 ELSE g.vx) /\ low.vy = (IF g.y <= Unit THEN 0 ELSE g.vy)
  BY <1>2, <1>3, <1>6, <1>4
<1>. HIDE DEF low
<1>8. /\ f \in Drones /\ f.x = low.x /\ f.y = (IF low.y >= wy THEN wz ELSE low.y)
      /\ f.vx = (IF low.y >= wy THEN 0 ELSE low.vx) /\ f.vy = (IF low.y >= wy THEN 0 ELSE low.vy)
  BY <1>2, <1>3, <1>7, <1>4
<1>. HIDE DEF f
<1>9. s.x \in Int /\ s.y \in Int
  BY DEF Drones
<1>10. f.x = IF s.x >= wx THEN wx ELSE IF s.x <= Unit THEN Unit ELSE s.x
  BY <1>2, <1>5, <1>6, <1>7, <1>8, <1>9
<1>11. f.y = IF s.y >= wy THEN wz ELSE IF s.y <= Unit THEN Unit ELSE s.y
  BY <1>2, <1>5, <1>6, <1>7, <1>8, <1>9
<1>12. /\ f.vx = IF s.x <= Unit \/ s.x >= wx \/ s.y <= Unit \/ s.y >= wy THEN 0 ELSE s.vx
       /\ f.vy = IF s.x <= Unit \/ s.x >= wx \/ s.y <= Unit \/ s.y >= wy THEN 0 ELSE s.vy
  BY <1>2, <1>5, <1>6, <1>7, <1>8, <1>9
<1>. QED  BY <1>1, <1>8, <1>10, <1>11, <1>12 DEF wx, wy, wz

\* Whatever the forces did, the drone is drawn inside the borders (enforce_geofence).
THEOREM FenceHolds ==
  ASSUME NEW s \in Drones
  PROVE  EnforceGeofence(s) \in Drones /\ InsideBorders(EnforceGeofence(s))
<1>. DEFINE f == EnforceGeofence(s)
<1>1. f \in Drones /\ f.x >= Unit /\ f.x < Unit * MAX_X /\ f.y >= Unit /\ f.y < Unit * MAX_Y
  <2>. HIDE DEF f
  <2>1. /\ f \in Drones
        /\ f.x = IF s.x >= Unit * (MAX_X - 1) THEN Unit * (MAX_X - 1)
                 ELSE IF s.x <= Unit THEN Unit ELSE s.x
        /\ f.y = IF s.y >= Unit * MAX_Y THEN Unit * (MAX_Y - 1)
                 ELSE IF s.y <= Unit THEN Unit ELSE s.y
    BY Fenced DEF f
  <2>. QED  BY <2>1, Walls, PhysicsAssumption DEF Drones
<1>. QED  BY <1>1 DEF InsideBorders

\* A drone at a wall or beyond one stands still afterwards: the walls take its whole
\* velocity, also along the wall, and also when it is exactly on the line and is not
\* moved.  Any other drone is left as it is (enforce_geofence).
THEOREM WallStops ==
  ASSUME NEW s \in Drones
  PROVE  LET atWall == \/ s.x <= Unit \/ s.x >= Unit * (MAX_X - 1)
                       \/ s.y <= Unit \/ s.y >= Unit * MAX_Y
         IN /\ atWall => EnforceGeofence(s).vx = 0 /\ EnforceGeofence(s).vy = 0
            /\ ~atWall => EnforceGeofence(s) = s
<1>. DEFINE atWall == \/ s.x <= Unit \/ s.x >= Unit * (MAX_X - 1)
                      \/ s.y <= Unit \/ s.y >= Unit * MAX_Y
            f == EnforceGeofence(s)
<1>1. /\ f \in Drones
      /\ f.vx = (IF atWall THEN 0 ELSE s.vx) /\ f.vy = (IF atWall THEN 0 ELSE s.vy)
      /\ ~atWall => f.x = s.x /\ f.y = s.y
  BY Fenced
<1>. HIDE DEF f, atWall
<1>2. ASSUME ~atWall PROVE f = s
  BY <1>1, <1>2 DEF Drones
<1>. QED  BY <1>1, <1>2 DEF f, atWall

\* A state that comes back from the server and is fenced again is not changed: the
\* echoes of a state do not move the drone.
THEOREM FenceIdempotent ==
  ASSUME NEW s \in Drones
  PROVE  EnforceGeofence(EnforceGeofence(s)) = EnforceGeofence(s)
<1>. DEFINE f == EnforceGeofence(s)
            g == EnforceGeofence(f)
<1>1. f \in Drones /\ g \in Drones
  BY Fenced
<1>2. g.x = f.x /\ g.y = f.y
  <2>. HIDE DEF f, g
  <2>1. /\ f.x = IF s.x >= Unit * (MAX_X - 1) THEN Unit * (MAX_X - 1)
                 ELSE IF s.x <= Unit THEN Unit ELSE s.x
        /\ f.y = IF s.y >= Unit * MAX_Y THEN Unit * (MAX_Y - 1)
                 ELSE IF s.y <= Unit THEN Unit ELSE s.y
    BY Fenced DEF f
  <2>2. /\ g.x = IF f.x >= Unit * (MAX_X - 1) THEN Unit * (MAX_X - 1)
                 ELSE IF f.x <= Unit THEN Unit ELSE f.x
        /\ g.y = IF f.y >= Unit * MAX_Y THEN Unit * (MAX_Y - 1)
                 ELSE IF f.y <= Unit THEN Unit ELSE f.y
    BY Fenced, <1>1 DEF f, g
  <2>. QED  BY <2>1, <2>2, Walls, PhysicsAssumption DEF Drones
<1>3. g.vx = f.vx /\ g.vy = f.vy
  <2>1. /\ g.vx = f.vx \/ (g.vx = 0 /\ (f.x <= Unit \/ f.x >= Unit * (MAX_X - 1)
                                        \/ f.y <= Unit \/ f.y >= Unit * MAX_Y))
        /\ g.vy = f.vy \/ (g.vy = 0 /\ (f.x <= Unit \/ f.x >= Unit * (MAX_X - 1)
                                        \/ f.y <= Unit \/ f.y >= Unit * MAX_Y))
    BY Fenced, <1>1
  <2>2. (f.x <= Unit \/ f.x >= Unit * (MAX_X - 1) \/ f.y <= Unit \/ f.y >= Unit * MAX_Y)
          => f.vx = 0 /\ f.vy = 0
    BY Fenced, Walls, PhysicsAssumption DEF Drones
  <2>. QED  BY <2>1, <2>2
<1>. QED  BY <1>1, <1>2, <1>3 DEF Drones

\* Targets and obstacles are never in the same cell, whatever the size of the field
\* and whatever is drawn by lot (Targets_Generator.c:88-91, Obstacle_Generator.c:73-76).
THEOREM TargetsApartFromObstacles == TargetCells \cap ObstacleCells = {}
<1>1. \A a, b \in Int : 2 * a + 2 # 2 * b + 1
  OBVIOUS
<1>. QED  BY <1>1, PhysicsAssumption DEF TargetCells, ObstacleCells, Below

\* Whatever is drawn by lot, targets and obstacles are drawn inside the borders, and
\* never in the corner (Targets_Generator.c:88-91, Obstacle_Generator.c:73-76).
THEOREM CellsInside ==
  TargetCells \subseteq Inside /\ ObstacleCells \subseteq Inside
<1>1. \A a, m \in Int : m >= 2 /\ a \in Below((m - 2) \div 2) => 2 * a + 2 \in 1 .. m - 1
  BY DEF Below
<1>2. \A a, m \in Int : m >= 2 /\ a \in Below((m - 1) \div 2) => 2 * a + 1 \in 1 .. m - 1
  BY DEF Below
<1>3. Below((MAX_X - 2) \div 2) \subseteq Int /\ Below((MAX_Y - 2) \div 2) \subseteq Int
      /\ Below((MAX_X - 1) \div 2) \subseteq Int /\ Below((MAX_Y - 1) \div 2) \subseteq Int
  BY DEF Below
<1>4. TargetCells \subseteq Inside
  BY <1>1, <1>3, PhysicsAssumption DEF TargetCells, Inside
<1>5. ObstacleCells \subseteq Inside
  BY <1>2, <1>3, PhysicsAssumption DEF ObstacleCells, Inside
<1>. QED  BY <1>4, <1>5

\* Division by Unit, which the provers take for a function of which they know nothing else.
LEMMA Division ==
  ASSUME NEW d \in Int
  PROVE  /\ d \div Unit \in Int
         /\ Unit * (d \div Unit) <= d /\ d < Unit * (d \div Unit) + Unit
BY PhysicsAssumption

LEMMA Order ==
  ASSUME NEW a \in Int, NEW b \in Int
  PROVE  /\ a <= b => Unit * a <= Unit * b
         /\ Unit * a < Unit * b => a < b
         /\ Unit * a \in Int /\ Unit * b \in Int /\ Unit * (a + 1) = Unit * a + Unit
BY PhysicsAssumption

\* A drone inside the walls of the dynamics is drawn inside those of the window, and
\* on its target only when it covers it: moving on, it never erases a target that
\* has not been hit (Dynamics_functions.c:57-82, Window.c:44-53, 110-115).
THEOREM DrawnInside ==
  ASSUME NEW s \in Drones, InsideBorders(s)
  PROVE  /\ CellOf(s) \in Inside
         /\ Covers(s, CellOf(s))
<1>. DEFINE a == s.x \div Unit
            b == s.y \div Unit
<1>1. /\ a \in Int /\ b \in Int /\ s.x \in Int /\ s.y \in Int
      /\ Unit * a <= s.x /\ s.x < Unit * a + Unit
      /\ Unit * b <= s.y /\ s.y < Unit * b + Unit
  BY Division DEF Drones
<1>2. Unit * 1 = Unit /\ Unit \in Int
  BY PhysicsAssumption
<1>. HIDE DEF a, b
<1>3. 1 <= a /\ a < MAX_X
  BY <1>1, <1>2, Order, PhysicsAssumption DEF InsideBorders
<1>4. 1 <= b /\ b < MAX_Y
  BY <1>1, <1>2, Order, PhysicsAssumption DEF InsideBorders
<1>5. \A d \in Int : 0 <= d /\ d < Unit => InCells(d) = 0
  <2>. TAKE d \in Int
  <2>. SUFFICES ASSUME 0 <= d, d < Unit PROVE d \div Unit = 0
    BY DEF InCells
  <2>. QED  BY Division, Order, <1>2, PhysicsAssumption
<1>6. Covers(s, <<a, b>>)
  <2>1. s.x - Unit * a \in Int /\ 0 <= s.x - Unit * a /\ s.x - Unit * a < Unit
    BY <1>1, <1>2, Order
  <2>2. s.y - Unit * b \in Int /\ 0 <= s.y - Unit * b /\ s.y - Unit * b < Unit
    BY <1>1, <1>2, Order
  <2>. QED  BY <2>1, <2>2, <1>5 DEF Covers
<1>. QED  BY <1>1, <1>3, <1>4, <1>6, PhysicsAssumption DEF CellOf, Inside, a, b

\* No drone inside the walls covers an entry of an array that nobody has filled: the
\* window scores none of those (Window.c:110-120, shared.c:39-52).
THEOREM OriginNeverCovered ==
  ASSUME NEW s \in Drones, InsideBorders(s)
  PROVE  ~Covers(s, Origin)
<1>1. s.x \in Int /\ s.x >= Unit /\ Unit * 0 = 0 /\ s.x - 0 = s.x /\ s.x >= 0
  BY PhysicsAssumption DEF Drones, InsideBorders
<1>2. s.x \div Unit # 0
  <2>1. s.x < Unit * (s.x \div Unit) + Unit /\ Unit \in Int
    BY <1>1, Division, PhysicsAssumption
  <2>. QED  BY <1>1, <2>1
<1>. QED  BY <1>1, <1>2 DEF Covers, Origin, InCells

\* What the signs of a product's factors say of it.
LEMMA Signs ==
  ASSUME NEW g \in Int, NEW d \in Int, NEW w \in Nat
  PROVE  /\ g >= 0 => (g * d * w) * d >= 0
         /\ g <= 0 => (g * d * w) * d <= 0
         /\ g > 0 /\ w > 0 /\ d # 0 => (g * d * w) * d > 0
         /\ g < 0 /\ w > 0 /\ d # 0 => (g * d * w) * d < 0
<1>1. d * d \in Nat
  OBVIOUS
<1>2. \A a, b \in Nat : a * b \in Nat
  OBVIOUS
<1>3. (d * d) * w \in Nat
  BY <1>1, <1>2
<1>4. (g * d * w) * d = g * ((d * d) * w)
  OBVIOUS
<1>5. \A n \in Nat : /\ (g >= 0 => g * n >= 0) /\ (g <= 0 => g * n <= 0)
                    /\ (g > 0 /\ n > 0 => g * n > 0) /\ (g < 0 /\ n > 0 => g * n < 0)
  OBVIOUS
<1>6. w > 0 /\ d # 0 => (d * d) * w > 0
  <2>1. d # 0 => d * d > 0
    OBVIOUS
  <2>2. \A a, b \in Nat : a > 0 /\ b > 0 => a * b > 0
    OBVIOUS
  <2>. QED  BY <1>1, <2>1, <2>2
<1>. QED  BY <1>3, <1>4, <1>5, <1>6

\* As long as the components of the force commanded have no different signs, an
\* obstacle never pulls the drone; and when it is near enough to act, and both
\* components are commanded or none is, it pushes it away along every axis on which it
\* is beside it (compute_repulsion_forces).
THEOREM RepulsionPushes ==
  ASSUME NEW fx \in Int, NEW fy \in Int, NEW dx \in Int, NEW dy \in Int,
         (fx >= 0 /\ fy >= 0) \/ (fx <= 0 /\ fy <= 0)
  PROVE  LET d2 == dx * dx + dy * dy
         IN /\ Push(fx, fy, dx, dy)[1] * dx >= 0 /\ Push(fx, fy, dx, dy)[2] * dy >= 0
            /\ d2 \in Reach /\ Weight[d2] > 0 /\ (fx = 0 <=> fy = 0) =>
                 /\ dx # 0 => Push(fx, fy, dx, dy)[1] * dx > 0
                 /\ dy # 0 => Push(fx, fy, dx, dy)[2] * dy > 0
<1>1. /\ Gain(fx, fy)[1] \in Nat /\ Gain(fx, fy)[2] \in Nat
      /\ (fx = 0 <=> fy = 0) => Gain(fx, fy)[1] > 0 /\ Gain(fx, fy)[2] > 0
  BY DEF Gain
<1>. DEFINE d2 == dx * dx + dy * dy
<1>2. CASE d2 \in Reach
  <2>1. Weight[d2] \in Nat
    BY <1>2, PhysicsAssumption
  <2>2. Push(fx, fy, dx, dy) = <<Gain(fx, fy)[1] * dx * Weight[d2], Gain(fx, fy)[2] * dy * Weight[d2]>>
    BY <1>2 DEF Push
  <2>. DEFINE px == Gain(fx, fy)[1] * dx * Weight[d2]
              py == Gain(fx, fy)[2] * dy * Weight[d2]
  <2>3. /\ px * dx >= 0
        /\ Weight[d2] > 0 /\ (fx = 0 <=> fy = 0) /\ dx # 0 => px * dx > 0
    BY <1>1, <2>1, Signs
  <2>4. /\ py * dy >= 0
        /\ Weight[d2] > 0 /\ (fx = 0 <=> fy = 0) /\ dy # 0 => py * dy > 0
    BY <1>1, <2>1, Signs
  <2>5. Push(fx, fy, dx, dy)[1] = px /\ Push(fx, fy, dx, dy)[2] = py
    BY <2>2
  <2>. HIDE DEF px, py, d2
  <2>. QED  BY <2>3, <2>4, <2>5 DEF d2
<1>3. CASE d2 \notin Reach
  BY <1>3 DEF Push
<1>. QED  BY <1>2, <1>3

\* When they have different signs an obstacle near enough to act pulls the drone, along
\* the axis of the negative component and from every place that is not level with the
\* obstacle on that axis: 4 * force has its sign, and no branch is left for it.  Here
\* the negative component is that of y, and then that of x (Dynamics_functions.c:20-27).
THEOREM RepulsionPulls ==
  ASSUME NEW fx \in Int, NEW fy \in Int, NEW dx \in Int, NEW dy \in Int,
         fx >= 1, fy <= -1,
         dx * dx + dy * dy \in Reach, Weight[dx * dx + dy * dy] > 0
  PROVE  /\ dy # 0 => Push(fx, fy, dx, dy)[2] * dy < 0
         /\ dx # 0 => Push(fy, fx, dx, dy)[1] * dx < 0
<1>1. /\ Gain(fx, fy)[2] = 4 * fy /\ 4 * fy \in Int /\ 4 * fy < 0
      /\ Gain(fy, fx)[1] = 4 * fy
  BY DEF Gain
<1>. DEFINE d2 == dx * dx + dy * dy
<1>2. Weight[d2] \in Nat /\ Weight[d2] > 0
  BY PhysicsAssumption
<1>3. /\ Push(fx, fy, dx, dy)[2] = Gain(fx, fy)[2] * dy * Weight[d2]
      /\ Push(fy, fx, dx, dy)[1] = Gain(fy, fx)[1] * dx * Weight[d2]
  BY DEF Push
<1>. QED  BY <1>1, <1>2, <1>3, Signs

(***************************************************************************)
(* The sum of all pushes, by induction over the obstacles.  The induction  *)
(* theorems of the library are about operators, which no prover here       *)
(* instantiates; for sets they follow from well-foundedness.               *)
(***************************************************************************)
LEMMA Least ==
  ASSUME NEW T \in SUBSET Nat, T # {}
  PROVE  \E m \in T : \A k \in T : m <= k
<1>1. \A k, m \in Nat : k < m => <<k, m>> \in OpToRel(<, Nat)
  BY Zenon DEF OpToRel
<1>2. PICK R : IsWellFoundedOn(R, Nat) /\ \A k, m \in Nat : k < m => <<k, m>> \in R
  BY <1>1, NatLessThanWellFounded, Zenon
<1>3. IsWellFoundedOn(R, Nat) /\ T \subseteq Nat
  BY <1>2
<1>4. \E m \in T : \A k \in T : ~(<<k, m>> \in R)
  BY <1>3, WFMin, Zenon
<1>5. PICK m \in T : \A k \in T : ~(<<k, m>> \in R)
  BY <1>4
<1>6. \A k \in T : ~(k < m)
  BY <1>2, <1>5, Zenon
<1>7. \A k \in T : k \in Nat /\ m \in Nat
  OBVIOUS
<1>. QED  BY <1>6, <1>7

LEMMA UpTo ==
  ASSUME NEW n \in Nat, NEW S, 0 \in S, \A k \in 1 .. n : k - 1 \in S => k \in S
  PROVE  \A k \in 0 .. n : k \in S
<1>. DEFINE T == {k \in 0 .. n : k \notin S}
<1>. SUFFICES ASSUME T # {} PROVE FALSE
  OBVIOUS
<1>1. T \in SUBSET Nat
  OBVIOUS
<1>2. PICK m \in T : \A k \in T : m <= k
  <2>. HIDE DEF T
  <2>. QED  BY <1>1, Least
<1>3. m \in 1 .. n /\ m - 1 \in 0 .. n /\ ~(m <= m - 1)
  BY <1>2
<1>4. m - 1 \in S
  BY <1>2, <1>3
<1>. QED  BY <1>2, <1>3, <1>4

\* The loop has a result for every number of obstacles, and each round adds its own.
LEMMA Rounds ==
  ASSUME NEW n \in Nat, NEW p
  PROVE  \E sum : /\ sum[0] = 0 /\ \A k \in 1 .. n : sum[k] = sum[k - 1] + p[k]
                  /\ Total(p, n) = sum[n]
<1>. DEFINE Sum(m, s) == s = [k \in 0 .. m |-> IF k = 0 THEN 0 ELSE s[k - 1] + p[k]]
            S == {m \in 0 .. n : \E s : Sum(m, s)}
<1>1. 0 \in S
  <2>1. Sum(0, [k \in 0 .. 0 |-> 0])
    OBVIOUS
  <2>. HIDE DEF Sum
  <2>. QED  BY <2>1
<1>2. ASSUME NEW m \in 1 .. n, m - 1 \in S
      PROVE  m \in S
  <2>1. PICK g : Sum(m - 1, g)
    BY <1>2
  <2>. DEFINE h == [k \in 0 .. m |-> IF k = m THEN g[m - 1] + p[m] ELSE g[k]]
  <2>2. \A k \in 0 .. m - 1 : h[k] = g[k]
    OBVIOUS
  <2>3. ASSUME NEW k \in 0 .. m
        PROVE  h[k] = IF k = 0 THEN 0 ELSE h[k - 1] + p[k]
    <3>1. CASE k = m
      BY <2>2, <3>1
    <3>2. CASE k \in 0 .. m - 1
      <4>1. g[k] = IF k = 0 THEN 0 ELSE g[k - 1] + p[k]
        BY <2>1, <3>2
      <4>2. k # 0 => k - 1 \in 0 .. m - 1
        BY <3>2
      <4>. HIDE DEF h
      <4>. QED  BY <2>2, <3>2, <4>1, <4>2
    <3>. QED  BY <3>1, <3>2
  <2>4. h = [k \in 0 .. m |-> h[k]]
    OBVIOUS
  <2>. HIDE DEF h
  <2>5. Sum(m, h)
    BY <2>3, <2>4
  <2>. HIDE DEF Sum
  <2>. QED  BY <2>5
<1>. HIDE DEF S
<1>3. n \in S
  BY <1>1, <1>2, UpTo
<1>. USE DEF S
<1>4. PICK s : Sum(n, s)
  BY <1>3
<1>. DEFINE c == CHOOSE t : Sum(n, t)
<1>5. Sum(n, c)
  BY <1>4
<1>6. Total(p, n) = c[n]
  BY DEF Total
<1>. HIDE DEF c
<1>7. c[0] = 0 /\ \A k \in 1 .. n : c[k] = c[k - 1] + p[k]
  BY <1>5
<1>. QED  BY <1>6, <1>7

\* The sum of numbers of one sign has that sign.
LEMMA TotalSign ==
  ASSUME NEW n \in Nat, NEW p, \A i \in 1 .. n : p[i] \in Int
  PROVE  /\ Total(p, n) \in Int
         /\ (\A i \in 1 .. n : p[i] >= 0) => Total(p, n) >= 0
         /\ (\A i \in 1 .. n : p[i] <= 0) => Total(p, n) <= 0
<1>1. PICK sum : /\ sum[0] = 0 /\ \A k \in 1 .. n : sum[k] = sum[k - 1] + p[k]
                 /\ Total(p, n) = sum[n]
  BY Rounds
<1>. DEFINE Good(k) == /\ sum[k] \in Int
                       /\ (\A i \in 1 .. n : p[i] >= 0) => sum[k] >= 0
                       /\ (\A i \in 1 .. n : p[i] <= 0) => sum[k] <= 0
            S == {k \in 0 .. n : Good(k)}
<1>2. 0 \in S
  BY <1>1
<1>3. ASSUME NEW k \in 1 .. n, k - 1 \in S
      PROVE  k \in S
  BY <1>1, <1>3
<1>. HIDE DEF S
<1>4. n \in S
  BY <1>2, <1>3, UpTo
<1>. QED  BY <1>1, <1>4 DEF S

\* Truncation to cells does not change the side on which an obstacle is.
LEMMA CellsSign ==
  ASSUME NEW d \in Int
  PROVE  /\ InCells(d) \in Int
         /\ d >= 0 => InCells(d) >= 0
         /\ d <= 0 => InCells(d) <= 0
<1>1. \A e \in Nat : e \div Unit \in Nat
  <2>. SUFFICES ASSUME NEW e \in Nat PROVE e \div Unit \in Nat
    OBVIOUS
  <2>1. e \div Unit \in Int /\ e < Unit * (e \div Unit) + Unit
    BY Division
  <2>. DEFINE q == e \div Unit
  <2>2. Unit * (q + 1) = Unit * q + Unit /\ Unit * 0 = 0 /\ Unit * 0 < Unit * (q + 1)
    BY <2>1, Order, PhysicsAssumption
  <2>. HIDE DEF q
  <2>3. 0 < q + 1
    BY <2>1, <2>2, Order DEF q
  <2>. QED  BY <2>1, <2>3 DEF q
<1>2. CASE d >= 0
  <2>1. d \in Nat
    BY <1>2
  <2>2. d \div Unit \in Nat /\ InCells(d) = d \div Unit
    BY <1>1, <1>2, <2>1 DEF InCells
  <2>3. d <= 0 => d \div Unit = 0
    <3>1. ASSUME d = 0, d \div Unit >= 1 PROVE FALSE
      <4>1. Unit * (d \div Unit) <= 0 /\ Unit * 1 <= Unit * (d \div Unit) /\ Unit * 1 > 0
        BY <2>2, <3>1, Division, Order, PhysicsAssumption
      <4>. QED  BY <2>2, <4>1, PhysicsAssumption
    <3>. QED  BY <1>2, <2>2, <3>1
  <2>. QED  BY <1>2, <2>2, <2>3
<1>3. CASE ~(d >= 0)
  <2>1. -d \in Nat /\ d <= 0
    BY <1>3
  <2>2. (-d) \div Unit \in Nat /\ InCells(d) = -((-d) \div Unit)
    BY <1>1, <1>3, <2>1 DEF InCells
  <2>. QED  BY <1>3, <2>2
<1>. QED  BY <1>2, <1>3

\* The sign of one push, for a gain that is not negative.
LEMMA PushSign ==
  ASSUME NEW fx \in Int, NEW fy \in Int, NEW dx \in Int, NEW dy \in Int
  PROVE  /\ Push(fx, fy, dx, dy)[1] \in Int /\ Push(fx, fy, dx, dy)[2] \in Int
         /\ (fx >= 0 /\ fy >= 0) \/ (fx <= 0 /\ fy <= 0) =>
              /\ dx >= 0 => Push(fx, fy, dx, dy)[1] >= 0
              /\ dx <= 0 => Push(fx, fy, dx, dy)[1] <= 0
              /\ dy >= 0 => Push(fx, fy, dx, dy)[2] >= 0
              /\ dy <= 0 => Push(fx, fy, dx, dy)[2] <= 0
<1>1. /\ Gain(fx, fy)[1] \in Int /\ Gain(fx, fy)[2] \in Int
      /\ (fx >= 0 /\ fy >= 0) \/ (fx <= 0 /\ fy <= 0) => Gain(fx, fy)[1] \in Nat /\ Gain(fx, fy)[2] \in Nat
  BY DEF Gain
<1>2. \A g, d \in Int : \A w \in Nat : g * d * w \in Int
  OBVIOUS
<1>3. \A g, w \in Nat : \A d \in Int : (d >= 0 => g * d * w >= 0) /\ (d <= 0 => g * d * w <= 0)
  <2>. SUFFICES ASSUME NEW g \in Nat, NEW w \in Nat, NEW d \in Int
                PROVE  (d >= 0 => g * d * w >= 0) /\ (d <= 0 => g * d * w <= 0)
    OBVIOUS
  <2>1. g * w \in Nat /\ g * d * w = (g * w) * d
    OBVIOUS
  <2>2. \A a \in Nat : (d >= 0 => a * d >= 0) /\ (d <= 0 => a * d <= 0)
    OBVIOUS
  <2>. QED  BY <2>1, <2>2
<1>. DEFINE d2 == dx * dx + dy * dy
<1>4. CASE d2 \in Reach
  <2>1. Weight[d2] \in Nat
    BY <1>4, PhysicsAssumption
  <2>2. /\ Push(fx, fy, dx, dy)[1] = Gain(fx, fy)[1] * dx * Weight[d2]
        /\ Push(fx, fy, dx, dy)[2] = Gain(fx, fy)[2] * dy * Weight[d2]
    BY <1>4 DEF Push
  <2>. QED  BY <1>1, <1>2, <1>3, <2>1, <2>2
<1>5. CASE d2 \notin Reach
  BY <1>5 DEF Push
<1>. QED  BY <1>4, <1>5

\* Any number of obstacles on one side of the drone never move it to that side: the
\* sum of the pushes along an axis points away from them or is zero, as long as the
\* components of the force commanded have no different signs, along with which cells
\* they share and how far they are (Dynamics_functions.c:11-45).
THEOREM TotalPushesAway ==
  ASSUME NEW fx \in Int, NEW fy \in Int, NEW x \in Int, NEW y \in Int, NEW n \in Nat,
         NEW obstacles \in [1 .. n -> Int \X Int],
         (fx >= 0 /\ fy >= 0) \/ (fx <= 0 /\ fy <= 0)
  PROVE  LET total == ComputeRepulsionForces(fx, fy, x, y, n, obstacles)
         IN /\ (\A i \in 1 .. n : x >= Unit * obstacles[i][1]) => total[1] >= 0
            /\ (\A i \in 1 .. n : x <= Unit * obstacles[i][1]) => total[1] <= 0
            /\ (\A i \in 1 .. n : y >= Unit * obstacles[i][2]) => total[2] >= 0
            /\ (\A i \in 1 .. n : y <= Unit * obstacles[i][2]) => total[2] <= 0
<1>. DEFINE dx(i) == x - Unit * obstacles[i][1]
            dy(i) == y - Unit * obstacles[i][2]
            P == Pushes(fx, fy, x, y, n, obstacles)
            px == [i \in 1 .. n |-> P[i][1]]
            py == [i \in 1 .. n |-> P[i][2]]
<1>1. ASSUME NEW i \in 1 .. n
      PROVE  /\ Unit * obstacles[i][1] \in Int /\ Unit * obstacles[i][2] \in Int
             /\ dx(i) \in Int /\ dy(i) \in Int
             /\ px[i] = Push(fx, fy, InCells(dx(i)), InCells(dy(i)))[1]
             /\ py[i] = Push(fx, fy, InCells(dx(i)), InCells(dy(i)))[2]
  <2>1. obstacles[i][1] \in Int /\ obstacles[i][2] \in Int
    OBVIOUS
  <2>2. Unit * obstacles[i][1] \in Int /\ Unit * obstacles[i][2] \in Int
    BY <2>1, PhysicsAssumption
  <2>. QED  BY <2>2 DEF Pushes
<1>2. ComputeRepulsionForces(fx, fy, x, y, n, obstacles) = <<Total(px, n), Total(py, n)>>
  BY DEF ComputeRepulsionForces
<1>. HIDE DEF px, py, P
<1>3. ASSUME NEW i \in 1 .. n
      PROVE  /\ px[i] \in Int /\ py[i] \in Int
             /\ x >= Unit * obstacles[i][1] => px[i] >= 0
             /\ x <= Unit * obstacles[i][1] => px[i] <= 0
             /\ y >= Unit * obstacles[i][2] => py[i] >= 0
             /\ y <= Unit * obstacles[i][2] => py[i] <= 0
  <2>1. /\ x >= Unit * obstacles[i][1] <=> dx(i) >= 0
        /\ x <= Unit * obstacles[i][1] <=> dx(i) <= 0
        /\ y >= Unit * obstacles[i][2] <=> dy(i) >= 0
        /\ y <= Unit * obstacles[i][2] <=> dy(i) <= 0
    <3>1. \A a, b \in Int : (a >= b <=> a - b >= 0) /\ (a <= b <=> a - b <= 0)
      OBVIOUS
    <3>. QED  BY <1>1, <3>1
  <2>2. dx(i) \in Int /\ dy(i) \in Int
    BY <1>1
  <2>. HIDE DEF dx, dy
  <2>3. /\ InCells(dx(i)) \in Int /\ InCells(dy(i)) \in Int
        /\ (dx(i) >= 0 => InCells(dx(i)) >= 0) /\ (dx(i) <= 0 => InCells(dx(i)) <= 0)
        /\ (dy(i) >= 0 => InCells(dy(i)) >= 0) /\ (dy(i) <= 0 => InCells(dy(i)) <= 0)
    BY <2>2, CellsSign
  <2>. DEFINE a == InCells(dx(i))
              b == InCells(dy(i))
  <2>4. /\ Push(fx, fy, a, b)[1] \in Int /\ Push(fx, fy, a, b)[2] \in Int
        /\ (a >= 0 => Push(fx, fy, a, b)[1] >= 0) /\ (a <= 0 => Push(fx, fy, a, b)[1] <= 0)
        /\ (b >= 0 => Push(fx, fy, a, b)[2] >= 0) /\ (b <= 0 => Push(fx, fy, a, b)[2] <= 0)
    <3>1. a \in Int /\ b \in Int
      BY <2>3
    <3>. HIDE DEF a, b
    <3>. QED  BY <3>1, PushSign
  <2>5. px[i] = Push(fx, fy, a, b)[1] /\ py[i] = Push(fx, fy, a, b)[2]
    BY <1>1
  <2>. QED  BY <2>1, <2>3, <2>4, <2>5
<1>4. Total(px, n) \in Int /\ Total(py, n) \in Int
  BY <1>3, TotalSign
<1>5. /\ (\A i \in 1 .. n : px[i] >= 0) => Total(px, n) >= 0
      /\ (\A i \in 1 .. n : px[i] <= 0) => Total(px, n) <= 0
      /\ (\A i \in 1 .. n : py[i] >= 0) => Total(py, n) >= 0
      /\ (\A i \in 1 .. n : py[i] <= 0) => Total(py, n) <= 0
  BY <1>3, TotalSign
<1>. QED  BY <1>2, <1>3, <1>5
=============================================================================
