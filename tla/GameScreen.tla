----------------------------- MODULE GameScreen -----------------------------
(***************************************************************************)
(* What the player sees: the window, the score, and what the server sends  *)
(* to be drawn, over the resets of the game.  The window draws only what   *)
(* has changed since the last state it drew, so that the screen is right   *)
(* or wrong by the whole history of states.                                *)
(*                                                                         *)
(* The server is reduced to the targets: those of its state and those it   *)
(* read last, which outlive a reset.  The drone of a state is anywhere     *)
(* the fence lets it be, and its obstacles are any list, or none: states   *)
(* are dropped, and older lists come back from the dynamics.  How resets   *)
(* are signalled and taken is in GameLifecycle; here the window takes a    *)
(* reset first, because the server's open waits for the window's.          *)
(***************************************************************************)
EXTENDS Field, FiniteSets, Sequences

CONSTANTS
  Size,           \* the size of the arrays: MAX_TARGETS, MAX_OBSTACLES
  Counts,         \* the numbers of targets the configuration may hold
  TargetLists,    \* lists the generator of targets may send
  ObstacleLists,  \* lists of obstacles a state may hold
  Anywhere,       \* positions the drone may get to before the fence
  Start,          \* where the server's state has the drone at first
  PipeCap,        \* states that fit in the window's FIFO
  MaxResets       \* bound: how often the player resets the game

Indices == 1 .. Size
Arrays == [Indices -> TargetCells \cup {Origin}]
Nothing == [i \in Indices |-> Origin]

\* There are no more targets than obstacles, by which the window's array of flags
\* is sized; with more of them it is written to beyond its end.
ASSUME GameScreenAssumption ==
  /\ Size \in Nat /\ Counts \subseteq 1 .. Size
  /\ TargetLists \subseteq Arrays
  /\ ObstacleLists \subseteq [Indices -> ObstacleCells \cup {Origin}]
  /\ Anywhere \subseteq [x : Int, y : Int, vx : {0}, vy : {0}]
  /\ Start \in [x : Int, y : Int, vx : {0}, vy : {0}] /\ InsideBorders(Start)
  /\ PipeCap \in Nat \ {0} /\ MaxResets \in Nat

VARIABLES
  pressed,                     \* how often the player has pressed 'r'
  server, window,              \* the generations they are in
  n_targets, n_window,         \* n_targets of the server, and of the window
  targets, new_targets,        \* those of its state, those it read last
  fifo,                        \* the generator's list for this generation
  toWindow,                    \* what is to be drawn: the targets of the states
  drawn,                       \* prev_state of the window
  prev_flags, score,           \* prev_flags as a set
  just_got_reset,
  screen,
  lists,                       \* history: the lists drawn since the window's start
  covered,                     \* history: targets covered since then, by index and list
  ghosts                       \* history: indices drawn although they are taken

server_vars == <<server, n_targets, targets, new_targets, fifo>>
game_vars == <<prev_flags, score, just_got_reset>>
window_vars == <<window, n_window, drawn, screen, lists, covered, ghosts, game_vars>>
vars == <<pressed, server_vars, toWindow, window_vars>>

\* An array of targets, with the number of the list it comes from: history.
NoTargets == [of |-> 0, at |-> Nothing]

(***************************************************************************)
(* The screen: the cells something has been printed in, and what, but for  *)
(* the borders, which are around the cells Inside.                         *)
(***************************************************************************)
Printed(shown, cells, sign) == {p \in shown : p[1] \notin cells} \cup (cells \X {sign})
Erase(shown, cells) == {p \in shown : p[1] \notin cells}
Seen(sign) == {p[1] : p \in {q \in screen : q[2] = sign}}

(***************************************************************************)
(* The configuration.  Every process reads it for itself, and the player   *)
(* may be editing it.                                                      *)
(***************************************************************************)
Unreadable == 0

\* Where it cannot be read the variable keeps its value.
get_int_from_json(found, value) == IF found = Unreadable THEN value ELSE found

(***************************************************************************)
(* The player, the server and the generator of targets.                    *)
(***************************************************************************)
\* Only on a running game: for resets in a row see GameLifecycle.
PressReset ==
  /\ pressed < MaxResets /\ server = pressed /\ window = pressed
  /\ pressed' = pressed + 1
  /\ UNCHANGED <<server_vars, toWindow, window_vars>>

\* Entries from n on stay as they are.
FirstOf(n, list, old) ==
  [of |-> list.of, at |-> [i \in Indices |-> IF i <= n THEN list.at[i] ELSE old.at[i]]]

\* Once in a generation, if at all.
SendTargets(list) ==
  /\ fifo = <<>> /\ new_targets.of <= server
  /\ fifo' = <<[of |-> server + 1, at |-> list]>>
  /\ UNCHANGED <<pressed, server, n_targets, targets, new_targets, toWindow, window_vars>>

\* Mutant: the targets are read once only.
ReceivedOnce == IF fifo = <<>> \/ new_targets.of # 0 THEN new_targets ELSE Head(fifo)

Received == IF fifo = <<>> THEN new_targets ELSE Head(fifo)
Gathered == IF fifo = <<>> THEN targets ELSE FirstOf(n_targets, Received, targets)

\* Mutant: select's answer for the window's FIFO is not looked at.
ServerFrameUnchecked ==
  /\ server = window
  /\ new_targets' = Received
  /\ toWindow' = Append(toWindow, [n |-> n_targets, targets |-> Gathered])
  /\ targets' \in {Gathered, FirstOf(n_targets, Received, NoTargets)}
  /\ fifo' = <<>>
  /\ UNCHANGED <<pressed, server, n_targets, window_vars>>

\* A frame: what has come is read, the window gets the state, and then the
\* dynamics may have sent its own, whose targets are replaced by the last ones.
ServerFrame ==
  /\ server = window
  /\ new_targets' = Received
  /\ toWindow' = IF Len(toWindow) < PipeCap
                 THEN Append(toWindow, [n |-> n_targets, targets |-> Gathered])
                 ELSE toWindow
  /\ targets' \in {Gathered, FirstOf(n_targets, Received, NoTargets)}
  /\ fifo' = <<>>
  /\ UNCHANGED <<pressed, server, n_targets, window_vars>>

\* A new state, but new_targets is declared before start.
ServerRestart ==
  /\ server < window
  /\ server' = server + 1
  /\ \E found \in Counts \cup {Unreadable} : n_targets' = get_int_from_json(found, n_targets)
  /\ targets' = NoTargets
  /\ fifo' = <<>>
  /\ UNCHANGED <<pressed, new_targets, toWindow, window_vars>>

(***************************************************************************)
(* draw_simulation(drawn, state).                                          *)
(***************************************************************************)
MovedTargets(state) ==
  {i \in 1 .. drawn.n : drawn.targets.at[i] # state.targets.at[i]}

\* Mutant: the second coordinate is not compared.
MovedSideways(state) ==
  {i \in Indices : drawn.obstacles[i][1] # state.obstacles[i][1]}

MovedObstacles(state) ==
  {i \in Indices : drawn.obstacles[i] # state.obstacles[i]}

\* Mutant: && for ||.
DrawDroneDiagonal(state, shown) ==
  IF drawn.drone.x = state.drone.x \/ drawn.drone.y = state.drone.y THEN shown
  ELSE Printed(Erase(shown, {CellOf(drawn.drone)}), {CellOf(state.drone)}, "+")

DrawDrone(state, shown) ==
  IF drawn.drone = state.drone THEN shown
  ELSE Printed(Erase(shown, {CellOf(drawn.drone)}), {CellOf(state.drone)}, "+")

\* All that have moved are erased before the first is drawn.
DrawObstacles(state, shown) ==
  Printed(Erase(shown, {drawn.obstacles[i] : i \in MovedObstacles(state)}),
        {state.obstacles[i] : i \in Indices}, "O")

\* Mutant: flags, which is cleared at once, instead of prev_flags.
FlaggedNever == {}

\* The flags and the score are static: a restart of the window is noticed here.
Flagged == IF just_got_reset THEN {} ELSE prev_flags

\* Mutant: positions are not truncated to cells.
HitExactly(state) ==
  {i \in 1 .. drawn.n : /\ state.drone.x = Unit * state.targets.at[i][1]
                        /\ state.drone.y = Unit * state.targets.at[i][2]
                        /\ i \notin Flagged}

Hit(state) == {i \in 1 .. drawn.n : Covers(state.drone, state.targets.at[i]) /\ i \notin Flagged}

\* Mutant: what is hit is not erased.
DrawTargetsHit(state, shown) ==
  Printed(Erase(shown, {drawn.targets.at[i] : i \in MovedTargets(state)}),
        {state.targets.at[i] : i \in MovedTargets(state)}, "T")

\* Target by target, what is hit or has moved is erased where it was, and what has
\* moved is drawn where it is, hit or not; a later target may erase it again.
DrawTargets(state, shown) ==
  LET moved == MovedTargets(state)
      erased == moved \cup Hit(state)
      left == {i \in moved : \A j \in erased : j > i => drawn.targets.at[j] # state.targets.at[i]}
      signs == {state.targets.at[i] : i \in left}
                 \cup (IF drawn.n = state.n THEN {} ELSE {state.targets.at[i] : i \in 1 .. state.n})
  IN Printed(Erase(shown, {drawn.targets.at[i] : i \in erased}), signs, "T")

draw_simulation(state) ==
  /\ prev_flags' = Flagged \cup Hit(state)
  /\ score' = (IF just_got_reset THEN 0 ELSE score) + Cardinality(Hit(state))

(***************************************************************************)
(* The window: a state is read and drawn, and then reset is tested.        *)
(***************************************************************************)
\* The drone comes from the fence of the dynamics, but for the first state.
Positions == {Start} \cup {EnforceGeofence(p) : p \in Anywhere}

StatesRead ==
  {[n |-> Head(toWindow).n, targets |-> Head(toWindow).targets, drone |-> drone,
    obstacles |-> obstacles] : drone \in Positions, obstacles \in ObstacleLists \cup {Nothing}}

\* History: all of the state's targets that the drone covers, flagged or not.
CoveredIn(state) ==
  {i \in 1 .. state.n : Covers(state.drone, state.targets.at[i])} \X {state.targets.of}

Draw ==
  /\ toWindow # <<>> /\ window = pressed
  /\ toWindow' = Tail(toWindow)
  /\ drawn' \in StatesRead
  /\ draw_simulation(drawn')
  /\ just_got_reset' = FALSE
  /\ screen' = DrawTargets(drawn', DrawObstacles(drawn', DrawDrone(drawn', screen)))
  /\ lists' = lists \cup ({drawn'.targets.of} \ {0})
  /\ covered' = covered \cup CoveredIn(drawn')
  /\ ghosts' = ghosts \cup (MovedTargets(drawn') \cap prev_flags')
  /\ UNCHANGED <<pressed, server_vars, window, n_window>>

\* The state before the first: without a drone, targets and obstacles.
Undrawn(n) ==
  [n |-> n, targets |-> NoTargets, drone |-> AtRest(0, 0),
   obstacles |-> Nothing]

\* After the last state of a generation the FIFO is closed and the screen cleared.
DrawAndRestart ==
  /\ toWindow # <<>> /\ window < pressed
  /\ \E state \in StatesRead : draw_simulation(state)
  /\ just_got_reset' = TRUE
  /\ window' = window + 1
  /\ \E found \in Counts \cup {Unreadable} : n_window' = get_int_from_json(found, n_window)
  /\ drawn' = Undrawn(n_window')
  /\ screen' = {}
  /\ toWindow' = <<>> /\ lists' = {} /\ covered' = {} /\ ghosts' = {}
  /\ UNCHANGED <<pressed, server_vars>>

Init ==
  /\ pressed = 0 /\ server = 0 /\ window = 0
  /\ n_targets \in Counts /\ n_window \in Counts
  /\ targets = NoTargets /\ new_targets = NoTargets /\ fifo = <<>>
  /\ toWindow = <<>>
  /\ drawn = Undrawn(n_window)
  /\ prev_flags = {} /\ score = 0 /\ just_got_reset = FALSE
  /\ screen = {} /\ lists = {} /\ covered = {} /\ ghosts = {}

Server == ServerFrame \/ ServerRestart
Window == Draw \/ DrawAndRestart

Next ==
  \/ PressReset
  \/ \E list \in TargetLists : SendTargets(list)
  \/ Server
  \/ Window

Spec == Init /\ [][Next]_vars

\* Server and window go on with their loops.  Whether targets are sent depends on
\* other machines.
FairSpec == Spec /\ WF_vars(Server) /\ WF_vars(Window)

(***************************************************************************)
(* Properties                                                              *)
(***************************************************************************)
ArraysOfTargets == [of : 0 .. MaxResets + 1, at : Arrays]

\* The type of the state: main of GameWindow.c and BlackBoardServer.c.
TypeOK ==
  /\ pressed \in 0 .. MaxResets /\ server \in 0 .. window /\ window \in 0 .. pressed
  /\ n_targets \in Counts /\ n_window \in Counts
  /\ targets \in ArraysOfTargets /\ new_targets \in ArraysOfTargets
  /\ fifo = <<>> \/ (Len(fifo) = 1 /\ Head(fifo) \in ArraysOfTargets)
  /\ Len(toWindow) <= PipeCap
  /\ \A k \in DOMAIN toWindow : toWindow[k] \in [n : Counts, targets : ArraysOfTargets]
  /\ drawn.n \in Counts /\ drawn.targets \in ArraysOfTargets
  /\ drawn.drone \in Positions \cup {Undrawn(1).drone}
  /\ drawn.obstacles \in ObstacleLists \cup {Nothing}
  /\ prev_flags \subseteq Indices /\ score \in Nat /\ just_got_reset \in BOOLEAN
  /\ \A p \in screen : p[2] \in {"+", "O", "T"}
  /\ lists \subseteq 1 .. MaxResets + 1 /\ ghosts \subseteq Indices
  /\ covered \subseteq Indices \X (0 .. MaxResets + 1)

\* The precondition of what the window promises: since its start it has been sent one
\* list of targets, and the number of them in its own configuration.
OneList == Cardinality(lists) <= 1 /\ drawn.n = n_window

\* Once the first state of a game is drawn, the score is right: as long as one list has
\* been drawn, in the window's number, it is the number of targets that the drone has
\* been drawn on.  With the list of the game before, the targets of both at one index
\* count once together, so that one of the new list may be hit for nothing; and never
\* is an entry counted that nobody has filled (draw_simulation, Window.c:98-120, with
\* the fence of the dynamics).
ScoreTrue ==
  ~just_got_reset =>
    LET places == {c[1] : c \in covered}
    IN /\ \A c \in covered : c[2] \in 1 .. window + 1
       /\ score <= Cardinality(places)
       /\ drawn.n = n_window => score = Cardinality(places)
       /\ OneList => score = Cardinality(covered)

\* What is still to be hit can be seen, as long as the window has not been sent
\* targets of two lists or a number of them other than its own, although only changes
\* are drawn and drone and obstacles are erased without a look at what is there
\* (Window.c:44-163).
TargetsVisible ==
  OneList =>
    \A i \in 1 .. drawn.n :
      drawn.targets.at[i] # Origin /\ i \notin prev_flags => drawn.targets.at[i] \in Seen("T")

\* Where a target is drawn there is one to be hit, but for those that were drawn
\* when they had been hit already: in the state that brought them, or in the list
\* before (Window.c:126-146).
NoGhosts ==
  \A c \in Seen("T") \ {Origin} :
    \E i \in 1 .. drawn.n : drawn.targets.at[i] = c /\ (i \in prev_flags => i \in ghosts)

\* The obstacles on the screen are those of the last state, whatever was drawn or
\* erased in their places since they appeared (Window.c:61-87).
ObstaclesTrue ==
  Seen("O") \ {Origin} = {drawn.obstacles[i] : i \in Indices} \ {Origin}

\* The drone leaves no trail, and but for its corner the border is not printed over
\* (Window.c:44-53; enforce_geofence).
OneDrone ==
  /\ Seen("+") \subseteq {CellOf(drawn.drone)}
  /\ \A p \in screen : p[1] \in Inside \cup {Origin}

\* Targets that have been sent to the server are drawn in the end, unless another
\* reset comes first: also when those of the generation before are still in
\* new_targets (BlackBoardServer.c:26, 185-199, 261-264).
TargetsReachScreen ==
  \A g \in 0 .. MaxResets :
    (server = g /\ fifo # <<>>) ~> (pressed > g \/ drawn.targets.of = g + 1)
=============================================================================
