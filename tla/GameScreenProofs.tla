-------------------------- MODULE GameScreenProofs --------------------------
(***************************************************************************)
(* The score, and the drone, the obstacles and the targets on the screen,  *)
(* for fields, lists and FIFOs of any size and any number of resets.       *)
(*                                                                         *)
(* The first invariant (IInv) is that an array with targets that are not   *)
(* zero is known to come from a list, that no list is from a later         *)
(* generation, and that the window prints in the cells of targets, of      *)
(* obstacles and of fenced drones only.  On it stands a second one, about  *)
(* the lists that server and window hold at once (HeldInv), the targets of *)
(* those lists that are flagged (FlagInv), and the signs that they have    *)
(* left on the screen (VisibleInv, GhostInv).                              *)
(***************************************************************************)
EXTENDS GameScreen, FieldProofs, FiniteSetTheorems

Real(t) == t.of = 0 => t.at = Nothing

RealTargets ==
  /\ Real(targets) /\ Real(new_targets)
  /\ fifo # <<>> => Head(fifo).of = server + 1
  /\ \A k \in DOMAIN toWindow : Real(toWindow[k].targets)

NoneAhead ==
  /\ targets.of <= server + 1 /\ new_targets.of <= server + 1
  /\ \A k \in DOMAIN toWindow : toWindow[k].targets.of <= window + 1

Types ==
  /\ TypeOK
  /\ fifo \in Seq(ArraysOfTargets)
  /\ toWindow \in Seq([n : Counts, targets : ArraysOfTargets])

ServerInv == Types /\ RealTargets /\ NoneAhead

\* A state that is read has its targets from the FIFO, and a drone inside the walls.
LEMMA PositionsInside ==
  ASSUME NEW d \in Positions
  PROVE  d \in Drones /\ InsideBorders(d)
<1>1. CASE d = Start
  BY <1>1, GameScreenAssumption DEF Drones
<1>2. CASE \E p \in Anywhere : d = EnforceGeofence(p)
  BY <1>2, FenceHolds, GameScreenAssumption DEF Drones
<1>. QED  BY <1>1, <1>2 DEF Positions

LEMMA Read ==
  ASSUME ServerInv, toWindow # <<>>, NEW state \in StatesRead
  PROVE  /\ state.n \in Counts /\ state.targets \in ArraysOfTargets
         /\ Real(state.targets) /\ state.targets.of <= window + 1
         /\ state.drone \in Drones /\ state.drone \in Positions /\ InsideBorders(state.drone)
         /\ state.obstacles \in ObstacleLists \cup {Nothing}
<1>1. /\ 1 \in DOMAIN toWindow /\ Head(toWindow) = toWindow[1]
      /\ toWindow[1] \in [n : Counts, targets : ArraysOfTargets]
  <2>1. \A M : toWindow \in Seq(M) => /\ 1 \in DOMAIN toWindow /\ Head(toWindow) = toWindow[1]
                                      /\ toWindow[1] \in M
    OBVIOUS
  <2>. QED  BY <2>1 DEF ServerInv, Types
<1>2. /\ state.n = toWindow[1].n /\ state.targets = toWindow[1].targets
      /\ state.drone \in Positions /\ state.obstacles \in ObstacleLists \cup {Nothing}
  BY <1>1 DEF StatesRead
<1>. QED  BY <1>1, <1>2, PositionsInside DEF ServerInv, RealTargets, NoneAhead

\* Only what a generator has sent is covered.
LEMMA CoveredAreReal ==
  ASSUME ServerInv, toWindow # <<>>, NEW state \in StatesRead
  PROVE  CoveredIn(state) \subseteq Indices \X (1 .. window + 1)
<1>. SUFFICES ASSUME NEW i \in 1 .. state.n, Covers(state.drone, state.targets.at[i])
              PROVE  i \in Indices /\ state.targets.of \in 1 .. window + 1
  BY DEF CoveredIn
<1>1. i \in Indices
  <2>1. state.n \in 1 .. Size
    BY Read, GameScreenAssumption
  <2>. QED  BY <2>1, GameScreenAssumption DEF Indices
<1>2. state.targets.of # 0
  <2>. SUFFICES ASSUME state.targets.of = 0 PROVE FALSE
    OBVIOUS
  <2>1. state.targets.at[i] = Origin
    BY <1>1, Read DEF Real, Nothing
  <2>. QED  BY <2>1, Read, OriginNeverCovered
<1>3. state.targets.of \in 0 .. MaxResets + 1 /\ window \in Int
  <2>1. state.targets.of \in 0 .. MaxResets + 1
    BY Read DEF ArraysOfTargets
  <2>2. window \in 0 .. pressed /\ pressed \in 0 .. MaxResets
    BY DEF ServerInv, Types, TypeOK
  <2>. QED  BY <2>1, <2>2, GameScreenAssumption
<1>4. state.targets.of <= window + 1 /\ MaxResets \in Nat
  BY Read, GameScreenAssumption
<1>. QED  BY <1>1, <1>2, <1>3, <1>4

\* The score is the number of flags.
Score ==
  /\ prev_flags \subseteq Indices /\ score = Cardinality(prev_flags)
  /\ covered \subseteq Indices \X (1 .. window + 1)

LEMMA FlagsFinite ==
  ASSUME NEW F, F \subseteq Indices
  PROVE  IsFiniteSet(F) /\ Cardinality(F) \in Nat
<1>1. IsFiniteSet(Indices)
  <2>1. 1 \in Int /\ Size \in Int
    BY GameScreenAssumption
  <2>. QED  BY <2>1, FS_Interval DEF Indices
<1>. QED  BY <1>1, FS_Subset, FS_CardinalityType

LEMMA ScoreStep ==
  ASSUME ServerInv, Score, toWindow # <<>>, NEW state \in StatesRead, draw_simulation(state)
  PROVE  /\ prev_flags' \subseteq Indices
         /\ score' \in Nat /\ score' = Cardinality(prev_flags')
<1>. DEFINE flags0 == Flagged
            score0 == IF just_got_reset THEN 0 ELSE score
            H == Hit(state)
<1>1. flags0 \subseteq Indices /\ score0 = Cardinality(flags0)
  BY FS_EmptySet DEF Score, Flagged
<1>2. H \subseteq Indices /\ H \cap flags0 = {}
  <2>1. drawn.n \in 1 .. Size
    BY GameScreenAssumption DEF ServerInv, Types, TypeOK
  <2>. QED  BY <2>1, GameScreenAssumption DEF Hit, Indices
<1>3. prev_flags' = flags0 \cup H /\ score' = score0 + Cardinality(H)
  BY DEF draw_simulation
<1>. HIDE DEF flags0, score0, H
<1>4. /\ IsFiniteSet(flags0) /\ Cardinality(flags0) \in Nat
      /\ IsFiniteSet(H) /\ Cardinality(H) \in Nat
  BY <1>1, <1>2, FlagsFinite
<1>5. Cardinality(flags0 \cup H) = Cardinality(flags0) + Cardinality(H)
  <2>1. Cardinality(flags0 \cup H)
          = Cardinality(flags0) + Cardinality(H) - Cardinality(flags0 \cap H)
    BY <1>4, FS_Union
  <2>2. Cardinality(flags0 \cap H) = 0
    BY <1>2, FS_EmptySet
  <2>. QED  BY <1>4, <2>1, <2>2
<1>. QED  BY <1>1, <1>2, <1>3, <1>4, <1>5

(***************************************************************************)
(* The screen.                                                             *)
(***************************************************************************)
Printable == Inside \cup {Origin}

ScreenInv ==
  /\ \A p \in screen : p[1] \in Printable /\ p[2] \in {"+", "O", "T"}
  /\ \A p \in screen : p[2] = "+" => p[1] = CellOf(drawn.drone)
  /\ \A p \in screen : p[2] = "O" /\ p[1] # Origin => \E i \in Indices : drawn.obstacles[i] = p[1]
  /\ \A i \in Indices : drawn.obstacles[i] # Origin => <<drawn.obstacles[i], "O">> \in screen

\* Targets are erased and printed in the cells of targets only.
LEMMA TargetsPrinted ==
  ASSUME ServerInv, toWindow # <<>>, NEW state \in StatesRead, NEW shown
  PROVE  \E cells, signs \in SUBSET (TargetCells \cup {Origin}) :
           DrawTargets(state, shown) = Printed(Erase(shown, cells), signs, "T")
<1>. DEFINE moved == MovedTargets(state)
            erased == moved \cup Hit(state)
            left == {i \in moved : \A j \in erased : j > i => drawn.targets.at[j] # state.targets.at[i]}
            signs == {state.targets.at[i] : i \in left}
                       \cup (IF drawn.n = state.n THEN {} ELSE {state.targets.at[i] : i \in 1 .. state.n})
            cells == {drawn.targets.at[i] : i \in erased}
<1>1. DrawTargets(state, shown) = Printed(Erase(shown, cells), signs, "T")
  BY DEF DrawTargets
<1>2. 1 .. drawn.n \subseteq Indices /\ 1 .. state.n \subseteq Indices
  <2>1. drawn.n \in Counts /\ state.n \in Counts
    BY Read DEF ServerInv, Types, TypeOK
  <2>2. \A n \in Counts : n \in Int /\ n <= Size
    BY GameScreenAssumption
  <2>3. \A n \in Int : n <= Size => 1 .. n \subseteq 1 .. Size
    BY GameScreenAssumption
  <2>. QED  BY <2>1, <2>2, <2>3 DEF Indices
<1>3. moved \subseteq Indices /\ erased \subseteq Indices /\ left \subseteq Indices
  BY <1>2 DEF MovedTargets, Hit
<1>4. \A i \in Indices : /\ drawn.targets.at[i] \in TargetCells \cup {Origin}
                         /\ state.targets.at[i] \in TargetCells \cup {Origin}
  BY Read, SMTT(60) DEF ServerInv, Types, TypeOK, ArraysOfTargets, Arrays
<1>. HIDE DEF moved, erased, left
<1>5. cells \subseteq TargetCells \cup {Origin} /\ signs \subseteq TargetCells \cup {Origin}
  BY <1>2, <1>3, <1>4
<1>. QED  BY <1>1, <1>5

LEMMA ScreenStep ==
  ASSUME ServerInv, ScreenInv, toWindow # <<>>, drawn' \in StatesRead,
         screen' = DrawTargets(drawn', DrawObstacles(drawn', DrawDrone(drawn', screen)))
  PROVE  ScreenInv'
<1>. DEFINE state == drawn'
            D == DrawDrone(state, screen)
            old == {drawn.obstacles[i] : i \in MovedObstacles(state)}
            new == {state.obstacles[i] : i \in Indices}
            E == DrawObstacles(state, D)
<1>1. PICK cells, signs \in SUBSET (TargetCells \cup {Origin}) :
        screen' = Printed(Erase(E, cells), signs, "T")
  BY TargetsPrinted
<1>2. E = {p \in {q \in D : q[1] \notin old} : p[1] \notin new} \cup (new \X {"O"})
  BY DEF DrawObstacles, Printed, Erase
<1>3. screen' = {p \in {q \in E : q[1] \notin cells} : p[1] \notin signs} \cup (signs \X {"T"})
  BY <1>1 DEF Printed, Erase
<1>4. \/ D = screen /\ drawn.drone = state.drone
      \/ D = {p \in {q \in screen : q[1] \notin {CellOf(drawn.drone)}} : p[1] \notin {CellOf(state.drone)}}
               \cup ({CellOf(state.drone)} \X {"+"})
  BY DEF DrawDrone, Printed, Erase
<1>5. /\ CellOf(state.drone) \in Inside
      /\ \A i \in Indices : /\ drawn.obstacles[i] \in ObstacleCells \cup {Origin}
                            /\ state.obstacles[i] \in ObstacleCells \cup {Origin}
  <2>1. \A o \in ObstacleLists \cup {Nothing} : \A i \in Indices : o[i] \in ObstacleCells \cup {Origin}
    BY GameScreenAssumption DEF Nothing
  <2>2. drawn.obstacles \in ObstacleLists \cup {Nothing} /\ state.obstacles \in ObstacleLists \cup {Nothing}
    BY Read DEF ServerInv, Types, TypeOK
  <2>. QED  BY <2>1, <2>2, Read, DrawnInside
<1>6. MovedObstacles(state) = {i \in Indices : drawn.obstacles[i] # state.obstacles[i]}
  BY DEF MovedObstacles
<1>. HIDE DEF state, D, E
<1>7. \A p \in D : /\ p[1] \in Printable /\ p[2] \in {"+", "O", "T"}
                   /\ p[2] = "+" => p[1] = CellOf(state.drone)
                   /\ p[2] = "O" => p \in screen
  BY <1>4, <1>5 DEF ScreenInv, Printable
<1>8. new \subseteq ObstacleCells \cup {Origin}
  BY <1>5
<1>9. \A p \in E : /\ p[1] \in Printable /\ p[2] \in {"+", "O", "T"}
                   /\ p[2] = "+" => p[1] = CellOf(state.drone)
                   /\ p[2] = "O" => p[1] \in new \/ (p \in screen /\ p[1] \notin old)
  <2>. HIDE DEF new, old
  <2>. QED  BY <1>2, <1>7, <1>8, CellsInside DEF Printable
<1>10. \A p \in screen' : \/ p \in E
                          \/ p[1] \in TargetCells \cup {Origin} /\ p[2] = "T"
  BY <1>3
<1>11. \A p \in screen' : /\ p[1] \in Printable /\ p[2] \in {"+", "O", "T"}
                          /\ p[2] = "+" => p[1] = CellOf(state.drone)
  BY <1>9, <1>10, CellsInside DEF Printable
<1>12. ASSUME NEW p \in screen', p[2] = "O", p[1] # Origin
       PROVE  \E i \in Indices : state.obstacles[i] = p[1]
  <2>1. p[1] \in new \/ (p \in screen /\ p[1] \notin old)
    BY <1>9, <1>10, <1>12
  <2>2. CASE p \in screen /\ p[1] \notin old
    <3>1. PICK i \in Indices : drawn.obstacles[i] = p[1]
      BY <1>12, <2>2 DEF ScreenInv
    <3>2. i \notin MovedObstacles(state)
      BY <2>2, <3>1
    <3>. QED  BY <1>6, <3>1, <3>2
  <2>. QED  BY <2>1, <2>2
<1>13. ASSUME NEW i \in Indices, state.obstacles[i] # Origin
       PROVE  <<state.obstacles[i], "O">> \in screen'
  <2>1. <<state.obstacles[i], "O">> \in E
    <3>1. state.obstacles[i] \in new
      OBVIOUS
    <3>. HIDE DEF new
    <3>. QED  BY <1>2, <3>1
  <2>2. state.obstacles[i] \notin TargetCells \cup {Origin}
    BY <1>5, <1>13, TargetsApartFromObstacles
  <2>. QED  BY <1>3, <2>1, <2>2
<1>. QED  BY <1>11, <1>12, <1>13 DEF ScreenInv, state

(***************************************************************************)
(* The steps.                                                              *)
(***************************************************************************)
IInv == ServerInv /\ Score /\ ScreenInv

LEMMA Lists ==
  ASSUME NEW n, NEW list \in ArraysOfTargets, NEW old, old.at \in Arrays
  PROVE  /\ FirstOf(n, list, old) \in ArraysOfTargets /\ FirstOf(n, list, old).of = list.of
         /\ Real(list) /\ (list.of = 0 => old.at = Nothing) => Real(FirstOf(n, list, old))
<1>. DEFINE at == [i \in Indices |-> IF i <= n THEN list.at[i] ELSE old.at[i]]
<1>1. list.at \in Arrays /\ list.of \in 0 .. MaxResets + 1
  BY DEF ArraysOfTargets
<1>2. at \in Arrays
  BY <1>1 DEF Arrays
<1>3. list.at = Nothing /\ old.at = Nothing => at = Nothing
  BY DEF Nothing
<1>4. FirstOf(n, list, old) = [of |-> list.of, at |-> at]
  BY DEF FirstOf
<1>. HIDE DEF at
<1>. QED  BY <1>1, <1>2, <1>3, <1>4 DEF Real, ArraysOfTargets

LEMMA NothingIsAnArray ==
  /\ Nothing \in Arrays /\ NoTargets \in ArraysOfTargets /\ Real(NoTargets)
  /\ NoTargets.of = 0 /\ NoTargets.at = Nothing
<1>1. Nothing \in Arrays
  BY DEF Nothing, Arrays
<1>. QED  BY <1>1, GameScreenAssumption DEF NoTargets, ArraysOfTargets, Real

LEMMA FifoTypes ==
  ASSUME NEW M, NEW s \in Seq(M)
  PROVE  /\ \A k \in DOMAIN s : s[k] \in M
         /\ s # <<>> => /\ Head(s) = s[1] /\ 1 \in DOMAIN s /\ Tail(s) \in Seq(M)
                        /\ Len(Tail(s)) = Len(s) - 1
                        /\ \A k \in DOMAIN Tail(s) : k + 1 \in DOMAIN s /\ Tail(s)[k] = s[k + 1]
         /\ \A m \in M : /\ Append(s, m) \in Seq(M) /\ Len(Append(s, m)) = Len(s) + 1
                         /\ \A k \in DOMAIN Append(s, m) :
                              Append(s, m)[k] = m \/ (k \in DOMAIN s /\ Append(s, m)[k] = s[k])
OBVIOUS

LEMMA InitIInv == Init => IInv
<1>. SUFFICES ASSUME Init PROVE IInv
  OBVIOUS
<1>1. drawn = Undrawn(n_window) /\ n_window \in Counts
  BY DEF Init
<1>2. /\ drawn.n \in Counts /\ drawn.targets = NoTargets /\ drawn.drone = Undrawn(1).drone
      /\ drawn.obstacles = Nothing
  BY <1>1 DEF Undrawn
<1>3. TypeOK
  <2>1. MaxResets \in Nat /\ PipeCap \in Nat
    BY GameScreenAssumption
  <2>2. /\ pressed \in 0 .. MaxResets /\ server \in 0 .. window /\ window \in 0 .. pressed
        /\ Len(toWindow) <= PipeCap /\ DOMAIN toWindow = {}
    BY <2>1 DEF Init
  <2>. QED  BY <1>2, <2>2, NothingIsAnArray DEF Init, TypeOK
<1>4. Types
  BY <1>3 DEF Types, Init
<1>5. RealTargets /\ NoneAhead
  BY NothingIsAnArray DEF RealTargets, NoneAhead, Init
<1>6. Score
  BY FS_EmptySet DEF Score, Init
<1>7. ScreenInv
  BY <1>2 DEF ScreenInv, Init, Nothing
<1>. QED  BY <1>4, <1>5, <1>6, <1>7 DEF IInv, ServerInv

LEMMA PressResetStep == IInv /\ PressReset => IInv'
<1>. SUFFICES ASSUME IInv, PressReset PROVE IInv'
  OBVIOUS
<1>1. TypeOK'
  BY GameScreenAssumption DEF IInv, ServerInv, Types, TypeOK, PressReset, server_vars, window_vars, game_vars
<1>2. /\ Types' /\ RealTargets' /\ NoneAhead'
  BY <1>1 DEF IInv, ServerInv, Types, RealTargets, NoneAhead, PressReset, server_vars, window_vars
<1>3. Score' /\ ScreenInv'
  BY DEF IInv, Score, ScreenInv, PressReset, window_vars, game_vars
<1>. QED  BY <1>2, <1>3 DEF IInv, ServerInv

LEMMA SendTargetsStep ==
  ASSUME IInv, NEW list \in TargetLists, SendTargets(list)
  PROVE  IInv'
<1>. DEFINE sent == [of |-> server + 1, at |-> list]
<1>1. fifo' = <<sent>> /\ UNCHANGED <<pressed, server, n_targets, targets, new_targets, toWindow, window_vars>>
  BY DEF SendTargets
<1>2. sent \in ArraysOfTargets /\ sent.of = server + 1
  BY GameScreenAssumption DEF IInv, ServerInv, Types, TypeOK, ArraysOfTargets
<1>. HIDE DEF sent
<1>3. fifo' \in Seq(ArraysOfTargets) /\ Len(fifo') = 1 /\ Head(fifo') = sent
  BY <1>1, <1>2
<1>4. TypeOK'
  BY <1>1, <1>2, <1>3 DEF IInv, ServerInv, Types, TypeOK, window_vars, game_vars
<1>5. Types' /\ RealTargets' /\ NoneAhead'
  BY <1>1, <1>2, <1>3, <1>4 DEF IInv, ServerInv, Types, RealTargets, NoneAhead, window_vars
<1>6. Score' /\ ScreenInv'
  BY <1>1 DEF IInv, Score, ScreenInv, window_vars, game_vars
<1>. QED  BY <1>5, <1>6 DEF IInv, ServerInv

LEMMA ServerFrameStep == IInv /\ ServerFrame => IInv'
<1>. SUFFICES ASSUME IInv, ServerFrame PROVE IInv'
  OBVIOUS
<1>. DEFINE M == [n : Counts, targets : ArraysOfTargets]
            message == [n |-> n_targets, targets |-> Gathered]
<1>1. /\ server = window /\ new_targets' = Received
      /\ toWindow' = (IF Len(toWindow) < PipeCap THEN Append(toWindow, message) ELSE toWindow)
      /\ targets' \in {Gathered, FirstOf(n_targets, Received, NoTargets)}
      /\ fifo' = <<>>
      /\ UNCHANGED <<pressed, server, n_targets, window_vars>>
  BY DEF ServerFrame
<1>2. /\ targets \in ArraysOfTargets /\ new_targets \in ArraysOfTargets
      /\ fifo # <<>> => Head(fifo) \in ArraysOfTargets /\ Head(fifo).of = server + 1
      /\ Real(targets) /\ Real(new_targets) /\ server \in Nat
      /\ targets.of <= server + 1 /\ new_targets.of <= server + 1
      /\ n_targets \in Counts /\ toWindow \in Seq(M) /\ Len(toWindow) <= PipeCap
  BY GameScreenAssumption DEF IInv, ServerInv, Types, TypeOK, RealTargets, NoneAhead
<1>3. Received \in ArraysOfTargets /\ Real(Received) /\ Received.of <= server + 1
  BY <1>2 DEF Received, Real
<1>4. \A t \in ArraysOfTargets : t.at \in Arrays
  BY DEF ArraysOfTargets
<1>5. Gathered \in ArraysOfTargets /\ Real(Gathered) /\ Gathered.of <= server + 1
  <2>1. CASE fifo = <<>>
    BY <1>2, <2>1 DEF Gathered
  <2>2. CASE fifo # <<>>
    <3>1. Received = Head(fifo) /\ Received.of # 0
      BY <1>2, <2>2 DEF Received
    <3>2. Gathered = FirstOf(n_targets, Received, targets)
      BY <2>2 DEF Gathered
    <3>. QED  BY <1>2, <1>3, <1>4, <3>1, <3>2, Lists
  <2>. QED  BY <2>1, <2>2
<1>6. targets' \in ArraysOfTargets /\ Real(targets)' /\ targets'.of <= server + 1
  <2>1. LET f == FirstOf(n_targets, Received, NoTargets)
        IN f \in ArraysOfTargets /\ Real(f) /\ f.of <= server + 1
    BY <1>3, Lists, NothingIsAnArray
  <2>. QED  BY <1>1, <1>5, <2>1 DEF Real
<1>7. message \in M /\ message.targets = Gathered /\ message.n = n_targets
  BY <1>2, <1>5
<1>. HIDE DEF message
<1>8. /\ toWindow' \in Seq(M) /\ Len(toWindow') <= PipeCap
      /\ \A k \in DOMAIN toWindow' : toWindow'[k] = message \/ (k \in DOMAIN toWindow /\ toWindow'[k] = toWindow[k])
  <2>. HIDE DEF M
  <2>1. Len(toWindow) \in Nat /\ PipeCap \in Nat
    BY <1>2, GameScreenAssumption
  <2>. QED  BY <1>1, <1>2, <1>7, <2>1, FifoTypes
<1>9. \A k \in DOMAIN toWindow' : /\ toWindow'[k] \in M /\ Real(toWindow'[k].targets)
                                  /\ toWindow'[k].targets.of <= window + 1
  <2>1. \A k \in DOMAIN toWindow : /\ toWindow[k] \in M /\ Real(toWindow[k].targets)
                                   /\ toWindow[k].targets.of <= window + 1
    <3>1. \A k \in DOMAIN toWindow : toWindow[k] \in M
      BY <1>2, FifoTypes
    <3>. QED  BY <3>1 DEF IInv, ServerInv, RealTargets, NoneAhead
  <2>2. message \in M /\ Real(message.targets) /\ message.targets.of <= window + 1
    BY <1>1, <1>5, <1>7
  <2>. HIDE DEF M
  <2>. QED  BY <1>8, <2>1, <2>2
<1>10. TypeOK'
  BY <1>1, <1>2, <1>3, <1>6, <1>8, <1>9 DEF IInv, ServerInv, Types, TypeOK, window_vars, game_vars
<1>11. Types'
  BY <1>1, <1>8, <1>10 DEF Types
<1>12. RealTargets' /\ NoneAhead'
  BY <1>1, <1>3, <1>6, <1>9 DEF RealTargets, NoneAhead, window_vars, Real
<1>13. Score' /\ ScreenInv'
  BY <1>1 DEF IInv, Score, ScreenInv, window_vars, game_vars
<1>. QED  BY <1>11, <1>12, <1>13 DEF IInv, ServerInv

LEMMA ServerRestartStep == IInv /\ ServerRestart => IInv'
<1>. SUFFICES ASSUME IInv, ServerRestart PROVE IInv'
  OBVIOUS
<1>1. n_targets' \in Counts
  BY DEF ServerRestart, get_int_from_json, Unreadable, IInv, ServerInv, Types, TypeOK
<1>2. /\ server < window /\ server' = server + 1 /\ targets' = NoTargets /\ fifo' = <<>>
      /\ UNCHANGED <<pressed, new_targets, toWindow, window_vars>>
  BY DEF ServerRestart
<1>3. server \in Nat /\ window \in Nat /\ new_targets.of \in Int
  BY GameScreenAssumption DEF IInv, ServerInv, Types, TypeOK, ArraysOfTargets
<1>4. TypeOK'
  BY <1>1, <1>2, <1>3, NothingIsAnArray DEF IInv, ServerInv, Types, TypeOK, window_vars, game_vars
<1>5. Types' /\ RealTargets'
  BY <1>2, <1>4, NothingIsAnArray DEF IInv, ServerInv, Types, RealTargets, window_vars
<1>6. NoneAhead'
  BY <1>2, <1>3, NothingIsAnArray DEF IInv, ServerInv, NoneAhead, window_vars
<1>7. Score' /\ ScreenInv'
  BY <1>2 DEF IInv, Score, ScreenInv, window_vars, game_vars
<1>. QED  BY <1>5, <1>6, <1>7 DEF IInv, ServerInv

LEMMA DrawStep == IInv /\ Draw => IInv'
<1>. SUFFICES ASSUME IInv, Draw PROVE IInv'
  OBVIOUS
<1>1. /\ toWindow # <<>> /\ toWindow' = Tail(toWindow) /\ drawn' \in StatesRead
      /\ draw_simulation(drawn') /\ just_got_reset' = FALSE
      /\ screen' = DrawTargets(drawn', DrawObstacles(drawn', DrawDrone(drawn', screen)))
      /\ lists' = lists \cup ({drawn'.targets.of} \ {0})
      /\ ghosts' = ghosts \cup (MovedTargets(drawn') \cap prev_flags')
      /\ UNCHANGED <<pressed, server_vars, window, n_window>>
  BY DEF Draw
<1>2. ScreenInv'
  BY <1>1, ScreenStep DEF IInv
<1>3. prev_flags' \subseteq Indices /\ score' \in Nat /\ score' = Cardinality(prev_flags')
  BY <1>1, ScoreStep DEF IInv
<1>4. Score'
  <2>1. CoveredIn(drawn') \subseteq Indices \X (1 .. window + 1)
    BY <1>1, CoveredAreReal DEF IInv
  <2>2. covered' = covered \cup CoveredIn(drawn') /\ window' = window
    BY DEF Draw
  <2>. QED  BY <1>3, <2>1, <2>2 DEF Score, IInv
<1>5. /\ drawn'.n \in Counts /\ drawn'.targets \in ArraysOfTargets /\ drawn'.targets.of <= window + 1
      /\ drawn'.drone \in Positions /\ drawn'.obstacles \in ObstacleLists \cup {Nothing}
  BY <1>1, Read DEF IInv
<1>6. window \in 0 .. MaxResets /\ MaxResets \in Nat
  BY GameScreenAssumption DEF IInv, ServerInv, Types, TypeOK
<1>7. /\ toWindow' \in Seq([n : Counts, targets : ArraysOfTargets])
      /\ Len(toWindow') <= PipeCap
      /\ \A k \in DOMAIN toWindow' : k + 1 \in DOMAIN toWindow /\ toWindow'[k] = toWindow[k + 1]
  <2>1. /\ toWindow \in Seq([n : Counts, targets : ArraysOfTargets])
        /\ Len(toWindow) <= PipeCap /\ Len(toWindow) \in Nat /\ PipeCap \in Nat
    BY GameScreenAssumption DEF IInv, ServerInv, Types, TypeOK
  <2>. QED  BY <1>1, <2>1, FifoTypes
<1>8. \A p \in screen' : p[2] \in {"+", "O", "T"}
  BY <1>2 DEF ScreenInv
<1>9. covered' \subseteq Indices \X (0 .. MaxResets + 1)
  BY <1>1, <1>4, <1>6 DEF Score
<1>10. lists' \subseteq 1 .. MaxResets + 1 /\ ghosts' \subseteq Indices
  <2>1. lists \subseteq 1 .. MaxResets + 1 /\ ghosts \subseteq Indices /\ prev_flags' \subseteq Indices
    BY <1>3 DEF IInv, ServerInv, Types, TypeOK
  <2>2. drawn'.targets.of \in 0 .. MaxResets + 1
    BY <1>5 DEF ArraysOfTargets
  <2>3. drawn'.targets.of \in Int /\ drawn'.targets.of # 0 => drawn'.targets.of \in 1 .. MaxResets + 1
    BY <1>6, <2>2
  <2>4. drawn'.targets.of \in Int
    BY <1>6, <2>2
  <2>. HIDE DEF Indices
  <2>. QED  BY <1>1, <2>1, <2>3, <2>4
<1>11. TypeOK'
  <2>1. \A k \in DOMAIN toWindow' : toWindow'[k] \in [n : Counts, targets : ArraysOfTargets]
    BY <1>7, FifoTypes
  <2>. QED  BY <1>1, <1>3, <1>5, <1>7, <1>8, <1>9, <1>10, <2>1
            DEF IInv, ServerInv, Types, TypeOK, server_vars
<1>12. Types' /\ RealTargets' /\ NoneAhead'
  BY <1>1, <1>7, <1>11 DEF IInv, ServerInv, Types, RealTargets, NoneAhead, server_vars
<1>. QED  BY <1>2, <1>4, <1>12 DEF IInv, ServerInv

LEMMA DrawAndRestartStep == IInv /\ DrawAndRestart => IInv'
<1>. SUFFICES ASSUME IInv, DrawAndRestart PROVE IInv'
  OBVIOUS
<1>1. PICK state \in StatesRead : draw_simulation(state)
  BY DEF DrawAndRestart
<1>2. /\ toWindow # <<>> /\ window < pressed /\ just_got_reset' = TRUE /\ window' = window + 1
      /\ drawn' = Undrawn(n_window') /\ screen' = {} /\ toWindow' = <<>> /\ lists' = {}
      /\ covered' = {} /\ ghosts' = {} /\ UNCHANGED <<pressed, server_vars>>
  BY DEF DrawAndRestart
<1>3. n_window' \in Counts
  BY DEF DrawAndRestart, get_int_from_json, Unreadable, IInv, ServerInv, Types, TypeOK
<1>4. prev_flags' \subseteq Indices /\ score' \in Nat /\ score' = Cardinality(prev_flags')
  BY <1>1, <1>2, ScoreStep DEF IInv
<1>5. window \in Nat /\ pressed \in 0 .. MaxResets /\ MaxResets \in Nat /\ server \in 0 .. window
  BY GameScreenAssumption DEF IInv, ServerInv, Types, TypeOK
<1>6. Score'
  BY <1>2, <1>4 DEF Score
<1>7. /\ drawn'.n \in Counts /\ drawn'.targets = NoTargets /\ drawn'.drone = Undrawn(1).drone
      /\ drawn'.obstacles = Nothing
  BY <1>2, <1>3 DEF Undrawn
<1>8. ScreenInv'
  BY <1>2, <1>7 DEF ScreenInv, Nothing
<1>10. TypeOK'
  <2>1. PipeCap \in Nat /\ Len(toWindow') <= PipeCap /\ DOMAIN toWindow' = {}
    BY <1>2, GameScreenAssumption
  <2>2. server' \in 0 .. window' /\ window' \in 0 .. pressed'
    BY <1>2, <1>5 DEF server_vars
  <2>. QED  BY <1>2, <1>3, <1>4, <1>7, <2>1, <2>2, NothingIsAnArray
            DEF IInv, ServerInv, Types, TypeOK, server_vars
<1>11. Types' /\ RealTargets' /\ NoneAhead'
  BY <1>2, <1>10 DEF IInv, ServerInv, Types, RealTargets, NoneAhead, server_vars
<1>. QED  BY <1>6, <1>8, <1>11 DEF IInv, ServerInv

LEMMA StutterStep == IInv /\ UNCHANGED vars => IInv'
BY DEF IInv, ServerInv, Types, TypeOK, RealTargets, NoneAhead, Score, ScreenInv,
       vars, server_vars, window_vars, game_vars

\* The invariant on which the theorems rest.
THEOREM Inductive == Spec => []IInv
<1>1. IInv /\ [Next]_vars => IInv'
  BY PressResetStep, SendTargetsStep, ServerFrameStep, ServerRestartStep, DrawStep, DrawAndRestartStep,
     StutterStep DEF Next, Server, Window
<1>. QED  BY InitIInv, <1>1, PTL DEF Spec

\* The state is of its type, and the window's FIFO is not overfull.
THEOREM TypeCorrect == Spec => []TypeOK
<1>1. IInv => TypeOK
  BY DEF IInv, ServerInv, Types
<1>. QED  BY Inductive, <1>1, PTL

\* The obstacles on the screen are those of the last state (Window.c:61-87).
THEOREM ObstaclesTrueHolds == Spec => []ObstaclesTrue
<1>1. IInv => ObstaclesTrue
  <2>. SUFFICES ASSUME IInv PROVE ObstaclesTrue
    OBVIOUS
  <2>1. ASSUME NEW c \in Seen("O"), c # Origin
        PROVE  c \in {drawn.obstacles[i] : i \in Indices}
    BY <2>1 DEF IInv, ScreenInv, Seen
  <2>2. ASSUME NEW i \in Indices, drawn.obstacles[i] # Origin
        PROVE  drawn.obstacles[i] \in Seen("O")
    <3>1. <<drawn.obstacles[i], "O">> \in {q \in screen : q[2] = "O"}
      BY <2>2 DEF IInv, ScreenInv
    <3>2. <<drawn.obstacles[i], "O">>[1] = drawn.obstacles[i]
      OBVIOUS
    <3>. QED  BY <3>1, <3>2 DEF Seen
  <2>. QED  BY <2>1, <2>2 DEF ObstaclesTrue
<1>. QED  BY Inductive, <1>1, PTL

\* The drone leaves no trail and does not reach the border (Window.c:44-53).
THEOREM OneDroneHolds == Spec => []OneDrone
<1>1. IInv => OneDrone
  BY DEF IInv, ScreenInv, OneDrone, Seen, Printable
<1>. QED  BY Inductive, <1>1, PTL

(***************************************************************************)
(* What lists the server and the window hold.                              *)
(***************************************************************************)
Held == {targets, new_targets, drawn.targets} \cup {toWindow[k].targets : k \in DOMAIN toWindow}

\* The window has drawn nothing in this generation.
Fresh ==
  /\ drawn = Undrawn(n_window) /\ screen = {} /\ lists = {} /\ covered = {} /\ ghosts = {}
  /\ just_got_reset \/ prev_flags = {}

\* Up to the server's number of targets they are the same list or the like.
Agree(s, t) == s.of = t.of => \A i \in Indices : i <= n_targets => s.at[i] = t.at[i]

\* What is drawn has the server's number of targets, unless nothing has been drawn.
NumberInv ==
  /\ server < window => Fresh /\ toWindow = <<>>
  /\ Fresh \/ (drawn.n = n_targets /\ ~just_got_reset)
  /\ server = window => \A k \in DOMAIN toWindow : toWindow[k].n = n_targets

\* Lists of the same number are the same, and none is newer than new_targets.
ListInv ==
  /\ \A s, t \in Held : Agree(s, t)
  /\ \A s \in Held : Real(s) /\ s.of <= new_targets.of
  /\ fifo # <<>> => new_targets.of <= server

\* Nothing is at an index beyond the number of targets.
Short(t, n) == \A i \in Indices : i > n => t.at[i] = Origin

ShortInv ==
  /\ Short(targets, n_targets) /\ Short(drawn.targets, n_targets)
  /\ \A k \in DOMAIN toWindow : Short(toWindow[k].targets, n_targets)

HeldInv == NumberInv /\ ListInv /\ ShortInv

LEMMA Facts ==
  ASSUME IInv
  PROVE  /\ server \in Nat /\ window \in Nat /\ server <= window
         /\ n_targets \in Int /\ n_window \in Int /\ drawn.n \in Int
         /\ n_targets \in Counts /\ n_window \in Counts /\ drawn.n \in Counts
         /\ \A s \in Held : s \in ArraysOfTargets /\ s.of \in Int /\ s.at \in Arrays
         /\ \A k \in DOMAIN toWindow : toWindow[k] \in [n : Counts, targets : ArraysOfTargets]
         /\ toWindow \in Seq([n : Counts, targets : ArraysOfTargets])
<1>1. \A t \in ArraysOfTargets : t.of \in Int /\ t.at \in Arrays
  BY GameScreenAssumption DEF ArraysOfTargets
<1>2. \A k \in DOMAIN toWindow : toWindow[k] \in [n : Counts, targets : ArraysOfTargets]
  BY DEF IInv, ServerInv, Types, TypeOK
<1>3. \A s \in Held : s \in ArraysOfTargets
  BY <1>2 DEF Held, IInv, ServerInv, Types, TypeOK
<1>4. Counts \subseteq Int
  BY GameScreenAssumption
<1>5. /\ server \in 0 .. window /\ window \in 0 .. pressed /\ pressed \in 0 .. MaxResets
      /\ n_targets \in Counts /\ n_window \in Counts /\ drawn.n \in Counts
      /\ toWindow \in Seq([n : Counts, targets : ArraysOfTargets])
  BY DEF IInv, ServerInv, Types, TypeOK
<1>6. n_targets \in Int /\ n_window \in Int /\ drawn.n \in Int
  BY <1>4, <1>5
<1>7. server \in Nat /\ window \in Nat /\ server <= window
  BY <1>5, GameScreenAssumption
<1>8. \A s \in Held : s \in ArraysOfTargets /\ s.of \in Int /\ s.at \in Arrays
  BY <1>1, <1>3
<1>. QED  BY <1>2, <1>5, <1>6, <1>7, <1>8

LEMMA InitHeldInv == Init => HeldInv
<1>. SUFFICES ASSUME Init PROVE HeldInv
  OBVIOUS
<1>1. drawn.targets = NoTargets
  BY DEF Init, Undrawn
<1>2. Held = {NoTargets}
  BY <1>1 DEF Init, Held
<1>3. NumberInv
  BY DEF Init, NumberInv, Fresh
<1>4. ListInv
  BY <1>2, NothingIsAnArray DEF Init, ListInv, Agree
<1>5. ShortInv
  BY <1>1, NothingIsAnArray DEF Init, ShortInv, Short, Nothing
<1>. QED  BY <1>3, <1>4, <1>5 DEF HeldInv

LEMMA FrameHeldInv == IInv /\ HeldInv /\ ServerFrame => HeldInv'
<1>. SUFFICES ASSUME IInv, HeldInv, ServerFrame PROVE HeldInv'
  OBVIOUS
<1>. DEFINE M == [n : Counts, targets : ArraysOfTargets]
            message == [n |-> n_targets, targets |-> Gathered]
            Later == FirstOf(n_targets, Received, NoTargets)
<1>1. /\ server = window /\ new_targets' = Received
      /\ toWindow' = (IF Len(toWindow) < PipeCap THEN Append(toWindow, message) ELSE toWindow)
      /\ targets' \in {Gathered, Later}
      /\ fifo' = <<>>
      /\ UNCHANGED <<pressed, server, n_targets, window_vars>>
  BY DEF ServerFrame
<1>2. /\ targets \in Held /\ new_targets \in Held /\ drawn.targets \in Held
      /\ \A k \in DOMAIN toWindow : toWindow[k].targets \in Held
  BY DEF Held
<1>3. /\ fifo # <<>> => Head(fifo) \in ArraysOfTargets /\ Head(fifo).of = server + 1
      /\ toWindow \in Seq(M)
  BY DEF IInv, ServerInv, Types, TypeOK, RealTargets
<1>4. /\ Received \in ArraysOfTargets /\ Received.of \in Int
      /\ Real(Received) /\ new_targets.of <= Received.of
  <2>1. CASE fifo = <<>>
    BY <1>2, <2>1, Facts DEF Received, HeldInv, ListInv
  <2>2. CASE fifo # <<>>
    <3>1. Received = Head(fifo) /\ Received.of = server + 1 /\ new_targets.of <= server
      BY <1>3, <2>2 DEF Received, HeldInv, ListInv
    <3>. QED  BY <1>2, <1>3, <2>2, <3>1, Facts DEF Real
  <2>. QED  BY <2>1, <2>2
<1>5. \A s \in Held : s.of <= Received.of /\ Real(s) /\ Agree(s, Received)
  <2>1. \A s \in Held : s.of <= new_targets.of /\ Real(s) /\ s.of \in Int /\ Agree(s, new_targets)
    BY <1>2, Facts DEF HeldInv, ListInv
  <2>2. CASE fifo = <<>>
    BY <1>4, <2>1, <2>2 DEF Received
  <2>3. CASE fifo # <<>>
    <3>1. Received.of = server + 1 /\ new_targets.of <= server
      BY <1>3, <2>3 DEF Received, HeldInv, ListInv
    <3>2. \A s \in Held : s.of < Received.of
      BY <1>2, <2>1, <3>1, Facts
    <3>. QED  BY <1>4, <2>1, <3>2 DEF Agree
  <2>. QED  BY <2>2, <2>3
\* What is new is the list received, as far as the server's number of targets goes.
<1>. DEFINE New(t) == /\ t.of = Received.of /\ Real(t)
                      /\ \A i \in Indices : i <= n_targets => t.at[i] = Received.at[i]
<1>6. Later \in ArraysOfTargets /\ New(Later) /\ Short(Later, n_targets)
  <2>1. Later \in ArraysOfTargets /\ Real(Later)
    BY <1>4, Lists, NothingIsAnArray
  <2>2. Later.of = Received.of
    BY DEF FirstOf
  <2>3. \A i \in Indices : Later.at[i] = IF i <= n_targets THEN Received.at[i] ELSE Nothing[i]
    BY NothingIsAnArray DEF FirstOf
  <2>. HIDE DEF Later
  <2>4. Short(Later, n_targets)
    BY <2>3, Facts DEF Short, Nothing, Indices
  <2>. QED  BY <2>1, <2>2, <2>3, <2>4
<1>7. Gathered \in ArraysOfTargets /\ (Gathered \in Held \/ New(Gathered)) /\ Short(Gathered, n_targets)
  <2>1. CASE fifo = <<>>
    BY <1>2, <2>1, Facts DEF Gathered, HeldInv, ShortInv
  <2>2. CASE fifo # <<>>
    <3>1. Gathered = FirstOf(n_targets, Received, targets) /\ Received.of # 0
      BY <1>3, <2>2, Facts DEF Gathered, Received
    <3>2. Gathered.of = Received.of
      BY <3>1 DEF FirstOf
    <3>3. \A i \in Indices : Gathered.at[i] = IF i <= n_targets THEN Received.at[i] ELSE targets.at[i]
      BY <3>1 DEF FirstOf
    <3>4. Gathered \in ArraysOfTargets /\ Real(Gathered)
      <4>1. targets.at \in Arrays
        BY <1>2, Facts
      <4>. QED  BY <1>4, <3>1, <4>1, Lists
    <3>5. Short(Gathered, n_targets)
      <4>1. \A i \in Indices : i > n_targets => ~(i <= n_targets)
        BY Facts DEF Indices
      <4>. QED  BY <3>3, <4>1 DEF Short, HeldInv, ShortInv
    <3>. QED  BY <3>2, <3>3, <3>4, <3>5
  <2>. QED  BY <2>1, <2>2
<1>. HIDE DEF Later, New
<1>8. message \in M /\ message.targets = Gathered /\ message.n = n_targets
  BY <1>7, Facts
<1>. HIDE DEF message
<1>9. \A k \in DOMAIN toWindow' : toWindow'[k] = message \/ (k \in DOMAIN toWindow /\ toWindow'[k] = toWindow[k])
  <2>. HIDE DEF M
  <2>. QED  BY <1>1, <1>3, <1>8, FifoTypes
<1>10. New(Received)
  BY <1>4 DEF New
<1>11. \A s \in Held' : s \in Held \/ New(s)
  <2>1. drawn' = drawn
    BY <1>1 DEF window_vars
  <2>2. \A k \in DOMAIN toWindow' : toWindow'[k].targets \in Held \/ New(toWindow'[k].targets)
    BY <1>2, <1>7, <1>8, <1>9
  <2>3. targets' \in Held \/ New(targets')
    BY <1>1, <1>6, <1>7
  <2>. QED  BY <1>1, <1>2, <1>10, <2>1, <2>2, <2>3 DEF Held
<1>12. ListInv'
  <2>1. ASSUME NEW s \in Held', NEW t \in Held'
        PROVE  Agree(s, t)
    <3>1. CASE s \in Held /\ t \in Held
      BY <3>1 DEF HeldInv, ListInv
    <3>2. CASE s \in Held /\ New(t)
      BY <1>5, <3>2 DEF Agree, New
    <3>3. CASE New(s) /\ t \in Held
      BY <1>5, <3>3 DEF Agree, New
    <3>4. CASE New(s) /\ New(t)
      BY <3>4 DEF Agree, New
    <3>. QED  BY <1>11, <2>1, <3>1, <3>2, <3>3, <3>4
  <2>2. \A s \in Held' : Real(s) /\ s.of <= Received.of
    BY <1>4, <1>5, <1>11 DEF New
  <2>3. n_targets' = n_targets
    BY <1>1
  <2>. QED  BY <1>1, <2>1, <2>2, <2>3 DEF ListInv, Agree, Real
<1>13. NumberInv'
  <2>1. Fresh' <=> Fresh
    BY <1>1 DEF Fresh, window_vars, game_vars
  <2>2. \A k \in DOMAIN toWindow' : toWindow'[k].n = n_targets
    BY <1>1, <1>8, <1>9 DEF HeldInv, NumberInv
  <2>. QED  BY <1>1, <2>1, <2>2, Facts DEF HeldInv, NumberInv, window_vars, game_vars
<1>14. ShortInv'
  BY <1>1, <1>6, <1>7, <1>8, <1>9 DEF HeldInv, ShortInv, Short, window_vars
<1>. QED  BY <1>12, <1>13, <1>14 DEF HeldInv

LEMMA ServerRestartHeldInv == IInv /\ HeldInv /\ ServerRestart => HeldInv'
<1>. SUFFICES ASSUME IInv, HeldInv, ServerRestart PROVE HeldInv'
  OBVIOUS
<1>1. /\ server < window /\ server' = server + 1 /\ targets' = NoTargets /\ fifo' = <<>>
      /\ UNCHANGED <<pressed, new_targets, toWindow, window_vars>>
  BY DEF ServerRestart
<1>2. Fresh /\ toWindow = <<>>
  BY <1>1 DEF HeldInv, NumberInv
<1>3. drawn.targets = NoTargets /\ drawn' = drawn
  BY <1>1, <1>2 DEF Fresh, Undrawn, window_vars
<1>4. Fresh'
  BY <1>1, <1>2 DEF Fresh, window_vars, game_vars
<1>5. toWindow' = <<>>
  BY <1>1, <1>2
<1>6. NumberInv'
  BY <1>4, <1>5 DEF NumberInv
<1>7. Held' \subseteq {NoTargets, new_targets} /\ new_targets \in Held
  BY <1>1, <1>3, <1>5 DEF Held
<1>8. Real(new_targets) /\ new_targets.of \in 0 .. MaxResets + 1 /\ 0 <= new_targets.of
  <2>1. new_targets \in ArraysOfTargets
    BY <1>7, Facts
  <2>. QED  BY <1>7, <2>1, GameScreenAssumption DEF HeldInv, ListInv, ArraysOfTargets
<1>9. ListInv'
  <2>1. \A s, t \in {NoTargets, new_targets} : s.of = t.of => s.at = t.at
    BY <1>8, NothingIsAnArray DEF Real
  <2>2. \A s \in {NoTargets, new_targets} : Real(s) /\ s.of <= new_targets.of
    BY <1>8, NothingIsAnArray, GameScreenAssumption
  <2>. QED  BY <1>1, <1>7, <2>1, <2>2 DEF ListInv, Agree, Real
<1>10. ShortInv'
  BY <1>1, <1>3, <1>5, NothingIsAnArray DEF ShortInv, Short, Nothing
<1>. QED  BY <1>6, <1>9, <1>10 DEF HeldInv

LEMMA DrawHeldInv == IInv /\ HeldInv /\ Draw => HeldInv'
<1>. SUFFICES ASSUME IInv, HeldInv, Draw PROVE HeldInv'
  OBVIOUS
<1>. DEFINE M == [n : Counts, targets : ArraysOfTargets]
<1>1. /\ toWindow # <<>> /\ toWindow' = Tail(toWindow) /\ drawn' \in StatesRead /\ just_got_reset' = FALSE
      /\ UNCHANGED <<pressed, server, n_targets, targets, new_targets, fifo, window, n_window>>
  BY DEF Draw, server_vars
<1>2. /\ 1 \in DOMAIN toWindow /\ Head(toWindow) = toWindow[1]
      /\ \A k \in DOMAIN toWindow' : k + 1 \in DOMAIN toWindow /\ toWindow'[k] = toWindow[k + 1]
  <2>1. toWindow \in Seq(M)
    BY Facts
  <2>. HIDE DEF M
  <2>. QED  BY <1>1, <2>1, FifoTypes
<1>3. drawn'.n = toWindow[1].n /\ drawn'.targets = toWindow[1].targets
  BY <1>1, <1>2 DEF StatesRead
<1>4. server = window
  BY <1>1, Facts DEF HeldInv, NumberInv
<1>5. NumberInv'
  BY <1>1, <1>2, <1>3, <1>4, Facts DEF HeldInv, NumberInv
<1>6. Held' \subseteq Held
  BY <1>1, <1>2, <1>3 DEF Held
<1>7. ListInv'
  BY <1>1, <1>6 DEF HeldInv, ListInv, Agree, Real
<1>8. ShortInv'
  BY <1>1, <1>2, <1>3 DEF HeldInv, ShortInv, Short
<1>. QED  BY <1>5, <1>7, <1>8 DEF HeldInv

LEMMA DrawAndRestartHeldInv == IInv /\ HeldInv /\ DrawAndRestart => HeldInv'
<1>. SUFFICES ASSUME IInv, HeldInv, DrawAndRestart PROVE HeldInv'
  OBVIOUS
<1>1. /\ toWindow # <<>> /\ just_got_reset' = TRUE /\ window' = window + 1
      /\ drawn' = Undrawn(n_window') /\ screen' = {} /\ toWindow' = <<>>
      /\ lists' = {} /\ covered' = {} /\ ghosts' = {}
      /\ UNCHANGED <<pressed, server, n_targets, targets, new_targets, fifo>>
  BY DEF DrawAndRestart, server_vars
<1>2. Fresh' /\ drawn'.targets = NoTargets
  BY <1>1 DEF Fresh, Undrawn
<1>3. NumberInv'
  <2>1. ~(server = window')
    BY <1>1, Facts
  <2>. QED  BY <1>1, <1>2, <2>1 DEF NumberInv
<1>4. Held' \subseteq {targets, new_targets, NoTargets} /\ targets \in Held /\ new_targets \in Held
  BY <1>1, <1>2 DEF Held
<1>5. /\ Real(targets) /\ Real(new_targets) /\ targets.of <= new_targets.of /\ 0 <= new_targets.of
      /\ Agree(targets, new_targets) /\ new_targets.of \in Int
  <2>1. new_targets \in ArraysOfTargets
    BY <1>4, Facts
  <2>. QED  BY <1>4, <2>1, GameScreenAssumption DEF HeldInv, ListInv, ArraysOfTargets
<1>6. ListInv'
  <2>1. \A s, t \in {targets, new_targets, NoTargets} : Agree(s, t)
    BY <1>5, NothingIsAnArray DEF Agree, Real
  <2>2. \A s \in {targets, new_targets, NoTargets} : Real(s) /\ s.of <= new_targets.of
    BY <1>5, NothingIsAnArray
  <2>. QED  BY <1>1, <1>4, <2>1, <2>2 DEF HeldInv, ListInv, Agree, Real
<1>7. ShortInv'
  BY <1>1, <1>2, NothingIsAnArray DEF HeldInv, ShortInv, Short, Nothing
<1>. QED  BY <1>3, <1>6, <1>7 DEF HeldInv

LEMMA HeldInvStep == IInv /\ HeldInv /\ [Next]_vars => HeldInv'
<1>. SUFFICES ASSUME IInv, HeldInv, [Next]_vars PROVE HeldInv'
  OBVIOUS
<1>1. CASE PressReset
  BY <1>1 DEF PressReset, server_vars, window_vars, game_vars,
              HeldInv, NumberInv, ListInv, ShortInv, Short, Held, Fresh, Agree, Real
<1>2. ASSUME NEW list \in TargetLists, SendTargets(list)
      PROVE  HeldInv'
  BY <1>2 DEF SendTargets, window_vars, game_vars,
              HeldInv, NumberInv, ListInv, ShortInv, Short, Held, Fresh, Agree, Real
<1>3. CASE UNCHANGED vars
  BY <1>3 DEF vars, server_vars, window_vars, game_vars,
              HeldInv, NumberInv, ListInv, ShortInv, Short, Held, Fresh, Agree, Real
<1>. QED  BY <1>1, <1>2, <1>3, FrameHeldInv, ServerRestartHeldInv, DrawHeldInv, DrawAndRestartHeldInv
          DEF Next, Server, Window

(***************************************************************************)
(* The signs of targets on the screen, over one draw.                      *)
(***************************************************************************)
\* The cells draw_simulation erases for a target, and those it leaves a sign in.
Gone(state) == {drawn.targets.at[i] : i \in MovedTargets(state) \cup Hit(state)}

Left(state) ==
  {i \in MovedTargets(state) : \A j \in MovedTargets(state) \cup Hit(state) :
                                 j > i => drawn.targets.at[j] # state.targets.at[i]}

SignsLeft(state) ==
  {state.targets.at[i] : i \in Left(state)}
    \cup (IF drawn.n = state.n THEN {} ELSE {state.targets.at[i] : i \in 1 .. state.n})

LEMMA Redrawn ==
  ASSUME IInv, toWindow # <<>>, drawn' \in StatesRead,
         screen' = DrawTargets(drawn', DrawObstacles(drawn', DrawDrone(drawn', screen)))
  PROVE  /\ \A c \in SignsLeft(drawn') : <<c, "T">> \in screen'
         /\ \A c \in TargetCells :
              /\ <<c, "T">> \in screen /\ c \notin Gone(drawn')
              /\ c # CellOf(drawn.drone) /\ c # CellOf(drawn'.drone)
              => <<c, "T">> \in screen'
         /\ \A p \in screen' : p[2] = "T" =>
              p[1] \in SignsLeft(drawn') \/ (p \in screen /\ p[1] \notin Gone(drawn'))
<1>. DEFINE state == drawn'
            D == DrawDrone(state, screen)
            old == {drawn.obstacles[i] : i \in MovedObstacles(state)}
            new == {state.obstacles[i] : i \in Indices}
            E == DrawObstacles(state, D)
            gone == Gone(state)
            signs == SignsLeft(state)
<1>1. screen' = {p \in {q \in E : q[1] \notin gone} : p[1] \notin signs} \cup (signs \X {"T"})
  BY DEF DrawTargets, Printed, Erase, Gone, SignsLeft, Left
<1>2. E = {p \in {q \in D : q[1] \notin old} : p[1] \notin new} \cup (new \X {"O"})
  BY DEF DrawObstacles, Printed, Erase
<1>3. \/ D = screen
      \/ D = {p \in {q \in screen : q[1] \notin {CellOf(drawn.drone)}} : p[1] \notin {CellOf(state.drone)}}
               \cup ({CellOf(state.drone)} \X {"+"})
  BY DEF DrawDrone, Printed, Erase
<1>4. \A c \in TargetCells : c \notin old /\ c \notin new
  <2>1. \A o \in ObstacleLists \cup {Nothing} : \A i \in Indices : o[i] \in ObstacleCells \cup {Origin}
    BY GameScreenAssumption DEF Nothing
  <2>2. drawn.obstacles \in ObstacleLists \cup {Nothing} /\ state.obstacles \in ObstacleLists \cup {Nothing}
    BY Read DEF IInv, ServerInv, Types, TypeOK
  <2>3. old \cup new \subseteq ObstacleCells \cup {Origin}
    BY <2>1, <2>2 DEF MovedObstacles
  <2>4. Origin \notin TargetCells
    BY CellsInside DEF Inside, Origin
  <2>. QED  BY <2>3, <2>4, TargetsApartFromObstacles
<1>. HIDE DEF state, D, E, old, new, gone, signs
<1>5. \A c \in signs : <<c, "T">> \in screen'
  BY <1>1
<1>6. ASSUME NEW c \in TargetCells, <<c, "T">> \in screen, c \notin gone,
             c # CellOf(drawn.drone), c # CellOf(state.drone)
      PROVE  <<c, "T">> \in screen'
  <2>1. <<c, "T">> \in D
    BY <1>3, <1>6
  <2>2. <<c, "T">> \in E
    BY <1>2, <1>4, <2>1
  <2>. QED  BY <1>1, <1>5, <1>6, <2>2
<1>7. ASSUME NEW p \in screen', p[2] = "T"
      PROVE  p[1] \in signs \/ (p \in screen /\ p[1] \notin gone)
  <2>1. \A q \in E : q[2] = "T" => q \in D
    BY <1>2
  <2>2. \A q \in D : q[2] = "T" => q \in screen
    BY <1>3
  <2>. QED  BY <1>1, <1>7, <2>1, <2>2
<1>. QED  BY <1>5, <1>6, <1>7 DEF state, gone, signs

(***************************************************************************)
(* What is to be hit is seen, and what is seen is to be hit.               *)
(***************************************************************************)
\* The drone is drawn on no target that is still to be hit: moving on, it would
\* erase it.
VisibleInv ==
  /\ drawn.targets.of # 0 => drawn.targets.of \in lists
  /\ OneList => \A i \in 1 .. drawn.n : drawn.targets.at[i] # Origin =>
                  /\ CellOf(drawn.drone) = drawn.targets.at[i] => i \in prev_flags
                  /\ i \notin prev_flags => <<drawn.targets.at[i], "T">> \in screen

GhostInv ==
  \A p \in screen : p[2] = "T" /\ p[1] # Origin =>
    \E i \in 1 .. drawn.n : drawn.targets.at[i] = p[1] /\ (i \in prev_flags => i \in ghosts)

\* The state that is read, and what it can have in common with the last one.
LEMMA Taken ==
  ASSUME IInv, HeldInv, Draw
  PROVE  /\ drawn'.n = n_targets /\ n_targets \in 1 .. Size /\ drawn.n \in 1 .. Size /\ n_window \in Int
         /\ drawn.targets \in ArraysOfTargets /\ drawn'.targets \in ArraysOfTargets
         /\ Real(drawn.targets) /\ Real(drawn'.targets)
         /\ drawn'.targets.of = drawn.targets.of => MovedTargets(drawn') = {}
         /\ \A i \in Indices : i > n_targets => drawn'.targets.at[i] = Origin
         /\ \/ Fresh /\ Flagged = {} /\ drawn.targets = NoTargets /\ drawn.n = n_window
            \/ ~just_got_reset /\ Flagged = prev_flags /\ drawn.n = drawn'.n
         /\ prev_flags' = Flagged \cup Hit(drawn')
         /\ lists' = lists \cup ({drawn'.targets.of} \ {0})
         /\ ghosts' = ghosts \cup (MovedTargets(drawn') \cap prev_flags')
<1>1. /\ toWindow # <<>> /\ drawn' \in StatesRead /\ draw_simulation(drawn')
      /\ lists' = lists \cup ({drawn'.targets.of} \ {0})
      /\ ghosts' = ghosts \cup (MovedTargets(drawn') \cap prev_flags')
  BY DEF Draw
<1>2. 1 \in DOMAIN toWindow /\ Head(toWindow) = toWindow[1]
  <2>. DEFINE M == [n : Counts, targets : ArraysOfTargets]
  <2>1. toWindow \in Seq(M)
    BY Facts
  <2>. HIDE DEF M
  <2>. QED  BY <1>1, <2>1, FifoTypes
<1>3. drawn'.n = toWindow[1].n /\ drawn'.targets = toWindow[1].targets
  BY <1>1, <1>2 DEF StatesRead
<1>4. drawn.targets \in Held /\ drawn'.targets \in Held
  BY <1>2, <1>3 DEF Held
<1>5. server = window /\ drawn'.n = n_targets
  BY <1>1, <1>2, <1>3, Facts DEF HeldInv, NumberInv
<1>6. Short(drawn'.targets, n_targets) /\ Short(drawn.targets, n_targets)
  BY <1>2, <1>3 DEF HeldInv, ShortInv
<1>7. n_targets \in 1 .. Size /\ drawn.n \in 1 .. Size /\ 1 .. drawn.n \subseteq Indices
  <2>1. n_targets \in 1 .. Size /\ drawn.n \in 1 .. Size
    BY Facts, GameScreenAssumption
  <2>. QED  BY <2>1, GameScreenAssumption DEF Indices
<1>8. ASSUME drawn'.targets.of = drawn.targets.of
      PROVE  MovedTargets(drawn') = {}
  <2>1. \A i \in Indices : i <= n_targets => drawn.targets.at[i] = drawn'.targets.at[i]
    BY <1>4, <1>8 DEF HeldInv, ListInv, Agree
  <2>2. \A i \in Indices : i > n_targets => drawn.targets.at[i] = drawn'.targets.at[i]
    BY <1>6 DEF Short
  <2>3. \A i \in Indices : i <= n_targets \/ i > n_targets
    BY <1>7 DEF Indices
  <2>. QED  BY <1>7, <2>1, <2>2, <2>3 DEF MovedTargets
<1>9. \/ Fresh /\ Flagged = {} /\ drawn.targets = NoTargets /\ drawn.n = n_window
      \/ ~just_got_reset /\ Flagged = prev_flags /\ drawn.n = drawn'.n
  <2>1. CASE Fresh
    <3>1. drawn = Undrawn(n_window) /\ Flagged = {}
      BY <2>1 DEF Fresh, Flagged
    <3>. QED  BY <2>1, <3>1 DEF Undrawn
  <2>2. CASE ~Fresh
    BY <1>5, <2>2 DEF HeldInv, NumberInv, Flagged
  <2>. QED  BY <2>1, <2>2
<1>10. Real(drawn.targets) /\ Real(drawn'.targets)
  BY <1>4 DEF HeldInv, ListInv
<1>. QED  BY <1>1, <1>4, <1>5, <1>6, <1>7, <1>8, <1>9, <1>10, Facts DEF draw_simulation, Short

(***************************************************************************)
(* The flags are the places of the targets covered.                        *)
(***************************************************************************)
Places == {c[1] : c \in covered}

FlagInv ==
  /\ \A c \in covered : c[2] \in lists
  /\ ~just_got_reset => prev_flags \subseteq Places
  /\ ~just_got_reset /\ drawn.n = n_window => Places \subseteq prev_flags

LEMMA DrawFlagInv == IInv /\ HeldInv /\ FlagInv /\ Draw => FlagInv'
<1>. SUFFICES ASSUME IInv, HeldInv, FlagInv, Draw PROVE FlagInv'
  OBVIOUS
<1>. DEFINE state == drawn'
            C == {i \in 1 .. state.n : Covers(state.drone, state.targets.at[i])}
<1>1. /\ toWindow # <<>> /\ state \in StatesRead /\ n_window' = n_window
      /\ covered' = covered \cup (C \X {state.targets.of})
  BY DEF Draw, CoveredIn
<1>2. Hit(state) = {i \in 1 .. drawn.n : Covers(state.drone, state.targets.at[i])} \ Flagged
  BY DEF Hit
<1>3. /\ lists' = lists \cup ({state.targets.of} \ {0})
      /\ prev_flags' = Flagged \cup Hit(state)
      /\ state.n \in 1 .. Size /\ drawn.n \in 1 .. Size
      /\ \A i \in Indices : i > state.n => state.targets.at[i] = Origin
      /\ \/ Fresh /\ Flagged = {} /\ drawn.n = n_window
         \/ ~just_got_reset /\ Flagged = prev_flags /\ drawn.n = state.n
  BY Taken
<1>4. C \X {state.targets.of} \subseteq Indices \X (1 .. window + 1)
  BY <1>1, CoveredAreReal DEF IInv, CoveredIn
<1>5. Places' = Places \cup C
  <2>. DEFINE new == C \X {state.targets.of}
  <2>1. {c[1] : c \in new} = C
    <3>1. \A i \in C : <<i, state.targets.of>> \in new /\ <<i, state.targets.of>>[1] = i
      OBVIOUS
    <3>2. \A c \in new : c[1] \in C
      OBVIOUS
    <3>. HIDE DEF C, new
    <3>. QED  BY <3>1, <3>2
  <2>2. covered' = covered \cup new
    BY <1>1
  <2>. HIDE DEF C, new
  <2>. QED  BY <2>1, <2>2 DEF Places
<1>6. state.drone \in Drones /\ InsideBorders(state.drone)
  BY <1>1, Read DEF IInv
<1>7. Hit(state) \subseteq C
  <2>. SUFFICES ASSUME NEW i \in 1 .. drawn.n, Covers(state.drone, state.targets.at[i])
                PROVE  i <= state.n
    BY <1>2, <1>3
  <2>1. i \in Indices /\ state.targets.at[i] # Origin
    BY <1>3, <1>6, OriginNeverCovered, GameScreenAssumption DEF Indices
  <2>. QED  BY <1>3, <2>1 DEF Indices
<1>8. drawn.n = state.n => C \subseteq prev_flags'
  BY <1>2, <1>3
<1>. HIDE DEF state, C
<1>9. window \in Nat
  BY Facts
<1>10. \A c \in covered' : c[2] \in lists'
  <2>1. \A c \in C \X {state.targets.of} : c[2] = state.targets.of /\ c[2] # 0
    BY <1>4, <1>9
  <2>. QED  BY <1>1, <1>3, <2>1 DEF FlagInv
<1>11. prev_flags' \subseteq Places'
  BY <1>3, <1>5, <1>7 DEF FlagInv
<1>12. ASSUME state.n = n_window
       PROVE  Places' \subseteq prev_flags'
  <2>1. CASE Fresh /\ Flagged = {} /\ drawn.n = n_window
    <3>1. Places = {}
      BY <2>1 DEF Fresh, Places
    <3>. QED  BY <1>5, <1>8, <1>12, <2>1, <3>1
  <2>2. CASE ~just_got_reset /\ Flagged = prev_flags /\ drawn.n = state.n
    BY <1>3, <1>5, <1>8, <1>12, <2>2 DEF FlagInv
  <2>. QED  BY <1>3, <2>1, <2>2
<1>. QED  BY <1>1, <1>10, <1>11, <1>12 DEF FlagInv, state

LEMMA FlagStep == IInv /\ HeldInv /\ FlagInv /\ [Next]_vars => FlagInv'
<1>. SUFFICES ASSUME IInv, HeldInv, FlagInv, [Next]_vars PROVE FlagInv'
  OBVIOUS
<1>1. CASE UNCHANGED window_vars
  BY <1>1 DEF window_vars, game_vars, FlagInv, Places
<1>2. CASE Draw
  BY <1>2, DrawFlagInv
<1>3. CASE DrawAndRestart
  BY <1>3 DEF DrawAndRestart, FlagInv
<1>. QED  BY <1>1, <1>2, <1>3
          DEF Next, Server, Window, PressReset, SendTargets, ServerFrame, ServerRestart, vars

LEMMA ListsFinite ==
  ASSUME NEW L, L \subseteq 1 .. MaxResets + 1
  PROVE  /\ IsFiniteSet(L) /\ Cardinality(L) \in Nat
         /\ \A a, b \in L : Cardinality(L) <= 1 => a = b
<1>1. IsFiniteSet(1 .. MaxResets + 1)
  <2>1. 1 \in Int /\ MaxResets + 1 \in Int
    BY GameScreenAssumption
  <2>. QED  BY <2>1, FS_Interval
<1>2. IsFiniteSet(L) /\ Cardinality(L) \in Nat
  BY <1>1, FS_Subset, FS_CardinalityType
<1>3. ASSUME NEW a \in L, NEW b \in L, Cardinality(L) <= 1, a # b
      PROVE  FALSE
  <2>1. Cardinality({a, b}) = 2
    <3>1. IsFiniteSet({b}) /\ Cardinality({b}) = 1
      BY FS_Singleton
    <3>2. Cardinality({b} \cup {a}) = Cardinality({b}) + 1
      BY <1>3, <3>1, FS_AddElement
    <3>3. {a, b} = {b} \cup {a}
      OBVIOUS
    <3>. QED  BY <3>1, <3>2, <3>3
  <2>2. Cardinality({a, b}) <= Cardinality(L)
    BY <1>2, FS_Subset
  <2>. QED  BY <1>2, <1>3, <2>1, <2>2
<1>. QED  BY <1>2, <1>3

LEMMA DrawVisibleInv == IInv /\ IInv' /\ HeldInv /\ VisibleInv /\ Draw => VisibleInv'
<1>. SUFFICES ASSUME IInv, IInv', HeldInv, VisibleInv, Draw PROVE VisibleInv'
  OBVIOUS
<1>1. /\ toWindow # <<>> /\ drawn' \in StatesRead /\ n_window' = n_window
      /\ screen' = DrawTargets(drawn', DrawObstacles(drawn', DrawDrone(drawn', screen)))
  BY DEF Draw
<1>2. drawn'.targets.of # 0 => drawn'.targets.of \in lists'
  BY Taken
<1>3. drawn'.drone \in Drones /\ InsideBorders(drawn'.drone)
  BY <1>1, Read DEF IInv
<1>4. lists \subseteq 1 .. MaxResets + 1 /\ lists' \subseteq 1 .. MaxResets + 1
  BY DEF IInv, ServerInv, Types, TypeOK
<1>5. ASSUME OneList', NEW i \in 1 .. drawn'.n, drawn'.targets.at[i] # Origin
      PROVE  /\ CellOf(drawn'.drone) = drawn'.targets.at[i] => i \in prev_flags'
             /\ i \notin prev_flags' => <<drawn'.targets.at[i], "T">> \in screen'
  <2>. DEFINE c == drawn'.targets.at[i]
  <2>1. drawn.n = n_window /\ drawn'.n = drawn.n /\ i \in 1 .. drawn.n
    BY <1>1, <1>5, Taken DEF OneList
  <2>2. i \in Indices /\ c \in TargetCells
    <3>1. i \in Indices
      BY <2>1, Taken, GameScreenAssumption DEF Indices
    <3>. QED  BY <1>5, <3>1, Taken DEF ArraysOfTargets, Arrays
  <2>3. CellOf(drawn'.drone) = c => Covers(drawn'.drone, c)
    BY <1>3, DrawnInside
  <2>4. Covers(drawn'.drone, c) => i \in prev_flags'
    BY <2>1, Taken DEF Hit
  <2>5. ASSUME i \notin prev_flags'
        PROVE  <<c, "T">> \in screen'
    <3>1. CASE drawn.targets.of = 0
      <4>1. drawn.targets.at = Nothing
        BY <3>1, Taken DEF Real
      <4>2. \A j \in MovedTargets(drawn') \cup Hit(drawn') : drawn.targets.at[j] = Origin
        BY <4>1, Taken, GameScreenAssumption DEF Nothing, MovedTargets, Hit, Indices
      <4>3. i \in MovedTargets(drawn')
        BY <1>5, <2>1, <2>2, <4>1 DEF MovedTargets, Nothing
      <4>4. i \in Left(drawn')
        BY <1>5, <4>2, <4>3 DEF Left
      <4>. QED  BY <1>1, <4>4, Redrawn DEF SignsLeft
    <3>2. CASE drawn.targets.of # 0
      <4>1. drawn'.targets.of # 0
        BY <1>5, <2>2, Taken DEF Real, Nothing
      <4>2. drawn'.targets.of \in lists' /\ drawn.targets.of \in lists' /\ lists \subseteq lists'
        BY <1>2, <3>2, <4>1, Taken DEF VisibleInv
      <4>3. MovedTargets(drawn') = {}
        <5>1. \A a, b \in lists' : a = b
          BY <1>5, <1>4, ListsFinite DEF OneList
        <5>. QED  BY <4>2, <5>1, Taken
      <4>4. OneList
        <5>1. Cardinality(lists) <= Cardinality(lists')
          BY <1>4, <4>2, ListsFinite, FS_Subset
        <5>2. Cardinality(lists) \in Nat /\ Cardinality(lists') \in Nat
          BY <1>4, ListsFinite
        <5>. QED  BY <1>5, <2>1, <5>1, <5>2 DEF OneList
      <4>5. ~Fresh /\ Flagged = prev_flags
        BY <3>2, Taken, NothingIsAnArray DEF Fresh, Undrawn
      <4>6. \A j \in 1 .. drawn.n : drawn.targets.at[j] = drawn'.targets.at[j]
        BY <4>3 DEF MovedTargets
      <4>7. i \notin prev_flags /\ i \notin Hit(drawn') /\ ~Covers(drawn'.drone, c)
        BY <2>4, <2>5, <4>5, Taken
      <4>8. /\ <<c, "T">> \in screen
            /\ c # CellOf(drawn.drone) /\ c # CellOf(drawn'.drone)
        BY <1>5, <2>1, <2>3, <4>4, <4>6, <4>7 DEF VisibleInv
      <4>9. c \notin Gone(drawn')
        BY <4>3, <4>6, <4>7 DEF Gone, Hit
      <4>. QED  BY <1>1, <2>2, <4>8, <4>9, Redrawn
    <3>. QED  BY <3>1, <3>2
  <2>. QED  BY <2>3, <2>4, <2>5
<1>. QED  BY <1>2, <1>5 DEF VisibleInv

LEMMA DrawGhostInv == IInv /\ HeldInv /\ GhostInv /\ Draw => GhostInv'
<1>. SUFFICES ASSUME IInv, HeldInv, GhostInv, Draw,
                     NEW p \in screen', p[2] = "T", p[1] # Origin
              PROVE  \E i \in 1 .. drawn'.n :
                       drawn'.targets.at[i] = p[1] /\ (i \in prev_flags' => i \in ghosts')
  BY DEF GhostInv
<1>1. /\ toWindow # <<>> /\ drawn' \in StatesRead
      /\ screen' = DrawTargets(drawn', DrawObstacles(drawn', DrawDrone(drawn', screen)))
  BY DEF Draw
<1>2. p[1] \in SignsLeft(drawn') \/ (p \in screen /\ p[1] \notin Gone(drawn'))
  BY <1>1, Redrawn
<1>3. 1 .. drawn.n \subseteq Indices /\ 1 .. drawn'.n \subseteq Indices
  BY Taken, GameScreenAssumption DEF Indices
<1>4. \A i \in Indices : drawn'.targets.at[i] # Origin => i \in 1 .. drawn'.n
  BY Taken DEF Indices
\* Drawn now, because it has moved.
<1>5. ASSUME NEW i \in Left(drawn'), drawn'.targets.at[i] = p[1]
      PROVE  i \in 1 .. drawn'.n /\ (i \in prev_flags' => i \in ghosts')
  <2>1. i \in MovedTargets(drawn') /\ i \in Indices
    BY <1>3 DEF Left, MovedTargets
  <2>. QED  BY <1>4, <1>5, <2>1, Taken
\* Drawn now, because the number of targets is another than the window's.
<1>6. ASSUME drawn.n # drawn'.n, NEW i \in 1 .. drawn'.n, drawn'.targets.at[i] = p[1]
      PROVE  i \in prev_flags' => i \in ghosts'
  <2>1. Flagged = {} /\ drawn.targets = NoTargets
    BY <1>6, Taken
  <2>2. i \in 1 .. drawn.n => i \in MovedTargets(drawn')
    BY <1>3, <1>6, <2>1, NothingIsAnArray DEF MovedTargets, Nothing
  <2>3. i \notin 1 .. drawn.n => i \notin Hit(drawn')
    BY DEF Hit
  <2>. QED  BY <2>1, <2>2, <2>3, Taken
\* Drawn before, and neither moved nor hit since.
<1>7. ASSUME p \in screen, p[1] \notin Gone(drawn')
      PROVE  \E i \in 1 .. drawn'.n :
               drawn'.targets.at[i] = p[1] /\ (i \in prev_flags' => i \in ghosts')
  <2>1. drawn.n = drawn'.n /\ Flagged = prev_flags
    BY <1>7, Taken DEF Fresh
  <2>2. PICK i \in 1 .. drawn.n : drawn.targets.at[i] = p[1] /\ (i \in prev_flags => i \in ghosts)
    BY <1>7 DEF GhostInv
  <2>3. i \notin MovedTargets(drawn') /\ i \notin Hit(drawn')
    BY <1>7, <2>2 DEF Gone
  <2>4. drawn'.targets.at[i] = p[1]
    BY <2>2, <2>3 DEF MovedTargets
  <2>. QED  BY <2>1, <2>2, <2>3, <2>4, Taken
<1>. QED  BY <1>2, <1>5, <1>6, <1>7 DEF SignsLeft

LEMMA VisibleAndGhostStep ==
  IInv /\ IInv' /\ HeldInv /\ VisibleInv /\ GhostInv /\ [Next]_vars => VisibleInv' /\ GhostInv'
<1>. SUFFICES ASSUME IInv, IInv', HeldInv, VisibleInv, GhostInv, [Next]_vars
              PROVE  VisibleInv' /\ GhostInv'
  OBVIOUS
<1>1. CASE UNCHANGED window_vars
  BY <1>1 DEF window_vars, game_vars, VisibleInv, OneList, GhostInv
<1>2. CASE Draw
  BY <1>2, DrawVisibleInv, DrawGhostInv
<1>3. CASE DrawAndRestart
  <2>1. drawn' = Undrawn(n_window') /\ screen' = {}
    BY <1>3 DEF DrawAndRestart
  <2>2. drawn'.n \in 1 .. Size /\ drawn'.targets.of = 0
        /\ \A i \in Indices : drawn'.targets.at[i] = Origin
    <3>1. drawn'.n \in 1 .. Size
      BY GameScreenAssumption DEF IInv, ServerInv, Types, TypeOK
    <3>. QED  BY <2>1, <3>1, NothingIsAnArray DEF Undrawn, Nothing
  <2>3. \A i \in 1 .. drawn'.n : i \in Indices
    BY <2>2, GameScreenAssumption DEF Indices
  <2>. QED  BY <2>1, <2>2, <2>3 DEF VisibleInv, GhostInv
<1>. QED  BY <1>1, <1>2, <1>3
          DEF Next, Server, Window, PressReset, SendTargets, ServerFrame, ServerRestart, vars

LEMMA InitVisibleAndGhost == Init => VisibleInv /\ GhostInv
<1>. SUFFICES ASSUME Init PROVE VisibleInv /\ GhostInv
  OBVIOUS
<1>1. drawn = Undrawn(n_window) /\ n_window \in 1 .. Size /\ screen = {}
  BY GameScreenAssumption DEF Init
<1>2. drawn.n \in 1 .. Size /\ drawn.targets.of = 0 /\ \A i \in Indices : drawn.targets.at[i] = Origin
  BY <1>1, NothingIsAnArray DEF Undrawn, Nothing
<1>3. \A i \in 1 .. drawn.n : i \in Indices
  BY <1>2, GameScreenAssumption DEF Indices
<1>. QED  BY <1>1, <1>2, <1>3 DEF VisibleInv, GhostInv

THEOREM ScreenInductive == Spec => [](IInv /\ HeldInv /\ FlagInv /\ VisibleInv /\ GhostInv)
<1>1. Init => HeldInv /\ VisibleInv /\ GhostInv
  BY InitHeldInv, InitVisibleAndGhost
<1>2. Init => FlagInv
  BY DEF Init, FlagInv, Places
<1>3. IInv /\ IInv' /\ HeldInv /\ VisibleInv /\ GhostInv /\ [Next]_vars
      => HeldInv' /\ VisibleInv' /\ GhostInv'
  BY HeldInvStep, VisibleAndGhostStep
<1>4. IInv /\ HeldInv /\ FlagInv /\ [Next]_vars => FlagInv'
  BY FlagStep
<1>. QED  BY Inductive, <1>1, <1>2, <1>3, <1>4, PTL DEF Spec

\* Over any number of resets the score is the number of targets that the drone has been
\* drawn on since the window's start, each sent by a generator, while one list has been
\* drawn; with a second list it is the number of indices at which a target was, and a
\* new one under an old flag is not counted (Window.c:98-120).
THEOREM ScoreTrueHolds == Spec => []ScoreTrue
<1>1. IInv /\ FlagInv => ScoreTrue
  <2>. SUFFICES ASSUME IInv, FlagInv, ~just_got_reset
                PROVE  /\ \A c \in covered : c[2] \in 1 .. window + 1
                       /\ score <= Cardinality(Places)
                       /\ drawn.n = n_window => score = Cardinality(Places)
                       /\ OneList => score = Cardinality(covered)
    BY DEF ScoreTrue, Places
  <2>1. /\ covered \subseteq Indices \X (1 .. window + 1)
        /\ prev_flags \subseteq Indices /\ score = Cardinality(prev_flags)
    BY DEF IInv, Score
  <2>2. Places \subseteq Indices /\ \A c \in covered : c = <<c[1], c[2]>>
    BY <2>1 DEF Places
  <2>3. IsFiniteSet(Places) /\ Cardinality(Places) \in Nat
    BY <2>2, FlagsFinite
  <2>4. score <= Cardinality(Places)
    BY <2>1, <2>3, FS_Subset DEF FlagInv
  <2>5. drawn.n = n_window => prev_flags = Places
    BY DEF FlagInv
  <2>6. ASSUME OneList
        PROVE  Cardinality(covered) = Cardinality(Places)
    <3>1. \A c, d \in covered : c[2] = d[2]
      <4>1. lists \subseteq 1 .. MaxResets + 1
        BY DEF IInv, ServerInv, Types, TypeOK
      <4>2. \A a, b \in lists : a = b
        BY <2>6, <4>1, ListsFinite DEF OneList
      <4>. QED  BY <4>2 DEF FlagInv
    <3>2. CASE covered = {}
      <4>1. Places = {}
        BY <3>2 DEF Places
      <4>. QED  BY <3>2, <4>1
    <3>3. ASSUME NEW e \in covered
          PROVE  Cardinality(covered) = Cardinality(Places)
      <4>1. covered = Places \X {e[2]}
        BY <2>2, <3>1, <3>3 DEF Places
      <4>2. IsFiniteSet({e[2]}) /\ Cardinality({e[2]}) = 1
        BY FS_Singleton
      <4>3. Cardinality(Places \X {e[2]}) = Cardinality(Places) * Cardinality({e[2]})
        BY <2>3, <4>2, FS_Product
      <4>. QED  BY <2>3, <4>1, <4>2, <4>3
    <3>. QED  BY <3>2, <3>3
  <2>. QED  BY <2>1, <2>4, <2>5, <2>6 DEF OneList
<1>. QED  BY ScreenInductive, <1>1, PTL

\* What is still to be hit can be seen, over any number of resets and however states are
\* dropped, while one list has come to the window with its own number of targets: the
\* drone erases only what it hits, and a list of one number is always the same list
\* (Window.c:44-163).
THEOREM TargetsVisibleHolds == Spec => []TargetsVisible
<1>1. VisibleInv => TargetsVisible
  <2>. SUFFICES ASSUME VisibleInv, OneList, NEW i \in 1 .. drawn.n,
                       drawn.targets.at[i] # Origin, i \notin prev_flags
                PROVE  drawn.targets.at[i] \in Seen("T")
    BY DEF TargetsVisible, OneList
  <2>1. <<drawn.targets.at[i], "T">> \in {q \in screen : q[2] = "T"}
    BY DEF VisibleInv
  <2>2. <<drawn.targets.at[i], "T">>[1] = drawn.targets.at[i]
    OBVIOUS
  <2>. QED  BY <2>1, <2>2 DEF Seen
<1>. QED  BY ScreenInductive, <1>1, PTL

\* Where a target is drawn there is one to be hit, but for those drawn when they had
\* been hit already (Window.c:126-146).
THEOREM NoGhostsHold == Spec => []NoGhosts
<1>1. GhostInv => NoGhosts
  BY DEF GhostInv, NoGhosts, Seen
<1>. QED  BY ScreenInductive, <1>1, PTL
=============================================================================
