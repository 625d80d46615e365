-------------------------- MODULE BlackboardProofs --------------------------
(***************************************************************************)
(* Theorems about Blackboard, for every capacity of the FIFOs, every set   *)
(* of forces, and any number of changes and of lists of obstacles.         *)
(***************************************************************************)
EXTENDS Blackboard, SequenceTheorems, TLAPS

-----------------------------------------------------------------------------
(***************************************************************************)
(* FIFOs.                                                                  *)
(***************************************************************************)
\* A message that is written is the last one, behind those that were there.
LEMMA Written ==
  ASSUME NEW S, NEW fifo \in Seq(S), NEW m \in S
  PROVE  /\ Append(fifo, m) \in Seq(S)
         /\ Len(Append(fifo, m)) = Len(fifo) + 1
         /\ \A i \in 1 .. Len(fifo) : Append(fifo, m)[i] = fifo[i]
         /\ Append(fifo, m)[Len(fifo) + 1] = m
  BY AppendProperties

\* A message that is read was the first one, and the others move up.
LEMMA Read ==
  ASSUME NEW S, NEW fifo \in Seq(S), Readable(fifo)
  PROVE  /\ Len(fifo) >= 1
         /\ Head(fifo) = fifo[1] /\ Head(fifo) \in S
         /\ Rest(fifo) = Tail(fifo) /\ Tail(fifo) \in Seq(S)
         /\ Len(Tail(fifo)) = Len(fifo) - 1
         /\ \A i \in 1 .. Len(fifo) - 1 : Tail(fifo)[i] = fifo[i + 1]
  BY HeadTailProperties, EmptySeq DEF Readable, Rest

\* Reading a FIFO, if there is anything to read, never makes it longer.
LEMMA RestShorter ==
  ASSUME NEW S, NEW fifo \in Seq(S)
  PROVE  Rest(fifo) \in Seq(S) /\ Len(Rest(fifo)) <= Len(fifo)
<1>1. CASE Readable(fifo)
  BY <1>1, Read, LenProperties
<1>2. CASE ~Readable(fifo)
  BY <1>2, LenProperties DEF Rest
<1> QED
  BY <1>1, <1>2

-----------------------------------------------------------------------------
(***************************************************************************)
(* Types.                                                                  *)
(***************************************************************************)
\* What a frame gathers and takes over are states, and the numbers it keeps are
\* a force and a version of the targets.
LEMMA FrameTypes ==
  ASSUME TypeOK
  PROVE  /\ Input \in Forces /\ NewTargets \in Nat
         /\ Gathered \in State
         /\ \A s \in State : Adopted(s) \in State
<1>1. Input \in Forces
  BY Read DEF TypeOK, Input
<1>2. NewTargets \in Nat
  BY Read DEF TypeOK, NewTargets
<1>3. Readable(obstacles) => Head(obstacles) \in Nat
  BY Read DEF TypeOK
<1>4. Gathered \in State
  BY <1>1, <1>2, <1>3 DEF TypeOK, Gathered, State
<1>5. Readable(fromDynamics) => Head(fromDynamics) \in State
  BY Read DEF TypeOK
<1>6. ASSUME NEW s \in State PROVE Adopted(s) \in State
  BY <1>2, <1>5, <1>6 DEF Adopted, State
<1> QED
  BY <1>1, <1>2, <1>4, <1>6

\* Every state the specification reaches is well typed, no FIFO holds more than
\* fits in it.
THEOREM TypeCorrect == Spec => []TypeOK
<1>1. Init => TypeOK
  <2> SUFFICES ASSUME Init PROVE TypeOK
    OBVIOUS
  <2>1. /\ <<>> \in Seq(Forces) /\ <<>> \in Seq(Nat) /\ <<>> \in Seq(State)
        /\ Len(<<>>) = 0
    OBVIOUS
  <2>2. Zero \in State
    BY BlackboardAssumption DEF Zero, State
  <2>3. PipeCap \in Nat /\ SourceCap \in Nat /\ 0 \in Forces
    BY BlackboardAssumption
  <2>4. /\ keys \in Seq(Forces) /\ targets \in Seq(Nat) /\ obstacles \in Seq(Nat)
        /\ toDynamics \in Seq(State) /\ fromDynamics \in Seq(State) /\ toWindow \in Seq(State)
    BY <2>1 DEF Init
  <2>5. /\ Len(keys) <= SourceCap /\ Len(targets) <= SourceCap /\ Len(obstacles) <= SourceCap
        /\ \A fifo \in {toDynamics, fromDynamics, toWindow} : Len(fifo) <= PipeCap
    BY <2>1, <2>3 DEF Init
  <2>6. state \in State /\ moved \in State /\ shown \in State
    BY <2>2 DEF Init
  <2> QED
    BY <2>3, <2>4, <2>5, <2>6 DEF Init, TypeOK
<1>2. TypeOK /\ [Next]_vars => TypeOK'
  <2> SUFFICES ASSUME TypeOK, [Next]_vars PROVE TypeOK'
    OBVIOUS
  <2> USE BlackboardAssumption
  <2>1. ASSUME NEW f \in Forces, SendInput(f), changes' \in Nat PROVE TypeOK'
    BY <2>1, Written DEF TypeOK, SendInput, Fits, server, dynamics
  <2>2. CASE Repeat
    BY <2>1, <2>2 DEF Repeat, TypeOK
  <2>3. ASSUME NEW f \in Forces, Change(f) PROVE TypeOK'
    BY <2>1, <2>3 DEF Change, TypeOK
  <2>4. CASE SendTargets
    BY <2>4, Written DEF TypeOK, SendTargets, Fits, server, dynamics
  <2>5. CASE SendObstacles
    <3>1. obstacles_sent' \in Nat
      BY <2>5 DEF SendObstacles, TypeOK
    <3> QED
      BY <2>5, <3>1, Written DEF TypeOK, SendObstacles, Fits, server, dynamics
  <2>6. CASE ServerFrame
    <3>1. /\ Rest(keys) \in Seq(Forces) /\ Rest(targets) \in Seq(Nat) /\ Rest(obstacles) \in Seq(Nat)
          /\ Rest(fromDynamics) \in Seq(State)
          /\ Len(Rest(keys)) <= SourceCap /\ Len(Rest(targets)) <= SourceCap
          /\ Len(Rest(obstacles)) <= SourceCap /\ Len(Rest(fromDynamics)) <= PipeCap
      BY RestShorter, LenProperties, SMTT(30) DEF TypeOK
    <3>2. toWindow' \in Seq(State) /\ Len(toWindow') <= PipeCap
      BY <2>6, FrameTypes, Written, LenProperties DEF TypeOK, ServerFrame, Writable
    <3>3. toDynamics' \in Seq(State) /\ Len(toDynamics') <= PipeCap
      BY <2>6, FrameTypes, Written, LenProperties DEF TypeOK, ServerFrame, Sends, Writable
    <3>4. state' \in State /\ input' \in Forces /\ prev_input' \in Forces /\ new_targets' \in Nat
      BY <2>6, FrameTypes DEF TypeOK, ServerFrame
    <3>5. late' \in BOOLEAN
      BY <2>6 DEF ServerFrame, TypeOK
    <3> QED
      BY <2>6, <3>1, <3>2, <3>3, <3>4, <3>5 DEF TypeOK, ServerFrame, dynamics, sources
  <2>7. CASE Iterate
    <3>1. moved' \in State
      BY <2>7, Read DEF TypeOK, Iterate
    <3>2. toDynamics' \in Seq(State) /\ Len(toDynamics') <= PipeCap
      BY <2>7, RestShorter, LenProperties DEF TypeOK, Iterate
    <3> QED
      BY <2>7, <3>1, <3>2 DEF TypeOK, Iterate, server, sources
  <2>8. CASE SendMoved
    <3>1. fromDynamics' \in Seq(State) /\ Len(fromDynamics') <= PipeCap
      BY <2>8, Written, LenProperties DEF TypeOK, SendMoved, Writable
    <3> QED
      BY <2>8, <3>1 DEF TypeOK, SendMoved, server, sources
  <2>9. CASE Draw
    <3>1. shown' \in State /\ toWindow' \in Seq(State) /\ Len(toWindow') <= PipeCap
      BY <2>9, Read, LenProperties DEF TypeOK, Draw
    <3> QED
      BY <2>9, <3>1 DEF TypeOK, Draw, server, dynamics, sources
  <2>10. CASE UNCHANGED vars
    BY <2>10 DEF TypeOK, vars
  <2> QED
    BY <2>2, <2>3, <2>4, <2>5, <2>6, <2>7, <2>8, <2>9, <2>10 DEF Next, Dynamics
<1> QED
  BY <1>1, <1>2, PTL DEF Spec

-----------------------------------------------------------------------------
(***************************************************************************)
(* The targets stay.                                                       *)
(***************************************************************************)
\* The versions of the targets never go back along the way from the server to
\* the window: neither between two states in the FIFO, nor from what is shown to
\* what is in the FIFO, nor from there to what the server knows.
WindowInv ==
  /\ \A i, j \in 1 .. Len(toWindow) : i <= j => toWindow[i].targets <= toWindow[j].targets
  /\ \A i \in 1 .. Len(toWindow) :
        shown.targets <= toWindow[i].targets /\ toWindow[i].targets <= new_targets
  /\ shown.targets <= new_targets

\* The server's state holds the targets it read last, whatever has come back from
\* the dynamics, and what is still to be read is no older.
ServerInv ==
  /\ state.targets = new_targets
  /\ new_targets \in {0, 1}
  /\ \A i \in 1 .. Len(targets) : targets[i] = 1

TargetsInv == TypeOK /\ ServerInv /\ WindowInv

\* A frame reads targets that are no older than those it knew, gives them to the
\* window, and keeps them in the state when the dynamics' has been taken over.
LEMMA FrameTargets ==
  ASSUME TypeOK, ServerInv
  PROVE  /\ NewTargets \in {0, 1} /\ new_targets <= NewTargets
         /\ Gathered.targets = NewTargets
         /\ Adopted(Gathered).targets = NewTargets
<1>1. NewTargets \in {0, 1} /\ new_targets <= NewTargets
  <2>1. CASE Readable(targets)
    BY <2>1, Read DEF TypeOK, ServerInv, NewTargets
  <2>2. CASE ~Readable(targets)
    BY <2>2 DEF ServerInv, NewTargets
  <2> QED
    BY <2>1, <2>2
<1>2. Gathered.targets = NewTargets
  BY DEF TypeOK, State, ServerInv, NewTargets, Gathered
<1>3. Adopted(Gathered).targets = NewTargets
  <2>1. CASE Readable(fromDynamics)
    <3>1. Head(fromDynamics) \in State
      BY <2>1, Read DEF TypeOK
    <3> QED
      BY <2>1, <3>1 DEF Adopted, State
  <2>2. CASE ~Readable(fromDynamics)
    BY <2>2, <1>2 DEF Adopted
  <2> QED
    BY <2>1, <2>2
<1> QED
  BY <1>1, <1>2, <1>3

\* The invariant holds in every state the specification reaches.
THEOREM TargetsInvariant == Spec => []TargetsInv
<1>1. Init => ServerInv /\ WindowInv
  BY DEF Init, ServerInv, WindowInv, Zero
<1>2. TypeOK /\ ServerInv /\ WindowInv /\ [Next]_vars => ServerInv' /\ WindowInv'
  <2> SUFFICES ASSUME TypeOK, ServerInv, WindowInv, [Next]_vars
               PROVE  ServerInv' /\ WindowInv'
    OBVIOUS
  <2>1. ASSUME UNCHANGED <<state, new_targets, targets, toWindow, shown>>
        PROVE  ServerInv' /\ WindowInv'
    BY <2>1 DEF ServerInv, WindowInv
  <2>2. ASSUME NEW f \in Forces, SendInput(f) PROVE ServerInv' /\ WindowInv'
    BY <2>1, <2>2 DEF SendInput, server
  <2>3. CASE SendTargets
    <3>1. WindowInv'
      BY <2>3 DEF SendTargets, server, WindowInv
    <3>2. \A i \in 1 .. Len(targets') : targets'[i] = 1
      <4>1. targets' = Append(targets, 1)
        BY <2>3 DEF SendTargets
      <4>2. /\ Len(targets) \in Nat /\ Len(targets') = Len(targets) + 1
            /\ \A i \in 1 .. Len(targets) : targets'[i] = targets[i]
            /\ targets'[Len(targets) + 1] = 1
        BY <4>1, Written, LenProperties DEF TypeOK
      <4>3. \A i \in 1 .. Len(targets) + 1 : i \in 1 .. Len(targets) \/ i = Len(targets) + 1
        BY <4>2
      <4> QED
        BY <4>2, <4>3 DEF ServerInv
    <3> QED
      BY <2>3, <3>1, <3>2 DEF SendTargets, server, ServerInv
  <2>4. CASE SendObstacles
    BY <2>1, <2>4 DEF SendObstacles, server
  <2>5. CASE ServerFrame
    <3>1. state'.targets = new_targets' /\ new_targets' \in {0, 1} /\ new_targets <= new_targets'
      BY <2>5, FrameTargets DEF ServerFrame
    <3>2. \A i \in 1 .. Len(targets') : targets'[i] = 1
      <4>1. targets' = Rest(targets)
        BY <2>5 DEF ServerFrame
      <4>2. CASE Readable(targets)
        <5>1. /\ Len(targets) \in Nat /\ Len(targets') = Len(targets) - 1
              /\ \A i \in 1 .. Len(targets) - 1 : targets'[i] = targets[i + 1]
          BY <4>1, <4>2, Read, LenProperties DEF TypeOK
        <5> QED
          BY <5>1 DEF ServerInv
      <4>3. CASE ~Readable(targets)
        BY <4>1, <4>3 DEF ServerInv, Rest
      <4> QED
        BY <4>2, <4>3
    <3>3. shown' = shown /\ shown.targets \in Nat
      BY <2>5 DEF ServerFrame, TypeOK, State
    <3>4. \A i \in 1 .. Len(toWindow) : toWindow[i].targets \in Nat
      <4>1. ASSUME NEW i \in 1 .. Len(toWindow) PROVE toWindow[i] \in State
        BY <4>1, ElementOfSeq DEF TypeOK
      <4> QED
        BY <4>1 DEF State
    <3>5. CASE toWindow' = toWindow
      <4>1. \A i \in 1 .. Len(toWindow) : toWindow[i].targets <= new_targets'
        BY <3>1, <3>4 DEF WindowInv, ServerInv
      <4>2. shown.targets <= new_targets'
        BY <3>1, <3>3 DEF WindowInv, ServerInv
      <4>3. WindowInv'
        BY <3>3, <3>5, <4>1, <4>2 DEF WindowInv
      <4> QED
        BY <3>1, <3>2, <4>3 DEF ServerInv
    <3>6. CASE toWindow' = Append(toWindow, Gathered)
      <4> DEFINE n == Len(toWindow)
      <4>1. /\ n \in Nat /\ Len(toWindow') = n + 1
            /\ \A i \in 1 .. n : toWindow'[i] = toWindow[i]
            /\ toWindow'[n + 1] = Gathered
        BY <3>6, FrameTypes, Written, LenProperties DEF TypeOK
      <4>2. Gathered.targets = new_targets'
        BY <2>5, FrameTargets DEF ServerFrame
      <4>3. \A i \in 1 .. n : /\ shown.targets <= toWindow[i].targets
                              /\ toWindow[i].targets <= new_targets'
        BY <3>1, <3>4 DEF WindowInv, ServerInv
      <4>4. shown.targets <= new_targets'
        BY <3>1, <3>3 DEF WindowInv, ServerInv
      <4>5. \A i \in 1 .. n + 1 : i \in 1 .. n \/ i = n + 1
        BY <4>1
      <4>6. ASSUME NEW i \in 1 .. n + 1, NEW j \in 1 .. n + 1, i <= j
            PROVE  toWindow'[i].targets <= toWindow'[j].targets
        <5>1. CASE j \in 1 .. n
          BY <4>1, <4>6, <5>1 DEF WindowInv
        <5>2. CASE j = n + 1 /\ i \in 1 .. n
          BY <4>1, <4>2, <4>3, <5>2
        <5>3. CASE j = n + 1 /\ i = n + 1
          BY <4>1, <4>2, <3>1, <5>3
        <5> QED
          BY <4>5, <5>1, <5>2, <5>3
      <4>7. ASSUME NEW i \in 1 .. n + 1
            PROVE  shown.targets <= toWindow'[i].targets /\ toWindow'[i].targets <= new_targets'
        BY <3>1, <4>1, <4>2, <4>3, <4>4, <4>5
      <4> QED
        BY <3>1, <3>2, <3>3, <4>1, <4>4, <4>6, <4>7 DEF ServerInv, WindowInv
    <3>7. toWindow' = toWindow \/ toWindow' = Append(toWindow, Gathered)
      BY <2>5 DEF ServerFrame
    <3>8. WindowInv' => ServerInv' /\ WindowInv'
      BY <3>1, <3>2 DEF ServerInv
    <3> QED
      BY <3>5, <3>6, <3>7, <3>8
  <2>6. CASE Iterate
    BY <2>1, <2>6 DEF Iterate, server
  <2>7. CASE SendMoved
    BY <2>1, <2>7 DEF SendMoved, server
  <2>8. CASE Draw
    <3>1. ServerInv'
      BY <2>8 DEF Draw, server, ServerInv
    <3>2. /\ Len(toWindow) \in Nat /\ Len(toWindow) >= 1
          /\ shown' = toWindow[1] /\ Len(toWindow') = Len(toWindow) - 1
          /\ \A i \in 1 .. Len(toWindow) - 1 : toWindow'[i] = toWindow[i + 1]
          /\ new_targets' = new_targets
      BY <2>8, Read, LenProperties DEF Draw, TypeOK, server
    <3> QED
      BY <3>1, <3>2, SMTT(30) DEF WindowInv
  <2>9. CASE UNCHANGED vars
    BY <2>1, <2>9 DEF vars, server
  <2>10. CASE Repeat
    BY <2>2, <2>10 DEF Repeat, TypeOK
  <2>11. ASSUME NEW f \in Forces, Change(f) PROVE ServerInv' /\ WindowInv'
    BY <2>2, <2>11 DEF Change
  <2> QED
    BY <2>3, <2>4, <2>5, <2>6, <2>7, <2>8, <2>9, <2>10, <2>11 DEF Next, Dynamics
<1> QED
  BY <1>1, <1>2, TypeCorrect, PTL DEF Spec, TargetsInv

\* Once the window shows the targets it goes on showing them, whatever states come
\* back from the dynamics, and with FIFOs of any size.
THEOREM TargetsStayHolds == Spec => TargetsStay
<1>1. TargetsInv /\ [Next]_vars => [shown.targets <= shown'.targets]_vars
  <2> SUFFICES ASSUME TargetsInv, [Next]_vars
               PROVE  shown.targets <= shown'.targets
    OBVIOUS
  <2>1. shown.targets \in Nat
    BY DEF TargetsInv, TypeOK, State
  <2>2. CASE Draw
    <3>1. Len(toWindow) >= 1 /\ shown' = toWindow[1]
      BY <2>2, Read DEF Draw, TargetsInv, TypeOK
    <3>2. 1 \in 1 .. Len(toWindow)
      BY <3>1, LenProperties DEF TargetsInv, TypeOK
    <3> QED
      BY <3>1, <3>2 DEF TargetsInv, WindowInv
  <2>3. CASE shown' = shown
    BY <2>1, <2>3
  <2>4. Draw \/ shown' = shown
    BY DEF Next, Repeat, Change, SendInput, SendTargets, SendObstacles, ServerFrame,
           Dynamics, Iterate, SendMoved, vars
  <2> QED
    BY <2>2, <2>3, <2>4
<1> QED
  BY <1>1, TargetsInvariant, PTL DEF Spec, TargetsStay

-----------------------------------------------------------------------------
(***************************************************************************)
(* What the dynamics is told.                                              *)
(***************************************************************************)
\* Reading the FIFO does not change what the dynamics has been told in the end, and
\* only a frame that sends does.
LEMMA ToldStep ==
  ASSUME TypeOK, [Next]_vars
  PROVE  /\ ~ServerFrame => Told' = Told
         /\ ServerFrame => Told' = IF Sends THEN Gathered ELSE Told
<1>1. ASSUME UNCHANGED <<toDynamics, moved>> PROVE Told' = Told
  BY <1>1 DEF Told, Readable
<1>2. ASSUME ServerFrame PROVE Told' = IF Sends THEN Gathered ELSE Told
  <2>1. CASE Sends
    <3>1. toDynamics' = Append(toDynamics, Gathered)
      BY <1>2, <2>1 DEF ServerFrame
    <3>2. /\ Len(toDynamics) \in Nat /\ Len(toDynamics') = Len(toDynamics) + 1
          /\ toDynamics'[Len(toDynamics) + 1] = Gathered
      BY <3>1, FrameTypes, Written, LenProperties DEF TypeOK
    <3>3. toDynamics' # <<>>
      BY <3>2
    <3> QED
      BY <1>2, <2>1, <3>2, <3>3 DEF Told, Readable
  <2>2. CASE ~Sends
    BY <1>1, <1>2, <2>2 DEF ServerFrame, dynamics
  <2> QED
    BY <2>1, <2>2
<1>3. ASSUME Iterate PROVE Told' = Told
  <2>1. toDynamics' = Rest(toDynamics)
        /\ moved' = IF Readable(toDynamics) THEN Head(toDynamics) ELSE moved
    BY <1>3 DEF Iterate
  <2>2. CASE Readable(toDynamics)
    <3> DEFINE n == Len(toDynamics)
    <3>1. /\ n \in Nat /\ n >= 1 /\ moved' = toDynamics[1]
          /\ Len(toDynamics') = n - 1 /\ toDynamics' \in Seq(State)
          /\ \A i \in 1 .. n - 1 : toDynamics'[i] = toDynamics[i + 1]
      BY <2>1, <2>2, Read, LenProperties DEF TypeOK
    <3>2. CASE n = 1
      <4>1. toDynamics' = <<>>
        BY <3>1, <3>2, EmptySeq
      <4> QED
        BY <2>2, <3>1, <3>2, <4>1 DEF Told, Readable
    <3>3. CASE n > 1
      <4>1. toDynamics' # <<>>
        BY <3>1, <3>3, EmptySeq
      <4>2. toDynamics'[n - 1] = toDynamics[n]
        <5>1. n - 1 \in 1 .. n - 1 /\ (n - 1) + 1 = n
          BY <3>1, <3>3
        <5> QED
          BY <3>1, <5>1
      <4> QED
        BY <2>2, <3>1, <4>1, <4>2 DEF Told, Readable
    <3> QED
      BY <3>1, <3>2, <3>3
  <2>3. CASE ~Readable(toDynamics)
    BY <1>1, <2>1, <2>3 DEF Rest
  <2> QED
    BY <2>2, <2>3
<1>4. ServerFrame \/ Iterate \/ UNCHANGED <<toDynamics, moved>>
  BY DEF Next, Repeat, Change, SendInput, SendTargets, SendObstacles, Dynamics, SendMoved, Draw,
         dynamics, vars
<1>5. ASSUME ~ServerFrame PROVE Told' = Told
  BY <1>1, <1>3, <1>4, <1>5
<1> QED
  BY <1>2, <1>5

\* Until the dynamics' FIFO has been full at the wrong time, the last input is always
\* one that the dynamics has been told.
ForceInv ==
  /\ ~late => input = prev_input
  /\ obstacles_sent = 0 => obstacles = <<>>
  /\ ForceInStep

LEMMA ForceInvStep == TypeOK /\ ForceInv /\ [Next]_vars => ForceInv'
<1> SUFFICES ASSUME TypeOK, ForceInv, [Next]_vars PROVE ForceInv'
  OBVIOUS
<1>1. CASE ServerFrame
  <2>1. /\ input' = Input /\ prev_input' = (IF Sends THEN Input ELSE prev_input)
        /\ late' = (late \/ (Wanted /\ ~Sends))
        /\ obstacles' = Rest(obstacles) /\ obstacles_sent' = obstacles_sent
    BY <1>1 DEF ServerFrame, sources
  <2>2. late \in BOOLEAN
    BY DEF TypeOK
  <2>3. ~late' => ~late /\ input' = prev_input'
    BY <2>1, <2>2 DEF Wanted
  <2>4. ASSUME obstacles_sent' = 0
        PROVE  obstacles' = <<>> /\ ~Readable(obstacles)
    BY <2>1, <2>4 DEF ForceInv, Rest, Readable
  <2>5. ASSUME obstacles_sent' = 0, ~late'
        PROVE  Told'.force = prev_input'
    <3>1. CASE Sends
      <4>1. Input # prev_input /\ input = prev_input
        BY <2>3, <2>4, <2>5, <3>1 DEF Sends, Wanted, ForceInv
      <4>2. Readable(keys)
        BY <4>1 DEF Input
      <4>3. Gathered.force = Input
        BY <4>1, <4>2 DEF Gathered, TypeOK, State
      <4> QED
        BY <1>1, <2>1, <3>1, <4>3, ToldStep
    <3>2. CASE ~Sends
      BY <1>1, <2>1, <2>3, <2>5, <3>2, ToldStep DEF ForceInv, ForceInStep
    <3> QED
      BY <3>1, <3>2
  <2> QED
    BY <2>3, <2>4, <2>5 DEF ForceInv, ForceInStep
<1>2. CASE SendObstacles
  BY <1>2 DEF SendObstacles, server, dynamics, ForceInv, ForceInStep, TypeOK, Told
<1>3. CASE ~ServerFrame /\ ~SendObstacles
  <2>1. UNCHANGED <<input, prev_input, late, obstacles, obstacles_sent>>
    BY <1>3 DEF Next, Repeat, Change, SendInput, SendTargets, Dynamics, Iterate, SendMoved, Draw,
                server, sources, vars
  <2> QED
    BY <1>3, <2>1, ToldStep DEF ForceInv, ForceInStep
<1> QED
  BY <1>1, <1>2, <1>3

\* The force the server takes for old is the one the dynamics has been told last, so
\* that a new one is never taken for old (BlackBoardServer.c:174, 239-251).
THEOREM ForceInStepHolds == Spec => []ForceInStep
<1>1. Init => ForceInv
  BY DEF Init, ForceInv, ForceInStep, Told, Readable, Zero
<1> QED
  BY <1>1, ForceInvStep, TypeCorrect, PTL DEF Spec, ForceInv

\* The lists of obstacles to be read are the last ones sent, in their order; and until
\* the force changes there is no other in the server or on its way to it.
ObstaclesInv ==
  /\ \A i \in 1 .. Len(obstacles) : obstacles[i] = obstacles_sent - Len(obstacles) + i
  /\ changes = 0 => /\ force = 0 /\ input = 0 /\ prev_input = 0
                    /\ \A i \in 1 .. Len(keys) : keys[i] = 0
  /\ ObstaclesInStep

LEMMA FrameObstacles == TypeOK /\ ObstaclesInv /\ ServerFrame => ObstaclesInv'
<1> SUFFICES ASSUME TypeOK, ObstaclesInv, ServerFrame PROVE ObstaclesInv'
  OBVIOUS
<1> DEFINE n == Len(obstacles)
<1>1. /\ input' = Input /\ prev_input' = (IF Sends THEN Input ELSE prev_input)
      /\ late' = (late \/ (Wanted /\ ~Sends)) /\ late \in BOOLEAN
      /\ keys' = Rest(keys) /\ obstacles' = Rest(obstacles)
      /\ UNCHANGED <<force, changes, obstacles_sent>>
  BY DEF ServerFrame, sources, TypeOK
<1>2. Told' = IF Sends THEN Gathered ELSE Told
  BY ToldStep DEF Next
<1>3. n \in Nat /\ obstacles_sent \in Nat /\ (Readable(obstacles) => n >= 1)
  BY Read, LenProperties DEF TypeOK
<1>4. ASSUME Readable(obstacles)
      PROVE  /\ Head(obstacles) = obstacles_sent - Len(obstacles')
             /\ Len(obstacles') = n - 1
             /\ \A i \in 1 .. n - 1 : obstacles'[i] = obstacles[i + 1]
  <2>1. /\ Head(obstacles) = obstacles[1] /\ Len(obstacles') = n - 1
        /\ \A i \in 1 .. n - 1 : obstacles'[i] = obstacles[i + 1]
    BY <1>1, <1>4, Read DEF TypeOK
  <2>2. obstacles[1] = obstacles_sent - n + 1
    BY <1>3, <1>4 DEF ObstaclesInv
  <2> QED
    BY <1>3, <2>1, <2>2
<1>5. ~Readable(obstacles) => obstacles' = obstacles /\ n = 0
  BY <1>1 DEF Rest, Readable
<1>6. \A i \in 1 .. Len(obstacles') : obstacles'[i] = obstacles_sent' - Len(obstacles') + i
  <2>1. CASE Readable(obstacles)
    <3>1. ASSUME NEW i \in 1 .. n - 1
          PROVE  obstacles'[i] = obstacles_sent - (n - 1) + i
      <4>1. i + 1 \in 1 .. n /\ obstacles'[i] = obstacles[i + 1]
        BY <1>3, <1>4, <2>1
      <4>2. obstacles[i + 1] = obstacles_sent - n + (i + 1)
        BY <4>1 DEF ObstaclesInv
      <4> QED
        BY <1>3, <4>1, <4>2
    <3> QED
      BY <1>1, <1>4, <2>1, <3>1
  <2>2. CASE ~Readable(obstacles)
    BY <1>1, <1>5, <2>2 DEF ObstaclesInv
  <2> QED
    BY <2>1, <2>2
<1>7. ASSUME changes' = 0
      PROVE  /\ force' = 0 /\ input' = 0 /\ prev_input' = 0 /\ Input = 0 /\ prev_input = 0
             /\ \A i \in 1 .. Len(keys') : keys'[i] = 0
  <2>1. /\ force = 0 /\ input = 0 /\ prev_input = 0
        /\ \A i \in 1 .. Len(keys) : keys[i] = 0
    BY <1>1, <1>7 DEF ObstaclesInv
  <2>2. CASE Readable(keys)
    <3>1. /\ Len(keys) \in Nat /\ Len(keys) >= 1 /\ Head(keys) = keys[1]
          /\ Len(keys') = Len(keys) - 1
          /\ \A i \in 1 .. Len(keys) - 1 : keys'[i] = keys[i + 1]
      BY <1>1, <2>2, Read, LenProperties DEF TypeOK
    <3>2. Input = 0
      BY <2>1, <2>2, <3>1 DEF Input
    <3> QED
      BY <1>1, <2>1, <3>1, <3>2
  <2>3. CASE ~Readable(keys)
    BY <1>1, <2>1, <2>3 DEF Input, Rest
  <2> QED
    BY <2>2, <2>3
<1>8. ASSUME changes' = 0, ~late'
      PROVE  Told'.obstacles = obstacles_sent' - Len(obstacles')
  <2>1. ~late /\ (Wanted => Sends) /\ changes = 0
    BY <1>1, <1>8
  <2>2. Sends <=> Readable(obstacles)
    BY <1>7, <1>8, <2>1 DEF Sends, Wanted
  <2>3. CASE Readable(obstacles)
    <3>1. Gathered.obstacles = Head(obstacles)
      BY <2>3 DEF Gathered, TypeOK, State
    <3> QED
      BY <1>1, <1>2, <1>4, <2>2, <2>3, <3>1
  <2>4. CASE ~Readable(obstacles)
    BY <1>1, <1>2, <1>5, <2>1, <2>2, <2>4 DEF ObstaclesInv, ObstaclesInStep
  <2> QED
    BY <2>3, <2>4
<1> QED
  BY <1>6, <1>7, <1>8 DEF ObstaclesInv, ObstaclesInStep

LEMMA ObstaclesInvStep == TypeOK /\ ObstaclesInv /\ [Next]_vars => ObstaclesInv'
<1> SUFFICES ASSUME TypeOK, ObstaclesInv, [Next]_vars PROVE ObstaclesInv'
  OBVIOUS
<1>1. CASE Repeat
  <2>1. /\ keys' = Append(keys, force) /\ force' = force
        /\ UNCHANGED <<changes, obstacles, obstacles_sent, input, prev_input, late, toDynamics, moved>>
    BY <1>1 DEF Repeat, SendInput, server, dynamics
  <2>2. /\ Len(keys) \in Nat /\ Len(keys') = Len(keys) + 1 /\ keys'[Len(keys) + 1] = force
        /\ \A i \in 1 .. Len(keys) : keys'[i] = keys[i]
    BY <2>1, Written, LenProperties DEF TypeOK
  <2>3. \A i \in 1 .. Len(keys) + 1 : i \in 1 .. Len(keys) \/ i = Len(keys) + 1
    BY <2>2
  <2>4. changes' = 0 => \A i \in 1 .. Len(keys') : keys'[i] = 0
    BY <2>1, <2>2, <2>3 DEF ObstaclesInv
  <2> QED
    BY <2>1, <2>4 DEF ObstaclesInv, ObstaclesInStep, Told
<1>2. ASSUME NEW f \in Forces, Change(f)
      PROVE  ObstaclesInv'
  <2>1. changes' # 0 /\ UNCHANGED <<obstacles, obstacles_sent>>
    BY <1>2 DEF Change, SendInput, TypeOK
  <2> QED
    BY <2>1 DEF ObstaclesInv, ObstaclesInStep
<1>3. CASE SendObstacles
  <2> DEFINE n == Len(obstacles)
  <2>1. /\ obstacles_sent' = obstacles_sent + 1 /\ obstacles' = Append(obstacles, obstacles_sent')
        /\ UNCHANGED <<force, changes, keys, input, prev_input, late, toDynamics, moved>>
    BY <1>3 DEF SendObstacles, server, dynamics
  <2>2. /\ n \in Nat /\ obstacles_sent \in Nat
        /\ Len(obstacles') = n + 1 /\ obstacles'[n + 1] = obstacles_sent + 1
        /\ \A i \in 1 .. n : obstacles'[i] = obstacles[i]
    <3>1. obstacles_sent \in Nat /\ obstacles_sent' \in Nat
      BY <2>1 DEF TypeOK
    <3> QED
      BY <2>1, <3>1, Written, LenProperties DEF TypeOK
  <2>3. \A i \in 1 .. n + 1 : i \in 1 .. n \/ i = n + 1
    BY <2>2
  <2>4. ASSUME NEW i \in 1 .. n + 1
        PROVE  obstacles'[i] = (obstacles_sent + 1) - (n + 1) + i
    <3>1. CASE i \in 1 .. n
      <4>1. obstacles'[i] = obstacles_sent - n + i
        BY <2>2, <3>1 DEF ObstaclesInv
      <4> QED
        BY <2>2, <4>1
    <3>2. CASE i = n + 1
      BY <2>2, <3>2
    <3> QED
      BY <2>3, <3>1, <3>2
  <2>5. obstacles_sent' - Len(obstacles') = obstacles_sent - n
    BY <2>1, <2>2
  <2>6. ObstaclesInStep'
    BY <2>1, <2>5 DEF ObstaclesInv, ObstaclesInStep, Told
  <2> QED
    BY <2>1, <2>2, <2>4, <2>6 DEF ObstaclesInv
<1>4. CASE SendTargets \/ Dynamics \/ Draw \/ UNCHANGED vars
  <2>1. UNCHANGED <<force, changes, keys, obstacles, obstacles_sent, input, prev_input, late>>
    BY <1>4 DEF SendTargets, Dynamics, Iterate, SendMoved, Draw, server, sources, vars
  <2>2. CASE SendTargets \/ Draw \/ UNCHANGED vars
    BY <2>1, <2>2 DEF SendTargets, Draw, dynamics, vars, ObstaclesInv, ObstaclesInStep, Told
  <2>3. CASE Dynamics
    <3>1. ~ServerFrame \/ Told' = Told
      BY <2>3 DEF Dynamics, Iterate, SendMoved, ServerFrame, dynamics
    <3> QED
      BY <2>1, <3>1, ToldStep DEF ObstaclesInv, ObstaclesInStep
  <2> QED
    BY <1>4, <2>2, <2>3
<1> QED
  BY <1>1, <1>2, <1>3, <1>4, FrameObstacles DEF Next

\* The dynamics has been told of the last list of obstacles the server has read, and of
\* no older one since, whatever came back in between (BlackBoardServer.c:209-213, 239-251).
THEOREM ObstaclesInStepHolds == Spec => []ObstaclesInStep
<1>1. Init => ObstaclesInv
  <2> SUFFICES ASSUME Init PROVE ObstaclesInv
    OBVIOUS
  <2>1. Len(keys) = 0 /\ Len(obstacles) = 0 /\ obstacles_sent = 0 /\ Told.obstacles = 0
    BY DEF Init, Told, Readable, Zero
  <2>2. ObstaclesInStep
    BY <2>1 DEF ObstaclesInStep
  <2> QED
    BY <2>1, <2>2 DEF Init, ObstaclesInv
<1> QED
  BY <1>1, ObstaclesInvStep, TypeCorrect, PTL DEF Spec, ObstaclesInv
=============================================================================
