----------------------------- MODULE Blackboard -----------------------------
(***************************************************************************)
(* The data plane of the game, within one generation of FIFOs: what the    *)
(* server's state holds and how it travels.  The server keeps the whole    *)
(* state of the game; the dynamics gets a copy when a new force or new     *)
(* obstacles are to be sent, moves the drone in its own copy and sends     *)
(* that back whole, and the server takes it over, all but the targets.     *)
(*                                                                         *)
(* A state is reduced to the commanded force and the versions of the lists *)
(* of obstacles and of targets (0: none yet); where the drone is, and how  *)
(* fast, is left out.  Processes start, restart, pause and end in the      *)
(* module GameLifecycle; here everybody is up and runs.                    *)
(***************************************************************************)
EXTENDS Integers, Sequences

CONSTANTS
  PipeCap,       \* states that fit in a FIFO
  SourceCap,     \* messages that fit in a FIFO of keyboard or generators
  Forces,        \* the forces the player can command; 0 is none
  MaxChanges,    \* bound: how often the player changes the force
  MaxObstacles   \* bound: how many lists of obstacles are sent

ASSUME BlackboardAssumption ==
  /\ PipeCap \in Nat \ {0} /\ SourceCap \in Nat \ {0}
  /\ Forces \subseteq Int /\ 0 \in Forces
  /\ MaxChanges \in Nat /\ MaxObstacles \in Nat

VARIABLES
  force,          \* input of KeyboardManager
  changes,        \* how often it has changed
  keys, targets, obstacles,              \* the FIFOs to the server
  toDynamics, fromDynamics, toWindow,    \* the FIFOs of states
  state,          \* the server's state
  input, prev_input, new_targets,        \* the server's other variables
  moved,          \* the state of the dynamics
  echo,           \* the dynamics still has to send its state
  shown,          \* the state the window last drew
  targets_sent, obstacles_sent,          \* how many lists have been sent
  late            \* history: the dynamics' FIFO was full when it was needed

server == <<state, input, prev_input, new_targets, late>>
dynamics == <<moved, echo>>
sources == <<force, changes, targets_sent, obstacles_sent>>
vars == <<force, changes, keys, targets, obstacles, toDynamics, fromDynamics, toWindow,
          state, input, prev_input, new_targets, moved, echo, shown,
          targets_sent, obstacles_sent, late>>

State == [force : Forces, obstacles : Nat, targets : Nat]
Zero == [force |-> 0, obstacles |-> 0, targets |-> 0]

Readable(fifo) == fifo # <<>>

Fits(fifo) == Len(fifo) < SourceCap

\* Mutant of Writable: a FIFO that is just full takes one message more.
WritableForOneMore(fifo) == Len(fifo) <= PipeCap

Writable(fifo) == Len(fifo) < PipeCap
Rest(fifo) == IF Readable(fifo) THEN Tail(fifo) ELSE fifo

(***************************************************************************)
(* The keyboard and the generators.  The keyboard sends its input twice a  *)
(* second whether or not a key was pressed; the targets come once in a     *)
(* generation of FIFOs, obstacles every ten seconds.                       *)
(***************************************************************************)
SendInput(f) ==
  /\ Fits(keys)
  /\ force' = f
  /\ keys' = Append(keys, f)
  /\ UNCHANGED <<targets, obstacles, toDynamics, fromDynamics, toWindow, server, dynamics,
                 shown, targets_sent, obstacles_sent>>

Repeat == SendInput(force) /\ UNCHANGED changes

Change(f) ==
  /\ f # force /\ changes < MaxChanges
  /\ changes' = changes + 1
  /\ SendInput(f)

SendTargets ==
  /\ targets_sent = 0 /\ Fits(targets)
  /\ targets_sent' = 1
  /\ targets' = Append(targets, 1)
  /\ UNCHANGED <<force, changes, keys, obstacles, toDynamics, fromDynamics, toWindow,
                 server, dynamics, shown, obstacles_sent>>

SendObstacles ==
  /\ obstacles_sent < MaxObstacles /\ Fits(obstacles)
  /\ obstacles_sent' = obstacles_sent + 1
  /\ obstacles' = Append(obstacles, obstacles_sent')
  /\ UNCHANGED <<force, changes, keys, targets, toDynamics, fromDynamics, toWindow,
                 server, dynamics, shown, targets_sent>>

(***************************************************************************)
(* A frame of the server.  What select() found readable or writable at its *)
(* beginning stays so, for nobody else reads or writes those ends; so the  *)
(* frame is one step.                                                      *)
(***************************************************************************)
Input == IF Readable(keys) THEN Head(keys) ELSE input
NewTargets == IF Readable(targets) THEN Head(targets) ELSE new_targets

\* The state once the keyboard and the generators have been read.  The same
\* input as the last one sent to the dynamics does not set the force.
Gathered ==
  [state EXCEPT
     !.force = IF Readable(keys) /\ Input # prev_input THEN Input ELSE @,
     !.targets = IF Readable(targets) THEN NewTargets ELSE @,
     !.obstacles = IF Readable(obstacles) THEN Head(obstacles) ELSE @]

\* A new force, or new obstacles, and room in the FIFO.
Wanted == prev_input # Input \/ Readable(obstacles)
Sends == Wanted /\ Writable(toDynamics)

\* Mutant of Adopted: the targets come back from the dynamics like the rest.
AdoptedWhole(s) == IF Readable(fromDynamics) THEN Head(fromDynamics) ELSE s

\* The state once the dynamics has been read: the dynamics may hold targets
\* from before they came, so they are set to the last value.
Adopted(s) ==
  IF Readable(fromDynamics) THEN [Head(fromDynamics) EXCEPT !.targets = NewTargets] ELSE s

\* Mutant of ServerFrame: the dynamics is read before it is written to.
ServerFrameReadsFirst ==
  /\ keys' = Rest(keys) /\ targets' = Rest(targets) /\ obstacles' = Rest(obstacles)
  /\ toWindow' = IF Writable(toWindow) THEN Append(toWindow, Gathered) ELSE toWindow
  /\ toDynamics' = IF Sends THEN Append(toDynamics, Adopted(Gathered)) ELSE toDynamics
  /\ fromDynamics' = Rest(fromDynamics)
  /\ state' = Adopted(Gathered)
  /\ input' = Input /\ new_targets' = NewTargets
  /\ prev_input' = IF Sends THEN Input ELSE prev_input
  /\ late' = (late \/ (Wanted /\ ~Sends))
  /\ UNCHANGED <<dynamics, shown, sources>>

ServerFrame ==
  /\ keys' = Rest(keys) /\ targets' = Rest(targets) /\ obstacles' = Rest(obstacles)
  /\ toWindow' = IF Writable(toWindow) THEN Append(toWindow, Gathered) ELSE toWindow
  /\ toDynamics' = IF Sends THEN Append(toDynamics, Gathered) ELSE toDynamics
  /\ fromDynamics' = Rest(fromDynamics)
  /\ state' = Adopted(Gathered)
  /\ input' = Input /\ new_targets' = NewTargets
  /\ prev_input' = IF Sends THEN Input ELSE prev_input
  /\ late' = (late \/ (Wanted /\ ~Sends))
  /\ UNCHANGED <<dynamics, shown, sources>>

(***************************************************************************)
(* The dynamics and the window.                                            *)
(***************************************************************************)
\* One time step, from the state that has come or else from the dynamics' own.
Iterate ==
  /\ ~echo
  /\ moved' = IF Readable(toDynamics) THEN Head(toDynamics) ELSE moved
  /\ toDynamics' = Rest(toDynamics)
  /\ echo' = TRUE
  /\ UNCHANGED <<keys, targets, obstacles, fromDynamics, toWindow, server, shown, sources>>

\* The write blocks while the FIFO is full.
SendMoved ==
  /\ echo /\ Writable(fromDynamics)
  /\ fromDynamics' = Append(fromDynamics, moved)
  /\ echo' = FALSE
  /\ UNCHANGED <<moved, keys, targets, obstacles, toDynamics, toWindow, server, shown, sources>>

Draw ==
  /\ Readable(toWindow)
  /\ shown' = Head(toWindow)
  /\ toWindow' = Tail(toWindow)
  /\ UNCHANGED <<keys, targets, obstacles, toDynamics, fromDynamics, server, dynamics, sources>>

(***************************************************************************)
(* The specification.                                                      *)
(***************************************************************************)
Init ==
  /\ force = 0 /\ changes = 0
  /\ keys = <<>> /\ targets = <<>> /\ obstacles = <<>>
  /\ toDynamics = <<>> /\ fromDynamics = <<>> /\ toWindow = <<>>
  /\ state = Zero /\ input = 0 /\ prev_input = 0 /\ new_targets = 0
  /\ moved = Zero /\ echo = FALSE
  /\ shown = Zero
  /\ targets_sent = 0 /\ obstacles_sent = 0 /\ late = FALSE

Dynamics == Iterate \/ SendMoved

Next ==
  \/ Repeat \/ \E f \in Forces : Change(f)
  \/ SendTargets \/ SendObstacles
  \/ ServerFrame \/ Dynamics \/ Draw

Spec == Init /\ [][Next]_vars

\* Everybody runs; the player need not change the force, and targets and
\* obstacles come from elsewhere and need not come: a generator that looked too
\* early never reads again (Targets_Generator.c:145-160).
FairSpec == /\ Spec
            /\ WF_vars(Repeat)
            /\ WF_vars(ServerFrame) /\ WF_vars(Dynamics) /\ WF_vars(Draw)

(***************************************************************************)
(* Properties.                                                             *)
(***************************************************************************)
TypeOK ==
  /\ force \in Forces /\ changes \in Nat
  /\ keys \in Seq(Forces) /\ targets \in Seq(Nat) /\ obstacles \in Seq(Nat)
  /\ toDynamics \in Seq(State) /\ fromDynamics \in Seq(State) /\ toWindow \in Seq(State)
  /\ state \in State /\ input \in Forces /\ prev_input \in Forces /\ new_targets \in Nat
  /\ moved \in State /\ echo \in BOOLEAN
  /\ shown \in State
  /\ targets_sent \in Nat /\ obstacles_sent \in Nat /\ late \in BOOLEAN
  /\ Len(keys) <= SourceCap /\ Len(targets) <= SourceCap /\ Len(obstacles) <= SourceCap
  /\ \A fifo \in {toDynamics, fromDynamics, toWindow} : Len(fifo) <= PipeCap

\* Once the window shows the targets it goes on showing them: states that come
\* back from a dynamics that has never heard of them do not take them away.
TargetsStay == [][shown.targets <= shown'.targets]_vars

\* The state the dynamics works with when it has read all that was written to it.
Told == IF Readable(toDynamics) THEN toDynamics[Len(toDynamics)] ELSE moved

\* The force the server compares new ones with is the one the dynamics has been told,
\* or else a force commanded would be taken for old and not be sent, although states
\* with older forces overwrite the server's: as long as no obstacles come and the
\* dynamics' FIFO has room (BlackBoardServer.c:174, 239-251).
ForceInStep == obstacles_sent = 0 /\ ~late => Told.force = prev_input

\* The dynamics has been told of every list of obstacles that was read, and of none
\* older since: as long as the force does not change and the dynamics' FIFO has room
\* (BlackBoardServer.c:209-213, 239-251).
ObstaclesInStep ==
  changes = 0 /\ ~late => Told.obstacles = obstacles_sent - Len(obstacles)

\* Targets that a generator has written to the server reach the window, whether
\* or not anything is sent to the dynamics, and although every state it sends
\* back has none.
TargetsShown == (targets_sent = 1) ~> (shown.targets = 1)

\* The force the player commands in the end is the one the dynamics works with,
\* although the states that come back in the meantime overwrite it in the
\* server: as long as no obstacles come and the dynamics' FIFO has room.
ForcesArrive ==
  \A f \in Forces :
    [](obstacles_sent = 0 /\ ~late) /\ <>[](force = f) => <>[](moved.force = f)

\* The last list of obstacles reaches the dynamics and the window, although
\* older ones come back in the meantime: as long as the force does not change
\* and the dynamics' FIFO has room.
ObstaclesArrive ==
  \A n \in 1 .. MaxObstacles :
    [](changes = 0 /\ ~late) /\ <>[](obstacles_sent = n) =>
      <>[](moved.obstacles = n /\ shown.obstacles = n)

\* BlackBoardServer.c:235 "write new forces to the drone dynamicss", also when
\* obstacles come at the same time.
NewForcesWritten ==
  \A f \in Forces : <>[](force = f) => <>[](moved.force = f)
=============================================================================
