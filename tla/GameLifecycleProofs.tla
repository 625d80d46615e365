------------------------ MODULE GameLifecycleProofs ------------------------
(***************************************************************************)
(* Proofs about GameLifecycle, for any generators, capacities and bounds.  *)
(*                                                                         *)
(* The argument.  A process that is past its blocking opens knows that its *)
(* peer has reached its generation, for the open returned only because the *)
(* peer had opened the FIFO of the same number; and it takes its next       *)
(* reset only from there.  So nobody gets two generations ahead.  The       *)
(* window opens without waiting: it knows as much only when it has read a  *)
(* message, or one waits for it, and those are the places from which it    *)
(* reaches its test of reset.                                              *)
(***************************************************************************)
EXTENDS GameLifecycle, TLAPS

Gone == {"exited", "killed", "terminated"}

\* A FIFO that is open is of the reader's generation, and one that is closed
\* holds nothing.
ReaderInv ==
  /\ rd["toDynamics"] \in {-1, fifo_id["dynamics"]}
  /\ rd["fromDynamics"] \in {-1, fifo_id["server"]}
  /\ rd["toWindow"] \in {-1, fifo_id["window"]}
  /\ \A g \in Generators : rd[g] \in {-1, fifo_id["server"]}
  /\ \A c \in Channels : rd[c] = -1 => buf[c] = 0

\* A player about to take a generation has none of its FIFOs open.
ClosedInv ==
  /\ pc["dynamics"] \in {"boot", "start"} => rd["toDynamics"] = -1
  /\ pc["window"] \in {"boot", "start"} => rd["toWindow"] = -1
  /\ pc["server"] \in {"boot", "openKeys", "clear", "start"} =>
       rd["fromDynamics"] = -1 /\ \A g \in Generators : rd[g] = -1

\* A writer that was woken is still at its open, and was woken by a reader
\* that had reached its generation; a generator may have ended there.
WokenInv ==
  /\ "toDynamics" \in woken => /\ pc["server"] = "openDynamics"
                               /\ fifo_id["server"] <= fifo_id["dynamics"]
  /\ "toWindow" \in woken => /\ pc["server"] = "openWindow"
                             /\ fifo_id["server"] <= fifo_id["window"]
  /\ "fromDynamics" \in woken => /\ pc["dynamics"] = "openWrite"
                                 /\ fifo_id["dynamics"] <= fifo_id["server"]
  /\ \A g \in woken \cap Generators : /\ pc[g] \in {"openWrite"} \cup Gone
                                      /\ fifo_id[g] <= fifo_id["server"]

\* Outside its opens a client has not overtaken the server ...
ClientInv ==
  /\ pc["dynamics"] \notin {"openRead", "openWrite"} \cup Gone =>
       fifo_id["dynamics"] <= fifo_id["server"]
  /\ \A g \in Generators :
       pc[g] \notin {"openWrite"} \cup Gone => fifo_id[g] <= fifo_id["server"]
  /\ pc["window"] \notin {"openRead", "read"} \cup Gone \/ buf["toWindow"] > 0 =>
       fifo_id["window"] <= fifo_id["server"]

\* ... and outside its own, the server has not overtaken the two it waits for.
ServerInv ==
  /\ pc["server"] \notin {"openDynamics"} \cup Gone =>
       fifo_id["server"] <= fifo_id["dynamics"]
  /\ pc["server"] \notin {"openDynamics", "openWindow"} \cup Gone =>
       fifo_id["server"] <= fifo_id["window"]

\* A message that select announced is still there when the server reads it.
ReadyInv ==
  pc["server"] \in {"send", "write", "drain"} /\ "fromDynamics" \in ready =>
    buf["fromDynamics"] > 0

\* The writer of a message that waits has reached the generation of its reader.
MessageInv ==
  /\ buf["toDynamics"] > 0 => fifo_id["dynamics"] <= fifo_id["server"]
  /\ buf["fromDynamics"] > 0 => fifo_id["server"] <= fifo_id["dynamics"]
  /\ \A g \in Generators : buf[g] > 0 => fifo_id["server"] <= fifo_id[g]

FlowInv == /\ ReaderInv /\ ClosedInv /\ WokenInv /\ ClientInv
           /\ ServerInv /\ ReadyInv /\ MessageInv /\ Lockstep

IInv == TypeOK /\ FlowInv

(***************************************************************************)
(* Type correctness.                                                       *)
(***************************************************************************)
LEMMA ChannelFacts ==
  /\ \A c \in Channels : Reader(c) \in Players
  /\ \A c \in Channels \ {"keys"} : Writer(c) \in Players
  /\ \A c \in Channels : Writer(c) \in Processes
  /\ \A c \in Channels : Capacity(c) \in Nat \ {0}
  /\ Generators \subseteq {"targets", "obstacles"}
BY GeneratorsAssumption, BoundsAssumption
   DEF Channels, Reader, Writer, Capacity, Players, Core, Processes, AllGenerators

LEMMA ChannelNames ==
  /\ "keys" \in Channels /\ "toDynamics" \in Channels
  /\ "fromDynamics" \in Channels /\ "toWindow" \in Channels
  /\ Reader("keys") = "server" /\ Reader("toDynamics") = "dynamics"
  /\ Reader("fromDynamics") = "server" /\ Reader("toWindow") = "window"
  /\ Writer("keys") = "keyboard" /\ Writer("toDynamics") = "server"
  /\ Writer("fromDynamics") = "dynamics" /\ Writer("toWindow") = "server"
  /\ OpenLabel("toDynamics") = "openDynamics" /\ OpenLabel("toWindow") = "openWindow"
  /\ OpenLabel("fromDynamics") = "openWrite"
  /\ "server" \in Players /\ "dynamics" \in Players /\ "window" \in Players
  /\ "server" \in Processes /\ "dynamics" \in Processes /\ "window" \in Processes
  /\ "keyboard" \in Processes /\ "keyboard" \notin Players
  /\ \A p \in Players : p \in Processes
BY GeneratorsAssumption
   DEF Channels, Reader, Writer, OpenLabel, Processes, Players, Core, AllGenerators

LEMMA GeneratorNames ==
  \A g \in Generators :
    /\ g \in Channels /\ g \in Players /\ g \in Processes
    /\ g \notin {"keys", "toDynamics", "fromDynamics", "toWindow"}
    /\ g \notin {"server", "dynamics", "window", "keyboard"}
    /\ Reader(g) = "server" /\ Writer(g) = g /\ OpenLabel(g) = "openWrite"
BY GeneratorsAssumption
   DEF Channels, Reader, Writer, OpenLabel, Processes, Players, AllGenerators

LEMMA TypeInit == Init => TypeOK
<1> SUFFICES ASSUME Init PROVE TypeOK
  OBVIOUS
<1>1. cmd \in AllKeys /\ todo \in Seq(Core \cup AllGenerators)
  BY DEF Init, AllKeys
<1> QED
  BY <1>1, ChannelFacts DEF Init, TypeOK, Processes, Labels, Signals

LEMMA EndType ==
  ASSUME TypeOK, NEW p \in Processes, NEW how \in {"exited", "killed", "terminated"}, End(p, how)
  PROVE  TypeOK'
<1>1. /\ pc' \in [Processes -> Labels]
      /\ rd' \in [Channels -> Int]
      /\ buf' \in [Channels -> Nat] /\ \A c \in Channels : buf'[c] <= Capacity(c)
  BY ChannelFacts DEF TypeOK, End, Goto, CloseReading, Labels
<1> QED
  BY <1>1 DEF TypeOK, End, CloseReading, flags, user

LEMMA TypeShared ==
  ASSUME TypeOK, NEW p \in Players,
         Boot(p) \/ Start(p) \/ Restart(p) \/ NoReset(p) \/ TestStop(p) \/ Exit(p)
  PROVE  TypeOK'
<1> p \in Processes
  BY DEF Processes
<1>0. CASE Boot(p)
  BY <1>0 DEF TypeOK, Boot, Goto, Labels, flags, fifos, user
<1>1. CASE Start(p)
  BY <1>1 DEF TypeOK, Start, Goto, FirstOpen, Labels, fifos, user
<1>2. CASE Restart(p)
  BY <1>2, ChannelFacts DEF TypeOK, Restart, Goto, CloseReading, Labels, flags, user
<1>3. CASE NoReset(p)
  BY <1>3 DEF TypeOK, NoReset, Goto, Labels, flags, fifos, user
<1>4. CASE TestStop(p)
  BY <1>4 DEF TypeOK, TestStop, Goto, LoopHead, Labels, flags, fifos, user
<1>5. CASE Exit(p)
  BY <1>5, EndType DEF Exit
<1> QED
  BY <1>0, <1>1, <1>2, <1>3, <1>4, <1>5

LEMMA TypeServer ==
  ASSUME TypeOK, ReadyInv, ServerNext
  PROVE  TypeOK'
<1> USE DEF Goto, Labels
<1>0. /\ "server" \in Players /\ "server" \in Processes
      /\ "keys" \in Channels /\ "toDynamics" \in Channels
      /\ "fromDynamics" \in Channels /\ "toWindow" \in Channels
      /\ Generators \subseteq Channels
  BY DEF Players, Core, Processes, Channels
<1>1. CASE ServerOpenKeys
  <2>1. rd' \in [Channels -> Int]
    BY <1>0, <1>1, ChannelFacts DEF TypeOK, ServerOpenKeys, OpenToRead, Suffix, flags, user
  <2>2. woken' \in SUBSET Channels
    BY <1>0, <1>1, ChannelFacts DEF TypeOK, ServerOpenKeys, OpenToRead, Suffix, flags, user
  <2> QED
    BY <1>0, <1>1, <2>1, <2>2
       DEF TypeOK, ServerOpenKeys, OpenToRead, Suffix, flags, user
<1>2. CASE ServerClear
  BY <1>0, <1>2 DEF TypeOK, ServerClear, fifos, user
<1>3. CASE ServerOpenDynamics
  <2>1. rd' \in [Channels -> Int]
    BY <1>0, <1>3, ChannelFacts DEF TypeOK, ServerOpenDynamics, Suffix, flags, user
  <2>2. woken' \in SUBSET Channels
    BY <1>0, <1>3, ChannelFacts DEF TypeOK, ServerOpenDynamics, Suffix, flags, user
  <2> QED
    BY <1>0, <1>3, <2>1, <2>2
       DEF TypeOK, ServerOpenDynamics, flags, user
<1>4. CASE ServerOpenWindow
  BY <1>0, <1>4, SMTT(30) DEF TypeOK, ServerOpenWindow, Suffix, flags, user
<1>5. CASE ServerFrame
  <2>1. buf' \in [Channels -> Nat]
    BY <1>5 DEF TypeOK, ServerFrame
  <2>2. \A c \in Channels : buf'[c] <= Capacity(c)
    BY <1>5, ChannelFacts DEF TypeOK, ServerFrame, HasRoom
  <2>3. ready' \in SUBSET Channels
    BY <1>0, <1>5 DEF ServerFrame
  <2> QED
    BY <1>0, <1>5, <2>1, <2>2, <2>3 DEF TypeOK, ServerFrame, flags, user
<1>6. CASE ServerSend
  BY <1>0, <1>6 DEF TypeOK, ServerSend, flags, fifos, user
<1>7. CASE ServerWrite
  <2>1. buf' \in [Channels -> Nat]
    BY <1>0, <1>7 DEF TypeOK, ServerWrite
  <2>2. \A c \in Channels : buf'[c] <= Capacity(c)
    BY <1>7, ChannelFacts DEF TypeOK, ServerWrite, HasRoom
  <2> QED
    BY <1>0, <1>7, <2>1, <2>2 DEF TypeOK, ServerWrite, flags, user
<1>8. CASE ServerDrain
  <2>1. buf' \in [Channels -> Nat]
    BY <1>0, <1>8 DEF TypeOK, ServerDrain, ReadyInv
  <2>2. \A c \in Channels : buf'[c] <= Capacity(c)
    BY <1>8, ChannelFacts DEF TypeOK, ServerDrain
  <2> QED
    BY <1>0, <1>8, <2>1, <2>2 DEF TypeOK, ServerDrain, flags, user
<1>9. CASE ServerFrameBreaks \/ ServerWriteBreaks
  BY <1>0, <1>9, EndType DEF ServerFrameBreaks, ServerWriteBreaks, BrokenPipe
<1> QED
  BY <1>0, <1>1, <1>2, <1>3, <1>4, <1>5, <1>6, <1>7, <1>8, <1>9, TypeShared
     DEF ServerNext

LEMMA TypeClients ==
  ASSUME TypeOK, DynamicsNext \/ WindowNext
  PROVE  TypeOK'
<1> USE DEF Goto, Labels
<1>0. /\ "dynamics" \in Players /\ "window" \in Players
      /\ "dynamics" \in Processes /\ "window" \in Processes
      /\ "toDynamics" \in Channels /\ "fromDynamics" \in Channels
      /\ "toWindow" \in Channels
  BY DEF Players, Core, Processes, Channels
<1>1. CASE DynamicsOpenRead
  <2>1. rd' \in [Channels -> Int]
    BY <1>0, <1>1, ChannelFacts DEF TypeOK, DynamicsOpenRead, OpenToRead, Suffix, flags, user
  <2>2. woken' \in SUBSET Channels
    BY <1>0, <1>1, ChannelFacts DEF TypeOK, DynamicsOpenRead, OpenToRead, Suffix, flags, user
  <2> QED
    BY <1>0, <1>1, <2>1, <2>2
       DEF TypeOK, DynamicsOpenRead, OpenToRead, Suffix, flags, user
<1>2. CASE DynamicsOpenWrite
  BY <1>0, <1>2 DEF TypeOK, DynamicsOpenWrite, OpenToWrite, flags, user
<1>3. CASE DynamicsIterate
  <2>1. buf' \in [Channels -> Nat] /\ \A c \in Channels : buf'[c] <= Capacity(c)
    BY <1>0, <1>3, ChannelFacts, SMTT(30) DEF TypeOK, DynamicsIterate, flags, user
  <2> QED
    BY <1>0, <1>3, <2>1
       DEF TypeOK, DynamicsIterate, flags, user
<1>4. CASE DynamicsWrite
  <2>1. buf' \in [Channels -> Nat] /\ \A c \in Channels : buf'[c] <= Capacity(c)
    BY <1>0, <1>4, ChannelFacts, SMTT(30) DEF TypeOK, DynamicsWrite, HasRoom, flags, user
  <2> QED
    BY <1>0, <1>4, <2>1
       DEF TypeOK, DynamicsWrite, HasRoom, flags, user
<1>5. CASE DynamicsWriteBreaks \/ WindowLeave
  BY <1>0, <1>5, EndType DEF DynamicsWriteBreaks, BrokenPipe, WindowLeave
<1>6. CASE WindowOpenRead
  <2>1. rd' \in [Channels -> Int]
    BY <1>0, <1>6, ChannelFacts DEF TypeOK, WindowOpenRead, OpenToRead, Suffix, flags, user
  <2>2. woken' \in SUBSET Channels
    BY <1>0, <1>6, ChannelFacts DEF TypeOK, WindowOpenRead, OpenToRead, Suffix, flags, user
  <2> QED
    BY <1>0, <1>6, <2>1, <2>2
       DEF TypeOK, WindowOpenRead, OpenToRead, Suffix, flags, user
<1>7. CASE WindowRead
  <2>1. buf' \in [Channels -> Nat] /\ \A c \in Channels : buf'[c] <= Capacity(c)
    BY <1>0, <1>7, ChannelFacts, SMTT(30) DEF TypeOK, WindowRead, flags, user
  <2> QED
    BY <1>0, <1>7, <2>1
       DEF TypeOK, WindowRead, flags, user
<1> QED
  BY <1>0, <1>1, <1>2, <1>3, <1>4, <1>5, <1>6, <1>7, TypeShared
     DEF DynamicsNext, WindowNext

LEMMA TypeGenerator ==
  ASSUME TypeOK, NEW g \in Generators, GeneratorOpenInput(g) \/ GeneratorNext(g)
  PROVE  TypeOK'
<1> USE DEF Goto, Labels
<1>0. g \in Players /\ g \in Processes /\ g \in Channels
  BY DEF Players, Processes, Channels
<1>1. CASE GeneratorOpenInput(g)
  BY <1>0, <1>1 DEF TypeOK, GeneratorOpenInput, flags, fifos, user
<1>2. CASE GeneratorOpen(g)
  BY <1>0, <1>2 DEF TypeOK, GeneratorOpen, OpenToWrite, flags, user
<1>3. CASE GeneratorSelect(g)
  BY <1>0, <1>3 DEF TypeOK, GeneratorSelect, flags, fifos, user
<1>4. CASE GeneratorWrite(g)
  BY <1>0, <1>4, ChannelFacts DEF TypeOK, GeneratorWrite, HasRoom, flags, user
<1>5. CASE GeneratorWriteBreaks(g)
  BY <1>0, <1>5, EndType DEF GeneratorWriteBreaks, BrokenPipe
<1>6. CASE g = "targets" /\ TargetsStop
  BY <1>0, <1>6 DEF TypeOK, TargetsStop, flags, fifos, user
<1>7. CASE g = "obstacles" /\ ObstaclesAgain
  BY <1>0, <1>7 DEF TypeOK, ObstaclesAgain, flags, fifos, user
<1> QED
  BY <1>0, <1>1, <1>2, <1>3, <1>4, <1>5, <1>6, <1>7, TypeShared DEF GeneratorNext

LEMMA KillsType ==
  ASSUME NEW k \in AllKeys
  PROVE  Kills(k) \in Seq(Core \cup AllGenerators)
<1> USE DEF Kills, Core, AllGenerators
<1>1. CASE k = "none"
  BY <1>1
<1>2. CASE k = "pause"
  BY <1>2
<1>3. CASE k = "reset"
  BY <1>3
<1>4. CASE k = "stop"
  BY <1>4
<1> QED
  BY <1>1, <1>2, <1>3, <1>4 DEF AllKeys

LEMMA TypeKeyboard ==
  ASSUME TypeOK, KeyboardNext \/ (\E k \in Keys : Press(k)) \/ InterruptKeyboard
  PROVE  TypeOK'
<1> USE DEF Goto, Labels
<1>0. "keyboard" \in Processes /\ "keys" \in Channels
  BY DEF Processes, Channels
<1>1. CASE KeyboardOpen
  BY <1>0, <1>1 DEF TypeOK, KeyboardOpen, OpenToWrite, flags, user
<1>7. CASE KeyboardLookUp
  <2>1. missed' \in SUBSET (Core \cup AllGenerators)
    BY <1>7, GeneratorsAssumption, BoundsAssumption DEF KeyboardLookUp, Players
  <2> QED
    BY <1>0, <1>7, <2>1 DEF TypeOK, KeyboardLookUp, flags, fifos
<1>2. ASSUME NEW k \in Keys, Press(k)
      PROVE  TypeOK'
  <2>1. k \in AllKeys /\ Kills(k) \in Seq(Core \cup AllGenerators)
    BY BoundsAssumption, KillsType
  <2> QED
    BY <1>0, <1>2, <2>1 DEF TypeOK, Press, flags, fifos
<1>3. CASE KeyboardKill
  <2>1. pending' \in [Players -> SUBSET Signals]
    <3>1. SignalOf(cmd) \in Signals
      BY DEF SignalOf, Signals
    <3> QED
      BY <1>3, <3>1 DEF TypeOK, KeyboardKill
  <2>2. todo' \in Seq(Core \cup AllGenerators)
    BY <1>3 DEF TypeOK, KeyboardKill
  <2> QED
    BY <1>3, <2>1, <2>2 DEF TypeOK, KeyboardKill, fifos
<1>4. CASE KeyboardKilled
  BY <1>0, <1>4 DEF TypeOK, KeyboardKilled, flags, fifos, user
<1>5. CASE KeyboardWrite
  BY <1>0, <1>5, ChannelFacts DEF TypeOK, KeyboardWrite, HasRoom, flags, user
<1>6. CASE KeyboardExit \/ KeyboardWriteBreaks \/ InterruptKeyboard
  BY <1>0, <1>6, EndType
     DEF KeyboardExit, KeyboardWriteBreaks, InterruptKeyboard, BrokenPipe
<1> QED
  BY <1>1, <1>2, <1>3, <1>4, <1>5, <1>6, <1>7 DEF KeyboardNext

LEMMA TypeSignals ==
  ASSUME TypeOK,
         \/ \E p \in Players, s \in Signals : Deliver(p, s)
         \/ \E p \in Players : Terminate(p)
         \/ \E p \in Interruptible : Interrupt(p)
  PROVE  TypeOK'
<1>1. ASSUME NEW p \in Players, NEW s \in Signals, Deliver(p, s)
      PROVE  TypeOK'
  BY <1>1 DEF TypeOK, Deliver, fifos, user
<1>2. ASSUME NEW p, Interrupt(p)
      PROVE  TypeOK'
  BY <1>2 DEF TypeOK, Interrupt, Signals, fifos, user
<1>3. ASSUME NEW p \in Players, Terminate(p)
      PROVE  TypeOK'
  BY <1>3, EndType DEF Terminate, Processes
<1> QED
  BY <1>1, <1>2, <1>3

LEMMA TypeStep ==
  ASSUME TypeOK, ReadyInv, [Next]_vars
  PROVE  TypeOK'
<1>1. CASE UNCHANGED vars
  BY <1>1 DEF TypeOK, vars, flags, fifos, user
<1> QED
  BY <1>1, TypeServer, TypeClients, TypeGenerator, TypeKeyboard, TypeSignals DEF Next

(***************************************************************************)
(* The inductive invariant.                                                *)
(***************************************************************************)
LEMMA InvInit == Init => IInv
<1> SUFFICES ASSUME Init PROVE IInv
  OBVIOUS
<1>1. TypeOK
  BY TypeInit
<1>2. ReaderInv /\ ClosedInv
  BY ChannelNames, GeneratorNames DEF Init, ReaderInv, ClosedInv
<1>3. ClientInv /\ ServerInv /\ Lockstep
  BY DEF Init, ClientInv, ServerInv, Lockstep, Players, Core
<1>4. WokenInv /\ ReadyInv /\ MessageInv
  BY ChannelNames, GeneratorNames DEF Init, WokenInv, ReadyInv, MessageInv
<1> QED
  BY <1>1, <1>2, <1>3, <1>4 DEF IInv, FlowInv

LEMMA FlowStart ==
  ASSUME IInv, NEW p \in Players, Start(p)
  PROVE  FlowInv'
<1> USE ChannelNames, GeneratorNames
<1> USE DEF IInv, FlowInv, TypeOK, Goto, Start, fifos, FirstOpen, Gone
<1>1. ReaderInv'
  BY DEF ReaderInv, ClosedInv, Suffix
<1>2. ClosedInv'
  BY DEF ClosedInv
<1>3. WokenInv'
  BY SMTT(30) DEF WokenInv
<1>4. ClientInv'
  BY SMTT(30) DEF ClientInv, ServerInv, ReaderInv, ClosedInv
<1>5. ServerInv'
  BY SMTT(30) DEF ServerInv
<1>6. ReadyInv'
  BY DEF ReadyInv
<1>7. Lockstep'
  <2>1. p # "server" => fifo_id[p] <= fifo_id["server"]
    BY DEF ClientInv, Players, Core
  <2>2. p = "server" => /\ fifo_id["server"] <= fifo_id["dynamics"]
                        /\ fifo_id["server"] <= fifo_id["window"]
    BY DEF ServerInv
  <2>3. CASE p = "server"
    BY <2>2, <2>3, SMTT(30) DEF Lockstep
  <2>4. CASE p # "server"
    <3>1. \A q \in Players : fifo_id'[q] =
            IF q = p /\ reset[p] THEN fifo_id[q] + 1 ELSE fifo_id[q]
      OBVIOUS
    <3>2. fifo_id'["server"] = fifo_id["server"]
      BY <2>4, <3>1
    <3>3. \A q \in Players : fifo_id[q] \in Nat
      OBVIOUS
    <3>4. \A q \in Players : fifo_id'[q] <= fifo_id'["server"] + 1
      <4> HIDE DEF Start, Goto, IInv, FlowInv, TypeOK
      <4> QED
        BY <2>1, <2>4, <3>1, <3>2, <3>3 DEF IInv, FlowInv, Lockstep
    <3>5. /\ fifo_id'["server"] <= fifo_id'["dynamics"] + 1
          /\ fifo_id'["server"] <= fifo_id'["window"] + 1
      BY <3>1, <3>2, <3>3, SMTT(30) DEF Lockstep
    <3> QED
      BY <3>4, <3>5 DEF Lockstep
  <2> QED
    BY <2>3, <2>4
<1>8. MessageInv'
  BY SMTT(30) DEF MessageInv, ReaderInv, ClosedInv
<1> QED
  BY <1>1, <1>2, <1>3, <1>4, <1>5, <1>6, <1>7, <1>8
  DEF FlowInv

LEMMA FlowRestart ==
  ASSUME IInv, NEW p \in Players, Restart(p)
  PROVE  FlowInv'
<1> USE ChannelNames, GeneratorNames
<1> USE DEF IInv, FlowInv, TypeOK, Goto, Restart, flags, CloseReading, ReadBy, Gone
<1>1. ReaderInv'
  BY DEF ReaderInv, ClosedInv, Suffix
<1>2. ClosedInv'
  BY DEF ClosedInv
<1>3. WokenInv'
  BY DEF WokenInv
<1>4. ClientInv'
  BY SMTT(30) DEF ClientInv, ServerInv, ReaderInv, ClosedInv
<1>5. ServerInv'
  BY DEF ServerInv
<1>6. ReadyInv'
  BY DEF ReadyInv
<1>7. Lockstep'
  BY DEF Lockstep
<1>8. MessageInv'
  BY SMTT(30) DEF MessageInv, ReaderInv, ClosedInv
<1> QED
  BY <1>1, <1>2, <1>3, <1>4, <1>5, <1>6, <1>7, <1>8
  DEF FlowInv

LEMMA FlowBoot ==
  ASSUME IInv, NEW p \in Players, Boot(p)
  PROVE  FlowInv'
<1> USE ChannelNames, GeneratorNames
<1> USE DEF IInv, FlowInv, TypeOK, Goto, Boot, flags, fifos, Gone
<1>1. ReaderInv'
  BY DEF ReaderInv
<1>2. ClosedInv'
  BY DEF ClosedInv
<1>3. WokenInv'
  BY DEF WokenInv
<1>4. ClientInv'
  BY DEF ClientInv
<1>5. ServerInv'
  BY DEF ServerInv
<1>6. ReadyInv'
  BY DEF ReadyInv
<1>7. Lockstep'
  BY DEF Lockstep
<1>8. MessageInv'
  BY DEF MessageInv
<1> QED
  BY <1>1, <1>2, <1>3, <1>4, <1>5, <1>6, <1>7, <1>8
  DEF FlowInv

LEMMA FlowTests ==
  ASSUME IInv, NEW p \in Players, NoReset(p) \/ TestStop(p)
  PROVE  FlowInv'
<1> USE ChannelNames, GeneratorNames
<1> USE DEF IInv, FlowInv, TypeOK, Goto, NoReset, TestStop, flags, fifos, LoopHead, Gone
<1>1. ReaderInv'
  BY SMTT(30) DEF ReaderInv, ClosedInv, Suffix
<1>2. ClosedInv'
  <2>1. \A q \in Players :
          pc'[q] \in {"boot", "start", "openKeys", "clear"} => pc'[q] = pc[q]
    OBVIOUS
  <2>2. UNCHANGED rd
    OBVIOUS
  <2> HIDE DEF NoReset, TestStop, Goto, LoopHead, TypeOK
  <2> QED
    BY <2>1, <2>2 DEF ClosedInv
<1>3. WokenInv'
  <2>1. \A q \in Players : pc'[q] = pc[q] \/ pc[q] \in {"testReset", "testStop"}
    OBVIOUS
  <2>2. fifo_id' = fifo_id /\ woken' = woken
    OBVIOUS
  <2> HIDE DEF NoReset, TestStop, Goto, LoopHead, TypeOK
  <2> QED
    BY <2>1, <2>2 DEF WokenInv
<1>4. ClientInv'
  <2>1. \A q \in Players : pc'[q] = pc[q] \/ pc[q] \in {"testReset", "testStop"}
    OBVIOUS
  <2>2. fifo_id' = fifo_id /\ buf' = buf
    OBVIOUS
  <2> HIDE DEF NoReset, TestStop, Goto, LoopHead, TypeOK
  <2> QED
    BY <2>1, <2>2 DEF ClientInv
<1>5. ServerInv'
  BY DEF ServerInv
<1>6. ReadyInv'
  <2>1. pc'["server"] \in {"send", "write", "drain"} => pc'["server"] = pc["server"]
    OBVIOUS
  <2> QED
    BY <2>1 DEF ReadyInv
<1>7. Lockstep'
  BY DEF Lockstep
<1>8. MessageInv'
  BY DEF MessageInv, ReaderInv, ClosedInv
<1> QED
  BY <1>1, <1>2, <1>3, <1>4, <1>5, <1>6, <1>7, <1>8
  DEF FlowInv

LEMMA FlowEnd ==
  ASSUME IInv, NEW p \in Processes, NEW how \in Gone, End(p, how),
         p \in Core => pc[p] \notin {"openDynamics", "openWindow", "openWrite"}
  PROVE  FlowInv'
<1> USE ChannelNames, GeneratorNames
<1> USE DEF IInv, FlowInv, TypeOK, Goto, End, CloseReading, ReadBy, flags, Gone
<1>1. ReaderInv'
  BY DEF ReaderInv, ClosedInv, Suffix
<1>2. ClosedInv'
  BY DEF ClosedInv
<1>3. WokenInv'
  BY DEF WokenInv, Core
<1>4. ClientInv'
  BY DEF ClientInv, ServerInv, ReaderInv, ClosedInv
<1>5. ServerInv'
  BY DEF ServerInv
<1>6. ReadyInv'
  BY DEF ReadyInv
<1>7. Lockstep'
  BY DEF Lockstep
<1>8. MessageInv'
  BY DEF MessageInv, ReaderInv, ClosedInv
<1> QED
  BY <1>1, <1>2, <1>3, <1>4, <1>5, <1>6, <1>7, <1>8
  DEF FlowInv

LEMMA FlowElsewhere ==
  ASSUME IInv, UNCHANGED <<fifo_id, fifos, ready>>,
         \A p \in Players : pc'[p] = pc[p]
  PROVE  FlowInv'
<1> USE ChannelNames, GeneratorNames
<1> USE DEF IInv, FlowInv, TypeOK, fifos, Gone
<1>1. ReaderInv'
  BY DEF ReaderInv, ClosedInv, Suffix
<1>2. ClosedInv'
  BY DEF ClosedInv
<1>3. WokenInv'
  BY SMTT(30) DEF WokenInv
<1>4. ClientInv'
  BY DEF ClientInv, ServerInv, ReaderInv, ClosedInv
<1>5. ServerInv'
  BY DEF ServerInv
<1>6. ReadyInv'
  BY DEF ReadyInv
<1>7. Lockstep'
  BY DEF Lockstep
<1>8. MessageInv'
  BY DEF MessageInv, ReaderInv, ClosedInv
<1> QED
  BY <1>1, <1>2, <1>3, <1>4, <1>5, <1>6, <1>7, <1>8
  DEF FlowInv

LEMMA FlowServerOpens ==
  ASSUME IInv, \/ ServerOpenKeys \/ ServerClear
         \/ ServerOpenDynamics \/ ServerOpenWindow
  PROVE  FlowInv'
<1> USE ChannelNames, GeneratorNames
<1> USE DEF IInv, FlowInv, TypeOK, Goto, fifos, flags, Gone, OpenToRead, HasReader, Suffix, Waiting
<1>1. ReaderInv'
  <2>1. CASE ServerOpenKeys
    BY <2>1, SMTT(30) DEF ServerOpenKeys, ReaderInv, ClosedInv, Suffix
  <2>2. CASE ServerClear
    BY <2>2 DEF ServerClear, ReaderInv, ClosedInv, Suffix
  <2>3. CASE ServerOpenDynamics
    BY <2>3, SMTT(30) DEF ServerOpenDynamics, ReaderInv, ClosedInv, Suffix
  <2>4. CASE ServerOpenWindow
    BY <2>4 DEF ServerOpenWindow, ReaderInv, ClosedInv, Suffix
  <2> QED
    BY <2>1, <2>2, <2>3, <2>4
<1>2. ClosedInv'
  <2>1. CASE ServerOpenKeys
    BY <2>1 DEF ServerOpenKeys, ClosedInv
  <2>2. CASE ServerClear
    BY <2>2 DEF ServerClear, ClosedInv
  <2>3. CASE ServerOpenDynamics
    BY <2>3 DEF ServerOpenDynamics, ClosedInv
  <2>4. CASE ServerOpenWindow
    BY <2>4 DEF ServerOpenWindow, ClosedInv
  <2> QED
    BY <2>1, <2>2, <2>3, <2>4
<1>3. WokenInv'
  <2>1. CASE ServerOpenKeys
    BY <2>1 DEF ServerOpenKeys, WokenInv
  <2>2. CASE ServerClear
    BY <2>2 DEF ServerClear, WokenInv
  <2>3. CASE ServerOpenDynamics
    <3>1. "fromDynamics" \in woken' => \/ "fromDynamics" \in woken
                                     \/ Waiting("fromDynamics")
      BY <2>3 DEF ServerOpenDynamics
    <3>2. Waiting("fromDynamics") => /\ pc["dynamics"] = "openWrite"
                                     /\ fifo_id["dynamics"] = fifo_id["server"]
      BY DEF Waiting, Suffix
    <3>3. woken' \subseteq woken \cup {"fromDynamics"} /\ "toDynamics" \notin woken'
      BY <2>3 DEF ServerOpenDynamics
    <3> QED
      BY <2>3, <3>1, <3>2, <3>3 DEF ServerOpenDynamics, WokenInv
  <2>4. CASE ServerOpenWindow
    BY <2>4, SMTT(30) DEF ServerOpenWindow, WokenInv
  <2> QED
    BY <2>1, <2>2, <2>3, <2>4
<1>4. ClientInv'
  <2>1. CASE ServerOpenKeys
    BY <2>1 DEF ServerOpenKeys, ClientInv, ServerInv, ReaderInv, ClosedInv
  <2>2. CASE ServerClear
    BY <2>2 DEF ServerClear, ClientInv, ServerInv, ReaderInv, ClosedInv
  <2>3. CASE ServerOpenDynamics
    BY <2>3 DEF ServerOpenDynamics, ClientInv, ServerInv, ReaderInv, ClosedInv
  <2>4. CASE ServerOpenWindow
    BY <2>4 DEF ServerOpenWindow, ClientInv, ServerInv, ReaderInv, ClosedInv
  <2> QED
    BY <2>1, <2>2, <2>3, <2>4
<1>5. ServerInv'
  <2>1. CASE ServerOpenKeys
    BY <2>1 DEF ServerOpenKeys, ServerInv, ReaderInv, WokenInv
  <2>2. CASE ServerClear
    BY <2>2 DEF ServerClear, ServerInv, ReaderInv, WokenInv
  <2>3. CASE ServerOpenDynamics
    BY <2>3 DEF ServerOpenDynamics, ServerInv, ReaderInv, WokenInv
  <2>4. CASE ServerOpenWindow
    BY <2>4 DEF ServerOpenWindow, ServerInv, ReaderInv, WokenInv
  <2> QED
    BY <2>1, <2>2, <2>3, <2>4
<1>6. ReadyInv'
  <2>1. CASE ServerOpenKeys
    BY <2>1 DEF ServerOpenKeys, ReadyInv
  <2>2. CASE ServerClear
    BY <2>2 DEF ServerClear, ReadyInv
  <2>3. CASE ServerOpenDynamics
    BY <2>3 DEF ServerOpenDynamics, ReadyInv
  <2>4. CASE ServerOpenWindow
    BY <2>4 DEF ServerOpenWindow, ReadyInv
  <2> QED
    BY <2>1, <2>2, <2>3, <2>4
<1>7. Lockstep'
  <2>1. CASE ServerOpenKeys
    BY <2>1 DEF ServerOpenKeys, Lockstep
  <2>2. CASE ServerClear
    BY <2>2 DEF ServerClear, Lockstep
  <2>3. CASE ServerOpenDynamics
    BY <2>3 DEF ServerOpenDynamics, Lockstep
  <2>4. CASE ServerOpenWindow
    BY <2>4 DEF ServerOpenWindow, Lockstep
  <2> QED
    BY <2>1, <2>2, <2>3, <2>4
<1>8. MessageInv'
  <2>1. CASE ServerOpenKeys
    BY <2>1 DEF ServerOpenKeys, MessageInv, ReaderInv, ClosedInv
  <2>2. CASE ServerClear
    BY <2>2 DEF ServerClear, MessageInv, ReaderInv, ClosedInv
  <2>3. CASE ServerOpenDynamics
    BY <2>3 DEF ServerOpenDynamics, MessageInv, ReaderInv, ClosedInv
  <2>4. CASE ServerOpenWindow
    BY <2>4 DEF ServerOpenWindow, MessageInv, ReaderInv, ClosedInv
  <2> QED
    BY <2>1, <2>2, <2>3, <2>4
<1> QED
  BY <1>1, <1>2, <1>3, <1>4, <1>5, <1>6, <1>7, <1>8
  DEF FlowInv

LEMMA FlowServerLoop ==
  ASSUME IInv, ServerFrame \/ ServerSend \/ ServerWrite \/ ServerDrain
  PROVE  FlowInv'
<1> USE ChannelNames, GeneratorNames
<1> USE DEF IInv, FlowInv, TypeOK, Goto, fifos, flags, Gone, HasReader, Suffix
<1>1. ReaderInv'
  <2>1. CASE ServerFrame
    BY <2>1, SMTT(30) DEF ServerFrame, ReaderInv, ClosedInv, Suffix
  <2>2. CASE ServerSend
    BY <2>2 DEF ServerSend, ReaderInv, ClosedInv, Suffix
  <2>3. CASE ServerWrite
    BY <2>3 DEF ServerWrite, ReaderInv, ClosedInv, Suffix
  <2>4. CASE ServerDrain
    <3>1. "fromDynamics" \in ready => buf["fromDynamics"] > 0
      BY <2>4 DEF ServerDrain, ReadyInv
    <3> QED
      BY <2>4, <3>1 DEF ServerDrain, ReaderInv
  <2> QED
    BY <2>1, <2>2, <2>3, <2>4
<1>2. ClosedInv'
  <2>1. CASE ServerFrame
    BY <2>1 DEF ServerFrame, ClosedInv
  <2>2. CASE ServerSend
    BY <2>2, SMTT(30) DEF ServerSend, ClosedInv
  <2>3. CASE ServerWrite
    BY <2>3 DEF ServerWrite, ClosedInv
  <2>4. CASE ServerDrain
    BY <2>4 DEF ServerDrain, ClosedInv
  <2> QED
    BY <2>1, <2>2, <2>3, <2>4
<1>3. WokenInv'
  <2>1. CASE ServerFrame
    BY <2>1 DEF ServerFrame, WokenInv
  <2>2. CASE ServerSend
    BY <2>2, SMTT(30) DEF ServerSend, WokenInv
  <2>3. CASE ServerWrite
    BY <2>3 DEF ServerWrite, WokenInv
  <2>4. CASE ServerDrain
    BY <2>4 DEF ServerDrain, WokenInv
  <2> QED
    BY <2>1, <2>2, <2>3, <2>4
<1>4. ClientInv'
  <2>1. CASE ServerFrame
    BY <2>1 DEF ServerFrame, ClientInv, ServerInv, ReaderInv, ClosedInv
  <2>2. CASE ServerSend
    BY <2>2 DEF ServerSend, ClientInv, ServerInv, ReaderInv, ClosedInv
  <2>3. CASE ServerWrite
    BY <2>3 DEF ServerWrite, ClientInv, ServerInv, ReaderInv, ClosedInv
  <2>4. CASE ServerDrain
    BY <2>4 DEF ServerDrain, ClientInv, ServerInv, ReaderInv, ClosedInv
  <2> QED
    BY <2>1, <2>2, <2>3, <2>4
<1>5. ServerInv'
  <2>1. CASE ServerFrame
    BY <2>1 DEF ServerFrame, ServerInv
  <2>2. CASE ServerSend
    BY <2>2 DEF ServerSend, ServerInv
  <2>3. CASE ServerWrite
    BY <2>3 DEF ServerWrite, ServerInv
  <2>4. CASE ServerDrain
    BY <2>4 DEF ServerDrain, ServerInv
  <2> QED
    BY <2>1, <2>2, <2>3, <2>4
<1>6. ReadyInv'
  <2>1. CASE ServerFrame
    BY <2>1 DEF ServerFrame, ReadyInv
  <2>2. CASE ServerSend
    BY <2>2 DEF ServerSend, ReadyInv
  <2>3. CASE ServerWrite
    BY <2>3 DEF ServerWrite, ReadyInv
  <2>4. CASE ServerDrain
    BY <2>4 DEF ServerDrain, ReadyInv
  <2> QED
    BY <2>1, <2>2, <2>3, <2>4
<1>7. Lockstep'
  <2>1. CASE ServerFrame
    BY <2>1 DEF ServerFrame, Lockstep
  <2>2. CASE ServerSend
    BY <2>2 DEF ServerSend, Lockstep
  <2>3. CASE ServerWrite
    BY <2>3 DEF ServerWrite, Lockstep
  <2>4. CASE ServerDrain
    BY <2>4 DEF ServerDrain, Lockstep
  <2> QED
    BY <2>1, <2>2, <2>3, <2>4
<1>8. MessageInv'
  <2>1. CASE ServerFrame
    BY <2>1 DEF ServerFrame, MessageInv, ReaderInv, ClosedInv
  <2>2. CASE ServerSend
    BY <2>2 DEF ServerSend, MessageInv, ReaderInv, ClosedInv
  <2>3. CASE ServerWrite
    BY <2>3 DEF ServerWrite, MessageInv, ReaderInv, ClosedInv
  <2>4. CASE ServerDrain
    BY <2>4, SMTT(30) DEF ServerDrain, MessageInv, ReaderInv, ClosedInv
  <2> QED
    BY <2>1, <2>2, <2>3, <2>4
<1> QED
  BY <1>1, <1>2, <1>3, <1>4, <1>5, <1>6, <1>7, <1>8
  DEF FlowInv

LEMMA FlowDynamics ==
  ASSUME IInv, \/ DynamicsOpenRead \/ DynamicsOpenWrite
         \/ DynamicsIterate \/ DynamicsWrite
  PROVE  FlowInv'
<1> USE ChannelNames, GeneratorNames
<1> USE DEF IInv, FlowInv, TypeOK, Goto, fifos, flags, Gone, OpenToRead, OpenToWrite, HasReader, Suffix, Waiting
<1>1. ReaderInv'
  <2>1. CASE DynamicsOpenRead
    BY <2>1 DEF DynamicsOpenRead, ReaderInv, ClosedInv, Suffix
  <2>2. CASE DynamicsOpenWrite
    BY <2>2 DEF DynamicsOpenWrite, ReaderInv, ClosedInv, Suffix
  <2>3. CASE DynamicsIterate
    BY <2>3 DEF DynamicsIterate, ReaderInv, ClosedInv, Suffix
  <2>4. CASE DynamicsWrite
    BY <2>4 DEF DynamicsWrite, ReaderInv, ClosedInv, Suffix
  <2> QED
    BY <2>1, <2>2, <2>3, <2>4
<1>2. ClosedInv'
  <2>1. CASE DynamicsOpenRead
    BY <2>1 DEF DynamicsOpenRead, ClosedInv
  <2>2. CASE DynamicsOpenWrite
    BY <2>2 DEF DynamicsOpenWrite, ClosedInv
  <2>3. CASE DynamicsIterate
    BY <2>3 DEF DynamicsIterate, ClosedInv
  <2>4. CASE DynamicsWrite
    BY <2>4 DEF DynamicsWrite, ClosedInv
  <2> QED
    BY <2>1, <2>2, <2>3, <2>4
<1>3. WokenInv'
  <2>1. CASE DynamicsOpenRead
    <3>1. Waiting("toDynamics") => /\ pc["server"] = "openDynamics"
                                   /\ fifo_id["dynamics"] = fifo_id["server"]
      BY DEF Waiting, Suffix
    <3>2. woken' \subseteq woken \cup {"toDynamics"}
      BY <2>1 DEF DynamicsOpenRead
    <3>3. "toDynamics" \in woken' => "toDynamics" \in woken \/ Waiting("toDynamics")
      BY <2>1 DEF DynamicsOpenRead
    <3> QED
      BY <2>1, <3>1, <3>2, <3>3, SMTT(30) DEF DynamicsOpenRead, WokenInv
  <2>2. CASE DynamicsOpenWrite
    BY <2>2 DEF DynamicsOpenWrite, WokenInv
  <2>3. CASE DynamicsIterate
    BY <2>3 DEF DynamicsIterate, WokenInv
  <2>4. CASE DynamicsWrite
    BY <2>4 DEF DynamicsWrite, WokenInv
  <2> QED
    BY <2>1, <2>2, <2>3, <2>4
<1>4. ClientInv'
  <2>1. CASE DynamicsOpenRead
    BY <2>1 DEF DynamicsOpenRead, ClientInv, ReaderInv, WokenInv
  <2>2. CASE DynamicsOpenWrite
    BY <2>2 DEF DynamicsOpenWrite, ClientInv, ReaderInv, WokenInv
  <2>3. CASE DynamicsIterate
    BY <2>3 DEF DynamicsIterate, ClientInv, ReaderInv, WokenInv
  <2>4. CASE DynamicsWrite
    BY <2>4 DEF DynamicsWrite, ClientInv, ReaderInv, WokenInv
  <2> QED
    BY <2>1, <2>2, <2>3, <2>4
<1>5. ServerInv'
  <2>1. CASE DynamicsOpenRead
    BY <2>1 DEF DynamicsOpenRead, ServerInv
  <2>2. CASE DynamicsOpenWrite
    BY <2>2 DEF DynamicsOpenWrite, ServerInv
  <2>3. CASE DynamicsIterate
    BY <2>3 DEF DynamicsIterate, ServerInv
  <2>4. CASE DynamicsWrite
    BY <2>4 DEF DynamicsWrite, ServerInv
  <2> QED
    BY <2>1, <2>2, <2>3, <2>4
<1>6. ReadyInv'
  <2>1. CASE DynamicsOpenRead
    BY <2>1 DEF DynamicsOpenRead, ReadyInv
  <2>2. CASE DynamicsOpenWrite
    BY <2>2 DEF DynamicsOpenWrite, ReadyInv
  <2>3. CASE DynamicsIterate
    BY <2>3 DEF DynamicsIterate, ReadyInv
  <2>4. CASE DynamicsWrite
    BY <2>4 DEF DynamicsWrite, ReadyInv
  <2> QED
    BY <2>1, <2>2, <2>3, <2>4
<1>7. Lockstep'
  <2>1. CASE DynamicsOpenRead
    BY <2>1 DEF DynamicsOpenRead, Lockstep
  <2>2. CASE DynamicsOpenWrite
    BY <2>2 DEF DynamicsOpenWrite, Lockstep
  <2>3. CASE DynamicsIterate
    BY <2>3 DEF DynamicsIterate, Lockstep
  <2>4. CASE DynamicsWrite
    BY <2>4 DEF DynamicsWrite, Lockstep
  <2> QED
    BY <2>1, <2>2, <2>3, <2>4
<1>8. MessageInv'
  <2>1. CASE DynamicsOpenRead
    BY <2>1 DEF DynamicsOpenRead, MessageInv, ReaderInv, ClosedInv
  <2>2. CASE DynamicsOpenWrite
    BY <2>2 DEF DynamicsOpenWrite, MessageInv, ReaderInv, ClosedInv
  <2>3. CASE DynamicsIterate
    BY <2>3 DEF DynamicsIterate, MessageInv, ReaderInv, ClosedInv
  <2>4. CASE DynamicsWrite
    BY <2>4 DEF DynamicsWrite, MessageInv, ReaderInv, ClosedInv
  <2> QED
    BY <2>1, <2>2, <2>3, <2>4
<1> QED
  BY <1>1, <1>2, <1>3, <1>4, <1>5, <1>6, <1>7, <1>8
  DEF FlowInv

LEMMA FlowWindow ==
  ASSUME IInv, WindowOpenRead \/ WindowRead
  PROVE  FlowInv'
<1> USE ChannelNames, GeneratorNames
<1> USE DEF IInv, FlowInv, TypeOK, Goto, fifos, flags, Gone, OpenToRead, Suffix, Waiting
<1>1. ReaderInv'
  <2>1. CASE WindowOpenRead
    BY <2>1 DEF WindowOpenRead, ReaderInv, ClosedInv, Suffix
  <2>2. CASE WindowRead
    BY <2>2 DEF WindowRead, ReaderInv, ClosedInv, Suffix
  <2> QED
    BY <2>1, <2>2
<1>2. ClosedInv'
  <2>1. CASE WindowOpenRead
    BY <2>1 DEF WindowOpenRead, ClosedInv
  <2>2. CASE WindowRead
    BY <2>2 DEF WindowRead, ClosedInv
  <2> QED
    BY <2>1, <2>2
<1>3. WokenInv'
  <2>1. CASE WindowOpenRead
    <3>1. Waiting("toWindow") => /\ pc["server"] = "openWindow"
                                 /\ fifo_id["window"] = fifo_id["server"]
      BY DEF Waiting, Suffix
    <3>2. woken' \subseteq woken \cup {"toWindow"}
      BY <2>1 DEF WindowOpenRead
    <3>3. "toWindow" \in woken' => "toWindow" \in woken \/ Waiting("toWindow")
      BY <2>1 DEF WindowOpenRead
    <3> QED
      BY <2>1, <3>1, <3>2, <3>3, SMTT(30) DEF WindowOpenRead, WokenInv
  <2>2. CASE WindowRead
    BY <2>2 DEF WindowRead, WokenInv
  <2> QED
    BY <2>1, <2>2
<1>4. ClientInv'
  <2>1. CASE WindowOpenRead
    BY <2>1 DEF WindowOpenRead, ClientInv, ServerInv, ReaderInv, ClosedInv
  <2>2. CASE WindowRead
    BY <2>2 DEF WindowRead, ClientInv, ServerInv, ReaderInv, ClosedInv
  <2> QED
    BY <2>1, <2>2
<1>5. ServerInv'
  <2>1. CASE WindowOpenRead
    BY <2>1 DEF WindowOpenRead, ServerInv
  <2>2. CASE WindowRead
    BY <2>2 DEF WindowRead, ServerInv
  <2> QED
    BY <2>1, <2>2
<1>6. ReadyInv'
  <2>1. CASE WindowOpenRead
    BY <2>1 DEF WindowOpenRead, ReadyInv
  <2>2. CASE WindowRead
    BY <2>2 DEF WindowRead, ReadyInv
  <2> QED
    BY <2>1, <2>2
<1>7. Lockstep'
  <2>1. CASE WindowOpenRead
    BY <2>1 DEF WindowOpenRead, Lockstep
  <2>2. CASE WindowRead
    BY <2>2 DEF WindowRead, Lockstep
  <2> QED
    BY <2>1, <2>2
<1>8. MessageInv'
  <2>1. CASE WindowOpenRead
    BY <2>1 DEF WindowOpenRead, MessageInv, ReaderInv, ClosedInv
  <2>2. CASE WindowRead
    BY <2>2 DEF WindowRead, MessageInv, ReaderInv, ClosedInv
  <2> QED
    BY <2>1, <2>2
<1> QED
  BY <1>1, <1>2, <1>3, <1>4, <1>5, <1>6, <1>7, <1>8
  DEF FlowInv

LEMMA FlowGenerator ==
  ASSUME IInv, NEW g \in Generators,
         \/ GeneratorOpenInput(g) \/ GeneratorOpen(g) \/ GeneratorSelect(g)
         \/ GeneratorWrite(g)
         \/ g = "targets" /\ TargetsStop
         \/ g = "obstacles" /\ ObstaclesAgain
  PROVE  FlowInv'
<1> USE ChannelNames, GeneratorNames
<1> USE DEF IInv, FlowInv, TypeOK, Goto, fifos, flags, Gone, OpenToWrite, HasReader, Suffix
<1>1. ReaderInv'
  <2>1. CASE GeneratorOpenInput(g)
    BY <2>1 DEF GeneratorOpenInput, ReaderInv, ClosedInv, Suffix
  <2>2. CASE GeneratorOpen(g)
    BY <2>2 DEF GeneratorOpen, ReaderInv, ClosedInv, Suffix
  <2>3. CASE GeneratorSelect(g)
    BY <2>3 DEF GeneratorSelect, ReaderInv, ClosedInv, Suffix
  <2>4. CASE GeneratorWrite(g)
    BY <2>4, SMTT(30) DEF GeneratorWrite, ReaderInv, ClosedInv, Suffix
  <2>5. CASE g = "targets" /\ TargetsStop
    BY <2>5 DEF TargetsStop, ReaderInv, ClosedInv, Suffix
  <2>6. CASE g = "obstacles" /\ ObstaclesAgain
    BY <2>6 DEF ObstaclesAgain, ReaderInv, ClosedInv, Suffix
  <2> QED
    BY <2>1, <2>2, <2>3, <2>4, <2>5, <2>6
<1>2. ClosedInv'
  <2>1. CASE GeneratorOpenInput(g)
    BY <2>1 DEF GeneratorOpenInput, ClosedInv
  <2>2. CASE GeneratorOpen(g)
    BY <2>2 DEF GeneratorOpen, ClosedInv
  <2>3. CASE GeneratorSelect(g)
    BY <2>3, SMTT(30) DEF GeneratorSelect, ClosedInv
  <2>4. CASE GeneratorWrite(g)
    BY <2>4 DEF GeneratorWrite, ClosedInv
  <2>5. CASE g = "targets" /\ TargetsStop
    BY <2>5 DEF TargetsStop, ClosedInv
  <2>6. CASE g = "obstacles" /\ ObstaclesAgain
    BY <2>6 DEF ObstaclesAgain, ClosedInv
  <2> QED
    BY <2>1, <2>2, <2>3, <2>4, <2>5, <2>6
<1>3. WokenInv'
  <2>1. CASE GeneratorOpenInput(g)
    BY <2>1 DEF GeneratorOpenInput, WokenInv
  <2>2. CASE GeneratorOpen(g)
    BY <2>2 DEF GeneratorOpen, WokenInv
  <2>3. CASE GeneratorSelect(g)
    <3>1. /\ pc[g] = "select" /\ fifo_id' = fifo_id /\ woken' = woken
          /\ \A p \in Processes : p # g => pc'[p] = pc[p]
      BY <2>3 DEF GeneratorSelect
    <3>2. pc[g] \notin {"openWrite"} \cup Gone
      BY <3>1
    <3> QED
      BY <3>1, <3>2 DEF WokenInv
  <2>4. CASE GeneratorWrite(g)
    BY <2>4 DEF GeneratorWrite, WokenInv
  <2>5. CASE g = "targets" /\ TargetsStop
    BY <2>5 DEF TargetsStop, WokenInv
  <2>6. CASE g = "obstacles" /\ ObstaclesAgain
    BY <2>6 DEF ObstaclesAgain, WokenInv
  <2> QED
    BY <2>1, <2>2, <2>3, <2>4, <2>5, <2>6
<1>4. ClientInv'
  <2>1. CASE GeneratorOpenInput(g)
    BY <2>1 DEF GeneratorOpenInput, ClientInv
  <2>2. CASE GeneratorOpen(g)
    <3>1. rd[g] = fifo_id[g] \/ g \in woken
      BY <2>2 DEF GeneratorOpen
    <3>2. fifo_id[g] <= fifo_id["server"]
      <4>1. /\ fifo_id[g] \in Nat /\ fifo_id["server"] \in Nat
            /\ rd[g] \in {-1, fifo_id["server"]}
            /\ g \in woken => fifo_id[g] <= fifo_id["server"]
        BY DEF ReaderInv, WokenInv
      <4> HIDE DEF IInv, FlowInv, TypeOK
      <4> QED
        BY <3>1, <4>1
    <3> QED
      BY <2>2, <3>2 DEF GeneratorOpen, ClientInv
  <2>3. CASE GeneratorSelect(g)
    <3>1. /\ pc[g] = "select" /\ fifo_id' = fifo_id /\ buf' = buf
          /\ \A p \in Processes : p # g => pc'[p] = pc[p]
      BY <2>3 DEF GeneratorSelect
    <3>2. pc[g] \notin {"openWrite"} \cup Gone
      BY <3>1
    <3> QED
      BY <3>1, <3>2 DEF ClientInv
  <2>4. CASE GeneratorWrite(g)
    BY <2>4 DEF GeneratorWrite, ClientInv
  <2>5. CASE g = "targets" /\ TargetsStop
    BY <2>5, SMTT(30) DEF TargetsStop, ClientInv
  <2>6. CASE g = "obstacles" /\ ObstaclesAgain
    BY <2>6 DEF ObstaclesAgain, ClientInv
  <2> QED
    BY <2>1, <2>2, <2>3, <2>4, <2>5, <2>6
<1>5. ServerInv'
  <2>1. CASE GeneratorOpenInput(g)
    BY <2>1 DEF GeneratorOpenInput, ServerInv
  <2>2. CASE GeneratorOpen(g)
    BY <2>2 DEF GeneratorOpen, ServerInv
  <2>3. CASE GeneratorSelect(g)
    BY <2>3 DEF GeneratorSelect, ServerInv
  <2>4. CASE GeneratorWrite(g)
    BY <2>4 DEF GeneratorWrite, ServerInv
  <2>5. CASE g = "targets" /\ TargetsStop
    BY <2>5 DEF TargetsStop, ServerInv
  <2>6. CASE g = "obstacles" /\ ObstaclesAgain
    BY <2>6 DEF ObstaclesAgain, ServerInv
  <2> QED
    BY <2>1, <2>2, <2>3, <2>4, <2>5, <2>6
<1>6. ReadyInv'
  <2>1. CASE GeneratorOpenInput(g)
    BY <2>1 DEF GeneratorOpenInput, ReadyInv
  <2>2. CASE GeneratorOpen(g)
    BY <2>2 DEF GeneratorOpen, ReadyInv
  <2>3. CASE GeneratorSelect(g)
    BY <2>3 DEF GeneratorSelect, ReadyInv
  <2>4. CASE GeneratorWrite(g)
    BY <2>4 DEF GeneratorWrite, ReadyInv
  <2>5. CASE g = "targets" /\ TargetsStop
    BY <2>5 DEF TargetsStop, ReadyInv
  <2>6. CASE g = "obstacles" /\ ObstaclesAgain
    BY <2>6 DEF ObstaclesAgain, ReadyInv
  <2> QED
    BY <2>1, <2>2, <2>3, <2>4, <2>5, <2>6
<1>7. Lockstep'
  <2>1. CASE GeneratorOpenInput(g)
    BY <2>1 DEF GeneratorOpenInput, Lockstep
  <2>2. CASE GeneratorOpen(g)
    BY <2>2 DEF GeneratorOpen, Lockstep
  <2>3. CASE GeneratorSelect(g)
    BY <2>3 DEF GeneratorSelect, Lockstep
  <2>4. CASE GeneratorWrite(g)
    BY <2>4 DEF GeneratorWrite, Lockstep
  <2>5. CASE g = "targets" /\ TargetsStop
    BY <2>5 DEF TargetsStop, Lockstep
  <2>6. CASE g = "obstacles" /\ ObstaclesAgain
    BY <2>6 DEF ObstaclesAgain, Lockstep
  <2> QED
    BY <2>1, <2>2, <2>3, <2>4, <2>5, <2>6
<1>8. MessageInv'
  <2>1. CASE GeneratorOpenInput(g)
    BY <2>1 DEF GeneratorOpenInput, MessageInv, ReaderInv, ClosedInv
  <2>2. CASE GeneratorOpen(g)
    BY <2>2 DEF GeneratorOpen, MessageInv, ReaderInv, ClosedInv
  <2>3. CASE GeneratorSelect(g)
    BY <2>3 DEF GeneratorSelect, MessageInv, ReaderInv, ClosedInv
  <2>4. CASE GeneratorWrite(g)
    <3>1. fifo_id' = fifo_id /\ rd[g] = fifo_id[g] /\ buf' = [buf EXCEPT ![g] = @ + 1]
      BY <2>4 DEF GeneratorWrite
    <3>2. fifo_id["server"] <= fifo_id[g]
      <4>1. /\ fifo_id[g] \in Nat /\ fifo_id["server"] \in Nat
            /\ rd[g] \in {-1, fifo_id["server"]}
        BY DEF ReaderInv
      <4> HIDE DEF IInv, FlowInv, TypeOK
      <4> QED
        BY <3>1, <4>1
    <3> QED
      BY <3>1, <3>2 DEF MessageInv
  <2>5. CASE g = "targets" /\ TargetsStop
    BY <2>5 DEF TargetsStop, MessageInv, ReaderInv, ClosedInv
  <2>6. CASE g = "obstacles" /\ ObstaclesAgain
    BY <2>6 DEF ObstaclesAgain, MessageInv, ReaderInv, ClosedInv
  <2> QED
    BY <2>1, <2>2, <2>3, <2>4, <2>5, <2>6
<1> QED
  BY <1>1, <1>2, <1>3, <1>4, <1>5, <1>6, <1>7, <1>8
  DEF FlowInv

LEMMA FlowKeyboard ==
  ASSUME IInv, KeyboardOpen \/ KeyboardWrite
  PROVE  FlowInv'
<1> USE ChannelNames, GeneratorNames
<1> USE DEF IInv, FlowInv, TypeOK, Goto, fifos, flags, OpenToWrite, HasReader, Suffix
<1>1. ReaderInv'
  <2>1. CASE KeyboardOpen
    BY <2>1 DEF KeyboardOpen, ReaderInv, ClosedInv, Suffix
  <2>2. CASE KeyboardWrite
    BY <2>2 DEF KeyboardWrite, ReaderInv, ClosedInv, Suffix
  <2> QED
    BY <2>1, <2>2
<1>2. ClosedInv'
  <2>1. CASE KeyboardOpen
    BY <2>1 DEF KeyboardOpen, ClosedInv
  <2>2. CASE KeyboardWrite
    BY <2>2 DEF KeyboardWrite, ClosedInv
  <2> QED
    BY <2>1, <2>2
<1>3. WokenInv'
  <2>1. CASE KeyboardOpen
    BY <2>1 DEF KeyboardOpen, WokenInv
  <2>2. CASE KeyboardWrite
    BY <2>2 DEF KeyboardWrite, WokenInv
  <2> QED
    BY <2>1, <2>2
<1>4. ClientInv'
  <2>1. CASE KeyboardOpen
    BY <2>1 DEF KeyboardOpen, ClientInv, ServerInv, ReaderInv, ClosedInv
  <2>2. CASE KeyboardWrite
    BY <2>2 DEF KeyboardWrite, ClientInv, ServerInv, ReaderInv, ClosedInv
  <2> QED
    BY <2>1, <2>2
<1>5. ServerInv'
  <2>1. CASE KeyboardOpen
    BY <2>1 DEF KeyboardOpen, ServerInv
  <2>2. CASE KeyboardWrite
    BY <2>2 DEF KeyboardWrite, ServerInv
  <2> QED
    BY <2>1, <2>2
<1>6. ReadyInv'
  <2>1. CASE KeyboardOpen
    BY <2>1 DEF KeyboardOpen, ReadyInv
  <2>2. CASE KeyboardWrite
    BY <2>2 DEF KeyboardWrite, ReadyInv
  <2> QED
    BY <2>1, <2>2
<1>7. Lockstep'
  <2>1. CASE KeyboardOpen
    BY <2>1 DEF KeyboardOpen, Lockstep
  <2>2. CASE KeyboardWrite
    BY <2>2 DEF KeyboardWrite, Lockstep
  <2> QED
    BY <2>1, <2>2
<1>8. MessageInv'
  <2>1. CASE KeyboardOpen
    BY <2>1 DEF KeyboardOpen, MessageInv, ReaderInv, ClosedInv
  <2>2. CASE KeyboardWrite
    BY <2>2 DEF KeyboardWrite, MessageInv, ReaderInv, ClosedInv
  <2> QED
    BY <2>1, <2>2
<1> QED
  BY <1>1, <1>2, <1>3, <1>4, <1>5, <1>6, <1>7, <1>8
  DEF FlowInv

LEMMA FlowEnds ==
  ASSUME IInv,
         \/ ServerFrameBreaks \/ ServerWriteBreaks \/ Exit("server")
         \/ DynamicsWriteBreaks \/ Exit("dynamics")
         \/ WindowLeave \/ Exit("window")
         \/ \E g \in Generators : GeneratorWriteBreaks(g) \/ Exit(g)
         \/ KeyboardExit \/ KeyboardWriteBreaks \/ InterruptKeyboard
         \/ \E p \in Players : Terminate(p)
  PROVE  FlowInv'
<1>1. PICK p \in Processes, how \in Gone :
        /\ End(p, how)
        /\ p \in Core => pc[p] \notin {"openDynamics", "openWindow", "openWrite"}
  <2>1. CASE \E p \in Players : Terminate(p)
    BY <2>1, ChannelNames DEF Terminate, Unhandled, Gone, Core
  <2> QED
    BY <2>1, ChannelNames, GeneratorNames
       DEF Gone, ServerFrameBreaks, ServerWriteBreaks, Exit, DynamicsWriteBreaks,
           WindowLeave, GeneratorWriteBreaks, BrokenPipe, KeyboardExit,
           KeyboardWriteBreaks, InterruptKeyboard, Core
<1> QED
  BY <1>1, FlowEnd

LEMMA FlowSteadies ==
  ASSUME IInv,
         \/ KeyboardLookUp \/ KeyboardKill \/ KeyboardKilled
         \/ \E k \in Keys : Press(k)
         \/ \E p \in Players, s \in Signals : Deliver(p, s)
         \/ \E p \in Interruptible : Interrupt(p)
         \/ UNCHANGED vars
  PROVE  FlowInv'
<1>1. UNCHANGED <<fifo_id, fifos, ready>>
  BY DEF KeyboardLookUp, KeyboardKill, KeyboardKilled, Press, Deliver, Interrupt,
     vars, fifos
<1>2. \A p \in Players : pc'[p] = pc[p]
  <2>1. pc' = pc \/ \E l : pc' = [pc EXCEPT !["keyboard"] = l]
    BY DEF KeyboardLookUp, KeyboardKill, KeyboardKilled, Press, Deliver, Interrupt,
       vars, Goto
  <2> QED
    BY <2>1, ChannelNames DEF IInv, TypeOK
<1> QED
  BY <1>1, <1>2, FlowElsewhere

LEMMA FlowStep ==
  ASSUME IInv, [Next]_vars
  PROVE  FlowInv'
<1>1. CASE ServerNext
  BY <1>1, ChannelNames, FlowBoot, FlowStart, FlowRestart, FlowTests, FlowServerOpens,
     FlowServerLoop, FlowEnds DEF ServerNext
<1>2. CASE DynamicsNext
  BY <1>2, ChannelNames, FlowBoot, FlowStart, FlowRestart, FlowTests, FlowDynamics, FlowEnds
     DEF DynamicsNext
<1>3. CASE WindowNext
  BY <1>3, ChannelNames, FlowBoot, FlowStart, FlowRestart, FlowTests, FlowWindow, FlowEnds
     DEF WindowNext
<1>4. CASE KeyboardNext
  BY <1>4, FlowKeyboard, FlowSteadies, FlowEnds DEF KeyboardNext
<1>5. ASSUME NEW g \in Generators, GeneratorOpenInput(g) \/ GeneratorNext(g)
      PROVE  FlowInv'
  BY <1>5, GeneratorNames, FlowBoot, FlowStart, FlowRestart, FlowTests, FlowGenerator, FlowEnds
     DEF GeneratorNext
<1>6. CASE InterruptKeyboard \/ \E p \in Players : Terminate(p)
  BY <1>6, FlowEnds
<1>7. CASE \/ \E k \in Keys : Press(k)
           \/ \E p \in Players, s \in Signals : Deliver(p, s)
           \/ \E p \in Interruptible : Interrupt(p)
           \/ UNCHANGED vars
  BY <1>7, FlowSteadies
<1> QED
  BY <1>1, <1>2, <1>3, <1>4, <1>5, <1>6, <1>7 DEF Next

\* The invariant behind the other theorems: what each process can conclude,
\* from where it is, about the generation its peers have reached.
THEOREM Inductive == Spec => []IInv
<1>1. Init => IInv
  BY InvInit
<1>2. IInv /\ [Next]_vars => IInv'
  BY TypeStep, FlowStep DEF IInv, FlowInv
<1> QED
  BY <1>1, <1>2, PTL DEF Spec

(***************************************************************************)
(* The theorems.                                                           *)
(***************************************************************************)
\* Every FIFO, of whatever capacity, holds no more messages than fit, and the
\* other variables keep their types, for any keys pressed in any order.
THEOREM TypeCorrect == Spec => []TypeOK
<1>1. IInv => TypeOK
  BY DEF IInv
<1> QED
  BY <1>1, Inductive, PTL

\* However many resets are pressed, at whatever moments, and whoever is
\* killed or interrupted, no process gets more than one generation of FIFOs
\* ahead of the server, nor the server of the dynamics and the window.
THEOREM LockstepHolds == Spec => []Lockstep
<1>1. IInv => Lockstep
  BY DEF IInv, FlowInv
<1> QED
  BY <1>1, Inductive, PTL

\* The server and the dynamics never exchange states of different games.
THEOREM LoopsAgreeHolds == Spec => []LoopsAgree
<1>1. IInv => LoopsAgree
  <2> SUFFICES ASSUME IInv, InLoop("server"), InLoop("dynamics")
               PROVE  fifo_id["server"] = fifo_id["dynamics"]
    BY DEF LoopsAgree
  <2>1. pc["server"] \notin {"openDynamics"} \cup Gone
    BY DEF InLoop, LoopLabels, LoopHead, Gone
  <2>2. pc["dynamics"] \notin {"openRead", "openWrite"} \cup Gone
    BY DEF InLoop, LoopLabels, LoopHead, Gone
  <2>3. fifo_id["server"] <= fifo_id["dynamics"]
    BY <2>1 DEF IInv, FlowInv, ServerInv, Gone
  <2>4. fifo_id["dynamics"] <= fifo_id["server"]
    BY <2>2 DEF IInv, FlowInv, ClientInv, Gone
  <2> QED
    BY <2>3, <2>4, ChannelNames DEF IInv, TypeOK
<1> QED
  BY <1>1, Inductive, PTL

\* Nothing written to a FIFO before a reset is read after it.
THEOREM NoStaleMessagesHold == Spec => []NoStaleMessages
<1>1. IInv => NoStaleMessages
  <2> SUFFICES ASSUME IInv, NEW c \in Channels \ {"keys"}, buf[c] > 0
               PROVE  /\ rd[c] = fifo_id[Reader(c)]
                      /\ fifo_id[Writer(c)] \in {rd[c], rd[c] + 1}
    BY DEF NoStaleMessages
  <2> USE ChannelNames, GeneratorNames DEF IInv, FlowInv, TypeOK
  <2>1. rd[c] # -1
    BY DEF ReaderInv
  <2>2. \A p \in Players : fifo_id[p] \in Nat
    OBVIOUS
  <2>3. CASE c = "toDynamics"
    BY <2>1, <2>2, <2>3, SMTT(30) DEF ReaderInv, MessageInv, Lockstep
  <2>4. CASE c = "fromDynamics"
    BY <2>1, <2>2, <2>4, SMTT(30) DEF ReaderInv, MessageInv, Lockstep
  <2>5. CASE c = "toWindow"
    BY <2>1, <2>2, <2>5, SMTT(30) DEF ReaderInv, ClientInv, Lockstep
  <2>6. CASE c \in Generators
    <3>1. Reader(c) = "server" /\ Writer(c) = c /\ c \in Players
      BY <2>6
    <3>2. rd[c] = fifo_id["server"]
      BY <2>1, <2>6 DEF ReaderInv
    <3>3. fifo_id["server"] <= fifo_id[c]
      BY <2>6 DEF MessageInv
    <3>4. fifo_id[c] <= fifo_id["server"] + 1
      BY <3>1 DEF Lockstep
    <3> QED
      BY <2>2, <3>1, <3>2, <3>3, <3>4, SMTT(30)
  <2> QED
    BY <2>3, <2>4, <2>5, <2>6 DEF Channels
<1> QED
  BY <1>1, Inductive, PTL

(***************************************************************************)
(* The refinement: only Start changes a fifo_id.                           *)
(***************************************************************************)
LEMMA StartAdvances ==
  ASSUME IInv, NEW p \in Players, Start(p)
  PROVE  Protocol!Next \/ UNCHANGED fifo_id
<1>1. CASE ~reset[p]
  BY <1>1 DEF Start
<1>2. CASE reset[p]
  <2>1. fifo_id' = [fifo_id EXCEPT ![p] = @ + 1]
    BY <1>2 DEF Start
  <2>2. Protocol!MayAdvance(p)
    <3> USE ChannelNames, GeneratorNames DEF IInv, FlowInv, Start, Gone, Protocol!MayAdvance
    <3>1. CASE p = "server"
      BY <3>1 DEF ServerInv
    <3>2. CASE p # "server"
      BY <3>2 DEF ClientInv, Players, Core
    <3> QED
      BY <3>1, <3>2
  <2>3. Protocol!Advance(p)
    BY <2>1, <2>2 DEF Protocol!Advance
  <2> QED
    BY <2>3 DEF Protocol!Next
<1> QED
  BY <1>1, <1>2

LEMMA OthersStay ==
  ASSUME Next, ~\E p \in Players : Start(p)
  PROVE  UNCHANGED fifo_id
<1> USE ChannelNames, GeneratorNames
<1>1. CASE ServerNext
  BY <1>1 DEF ServerNext, ServerOpenKeys, ServerClear, ServerOpenDynamics,
     ServerOpenWindow, ServerFrame, ServerFrameBreaks, ServerSend, ServerWrite,
     ServerWriteBreaks, ServerDrain, BrokenPipe, End, Boot, Restart, NoReset, TestStop,
     Exit
<1>2. CASE DynamicsNext
  BY <1>2 DEF DynamicsNext, Boot, DynamicsOpenRead, DynamicsOpenWrite, DynamicsIterate,
     DynamicsWrite, DynamicsWriteBreaks, BrokenPipe, End, Restart, NoReset,
     TestStop, Exit
<1>3. CASE WindowNext
  BY <1>3 DEF WindowNext, Boot, WindowOpenRead, WindowRead, WindowLeave, End, Restart,
     NoReset, TestStop, Exit
<1>4. CASE \E g \in Generators : GeneratorOpenInput(g) \/ GeneratorNext(g)
  BY <1>4 DEF Boot, GeneratorOpenInput, GeneratorNext, GeneratorOpen, GeneratorSelect,
     GeneratorWrite, GeneratorWriteBreaks, BrokenPipe, End, TargetsStop,
     ObstaclesAgain, Restart, NoReset, TestStop, Exit
<1>5. CASE KeyboardNext \/ InterruptKeyboard \/ \E k \in Keys : Press(k)
  BY <1>5 DEF KeyboardNext, KeyboardLookUp, KeyboardOpen, KeyboardKill, KeyboardKilled,
     KeyboardExit, KeyboardWrite, KeyboardWriteBreaks, BrokenPipe, End, InterruptKeyboard, Press
<1>6. CASE \/ \E p \in Players, s \in Signals : Deliver(p, s)
           \/ \E p \in Players : Terminate(p)
           \/ \E p \in Interruptible : Interrupt(p)
  BY <1>6 DEF Deliver, Terminate, End, Interrupt
<1> QED
  BY <1>1, <1>2, <1>3, <1>4, <1>5, <1>6 DEF Next

\* The processes follow the protocol of Generations: a client takes a reset
\* only when the server has caught up with it, and the server only when the
\* dynamics and the window have.
THEOREM Refinement == Spec => FollowsProtocol
<1>1. Init => Protocol!Init
  BY DEF Init, Protocol!Init
<1>2. IInv /\ [Next]_vars => [Protocol!Next]_fifo_id
  <2>1. CASE UNCHANGED vars
    BY <2>1 DEF vars
  <2>2. CASE Next
    BY <2>2, StartAdvances, OthersStay
  <2> QED
    BY <2>1, <2>2
<1> QED
  BY <1>1, <1>2, Inductive, PTL DEF Spec, FollowsProtocol, Protocol!Spec
=============================================================================
