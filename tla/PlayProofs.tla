----------------------------- MODULE PlayProofs -----------------------------
(***************************************************************************)
(* What the player's keys do, for any generators, capacities and bounds.   *)
(*                                                                         *)
(* Resets.  One 'r' restarts nobody twice.  The argument is an account: an *)
(* 'r' gives every player at most one restart, and the account follows it  *)
(* from hand to hand: the kill() still to be made, the signal that is      *)
(* pending, the flag, the fifo_id.  Every step moves a restart along or    *)
(* loses it (a signal merged with one that is pending, a flag set twice or *)
(* cleared at the start); none makes one.                                  *)
(*                                                                         *)
(* Pauses.  What a player will be, paused or running, once the signals on  *)
(* their way have been handled, is changed by 'p' alone, and for the       *)
(* server and the dynamics together.                                       *)
(*                                                                         *)
(* SIGPIPE.  Until the first reset or stop request no FIFO loses its       *)
(* reader, so the one a writer once met at its open stays.                 *)
(***************************************************************************)
EXTENDS GameLifecycleProofs

(***************************************************************************)
(* The keyboard.                                                           *)
(***************************************************************************)
\* The kill()s of a key are all made before the next key, and nothing is known
\* of who is missing before the keyboard looks.
IdleInv ==
  /\ pc["keyboard"] \in {"lookUp", "openKeys", "write", "idle"} => todo = <<>>
  /\ pc["keyboard"] = "lookUp" => AllFound

LEMMA IdleStep ==
  ASSUME TypeOK, IdleInv, [Next]_vars
  PROVE  IdleInv'
<1> USE ChannelNames, GeneratorNames DEF IdleInv, AllFound, Goto, flags, user, End
<1>0. pc \in [Processes -> Labels] /\ \A p \in Players : p # "keyboard"
  BY DEF TypeOK, Players
<1>1. CASE UNCHANGED vars
  BY <1>1 DEF vars
<1>2. CASE ServerNext
  BY <1>0, <1>2 DEF ServerNext, ServerOpenKeys, ServerOpenDynamics, Start, ServerClear,
     ServerOpenWindow, ServerFrame, ServerFrameBreaks, ServerSend, ServerWrite,
     ServerWriteBreaks, ServerDrain, BrokenPipe, Boot, Restart, NoReset, TestStop, Exit
<1>3. CASE DynamicsNext
  BY <1>0, <1>3 DEF DynamicsNext, DynamicsOpenRead, DynamicsOpenWrite, DynamicsIterate,
     DynamicsWrite, DynamicsWriteBreaks, BrokenPipe, Boot, Start, Restart, NoReset,
     TestStop, Exit
<1>4. CASE WindowNext
  BY <1>0, <1>4 DEF WindowNext, WindowOpenRead, WindowRead, WindowLeave, Boot, Start,
     Restart,
     NoReset, TestStop, Exit
<1>5. CASE \E g \in Generators : GeneratorOpenInput(g) \/ GeneratorNext(g)
  BY <1>0, <1>5 DEF GeneratorOpenInput, GeneratorNext, GeneratorOpen, GeneratorSelect,
     GeneratorWrite, GeneratorWriteBreaks, BrokenPipe, TargetsStop,
     ObstaclesAgain, Boot, Start, Restart, NoReset, TestStop, Exit
<1>6. CASE KeyboardNext \/ InterruptKeyboard
  BY <1>0, <1>6 DEF KeyboardNext, KeyboardLookUp, KeyboardOpen, KeyboardKill,
     KeyboardKilled,
     KeyboardExit, KeyboardWrite, KeyboardWriteBreaks, BrokenPipe, InterruptKeyboard
<1>7. CASE \E k \in Keys : Press(k)
  BY <1>0, <1>7 DEF Press, Kills
<1>8. CASE \/ \E p \in Players, s \in Signals : Deliver(p, s)
           \/ \E p \in Players : Terminate(p)
           \/ \E p \in Interruptible : Interrupt(p)
  BY <1>0, <1>8 DEF Deliver, Terminate, Interrupt
<1> QED
  BY <1>1, <1>2, <1>3, <1>4, <1>5, <1>6, <1>7, <1>8 DEF Next

\* What a step does to the account: nothing, but for a few actions.
LEMMA StepCases ==
  ASSUME [Next]_vars
  PROVE  \/ UNCHANGED <<fifo_id, reset, pending, cmd, todo, resets, missed>>
         \/ KeyboardLookUp
         \/ \E p \in Players : Start(p)
         \/ ServerClear \/ KeyboardKill
         \/ \E k \in Keys : Press(k)
         \/ \E p \in Players, s \in Signals : Deliver(p, s)
         \/ \E p \in Interruptible : Interrupt(p)
<1> USE ChannelNames, GeneratorNames DEF flags, user
<1>1. CASE UNCHANGED vars
  BY <1>1 DEF vars
<1>2. CASE ServerNext
  BY <1>2 DEF ServerNext, ServerOpenKeys, ServerOpenDynamics,
     ServerOpenWindow, ServerFrame, ServerFrameBreaks, ServerSend, ServerWrite,
     ServerWriteBreaks, ServerDrain, BrokenPipe, End, Boot, Restart, NoReset, TestStop,
     Exit
<1>3. CASE DynamicsNext
  BY <1>3 DEF DynamicsNext, DynamicsOpenRead, DynamicsOpenWrite, DynamicsIterate,
     DynamicsWrite, DynamicsWriteBreaks, BrokenPipe, End, Boot, Restart, NoReset,
     TestStop, Exit
<1>4. CASE WindowNext
  BY <1>4 DEF WindowNext, WindowOpenRead, WindowRead, WindowLeave, End, Boot, Restart,
     NoReset, TestStop, Exit
<1>5. CASE \E g \in Generators : GeneratorOpenInput(g) \/ GeneratorNext(g)
  BY <1>5 DEF GeneratorOpenInput, GeneratorNext, GeneratorOpen, GeneratorSelect,
     GeneratorWrite, GeneratorWriteBreaks, BrokenPipe, End, TargetsStop,
     ObstaclesAgain, Boot, Restart, NoReset, TestStop, Exit
<1>6. CASE KeyboardNext \/ InterruptKeyboard \/ \E p \in Players : Terminate(p)
  BY <1>6 DEF KeyboardNext, KeyboardOpen, KeyboardKilled, KeyboardExit,
     KeyboardWrite, KeyboardWriteBreaks, BrokenPipe, End, InterruptKeyboard,
     Terminate
<1> QED
  BY <1>1, <1>2, <1>3, <1>4, <1>5, <1>6 DEF Next

\* Whoever has all the ids had none missing before.
LEMMA FoundBefore ==
  ASSUME IdleInv, [Next]_vars, AllFound'
  PROVE  AllFound
<1>1. CASE KeyboardLookUp
  BY <1>1 DEF KeyboardLookUp, IdleInv
<1>2. CASE missed' = missed
  BY <1>2 DEF AllFound
<1> QED
  BY <1>1, <1>2, StepCases
     DEF Start, ServerClear, KeyboardKill, Press, Deliver, Interrupt, user

\* With all the ids a kill() signals the process it is meant for.
LEMMA KillOne ==
  ASSUME AllFound, KeyboardKill
  PROVE  pending' = [p \in Players |->
                       IF p = Head(todo) /\ Live(p) THEN pending[p] \cup {SignalOf(cmd)}
                       ELSE pending[p]]
<1>1. Addressees(Head(todo)) = {{Head(todo)}}
  BY DEF Addressees, AllFound
<1> QED
  BY <1>1 DEF KeyboardKill

(***************************************************************************)
(* Resets.                                                                 *)
(***************************************************************************)
Count(b) == IF b THEN 1 ELSE 0

\* The keyboard is still to signal the reset to player p.
ToSignal(p) == cmd = "reset" /\ \E i \in 1 .. Len(todo) : todo[i] = p

\* The restarts player p has under way.
UnderWay(p) ==
  Count(reset[p]) + Count("USR2" \in pending[p]) + Count(ToSignal(p))

\* Nobody is signalled twice for one key.
TodoInv == \A i, j \in 1 .. Len(todo) : todo[i] = todo[j] => i = j

CountInv == \A p \in Players : fifo_id[p] + UnderWay(p) <= resets

LEMMA KillsDistinct ==
  ASSUME NEW k \in AllKeys
  PROVE  \A i, j \in 1 .. Len(Kills(k)) : Kills(k)[i] = Kills(k)[j] => i = j
<1>1. CASE k = "none"
  BY <1>1 DEF Kills
<1>2. CASE k = "pause"
  BY <1>2 DEF Kills
<1>3. CASE k = "reset"
  BY <1>3 DEF Kills
<1>4. CASE k = "stop"
  BY <1>4 DEF Kills
<1> QED
  BY <1>1, <1>2, <1>3, <1>4 DEF AllKeys

LEMMA TodoStep ==
  ASSUME TypeOK, TodoInv, [Next]_vars
  PROVE  TodoInv'
<1>1. CASE KeyboardKill
  BY <1>1 DEF KeyboardKill, TodoInv, TypeOK
<1>2. ASSUME NEW k \in Keys, Press(k)
      PROVE  TodoInv'
  <2>1. k \in AllKeys
    BY BoundsAssumption
  <2>2. todo' = Kills(k)
    BY <1>2 DEF Press
  <2> QED
    BY <2>1, <2>2, KillsDistinct DEF TodoInv
<1>3. CASE todo' = todo
  BY <1>3 DEF TodoInv
<1> QED
  BY <1>1, <1>2, <1>3, StepCases DEF KeyboardLookUp, Start, ServerClear, Deliver,
     Interrupt, fifos, user

LEMMA PressCounts ==
  ASSUME TypeOK, CountInv, NEW k \in Keys, Press(k), NEW p \in Players
  PROVE  (fifo_id[p] + UnderWay(p) <= resets)'
<1>1. /\ fifo_id' = fifo_id /\ reset' = reset /\ pending' = pending
      /\ cmd' = k /\ resets' = IF k = "reset" THEN resets + 1 ELSE resets
  BY DEF Press, flags
<1>2. fifo_id[p] + UnderWay(p) <= resets
  BY DEF CountInv
<1>3. /\ fifo_id[p] \in Nat /\ resets \in Nat
      /\ Count(ToSignal(p)) \in {0, 1} /\ Count(ToSignal(p))' \in {0, 1}
      /\ Count(reset[p]) \in {0, 1} /\ Count("USR2" \in pending[p]) \in {0, 1}
  BY DEF TypeOK, Count
<1>4. k # "reset" => Count(ToSignal(p))' = 0
  BY <1>1 DEF ToSignal, Count
<1> QED
  BY <1>1, <1>2, <1>3, <1>4 DEF UnderWay

LEMMA KillCounts ==
  ASSUME AllFound, TypeOK, TodoInv, CountInv, KeyboardKill, NEW p \in Players
  PROVE  (fifo_id[p] + UnderWay(p) <= resets)'
<1>1. /\ fifo_id' = fifo_id /\ reset' = reset /\ cmd' = cmd /\ resets' = resets
      /\ todo # <<>> /\ todo' = Tail(todo)
      /\ pending'[p] = IF p = Head(todo) /\ Live(p) THEN pending[p] \cup {SignalOf(cmd)}
                       ELSE pending[p]
  BY KillOne DEF KeyboardKill
<1>2. todo \in Seq(Core \cup AllGenerators)
  BY DEF TypeOK
<1>3. fifo_id[p] + UnderWay(p) <= resets
  BY DEF CountInv
<1>4. /\ fifo_id[p] \in Nat /\ resets \in Nat
      /\ Count(ToSignal(p)) \in {0, 1} /\ Count(ToSignal(p))' \in {0, 1}
      /\ Count("USR2" \in pending[p]) \in {0, 1}
      /\ Count("USR2" \in pending[p])' \in {0, 1}
      /\ Count(reset[p]) \in {0, 1}
  BY DEF TypeOK, Count
<1>5. ToSignal(p)' => ToSignal(p)
  BY <1>1, <1>2 DEF ToSignal
<1>6. CASE p = Head(todo) /\ cmd = "reset"
  <2>1. ToSignal(p)
    BY <1>1, <1>2, <1>6 DEF ToSignal
  <2>2. ~ToSignal(p)'
    BY <1>1, <1>2, <1>6 DEF ToSignal, TodoInv
  <2>3. Count(ToSignal(p)) = 1 /\ Count(ToSignal(p))' = 0
    BY <2>1, <2>2 DEF Count
  <2>4. Count("USR2" \in pending[p])' <= Count("USR2" \in pending[p]) + 1
    BY <1>4
  <2> QED
    BY <1>1, <1>3, <1>4, <2>3, <2>4 DEF UnderWay
<1>7. CASE ~(p = Head(todo) /\ cmd = "reset")
  <2>1. ("USR2" \in pending[p])' = ("USR2" \in pending[p])
    BY <1>1, <1>7 DEF SignalOf
  <2>2. Count("USR2" \in pending[p])' = Count("USR2" \in pending[p])
    BY <2>1 DEF Count
  <2>3. Count(ToSignal(p))' <= Count(ToSignal(p))
    BY <1>5 DEF Count
  <2> QED
    BY <1>1, <1>3, <1>4, <2>2, <2>3 DEF UnderWay
<1> QED
  BY <1>6, <1>7

\* A restart that is taken, a flag that is cleared, a signal that is handled.
LEMMA FlagCounts ==
  ASSUME TypeOK, CountInv, NEW p \in Players,
         \/ \E q \in Players : Start(q)
         \/ ServerClear
         \/ \E q \in Players, s \in Signals : Deliver(q, s)
         \/ \E q \in Interruptible : Interrupt(q)
  PROVE  (fifo_id[p] + UnderWay(p) <= resets)'
<1>1. fifo_id[p] + UnderWay(p) <= resets
  BY DEF CountInv
<1>2. /\ cmd' = cmd /\ todo' = todo /\ resets' = resets
  BY DEF Start, ServerClear, Deliver, Interrupt, user
<1>3. ToSignal(p)' = ToSignal(p)
  BY <1>2 DEF ToSignal
<1>4. /\ fifo_id[p] \in Nat /\ resets \in Nat
      /\ Count(ToSignal(p)) \in {0, 1} /\ Count(ToSignal(p))' = Count(ToSignal(p))
      /\ Count(reset[p]) \in {0, 1} /\ Count(reset[p])' \in {0, 1}
      /\ Count("USR2" \in pending[p]) \in {0, 1}
      /\ Count("USR2" \in pending[p])' \in {0, 1}
  BY <1>3 DEF TypeOK, Count
<1>5. ASSUME NEW q \in Players, Start(q) \/ ServerClear
      PROVE  /\ pending' = pending /\ fifo_id'[p] \in Nat
             /\ fifo_id'[p] + Count(reset[p])' <= fifo_id[p] + Count(reset[p])
  <2>1. CASE Start(q)
    BY <1>4, <2>1 DEF Start, TypeOK, Count
  <2>2. CASE ServerClear
    BY <1>4, <2>2 DEF ServerClear, TypeOK, Count
  <2> QED
    BY <1>5, <2>1, <2>2
<1>6. ASSUME NEW q \in Players, Start(q) \/ ServerClear
      PROVE  (fifo_id[p] + UnderWay(p) <= resets)'
  <2>1. Count("USR2" \in pending[p])' = Count("USR2" \in pending[p])
    BY <1>5, <1>6 DEF Count
  <2>2. fifo_id'[p] \in Nat /\ fifo_id'[p] + Count(reset[p])' <= fifo_id[p] + Count(reset[p])
    BY <1>5, <1>6
  <2> QED
    BY <1>1, <1>2, <1>4, <2>1, <2>2 DEF UnderWay
<1>7. ASSUME NEW q \in Players, NEW s \in Signals, Deliver(q, s)
      PROVE  (fifo_id[p] + UnderWay(p) <= resets)'
  <2>1. /\ fifo_id' = fifo_id
        /\ Count(reset[p])' + Count("USR2" \in pending[p])'
             <= Count(reset[p]) + Count("USR2" \in pending[p])
    BY <1>7, SMTT(20) DEF Deliver, TypeOK, Count
  <2> QED
    BY <1>1, <1>2, <1>4, <2>1 DEF UnderWay
<1>8. ASSUME NEW q \in Interruptible, Interrupt(q)
      PROVE  (fifo_id[p] + UnderWay(p) <= resets)'
  <2>1. /\ fifo_id' = fifo_id /\ reset' = reset
        /\ ("USR2" \in pending[p])' = ("USR2" \in pending[p])
    BY <1>8 DEF Interrupt, TypeOK
  <2>2. /\ Count(reset[p])' = Count(reset[p])
        /\ Count("USR2" \in pending[p])' = Count("USR2" \in pending[p])
    BY <2>1 DEF Count
  <2> QED
    BY <1>1, <1>2, <1>4, <2>1, <2>2 DEF UnderWay
<1> QED
  BY <1>6, <1>7, <1>8

LEMMA CountStep ==
  ASSUME AllFound, TypeOK, TodoInv, CountInv, [Next]_vars
  PROVE  CountInv'
<1> SUFFICES ASSUME NEW p \in Players
             PROVE  (fifo_id[p] + UnderWay(p) <= resets)'
  BY DEF CountInv, Players
<1>1. CASE UNCHANGED <<fifo_id, reset, pending, cmd, todo, resets>>
  BY <1>1 DEF CountInv, UnderWay, ToSignal, Count
<1>2. CASE KeyboardLookUp
  BY <1>1, <1>2 DEF KeyboardLookUp, flags
<1> QED
  BY <1>1, <1>2, StepCases, PressCounts, KillCounts, FlagCounts

\* What the account rests on.
AccountInv == TodoInv /\ IdleInv /\ (AllFound => CountInv)

LEMMA AccountInit == Init => AccountInv
<1> SUFFICES ASSUME Init PROVE AccountInv
  OBVIOUS
<1>1. TodoInv /\ IdleInv
  BY DEF Init, TodoInv, IdleInv, AllFound
<1>2. ASSUME NEW p \in Players
      PROVE  fifo_id[p] + UnderWay(p) <= resets
  <2>1. /\ fifo_id[p] = 0 /\ resets = 0 /\ ~reset[p] /\ "USR2" \notin pending[p]
        /\ ~ToSignal(p)
    BY DEF Init, ToSignal
  <2> QED
    BY <2>1 DEF UnderWay, Count
<1> QED
  BY <1>1, <1>2 DEF AccountInv, CountInv

LEMMA AccountStep ==
  ASSUME TypeOK, AccountInv, [Next]_vars
  PROVE  AccountInv'
<1>1. TodoInv' /\ IdleInv'
  BY TodoStep, IdleStep DEF AccountInv
<1>2. AllFound' => CountInv'
  BY FoundBefore, CountStep DEF AccountInv
<1> QED
  BY <1>1, <1>2 DEF AccountInv

\* Every restart of a player answers an 'r' of its own, if the keyboard found
\* everybody: one 'r' never restarts a process twice, whenever it is pressed and
\* however its signals are merged.
THEOREM NoUnrequestedResetHolds == Spec => []NoUnrequestedReset
<1>1. TypeOK /\ AccountInv => NoUnrequestedReset
  <2> SUFFICES ASSUME TypeOK, AccountInv, AllFound, NEW p \in Players
               PROVE  fifo_id[p] <= resets
    BY DEF NoUnrequestedReset
  <2>1. fifo_id[p] + UnderWay(p) <= resets
    BY DEF AccountInv, CountInv
  <2>2. fifo_id[p] \in Nat /\ resets \in Nat /\ UnderWay(p) \in Nat
    BY DEF TypeOK, UnderWay, Count
  <2> QED
    BY <2>1, <2>2
<1> QED
  BY <1>1, AccountInit, AccountStep, TypeCorrect, PTL DEF Spec

(***************************************************************************)
(* When 'r' is pressed only on a game that is up (PacedKeys), nothing is   *)
(* lost from the account either: no two restarts of a player are under way *)
(* at once, so nothing is merged, and a flag is cleared at the start only  *)
(* by a player that takes the restart, or before the first 'r'.            *)
(***************************************************************************)
Early == {"boot", "openKeys", "clear"}

\* Before the server clears its flag unseen, there is nothing to be lost.
EarlyInv == pc["server"] \in Early => resets = 0

ExactInv ==
  \A p \in Players : Live(p) => UnderWay(p) <= 1 /\ fifo_id[p] + UnderWay(p) = resets

PacedInv == IdleInv /\ EarlyInv /\ (AllFound => ExactInv)

LEMMA EarlyStep ==
  ASSUME PacedKeys, TypeOK, EarlyInv, [Next]_vars
  PROVE  EarlyInv'
<1> USE ChannelNames, GeneratorNames DEF EarlyInv, Early, Goto, flags, user, End
<1>0. pc \in [Processes -> Labels]
  BY DEF TypeOK
<1>1. CASE UNCHANGED vars
  BY <1>1 DEF vars
<1>2. CASE ServerNext
  <2>1. CASE ServerOpenKeys \/ ServerClear \/ ServerOpenDynamics \/ ServerOpenWindow
    BY <1>0, <2>1 DEF ServerOpenKeys, ServerClear, ServerOpenDynamics, ServerOpenWindow
  <2>2. CASE \/ ServerFrame \/ ServerFrameBreaks \/ ServerSend \/ ServerWrite
             \/ ServerWriteBreaks \/ ServerDrain
    BY <1>0, <2>2 DEF ServerFrame, ServerFrameBreaks, ServerSend, ServerWrite,
       ServerWriteBreaks, ServerDrain, BrokenPipe
  <2>3. CASE Boot("server") \/ Start("server") \/ Restart("server")
             \/ NoReset("server") \/ TestStop("server") \/ Exit("server")
    BY <1>0, <2>3 DEF Boot, Start, FirstOpen, Restart, NoReset, TestStop, LoopHead, Exit
  <2> QED
    BY <1>2, <2>1, <2>2, <2>3 DEF ServerNext
<1>3. CASE DynamicsNext
  BY <1>0, <1>3 DEF DynamicsNext, DynamicsOpenRead, DynamicsOpenWrite, DynamicsIterate,
     DynamicsWrite, DynamicsWriteBreaks, BrokenPipe, Boot, Start, Restart, NoReset,
     TestStop, Exit
<1>4. CASE WindowNext
  BY <1>0, <1>4 DEF WindowNext, WindowOpenRead, WindowRead, WindowLeave, Boot, Start,
     Restart,
     NoReset, TestStop, Exit
<1>5. CASE \E g \in Generators : GeneratorOpenInput(g) \/ GeneratorNext(g)
  BY <1>0, <1>5 DEF GeneratorOpenInput, GeneratorNext, GeneratorOpen, GeneratorSelect,
     GeneratorWrite, GeneratorWriteBreaks, BrokenPipe, TargetsStop,
     ObstaclesAgain, Boot, Start, Restart, NoReset, TestStop, Exit
<1>6. CASE KeyboardNext \/ InterruptKeyboard
  BY <1>0, <1>6 DEF KeyboardNext, KeyboardLookUp, KeyboardOpen, KeyboardKill,
     KeyboardKilled, KeyboardExit, KeyboardWrite, KeyboardWriteBreaks, BrokenPipe,
     InterruptKeyboard
<1>7. ASSUME NEW k \in Keys, Press(k)
      PROVE  EarlyInv'
  <2>1. k = "reset" => pc["server"] \notin Early
    BY <1>7 DEF Press, AllUp, Live
  <2>2. /\ pc'["server"] = pc["server"]
        /\ k # "reset" => resets' = resets
    BY <1>0, <1>7 DEF Press
  <2> QED
    BY <2>1, <2>2
<1>8. CASE \/ \E p \in Players, s \in Signals : Deliver(p, s)
           \/ \E p \in Players : Terminate(p)
           \/ \E p \in Interruptible : Interrupt(p)
  BY <1>0, <1>8 DEF Deliver, Terminate, Interrupt
<1> QED
  BY <1>1, <1>2, <1>3, <1>4, <1>5, <1>6, <1>7, <1>8 DEF Next

\* Nobody comes back to life.
LEMMA LiveStep ==
  ASSUME TypeOK, [Next]_vars, NEW p \in Players, Live(p)'
  PROVE  Live(p)
<1> USE ChannelNames, GeneratorNames DEF Goto, End, Live
<1>0. pc \in [Processes -> Labels] /\ p # "keyboard" /\ p \in Processes
  BY DEF TypeOK, Players
<1>1. CASE UNCHANGED vars
  BY <1>1 DEF vars
<1>2. CASE ServerNext
  BY <1>0, <1>2 DEF ServerNext, ServerOpenKeys, ServerOpenDynamics, Start, ServerClear,
     ServerOpenWindow, ServerFrame, ServerFrameBreaks, ServerSend, ServerWrite,
     ServerWriteBreaks, ServerDrain, BrokenPipe, Boot, Restart, NoReset, TestStop, Exit
<1>3. CASE DynamicsNext
  BY <1>0, <1>3 DEF DynamicsNext, DynamicsOpenRead, DynamicsOpenWrite, DynamicsIterate,
     DynamicsWrite, DynamicsWriteBreaks, BrokenPipe, Boot, Start, Restart, NoReset,
     TestStop, Exit
<1>4. CASE WindowNext
  BY <1>0, <1>4 DEF WindowNext, WindowOpenRead, WindowRead, WindowLeave, Boot, Start,
     Restart,
     NoReset, TestStop, Exit
<1>5. CASE \E g \in Generators : GeneratorOpenInput(g) \/ GeneratorNext(g)
  BY <1>0, <1>5 DEF GeneratorOpenInput, GeneratorNext, GeneratorOpen, GeneratorSelect,
     GeneratorWrite, GeneratorWriteBreaks, BrokenPipe, TargetsStop,
     ObstaclesAgain, Boot, Start, Restart, NoReset, TestStop, Exit
<1>6. CASE KeyboardNext \/ InterruptKeyboard
  BY <1>0, <1>6 DEF KeyboardNext, KeyboardLookUp, KeyboardOpen, KeyboardKill,
     KeyboardKilled, KeyboardExit, KeyboardWrite, KeyboardWriteBreaks, BrokenPipe,
     InterruptKeyboard
<1>7. CASE \E k \in Keys : Press(k)
  BY <1>0, <1>7 DEF Press
<1>8. CASE \/ \E q \in Players, s \in Signals : Deliver(q, s)
           \/ \E q \in Players : Terminate(q)
           \/ \E q \in Interruptible : Interrupt(q)
  BY <1>0, <1>8 DEF Deliver, Terminate, Interrupt
<1> QED
  BY <1>1, <1>2, <1>3, <1>4, <1>5, <1>6, <1>7, <1>8 DEF Next

LEMMA PressExact ==
  ASSUME AllFound, PacedKeys, TypeOK, PacedInv, NEW k \in Keys, Press(k),
     NEW p \in Players, Live(p)
  PROVE  (UnderWay(p) <= 1 /\ fifo_id[p] + UnderWay(p) = resets)'
<1>1. /\ fifo_id' = fifo_id /\ reset' = reset /\ pending' = pending
      /\ cmd' = k /\ todo' = Kills(k) /\ todo = <<>>
      /\ resets' = IF k = "reset" THEN resets + 1 ELSE resets
  BY DEF Press, flags, PacedInv, IdleInv
<1>2. /\ fifo_id[p] \in Nat /\ resets \in Nat
      /\ Count(reset[p]) \in {0, 1} /\ Count("USR2" \in pending[p]) \in {0, 1}
      /\ Count(reset[p])' = Count(reset[p])
      /\ Count("USR2" \in pending[p])' = Count("USR2" \in pending[p])
  BY <1>1 DEF TypeOK, Count
<1>3. Count(ToSignal(p)) = 0
  BY <1>1 DEF ToSignal, Count
<1>4. UnderWay(p) <= 1 /\ fifo_id[p] + UnderWay(p) = resets
  BY DEF PacedInv, ExactInv
<1>5. CASE k = "reset"
  <2>1. Count(reset[p]) = 0 /\ Count("USR2" \in pending[p]) = 0
    BY <1>5 DEF Press, AllUp, Count
  <2>2. \E i \in 1 .. Len(Kills("reset")) : Kills("reset")[i] = p
    <3>1. Kills("reset") = <<"server", "dynamics", "obstacles", "targets", "window">>
      BY DEF Kills
    <3>2. p \in {"server", "dynamics", "obstacles", "targets", "window"}
      BY GeneratorsAssumption DEF Players, Core, AllGenerators
    <3> QED
      BY <3>1, <3>2
  <2>3. Count(ToSignal(p))' = 1
    BY <1>1, <1>5, <2>2 DEF ToSignal, Count
  <2> QED
    BY <1>1, <1>2, <1>3, <1>4, <1>5, <2>1, <2>3 DEF UnderWay
<1>6. CASE k # "reset"
  <2>1. Count(ToSignal(p))' = 0
    BY <1>1, <1>6 DEF ToSignal, Count
  <2> QED
    BY <1>1, <1>2, <1>3, <1>4, <1>6, <2>1 DEF UnderWay
<1> QED
  BY <1>5, <1>6

LEMMA KillExact ==
  ASSUME AllFound, TypeOK, TodoInv, PacedInv, KeyboardKill, NEW p \in Players, Live(p)
  PROVE  (UnderWay(p) <= 1 /\ fifo_id[p] + UnderWay(p) = resets)'
<1>1. /\ fifo_id' = fifo_id /\ reset' = reset /\ cmd' = cmd /\ resets' = resets
      /\ todo # <<>> /\ todo' = Tail(todo)
      /\ pending'[p] = IF p = Head(todo) THEN pending[p] \cup {SignalOf(cmd)}
                       ELSE pending[p]
  BY KillOne DEF KeyboardKill
<1>2. todo \in Seq(Core \cup AllGenerators)
  BY DEF TypeOK
<1>3. UnderWay(p) <= 1 /\ fifo_id[p] + UnderWay(p) = resets
  BY DEF PacedInv, ExactInv
<1>4. /\ fifo_id[p] \in Nat /\ resets \in Nat
      /\ Count("USR2" \in pending[p]) \in {0, 1} /\ Count(reset[p]) \in {0, 1}
      /\ Count(ToSignal(p)) \in {0, 1} /\ Count(reset[p])' = Count(reset[p])
  BY <1>1 DEF TypeOK, Count
<1>5. CASE p = Head(todo) /\ cmd = "reset"
  <2>1. ToSignal(p) /\ ~ToSignal(p)'
    BY <1>1, <1>2, <1>5 DEF ToSignal, TodoInv
  <2>2. Count(ToSignal(p)) = 1 /\ Count(ToSignal(p))' = 0
    BY <2>1 DEF Count
  <2>3. Count("USR2" \in pending[p]) = 0
    BY <1>3, <1>4, <2>2 DEF UnderWay
  <2>4. Count("USR2" \in pending[p])' = 1
    BY <1>1, <1>5 DEF Count, SignalOf
  <2> QED
    BY <1>1, <1>3, <1>4, <2>2, <2>3, <2>4 DEF UnderWay
<1>6. CASE ~(p = Head(todo) /\ cmd = "reset")
  <2>1. ("USR2" \in pending[p])' = ("USR2" \in pending[p])
    BY <1>1, <1>6 DEF SignalOf
  <2>2. ToSignal(p)' = ToSignal(p)
    <3>1. ToSignal(p)' => ToSignal(p)
      BY <1>1, <1>2 DEF ToSignal
    <3>2. ASSUME ToSignal(p)
          PROVE  ToSignal(p)'
      <4>1. PICK i \in 1 .. Len(todo) : todo[i] = p
        BY <3>2 DEF ToSignal
      <4>2. i # 1
        BY <1>2, <1>6, <3>2, <4>1 DEF ToSignal
      <4>3. i - 1 \in 1 .. Len(Tail(todo)) /\ Tail(todo)[i - 1] = p
        BY <1>1, <1>2, <4>1, <4>2
      <4> QED
        BY <1>1, <3>2, <4>3 DEF ToSignal
    <3> QED
      BY <3>1, <3>2 DEF ToSignal
  <2>3. /\ Count("USR2" \in pending[p])' = Count("USR2" \in pending[p])
        /\ Count(ToSignal(p))' = Count(ToSignal(p))
    BY <2>1, <2>2 DEF Count
  <2> QED
    BY <1>1, <1>3, <1>4, <2>3 DEF UnderWay
<1> QED
  BY <1>5, <1>6

LEMMA FlagExact ==
  ASSUME AllFound, TypeOK, PacedInv, NEW p \in Players, Live(p),
         \/ \E q \in Players : Start(q)
         \/ ServerClear
         \/ \E q \in Players, s \in Signals : Deliver(q, s)
         \/ \E q \in Interruptible : Interrupt(q)
  PROVE  (UnderWay(p) <= 1 /\ fifo_id[p] + UnderWay(p) = resets)'
<1>1. UnderWay(p) <= 1 /\ fifo_id[p] + UnderWay(p) = resets
  BY DEF PacedInv, ExactInv
<1>2. cmd' = cmd /\ todo' = todo /\ resets' = resets
  BY DEF Start, ServerClear, Deliver, Interrupt, user
<1>3. ToSignal(p)' = ToSignal(p)
  BY <1>2 DEF ToSignal
<1>4. /\ fifo_id[p] \in Nat /\ resets \in Nat
      /\ Count(ToSignal(p)) \in {0, 1} /\ Count(ToSignal(p))' = Count(ToSignal(p))
      /\ Count(reset[p]) \in {0, 1} /\ Count(reset[p])' \in {0, 1}
      /\ Count("USR2" \in pending[p]) \in {0, 1}
      /\ Count("USR2" \in pending[p])' \in {0, 1}
  BY <1>3 DEF TypeOK, Count
<1>5. ASSUME NEW q \in Players, Start(q)
      PROVE  (UnderWay(p) <= 1 /\ fifo_id[p] + UnderWay(p) = resets)'
  <2>1. /\ Count("USR2" \in pending[p])' = Count("USR2" \in pending[p])
        /\ fifo_id'[p] \in Nat
        /\ fifo_id'[p] + Count(reset[p])' = fifo_id[p] + Count(reset[p])
        /\ Count(reset[p])' <= Count(reset[p])
    BY <1>4, <1>5 DEF Start, TypeOK, Count
  <2> QED
    BY <1>1, <1>2, <1>4, <2>1 DEF UnderWay
<1>6. CASE ServerClear
  <2>1. fifo_id' = fifo_id /\ pending' = pending
    BY <1>6 DEF ServerClear
  <2>2. reset'[p] = reset[p]
    <3>1. CASE p = "server"
      <4>1. resets = 0
        BY <1>6 DEF ServerClear, PacedInv, EarlyInv, Early
      <4>2. Count(reset[p]) = 0
        BY <1>1, <1>4, <4>1 DEF UnderWay
      <4>3. ~reset[p]
        BY <4>2 DEF Count
      <4> QED
        BY <1>6, <3>1, <4>3 DEF ServerClear, TypeOK
    <3>2. CASE p # "server"
      BY <1>6, <3>2 DEF ServerClear, TypeOK
    <3> QED
      BY <3>1, <3>2
  <2>3. /\ Count(reset[p])' = Count(reset[p])
        /\ Count("USR2" \in pending[p])' = Count("USR2" \in pending[p])
    BY <2>1, <2>2 DEF Count
  <2> QED
    BY <1>1, <1>2, <1>4, <2>1, <2>3 DEF UnderWay
<1>7. ASSUME NEW q \in Players, NEW s \in Signals, Deliver(q, s)
      PROVE  (UnderWay(p) <= 1 /\ fifo_id[p] + UnderWay(p) = resets)'
  <2>1. Count(reset[p]) + Count("USR2" \in pending[p]) <= 1
    BY <1>1, <1>4 DEF UnderWay
  <2>2. /\ fifo_id' = fifo_id
        /\ Count(reset[p])' + Count("USR2" \in pending[p])'
             = Count(reset[p]) + Count("USR2" \in pending[p])
    <3>1. CASE s = "USR2" /\ p = q
      <4>1. /\ fifo_id' = fifo_id /\ "USR2" \in pending[p]
            /\ reset'[p] /\ "USR2" \notin pending'[p]
        BY <1>7, <3>1 DEF Deliver, TypeOK
      <4>2. /\ Count("USR2" \in pending[p]) = 1 /\ Count("USR2" \in pending[p])' = 0
            /\ Count(reset[p])' = 1
        BY <4>1 DEF Count
      <4>3. Count(reset[p]) = 0
        BY <1>4, <2>1, <4>2
      <4>4. fifo_id' = fifo_id
        BY <4>1
      <4> QED
        BY <4>2, <4>3, <4>4
    <3>2. CASE ~(s = "USR2" /\ p = q)
      <4>1. /\ fifo_id' = fifo_id /\ (reset'[p] <=> reset[p])
            /\ ("USR2" \in pending[p])' = ("USR2" \in pending[p])
        BY <1>7, <3>2, SMTT(20) DEF Deliver, TypeOK
      <4>2. /\ Count(reset[p])' = Count(reset[p])
            /\ Count("USR2" \in pending[p])' = Count("USR2" \in pending[p])
        BY <4>1 DEF Count
      <4> QED
        BY <4>1, <4>2
    <3> QED
      BY <3>1, <3>2
  <2> QED
    BY <1>1, <1>2, <1>4, <2>2 DEF UnderWay
<1>8. ASSUME NEW q \in Interruptible, Interrupt(q)
      PROVE  (UnderWay(p) <= 1 /\ fifo_id[p] + UnderWay(p) = resets)'
  <2>1. /\ fifo_id' = fifo_id /\ reset' = reset
        /\ ("USR2" \in pending[p])' = ("USR2" \in pending[p])
    BY <1>8 DEF Interrupt, TypeOK
  <2>2. /\ Count(reset[p])' = Count(reset[p])
        /\ Count("USR2" \in pending[p])' = Count("USR2" \in pending[p])
    BY <2>1 DEF Count
  <2> QED
    BY <1>1, <1>2, <1>4, <2>1, <2>2 DEF UnderWay
<1> QED
  BY <1>5, <1>6, <1>7, <1>8

LEMMA ExactStep ==
  ASSUME AllFound, PacedKeys, TypeOK, TodoInv, PacedInv, [Next]_vars
  PROVE  ExactInv'
<1> SUFFICES ASSUME NEW p \in Players, Live(p)'
             PROVE  (UnderWay(p) <= 1 /\ fifo_id[p] + UnderWay(p) = resets)'
  BY DEF ExactInv, Players
<1>0. Live(p)
  BY LiveStep
<1>1. CASE UNCHANGED <<fifo_id, reset, pending, cmd, todo, resets>>
  BY <1>0, <1>1 DEF PacedInv, ExactInv, UnderWay, ToSignal, Count
<1>2. CASE KeyboardLookUp
  BY <1>1, <1>2 DEF KeyboardLookUp, flags
<1> QED
  BY <1>0, <1>1, <1>2, StepCases, PressExact, KillExact, FlagExact

\* With 'r' pressed on a running game only, and everybody found, a player with
\* no restart under way has taken every one that was asked for, whoever else has
\* quit or been killed.
THEOREM AllResetsTakenHolds ==
  ASSUME PacedKeys
  PROVE  Spec => []AllResetsTaken
<1>1. Init => TodoInv /\ PacedInv
  <2> SUFFICES ASSUME Init PROVE TodoInv /\ PacedInv
    OBVIOUS
  <2>1. TodoInv /\ IdleInv /\ EarlyInv
    BY DEF Init, TodoInv, IdleInv, EarlyInv, AllFound
  <2>2. ASSUME NEW p \in Players
        PROVE  UnderWay(p) <= 1 /\ fifo_id[p] + UnderWay(p) = resets
    <3>1. /\ fifo_id[p] = 0 /\ resets = 0 /\ ~reset[p] /\ "USR2" \notin pending[p]
          /\ ~ToSignal(p)
      BY DEF Init, ToSignal
    <3> QED
      BY <3>1 DEF UnderWay, Count
  <2> QED
    BY <2>1, <2>2 DEF PacedInv, ExactInv
<1>2. TypeOK /\ TodoInv /\ PacedInv /\ [Next]_vars => TodoInv' /\ PacedInv'
  <2> SUFFICES ASSUME TypeOK, TodoInv, PacedInv, [Next]_vars
               PROVE  TodoInv' /\ PacedInv'
    OBVIOUS
  <2> QED
    BY TodoStep, IdleStep, EarlyStep, FoundBefore, ExactStep DEF PacedInv
<1>3. TypeOK /\ PacedInv => AllResetsTaken
  <2> SUFFICES ASSUME TypeOK, PacedInv, AllFound, NEW p \in Players,
                      Live(p), ~reset[p], "USR2" \notin pending[p],
                      ~(cmd = "reset" /\ \E i \in DOMAIN todo : todo[i] = p)
               PROVE  fifo_id[p] = resets
    BY DEF AllResetsTaken
  <2>1. fifo_id[p] + UnderWay(p) = resets /\ fifo_id[p] \in Nat
    BY DEF PacedInv, ExactInv, TypeOK
  <2>2. ~ToSignal(p)
    BY DEF ToSignal, TypeOK
  <2>3. UnderWay(p) = 0
    BY <2>2 DEF UnderWay, Count
  <2> QED
    BY <2>1, <2>3
<1> QED
  BY <1>1, <1>2, <1>3, TypeCorrect, PTL DEF Spec


(***************************************************************************)
(* Pauses.                                                                 *)
(***************************************************************************)
ToPause(p) == cmd = "pause" /\ \E i \in 1 .. Len(todo) : todo[i] = p

\* Player p is paused once every signal of the last key is handled.
WillPause(p) == is_paused[p] <=> ("USR1" \in pending[p] <=> ToPause(p))

\* A player about to be sent a signal of 'p' has none pending: two are never
\* merged into one.
SingleInv == \A p \in Players : Live(p) /\ ToPause(p) => "USR1" \notin pending[p]

AgreeInv == Live("server") /\ Live("dynamics") =>
              (WillPause("server") <=> WillPause("dynamics"))

LEMMA PauseCases ==
  ASSUME [Next]_vars
  PROVE  \/ is_paused' = is_paused
         \/ \E p \in Players, s \in Signals : Deliver(p, s)
<1> USE ChannelNames, GeneratorNames DEF flags, user
<1>1. CASE UNCHANGED vars
  BY <1>1 DEF vars
<1>2. CASE ServerNext
  BY <1>2 DEF ServerNext, ServerOpenKeys, ServerOpenDynamics, Start, ServerClear,
     ServerOpenWindow, ServerFrame, ServerFrameBreaks, ServerSend, ServerWrite,
     ServerWriteBreaks, ServerDrain, BrokenPipe, End, Boot, Restart, NoReset, TestStop,
     Exit
<1>3. CASE DynamicsNext
  BY <1>3 DEF DynamicsNext, DynamicsOpenRead, DynamicsOpenWrite, DynamicsIterate,
     DynamicsWrite, DynamicsWriteBreaks, BrokenPipe, End, Boot, Start, Restart, NoReset,
     TestStop, Exit
<1>4. CASE WindowNext
  BY <1>4 DEF WindowNext, WindowOpenRead, WindowRead, WindowLeave, End, Boot, Start,
     Restart, NoReset, TestStop, Exit
<1>5. CASE \E g \in Generators : GeneratorOpenInput(g) \/ GeneratorNext(g)
  BY <1>5 DEF GeneratorOpenInput, GeneratorNext, GeneratorOpen, GeneratorSelect,
     GeneratorWrite, GeneratorWriteBreaks, BrokenPipe, End, TargetsStop,
     ObstaclesAgain, Boot, Start,
     Restart, NoReset, TestStop, Exit
<1>6. CASE KeyboardNext \/ InterruptKeyboard \/ \E k \in Keys : Press(k)
  BY <1>6 DEF KeyboardNext, KeyboardLookUp, KeyboardOpen, KeyboardKill,
     KeyboardKilled, KeyboardExit, KeyboardWrite, KeyboardWriteBreaks, BrokenPipe, End,
     InterruptKeyboard, Press
<1>7. CASE (\E p \in Players : Terminate(p)) \/ \E p \in Interruptible : Interrupt(p)
  BY <1>7 DEF Terminate, End, Interrupt
<1> QED
  BY <1>1, <1>2, <1>3, <1>4, <1>5, <1>6, <1>7 DEF Next

\* One kill(): the signal takes the place of the kill() still to be made.
LEMMA PauseKill ==
  ASSUME AllFound, TypeOK, TodoInv, SingleInv, KeyboardKill, NEW p \in Players, Live(p)
  PROVE  /\ ToPause(p)' => "USR1" \notin pending'[p]
         /\ WillPause(p)' <=> WillPause(p)
<1>1. /\ is_paused' = is_paused /\ cmd' = cmd /\ todo # <<>> /\ todo' = Tail(todo)
      /\ pending'[p] = IF p = Head(todo) THEN pending[p] \cup {SignalOf(cmd)}
                       ELSE pending[p]
  BY KillOne DEF KeyboardKill
<1>2. todo \in Seq(Core \cup AllGenerators) /\ is_paused[p] \in BOOLEAN
  BY DEF TypeOK
<1>3. CASE p = Head(todo) /\ cmd = "pause"
  <2>1. ToPause(p) /\ ~ToPause(p)'
    BY <1>1, <1>2, <1>3 DEF ToPause, TodoInv
  <2>2. "USR1" \notin pending[p] /\ "USR1" \in pending'[p]
    BY <1>1, <1>3, <2>1 DEF SingleInv, SignalOf
  <2> QED
    BY <1>1, <1>2, <2>1, <2>2 DEF WillPause
<1>4. CASE ~(p = Head(todo) /\ cmd = "pause")
  <2>1. ("USR1" \in pending'[p]) <=> ("USR1" \in pending[p])
    BY <1>1, <1>4 DEF SignalOf
  <2>2. ToPause(p)' => ToPause(p)
    BY <1>1, <1>2 DEF ToPause
  <2>3. ASSUME ToPause(p)
        PROVE  ToPause(p)'
    <3>1. PICK i \in 1 .. Len(todo) : todo[i] = p
      BY <2>3 DEF ToPause
    <3>2. i # 1
      BY <1>2, <1>4, <2>3, <3>1 DEF ToPause
    <3>3. i - 1 \in 1 .. Len(Tail(todo)) /\ Tail(todo)[i - 1] = p
      BY <1>1, <1>2, <3>1, <3>2
    <3> QED
      BY <1>1, <2>3, <3>3 DEF ToPause
  <2>4. ToPause(p)' <=> ToPause(p)
    BY <2>2, <2>3
  <2> QED
    BY <1>1, <1>2, <2>1, <2>4 DEF WillPause, SingleInv
<1> QED
  BY <1>3, <1>4

\* A key, pressed when the signals of the last one have been handled.
LEMMA PausePress ==
  ASSUME PromptSignals, TypeOK, IdleInv, NEW k \in Keys, Press(k),
         NEW p \in Players, Live(p)
  PROVE  /\ "USR1" \notin pending'[p]
         /\ p \in {"server", "dynamics"} =>
              (WillPause(p)' <=> (WillPause(p) <=> k # "pause"))
<1>1. /\ is_paused' = is_paused /\ pending' = pending
      /\ cmd' = k /\ todo' = Kills(k) /\ todo = <<>> /\ pending[p] = {}
  BY DEF Press, flags, IdleInv, Handled
<1>2. ~ToPause(p) /\ is_paused[p] \in BOOLEAN
  BY <1>1 DEF ToPause, TypeOK
<1>3. ASSUME p \in {"server", "dynamics"}
      PROVE  ToPause(p)' <=> k = "pause"
  <2>1. CASE k = "pause"
    <3>1. Kills(k) = <<"server", "dynamics">>
      BY <2>1 DEF Kills
    <3> QED
      BY <1>1, <1>3, <2>1, <3>1 DEF ToPause
  <2>2. CASE k # "pause"
    BY <1>1, <2>2 DEF ToPause
  <2> QED
    BY <2>1, <2>2
<1> QED
  BY <1>1, <1>2, <1>3 DEF WillPause

\* A handler: the flag takes the place of the signal.
LEMMA PauseDeliver ==
  ASSUME TypeOK, SingleInv, NEW q \in Players, NEW s \in Signals, Deliver(q, s),
         NEW p \in Players, Live(p)
  PROVE  /\ ToPause(p)' => "USR1" \notin pending'[p]
         /\ WillPause(p)' <=> WillPause(p)
<1>1. /\ is_paused' = [is_paused EXCEPT ![q] = IF s = "USR1" THEN ~@ ELSE @]
      /\ pending' = [pending EXCEPT ![q] = @ \ {s}]
      /\ s \in pending[q] /\ cmd' = cmd /\ todo' = todo
  BY DEF Deliver, user
<1>2. /\ is_paused \in [Players -> BOOLEAN] /\ pending \in [Players -> SUBSET Signals]
      /\ (ToPause(p)' <=> ToPause(p))
  BY <1>1 DEF TypeOK, ToPause
<1>3. CASE p = q /\ s = "USR1"
  <2>1. is_paused'[p] <=> ~is_paused[p]
    BY <1>1, <1>2, <1>3
  <2>2. "USR1" \in pending[p] /\ "USR1" \notin pending'[p]
    BY <1>1, <1>2, <1>3
  <2> QED
    BY <1>2, <2>1, <2>2 DEF WillPause
<1>4. CASE ~(p = q /\ s = "USR1")
  <2>1. is_paused'[p] <=> is_paused[p]
    BY <1>1, <1>2, <1>4
  <2>2. "USR1" \in pending'[p] <=> "USR1" \in pending[p]
    BY <1>1, <1>2, <1>4
  <2> QED
    BY <1>2, <2>1, <2>2 DEF WillPause, SingleInv
<1> QED
  BY <1>3, <1>4

LEMMA PauseOthers ==
  ASSUME TypeOK, SingleInv, [Next]_vars, ~KeyboardKill, ~\E k \in Keys : Press(k),
         ~\E q \in Players, s \in Signals : Deliver(q, s),
         NEW p \in Players, Live(p)
  PROVE  /\ ToPause(p)' => "USR1" \notin pending'[p]
         /\ WillPause(p)' <=> WillPause(p)
<1>1. is_paused' = is_paused
  BY PauseCases
<1>2. /\ cmd' = cmd /\ todo' = todo
      /\ ("USR1" \in pending'[p]) <=> ("USR1" \in pending[p])
  <2>1. CASE \/ UNCHANGED <<fifo_id, reset, pending, cmd, todo, resets>>
             \/ KeyboardLookUp \/ ServerClear \/ \E q \in Players : Start(q)
    BY <2>1 DEF KeyboardLookUp, Start, ServerClear, flags, user
  <2>2. CASE \E q \in Interruptible : Interrupt(q)
    BY <2>2 DEF Interrupt, TypeOK, user
  <2> QED
    BY <2>1, <2>2, StepCases
<1> QED
  BY <1>1, <1>2 DEF WillPause, ToPause, SingleInv

\* Once the signals of the last key are handled, the server and the dynamics are
\* both paused or both running, if the keyboard found everybody and no key is
\* pressed before the signals of the one before it have been handled.
THEOREM PauseAgreementHolds ==
  ASSUME PromptSignals
  PROVE  Spec => []PauseAgreement
<1> DEFINE PauseInv == TodoInv /\ IdleInv /\ (AllFound => SingleInv /\ AgreeInv)
<1>1. Init => PauseInv
  BY ChannelNames
     DEF Init, TodoInv, IdleInv, AllFound, SingleInv, AgreeInv, WillPause, ToPause
<1>2. TypeOK /\ PauseInv /\ [Next]_vars => PauseInv'
  <2> SUFFICES ASSUME TypeOK, TodoInv, IdleInv, AllFound, SingleInv, AgreeInv, [Next]_vars
               PROVE  SingleInv' /\ AgreeInv'
    BY TodoStep, IdleStep, FoundBefore
  <2>1. CASE \E k \in Keys : Press(k)
    <3> PICK k \in Keys : Press(k)
      BY <2>1
    <3>1. SingleInv'
      BY PausePress, LiveStep DEF SingleInv, Players
    <3>2. AgreeInv'
      BY PausePress, LiveStep, ChannelNames DEF AgreeInv
    <3> QED
      BY <3>1, <3>2
  <2>2. CASE ~\E k \in Keys : Press(k)
    <3>1. ASSUME NEW p \in Players, Live(p)
          PROVE  /\ ToPause(p)' => "USR1" \notin pending'[p]
                 /\ WillPause(p)' <=> WillPause(p)
      BY <2>2, <3>1, PauseKill, PauseDeliver, PauseOthers
    <3>2. SingleInv'
      BY <3>1, LiveStep DEF SingleInv, Players
    <3>3. AgreeInv'
      BY <3>1, LiveStep, ChannelNames DEF AgreeInv
    <3> QED
      BY <3>2, <3>3
  <2> QED
    BY <2>1, <2>2
<1>3. TypeOK /\ PauseInv => PauseAgreement
  <2> SUFFICES ASSUME TypeOK, IdleInv, AgreeInv, pc["keyboard"] = "idle",
                      \A p \in {"server", "dynamics"} : Live(p) /\ pending[p] = {}
               PROVE  is_paused["server"] = is_paused["dynamics"]
    BY DEF PauseAgreement
  <2>1. ~ToPause("server") /\ ~ToPause("dynamics")
    BY DEF IdleInv, ToPause
  <2>2. is_paused["server"] <=> is_paused["dynamics"]
    BY <2>1 DEF AgreeInv, WillPause
  <2> QED
    BY <2>2, ChannelNames DEF TypeOK
<1> HIDE DEF PauseInv
<1> QED
  BY <1>1, <1>2, <1>3, TypeCorrect, PTL DEF Spec

(***************************************************************************)
(* SIGPIPE.                                                                *)
(***************************************************************************)
\* The player has only played and paused.
Calm == resets = 0 /\ \A p \in Players : ~stop[p]

\* Who has opened no FIFO towards its peer yet, or was ended before it could.
Closed == {"boot", "terminated", "openInput", "openKeys", "clear", "start",
           "openDynamics", "openRead", "openWrite"}

\* Whoever is past an open has a reader, and nobody is on its way out but those
\* ended by a signal before they had handlers, who have opened nothing.
OpenInv ==
  /\ \A p \in Players : pc[p] \notin {"exited", "killed", "stopping"}
  /\ \A c \in woken \ {"keys"} : rd[c] = 0
  /\ pc["server"] \notin Closed => rd["toDynamics"] = 0
  /\ pc["server"] \notin Closed \cup {"openWindow"} => rd["toWindow"] = 0
  /\ pc["dynamics"] \notin Closed => rd["fromDynamics"] = 0
  /\ \A g \in Generators : pc[g] \notin Closed => rd[g] = 0

CalmInv == Calm => OpenInv

\* Before the first 'r' no reset is on its way to anybody, whoever is signalled.
QuietInv ==
  resets = 0 =>
    /\ cmd # "reset"
    /\ \A p \in Players : fifo_id[p] = 0 /\ ~reset[p] /\ "USR2" \notin pending[p]

LEMMA QuietStep ==
  ASSUME TypeOK, QuietInv, [Next]_vars
  PROVE  QuietInv'
<1>0. /\ fifo_id \in [Players -> Nat] /\ reset \in [Players -> BOOLEAN]
      /\ pending \in [Players -> SUBSET Signals] /\ resets \in Nat
  BY DEF TypeOK
<1>1. CASE UNCHANGED <<fifo_id, reset, pending, cmd, todo, resets, missed>>
  BY <1>1 DEF QuietInv
<1>2. CASE KeyboardLookUp
  BY <1>2 DEF KeyboardLookUp, QuietInv, flags
<1>3. ASSUME NEW q \in Players, Start(q) PROVE QuietInv'
  BY <1>0, <1>3 DEF Start, QuietInv, user
<1>4. CASE ServerClear
  BY <1>0, <1>4 DEF ServerClear, QuietInv, user
<1>5. CASE KeyboardKill
  <2>1. /\ resets' = resets /\ cmd' = cmd /\ fifo_id' = fifo_id /\ reset' = reset
        /\ \A p \in Players : pending'[p] \in {pending[p], pending[p] \cup {SignalOf(cmd)}}
    BY <1>5 DEF KeyboardKill
  <2>2. cmd # "reset" => SignalOf(cmd) # "USR2"
    BY DEF SignalOf
  <2> QED
    BY <2>1, <2>2 DEF QuietInv
<1>6. ASSUME NEW k \in Keys, Press(k) PROVE QuietInv'
  BY <1>0, <1>6 DEF Press, QuietInv, flags
<1>7. ASSUME NEW q \in Players, NEW s \in Signals, Deliver(q, s) PROVE QuietInv'
  <2>1. /\ resets' = resets /\ cmd' = cmd /\ fifo_id' = fifo_id /\ s \in pending[q]
        /\ \A p \in Players : pending'[p] \subseteq pending[p]
        /\ \A p \in Players : reset'[p] => reset[p] \/ (p = q /\ s = "USR2")
    BY <1>0, <1>7 DEF Deliver, user
  <2> QED
    BY <2>1 DEF QuietInv
<1>8. ASSUME NEW q \in Interruptible, Interrupt(q) PROVE QuietInv'
  <2>1. /\ resets' = resets /\ cmd' = cmd /\ fifo_id' = fifo_id /\ reset' = reset
        /\ \A p \in Players : pending'[p] \in {pending[p], pending[p] \cup {"INT"}}
    BY <1>0, <1>8 DEF Interrupt, user
  <2> QED
    BY <2>1 DEF QuietInv
<1> QED
  BY <1>1, <1>2, <1>3, <1>4, <1>5, <1>6, <1>7, <1>8, StepCases

LEMMA CalmFacts ==
  ASSUME QuietInv, Calm, NEW p \in Players
  PROVE  fifo_id[p] = 0 /\ ~reset[p]
BY DEF QuietInv, Calm

\* Resets and stop requests are not taken back.
LEMMA CalmBefore ==
  ASSUME TypeOK, [Next]_vars, Calm'
  PROVE  Calm
<1> USE ChannelNames, GeneratorNames DEF flags, user
<1>1. CASE UNCHANGED vars
  BY <1>1 DEF vars, Calm, Players
<1>2. CASE ServerNext
  <2>1. stop' = stop /\ resets' = resets
    BY <1>2 DEF ServerNext, ServerOpenKeys, ServerOpenDynamics, Start, ServerClear,
     ServerOpenWindow, ServerFrame, ServerFrameBreaks, ServerSend, ServerWrite,
     ServerWriteBreaks, ServerDrain, BrokenPipe, End, Boot, Restart, NoReset, TestStop,
     Exit
  <2> QED
    BY <2>1 DEF Calm, Players
<1>3. CASE DynamicsNext \/ WindowNext
  <2>1. stop' = stop /\ resets' = resets
    BY <1>3 DEF DynamicsNext, DynamicsOpenRead, DynamicsOpenWrite, DynamicsIterate,
     DynamicsWrite, DynamicsWriteBreaks, WindowNext, WindowOpenRead, WindowRead,
     WindowLeave, BrokenPipe, End, Boot, Start, Restart, NoReset, TestStop, Exit
  <2> QED
    BY <2>1 DEF Calm, Players
<1>4. CASE \E g \in Generators : GeneratorOpenInput(g) \/ GeneratorNext(g)
  <2>1. stop' = stop /\ resets' = resets
    BY <1>4 DEF GeneratorOpenInput, GeneratorNext, GeneratorOpen, GeneratorSelect,
     GeneratorWrite, GeneratorWriteBreaks, BrokenPipe, End, TargetsStop,
     ObstaclesAgain, Boot, Start,
     Restart, NoReset, TestStop, Exit
  <2> QED
    BY <2>1 DEF Calm, Players
<1>5. CASE \/ KeyboardNext \/ InterruptKeyboard
           \/ \E p \in Interruptible : Interrupt(p)
           \/ \E q \in Players : Terminate(q)
  <2>1. stop' = stop /\ resets' = resets
    BY <1>5 DEF KeyboardNext, KeyboardLookUp, KeyboardOpen, KeyboardKill,
     KeyboardKilled, KeyboardExit, KeyboardWrite, KeyboardWriteBreaks, BrokenPipe, End,
     InterruptKeyboard, Interrupt,
     Terminate
  <2> QED
    BY <2>1 DEF Calm, Players
<1>6. CASE \E k \in Keys : Press(k)
  <2>1. stop' = stop /\ resets' \in {resets, resets + 1} /\ resets \in Nat
    BY <1>6 DEF Press, TypeOK
  <2> QED
    BY <2>1 DEF Calm, Players
<1>7. ASSUME NEW q \in Players, NEW s \in Signals, Deliver(q, s)
      PROVE  Calm
  <2>1. /\ stop' = [stop EXCEPT ![q] = @ \/ s = "INT"] /\ resets' = resets
        /\ stop \in [Players -> BOOLEAN]
    BY <1>7 DEF Deliver, TypeOK
  <2>2. \A p \in Players : stop[p] => stop'[p]
    BY <2>1
  <2> QED
    BY <2>1, <2>2 DEF Calm, Players
<1> QED
  BY <1>1, <1>2, <1>3, <1>4, <1>5, <1>6, <1>7 DEF Next

LEMMA CalmShared ==
  ASSUME TypeOK, QuietInv, Calm, OpenInv, NEW p \in Players,
         Boot(p) \/ Start(p) \/ Restart(p) \/ NoReset(p) \/ TestStop(p) \/ Exit(p)
  PROVE  OpenInv'
<1> USE ChannelNames, GeneratorNames DEF Goto, Closed
<1>5. CASE Boot(p)
  BY <1>5 DEF Boot, OpenInv, fifos, TypeOK, Players, Core
<1>0. pc \in [Processes -> Labels] /\ ~reset[p] /\ ~stop[p] /\ pc[p] # "stopping"
  BY CalmFacts DEF TypeOK, Calm, OpenInv
<1>1. CASE Start(p)
  BY <1>0, <1>1 DEF Start, FirstOpen, OpenInv, fifos, Players, Core
<1>2. CASE NoReset(p)
  BY <1>0, <1>2 DEF NoReset, OpenInv, fifos, Players, Core
<1>3. CASE TestStop(p)
  BY <1>0, <1>3 DEF TestStop, LoopHead, OpenInv, fifos, Players, Core
<1>4. CASE Restart(p) \/ Exit(p)
  BY <1>0, <1>4 DEF Restart, Exit
<1> QED
  BY <1>1, <1>2, <1>3, <1>4, <1>5

\* An open towards channel c returns because its reader is there.
LEMMA CalmServer ==
  ASSUME TypeOK, QuietInv, Calm, OpenInv, ServerNext
  PROVE  OpenInv'
<1> USE ChannelNames, GeneratorNames DEF Goto, Closed
<1>0. /\ pc \in [Processes -> Labels] /\ rd \in [Channels -> Int]
      /\ \A p \in Players : fifo_id[p] = 0
  BY CalmFacts DEF TypeOK
<1>1. CASE ServerOpenKeys
  <2>2. /\ \A c \in Channels : rd[c] = 0 => rd'[c] = 0
        /\ \A c \in woken' \ {"keys"} : rd'[c] = 0
    BY <1>0, <1>1 DEF ServerOpenKeys, OpenToRead, Suffix, OpenInv, TypeOK
  <2> QED
    BY <1>0, <1>1, <2>2 DEF ServerOpenKeys, OpenToRead, OpenInv, Players, Core
<1>2. CASE ServerClear
  BY <1>0, <1>2 DEF ServerClear, OpenInv, fifos, Players, Core
<1>3. CASE ServerOpenDynamics
  <2>1. rd["toDynamics"] = 0
    BY <1>0, <1>3 DEF ServerOpenDynamics, HasReader, Suffix, OpenInv
  <2>2. /\ \A c \in Channels : rd[c] = 0 => rd'[c] = 0
        /\ \A c \in woken' \ {"keys"} : rd'[c] = 0
    <3>1. rd' = [rd EXCEPT !["fromDynamics"] = 0]
      BY <1>0, <1>3 DEF ServerOpenDynamics, Suffix
    <3>2. \A c \in woken' : c \in woken \/ c = "fromDynamics"
      BY <1>3 DEF ServerOpenDynamics
    <3>3. woken \subseteq Channels /\ \A c \in woken \ {"keys"} : rd[c] = 0
      BY DEF OpenInv, TypeOK
    <3> QED
      BY <1>0, <3>1, <3>2, <3>3
  <2> QED
    BY <1>0, <1>3, <2>1, <2>2 DEF ServerOpenDynamics, OpenInv, Players, Core
<1>4. CASE ServerOpenWindow
  <2>1. rd["toWindow"] = 0
    BY <1>0, <1>4 DEF ServerOpenWindow, HasReader, Suffix, OpenInv
  <2>2. /\ \A c \in Channels : rd[c] = 0 => rd'[c] = 0
        /\ \A c \in woken' \ {"keys"} : rd'[c] = 0
    BY <1>0, <1>4 DEF ServerOpenWindow, Suffix, OpenInv, TypeOK
  <2> QED
    BY <1>0, <1>4, <2>1, <2>2 DEF ServerOpenWindow, OpenInv, Players, Core
<1>5. CASE ServerFrame \/ ServerSend \/ ServerWrite \/ ServerDrain
  <2>1. /\ rd' = rd /\ woken' = woken
        /\ pc["server"] \in {"frame", "send", "write", "drain"}
        /\ \E l \in {"send", "write", "drain", "testReset"} :
             pc' = [pc EXCEPT !["server"] = l]
    BY <1>5 DEF ServerFrame, ServerSend, ServerWrite, ServerDrain, fifos
  <2> QED
    BY <1>0, <2>1 DEF OpenInv, Players, Core
<1>6. CASE ServerFrameBreaks \/ ServerWriteBreaks
  BY <1>0, <1>6 DEF ServerFrameBreaks, ServerWriteBreaks, BrokenPipe, HasReader,
     Suffix, OpenInv
<1> QED
  BY <1>1, <1>2, <1>3, <1>4, <1>5, <1>6, CalmShared DEF ServerNext

LEMMA CalmClients ==
  ASSUME TypeOK, QuietInv, Calm, OpenInv,
         \/ DynamicsNext \/ WindowNext
         \/ \E g \in Generators : GeneratorOpenInput(g) \/ GeneratorNext(g)
  PROVE  OpenInv'
<1> USE ChannelNames, GeneratorNames DEF Goto, Closed
<1>0. /\ pc \in [Processes -> Labels] /\ rd \in [Channels -> Int]
      /\ \A p \in Players : fifo_id[p] = 0 /\ ~stop[p]
  BY CalmFacts DEF TypeOK, Calm
<1>1. CASE DynamicsNext
  <2>1. CASE DynamicsOpenRead
    <3>1. /\ \A c \in Channels : rd[c] = 0 => rd'[c] = 0
          /\ \A c \in woken' \ {"keys"} : rd'[c] = 0
      <4>1. \A c \in Channels : rd'[c] = IF c = "toDynamics" THEN 0 ELSE rd[c]
        BY <1>0, <2>1 DEF DynamicsOpenRead, OpenToRead, Suffix
      <4>2. \A c \in woken' : c \in woken \/ c = "toDynamics"
        BY <2>1 DEF DynamicsOpenRead, OpenToRead
      <4>3. woken \subseteq Channels /\ \A c \in woken \ {"keys"} : rd[c] = 0
        BY DEF OpenInv, TypeOK
      <4> QED
        BY <4>1, <4>2, <4>3
    <3> QED
      BY <1>0, <2>1, <3>1 DEF DynamicsOpenRead, OpenToRead, OpenInv, Players, Core
  <2>2. CASE DynamicsOpenWrite
    BY <1>0, <2>2 DEF DynamicsOpenWrite, OpenToWrite, HasReader, Suffix, OpenInv,
       Players, Core
  <2>3. CASE DynamicsIterate \/ DynamicsWrite
    BY <1>0, <2>3 DEF DynamicsIterate, DynamicsWrite, OpenInv, Players, Core
  <2>4. CASE DynamicsWriteBreaks
    BY <1>0, <2>4 DEF DynamicsWriteBreaks, BrokenPipe, HasReader, Suffix, OpenInv
  <2> QED
    BY <1>1, <2>1, <2>2, <2>3, <2>4, CalmShared DEF DynamicsNext
<1>2. CASE WindowNext
  <2>1. CASE WindowOpenRead
    <3>1. /\ \A c \in Channels : rd[c] = 0 => rd'[c] = 0
          /\ \A c \in woken' \ {"keys"} : rd'[c] = 0
      <4>1. \A c \in Channels : rd'[c] = IF c = "toWindow" THEN 0 ELSE rd[c]
        BY <1>0, <2>1 DEF WindowOpenRead, OpenToRead, Suffix
      <4>2. \A c \in woken' : c \in woken \/ c = "toWindow"
        BY <2>1 DEF WindowOpenRead, OpenToRead
      <4>3. woken \subseteq Channels /\ \A c \in woken \ {"keys"} : rd[c] = 0
        BY DEF OpenInv, TypeOK
      <4> QED
        BY <4>1, <4>2, <4>3
    <3> QED
      BY <1>0, <2>1, <3>1 DEF WindowOpenRead, OpenToRead, OpenInv, Players, Core
  <2>2. CASE WindowRead
    BY <1>0, <2>2 DEF WindowRead, OpenInv, Players, Core
  <2>3. CASE WindowLeave
    BY <1>0, <2>3 DEF WindowLeave
  <2> QED
    BY <1>2, <2>1, <2>2, <2>3, CalmShared DEF WindowNext
<1>3. ASSUME NEW g \in Generators, GeneratorOpenInput(g) \/ GeneratorNext(g)
      PROVE  OpenInv'
  <2>1. CASE GeneratorOpenInput(g) \/ GeneratorSelect(g) \/ GeneratorWrite(g)
    BY <1>0, <2>1 DEF GeneratorOpenInput, GeneratorSelect, GeneratorWrite, OpenInv, fifos,
       Players, Core
  <2>2. CASE GeneratorOpen(g)
    <3>1. /\ rd' = rd /\ woken' \subseteq woken
          /\ pc' = [pc EXCEPT ![g] = "testReset"]
          /\ HasReader(g) \/ g \in woken
      BY <2>2 DEF GeneratorOpen, OpenToWrite
    <3>2. rd[g] = 0
      BY <1>0, <3>1 DEF HasReader, Suffix, OpenInv
    <3>3. /\ \A p \in Players : pc'[p] = IF p = g THEN "testReset" ELSE pc[p]
          /\ pc'["server"] = pc["server"] /\ pc'["dynamics"] = pc["dynamics"]
      BY <1>0, <3>1
    <3>4. \A p \in Players : pc'[p] \notin {"exited", "killed", "stopping"}
      BY <3>3 DEF OpenInv
    <3>5. \A h \in Generators : pc'[h] \notin Closed => rd'[h] = 0
      BY <3>1, <3>2, <3>3 DEF OpenInv
    <3> QED
      BY <3>1, <3>3, <3>4, <3>5 DEF OpenInv
  <2>3. CASE GeneratorWriteBreaks(g)
    BY <1>0, <2>3 DEF GeneratorWriteBreaks, BrokenPipe, HasReader, Suffix, OpenInv
  <2>4. CASE g = "targets" /\ TargetsStop
    BY <1>0, <2>4 DEF TargetsStop
  <2>5. CASE g = "obstacles" /\ ObstaclesAgain
    BY <1>0, <2>5 DEF ObstaclesAgain, OpenInv, fifos, Players, Core
  <2> QED
    BY <1>3, <2>1, <2>2, <2>3, <2>4, <2>5, CalmShared DEF GeneratorNext
<1> QED
  BY <1>1, <1>2, <1>3

\* The keyboard reads no FIFO, so its end closes none to anybody else.
LEMMA CalmKeyboard ==
  ASSUME TypeOK, OpenInv,
         \/ KeyboardNext \/ InterruptKeyboard \/ \E k \in Keys : Press(k)
         \/ \E q \in Players, s \in Signals : Deliver(q, s)
         \/ \E q \in Interruptible : Interrupt(q)
  PROVE  OpenInv'
<1> USE ChannelNames, GeneratorNames DEF Goto, Closed
<1>0. /\ pc \in [Processes -> Labels] /\ rd \in [Channels -> Int]
      /\ ReadBy("keyboard") = {} /\ \A p \in Players : p # "keyboard"
  BY DEF TypeOK, ReadBy, Reader, Players
<1>1. CASE \/ KeyboardLookUp \/ KeyboardOpen \/ KeyboardKill \/ KeyboardKilled
           \/ KeyboardWrite
           \/ \E k \in Keys : Press(k)
  <2>1. /\ \A p \in Players : pc'[p] = pc[p]
        /\ rd' = rd /\ woken' \subseteq woken
    BY <1>0, <1>1 DEF KeyboardLookUp, KeyboardOpen, OpenToWrite, KeyboardKill,
     KeyboardKilled,
       KeyboardWrite, Press, fifos
  <2> QED
    BY <2>1 DEF OpenInv, Players, Core
<1>2. CASE KeyboardExit \/ KeyboardWriteBreaks \/ InterruptKeyboard
  <2>1. End("keyboard", "exited") \/ End("keyboard", "killed")
    BY <1>2 DEF KeyboardExit, KeyboardWriteBreaks, InterruptKeyboard, BrokenPipe
  <2>2. /\ \A p \in Players : pc'[p] = pc[p]
        /\ \A c \in Channels : rd'[c] = rd[c]
        /\ woken' = woken
    BY <1>0, <2>1 DEF End, CloseReading
  <2>3. \A p \in Players : pc'[p] \notin {"exited", "killed", "stopping"}
    BY <2>2 DEF OpenInv
  <2>4. \A c \in woken' \ {"keys"} : rd'[c] = 0
    BY <2>2 DEF OpenInv, TypeOK
  <2>5. \A g \in Generators : pc'[g] \notin Closed => rd'[g] = 0
    BY <2>2 DEF OpenInv
  <2> QED
    BY <2>2, <2>3, <2>4, <2>5 DEF OpenInv
<1>3. CASE \/ \E q \in Players, s \in Signals : Deliver(q, s)
           \/ \E q \in Interruptible : Interrupt(q)
  BY <1>3 DEF Deliver, Interrupt, OpenInv, fifos, Players, Core
<1> QED
  BY <1>1, <1>2, <1>3 DEF KeyboardNext

\* Who is ended by a signal it had no handler for had opened nothing to read;
\* only the targets generator may have opened something, and it reads no FIFO.
LEMMA CalmTerminate ==
  ASSUME IInv, OpenInv, NEW q \in Players, Terminate(q)
  PROVE  OpenInv'
<1> USE ChannelNames, GeneratorNames DEF Closed
<1>1. /\ pc \in [Processes -> Labels] /\ pc' = [pc EXCEPT ![q] = "terminated"]
      /\ woken' = woken
      /\ rd' = [c \in Channels |-> IF Reader(c) = q THEN -1 ELSE rd[c]]
  BY DEF IInv, TypeOK, Terminate, End, Goto, CloseReading, ReadBy
<1>2. pc[q] = "boot" \/ q = "targets"
  BY DEF Terminate, Unhandled
<1>3. \A c \in Channels \ {"keys"} : Reader(c) = q => rd[c] = -1
  <2> SUFFICES ASSUME NEW c \in Channels \ {"keys"}, Reader(c) = q
               PROVE  rd[c] = -1
    OBVIOUS
  <2>1. q # "targets" /\ pc[q] = "boot"
    BY <1>2, GeneratorsAssumption DEF Reader
  <2>2. c \in {"toDynamics", "fromDynamics", "toWindow"} \cup Generators
    BY DEF Channels
  <2> QED
    BY <2>1, <2>2 DEF IInv, FlowInv, ClosedInv
<1>4. \A c \in Channels \ {"keys"} : rd'[c] = rd[c]
  BY <1>1, <1>3
<1>5. woken \subseteq Channels
  BY DEF IInv, TypeOK
<1> QED
  BY <1>1, <1>4, <1>5 DEF OpenInv

\* No FIFO is broken while the player only plays and pauses, whomever the keyboard has
\* found: SIGPIPE strikes only after a reset or a request to stop.
THEOREM KilledOnlyHolds == Spec => []KilledOnlyByRestartOrStop
<1>1. Init => QuietInv /\ CalmInv
  <2> SUFFICES ASSUME Init PROVE QuietInv /\ OpenInv
    BY DEF CalmInv
  <2>1. woken = {} /\ \A p \in Players : pc[p] = "boot"
    BY ChannelNames DEF Init
  <2>2. OpenInv
    BY <2>1, ChannelNames, GeneratorNames DEF OpenInv, Closed
  <2>3. QuietInv
    BY DEF Init, QuietInv
  <2> QED
    BY <2>2, <2>3
<1>2. IInv /\ QuietInv /\ CalmInv /\ [Next]_vars => QuietInv' /\ CalmInv'
  <2> SUFFICES ASSUME IInv, QuietInv, CalmInv, [Next]_vars, Calm'
               PROVE  OpenInv'
    BY QuietStep DEF IInv, CalmInv
  <2>1. TypeOK /\ QuietInv /\ Calm /\ OpenInv
    BY CalmBefore DEF IInv, CalmInv
  <2>2. CASE UNCHANGED vars
    BY <2>1, <2>2 DEF vars, fifos, OpenInv, Players, Core
  <2>3. CASE \E q \in Players : Terminate(q)
    BY <2>1, <2>3, CalmTerminate
  <2> QED
    BY <2>1, <2>2, <2>3, CalmServer, CalmClients, CalmKeyboard DEF Next
<1>3. TypeOK /\ CalmInv => KilledOnlyByRestartOrStop
  <2> SUFFICES ASSUME TypeOK, CalmInv, NEW p \in Players, pc[p] = "killed"
               PROVE  resets > 0 \/ \E q \in Players : stop[q]
    BY DEF KilledOnlyByRestartOrStop
  <2>1. ~Calm
    BY DEF CalmInv, OpenInv
  <2> QED
    BY <2>1 DEF Calm, TypeOK
<1>4. IInv => TypeOK
  BY DEF IInv
<1> QED
  BY <1>1, <1>2, <1>3, <1>4, Inductive, PTL DEF Spec
=============================================================================
