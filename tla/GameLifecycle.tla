--------------------------- MODULE GameLifecycle ---------------------------
(***************************************************************************)
(* The control plane of the game in subscriber mode: how the processes     *)
(* rendezvous on named FIFOs at startup, run, pause, restart and quit.     *)
(* Every process keeps a fifo_id, the suffix of the FIFO names it opens;   *)
(* a reset closes the FIFOs, increments fifo_id and opens the next set.    *)
(* KeyboardManager drives the others with signals, whose handlers only set *)
(* the flags reset, stop and is_paused, which each process tests at its    *)
(* own places.  What the messages say is left to the module Blackboard:    *)
(* here a FIFO is the number of messages in it.                            *)
(*                                                                         *)
(* The game always runs both generators.  Nothing the others do depends on *)
(* them (the server reads their FIFOs without waiting), so an instance may *)
(* leave one out: it shows every behaviour of the rest.                    *)
(*                                                                         *)
(* The C library and the kernel are modelled from how the code uses them:  *)
(* opening a FIFO for writing blocks until there is a reader, for reading  *)
(* (O_NONBLOCK) it does not; a write to a FIFO nobody reads raises SIGPIPE, *)
(* which no process handles; a message is smaller than PIPE_BUF, so it is  *)
(* written whole or not at all; a signal that is already pending is not    *)
(* queued twice, and one without a handler ends the process; kill() with   *)
(* the process id -1 signals every process there is.                       *)
(***************************************************************************)
EXTENDS Integers, Sequences

CONSTANTS
  Generators,     \* the generators modelled: a subset of {"targets", "obstacles"}
  PipeCap,        \* messages that fit in a FIFO of states, targets or obstacles
  KeyCap,         \* messages that fit in the keyboard's FIFO
  MaxResets,      \* bound: how often the player presses 'r'
  MaxPauses,      \* bound: how often the player presses 'p'
  Keys,           \* the keys the player uses: of "none", "pause", "reset", "stop"
  Interruptible,  \* the processes whose terminal may receive Ctrl-C
  Late,           \* the players that the keyboard may look for before they run
  PromptSignals,  \* signals are handled before the next key (10 ms later)
  PacedKeys       \* 'r', 'p' and 'o' are only pressed when the whole game is up

AllKeys == {"none", "pause", "reset", "stop"}
AllGenerators == {"targets", "obstacles"}
Core == {"server", "dynamics", "window"}
Players == Core \cup Generators          \* the processes that handle signals
Processes == Players \cup {"keyboard"}

ASSUME GeneratorsAssumption == Generators \subseteq AllGenerators
ASSUME BoundsAssumption ==
  /\ PipeCap \in Nat \ {0} /\ KeyCap \in Nat \ {0}
  /\ MaxResets \in Nat /\ MaxPauses \in Nat
  /\ Keys \subseteq AllKeys
  /\ PromptSignals \in BOOLEAN /\ PacedKeys \in BOOLEAN
  /\ Interruptible \subseteq Processes
  /\ Late \subseteq Core \cup AllGenerators

(***************************************************************************)
(* The FIFOs.  A generator's FIFO to the server bears the generator's name. *)
(***************************************************************************)
Channels == {"toDynamics", "fromDynamics", "toWindow", "keys"} \cup Generators

Reader(c) == IF c = "toDynamics" THEN "dynamics"
             ELSE IF c = "toWindow" THEN "window" ELSE "server"

Writer(c) == IF c \in {"toDynamics", "toWindow"} THEN "server"
             ELSE IF c = "fromDynamics" THEN "dynamics"
             ELSE IF c = "keys" THEN "keyboard" ELSE c

Capacity(c) == IF c = "keys" THEN KeyCap ELSE PipeCap

Signals == {"USR1", "USR2", "INT"}
Labels == {"boot", "openInput", "openKeys", "clear", "start", "openDynamics",
           "openWindow", "frame", "send", "write", "drain", "testReset",
           "testStop", "openRead", "openWrite", "iterate", "read", "select",
           "sent", "lookUp", "idle", "kill", "stopping", "exited",
           "killed",        \* by SIGPIPE
           "terminated"}    \* by a signal it has no handler for

\* Mutants of Kills: 'p' reaches only the server; 'r' misses the targets.
KillsPauseServerOnly(k) ==
  IF k = "pause" THEN <<"server">>
  ELSE IF k = "reset" THEN <<"server", "dynamics", "obstacles", "targets", "window">>
  ELSE IF k = "stop" THEN <<"server", "dynamics", "obstacles", "window">>
  ELSE <<>>
KillsResetMissesTargets(k) ==
  IF k = "pause" THEN <<"server", "dynamics">>
  ELSE IF k = "reset" THEN <<"server", "dynamics", "obstacles", "window">>
  ELSE IF k = "stop" THEN <<"server", "dynamics", "obstacles", "window">>
  ELSE <<>>

\* The processes a key makes the keyboard signal, in order.  The line of 'o'
\* for the targets is commented out in the code.
Kills(k) ==
  IF k = "pause" THEN <<"server", "dynamics">>
  ELSE IF k = "reset" THEN <<"server", "dynamics", "obstacles", "targets", "window">>
  ELSE IF k = "stop" THEN <<"server", "dynamics", "obstacles", "window">>
  ELSE <<>>

\* Mutant of SignalOf: the signals of 'p' and 'r' are swapped.
SignalOfSwapped(k) ==
  IF k = "pause" THEN "USR2" ELSE IF k = "reset" THEN "USR1" ELSE "INT"

SignalOf(k) == IF k = "pause" THEN "USR1" ELSE IF k = "reset" THEN "USR2" ELSE "INT"

VARIABLES
  pc,         \* where each process is
  fifo_id,    \* the suffix of the FIFOs a player opens
  reset, stop, is_paused,   \* the flags of sig_handle.c, one set per player
  pending,    \* signals sent to a player and not yet delivered
  rd,         \* for each channel the fifo_id its reader holds open, -1 if closed
  buf,        \* for each channel the messages in the FIFO its reader holds
  woken,      \* channels whose writer, asleep in open(), a reader has woken
  ready,      \* the channels of the dynamics found ready by the server's select
  fdset,      \* the generators whose fd_set still holds the descriptor
  cmd, todo,  \* the key being served and the processes still to be signalled
  resets, pauses,  \* how often 'r' and 'p' were pressed
  missed      \* the players whose process id the keyboard has as -1

flags == <<reset, stop, is_paused, pending>>
fifos == <<rd, buf, woken>>
user  == <<cmd, todo, resets, pauses, missed>>
vars  == <<pc, fifo_id, flags, fifos, ready, fdset, user>>

Live(p) == pc[p] \notin {"exited", "killed", "terminated"}
Goto(p, l) == pc' = [pc EXCEPT ![p] = l]

(***************************************************************************)
(* FIFO operations.                                                        *)
(***************************************************************************)
\* Mutant of Suffix: the generators' FIFOs are not rotated either.
SuffixOfCoreOnly(c, p) == IF c \in {"keys"} \cup Generators THEN 0 ELSE fifo_id[p]

\* The suffix of the FIFO process p uses for channel c: the keyboard's FIFO
\* is opened once, as number 0, and never rotated.
Suffix(c, p) == IF c = "keys" THEN 0 ELSE fifo_id[p]

\* Mutant of HasRoom: one message too many.
HasRoomForOneMore(c) == buf[c] <= Capacity(c)

HasReader(c) == rd[c] = Suffix(c, Writer(c))
HasRoom(c) == buf[c] < Capacity(c)

\* Where a process waits for the reader of channel c.
OpenLabel(c) == IF c = "toDynamics" THEN "openDynamics"
                ELSE IF c = "toWindow" THEN "openWindow"
                ELSE IF c = "keys" THEN "openKeys" ELSE "openWrite"

Waiting(c) == /\ pc[Writer(c)] = OpenLabel(c)
              /\ Suffix(c, Writer(c)) = Suffix(c, Reader(c))

\* open(..., O_RDONLY | O_NONBLOCK) of the channels S.  A writer that is
\* asleep in open() is woken, even if the reader closes again before it runs;
\* one that has not called open() yet is not.
OpenToRead(S) ==
  /\ rd' = [c \in Channels |-> IF c \in S THEN Suffix(c, Reader(c)) ELSE rd[c]]
  /\ \E W \in SUBSET {c \in S : Waiting(c)} : woken' = woken \cup W
  /\ UNCHANGED buf

\* open(..., O_WRONLY) returns once there is, or was meanwhile, a reader.
OpenToWrite(c) ==
  /\ HasReader(c) \/ c \in woken
  /\ woken' = woken \ {c}
  /\ UNCHANGED <<rd, buf>>

\* The channels S lose their reader, and what was in them is never read: no
\* process opens a FIFO of a past fifo_id again.
CloseReading(S) ==
  /\ rd' = [c \in Channels |-> IF c \in S THEN -1 ELSE rd[c]]
  /\ buf' = [c \in Channels |-> IF c \in S THEN 0 ELSE buf[c]]
  /\ UNCHANGED woken

ReadBy(p) == {c \in Channels : Reader(c) = p}

\* Process p ends, by exit or by a signal, and the kernel closes its files.
End(p, how) ==
  /\ Goto(p, how)
  /\ CloseReading(ReadBy(p))
  /\ UNCHANGED <<fifo_id, flags, ready, fdset, user>>

\* A write() to a FIFO without a reader: SIGPIPE.
BrokenPipe(p, c) == ~HasReader(c) /\ End(p, "killed")

(***************************************************************************)
(* What the players share: the label start, the two tests at the end of    *)
(* the loop, and the handlers of sig_handle.c.                             *)
(***************************************************************************)
\* A player at "boot" does not run yet, or has not installed its handlers;
\* here it has.  A generator opens the FIFO of its subscriber next.
Boot(p) ==
  /\ pc[p] = "boot"
  /\ Goto(p, IF p = "server" THEN "openKeys"
             ELSE IF p \in Generators THEN "openInput" ELSE "start")
  /\ UNCHANGED <<fifo_id, flags, fifos, ready, fdset, user>>

FirstOpen(p) == IF p = "server" THEN "openDynamics"
                ELSE IF p \in Generators THEN "openWrite" ELSE "openRead"

LoopHead(p) == IF p = "server" THEN "frame"
               ELSE IF p = "dynamics" THEN "iterate"
               ELSE IF p = "window" THEN "read" ELSE "select"

\* Mutant of Start: the flag is not cleared.
StartKeepsFlag(p) ==
  /\ pc[p] = "start"
  /\ Goto(p, FirstOpen(p))
  /\ fifo_id' = IF reset[p] THEN [fifo_id EXCEPT ![p] = @ + 1] ELSE fifo_id
  /\ UNCHANGED <<flags, fifos, ready, fdset, user>>

\* label start: a reset that was seen takes the next fifo_id and clears the
\* flag, with it any reset signal that arrived since the flag was tested.
Start(p) ==
  /\ pc[p] = "start"
  /\ Goto(p, FirstOpen(p))
  /\ fifo_id' = IF reset[p] THEN [fifo_id EXCEPT ![p] = @ + 1] ELSE fifo_id
  /\ reset' = [reset EXCEPT ![p] = FALSE]
  /\ UNCHANGED <<stop, is_paused, pending, fifos, ready, fdset, user>>

\* if (reset) { close the FIFOs; goto start; }  The server keeps the keyboard's.
Restart(p) ==
  /\ pc[p] \in {"testReset", "sent"}
  /\ reset[p]
  /\ Goto(p, "start")
  /\ CloseReading(ReadBy(p) \ {"keys"})
  /\ UNCHANGED <<fifo_id, flags, ready, fdset, user>>

NoReset(p) ==
  /\ pc[p] = "testReset"
  /\ ~reset[p]
  /\ Goto(p, "testStop")
  /\ UNCHANGED <<fifo_id, flags, fifos, ready, fdset, user>>

\* if (stop) ...  The obstacle generator only leaves its inner loop, with
\* whatever obstacles it last had, and sends them.
TestStop(p) ==
  /\ pc[p] = "testStop"
  /\ Goto(p, IF ~stop[p] THEN LoopHead(p)
             ELSE IF p = "obstacles" THEN "write" ELSE "stopping")
  /\ UNCHANGED <<fifo_id, flags, fifos, ready, fdset, user>>

\* The second of sleep before exit, with the FIFOs still open, is over.
Exit(p) == pc[p] = "stopping" /\ End(p, "exited")

\* The targets generator has no handler for SIGUSR1.
Unhandled(p, s) == pc[p] = "boot" \/ (p = "targets" /\ s = "USR1")

\* A handler runs, whatever the player is doing: also asleep in open().
Deliver(p, s) ==
  /\ Live(p) /\ s \in pending[p] /\ ~Unhandled(p, s)
  /\ pending' = [pending EXCEPT ![p] = @ \ {s}]
  /\ is_paused' = [is_paused EXCEPT ![p] = IF s = "USR1" THEN ~@ ELSE @]
  /\ reset' = [reset EXCEPT ![p] = @ \/ s = "USR2"]
  /\ stop' = [stop EXCEPT ![p] = @ \/ s = "INT"]
  /\ UNCHANGED <<pc, fifo_id, fifos, ready, fdset, user>>

\* A signal without a handler ends the player.
Terminate(p) ==
  /\ Live(p) /\ \E s \in pending[p] : Unhandled(p, s)
  /\ End(p, "terminated")

(***************************************************************************)
(* BlackBoardServer.                                                       *)
(***************************************************************************)
ServerOpenKeys ==
  /\ pc["server"] = "openKeys"
  /\ Goto("server", "clear")
  /\ OpenToRead({"keys"})
  /\ UNCHANGED <<fifo_id, flags, ready, fdset, user>>

\* reset = false, before the label start: the keyboard may already be up.
ServerClear ==
  /\ pc["server"] = "clear"
  /\ Goto("server", "start")
  /\ reset' = [reset EXCEPT !["server"] = FALSE]
  /\ UNCHANGED <<fifo_id, stop, is_paused, pending, fifos, ready, fdset, user>>

\* Mutant of ServerOpenDynamics: an open that does not wait (O_RDWR).
ServerOpenDynamicsAtOnce ==
  /\ pc["server"] = "openDynamics"
  /\ Goto("server", "openWindow")
  /\ rd' = [rd EXCEPT !["fromDynamics"] = Suffix("fromDynamics", "server")]
  /\ \E W \in SUBSET {c \in {"fromDynamics"} : Waiting(c)} :
       woken' = (woken \ {"toDynamics"}) \cup W
  /\ UNCHANGED <<fifo_id, flags, buf, ready, fdset, user>>

\* The blocking open towards the dynamics, then at once the one from it; the
\* two are one step, for nothing can be told apart between them.
ServerOpenDynamics ==
  /\ pc["server"] = "openDynamics"
  /\ HasReader("toDynamics") \/ "toDynamics" \in woken
  /\ Goto("server", "openWindow")
  /\ rd' = [rd EXCEPT !["fromDynamics"] = Suffix("fromDynamics", "server")]
  /\ \E W \in SUBSET {c \in {"fromDynamics"} : Waiting(c)} :
       woken' = (woken \ {"toDynamics"}) \cup W
  /\ UNCHANGED <<fifo_id, flags, buf, ready, fdset, user>>

\* The blocking open towards the window, then the generators' FIFOs.
ServerOpenWindow ==
  /\ pc["server"] = "openWindow"
  /\ HasReader("toWindow") \/ "toWindow" \in woken
  /\ Goto("server", "frame")
  /\ rd' = [c \in Channels |-> IF c \in Generators THEN Suffix(c, "server") ELSE rd[c]]
  /\ \E W \in SUBSET {c \in Generators : Waiting(c)} :
       woken' = (woken \ {"toWindow"}) \cup W
  /\ UNCHANGED <<fifo_id, flags, buf, ready, fdset, user>>

\* A frame up to the write to the window: select, one message from the
\* keyboard and from each generator that has one, and the state to the window
\* if its FIFO is writable.  A FIFO without a reader counts as writable.
\* Messages of the keyboard never carry quit, for it clears quit before it
\* writes, or exits: the branch at input.quit is never taken.
ServerFrame ==
  /\ pc["server"] = "frame" /\ ~is_paused["server"]
  /\ HasReader("toWindow")
  /\ Goto("server", "send")
  /\ ready' = {c \in {"toDynamics"} : HasRoom(c) \/ ~HasReader(c)}
                \cup {c \in {"fromDynamics"} : buf[c] > 0}
  /\ buf' = [c \in Channels |->
               IF c \in {"keys"} \cup Generators /\ buf[c] > 0 THEN buf[c] - 1
               ELSE IF c = "toWindow" /\ HasRoom(c) THEN buf[c] + 1
               ELSE buf[c]]
  /\ UNCHANGED <<fifo_id, flags, rd, woken, fdset, user>>

ServerFrameBreaks ==
  /\ pc["server"] = "frame" /\ ~is_paused["server"]
  /\ BrokenPipe("server", "toWindow")

\* Mutant of ServerSend: the result of select is not looked at.
ServerSendUnchecked ==
  /\ pc["server"] = "send"
  /\ \/ ~reset["server"] /\ Goto("server", "write")
     \/ Goto("server", "drain")
  /\ UNCHANGED <<fifo_id, flags, fifos, ready, fdset, user>>

\* New forces or new obstacles are sent to the dynamics only if select found
\* its FIFO writable and reset is not set at this moment.
ServerSend ==
  /\ pc["server"] = "send"
  /\ \/ "toDynamics" \in ready /\ ~reset["server"] /\ Goto("server", "write")
     \/ Goto("server", "drain")
  /\ UNCHANGED <<fifo_id, flags, fifos, ready, fdset, user>>

ServerWrite ==
  /\ pc["server"] = "write"
  /\ HasReader("toDynamics") /\ HasRoom("toDynamics")
  /\ Goto("server", "drain")
  /\ buf' = [buf EXCEPT !["toDynamics"] = @ + 1]
  /\ UNCHANGED <<fifo_id, flags, rd, woken, ready, fdset, user>>

ServerWriteBreaks ==
  pc["server"] = "write" /\ BrokenPipe("server", "toDynamics")

\* The state sent back by the dynamics, if select had found one.
ServerDrain ==
  /\ pc["server"] = "drain"
  /\ Goto("server", "testReset")
  /\ buf' = [buf EXCEPT !["fromDynamics"] = IF "fromDynamics" \in ready THEN @ - 1 ELSE @]
  /\ ready' = {}
  /\ UNCHANGED <<fifo_id, flags, rd, woken, fdset, user>>

ServerNext ==
  \/ Boot("server") \/ ServerOpenKeys \/ ServerClear \/ Start("server")
  \/ ServerOpenDynamics \/ ServerOpenWindow
  \/ ServerFrame \/ ServerFrameBreaks \/ ServerSend
  \/ ServerWrite \/ ServerWriteBreaks \/ ServerDrain
  \/ Restart("server") \/ NoReset("server") \/ TestStop("server") \/ Exit("server")

(***************************************************************************)
(* DroneDynamicsManager.                                                   *)
(***************************************************************************)
DynamicsOpenRead ==
  /\ pc["dynamics"] = "openRead"
  /\ Goto("dynamics", "openWrite")
  /\ OpenToRead({"toDynamics"})
  /\ UNCHANGED <<fifo_id, flags, ready, fdset, user>>

\* Mutant of DynamicsOpenWrite: a reset signal interrupts the open, and the
\* dynamics restarts.
DynamicsOpenWriteInterrupted ==
  /\ pc["dynamics"] = "openWrite"
  /\ \/ OpenToWrite("fromDynamics") /\ Goto("dynamics", "iterate")
     \/ reset["dynamics"] /\ CloseReading({"toDynamics"}) /\ Goto("dynamics", "start")
  /\ UNCHANGED <<fifo_id, flags, ready, fdset, user>>

DynamicsOpenWrite ==
  /\ pc["dynamics"] = "openWrite"
  /\ OpenToWrite("fromDynamics")
  /\ Goto("dynamics", "iterate")
  /\ UNCHANGED <<fifo_id, flags, ready, fdset, user>>

\* An iteration up to the write: take a state if there is one, and move.
DynamicsIterate ==
  /\ pc["dynamics"] = "iterate" /\ ~is_paused["dynamics"]
  /\ Goto("dynamics", "write")
  /\ buf' = [buf EXCEPT !["toDynamics"] = IF @ > 0 THEN @ - 1 ELSE @]
  /\ UNCHANGED <<fifo_id, flags, rd, woken, ready, fdset, user>>

\* The write blocks while the FIFO is full.
DynamicsWrite ==
  /\ pc["dynamics"] = "write"
  /\ HasReader("fromDynamics") /\ HasRoom("fromDynamics")
  /\ Goto("dynamics", "testReset")
  /\ buf' = [buf EXCEPT !["fromDynamics"] = @ + 1]
  /\ UNCHANGED <<fifo_id, flags, rd, woken, ready, fdset, user>>

DynamicsWriteBreaks ==
  pc["dynamics"] = "write" /\ BrokenPipe("dynamics", "fromDynamics")

DynamicsNext ==
  \/ Boot("dynamics") \/ Start("dynamics") \/ DynamicsOpenRead \/ DynamicsOpenWrite
  \/ DynamicsIterate \/ DynamicsWrite \/ DynamicsWriteBreaks
  \/ Restart("dynamics") \/ NoReset("dynamics") \/ TestStop("dynamics")
  \/ Exit("dynamics")

(***************************************************************************)
(* GameWindow.  A read that does not return a whole state goes back to the *)
(* loop head, past the tests of reset: it changes nothing.                 *)
(***************************************************************************)
WindowOpenRead ==
  /\ pc["window"] = "openRead"
  /\ Goto("window", "read")
  /\ OpenToRead({"toWindow"})
  /\ UNCHANGED <<fifo_id, flags, ready, fdset, user>>

\* Mutant of WindowRead: a failed read goes on to the tests of reset and stop.
WindowReadOrFail ==
  /\ pc["window"] = "read" /\ ~stop["window"] /\ ~is_paused["window"]
  /\ Goto("window", "testReset")
  /\ buf' = [buf EXCEPT !["toWindow"] = IF @ > 0 THEN @ - 1 ELSE 0]
  /\ UNCHANGED <<fifo_id, flags, rd, woken, ready, fdset, user>>

WindowRead ==
  /\ pc["window"] = "read" /\ ~stop["window"] /\ ~is_paused["window"]
  /\ buf["toWindow"] > 0
  /\ Goto("window", "testReset")
  /\ buf' = [buf EXCEPT !["toWindow"] = @ - 1]
  /\ UNCHANGED <<fifo_id, flags, rd, woken, ready, fdset, user>>

\* while (!stop): the loop ends without a sleep.
WindowLeave == pc["window"] = "read" /\ stop["window"] /\ End("window", "exited")

WindowNext ==
  \/ Boot("window") \/ Start("window") \/ WindowOpenRead \/ WindowRead \/ WindowLeave
  \/ Restart("window") \/ NoReset("window") \/ TestStop("window")
  \/ Exit("window")

(***************************************************************************)
(* Targets_Generator and Obstacle_Generator in subscriber mode.            *)
(***************************************************************************)
\* The blocking open of the input FIFO returns when the DDS subscriber opens
\* its end (external).
GeneratorOpenInput(g) ==
  /\ pc[g] = "openInput"
  /\ Goto(g, "start")
  /\ UNCHANGED <<fifo_id, flags, fifos, ready, fdset, user>>

\* The blocking open towards the server; FD_SET is called once, here.
GeneratorOpen(g) ==
  /\ pc[g] = "openWrite"
  /\ OpenToWrite(g)
  /\ Goto(g, "testReset")
  /\ fdset' = fdset \cup {g}
  /\ UNCHANGED <<fifo_id, flags, ready, user>>

\* select() and FD_ISSET.  A select that finds nothing clears the descriptor
\* from the set, and nothing puts it back before the next reset.
GeneratorSelect(g) ==
  /\ pc[g] = "select"
  /\ \/ g \in fdset /\ Goto(g, "write") /\ UNCHANGED fdset
     \/ fdset' = fdset \ {g} /\ Goto(g, "testReset")
  /\ UNCHANGED <<fifo_id, flags, fifos, ready, user>>

GeneratorWrite(g) ==
  /\ pc[g] = "write"
  /\ HasReader(g) /\ HasRoom(g)
  /\ Goto(g, "sent")
  /\ buf' = [buf EXCEPT ![g] = @ + 1]
  /\ UNCHANGED <<fifo_id, flags, rd, woken, ready, fdset, user>>

\* Mutant of GeneratorWriteBreaks: SIGPIPE is ignored, the write only fails.
GeneratorWriteFails(g) ==
  /\ pc[g] = "write" /\ ~HasReader(g)
  /\ Goto(g, "sent")
  /\ UNCHANGED <<fifo_id, flags, fifos, ready, fdset, user>>

GeneratorWriteBreaks(g) == pc[g] = "write" /\ BrokenPipe(g, g)

\* The targets are sent once: then only reset or stop is awaited.
TargetsStop ==
  /\ pc["targets"] = "sent" /\ ~reset["targets"] /\ stop["targets"]
  /\ Goto("targets", "stopping")
  /\ UNCHANGED <<fifo_id, flags, fifos, ready, fdset, user>>

\* The obstacle generator waits ten seconds, and goes round again.
ObstaclesAgain ==
  /\ pc["obstacles"] = "sent" /\ ~reset["obstacles"]
  /\ Goto("obstacles", "testReset")
  /\ UNCHANGED <<fifo_id, flags, fifos, ready, fdset, user>>

GeneratorNext(g) ==
  \/ Boot(g) \/ Start(g) \/ GeneratorOpen(g) \/ GeneratorSelect(g)
  \/ GeneratorWrite(g) \/ GeneratorWriteBreaks(g)
  \/ g = "targets" /\ TargetsStop
  \/ g = "obstacles" /\ ObstaclesAgain
  \/ Restart(g) \/ NoReset(g) \/ TestStop(g) \/ Exit(g)

(***************************************************************************)
(* KeyboardManager.                                                        *)
(***************************************************************************)
\* The ids of the players are looked up once, with pidof; one that does not
\* run, not yet or no more, has the id -1 from then on.  (The five look-ups are
\* one step, at the first: who is found may be at "boot" as well.)
KeyboardLookUp ==
  /\ pc["keyboard"] = "lookUp"
  /\ Goto("keyboard", "openKeys")
  /\ \E S \in SUBSET {p \in Late : p \in Players => pc[p] = "boot"} :
       missed' = S \cup {p \in Players : ~Live(p)}
  /\ UNCHANGED <<fifo_id, flags, fifos, ready, fdset, cmd, todo, resets, pauses>>

KeyboardOpen ==
  /\ pc["keyboard"] = "openKeys"
  /\ OpenToWrite("keys")
  /\ Goto("keyboard", "idle")
  /\ UNCHANGED <<fifo_id, flags, ready, fdset, user>>

Handled(p) == Live(p) => pending[p] = {}

\* Everybody alive is past the rendezvous and owes no reset.
AllUp == \A p \in Players : Live(p) =>
           /\ pc[p] \notin {"boot", "openInput", "openKeys", "clear", "start",
                            "openDynamics", "openWindow", "openRead", "openWrite"}
           /\ ~reset[p] /\ pending[p] = {}

\* getch() does not block: with no key the forces are simply sent again.
Press(k) ==
  /\ pc["keyboard"] = "idle"
  /\ PromptSignals => \A p \in Players : Handled(p)
  /\ PacedKeys /\ k # "none" => AllUp
  /\ k = "reset" => resets < MaxResets
  /\ k = "pause" => pauses < MaxPauses
  /\ cmd' = k
  /\ todo' = Kills(k)
  /\ resets' = IF k = "reset" THEN resets + 1 ELSE resets
  /\ pauses' = IF k = "pause" THEN pauses + 1 ELSE pauses
  /\ Goto("keyboard", IF k = "none" THEN "write" ELSE "kill")
  /\ UNCHANGED <<fifo_id, flags, fifos, ready, fdset, missed>>

\* The sets of players that a kill() meant for p may signal: p, but all there
\* are when its id is -1; those missed may run by then, or not yet.
Addressees(p) ==
  IF p \notin missed THEN {{p}}
  ELSE {Players \ S : S \in SUBSET {q \in Players \cap missed : pc[q] = "boot"}}

\* One kill() of the sequence.  One to a process that has ended, or that the
\* instance leaves out, changes nothing here.
KeyboardKill ==
  /\ pc["keyboard"] = "kill" /\ todo # <<>>
  /\ \E A \in Addressees(Head(todo)) :
       pending' = [p \in Players |->
                     IF p \in A /\ Live(p) THEN pending[p] \cup {SignalOf(cmd)}
                     ELSE pending[p]]
  /\ todo' = Tail(todo)
  /\ UNCHANGED <<pc, fifo_id, reset, stop, is_paused, fifos, ready, fdset,
                 cmd, resets, pauses, missed>>

\* After the last kill(): a pause writes nothing, a reset sends zero forces.
KeyboardKilled ==
  /\ pc["keyboard"] = "kill" /\ todo = <<>> /\ cmd # "stop"
  /\ Goto("keyboard", IF cmd = "pause" THEN "idle" ELSE "write")
  /\ UNCHANGED <<fifo_id, flags, fifos, ready, fdset, user>>

KeyboardExit ==
  /\ pc["keyboard"] = "kill" /\ todo = <<>> /\ cmd = "stop"
  /\ End("keyboard", "exited")

\* The write blocks while the FIFO is full.
KeyboardWrite ==
  /\ pc["keyboard"] = "write"
  /\ HasReader("keys") /\ HasRoom("keys")
  /\ Goto("keyboard", "idle")
  /\ buf' = [buf EXCEPT !["keys"] = @ + 1]
  /\ UNCHANGED <<fifo_id, flags, rd, woken, ready, fdset, user>>

KeyboardWriteBreaks ==
  pc["keyboard"] = "write" /\ BrokenPipe("keyboard", "keys")

KeyboardNext == \/ KeyboardLookUp \/ KeyboardOpen \/ KeyboardKill \/ KeyboardKilled
                \/ KeyboardExit \/ KeyboardWrite \/ KeyboardWriteBreaks

(***************************************************************************)
(* Ctrl-C in the terminal of one process.  The keyboard has no handler.    *)
(***************************************************************************)
Interrupt(p) ==
  /\ p \in Players /\ Live(p) /\ "INT" \notin pending[p] /\ ~stop[p]
  /\ pending' = [pending EXCEPT ![p] = @ \cup {"INT"}]
  /\ UNCHANGED <<pc, fifo_id, reset, stop, is_paused, fifos, ready, fdset, user>>

InterruptKeyboard ==
  /\ "keyboard" \in Interruptible /\ Live("keyboard")
  /\ End("keyboard", "killed")

(***************************************************************************)
(* The specification.                                                      *)
(***************************************************************************)
Init ==
  /\ pc = [p \in Processes |->
             IF p = "keyboard" THEN "lookUp" ELSE "boot"]
  /\ fifo_id = [p \in Players |-> 0]
  /\ reset = [p \in Players |-> FALSE]
  /\ stop = [p \in Players |-> FALSE]
  /\ is_paused = [p \in Players |-> FALSE]
  /\ pending = [p \in Players |-> {}]
  /\ rd = [c \in Channels |-> -1]
  /\ buf = [c \in Channels |-> 0]
  /\ woken = {} /\ ready = {} /\ fdset = {}
  /\ cmd = "none" /\ todo = <<>> /\ resets = 0 /\ pauses = 0 /\ missed = {}

Next ==
  \/ ServerNext \/ DynamicsNext \/ WindowNext \/ KeyboardNext
  \/ \E g \in Generators : GeneratorOpenInput(g) \/ GeneratorNext(g)
  \/ \E k \in Keys : Press(k)
  \/ \E p \in Players, s \in Signals : Deliver(p, s)
  \/ \E p \in Players : Terminate(p)
  \/ \E p \in Interruptible : Interrupt(p)
  \/ InterruptKeyboard

Spec == Init /\ [][Next]_vars

\* The operating system runs every process that can run and delivers every
\* signal; nothing makes the player press a key or the DDS side connect.
Fairness ==
  /\ WF_vars(ServerNext) /\ WF_vars(DynamicsNext) /\ WF_vars(WindowNext)
  /\ WF_vars(KeyboardNext)
  /\ \A g \in Generators : WF_vars(GeneratorNext(g))
  /\ \A p \in Players : WF_vars(Terminate(p) \/ \E s \in Signals : Deliver(p, s))

FairSpec == Spec /\ Fairness

(***************************************************************************)
(* Properties.                                                             *)
(***************************************************************************)
\* Type correctness; no FIFO holds more messages than fit.
TypeOK ==
  /\ pc \in [Processes -> Labels]
  /\ fifo_id \in [Players -> Nat]
  /\ reset \in [Players -> BOOLEAN] /\ stop \in [Players -> BOOLEAN]
  /\ is_paused \in [Players -> BOOLEAN]
  /\ pending \in [Players -> SUBSET Signals]
  /\ rd \in [Channels -> Int]
  /\ buf \in [Channels -> Nat] /\ \A c \in Channels : buf[c] <= Capacity(c)
  /\ woken \in SUBSET Channels
  /\ ready \in SUBSET Channels
  /\ fdset \in SUBSET Generators
  /\ cmd \in AllKeys /\ todo \in Seq(Core \cup AllGenerators)
  /\ resets \in Nat /\ pauses \in Nat
  /\ missed \in SUBSET (Core \cup AllGenerators)

LoopLabels(p) ==
  {"testReset", "testStop", "stopping", LoopHead(p)} \cup
  (IF p = "server" THEN {"send", "write", "drain"}
   ELSE IF p = "dynamics" THEN {"write"}
   ELSE IF p = "window" THEN {} ELSE {"write", "sent"})

InLoop(p) == pc[p] \in LoopLabels(p)

\* Whatever the order of the opens, the signals and the restarts, no process
\* is more than one generation of FIFOs ahead of those it talks to: a reset
\* cannot be taken twice by one of them while the other has not taken it.
Lockstep ==
  /\ \A p \in Players : fifo_id[p] <= fifo_id["server"] + 1
  /\ fifo_id["server"] <= fifo_id["dynamics"] + 1
  /\ fifo_id["server"] <= fifo_id["window"] + 1

\* When the server and the dynamics are both inside their main loops they are
\* in the same generation: they never exchange states of different games.
LoopsAgree ==
  InLoop("server") /\ InLoop("dynamics") => fifo_id["server"] = fifo_id["dynamics"]

\* A message waiting in a FIFO belongs to the generation its reader is in, and
\* its writer is in that generation or has just left it: nothing written
\* before a reset is read after it.  (The keyboard's FIFO is not rotated.)
NoStaleMessages ==
  \A c \in Channels \ {"keys"} : buf[c] > 0 =>
    /\ rd[c] = fifo_id[Reader(c)]
    /\ fifo_id[Writer(c)] \in {rd[c], rd[c] + 1}

\* The keyboard has found every process it looked for.  When it has not, each
\* kill() meant for one it missed signals all there are.
AllFound == missed = {}

\* Every increment of a fifo_id answers an 'r' of the player of its own: one
\* 'r' never restarts a process twice, if the keyboard found all of them.
NoUnrequestedReset == AllFound => \A p \in Players : fifo_id[p] <= resets

\* Playing and pausing break no FIFO: SIGPIPE strikes nobody before the player has
\* reset or quit, or a process was interrupted; not even when 'p' ends a process that
\* is still starting, or, by a kill() to all there are, the targets generator.
KilledOnlyByRestartOrStop ==
  (\E p \in Players : pc[p] = "killed") =>
    resets > 0 \/ \E p \in Players : stop[p]

\* Once the signals of the last key are handled, the server and the dynamics
\* are both paused or both running, however often 'p' was pressed, if the
\* keyboard found all processes.
PauseAgreement ==
  /\ AllFound
  /\ pc["keyboard"] = "idle"
  /\ \A p \in {"server", "dynamics"} : Live(p) /\ pending[p] = {}
  => is_paused["server"] = is_paused["dynamics"]

\* With resets pressed one at a time on a running game, a process that has no
\* reset left to take has taken every one: none is missed by anybody, if the
\* keyboard found all processes.
AllResetsTaken ==
  AllFound => \A p \in Players :
    Live(p) /\ ~reset[p] /\ "USR2" \notin pending[p]
      /\ ~(cmd = "reset" /\ \E i \in DOMAIN todo : todo[i] = p)
    => fifo_id[p] = resets

\* The generations as the players see them.
Protocol == INSTANCE Generations WITH gen <- fifo_id

\* The processes advance through the generations as the protocol allows.
FollowsProtocol == Protocol!Spec

\* In whatever order the processes start, open, read and write, the server,
\* the dynamics and the window go on for ever unless the player quits, the game
\* stays paused, or a signal ended one that had no handlers yet: no cycle of
\* blocking opens, or of writes to full FIFOs.
RunsUnlessPaused ==
  /\ [](cmd # "stop" /\ \A p \in Core : pc[p] # "terminated")
  /\ <>[](\A p \in Core : ~is_paused[p])
  =>
    /\ []<>(pc["dynamics"] = "iterate")
    /\ []<>(pc["window"] = "testReset")

\* All but the targets generator, which 'o' does not reach, are in their loops,
\* running, and have the stop request.
CleanQuit ==
  /\ pc["keyboard"] = "exited"
  /\ \A p \in Players \ {"targets"} : Live(p) =>
       /\ InLoop(p) /\ stop[p] /\ ~reset[p] /\ ~is_paused[p] /\ pending[p] = {}

\* 'o' pressed on a running game, with no reset under way, ends them all: also
\* the obstacle generator, which does not exit on stop but goes on writing
\* until the server has closed its FIFO.
QuitWhenRunning == CleanQuit ~> \A p \in Players \ {"targets"} : ~Live(p)

\* KeyBoard.c:59 "'o': Quit": pressing 'o' ends the game.
QuitEndsTheGame == (pc["keyboard"] = "exited") ~> \A p \in Core : ~Live(p)
=============================================================================
