# Drone game: TLA+ specifications, model checking and proofs

A verification development for the drone game in this repository: a simulator
made of separate Linux processes that talk through named FIFOs, restart
together when the player asks for it, and are watched by a watchdog. The
modules here model what those processes do to each other; TLC checks them on
small instances, and TLAPS proves the main results for every instance.

Contents

1. The system
2. The modules and how they correspond to the code
3. What is checked, with which bounds
4. Fairness
5. What is proved
6. Where the code and its comments disagree
7. What is not claimed, and what is not modelled
8. Plan

## 1. The system

`run.sh` deletes the logs and starts eight processes, each in a terminal of its
own (mode "subscriber"). WatchDog is started by hand.

| Component | State it keeps | Operations | Talks to |
|---|---|---|---|
| **BlackBoardServer** | the state of the game (drone, force, obstacles, targets), `input`, `prev_input`, `new_targets`; `fifo_id`; flags | open FIFOs; a frame: select, read keyboard, targets, obstacles, write window, write dynamics, read dynamics; restart; stop | everybody, by FIFO |
| **DroneDynamicsManager**, with the **physics** of Dynamics_functions.c | its own copy of the state; velocity; `fifo_id`; flags | open FIFOs; an iteration: take over a state if one has come, repulsion, motion, geofence, send the state back; restart; stop | server |
| **GameWindow**, with **Window.c** | the last state drawn; score and flags of targets (static); the screen; `fifo_id`; flags | open; read and draw what has changed; restart; stop | server |
| **KeyboardManager** | the force commanded | read a key, signal the others (one `kill()` each), send the force twice a second | server by FIFO; five processes by signal |
| **Targets_Generator**, **Obstacle_Generator** | `fifo_id`, flags, the `read_fds` of select | choose the cells of targets (obstacles) in publisher mode; wait for them from the subscriber and pass them to the server; restart; stop | server, subscriber |
| **Publishers and subscribers** (DDS) | their entities, matched count, stop flag | create the entities; pass targets and obstacles from the generators of another machine; stop and destroy | generators |
| **Signal handlers** | `reset`, `stop`, `is_paused` of each process | set or toggle one flag | |
| **Logger** | the lines of each log file | append a line, trim the file | WatchDog reads the modification times |
| **WatchDog** | list of processes with pid and last update | once a second: everyone alive? everyone logging? kill | all by signal |

How they interact. A *generation* is one set of FIFOs, named by a number
(`fifo_id`) that each process counts for itself. `r` makes the keyboard send
SIGUSR2 to five processes one after the other; each of them, at its own place
in its loop, closes its FIFOs, increments its number and opens the next ones.
Opening for writing blocks until there is a reader, so the generations are kept
in step by blocking opens only: nothing is acknowledged.

What is hard about it: the processes restart at different moments, and in the
middle of each other's reads and writes; a write to a FIFO whose reader has
left raises SIGPIPE, which nobody handles; a signal that is already pending is
merged; flags are set by handlers between any two steps; the server's state is
overwritten whole by a copy that is older; the watchdog removes entries from
the list it walks through; several processes trim one log. What makes each
part correct:

* *control plane*: nobody overtakes its peers by two generations; nothing from
  before a reset is read after it; one `r` restarts nobody twice and misses
  nobody; server and dynamics agree on the pause; playing never blocks for ever
  and breaks no FIFO; quitting ends the game. (That nobody is restarted twice or missed,
  and the agreement on the pause, need a keyboard that has found everybody: section 7.)
* *data plane*: targets that have arrived stay; the last force and the last
  obstacles reach the dynamics in spite of the echoes of older ones.
* *screen and score*: the score is the number of targets the drone has been drawn on
  since the window started, each once, as long as one list is drawn; what is still to be
  hit can be seen, and obstacles are where they are shown, although only changes are drawn.
* *field*: the drone stays inside the borders, targets and obstacles never share a
  cell, and the unused entries of an array are never scored.
* *logger*: the latest messages are kept in order, the file is bounded.
* *watchdog*: nobody is killed without cause (a silence longer than the timeout when its
  log was looked at, a death, or a `kill(-1)`), nobody is overlooked, one death ends all.
* *relay*: messages come through in order, each once and none left out, however
  often publisher and subscriber lose each other, until the subscriber ends or the
  receiver is told to stop; nobody sleeps through a match.

## 2. The modules

**GameLifecycle** is the control plane. It models the server, the dynamics, the
window, the keyboard and any of the two generators, in subscriber mode, from
their start to their exit, with the FIFOs and signals between them.

| Here | In the code |
|---|---|
| `pc[p]` | the place in `main` of process p at which it can be interrupted, blocked or overtaken |
| `fifo_id[p]`, `reset`, `stop`, `is_paused` | the variables of that name, of sig_handle.c for the last three |
| `pending[p]` | signals sent and not yet handled; `Deliver` is a handler of sig_handle.c |
| `rd[c]` | the generation whose FIFO the reader of c has open (-1: none) |
| `buf[c]` | how many messages are in it; what they say is Blackboard's |
| `woken` | writers whose blocking open has been let through by the reader's open, and that have not run yet: the kernel wakes them even if the reader closes again at once |
| `ready` | what select() found, on which the server acts later in the frame |
| `fdset` | whether the subscriber's descriptor is still in a generator's `read_fds` |
| `cmd`, `todo` | the key being handled and the `kill()` calls left to do |
| `missed`, `KeyboardLookUp` | the processes whose pid the keyboard has as -1 for good, because they did not run when it called `get_pidd`; `Late` are those it may be too early for |
| `Addressees` | whom a `kill()` signals: one process, or everybody when the pid is -1 |
| "boot", `Boot` | a process that does not run yet or has not installed its handlers, and the step that does |
| `Terminate`, "terminated" | a signal without a handler ends the process: one at "boot", and the targets generator at SIGUSR1 |
| "openInput", `GeneratorOpenInput` | the open in which a generator waits for its subscriber |
| `Start`, `Restart`, `NoReset`, `TestStop`, `Exit` | the `start:` block, `if (reset)`, `if (stop)` that all the loops have |
| `ServerFrame`, `ServerSend`, `ServerWrite`, `ServerDrain` | one iteration of the server's loop, cut where another process may come in between and make a difference |
| `...Breaks` | the same write when the FIFO has no reader: SIGPIPE ends the process and closes its FIFOs |

**Generations** is the abstract specification of the restart: every player counts
the resets it has taken, a client moves on only when the server has caught up
with it, and the server only when the dynamics and the window have. It says
nothing of FIFOs or opens; `FollowsProtocol` in GameLifecycle says that
`fifo_id` implements it.

**MCGameLifecycle** gives TLC its sets of keys and two later starts:
`AllStillToStart`, where the keyboard has found everybody, the generators have been
ended by Ctrl-C before their handlers were there, and nobody else has started; and
`StopPressed`, a running game in which `o` has just been pressed. **GameLifecycleProofs**
(the restart) and **PlayProofs** (what becomes of an `r`, pauses and SIGPIPE) hold the
theorems.

**Blackboard** is the data plane within one generation: the messages in each FIFO,
the server's state, the dynamics' copy, what the window shows. A state is the
commanded force and the versions of the lists of obstacles and of targets. The
force is a member of a small set; that it is made of two coordinates, and where
the drone is, makes no difference to how states travel. A frame of the server is
one step: select looks at ends that nobody else reads or writes, so what it found
still holds when it is used (in GameLifecycle, where a peer may close its end in
between, it is four).

Its variable `late` is history, not state of the game: it becomes TRUE when the server
has something for the dynamics and finds the FIFO full, which is what the two properties
of arrival exclude. `Told` is the state the dynamics works with once it has read all that
is in its FIFO. **BlackboardProofs** holds the theorems.

**Logger** is one log file with the processes that log to it: `log_message` as the
four openings of the file that another process or a kill may separate. Lines are
taken to be of equal length; this matters only where two processes write the
same file at the same time. Its `clean` is history: nobody has been killed or been
overtaken inside `log_message` so far. `Retained` is the loop of `retainLastNLines`, as a
recursive function over the lines that have been read. `LatestKept` says how many lines
are kept as far as code and comment agree; `LastLinesRetained` is the comment alone.
**MCLogger** adds the symmetry and **LoggerProofs** the theorems.

**WatchDog** is the watchdog with the processes reduced to starting (those in `Late`),
logging, falling silent and ending. For an entry of the list the loop takes three steps:
the test whether it is alive (`FoundAlive`, `KillAll`), the reading of its modification
time (`Look`), and the comparison with what follows from it (`Update`, `Pass`,
`TimeOut`), so that a process may log or end between any two of them; the clock is read
earlier still, at the beginning of the round. pid -1, what `get_pidd` returns for a
process that is not running, is kept in the entry, with what `kill(-1, ...)` does.
`checked` and `silent` are history: whose log was looked at in this round, and whether
it was older than `timeout` at that very moment. **WatchDogProofs** holds the theorems.

**Physics** has `compute_repulsion_forces` and `enforce_geofence` as operators on
integers: positions are counted in fractions of a cell (`Unit` of them to a cell), and
the strength of an obstacle at a given distance is a constant function (`Weight`). The
loop that adds up the pushes is a recursive function of the number of obstacles (`Total`).
**Field** has the cells the generators choose from, the cell the drone is drawn in,
and when it covers a target, with the truncation of floats to ints as the code has
it. Nothing in them is a state: GameScreen uses them, and **FieldProofs** proves
about them.

**GameScreen** is what the player sees, over the resets of a game: the targets the
server has and gathers (`new_targets` outlives a reset), the FIFO to the window, and
the window with its static flags and score, drawing what differs from the state
before.

| Here | In the code |
|---|---|
| `targets`, `new_targets`, `fifo`, `ServerFrame`, `ServerRestart` | the server's handling of targets: BlackBoardServer.c:180-270, and its restart |
| `toWindow`, `drawn` | the states under way, `prev_state` of the window |
| `DrawDrone`, `DrawObstacles`, `DrawTargets`, in this order | draw_simulation of Window.c; the screen is the set of cells with the signs in them |
| `prev_flags`, `score`, `just_got_reset` | the variables of that name |
| `Draw`, `DrawAndRestart` | an iteration of the loop of GameWindow.c without and with `reset` |
| `get_int_from_json` | the configuration, read by each process for itself at each start; a file that cannot be read leaves the old value |
| `covered` | history: every target the drone has been drawn on since the window's last start, by its index and the number of its list, whatever the flags say |
| `lists`, `ghosts` | history: the lists drawn since then; the indices drawn although they were taken |

The drone of a state is anywhere the fence lets it be, and its obstacles are any list:
what the dynamics does between two states is not restricted, so the results hold
for every motion. **MCGameScreen** gives the instance and **GameScreenProofs** the
theorems.

**Relay** is the way of targets and obstacles from the machine that generates them to
the one that plays: the same program at both ends, between them the publisher, DDS
and the subscriber. Targets and obstacles take two equal chains, but for the end:
the targets generator reads once per reset, the obstacles' again and again
(`Repeats`).

| Here | In the code |
|---|---|
| `generator`, `stop`, `sent` | Targets_Generator.c (Obstacle_Generator.c) in publisher mode |
| `pub_entities`, `sub_entities`, "create", "closing" | `make_app` and the constructors, entity by entity, each of which may fail; the destructors, which wait for the listener |
| `Matchable` | DDS matches, and calls the listener, as soon as both ends have their entities: before the constructor has ended |
| `publisher`, `pub_stop`, `matched_`, `sample` | `run`, `publish` of the publisher; "loop" is the period with the test of `stop_` after it; the steps "publish", "wait" and "sleep" are the test of the predicate in `cv_.wait`, the moment between it and the sleep, and the sleep |
| `Match`, `Unmatch` | `on_publication_matched`, which takes `mutex_`; `PublisherStop`, the `stop` of a signal handler, does not |
| `history`, `delivered`, `cache`, `callbacks` | DDS, external: reliable, keep-all as the QoS asks |
| `listener`, `taken` | `on_data_available`: the open of every call, the loop of takes, the write |
| `subscriber`, `sub_stop` | `run` and `stop` of the subscriber |
| `receiver`, `rcv_stop`, `fdset`, `message`, `passed` | the generator in subscriber mode, at its tests of `reset` and `stop` ("test"), its select ("select") or, the targets' one, done ("sent"); `ReceiverPass` is select, read and the write to the server |
| `ReceiverReset`, `ReceiverStop`, `ReceiverKilled` | the player's signals, and the end by SIGPIPE, as inputs |
| `ReceiverStops` | what the test of `stop` leads to: the targets' generator exits, the obstacles' one leaves only its inner loop and writes the last message, or zeros, again and again (Obstacle_Generator.c:113, 127-135) |

The signal handlers are installed after the thread has been started; a signal before
that kills the process. **RelayProofs** holds the theorems.

A process that is stopped while it is blocked in an open, read or write is not claimed
to end. File descriptors are not counted: the listener opens the FIFO anew for every
call and never closes it.

**Feed** is what Relay promises: `ImplementsFeed` says that Relay is an in-order,
lossless feed until the subscriber ends or the receiver is told to stop. From then on the
receiver, which does not look at what `read` returns, and writes without a read once it
is to stop, may repeat itself or pass on an empty message.

## 3. What is checked

Small FIFOs make the interesting cases happen: with a capacity of one message
(`PipeCap`, `KeyCap`; in Linux, some forty states) every write meets a full FIFO
soon. Deadlock is not checked where the game may end, or where a bound on keys,
messages or the clock stops everything; it is checked in the two runs of Blackboard.

| Run | Question | Bounds |
|---|---|---|
| `lifecycle_reset` | `Lockstep`, `LoopsAgree`, `NoUnrequestedReset`, `TypeOK`, and the refinement `FollowsProtocol`, with resets at *any* moment, startup and the middle of another reset included; Ctrl-C may end the keyboard anywhere, and it may have looked for the window too early | server, dynamics, window, keyboard; 2 resets (the least with which a process could get two generations ahead); `Late` = {window} |
| `lifecycle_restart` | `NoStaleMessages`, `AllResetsTaken`: nothing from before a reset is read after it, and nobody alive misses it | targets generator, 1 reset pressed on a running game |
| `lifecycle_play` | `PauseAgreement`, `KilledOnlyByRestartOrStop`, `RunsUnlessPaused`, `QuitWhenRunning` | 2 presses of `p` (pause and continue) and `o`, each at any moment, from `AllStillToStart`; and from `StopPressed`, a running game with `o` just pressed and one of the generators gone: the obstacles' one does not exit on stop but writes to the server's FIFO until it breaks, and the targets' one only Ctrl-C ends |
| `lifecycle_quit_paused` | violation: `o` on a paused game | one `p`, then `o`, each on a game that is up |
| `blackboard` | `TypeOK`, `ForceInStep`, `ObstaclesInStep`, `TargetsStay`, `TargetsShown`, `ForcesArrive`, `ObstaclesArrive` | FIFOs of 2 (1 for the generators'); two changes of the force, one list of obstacles, one of targets |
| `blackboard_force_lost` | violation: a force and obstacles together | one change, one list |
| `logger` | `TypeOK`, `LatestKept`, `LogBounded` | 3 processes, killed at any moment; MAX_LINES 3, 7 messages, so that the file is trimmed several times |
| `logger_keeps` | violation: as many lines are kept as are asked for | 1 process that nobody kills; MAX_LINES 5, as in logger.h, and 6 messages |
| `watchdog` | `TypeOK`, `NobodyOverlooked`, `KillsOnlyForCause`, `DeathEndsAll`, `SilenceIsKilled` | 3 processes (an entry before, in and after the one removed), the second of which may start after the watchdog; timeout 1, 2 seconds: as many as make a process late |
| `relay` | `TypeOK`, the refinement `ImplementsFeed`, `PublishedWhenMatched`, `MatchNotMissed`, `FirstComesThrough` | FIFOs of 1; 2 messages (order needs two), 2 passed on, 1 reset or stop of the obstacles' receiver, 2 matches (lost and found again); a creation may fail at any entity, and a signal come before the handlers |
| `relay_stop` | violation: a subscriber that is stopped ends | 1 message, 1 match |
| `game_screen` | `TypeOK`, `ScoreTrue`, `TargetsVisible`, `NoGhosts`, `ObstaclesTrue`, `OneDrone`, `TargetsReachScreen` | 7 by 7 cells of 2 positions; arrays of 2, counts 1 and 2, so that server and window may disagree; three lists of targets (two swapped, and one with both in one cell), two of obstacles; four places of the drone before the fence, two of them beyond it; 1 reset |

Two switches of GameLifecycle narrow what the player does, and each run says
which it uses. `PromptSignals`: the next key is handled only when the signals of
the last one have been (the keyboard sleeps 10 ms after signalling). `PacedKeys`:
`r`, `p` and `o` are pressed only when everybody is in its loop. Without
them the restart can fail to complete; see section 7. `lifecycle_reset`, and all the
proofs, use neither.

The generators may be left out of an instance: the server never waits for them
(it opens and reads their FIFOs without blocking), and `kill()` to one of them
touches nothing else. So each run has the ones its question is about.

The arrays of `game_screen` are as small as they can be for two targets to disturb each
other, and one reset is enough for two games to meet: the state of the game before
is all there is to inherit. Its theorems have no such bounds.

Every property has a mutant: a variant of a definition with a bug the code
could have (a flag not cleared, a FIFO not renumbered, a process left out of a
sequence of `kill()`s, a guard forgotten), kept next to the definition it varies
and marked as one. TLC finds the property violated when the mutant takes its
place.

## 4. Fairness

Every process that can take a step takes one eventually, and every pending
signal is delivered: that is the operating system's scheduling. Weak fairness
per process is enough, for in this model a step a process can take is never
disabled for good by another except where the code makes it so. The player is
under no fairness: no key need ever be pressed; and neither is Ctrl-C, nor
`GeneratorOpenInput`, which waits for the DDS side. A process that has been started
installs its handlers (`Boot`), and a signal it has none for ends it (`Terminate`): both
are fair. In Blackboard `Repeat`, the keyboard's sending twice a second, is fair, and
neither a change of the force nor the coming of obstacles or of targets is: a generator
that looked too early never reads again. `TargetsShown` starts where they have been
written to the server. In Relay everybody runs and DDS delivers to a matched
subscriber, but no match, loss, stop or reset need happen, and creations may fail. In
GameScreen the loops of the server and of the window go on, and neither a reset nor
the sending of targets need happen. In
WatchDog the clock and the watchdog are fair, and nothing makes a process log or
end; at the bound `MaxTime` the clock stops and the watchdog's rounds go on.

## 5. What is proved

Every invariant, action property and refinement the runs check is proved for all values
of the constants; only liveness is not (see the end of this section). The assumptions are the named ASSUMEs of each
module: types of the constants, which generators there are (`GeneratorsAssumption`), that a log
has finitely many processes (`LoggerAssumption`),
and for the screen that no configured count exceeds the arrays and that the server's
first state has the drone inside the borders (`GameScreenAssumption`).

| Module | Theorem | States |
|---|---|---|
| GameLifecycleProofs | `Inductive`, `TypeCorrect` | `Spec => []IInv`, `Spec => []TypeOK` |
| | `LockstepHolds`, `LoopsAgreeHolds`, `NoStaleMessagesHold` | the invariants `Lockstep`, `LoopsAgree`, `NoStaleMessages` |
| | `Refinement` | `Spec => FollowsProtocol` |
| PlayProofs | `NoUnrequestedResetHolds` | `Spec => []NoUnrequestedReset` |
| | `AllResetsTakenHolds` | `Spec => []AllResetsTaken`, if `PacedKeys` |
| | `PauseAgreementHolds` | `Spec => []PauseAgreement`, if `PromptSignals` |
| | `KilledOnlyHolds` | `Spec => []KilledOnlyByRestartOrStop`, whomever the keyboard has found; the other three properties speak of a keyboard that has found everybody (`AllFound`) |
| BlackboardProofs | `TypeCorrect`, `TargetsInvariant`, `TargetsStayHolds` | `Spec => []TypeOK`, `Spec => []TargetsInv`, `Spec => TargetsStay` |
| | `ForceInStepHolds`, `ObstaclesInStepHolds` | `Spec => []ForceInStep`, `Spec => []ObstaclesInStep` |
| LoggerProofs | `RetainedIsLast` | what the loop of `retainLastNLines` keeps of a file of any length |
| | `Inductive`, `TypeCorrect`, `LatestKeptHolds`, `LogBoundedHolds` | the invariant, the types, `LatestKept`, `LogBounded` |
| WatchDogProofs | `TypeCorrect`, `NobodyOverlookedHolds`, `KillsOnlyForCauseHolds` | the types, `NobodyOverlooked`, `KillsOnlyForCause` |
| RelayProofs | `Inductive`, `TypeCorrect`, `MatchNotMissedHolds`, `PublishedWhenMatchedHolds` | the invariant, the types, `MatchNotMissed`, `PublishedWhenMatched` |
| | `Refinement` | `Spec => ImplementsFeed` |
| GameScreenProofs | `Inductive`, `TypeCorrect`, `ScoreTrueHolds`, `ObstaclesTrueHolds`, `OneDroneHolds` | the invariant, the types, `ScoreTrue`, `ObstaclesTrue`, `OneDrone` |
| | `ScreenInductive`, `TargetsVisibleHolds`, `NoGhostsHold` | the invariant of lists and signs, `TargetsVisible`, `NoGhosts` |
| FieldProofs | `FenceHolds`, `WallStops` | what `enforce_geofence` returns is inside the borders; a drone at a wall or beyond, moved or not, has lost its velocity, and any other is left as it is |
| | `DrawnInside`, `OriginNeverCovered` | the cell the drone is drawn in is inside the borders, and it covers a target there; it covers no unused entry |
| | `CellsInside`, `TargetsApartFromObstacles` | the cells of targets and obstacles are inside the borders, and no cell is both |
| | `RepulsionPushes`, `RepulsionPulls` | an obstacle near enough to act pushes the drone away, along each axis on which they are apart, when both components of the force are positive, both negative or both zero; when they differ in sign it pulls along the axis of the negative one |
| | `TotalPushesAway` | the sum of the pushes of any number of obstacles on one side points away from them |

The argument for the restart. `Lockstep` is not inductive: that a process in its loop may take one
more reset safely depends on how it got there. `IInv` records it. A process that has
come out of a blocking open knows that its peer has reached its generation, since
only the peer's open of the FIFO of that number lets it out (`WokenInv`), and the
peer cannot go back. So outside its own opens the dynamics has not overtaken the
server, nor the server the dynamics and, once past its second open, the window
(`ClientInv`, `ServerInv`). The window opens without blocking and can be ahead; but
it looks at `reset` only after a message has been read, and a message that waits for
it in a FIFO of its generation was written by a server that had reached it. The same
argument for the other FIFOs (`MessageInv`) gives `NoStaleMessages`. `ReaderInv` and
`ClosedInv` say that an open FIFO is of its reader's generation and that closed
ones are empty; `ReadyInv` that what select found is still there. `Refinement` needs
only `ClientInv` and `ServerInv` at the place where a process takes its reset: they
are the guards of the abstract protocol; every other step changes no `fifo_id`.

The argument for the targets. `TargetsStay` speaks of what the window shows, and a state
may have been on its way to the window while others came back from the dynamics. So
`TargetsInv` says that the server's state always holds the targets it read last
(`ServerInv`: what comes back from the dynamics is corrected in the frame that takes it
over), and that versions of the targets never go back along the FIFO to the window,
from what is shown to what the server holds (`WindowInv`). Only `Draw` changes what is
shown, to the first state in that FIFO.

The argument for forces and obstacles, the safety that `ForcesArrive` and
`ObstaclesArrive` rest on: `Told` is changed by no read of the dynamics, and by a frame only
when it sends (`ToldStep`); and a frame sends what it has just read, because the write comes
before the echo is taken over. `ForceInv` adds that an input that differs from
`prev_input` has just been read, as long as no frame found the FIFO full; `ObstaclesInv`
that the lists still in the obstacles' FIFO are the last ones sent, one after the other, and
that until the force changes no frame sends for another reason.

The arguments for resets and pauses suppose `AllFound`; that nobody is missed later on than
at the look-up is `IdleInv`. The argument for one restart per `r` is an account. An `r` gives each player one
restart, which is in turn a `kill()` still to be made, a pending signal, a flag, and an
increment of `fifo_id`; `CountInv` says that these never add up to more than the
resets pressed. Steps move a restart along or lose it (merging, clearing). If `r` is
pressed on a running game only, nothing is lost either: `ExactInv` says that a
living player has at most one restart under way, so that no two can merge, and that
the sum is exact; a flag that is cleared unseen is one of before the first `r`
(`EarlyInv`).

The argument for the pause: `WillPause` is what a player will be when its signals have
been handled; a `kill()` and a handler keep it, `p` turns it over for server and
dynamics at once, and with `PromptSignals` no two signals are merged (`SingleInv`).
For SIGPIPE no more is needed than that no reset is on its way to anybody before the first
`r`, whoever is signalled (`QuietInv`): as long as nobody has reset or stopped (`Calm`), no
player leaves its loop. A signal may end a process that has not installed its handlers,
but that one has opened nothing yet, or the targets generator, but that one is the reader
of no FIFO of the game (`CalmTerminate`). So no FIFO loses its reader, and the one each
writer has met at its open is still there (`OpenInv`).

The argument for the watchdog: `RoundInv` says that the entries before the index have
been looked at in this round, which stays true when one is removed only because the
index steps back; `PidsInv` ties an entry to the pid found for its process, and
`PlaceInv` keeps index and list inside their bounds. `LookInv` carries the look to the
kill: a modification time that is overdue at the comparison was, by the clock of the
look, which is not behind that of the round, older than the timeout then (`silent`).

The argument for the relay: from the last message passed on, through the FIFO, the
listener's hands and the cache, DDS, the publisher's hands and its FIFO, to the last
message sent, the chain holds one run of consecutive numbers (`ReceiverInv`,
`SubscriberInv`, `PublisherInv`); each step moves one number by one place. A stopped
publisher drops what is in its hands, which `Connected` excludes: what comes
after the gap is never published. A stopped receiver passes on what it has
already passed on, or 0, which the abstract `Again` allows. `MutexInv` says that
`matched_` cannot change between the test of the predicate and the sleep, or the write.

The argument for the screen: the score is the number of flags (`Score`), for both change
together; a list of zeros is never hit, for the fence keeps the drone off (0, 0) (`OriginNeverCovered`), and every other list is one that a
generator has sent, of a generation not above the window's. Obstacles that have moved
are erased before any is printed, and all are printed in every state, after
the drone; nothing else is done in their cells after that, for
targets have even coordinates and obstacles odd ones (`TargetsApartFromObstacles`).

What the window shows of the targets needs a second layer, `HeldInv`, about what lists
server and window hold at once. The window draws in a generation only what the server
of that generation has sent, with the server's number of targets
(`NumberInv`); until then it has nothing on the screen (`Fresh`). Two arrays with the same
list number agree up to that number, because a new list is put over all of them and comes
once in a generation (`ListInv`), and beyond it they are empty (`ShortInv`). So between two
states drawn with the same list no target moves. On that stands `VisibleInv`: a
target that is not hit has its sign, and the drone is drawn on none, for in the
state that draws it there it covers the target and hits it (`DrawnInside`); with that, what
the drone erases when it moves on was never a target still to be hit, and what a
hit erases is shared only with targets hit in the same state. `GhostInv` follows a sign
from the state that printed it: it is kept only while its target neither moves nor is
hit. `FlagInv`, on which `ScoreTrue` rests, ties the flags to the drone's way: a flag is
up only where some target of that index has been covered since the window's start, and
everywhere where one has been, unless the server's number differs from the window's.
While one list is drawn an index is one target. `Redrawn` says what one call of
`draw_simulation` does to the signs of targets.

The argument for the log: `RetainedIsLast` is about the loop of `retainLastNLines`, by
induction over the lines: after n of them the buffer holds the last ones, in order. With it,
`CleanInv` says for each place inside a call what is in the file and in the
caller's hands, as long as calls do not overlap; `BoundInv`, which holds in any case, that
each line of the file beyond the bound belongs to a process that is inside a call.
Induction: the library's theorems about it take operators, which no prover here
instantiates; for sets of numbers it follows from their well-foundedness (`Least`,
`Induction` and `UpTo`, proved in LoggerProofs and FieldProofs), which is how the loops
of the logger and of `compute_repulsion_forces` (`Rounds`, `TotalSign`) come within reach.

Model-checked only: all liveness (`TargetsShown`, `ForcesArrive`, `ObstaclesArrive`,
`RunsUnlessPaused`, `QuitWhenRunning`, `DeathEndsAll`, `SilenceIsKilled`,
`FirstComesThrough`, `TargetsReachScreen`), which, with fairness, is out of the prover's
reach.

## 6. Where the code and its comments disagree

* `o` on a paused game (KeyBoard.c:59 "'o': Quit"): the keyboard signals and
  exits; the paused server and dynamics `continue` before they test `stop`, and
  nobody is left to end the pause. Run `lifecycle_quit_paused`.
* A new force can be undone (BlackBoardServer.c:235 "write new forces to the
  drone dynamicss"): the force is sent; an echo with the old force comes back and
  overwrites the server's state; obstacles arrive and that state is sent. The
  keyboard's repetitions equal `prev_input`, so the new force is not set again. Run
  `blackboard_force_lost`.
* Ctrl-C may leave the subscriber running (Targetsmain.cxx:91 "Please press Ctrl+C to
  stop the" subscriber "at any time."): `stop` sets the flag and notifies
  without the mutex (TargetsSubscriberApp.cxx:179), so that a signal
  between the test of the predicate in `run` and the sleep wakes nobody. Run `relay_stop`.

* Four lines are kept in a log (logger.c:36 "Retain only the last 5 lines"): the buffer of
  five is shifted when it is full, not when a sixth line comes. Run `logger_keeps`.

Remarks without a run:

* The watchdog may kill a process that has just logged: between the look at its log and
  the `kill` nothing holds it back. `KillsOnlyForCause` is about the moment of the look.
* A process that ends after the watchdog has found it alive, and is overdue, is only taken
  off the list; the others live on (`DeathEndsAll` excepts it).
* The watchdog lists a process whose log exists and which it has not found with the pid -1,
  and ends every process of the user when that one falls silent (`kill(-1, SIGKILL)`);
  the keyboard signals everybody for one it has not found (section 7).
* An obstacles' generator that is told to stop sends its last obstacles, or zeros after a
  reset, every ten seconds as if they were new, until its FIFO breaks.
* A target of a new list, at an index that was hit in the list of the game before, is drawn
  and covered and never counted, because the flags are those of the window and not of the
  list. `ScoreTrue` is exact for one list and says what the score is with two.
* A generator with a wrong argument loops for ever, which, says Targets_Generator.c:18,
  "will make it not log so the watchdog will know something is wrong and kill it". It
  has never logged, so its file does not exist (run.sh deletes the logs),
  and the watchdog does not put it on its list (WatchDog.c:109-112).
* After a reset the targets of the game before are shown, and can be scored, until the
  generator sends new ones (`new_targets` is declared before `start:`).
* A target can disappear from the screen before it is hit: one that takes its place
  in the list order may erase its cell after it was drawn, which is why
  `TargetsVisible` is about windows that have drawn one list; and a target taken in the
  very state that moves it is drawn after it was erased, which `NoGhosts` excepts.
* Server and window read the number of targets each for itself, at different moments; if
  the configuration is changed in between they disagree until the next restart.
* The corner (0, 0) of the border is printed over by the erasure and printing of unused
  entries; `OneDrone`, `NoGhosts` and `ObstaclesTrue` except it.
* With more targets than obstacles the window's flags are used beyond their end
  (GameWindow.c:68 sizes them by the obstacles, and Window.c:106 copies
  MAX_TARGETS of them).
* An obstacle pulls the drone in one direction when the commanded force is positive in
  one component and negative in the other (`RepulsionPulls`).
* Targetsmain.cxx:83 catches the exception of an entity that cannot be created, but goes
  on to start the thread on a null pointer: `CreatePublisherFails`, `CreateSubscriberFails`.
* `o` does not signal the targets generator (the line is commented out): it stays until
  Ctrl-C, as the run `lifecycle_play` has it.

## 7. What is not claimed, and what is not modelled

*Not claimed.* That a reset always completes. Pressed while a process is still
starting, or while another reset is under way, it can be lost by the server
(`reset=false` comes after its first open), merged with the previous one in some
processes and not in others, or kill a process by SIGPIPE; the others then wait in an
open for ever. `AllResetsTaken` therefore assumes a running game and says only
that nobody alive misses one, and `KilledOnlyByRestartOrStop` excludes resets: a server that
is killed in the middle of one is a behaviour of the code that no property here
excludes. `FollowsProtocol` is safety: that a window whose server has left is ever told so is
not claimed.
What happens when the keyboard has not found everybody. It looks up the pids once, before
it opens its FIFO (KeyboardManager.c:24-37). A process that is not running yet has the pid
-1 for good, and a `kill()` meant for it is `kill(-1, ...)`, which signals every process of
the user: a player gets the signals of others, the targets generator dies of the SIGUSR1 of
`p`, and what is not part of the game, terminals and shells, dies too (that part is not
modelled). `Lockstep`, `LoopsAgree`, `NoStaleMessages`, `FollowsProtocol`, the types and
`KilledOnlyByRestartOrStop` hold in spite of it (the last one is checked by TLC for a
keyboard that has found everybody, and proved for any); `NoUnrequestedReset`,
`AllResetsTaken` and `PauseAgreement` do not, and therefore say `AllFound`. A process that is
found but has not installed its handlers is ended by a signal: `RunsUnlessPaused` excepts
that.
That keys may be pressed at any rate: a signal that is already pending is merged, so
`PauseAgreement` needs `PromptSignals`, `AllResetsTaken` needs `PacedKeys`.
That the game quits whenever `o` is pressed: `QuitWhenRunning` needs a game that is
neither paused nor restarting. That the drone's position never jumps back: the
dynamics replaces its position by the one in the state it receives, and TLC shows
that with enough changes under way the jump exceeds any fixed number of messages.
That forces arrive when the FIFO to the dynamics is full: `ForcesArrive` and
`ObstaclesArrive` assume `~late`: they are about behaviours in which it never is (one
message per change, room for about forty). The watchdog and the game are not composed: a process's
silence and death are inputs to WatchDog.

*Abstractions.* Time, except in WatchDog: the frame limiter, sleeps and the 10-second
period of the obstacles are "at any time". A message is written whole or not at all
(its size is below PIPE_BUF). Message contents, in GameLifecycle. `getch()` returns
at once. FIFOs are created before they are opened and never removed while the
game runs. pids are not reused. The five look-ups of the keyboard are one step. A log that
the watchdog has seen is there at every later look, for only `run.sh` removes logs, before
it starts anything: the branch for a missing file in the watchdog's loop
(WatchDog.c:69-72) is not modelled.

*Not modelled.* DDS itself, and the code fastddsgen has generated from the .idl files
(type support, serialisation), which is not the project's logic; the values of the
QoS, of which the model takes what they say (reliable, keep all, for late joiners);
the integration of the drone's motion and the viscosity, float arithmetic over time,
in whose place the drone of GameScreen is anywhere; the value of the repulsion,
of which only the sign, of one push and of the sum, is a claim; `MAX_X` and `MAX_Y` changing between two readings
of the configuration; `server_functions.c`, `write_int_to_json` and `unlink_fifo`, which
nothing calls; `run.sh`, which decides the initial states.

## 8. Plan

What was planned has been built: the control plane, the data plane, the logger, the
watchdog, the relay, the field and the screen, each with its proofs. Two
things would add to it:

1. *Session*: Blackboard across a restart, composed with Generations: forces queued in
   the keyboard's FIFO during a pause are applied after it, and after a reset.
2. *One machine*: WatchDog composed with GameLifecycle, so that silence and death
   are no inputs: a process blocked in an open stops logging, and the watchdog ends a game
   whose restart has failed.
