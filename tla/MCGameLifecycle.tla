-------------------------- MODULE MCGameLifecycle --------------------------
(***************************************************************************)
(* Instances of GameLifecycle for TLC: what the player does, whose         *)
(* terminals receive Ctrl-C, and two later starts for the run whose        *)
(* questions are how the game goes on and how it ends.                     *)
(***************************************************************************)
EXTENDS GameLifecycle

PlayPauseAndQuit == {"none", "pause", "stop"}

NobodyInterrupted == {}
OnlyTargets == {"targets"}
OnlyKeyboard == {"keyboard"}

NothingHappened ==
  /\ fifo_id = [p \in Players |-> 0]
  /\ reset = [p \in Players |-> FALSE]
  /\ is_paused = [p \in Players |-> FALSE]
  /\ buf = [c \in Channels |-> 0]
  /\ woken = {} /\ ready = {}
  /\ todo = <<>> /\ resets = 0 /\ pauses = 0 /\ missed = {}

\* The keyboard has found every process; the generators were ended by Ctrl-C
\* before their handlers were installed.  Nobody else has started.
AllStillToStart ==
  /\ NothingHappened
  /\ pc = [p \in Processes |-> IF p = "keyboard" THEN "openKeys"
                                ELSE IF p \in Generators THEN "terminated" ELSE "boot"]
  /\ stop = [p \in Players |-> FALSE]
  /\ pending = [p \in Players |-> {}]
  /\ rd = [c \in Channels |-> -1]
  /\ fdset = {} /\ cmd = "none"

\* The game is up, every open has returned, nothing has been written, and 'o'
\* has been pressed: the keyboard has exited, and its signals to the dynamics
\* and the window are handled.  One of the generators has ended before; the
\* targets generator, if it is left, has sent its targets and is not signalled.
\* Init leads there when no other key is pressed.
StopPressed ==
  \E left \in Generators :
    /\ NothingHappened
    /\ pc = [p \in Processes |->
               IF p \in ({"keyboard"} \cup Generators) \ {left} THEN "exited"
               ELSE IF p = "targets" THEN "sent"
               ELSE IF p = "obstacles" THEN "testReset" ELSE LoopHead(p)]
    /\ stop = [p \in Players |-> p \notin {left, "server"}]
    /\ pending = [p \in Players |-> IF p \in {left, "server"} \ {"targets"}
                                    THEN {"INT"} ELSE {}]
    /\ rd = [c \in Channels |-> 0]
    /\ fdset = Generators /\ cmd = "stop"

FairSpecOfPlay == (AllStillToStart \/ StopPressed) /\ [][Next]_vars /\ Fairness
=============================================================================
