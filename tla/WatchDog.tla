------------------------------ MODULE WatchDog ------------------------------
(***************************************************************************)
(* WatchDog and the processes it watches, 1 .. NumProcs in the order in    *)
(* which main adds them.  The watchdog looks up the pids, adds a process   *)
(* for every log file that exists, and then once a second looks at every   *)
(* process of its list: whether it is alive, and when it last logged.      *)
(*                                                                         *)
(* A watched process only starts, logs or ends here; one that is silent    *)
(* may be spinning (a generator started in an invalid mode never logs), or *)
(* asleep in an open.  Times are in seconds.  kill(-1, sig) signals every  *)
(* process the user may signal, and succeeds as long as there is one.      *)
(* Nobody removes a log while the watchdog runs, so that a log it has seen *)
(* once can always be looked at.                                           *)
(***************************************************************************)
EXTENDS Integers, Sequences, FiniteSets

CONSTANTS
  NumProcs,   \* the processes of the game
  Late,       \* those of them that may be started after the watchdog
  timeout,    \* the seconds without a line in the log that are too many
  MaxTime     \* bound: when the clock stops

ASSUME WatchDogAssumption ==
  /\ NumProcs \in Nat \ {0} /\ timeout \in Nat /\ MaxTime \in Nat
  /\ Late \subseteq 1 .. NumProcs

Procs == 1 .. NumProcs
NoPid == -1         \* what get_pidd returns for a process it does not find
NoFile == -1        \* what get_file_mod_time returns for a missing log

VARIABLES
  now,            \* the clock
  alive,          \* which processes are alive
  unborn,         \* those that have not been started yet
  mtime,          \* when the log of a process was last modified
  pid,            \* what the watchdog found for each process
  processes,      \* the watchdog's list: process, pid and last_update
  pc, i,          \* where the watchdog is, and the index of its loops
  current_time,   \* the clock when the round began
  mod_time,       \* the modification time found by the look at a log
  checked,        \* history: the processes whose logs were looked at in this round
  silent          \* history: that log was older than timeout at that look

game == <<now, alive, unborn, mtime>>
look == <<mod_time, silent>>
vars == <<game, pid, processes, pc, i, current_time, checked, look>>

process_count == Len(processes)
Entry == processes[i]

(***************************************************************************)
(* The processes and the clock.                                            *)
(***************************************************************************)
Start(p) ==
  /\ p \in unborn
  /\ unborn' = unborn \ {p}
  /\ alive' = [alive EXCEPT ![p] = TRUE]
  /\ UNCHANGED <<now, mtime, pid, processes, pc, i, current_time, checked, look>>

Log(p) ==
  /\ alive[p] /\ mtime[p] < now
  /\ mtime' = [mtime EXCEPT ![p] = now]
  /\ UNCHANGED <<now, alive, unborn, pid, processes, pc, i, current_time, checked, look>>

\* A process exits, or a signal kills it.
Die(p) ==
  /\ alive[p]
  /\ alive' = [alive EXCEPT ![p] = FALSE]
  /\ UNCHANGED <<now, unborn, mtime, pid, processes, pc, i, current_time, checked, look>>

Tick ==
  /\ now < MaxTime
  /\ now' = now + 1
  /\ UNCHANGED <<alive, unborn, mtime, pid, processes, pc, i, current_time, checked, look>>

(***************************************************************************)
(* Startup.                                                                *)
(***************************************************************************)
\* get_pidd for one process after the other.
LookUp ==
  /\ pc = "lookup"
  /\ pid' = [pid EXCEPT ![i] = IF alive[i] THEN i ELSE NoPid]
  /\ IF i < NumProcs THEN i' = i + 1 /\ pc' = pc ELSE i' = 1 /\ pc' = "add"
  /\ UNCHANGED <<game, processes, current_time, checked, look>>

\* Mutant of add_process: a missing log does not keep a process off the list,
\* which counts from 1970 on.
add_process_anyway ==
  /\ pc = "add"
  /\ processes' = Append(processes, [proc |-> i, pid |-> pid[i], last_update |-> mtime[i]])
  /\ IF i < NumProcs THEN i' = i + 1 /\ pc' = pc ELSE i' = 1 /\ pc' = "round"
  /\ UNCHANGED <<game, pid, current_time, checked, look>>

\* The entry is filled in, but counts only if the log exists.
add_process ==
  /\ pc = "add"
  /\ processes' = IF mtime[i] = NoFile THEN processes
                  ELSE Append(processes,
                              [proc |-> i, pid |-> pid[i], last_update |-> mtime[i]])
  /\ IF i < NumProcs THEN i' = i + 1 /\ pc' = pc ELSE i' = 1 /\ pc' = "round"
  /\ UNCHANGED <<game, pid, current_time, checked, look>>

(***************************************************************************)
(* monitor_processes.                                                      *)
(***************************************************************************)
\* kill(pid, 0) == 0.
is_process_alive(p) == p \notin {q \in Procs : ~alive[q]}

\* kill(pid, SIGKILL) of each of a set of pids.
Killed(pids) == [p \in Procs |-> alive[p] /\ NoPid \notin pids /\ p \notin pids]

BeginRound ==
  /\ pc = "round"
  /\ current_time' = now
  /\ i' = 1
  /\ pc' = "check"
  /\ UNCHANGED <<game, pid, processes, checked, look>>

\* Mutant of KillAll: the loop ends one entry early.
KillAllButLast ==
  /\ pc = "check" /\ i <= process_count
  /\ ~is_process_alive(Entry.pid)
  /\ alive' = Killed({processes[j].pid : j \in 1 .. process_count - 1})
  /\ pc' = "exited"
  /\ UNCHANGED <<now, unborn, mtime, pid, processes, i, current_time, checked, look>>

\* A dead process: all the others of the list are killed, and the watchdog exits.
KillAll ==
  /\ pc = "check" /\ i <= process_count
  /\ ~is_process_alive(Entry.pid)
  /\ alive' = Killed({processes[j].pid : j \in DOMAIN processes})
  /\ pc' = "exited"
  /\ UNCHANGED <<now, unborn, mtime, pid, processes, i, current_time, checked, look>>

FoundAlive ==
  /\ pc = "check" /\ i <= process_count
  /\ is_process_alive(Entry.pid)
  /\ pc' = "look"
  /\ UNCHANGED <<game, pid, processes, i, current_time, checked, look>>

\* get_file_mod_time.  What it returns may be out of date when it is used.
Look ==
  /\ pc = "look"
  /\ mod_time' = mtime[Entry.proc]
  /\ pc' = "compare"
  /\ checked' = checked \cup {Entry.proc}
  /\ silent' = (now - mtime[Entry.proc] > timeout)
  /\ UNCHANGED <<game, pid, processes, i, current_time>>

\* mod_time is local to the body of the loop.
Forget == mod_time' = NoFile /\ silent' = FALSE

\* Its log has been modified since the look before.
Update ==
  /\ pc = "compare"
  /\ mod_time > Entry.last_update
  /\ processes' = [processes EXCEPT ![i].last_update = mod_time]
  /\ i' = i + 1 /\ pc' = "check"
  /\ Forget
  /\ UNCHANGED <<game, pid, current_time, checked>>

Overdue(e) == current_time - e.last_update > timeout

Pass ==
  /\ pc = "compare"
  /\ mod_time <= Entry.last_update /\ ~Overdue(Entry)
  /\ i' = i + 1 /\ pc' = "check"
  /\ Forget
  /\ UNCHANGED <<game, pid, processes, current_time, checked>>

\* Mutant of TimeOut: the index is not adjusted after the removal.
TimeOutSkipsNext ==
  /\ pc = "compare"
  /\ mod_time <= Entry.last_update /\ Overdue(Entry)
  /\ alive' = Killed({Entry.pid})
  /\ processes' = SubSeq(processes, 1, i - 1) \o SubSeq(processes, i + 1, process_count)
  /\ i' = i + 1 /\ pc' = "check"
  /\ Forget
  /\ UNCHANGED <<now, unborn, mtime, pid, current_time, checked>>

\* Mutant of TimeOut: the modification time is not compared.
TimeOutWithoutLook ==
  /\ pc = "compare"
  /\ Overdue(Entry)
  /\ alive' = Killed({Entry.pid})
  /\ processes' = SubSeq(processes, 1, i - 1) \o SubSeq(processes, i + 1, process_count)
  /\ pc' = "check"
  /\ Forget
  /\ UNCHANGED <<now, unborn, mtime, pid, i, current_time, checked>>

\* Mutant of TimeOut: the watchdog exits, as after a death.
TimeOutThenExits ==
  /\ pc = "compare"
  /\ mod_time <= Entry.last_update /\ Overdue(Entry)
  /\ alive' = Killed({Entry.pid})
  /\ pc' = "exited"
  /\ Forget
  /\ UNCHANGED <<now, unborn, mtime, pid, processes, i, current_time, checked>>

\* It was silent for too long when looked at: it alone is killed, unless it has ended
\* by now, and removed from the list; the next entry takes its index.
TimeOut ==
  /\ pc = "compare"
  /\ mod_time <= Entry.last_update /\ Overdue(Entry)
  /\ alive' = Killed({Entry.pid})
  /\ processes' = SubSeq(processes, 1, i - 1) \o SubSeq(processes, i + 1, process_count)
  /\ pc' = "check"
  /\ Forget
  /\ UNCHANGED <<now, unborn, mtime, pid, i, current_time, checked>>

EndRound ==
  /\ pc = "check" /\ i > process_count
  /\ pc' = "sleep"
  /\ UNCHANGED <<game, pid, processes, i, current_time, checked, look>>

\* sleep(1); where the clock has stopped it is always over.
WakeUp ==
  /\ pc = "sleep"
  /\ now > current_time \/ now = MaxTime
  /\ pc' = "round"
  /\ checked' = {}
  /\ UNCHANGED <<game, pid, processes, i, current_time, look>>

Watch == \/ LookUp \/ add_process \/ BeginRound \/ KillAll \/ FoundAlive \/ Look
         \/ Update \/ Pass \/ TimeOut \/ EndRound \/ WakeUp

\* The watchdog is started by hand: some processes may have ended by then, not have
\* logged yet, or not have been started.
Init ==
  /\ now = 0
  /\ alive \in [Procs -> BOOLEAN]
  /\ unborn \in SUBSET {p \in Late : ~alive[p]}
  /\ mtime \in [Procs -> {NoFile, 0}]
  /\ \A p \in unborn : mtime[p] = NoFile
  /\ pid = [p \in Procs |-> NoPid]
  /\ processes = <<>>
  /\ pc = "lookup" /\ i = 1
  /\ current_time = 0 /\ mod_time = NoFile /\ checked = {} /\ silent = FALSE

Next == \/ \E p \in Procs : Start(p) \/ Log(p) \/ Die(p)
        \/ Tick \/ Watch

Spec == Init /\ [][Next]_vars

\* Time passes and the watchdog runs; nothing makes a process start, log or die.
FairSpec == Spec /\ WF_vars(Watch) /\ WF_vars(Tick)

-----------------------------------------------------------------------------
(***************************************************************************)
(* Properties.                                                             *)
(***************************************************************************)
TypeOK ==
  /\ now \in 0 .. MaxTime /\ current_time \in 0 .. MaxTime
  /\ alive \in [Procs -> BOOLEAN] /\ unborn \subseteq Late
  /\ mtime \in [Procs -> {NoFile} \cup 0 .. MaxTime]
  /\ mod_time \in {NoFile} \cup 0 .. MaxTime
  /\ pid \in [Procs -> Procs \cup {NoPid}]
  /\ processes \in Seq([proc : Procs, pid : Procs \cup {NoPid}, last_update : 0 .. MaxTime])
  /\ pc \in {"lookup", "add", "round", "check", "look", "compare", "sleep", "exited"}
  /\ i \in 1 .. NumProcs + 1 /\ checked \subseteq Procs /\ silent \in BOOLEAN

Listed(p) == \E j \in DOMAIN processes : processes[j].proc = p
Found(p) == \E j \in DOMAIN processes : processes[j].proc = p /\ processes[j].pid = p

\* The watchdog kills a process only if that one had been silent for longer than
\* timeout when its log was looked at in this round, although it may log between the
\* look and the kill; or if one of the list has ended; or, with all the others, if one
\* that was not found at the start has been silent for that long (kill(-1, SIGKILL)).
KillsOnlyForCause ==
  [][\A p \in Procs : Watch /\ alive[p] /\ ~alive'[p] =>
       \/ silent /\ Entry.proc = p
       \/ \E q \in Procs : Found(q) /\ ~alive[q]
       \/ silent /\ ~Found(Entry.proc)]_vars

\* When the watchdog goes to sleep it has looked at every process still on its
\* list: removing an entry in the middle of the loop makes it skip nobody.
NobodyOverlooked ==
  pc = "sleep" => {processes[j].proc : j \in DOMAIN processes} \subseteq checked

\* p has been found alive and is being dealt with.
AtEntry(p) == pc \in {"look", "compare"} /\ Entry.proc = p

\* If a process of the list has ended, all of the list end; unless it has ended after it
\* was found alive, and is taken off the list for its silence before the next round.
DeathEndsAll ==
  \A p \in Procs : (Found(p) /\ ~alive[p] /\ ~AtEntry(p)) ~>
    \A q \in Procs : Found(q) => ~alive[q]

\* A process of the list that stops logging is killed.
SilenceIsKilled ==
  \A p \in Procs :
    (Found(p) /\ alive[p] /\ now - mtime[p] > timeout) ~>
      (~alive[p] \/ now - mtime[p] <= timeout)
=============================================================================
