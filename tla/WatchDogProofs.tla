---------------------------- MODULE WatchDogProofs ----------------------------
(***************************************************************************)
(* Theorems about WatchDog, for any number of processes, any timeout, and  *)
(* processes that log and die at any moments.                              *)
(***************************************************************************)
EXTENDS WatchDog, SequenceTheorems, TLAPS

MonitoredProcess == [proc : Procs, pid : Procs \cup {NoPid}, last_update : 0 .. MaxTime]

-----------------------------------------------------------------------------
(***************************************************************************)
(* The inductive invariant.                                                *)
(***************************************************************************)
\* What get_pidd has found for a process is its pid, or that it does not run; an
\* entry of the list holds what has been found for its process.
PidsInv ==
  /\ \A p \in Procs : pid[p] \in {p, NoPid}
  /\ \A j \in 1 .. Len(processes) : processes[j].pid = pid[processes[j].proc]

\* The list is empty until the pids are known, and then has at most an entry for every
\* process looked at; the index of the round does not run away from it.
PlaceInv ==
  /\ pc = "lookup" => i \in Procs /\ Len(processes) = 0
  /\ pc = "add" => i \in Procs /\ Len(processes) < i
  /\ pc = "check" => i <= Len(processes) + 1
  /\ pc \in {"look", "compare"} => i \in 1 .. Len(processes)
  /\ Len(processes) <= NumProcs

\* The entries before the index have been looked at in this round, all of them when it
\* is over; the round began at some time in the past.
RoundInv ==
  /\ pc \in {"check", "look", "compare"} =>
       \A j \in 1 .. Len(processes) : j < i => processes[j].proc \in checked
  /\ pc = "compare" => processes[i].proc \in checked
  /\ pc = "sleep" => \A j \in 1 .. Len(processes) : processes[j].proc \in checked
  /\ current_time <= now

\* The look came after the beginning of the round, so that a log that is too old for the
\* round was too old at the look.
LookInv == pc = "compare" /\ current_time - mod_time > timeout => silent

IInv == TypeOK /\ PidsInv /\ PlaceInv /\ RoundInv /\ LookInv

-----------------------------------------------------------------------------
\* What the loop at WatchDog.c:85-88 leaves when an entry is removed: those before it,
\* and those behind it one place further in front.
LEMMA Removed ==
  ASSUME NEW S, NEW s \in Seq(S), NEW k \in 1 .. Len(s)
  PROVE  LET t == SubSeq(s, 1, k - 1) \o SubSeq(s, k + 1, Len(s))
         IN  /\ t \in Seq(S) /\ Len(t) = Len(s) - 1
             /\ \A j \in 1 .. Len(t) : t[j] = IF j < k THEN s[j] ELSE s[j + 1]
<1>. DEFINE a == SubSeq(s, 1, k - 1)
            b == SubSeq(s, k + 1, Len(s))
<1>1. Len(s) \in Nat /\ \A j \in 1 .. Len(s) : s[j] \in S
  BY LenProperties, ElementOfSeq
<1>2. /\ a \in Seq(S) /\ Len(a) = k - 1
      /\ \A j \in 1 .. k - 1 : a[j] = s[j]
  <2>1. /\ a \in Seq(S) /\ Len(a) = IF 1 <= k - 1 THEN (k - 1) - 1 + 1 ELSE 0
        /\ \A j \in 1 .. (k - 1) - 1 + 1 : a[j] = s[1 + j - 1]
    BY <1>1, SubSeqProperties
  <2>. QED  BY <2>1, <1>1
<1>3. /\ b \in Seq(S) /\ Len(b) = Len(s) - k
      /\ \A j \in 1 .. Len(s) - k : b[j] = s[k + j]
  <2>1. /\ b \in Seq(S) /\ Len(b) = IF k + 1 <= Len(s) THEN Len(s) - (k + 1) + 1 ELSE 0
        /\ \A j \in 1 .. Len(s) - (k + 1) + 1 : b[j] = s[(k + 1) + j - 1]
    BY <1>1, SubSeqProperties
  <2>. QED  BY <2>1, <1>1
<1>. HIDE DEF a, b
<1>4. /\ a \o b \in Seq(S) /\ Len(a \o b) = Len(s) - 1
      /\ \A j \in 1 .. Len(s) - 1 : (a \o b)[j] = IF j <= k - 1 THEN a[j] ELSE b[j - (k - 1)]
  BY <1>1, <1>2, <1>3, ConcatProperties
<1>5. \A j \in 1 .. Len(s) - 1 : (a \o b)[j] = IF j < k THEN s[j] ELSE s[j + 1]
  <2>. TAKE j \in 1 .. Len(s) - 1
  <2>1. CASE j < k
    BY <2>1, <1>1, <1>2, <1>4
  <2>2. CASE ~(j < k)
    <3>1. /\ (a \o b)[j] = b[j - (k - 1)] /\ j - (k - 1) \in 1 .. Len(s) - k
          /\ k + (j - (k - 1)) = j + 1
      BY <2>2, <1>1, <1>4
    <3>. QED  BY <3>1, <2>2, <1>3
  <2>. QED  BY <2>1, <2>2
<1>. QED  BY <1>4, <1>5 DEF a, b

\* What the type says of the list, entry by entry.
LEMMA ListTypes ==
  ASSUME TypeOK
  PROVE  /\ processes \in Seq(MonitoredProcess) /\ Len(processes) \in Nat
         /\ DOMAIN processes = 1 .. Len(processes)
         /\ \A j \in 1 .. Len(processes) :
              /\ processes[j] \in MonitoredProcess
              /\ processes[j].proc \in Procs /\ processes[j].last_update \in 0 .. MaxTime
<1>1. processes \in Seq(MonitoredProcess)
  BY DEF TypeOK, MonitoredProcess
<1>2. Len(processes) \in Nat /\ DOMAIN processes = 1 .. Len(processes)
  BY <1>1, LenProperties
<1>3. \A j \in 1 .. Len(processes) : processes[j] \in MonitoredProcess
  BY <1>1, ElementOfSeq
<1>. QED  BY <1>1, <1>2, <1>3 DEF MonitoredProcess

LEMMA Starts == Init => IInv
<1>. SUFFICES ASSUME Init PROVE IInv
  OBVIOUS
<1>1. processes \in Seq(MonitoredProcess) /\ Len(processes) = 0
  BY EmptySeq DEF Init
<1>2. TypeOK
  <2>1. /\ unborn \subseteq Late /\ checked \subseteq Procs /\ silent \in BOOLEAN
        /\ alive \in [Procs -> BOOLEAN]
    BY DEF Init
  <2>2. /\ now \in 0 .. MaxTime /\ current_time \in 0 .. MaxTime /\ i \in 1 .. NumProcs + 1
        /\ mod_time \in {NoFile} \cup 0 .. MaxTime
    BY WatchDogAssumption DEF Init
  <2>3. /\ mtime \in [Procs -> {NoFile} \cup 0 .. MaxTime]
        /\ pid \in [Procs -> Procs \cup {NoPid}]
    BY WatchDogAssumption DEF Init
  <2>. QED  BY <1>1, <2>1, <2>2, <2>3 DEF Init, TypeOK, MonitoredProcess
<1>3. PidsInv /\ PlaceInv
  BY <1>1, <1>2, WatchDogAssumption DEF Init, PidsInv, PlaceInv, Procs, NoPid, TypeOK
<1>4. RoundInv /\ LookInv
  BY <1>1 DEF Init, RoundInv, LookInv
<1>. QED
  BY <1>2, <1>3, <1>4 DEF IInv

-----------------------------------------------------------------------------
\* What the processes and the clock do changes neither the list nor the round.
LEMMA ProcessesKeep ==
  ASSUME IInv, (\E p \in Procs : Start(p) \/ Log(p) \/ Die(p)) \/ Tick
  PROVE  IInv'
<1>1. UNCHANGED <<pid, processes, pc, i, current_time, checked, mod_time, silent>>
  BY DEF Start, Log, Die, Tick, look
<1>2. /\ now' \in 0 .. MaxTime /\ now <= now' /\ alive' \in [Procs -> BOOLEAN]
      /\ mtime' \in [Procs -> {NoFile} \cup 0 .. MaxTime] /\ unborn' \subseteq Late
  <2>1. CASE \E p \in Procs : Log(p)
    BY <2>1, WatchDogAssumption DEF IInv, TypeOK, Log
  <2>2. CASE \E p \in Procs : Start(p) \/ Die(p)
    <3>1. /\ now' = now /\ mtime' = mtime /\ unborn' \subseteq unborn
          /\ alive' \in [Procs -> BOOLEAN]
      BY <2>2 DEF IInv, TypeOK, Start, Die
    <3>. QED  BY <3>1 DEF IInv, TypeOK
  <2>3. CASE Tick
    BY <2>3, WatchDogAssumption DEF IInv, TypeOK, Tick
  <2>. QED  BY <2>1, <2>2, <2>3
<1>3. TypeOK'
  BY <1>1, <1>2 DEF IInv, TypeOK
<1>4. PidsInv' /\ PlaceInv' /\ LookInv'
  BY <1>1 DEF IInv, PidsInv, PlaceInv, LookInv
<1>5. RoundInv'
  BY <1>1, <1>2 DEF IInv, TypeOK, RoundInv
<1>. QED  BY <1>3, <1>4, <1>5 DEF IInv

LEMMA LookUpKeeps ==
  ASSUME IInv, LookUp
  PROVE  IInv'
<1>1. /\ i \in Procs /\ Len(processes) = 0
      /\ UNCHANGED <<now, alive, unborn, mtime, processes>>
      /\ UNCHANGED <<current_time, checked, mod_time, silent>>
  BY DEF IInv, PlaceInv, LookUp, game, look
<1>2. pid' \in [Procs -> Procs \cup {NoPid}] /\ \A p \in Procs : pid'[p] \in {p, NoPid}
  BY <1>1 DEF IInv, TypeOK, PidsInv, LookUp
<1>3. (pc' = "lookup" \/ pc' = "add") /\ i' \in Procs /\ i' \in 1 .. NumProcs + 1
  BY <1>1, WatchDogAssumption DEF Procs, LookUp, IInv, PlaceInv
<1>4. TypeOK'
  BY <1>1, <1>2, <1>3 DEF IInv, TypeOK
<1>5. PidsInv' /\ LookInv'
  BY <1>1, <1>2, <1>3 DEF IInv, PidsInv, LookInv
<1>6. PlaceInv' /\ RoundInv'
  BY <1>1, <1>3, <1>4, WatchDogAssumption DEF IInv, TypeOK, PlaceInv, RoundInv, Procs
<1>. QED
  BY <1>4, <1>5, <1>6 DEF IInv

LEMMA AddKeeps ==
  ASSUME IInv, add_process
  PROVE  IInv'
<1>1. /\ i \in Procs /\ Len(processes) < i
      /\ UNCHANGED <<now, alive, unborn, mtime, pid, current_time, checked, mod_time, silent>>
  BY DEF IInv, PlaceInv, add_process, game, look
<1>2. Len(processes) \in Nat /\ processes \in Seq(MonitoredProcess) /\ TypeOK
  BY ListTypes DEF IInv
<1>3. \/ pc' = "add" /\ i' = i + 1 /\ i' \in Procs
      \/ pc' = "round" /\ i' = 1
  BY <1>1, WatchDogAssumption DEF Procs, add_process
<1>4. /\ processes' \in Seq(MonitoredProcess) /\ Len(processes') <= Len(processes) + 1
      /\ Len(processes') \in Nat
      /\ \A j \in 1 .. Len(processes') : processes'[j].pid = pid[processes'[j].proc]
  <2>1. CASE mtime[i] = NoFile
    BY <2>1, <1>2 DEF add_process, IInv, PidsInv
  <2>2. CASE mtime[i] # NoFile
    <3>. DEFINE e == [proc |-> i, pid |-> pid[i], last_update |-> mtime[i]]
    <3>1. e \in MonitoredProcess /\ e.pid = pid[e.proc]
      BY <2>2, <1>1, <1>2 DEF TypeOK, MonitoredProcess
    <3>2. processes' = Append(processes, e)
      BY <2>2 DEF add_process
    <3>. HIDE DEF e
    <3>3. /\ processes' \in Seq(MonitoredProcess) /\ Len(processes') = Len(processes) + 1
          /\ \A j \in 1 .. Len(processes) : processes'[j] = processes[j]
          /\ processes'[Len(processes) + 1] = e
      BY <3>1, <3>2, <1>2, AppendProperties
    <3>4. ASSUME NEW j \in 1 .. Len(processes') PROVE processes'[j].pid = pid[processes'[j].proc]
      <4>1. CASE j <= Len(processes)
        BY <4>1, <3>3, <1>2 DEF IInv, PidsInv
      <4>2. CASE j = Len(processes) + 1
        BY <4>2, <3>1, <3>3
      <4>. QED  BY <4>1, <4>2, <3>3, <1>2
    <3>. QED  BY <3>3, <3>4, <1>2
  <2>. QED  BY <2>1, <2>2
<1>5. TypeOK'
  BY <1>1, <1>2, <1>3, <1>4, WatchDogAssumption DEF TypeOK, Procs, MonitoredProcess
<1>6. PidsInv' /\ RoundInv' /\ LookInv'
  BY <1>1, <1>3, <1>4 DEF IInv, PidsInv, RoundInv, LookInv
<1>7. PlaceInv'
  BY <1>1, <1>2, <1>3, <1>4, WatchDogAssumption DEF IInv, PlaceInv, Procs
<1>. QED  BY <1>5, <1>6, <1>7 DEF IInv

-----------------------------------------------------------------------------
\* Steps of the round that leave the list as it is.
LEMMA RoundKeeps ==
  ASSUME IInv, BeginRound \/ KillAll \/ FoundAlive \/ EndRound \/ WakeUp
  PROVE  IInv'
<1>1. /\ UNCHANGED <<now, unborn, mtime, pid, processes, mod_time, silent>> /\ TypeOK
      /\ Len(processes) \in Nat /\ \A j \in 1 .. Len(processes) : processes[j].proc \in Procs
  BY ListTypes DEF IInv, BeginRound, KillAll, FoundAlive, EndRound, WakeUp, game, look
<1>2. PidsInv'
  BY <1>1 DEF IInv, PidsInv
<1>3. CASE BeginRound
  <2>1. /\ pc' = "check" /\ i' = 1 /\ current_time' = now /\ UNCHANGED <<alive, checked>>
    BY <1>3 DEF BeginRound, game
  <2>2. TypeOK'
    BY <1>1, <2>1, WatchDogAssumption DEF TypeOK
  <2>3. PlaceInv' /\ RoundInv' /\ LookInv'
    BY <1>1, <2>1, <2>2 DEF IInv, TypeOK, PlaceInv, RoundInv, LookInv
  <2>. QED  BY <1>2, <2>2, <2>3 DEF IInv
<1>4. CASE KillAll
  <2>1. /\ alive' \in [Procs -> BOOLEAN] /\ pc' = "exited"
        /\ UNCHANGED <<i, current_time, checked>>
    BY <1>1, <1>4 DEF TypeOK, KillAll, Killed
  <2>. QED  BY <1>1, <1>2, <2>1 DEF IInv, TypeOK, PlaceInv, RoundInv, LookInv
<1>5. CASE FoundAlive
  <2>1. /\ pc = "check" /\ i \in 1 .. Len(processes) /\ pc' = "look"
        /\ UNCHANGED <<alive, i, current_time, checked>>
    BY <1>1, <1>5 DEF TypeOK, FoundAlive, process_count, game
  <2>. QED  BY <1>1, <1>2, <2>1 DEF IInv, TypeOK, PlaceInv, RoundInv, LookInv
<1>6. CASE EndRound
  <2>1. /\ pc = "check" /\ i > Len(processes) /\ pc' = "sleep"
        /\ UNCHANGED <<alive, i, current_time, checked>>
    BY <1>6 DEF EndRound, process_count, game
  <2>. QED  BY <1>1, <1>2, <2>1 DEF IInv, TypeOK, PlaceInv, RoundInv, LookInv
<1>7. CASE WakeUp
  <2>1. pc' = "round" /\ checked' = {} /\ UNCHANGED <<alive, i, current_time>>
    BY <1>7 DEF WakeUp, game
  <2>. QED  BY <1>1, <1>2, <2>1 DEF IInv, TypeOK, PlaceInv, RoundInv, LookInv
<1>. QED  BY <1>3, <1>4, <1>5, <1>6, <1>7

LEMMA LookKeeps ==
  ASSUME IInv, Look
  PROVE  IInv'
<1>1. /\ TypeOK /\ pc = "look" /\ pc' = "compare" /\ i \in 1 .. Len(processes)
      /\ Len(processes) \in Nat /\ processes[i].proc \in Procs
      /\ checked' = checked \cup {processes[i].proc} /\ mod_time' = mtime[processes[i].proc]
      /\ silent' = (now - mtime[processes[i].proc] > timeout)
      /\ UNCHANGED <<now, alive, unborn, mtime, pid, processes, i, current_time>>
  BY ListTypes DEF IInv, PlaceInv, Look, Entry, game
<1>2. TypeOK'
  BY <1>1 DEF TypeOK
<1>3. PidsInv' /\ PlaceInv' /\ RoundInv'
  BY <1>1 DEF IInv, PidsInv, PlaceInv, RoundInv
<1>4. LookInv'
  <2>1. ASSUME current_time' - mod_time' > timeout
        PROVE  now - mtime[processes[i].proc] > timeout
    <3>1. /\ current_time \in Int /\ now \in Int /\ current_time <= now /\ timeout \in Int
          /\ mtime[processes[i].proc] \in Int
      BY <1>1, WatchDogAssumption DEF IInv, TypeOK, RoundInv, NoFile
    <3>. QED  BY <1>1, <2>1, <3>1
  <2>. QED  BY <1>1, <2>1, Zenon DEF LookInv
<1>. QED  BY <1>2, <1>3, <1>4 DEF IInv

LEMMA PassKeeps ==
  ASSUME IInv, Pass
  PROVE  IInv'
<1>1. /\ TypeOK /\ pc = "compare" /\ pc' = "check" /\ i \in 1 .. Len(processes)
      /\ Len(processes) \in Nat /\ i' = i + 1 /\ mod_time' = NoFile /\ silent' = FALSE
      /\ UNCHANGED <<now, alive, unborn, mtime, pid, processes, current_time, checked>>
  BY ListTypes DEF IInv, PlaceInv, Pass, Forget, game
<1>2. TypeOK'
  <2>1. i' \in 1 .. NumProcs + 1
    BY <1>1, WatchDogAssumption DEF IInv, PlaceInv
  <2>. QED  BY <1>1, <2>1 DEF TypeOK
<1>3. PlaceInv'
  BY <1>1, <1>2 DEF IInv, TypeOK, PlaceInv
<1>4. PidsInv' /\ LookInv'
  BY <1>1 DEF IInv, PidsInv, LookInv
<1>5. RoundInv'
  BY <1>1 DEF IInv, TypeOK, RoundInv
<1>. QED  BY <1>2, <1>3, <1>4, <1>5 DEF IInv

LEMMA UpdateKeeps ==
  ASSUME IInv, Update
  PROVE  IInv'
<1>1. /\ TypeOK /\ pc = "compare" /\ i \in 1 .. Len(processes) /\ Len(processes) \in Nat
      /\ processes \in Seq(MonitoredProcess) /\ processes[i].last_update \in 0 .. MaxTime
      /\ i' = i + 1 /\ pc' = "check" /\ mod_time' = NoFile /\ silent' = FALSE
      /\ UNCHANGED <<now, alive, unborn, mtime, pid, current_time, checked>>
  BY ListTypes DEF IInv, PlaceInv, Update, Forget, game
<1>2. \A j \in 1 .. Len(processes) : processes[j] \in MonitoredProcess /\ processes[j].proc \in Procs
  BY <1>1, ListTypes
<1>. DEFINE e == [processes[i] EXCEPT !.last_update = mod_time]
<1>3. mod_time \in 0 .. MaxTime
  BY <1>1 DEF TypeOK, NoFile, Update, Entry
<1>4. e \in MonitoredProcess /\ e.proc = processes[i].proc /\ e.pid = processes[i].pid
  BY <1>1, <1>2, <1>3 DEF MonitoredProcess
<1>5. processes' = [processes EXCEPT ![i] = e]
  BY <1>1 DEF Update, Entry
<1>. HIDE DEF e
<1>6. /\ processes' \in Seq(MonitoredProcess) /\ Len(processes') = Len(processes)
      /\ \A j \in 1 .. Len(processes) : processes'[j] = IF j = i THEN e ELSE processes[j]
  BY <1>1, <1>4, <1>5, ExceptSeq
<1>7. \A j \in 1 .. Len(processes) : /\ processes'[j].proc = processes[j].proc
                                     /\ processes'[j].pid = processes[j].pid
  BY <1>4, <1>6
<1>8. TypeOK'
  <2>1. i' \in 1 .. NumProcs + 1
    BY <1>1, WatchDogAssumption DEF IInv, PlaceInv
  <2>. QED  BY <1>1, <1>6, <2>1 DEF TypeOK, MonitoredProcess
<1>9. PidsInv' /\ PlaceInv' /\ LookInv'
  BY <1>1, <1>6, <1>7 DEF IInv, PidsInv, PlaceInv, LookInv
<1>10. RoundInv'
  BY <1>1, <1>6, <1>7 DEF IInv, RoundInv
<1>. QED  BY <1>8, <1>9, <1>10 DEF IInv

\* The entries before the index stay where they are, and have all been looked at.
LEMMA TimeOutKeeps ==
  ASSUME IInv, TimeOut
  PROVE  IInv'
<1>1. /\ TypeOK /\ pc = "compare" /\ i \in 1 .. Len(processes) /\ Len(processes) \in Nat
      /\ processes \in Seq(MonitoredProcess) /\ processes[i].proc \in Procs
      /\ pc' = "check" /\ mod_time' = NoFile /\ silent' = FALSE
      /\ UNCHANGED <<now, unborn, mtime, pid, i, current_time, checked>>
  BY ListTypes DEF IInv, PlaceInv, TimeOut, Forget
<1>2. alive' \in [Procs -> BOOLEAN]
  BY <1>1 DEF TypeOK, TimeOut, Killed
<1>3. processes' = SubSeq(processes, 1, i - 1) \o SubSeq(processes, i + 1, Len(processes))
  BY DEF TimeOut, process_count
<1>4. /\ processes' \in Seq(MonitoredProcess) /\ Len(processes') = Len(processes) - 1
      /\ \A j \in 1 .. Len(processes') : processes'[j] = IF j < i THEN processes[j] ELSE processes[j + 1]
  BY <1>1, <1>3, Removed
<1>5. TypeOK'
  BY <1>1, <1>2, <1>4 DEF TypeOK, MonitoredProcess
<1>6. PidsInv'
  <2>. SUFFICES ASSUME NEW j \in 1 .. Len(processes')
                PROVE  processes'[j].pid = pid[processes'[j].proc]
    BY <1>1 DEF IInv, PidsInv
  <2>1. \E k \in 1 .. Len(processes) : processes'[j] = processes[k]
    <3>1. CASE j < i
      BY <3>1, <1>1, <1>4
    <3>2. CASE ~(j < i)
      BY <3>2, <1>1, <1>4
    <3>. QED  BY <3>1, <3>2
  <2>. QED  BY <2>1, <1>1 DEF IInv, PidsInv
<1>7. PlaceInv' /\ LookInv'
  BY <1>1, <1>4, WatchDogAssumption DEF IInv, PlaceInv, LookInv
<1>8. RoundInv'
  <2>. SUFFICES ASSUME NEW j \in 1 .. Len(processes'), j < i
                PROVE  processes'[j].proc \in checked'
    BY <1>1 DEF IInv, RoundInv
  <2>. QED  BY <1>1, <1>4 DEF IInv, RoundInv
<1>. QED  BY <1>5, <1>6, <1>7, <1>8 DEF IInv

LEMMA Steps == IInv /\ [Next]_vars => IInv'
<1>. SUFFICES ASSUME IInv, [Next]_vars PROVE IInv'
  OBVIOUS
<1>1. CASE UNCHANGED vars
  BY <1>1 DEF IInv, TypeOK, PidsInv, PlaceInv, RoundInv, LookInv, vars, game, look
<1>2. CASE Next
  BY <1>2, ProcessesKeep, LookUpKeeps, AddKeeps, RoundKeeps, LookKeeps, PassKeeps,
     UpdateKeeps, TimeOutKeeps DEF Next, Watch
<1>. QED  BY <1>1, <1>2

-----------------------------------------------------------------------------
(***************************************************************************)
(* The theorems.                                                           *)
(***************************************************************************)
\* In every state the list, the pids and the place in the round are what the loop of
\* monitor_processes takes them for.
THEOREM Inductive == Spec => []IInv
  BY Starts, Steps, PTL DEF Spec

\* Types: the list never has more entries than there are processes, and no entry with
\* the time of a log that does not exist (add_process).
THEOREM TypeCorrect == Spec => []TypeOK
<1>1. IInv => TypeOK
  BY DEF IInv
<1>. QED  BY <1>1, Inductive, PTL

\* Removing an entry in the middle of the loop (WatchDog.c:84-90) makes it skip nobody,
\* however many entries go in one round.
THEOREM NobodyOverlookedHolds == Spec => []NobodyOverlooked
<1>1. IInv => NobodyOverlooked
  BY ListTypes DEF IInv, RoundInv, NobodyOverlooked
<1>. QED  BY <1>1, Inductive, PTL

\* In a step of the watchdog a process dies for its own silence, for the end of one of
\* the list, or for the silence of one whose pid is not known.
LEMMA Cause ==
  ASSUME IInv, Watch, NEW p \in Procs, alive[p], ~alive'[p]
  PROVE  \/ silent /\ Entry.proc = p
         \/ \E q \in Procs : Found(q) /\ ~alive[q]
         \/ silent /\ ~Found(Entry.proc)
<1>1. KillAll \/ TimeOut
  BY DEF Watch, LookUp, add_process, BeginRound, FoundAlive, Look, Update, Pass, EndRound,
         WakeUp, game
<1>2. TypeOK /\ i \in 1 .. Len(processes) /\ i \in DOMAIN processes
  <2>1. TypeOK /\ i \in Nat \ {0} /\ Len(processes) \in Nat
    BY ListTypes, WatchDogAssumption DEF IInv, TypeOK
  <2>2. i <= Len(processes)
    <3>1. CASE KillAll
      BY <3>1 DEF KillAll, process_count
    <3>2. CASE TimeOut
      <4>1. pc = "compare"
        BY <3>2 DEF TimeOut
      <4>2. i \in 1 .. Len(processes)
        BY <4>1 DEF IInv, PlaceInv
      <4>. QED  BY <2>1, <4>2
    <3>. QED  BY <1>1, <3>1, <3>2
  <2>. QED  BY <2>1, <2>2, ListTypes
<1>. DEFINE q == processes[i].proc
<1>3. /\ q \in Procs /\ Entry.pid = pid[q] /\ pid[q] \in {q, NoPid} /\ q # NoPid
      /\ processes[i].last_update \in 0 .. MaxTime /\ Entry = processes[i]
  BY <1>2, ListTypes DEF IInv, PidsInv, Entry, NoPid, Procs
<1>4. Found(q) <=> pid[q] = q
  BY <1>2, <1>3, ListTypes DEF IInv, PidsInv, Found, Entry
<1>5. CASE KillAll
  <2>1. Entry.pid \in Procs /\ ~alive[Entry.pid]
    BY <1>5 DEF KillAll, is_process_alive
  <2>2. pid[q] = q
    BY <1>3, <2>1 DEF NoPid, Procs
  <2>. QED  BY <1>3, <1>4, <2>1, <2>2
<1>6. CASE TimeOut
  <2>1. /\ alive' = Killed({pid[q]}) /\ pc = "compare" /\ mod_time <= processes[i].last_update
        /\ current_time - processes[i].last_update > timeout
    BY <1>3, <1>6 DEF TimeOut, Overdue
  <2>2. current_time - mod_time > timeout
    BY <2>1, <1>2, <1>3, WatchDogAssumption DEF TypeOK, NoFile
  <2>3. silent
    BY <2>1, <2>2 DEF IInv, LookInv
  <2>4. p = pid[q] \/ pid[q] = NoPid
    BY <2>1 DEF Killed
  <2>. QED  BY <1>3, <1>4, <2>3, <2>4
<1>. QED  BY <1>1, <1>5, <1>6

\* The watchdog never kills a process that has logged within timeout before the look of
\* the round at its log, as long as nobody of its list has ended and all were found:
\* in spite of a clock that it reads only once in a round, before the look.
THEOREM KillsOnlyForCauseHolds == Spec => KillsOnlyForCause
<1>1. IInv /\ [Next]_vars =>
        [\A p \in Procs : Watch /\ alive[p] /\ ~alive'[p] =>
           \/ silent /\ Entry.proc = p
           \/ \E q \in Procs : Found(q) /\ ~alive[q]
           \/ silent /\ ~Found(Entry.proc)]_vars
  BY Cause
<1>. QED  BY <1>1, Inductive, PTL DEF Spec, KillsOnlyForCause
=============================================================================
