------------------------------- MODULE Logger -------------------------------
(***************************************************************************)
(* One log file and the processes that log to it with log_message.  Every  *)
(* call appends a line, reads the whole file back, truncates it and writes *)
(* the last lines again, each through an open of its own: the watchdog may *)
(* kill the process in between, and in the mode "both" two generators of   *)
(* the same kind share one file.                                           *)
(*                                                                         *)
(* Messages are numbered in the order in which they are appended.  A file  *)
(* is the sequence of its lines; lines are taken to be of equal length, so *)
(* that a write at the start of the file replaces whole lines.             *)
(***************************************************************************)
EXTENDS Integers, FiniteSets, Sequences

CONSTANTS
  Loggers,      \* the processes that log to the file
  MAX_LINES,    \* of logger.h
  MaxMessages,  \* bound: how many messages are logged
  MayCrash      \* a process may be killed at any moment

ASSUME LoggerAssumption ==
  /\ IsFiniteSet(Loggers) /\ MAX_LINES \in Nat \ {0}
  /\ MaxMessages \in Nat /\ MayCrash \in BOOLEAN

VARIABLES
  pc,       \* where each process is in log_message
  file,     \* the lines of the file
  buffer,   \* the lines each process has read back
  logged,   \* how many messages have been appended
  clean     \* history: no two calls have overlapped, and none was cut short

vars == <<pc, file, buffer, logged, clean>>

Idle(p) == pc[p] \in {"idle", "dead"}

\* Mutant of Shift: the lines are only shifted when the buffer overflows.
ShiftLater(lines) == IF Len(lines) > MAX_LINES THEN Tail(lines) ELSE lines

\* Mutant of Shift: the lines are not moved up, and the next one read takes the
\* place of the newest.
ShiftForgotten(lines) ==
  IF Len(lines) >= MAX_LINES THEN SubSeq(lines, 1, Len(lines) - 1) ELSE lines

\* The first line is dropped as soon as the buffer is full.
Shift(lines) == IF Len(lines) >= MAX_LINES THEN Tail(lines) ELSE lines

\* The loop of retainLastNLines: kept[k] is its buffer once k lines have been read.
Retained(lines) ==
  LET kept[k \in 0 .. Len(lines)] ==
        IF k = 0 THEN <<>> ELSE Shift(Append(kept[k - 1], lines[k]))
  IN kept[Len(lines)]

\* The lines the final loop writes: at most n of the buffer's.
LastLines(lines, n) == SubSeq(lines, (IF Len(lines) > n THEN Len(lines) - n ELSE 0) + 1, Len(lines))

\* fopen(log_file, "a"), fprintf, fclose.
AppendLine(p) ==
  /\ pc[p] = "idle" /\ logged < MaxMessages
  /\ logged' = logged + 1
  /\ file' = Append(file, logged')
  /\ pc' = [pc EXCEPT ![p] = "read"]
  /\ clean' = (clean /\ \A q \in Loggers : Idle(q))
  /\ UNCHANGED buffer

ReadBack(p) ==
  /\ pc[p] = "read"
  /\ buffer' = [buffer EXCEPT ![p] = Retained(file)]
  /\ pc' = [pc EXCEPT ![p] = "truncate"]
  /\ UNCHANGED <<file, logged, clean>>

\* Mutant of Truncate: the file is opened with "r+".
TruncateNot(p) ==
  /\ pc[p] = "truncate"
  /\ pc' = [pc EXCEPT ![p] = "write"]
  /\ UNCHANGED <<file, buffer, logged, clean>>

\* fopen(filename, "w").
Truncate(p) ==
  /\ pc[p] = "truncate"
  /\ file' = <<>>
  /\ pc' = [pc EXCEPT ![p] = "write"]
  /\ UNCHANGED <<buffer, logged, clean>>

\* fprintf and fclose: the lines go to the start of the file, over whatever
\* another process has put there since.
WriteBack(p) ==
  /\ pc[p] = "write"
  /\ LET lines == LastLines(buffer[p], MAX_LINES)
     IN  file' = lines \o SubSeq(file, Len(lines) + 1, Len(file))
  /\ pc' = [pc EXCEPT ![p] = "idle"]
  /\ UNCHANGED <<buffer, logged, clean>>

\* SIGKILL by the watchdog, or SIGPIPE between two calls.
Crash(p) ==
  /\ MayCrash /\ pc[p] # "dead"
  /\ pc' = [pc EXCEPT ![p] = "dead"]
  /\ clean' = (clean /\ Idle(p))
  /\ UNCHANGED <<file, buffer, logged>>

Init ==
  /\ pc = [p \in Loggers |-> "idle"]
  /\ file = <<>>
  /\ buffer = [p \in Loggers |-> <<>>]
  /\ logged = 0 /\ clean = TRUE

Next ==
  \E p \in Loggers : \/ AppendLine(p) \/ ReadBack(p) \/ Truncate(p)
                     \/ WriteBack(p) \/ Crash(p)

Spec == Init /\ [][Next]_vars

-----------------------------------------------------------------------------
(***************************************************************************)
(* Properties.                                                             *)
(***************************************************************************)
\* The buffer has room for every line that is read (char buffer[MAX_LINES], logger.c:44).
TypeOK ==
  /\ pc \in [Loggers -> {"idle", "read", "truncate", "write", "dead"}]
  /\ file \in Seq(1 .. logged)
  /\ buffer \in [Loggers -> Seq(1 .. logged)]
  /\ \A p \in Loggers : Len(buffer[p]) < MAX_LINES
  /\ logged \in 0 .. MaxMessages /\ clean \in BOOLEAN

\* The last n of the messages logged so far.
Latest(n) == [i \in 1 .. (IF logged < n THEN logged ELSE n) |->
                (IF logged < n THEN 0 ELSE logged - n) + i]

\* As long as no calls overlap and none is cut short the file holds, between the
\* calls, the latest messages, in order and with none left out between them: all
\* while they are few, then no more than MAX_LINES and short of that by one at most.
LatestKept ==
  clean /\ (\A p \in Loggers : Idle(p)) =>
    /\ file = Latest(Len(file))
    /\ Len(file) <= MAX_LINES
    /\ Len(file) >= IF logged < MAX_LINES - 1 THEN logged ELSE MAX_LINES - 1

\* logger.c:36 "Retain only the last 5 lines", where MAX_LINES, 5, is the number
\* passed: between calls that nothing has disturbed the file holds that many.
LastLinesRetained ==
  clean /\ (\A p \in Loggers : Idle(p)) => file = Latest(MAX_LINES)

\* However the calls of several processes overlap, and whoever is killed in the
\* middle of one, the file never outgrows what is kept by a line for each of
\* them.
LogBounded == Len(file) < MAX_LINES + Cardinality(Loggers)
=============================================================================
