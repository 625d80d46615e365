---------------------------- MODULE LoggerProofs ----------------------------
(***************************************************************************)
(* The log file, for any set of processes, any MAX_LINES and any number of *)
(* messages.                                                               *)
(*                                                                         *)
(* What retainLastNLines keeps is computed by a loop, and so by induction  *)
(* over the lines.  The induction theorems of the library are about        *)
(* operators, which no prover here instantiates; but they follow, for      *)
(* sets, from the well-foundedness of the numbers.                         *)
(***************************************************************************)
EXTENDS Logger, SequenceTheorems, FiniteSetTheorems, WellFoundedInduction, TLAPS

(***************************************************************************)
(* Induction.                                                              *)
(***************************************************************************)
LEMMA Least ==
  ASSUME NEW T \in SUBSET Nat, T # {}
  PROVE  \E m \in T : \A k \in T : m <= k
<1>1. \A k, m \in Nat : k < m => <<k, m>> \in OpToRel(<, Nat)
  BY Zenon DEF OpToRel
<1>2. PICK R : IsWellFoundedOn(R, Nat) /\ \A k, m \in Nat : k < m => <<k, m>> \in R
  BY <1>1, NatLessThanWellFounded, Zenon
<1>3. IsWellFoundedOn(R, Nat) /\ T \subseteq Nat
  BY <1>2
<1>4. \E m \in T : \A k \in T : ~(<<k, m>> \in R)
  BY <1>3, WFMin, Zenon
<1>5. PICK m \in T : \A k \in T : ~(<<k, m>> \in R)
  BY <1>4
<1>6. \A k \in T : ~(k < m)
  BY <1>2, <1>5, Zenon
<1>7. \A k \in T : k \in Nat /\ m \in Nat
  OBVIOUS
<1>. QED  BY <1>6, <1>7

LEMMA Induction ==
  ASSUME NEW S, 0 \in S, \A n \in Nat : n \in S => n + 1 \in S
  PROVE  Nat \subseteq S
<1>. SUFFICES ASSUME Nat \ S # {} PROVE FALSE
  OBVIOUS
<1>1. PICK m \in Nat \ S : \A k \in Nat \ S : m <= k
  BY Least
<1>2. m # 0 /\ m - 1 \in Nat
  BY <1>1
<1>3. m - 1 \in S
  BY <1>1, <1>2
<1>. QED  BY <1>1, <1>2, <1>3

(***************************************************************************)
(* The loop of retainLastNLines.                                           *)
(***************************************************************************)
\* Everything a function of the first n steps of the loop has to fulfil.
Loop(lines, n, kept) ==
  kept = [k \in 0 .. n |-> IF k = 0 THEN <<>> ELSE Shift(Append(kept[k - 1], lines[k]))]

\* However long the file is, the loop has a result.
LEMMA LoopExists ==
  ASSUME NEW lines, NEW n \in Nat
  PROVE  \E kept : Loop(lines, n, kept)
<1>. DEFINE S == {m \in Nat : \E kept : Loop(lines, m, kept)}
<1>1. 0 \in S
  <2>1. Loop(lines, 0, [k \in 0 .. 0 |-> <<>>])
    BY DEF Loop
  <2>. QED  BY <2>1
<1>2. ASSUME NEW m \in Nat, m \in S
      PROVE  m + 1 \in S
  <2>1. PICK g : Loop(lines, m, g)
    BY <1>2
  <2>. DEFINE next == Shift(Append(g[m], lines[m + 1]))
              h == [k \in 0 .. m + 1 |-> IF k = m + 1 THEN next ELSE g[k]]
  <2>2. \A k \in 0 .. m : h[k] = g[k]
    OBVIOUS
  <2>3. ASSUME NEW k \in 0 .. m + 1
        PROVE  h[k] = IF k = 0 THEN <<>> ELSE Shift(Append(h[k - 1], lines[k]))
    <3>1. CASE k = m + 1
      <4>1. h[k] = next /\ k # 0 /\ k - 1 = m /\ h[k - 1] = g[m]
        BY <2>2, <3>1
      <4>. QED  BY <3>1, <4>1
    <3>2. CASE k \in 0 .. m /\ k # 0
      <4>1. g[k] = Shift(Append(g[k - 1], lines[k]))
        BY <2>1, <3>2 DEF Loop
      <4>2. h[k] = g[k] /\ k - 1 \in 0 .. m
        BY <2>2, <3>2
      <4>. HIDE DEF h
      <4>. QED  BY <2>2, <3>2, <4>1, <4>2
    <3>3. CASE k = 0
      <4>1. g[0] = <<>>
        BY <2>1 DEF Loop
      <4>. QED  BY <2>2, <3>3, <4>1
    <3>. QED  BY <2>3, <3>1, <3>2, <3>3
  <2>4. h = [k \in 0 .. m + 1 |-> h[k]]
    OBVIOUS
  <2>. HIDE DEF h
  <2>5. Loop(lines, m + 1, h)
    BY <2>3, <2>4 DEF Loop
  <2>. QED  BY <2>5
<1>. HIDE DEF S
<1>3. Nat \subseteq S
  BY <1>1, <1>2, Induction
<1>. QED  BY <1>3 DEF S

\* How many lines are kept of n.
Kept(n) == IF n < MAX_LINES THEN n ELSE MAX_LINES - 1

\* A buffer with the last lines of those that have been read.
IsLast(kept, lines, n) ==
  /\ Len(kept) = Kept(n)
  /\ \A i \in 1 .. Kept(n) : kept[i] = lines[n - Kept(n) + i]

LEMMA ShiftStep ==
  ASSUME NEW S, NEW lines \in Seq(S), NEW n \in Nat, n < Len(lines),
         NEW kept \in Seq(S), IsLast(kept, lines, n)
  PROVE  LET next == Shift(Append(kept, lines[n + 1]))
         IN next \in Seq(S) /\ IsLast(next, lines, n + 1)
<1>. DEFINE longer == Append(kept, lines[n + 1])
<1>1. MAX_LINES \in Nat /\ MAX_LINES >= 1
  BY LoggerAssumption
<1>2. lines[n + 1] \in S
  OBVIOUS
<1>3. /\ longer \in Seq(S) /\ longer # <<>>
      /\ Len(longer) = Kept(n) + 1 /\ Kept(n) \in Nat
      /\ \A i \in 1 .. Kept(n) : longer[i] = lines[n - Kept(n) + i]
      /\ longer[Kept(n) + 1] = lines[n + 1]
  <2>1. Kept(n) \in Nat /\ Len(kept) = Kept(n)
    BY <1>1 DEF IsLast, Kept
  <2>2. \A i \in 1 .. Len(kept) : kept[i] = lines[n - Kept(n) + i]
    BY <2>1 DEF IsLast
  <2>. QED  BY <1>2, <2>1, <2>2, AppendProperties
<1>. HIDE DEF longer
<1>4. ASSUME NEW i \in 1 .. Kept(n) + 1
      PROVE  longer[i] = lines[n - Kept(n) + i]
  <2>1. CASE i = Kept(n) + 1
    <3>1. n - Kept(n) + i = n + 1
      BY <1>3, <2>1
    <3>. QED  BY <1>3, <2>1, <3>1
  <2>2. CASE i \in 1 .. Kept(n)
    BY <1>3, <2>2
  <2>. QED  BY <1>3, <2>1, <2>2
<1>5. CASE Kept(n) + 1 < MAX_LINES
  <2>1. Kept(n + 1) = Kept(n) + 1 /\ Kept(n) = n
    BY <1>1, <1>5 DEF Kept
  <2>2. Shift(longer) = longer
    BY <1>1, <1>3, <1>5 DEF Shift
  <2>3. n + 1 - Kept(n + 1) = n - Kept(n)
    BY <2>1
  <2>4. longer \in Seq(S) /\ IsLast(longer, lines, n + 1)
    BY <1>3, <1>4, <2>1, <2>3 DEF IsLast
  <2>. QED  BY <2>2, <2>4 DEF longer
<1>6. CASE ~(Kept(n) + 1 < MAX_LINES)
  <2>1. Kept(n + 1) = MAX_LINES - 1 /\ Kept(n) = MAX_LINES - 1
    BY <1>1, <1>6 DEF Kept
  <2>2. Shift(longer) = Tail(longer)
    BY <1>1, <1>3, <1>6 DEF Shift
  <2>3. /\ Tail(longer) \in Seq(S) /\ Len(Tail(longer)) = Kept(n)
        /\ \A i \in 1 .. Kept(n) : Tail(longer)[i] = longer[i + 1]
    BY <1>3, HeadTailProperties
  <2>4. ASSUME NEW i \in 1 .. Kept(n)
        PROVE  Tail(longer)[i] = lines[n + 1 - Kept(n) + i]
    <3>1. i + 1 \in 1 .. Kept(n) + 1 /\ n - Kept(n) + (i + 1) = n + 1 - Kept(n) + i
      BY <1>3
    <3>. QED  BY <1>4, <2>3, <3>1
  <2>5. Kept(n) = Kept(n + 1)
    BY <2>1
  <2>. HIDE DEF longer
  <2>6. Len(Tail(longer)) = Kept(n + 1)
        /\ \A i \in 1 .. Kept(n + 1) : Tail(longer)[i] = lines[n + 1 - Kept(n + 1) + i]
    BY <2>3, <2>4, <2>5, Zenon
  <2>7. IsLast(Tail(longer), lines, n + 1)
    BY <2>6 DEF IsLast
  <2>. QED  BY <2>2, <2>3, <2>7 DEF longer
<1>. QED  BY <1>5, <1>6

\* Of a file of any length exactly the last lines are kept, one less than MAX_LINES
\* (retainLastNLines, logger.c:43-82).
THEOREM RetainedIsLast ==
  ASSUME NEW S, NEW lines \in Seq(S)
  PROVE  Retained(lines) \in Seq(S) /\ IsLast(Retained(lines), lines, Len(lines))
<1>. DEFINE N == Len(lines)
            kept == CHOOSE f : Loop(lines, N, f)
            T == {n \in Nat : n <= N => kept[n] \in Seq(S) /\ IsLast(kept[n], lines, n)}
<1>1. N \in Nat /\ MAX_LINES \in Nat /\ MAX_LINES >= 1
  BY LoggerAssumption
<1>2. Loop(lines, N, kept)
  BY <1>1, LoopExists, Zenon
<1>3. Retained(lines) = kept[N]
  BY Zenon DEF Retained, Loop
<1>. HIDE DEF kept
<1>4. kept[0] = <<>> /\ \A k \in 0 .. N : k # 0 => kept[k] = Shift(Append(kept[k - 1], lines[k]))
  <2>1. ASSUME NEW k \in 0 .. N
        PROVE  kept[k] = IF k = 0 THEN <<>> ELSE Shift(Append(kept[k - 1], lines[k]))
    BY <1>2, Zenon DEF Loop
  <2>. QED  BY <1>1, <2>1
<1>5. 0 \in T
  <2>1. Kept(0) = 0
    BY <1>1 DEF Kept
  <2>2. kept[0] = <<>>
    BY <1>4
  <2>3. <<>> \in Seq(S) /\ IsLast(<<>>, lines, 0)
    BY <2>1 DEF IsLast
  <2>. QED  BY <2>2, <2>3, <1>1
<1>6. ASSUME NEW n \in Nat, n \in T
      PROVE  n + 1 \in T
  <2>. SUFFICES ASSUME n + 1 <= N
                PROVE  kept[n + 1] \in Seq(S) /\ IsLast(kept[n + 1], lines, n + 1)
    OBVIOUS
  <2>1. kept[n + 1] = Shift(Append(kept[n], lines[n + 1]))
    <3>1. n + 1 \in 0 .. N /\ n + 1 # 0 /\ n + 1 - 1 = n
      BY <1>1
    <3>. QED  BY <1>4, <3>1
  <2>2. kept[n] \in Seq(S) /\ IsLast(kept[n], lines, n) /\ n < Len(lines)
    BY <1>1, <1>6
  <2>. QED  BY <2>1, <2>2, ShiftStep
<1>. HIDE DEF T
<1>7. N \in T
  BY <1>1, <1>5, <1>6, Induction
<1>. QED  BY <1>1, <1>3, <1>7 DEF T

(***************************************************************************)
(* What the file holds.                                                    *)
(***************************************************************************)
\* The last n of l messages.
Numbers(n, l) == [i \in 1 .. (IF l < n THEN l ELSE n) |-> (IF l < n THEN 0 ELSE l - n) + i]

LEMMA NumbersType ==
  ASSUME NEW n \in Nat, NEW l \in Nat
  PROVE  /\ Numbers(n, l) \in Seq(1 .. l)
         /\ Len(Numbers(n, l)) = (IF l < n THEN l ELSE n)
         /\ \A i \in 1 .. Len(Numbers(n, l)) : Numbers(n, l)[i] = l - Len(Numbers(n, l)) + i
<1>. DEFINE m == IF l < n THEN l ELSE n
<1>1. m \in Nat /\ \A i \in 1 .. m : (IF l < n THEN 0 ELSE l - n) + i = l - m + i
  OBVIOUS
<1>2. \A i \in 1 .. m : l - m + i \in 1 .. l
  OBVIOUS
<1>. HIDE DEF m
<1>3. Numbers(n, l) = [i \in 1 .. m |-> l - m + i]
  BY <1>1 DEF Numbers, m
<1>4. [i \in 1 .. m |-> l - m + i] \in [1 .. m -> 1 .. l]
  BY <1>2
<1>5. Numbers(n, l) \in Seq(1 .. l) /\ Len(Numbers(n, l)) = m
  BY <1>1, <1>3, <1>4
<1>. QED  BY <1>3, <1>5 DEF m

\* A message more: s is t with x behind it.
Longer(s, t, x) ==
  /\ Len(s) = Len(t) + 1
  /\ \A i \in 1 .. Len(t) : s[i] = t[i]
  /\ s[Len(t) + 1] = x

LEMMA AppendNumber ==
  ASSUME NEW n \in Nat, NEW l \in Nat, NEW more \in Nat, more = n + 1, NEW next \in Nat, next = l + 1,
         NEW s \in Seq(Nat), Longer(s, Numbers(n, l), next)
  PROVE  s = Numbers(more, next)
<1>. DEFINE t == Numbers(more, next)
            m == Len(Numbers(n, l))
<1>1. /\ Numbers(n, l) \in Seq(Nat) /\ m = (IF l < n THEN l ELSE n)
      /\ \A i \in 1 .. m : Numbers(n, l)[i] = l - m + i
  <2>1. Numbers(n, l) \in Seq(1 .. l) /\ 1 .. l \subseteq Nat
    BY NumbersType
  <2>2. Numbers(n, l) \in Seq(Nat)
    BY <2>1, SeqMonotonic
  <2>. QED  BY <2>2, NumbersType
<1>2. t \in Seq(1 .. l + 1) /\ Len(t) = m + 1 /\ \A i \in 1 .. m + 1 : t[i] = l - m + i
  <2>1. /\ t \in Seq(1 .. next)
        /\ Len(t) = (IF next < more THEN next ELSE more)
        /\ \A i \in 1 .. Len(t) : t[i] = next - Len(t) + i
    BY NumbersType
  <2>. HIDE DEF t, m
  <2>2. Len(t) = m + 1 /\ m \in Nat
    BY <1>1, <2>1
  <2>3. ASSUME NEW i \in 1 .. m + 1
        PROVE  t[i] = l - m + i
    <3>1. t[i] = next - (m + 1) + i
      BY <2>1, <2>2
    <3>. QED  BY <2>2, <3>1
  <2>. QED  BY <2>1, <2>2, <2>3
<1>3. /\ Len(s) = m + 1
      /\ \A i \in 1 .. m : s[i] = l - m + i
      /\ s[m + 1] = l - m + (m + 1)
  BY <1>1 DEF Longer
<1>. HIDE DEF t, m
<1>4. ASSUME NEW i \in 1 .. m + 1
      PROVE  s[i] = t[i]
  <2>1. i \in 1 .. m \/ i = m + 1
    BY <1>1
  <2>2. s[i] = l - m + i
    BY <1>3, <2>1
  <2>. QED  BY <1>2, <2>2
<1>5. t \in Seq(Nat)
  <2>1. 1 .. l + 1 \subseteq Nat
    OBVIOUS
  <2>. QED  BY <1>2, <2>1
<1>6. s = t
  BY <1>2, <1>3, <1>4, <1>5, SeqEqual
<1>. QED  BY <1>6 DEF t

\* What the loop keeps of the latest MAX_LINES messages.
LEMMA RetainedNumbers ==
  ASSUME NEW l \in Nat
  PROVE  Retained(Numbers(MAX_LINES, l)) = Numbers(MAX_LINES - 1, l)
<1>. DEFINE s == Numbers(MAX_LINES, l)
            r == Retained(s)
            t == Numbers(MAX_LINES - 1, l)
<1>1. MAX_LINES \in Nat /\ MAX_LINES >= 1 /\ MAX_LINES - 1 \in Nat
  BY LoggerAssumption
<1>2. /\ s \in Seq(1 .. l) /\ Len(s) = (IF l < MAX_LINES THEN l ELSE MAX_LINES)
      /\ \A i \in 1 .. Len(s) : s[i] = l - Len(s) + i
  BY <1>1, NumbersType
<1>3. /\ t \in Seq(1 .. l) /\ Len(t) = (IF l < MAX_LINES - 1 THEN l ELSE MAX_LINES - 1)
      /\ \A i \in 1 .. Len(t) : t[i] = l - Len(t) + i
  BY <1>1, NumbersType
<1>. HIDE DEF s, t
<1>4. r \in Seq(1 .. l) /\ IsLast(r, s, Len(s))
  BY <1>2, RetainedIsLast
<1>. HIDE DEF r
<1>5. Kept(Len(s)) = Len(t) /\ Len(s) \in Nat /\ Len(t) \in Nat /\ Len(t) <= Len(s)
  BY <1>1, <1>2, <1>3 DEF Kept
<1>6. Len(r) = Len(t) /\ \A i \in 1 .. Len(t) : r[i] = s[Len(s) - Len(t) + i]
  BY <1>4, <1>5 DEF IsLast
<1>7. ASSUME NEW i \in 1 .. Len(t)
      PROVE  r[i] = t[i]
  <2>1. Len(s) - Len(t) + i \in 1 .. Len(s)
    BY <1>5
  <2>2. s[Len(s) - Len(t) + i] = l - Len(s) + (Len(s) - Len(t) + i)
    BY <1>2, <2>1
  <2>. QED  BY <1>3, <1>5, <1>6, <2>2
<1>8. r = t
  BY <1>3, <1>4, <1>6, <1>7, SeqEqual
<1>. QED  BY <1>8 DEF r, s, t

(***************************************************************************)
(* The invariant.                                                          *)
(***************************************************************************)
\* Who has added a line that nobody may have cut off since: a process that will
\* still truncate the file, or never.
Adding == {p \in Loggers : pc[p] \in {"read", "truncate", "dead"}}

\* Whatever is in the file besides what was written back has been added since.
BoundInv == Len(file) < MAX_LINES + Cardinality(Adding)

\* A call that nobody has disturbed has the latest messages in hand.
CallInv(p) ==
  /\ \A q \in Loggers : q # p => Idle(q)
  /\ pc[p] = "read" => file = Numbers(MAX_LINES, logged)
  /\ pc[p] = "truncate" => buffer[p] = Numbers(MAX_LINES - 1, logged)
  /\ pc[p] = "write" => file = <<>> /\ buffer[p] = Numbers(MAX_LINES - 1, logged)

CleanInv ==
  clean => /\ \A p \in Loggers : ~Idle(p) => CallInv(p)
           /\ (\A p \in Loggers : Idle(p)) => file = Numbers(MAX_LINES - 1, logged)

IInv == TypeOK /\ BoundInv /\ CleanInv

\* The processes that are adding can be counted.
LEMMA Counting ==
  ASSUME NEW A \in SUBSET Loggers
  PROVE  /\ IsFiniteSet(A) /\ Cardinality(A) \in Nat /\ Cardinality(A) <= Cardinality(Loggers)
         /\ \A p \in Loggers : p \notin A => Cardinality(A \cup {p}) = Cardinality(A) + 1
<1>1. IsFiniteSet(Loggers)
  BY LoggerAssumption
<1>2. IsFiniteSet(A) /\ Cardinality(A) <= Cardinality(Loggers)
  BY <1>1, FS_Subset
<1>. QED  BY <1>2, FS_CardinalityType, FS_AddElement

LEMMA Constants == MAX_LINES \in Nat /\ MAX_LINES >= 1 /\ MAX_LINES - 1 \in Nat /\ MaxMessages \in Nat
BY LoggerAssumption

LEMMA InitIInv == Init => IInv
<1>. SUFFICES ASSUME Init PROVE IInv
  OBVIOUS
<1>1. TypeOK
  BY Constants DEF Init, TypeOK
<1>2. BoundInv
  <2>1. Adding \subseteq Loggers /\ Len(file) = 0
    BY DEF Init, Adding
  <2>. QED  BY <2>1, Counting, Constants DEF BoundInv
<1>3. CleanInv
  <2>1. Numbers(MAX_LINES - 1, 0) \in Seq(1 .. 0) /\ Len(Numbers(MAX_LINES - 1, 0)) = 0
    BY Constants, NumbersType
  <2>2. Numbers(MAX_LINES - 1, 0) = <<>>
    BY <2>1, EmptySeq
  <2>. QED  BY <2>2 DEF Init, CleanInv, Idle
<1>. QED  BY <1>1, <1>2, <1>3 DEF IInv

LEMMA AppendLineStep ==
  ASSUME IInv, NEW p \in Loggers, AppendLine(p)
  PROVE  IInv'
<1>1. /\ pc[p] = "idle" /\ logged < MaxMessages /\ logged' = logged + 1
      /\ file' = Append(file, logged + 1) /\ pc' = [pc EXCEPT ![p] = "read"]
      /\ clean' = (clean /\ \A q \in Loggers : Idle(q)) /\ buffer' = buffer
  BY DEF AppendLine
<1>2. /\ pc \in [Loggers -> {"idle", "read", "truncate", "write", "dead"}]
      /\ file \in Seq(1 .. logged) /\ buffer \in [Loggers -> Seq(1 .. logged)]
      /\ logged \in 0 .. MaxMessages /\ clean \in BOOLEAN
  BY DEF IInv, TypeOK
<1>3. 1 .. logged \subseteq 1 .. logged' /\ logged' \in 1 .. logged' /\ logged' \in 0 .. MaxMessages
  BY <1>1, <1>2, Constants
<1>4. file \in Seq(1 .. logged') /\ \A q \in Loggers : buffer[q] \in Seq(1 .. logged')
  BY <1>2, <1>3, SeqMonotonic
<1>5. file' \in Seq(1 .. logged') /\ Len(file') = Len(file) + 1
  BY <1>1, <1>3, <1>4, AppendProperties
<1>6. TypeOK'
  BY <1>1, <1>2, <1>3, <1>4, <1>5 DEF IInv, TypeOK
<1>7. BoundInv'
  <2>1. Adding' = Adding \cup {p} /\ p \notin Adding /\ Adding \subseteq Loggers
    BY <1>1, <1>2 DEF Adding
  <2>2. Cardinality(Adding') = Cardinality(Adding) + 1 /\ Cardinality(Adding) \in Nat
    BY <2>1, Counting
  <2>3. Len(file) \in Nat
    BY <1>2
  <2>. QED  BY <1>5, <2>2, <2>3, Constants DEF IInv, BoundInv
<1>8. CleanInv'
  <2>. SUFFICES ASSUME clean'
                PROVE  /\ \A q \in Loggers : ~Idle(q)' => CallInv(q)'
                       /\ ~(\A q \in Loggers : Idle(q)')
    BY DEF CleanInv
  <2>1. \A q \in Loggers : q # p => Idle(q)'
    BY <1>1, <1>2 DEF Idle
  <2>2. pc'[p] = "read"
    BY <1>1, <1>2
  <2>3. file = Numbers(MAX_LINES - 1, logged)
    BY <1>1 DEF IInv, CleanInv
  <2>4. file' = Numbers(MAX_LINES, logged')
    <3>. DEFINE n == MAX_LINES - 1
    <3>1. /\ n \in Nat /\ MAX_LINES \in Nat /\ MAX_LINES = n + 1
          /\ logged \in Nat /\ logged' \in Nat /\ logged' = logged + 1
      BY <1>1, <1>2, Constants
    <3>. HIDE DEF n
    <3>2. file = Numbers(n, logged) /\ file \in Seq(Nat)
      <4>1. 1 .. logged \subseteq Nat
        OBVIOUS
      <4>. QED  BY <1>2, <2>3, <4>1, SeqMonotonic DEF n
    <3>3. /\ file' \in Seq(Nat) /\ Len(file') = Len(file) + 1
          /\ \A i \in 1 .. Len(file) : file'[i] = file[i]
          /\ file'[Len(file) + 1] = logged'
      BY <1>1, <3>1, <3>2, AppendProperties
    <3>4. Longer(file', Numbers(n, logged), logged')
      BY <3>2, <3>3, Zenon DEF Longer
    <3>. QED  BY <3>1, <3>3, <3>4, AppendNumber
  <2>. QED  BY <2>1, <2>2, <2>4 DEF CallInv, Idle
<1>. QED  BY <1>6, <1>7, <1>8 DEF IInv

LEMMA ReadBackStep ==
  ASSUME IInv, NEW p \in Loggers, ReadBack(p)
  PROVE  IInv'
<1>1. /\ pc[p] = "read" /\ buffer' = [buffer EXCEPT ![p] = Retained(file)]
      /\ pc' = [pc EXCEPT ![p] = "truncate"] /\ UNCHANGED <<file, logged, clean>>
  BY DEF ReadBack
<1>2. /\ pc \in [Loggers -> {"idle", "read", "truncate", "write", "dead"}]
      /\ file \in Seq(1 .. logged) /\ buffer \in [Loggers -> Seq(1 .. logged)]
      /\ logged \in Nat
  BY DEF IInv, TypeOK
<1>3. Retained(file) \in Seq(1 .. logged) /\ Len(Retained(file)) < MAX_LINES
  <2>1. Len(file) \in Nat /\ Kept(Len(file)) < MAX_LINES
    BY <1>2, Constants DEF Kept
  <2>. QED  BY <1>2, <2>1, RetainedIsLast DEF IsLast
<1>4. TypeOK'
  BY <1>1, <1>2, <1>3 DEF IInv, TypeOK
<1>5. BoundInv'
  <2>1. Adding' = Adding
    BY <1>1, <1>2 DEF Adding
  <2>. QED  BY <1>1, <2>1 DEF IInv, BoundInv
<1>6. CleanInv'
  <2>. SUFFICES ASSUME clean'
                PROVE  /\ \A q \in Loggers : ~Idle(q)' => CallInv(q)'
                       /\ ~(\A q \in Loggers : Idle(q)')
    BY DEF CleanInv
  <2>1. CallInv(p)
    BY <1>1 DEF IInv, CleanInv, Idle
  <2>2. \A q \in Loggers : q # p => Idle(q)'
    BY <1>1, <1>2, <2>1 DEF CallInv, Idle
  <2>3. pc'[p] = "truncate" /\ buffer'[p] = Retained(Numbers(MAX_LINES, logged))
    BY <1>1, <1>2, <2>1 DEF CallInv
  <2>4. buffer'[p] = Numbers(MAX_LINES - 1, logged')
    BY <1>1, <1>2, <2>3, RetainedNumbers
  <2>. QED  BY <2>2, <2>3, <2>4 DEF CallInv, Idle
<1>. QED  BY <1>4, <1>5, <1>6 DEF IInv

LEMMA TruncateStep ==
  ASSUME IInv, NEW p \in Loggers, Truncate(p)
  PROVE  IInv'
<1>1. /\ pc[p] = "truncate" /\ file' = <<>>
      /\ pc' = [pc EXCEPT ![p] = "write"] /\ UNCHANGED <<buffer, logged, clean>>
  BY DEF Truncate
<1>2. pc \in [Loggers -> {"idle", "read", "truncate", "write", "dead"}]
  BY DEF IInv, TypeOK
<1>3. TypeOK'
  BY <1>1, <1>2 DEF IInv, TypeOK
<1>4. BoundInv'
  <2>1. Adding' \subseteq Loggers /\ Len(file') = 0
    BY <1>1 DEF Adding
  <2>. QED  BY <2>1, Counting, Constants DEF BoundInv
<1>5. CleanInv'
  <2>. SUFFICES ASSUME clean'
                PROVE  /\ \A q \in Loggers : ~Idle(q)' => CallInv(q)'
                       /\ ~(\A q \in Loggers : Idle(q)')
    BY DEF CleanInv
  <2>1. CallInv(p)
    BY <1>1 DEF IInv, CleanInv, Idle
  <2>2. \A q \in Loggers : q # p => Idle(q)'
    BY <1>1, <1>2, <2>1 DEF CallInv, Idle
  <2>3. pc'[p] = "write" /\ buffer'[p] = Numbers(MAX_LINES - 1, logged')
    BY <1>1, <1>2, <2>1 DEF CallInv
  <2>. QED  BY <1>1, <2>2, <2>3 DEF CallInv, Idle
<1>. QED  BY <1>3, <1>4, <1>5 DEF IInv

\* What is written over the start of a file leaves the longer of the two.
LEMMA Overwritten ==
  ASSUME NEW S, NEW lines \in Seq(S), NEW old \in Seq(S)
  PROVE  LET new == lines \o SubSeq(old, Len(lines) + 1, Len(old))
         IN /\ new \in Seq(S)
            /\ Len(new) = IF Len(old) <= Len(lines) THEN Len(lines) ELSE Len(old)
            /\ old = <<>> => new = lines
<1>. DEFINE rest == SubSeq(old, Len(lines) + 1, Len(old))
<1>1. Len(lines) \in Nat /\ Len(old) \in Nat /\ \A i \in 1 .. Len(old) : old[i] \in S
  BY LenProperties, ElementOfSeq
<1>2. rest \in Seq(S) /\ Len(rest) = IF Len(lines) + 1 <= Len(old) THEN Len(old) - Len(lines) ELSE 0
  <2>1. \A i \in Len(lines) + 1 .. Len(old) : old[i] \in S
    BY <1>1
  <2>2. /\ rest \in Seq(S)
        /\ Len(rest) = IF Len(lines) + 1 <= Len(old) THEN Len(old) - (Len(lines) + 1) + 1 ELSE 0
    BY <1>1, <2>1, SubSeqProperties
  <2>. QED  BY <1>1, <2>2
<1>. HIDE DEF rest
<1>3. lines \o rest \in Seq(S) /\ Len(lines \o rest) = Len(lines) + Len(rest)
  BY <1>2, ConcatProperties
<1>4. ASSUME old = <<>> PROVE lines \o rest = lines
  <2>1. rest = <<>>
    BY <1>1, <1>2, <1>4, EmptySeq
  <2>. QED  BY <2>1, ConcatEmptySeq
<1>. QED  BY <1>1, <1>2, <1>3, <1>4 DEF rest

\* The buffer is never too long to be written whole.
LEMMA WholeBuffer ==
  ASSUME NEW S, NEW lines \in Seq(S), Len(lines) < MAX_LINES
  PROVE  LastLines(lines, MAX_LINES) = lines
<1>1. ~(Len(lines) > MAX_LINES)
  BY Constants
<1>2. LastLines(lines, MAX_LINES) = SubSeq(lines, 1, Len(lines))
  BY <1>1 DEF LastLines
<1>. QED  BY <1>2, SubSeqFull

LEMMA WriteBackStep ==
  ASSUME IInv, NEW p \in Loggers, WriteBack(p)
  PROVE  IInv'
<1>. DEFINE lines == buffer[p]
<1>1. /\ pc \in [Loggers -> {"idle", "read", "truncate", "write", "dead"}]
      /\ file \in Seq(1 .. logged) /\ lines \in Seq(1 .. logged) /\ Len(lines) < MAX_LINES
      /\ logged \in Nat /\ Len(lines) \in Nat
  BY DEF IInv, TypeOK
<1>2. /\ pc[p] = "write" /\ pc' = [pc EXCEPT ![p] = "idle"] /\ UNCHANGED <<buffer, logged, clean>>
      /\ file' = lines \o SubSeq(file, Len(lines) + 1, Len(file))
  BY <1>1, WholeBuffer DEF WriteBack
<1>. HIDE DEF lines
<1>3. /\ file' \in Seq(1 .. logged)
      /\ file = <<>> => file' = lines
      /\ Len(file') = IF Len(file) <= Len(lines) THEN Len(lines) ELSE Len(file)
  BY <1>1, <1>2, Overwritten
<1>4. TypeOK'
  BY <1>1, <1>2, <1>3 DEF IInv, TypeOK
<1>5. BoundInv'
  <2>1. Adding' = Adding /\ Adding \subseteq Loggers
    BY <1>1, <1>2 DEF Adding
  <2>2. Cardinality(Adding) \in Nat /\ Len(file) \in Nat
    BY <1>1, <2>1, Counting
  <2>. QED  BY <1>1, <1>3, <2>1, <2>2, Constants DEF IInv, BoundInv
<1>6. CleanInv'
  <2>. SUFFICES ASSUME clean'
                PROVE  /\ \A q \in Loggers : Idle(q)'
                       /\ file' = Numbers(MAX_LINES - 1, logged')
    BY DEF CleanInv
  <2>1. CallInv(p)
    BY <1>2 DEF IInv, CleanInv, Idle
  <2>2. \A q \in Loggers : Idle(q)'
    BY <1>1, <1>2, <2>1 DEF CallInv, Idle
  <2>. QED  BY <1>2, <1>3, <2>1, <2>2 DEF CallInv, lines
<1>. QED  BY <1>4, <1>5, <1>6 DEF IInv

LEMMA CrashStep ==
  ASSUME IInv, NEW p \in Loggers, Crash(p)
  PROVE  IInv'
<1>1. /\ pc[p] # "dead" /\ pc' = [pc EXCEPT ![p] = "dead"] /\ clean' = (clean /\ Idle(p))
      /\ UNCHANGED <<file, buffer, logged>>
  BY DEF Crash
<1>2. pc \in [Loggers -> {"idle", "read", "truncate", "write", "dead"}]
  BY DEF IInv, TypeOK
<1>3. TypeOK'
  BY <1>1, <1>2 DEF IInv, TypeOK, Idle
<1>4. BoundInv'
  <2>1. Adding' = Adding \cup {p} /\ Adding \subseteq Loggers
    BY <1>1, <1>2 DEF Adding
  <2>2. Cardinality(Adding') >= Cardinality(Adding) /\ Cardinality(Adding') \in Nat /\ Cardinality(Adding) \in Nat
    <3>1. CASE p \in Adding
      <4>1. Adding' = Adding
        BY <2>1, <3>1
      <4>. QED  BY <2>1, <4>1, Counting
    <3>2. CASE p \notin Adding
      BY <2>1, <3>2, Counting
    <3>. QED  BY <3>1, <3>2
  <2>3. Len(file) \in Nat
    BY DEF IInv, TypeOK
  <2>. QED  BY <1>1, <2>2, <2>3, Constants DEF IInv, BoundInv
<1>5. CleanInv'
  <2>. SUFFICES ASSUME clean'
                PROVE  /\ \A q \in Loggers : ~Idle(q)' => CallInv(q)'
                       /\ (\A q \in Loggers : Idle(q)') => file' = Numbers(MAX_LINES - 1, logged')
    BY DEF CleanInv
  <2>1. clean /\ Idle(p) /\ Idle(p)'
    BY <1>1, <1>2 DEF Idle
  <2>2. \A q \in Loggers : (Idle(q)' <=> Idle(q)) /\ (~Idle(q) => pc'[q] = pc[q])
    BY <1>1, <1>2, <2>1 DEF Idle
  <2>3. ASSUME NEW q \in Loggers, ~Idle(q)'
        PROVE  CallInv(q)'
    <3>1. CallInv(q) /\ pc'[q] = pc[q]
      BY <2>1, <2>2, <2>3 DEF IInv, CleanInv
    <3>. QED  BY <1>1, <2>2, <3>1 DEF CallInv
  <2>. QED  BY <1>1, <2>1, <2>2, <2>3 DEF IInv, CleanInv
<1>. QED  BY <1>3, <1>4, <1>5 DEF IInv

\* The invariant on which the theorems rest.
THEOREM Inductive == Spec => []IInv
<1>1. IInv /\ [Next]_vars => IInv'
  <2>. SUFFICES ASSUME IInv, [Next]_vars PROVE IInv'
    OBVIOUS
  <2>1. CASE UNCHANGED vars
    BY <2>1 DEF vars, IInv, TypeOK, BoundInv, Adding, CleanInv, CallInv, Idle
  <2>2. CASE Next
    BY <2>2, AppendLineStep, ReadBackStep, TruncateStep, WriteBackStep, CrashStep DEF Next
  <2>. QED  BY <2>1, <2>2
<1>. QED  BY InitIInv, <1>1, PTL DEF Spec

\* The buffer has room for every line that is read back (logger.c:44-64).
THEOREM TypeCorrect == Spec => []TypeOK
<1>1. IInv => TypeOK
  BY DEF IInv
<1>. QED  BY Inductive, <1>1, PTL

\* While no calls overlap and none is cut short the file holds the latest messages,
\* with none left out, and is short of MAX_LINES by one at most (log_message,
\* retainLastNLines, logger.c:13-82).
THEOREM LatestKeptHolds == Spec => []LatestKept
<1>1. IInv => LatestKept
  <2>. SUFFICES ASSUME IInv, clean, \A p \in Loggers : Idle(p)
                PROVE  /\ file = Latest(Len(file)) /\ Len(file) <= MAX_LINES
                       /\ Len(file) >= IF logged < MAX_LINES - 1 THEN logged ELSE MAX_LINES - 1
    BY DEF LatestKept
  <2>1. logged \in Nat /\ file = Numbers(MAX_LINES - 1, logged)
    BY Constants DEF IInv, TypeOK, CleanInv
  <2>2. Len(file) = IF logged < MAX_LINES - 1 THEN logged ELSE MAX_LINES - 1
    BY <2>1, Constants, NumbersType
  <2>3. Latest(Len(file)) = Numbers(Len(file), logged)
    BY DEF Latest, Numbers
  <2>4. Numbers(Len(file), logged) = Numbers(MAX_LINES - 1, logged)
    <3>1. CASE logged < MAX_LINES - 1
      BY <2>1, <2>2, <3>1, Constants DEF Numbers
    <3>2. CASE ~(logged < MAX_LINES - 1)
      BY <2>2, <3>2
    <3>. QED  BY <3>1, <3>2
  <2>. QED  BY <2>1, <2>2, <2>3, <2>4, Constants
<1>. QED  BY Inductive, <1>1, PTL

\* However calls overlap and whoever is killed, a line for each process is the most
\* by which the file outgrows what is kept.
THEOREM LogBoundedHolds == Spec => []LogBounded
<1>1. IInv => LogBounded
  <2>. SUFFICES ASSUME IInv PROVE LogBounded
    OBVIOUS
  <2>1. IsFiniteSet(Loggers) /\ Adding \subseteq Loggers /\ Loggers \subseteq Loggers
    BY LoggerAssumption DEF Adding
  <2>2. /\ Cardinality(Adding) \in Nat /\ Cardinality(Loggers) \in Nat
        /\ Cardinality(Adding) <= Cardinality(Loggers)
    BY <2>1, Counting
  <2>3. Len(file) \in Nat
    BY DEF IInv, TypeOK
  <2>. QED  BY <2>2, <2>3, Constants DEF IInv, BoundInv, LogBounded
<1>. QED  BY Inductive, <1>1, PTL
=============================================================================
