----------------------------- MODULE RelayProofs -----------------------------
(***************************************************************************)
(* Theorems about Relay: its types, the mutex of the publisher, and that   *)
(* the chain is a Feed, for FIFOs of any size and any number of messages,  *)
(* matches and resets, with anybody stopped or killed at any moment.       *)
(***************************************************************************)
EXTENDS Relay, SequenceTheorems, FiniteSetTheorems, TLAPS

-----------------------------------------------------------------------------
(***************************************************************************)
(* The inductive invariant.                                                *)
(***************************************************************************)
\* The messages the receiving generator has passed on, and how many they are.
Arrived == {passed[j] : j \in DOMAIN passed} \ {0}
count == Cardinality(Arrived)
last == IF passed = <<>> THEN 0 ELSE Last(passed)

\* The publisher has a message in its hands.
Holding == publisher \in {"publish", "wait", "sleep", "write"}

\* It has not dropped one, as it does when it is stopped: its FIFO follows on what it
\* has published.
Connected == publisher \notin {"closing"} \cup Gone /\ (publisher = "loop" => ~pub_stop)

\* From the test of the predicate in publish to the sleep, and to the write, the mutex
\* keeps matched_ as it was.
MutexInv ==
  /\ publisher \in {"wait", "sleep"} => ~matched_
  /\ publisher = "write" => matched_ \/ pub_stop

\* What has been published are the first messages, what the publisher holds is the next
\* one, and then comes what waits in its FIFO.
PublisherInv ==
  /\ \A j \in 1 .. Len(history) : history[j] = j
  /\ Len(history) <= sent
  /\ Holding => sample = Len(history) + 1 /\ sample <= sent
  /\ Connected =>
       LET read == IF Holding THEN Len(history) + 1 ELSE Len(history)
       IN  read + Len(pubFifo) = sent /\ \A j \in 1 .. Len(pubFifo) : pubFifo[j] = read + j

\* Behind what has been passed on come, in this order, what waits in the FIFO, what the
\* listener holds and what waits in DDS, up to the last sample delivered.
SubscriberInv ==
  LET given == count + Len(subFifo)
      took == IF listener = "write" THEN given + 1 ELSE given
  IN  /\ \A j \in 1 .. Len(subFifo) : subFifo[j] = count + j
      /\ listener = "write" => taken = given + 1
      /\ \A j \in 1 .. Len(cache) : cache[j] = took + j
      /\ delivered = took + Len(cache)

\* What has been passed on are the first messages; the receiver's variable has the last
\* of them, or nothing yet.
ReceiverInv ==
  /\ count \in Nat /\ Arrived = 1 .. count
  /\ message = 0 \/ (passed # <<>> /\ message = Last(passed))

IInv == TypeOK /\ MutexInv /\ PublisherInv /\ SubscriberInv /\ ReceiverInv

-----------------------------------------------------------------------------
\* A message written to a FIFO is the last one there.
LEMMA Written ==
  ASSUME NEW S, NEW fifo \in Seq(S), NEW m \in S
  PROVE  /\ Append(fifo, m) \in Seq(S)
         /\ Len(fifo) \in Nat /\ Len(Append(fifo, m)) = Len(fifo) + 1
         /\ \A j \in 1 .. Len(fifo) : Append(fifo, m)[j] = fifo[j]
         /\ Append(fifo, m)[Len(fifo) + 1] = m
  BY AppendProperties, LenProperties

\* One that is read was the first, and the others move up.
LEMMA ReadFirst ==
  ASSUME NEW S, NEW fifo \in Seq(S), fifo # <<>>
  PROVE  /\ Len(fifo) \in Nat \ {0}
         /\ Head(fifo) = fifo[1] /\ Head(fifo) \in S
         /\ Tail(fifo) \in Seq(S) /\ Len(Tail(fifo)) = Len(fifo) - 1
         /\ \A j \in 1 .. Len(fifo) - 1 : Tail(fifo)[j] = fifo[j + 1]
  BY HeadTailProperties, EmptySeq

LEMMA Lengths ==
  ASSUME TypeOK
  PROVE  /\ Len(pubFifo) \in Nat /\ Len(history) \in Nat /\ Len(cache) \in Nat
         /\ Len(subFifo) \in Nat /\ Len(passed) \in Nat /\ sent \in Nat /\ sample \in Nat
         /\ taken \in Nat /\ delivered \in Nat /\ MaxMessages \in Nat
         /\ DOMAIN passed = 1 .. Len(passed)
<1>1. pubFifo \in Seq(Numbers) /\ history \in Seq(1 .. MaxMessages) /\ cache \in Seq(1 .. MaxMessages)
      /\ subFifo \in Seq(Numbers) /\ passed \in Seq(Numbers)
  BY DEF TypeOK
<1>2. /\ Len(pubFifo) \in Nat /\ Len(history) \in Nat /\ Len(cache) \in Nat
      /\ Len(subFifo) \in Nat /\ Len(passed) \in Nat /\ DOMAIN passed = 1 .. Len(passed)
  BY <1>1, LenProperties
<1>. QED  BY <1>2, RelayAssumption DEF TypeOK, Numbers

\* One more is passed on: what has arrived is what had, and it.
LEMMA PassedOn ==
  ASSUME TypeOK, NEW m \in Numbers, passed' = Append(passed, m)
  PROVE  /\ passed' \in Seq(Numbers) /\ passed' # <<>> /\ Last(passed') = m
         /\ Arrived' = Arrived \cup ({m} \ {0})
<1>1. passed \in Seq(Numbers) /\ Len(passed) \in Nat /\ DOMAIN passed = 1 .. Len(passed)
  BY Lengths DEF TypeOK
<1>2. /\ passed' \in Seq(Numbers) /\ Len(passed') = Len(passed) + 1 /\ passed' # <<>>
      /\ \A j \in 1 .. Len(passed) : passed'[j] = passed[j]
      /\ passed'[Len(passed) + 1] = m
  BY <1>1, AppendProperties
<1>3. DOMAIN passed' = 1 .. Len(passed) + 1
  BY <1>2, LenProperties
<1>4. {passed'[j] : j \in DOMAIN passed'} = {passed[j] : j \in DOMAIN passed} \cup {m}
  <2>1. ASSUME NEW j \in DOMAIN passed' PROVE passed'[j] \in {passed[k] : k \in DOMAIN passed} \cup {m}
    <3>1. j \in DOMAIN passed \/ j = Len(passed) + 1
      BY <1>1, <1>3
    <3>. QED  BY <3>1, <1>1, <1>2
  <2>2. ASSUME NEW j \in DOMAIN passed PROVE passed[j] \in {passed'[k] : k \in DOMAIN passed'}
    <3>1. j \in DOMAIN passed' /\ passed'[j] = passed[j]
      BY <1>1, <1>2, <1>3
    <3>. QED  BY <3>1
  <2>3. m \in {passed'[k] : k \in DOMAIN passed'}
    <3>1. Len(passed) + 1 \in DOMAIN passed'
      BY <1>1, <1>3
    <3>. QED  BY <3>1, <1>2
  <2>. QED  BY <2>1, <2>2, <2>3
<1>5. Last(passed') = m
  BY <1>2 DEF Last
<1>. QED  BY <1>2, <1>4, <1>5, Zenon DEF Arrived

LEMMA Starts == Init => IInv
<1>. SUFFICES ASSUME Init PROVE IInv
  OBVIOUS
<1>1. \A S : <<>> \in Seq(S) /\ Len(<<>>) = 0
  BY EmptySeq
<1>2. Arrived = {} /\ count = 0
  <2>1. DOMAIN passed = {}
    BY DEF Init
  <2>2. Arrived = {}
    BY <2>1 DEF Arrived
  <2>. QED  BY <2>2, FS_EmptySet DEF count
<1>3. TypeOK
  <2>1. /\ 0 \in Numbers /\ 0 \in 0 .. MaxMatches /\ 0 \in 0 .. MaxSignals /\ 0 \in 0 .. 0
        /\ 0 \in 0 .. Len(PublisherEntities) /\ 0 \in 0 .. Len(SubscriberEntities) /\ 0 <= PipeCap
    BY RelayAssumption DEF Numbers, PublisherEntities, SubscriberEntities
  <2>. QED  BY <1>1, <2>1 DEF Init, TypeOK, Gone
<1>4. MutexInv /\ PublisherInv /\ SubscriberInv /\ ReceiverInv
  BY <1>1, <1>2 DEF Init, MutexInv, PublisherInv, SubscriberInv, ReceiverInv, Holding, Connected, Gone
<1>. QED  BY <1>3, <1>4 DEF IInv

-----------------------------------------------------------------------------
\* The two halves of the chain do not depend on each other's variables.
SubscriberHalf == <<history, delivered, cache, listener, taken, subFifo, message, passed>>
PublisherHalf == <<publisher, pub_stop, matched_, pubFifo, sample, sent, history>>

LEMMA SubscriberHalfKept ==
  ASSUME IInv, UNCHANGED SubscriberHalf
  PROVE  SubscriberInv' /\ ReceiverInv'
<1>1. Arrived' = Arrived /\ count' = count
  BY DEF SubscriberHalf, Arrived, count
<1>. QED  BY <1>1 DEF SubscriberHalf, SubscriberInv, ReceiverInv, IInv

LEMMA PublisherHalfKept ==
  ASSUME IInv, UNCHANGED PublisherHalf
  PROVE  MutexInv' /\ PublisherInv'
BY DEF PublisherHalf, MutexInv, PublisherInv, Holding, Connected, IInv

-----------------------------------------------------------------------------
(***************************************************************************)
(* The generator and the publisher.                                        *)
(***************************************************************************)
LEMMA GeneratorKeeps ==
  ASSUME IInv, OpenPubFifo \/ Generator \/ GeneratorStop
  PROVE  IInv'
<1>1. TypeOK /\ UNCHANGED SubscriberHalf
  BY DEF IInv, OpenPubFifo, Generator, GeneratorWrite, GeneratorWriteBreaks, GeneratorTest, GeneratorStop,
         SubscriberHalf, dds_vars, sub_vars, rcv_vars
<1>2. CASE OpenPubFifo
  <2>1. TypeOK'
    BY <1>1, <1>2 DEF TypeOK, OpenPubFifo, dds_vars, sub_vars, rcv_vars
  <2>2. MutexInv' /\ PublisherInv'
    BY <1>2 DEF IInv, MutexInv, PublisherInv, Holding, Connected, Gone, OpenPubFifo, dds_vars
  <2>. QED  BY <1>1, <2>1, <2>2, SubscriberHalfKept DEF IInv
<1>3. CASE GeneratorWrite
  <2>1. /\ sent' = sent + 1 /\ sent' \in Numbers /\ pubFifo \in Seq(Numbers)
        /\ pubFifo' = Append(pubFifo, sent') /\ Len(pubFifo) < PipeCap
        /\ UNCHANGED <<publisher, pub_stop, matched_, sample, history>>
    BY <1>1, <1>3, Lengths, SMTT(60) DEF TypeOK, Numbers, GeneratorWrite, pub_vars, dds_vars
  <2>2. /\ pubFifo' \in Seq(Numbers) /\ Len(pubFifo') = Len(pubFifo) + 1 /\ Len(pubFifo) \in Nat
        /\ \A j \in 1 .. Len(pubFifo) : pubFifo'[j] = pubFifo[j]
        /\ pubFifo'[Len(pubFifo) + 1] = sent'
    BY <2>1, Written
  <2>3. TypeOK'
    BY <1>1, <1>3, <2>1, <2>2, RelayAssumption
       DEF TypeOK, GeneratorWrite, pub_vars, dds_vars, sub_vars, rcv_vars
  <2>4. MutexInv'
    BY <2>1 DEF IInv, MutexInv
  <2>5. PublisherInv'
    <3>1. (Holding' <=> Holding) /\ (Connected' <=> Connected)
      BY <2>1 DEF Holding, Connected
    <3>2. /\ \A j \in 1 .. Len(history') : history'[j] = j
          /\ Len(history') <= sent'
          /\ Holding' => sample' = Len(history') + 1 /\ sample' <= sent'
      BY <1>1, <2>1, <3>1, Lengths DEF IInv, PublisherInv
    <3>3. ASSUME Connected'
          PROVE  LET read == IF Holding THEN Len(history) + 1 ELSE Len(history)
                 IN  /\ read + Len(pubFifo') = sent'
                     /\ \A j \in 1 .. Len(pubFifo') : pubFifo'[j] = read + j
      <4>. DEFINE read == IF Holding THEN Len(history) + 1 ELSE Len(history)
      <4>1. read + Len(pubFifo) = sent /\ \A j \in 1 .. Len(pubFifo) : pubFifo[j] = read + j
        BY <3>1, <3>3 DEF IInv, PublisherInv
      <4>2. read \in Nat /\ sent \in Nat
        BY <1>1, Lengths
      <4>. HIDE DEF read
      <4>3. read + Len(pubFifo') = sent' /\ \A j \in 1 .. Len(pubFifo') : pubFifo'[j] = read + j
        BY <2>1, <2>2, <4>1, <4>2
      <4>. QED  BY <4>3 DEF read
    <3>. QED  BY <2>1, <3>1, <3>2, <3>3 DEF PublisherInv
  <2>. QED  BY <1>1, <2>3, <2>4, <2>5, SubscriberHalfKept DEF IInv
<1>4. CASE GeneratorWriteBreaks \/ GeneratorTest \/ GeneratorStop
  <2>1. UNCHANGED PublisherHalf
    BY <1>4 DEF PublisherHalf, GeneratorWriteBreaks, GeneratorTest, GeneratorStop, pub_vars, dds_vars
  <2>2. TypeOK'
    <3>1. /\ generator' \in {"open", "write", "test"} \cup Gone /\ stop' \in BOOLEAN /\ sent' = sent
          /\ UNCHANGED <<pubFifo, pub_vars, dds_vars, sub_vars, subFifo, rcv_vars>>
      BY <1>1, <1>4 DEF TypeOK, Gone, GeneratorWriteBreaks, GeneratorTest, GeneratorStop
    <3>. QED  BY <1>1, <3>1 DEF TypeOK, pub_vars, dds_vars, sub_vars, rcv_vars
  <2>. QED  BY <1>1, <2>1, <2>2, SubscriberHalfKept, PublisherHalfKept DEF IInv
<1>. QED  BY <1>2, <1>3, <1>4 DEF Generator

LEMMA PublisherMainKeeps ==
  ASSUME IInv, PublisherMain \/ CreatePublisherFails
  PROVE  IInv'
<1>1. TypeOK /\ UNCHANGED SubscriberHalf /\ UNCHANGED <<pub_stop, matched_, pubFifo, sample, sent, history>>
  BY DEF IInv, PublisherMain, CreatePublisher, StartPublisher, ClosePublisher, CreatePublisherFails,
         SubscriberHalf, gen_vars, dds_vars, sub_vars, rcv_vars
<1>2. \/ publisher' = publisher
      \/ publisher = "create" /\ publisher' \in {"open", "killed"}
      \/ publisher = "closing" /\ publisher' = "exited"
  BY DEF PublisherMain, CreatePublisher, StartPublisher, ClosePublisher, CreatePublisherFails
<1>3. pub_entities' \in 0 .. Len(PublisherEntities)
  BY <1>1 DEF TypeOK, PublisherEntities, PublisherMain, CreatePublisher, StartPublisher, ClosePublisher,
         CreatePublisherFails
<1>4. TypeOK'
  BY <1>1, <1>2, <1>3, SMTT(60) DEF TypeOK, Gone, PublisherMain, CreatePublisher, StartPublisher, ClosePublisher,
         CreatePublisherFails, gen_vars, dds_vars, sub_vars, rcv_vars
<1>5. MutexInv' /\ PublisherInv'
  BY <1>1, <1>2 DEF IInv, MutexInv, PublisherInv, Holding, Connected, Gone
<1>. QED  BY <1>1, <1>4, <1>5, SubscriberHalfKept DEF IInv

LEMMA PublisherReadKeeps ==
  ASSUME IInv, PublisherRead
  PROVE  IInv'
<1>1. /\ TypeOK /\ UNCHANGED SubscriberHalf /\ publisher = "read"
      /\ UNCHANGED <<gen_vars, pub_entities, pub_stop, matched_, matches, dds_vars, sub_vars, rcv_vars, subFifo>>
  BY DEF IInv, PublisherRead, SubscriberHalf, dds_vars, sub_vars, rcv_vars
<1>2. CASE pubFifo # <<>>
  <2>1. /\ pubFifo \in Seq(Numbers)
        /\ sample' = Head(pubFifo) /\ pubFifo' = Tail(pubFifo) /\ publisher' = "publish"
    BY <1>1, <1>2 DEF TypeOK, PublisherRead
  <2>2. /\ Len(pubFifo) \in Nat \ {0}
        /\ Head(pubFifo) = pubFifo[1] /\ Head(pubFifo) \in Numbers
        /\ Tail(pubFifo) \in Seq(Numbers) /\ Len(Tail(pubFifo)) = Len(pubFifo) - 1
        /\ \A j \in 1 .. Len(pubFifo) - 1 : Tail(pubFifo)[j] = pubFifo[j + 1]
    BY <1>2, <2>1, ReadFirst
  <2>3. TypeOK'
    BY <1>1, <2>1, <2>2, RelayAssumption DEF TypeOK, gen_vars, dds_vars, sub_vars, rcv_vars
  <2>4. /\ Len(history) + Len(pubFifo) = sent
        /\ \A j \in 1 .. Len(pubFifo) : pubFifo[j] = Len(history) + j
    BY <1>1 DEF IInv, PublisherInv, Holding, Connected, Gone
  <2>5. /\ Holding' /\ sample' = Len(history) + 1 /\ sample' <= sent
        /\ (Len(history) + 1) + Len(pubFifo') = sent
        /\ \A j \in 1 .. Len(pubFifo') : pubFifo'[j] = (Len(history) + 1) + j
    BY <1>1, <2>1, <2>2, <2>4, Lengths DEF Holding
  <2>6. MutexInv' /\ PublisherInv'
    BY <1>1, <2>1, <2>5 DEF IInv, MutexInv, PublisherInv, Connected, gen_vars, dds_vars
  <2>. QED  BY <1>1, <2>3, <2>6, SubscriberHalfKept DEF IInv
<1>3. CASE pubFifo = <<>>
  <2>1. publisher' = "loop" /\ UNCHANGED <<sample, pubFifo>>
    BY <1>3 DEF PublisherRead
  <2>2. TypeOK'
    BY <1>1, <2>1 DEF TypeOK, gen_vars, dds_vars, sub_vars, rcv_vars
  <2>3. MutexInv' /\ PublisherInv'
    BY <1>1, <2>1 DEF IInv, MutexInv, PublisherInv, Holding, Connected, Gone, gen_vars, dds_vars
  <2>. QED  BY <1>1, <2>2, <2>3, SubscriberHalfKept DEF IInv
<1>. QED  BY <1>2, <1>3

\* Steps of run() and publish() that move no message, and what wakes the publisher.
LEMMA PublisherMoves ==
  ASSUME IInv, \/ PublisherLoop \/ PublisherTest \/ PublisherSleep
               \/ PublisherStop \/ Match \/ Unmatch
  PROVE  IInv'
<1>1. /\ TypeOK /\ UNCHANGED SubscriberHalf
      /\ UNCHANGED <<gen_vars, pubFifo, sample, dds_vars, sub_vars, subFifo, rcv_vars>>
      /\ pub_entities' \in {pub_entities, 0}
  BY DEF IInv, PublisherLoop, PublisherTest, PublisherSleep, PublisherStop, Match, Unmatch,
         SubscriberHalf, dds_vars, sub_vars, rcv_vars
<1>2. TypeOK'
  <2>1. publisher' \in {"create", "open", "loop", "read", "publish", "wait", "sleep", "write", "closing"} \cup Gone
    BY <1>1 DEF TypeOK, PublisherLoop, PublisherTest, PublisherSleep, PublisherStop, Match, Unmatch, Woken, Gone
  <2>2. pub_stop' \in BOOLEAN /\ matched_' \in BOOLEAN
    BY <1>1 DEF TypeOK, PublisherLoop, PublisherTest, PublisherSleep, PublisherStop, Match, Unmatch
  <2>3. matches' \in 0 .. MaxMatches
    <3>1. matches' = matches \/ (matches < MaxMatches /\ matches' = matches + 1)
      BY DEF PublisherLoop, PublisherTest, PublisherSleep, PublisherStop, Match, Unmatch
    <3>2. matches \in 0 .. MaxMatches
      BY <1>1 DEF TypeOK
    <3>. QED  BY <3>1, <3>2, RelayAssumption
  <2>4. pub_entities' \in 0 .. Len(PublisherEntities)
    BY <1>1 DEF TypeOK, PublisherEntities
  <2>. QED  BY <1>1, <2>1, <2>2, <2>3, <2>4 DEF TypeOK, gen_vars, dds_vars, sub_vars, rcv_vars
<1>3. MutexInv'
  BY DEF IInv, MutexInv, PublisherLoop, PublisherTest, PublisherSleep, PublisherStop, Match, Unmatch,
         Woken, MutexFree, Handled, Gone
<1>4. (Holding' <=> Holding) /\ (Connected' => Connected)
  BY DEF Holding, Connected, PublisherLoop, PublisherTest, PublisherSleep, PublisherStop, Match, Unmatch,
         Woken, Handled, Gone
<1>5. PublisherInv'
  <2>1. UNCHANGED <<history, sent, sample, pubFifo>>
    BY <1>1 DEF gen_vars, dds_vars
  <2>. QED  BY <1>4, <2>1 DEF IInv, PublisherInv
<1>. QED  BY <1>1, <1>2, <1>3, <1>5, SubscriberHalfKept DEF IInv

\* A stopped publisher drops its message; its FIFO then follows on nothing any more.
LEMMA PublisherWriteKeeps ==
  ASSUME IInv, PublisherWrite
  PROVE  IInv'
<1>1. /\ TypeOK /\ publisher = "write" /\ publisher' = "loop"
      /\ UNCHANGED <<gen_vars, pubFifo, pub_entities, pub_stop, matched_, sample, matches,
                     delivered, cache, callbacks, sub_vars, subFifo, rcv_vars>>
  BY DEF IInv, PublisherWrite
<1>2. /\ history \in Seq(1 .. MaxMessages) /\ Len(history) \in Nat /\ delivered <= Len(history)
      /\ sample = Len(history) + 1 /\ sample <= sent /\ sample \in 1 .. MaxMessages
  BY <1>1, Lengths DEF IInv, TypeOK, PublisherInv, Holding, Numbers
<1>3. /\ history' \in Seq(1 .. MaxMessages) /\ delivered' \in 0 .. Len(history')
      /\ \A j \in 1 .. Len(history') : history'[j] = j
      /\ Len(history') <= sent
      /\ ~pub_stop => Len(history') = Len(history) + 1
  <2>1. CASE pub_stop
    BY <1>1, <1>2, <2>1, Lengths DEF IInv, PublisherInv, PublisherWrite
  <2>2. CASE ~pub_stop
    <3>1. history' = Append(history, sample)
      BY <2>2 DEF PublisherWrite
    <3>2. /\ history' \in Seq(1 .. MaxMessages) /\ Len(history') = Len(history) + 1
          /\ \A j \in 1 .. Len(history) : history'[j] = history[j]
          /\ history'[Len(history) + 1] = sample
      BY <1>2, <3>1, Written
    <3>. QED  BY <1>1, <1>2, <3>2, Lengths, SMTT(60) DEF IInv, PublisherInv
  <2>. QED  BY <2>1, <2>2
<1>4. TypeOK'
  BY <1>1, <1>3 DEF TypeOK, gen_vars, sub_vars, rcv_vars
<1>5. MutexInv'
  BY <1>1 DEF MutexInv
<1>6. PublisherInv'
  <2>1. ~Holding' /\ UNCHANGED <<sent, pubFifo, pub_stop>>
    BY <1>1 DEF Holding, gen_vars
  <2>2. ASSUME Connected'
        PROVE  Len(history') + Len(pubFifo) = sent /\ \A j \in 1 .. Len(pubFifo) : pubFifo[j] = Len(history') + j
    <3>1. ~pub_stop
      BY <1>1, <2>2 DEF Connected
    <3>2. Holding /\ Connected
      BY <1>1 DEF Holding, Connected, Gone
    <3>. QED  BY <1>3, <3>1, <3>2 DEF IInv, PublisherInv
  <2>. QED  BY <1>3, <2>1, <2>2 DEF PublisherInv
<1>7. SubscriberInv' /\ ReceiverInv'
  <2>1. UNCHANGED <<delivered, cache, listener, taken, subFifo, message, passed>>
    BY <1>1 DEF sub_vars, rcv_vars
  <2>2. Arrived' = Arrived /\ count' = count
    BY <2>1 DEF Arrived, count
  <2>. QED  BY <2>1, <2>2 DEF IInv, SubscriberInv, ReceiverInv
<1>. QED  BY <1>4, <1>5, <1>6, <1>7 DEF IInv

-----------------------------------------------------------------------------
(***************************************************************************)
(* DDS, the subscriber and the receiving generator.                        *)
(***************************************************************************)
LEMMA DeliverKeeps ==
  ASSUME IInv, Deliver
  PROVE  IInv'
<1>1. /\ TypeOK /\ UNCHANGED <<gen_vars, pubFifo, pub_vars, history, sub_vars, subFifo, rcv_vars>>
      /\ delivered < Len(history) /\ delivered' = delivered + 1
      /\ cache' = Append(cache, history[delivered']) /\ callbacks' = callbacks + 1
  BY DEF IInv, Deliver
<1>2. delivered' \in 1 .. Len(history) /\ history[delivered'] = delivered'
      /\ history[delivered'] \in 1 .. MaxMessages
  <2>1. delivered' \in 1 .. Len(history) /\ history \in Seq(1 .. MaxMessages)
    BY <1>1, Lengths DEF TypeOK
  <2>. QED  BY <2>1, ElementOfSeq DEF IInv, PublisherInv
<1>3. /\ cache' \in Seq(1 .. MaxMessages) /\ Len(cache) \in Nat /\ Len(cache') = Len(cache) + 1
      /\ \A j \in 1 .. Len(cache) : cache'[j] = cache[j]
      /\ cache'[Len(cache) + 1] = delivered'
  <2>1. cache \in Seq(1 .. MaxMessages)
    BY <1>1 DEF TypeOK
  <2>. QED  BY <1>1, <1>2, <2>1, Written
<1>4. TypeOK'
  BY <1>1, <1>2, <1>3 DEF TypeOK, gen_vars, pub_vars, sub_vars, rcv_vars
<1>5. MutexInv' /\ PublisherInv'
  BY <1>1, PublisherHalfKept DEF PublisherHalf, gen_vars, pub_vars
<1>6. UNCHANGED <<listener, taken, subFifo, message, passed>> /\ Arrived' = Arrived /\ count' = count
  BY <1>1 DEF sub_vars, rcv_vars, Arrived, count
<1>7. SubscriberInv'
  <2>. DEFINE took == IF listener = "write" THEN count + Len(subFifo) + 1 ELSE count + Len(subFifo)
  <2>1. took + Len(cache) = delivered /\ took \in Nat
    BY <1>1, Lengths DEF IInv, SubscriberInv, ReceiverInv
  <2>2. \A j \in 1 .. Len(cache') : cache'[j] = took + j
    <3>. HIDE DEF took
    <3>1. \A j \in 1 .. Len(cache) : cache[j] = took + j
      BY DEF IInv, SubscriberInv, took
    <3>2. delivered' = took + (Len(cache) + 1)
      BY <1>1, <2>1
    <3>. SUFFICES ASSUME NEW j \in 1 .. Len(cache')
                  PROVE  cache'[j] = took + j
      OBVIOUS
    <3>3. CASE j \in 1 .. Len(cache)
      BY <1>3, <3>1, <3>3
    <3>4. CASE j = Len(cache) + 1
      BY <1>3, <3>2, <3>4
    <3>. QED  BY <1>3, <3>3, <3>4
  <2>3. delivered' = took + Len(cache')
    BY <1>1, <1>3, <2>1
  <2>. QED  BY <1>6, <2>2, <2>3 DEF IInv, SubscriberInv
<1>8. ReceiverInv'
  BY <1>6 DEF IInv, ReceiverInv
<1>. QED  BY <1>4, <1>5, <1>7, <1>8 DEF IInv

\* Steps of the subscriber and the receiver that move no message.
LEMMA SubscriberMoves ==
  ASSUME IInv, \/ SubscriberMain \/ CreateSubscriberFails \/ Subscriber \/ SubscriberStop
               \/ ListenerCall \/ ListenerOpen \/ ListenerWriteBreaks
               \/ ReceiverTest \/ ReceiverFindsNothing \/ ReceiverStop \/ ReceiverKilled
  PROVE  IInv'
<1>. USE DEF SubscriberMain, CreateSubscriber, StartSubscriber, CloseSubscriber, CreateSubscriberFails,
             Subscriber, SubscriberTest, SubscriberSleep, SubscriberStop, ListenerCall, ListenerOpen,
             ListenerWriteBreaks, ReceiverTest, ReceiverFindsNothing, ReceiverStop, ReceiverKilled
<1>1. /\ TypeOK /\ UNCHANGED <<gen_vars, pubFifo, pub_vars, history, delivered, cache, taken, subFifo,
                               message, passed>>
      /\ listener' = listener \/ (listener # "write" /\ listener' \in {"open", "take"})
  BY DEF IInv, dds_vars, sub_vars, rcv_vars
<1>2. /\ subscriber' \in {"create", "test", "wait", "sleep", "closing"} \cup Gone
      /\ listener' \in {"idle", "open", "take", "write"} /\ sub_stop' \in BOOLEAN
  BY <1>1 DEF TypeOK, Gone, Handled, sub_vars
<1>3. sub_entities' \in 0 .. Len(SubscriberEntities)
  BY <1>1 DEF TypeOK, SubscriberEntities, sub_vars
<1>4. callbacks' \in Nat
  BY <1>1 DEF TypeOK, dds_vars
<1>5. /\ receiver' \in {"open", "test", "select", "sent", "exited"}
      /\ fdset' \in BOOLEAN /\ rcv_stop' \in BOOLEAN
  BY <1>1 DEF TypeOK, rcv_vars
<1>10. signals' \in 0 .. MaxSignals
  <2>1. signals' = signals \/ (signals < MaxSignals /\ signals' = signals + 1)
    BY DEF rcv_vars
  <2>2. signals \in 0 .. MaxSignals
    BY <1>1 DEF TypeOK
  <2>. QED  BY <2>1, <2>2, RelayAssumption
<1>6. TypeOK'
  BY <1>1, <1>2, <1>3, <1>4, <1>5, <1>10 DEF TypeOK, gen_vars, pub_vars
<1>7. MutexInv' /\ PublisherInv'
  BY <1>1, PublisherHalfKept DEF PublisherHalf, gen_vars, pub_vars
<1>8. Arrived' = Arrived /\ count' = count
  BY <1>1 DEF Arrived, count
<1>9. SubscriberInv' /\ ReceiverInv'
  BY <1>1, <1>8 DEF IInv, SubscriberInv, ReceiverInv
<1>. QED  BY <1>6, <1>7, <1>9 DEF IInv

LEMMA ListenerTakeKeeps ==
  ASSUME IInv, ListenerTake
  PROVE  IInv'
<1>1. /\ TypeOK /\ listener = "take"
      /\ UNCHANGED <<gen_vars, pubFifo, pub_vars, history, delivered, callbacks,
                     subscriber, sub_entities, sub_stop, subFifo, rcv_vars>>
  BY DEF IInv, ListenerTake
<1>2. MutexInv' /\ PublisherInv'
  BY <1>1, PublisherHalfKept DEF PublisherHalf, gen_vars, pub_vars
<1>3. UNCHANGED <<subFifo, delivered, message, passed>> /\ Arrived' = Arrived /\ count' = count
  BY <1>1 DEF rcv_vars, Arrived, count
<1>4. ReceiverInv'
  BY <1>3 DEF IInv, ReceiverInv
<1>5. CASE ~sub_stop /\ cache # <<>>
  <2>1. taken' = Head(cache) /\ cache' = Tail(cache) /\ listener' = "write" /\ cache \in Seq(1 .. MaxMessages)
    BY <1>1, <1>5 DEF TypeOK, ListenerTake
  <2>2. /\ Len(cache) \in Nat \ {0}
        /\ Head(cache) = cache[1] /\ Head(cache) \in 1 .. MaxMessages
        /\ Tail(cache) \in Seq(1 .. MaxMessages) /\ Len(Tail(cache)) = Len(cache) - 1
        /\ \A j \in 1 .. Len(cache) - 1 : Tail(cache)[j] = cache[j + 1]
    BY <1>5, <2>1, ReadFirst
  <2>3. TypeOK'
    BY <1>1, <2>1, <2>2, SMTT(60) DEF TypeOK, Numbers, gen_vars, pub_vars, rcv_vars
  <2>. DEFINE given == count + Len(subFifo)
  <2>4. /\ given \in Nat /\ delivered = given + Len(cache)
        /\ \A j \in 1 .. Len(cache) : cache[j] = given + j
    BY <1>1, Lengths DEF IInv, SubscriberInv, ReceiverInv
  <2>5. /\ taken' = given + 1 /\ delivered = (given + 1) + Len(cache')
        /\ \A j \in 1 .. Len(cache') : cache'[j] = (given + 1) + j
    <3>. HIDE DEF given
    <3>. QED  BY <2>1, <2>2, <2>4
  <2>6. SubscriberInv'
    BY <1>3, <2>1, <2>5 DEF IInv, SubscriberInv
  <2>. QED  BY <1>2, <1>4, <2>3, <2>6 DEF IInv
<1>6. CASE ~(~sub_stop /\ cache # <<>>)
  <2>1. UNCHANGED <<taken, cache>> /\ listener' = "idle"
    BY <1>6 DEF ListenerTake
  <2>2. TypeOK'
    BY <1>1, <2>1 DEF TypeOK, gen_vars, pub_vars, rcv_vars
  <2>3. SubscriberInv'
    BY <1>1, <1>3, <2>1 DEF IInv, SubscriberInv
  <2>. QED  BY <1>2, <1>4, <2>2, <2>3 DEF IInv
<1>. QED  BY <1>5, <1>6

LEMMA ListenerWriteKeeps ==
  ASSUME IInv, ListenerWrite
  PROVE  IInv'
<1>1. /\ TypeOK /\ listener = "write" /\ listener' = "take" /\ Len(subFifo) < PipeCap
      /\ subFifo' = Append(subFifo, taken)
      /\ UNCHANGED <<gen_vars, pubFifo, pub_vars, dds_vars, taken, subscriber, sub_entities, sub_stop, rcv_vars>>
  BY DEF IInv, ListenerWrite
<1>2. MutexInv' /\ PublisherInv'
  BY <1>1, PublisherHalfKept DEF PublisherHalf, gen_vars, pub_vars, dds_vars
<1>3. UNCHANGED <<cache, delivered, message, passed>> /\ Arrived' = Arrived /\ count' = count
  BY <1>1 DEF dds_vars, rcv_vars, Arrived, count
<1>4. ReceiverInv'
  BY <1>3 DEF IInv, ReceiverInv
<1>5. /\ subFifo' \in Seq(Numbers) /\ Len(subFifo) \in Nat /\ Len(subFifo') = Len(subFifo) + 1
      /\ \A j \in 1 .. Len(subFifo) : subFifo'[j] = subFifo[j]
      /\ subFifo'[Len(subFifo) + 1] = taken
  <2>1. subFifo \in Seq(Numbers) /\ taken \in Numbers
    BY <1>1 DEF TypeOK
  <2>. QED  BY <1>1, <2>1, Written
<1>6. TypeOK'
  BY <1>1, <1>5, RelayAssumption DEF TypeOK, gen_vars, pub_vars, dds_vars, rcv_vars
<1>7. /\ count \in Nat /\ taken = count + Len(subFifo) + 1
      /\ \A j \in 1 .. Len(subFifo) : subFifo[j] = count + j
      /\ \A j \in 1 .. Len(cache) : cache[j] = count + Len(subFifo) + 1 + j
      /\ delivered = count + Len(subFifo) + 1 + Len(cache)
  BY <1>1 DEF IInv, SubscriberInv, ReceiverInv
<1>8. /\ \A j \in 1 .. Len(subFifo') : subFifo'[j] = count + j
      /\ count + Len(subFifo') = count + Len(subFifo) + 1
  <2>1. ASSUME NEW j \in 1 .. Len(subFifo') PROVE subFifo'[j] = count + j
    <3>1. CASE j \in 1 .. Len(subFifo)
      BY <3>1, <1>5, <1>7
    <3>2. CASE j = Len(subFifo) + 1
      BY <3>2, <1>5, <1>7
    <3>. QED  BY <3>1, <3>2, <1>5
  <2>. QED  BY <2>1, <1>5, <1>7
<1>9. SubscriberInv'
  BY <1>1, <1>3, <1>7, <1>8 DEF SubscriberInv
<1>. QED  BY <1>2, <1>4, <1>6, <1>9 DEF IInv

\* What the receiver passes on, if there is something in the FIFO, is the next message
\* after those that have arrived, and has been sent.
LEMMA PassNext ==
  ASSUME IInv, ReceiverPass, subFifo # <<>>
  PROVE  /\ message' = count + 1 /\ passed' = Append(passed, count + 1) /\ subFifo' = Tail(subFifo)
         /\ count \in Nat /\ count + 1 \in Numbers /\ count + 1 <= sent
         /\ subFifo' \in Seq(Numbers) /\ Len(subFifo) \in Nat \ {0} /\ Len(subFifo') = Len(subFifo) - 1
         /\ \A j \in 1 .. Len(subFifo') : subFifo'[j] = count + 1 + j
         /\ Arrived' = 1 .. count + 1 /\ count' = count + 1
         /\ passed' \in Seq(Numbers) /\ passed' # <<>> /\ Last(passed') = count + 1
<1>1. TypeOK /\ subFifo \in Seq(Numbers) /\ count \in Nat /\ Arrived = 1 .. count
  BY DEF IInv, TypeOK, ReceiverInv
<1>2. /\ Len(subFifo) \in Nat \ {0}
      /\ Head(subFifo) = subFifo[1] /\ Head(subFifo) \in Numbers
      /\ Tail(subFifo) \in Seq(Numbers) /\ Len(Tail(subFifo)) = Len(subFifo) - 1
      /\ \A j \in 1 .. Len(subFifo) - 1 : Tail(subFifo)[j] = subFifo[j + 1]
  BY <1>1, ReadFirst
<1>3. \A j \in 1 .. Len(subFifo) : subFifo[j] = count + j
  BY DEF IInv, SubscriberInv
<1>4. Head(subFifo) = count + 1
  BY <1>1, <1>2, <1>3
<1>5. message' = count + 1 /\ passed' = Append(passed, count + 1) /\ subFifo' = Tail(subFifo)
  BY <1>4 DEF ReceiverPass
<1>6. count + 1 <= sent
  <2>1. count + Len(subFifo) <= delivered
    BY <1>1, Lengths DEF IInv, SubscriberInv
  <2>2. delivered <= Len(history) /\ Len(history) <= sent
    BY <1>1, Lengths DEF IInv, TypeOK, PublisherInv
  <2>. QED  BY <1>1, <1>2, <2>1, <2>2, Lengths
<1>7. \A j \in 1 .. Len(subFifo') : subFifo'[j] = count + 1 + j
  BY <1>1, <1>2, <1>3, <1>5
<1>8. /\ passed' \in Seq(Numbers) /\ passed' # <<>> /\ Last(passed') = count + 1
      /\ Arrived' = Arrived \cup ({count + 1} \ {0})
  BY <1>1, <1>2, <1>4, <1>5, PassedOn
<1>9. Arrived' = 1 .. count + 1
  BY <1>1, <1>8
<1>10. count' = count + 1
  <2>1. Cardinality(1 .. count + 1) = count + 1
    BY <1>1, FS_Interval
  <2>. QED  BY <1>9, <2>1 DEF count
<1>. QED  BY <1>1, <1>2, <1>4, <1>5, <1>6, <1>7, <1>8, <1>9, <1>10

\* Passing on what is in message brings nothing new: it is the message passed on last, or 0.
LEMMA AppendAgain ==
  ASSUME IInv, passed' = Append(passed, message)
  PROVE  /\ message \in {last, 0} /\ message \in Numbers
         /\ Arrived' = Arrived /\ count' = count
         /\ passed' \in Seq(Numbers) /\ passed' # <<>> /\ Last(passed') = message
<1>1. TypeOK /\ message \in Numbers /\ passed \in Seq(Numbers)
  BY DEF IInv, TypeOK
<1>2. /\ passed' \in Seq(Numbers) /\ passed' # <<>> /\ Last(passed') = message
      /\ Arrived' = Arrived \cup ({message} \ {0})
  BY <1>1, PassedOn
<1>3. message \in {last, 0} /\ (message # 0 => message \in Arrived)
  <2>1. CASE message = 0
    BY <2>1
  <2>2. CASE message # 0
    <3>1. passed # <<>> /\ message = Last(passed)
      BY <2>2 DEF IInv, ReceiverInv
    <3>2. Len(passed) \in DOMAIN passed /\ message = passed[Len(passed)]
      BY <1>1, <3>1, EmptySeq, LenProperties DEF Last
    <3>. QED  BY <2>2, <3>1, <3>2 DEF last, Arrived
  <2>. QED  BY <2>1, <2>2
<1>4. Arrived' = Arrived /\ count' = count
  BY <1>2, <1>3 DEF count
<1>. QED  BY <1>1, <1>2, <1>3, <1>4

\* At the end of the file it does that.
LEMMA PassAgain ==
  ASSUME IInv, ReceiverPass, subFifo = <<>>
  PROVE  /\ subscriber \in Gone /\ message' = message /\ subFifo' = subFifo
         /\ message \in {last, 0} /\ message \in Numbers
         /\ passed' = Append(passed, message) /\ Arrived' = Arrived /\ count' = count
         /\ passed' \in Seq(Numbers) /\ passed' # <<>> /\ Last(passed') = message
<1>1. /\ subscriber \in Gone /\ message' = message /\ subFifo' = subFifo
      /\ passed' = Append(passed, message)
  BY DEF ReceiverPass, HasInput
<1>. QED  BY <1>1, AppendAgain

LEMMA ReceiverPassKeeps ==
  ASSUME IInv, ReceiverPass
  PROVE  IInv'
<1>1. /\ TypeOK /\ receiver' \in {"test", "sent"}
      /\ UNCHANGED <<gen_vars, pubFifo, pub_vars, dds_vars, sub_vars, rcv_stop, fdset, signals>>
  BY DEF IInv, ReceiverPass
<1>2. MutexInv' /\ PublisherInv'
  BY <1>1, PublisherHalfKept DEF PublisherHalf, gen_vars, pub_vars, dds_vars
<1>3. UNCHANGED <<listener, taken, cache, delivered>>
  BY <1>1 DEF dds_vars, sub_vars
<1>4. CASE subFifo # <<>>
  <2>1. TypeOK'
    BY <1>1, <1>4, PassNext, RelayAssumption, SMTT(60) DEF TypeOK, gen_vars, pub_vars, dds_vars, sub_vars
  <2>2. count' + Len(subFifo') = count + Len(subFifo)
    <3>1. /\ count' = count + 1 /\ Len(subFifo') = Len(subFifo) - 1
          /\ count \in Nat /\ Len(subFifo) \in Nat \ {0}
      BY <1>4, PassNext
    <3>. HIDE DEF count
    <3>. QED  BY <3>1
  <2>3. SubscriberInv'
    BY <1>3, <1>4, <2>2, PassNext DEF IInv, SubscriberInv
  <2>4. ReceiverInv'
    BY <1>4, PassNext DEF ReceiverInv
  <2>. QED  BY <1>2, <2>1, <2>3, <2>4 DEF IInv
<1>5. CASE subFifo = <<>>
  <2>1. TypeOK'
    BY <1>1, <1>5, PassAgain DEF TypeOK, gen_vars, pub_vars, dds_vars, sub_vars
  <2>2. SubscriberInv'
    BY <1>3, <1>5, PassAgain DEF IInv, SubscriberInv
  <2>3. ReceiverInv'
    BY <1>5, PassAgain DEF IInv, ReceiverInv
  <2>. QED  BY <1>2, <2>1, <2>2, <2>3 DEF IInv
<1>. QED  BY <1>4, <1>5

LEMMA ReceiverResetKeeps ==
  ASSUME IInv, ReceiverReset
  PROVE  IInv'
<1>1. /\ TypeOK /\ message' = 0 /\ UNCHANGED passed
      /\ UNCHANGED <<gen_vars, pubFifo, pub_vars, dds_vars, sub_vars, subFifo>>
  BY DEF IInv, ReceiverReset
<1>2. TypeOK'
  BY <1>1, RelayAssumption DEF ReceiverReset, TypeOK, Numbers, gen_vars, pub_vars, dds_vars, sub_vars
<1>3. MutexInv' /\ PublisherInv'
  BY <1>1, PublisherHalfKept DEF PublisherHalf, gen_vars, pub_vars, dds_vars
<1>4. Arrived' = Arrived /\ count' = count
  BY <1>1 DEF Arrived, count
<1>5. SubscriberInv' /\ ReceiverInv'
  BY <1>1, <1>4 DEF IInv, SubscriberInv, ReceiverInv, dds_vars, sub_vars
<1>. QED  BY <1>2, <1>3, <1>5 DEF IInv

\* A stop passes on nothing that had not been passed on, unless it is nothing at all.
LEMMA ReceiverStopsKeeps ==
  ASSUME IInv, ReceiverStops
  PROVE  IInv'
<1>1. /\ TypeOK /\ receiver' \in {"test", "sent", "exited"}
      /\ UNCHANGED <<gen_vars, pubFifo, pub_vars, dds_vars, sub_vars, subFifo,
                     rcv_stop, fdset, message, signals>>
  BY DEF IInv, ReceiverStops
<1>2. MutexInv' /\ PublisherInv'
  BY <1>1, PublisherHalfKept DEF PublisherHalf, gen_vars, pub_vars, dds_vars
<1>3. UNCHANGED <<listener, taken, cache, delivered, subFifo>>
  BY <1>1 DEF dds_vars, sub_vars
<1>4. CASE Repeats
  <2>1. passed' = Append(passed, message)
    BY <1>4 DEF ReceiverStops
  <2>2. TypeOK'
    BY <1>1, <2>1, AppendAgain DEF TypeOK, gen_vars, pub_vars, dds_vars, sub_vars
  <2>3. SubscriberInv' /\ ReceiverInv'
    BY <1>1, <1>3, <2>1, AppendAgain DEF IInv, SubscriberInv, ReceiverInv
  <2>. QED  BY <1>2, <2>2, <2>3 DEF IInv
<1>5. CASE ~Repeats
  <2>1. UNCHANGED passed
    BY <1>5 DEF ReceiverStops
  <2>2. TypeOK'
    BY <1>1, <2>1 DEF TypeOK, gen_vars, pub_vars, dds_vars, sub_vars
  <2>3. Arrived' = Arrived /\ count' = count
    BY <2>1 DEF Arrived, count
  <2>4. SubscriberInv' /\ ReceiverInv'
    BY <1>1, <1>3, <2>1, <2>3 DEF IInv, SubscriberInv, ReceiverInv
  <2>. QED  BY <1>2, <2>2, <2>4 DEF IInv
<1>. QED  BY <1>4, <1>5

LEMMA Steps == IInv /\ [Next]_vars => IInv'
<1>. SUFFICES ASSUME IInv, [Next]_vars PROVE IInv'
  OBVIOUS
<1>1. CASE UNCHANGED vars
  <2>1. UNCHANGED PublisherHalf /\ UNCHANGED SubscriberHalf
    BY <1>1 DEF vars, PublisherHalf, SubscriberHalf, gen_vars, pub_vars, dds_vars, sub_vars, rcv_vars
  <2>2. TypeOK'
    BY <1>1 DEF IInv, TypeOK, vars, gen_vars, pub_vars, dds_vars, sub_vars, rcv_vars
  <2>. QED  BY <2>1, <2>2, PublisherHalfKept, SubscriberHalfKept DEF IInv
<1>2. CASE Next
  BY <1>2, GeneratorKeeps, PublisherMainKeeps, PublisherReadKeeps, PublisherMoves, PublisherWriteKeeps,
     DeliverKeeps, SubscriberMoves, ListenerTakeKeeps, ListenerWriteKeeps, ReceiverPassKeeps, ReceiverStopsKeeps,
     ReceiverResetKeeps
     DEF Next, CreationFails, Publisher, Listener, Receiver
<1>. QED  BY <1>1, <1>2

-----------------------------------------------------------------------------
(***************************************************************************)
(* The theorems.                                                           *)
(***************************************************************************)
\* In every state the hands, FIFOs and queues of the chain, from the server's side to the
\* generator's, hold one run of consecutive messages, up to what a stopped publisher drops.
THEOREM Inductive == Spec => []IInv
  BY Starts, Steps, PTL DEF Spec

\* Types, and no FIFO overfull.
THEOREM TypeCorrect == Spec => []TypeOK
<1>1. IInv => TypeOK
  BY DEF IInv
<1>. QED  BY <1>1, Inductive, PTL

\* A match cannot fall between the publisher's test and its sleep: the callback takes the
\* mutex (TargetsPublisherApp.cxx:126-152, 206-211).
THEOREM MatchNotMissedHolds == Spec => []MatchNotMissed
<1>1. IInv => MatchNotMissed
  BY DEF IInv, MutexInv, MatchNotMissed
<1>. QED  BY <1>1, Inductive, PTL

\* Nothing is published without a subscriber, although the publisher is woken and writes
\* in two steps, and a stop wakes it too (TargetsPublisherApp.cxx:202-237).
THEOREM PublishedWhenMatchedHolds == Spec => PublishedWhenMatched
<1>1. IInv /\ [Next]_vars => [history' # history => matched_]_vars
  <2>. SUFFICES ASSUME IInv, Next, history' # history PROVE matched_
    BY DEF vars, dds_vars
  <2>1. PublisherWrite
    BY DEF Next, PublisherMain, SubscriberMain, CreationFails, Generator, Publisher, Listener, Subscriber, Receiver,
           CreatePublisher, StartPublisher, ClosePublisher, CreateSubscriber, StartSubscriber, CloseSubscriber,
           CreatePublisherFails, CreateSubscriberFails, OpenPubFifo, GeneratorWrite, GeneratorWriteBreaks,
           GeneratorTest, PublisherLoop, PublisherRead, PublisherTest, PublisherSleep, ListenerCall, ListenerOpen,
           ListenerTake, ListenerWrite, ListenerWriteBreaks, SubscriberTest, SubscriberSleep, ReceiverPass,
           ReceiverTest, ReceiverFindsNothing, ReceiverStops, Match, Unmatch, Deliver, GeneratorStop,
           PublisherStop, SubscriberStop, ReceiverReset, ReceiverStop, ReceiverKilled, dds_vars
  <2>. QED  BY <2>1 DEF PublisherWrite, IInv, MutexInv
<1>. QED  BY <1>1, Inductive, PTL DEF Spec, PublishedWhenMatched

\* Steps that send nothing and pass nothing on leave the feed as it is, or break it.
LEMMA FeedStays ==
  ASSUME IInv, UNCHANGED <<sent, passed>>,
         subscriber \in Gone => subscriber' \in Gone, rcv_stop => rcv_stop'
  PROVE  TheFeed!Break \/ UNCHANGED TheFeed!vars
<1>1. Arrived' = Arrived /\ count' = count /\ last' = last
  BY DEF Arrived, count, last
<1>2. \/ (subscriber \in Gone \/ rcv_stop)' = (subscriber \in Gone \/ rcv_stop)
      \/ (subscriber \in Gone \/ rcv_stop)' = TRUE
  BY DEF Gone, IInv, TypeOK
<1>. QED  BY <1>1, <1>2 DEF TheFeed!Break, TheFeed!vars, count, Arrived, last

LEMMA FeedSteps == IInv /\ [Next]_vars => [TheFeed!Next]_(TheFeed!vars)
<1>. SUFFICES ASSUME IInv, [Next]_vars PROVE TheFeed!Next \/ UNCHANGED TheFeed!vars
  OBVIOUS
<1>1. CASE GeneratorWrite
  <2>1. sent' = sent + 1 /\ UNCHANGED <<passed, subscriber, rcv_stop>>
    BY <1>1 DEF GeneratorWrite, sub_vars, rcv_vars
  <2>. QED  BY <2>1 DEF TheFeed!Next, TheFeed!Send
<1>2. CASE ReceiverPass
  <2>1. UNCHANGED <<sent, subscriber, rcv_stop>>
    BY <1>2 DEF ReceiverPass, gen_vars, sub_vars
  <2>2. CASE subFifo # <<>>
    <3>1. /\ count < sent /\ count' = count + 1 /\ last' = count'
      BY <1>2, <2>2, PassNext, Lengths DEF IInv, last
    <3>. QED  BY <2>1, <3>1 DEF TheFeed!Next, TheFeed!Pass, count, Arrived, last
  <2>3. CASE subFifo = <<>>
    <3>1. subscriber \in Gone /\ count' = count /\ last' \in {last, 0}
      BY <1>2, <2>3, PassAgain DEF last
    <3>. QED  BY <2>1, <3>1 DEF TheFeed!Next, TheFeed!Again, count, Arrived, last
  <2>. QED  BY <2>2, <2>3
<1>3. CASE ReceiverStops
  <2>1. UNCHANGED <<sent, subscriber, rcv_stop>> /\ rcv_stop
    BY <1>3 DEF ReceiverStops, gen_vars, sub_vars
  <2>2. CASE Repeats
    <3>1. passed' = Append(passed, message) /\ UNCHANGED message
      BY <1>3, <2>2 DEF ReceiverStops
    <3>2. count' = count /\ last' \in {last, 0}
      BY <3>1, AppendAgain DEF IInv, last
    <3>. QED  BY <2>1, <3>2 DEF TheFeed!Next, TheFeed!Again, count, Arrived, last
  <2>3. CASE ~Repeats
    <3>1. UNCHANGED passed
      BY <1>3, <2>3 DEF ReceiverStops
    <3>. QED  BY <2>1, <3>1, FeedStays DEF TheFeed!Next
  <2>. QED  BY <2>2, <2>3
<1>4. CASE ~GeneratorWrite /\ ~ReceiverPass /\ ~ReceiverStops
  <2>1. UNCHANGED <<sent, passed>>
    BY <1>4 DEF Next, PublisherMain, SubscriberMain, CreationFails, Generator, Publisher, Listener, Subscriber, Receiver,
           CreatePublisher, StartPublisher, ClosePublisher, CreateSubscriber, StartSubscriber, CloseSubscriber,
           CreatePublisherFails, CreateSubscriberFails, OpenPubFifo, GeneratorWriteBreaks,
           GeneratorTest, PublisherLoop, PublisherRead, PublisherTest, PublisherSleep, PublisherWrite, ListenerCall,
           ListenerOpen, ListenerTake, ListenerWrite, ListenerWriteBreaks, SubscriberTest, SubscriberSleep,
           ReceiverTest, ReceiverFindsNothing, Match, Unmatch, Deliver, GeneratorStop, PublisherStop,
           SubscriberStop, ReceiverReset, ReceiverStop, ReceiverKilled, vars, gen_vars, rcv_vars
  <2>2. (subscriber \in Gone => subscriber' \in Gone) /\ (rcv_stop => rcv_stop')
    BY <1>4 DEF Next, PublisherMain, SubscriberMain, CreationFails, Generator, Publisher, Listener, Subscriber, Receiver,
           CreatePublisher, StartPublisher, ClosePublisher, CreateSubscriber, StartSubscriber, CloseSubscriber,
           CreatePublisherFails, CreateSubscriberFails, OpenPubFifo, GeneratorWriteBreaks,
           GeneratorTest, PublisherLoop, PublisherRead, PublisherTest, PublisherSleep, PublisherWrite, ListenerCall,
           ListenerOpen, ListenerTake, ListenerWrite, ListenerWriteBreaks, SubscriberTest, SubscriberSleep,
           ReceiverTest, ReceiverFindsNothing, Match, Unmatch, Deliver, GeneratorStop, PublisherStop,
           SubscriberStop, ReceiverReset, ReceiverStop, ReceiverKilled, vars, sub_vars, rcv_vars, Gone
  <2>. QED  BY <2>1, <2>2, FeedStays DEF TheFeed!Next
<1>. QED  BY <1>1, <1>2, <1>3, <1>4

\* The chain of two FIFOs, DDS and the listener implements Feed: messages are passed on in
\* order, each once and none left out, with repetitions only after the subscriber's end
\* (Targets_Generator.c:150) or the receiver's own stop (Obstacle_Generator.c:113).
THEOREM Refinement == Spec => ImplementsFeed
<1>1. Init => TheFeed!Init
  <2>. SUFFICES ASSUME Init PROVE TheFeed!Init
    OBVIOUS
  <2>1. DOMAIN passed = {} /\ passed = <<>> /\ sent = 0 /\ subscriber \notin Gone /\ ~rcv_stop
    BY DEF Init, Gone
  <2>2. Cardinality({passed[j] : j \in DOMAIN passed} \ {0}) = 0
    <3>1. {passed[j] : j \in DOMAIN passed} \ {0} = {}
      BY <2>1
    <3>. QED  BY <3>1, FS_EmptySet
  <2>. QED  BY <2>1, <2>2 DEF TheFeed!Init
<1>. QED  BY <1>1, FeedSteps, Inductive, PTL DEF Spec, ImplementsFeed, TheFeed!Spec
=============================================================================
