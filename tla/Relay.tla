-------------------------------- MODULE Relay --------------------------------
(***************************************************************************)
(* How targets and obstacles get from the machine that generates them to   *)
(* the one that plays: the generator in publisher mode writes them to a    *)
(* FIFO, the publisher reads them from there and publishes them, the       *)
(* subscriber's listener writes what it receives to another FIFO, and the  *)
(* generator in subscriber mode passes it on to the server.                *)
(*                                                                         *)
(* Publisher and subscriber are processes of two threads and those of DDS: *)
(* main makes the application, entity by entity, starts the thread of its  *)
(* run(), installs the signal handlers, waits for the thread and takes the *)
(* application down.  What run() does in the moment before the handlers    *)
(* are there is not told apart from what it does after.                    *)
(*                                                                         *)
(* Messages are numbered from 1.  DDS is external: it is reliable, keeps   *)
(* all samples for late joiners as long as the publisher lives, calls the  *)
(* listener once for every sample that has come, and waits for the call    *)
(* when its reader is deleted.  Open descriptors are not counted.  What    *)
(* the server does with the messages, and the signals of the player, are   *)
(* in GameLifecycle and Blackboard.                                        *)
(***************************************************************************)
EXTENDS Naturals, FiniteSets, SequencesExt

CONSTANTS
  PipeCap,       \* messages that fit in a FIFO
  Repeats,       \* the receiving generator looks again: it is the obstacles'
  MaxMessages,   \* bound: how many messages are generated
  MaxPassed,     \* bound: how many are passed on, repetitions included
  MaxSignals,    \* bound: how often the player resets or stops the receiving generator
  MaxMatches     \* bound: how often publisher and subscriber are matched

ASSUME RelayAssumption ==
  /\ PipeCap \in Nat \ {0} /\ Repeats \in BOOLEAN
  /\ MaxMessages \in Nat /\ MaxPassed \in Nat /\ MaxSignals \in Nat /\ MaxMatches \in Nat

VARIABLES
  generator, stop, sent,           \* the generator in publisher mode: where it is,
                                   \* its flag, how many messages it has written
  pubFifo,                         \* its FIFO to the publisher
  publisher, pub_stop, matched_,   \* where the publisher's run() is, its variables
  pub_entities,                    \* how many of its entities there are
  sample,                          \* the message it has read
  matches,                         \* how often it has been matched
  history, delivered,              \* the samples written; how many have come
  cache, callbacks,                \* those the subscriber has not taken; calls due
  listener, taken,                 \* where on_data_available is; the sample taken
  subscriber, sub_stop,            \* where the subscriber's run() is, its flag
  sub_entities,                    \* how many of its entities there are
  subFifo,                         \* its FIFO to the receiving generator
  receiver, rcv_stop,              \* where the receiving generator is, its flag,
  fdset, message,                  \* and its variables
  passed, signals                  \* what it has passed on; its signals

gen_vars == <<generator, stop, sent>>
pub_vars == <<publisher, pub_entities, pub_stop, matched_, sample, matches>>
dds_vars == <<history, delivered, cache, callbacks>>
sub_vars == <<listener, taken, subscriber, sub_entities, sub_stop>>
rcv_vars == <<receiver, rcv_stop, fdset, message, passed, signals>>
vars == <<gen_vars, pubFifo, pub_vars, dds_vars, sub_vars, subFifo, rcv_vars>>

Gone == {"exited", "killed"}

(***************************************************************************)
(* The generator in publisher mode.                                        *)
(***************************************************************************)
\* The opens of the FIFO block until both ends are there.
OpenPubFifo ==
  /\ generator = "open" /\ publisher = "open"
  /\ generator' = "write" /\ publisher' = "loop"
  /\ UNCHANGED <<stop, sent, pubFifo, pub_entities, pub_stop, matched_, sample, matches,
                 dds_vars, sub_vars, subFifo, rcv_vars>>

\* The write blocks while the FIFO is full, signals or not.
GeneratorWrite ==
  /\ generator = "write" /\ publisher \notin Gone
  /\ sent < MaxMessages /\ Len(pubFifo) < PipeCap
  /\ sent' = sent + 1
  /\ pubFifo' = Append(pubFifo, sent')
  /\ generator' = "test"
  /\ UNCHANGED <<stop, pub_vars, dds_vars, sub_vars, subFifo, rcv_vars>>

GeneratorWriteBreaks ==
  /\ generator = "write" /\ publisher \in Gone
  /\ generator' = "killed"
  /\ UNCHANGED <<stop, sent, pubFifo, pub_vars, dds_vars, sub_vars, subFifo, rcv_vars>>

\* After a second's sleep.  A reset changes nothing that is modelled here.
GeneratorTest ==
  /\ generator = "test"
  /\ generator' = IF stop THEN "exited" ELSE "write"
  /\ UNCHANGED <<stop, sent, pubFifo, pub_vars, dds_vars, sub_vars, subFifo, rcv_vars>>

GeneratorStop ==
  /\ generator \notin Gone /\ ~stop
  /\ stop' = TRUE
  /\ UNCHANGED <<generator, sent, pubFifo, pub_vars, dds_vars, sub_vars, subFifo, rcv_vars>>

(***************************************************************************)
(* Making publisher and subscriber and taking them down: main.             *)
(***************************************************************************)
PublisherEntities == <<"participant", "publisher", "topic", "writer">>
SubscriberEntities == <<"participant", "subscriber", "topic", "reader">>

\* DDS calls back as soon as there is a writer and a reader, which is before the
\* constructor has ended.
Matchable ==
  /\ publisher \notin Gone /\ pub_entities = Len(PublisherEntities)
  /\ subscriber \notin Gone /\ sub_entities = Len(SubscriberEntities)

CreatePublisher ==
  /\ publisher = "create" /\ pub_entities < Len(PublisherEntities)
  /\ pub_entities' = pub_entities + 1
  /\ UNCHANGED <<gen_vars, pubFifo, publisher, pub_stop, matched_, sample, matches,
                 dds_vars, sub_vars, subFifo, rcv_vars>>

\* The exception is caught, but main goes on to start the thread, without an
\* application: a null pointer.
CreatePublisherFails ==
  /\ publisher = "create" /\ pub_entities < Len(PublisherEntities)
  /\ publisher' = "killed" /\ pub_entities' = 0
  /\ UNCHANGED <<gen_vars, pubFifo, pub_stop, matched_, sample, matches,
                 dds_vars, sub_vars, subFifo, rcv_vars>>

\* The thread and the signal handlers.
StartPublisher ==
  /\ publisher = "create" /\ pub_entities = Len(PublisherEntities)
  /\ publisher' = "open"
  /\ UNCHANGED <<gen_vars, pubFifo, pub_entities, pub_stop, matched_, sample, matches,
                 dds_vars, sub_vars, subFifo, rcv_vars>>

\* run() has returned; main has joined the thread and destroys the application.
ClosePublisher ==
  /\ publisher = "closing"
  /\ publisher' = "exited" /\ pub_entities' = 0
  /\ UNCHANGED <<gen_vars, pubFifo, pub_stop, matched_, sample, matches,
                 dds_vars, sub_vars, subFifo, rcv_vars>>

CreateSubscriber ==
  /\ subscriber = "create" /\ sub_entities < Len(SubscriberEntities)
  /\ sub_entities' = sub_entities + 1
  /\ UNCHANGED <<gen_vars, pubFifo, pub_vars, dds_vars, listener, taken, subscriber,
                 sub_stop, subFifo, rcv_vars>>

CreateSubscriberFails ==
  /\ subscriber = "create" /\ sub_entities < Len(SubscriberEntities)
  /\ subscriber' = "killed" /\ sub_entities' = 0
  /\ UNCHANGED <<gen_vars, pubFifo, pub_vars, dds_vars, listener, taken,
                 sub_stop, subFifo, rcv_vars>>

StartSubscriber ==
  /\ subscriber = "create" /\ sub_entities = Len(SubscriberEntities)
  /\ subscriber' = "test"
  /\ UNCHANGED <<gen_vars, pubFifo, pub_vars, dds_vars, listener, taken, sub_entities,
                 sub_stop, subFifo, rcv_vars>>

\* The deletion of the reader waits for the listener, which may be blocked.
CloseSubscriber ==
  /\ subscriber = "closing" /\ listener = "idle"
  /\ subscriber' = "exited" /\ sub_entities' = 0
  /\ UNCHANGED <<gen_vars, pubFifo, pub_vars, dds_vars, listener, taken,
                 sub_stop, subFifo, rcv_vars>>

\* A signal ends a process that has not installed its handlers.
Handled(process) == process # "create"

(***************************************************************************)
(* The publisher.                                                          *)
(***************************************************************************)
\* The test of the loop; before it, all but the first time, cv_.wait_for: ten
\* seconds at most, so that no notification is needed.
PublisherLoop ==
  /\ publisher = "loop"
  /\ publisher' = IF pub_stop THEN "closing" ELSE "read"
  /\ UNCHANGED <<gen_vars, pubFifo, pub_entities, pub_stop, matched_, sample, matches,
                 dds_vars, sub_vars, subFifo, rcv_vars>>

\* Mutant of PublisherRead: what read() returns is not looked at.
PublisherReadUnchecked ==
  /\ publisher = "read"
  /\ pubFifo # <<>> \/ generator \in Gone
  /\ IF pubFifo # <<>> THEN sample' = Head(pubFifo) /\ pubFifo' = Tail(pubFifo)
                       ELSE sample' = 0 /\ UNCHANGED pubFifo
  /\ publisher' = "publish"
  /\ UNCHANGED <<gen_vars, pub_entities, pub_stop, matched_, matches, dds_vars, sub_vars, subFifo, rcv_vars>>

\* read() blocks while the FIFO is empty, unless the generator has gone: then
\* it returns 0.
PublisherRead ==
  /\ publisher = "read"
  /\ \/ /\ pubFifo # <<>>
        /\ sample' = Head(pubFifo) /\ pubFifo' = Tail(pubFifo)
        /\ publisher' = "publish"
     \/ /\ pubFifo = <<>> /\ generator \in Gone
        /\ publisher' = "loop"
        /\ UNCHANGED <<sample, pubFifo>>
  /\ UNCHANGED <<gen_vars, pub_entities, pub_stop, matched_, matches, dds_vars, sub_vars, subFifo, rcv_vars>>

\* cv_.wait in publish: the predicate is tested with mutex_ held ...
PublisherTest ==
  /\ publisher = "publish"
  /\ publisher' = IF matched_ \/ pub_stop THEN "write" ELSE "wait"
  /\ UNCHANGED <<gen_vars, pubFifo, pub_entities, pub_stop, matched_, sample, matches,
                 dds_vars, sub_vars, subFifo, rcv_vars>>

\* ... and mutex_ is released when the thread is asleep.
PublisherSleep ==
  /\ publisher = "wait"
  /\ publisher' = "sleep"
  /\ UNCHANGED <<gen_vars, pubFifo, pub_entities, pub_stop, matched_, sample, matches,
                 dds_vars, sub_vars, subFifo, rcv_vars>>

PublisherWrite ==
  /\ publisher = "write"
  /\ history' = IF pub_stop THEN history ELSE Append(history, sample)
  /\ publisher' = "loop"
  /\ UNCHANGED <<gen_vars, pubFifo, pub_entities, pub_stop, matched_, sample, matches,
                 delivered, cache, callbacks, sub_vars, subFifo, rcv_vars>>

Woken == IF publisher = "sleep" THEN "publish" ELSE publisher

\* stop(), from the signal handler: mutex_ is not taken.
PublisherStop ==
  /\ publisher \notin Gone /\ ~pub_stop
  /\ pub_stop' = TRUE
  /\ publisher' = IF Handled(publisher) THEN Woken ELSE "killed"
  /\ pub_entities' = IF Handled(publisher) THEN pub_entities ELSE 0
  /\ UNCHANGED <<gen_vars, pubFifo, matched_, sample, matches,
                 dds_vars, sub_vars, subFifo, rcv_vars>>

(***************************************************************************)
(* DDS.                                                                    *)
(***************************************************************************)
\* Mutex_ is held from the test of the predicate to the thread's sleep, or to
\* the end of publish.
MutexFree == publisher \notin {"wait", "write"}

\* Mutant of Match: matched_ is set without the mutex.
MatchUnlocked ==
  /\ Matchable /\ ~matched_ /\ matches < MaxMatches
  /\ matched_' = TRUE /\ matches' = matches + 1
  /\ publisher' = Woken
  /\ UNCHANGED <<gen_vars, pubFifo, pub_entities, pub_stop, sample, dds_vars, sub_vars, subFifo, rcv_vars>>

\* on_publication_matched, with notify_one.
Match ==
  /\ Matchable /\ ~matched_ /\ matches < MaxMatches
  /\ MutexFree
  /\ matched_' = TRUE /\ matches' = matches + 1
  /\ publisher' = Woken
  /\ UNCHANGED <<gen_vars, pubFifo, pub_entities, pub_stop, sample, dds_vars, sub_vars, subFifo, rcv_vars>>

\* Mutant of Unmatch: matched_ is reset without the mutex.
UnmatchUnlocked ==
  /\ publisher \notin Gone /\ matched_
  /\ matched_' = FALSE
  /\ UNCHANGED <<gen_vars, pubFifo, publisher, pub_entities, pub_stop, sample, matches,
                 dds_vars, sub_vars, subFifo, rcv_vars>>

\* The subscriber has gone, or is not heard of any more.
Unmatch ==
  /\ publisher \notin Gone /\ matched_ /\ MutexFree
  /\ matched_' = FALSE
  /\ UNCHANGED <<gen_vars, pubFifo, publisher, pub_entities, pub_stop, sample, matches,
                 dds_vars, sub_vars, subFifo, rcv_vars>>

Deliver ==
  /\ Matchable /\ matched_
  /\ delivered < Len(history)
  /\ delivered' = delivered + 1
  /\ cache' = Append(cache, history[delivered'])
  /\ callbacks' = callbacks + 1
  /\ UNCHANGED <<gen_vars, pubFifo, pub_vars, history, sub_vars, subFifo, rcv_vars>>

(***************************************************************************)
(* The subscriber: its listener, which DDS calls, and run().               *)
(***************************************************************************)
ListenerCall ==
  /\ subscriber \notin Gone /\ listener = "idle" /\ callbacks > 0
  /\ callbacks' = callbacks - 1
  /\ listener' = "open"
  /\ UNCHANGED <<gen_vars, pubFifo, pub_vars, history, delivered, cache,
                 taken, subscriber, sub_entities, sub_stop, subFifo, rcv_vars>>

\* Every call opens the FIFO anew; the open blocks until the receiving
\* generator has it open, which itself waits for the first call.
ListenerOpen ==
  /\ subscriber \notin Gone /\ listener = "open" /\ receiver # "exited"
  /\ listener' = "take"
  /\ receiver' = IF receiver = "open" THEN "test" ELSE receiver
  /\ UNCHANGED <<gen_vars, pubFifo, pub_vars, dds_vars, taken, subscriber, sub_entities, sub_stop,
                 subFifo, rcv_stop, fdset, message, passed, signals>>

\* Mutant of ListenerTake: one sample for each call.
ListenerTakeLatest ==
  /\ subscriber \notin Gone /\ listener = "take"
  /\ IF ~sub_stop /\ cache # <<>>
     THEN taken' = Last(cache) /\ cache' = <<>> /\ listener' = "write"
     ELSE UNCHANGED <<taken, cache>> /\ listener' = "idle"
  /\ UNCHANGED <<gen_vars, pubFifo, pub_vars, history, delivered, callbacks,
                 subscriber, sub_entities, sub_stop, subFifo, rcv_vars>>

ListenerTake ==
  /\ subscriber \notin Gone /\ listener = "take"
  /\ IF ~sub_stop /\ cache # <<>>
     THEN taken' = Head(cache) /\ cache' = Tail(cache) /\ listener' = "write"
     ELSE UNCHANGED <<taken, cache>> /\ listener' = "idle"
  /\ UNCHANGED <<gen_vars, pubFifo, pub_vars, history, delivered, callbacks,
                 subscriber, sub_entities, sub_stop, subFifo, rcv_vars>>

ListenerWrite ==
  /\ subscriber \notin Gone /\ listener = "write"
  /\ receiver # "exited" /\ Len(subFifo) < PipeCap
  /\ subFifo' = Append(subFifo, taken)
  /\ listener' = "take"
  /\ UNCHANGED <<gen_vars, pubFifo, pub_vars, dds_vars, taken, subscriber, sub_entities, sub_stop, rcv_vars>>

ListenerWriteBreaks ==
  /\ subscriber \notin Gone /\ listener = "write" /\ receiver = "exited"
  /\ subscriber' = "killed" /\ sub_entities' = 0
  /\ UNCHANGED <<gen_vars, pubFifo, pub_vars, dds_vars, listener, taken, sub_stop,
                 subFifo, rcv_vars>>

\* terminate_cv_.wait in run: the predicate, and then sleep.
SubscriberTest ==
  /\ subscriber = "test"
  /\ subscriber' = IF sub_stop THEN "closing" ELSE "wait"
  /\ UNCHANGED <<gen_vars, pubFifo, pub_vars, dds_vars, listener, taken, sub_entities, sub_stop,
                 subFifo, rcv_vars>>

SubscriberSleep ==
  /\ subscriber = "wait"
  /\ subscriber' = "sleep"
  /\ UNCHANGED <<gen_vars, pubFifo, pub_vars, dds_vars, listener, taken, sub_entities, sub_stop,
                 subFifo, rcv_vars>>

\* stop(), which may be called again.  What is between the test and the sleep
\* is not woken.
SubscriberStop ==
  /\ subscriber \notin Gone
  /\ sub_stop' = TRUE
  /\ subscriber' = IF ~Handled(subscriber) THEN "killed"
                   ELSE IF subscriber = "sleep" THEN "test" ELSE subscriber
  /\ sub_entities' = IF Handled(subscriber) THEN sub_entities ELSE 0
  /\ UNCHANGED <<gen_vars, pubFifo, pub_vars, dds_vars, listener, taken, subFifo, rcv_vars>>

(***************************************************************************)
(* The generator in subscriber mode.                                       *)
(***************************************************************************)
\* The tests of reset and stop, at "test", have found nothing; for the obstacles' generator
\* that is ten seconds after its last message.
ReceiverTest ==
  /\ receiver = "test" /\ ~rcv_stop
  /\ receiver' = "select"
  /\ UNCHANGED <<gen_vars, pubFifo, pub_vars, dds_vars, sub_vars, subFifo,
                 rcv_stop, fdset, message, passed, signals>>

\* select() finds a message, or the end of the file.
HasInput == subFifo # <<>> \/ subscriber \in Gone

\* What read() returns is not looked at: at the end of the file the last
\* message, or 0 when there has been none since the start, is passed on.
ReceiverPass ==
  /\ receiver = "select" /\ fdset /\ HasInput /\ Len(passed) < MaxPassed
  /\ message' = IF subFifo # <<>> THEN Head(subFifo) ELSE message
  /\ subFifo' = IF subFifo # <<>> THEN Tail(subFifo) ELSE subFifo
  /\ passed' = Append(passed, message')
  /\ receiver' = IF Repeats THEN "test" ELSE "sent"
  /\ UNCHANGED <<gen_vars, pubFifo, pub_vars, dds_vars, sub_vars, rcv_stop, fdset, signals>>

\* select() finds nothing, and takes the descriptor out of read_fds for good.
ReceiverFindsNothing ==
  /\ receiver = "select" /\ ~(fdset /\ HasInput)
  /\ fdset' = FALSE
  /\ receiver' = "test"
  /\ UNCHANGED <<gen_vars, pubFifo, pub_vars, dds_vars, sub_vars, subFifo,
                 rcv_stop, message, passed, signals>>

ReceiverReset ==
  /\ receiver \in {"test", "sent"} /\ signals < MaxSignals
  /\ signals' = signals + 1
  /\ receiver' = "test" /\ fdset' = TRUE /\ message' = 0
  /\ UNCHANGED <<gen_vars, pubFifo, pub_vars, dds_vars, sub_vars, subFifo, rcv_stop, passed>>

ReceiverStop ==
  /\ receiver \in {"test", "select", "sent"} /\ ~rcv_stop /\ signals < MaxSignals
  /\ signals' = signals + 1
  /\ rcv_stop' = TRUE
  /\ UNCHANGED <<gen_vars, pubFifo, pub_vars, dds_vars, sub_vars, subFifo,
                 receiver, fdset, message, passed>>

\* The test of stop.  The targets generator exits; the obstacles' one only leaves the loop
\* that waits for a message, and passes the last one on again, or 0.
ReceiverStops ==
  /\ receiver \in {"test", "sent"} /\ rcv_stop
  /\ IF Repeats THEN /\ Len(passed) < MaxPassed
                     /\ passed' = Append(passed, message) /\ UNCHANGED receiver
                ELSE receiver' = "exited" /\ UNCHANGED passed
  /\ UNCHANGED <<gen_vars, pubFifo, pub_vars, dds_vars, sub_vars, subFifo,
                 rcv_stop, fdset, message, signals>>

\* Its FIFO to the server is broken, or somebody kills it.
ReceiverKilled ==
  /\ receiver \in {"test", "select", "sent"}
  /\ receiver' = "exited"
  /\ UNCHANGED <<gen_vars, pubFifo, pub_vars, dds_vars, sub_vars, subFifo,
                 rcv_stop, fdset, message, passed, signals>>

(***************************************************************************)
(* The specification.                                                      *)
(***************************************************************************)
Init ==
  /\ generator = "open" /\ stop = FALSE /\ sent = 0 /\ pubFifo = <<>>
  /\ publisher = "create" /\ pub_entities = 0 /\ pub_stop = FALSE
  /\ matched_ = FALSE /\ sample = 0 /\ matches = 0
  /\ history = <<>> /\ delivered = 0 /\ cache = <<>> /\ callbacks = 0
  /\ listener = "idle" /\ taken = 0
  /\ subscriber = "create" /\ sub_entities = 0 /\ sub_stop = FALSE
  /\ subFifo = <<>>
  /\ receiver = "open" /\ rcv_stop = FALSE /\ fdset = TRUE /\ message = 0
  /\ passed = <<>> /\ signals = 0

Generator == GeneratorWrite \/ GeneratorWriteBreaks \/ GeneratorTest
PublisherMain == CreatePublisher \/ StartPublisher \/ ClosePublisher
SubscriberMain == CreateSubscriber \/ StartSubscriber \/ CloseSubscriber
CreationFails == CreatePublisherFails \/ CreateSubscriberFails
Publisher == \/ PublisherLoop \/ PublisherRead \/ PublisherTest
             \/ PublisherSleep \/ PublisherWrite
Listener == \/ ListenerCall \/ ListenerOpen \/ ListenerTake
            \/ ListenerWrite \/ ListenerWriteBreaks
Subscriber == SubscriberTest \/ SubscriberSleep
Receiver == ReceiverTest \/ ReceiverPass \/ ReceiverFindsNothing \/ ReceiverStops

Next ==
  \/ PublisherMain \/ SubscriberMain \/ CreationFails
  \/ OpenPubFifo \/ Generator \/ Publisher \/ Listener \/ Subscriber \/ Receiver
  \/ Match \/ Unmatch \/ Deliver
  \/ GeneratorStop \/ PublisherStop \/ SubscriberStop
  \/ ReceiverReset \/ ReceiverStop \/ ReceiverKilled

Spec == Init /\ [][Next]_vars

\* Everybody runs and DDS delivers; nobody need be matched, stopped or reset.
FairSpec ==
  /\ Spec
  /\ WF_vars(Generator) /\ WF_vars(PublisherMain \/ OpenPubFifo \/ Publisher)
  /\ WF_vars(Deliver) /\ WF_vars(Listener) /\ WF_vars(SubscriberMain \/ Subscriber)
  /\ WF_vars(Receiver)

(***************************************************************************)
(* Properties.                                                             *)
(***************************************************************************)
Numbers == 0 .. MaxMessages

TypeOK ==
  /\ generator \in {"open", "write", "test"} \cup Gone /\ stop \in BOOLEAN
  /\ sent \in Numbers
  /\ publisher \in {"create", "open", "loop", "read", "publish", "wait", "sleep", "write",
                   "closing"} \cup Gone
  /\ pub_entities \in 0 .. Len(PublisherEntities)
  /\ pub_stop \in BOOLEAN /\ matched_ \in BOOLEAN /\ sample \in Numbers
  /\ matches \in 0 .. MaxMatches
  /\ history \in Seq(1 .. MaxMessages) /\ delivered \in 0 .. Len(history)
  /\ cache \in Seq(1 .. MaxMessages) /\ callbacks \in Nat
  /\ listener \in {"idle", "open", "take", "write"} /\ taken \in Numbers
  /\ subscriber \in {"create", "test", "wait", "sleep", "closing"} \cup Gone
  /\ sub_entities \in 0 .. Len(SubscriberEntities) /\ sub_stop \in BOOLEAN
  /\ pubFifo \in Seq(Numbers) /\ Len(pubFifo) <= PipeCap
  /\ subFifo \in Seq(Numbers) /\ Len(subFifo) <= PipeCap
  /\ receiver \in {"open", "test", "select", "sent", "exited"}
  /\ rcv_stop \in BOOLEAN /\ fdset \in BOOLEAN
  /\ message \in Numbers /\ passed \in Seq(Numbers) /\ signals \in 0 .. MaxSignals

\* The chain, seen from its two ends.
TheFeed == INSTANCE Feed WITH
  passed <- Cardinality({passed[i] : i \in DOMAIN passed} \ {0}),
  last <- IF passed = <<>> THEN 0 ELSE Last(passed),
  broken <- subscriber \in Gone \/ rcv_stop

\* The messages are passed on in the order they were sent, each once and none
\* left out, through two FIFOs, DDS and the listener, however often publisher and
\* subscriber lose each other; the receiver repeats itself, or invents a message, only
\* when the subscriber has ended, which it does not notice, or it has been told to stop
\* itself, which the obstacles' generator takes for a message.
ImplementsFeed == TheFeed!Spec

\* Nothing is published unless a subscriber is matched at that moment.
PublishedWhenMatched == [][history' # history => matched_]_vars

\* The publisher is never asleep while it is matched: a match cannot fall between
\* its test and its sleep.  It may well be asleep with its stop flag set, which is
\* set without the mutex.
MatchNotMissed == publisher = "sleep" => ~matched_

\* While nobody ends, and publisher and subscriber stay matched, the first message
\* comes through: none of the opens that wait for each other is a deadlock, and a
\* listener that is called before its constructor has ended does no harm.
FirstComesThrough ==
  /\ [](~stop /\ ~pub_stop /\ ~sub_stop /\ receiver # "exited")
  /\ []({publisher, subscriber} \cap Gone = {})
  /\ <>[]matched_
  => <>(subFifo # <<>>)

\* Targetsmain.cxx:91 "Please press Ctrl+C to stop the" subscriber "at any time."
StopsAtAnyTime == sub_stop ~> subscriber \in Gone
=============================================================================
