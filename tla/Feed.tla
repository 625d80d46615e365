-------------------------------- MODULE Feed --------------------------------
(***************************************************************************)
(* What the chain from the generator of one machine to the generator of    *)
(* another promises: the messages, numbered from 1, are passed on in       *)
(* order, each once and none left out.  Once the chain is broken the last  *)
(* one may be passed on again, or 0, which no generator has sent.          *)
(***************************************************************************)
EXTENDS Naturals

VARIABLES
  sent,      \* how many messages have been sent
  passed,    \* how many of them have been passed on
  last,      \* what was passed on last; 0 before the first
  broken     \* the chain is broken, or told to stop

vars == <<sent, passed, last, broken>>

Init == sent = 0 /\ passed = 0 /\ last = 0 /\ broken = FALSE

Send == sent' = sent + 1 /\ UNCHANGED <<passed, last, broken>>

Pass ==
  /\ passed < sent
  /\ passed' = passed + 1 /\ last' = passed'
  /\ UNCHANGED <<sent, broken>>

Break == broken' = TRUE /\ UNCHANGED <<sent, passed, last>>

Again == broken /\ last' \in {last, 0} /\ UNCHANGED <<sent, passed, broken>>

Next == Send \/ Pass \/ Break \/ Again

Spec == Init /\ [][Next]_vars
=============================================================================
