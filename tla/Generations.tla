---------------------------- MODULE Generations ----------------------------
(***************************************************************************)
(* What a restart of the game promises, without saying how: every process  *)
(* counts the resets it has taken, one at a time, and the server is the    *)
(* hub.  A client takes its next reset only when the server has caught up   *)
(* with it, and the server only when the dynamics and the window have.     *)
(***************************************************************************)
EXTENDS Naturals

CONSTANT Players    \* "server", "dynamics", "window" and any other clients

VARIABLE gen        \* how many resets each process has taken

MayAdvance(p) ==
  IF p = "server"
  THEN gen["server"] <= gen["dynamics"] /\ gen["server"] <= gen["window"]
  ELSE gen[p] <= gen["server"]

Advance(p) == MayAdvance(p) /\ gen' = [gen EXCEPT ![p] = @ + 1]

Init == gen = [p \in Players |-> 0]

Next == \E p \in Players : Advance(p)

Spec == Init /\ [][Next]_gen
=============================================================================
