---------------------------- MODULE ForkChoice ----------------------------
(***************************************************************************)
(* What a node promises about its chain, whatever its threads are doing:   *)
(* the chain grows by a block, or gives way to a heavier one that undoes   *)
(* at most MaxReorgDepth blocks; what is saved is the chain of some        *)
(* moment, and only a restart goes back to it.                             *)
(***************************************************************************)
EXTENDS Chain

VARIABLES
  best,    \* the chain each node is on
  saved    \* the chain each node would restart with

vars == <<best, saved>>

Init ==
  /\ best = [n \in Nodes |-> << >>]
  /\ saved = [n \in Nodes |-> << >>]

Only(n) == \A m \in Nodes \ {n} : best'[m] = best[m]

Grow(n) ==
  /\ Extends(best'[n], best[n])
  /\ Only(n)
  /\ UNCHANGED saved

Adopt(n) ==
  /\ Heavier(best'[n], best[n])
  /\ ReorgAllowed(best[n], best'[n])
  /\ Only(n)
  /\ UNCHANGED saved

Save(n) ==
  /\ saved' = [saved EXCEPT ![n] = best[n]]
  /\ UNCHANGED best

Restart(n) ==
  /\ best' = [best EXCEPT ![n] = saved[n]]
  /\ UNCHANGED saved

Next == \E n \in Nodes : Grow(n) \/ Adopt(n) \/ Save(n) \/ Restart(n)

Spec == Init /\ [][Next]_vars
=============================================================================
