---------------------------- MODULE MCInstallation ----------------------------
(* An installation with a legacy generation and one of version 2.  Operations  *)
(* are planned in the order of their names, which breaks the symmetry without  *)
(* a loss for liveness; they begin, fail and are recovered in any order.  Two  *)
(* operations may meet two mishaps, three meet none.                           *)
EXTENDS Installation, TLC

CONSTANTS o1, o2, o3
MCOperations == {o1, o2, o3}
Planned == /\ plan'[o2] # None => plan'[o1] # None
           /\ plan'[o3] # None => plan'[o2] # None /\ faults' + edits' < 1

MCSpec == Init /\ [][Next /\ Planned]_vars /\ Fairness
=============================================================================
