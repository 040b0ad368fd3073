---------------------------- MODULE MCAuthority ----------------------------
(* The workspace begins with documents or with a database.  The first switch   *)
(* adopts or relocates; the second recovers forward, or relocates once more.   *)
EXTENDS StateAuthority, TLC

CONSTANTS s1, s2, s3, b1, b2, f1, f2, w1

\* Bounds: stores and backups are used in order, the last ones for a second
\* relocation only; ordinary writes happen where a plan may notice them.
InOrder == /\ db'[s2] # None => db'[s1] # None
           /\ db'[s3] # None \/ saved'[b2] # None => plan'[f2] # None /\ plan'[f2].target = s3
Kinds == /\ plan'[f1] # None => plan'[f1].kind \in {"ADOPT", "PREPARING", "RELOCATE"}
         /\ plan'[f2] # None => plan'[f2].kind # "ADOPT" /\ (plan'[f2].target = s3 => plan'[f2].old = s2)
Noticed == \A s \in Stores : (db[s] # None /\ db'[s].notes > db[s].notes) => \E f \in Switches : plan[f] # None
MCSpec == Init /\ [][Next /\ InOrder /\ Kinds /\ Noticed]_vars /\ SwitchFairness
=============================================================================
