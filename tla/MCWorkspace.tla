---------------------------- MODULE MCWorkspace ----------------------------
(* A workspace of two phases, one session, one task and two actors, begun     *)
(* in either legacy layout or in the CURRENT one with either profile; a third  *)
(* phase may be opened while a transition is being applied.                    *)
EXTENDS Workspace, TLC

CONSTANTS p1, p2, p3, s1, t1, main, agent

MCPhases == {p1, p2, p3}

\* Bounds: while a transition is being applied the owner may edit, and one command
\* may write; the third phase is there only for that long, and is the target of no
\* plan; and nothing more is asked once the transition has overwritten what the
\* command wrote.
Brief == applying # None /\ applying' # None =>
           applying.alone /\ (edits' # edits \/ work' # work \/ ~applying'.alone)
Third == /\ state'.status[p3] # "absent" => applying' # None
         /\ plan'.target # p3
MCSpec == Init /\ [][~overwrote /\ Next /\ Brief /\ Third]_vars /\ RepairFairness
=============================================================================
