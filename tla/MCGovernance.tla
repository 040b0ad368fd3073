---------------------------- MODULE MCGovernance ----------------------------
(***************************************************************************)
(* A small project: two phases, the first with a hard criterion; two tasks *)
(* of which the second depends on the first; a report in each phase, the   *)
(* one of the first phase referring to the other in the archive.           *)
(***************************************************************************)
EXTENDS Governance, TLC

CONSTANTS p1, p2, t1, t2, a1, a2, s1

MCPredecessors == t1 :> {} @@ t2 :> {t1}
MCOwner == a1 :> p1 @@ a2 :> p2
MCRelations == {[from |-> a1, kind |-> "MIRROR_OF", to |-> a2, form |-> "archive"]}

\* Bound: with one task, besides the first of everything, two more revisions of
\* tasks and phases, or one more of the project, of an acceptance or a receipt, or
\* one lost piece of evidence or edited plan; with both tasks and no artifacts
\* one more of any of these.
More(n) == IF n > 1 THEN n - 1 ELSE 0
Revised == More(phase[p1].rev) + More(phase[p2].rev) + More(task[t1].rev) + More(task[t2].rev)
Repeated == More(project) + More(Len(projectReceipts)) + Cardinality(unreadable)
              + More(Len(receipts[p1])) + More(Len(receipts[p2])) + More(issued[t1]) + More(issued[t2])
              + Cardinality({p \in Phases : ~planIntact[p]})
Small == IF task[t2].status = "ABSENT" THEN Revised + 2 * Repeated <= 2
         ELSE Revised + Repeated <= 1 /\ Registered = {}

MCSpec == Init /\ [][Next /\ Small']_vars
=============================================================================
