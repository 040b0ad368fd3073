---------------------------- MODULE MCLifecycle -----------------------------
(* Three models, of which a behaviour takes one: two tasks that may depend on  *)
(* each other, each with an operation, the first with two controller Runs; a   *)
(* task that works in a phase, with one operation and one Run; and the two     *)
(* tasks under budgets, the first with two operations under a grant for one.   *)
EXTENDS Execution, TLC

CONSTANTS t1, t2, inPhase, g1, g2, g3, o1, o2, o3, o4, r1, r2, r3

MCTasks == {t1, t2, inPhase}
MCGrants == {g1, g2, g3}
MCOps == {o1, o2, o3, o4}
MCRuns == {r1, r2, r3}
MCGrantTask == g1 :> t1 @@ g2 :> t2 @@ g3 :> inPhase
MCGrantHost == [g \in MCGrants |-> NoHost]
MCGrantMax == g1 :> 1 @@ g2 :> Unlimited @@ g3 :> Unlimited
MCOpGrant == o1 :> g1 @@ o2 :> g2 @@ o3 :> g3 @@ o4 :> g1
MCOpKind == [o \in MCOps |-> "read"]
MCRunTask == r1 :> t1 @@ r2 :> t1 @@ r3 :> inPhase
MCRunHost == [r \in MCRuns |-> NoHost]
MCBudgets == {1, 2}
MCPhaseTasks == {inPhase}

Nothing == {}
NoFunction == <<>>

\* The phase is only looked at when its task is there; where budgets are set,
\* nothing is revised, revoked, verified, run or depended on.
Budgeted == opState'[o4] # "ABSENT" \/ \E w \in BudgetOwners : limit'[w] # Unlimited
Calm == /\ taskRev'[t1] < 2 /\ taskRev'[t2] < 2 /\ taskRev'[inPhase] = 0
        /\ \A t \in Tasks : deps'[t] = {} /\ \A i \in 1..2 : evid'[<<t, i>>] = evid[<<t, i>>]
        /\ \A g \in Grants : grantState'[g] # "REVOKED"
        /\ \A r \in Runs : runState'[r] = "ABSENT"
OneModel ==
  /\ IF taskRev'[inPhase] > 0 THEN taskRev'[t1] = 0 /\ taskRev'[t2] = 0 ELSE ~phaseActive'
  /\ Budgeted => Calm

\* Bound: no clock here (MCEffects has it), so grants and leases do not expire.
NoClock == /\ \A g \in Grants : grantState'[g] # "EXPIRED"
           /\ \A o \in Ops : leaseState'[o] # "LAPSED"
MCSpec == Init /\ [][Next /\ OneModel /\ NoClock /\ taskRev'[t2] < 2]_vars
=============================================================================
