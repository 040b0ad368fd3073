----------------------------- MODULE Operations -----------------------------
(***************************************************************************)
(* v2_operations.py: grants, operation budgets and the life of one         *)
(* operation, PREPARED -> INTENT_RECORDED -> observed.  An operation may   *)
(* touch the world only between record_intent, which answers execute_once  *)
(* to exactly one caller and leases the resource to it, and observe, which *)
(* releases the lease, or quarantines it when the outcome is unknown.      *)
(*                                                                         *)
(* Every identifier is a caller's choice bound to fixed content: a call    *)
(* that repeats one with the same content is answered REPLAY and changes   *)
(* nothing, and one with other content is refused, so neither is a step.   *)
(***************************************************************************)
EXTENDS ExecutionState

CONSTANT Budgets   \* the values max_operations may be configured or amended to

ASSUME BudgetsAssumption == Budgets \subseteq Nat

controlUnchanged == UNCHANGED <<taskVars, proofVars, phaseVars, runVars, hostVars, policy>>

RecordGrant(g) ==
  /\ grantState[g] = "ABSENT"
  /\ taskRev[GrantTask[g]] > 0
  /\ GrantHost[g] # NoHost => hostState[GrantHost[g]] # "ABSENT"
  /\ grantState' = [grantState EXCEPT ![g] = "ACTIVE"]
  /\ grantRev' = [grantRev EXCEPT ![g] = taskRev[GrantTask[g]]]
  /\ controlUnchanged /\ UNCHANGED <<opVars, limit>>

RevokeGrant(g) ==
  /\ grantState[g] \in {"ACTIVE", "EXPIRED"}
  /\ RevokeGrants({g})
  /\ controlUnchanged /\ UNCHANGED <<grantRev, opVars, limit>>

\* The clock passes the expires_at of a grant, or of a lease.
ExpireGrant(g) ==
  /\ grantState[g] = "ACTIVE"
  /\ grantState' = [grantState EXCEPT ![g] = "EXPIRED"]
  /\ controlUnchanged /\ UNCHANGED <<grantRev, opVars, limit>>

ExpireLease(o) ==
  /\ leaseState[o] = "HELD"
  /\ leaseState' = [leaseState EXCEPT ![o] = "LAPSED"]
  /\ controlUnchanged /\ UNCHANGED <<grantVars, opState, opRev, intents, limit>>
-----------------------------------------------------------------------------
\* Consumption is counted from the append-only INTENT_RECORDED rows, never
\* from a counter: what was spent stays spent when an operation fails, is
\* revised away or has its grant revoked.
Rows(S) == {i \in intents : i[1] \in S}
Used(S) == Cardinality(Rows(S))
OpsOfGrant(g) == {o \in Ops : OpGrant[o] = g}
OpsOfOwner(w) == IF w = Project THEN Ops ELSE OpsOf(w)

WithinOrAt(used, max) == max # Unlimited => used <= max   \* mutant: off by one
Within(used, max) == max # Unlimited => used < max

\* require_operation_budget
BudgetAdmits(o) ==
  /\ Within(Used(OpsOfGrant(OpGrant[o])), GrantMax[OpGrant[o]])
  /\ Within(Used(OpsOf(OpTask(o))), limit[OpTask(o)])
  /\ Within(Used(Ops), limit[Project])

\* configure_task_budget / configure_project_budget install a budget once,
\* amend_budget replaces one; neither accepts less than was already used.
SetBudget(w, n) ==
  /\ w # Project => taskRev[w] > 0
  /\ Used(OpsOfOwner(w)) <= n
  /\ limit' = [limit EXCEPT ![w] = n]
  /\ controlUnchanged /\ UNCHANGED <<grantVars, opVars>>

ConfigureBudget(w, n) == limit[w] = Unlimited /\ SetBudget(w, n)
AmendBudget(w, n) == limit[w] # Unlimited /\ limit[w] # n /\ SetBudget(w, n)
-----------------------------------------------------------------------------
Prepare(o) ==
  /\ opState[o] = "ABSENT"
  /\ GrantAdmits(OpGrant[o])
  /\ ~PendingEffect(OpTask(o))
  /\ opState' = [opState EXCEPT ![o] = "PREPARED"]
  /\ opRev' = [opRev EXCEPT ![o] = grantRev[OpGrant[o]]]
  /\ controlUnchanged /\ UNCHANGED <<grantVars, leaseState, intents, limit>>

\* RESOURCE_HELD: the lease of a pending operation, of any task, covers the
\* resource.
ResourceHeld(o) == \E p \in Ops \ {o} : OpPending(p) /\ <<o, p>> \in OpConflicts

\* Effects of one task are serial.
TaskBusyNever(o) == FALSE   \* mutant
TaskBusy(o) == \E p \in OpsOf(OpTask(o)) \ {o} : OpPending(p)

RecordIntent(o) ==
  LET t == OpTask(o) IN
  /\ opState[o] = "PREPARED"
  /\ GrantAdmits(OpGrant[o])
  /\ BudgetAdmits(o)
  /\ ~TaskBusy(o)
  /\ ~ResourceHeld(o)
  /\ opState' = [opState EXCEPT ![o] = "INTENT_RECORDED"]
  /\ taskStatus' = [taskStatus EXCEPT ![t] = "RUNNING"]
  /\ intents' = intents \cup {<<o, Used({o}) + 1>>}
  /\ leaseState' = [leaseState EXCEPT ![o] = "HELD"]
  /\ UNCHANGED <<grantVars, opRev, limit, taskRev, deps, marker, pauseWanted,
                 proofVars, phaseVars, runVars, hostVars, policy>>

\* _lease: what verify_lease and renew_lease demand of the holder's token.
\* (renew_lease only moves expires_at of a lease that is still live.)
LeaseValid(o) ==
  /\ leaseState[o] = "HELD"
  /\ opState[o] = "INTENT_RECORDED"
  /\ GrantAdmits(OpGrant[o])

CancelPrepared(o) ==
  /\ opState[o] = "PREPARED"
  /\ opState' = [opState EXCEPT ![o] = "CANCELLED"]
  /\ controlUnchanged
  /\ UNCHANGED <<grantVars, opRev, leaseState, intents, limit>>

\* An unknown outcome keeps the resource to the operation.
LeaseAfter(outcome) == IF outcome = "UNKNOWN" THEN "QUARANTINED" ELSE "RELEASED"

\* observe needs the grant's actor, not a live grant: facts outlive authority.
Observe(o, outcome) ==
  /\ OpPending(o)
  /\ opState' = [opState EXCEPT ![o] =
       CASE outcome = "SUCCEEDED" -> "OBSERVED"
         [] outcome = "FAILED" -> "FAILED"
         [] outcome = "UNKNOWN" -> "UNKNOWN"]
  /\ leaseState' = [leaseState EXCEPT ![o] = LeaseAfter(outcome)]
  /\ UNCHANGED <<hostState, quiesced, launched>>
  /\ Reconcile(OpTask(o), runState, FALSE)
  /\ UNCHANGED <<grantVars, opRev, intents, limit, taskRev, deps, evid,
                 phaseVars, runRev, runCkpt, hostRev, cancelWanted, hostSource,
                 fresh, policy>>

\* What callers do with grants, budgets and prepared operations; the calls that
\* record an intent and observe its outcome are the workers'.
OperationNext ==
  \/ \E g \in Grants : RecordGrant(g) \/ RevokeGrant(g) \/ ExpireGrant(g)
  \/ \E w \in BudgetOwners, n \in Budgets : ConfigureBudget(w, n) \/ AmendBudget(w, n)
  \/ \E o \in Ops : Prepare(o) \/ CancelPrepared(o) \/ ExpireLease(o)
=============================================================================
