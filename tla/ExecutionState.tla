--------------------------- MODULE ExecutionState ---------------------------
(***************************************************************************)
(* The control tables of one MALTS V2 project database, and the questions  *)
(* every service asks of them.  All the tables live in one SQLite file and *)
(* every handler runs in one BEGIN IMMEDIATE transaction, so a handler is  *)
(* one atomic action over these variables; what runs between transactions  *)
(* (file effects, Host calls, supervisors) is in the modules that extend   *)
(* this one.  Identifiers are chosen by callers, so the finite sets below  *)
(* are the identifiers they may use; a row that was never inserted is in   *)
(* state "ABSENT".                                                         *)
(***************************************************************************)
EXTENDS Integers, FiniteSets

CONSTANTS
  Tasks, Grants, Ops, Runs, Dispatches,
  NoHost,        \* the actor of a grant that is no managed Host: a controller
  GrantTask,     \* grant -> the task it authorizes
  GrantHost,     \* grant -> the dispatch whose generated actor it names, or NoHost
  GrantMax,      \* grant -> max_operations (Unlimited when null)
  OpGrant,       \* operation -> the grant it is prepared under
  OpConflicts,   \* pairs of operations whose physical resources conflict
  RunTask,       \* run -> its task
  RunHost,       \* run -> the dispatch that launches it, or NoHost
  DispatchTask,  \* dispatch -> its task
  PhaseTasks,    \* the tasks the project binds to its phase
  Unlimited,     \* a budget that was not configured
  MaxRev         \* bound: no task is revised beyond this revision

OpTask(o) == GrantTask[OpGrant[o]]
OpHost(o) == GrantHost[OpGrant[o]]

ASSUME ConstantsAssumption ==
  /\ GrantTask \in [Grants -> Tasks]
  /\ GrantHost \in [Grants -> Dispatches \cup {NoHost}]
  /\ OpGrant \in [Ops -> Grants]
  /\ RunTask \in [Runs -> Tasks]
  /\ RunHost \in [Runs -> Dispatches \cup {NoHost}]
  /\ DispatchTask \in [Dispatches -> Tasks]
  /\ PhaseTasks \subseteq Tasks
  /\ NoHost \notin Dispatches
  /\ \A r \in Runs : RunHost[r] # NoHost => RunTask[r] = DispatchTask[RunHost[r]]
  /\ IsFiniteSet(Tasks) /\ IsFiniteSet(Ops)
  /\ Unlimited \notin Nat
  /\ MaxRev \in Nat \ {0}
  /\ GrantMax \in [Grants -> Nat \cup {Unlimited}]

ASSUME ConflictsAssumption ==
  \* locator_conflict is symmetric
  \A o, p \in Ops : <<o, p>> \in OpConflicts => <<p, o>> \in OpConflicts

Project == "project"   \* the owner of the project-wide operation budget
BudgetOwners == Tasks \cup {Project}

Revisions == 1..MaxRev

TaskStatus == {"ABSENT", "READY", "RUNNING", "VERIFYING", "WAITING", "PAUSED",
               "RECOVERY_REQUIRED", "COMPLETED", "CANCELLED"}
\* the statuses a task may return to when its unknown effects are reconciled
Resumable == {"READY", "RUNNING", "VERIFYING", "WAITING", "PAUSED"}
OpStates == {"ABSENT", "PREPARED", "INTENT_RECORDED", "OBSERVED", "UNKNOWN",
             "FAILED", "CANCELLED", "ACCEPTED"}
GrantStates == {"ABSENT", "ACTIVE", "EXPIRED", "REVOKED"}
LeaseStates == {"NONE", "HELD", "LAPSED", "QUARANTINED", "RELEASED"}
RunStates == {"ABSENT", "OPEN", "PAUSE_REQUESTED", "PAUSED", "CLOSED"}
HostStates == {"ABSENT", "PREPARED", "INTENT_COMMITTED", "RUNNING",
               "CANCEL_REQUESTED", "UNKNOWN", "EXITED", "CANCELLED"}
EvidenceStates == {"NONE", "PASS", "FAIL", "INVALID"}

VARIABLES
  grantState,   \* execution_grant: absent, in force, past expires_at, or revoked
  grantRev,     \* execution_grant.task_revision
  opState,      \* operation.state
  opRev,        \* operation.task_revision
  leaseState,   \* operation_lease.state; "LAPSED" is HELD after expires_at
  intents,      \* INTENT_RECORDED audit rows: <<operation, n-th intent of it>>
  limit,        \* task_budget and project_budget: max_operations
  taskStatus,   \* task.status
  taskRev,      \* task.revision
  deps,         \* dependency rows of the current revision: <<predecessor, revision>>
  marker,       \* task_effect_recovery.resume_status, or "NONE"
  pauseWanted,  \* a TASK_PAUSE_REQUESTED of this revision not yet TASK_PAUSE_SETTLED
  accepted,     \* valid acceptance rows: <<task, revision>>
  evid,         \* the latest evidence of <<task, revision>>, and whether it stands
  phaseActive,  \* phase.state is ACTIVE
  bound,        \* phase_task rows: <<task, revision>>
  runState,     \* execution_run.state
  runRev,       \* execution_run.task_revision
  runCkpt,      \* its checkpoint: "NONE", or whether it lists pending operations
  runResume,    \* resume_task_status of its latest RUN_PAUSED/RUN_PAUSE_REQUESTED row
  hostState,    \* host_dispatch.state
  hostRev,      \* host_dispatch.task_revision
  launched,     \* host_dispatch.launch_committed
  cancelWanted, \* host_dispatch.cancel_requested
  quiesced,     \* host_dispatch.quiesced: "NULL", "NO" or "YES"
  hostSource,   \* the paused Run a recovery dispatch was prepared from, or NoHost
  fresh,        \* what prepare fingerprinted is unchanged: the task's context, the
                \* budget revision and the source Run's checkpoint
  policy        \* dispatch_budget, or its absence

grantVars == <<grantState, grantRev>>
opVars    == <<opState, opRev, leaseState, intents>>
taskVars  == <<taskStatus, taskRev, deps, marker, pauseWanted>>
proofVars == <<accepted, evid>>
phaseVars == <<phaseActive, bound>>
runVars   == <<runState, runRev, runCkpt, runResume>>
hostVars  == <<hostState, hostRev, launched, cancelWanted, quiesced, hostSource, fresh>>

storeVars == <<grantVars, opVars, limit, taskVars, proofVars, phaseVars,
               runVars, hostVars, policy>>
-----------------------------------------------------------------------------
NoPolicy == [state |-> "NONE", live |-> FALSE,
             launches |-> 0, agents |-> 0, queries |-> 0, cancels |-> 0]

PolicyRecords == [state : {"NONE", "ACTIVE", "REVOKED"}, live : BOOLEAN,
                  launches : Nat, agents : Nat,
                  queries : Nat, cancels : Nat]

StoreTypeOK ==
  /\ grantState \in [Grants -> GrantStates]
  /\ grantRev \in [Grants -> 0..MaxRev]
  /\ opState \in [Ops -> OpStates]
  /\ opRev \in [Ops -> 0..MaxRev]
  /\ leaseState \in [Ops -> LeaseStates]
  /\ intents \in SUBSET (Ops \X Nat)
  /\ limit \in [BudgetOwners -> Nat \cup {Unlimited}]
  /\ taskStatus \in [Tasks -> TaskStatus]
  /\ taskRev \in [Tasks -> 0..MaxRev]
  /\ deps \in [Tasks -> SUBSET (Tasks \X Revisions)]
  /\ marker \in [Tasks -> {"NONE"} \cup Resumable]
  /\ pauseWanted \in [Tasks -> BOOLEAN]
  /\ accepted \in SUBSET (Tasks \X Revisions)
  /\ evid \in [Tasks \X Revisions -> EvidenceStates]
  /\ phaseActive \in BOOLEAN
  /\ bound \in SUBSET (Tasks \X Revisions)
  /\ runState \in [Runs -> RunStates]
  /\ runRev \in [Runs -> 0..MaxRev]
  /\ runCkpt \in [Runs -> {"NONE", "CLEAN", "PENDING"}]
  /\ runResume \in [Runs -> {"RUNNING", "VERIFYING"}]
  /\ hostState \in [Dispatches -> HostStates]
  /\ hostRev \in [Dispatches -> 0..MaxRev]
  /\ launched \in [Dispatches -> BOOLEAN]
  /\ cancelWanted \in [Dispatches -> BOOLEAN]
  /\ quiesced \in [Dispatches -> {"NULL", "NO", "YES"}]
  /\ hostSource \in [Dispatches -> Runs \cup {NoHost}]
  /\ fresh \in [Dispatches -> BOOLEAN]
  /\ policy \in PolicyRecords

\* A new database: no rows, no budgets.
StoreInit ==
  /\ grantState = [g \in Grants |-> "ABSENT"]
  /\ grantRev = [g \in Grants |-> 0]
  /\ opState = [o \in Ops |-> "ABSENT"]
  /\ opRev = [o \in Ops |-> 0]
  /\ leaseState = [o \in Ops |-> "NONE"]
  /\ intents = {}
  /\ limit = [w \in BudgetOwners |-> Unlimited]
  /\ taskStatus = [t \in Tasks |-> "ABSENT"]
  /\ taskRev = [t \in Tasks |-> 0]
  /\ deps = [t \in Tasks |-> {}]
  /\ marker = [t \in Tasks |-> "NONE"]
  /\ pauseWanted = [t \in Tasks |-> FALSE]
  /\ accepted = {}
  /\ evid = [k \in Tasks \X Revisions |-> "NONE"]
  /\ phaseActive = FALSE
  /\ bound = {}
  /\ runState = [r \in Runs |-> "ABSENT"]
  /\ runRev = [r \in Runs |-> 0]
  /\ runCkpt = [r \in Runs |-> "NONE"]
  /\ runResume = [r \in Runs |-> "RUNNING"]
  /\ hostState = [d \in Dispatches |-> "ABSENT"]
  /\ hostRev = [d \in Dispatches |-> 0]
  /\ launched = [d \in Dispatches |-> FALSE]
  /\ cancelWanted = [d \in Dispatches |-> FALSE]
  /\ quiesced = [d \in Dispatches |-> "NULL"]
  /\ hostSource = [d \in Dispatches |-> NoHost]
  /\ fresh = [d \in Dispatches |-> FALSE]
  /\ policy = NoPolicy
-----------------------------------------------------------------------------
OpsOf(t) == {o \in Ops : OpTask(o) = t}
RunsOf(t) == {r \in Runs : RunTask[r] = t}
DispatchesOf(t) == {d \in Dispatches : DispatchTask[d] = t}

\* The effect of the operation may have happened, or may still happen.
OpPending(o) == opState[o] \in {"INTENT_RECORDED", "UNKNOWN"}
PendingEffect(t) == \E o \in OpsOf(t) : OpPending(o)

\* A launch was committed and nothing has shown the Host's processes ended.
HostPending(d) == launched[d] /\ quiesced[d] # "YES"
PendingHost(t) == \E d \in DispatchesOf(t) : HostPending(d)

UnknownFact(t) == \/ \E o \in OpsOf(t) : opState[o] = "UNKNOWN"
                  \/ \E d \in DispatchesOf(t) : hostState[d] = "UNKNOWN"

CurrentRuns(t) == {r \in RunsOf(t) : runState[r] \in {"OPEN", "PAUSE_REQUESTED", "PAUSED"}}

\* unresolved_dependencies: every predecessor is completed and accepted at the
\* revision the dependency names, and so are its own predecessors.
Proven(p) == taskStatus[p] = "COMPLETED" /\ <<p, taskRev[p]>> \in accepted
Resolved(t) ==
  \E S \in SUBSET Tasks :
    /\ \A e \in deps[t] : e[1] \in S /\ taskRev[e[1]] = e[2]
    /\ \A p \in S : /\ Proven(p)
                    /\ \A e \in deps[p] : e[1] \in S /\ taskRev[e[1]] = e[2]

\* _reject_dependency_cycle follows predecessors whatever revision they name.
Reaches(p, t) ==
  \A S \in SUBSET Tasks :
    (p \in S /\ \A x \in S : \A e \in deps[x] : e[1] \in S) => t \in S

\* The dependents, at their current revisions, of an acceptance of <<t, r>>.
DependentsAtCurrent(t, r) ==   \* mutant: only those of the current revision
  {x \in Tasks : <<t, taskRev[t]>> \in deps[x]}
Dependents(t, r) ==
  LET Closed(S) == \A x \in Tasks : \A e \in deps[x] :
                     (e = <<t, r>> \/ (e[1] \in S /\ taskRev[e[1]] = e[2])) => x \in S
  IN {x \in Tasks : \A S \in SUBSET Tasks : Closed(S) => x \in S}

\* require_task_phase: a bound revision needs its phase active; an unbound one
\* is free unless an earlier revision of the task was bound.
PhaseReady(t) ==
  IF <<t, taskRev[t]>> \in bound THEN phaseActive
  ELSE \A r \in Revisions : <<t, r>> \notin bound

\* Every cascade that revokes the grants S still standing.
RevokeGrants(S) ==
  grantState' = [g \in Grants |-> IF g \in S /\ grantState[g] # "ABSENT"
                                  THEN "REVOKED" ELSE grantState[g]]

PolicyUsable == policy.state = "ACTIVE" /\ policy.live

\* _grant for execution: what a grant must satisfy whenever its actor acts.
GrantAdmits(g) ==
  LET t == GrantTask[g]
      d == GrantHost[g]
  IN /\ grantState[g] = "ACTIVE"
     /\ d # NoHost => hostState[d] = "RUNNING" /\ ~cancelWanted[d] /\ PolicyUsable
     /\ PhaseReady(t)
     /\ grantRev[g] = taskRev[t]
     /\ taskStatus[t] \in {"READY", "RUNNING"}
     /\ Resolved(t)
-----------------------------------------------------------------------------
\* An unknown fact moves every task but these to RECOVERY_REQUIRED.
ParksExecuting(t) ==                                       \* mutant: only executing ones
  taskStatus[t] \in {"READY", "RUNNING", "VERIFYING"}
Parks(t) == taskStatus[t] \notin {"CANCELLED", "RECOVERY_REQUIRED"}

\* Nothing stands in the way of a requested pause.
NothingLaunched(t) == ~PendingEffect(t) /\ \A d \in DispatchesOf(t) : ~launched[d]   \* mutant
NothingPending(t) == ~PendingEffect(t) /\ ~PendingHost(t)

(***************************************************************************)
(* reconcile_effect_state, called at the end of every transaction that     *)
(* records what happened to an effect or a Host of task t.  It reads the   *)
(* new operation and dispatch rows (primed, so it comes after them), and   *)
(* runs, the run states the transaction has left.  An UNKNOWN fact parks   *)
(* the task in RECOVERY_REQUIRED and remembers where it was; otherwise the *)
(* marker is cleared, and requested pauses settle once no effect and no    *)
(* Host is pending.  released is TRUE when the transaction goes on to move *)
(* a RUNNING task back to READY because its Host has ended.                *)
(***************************************************************************)
Reconcile(t, runs, released) ==
  IF UnknownFact(t)' THEN
    /\ IF Parks(t)
       THEN /\ taskStatus' = [taskStatus EXCEPT ![t] = "RECOVERY_REQUIRED"]
            /\ marker' = [marker EXCEPT ![t] =
                 IF @ # "NONE" THEN @
                 ELSE IF taskStatus[t] \in Resumable THEN taskStatus[t] ELSE "PAUSED"]
            /\ accepted' = IF taskStatus[t] = "COMPLETED"
                           THEN {k \in accepted : k[1] # t} ELSE accepted
       ELSE UNCHANGED <<taskStatus, marker, accepted>>
    /\ runState' = runs
    /\ UNCHANGED <<pauseWanted, runResume>>
  ELSE
    LET requested == {r \in RunsOf(t) : runs[r] = "PAUSE_REQUESTED"}
        pausing == requested # {} \/ pauseWanted[t]
        status == IF marker[t] = "NONE" \/ taskStatus[t] # "RECOVERY_REQUIRED"
                  THEN taskStatus[t]
                  ELSE IF pausing THEN "WAITING" ELSE marker[t]
        settled == NothingPending(t)'
        parked == IF settled /\ pausing /\ status = "WAITING" THEN "PAUSED" ELSE status
    IN /\ taskStatus' = [taskStatus EXCEPT ![t] =
            IF released /\ parked = "RUNNING" THEN "READY" ELSE parked]
       /\ marker' = [marker EXCEPT ![t] = "NONE"]
       /\ pauseWanted' = [pauseWanted EXCEPT ![t] = @ /\ parked = status]
       /\ runState' = [r \in Runs |->
            IF settled /\ r \in requested THEN "PAUSED" ELSE runs[r]]
       /\ runResume' = [r \in Runs |->
            IF settled /\ r \in requested THEN "RUNNING" ELSE runResume[r]]
       /\ UNCHANGED accepted
=============================================================================
