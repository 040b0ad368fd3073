--------------------------- MODULE TaskLifecycle ----------------------------
(***************************************************************************)
(* The life of a task: definition and revision (v2_state_store.py),        *)
(* verification and effect recovery (v2_task_lifecycle.py), controller     *)
(* Runs (v2_runs.py), evidence, acceptance and its withdrawal              *)
(* (v2_acceptance.py), and the phase the task is bound to (v2_governance). *)
(***************************************************************************)
EXTENDS ExecutionState

\* A committed launch that is not quiesced, or a dispatch that may still be
\* launched: what require_verification_ready refuses.
UnresolvedHost(t) ==
  \E d \in DispatchesOf(t) : hostState[d] = "PREPARED" \/ HostPending(d)

EffectsUnchanged == UNCHANGED <<opVars, limit, hostVars, policy>>

\* A dispatch prepared for t holds a fingerprint of the old authority context.
ContextChanged(t) ==
  /\ fresh' = [d \in Dispatches |-> fresh[d] /\ DispatchTask[d] # t]
  /\ UNCHANGED <<hostState, hostRev, launched, cancelWanted, quiesced, hostSource>>
-----------------------------------------------------------------------------
(* Definitions and dependencies. *)

Edges == Tasks \X Revisions
KnownEdges == {e \in Edges : e[2] <= taskRev[e[1]]}

\* A predecessor must be another existing task at its current revision, and
\* must not already depend on the new dependent.
MayPrecede(e, t) == e[1] # t /\ e[2] = taskRev[e[1]] /\ ~Reaches(e[1], t)

CreateTask(t, ds) ==
  /\ taskStatus[t] = "ABSENT"
  /\ \A e \in ds : MayPrecede(e, t)
  /\ taskStatus' = [taskStatus EXCEPT ![t] = "READY"]
  /\ taskRev' = [taskRev EXCEPT ![t] = 1]
  /\ deps' = [deps EXCEPT ![t] = ds]
  /\ EffectsUnchanged
  /\ UNCHANGED <<grantVars, marker, pauseWanted, proofVars, phaseVars, runVars>>

AddDependency(t, e) ==
  /\ taskStatus[t] = "READY"
  /\ \A o \in OpsOf(t) : opState[o] = "ABSENT" \/ opRev[o] # taskRev[t]
  /\ \A x \in deps[t] : x[1] # e[1]
  /\ MayPrecede(e, t)
  /\ deps' = [deps EXCEPT ![t] = @ \cup {e}]
  /\ ContextChanged(t)
  /\ UNCHANGED <<grantVars, opVars, limit, policy, taskStatus, taskRev, marker, pauseWanted, proofVars,
                 phaseVars, runVars>>

\* revise_task of an existing task: carry the dependencies over, or replace
\* them by ds.  The old revision's grants, prepared operations and paused Run
\* end with it; what other tasks accepted about it is left as it was.
ReviseTask(t, ds) ==
  /\ taskStatus[t] \in {"READY", "PAUSED", "COMPLETED"}
  /\ taskRev[t] < MaxRev
  /\ taskStatus[t] = "COMPLETED" /\ <<t, taskRev[t]>> \in bound => ~phaseActive
  /\ ~PendingHost(t) /\ ~PendingEffect(t)
  /\ \A r \in RunsOf(t) : runState[r] \notin {"OPEN", "PAUSE_REQUESTED"}
  /\ \/ ds = deps[t]
     \/ \A e \in ds : MayPrecede(e, t)
  /\ taskStatus' = [taskStatus EXCEPT ![t] = "READY"]
  /\ taskRev' = [taskRev EXCEPT ![t] = @ + 1]
  /\ deps' = [deps EXCEPT ![t] = ds]
  /\ pauseWanted' = [pauseWanted EXCEPT ![t] = FALSE]
  /\ opState' = [o \in Ops |-> IF OpTask(o) = t /\ opState[o] = "PREPARED"
                                  /\ opRev[o] = taskRev[t]
                               THEN "CANCELLED" ELSE opState[o]]
  /\ RevokeGrants({g \in Grants : GrantTask[g] = t /\ grantRev[g] = taskRev[t]})
  /\ runState' = [r \in Runs |-> IF RunTask[r] = t /\ runState[r] = "PAUSED"
                                 THEN "CLOSED" ELSE runState[r]]
  /\ UNCHANGED <<grantRev, opRev, leaseState, intents, limit, marker,
                 proofVars, phaseVars, runRev, runCkpt, runResume, hostVars, policy>>

\* cancel_task stops future work; effects already admitted stay pending, and
\* the decision how to park the Runs looks at operations only.
CancelTask(t) ==
  /\ taskStatus[t] \notin {"ABSENT", "COMPLETED"}
  /\ taskStatus' = [taskStatus EXCEPT ![t] = "CANCELLED"]
  /\ RevokeGrants({g \in Grants : GrantTask[g] = t})
  /\ opState' = [o \in Ops |-> IF OpTask(o) = t /\ opState[o] = "PREPARED"
                               THEN "CANCELLED" ELSE opState[o]]
  /\ runState' = [r \in Runs |->
       IF RunTask[r] = t /\ runState[r] \in {"OPEN", "PAUSE_REQUESTED"}
       THEN IF PendingEffect(t) THEN "PAUSE_REQUESTED" ELSE "PAUSED"
       ELSE runState[r]]
  /\ UNCHANGED <<grantRev, opRev, leaseState, intents, limit, taskRev,
                 deps, marker, pauseWanted, proofVars, phaseVars, runRev, runCkpt,
                 runResume, hostVars, policy>>

\* Binding a READY task's revision to the phase, before it has operations.
BindTask(t) ==
  /\ t \in PhaseTasks /\ taskStatus[t] = "READY"
  /\ <<t, taskRev[t]>> \notin bound
  /\ \A o \in OpsOf(t) : opState[o] = "ABSENT" \/ opRev[o] # taskRev[t]
  /\ bound' = bound \cup {<<t, taskRev[t]>>}
  /\ ContextChanged(t)
  /\ UNCHANGED <<grantVars, opVars, limit, policy, taskVars, proofVars, phaseActive, runVars>>

\* set_phase_active: the phase is activated or paused.
SetPhaseActive ==
  /\ PhaseTasks # {}
  /\ phaseActive' = ~phaseActive
  /\ UNCHANGED bound
  /\ EffectsUnchanged /\ UNCHANGED <<grantVars, taskVars, proofVars, runVars>>
-----------------------------------------------------------------------------
(* Runs: the controller's own sessions, and their checkpoints. *)

RunStep == UNCHANGED <<grantVars, opVars, limit, taskRev, deps, marker, pauseWanted,
                       proofVars, phaseVars, hostVars, policy>>
Checkpoint(t) == IF PendingEffect(t) THEN "PENDING" ELSE "CLEAN"

\* The unique index one_current_run refuses a second current Run of the task.
OpenRun(r) ==
  LET t == RunTask[r] IN
  /\ runState[r] = "ABSENT" /\ RunHost[r] = NoHost
  /\ taskStatus[t] \in {"READY", "RUNNING"} /\ PhaseReady(t) /\ Resolved(t)
  /\ CurrentRuns(t) = {}
  /\ runState' = [runState EXCEPT ![r] = "OPEN"]
  /\ runRev' = [runRev EXCEPT ![r] = taskRev[t]]
  /\ taskStatus' = [taskStatus EXCEPT ![t] = "RUNNING"]
  /\ RunStep /\ UNCHANGED <<runCkpt, runResume>>

\* A pause settles at once unless something is still in progress.
PauseRun(r) ==
  LET t == RunTask[r]
      waiting == PendingEffect(t) \/ PendingHost(t)
  IN
  /\ runState[r] = "OPEN" /\ runRev[r] = taskRev[t]
  /\ taskStatus[t] \in {"RUNNING", "VERIFYING", "RECOVERY_REQUIRED"}
  /\ runState' = [runState EXCEPT ![r] = IF waiting THEN "PAUSE_REQUESTED" ELSE "PAUSED"]
  /\ runCkpt' = [runCkpt EXCEPT ![r] = Checkpoint(t)]
  /\ runResume' = [runResume EXCEPT ![r] =
       IF taskStatus[t] = "VERIFYING" THEN "VERIFYING" ELSE "RUNNING"]
  /\ taskStatus' = [taskStatus EXCEPT ![t] =
       IF @ = "RECOVERY_REQUIRED" THEN @ ELSE IF waiting THEN "WAITING" ELSE "PAUSED"]
  /\ RunStep /\ UNCHANGED runRev

\* A new checkpoint changes the fingerprint a prepared recovery dispatch holds.
RebuildCheckpoint(r) ==
  LET t == RunTask[r] IN
  /\ \/ runState[r] = "PAUSE_REQUESTED" /\ taskStatus[t] \in {"WAITING", "RECOVERY_REQUIRED"}
     \/ runState[r] = "PAUSED" /\ taskStatus[t] = "PAUSED"
  /\ runRev[r] = taskRev[t]
  /\ runCkpt' = [runCkpt EXCEPT ![r] = Checkpoint(t)]
  /\ fresh' = [d \in Dispatches |-> fresh[d] /\ hostSource[d] # r]
  /\ UNCHANGED <<grantVars, opVars, limit, taskVars, proofVars, phaseVars, runState,
                 runRev, runResume, hostState, hostRev, launched, cancelWanted,
                 quiesced, hostSource, policy>>

VerificationReady(t) ==
  /\ PhaseReady(t)
  /\ taskStatus[t] \in {"RUNNING", "VERIFYING"}
  /\ Resolved(t)
  /\ \A o \in OpsOf(t) : opState[o] # "PREPARED" /\ ~OpPending(o)
  /\ ~UnresolvedHost(t)

\* Resuming withdraws a pause that has not settled only for a managed Run whose
\* Host is still admitted; a Run paused in verification must be ready for it.
ResumeRun(r) ==
  LET t == RunTask[r]
      d == RunHost[r]
      withdrawing == runState[r] = "PAUSE_REQUESTED"
  IN
  /\ runState[r] \in {"PAUSED", "PAUSE_REQUESTED"} /\ runCkpt[r] # "NONE"
  /\ runRev[r] = taskRev[t]
  /\ taskStatus[t] = IF withdrawing THEN "WAITING" ELSE "PAUSED"
  /\ withdrawing => d # NoHost
  /\ d # NoHost => /\ hostState[d] = "RUNNING" /\ ~cancelWanted[d]
                   /\ quiesced[d] = "NO" /\ PolicyUsable
  /\ PhaseReady(t) /\ ~PendingEffect(t) /\ Resolved(t)
  /\ runResume[r] = "VERIFYING" =>
       /\ \A o \in OpsOf(t) : opState[o] # "PREPARED"
       /\ ~UnresolvedHost(t)
  /\ runState' = [runState EXCEPT ![r] = "OPEN"]
  /\ taskStatus' = [taskStatus EXCEPT ![t] = runResume[r]]
  /\ RunStep /\ UNCHANGED <<runRev, runCkpt, runResume>>
-----------------------------------------------------------------------------
(* Verification, evidence and acceptance. *)

ProofStep == EffectsUnchanged /\ UNCHANGED <<grantVars, taskRev, deps, phaseVars>>

BeginVerification(t) ==
  /\ VerificationReady(t)
  /\ taskStatus' = [taskStatus EXCEPT ![t] = "VERIFYING"]
  /\ ProofStep /\ UNCHANGED <<marker, pauseWanted, proofVars, runVars>>

\* Returning to execution ends the evidence gathered so far.
Rework(t) ==
  /\ VerificationReady(t) /\ taskStatus[t] = "VERIFYING"
  /\ taskStatus' = [taskStatus EXCEPT ![t] = "RUNNING"]
  /\ evid' = [evid EXCEPT ![<<t, taskRev[t]>>] = IF @ = "NONE" THEN @ ELSE "INVALID"]
  /\ ProofStep /\ UNCHANGED <<marker, pauseWanted, accepted, runVars>>

RecordEvidence(t, result) ==
  /\ taskStatus[t] \in {"RUNNING", "VERIFYING"}
  /\ \E o \in OpsOf(t) : opState[o] = "OBSERVED" /\ opRev[o] = taskRev[t]
  /\ evid' = [evid EXCEPT ![<<t, taskRev[t]>>] = result]
  /\ ProofStep /\ UNCHANGED <<taskStatus, marker, pauseWanted, accepted, runVars>>

Accept(t) ==
  /\ VerificationReady(t)
  /\ evid[<<t, taskRev[t]>>] = "PASS"
  /\ accepted' = accepted \cup {<<t, taskRev[t]>>}
  /\ taskStatus' = [taskStatus EXCEPT ![t] = "COMPLETED"]
  /\ runState' = [r \in Runs |->
       IF /\ RunTask[r] = t /\ runState[r] = "OPEN" /\ runRev[r] = taskRev[t]
          /\ RunHost[r] # NoHost => ~HostPending(RunHost[r])
       THEN "CLOSED" ELSE runState[r]]
  /\ opState' = [o \in Ops |-> IF OpTask(o) = t /\ opState[o] = "OBSERVED"
                                  /\ opRev[o] = taskRev[t]
                               THEN "ACCEPTED" ELSE opState[o]]
  /\ UNCHANGED <<grantVars, opRev, leaseState, intents, limit, taskRev, deps,
                 marker, pauseWanted, evid, phaseVars, runRev, runCkpt, runResume,
                 hostVars, policy>>

\* Where a task goes whose acceptance, or whose basis, was withdrawn.
StatusIfStopped(x) ==   \* mutant: completed work is left completed
  IF taskStatus[x] \in {"RUNNING", "VERIFYING"}
  THEN IF PendingEffect(x) THEN "WAITING" ELSE "PAUSED"
  ELSE taskStatus[x]
StatusWithdrawn(x) ==
  CASE taskStatus[x] = "COMPLETED" -> "READY"
    [] taskStatus[x] \in {"RUNNING", "VERIFYING"} ->
         IF PendingEffect(x) THEN "WAITING" ELSE "PAUSED"
    [] OTHER -> taskStatus[x]

\* Withdrawing the latest evidence of <<t, r>>.  If an acceptance rests on it,
\* every dependent at its current revision loses evidence and acceptance too,
\* and is sent back: completed work to READY, running work to a pause.
Invalidate(t, r) ==
  LET affected == IF <<t, r>> \in accepted
                  THEN {<<t, r>>} \cup {<<x, taskRev[x]>> : x \in Dependents(t, r)}
                  ELSE {}
      hit == {x \in Tasks : <<x, taskRev[x]>> \in affected}
      \* the latest TASK_PAUSE_REQUESTED row then names an older revision
      outdated == {x \in Tasks \ hit : taskStatus[x] \in {"RUNNING", "VERIFYING"}
                                      /\ \E k \in affected : k[1] = x}
      stopped == {x \in hit : taskStatus[x] \in {"RUNNING", "VERIFYING"}}
  IN
  /\ evid[<<t, r>>] \in {"PASS", "FAIL"}
  /\ evid' = [k \in Tasks \X Revisions |->
       IF (k = <<t, r>> \/ k \in affected) /\ evid[k] # "NONE" THEN "INVALID" ELSE evid[k]]
  /\ accepted' = accepted \ affected
  /\ pauseWanted' = [x \in Tasks |->
       IF PendingEffect(x) /\ x \in stopped \cup outdated THEN x \in stopped
       ELSE pauseWanted[x]]
  /\ taskStatus' = [x \in Tasks |->
       IF x \in hit THEN StatusWithdrawn(x) ELSE taskStatus[x]]
  /\ runState' = [n \in Runs |->
       IF runState[n] = "OPEN" /\ <<RunTask[n], runRev[n]>> \in affected
       THEN IF PendingEffect(RunTask[n]) THEN "PAUSE_REQUESTED" ELSE "PAUSED"
       ELSE runState[n]]
  /\ opState' = [o \in Ops |-> IF opState[o] = "PREPARED" /\ <<OpTask(o), opRev[o]>> \in affected
                               THEN "CANCELLED" ELSE opState[o]]
  /\ UNCHANGED <<grantVars, opRev, leaseState, intents, limit, taskRev, deps,
                 marker, phaseVars, runRev, runCkpt, runResume, hostVars, policy>>

LifecycleNext ==
  \/ \E t \in Tasks :
       \/ \E ds \in SUBSET KnownEdges : CreateTask(t, ds) \/ ReviseTask(t, ds)
       \/ \E e \in KnownEdges : AddDependency(t, e)
       \/ CancelTask(t) \/ BindTask(t) \/ BeginVerification(t) \/ Rework(t) \/ Accept(t)
       \/ \E result \in {"PASS", "FAIL"} : RecordEvidence(t, result)
       \/ \E r \in Revisions : Invalidate(t, r)
  \/ \E r \in Runs : OpenRun(r) \/ PauseRun(r) \/ RebuildCheckpoint(r) \/ ResumeRun(r)
  \/ SetPhaseActive
=============================================================================
