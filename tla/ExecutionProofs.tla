-------------------------- MODULE ExecutionProofs --------------------------
(***************************************************************************)
(* What the execution core guarantees about effects, tasks, Runs,          *)
(* acceptance, budgets and Hosts, for every set of tasks, grants,          *)
(* operations, Runs, dispatches and calls.                                 *)
(*                                                                         *)
(* Effects come first.  Of the many variables only five speak of them: the *)
(* first lemmas reduce every handler to what it does to those five (a view *)
(* of the step), so that the invariance proofs have nine kinds of step to  *)
(* look at and not fifty actions.  On them rest: that worker, store and    *)
(* file agree; that leases are held by admitted operations; that two       *)
(* conflicting effects are never pending at once; and that the execution   *)
(* core implements EffectLedger.  The second part, from GrantTypes on,     *)
(* shows what everything else rests on, layer by layer.                    *)
(***************************************************************************)
EXTENDS Execution, FiniteSetTheorems, TLAPS

EffectView == <<opState, leaseState, worker, effect, preimage>>

EffectTypeOK ==
  /\ opState \in [Ops -> OpStates]
  /\ leaseState \in [Ops -> LeaseStates]
  /\ worker \in [Ops -> WorkerStates]
  /\ effect \in [Ops -> {"NONE", "PARTIAL", "APPLIED"}]
  /\ preimage \in [Ops -> BOOLEAN]

NotStartedOps == {"ABSENT", "PREPARED", "CANCELLED"}

\* What the worker of an operation knows agrees with the store and the file.
WorkerAgrees(o) ==
  /\ worker[o] = "IDLE" <=> opState[o] \in NotStartedOps
  /\ worker[o] \in {"ADMITTED", "OPEN", "SAVED"} => OpPending(o)
  /\ worker[o] \in {"IDLE", "ADMITTED", "OPEN", "REFUSED"} => effect[o] = "NONE"
  /\ worker[o] = "SAVED" => effect[o] = IF OpKind[o] = "update" THEN "NONE" ELSE "PARTIAL"
  /\ worker[o] = "WRITTEN" => effect[o] = "APPLIED"
  /\ preimage[o] => OpKind[o] = "update" /\ worker[o] \notin {"IDLE", "ADMITTED", "OPEN"}

Truthful(o) ==
  /\ opState[o] \in {"OBSERVED", "ACCEPTED"} => effect[o] = "APPLIED"
  /\ opState[o] \in NotStartedOps \cup {"FAILED"} => effect[o] = "NONE"

EffectInv == EffectTypeOK /\ \A o \in Ops : WorkerAgrees(o) /\ Truthful(o)
-----------------------------------------------------------------------------
(* The view of a step. *)

\* Prepared operations are withdrawn.
ViewWithdraw ==
  /\ \E S \in SUBSET Ops :
       /\ \A o \in S : opState[o] = "PREPARED"
       /\ opState' = [o \in Ops |-> IF o \in S THEN "CANCELLED" ELSE opState[o]]
  /\ UNCHANGED <<leaseState, worker, effect, preimage>>

ViewPrepare ==
  /\ \E o \in Ops : opState[o] = "ABSENT" /\ opState' = [opState EXCEPT ![o] = "PREPARED"]
  /\ UNCHANGED <<leaseState, worker, effect, preimage>>

ViewLapse ==
  /\ \E o \in Ops : leaseState[o] = "HELD" /\ leaseState' = [leaseState EXCEPT ![o] = "LAPSED"]
  /\ UNCHANGED <<opState, worker, effect, preimage>>

ViewAccept ==
  /\ \E S \in SUBSET Ops :
       /\ \A o \in S : opState[o] = "OBSERVED"
       /\ opState' = [o \in Ops |-> IF o \in S THEN "ACCEPTED" ELSE opState[o]]
  /\ UNCHANGED <<leaseState, worker, effect, preimage>>

\* Effects of an ended Host become unknown.
ViewOrphan ==
  /\ \E S \in SUBSET Ops :
       /\ \A o \in S : opState[o] = "INTENT_RECORDED"
       /\ opState' = [o \in Ops |-> IF o \in S THEN "UNKNOWN" ELSE opState[o]]
       /\ leaseState' = [o \in Ops |-> IF o \in S THEN "QUARANTINED" ELSE leaseState[o]]
  /\ UNCHANGED <<worker, effect, preimage>>

\* Workers end with their Host.
ViewKill ==
  /\ \E S \in SUBSET Ops :
       /\ \A o \in S : WorkerLive(o)
       /\ worker' = [o \in Ops |-> IF o \in S THEN "GONE" ELSE worker[o]]
  /\ UNCHANGED <<opState, leaseState, effect, preimage>>

StoreView == <<opState, leaseState>>

OperationView == ViewPrepare \/ ViewWithdraw \/ ViewLapse \/ UNCHANGED EffectView
LifecycleView == ViewWithdraw \/ ViewAccept \/ UNCHANGED EffectView
HostView == ViewOrphan \/ UNCHANGED EffectView
FileView == \E o \in Ops : \/ Begin(o) \/ WorkerStep(o) \/ WorkerDies(o)
                           \/ ReconcileUpdate(o) \/ Attest(o)

LEMMA OperationStepView ==
  EffectTypeOK /\ OperationNext /\ UNCHANGED <<workerVars, callVars, processVars>>
    => OperationView
<1> SUFFICES ASSUME EffectTypeOK, OperationNext,
                    UNCHANGED <<workerVars, callVars, processVars>>
             PROVE  OperationView
  OBVIOUS
<1> USE DEF OperationView, workerVars, EffectView, controlUnchanged, opVars
<1>1. CASE \E g \in Grants : RecordGrant(g) \/ RevokeGrant(g) \/ ExpireGrant(g)
  BY <1>1 DEF RecordGrant, RevokeGrant, ExpireGrant
<1>2. CASE \E w \in BudgetOwners, n \in Budgets : ConfigureBudget(w, n) \/ AmendBudget(w, n)
  BY <1>2 DEF ConfigureBudget, AmendBudget, SetBudget
<1>3. CASE \E o \in Ops : Prepare(o)
  BY <1>3 DEF Prepare, ViewPrepare
<1>4. ASSUME NEW o \in Ops, CancelPrepared(o)
      PROVE  OperationView
  <2>1. opState' = [p \in Ops |-> IF p \in {o} THEN "CANCELLED" ELSE opState[p]]
    BY <1>4 DEF CancelPrepared, EffectTypeOK
  <2>2. \A p \in {o} : opState[p] = "PREPARED"
    BY <1>4 DEF CancelPrepared
  <2>3. UNCHANGED <<leaseState, worker, effect, preimage>>
    BY <1>4 DEF CancelPrepared
  <2>4. {o} \in SUBSET Ops
    OBVIOUS
  <2> QED BY <2>1, <2>2, <2>3, <2>4 DEF ViewWithdraw
<1>5. CASE \E o \in Ops : ExpireLease(o)
  BY <1>5 DEF ExpireLease, ViewLapse
<1> QED BY <1>1, <1>2, <1>3, <1>4, <1>5 DEF OperationNext

LEMMA LifecycleStepView ==
  EffectTypeOK /\ LifecycleNext /\ UNCHANGED <<workerVars, callVars, processVars>>
    => LifecycleView
<1> SUFFICES ASSUME EffectTypeOK, LifecycleNext,
                    UNCHANGED <<workerVars, callVars, processVars>>
             PROVE  LifecycleView
  OBVIOUS
<1> USE DEF LifecycleView, workerVars, EffectView, opVars
<1>1. ASSUME NEW t \in Tasks, NEW ds \in SUBSET KnownEdges, CreateTask(t, ds)
      PROVE  LifecycleView
  BY <1>1 DEF CreateTask, EffectsUnchanged
<1>2. ASSUME NEW t \in Tasks, NEW ds \in SUBSET KnownEdges, ReviseTask(t, ds)
      PROVE  LifecycleView
  <2> DEFINE S == {o \in Ops : OpTask(o) = t /\ opState[o] = "PREPARED" /\ opRev[o] = taskRev[t]}
  <2>1. opState' = [o \in Ops |-> IF o \in S THEN "CANCELLED" ELSE opState[o]]
    BY <1>2 DEF ReviseTask
  <2>2. UNCHANGED <<leaseState, worker, effect, preimage>>
    BY <1>2 DEF ReviseTask
  <2> QED BY <2>1, <2>2 DEF ViewWithdraw
<1>3. ASSUME NEW t \in Tasks, NEW e \in KnownEdges, AddDependency(t, e)
      PROVE  LifecycleView
  BY <1>3 DEF AddDependency
<1>4. ASSUME NEW t \in Tasks, CancelTask(t)
      PROVE  LifecycleView
  <2> DEFINE S == {o \in Ops : OpTask(o) = t /\ opState[o] = "PREPARED"}
  <2>1. opState' = [o \in Ops |-> IF o \in S THEN "CANCELLED" ELSE opState[o]]
    BY <1>4 DEF CancelTask
  <2>2. UNCHANGED <<leaseState, worker, effect, preimage>>
    BY <1>4 DEF CancelTask
  <2> QED BY <2>1, <2>2 DEF ViewWithdraw
<1>5. ASSUME NEW t \in Tasks,
             BindTask(t) \/ BeginVerification(t) \/ Rework(t)
               \/ \E result \in {"PASS", "FAIL"} : RecordEvidence(t, result)
      PROVE  LifecycleView
  BY <1>5 DEF BindTask, BeginVerification, Rework, RecordEvidence, ProofStep, EffectsUnchanged
<1>6. ASSUME NEW t \in Tasks, Accept(t)
      PROVE  LifecycleView
  <2> DEFINE S == {o \in Ops : OpTask(o) = t /\ opState[o] = "OBSERVED" /\ opRev[o] = taskRev[t]}
  <2>1. opState' = [o \in Ops |-> IF o \in S THEN "ACCEPTED" ELSE opState[o]]
    BY <1>6 DEF Accept
  <2>2. UNCHANGED <<leaseState, worker, effect, preimage>>
    BY <1>6 DEF Accept
  <2> QED BY <2>1, <2>2 DEF ViewAccept
<1>7. ASSUME NEW t \in Tasks, NEW r \in Revisions, Invalidate(t, r)
      PROVE  LifecycleView
  <2> DEFINE affected == IF <<t, r>> \in accepted
                         THEN {<<t, r>>} \cup {<<x, taskRev[x]>> : x \in Dependents(t, r)}
                         ELSE {}
             S == {o \in Ops : opState[o] = "PREPARED" /\ <<OpTask(o), opRev[o]>> \in affected}
  <2>1. opState' = [o \in Ops |-> IF o \in S THEN "CANCELLED" ELSE opState[o]]
    BY <1>7 DEF Invalidate
  <2>2. UNCHANGED <<leaseState, worker, effect, preimage>>
    BY <1>7 DEF Invalidate
  <2> QED BY <2>1, <2>2 DEF ViewWithdraw
<1>8. ASSUME NEW r \in Runs,
             OpenRun(r) \/ PauseRun(r) \/ RebuildCheckpoint(r) \/ ResumeRun(r)
      PROVE  LifecycleView
  BY <1>8 DEF OpenRun, PauseRun, RebuildCheckpoint, ResumeRun, RunStep
<1>9. CASE SetPhaseActive
  BY <1>9 DEF SetPhaseActive, EffectsUnchanged
<1> QED
  BY <1>1, <1>2, <1>3, <1>4, <1>5, <1>6, <1>7, <1>8, <1>9 DEF LifecycleNext

LEMMA HostStepView ==
  EffectTypeOK /\ HostNext /\ UNCHANGED workerVars => HostView
<1> SUFFICES ASSUME EffectTypeOK, HostNext, UNCHANGED workerVars
             PROVE  HostView
  OBVIOUS
<1> USE DEF HostView, workerVars, EffectView, opVars, storeVars
<1>1. ASSUME NEW terms \in PolicyTerms, ConfigurePolicy(terms) \/ AmendPolicy(terms)
      PROVE  HostView
  BY <1>1 DEF ConfigurePolicy, AmendPolicy, PolicyStep
<1>2. CASE ExpirePolicy \/ RevokePolicy
  BY <1>2 DEF ExpirePolicy, RevokePolicy, PolicyStep
<1>3. ASSUME NEW d \in Dispatches,
             CancelBeforeLaunch(d) \/ \E source \in Runs \cup {NoHost} : PrepareDispatch(d, source)
      PROVE  HostView
  BY <1>3 DEF CancelBeforeLaunch, PrepareDispatch
<1>4. ASSUME NEW c \in Calls, Launch(c) \/ Poll(c) \/ Cancel(c)
      PROVE  HostView
  BY <1>4 DEF Launch, Poll, Cancel
<1>5. ASSUME NEW c \in Calls,
             CallStart(c) \/ CallCancel(c) \/ Ask(c) \/ Regressed(c) \/ CallUncertain(c)
               \/ CallRaises(c) \/ CallerDies(c)
      PROVE  HostView
  BY <1>5 DEF CallStart, CallCancel, Ask, Regressed, CallUncertain, CallRaises, CallerDies
<1>6. ASSUME NEW c \in Calls, ObserveHost(c)
      PROVE  HostView
  <2> DEFINE S == IF Got(c).quiesced = "YES" THEN Orphans(CallDispatch[c]) ELSE {}
  <2>1. opState' = [o \in Ops |-> IF o \in S THEN "UNKNOWN" ELSE opState[o]]
    BY <1>6 DEF ObserveHost, OrphanOutcome
  <2>2. leaseState' = [o \in Ops |-> IF o \in S THEN "QUARANTINED" ELSE leaseState[o]]
    BY <1>6 DEF ObserveHost
  <2>3. S \in SUBSET Ops /\ \A o \in S : opState[o] = "INTENT_RECORDED"
    BY DEF Orphans
  <2>4. UNCHANGED <<worker, effect, preimage>>
    OBVIOUS
  <2> HIDE DEF S
  <2> QED BY <2>1, <2>2, <2>3, <2>4 DEF ViewOrphan
<1> QED
  BY <1>1, <1>2, <1>3, <1>4, <1>5, <1>6 DEF HostNext, CallStep

LEMMA ProcessStepView ==
  ASSUME NEW d \in Dispatches, EffectTypeOK, ProcessStep(d)
  PROVE  ViewKill
<1> DEFINE S == {o \in Ops : OpHost(o) = d /\ WorkerLive(o) /\ command'[d] # "LIVE"}
<1>1. worker' = [o \in Ops |-> IF o \in S THEN "GONE" ELSE worker[o]]
  BY DEF ProcessStep
<1>2. UNCHANGED <<opState, leaseState, effect, preimage>>
  BY DEF ProcessStep, storeVars, opVars
<1> QED BY <1>1, <1>2 DEF ViewKill

\* Every step of the system, seen through the five variables.
LEMMA StepView ==
  ASSUME EffectTypeOK, [Next]_vars
  PROVE  \/ OperationView \/ LifecycleView \/ HostView \/ ViewKill \/ FileView
         \/ UNCHANGED EffectView
<1>1. CASE OperationNext /\ UNCHANGED <<workerVars, callVars, processVars>>
  BY <1>1, OperationStepView
<1>2. CASE LifecycleNext /\ UNCHANGED <<workerVars, callVars, processVars>>
  BY <1>2, LifecycleStepView
<1>3. CASE FileStep
  BY <1>3 DEF FileStep, FileView
<1>4. CASE HostNext /\ UNCHANGED workerVars
  BY <1>4, HostStepView
<1>5. CASE \E d \in Dispatches : ProcessStep(d)
  BY <1>5, ProcessStepView
<1>6. CASE UNCHANGED vars
  BY <1>6 DEF vars, storeVars, opVars, workerVars, EffectView
<1> QED BY <1>1, <1>2, <1>3, <1>4, <1>5, <1>6 DEF Next
-----------------------------------------------------------------------------
(* The worker, the store and the file agree. *)

LEMMA EffectInit == Init => EffectInv
  BY DEF Init, StoreInit, WorkerInit, EffectInv, EffectTypeOK, WorkerAgrees, Truthful,
         OpStates, LeaseStates, WorkerStates, NotStartedOps, OpPending

\* The steps that are not a worker's.
LEMMA QuietStep ==
  ASSUME EffectInv,
         OperationView \/ LifecycleView \/ HostView \/ ViewKill \/ UNCHANGED EffectView
  PROVE  EffectInv'
<1> USE DEF EffectInv, EffectTypeOK, WorkerAgrees, Truthful, NotStartedOps, OpPending, EffectView
<1>1. CASE ViewPrepare
  BY <1>1 DEF ViewPrepare, OpStates
<1>2. CASE ViewWithdraw
  BY <1>2 DEF ViewWithdraw, OpStates
<1>3. CASE ViewLapse
  BY <1>3 DEF ViewLapse, LeaseStates
<1>4. CASE ViewAccept
  BY <1>4 DEF ViewAccept, OpStates
<1>5. CASE ViewOrphan
  BY <1>5 DEF ViewOrphan, OpStates, LeaseStates
<1>6. CASE ViewKill
  BY <1>6 DEF ViewKill, WorkerLive, WorkerStates
<1>7. CASE UNCHANGED EffectView
  BY <1>7
<1> QED
  BY <1>1, <1>2, <1>3, <1>4, <1>5, <1>6, <1>7 DEF OperationView, LifecycleView, HostView

\* What observe does to an operation and its lease.
LEMMA ObserveView ==
  ASSUME EffectTypeOK, NEW o \in Ops, NEW outcome \in {"SUCCEEDED", "FAILED", "UNKNOWN"},
         Observe(o, outcome)
  PROVE  /\ opState' = [opState EXCEPT ![o] = IF outcome = "SUCCEEDED" THEN "OBSERVED" ELSE outcome]
         /\ leaseState' = [leaseState EXCEPT ![o] =
              IF outcome = "UNKNOWN" THEN "QUARANTINED" ELSE "RELEASED"]
         /\ OpPending(o)
<1>1. opState' = [opState EXCEPT ![o] = IF outcome = "SUCCEEDED" THEN "OBSERVED" ELSE outcome]
  <2>1. CASE outcome = "SUCCEEDED"
    BY <2>1 DEF Observe
  <2>2. CASE outcome = "FAILED"
    BY <2>2 DEF Observe
  <2>3. CASE outcome = "UNKNOWN"
    BY <2>3 DEF Observe
  <2> QED BY <2>1, <2>2, <2>3
<1> QED BY <1>1 DEF Observe, LeaseAfter

LEMMA WorkerStepInv ==
  ASSUME EffectInv, FileView
  PROVE  EffectInv'
<1> PICK o \in Ops : \/ Begin(o) \/ WorkerStep(o) \/ WorkerDies(o)
                      \/ ReconcileUpdate(o) \/ Attest(o)
  BY DEF FileView
<1>o. /\ EffectTypeOK
      /\ \A p \in Ops : WorkerAgrees(p) /\ Truthful(p)
  BY DEF EffectInv
<1> USE DEF EffectTypeOK, storeVars, opVars, At, Does, WorkerStates
<1>1. CASE Begin(o)
  BY <1>1, <1>o DEF Begin, RecordIntent, EffectInv, WorkerAgrees, Truthful, NotStartedOps,
     OpPending, OpStates, LeaseStates
<1>2. CASE VerifyLease(o) \/ Read(o) \/ CreateExclusive(o) \/ CreateWrite(o)
  BY <1>2, <1>o, KindAssumption DEF VerifyLease, Read, CreateExclusive, CreateWrite, EffectInv,
     WorkerAgrees, Truthful, NotStartedOps, OpPending
<1>3. CASE OpenExclusive(o) \/ PreservePreimage(o) \/ FencedWrite(o)
  <2>1. CASE OpenExclusive(o)
    BY <2>1, <1>o DEF OpenExclusive, EffectInv, WorkerAgrees, Truthful, NotStartedOps, OpPending
  <2>2. CASE PreservePreimage(o)
    <3>1. EffectTypeOK'
      BY <2>2, <1>o DEF PreservePreimage
    <3>2. \A p \in Ops : Truthful(p)'
      BY <2>2, <1>o DEF PreservePreimage, Truthful, NotStartedOps, WorkerAgrees, OpPending
    <3>3. ASSUME NEW p \in Ops PROVE WorkerAgrees(p)'
      <4>1. CASE p = o
        BY <4>1, <2>2, <1>o DEF PreservePreimage, WorkerAgrees, NotStartedOps, OpPending
      <4>2. CASE p # o
        BY <4>2, <2>2, <1>o DEF PreservePreimage, WorkerAgrees, NotStartedOps, OpPending
      <4> QED BY <4>1, <4>2
    <3> QED BY <3>1, <3>2, <3>3 DEF EffectInv
  <2>3. CASE FencedWrite(o)
    BY <2>3, <1>o DEF FencedWrite, EffectInv, WorkerAgrees, Truthful, NotStartedOps, OpPending
  <2> QED BY <1>3, <2>1, <2>2, <2>3
<1>4. CASE Report(o) /\ ~OpPending(o)
  BY <1>4, <1>o DEF Report, EffectInv, WorkerAgrees, Truthful, NotStartedOps, OpPending
<1>5. CASE Report(o) /\ OpPending(o)
  <2>1. Outcome(o) \in {"SUCCEEDED", "FAILED", "UNKNOWN"} /\ Observe(o, Outcome(o))
    BY <1>5 DEF Report, Outcome
  <2>2. /\ opState' = [opState EXCEPT ![o] =
              IF Outcome(o) = "SUCCEEDED" THEN "OBSERVED" ELSE Outcome(o)]
        /\ leaseState' = [leaseState EXCEPT ![o] =
              IF Outcome(o) = "UNKNOWN" THEN "QUARANTINED" ELSE "RELEASED"]
    BY <2>1, <1>o, ObserveView
  <2> QED
    BY <2>2, <1>5, <1>o DEF Report, Outcome, EffectInv, WorkerAgrees, Truthful,
       NotStartedOps, OpPending, OpStates, LeaseStates
<1>6. CASE WorkerDies(o)
  BY <1>6, <1>o DEF WorkerDies, WorkerLive, LeaseValid, EffectInv, WorkerAgrees, Truthful,
     NotStartedOps, OpPending
<1>7. ASSUME NEW outcome \in {"SUCCEEDED", "FAILED", "UNKNOWN"}, Observe(o, outcome),
             UNCHANGED workerVars,
             outcome = "SUCCEEDED" => effect[o] = "APPLIED",
             outcome = "FAILED" => effect[o] = "NONE",
             worker[o] \notin {"ADMITTED", "OPEN", "SAVED"}
      PROVE  EffectInv'
  <2>1. /\ opState' = [opState EXCEPT ![o] = IF outcome = "SUCCEEDED" THEN "OBSERVED" ELSE outcome]
        /\ leaseState' = [leaseState EXCEPT ![o] =
              IF outcome = "UNKNOWN" THEN "QUARANTINED" ELSE "RELEASED"]
        /\ OpPending(o)
    BY <1>7, <1>o, ObserveView
  <2> QED
    BY <2>1, <1>7, <1>o DEF workerVars, EffectInv, WorkerAgrees, Truthful, NotStartedOps,
       OpPending, OpStates, LeaseStates
<1>8. CASE ReconcileUpdate(o)
  <2>1. worker[o] \notin {"ADMITTED", "OPEN", "SAVED"}
    BY <1>8, <1>o DEF ReconcileUpdate, HandleHeld, WorkerAgrees
  <2> QED BY <2>1, <1>7, <1>8 DEF ReconcileUpdate
<1>9. CASE Attest(o)
  BY <1>7, <1>9 DEF Attest
<1> QED
  BY <1>1, <1>2, <1>3, <1>4, <1>5, <1>6, <1>8, <1>9 DEF WorkerStep

\* EffectInv is inductive.
LEMMA EffectInvariance == Spec => []EffectInv
<1>1. EffectInv /\ [Next]_vars => EffectInv'
  BY StepView, QuietStep, WorkerStepInv DEF EffectInv
<1> QED BY EffectInit, <1>1, PTL DEF Spec

\* Whatever is cancelled, revoked, expired or observed meanwhile, a worker that
\* may still touch its file holds the resource (create_file, update_file).
THEOREM WriterHoldsResourceHolds == Spec => []WriterHoldsResource
<1>1. EffectInv => WriterHoldsResource
  BY DEF EffectInv, WorkerAgrees, WriterHoldsResource
<1> QED BY EffectInvariance, <1>1, PTL

\* What observe records of an effect is what happened to the file.
THEOREM OutcomeIsTrueHolds == Spec => []OutcomeIsTrue
<1>1. EffectInv => OutcomeIsTrue
  BY DEF EffectInv, EffectTypeOK, Truthful, OutcomeIsTrue, NotStartedOps, OpStates
<1> QED BY EffectInvariance, <1>1, PTL
-----------------------------------------------------------------------------
(* What a step does to the store's operations and to the files, in the terms *)
(* of the ledger.                                                            *)

Outcomes == {"SUCCEEDED", "FAILED", "UNKNOWN"}

\* What a step of the workers does to the store and the file.
Admits == \E o \in Ops : RecordIntent(o) /\ UNCHANGED effect

Observes ==
  \E o \in Ops, outcome \in Outcomes :
    /\ OpPending(o)
    /\ opState' = [opState EXCEPT ![o] = IF outcome = "SUCCEEDED" THEN "OBSERVED" ELSE outcome]
    /\ leaseState' = [leaseState EXCEPT ![o] =
         IF outcome = "UNKNOWN" THEN "QUARANTINED" ELSE "RELEASED"]
    /\ outcome = "SUCCEEDED" => effect[o] = "APPLIED"
    /\ outcome = "FAILED" => effect[o] = "NONE"
    /\ UNCHANGED effect

Touches ==
  /\ \E o \in Ops, e \in {"PARTIAL", "APPLIED"} :
       /\ OpPending(o)
       /\ Ledger!Progress(effect[o], e)
       /\ effect' = [effect EXCEPT ![o] = e]
  /\ UNCHANGED StoreView

LEMMA FileStepEffect ==
  ASSUME EffectInv, FileView
  PROVE  Admits \/ Observes \/ Touches \/ UNCHANGED <<opState, leaseState, effect>>
<1> PICK o \in Ops : \/ Begin(o) \/ WorkerStep(o) \/ WorkerDies(o)
                      \/ ReconcileUpdate(o) \/ Attest(o)
  BY DEF FileView
<1>o. EffectTypeOK /\ WorkerAgrees(o)
  BY DEF EffectInv
<1> USE DEF At, Does, storeVars, opVars, StoreView
<1>1. CASE Begin(o)
  BY <1>1 DEF Begin, Admits
<1>2. CASE VerifyLease(o) \/ OpenExclusive(o) \/ PreservePreimage(o)
  BY <1>2 DEF VerifyLease, OpenExclusive, PreservePreimage
<1>3. ASSUME worker[o] \in {"OPEN", "SAVED"}, UNCHANGED storeVars,
             NEW e \in {"NONE", "PARTIAL", "APPLIED"}, Does(o, e),
             Ledger!Progress(effect[o], e)
      PROVE  Touches \/ UNCHANGED <<opState, leaseState, effect>>
  <2>1. OpPending(o)
    BY <1>3, <1>o DEF WorkerAgrees
  <2>2. CASE e = "NONE"
    <3>1. effect[o] = "NONE"
      BY <2>2, <1>3 DEF Ledger!Progress
    <3> QED BY <3>1, <2>2, <1>3, <1>o DEF EffectTypeOK
  <2>3. CASE e \in {"PARTIAL", "APPLIED"}
    BY <2>1, <2>3, <1>3 DEF Touches
  <2> QED BY <1>3, <2>2, <2>3
<1>4. CASE Read(o) \/ CreateExclusive(o)
  <2>1. effect[o] = "NONE" /\ worker[o] = "OPEN"
    BY <1>4, <1>o DEF Read, CreateExclusive, WorkerAgrees
  <2> QED BY <2>1, <1>3, <1>4 DEF Read, CreateExclusive, Ledger!Progress
<1>5. CASE CreateWrite(o)
  <2>1. effect[o] = "PARTIAL" /\ worker[o] = "SAVED"
    BY <1>5, <1>o DEF CreateWrite, WorkerAgrees
  <2> QED BY <2>1, <1>3, <1>5 DEF CreateWrite, Ledger!Progress
<1>6. CASE FencedWrite(o) \/ WorkerDies(o)
  <2>1. worker[o] = "SAVED" /\ OpKind[o] = "update" => effect[o] = "NONE"
    BY <1>o DEF WorkerAgrees
  <2> QED BY <2>1, <1>3, <1>6 DEF FencedWrite, WorkerDies, Ledger!Progress
<1>7. ASSUME NEW outcome \in Outcomes, Observe(o, outcome), UNCHANGED effect,
             outcome = "SUCCEEDED" => effect[o] = "APPLIED",
             outcome = "FAILED" => effect[o] = "NONE"
      PROVE  Observes
  BY <1>7, <1>o, ObserveView DEF Observes, Outcomes
<1>8. CASE Report(o) /\ OpPending(o)
  <2>1. Outcome(o) \in Outcomes /\ Observe(o, Outcome(o)) /\ UNCHANGED effect
    BY <1>8 DEF Report, Outcome, Outcomes
  <2>2. /\ Outcome(o) = "SUCCEEDED" => worker[o] = "WRITTEN"
        /\ Outcome(o) = "FAILED" => worker[o] = "REFUSED"
    BY <1>8 DEF Report, Outcome
  <2> QED BY <2>1, <2>2, <1>7, <1>o DEF WorkerAgrees
<1>9. CASE Report(o) /\ ~OpPending(o)
  BY <1>9 DEF Report
<1>10. CASE ReconcileUpdate(o) \/ Attest(o)
  BY <1>7, <1>10 DEF ReconcileUpdate, Attest, Outcomes, workerVars
<1> QED
  BY <1>1, <1>2, <1>4, <1>5, <1>6, <1>8, <1>9, <1>10 DEF WorkerStep

\* A step of anyone, seen by the store's operations and the files.
LEMMA StepEffect ==
  ASSUME EffectInv, [Next]_vars
  PROVE  \/ Admits \/ Observes \/ Touches
         \/ ViewPrepare \/ ViewWithdraw \/ ViewLapse \/ ViewAccept \/ ViewOrphan
         \/ UNCHANGED <<opState, leaseState, effect>>
<1>1. EffectTypeOK
  BY DEF EffectInv
<1>2. CASE FileView
  BY <1>2, FileStepEffect
<1>3. CASE OperationView \/ LifecycleView \/ HostView \/ ViewKill \/ UNCHANGED EffectView
  BY <1>3 DEF OperationView, LifecycleView, HostView, ViewKill, EffectView
<1> QED BY <1>1, <1>2, <1>3, StepView
-----------------------------------------------------------------------------
(* Leases. *)

LeaseInv == EffectInv /\ LeaseMatchesOperation

LEMMA LeaseStep ==
  ASSUME LeaseInv, [Next]_vars
  PROVE  LeaseMatchesOperation'
<1>o. EffectTypeOK /\ LeaseMatchesOperation /\ EffectInv
  BY DEF LeaseInv, EffectInv
<1> USE <1>o DEF EffectTypeOK, LeaseMatchesOperation, Settled, OpStates, LeaseStates
<1>1. CASE Admits
  <2> PICK o \in Ops : RecordIntent(o)
    BY <1>1 DEF Admits
  <2> QED BY DEF RecordIntent
<1>2. CASE Observes
  BY <1>2 DEF Observes, OpPending, Outcomes
<1>3. CASE ViewPrepare
  BY <1>3 DEF ViewPrepare
<1>4. CASE ViewWithdraw
  BY <1>4 DEF ViewWithdraw
<1>5. CASE ViewLapse
  BY <1>5 DEF ViewLapse
<1>6. CASE ViewAccept
  BY <1>6 DEF ViewAccept
<1>7. CASE ViewOrphan
  BY <1>7 DEF ViewOrphan
<1>8. CASE Touches \/ UNCHANGED <<opState, leaseState, effect>>
  BY <1>8 DEF Touches, StoreView
<1> QED
  BY <1>1, <1>2, <1>3, <1>4, <1>5, <1>6, <1>7, <1>8, StepEffect

\* Every handler that moves an operation moves its lease with it
\* (record_intent, observe, renew_lease, _observe of the Host service).
THEOREM LeaseMatchesOperationHolds == Spec => []LeaseMatchesOperation
<1>1. Init => LeaseMatchesOperation
  BY DEF Init, StoreInit, LeaseMatchesOperation, Settled
<1>2. EffectInv /\ LeaseMatchesOperation /\ [Next]_vars => LeaseMatchesOperation'
  BY LeaseStep DEF LeaseInv
<1> QED BY EffectInvariance, <1>1, <1>2, PTL DEF Spec
-----------------------------------------------------------------------------
(* Exclusion. *)

LEMMA PendingStep ==
  ASSUME EffectInv, PendingExclusive, [Next]_vars
  PROVE  PendingExclusive'
<1>o. EffectTypeOK
  BY DEF EffectInv
<1> USE <1>o DEF EffectTypeOK, PendingExclusive, OpPending
<1>1. CASE Admits
  <2> PICK o \in Ops : RecordIntent(o)
    BY <1>1 DEF Admits
  <2>1. \A p \in Ops \ {o} : OpPending(p) => OpTask(o) # OpTask(p) /\ <<o, p>> \notin OpConflicts
    BY DEF RecordIntent, TaskBusy, ResourceHeld, OpsOf
  <2>2. \A p \in Ops \ {o} : OpPending(p) => <<p, o>> \notin OpConflicts
    BY <2>1, ConflictsAssumption
  <2>3. \A p \in Ops \ {o} : OpPending(p)' => OpPending(p)
    BY DEF RecordIntent
  <2> QED BY <2>1, <2>2, <2>3
<1>2. CASE ~Admits
  <2>1. \A p \in Ops : OpPending(p)' => OpPending(p)
    BY <1>2, StepEffect DEF Observes, Touches, StoreView, ViewPrepare, ViewWithdraw, ViewLapse,
       ViewAccept, ViewOrphan
  <2> QED BY <2>1
<1> QED BY <1>1, <1>2

\* Effects of one task are serial and a pending effect keeps every conflicting
\* resource to itself (record_intent: TASK_BUSY, RESOURCE_HELD).
THEOREM PendingExclusiveHolds == Spec => []PendingExclusive
<1>1. Init => PendingExclusive
  BY DEF Init, StoreInit, PendingExclusive, OpPending
<1>2. EffectInv /\ PendingExclusive /\ [Next]_vars => PendingExclusive'
  BY PendingStep
<1> QED BY EffectInvariance, <1>1, <1>2, PTL DEF Spec
-----------------------------------------------------------------------------
(* The refinement. *)

\* The ledger's phase of an operation, case by case.
PhaseFact(o) ==
  /\ opState[o] \in {"ABSENT", "PREPARED"} => LedgerPhase[o] = "NEW"
  /\ OpPending(o) => LedgerPhase[o] = "ADMITTED"
  /\ opState[o] \in {"OBSERVED", "ACCEPTED"} => LedgerPhase[o] = "DONE"
  /\ opState[o] = "FAILED" => LedgerPhase[o] = "NOT_DONE"
  /\ opState[o] = "CANCELLED" => LedgerPhase[o] = "DROPPED"

PhaseFacts == LedgerPhase = [o \in Ops |-> LedgerPhase[o]] /\ \A o \in Ops : PhaseFact(o)

LEMMA PhaseOfOp ==
  ASSUME NEW o \in Ops
  PROVE  PhaseFact(o)
<1>1. /\ opState[o] \in {"ABSENT", "PREPARED"} => LedgerPhase[o] = "NEW"
      /\ OpPending(o) => LedgerPhase[o] = "ADMITTED"
      /\ opState[o] \in {"OBSERVED", "ACCEPTED"} => LedgerPhase[o] = "DONE"
      /\ opState[o] = "FAILED" => LedgerPhase[o] = "NOT_DONE"
      /\ opState[o] = "CANCELLED" => LedgerPhase[o] = "DROPPED"
  <2>1. LedgerPhase[o] = PhaseNow(o)
    BY DEF LedgerPhase
  <2> QED BY <2>1 DEF PhaseNow, OpPending
<1> QED BY <1>1 DEF PhaseFact

LEMMA PhaseAlways == PhaseFacts
<1>1. LedgerPhase = [o \in Ops |-> LedgerPhase[o]]
  BY DEF LedgerPhase
<1> QED BY <1>1, PhaseOfOp DEF PhaseFacts

LEMMA PhaseOf == LedgerPhase = [o \in Ops |-> LedgerPhase[o]] /\ \A o \in Ops : PhaseFact(o)
  BY PhaseAlways DEF PhaseFacts

LEMMA PhaseOfNext ==
  LedgerPhase' = [o \in Ops |-> LedgerPhase'[o]] /\ \A o \in Ops : PhaseFact(o)'
<1>1. PhaseFacts'
  BY PhaseAlways, PTL
<1> QED BY <1>1 DEF PhaseFacts

LEMMA PhaseSame ==
  ASSUME \A o \in Ops : LedgerPhase'[o] = LedgerPhase[o]
  PROVE  LedgerPhase' = LedgerPhase
  BY PhaseOf, PhaseOfNext

\* The ledger admits an operation when record_intent does.
LEMMA AdmitRefines ==
  ASSUME EffectInv, EffectInv', NEW o \in Ops, RecordIntent(o), UNCHANGED effect
  PROVE  Ledger!Admit(o)
<1> USE DEF EffectInv, EffectTypeOK, OpPending, PhaseFact
<1>1. opState[o] = "PREPARED" /\ opState' = [opState EXCEPT ![o] = "INTENT_RECORDED"]
  BY DEF RecordIntent
<1>2. LedgerPhase[o] = "NEW" /\ LedgerPhase'[o] = "ADMITTED"
  BY <1>1, PhaseOf, PhaseOfNext
<1>3. \A p \in Ops \ {o} : <<o, p>> \in LedgerRivals => ~OpPending(p)
  BY DEF RecordIntent, TaskBusy, ResourceHeld, OpsOf, LedgerRivals
<1>4. \A p \in Ops : LedgerPhase[p] = "ADMITTED" => OpPending(p)
  BY PhaseOf DEF OpStates
<1>5. \A p \in Ops \ {o} : LedgerPhase'[p] = LedgerPhase[p]
  BY <1>1, PhaseOf, PhaseOfNext DEF OpStates
<1>6. LedgerPhase' = [LedgerPhase EXCEPT ![o] = "ADMITTED"]
  BY <1>2, <1>5, PhaseOf, PhaseOfNext
<1> QED BY <1>2, <1>3, <1>4, <1>6 DEF Ledger!Admit

\* An observation settles an admitted operation truly, or leaves it admitted.
LEMMA ObserveRefines ==
  ASSUME EffectInv, EffectInv', Observes
  PROVE  \E o \in Ops : Ledger!Settle(o) \/ UNCHANGED <<LedgerPhase, effect>>
<1> USE DEF EffectInv, EffectTypeOK, OpPending, PhaseFact, OpStates
<1> PICK o \in Ops, outcome \in Outcomes :
      /\ OpPending(o)
      /\ opState' = [opState EXCEPT ![o] = IF outcome = "SUCCEEDED" THEN "OBSERVED" ELSE outcome]
      /\ outcome = "SUCCEEDED" => effect[o] = "APPLIED"
      /\ outcome = "FAILED" => effect[o] = "NONE"
      /\ UNCHANGED effect
  BY DEF Observes
<1>1. LedgerPhase[o] = "ADMITTED"
  BY PhaseOf
<1>2. /\ outcome = "SUCCEEDED" => LedgerPhase'[o] = "DONE"
      /\ outcome = "FAILED" => LedgerPhase'[o] = "NOT_DONE"
      /\ outcome = "UNKNOWN" => LedgerPhase'[o] = "ADMITTED"
  BY PhaseOfNext
<1>3. \A p \in Ops \ {o} : LedgerPhase'[p] = LedgerPhase[p]
  BY PhaseOf, PhaseOfNext
<1>4. LedgerPhase' = [LedgerPhase EXCEPT ![o] = LedgerPhase'[o]]
  BY <1>3, PhaseOf, PhaseOfNext
<1>5. CASE outcome = "SUCCEEDED"
  <2>1. LedgerPhase'[o] = "DONE"
    BY <1>2, <1>5
  <2> QED BY <1>1, <2>1, <1>4, <1>5 DEF Ledger!Settle
<1>6. CASE outcome = "FAILED"
  <2>1. LedgerPhase'[o] = "NOT_DONE"
    BY <1>2, <1>6
  <2> QED BY <1>1, <2>1, <1>4, <1>6 DEF Ledger!Settle
<1>7. CASE outcome = "UNKNOWN"
  <2>1. \A p \in Ops : LedgerPhase'[p] = LedgerPhase[p]
    BY <1>1, <1>2, <1>3, <1>7
  <2>2. LedgerPhase' = LedgerPhase
    BY <2>1, PhaseSame
  <2> QED BY <2>2
<1> QED BY <1>5, <1>6, <1>7 DEF Outcomes

\* Steps that move no operation in or out of its window.
LEMMA PhaseUnchanged ==
  ASSUME EffectTypeOK, EffectTypeOK',
         \A o \in Ops :
           \/ opState'[o] = opState[o]
           \/ {opState[o], opState'[o]} \subseteq {"ABSENT", "PREPARED"}
           \/ {opState[o], opState'[o]} \subseteq {"INTENT_RECORDED", "UNKNOWN"}
           \/ {opState[o], opState'[o]} \subseteq {"OBSERVED", "ACCEPTED"}
  PROVE  LedgerPhase' = LedgerPhase
<1>1. \A o \in Ops : LedgerPhase'[o] = LedgerPhase[o]
  BY PhaseOf, PhaseOfNext DEF PhaseFact, OpPending, EffectTypeOK, OpStates
<1> QED BY <1>1, PhaseSame
-----------------------------------------------------------------------------
LEMMA StepRefines ==
  ASSUME EffectInv, EffectInv', [Next]_vars
  PROVE  Ledger!Next \/ UNCHANGED <<LedgerPhase, effect>>
<1>o. EffectTypeOK /\ EffectTypeOK'
  BY DEF EffectInv
<1>1. CASE Admits
  BY <1>1, AdmitRefines DEF Admits, Ledger!Next
<1>2. CASE Observes
  BY <1>2, ObserveRefines DEF Ledger!Next
<1>3. CASE Touches
  <2> PICK o \in Ops, e \in {"PARTIAL", "APPLIED"} :
        OpPending(o) /\ Ledger!Progress(effect[o], e) /\ effect' = [effect EXCEPT ![o] = e]
    BY <1>3 DEF Touches
  <2>1. LedgerPhase[o] = "ADMITTED"
    BY PhaseOf DEF PhaseFact
  <2>2. LedgerPhase' = LedgerPhase
    BY <1>3, <1>o, PhaseUnchanged DEF Touches, StoreView
  <2> QED BY <2>1, <2>2 DEF Ledger!Next, Ledger!Touch
<1>4. CASE ViewWithdraw
  <2> PICK S \in SUBSET Ops :
        /\ \A o \in S : opState[o] = "PREPARED"
        /\ opState' = [o \in Ops |-> IF o \in S THEN "CANCELLED" ELSE opState[o]]
    BY <1>4 DEF ViewWithdraw
  <2>1. \A o \in S : LedgerPhase[o] = "NEW"
    BY PhaseOf DEF PhaseFact
  <2>2. LedgerPhase' = [o \in Ops |-> IF o \in S THEN "DROPPED" ELSE LedgerPhase[o]]
    BY <1>o, PhaseOf, PhaseOfNext DEF PhaseFact, OpPending, EffectTypeOK, OpStates
  <2>3. UNCHANGED effect
    BY <1>4 DEF ViewWithdraw
  <2> QED BY <2>1, <2>2, <2>3 DEF Ledger!Next, Ledger!Drop
<1>5. CASE ViewPrepare \/ ViewLapse \/ ViewAccept \/ ViewOrphan
  BY <1>5, <1>o, PhaseUnchanged DEF ViewPrepare, ViewLapse, ViewAccept, ViewOrphan, EffectTypeOK
<1>6. CASE UNCHANGED <<opState, leaseState, effect>>
  BY <1>6, <1>o, PhaseUnchanged
<1> QED BY <1>1, <1>2, <1>3, <1>4, <1>5, <1>6, StepEffect

\* No order of workers, Hosts, revocations, cancellations and revisions admits
\* an effect twice, beside a rival, outside its window or untruly: the core
\* implements the effect ledger (v2_operations, v2_local_host, v2_file_update).
THEOREM ImplementsLedgerHolds == Spec => ImplementsLedger
<1>1. Init => Ledger!Init
  <2> SUFFICES ASSUME Init PROVE Ledger!Init
    OBVIOUS
  <2>1. effect = [o \in Ops |-> "NONE"] /\ opState = [o \in Ops |-> "ABSENT"]
    BY DEF Init, WorkerInit, StoreInit
  <2>2. LedgerPhase = [o \in Ops |-> "NEW"]
    BY <2>1, PhaseOf DEF PhaseFact
  <2> QED BY <2>1, <2>2 DEF Ledger!Init
<1>2. EffectInv /\ EffectInv' /\ [Next]_vars => [Ledger!Next]_<<LedgerPhase, effect>>
  BY StepRefines
<1> QED
  BY EffectInvariance, <1>1, <1>2, PTL DEF Spec, ImplementsLedger, Ledger!Spec, Ledger!ledger

-----------------------------------------------------------------------------
(* Types, budgets, Hosts, waits and acceptance. *)

GrantTypes ==
  /\ grantState \in [Grants -> GrantStates]
  /\ grantRev \in [Grants -> 0..MaxRev]
OpTypes ==
  /\ opState \in [Ops -> OpStates]
  /\ opRev \in [Ops -> 0..MaxRev]
  /\ leaseState \in [Ops -> LeaseStates]
  /\ intents \in SUBSET (Ops \X Nat) /\ IsFiniteSet(intents)
LimitTypes == limit \in [BudgetOwners -> Nat \cup {Unlimited}]
TaskTypes ==
  /\ taskStatus \in [Tasks -> TaskStatus]
  /\ taskRev \in [Tasks -> 0..MaxRev]
  /\ deps \in [Tasks -> SUBSET (Tasks \X Revisions)]
  /\ marker \in [Tasks -> {"NONE"} \cup Resumable]
  /\ pauseWanted \in [Tasks -> BOOLEAN]
ProofTypes ==
  /\ accepted \in SUBSET (Tasks \X Revisions)
  /\ evid \in [Tasks \X Revisions -> EvidenceStates]
  /\ phaseActive \in BOOLEAN
  /\ bound \in SUBSET (Tasks \X Revisions)
RunTypes ==
  /\ runState \in [Runs -> RunStates]
  /\ runRev \in [Runs -> 0..MaxRev]
  /\ runCkpt \in [Runs -> {"NONE", "CLEAN", "PENDING"}]
  /\ runResume \in [Runs -> {"RUNNING", "VERIFYING"}]
HostTypes ==
  /\ hostState \in [Dispatches -> HostStates]
  /\ hostRev \in [Dispatches -> 0..MaxRev]
  /\ launched \in [Dispatches -> BOOLEAN]
  /\ cancelWanted \in [Dispatches -> BOOLEAN]
  /\ quiesced \in [Dispatches -> {"NULL", "NO", "YES"}]
  /\ hostSource \in [Dispatches -> Runs \cup {NoHost}]
  /\ fresh \in [Dispatches -> BOOLEAN]
PolicyTypes == policy \in PolicyRecords

\* Rows name rows that exist, and a call in progress has its own row.
TasksKnown == \A t \in Tasks : taskStatus[t] = "ABSENT" <=> taskRev[t] = 0
OpsKnown == \A o \in Ops : opState[o] # "ABSENT" => taskStatus[OpTask(o)] # "ABSENT"
HostsKnown ==
  /\ \A d \in Dispatches : hostState[d] # "ABSENT" => taskStatus[DispatchTask[d]] # "ABSENT"
  /\ \A d \in Dispatches : launched[d] => hostState[d] # "ABSENT"
CallsKnown ==
  /\ \A c \in Calls : callRow[c] # "ABSENT" => launched[CallDispatch[c]]
  /\ \A c \in Calls : caller[c] # "IDLE" => callRow[c] # "ABSENT"

TypeInv ==
  /\ GrantTypes /\ OpTypes /\ LimitTypes /\ TaskTypes /\ ProofTypes
  /\ RunTypes /\ HostTypes /\ PolicyTypes
  /\ WorkerTypeOK /\ CallTypeOK
  /\ TasksKnown /\ OpsKnown /\ HostsKnown /\ CallsKnown

LEMMA Constants ==
  /\ \A o \in Ops : OpTask(o) \in Tasks /\ OpHost(o) \in Dispatches \cup {NoHost}
  /\ \A c \in Calls : CallDispatch[c] \in Dispatches /\ DispatchTask[CallDispatch[c]] \in Tasks
  /\ \A d \in Dispatches : DispatchTask[d] \in Tasks /\ d # NoHost
  /\ \A r \in Runs : RunTask[r] \in Tasks /\ RunHost[r] \in Dispatches \cup {NoHost}
  /\ MaxRev \in Nat \ {0}
BY ConstantsAssumption, CallsAssumption DEF OpTask, OpHost

LEMMA TypeInvInit == Init => TypeInv
<1> SUFFICES ASSUME Init PROVE TypeInv
  OBVIOUS
<1> USE DEF Init, StoreInit, WorkerInit, CallInit, PH!ProcessInit
<1>0. 0 \in 0..MaxRev
  BY Constants
<1>1. /\ GrantTypes /\ OpTypes /\ LimitTypes
      /\ TaskTypes
  <2>1. GrantTypes /\ LimitTypes
    BY <1>0 DEF GrantTypes, LimitTypes, GrantStates
  <2>2. OpTypes
    BY <1>0, FS_EmptySet DEF OpTypes, OpStates, LeaseStates
  <2>3. TaskTypes
    BY <1>0 DEF TaskTypes, TaskStatus
  <2> QED
    BY <2>1, <2>2, <2>3
<1>2. ProofTypes /\ RunTypes /\ HostTypes
  BY <1>0 DEF ProofTypes, RunTypes, HostTypes, EvidenceStates, RunStates, HostStates
<1>3. PolicyTypes
  BY DEF PolicyTypes, PolicyRecords, NoPolicy
<1>4. WorkerTypeOK /\ CallTypeOK
  BY DEF WorkerTypeOK, WorkerStates, CallTypeOK, CallerStates, PH!ProcessTypeOK, PH!SupervisorStates
<1>5. TasksKnown /\ OpsKnown /\ HostsKnown /\ CallsKnown
  BY Constants DEF TasksKnown, OpsKnown, HostsKnown, CallsKnown
<1> QED
  BY <1>1, <1>2, <1>3, <1>4, <1>5 DEF TypeInv

LEMMA OperationTypes ==
  ASSUME TypeInv, OperationNext, UNCHANGED <<workerVars, callVars, processVars>>
  PROVE  TypeInv'
<1>u. /\ UNCHANGED <<worker, effect, preimage>> /\ UNCHANGED <<callRow, caller>>
      /\ UNCHANGED <<journal, cancelFlag, supervisor, command>>
  BY DEF workerVars, callVars, processVars
<1>w. (WorkerTypeOK /\ CallTypeOK)'
  BY <1>u DEF TypeInv, WorkerTypeOK, CallTypeOK, PH!ProcessTypeOK
<1>c. ASSUME controlUnchanged
      PROVE  (/\ TaskTypes /\ ProofTypes /\ RunTypes /\ HostTypes /\ PolicyTypes
              /\ TasksKnown /\ HostsKnown /\ CallsKnown)'
  BY <1>c, <1>u DEF TypeInv, controlUnchanged, taskVars, proofVars, phaseVars, runVars, hostVars,
     TaskTypes, ProofTypes, RunTypes, HostTypes, PolicyTypes, TasksKnown, HostsKnown, CallsKnown
<1>s. ASSUME controlUnchanged, UNCHANGED opState
      PROVE  OpsKnown'
  BY <1>s DEF TypeInv, controlUnchanged, taskVars, OpsKnown
<1>1. ASSUME NEW g \in Grants, RecordGrant(g) \/ RevokeGrant(g) \/ ExpireGrant(g)
      PROVE  TypeInv'
  <2>1. GrantTypes'
    BY <1>1, ConstantsAssumption DEF TypeInv, GrantTypes, TaskTypes, RecordGrant, RevokeGrant,
       RevokeGrants, ExpireGrant, GrantStates
  <2>2. (OpTypes /\ LimitTypes)' /\ controlUnchanged /\ UNCHANGED opState
    BY <1>1 DEF TypeInv, OpTypes, LimitTypes, RecordGrant, RevokeGrant, ExpireGrant, opVars
  <2> QED
    BY <2>1, <2>2, <1>w, <1>c, <1>s DEF TypeInv
<1>2. ASSUME NEW w \in BudgetOwners, NEW n \in Budgets, ConfigureBudget(w, n) \/ AmendBudget(w, n)
      PROVE  TypeInv'
  <2>1. LimitTypes'
    BY <1>2, BudgetsAssumption DEF TypeInv, LimitTypes, ConfigureBudget, AmendBudget, SetBudget
  <2>2. (GrantTypes /\ OpTypes)' /\ controlUnchanged /\ UNCHANGED opState
    BY <1>2 DEF TypeInv, GrantTypes, OpTypes, ConfigureBudget, AmendBudget, SetBudget, opVars,
       grantVars
  <2> QED
    BY <2>1, <2>2, <1>w, <1>c, <1>s DEF TypeInv
<1>3. ASSUME NEW o \in Ops, Prepare(o)
      PROVE  TypeInv'
  <2>1. opState' \in [Ops -> OpStates] /\ opRev' \in [Ops -> 0..MaxRev]
    BY <1>3, ConstantsAssumption DEF TypeInv, OpTypes, GrantTypes, Prepare, OpStates
  <2>2. OpTypes'
    BY <1>3, <2>1 DEF TypeInv, OpTypes, Prepare
  <2>3. OpsKnown'
    BY <1>3 DEF TypeInv, OpTypes, OpsKnown, Prepare, GrantAdmits, OpTask, controlUnchanged, taskVars
  <2>4. (GrantTypes /\ LimitTypes)' /\ controlUnchanged
    BY <1>3 DEF TypeInv, GrantTypes, LimitTypes, Prepare, grantVars
  <2> QED
    BY <2>2, <2>3, <2>4, <1>w, <1>c DEF TypeInv
<1>4. ASSUME NEW o \in Ops, CancelPrepared(o) \/ ExpireLease(o)
      PROVE  TypeInv'
  <2>1. OpTypes'
    BY <1>4 DEF TypeInv, OpTypes, CancelPrepared, ExpireLease, OpStates, LeaseStates
  <2>2. OpsKnown'
    BY <1>4 DEF TypeInv, OpTypes, OpsKnown, CancelPrepared, ExpireLease, controlUnchanged, taskVars
  <2>3. (GrantTypes /\ LimitTypes)' /\ controlUnchanged
    BY <1>4 DEF TypeInv, GrantTypes, LimitTypes, CancelPrepared, ExpireLease, grantVars
  <2> QED
    BY <2>1, <2>2, <2>3, <1>w, <1>c DEF TypeInv
<1> QED
  BY <1>1, <1>2, <1>3, <1>4 DEF OperationNext

\* A task the transaction reconciles stays a task, in one of its statuses.
LEMMA ReconcileTypes ==
  ASSUME TypeInv, NEW t \in Tasks, taskStatus[t] # "ABSENT",
         NEW runs \in [Runs -> RunStates], NEW released \in BOOLEAN,
         Reconcile(t, runs, released)
  PROVE  /\ taskStatus' \in [Tasks -> TaskStatus]
         /\ marker' \in [Tasks -> {"NONE"} \cup Resumable]
         /\ pauseWanted' \in [Tasks -> BOOLEAN]
         /\ accepted' \in SUBSET (Tasks \X Revisions)
         /\ runState' \in [Runs -> RunStates]
         /\ runResume' \in [Runs -> {"RUNNING", "VERIFYING"}]
         /\ \A x \in Tasks : taskStatus'[x] = "ABSENT" <=> taskStatus[x] = "ABSENT"
<1>t. TaskTypes /\ ProofTypes /\ RunTypes
  BY DEF TypeInv
<1> USE <1>t DEF TaskTypes, ProofTypes, RunTypes
<1>1. CASE UnknownFact(t)'
  <2>1. taskStatus[t] \notin Resumable => "PAUSED" \in Resumable
    BY DEF Resumable
  <2>2. UNCHANGED <<pauseWanted, runResume>> /\ runState' = runs
    BY <1>1 DEF Reconcile
  <2>3. CASE Parks(t)
    <3>1. taskStatus' = [taskStatus EXCEPT ![t] = "RECOVERY_REQUIRED"]
      BY <1>1, <2>3 DEF Reconcile
    <3>2. marker' \in [Tasks -> {"NONE"} \cup Resumable]
      BY <1>1, <2>3, <2>1 DEF Reconcile
    <3>3. accepted' \in SUBSET (Tasks \X Revisions)
      BY <1>1, <2>3 DEF Reconcile
    <3> QED BY <3>1, <3>2, <3>3, <2>2 DEF TaskStatus
  <2>4. CASE ~Parks(t)
    BY <1>1, <2>2, <2>4 DEF Reconcile
  <2> QED BY <2>3, <2>4
<1>2. CASE ~UnknownFact(t)'
  <2> DEFINE requested == {r \in RunsOf(t) : runs[r] = "PAUSE_REQUESTED"}
             pausing == requested # {} \/ pauseWanted[t]
             status == IF marker[t] = "NONE" \/ taskStatus[t] # "RECOVERY_REQUIRED"
                       THEN taskStatus[t]
                       ELSE IF pausing THEN "WAITING" ELSE marker[t]
             settled == NothingPending(t)'
             parked == IF settled /\ pausing /\ status = "WAITING" THEN "PAUSED" ELSE status
             ends == IF released /\ parked = "RUNNING" THEN "READY" ELSE parked
  <2>1. /\ taskStatus' = [taskStatus EXCEPT ![t] = ends]
        /\ marker' = [marker EXCEPT ![t] = "NONE"]
        /\ pauseWanted' = [pauseWanted EXCEPT ![t] = @ /\ parked = status]
        /\ runState' = [r \in Runs |->
             IF settled /\ r \in requested THEN "PAUSED" ELSE runs[r]]
        /\ runResume' = [r \in Runs |->
             IF settled /\ r \in requested THEN "RUNNING" ELSE runResume[r]]
        /\ UNCHANGED accepted
    BY <1>2 DEF Reconcile
  <2>2. ends \in TaskStatus \ {"ABSENT"}
    <3>1. status \in TaskStatus \ {"ABSENT"}
      BY DEF Resumable, TaskStatus
    <3> HIDE DEF status
    <3> QED BY <3>1 DEF TaskStatus
  <2> HIDE DEF ends, requested, settled, parked, status
  <2>3. runState' \in [Runs -> RunStates]
    BY <2>1 DEF RunStates
  <2>4. runResume' \in [Runs -> {"RUNNING", "VERIFYING"}]
    BY <2>1
  <2>5. marker' \in [Tasks -> {"NONE"} \cup Resumable]
    BY <2>1
  <2>6. pauseWanted' \in [Tasks -> BOOLEAN]
    BY <2>1
  <2>7. /\ taskStatus' \in [Tasks -> TaskStatus]
        /\ \A x \in Tasks : taskStatus'[x] = "ABSENT" <=> taskStatus[x] = "ABSENT"
    BY <2>1, <2>2
  <2> QED BY <2>1, <2>3, <2>4, <2>5, <2>6, <2>7
<1> QED BY <1>1, <1>2

\* The tasks, operations and Hosts known stay known.
KeepsTasks == \A x \in Tasks : taskStatus'[x] = "ABSENT" <=> taskStatus[x] = "ABSENT"

LEMMA KnownStay ==
  ASSUME TypeInv, KeepsTasks, UNCHANGED taskRev
  PROVE  /\ TasksKnown'
         /\ (\A o \in Ops : opState'[o] # "ABSENT" => opState[o] # "ABSENT") => OpsKnown'
         /\ (/\ \A d \in Dispatches : hostState'[d] # "ABSENT" <=> hostState[d] # "ABSENT"
             /\ UNCHANGED launched) => HostsKnown'
BY Constants DEF TypeInv, KeepsTasks, TasksKnown, OpsKnown, HostsKnown

LEMMA DefinitionTypes ==
  ASSUME TypeInv, UNCHANGED <<workerVars, callVars, processVars>>, NEW t \in Tasks,
         \/ \E ds \in SUBSET KnownEdges : CreateTask(t, ds) \/ ReviseTask(t, ds)
         \/ \E e \in KnownEdges : AddDependency(t, e)
         \/ CancelTask(t) \/ BindTask(t)
  PROVE  TypeInv'
<1>u. /\ UNCHANGED <<worker, effect, preimage>> /\ UNCHANGED <<callRow, caller>>
      /\ UNCHANGED <<journal, cancelFlag, supervisor, command>>
  BY DEF workerVars, callVars, processVars
<1>w. (WorkerTypeOK /\ CallTypeOK)'
  BY <1>u DEF TypeInv, WorkerTypeOK, CallTypeOK, PH!ProcessTypeOK
<1>h. ASSUME UNCHANGED <<hostState, hostRev, launched, cancelWanted, quiesced, hostSource, policy>>,
             fresh' \in [Dispatches -> BOOLEAN]
      PROVE  (HostTypes /\ PolicyTypes /\ CallsKnown)'
  BY <1>h, <1>u DEF TypeInv, HostTypes, PolicyTypes, CallsKnown
<1>e. KnownEdges \subseteq Tasks \X Revisions
  BY DEF KnownEdges, Edges
<1>1. ASSUME NEW ds \in SUBSET KnownEdges, CreateTask(t, ds)
      PROVE  TypeInv'
  <2> USE <1>1 DEF CreateTask, EffectsUnchanged
  <2>1. (GrantTypes /\ OpTypes /\ LimitTypes /\ ProofTypes /\ RunTypes)'
    BY DEF TypeInv, GrantTypes, OpTypes, LimitTypes, ProofTypes, RunTypes, grantVars, opVars,
       proofVars, phaseVars, runVars
  <2>2. /\ taskStatus' \in [Tasks -> TaskStatus] /\ taskRev' \in [Tasks -> 0..MaxRev]
        /\ deps' \in [Tasks -> SUBSET (Tasks \X Revisions)]
    BY <1>e, Constants DEF TypeInv, TaskTypes, TaskStatus
  <2>3. TaskTypes'
    BY <2>2 DEF TypeInv, TaskTypes
  <2>4. UNCHANGED hostVars /\ UNCHANGED <<opState, policy>>
    BY DEF opVars
  <2>5. (HostTypes /\ PolicyTypes /\ CallsKnown)'
    BY <2>4, <1>h DEF hostVars, TypeInv, HostTypes
  <2>6. (TasksKnown /\ OpsKnown /\ HostsKnown)'
    BY <2>4, Constants DEF hostVars, TypeInv, TaskTypes, TasksKnown, OpsKnown, HostsKnown
  <2> QED
    BY <2>1, <2>3, <2>5, <2>6, <1>w DEF TypeInv
<1>2. ASSUME NEW ds \in SUBSET KnownEdges, ReviseTask(t, ds)
      PROVE  TypeInv'
  <2>1. (LimitTypes /\ ProofTypes)'
    BY <1>2 DEF ReviseTask, TypeInv, LimitTypes, ProofTypes, proofVars, phaseVars
  <2>2. GrantTypes'
    BY <1>2 DEF ReviseTask, RevokeGrants, TypeInv, GrantTypes, GrantStates
  <2>3. OpTypes'
    <3>1. opState' \in [Ops -> OpStates]
      BY <1>2 DEF ReviseTask, TypeInv, OpTypes, OpStates
    <3> QED BY <1>2, <3>1 DEF ReviseTask, TypeInv, OpTypes
  <2>4. RunTypes'
    <3>1. runState' \in [Runs -> RunStates]
      BY <1>2 DEF ReviseTask, TypeInv, RunTypes, RunStates
    <3> QED BY <1>2, <3>1 DEF ReviseTask, TypeInv, RunTypes
  <2>5. TaskTypes'
    <3>1. taskStatus' \in [Tasks -> TaskStatus] /\ taskRev' \in [Tasks -> 0..MaxRev]
      BY <1>2, Constants DEF ReviseTask, TypeInv, TaskTypes, TaskStatus
    <3>2. deps' \in [Tasks -> SUBSET (Tasks \X Revisions)]
      BY <1>2, <1>e DEF ReviseTask, TypeInv, TaskTypes
    <3>3. /\ marker' \in [Tasks -> {"NONE"} \cup Resumable]
          /\ pauseWanted' \in [Tasks -> BOOLEAN]
      BY <1>2 DEF ReviseTask, TypeInv, TaskTypes
    <3> QED BY <3>1, <3>2, <3>3 DEF TaskTypes
  <2>6. UNCHANGED hostVars /\ UNCHANGED policy
    BY <1>2 DEF ReviseTask
  <2>7. (HostTypes /\ PolicyTypes /\ CallsKnown)'
    BY <2>6, <1>h DEF hostVars, TypeInv, HostTypes
  <2>8. (TasksKnown /\ OpsKnown /\ HostsKnown)'
    <3>1. KeepsTasks
      BY <1>2 DEF KeepsTasks, ReviseTask, TypeInv, TaskTypes
    <3>2. \A o \in Ops : opState'[o] # "ABSENT" => opState[o] # "ABSENT"
      BY <1>2 DEF ReviseTask
    <3>3. \A x \in Tasks : taskRev'[x] = 0 <=> taskRev[x] = 0
      BY <1>2, Constants DEF ReviseTask, TypeInv, TaskTypes, TasksKnown
    <3> QED
      BY <3>1, <3>2, <3>3, <2>6, Constants DEF hostVars, KeepsTasks, TypeInv, TasksKnown,
         OpsKnown, HostsKnown
  <2> QED
    BY <2>1, <2>2, <2>3, <2>4, <2>5, <2>7, <2>8, <1>w DEF TypeInv
<1>3. ASSUME NEW e \in KnownEdges, AddDependency(t, e)
      PROVE  TypeInv'
  <2>1. (GrantTypes /\ OpTypes /\ LimitTypes /\ ProofTypes /\ RunTypes)'
    BY <1>3 DEF AddDependency, TypeInv, GrantTypes, OpTypes, LimitTypes, ProofTypes, RunTypes,
       grantVars, opVars, proofVars, phaseVars, runVars
  <2>2. TaskTypes'
    BY <1>3, <1>e DEF AddDependency, TypeInv, TaskTypes
  <2>3. UNCHANGED <<hostState, hostRev, launched, cancelWanted, quiesced, hostSource, policy>>
        /\ fresh' \in [Dispatches -> BOOLEAN]
    BY <1>3 DEF AddDependency, ContextChanged, TypeInv, HostTypes
  <2>4. UNCHANGED <<taskStatus, taskRev, opState>>
    BY <1>3 DEF AddDependency, opVars
  <2>5. (TasksKnown /\ OpsKnown /\ HostsKnown)'
    BY <2>3, <2>4, KnownStay DEF KeepsTasks
  <2> QED
    BY <2>1, <2>2, <2>3, <2>5, <1>h, <1>w DEF TypeInv
<1>4. CASE CancelTask(t)
  <2>1. (LimitTypes /\ ProofTypes)'
    BY <1>4 DEF CancelTask, TypeInv, LimitTypes, ProofTypes, proofVars, phaseVars
  <2>2. GrantTypes'
    BY <1>4 DEF CancelTask, RevokeGrants, TypeInv, GrantTypes, GrantStates
  <2>3. OpTypes'
    <3>1. opState' \in [Ops -> OpStates]
      BY <1>4 DEF CancelTask, TypeInv, OpTypes, OpStates
    <3> QED BY <1>4, <3>1 DEF CancelTask, TypeInv, OpTypes
  <2>4. RunTypes'
    <3>1. runState' \in [Runs -> RunStates]
      BY <1>4 DEF CancelTask, TypeInv, RunTypes, RunStates
    <3> QED BY <1>4, <3>1 DEF CancelTask, TypeInv, RunTypes
  <2>5. TaskTypes'
    BY <1>4 DEF CancelTask, TypeInv, TaskTypes, TaskStatus
  <2>6. UNCHANGED hostVars /\ UNCHANGED <<policy, taskRev>>
    BY <1>4 DEF CancelTask
  <2>7. (HostTypes /\ PolicyTypes /\ CallsKnown)'
    BY <2>6, <1>h DEF hostVars, TypeInv, HostTypes
  <2>8. (TasksKnown /\ OpsKnown /\ HostsKnown)'
    <3>1. KeepsTasks
      BY <1>4 DEF KeepsTasks, CancelTask, TypeInv, TaskTypes
    <3>2. \A o \in Ops : opState'[o] # "ABSENT" => opState[o] # "ABSENT"
      BY <1>4 DEF CancelTask
    <3> QED
      BY <3>1, <3>2, <2>6, KnownStay DEF hostVars
  <2> QED
    BY <2>1, <2>2, <2>3, <2>4, <2>5, <2>7, <2>8, <1>w DEF TypeInv
<1>5. CASE BindTask(t)
  <2>1. (GrantTypes /\ OpTypes /\ LimitTypes /\ TaskTypes /\ RunTypes)'
    BY <1>5 DEF BindTask, TypeInv, GrantTypes, OpTypes, LimitTypes, TaskTypes, RunTypes,
       grantVars, opVars, taskVars, runVars
  <2>2. ProofTypes'
    <3>1. taskRev[t] \in Revisions
      BY <1>5, Constants DEF BindTask, TypeInv, TaskTypes, TasksKnown, Revisions
    <3> QED BY <1>5, <3>1 DEF BindTask, TypeInv, ProofTypes, proofVars
  <2>3. UNCHANGED <<hostState, hostRev, launched, cancelWanted, quiesced, hostSource, policy>>
        /\ fresh' \in [Dispatches -> BOOLEAN]
    BY <1>5 DEF BindTask, ContextChanged, TypeInv, HostTypes
  <2>4. UNCHANGED <<taskStatus, taskRev, opState>>
    BY <1>5 DEF BindTask, opVars, taskVars
  <2>5. (TasksKnown /\ OpsKnown /\ HostsKnown)'
    BY <2>3, <2>4, KnownStay DEF KeepsTasks
  <2> QED
    BY <2>1, <2>2, <2>3, <2>5, <1>h, <1>w DEF TypeInv
<1> QED
  BY <1>1, <1>2, <1>3, <1>4, <1>5

LEMMA RunTypesKept ==
  ASSUME TypeInv, UNCHANGED <<workerVars, callVars, processVars>>,
         \/ \E r \in Runs : OpenRun(r) \/ PauseRun(r) \/ RebuildCheckpoint(r) \/ ResumeRun(r)
         \/ SetPhaseActive
  PROVE  TypeInv'
<1>u. /\ UNCHANGED <<worker, effect, preimage>> /\ UNCHANGED <<callRow, caller>>
      /\ UNCHANGED <<journal, cancelFlag, supervisor, command>>
  BY DEF workerVars, callVars, processVars
<1>w. (WorkerTypeOK /\ CallTypeOK)'
  BY <1>u DEF TypeInv, WorkerTypeOK, CallTypeOK, PH!ProcessTypeOK
<1>r. ASSUME RunStep
      PROVE  /\ (GrantTypes /\ OpTypes /\ LimitTypes /\ ProofTypes /\ HostTypes /\ PolicyTypes
                 /\ CallsKnown)'
             /\ UNCHANGED <<taskRev, deps, marker, pauseWanted, opState, hostState, launched>>
  BY <1>r, <1>u DEF RunStep, TypeInv, GrantTypes, OpTypes, LimitTypes, ProofTypes, HostTypes,
     PolicyTypes, CallsKnown, grantVars, opVars, proofVars, phaseVars, hostVars
<1>s. ASSUME NEW t \in Tasks, taskStatus[t] # "ABSENT",
             NEW s \in TaskStatus \ {"ABSENT"},
             taskStatus' = [taskStatus EXCEPT ![t] = s],
             UNCHANGED <<taskRev, deps, marker, pauseWanted, opState, hostState, launched>>
      PROVE  (TaskTypes /\ TasksKnown /\ OpsKnown /\ HostsKnown)'
  <2>1. TaskTypes' /\ KeepsTasks
    BY <1>s DEF TypeInv, TaskTypes, KeepsTasks
  <2> QED BY <2>1, <1>s, KnownStay
<1>1. ASSUME NEW r \in Runs, OpenRun(r)
      PROVE  TypeInv'
  <2>1. RunTask[r] \in Tasks
    BY Constants
  <2>2. RunTypes'
    BY <1>1, <2>1 DEF OpenRun, TypeInv, TaskTypes, RunTypes, RunStates
  <2>3. taskStatus[RunTask[r]] # "ABSENT" /\ "RUNNING" \in TaskStatus \ {"ABSENT"}
        /\ taskStatus' = [taskStatus EXCEPT ![RunTask[r]] = "RUNNING"] /\ RunStep
    BY <1>1 DEF OpenRun, TaskStatus
  <2> QED
    BY <2>1, <2>2, <2>3, <1>r, <1>s, <1>w DEF TypeInv
<1>2. ASSUME NEW r \in Runs, PauseRun(r)
      PROVE  TypeInv'
  <2> DEFINE t == RunTask[r]
             waiting == PendingEffect(t) \/ PendingHost(t)
             s == IF taskStatus[t] = "RECOVERY_REQUIRED" THEN taskStatus[t]
                  ELSE IF waiting THEN "WAITING" ELSE "PAUSED"
  <2>1. RunTask[r] \in Tasks
    BY Constants
  <2>2. RunTypes'
    BY <1>2, <2>1 DEF PauseRun, Checkpoint, TypeInv, RunTypes, RunStates
  <2>3. taskStatus[t] # "ABSENT" /\ s \in TaskStatus \ {"ABSENT"} /\ RunStep
    BY <1>2 DEF PauseRun, TaskStatus
  <2>4. taskStatus' = [taskStatus EXCEPT ![t] = s]
    BY <1>2 DEF PauseRun
  <2> HIDE DEF s
  <2> QED
    BY <2>1, <2>2, <2>3, <2>4, <1>r, <1>s, <1>w DEF TypeInv
<1>3. ASSUME NEW r \in Runs, RebuildCheckpoint(r)
      PROVE  TypeInv'
  <2>1. (GrantTypes /\ OpTypes /\ LimitTypes /\ ProofTypes /\ TaskTypes /\ PolicyTypes)'
        /\ UNCHANGED <<taskStatus, taskRev, opState, hostState, launched>>
    BY <1>3 DEF RebuildCheckpoint, TypeInv, GrantTypes, OpTypes, LimitTypes, ProofTypes, TaskTypes,
       PolicyTypes, grantVars, opVars, proofVars, phaseVars, taskVars
  <2>2. RunTypes'
    BY <1>3 DEF RebuildCheckpoint, Checkpoint, TypeInv, RunTypes
  <2>3. HostTypes'
    BY <1>3 DEF RebuildCheckpoint, TypeInv, HostTypes
  <2>4. (TasksKnown /\ OpsKnown /\ HostsKnown /\ CallsKnown)'
    BY <2>1, <1>u, KnownStay DEF KeepsTasks, TypeInv, CallsKnown
  <2> QED
    BY <2>1, <2>2, <2>3, <2>4, <1>w DEF TypeInv
<1>4. ASSUME NEW r \in Runs, ResumeRun(r)
      PROVE  TypeInv'
  <2> DEFINE t == RunTask[r]
  <2>1. RunTask[r] \in Tasks
    BY Constants
  <2>2. RunTypes'
    BY <1>4 DEF ResumeRun, TypeInv, RunTypes, RunStates
  <2>3. taskStatus[t] # "ABSENT" /\ runResume[r] \in TaskStatus \ {"ABSENT"} /\ RunStep
    BY <1>4 DEF ResumeRun, TaskStatus, TypeInv, RunTypes
  <2>4. taskStatus' = [taskStatus EXCEPT ![t] = runResume[r]]
    BY <1>4 DEF ResumeRun
  <2> QED
    BY <2>1, <2>2, <2>3, <2>4, <1>r, <1>s, <1>w DEF TypeInv
<1>5. CASE SetPhaseActive
  <2>1. (GrantTypes /\ OpTypes /\ LimitTypes /\ TaskTypes /\ RunTypes /\ PolicyTypes)'
        /\ UNCHANGED <<taskStatus, taskRev, opState>> /\ UNCHANGED hostVars
    BY <1>5 DEF SetPhaseActive, EffectsUnchanged, TypeInv, GrantTypes, OpTypes, LimitTypes,
       RunTypes, TaskTypes, PolicyTypes, grantVars, opVars, proofVars, runVars, taskVars
  <2>2. ProofTypes'
    BY <1>5 DEF SetPhaseActive, TypeInv, ProofTypes, proofVars
  <2>3. HostTypes'
    BY <2>1 DEF hostVars, TypeInv, HostTypes
  <2>4. (TasksKnown /\ OpsKnown /\ HostsKnown /\ CallsKnown)'
    BY <2>1, <1>u, KnownStay DEF hostVars, KeepsTasks, TypeInv, CallsKnown
  <2> QED
    BY <2>1, <2>2, <2>3, <2>4, <1>w DEF TypeInv
<1> QED
  BY <1>1, <1>2, <1>3, <1>4, <1>5

LEMMA ProofTypesKept ==
  ASSUME TypeInv, UNCHANGED <<workerVars, callVars, processVars>>, NEW t \in Tasks,
         \/ BeginVerification(t) \/ Rework(t) \/ Accept(t)
         \/ \E result \in {"PASS", "FAIL"} : RecordEvidence(t, result)
         \/ \E r \in Revisions : Invalidate(t, r)
  PROVE  TypeInv'
<1>u. /\ UNCHANGED <<worker, effect, preimage>> /\ UNCHANGED <<callRow, caller>>
      /\ UNCHANGED <<journal, cancelFlag, supervisor, command>>
  BY DEF workerVars, callVars, processVars
<1>w. (WorkerTypeOK /\ CallTypeOK)'
  BY <1>u DEF TypeInv, WorkerTypeOK, CallTypeOK, PH!ProcessTypeOK
<1>h. ASSUME UNCHANGED <<grantVars, limit, hostVars, policy, taskRev, deps, marker, phaseVars>>
      PROVE  (GrantTypes /\ LimitTypes /\ HostTypes /\ PolicyTypes /\ CallsKnown)'
  BY <1>h, <1>u DEF TypeInv, GrantTypes, LimitTypes, HostTypes, PolicyTypes, CallsKnown, grantVars,
     hostVars
<1>k. ASSUME UNCHANGED <<hostVars, taskRev>>, KeepsTasks,
             \A o \in Ops : opState'[o] # "ABSENT" => opState[o] # "ABSENT"
      PROVE  (TasksKnown /\ OpsKnown /\ HostsKnown)'
  BY <1>k, KnownStay DEF hostVars
<1>1. ASSUME \/ BeginVerification(t) \/ Rework(t)
             \/ \E result \in {"PASS", "FAIL"} : RecordEvidence(t, result)
      PROVE  TypeInv'
  <2>1. ProofStep /\ UNCHANGED <<marker, pauseWanted, runVars, accepted>>
    BY <1>1 DEF BeginVerification, Rework, RecordEvidence, proofVars
  <2>2. TaskTypes' /\ KeepsTasks
    BY <1>1 DEF BeginVerification, Rework, RecordEvidence, VerificationReady, ProofStep, TypeInv,
       TaskTypes, TaskStatus, KeepsTasks
  <2>3. evid' \in [Tasks \X Revisions -> EvidenceStates]
    <3>1. CASE BeginVerification(t)
      BY <3>1 DEF BeginVerification, TypeInv, ProofTypes, proofVars
    <3>2. CASE Rework(t)
      BY <3>2 DEF Rework, TypeInv, ProofTypes, EvidenceStates
    <3>3. ASSUME NEW result \in {"PASS", "FAIL"}, RecordEvidence(t, result)
          PROVE  evid' \in [Tasks \X Revisions -> EvidenceStates]
      BY <3>3 DEF RecordEvidence, TypeInv, ProofTypes, EvidenceStates
    <3> QED BY <1>1, <3>1, <3>2, <3>3
  <2>4. (ProofTypes /\ RunTypes /\ OpTypes)' /\ UNCHANGED opState
    BY <2>1, <2>3 DEF ProofStep, EffectsUnchanged, TypeInv, ProofTypes, RunTypes, OpTypes,
       phaseVars, runVars, opVars
  <2>5. UNCHANGED <<grantVars, limit, hostVars, policy, taskRev, deps, marker, phaseVars>>
    BY <2>1 DEF ProofStep, EffectsUnchanged
  <2> QED
    BY <2>2, <2>4, <2>5, <1>h, <1>k, <1>w DEF TypeInv
<1>2. CASE Accept(t)
  <2>1. UNCHANGED <<grantVars, limit, hostVars, policy, taskRev, deps, marker, phaseVars>>
    BY <1>2 DEF Accept
  <2>2. TaskTypes' /\ KeepsTasks
    BY <1>2 DEF Accept, VerificationReady, TypeInv, TaskTypes, TaskStatus, KeepsTasks
  <2>3. ProofTypes'
    <3>1. taskRev[t] \in Revisions
      BY <1>2, Constants DEF Accept, VerificationReady, TypeInv, TaskTypes, TasksKnown, Revisions
    <3> QED BY <1>2, <3>1 DEF Accept, TypeInv, ProofTypes, phaseVars
  <2>4. RunTypes'
    <3>1. runState' \in [Runs -> RunStates]
      BY <1>2 DEF Accept, TypeInv, RunTypes, RunStates
    <3> QED BY <1>2, <3>1 DEF Accept, TypeInv, RunTypes
  <2>5. OpTypes' /\ \A o \in Ops : opState'[o] # "ABSENT" => opState[o] # "ABSENT"
    <3>1. opState' \in [Ops -> OpStates]
      BY <1>2 DEF Accept, TypeInv, OpTypes, OpStates
    <3>2. \A o \in Ops : opState'[o] # "ABSENT" => opState[o] # "ABSENT"
      BY <1>2 DEF Accept
    <3> QED BY <1>2, <3>1, <3>2 DEF Accept, TypeInv, OpTypes
  <2> QED
    BY <2>1, <2>2, <2>3, <2>4, <2>5, <1>h, <1>k, <1>w DEF TypeInv
<1>3. ASSUME NEW r \in Revisions, Invalidate(t, r)
      PROVE  TypeInv'
  <2>1. UNCHANGED <<grantVars, limit, hostVars, policy, taskRev, deps, marker, phaseVars>>
    BY <1>3 DEF Invalidate
  <2>2. TaskTypes' /\ KeepsTasks
    <3>1. \A x \in Tasks : /\ StatusWithdrawn(x) \in TaskStatus
                           /\ StatusWithdrawn(x) = "ABSENT" <=> taskStatus[x] = "ABSENT"
      BY DEF StatusWithdrawn, TypeInv, TaskTypes, TaskStatus
    <3>2. taskStatus' \in [Tasks -> TaskStatus] /\ KeepsTasks
      BY <1>3, <3>1 DEF Invalidate, TypeInv, TaskTypes, KeepsTasks
    <3>3. pauseWanted' \in [Tasks -> BOOLEAN]
      <4> DEFINE affected == IF <<t, r>> \in accepted
                             THEN {<<t, r>>} \cup {<<x, taskRev[x]>> : x \in Dependents(t, r)}
                             ELSE {}
                 hit == {x \in Tasks : <<x, taskRev[x]>> \in affected}
                 outdated == {x \in Tasks \ hit : taskStatus[x] \in {"RUNNING", "VERIFYING"}
                                                 /\ \E k \in affected : k[1] = x}
                 stopped == {x \in hit : taskStatus[x] \in {"RUNNING", "VERIFYING"}}
                 wanted(x) == IF PendingEffect(x) /\ x \in stopped \cup outdated
                              THEN x \in stopped ELSE pauseWanted[x]
      <4>1. pauseWanted' = [x \in Tasks |-> wanted(x)]
        BY <1>3 DEF Invalidate
      <4>2. ASSUME NEW x \in Tasks PROVE wanted(x) \in BOOLEAN
        <5> HIDE DEF stopped, outdated
        <5>1. pauseWanted[x] \in BOOLEAN
          BY DEF TypeInv, TaskTypes
        <5>2. CASE PendingEffect(x) /\ x \in stopped \cup outdated
          BY <5>2
        <5>3. CASE ~(PendingEffect(x) /\ x \in stopped \cup outdated)
          BY <5>1, <5>3
        <5> QED BY <5>2, <5>3
      <4> HIDE DEF wanted
      <4> QED BY <4>1, <4>2
    <3> QED BY <2>1, <3>2, <3>3 DEF TypeInv, TaskTypes
  <2>3. ProofTypes'
    <3>1. evid' \in [Tasks \X Revisions -> EvidenceStates]
      BY <1>3 DEF Invalidate, TypeInv, ProofTypes, EvidenceStates
    <3>2. accepted' \subseteq accepted
      BY <1>3 DEF Invalidate
    <3> QED BY <2>1, <3>1, <3>2 DEF TypeInv, ProofTypes, phaseVars
  <2>4. RunTypes'
    <3>1. runState' \in [Runs -> RunStates]
      BY <1>3 DEF Invalidate, TypeInv, RunTypes, RunStates
    <3> QED BY <1>3, <3>1 DEF Invalidate, TypeInv, RunTypes
  <2>5. OpTypes' /\ \A o \in Ops : opState'[o] # "ABSENT" => opState[o] # "ABSENT"
    <3>1. opState' \in [Ops -> OpStates]
      BY <1>3 DEF Invalidate, TypeInv, OpTypes, OpStates
    <3>2. \A o \in Ops : opState'[o] # "ABSENT" => opState[o] # "ABSENT"
      BY <1>3 DEF Invalidate
    <3> QED BY <1>3, <3>1, <3>2 DEF Invalidate, TypeInv, OpTypes
  <2> QED
    BY <2>1, <2>2, <2>3, <2>4, <2>5, <1>h, <1>k, <1>w DEF TypeInv
<1> QED
  BY <1>1, <1>2, <1>3

\* What the workers do to the store: nothing, an intent, or an observation.
StoreStep ==
  \/ UNCHANGED storeVars
  \/ \E o \in Ops : RecordIntent(o)
  \/ \E o \in Ops, outcome \in Outcomes : Observe(o, outcome)

LEMMA FileStoreStep ==
  ASSUME FileView
  PROVE  StoreStep
<1> PICK o \in Ops : \/ Begin(o) \/ WorkerStep(o) \/ WorkerDies(o)
                      \/ ReconcileUpdate(o) \/ Attest(o)
  BY DEF FileView
<1> USE DEF StoreStep, Outcomes
<1>1. CASE Begin(o)
  BY <1>1 DEF Begin
<1>2. CASE \/ VerifyLease(o) \/ Read(o) \/ CreateExclusive(o) \/ CreateWrite(o)
           \/ OpenExclusive(o) \/ PreservePreimage(o) \/ FencedWrite(o) \/ WorkerDies(o)
  BY <1>2 DEF VerifyLease, Read, CreateExclusive, CreateWrite, OpenExclusive, PreservePreimage,
     FencedWrite, WorkerDies
<1>3. CASE Report(o)
  <2>1. Outcome(o) \in Outcomes
    BY <1>3 DEF Report, Outcome
  <2> QED BY <1>3, <2>1 DEF Report
<1>4. CASE ReconcileUpdate(o) \/ Attest(o)
  BY <1>4 DEF ReconcileUpdate, Attest
<1> QED
  BY <1>1, <1>2, <1>3, <1>4 DEF WorkerStep

LEMMA StoreStepTypes ==
  ASSUME TypeInv, EffectInv', StoreStep, UNCHANGED <<callVars, processVars>>
  PROVE  TypeInv'
<1>u. UNCHANGED <<callRow, caller>> /\ UNCHANGED <<journal, cancelFlag, supervisor, command>>
  BY DEF callVars, processVars
<1>w. (WorkerTypeOK /\ CallTypeOK)'
  BY <1>u DEF TypeInv, EffectInv, EffectTypeOK, WorkerTypeOK, CallTypeOK, PH!ProcessTypeOK
<1>e. opState' \in [Ops -> OpStates] /\ leaseState' \in [Ops -> LeaseStates]
  BY DEF EffectInv, EffectTypeOK
<1>1. CASE UNCHANGED storeVars
  <2>1. /\ UNCHANGED grantVars /\ UNCHANGED opVars /\ UNCHANGED limit /\ UNCHANGED taskVars
        /\ UNCHANGED proofVars /\ UNCHANGED phaseVars /\ UNCHANGED runVars /\ UNCHANGED hostVars
        /\ UNCHANGED policy
    BY <1>1 DEF storeVars
  <2>2. (GrantTypes /\ OpTypes /\ LimitTypes /\ TaskTypes /\ ProofTypes)'
    BY <2>1 DEF TypeInv, GrantTypes, OpTypes, LimitTypes, TaskTypes, ProofTypes, grantVars, opVars,
       taskVars, proofVars, phaseVars
  <2>3. (RunTypes /\ HostTypes /\ PolicyTypes)'
    BY <2>1 DEF TypeInv, RunTypes, HostTypes, PolicyTypes, runVars, hostVars
  <2>4. (TasksKnown /\ OpsKnown /\ HostsKnown /\ CallsKnown)'
    BY <2>1, <1>u DEF TypeInv, TasksKnown, OpsKnown, HostsKnown, CallsKnown, taskVars, opVars, hostVars
  <2> QED BY <2>2, <2>3, <2>4, <1>w DEF TypeInv
<1>2. ASSUME NEW o \in Ops, RecordIntent(o)
      PROVE  TypeInv'
  <2>1. (GrantTypes /\ LimitTypes /\ ProofTypes /\ RunTypes /\ PolicyTypes /\ HostTypes /\ CallsKnown)'
        /\ UNCHANGED hostVars
    BY <1>2, <1>u DEF RecordIntent, TypeInv, GrantTypes, LimitTypes, ProofTypes, RunTypes,
       PolicyTypes, HostTypes, CallsKnown, grantVars, proofVars, phaseVars, runVars, hostVars
  <2>2. TaskTypes' /\ KeepsTasks
    <3>1. OpTask(o) \in Tasks /\ taskStatus[OpTask(o)] # "ABSENT"
      BY <1>2, Constants DEF RecordIntent, TypeInv, OpsKnown
    <3> QED BY <1>2, <3>1 DEF RecordIntent, TypeInv, TaskTypes, TaskStatus, KeepsTasks
  <2>3. OpTypes' /\ \A p \in Ops : opState'[p] # "ABSENT" => opState[p] # "ABSENT"
    <3>1. Rows({o}) \subseteq intents /\ intents \subseteq Ops \X Nat
      BY DEF Rows, TypeInv, OpTypes
    <3>2. intents' \subseteq Ops \X Nat /\ IsFiniteSet(intents')
      <4>1. IsFiniteSet(Rows({o})) /\ IsFiniteSet(intents \cup {<<o, Used({o}) + 1>>})
        BY <3>1, FS_Subset, FS_AddElement DEF TypeInv, OpTypes
      <4>2. Used({o}) \in Nat
        BY <4>1, FS_CardinalityType DEF Used
      <4>3. intents' = intents \cup {<<o, Used({o}) + 1>>}
        BY <1>2 DEF RecordIntent
      <4>4. <<o, Used({o}) + 1>> \in Ops \X Nat
        BY <4>2
      <4> QED BY <3>1, <4>1, <4>3, <4>4
    <3>3. \A p \in Ops : opState'[p] # "ABSENT" => opState[p] # "ABSENT"
      BY <1>2 DEF RecordIntent, TypeInv, OpTypes
    <3> QED BY <1>2, <1>e, <3>2, <3>3 DEF RecordIntent, TypeInv, OpTypes
  <2>4. (TasksKnown /\ OpsKnown /\ HostsKnown)'
    BY <1>2, <2>1, <2>2, <2>3, KnownStay DEF RecordIntent, hostVars
  <2> QED BY <2>1, <2>2, <2>3, <2>4, <1>w DEF TypeInv
<1>3. ASSUME NEW o \in Ops, NEW outcome \in Outcomes, Observe(o, outcome)
      PROVE  TypeInv'
  <2> DEFINE t == OpTask(o)
  <2>1. t \in Tasks /\ taskStatus[t] # "ABSENT"
    BY <1>3, Constants DEF Observe, OpPending, TypeInv, OpsKnown
  <2>2. Reconcile(t, runState, FALSE) /\ runState \in [Runs -> RunStates]
    BY <1>3 DEF Observe, TypeInv, RunTypes
  <2>3. UNCHANGED <<grantVars, opRev, intents, limit, taskRev, deps, evid,
                 phaseVars, runRev, runCkpt, hostRev, cancelWanted, hostSource,
                 fresh, policy>> /\ UNCHANGED <<hostState, quiesced, launched>>
    BY <1>3 DEF Observe
  <2>4. (GrantTypes /\ LimitTypes /\ PolicyTypes /\ HostTypes /\ CallsKnown)'
    BY <2>3, <1>u DEF TypeInv, GrantTypes, LimitTypes, PolicyTypes, HostTypes, CallsKnown, grantVars
  <2>5. (TaskTypes /\ ProofTypes /\ RunTypes)' /\ KeepsTasks
    <3> HIDE DEF t
    <3>1. /\ taskStatus' \in [Tasks -> TaskStatus]
          /\ marker' \in [Tasks -> {"NONE"} \cup Resumable]
          /\ pauseWanted' \in [Tasks -> BOOLEAN]
          /\ accepted' \in SUBSET (Tasks \X Revisions)
          /\ runState' \in [Runs -> RunStates]
          /\ runResume' \in [Runs -> {"RUNNING", "VERIFYING"}]
          /\ KeepsTasks
      BY <2>1, <2>2, ReconcileTypes DEF KeepsTasks
    <3> QED BY <3>1, <2>3 DEF TypeInv, TaskTypes, ProofTypes, RunTypes, phaseVars
  <2>6. OpTypes' /\ \A p \in Ops : opState'[p] # "ABSENT" => opState[p] # "ABSENT"
    <3>1. opState[o] # "ABSENT" /\ \A p \in Ops \ {o} : opState'[p] = opState[p]
      BY <1>3 DEF Observe, OpPending, TypeInv, OpTypes
    <3>2. OpTypes'
      BY <2>3, <1>e DEF TypeInv, OpTypes
    <3> QED BY <3>1, <3>2
  <2>7. (TasksKnown /\ OpsKnown /\ HostsKnown)'
    BY <2>3, <2>5, <2>6, KnownStay
  <2> QED BY <2>4, <2>5, <2>6, <2>7, <1>w DEF TypeInv
<1> QED
  BY <1>1, <1>2, <1>3 DEF StoreStep

LEMMA DispatchTypes ==
  ASSUME TypeInv, UNCHANGED <<worker, effect, preimage>>,
         \/ \E terms \in PolicyTerms : ConfigurePolicy(terms) \/ AmendPolicy(terms)
         \/ ExpirePolicy \/ RevokePolicy
         \/ \E d \in Dispatches : \/ CancelBeforeLaunch(d)
                                  \/ \E source \in Runs \cup {NoHost} : PrepareDispatch(d, source)
  PROVE  TypeInv'
<1>w. WorkerTypeOK'
  BY DEF TypeInv, WorkerTypeOK
<1>v. ASSUME UNCHANGED <<callVars, processVars, opVars, limit, taskVars, proofVars, phaseVars, runVars>>,
             UNCHANGED launched,
             \A d \in Dispatches : hostState[d] # "ABSENT" => hostState'[d] # "ABSENT",
             \A d \in Dispatches : hostState'[d] # "ABSENT" =>
               hostState[d] # "ABSENT" \/ taskStatus[DispatchTask[d]] # "ABSENT"
      PROVE  (/\ OpTypes /\ LimitTypes /\ TaskTypes /\ ProofTypes /\ RunTypes /\ CallTypeOK
              /\ TasksKnown /\ OpsKnown /\ HostsKnown /\ CallsKnown)'
  <2>1. (OpTypes /\ LimitTypes /\ TaskTypes /\ ProofTypes /\ RunTypes /\ CallTypeOK)'
    BY <1>v DEF TypeInv, OpTypes, LimitTypes, TaskTypes, ProofTypes, RunTypes, CallTypeOK,
       PH!ProcessTypeOK, callVars, processVars, opVars, taskVars, proofVars, phaseVars, runVars
  <2>2. (TasksKnown /\ OpsKnown /\ HostsKnown /\ CallsKnown)'
    BY <1>v DEF TypeInv, TasksKnown, OpsKnown, HostsKnown, CallsKnown, callVars, opVars, taskVars
  <2> QED BY <2>1, <2>2
<1>p. ASSUME NEW terms \in PolicyTerms
      PROVE  Approve(terms) \in PolicyRecords
  BY CallsAssumption DEF Approve, PolicyRecords
<1>1. ASSUME NEW terms \in PolicyTerms, ConfigurePolicy(terms) \/ AmendPolicy(terms)
      PROVE  TypeInv'
  <2>1. PolicyStep /\ policy' = Approve(terms) /\ UNCHANGED <<grantState, hostState, cancelWanted>>
    BY <1>1 DEF ConfigurePolicy, AmendPolicy
  <2>2. (GrantTypes /\ HostTypes /\ PolicyTypes)'
    BY <1>1, <2>1, <1>p DEF ConfigurePolicy, AmendPolicy, PolicyStep, TypeInv, GrantTypes, HostTypes,
       PolicyTypes
  <2> QED BY <2>1, <2>2, <1>v, <1>w DEF PolicyStep, TypeInv
<1>2. CASE ExpirePolicy
  <2>1. PolicyStep /\ UNCHANGED <<grantState, hostState, cancelWanted, fresh>>
    BY <1>2 DEF ExpirePolicy
  <2>2. (GrantTypes /\ HostTypes /\ PolicyTypes)'
    BY <1>2, <2>1 DEF ExpirePolicy, PolicyStep, TypeInv, GrantTypes, HostTypes, PolicyTypes, PolicyRecords
  <2> QED BY <2>1, <2>2, <1>v, <1>w DEF PolicyStep, TypeInv
<1>3. CASE RevokePolicy
  <2>1. PolicyStep
    BY <1>3 DEF RevokePolicy
  <2>2. (GrantTypes /\ PolicyTypes)'
    BY <1>3, <2>1 DEF RevokePolicy, RevokeGrants, PolicyStep, TypeInv, GrantTypes, GrantStates,
       PolicyTypes, PolicyRecords
  <2>3. cancelWanted' \in [Dispatches -> BOOLEAN]
    <3> DEFINE W(d) == cancelWanted[d] \/ HostPending(d)
    <3>1. cancelWanted' = [d \in Dispatches |-> W(d)]
      BY <1>3 DEF RevokePolicy
    <3>2. \A d \in Dispatches : W(d) \in BOOLEAN
      OBVIOUS
    <3> HIDE DEF W
    <3> QED BY <3>1, <3>2
  <2>4. /\ hostState' \in [Dispatches -> HostStates]
        /\ \A d \in Dispatches : hostState[d] # "ABSENT" <=> hostState'[d] # "ABSENT"
    BY <1>3 DEF RevokePolicy, TypeInv, HostTypes, HostStates
  <2>5. HostTypes'
    BY <1>3, <2>1, <2>3, <2>4 DEF RevokePolicy, PolicyStep, TypeInv, HostTypes
  <2> QED BY <2>1, <2>2, <2>4, <2>5, <1>v, <1>w DEF PolicyStep, TypeInv
<1>4. ASSUME NEW d \in Dispatches, CancelBeforeLaunch(d)
      PROVE  TypeInv'
  <2>1. (GrantTypes /\ PolicyTypes)'
    BY <1>4 DEF CancelBeforeLaunch, RevokeGrants, TypeInv, GrantTypes, GrantStates, PolicyTypes
  <2>2. HostTypes'
    BY <1>4 DEF CancelBeforeLaunch, TypeInv, HostTypes, HostStates
  <2>3. \A x \in Dispatches : hostState[x] # "ABSENT" <=> hostState'[x] # "ABSENT"
    BY <1>4 DEF CancelBeforeLaunch, TypeInv, HostTypes
  <2> QED BY <1>4, <2>1, <2>2, <2>3, <1>v, <1>w DEF CancelBeforeLaunch, TypeInv
<1>5. ASSUME NEW d \in Dispatches, NEW source \in Runs \cup {NoHost}, PrepareDispatch(d, source)
      PROVE  TypeInv'
  <2>1. (GrantTypes /\ PolicyTypes)'
    BY <1>5 DEF PrepareDispatch, TypeInv, GrantTypes, PolicyTypes, grantVars
  <2>2. HostTypes'
    BY <1>5, Constants DEF PrepareDispatch, TypeInv, TaskTypes, HostTypes, HostStates
  <2>3. \A x \in Dispatches : /\ hostState[x] # "ABSENT" => hostState'[x] # "ABSENT"
                              /\ hostState'[x] # "ABSENT" =>
                                   hostState[x] # "ABSENT" \/ taskStatus[DispatchTask[x]] # "ABSENT"
    BY <1>5 DEF PrepareDispatch, TypeInv, HostTypes
  <2> QED BY <1>5, <2>1, <2>2, <2>3, <1>v, <1>w DEF PrepareDispatch, TypeInv
<1> QED
  BY <1>1, <1>2, <1>3, <1>4, <1>5

LEMMA CallTypes ==
  ASSUME TypeInv, UNCHANGED <<worker, effect, preimage>>, NEW c \in Calls,
         \/ Launch(c) \/ Poll(c) \/ Cancel(c) \/ CallStart(c) \/ CallCancel(c) \/ Ask(c)
         \/ Regressed(c) \/ CallRaises(c) \/ CallerDies(c)
  PROVE  TypeInv'
<1> DEFINE d == CallDispatch[c]
<1>d. d \in Dispatches /\ DispatchTask[d] \in Tasks
  BY Constants
<1>w. WorkerTypeOK'
  BY DEF TypeInv, WorkerTypeOK
<1>s. ASSUME UNCHANGED storeVars
      PROVE  (/\ GrantTypes /\ OpTypes /\ LimitTypes /\ TaskTypes /\ ProofTypes /\ RunTypes
              /\ HostTypes /\ PolicyTypes /\ TasksKnown /\ OpsKnown /\ HostsKnown)'
             /\ UNCHANGED launched
  <2>1. /\ UNCHANGED grantVars /\ UNCHANGED opVars /\ UNCHANGED limit /\ UNCHANGED taskVars
        /\ UNCHANGED proofVars /\ UNCHANGED phaseVars /\ UNCHANGED runVars /\ UNCHANGED hostVars
        /\ UNCHANGED policy
    BY <1>s DEF storeVars
  <2>2. (GrantTypes /\ OpTypes /\ LimitTypes /\ TaskTypes /\ ProofTypes)'
    BY <2>1 DEF TypeInv, GrantTypes, OpTypes, LimitTypes, TaskTypes, ProofTypes, grantVars, opVars,
       taskVars, proofVars, phaseVars
  <2>3. (RunTypes /\ HostTypes /\ PolicyTypes)'
    BY <2>1 DEF TypeInv, RunTypes, HostTypes, PolicyTypes, runVars, hostVars
  <2>4. (TasksKnown /\ OpsKnown /\ HostsKnown)' /\ UNCHANGED launched
    BY <2>1 DEF TypeInv, TasksKnown, OpsKnown, HostsKnown, taskVars, opVars, hostVars
  <2> QED BY <2>2, <2>3, <2>4
<1>a. ASSUME Admitted(c), launched'[d], \A x \in Dispatches : launched[x] => launched'[x],
             UNCHANGED processVars
      PROVE  (CallTypeOK /\ CallsKnown)'
  <2>1. CallTypeOK'
    BY <1>a DEF Admitted, Goto, processVars, TypeInv, CallTypeOK, CallerStates, PH!ProcessTypeOK
  <2>2. CallsKnown'
    BY <1>a, Constants DEF Admitted, Goto, TypeInv, CallTypeOK, CallsKnown
  <2> QED BY <2>1, <2>2
<1>g. ASSUME NEW s \in CallerStates \ {"IDLE"}, Goto(c, s), callRow[c] # "ABSENT",
             UNCHANGED <<callRow, launched>>
      PROVE  /\ caller' \in [Calls -> CallerStates]
             /\ callRow' \in [Calls -> {"ABSENT", "INTENT_COMMITTED", "OBSERVED", "UNKNOWN"}]
             /\ CallsKnown'
  BY <1>g DEF Goto, TypeInv, CallTypeOK, CallsKnown
<1>1. CASE Launch(c)
  <2>0. d \in Dispatches /\ taskStatus[DispatchTask[d]] # "ABSENT" /\ hostState[d] = "PREPARED"
    BY <1>1, <1>d DEF Launch, TypeInv, HostsKnown
  <2>1. (GrantTypes /\ OpTypes /\ LimitTypes /\ ProofTypes /\ PolicyTypes)'
    BY <1>1 DEF Launch, TypeInv, GrantTypes, OpTypes, LimitTypes, ProofTypes, PolicyTypes, grantVars,
       opVars, proofVars, phaseVars
  <2>2. TaskTypes' /\ KeepsTasks
    BY <1>1, <2>0 DEF Launch, TypeInv, TaskTypes, TaskStatus, KeepsTasks
  <2>3. RunTypes'
    <3>1. runState' \in [Runs -> RunStates]
      BY <1>1 DEF Launch, RunsAtLaunch, TypeInv, RunTypes, RunStates
    <3>2. runRev' \in [Runs -> 0..MaxRev]
      BY <1>1, <1>d DEF Launch, TypeInv, RunTypes, HostTypes
    <3>3. runCkpt' \in [Runs -> {"NONE", "CLEAN", "PENDING"}]
      BY <1>1 DEF Launch, TypeInv, RunTypes
    <3> QED BY <1>1, <3>1, <3>2, <3>3 DEF Launch, TypeInv, RunTypes
  <2>4. HostTypes'
    BY <1>1, <1>d DEF Launch, TypeInv, HostTypes, HostStates
  <2>5. /\ launched'[d] /\ \A x \in Dispatches : launched[x] => launched'[x]
        /\ \A x \in Dispatches : launched'[x] => hostState'[x] # "ABSENT"
        /\ \A x \in Dispatches : hostState'[x] # "ABSENT" => hostState[x] # "ABSENT"
    BY <1>1, <1>d DEF Launch, TypeInv, HostTypes, HostsKnown
  <2>6. Admitted(c) /\ UNCHANGED <<taskRev, opState, processVars>>
    BY <1>1 DEF Launch, opVars
  <2>7. (TasksKnown /\ OpsKnown /\ HostsKnown)'
    BY <2>2, <2>5, <2>6, Constants DEF KeepsTasks, TypeInv, TasksKnown, OpsKnown, HostsKnown
  <2> QED BY <2>1, <2>2, <2>3, <2>4, <2>5, <2>6, <2>7, <1>a, <1>w DEF TypeInv
<1>2. CASE Poll(c)
  BY <1>2, <1>s, <1>a, <1>w DEF Poll, TypeInv
<1>3. CASE Cancel(c)
  <2>1. (OpTypes /\ LimitTypes /\ TaskTypes /\ ProofTypes /\ RunTypes /\ PolicyTypes)'
    BY <1>3 DEF Cancel, TypeInv, OpTypes, LimitTypes, TaskTypes, ProofTypes, RunTypes, PolicyTypes,
       opVars, taskVars, proofVars, phaseVars, runVars
  <2>2. GrantTypes'
    BY <1>3 DEF Cancel, RevokeGrants, TypeInv, GrantTypes, GrantStates
  <2>3. HostTypes'
    BY <1>3 DEF Cancel, TypeInv, HostTypes, HostStates
  <2>4. \A x \in Dispatches : hostState'[x] # "ABSENT" <=> hostState[x] # "ABSENT"
    BY <1>3, <1>d DEF Cancel, HostPending, TypeInv, HostTypes, HostsKnown
  <2>5. UNCHANGED <<taskStatus, taskRev, opState, launched, processVars>> /\ Admitted(c) /\ launched[d]
    BY <1>3 DEF Cancel, taskVars, opVars, HostPending
  <2>6. (TasksKnown /\ OpsKnown /\ HostsKnown)'
    BY <2>4, <2>5, KnownStay DEF KeepsTasks
  <2> QED BY <2>1, <2>2, <2>3, <2>5, <2>6, <1>a, <1>w DEF TypeInv
<1>4. CASE CallStart(c) \/ CallCancel(c)
  <2>1. UNCHANGED <<storeVars, callRow>>
        /\ \E s \in {"ADMITTED", "ASKING"} : Goto(c, s)
        /\ (PH!Admit(d) \/ PH!Spawn(d) \/ PH!FlagCancel(d))
        /\ callRow[c] # "ABSENT"
    BY <1>4 DEF CallStart, CallCancel, TypeInv, CallsKnown
  <2>2. PH!ProcessTypeOK'
    <3>1. PH!ProcessTypeOK
      BY DEF TypeInv, CallTypeOK
    <3>2. cancelFlag' \in [Dispatches -> BOOLEAN]
      BY <2>1, <3>1 DEF PH!ProcessTypeOK, PH!Admit, PH!Spawn, PH!FlagCancel
    <3> QED BY <2>1, <3>1, <3>2 DEF PH!ProcessTypeOK, PH!Admit, PH!Spawn, PH!FlagCancel, PH!Write,
               PH!Go, PH!SupervisorStates
  <2>3. UNCHANGED launched
    BY <2>1, <1>s
  <2>4. (CallTypeOK /\ CallsKnown)'
    BY <2>1, <2>2, <2>3, <1>g DEF CallTypeOK, CallerStates
  <2> QED BY <2>1, <2>4, <1>s, <1>w DEF TypeInv
<1>5. CASE Ask(c) \/ Regressed(c) \/ CallRaises(c) \/ CallerDies(c)
  <2>1. UNCHANGED <<storeVars, callRow, processVars>> /\ callRow[c] # "ABSENT"
        /\ \E s \in CallerStates \ {"IDLE"} : Goto(c, s)
    <3>1. CASE Ask(c)
      <4> DEFINE s == CASE PH!QueryAnswer(CallDispatch[c]) = "RUNNING" -> "GOT_RUNNING"
                        [] PH!QueryAnswer(CallDispatch[c]) = "EXITED" -> "GOT_EXITED"
                        [] OTHER -> "GOT_UNKNOWN"
      <4>1. s \in CallerStates \ {"IDLE"}
        BY DEF CallerStates
      <4>2. Goto(c, s) /\ UNCHANGED <<storeVars, callRow, processVars>>
        BY <3>1 DEF Ask
      <4>3. callRow[c] # "ABSENT"
        BY <3>1 DEF Ask, TypeInv, CallsKnown
      <4> HIDE DEF s
      <4> QED BY <4>1, <4>2, <4>3
    <3>2. CASE Regressed(c)
      BY <3>2 DEF Regressed, Answered, TypeInv, CallsKnown, CallerStates
    <3>3. CASE CallRaises(c)
      BY <3>3 DEF CallRaises, TypeInv, CallsKnown, CallerStates
    <3>4. CASE CallerDies(c)
      BY <3>4 DEF CallerDies, TypeInv, CallsKnown, CallerStates
    <3> QED BY <1>5, <3>1, <3>2, <3>3, <3>4
  <2>2. PH!ProcessTypeOK' /\ UNCHANGED launched
    BY <2>1, <1>s DEF processVars, TypeInv, CallTypeOK, PH!ProcessTypeOK
  <2>3. (CallTypeOK /\ CallsKnown)'
    BY <2>1, <2>2, <1>g DEF CallTypeOK
  <2> QED BY <2>1, <2>3, <1>s, <1>w DEF TypeInv
<1> QED
  BY <1>1, <1>2, <1>3, <1>4, <1>5

LEMMA GotTypes ==
  ASSUME NEW c \in Calls, Answered(c)
  PROVE  /\ Got(c).state \in {"RUNNING", "EXITED", "UNKNOWN"}
         /\ Got(c).quiesced \in {"NO", "YES", "NULL"}
         /\ Got(c).quiesced = "YES" <=> Got(c).state = "EXITED"
         /\ Got(c).quiesced = "YES" <=> caller[c] = "GOT_EXITED"
         /\ Got(c).state = "UNKNOWN" <=> caller[c] = "GOT_UNKNOWN"
<1>1. CASE caller[c] = "GOT_RUNNING"
  <2>1. Got(c) = [state |-> "RUNNING", quiesced |-> "NO"]
    BY <1>1 DEF Got
  <2> QED BY <1>1, <2>1
<1>2. CASE caller[c] = "GOT_EXITED"
  <2>1. Got(c) = [state |-> "EXITED", quiesced |-> "YES"]
    BY <1>2 DEF Got
  <2> QED BY <1>2, <2>1
<1>3. CASE caller[c] = "GOT_UNKNOWN"
  <2>1. Got(c) = [state |-> "UNKNOWN", quiesced |-> "NULL"]
    BY <1>3 DEF Got
  <2> QED BY <1>3, <2>1
<1> QED BY <1>1, <1>2, <1>3 DEF Answered

LEMMA AnswerTypes ==
  ASSUME TypeInv, EffectInv', UNCHANGED <<worker, effect, preimage>>, NEW c \in Calls,
         ObserveHost(c) \/ CallUncertain(c)
  PROVE  TypeInv'
<1> DEFINE d == CallDispatch[c]
           t == DispatchTask[d]
<1>d. d \in Dispatches /\ t \in Tasks
  BY Constants
<1>w. WorkerTypeOK'
  BY DEF TypeInv, WorkerTypeOK
<1>k. caller[c] # "IDLE" /\ callRow[c] # "ABSENT" /\ launched[d] /\ hostState[d] # "ABSENT"
      /\ taskStatus[t] # "ABSENT"
  BY <1>d DEF ObserveHost, CallUncertain, Answered, TypeInv, CallsKnown, HostsKnown
<1>c. UNCHANGED <<processVars, launched>> => (CallTypeOK /\ CallsKnown)'
  <2> SUFFICES ASSUME UNCHANGED <<processVars, launched>> PROVE (CallTypeOK /\ CallsKnown)'
    OBVIOUS
  <2>1. Goto(c, "DONE") /\ (\/ callRow' = [callRow EXCEPT ![c] = "OBSERVED"]
                            \/ callRow' = [callRow EXCEPT ![c] = "UNKNOWN"])
    BY DEF ObserveHost, CallUncertain
  <2>2. CallTypeOK'
    BY <2>1 DEF Goto, processVars, TypeInv, CallTypeOK, CallerStates, PH!ProcessTypeOK
  <2>3. CallsKnown'
    BY <2>1, <1>k DEF Goto, TypeInv, CallTypeOK, CallsKnown
  <2> QED BY <2>2, <2>3
\* What the task and its Runs become, reconciled or not.
<1>r. ASSUME NEW runs \in [Runs -> RunStates], NEW released \in BOOLEAN,
             \/ Reconcile(t, runs, released)
             \/ runState' = runs /\ UNCHANGED <<taskStatus, marker, pauseWanted, accepted, runResume>>,
             UNCHANGED <<taskRev, deps, evid, phaseVars, runRev, runCkpt>>
      PROVE  (TaskTypes /\ ProofTypes /\ RunTypes)' /\ KeepsTasks
  <2> HIDE DEF t
  <2>1. /\ taskStatus' \in [Tasks -> TaskStatus]
        /\ marker' \in [Tasks -> {"NONE"} \cup Resumable]
        /\ pauseWanted' \in [Tasks -> BOOLEAN]
        /\ accepted' \in SUBSET (Tasks \X Revisions)
        /\ runState' \in [Runs -> RunStates]
        /\ runResume' \in [Runs -> {"RUNNING", "VERIFYING"}]
        /\ KeepsTasks
    <3>1. CASE Reconcile(t, runs, released)
      BY <3>1, <1>d, <1>k, ReconcileTypes DEF KeepsTasks
    <3>2. CASE runState' = runs /\ UNCHANGED <<taskStatus, marker, pauseWanted, accepted, runResume>>
      BY <3>2 DEF KeepsTasks, TypeInv, TaskTypes, ProofTypes, RunTypes
    <3> QED BY <1>r, <3>1, <3>2
  <2> QED BY <2>1, <1>r DEF TypeInv, TaskTypes, ProofTypes, RunTypes, phaseVars
<1>1. CASE ObserveHost(c)
  <2> DEFINE ended == Got(c).quiesced = "YES"
             runs == IF ended THEN RunsAfterEnd(d) ELSE runState
             released == ended /\ quiesced[d] # "YES"
  <2>0. Answered(c)
    BY <1>1 DEF ObserveHost
  <2>1. runs \in [Runs -> RunStates]
    BY DEF RunsAfterEnd, TypeInv, RunTypes, RunStates
  <2>2. released \in BOOLEAN
    OBVIOUS
  <2>3. /\ \/ Reconcile(t, runs, released)
           \/ runState' = runs /\ UNCHANGED <<taskStatus, marker, pauseWanted, accepted, runResume>>
        /\ UNCHANGED <<taskRev, deps, evid, phaseVars, runRev, runCkpt>>
    BY <1>1 DEF ObserveHost
  <2>4. (TaskTypes /\ ProofTypes /\ RunTypes)' /\ KeepsTasks
    <3> HIDE DEF runs, released
    <3> QED BY <2>1, <2>2, <2>3, <1>r
  <2>5. (LimitTypes /\ PolicyTypes)' /\ UNCHANGED <<taskRev, processVars, launched>>
    BY <1>1 DEF ObserveHost, TypeInv, LimitTypes, PolicyTypes
  <2>6. GrantTypes'
    BY <1>1 DEF ObserveHost, RevokeGrants, TypeInv, GrantTypes, GrantStates
  <2>7. OpTypes' /\ \A o \in Ops : opState'[o] # "ABSENT" => opState[o] # "ABSENT"
    <3>1. opState' \in [Ops -> OpStates] /\ leaseState' \in [Ops -> LeaseStates]
      BY DEF EffectInv, EffectTypeOK
    <3>2. OpTypes'
      BY <1>1, <3>1 DEF ObserveHost, TypeInv, OpTypes
    <3>3. \A o \in Ops : opState'[o] # "ABSENT" => opState[o] # "ABSENT"
      BY <1>1 DEF ObserveHost, Orphans
    <3> QED BY <3>2, <3>3
  <2>8. HostTypes' /\ \A x \in Dispatches : hostState'[x] # "ABSENT" <=> hostState[x] # "ABSENT"
    <3> DEFINE s == IF Got(c).state = "RUNNING" /\ cancelWanted[d] THEN "CANCEL_REQUESTED"
                    ELSE Got(c).state
    <3>1. s \in HostStates \ {"ABSENT"} /\ Got(c).quiesced \in {"NULL", "NO", "YES"}
      BY <2>0, GotTypes DEF HostStates
    <3>2. hostState' = [hostState EXCEPT ![d] = s] /\ quiesced' = [quiesced EXCEPT ![d] = Got(c).quiesced]
          /\ UNCHANGED <<hostRev, launched, cancelWanted, hostSource, fresh>>
      BY <1>1 DEF ObserveHost
    <3> HIDE DEF s
    <3> QED BY <3>1, <3>2, <1>k DEF TypeInv, HostTypes
  <2>9. (TasksKnown /\ OpsKnown /\ HostsKnown)'
    BY <2>4, <2>5, <2>7, <2>8, KnownStay
  <2> QED BY <2>4, <2>5, <2>6, <2>7, <2>8, <2>9, <1>c, <1>w DEF TypeInv
<1>2. CASE CallUncertain(c)
  <2>1. /\ \/ Reconcile(t, runState, FALSE)
           \/ UNCHANGED <<taskStatus, marker, pauseWanted, accepted, runState, runResume>>
        /\ UNCHANGED <<taskRev, deps, evid, phaseVars, runRev, runCkpt>>
    BY <1>2 DEF CallUncertain
  <2>2. (TaskTypes /\ ProofTypes /\ RunTypes)' /\ KeepsTasks
    <3>1. runState \in [Runs -> RunStates]
      BY DEF TypeInv, RunTypes
    <3> QED BY <2>1, <3>1, <1>r
  <2>3. (GrantTypes /\ OpTypes /\ LimitTypes /\ PolicyTypes)'
        /\ UNCHANGED <<taskRev, opState, processVars, launched>>
    BY <1>2 DEF CallUncertain, TypeInv, GrantTypes, OpTypes, LimitTypes, PolicyTypes, grantVars
  <2>4. HostTypes' /\ \A x \in Dispatches : hostState'[x] # "ABSENT" <=> hostState[x] # "ABSENT"
    BY <1>2, <1>k DEF CallUncertain, TypeInv, HostTypes, HostStates
  <2>5. (TasksKnown /\ OpsKnown /\ HostsKnown)'
    BY <2>2, <2>3, <2>4, KnownStay
  <2> QED BY <2>2, <2>3, <2>4, <2>5, <1>c, <1>w DEF TypeInv
<1> QED
  BY <1>1, <1>2

LEMMA ProcessTypes ==
  ASSUME TypeInv, EffectInv', NEW d \in Dispatches, ProcessStep(d)
  PROVE  TypeInv'
<1>1. UNCHANGED <<storeVars, callRow, caller>> /\ PH!ProcessNext(d)
  BY DEF ProcessStep, callVars
<1>2. /\ UNCHANGED grantVars /\ UNCHANGED opVars /\ UNCHANGED limit /\ UNCHANGED taskVars
      /\ UNCHANGED proofVars /\ UNCHANGED phaseVars /\ UNCHANGED runVars /\ UNCHANGED hostVars
      /\ UNCHANGED policy
  BY <1>1 DEF storeVars
<1>3. (GrantTypes /\ OpTypes /\ LimitTypes /\ TaskTypes /\ ProofTypes)'
  BY <1>2 DEF TypeInv, GrantTypes, OpTypes, LimitTypes, TaskTypes, ProofTypes, grantVars, opVars,
     taskVars, proofVars, phaseVars
<1>4. (RunTypes /\ HostTypes /\ PolicyTypes)'
  BY <1>2 DEF TypeInv, RunTypes, HostTypes, PolicyTypes, runVars, hostVars
<1>5. (TasksKnown /\ OpsKnown /\ HostsKnown /\ CallsKnown)'
  BY <1>1, <1>2 DEF TypeInv, TasksKnown, OpsKnown, HostsKnown, CallsKnown, taskVars, opVars, hostVars
<1>6. WorkerTypeOK'
  BY DEF EffectInv, EffectTypeOK, WorkerTypeOK
<1>7. PH!ProcessTypeOK'
  <2>1. PH!ProcessTypeOK
    BY DEF TypeInv, CallTypeOK
  <2>2. supervisor' \in [Dispatches -> PH!SupervisorStates]
    BY <1>1, <2>1 DEF PH!ProcessNext, PH!SupervisorStep, PH!Claim, PH!NotStarted, PH!Launch,
       PH!RecordRunning, PH!Terminate, PH!RecordExit, PH!CloseJob, PH!CommandEnds, PH!LaunchFails,
       PH!SupervisorFails, PH!SupervisorDies, PH!Go, PH!ProcessTypeOK, PH!SupervisorStates
  <2>3. command' \in [Dispatches -> {"NONE", "LIVE", "ENDED"}]
    BY <1>1, <2>1 DEF PH!ProcessNext, PH!SupervisorStep, PH!Claim, PH!NotStarted, PH!Launch,
       PH!RecordRunning, PH!Terminate, PH!RecordExit, PH!CloseJob, PH!CommandEnds, PH!LaunchFails,
       PH!SupervisorFails, PH!SupervisorDies, PH!KillJob, PH!ProcessTypeOK
  <2>4. journal' \in [Dispatches -> {"NONE", "ADMITTED", "STARTING", "RUNNING", "EXITED", "UNKNOWN"}]
        /\ cancelFlag' \in [Dispatches -> BOOLEAN]
    BY <1>1, <2>1 DEF PH!ProcessNext, PH!SupervisorStep, PH!Claim, PH!NotStarted, PH!Launch,
       PH!RecordRunning, PH!Terminate, PH!RecordExit, PH!CloseJob, PH!CommandEnds, PH!LaunchFails,
       PH!SupervisorFails, PH!SupervisorDies, PH!Write, PH!ProcessTypeOK
  <2> QED BY <2>2, <2>3, <2>4 DEF PH!ProcessTypeOK
<1>8. CallTypeOK'
  BY <1>1, <1>7 DEF TypeInv, CallTypeOK
<1> QED BY <1>3, <1>4, <1>5, <1>6, <1>8 DEF TypeInv

LEMMA TypeStep ==
  ASSUME TypeInv, EffectInv', [Next]_vars
  PROVE  TypeInv'
<1>1. CASE OperationNext /\ UNCHANGED <<workerVars, callVars, processVars>>
  BY <1>1, OperationTypes
<1>2. CASE LifecycleNext /\ UNCHANGED <<workerVars, callVars, processVars>>
  BY <1>2, DefinitionTypes, RunTypesKept, ProofTypesKept DEF LifecycleNext
<1>3. CASE FileStep
  BY <1>3, FileStoreStep, StoreStepTypes DEF FileStep, FileView
<1>4. CASE HostNext /\ UNCHANGED workerVars
  BY <1>4, DispatchTypes, CallTypes, AnswerTypes DEF HostNext, CallStep, workerVars
<1>5. CASE \E d \in Dispatches : ProcessStep(d)
  BY <1>5, ProcessTypes
<1>6. CASE UNCHANGED vars
  <2>1. UNCHANGED storeVars /\ UNCHANGED <<callVars, processVars>>
    BY <1>6 DEF vars
  <2> QED BY <2>1, StoreStepTypes DEF StoreStep
<1> QED BY <1>1, <1>2, <1>3, <1>4, <1>5, <1>6 DEF Next

LEMMA TypeInvariance == Spec => []TypeInv
<1>1. TypeInv /\ EffectInv' /\ [Next]_vars => TypeInv'
  BY TypeStep
<1> QED
  BY TypeInvInit, EffectInvariance, <1>1, PTL DEF Spec

\* Every handler leaves every row of the control tables, every worker, every
\* call and every supervised process in one of its states (state_store schema).
THEOREM TypeOKHolds == Spec => []TypeOK
<1>1. TypeInv => TypeOK
  BY DEF TypeInv, TypeOK, StoreTypeOK, GrantTypes, OpTypes, LimitTypes, TaskTypes, ProofTypes,
     RunTypes, HostTypes, PolicyTypes
<1> QED
  BY TypeInvariance, <1>1, PTL

-----------------------------------------------------------------------------
(* Operation budgets. *)

\* Only an admitted intent spends, and only the budget calls change a limit.
SpendingStep ==
  \/ UNCHANGED <<intents, limit>>
  \/ \E o \in Ops : RecordIntent(o)
  \/ \E w \in BudgetOwners, n \in Budgets :
       Used(OpsOfOwner(w)) <= n /\ limit' = [limit EXCEPT ![w] = n] /\ UNCHANGED intents

LEMMA StepSpends ==
  ASSUME [Next]_vars
  PROVE  SpendingStep
<1>1. CASE OperationNext
  BY <1>1 DEF OperationNext, RecordGrant, RevokeGrant, ExpireGrant, ConfigureBudget, AmendBudget,
     SetBudget, Prepare, CancelPrepared, ExpireLease, opVars, SpendingStep
<1>2. CASE LifecycleNext
  <2>1. ASSUME NEW t \in Tasks,
               \/ \E ds \in SUBSET KnownEdges : CreateTask(t, ds) \/ ReviseTask(t, ds)
               \/ \E e \in KnownEdges : AddDependency(t, e)
               \/ CancelTask(t) \/ BindTask(t)
        PROVE  SpendingStep
    BY <2>1 DEF CreateTask, ReviseTask, AddDependency, CancelTask, BindTask, EffectsUnchanged, opVars,
       SpendingStep
  <2>2. ASSUME NEW t \in Tasks,
               \/ BeginVerification(t) \/ Rework(t) \/ Accept(t)
               \/ \E result \in {"PASS", "FAIL"} : RecordEvidence(t, result)
               \/ \E r \in Revisions : Invalidate(t, r)
        PROVE  SpendingStep
    BY <2>2 DEF BeginVerification, Rework, Accept, RecordEvidence, Invalidate, EffectsUnchanged,
       ProofStep, opVars, SpendingStep
  <2>3. ASSUME NEW r \in Runs, OpenRun(r) \/ PauseRun(r) \/ RebuildCheckpoint(r) \/ ResumeRun(r)
        PROVE  SpendingStep
    BY <2>3 DEF OpenRun, PauseRun, RebuildCheckpoint, ResumeRun, RunStep, opVars, SpendingStep
  <2>4. CASE SetPhaseActive
    BY <2>4 DEF SetPhaseActive, EffectsUnchanged, opVars, SpendingStep
  <2> QED BY <1>2, <2>1, <2>2, <2>3, <2>4 DEF LifecycleNext
<1>3. CASE FileStep
  <2>1. StoreStep
    BY <1>3, FileStoreStep DEF FileStep, FileView
  <2>2. CASE UNCHANGED storeVars
    BY <2>2 DEF storeVars, opVars, SpendingStep
  <2>3. CASE \E o \in Ops : RecordIntent(o)
    BY <2>3 DEF SpendingStep
  <2>4. CASE \E o \in Ops, outcome \in Outcomes : Observe(o, outcome)
    BY <2>4 DEF Observe, SpendingStep
  <2> QED BY <2>1, <2>2, <2>3, <2>4 DEF StoreStep
<1>4. CASE HostNext
  <2>1. UNCHANGED <<intents, limit>>
    BY <1>4 DEF HostNext, ConfigurePolicy, AmendPolicy, ExpirePolicy, RevokePolicy, PolicyStep,
       CancelBeforeLaunch, PrepareDispatch, Launch, Poll, Cancel, CallStep, CallStart, CallCancel,
       Ask, Regressed, ObserveHost, CallUncertain, CallRaises, CallerDies, storeVars, opVars
  <2> QED BY <2>1 DEF SpendingStep
<1>5. CASE (\E d \in Dispatches : ProcessStep(d)) \/ UNCHANGED vars
  <2>1. UNCHANGED storeVars
    BY <1>5 DEF ProcessStep, vars
  <2> QED BY <2>1 DEF storeVars, opVars, SpendingStep
<1> QED BY <1>1, <1>2, <1>3, <1>4, <1>5 DEF Next

\* One more row is one more for the operations it belongs to, and none for others.
LEMMA OneMoreRow ==
  ASSUME IsFiniteSet(intents), NEW o, NEW n, intents' = intents \cup {<<o, n>>},
         NEW CONSTANT S
  PROVE  /\ Used(S) \in Nat /\ Used(S)' \in Nat
         /\ Used(S)' <= Used(S) + 1
         /\ o \notin S => Used(S)' = Used(S)
<1>1. Rows(S) \in SUBSET intents
  BY DEF Rows
<1>2. IsFiniteSet(Rows(S)) /\ Cardinality(Rows(S)) \in Nat
  BY <1>1, FS_Subset, FS_CardinalityType
<1>3. CASE o \in S
  <2> DEFINE R == Rows(S)
  <2>1. Rows(S)' = R \cup {<<o, n>>}
    BY <1>3 DEF Rows
  <2>2. IsFiniteSet(R) /\ Cardinality(R) \in Nat
    BY <1>2
  <2>3. Used(S) = Cardinality(R) /\ Used(S)' = Cardinality(R \cup {<<o, n>>})
    BY <2>1 DEF Used
  <2> HIDE DEF R
  <2>4. Cardinality(R \cup {<<o, n>>}) = IF <<o, n>> \in R THEN Cardinality(R) ELSE Cardinality(R) + 1
    BY <2>2, FS_AddElement
  <2> QED
    BY <1>3, <2>2, <2>3, <2>4
<1>4. CASE o \notin S
  <2>1. Rows(S)' = Rows(S)
    BY <1>4 DEF Rows
  <2> QED
    BY <1>2, <2>1 DEF Used
<1> QED BY <1>3, <1>4

LEMMA BudgetStep ==
  ASSUME TypeInv, BudgetRespected, [Next]_vars
  PROVE  BudgetRespected'
<1>l. limit \in [BudgetOwners -> Nat \cup {Unlimited}] /\ IsFiniteSet(intents)
  BY DEF TypeInv, LimitTypes, OpTypes
<1>1. CASE UNCHANGED <<intents, limit>>
  BY <1>1 DEF BudgetRespected, Used, Rows
<1>2. ASSUME NEW o \in Ops, RecordIntent(o)
      PROVE  BudgetRespected'
  <2>1. intents' = intents \cup {<<o, Used({o}) + 1>>} /\ UNCHANGED limit /\ BudgetAdmits(o)
    BY <1>2 DEF RecordIntent
  <2>2. ASSUME NEW g \in Grants, GrantMax[g] # Unlimited
        PROVE  Used(OpsOfGrant(g))' <= GrantMax[g]
    <3>1. /\ Used(OpsOfGrant(g)) \in Nat /\ Used(OpsOfGrant(g))' \in Nat
          /\ Used(OpsOfGrant(g))' <= Used(OpsOfGrant(g)) + 1
          /\ o \notin OpsOfGrant(g) => Used(OpsOfGrant(g))' = Used(OpsOfGrant(g))
      BY <1>l, <2>1, OneMoreRow
    <3>2. Used(OpsOfGrant(g)) <= GrantMax[g] /\ GrantMax[g] \in Nat
      BY <2>2, ConstantsAssumption DEF BudgetRespected
    <3>3. o \in OpsOfGrant(g) => Used(OpsOfGrant(g)) < GrantMax[g]
      BY <2>1, <2>2 DEF BudgetAdmits, Within, OpsOfGrant
    <3> QED BY <3>1, <3>2, <3>3
  <2>3. ASSUME NEW w \in BudgetOwners, limit[w] # Unlimited
        PROVE  Used(OpsOfOwner(w))' <= limit[w]
    <3>1. /\ Used(OpsOfOwner(w)) \in Nat /\ Used(OpsOfOwner(w))' \in Nat
          /\ Used(OpsOfOwner(w))' <= Used(OpsOfOwner(w)) + 1
          /\ o \notin OpsOfOwner(w) => Used(OpsOfOwner(w))' = Used(OpsOfOwner(w))
      BY <1>l, <2>1, OneMoreRow
    <3>2. Used(OpsOfOwner(w)) <= limit[w] /\ limit[w] \in Nat
      BY <1>l, <2>3 DEF BudgetRespected
    <3>3. o \in OpsOfOwner(w) => Used(OpsOfOwner(w)) < limit[w]
      BY <2>1, <2>3 DEF BudgetAdmits, Within, OpsOfOwner, OpsOf
    <3> QED BY <3>1, <3>2, <3>3
  <2> QED BY <2>1, <2>2, <2>3 DEF BudgetRespected
<1>3. ASSUME NEW w \in BudgetOwners, NEW n \in Budgets, Used(OpsOfOwner(w)) <= n,
             limit' = [limit EXCEPT ![w] = n], UNCHANGED intents
      PROVE  BudgetRespected'
  <2>1. \A v \in BudgetOwners : Used(OpsOfOwner(v))' = Used(OpsOfOwner(v))
    BY <1>3 DEF Used, Rows
  <2>2. \A g \in Grants : Used(OpsOfGrant(g))' = Used(OpsOfGrant(g))
    BY <1>3 DEF Used, Rows
  <2>3. \A v \in BudgetOwners : limit'[v] # Unlimited => Used(OpsOfOwner(v)) <= limit'[v]
    BY <1>3, <1>l DEF BudgetRespected
  <2> QED BY <2>1, <2>2, <2>3 DEF BudgetRespected
<1> QED BY <1>1, <1>2, <1>3, StepSpends DEF SpendingStep

\* No grant, task or project budget is ever exceeded: what racing intents may
\* spend together, and what an amendment accepts, is counted from the same rows
\* (require_operation_budget, configure_task_budget, amend_budget).
THEOREM BudgetRespectedHolds == Spec => []BudgetRespected
<1>1. Init => BudgetRespected
  <2> SUFFICES ASSUME Init PROVE BudgetRespected
    OBVIOUS
  <2>1. intents = {} /\ \A w \in BudgetOwners : limit[w] = Unlimited
    BY DEF Init, StoreInit
  <2>2. ASSUME NEW S PROVE Used(S) = 0
    BY <2>1, FS_EmptySet DEF Used, Rows
  <2> QED BY <2>1, <2>2, ConstantsAssumption DEF BudgetRespected
<1> QED
  BY TypeInvariance, BudgetStep, <1>1, PTL DEF Spec

-----------------------------------------------------------------------------
(* Hosts: what the rows of a dispatch and of its calls say about the         *)
(* supervised processes.                                                     *)

hostCore == <<hostState, hostRev, launched, cancelWanted, quiesced>>

LEMMA HostQuiet ==
  ASSUME OperationNext \/ LifecycleNext \/ StoreStep
  PROVE  UNCHANGED hostCore
<1> USE DEF hostCore
<1>1. CASE OperationNext
  BY <1>1 DEF OperationNext, RecordGrant, RevokeGrant, ExpireGrant, ConfigureBudget, AmendBudget,
     SetBudget, Prepare, CancelPrepared, ExpireLease, controlUnchanged, hostVars
<1>2. CASE LifecycleNext
  <2>1. ASSUME NEW t \in Tasks,
               \/ \E ds \in SUBSET KnownEdges : CreateTask(t, ds) \/ ReviseTask(t, ds)
               \/ \E e \in KnownEdges : AddDependency(t, e)
               \/ CancelTask(t) \/ BindTask(t)
        PROVE  UNCHANGED hostCore
    BY <2>1 DEF CreateTask, ReviseTask, AddDependency, CancelTask, BindTask, EffectsUnchanged,
       ContextChanged, hostVars
  <2>2. ASSUME NEW t \in Tasks,
               \/ BeginVerification(t) \/ Rework(t) \/ Accept(t)
               \/ \E result \in {"PASS", "FAIL"} : RecordEvidence(t, result)
               \/ \E r \in Revisions : Invalidate(t, r)
        PROVE  UNCHANGED hostCore
    BY <2>2 DEF BeginVerification, Rework, Accept, RecordEvidence, Invalidate, EffectsUnchanged,
       ProofStep, hostVars
  <2>3. ASSUME NEW r \in Runs, OpenRun(r) \/ PauseRun(r) \/ RebuildCheckpoint(r) \/ ResumeRun(r)
        PROVE  UNCHANGED hostCore
    BY <2>3 DEF OpenRun, PauseRun, RebuildCheckpoint, ResumeRun, RunStep, hostVars
  <2>4. CASE SetPhaseActive
    BY <2>4 DEF SetPhaseActive, EffectsUnchanged, hostVars
  <2> QED BY <1>2, <2>1, <2>2, <2>3, <2>4 DEF LifecycleNext
<1>3. CASE StoreStep
  BY <1>3 DEF StoreStep, storeVars, hostVars, RecordIntent, Observe
<1> QED BY <1>1, <1>2, <1>3

\* The row of a dispatch says whether it was launched, and how it ended.
HostRows ==
  \A d \in Dispatches :
    /\ launched[d] <=> hostState[d] \notin {"ABSENT", "PREPARED", "CANCELLED"}
    /\ quiesced[d] = "YES" => hostState[d] = IF launched[d] THEN "EXITED" ELSE "CANCELLED"

LEMMA HostRowsStep ==
  ASSUME TypeInv, HostRows, HostNext
  PROVE  HostRows'
<1>t. HostTypes /\ CallsKnown /\ \A c \in Calls : CallDispatch[c] \in Dispatches
  BY Constants DEF TypeInv
<1> USE <1>t DEF HostTypes, HostRows
<1>q. ASSUME UNCHANGED hostCore PROVE HostRows'
  BY <1>q DEF hostCore
<1>1. ASSUME NEW terms \in PolicyTerms, ConfigurePolicy(terms) \/ AmendPolicy(terms)
      PROVE  HostRows'
  BY <1>1 DEF ConfigurePolicy, AmendPolicy, PolicyStep
<1>2. CASE ExpirePolicy \/ RevokePolicy
  BY <1>2 DEF ExpirePolicy, RevokePolicy, PolicyStep, HostPending
<1>3. ASSUME NEW d \in Dispatches,
             CancelBeforeLaunch(d) \/ \E source \in Runs \cup {NoHost} : PrepareDispatch(d, source)
      PROVE  HostRows'
  BY <1>3 DEF CancelBeforeLaunch, PrepareDispatch
<1>4. ASSUME NEW c \in Calls, Launch(c) \/ Cancel(c)
      PROVE  HostRows'
  BY <1>4 DEF Launch, Cancel, HostPending
<1>5. ASSUME NEW c \in Calls,
             \/ Poll(c) \/ CallStart(c) \/ CallCancel(c) \/ Ask(c) \/ Regressed(c)
             \/ CallRaises(c) \/ CallerDies(c)
      PROVE  HostRows'
  <2>1. UNCHANGED storeVars
    BY <1>5 DEF Poll, CallStart, CallCancel, Ask, Regressed, CallRaises, CallerDies
  <2> QED BY <2>1, <1>q DEF storeVars, hostVars, hostCore
<1>6. ASSUME NEW c \in Calls, ObserveHost(c)
      PROVE  HostRows'
  <2> DEFINE d == CallDispatch[c]
             s == IF Got(c).state = "RUNNING" /\ cancelWanted[d] THEN "CANCEL_REQUESTED"
                  ELSE Got(c).state
  <2>1. launched[d]
    BY <1>6 DEF ObserveHost, Answered, CallsKnown
  <2>2. /\ s \in {"RUNNING", "EXITED", "UNKNOWN", "CANCEL_REQUESTED"}
        /\ Got(c).quiesced = "YES" => s = "EXITED"
    BY <1>6, GotTypes DEF ObserveHost
  <2>3. hostState' = [hostState EXCEPT ![d] = s] /\ quiesced' = [quiesced EXCEPT ![d] = Got(c).quiesced]
        /\ UNCHANGED launched
    BY <1>6 DEF ObserveHost
  <2> HIDE DEF s
  <2> QED BY <2>1, <2>2, <2>3
<1>7. ASSUME NEW c \in Calls, CallUncertain(c)
      PROVE  HostRows'
  <2>1. launched[CallDispatch[c]]
    BY <1>7 DEF CallUncertain, CallsKnown
  <2> QED BY <1>7, <2>1 DEF CallUncertain
<1> QED
  BY <1>1, <1>2, <1>3, <1>4, <1>5, <1>6, <1>7 DEF HostNext, CallStep

LaunchOf(c, d) == CallMethod[c] = "LAUNCH" /\ CallDispatch[c] = d

\* The row of a run says how far its supervisor came, its command lives only
\* under a supervisor that started it, and before a launch there is nothing.
SupervisorAgrees(d) ==
  /\ journal[d] = "NONE" => supervisor[d] = "NONE"
  /\ journal[d] = "ADMITTED" => supervisor[d] \in {"NONE", "SPAWNED", "DEAD"}
  /\ journal[d] = "EXITED" => supervisor[d] = "DEAD"
  /\ command[d] = "LIVE" => supervisor[d] \in {"LAUNCHED", "WATCHING", "CLOSING"}
  /\ ~launched[d] => journal[d] = "NONE" /\ supervisor[d] = "NONE" /\ command[d] = "NONE"

\* One launch is made of a dispatch, and what the controller knows of it holds.
CallAgrees(c) ==
  LET d == CallDispatch[c] IN
  /\ caller[c] = "GOT_EXITED" => journal[d] = "EXITED"
  /\ CallMethod[c] = "LAUNCH" /\ callRow[c] # "ABSENT" =>
       \A x \in Calls : LaunchOf(x, d) /\ callRow[x] # "ABSENT" => x = c
  /\ CallMethod[c] = "LAUNCH" /\ caller[c] = "CALLING" => journal[d] = "NONE"
  /\ CallMethod[c] = "LAUNCH" /\ caller[c] = "ADMITTED" =>
       journal[d] = "ADMITTED" /\ supervisor[d] = "NONE"

SupervisionInv ==
  /\ \A d \in Dispatches : SupervisorAgrees(d)
  /\ \A c \in Calls : CallAgrees(c)

\* What the supervisor of one dispatch does to its processes, and to no other's.
LEMMA ProcessOfOne ==
  ASSUME PH!ProcessTypeOK, NEW d \in Dispatches,
         PH!ProcessNext(d) \/ PH!Admit(d) \/ PH!Spawn(d) \/ PH!FlagCancel(d)
  PROVE  \A x \in Dispatches \ {d} :
           journal'[x] = journal[x] /\ supervisor'[x] = supervisor[x] /\ command'[x] = command[x]
<1> USE DEF PH!ProcessTypeOK, PH!Write, PH!Go, PH!KillJob
<1>1. CASE PH!Admit(d) \/ PH!Spawn(d) \/ PH!FlagCancel(d)
  BY <1>1 DEF PH!Admit, PH!Spawn, PH!FlagCancel
<1>2. CASE PH!SupervisorStep(d)
  BY <1>2 DEF PH!SupervisorStep, PH!Claim, PH!NotStarted, PH!Launch, PH!RecordRunning, PH!Terminate,
     PH!RecordExit, PH!CloseJob
<1>3. CASE PH!CommandEnds(d) \/ PH!LaunchFails(d) \/ PH!SupervisorFails(d) \/ PH!SupervisorDies(d)
  BY <1>3 DEF PH!CommandEnds, PH!LaunchFails, PH!SupervisorFails, PH!SupervisorDies
<1> QED BY <1>1, <1>2, <1>3 DEF PH!ProcessNext

LEMMA SupervisionOfProcess ==
  ASSUME TypeInv, SupervisionInv, NEW d \in Dispatches, ProcessStep(d)
  PROVE  SupervisionInv'
<1>p. PH!ProcessTypeOK
  BY DEF TypeInv, CallTypeOK
<1>u. UNCHANGED <<callRow, caller, launched>> /\ PH!ProcessNext(d)
  BY DEF ProcessStep, callVars, storeVars, hostVars
<1>o. \A x \in Dispatches \ {d} :
        journal'[x] = journal[x] /\ supervisor'[x] = supervisor[x] /\ command'[x] = command[x]
  BY <1>p, <1>u, ProcessOfOne
<1>a. SupervisorAgrees(d)
  BY DEF SupervisionInv
<1>1. /\ SupervisorAgrees(d)'
      /\ journal[d] = "EXITED" => journal'[d] = "EXITED"
      /\ journal'[d] = "NONE" <=> journal[d] = "NONE"
      /\ supervisor[d] = "NONE" => journal'[d] = journal[d] /\ supervisor'[d] = "NONE"
  <2> USE <1>a, <1>p, <1>u DEF SupervisorAgrees, PH!ProcessTypeOK, PH!Write, PH!Go, PH!KillJob,
          PH!SupervisorStates
  <2>1. CASE PH!Claim(d)
    BY <2>1 DEF PH!Claim
  <2>2. CASE PH!NotStarted(d)
    BY <2>2 DEF PH!NotStarted
  <2>3. CASE PH!Launch(d)
    BY <2>3 DEF PH!Launch
  <2>4. CASE PH!RecordRunning(d)
    BY <2>4 DEF PH!RecordRunning
  <2>5. CASE PH!Terminate(d)
    BY <2>5 DEF PH!Terminate
  <2>6. CASE PH!RecordExit(d)
    BY <2>6 DEF PH!RecordExit
  <2>7. CASE PH!CloseJob(d)
    BY <2>7 DEF PH!CloseJob
  <2>8. CASE PH!CommandEnds(d)
    BY <2>8 DEF PH!CommandEnds
  <2>9. CASE PH!LaunchFails(d)
    BY <2>9 DEF PH!LaunchFails
  <2>10. CASE PH!SupervisorFails(d)
    BY <2>10 DEF PH!SupervisorFails
  <2>11. CASE PH!SupervisorDies(d)
    BY <2>11 DEF PH!SupervisorDies
  <2> QED
    BY <2>1, <2>2, <2>3, <2>4, <2>5, <2>6, <2>7, <2>8, <2>9, <2>10, <2>11
       DEF PH!ProcessNext, PH!SupervisorStep
<1>2. \A x \in Dispatches : SupervisorAgrees(x)'
  BY <1>1, <1>o, <1>u DEF SupervisionInv, SupervisorAgrees
<1>3. \A c \in Calls : CallAgrees(c)'
  BY <1>1, <1>o, <1>u, Constants DEF SupervisionInv, CallAgrees, LaunchOf
<1> QED BY <1>2, <1>3 DEF SupervisionInv

LEMMA SupervisionOfCall ==
  ASSUME TypeInv, HostRows, SupervisionInv, HostNext
  PROVE  SupervisionInv'
<1>p. PH!ProcessTypeOK /\ callRow \in [Calls -> {"ABSENT", "INTENT_COMMITTED", "OBSERVED", "UNKNOWN"}]
      /\ caller \in [Calls -> CallerStates] /\ launched \in [Dispatches -> BOOLEAN]
  BY DEF TypeInv, CallTypeOK, HostTypes
<1>k. CallsKnown /\ HostsKnown
  BY DEF TypeInv
<1>1. ASSUME UNCHANGED <<callVars, processVars, launched>>
      PROVE  SupervisionInv'
  BY <1>1 DEF callVars, processVars, SupervisionInv, SupervisorAgrees, CallAgrees, LaunchOf
\* Steps of a call that only move its controller, or its row.
<1>2. ASSUME NEW c \in Calls, UNCHANGED <<journal, supervisor, command, launched>>,
             \A x \in Calls : callRow'[x] # "ABSENT" <=> callRow[x] # "ABSENT",
             \A x \in Calls \ {c} : caller'[x] = caller[x],
             caller'[c] \notin {"CALLING", "ADMITTED"},
             caller'[c] = "GOT_EXITED" => journal[CallDispatch[c]] = "EXITED"
      PROVE  SupervisionInv'
  <2>1. \A d \in Dispatches : SupervisorAgrees(d)'
    BY <1>2 DEF SupervisionInv, SupervisorAgrees
  <2>2. \A x \in Calls : CallAgrees(x)'
    BY <1>2 DEF SupervisionInv, CallAgrees, LaunchOf
  <2> QED BY <2>1, <2>2 DEF SupervisionInv
<1>3. ASSUME NEW terms \in PolicyTerms, ConfigurePolicy(terms) \/ AmendPolicy(terms)
      PROVE  SupervisionInv'
  BY <1>3, <1>1 DEF ConfigurePolicy, AmendPolicy, PolicyStep
<1>4. CASE ExpirePolicy \/ RevokePolicy
  BY <1>4, <1>1 DEF ExpirePolicy, RevokePolicy, PolicyStep
<1>5. ASSUME NEW d \in Dispatches,
             CancelBeforeLaunch(d) \/ \E source \in Runs \cup {NoHost} : PrepareDispatch(d, source)
      PROVE  SupervisionInv'
  BY <1>5, <1>1 DEF CancelBeforeLaunch, PrepareDispatch
\* A new call, of a launch or of an already launched Host.
<1>6. ASSUME NEW c \in Calls, Admitted(c), callRow[c] = "ABSENT", UNCHANGED processVars,
             launched' = [launched EXCEPT ![CallDispatch[c]] = TRUE],
             CallMethod[c] = "LAUNCH" => ~launched[CallDispatch[c]]
      PROVE  SupervisionInv'
  <2>1. /\ \A x \in Calls \ {c} : callRow'[x] = callRow[x] /\ caller'[x] = caller[x]
        /\ caller'[c] = "CALLING"
        /\ \A x \in Dispatches : launched[x] => launched'[x]
    BY <1>6, <1>p DEF Admitted, Goto
  <2>2. \A d \in Dispatches : SupervisorAgrees(d)'
    BY <2>1, <1>6 DEF processVars, SupervisionInv, SupervisorAgrees
  <2>3. CallMethod[c] = "LAUNCH" =>
          /\ journal[CallDispatch[c]] = "NONE"
          /\ \A x \in Calls : LaunchOf(x, CallDispatch[c]) => callRow[x] = "ABSENT"
    BY <1>6, <1>k, Constants DEF SupervisionInv, SupervisorAgrees, CallsKnown, LaunchOf
  <2>4. \A x \in Calls : CallAgrees(x)'
    BY <2>1, <2>3, <1>6 DEF processVars, SupervisionInv, CallAgrees, LaunchOf
  <2> QED BY <2>2, <2>4 DEF SupervisionInv
<1>7. ASSUME NEW c \in Calls, Launch(c)
      PROVE  SupervisionInv'
  <2>1. ~launched[CallDispatch[c]]
    BY <1>7, Constants DEF Launch, HostRows
  <2> QED BY <1>6, <1>7, <2>1 DEF Launch
<1>8. ASSUME NEW c \in Calls, Poll(c) \/ Cancel(c)
      PROVE  SupervisionInv'
  <2>1. launched[CallDispatch[c]] /\ UNCHANGED launched /\ CallMethod[c] # "LAUNCH" /\ Admitted(c)
        /\ callRow[c] = "ABSENT" /\ UNCHANGED processVars
    BY <1>8 DEF Poll, Cancel, HostPending, storeVars, hostVars
  <2> QED BY <1>6, <2>1, <1>p, Constants
<1>9. ASSUME NEW c \in Calls, CallStart(c)
      PROVE  SupervisionInv'
  <2> DEFINE d == CallDispatch[c]
  <2>0. d \in Dispatches /\ CallMethod[c] = "LAUNCH" /\ UNCHANGED <<callRow, launched>>
    BY <1>9, Constants DEF CallStart, storeVars, hostVars
  <2>1. callRow[c] # "ABSENT" /\ launched[d]
    BY <1>9, <1>k DEF CallStart, CallsKnown
  <2>2. \A x \in Calls : LaunchOf(x, d) /\ callRow[x] # "ABSENT" => x = c
    BY <2>0, <2>1 DEF SupervisionInv, CallAgrees
  <2>3. \A x \in Calls \ {c} : LaunchOf(x, d) => caller[x] = "IDLE"
    BY <2>2, <1>k DEF CallsKnown
  <2>4. \A x \in Dispatches \ {d} :
          journal'[x] = journal[x] /\ supervisor'[x] = supervisor[x] /\ command'[x] = command[x]
    BY <1>9, <1>p, <2>0, ProcessOfOne DEF CallStart
  <2>5. /\ SupervisorAgrees(d)'
        /\ journal[d] = "EXITED" => journal'[d] = "EXITED"
        /\ caller'[c] = "ADMITTED" => journal'[d] = "ADMITTED" /\ supervisor'[d] = "NONE"
        /\ caller'[c] \in {"ADMITTED", "ASKING"}
        /\ \A x \in Calls \ {c} : caller'[x] = caller[x]
    <3> USE DEF SupervisionInv, SupervisorAgrees, CallAgrees, Goto, PH!ProcessTypeOK, PH!Write, PH!Go
    <3>1. CASE caller[c] = "CALLING" /\ PH!Admit(d) /\ Goto(c, "ADMITTED")
      BY <3>1, <1>p, <2>0, <2>1 DEF PH!Admit
    <3>2. CASE caller[c] = "ADMITTED" /\ PH!Spawn(d) /\ Goto(c, "ASKING")
      BY <3>2, <1>p, <2>0, <2>1 DEF PH!Spawn
    <3> QED BY <1>9, <3>1, <3>2 DEF CallStart
  <2>6. \A x \in Dispatches : SupervisorAgrees(x)'
    BY <2>0, <2>4, <2>5 DEF SupervisionInv, SupervisorAgrees
  <2>7. \A x \in Calls : CallAgrees(x)'
    BY <2>0, <2>2, <2>3, <2>4, <2>5, Constants DEF SupervisionInv, CallAgrees, LaunchOf
  <2> QED BY <2>6, <2>7 DEF SupervisionInv
<1>10. ASSUME NEW c \in Calls, CallCancel(c)
       PROVE  SupervisionInv'
  <2>1. /\ UNCHANGED <<callRow, launched, journal, supervisor, command>>
        /\ \A x \in Calls \ {c} : caller'[x] = caller[x]
        /\ caller'[c] = "ASKING"
    BY <1>10, <1>p DEF CallCancel, Goto, PH!FlagCancel, storeVars, hostVars
  <2> QED BY <2>1, <1>2
<1>11. ASSUME NEW c \in Calls, Ask(c)
       PROVE  SupervisionInv'
  <2>1. /\ UNCHANGED <<callRow, launched, processVars>>
        /\ \A x \in Calls \ {c} : caller'[x] = caller[x]
    BY <1>11, <1>p DEF Ask, Goto, storeVars, hostVars
  <2>2. /\ caller'[c] \in {"GOT_RUNNING", "GOT_EXITED", "GOT_UNKNOWN"}
        /\ caller'[c] = "GOT_EXITED" => PH!QueryAnswer(CallDispatch[c]) = "EXITED"
    <3> DEFINE q == PH!QueryAnswer(CallDispatch[c])
               s == CASE q = "RUNNING" -> "GOT_RUNNING"
                      [] q = "EXITED" -> "GOT_EXITED"
                      [] OTHER -> "GOT_UNKNOWN"
    <3>1. Goto(c, s)
      BY <1>11 DEF Ask
    <3>2. s \in {"GOT_RUNNING", "GOT_EXITED", "GOT_UNKNOWN"} /\ (s = "GOT_EXITED" => q = "EXITED")
      OBVIOUS
    <3> HIDE DEF s, q
    <3>3. caller'[c] = s
      BY <3>1, <1>p DEF Goto
    <3> QED BY <3>2, <3>3 DEF q
  <2>3. PH!QueryAnswer(CallDispatch[c]) = "EXITED" => journal[CallDispatch[c]] = "EXITED"
    BY DEF PH!QueryAnswer
  <2> QED BY <2>1, <2>2, <2>3, <1>2 DEF processVars
<1>12. ASSUME NEW c \in Calls, Regressed(c) \/ CallRaises(c) \/ CallerDies(c)
       PROVE  SupervisionInv'
  <2>1. /\ UNCHANGED <<callRow, launched, processVars>>
        /\ \A x \in Calls \ {c} : caller'[x] = caller[x]
        /\ caller'[c] \in {"RAISED", "DONE"}
    BY <1>12, <1>p DEF Regressed, CallRaises, CallerDies, Goto, storeVars, hostVars
  <2> QED BY <2>1, <1>2 DEF processVars
<1>13. ASSUME NEW c \in Calls, ObserveHost(c) \/ CallUncertain(c)
       PROVE  SupervisionInv'
  <2>1. callRow[c] # "ABSENT"
    BY <1>13, <1>k DEF ObserveHost, CallUncertain, Answered, CallsKnown
  <2>2. UNCHANGED <<launched, processVars>>
        /\ (\A x \in Calls : callRow'[x] # "ABSENT" <=> callRow[x] # "ABSENT")
        /\ (\A x \in Calls \ {c} : caller'[x] = caller[x])
        /\ caller'[c] = "DONE"
    BY <1>13, <1>p, <2>1 DEF ObserveHost, CallUncertain, Goto
  <2> QED BY <2>2, <1>2 DEF processVars
<1> QED
  BY <1>3, <1>4, <1>5, <1>7, <1>8, <1>9, <1>10, <1>11, <1>12, <1>13 DEF HostNext, CallStep

\* A journalled exit is final.
LEMMA ExitStays ==
  ASSUME TypeInv, SupervisionInv, HostNext \/ \E d \in Dispatches : ProcessStep(d)
  PROVE  \A x \in Dispatches : journal[x] = "EXITED" => journal'[x] = "EXITED"
<1>p. PH!ProcessTypeOK
  BY DEF TypeInv, CallTypeOK
<1>e. \A x \in Dispatches : journal[x] = "EXITED" => supervisor[x] = "DEAD"
  BY DEF SupervisionInv, SupervisorAgrees
<1>1. ASSUME NEW d \in Dispatches, PH!ProcessNext(d) \/ PH!Admit(d) \/ PH!Spawn(d) \/ PH!FlagCancel(d)
      PROVE  \A x \in Dispatches : journal[x] = "EXITED" => journal'[x] = "EXITED"
  <2>1. journal[d] = "EXITED" => journal'[d] = "EXITED"
    BY <1>1, <1>p, <1>e DEF PH!ProcessNext, PH!SupervisorStep, PH!Claim, PH!NotStarted, PH!Launch,
       PH!RecordRunning, PH!Terminate, PH!RecordExit, PH!CloseJob, PH!CommandEnds, PH!LaunchFails,
       PH!SupervisorFails, PH!SupervisorDies, PH!Write, PH!ProcessTypeOK, PH!Admit, PH!Spawn, PH!FlagCancel
  <2> QED BY <1>1, <2>1, <1>p, ProcessOfOne
<1>2. ASSUME NEW d \in Dispatches, ProcessStep(d)
      PROVE  \A x \in Dispatches : journal[x] = "EXITED" => journal'[x] = "EXITED"
  BY <1>1, <1>2 DEF ProcessStep
<1>3. ASSUME NEW c \in Calls, CallStart(c) \/ CallCancel(c)
      PROVE  \A x \in Dispatches : journal[x] = "EXITED" => journal'[x] = "EXITED"
  BY <1>1, <1>3, Constants DEF CallStart, CallCancel
<1>4. ASSUME UNCHANGED processVars
      PROVE  \A x \in Dispatches : journal[x] = "EXITED" => journal'[x] = "EXITED"
  BY <1>4 DEF processVars
<1>5. ASSUME HostNext, ~\E c \in Calls : CallStart(c) \/ CallCancel(c)
      PROVE  UNCHANGED processVars
  BY <1>5 DEF HostNext, CallStep, ConfigurePolicy, AmendPolicy, ExpirePolicy, RevokePolicy, PolicyStep,
     CancelBeforeLaunch, PrepareDispatch, Launch, Poll, Cancel, Ask, Regressed, ObserveHost,
     CallUncertain, CallRaises, CallerDies
<1> QED BY <1>2, <1>3, <1>4, <1>5

\* A launched Host is recorded as ended only on its journalled exit.
EndIsProven == \A d \in Dispatches : launched[d] /\ quiesced[d] = "YES" => journal[d] = "EXITED"

\* How a Host comes to be no longer pending.
LEMMA HostPendingStep ==
  ASSUME TypeInv, HostRows, SupervisionInv, HostNext, NEW d \in Dispatches
  PROVE  /\ launched[d] => launched'[d]
         /\ launched[d] /\ quiesced[d] = "YES" => quiesced'[d] = "YES"
         /\ HostPending(d) /\ ~HostPending(d)' =>
              \E c \in Calls : /\ ObserveHost(c) /\ CallDispatch[c] = d
                               /\ Got(c).quiesced = "YES" /\ journal[d] = "EXITED"
         /\ launched'[d] /\ ~launched[d] => quiesced'[d] # "YES"
<1>t. HostTypes /\ CallsKnown /\ \A c \in Calls : CallDispatch[c] \in Dispatches
  BY Constants DEF TypeInv
<1> DEFINE Goal == /\ launched[d] => launched'[d]
                   /\ launched[d] /\ quiesced[d] = "YES" => quiesced'[d] = "YES"
                   /\ HostPending(d) /\ ~HostPending(d)' =>
                        \E c \in Calls : /\ ObserveHost(c) /\ CallDispatch[c] = d
                                         /\ Got(c).quiesced = "YES" /\ journal[d] = "EXITED"
                   /\ launched'[d] /\ ~launched[d] => quiesced'[d] # "YES"
<1>q. ASSUME UNCHANGED <<launched, quiesced>> PROVE Goal
  BY <1>q DEF HostPending
<1>1. ASSUME NEW terms \in PolicyTerms, ConfigurePolicy(terms) \/ AmendPolicy(terms)
      PROVE  Goal
  BY <1>1, <1>q DEF ConfigurePolicy, AmendPolicy, PolicyStep
<1>2. ASSUME ExpirePolicy \/ RevokePolicy
      PROVE  Goal
  BY <1>2, <1>q DEF ExpirePolicy, RevokePolicy, PolicyStep
<1>3. ASSUME NEW x \in Dispatches, NEW source \in Runs \cup {NoHost}, PrepareDispatch(x, source)
      PROVE  Goal
  BY <1>3, <1>q DEF PrepareDispatch
<1>4. ASSUME NEW x \in Dispatches, CancelBeforeLaunch(x)
      PROVE  Goal
  BY <1>4, <1>t DEF CancelBeforeLaunch, HostPending, HostTypes
<1>5. ASSUME NEW c \in Calls, Launch(c)
      PROVE  Goal
  <2>1. ~launched[CallDispatch[c]] /\ quiesced[CallDispatch[c]] # "YES"
    BY <1>5, <1>t DEF Launch, HostRows
  <2>2. launched' = [launched EXCEPT ![CallDispatch[c]] = TRUE] /\ UNCHANGED quiesced
    BY <1>5 DEF Launch
  <2> QED BY <2>1, <2>2, <1>t DEF HostPending, HostTypes
<1>6. ASSUME NEW c \in Calls, \/ Poll(c) \/ CallStart(c) \/ CallCancel(c) \/ Ask(c) \/ Regressed(c)
                              \/ CallRaises(c) \/ CallerDies(c) \/ Cancel(c) \/ CallUncertain(c)
      PROVE  Goal
  BY <1>6, <1>q DEF Poll, CallStart, CallCancel, Ask, Regressed, CallRaises, CallerDies, Cancel,
     CallUncertain, storeVars, hostVars
<1>7. ASSUME NEW c \in Calls, ObserveHost(c)
      PROVE  Goal
  <2>1. /\ UNCHANGED launched /\ quiesced' = [quiesced EXCEPT ![CallDispatch[c]] = Got(c).quiesced]
        /\ Answered(c) /\ ~Regresses(c)
    BY <1>7 DEF ObserveHost
  <2>2. Got(c).quiesced = "YES" => journal[CallDispatch[c]] = "EXITED"
    BY <2>1, GotTypes DEF SupervisionInv, CallAgrees
  <2>3. quiesced[CallDispatch[c]] = "YES" => Got(c).quiesced = "YES"
    BY <2>1 DEF Regresses
  <2> QED BY <1>7, <2>1, <2>2, <2>3, <1>t DEF HostPending, HostTypes
<1>8. Goal
  <2> HIDE DEF Goal
  <2> QED BY <1>1, <1>2, <1>3, <1>4, <1>5, <1>6, <1>7 DEF HostNext, CallStep
<1> QED BY <1>8

\* A worker of a Host's operation lives inside its Job.
WorkersNeedHost == \A o \in Ops : WorkerLive(o) /\ OpHost(o) # NoHost => command[OpHost(o)] = "LIVE"

\* An effect a Host admitted in its own task and has not reported keeps the Host
\* pending: it is made unknown before the Host may be recorded as ended.
OwnIntents ==
  \A o \in Ops : \A d \in Dispatches :
    OpHost(o) = d /\ OpTask(o) = DispatchTask[d] /\ opState[o] = "INTENT_RECORDED" => HostPending(d)

HostInv == HostRows /\ SupervisionInv /\ EndIsProven /\ WorkersNeedHost /\ OwnIntents

LEMMA WorkersStep ==
  ASSUME TypeInv, WorkersNeedHost, [Next]_vars
  PROVE  WorkersNeedHost'
<1>p. PH!ProcessTypeOK /\ worker \in [Ops -> WorkerStates]
  BY DEF TypeInv, CallTypeOK, WorkerTypeOK
<1>1. ASSUME UNCHANGED <<worker, command>>
      PROVE  WorkersNeedHost'
  BY <1>1 DEF WorkersNeedHost, WorkerLive
<1>2. CASE OperationNext /\ UNCHANGED <<workerVars, callVars, processVars>>
  BY <1>1, <1>2 DEF workerVars, processVars
<1>3. CASE LifecycleNext /\ UNCHANGED <<workerVars, callVars, processVars>>
  BY <1>1, <1>3 DEF workerVars, processVars
<1>4. CASE FileStep
  <2>1. PICK o \in Ops : \/ CanAct(o) /\ (Begin(o) \/ WorkerStep(o))
                         \/ WorkerDies(o) \/ ReconcileUpdate(o) \/ Attest(o)
    BY <1>4 DEF FileStep
  <2>2. UNCHANGED command
    BY <1>4 DEF FileStep, processVars
  <2>3. CASE CanAct(o) /\ (Begin(o) \/ WorkerStep(o))
    <3>1. \A x \in Ops \ {o} : worker'[x] = worker[x]
      BY <2>3, <1>p DEF Begin, WorkerStep, VerifyLease, Read, CreateExclusive, CreateWrite,
         OpenExclusive, PreservePreimage, FencedWrite, Report, At
    <3> QED BY <2>2, <2>3, <3>1 DEF CanAct, WorkersNeedHost, WorkerLive
  <2>4. CASE WorkerDies(o)
    BY <2>2, <2>4, <1>p DEF WorkerDies, At, WorkersNeedHost, WorkerLive
  <2>5. CASE ReconcileUpdate(o) \/ Attest(o)
    BY <2>2, <2>5, <1>1 DEF ReconcileUpdate, Attest, workerVars
  <2> QED BY <2>1, <2>3, <2>4, <2>5
<1>5. CASE HostNext /\ UNCHANGED workerVars
  <2>1. UNCHANGED command
    BY <1>5 DEF HostNext, CallStep, ConfigurePolicy, AmendPolicy, ExpirePolicy, RevokePolicy, PolicyStep,
       CancelBeforeLaunch, PrepareDispatch, Launch, Poll, Cancel, Ask, Regressed, ObserveHost,
       CallUncertain, CallRaises, CallerDies, CallStart, CallCancel, processVars, PH!Admit, PH!Spawn,
       PH!FlagCancel
  <2> QED BY <1>5, <2>1, <1>1 DEF workerVars
<1>6. ASSUME NEW d \in Dispatches, ProcessStep(d)
      PROVE  WorkersNeedHost'
  <2>1. \A x \in Dispatches \ {d} : command'[x] = command[x]
    BY <1>6, <1>p, ProcessOfOne DEF ProcessStep
  <2>2. worker' = [o \in Ops |-> IF OpHost(o) = d /\ WorkerLive(o) /\ command'[d] # "LIVE"
                                 THEN "GONE" ELSE worker[o]]
    BY <1>6 DEF ProcessStep
  <2> QED BY <2>1, <2>2, Constants DEF WorkersNeedHost, WorkerLive
<1>7. CASE UNCHANGED vars
  BY <1>1, <1>7 DEF vars, workerVars, processVars
<1> QED BY <1>2, <1>3, <1>4, <1>5, <1>6, <1>7 DEF Next

\* An intent is new only where record_intent recorded it.
LEMMA IntentIsNew ==
  ASSUME EffectInv, [Next]_vars, NEW o \in Ops, opState'[o] = "INTENT_RECORDED"
  PROVE  opState[o] = "INTENT_RECORDED" \/ RecordIntent(o)
<1>o. EffectTypeOK
  BY DEF EffectInv
<1>1. CASE Admits
  BY <1>1, <1>o DEF Admits, RecordIntent, EffectTypeOK
<1>2. CASE ~Admits
  BY <1>2, <1>o, StepEffect DEF Observes, Touches, StoreView, ViewPrepare, ViewWithdraw, ViewLapse,
     ViewAccept, ViewOrphan, EffectTypeOK, Outcomes
<1> QED BY <1>1, <1>2

LEMMA HostInvStep ==
  ASSUME TypeInv, EffectInv, HostInv, [Next]_vars
  PROVE  HostInv'
<1>h. HostRows /\ SupervisionInv /\ EndIsProven /\ WorkersNeedHost /\ OwnIntents
  BY DEF HostInv
<1>w. WorkersNeedHost'
  BY <1>h, WorkersStep
\* Steps that leave the dispatch rows alone.
<1>c. ASSUME UNCHANGED hostCore
      PROVE  HostRows' /\ OwnIntents'
  <2>1. HostRows'
    BY <1>c, <1>h DEF hostCore, HostRows
  <2>2. ASSUME NEW o \in Ops, NEW d \in Dispatches, OpHost(o) = d, OpTask(o) = DispatchTask[d],
               opState'[o] = "INTENT_RECORDED"
        PROVE  HostPending(d)'
    <3>1. HostPending(d)' = HostPending(d)
      BY <1>c DEF hostCore, HostPending
    <3>2. CASE opState[o] = "INTENT_RECORDED"
      BY <3>1, <3>2, <2>2, <1>h DEF OwnIntents
    <3>3. CASE RecordIntent(o)
      <4>1. hostState[d] = "RUNNING"
        BY <3>3, <2>2, Constants DEF RecordIntent, GrantAdmits, OpHost
      <4> QED BY <4>1, <3>1, <1>h DEF HostRows, HostPending
    <3> QED BY <3>2, <3>3, <2>2, IntentIsNew
  <2> QED BY <2>1, <2>2 DEF OwnIntents
<1>s. ASSUME UNCHANGED hostCore, UNCHANGED <<callVars, processVars>>
      PROVE  SupervisionInv' /\ EndIsProven'
  BY <1>s, <1>h DEF hostCore, callVars, processVars, SupervisionInv, SupervisorAgrees, CallAgrees,
     LaunchOf, EndIsProven
<1>1. CASE OperationNext /\ UNCHANGED <<workerVars, callVars, processVars>>
  BY <1>1, <1>w, <1>c, <1>s, HostQuiet DEF HostInv
<1>2. CASE LifecycleNext /\ UNCHANGED <<workerVars, callVars, processVars>>
  BY <1>2, <1>w, <1>c, <1>s, HostQuiet DEF HostInv
<1>3. CASE FileStep
  BY <1>3, <1>w, <1>c, <1>s, HostQuiet, FileStoreStep DEF HostInv, FileStep, FileView
<1>4. CASE HostNext /\ UNCHANGED workerVars
  <2>1. HostRows' /\ SupervisionInv'
    BY <1>4, <1>h, HostRowsStep, SupervisionOfCall
  <2>2. EndIsProven'
    <3>1. ASSUME NEW d \in Dispatches, launched'[d], quiesced'[d] = "YES"
          PROVE  journal'[d] = "EXITED"
      <4>1. journal[d] = "EXITED" => journal'[d] = "EXITED"
        BY <1>4, <1>h, ExitStays
      <4>2. launched[d]
        BY <1>4, <1>h, <3>1, HostPendingStep
      <4>3. CASE quiesced[d] = "YES"
        BY <4>1, <4>2, <4>3, <1>h DEF EndIsProven
      <4>4. CASE quiesced[d] # "YES"
        <5>1. HostPending(d) /\ ~HostPending(d)'
          BY <4>2, <4>4, <3>1 DEF HostPending
        <5> QED BY <5>1, <4>1, <1>4, <1>h, HostPendingStep
      <4> QED BY <4>3, <4>4
    <3> QED BY <3>1 DEF EndIsProven
  <2>3. OwnIntents'
    <3>1. ASSUME NEW o \in Ops, NEW d \in Dispatches, OpHost(o) = d, OpTask(o) = DispatchTask[d],
                 opState'[o] = "INTENT_RECORDED"
          PROVE  HostPending(d)'
      <4>1. ~RecordIntent(o)
        <5> SUFFICES ASSUME RecordIntent(o) PROVE FALSE
          OBVIOUS
        <5>1. HostView
          BY <1>4, HostStepView DEF EffectInv
        <5> QED BY <5>1, <3>1 DEF HostView, ViewOrphan, EffectView, RecordIntent, EffectInv, EffectTypeOK
      <4>2. HostPending(d)
        BY <4>1, <3>1, <1>h, IntentIsNew DEF OwnIntents
      <4>3. ASSUME NEW c \in Calls, ObserveHost(c), CallDispatch[c] = d, Got(c).quiesced = "YES"
            PROVE  FALSE
        <5>1. o \in Orphans(d)
          BY <3>1, <4>1, IntentIsNew, ConstantsAssumption DEF Orphans, HostGrants, OpHost, OpTask
        <5>2. opState' = [x \in Ops |-> IF x \in Orphans(d) THEN "UNKNOWN" ELSE opState[x]]
          BY <4>3 DEF ObserveHost, OrphanOutcome
        <5> QED BY <3>1, <5>1, <5>2
      <4> QED BY <4>2, <4>3, <1>4, <1>h, HostPendingStep
    <3> QED BY <3>1 DEF OwnIntents
  <2> QED BY <2>1, <2>2, <2>3, <1>w DEF HostInv
<1>5. ASSUME NEW d \in Dispatches, ProcessStep(d)
      PROVE  HostInv'
  <2>1. UNCHANGED hostCore
    BY <1>5 DEF ProcessStep, storeVars, hostVars, hostCore
  <2>2. SupervisionInv'
    BY <1>5, <1>h, SupervisionOfProcess
  <2>3. EndIsProven'
    BY <1>5, <2>1, <1>h, ExitStays DEF hostCore, EndIsProven
  <2> QED BY <2>1, <2>2, <2>3, <1>c, <1>w DEF HostInv
<1>6. CASE UNCHANGED vars
  <2>1. UNCHANGED hostCore /\ UNCHANGED <<callVars, processVars>>
    BY <1>6 DEF vars, storeVars, hostVars, hostCore
  <2> QED BY <2>1, <1>w, <1>c, <1>s DEF HostInv
<1> QED BY <1>1, <1>2, <1>3, <1>4, <1>5, <1>6 DEF Next

LEMMA HostInvariance == Spec => []HostInv
<1>1. Init => HostInv
  BY DEF Init, StoreInit, WorkerInit, CallInit, PH!ProcessInit, HostInv, HostRows, SupervisionInv,
     SupervisorAgrees, CallAgrees, EndIsProven, WorkersNeedHost, WorkerLive, OwnIntents
<1>2. TypeInv /\ EffectInv /\ HostInv /\ [Next]_vars => HostInv'
  BY HostInvStep
<1> QED
  BY TypeInvariance, EffectInvariance, <1>1, <1>2, PTL DEF Spec

\* A Host recorded as ended has no process that runs or may still start, no
\* worker of it writes, and it holds no live lease in its task, whatever order
\* its answers were recorded in (_observe, cancel and HostCallUncertain of
\* v2_host_execution; query of v2_process_host).
THEOREM QuiescenceIsTrueHolds == Spec => []QuiescenceIsTrue
<1>1. TypeInv /\ HostInv /\ LeaseMatchesOperation => QuiescenceIsTrue
  <2> SUFFICES ASSUME TypeInv, HostInv, LeaseMatchesOperation,
                      NEW d \in Dispatches, quiesced[d] = "YES"
               PROVE  /\ ~MayRun(d)
                      /\ \A o \in Ops : OpHost(o) = d =>
                           /\ ~WorkerLive(o)
                           /\ OpTask(o) = DispatchTask[d] => leaseState[o] \notin {"HELD", "LAPSED"}
    BY DEF QuiescenceIsTrue
  <2>a. SupervisorAgrees(d)
    BY DEF HostInv, SupervisionInv
  <2>1. journal[d] \in {"NONE", "EXITED"} /\ supervisor[d] \in {"NONE", "DEAD"} /\ command[d] # "LIVE"
    BY <2>a DEF HostInv, EndIsProven, SupervisorAgrees
  <2>2. ~\E c \in Calls : CallDispatch[c] = d /\ CallMethod[c] = "LAUNCH"
                          /\ caller[c] \in {"CALLING", "ADMITTED"}
    <3> SUFFICES ASSUME NEW c \in Calls, CallDispatch[c] = d, CallMethod[c] = "LAUNCH",
                        caller[c] \in {"CALLING", "ADMITTED"}
                 PROVE  FALSE
      OBVIOUS
    <3>1. launched[d]
      BY DEF TypeInv, CallsKnown
    <3>2. journal[d] = "EXITED"
      BY <3>1 DEF HostInv, EndIsProven
    <3> QED BY <3>2 DEF HostInv, SupervisionInv, CallAgrees
  <2>3. ~MayRun(d)
    BY <2>1, <2>2 DEF MayRun
  <2>4. ASSUME NEW o \in Ops, OpHost(o) = d
        PROVE  ~WorkerLive(o)
    BY <2>1, <2>4, Constants DEF HostInv, WorkersNeedHost
  <2>5. ASSUME NEW o \in Ops, OpHost(o) = d, OpTask(o) = DispatchTask[d]
        PROVE  leaseState[o] \notin {"HELD", "LAPSED"}
    BY <2>5 DEF HostInv, OwnIntents, HostPending, LeaseMatchesOperation
  <2> QED BY <2>3, <2>4, <2>5
<1> QED
  BY TypeInvariance, HostInvariance, LeaseMatchesOperationHolds, <1>1, PTL

-----------------------------------------------------------------------------
(* Tasks: recovery and waiting. *)

\* Every step acts on the store as one of these.
CallerStep == (OperationNext \/ LifecycleNext) /\ UNCHANGED <<workerVars, callVars, processVars>>

LEMMA CoreSteps ==
  ASSUME [Next]_vars
  PROVE  CallerStep \/ StoreStep \/ (HostNext /\ UNCHANGED workerVars)
BY FileStoreStep DEF Next, FileStep, FileView, ProcessStep, StoreStep, CallerStep, vars

\* A step that is no answer about an effect or a Host.
Answers ==
  \/ \E o \in Ops, outcome \in Outcomes : Observe(o, outcome)
  \/ \E c \in Calls : ObserveHost(c) \/ CallUncertain(c)

\* Only an answer ends what is pending or makes it unknown.
Keeps ==
  /\ \A o \in Ops : /\ opState'[o] = "UNKNOWN" <=> opState[o] = "UNKNOWN"
                    /\ OpPending(o) => OpPending(o)'
  /\ \A d \in Dispatches : /\ hostState'[d] = "UNKNOWN" => hostState[d] = "UNKNOWN"
                           /\ HostPending(d) => HostPending(d)'

LEMMA OpsKept ==
  ASSUME EffectInv,
         CallerStep \/ UNCHANGED storeVars \/ \E o \in Ops : RecordIntent(o)
  PROVE  \A o \in Ops : /\ opState'[o] = "UNKNOWN" <=> opState[o] = "UNKNOWN"
                        /\ OpPending(o) => OpPending(o)'
<1> USE DEF OpPending
<1>o. opState \in [Ops -> OpStates]
  BY DEF EffectInv, EffectTypeOK
<1>1. CASE CallerStep
  <2>1. ViewPrepare \/ ViewWithdraw \/ ViewLapse \/ ViewAccept \/ UNCHANGED EffectView
    BY <1>1, OperationStepView, LifecycleStepView DEF CallerStep, EffectInv, OperationView, LifecycleView
  <2> QED BY <2>1, <1>o DEF ViewPrepare, ViewWithdraw, ViewLapse, ViewAccept, EffectView
<1>2. CASE \E o \in Ops : RecordIntent(o)
  BY <1>2, <1>o DEF RecordIntent
<1>3. CASE UNCHANGED storeVars
  BY <1>3 DEF storeVars, opVars
<1> QED BY <1>1, <1>2, <1>3

LEMMA HostStepKeeps ==
  ASSUME TypeInv, HostInv, HostNext, ~Answers
  PROVE  Keeps
<1>t. HostTypes /\ CallsKnown /\ (\A c \in Calls : CallDispatch[c] \in Dispatches) /\ HostRows
  BY Constants DEF TypeInv, HostInv
<1>1. UNCHANGED opState
  BY DEF Answers, HostNext, CallStep, ConfigurePolicy, AmendPolicy, ExpirePolicy, RevokePolicy, PolicyStep,
     CancelBeforeLaunch, PrepareDispatch, Launch, Poll, Cancel, Ask, Regressed, CallRaises, CallerDies,
     CallStart, CallCancel, storeVars, opVars
<1>2. ASSUME NEW d \in Dispatches, HostPending(d)
      PROVE  HostPending(d)'
  BY <1>2, HostPendingStep DEF HostInv, Answers
<1>3. ASSUME NEW d \in Dispatches, hostState'[d] = "UNKNOWN"
      PROVE  hostState[d] = "UNKNOWN"
  <2> USE DEF HostTypes
  <2>1. ASSUME UNCHANGED hostState PROVE hostState[d] = "UNKNOWN"
    BY <2>1, <1>3
  <2>2. ASSUME NEW terms \in PolicyTerms, ConfigurePolicy(terms) \/ AmendPolicy(terms)
        PROVE  hostState[d] = "UNKNOWN"
    BY <2>1, <2>2 DEF ConfigurePolicy, AmendPolicy
  <2>3. ASSUME ExpirePolicy \/ RevokePolicy
        PROVE  hostState[d] = "UNKNOWN"
    BY <1>3, <1>t, <2>1, <2>3 DEF ExpirePolicy, RevokePolicy
  <2>4. ASSUME NEW x \in Dispatches,
               CancelBeforeLaunch(x) \/ \E source \in Runs \cup {NoHost} : PrepareDispatch(x, source)
        PROVE  hostState[d] = "UNKNOWN"
    BY <1>3, <1>t, <2>4 DEF CancelBeforeLaunch, PrepareDispatch
  <2>5. ASSUME NEW c \in Calls, Launch(c) \/ Cancel(c)
        PROVE  hostState[d] = "UNKNOWN"
    BY <1>3, <1>t, <2>5 DEF Launch, Cancel
  <2>6. ASSUME NEW c \in Calls, \/ Poll(c) \/ CallStart(c) \/ CallCancel(c) \/ Ask(c) \/ Regressed(c)
                                \/ CallRaises(c) \/ CallerDies(c)
        PROVE  hostState[d] = "UNKNOWN"
    BY <2>1, <2>6 DEF Poll, CallStart, CallCancel, Ask, Regressed, CallRaises, CallerDies, storeVars,
       hostVars
  <2> QED BY <2>2, <2>3, <2>4, <2>5, <2>6 DEF HostNext, CallStep, Answers
<1> QED BY <1>1, <1>2, <1>3 DEF Keeps, OpPending

LEMMA StepKeeps ==
  ASSUME TypeInv, EffectInv, HostInv, ~Answers,
         CallerStep \/ StoreStep \/ HostNext
  PROVE  Keeps
<1>1. CASE HostNext
  BY <1>1, HostStepKeeps
<1>2. CASE CallerStep \/ StoreStep
  <2>1. UNCHANGED hostCore
    BY <1>2, HostQuiet DEF CallerStep
  <2>2. \A d \in Dispatches : /\ hostState'[d] = "UNKNOWN" => hostState[d] = "UNKNOWN"
                              /\ HostPending(d) => HostPending(d)'
    BY <2>1 DEF hostCore, HostPending
  <2>3. CallerStep \/ UNCHANGED storeVars \/ \E o \in Ops : RecordIntent(o)
    BY <1>2 DEF StoreStep, Answers
  <2> QED BY <2>2, <2>3, OpsKept DEF Keeps
<1> QED BY <1>1, <1>2

\* A pause of the task was asked for and has not settled.
Pausing(t) == pauseWanted[t] \/ \E r \in RunsOf(t) : runState[r] = "PAUSE_REQUESTED"

Recovers(t) ==
  taskStatus[t] # "CANCELLED" =>
    /\ UnknownFact(t) => taskStatus[t] = "RECOVERY_REQUIRED"
    /\ taskStatus[t] = "RECOVERY_REQUIRED" => UnknownFact(t) \/ PendingHost(t)
    /\ marker[t] # "NONE" <=> taskStatus[t] = "RECOVERY_REQUIRED"

\* A task waits, or is to wait again after recovery, only for a pause.
Waits(t) ==
  /\ taskStatus[t] = "WAITING" => PendingEffect(t) \/ PendingHost(t)
  /\ taskStatus[t] = "WAITING" \/ (taskStatus[t] = "RECOVERY_REQUIRED" /\ marker[t] = "WAITING")
       => Pausing(t)

TaskFacts(t) == Recovers(t) /\ Waits(t)

LEMMA FactsKept ==
  ASSUME NEW t \in Tasks, Keeps, HostRows
  PROVE  /\ UnknownFact(t)' => UnknownFact(t)
         /\ UnknownFact(t) => UnknownFact(t)' \/ PendingHost(t)'
         /\ PendingHost(t) => PendingHost(t)'
         /\ PendingEffect(t) => PendingEffect(t)'
<1>1. \A d \in Dispatches : hostState[d] = "UNKNOWN" => HostPending(d)
  BY DEF HostRows, HostPending
<1> QED BY <1>1 DEF Keeps, UnknownFact, PendingHost, PendingEffect, OpsOf, DispatchesOf

\* The task is where it was.
Steady(t) == /\ taskStatus'[t] = taskStatus[t] /\ marker'[t] = marker[t]
             /\ Pausing(t) => Pausing(t)'

LEMMA SteadyFacts ==
  ASSUME NEW t \in Tasks, Keeps, HostRows, TaskFacts(t), Steady(t)
  PROVE  TaskFacts(t)'
BY FactsKept DEF TaskFacts, Recovers, Waits, Steady

\* The task moved on from where nothing was unknown.
Moved(t) == /\ taskStatus[t] \notin {"RECOVERY_REQUIRED", "CANCELLED"} /\ marker'[t] = marker[t]
            /\ taskStatus'[t] \in {"READY", "RUNNING", "VERIFYING", "PAUSED", "COMPLETED"}

LEMMA MovedFacts ==
  ASSUME NEW t \in Tasks, Keeps, HostRows, TaskFacts(t), Moved(t)
  PROVE  TaskFacts(t)'
BY FactsKept DEF TaskFacts, Recovers, Waits, Moved

\* The task started to wait.
Parked(t) == /\ taskStatus[t] \notin {"RECOVERY_REQUIRED", "CANCELLED"} /\ marker'[t] = marker[t]
             /\ taskStatus'[t] = "WAITING" /\ Pausing(t)' /\ (PendingEffect(t) \/ PendingHost(t))

LEMMA ParkedFacts ==
  ASSUME NEW t \in Tasks, Keeps, HostRows, TaskFacts(t), Parked(t)
  PROVE  TaskFacts(t)'
BY FactsKept DEF TaskFacts, Recovers, Waits, Parked

Placed(t) == Steady(t) \/ Moved(t) \/ Parked(t) \/ taskStatus'[t] = "CANCELLED"

LEMMA PlacedFacts ==
  ASSUME NEW t \in Tasks, Keeps, HostRows, TaskFacts(t), Placed(t)
  PROVE  TaskFacts(t)'
<1>1. CASE taskStatus'[t] = "CANCELLED"
  BY <1>1 DEF TaskFacts, Recovers, Waits
<1> QED BY <1>1, SteadyFacts, MovedFacts, ParkedFacts DEF Placed

\* Where the calls of a controller leave the tasks.
LEMMA TasksDefined ==
  ASSUME TypeInv, NEW t \in Tasks,
         \/ \E ds \in SUBSET KnownEdges : CreateTask(t, ds) \/ ReviseTask(t, ds)
         \/ \E e \in KnownEdges : AddDependency(t, e)
         \/ CancelTask(t) \/ BindTask(t)
  PROVE  \A x \in Tasks : Placed(x)
<1>t. TaskTypes /\ RunTypes
  BY DEF TypeInv
<1> USE <1>t DEF TaskTypes, RunTypes, Placed, Steady, Pausing, RunsOf
<1>1. ASSUME NEW ds \in SUBSET KnownEdges, CreateTask(t, ds)
      PROVE  \A x \in Tasks : Placed(x)
  BY <1>1 DEF CreateTask, Moved, runVars
<1>2. ASSUME NEW ds \in SUBSET KnownEdges, ReviseTask(t, ds)
      PROVE  \A x \in Tasks : Placed(x)
  <2>1. Moved(t)
    BY <1>2 DEF ReviseTask, Moved
  <2>2. \A x \in Tasks \ {t} : Steady(x)
    BY <1>2 DEF ReviseTask
  <2> QED BY <2>1, <2>2
<1>3. ASSUME NEW e \in KnownEdges, AddDependency(t, e)
      PROVE  \A x \in Tasks : Placed(x)
  BY <1>3 DEF AddDependency, runVars
<1>4. CASE CancelTask(t)
  <2>1. taskStatus'[t] = "CANCELLED"
    BY <1>4 DEF CancelTask
  <2>2. \A x \in Tasks \ {t} : Steady(x)
    BY <1>4 DEF CancelTask
  <2> QED BY <2>1, <2>2
<1>5. CASE BindTask(t)
  BY <1>5 DEF BindTask, taskVars, runVars
<1> QED BY <1>1, <1>2, <1>3, <1>4, <1>5

LEMMA TasksProven ==
  ASSUME TypeInv, NEW t \in Tasks,
         \/ BeginVerification(t) \/ Rework(t) \/ Accept(t)
         \/ \E result \in {"PASS", "FAIL"} : RecordEvidence(t, result)
  PROVE  \A x \in Tasks : Placed(x)
<1>t. TaskTypes /\ RunTypes
  BY DEF TypeInv
<1> USE <1>t DEF TaskTypes, RunTypes, Placed, Steady, Pausing, RunsOf
<1>1. CASE BeginVerification(t) \/ Rework(t)
  BY <1>1 DEF BeginVerification, Rework, VerificationReady, Moved, runVars
<1>2. CASE Accept(t)
  <2>1. Moved(t)
    BY <1>2 DEF Accept, VerificationReady, Moved
  <2>2. \A x \in Tasks \ {t} : Steady(x)
    BY <1>2 DEF Accept
  <2> QED BY <2>1, <2>2
<1>3. CASE \E result \in {"PASS", "FAIL"} : RecordEvidence(t, result)
  BY <1>3 DEF RecordEvidence, ProofStep, runVars
<1> QED BY <1>1, <1>2, <1>3

LEMMA TasksInvalidated ==
  ASSUME TypeInv, NEW t \in Tasks, NEW n \in Revisions, Invalidate(t, n)
  PROVE  \A x \in Tasks : Placed(x)
<1>t. TaskTypes /\ RunTypes
  BY DEF TypeInv
<1> DEFINE affected == IF <<t, n>> \in accepted
                       THEN {<<t, n>>} \cup {<<x, taskRev[x]>> : x \in Dependents(t, n)}
                       ELSE {}
           hit == {x \in Tasks : <<x, taskRev[x]>> \in affected}
           outdated == {x \in Tasks \ hit : taskStatus[x] \in {"RUNNING", "VERIFYING"}
                                           /\ \E k \in affected : k[1] = x}
           stopped == {x \in hit : taskStatus[x] \in {"RUNNING", "VERIFYING"}}
<1>1. /\ pauseWanted' = [x \in Tasks |->
           IF PendingEffect(x) /\ x \in stopped \cup outdated THEN x \in stopped ELSE pauseWanted[x]]
      /\ taskStatus' = [x \in Tasks |-> IF x \in hit THEN StatusWithdrawn(x) ELSE taskStatus[x]]
      /\ \A r \in Runs : runState[r] = "PAUSE_REQUESTED" => runState'[r] = "PAUSE_REQUESTED"
      /\ UNCHANGED marker
  BY <1>t DEF Invalidate, RunTypes
<1>2. ASSUME NEW x \in Tasks
      PROVE  Placed(x)
  <2>1. CASE x \notin hit
    <3>1. taskStatus'[x] = taskStatus[x] /\ marker'[x] = marker[x]
      BY <1>1, <2>1
    <3>2. CASE taskStatus[x] \in {"RUNNING", "VERIFYING"}
      BY <3>1, <3>2 DEF Placed, Moved
    <3>3. CASE taskStatus[x] \notin {"RUNNING", "VERIFYING"}
      <4>1. pauseWanted'[x] = pauseWanted[x]
        BY <1>1, <3>3
      <4> QED BY <3>1, <4>1, <1>1 DEF Placed, Steady, Pausing, RunsOf
    <3> QED BY <3>2, <3>3
  <2>2. CASE x \in hit
    <3>1. taskStatus'[x] = StatusWithdrawn(x) /\ marker'[x] = marker[x]
      BY <1>1, <2>2
    <3>2. CASE taskStatus[x] \in {"RUNNING", "VERIFYING"} /\ PendingEffect(x)
      <4>1. taskStatus'[x] = "WAITING" /\ x \in stopped
        BY <3>1, <3>2, <2>2 DEF StatusWithdrawn
      <4>2. pauseWanted'[x]
        <5> HIDE DEF stopped, outdated
        <5> QED BY <1>1, <3>2, <4>1
      <4> QED BY <3>1, <3>2, <4>1, <4>2 DEF Placed, Parked, Pausing
    <3>3. CASE taskStatus[x] = "COMPLETED" \/ (taskStatus[x] \in {"RUNNING", "VERIFYING"} /\ ~PendingEffect(x))
      BY <3>1, <3>3 DEF StatusWithdrawn, Placed, Moved
    <3>4. CASE taskStatus[x] \notin {"RUNNING", "VERIFYING", "COMPLETED"}
      <4>1. taskStatus'[x] = taskStatus[x]
        BY <3>1, <3>4 DEF StatusWithdrawn
      <4>2. pauseWanted'[x] = pauseWanted[x]
        BY <1>1, <3>4
      <4> QED BY <3>1, <4>1, <4>2, <1>1 DEF Placed, Steady, Pausing, RunsOf
    <3> QED BY <3>2, <3>3, <3>4
  <2> QED BY <2>1, <2>2
<1> QED BY <1>2

LEMMA TasksRun ==
  ASSUME TypeInv, NEW r \in Runs,
         OpenRun(r) \/ PauseRun(r) \/ RebuildCheckpoint(r) \/ ResumeRun(r)
  PROVE  \A x \in Tasks : Placed(x)
<1> DEFINE t == RunTask[r]
<1>t. TaskTypes /\ RunTypes /\ t \in Tasks
  BY Constants DEF TypeInv
<1>1. ASSUME NEW s, NEW n, runState' = [runState EXCEPT ![r] = s],
             taskStatus' = [taskStatus EXCEPT ![t] = n], UNCHANGED <<marker, pauseWanted>>
      PROVE  \A x \in Tasks \ {t} : Steady(x)
  BY <1>1, <1>t DEF TaskTypes, RunTypes, Steady, Pausing, RunsOf
<1>2. CASE OpenRun(r)
  <2>1. Moved(t)
    BY <1>2, <1>t DEF OpenRun, Moved, RunStep, TaskTypes
  <2> QED BY <1>1, <1>2, <2>1 DEF OpenRun, RunStep, Placed
<1>3. CASE ResumeRun(r)
  <2>1. Moved(t)
    BY <1>3, <1>t DEF ResumeRun, Moved, RunStep, TaskTypes, RunTypes
  <2> QED BY <1>1, <1>3, <2>1 DEF ResumeRun, RunStep, Placed
<1>4. CASE PauseRun(r)
  <2> DEFINE waiting == PendingEffect(t) \/ PendingHost(t)
             s == IF waiting THEN "PAUSE_REQUESTED" ELSE "PAUSED"
             n == IF taskStatus[t] = "RECOVERY_REQUIRED" THEN taskStatus[t]
                  ELSE IF waiting THEN "WAITING" ELSE "PAUSED"
  <2>1. /\ runState[r] = "OPEN" /\ taskStatus[t] \in {"RUNNING", "VERIFYING", "RECOVERY_REQUIRED"}
        /\ runState' = [runState EXCEPT ![r] = s]
        /\ taskStatus' = [taskStatus EXCEPT ![t] = n]
        /\ UNCHANGED <<marker, pauseWanted>>
    BY <1>4 DEF PauseRun, RunStep
  <2>2. \A x \in Tasks \ {t} : Steady(x)
    <3> HIDE DEF s, n, t
    <3> QED BY <1>1, <2>1
  <2>3. Placed(t)
    <3>1. CASE taskStatus[t] = "RECOVERY_REQUIRED"
      <4>1. Pausing(t) => Pausing(t)'
        BY <2>1, <1>t DEF Pausing, RunsOf, RunTypes
      <4> QED BY <4>1, <3>1, <2>1, <1>t DEF Placed, Steady, TaskTypes
    <3>2. CASE taskStatus[t] # "RECOVERY_REQUIRED" /\ waiting
      <4>1. Pausing(t)'
        BY <2>1, <3>2, <1>t DEF Pausing, RunsOf, RunTypes
      <4> QED BY <4>1, <3>2, <2>1, <1>t DEF Placed, Parked, TaskTypes
    <3>3. CASE taskStatus[t] # "RECOVERY_REQUIRED" /\ ~waiting
      BY <3>3, <2>1, <1>t DEF Placed, Moved, TaskTypes
    <3> QED BY <3>1, <3>2, <3>3
  <2> QED BY <2>2, <2>3 DEF Placed
<1>5. CASE RebuildCheckpoint(r)
  BY <1>5 DEF RebuildCheckpoint, Placed, Steady, Pausing, taskVars
<1> QED BY <1>2, <1>3, <1>4, <1>5

LEMMA TasksPlaced ==
  ASSUME TypeInv, ~Answers, CallerStep \/ StoreStep \/ HostNext
  PROVE  \A x \in Tasks : Placed(x)
<1>t. TaskTypes /\ RunTypes
  BY DEF TypeInv
<1>q. ASSUME UNCHANGED <<taskStatus, marker, pauseWanted, runState>>
      PROVE  \A x \in Tasks : Placed(x)
  BY <1>q DEF Placed, Steady, Pausing
<1>1. CASE OperationNext
  BY <1>1, <1>q DEF OperationNext, RecordGrant, RevokeGrant, ExpireGrant, ConfigureBudget, AmendBudget,
     SetBudget, Prepare, CancelPrepared, ExpireLease, controlUnchanged, taskVars, runVars
<1>2. CASE LifecycleNext
  <2>1. CASE SetPhaseActive
    BY <2>1, <1>q DEF SetPhaseActive, taskVars, runVars
  <2> QED BY <1>2, <2>1, TasksDefined, TasksProven, TasksInvalidated, TasksRun DEF LifecycleNext
<1>3. CASE StoreStep
  <2>1. CASE UNCHANGED storeVars
    BY <2>1, <1>q DEF storeVars, taskVars, runVars
  <2>2. ASSUME NEW o \in Ops, RecordIntent(o)
        PROVE  \A x \in Tasks : Placed(x)
    <3>1. Moved(OpTask(o))
      BY <2>2, <1>t, Constants DEF RecordIntent, GrantAdmits, Moved, TaskTypes, OpTask
    <3>2. \A x \in Tasks \ {OpTask(o)} : Steady(x)
      BY <2>2, <1>t DEF RecordIntent, Steady, Pausing, TaskTypes, runVars
    <3> QED BY <3>1, <3>2 DEF Placed
  <2> QED BY <1>3, <2>1, <2>2 DEF StoreStep, Answers
<1>4. CASE HostNext
  <2>1. ASSUME NEW c \in Calls, Launch(c)
        PROVE  \A x \in Tasks : Placed(x)
    <3> DEFINE d == CallDispatch[c]
               t == DispatchTask[d]
    <3>1. d \in Dispatches /\ t \in Tasks
      BY Constants
    <3>2. Moved(t)
      BY <2>1, <3>1, <1>t DEF Launch, DispatchReady, Moved, TaskTypes
    <3>3. \A r \in Runs : RunTask[r] # t => runState'[r] = runState[r]
      BY <2>1, <3>1, ConstantsAssumption DEF Launch, RunsAtLaunch, CurrentRuns, RunsOf
    <3>4. \A x \in Tasks \ {t} : Steady(x)
      BY <2>1, <3>3, <1>t DEF Launch, Steady, Pausing, RunsOf, TaskTypes
    <3> QED BY <3>2, <3>4 DEF Placed
  <2>2. CASE ~\E c \in Calls : Launch(c)
    BY <1>4, <2>2, <1>q DEF Answers, HostNext, CallStep, ConfigurePolicy, AmendPolicy, ExpirePolicy,
       RevokePolicy, PolicyStep, CancelBeforeLaunch, PrepareDispatch, Poll, Cancel, Ask, Regressed,
       CallRaises, CallerDies, CallStart, CallCancel, storeVars, taskVars, runVars
  <2> QED BY <2>1, <2>2
<1> QED BY <1>1, <1>2, <1>3, <1>4 DEF CallerStep

\* What reconcile_effect_state leaves of other tasks.
LEMMA ReconcileOthers ==
  ASSUME TaskTypes, NEW t \in Tasks, NEW runs \in [Runs -> RunStates], NEW released \in BOOLEAN,
         Reconcile(t, runs, released)
  PROVE  /\ \A x \in Tasks \ {t} : /\ taskStatus'[x] = taskStatus[x] /\ marker'[x] = marker[x]
                                   /\ pauseWanted'[x] = pauseWanted[x]
         /\ \A r \in Runs : \/ runState'[r] = runs[r]
                            \/ RunTask[r] = t /\ runs[r] = "PAUSE_REQUESTED" /\ runState'[r] = "PAUSED"
<1>1. CASE UnknownFact(t)'
  BY <1>1 DEF Reconcile, TaskTypes
<1>2. CASE ~UnknownFact(t)'
  <2>1. /\ \A x \in Tasks \ {t} : /\ taskStatus'[x] = taskStatus[x] /\ marker'[x] = marker[x]
                                  /\ pauseWanted'[x] = pauseWanted[x]
    BY <1>2 DEF Reconcile, TaskTypes
  <2>2. \A r \in Runs : \/ runState'[r] = runs[r]
                        \/ RunTask[r] = t /\ runs[r] = "PAUSE_REQUESTED" /\ runState'[r] = "PAUSED"
    <3> DEFINE settles(r) == NothingPending(t)' /\ r \in RunsOf(t) /\ runs[r] = "PAUSE_REQUESTED"
    <3>1. runState' = [r \in Runs |-> IF settles(r) THEN "PAUSED" ELSE runs[r]]
      BY <1>2 DEF Reconcile
    <3>2. \A r \in Runs : settles(r) => RunTask[r] = t /\ runs[r] = "PAUSE_REQUESTED"
      BY DEF RunsOf
    <3> HIDE DEF settles
    <3> QED BY <3>1, <3>2
  <2> QED BY <2>1, <2>2
<1> QED BY <1>1, <1>2

\* An unknown fact parks the task, or it is cancelled.
LEMMA ReconcileParks ==
  ASSUME TaskTypes, NEW t \in Tasks, NEW runs \in [Runs -> RunStates], NEW released \in BOOLEAN,
         Reconcile(t, runs, released), TaskFacts(t), UnknownFact(t)',
         \A r \in Runs : runState[r] = "PAUSE_REQUESTED" => runs[r] = "PAUSE_REQUESTED",
         PendingEffect(t)' \/ PendingHost(t)'
  PROVE  TaskFacts(t)'
<1>1. runState' = runs /\ UNCHANGED pauseWanted
  BY DEF Reconcile
<1>2. Pausing(t) => Pausing(t)'
  BY <1>1 DEF Pausing, RunsOf
<1>3. CASE Parks(t)
  <2> DEFINE m == IF marker[t] # "NONE" THEN marker[t]
                  ELSE IF taskStatus[t] \in Resumable THEN taskStatus[t] ELSE "PAUSED"
  <2>1. taskStatus'[t] = "RECOVERY_REQUIRED" /\ marker'[t] = m
    BY <1>3 DEF Reconcile, TaskTypes
  <2>2. marker[t] = "NONE"
    BY <1>3 DEF Parks, TaskFacts, Recovers
  <2>3. m # "NONE" /\ (m = "WAITING" => taskStatus[t] = "WAITING")
    BY <2>2 DEF Resumable
  <2> HIDE DEF m
  <2> QED BY <2>1, <2>3, <1>2 DEF TaskFacts, Recovers, Waits
<1>4. CASE ~Parks(t)
  <2>1. UNCHANGED <<taskStatus, marker>>
    BY <1>4 DEF Reconcile
  <2> QED BY <2>1, <1>4, <1>2 DEF Parks, TaskFacts, Recovers, Waits
<1> QED BY <1>3, <1>4

\* With nothing unknown the task leaves recovery, and waits on only while
\* something that can be observed is pending.
LEMMA ReconcileSettles ==
  ASSUME TaskTypes, NEW t \in Tasks, NEW runs \in [Runs -> RunStates], NEW released \in BOOLEAN,
         Reconcile(t, runs, released), TaskFacts(t), ~UnknownFact(t)',
         \A r \in Runs : runState[r] = "PAUSE_REQUESTED" => runs[r] = "PAUSE_REQUESTED"
  PROVE  TaskFacts(t)'
<1> DEFINE requested == {r \in RunsOf(t) : runs[r] = "PAUSE_REQUESTED"}
           pausing == requested # {} \/ pauseWanted[t]
           status == IF marker[t] = "NONE" \/ taskStatus[t] # "RECOVERY_REQUIRED"
                     THEN taskStatus[t]
                     ELSE IF pausing THEN "WAITING" ELSE marker[t]
           settled == NothingPending(t)'
           parked == IF settled /\ pausing /\ status = "WAITING" THEN "PAUSED" ELSE status
           final == IF released /\ parked = "RUNNING" THEN "READY" ELSE parked
           kept == parked = status
<1>1. /\ taskStatus'[t] = final /\ marker'[t] = "NONE"
      /\ runState' = [r \in Runs |-> IF settled /\ r \in requested THEN "PAUSED" ELSE runs[r]]
  BY DEF Reconcile, TaskTypes
<1>2. pauseWanted'[t] = (pauseWanted[t] /\ kept)
  BY DEF Reconcile, TaskTypes
<1>3. Pausing(t) => pausing
  BY DEF Pausing, RunsOf
<1>4. status = "WAITING" => pausing
  BY <1>3 DEF TaskFacts, Waits
<1>5. taskStatus[t] # "CANCELLED" => status # "RECOVERY_REQUIRED"
  BY DEF TaskFacts, Recovers, TaskTypes, Resumable
<1>6. taskStatus[t] = "CANCELLED" => status = "CANCELLED"
  OBVIOUS
<1>7. pausing \in BOOLEAN /\ settled \in BOOLEAN /\ (settled <=> ~PendingEffect(t)' /\ ~PendingHost(t)')
  BY DEF NothingPending, TaskTypes
<1>8. ~settled /\ pausing /\ kept => Pausing(t)'
  <2>1. CASE pauseWanted[t]
    BY <2>1, <1>2 DEF Pausing
  <2>2. CASE requested # {}
    BY <2>2, <1>1 DEF Pausing, RunsOf
  <2> QED BY <2>1, <2>2
<1> HIDE DEF status, settled, pausing, requested
<1>9. final = "WAITING" => ~settled /\ pausing /\ kept
  BY <1>4, <1>7
<1>10. /\ taskStatus[t] # "CANCELLED" => final # "RECOVERY_REQUIRED"
       /\ taskStatus[t] = "CANCELLED" => final = "CANCELLED"
  BY <1>5, <1>6
<1> HIDE DEF final, kept
<1>11. taskStatus'[t] = "WAITING" => (PendingEffect(t)' \/ PendingHost(t)') /\ Pausing(t)'
  BY <1>1, <1>7, <1>8, <1>9
<1>12. taskStatus'[t] # "RECOVERY_REQUIRED"
  BY <1>1, <1>10
<1> QED BY <1>1, <1>11, <1>12 DEF TaskFacts, Recovers, Waits

\* A Host that is pending was launched for the task's current revision.
HostRevs == \A d \in Dispatches : HostPending(d) => hostRev[d] = taskRev[DispatchTask[d]]

TaskInv == HostRevs /\ \A t \in Tasks : TaskFacts(t)

LEMMA RevStep ==
  ASSUME TypeInv, CallerStep \/ StoreStep \/ HostNext, NEW t \in Tasks, taskRev'[t] # taskRev[t]
  PROVE  \E ds \in SUBSET KnownEdges : CreateTask(t, ds) \/ ReviseTask(t, ds)
<1>t. TaskTypes
  BY DEF TypeInv
<1>1. ~HostNext
  BY DEF HostNext, CallStep, ConfigurePolicy, AmendPolicy, ExpirePolicy, RevokePolicy, PolicyStep,
     CancelBeforeLaunch, PrepareDispatch, Launch, Poll, Cancel, Ask, Regressed, ObserveHost, CallUncertain,
     CallRaises, CallerDies, CallStart, CallCancel, storeVars, taskVars
<1>2. ~StoreStep
  BY DEF StoreStep, RecordIntent, Observe, storeVars, taskVars
<1>3. ~OperationNext
  BY DEF OperationNext, RecordGrant, RevokeGrant, ExpireGrant, ConfigureBudget, AmendBudget, SetBudget,
     Prepare, CancelPrepared, ExpireLease, controlUnchanged, taskVars
<1>4. ~SetPhaseActive /\ ~\E r \in Runs : OpenRun(r) \/ PauseRun(r) \/ RebuildCheckpoint(r) \/ ResumeRun(r)
  BY DEF SetPhaseActive, OpenRun, PauseRun, RebuildCheckpoint, ResumeRun, RunStep, taskVars
<1>5. PICK x \in Tasks :
        \/ \E ds \in SUBSET KnownEdges : CreateTask(x, ds) \/ ReviseTask(x, ds)
        \/ \E e \in KnownEdges : AddDependency(x, e)
        \/ CancelTask(x) \/ BindTask(x) \/ BeginVerification(x) \/ Rework(x) \/ Accept(x)
        \/ \E result \in {"PASS", "FAIL"} : RecordEvidence(x, result)
        \/ \E r \in Revisions : Invalidate(x, r)
  BY <1>1, <1>2, <1>3, <1>4 DEF CallerStep, LifecycleNext
<1>6. PICK ds \in SUBSET KnownEdges : CreateTask(x, ds) \/ ReviseTask(x, ds)
  BY <1>5 DEF AddDependency, CancelTask, BindTask, BeginVerification, Rework, Accept, RecordEvidence,
     Invalidate, ProofStep, taskVars
<1>7. x = t
  BY <1>6, <1>t DEF CreateTask, ReviseTask, TaskTypes
<1> QED BY <1>6, <1>7

LEMMA HostRevsStep ==
  ASSUME TypeInv, HostInv, HostRevs, CallerStep \/ StoreStep \/ HostNext
  PROVE  HostRevs'
<1> SUFFICES ASSUME NEW d \in Dispatches, HostPending(d)'
             PROVE  hostRev'[d] = taskRev'[DispatchTask[d]]
  BY DEF HostRevs
<1>t. HostTypes /\ TaskTypes /\ HostsKnown /\ TasksKnown /\ DispatchTask[d] \in Tasks
  BY Constants DEF TypeInv
<1>1. CASE HostNext /\ ~\E c \in Calls : Launch(c) /\ CallDispatch[c] = d
  <2>1. HostPending(d)
    <3>1. launched[d]
      <4>1. ASSUME NEW c \in Calls, Launch(c)
            PROVE  launched[d]
        BY <1>1, <1>t, <4>1 DEF HostPending, Launch, HostTypes
      <4>2. CASE ~\E c \in Calls : Launch(c)
        BY <1>1, <4>2 DEF HostPending, HostNext, CallStep, ConfigurePolicy, AmendPolicy, ExpirePolicy,
           RevokePolicy, PolicyStep, CancelBeforeLaunch, PrepareDispatch, Poll, Cancel, Ask, Regressed,
           ObserveHost, CallUncertain, CallRaises, CallerDies, CallStart, CallCancel, storeVars, hostVars
      <4> QED BY <4>1, <4>2
    <3> QED BY <3>1, <1>1, HostPendingStep DEF HostInv, HostPending
  <2>2. hostRev'[d] = hostRev[d]
    <3>1. ASSUME NEW x \in Dispatches, NEW source \in Runs \cup {NoHost}, PrepareDispatch(x, source)
          PROVE  hostRev'[d] = hostRev[d]
      BY <2>1, <3>1, <1>t DEF PrepareDispatch, HostPending, HostsKnown, HostTypes
    <3>2. CASE ~\E x \in Dispatches, source \in Runs \cup {NoHost} : PrepareDispatch(x, source)
      BY <1>1, <3>2 DEF HostNext, CallStep, ConfigurePolicy, AmendPolicy, ExpirePolicy, RevokePolicy,
         PolicyStep, CancelBeforeLaunch, Launch, Poll, Cancel, Ask, Regressed, ObserveHost,
         CallUncertain, CallRaises, CallerDies, CallStart, CallCancel, storeVars, hostVars
    <3> QED BY <3>1, <3>2
  <2>3. taskRev'[DispatchTask[d]] = taskRev[DispatchTask[d]]
    BY <1>1 DEF HostNext, CallStep, ConfigurePolicy, AmendPolicy, ExpirePolicy, RevokePolicy, PolicyStep,
       CancelBeforeLaunch, PrepareDispatch, Launch, Poll, Cancel, Ask, Regressed, ObserveHost,
       CallUncertain, CallRaises, CallerDies, CallStart, CallCancel, storeVars, taskVars
  <2> QED BY <2>1, <2>2, <2>3 DEF HostRevs
<1>2. ASSUME NEW c \in Calls, Launch(c), CallDispatch[c] = d
      PROVE  hostRev'[d] = taskRev'[DispatchTask[d]]
  BY <1>2 DEF Launch
<1>3. CASE CallerStep \/ StoreStep
  <2>1. UNCHANGED hostCore
    BY <1>3, HostQuiet DEF CallerStep
  <2>2. HostPending(d) /\ hostRev'[d] = hostRev[d]
    BY <2>1 DEF hostCore, HostPending
  <2>3. taskRev'[DispatchTask[d]] = taskRev[DispatchTask[d]]
    <3> SUFFICES ASSUME taskRev'[DispatchTask[d]] # taskRev[DispatchTask[d]]
                 PROVE  FALSE
      OBVIOUS
    <3>1. PICK ds \in SUBSET KnownEdges : CreateTask(DispatchTask[d], ds) \/ ReviseTask(DispatchTask[d], ds)
      BY <1>3, <1>t, RevStep
    <3>2. CASE CreateTask(DispatchTask[d], ds)
      BY <3>2, <2>2, <1>t DEF CreateTask, HostsKnown, HostPending
    <3>3. CASE ReviseTask(DispatchTask[d], ds)
      BY <3>3, <2>2 DEF ReviseTask, PendingHost, DispatchesOf
    <3> QED BY <3>1, <3>2, <3>3
  <2> QED BY <2>2, <2>3 DEF HostRevs
<1> QED BY <1>1, <1>2, <1>3

\* A transaction that records an answer about task t and reconciles it.
LEMMA AnswerFacts ==
  ASSUME TypeInv, HostRows', \A x \in Tasks : TaskFacts(x),
         NEW t \in Tasks, NEW runs \in [Runs -> RunStates], NEW released \in BOOLEAN,
         Reconcile(t, runs, released),
         \A r \in Runs : runState[r] = "PAUSE_REQUESTED" => runs[r] = "PAUSE_REQUESTED",
         \A o \in Ops : OpTask(o) # t => opState'[o] = opState[o],
         \A d \in Dispatches : DispatchTask[d] # t =>
            hostState'[d] = hostState[d] /\ (HostPending(d)' <=> HostPending(d))
  PROVE  \A x \in Tasks : TaskFacts(x)'
<1>t. TaskTypes
  BY DEF TypeInv
<1>1. UnknownFact(t)' => PendingEffect(t)' \/ PendingHost(t)'
  <2>1. \A d \in Dispatches : hostState'[d] = "UNKNOWN" => HostPending(d)'
    BY DEF HostRows, HostPending
  <2>2. \A o \in Ops : opState'[o] = "UNKNOWN" => OpPending(o)'
    BY DEF OpPending
  <2> QED BY <2>1, <2>2 DEF UnknownFact, PendingEffect, PendingHost, OpsOf, DispatchesOf
<1>2. TaskFacts(t)'
  BY <1>1, <1>t, ReconcileParks, ReconcileSettles
<1>3. ASSUME NEW x \in Tasks \ {t}
      PROVE  TaskFacts(x)'
  <2>1. /\ UnknownFact(x)' <=> UnknownFact(x)
        /\ PendingEffect(x)' <=> PendingEffect(x)
        /\ PendingHost(x)' <=> PendingHost(x)
    BY DEF UnknownFact, PendingEffect, PendingHost, OpsOf, DispatchesOf, OpPending
  <2>2. taskStatus'[x] = taskStatus[x] /\ marker'[x] = marker[x] /\ pauseWanted'[x] = pauseWanted[x]
    BY <1>t, ReconcileOthers
  <2>3. \A r \in RunsOf(x) : runState[r] = "PAUSE_REQUESTED" => runState'[r] = "PAUSE_REQUESTED"
    BY <1>t, ReconcileOthers DEF RunsOf
  <2>4. Pausing(x) => Pausing(x)'
    BY <2>2, <2>3 DEF Pausing, RunsOf
  <2> QED BY <2>1, <2>2, <2>4 DEF TaskFacts, Recovers, Waits
<1> QED BY <1>2, <1>3

LEMMA ObservedFacts ==
  ASSUME TypeInv, HostRows', TaskInv, NEW o \in Ops, NEW outcome \in Outcomes, Observe(o, outcome)
  PROVE  \A x \in Tasks : TaskFacts(x)'
<1>1. Reconcile(OpTask(o), runState, FALSE) /\ OpTask(o) \in Tasks /\ runState \in [Runs -> RunStates]
  BY Constants DEF Observe, TypeInv, RunTypes
<1>2. \A p \in Ops : OpTask(p) # OpTask(o) => opState'[p] = opState[p]
  BY DEF Observe, TypeInv, OpTypes
<1>3. \A d \in Dispatches : hostState'[d] = hostState[d] /\ (HostPending(d)' <=> HostPending(d))
  BY DEF Observe, HostPending
<1> QED BY <1>1, <1>2, <1>3, AnswerFacts DEF TaskInv

LEMMA AnsweredFacts ==
  ASSUME TypeInv, EffectInv, HostInv, HostRows', TaskInv, NEW c \in Calls, ObserveHost(c) \/ CallUncertain(c)
  PROVE  \A x \in Tasks : TaskFacts(x)'
<1> DEFINE d == CallDispatch[c]
           t == DispatchTask[d]
<1>t. /\ d \in Dispatches /\ t \in Tasks
      /\ HostTypes /\ RunTypes /\ OpTypes /\ TaskTypes /\ HostRows /\ CallsKnown
  BY Constants DEF TypeInv, HostInv
<1>l. launched[d]
  BY <1>t DEF ObserveHost, CallUncertain, Answered, CallsKnown
<1>k. ASSUME Keeps, UNCHANGED <<taskStatus, marker, pauseWanted>>,
             \A r \in Runs : runState[r] = "PAUSE_REQUESTED" => runState'[r] = "PAUSE_REQUESTED"
      PROVE  \A x \in Tasks : TaskFacts(x)'
  <2>1. \A x \in Tasks : Steady(x)
    BY <1>k DEF Steady, Pausing, RunsOf
  <2> QED BY <2>1, <1>k, <1>t, SteadyFacts DEF TaskInv
<1>1. CASE ObserveHost(c)
  <2> DEFINE ended == Got(c).quiesced = "YES"
             runs == IF ended THEN RunsAfterEnd(d) ELSE runState
             released == ended /\ quiesced[d] # "YES"
  <2>1. /\ runs \in [Runs -> RunStates] /\ released \in BOOLEAN
        /\ \A r \in Runs : runState[r] = "PAUSE_REQUESTED" => runs[r] = "PAUSE_REQUESTED"
    BY <1>t DEF RunsAfterEnd, RunTypes, RunStates
  <2>2. /\ \A o \in Ops : OpTask(o) # t => opState'[o] = opState[o]
        /\ \A x \in Dispatches : DispatchTask[x] # t =>
             hostState'[x] = hostState[x] /\ (HostPending(x)' <=> HostPending(x))
    BY <1>1, <1>t DEF ObserveHost, Orphans, HostGrants, OpTask, HostTypes, HostPending
  <2>3. CASE Reconcile(t, runs, released)
    <3> HIDE DEF runs, released, t
    <3> QED BY <2>1, <2>2, <2>3, <1>t, AnswerFacts DEF TaskInv
  <2>4. CASE ~Reconcile(t, runs, released)
    <3>1. taskRev[t] # hostRev[d] /\ runState' = runs /\ UNCHANGED <<taskStatus, marker, pauseWanted>>
      BY <1>1, <2>4 DEF ObserveHost
    <3>2. quiesced[d] = "YES" /\ hostState[d] = "EXITED"
      BY <3>1, <1>l, <1>t DEF TaskInv, HostRevs, HostPending, HostRows
    <3>3. Answered(c) /\ ~Regresses(c)
      BY <1>1 DEF ObserveHost
    <3>4. Got(c).quiesced = "YES" /\ Got(c).state = "EXITED"
      BY <3>2, <3>3, GotTypes DEF Regresses
    <3>5. \A o \in Ops : o \notin Orphans(d)
      BY <3>2, <1>t, ConstantsAssumption DEF HostInv, OwnIntents, HostPending, Orphans, HostGrants,
         OpHost, OpTask
    <3>6. \A o \in Ops : opState'[o] = opState[o]
      BY <1>1, <3>5 DEF ObserveHost
    <3>7. UNCHANGED launched /\ \A x \in Dispatches : hostState'[x] = hostState[x] /\ quiesced'[x] = quiesced[x]
      BY <1>1, <3>2, <3>4, <1>t DEF ObserveHost, HostTypes
    <3>8. Keeps
      BY <3>6, <3>7 DEF Keeps, OpPending, HostPending
    <3> QED BY <3>1, <3>8, <2>1, <1>k
  <2> QED BY <2>3, <2>4
<1>2. CASE CallUncertain(c)
  <2>1. /\ UNCHANGED <<opState, launched, quiesced>>
        /\ hostState' = [hostState EXCEPT ![d] = IF quiesced[d] = "YES" THEN hostState[d] ELSE "UNKNOWN"]
    BY <1>2, <1>t DEF CallUncertain, HostTypes
  <2>2. CASE quiesced[d] = "YES"
    <3>1. UNCHANGED <<taskStatus, marker, pauseWanted, runState>>
      BY <1>2, <2>2 DEF CallUncertain
    <3>2. Keeps
      BY <2>1, <2>2, <1>t DEF Keeps, OpPending, HostPending, HostTypes
    <3> QED BY <3>1, <3>2, <1>k
  <2>3. CASE quiesced[d] # "YES"
    <3>1. taskRev[t] = hostRev[d]
      BY <2>3, <1>l, <1>t DEF TaskInv, HostRevs, HostPending
    <3>2. Reconcile(t, runState, FALSE)
      BY <1>2, <2>3, <3>1 DEF CallUncertain
    <3>3. /\ \A o \in Ops : OpTask(o) # t => opState'[o] = opState[o]
          /\ \A x \in Dispatches : DispatchTask[x] # t =>
               hostState'[x] = hostState[x] /\ (HostPending(x)' <=> HostPending(x))
      BY <2>1, <1>t DEF HostTypes, HostPending
    <3> HIDE DEF t
    <3> QED BY <3>2, <3>3, <1>t, AnswerFacts DEF TaskInv, RunTypes
  <2> QED BY <2>2, <2>3
<1> QED BY <1>1, <1>2

LEMMA TaskInvStep ==
  ASSUME TypeInv, EffectInv, HostInv, HostInv', TaskInv, [Next]_vars
  PROVE  TaskInv'
<1>1. CallerStep \/ StoreStep \/ HostNext
  BY CoreSteps
<1>2. HostRevs'
  BY <1>1, HostRevsStep DEF TaskInv
<1>3. CASE ~Answers
  BY <1>1, <1>2, <1>3, StepKeeps, TasksPlaced, PlacedFacts DEF TaskInv, HostInv
<1>4. CASE Answers
  BY <1>2, <1>4, ObservedFacts, AnsweredFacts DEF Answers, TaskInv, HostInv
<1> QED BY <1>3, <1>4

LEMMA TaskInvariance == Spec => []TaskInv
<1>1. Init => TaskInv
  BY DEF Init, StoreInit, TaskInv, HostRevs, HostPending, TaskFacts, Recovers, Waits, UnknownFact, OpsOf,
     DispatchesOf
<1>2. TypeInv /\ EffectInv /\ HostInv /\ HostInv' /\ TaskInv /\ [Next]_vars => TaskInv'
  BY TaskInvStep
<1> QED
  BY TypeInvariance, EffectInvariance, HostInvariance, <1>1, <1>2, PTL DEF Spec

\* A task is in recovery exactly while something about it is unknown, or is
\* still to be observed, and where it is to return is remembered exactly while
\* it is there (reconcile_effect_state of v2_task_lifecycle, called by observe,
\* _observe and HostCallUncertain).
THEOREM RecoveryIsJustifiedHolds == Spec => []RecoveryIsJustified
<1>1. TaskInv => RecoveryIsJustified
  BY DEF TaskInv, TaskFacts, Recovers, RecoveryIsJustified
<1> QED
  BY TaskInvariance, <1>1, PTL

\* A task waits only while an effect or a Host of it can still be observed, so
\* that the observation settles it (pause_run, invalidate_evidence and
\* reconcile_effect_state).
THEOREM WaitingHasCauseHolds == Spec => []WaitingHasCause
<1>1. TaskInv => WaitingHasCause
  BY DEF TaskInv, TaskFacts, Waits, WaitingHasCause
<1> QED
  BY TaskInvariance, <1>1, PTL

-----------------------------------------------------------------------------
(* Acceptance. *)

\* A Run is opened by open_run, by resume_run or by the launch of its Host.
LEMMA RunOpens ==
  ASSUME TypeInv, [Next]_vars, NEW r \in Runs, runState'[r] = "OPEN", runState[r] # "OPEN"
  PROVE  OpenRun(r) \/ ResumeRun(r) \/ \E c \in Calls : Launch(c) /\ RunHost[r] = CallDispatch[c]
<1>t. RunTypes /\ TaskTypes
  BY DEF TypeInv
<1>s. CallerStep \/ StoreStep \/ HostNext
  BY CoreSteps
<1>1. CASE OperationNext
  BY <1>1 DEF OperationNext, RecordGrant, RevokeGrant, ExpireGrant, ConfigureBudget, AmendBudget,
     SetBudget, Prepare, CancelPrepared, ExpireLease, controlUnchanged, runVars
<1>2. CASE LifecycleNext
  <2>1. ~\E t \in Tasks : \/ \E ds \in SUBSET KnownEdges : CreateTask(t, ds) \/ ReviseTask(t, ds)
                          \/ \E e \in KnownEdges : AddDependency(t, e)
                          \/ CancelTask(t) \/ BindTask(t)
    BY DEF CreateTask, ReviseTask, AddDependency, CancelTask, BindTask, runVars
  <2>2. ~\E t \in Tasks : \/ BeginVerification(t) \/ Rework(t) \/ Accept(t)
                          \/ \E result \in {"PASS", "FAIL"} : RecordEvidence(t, result)
                          \/ \E n \in Revisions : Invalidate(t, n)
    BY ZenonT(60) DEF BeginVerification, Rework, Accept, RecordEvidence, Invalidate, runVars
  <2>3. ~SetPhaseActive
    BY DEF SetPhaseActive, runVars
  <2>4. PICK n \in Runs : OpenRun(n) \/ PauseRun(n) \/ RebuildCheckpoint(n) \/ ResumeRun(n)
    BY <1>2, <2>1, <2>2, <2>3 DEF LifecycleNext
  <2>5. n = r
    BY <2>4, <1>t DEF OpenRun, PauseRun, RebuildCheckpoint, ResumeRun, RunTypes
  <2> QED BY <2>4, <2>5, <1>t DEF PauseRun, RebuildCheckpoint, RunTypes
\* What an answer leaves open was open.
<1>a. ASSUME NEW x \in Tasks, NEW runs \in [Runs -> RunStates], NEW released \in BOOLEAN,
             Reconcile(x, runs, released) \/ runState' = runs,
             runs[r] = "OPEN" => runState[r] = "OPEN"
      PROVE  FALSE
  BY <1>a, <1>t, ReconcileOthers
<1>3. CASE StoreStep
  <2>1. ASSUME NEW o \in Ops, NEW outcome \in Outcomes, Observe(o, outcome)
        PROVE  FALSE
    <3>1. Reconcile(OpTask(o), runState, FALSE)
      BY <2>1 DEF Observe
    <3> QED BY <3>1, <1>a, <1>t, Constants DEF RunTypes
  <2> QED BY <1>3, <2>1 DEF StoreStep, RecordIntent, storeVars, runVars
<1>4. CASE HostNext
  <2>1. ASSUME NEW c \in Calls, Launch(c)
        PROVE  RunHost[r] = CallDispatch[c]
    BY <2>1 DEF Launch, RunsAtLaunch
  <2>2. ASSUME NEW c \in Calls, ObserveHost(c)
        PROVE  FALSE
    <3> DEFINE d == CallDispatch[c]
               x == DispatchTask[d]
               ended == Got(c).quiesced = "YES"
               runs == IF ended THEN RunsAfterEnd(d) ELSE runState
               released == ended /\ quiesced[d] # "YES"
    <3>1. runs \in [Runs -> RunStates] /\ released \in BOOLEAN /\ x \in Tasks
      BY <1>t, Constants DEF RunsAfterEnd, RunTypes, RunStates
    <3>2. runs[r] = "OPEN" => runState[r] = "OPEN"
      BY DEF RunsAfterEnd
    <3>3. Reconcile(x, runs, released) \/ runState' = runs
      BY <2>2 DEF ObserveHost
    <3> HIDE DEF runs, released, x
    <3> QED BY <3>1, <3>2, <3>3, <1>a
  <2>3. ASSUME NEW c \in Calls, CallUncertain(c)
        PROVE  FALSE
    <3>1. Reconcile(DispatchTask[CallDispatch[c]], runState, FALSE) \/ runState' = runState
      BY <2>3 DEF CallUncertain
    <3> QED BY <3>1, <1>a, <1>t, Constants DEF RunTypes
  <2>4. CASE ~\E c \in Calls : Launch(c) \/ ObserveHost(c) \/ CallUncertain(c)
    BY <1>4, <2>4 DEF HostNext, CallStep, ConfigurePolicy, AmendPolicy, ExpirePolicy,
       RevokePolicy, PolicyStep, CancelBeforeLaunch, PrepareDispatch, Poll, Cancel, Ask, Regressed,
       CallRaises, CallerDies, CallStart, CallCancel, storeVars, runVars
  <2> QED BY <2>1, <2>2, <2>3, <2>4
<1> QED BY <1>s, <1>1, <1>2, <1>3, <1>4 DEF CallerStep

\* A Run in progress is one of its task's current revision.
RunRevs == \A r \in Runs : runState[r] = "OPEN" =>
             runRev[r] = taskRev[RunTask[r]] /\ taskStatus[RunTask[r]] # "ABSENT"

LEMMA RunRevKept ==
  ASSUME TypeInv, [Next]_vars, NEW r \in Runs, runState[r] = "OPEN",
         ~\E c \in Calls : Launch(c) /\ RunHost[r] = CallDispatch[c]
  PROVE  runRev'[r] = runRev[r]
<1>t. RunTypes
  BY DEF TypeInv
<1>s. CallerStep \/ StoreStep \/ HostNext
  BY CoreSteps
<1>1. CASE OperationNext \/ StoreStep
  BY <1>1 DEF OperationNext, RecordGrant, RevokeGrant, ExpireGrant, ConfigureBudget, AmendBudget,
     SetBudget, Prepare, CancelPrepared, ExpireLease, controlUnchanged, StoreStep, RecordIntent, Observe,
     storeVars, runVars
<1>2. CASE LifecycleNext
  <2>1. ASSUME NEW t \in Tasks,
               \/ \E ds \in SUBSET KnownEdges : CreateTask(t, ds) \/ ReviseTask(t, ds)
               \/ \E e \in KnownEdges : AddDependency(t, e)
               \/ CancelTask(t) \/ BindTask(t)
        PROVE  runRev'[r] = runRev[r]
    BY <2>1 DEF CreateTask, ReviseTask, AddDependency, CancelTask, BindTask, runVars
  <2>2. ASSUME NEW t \in Tasks,
               \/ BeginVerification(t) \/ Rework(t) \/ Accept(t)
               \/ \E result \in {"PASS", "FAIL"} : RecordEvidence(t, result)
               \/ \E n \in Revisions : Invalidate(t, n)
        PROVE  runRev'[r] = runRev[r]
    BY <2>2 DEF BeginVerification, Rework, Accept, RecordEvidence, Invalidate, runVars
  <2>3. ASSUME NEW n \in Runs, OpenRun(n) \/ PauseRun(n) \/ RebuildCheckpoint(n) \/ ResumeRun(n)
        PROVE  runRev'[r] = runRev[r]
    BY <2>3, <1>t DEF OpenRun, PauseRun, RebuildCheckpoint, ResumeRun, RunTypes
  <2>4. CASE SetPhaseActive
    BY <2>4 DEF SetPhaseActive, runVars
  <2> QED BY <1>2, <2>1, <2>2, <2>3, <2>4 DEF LifecycleNext
<1>3. CASE HostNext
  <2>1. ASSUME NEW c \in Calls, Launch(c)
        PROVE  runRev'[r] = runRev[r]
    BY <2>1 DEF Launch
  <2>2. CASE ~\E c \in Calls : Launch(c)
    BY <1>3, <2>2 DEF HostNext, CallStep, ConfigurePolicy, AmendPolicy, ExpirePolicy,
       RevokePolicy, PolicyStep, CancelBeforeLaunch, PrepareDispatch, Poll, Cancel, Ask, Regressed,
       ObserveHost, CallUncertain, CallRaises, CallerDies, CallStart, CallCancel, storeVars, runVars
  <2> QED BY <2>1, <2>2
<1> QED BY <1>s, <1>1, <1>2, <1>3 DEF CallerStep

LEMMA RunRevsStep ==
  ASSUME TypeInv, TypeInv', RunRevs, [Next]_vars
  PROVE  RunRevs'
<1> SUFFICES ASSUME NEW r \in Runs, runState'[r] = "OPEN"
             PROVE  runRev'[r] = taskRev'[RunTask[r]] /\ taskStatus'[RunTask[r]] # "ABSENT"
  BY DEF RunRevs
<1> DEFINE t == RunTask[r]
<1>t. TaskTypes /\ RunTypes /\ TasksKnown /\ TasksKnown' /\ t \in Tasks
  BY Constants DEF TypeInv
<1>1. ASSUME NEW c \in Calls, Launch(c), RunHost[r] = CallDispatch[c]
      PROVE  runRev'[r] = taskRev'[t] /\ taskStatus'[t] # "ABSENT"
  <2>1. t = DispatchTask[CallDispatch[c]]
    BY <1>1, Constants, ConstantsAssumption
  <2> QED BY <1>1, <2>1, <1>t DEF Launch, TaskTypes
<1>2. CASE OpenRun(r)
  BY <1>2, <1>t DEF OpenRun, RunStep, RunTypes, TaskTypes
<1>3. CASE ResumeRun(r)
  <2>1. runRev'[r] = taskRev'[t] /\ taskStatus'[t] = runResume[r]
    BY <1>3, <1>t DEF ResumeRun, RunStep, RunTypes, TaskTypes
  <2> QED BY <2>1, <1>t DEF RunTypes
<1>4. CASE runState[r] = "OPEN" /\ ~\E c \in Calls : Launch(c) /\ RunHost[r] = CallDispatch[c]
  <2>1. runRev'[r] = taskRev[t] /\ taskStatus[t] # "ABSENT"
    BY <1>4, RunRevKept DEF RunRevs
  <2>2. taskRev'[t] = taskRev[t]
    <3> SUFFICES ASSUME taskRev'[t] # taskRev[t]
                 PROVE  FALSE
      OBVIOUS
    <3>1. PICK ds \in SUBSET KnownEdges : CreateTask(t, ds) \/ ReviseTask(t, ds)
      BY <1>t, CoreSteps, RevStep
    <3> QED BY <1>4, <2>1, <3>1 DEF CreateTask, ReviseTask, RunsOf
  <2> QED BY <2>1, <2>2, <1>t DEF TasksKnown
<1> QED BY <1>1, <1>2, <1>3, <1>4, RunOpens

\* A task with nothing admitted, prepared or running.
Clean(t) ==
  /\ ~PendingEffect(t) /\ ~UnresolvedHost(t)
  /\ \A o \in OpsOf(t) : opState[o] # "PREPARED"
  /\ \A r \in RunsOf(t) : runState[r] # "OPEN"

\* Nothing of a completed task starts.
LEMMA OpsStayClean ==
  ASSUME TypeInv, EffectInv, [Next]_vars, NEW o \in Ops, taskStatus[OpTask(o)] = "COMPLETED",
         opState[o] \notin {"PREPARED", "INTENT_RECORDED", "UNKNOWN"}
  PROVE  opState'[o] \notin {"PREPARED", "INTENT_RECORDED", "UNKNOWN"}
<1>o. EffectTypeOK
  BY DEF EffectInv
<1>s. CallerStep \/ StoreStep \/ (HostNext /\ UNCHANGED workerVars)
  BY CoreSteps
<1>1. CASE OperationNext
  BY <1>1, <1>o DEF OperationNext, RecordGrant, RevokeGrant, ExpireGrant, ConfigureBudget, AmendBudget,
     SetBudget, Prepare, GrantAdmits, OpTask, CancelPrepared, ExpireLease, opVars, EffectTypeOK
<1>2. CASE LifecycleNext /\ UNCHANGED <<workerVars, callVars, processVars>>
  BY <1>2, <1>o, LifecycleStepView DEF LifecycleView, ViewWithdraw, ViewAccept, EffectView, EffectTypeOK
<1>3. CASE StoreStep
  BY <1>3, <1>o DEF StoreStep, RecordIntent, Observe, OpPending, EffectTypeOK, storeVars, opVars
<1>4. CASE HostNext /\ UNCHANGED workerVars
  BY <1>4, <1>o, HostStepView DEF HostView, ViewOrphan, EffectView, EffectTypeOK
<1> QED BY <1>s, <1>1, <1>2, <1>3, <1>4 DEF CallerStep

LEMMA HostsStayClean ==
  ASSUME TypeInv, HostInv, [Next]_vars, NEW d \in Dispatches, taskStatus[DispatchTask[d]] = "COMPLETED",
         hostState[d] # "PREPARED", ~HostPending(d)
  PROVE  hostState'[d] # "PREPARED" /\ ~HostPending(d)'
<1>t. HostTypes /\ HostRows /\ \A c \in Calls : CallDispatch[c] \in Dispatches
  BY Constants DEF TypeInv, HostInv
<1>1. CASE CallerStep \/ StoreStep
  <2>1. UNCHANGED hostCore
    BY <1>1, HostQuiet DEF CallerStep
  <2> QED BY <2>1 DEF hostCore, HostPending
<1>2. CASE HostNext
  <2>1. ~HostPending(d)'
    <3>1. ASSUME launched'[d], ~launched[d]
          PROVE  FALSE
      <4>1. ASSUME NEW c \in Calls, Launch(c)
            PROVE  FALSE
        BY <1>t, <3>1, <4>1 DEF Launch, HostTypes
      <4>2. CASE ~\E c \in Calls : Launch(c)
        BY <1>2, <3>1, <4>2 DEF HostNext, CallStep, ConfigurePolicy, AmendPolicy, ExpirePolicy,
           RevokePolicy, PolicyStep, CancelBeforeLaunch, PrepareDispatch, Poll, Cancel, Ask, Regressed,
           ObserveHost, CallUncertain, CallRaises, CallerDies, CallStart, CallCancel, storeVars, hostVars
      <4> QED BY <4>1, <4>2
    <3> QED BY <1>2, <3>1, HostPendingStep DEF HostInv, HostPending
  <2>2. hostState'[d] # "PREPARED"
    <3> SUFFICES ASSUME hostState'[d] = "PREPARED"
                 PROVE  FALSE
      OBVIOUS
    <3>1. ASSUME NEW x \in Dispatches, NEW source \in Runs \cup {NoHost}, PrepareDispatch(x, source)
          PROVE  FALSE
      BY <1>t, <3>1 DEF PrepareDispatch, DispatchReady, HostTypes
    <3>2. ASSUME NEW c \in Calls, ObserveHost(c)
          PROVE  FALSE
      BY <1>t, <3>2, GotTypes DEF ObserveHost, HostTypes
    <3>3. ASSUME ExpirePolicy \/ RevokePolicy
          PROVE  FALSE
      BY <1>t, <3>3 DEF ExpirePolicy, RevokePolicy, HostTypes
    <3>4. ASSUME NEW terms \in PolicyTerms, ConfigurePolicy(terms) \/ AmendPolicy(terms)
          PROVE  FALSE
      BY <3>4 DEF ConfigurePolicy, AmendPolicy
    <3>5. ASSUME NEW x \in Dispatches, CancelBeforeLaunch(x)
          PROVE  FALSE
      BY <1>t, <3>5 DEF CancelBeforeLaunch, HostTypes
    <3>6. ASSUME NEW c \in Calls, Launch(c) \/ Cancel(c) \/ CallUncertain(c)
          PROVE  FALSE
      BY <1>t, <3>6 DEF Launch, Cancel, CallUncertain, HostTypes
    <3>7. ASSUME NEW c \in Calls, \/ Poll(c) \/ CallStart(c) \/ CallCancel(c) \/ Ask(c) \/ Regressed(c)
                                  \/ CallRaises(c) \/ CallerDies(c)
          PROVE  FALSE
      BY <3>7 DEF Poll, CallStart, CallCancel, Ask, Regressed, CallRaises, CallerDies, storeVars, hostVars
    <3> QED BY <1>2, <3>1, <3>2, <3>3, <3>4, <3>5, <3>6, <3>7 DEF HostNext, CallStep
  <2> QED BY <2>1, <2>2
<1> QED BY <1>1, <1>2, CoreSteps

LEMMA StaysClean ==
  ASSUME TypeInv, EffectInv, HostInv, [Next]_vars, NEW t \in Tasks, taskStatus[t] = "COMPLETED", Clean(t)
  PROVE  Clean(t)'
<1>1. ASSUME NEW o \in OpsOf(t)
      PROVE  opState'[o] \notin {"PREPARED", "INTENT_RECORDED", "UNKNOWN"}
  BY OpsStayClean DEF Clean, OpsOf, PendingEffect, OpPending
<1>2. ASSUME NEW d \in DispatchesOf(t)
      PROVE  hostState'[d] # "PREPARED" /\ ~HostPending(d)'
  BY HostsStayClean DEF Clean, DispatchesOf, UnresolvedHost
<1>3. ASSUME NEW r \in RunsOf(t)
      PROVE  runState'[r] # "OPEN"
  <2> SUFFICES ASSUME runState'[r] = "OPEN"
               PROVE  FALSE
    OBVIOUS
  <2>1. r \in Runs /\ RunTask[r] = t /\ runState[r] # "OPEN"
    BY DEF Clean, RunsOf
  <2>2. ASSUME NEW c \in Calls, Launch(c), RunHost[r] = CallDispatch[c]
        PROVE  FALSE
    <3>1. t = DispatchTask[CallDispatch[c]]
      BY <2>1, <2>2, Constants, ConstantsAssumption
    <3> QED BY <2>2, <3>1 DEF Launch, DispatchReady
  <2>3. ~OpenRun(r) /\ ~ResumeRun(r)
    BY <2>1 DEF OpenRun, ResumeRun
  <2> QED BY <2>1, <2>2, <2>3, RunOpens
<1>4. ~PendingEffect(t)'
  BY <1>1 DEF PendingEffect, OpPending, OpsOf
<1>5. ~UnresolvedHost(t)'
  BY <1>2 DEF UnresolvedHost, DispatchesOf
<1> QED BY <1>1, <1>3, <1>4, <1>5 DEF Clean, OpsOf, RunsOf

\* Accepted revisions are revisions the task has reached, a task is completed
\* exactly while its current one is accepted, and what an acceptance rests on
\* stands.
AcceptedRevs == \A k \in accepted : k[2] <= taskRev[k[1]]
Marked(t) == taskStatus[t] = "COMPLETED" <=> <<t, taskRev[t]>> \in accepted
Marks == AcceptedRevs /\ (\A t \in Tasks : Marked(t)) /\ AcceptanceHasBasis

AcceptInv == /\ RunRevs /\ Marks
             /\ \A t \in Tasks : taskStatus[t] = "COMPLETED" => Clean(t)

\* Nothing that acceptance is about changes.
Unmarked == /\ UNCHANGED <<accepted, evid, deps, taskRev>>
            /\ \A x \in Tasks : taskStatus'[x] = "COMPLETED" <=> taskStatus[x] = "COMPLETED"

LEMMA UnmarkedMarks ==
  ASSUME Marks, Unmarked
  PROVE  Marks'
BY DEF Marks, Unmarked, AcceptedRevs, Marked, AcceptanceHasBasis

\* No answer about a completed task withdraws its acceptance.
LEMMA ReconcileUnmarked ==
  ASSUME TypeInv, NEW t \in Tasks, NEW runs \in [Runs -> RunStates], NEW released \in BOOLEAN,
         Reconcile(t, runs, released), taskStatus[t] = "COMPLETED" => ~UnknownFact(t)'
  PROVE  /\ UNCHANGED accepted
         /\ \A x \in Tasks : taskStatus'[x] = "COMPLETED" <=> taskStatus[x] = "COMPLETED"
<1>t. TaskTypes
  BY DEF TypeInv
<1>1. \A x \in Tasks \ {t} : taskStatus'[x] = taskStatus[x]
  BY <1>t, ReconcileOthers
<1>2. CASE UnknownFact(t)'
  <2>1. UNCHANGED accepted
    BY <1>2 DEF Reconcile
  <2>2. taskStatus'[t] = "COMPLETED" <=> taskStatus[t] = "COMPLETED"
    BY <1>2, <1>t DEF Reconcile, TaskTypes
  <2> QED BY <1>1, <2>1, <2>2
<1>3. CASE ~UnknownFact(t)'
  <2> DEFINE requested == {r \in RunsOf(t) : runs[r] = "PAUSE_REQUESTED"}
             pausing == requested # {} \/ pauseWanted[t]
             status == IF marker[t] = "NONE" \/ taskStatus[t] # "RECOVERY_REQUIRED"
                       THEN taskStatus[t]
                       ELSE IF pausing THEN "WAITING" ELSE marker[t]
             settled == NothingPending(t)'
             parked == IF settled /\ pausing /\ status = "WAITING" THEN "PAUSED" ELSE status
             final == IF released /\ parked = "RUNNING" THEN "READY" ELSE parked
  <2>1. taskStatus'[t] = final /\ UNCHANGED accepted
    BY <1>3, <1>t DEF Reconcile, TaskTypes
  <2>2. status = "COMPLETED" <=> taskStatus[t] = "COMPLETED"
    BY <1>t DEF TaskTypes, Resumable
  <2>3. final = "COMPLETED" <=> status = "COMPLETED"
    <3> HIDE DEF status
    <3> QED OBVIOUS
  <2> QED BY <1>1, <2>1, <2>2, <2>3
<1> QED BY <1>2, <1>3

LEMMA CompletedIsKnown ==
  ASSUME TypeInv, EffectInv, HostInv, HostRows', AcceptInv, [Next]_vars, NEW t \in Tasks,
         taskStatus[t] = "COMPLETED"
  PROVE  ~UnknownFact(t)'
<1>1. Clean(t)'
  BY StaysClean DEF AcceptInv
<1>2. \A d \in Dispatches : hostState'[d] = "UNKNOWN" => HostPending(d)'
  BY DEF HostRows, HostPending
<1> QED BY <1>1, <1>2 DEF Clean, UnknownFact, PendingEffect, OpPending, UnresolvedHost, DispatchesOf, OpsOf

\* The steps that define, prove, accept or invalidate.
Marking(t) ==
  \/ \E ds \in SUBSET KnownEdges : CreateTask(t, ds) \/ ReviseTask(t, ds)
  \/ \E e \in KnownEdges : AddDependency(t, e)
  \/ Rework(t) \/ Accept(t)
  \/ \E result \in {"PASS", "FAIL"} : RecordEvidence(t, result)
  \/ \E n \in Revisions : Invalidate(t, n)

LEMMA OthersUnmarked ==
  ASSUME TypeInv, EffectInv, HostInv, HostRows', AcceptInv, [Next]_vars, ~\E t \in Tasks : Marking(t)
  PROVE  Unmarked
<1>t. TaskTypes /\ RunTypes
  BY DEF TypeInv
<1>s. CallerStep \/ StoreStep \/ HostNext
  BY CoreSteps
<1>q. ASSUME UNCHANGED <<taskStatus, accepted, evid, deps, taskRev>>
      PROVE  Unmarked
  BY <1>q DEF Unmarked
<1>1. CASE OperationNext
  BY <1>1, <1>q DEF OperationNext, RecordGrant, RevokeGrant, ExpireGrant, ConfigureBudget, AmendBudget,
     SetBudget, Prepare, CancelPrepared, ExpireLease, controlUnchanged, taskVars, proofVars
<1>2. CASE LifecycleNext
  <2>1. ASSUME NEW t \in Tasks, CancelTask(t) \/ BindTask(t) \/ BeginVerification(t)
        PROVE  Unmarked
    BY <2>1, <1>t DEF CancelTask, BindTask, BeginVerification, VerificationReady, ProofStep, Unmarked,
       taskVars, proofVars, TaskTypes
  <2>2. ASSUME NEW r \in Runs, OpenRun(r) \/ PauseRun(r) \/ RebuildCheckpoint(r) \/ ResumeRun(r)
        PROVE  Unmarked
    <3>1. UNCHANGED <<accepted, evid, deps, taskRev>>
      BY <2>2 DEF OpenRun, PauseRun, RebuildCheckpoint, ResumeRun, RunStep, taskVars, proofVars
    <3>2. \A x \in Tasks : taskStatus'[x] = "COMPLETED" <=> taskStatus[x] = "COMPLETED"
      BY <2>2, <1>t, Constants DEF OpenRun, PauseRun, RebuildCheckpoint, ResumeRun, taskVars, TaskTypes,
         RunTypes
    <3> QED BY <3>1, <3>2 DEF Unmarked
  <2>3. CASE SetPhaseActive
    BY <2>3, <1>q DEF SetPhaseActive, taskVars, proofVars
  <2> QED BY <1>2, <2>1, <2>2, <2>3 DEF LifecycleNext, Marking
\* Answers.
<1>a. ASSUME NEW x \in Tasks, NEW runs \in [Runs -> RunStates], NEW released \in BOOLEAN,
             \/ Reconcile(x, runs, released)
             \/ UNCHANGED <<taskStatus, accepted>>,
             UNCHANGED <<evid, deps, taskRev>>
      PROVE  Unmarked
  <2>1. CASE Reconcile(x, runs, released)
    BY <2>1, <1>a, CompletedIsKnown, ReconcileUnmarked DEF Unmarked
  <2>2. CASE UNCHANGED <<taskStatus, accepted>>
    BY <2>2, <1>a, <1>q
  <2> QED BY <1>a, <2>1, <2>2
<1>3. CASE StoreStep
  <2>1. CASE UNCHANGED storeVars
    BY <2>1, <1>q DEF storeVars, taskVars, proofVars
  <2>2. ASSUME NEW o \in Ops, RecordIntent(o)
        PROVE  Unmarked
    BY <2>2, <1>t DEF RecordIntent, GrantAdmits, OpTask, Unmarked, TaskTypes, proofVars
  <2>3. ASSUME NEW o \in Ops, NEW outcome \in Outcomes, Observe(o, outcome)
        PROVE  Unmarked
    <3>1. Reconcile(OpTask(o), runState, FALSE) /\ UNCHANGED <<evid, deps, taskRev>>
      BY <2>3 DEF Observe
    <3> QED BY <3>1, <1>a, <1>t, Constants DEF RunTypes
  <2> QED BY <1>3, <2>1, <2>2, <2>3 DEF StoreStep
<1>4. CASE HostNext
  <2>1. ASSUME NEW c \in Calls, Launch(c)
        PROVE  Unmarked
    BY <2>1, <1>t DEF Launch, DispatchReady, Unmarked, TaskTypes, proofVars
  <2>2. ASSUME NEW c \in Calls, ObserveHost(c)
        PROVE  Unmarked
    <3> DEFINE d == CallDispatch[c]
               x == DispatchTask[d]
               ended == Got(c).quiesced = "YES"
               runs == IF ended THEN RunsAfterEnd(d) ELSE runState
               released == ended /\ quiesced[d] # "YES"
    <3>1. runs \in [Runs -> RunStates] /\ released \in BOOLEAN /\ x \in Tasks
      BY <1>t, Constants DEF RunsAfterEnd, RunTypes, RunStates
    <3>2. /\ \/ Reconcile(x, runs, released)
             \/ UNCHANGED <<taskStatus, accepted>>
          /\ UNCHANGED <<evid, deps, taskRev>>
      BY <2>2 DEF ObserveHost
    <3> HIDE DEF runs, released, x
    <3> QED BY <3>1, <3>2, <1>a
  <2>3. ASSUME NEW c \in Calls, CallUncertain(c)
        PROVE  Unmarked
    <3>1. /\ \/ Reconcile(DispatchTask[CallDispatch[c]], runState, FALSE)
             \/ UNCHANGED <<taskStatus, accepted>>
          /\ UNCHANGED <<evid, deps, taskRev>>
      BY <2>3 DEF CallUncertain
    <3> QED BY <3>1, <1>a, <1>t, Constants DEF RunTypes
  <2>4. CASE ~\E c \in Calls : Launch(c) \/ ObserveHost(c) \/ CallUncertain(c)
    BY <1>4, <2>4, <1>q DEF HostNext, CallStep, ConfigurePolicy, AmendPolicy, ExpirePolicy,
       RevokePolicy, PolicyStep, CancelBeforeLaunch, PrepareDispatch, Poll, Cancel, Ask, Regressed,
       CallRaises, CallerDies, CallStart, CallCancel, storeVars, taskVars, proofVars
  <2> QED BY <2>1, <2>2, <2>3, <2>4
<1> QED BY <1>s, <1>1, <1>2, <1>3, <1>4 DEF CallerStep

LEMMA DefineMarks ==
  ASSUME TypeInv, Marks, NEW t \in Tasks,
         \/ \E ds \in SUBSET KnownEdges : CreateTask(t, ds) \/ ReviseTask(t, ds)
         \/ \E e \in KnownEdges : AddDependency(t, e)
  PROVE  Marks' /\ \A x \in Tasks : taskStatus'[x] = "COMPLETED" => taskStatus[x] = "COMPLETED"
<1>t. TaskTypes /\ ProofTypes /\ TasksKnown /\ MaxRev \in Nat
  BY Constants DEF TypeInv
<1>1. ASSUME NEW ds \in SUBSET KnownEdges, CreateTask(t, ds) \/ ReviseTask(t, ds)
      PROVE  Marks' /\ \A x \in Tasks : taskStatus'[x] = "COMPLETED" => taskStatus[x] = "COMPLETED"
  <2>1. /\ taskRev' = [taskRev EXCEPT ![t] = taskRev[t] + 1]
        /\ taskStatus' = [taskStatus EXCEPT ![t] = "READY"]
        /\ deps' = [deps EXCEPT ![t] = ds]
        /\ UNCHANGED <<accepted, evid>>
    BY <1>1, <1>t DEF CreateTask, ReviseTask, TasksKnown, TaskTypes, proofVars
  <2>2. taskRev[t] \in Nat /\ \A k \in accepted : k \in Tasks \X Revisions /\ taskRev[k[1]] \in Nat
    BY <1>t DEF TaskTypes, ProofTypes
  <2>3. <<t, taskRev[t] + 1>> \notin accepted
    BY <2>2 DEF Marks, AcceptedRevs
  <2>4. AcceptedRevs'
    BY <2>1, <2>2, <1>t DEF Marks, AcceptedRevs, TaskTypes, Revisions
  <2>5. \A x \in Tasks : Marked(x)'
    BY <2>1, <2>3, <1>t DEF Marks, Marked, TaskTypes
  <2>6. AcceptanceHasBasis'
    BY <2>1, <2>3, <1>t DEF Marks, AcceptanceHasBasis, TaskTypes
  <2> QED BY <2>1, <2>4, <2>5, <2>6, <1>t DEF Marks, TaskTypes
<1>2. ASSUME NEW e \in KnownEdges, AddDependency(t, e)
      PROVE  Marks' /\ \A x \in Tasks : taskStatus'[x] = "COMPLETED" => taskStatus[x] = "COMPLETED"
  <2>1. /\ deps' = [deps EXCEPT ![t] = deps[t] \cup {e}]
        /\ taskStatus[t] = "READY"
        /\ UNCHANGED <<taskRev, taskStatus, accepted, evid>>
    BY <1>2, <1>t DEF AddDependency, proofVars, TaskTypes
  <2>2. <<t, taskRev[t]>> \notin accepted
    BY <2>1 DEF Marks, Marked
  <2>3. AcceptedRevs' /\ \A x \in Tasks : Marked(x)'
    BY <2>1 DEF Marks, AcceptedRevs, Marked
  <2>4. AcceptanceHasBasis'
    BY <2>1, <2>2, <1>t DEF Marks, AcceptanceHasBasis, TaskTypes
  <2> QED BY <2>1, <2>3, <2>4 DEF Marks
<1> QED BY <1>1, <1>2

LEMMA ProveMarks ==
  ASSUME TypeInv, Marks, NEW t \in Tasks,
         Rework(t) \/ \E result \in {"PASS", "FAIL"} : RecordEvidence(t, result)
  PROVE  Marks' /\ \A x \in Tasks : taskStatus'[x] = "COMPLETED" => taskStatus[x] = "COMPLETED"
<1>t. TaskTypes /\ ProofTypes
  BY DEF TypeInv
<1>1. /\ taskStatus[t] # "COMPLETED"
      /\ \A x \in Tasks : taskStatus'[x] = "COMPLETED" <=> taskStatus[x] = "COMPLETED"
      /\ UNCHANGED <<taskRev, accepted, deps>>
      /\ \A k \in Tasks \X Revisions : k # <<t, taskRev[t]>> => evid'[k] = evid[k]
  BY <1>t DEF Rework, RecordEvidence, ProofStep, TaskTypes, ProofTypes
<1>2. <<t, taskRev[t]>> \notin accepted
  BY <1>1 DEF Marks, Marked
<1>3. AcceptedRevs' /\ \A x \in Tasks : Marked(x)'
  BY <1>1 DEF Marks, AcceptedRevs, Marked
<1>4. AcceptanceHasBasis'
  BY <1>1, <1>2, <1>t DEF Marks, AcceptanceHasBasis, ProofTypes
<1> QED BY <1>1, <1>3, <1>4 DEF Marks

LEMMA AcceptMarks ==
  ASSUME TypeInv, Marks, NEW t \in Tasks, Accept(t)
  PROVE  Marks' /\ \A x \in Tasks \ {t} : taskStatus'[x] = "COMPLETED" => taskStatus[x] = "COMPLETED"
<1>t. TaskTypes /\ ProofTypes /\ MaxRev \in Nat
  BY Constants DEF TypeInv
<1>1. /\ taskStatus' = [taskStatus EXCEPT ![t] = "COMPLETED"]
      /\ accepted' = accepted \cup {<<t, taskRev[t]>>}
      /\ UNCHANGED <<taskRev, deps, evid>>
      /\ evid[<<t, taskRev[t]>>] = "PASS" /\ Resolved(t)
  BY DEF Accept, VerificationReady
<1>2. taskRev[t] \in Nat
  BY <1>t DEF TaskTypes
<1>3. AcceptedRevs'
  BY <1>1, <1>2 DEF Marks, AcceptedRevs
<1>4. \A x \in Tasks : Marked(x)'
  BY <1>1, <1>t DEF Marks, Marked, TaskTypes
<1>5. deps[t] \subseteq accepted
  <2> SUFFICES ASSUME NEW e \in deps[t]
               PROVE  e \in accepted
    OBVIOUS
  <2>1. e \in Tasks \X Revisions
    BY <1>t DEF TaskTypes
  <2>2. <<e[1], taskRev[e[1]]>> \in accepted /\ taskRev[e[1]] = e[2]
    BY <1>1 DEF Resolved, Proven
  <2> QED BY <2>1, <2>2
<1>6. AcceptanceHasBasis'
  BY <1>1, <1>5 DEF Marks, AcceptanceHasBasis
<1> QED BY <1>1, <1>3, <1>4, <1>6, <1>t DEF Marks, TaskTypes

\* The dependents of a withdrawn acceptance are closed under dependence.
LEMMA DependentsClosed ==
  ASSUME NEW t, NEW n, NEW x \in Tasks, NEW e \in deps[x],
         e = <<t, n>> \/ (e[1] \in Dependents(t, n) /\ taskRev[e[1]] = e[2])
  PROVE  x \in Dependents(t, n)
BY DEF Dependents

LEMMA InvalidateMarks ==
  ASSUME TypeInv, Marks, NEW t \in Tasks, NEW n \in Revisions, Invalidate(t, n)
  PROVE  Marks' /\ \A x \in Tasks : taskStatus'[x] = "COMPLETED" => taskStatus[x] = "COMPLETED"
<1>t. TaskTypes /\ ProofTypes
  BY DEF TypeInv
<1> DEFINE affected == IF <<t, n>> \in accepted
                       THEN {<<t, n>>} \cup {<<x, taskRev[x]>> : x \in Dependents(t, n)}
                       ELSE {}
<1>1. /\ evid' = [k \in Tasks \X Revisions |->
           IF (k = <<t, n>> \/ k \in affected) /\ evid[k] # "NONE" THEN "INVALID" ELSE evid[k]]
      /\ accepted' = accepted \ affected
      /\ taskStatus' = [x \in Tasks |-> IF <<x, taskRev[x]>> \in affected
                                        THEN StatusWithdrawn(x) ELSE taskStatus[x]]
      /\ UNCHANGED <<taskRev, deps>>
  BY DEF Invalidate
<1>2. <<t, n>> \in accepted => <<t, n>> \in affected
  OBVIOUS
<1>3. ASSUME NEW x \in Tasks, NEW e \in deps[x], e \in affected
      PROVE  <<x, taskRev[x]>> \in affected
  <2>1. e = <<t, n>> \/ (e[1] \in Dependents(t, n) /\ taskRev[e[1]] = e[2])
    BY <1>3
  <2>2. x \in Dependents(t, n)
    BY <2>1, DependentsClosed
  <2> QED BY <1>3, <2>2
<1> HIDE DEF affected
<1>4. \A x \in Tasks : StatusWithdrawn(x) # "COMPLETED"
  BY DEF StatusWithdrawn
<1>5. AcceptedRevs' /\ \A x \in Tasks : Marked(x)'
  BY <1>1, <1>4 DEF Marks, AcceptedRevs, Marked
<1>6. \A k \in accepted' : evid'[k] = "PASS"
  BY <1>1, <1>2, <1>t DEF Marks, AcceptanceHasBasis, ProofTypes
<1>7. ASSUME NEW x \in Tasks, <<x, taskRev[x]>> \in accepted'
      PROVE  deps[x] \subseteq accepted'
  BY <1>1, <1>3, <1>7 DEF Marks, AcceptanceHasBasis
<1>8. AcceptanceHasBasis'
  BY <1>1, <1>6, <1>7 DEF AcceptanceHasBasis
<1> QED BY <1>1, <1>4, <1>5, <1>8 DEF Marks

\* A task is completed by its acceptance, and by nothing else.
LEMMA MarksStep ==
  ASSUME TypeInv, EffectInv, HostInv, HostRows', AcceptInv, [Next]_vars
  PROVE  /\ Marks'
         /\ \A x \in Tasks : taskStatus'[x] = "COMPLETED" => taskStatus[x] = "COMPLETED" \/ Accept(x)
<1>1. CASE \E t \in Tasks : Marking(t)
  BY <1>1, DefineMarks, ProveMarks, AcceptMarks, InvalidateMarks DEF AcceptInv, Marking
<1>2. CASE ~\E t \in Tasks : Marking(t)
  BY <1>2, OthersUnmarked, UnmarkedMarks DEF AcceptInv, Unmarked
<1> QED BY <1>1, <1>2

\* Acceptance closes the Runs still open: none of them has a Host at work.
LEMMA AcceptedIsClean ==
  ASSUME TypeInv, RunRevs, NEW t \in Tasks, Accept(t)
  PROVE  Clean(t)'
<1>1. /\ \A o \in OpsOf(t) : opState[o] # "PREPARED" /\ ~OpPending(o)
      /\ ~UnresolvedHost(t)
  BY DEF Accept, VerificationReady
<1>2. \A o \in Ops : opState'[o] \in {opState[o], "ACCEPTED"}
  BY DEF Accept
<1>3. ~PendingEffect(t)' /\ \A o \in OpsOf(t) : opState'[o] # "PREPARED"
  BY <1>1, <1>2 DEF PendingEffect, OpPending, OpsOf
<1>4. UNCHANGED <<hostState, launched, quiesced>>
  BY DEF Accept, hostVars
<1>5. ~UnresolvedHost(t)'
  BY <1>1, <1>4 DEF UnresolvedHost, HostPending
<1>6. ASSUME NEW r \in RunsOf(t), runState'[r] = "OPEN"
      PROVE  FALSE
  <2>1. r \in Runs /\ RunTask[r] = t /\ runState[r] = "OPEN"
    BY <1>6 DEF Accept, RunsOf
  <2>2. runRev[r] = taskRev[t]
    BY <2>1 DEF RunRevs
  <2>3. RunHost[r] # NoHost => ~HostPending(RunHost[r])
    BY <1>1, <2>1, Constants, ConstantsAssumption DEF UnresolvedHost, DispatchesOf
  <2> QED BY <1>6, <2>1, <2>2, <2>3 DEF Accept
<1> QED BY <1>3, <1>5, <1>6 DEF Clean, OpsOf, RunsOf

LEMMA AcceptInvariance == Spec => []AcceptInv
<1>1. Init => AcceptInv
  BY DEF Init, StoreInit, AcceptInv, RunRevs, Marks, AcceptedRevs, Marked, AcceptanceHasBasis
<1>2. ASSUME TypeInv, TypeInv', EffectInv, HostInv, HostInv', AcceptInv, [Next]_vars
      PROVE  AcceptInv'
  <2>1. RunRevs'
    BY <1>2, RunRevsStep DEF AcceptInv
  <2>2. HostRows'
    BY <1>2 DEF HostInv
  <2>3. /\ Marks'
        /\ \A x \in Tasks : taskStatus'[x] = "COMPLETED" => taskStatus[x] = "COMPLETED" \/ Accept(x)
    BY <1>2, <2>2, MarksStep
  <2>4. ASSUME NEW t \in Tasks, taskStatus'[t] = "COMPLETED"
        PROVE  Clean(t)'
    BY <1>2, <2>3, <2>4, StaysClean, AcceptedIsClean DEF AcceptInv
  <2> QED BY <2>1, <2>3, <2>4 DEF AcceptInv
<1> QED
  BY TypeInvariance, EffectInvariance, HostInvariance, <1>1, <1>2, PTL DEF Spec

\* A task is completed exactly while its current revision is accepted, and then
\* nothing admitted, prepared or running can change what was accepted
\* (accept_task and invalidate_evidence of v2_acceptance, revise_task, launch
\* of v2_host_execution).
THEOREM CompletedIsClosedHolds == Spec => []CompletedIsClosed
<1>1. AcceptInv => CompletedIsClosed
  BY DEF AcceptInv, Marks, Marked, Clean, CompletedIsClosed
<1> QED
  BY AcceptInvariance, <1>1, PTL

\* No acceptance outlives its evidence or the acceptance of what the task
\* depends on (invalidate_evidence of v2_acceptance withdraws both from every
\* dependent at its current revision).
THEOREM AcceptanceHasBasisHolds == Spec => []AcceptanceHasBasis
<1>1. AcceptInv => AcceptanceHasBasis
  BY DEF AcceptInv, Marks
<1> QED
  BY AcceptInvariance, <1>1, PTL
=============================================================================
