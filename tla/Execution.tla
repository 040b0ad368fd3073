----------------------------- MODULE Execution ------------------------------
(***************************************************************************)
(* The execution core of MALTS V2 put together: one project database, the  *)
(* callers that act on it, the file workers, the Host calls in flight and  *)
(* the supervised processes, interleaved in any order.                     *)
(***************************************************************************)
EXTENDS FileWorkers, TaskLifecycle, HostExecution

vars == <<storeVars, workerVars, callVars, processVars>>

TypeOK == StoreTypeOK /\ WorkerTypeOK /\ CallTypeOK

Init == StoreInit /\ WorkerInit /\ CallInit

\* A Host's mediated file calls are served inside its Job: they need its
\* processes, and end with them.
CanAct(o) == OpHost(o) # NoHost => command[OpHost(o)] = "LIVE"

FileStep ==
  /\ \E o \in Ops : \/ CanAct(o) /\ (Begin(o) \/ WorkerStep(o))
                    \/ WorkerDies(o) \/ ReconcileUpdate(o) \/ Attest(o)
  /\ UNCHANGED <<callVars, processVars>>

ProcessStep(d) ==
  /\ PH!ProcessNext(d)
  /\ worker' = [o \in Ops |-> IF OpHost(o) = d /\ WorkerLive(o) /\ command'[d] # "LIVE"
                              THEN "GONE" ELSE worker[o]]
  /\ UNCHANGED <<storeVars, effect, preimage, callVars>>

Next ==
  \/ OperationNext /\ UNCHANGED <<workerVars, callVars, processVars>>
  \/ LifecycleNext /\ UNCHANGED <<workerVars, callVars, processVars>>
  \/ FileStep
  \/ HostNext /\ UNCHANGED workerVars
  \/ \E d \in Dispatches : ProcessStep(d)

Spec == Init /\ [][Next]_vars
-----------------------------------------------------------------------------
(* Effects. *)

Settled == {"OBSERVED", "FAILED", "ACCEPTED"}

\* Every handler that moves an operation moves its lease with it: held exactly
\* while the effect may be in progress, quarantined while it is unknown.
LeaseMatchesOperation ==
  \A o \in Ops : /\ leaseState[o] \in {"HELD", "LAPSED"} <=> opState[o] = "INTENT_RECORDED"
                 /\ leaseState[o] = "QUARANTINED" <=> opState[o] = "UNKNOWN"
                 /\ leaseState[o] = "RELEASED" <=> opState[o] \in Settled

\* Within a task effects are serial; across tasks a pending effect keeps every
\* conflicting resource to itself.
PendingExclusive ==
  \A o, p \in Ops : o # p /\ OpPending(o) /\ OpPending(p) =>
    OpTask(o) # OpTask(p) /\ <<o, p>> \notin OpConflicts

\* A worker that may still touch its file holds the resource, whatever was
\* cancelled, revoked, expired or observed meanwhile.
WriterHoldsResource ==
  \A o \in Ops : worker[o] \in {"ADMITTED", "OPEN", "SAVED"} => OpPending(o)

\* What is recorded of an effect is what happened to the file.
OutcomeIsTrue ==
  \A o \in Ops : /\ opState[o] \in {"OBSERVED", "ACCEPTED"} => effect[o] = "APPLIED"
                 /\ opState[o] \notin {"OBSERVED", "ACCEPTED"} \cup {"INTENT_RECORDED", "UNKNOWN"}
                      => effect[o] = "NONE"

\* No budget is ever exceeded, neither by racing intents nor by amendment.
BudgetRespected ==
  /\ \A g \in Grants : GrantMax[g] # Unlimited => Used(OpsOfGrant(g)) <= GrantMax[g]
  /\ \A w \in BudgetOwners : limit[w] # Unlimited => Used(OpsOfOwner(w)) <= limit[w]
-----------------------------------------------------------------------------
(* Tasks, their Runs, their proofs. *)

\* An unknown effect or Host always parks its task in recovery, nothing parks it
\* there that a later observation could not resolve, and where to return is
\* remembered exactly while it is parked.
RecoveryIsJustified ==
  \A t \in Tasks : taskStatus[t] # "CANCELLED" =>
    /\ UnknownFact(t) => taskStatus[t] = "RECOVERY_REQUIRED"
    /\ taskStatus[t] = "RECOVERY_REQUIRED" => UnknownFact(t) \/ PendingHost(t)
    /\ marker[t] # "NONE" <=> taskStatus[t] = "RECOVERY_REQUIRED"

\* WAITING is never a dead end: something that can still be observed holds it.
WaitingHasCause ==
  \A t \in Tasks : taskStatus[t] = "WAITING" => PendingEffect(t) \/ PendingHost(t)

\* Completed work is closed: accepted at its revision, with nothing admitted,
\* prepared or running that could still change what was accepted.
CompletedIsClosed ==
  \A t \in Tasks :
    /\ taskStatus[t] = "COMPLETED" <=> <<t, taskRev[t]>> \in accepted
    /\ taskStatus[t] = "COMPLETED" =>
         /\ ~PendingEffect(t) /\ ~UnresolvedHost(t)
         /\ \A o \in OpsOf(t) : opState[o] # "PREPARED"
         /\ \A r \in RunsOf(t) : runState[r] # "OPEN"

\* An acceptance never outlives what it rests on: its own evidence, and the
\* acceptance of every predecessor at the revision it depended on.
AcceptanceHasBasis ==
  /\ \A k \in accepted : evid[k] = "PASS"
  /\ \A t \in Tasks : <<t, taskRev[t]>> \in accepted => deps[t] \subseteq accepted

-----------------------------------------------------------------------------
(* Hosts. *)

\* The supervised processes of a dispatch run, or may still be started.
MayRun(d) ==
  \/ command[d] = "LIVE"
  \/ supervisor[d] \in {"SPAWNED", "LAUNCHING"}
  \/ \E c \in Calls : CallDispatch[c] = d /\ CallMethod[c] = "LAUNCH"
                      /\ caller[c] \in {"CALLING", "ADMITTED"}

\* A Host is recorded as ended only when nothing of it runs or can start, and
\* its actor holds no live lease on a file of the task.
QuiescenceIsTrue ==
  \A d \in Dispatches : quiesced[d] = "YES" =>
    /\ ~MayRun(d)
    /\ \A o \in Ops : OpHost(o) = d =>
         /\ ~WorkerLive(o)
         /\ OpTask(o) = DispatchTask[d] => leaseState[o] \notin {"HELD", "LAPSED"}

-----------------------------------------------------------------------------
(* The abstract ledger, read off the detailed state. *)

PhaseNow(o) == CASE opState[o] \in {"ABSENT", "PREPARED"} -> "NEW"
                 [] OpPending(o) -> "ADMITTED"
                 [] opState[o] \in {"OBSERVED", "ACCEPTED"} -> "DONE"
                 [] opState[o] = "FAILED" -> "NOT_DONE"
                 [] opState[o] = "CANCELLED" -> "DROPPED"
LedgerPhase == [o \in Ops |-> PhaseNow(o)]

\* Operations of one task are serial, those of different tasks exclude each
\* other on a conflicting resource.
LedgerRivals == {e \in Ops \X Ops : OpTask(e[1]) = OpTask(e[2]) \/ e \in OpConflicts}

Ledger == INSTANCE EffectLedger WITH Rivals <- LedgerRivals, phase <- LedgerPhase

\* Every step of the execution core is a step of the effect ledger or leaves it
\* alone: no order of workers, Hosts, revocations, cancellations and revisions
\* admits an effect twice, beside a rival, outside its window or untruly.
ImplementsLedger == Ledger!Spec
=============================================================================
