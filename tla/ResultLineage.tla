---------------------------- MODULE ResultLineage ----------------------------
(* The lineage of one accepted Result contract (tools/result_controller.py):    *)
(* events are proposed in batches, each applied to a copy of the projection and *)
(* recorded with it in one workspace transaction or not at all.  lineage is the *)
(* projection together with what the controller hydrates from the chain of      *)
(* events; between the first event of a batch and Record it is the copy, and    *)
(* nothing else moves.  A batch that cannot be completed is refused: it leaves  *)
(* no trace, and here it stays open for good.  The event that accepts the       *)
(* contract comes first and is part of Init.  Beside the CURRENT contract the    *)
(* legacy ones of versions 2 and 3 take events, and are DONE without evidence.   *)
(*                                                                              *)
(* In a workspace with resource admissions the contract names one Admission,    *)
(* its fencing tokens and the bytes of the phase control.  authority is what    *)
(* the coordination program makes of them (WorkspaceCoordination).              *)
EXTENDS Integers, FiniteSets, Functions

CONSTANTS Attempts, Invocations, Intents, Envelopes,
          Quarantines,        \* quarantine ids of the contract's Admission
          RequestLimit,       \* RequestLimit[n]: proven bound of intent n's requests
          MaxRounds, MaxRequests,     \* hard budgets of the contract
          EnvelopeRounds,     \* rounds that one envelope authorizes
          None,
          MaxObserved         \* bound: observations of one intent

ASSUME IntentsAssumption == IsFiniteSet(Intents)
ASSUME LimitAssumption == RequestLimit \in [Intents -> Nat]
ASSUME BudgetAssumption == MaxRounds \in Nat /\ MaxRequests \in Nat

VARIABLES lineage, batch, authority

vars == <<lineage, batch, authority>>

\* task_state_machine of lifecycle_invariants.json.
Transitions ==
  [DRAFT |-> {"PREFLIGHT", "BLOCKED", "FAILED"},
   PREFLIGHT |-> {"AWAITING_INITIAL_AUTHORIZATION", "BLOCKED", "FAILED"},
   AWAITING_INITIAL_AUTHORIZATION |-> {"AUTHORIZED", "BLOCKED"},
   AUTHORIZED |-> {"PLANNING", "BLOCKED", "FAILED"},
   PLANNING |-> {"EXECUTING", "AWAITING_ATTEMPT_AUTHORIZATION", "BLOCKED", "FAILED"},
   EXECUTING |-> {"VERIFYING", "REPLANNING", "AWAITING_ATTEMPT_AUTHORIZATION", "PARTIAL",
                  "BLOCKED", "FAILED"},
   VERIFYING |-> {"FINALIZING", "REPLANNING", "EXECUTING", "AWAITING_ATTEMPT_AUTHORIZATION",
                  "PARTIAL", "BLOCKED", "FAILED"},
   REPLANNING |-> {"EXECUTING", "AWAITING_ATTEMPT_AUTHORIZATION", "BLOCKED", "FAILED"},
   AWAITING_ATTEMPT_AUTHORIZATION |-> {"AUTHORIZED", "BLOCKED", "FAILED"},
   FINALIZING |-> {"DONE", "PARTIAL", "BLOCKED", "FAILED"},
   DONE |-> {}, PARTIAL |-> {}, BLOCKED |-> {}, FAILED |-> {}]
Statuses == DOMAIN Transitions

\* The contracts that take events: malts.result.current, and versions 2 and 3.
ContractKinds == {"CURRENT", "LEGACY"}

\* The machine of attempts, which is that of invocations too.
Completions ==
  [absent |-> {}, PLANNED |-> {"NOT_RUN", "CANCELLED"},
   RUNNING |-> {"SUCCEEDED", "FAILED", "CANCELLED", "UNKNOWN"},
   SUCCEEDED |-> {}, FAILED |-> {}, CANCELLED |-> {}, NOT_RUN |-> {}, UNKNOWN |-> {}]
ExecutionStates == DOMAIN Completions
Finished == {"SUCCEEDED", "FAILED", "CANCELLED", "NOT_RUN"}

Idle == [open |-> FALSE, round |-> FALSE, exit |-> FALSE, unknown |-> {}, reconciled |-> {}]
Settled == batch = Idle      \* lineage is what the files say

Init ==
  /\ lineage = [status |-> "DRAFT", rounds |-> 0,
                attempt |-> [x \in Attempts |-> "absent"], current |-> None,
                invocation |-> [i \in Invocations |-> "absent"], running |-> None,
                reserved |-> [n \in Intents |-> None], observed |-> [n \in Intents |-> 0],
                envelope |-> [e \in Envelopes |-> "absent"],
                used |-> [e \in Envelopes |-> 0],
                unresolved |-> FALSE, recovery |-> FALSE, quarantined |-> {}]
  /\ batch = Idle
  /\ \E contract \in ContractKinds, profile \in {"NONE", "RESOURCE_ADMISSION"} :
       authority = [contract |-> contract, profile |-> profile, admission |-> "live",
                    control |-> TRUE, open |-> {}, settled |-> {}, file |-> "current"]

-----------------------------------------------------------------------------
(* Budgets. *)

Requests(l) == SumFunctionOnSet(l.observed, Intents)
\* What reserved intents may still send.
Unsent(l) == [n \in Intents |->
  IF l.reserved[n] # None /\ l.observed[n] < RequestLimit[n] THEN RequestLimit[n] - l.observed[n] ELSE 0]
ReservedUncounted(l) == 0   \* mutant: reservations are not counted
Reserved(l) == SumFunctionOnSet(Unsent(l), Intents)

WithinHardBudgets(l) == l.rounds <= MaxRounds /\ Requests(l) <= MaxRequests

\* An execution event is refused while an effect is unknown, and needs an active
\* envelope within its limits.
MayExecute(e) ==
  /\ ~lineage.unresolved /\ ~lineage.recovery
  /\ lineage.envelope[e] = "active"

-----------------------------------------------------------------------------
(* Batches.  An event extends the open batch, or opens one; the events of a      *)
(* batch are applied one after the other.                                        *)

\* The projection on disk is to be what the chain replays to, and the phase control
\* to have the bytes the contract names.
Examined == authority.file = "current" /\ authority.control
Opened == [batch EXCEPT !.open = TRUE]
\* After ATTEMPT_COMPLETED only the transition out of EXECUTING may follow.
Extends(b) == /\ Examined /\ ~batch.exit
              /\ batch' = b
              /\ UNCHANGED authority

\* Most events are refused when a hard budget is, or would be, exceeded.
ApplyWithin(l) == WithinHardBudgets(l) /\ lineage' = l
\* An observation cannot be refused: exceeding a budget stops execution instead.
Flagged(l) == [l EXCEPT !.unresolved = TRUE, !.recovery = TRUE]
ApplyObserved(l) == lineage' = IF WithinHardBudgets(l) THEN l ELSE Flagged(l)

\* evaluate_completion, for a proof that verifies every hard criterion.
NothingRunning(l) ==   \* mutant: what ended UNKNOWN does not count
  /\ \A x \in Attempts : l.attempt[x] \in Finished \cup {"absent", "UNKNOWN"}
  /\ \A i \in Invocations : l.invocation[i] \in Finished \cup {"absent", "UNKNOWN"}
  /\ ~l.unresolved /\ ~l.recovery /\ l.quarantined = {}
Complete(l) ==
  /\ \A x \in Attempts : l.attempt[x] \in Finished \cup {"absent"}
  /\ \A i \in Invocations : l.invocation[i] \in Finished \cup {"absent"}
  /\ ~l.unresolved /\ ~l.recovery /\ l.quarantined = {}

Transition(to) ==
  LET from == lineage.status IN
  /\ Examined
  /\ to \in Transitions[from]
  /\ to = "EXECUTING" => batch.round
  /\ batch.exit => from = "EXECUTING"
  /\ to = "DONE" /\ authority.contract = "CURRENT" => Complete(lineage)
  /\ batch' = [Opened EXCEPT !.exit = FALSE, !.round = @ /\ to # "EXECUTING"]
  /\ ApplyWithin([lineage EXCEPT !.status = to])
  /\ UNCHANGED authority

GrantEnvelope(e) ==
  /\ lineage.envelope[e] = "absent"
  /\ Extends(Opened)
  /\ ApplyWithin([lineage EXCEPT !.envelope[e] = "active"])

\* An envelope ends by an event, or (Expire) by the clock.
RevokeEnvelope(e) ==
  /\ lineage.envelope[e] \in {"active", "expired"}
  /\ Extends(Opened)
  /\ ApplyWithin([lineage EXCEPT !.envelope[e] = "revoked"])

StartRound(e) ==
  /\ MayExecute(e) /\ lineage.used[e] < EnvelopeRounds
  /\ lineage.status # "EXECUTING" /\ ~batch.round
  /\ Extends([Opened EXCEPT !.round = TRUE])
  /\ ApplyWithin([lineage EXCEPT !.rounds = @ + 1, !.used[e] = @ + 1])

PlanAttempt(x) ==
  /\ lineage.rounds > 0                  \* it names the current round
  /\ lineage.attempt[x] = "absent"
  /\ Extends(Opened)
  /\ ApplyWithin([lineage EXCEPT !.attempt[x] = "PLANNED"])

StartAttempt(x, e) ==
  /\ MayExecute(e)
  /\ lineage.rounds > 0 /\ lineage.status = "EXECUTING"
  /\ lineage.attempt[x] = "PLANNED"
  /\ \A y \in Attempts : lineage.attempt[y] # "RUNNING"
  /\ Extends(Opened)
  /\ ApplyWithin([lineage EXCEPT !.attempt[x] = "RUNNING", !.current = x])

CompleteAttempt(x, state) ==
  /\ state \in Completions[lineage.attempt[x]]
  /\ Extends([Opened EXCEPT !.exit = TRUE])
  /\ ApplyWithin([lineage EXCEPT !.attempt[x] = state])

PlanInvocation(i) ==
  /\ lineage.current # None              \* it names the current attempt
  /\ lineage.invocation[i] = "absent"
  /\ Extends(Opened)
  /\ ApplyWithin([lineage EXCEPT !.invocation[i] = "PLANNED"])

StartInvocation(i, e) ==
  /\ MayExecute(e)
  /\ lineage.current # None
  /\ lineage.invocation[i] = "PLANNED"
  /\ \A j \in Invocations : lineage.invocation[j] # "RUNNING"
  /\ Extends(Opened)
  /\ ApplyWithin([lineage EXCEPT !.invocation[i] = "RUNNING", !.running = i])

\* The dispatch summary counts what was observed; where it leaves anything open
\* (certain is FALSE) under a hard budget of requests, execution stops.
CompleteInvocation(i, state, certain) ==
  LET l == [lineage EXCEPT !.invocation[i] = state] IN
  /\ state \in Completions[lineage.invocation[i]]
  /\ Extends(Opened)
  /\ ApplyObserved(IF certain THEN l ELSE Flagged(l))

ReserveIntent(n, e) ==
  /\ MayExecute(e)
  /\ lineage.running # None              \* the current invocation, even when completed
  /\ lineage.reserved[n] = None
  /\ Requests(lineage) + Reserved(lineage) + RequestLimit[n] <= MaxRequests
  /\ Extends(Opened)
  /\ ApplyWithin([lineage EXCEPT !.reserved[n] = lineage.running])

Tri == {None, "yes", "no"}
\* Quarantines say nothing where there are no Admissions.
Named == IF authority.profile = "NONE" THEN {} ELSE Quarantines

\* A physical request of intent n, whose outcome, or whose charge alone, may be
\* unknown.  Under an Admission an unknown outcome names its quarantine.
Observe(n, known, names) ==
  LET l == [lineage EXCEPT !.observed[n] = @ + 1]
      u == [Flagged(l) EXCEPT !.quarantined = @ \cup names] IN
  /\ lineage.reserved[n] = lineage.running /\ lineage.running # None
  /\ lineage.observed[n] < MaxObserved
  /\ known = "outcome" \/ names = {}
  /\ Extends([Opened EXCEPT !.unknown = @ \cup names])
  /\ ApplyObserved(IF known = "all" THEN l ELSE u)
ObserveUnknown(n) ==
  \/ authority.profile = "NONE" /\ Observe(n, "outcome", {})
  \/ \E q \in Named : Observe(n, "outcome", {q})

\* RECOVERY_OBSERVATION and CORRECTION_APPENDED, with evidence.  Absent fields
\* are None; every quarantine the lineage names is to be reconciled before a
\* flag is taken back.
RecoverPartly(unresolved, recovery, names) ==   \* mutant: quarantines may stay
  LET left == lineage.quarantined \ names
      l == [lineage EXCEPT
              !.unresolved = IF unresolved # None THEN unresolved = "yes" ELSE @,
              !.recovery = CASE left = {} /\ unresolved = "no" -> recovery = "yes"
                             [] recovery # None -> recovery = "yes"
                             [] OTHER -> @,
              !.quarantined = left]
  IN /\ Extends([Opened EXCEPT !.reconciled = @ \cup names])
     /\ ApplyObserved(l)
Recover(unresolved, recovery, names) ==
  LET left == lineage.quarantined \ names
      l == [lineage EXCEPT
              !.unresolved = IF unresolved # None THEN unresolved = "yes" ELSE @,
              !.recovery = CASE left = {} /\ unresolved = "no" -> recovery = "yes"
                             [] recovery # None -> recovery = "yes"
                             [] OTHER -> @,
              !.quarantined = left]
  IN /\ left # {} => l.unresolved /\ l.recovery
     /\ Extends([Opened EXCEPT !.reconciled = @ \cup names])
     /\ ApplyObserved(l)

-----------------------------------------------------------------------------
(* Recording. *)

\* _result_execution_authority_gate, for the whole batch at once: a batch that
\* reports an unknown outcome needs its quarantines to stand, another that
\* reconciles needs the coordination events that did so, and only a batch that
\* does neither needs the Admission.
Authorized ==
  authority.profile = "RESOURCE_ADMISSION" =>
    /\ authority.control
    /\ IF batch.unknown # {} THEN batch.unknown \subseteq authority.open
       ELSE IF batch.reconciled # {} THEN batch.reconciled \subseteq authority.settled
       ELSE authority.admission = "live"

\* record-result-events writes the events and the projection.
Record ==
  /\ batch.open /\ ~batch.round /\ ~batch.exit
  /\ Authorized
  /\ batch' = Idle
  /\ UNCHANGED <<lineage, authority>>

\* rebuild-result-lineage replays the chain, for the same authority.
Rebuild ==
  /\ Settled /\ authority.file # "current"
  /\ Authorized
  /\ authority' = [authority EXCEPT !.file = "current"]
  /\ UNCHANGED <<lineage, batch>>

-----------------------------------------------------------------------------
(* What goes on beside: the clock, the files, and coordination.  The tokens of   *)
(* the contract name epochs, so that its Admission ends for good.                *)

Coordinated == Settled /\ authority.profile = "RESOURCE_ADMISSION"

Expire(e) ==
  /\ Settled /\ lineage.envelope[e] = "active"
  /\ lineage' = [lineage EXCEPT !.envelope[e] = "expired"]
  /\ UNCHANGED <<batch, authority>>

DamageFile ==
  /\ Settled /\ authority.file = "current"
  /\ authority' = [authority EXCEPT !.file = "other"]
  /\ UNCHANGED <<lineage, batch>>

EditControl ==
  /\ Coordinated /\ authority.control
  /\ authority' = [authority EXCEPT !.control = FALSE]
  /\ UNCHANGED <<lineage, batch>>

EndAdmission ==
  /\ Coordinated /\ authority.admission = "live"
  /\ authority' = [authority EXCEPT !.admission = "ended"]
  /\ UNCHANGED <<lineage, batch>>

Quarantine(q) ==
  /\ Coordinated /\ authority.admission = "live"
  /\ q \notin authority.open \cup authority.settled
  /\ authority' = [authority EXCEPT !.admission = "ended", !.open = @ \cup {q}]
  /\ UNCHANGED <<lineage, batch>>

Reconcile(q) ==
  /\ Coordinated /\ q \in authority.open
  /\ authority' = [authority EXCEPT !.open = @ \ {q}, !.settled = @ \cup {q}]
  /\ UNCHANGED <<lineage, batch>>

-----------------------------------------------------------------------------
Execute(e) ==
  \/ GrantEnvelope(e) \/ RevokeEnvelope(e) \/ StartRound(e)
  \/ \E x \in Attempts : StartAttempt(x, e)
  \/ \E i \in Invocations : StartInvocation(i, e)
  \/ \E n \in Intents : ReserveIntent(n, e)

Report ==
  \/ \E to \in Statuses : Transition(to)
  \/ \E x \in Attempts : PlanAttempt(x) \/ \E s \in ExecutionStates : CompleteAttempt(x, s)
  \/ \E i \in Invocations :
       \/ PlanInvocation(i)
       \/ \E s \in ExecutionStates, certain \in BOOLEAN : CompleteInvocation(i, s, certain)
  \/ \E n \in Intents : \/ \E known \in {"all", "charge"} : Observe(n, known, {})
                        \/ ObserveUnknown(n)
  \/ \E u, r \in Tri, names \in SUBSET Named : Recover(u, r, names)

Beside ==
  \/ \E e \in Envelopes : Expire(e)
  \/ DamageFile \/ EditControl \/ EndAdmission
  \/ \E q \in Quarantines : Quarantine(q) \/ Reconcile(q)

Next == \/ \E e \in Envelopes : Execute(e)
        \/ Report \/ Record \/ Rebuild \/ Beside

Spec == Init /\ [][Next]_vars
-----------------------------------------------------------------------------
\* The projection is always one the schema allows.
TypeOK ==
  /\ lineage.status \in Statuses /\ lineage.rounds \in 0..MaxRounds
  /\ lineage.attempt \in [Attempts -> ExecutionStates]
  /\ lineage.invocation \in [Invocations -> ExecutionStates]
  /\ lineage.current \in Attempts \cup {None} /\ lineage.running \in Invocations \cup {None}
  /\ lineage.reserved \in [Intents -> Invocations \cup {None}]
  /\ lineage.observed \in [Intents -> 0..MaxObserved]
  /\ lineage.quarantined \subseteq Quarantines
  /\ authority.open \cap authority.settled = {}

\* The hard budget of requests is exceeded by nobody but a provider that sends
\* more than the bound proven for one of its intents, however reservations,
\* observations and completed invocations follow each other; and once it is, no
\* evidence and no correction clears the flags that stop execution
\* (_authorization_issues, _apply_v2_event).
HardBoundHolds ==
  /\ (\A n \in Intents : lineage.observed[n] <= RequestLimit[n]) =>
       Requests(lineage) <= MaxRequests
  /\ Requests(lineage) > MaxRequests => lineage.unresolved /\ lineage.recovery

\* A lineage of a CURRENT contract that is DONE has no attempt that runs or whose
\* end is unknown: none was hidden by the proof, and none is started or lost later
\* (evaluate_completion, and the pairing of ATTEMPT_COMPLETED with a transition out
\* of EXECUTING).  Of a legacy contract nothing of the kind can be said.
DoneIsEarned ==
  authority.contract = "CURRENT" /\ lineage.status = "DONE" =>
    \A x \in Attempts : lineage.attempt[x] \notin {"RUNNING", "UNKNOWN"}

\* As long as the lineage names a quarantine it also says that effects are
\* unresolved and that recovery is due, so that nothing is executed: neither
\* evidence, nor a correction of the flags alone, nor another observation parts
\* them (_apply_v2_event, _semantic_result_lineage_projection).
QuarantineIsFlagged ==
  lineage.quarantined # {} => lineage.unresolved /\ lineage.recovery
=============================================================================
