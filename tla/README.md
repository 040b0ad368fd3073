# MALTS 2.1.5: a TLA+ model of its execution core, its workspaces and its installation

MALTS keeps the state of long agent-driven projects: what the tasks are, who may
touch which file, what was done, what is proven, and which agent process (Host) is
working. This directory models the parts of it where an order of events nobody
tested could make the state wrong, checks them with TLC and proves the main
results with TLAPS. Paths below are relative to the repository; `v2_x.py` stands
for `tools/v2_x.py`.

## 1. Inventory

### Execution core (V2), one SQLite database per project

Every write of these services is one `BEGIN IMMEDIATE` transaction on one database
(`StateStore.transaction`), so a handler is atomic and handlers are serial. What is
*not* in a transaction is what makes the system hard: file I/O, calls to a Host,
the supervisor process and the command it runs. All of them may stop at any point.

| part | state | operations | what must hold |
|---|---|---|---|
| store (`v2_state_store`) | task, revision, dependencies, all control tables | create/revise/cancel task, add dependency | a revision ends what the old one authorized; cancel is final |
| operations (`v2_operations`) | grants, operations, leases, budgets, append-only intents | record/revoke grant, prepare, record intent, verify/renew lease, cancel, observe, configure/amend budgets | an effect is admitted once, alone on its resource, within every budget |
| file workers (`v2_local_host`, `v2_file_update`) | the call in progress, the file, the preimage | read, create, update, reconcile | the file is touched only while the effect is admitted, and the recorded outcome is the true one |
| lifecycle (`v2_task_lifecycle`, `v2_runs`) | status, recovery marker, Runs, checkpoints, requested pauses | verify, rework, open/pause/resume Run, rebuild checkpoint, reconcile | an unknown effect parks its task, and only that does; a wait always has a cause |
| acceptance (`v2_acceptance`, `v2_evidence`) | evidence, acceptances, invalidations | record, accept, invalidate | nothing stays accepted when its basis is gone; accepted work is closed |
| governance (`v2_governance`), artifacts (`v2_artifacts`) | project and phase definitions, bindings, carry-overs, completions, artifacts, shared names | define, bind, activate, complete, verify, reopen, carry; register, decide, promote, retire | a receipt that verifies is true of the whole project; no work is left behind in a completed phase |
| Host execution (`v2_host_execution`) | dispatches, invocations, dispatch budget | configure/amend/revoke budget, prepare, launch, poll, cancel, record answer | a Host is recorded as ended only when it is; late answers change nothing; a successor is justified |
| process host (`v2_process_host`, `v2_windows_job`) | the host's own journal, the supervisor, the Job | start, query, cancel, supervise | EXITED is proof; every run ends |
| recovery (`v2_recovery`, `v2_forward_recovery`), adoption (`v2_adoption`), relocation | several databases, backups, seals, the pointer, recovery and adoption rows | back up, restore, review, import, adopt, switch forward, relocate, replace a lost store | one database is in charge; an old epoch does nothing more; no begun work is forgotten |
| native agent host, handoff, MCP and CLI, legacy readers | journals, requests | | not modelled (section 6) |

How they interact: callers (CLI, MCP server, agents) invoke services on the shared
database. A *file worker* alternates transactions with file I/O. A *controller*
launches, polls and cancels a Host by an invocation row (transaction), an adapter
call (outside), and an observation (transaction). The adapter is the *supervised
process host*: it journals a run in a database of its own and spawns a supervisor
that starts the command in a Windows Job. The command's agent calls back into the
store under the actor name of its dispatch. The services call each other inside
transactions: nearly every observation ends in `reconcile_effect_state`; `_grant`
asks the dependency, phase and Host tables; acceptance, revision, cancellation and
quiescence all cascade into grants, operations and Runs. A *switch* (adoption,
recovery, relocation) goes from one database to another in database transactions
and file replacements that may stop between any two.

### Document workspace (V1) and installation

| part | state | operations | what must hold |
|---|---|---|---|
| workspace transactions (`workspace_transactions.py`, both protocols) | the control files, the lock file, one journal per operation | execute (check, lock, recheck, capture, journal, replace, validate, commit, unlock), rollback of a caught failure, explicit recovery in three modes | a set of files changes at one instant or not at all; one writer; whatever is half done is behind the lock |
| long workspace (`long_workspace.py`) | `workspace_control.json`, phase and session controls, bindings, the transition plan | init, open, pause, resume and close phases and sessions, plan and apply a transition, reconcile, review, reorganize | a workspace never locks itself out; a transition drops no task it has seen |
| artifacts (`workspace_artifacts.py`) | registries, the shared and archive indexes, the references to them | register, promote, supersede, decide, reconcile, close | one source of truth for a purpose, and every reference leads to it |
| resource admissions (`workspace_coordination.py`) | active admissions with fencing tokens, epochs of domains, the queue, quarantines | admit, renew, release, reap expired, record unknown, reconcile, verify, phase gate | what is admitted at one time is compatible; whoever lost its admission is fenced; an unknown effect is never dropped or built upon; queues are fair |
| result contracts (`result_controller.py`) | the lineage: events, attempts, invocations, budgets, envelopes, quarantines | record a batch of events, rebuild | budgets are hard; DONE of a CURRENT contract is earned; a quarantine stops execution |
| installation (`malts_lifecycle.py`) | registry of generations, pointer, images, Host files, lock, transaction directories, audit | install, update, repair, finalize, uninstall, retire, recover, serve a request | between operations the installation is whole; what is served is installed; a rollback restores |

Here nothing is serial: each step of a workspace transaction is a file-system call of
a process of its own, any call may fail, any process may be killed between two calls,
and only the lock file and the journals tell the next process what happened.
Coordination, artifact and phase commands read files, compute, and hand the result to
a transaction that compares the hashes they give it; other writers, the clock and the
owner's editor act in between.

## 2. Modules

```
ExecutionState      the control tables, the questions services ask of them, reconcile
  Operations        grants, budgets, leases, one operation's life
    FileWorkers     read_file, create_file, update_file, reconcile_update
  TaskLifecycle     tasks, dependencies, Runs, verification, acceptance, phase
  HostExecution     dispatch budget, dispatches, Host calls
    ProcessHost     (INSTANCE) the supervised process host; also a system of its own
Execution           all of it interleaved; the properties; the refinement mapping
EffectLedger        abstract specification: what the core promises about effects
ExecutionProofs     proofs: worker, store and file; leases, exclusion, the refinement;
                    types, budgets, Hosts, waits, acceptance

Governance          projects, phases, receipts, carried work, shared artifacts
GovernanceProofs    proofs: verified is done, nothing left behind, references resolved

StateAuthority      several databases, backups, switches between them
AuthorityProofs     proofs: one authority, old epochs are dead, work is kept

WorkspaceTransaction  processes, lock, journals and files, with failures and kills
  DomainTransaction   the second protocol (coordination, artifacts) beside the first
AtomicFiles           abstract specification: each operation at one instant
TransactionProofs     proofs: one writer, pending work behind its lock, exact preimages;
                      both protocols together implement the atomic files

Workspace             phases, sessions, bindings, transitions; apply-phase-transition
                      reads and writes in two steps, the other commands are one
WorkspaceProofs       proofs: never locked, what was reviewed is carried
WorkspaceArtifacts    registries, shared and archive indexes, references
WorkspaceCoordination admissions, tokens, queue, quarantines, results, phase commands;
                      reading and committing are separate steps, the commit is one
CoordinationProofs    proofs of its invariants and action properties
ResultLineage         events of one result contract, in batches
EvidenceProofs        proofs about three components: an answer EXITED of the process
                      host is proof; DONE is earned, a quarantine is flagged, the hard
                      budget of requests; successions of artifacts end in force

Installation          generations, Hosts, operations and their recovery
InstallationProofs    proofs: whole between operations, a rollback restores, what is
                      served is installed

MCEffects MCLifecycle MCHost MCProcessHost MCGovernance MCAuthority MCTransaction
MCWorkspace MCArtifacts MCCoordination MCResults MCInstallation     models for TLC
```

The parts are composed where they share state: `Execution` interleaves the services
on one database with the supervised process host. The others meet at an interface
that one of them promises and the other assumes: a command of `Workspace`,
`WorkspaceArtifacts`, `WorkspaceCoordination` or `ResultLineage` writes in one step
because `DomainTransaction` implements `AtomicFiles`; `ResultLineage` takes from
coordination whether its Admission stands (`authority`); `Governance` reduces a task
to what it reads of it, and `TaskLifecycle` a phase to the gate it is for tasks.

Correspondence, in general: a variable is a column or a file (its comment names it), a
row never inserted is `"ABSENT"`, an action is a handler with its whole transaction,
including the tail it calls. Request identifiers are chosen by callers and bound
to content; a repeat is answered REPLAY and a changed content is refused, so both
are no steps of the model.

* `Reconcile(t, runs, released)` is `reconcile_effect_state`, used as the last
  conjunct of `Observe`, `ObserveHost` and `CallUncertain`. It reads the new rows
  (primed) as the code reads them after its updates.
* Time: `expires_at` is not a number. `ExpireGrant`, `ExpireLease`, `ExpirePolicy`
  let the clock pass it at any moment; a renewal is the freedom not to.
* `fresh[d]` stands for the context, budget and checkpoint fingerprints `prepare`
  stores and `launch` compares.
* `Resolved`, `Reaches`, `Dependents` are the recursive SQL queries, stated as
  least or greatest sets so that theorems can use them.
* A worker is the call of one operation. `create_file` checks the lease, then
  writes outside any transaction; `update_file` writes inside the transaction that
  checks the lease, under an exclusive handle. `WorkerDies` may strike anywhere.
* In `StateAuthority` `hand` is the switch in progress and its step; `Steps` lists the
  transactions and replacements of each kind in the code's order. `Interrupted` stops
  it between two of them, and only what the files say (`FilesMatchEither`) lets it go on.
  `saved[b]` is the image in a backup, `facts` the native rows a database keeps,
  `worker[w]` the database whose intent the worker of `w` acts on.
* In `WorkspaceTransaction` an action is one file-system call (or the decision
  between two), `work[p].at` is the place of process `p` in
  `_execute_workspace_transaction` or `_recover_workspace_transaction`, and every
  call that may raise has a disjunct that spends one of `MaxFaults` and goes where
  the `except` clause goes. `Killed` stops a process anywhere. A review is what
  `recover_transaction` checks before it applies; `Unchanged` is its second
  comparison of the journal's and the lock's hash. `DomainTransaction` adds
  `legacy`, the operations under the second protocol, and the history variable
  `published`: that protocol may undo an operation whose journal already says
  COMMITTED, so what counts as committed is what its process has released as such.
* In `Workspace` a hash in a binding is fresh or stale, which is all the code compares.
  The plan of a transition is persisted; it keeps which of its inputs are unchanged.
  `ReadTransition` is `command_apply_phase_transition` up to its last comparison and
  keeps what it read in `applying`; `WriteTransition` replaces the files by what follows
  from that, whatever they hold by then, since `_transaction_write` hashes its targets
  only there; `QuitTransition` is a refusal or a kill in between. Any action may come
  between them. `Beside`, in every other command, notes that the transition is no longer
  alone, and `overwrote` that it then wrote nevertheless. The other commands are single
  steps: that they, too, read before they hash is modelled in `WorkspaceCoordination`.
* In `WorkspaceArtifacts` a command is two steps, planned and written; the hashes of
  its inputs and the audit of the result are in the second.
* In `WorkspaceCoordination` a call of a client is two actions: the handler reads
  `coord` and `control` and leaves its next state in `plan[c]`; `Commit(c)` is the
  transaction, which happens only while nothing it compares has changed (`fresh`).
  `OthersStale` is that comparison seen from the other side: who commits makes every
  other plan stale. A stale result keeps its tokens in `plan[c]`, because its holder
  goes on believing in them (`TokensFenced`). A domain is a place or a capability
  (id without case, isolation key), `epoch[d] > 0` means it has a row. `Expire` passes
  `expires_at` of an admission or a queued request; `edition[p]` is which bytes a
  phase-control file has, which admissions are bound to (`BindingIsCurrent`).
  `ReadForPause`, `ReadForResume` and `WriteCommand` are a phase command before and
  after it reads its preconditions, which are hashed when it writes.
* In `ResultLineage` a batch is applied event by event to a copy and recorded whole;
  a batch that cannot be completed stays open and leaves no trace, like the exception.
* In `Installation` `run` is the process that holds the mutex, `tx[o]` the transaction
  directory that outlives it, and `Recover` another process that finds one.

## 3. Runs

`NoHost`, `Unlimited`, `None` and the identifiers are model values. Symmetry is used
where the identifiers have no role of their own and no liveness is checked: the
clients of `MCCoordination`, the attempts and intents of `MCResults`. Deadlock checking is off
where a run may end with its bounded identifiers used up; workspace transactions and
the process host keep it on, because there somebody can always go on.

| run | instance | asks | states |
|---|---|---|---|
| `MCEffects` | 2 tasks, 2 grants, 3 operations: create, update, update of the same file by another task; the first task has 2 revisions; clock | `WriterHoldsResource`, `OutcomeIsTrue`; implements `EffectLedger` | 532 182 |
| `MCLifecycle` | one of: 2 tasks that may depend on each other, with 2 Runs; a task in a phase; 2 tasks under budgets 1..2 of grant, task and project | `CompletedIsClosed`, `AcceptanceHasBasis`, `BudgetRespected` | 478 476 |
| `MCHost` | one of: a Host with overlapping launch, query and cancel; a Host whose actor creates a file; 2 Hosts of one task, recovery from the first | `QuiescenceIsTrue`, `RecoveryIsJustified`, `WaitingHasCause` | 433 922 |
| `MCProcessHost` | 2 runs of the process host | `ExitIsProof`; with fairness `AnswerSettles` | 1 296 |
| `MCGovernance` | 2 phases, 2 tasks, the second after the first, an artifact per phase, 1 shared name | `VerifiedIsDone`, `NothingLeftBehind`, `CompletedIsResolved` | 1 074 760 |
| `MCAuthority` | 3 databases, 2 backups, 2 switches of any kind, 1 operation, 1 interruption | `OneAuthority`, `OldEpochIsDead`, `WorkKept`; with fairness `SwitchCompletes` | 397 901 |
| `MCTransaction` | 2 processes, 2 files, 3 operations: two planned against the same contents, one that follows the first; all, some or none of the second protocol; 4 faults | `OneWriter`; implements `AtomicFiles` (`DomainsImplementAtomic`); with fairness `DomainLocksAreReleased` | 145 383 |
| `MCWorkspace` | 2 phases, a third while a transition is being applied, 1 session, 1 task, 2 actors, all layouts and profiles, 1 edit by hand and 1 of the queues | `NeverLocked`, `ReviewedIsCarried`; with fairness `LocksAreOpened` | 144 100 |
| `MCArtifacts` | 2 phases, 1 session, 3 rows to register, 2 shared entries of one scope spelled twice, one of them also as superseded by a row, 1 archive entry; at most 3 of these at a time, 1 edit by hand | `SuccessionEndsAtCurrent`, `ClosedIsResolved`, `SharedSourcesAreIntact`, `ReferencesFollow` | 1 653 003 |
| `MCCoordination` | 3 admissions in one phase (a writer and a reader of overlapping places, a camera both queue for, a GPU isolated under two keys and two spellings, once without fencing), 2 clients, 1 phase command, edits by hand | `ActiveDisjoint`, `TokensFenced`, `QuarantineHolds`, `ResultUnderAuthority`, `QueueIsFair` | 1 103 461 |
| `MCResults` | 2 attempts, 2 rounds, 1 invocation with 3 intents of 1 request each, a budget of 2 requests of which up to 3 are sent, 1 envelope, 1 quarantine; a legacy contract, a CURRENT one with and without an Admission | `HardBoundHolds`, `DoneIsEarned`, `QuarantineIsFlagged` | 1 151 821 |
| `MCInstallation` | a legacy generation and one of version 2, 2 Hosts, 3 operations, 1 retirement, 2 mishaps | `SettledIsWhole`, `ServedIsInstalled`, `RollbackRestores`; with fairness `InterruptionsSettle` | 189 248 |

Bounds.
* Execution core. `MaxRev` bounds revisions: two are needed for anything about an old
  revision, a third adds no new relation between two. Identifiers are never reused by
  the code, so a finite set bounds how much happens, not in which order. Each model
  switches off what another varies (`MCSpec`): dependencies and evidence in the effect
  and Host models, the clock in the lifecycle and Host models. In `MCLifecycle` and
  `MCHost` `OneModel` lets only one of the instances begin; under budgets nothing is
  revised or verified (`Calm`); the policy is withdrawn under the Host that writes,
  and two launches are allowed where there are two Hosts (`Varied`). Two operations on
  one resource and a third in the same task give every kind of rivalry there is, two
  Hosts every overlap of an old and a new one.
* `MCGovernance`: `Small` counts what is repeated (revisions, receipts, acceptances,
  lost evidence, edited plans). With one task two more revisions, or one repetition;
  with two tasks and no artifacts one more of either. Larger instances (3 023 125
  states, and a union of 3 623 949) also passed.
* `MCAuthority`: the databases are used in order (`InOrder`); the first switch adopts or
  relocates, the second recovers or relocates again (`Kinds`); one ordinary write per
  database, where a plan may notice it (`Noticed`). What more of everything can do is
  left to the theorems, which have no bound.
* Transactions: four faults are enough for a failure, a failure of its rollback, a kill
  of the recovery and one more; two files distinguish the first, the middle and the end
  of a replacement; a third process would repeat what one of two does, since only one
  holds the lock (which is proved for any number).
* Workspace: one transition is applied at a time, and between its comparison and its
  write the owner may edit and one command may write (`Brief`): a second command beside
  it finds and leaves what the first did. The third phase is opened only there
  (`Third`) and is the target of no plan; it is the one a stale transition may make
  forgotten. With plans to it as well 508 668 states passed. A run ends where the
  transition has overwritten another command's write, which it does reach: from there
  on only `ReviewedIsCarried` is claimed, and that is proved. Artifacts: three rows in all
  (`MaxEntries`), because a chain of supersessions and the archive need no more; the row
  that replaces an entry is kept apart from the rest, with entries of the index only.
* Coordination: a domain is raised at most three times (`MaxEpoch`: granted, ended,
  granted again), the GPU at most twice under each key; two clients are every overlap
  of two calls, and the theorems cover the rest.
* Results: of the states that end a task, an attempt or an invocation in the same way
  one stands for the others (`OneOfAKind`). With three intents of one request and a
  budget of two, two are reserved at once, a third is refused, and a provider that sends
  more than it said takes the lineage beyond the budget (`MaxObserved` is 3), so both
  halves of `HardBoundHolds` have states to speak of. Several intents are reserved only
  for a CURRENT contract without an Admission; a legacy contract has no Admission.
* Installation: operations are planned in the order of their names and run in any;
  two of them may meet two mishaps (exceptions, kills, edits), three meet none
  (`Planned`). Three operations with two mishaps passed for the invariants (4.25 M
  states), three with one mishap for all four (421 818).

Fairness. Safety needs none.
* `ProcessSpec`: weak fairness of `SupervisorStep`. A live supervisor is an
  operating-system process that polls every 20 ms and whose wait has a deadline.
  Nothing is assumed of the controller, of the command (it may run for ever), or of
  failures (`LaunchFails`, `SupervisorFails`, `SupervisorDies` are never forced).
* `FairDomainSpec`: a process that is not killed runs its straight-line code to its
  end, and the owner does have interrupted work recovered, which every error raised
  asks for. New operations, kills, failures and edits are not forced.
* `SwitchFairness` (authority): a switch that is under way goes on, the owner continues
  an interrupted one with its plan, and a document program that holds its lock ends.
* `Fairness` (installation): a process goes on, a runtime request ends, and the owner
  recovers what is open; strongly for recovery, because requests, which hold the same
  mutex, may come again and again.
* `RepairFairness` (workspace): the owner reconciles what has drifted and settles a
  review that was left unclear. The code names both commands in its refusals. A registry
  that a transition wrote over another command's contradicts the controls, and neither
  command brings it back: `LocksAreOpened` excepts it.

Elsewhere the code obliges no caller to call, so no liveness is claimed.

### Disagreements

What the code does and a document of the repository says differently, met while
modelling. The models follow the code; no run is spent on these. `pre-adoption.md` is in
`skills/malts-long-project-workspace-init/references/`, `QUALITY_GATE.en.md` in
`runtime/EN/checklists/`.

* *Execution.* `docs/V2_STATE_CONTRACT.md:60` gives lease expiry the role of preventing
  old managed execution; `create_file` checks its lease once and writes later outside
  the transaction. Nothing is lost, because an expired lease is not taken over.
* *Transactions.* `tools/lifecycle_invariants.json:283` promises explicit recovery. A
  process killed after its journal says ROLLED_BACK (for coordination also COMMITTED)
  and before its lock is removed, or between creating and writing the lock, leaves a
  lock no recovery accepts. `QUALITY_GATE.en.md:136` wants an operation committed
  exactly once: the journal is examined before the lock and not again under it, so two
  processes with the same operation can commit it twice if a third brings the inputs
  back in between. A coordination operation that cannot release its lock is rolled back
  although its journal says COMMITTED. An Artifact transaction has a lock of its own
  over the same control files (`pre-adoption.md:168` speaks of one writer).
* *Phase commands.* `pre-adoption.md:168` says compare-and-swap keeps every writer from
  overwriting newer authority. The phase commands read `workspace_control.json` first
  and `_transaction_write` hashes it when they are about to write
  (`long_workspace.py:372`), so the comparison is with itself: a result recorded in
  between loses its binding. `record-result-events` and coordination bind what they read.
  `apply-phase-transition` compares the hash of the source phase (`:6876`) and writes much
  later (`:7068`), against `pre-adoption.md:142` ("Transition apply fails closed on stale
  bytes"): a row written into the queue in between is overwritten and reaches neither the
  successor nor a disposition, and what another command registered in between is taken
  out of the registry again while the controls keep it, which locks the workspace. TLC
  finds both where `ReviewedIsCarried` speaks of the queue at the time of writing, and
  where `NeverLocked` and `LocksAreOpened` do not except `overwrote`.
* *Workspace.* A phase with results under admissions cannot be closed
  (`malts_user_contracts.py:1236` against `long_workspace.py:1562`).
  `migrate-phase-control` overwrites the recovery record it says it keeps. What
  validation asks for after drift of an active phase's control is refused by the same
  drift. `apply-phase-transition` does not ask the phase's close gate.
* *Results* (`long_workspace.py:2243`). A batch with an UNKNOWN observation never has
  its reconciliation evidence verified, a reconciling batch never its Admission
  (against `pre-adoption.md:153`). After a terminal status nothing refuses further
  events. An attempt left RUNNING when EXECUTING is left cannot complete before it is
  entered again. Beyond the hard budget everything but observations is refused, BLOCKED
  too. Once the Admission ended, a damaged lineage locks the workspace. A legacy contract
  (version 2 or 3) becomes DONE without completion evidence and with attempts that still
  run or whose end is unknown (`result_controller.py:586`); the model follows the code,
  and `DoneIsEarned` speaks of CURRENT contracts.
* *Artifacts.* Closing a phase that is OPEN but not active ignores its UNRESOLVED rows
  (against `QUALITY_GATE.en.md:35`); reconciliation can change the disposition of a
  promoted source; references in paused phases are not updated by a supersession.
* *Governance.* `docs/V2_STATE_CONTRACT.md:90` says that an empty phase does not finish
  the wider scope; a phase whose tasks were all carried away and whose criteria are all
  soft completes (`v2_governance.py:361`). A cancelled task makes its phase impossible
  to complete for good. A task carried out of a phase blocks that phase's next revision
  until it is brought back and carried again, which the uniqueness of carry-overs then
  refuses from the same revision. An artifact that is both generated from and
  superseded by one of a completed phase makes that phase's receipt fail for good.
* *Authority.* `docs/V2_PREVIEW_USAGE.md:208` and `docs/MANAGEMENT_AND_RELOCATION.md:129`:
  an ordinary write to one of the databases between preparation and switch strands the
  switch (`SwitchCompletes` excepts it); adoption does not look at the documents again.
* *Installation.* `docs/LIFECYCLE.md:182` says that recovery of a version 2 activation
  continues within version 2; one whose journal says FAILED or ROLLBACK is refused
  (`malts_lifecycle.py:6155`) and nothing else continues it. An uninstallation's
  rollback does not restore the Hosts' entries; a lock left after its transaction
  directory was removed blocks runtime requests until it is replaced.

## 4. What is proved

For every value of the constants (any number of tasks, grants, operations, Runs,
dispatches, calls, databases, switches, phases, events, ...):

| theorem | statement |
|---|---|
| `ExecutionProofs!WriterHoldsResourceHolds` | `Spec => []WriterHoldsResource` |
| `ExecutionProofs!OutcomeIsTrueHolds` | `Spec => []OutcomeIsTrue` |
| `ExecutionProofs!LeaseMatchesOperationHolds` | `Spec => []LeaseMatchesOperation` |
| `ExecutionProofs!PendingExclusiveHolds` | `Spec => []PendingExclusive` |
| `ExecutionProofs!ImplementsLedgerHolds` | `Spec => ImplementsLedger`, the refinement |
| `ExecutionProofs!TypeOKHolds` | `Spec => []TypeOK`, the execution core |
| `ExecutionProofs!BudgetRespectedHolds` | `Spec => []BudgetRespected` |
| `ExecutionProofs!QuiescenceIsTrueHolds` | `Spec => []QuiescenceIsTrue` |
| `ExecutionProofs!RecoveryIsJustifiedHolds` | `Spec => []RecoveryIsJustified` |
| `ExecutionProofs!WaitingHasCauseHolds` | `Spec => []WaitingHasCause` |
| `ExecutionProofs!CompletedIsClosedHolds` | `Spec => []CompletedIsClosed` |
| `ExecutionProofs!AcceptanceHasBasisHolds` | `Spec => []AcceptanceHasBasis` |
| `EvidenceProofs!ProcessTypeOKHolds` | `ProcessSpec => []ProcessTypeOK` |
| `EvidenceProofs!ExitIsProofHolds` | `ProcessSpec => []ExitIsProof` |
| `GovernanceProofs!GovernanceTypeOKHolds` | `Spec => []TypeOK`, governance |
| `GovernanceProofs!VerifiedIsDoneHolds` | `Spec => []VerifiedIsDone` |
| `GovernanceProofs!NothingLeftBehindHolds` | `Spec => []NothingLeftBehind` |
| `GovernanceProofs!CompletedIsResolvedHolds` | `Spec => []CompletedIsResolved` |
| `AuthorityProofs!OneAuthorityHolds` | `Spec => []OneAuthority` |
| `AuthorityProofs!OldEpochIsDeadHolds` | `Spec => []OldEpochIsDead` |
| `AuthorityProofs!WorkKeptHolds` | `Spec => []WorkKept` |
| `TransactionProofs!TypeOKHolds` | `Spec => []TypeOK`, workspace transactions |
| `TransactionProofs!OneWriterHolds` | `Spec => []OneWriter` |
| `TransactionProofs!PendingHoldsLockHolds` | `Spec => []PendingHoldsLock` |
| `TransactionProofs!PreimagesExactHolds` | `Spec => []PreimagesExact` |
| `TransactionProofs!OneWriterAcrossProtocols` | `DomainSpec => []OneWriter`, both protocols |
| `TransactionProofs!JournalsAcrossProtocols` | `DomainSpec => [](TypeOK /\ PendingHoldsLock /\ PreimagesExact)` |
| `TransactionProofs!DomainsImplementAtomicAlways` | `DomainSpec => DomainsImplementAtomic`, the refinement |
| `WorkspaceProofs!NeverLockedHolds` | `Spec => []NeverLocked` |
| `WorkspaceProofs!ReviewedIsCarriedHolds` | `Spec => ReviewedIsCarried` |
| `CoordinationProofs!ActiveDisjointHolds` | `Spec => []ActiveDisjoint`, coordination |
| `CoordinationProofs!QuarantineHoldsAlways` | `Spec => []QuarantineHolds` |
| `CoordinationProofs!TokensFencedHolds` | `Spec => []TokensFenced` |
| `CoordinationProofs!UnknownIsKeptHolds` | `Spec => UnknownIsKept` |
| `CoordinationProofs!ResultUnderAuthorityHolds` | `Spec => ResultUnderAuthority` |
| `CoordinationProofs!QueueIsFairHolds` | `Spec => QueueIsFair` |
| `EvidenceProofs!DoneIsEarnedHolds` | `Spec => []DoneIsEarned` |
| `EvidenceProofs!QuarantineIsFlaggedHolds` | `Spec => []QuarantineIsFlagged` |
| `EvidenceProofs!HardBoundHoldsAlways` | `Spec => []HardBoundHolds` |
| `InstallationProofs!SettledIsWholeAlways` | `Spec => []SettledIsWhole` |
| `InstallationProofs!RollbackRestoresAlways` | `Spec => []RollbackRestores` |
| `InstallationProofs!ServedIsInstalledAlways` | `Spec => []ServedIsInstalled` |
| `EvidenceProofs!ArtifactTypeOKHolds` | `ArtifactSpec => []ArtifactTypeOK` |
| `EvidenceProofs!SuccessionEndsAtCurrentAlways` | `ArtifactSpec => []SuccessionEndsAtCurrent` |
| `EvidenceProofs!ClosedIsResolvedHolds` | `ArtifactSpec => ClosedIsResolved` |
| `EvidenceProofs!SharedSourcesAreIntactHolds` | `ArtifactSpec => SharedSourcesAreIntact` |
| `EvidenceProofs!ReferencesFollowHolds` | `ArtifactSpec => ReferencesFollow` |

Some of these (`LeaseMatchesOperation`, `PendingExclusive`, `UnknownIsKept`,
`PendingHoldsLock`, `PreimagesExact`, the type invariants) are in no run: they were
checked while their theorems were prepared and a proof says more. The first four
theorems of `TransactionProofs` are about the workspace protocol alone
(`WorkspaceTransaction`), the other three about both protocols under one lock
(`DomainTransaction`), all for any number of faults.

**Effects** (`ExecutionProofs`, first part). About fifty actions touch some thirty variables, but
effects are five of them (`EffectView`). The first lemmas show what each handler does
to these five: prepared operations are withdrawn, observed ones accepted, those of an
ended Host become unknown, a lease lapses, workers are killed, or a worker makes a
step. `EffectInv` is then shown inductive over these kinds of step. `OutcomeIsTrue`
alone is not inductive: `Report` records what the *worker* believes, so the invariant
must tie each position of the worker to the file (`effect`) and to the operation
(`OpPending`), which is `WorkerAgrees`. It also needs that a preimage exists only
after an update opened its handle, because `reconcile_update` answers from the bytes
and must not answer while the handle that may still change them is held.
`PendingExclusive` is inductive with the type of the five variables and the symmetry
of conflicts. The refinement maps `opState` to the ledger's phase and shows that
every view is a ledger step or a stutter.

**Tasks, Hosts, Runs, acceptance** (`ExecutionProofs`, second part). The invariants are
layered, and each layer may use the ones below and those about effects. `TypeInv` is the types
together with what the foreign keys say: a row names rows that exist (`TasksKnown`,
`OpsKnown`, `HostsKnown`, `CallsKnown`). `BudgetRespected` needs only the types and the
finiteness of the intents. `HostInv` says what the row of a Host proves: its columns
agree with each other (`HostRows`) and with its supervisor and its calls
(`SupervisionInv`); what is recorded as ended was proven to be (`EndIsProven`); a worker
of a Host lives only beside the Host's command (`WorkersNeedHost`); and an intent a Host
admitted in its own task keeps the Host pending (`OwnIntents`), since observing the end
makes it unknown first. `QuiescenceIsTrue` follows.
`TaskInv` adds that a pending Host is of its task's revision (`HostRevs`) and gives each
task what its status promises: `Recovers(t)`, which is `RecoveryIsJustified`, and
`Waits(t)`: who waits, or will wait again after recovery, has a pause that is still
wanted and something pending. `WaitingHasCause` alone is not inductive, because
`reconcile_effect_state` goes back to the status that the marker remembers.
`AcceptInv`: a task is COMPLETED exactly when its present revision is accepted
(`Marked`), no acceptance is of a later revision (`AcceptedRevs`), acceptances have their
basis, and a completed task is `Clean`: no pending effect, unresolved Host, prepared
operation or open Run. `AcceptanceHasBasis` needs the first two because withdrawal goes
by status and dependencies by revision; `Clean` is kept because every way to admit an
effect or open a Run asks for a status that a completed task does not have.

**The process host** (`EvidenceProofs`). The journal does not say who lives. `HostInv`
ties each state of the row to the place of the supervisor (`RowAgrees`), and a live
command to a supervisor that started it (`JobAgrees`); then EXITED is only written by a
supervisor that is past its Job.

**Governance** (`GovernanceProofs`). `VerifiedIsDone` speaks of every phase there is,
`verify_project_completion` only of those the receipt lists; what joins them is `Listed`:
a receipt that is still valid lists a receipt of every phase defined, because whatever
defines a phase withdraws the receipts of the project first. `NothingLeftBehind` is not
inductive, since `Invalidate` knows a phase only through its receipts. `WorkInv` adds
that a task has one binding per revision (`Bindings`), and that a phase stands completed
on a valid receipt that counts an acceptance of every task bound to it now (`Counted`).
So an acceptance in a completed phase cannot be withdrawn without the receipt, nor the
receipt without reopening the phase; a task carried out stays out because a new revision
is bound nowhere and `BindTask` adds to no completed phase. `CompletedIsResolved` is
inductive once a shared name is known to stand for a registered artifact
(`SharedKnown`): only an active owner decides, the archive is for good, and a binding
never changes its artifact (`OwnerDecides`). `Closure` is stated as a least set, so that
`complete_phase`'s audit is known to reach everything the phase owns.

**Authority** (`AuthorityProofs`), the longest argument. `OneAuthority`: the pointer names
one switch, and a database is in charge only when that switch is ACTIVE in it, so it is
enough that a switch is ACTIVE for one database, the target of its plan. But a plan may
be reviewed anew as long as no database knows the switch, and an image in a backup may
bring a switch back. So `AuthorityInv` says that whatever is ACTIVE anywhere, in a
database (`StoresHeld`) or in a backup (`ImagesHeld`), is accounted for by the plan as it
is now, and that an image knows no switch that its database does not know. For
`OldEpochIsDead` and `WorkKept`, `EpochInv` adds what every database, image, plan, grant,
worker and review promises (`RowsOK`, `ImagesOK`, `PlansOK`, `NativeOK`, `GrantsOK`,
`WorkersOK`, `ReviewsOK`, `RetiredOK`, `HandOK`, `PointerOK`, `KeptOK`): a restored
database has an epoch of its own and a review that answered for the work its backup had
begun, a plan covers what its source has begun, and the last switch carried out knows
the work of all before it. `Spec` is shown to keep it action by action; the switch's own
steps are the hard part, since `MarkOld`, `ReplacePointer` and `Activate` each move the
place that `KeptOK` and `PointerOK` speak of.

This proof found two places where the model allowed more than the code, and one claim
that was stronger than the truth. `PrepareRelocation` lacked the guard of
`classify_source` (now `NativeSource`), and a native database may be created with a
locator, which `Init` left out. `WorkKept` said that *every* database retired by any
switch is covered by whichever is in charge; that holds only of switches that were
carried to their end (`Completed`), since an abandoned plan retires nothing. Three
databases, as in the run, do not show the difference.

**Workspace transactions** (`TransactionProofs`; any number of operations, files, processes
and faults). None of the three properties is inductive: `OneWriter` needs to know
that a process between two calls still has the lock, `PendingHoldsLock` that nobody
removes a lock whose journal is pending, `PreimagesExact` that what was captured was
captured after the recheck. `IInv` gives each place in the code what it may rely on
(`Good`: "LOCKED" and every place after it hold the lock; a place about to unlock has
no pending journal; after "CLEAR" the inputs are as planned; from "CAPTURED" on the
preimages are exact) and says that at most one process is at such a place
(`Exclusive`). Because everybody else claims nothing, a step only has to keep the
store in order and its own process good (`OneMoves`); most actions are instances of a
few movements (`MoveOK`, `FailureOK`, `JournalOK`, `ReleaseOK`). The delicate step is
`TakesOverOK`, where a recovery becomes the one at work: who else is at work holds
the same lock, hence works on the same operation, which `Interrupted` excludes.

The second half shows that both protocols together implement `AtomicFiles`
(`DomainsImplementAtomicAlways`). What a governed reader sees (`Visible`) is defined by
a choice among journals; that only the operation whose lock it is can hide files
(`HiddenIsLocked`) makes the choice unique (`Seen`). `DInv` says, for every place of
the process at work, how far its targets are: as captured (`AsCaptured`), written up
to its position (`Forward`), or put back down to it (`Backward`), and whether its journal
already hides them (`Recorded`). Replacing, restoring and recovering files is then
invisible (`FileHides`), because each target holds one of its two contents (`Tidy`);
only the owner can spoil that, while nobody works (`Spoilt`), and then recovery
refuses. An operation takes effect in one step (`TakesEffect`), a workspace one with
its journal in `Commit`, one of the second protocol when it removes its lock. There
its inputs must still be what it was planned against, which `RestAsPlanned` carries
from the comparison under the lock.

One step resisted, and shows what the code relies on. The journal is read before the
lock is taken, not again under it. So a process may find no journal, wait for the
lock while another carries the same operation through, and then get it. What stops it
from doing the operation a second time is the comparison of the inputs, and that
suffices only if what the operation was planned against has not come back
meanwhile. The model used to rely on this silently; it is now `NoReturnAssumption`,
and weaker than what used to be said: only plans matter (the owner edits nothing while
a process works), and only that some target differs. `NeverBack` is what the
invariant makes of it: while a process is between its check and its capture and its
operation has taken effect, every target shows what the operation left or what was
planned after it.

**Long workspace** (`WorkspaceProofs`). `NeverLocked` speaks of the bindings that a layout
checks. `WorkspaceInv` adds that what every write leaves is `Valid` (so that an open
phase means an active one, and the kind of the recovery source follows from the
topology), that the controls agree with the registry (`Agree`, unless a transition
overwrote another command's write, which `NeverLocked` excepts), and that what work on
the queues cannot make stale stays fresh in every layout (`Soft`), because a legacy
workspace may be reorganized into the CURRENT layout after its queues were worked on.
`ReviewedIsCarried` needs that a plan whose source is unchanged still speaks of the queue
as it is (`PlanCovers`), so that what a transition reads is covered by the plan it read
with it, and stays so whatever happens before it writes; that it writes back no
supersession the registry does not know; and that, while it is alone, what it read is
what the controls say, so that its write agrees with them (`ApplyingInv`). All other
commands supersede nobody and only end that it is alone (`BesideKeeps`).

**Coordination** (`CoordinationProofs`; any number of admissions, clients, commands and
phases, and no bound but the epochs' own). What is committed was computed from an
older state, so an invariant of the present state is not enough: `IInv` also says of
every plan that is still fresh that it leads to a state in order (`StateOK`), that
this state follows on the one there is (`Follows`: no epoch falls, and who does not
keep its tokens is behind in all of them), and that the reasons it was planned for
hold (`Reasons`). Each call establishes the three where it reads; the hash comparison
carries them to the commit, because everything that changes what they speak of makes
the plan stale (`StaleKeeps`). The clock and edits by hand change neither. Two facts
about conflicts do the rest: they are symmetric, and what is neither refused nor made
to wait conflicts with no holder and no quarantine (`AdmittedIsCompatible`). That two
holders never share a domain is not assumed: the planned state is checked for stale
tokens (`_validate_state`), which refuses a grant that would raise a holder's domain.

**Result contracts** (`EvidenceProofs`). `LineageInv` is the shape of the projection with
`DoneIsEarned` and `QuarantineIsFlagged`. They are inductive with it, over every event
kind: a contract stays of its kind (`ContractStays`), DONE is left by no transition and
entered under a CURRENT contract only when the lineage is complete, an attempt starts
only in EXECUTING, and every event that touches a flag looks at the quarantines in the
same event. `HardBoundHolds` needs
more. `BudgetInv` adds that what was sent and what reserved intents may still send are
within the budget together, as long as no provider exceeds its own limit, and that
requests beyond the budget have stopped execution (`Bounded`). A reservation is checked
against the whole sum, an observation moves its requests from the second part of the sum
to the first. The laws of such sums (`SumStep`, `SumMoves`, `SumIsNatural`) cannot come
from the library's induction theorems, which take an operator as a parameter; they are
proved from the order on the parts of a finite set, in which every family has a least
member (`LeastSet`): the sets for which a law fails would have one, and it is not empty.

**Artifact registries** (`EvidenceProofs`; any number of phases, sessions, rows, entries
and edits). A command is planned from what it read and written later, when the hashes of
its inputs still hold and the audit of the result finds nothing. `ArtifactInv` has three
parts.
* `PlanHolds`: what a command was planned on still holds until it is written. Either
  nothing else changes it, or what would change it is among the inputs, so that the
  change refuses the plan. For a close these are the owner's rows, for a supersession
  the active documents that name the old entry (`ClosedIsResolved`, `ReferencesFollow`).
* `IndexInOrder`: identifiers are unique, a scope has one entry in force, and the
  successors of an entry are in the index and of its scope. That a chain of successors
  ends in force cannot be said by its length, so it is said by sets (`HeirsAreIn`):
  whatever set contains an entry and the successors of its members contains an entry in
  force. `Reach` is the least such set. A new entry is related to none that is there,
  because the audit wants relations reciprocal and without circles (`NewIsUnrelated`); a
  supersession keeps the sets by way of the entry it puts in force.
* `RowsPointBack`: a row that a shared entry replaces exists and names the entry.

`SharedSourcesAreIntact` follows from the audit of the step itself. The proof corrected the
model twice. Entries were registered without the relations the caller gives; with them
TLC reaches an entry registered as superseded by a row of an owner, so the property speaks
of successors in the index. And the third part of `SuccessionEndsAtCurrent` only asked that
the entry named by a row exists, where the claim is that the row an entry replaces
leads to it.

**Installation** (`InstallationProofs`; any number of generations, operations,
retirements, tools, mishaps and edits). The three properties say what is installed
when nothing is going on; `InstInv` says it of every moment in between.
* While no operation has begun to change anything, what is installed is whole or gone
  (`Base`), up to a generation that a retirement has under way.
* At most one operation has a snapshot, since who has one owns the lock (`OnlyHolder`),
  and what it saved was whole or gone (`Sound`).
* From then on two things are kept apart. The journal's state says what is done for good
  (`HolderFacts`: from ACTIVATE on the target's image is there, the registry marks it
  and the pointer names it; from POSTVALIDATE on the projections hold too; at COMMIT the
  registry is cleaned; a rollback that was completed left everything as saved, but for
  images somebody damaged). The place of the process says what is done since the last
  state was written (`PlaceOK`), and a process that is killed leaves only the first.
* The directory of a transaction goes in two cases: COMMIT, when what is installed is what
  was planned (`CommittedIsSound`), and a FAILED operation that restored what it had
  saved (`RestoredIsSound`).
* A retirement works only while no transaction is open, and then the registry is the one
  it recorded (`RecyclingOK`), so that a repetition finds what the first attempt left.

While it was prepared, this proof found an error of the model: four of its CASE
expressions had guards that overlap, for which TLA+ leaves the choice open and TLC takes
the first. They are disjoint now (`Undo`, `ResumeTarget`, `ResumeForward`, `ResumeBack`).

Assumptions used: the constants are functions between the identifier sets
(`ConstantsAssumption`, `CallsAssumption`, `LimitAssumption`, `BudgetAssumption`,
`BudgetsAssumption`, `FaultsAssumption`: bounds are numbers), the intents of a contract
are finitely many (`IntentsAssumption`), conflicts are symmetric
(`ConflictsAssumption`), an operation is a read, a create or an update
(`KindAssumption`), a plan names each target once and expects something of it
(`PlanAssumption`), a request names places (`RequestAssumption`), overlap of places is
symmetric (`OverlapAssumption`), the first phase is a phase and `None` is none
(`FirstAssumption`), a relation of form "shared" names a shared binding and any other an
artifact (`ConstantsAssumption` of `Governance`), an identifier of a database is not
one of a switch, and neither is `None`, nor is `None` a row (`NoneAssumption`,
`IdentitiesAssumption` of `StateAuthority`; the code's identities are UUIDs of
separate kinds), the generations of version 2 are generations
(`SecondAssumption`), and of an installation likewise: the identifier of an operation is
neither one of a retirement nor a state of an image, and `None` is no generation and no
row (`IdentitiesAssumption` and `NoneAssumption` of `Installation`; operations and
retirements are recorded under identifiers of their own in different files), and of
workspace transactions: neither an operation nor those planned after it bring back
all it was planned against (`NoReturnAssumption`; a call with no changes returns before
any of this, and control files carry revisions and times), and what a plan writes or
was made against are contents of distinct files (`PlanAssumption`), and of
artifacts: no phase or session is called project, shared, archive or external
(`NamesAssumption`; the code writes owners as `phase:...` and `session:...`), what is
offered has a place (`PlacesAssumption`), and the bound of edits is a number
(`EditsAssumption`).

Only model-checked:
* all liveness (`AnswerSettles`, `DomainLocksAreReleased`, `SwitchCompletes`,
  `LocksAreOpened`, `InterruptionsSettle`), which is outside the prover's reach.

## 5. Assumptions of the model

* SQLite gives serial transactions; a crash rolls back the one in progress.
* `Attest` (an observation reported by whoever holds the actor's name after the
  worker is gone) is truthful. The code cannot check it and says so.
* The mediated file calls of a Host run inside its Job.
* The Job kills its processes when the last handle to it closes
  (`KILL_ON_JOB_CLOSE`, no breakaway), which is what `WindowsJob.launch` asks for.
* Backend keys are never reused and only the controller calls the process host.
* Exclusive creation, replacement and removal of a file are atomic and durable
  (`O_EXCL`, `os.replace` and `unlink`, with `fsync`).
* An admission id has one request (the code refuses another while it is on file), and
  a workspace transaction of coordination is one step, as `AtomicFiles` describes it.
* An operation id has one plan (the code refuses another under the same id), and
  neither it nor operations planned on what it left bring back all it was planned
  against (`NoReturnAssumption`, see section 4).
* Whoever recovers an operation has made sure that its process and any other recovery
  of it have ended (`Interrupted`). The lock does not name a process, so the code
  cannot check it; without this assumption two recoveries started from one review
  pass the same comparison and restore side by side.
* The owner edits files by hand only while no transaction process runs.
* In `Execution` no backup is restored (`require_execution_ready` holds throughout);
  `StateAuthority` has restores, and reduces the work to grants, operations and workers.
* The reviewers of a recovery and the operators of a disaster's gap review tell the
  truth about which workers have ended.

## 6. What is abstracted, and what is not modelled

Contents, hashes, paths and texts are identifiers or nothing. `OpConflicts` is given
by a constant instead of being computed from locators. Evidence is the latest item of
a task revision and whether it stands. Audit rows are kept only where code reads them
back (intents, requested pauses, the resume status of a Run). Read-only projections are
left out. Per module, besides:

* `Governance`: a task is what governance reads of it; acceptance criteria are whether
  there is a hard one; archives registered with proof, evidence roles, the scope check
  of a binding and replays of requests.
* `StateAuthority`: what is copied and what reports say. A database is its recovery row,
  its adoption rows and native facts, and its work. A restored copy of a native
  database that no pointer selects (`Plain`) may be opened explicitly, as the code
  permits; the properties except it. Databases are locked where the production hosts
  lock them: throughout forward and relocation switches, in the last transaction of an
  adoption, never in a disaster.
* `Workspace`: text of queues and plans, status lines edited by the owner, lists of a
  lease's scope, boundary-revision files, schema 1 and 2 layouts, maintenance views.
* `WorkspaceArtifacts`: candidate roots, runtime snapshots, texts of verification and
  retention, index files prepared by the owner.
* `ResultLineage`: budgets other than rounds and requests, usage of tokens and cost,
  scope and risk checks of an envelope, revisions of a contract, version 1 contracts
  (legacy contracts of versions 2 and 3 are modelled: they record the same events).
* `Installation`: legacy roots and residue, preview surfaces, retention of audit
  records, the virtual environment of the MCP runtime; a binding receipt is its
  generation and operation. `lifecycle_consolidation.py` is not modelled.
* `DomainTransaction`: an Artifact transaction is the case that all operations are of
  the second protocol, since its lock is its own; beside a workspace transaction it is
  not modelled.

Not modelled: the native agent host relay, handoff and sessions of the store, agent
routing (pure planning), the MCP and command-line surface (argument checks), legacy
readers (read-only).

## 7. Plan

Every invariant and every action property the runs check has its theorem; liveness
stays with the runs. What is left to model is the native agent host: its outbox,
receipts and reserved calls.
