------------------------------ MODULE Workspace ------------------------------
(* A long workspace (tools/long_workspace.py): the phases and sessions that     *)
(* workspace_control.json registers, the Markdown controls that own their facts, *)
(* and the bindings by which the one is held to the other.  A command writes all *)
(* its files in one workspace transaction (DomainTransaction:                    *)
(* DomainsImplementAtomic), but reads them before: _transaction_write hashes     *)
(* what it is about to replace only then, so that nothing of what the command    *)
(* read, compared and computed from need still be so.  apply-phase-transition    *)
(* is therefore two steps here, with anything in between; the other commands,    *)
(* of which it only takes the latest bytes, are one.  A hash in a binding is     *)
(* either fresh or stale: writing a file makes stale every binding to it that    *)
(* the same command does not renew, and stale stays stale.                       *)
EXTENDS Naturals, FiniteSets

CONSTANTS Phases,     \* phase ids, each registered at most once
          Sessions,   \* session ids, likewise
          Tasks,      \* tasks, as queue rows and as Result lineages
          Actors,     \* owners of a session lease
          First,      \* the phase that init registers
          None,
          MaxEdits    \* bound on the owner's edits of Markdown

ASSUME FirstAssumption == First \in Phases /\ None \notin Phases \cup Sessions \cup Actors

VARIABLES state,      \* workspace_control.json
          docs,       \* PROJECT_CONTROL, PHASE_CONTROLs, SESSION_CONTROLs, the report
          admitted,   \* by phase: an Admission, bound to the bytes of its control
          plan,       \* the persisted transition plan
          applying,   \* what apply-phase-transition read, until it has written
          overwrote,  \* a transition wrote over what another command had written
          edits,      \* edits of records the bindings cover
          work        \* edits of phase queues

vars == <<state, docs, admitted, plan, applying, overwrote, edits, work>>

Terminal == {"DONE", "FAILED", "SUPERSEDED"}
PhaseStatus == {"absent", "ACTIVE", "OPEN", "PAUSED"} \cup Terminal
Schemas == {3, 4, 5}                     \* two legacy layouts and the CURRENT one
Bound == {4, 5}                          \* CURRENT_BOUND_WORKSPACE_SCHEMAS
Profiles == {"single_phase", "resource_admission"}

\* What current_phase_binding and recovery_binding hash.
PhaseHashes == {"control", "boundary", "review", "record", "tasks"}
SourceHashes == {"control", "record"}

NoBinding == [phase |-> None, fresh |-> {}]
NoPlan == [source |-> None, target |-> None, was |-> "absent",
           carry |-> {}, disposed |-> {}, fresh |-> {}]
PlanHashes == {"project", "source"}
NoSession == [status |-> "absent", owner |-> None, lapsed |-> FALSE]

-----------------------------------------------------------------------------
(* What a write may leave: the semantic check of the state, and the source of   *)
(* recovery that follows from the topology.                                     *)

Registered(w) == {p \in Phases : w.status[p] # "absent"}
OpenPhases(w) == {p \in Phases : w.status[p] = "OPEN"}

\* The kinds of recovery that a topology admits, and the phase they name.
RecoveryFits(w) ==
  LET r == w.recovery IN
  CASE w.session # None -> /\ r.kind = "ACTIVE_SESSION_CHECKPOINT"
                           /\ r.session = w.session /\ r.phase = w.active
    [] w.session = None /\ w.active # None ->
                           /\ r.kind = "ACTIVE_PHASE_RECOVERY"
                           /\ r.session = None /\ r.phase = w.active
    [] OTHER ->
         /\ r.session = None
         /\ \/ r.kind = "PROJECT_RECOVERY" /\ r.phase = None
            \/ /\ r.kind = "PAUSED_PHASE_RECOVERY" /\ w.schema \in Bound
               /\ w.status[r.phase] = "PAUSED"
            \/ /\ r.kind = "TERMINAL_PHASE_RECOVERY" /\ r.phase # None
               /\ IF w.schema \in Bound THEN w.status[r.phase] \in Terminal
                                        ELSE w.status[r.phase] # "ACTIVE"

Valid(w) ==
  /\ \A p \in Phases : w.status[p] = "ACTIVE" <=> p = w.active
  /\ w.session # None => w.active # None /\ w.sessions[w.session].status = "ACTIVE"
  /\ \A s \in Sessions : w.sessions[s].status = "ACTIVE" => s = w.session
  /\ w.profile = "resource_admission" => w.schema = 5
  /\ OpenPhases(w) # {} => w.profile = "resource_admission" /\ w.active # None
  /\ w.binding.phase = w.active
  /\ w.schema \in Bound => \A t \in Tasks : w.tasks[t] \in {None, w.active}
  /\ RecoveryFits(w)

Source(w, terminal) ==
  LET At(kind, p, s) == [kind |-> kind, phase |-> p, session |-> s,
                         fresh |-> SourceHashes]
      Paused(p) == w.schema \in Bound /\ w.status[p] = "PAUSED"
      prior == w.recovery
  IN CASE w.session # None -> At("ACTIVE_SESSION_CHECKPOINT", w.active, w.session)
       [] w.session = None /\ w.active # None -> At("ACTIVE_PHASE_RECOVERY", w.active, None)
       [] w.session = None /\ w.active = None /\ terminal # None ->
            At(IF Paused(terminal) THEN "PAUSED_PHASE_RECOVERY"
                                   ELSE "TERMINAL_PHASE_RECOVERY", terminal, None)
       [] OTHER ->
            IF prior.kind \in {"PAUSED_PHASE_RECOVERY", "TERMINAL_PHASE_RECOVERY"}
            THEN At(prior.kind, prior.phase, None)
            ELSE At("PROJECT_RECOVERY", None, None)

\* The document whose recovery record a source is: a session's checkpoint, a
\* phase's recovery, or (None) the recovery notes of PROJECT_CONTROL.
Record(r) == IF r.session # None THEN r.session ELSE r.phase

-----------------------------------------------------------------------------
(* Consistency: what _require_consistent_mutation looks for before a command.   *)

\* The hashes whose drift blocks, by schema.
CheckedWithControl(w) ==   \* mutant: the queue of an open phase is bound too
  IF w.schema = 3 THEN PhaseHashes \ {"tasks"} ELSE {"control", "boundary", "record"}
CheckedOfPhase(w) == CASE w.schema = 3 -> {"control", "boundary", "review", "record"}
                       [] w.schema = 4 -> {"control", "boundary", "record", "tasks"}
                       [] w.schema = 5 -> {"boundary", "review", "record"}
CheckedOfSource(w) ==
  CASE w.schema = 3 -> SourceHashes
    [] w.schema = 4 -> {"control"}
    [] w.schema = 5 ->
         IF w.recovery.kind \in {"ACTIVE_PHASE_RECOVERY", "TERMINAL_PHASE_RECOVERY"}
         THEN {} ELSE {"control"}

Structural == /\ docs.status = state.status
              /\ docs.index = state.active
PhaseHolds == state.active = None \/ CheckedOfPhase(state) \subseteq state.binding.fresh
SourceHolds == CheckedOfSource(state) \subseteq state.recovery.fresh
Resolved == state.schema # 3 \/ state.active \notin docs.unresolved
LineagesHold(allowed) == state.schema = 3 \/ docs.damaged \subseteq allowed

Undrifted == Structural /\ PhaseHolds /\ SourceHolds
Consistent == Undrifted /\ Resolved /\ LineagesHold({})

-----------------------------------------------------------------------------
(* Writing: the workspace document, the controls the command changes, the       *)
(* hashes it renews, and what becomes stale elsewhere.                           *)

\* After the state and the controls of the phases in written have changed: a
\* plan made for the earlier state can never be applied and is as good as none.
Overtaken(written) ==
  /\ admitted' = [p \in Phases |-> IF p \in written /\ admitted[p] = "bound"
                                   THEN "stale" ELSE admitted[p]]
  /\ plan' = NoPlan

\* _finalize_v3_consistency and _finalize_v4_consistency: the recovery record of
\* the source is written from recovery_point, both bindings are taken from the
\* final bytes, and the legacy layouts refresh the report.
Finalize(w, d, written, terminal) ==
  LET source == Source(w, terminal)
      f == [w EXCEPT !.recovery = source,
                     !.binding = IF w.active = None THEN NoBinding
                                 ELSE [phase |-> w.active, fresh |-> PhaseHashes]]
      record == Record(source)
  IN /\ w.schema \in Bound => {source.phase, w.active} \ {None} \subseteq d.indexed
     /\ Valid(f)
     /\ state' = f
     /\ docs' = d
     /\ Overtaken(written \cup ({record} \cap Phases))

\* A command for a phase beside the primary one writes the state and that phase's
\* control, and renews no binding.
WritePlain(w, d, written) ==
  LET Keep(fresh, bound) == IF bound \in written THEN fresh \ {"control"} ELSE fresh
      f == [w EXCEPT !.binding.fresh = Keep(@, w.binding.phase),
                     !.recovery.fresh = IF w.recovery.session = None
                                        THEN Keep(@, w.recovery.phase) ELSE @]
  IN Valid(f) /\ state' = f /\ docs' = d /\ Overtaken(written)

\* Of a command other than apply-phase-transition: one that has read the workspace
\* is no longer alone with it.
Beside ==
  /\ applying' = IF applying = None THEN None ELSE [applying EXCEPT !.alone = FALSE]
  /\ UNCHANGED <<overwrote, edits, work>>

\* A phase takes a status in the registry and in its control alike.
StatusSet(w, p, st) == [w EXCEPT !.status[p] = st]
Primary(p) == p = state.active

\* The lease gate for a command on the primary phase.
LeaseHeldBy(a) ==
  state.session # None =>
    /\ state.sessions[state.session].owner = a
    /\ ~state.sessions[state.session].lapsed

-----------------------------------------------------------------------------
(* Phases. *)

\* init registers the first phase; a legacy workspace was begun likewise.
Init ==
  \E schema \in Schemas, profile \in Profiles :
    /\ profile = "resource_admission" => schema = 5
    /\ LET status == [p \in Phases |-> IF p = First THEN "ACTIVE" ELSE "absent"] IN
       /\ state = [schema |-> schema, profile |-> profile, status |-> status,
                   active |-> First, session |-> None,
                   sessions |-> [s \in Sessions |-> NoSession],
                   tasks |-> [t \in Tasks |-> None],
                   binding |-> [phase |-> First, fresh |-> PhaseHashes],
                   recovery |-> [kind |-> "ACTIVE_PHASE_RECOVERY", phase |-> First,
                                 session |-> None, fresh |-> SourceHashes]]
       /\ docs = [status |-> status, index |-> First, rows |-> [p \in Phases |-> {}],
                  indexed |-> IF schema \in Bound THEN {First} ELSE {},
                  unresolved |-> {}, damaged |-> {}]
    /\ admitted = [p \in Phases |-> "none"]
    /\ plan = NoPlan
    /\ applying = None /\ overwrote = FALSE
    /\ edits = 0 /\ work = 0

OpenPhase(p) ==
  LET st == IF state.active = None THEN "ACTIVE" ELSE "OPEN"
      w == StatusSet(state, p, st)
      d == [docs EXCEPT !.status[p] = st,
                        !.indexed = IF state.schema \in Bound THEN @ \cup {p} ELSE @]
  IN /\ Consistent
     /\ state.active # None => state.profile = "resource_admission"
     /\ state.status[p] = "absent"
     /\ IF st = "OPEN" THEN WritePlain(w, d, {})
        ELSE Finalize([w EXCEPT !.active = p], [d EXCEPT !.index = p], {}, None)
     /\ Beside

\* close-phase and pause-phase: the gates they share.
MayLeave(p) ==
  /\ Consistent
  /\ state.status[p] \in {"ACTIVE", "OPEN"}
  /\ Primary(p) => state.session = None
  /\ state.profile = "resource_admission" => admitted[p] = "none"

Leave(p, st, d) ==
  LET w == StatusSet(state, p, st)
      left == [d EXCEPT !.status[p] = st] IN
  /\ IF Primary(p)
     THEN Finalize([w EXCEPT !.active = None], [left EXCEPT !.index = None], {p}, p)
     ELSE WritePlain(w, left, {p})
  /\ Beside

ClosePhase(p, st) ==
  /\ MayLeave(p)
  /\ st = "DONE" => docs.rows[p] = {}
  /\ Leave(p, st, docs)

PausePhase(p) ==
  /\ MayLeave(p)
  /\ Leave(p, "PAUSED", [docs EXCEPT !.unresolved = @ \ {p}])

ResumePhase(p) ==
  LET st == IF state.active = None THEN "ACTIVE" ELSE "OPEN"
      w == StatusSet(state, p, st)
      d == [docs EXCEPT !.status[p] = st] IN
  /\ Consistent
  /\ state.active # None => state.profile = "resource_admission"
  /\ state.status[p] = "PAUSED"
  /\ IF st = "OPEN" THEN WritePlain(w, d, {p})
     ELSE /\ state.session = None
          /\ Finalize([w EXCEPT !.active = p], [d EXCEPT !.index = p], {p}, None)
  /\ Beside

\* record-phase-boundary-review, which an unresolved review does not block.
RecordReview(p, unclear) ==
  LET d == [docs EXCEPT !.unresolved = IF unclear THEN @ \cup {p} ELSE @ \ {p}]
      aside == state.schema = 5 /\ state.active \notin {None, p}
  IN /\ Undrifted /\ LineagesHold({})
     /\ state.status[p] # "absent"
     /\ IF aside THEN WritePlain(state, d, {p})
        ELSE Finalize(state, d, {p}, IF state.active = None THEN p ELSE None)
     /\ Beside

\* migrate-phase-control, repairing the recorded plan trigger of a phase: it looks
\* at no binding, and takes its own words as the recovery point.
MigrateControl(p) ==
  /\ state.status[p] # "absent"
  /\ Finalize(state, [docs EXCEPT !.index = state.active], {p},
              IF state.active = None THEN p ELSE None)
  /\ Beside

\* apply-phase-boundary-amendment, of the active phase.
AmendBoundary(a) ==
  /\ state.schema \in Bound /\ Consistent
  /\ state.active # None /\ LeaseHeldBy(a)
  /\ Finalize(state, docs, {state.active}, None)
  /\ Beside

-----------------------------------------------------------------------------
(* A phase is superseded by a plan, persisted by one command and applied, under *)
(* the hashes it records, by another.                                           *)

MaySupersede(p) ==
  /\ state.session = None
  /\ state.status[p] \in {"ACTIVE", "PAUSED"}
  /\ state.active \in {None, p}

PlanTransition(p, q, carry) ==
  /\ Consistent /\ MaySupersede(p)
  /\ state.status[q] = "absent"
  /\ carry \subseteq docs.rows[p]
  /\ plan' = [source |-> p, target |-> q, was |-> state.status[p], carry |-> carry,
              disposed |-> docs.rows[p] \ carry, fresh |-> PlanHashes]
  /\ UNCHANGED <<state, docs, admitted, applying, overwrote, edits, work>>

PlanHoldsForProject == "project" \in plan.fresh   \* mutant: the source is not looked at
PlanHolds == plan.fresh = PlanHashes

\* The control of p, as far as a transition writes back what it read of it.
Control(p) == [rows |-> docs.rows[p], indexed |-> p \in docs.indexed,
               unclear |-> p \in docs.unresolved]

\* command_apply_phase_transition up to its last comparison.
ReadTransition ==
  LET p == plan.source IN
  /\ applying = None              \* bound: one at a time
  /\ plan # NoPlan
  /\ Consistent /\ PlanHolds
  /\ state.status[p] = plan.was
  /\ state.status[plan.target] = "absent"
  /\ state.session = None /\ state.active \in {None, p}
  /\ applying' = [plan |-> plan, state |-> state, control |-> Control(p), alone |-> TRUE]
  /\ UNCHANGED <<state, docs, admitted, plan, overwrote, edits, work>>

\* What it computed from that replaces whatever the files hold by now; only the
\* control of the target must not have come into being.
With(set, p, in) == IF in THEN set \cup {p} ELSE set \ {p}
WriteTransition ==
  LET p == applying.plan.source  q == applying.plan.target  c == applying.control
      w == [applying.state EXCEPT !.status[p] = "SUPERSEDED", !.status[q] = "ACTIVE",
                                  !.active = q]
      d == [docs EXCEPT !.status[p] = "SUPERSEDED", !.status[q] = "ACTIVE", !.index = q,
                        !.rows[p] = c.rows, !.rows[q] = applying.plan.carry,
                        !.unresolved = With(@, p, c.unclear),
                        !.indexed = With(@, p, c.indexed)
                                    \cup (IF w.schema \in Bound THEN {q} ELSE {})]
  IN /\ applying # None
     /\ docs.status[q] = "absent"
     /\ Finalize(w, d, {p}, None)
     /\ applying' = None
     /\ overwrote' = (overwrote \/ ~applying.alone)
     /\ UNCHANGED <<edits, work>>

\* It is refused, or killed, before it writes.
QuitTransition ==
  /\ applying # None /\ applying' = None
  /\ UNCHANGED <<state, docs, admitted, plan, overwrote, edits, work>>

-----------------------------------------------------------------------------
(* Sessions and their leases. *)

OpenSession(s, a) ==
  /\ Consistent
  /\ state.active # None /\ state.session = None
  /\ state.sessions[s].status = "absent"
  /\ Finalize([state EXCEPT !.session = s,
                 !.sessions[s] = [status |-> "ACTIVE", owner |-> a, lapsed |-> FALSE]],
              docs, {}, None)
  /\ Beside

\* The session keeps its last checkpoint; recovery returns to the phase.
CloseSession ==
  LET s == state.session IN
  /\ Consistent
  /\ s # None
  /\ Finalize([state EXCEPT !.session = None,
                 !.sessions[s] = [NoSession EXCEPT !.status = "CLOSED"]], docs, {}, None)
  /\ Beside

\* transfer-session-lease asks for the owner, not for a lease that still runs.
TransferLease(a, b) ==
  LET s == state.session IN
  /\ state.schema \in Bound /\ Consistent
  /\ s # None
  /\ state.sessions[s].owner = a
  /\ Finalize([state EXCEPT !.sessions[s] = [@ EXCEPT !.owner = b, !.lapsed = FALSE]],
              docs, {}, None)
  /\ Beside

LeaseLapses ==
  /\ state.session # None /\ ~state.sessions[state.session].lapsed
  /\ state' = [state EXCEPT !.sessions[state.session].lapsed = TRUE]
  /\ UNCHANGED <<docs, admitted, plan, applying, overwrote, edits, work>>

-----------------------------------------------------------------------------
(* Results: record-result-events and rebuild-result-lineage. *)

\* The contract's phase may be worked on; in a workspace with Admissions the
\* result's actor holds one, bound to the phase control as it is.
ResultAuthority(p) ==
  /\ state.status[p] \in {"ACTIVE", "OPEN"}
  /\ state.profile = "resource_admission" => admitted[p] = "bound"

\* CURRENT leaves the phase control as it is, so that Admissions stay bound.
WriteResult(t, p, a) ==
  LET w == [state EXCEPT !.tasks[t] = p]
      d == [docs EXCEPT !.damaged = @ \ {t}] IN
  /\ state.schema \in Bound
  /\ ResultAuthority(p)
  /\ state.tasks[t] \in {None, p}
  /\ Primary(p) => LeaseHeldBy(a)
  /\ IF state.schema = 5
     THEN WritePlain([w EXCEPT !.binding.fresh = @ \ {"tasks"}], d, {})
     ELSE Primary(p) /\ Finalize(w, d, {p}, None)
  /\ Beside

RecordResult(t, p, a) == Consistent /\ WriteResult(t, p, a)

RebuildLineage(t, p, a) ==
  /\ state.tasks[t] = p /\ p # None
  /\ Undrifted /\ Resolved /\ LineagesHold({t})
  /\ WriteResult(t, p, a)

-----------------------------------------------------------------------------
(* Reorganization into the CURRENT layout, and reconciliation. *)

Paused == {p \in Phases : state.status[p] = "PAUSED"}

\* reorganize-workspace.  A legacy layout gives up its sessions and keeps at most
\* one paused phase, which gets its boundary revision; a CURRENT one changes its
\* profile.  Admissions have been drained.
Reorganize(profile) ==
  LET w == [state EXCEPT !.schema = 5, !.profile = profile]
      legacy == state.schema = 3
      kept == IF Paused = {} THEN None ELSE CHOOSE p \in Paused : TRUE
  IN /\ state.session = None
     /\ w # state
     /\ \A p \in Phases : admitted[p] = "none"
     /\ IF legacy
        THEN /\ state.active = None /\ Cardinality(Paused) <= 1
             /\ Finalize([w EXCEPT !.sessions = [s \in Sessions |-> NoSession],
                                   !.tasks = [t \in Tasks |-> None],
                                   !.recovery.kind = "PROJECT_RECOVERY"],
                         [docs EXCEPT !.indexed = @ \cup Paused], Paused, kept)
        ELSE WritePlain(w, docs, {})
     /\ Beside

ReconcileGated ==   \* mutant: behind the gate that it is to lift
  LET r == state.recovery IN
  /\ Consistent
  /\ Finalize(state, docs, {},
              IF r.kind \in {"PAUSED_PHASE_RECOVERY", "TERMINAL_PHASE_RECOVERY"}
              THEN r.phase ELSE None)
  /\ Beside
\* reconcile-consistency-records: the record of the bound source is read, becomes
\* the recovery point, and is bound anew.
Reconcile ==
  LET r == state.recovery IN
  /\ Finalize(state, docs, {},
              IF r.kind \in {"PAUSED_PHASE_RECOVERY", "TERMINAL_PHASE_RECOVERY"}
              THEN r.phase ELSE None)
  /\ Beside

\* rebind-v4-consistency reads the record of the active phase.
Rebind ==
  /\ state.schema \in Bound /\ state.active # None
  /\ Finalize(state, docs, {}, None)
  /\ Beside

-----------------------------------------------------------------------------
(* The coordination state beside the workspace (WorkspaceCoordination). *)

Admit(p) ==
  /\ state.profile = "resource_admission"
  /\ state.status[p] \in {"ACTIVE", "OPEN"}
  /\ admitted[p] = "none"
  /\ admitted' = [admitted EXCEPT ![p] = "bound"]
  /\ UNCHANGED <<state, docs, plan, applying, overwrote, edits, work>>

Release(p) ==
  /\ admitted[p] # "none"
  /\ admitted' = [admitted EXCEPT ![p] = "none"]
  /\ UNCHANGED <<state, docs, plan, applying, overwrote, edits, work>>

-----------------------------------------------------------------------------
(* The owner, with an editor.  The queue of an open phase is where its work is  *)
(* written down; the sections of the controls are records the bindings cover.   *)

\* The bytes of p's control have changed in one section.
Touched(p, section) ==
  LET lost == {"control", section} IN
  /\ state' = [state EXCEPT
       !.binding.fresh = IF state.binding.phase = p THEN @ \ lost ELSE @,
       !.recovery.fresh = IF state.recovery.session = None /\ state.recovery.phase = p
                          THEN @ \ lost ELSE @]
  /\ admitted' = [admitted EXCEPT ![p] = IF @ = "bound" THEN "stale" ELSE @]
  /\ plan' = [plan EXCEPT !.fresh = IF plan.source = p THEN @ \ {"source"} ELSE @]

WorkOnQueue(p, rows) ==
  /\ work < MaxEdits
  /\ state.status[p] \in {"ACTIVE", "OPEN"}
  /\ rows # docs.rows[p]
  /\ Touched(p, "queue")
  /\ docs' = [docs EXCEPT !.rows[p] = rows]
  /\ work' = work + 1
  /\ UNCHANGED <<applying, overwrote, edits>>

EditPhase(p, section) ==
  /\ edits < MaxEdits
  /\ state.status[p] # "absent"
  /\ Touched(p, section)
  /\ edits' = edits + 1
  /\ UNCHANGED <<docs, applying, overwrote, work>>

\* A checkpoint of the active session, or the recovery notes of PROJECT_CONTROL.
EditRecord(record) ==
  /\ edits < MaxEdits
  /\ state' = [state EXCEPT !.recovery.fresh =
                 IF Record(state.recovery) = record THEN {} ELSE @]
  /\ plan' = [plan EXCEPT !.fresh = IF record = None THEN @ \ {"project"} ELSE @]
  /\ edits' = edits + 1
  /\ UNCHANGED <<docs, admitted, applying, overwrote, work>>

\* A lineage projection is lost or changed.
Damage(t) ==
  /\ edits < MaxEdits
  /\ state.tasks[t] # None /\ t \notin docs.damaged
  /\ docs' = [docs EXCEPT !.damaged = @ \cup {t}]
  /\ edits' = edits + 1
  /\ UNCHANGED <<state, admitted, plan, applying, overwrote, work>>

-----------------------------------------------------------------------------
PhaseStep(p) ==
  \/ OpenPhase(p) \/ PausePhase(p) \/ ResumePhase(p) \/ MigrateControl(p)
  \/ \E st \in {"DONE", "FAILED"} : ClosePhase(p, st)
  \/ \E unclear \in BOOLEAN : RecordReview(p, unclear)
  \/ \E q \in Phases, carry \in SUBSET Tasks : PlanTransition(p, q, carry)
  \/ Admit(p) \/ Release(p)

ActorStep(a) ==
  \/ AmendBoundary(a)
  \/ \E s \in Sessions : OpenSession(s, a)
  \/ \E b \in Actors : TransferLease(a, b)
  \/ \E t \in Tasks, p \in Phases : RecordResult(t, p, a) \/ RebuildLineage(t, p, a)

OwnerStep ==
  \/ \E p \in Phases, rows \in SUBSET Tasks : WorkOnQueue(p, rows)
  \/ \E p \in Phases, section \in {"boundary", "review", "record"} : EditPhase(p, section)
  \/ EditRecord(None)
  \/ state.session # None /\ EditRecord(state.session)
  \/ \E t \in Tasks : Damage(t)

Next ==
  \/ \E p \in Phases : PhaseStep(p)
  \/ \E a \in Actors : ActorStep(a)
  \/ ReadTransition \/ WriteTransition \/ QuitTransition
  \/ CloseSession \/ LeaseLapses
  \/ \E profile \in Profiles : Reorganize(profile)
  \/ Reconcile \/ Rebind
  \/ OwnerStep

Spec == Init /\ [][Next]_vars

\* The owner reconciles what has drifted, and settles a review left unclear.
RepairFairness ==
  /\ WF_vars(~Undrifted /\ Reconcile)
  /\ \A p \in Phases : WF_vars(p = state.active /\ ~Resolved /\ RecordReview(p, FALSE))

FairSpec == Spec /\ RepairFairness

-----------------------------------------------------------------------------
\* The state is always one the schema allows.
TypeOK ==
  /\ state.schema \in Schemas /\ state.profile \in Profiles
  /\ state.status \in [Phases -> PhaseStatus] /\ state.active \in Phases \cup {None}
  /\ state.session \in Sessions \cup {None}
  /\ state.binding.fresh \subseteq PhaseHashes
  /\ state.recovery.fresh \subseteq SourceHashes
  /\ docs.index \in Phases \cup {None} /\ docs.rows \in [Phases -> SUBSET Tasks]
  /\ admitted \in [Phases -> {"none", "bound", "stale"}]
  /\ applying # None => applying.plan.source \in Phases /\ applying.control.rows \subseteq Tasks

\* No sequence of commands locks the workspace out: as long as nobody has edited
\* a record the bindings cover, every command finds it consistent, whatever the
\* commands before it were; and in the CURRENT layout working on the queues of
\* open phases is no such edit (long_workspace.py, _require_consistent_mutation
\* against what every command writes and renews).  The exception is a transition
\* that overwrote what another command wrote while it was being applied.
NeverLocked ==
  ~overwrote /\ edits = 0 /\ (state.schema = 5 \/ work = 0) => Undrifted /\ LineagesHold({})

\* No unfinished task that the command saw is dropped between two phases: what is
\* in the queue when apply-phase-transition compares its hashes is in the queue of
\* the successor once it has written, or was disposed of in the plan that was
\* reviewed, whoever works on the queue after planning and whatever other commands
\* run before it writes.  A row written between the two is lost: nothing compares
\* the queue again (command_apply_phase_transition, _transaction_write).
ReviewedIsCarried ==
  [][ \A p \in Phases :
        state.status[p] # "SUPERSEDED" /\ state'.status[p] = "SUPERSEDED" =>
          applying.control.rows
            \subseteq docs'.rows[applying.plan.target] \cup applying.plan.disposed ]_vars

\* Drift can always be reconciled: whichever of the records the owner edited, the
\* commands that repair it bring the bindings back to the files
\* (command_reconcile_consistency_records needs no consistency to run).  A registry
\* that a transition wrote over another command's cannot be reconciled.
LocksAreOpened == ~(Undrifted /\ Resolved) ~> (Undrifted /\ Resolved) \/ overwrote

=============================================================================
