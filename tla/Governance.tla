----------------------------- MODULE Governance -----------------------------
(***************************************************************************)
(* Projects, Phases and what they deliver (tools/v2_governance.py), with   *)
(* the Artifacts a Phase owns (tools/v2_artifacts.py).  A Phase works      *)
(* under one revision of the Project and a plan file; a Task revision is   *)
(* bound to a Phase revision, and work moves to another Phase only by an   *)
(* explicit carry-over.  Completing a Phase, and then the Project, leaves  *)
(* a receipt.  A receipt is withdrawn when its subject is reopened or      *)
(* redefined or its evidence invalidated; and because files and evidence   *)
(* change without anybody telling the store, a receipt proves something    *)
(* only while verify_phase_completion, verify_project_completion say so.   *)
(*                                                                         *)
(* The life of a Task is reduced to what governance reads of it: whether   *)
(* work has begun, may still be going on, is accepted (TaskLifecycle has   *)
(* the whole of it).                                                       *)
(***************************************************************************)
EXTENDS FiniteSets, Naturals, Sequences

CONSTANTS
  Phases, Tasks, Artifacts,
  SharedNames,     \* names of shared bindings, all for one purpose and scope
  HardPhases,      \* phases with a hard criterion in their acceptance
  HardProject,     \* whether the project has one
  Predecessors,    \* task -> the tasks it depends on
  Owner,           \* artifact -> its phase
  Relations,       \* [from, kind, to, form] the definitions of the artifacts declare
  None

Dispositions == {"UNRESOLVED", "KEEP_OWNED", "PROMOTE_SHARED", "ARCHIVE"}
Acceptances == [task : Tasks, trev : Nat, no : Nat]
SharedBindings == [artifact : Artifacts, state : {"CURRENT", "SUPERSEDED", "RETIRED"},
                   acceptance : Acceptances]

ASSUME ConstantsAssumption ==
  /\ Predecessors \in [Tasks -> SUBSET Tasks] /\ Owner \in [Artifacts -> Phases]
  /\ \A r \in Relations : r.to \in IF r.form = "shared" THEN SharedNames ELSE Artifacts
ASSUME NoneAssumption == None \notin Dispositions \cup Artifacts \cup SharedBindings

VARIABLES
  project,         \* revision of the project's definition
  phase,           \* phase[p]: [rev, of (the project's revision), state]
  planIntact,      \* planIntact[p]: the plan file is the one the definition hashes
  task,            \* task[t]: [rev, status, begun, pending, needs]
  bound,           \* phase_task rows: [task, trev, phase, prev]
  carried,         \* phase_carryover rows: <<source binding, target binding>>
  issued,          \* issued[t]: acceptances given so far
  accepted,        \* the valid ones: [task, trev, no]
  unreadable,      \* acceptances whose evidence may not or cannot be read
  receipts,        \* receipts[p]: phase_completion rows, in order
  projectReceipts, \* project_completion rows, in order
  artifact,        \* artifact[a]: None or its disposition
  shared           \* shared[s]: None or [artifact, state, acceptance]

taskVars == <<task, bound, carried, issued, accepted, unreadable>>
artifactVars == <<artifact, shared>>
vars == <<project, phase, planIntact, taskVars, receipts, projectReceipts, artifactVars>>

PhaseStates == {"ABSENT", "PLANNED", "ACTIVE", "PAUSED", "COMPLETED"}
Defined == {p \in Phases : phase[p].state # "ABSENT"}
Known == {t \in Tasks : task[t].status # "ABSENT"}

(***************************************************************************)
(* Definitions, bindings and lineage                                       *)
(***************************************************************************)
\* checked_phase_plan, of the current revision of p.
PlanHolds(p) == phase[p].of = project /\ planIntact[p]

BindingsOf(t) == {b \in bound : b.task = t}
CurrentBinding(t) == {b \in BindingsOf(t) : b.trev = task[t].rev}
Current(b) == b.prev = phase[b.phase].rev

\* require_carry_lineage: wherever the task changed its phase, it was carried.
Consecutive(b, c) ==
  /\ b.task = c.task /\ b.trev < c.trev
  /\ ~\E d \in bound : d.task = b.task /\ b.trev < d.trev /\ d.trev < c.trev
Lineage(t) ==
  \A b, c \in BindingsOf(t) :
    Consecutive(b, c) /\ b.phase # c.phase => <<b, c>> \in carried

\* require_task_phase
PhaseReady(t) ==
  IF CurrentBinding(t) = {}
  THEN BindingsOf(t) = {}
  ELSE \E b \in CurrentBinding(t) :
         Current(b) /\ phase[b.phase].state = "ACTIVE" /\ Lineage(t) /\ PlanHolds(b.phase)

(***************************************************************************)
(* Proof of a task                                                         *)
(***************************************************************************)
AcceptedAs(t, r) == {a \in accepted : a.task = t /\ a.trev = r}
Accepted(t) == task[t].status = "COMPLETED" /\ AcceptedAs(t, task[t].rev) # {}
Readable(t, r) == AcceptedAs(t, r) \cap unreadable = {}

\* unresolved_dependencies finds nothing: every task revision t rests on,
\* directly or not, is the current one, completed, and its evidence readable.
Behind(t) ==
  LET grow(E) == E \cup UNION {task[e[1]].needs : e \in {x \in E : x[2] = task[x[1]].rev}}
      reach[n \in 0 .. Cardinality(Tasks)] ==
        IF n = 0 THEN task[t].needs ELSE grow(reach[n - 1])
  IN  reach[Cardinality(Tasks)]
DependenciesHold(t) ==
  \A e \in Behind(t) : task[e[1]].rev = e[2] /\ Accepted(e[1]) /\ Readable(e[1], e[2])

\* verify_task_completion
TaskVerifies(t) ==
  /\ Accepted(t) /\ DependenciesHold(t) /\ Readable(t, task[t].rev)
  /\ \A b \in CurrentBinding(t) : Current(b) /\ PlanHolds(b.phase) /\ Lineage(t)

(***************************************************************************)
(* Artifacts                                                               *)
(***************************************************************************)
Registered == {a \in Artifacts : artifact[a] # None}
Owned(p) == {a \in Registered : Owner[a] = p}
Declared == {r \in Relations : r.from \in Registered}

\* What a relation of form "shared" names is the artifact of the binding.
Target(r) == IF r.form # "shared" THEN r.to
             ELSE IF shared[r.to] = None THEN None ELSE shared[r.to].artifact
Resolved(r) == /\ Target(r) \in Registered
               /\ r.form = "archive" => artifact[r.to] = "ARCHIVE"

\* SUPERSEDED_BY is declared by the old node, its edge starts at the target.
Edge(r) == IF r.kind = "SUPERSEDED_BY" THEN <<Target(r), r.from>> ELSE <<r.from, Target(r)>>
\* The least set of artifacts that has the roots and what is near to any of them.
Closure(roots) ==
  LET near(a) == {Target(r) : r \in {x \in Declared : x.from = a}}
                   \cup {r.from : r \in {x \in Declared : x.kind = "SUPERSEDED_BY" /\ Target(x) = a}}
      closed(S) == roots \subseteq S /\ \A a \in S : near(a) \cap Registered \subseteq S
  IN  {a \in Registered : \A S \in SUBSET Registered : closed(S) => a \in S}
Acyclic(E) ==
  LET ahead(x) == LET reach[n \in 0 .. Cardinality(Artifacts)] ==
                        IF n = 0 THEN {e[2] : e \in {f \in E : f[1] = x}}
                        ELSE reach[n - 1] \cup {e[2] : e \in {f \in E : f[1] \in reach[n - 1]}}
                  IN  reach[Cardinality(Artifacts)]
  IN  \A e \in E : e[1] \notin ahead(e[1])

\* audit_relations finds the closure of roots resolved and without a cycle.
ReferencesValid(roots) ==
  LET seen == {r \in Declared : r.from \in Closure(roots)} IN
  /\ \A r \in seen : Resolved(r)
  /\ Acyclic({Edge(r) : r \in seen})
PhaseReferencesValid(p) == ReferencesValid({a \in Owned(p) : artifact[a] # "ARCHIVE"})
Disposed(p) == \A a \in Owned(p) : artifact[a] # "UNRESOLVED"

(***************************************************************************)
(* Receipts                                                                *)
(***************************************************************************)
\* verify_phase_completion of the i-th receipt of p
PhaseVerifies(p, i) ==
  LET r == receipts[p][i] IN
  /\ r.valid /\ r.rev = phase[p].rev /\ phase[p].state = "COMPLETED"
  /\ PhaseReferencesValid(p) /\ Disposed(p) /\ PlanHolds(p)
  /\ \A a \in r.members : TaskVerifies(a.task) /\ a \in AcceptedAs(a.task, task[a.task].rev)

\* verify_project_completion of the i-th receipt of the project
ProjectVerifies(i) ==
  LET r == projectReceipts[i] IN
  /\ r.valid /\ r.rev = project
  /\ \A k \in r.phases : PhaseVerifies(k[1], k[2])
  /\ \A t \in Known : TaskVerifies(t)

Withdrawn(rs, I) == [i \in DOMAIN rs |-> [rs[i] EXCEPT !.valid = @ /\ i \notin I]]
AllWithdrawn(rs) == Withdrawn(rs, DOMAIN rs)

Init ==
  /\ project = 0
  /\ phase = [p \in Phases |-> [rev |-> 0, of |-> 0, state |-> "ABSENT"]]
  /\ planIntact = [p \in Phases |-> TRUE]
  /\ task = [t \in Tasks |-> [rev |-> 0, status |-> "ABSENT", begun |-> FALSE,
                              pending |-> FALSE, needs |-> {}]]
  /\ bound = {} /\ carried = {} /\ accepted = {} /\ unreadable = {}
  /\ issued = [t \in Tasks |-> 0]
  /\ receipts = [p \in Phases |-> <<>>] /\ projectReceipts = <<>>
  /\ artifact = [a \in Artifacts |-> None] /\ shared = [s \in SharedNames |-> None]

(***************************************************************************)
(* Projects and phases                                                     *)
(***************************************************************************)
\* define_project: no phase active.  It asks for managed Hosts to rest but not for
\* effects, and pending may be either.
DefineProject ==
  /\ \A p \in Phases : phase[p].state # "ACTIVE"
  /\ project' = project + 1
  /\ projectReceipts' = AllWithdrawn(projectReceipts)
  /\ UNCHANGED <<phase, planIntact, taskVars, receipts, artifactVars>>

\* define_phase: a paused phase is only redefined when its work has settled.
ReceiptsKept == projectReceipts   \* mutant: the receipts of the project stay
ReceiptsRevised == AllWithdrawn(projectReceipts)
DefinePhase(p) ==
  /\ project > 0
  /\ phase[p].state \in {"ABSENT", "PLANNED", "PAUSED"}
  /\ phase[p].state = "PAUSED" =>
       \A b \in bound : b.phase = p => ~task[b.task].pending
                                       /\ task[b.task].status \notin {"RUNNING", "WAITING"}
  /\ phase' = [phase EXCEPT ![p] =
       [rev |-> @.rev + 1, of |-> project, state |-> IF @.state = "ABSENT" THEN "PLANNED" ELSE @.state]]
  /\ planIntact' = [planIntact EXCEPT ![p] = TRUE]
  /\ projectReceipts' = ReceiptsRevised
  /\ UNCHANGED <<project, taskVars, receipts, artifactVars>>

\* set_phase_active: at most one phase is active, under a plan that holds.
SetPhaseActive(p, active) ==
  /\ phase[p].state \in {"PLANNED", "ACTIVE", "PAUSED"}
  /\ active => /\ PlanHolds(p)
               /\ \A q \in Phases \ {p} : phase[q].state # "ACTIVE"
  /\ phase' = [phase EXCEPT ![p].state = IF active THEN "ACTIVE" ELSE "PAUSED"]
  /\ UNCHANGED <<project, planIntact, taskVars, receipts, projectReceipts, artifactVars>>

ReopenPhase(p) ==
  /\ phase[p].state = "COMPLETED"
  /\ phase' = [phase EXCEPT ![p].state = "PAUSED"]
  /\ receipts' = [receipts EXCEPT ![p] = AllWithdrawn(@)]
  /\ projectReceipts' = AllWithdrawn(projectReceipts)
  /\ UNCHANGED <<project, planIntact, taskVars, artifactVars>>

\* A task that was carried out of this revision of p and is bound elsewhere now.
CarriedOut(t, p) == \E k \in carried : /\ k[1].task = t /\ k[1].phase = p /\ Current(k[1])
                                        /\ task[t].rev >= k[2].trev
LeftOnce(t, p) == CarriedOut(t, p)   \* mutant: whoever was carried out is taken as gone
Left(t, p) == CarriedOut(t, p) /\ \E b \in CurrentBinding(t) : b.phase # p

\* What complete_phase demands of every task that was ever bound to p.
DeliveredBy(t, p) ==
  /\ \E b \in CurrentBinding(t) : b.phase = p /\ Current(b)
  /\ Accepted(t) /\ ~task[t].pending /\ Readable(t, task[t].rev)

CompletePhase(p) ==
  LET tasks == {b.task : b \in {c \in bound : c.phase = p}}
      stayed == {t \in tasks : ~Left(t, p)}
      members == UNION {AcceptedAs(t, task[t].rev) : t \in stayed}
  IN
  /\ phase[p].state = "ACTIVE" /\ PlanHolds(p)
  /\ Disposed(p) /\ PhaseReferencesValid(p)
  /\ tasks # {}
  /\ \A t \in stayed : DeliveredBy(t, p)
  /\ \A t \in tasks : CarriedOut(t, p) => Lineage(t)
  /\ p \in HardPhases => members # {}
  /\ receipts' = [receipts EXCEPT ![p] =
       Append(@, [rev |-> phase[p].rev, members |-> members, valid |-> TRUE])]
  /\ phase' = [phase EXCEPT ![p].state = "COMPLETED"]
  /\ UNCHANGED <<project, planIntact, taskVars, projectReceipts, artifactVars>>

\* complete_project: every phase has a receipt that verifies, every task is
\* accepted; a revision of the project has one valid receipt.  A hard criterion
\* needs some accepted work to support it.
CompleteProject ==
  LET valid(p) == {i \in DOMAIN receipts[p] : receipts[p][i].valid /\ receipts[p][i].rev = phase[p].rev} IN
  /\ Defined # {}
  /\ \A p \in Defined : /\ phase[p].state = "COMPLETED"
                        /\ valid(p) # {} /\ \A i \in valid(p) : PhaseVerifies(p, i)
  /\ \A t \in Known : Accepted(t) /\ DependenciesHold(t) /\ Readable(t, task[t].rev)
  /\ HardProject => \E p \in Defined : \E i \in valid(p) : receipts[p][i].members # {}
  /\ ~\E i \in DOMAIN projectReceipts : projectReceipts[i].valid /\ projectReceipts[i].rev = project
  /\ projectReceipts' = Append(projectReceipts,
       [rev |-> project, phases |-> UNION {{p} \X valid(p) : p \in Defined}, valid |-> TRUE])
  /\ UNCHANGED <<project, phase, planIntact, taskVars, receipts, artifactVars>>

(***************************************************************************)
(* Tasks                                                                   *)
(***************************************************************************)
GovernanceUnchanged == UNCHANGED <<project, phase, planIntact, receipts, artifactVars>>

\* revise_task: creates a task, or starts a new revision of one that rests.
\* Dependencies are carried over, or named anew at their current revisions.
ReviseTask(t, renew) ==
  LET named == {<<u, task[u].rev>> : u \in Predecessors[t]} IN
  /\ task[t].status \in {"ABSENT", "READY", "PAUSED", "COMPLETED"}
  /\ task[t].status = "COMPLETED" => \A b \in CurrentBinding(t) : phase[b.phase].state = "PAUSED"
  /\ task[t].status = "ABSENT" => renew
  /\ renew => Predecessors[t] \subseteq Known
  /\ task' = [task EXCEPT ![t] = [rev |-> @.rev + 1, status |-> "READY", begun |-> FALSE,
                                  pending |-> FALSE, needs |-> IF renew THEN named ELSE @.needs]]
  /\ projectReceipts' = AllWithdrawn(projectReceipts)
  /\ UNCHANGED <<bound, carried, issued, accepted, unreadable>> /\ GovernanceUnchanged

BindTask(t, p) ==
  /\ task[t].status = "READY" /\ ~task[t].begun
  /\ phase[p].state \in {"PLANNED", "ACTIVE", "PAUSED"}
  /\ CurrentBinding(t) = {}
  /\ bound' = bound \cup {[task |-> t, trev |-> task[t].rev, phase |-> p, prev |-> phase[p].rev]}
  /\ UNCHANGED <<task, carried, issued, accepted, unreadable, projectReceipts>> /\ GovernanceUnchanged

\* carry_task joins two consecutive bindings, after the lineage up to the first;
\* from the second on the task has stayed where it was carried.
CarryTask(t, b, c) ==
  /\ {b, c} \subseteq BindingsOf(t) /\ Consecutive(b, c) /\ b.phase # c.phase
  /\ \A x, y \in BindingsOf(t) : /\ Consecutive(x, y) /\ x.phase # y.phase /\ y.trev <= b.trev
                                 => <<x, y>> \in carried
  /\ task[t].status = "READY" /\ CurrentBinding(t) # {}
  /\ \A x \in BindingsOf(t) : x.trev >= c.trev => x.phase = c.phase /\ x.prev = c.prev
  /\ Current(b) /\ phase[b.phase].state = "PAUSED"
  /\ Current(c) /\ phase[c.phase].state \in {"PLANNED", "PAUSED"}
  /\ ~task[t].pending
  /\ ~\E k \in carried : k[1].task = t /\ k[1].phase = b.phase /\ k[1].prev = b.prev
  /\ carried' = carried \cup {<<b, c>>}
  /\ UNCHANGED <<task, bound, issued, accepted, unreadable, projectReceipts>> /\ GovernanceUnchanged

TaskStep == UNCHANGED <<bound, carried, unreadable>> /\ GovernanceUnchanged

\* A Run works on the task: an operation is prepared and an effect or a Host of
\* it may be going on until its fate is observed.
Work(t) ==
  /\ task[t].status \in {"READY", "PAUSED", "RUNNING"} /\ ~task[t].pending
  /\ PhaseReady(t) /\ DependenciesHold(t)
  /\ task' = [task EXCEPT ![t].status = "RUNNING", ![t].begun = TRUE, ![t].pending = TRUE]
  /\ TaskStep /\ UNCHANGED <<issued, accepted, projectReceipts>>
Observe(t) ==
  /\ task[t].pending
  /\ task' = [task EXCEPT ![t].pending = FALSE,
                          ![t].status = IF @ = "WAITING" THEN "PAUSED" ELSE @]
  /\ TaskStep /\ UNCHANGED <<issued, accepted, projectReceipts>>
PauseRun(t) ==
  /\ task[t].status = "RUNNING"
  /\ task' = [task EXCEPT ![t].status = IF task[t].pending THEN "WAITING" ELSE "PAUSED"]
  /\ TaskStep /\ UNCHANGED <<issued, accepted, projectReceipts>>
CancelTask(t) ==
  /\ task[t].status \notin {"ABSENT", "COMPLETED", "CANCELLED"}
  /\ task' = [task EXCEPT ![t].status = "CANCELLED"]
  /\ TaskStep /\ UNCHANGED <<issued, accepted, projectReceipts>>

Accept(t) ==
  /\ task[t].status = "RUNNING" /\ ~task[t].pending
  /\ PhaseReady(t) /\ DependenciesHold(t)
  /\ task' = [task EXCEPT ![t].status = "COMPLETED"]
  /\ issued' = [issued EXCEPT ![t] = @ + 1]
  /\ accepted' = accepted \cup {[task |-> t, trev |-> task[t].rev, no |-> issued[t] + 1]}
  /\ TaskStep /\ UNCHANGED projectReceipts

(***************************************************************************)
(* What is found out later                                                 *)
(***************************************************************************)
\* invalidate: the evidence of an acceptance is withdrawn, and with it every
\* acceptance that rests on it and every receipt that counts one of them.
Dependents(t, r) == {u \in Tasks : <<t, r>> \in Behind(u)}
Counting(p, hit) == {i \in DOMAIN receipts[p] : receipts[p][i].valid
                      /\ \E a \in receipts[p][i].members : <<a.task, a.trev>> \in hit}
Invalidate(a) ==
  LET hit == {<<a.task, a.trev>>} \cup {<<u, task[u].rev>> : u \in Dependents(a.task, a.trev)}
      fallen(u) == <<u, task[u].rev>> \in hit
  IN
  /\ a \in accepted
  /\ accepted' = {x \in accepted : <<x.task, x.trev>> \notin hit}
  /\ task' = [u \in Tasks |-> IF ~fallen(u) THEN task[u] ELSE [task[u] EXCEPT !.status =
       CASE @ = "COMPLETED" -> "READY"
         [] @ = "RUNNING" -> IF task[u].pending THEN "WAITING" ELSE "PAUSED"
         [] OTHER -> @]]
  /\ phase' = [p \in Phases |-> IF Counting(p, hit) # {} /\ phase[p].state = "COMPLETED"
                                THEN [phase[p] EXCEPT !.state = "PAUSED"] ELSE phase[p]]
  /\ receipts' = [p \in Phases |-> Withdrawn(receipts[p], Counting(p, hit))]
  /\ projectReceipts' = AllWithdrawn(projectReceipts)
  /\ UNCHANGED <<project, planIntact, bound, carried, issued, unreadable, artifactVars>>

\* revoke_access, or the loss of the blob or of the file the evidence is about:
\* no record changes.
Lose(a) ==
  /\ a \in accepted \ unreadable
  /\ unreadable' = unreadable \cup {a}
  /\ UNCHANGED <<task, bound, carried, issued, accepted, projectReceipts>> /\ GovernanceUnchanged

\* The plan file is edited by hand, or put back.
EditPlan(p) ==
  /\ p \in Defined
  /\ planIntact' = [planIntact EXCEPT ![p] = ~@]
  /\ UNCHANGED <<project, phase, taskVars, receipts, projectReceipts, artifactVars>>

(***************************************************************************)
(* Artifacts                                                               *)
(***************************************************************************)
ArtifactStep == UNCHANGED <<project, phase, planIntact, taskVars, receipts, projectReceipts>>
OwnerActive(a) == phase[Owner[a]].state = "ACTIVE" /\ PlanHolds(Owner[a])

\* register: a proposal; the references of a definition are not looked at.
Register(a) ==
  /\ artifact[a] = None /\ OwnerActive(a)
  /\ artifact' = [artifact EXCEPT ![a] = "UNRESOLVED"]
  /\ ArtifactStep /\ UNCHANGED shared

CurrentShared(a) == {s \in SharedNames : shared[s] # None /\ shared[s].artifact = a
                                         /\ shared[s].state = "CURRENT"}
\* reconcile: nothing that is shared is archived, nothing comes back from there.
RestoreArchived(a, d) ==   \* mutant: what is archived can be decided anew
  /\ artifact[a] # None /\ OwnerActive(a)
  /\ d = "ARCHIVE" => CurrentShared(a) = {}
  /\ artifact' = [artifact EXCEPT ![a] = d]
  /\ ArtifactStep /\ UNCHANGED shared
Reconcile(a, d) ==
  /\ artifact[a] \notin {None, "ARCHIVE"} /\ OwnerActive(a)
  /\ d = "ARCHIVE" => CurrentShared(a) = {}
  /\ artifact' = [artifact EXCEPT ![a] = d]
  /\ ArtifactStep /\ UNCHANGED shared

\* promote: on the current proof of a task of the owner; replacing names the
\* binding that is current for the purpose, or None.
Promote(a, s, acc, replacing) ==
  /\ artifact[a] \notin {None, "ARCHIVE"} /\ OwnerActive(a)
  /\ acc \in accepted /\ \E b \in BindingsOf(acc.task) : b.trev = acc.trev /\ b.phase = Owner[a]
  /\ ReferencesValid({a})
  /\ TaskVerifies(acc.task) /\ acc \in AcceptedAs(acc.task, task[acc.task].rev)
  /\ shared[s] = None
  /\ {x \in SharedNames : shared[x] # None /\ shared[x].state = "CURRENT"} = replacing
  /\ Cardinality(replacing) <= 1
  /\ shared' = [x \in SharedNames |->
       IF x = s THEN [artifact |-> a, state |-> "CURRENT", acceptance |-> acc]
       ELSE IF x \in replacing THEN [shared[x] EXCEPT !.state = "SUPERSEDED"] ELSE shared[x]]
  /\ artifact' = [artifact EXCEPT ![a] = "PROMOTE_SHARED"]
  /\ ArtifactStep

RetireShared(s) ==
  /\ shared[s] # None
  /\ shared[s].state = "CURRENT"
  /\ shared' = [shared EXCEPT ![s].state = "RETIRED"]
  /\ ArtifactStep /\ UNCHANGED artifact

(***************************************************************************)
(* The specification                                                       *)
(***************************************************************************)
PhaseNext ==
  \/ DefineProject \/ CompleteProject
  \/ \E p \in Phases : \/ DefinePhase(p) \/ ReopenPhase(p) \/ CompletePhase(p) \/ EditPlan(p)
                       \/ \E active \in BOOLEAN : SetPhaseActive(p, active)
TaskNext ==
  \/ \E t \in Tasks :
       \/ \E renew \in BOOLEAN : ReviseTask(t, renew)
       \/ \E p \in Phases : BindTask(t, p)
       \/ \E b, c \in bound : CarryTask(t, b, c)
       \/ Work(t) \/ Observe(t) \/ PauseRun(t) \/ CancelTask(t) \/ Accept(t)
  \/ \E a \in accepted : Invalidate(a) \/ Lose(a)
ArtifactNext ==
  \/ \E a \in Artifacts :
       \/ Register(a)
       \/ \E d \in {"UNRESOLVED", "KEEP_OWNED", "ARCHIVE"} : Reconcile(a, d)
       \/ \E s \in SharedNames, acc \in accepted, replacing \in SUBSET SharedNames :
            Promote(a, s, acc, replacing)
  \/ \E s \in SharedNames : RetireShared(s)
Next == PhaseNext \/ TaskNext \/ ArtifactNext
Spec == Init /\ [][Next]_vars
-----------------------------------------------------------------------------
TypeOK ==
  /\ project \in Nat /\ planIntact \in [Phases -> BOOLEAN]
  /\ phase \in [Phases -> [rev : Nat, of : Nat, state : PhaseStates]]
  /\ \A t \in Tasks : task[t].status \in
       {"ABSENT", "READY", "RUNNING", "WAITING", "PAUSED", "COMPLETED", "CANCELLED"}
  /\ \A b \in bound : b.task \in Tasks /\ b.phase \in Phases
  /\ carried \subseteq bound \X bound
  /\ issued \in [Tasks -> Nat] /\ unreadable \subseteq [task : Tasks, trev : Nat, no : Nat]
  /\ \A a \in accepted : a.task \in Tasks /\ a.no <= issued[a.task]
  /\ \A s \in SharedNames : shared[s] # None => shared[s].artifact \in Registered

\* A receipt of the project that verifies tells the truth about the whole
\* project, also about what was defined after it: every phase there is stands
\* completed with a receipt that verifies, and every task there is accepted on
\* evidence that can be read (verify_project_completion looks at the phases the
\* receipt lists, and relies on every later definition withdrawing it).
VerifiedIsDone ==
  \A i \in DOMAIN projectReceipts : ProjectVerifies(i) =>
    /\ \A p \in Defined : /\ phase[p].state = "COMPLETED" /\ PlanHolds(p)
                          /\ \E k \in DOMAIN receipts[p] : PhaseVerifies(p, k)
    /\ \A t \in Known : Accepted(t) /\ Readable(t, task[t].rev)

\* No work is left behind in a completed phase: every task ever bound to it is
\* accepted there at its current revision, or was carried to another phase
\* along a lineage without gaps (complete_phase, require_carry_lineage, and
\* what revise_task, bind_task and invalidate do to a completed phase).
NothingLeftBehind ==
  \A p \in Phases : phase[p].state = "COMPLETED" =>
    \A b \in {c \in bound : c.phase = p} :
      \/ Accepted(b.task) /\ \E c \in CurrentBinding(b.task) : c.phase = p /\ Current(c)
      \/ CarriedOut(b.task, p) /\ ~\E c \in CurrentBinding(b.task) : c.phase = p

\* A completed phase stays disposed and its artifacts' references resolved,
\* whatever the other phases register, archive, share and retire meanwhile
\* (complete_phase audits them once; register, reconcile, promote).
CompletedIsResolved ==
  \A p \in Phases : phase[p].state = "COMPLETED" =>
    /\ Disposed(p)
    /\ \A r \in Declared : Owner[r.from] = p /\ artifact[r.from] # "ARCHIVE" => Resolved(r)
=============================================================================
