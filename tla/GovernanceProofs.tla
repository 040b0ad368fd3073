-------------------------- MODULE GovernanceProofs --------------------------
(***************************************************************************)
(* A receipt that verifies is true of the whole project, no work is left   *)
(* behind in a completed phase, and what a completed phase owns stays      *)
(* resolved, for any number of phases, tasks, artifacts and revisions.     *)
(*                                                                         *)
(* VerifiedIsDone rests on the receipts: a valid one lists every phase     *)
(* there is (Listed).  NothingLeftBehind rests on the rows: a task has one *)
(* binding per revision (Bindings), and the receipt that keeps a phase     *)
(* completed counts an acceptance of every task that is bound there now    *)
(* (Counted), so that whatever withdraws one reopens the phase.            *)
(***************************************************************************)
EXTENDS Governance, TLAPS

TaskStates == {"ABSENT", "READY", "RUNNING", "WAITING", "PAUSED", "COMPLETED", "CANCELLED"}
TaskRows == [rev : Nat, status : TaskStates, begun : BOOLEAN, pending : BOOLEAN,
             needs : SUBSET (Tasks \X Nat)]
PhaseRows == [rev : Nat, of : Nat, state : PhaseStates]
Tables ==
  /\ phase \in [Phases -> PhaseRows]
  /\ task \in [Tasks -> TaskRows]
  /\ issued \in [Tasks -> Nat] /\ accepted \subseteq Acceptances
BindingRows == [task : Tasks, trev : Nat, phase : Phases, prev : Nat]
BindingTypes == bound \subseteq BindingRows /\ carried \subseteq bound \X bound
PhaseReceipts == [rev : Nat, members : SUBSET Acceptances, valid : BOOLEAN]
ProjectReceipts == [rev : Nat, phases : SUBSET (Phases \X Nat), valid : BOOLEAN]
ReceiptTypes ==
  /\ receipts \in [Phases -> Seq(PhaseReceipts)]
  /\ projectReceipts \in Seq(ProjectReceipts)
ArtifactTypes ==
  /\ artifact \in [Artifacts -> Dispositions \cup {None}]
  /\ shared \in [SharedNames -> SharedBindings \cup {None}]
\* An acceptance is one that was issued.
Issued ==
  /\ planIntact \in [Phases -> BOOLEAN] /\ unreadable \subseteq Acceptances
  /\ \A a \in accepted : a.no <= issued[a.task]
Types == project \in Nat /\ Tables /\ BindingTypes /\ ReceiptTypes /\ ArtifactTypes

\* A valid receipt of the project lists a receipt of every phase there is.
Listed ==
  \A i \in DOMAIN projectReceipts : projectReceipts[i].valid =>
    \A p \in Defined : \E j \in DOMAIN receipts[p] : <<p, j>> \in projectReceipts[i].phases

\* A task is bound once per revision, and no revision is ahead of the task.
Bindings ==
  /\ \A b \in bound : b.trev <= task[b.task].rev
  /\ \A b, c \in bound : b.task = c.task /\ b.trev = c.trev => b = c

\* A phase is completed by a receipt that counts every task bound to it now.
CountedIn(p, i) ==
  /\ receipts[p][i].valid
  /\ \A b \in bound : b.phase = p /\ b.trev = task[b.task].rev =>
       \E m \in receipts[p][i].members : m.task = b.task /\ m.trev = b.trev
Counted ==
  \A p \in Phases : phase[p].state = "COMPLETED" =>
    \E i \in DOMAIN receipts[p] : CountedIn(p, i)

SharedKnown == \A s \in SharedNames : shared[s] # None => shared[s].artifact \in Registered

WorkInv == Bindings /\ Counted /\ NothingLeftBehind
SharedInv == SharedKnown /\ CompletedIsResolved
GovernanceInv == Types /\ Issued /\ Listed /\ WorkInv /\ SharedInv

-----------------------------------------------------------------------------
(* Receipts. *)

LEMMA PhaseWithdrawn ==
  ASSUME NEW rs \in Seq(PhaseReceipts), NEW I
  PROVE  /\ Withdrawn(rs, I) \in Seq(PhaseReceipts) /\ DOMAIN Withdrawn(rs, I) = DOMAIN rs
         /\ \A i \in DOMAIN rs : /\ Withdrawn(rs, I)[i].valid <=> rs[i].valid /\ i \notin I
                                 /\ Withdrawn(rs, I)[i].members = rs[i].members
<1>1. ASSUME NEW r \in PhaseReceipts, NEW v \in BOOLEAN
      PROVE  LET w == [r EXCEPT !.valid = v] IN
             w \in PhaseReceipts /\ w.valid = v /\ w.members = r.members
  BY DEF PhaseReceipts
<1>2. \A i \in DOMAIN rs : rs[i] \in PhaseReceipts /\ rs[i].valid \in BOOLEAN
  <2>1. \A i \in DOMAIN rs : rs[i] \in PhaseReceipts
    OBVIOUS
  <2> QED
    BY <2>1 DEF PhaseReceipts
<1>3. ASSUME NEW i \in DOMAIN rs
      PROVE  LET w == [rs[i] EXCEPT !.valid = @ /\ i \notin I] IN
             w \in PhaseReceipts /\ (w.valid <=> rs[i].valid /\ i \notin I) /\ w.members = rs[i].members
  <2> PICK v \in BOOLEAN : v <=> rs[i].valid /\ i \notin I
    OBVIOUS
  <2>1. (rs[i].valid /\ i \notin I) = v
    BY <1>2
  <2> QED
    BY <1>1, <1>2, <2>1
<1>4. DOMAIN rs = 1 .. Len(rs) /\ Len(rs) \in Nat
  OBVIOUS
<1>5. Withdrawn(rs, I) = [i \in DOMAIN rs |-> [rs[i] EXCEPT !.valid = @ /\ i \notin I]]
  BY DEF Withdrawn
<1>6. \A i \in DOMAIN rs : Withdrawn(rs, I)[i] = [rs[i] EXCEPT !.valid = @ /\ i \notin I]
  BY <1>5
<1>7. \A i \in DOMAIN rs : Withdrawn(rs, I)[i] \in PhaseReceipts
  BY <1>3, <1>6
<1>8. Withdrawn(rs, I) \in Seq(PhaseReceipts) /\ DOMAIN Withdrawn(rs, I) = DOMAIN rs
  <2> DEFINE ws == Withdrawn(rs, I)
  <2>1. DOMAIN ws = 1 .. Len(rs) /\ ws = [i \in 1 .. Len(rs) |-> ws[i]]
    BY <1>4, <1>5
  <2> HIDE DEF ws
  <2> QED
    BY <1>4, <1>7, <2>1 DEF ws
<1> QED
  BY <1>3, <1>6, <1>8

LEMMA ProjectWithdrawn ==
  ASSUME NEW rs \in Seq(ProjectReceipts), NEW I
  PROVE  /\ Withdrawn(rs, I) \in Seq(ProjectReceipts) /\ DOMAIN Withdrawn(rs, I) = DOMAIN rs
         /\ \A i \in DOMAIN rs : /\ Withdrawn(rs, I)[i].valid <=> rs[i].valid /\ i \notin I
                                 /\ Withdrawn(rs, I)[i].phases = rs[i].phases
<1>1. ASSUME NEW r \in ProjectReceipts, NEW v \in BOOLEAN
      PROVE  LET w == [r EXCEPT !.valid = v] IN
             w \in ProjectReceipts /\ w.valid = v /\ w.phases = r.phases
  BY DEF ProjectReceipts
<1>2. \A i \in DOMAIN rs : rs[i] \in ProjectReceipts /\ rs[i].valid \in BOOLEAN
  <2>1. \A i \in DOMAIN rs : rs[i] \in ProjectReceipts
    OBVIOUS
  <2> QED
    BY <2>1 DEF ProjectReceipts
<1>3. ASSUME NEW i \in DOMAIN rs
      PROVE  LET w == [rs[i] EXCEPT !.valid = @ /\ i \notin I] IN
             w \in ProjectReceipts /\ (w.valid <=> rs[i].valid /\ i \notin I) /\ w.phases = rs[i].phases
  <2> PICK v \in BOOLEAN : v <=> rs[i].valid /\ i \notin I
    OBVIOUS
  <2>1. (rs[i].valid /\ i \notin I) = v
    BY <1>2
  <2> QED
    BY <1>1, <1>2, <2>1
<1>4. DOMAIN rs = 1 .. Len(rs) /\ Len(rs) \in Nat
  OBVIOUS
<1>5. Withdrawn(rs, I) = [i \in DOMAIN rs |-> [rs[i] EXCEPT !.valid = @ /\ i \notin I]]
  BY DEF Withdrawn
<1>6. \A i \in DOMAIN rs : Withdrawn(rs, I)[i] = [rs[i] EXCEPT !.valid = @ /\ i \notin I]
  BY <1>5
<1>7. \A i \in DOMAIN rs : Withdrawn(rs, I)[i] \in ProjectReceipts
  BY <1>3, <1>6
<1>8. Withdrawn(rs, I) \in Seq(ProjectReceipts) /\ DOMAIN Withdrawn(rs, I) = DOMAIN rs
  <2> DEFINE ws == Withdrawn(rs, I)
  <2>1. DOMAIN ws = 1 .. Len(rs) /\ ws = [i \in 1 .. Len(rs) |-> ws[i]]
    BY <1>4, <1>5
  <2> HIDE DEF ws
  <2> QED
    BY <1>4, <1>7, <2>1 DEF ws
<1> QED
  BY <1>3, <1>6, <1>8

\* Receipts of the project that were all withdrawn promise nothing.
LEMMA WithdrawnListed ==
  ASSUME Types, projectReceipts' = AllWithdrawn(projectReceipts)
  PROVE  Listed' /\ projectReceipts' \in Seq(ProjectReceipts)
<1>1. \A i \in DOMAIN projectReceipts' : ~projectReceipts'[i].valid
  BY ProjectWithdrawn DEF AllWithdrawn, Types, ReceiptTypes
<1> QED
  BY <1>1, ProjectWithdrawn DEF Listed, AllWithdrawn, Types, ReceiptTypes

\* No phase is new and no receipt of a phase is gone.
LEMMA ListedStays ==
  ASSUME Listed, projectReceipts' = projectReceipts, Defined' \subseteq Defined,
         \A p \in Defined : DOMAIN receipts[p] \subseteq DOMAIN receipts'[p]
  PROVE  Listed'
BY DEF Listed

-----------------------------------------------------------------------------
(* Types. *)

LEMMA TypesInit == Init => Types
<1> SUFFICES ASSUME Init PROVE Types
  OBVIOUS
<1>1. project \in Nat /\ Tables
  BY DEF Init, Tables, PhaseRows, TaskRows, PhaseStates, TaskStates
<1>2. BindingTypes /\ ReceiptTypes /\ ArtifactTypes
  BY DEF Init, BindingTypes, ReceiptTypes, ArtifactTypes
<1> QED
  BY <1>1, <1>2 DEF Types

LEMMA StateRow ==
  ASSUME NEW r \in PhaseRows, NEW st \in PhaseStates
  PROVE  LET w == [r EXCEPT !.state = st] IN
         w \in PhaseRows /\ w.rev = r.rev /\ w.of = r.of /\ w.state = st
BY DEF PhaseRows

LEMMA PhaseStep ==
  ASSUME phase \in [Phases -> PhaseRows], NEW p \in Phases, NEW st \in PhaseStates,
         phase' = [phase EXCEPT ![p].state = st]
  PROVE  phase' \in [Phases -> PhaseRows]
BY StateRow

LEMMA StatusRow ==
  ASSUME NEW r \in TaskRows, NEW st \in TaskStates
  PROVE  LET w == [r EXCEPT !.status = st] IN
         w \in TaskRows /\ w.rev = r.rev /\ w.status = st
BY DEF TaskRows

\* What a completed phase and the project are given as a receipt is one.
LEMMA PhaseReceiptAppended ==
  ASSUME Types, NEW p \in Phases, CompletePhase(p)
  PROVE  /\ receipts' \in [Phases -> Seq(PhaseReceipts)]
         /\ \A q \in Phases : DOMAIN receipts[q] \subseteq DOMAIN receipts'[q]
<1> DEFINE tasks == {b.task : b \in {c \in bound : c.phase = p}}
           members == UNION {AcceptedAs(t, task[t].rev) : t \in {u \in tasks : ~Left(u, p)}}
           row == [rev |-> phase[p].rev, members |-> members, valid |-> TRUE]
<1>1. receipts' = [receipts EXCEPT ![p] = Append(@, row)]
  BY DEF CompletePhase
<1>2. members \in SUBSET Acceptances
  BY DEF AcceptedAs, Types, Tables
<1>3. phase[p].rev \in Nat
  BY DEF Types, Tables, PhaseRows
<1> HIDE DEF members
<1>4. row \in PhaseReceipts
  BY <1>2, <1>3 DEF PhaseReceipts
<1> HIDE DEF row
<1>5. receipts \in [Phases -> Seq(PhaseReceipts)] /\ receipts[p] \in Seq(PhaseReceipts)
  BY DEF Types, ReceiptTypes
<1>6. Append(receipts[p], row) \in Seq(PhaseReceipts)
      /\ DOMAIN receipts[p] \subseteq DOMAIN Append(receipts[p], row)
  BY <1>4, <1>5
<1> QED
  BY <1>1, <1>5, <1>6

LEMMA ProjectReceiptAppended ==
  ASSUME Types, CompleteProject
  PROVE  projectReceipts' \in Seq(ProjectReceipts)
<1> DEFINE valid(p) == {i \in DOMAIN receipts[p] : receipts[p][i].valid /\ receipts[p][i].rev = phase[p].rev}
           phases == UNION {{p} \X valid(p) : p \in Defined}
           row == [rev |-> project, phases |-> phases, valid |-> TRUE]
<1>1. projectReceipts' = Append(projectReceipts, row)
  BY DEF CompleteProject
<1>2. ASSUME NEW p \in Phases PROVE DOMAIN receipts[p] \subseteq Nat
  <2>1. receipts[p] \in Seq(PhaseReceipts)
    BY DEF Types, ReceiptTypes
  <2>2. DOMAIN receipts[p] = 1 .. Len(receipts[p]) /\ Len(receipts[p]) \in Nat
    BY <2>1
  <2> QED
    BY <2>2
<1>3. phases \in SUBSET (Phases \X Nat)
  <2> SUFFICES ASSUME NEW p \in Defined, NEW k \in {p} \X valid(p) PROVE k \in Phases \X Nat
    OBVIOUS
  <2>1. p \in Phases
    BY DEF Defined
  <2> QED
    BY <1>2, <2>1
<1> HIDE DEF phases
<1>4. row \in ProjectReceipts
  BY <1>3 DEF ProjectReceipts, Types
<1> HIDE DEF row
<1> QED
  BY <1>1, <1>4 DEF Types, ReceiptTypes

LEMMA PhaseStepTypes ==
  ASSUME Types, PhaseNext
  PROVE  Types'
<1> USE DEF Types, Tables, TaskRows, PhaseRows, BindingTypes, ReceiptTypes, ArtifactTypes, taskVars, artifactVars
<1>1. CASE DefineProject
  <2>1. projectReceipts' \in Seq(ProjectReceipts)
    BY <1>1, WithdrawnListed DEF DefineProject
  <2> QED
    BY <1>1, <2>1 DEF DefineProject
<1>2. CASE CompleteProject
  BY <1>2, ProjectReceiptAppended DEF CompleteProject
<1>3. ASSUME NEW p \in Phases, DefinePhase(p) PROVE Types'
  <2>1. projectReceipts' \in Seq(ProjectReceipts)
    BY <1>3, WithdrawnListed DEF DefinePhase, ReceiptsRevised
  <2>2. phase' \in [Phases -> PhaseRows]
    BY <1>3 DEF DefinePhase, PhaseStates
  <2> QED
    BY <1>3, <2>1, <2>2 DEF DefinePhase
<1>4. ASSUME NEW p \in Phases, ReopenPhase(p) PROVE Types'
  <2>1. projectReceipts' \in Seq(ProjectReceipts)
    BY <1>4, WithdrawnListed DEF ReopenPhase
  <2>2. AllWithdrawn(receipts[p]) \in Seq(PhaseReceipts)
    BY PhaseWithdrawn DEF AllWithdrawn
  <2>3. receipts' \in [Phases -> Seq(PhaseReceipts)]
    BY <1>4, <2>2 DEF ReopenPhase
  <2>4. phase' \in [Phases -> PhaseRows]
    <3>1. "PAUSED" \in PhaseStates /\ phase' = [phase EXCEPT ![p].state = "PAUSED"]
      BY <1>4 DEF ReopenPhase, PhaseStates
    <3> QED
      BY <3>1, PhaseStep
  <2> QED
    BY <1>4, <2>1, <2>3, <2>4 DEF ReopenPhase
<1>5. ASSUME NEW p \in Phases, CompletePhase(p) PROVE Types'
  <2>1. phase' \in [Phases -> PhaseRows]
    <3>1. "COMPLETED" \in PhaseStates /\ phase' = [phase EXCEPT ![p].state = "COMPLETED"]
      BY <1>5 DEF CompletePhase, PhaseStates
    <3> QED
      BY <3>1, PhaseStep
  <2>2. receipts' \in [Phases -> Seq(PhaseReceipts)]
    BY <1>5, PhaseReceiptAppended
  <2> QED
    BY <1>5, <2>1, <2>2 DEF CompletePhase
<1>6. ASSUME NEW p \in Phases, EditPlan(p) PROVE Types'
  BY <1>6 DEF EditPlan
<1>7. ASSUME NEW p \in Phases, NEW active \in BOOLEAN, SetPhaseActive(p, active) PROVE Types'
  <2> DEFINE st == IF active THEN "ACTIVE" ELSE "PAUSED"
  <2>0. st \in PhaseStates /\ phase' = [phase EXCEPT ![p].state = st]
    BY <1>7 DEF SetPhaseActive, PhaseStates
  <2> HIDE DEF st
  <2>1. phase' \in [Phases -> PhaseRows]
    BY <2>0, PhaseStep
  <2> QED
    BY <1>7, <2>1 DEF SetPhaseActive
<1> QED
  BY <1>1, <1>2, <1>3, <1>4, <1>5, <1>6, <1>7 DEF PhaseNext

LEMMA WorkRow ==
  ASSUME NEW r \in TaskRows, NEW st \in TaskStates, NEW begun \in BOOLEAN, NEW pending \in BOOLEAN
  PROVE  [r EXCEPT !.status = st, !.begun = begun, !.pending = pending] \in TaskRows
BY DEF TaskRows

LEMMA WorkSteps ==
  ASSUME task \in [Tasks -> TaskRows], NEW t \in Tasks,
         Work(t) \/ Observe(t) \/ PauseRun(t) \/ CancelTask(t)
  PROVE  task' \in [Tasks -> TaskRows]
<1>1. task[t] \in TaskRows
  OBVIOUS
<1>2. CASE Work(t)
  <2>1. [task[t] EXCEPT !.status = "RUNNING", !.begun = TRUE, !.pending = TRUE] \in TaskRows
    BY <1>1, WorkRow DEF TaskStates
  <2> QED
    BY <1>2, <2>1 DEF Work
<1>3. CASE Observe(t)
  <2> DEFINE st == IF task[t].status = "WAITING" THEN "PAUSED" ELSE task[t].status
  <2>1. st \in TaskStates
    BY <1>1 DEF TaskRows, TaskStates
  <2>2. task' = [task EXCEPT ![t] = [task[t] EXCEPT !.pending = FALSE, !.status = st]]
    BY <1>3 DEF Observe
  <2> HIDE DEF st
  <2>3. [task[t] EXCEPT !.pending = FALSE, !.status = st] \in TaskRows
    BY <1>1, <2>1 DEF TaskRows
  <2> QED
    BY <2>2, <2>3
<1>4. CASE PauseRun(t)
  <2> DEFINE st == IF task[t].pending THEN "WAITING" ELSE "PAUSED"
  <2>1. st \in TaskStates /\ task' = [task EXCEPT ![t].status = st]
    BY <1>4 DEF PauseRun, TaskStates
  <2> HIDE DEF st
  <2> QED
    BY <1>1, <2>1, StatusRow
<1>5. CASE CancelTask(t)
  <2>1. "CANCELLED" \in TaskStates /\ task' = [task EXCEPT ![t].status = "CANCELLED"]
    BY <1>5 DEF CancelTask, TaskStates
  <2> QED
    BY <1>1, <2>1, StatusRow
<1> QED
  BY <1>2, <1>3, <1>4, <1>5

LEMMA TaskStepTypes ==
  ASSUME Types, TaskNext
  PROVE  Types'
<1> USE DEF Types, Tables, TaskRows, PhaseRows, BindingTypes, ReceiptTypes, ArtifactTypes, artifactVars, GovernanceUnchanged, TaskStep
<1>1. ASSUME NEW t \in Tasks, NEW renew \in BOOLEAN, ReviseTask(t, renew) PROVE Types'
  <2>1. projectReceipts' \in Seq(ProjectReceipts)
    BY <1>1, WithdrawnListed DEF ReviseTask
  <2> DEFINE named == {<<u, task[u].rev>> : u \in Predecessors[t]}
  <2>2. named \in SUBSET (Tasks \X Nat)
    BY ConstantsAssumption
  <2>3. task' = [task EXCEPT ![t] = [rev |-> @.rev + 1, status |-> "READY", begun |-> FALSE,
                                  pending |-> FALSE, needs |-> IF renew THEN named ELSE @.needs]]
    BY <1>1 DEF ReviseTask
  <2> HIDE DEF named
  <2>4. task' \in [Tasks -> TaskRows]
    BY <2>2, <2>3 DEF TaskStates
  <2> QED
    BY <1>1, <2>1, <2>4 DEF ReviseTask
<1>2. ASSUME NEW t \in Tasks, NEW p \in Phases, BindTask(t, p) PROVE Types'
  <2>1. [task |-> t, trev |-> task[t].rev, phase |-> p, prev |-> phase[p].rev] \in BindingRows
    BY DEF BindingRows
  <2> QED
    BY <1>2, <2>1 DEF BindTask
<1>3. ASSUME NEW t \in Tasks, NEW b \in bound, NEW c \in bound, CarryTask(t, b, c) PROVE Types'
  BY <1>3 DEF CarryTask
<1>4. ASSUME NEW t \in Tasks, Work(t) \/ Observe(t) \/ PauseRun(t) \/ CancelTask(t) PROVE Types'
  <2>1. task' \in [Tasks -> TaskRows]
    BY <1>4, WorkSteps
  <2> QED
    BY <1>4, <2>1 DEF Work, Observe, PauseRun, CancelTask
<1>5. ASSUME NEW t \in Tasks, Accept(t) PROVE Types'
  <2>1. "COMPLETED" \in TaskStates /\ task' = [task EXCEPT ![t].status = "COMPLETED"]
    BY <1>5 DEF Accept, TaskStates
  <2>2. task' \in [Tasks -> TaskRows]
    BY <2>1, StatusRow
  <2>3. [task |-> t, trev |-> task[t].rev, no |-> issued[t] + 1] \in Acceptances
    BY DEF Acceptances
  <2>4. accepted' \subseteq Acceptances /\ issued' \in [Tasks -> Nat]
    BY <1>5, <2>3 DEF Accept
  <2> QED
    BY <1>5, <2>2, <2>4 DEF Accept
<1>6. ASSUME NEW a \in accepted, Invalidate(a) PROVE Types'
  <2> DEFINE hit == {<<a.task, a.trev>>} \cup {<<u, task[u].rev>> : u \in Dependents(a.task, a.trev)}
             fallen(u) == <<u, task[u].rev>> \in hit
             status(u) == CASE task[u].status = "COMPLETED" -> "READY"
                            [] task[u].status = "RUNNING" -> IF task[u].pending THEN "WAITING" ELSE "PAUSED"
                            [] OTHER -> task[u].status
  <2>1. projectReceipts' \in Seq(ProjectReceipts)
    BY <1>6, WithdrawnListed DEF Invalidate
  <2>2. task' = [u \in Tasks |-> IF ~fallen(u) THEN task[u] ELSE [task[u] EXCEPT !.status = status(u)]]
    BY <1>6 DEF Invalidate
  <2>3. phase' = [p \in Phases |-> IF Counting(p, hit) # {} /\ phase[p].state = "COMPLETED"
                                  THEN [phase[p] EXCEPT !.state = "PAUSED"] ELSE phase[p]]
    BY <1>6 DEF Invalidate
  <2>4. receipts' = [p \in Phases |-> Withdrawn(receipts[p], Counting(p, hit))]
    BY <1>6 DEF Invalidate
  <2>5. accepted' \subseteq accepted /\ UNCHANGED <<project, bound, carried, issued, artifact, shared>>
    BY <1>6 DEF Invalidate
  <2> HIDE DEF hit
  <2>6. \A u \in Tasks : status(u) \in TaskStates
    BY DEF TaskStates
  <2> HIDE DEF fallen, status
  <2>7. task' \in [Tasks -> TaskRows]
    <3>1. \A u \in Tasks : task[u] \in TaskRows /\ [task[u] EXCEPT !.status = status(u)] \in TaskRows
      BY <2>6, StatusRow
    <3> HIDE DEF TaskRows
    <3> QED
      BY <2>2, <3>1
  <2>8. phase' \in [Phases -> PhaseRows]
    <3>1. \A p \in Phases : phase[p] \in PhaseRows /\ [phase[p] EXCEPT !.state = "PAUSED"] \in PhaseRows
      BY StateRow DEF PhaseStates
    <3> HIDE DEF PhaseRows
    <3> QED
      BY <2>3, <3>1
  <2>9. receipts' \in [Phases -> Seq(PhaseReceipts)]
    BY <2>4, PhaseWithdrawn
  <2> QED
    BY <2>1, <2>5, <2>7, <2>8, <2>9
<1>7. ASSUME NEW a \in accepted, Lose(a) PROVE Types'
  BY <1>7 DEF Lose
<1> QED
  BY <1>1, <1>2, <1>3, <1>4, <1>5, <1>6, <1>7 DEF TaskNext

LEMMA ArtifactStepTypes ==
  ASSUME Types, ArtifactNext
  PROVE  Types'
<1> USE DEF Types, Tables, TaskRows, PhaseRows, BindingTypes, ReceiptTypes, ArtifactTypes, taskVars, ArtifactStep, Dispositions
<1>1. ASSUME NEW a \in Artifacts, Register(a) PROVE Types'
  BY <1>1 DEF Register
<1>2. ASSUME NEW a \in Artifacts, NEW d \in {"UNRESOLVED", "KEEP_OWNED", "ARCHIVE"}, Reconcile(a, d) PROVE Types'
  BY <1>2 DEF Reconcile
<1>3. ASSUME NEW a \in Artifacts, NEW s \in SharedNames, NEW acc \in accepted,
             NEW replacing \in SUBSET SharedNames, Promote(a, s, acc, replacing)
      PROVE  Types'
  <2>1. [artifact |-> a, state |-> "CURRENT", acceptance |-> acc] \in SharedBindings
    BY DEF SharedBindings
  <2>2. ASSUME NEW x \in replacing PROVE [shared[x] EXCEPT !.state = "SUPERSEDED"] \in SharedBindings
    BY <1>3, <2>2 DEF SharedBindings, Promote
  <2>3. shared' \in [SharedNames -> SharedBindings \cup {None}]
    BY <1>3, <2>1, <2>2 DEF Promote
  <2>4. artifact' \in [Artifacts -> Dispositions \cup {None}]
    BY <1>3 DEF Promote
  <2> QED
    BY <1>3, <2>3, <2>4 DEF Promote
<1>4. ASSUME NEW s \in SharedNames, RetireShared(s) PROVE Types'
  <2>1. [shared[s] EXCEPT !.state = "RETIRED"] \in SharedBindings
    BY <1>4 DEF RetireShared, SharedBindings
  <2> QED
    BY <1>4, <2>1 DEF RetireShared
<1> QED
  BY <1>1, <1>2, <1>3, <1>4 DEF ArtifactNext

LEMMA TypesNext == Types /\ [Next]_vars => Types'
<1> SUFFICES ASSUME Types, [Next]_vars PROVE Types'
  OBVIOUS
<1>1. CASE UNCHANGED vars
  BY <1>1 DEF vars, taskVars, artifactVars, Types, Tables, BindingTypes, ReceiptTypes, ArtifactTypes
<1> QED
  BY <1>1, PhaseStepTypes, TaskStepTypes, ArtifactStepTypes DEF Next

LEMMA IssuedNext == Types /\ Issued /\ [Next]_vars => Issued'
<1> SUFFICES ASSUME Types, Issued, [Next]_vars PROVE Issued'
  OBVIOUS
<1>1. ASSUME UNCHANGED <<planIntact, unreadable, issued>>, accepted' \subseteq accepted
      PROVE  Issued'
  BY <1>1 DEF Issued
<1>2. CASE PhaseNext
  <2>1. ASSUME NEW p \in Phases, planIntact' = [planIntact EXCEPT ![p] = TRUE] \/ EditPlan(p)
        PROVE  planIntact' \in [Phases -> BOOLEAN]
    <3>1. CASE planIntact' = [planIntact EXCEPT ![p] = TRUE]
      BY <3>1 DEF Issued
    <3>2. CASE EditPlan(p)
      <4>1. planIntact' = [planIntact EXCEPT ![p] = ~planIntact[p]]
        BY <3>2 DEF EditPlan
      <4>2. (~planIntact[p]) \in BOOLEAN
        OBVIOUS
      <4> QED
        BY <4>1, <4>2 DEF Issued
    <3> QED
      BY <2>1, <3>1, <3>2
  <2>2. UNCHANGED <<unreadable, issued, accepted>>
    BY <1>2 DEF PhaseNext, DefineProject, CompleteProject, DefinePhase, ReopenPhase, CompletePhase,
                EditPlan, SetPhaseActive, taskVars
  <2>3. UNCHANGED planIntact \/ planIntact' \in [Phases -> BOOLEAN]
    BY <1>2, <2>1 DEF PhaseNext, DefineProject, CompleteProject, DefinePhase, ReopenPhase, CompletePhase,
                      SetPhaseActive
  <2> QED
    BY <2>2, <2>3 DEF Issued
<1>3. CASE TaskNext
  <2>1. ASSUME NEW t \in Tasks, NEW renew \in BOOLEAN, ReviseTask(t, renew) PROVE Issued'
    BY <1>1, <2>1 DEF ReviseTask, GovernanceUnchanged
  <2>2. ASSUME NEW t \in Tasks, NEW p \in Phases, BindTask(t, p) PROVE Issued'
    BY <1>1, <2>2 DEF BindTask, GovernanceUnchanged
  <2>3. ASSUME NEW t \in Tasks, NEW b \in bound, NEW c \in bound, CarryTask(t, b, c) PROVE Issued'
    BY <1>1, <2>3 DEF CarryTask, GovernanceUnchanged
  <2>4. ASSUME NEW t \in Tasks, Work(t) \/ Observe(t) \/ PauseRun(t) \/ CancelTask(t) PROVE Issued'
    BY <1>1, <2>4 DEF Work, Observe, PauseRun, CancelTask, TaskStep, GovernanceUnchanged
  <2>5. ASSUME NEW t \in Tasks, Accept(t) PROVE Issued'
    <3> DEFINE row == [task |-> t, trev |-> task[t].rev, no |-> issued[t] + 1]
    <3>1. /\ issued' = [issued EXCEPT ![t] = issued[t] + 1] /\ accepted' = accepted \cup {row}
          /\ UNCHANGED <<planIntact, unreadable>>
      BY <2>5 DEF Accept, TaskStep, GovernanceUnchanged
    <3>2. row.task = t /\ row.no = issued[t] + 1
      OBVIOUS
    <3> HIDE DEF row
    <3>3. issued \in [Tasks -> Nat] /\ \A a \in accepted : a.task \in Tasks /\ a.no \in Nat
      BY DEF Types, Tables, Acceptances
    <3>4. \A a \in accepted' : a.no <= issued'[a.task]
      BY <3>1, <3>2, <3>3 DEF Issued
    <3> QED
      BY <3>1, <3>4 DEF Issued
  <2>6. ASSUME NEW a \in accepted, Invalidate(a) PROVE Issued'
    BY <1>1, <2>6 DEF Invalidate
  <2>7. ASSUME NEW a \in accepted, Lose(a) PROVE Issued'
    BY <2>7 DEF Lose, GovernanceUnchanged, Issued, Types, Tables
  <2> QED
    BY <1>3, <2>1, <2>2, <2>3, <2>4, <2>5, <2>6, <2>7 DEF TaskNext
<1>4. CASE ArtifactNext
  BY <1>1, <1>4, ZenonT(60) DEF ArtifactNext, Register, Reconcile, Promote, RetireShared, ArtifactStep, taskVars
<1>5. CASE UNCHANGED vars
  BY <1>1, <1>5 DEF vars, taskVars
<1> QED
  BY <1>2, <1>3, <1>4, <1>5 DEF Next

-----------------------------------------------------------------------------
(* A receipt of the project lists every phase. *)

LEMMA PhaseStepListed ==
  ASSUME Types, Listed, PhaseNext
  PROVE  Listed'
<1>1. CASE DefineProject
  BY <1>1, WithdrawnListed DEF DefineProject
<1>2. CASE CompleteProject
  <2> DEFINE valid(p) == {i \in DOMAIN receipts[p] : receipts[p][i].valid /\ receipts[p][i].rev = phase[p].rev}
             phases == UNION {{p} \X valid(p) : p \in Defined}
             row == [rev |-> project, phases |-> phases, valid |-> TRUE]
  <2>1. /\ projectReceipts' = Append(projectReceipts, row) /\ UNCHANGED <<phase, receipts>>
        /\ \A p \in Defined : valid(p) # {}
    BY <1>2 DEF CompleteProject
  <2>2. \A p \in Defined : \E j \in DOMAIN receipts[p] : <<p, j>> \in row.phases
    BY <2>1
  <2> HIDE DEF row
  <2>3. projectReceipts \in Seq(ProjectReceipts)
    BY DEF Types, ReceiptTypes
  <2>4. \A i \in DOMAIN projectReceipts' :
          IF i \in DOMAIN projectReceipts THEN projectReceipts'[i] = projectReceipts[i]
                                          ELSE projectReceipts'[i] = row
    BY <2>1, <2>3
  <2>5. Defined' = Defined
    BY <2>1 DEF Defined
  <2> QED
    BY <2>1, <2>2, <2>4, <2>5 DEF Listed
<1>3. ASSUME NEW p \in Phases, DefinePhase(p) PROVE Listed'
  BY <1>3, WithdrawnListed DEF DefinePhase, ReceiptsRevised
<1>4. ASSUME NEW p \in Phases, ReopenPhase(p) PROVE Listed'
  BY <1>4, WithdrawnListed DEF ReopenPhase
<1>5. ASSUME NEW p \in Phases, CompletePhase(p) PROVE Listed'
  <2>1. Defined' \subseteq Defined /\ UNCHANGED projectReceipts
    BY <1>5 DEF CompletePhase, Defined, Types, Tables, PhaseRows
  <2>2. \A q \in Defined : DOMAIN receipts[q] \subseteq DOMAIN receipts'[q]
    BY <1>5, PhaseReceiptAppended DEF Defined
  <2> QED
    BY <2>1, <2>2, ListedStays
<1>6. ASSUME NEW p \in Phases, EditPlan(p) PROVE Listed'
  BY <1>6, ListedStays DEF EditPlan, Defined
<1>7. ASSUME NEW p \in Phases, NEW active \in BOOLEAN, SetPhaseActive(p, active) PROVE Listed'
  <2>1. Defined' \subseteq Defined
    BY <1>7 DEF SetPhaseActive, Defined, Types, Tables, PhaseRows
  <2> QED
    BY <1>7, <2>1, ListedStays DEF SetPhaseActive
<1> QED
  BY <1>1, <1>2, <1>3, <1>4, <1>5, <1>6, <1>7 DEF PhaseNext

LEMMA ListedNext == Types /\ Listed /\ [Next]_vars => Listed'
<1> SUFFICES ASSUME Types, Listed, [Next]_vars PROVE Listed'
  OBVIOUS
<1>1. ASSUME NEW t \in Tasks, NEW renew \in BOOLEAN, ReviseTask(t, renew) PROVE Listed'
  BY <1>1, WithdrawnListed DEF ReviseTask
<1>2. ASSUME NEW a \in accepted, Invalidate(a) PROVE Listed'
  BY <1>2, WithdrawnListed DEF Invalidate
<1>3. ASSUME UNCHANGED <<phase, receipts, projectReceipts>> PROVE Listed'
  BY <1>3, ListedStays DEF Defined
<1>4. ASSUME NEW t \in Tasks, NEW p \in Phases, BindTask(t, p) PROVE Listed'
  BY <1>3, <1>4 DEF BindTask, GovernanceUnchanged
<1>5. ASSUME NEW t \in Tasks, NEW b \in bound, NEW c \in bound, CarryTask(t, b, c) PROVE Listed'
  BY <1>3, <1>5 DEF CarryTask, GovernanceUnchanged
<1>6. ASSUME NEW t \in Tasks, Work(t) \/ Observe(t) \/ PauseRun(t) \/ CancelTask(t) \/ Accept(t) PROVE Listed'
  BY <1>3, <1>6 DEF Work, Observe, PauseRun, CancelTask, Accept, TaskStep, GovernanceUnchanged
<1>7. ASSUME NEW a \in accepted, Lose(a) PROVE Listed'
  BY <1>3, <1>7 DEF Lose, GovernanceUnchanged
<1>8. CASE TaskNext
  BY <1>1, <1>2, <1>4, <1>5, <1>6, <1>7, <1>8 DEF TaskNext
<1>9. CASE ArtifactNext
  BY <1>3, <1>9, ZenonT(60) DEF ArtifactNext, Register, Reconcile, Promote, RetireShared, ArtifactStep
<1>10. CASE UNCHANGED vars
  BY <1>3, <1>10 DEF vars
<1> QED
  BY <1>8, <1>9, <1>10, PhaseStepListed DEF Next

-----------------------------------------------------------------------------
(* Work. *)

WorkRows == <<task, bound, carried, accepted, phase, receipts>>

LEMMA WorkStays == WorkInv /\ UNCHANGED WorkRows => WorkInv'
<1> SUFFICES ASSUME WorkInv, UNCHANGED WorkRows PROVE WorkInv'
  OBVIOUS
<1>1. Bindings' /\ Counted'
  BY DEF WorkRows, WorkInv, Bindings, Counted, CountedIn
<1>2. /\ \A t : CurrentBinding(t)' = CurrentBinding(t) /\ Accepted(t)' = Accepted(t)
      /\ \A t, p : CarriedOut(t, p)' = CarriedOut(t, p)
  BY DEF WorkRows, CurrentBinding, BindingsOf, Accepted, AcceptedAs, CarriedOut, Current
<1>3. NothingLeftBehind'
  BY <1>2 DEF WorkRows, WorkInv, NothingLeftBehind, Current
<1> QED
  BY <1>1, <1>3 DEF WorkInv

\* Nobody's binding or work changes; the phases that are completed were.
LEMMA PhaseMoves ==
  ASSUME Types, WorkInv, UNCHANGED taskVars,
         \A p \in Phases : phase'[p].state = "COMPLETED" =>
           phase[p].state = "COMPLETED" /\ phase'[p].rev = phase[p].rev /\ receipts'[p] = receipts[p]
  PROVE  WorkInv'
<1> USE DEF taskVars
<1>1. Bindings'
  BY DEF WorkInv, Bindings
<1>2. Counted'
  BY DEF WorkInv, Counted, CountedIn
<1>3. \A t : CurrentBinding(t)' = CurrentBinding(t) /\ Accepted(t)' = Accepted(t)
  BY DEF CurrentBinding, BindingsOf, Accepted, AcceptedAs
<1>4. NothingLeftBehind'
  <2> SUFFICES ASSUME NEW p \in Phases, phase'[p].state = "COMPLETED", NEW b \in bound, b.phase = p
               PROVE  \/ Accepted(b.task) /\ \E c \in CurrentBinding(b.task) : c.phase = p /\ Current(c)'
                      \/ CarriedOut(b.task, p)' /\ ~\E c \in CurrentBinding(b.task) : c.phase = p
    BY <1>3 DEF NothingLeftBehind
  <2>1. phase[p].state = "COMPLETED" /\ phase'[p].rev = phase[p].rev
    OBVIOUS
  <2>2. \/ Accepted(b.task) /\ \E c \in CurrentBinding(b.task) : c.phase = p /\ Current(c)
        \/ CarriedOut(b.task, p) /\ ~\E c \in CurrentBinding(b.task) : c.phase = p
    BY <2>1 DEF WorkInv, NothingLeftBehind
  <2>3. \A c : c.phase = p => (Current(c)' <=> Current(c))
    BY <2>1 DEF Current
  <2>4. CarriedOut(b.task, p) => CarriedOut(b.task, p)'
    BY <2>3 DEF CarriedOut
  <2> QED
    BY <2>2, <2>3, <2>4
<1> QED
  BY <1>1, <1>2, <1>4 DEF WorkInv

\* The tasks keep their revisions and what is accepted; more may be carried.
LEMMA TasksMove ==
  ASSUME Types, WorkInv, UNCHANGED <<bound, phase, receipts>>, carried \subseteq carried',
         \A u \in Tasks : task'[u].rev = task[u].rev, \A u \in Tasks : Accepted(u) => Accepted(u)'
  PROVE  WorkInv'
<1>1. \A b \in bound : b.task \in Tasks /\ task'[b.task].rev = task[b.task].rev
  BY DEF Types, BindingTypes, BindingRows
<1>2. Bindings' /\ Counted'
  BY <1>1 DEF WorkInv, Bindings, Counted, CountedIn
<1>3. \A u \in Tasks : CurrentBinding(u)' = CurrentBinding(u)
  BY DEF CurrentBinding, BindingsOf
<1>4. \A u \in Tasks : \A p : CarriedOut(u, p) => CarriedOut(u, p)'
  BY DEF CarriedOut, Current
<1>5. NothingLeftBehind'
  BY <1>1, <1>3, <1>4 DEF WorkInv, NothingLeftBehind, Current
<1> QED
  BY <1>2, <1>5 DEF WorkInv

\* complete_phase finds every task it does not count carried elsewhere.
LEMMA CompletePhaseWork ==
  ASSUME Types, WorkInv, NEW p \in Phases, CompletePhase(p)
  PROVE  WorkInv'
<1> DEFINE tasks == {b.task : b \in {c \in bound : c.phase = p}}
           stayed == {t \in tasks : ~Left(t, p)}
           members == UNION {AcceptedAs(t, task[t].rev) : t \in stayed}
           row == [rev |-> phase[p].rev, members |-> members, valid |-> TRUE]
<1>1. /\ receipts' = [receipts EXCEPT ![p] = Append(@, row)]
      /\ phase' = [phase EXCEPT ![p].state = "COMPLETED"]
      /\ \A t \in stayed : DeliveredBy(t, p)
      /\ UNCHANGED taskVars
  BY DEF CompletePhase
<1>2. /\ \A q \in Phases : phase'[q].rev = phase[q].rev
      /\ \A q \in Phases \ {p} : phase'[q] = phase[q] /\ receipts'[q] = receipts[q]
  BY <1>1 DEF Types, Tables, PhaseRows, ReceiptTypes
<1>3. Bindings'
  BY <1>1 DEF WorkInv, Bindings, taskVars
<1>4. ASSUME NEW b \in bound, b.phase = p, b.trev = task[b.task].rev
      PROVE  b.task \in stayed
  <2>1. b \in CurrentBinding(b.task) /\ b.task \in tasks
    BY <1>4 DEF CurrentBinding, BindingsOf
  <2>2. ASSUME NEW c \in CurrentBinding(b.task) PROVE c = b
    BY <1>4 DEF CurrentBinding, BindingsOf, WorkInv, Bindings
  <2> QED
    BY <1>4, <2>1, <2>2 DEF Left
<1>5. ASSUME NEW b \in bound, b.phase = p, b.trev = task[b.task].rev
      PROVE  \E m \in members : m.task = b.task /\ m.trev = b.trev
  <2>1. DeliveredBy(b.task, p) /\ AcceptedAs(b.task, b.trev) \subseteq members
    BY <1>1, <1>4, <1>5
  <2> HIDE DEF members
  <2>2. PICK m \in AcceptedAs(b.task, b.trev) : TRUE
    BY <1>5, <2>1 DEF DeliveredBy, Accepted
  <2> QED
    BY <2>1, <2>2 DEF AcceptedAs
<1>6. Counted'
  <2>1. PICK i \in DOMAIN receipts'[p] : receipts'[p][i] = row
    <3>1. receipts[p] \in Seq(PhaseReceipts) /\ receipts'[p] = Append(receipts[p], row)
      BY <1>1 DEF Types, ReceiptTypes
    <3> HIDE DEF row
    <3> QED
      BY <3>1
  <2>2. CountedIn(p, i)'
    BY <1>1, <1>5, <2>1 DEF CountedIn, taskVars
  <2>3. ASSUME NEW q \in Phases, phase'[q].state = "COMPLETED"
        PROVE  \E j \in DOMAIN receipts'[q] : CountedIn(q, j)'
    <3>1. CASE q = p
      BY <2>1, <2>2, <3>1
    <3>2. CASE q # p
      <4>1. PICK j \in DOMAIN receipts[q] : CountedIn(q, j)
        BY <1>2, <2>3, <3>2 DEF WorkInv, Counted
      <4> QED
        BY <1>1, <1>2, <3>2, <4>1 DEF CountedIn, taskVars
    <3> QED
      BY <3>1, <3>2
  <2> QED
    BY <2>3 DEF Counted
<1>7. \A t : CurrentBinding(t)' = CurrentBinding(t) /\ Accepted(t)' = Accepted(t)
  BY <1>1 DEF CurrentBinding, BindingsOf, Accepted, AcceptedAs, taskVars
<1>8. \A b \in bound : b.phase \in Phases /\ (Current(b)' <=> Current(b))
  BY <1>2 DEF Types, BindingTypes, BindingRows, Current
<1>9. \A t, q : CarriedOut(t, q) => CarriedOut(t, q)'
  <2> SUFFICES ASSUME NEW t, NEW q, CarriedOut(t, q) PROVE CarriedOut(t, q)'
    OBVIOUS
  <2>1. PICK k \in carried : /\ k[1].task = t /\ k[1].phase = q /\ Current(k[1]) /\ task[t].rev >= k[2].trev
    BY DEF CarriedOut
  <2>2. k[1] \in bound
    BY DEF Types, BindingTypes
  <2> QED
    BY <1>1, <1>8, <2>1, <2>2 DEF CarriedOut, taskVars
<1>10. NothingLeftBehind'
  <2> SUFFICES ASSUME NEW q \in Phases, phase'[q].state = "COMPLETED", NEW b \in bound, b.phase = q
               PROVE  \/ Accepted(b.task) /\ \E c \in CurrentBinding(b.task) : c.phase = q /\ Current(c)'
                      \/ CarriedOut(b.task, q)' /\ ~\E c \in CurrentBinding(b.task) : c.phase = q
    BY <1>1, <1>7 DEF NothingLeftBehind, taskVars
  <2>1. CurrentBinding(b.task) \subseteq bound
    BY DEF CurrentBinding, BindingsOf
  <2>2. CASE q # p
    BY <1>2, <1>8, <1>9, <2>1, <2>2 DEF WorkInv, NothingLeftBehind
  <2>3. CASE q = p /\ Left(b.task, p)
    <3>1. PICK c \in CurrentBinding(b.task) : c.phase # p
      BY <2>3 DEF Left
    <3>2. \A d \in CurrentBinding(b.task) : d = c
      BY DEF CurrentBinding, BindingsOf, WorkInv, Bindings
    <3> QED
      BY <1>9, <2>3, <3>1, <3>2 DEF Left
  <2>4. CASE q = p /\ ~Left(b.task, p)
    <3>1. DeliveredBy(b.task, p)
      BY <1>1, <2>4
    <3> QED
      BY <1>8, <2>1, <2>4, <3>1 DEF DeliveredBy
  <2> QED
    BY <2>2, <2>3, <2>4
<1> QED
  BY <1>3, <1>6, <1>10 DEF WorkInv

\* revise_task takes nothing out of a completed phase: accepted work is only
\* revised while its phase is paused, and a new revision is bound nowhere.
LEMMA ReviseTaskWork ==
  ASSUME Types, WorkInv, NEW t \in Tasks, NEW renew \in BOOLEAN, ReviseTask(t, renew)
  PROVE  WorkInv'
<1>1. /\ UNCHANGED <<bound, carried, accepted, phase, receipts>>
      /\ task'[t].rev = task[t].rev + 1 /\ \A u \in Tasks \ {t} : task'[u] = task[u]
      /\ task[t].status = "COMPLETED" => \A b \in CurrentBinding(t) : phase[b.phase].state = "PAUSED"
  BY DEF ReviseTask, GovernanceUnchanged, Types, Tables
<1>2. /\ \A u \in Tasks : task[u].rev \in Nat
      /\ \A b \in bound : b.task \in Tasks /\ b.trev \in Nat /\ b.trev <= task[b.task].rev
  BY DEF Types, Tables, TaskRows, BindingTypes, BindingRows, WorkInv, Bindings
<1>3. \A b \in bound : b.task = t => b.trev # task'[t].rev /\ b.trev <= task'[t].rev
  BY <1>1, <1>2
<1>4. Bindings'
  BY <1>1, <1>2, <1>3 DEF WorkInv, Bindings
<1>5. Counted'
  BY <1>1, <1>2, <1>3 DEF WorkInv, Counted, CountedIn
<1>6. \A u \in Tasks : \A p : CarriedOut(u, p) => CarriedOut(u, p)'
  <2> SUFFICES ASSUME NEW u \in Tasks, NEW p, CarriedOut(u, p) PROVE CarriedOut(u, p)'
    OBVIOUS
  <2>1. PICK k \in carried : /\ k[1].task = u /\ k[1].phase = p /\ Current(k[1]) /\ task[u].rev >= k[2].trev
    BY DEF CarriedOut
  <2>2. k[2].trev \in Nat
    BY DEF Types, BindingTypes, BindingRows
  <2>3. task'[u].rev >= k[2].trev
    BY <1>1, <1>2, <2>1, <2>2
  <2> QED
    BY <1>1, <2>1, <2>3 DEF CarriedOut, Current
<1>7. CurrentBinding(t)' = {} /\ \A u \in Tasks \ {t} : CurrentBinding(u)' = CurrentBinding(u)
  BY <1>1, <1>3 DEF CurrentBinding, BindingsOf
<1>8. NothingLeftBehind'
  <2> SUFFICES ASSUME NEW p \in Phases, phase[p].state = "COMPLETED", NEW b \in bound, b.phase = p
               PROVE  \/ Accepted(b.task)' /\ \E c \in CurrentBinding(b.task)' : c.phase = p /\ Current(c)'
                      \/ CarriedOut(b.task, p)' /\ ~\E c \in CurrentBinding(b.task)' : c.phase = p
    BY <1>1 DEF NothingLeftBehind
  <2>1. \/ Accepted(b.task) /\ \E c \in CurrentBinding(b.task) : c.phase = p /\ Current(c)
        \/ CarriedOut(b.task, p) /\ ~\E c \in CurrentBinding(b.task) : c.phase = p
    BY DEF WorkInv, NothingLeftBehind
  <2>2. CASE b.task # t
    <3>1. Accepted(b.task)' <=> Accepted(b.task)
      BY <1>1, <1>2, <2>2 DEF Accepted, AcceptedAs
    <3> QED
      BY <1>1, <1>2, <1>6, <1>7, <2>1, <2>2, <3>1 DEF Current
  <2>3. CASE b.task = t
    <3>1. ~(Accepted(t) /\ \E c \in CurrentBinding(t) : c.phase = p)
      BY <1>1 DEF Accepted
    <3> QED
      BY <1>6, <1>7, <2>1, <2>3, <3>1
  <2> QED
    BY <2>2, <2>3
<1> QED
  BY <1>4, <1>5, <1>8 DEF WorkInv

\* bind_task adds nothing to a completed phase.
LEMMA BindTaskWork ==
  ASSUME Types, WorkInv, NEW t \in Tasks, NEW p \in Phases, BindTask(t, p)
  PROVE  WorkInv'
<1> DEFINE row == [task |-> t, trev |-> task[t].rev, phase |-> p, prev |-> phase[p].rev]
<1>1. /\ UNCHANGED <<task, carried, accepted, phase, receipts>> /\ bound' = bound \cup {row}
      /\ phase[p].state # "COMPLETED" /\ CurrentBinding(t) = {}
  BY DEF BindTask, GovernanceUnchanged
<1>2. row.task = t /\ row.trev = task[t].rev /\ row.phase = p /\ row.prev = phase[p].rev
  OBVIOUS
<1>3. task[t].rev \in Nat
  BY DEF Types, Tables, TaskRows
<1> HIDE DEF row
<1>4. \A b \in bound : ~(b.task = t /\ b.trev = task[t].rev)
  BY <1>1 DEF CurrentBinding, BindingsOf
<1>5. Bindings'
  BY <1>1, <1>2, <1>3, <1>4 DEF WorkInv, Bindings
<1>6. Counted'
  BY <1>1, <1>2 DEF WorkInv, Counted, CountedIn
<1>7. /\ CurrentBinding(t)' = {row} /\ \A u : u # t => CurrentBinding(u)' = CurrentBinding(u)
  BY <1>1, <1>2, <1>4 DEF CurrentBinding, BindingsOf
<1>8. /\ \A u, q : CarriedOut(u, q)' <=> CarriedOut(u, q)
      /\ \A u : Accepted(u)' <=> Accepted(u)
  BY <1>1 DEF CarriedOut, Current, Accepted, AcceptedAs
<1>9. NothingLeftBehind'
  <2> SUFFICES ASSUME NEW q \in Phases, phase[q].state = "COMPLETED", NEW b \in bound, b.phase = q
               PROVE  \/ Accepted(b.task) /\ \E c \in CurrentBinding(b.task)' : c.phase = q /\ Current(c)
                      \/ CarriedOut(b.task, q) /\ ~\E c \in CurrentBinding(b.task)' : c.phase = q
    BY <1>1, <1>2, <1>8 DEF NothingLeftBehind, Current
  <2>1. \/ Accepted(b.task) /\ \E c \in CurrentBinding(b.task) : c.phase = q /\ Current(c)
        \/ CarriedOut(b.task, q) /\ ~\E c \in CurrentBinding(b.task) : c.phase = q
    BY DEF WorkInv, NothingLeftBehind
  <2>2. CASE b.task # t
    BY <1>7, <2>1, <2>2
  <2>3. CASE b.task = t
    BY <1>1, <1>2, <1>7, <2>1, <2>3
  <2> QED
    BY <2>2, <2>3
<1> QED
  BY <1>5, <1>6, <1>9 DEF WorkInv

\* invalidate reopens every phase whose receipt counts what it withdraws.
LEMMA InvalidateWork ==
  ASSUME Types, WorkInv, NEW a \in accepted, Invalidate(a)
  PROVE  WorkInv'
<1> DEFINE hit == {<<a.task, a.trev>>} \cup {<<u, task[u].rev>> : u \in Dependents(a.task, a.trev)}
           fallen(u) == <<u, task[u].rev>> \in hit
           status(u) == CASE task[u].status = "COMPLETED" -> "READY"
                          [] task[u].status = "RUNNING" -> IF task[u].pending THEN "WAITING" ELSE "PAUSED"
                          [] OTHER -> task[u].status
<1>1. /\ accepted' = {x \in accepted : <<x.task, x.trev>> \notin hit}
      /\ task' = [u \in Tasks |-> IF ~fallen(u) THEN task[u] ELSE [task[u] EXCEPT !.status = status(u)]]
      /\ phase' = [p \in Phases |-> IF Counting(p, hit) # {} /\ phase[p].state = "COMPLETED"
                                    THEN [phase[p] EXCEPT !.state = "PAUSED"] ELSE phase[p]]
      /\ receipts' = [p \in Phases |-> Withdrawn(receipts[p], Counting(p, hit))]
      /\ UNCHANGED <<bound, carried>>
  BY DEF Invalidate
<1> HIDE DEF hit, status
<1>2. \A u \in Tasks : /\ task'[u].rev = task[u].rev
                       /\ ~fallen(u) => task'[u] = task[u]
  BY <1>1 DEF Types, Tables, TaskRows
<1> HIDE DEF fallen
<1>3. \A p \in Phases : /\ phase'[p].rev = phase[p].rev
                        /\ phase'[p].state = "COMPLETED" => Counting(p, hit) = {} /\ phase[p] = phase'[p]
  BY <1>1 DEF Types, Tables, PhaseRows
<1>4. \A b \in bound : b.task \in Tasks /\ b.phase \in Phases
  BY DEF Types, BindingTypes, BindingRows
<1>5. Bindings'
  BY <1>1, <1>2, <1>4 DEF WorkInv, Bindings
<1>6. ASSUME NEW p \in Phases, phase'[p].state = "COMPLETED"
      PROVE  \E i \in DOMAIN receipts'[p] : /\ CountedIn(p, i)'
               /\ \A m \in receipts[p][i].members : <<m.task, m.trev>> \notin hit
  <2>1. PICK i \in DOMAIN receipts[p] : CountedIn(p, i)
    BY <1>3, <1>6 DEF WorkInv, Counted
  <2>2. /\ i \in DOMAIN receipts'[p] /\ receipts'[p][i].members = receipts[p][i].members
        /\ receipts'[p][i].valid
    <3>1. receipts[p] \in Seq(PhaseReceipts) /\ Counting(p, hit) = {}
      BY <1>3, <1>6 DEF Types, ReceiptTypes
    <3>2. receipts'[p] = Withdrawn(receipts[p], {})
      BY <1>1, <3>1
    <3> QED
      BY <2>1, <3>1, <3>2, PhaseWithdrawn DEF CountedIn
  <2>3. CountedIn(p, i)'
    BY <1>1, <1>2, <1>4, <2>1, <2>2 DEF CountedIn
  <2>4. \A m \in receipts[p][i].members : <<m.task, m.trev>> \notin hit
    BY <1>3, <1>6, <2>1 DEF Counting, CountedIn
  <2> QED
    BY <2>2, <2>3, <2>4
<1>7. Counted'
  BY <1>6 DEF Counted
<1>8. /\ \A u \in Tasks : CurrentBinding(u)' = CurrentBinding(u)
      /\ \A b \in bound : Current(b)' <=> Current(b)
  BY <1>1, <1>2, <1>3, <1>4 DEF CurrentBinding, BindingsOf, Current
<1>9. \A u \in Tasks : \A p : CarriedOut(u, p) => CarriedOut(u, p)'
  <2> SUFFICES ASSUME NEW u \in Tasks, NEW p, CarriedOut(u, p) PROVE CarriedOut(u, p)'
    OBVIOUS
  <2>1. PICK k \in carried : /\ k[1].task = u /\ k[1].phase = p /\ Current(k[1]) /\ task[u].rev >= k[2].trev
    BY DEF CarriedOut
  <2>2. k[1] \in bound
    BY DEF Types, BindingTypes
  <2> QED
    BY <1>1, <1>2, <1>8, <2>1, <2>2 DEF CarriedOut
<1>10. NothingLeftBehind'
  <2> SUFFICES ASSUME NEW p \in Phases, phase'[p].state = "COMPLETED", NEW b \in bound, b.phase = p
               PROVE  \/ Accepted(b.task)' /\ \E c \in CurrentBinding(b.task) : c.phase = p /\ Current(c)
                      \/ CarriedOut(b.task, p)' /\ ~\E c \in CurrentBinding(b.task) : c.phase = p
    <3>1. \A u \in Tasks : CurrentBinding(u) \subseteq bound
      BY DEF CurrentBinding, BindingsOf
    <3> QED
      BY <1>1, <1>4, <1>8, <3>1 DEF NothingLeftBehind
  <2>1. \/ Accepted(b.task) /\ \E c \in CurrentBinding(b.task) : c.phase = p /\ Current(c)
        \/ CarriedOut(b.task, p) /\ ~\E c \in CurrentBinding(b.task) : c.phase = p
    BY <1>3 DEF WorkInv, NothingLeftBehind
  <2>2. CASE CarriedOut(b.task, p) /\ ~\E c \in CurrentBinding(b.task) : c.phase = p
    BY <1>4, <1>9, <2>2
  <2>3. ASSUME Accepted(b.task), NEW c \in CurrentBinding(b.task), c.phase = p
        PROVE  Accepted(b.task)'
    <3>1. PICK i \in DOMAIN receipts'[p] : /\ CountedIn(p, i)'
               /\ \A m \in receipts[p][i].members : <<m.task, m.trev>> \notin hit
      BY <1>6
    <3>2. receipts'[p][i].members = receipts[p][i].members
      <4>1. receipts[p] \in Seq(PhaseReceipts) /\ receipts'[p] = Withdrawn(receipts[p], Counting(p, hit))
        BY <1>1 DEF Types, ReceiptTypes
      <4> QED
        BY <4>1, PhaseWithdrawn
    <3>3. c \in bound /\ c.task = b.task /\ c.trev = task[b.task].rev
      BY <2>3 DEF CurrentBinding, BindingsOf
    <3>4. <<c.task, c.trev>> \notin hit
      BY <1>1, <1>2, <1>4, <2>3, <3>1, <3>2, <3>3 DEF CountedIn
    <3>5. task'[b.task] = task[b.task]
      BY <1>2, <1>4, <3>3, <3>4 DEF fallen
    <3>6. AcceptedAs(b.task, task[b.task].rev) \subseteq accepted'
      BY <1>1, <3>3, <3>4 DEF AcceptedAs
    <3> QED
      BY <2>3, <3>5, <3>6 DEF Accepted, AcceptedAs
  <2> QED
    BY <2>1, <2>2, <2>3
<1> QED
  BY <1>5, <1>7, <1>10 DEF WorkInv

LEMMA WorkInit == Init => WorkInv
BY DEF Init, WorkInv, Bindings, Counted, NothingLeftBehind

LEMMA WorkNext == Types /\ WorkInv /\ [Next]_vars => WorkInv'
<1> SUFFICES ASSUME Types, WorkInv, [Next]_vars PROVE WorkInv'
  OBVIOUS
<1>1. CASE UNCHANGED vars
  BY <1>1, WorkStays DEF vars, taskVars, WorkRows
<1>2. CASE ArtifactNext
  BY <1>2, WorkStays DEF ArtifactNext, Register, Reconcile, Promote, RetireShared, ArtifactStep, taskVars, WorkRows
<1>3. CASE PhaseNext
  <2>1. CASE DefineProject \/ CompleteProject \/ \E p \in Phases : EditPlan(p)
    BY <2>1, WorkStays DEF DefineProject, CompleteProject, EditPlan, taskVars, WorkRows
  <2>2. ASSUME NEW p \in Phases, DefinePhase(p) PROVE WorkInv'
    <3>1. \A q \in Phases : phase'[q].state = "COMPLETED" => phase'[q] = phase[q]
      BY <2>2 DEF DefinePhase, Types, Tables
    <3> QED
      BY <2>2, <3>1, PhaseMoves DEF DefinePhase
  <2>3. ASSUME NEW p \in Phases, ReopenPhase(p) PROVE WorkInv'
    <3>1. \A q \in Phases : phase'[q].state = "COMPLETED" => phase'[q] = phase[q] /\ receipts'[q] = receipts[q]
      BY <2>3 DEF ReopenPhase, Types, Tables, PhaseRows, ReceiptTypes
    <3> QED
      BY <2>3, <3>1, PhaseMoves DEF ReopenPhase
  <2>4. ASSUME NEW p \in Phases, NEW active \in BOOLEAN, SetPhaseActive(p, active) PROVE WorkInv'
    <3>1. \A q \in Phases : phase'[q].state = "COMPLETED" => phase'[q] = phase[q]
      BY <2>4 DEF SetPhaseActive, Types, Tables, PhaseRows
    <3> QED
      BY <2>4, <3>1, PhaseMoves DEF SetPhaseActive
  <2> QED
    BY <1>3, <2>1, <2>2, <2>3, <2>4, CompletePhaseWork DEF PhaseNext
<1>4. CASE TaskNext
  <2>1. ASSUME NEW a \in accepted, Lose(a) PROVE WorkInv'
    BY <2>1, WorkStays DEF Lose, GovernanceUnchanged, WorkRows
  <2>2. ASSUME NEW t \in Tasks, NEW b \in bound, NEW c \in bound, CarryTask(t, b, c) PROVE WorkInv'
    <3>1. \A u \in Tasks : Accepted(u) => Accepted(u)'
      BY <2>2 DEF CarryTask, Accepted, AcceptedAs
    <3> QED
      BY <2>2, <3>1, TasksMove DEF CarryTask, GovernanceUnchanged
  <2>3. ASSUME NEW t \in Tasks, Work(t) \/ Observe(t) \/ PauseRun(t) \/ CancelTask(t) \/ Accept(t) PROVE WorkInv'
    <3>1. \A u \in Tasks : task'[u].rev = task[u].rev
      BY <2>3 DEF Work, Observe, PauseRun, CancelTask, Accept, Types, Tables, TaskRows
    <3>2. \A u \in Tasks : Accepted(u) => task'[u].status = "COMPLETED"
      BY <2>3 DEF Work, Observe, PauseRun, CancelTask, Accept, Types, Tables, TaskRows, Accepted
    <3>3. UNCHANGED <<bound, carried, phase, receipts>> /\ accepted \subseteq accepted'
      BY <2>3 DEF Work, Observe, PauseRun, CancelTask, Accept, TaskStep, GovernanceUnchanged
    <3>4. \A u \in Tasks : Accepted(u) => Accepted(u)'
      BY <3>1, <3>2, <3>3 DEF Accepted, AcceptedAs
    <3> QED
      BY <3>1, <3>3, <3>4, TasksMove
  <2> QED
    BY <1>4, <2>1, <2>2, <2>3, ReviseTaskWork, BindTaskWork, InvalidateWork DEF TaskNext
<1> QED
  BY <1>1, <1>2, <1>3, <1>4 DEF Next

-----------------------------------------------------------------------------
(* Artifacts. *)

\* Nothing moves among the artifacts and no phase is completed.
LEMMA SharedStays ==
  ASSUME SharedInv, UNCHANGED artifactVars,
         \A p \in Phases : phase'[p].state = "COMPLETED" => phase[p].state = "COMPLETED"
  PROVE  SharedInv'
<1>1. /\ \A p : Disposed(p)' <=> Disposed(p)
      /\ Declared' = Declared /\ \A r : Resolved(r)' <=> Resolved(r)
  BY DEF artifactVars, Disposed, Owned, Registered, Declared, Resolved, Target
<1> QED
  BY <1>1 DEF SharedInv, SharedKnown, CompletedIsResolved, Registered, artifactVars

\* complete_phase audits everything that can be reached from what it owns.
LEMMA CompletePhaseShared ==
  ASSUME Types, SharedInv, NEW p \in Phases, CompletePhase(p)
  PROVE  SharedInv'
<1>1. /\ Disposed(p) /\ PhaseReferencesValid(p) /\ UNCHANGED artifactVars
      /\ \A q \in Phases \ {p} : phase'[q] = phase[q]
  BY DEF CompletePhase, Types, Tables
<1>2. /\ \A q : Disposed(q)' <=> Disposed(q)
      /\ Declared' = Declared /\ \A r : Resolved(r)' <=> Resolved(r)
  BY <1>1 DEF artifactVars, Disposed, Owned, Registered, Declared, Resolved, Target
<1>3. ASSUME NEW r \in Declared, Owner[r.from] = p, artifact[r.from] # "ARCHIVE"
      PROVE  Resolved(r)
  <2> DEFINE roots == {a \in Owned(p) : artifact[a] # "ARCHIVE"}
  <2>1. r.from \in roots /\ r.from \in Registered
    BY <1>3 DEF Declared, Owned
  <2>2. r.from \in Closure(roots)
    BY <2>1 DEF Closure
  <2> QED
    BY <1>1, <2>2 DEF PhaseReferencesValid, ReferencesValid
<1>4. CompletedIsResolved'
  BY <1>1, <1>2, <1>3 DEF SharedInv, CompletedIsResolved, artifactVars
<1>5. SharedKnown'
  BY <1>1 DEF SharedInv, SharedKnown, Registered, artifactVars
<1> QED
  BY <1>4, <1>5 DEF SharedInv

\* Only what an active phase owns is decided, nothing is forgotten or comes
\* back from the archive, and a binding names its artifact for good.
LEMMA OwnerDecides ==
  ASSUME Types, SharedInv, NEW a \in Artifacts, OwnerActive(a), UNCHANGED phase,
         artifact[a] # "ARCHIVE", artifact'[a] # None,
         \A b \in Artifacts \ {a} : artifact'[b] = artifact[b],
         \A s \in SharedNames : shared[s] # None => shared'[s] # None /\ shared'[s].artifact = shared[s].artifact
  PROVE  CompletedIsResolved'
<1>1. Registered' = Registered \cup {a}
  BY DEF Registered
<1>2. ASSUME NEW p \in Phases, phase[p].state = "COMPLETED"
      PROVE  Disposed(p)' /\ Owner[a] # p
  <2>1. Owner[a] # p
    BY <1>2 DEF OwnerActive
  <2>2. Owned(p)' = Owned(p) /\ \A b \in Owned(p) : artifact'[b] = artifact[b]
    BY <1>1, <2>1 DEF Owned, Registered
  <2> QED
    BY <1>2, <2>1, <2>2 DEF Disposed, SharedInv, CompletedIsResolved
<1>3. ASSUME NEW r \in Relations, Resolved(r) PROVE Resolved(r)'
  <2>1. r.to \in IF r.form = "shared" THEN SharedNames ELSE Artifacts
    BY ConstantsAssumption
  <2>2. Target(r)' = Target(r)
    <3>1. CASE r.form # "shared"
      BY <3>1 DEF Target
    <3>2. CASE r.form = "shared"
      <4>1. shared[r.to] # None
        BY <1>3, <3>2, NoneAssumption DEF Resolved, Target, Registered
      <4> QED
        BY <2>1, <3>2, <4>1 DEF Target
    <3> QED
      BY <3>1, <3>2
  <2>3. r.form = "archive" => r.to # a /\ artifact'[r.to] = "ARCHIVE"
    BY <1>3, <2>1 DEF Resolved
  <2> QED
    BY <1>1, <1>3, <2>2, <2>3 DEF Resolved
<1>4. ASSUME NEW p \in Phases, phase[p].state = "COMPLETED", NEW r \in Declared',
             Owner[r.from] = p, artifact'[r.from] # "ARCHIVE"
      PROVE  Resolved(r)'
  <2>1. r.from # a /\ r.from \in Registered /\ r \in Relations
    BY <1>1, <1>2, <1>4 DEF Declared
  <2>2. r \in Declared /\ artifact[r.from] # "ARCHIVE"
    BY <1>4, <2>1 DEF Declared, Registered
  <2> QED
    BY <1>3, <1>4, <2>1, <2>2 DEF SharedInv, CompletedIsResolved
<1> QED
  BY <1>2, <1>4 DEF CompletedIsResolved

LEMMA SharedInit == Init => SharedInv
<1> SUFFICES ASSUME Init PROVE SharedInv
  OBVIOUS
<1>1. \A p \in Phases : phase[p].state # "COMPLETED"
  BY DEF Init
<1> QED
  BY <1>1 DEF Init, SharedInv, SharedKnown, CompletedIsResolved

LEMMA ArtifactStepShared ==
  ASSUME Types, SharedInv, ArtifactNext
  PROVE  SharedInv'
<1>1. ASSUME NEW a \in Artifacts, Register(a) PROVE SharedInv'
  <2>1. /\ OwnerActive(a) /\ UNCHANGED <<phase, shared>> /\ artifact[a] # "ARCHIVE"
        /\ artifact'[a] # None /\ \A b \in Artifacts \ {a} : artifact'[b] = artifact[b]
    BY <1>1, NoneAssumption DEF Register, ArtifactStep, Types, ArtifactTypes, Dispositions
  <2>2. SharedKnown'
    BY <2>1 DEF SharedInv, SharedKnown, Registered
  <2> QED
    BY <2>1, <2>2, OwnerDecides DEF SharedInv
<1>2. ASSUME NEW a \in Artifacts, NEW d \in {"UNRESOLVED", "KEEP_OWNED", "ARCHIVE"}, Reconcile(a, d)
      PROVE  SharedInv'
  <2>1. /\ OwnerActive(a) /\ UNCHANGED <<phase, shared>> /\ artifact[a] # "ARCHIVE"
        /\ artifact'[a] # None /\ \A b \in Artifacts \ {a} : artifact'[b] = artifact[b]
    BY <1>2, NoneAssumption DEF Reconcile, ArtifactStep, Types, ArtifactTypes, Dispositions
  <2>2. SharedKnown'
    BY <2>1 DEF SharedInv, SharedKnown, Registered
  <2> QED
    BY <2>1, <2>2, OwnerDecides DEF SharedInv
<1>3. ASSUME NEW a \in Artifacts, NEW s \in SharedNames, NEW acc \in accepted,
             NEW replacing \in SUBSET SharedNames, Promote(a, s, acc, replacing)
      PROVE  SharedInv'
  <2>1. /\ OwnerActive(a) /\ UNCHANGED phase /\ artifact[a] # "ARCHIVE" /\ artifact[a] # None
        /\ artifact'[a] # None /\ \A b \in Artifacts \ {a} : artifact'[b] = artifact[b]
    BY <1>3, NoneAssumption DEF Promote, ArtifactStep, Types, ArtifactTypes, Dispositions
  <2>2. /\ shared[s] = None
        /\ shared' = [x \in SharedNames |->
             IF x = s THEN [artifact |-> a, state |-> "CURRENT", acceptance |-> acc]
             ELSE IF x \in replacing THEN [shared[x] EXCEPT !.state = "SUPERSEDED"] ELSE shared[x]]
        /\ \A x \in replacing : shared[x] # None
    BY <1>3 DEF Promote
  <2>3. \A x \in SharedNames : shared[x] # None => shared[x] \in SharedBindings
    BY DEF Types, ArtifactTypes
  <2>4. \A x \in SharedNames : shared[x] # None =>
          LET w == [shared[x] EXCEPT !.state = "SUPERSEDED"] IN
          w \in SharedBindings /\ w.artifact = shared[x].artifact
    BY <2>3 DEF SharedBindings
  <2>5. \A x \in SharedNames : shared[x] # None => shared'[x] # None /\ shared'[x].artifact = shared[x].artifact
    BY <2>2, <2>4, NoneAssumption
  <2>6. CompletedIsResolved'
    BY <2>1, <2>5, OwnerDecides
  <2>7. SharedKnown'
    <3>1. ASSUME NEW x \in SharedNames, shared'[x] # None
          PROVE  \/ shared'[x].artifact = a
                 \/ shared[x] # None /\ shared'[x].artifact = shared[x].artifact
      <4>1. CASE x = s
        BY <2>2, <4>1
      <4>2. CASE x # s
        <5>1. shared[x] # None
          BY <2>2, <3>1, <4>2
        <5> QED
          BY <2>5, <5>1
      <4> QED
        BY <4>1, <4>2
    <3>2. a \in Registered' /\ Registered \subseteq Registered'
      BY <2>1 DEF Registered
    <3> QED
      BY <3>1, <3>2 DEF SharedInv, SharedKnown
  <2> QED
    BY <2>6, <2>7 DEF SharedInv
<1>4. ASSUME NEW s \in SharedNames, RetireShared(s) PROVE SharedInv'
  <2>1. /\ UNCHANGED <<artifact, phase>> /\ shared[s] # None
        /\ shared' = [shared EXCEPT ![s].state = "RETIRED"]
    BY <1>4 DEF RetireShared, ArtifactStep
  <2>2. shared[s] \in SharedBindings /\ shared \in [SharedNames -> SharedBindings \cup {None}]
    BY <2>1 DEF Types, ArtifactTypes
  <2>3. LET w == [shared[s] EXCEPT !.state = "RETIRED"] IN
        w \in SharedBindings /\ w.artifact = shared[s].artifact /\ w # None
    BY <2>2, NoneAssumption DEF SharedBindings
  <2>4. \A x \in SharedNames : /\ shared'[x] = None <=> shared[x] = None
                               /\ shared[x] # None => shared'[x].artifact = shared[x].artifact
    BY <2>1, <2>2, <2>3
  <2>5. \A r \in Relations : Target(r)' = Target(r)
    BY <2>1, <2>4, ConstantsAssumption DEF Target
  <2>6. Declared' = Declared /\ Declared \subseteq Relations /\ \A r \in Relations : Resolved(r)' <=> Resolved(r)
    BY <2>1, <2>5 DEF Declared, Resolved, Registered
  <2>7. CompletedIsResolved'
    BY <2>1, <2>6 DEF SharedInv, CompletedIsResolved, Disposed, Owned, Registered
  <2>8. SharedKnown'
    BY <2>1, <2>4 DEF SharedInv, SharedKnown, Registered
  <2> QED
    BY <2>7, <2>8 DEF SharedInv
<1> QED
  BY <1>1, <1>2, <1>3, <1>4 DEF ArtifactNext

LEMMA SharedNext == Types /\ SharedInv /\ [Next]_vars => SharedInv'
<1> SUFFICES ASSUME Types, SharedInv, [Next]_vars PROVE SharedInv'
  OBVIOUS
<1>1. CASE UNCHANGED vars
  BY <1>1, SharedStays DEF vars
<1>2. CASE PhaseNext
  <2>1. CASE DefineProject \/ CompleteProject \/ \E p \in Phases : EditPlan(p)
    BY <2>1, SharedStays DEF DefineProject, CompleteProject, EditPlan
  <2>2. ASSUME NEW p \in Phases, NEW active \in BOOLEAN,
               DefinePhase(p) \/ ReopenPhase(p) \/ SetPhaseActive(p, active)
        PROVE  SharedInv'
    <3>1. UNCHANGED artifactVars
      BY <2>2 DEF DefinePhase, ReopenPhase, SetPhaseActive
    <3>2. \A q \in Phases : phase'[q].state = "COMPLETED" => phase[q].state = "COMPLETED"
      BY <2>2 DEF DefinePhase, ReopenPhase, SetPhaseActive, Types, Tables, PhaseRows
    <3> QED
      BY <3>1, <3>2, SharedStays
  <2> QED
    BY <1>2, <2>1, <2>2, CompletePhaseShared DEF PhaseNext
<1>3. CASE TaskNext
  <2>1. ASSUME UNCHANGED <<phase, artifactVars>> PROVE SharedInv'
    BY <2>1, SharedStays
  <2>2. ASSUME NEW t \in Tasks, NEW p \in Phases, BindTask(t, p) PROVE SharedInv'
    BY <2>1, <2>2 DEF BindTask, GovernanceUnchanged
  <2>3. ASSUME NEW t \in Tasks, NEW b \in bound, NEW c \in bound, CarryTask(t, b, c) PROVE SharedInv'
    BY <2>1, <2>3 DEF CarryTask, GovernanceUnchanged
  <2>4. ASSUME NEW t \in Tasks, Work(t) \/ Observe(t) \/ PauseRun(t) \/ CancelTask(t) \/ Accept(t) PROVE SharedInv'
    BY <2>1, <2>4 DEF Work, Observe, PauseRun, CancelTask, Accept, TaskStep, GovernanceUnchanged
  <2>5. ASSUME NEW a \in accepted, Lose(a) PROVE SharedInv'
    BY <2>1, <2>5 DEF Lose, GovernanceUnchanged
  <2>6. ASSUME NEW a \in accepted, Invalidate(a) PROVE SharedInv'
    <3>1. UNCHANGED artifactVars
      BY <2>6 DEF Invalidate
    <3>2. \A q \in Phases : phase'[q].state = "COMPLETED" => phase[q].state = "COMPLETED"
      BY <2>6 DEF Invalidate, Types, Tables, PhaseRows
    <3> QED
      BY <3>1, <3>2, SharedStays
  <2>7. ASSUME NEW t \in Tasks, NEW renew \in BOOLEAN, ReviseTask(t, renew) PROVE SharedInv'
    BY <2>1, <2>7 DEF ReviseTask, GovernanceUnchanged
  <2> QED
    BY <1>3, <2>2, <2>3, <2>4, <2>5, <2>6, <2>7 DEF TaskNext
<1> QED
  BY <1>1, <1>2, <1>3, ArtifactStepShared DEF Next

-----------------------------------------------------------------------------
(* The theorems. *)

LEMMA GovernanceInvHolds == Spec => []GovernanceInv
<1>1. Init => GovernanceInv
  <2> SUFFICES ASSUME Init PROVE GovernanceInv
    OBVIOUS
  <2>1. Listed /\ Issued
    BY DEF Init, Listed, Issued
  <2> QED
    BY <2>1, TypesInit, WorkInit, SharedInit DEF GovernanceInv
<1>2. GovernanceInv /\ [Next]_vars => GovernanceInv'
  BY TypesNext, IssuedNext, ListedNext, WorkNext, SharedNext DEF GovernanceInv
<1> QED
  BY <1>1, <1>2, PTL DEF Spec

\* Type correctness of the tables of governance: every handler keeps the
\* domains of the columns, carried work joins bindings there are, and a shared
\* name stands for a registered artifact.
THEOREM GovernanceTypeOKHolds == Spec => []TypeOK
<1>1. GovernanceInv => TypeOK
  <2> SUFFICES ASSUME GovernanceInv PROVE TypeOK
    OBVIOUS
  <2>1. /\ project \in Nat /\ planIntact \in [Phases -> BOOLEAN]
        /\ phase \in [Phases -> [rev : Nat, of : Nat, state : PhaseStates]]
    BY DEF GovernanceInv, Types, Issued, Tables, PhaseRows
  <2>2. \A t \in Tasks : task[t].status \in
          {"ABSENT", "READY", "RUNNING", "WAITING", "PAUSED", "COMPLETED", "CANCELLED"}
    BY DEF GovernanceInv, Types, Tables, TaskRows, TaskStates
  <2>3. (\A b \in bound : b.task \in Tasks /\ b.phase \in Phases) /\ carried \subseteq bound \X bound
    BY DEF GovernanceInv, Types, BindingTypes, BindingRows
  <2>4. /\ issued \in [Tasks -> Nat] /\ unreadable \subseteq [task : Tasks, trev : Nat, no : Nat]
        /\ \A a \in accepted : a.task \in Tasks /\ a.no <= issued[a.task]
    BY DEF GovernanceInv, Types, Tables, Issued, Acceptances
  <2>5. \A s \in SharedNames : shared[s] # None => shared[s].artifact \in Registered
    BY DEF GovernanceInv, SharedInv, SharedKnown
  <2> QED
    BY <2>1, <2>2, <2>3, <2>4, <2>5 DEF TypeOK
<1> QED
  BY <1>1, GovernanceInvHolds, PTL

\* While verify_project_completion accepts a receipt, every phase and every
\* task there is, defined before or after it, is completed on readable evidence:
\* whatever defines or revises one withdraws the receipts of the project
\* (define_phase, revise_task, reopen_phase, invalidate).
THEOREM VerifiedIsDoneHolds == Spec => []VerifiedIsDone
<1>1. GovernanceInv => VerifiedIsDone
  <2> SUFFICES ASSUME GovernanceInv, NEW i \in DOMAIN projectReceipts, ProjectVerifies(i)
               PROVE  /\ \A p \in Defined : /\ phase[p].state = "COMPLETED" /\ PlanHolds(p)
                                           /\ \E k \in DOMAIN receipts[p] : PhaseVerifies(p, k)
                      /\ \A t \in Known : Accepted(t) /\ Readable(t, task[t].rev)
    BY DEF VerifiedIsDone
  <2>1. ASSUME NEW p \in Defined
        PROVE  \E k \in DOMAIN receipts[p] : PhaseVerifies(p, k)
    <3>1. PICK j \in DOMAIN receipts[p] : <<p, j>> \in projectReceipts[i].phases
      BY DEF GovernanceInv, Listed, ProjectVerifies
    <3>2. PhaseVerifies(<<p, j>>[1], <<p, j>>[2])
      BY <3>1 DEF ProjectVerifies
    <3> QED
      BY <3>2
  <2>2. \A p, k : PhaseVerifies(p, k) => phase[p].state = "COMPLETED" /\ PlanHolds(p)
    BY DEF PhaseVerifies
  <2>3. \A t \in Known : Accepted(t) /\ Readable(t, task[t].rev)
    BY DEF ProjectVerifies, TaskVerifies
  <2> QED
    BY <2>1, <2>2, <2>3
<1> QED
  BY <1>1, GovernanceInvHolds, PTL

\* Every task that was ever bound to a phase that stands completed is accepted
\* there or was carried to another phase: complete_phase demands it, and
\* revise_task, bind_task and invalidate do not take it away without reopening
\* the phase.
THEOREM NothingLeftBehindHolds == Spec => []NothingLeftBehind
<1>1. GovernanceInv => NothingLeftBehind
  BY DEF GovernanceInv, WorkInv
<1> QED
  BY <1>1, GovernanceInvHolds, PTL

\* What a completed phase owns stays decided and its references resolved while
\* other phases register, reconcile, promote and retire: only an active owner
\* decides, an archive is for good and a shared name keeps its artifact.
THEOREM CompletedIsResolvedHolds == Spec => []CompletedIsResolved
<1>1. GovernanceInv => CompletedIsResolved
  BY DEF GovernanceInv, SharedInv
<1> QED
  BY <1>1, GovernanceInvHolds, PTL
=============================================================================
