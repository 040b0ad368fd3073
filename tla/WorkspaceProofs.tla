---------------------------- MODULE WorkspaceProofs ----------------------------
(***************************************************************************)
(* A long workspace never locks itself out, and a transition drops no task *)
(* it has read, for any number of phases, sessions, tasks, actors, edits.  *)
(*                                                                         *)
(* NeverLocked speaks of the bindings a layout checks.  It is inductive    *)
(* once three more things are known: what every write leaves is Valid, so  *)
(* that an open phase means an active one and the kind of the recovery     *)
(* source follows from the topology; the controls agree with the registry; *)
(* and what work on the queues cannot make stale stays fresh in every      *)
(* layout (Soft), because a legacy workspace may be reorganized into the   *)
(* CURRENT one after its queues were worked on.  ReviewedIsCarried needs   *)
(* that a plan whose source is fresh speaks of the queue as it is, so that *)
(* what apply-phase-transition reads under it is covered by the plan; and  *)
(* that it writes back no status over one that another command superseded. *)
(* What a transition writes agrees with the registry if nobody else wrote  *)
(* after it had read: else it overwrote, and NeverLocked says no more.     *)
(***************************************************************************)
EXTENDS Workspace, TLAPS

Kinds == {"ACTIVE_SESSION_CHECKPOINT", "ACTIVE_PHASE_RECOVERY", "PROJECT_RECOVERY",
          "PAUSED_PHASE_RECOVERY", "TERMINAL_PHASE_RECOVERY"}
PhaseOrNone == Phases \cup {None}
SessionRecords == [status : {"absent", "ACTIVE", "CLOSED"}, owner : Actors \cup {None},
                   lapsed : BOOLEAN]
Bindings == [phase : PhaseOrNone, fresh : SUBSET PhaseHashes]
Recoveries == [kind : Kinds, phase : PhaseOrNone, session : Sessions \cup {None},
               fresh : SUBSET SourceHashes]
States == [schema : Schemas, profile : Profiles, status : [Phases -> PhaseStatus],
           active : PhaseOrNone, session : Sessions \cup {None},
           sessions : [Sessions -> SessionRecords], tasks : [Tasks -> PhaseOrNone],
           binding : Bindings, recovery : Recoveries]
Documents == [status : [Phases -> PhaseStatus], index : PhaseOrNone,
              rows : [Phases -> SUBSET Tasks], indexed : SUBSET Phases,
              unresolved : SUBSET Phases, damaged : SUBSET Tasks]
Plans == [source : PhaseOrNone, target : PhaseOrNone, was : PhaseStatus,
          carry : SUBSET Tasks, disposed : SUBSET Tasks, fresh : SUBSET PlanHashes]

Applications == [plan : Plans, state : States,
                 control : [rows : SUBSET Tasks, indexed : BOOLEAN, unclear : BOOLEAN],
                 alone : BOOLEAN]

Shape == /\ state \in States /\ docs \in Documents /\ plan \in Plans
         /\ overwrote \in BOOLEAN /\ edits \in Nat /\ work \in Nat

\* The controls say what the registry says, unless a transition overwrote.
SaysSame(w, d) == d.status = w.status /\ d.index = w.active
Agree(w, d) == overwrote \/ SaysSame(w, d)

\* What only an edit of a record makes stale.
Soft(w) ==
  /\ w.active # None => {"boundary", "review", "record"} \subseteq w.binding.fresh
  /\ w.recovery.kind \notin {"ACTIVE_PHASE_RECOVERY", "TERMINAL_PHASE_RECOVERY"} =>
       "control" \in w.recovery.fresh
Fresh(w) == /\ w.active # None => w.binding.fresh = PhaseHashes
            /\ w.recovery.fresh = SourceHashes

\* A plan with a fresh source accounts for every row of it.
PlanCovers ==
  "source" \in plan.fresh =>
    /\ plan.source \in Phases /\ plan.target \in Phases
    /\ docs.rows[plan.source] \subseteq plan.carry \cup plan.disposed

\* A transition that is being applied covers the queue that it read, knows of no
\* supersession but what the registry still says, and while it is alone with the
\* workspace has read what the controls say.
ApplyingInv ==
  applying # None =>
    /\ applying \in Applications
    /\ applying.plan.source \in Phases /\ applying.plan.target \in Phases
    /\ applying.control.rows \subseteq applying.plan.carry \cup applying.plan.disposed
    /\ \A p \in Phases :
         applying.state.status[p] = "SUPERSEDED" => state.status[p] = "SUPERSEDED"
    /\ applying.alone => SaysSame(applying.state, docs)

BindingsInv ==
  /\ Shape
  /\ Valid(state)
  /\ Agree(state, docs)
  /\ edits = 0 => Soft(state) /\ docs.damaged = {}
  /\ edits = 0 /\ work = 0 /\ state.schema # 5 => Fresh(state)
  /\ PlanCovers

WorkspaceInv == BindingsInv /\ ApplyingInv

\* What ReviewedIsCarried says of one step.
Carries ==
  \A p \in Phases :
    state.status[p] # "SUPERSEDED" /\ state'.status[p] = "SUPERSEDED" =>
      applying.control.rows
        \subseteq docs'.rows[applying.plan.target] \cup applying.plan.disposed

\* Invariant and step at once: no phase is superseded but by the step itself.
Keeps == WorkspaceInv' /\ Carries

LEMMA NoPlanShape == NoPlan \in Plans /\ "source" \notin NoPlan.fresh
BY DEF NoPlan, Plans, PhaseOrNone, PhaseStatus, PlanHashes

LEMMA InitKeeps == Init => WorkspaceInv
<1> SUFFICES ASSUME Init PROVE WorkspaceInv
  OBVIOUS
<1>1. Shape
  <2>1. state \in States
    BY FirstAssumption
    DEF Init, States, Schemas, Profiles, PhaseStatus, PhaseOrNone, NoSession, SessionRecords,
        Bindings, Recoveries, Kinds, PhaseHashes, SourceHashes
  <2>2. docs \in Documents
    BY FirstAssumption DEF Init, Documents, PhaseStatus, PhaseOrNone
  <2>3. plan = NoPlan /\ overwrote = FALSE /\ edits = 0 /\ work = 0
    BY ZenonT(20) DEF Init
  <2> QED
    BY <2>1, <2>2, <2>3, NoPlanShape DEF Shape
<1>2. Valid(state)
  BY FirstAssumption DEF Init, Valid, OpenPhases, RecoveryFits, NoSession
<1>3. /\ Agree(state, docs) /\ Soft(state) /\ docs.damaged = {} /\ Fresh(state)
  BY DEF Init, Agree, SaysSame, Soft, Fresh, PhaseHashes, SourceHashes
<1>4. PlanCovers /\ ApplyingInv
  BY NoPlanShape DEF Init, PlanCovers, ApplyingInv
<1> QED
  BY <1>1, <1>2, <1>3, <1>4 DEF WorkspaceInv, BindingsInv

LEMMA SourceShape ==
  ASSUME NEW w \in States, NEW terminal \in PhaseOrNone
  PROVE  Source(w, terminal) \in Recoveries /\ Source(w, terminal).fresh = SourceHashes
BY DEF Source, States, Recoveries, Kinds, PhaseOrNone, SourceHashes

-----------------------------------------------------------------------------
(* The two ways to write. *)

\* A command that finalizes renews every binding.
LEMMA FinalizeKeeps ==
  ASSUME WorkspaceInv,
         NEW w \in States, NEW d \in Documents, NEW written, NEW terminal \in PhaseOrNone,
         Finalize(w, d, written, terminal),
         overwrote' \in BOOLEAN, overwrote' \/ SaysSame(w, d),
         edits = 0 => d.damaged = {}, UNCHANGED <<edits, work>>
  PROVE  BindingsInv' /\ state'.status = w.status /\ docs' = d
<1> DEFINE binding == IF w.active = None THEN NoBinding
                      ELSE [phase |-> w.active, fresh |-> PhaseHashes]
           f == [w EXCEPT !.recovery = Source(w, terminal), !.binding = binding]
<1>1. state' = f /\ docs' = d /\ plan' = NoPlan /\ Valid(f)
  BY DEF Finalize, Overtaken
<1>2. binding \in Bindings /\ (w.active # None => binding.fresh = PhaseHashes)
  BY DEF Bindings, NoBinding, PhaseOrNone, PhaseHashes, States
<1>3. Source(w, terminal) \in Recoveries /\ Source(w, terminal).fresh = SourceHashes
  BY SourceShape
<1> HIDE DEF binding
<1>4. /\ f \in States /\ f.status = w.status /\ f.active = w.active
      /\ f.binding = binding /\ f.recovery = Source(w, terminal)
  BY <1>2, <1>3 DEF States
<1> HIDE DEF f
<1>5. Fresh(f)
  BY <1>2, <1>3, <1>4 DEF Fresh
<1>6. Soft(f)
  BY <1>5 DEF Fresh, Soft, PhaseHashes, SourceHashes
<1>7. Shape'
  BY <1>1, <1>4, NoPlanShape DEF Shape, WorkspaceInv, BindingsInv
<1>8. PlanCovers'
  BY <1>1, NoPlanShape DEF PlanCovers
<1>9. Agree(state, docs)'
  BY <1>1, <1>4 DEF Agree, SaysSame
<1> QED
  BY <1>1, <1>4, <1>5, <1>6, <1>7, <1>8, <1>9 DEF WorkspaceInv, BindingsInv

\* A plain write loses the hash of a control at most: beside an active phase,
\* and in the CURRENT layout, that hash is not checked.
LEMMA PlainKeeps ==
  ASSUME WorkspaceInv,
         NEW w \in States, NEW d \in Documents, NEW written \in SUBSET Phases,
         WritePlain(w, d, written),
         Agree(w, d), edits = 0 => d.damaged = {} /\ Soft(w),
         w.schema = 5, written = {} \/ w.active # None,
         UNCHANGED <<overwrote, edits, work>>
  PROVE  BindingsInv' /\ state'.status = w.status /\ docs' = d
<1> DEFINE b == IF w.binding.phase \in written THEN w.binding.fresh \ {"control"}
                ELSE w.binding.fresh
           r == IF w.recovery.session = None
                THEN IF w.recovery.phase \in written THEN w.recovery.fresh \ {"control"}
                     ELSE w.recovery.fresh
                ELSE w.recovery.fresh
           f == [w EXCEPT !.binding.fresh = b, !.recovery.fresh = r]
<1>1. state' = f /\ docs' = d /\ plan' = NoPlan /\ Valid(f)
  BY DEF WritePlain, Overtaken
<1>2. /\ b \in SUBSET PhaseHashes /\ r \in SUBSET SourceHashes
      /\ w.binding.fresh \subseteq b \cup {"control"}
      /\ written = {} \/ w.recovery.session # None => r = w.recovery.fresh
  BY DEF States, Bindings, Recoveries
<1> HIDE DEF b, r
<1>3. /\ f \in States /\ f.status = w.status /\ f.active = w.active /\ f.schema = 5
      /\ f.binding.fresh = b /\ f.recovery.fresh = r
      /\ f.recovery.kind = w.recovery.kind /\ f.recovery.session = w.recovery.session
      /\ f.session = w.session
  BY <1>2 DEF States, Bindings, Recoveries
<1> HIDE DEF f
<1>4. edits = 0 => Soft(f)
  <2> SUFFICES ASSUME edits = 0 PROVE Soft(f)
    OBVIOUS
  <2>1. w.active # None => {"boundary", "review", "record"} \subseteq b
    BY <1>2 DEF Soft
  <2>2. ASSUME w.recovery.kind \notin {"ACTIVE_PHASE_RECOVERY", "TERMINAL_PHASE_RECOVERY"}
        PROVE  "control" \in r
    <3>1. w.active # None => w.recovery.session # None
      BY <1>1, <1>3, <2>2 DEF Valid, RecoveryFits
    <3> QED
      BY <3>1, <1>2, <2>2 DEF Soft
  <2> QED
    BY <1>3, <2>1, <2>2 DEF Soft
<1>5. Shape'
  BY <1>1, <1>3, NoPlanShape DEF Shape, WorkspaceInv, BindingsInv
<1>6. PlanCovers'
  BY <1>1, NoPlanShape DEF PlanCovers
<1>7. Agree(state, docs)'
  BY <1>1, <1>3 DEF Agree, SaysSame
<1> QED
  BY <1>1, <1>3, <1>4, <1>5, <1>6, <1>7 DEF WorkspaceInv, BindingsInv

\* What is known where a command starts.
LEMMA Topology ==
  ASSUME WorkspaceInv
  PROVE  /\ \A p \in Phases : state.status[p] = "ACTIVE" <=> p = state.active
         /\ state.profile = "resource_admission" => state.schema = 5
         /\ \A p \in Phases : state.status[p] = "OPEN" =>
              state.schema = 5 /\ state.active # None
BY DEF WorkspaceInv, BindingsInv, Valid, OpenPhases

\* A command beside a transition supersedes nobody, and is known to it.
LEMMA BesideKeeps ==
  ASSUME WorkspaceInv, Beside,
         \A p \in Phases : state'.status[p] = "SUPERSEDED" <=> state.status[p] = "SUPERSEDED"
  PROVE  ApplyingInv' /\ Carries
<1>1. ApplyingInv'
  <2> SUFFICES ASSUME applying' # None PROVE ApplyingInv'
    BY DEF ApplyingInv
  <2>1. applying # None /\ applying' = [applying EXCEPT !.alone = FALSE]
    BY DEF Beside
  <2>2. /\ applying' \in Applications /\ applying'.alone = FALSE
        /\ applying'.plan = applying.plan /\ applying'.state = applying.state
        /\ applying'.control = applying.control
    BY <2>1 DEF WorkspaceInv, ApplyingInv, Applications
  <2> QED
    BY <2>1, <2>2 DEF WorkspaceInv, ApplyingInv
<1> QED
  BY <1>1 DEF Carries

\* So is a step that leaves registry and controls as they are.
LEMMA ApartKeeps ==
  ASSUME WorkspaceInv, UNCHANGED applying, state'.status = state.status,
         docs'.status = docs.status, docs'.index = docs.index
  PROVE  ApplyingInv' /\ Carries
BY DEF WorkspaceInv, ApplyingInv, SaysSame, Carries

\* Finalize and WritePlain where the registry only takes one status.
LEMMA FinalizeOne ==
  ASSUME WorkspaceInv,
         NEW w \in States, NEW d \in Documents, NEW written, NEW terminal \in PhaseOrNone,
         Finalize(w, d, written, terminal),
         Agree(w, d), edits = 0 => d.damaged = {}, Beside,
         \A p \in Phases : w.status[p] = "SUPERSEDED" <=> state.status[p] = "SUPERSEDED"
  PROVE  Keeps
<1>1. /\ UNCHANGED <<overwrote, edits, work>> /\ overwrote' \in BOOLEAN
      /\ overwrote' \/ SaysSame(w, d)
  BY DEF Beside, Agree, WorkspaceInv, BindingsInv, Shape
<1>2. BindingsInv' /\ state'.status = w.status
  BY <1>1, FinalizeKeeps
<1> QED
  BY <1>2, BesideKeeps DEF Keeps, WorkspaceInv

LEMMA PlainOne ==
  ASSUME WorkspaceInv,
         NEW w \in States, NEW d \in Documents, NEW written \in SUBSET Phases,
         WritePlain(w, d, written),
         Agree(w, d), edits = 0 => d.damaged = {} /\ Soft(w), Beside,
         w.schema = 5, written = {} \/ w.active # None,
         \A p \in Phases : w.status[p] = "SUPERSEDED" <=> state.status[p] = "SUPERSEDED"
  PROVE  Keeps
<1>1. UNCHANGED <<overwrote, edits, work>>
  BY DEF Beside
<1>2. BindingsInv' /\ state'.status = w.status
  BY <1>1, PlainKeeps
<1> QED
  BY <1>2, BesideKeeps DEF Keeps, WorkspaceInv

-----------------------------------------------------------------------------
(* The commands that write a phase. *)

LEMMA OpenPhaseKeeps == ASSUME WorkspaceInv, NEW p \in Phases, OpenPhase(p) PROVE Keeps
<1> DEFINE st == IF state.active = None THEN "ACTIVE" ELSE "OPEN"
           w == StatusSet(state, p, st)
           d == [docs EXCEPT !.status[p] = st,
                             !.indexed = IF state.schema \in Bound THEN @ \cup {p} ELSE @]
<1> USE DEF WorkspaceInv, BindingsInv, Shape
<1>1. st \in {"ACTIVE", "OPEN"} /\ st \in PhaseStatus /\ state.status[p] # "SUPERSEDED"
  BY DEF PhaseStatus, OpenPhase
<1>2. CASE st = "OPEN"
  <2>1. state.active # None /\ state.schema = 5 /\ WritePlain(w, d, {}) /\ Beside
    BY <1>2, Topology DEF OpenPhase
  <2> HIDE DEF st
  <2>2. w \in States /\ d \in Documents /\ Agree(w, d) /\ d.damaged = docs.damaged
    BY <1>1 DEF States, Documents, Agree, SaysSame, StatusSet
  <2>3. w.schema = 5 /\ (edits = 0 => Soft(w))
    BY <2>1 DEF States, StatusSet, Soft
  <2>4. \A q \in Phases : w.status[q] = "SUPERSEDED" <=> state.status[q] = "SUPERSEDED"
    BY <1>1 DEF States, StatusSet
  <2> HIDE DEF w, d
  <2> QED
    BY <2>1, <2>2, <2>3, <2>4, PlainOne
<1>3. CASE st = "ACTIVE"
  <2> DEFINE v == [w EXCEPT !.active = p]
             e == [d EXCEPT !.index = p]
  <2>1. Finalize(v, e, {}, None) /\ Beside
    BY <1>3 DEF OpenPhase
  <2> HIDE DEF st
  <2>2. v \in States /\ e \in Documents /\ Agree(v, e) /\ e.damaged = docs.damaged
    BY <1>1 DEF States, Documents, Agree, SaysSame, StatusSet, PhaseOrNone
  <2>3. \A q \in Phases : v.status[q] = "SUPERSEDED" <=> state.status[q] = "SUPERSEDED"
    BY <1>1 DEF States, StatusSet
  <2>4. None \in PhaseOrNone
    BY DEF PhaseOrNone
  <2> HIDE DEF v, e
  <2> QED
    BY <2>1, <2>2, <2>3, <2>4, FinalizeOne
<1> QED
  BY <1>1, <1>2, <1>3

LEMMA LeaveKeeps ==
  ASSUME WorkspaceInv, NEW p \in Phases, NEW st \in {"DONE", "FAILED", "PAUSED"},
         NEW x \in Documents, Agree(state, x), x.damaged = docs.damaged,
         state.status[p] \in {"ACTIVE", "OPEN"}, Leave(p, st, x)
  PROVE  Keeps
<1> DEFINE w == StatusSet(state, p, st)
           left == [x EXCEPT !.status[p] = st]
<1> USE DEF WorkspaceInv, BindingsInv, Shape
<1>1. st \in PhaseStatus /\ st # "SUPERSEDED" /\ state.status[p] # "SUPERSEDED"
  BY DEF PhaseStatus, Terminal
<1>2. CASE Primary(p)
  <2> DEFINE v == [w EXCEPT !.active = None]
             e == [left EXCEPT !.index = None]
  <2>1. Finalize(v, e, {p}, p) /\ Beside
    BY <1>2 DEF Leave
  <2>2. v \in States /\ e \in Documents /\ Agree(v, e) /\ e.damaged = docs.damaged
    BY <1>1 DEF States, Documents, Agree, SaysSame, StatusSet, PhaseOrNone
  <2>3. \A q \in Phases : v.status[q] = "SUPERSEDED" <=> state.status[q] = "SUPERSEDED"
    BY <1>1 DEF States, StatusSet
  <2>4. p \in PhaseOrNone
    BY DEF PhaseOrNone
  <2> HIDE DEF v, e
  <2> QED
    BY <2>1, <2>2, <2>3, <2>4, FinalizeOne
<1>3. CASE ~Primary(p)
  <2>1. WritePlain(w, left, {p}) /\ Beside
    BY <1>3 DEF Leave
  <2>2. state.schema = 5 /\ state.active # None
    BY <1>3, Topology DEF Primary
  <2>3. w \in States /\ left \in Documents /\ Agree(w, left) /\ left.damaged = docs.damaged
    BY <1>1 DEF States, Documents, Agree, SaysSame, StatusSet
  <2>4. w.schema = 5 /\ w.active # None /\ (edits = 0 => Soft(w))
    BY <2>2 DEF States, StatusSet, Soft
  <2>5. \A q \in Phases : w.status[q] = "SUPERSEDED" <=> state.status[q] = "SUPERSEDED"
    BY <1>1 DEF States, StatusSet
  <2> HIDE DEF w, left
  <2> QED
    BY <2>1, <2>3, <2>4, <2>5, PlainOne
<1> QED
  BY <1>2, <1>3

LEMMA ClosePhaseKeeps ==
  ASSUME WorkspaceInv, NEW p \in Phases, NEW st \in {"DONE", "FAILED"}, ClosePhase(p, st)
  PROVE  Keeps
BY LeaveKeeps DEF ClosePhase, MayLeave, WorkspaceInv, BindingsInv, Shape

LEMMA PausePhaseKeeps == ASSUME WorkspaceInv, NEW p \in Phases, PausePhase(p) PROVE Keeps
<1> DEFINE x == [docs EXCEPT !.unresolved = @ \ {p}]
<1>1. x \in Documents /\ Agree(state, x) /\ x.damaged = docs.damaged
  BY DEF WorkspaceInv, BindingsInv, Shape, Documents, Agree, SaysSame
<1>2. state.status[p] \in {"ACTIVE", "OPEN"} /\ Leave(p, "PAUSED", x)
  BY DEF PausePhase, MayLeave
<1> HIDE DEF x
<1> QED
  BY <1>1, <1>2, LeaveKeeps

LEMMA ResumePhaseKeeps == ASSUME WorkspaceInv, NEW p \in Phases, ResumePhase(p) PROVE Keeps
<1> DEFINE st == IF state.active = None THEN "ACTIVE" ELSE "OPEN"
           w == StatusSet(state, p, st)
           d == [docs EXCEPT !.status[p] = st]
<1> USE DEF WorkspaceInv, BindingsInv, Shape
<1>1. st \in {"ACTIVE", "OPEN"} /\ st \in PhaseStatus /\ state.status[p] # "SUPERSEDED"
  BY DEF PhaseStatus, ResumePhase
<1>2. CASE st = "OPEN"
  <2>1. state.active # None /\ state.schema = 5 /\ WritePlain(w, d, {p}) /\ Beside
    BY <1>2, Topology DEF ResumePhase
  <2> HIDE DEF st
  <2>2. w \in States /\ d \in Documents /\ Agree(w, d) /\ d.damaged = docs.damaged
    BY <1>1 DEF States, Documents, Agree, SaysSame, StatusSet
  <2>3. w.schema = 5 /\ w.active # None /\ (edits = 0 => Soft(w))
    BY <2>1 DEF States, StatusSet, Soft
  <2>4. \A q \in Phases : w.status[q] = "SUPERSEDED" <=> state.status[q] = "SUPERSEDED"
    BY <1>1 DEF States, StatusSet
  <2> HIDE DEF w, d
  <2> QED
    BY <2>1, <2>2, <2>3, <2>4, PlainOne
<1>3. CASE st = "ACTIVE"
  <2> DEFINE v == [w EXCEPT !.active = p]
             e == [d EXCEPT !.index = p]
  <2>1. Finalize(v, e, {p}, None) /\ Beside
    BY <1>3 DEF ResumePhase
  <2> HIDE DEF st
  <2>2. v \in States /\ e \in Documents /\ Agree(v, e) /\ e.damaged = docs.damaged
    BY <1>1 DEF States, Documents, Agree, SaysSame, StatusSet, PhaseOrNone
  <2>3. \A q \in Phases : v.status[q] = "SUPERSEDED" <=> state.status[q] = "SUPERSEDED"
    BY <1>1 DEF States, StatusSet
  <2>4. None \in PhaseOrNone
    BY DEF PhaseOrNone
  <2> HIDE DEF v, e
  <2> QED
    BY <2>1, <2>2, <2>3, <2>4, FinalizeOne
<1> QED
  BY <1>1, <1>2, <1>3

LEMMA RecordReviewKeeps ==
  ASSUME WorkspaceInv, NEW p \in Phases, NEW unclear \in BOOLEAN, RecordReview(p, unclear)
  PROVE  Keeps
<1> DEFINE d == [docs EXCEPT !.unresolved = IF unclear THEN @ \cup {p} ELSE @ \ {p}]
           terminal == IF state.active = None THEN p ELSE None
<1> USE DEF WorkspaceInv, BindingsInv, Shape
<1>1. d \in Documents /\ Agree(state, d) /\ d.damaged = docs.damaged
  BY DEF Documents, Agree, SaysSame
<1>2. terminal \in PhaseOrNone
  BY DEF PhaseOrNone
<1>3. \/ state.schema = 5 /\ state.active # None /\ WritePlain(state, d, {p})
      \/ Finalize(state, d, {p}, terminal)
  BY DEF RecordReview
<1>4. Beside
  BY DEF RecordReview
<1> HIDE DEF d, terminal
<1>5. CASE state.schema = 5 /\ state.active # None /\ WritePlain(state, d, {p})
  BY <1>1, <1>4, <1>5, PlainOne
<1>6. CASE Finalize(state, d, {p}, terminal)
  BY <1>1, <1>2, <1>4, <1>6, FinalizeOne
<1> QED
  BY <1>3, <1>5, <1>6

\* A write that leaves registry and controls as they are.
LEMMA FinalizeSame ==
  ASSUME WorkspaceInv, NEW written, NEW terminal \in PhaseOrNone,
         Finalize(state, docs, written, terminal), Beside
  PROVE  Keeps
BY FinalizeOne DEF WorkspaceInv, BindingsInv, Shape

LEMMA MigrateControlKeeps == ASSUME WorkspaceInv, NEW p \in Phases, MigrateControl(p) PROVE Keeps
<1> DEFINE d == [docs EXCEPT !.index = state.active]
<1> USE DEF WorkspaceInv, BindingsInv, Shape
<1>1. d \in Documents /\ Agree(state, d) /\ d.damaged = docs.damaged
  BY DEF States, Documents, Agree, SaysSame
<1>2. (IF state.active = None THEN p ELSE None) \in PhaseOrNone
  BY DEF PhaseOrNone
<1>3. Finalize(state, d, {p}, IF state.active = None THEN p ELSE None) /\ Beside
  BY DEF MigrateControl
<1> HIDE DEF d
<1> QED
  BY <1>1, <1>2, <1>3, FinalizeOne

LEMMA RepairKeeps ==
  ASSUME WorkspaceInv, Reconcile \/ Rebind \/ \E a \in Actors : AmendBoundary(a)
  PROVE  Keeps
<1>1. None \in PhaseOrNone /\ state.recovery.phase \in PhaseOrNone
  BY DEF PhaseOrNone, WorkspaceInv, BindingsInv, Shape, States, Recoveries
<1>2. CASE Reconcile
  BY <1>1, <1>2, FinalizeSame DEF Reconcile
<1>3. CASE Rebind
  BY <1>1, <1>3, FinalizeSame DEF Rebind
<1>4. CASE \E a \in Actors : AmendBoundary(a)
  BY <1>1, <1>4, FinalizeSame DEF AmendBoundary
<1> QED
  BY <1>2, <1>3, <1>4

-----------------------------------------------------------------------------
(* The transition plan: written by one command, applied by another. *)

LEMMA PlanTransitionKeeps ==
  ASSUME WorkspaceInv, NEW p \in Phases, NEW q \in Phases, NEW carry \in SUBSET Tasks,
         PlanTransition(p, q, carry)
  PROVE  Keeps
<1> USE DEF WorkspaceInv, BindingsInv, Shape
<1>1. plan' \in Plans
  BY DEF PlanTransition, Plans, PhaseOrNone, States, Documents, PlanHashes
<1>2. PlanCovers'
  BY DEF PlanTransition, PlanCovers, Documents
<1>3. UNCHANGED <<state, docs, applying, overwrote, edits, work>>
  BY DEF PlanTransition
<1>4. ApplyingInv' /\ Carries
  BY <1>3, ApartKeeps
<1> QED
  BY <1>1, <1>2, <1>3, <1>4 DEF Keeps, Agree, SaysSame

\* Under a plan whose source is fresh, what is read of the queue is covered.
LEMMA ReadTransitionKeeps == ASSUME WorkspaceInv, ReadTransition PROVE Keeps
<1> DEFINE p == plan.source
           c == Control(p)
<1> USE DEF WorkspaceInv, BindingsInv, Shape
<1>1. "source" \in plan.fresh
  BY DEF ReadTransition, PlanHolds, PlanHashes
<1>2. /\ plan.source \in Phases /\ plan.target \in Phases
      /\ docs.rows[p] \subseteq plan.carry \cup plan.disposed
  BY <1>1 DEF PlanCovers
<1>3. /\ applying' = [plan |-> plan, state |-> state, control |-> c, alone |-> TRUE]
      /\ UNCHANGED <<state, docs, plan, overwrote, edits, work>> /\ Structural
  BY DEF ReadTransition, Consistent, Undrifted
<1>4. /\ c \in [rows : SUBSET Tasks, indexed : BOOLEAN, unclear : BOOLEAN]
      /\ c.rows = docs.rows[p]
  BY <1>2 DEF Control, Documents
<1> HIDE DEF c
<1>5. applying' \in Applications
  BY <1>3, <1>4 DEF Applications
<1>6. ApplyingInv'
  BY <1>2, <1>3, <1>4, <1>5 DEF ApplyingInv, SaysSame, Structural
<1>7. Carries
  BY <1>3 DEF Carries
<1> QED
  BY <1>3, <1>6, <1>7 DEF Keeps, PlanCovers, Agree, SaysSame

\* What it writes is computed from what it read.
LEMMA WriteTransitionKeeps == ASSUME WorkspaceInv, WriteTransition PROVE Keeps
<1> DEFINE p == applying.plan.source
           q == applying.plan.target
           c == applying.control
           w == [applying.state EXCEPT !.status[p] = "SUPERSEDED", !.status[q] = "ACTIVE",
                                       !.active = q]
           d == [docs EXCEPT !.status[p] = "SUPERSEDED", !.status[q] = "ACTIVE", !.index = q,
                   !.rows[p] = c.rows, !.rows[q] = applying.plan.carry,
                   !.unresolved = With(@, p, c.unclear),
                   !.indexed = With(@, p, c.indexed)
                               \cup (IF w.schema \in Bound THEN {q} ELSE {})]
<1> USE DEF WorkspaceInv, BindingsInv, Shape
<1>1. /\ applying # None /\ Finalize(w, d, {p}, None) /\ applying' = None
      /\ overwrote' = (overwrote \/ ~applying.alone) /\ UNCHANGED <<edits, work>>
  BY DEF WriteTransition
<1>2. /\ applying.plan \in Plans /\ applying.state \in States
      /\ c \in [rows : SUBSET Tasks, indexed : BOOLEAN, unclear : BOOLEAN]
      /\ applying.alone \in BOOLEAN
  BY <1>1 DEF ApplyingInv, Applications
<1>3. /\ p \in Phases /\ q \in Phases
      /\ c.rows \subseteq applying.plan.carry \cup applying.plan.disposed
      /\ \A x \in Phases :
           applying.state.status[x] = "SUPERSEDED" => state.status[x] = "SUPERSEDED"
      /\ applying.alone => SaysSame(applying.state, docs)
  BY <1>1 DEF ApplyingInv
<1>4. applying.plan.carry \in SUBSET Tasks
  BY <1>2 DEF Plans
<1> HIDE DEF p, q, c
<1>5. w \in States
  BY <1>2, <1>3 DEF States, PhaseOrNone, PhaseStatus, Terminal
<1>6. d \in Documents /\ d.damaged = docs.damaged /\ d.rows[q] = applying.plan.carry
  BY <1>2, <1>3, <1>4 DEF Documents, With, PhaseOrNone, PhaseStatus, Terminal
<1>7. applying.alone => SaysSame(w, d)
  BY <1>2, <1>3 DEF SaysSame, States, Documents
<1>8. \A x \in Phases : w.status[x] = "SUPERSEDED" => x = p \/ state.status[x] = "SUPERSEDED"
  BY <1>2, <1>3 DEF States
<1>9. None \in PhaseOrNone /\ overwrote' \in BOOLEAN /\ (overwrote' \/ applying.alone)
  BY <1>1, <1>2 DEF PhaseOrNone
<1> HIDE DEF w, d
<1>10. BindingsInv' /\ state'.status = w.status /\ docs' = d
  BY <1>1, <1>5, <1>6, <1>7, <1>9, FinalizeKeeps
<1>11. Carries
  BY <1>3, <1>6, <1>8, <1>10 DEF Carries, p, q, c
<1>12. ApplyingInv'
  BY <1>1 DEF ApplyingInv
<1> QED
  BY <1>10, <1>11, <1>12 DEF Keeps

LEMMA QuitTransitionKeeps == ASSUME WorkspaceInv, QuitTransition PROVE Keeps
BY DEF QuitTransition, Keeps, Carries, WorkspaceInv, BindingsInv, ApplyingInv, Shape, Agree,
       SaysSame, PlanCovers

-----------------------------------------------------------------------------
(* Sessions, results and reorganization. *)

LEMMA SessionKeeps ==
  ASSUME WorkspaceInv,
         CloseSession \/ \E a \in Actors : \/ \E s \in Sessions : OpenSession(s, a)
                                          \/ \E b \in Actors : TransferLease(a, b)
  PROVE  Keeps
<1> USE DEF WorkspaceInv, BindingsInv, Shape
<1>1. None \in PhaseOrNone
  BY DEF PhaseOrNone
<1>2. CASE CloseSession
  <2> DEFINE w == [state EXCEPT !.session = None,
                     !.sessions[state.session] = [NoSession EXCEPT !.status = "CLOSED"]]
  <2>1. Finalize(w, docs, {}, None) /\ Beside
    BY <1>2 DEF CloseSession
  <2>2. [NoSession EXCEPT !.status = "CLOSED"] \in SessionRecords
    BY DEF NoSession, SessionRecords
  <2>3. w \in States /\ Agree(w, docs) /\ w.status = state.status
    BY <2>2 DEF States, Agree, SaysSame
  <2> HIDE DEF w
  <2> QED
    BY <1>1, <2>1, <2>3, FinalizeOne
<1>3. ASSUME NEW a \in Actors, NEW s \in Sessions, OpenSession(s, a)
      PROVE  Keeps
  <2> DEFINE w == [state EXCEPT !.session = s,
                     !.sessions[s] = [status |-> "ACTIVE", owner |-> a, lapsed |-> FALSE]]
  <2>1. Finalize(w, docs, {}, None) /\ Beside
    BY <1>3 DEF OpenSession
  <2>2. w \in States /\ Agree(w, docs) /\ w.status = state.status
    BY DEF States, Agree, SaysSame, SessionRecords
  <2> HIDE DEF w
  <2> QED
    BY <1>1, <2>1, <2>2, FinalizeOne
<1>4. ASSUME NEW a \in Actors, NEW b \in Actors, TransferLease(a, b)
      PROVE  Keeps
  <2> DEFINE s == state.session
             lease == [state.sessions[s] EXCEPT !.owner = b, !.lapsed = FALSE]
             w == [state EXCEPT !.sessions[s] = lease]
  <2>1. Finalize(w, docs, {}, None) /\ Beside /\ s \in Sessions
    BY <1>4 DEF TransferLease, States
  <2>2. state.sessions[s] \in SessionRecords
    BY <2>1 DEF States
  <2>3. lease \in SessionRecords
    BY <2>2 DEF SessionRecords
  <2> HIDE DEF lease
  <2>4. w \in States /\ Agree(w, docs) /\ w.status = state.status
    BY <2>1, <2>3 DEF States, Agree, SaysSame
  <2> HIDE DEF w
  <2> QED
    BY <1>1, <2>1, <2>4, FinalizeOne
<1> QED
  BY <1>2, <1>3, <1>4

LEMMA LeaseLapsesKeeps == ASSUME WorkspaceInv, LeaseLapses PROVE Keeps
<1> USE DEF WorkspaceInv, BindingsInv, Shape
<1> DEFINE s == state.session
           lease == [state.sessions[s] EXCEPT !.lapsed = TRUE]
<1>1. state' = [state EXCEPT !.sessions[s] = lease] /\ s \in Sessions
  BY DEF LeaseLapses, States
<1>2. state.sessions[s] \in SessionRecords
  BY <1>1 DEF States
<1>3. lease \in SessionRecords /\ lease.status = state.sessions[s].status
  BY <1>2 DEF SessionRecords
<1> HIDE DEF lease
<1>4. /\ state' \in States /\ state'.schema = state.schema /\ state'.profile = state.profile
      /\ state'.status = state.status /\ state'.active = state.active
      /\ state'.session = state.session /\ state'.tasks = state.tasks
      /\ state'.binding = state.binding /\ state'.recovery = state.recovery
      /\ \A x \in Sessions : state'.sessions[x].status = state.sessions[x].status
  BY <1>1, <1>3 DEF States
<1>5. Valid(state')
  BY <1>1, <1>4 DEF Valid, OpenPhases, RecoveryFits, States
<1>6. UNCHANGED <<docs, plan, applying, overwrote, edits, work>>
  BY DEF LeaseLapses
<1>7. ApplyingInv' /\ Carries
  BY <1>4, <1>6, ApartKeeps
<1> QED
  BY <1>4, <1>5, <1>6, <1>7 DEF Keeps, Agree, SaysSame, Soft, Fresh, PlanCovers

LEMMA WriteResultKeeps ==
  ASSUME WorkspaceInv, NEW t \in Tasks, NEW p \in Phases, NEW a \in Actors,
         WriteResult(t, p, a)
  PROVE  Keeps
<1> DEFINE w == [state EXCEPT !.tasks[t] = p]
           d == [docs EXCEPT !.damaged = @ \ {t}]
           v == [w EXCEPT !.binding.fresh = @ \ {"tasks"}]
<1> USE DEF WorkspaceInv, BindingsInv, Shape
<1>1. d \in Documents /\ (edits = 0 => d.damaged = {})
  BY DEF Documents
<1>2. w \in States /\ Agree(w, d) /\ w.status = state.status
  BY DEF States, Agree, SaysSame, PhaseOrNone, Documents
<1>3. v \in States /\ Agree(v, d) /\ v.status = state.status /\ v.schema = state.schema
  BY <1>2 DEF States, Agree, SaysSame, Bindings
<1>4. edits = 0 => Soft(v)
  BY DEF States, Soft, Bindings
<1>5. Beside /\ None \in PhaseOrNone
  BY DEF WriteResult, PhaseOrNone
<1>6. IF state.schema = 5 THEN WritePlain(v, d, {}) ELSE Finalize(w, d, {p}, None)
  BY DEF WriteResult
<1> HIDE DEF w, d, v
<1>7. CASE state.schema = 5
  BY <1>1, <1>3, <1>4, <1>5, <1>6, <1>7, PlainOne
<1>8. CASE state.schema # 5
  BY <1>1, <1>2, <1>5, <1>6, <1>8, FinalizeOne
<1> QED
  BY <1>7, <1>8

LEMMA ReorganizeKeeps ==
  ASSUME WorkspaceInv, NEW profile \in Profiles, Reorganize(profile)
  PROVE  Keeps
<1> DEFINE w == [state EXCEPT !.schema = 5, !.profile = profile]
           kept == IF Paused = {} THEN None ELSE CHOOSE p \in Paused : TRUE
           v == [w EXCEPT !.sessions = [s \in Sessions |-> NoSession],
                          !.tasks = [t \in Tasks |-> None],
                          !.recovery.kind = "PROJECT_RECOVERY"]
           d == [docs EXCEPT !.indexed = @ \cup Paused]
<1> USE DEF WorkspaceInv, BindingsInv, Shape
<1>1. kept \in PhaseOrNone
  BY DEF Paused, PhaseOrNone
<1>2. w \in States /\ Agree(w, docs) /\ w.status = state.status /\ w.schema = 5
  BY DEF States, Agree, SaysSame, Schemas
<1>3. edits = 0 => Soft(w)
  BY DEF States, Soft
<1>4. v \in States /\ Agree(v, docs) /\ v.status = state.status
  BY <1>2 DEF States, Agree, SaysSame, NoSession, SessionRecords, PhaseOrNone, Recoveries, Kinds
<1>5. d \in Documents /\ Agree(v, d) /\ d.damaged = docs.damaged
  BY <1>4 DEF Documents, Agree, SaysSame, Paused
<1>6. Beside
  BY DEF Reorganize
<1>7. IF state.schema = 3 THEN Finalize(v, d, Paused, kept) ELSE WritePlain(w, docs, {})
  BY DEF Reorganize
<1> HIDE DEF w, kept, v, d
<1>8. CASE state.schema = 3
  BY <1>1, <1>4, <1>5, <1>6, <1>7, <1>8, FinalizeOne
<1>9. CASE state.schema # 3
  BY <1>2, <1>3, <1>6, <1>7, <1>9, PlainOne
<1> QED
  BY <1>8, <1>9

-----------------------------------------------------------------------------
(* Coordination, and the owner's editor. *)

LEMMA AdmissionKeeps ==
  ASSUME WorkspaceInv, NEW p \in Phases, Admit(p) \/ Release(p)
  PROVE  Keeps
<1>1. UNCHANGED <<state, docs, plan, applying, overwrote, edits, work>>
  BY DEF Admit, Release
<1>2. ApplyingInv' /\ Carries
  BY <1>1, ApartKeeps
<1> QED
  BY <1>1, <1>2 DEF Keeps, WorkspaceInv, BindingsInv, Shape, Agree, SaysSame, PlanCovers

\* An edit changes hashes only, of the bindings and of the plan.
LEMMA TouchedGives ==
  ASSUME WorkspaceInv, NEW p \in Phases, NEW section, Touched(p, section)
  PROVE  /\ state' \in States /\ plan' \in Plans /\ Valid(state')
         /\ state'.status = state.status /\ state'.active = state.active
         /\ state'.schema = state.schema
         /\ state'.recovery.kind = state.recovery.kind
         /\ state.binding.fresh \subseteq state'.binding.fresh \cup {"control", section}
         /\ state.recovery.session # None \/ state.recovery.phase # p =>
              state'.recovery.fresh = state.recovery.fresh
         /\ plan'.source = plan.source /\ plan'.target = plan.target
         /\ plan'.carry = plan.carry /\ plan'.disposed = plan.disposed
         /\ "source" \in plan'.fresh => "source" \in plan.fresh /\ plan.source # p
<1> DEFINE lost == {"control", section}
           b == IF state.binding.phase = p THEN state.binding.fresh \ lost
                ELSE state.binding.fresh
           r == IF state.recovery.session = None /\ state.recovery.phase = p
                THEN state.recovery.fresh \ lost ELSE state.recovery.fresh
           f == IF plan.source = p THEN plan.fresh \ {"source"} ELSE plan.fresh
<1> USE DEF WorkspaceInv, BindingsInv, Shape
<1>1. /\ state' = [state EXCEPT !.binding.fresh = b, !.recovery.fresh = r]
      /\ plan' = [plan EXCEPT !.fresh = f]
  BY DEF Touched
<1>2. b \in SUBSET PhaseHashes /\ r \in SUBSET SourceHashes /\ f \in SUBSET PlanHashes
  BY DEF States, Bindings, Recoveries, Plans
<1>3. /\ state.binding.fresh \subseteq b \cup {"control", section}
      /\ state.recovery.session # None \/ state.recovery.phase # p => r = state.recovery.fresh
      /\ "source" \in f => "source" \in plan.fresh /\ plan.source # p
  OBVIOUS
<1> HIDE DEF b, r, f
<1>4. /\ state' \in States /\ state'.status = state.status /\ state'.active = state.active
      /\ state'.schema = state.schema /\ state'.profile = state.profile
      /\ state'.session = state.session /\ state'.sessions = state.sessions
      /\ state'.tasks = state.tasks /\ state'.binding.phase = state.binding.phase
      /\ state'.binding.fresh = b /\ state'.recovery.fresh = r
      /\ state'.recovery.kind = state.recovery.kind
      /\ state'.recovery.phase = state.recovery.phase
      /\ state'.recovery.session = state.recovery.session
  BY <1>1, <1>2 DEF States, Bindings, Recoveries
<1>5. Valid(state')
  BY <1>4 DEF Valid, OpenPhases, RecoveryFits
<1>6. /\ plan' \in Plans /\ plan'.fresh = f
      /\ plan'.source = plan.source /\ plan'.target = plan.target
      /\ plan'.carry = plan.carry /\ plan'.disposed = plan.disposed
  BY <1>1, <1>2 DEF Plans
<1> QED
  BY <1>3, <1>4, <1>5, <1>6

LEMMA WorkOnQueueKeeps ==
  ASSUME WorkspaceInv, NEW p \in Phases, NEW rows \in SUBSET Tasks, WorkOnQueue(p, rows)
  PROVE  Keeps
<1> USE DEF WorkspaceInv, BindingsInv, Shape
<1>1. /\ Touched(p, "queue") /\ docs' = [docs EXCEPT !.rows[p] = rows]
      /\ work' = work + 1 /\ UNCHANGED <<applying, overwrote, edits>>
      /\ state.status[p] \in {"ACTIVE", "OPEN"}
  BY DEF WorkOnQueue
<1>2. /\ docs' \in Documents /\ docs'.status = docs.status /\ docs'.index = docs.index
      /\ docs'.damaged = docs.damaged
      /\ \A q \in Phases : q # p => docs'.rows[q] = docs.rows[q]
  BY <1>1 DEF Documents
<1>3. state.active # None
  BY <1>1, Topology, FirstAssumption
<1>4. state.recovery.kind \notin {"ACTIVE_PHASE_RECOVERY", "TERMINAL_PHASE_RECOVERY"} =>
        state.recovery.session # None
  BY <1>3 DEF Valid, RecoveryFits
<1>5. edits' = 0 => Soft(state')
  BY <1>1, <1>4, TouchedGives DEF Soft
<1>6. PlanCovers'
  BY <1>1, <1>2, TouchedGives DEF PlanCovers
<1>7. work' \in Nat /\ work' # 0
  BY <1>1
<1>8. ApplyingInv' /\ Carries
  BY <1>1, <1>2, TouchedGives, ApartKeeps
<1> QED
  BY <1>1, <1>2, <1>5, <1>6, <1>7, <1>8, TouchedGives DEF Keeps, Agree, SaysSame

LEMMA EditPhaseKeeps ==
  ASSUME WorkspaceInv, NEW p \in Phases, NEW section, EditPhase(p, section)
  PROVE  Keeps
<1> USE DEF WorkspaceInv, BindingsInv, Shape
<1>1. /\ Touched(p, section) /\ edits' = edits + 1
      /\ UNCHANGED <<docs, applying, overwrote, work>>
  BY DEF EditPhase
<1>2. edits' \in Nat /\ edits' # 0
  BY <1>1
<1>3. PlanCovers'
  BY <1>1, TouchedGives DEF PlanCovers
<1>4. ApplyingInv' /\ Carries
  BY <1>1, TouchedGives, ApartKeeps
<1> QED
  BY <1>1, <1>2, <1>3, <1>4, TouchedGives DEF Keeps, Agree, SaysSame

LEMMA EditRecordKeeps == ASSUME WorkspaceInv, NEW record, EditRecord(record) PROVE Keeps
<1> DEFINE r == IF Record(state.recovery) = record THEN {} ELSE state.recovery.fresh
           f == IF record = None THEN plan.fresh \ {"project"} ELSE plan.fresh
<1> USE DEF WorkspaceInv, BindingsInv, Shape
<1>1. /\ state' = [state EXCEPT !.recovery.fresh = r]
      /\ plan' = [plan EXCEPT !.fresh = f]
      /\ edits' = edits + 1 /\ UNCHANGED <<docs, applying, overwrote, work>>
  BY DEF EditRecord
<1>2. r \in SUBSET SourceHashes /\ f \in SUBSET PlanHashes
      /\ ("source" \in f => "source" \in plan.fresh)
  BY DEF States, Recoveries, Plans
<1> HIDE DEF r, f
<1>3. /\ state' \in States /\ state'.status = state.status /\ state'.active = state.active
      /\ state'.schema = state.schema /\ state'.profile = state.profile
      /\ state'.session = state.session /\ state'.sessions = state.sessions
      /\ state'.tasks = state.tasks /\ state'.binding = state.binding
      /\ state'.recovery.kind = state.recovery.kind
      /\ state'.recovery.phase = state.recovery.phase
      /\ state'.recovery.session = state.recovery.session
  BY <1>1, <1>2 DEF States, Recoveries
<1>4. Valid(state')
  BY <1>3 DEF Valid, OpenPhases, RecoveryFits
<1>5. plan' \in Plans /\ PlanCovers'
  BY <1>1, <1>2 DEF Plans, PlanCovers
<1>6. edits' \in Nat /\ edits' # 0
  BY <1>1
<1>7. ApplyingInv' /\ Carries
  BY <1>1, <1>3, ApartKeeps
<1> QED
  BY <1>1, <1>3, <1>4, <1>5, <1>6, <1>7 DEF Keeps, Agree, SaysSame

LEMMA DamageKeeps == ASSUME WorkspaceInv, NEW t \in Tasks, Damage(t) PROVE Keeps
<1> USE DEF WorkspaceInv, BindingsInv, Shape
<1>1. /\ docs' = [docs EXCEPT !.damaged = @ \cup {t}] /\ edits' = edits + 1
      /\ UNCHANGED <<state, plan, applying, overwrote, work>>
  BY DEF Damage
<1>2. /\ docs' \in Documents /\ docs'.status = docs.status /\ docs'.index = docs.index
      /\ docs'.rows = docs.rows
  BY <1>1 DEF Documents
<1>3. edits' \in Nat /\ edits' # 0
  BY <1>1
<1>4. ApplyingInv' /\ Carries
  BY <1>1, <1>2, ApartKeeps
<1> QED
  BY <1>1, <1>2, <1>3, <1>4 DEF Keeps, Agree, SaysSame, PlanCovers

-----------------------------------------------------------------------------
LEMMA StutterKeeps == ASSUME WorkspaceInv, UNCHANGED vars PROVE Keeps
BY ApartKeeps DEF vars, Keeps, WorkspaceInv, BindingsInv, Shape, Agree, SaysSame, PlanCovers

LEMMA PhaseStepKeeps == ASSUME WorkspaceInv, NEW p \in Phases, PhaseStep(p) PROVE Keeps
BY OpenPhaseKeeps, PausePhaseKeeps, ResumePhaseKeeps, MigrateControlKeeps, ClosePhaseKeeps,
   RecordReviewKeeps, PlanTransitionKeeps, AdmissionKeeps DEF PhaseStep

LEMMA ActorStepKeeps == ASSUME WorkspaceInv, NEW a \in Actors, ActorStep(a) PROVE Keeps
<1>1. CASE \E t \in Tasks, p \in Phases : RecordResult(t, p, a) \/ RebuildLineage(t, p, a)
  BY <1>1, WriteResultKeeps DEF RecordResult, RebuildLineage
<1>2. CASE AmendBoundary(a) \/ (\E s \in Sessions : OpenSession(s, a))
           \/ \E b \in Actors : TransferLease(a, b)
  BY <1>2, RepairKeeps, SessionKeeps
<1> QED
  BY <1>1, <1>2 DEF ActorStep

LEMMA OwnerStepKeeps == ASSUME WorkspaceInv, OwnerStep PROVE Keeps
BY WorkOnQueueKeeps, EditPhaseKeeps, EditRecordKeeps, DamageKeeps DEF OwnerStep

LEMMA WorkspaceStep == WorkspaceInv /\ [Next]_vars => Keeps
<1> SUFFICES ASSUME WorkspaceInv, [Next]_vars PROVE Keeps
  OBVIOUS
<1>1. CASE UNCHANGED vars
  BY <1>1, StutterKeeps
<1>2. CASE ReadTransition \/ WriteTransition \/ QuitTransition
  BY <1>2, ReadTransitionKeeps, WriteTransitionKeeps, QuitTransitionKeeps
<1>3. CASE CloseSession \/ LeaseLapses \/ Reconcile \/ Rebind
  BY <1>3, SessionKeeps, LeaseLapsesKeeps, RepairKeeps
<1>4. CASE \E profile \in Profiles : Reorganize(profile)
  BY <1>4, ReorganizeKeeps
<1> QED
  BY <1>1, <1>2, <1>3, <1>4, PhaseStepKeeps, ActorStepKeeps, OwnerStepKeeps DEF Next

\* Whatever commands were run, and in the CURRENT layout whatever was written in
\* the queues, the next command finds the workspace consistent, as long as nobody
\* edited a record the bindings cover and no transition overwrote what another
\* command had written (_require_consistent_mutation).
THEOREM NeverLockedHolds == Spec => []NeverLocked
<1>1. WorkspaceInv => NeverLocked
  <2> SUFFICES ASSUME WorkspaceInv, ~overwrote, edits = 0, state.schema = 5 \/ work = 0
               PROVE  Undrifted /\ LineagesHold({})
    BY DEF NeverLocked
  <2>1. Structural /\ LineagesHold({})
    BY DEF WorkspaceInv, BindingsInv, Agree, SaysSame, Structural, LineagesHold
  <2>2. CASE state.schema = 5
    BY <2>1, <2>2 DEF WorkspaceInv, BindingsInv, Soft, Undrifted, PhaseHolds, SourceHolds,
       CheckedOfPhase, CheckedOfSource
  <2>3. CASE state.schema # 5
    <3>1. state.schema \in {3, 4} /\ Fresh(state)
      BY <2>3 DEF WorkspaceInv, BindingsInv, Shape, States, Schemas
    <3> QED
      BY <2>1, <3>1 DEF Fresh, Undrifted, PhaseHolds, SourceHolds, CheckedOfPhase,
         CheckedOfSource, PhaseHashes, SourceHashes
  <2> QED
    BY <2>2, <2>3
<1>2. WorkspaceInv /\ [Next]_vars => WorkspaceInv'
  BY WorkspaceStep DEF Keeps
<1> QED
  BY InitKeeps, <1>1, <1>2, PTL DEF Spec

\* Of the queue that apply-phase-transition read, a superseded phase leaves no row
\* behind but what the reviewed plan disposed of, whatever was planned, edited and
\* written by other commands before (command_apply_phase_transition).
THEOREM ReviewedIsCarriedHolds == Spec => ReviewedIsCarried
<1>1. WorkspaceInv /\ [Next]_vars => WorkspaceInv'
  BY WorkspaceStep DEF Keeps
<1>2. WorkspaceInv /\ [Next]_vars =>
        [ \A p \in Phases :
            state.status[p] # "SUPERSEDED" /\ state'.status[p] = "SUPERSEDED" =>
              applying.control.rows
                \subseteq docs'.rows[applying.plan.target] \cup applying.plan.disposed ]_vars
  BY WorkspaceStep DEF Keeps, Carries
<1> QED
  BY InitKeeps, <1>1, <1>2, PTL DEF Spec, ReviewedIsCarried
=============================================================================
