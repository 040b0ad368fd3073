---------------------------- MODULE EvidenceProofs ----------------------------
(***************************************************************************)
(* Three components keep the records that others take as proof: the        *)
(* supervised process host, that nothing of a run is alive any more        *)
(* (EXITED); the lineage of a Result contract, that the contract is        *)
(* fulfilled (DONE); and the artifact registries of a Long workspace,      *)
(* which output is in force and whose bytes it has.  They hold for any     *)
(* number of runs, attempts, invocations, intents, envelopes and           *)
(* quarantines, of phases, sessions, rows and shared entries, and whatever *)
(* the limits are.                                                         *)
(*                                                                         *)
(* Process host.  The journal alone does not say it, so the invariant ties *)
(* each state of the row to the place of the supervisor, and each place of *)
(* the supervisor to what may live in its Job.                             *)
(*                                                                         *)
(* Lineage.  That DONE is earned and that a quarantine stops execution are *)
(* inductive once the shape of the projection is known and that the kind   *)
(* of the contract stays (DONE is earned under CURRENT ones only): DONE is *)
(* left by no transition, an attempt starts only in EXECUTING, and every   *)
(* event that touches a flag looks at the quarantines in the same event.   *)
(* The hard budget needs more: what was sent and what reserved intents may *)
(* still send stay within it together, as long as no provider exceeds its  *)
(* bound; and that is a statement about two sums, whose laws come first.   *)
(*                                                                         *)
(* Registries.  A command is planned from what it read and written later,  *)
(* so the invariant says what a plan may still rely on: whatever it        *)
(* checked holds until it is written, because what could change it is      *)
(* among the inputs whose change refuses the plan.  That a succession ends *)
(* in force is stated about sets closed under succession, since a chain    *)
(* has no bound.                                                           *)
(***************************************************************************)
EXTENDS ProcessHost, ResultLineage, WorkspaceArtifacts, FiniteSetTheorems, TLAPS

(***************************************************************************)
(* Sums over a finite set                                                  *)
(***************************************************************************)
\* Every non-empty family of finite subsets has a member that none is part of.
LEMMA LeastSet ==
  ASSUME NEW S, IsFiniteSet(S), NEW T \in SUBSET (SUBSET S), T # {}
  PROVE  \E s \in T : \A x \in s : s \ {x} \notin T
<1>1. FiniteSubsetsOf(S) = SUBSET S
  BY FS_FiniteSubsetsOfFinite
<1>2. IsWellFoundedOn(StrictSubsetOrdering(S), SUBSET S)
  BY <1>1, FS_StrictSubsetOrderingWellFounded
<1> DEFINE R == StrictSubsetOrdering(S)
<1> HIDE DEF R
<1>3. PICK s \in T : \A t \in T : ~(<<t, s>> \in R)
  BY <1>2, WFMin DEF R
<1>4. ASSUME NEW x \in s, s \ {x} \in T PROVE FALSE
  <2>1. <<s \ {x}, s>> \in (SUBSET S) \X (SUBSET S)
    OBVIOUS
  <2>2. s \ {x} \subseteq s /\ s \ {x} # s
    OBVIOUS
  <2>3. <<s \ {x}, s>> \in R
    BY <2>1, <2>2 DEF R, StrictSubsetOrdering
  <2> QED
    BY <1>3, <1>4, <2>3
<1> QED
  BY <1>3, <1>4

\* A table of the sums of f over the parts of S, whatever is taken off first.
Sums(f, S, h) ==
  /\ h \in [SUBSET S -> Nat] /\ h[{}] = 0
  /\ \A s \in SUBSET S : \A x \in s : h[s] = f[x] + h[s \ {x}]

\* The recursion that SumFunctionOnSet follows.
Iter(f, S, h) ==
  h = [s \in SUBSET S |-> IF s = {} THEN 0
                          ELSE LET x == CHOOSE x \in s : TRUE IN f[x] + h[s \ {x}]]

Naturals(f, S) == \A x \in S : f[x] \in Nat

LEMMA SumIsIter ==
  ASSUME NEW f, NEW S
  PROVE  SumFunctionOnSet(f, S) = (CHOOSE h : Iter(f, S, h))[S]
BY DEF SumFunctionOnSet, FoldFunctionOnSet, MapThenFoldSet, Iter

\* One more element extends a table.
LEMMA TableGrows ==
  ASSUME NEW f, NEW s, Naturals(f, s), NEW x \in s, NEW h, Sums(f, s \ {x}, h)
  PROVE  \E g : Sums(f, s, g)
<1> DEFINE g == [u \in SUBSET s |-> IF x \in u THEN f[x] + h[u \ {x}] ELSE h[u]]
<1>1. \A u \in SUBSET s : u \ {x} \in SUBSET (s \ {x}) /\ (x \notin u => u \in SUBSET (s \ {x}))
  OBVIOUS
<1>2. \A u \in SUBSET (s \ {x}) : h[u] \in Nat
  BY DEF Sums
<1>3. g \in [SUBSET s -> Nat]
  BY <1>1, <1>2 DEF Naturals
<1>4. g[{}] = 0
  BY DEF Sums
<1>5. ASSUME NEW u \in SUBSET s, NEW y \in u
      PROVE  g[u] = f[y] + g[u \ {y}]
  <2>1. u \ {y} \in SUBSET s
    OBVIOUS
  <2>2. CASE y = x
    BY <2>1, <2>2
  <2>3. CASE y # x /\ x \in u
    <3>1. (u \ {x}) \ {y} = (u \ {y}) \ {x} /\ y \in u \ {x}
      BY <2>3
    <3>2. h[u \ {x}] = f[y] + h[(u \ {y}) \ {x}]
      <4>1. h[u \ {x}] = f[y] + h[(u \ {x}) \ {y}]
        BY <1>1, <3>1 DEF Sums
      <4> QED
        BY <3>1, <4>1
    <3>3. g[u] = f[x] + h[u \ {x}] /\ g[u \ {y}] = f[x] + h[(u \ {y}) \ {x}]
      BY <2>1, <2>3
    <3>4. h[u \ {x}] \in Nat /\ h[(u \ {y}) \ {x}] \in Nat
      BY <1>1, <1>2, <2>1
    <3>5. f[x] \in Nat /\ f[y] \in Nat
      BY DEF Naturals
    <3> QED
      BY <3>2, <3>3, <3>4, <3>5
  <2>4. CASE x \notin u
    <3>1. u \in SUBSET (s \ {x}) /\ x \notin u \ {y}
      BY <2>4
    <3>2. h[u] = f[y] + h[u \ {y}]
      BY <3>1 DEF Sums
    <3> QED
      BY <2>1, <2>4, <3>1, <3>2
  <2> QED
    BY <2>2, <2>3, <2>4
<1>6. Sums(f, s, g)
  <2> HIDE DEF g
  <2> QED
    BY <1>3, <1>4, <1>5 DEF Sums
<1> QED
  BY <1>6

LEMMA TableExists ==
  ASSUME NEW S, IsFiniteSet(S), NEW f, Naturals(f, S)
  PROVE  \E h : Sums(f, S, h)
<1> DEFINE T == {s \in SUBSET S : ~ \E h : Sums(f, s, h)}
<1>1. SUFFICES ASSUME T # {} PROVE FALSE
  OBVIOUS
<1>2. PICK s \in T : \A x \in s : s \ {x} \notin T
  BY <1>1, LeastSet
<1>3. CASE s = {}
  <2>1. Sums(f, {}, [u \in SUBSET {} |-> 0])
    BY DEF Sums
  <2> QED
    BY <1>3, <2>1
<1>4. CASE s # {}
  <2>1. PICK x \in s : TRUE
    BY <1>4
  <2>2. PICK h : Sums(f, s \ {x}, h)
    BY <1>2
  <2>3. Naturals(f, s)
    BY DEF Naturals
  <2> QED
    BY <2>2, <2>3, TableGrows
<1> QED
  BY <1>3, <1>4

LEMMA SumIsTable ==
  ASSUME NEW S, IsFiniteSet(S), NEW f, NEW h, Sums(f, S, h)
  PROVE  SumFunctionOnSet(f, S) = h[S]
<1>1. Iter(f, S, h)
  <2>1. ASSUME NEW s \in SUBSET S
        PROVE  h[s] = IF s = {} THEN 0 ELSE LET x == CHOOSE x \in s : TRUE IN f[x] + h[s \ {x}]
    BY DEF Sums
  <2> QED
    BY <2>1 DEF Iter, Sums
<1> DEFINE g == CHOOSE h_1 : Iter(f, S, h_1)
<1>2. Iter(f, S, g)
  BY <1>1
<1> HIDE DEF g
<1> DEFINE T == {s \in SUBSET S : g[s] # h[s]}
<1>3. T = {}
  <2>1. SUFFICES ASSUME T # {} PROVE FALSE
    OBVIOUS
  <2>2. PICK s \in T : \A x \in s : s \ {x} \notin T
    BY <2>1, LeastSet
  <2>3. CASE s = {}
    BY <1>2, <2>3 DEF Iter, Sums
  <2>4. CASE s # {}
    <3> DEFINE x == CHOOSE x \in s : TRUE
    <3>1. x \in s
      BY <2>4
    <3>2. g[s] = f[x] + g[s \ {x}]
      BY <1>2, <2>4 DEF Iter
    <3> HIDE DEF x
    <3>3. h[s] = f[x] + h[s \ {x}]
      BY <3>1 DEF Sums
    <3>4. g[s \ {x}] = h[s \ {x}]
      BY <2>2, <3>1
    <3> QED
      BY <3>2, <3>3, <3>4
  <2> QED
    BY <2>3, <2>4
<1>4. g[S] = h[S]
  BY <1>3
<1> QED
  BY <1>4, SumIsIter DEF g

\* A sum is a natural number, and any element may be taken off first.
LEMMA SumStep ==
  ASSUME NEW S, IsFiniteSet(S), NEW f, Naturals(f, S), NEW x \in S
  PROVE  /\ SumFunctionOnSet(f, S \ {x}) \in Nat /\ SumFunctionOnSet(f, S) \in Nat
         /\ SumFunctionOnSet(f, S) = f[x] + SumFunctionOnSet(f, S \ {x})
<1>1. PICK h : Sums(f, S, h)
  BY TableExists
<1> DEFINE t == [s \in SUBSET (S \ {x}) |-> h[s]]
<1>2. Sums(f, S \ {x}, t)
  BY <1>1 DEF Sums
<1>3. IsFiniteSet(S \ {x})
  BY FS_RemoveElement
<1>4. t[S \ {x}] = h[S \ {x}]
  OBVIOUS
<1>5. SumFunctionOnSet(f, S) = h[S] /\ SumFunctionOnSet(f, S \ {x}) = h[S \ {x}]
  BY <1>1, <1>2, <1>3, <1>4, SumIsTable
<1> QED
  BY <1>1, <1>5 DEF Sums

LEMMA SumIsNatural ==
  ASSUME NEW S, IsFiniteSet(S), NEW f, Naturals(f, S)
  PROVE  SumFunctionOnSet(f, S) \in Nat
<1>1. PICK h : Sums(f, S, h)
  BY TableExists
<1>2. h[S] \in Nat
  BY <1>1 DEF Sums
<1> QED
  BY <1>1, <1>2, SumIsTable

LEMMA SumOfNothing ==
  ASSUME NEW S, IsFiniteSet(S), NEW f, \A x \in S : f[x] = 0
  PROVE  SumFunctionOnSet(f, S) = 0
<1>1. Sums(f, S, [s \in SUBSET S |-> 0])
  BY DEF Sums
<1> QED
  BY <1>1, SumIsTable

LEMMA SumSame ==
  ASSUME NEW S, IsFiniteSet(S), NEW f, NEW g, Naturals(f, S), \A x \in S : g[x] = f[x]
  PROVE  SumFunctionOnSet(g, S) = SumFunctionOnSet(f, S)
<1>1. PICK h : Sums(f, S, h)
  BY TableExists
<1>2. Sums(g, S, h)
  BY <1>1 DEF Sums
<1> QED
  BY <1>1, <1>2, SumIsTable

\* What one value adds, the sum gains.
LEMMA SumMoves ==
  ASSUME NEW S, IsFiniteSet(S), NEW f, NEW g, Naturals(f, S), Naturals(g, S), NEW x \in S,
         \A y \in S \ {x} : g[y] = f[y]
  PROVE  /\ SumFunctionOnSet(f, S) \in Nat /\ SumFunctionOnSet(g, S) \in Nat
         /\ SumFunctionOnSet(g, S) - SumFunctionOnSet(f, S) = g[x] - f[x]
<1>1. SumFunctionOnSet(g, S \ {x}) = SumFunctionOnSet(f, S \ {x})
  <2>1. IsFiniteSet(S \ {x})
    BY FS_RemoveElement
  <2> QED
    BY <2>1, SumSame DEF Naturals
<1>2. f[x] \in Nat /\ g[x] \in Nat
  BY DEF Naturals
<1> QED
  BY <1>1, <1>2, SumStep
(***************************************************************************)
(* The supervised process host                                             *)
(***************************************************************************)
HostStep == \E k \in Keys : ControllerStep(k) \/ ProcessNext(k)

\* The row of a run says how far its supervisor came.
RowAgrees(k) ==
  /\ journal[k] \in {"NONE", "ADMITTED"} => supervisor[k] \in {"NONE", "SPAWNED", "DEAD"}
  /\ journal[k] = "EXITED" => supervisor[k] = "DEAD"

\* The command lives only under a supervisor that started it.
JobAgrees(k) ==
  command[k] = "LIVE" => supervisor[k] \in {"LAUNCHED", "WATCHING", "CLOSING"}

HostInv == ProcessTypeOK /\ \A k \in Keys : RowAgrees(k) /\ JobAgrees(k)

LEMMA HostInvInit == ProcessInit => HostInv
BY DEF ProcessInit, HostInv, ProcessTypeOK, RowAgrees, JobAgrees, SupervisorStates

LEMMA ControllerKeeps ==
  ASSUME HostInv, NEW k \in Keys, ControllerStep(k)
  PROVE  HostInv'
BY DEF HostInv, ProcessTypeOK, RowAgrees, JobAgrees, SupervisorStates,
       ControllerStep, Admit, Spawn, FlagCancel, Write, Go

LEMMA SupervisorKeeps ==
  ASSUME HostInv, NEW k \in Keys, SupervisorStep(k)
  PROVE  HostInv'
<1> USE DEF HostInv, ProcessTypeOK, RowAgrees, JobAgrees, SupervisorStates, Write, Go, KillJob
<1>1. CASE Claim(k)
  BY <1>1 DEF Claim
<1>2. CASE NotStarted(k)
  BY <1>2 DEF NotStarted
<1>3. CASE Launch(k)
  BY <1>3 DEF Launch
<1>4. CASE RecordRunning(k)
  BY <1>4 DEF RecordRunning
<1>5. CASE Terminate(k)
  BY <1>5 DEF Terminate
<1>6. CASE RecordExit(k)
  BY <1>6 DEF RecordExit
<1>7. CASE CloseJob(k)
  BY <1>7 DEF CloseJob
<1> QED
  BY <1>1, <1>2, <1>3, <1>4, <1>5, <1>6, <1>7 DEF SupervisorStep

LEMMA FailureKeeps ==
  ASSUME HostInv, NEW k \in Keys,
         CommandEnds(k) \/ LaunchFails(k) \/ SupervisorFails(k) \/ SupervisorDies(k)
  PROVE  HostInv'
<1> USE DEF HostInv, ProcessTypeOK, RowAgrees, JobAgrees, SupervisorStates, Write, Go, KillJob
<1>1. CASE CommandEnds(k)
  BY <1>1 DEF CommandEnds
<1>2. CASE LaunchFails(k)
  BY <1>2 DEF LaunchFails
<1>3. CASE SupervisorFails(k)
  BY <1>3 DEF SupervisorFails
<1>4. CASE SupervisorDies(k)
  BY <1>4 DEF SupervisorDies
<1> QED
  BY <1>1, <1>2, <1>3, <1>4

LEMMA HostInvStep == HostInv /\ [HostStep]_hostJournalVars => HostInv'
<1> SUFFICES ASSUME HostInv, [HostStep]_hostJournalVars
             PROVE  HostInv'
  OBVIOUS
<1>1. CASE UNCHANGED hostJournalVars
  BY <1>1 DEF hostJournalVars, HostInv, ProcessTypeOK, RowAgrees, JobAgrees
<1>2. CASE HostStep
  <2> PICK k \in Keys : ControllerStep(k) \/ ProcessNext(k)
    BY <1>2 DEF HostStep
  <2> QED
    BY ControllerKeeps, SupervisorKeeps, FailureKeeps DEF ProcessNext
<1> QED
  BY <1>1, <1>2

\* The journal, the supervisor and the Job never leave their states
\* (v2_process_host.py, schema and supervise).
THEOREM ProcessTypeOKHolds == ProcessSpec => []ProcessTypeOK
<1>1. HostInv => ProcessTypeOK
  BY DEF HostInv
<1> QED
  BY HostInvInit, HostInvStep, <1>1, PTL DEF ProcessSpec, HostStep

\* A query answers EXITED only when the command is gone and no supervisor is
\* left that could start it (SupervisedProcessHost.query).
THEOREM ExitIsProofHolds == ProcessSpec => []ExitIsProof
<1>1. HostInv => ExitIsProof
  BY DEF HostInv, ExitIsProof, QueryAnswer, RowAgrees, JobAgrees
<1> QED
  BY HostInvInit, HostInvStep, <1>1, PTL DEF ProcessSpec, HostStep

(***************************************************************************)
(* The lineage of a Result contract                                        *)
(***************************************************************************)
Shapes == [status : Statuses, rounds : Nat,
           attempt : [Attempts -> ExecutionStates], current : Attempts \cup {None},
           invocation : [Invocations -> ExecutionStates], running : Invocations \cup {None},
           reserved : [Intents -> Invocations \cup {None}], observed : [Intents -> Nat],
           envelope : [Envelopes -> {"absent", "active", "expired", "revoked"}],
           used : [Envelopes -> Nat],
           unresolved : BOOLEAN, recovery : BOOLEAN, quarantined : SUBSET Quarantines]

Authorities == [contract : ContractKinds, profile : {"NONE", "RESOURCE_ADMISSION"},
                admission : {"live", "ended"}, control : BOOLEAN,
                open : SUBSET Quarantines, settled : SUBSET Quarantines,
                file : {"current", "other"}]

Earned(l) == authority.contract = "CURRENT" /\ l.status = "DONE" =>
               \A x \in Attempts : l.attempt[x] \notin {"RUNNING", "UNKNOWN"}
Stopped(l) == l.quarantined # {} => l.unresolved /\ l.recovery

\* What is kept of the projection, whole, for the contract as it is.
Kept(l) == l \in Shapes /\ Earned(l) /\ Stopped(l)
LineageInv == Kept(lineage) /\ authority \in Authorities

LEMMA DoneIsFinal == "DONE" \in Statuses /\ "DRAFT" \in Statuses /\ Transitions["DONE"] = {}
BY DEF Statuses, Transitions

LEMMA CompletionFacts ==
  /\ ExecutionStates = {"absent", "PLANNED", "RUNNING", "SUCCEEDED", "FAILED", "CANCELLED",
                        "NOT_RUN", "UNKNOWN"}
  /\ \A s \in ExecutionStates : s # "RUNNING" =>
       "RUNNING" \notin Completions[s] /\ "UNKNOWN" \notin Completions[s]
BY DEF ExecutionStates, Completions

\* A flag on top changes neither the shape nor what is kept.
LEMMA FlaggedKeeps == ASSUME NEW l, Kept(l) PROVE Kept(Flagged(l))
BY DEF Kept, Shapes, Earned, Stopped, Flagged

LEMMA ObservedKeeps == ASSUME NEW l, Kept(l), ApplyObserved(l) PROVE Kept(lineage')
BY FlaggedKeeps DEF ApplyObserved

LEMMA InitKeeps == Init => LineageInv
<1> SUFFICES ASSUME Init PROVE LineageInv
  OBVIOUS
<1> DEFINE first ==
      [status |-> "DRAFT", rounds |-> 0,
       attempt |-> [x \in Attempts |-> "absent"], current |-> None,
       invocation |-> [i \in Invocations |-> "absent"], running |-> None,
       reserved |-> [n \in Intents |-> None], observed |-> [n \in Intents |-> 0],
       envelope |-> [e \in Envelopes |-> "absent"],
       used |-> [e \in Envelopes |-> 0],
       unresolved |-> FALSE, recovery |-> FALSE, quarantined |-> {}]
<1>1. lineage = first
  BY DEF Init
<1>2. first \in Shapes
  BY DoneIsFinal, CompletionFacts DEF Shapes
<1>3. Earned(first) /\ Stopped(first)
  BY DEF Earned, Stopped
<1>4. authority \in Authorities
  BY DEF Init, Authorities
<1> QED
  BY <1>1, <1>2, <1>3, <1>4 DEF LineageInv, Kept

LEMMA TransitionKeeps == ASSUME LineageInv, NEW to \in Statuses, Transition(to)
                         PROVE  Kept(lineage')
<1>1. lineage.status # "DONE"
  BY DoneIsFinal DEF Transition
<1>2. lineage' = [lineage EXCEPT !.status = to]
  BY DEF Transition, ApplyWithin
<1>3. authority.contract = "CURRENT" /\ to = "DONE" =>
        \A x \in Attempts : lineage.attempt[x] \in Finished \cup {"absent"}
  BY DEF Transition, Complete
<1> QED
  BY <1>1, <1>2, <1>3 DEF LineageInv, Kept, Shapes, Earned, Stopped, Finished

LEMMA ExecuteKeeps == ASSUME LineageInv, NEW e \in Envelopes, Execute(e)
                      PROVE  Kept(lineage')
<1> USE DEF LineageInv, Kept, Shapes, Earned, Stopped, ApplyWithin
<1>1. CASE GrantEnvelope(e)
  BY <1>1 DEF GrantEnvelope
<1>2. CASE RevokeEnvelope(e)
  BY <1>2 DEF RevokeEnvelope
<1>3. CASE StartRound(e)
  <2>1. lineage' = [lineage EXCEPT !.rounds = @ + 1, !.used[e] = @ + 1]
    BY <1>3 DEF StartRound
  <2>2. lineage.rounds + 1 \in Nat /\ lineage.used[e] + 1 \in Nat
    OBVIOUS
  <2> QED
    BY <2>1, <2>2
<1>4. CASE \E x \in Attempts : StartAttempt(x, e)
  <2> PICK x \in Attempts : StartAttempt(x, e)
    BY <1>4
  <2>1. lineage' = [lineage EXCEPT !.attempt[x] = "RUNNING", !.current = x]
    BY DEF StartAttempt
  <2>2. lineage.status = "EXECUTING"
    BY DEF StartAttempt
  <2> QED
    BY <2>1, <2>2, CompletionFacts
<1>5. CASE \E i \in Invocations : StartInvocation(i, e)
  <2> PICK i \in Invocations : StartInvocation(i, e)
    BY <1>5
  <2>1. lineage' = [lineage EXCEPT !.invocation[i] = "RUNNING", !.running = i]
    BY DEF StartInvocation
  <2> QED
    BY <2>1, CompletionFacts
<1>6. CASE \E n \in Intents : ReserveIntent(n, e)
  <2> PICK n \in Intents : ReserveIntent(n, e)
    BY <1>6
  <2>1. lineage' = [lineage EXCEPT !.reserved[n] = lineage.running]
    BY DEF ReserveIntent
  <2> QED
    BY <2>1
<1> QED
  BY <1>1, <1>2, <1>3, <1>4, <1>5, <1>6 DEF Execute

LEMMA PlanAttemptKeeps == ASSUME LineageInv, NEW x \in Attempts, PlanAttempt(x)
                          PROVE  Kept(lineage')
<1>1. lineage' = [lineage EXCEPT !.attempt[x] = "PLANNED"]
  BY DEF PlanAttempt, ApplyWithin
<1> QED
  BY <1>1, CompletionFacts DEF LineageInv, Kept, Shapes, Earned, Stopped

LEMMA CompleteAttemptKeeps ==
  ASSUME LineageInv, NEW x \in Attempts, NEW s \in ExecutionStates, CompleteAttempt(x, s)
  PROVE  Kept(lineage')
<1>1. lineage' = [lineage EXCEPT !.attempt[x] = s]
  BY DEF CompleteAttempt, ApplyWithin
<1>2. lineage.attempt[x] # "RUNNING" => s \notin {"RUNNING", "UNKNOWN"}
  BY CompletionFacts DEF CompleteAttempt, LineageInv, Kept, Shapes
<1> QED
  BY <1>1, <1>2 DEF LineageInv, Kept, Shapes, Earned, Stopped

LEMMA PlanInvocationKeeps == ASSUME LineageInv, NEW i \in Invocations, PlanInvocation(i)
                             PROVE  Kept(lineage')
<1>1. lineage' = [lineage EXCEPT !.invocation[i] = "PLANNED"]
  BY DEF PlanInvocation, ApplyWithin
<1> QED
  BY <1>1, CompletionFacts DEF LineageInv, Kept, Shapes, Earned, Stopped

LEMMA CompleteInvocationKeeps ==
  ASSUME LineageInv, NEW i \in Invocations, NEW s \in ExecutionStates, NEW certain \in BOOLEAN,
         CompleteInvocation(i, s, certain)
  PROVE  Kept(lineage')
<1> DEFINE l == [lineage EXCEPT !.invocation[i] = s]
<1>1. Kept(l)
  BY DEF LineageInv, Kept, Shapes, Earned, Stopped
<1>2. Kept(Flagged(l))
  BY <1>1, FlaggedKeeps
<1>3. ApplyObserved(IF certain THEN l ELSE Flagged(l))
  BY DEF CompleteInvocation
<1> HIDE DEF l
<1> QED
  BY <1>1, <1>2, <1>3, ObservedKeeps DEF LineageInv

LEMMA ObserveKeeps ==
  ASSUME LineageInv, NEW n \in Intents, NEW known, NEW names \in SUBSET Quarantines,
         Observe(n, known, names)
  PROVE  Kept(lineage')
<1> DEFINE l == [lineage EXCEPT !.observed[n] = @ + 1]
           u == [Flagged(l) EXCEPT !.quarantined = @ \cup names]
<1>1. Kept(l)
  BY DEF LineageInv, Kept, Shapes, Earned, Stopped
<1>2. Flagged(l) \in Shapes /\ Flagged(l).unresolved /\ Flagged(l).recovery /\ Earned(Flagged(l))
  BY <1>1, FlaggedKeeps DEF Kept, Flagged, Shapes
<1>3. ApplyObserved(IF known = "all" THEN l ELSE u)
  BY DEF Observe
<1> HIDE DEF l
<1>4. Kept(u)
  BY <1>2 DEF Kept, Shapes, Earned, Stopped
<1> HIDE DEF u
<1> QED
  BY <1>1, <1>4, <1>3, ObservedKeeps DEF LineageInv

LEMMA RecoverKeeps ==
  ASSUME LineageInv, NEW unresolved, NEW recovery, NEW names \in SUBSET Quarantines,
         Recover(unresolved, recovery, names)
  PROVE  Kept(lineage')
<1> DEFINE left == lineage.quarantined \ names
           first == IF unresolved # None THEN unresolved = "yes" ELSE lineage.unresolved
           second == CASE left = {} /\ unresolved = "no" -> recovery = "yes"
                       [] recovery # None -> recovery = "yes"
                       [] OTHER -> lineage.recovery
           l == [lineage EXCEPT !.unresolved = first, !.recovery = second,
                                !.quarantined = left]
<1>1. first \in BOOLEAN /\ second \in BOOLEAN
  BY DEF LineageInv, Kept, Shapes
<1>2. left # {} => l.unresolved /\ l.recovery
  BY DEF Recover
<1>3. ApplyObserved(l)
  BY DEF Recover
<1> HIDE DEF first, second
<1>4. Kept(l)
  BY <1>1, <1>2 DEF LineageInv, Kept, Shapes, Earned, Stopped
<1> HIDE DEF l
<1> QED
  BY <1>3, <1>4, ObservedKeeps DEF LineageInv

LEMMA ReportKeeps == ASSUME LineageInv, Report PROVE Kept(lineage')
<1>1. CASE \E n \in Intents : \E known \in {"all", "charge"} : Observe(n, known, {})
  BY <1>1, ObserveKeeps
<1>2. CASE \E n \in Intents : ObserveUnknown(n)
  <2> PICK n \in Intents : ObserveUnknown(n)
    BY <1>2
  <2>1. PICK names \in SUBSET Quarantines : Observe(n, "outcome", names)
    <3>1. CASE Observe(n, "outcome", {})
      BY <3>1
    <3>2. CASE \E q \in Named : Observe(n, "outcome", {q})
      <4> PICK q \in Named : Observe(n, "outcome", {q})
        BY <3>2
      <4>1. {q} \in SUBSET Quarantines
        BY DEF Named
      <4> QED
        BY <4>1
    <3> QED
      BY <3>1, <3>2 DEF ObserveUnknown
  <2> QED
    BY <2>1, ObserveKeeps
<1>3. CASE \E u, r \in Tri, names \in SUBSET Named : Recover(u, r, names)
  BY <1>3, RecoverKeeps DEF Named
<1> QED
  BY <1>1, <1>2, <1>3, TransitionKeeps, PlanAttemptKeeps, CompleteAttemptKeeps,
     PlanInvocationKeeps, CompleteInvocationKeeps DEF Report

LEMMA BesideKeeps == ASSUME LineageInv, Beside PROVE Kept(lineage')
<1>1. CASE \E e \in Envelopes : Expire(e)
  BY <1>1 DEF Expire, LineageInv, Kept, Shapes, Earned, Stopped
<1>2. CASE DamageFile \/ EditControl \/ EndAdmission
           \/ \E q \in Quarantines : Quarantine(q) \/ Reconcile(q)
  <2>1. UNCHANGED lineage
    BY <1>2 DEF DamageFile, EditControl, EndAdmission, Quarantine, Reconcile
  <2> QED
    BY <2>1 DEF LineageInv, Kept, Earned, Stopped
<1> QED
  BY <1>1, <1>2 DEF Beside

\* A contract is never exchanged for one of another kind.
LEMMA ContractStays ==
  ASSUME authority \in Authorities, [Next]_vars
  PROVE  authority' \in Authorities /\ authority'.contract = authority.contract
<1>1. CASE UNCHANGED authority
  BY <1>1
<1>2. CASE \E e \in Envelopes : Execute(e)
  <2>1. UNCHANGED authority
    BY <1>2 DEF Execute, GrantEnvelope, RevokeEnvelope, StartRound, StartAttempt,
                StartInvocation, ReserveIntent, Extends
  <2> QED
    BY <2>1, <1>1
<1>3. CASE Report
  <2>1. UNCHANGED authority
    BY <1>3 DEF Report, Transition, PlanAttempt, CompleteAttempt, PlanInvocation,
                CompleteInvocation, Observe, ObserveUnknown, Recover, Extends
  <2> QED
    BY <2>1, <1>1
<1>4. CASE Record \/ Rebuild \/ Beside
  <2>1. CASE Record \/ \E e \in Envelopes : Expire(e)
    BY <2>1, <1>1 DEF Record, Expire
  <2>2. CASE Rebuild \/ DamageFile \/ EditControl \/ EndAdmission
    BY <2>2 DEF Rebuild, DamageFile, EditControl, EndAdmission, Authorities
  <2>3. CASE \E q \in Quarantines : Quarantine(q)
    <3> PICK q \in Quarantines : Quarantine(q)
      BY <2>3
    <3> DEFINE named == authority.open \cup {q}
    <3>1. named \in SUBSET Quarantines
      BY DEF Authorities
    <3>2. authority' = [authority EXCEPT !.admission = "ended", !.open = named]
      BY DEF Quarantine
    <3> HIDE DEF named
    <3> QED
      BY <3>1, <3>2 DEF Authorities
  <2>4. CASE \E q \in Quarantines : Reconcile(q)
    <3> PICK q \in Quarantines : Reconcile(q)
      BY <2>4
    <3> DEFINE rest == authority.open \ {q}
               done == authority.settled \cup {q}
    <3>1. rest \in SUBSET Quarantines /\ done \in SUBSET Quarantines
      BY DEF Authorities
    <3>2. authority' = [authority EXCEPT !.open = rest, !.settled = done]
      BY DEF Reconcile
    <3> HIDE DEF rest, done
    <3> QED
      BY <3>1, <3>2 DEF Authorities
  <2> QED
    BY <1>4, <2>1, <2>2, <2>3, <2>4 DEF Beside
<1> QED
  BY <1>1, <1>2, <1>3, <1>4 DEF Next, vars

LEMMA LineageInvStep == LineageInv /\ [Next]_vars => LineageInv'
<1> SUFFICES ASSUME LineageInv, [Next]_vars
             PROVE  LineageInv'
  OBVIOUS
<1>1. Record \/ Rebuild \/ UNCHANGED vars => Kept(lineage')
  <2> SUFFICES ASSUME UNCHANGED lineage PROVE Kept(lineage')
    BY DEF Record, Rebuild, vars
  <2> QED
    BY DEF LineageInv
<1>2. Kept(lineage')
  BY <1>1, ExecuteKeeps, ReportKeeps, BesideKeeps DEF Next, LineageInv
<1>3. authority' \in Authorities /\ authority'.contract = authority.contract
  BY ContractStays DEF LineageInv
<1> QED
  BY <1>2, <1>3 DEF LineageInv, Kept, Earned, Stopped

\* A lineage of a CURRENT contract that is DONE stays free of attempts that run or
\* whose end is unknown, whatever is proposed later (evaluate_completion,
\* _apply_v2_event); and no contract is exchanged for one of another kind.
THEOREM DoneIsEarnedHolds == Spec => []DoneIsEarned
<1>1. LineageInv => DoneIsEarned
  BY DEF LineageInv, Kept, Earned, DoneIsEarned
<1> QED
  BY InitKeeps, LineageInvStep, <1>1, PTL DEF Spec

\* No order of observations, evidence and corrections parts a quarantine from
\* the flags that stop execution (_apply_v2_event,
\* _semantic_result_lineage_projection).
THEOREM QuarantineIsFlaggedHolds == Spec => []QuarantineIsFlagged
<1>1. LineageInv => QuarantineIsFlagged
  BY DEF LineageInv, Kept, Stopped, QuarantineIsFlagged
<1> QED
  BY InitKeeps, LineageInvStep, <1>1, PTL DEF Spec

(***************************************************************************)
(* The hard budget of requests                                             *)
(***************************************************************************)
WithinLimits(l) == \A n \in Intents : l.observed[n] <= RequestLimit[n]

\* What was sent and what may still be sent are within the budget together; and
\* what exceeds it has stopped execution.
Bounded(l) ==
  /\ WithinLimits(l) => Requests(l) + Reserved(l) <= MaxRequests
  /\ Requests(l) > MaxRequests => l.unresolved /\ l.recovery

BudgetInv == LineageInv /\ Bounded(lineage)

LEMMA CountsAreNatural ==
  ASSUME NEW l \in Shapes
  PROVE  /\ Naturals(l.observed, Intents) /\ Naturals(Unsent(l), Intents)
         /\ Requests(l) \in Nat /\ Reserved(l) \in Nat
<1>1. Naturals(l.observed, Intents)
  BY DEF Shapes, Naturals
<1>2. Naturals(Unsent(l), Intents)
  BY LimitAssumption DEF Shapes, Naturals, Unsent
<1> QED
  BY <1>1, <1>2, IntentsAssumption, SumIsNatural DEF Requests, Reserved

\* Nothing changes for an event that neither reserves nor observes, provided it
\* was within the budgets, or stopped execution, or left the flags alone.
LEMMA BoundedAlike ==
  ASSUME NEW l \in Shapes, Bounded(l), NEW m \in Shapes,
         m.observed = l.observed, m.reserved = l.reserved,
         \/ WithinHardBudgets(m)
         \/ m.unresolved /\ m.recovery
         \/ m.unresolved = l.unresolved /\ m.recovery = l.recovery
  PROVE  Bounded(m)
<1>1. Requests(m) = Requests(l) /\ Reserved(m) = Reserved(l) /\ (WithinLimits(m) <=> WithinLimits(l))
  BY DEF Requests, Reserved, Unsent, WithinLimits
<1>2. WithinHardBudgets(m) => ~(Requests(m) > MaxRequests)
  BY CountsAreNatural, BudgetAssumption DEF WithinHardBudgets
<1> QED
  BY <1>1, <1>2 DEF Bounded

LEMMA AppliedAlike ==
  ASSUME BudgetInv, NEW l \in Shapes, l.observed = lineage.observed, l.reserved = lineage.reserved,
         ApplyWithin(l) \/ ApplyObserved(l)
  PROVE  Bounded(lineage')
<1>1. Flagged(l) \in Shapes /\ Flagged(l).observed = l.observed /\ Flagged(l).reserved = l.reserved
      /\ Flagged(l).unresolved /\ Flagged(l).recovery
  BY DEF Shapes, Flagged
<1>2. lineage \in Shapes /\ Bounded(lineage)
  BY DEF BudgetInv, LineageInv, Kept
<1>3. CASE lineage' = l /\ WithinHardBudgets(l)
  BY <1>2, <1>3, BoundedAlike
<1>4. CASE lineage' = Flagged(l)
  BY <1>1, <1>2, <1>4, BoundedAlike
<1> QED
  BY <1>3, <1>4 DEF ApplyWithin, ApplyObserved

\* A reservation takes from the budget at most what is left of it.
LEMMA ReserveBounded ==
  ASSUME BudgetInv, NEW n \in Intents, NEW e, ReserveIntent(n, e)
  PROVE  Bounded(lineage')
<1> DEFINE l == [lineage EXCEPT !.reserved[n] = lineage.running]
<1>1. lineage \in Shapes /\ Bounded(lineage)
  BY DEF BudgetInv, LineageInv, Kept
<1>2. l \in Shapes
  BY <1>1 DEF Shapes, ReserveIntent
<1>3. lineage' = l
  BY DEF ReserveIntent, ApplyWithin
<1>4. /\ l.observed = lineage.observed
      /\ l.unresolved = lineage.unresolved /\ l.recovery = lineage.recovery
      /\ \A m \in Intents \ {n} : l.reserved[m] = lineage.reserved[m]
  BY <1>1 DEF Shapes
<1>5. /\ Unsent(lineage)[n] = 0
      /\ \A m \in Intents \ {n} : Unsent(l)[m] = Unsent(lineage)[m]
      /\ Unsent(l)[n] <= RequestLimit[n]
  <2>1. lineage.reserved[n] = None
    BY DEF ReserveIntent
  <2>2. lineage.observed[n] \in Nat /\ RequestLimit[n] \in Nat
    BY <1>1, LimitAssumption DEF Shapes
  <2> HIDE DEF l
  <2> QED
    BY <1>4, <2>1, <2>2 DEF Unsent
<1> HIDE DEF l
<1>6. Requests(l) = Requests(lineage)
  BY <1>4 DEF Requests
<1>7. Reserved(l) <= Reserved(lineage) + RequestLimit[n]
  <2>1. Naturals(Unsent(l), Intents) /\ Naturals(Unsent(lineage), Intents)
    BY <1>1, <1>2, CountsAreNatural
  <2>2. Reserved(l) - Reserved(lineage) = Unsent(l)[n] - Unsent(lineage)[n]
    BY <1>5, <2>1, IntentsAssumption, SumMoves DEF Reserved
  <2>3. Unsent(l)[n] \in Nat /\ RequestLimit[n] \in Nat
    BY <2>1, LimitAssumption DEF Naturals
  <2> QED
    BY <1>1, <1>2, <1>5, <2>2, <2>3, CountsAreNatural
<1>8. Requests(lineage) + Reserved(lineage) + RequestLimit[n] <= MaxRequests
  BY DEF ReserveIntent
<1>9. /\ Requests(lineage) \in Nat /\ Reserved(lineage) \in Nat /\ Reserved(l) \in Nat
      /\ RequestLimit[n] \in Nat /\ MaxRequests \in Nat
  BY <1>1, <1>2, CountsAreNatural, LimitAssumption, BudgetAssumption
<1>10. Requests(l) + Reserved(l) <= MaxRequests /\ ~(Requests(l) > MaxRequests)
  BY <1>6, <1>7, <1>8, <1>9
<1> QED
  BY <1>3, <1>10 DEF Bounded

\* An observation within the bound of its intent uses up what was reserved for it;
\* one beyond it, if it exceeds the budget, stops execution.
LEMMA ObservedBounded ==
  ASSUME BudgetInv, NEW n \in Intents, lineage.reserved[n] # None,
         NEW l \in Shapes, l.reserved = lineage.reserved,
         l.observed = [lineage.observed EXCEPT ![n] = @ + 1],
         ApplyObserved(l)
  PROVE  Bounded(lineage')
<1>1. lineage \in Shapes /\ Bounded(lineage)
  BY DEF BudgetInv, LineageInv, Kept
<1>2. /\ Flagged(l) \in Shapes /\ Flagged(l).observed = l.observed
      /\ Flagged(l).reserved = l.reserved /\ Flagged(l).unresolved /\ Flagged(l).recovery
  BY DEF Shapes, Flagged
<1>3. /\ lineage.observed[n] \in Nat /\ RequestLimit[n] \in Nat
      /\ l.observed[n] = lineage.observed[n] + 1
      /\ \A m \in Intents \ {n} : l.observed[m] = lineage.observed[m]
  BY <1>1, LimitAssumption DEF Shapes
<1>4. /\ Naturals(l.observed, Intents) /\ Naturals(lineage.observed, Intents)
      /\ Naturals(Unsent(l), Intents) /\ Naturals(Unsent(lineage), Intents)
      /\ Requests(l) \in Nat /\ Requests(lineage) \in Nat
      /\ Reserved(l) \in Nat /\ Reserved(lineage) \in Nat
  BY <1>1, CountsAreNatural
<1>5. ASSUME WithinLimits(l)
      PROVE  Requests(l) + Reserved(l) <= MaxRequests
  <2>1. WithinLimits(lineage)
    <3> SUFFICES ASSUME NEW m \in Intents
                 PROVE  lineage.observed[m] <= RequestLimit[m]
      BY DEF WithinLimits
    <3> QED
      BY <1>3, <1>5 DEF WithinLimits
  <2>2. Requests(l) - Requests(lineage) = l.observed[n] - lineage.observed[n]
    <3> DEFINE f == lineage.observed
               g == l.observed
    <3>1. Naturals(f, Intents) /\ Naturals(g, Intents) /\ \A m \in Intents \ {n} : g[m] = f[m]
      BY <1>3, <1>4
    <3> HIDE DEF f, g
    <3>2. SumFunctionOnSet(g, Intents) - SumFunctionOnSet(f, Intents) = g[n] - f[n]
      BY <3>1, IntentsAssumption, SumMoves
    <3> QED
      BY <3>2 DEF f, g, Requests
  <2>3. \A m \in Intents \ {n} : Unsent(l)[m] = Unsent(lineage)[m]
    BY <1>3 DEF Unsent
  <2>4. Unsent(lineage)[n] = RequestLimit[n] - lineage.observed[n]
        /\ Unsent(l)[n] = RequestLimit[n] - lineage.observed[n] - 1
    <3>1. lineage.observed[n] + 1 <= RequestLimit[n]
      BY <1>3, <1>5 DEF WithinLimits
    <3> QED
      BY <1>3, <3>1 DEF Unsent
  <2>5. Reserved(l) - Reserved(lineage) = Unsent(l)[n] - Unsent(lineage)[n]
    BY <1>4, <2>3, IntentsAssumption, SumMoves DEF Reserved
  <2>6. Requests(lineage) + Reserved(lineage) <= MaxRequests
    BY <1>1, <2>1 DEF Bounded
  <2> QED
    BY <1>3, <1>4, <2>2, <2>4, <2>5, <2>6, BudgetAssumption
<1>6. Requests(Flagged(l)) = Requests(l) /\ Reserved(Flagged(l)) = Reserved(l)
      /\ (WithinLimits(Flagged(l)) <=> WithinLimits(l))
  BY <1>2 DEF Requests, Reserved, Unsent, WithinLimits
<1>7. CASE lineage' = l /\ WithinHardBudgets(l)
  <2>1. ~(Requests(l) > MaxRequests)
    BY <1>4, <1>7, BudgetAssumption DEF WithinHardBudgets
  <2> QED
    BY <1>5, <1>7, <2>1 DEF Bounded
<1>8. CASE lineage' = Flagged(l)
  BY <1>2, <1>5, <1>6, <1>8 DEF Bounded
<1> QED
  BY <1>7, <1>8 DEF ApplyObserved

LEMMA ObserveBounded ==
  ASSUME BudgetInv, NEW n \in Intents, NEW known, NEW names \in SUBSET Quarantines,
         Observe(n, known, names)
  PROVE  Bounded(lineage')
<1> DEFINE l == [lineage EXCEPT !.observed[n] = @ + 1]
           u == [Flagged(l) EXCEPT !.quarantined = @ \cup names]
<1>1. lineage \in Shapes
  BY DEF BudgetInv, LineageInv, Kept
<1>2. l \in Shapes /\ l.reserved = lineage.reserved
      /\ l.observed = [lineage.observed EXCEPT ![n] = @ + 1]
  BY <1>1 DEF Shapes
<1>3. ApplyObserved(IF known = "all" THEN l ELSE u)
  BY DEF Observe
<1>4. lineage.reserved[n] # None
  BY DEF Observe
<1> HIDE DEF l
<1>5. u \in Shapes /\ u.reserved = l.reserved /\ u.observed = l.observed
  BY <1>2 DEF Shapes, Flagged
<1> HIDE DEF u
<1> QED
  BY <1>2, <1>3, <1>4, <1>5, ObservedBounded

LEMMA InitBounded == Init => BudgetInv
<1> SUFFICES ASSUME Init PROVE BudgetInv
  OBVIOUS
<1>1. /\ \A n \in Intents : lineage.observed[n] = 0 /\ lineage.reserved[n] = None
  BY DEF Init
<1>2. Requests(lineage) = 0
  BY <1>1, IntentsAssumption, SumOfNothing DEF Requests
<1>3. Reserved(lineage) = 0
  BY <1>1, IntentsAssumption, SumOfNothing DEF Reserved, Unsent
<1> QED
  BY <1>2, <1>3, BudgetAssumption, InitKeeps DEF BudgetInv, Bounded

LEMMA ExecuteBounded ==
  ASSUME BudgetInv, NEW e \in Envelopes, Execute(e)
  PROVE  Bounded(lineage')
<1>1. CASE \E n \in Intents : ReserveIntent(n, e)
  BY <1>1, ReserveBounded
<1>2. CASE ~ \E n \in Intents : ReserveIntent(n, e)
  <2>1. lineage.observed' = lineage.observed /\ lineage.reserved' = lineage.reserved
    BY <1>2 DEF Execute, GrantEnvelope, RevokeEnvelope, StartRound, StartAttempt, StartInvocation,
                ApplyWithin, BudgetInv, LineageInv, Kept, Shapes
  <2>2. ApplyWithin(lineage')
    BY <1>2 DEF Execute, GrantEnvelope, RevokeEnvelope, StartRound, StartAttempt, StartInvocation,
                ApplyWithin
  <2>3. lineage' \in Shapes
    BY ExecuteKeeps DEF BudgetInv, LineageInv, Kept
  <2> QED
    BY <2>1, <2>2, <2>3, AppliedAlike
<1> QED
  BY <1>1, <1>2

LEMMA ReportBounded == ASSUME BudgetInv, Report PROVE Bounded(lineage')
<1>1. lineage \in Shapes
  BY DEF BudgetInv, LineageInv, Kept
<1>2. CASE \E to \in Statuses : Transition(to)
  <2> PICK to \in Statuses : Transition(to)
    BY <1>2
  <2> DEFINE l == [lineage EXCEPT !.status = to]
  <2>1. l \in Shapes /\ l.observed = lineage.observed /\ l.reserved = lineage.reserved
    BY <1>1 DEF Shapes
  <2>2. ApplyWithin(l)
    BY DEF Transition
  <2> QED
    BY <2>1, <2>2, AppliedAlike
<1>3. CASE \E x \in Attempts : PlanAttempt(x) \/ \E s \in ExecutionStates : CompleteAttempt(x, s)
  <2> PICK x \in Attempts, s \in ExecutionStates : ApplyWithin([lineage EXCEPT !.attempt[x] = s])
    BY <1>3, CompletionFacts DEF PlanAttempt, CompleteAttempt
  <2> DEFINE l == [lineage EXCEPT !.attempt[x] = s]
  <2>1. l \in Shapes /\ l.observed = lineage.observed /\ l.reserved = lineage.reserved
    BY <1>1 DEF Shapes
  <2> QED
    BY <2>1, AppliedAlike
<1>4. CASE \E i \in Invocations :
             \/ PlanInvocation(i)
             \/ \E s \in ExecutionStates, certain \in BOOLEAN : CompleteInvocation(i, s, certain)
  <2> PICK i \in Invocations :
             \/ PlanInvocation(i)
             \/ \E s \in ExecutionStates, certain \in BOOLEAN : CompleteInvocation(i, s, certain)
    BY <1>4
  <2>1. PICK s \in ExecutionStates :
           LET l == [lineage EXCEPT !.invocation[i] = s] IN
           ApplyWithin(l) \/ ApplyObserved(l) \/ ApplyObserved(Flagged(l))
    BY CompletionFacts DEF PlanInvocation, CompleteInvocation
  <2> DEFINE l == [lineage EXCEPT !.invocation[i] = s]
  <2>2. l \in Shapes /\ l.observed = lineage.observed /\ l.reserved = lineage.reserved
    BY <1>1 DEF Shapes
  <2>3. ApplyWithin(l) \/ ApplyObserved(l) \/ ApplyObserved(Flagged(l))
    BY <2>1
  <2> HIDE DEF l
  <2>4. Flagged(l) \in Shapes /\ Flagged(l).observed = lineage.observed
        /\ Flagged(l).reserved = lineage.reserved
    BY <2>2 DEF Shapes, Flagged
  <2> QED
    BY <2>2, <2>3, <2>4, AppliedAlike
<1>5. CASE \E n \in Intents : \/ \E known \in {"all", "charge"} : Observe(n, known, {})
                              \/ ObserveUnknown(n)
  <2>1. PICK n \in Intents, known \in {"all", "charge", "outcome"}, names \in SUBSET Quarantines :
          Observe(n, known, names)
    BY <1>5 DEF ObserveUnknown, Named
  <2> QED
    BY <2>1, ObserveBounded
<1>6. CASE \E u, r \in Tri, names \in SUBSET Named : Recover(u, r, names)
  <2>1. PICK l \in Shapes : l.observed = lineage.observed /\ l.reserved = lineage.reserved
                            /\ ApplyObserved(l)
    <3> PICK u \in Tri, r \in Tri, names \in SUBSET Named : Recover(u, r, names)
      BY <1>6
    <3> DEFINE left == lineage.quarantined \ names
               first == IF u # None THEN u = "yes" ELSE lineage.unresolved
               second == CASE left = {} /\ u = "no" -> r = "yes"
                           [] r # None -> r = "yes"
                           [] OTHER -> lineage.recovery
               l == [lineage EXCEPT !.unresolved = first, !.recovery = second,
                                    !.quarantined = left]
    <3>1. first \in BOOLEAN /\ second \in BOOLEAN
      BY <1>1 DEF Shapes
    <3>2. ApplyObserved(l)
      BY DEF Recover
    <3> HIDE DEF first, second
    <3>3. l \in Shapes /\ l.observed = lineage.observed /\ l.reserved = lineage.reserved
      BY <1>1, <3>1 DEF Shapes
    <3> QED
      BY <3>2, <3>3
  <2> QED
    BY <2>1, AppliedAlike
<1> QED
  BY <1>2, <1>3, <1>4, <1>5, <1>6 DEF Report

LEMMA BudgetInvStep == BudgetInv /\ [Next]_vars => BudgetInv'
<1> SUFFICES ASSUME BudgetInv, [Next]_vars
             PROVE  Bounded(lineage')
  BY LineageInvStep DEF BudgetInv
<1>1. CASE Record \/ Rebuild \/ UNCHANGED vars \/ DamageFile \/ EditControl \/ EndAdmission
           \/ \E q \in Quarantines : Quarantine(q) \/ Reconcile(q)
  BY <1>1 DEF Record, Rebuild, vars, DamageFile, EditControl, EndAdmission, Quarantine, Reconcile,
              BudgetInv
<1>2. CASE \E e \in Envelopes : Expire(e)
  <2>1. lineage' \in Shapes
    BY LineageInvStep DEF BudgetInv, LineageInv, Kept
  <2>2. lineage \in Shapes /\ Bounded(lineage)
    BY DEF BudgetInv, LineageInv, Kept
  <2>3. /\ lineage'.observed = lineage.observed /\ lineage'.reserved = lineage.reserved
        /\ lineage'.unresolved = lineage.unresolved /\ lineage'.recovery = lineage.recovery
    BY <1>2, <2>2 DEF Expire, Shapes
  <2> QED
    BY <2>1, <2>2, <2>3, BoundedAlike
<1> QED
  BY <1>1, <1>2, ExecuteBounded, ReportBounded DEF Next, Beside

\* The hard budget of requests is exceeded by nobody but a provider that sends
\* more than the bound proven for one of its intents, for any set of intents and
\* whatever their bounds are; and what exceeds it has stopped execution for good
\* (_authorization_issues, _apply_v2_event).
THEOREM HardBoundHoldsAlways == Spec => []HardBoundHolds
<1>1. BudgetInv => HardBoundHolds
  <2> SUFFICES ASSUME BudgetInv, WithinLimits(lineage)
               PROVE  Requests(lineage) <= MaxRequests
    BY DEF BudgetInv, Bounded, HardBoundHolds, WithinLimits
  <2>1. lineage \in Shapes
    BY DEF BudgetInv, LineageInv, Kept
  <2> QED
    BY <2>1, CountsAreNatural, BudgetAssumption DEF BudgetInv, Bounded
<1> QED
  BY InitBounded, BudgetInvStep, <1>1, PTL DEF Spec

(***************************************************************************)
(* Artifact registries                                                     *)
(***************************************************************************)
\* The shared index by itself.  Whatever a successor's chain stays in has an
\* entry in force (HeirsAreIn); its edges stay in the index and in one scope.
IdsAreUnique(sh) == \A s, t \in sh : s.id = t.id => s = t
OneIsCurrent(sh) ==
  \A s, t \in sh : s.status = "CURRENT" /\ t.status = "CURRENT" /\ SameScope(s, t) => s = t
SuccessorsThere(sh) ==
  \A s \in sh : \A ref \in Targets(s.rels, "SUPERSEDED_BY") : ref[1] = "shared" =>
     \E t \in sh : ref = <<"shared", t.id>> /\ SameScope(s, t)
PredecessorsThere(sh) ==
  \A s \in sh : \A ref \in Targets(s.rels, "SUPERSEDES") : ref[1] = "shared" =>
     \E t \in sh : ref = <<"shared", t.id>>
StaysIn(X, sh) ==
  \A t \in sh : t.id \in X =>
     \A ref \in Targets(t.rels, "SUPERSEDED_BY") : ref[1] = "shared" => ref[2] \in X
HeirsAreIn(sh) ==
  \A s \in sh : s.status = "CURRENT" \/ Succeeded(s) =>
     \A X \in SUBSET SharedIds : s.id \in X /\ StaysIn(X, sh) =>
        \E t \in sh : t.id \in X /\ t.status = "CURRENT" /\ SameScope(t, s)
IndexInOrder(sh) ==
  /\ IdsAreUnique(sh) /\ OneIsCurrent(sh)
  /\ SuccessorsThere(sh) /\ PredecessorsThere(sh) /\ HeirsAreIn(sh)

\* The row that a shared entry supersedes names the entry.
RowsPointBack(d) ==
  \A s \in d.shared : \A ref \in Targets(s.rels, "SUPERSEDES") : ref[1] \in Owners =>
     \E r \in d.rows[ref[1]] : /\ r.id = ref[2]
                               /\ <<"shared", s.id>> \in Targets(r.rels, "SUPERSEDED_BY")

\* What a plan was made for holds until it is written or refused.
NewShared(s) == \A t \in docs.shared : t.id # s.id
PlansEnroll(c) == \E indexes \in SUBSET Indexes : c = [op |-> "enroll", indexes |-> indexes]
PlansRegister(c) ==
  \E o \in Owners, r \in OwnerOffers, d \in Dispositions, h \in Contents \cup {Nil} :
     c = [op |-> "register", owner |-> o, offer |-> r, disposition |-> d, hash |-> h]
PlansShare(c) ==
  \E s \in SharedOffers, status \in {"CURRENT", "SUPERSEDED"} :
     /\ c = [op |-> "share", offer |-> s, status |-> status]
     /\ NewShared(s) /\ (status = "CURRENT" => NoCurrentRival(s))
PlansArchive(c) == \E x \in ArchiveOffers : c = [op |-> "archive", offer |-> x]
PlansPromote(c) ==
  \E o \in Owners : \E r \in docs.rows[o], s \in SharedOffers :
     /\ c = [op |-> "promote", owner |-> o, row |-> r, offer |-> s]
     /\ NewShared(s) /\ NoCurrentRival(s)
PlansSupersede(c, inputs) ==
  \E old, new \in docs.shared, at \in SUBSET Controls :
     /\ c = [op |-> "supersede", old |-> old, new |-> new, at |-> at]
     /\ Succeeds(old, new)
     /\ ActiveControls(docs) \subseteq inputs
     /\ \A x \in ActiveControls(docs) : old.id \in mentions[x] => x \in at
PlansReconcile(c) ==
  \E o \in Owners : \E r \in docs.rows[o], d \in Dispositions :
     c = [op |-> "reconcile", owner |-> o, row |-> r, disposition |-> d]
PlansClose(c, inputs) ==
  \E o \in Owners :
     /\ c = [op |-> "close", owner |-> o]
     /\ o \in inputs
     /\ docs.enrolled /\ docs.status[o] = "ACTIVE" =>
          \A r \in docs.rows[o] : r.disposition # "UNRESOLVED"
PlansEnrolled(c, inputs) ==
  PlansRegister(c) \/ PlansShare(c) \/ PlansArchive(c) \/ PlansPromote(c)
    \/ PlansSupersede(c, inputs) \/ PlansReconcile(c)
PlanHolds ==
  plan # Nil =>
    \/ PlansEnroll(plan.command)
    \/ docs.enrolled /\ PlansEnrolled(plan.command, plan.inputs)
    \/ PlansClose(plan.command, plan.inputs)

ArtifactInv ==
  /\ ArtifactTypeOK /\ PlanHolds
  /\ IndexInOrder(docs.shared) /\ RowsPointBack(docs)
  /\ docs.shared # {} => docs.enrolled

(***************************************************************************)
(* Reachable nodes                                                         *)
(***************************************************************************)
LEMMA ReachIsClosed ==
  ASSUME NEW from, NEW edges
  PROVE  /\ from \subseteq Reach(from, edges)
         /\ \A e \in edges : e[1] \in Reach(from, edges) => e[2] \in Reach(from, edges)
<1> DEFINE nodes == from \cup {e[2] : e \in edges}
           Closed(X) == from \subseteq X /\ \A e \in edges : e[1] \in X => e[2] \in X
<1>1. Reach(from, edges) = {n \in nodes : \A X \in SUBSET nodes : Closed(X) => n \in X}
  BY DEF Reach
<1>2. from \subseteq Reach(from, edges)
  BY <1>1
<1>3. ASSUME NEW e \in edges, e[1] \in Reach(from, edges) PROVE e[2] \in Reach(from, edges)
  <2>1. e[2] \in nodes
    OBVIOUS
  <2>2. ASSUME NEW X \in SUBSET nodes, Closed(X) PROVE e[2] \in X
    BY <2>2, <1>1, <1>3
  <2> HIDE DEF Closed, nodes
  <2> QED
    BY <2>1, <2>2, <1>1
<1> QED
  BY <1>2, <1>3

LEMMA ActiveIsParsed == ASSUME NEW d, d.enrolled PROVE Active(d) \subseteq Parsed(d)
BY ReachIsClosed DEF Parsed

(***************************************************************************)
(* The shared index                                                        *)
(***************************************************************************)
LEMMA AddKeeps ==
  ASSUME NEW sh \in SUBSET Entries, NEW x \in Entries, IndexInOrder(sh),
         \A t \in sh : t.id # x.id,
         x.status = "CURRENT" => \A t \in sh : t.status = "CURRENT" => ~SameScope(x, t),
         \A ref \in Targets(x.rels, "SUPERSEDED_BY") : ref[1] # "shared",
         \A ref \in Targets(x.rels, "SUPERSEDES") : ref[1] # "shared"
  PROVE  IndexInOrder(sh \cup {x})
<1>1. IdsAreUnique(sh \cup {x})
  BY DEF IndexInOrder, IdsAreUnique
<1>2. OneIsCurrent(sh \cup {x})
  BY DEF IndexInOrder, OneIsCurrent, SameScope
<1>3. SuccessorsThere(sh \cup {x})
  BY DEF IndexInOrder, SuccessorsThere
<1>4. PredecessorsThere(sh \cup {x})
  BY DEF IndexInOrder, PredecessorsThere
<1>5. HeirsAreIn(sh \cup {x})
  <2> SUFFICES ASSUME NEW s \in sh \cup {x}, s.status = "CURRENT" \/ Succeeded(s),
                      NEW X \in SUBSET SharedIds, s.id \in X, StaysIn(X, sh \cup {x})
               PROVE  \E t \in sh \cup {x} : t.id \in X /\ t.status = "CURRENT" /\ SameScope(t, s)
    BY DEF HeirsAreIn
  <2>1. StaysIn(X, sh)
    BY DEF StaysIn
  <2>2. CASE s \in sh
    BY <2>1, <2>2 DEF IndexInOrder, HeirsAreIn
  <2>3. CASE s = x
    BY <2>3 DEF Succeeded, SameScope
  <2> QED
    BY <2>2, <2>3
<1> QED
  BY <1>1, <1>2, <1>3, <1>4, <1>5 DEF IndexInOrder

\* The two entries that a supersession writes.
Ref(s) == <<"shared", s.id>>
Without(rels) == {x \in rels : x.type # "SUPERSEDED_BY"}
OldEntry(old, new) ==
  [old EXCEPT !.status = "SUPERSEDED",
     !.rels = (Without(@) \ {SourceOfTruth}) \cup {Relation("SUPERSEDED_BY", Ref(new))}]
NewEntry(old, new) ==
  [new EXCEPT !.status = "CURRENT",
     !.rels = Without(@) \cup {SourceOfTruth, Relation("SUPERSEDES", Ref(old))}]
Exchanged(sh, old, new) == (sh \ {old, new}) \cup {OldEntry(old, new), NewEntry(old, new)}

LEMMA SuccessionRelations ==
  /\ SourceOfTruth \in Relations
  /\ \A i \in SharedIds : /\ Relation("SUPERSEDED_BY", <<"shared", i>>) \in Relations
                           /\ Relation("SUPERSEDES", <<"shared", i>>) \in Relations
  /\ \A o \in Owners, i \in RowIds : Relation("SUPERSEDES", <<o, i>>) \in Relations
  /\ \A x \in OwnerOffers \cup SharedOffers : x.rels \subseteq Relations
<1> DEFINE refs == (Owners \X RowIds) \cup ({"shared"} \X SharedIds)
           recs == [type : {"SUPERSEDES", "SUPERSEDED_BY"}, of : refs]
           offered == {x.rels : x \in OwnerOffers \cup SharedOffers}
<1>0. UNION offered \subseteq Relations /\ SourceOfTruth \in Relations /\ recs \subseteq Relations
  <2>1. Relations = (UNION offered) \cup {SourceOfTruth} \cup recs
    BY DEF Relations
  <2> HIDE DEF offered, recs
  <2> QED
    BY <2>1
<1>1. \A ref \in refs : /\ Relation("SUPERSEDED_BY", ref) \in Relations
                        /\ Relation("SUPERSEDES", ref) \in Relations
  <2> HIDE DEF refs
  <2>1. \A ref \in refs : /\ Relation("SUPERSEDED_BY", ref) \in [type : {"SUPERSEDES", "SUPERSEDED_BY"}, of : refs]
                          /\ Relation("SUPERSEDES", ref) \in [type : {"SUPERSEDES", "SUPERSEDED_BY"}, of : refs]
    BY DEF Relation
  <2>2. [type : {"SUPERSEDES", "SUPERSEDED_BY"}, of : refs] \subseteq Relations
    BY <1>0 DEF recs
  <2> QED
    BY <2>1, <2>2
<1>2. SourceOfTruth \in Relations /\ \A x \in OwnerOffers \cup SharedOffers : x.rels \subseteq Relations
  <2>1. SourceOfTruth \in Relations
    BY <1>0
  <2>2. ASSUME NEW x \in OwnerOffers \cup SharedOffers, NEW y \in x.rels PROVE y \in Relations
    <3>1. y \in UNION offered
      OBVIOUS
    <3> QED
      BY <3>1, <1>0
  <2> QED
    BY <2>1, <2>2
<1> QED
  BY <1>1, <1>2

LEMMA EntriesExchanged ==
  ASSUME NEW old \in Entries, NEW new \in Entries
  PROVE  LET a == OldEntry(old, new)
             b == NewEntry(old, new)
         IN  /\ a \in Entries /\ a.id = old.id /\ a.scope = old.scope /\ a.status = "SUPERSEDED"
             /\ Targets(a.rels, "SUPERSEDED_BY") = {Ref(new)}
             /\ Targets(a.rels, "SUPERSEDES") \subseteq Targets(old.rels, "SUPERSEDES")
             /\ b \in Entries /\ b.id = new.id /\ b.scope = new.scope /\ b.status = "CURRENT"
             /\ Targets(b.rels, "SUPERSEDED_BY") = {}
             /\ Targets(b.rels, "SUPERSEDES") \subseteq Targets(new.rels, "SUPERSEDES") \cup {Ref(old)}
<1> DEFINE a == OldEntry(old, new)
           b == NewEntry(old, new)
<1>1. Relation("SUPERSEDED_BY", Ref(new)) \in Relations /\ Relation("SUPERSEDES", Ref(old)) \in Relations
  BY SuccessionRelations DEF Ref, Entries
<1>2. SourceOfTruth \in Relations
  BY SuccessionRelations
<1>3. a.rels = (Without(old.rels) \ {SourceOfTruth}) \cup {Relation("SUPERSEDED_BY", Ref(new))}
  BY DEF OldEntry, Entries
<1>4. b.rels = Without(new.rels) \cup {SourceOfTruth, Relation("SUPERSEDES", Ref(old))}
  BY DEF NewEntry, Entries
<1>5. Without(old.rels) \subseteq old.rels /\ Without(new.rels) \subseteq new.rels
  BY DEF Without
<1>6. a \in Entries /\ a.id = old.id /\ a.scope = old.scope /\ a.status = "SUPERSEDED"
  BY <1>1, <1>3, <1>5 DEF OldEntry, Entries
<1>7. b \in Entries /\ b.id = new.id /\ b.scope = new.scope /\ b.status = "CURRENT"
  BY <1>1, <1>2, <1>4, <1>5 DEF NewEntry, Entries
<1>8. Targets(a.rels, "SUPERSEDED_BY") = {Ref(new)}
  <2>1. \A x \in a.rels : x.type = "SUPERSEDED_BY" => x.of = Ref(new)
    BY <1>3 DEF Without, Relation
  <2>2. Relation("SUPERSEDED_BY", Ref(new)) \in a.rels
    BY <1>3
  <2> QED
    BY <2>1, <2>2 DEF Targets, Relation
<1>9. Targets(b.rels, "SUPERSEDED_BY") = {}
  BY <1>4 DEF Targets, Without, Relation, SourceOfTruth
<1>10. Targets(a.rels, "SUPERSEDES") \subseteq Targets(old.rels, "SUPERSEDES")
  BY <1>3 DEF Targets, Without, Relation
<1>11. Targets(b.rels, "SUPERSEDES") \subseteq Targets(new.rels, "SUPERSEDES") \cup {Ref(old)}
  BY <1>4 DEF Targets, Without, Relation, SourceOfTruth
<1> QED
  BY <1>6, <1>7, <1>8, <1>9, <1>10, <1>11

LEMMA ExchangeKeeps ==
  ASSUME NEW sh \in SUBSET Entries, NEW old \in sh, NEW new \in sh,
         IndexInOrder(sh), Succeeds(old, new)
  PROVE  IndexInOrder(Exchanged(sh, old, new)) /\ Exchanged(sh, old, new) \in SUBSET Entries
<1> DEFINE a == OldEntry(old, new)
           b == NewEntry(old, new)
           rest == sh \ {old, new}
           next == rest \cup {a, b}
<1>1. /\ a \in Entries /\ a.id = old.id /\ a.scope = old.scope /\ a.status = "SUPERSEDED"
      /\ Targets(a.rels, "SUPERSEDED_BY") = {Ref(new)}
      /\ Targets(a.rels, "SUPERSEDES") \subseteq Targets(old.rels, "SUPERSEDES")
      /\ b \in Entries /\ b.id = new.id /\ b.scope = new.scope /\ b.status = "CURRENT"
      /\ Targets(b.rels, "SUPERSEDED_BY") = {}
      /\ Targets(b.rels, "SUPERSEDES") \subseteq Targets(new.rels, "SUPERSEDES") \cup {Ref(old)}
  BY EntriesExchanged
<1> HIDE DEF a, b
<1>2. /\ SameScope(old, new) /\ old.status = "CURRENT" /\ new.status = "SUPERSEDED"
      /\ IdsAreUnique(sh) /\ OneIsCurrent(sh) /\ SuccessorsThere(sh) /\ PredecessorsThere(sh)
      /\ HeirsAreIn(sh)
  BY DEF Succeeds, IndexInOrder
<1>3. \A t \in sh : \E u \in next : u.id = t.id /\ u.scope = t.scope
  BY <1>1
<1>4. IdsAreUnique(next)
  BY <1>1, <1>2 DEF IdsAreUnique
<1>5. OneIsCurrent(next)
  BY <1>1, <1>2 DEF OneIsCurrent, SameScope
<1>6. SuccessorsThere(next)
  <2> SUFFICES ASSUME NEW s \in next, NEW ref \in Targets(s.rels, "SUPERSEDED_BY"), ref[1] = "shared"
               PROVE  \E t \in next : ref = <<"shared", t.id>> /\ SameScope(s, t)
    BY DEF SuccessorsThere
  <2>1. CASE s \in rest
    <3>1. PICK t \in sh : ref = <<"shared", t.id>> /\ SameScope(s, t)
      BY <1>2, <2>1 DEF SuccessorsThere
    <3> QED
      BY <3>1, <1>3 DEF SameScope
  <2>2. CASE s = a
    BY <1>1, <1>2, <2>2 DEF Ref, SameScope
  <2>3. CASE s = b
    BY <1>1, <2>3
  <2> QED
    BY <2>1, <2>2, <2>3
<1>7. PredecessorsThere(next)
  <2> SUFFICES ASSUME NEW s \in next, NEW ref \in Targets(s.rels, "SUPERSEDES"), ref[1] = "shared"
               PROVE  \E t \in next : ref = <<"shared", t.id>>
    BY DEF PredecessorsThere
  <2>1. (\E t \in sh : ref = <<"shared", t.id>>) \/ ref = Ref(old)
    BY <1>1, <1>2 DEF PredecessorsThere
  <2> QED
    BY <2>1, <1>3, <1>1 DEF Ref
<1>8. HeirsAreIn(next)
  <2> SUFFICES ASSUME NEW s \in next, s.status = "CURRENT" \/ Succeeded(s),
                      NEW X \in SUBSET SharedIds, s.id \in X, StaysIn(X, next)
               PROVE  \E t \in next : t.id \in X /\ t.status = "CURRENT" /\ SameScope(t, s)
    BY DEF HeirsAreIn
  <2>1. CASE s = b
    BY <1>1, <2>1 DEF SameScope
  <2>2. CASE s = a
    <3>1. Ref(new)[2] \in X
      BY <1>1, <2>2 DEF StaysIn, Ref
    <3> QED
      BY <3>1, <1>1, <1>2, <2>2 DEF Ref, SameScope
  <2>3. CASE s \in rest
    <3>1. CASE new.id \in X /\ SameScope(new, s)
      BY <3>1, <1>1 DEF SameScope
    <3>2. CASE ~(new.id \in X /\ SameScope(new, s))
      <4> DEFINE Y == {i \in X : \E t \in sh : t.id = i /\ SameScope(t, s)}
      <4>1. old.id \notin Y /\ new.id \notin Y
        <5>1. \A t \in sh : (t.id = old.id => t = old) /\ (t.id = new.id => t = new)
          BY <1>2 DEF IdsAreUnique
        <5>2. old.id \in X => new.id \in X
          <6>1. a \in next /\ Ref(new) \in Targets(a.rels, "SUPERSEDED_BY") /\ Ref(new)[1] = "shared"
            BY <1>1 DEF Ref
          <6>2. old.id \in X => Ref(new)[2] \in X
            BY <6>1, <1>1 DEF StaysIn
          <6> QED
            BY <6>2 DEF Ref
        <5> QED
          BY <5>1, <5>2, <1>2, <3>2 DEF SameScope
      <4>2. StaysIn(Y, sh)
        <5> SUFFICES ASSUME NEW t \in sh, t.id \in Y,
                            NEW ref \in Targets(t.rels, "SUPERSEDED_BY"), ref[1] = "shared"
                     PROVE  ref[2] \in Y
          BY DEF StaysIn
        <5>1. t \in rest /\ SameScope(t, s)
          BY <4>1, <1>2 DEF IdsAreUnique
        <5>2. ref[2] \in X
          BY <5>1 DEF StaysIn
        <5>3. PICK u \in sh : ref = <<"shared", u.id>> /\ SameScope(t, u)
          BY <1>2 DEF SuccessorsThere
        <5> QED
          BY <5>1, <5>2, <5>3 DEF SameScope
      <4>3. s.id \in Y /\ Y \in SUBSET SharedIds
        BY <2>3 DEF SameScope
      <4> HIDE DEF Y
      <4>4. PICK t \in sh : t.id \in Y /\ t.status = "CURRENT" /\ SameScope(t, s)
        BY <1>2, <2>3, <4>2, <4>3 DEF HeirsAreIn
      <4>5. t \in rest
        BY <4>1, <4>4
      <4> QED
        BY <4>4, <4>5 DEF Y
    <3> QED
      BY <3>1, <3>2
  <2> QED
    BY <2>1, <2>2, <2>3
<1>9. next = Exchanged(sh, old, new)
  BY DEF Exchanged, a, b
<1>10. next \in SUBSET Entries
  BY <1>1
<1> QED
  BY <1>4, <1>5, <1>6, <1>7, <1>8, <1>9, <1>10 DEF IndexInOrder

(***************************************************************************)
(* What an audit without issues says                                       *)
(***************************************************************************)
Edges(d, type) == UNION {{x.ref} \X Targets(x.rels, type) : x \in Artifacts(d)}

LEMMA EdgeOf ==
  ASSUME NEW d, NEW type, NEW e
  PROVE  e \in Edges(d, type) <=>
           \E x \in Artifacts(d) : \E ref \in Targets(x.rels, type) : e = <<x.ref, ref>>
BY DEF Edges

LEMMA OwnersAreNoIndex == \A o \in Owners : o \notin {"project", "shared", "archive", "external"}
BY NamesAssumption DEF Owners

LEMMA ArtifactOf ==
  ASSUME NEW d, NEW x \in Artifacts(d)
  PROVE  /\ x.ref[1] = "shared" => \E s \in d.shared : x.ref = Ref(s) /\ x.rels = s.rels
         /\ x.ref[1] \in Owners => /\ x.ref[1] \in Parsed(d)
                                   /\ \E r \in d.rows[x.ref[1]] :
                                        x.ref = <<x.ref[1], r.id>> /\ x.rels = r.rels
<1> DEFINE row(o, r) == [ref |-> <<o, r.id>>, at |-> r.at, hash |-> r.hash, rels |-> r.rels]
           entry(s) == [ref |-> <<"shared", s.id>>, at |-> s.at, hash |-> Nil, rels |-> s.rels]
           kept(y) == [ref |-> <<"archive", y.id>>, at |-> y.at, hash |-> Nil, rels |-> y.rels]
<1>1. \/ \E o \in Parsed(d) : \E r \in d.rows[o] : x = row(o, r)
      \/ \E s \in d.shared : x = entry(s)
      \/ \E y \in d.archive : x = kept(y)
  BY DEF Artifacts
<1>2. Parsed(d) \subseteq Owners
  BY DEF Parsed, Reach, Active, OwnersNamed
<1>3. ASSUME NEW o \in Parsed(d), NEW r \in d.rows[o], x = row(o, r)
      PROVE  x.ref[1] = o /\ x.ref = <<o, r.id>> /\ x.rels = r.rels
  BY <1>3
<1>4. ASSUME NEW s \in d.shared, x = entry(s)
      PROVE  x.ref[1] = "shared" /\ x.ref = Ref(s) /\ x.rels = s.rels
  BY <1>4 DEF Ref
<1>5. ASSUME NEW y \in d.archive, x = kept(y) PROVE x.ref[1] = "archive"
  BY <1>5
<1> HIDE DEF row, entry, kept
<1> QED
  BY <1>1, <1>2, <1>3, <1>4, <1>5, OwnersAreNoIndex

LEMMA EntryIsArtifact ==
  ASSUME NEW d, NEW s \in d.shared
  PROVE  \E x \in Artifacts(d) : x.ref = Ref(s) /\ x.rels = s.rels
<1> DEFINE x == [ref |-> <<"shared", s.id>>, at |-> s.at, hash |-> Nil, rels |-> s.rels]
<1>1. x \in Artifacts(d)
  BY DEF Artifacts
<1>2. x.ref = Ref(s) /\ x.rels = s.rels
  BY DEF Ref
<1> QED
  BY <1>1, <1>2

LEMMA Reciprocity ==
  ASSUME NEW d, RelationsHold(d), NEW s \in d.shared
  PROVE  /\ \A ref \in Targets(s.rels, "SUPERSEDED_BY") :
              \E x \in Artifacts(d) : x.ref = ref /\ Ref(s) \in Targets(x.rels, "SUPERSEDES")
         /\ \A ref \in Targets(s.rels, "SUPERSEDES") :
              \E x \in Artifacts(d) : x.ref = ref /\ Ref(s) \in Targets(x.rels, "SUPERSEDED_BY")
         /\ Ref(s) \notin Targets(s.rels, "SUPERSEDES")
<1>1. /\ \A e \in Edges(d, "SUPERSEDES") : <<e[2], e[1]>> \in Edges(d, "SUPERSEDED_BY")
      /\ \A e \in Edges(d, "SUPERSEDED_BY") : <<e[2], e[1]>> \in Edges(d, "SUPERSEDES")
      /\ ~Cyclic(Edges(d, "SUPERSEDES"))
  BY DEF RelationsHold, Edges
<1>2. ASSUME NEW type, NEW ref \in Targets(s.rels, type) PROVE <<Ref(s), ref>> \in Edges(d, type)
  BY EntryIsArtifact, EdgeOf
<1>3. ASSUME NEW type, NEW ref, <<ref, Ref(s)>> \in Edges(d, type)
      PROVE  \E x \in Artifacts(d) : x.ref = ref /\ Ref(s) \in Targets(x.rels, type)
  BY <1>3, EdgeOf
<1>4. ASSUME NEW ref \in Targets(s.rels, "SUPERSEDED_BY")
      PROVE  <<ref, Ref(s)>> \in Edges(d, "SUPERSEDES")
  <2>1. <<Ref(s), ref>> \in Edges(d, "SUPERSEDED_BY")
    BY <1>2
  <2> QED
    BY <1>1, <2>1
<1>5. ASSUME NEW ref \in Targets(s.rels, "SUPERSEDES")
      PROVE  <<ref, Ref(s)>> \in Edges(d, "SUPERSEDED_BY")
  <2>1. <<Ref(s), ref>> \in Edges(d, "SUPERSEDES")
    BY <1>2
  <2> QED
    BY <1>1, <2>1
<1>6. ASSUME Ref(s) \in Targets(s.rels, "SUPERSEDES") PROVE FALSE
  <2>1. <<Ref(s), Ref(s)>> \in Edges(d, "SUPERSEDES")
    BY <1>2, <1>6
  <2>2. Ref(s) \in Reach({Ref(s)}, Edges(d, "SUPERSEDES"))
    BY ReachIsClosed
  <2> QED
    BY <1>1, <2>1, <2>2 DEF Cyclic
<1> QED
  BY <1>3, <1>4, <1>5, <1>6

\* The row that an audited entry supersedes was read, and names it.
LEMMA AuditedPointBack == ASSUME NEW d, RelationsHold(d) PROVE RowsPointBack(d)
<1> SUFFICES ASSUME NEW s \in d.shared, NEW ref \in Targets(s.rels, "SUPERSEDES"), ref[1] \in Owners
             PROVE  \E r \in d.rows[ref[1]] :
                       r.id = ref[2] /\ <<"shared", s.id>> \in Targets(r.rels, "SUPERSEDED_BY")
  BY DEF RowsPointBack
<1>1. PICK x \in Artifacts(d) : x.ref = ref /\ Ref(s) \in Targets(x.rels, "SUPERSEDED_BY")
  BY Reciprocity
<1>2. PICK r \in d.rows[ref[1]] : ref = <<ref[1], r.id>> /\ x.rels = r.rels
  BY <1>1, ArtifactOf
<1> QED
  BY <1>1, <1>2 DEF Ref

\* An entry that is new to the index is related to none that is there.
LEMMA NewIsUnrelated ==
  ASSUME NEW d, RelationsHold(d), NEW sh, NEW x, d.shared = sh \cup {x},
         \A t \in sh : t.id # x.id, SuccessorsThere(sh), PredecessorsThere(sh)
  PROVE  /\ \A ref \in Targets(x.rels, "SUPERSEDED_BY") : ref[1] # "shared"
         /\ \A ref \in Targets(x.rels, "SUPERSEDES") : ref[1] # "shared"
<1>1. ASSUME NEW ref \in Targets(x.rels, "SUPERSEDED_BY"), ref[1] = "shared" PROVE FALSE
  <2>1. PICK a \in Artifacts(d) : a.ref = ref /\ Ref(x) \in Targets(a.rels, "SUPERSEDES")
    BY Reciprocity
  <2>2. PICK t \in d.shared : a.rels = t.rels
    BY <1>1, <2>1, ArtifactOf
  <2>3. CASE t = x
    BY <2>1, <2>2, <2>3, Reciprocity
  <2>4. CASE t \in sh
    <3>1. Ref(x)[1] = "shared" /\ Ref(x) \in Targets(t.rels, "SUPERSEDES")
      BY <2>1, <2>2 DEF Ref
    <3>2. PICK u \in sh : Ref(x) = <<"shared", u.id>>
      BY <3>1, <2>4 DEF PredecessorsThere
    <3> QED
      BY <3>2 DEF Ref
  <2> QED
    BY <2>3, <2>4
<1>2. ASSUME NEW ref \in Targets(x.rels, "SUPERSEDES"), ref[1] = "shared" PROVE FALSE
  <2>1. PICK a \in Artifacts(d) : a.ref = ref /\ Ref(x) \in Targets(a.rels, "SUPERSEDED_BY")
    BY Reciprocity
  <2>2. PICK t \in d.shared : a.ref = Ref(t) /\ a.rels = t.rels
    BY <1>2, <2>1, ArtifactOf
  <2>3. CASE t = x
    BY <1>2, <2>1, <2>2, <2>3, Reciprocity
  <2>4. CASE t \in sh
    <3>1. Ref(x)[1] = "shared" /\ Ref(x) \in Targets(t.rels, "SUPERSEDED_BY")
      BY <2>1, <2>2 DEF Ref
    <3>2. PICK u \in sh : Ref(x) = <<"shared", u.id>>
      BY <3>1, <2>4 DEF SuccessorsThere
    <3> QED
      BY <3>2 DEF Ref
  <2> QED
    BY <2>3, <2>4
<1> QED
  BY <1>1, <1>2

(***************************************************************************)
(* Planning                                                                *)
(***************************************************************************)
LEMMA ArtifactInitInv == ArtifactInit => ArtifactInv
<1> SUFFICES ASSUME ArtifactInit PROVE ArtifactInv
  OBVIOUS
<1>1. docs \in Documents /\ docs.shared = {}
  BY DEF ArtifactInit, Documents
<1>2. ArtifactTypeOK
  BY <1>1, EditsAssumption DEF ArtifactInit, ArtifactTypeOK
<1>3. PlanHolds
  BY DEF ArtifactInit, PlanHolds
<1>4. IndexInOrder(docs.shared) /\ RowsPointBack(docs)
  BY <1>1 DEF IndexInOrder, IdsAreUnique, OneIsCurrent, SuccessorsThere, PredecessorsThere,
              HeirsAreIn, RowsPointBack
<1> QED
  BY <1>1, <1>2, <1>3, <1>4 DEF ArtifactInv

\* A command that is planned changes nothing but the plan.
LEMMA PlannedKeeps ==
  ASSUME ArtifactInv, NEW c, NEW inputs, Plan(c, inputs),
         \/ PlansEnroll(c)
         \/ docs.enrolled /\ PlansEnrolled(c, inputs)
         \/ PlansClose(c, inputs)
  PROVE  ArtifactInv'
<1>1. docs' = docs /\ mentions' = mentions /\ payload' = payload /\ edits' = edits
  BY DEF Plan
<1>2. plan'.command = c /\ plan'.inputs = inputs
  BY DEF Plan
<1>3. PlanHolds'
  BY <1>1, <1>2
  DEF PlanHolds, PlansEnroll, PlansEnrolled, PlansClose, PlansRegister, PlansShare, PlansArchive,
      PlansPromote, PlansSupersede, PlansReconcile, NewShared, NoCurrentRival, ActiveControls
<1>4. ArtifactTypeOK'
  BY <1>1 DEF ArtifactInv, ArtifactTypeOK
<1>5. IndexInOrder(docs.shared)' /\ RowsPointBack(docs)'
  BY <1>1 DEF ArtifactInv
<1> QED
  BY <1>1, <1>3, <1>4, <1>5 DEF ArtifactInv

LEMMA PlanForIndexKeeps == ASSUME ArtifactInv, PlanForIndex PROVE ArtifactInv'
<1>1. ASSUME NEW indexes \in SUBSET Indexes, PlanEnroll(indexes) PROVE ArtifactInv'
  BY <1>1, PlannedKeeps DEF PlanEnroll, PlansEnroll
<1>2. ASSUME NEW s \in SharedOffers, NEW status \in {"CURRENT", "SUPERSEDED"}, PlanShare(s, status)
      PROVE  ArtifactInv'
  <2>1. PlansShare([op |-> "share", offer |-> s, status |-> status])
    BY <1>2 DEF PlansShare, PlanShare, NewShared
  <2> QED
    BY <1>2, <2>1, PlannedKeeps DEF PlanShare, PlansEnrolled
<1>3. ASSUME NEW x \in ArchiveOffers, PlanArchive(x) PROVE ArtifactInv'
  BY <1>3, PlannedKeeps DEF PlanArchive, PlansEnrolled, PlansArchive
<1>4. ASSUME NEW old \in docs.shared, NEW new \in docs.shared, PlanSupersede(old, new)
      PROVE  ArtifactInv'
  <2> DEFINE stale == {x \in ActiveControls(docs) : old.id \in mentions[x]}
             c == [op |-> "supersede", old |-> old, new |-> new, at |-> stale]
  <2>1. stale \in SUBSET Controls
    BY DEF ActiveControls, Active, Controls
  <2>2. ActiveControls(docs) \subseteq Audited(docs)
    BY DEF ActiveControls, Audited
  <2>3. Succeeds(old, new) /\ docs.enrolled /\ Plan(c, Audited(docs))
    BY <1>4 DEF PlanSupersede
  <2>4. PlansSupersede(c, Audited(docs))
    BY <2>1, <2>2, <2>3 DEF PlansSupersede
  <2> HIDE DEF c
  <2> QED
    BY <2>3, <2>4, PlannedKeeps DEF PlansEnrolled
<1> QED
  BY <1>1, <1>2, <1>3, <1>4 DEF PlanForIndex

LEMMA PlanForOwnerKeeps == ASSUME ArtifactInv, NEW o \in Owners, PlanForOwner(o) PROVE ArtifactInv'
<1> DEFINE some == {"UNRESOLVED", "KEEP_OWNED"}
<1>0. some \subseteq Dispositions /\ payload \in [Locators -> Contents \cup {Nil}]
  BY DEF Dispositions, ArtifactInv, ArtifactTypeOK
<1>1. ASSUME NEW r \in OwnerOffers, NEW d \in some, PlanRegister(o, r, d) PROVE ArtifactInv'
  <2> DEFINE h == IF Frozen(r) THEN payload[r.at] ELSE Nil
             c == [op |-> "register", owner |-> o, offer |-> r, disposition |-> d, hash |-> h]
             inputs == {"project", o} \cup (IF Frozen(r) THEN {r.at} ELSE {})
  <2>1. h \in Contents \cup {Nil} /\ d \in Dispositions
    BY <1>0, PlacesAssumption
  <2>2. docs.enrolled /\ Plan(c, inputs)
    BY <1>1 DEF PlanRegister
  <2> HIDE DEF h, inputs
  <2>3. PlansRegister(c)
    BY <2>1 DEF PlansRegister
  <2> HIDE DEF c
  <2> QED
    BY <2>2, <2>3, PlannedKeeps DEF PlansEnrolled
<1>2. ASSUME NEW r \in docs.rows[o], NEW s \in SharedOffers, PlanPromote(o, r, s) PROVE ArtifactInv'
  <2>1. PlansPromote([op |-> "promote", owner |-> o, row |-> r, offer |-> s])
    BY <1>2 DEF PlansPromote, PlanPromote, NewShared
  <2> QED
    BY <1>2, <2>1, PlannedKeeps DEF PlanPromote, PlansEnrolled
<1>3. ASSUME NEW r \in docs.rows[o], NEW d \in some, PlanReconcile(o, r, d) PROVE ArtifactInv'
  <2>1. PlansReconcile([op |-> "reconcile", owner |-> o, row |-> r, disposition |-> d])
    BY <1>0 DEF PlansReconcile
  <2> QED
    BY <1>3, <2>1, PlannedKeeps DEF PlanReconcile, PlansEnrolled
<1>4. ASSUME PlanClose(o) PROVE ArtifactInv'
  <2>1. Plan([op |-> "close", owner |-> o], CloseInputs(o)) /\ o \in CloseInputs(o) /\ CloseGate(o)
    BY <1>4 DEF PlanClose, CloseInputs
  <2>2. docs.enrolled /\ docs.status[o] = "ACTIVE" => o \in Parsed(docs)
    BY ActiveIsParsed DEF Active
  <2>3. PlansClose([op |-> "close", owner |-> o], CloseInputs(o))
    BY <2>1, <2>2 DEF PlansClose, CloseGate
  <2> QED
    BY <2>1, <2>3, PlannedKeeps
<1> QED
  BY <1>1, <1>2, <1>3, <1>4 DEF PlanForOwner

(***************************************************************************)
(* The owner of the workspace, and phases                                  *)
(***************************************************************************)
LEMMA RegisteredRow ==
  ASSUME NEW c, c.offer \in OwnerOffers, c.hash \in Contents \cup {Nil}, c.disposition \in Dispositions
  PROVE  Registered(c) \in Rows
<1>1. c.offer.rels \subseteq Relations /\ c.offer.at \in Locators
  BY SuccessionRelations, PlacesAssumption
<1> QED
  BY <1>1 DEF Registered, Rows, RowIds

LEMMA ShiftKeeps ==
  ASSUME ArtifactInv, NEW o \in Owners, NEW from, NEW to \in {"ACTIVE", "OPEN", "PAUSED"},
         Shift(o, from, to)
  PROVE  ArtifactInv'
<1>1. docs' = [docs EXCEPT !.status[o] = to] /\ plan' = Nil
      /\ mentions' = mentions /\ payload' = payload /\ edits' = edits
  BY DEF Shift
<1>2. /\ docs' \in Documents /\ docs'.shared = docs.shared /\ docs'.rows = docs.rows
      /\ docs'.enrolled = docs.enrolled
  BY <1>1 DEF ArtifactInv, ArtifactTypeOK, Documents
<1>3. ArtifactTypeOK' /\ PlanHolds'
  BY <1>1, <1>2 DEF ArtifactInv, ArtifactTypeOK, PlanHolds
<1>4. IndexInOrder(docs'.shared) /\ RowsPointBack(docs')
  BY <1>2 DEF ArtifactInv, RowsPointBack
<1> QED
  BY <1>2, <1>3, <1>4 DEF ArtifactInv

\* A plan stays what it is while documents and mentions stay.
LEMMA PlanStays ==
  ASSUME PlanHolds, docs' = docs, mentions' = mentions, plan' = plan
  PROVE  PlanHolds'
<1> SUFFICES ASSUME plan # Nil PROVE PlanHolds'
  BY DEF PlanHolds
<1>1. PlansEnroll(plan.command) => PlansEnroll(plan.command)'
  BY DEF PlansEnroll
<1>2. PlansRegister(plan.command) => PlansRegister(plan.command)'
  BY DEF PlansRegister
<1>3. PlansShare(plan.command) => PlansShare(plan.command)'
  BY DEF PlansShare, NewShared, NoCurrentRival
<1>4. PlansArchive(plan.command) => PlansArchive(plan.command)'
  BY DEF PlansArchive
<1>5. PlansPromote(plan.command) => PlansPromote(plan.command)'
  BY DEF PlansPromote, NewShared, NoCurrentRival
<1>6. PlansSupersede(plan.command, plan.inputs) => PlansSupersede(plan.command, plan.inputs)'
  BY DEF PlansSupersede, ActiveControls
<1>7. PlansReconcile(plan.command) => PlansReconcile(plan.command)'
  BY DEF PlansReconcile
<1>8. PlansClose(plan.command, plan.inputs) => PlansClose(plan.command, plan.inputs)'
  BY DEF PlansClose
<1> QED
  BY <1>1, <1>2, <1>3, <1>4, <1>5, <1>6, <1>7, <1>8 DEF PlanHolds, PlansEnrolled

LEMMA EditPayloadKeeps == ASSUME ArtifactInv, NEW l \in Locators, EditPayload(l) PROVE ArtifactInv'
<1>1. docs' = docs /\ mentions' = mentions /\ plan' \in {plan, Nil}
  BY DEF EditPayload, ByHand
<1>2. payload' \in [Locators -> Contents \cup {Nil}] /\ edits' \in 0 .. MaxEdits
  BY EditsAssumption DEF EditPayload, ByHand, ArtifactInv, ArtifactTypeOK
<1>3. PlanHolds'
  <2> SUFFICES ASSUME plan # Nil, plan' = plan PROVE PlanHolds'
    BY <1>1 DEF PlanHolds
  <2> QED
    BY <1>1, PlanStays DEF ArtifactInv
<1> QED
  BY <1>1, <1>2, <1>3 DEF ArtifactInv, ArtifactTypeOK

LEMMA MentionKeeps == ASSUME ArtifactInv, NEW c \in Controls, Mention(c) PROVE ArtifactInv'
<1>1. PICK s \in docs.shared : mentions' = [mentions EXCEPT ![c] = @ \cup {s.id}]
  BY DEF Mention
<1>2. /\ docs' = docs /\ payload' = payload /\ edits' \in 0 .. MaxEdits
      /\ plan' = Nil \/ (plan' = plan /\ (plan # Nil => c \notin plan.inputs))
  BY EditsAssumption DEF Mention, ByHand, ArtifactInv, ArtifactTypeOK
<1>3. mentions' \in [Controls -> SUBSET SharedIds] /\ \A x \in Controls \ {c} : mentions'[x] = mentions[x]
  BY <1>1 DEF ArtifactInv, ArtifactTypeOK, Documents, Entries
<1>4. PlanHolds'
  <2> SUFFICES ASSUME plan # Nil, plan' = plan, c \notin plan.inputs PROVE PlanHolds'
    BY <1>2 DEF PlanHolds
  <2>1. PlansSupersede(plan.command, plan.inputs) => PlansSupersede(plan.command, plan.inputs)'
    <3> SUFFICES ASSUME PlansSupersede(plan.command, plan.inputs)
                 PROVE  PlansSupersede(plan.command, plan.inputs)'
      OBVIOUS
    <3>1. PICK old \in docs.shared, new \in docs.shared, at \in SUBSET Controls :
            /\ plan.command = [op |-> "supersede", old |-> old, new |-> new, at |-> at]
            /\ Succeeds(old, new)
            /\ ActiveControls(docs) \subseteq plan.inputs
            /\ \A x \in ActiveControls(docs) : old.id \in mentions[x] => x \in at
      BY DEF PlansSupersede
    <3>2. \A x \in ActiveControls(docs) : x \in Controls \ {c}
      BY <3>1 DEF ActiveControls, Active, Controls
    <3>3. \A x \in ActiveControls(docs) : old.id \in mentions'[x] => x \in at
      BY <1>3, <3>1, <3>2
    <3> QED
      BY <1>2, <3>1, <3>3 DEF PlansSupersede, ActiveControls
  <2>2. PlansRegister(plan.command) \/ PlansEnroll(plan.command) \/ PlansArchive(plan.command) =>
          (PlansRegister(plan.command) \/ PlansEnroll(plan.command) \/ PlansArchive(plan.command))'
    BY DEF PlansRegister, PlansEnroll, PlansArchive
  <2>3. PlansShare(plan.command) => PlansShare(plan.command)'
    BY <1>2 DEF PlansShare, NewShared, NoCurrentRival
  <2>4. PlansPromote(plan.command) => PlansPromote(plan.command)'
    BY <1>2 DEF PlansPromote, NewShared, NoCurrentRival
  <2>5. PlansReconcile(plan.command) => PlansReconcile(plan.command)'
    BY <1>2 DEF PlansReconcile
  <2>6. PlansClose(plan.command, plan.inputs) => PlansClose(plan.command, plan.inputs)'
    BY <1>2 DEF PlansClose
  <2> QED
    BY <1>2, <2>1, <2>2, <2>3, <2>4, <2>5, <2>6 DEF ArtifactInv, PlanHolds, PlansEnrolled
<1> QED
  BY <1>2, <1>3, <1>4 DEF ArtifactInv, ArtifactTypeOK

LEMMA WriteRowKeeps == ASSUME ArtifactInv, NEW o \in Owners, WriteRow(o) PROVE ArtifactInv'
<1>1. PICK row \in Rows : docs' = [docs EXCEPT !.rows[o] = @ \cup {row}]
  <2>1. PICK r \in OwnerOffers, h \in Contents :
          docs' = [docs EXCEPT !.rows[o] = @ \cup
                     {Registered([offer |-> r, hash |-> IF Frozen(r) THEN h ELSE Nil,
                                  disposition |-> "UNRESOLVED"])}]
    BY DEF WriteRow
  <2> DEFINE c == [offer |-> r, hash |-> IF Frozen(r) THEN h ELSE Nil, disposition |-> "UNRESOLVED"]
  <2>2. c.offer \in OwnerOffers /\ c.hash \in Contents \cup {Nil} /\ c.disposition \in Dispositions
    BY DEF Dispositions
  <2>3. docs' = [docs EXCEPT !.rows[o] = @ \cup {Registered(c)}]
    BY <2>1
  <2> HIDE DEF c
  <2>4. Registered(c) \in Rows
    BY <2>2, RegisteredRow
  <2> QED
    BY <2>3, <2>4
<1>2. /\ mentions' = mentions /\ payload' = payload /\ edits' \in 0 .. MaxEdits
      /\ plan' = Nil \/ (plan' = plan /\ (plan # Nil => o \notin plan.inputs))
  BY EditsAssumption DEF WriteRow, ByHand, ArtifactInv, ArtifactTypeOK
<1>3. /\ docs' \in Documents /\ docs'.shared = docs.shared /\ docs'.enrolled = docs.enrolled
      /\ docs'.status = docs.status
      /\ \A p \in Owners : docs.rows[p] \subseteq docs'.rows[p]
      /\ \A p \in Owners \ {o} : docs'.rows[p] = docs.rows[p]
  BY <1>1 DEF ArtifactInv, ArtifactTypeOK, Documents
<1>4. PlanHolds'
  <2> SUFFICES ASSUME plan # Nil, plan' = plan, o \notin plan.inputs PROVE PlanHolds'
    BY <1>2 DEF PlanHolds
  <2>1. PlansClose(plan.command, plan.inputs) => PlansClose(plan.command, plan.inputs)'
    BY <1>3 DEF PlansClose
  <2>2. PlansSupersede(plan.command, plan.inputs) => PlansSupersede(plan.command, plan.inputs)'
    <3>1. ActiveControls(docs') = ActiveControls(docs)
      BY <1>3 DEF ActiveControls, Active
    <3> SUFFICES ASSUME PlansSupersede(plan.command, plan.inputs)
                 PROVE  PlansSupersede(plan.command, plan.inputs)'
      OBVIOUS
    <3>2. PICK old \in docs.shared, new \in docs.shared, at \in SUBSET Controls :
            /\ plan.command = [op |-> "supersede", old |-> old, new |-> new, at |-> at]
            /\ Succeeds(old, new)
            /\ ActiveControls(docs) \subseteq plan.inputs
            /\ \A x \in ActiveControls(docs) : old.id \in mentions[x] => x \in at
      BY DEF PlansSupersede
    <3> QED
      BY <1>2, <1>3, <3>1, <3>2 DEF PlansSupersede
  <2>3. PlansPromote(plan.command) => PlansPromote(plan.command)'
    BY <1>3 DEF PlansPromote, NewShared, NoCurrentRival
  <2>4. PlansReconcile(plan.command) => PlansReconcile(plan.command)'
    BY <1>3 DEF PlansReconcile
  <2>5. PlansShare(plan.command) => PlansShare(plan.command)'
    BY <1>3 DEF PlansShare, NewShared, NoCurrentRival
  <2> QED
    BY <1>3, <2>1, <2>2, <2>3, <2>4, <2>5
    DEF ArtifactInv, PlanHolds, PlansEnroll, PlansEnrolled, PlansRegister, PlansArchive
<1>5. RowsPointBack(docs')
  BY <1>3 DEF ArtifactInv, RowsPointBack
<1>6. ArtifactTypeOK'
  BY <1>2, <1>3 DEF ArtifactInv, ArtifactTypeOK
<1> QED
  BY <1>3, <1>4, <1>5, <1>6 DEF ArtifactInv

(***************************************************************************)
(* Writing: what the documents are once the command is written             *)
(***************************************************************************)
InOrder(d) ==
  /\ d \in Documents /\ IndexInOrder(d.shared) /\ RowsPointBack(d)
  /\ d.shared # {} => d.enrolled

\* A command that leaves the index alone and at most adds relations to rows.
LEMMA IndexAlone ==
  ASSUME InOrder(docs), NEW d \in Documents, d.shared = docs.shared, docs.enrolled => d.enrolled,
         \A o \in Owners : \A r \in docs.rows[o] :
            \E q \in d.rows[o] : q.id = r.id /\ r.rels \subseteq q.rels
  PROVE  InOrder(d)
<1>1. RowsPointBack(d)
  <2> SUFFICES ASSUME NEW s \in d.shared, NEW ref \in Targets(s.rels, "SUPERSEDES"), ref[1] \in Owners
               PROVE  \E r \in d.rows[ref[1]] :
                         r.id = ref[2] /\ <<"shared", s.id>> \in Targets(r.rels, "SUPERSEDED_BY")
    BY DEF RowsPointBack
  <2>1. PICK r \in docs.rows[ref[1]] :
          r.id = ref[2] /\ <<"shared", s.id>> \in Targets(r.rels, "SUPERSEDED_BY")
    BY DEF InOrder, RowsPointBack
  <2>2. PICK q \in d.rows[ref[1]] : q.id = r.id /\ r.rels \subseteq q.rels
    OBVIOUS
  <2> QED
    BY <2>1, <2>2 DEF Targets
<1> QED
  BY <1>1 DEF InOrder

LEMMA DeclaresIndex ==
  ASSUME NEW e \in Documents, NEW i \in Indexes
  PROVE  LET d == [e EXCEPT !.declared = @ \cup {i}] IN
         /\ d \in Documents /\ d.shared = e.shared /\ d.archive = e.archive
         /\ d.rows = e.rows /\ d.status = e.status /\ d.enrolled = e.enrolled
<1>1. e.declared \cup {i} \in SUBSET Indexes
  BY DEF Documents
<1> QED
  BY <1>1 DEF Documents

LEMMA AddsShared ==
  ASSUME NEW e \in Documents, NEW x \in Entries
  PROVE  LET d == AddShared(e, x) IN
         /\ d \in Documents /\ d.shared = e.shared \cup {x} /\ d.archive = e.archive
         /\ d.rows = e.rows /\ d.status = e.status /\ d.enrolled = e.enrolled
<1> DEFINE f == [e EXCEPT !.shared = @ \cup {x}]
<1>1. AddShared(e, x) = [f EXCEPT !.declared = @ \cup {"shared"}]
  BY DEF AddShared, Documents
<1>2. /\ f \in Documents /\ f.shared = e.shared \cup {x} /\ f.archive = e.archive
      /\ f.rows = e.rows /\ f.status = e.status /\ f.enrolled = e.enrolled
  BY DEF Documents
<1>3. "shared" \in Indexes
  BY DEF Indexes
<1> HIDE DEF f
<1> QED
  BY <1>1, <1>2, <1>3, DeclaresIndex

LEMMA EnrollResult ==
  ASSUME InOrder(docs), NEW c, PlansEnroll(c)
  PROVE  LET d == Result(docs, c) IN
         /\ InOrder(d) /\ d.shared = docs.shared /\ d.archive = docs.archive
         /\ d.rows = docs.rows /\ d.status = docs.status
<1>1. PICK indexes \in SUBSET Indexes : c = [op |-> "enroll", indexes |-> indexes]
  BY DEF PlansEnroll
<1>2. Result(docs, c) = [docs EXCEPT !.enrolled = TRUE, !.declared = indexes]
  BY <1>1 DEF Result
<1>3. docs \in Documents
  BY DEF InOrder
<1>4. LET d == Result(docs, c) IN
      /\ d \in Documents /\ d.shared = docs.shared /\ d.archive = docs.archive
      /\ d.rows = docs.rows /\ d.status = docs.status /\ d.enrolled = TRUE
  BY <1>2, <1>3 DEF Documents
<1> QED
  BY <1>4, IndexAlone

LEMMA RegisterResult ==
  ASSUME InOrder(docs), NEW c, PlansRegister(c)
  PROVE  LET d == Result(docs, c) IN
         /\ InOrder(d) /\ d.shared = docs.shared /\ d.archive = docs.archive /\ d.status = docs.status
         /\ d.enrolled = docs.enrolled
<1>1. PICK o \in Owners, r \in OwnerOffers, y \in Dispositions, h \in Contents \cup {Nil} :
        c = [op |-> "register", owner |-> o, offer |-> r, disposition |-> y, hash |-> h]
  BY DEF PlansRegister
<1>2. Registered(c) \in Rows
  <2>1. c.offer \in OwnerOffers /\ c.hash \in Contents \cup {Nil} /\ c.disposition \in Dispositions
    BY <1>1
  <2> QED
    BY <2>1, RegisteredRow
<1>3. PICK row \in Rows : row = Registered(c)
  BY <1>2
<1>4. Result(docs, c) = [docs EXCEPT !.rows[o] = @ \cup {row}]
  BY <1>1, <1>3 DEF Result
<1>5. docs \in Documents
  BY DEF InOrder
<1>6. LET d == Result(docs, c) IN
      /\ d \in Documents /\ d.shared = docs.shared /\ d.archive = docs.archive
      /\ d.status = docs.status /\ d.enrolled = docs.enrolled
      /\ \A p \in Owners : docs.rows[p] \subseteq d.rows[p]
  BY <1>4, <1>5 DEF Documents
<1> QED
  BY <1>6, IndexAlone

LEMMA ArchiveResult ==
  ASSUME InOrder(docs), NEW c, PlansArchive(c)
  PROVE  LET d == Result(docs, c) IN
         /\ InOrder(d) /\ d.shared = docs.shared /\ d.status = docs.status
         /\ d.enrolled = docs.enrolled
<1>1. PICK x \in ArchiveOffers : c = [op |-> "archive", offer |-> x]
  BY DEF PlansArchive
<1>2. Result(docs, c) = [docs EXCEPT !.archive = @ \cup {x}, !.declared = @ \cup {"archive"}]
  BY <1>1 DEF Result
<1>3. docs \in Documents
  BY DEF InOrder
<1>4. LET d == Result(docs, c) IN
      /\ d \in Documents /\ d.shared = docs.shared
      /\ d.rows = docs.rows /\ d.status = docs.status /\ d.enrolled = docs.enrolled
  <2> DEFINE e == [docs EXCEPT !.archive = @ \cup {x}]
  <2>1. Result(docs, c) = [e EXCEPT !.declared = @ \cup {"archive"}]
    BY <1>2, <1>3 DEF Documents
  <2>2. /\ e \in Documents /\ e.shared = docs.shared /\ e.rows = docs.rows
        /\ e.status = docs.status /\ e.enrolled = docs.enrolled
    BY <1>3 DEF Documents
  <2>3. "archive" \in Indexes
    BY DEF Indexes
  <2> HIDE DEF e
  <2> QED
    BY <2>1, <2>2, <2>3, DeclaresIndex
<1> QED
  BY <1>4, IndexAlone

LEMMA ReconcileResult ==
  ASSUME InOrder(docs), NEW c, PlansReconcile(c)
  PROVE  LET d == Result(docs, c) IN
         /\ InOrder(d) /\ d.shared = docs.shared /\ d.archive = docs.archive /\ d.status = docs.status
         /\ d.enrolled = docs.enrolled
<1>1. PICK o \in Owners : \E r \in docs.rows[o], y \in Dispositions :
        c = [op |-> "reconcile", owner |-> o, row |-> r, disposition |-> y]
  BY DEF PlansReconcile
<1>2. PICK r \in docs.rows[o], y \in Dispositions :
        c = [op |-> "reconcile", owner |-> o, row |-> r, disposition |-> y]
  BY <1>1
<1> DEFINE row == [r EXCEPT !.disposition = y]
<1>3. Result(docs, c) = [docs EXCEPT !.rows[o] = (@ \ {r}) \cup {row}]
  BY <1>2 DEF Result, ChangeRow
<1>4. docs \in Documents /\ r \in Rows
  BY DEF InOrder, Documents
<1>5. row \in Rows /\ row.id = r.id /\ row.rels = r.rels
  BY <1>4 DEF Rows
<1> HIDE DEF row
<1>6. LET d == Result(docs, c) IN
      /\ d \in Documents /\ d.shared = docs.shared /\ d.archive = docs.archive
      /\ d.status = docs.status /\ d.enrolled = docs.enrolled
      /\ \A p \in Owners \ {o} : d.rows[p] = docs.rows[p]
      /\ d.rows[o] = (docs.rows[o] \ {r}) \cup {row}
  BY <1>3, <1>4, <1>5 DEF Documents
<1>7. LET d == Result(docs, c) IN
      \A p \in Owners : \A q \in docs.rows[p] : \E u \in d.rows[p] : u.id = q.id /\ q.rels \subseteq u.rels
  BY <1>5, <1>6
<1> QED
  BY <1>6, <1>7, IndexAlone

LEMMA CloseResult ==
  ASSUME InOrder(docs), NEW c, NEW inputs, PlansClose(c, inputs)
  PROVE  LET d == Result(docs, c) IN
         /\ InOrder(d) /\ d.shared = docs.shared /\ d.archive = docs.archive /\ d.rows = docs.rows
         /\ \A o \in Owners : docs.enrolled /\ docs.status[o] = "ACTIVE" /\ d.status[o] = "DONE" =>
              \A r \in docs.rows[o] : r.disposition # "UNRESOLVED"
<1>1. PICK o \in Owners :
        /\ c = [op |-> "close", owner |-> o]
        /\ docs.enrolled /\ docs.status[o] = "ACTIVE" =>
             \A r \in docs.rows[o] : r.disposition # "UNRESOLVED"
  BY DEF PlansClose
<1>2. Result(docs, c) = [docs EXCEPT !.status[o] = "DONE"]
  BY <1>1 DEF Result
<1>3. docs \in Documents
  BY DEF InOrder
<1>4. LET d == Result(docs, c) IN
      /\ d \in Documents /\ d.shared = docs.shared /\ d.archive = docs.archive
      /\ d.rows = docs.rows /\ d.enrolled = docs.enrolled
      /\ \A p \in Owners \ {o} : d.status[p] = docs.status[p]
  BY <1>2, <1>3 DEF Documents
<1>5. InOrder(Result(docs, c))
  BY <1>4, IndexAlone
<1> QED
  BY <1>1, <1>4, <1>5

\* The three commands that write the shared index.
LEMMA ShareResult ==
  ASSUME InOrder(docs), docs.enrolled, NEW c, PlansShare(c),
         Result(docs, c).enrolled => RelationsHold(Result(docs, c))
  PROVE  LET d == Result(docs, c) IN
         /\ InOrder(d) /\ d.status = docs.status /\ d.enrolled
         /\ \A t \in d.shared \ docs.shared : \A s \in docs.shared : s.id # t.id
<1>1. PICK s \in SharedOffers, status \in {"CURRENT", "SUPERSEDED"} :
        /\ c = [op |-> "share", offer |-> s, status |-> status]
        /\ NewShared(s) /\ (status = "CURRENT" => NoCurrentRival(s))
  BY DEF PlansShare
<1> DEFINE x == [id |-> s.id, scope |-> s.scope, at |-> s.at, status |-> status, source |-> s.source,
                 rels |-> s.rels \cup (IF status = "CURRENT" THEN {SourceOfTruth} ELSE {})]
           d == Result(docs, c)
<1>2. d = AddShared(docs, x)
  BY <1>1 DEF Result, Shared
<1>3. docs \in Documents /\ IndexInOrder(docs.shared)
  BY DEF InOrder
<1>4. x \in Entries
  BY SuccessionRelations, PlacesAssumption DEF Entries, SharedIds
<1>5. x.id = s.id /\ x.scope = s.scope /\ x.status = status
  OBVIOUS
<1> HIDE DEF x
<1>6. /\ d \in Documents /\ d.shared = docs.shared \cup {x} /\ d.rows = docs.rows
      /\ d.status = docs.status /\ d.enrolled = docs.enrolled
  BY <1>2, <1>3, <1>4, AddsShared
<1> HIDE DEF d
<1>7. RelationsHold(d)
  BY <1>6 DEF d
<1>8. \A t \in docs.shared : t.id # x.id
  BY <1>1, <1>5 DEF NewShared
<1>9. /\ \A ref \in Targets(x.rels, "SUPERSEDED_BY") : ref[1] # "shared"
      /\ \A ref \in Targets(x.rels, "SUPERSEDES") : ref[1] # "shared"
  BY <1>3, <1>6, <1>7, <1>8, NewIsUnrelated DEF IndexInOrder
<1>10. x.status = "CURRENT" => \A t \in docs.shared : t.status = "CURRENT" => ~SameScope(x, t)
  BY <1>1, <1>5 DEF NoCurrentRival, SameScope
<1>11. docs.shared \in SUBSET Entries
  BY <1>3 DEF Documents
<1>12. IndexInOrder(docs.shared \cup {x})
  BY <1>3, <1>4, <1>8, <1>9, <1>10, <1>11, AddKeeps
<1>13. InOrder(d)
  BY <1>6, <1>7, <1>12, AuditedPointBack DEF InOrder
<1> QED
  BY <1>6, <1>8, <1>13 DEF d

LEMMA PromoteResult ==
  ASSUME InOrder(docs), docs.enrolled, NEW c, PlansPromote(c),
         Result(docs, c).enrolled => RelationsHold(Result(docs, c))
  PROVE  LET d == Result(docs, c) IN
         /\ InOrder(d) /\ d.status = docs.status /\ d.enrolled
         /\ \A t \in d.shared \ docs.shared : \A s \in docs.shared : s.id # t.id
<1>1. PICK o \in Owners : \E r \in docs.rows[o], s \in SharedOffers :
        /\ c = [op |-> "promote", owner |-> o, row |-> r, offer |-> s]
        /\ NewShared(s) /\ NoCurrentRival(s)
  BY DEF PlansPromote
<1>2. PICK r \in docs.rows[o], s \in SharedOffers :
        /\ c = [op |-> "promote", owner |-> o, row |-> r, offer |-> s]
        /\ NewShared(s) /\ NoCurrentRival(s)
  BY <1>1
<1> DEFINE source == <<o, r.id>>
           x == [id |-> s.id, scope |-> s.scope, at |-> r.at, status |-> "CURRENT", source |-> source,
                 rels |-> {SourceOfTruth, Relation("SUPERSEDES", source)}]
           row == [r EXCEPT !.disposition = "PROMOTE_SHARED",
                     !.rels = @ \cup {Relation("SUPERSEDED_BY", <<"shared", s.id>>)}]
           d == Result(docs, c)
<1>3. d = AddShared([docs EXCEPT !.rows[o] = (@ \ {r}) \cup {row}], x)
  BY <1>2 DEF Result, Promoted, ChangeRow
<1>4. docs \in Documents /\ IndexInOrder(docs.shared) /\ r \in Rows
  BY DEF InOrder, Documents
<1>5. source \in Owners \X RowIds /\ r.at \in Locators /\ s.id \in SharedIds
  BY <1>4 DEF Rows, SharedIds
<1>6. x \in Entries
  <2>1. {SourceOfTruth, Relation("SUPERSEDES", source)} \subseteq Relations
    BY <1>5, SuccessionRelations
  <2> HIDE DEF source
  <2> QED
    BY <2>1, <1>5 DEF Entries
<1>7. row \in Rows
  <2>1. Relation("SUPERSEDED_BY", <<"shared", s.id>>) \in Relations
    BY <1>5, SuccessionRelations
  <2> QED
    BY <2>1, <1>4 DEF Rows, Dispositions
<1>8. x.id = s.id /\ x.scope = s.scope /\ x.status = "CURRENT"
      /\ x.rels = {SourceOfTruth, Relation("SUPERSEDES", source)}
  OBVIOUS
<1>9. /\ \A ref \in Targets(x.rels, "SUPERSEDED_BY") : ref[1] # "shared"
      /\ \A ref \in Targets(x.rels, "SUPERSEDES") : ref[1] # "shared"
  <2>1. Targets(x.rels, "SUPERSEDED_BY") = {} /\ Targets(x.rels, "SUPERSEDES") = {source}
    <3>1. \A y \in x.rels : y.type # "SUPERSEDED_BY" /\ (y.type = "SUPERSEDES" => y.of = source)
      BY <1>8 DEF Relation, SourceOfTruth
    <3>2. Relation("SUPERSEDES", source) \in x.rels
      BY <1>8
    <3>3. Relation("SUPERSEDES", source).type = "SUPERSEDES" /\ Relation("SUPERSEDES", source).of = source
      BY DEF Relation
    <3> QED
      BY <3>1, <3>2, <3>3 DEF Targets
  <2>2. source[1] # "shared"
    BY OwnersAreNoIndex
  <2> QED
    BY <2>1, <2>2
<1> HIDE DEF x, row, source
<1>10. /\ d \in Documents /\ d.shared = docs.shared \cup {x}
       /\ d.status = docs.status /\ d.enrolled = docs.enrolled
  <2> DEFINE e == [docs EXCEPT !.rows[o] = (@ \ {r}) \cup {row}]
  <2>1. /\ e \in Documents /\ e.shared = docs.shared
        /\ e.status = docs.status /\ e.enrolled = docs.enrolled
    BY <1>4, <1>7 DEF Documents
  <2> HIDE DEF e
  <2> QED
    <3>1. d = AddShared(e, x)
      BY <1>3 DEF e
    <3> HIDE DEF d
    <3>2. d.shared = e.shared \cup {x} /\ d \in Documents /\ d.status = e.status /\ d.enrolled = e.enrolled
      BY <1>6, <2>1, <3>1, AddsShared
    <3> QED
      BY <2>1, <3>2
<1> HIDE DEF d
<1>11. RelationsHold(d)
  BY <1>10 DEF d
<1>12. \A t \in docs.shared : t.id # x.id
  BY <1>2, <1>8 DEF NewShared
<1>13. x.status = "CURRENT" => \A t \in docs.shared : t.status = "CURRENT" => ~SameScope(x, t)
  BY <1>2, <1>8 DEF NoCurrentRival, SameScope
<1>14. docs.shared \in SUBSET Entries
  BY <1>4 DEF Documents
<1>15. IndexInOrder(docs.shared \cup {x})
  BY <1>4, <1>6, <1>9, <1>12, <1>13, <1>14, AddKeeps
<1>16. InOrder(d)
  BY <1>10, <1>11, <1>15, AuditedPointBack DEF InOrder
<1> QED
  BY <1>10, <1>12, <1>16 DEF d

LEMMA SupersedeResult ==
  ASSUME InOrder(docs), docs.enrolled, NEW c, NEW inputs, PlansSupersede(c, inputs),
         Result(docs, c).enrolled => RelationsHold(Result(docs, c))
  PROVE  LET d == Result(docs, c) IN
         /\ InOrder(d) /\ d.status = docs.status /\ d.enrolled
         /\ d.shared = Exchanged(docs.shared, c.old, c.new)
<1>1. PICK old \in docs.shared, new \in docs.shared, at \in SUBSET Controls :
        /\ c = [op |-> "supersede", old |-> old, new |-> new, at |-> at]
        /\ Succeeds(old, new)
  BY DEF PlansSupersede
<1> DEFINE d == Result(docs, c)
<1>2. d = [docs EXCEPT !.shared = (@ \ {old, new}) \cup {OldEntry(old, new), NewEntry(old, new)}]
  BY <1>1 DEF Result, Superseded, OldEntry, NewEntry, Without, Ref
<1>3. docs \in Documents /\ IndexInOrder(docs.shared) /\ docs.shared \in SUBSET Entries
  BY DEF InOrder, Documents
<1>4. IndexInOrder(Exchanged(docs.shared, old, new)) /\ Exchanged(docs.shared, old, new) \in SUBSET Entries
  BY <1>1, <1>3, ExchangeKeeps
<1>5. /\ d \in Documents /\ d.shared = Exchanged(docs.shared, old, new)
      /\ d.status = docs.status /\ d.enrolled = docs.enrolled
  <2>1. d = [docs EXCEPT !.shared = Exchanged(docs.shared, old, new)]
    BY <1>2, <1>3 DEF Exchanged, Documents
  <2> HIDE DEF d
  <2> QED
    BY <2>1, <1>3, <1>4 DEF Documents
<1> HIDE DEF d
<1>6. InOrder(d)
  <2>1. RelationsHold(d)
    BY <1>5 DEF d
  <2> QED
    BY <2>1, <1>4, <1>5, AuditedPointBack DEF InOrder
<1> QED
  BY <1>1, <1>5, <1>6 DEF d

LEMMA InvIsInOrder == ArtifactInv => InOrder(docs)
BY DEF ArtifactInv, ArtifactTypeOK, InOrder

LEMMA OpOf ==
  ASSUME NEW c, NEW inputs
  PROVE  /\ PlansEnroll(c) => c.op = "enroll"
         /\ PlansRegister(c) => c.op = "register"
         /\ PlansShare(c) => c.op = "share"
         /\ PlansArchive(c) => c.op = "archive"
         /\ PlansPromote(c) => c.op = "promote"
         /\ PlansSupersede(c, inputs) => c.op = "supersede"
         /\ PlansReconcile(c) => c.op = "reconcile"
         /\ PlansClose(c, inputs) => c.op = "close"
<1>1. PlansEnroll(c) => c.op = "enroll"
  BY DEF PlansEnroll
<1>2. PlansRegister(c) => c.op = "register"
  BY DEF PlansRegister
<1>3. PlansShare(c) => c.op = "share"
  BY DEF PlansShare
<1>4. PlansArchive(c) => c.op = "archive"
  BY DEF PlansArchive
<1>5. PlansPromote(c) => c.op = "promote"
  BY DEF PlansPromote
<1>6. PlansSupersede(c, inputs) => c.op = "supersede"
  BY DEF PlansSupersede
<1>7. PlansReconcile(c) => c.op = "reconcile"
  BY DEF PlansReconcile
<1>8. PlansClose(c, inputs) => c.op = "close"
  BY DEF PlansClose
<1> QED
  BY <1>1, <1>2, <1>3, <1>4, <1>5, <1>6, <1>7, <1>8

\* Every command leaves the documents in order, and says what it writes.
LEMMA ResultInOrder ==
  ASSUME ArtifactInv, plan # Nil, Result(docs, plan.command).enrolled =>
                                    AuditPasses(Result(docs, plan.command), payload)
  PROVE  LET c == plan.command
             d == Result(docs, c)
         IN  /\ InOrder(d)
             /\ \/ PlansEnroll(c) \/ PlansClose(c, plan.inputs)
                \/ docs.enrolled /\ AuditPasses(d, payload) /\ PlansEnrolled(c, plan.inputs)
<1> DEFINE c == plan.command
           d == Result(docs, c)
<1>1. InOrder(docs) /\ docs \in Documents
  BY InvIsInOrder DEF InOrder
<1>2. \/ PlansEnroll(c) \/ PlansClose(c, plan.inputs)
      \/ docs.enrolled /\ PlansEnrolled(c, plan.inputs)
  BY DEF ArtifactInv, PlanHolds
<1>3. d.enrolled => AuditPasses(d, payload) /\ RelationsHold(d)
  BY DEF AuditPasses
<1> HIDE DEF c
<1>4. ASSUME PlansEnroll(c) \/ PlansClose(c, plan.inputs) PROVE InOrder(d)
  BY <1>1, <1>4, EnrollResult, CloseResult
<1>5. ASSUME docs.enrolled, PlansRegister(c) \/ PlansArchive(c) \/ PlansReconcile(c)
      PROVE  InOrder(d) /\ d.enrolled
  BY <1>1, <1>5, RegisterResult, ArchiveResult, ReconcileResult
<1>6. ASSUME docs.enrolled, PlansShare(c) \/ PlansPromote(c) \/ PlansSupersede(c, plan.inputs)
      PROVE  InOrder(d) /\ d.enrolled
  BY <1>1, <1>3, <1>6, ShareResult, PromoteResult, SupersedeResult
<1> HIDE DEF d
<1>7. ASSUME docs.enrolled, PlansEnrolled(c, plan.inputs) PROVE InOrder(d) /\ d.enrolled
  BY <1>5, <1>6, <1>7 DEF PlansEnrolled
<1> QED
  BY <1>2, <1>3, <1>4, <1>7 DEF c, d

\* What is written is the result of the plan, audited, or nothing.
LEMMA Written ==
  ASSUME ArtifactInv, WriteOut
  PROVE  LET c == plan.command
             d == Result(docs, c)
         IN  /\ plan' = Nil /\ payload' = payload /\ edits' = edits
             /\ \/ docs' = docs /\ mentions' = mentions
                \/ /\ docs' = d /\ mentions' = Rewritten(c) /\ InOrder(d)
                   /\ \/ PlansEnroll(c) \/ PlansClose(c, plan.inputs)
                      \/ docs.enrolled /\ AuditPasses(d, payload) /\ PlansEnrolled(c, plan.inputs)
<1> DEFINE c == plan.command
           d == Result(docs, c)
<1>1. /\ plan # Nil /\ plan' = Nil /\ payload' = payload /\ edits' = edits
      /\ \/ docs' = docs /\ mentions' = mentions
         \/ (d.enrolled => AuditPasses(d, payload)) /\ docs' = d /\ mentions' = Rewritten(c)
  BY DEF WriteOut
<1>2. (d.enrolled => AuditPasses(d, payload)) =>
        /\ InOrder(d)
        /\ \/ PlansEnroll(c) \/ PlansClose(c, plan.inputs)
           \/ docs.enrolled /\ AuditPasses(d, payload) /\ PlansEnrolled(c, plan.inputs)
  BY <1>1, ResultInOrder
<1> HIDE DEF c, d
<1> QED
  BY <1>1, <1>2 DEF c, d

LEMMA MentionsRewritten ==
  ASSUME ArtifactInv, plan # Nil
  PROVE  Rewritten(plan.command) \in [Controls -> SUBSET SharedIds]
<1> DEFINE c == plan.command
<1>1. mentions \in [Controls -> SUBSET SharedIds] /\ docs.shared \in SUBSET Entries
  BY DEF ArtifactInv, ArtifactTypeOK, Documents
<1>2. CASE c.op # "supersede"
  BY <1>1, <1>2 DEF Rewritten
<1>3. CASE c.op = "supersede"
  <2>1. PlansSupersede(c, plan.inputs)
    BY <1>3, OpOf DEF ArtifactInv, PlanHolds, PlansEnrolled
  <2>2. c.new \in docs.shared
    BY <2>1 DEF PlansSupersede
  <2>3. c.new.id \in SharedIds
    BY <1>1, <2>2 DEF Entries
  <2> HIDE DEF c
  <2>4. Rewritten(c) = [x \in Controls |-> IF x \in c.at THEN (mentions[x] \ {c.old.id}) \cup {c.new.id}
                                           ELSE mentions[x]]
    BY <1>3 DEF Rewritten
  <2> QED
    BY <1>1, <2>3, <2>4 DEF c
<1> QED
  BY <1>2, <1>3

LEMMA WriteOutKeeps == ASSUME ArtifactInv, WriteOut PROVE ArtifactInv'
<1>1. plan # Nil /\ plan' = Nil /\ payload' = payload /\ edits' = edits
  BY Written DEF WriteOut
<1>2. InOrder(docs)' /\ mentions' \in [Controls -> SUBSET SharedIds]
  <2>1. CASE docs' = docs /\ mentions' = mentions
    BY <2>1, InvIsInOrder DEF ArtifactInv, ArtifactTypeOK, InOrder
  <2>2. CASE docs' = Result(docs, plan.command) /\ mentions' = Rewritten(plan.command)
             /\ InOrder(Result(docs, plan.command))
    BY <1>1, <2>2, MentionsRewritten DEF InOrder
  <2> QED
    BY <2>1, <2>2, Written
<1>3. ArtifactTypeOK' /\ PlanHolds'
  BY <1>1, <1>2 DEF ArtifactInv, ArtifactTypeOK, PlanHolds, InOrder
<1> QED
  BY <1>2, <1>3 DEF ArtifactInv, InOrder

LEMMA ArtifactInvStep == ArtifactInv /\ [ArtifactNext]_artifactVars => ArtifactInv'
<1> SUFFICES ASSUME ArtifactInv, [ArtifactNext]_artifactVars PROVE ArtifactInv'
  OBVIOUS
<1>1. CASE Planning
  BY <1>1, PlanForIndexKeeps, PlanForOwnerKeeps DEF Planning
<1>2. CASE WriteOut
  BY <1>2, WriteOutKeeps
<1>3. ASSUME NEW p \in Phases, PhaseStep(p) PROVE ArtifactInv'
  <2>1. p \in Owners
    BY DEF Owners
  <2>2. StatusOnOpening \in {"ACTIVE", "OPEN", "PAUSED"}
    BY DEF StatusOnOpening
  <2> QED
    BY <1>3, <2>1, <2>2, ShiftKeeps DEF PhaseStep, OpenPhase, ResumePhase, PausePhase
<1>4. ASSUME NEW s \in Sessions, OpenSession(s) PROVE ArtifactInv'
  BY <1>4, ShiftKeeps DEF OpenSession, Owners
<1>5. ASSUME NEW l \in Locators, EditPayload(l) PROVE ArtifactInv'
  BY <1>5, EditPayloadKeeps
<1>6. ASSUME NEW c \in Controls, Mention(c) PROVE ArtifactInv'
  BY <1>6, MentionKeeps
<1>7. ASSUME NEW o \in Owners, WriteRow(o) PROVE ArtifactInv'
  BY <1>7, WriteRowKeeps
<1>8. CASE UNCHANGED artifactVars
  <2>1. docs' = docs /\ mentions' = mentions /\ payload' = payload /\ plan' = plan /\ edits' = edits
    BY <1>8 DEF artifactVars
  <2>2. PlanHolds'
    BY <2>1, PlanStays DEF ArtifactInv
  <2> QED
    BY <2>1, <2>2 DEF ArtifactInv, ArtifactTypeOK, RowsPointBack
<1> QED
  BY <1>1, <1>2, <1>3, <1>4, <1>5, <1>6, <1>7, <1>8 DEF ArtifactNext

LEMMA ArtifactInvAlways == ArtifactSpec => []ArtifactInv
BY ArtifactInitInv, ArtifactInvStep, PTL DEF ArtifactSpec

\* What each kind of step does to the shared index, the states and the rows.
LEMMA WrittenEffect ==
  ASSUME ArtifactInv, WriteOut
  PROVE  LET c == plan.command IN
         \/ docs' = docs /\ mentions' = mentions
         \/ /\ PlansClose(c, plan.inputs)
            /\ docs'.shared = docs.shared /\ docs'.archive = docs.archive /\ docs'.rows = docs.rows
            /\ \A o \in Owners : docs.enrolled /\ docs.status[o] = "ACTIVE" /\ docs'.status[o] = "DONE" =>
                 \A r \in docs.rows[o] : r.disposition # "UNRESOLVED"
         \/ /\ PlansEnroll(c) /\ docs'.status = docs.status
            /\ docs'.shared = docs.shared /\ docs'.archive = docs.archive
         \/ /\ docs.enrolled /\ PlansEnrolled(c, plan.inputs) /\ AuditPasses(docs', payload)
            /\ docs'.status = docs.status /\ mentions' = Rewritten(c)
            /\ \/ docs'.shared = docs.shared
               \/ \A t \in docs'.shared \ docs.shared : \A s \in docs.shared : s.id # t.id
               \/ PlansSupersede(c, plan.inputs) /\ docs'.shared = Exchanged(docs.shared, c.old, c.new)
<1> DEFINE c == plan.command
           d == Result(docs, c)
<1>1. \/ docs' = docs /\ mentions' = mentions
      \/ /\ docs' = d /\ mentions' = Rewritten(c) /\ InOrder(d)
         /\ \/ PlansEnroll(c) \/ PlansClose(c, plan.inputs)
            \/ docs.enrolled /\ AuditPasses(d, payload) /\ PlansEnrolled(c, plan.inputs)
  BY Written
<1>2. InOrder(docs)
  BY InvIsInOrder
<1>3. AuditPasses(d, payload) => RelationsHold(d)
  BY DEF AuditPasses
<1> HIDE DEF c
<1>4. ASSUME PlansEnroll(c)
      PROVE  d.shared = docs.shared /\ d.archive = docs.archive /\ d.status = docs.status
  BY <1>2, <1>4, EnrollResult
<1>5. ASSUME PlansClose(c, plan.inputs)
      PROVE  /\ d.shared = docs.shared /\ d.archive = docs.archive /\ d.rows = docs.rows
             /\ \A o \in Owners : docs.enrolled /\ docs.status[o] = "ACTIVE" /\ d.status[o] = "DONE" =>
                  \A r \in docs.rows[o] : r.disposition # "UNRESOLVED"
  BY <1>2, <1>5, CloseResult
<1>6. ASSUME docs.enrolled, PlansRegister(c) \/ PlansArchive(c) \/ PlansReconcile(c)
      PROVE  d.shared = docs.shared /\ d.status = docs.status
  BY <1>2, <1>6, RegisterResult, ArchiveResult, ReconcileResult
<1>7. ASSUME docs.enrolled, RelationsHold(d), PlansShare(c) \/ PlansPromote(c)
      PROVE  /\ d.status = docs.status
             /\ \A t \in d.shared \ docs.shared : \A s \in docs.shared : s.id # t.id
  BY <1>2, <1>7, ShareResult, PromoteResult
<1>8. ASSUME docs.enrolled, RelationsHold(d), PlansSupersede(c, plan.inputs)
      PROVE  d.status = docs.status /\ d.shared = Exchanged(docs.shared, c.old, c.new)
  BY <1>2, <1>8, SupersedeResult
<1> HIDE DEF d
<1>9. ASSUME docs.enrolled, RelationsHold(d), PlansEnrolled(c, plan.inputs)
      PROVE  /\ d.status = docs.status
             /\ \/ d.shared = docs.shared
                \/ \A t \in d.shared \ docs.shared : \A s \in docs.shared : s.id # t.id
                \/ PlansSupersede(c, plan.inputs) /\ d.shared = Exchanged(docs.shared, c.old, c.new)
  BY <1>6, <1>7, <1>8, <1>9 DEF PlansEnrolled
<1>10. CASE docs' = docs /\ mentions' = mentions
  BY <1>10
<1>11. CASE docs' = d /\ PlansEnroll(c)
  BY <1>4, <1>11 DEF c
<1>12. CASE docs' = d /\ PlansClose(c, plan.inputs)
  BY <1>5, <1>12 DEF c
<1>13. CASE /\ docs' = d /\ mentions' = Rewritten(c)
            /\ docs.enrolled /\ AuditPasses(d, payload) /\ PlansEnrolled(c, plan.inputs)
  BY <1>3, <1>9, <1>13 DEF c
<1> QED
  BY <1>1, <1>10, <1>11, <1>12, <1>13

\* Only what is written changes the shared index, or closes an owner.
LEMMA OtherSteps ==
  ASSUME ArtifactInv, [ArtifactNext]_artifactVars, ~WriteOut
  PROVE  /\ docs'.shared = docs.shared /\ docs'.archive = docs.archive
         /\ \A o \in Owners : docs'.status[o] = "DONE" => docs.status[o] = "DONE"
<1>1. docs \in Documents
  BY DEF ArtifactInv, ArtifactTypeOK
<1>2. ASSUME NEW o \in Owners, NEW from, NEW to \in {"ACTIVE", "OPEN", "PAUSED"}, Shift(o, from, to)
      PROVE  /\ docs'.shared = docs.shared /\ docs'.archive = docs.archive
             /\ \A p \in Owners : docs'.status[p] = "DONE" => docs.status[p] = "DONE"
  BY <1>1, <1>2 DEF Shift, Documents
<1>3. ASSUME NEW p \in Phases, PhaseStep(p)
      PROVE  \E o \in Owners, from \in {"absent", "PAUSED", "OPEN", "ACTIVE"}, to \in {"ACTIVE", "OPEN", "PAUSED"} : Shift(o, from, to)
  BY <1>3 DEF PhaseStep, OpenPhase, ResumePhase, PausePhase, StatusOnOpening, Owners
<1>4. ASSUME NEW s \in Sessions, OpenSession(s)
      PROVE  \E o \in Owners, from \in {"absent"}, to \in {"ACTIVE"} : Shift(o, from, to)
  BY <1>4 DEF OpenSession, Owners
<1>5. ASSUME NEW o \in Owners, WriteRow(o)
      PROVE  docs'.shared = docs.shared /\ docs'.archive = docs.archive /\ docs'.status = docs.status
  BY <1>1, <1>5 DEF WriteRow, Documents
<1>6. ASSUME Planning \/ (\E l \in Locators : EditPayload(l)) \/ (\E c \in Controls : Mention(c))
                \/ UNCHANGED artifactVars
      PROVE  docs' = docs
  BY <1>6
  DEF Planning, PlanForIndex, PlanForOwner, PlanEnroll, PlanRegister, PlanShare, PlanArchive,
      PlanPromote, PlanSupersede, PlanReconcile, PlanClose, Plan, EditPayload, Mention, artifactVars
<1> QED
  BY <1>2, <1>3, <1>4, <1>5, <1>6 DEF ArtifactNext

(***************************************************************************)
(* The properties of the registries                                        *)
(***************************************************************************)
\* Types of the documents, the mentions, the payloads and the edits.
THEOREM ArtifactTypeOKHolds == ArtifactSpec => []ArtifactTypeOK
<1>1. ArtifactInv => ArtifactTypeOK
  BY DEF ArtifactInv
<1> QED
  BY <1>1, ArtifactInvAlways, PTL

\* One purpose has one source of truth, and the successors of an entry and of
\* a promoted row lead to it, whatever relations are registered (plan_promote,
\* plan_supersede, _plan_register_shared).
THEOREM SuccessionEndsAtCurrentAlways == ArtifactSpec => []SuccessionEndsAtCurrent
<1>1. ArtifactInv => SuccessionEndsAtCurrent
  <2> SUFFICES ASSUME ArtifactInv PROVE SuccessionEndsAtCurrent
    OBVIOUS
  <2>1. \A s, t \in docs.shared :
           s.status = "CURRENT" /\ t.status = "CURRENT" /\ s # t => Normal[s.scope] # Normal[t.scope]
    BY DEF ArtifactInv, IndexInOrder, OneIsCurrent, SameScope
  <2>2. ASSUME NEW s \in docs.shared, s.status = "CURRENT" \/ Succeeded(s)
        PROVE  \E t \in docs.shared :
                  /\ <<"shared", t.id>> \in Reach({<<"shared", s.id>>}, SuccessorEdges)
                  /\ t.status = "CURRENT" /\ Normal[t.scope] = Normal[s.scope]
    <3> DEFINE heirs == Reach({<<"shared", s.id>>}, SuccessorEdges)
               X == {i \in SharedIds : <<"shared", i>> \in heirs}
    <3>1. /\ <<"shared", s.id>> \in heirs
          /\ \A e \in SuccessorEdges : e[1] \in heirs => e[2] \in heirs
      BY ReachIsClosed
    <3>2. \A t \in docs.shared : t.id \in SharedIds
      BY DEF ArtifactInv, ArtifactTypeOK, Documents, Entries
    <3>3. StaysIn(X, docs.shared)
      <4> SUFFICES ASSUME NEW t \in docs.shared, t.id \in X,
                          NEW ref \in Targets(t.rels, "SUPERSEDED_BY"), ref[1] = "shared"
                   PROVE  ref[2] \in X
        BY DEF StaysIn
      <4>1. <<<<"shared", t.id>>, ref>> \in SuccessorEdges
        BY DEF SuccessorEdges
      <4>2. ref \in heirs
        BY <3>1, <4>1
      <4>3. PICK u \in docs.shared : ref = <<"shared", u.id>>
        BY DEF ArtifactInv, IndexInOrder, SuccessorsThere
      <4> QED
        BY <3>2, <4>2, <4>3
    <3>4. s.id \in X /\ X \in SUBSET SharedIds
      BY <3>1, <3>2
    <3> HIDE DEF X
    <3>5. PICK t \in docs.shared : t.id \in X /\ t.status = "CURRENT" /\ SameScope(t, s)
      BY <2>2, <3>3, <3>4 DEF ArtifactInv, IndexInOrder, HeirsAreIn
    <3> QED
      BY <3>5 DEF X, SameScope
  <2>3. \A s \in docs.shared : \A ref \in Targets(s.rels, "SUPERSEDES") : ref[1] \in Owners =>
           \E r \in docs.rows[ref[1]] : /\ r.id = ref[2]
                                        /\ <<"shared", s.id>> \in Targets(r.rels, "SUPERSEDED_BY")
    BY DEF ArtifactInv, RowsPointBack
  <2> QED
    BY <2>1, <2>2, <2>3 DEF SuccessionEndsAtCurrent
<1> QED
  BY <1>1, ArtifactInvAlways, PTL

\* The owner that was working is closed without an artifact left undecided
\* (artifact_close_gate, _artifact_aware_close).
THEOREM ClosedIsResolvedHolds == ArtifactSpec => ClosedIsResolved
<1>1. ArtifactInv /\ [ArtifactNext]_artifactVars =>
        [\A o \in Owners :
           /\ docs.enrolled
           /\ docs.status[o] = "ACTIVE"
           /\ docs'.status[o] = "DONE"
           => \A r \in docs'.rows[o] : r.disposition # "UNRESOLVED"]_artifactVars
  BY WrittenEffect, OtherSteps
<1> QED
  BY <1>1, ArtifactInvAlways, PTL DEF ArtifactSpec, ClosedIsResolved

\* No command adds to registries whose shared entries rest on a source that
\* was altered since it was frozen (audit_workspace follows references).
THEOREM SharedSourcesAreIntactHolds == ArtifactSpec => SharedSourcesAreIntact
<1>1. ASSUME ArtifactInv, [ArtifactNext]_artifactVars,
             docs'.shared # docs.shared \/ docs'.archive # docs.archive,
             NEW s \in docs'.shared, s.source[1] \in Owners,
             NEW r \in docs'.rows[s.source[1]], r.id = s.source[2], r.hash # Nil
      PROVE  payload'[r.at] = r.hash
  <2>1. WriteOut /\ AuditPasses(docs', payload) /\ payload' = payload
    BY <1>1, OtherSteps, WrittenEffect, Written
  <2>2. s.source \in {a.ref : a \in Artifacts(docs')}
    <3>1. s.source # External
      BY <1>1, OwnersAreNoIndex DEF External
    <3> QED
      BY <2>1, <3>1 DEF AuditPasses, RelationsHold
  <2>3. s.source[1] \in Parsed(docs')
    BY <1>1, <2>2, ArtifactOf
  <2>4. RegistryHolds(docs'.rows[s.source[1]], payload)
    BY <2>1, <2>3 DEF AuditPasses
  <2> QED
    BY <1>1, <2>1, <2>4 DEF RegistryHolds
<1>2. ArtifactInv /\ [ArtifactNext]_artifactVars =>
        [docs'.shared # docs.shared \/ docs'.archive # docs.archive =>
           \A s \in docs'.shared :
             s.source[1] \in Owners =>
               \A r \in docs'.rows[s.source[1]] :
                 r.id = s.source[2] /\ r.hash # Nil => payload'[r.at] = r.hash]_artifactVars
  BY <1>1
<1> QED
  BY <1>2, ArtifactInvAlways, PTL DEF ArtifactSpec, SharedSourcesAreIntact

\* Superseding an entry leaves no active control document that names it
\* (plan_supersede, _active_control_paths).
THEOREM ReferencesFollowHolds == ArtifactSpec => ReferencesFollow
<1>1. ASSUME ArtifactInv, [ArtifactNext]_artifactVars, NEW s \in docs.shared, s.status = "CURRENT",
             NEW t \in docs'.shared, t.id = s.id, t.status = "SUPERSEDED",
             NEW x \in {"project"} \cup Active(docs')
      PROVE  s.id \notin mentions'[x]
  <2>1. IdsAreUnique(docs.shared) /\ docs.shared \in SUBSET Entries
    BY <1>1, InvIsInOrder DEF InOrder, Documents, IndexInOrder
  <2>2. t \notin docs.shared
    BY <1>1, <2>1 DEF IdsAreUnique
  <2> DEFINE c == plan.command
  <2>3. /\ WriteOut /\ docs'.status = docs.status /\ mentions' = Rewritten(c)
        /\ PlansSupersede(c, plan.inputs) /\ docs'.shared = Exchanged(docs.shared, c.old, c.new)
    BY <1>1, <2>2, OtherSteps, WrittenEffect
  <2>4. /\ c.op = "supersede" /\ c.old \in docs.shared /\ c.new \in docs.shared
        /\ Succeeds(c.old, c.new)
        /\ \A y \in ActiveControls(docs) : c.old.id \in mentions[y] => y \in c.at
    BY <2>3 DEF PlansSupersede
  <2> HIDE DEF c
  <2>5. c.old.id # c.new.id
    BY <2>1, <2>4 DEF IdsAreUnique, Succeeds
  <2>6. s = c.old
    <3>1. t = OldEntry(c.old, c.new) \/ t = NewEntry(c.old, c.new)
      BY <2>2, <2>3 DEF Exchanged
    <3>2. t.id = c.old.id
      BY <1>1, <2>1, <2>4, <3>1, EntriesExchanged
    <3> QED
      BY <1>1, <2>1, <2>4, <3>2 DEF IdsAreUnique
  <2>7. x \in ActiveControls(docs) /\ x \in Controls
    BY <2>3 DEF ActiveControls, Active, Controls
  <2>8. mentions'[x] = IF x \in c.at THEN (mentions[x] \ {c.old.id}) \cup {c.new.id} ELSE mentions[x]
    BY <2>3, <2>4, <2>7 DEF Rewritten
  <2> QED
    BY <2>4, <2>5, <2>6, <2>7, <2>8
<1>2. ArtifactInv /\ [ArtifactNext]_artifactVars =>
        [\A s \in docs.shared :
           /\ s.status = "CURRENT"
           /\ \E t \in docs'.shared : t.id = s.id /\ t.status = "SUPERSEDED"
           => \A c \in {"project"} \cup Active(docs') : s.id \notin mentions'[c]]_artifactVars
  BY <1>1
<1> QED
  BY <1>2, ArtifactInvAlways, PTL DEF ArtifactSpec, ReferencesFollow
=============================================================================
