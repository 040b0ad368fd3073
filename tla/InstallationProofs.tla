------------------------- MODULE InstallationProofs -------------------------
(***************************************************************************)
(* Theorems about the installation: between operations it is gone or       *)
(* whole, a rollback that reaches its archive has restored its snapshot,   *)
(* and a request keeps the generation it works with.                       *)
(*                                                                         *)
(* The invariant InstInv says what each journal line guarantees.  Three    *)
(* parts of it carry the argument.  Whoever has a snapshot holds the lock, *)
(* so there is one such operation at most (OnlyHolder).  A snapshot is     *)
(* complete before anything changes, and what it holds is sound (Sound).   *)
(* From the line PREVALIDATE on, the journal's state says which part of    *)
(* the change is done (HolderFacts), which is all that another process     *)
(* knows that takes the operation up, while the process at work knows more *)
(* by where it is (PlaceOK).  The transaction directory is removed only in *)
(* the states COMMIT and, once restored, FAILED, both sound again          *)
(* (CommittedIsSound, RestoredIsSound), and until then nobody claims that  *)
(* the installation is in order.                                           *)
(***************************************************************************)
EXTENDS Installation, TLAPS

(***************************************************************************)
(* Types                                                                   *)
(***************************************************************************)
Undoing == {"UNDO", "TORN", "WIPE", "COPY", "REREG", "REPOINT", "RETOOL", "UNSTAGE", "ARCHIVE"}
Preparing == {"LOCK", "RECHECK", "REFUSED", "PLAN", "STAGE", "SNAPSHOT", "SNAPSHOT2", "PREVALIDATE"}
Doing == {"REMOVE", "PLACE", "REGISTER", "POINT", "ACTIVATE", "PROJECT", "READY", "CLEAN",
          "ENTRIES", "COMMIT", "AUDIT"}
Ending == {"DISCARD", "UNLOCK", "SCAN"}
Places == Undoing \cup Preparing \cup Doing \cup Ending
Recycling == {"MARK", "INVOKE", "VERIFIED", "DROP", "CLOSE"}
OperationRuns == [op : Operations, at : Places, how : {"EXECUTE", "RECOVER"}, undo : BOOLEAN]
RetirementRuns == [op : Retirements, at : Recycling, how : {"RETIRE"}, undo : {FALSE}]

Working == run # None /\ run \in OperationRuns
TypesOK ==
  /\ registry \in Registries /\ pointer \in GenerationOrNone /\ image \in Images
  /\ tool \in Projections /\ host \in HostFiles
  /\ lock \in Locks \cup {None}
  /\ plan \in [Operations -> Plans \cup {None}]
  /\ tx \in [Operations -> Transactions \cup {None}]
  /\ run \in OperationRuns \cup RetirementRuns \cup {None}
  /\ retire \in [Retirements -> Retiring \cup {None}]

(***************************************************************************)
(* What is in order                                                        *)
(***************************************************************************)
\* Nothing is installed, or one generation is, apart from the binding receipt.
GoneWith(s) ==
  /\ s.registry.status \in {"missing", "uninstalled"} /\ s.pointer = None
  /\ ActiveOf(s.registry.generations) = {} /\ \A t \in Tools : s.tool[t].manifest = None
WholeWith(s) ==
  /\ s.registry.status = "stable" /\ ActiveOf(s.registry.generations) = {s.pointer}
  /\ s.image[s.pointer] # "absent"
  /\ \A t \in Tools : s.tool[t] = [files |-> s.pointer, manifest |-> s.pointer]
Sound(s) ==
  /\ GoneWith(s) \/ WholeWith(s)
  /\ \A g \in Generations : s.registry.generations[g] # "absent" => s.image[g] # "absent"

NonIdle(r) == retire[r] # None /\ retire[r].status \notin {"COMMITTED", "ABORTED"}
Base ==
  /\ Gone \/ Whole
  /\ \A g \in Generations : registry.generations[g] # "absent" /\ image[g] = "absent" =>
       \E r \in Retirements : NonIdle(r) /\ retire[r].gen = g

(***************************************************************************)
(* The operation that has a snapshot                                       *)
(***************************************************************************)
Holder(o) == tx[o] # None /\ tx[o].snapshot = "COMPLETE"
Changing(o) == Holder(o) /\ tx[o].state # "SNAPSHOT"

Marked(o) ==
  IF plan[o].kind = "uninstall"
  THEN \A g \in Generations :
         /\ registry.generations[g] # "active"
         /\ registry.generations[g] # "absent" => plan[o].basis.registry.generations[g] # "absent"
  ELSE ActiveOf(registry.generations) = {plan[o].gen}
OthersThere(o) == plan[o].kind # "uninstall" =>
  \A g \in Generations \ {plan[o].gen} : registry.generations[g] # "absent" => image[g] # "absent"
TargetThere(o) == plan[o].kind # "uninstall" => image[plan[o].gen] # "absent"

ImagesBack(s) == \A g \in Generations : image[g] \in {s.image[g], "damaged"}
Back(s) ==
  /\ registry = s.registry /\ pointer = s.pointer /\ ImagesBack(s)
  /\ \A t \in Tools : /\ tool[t].manifest = s.tool[t].manifest
                      /\ s.tool[t].files # None => tool[t].files = s.tool[t].files

\* What the journal of an operation with a snapshot guarantees.
Onward == {"ACTIVATE", "POSTVALIDATE", "CLEAN", "COMMIT"}
HolderFacts(o) == LET x == tx[o] IN
  /\ x.saved \in Snapshots /\ Sound(x.saved)
  /\ x.state = "PREVALIDATE" => OthersThere(o) /\ (registry = plan[o].basis.registry \/ Marked(o))
  /\ x.state \in Onward => OthersThere(o) /\ TargetThere(o) /\ Marked(o) /\ pointer = Wanted(o)
  /\ x.state \in Onward \ {"ACTIVATE"} => ProjectionsHold(o)
  /\ x.state = "COMMIT" => registry = Cleaned(o)
  /\ x.restored => Back(x.saved)

JournalOK(o) == tx[o] # None => LET x == tx[o] IN
  /\ plan[o] \in Plans
  /\ x.snapshot # "NONE" => lock # None /\ lock.op = o
  /\ x.state \in {"SNAPSHOT", "PREVALIDATE", "ACTIVATE", "POSTVALIDATE", "CLEAN"} => x.snapshot = "COMPLETE"
  /\ x.state \in Untouched => x.snapshot # "COMPLETE"
  /\ x.restored => x.state = "FAILED" /\ x.failedAt = "ROLLBACK"

(***************************************************************************)
(* The process at work                                                     *)
(***************************************************************************)
StateAt(at) ==
  CASE at \in {"LOCK", "RECHECK"} -> {"DISCOVER"}
    [] at \in {"REFUSED", "PLAN"} -> {"LOCK"}
    [] at = "STAGE" -> {"PLAN"}
    [] at \in {"SNAPSHOT", "SNAPSHOT2"} -> {"STAGE"}
    [] at = "PREVALIDATE" -> {"SNAPSHOT"}
    [] at \in {"REMOVE", "PLACE", "REGISTER", "POINT", "ACTIVATE"} -> {"PREVALIDATE"}
    [] at = "PROJECT" -> {"ACTIVATE"}
    [] at = "READY" -> {"POSTVALIDATE"}
    [] at \in {"CLEAN", "ENTRIES", "COMMIT"} -> {"CLEAN"}
    [] at = "AUDIT" -> {"COMMIT"}
    [] at = "DISCARD" -> {"COMMIT", "FAILED"}
    [] at \in {"WIPE", "COPY", "REREG", "REPOINT", "RETOOL"} -> {"ROLLBACK"}
    [] at = "UNSTAGE" -> {"DISCOVER", "LOCK", "ROLLBACK"}
    [] at = "ARCHIVE" -> {"FAILED"}
    [] OTHER -> JournalStates
PlaceOK(o, at) == LET x == tx[o] IN
  /\ plan[o] \in Plans
  /\ IF at \in {"UNLOCK", "SCAN"} THEN x = None ELSE x # None /\ x.state \in StateAt(at)
  /\ at \in {"RECHECK", "REFUSED", "PLAN", "STAGE", "SNAPSHOT", "SNAPSHOT2"} => lock # None /\ lock.op = o
  /\ at \in Undoing => run.undo
  /\ at \in Undoing \ {"ARCHIVE"} => ~x.restored
  /\ at \in {"REMOVE", "PLACE"} => plan[o].kind # "uninstall"
  /\ at \in {"REMOVE", "PLACE", "REGISTER"} => registry = plan[o].basis.registry
  /\ at \in {"REGISTER", "POINT", "ACTIVATE"} => TargetThere(o)
  /\ at \in {"POINT", "ACTIVATE"} => Marked(o)
  /\ at = "ACTIVATE" => pointer = Wanted(o)
  /\ at \in {"ENTRIES", "COMMIT"} => registry = Cleaned(o)
  /\ at = "DISCARD" => /\ x.state = "COMMIT" \/ (run.undo /\ x.restored)
                       /\ Binding # None => audit.current = Binding
  /\ at \in {"WIPE", "COPY", "REREG", "REPOINT", "RETOOL"} => x.snapshot = "COMPLETE"
  /\ at \in {"REREG", "REPOINT", "RETOOL"} => ImagesBack(x.saved)
  /\ at \in {"REPOINT", "RETOOL"} => registry = x.saved.registry
  /\ at = "RETOOL" => pointer = x.saved.pointer
  /\ at = "UNSTAGE" /\ Holder(o) => Back(x.saved)
  /\ at = "ARCHIVE" => x.restored

RecyclingOK(r, at) ==
  /\ NonIdle(r)
  /\ at # "CLOSE" => registry = retire[r].before
  /\ at \in {"DROP", "CLOSE"} => retire[r].target = "RECYCLED_VERIFIED"
  /\ at = "CLOSE" => registry.generations[retire[r].gen] = "absent"

RetirementsOK ==
  /\ \A r, s \in Retirements : NonIdle(r) /\ NonIdle(s) => r = s
  /\ \A r \in Retirements : retire[r] # None =>
       /\ retire[r].before.generations[retire[r].gen] = "retiring"
       /\ retire[r].status = "ABORTED" => retire[r].target = "PREPARED"
  /\ TransactionsOpen => RetirementsIdle

RunOK ==
  run # None =>
    \/ run \in OperationRuns /\ RetirementsIdle /\ PlaceOK(run.op, run.at)
    \/ run \in RetirementRuns /\ ~TransactionsOpen /\ RecyclingOK(run.op, run.at)

InstInv ==
  /\ TypesOK
  /\ \A o \in Operations : JournalOK(o) /\ (Holder(o) => HolderFacts(o))
  /\ (\A o \in Operations : ~Changing(o)) => Base
  /\ RetirementsOK /\ RunOK
  /\ serving # None => run = None

(***************************************************************************)
(* Rows                                                                    *)
(***************************************************************************)
LEMMA Moves ==
  ASSUME NEW x \in Transactions, NEW s \in JournalStates
  PROVE  LET y == [x EXCEPT !.state = s] IN
         /\ y \in Transactions /\ y.state = s /\ y.staged = x.staged /\ y.snapshot = x.snapshot
         /\ y.saved = x.saved /\ y.restored = x.restored /\ y.failedAt = x.failedAt
BY DEF Transactions

LEMMA Journals ==
  ASSUME TypesOK, NEW o \in Operations, tx[o] # None, NEW s \in JournalStates, Journal(o, s)
  PROVE  /\ tx' \in [Operations -> Transactions \cup {None}]
         /\ \A y \in Operations \ {o} : tx'[y] = tx[y]
         /\ tx[o] \in Transactions /\ tx'[o] \in Transactions /\ tx'[o] # None
         /\ tx'[o].state = s /\ tx'[o].staged = tx[o].staged /\ tx'[o].snapshot = tx[o].snapshot
         /\ tx'[o].saved = tx[o].saved /\ tx'[o].restored = tx[o].restored
         /\ tx'[o].failedAt = tx[o].failedAt
<1>1. tx[o] \in Transactions /\ tx' = [tx EXCEPT ![o] = [tx[o] EXCEPT !.state = s]]
  BY DEF TypesOK, Journal
<1> QED
  BY <1>1, Moves, NoneAssumption DEF TypesOK

LEMMA NewJournal ==
  ASSUME NEW s \in JournalStates
  PROVE  LET y == NewTransaction(s) IN
         /\ y \in Transactions /\ y # None /\ y.state = s /\ y.snapshot = "NONE" /\ ~y.restored
<1>1. NewTransaction(s) \in Transactions
  BY DEF NewTransaction, Transactions, JournalStates
<1> QED
  BY <1>1, NoneAssumption DEF NewTransaction

LEMMA Goes ==
  ASSUME run \in OperationRuns, NEW at \in Places, Go(at)
  PROVE  /\ run' \in OperationRuns /\ run'.op = run.op /\ run'.at = at
         /\ run'.how = run.how /\ run'.undo = run.undo
BY DEF OperationRuns, Go

LEMMA AtPlace ==
  ASSUME InstInv, NEW o \in Operations, NEW at \in Places, At(o, at)
  PROVE  /\ run # None /\ run \in OperationRuns /\ run.op = o /\ run.at = at
         /\ RetirementsIdle /\ PlaceOK(o, at) /\ serving = None
         /\ JournalOK(o) /\ (Holder(o) => HolderFacts(o))
<1>1. at \notin Recycling
  BY DEF Places, Recycling, Undoing, Preparing, Doing, Ending
<1>2. run \notin RetirementRuns
  BY <1>1 DEF At, RetirementRuns
<1> QED
  BY <1>2 DEF At, InstInv, RunOK

(***************************************************************************)
(* Steps that change nothing of the installation                           *)
(***************************************************************************)
LEMMA OwnStep ==
  ASSUME InstInv, NEW o \in Operations, RetirementsIdle,
         UNCHANGED <<registry, pointer, image, tool, plan, retire>>,
         TypesOK', serving' # None => run' = None,
         Base => Base',
         \A x \in Operations \ {o} : tx'[x] = tx[x],
         \A x \in Operations \ {o} : tx[x] # None /\ tx[x].snapshot # "NONE" =>
            lock' # None /\ lock'.op = x,
         JournalOK(o)', Holder(o)' => HolderFacts(o)',
         Changing(o) => Changing(o)' \/ Base,
         run' # None => run' \in OperationRuns /\ run'.op \in Operations /\ PlaceOK(run.op, run.at)'
  PROVE  InstInv'
<1>1. ASSUME NEW x \in Operations
      PROVE  JournalOK(x)' /\ (Holder(x)' => HolderFacts(x)')
  <2>1. CASE x = o
    BY <2>1
  <2>2. CASE x # o
    <3>1. JournalOK(x)'
      BY <2>2 DEF InstInv, JournalOK
    <3>2. Holder(x)' => HolderFacts(x)'
      BY <2>2 DEF InstInv, Holder, HolderFacts, OthersThere, TargetThere, Marked, Wanted,
                  ProjectionsHold, Cleaned, Forgotten, Forward, Back, ImagesBack
    <3> QED
      BY <3>1, <3>2
  <2> QED
    BY <2>1, <2>2
<1>2. (\A x \in Operations : ~Changing(x)') => Base'
  <2> SUFFICES ASSUME \A x \in Operations : ~Changing(x)'
               PROVE  Base
    OBVIOUS
  <2>1. \A x \in Operations \ {o} : ~Changing(x)
    BY DEF Changing, Holder
  <2>2. CASE Changing(o)
    BY <2>2
  <2>3. CASE ~Changing(o)
    BY <2>1, <2>3 DEF InstInv
  <2> QED
    BY <2>2, <2>3
<1>3. RetirementsIdle'
  BY DEF RetirementsIdle
<1>4. RetirementsOK'
  BY <1>3 DEF InstInv, RetirementsOK, NonIdle
<1>5. RunOK'
  BY <1>3 DEF RunOK
<1> QED
  BY <1>1, <1>2, <1>4, <1>5 DEF InstInv

LEMMA BaseSame ==
  ASSUME UNCHANGED <<registry, pointer, image, tool, retire, audit>>, Base
  PROVE  Base'
BY DEF Base, Gone, Whole, Binding, Active, NonIdle

\* The process of o goes on, with or without a line in its journal.
LEMMA Advance ==
  ASSUME InstInv, NEW o \in Operations, NEW at \in Places, At(o, at), NEW to \in Places, Go(to),
         UNCHANGED <<registry, pointer, image, tool, lock, plan, retire, audit, serving>>, host' \in HostFiles,
         tx' \in [Operations -> Transactions \cup {None}],
         \A x \in Operations \ {o} : tx'[x] = tx[x],
         JournalOK(o)', Holder(o)' => HolderFacts(o)',
         Changing(o) => Changing(o)',
         PlaceOK(o, to)'
  PROVE  InstInv'
<1>1. /\ run # None /\ run \in OperationRuns /\ run.op = o
      /\ RetirementsIdle /\ serving = None
  BY AtPlace
<1>2. run' \in OperationRuns /\ run'.op = o /\ run'.at = to
  BY <1>1, Goes
<1>3. TypesOK'
  BY <1>2 DEF InstInv, TypesOK
<1>4. \A x \in Operations \ {o} : tx[x] # None /\ tx[x].snapshot # "NONE" => lock # None /\ lock.op = x
  BY DEF InstInv, JournalOK
<1>5. PlaceOK(run.op, run.at)'
  BY <1>2 DEF PlaceOK
<1> QED
  BY <1>1, <1>2, <1>3, <1>4, <1>5, BaseSame, OwnStep

LEMMA HolderSame ==
  ASSUME UNCHANGED <<registry, pointer, image, tool, plan>>, NEW o, HolderFacts(o), tx'[o] = tx[o]
  PROVE  HolderFacts(o)'
BY DEF HolderFacts, OthersThere, TargetThere, Marked, Wanted, ProjectionsHold, Cleaned, Forgotten,
       Forward, Back, ImagesBack

\* Before the snapshot is complete.
Early == {"RECHECK", "REFUSED", "PLAN", "STAGE", "SNAPSHOT", "SNAPSHOT2"}

LEMMA EarlyAdvance ==
  ASSUME InstInv, NEW o \in Operations, NEW at \in Early, At(o, at), NEW to \in Early, Go(to),
         UNCHANGED <<installed, mcp, lock, plan, retire, audit, serving>>,
         NEW y \in Transactions, tx' = [tx EXCEPT ![o] = y],
         y.state \in StateAt(to), y.snapshot # "COMPLETE", ~y.restored
  PROVE  InstInv'
<1> USE DEF Places, Undoing, Preparing, Doing, Ending, Early
<1>1. At(o, at) /\ PlaceOK(o, at) /\ JournalOK(o)
  BY AtPlace
<1>2. /\ tx' \in [Operations -> Transactions \cup {None}] /\ tx'[o] = y /\ y # None
      /\ \A x \in Operations \ {o} : tx'[x] = tx[x]
  BY NoneAssumption DEF InstInv, TypesOK
<1>3. lock # None /\ lock.op = o /\ plan[o] \in Plans
  BY <1>1 DEF PlaceOK
<1>4. tx[o].state \in Untouched /\ y.state \in Untouched /\ tx[o] # None
  BY <1>1 DEF PlaceOK, StateAt, Untouched
<1>5. ~Holder(o) /\ ~Holder(o)'
  BY <1>1, <1>2, <1>4 DEF Holder, JournalOK
<1>6. JournalOK(o)'
  BY <1>2, <1>3, <1>4 DEF JournalOK, Untouched
<1>7. PlaceOK(o, to)'
  BY <1>1, <1>2, <1>3, <1>5 DEF PlaceOK, Holder
<1>8. host' \in HostFiles
  BY DEF mcp, InstInv, TypesOK
<1> QED
  BY <1>2, <1>5, <1>6, <1>7, <1>8, Advance DEF installed, Changing

LEMMA EarlyKeeps ==
  ASSUME InstInv, NEW o \in Operations, Recheck(o) \/ MarkPlan(o) \/ Stage(o) \/ BeginSnapshot(o)
  PROVE  InstInv'
<1> USE DEF Early, StateAt, JournalStates, installed, mcp
<1>1. CASE Recheck(o)
  <2>1. tx[o] # None /\ tx[o] \in Transactions /\ tx[o].snapshot # "COMPLETE" /\ ~tx[o].restored
    BY <1>1, AtPlace DEF Recheck, PlaceOK, JournalOK, Untouched, Places, Preparing, InstInv, TypesOK
  <2>2. PICK to \in {"PLAN", "REFUSED"} : Go(to)
    BY <1>1 DEF Recheck
  <2> DEFINE y == [tx[o] EXCEPT !.state = "LOCK"]
  <2>3. y \in Transactions /\ y.state = "LOCK" /\ y.snapshot # "COMPLETE" /\ ~y.restored
    BY <2>1, Moves
  <2>4. tx' = [tx EXCEPT ![o] = y]
    BY <1>1 DEF Recheck, Journal
  <2> HIDE DEF y
  <2> QED
    BY <1>1, <2>2, <2>3, <2>4, EarlyAdvance DEF Recheck
<1>2. CASE MarkPlan(o)
  <2>1. tx[o] # None /\ tx[o] \in Transactions /\ tx[o].snapshot # "COMPLETE" /\ ~tx[o].restored
    BY <1>2, AtPlace DEF MarkPlan, PlaceOK, JournalOK, Untouched, Places, Preparing, InstInv, TypesOK
  <2> DEFINE y == [tx[o] EXCEPT !.state = "PLAN"]
  <2>3. y \in Transactions /\ y.state = "PLAN" /\ y.snapshot # "COMPLETE" /\ ~y.restored
    BY <2>1, Moves
  <2>4. tx' = [tx EXCEPT ![o] = y]
    BY <1>2 DEF MarkPlan, Journal
  <2> HIDE DEF y
  <2> QED
    BY <1>2, <2>3, <2>4, EarlyAdvance DEF MarkPlan
<1>3. CASE Stage(o)
  <2>1. tx[o] # None /\ tx[o] \in Transactions /\ tx[o].snapshot # "COMPLETE" /\ ~tx[o].restored
    BY <1>3, AtPlace DEF Stage, PlaceOK, JournalOK, Untouched, Places, Preparing, InstInv, TypesOK
  <2> DEFINE y == [tx[o] EXCEPT !.state = "STAGE", !.staged = TRUE]
  <2>2. y \in Transactions /\ y.state = "STAGE" /\ y.snapshot # "COMPLETE" /\ ~y.restored
    BY <2>1 DEF Transactions
  <2>3. tx' = [tx EXCEPT ![o] = y]
    BY <1>3 DEF Stage
  <2> HIDE DEF y
  <2> QED
    BY <1>3, <2>2, <2>3, EarlyAdvance DEF Stage
<1>4. CASE BeginSnapshot(o)
  <2>1. tx[o] # None /\ tx[o] \in Transactions /\ tx[o].state = "STAGE" /\ ~tx[o].restored
    BY <1>4, AtPlace DEF BeginSnapshot, PlaceOK, JournalOK, Places, Preparing, InstInv, TypesOK
  <2> DEFINE y == [tx[o] EXCEPT !.snapshot = "PARTIAL"]
  <2>2. y \in Transactions /\ y.state = "STAGE" /\ y.snapshot # "COMPLETE" /\ ~y.restored
    BY <2>1 DEF Transactions
  <2>3. tx' = [tx EXCEPT ![o] = y]
    BY <1>4 DEF BeginSnapshot
  <2> HIDE DEF y
  <2> QED
    BY <1>4, <2>2, <2>3, EarlyAdvance DEF BeginSnapshot
<1> QED
  BY <1>1, <1>2, <1>3, <1>4

\* Whoever holds the lock is the only one with a snapshot.
LEMMA OnlyHolder ==
  ASSUME InstInv, NEW o \in Operations, lock # None, lock.op = o
  PROVE  \A x \in Operations \ {o} : ~Holder(x)
BY DEF InstInv, JournalOK, Holder

\* A complete snapshot is one of a sound installation.
LEMMA SnapshotKeeps == ASSUME InstInv, NEW o \in Operations, Snapshot(o) PROVE InstInv'
<1> USE DEF Places, Undoing, Preparing, Doing, Ending, JournalStates
<1>1. At(o, "SNAPSHOT2") /\ PlaceOK(o, "SNAPSHOT2") /\ JournalOK(o) /\ RetirementsIdle
  BY AtPlace DEF Snapshot
<1>2. lock # None /\ lock.op = o /\ plan[o] \in Plans /\ tx[o] # None /\ tx[o].state = "STAGE"
  BY <1>1 DEF PlaceOK, StateAt
<1>3. ~Holder(o) /\ ~tx[o].restored
  BY <1>1, <1>2 DEF JournalOK, Holder, Untouched
<1>4. Base
  BY <1>2, <1>3, OnlyHolder DEF InstInv, Changing
<1> DEFINE s == [registry |-> registry, pointer |-> pointer, image |-> image, tool |-> tool]
           y == [tx[o] EXCEPT !.state = "SNAPSHOT", !.snapshot = "COMPLETE", !.saved = s]
<1>5. s \in Snapshots
  BY DEF InstInv, TypesOK, Snapshots
<1>6. Sound(s)
  <2>1. \A g \in Generations : registry.generations[g] # "absent" => image[g] # "absent"
    BY <1>1, <1>4 DEF Base, NonIdle, RetirementsIdle
  <2> QED
    BY <1>4, <2>1 DEF Base, Sound, Gone, Whole, GoneWith, WholeWith
<1> HIDE DEF s
<1>7. /\ y \in Transactions /\ y.state = "SNAPSHOT" /\ y.snapshot = "COMPLETE" /\ y.saved = s
      /\ ~y.restored
  BY <1>2, <1>3, <1>5 DEF Transactions, InstInv, TypesOK
<1>8. tx' = [tx EXCEPT ![o] = y]
  BY DEF Snapshot, s
<1> HIDE DEF y
<1>9. /\ tx' \in [Operations -> Transactions \cup {None}] /\ tx'[o] = y /\ y # None
      /\ \A x \in Operations \ {o} : tx'[x] = tx[x]
  BY <1>7, <1>8, NoneAssumption DEF InstInv, TypesOK
<1>10. JournalOK(o)' /\ HolderFacts(o)'
  BY <1>2, <1>5, <1>6, <1>7, <1>9 DEF JournalOK, HolderFacts, Untouched, Snapshot, Onward
<1>11. PlaceOK(o, "PREVALIDATE")'
  BY <1>1, <1>2, <1>7, <1>9 DEF PlaceOK, StateAt, Snapshot
<1>12. host' \in HostFiles /\ ~Changing(o)
  BY <1>3 DEF Snapshot, mcp, InstInv, TypesOK, Changing
<1> QED
  BY <1>1, <1>9, <1>10, <1>11, <1>12, Advance DEF Snapshot, installed

(***************************************************************************)
(* An operation with a snapshot goes on                                    *)
(***************************************************************************)
Holding == {"PREVALIDATE", "REMOVE", "PLACE", "REGISTER", "POINT", "ACTIVATE", "PROJECT", "READY",
            "CLEAN", "ENTRIES", "COMMIT"}
Later == {"PREVALIDATE", "ACTIVATE", "POSTVALIDATE", "CLEAN", "COMMIT"}

LEMMA HoldingFacts ==
  ASSUME InstInv, NEW o \in Operations, NEW at \in Holding, At(o, at)
  PROVE  /\ Holder(o) /\ HolderFacts(o) /\ JournalOK(o) /\ PlaceOK(o, at)
         /\ tx[o] \in Transactions /\ tx[o] # None /\ ~tx[o].restored
         /\ tx[o].state \in {"SNAPSHOT", "PREVALIDATE", "ACTIVATE", "POSTVALIDATE", "CLEAN"}
         /\ lock # None /\ lock.op = o /\ plan[o] \in Plans
         /\ plan[o].gen \in Generations /\ RetirementsIdle
<1>1. PlaceOK(o, at) /\ JournalOK(o) /\ (Holder(o) => HolderFacts(o)) /\ RetirementsIdle
  BY AtPlace DEF Places, Preparing, Doing, Holding
<1>2. /\ tx[o] # None /\ plan[o] \in Plans
      /\ tx[o].state \in {"SNAPSHOT", "PREVALIDATE", "ACTIVATE", "POSTVALIDATE", "CLEAN"}
  BY <1>1 DEF PlaceOK, StateAt, Holding
<1>3. plan[o].gen \in Generations
  BY <1>2 DEF Plans
<1> QED
  BY <1>1, <1>2, <1>3 DEF JournalOK, Holder, InstInv, TypesOK

\* The journal line of a later state keeps what the snapshot is about.
LEMMA LaterJournal ==
  ASSUME InstInv, NEW o \in Operations, NEW at \in Holding, At(o, at), NEW s \in Later,
         Journal(o, s), UNCHANGED <<lock, plan>>
  PROVE  /\ JournalOK(o)' /\ Holder(o)' /\ Changing(o)' /\ tx'[o] # None
         /\ tx'[o].state = s /\ tx'[o].saved = tx[o].saved /\ ~tx'[o].restored
         /\ tx' \in [Operations -> Transactions \cup {None}]
         /\ \A x \in Operations \ {o} : tx'[x] = tx[x]
<1>1. /\ Holder(o) /\ tx[o] # None /\ ~tx[o].restored /\ lock # None /\ lock.op = o
      /\ plan[o] \in Plans
  BY HoldingFacts
<1>2. /\ tx' \in [Operations -> Transactions \cup {None}]
      /\ \A y \in Operations \ {o} : tx'[y] = tx[y]
      /\ tx'[o] # None /\ tx'[o].state = s /\ tx'[o].snapshot = tx[o].snapshot
      /\ tx'[o].saved = tx[o].saved /\ tx'[o].restored = tx[o].restored
  BY <1>1, Journals DEF InstInv, Later, JournalStates
<1> QED
  BY <1>1, <1>2 DEF JournalOK, Holder, Changing, Later, Untouched

LEMMA PrevalidateAdvances ==
  ASSUME InstInv, NEW o \in Operations, At(o, "PREVALIDATE"), InputsHold(o), Prevalidate(o)
  PROVE  InstInv'
<1> USE DEF Places, Preparing, Doing, Holding, Later
<1>1. /\ Holder(o) /\ HolderFacts(o) /\ PlaceOK(o, "PREVALIDATE") /\ plan[o] \in Plans
      /\ plan[o].gen \in Generations /\ RetirementsIdle /\ lock # None /\ lock.op = o
  BY HoldingFacts
<1>2. PICK to \in {"REGISTER", "REMOVE"} :
        Go(to) /\ to = IF plan[o].kind = "uninstall" THEN "REGISTER" ELSE "REMOVE"
  BY DEF Prevalidate
<1>3. /\ JournalOK(o)' /\ Holder(o)' /\ Changing(o)' /\ tx'[o] # None
      /\ tx'[o].state = "PREVALIDATE" /\ tx'[o].saved = tx[o].saved /\ ~tx'[o].restored
      /\ tx' \in [Operations -> Transactions \cup {None}]
      /\ \A x \in Operations \ {o} : tx'[x] = tx[x]
  BY LaterJournal DEF Prevalidate
<1>4. tx[o].state = "SNAPSHOT"
  BY <1>1 DEF PlaceOK, StateAt
<1>5. Base
  BY <1>1, <1>4, OnlyHolder DEF InstInv, Changing
<1>6. OthersThere(o) /\ registry = plan[o].basis.registry
  BY <1>1, <1>5 DEF Base, OthersThere, NonIdle, RetirementsIdle, InputsHold
<1>7. HolderFacts(o)'
  BY <1>1, <1>3, <1>6 DEF HolderFacts, OthersThere, Onward, Prevalidate, installed
<1>8. PlaceOK(o, to)'
  BY <1>1, <1>2, <1>3, <1>6 DEF PlaceOK, StateAt, TargetThere, Prevalidate, installed, Undoing, Holder
<1>9. host' \in HostFiles
  BY DEF Prevalidate, mcp, InstInv, TypesOK
<1> QED
  BY <1>2, <1>3, <1>7, <1>8, <1>9, Advance DEF Prevalidate, installed

LEMMA ActivatedKeeps == ASSUME InstInv, NEW o \in Operations, Activated(o) PROVE InstInv'
<1> USE DEF Places, Preparing, Doing, Holding, Later
<1>1. /\ At(o, "ACTIVATE") /\ Holder(o) /\ HolderFacts(o) /\ PlaceOK(o, "ACTIVATE") /\ plan[o] \in Plans
      /\ tx[o].state = "PREVALIDATE"
  BY HoldingFacts DEF Activated, PlaceOK, StateAt
<1>2. /\ JournalOK(o)' /\ Holder(o)' /\ Changing(o)' /\ tx'[o] # None
      /\ tx'[o].state = "ACTIVATE" /\ tx'[o].saved = tx[o].saved /\ ~tx'[o].restored
      /\ tx' \in [Operations -> Transactions \cup {None}]
      /\ \A x \in Operations \ {o} : tx'[x] = tx[x]
  BY <1>1, LaterJournal DEF Activated
<1>3. OthersThere(o) /\ TargetThere(o) /\ Marked(o) /\ pointer = Wanted(o)
  BY <1>1 DEF HolderFacts, PlaceOK
<1>4. HolderFacts(o)'
  BY <1>1, <1>2, <1>3 DEF HolderFacts, OthersThere, TargetThere, Marked, Wanted, Onward, Activated, installed
<1>5. PlaceOK(o, "PROJECT")'
  BY <1>1, <1>2 DEF PlaceOK, StateAt, Activated, Undoing
<1>6. host' \in HostFiles
  BY DEF Activated, mcp, InstInv, TypesOK
<1> QED
  BY <1>1, <1>2, <1>4, <1>5, <1>6, Advance DEF Activated, installed

LEMMA PostvalidateKeeps == ASSUME InstInv, NEW o \in Operations, Postvalidate(o) PROVE InstInv'
<1> USE DEF Places, Preparing, Doing, Holding, Later
<1>1. /\ At(o, "PROJECT") /\ Holder(o) /\ HolderFacts(o) /\ PlaceOK(o, "PROJECT") /\ plan[o] \in Plans
      /\ tx[o].state = "ACTIVATE"
  BY HoldingFacts DEF Postvalidate, PlaceOK, StateAt
<1>2. /\ JournalOK(o)' /\ Holder(o)' /\ Changing(o)' /\ tx'[o] # None
      /\ tx'[o].state = "POSTVALIDATE" /\ tx'[o].saved = tx[o].saved /\ ~tx'[o].restored
      /\ tx' \in [Operations -> Transactions \cup {None}]
      /\ \A x \in Operations \ {o} : tx'[x] = tx[x]
  BY <1>1, LaterJournal DEF Postvalidate
<1>3. HolderFacts(o)'
  BY <1>1, <1>2 DEF HolderFacts, OthersThere, TargetThere, Marked, Wanted, ProjectionsHold,
                    Onward, Postvalidate, installed
<1>4. PlaceOK(o, "READY")'
  BY <1>1, <1>2 DEF PlaceOK, StateAt, Postvalidate, Undoing
<1>5. host' \in HostFiles
  BY DEF Postvalidate, mcp, InstInv, TypesOK
<1> QED
  BY <1>1, <1>2, <1>3, <1>4, <1>5, Advance DEF Postvalidate, installed

LEMMA ReadyKeeps == ASSUME InstInv, NEW o \in Operations, ReadyToClean(o) PROVE InstInv'
<1> USE DEF Places, Preparing, Doing, Holding, Later
<1>1. /\ At(o, "READY") /\ Holder(o) /\ HolderFacts(o) /\ PlaceOK(o, "READY") /\ plan[o] \in Plans
      /\ tx[o].state = "POSTVALIDATE"
  BY HoldingFacts DEF ReadyToClean, PlaceOK, StateAt
<1>2. /\ JournalOK(o)' /\ Holder(o)' /\ Changing(o)' /\ tx'[o] # None
      /\ tx'[o].state = "CLEAN" /\ tx'[o].saved = tx[o].saved /\ ~tx'[o].restored
      /\ tx' \in [Operations -> Transactions \cup {None}]
      /\ \A x \in Operations \ {o} : tx'[x] = tx[x]
  BY <1>1, LaterJournal DEF ReadyToClean
<1>3. HolderFacts(o)'
  BY <1>1, <1>2 DEF HolderFacts, OthersThere, TargetThere, Marked, Wanted, ProjectionsHold,
                    Onward, ReadyToClean, installed
<1>4. PlaceOK(o, "CLEAN")'
  BY <1>1, <1>2 DEF PlaceOK, StateAt, ReadyToClean, Undoing
<1>5. host' \in HostFiles
  BY DEF ReadyToClean, mcp, InstInv, TypesOK
<1> QED
  BY <1>1, <1>2, <1>3, <1>4, <1>5, Advance DEF ReadyToClean, installed

LEMMA CommitKeeps == ASSUME InstInv, NEW o \in Operations, Commit(o) PROVE InstInv'
<1> USE DEF Places, Preparing, Doing, Holding, Later
<1>1. /\ At(o, "COMMIT") /\ Holder(o) /\ HolderFacts(o) /\ PlaceOK(o, "COMMIT") /\ plan[o] \in Plans
      /\ tx[o].state = "CLEAN" /\ registry = Cleaned(o)
  BY HoldingFacts DEF Commit, PlaceOK, StateAt
<1>2. /\ JournalOK(o)' /\ Holder(o)' /\ Changing(o)' /\ tx'[o] # None
      /\ tx'[o].state = "COMMIT" /\ tx'[o].saved = tx[o].saved /\ ~tx'[o].restored
      /\ tx' \in [Operations -> Transactions \cup {None}]
      /\ \A x \in Operations \ {o} : tx'[x] = tx[x]
  BY <1>1, LaterJournal DEF Commit
<1>3. HolderFacts(o)'
  BY <1>1, <1>2 DEF HolderFacts, OthersThere, TargetThere, Marked, Wanted, ProjectionsHold,
                    Cleaned, Forgotten, Forward, Onward, Commit, installed
<1>4. PlaceOK(o, "AUDIT")'
  BY <1>1, <1>2 DEF PlaceOK, StateAt, Commit, Undoing
<1>5. host' \in HostFiles
  BY DEF Commit, mcp, InstInv, TypesOK
<1> QED
  BY <1>1, <1>2, <1>3, <1>4, <1>5, Advance DEF Commit, installed

(***************************************************************************)
(* Failures                                                                *)
(***************************************************************************)
\* What was restored is not at any place a failure begins a rollback from.
LEMMA NotRestored ==
  ASSUME InstInv, NEW o \in Operations, run # None, run \in OperationRuns, run.op = o, ~run.undo,
         tx[o] # None
  PROVE  ~tx[o].restored
<1>1. run.at \in Places
  BY DEF OperationRuns
<1>2. PlaceOK(o, run.at) /\ JournalOK(o)
  BY <1>1, AtPlace DEF At
<1>3. CASE tx[o].state # "FAILED"
  BY <1>2, <1>3 DEF JournalOK
<1>4. CASE run.at = "DISCARD"
  BY <1>2, <1>4 DEF PlaceOK, JournalOK
<1>5. CASE run.at \in {"UNLOCK", "SCAN"}
  BY <1>2, <1>5 DEF PlaceOK
<1>6. CASE run.at \in Undoing
  BY <1>2, <1>6 DEF PlaceOK
<1>7. CASE run.at \in Preparing \cup Doing
  <2>1. tx[o].state \in StateAt(run.at)
    BY <1>2, <1>7 DEF PlaceOK, Preparing, Doing
  <2>2. "FAILED" \notin StateAt(run.at)
    BY <1>7 DEF StateAt, Preparing, Doing
  <2> QED
    BY <2>1, <2>2, <1>3
<1> QED
  BY <1>1, <1>3, <1>4, <1>5, <1>6, <1>7 DEF Places, Ending

LEMMA RaiseKeeps ==
  ASSUME InstInv, NEW o \in Operations, run # None, run \in OperationRuns, run.op = o, Raise(o),
         UNCHANGED <<installed, host, lock, plan, retire, audit, serving>>
  PROVE  InstInv'
<1> USE DEF installed
<1>1. /\ RetirementsIdle /\ PlaceOK(o, run.at) /\ JournalOK(o) /\ (Holder(o) => HolderFacts(o))
      /\ serving = None /\ plan[o] \in Plans
  <2>1. run.at \in Places
    BY DEF OperationRuns
  <2> QED
    BY <2>1, AtPlace DEF At, PlaceOK
<1>2. Base => Base'
  BY BaseSame
<1>3. \A x \in Operations : tx[x] # None /\ tx[x].snapshot # "NONE" => lock # None /\ lock.op = x
  BY DEF InstInv, JournalOK
<1>4. CASE run' = None /\ UNCHANGED tx
  <2>1. JournalOK(o)'
    BY <1>1, <1>4 DEF JournalOK
  <2>2. Holder(o)' => HolderFacts(o)'
    BY <1>1, <1>4, HolderSame DEF Holder
  <2>3. TypesOK' /\ (Changing(o) => Changing(o)')
    BY <1>4 DEF InstInv, TypesOK, Changing, Holder
  <2> QED
    BY <1>1, <1>2, <1>3, <1>4, <2>1, <2>2, <2>3, OwnStep
<1>5. CASE /\ run' = None /\ tx[o] # None /\ tx[o].state # "FAILED"
           /\ tx' = [tx EXCEPT ![o].state = "FAILED", ![o].failedAt = tx[o].state]
  <2> DEFINE y == [tx[o] EXCEPT !.state = "FAILED", !.failedAt = tx[o].state]
  <2>1. /\ y \in Transactions /\ y.state = "FAILED" /\ y.snapshot = tx[o].snapshot
        /\ y.saved = tx[o].saved /\ y.restored = tx[o].restored
    BY <1>5 DEF InstInv, TypesOK, Transactions, JournalStates
  <2>2. tx' = [tx EXCEPT ![o] = y]
    BY <1>5
  <2> HIDE DEF y
  <2>3. /\ tx' \in [Operations -> Transactions \cup {None}] /\ tx'[o] = y /\ y # None
        /\ \A x \in Operations \ {o} : tx'[x] = tx[x]
    BY <2>1, <2>2, NoneAssumption DEF InstInv, TypesOK
  <2>4. ~tx[o].restored
    BY <1>1, <1>5 DEF JournalOK
  <2>5. JournalOK(o)'
    BY <1>1, <1>3, <1>5, <2>1, <2>3, <2>4 DEF JournalOK, Untouched
  <2>6. Holder(o)' => HolderFacts(o)'
    BY <1>1, <1>5, <2>1, <2>3, <2>4 DEF Holder, HolderFacts, Onward
  <2>7. TypesOK' /\ (Changing(o) => Changing(o)')
    BY <1>5, <2>1, <2>3 DEF InstInv, TypesOK, Changing, Holder
  <2> QED
    BY <1>1, <1>2, <1>3, <1>5, <2>3, <2>5, <2>6, <2>7, OwnStep
<1>6. CASE /\ run' = [run EXCEPT !.at = "UNDO", !.undo = TRUE] /\ ~run.undo
           /\ tx' = IF tx[o] # None THEN tx ELSE [tx EXCEPT ![o] = NewTransaction("COMMIT")]
  <2>1. /\ run' \in OperationRuns /\ run'.op = o /\ run'.at = "UNDO" /\ run'.undo
    BY <1>6 DEF OperationRuns, Places, Undoing
  <2>2. /\ tx' \in [Operations -> Transactions \cup {None}] /\ tx'[o] # None
        /\ \A x \in Operations \ {o} : tx'[x] = tx[x]
        /\ tx'[o] = tx[o] \/ (tx[o] = None /\ tx'[o] = NewTransaction("COMMIT"))
    BY <1>6, NewJournal DEF InstInv, TypesOK, JournalStates
  <2>3. /\ JournalOK(o)' /\ (Holder(o)' => HolderFacts(o)') /\ ~tx'[o].restored
        /\ (Changing(o) => Changing(o)')
    <3>1. CASE tx[o] # None
      BY <1>1, <1>6, <2>2, <3>1, NotRestored, HolderSame DEF JournalOK, Holder, Changing
    <3>2. CASE tx[o] = None
      BY <1>1, <2>2, <3>2, NewJournal DEF JournalOK, Holder, Changing, Untouched, JournalStates
    <3> QED
      BY <3>1, <3>2
  <2>4. PlaceOK(run.op, run.at)'
    BY <1>1, <2>1, <2>2, <2>3 DEF PlaceOK, StateAt, Undoing, InstInv, TypesOK, Transactions
  <2>5. TypesOK'
    BY <2>1, <2>2 DEF InstInv, TypesOK
  <2> QED
    BY <1>1, <1>2, <1>3, <2>1, <2>2, <2>3, <2>4, <2>5, OwnStep
<1> QED
  BY <1>4, <1>5, <1>6 DEF Raise

LEMMA RaisesKeep ==
  ASSUME InstInv, NEW o \in Operations, NEW at \in Places, At(o, at), Raises(o)
  PROVE  InstInv'
BY AtPlace, RaiseKeeps DEF Raises, mcp

LEMMA FaultKeeps == ASSUME InstInv, Fault PROVE InstInv'
<1>1. run # None /\ run.op \in Operations /\ serving = None
  BY DEF Fault, InstInv
<1>2. run \in OperationRuns
  BY <1>1, IdentitiesAssumption DEF InstInv, TypesOK, RetirementRuns
<1> QED
  BY <1>1, <1>2, RaiseKeeps DEF Fault, mcp

LEMMA KilledKeeps == ASSUME InstInv, Killed PROVE InstInv'
<1> USE DEF installed, mcp
<1>1. TypesOK' /\ run' = None
  BY DEF InstInv, TypesOK, Killed
<1>2. \A o \in Operations : JournalOK(o)' /\ (Holder(o)' => HolderFacts(o)')
  BY HolderSame DEF InstInv, Killed, JournalOK, Holder
<1>3. (\A o \in Operations : ~Changing(o)') => Base'
  BY BaseSame DEF InstInv, Killed, Changing, Holder
<1>4. RetirementsOK'
  BY DEF InstInv, Killed, RetirementsOK, NonIdle, TransactionsOpen, RetirementsIdle
<1> QED
  BY <1>1, <1>2, <1>3, <1>4 DEF InstInv, RunOK

(***************************************************************************)
(* The entries in the Hosts' own files, and the end of an operation        *)
(***************************************************************************)
LEMMA SameJournal ==
  ASSUME InstInv, NEW o \in Operations, NEW at \in Places, At(o, at), NEW to \in Places, Go(to),
         UNCHANGED <<installed, lock, plan, tx, retire, audit, serving>>, host' \in HostFiles,
         PlaceOK(o, to)'
  PROVE  InstInv'
<1>1. JournalOK(o) /\ (Holder(o) => HolderFacts(o))
  BY AtPlace
<1>2. JournalOK(o)' /\ (Holder(o)' => HolderFacts(o)') /\ (Changing(o) => Changing(o)')
  BY <1>1, HolderSame DEF installed, JournalOK, Holder, Changing
<1>3. tx' \in [Operations -> Transactions \cup {None}] /\ \A x \in Operations \ {o} : tx'[x] = tx[x]
  BY DEF InstInv, TypesOK
<1> QED
  BY <1>2, <1>3, Advance DEF installed

LEMMA EntriesKeep ==
  ASSUME InstInv, NEW o \in Operations,
         ReviewEntries(o) \/ RecordEntries(o) \/ \E t \in Tools : WriteEntry(o, t)
  PROVE  InstInv'
<1> USE DEF Places, Preparing, Doing, Holding
<1>0. host \in HostFiles
  BY DEF InstInv, TypesOK
<1>1. CASE ReviewEntries(o)
  <2>1. At(o, "CLEAN") /\ PlaceOK(o, "CLEAN") /\ registry = Cleaned(o)
    BY <1>1, HoldingFacts DEF ReviewEntries
  <2>2. CASE Raises(o)
    BY <2>1, <2>2, RaisesKeep
  <2>3. ASSUME NEW to \in {"ENTRIES", "COMMIT"}, Go(to),
               UNCHANGED <<installed, mcp, lock, plan, tx, serving, retire, audit, bounds>>
        PROVE  InstInv'
    <3>1. PlaceOK(o, to)'
      BY <2>1, <2>3 DEF PlaceOK, StateAt, Undoing, Cleaned, Forgotten, Forward, installed
    <3> QED
      BY <1>0, <2>1, <2>3, <3>1, SameJournal DEF mcp
  <2> QED
    BY <1>1, <2>2, <2>3 DEF ReviewEntries
<1>2. CASE RecordEntries(o)
  <2>1. At(o, "ENTRIES") /\ PlaceOK(o, "ENTRIES")
    BY <1>2, HoldingFacts DEF RecordEntries
  <2>2. PlaceOK(o, "COMMIT")'
    BY <1>2, <2>1 DEF RecordEntries, PlaceOK, StateAt, Undoing, Cleaned, Forgotten, Forward, installed
  <2> QED
    BY <1>0, <1>2, <2>1, <2>2, SameJournal DEF RecordEntries
<1>3. CASE \E t \in Tools : WriteEntry(o, t)
  <2> PICK t \in Tools : WriteEntry(o, t)
    BY <1>3
  <2>1. At(o, "ENTRIES") /\ PlaceOK(o, "ENTRIES") /\ plan[o] \in Plans
    BY HoldingFacts DEF WriteEntry
  <2>2. CASE Raises(o)
    BY <2>1, <2>2, RaisesKeep
  <2>3. CASE /\ host' = [host EXCEPT ![t] = After(o, t)]
             /\ UNCHANGED <<installed, ledger, lock, plan, tx, run, serving, retire, audit, bounds>>
    <3>1. After(o, t) \in [entry : BOOLEAN, edition : Nat]
      <4>1. plan[o].basis.host \in HostFiles
        BY <2>1 DEF Plans
      <4>2. plan[o].basis.host[t] \in [entry : BOOLEAN, edition : Nat]
        BY <4>1 DEF HostFiles
      <4> QED
        BY <4>2 DEF After
    <3>2. host' \in HostFiles
      BY <1>0, <2>3, <3>1 DEF HostFiles
    <3>3. Go("ENTRIES")
      BY <2>1, <2>3, AtPlace DEF Go, OperationRuns
    <3>4. PlaceOK(o, "ENTRIES")'
      BY <2>1, <2>3 DEF PlaceOK, StateAt, Undoing, Cleaned, Forgotten, Forward, installed
    <3> QED
      BY <2>1, <2>3, <3>2, <3>3, <3>4, SameJournal
  <2> QED
    BY <2>2, <2>3 DEF WriteEntry
<1> QED
  BY <1>1, <1>2, <1>3

LEMMA EndFails == ASSUME InstInv, NEW o \in Operations, Refused(o) \/ Torn(o) PROVE InstInv'
BY RaisesKeep DEF Refused, Torn, Places, Preparing, Undoing

\* A sound installation of an operation that is done.
LEMMA CommittedIsSound ==
  ASSUME InstInv, NEW o \in Operations, Holder(o), tx[o].state = "COMMIT", RetirementsIdle
  PROVE  Sound([registry |-> registry, pointer |-> pointer, image |-> image, tool |-> tool])
<1> DEFINE s == [registry |-> registry, pointer |-> pointer, image |-> image, tool |-> tool]
<1>1. HolderFacts(o) /\ JournalOK(o)
  BY DEF InstInv
<1>2. /\ plan[o] \in Plans /\ plan[o].gen \in Generations
      /\ OthersThere(o) /\ TargetThere(o) /\ Marked(o) /\ pointer = Wanted(o) /\ ProjectionsHold(o)
      /\ registry = Cleaned(o)
  BY <1>1 DEF HolderFacts, Onward, JournalOK, Holder, Plans
<1>3. tool \in Projections /\ registry \in Registries
  BY DEF InstInv, TypesOK
<1>4. \A t \in Tools : tool[t] = [files |-> Wanted(o), manifest |-> Wanted(o)]
  BY <1>2, <1>3 DEF ProjectionsHold, Projections
<1>5. CASE plan[o].kind = "uninstall"
  <2>1. Forgotten(o) = {g \in Generations : plan[o].basis.registry.generations[g] # "absent"}
    BY <1>5 DEF Forgotten
  <2>2. \A g \in Generations : registry.generations[g] = "absent"
    BY <1>2, <1>5, <2>1 DEF Cleaned, Marked
  <2>3. registry.status = "uninstalled" /\ pointer = None
    BY <1>2, <1>5 DEF Cleaned, Wanted
  <2> QED
    BY <1>4, <1>5, <2>2, <2>3 DEF Sound, GoneWith, ActiveOf, Wanted
<1>6. CASE plan[o].kind # "uninstall"
  <2>1. registry.status = "stable" /\ pointer = plan[o].gen
    BY <1>2, <1>6 DEF Cleaned, Wanted
  <2>2. ActiveOf(registry.generations) = {plan[o].gen} /\ image[plan[o].gen] # "absent"
    BY <1>2, <1>6 DEF Marked, TargetThere
  <2>3. \A g \in Generations : registry.generations[g] # "absent" => image[g] # "absent"
    BY <1>2, <1>6, <2>2 DEF OthersThere
  <2>4. WholeWith(s)
    BY <1>4, <1>6, <2>1, <2>2 DEF WholeWith, Wanted
  <2> QED
    BY <2>3, <2>4 DEF Sound
<1> QED
  BY <1>5, <1>6
\* What was restored is as sound as the snapshot.
LEMMA RestoredIsSound ==
  ASSUME InstInv, NEW x \in Snapshots, Sound(x), Back(x)
  PROVE  Sound([registry |-> registry, pointer |-> pointer, image |-> image, tool |-> tool])
<1> DEFINE s == [registry |-> registry, pointer |-> pointer, image |-> image, tool |-> tool]
<1>1. registry = x.registry /\ pointer = x.pointer
  BY DEF Back
<1>2. \A g \in Generations : x.image[g] # "absent" => image[g] # "absent"
  BY DEF Back, ImagesBack
<1>3. \A g \in Generations : registry.generations[g] # "absent" => image[g] # "absent"
  BY <1>1, <1>2 DEF Sound
<1>4. CASE GoneWith(x)
  <2>1. GoneWith(s)
    BY <1>1, <1>4 DEF GoneWith, Back
  <2> QED
    BY <1>3, <2>1 DEF Sound
<1>5. CASE WholeWith(x)
  <2>1. pointer \in Generations /\ pointer # None
    BY <1>1, <1>5, NoneAssumption DEF WholeWith, ActiveOf
  <2>2. \A t \in Tools : /\ tool[t].files = pointer /\ tool[t].manifest = pointer
                         /\ tool[t] = [files |-> tool[t].files, manifest |-> tool[t].manifest]
    BY <1>1, <1>5, <2>1 DEF WholeWith, Back, InstInv, TypesOK, Projections
  <2>3. WholeWith(s)
    BY <1>1, <1>2, <1>5, <2>1, <2>2 DEF WholeWith
  <2> QED
    BY <1>3, <2>3 DEF Sound
<1> QED
  BY <1>4, <1>5 DEF Sound

LEMMA BindingOfWhole ==
  ASSUME TypesOK, registry \in Registries, ActiveOf(registry.generations) = {pointer}
  PROVE  Active = pointer /\ Binding # None
<1>1. pointer \in Generations /\ pointer # None
  BY NoneAssumption DEF ActiveOf
<1>2. Active = pointer
  BY <1>1 DEF Active, ActiveOf
<1>3. [gen |-> Active, by |-> registry.by] \in Bindings
  BY <1>1, <1>2 DEF Bindings, Registries
<1> QED
  BY <1>1, <1>2, <1>3, NoneAssumption DEF Binding

LEMMA BaseOf ==
  ASSUME InstInv, Binding # None => audit.current = Binding,
         Sound([registry |-> registry, pointer |-> pointer, image |-> image, tool |-> tool])
  PROVE  Base
BY BindingOfWhole DEF Sound, GoneWith, WholeWith, Base, Gone, Whole, InstInv, TypesOK

LEMMA AuditKeeps ==
  ASSUME InstInv, NEW o \in Operations, NEW at \in Places, At(o, at), Go("DISCARD"),
         UNCHANGED <<installed, mcp, lock, plan, tx, serving, retire>>,
         Binding # None => audit'.current = Binding,
         tx[o] # None, tx[o].state = "COMMIT" \/ (run.undo /\ tx[o].restored)
  PROVE  InstInv'
<1> USE DEF installed, mcp
<1>1. /\ run \in OperationRuns /\ run.op = o /\ RetirementsIdle /\ serving = None
      /\ PlaceOK(o, at) /\ JournalOK(o) /\ (Holder(o) => HolderFacts(o)) /\ plan[o] \in Plans
  BY AtPlace DEF PlaceOK
<1>2. run' \in OperationRuns /\ run'.op = o /\ run'.at = "DISCARD" /\ run'.undo = run.undo
  BY <1>1, Goes DEF Places, Ending
<1>3. TypesOK'
  BY <1>2 DEF InstInv, TypesOK
<1>4. Base => Base'
  <2>1. Whole => Binding # None
    BY BindingOfWhole DEF Whole, InstInv, TypesOK
  <2> QED
    BY <2>1 DEF Base, Gone, Whole, Binding, Active, NonIdle
<1>5. JournalOK(o)' /\ (Holder(o)' => HolderFacts(o)') /\ (Changing(o) => Changing(o)')
  BY <1>1, HolderSame DEF JournalOK, Holder, Changing
<1>6. tx[o].state \in {"COMMIT", "FAILED"}
  BY <1>1 DEF JournalOK
<1>7. Binding' = Binding
  BY DEF Binding, Active
<1>8. PlaceOK(o, "DISCARD")'
  BY <1>1, <1>2, <1>6, <1>7 DEF PlaceOK, StateAt, Undoing, Holder
<1>9. PlaceOK(run.op, run.at)'
  BY <1>2, <1>8 DEF PlaceOK
<1>10. \A x \in Operations \ {o} : tx[x] # None /\ tx[x].snapshot # "NONE" => lock # None /\ lock.op = x
  BY DEF InstInv, JournalOK
<1> QED
  BY <1>1, <1>2, <1>3, <1>4, <1>5, <1>9, <1>10, OwnStep

LEMMA OutcomeKeeps ==
  ASSUME InstInv, NEW o \in Operations, RecordOutcome(o) \/ Archive(o)
  PROVE  InstInv'
<1> USE DEF Places, Undoing, Doing
<1>1. CASE RecordOutcome(o)
  <2>1. At(o, "AUDIT") /\ tx[o] # None /\ tx[o].state = "COMMIT"
    BY <1>1, AtPlace DEF RecordOutcome, PlaceOK, StateAt
  <2> QED
    BY <1>1, <2>1, AuditKeeps DEF RecordOutcome
<1>2. CASE Archive(o)
  <2>1. At(o, "ARCHIVE") /\ tx[o] # None /\ tx[o].restored /\ run.undo
    BY <1>2, AtPlace DEF Archive, PlaceOK, StateAt
  <2>2. CASE ReceiptAgrees
    BY <1>2, <2>1, <2>2, AuditKeeps DEF Archive
  <2>3. CASE ~ReceiptAgrees
    BY <1>2, <2>1, <2>3, RaisesKeep DEF Archive
  <2> QED
    BY <2>2, <2>3
<1> QED
  BY <1>1, <1>2

LEMMA DiscardKeeps == ASSUME InstInv, NEW o \in Operations, Discard(o) PROVE InstInv'
<1> USE DEF Places, Ending
<1>1. /\ At(o, "DISCARD") /\ run \in OperationRuns /\ RetirementsIdle /\ PlaceOK(o, "DISCARD") /\ JournalOK(o)
      /\ (Holder(o) => HolderFacts(o)) /\ plan[o] \in Plans
  BY AtPlace DEF Discard, PlaceOK
<1>2. /\ tx' \in [Operations -> Transactions \cup {None}] /\ tx'[o] = None
      /\ \A x \in Operations \ {o} : tx'[x] = tx[x]
  BY DEF Discard, InstInv, TypesOK
<1>3. Changing(o) => Base
  <2> SUFFICES ASSUME Changing(o) PROVE Base
    OBVIOUS
  <2>1. Binding # None => audit.current = Binding
    BY <1>1 DEF PlaceOK
  <2>2. Holder(o) /\ HolderFacts(o)
    BY <1>1 DEF Changing
  <2>3. CASE tx[o].state = "COMMIT"
    BY <1>1, <2>1, <2>2, <2>3, CommittedIsSound, BaseOf
  <2>4. CASE tx[o].restored
    BY <2>1, <2>2, <2>4, RestoredIsSound, BaseOf DEF HolderFacts
  <2> QED
    BY <1>1, <2>3, <2>4 DEF PlaceOK
<1>4. /\ run # None /\ run.op = o /\ serving = None
      /\ run' \in OperationRuns /\ run'.op = o /\ run'.at = "UNLOCK"
  BY <1>1, AtPlace, Goes DEF Discard
<1>5. JournalOK(o)' /\ ~Holder(o)'
  BY <1>2 DEF JournalOK, Holder
<1>6. PlaceOK(run.op, run.at)'
  BY <1>1, <1>2, <1>4, <1>5 DEF PlaceOK, Discard, Undoing
<1>7. TypesOK'
  BY <1>2, <1>4 DEF Discard, InstInv, TypesOK, installed, mcp
<1>8. \A x \in Operations \ {o} : tx[x] # None /\ tx[x].snapshot # "NONE" => lock # None /\ lock.op = x
  BY DEF InstInv, JournalOK
<1> QED
  BY <1>1, <1>2, <1>3, <1>4, <1>5, <1>6, <1>7, <1>8, BaseSame, OwnStep DEF Discard, installed

LEMMA UnlockKeeps == ASSUME InstInv, NEW o \in Operations, Unlock(o) PROVE InstInv'
<1> USE DEF Places, Ending
<1>1. /\ At(o, "UNLOCK") /\ run \in OperationRuns /\ RetirementsIdle /\ tx[o] = None /\ plan[o] \in Plans
      /\ run # None /\ run.op = o /\ serving = None
  BY AtPlace DEF Unlock, PlaceOK
<1>2. JournalOK(o)' /\ ~Holder(o)' /\ ~Changing(o)
  BY <1>1 DEF Unlock, JournalOK, Holder, Changing
<1>3. \A x \in Operations \ {o} : tx[x] # None /\ tx[x].snapshot # "NONE" => lock' # None /\ lock'.op = x
  BY DEF InstInv, JournalOK, Unlock
<1>4. run' # None => run' \in OperationRuns /\ run'.op = o /\ run'.at = "SCAN"
  BY <1>1 DEF Unlock, OperationRuns
<1>5. run' # None => PlaceOK(run.op, run.at)'
  BY <1>1, <1>2, <1>4 DEF Unlock, PlaceOK, Undoing
<1>6. TypesOK'
  BY <1>4 DEF Unlock, InstInv, TypesOK, installed, mcp
<1> QED
  BY <1>1, <1>2, <1>3, <1>4, <1>5, <1>6, BaseSame, OwnStep DEF Unlock, installed

LEMMA ScanKeeps == ASSUME InstInv, NEW o \in Operations, FinalScan(o) PROVE InstInv'
<1> USE DEF Places, Ending
<1>1. /\ At(o, "SCAN") /\ RetirementsIdle /\ tx[o] = None
  BY AtPlace DEF FinalScan, PlaceOK
<1>2. CASE Raises(o)
  BY <1>1, <1>2, RaisesKeep
<1>3. CASE run' = None /\ UNCHANGED <<installed, mcp, lock, plan, tx, serving, retire, audit, bounds>>
  <2>1. JournalOK(o)' /\ ~Holder(o)' /\ ~Changing(o)
    BY <1>1, <1>3 DEF JournalOK, Holder, Changing
  <2>2. TypesOK'
    BY <1>3 DEF InstInv, TypesOK, installed, mcp
  <2>3. \A x \in Operations \ {o} : tx[x] # None /\ tx[x].snapshot # "NONE" => lock # None /\ lock.op = x
    BY DEF InstInv, JournalOK
  <2> QED
    BY <1>1, <1>3, <2>1, <2>2, <2>3, BaseSame, OwnStep DEF installed
<1> QED
  BY <1>2, <1>3 DEF FinalScan

(***************************************************************************)
(* Beginning, rolling back and recovering                                  *)
(***************************************************************************)
LEMMA BeginKeeps == ASSUME InstInv, NEW o \in Operations, Begin(o) PROVE InstInv'
<1> USE DEF installed, mcp
<1>1. /\ RetirementsIdle /\ tx[o] = None /\ plan[o] \in Plans /\ serving = None /\ serving' = None
  BY DEF Begin, Idle, InstInv, TypesOK
<1>2. /\ tx' \in [Operations -> Transactions \cup {None}] /\ tx'[o] = NewTransaction("DISCOVER")
      /\ \A x \in Operations \ {o} : tx'[x] = tx[x]
  BY NewJournal DEF Begin, InstInv, TypesOK, JournalStates
<1>3. tx'[o] # None /\ tx'[o].state = "DISCOVER" /\ tx'[o].snapshot = "NONE" /\ ~tx'[o].restored
  BY <1>2, NewJournal DEF JournalStates
<1>4. /\ run' \in OperationRuns /\ run'.op = o /\ run'.at = "LOCK"
  BY DEF Begin, OperationRuns, Places, Preparing
<1>5. JournalOK(o)' /\ ~Holder(o)' /\ ~Changing(o)
  BY <1>1, <1>3 DEF JournalOK, Holder, Changing, Begin
<1>6. PlaceOK(run.op, run.at)'
  BY <1>1, <1>3, <1>4, <1>5 DEF PlaceOK, StateAt, Undoing, Begin
<1>7. TypesOK'
  BY <1>2, <1>4 DEF Begin, InstInv, TypesOK
<1>8. \A x \in Operations \ {o} : tx[x] # None /\ tx[x].snapshot # "NONE" => lock # None /\ lock.op = x
  BY DEF InstInv, JournalOK
<1> QED
  BY <1>1, <1>2, <1>4, <1>5, <1>6, <1>7, <1>8, BaseSame, OwnStep DEF Begin

LEMMA AcquireKeeps == ASSUME InstInv, NEW o \in Operations, AcquireLock(o) PROVE InstInv'
<1> USE DEF installed, mcp, Places, Preparing
<1>1. /\ At(o, "LOCK") /\ run \in OperationRuns /\ RetirementsIdle /\ PlaceOK(o, "LOCK") /\ JournalOK(o)
      /\ plan[o] \in Plans /\ run # None /\ run.op = o /\ serving = None
      /\ tx[o] # None /\ tx[o].state = "DISCOVER"
  BY AtPlace DEF AcquireLock, PlaceOK, StateAt
<1>2. CASE Raises(o)
  BY <1>1, <1>2, RaisesKeep
<1>3. CASE /\ LockIsFree /\ lock' = [op |-> o, live |-> TRUE] /\ Go("RECHECK")
           /\ UNCHANGED <<installed, mcp, plan, tx, serving, retire, audit, bounds>>
  <2>1. lock' \in Locks /\ lock' # None /\ lock'.op = o
    <3> DEFINE held == [op |-> o, live |-> TRUE]
    <3>1. held \in Locks /\ held.op = o
      BY DEF Locks
    <3>2. lock' = held
      BY <1>3
    <3> HIDE DEF held
    <3> QED
      BY <3>1, <3>2, NoneAssumption
  <2>2. \A x \in Operations : tx[x] # None => tx[x].snapshot = "NONE"
    BY <1>3 DEF LockIsFree, InstInv, JournalOK
  <2>3. /\ run' \in OperationRuns /\ run'.op = o /\ run'.at = "RECHECK"
    BY <1>1, <1>3, Goes
  <2>4. ~tx[o].restored
    BY <1>1 DEF JournalOK
  <2>5. JournalOK(o)' /\ ~Holder(o)' /\ ~Changing(o)
    BY <1>1, <1>3, <2>1, <2>2 DEF JournalOK, Holder, Changing
  <2>6. PlaceOK(run.op, run.at)'
    BY <1>1, <1>3, <2>1, <2>3, <2>5 DEF PlaceOK, StateAt, Undoing
  <2>7. TypesOK'
    BY <1>3, <2>1, <2>3 DEF InstInv, TypesOK
  <2> QED
    BY <1>1, <1>3, <2>2, <2>3, <2>5, <2>6, <2>7, BaseSame, OwnStep
<1> QED
  BY <1>2, <1>3 DEF AcquireLock

LEMMA UndoKeeps == ASSUME InstInv, NEW o \in Operations, Undo(o) PROVE InstInv'
<1> USE DEF Places, Undoing
<1>1. /\ At(o, "UNDO") /\ run \in OperationRuns /\ RetirementsIdle /\ PlaceOK(o, "UNDO") /\ JournalOK(o)
      /\ plan[o] \in Plans /\ run # None /\ run.op = o /\ run.undo /\ (Holder(o) => HolderFacts(o))
      /\ tx[o] # None /\ ~tx[o].restored /\ tx[o] \in Transactions
  BY AtPlace DEF Undo, PlaceOK, InstInv, TypesOK
<1>2. CASE Raises(o)
  BY <1>1, <1>2, RaisesKeep
<1>3. CASE SavedDirection(o)
  <2>1. PICK to \in {"UNSTAGE", "TORN", "WIPE"} :
          /\ Go(to)
          /\ to = "UNSTAGE" => tx[o].snapshot # "COMPLETE"
          /\ to = "WIPE" => tx[o].state \notin Untouched /\ tx[o].snapshot = "COMPLETE"
    BY <1>1, <1>3 DEF Undo, JournalOK, Transactions
  <2>2. PICK s \in {"DISCOVER", "LOCK", "ROLLBACK"} :
          /\ tx' = [tx EXCEPT ![o].state = s]
          /\ s # "ROLLBACK" => tx[o].state = s
    <3>1. CASE tx[o].state \in {"DISCOVER", "LOCK"}
      <4>1. [tx EXCEPT ![o].state = tx[o].state] = tx
        BY <1>1 DEF InstInv, TypesOK, Transactions
      <4> QED
        BY <1>3, <3>1, <4>1 DEF Undo
    <3>2. CASE tx[o].state \notin {"DISCOVER", "LOCK"}
      BY <1>3, <3>2 DEF Undo
    <3> QED
      BY <3>1, <3>2
  <2>3. /\ tx' \in [Operations -> Transactions \cup {None}]
        /\ \A y \in Operations \ {o} : tx'[y] = tx[y]
        /\ tx'[o] # None /\ tx'[o].state = s /\ tx'[o].snapshot = tx[o].snapshot
        /\ tx'[o].saved = tx[o].saved /\ tx'[o].restored = tx[o].restored
    BY <1>1, <2>2, Journals DEF InstInv, JournalStates, Journal
  <2>4. JournalOK(o)'
    BY <1>1, <1>3, <2>2, <2>3 DEF Undo, JournalOK, Untouched
  <2>5. (Holder(o)' => HolderFacts(o)') /\ (Changing(o) => Changing(o)')
    BY <1>1, <2>2, <2>3 DEF Holder, HolderFacts, Changing, Onward
  <2>6. PlaceOK(o, to)'
    <3>1. run' \in OperationRuns /\ run'.undo
      BY <1>1, <2>1, Goes
    <3>2. plan' = plan
      BY <1>3 DEF Undo
    <3>3. to = "WIPE" => s = "ROLLBACK"
      BY <2>1, <2>2 DEF Untouched
    <3> QED
      BY <1>1, <2>1, <2>2, <2>3, <3>1, <3>2, <3>3 DEF PlaceOK, StateAt, Holder, Transactions, JournalStates
  <2>7. host' \in HostFiles
    BY <1>3 DEF Undo, mcp, InstInv, TypesOK
  <2> QED
    BY <1>1, <1>3, <2>1, <2>3, <2>4, <2>5, <2>6, <2>7, Advance DEF Undo, installed
<1> QED
  BY <1>2, <1>3 DEF Undo

LEMMA RestoredToolsKeep == ASSUME InstInv, NEW o \in Operations, RestoredTools(o) PROVE InstInv'
<1> USE DEF Places, Undoing
<1>1. At(o, "RETOOL") /\ PlaceOK(o, "RETOOL") /\ Holder(o) /\ tx[o].saved \in Snapshots /\ tool \in Projections
  BY AtPlace DEF RestoredTools, PlaceOK, Holder, HolderFacts, InstInv, TypesOK
<1>2. Back(tx[o].saved)
  <2> DEFINE saved == tx[o].saved
  <2>1. ASSUME NEW t \in Tools
        PROVE  /\ tool[t].manifest = saved.tool[t].manifest
               /\ saved.tool[t].files # None => tool[t].files = saved.tool[t].files
    <3>1. tool[t] = Restored(t, saved.tool[t])
      BY DEF RestoredTools
    <3>2. /\ Restored(t, saved.tool[t]).manifest = saved.tool[t].manifest
          /\ saved.tool[t].files # None => Restored(t, saved.tool[t]).files = saved.tool[t].files
      BY DEF Restored
    <3> QED
      BY <3>1, <3>2
  <2>2. registry = saved.registry /\ pointer = saved.pointer /\ ImagesBack(saved)
    BY <1>1 DEF PlaceOK
  <2> QED
    BY <2>1, <2>2 DEF Back
<1>3. PlaceOK(o, "UNSTAGE")'
  <2>1. run' \in OperationRuns /\ run'.undo = run.undo
    BY <1>1, AtPlace, Goes DEF RestoredTools
  <2> QED
    BY <1>1, <1>2, <2>1 DEF PlaceOK, StateAt, RestoredTools, installed, Holder, Back, ImagesBack
<1>4. host' \in HostFiles
  BY DEF RestoredTools, mcp, InstInv, TypesOK
<1> QED
  BY <1>1, <1>3, <1>4, SameJournal DEF RestoredTools

LEMMA MarkFailedKeeps == ASSUME InstInv, NEW o \in Operations, MarkFailed(o) PROVE InstInv'
<1> USE DEF Places, Undoing
<1>1. /\ At(o, "UNSTAGE") /\ run \in OperationRuns /\ PlaceOK(o, "UNSTAGE") /\ JournalOK(o)
      /\ plan[o] \in Plans /\ run.undo /\ (Holder(o) => HolderFacts(o))
      /\ tx[o] # None /\ tx[o] \in Transactions
  BY AtPlace DEF MarkFailed, PlaceOK, InstInv, TypesOK
<1> DEFINE y == [tx[o] EXCEPT !.state = "FAILED", !.restored = TRUE, !.staged = FALSE, !.failedAt = "ROLLBACK"]
<1>2. /\ y \in Transactions /\ y.state = "FAILED" /\ y.restored /\ y.failedAt = "ROLLBACK"
      /\ y.snapshot = tx[o].snapshot /\ y.saved = tx[o].saved
  BY <1>1 DEF Transactions, JournalStates
<1>3. tx' = [tx EXCEPT ![o] = y]
  BY DEF MarkFailed
<1> HIDE DEF y
<1>4. /\ tx' \in [Operations -> Transactions \cup {None}] /\ tx'[o] = y /\ y # None
      /\ \A x \in Operations \ {o} : tx'[x] = tx[x]
  BY <1>2, <1>3, NoneAssumption DEF InstInv, TypesOK
<1>5. JournalOK(o)'
  BY <1>1, <1>2, <1>4 DEF MarkFailed, JournalOK, Untouched
<1>6. (Holder(o)' => HolderFacts(o)') /\ (Changing(o) => Changing(o)')
  <2> SUFFICES ASSUME Holder(o)' PROVE HolderFacts(o)' /\ Changing(o)'
    BY <1>2, <1>4 DEF Changing, Holder
  <2>1. Holder(o)
    BY <1>1, <1>2, <1>4 DEF Holder
  <2>2. Back(tx[o].saved)
    BY <1>1, <2>1 DEF PlaceOK
  <2>3. tx'[o].saved = tx[o].saved /\ tx'[o].state = "FAILED"
    BY <1>2, <1>4
  <2>4. Back(tx[o].saved)'
    BY <2>2, <2>3 DEF Back, ImagesBack, MarkFailed, installed
  <2>5. tx[o].saved \in Snapshots /\ Sound(tx[o].saved)
    BY <1>1, <2>1 DEF HolderFacts
  <2>6. HolderFacts(o)'
    BY <2>3, <2>4, <2>5 DEF HolderFacts, Onward
  <2> QED
    BY <2>3, <2>6 DEF Changing
<1>7. PlaceOK(o, "ARCHIVE")'
  <2>1. run' \in OperationRuns /\ run'.undo
    BY <1>1, Goes DEF MarkFailed
  <2> QED
    BY <1>1, <1>2, <1>4, <2>1 DEF PlaceOK, StateAt, MarkFailed
<1>8. host' \in HostFiles
  BY DEF MarkFailed, mcp, InstInv, TypesOK
<1> QED
  BY <1>1, <1>4, <1>5, <1>6, <1>7, <1>8, Advance DEF MarkFailed, installed

LEMMA RecoverKeeps == ASSUME InstInv, NEW o \in Operations, Recover(o) PROVE InstInv'
<1> USE DEF installed, mcp
<1>1. /\ tx[o] # None /\ JournalOK(o) /\ (Holder(o) => HolderFacts(o)) /\ plan[o] \in Plans
      /\ plan[o].gen \in Generations /\ RetirementsIdle /\ serving = None
  BY DEF Recover, Idle, InstInv, JournalOK, RetirementsOK, TransactionsOpen, Plans
<1> DEFINE to == Resume(o)
<1>2. to # None
  BY DEF Recover
<1>3. /\ to \in {"PLACE", "REGISTER", "REMOVE", "UNDO", "POINT", "PROJECT", "READY", "CLEAN", "AUDIT", "ARCHIVE"}
      /\ tx[o].state \in StateAt(to)
      /\ to = "UNDO" => ~tx[o].restored
      /\ to = "ARCHIVE" => tx[o].restored
      /\ to \in {"PLACE", "REMOVE"} => plan[o].kind # "uninstall"
      /\ to \in {"PLACE", "REMOVE", "REGISTER"} => registry = plan[o].basis.registry
      /\ to \in {"REGISTER", "POINT"} => TargetThere(o)
      /\ to = "POINT" => Marked(o)
  <2>1. ASSUME TargetIs(o) PROVE TargetThere(o)
    BY <2>1, IdentitiesAssumption DEF TargetIs, TargetThere, Intact
  <2>2. tx[o].state = "PREVALIDATE" => Holder(o) /\ HolderFacts(o) /\ ~tx[o].restored
    BY <1>1 DEF JournalOK, Holder
  <2>3. CASE ~Forward(o)
    <3>1. to = ResumeBack(o)
      BY <1>2, <2>3 DEF Resume
    <3>2. tx[o].state \in JournalStates
      BY <1>1 DEF InstInv, TypesOK, Transactions
    <3>3. tx[o].restored => tx[o].state = "FAILED" /\ tx[o].failedAt = "ROLLBACK"
      BY <1>1 DEF JournalOK
    <3> QED
      BY <1>2, <3>1, <3>2, <3>3 DEF ResumeBack, StateAt
  <2>4. CASE Forward(o)
    <3>1. to = ResumeForward(o) /\ plan[o].kind # "uninstall"
      BY <1>2, <2>4 DEF Resume, Forward
    <3>2. CASE tx[o].state = "PREVALIDATE" /\ registry = plan[o].basis.registry
      <4>1. to = ResumeTarget(o)
        <5>1. ResumeForward(o) = ResumeTarget(o)
          BY <3>2 DEF ResumeForward
        <5> QED
          BY <3>1, <5>1
      <4>2. to \in {"PLACE", "REGISTER", "REMOVE"} /\ (to = "REGISTER" => TargetIs(o))
        BY <1>2, <4>1 DEF ResumeTarget
      <4> QED
        BY <2>1, <3>1, <3>2, <4>2 DEF StateAt
    <3>3. CASE tx[o].state = "PREVALIDATE" /\ registry # plan[o].basis.registry
      <4>1. to = "POINT" /\ TargetActive(o)
        BY <1>2, <3>1, <3>3 DEF ResumeForward
      <4>2. Marked(o)
        BY <2>2, <3>3 DEF HolderFacts
      <4> QED
        BY <2>1, <3>3, <4>1, <4>2 DEF StateAt, TargetActive
    <3>4. CASE tx[o].state # "PREVALIDATE"
      <4>1. tx[o].state # "FAILED" => ~tx[o].restored
        BY <1>1 DEF JournalOK
      <4>2. tx[o].state \in JournalStates
        BY <1>1 DEF InstInv, TypesOK, Transactions
      <4> QED
        BY <1>2, <3>1, <3>4, <4>1, <4>2 DEF ResumeForward, StateAt
    <3> QED
      BY <3>2, <3>3, <3>4
  <2> QED
    BY <2>3, <2>4
<1>4. run' = [op |-> o, at |-> to, how |-> "RECOVER", undo |-> to \in {"UNDO", "ARCHIVE"}]
  BY DEF Recover
<1> HIDE DEF to
<1>5. run' \in OperationRuns /\ run'.op = o /\ run'.at = to /\ (to \in {"UNDO", "ARCHIVE"} => run'.undo)
  <2>1. to \in Places
    BY <1>3 DEF Places, Undoing, Doing
  <2>2. CASE to \in {"UNDO", "ARCHIVE"}
    <3>1. run' = [op |-> o, at |-> to, how |-> "RECOVER", undo |-> TRUE]
      BY <1>4, <2>2
    <3> QED
      BY <2>1, <3>1 DEF OperationRuns
  <2>3. CASE to \notin {"UNDO", "ARCHIVE"}
    <3>0. (to \in {"UNDO", "ARCHIVE"}) = FALSE
      BY <2>3
    <3>1. run' = [op |-> o, at |-> to, how |-> "RECOVER", undo |-> FALSE]
      BY <1>4, <3>0, Zenon
    <3> QED
      BY <2>1, <2>3, <3>1 DEF OperationRuns
  <2> QED
    BY <2>2, <2>3
<1>6. JournalOK(o)' /\ (Holder(o)' => HolderFacts(o)') /\ (Changing(o) => Changing(o)')
  BY <1>1, HolderSame DEF Recover, JournalOK, Holder, Changing
<1>7. PlaceOK(run.op, run.at)'
  BY <1>1, <1>3, <1>5 DEF Recover, PlaceOK, Undoing, TargetThere, Marked
<1>8. TypesOK'
  BY <1>5 DEF Recover, InstInv, TypesOK
<1>9. \A x \in Operations \ {o} : tx[x] # None /\ tx[x].snapshot # "NONE" => lock # None /\ lock.op = x
  BY DEF InstInv, JournalOK
<1> QED
  BY <1>1, <1>5, <1>6, <1>7, <1>8, <1>9, BaseSame, OwnStep DEF Recover

(***************************************************************************)
(* The operation with a snapshot changes the installation                  *)
(***************************************************************************)
LEMMA PrevalidateKeeps == ASSUME InstInv, NEW o \in Operations, Prevalidate(o) PROVE InstInv'
<1>1. CASE InputsHold(o)
  BY <1>1, PrevalidateAdvances DEF Prevalidate
<1>2. CASE ~InputsHold(o)
  BY <1>2, RaisesKeep DEF Prevalidate, Places, Preparing
<1> QED
  BY <1>1, <1>2

LEMMA HolderStep ==
  ASSUME InstInv, NEW o \in Operations, NEW at \in Places, At(o, at), Changing(o),
         UNCHANGED <<host, lock, plan, retire, serving>>,
         registry' \in Registries, pointer' \in GenerationOrNone, image' \in Images, tool' \in Projections,
         tx' \in [Operations -> Transactions \cup {None}],
         \A x \in Operations \ {o} : tx'[x] = tx[x],
         tx'[o] # None, tx'[o].state = tx[o].state, tx'[o].snapshot = tx[o].snapshot,
         tx'[o].restored = tx[o].restored, tx'[o].failedAt = tx[o].failedAt,
         HolderFacts(o)',
         run' \in OperationRuns, run'.op = o, PlaceOK(run.op, run.at)'
  PROVE  InstInv'
<1>1. RetirementsIdle /\ JournalOK(o) /\ serving = None
  BY AtPlace
<1>2. lock # None /\ lock.op = o
  BY <1>1 DEF Changing, Holder, JournalOK
<1>3. Changing(o)'
  BY DEF Changing, Holder
<1>4. ASSUME NEW x \in Operations
      PROVE  JournalOK(x)' /\ (Holder(x)' => HolderFacts(x)')
  <2>1. CASE x = o
    BY <1>1, <2>1 DEF JournalOK, Changing, Holder
  <2>2. CASE x # o
    BY <1>2, <2>2, OnlyHolder DEF InstInv, JournalOK, Holder
  <2> QED
    BY <2>1, <2>2
<1>5. RetirementsIdle'
  BY <1>1 DEF RetirementsIdle
<1>6. RetirementsOK'
  BY <1>5 DEF InstInv, RetirementsOK, NonIdle
<1>7. RunOK'
  BY <1>5 DEF RunOK
<1>8. TypesOK'
  BY DEF InstInv, TypesOK
<1> QED
  BY <1>1, <1>3, <1>4, <1>6, <1>7, <1>8 DEF InstInv

\* Where a process with a snapshot changes the installation.
LEMMA ChangingFacts ==
  ASSUME InstInv, NEW o \in Operations,
         NEW at \in {"REMOVE", "PLACE", "REGISTER", "POINT", "PROJECT", "CLEAN",
                     "WIPE", "COPY", "REREG", "REPOINT", "RETOOL"}, At(o, at)
  PROVE  /\ Changing(o) /\ Holder(o) /\ HolderFacts(o) /\ PlaceOK(o, at) /\ tx[o] \in Transactions /\ tx[o] # None
         /\ tx[o].state \in StateAt(at) /\ ~tx[o].restored /\ tx[o].saved \in Snapshots
         /\ plan[o] \in Plans /\ plan[o].gen \in Generations /\ plan[o].kind \in Kinds
         /\ run \in OperationRuns /\ run.op = o /\ run.at = at /\ at \in Places /\ run # None
         /\ registry \in Registries /\ pointer \in GenerationOrNone /\ image \in Images /\ tool \in Projections
         /\ registry.generations \in [Generations -> {"absent", "active", "retiring"}]
         /\ tx \in [Operations -> Transactions \cup {None}]
<1> USE DEF Places, Undoing, Doing, Holding
<1>1. /\ run \in OperationRuns /\ run.op = o /\ run.at = at /\ PlaceOK(o, at) /\ JournalOK(o) /\ run # None
      /\ (Holder(o) => HolderFacts(o))
  BY AtPlace
<1>2. /\ tx[o] # None /\ tx[o].state \in StateAt(at) /\ plan[o] \in Plans
  BY <1>1 DEF PlaceOK
<1>3. Holder(o) /\ tx[o].state # "SNAPSHOT" /\ ~tx[o].restored
  BY <1>1, <1>2 DEF PlaceOK, StateAt, JournalOK, Holder
<1>4. plan[o].gen \in Generations /\ plan[o].kind \in Kinds
  BY <1>2 DEF Plans
<1>5. registry.generations \in [Generations -> {"absent", "active", "retiring"}]
  BY DEF InstInv, TypesOK, Registries
<1> QED
  BY <1>1, <1>2, <1>3, <1>4, <1>5 DEF Changing, HolderFacts, InstInv, TypesOK

LEMMA RemoveKeeps == ASSUME InstInv, NEW o \in Operations, RemoveTarget(o) PROVE InstInv'
<1>1. CASE Raises(o)
  BY <1>1, RaisesKeep DEF RemoveTarget, Places, Doing
<1>2. CASE /\ image' = [image EXCEPT ![plan[o].gen] = "absent"] /\ Go("PLACE")
           /\ UNCHANGED <<registry, pointer, tool, mcp, lock, plan, tx, serving, retire, audit, bounds>>
  <2>1. /\ At(o, "REMOVE") /\ Changing(o) /\ Holder(o) /\ HolderFacts(o) /\ PlaceOK(o, "REMOVE") /\ tx[o] # None
        /\ tx[o].state = "PREVALIDATE" /\ ~tx[o].restored /\ plan[o].gen \in Generations
        /\ plan[o].kind # "uninstall" /\ registry = plan[o].basis.registry /\ plan[o] \in Plans
        /\ run \in OperationRuns /\ run.op = o /\ image \in Images
    BY ChangingFacts DEF RemoveTarget, StateAt, PlaceOK
  <2>2. image' \in Images /\ \A g \in Generations \ {plan[o].gen} : image'[g] = image[g]
    BY <1>2, <2>1 DEF Images, ImageStates
  <2>3. HolderFacts(o)'
    BY <1>2, <2>1, <2>2 DEF HolderFacts, OthersThere, Onward, Marked
  <2>4. run' \in OperationRuns /\ run'.op = o /\ run'.at = "PLACE"
    BY <1>2, <2>1, Goes DEF Places, Doing
  <2>5. PlaceOK(run.op, run.at)'
    BY <1>2, <2>1, <2>4 DEF PlaceOK, StateAt, Undoing
  <2> QED
    BY <1>2, <2>1, <2>2, <2>3, <2>4, <2>5, HolderStep DEF mcp, Places, Doing, InstInv, TypesOK
<1> QED
  BY <1>1, <1>2 DEF RemoveTarget

LEMMA PlaceKeeps == ASSUME InstInv, NEW o \in Operations, PlaceTarget(o) PROVE InstInv'
<1>1. /\ At(o, "PLACE") /\ Changing(o) /\ Holder(o) /\ HolderFacts(o) /\ PlaceOK(o, "PLACE") /\ tx[o] # None
      /\ tx[o].state = "PREVALIDATE" /\ ~tx[o].restored /\ plan[o].gen \in Generations
      /\ plan[o].kind # "uninstall" /\ registry = plan[o].basis.registry /\ plan[o] \in Plans
      /\ run \in OperationRuns /\ run.op = o /\ image \in Images /\ tx[o] \in Transactions
  BY ChangingFacts DEF PlaceTarget, StateAt, PlaceOK
<1>2. /\ image' \in Images /\ \A g \in Generations \ {plan[o].gen} : image'[g] = image[g]
      /\ image'[plan[o].gen] # "absent"
  BY <1>1, IdentitiesAssumption DEF PlaceTarget, Images, ImageStates
<1> DEFINE y == [tx[o] EXCEPT !.staged = FALSE]
<1>3. /\ y \in Transactions /\ y.state = tx[o].state /\ y.snapshot = tx[o].snapshot /\ y.saved = tx[o].saved
      /\ y.restored = tx[o].restored /\ y.failedAt = tx[o].failedAt
  BY <1>1 DEF Transactions
<1>4. tx' = [tx EXCEPT ![o] = y]
  BY DEF PlaceTarget
<1> HIDE DEF y
<1>5. /\ tx' \in [Operations -> Transactions \cup {None}] /\ tx'[o] = y /\ y # None
      /\ \A x \in Operations \ {o} : tx'[x] = tx[x]
  BY <1>3, <1>4, NoneAssumption DEF InstInv, TypesOK
<1>6. HolderFacts(o)'
  BY <1>1, <1>2, <1>3, <1>5 DEF PlaceTarget, HolderFacts, OthersThere, Onward, Marked
<1>7. run' \in OperationRuns /\ run'.op = o /\ run'.at = "REGISTER"
  BY <1>1, Goes DEF PlaceTarget, Places, Doing
<1>8. PlaceOK(run.op, run.at)'
  BY <1>1, <1>2, <1>3, <1>5, <1>7 DEF PlaceTarget, PlaceOK, StateAt, Undoing, TargetThere
<1> QED
  BY <1>1, <1>2, <1>3, <1>5, <1>6, <1>7, <1>8, HolderStep DEF PlaceTarget, mcp, Places, Doing, InstInv, TypesOK

LEMMA RegistryKeeps == ASSUME InstInv, NEW o \in Operations, WriteRegistry(o) PROVE InstInv'
<1>1. /\ At(o, "REGISTER") /\ Changing(o) /\ Holder(o) /\ HolderFacts(o) /\ PlaceOK(o, "REGISTER") /\ tx[o] # None
      /\ tx[o].state = "PREVALIDATE" /\ ~tx[o].restored /\ plan[o].gen \in Generations
      /\ registry = plan[o].basis.registry /\ plan[o] \in Plans
      /\ run \in OperationRuns /\ run.op = o /\ registry \in Registries
      /\ registry.generations \in [Generations -> {"absent", "active", "retiring"}]
  BY ChangingFacts DEF WriteRegistry, StateAt, PlaceOK
<1>2. registry' \in Registries
  BY <1>1 DEF WriteRegistry, Registered, Registries, OperationOrNone
<1>3. /\ plan[o].kind = "uninstall" => \A g \in Generations :
           /\ registry'.generations[g] # "active"
           /\ registry'.generations[g] # "absent" => registry.generations[g] # "absent"
      /\ plan[o].kind # "uninstall" =>
           /\ registry'.generations[plan[o].gen] = "active"
           /\ \A g \in Generations \ {plan[o].gen} :
                /\ registry'.generations[g] # "active"
                /\ registry'.generations[g] # "absent" => registry.generations[g] # "absent"
  BY <1>1 DEF WriteRegistry, Registered
<1>4. Marked(o)'
  BY <1>1, <1>3 DEF Marked, ActiveOf, WriteRegistry
<1>5. OthersThere(o)'
  BY <1>1, <1>3 DEF HolderFacts, OthersThere, WriteRegistry
<1>6. HolderFacts(o)'
  BY <1>1, <1>4, <1>5 DEF HolderFacts, Onward, WriteRegistry
<1>7. run' \in OperationRuns /\ run'.op = o /\ run'.at = "POINT"
  BY <1>1, Goes DEF WriteRegistry, Places, Doing
<1>8. PlaceOK(run.op, run.at)'
  BY <1>1, <1>4, <1>7 DEF WriteRegistry, PlaceOK, StateAt, Undoing, TargetThere
<1> QED
  BY <1>1, <1>2, <1>6, <1>7, <1>8, HolderStep DEF WriteRegistry, mcp, Places, Doing, InstInv, TypesOK

LEMMA PointerKeeps == ASSUME InstInv, NEW o \in Operations, WritePointer(o) PROVE InstInv'
<1>1. /\ At(o, "POINT") /\ Changing(o) /\ Holder(o) /\ HolderFacts(o) /\ PlaceOK(o, "POINT") /\ tx[o] # None
      /\ tx[o].state = "PREVALIDATE" /\ ~tx[o].restored /\ plan[o].gen \in Generations /\ plan[o] \in Plans
      /\ run \in OperationRuns /\ run.op = o /\ TargetThere(o) /\ Marked(o)
  BY ChangingFacts DEF WritePointer, StateAt, PlaceOK
<1>2. pointer' \in GenerationOrNone /\ pointer' = Wanted(o)
  BY <1>1 DEF WritePointer, Wanted, GenerationOrNone
<1>3. HolderFacts(o)'
  BY <1>1 DEF WritePointer, HolderFacts, OthersThere, Onward, Marked
<1>4. run' \in OperationRuns /\ run'.op = o /\ run'.at = "ACTIVATE"
  BY <1>1, Goes DEF WritePointer, Places, Doing
<1>5. PlaceOK(run.op, run.at)'
  BY <1>1, <1>2, <1>4 DEF WritePointer, PlaceOK, StateAt, Undoing, TargetThere, Marked, Wanted
<1> QED
  BY <1>1, <1>2, <1>3, <1>4, <1>5, HolderStep DEF WritePointer, mcp, Places, Doing, InstInv, TypesOK

LEMMA ProjectionsKeep ==
  ASSUME InstInv, NEW o \in Operations, NEW t \in Tools, ProjectFiles(o, t) \/ ProjectManifest(o, t)
  PROVE  InstInv'
<1>1. /\ At(o, "PROJECT") /\ Changing(o) /\ Holder(o) /\ HolderFacts(o) /\ PlaceOK(o, "PROJECT") /\ tx[o] # None
      /\ tx[o].state = "ACTIVATE" /\ ~tx[o].restored /\ plan[o].gen \in Generations /\ plan[o] \in Plans
      /\ run \in OperationRuns /\ run.op = o /\ run.at = "PROJECT" /\ tool \in Projections
  BY ChangingFacts DEF ProjectFiles, ProjectManifest, StateAt, PlaceOK
<1>2. Wanted(o) \in GenerationOrNone
  BY <1>1 DEF Wanted, GenerationOrNone
<1>3. tool' \in Projections
  BY <1>1, <1>2 DEF ProjectFiles, ProjectManifest, Projections
<1>4. UNCHANGED <<registry, pointer, image, host, lock, plan, tx, run, serving, retire>>
  BY DEF ProjectFiles, ProjectManifest, mcp
<1>5. HolderFacts(o)'
  BY <1>1, <1>4 DEF HolderFacts, OthersThere, TargetThere, Onward, Marked, Wanted
<1>6. PlaceOK(run.op, run.at)'
  BY <1>1, <1>4 DEF PlaceOK, StateAt, Undoing
<1> QED
  BY <1>1, <1>3, <1>4, <1>5, <1>6, HolderStep DEF Places, Doing, InstInv, TypesOK

LEMMA CleaningKeeps ==
  ASSUME InstInv, NEW o \in Operations, CleanRegistry(o) \/ CleanImages(o)
  PROVE  InstInv'
<1>1. /\ At(o, "CLEAN") /\ Changing(o) /\ Holder(o) /\ HolderFacts(o) /\ PlaceOK(o, "CLEAN") /\ tx[o] # None
      /\ tx[o].state = "CLEAN" /\ ~tx[o].restored /\ plan[o].gen \in Generations /\ plan[o] \in Plans
      /\ run \in OperationRuns /\ run.op = o /\ run.at = "CLEAN" /\ registry \in Registries /\ image \in Images
      /\ registry.generations \in [Generations -> {"absent", "active", "retiring"}]
      /\ plan[o].kind \in Kinds
  BY ChangingFacts DEF CleanRegistry, CleanImages, StateAt, PlaceOK
<1>2. OthersThere(o) /\ TargetThere(o) /\ Marked(o) /\ pointer = Wanted(o) /\ ProjectionsHold(o)
  BY <1>1 DEF HolderFacts, Onward
<1>3. UNCHANGED <<pointer, tool, host, lock, plan, tx, run, serving, retire>>
  BY DEF CleanRegistry, CleanImages, mcp
<1>4. plan[o].kind # "uninstall" => plan[o].gen \notin Forgotten(o)
  BY DEF Forgotten
<1>5. CASE CleanRegistry(o)
  <2>1. /\ registry' \in Registries /\ registry' = Cleaned(o) /\ UNCHANGED image
    BY <1>1, <1>5 DEF CleanRegistry, Cleaned, Registries, OperationOrNone
  <2>2. \A g \in Generations : registry'.generations[g] =
           IF g \in Forgotten(o) THEN "absent" ELSE registry.generations[g]
    BY <2>1 DEF Cleaned
  <2>3. Marked(o)'
    BY <1>2, <1>3, <1>4, <2>2 DEF Marked, ActiveOf
  <2>4. OthersThere(o)' /\ TargetThere(o)' /\ ProjectionsHold(o)'
    BY <1>2, <1>3, <2>1, <2>2 DEF OthersThere, TargetThere, ProjectionsHold, Wanted
  <2>5. HolderFacts(o)'
    BY <1>1, <1>2, <1>3, <2>3, <2>4 DEF HolderFacts, Onward, Wanted
  <2>6. PlaceOK(run.op, run.at)'
    BY <1>1, <1>3 DEF PlaceOK, StateAt, Undoing
  <2> QED
    BY <1>1, <1>3, <2>1, <2>5, <2>6, HolderStep DEF Places, Doing, InstInv, TypesOK
<1>6. CASE CleanImages(o)
  <2>1. /\ image' \in Images /\ UNCHANGED registry
        /\ \A g \in Generations : image'[g] = IF g \in Forgotten(o) THEN "absent" ELSE image[g]
    BY <1>1, <1>6 DEF CleanImages, Images, ImageStates
  <2>2. plan[o].kind # "uninstall" =>
          \A g \in Generations : registry.generations[g] # "absent" => g \notin Forgotten(o)
    BY <1>6 DEF CleanImages, Cleaned
  <2>3. OthersThere(o)'
    BY <1>2, <1>3, <2>1, <2>2 DEF OthersThere
  <2>4. TargetThere(o)' /\ Marked(o)' /\ ProjectionsHold(o)'
    BY <1>1, <1>2, <1>3, <1>4, <2>1 DEF TargetThere, Marked, ProjectionsHold, Wanted
  <2>5. HolderFacts(o)'
    BY <1>1, <1>2, <1>3, <2>3, <2>4 DEF HolderFacts, Onward, Wanted
  <2>6. PlaceOK(run.op, run.at)'
    BY <1>1, <1>3 DEF PlaceOK, StateAt, Undoing
  <2> QED
    BY <1>1, <1>3, <2>1, <2>5, <2>6, HolderStep DEF Places, Doing, InstInv, TypesOK
<1> QED
  BY <1>5, <1>6

(***************************************************************************)
(* The snapshot is restored                                                *)
(***************************************************************************)
LEMMA RestoringKeeps ==
  ASSUME InstInv, NEW o \in Operations,
         \/ WipeImages(o) \/ CopyImages(o) \/ RestoreRegistry(o) \/ RestorePointer(o)
         \/ \E t \in Tools : RestoreTool(o, t)
  PROVE  InstInv'
<1> DEFINE saved == tx[o].saved
<1>1. PICK at \in {"WIPE", "COPY", "REREG", "REPOINT", "RETOOL"} : At(o, at)
  BY DEF WipeImages, CopyImages, RestoreRegistry, RestorePointer, RestoreTool
<1>2. /\ Changing(o) /\ Holder(o) /\ HolderFacts(o) /\ PlaceOK(o, at) /\ tx[o] # None
      /\ tx[o].state = "ROLLBACK" /\ ~tx[o].restored /\ saved \in Snapshots /\ plan[o] \in Plans
      /\ run \in OperationRuns /\ run.op = o /\ run.at = at /\ run # None /\ run.undo /\ tx[o].snapshot = "COMPLETE"
      /\ registry \in Registries /\ pointer \in GenerationOrNone /\ image \in Images /\ tool \in Projections
  BY <1>1, ChangingFacts DEF StateAt, PlaceOK, Undoing
<1>3. saved.registry \in Registries /\ saved.pointer \in GenerationOrNone /\ saved.image \in Images /\ saved.tool \in Projections
  BY <1>2 DEF Snapshots
<1>4. UNCHANGED <<host, lock, plan, tx, serving, retire>>
  BY DEF WipeImages, CopyImages, RestoreRegistry, RestorePointer, RestoreTool, mcp
<1>5. HolderFacts(o)'
  BY <1>2, <1>4 DEF HolderFacts, Onward
<1> HIDE DEF saved
<1>6. ASSUME registry' \in Registries, pointer' \in GenerationOrNone, image' \in Images, tool' \in Projections,
             run' \in OperationRuns, run'.op = o, PlaceOK(run.op, run.at)'
      PROVE  InstInv'
  BY <1>1, <1>2, <1>4, <1>5, <1>6, HolderStep DEF Places, Undoing, InstInv, TypesOK
<1>7. ASSUME NEW to \in {"COPY", "REREG", "REPOINT", "RETOOL"}, Go(to)
      PROVE  run' \in OperationRuns /\ run'.op = o /\ run'.at = to /\ run'.undo
  BY <1>2, <1>7, Goes DEF Places, Undoing
<1> USE DEF StateAt, Undoing
<1>8. CASE WipeImages(o)
  <2>1. /\ run' \in OperationRuns /\ run'.op = o /\ run'.at = "COPY" /\ run'.undo /\ image' \in Images
        /\ UNCHANGED <<registry, pointer, tool>>
    BY <1>7, <1>8 DEF WipeImages, Images, ImageStates
  <2>2. PlaceOK(run.op, run.at)'
    BY <1>2, <1>4, <2>1 DEF PlaceOK
  <2> QED
    BY <1>2, <1>6, <2>1, <2>2
<1>9. CASE CopyImages(o)
  <2>1. /\ run' \in OperationRuns /\ run'.op = o /\ run'.at = "REREG" /\ run'.undo /\ image' = saved.image
        /\ UNCHANGED <<registry, pointer, tool>>
    BY <1>7, <1>9 DEF CopyImages, saved
  <2>2. ImagesBack(tx[o].saved)'
    BY <1>4, <2>1 DEF ImagesBack, saved
  <2>3. PlaceOK(run.op, run.at)'
    BY <1>2, <1>4, <2>1, <2>2 DEF PlaceOK
  <2> QED
    BY <1>2, <1>3, <1>6, <2>1, <2>3
<1>10. CASE RestoreRegistry(o)
  <2>1. /\ run' \in OperationRuns /\ run'.op = o /\ run'.at = "REPOINT" /\ run'.undo
        /\ registry' = saved.registry /\ UNCHANGED <<pointer, image, tool>> /\ at = "REREG"
    BY <1>1, <1>7, <1>10 DEF RestoreRegistry, saved, At
  <2>2. ImagesBack(tx[o].saved)'
    BY <1>2, <1>4, <2>1 DEF ImagesBack, PlaceOK
  <2>3. PlaceOK(run.op, run.at)'
    BY <1>2, <1>4, <2>1, <2>2 DEF PlaceOK, saved
  <2> QED
    BY <1>2, <1>3, <1>6, <2>1, <2>3
<1>11. CASE RestorePointer(o)
  <2>1. /\ run' \in OperationRuns /\ run'.op = o /\ run'.at = "RETOOL" /\ run'.undo
        /\ pointer' = saved.pointer /\ UNCHANGED <<registry, image, tool>> /\ at = "REPOINT"
    BY <1>1, <1>7, <1>11 DEF RestorePointer, saved, At
  <2>2. ImagesBack(tx[o].saved)'
    BY <1>2, <1>4, <2>1 DEF ImagesBack, PlaceOK
  <2>3. PlaceOK(run.op, run.at)'
    BY <1>2, <1>4, <2>1, <2>2 DEF PlaceOK, saved
  <2> QED
    BY <1>2, <1>3, <1>6, <2>1, <2>3
<1>12. CASE \E t \in Tools : RestoreTool(o, t)
  <2>1. PICK t \in Tools : RestoreTool(o, t)
    BY <1>12
  <2>2. /\ UNCHANGED <<registry, pointer, image, run>> /\ at = "RETOOL"
        /\ tool' = [tool EXCEPT ![t] = Restored(t, saved.tool[t])]
    BY <1>1, <2>1 DEF RestoreTool, At, saved
  <2>3. Restored(t, saved.tool[t]) \in [files : GenerationOrNone, manifest : GenerationOrNone]
    BY <1>2, <1>3 DEF Restored, Projections, GenerationOrNone
  <2>4. tool' \in Projections
    BY <1>2, <2>2, <2>3 DEF Projections
  <2>5. ImagesBack(tx[o].saved)'
    BY <1>2, <1>4, <2>2 DEF ImagesBack, PlaceOK
  <2>6. PlaceOK(run.op, run.at)'
    BY <1>2, <1>4, <2>2, <2>5 DEF PlaceOK
  <2> QED
    BY <1>2, <1>6, <2>2, <2>4, <2>6
<1> QED
  BY <1>8, <1>9, <1>10, <1>11, <1>12

(***************************************************************************)
(* The retirement of a generation                                          *)
(***************************************************************************)
\* The installation keeps its shape while its active generation is there.
LEMMA ShapeKept ==
  ASSUME Gone \/ Whole, registry \in Registries, registry' \in Registries,
         UNCHANGED <<pointer, tool, audit>>,
         registry'.status = registry.status, registry'.by = registry.by,
         \A g \in Generations : registry'.generations[g] = "active" <=> registry.generations[g] = "active",
         \A g \in Generations : registry.generations[g] = "active" /\ image[g] # "absent" => image'[g] # "absent"
  PROVE  (Gone \/ Whole)'
<1>1. ActiveOf(registry'.generations) = ActiveOf(registry.generations)
  BY DEF ActiveOf
<1>2. CASE Gone
  BY <1>1, <1>2 DEF Gone
<1>3. CASE Whole
  <2>1. pointer \in Generations /\ registry.generations[pointer] = "active"
    BY <1>3 DEF Whole, ActiveOf
  <2>2. Active = pointer
    BY <1>3, <2>1 DEF Whole, ActiveOf, Active
  <2>3. Active' = pointer
    BY <1>1, <1>3, <2>1 DEF Whole, ActiveOf, Active
  <2>4. Binding' = Binding
    BY <2>2, <2>3 DEF Binding
  <2> QED
    BY <1>1, <1>3, <2>1, <2>4 DEF Whole
<1> QED
  BY <1>2, <1>3

LEMMA RetirementPlace ==
  ASSUME InstInv, NEW r \in Retirements, NEW at \in Recycling, At(r, at)
  PROVE  /\ run \in RetirementRuns /\ run.op = r /\ run.at = at /\ ~TransactionsOpen /\ RecyclingOK(r, at)
         /\ serving = None /\ retire[r] \in Retiring /\ retire[r] # None /\ retire[r].gen \in Generations
         /\ retire[r].before.generations[retire[r].gen] = "retiring"
         /\ \A s \in Retirements : NonIdle(s) => s = r
         /\ Base
<1>1. run \notin OperationRuns
  BY IdentitiesAssumption DEF At, OperationRuns
<1>2. run \in RetirementRuns /\ ~TransactionsOpen /\ RecyclingOK(r, at) /\ serving = None
  BY <1>1 DEF At, InstInv, RunOK
<1>3. retire[r] \in Retiring /\ retire[r] # None /\ NonIdle(r)
  BY <1>2 DEF RecyclingOK, NonIdle, InstInv, TypesOK
<1>4. Base
  BY <1>2 DEF InstInv, Changing, Holder, TransactionsOpen
<1>5. retire[r].gen \in Generations
  BY <1>3 DEF Retiring
<1> QED
  BY <1>2, <1>3, <1>4, <1>5 DEF At, InstInv, RetirementsOK

\* What is left to show of a step while no transaction is open.
LEMMA QuietStep ==
  ASSUME ~TransactionsOpen, InstInv, UNCHANGED <<plan, tx, lock>>, TypesOK', Base', RetirementsOK', RunOK',
         serving' # None => run' = None
  PROVE  InstInv'
<1>1. ASSUME NEW o \in Operations
      PROVE  JournalOK(o)' /\ (Holder(o)' => HolderFacts(o)')
  BY DEF TransactionsOpen, JournalOK, Holder
<1> QED
  BY <1>1 DEF InstInv

\* The row of r changes and r stays the one that is in progress.
LEMMA RowChanges ==
  ASSUME InstInv, NEW r \in Retirements, NEW at \in Recycling, At(r, at),
         NEW y \in Retiring, retire' = [retire EXCEPT ![r] = y],
         y.gen = retire[r].gen, y.before = retire[r].before, y.status \notin {"COMMITTED", "ABORTED"},
         UNCHANGED <<registry, pointer, tool, audit, tx>>, image' \in Images,
         \A g \in Generations \ {retire[r].gen} : image'[g] = image[g],
         image'[retire[r].gen] \in {image[retire[r].gen], "absent"},
         registry = retire[r].before \/ image' = image
  PROVE  /\ NonIdle(r)' /\ Base' /\ RetirementsOK' /\ retire' \in [Retirements -> Retiring \cup {None}]
         /\ retire'[r] = y
<1>1. /\ retire[r].gen \in Generations /\ retire[r].before.generations[retire[r].gen] = "retiring" /\ ~TransactionsOpen
      /\ (\A s \in Retirements : NonIdle(s) => s = r) /\ Base /\ NonIdle(r)
  BY RetirementPlace DEF RecyclingOK
<1>2. /\ retire' \in [Retirements -> Retiring \cup {None}] /\ retire'[r] = y /\ y # None
      /\ \A s \in Retirements \ {r} : retire'[s] = retire[s]
  BY NoneAssumption DEF InstInv, TypesOK
<1>3. NonIdle(r)' /\ \A s \in Retirements : NonIdle(s)' <=> NonIdle(s)
  BY <1>1, <1>2 DEF NonIdle
<1>4. (Gone \/ Whole)'
  BY <1>1, ShapeKept DEF Base, InstInv, TypesOK
<1>5. Base'
  <2> SUFFICES ASSUME NEW g \in Generations, registry.generations[g] # "absent", image'[g] = "absent"
               PROVE  \E s \in Retirements : NonIdle(s)' /\ retire'[s].gen = g
    BY <1>4 DEF Base
  <2>1. CASE g = retire[r].gen
    BY <1>2, <1>3, <2>1
  <2>2. CASE g # retire[r].gen
    <3>1. PICK s \in Retirements : NonIdle(s) /\ retire[s].gen = g
      BY <1>1, <2>2 DEF Base
    <3> QED
      BY <1>2, <1>3, <3>1
  <2> QED
    BY <2>1, <2>2
<1>6. RetirementsOK'
  BY <1>1, <1>2, <1>3 DEF InstInv, RetirementsOK, NonIdle, TransactionsOpen
<1> QED
  BY <1>2, <1>3, <1>5, <1>6

LEMMA RetirementRows ==
  ASSUME NEW x \in Retiring, NEW s \in {"RECOVERY_REQUIRED", "COMMITTED"},
         NEW t \in {"PREPARED", "RECYCLING", "RECYCLED_VERIFIED"}
  PROVE  /\ [x EXCEPT !.status = s] \in Retiring /\ [x EXCEPT !.target = t] \in Retiring
         /\ [x EXCEPT !.receipt = TRUE] \in Retiring
         /\ [x EXCEPT !.status = s].gen = x.gen /\ [x EXCEPT !.status = s].before = x.before
         /\ [x EXCEPT !.status = s].status = s /\ [x EXCEPT !.status = s].target = x.target
         /\ [x EXCEPT !.target = t].gen = x.gen /\ [x EXCEPT !.target = t].before = x.before
         /\ [x EXCEPT !.target = t].status = x.status /\ [x EXCEPT !.target = t].target = t
         /\ [x EXCEPT !.receipt = TRUE].gen = x.gen /\ [x EXCEPT !.receipt = TRUE].before = x.before
         /\ [x EXCEPT !.receipt = TRUE].status = x.status /\ [x EXCEPT !.receipt = TRUE].target = x.target
BY DEF Retiring

LEMMA RetirementGoes ==
  ASSUME run \in RetirementRuns, NEW at \in Recycling, Go(at)
  PROVE  run' \in RetirementRuns /\ run'.op = run.op /\ run'.at = at
BY DEF RetirementRuns, Go

LEMMA StartRetirementKeeps ==
  ASSUME InstInv, NEW r \in Retirements, NEW g \in Generations, StartRetirement(r, g)
  PROVE  InstInv'
<1> DEFINE y == [gen |-> g, target |-> "PREPARED", receipt |-> FALSE, status |-> "PREPARED",
                 before |-> registry, surfaces |-> <<pointer, tool>>]
<1>1. ~TransactionsOpen /\ RetirementsIdle /\ serving = None
  BY DEF StartRetirement, Quiet, Idle
<1>2. Base
  BY <1>1 DEF InstInv, Changing, Holder, TransactionsOpen
<1>3. y \in Retiring
  BY DEF Retiring, InstInv, TypesOK
<1>4. /\ y.gen = g /\ y.status = "PREPARED" /\ y.before = registry /\ registry.generations[g] = "retiring"
      /\ retire' = [retire EXCEPT ![r] = y]
  BY DEF StartRetirement
<1> HIDE DEF y
<1>5. /\ retire' \in [Retirements -> Retiring \cup {None}] /\ retire'[r] = y /\ y # None
      /\ \A s \in Retirements \ {r} : retire'[s] = retire[s]
  BY <1>3, <1>4, NoneAssumption DEF InstInv, TypesOK
<1>6. UNCHANGED <<registry, pointer, image, tool, host, lock, plan, tx, serving, audit>>
  BY DEF StartRetirement, installed, mcp
<1>7. /\ run' \in RetirementRuns /\ run'.op = r /\ run'.at = "MARK"
  BY DEF StartRetirement, RetirementRuns, Recycling
<1>8. NonIdle(r)' /\ \A s \in Retirements \ {r} : ~NonIdle(s)' /\ ~NonIdle(s)
  BY <1>1, <1>4, <1>5 DEF NonIdle, RetirementsIdle
<1>9. RetirementsOK'
  BY <1>1, <1>4, <1>5, <1>6, <1>8 DEF InstInv, RetirementsOK, TransactionsOpen
<1>10. Base'
  <2>1. \A h \in Generations : registry.generations[h] # "absent" => image[h] # "absent"
    BY <1>1, <1>2 DEF Base, NonIdle, RetirementsIdle
  <2>2. (Gone \/ Whole)'
    BY <1>2, <1>6 DEF Base, Gone, Whole, Binding, Active
  <2> QED
    BY <1>6, <2>1, <2>2 DEF Base
<1>11. RunOK'
  BY <1>1, <1>4, <1>5, <1>6, <1>7, <1>8 DEF RunOK, RecyclingOK, TransactionsOpen
<1>12. TypesOK'
  BY <1>5, <1>6, <1>7 DEF InstInv, TypesOK
<1> QED
  BY <1>1, <1>6, <1>9, <1>10, <1>11, <1>12, QuietStep

LEMMA RequiringKeeps ==
  ASSUME InstInv, NEW r \in Retirements, NEW at \in Recycling, At(r, at), RequiresRecovery(r),
         UNCHANGED <<registry, pointer, tool, mcp, lock, plan, tx, serving, audit>>, image' \in Images,
         \A g \in Generations \ {retire[r].gen} : image'[g] = image[g],
         image'[retire[r].gen] \in {image[retire[r].gen], "absent"},
         registry = retire[r].before \/ image' = image
  PROVE  InstInv'
<1>1. retire[r] \in Retiring /\ retire[r] # None /\ ~TransactionsOpen /\ serving = None
  BY RetirementPlace
<1> DEFINE y == [retire[r] EXCEPT !.status = "RECOVERY_REQUIRED"]
<1>2. /\ y \in Retiring /\ y.gen = retire[r].gen /\ y.before = retire[r].before
      /\ y.status = "RECOVERY_REQUIRED"
  BY <1>1, RetirementRows
<1>3. retire' = [retire EXCEPT ![r] = y] /\ run' = None
  BY DEF RequiresRecovery
<1> HIDE DEF y
<1>4. Base' /\ RetirementsOK' /\ retire' \in [Retirements -> Retiring \cup {None}]
  BY <1>2, <1>3, RowChanges
<1>5. TypesOK' /\ RunOK'
  BY <1>3, <1>4 DEF InstInv, TypesOK, RunOK, mcp
<1> QED
  BY <1>1, <1>4, <1>5, QuietStep

LEMMA RecyclingKeeps ==
  ASSUME InstInv, NEW r \in Retirements, MarkRecycling(r) \/ Invoke(r) \/ RecordVerified(r)
  PROVE  InstInv'
<1> USE DEF Recycling
<1>0. image \in Images
  BY DEF InstInv, TypesOK
<1>1. ASSUME NEW at \in {"MARK", "INVOKE", "VERIFIED"}, At(r, at), NEW to \in {"INVOKE", "VERIFIED", "DROP"}, Go(to),
             NEW y \in Retiring, retire' = [retire EXCEPT ![r] = y],
             y.gen = retire[r].gen, y.before = retire[r].before, y.status = retire[r].status,
             to = "DROP" => y.target = "RECYCLED_VERIFIED",
             UNCHANGED <<registry, pointer, tool, mcp, lock, plan, tx, serving, audit>>, image' \in Images,
             \A g \in Generations \ {retire[r].gen} : image'[g] = image[g],
             image'[retire[r].gen] \in {image[retire[r].gen], "absent"}
      PROVE  InstInv'
  <2>1. /\ run \in RetirementRuns /\ run.op = r /\ ~TransactionsOpen /\ RecyclingOK(r, at) /\ serving = None
    BY <1>1, RetirementPlace
  <2>2. registry = retire[r].before /\ y.status \notin {"COMMITTED", "ABORTED"}
    BY <1>1, <2>1 DEF RecyclingOK, NonIdle
  <2>3. NonIdle(r)' /\ Base' /\ RetirementsOK' /\ retire' \in [Retirements -> Retiring \cup {None}] /\ retire'[r] = y
    BY <1>1, <2>2, RowChanges
  <2>4. run' \in RetirementRuns /\ run'.op = r /\ run'.at = to
    BY <1>1, <2>1, RetirementGoes
  <2>5. RunOK'
    BY <1>1, <2>1, <2>2, <2>3, <2>4 DEF RunOK, RecyclingOK, TransactionsOpen
  <2>6. TypesOK'
    BY <1>1, <2>3, <2>4 DEF InstInv, TypesOK, mcp
  <2> QED
    BY <1>1, <2>1, <2>3, <2>5, <2>6, QuietStep
<1>2. CASE MarkRecycling(r)
  <2>1. At(r, "MARK") /\ retire[r] \in Retiring
    BY <1>2, RetirementPlace DEF MarkRecycling
  <2>2. UNCHANGED <<registry, pointer, image, tool, mcp, lock, plan, tx, serving, audit>>
    BY <1>2 DEF MarkRecycling, installed
  <2>3. CASE RequiresRecovery(r)
    BY <1>0, <2>1, <2>2, <2>3, RequiringKeeps
  <2>4. CASE retire' = [retire EXCEPT ![r].target = "RECYCLING"] /\ Go("INVOKE")
    BY <1>0, <1>1, <2>1, <2>2, <2>4, RetirementRows
  <2> QED
    BY <1>2, <2>3, <2>4 DEF MarkRecycling
<1>3. CASE Invoke(r)
  <2>1. At(r, "INVOKE") /\ retire[r] \in Retiring /\ retire[r].gen \in Generations /\ registry = retire[r].before
    BY <1>3, RetirementPlace DEF Invoke, RecyclingOK
  <2>2. UNCHANGED <<registry, pointer, tool, mcp, lock, plan, tx, serving, audit>>
    BY <1>3 DEF Invoke
  <2>3. /\ image' \in Images /\ \A g \in Generations \ {retire[r].gen} : image'[g] = image[g]
        /\ image'[retire[r].gen] \in {image[retire[r].gen], "absent"}
    BY <1>0, <1>3, <2>1 DEF Invoke, Images, ImageStates
  <2>4. CASE RequiresRecovery(r)
    BY <2>1, <2>2, <2>3, <2>4, RequiringKeeps
  <2>5. CASE retire' = [retire EXCEPT ![r].receipt = TRUE] /\ Go("VERIFIED")
    BY <1>1, <2>1, <2>2, <2>3, <2>5, RetirementRows
  <2> QED
    BY <1>3, <2>4, <2>5 DEF Invoke
<1>4. CASE RecordVerified(r)
  <2>1. At(r, "VERIFIED") /\ retire[r] \in Retiring
    BY <1>4, RetirementPlace DEF RecordVerified
  <2>2. UNCHANGED <<registry, pointer, image, tool, mcp, lock, plan, tx, serving, audit>>
    BY <1>4 DEF RecordVerified, installed
  <2>3. retire' = [retire EXCEPT ![r].target = "RECYCLED_VERIFIED"] /\ Go("DROP")
    BY <1>4 DEF RecordVerified
  <2> QED
    BY <1>0, <1>1, <2>1, <2>2, <2>3, RetirementRows
<1> QED
  BY <1>2, <1>3, <1>4

\* What the registry becomes when a verified generation leaves it.
LEMMA WithoutRecycled ==
  ASSUME InstInv, NEW r \in Retirements, retire[r] # None, registry' = Verified(r, "RECYCLED_VERIFIED"),
         registry \in {retire[r].before, Verified(r, "RECYCLED_VERIFIED")},
         UNCHANGED <<pointer, image, tool, audit>>, Gone \/ Whole
  PROVE  /\ registry' \in Registries /\ registry'.generations[retire[r].gen] = "absent"
         /\ \A g \in Generations : registry'.generations[g] # "absent" => registry.generations[g] # "absent"
         /\ (Gone \/ Whole)'
<1>1. /\ retire[r].before \in Registries /\ retire[r].gen \in Generations
      /\ retire[r].before.generations[retire[r].gen] = "retiring"
      /\ retire[r].before.generations \in [Generations -> {"absent", "active", "retiring"}]
  BY DEF InstInv, TypesOK, RetirementsOK, Retiring, Registries
<1>2. registry' = [retire[r].before EXCEPT !.generations[retire[r].gen] = "absent"]
  BY DEF Verified
<1>3. /\ registry' \in Registries /\ registry'.generations[retire[r].gen] = "absent"
      /\ registry'.status = retire[r].before.status /\ registry'.by = retire[r].before.by
      /\ \A g \in Generations \ {retire[r].gen} : registry'.generations[g] = retire[r].before.generations[g]
  BY <1>1, <1>2 DEF Registries
<1>4. registry = retire[r].before \/ registry = registry'
  OBVIOUS
<1>5. registry \in Registries
  BY DEF InstInv, TypesOK
<1>6. (Gone \/ Whole)'
  BY <1>1, <1>3, <1>4, <1>5, ShapeKept
<1> QED
  BY <1>1, <1>3, <1>4, <1>6

LEMMA DropKeeps == ASSUME InstInv, NEW r \in Retirements, DropFromRegistry(r) PROVE InstInv'
<1> USE DEF Recycling
<1>1. /\ At(r, "DROP") /\ run \in RetirementRuns /\ run.op = r /\ ~TransactionsOpen /\ RecyclingOK(r, "DROP")
      /\ serving = None /\ retire[r] # None /\ Base
  BY RetirementPlace DEF DropFromRegistry
<1>2. UNCHANGED <<pointer, image, tool, host, lock, plan, tx, serving, retire, audit>>
  BY DEF DropFromRegistry, mcp
<1>3. retire[r].target = "RECYCLED_VERIFIED" /\ registry = retire[r].before /\ NonIdle(r)
  BY <1>1 DEF RecyclingOK
<1>4. /\ registry' \in Registries /\ registry'.generations[retire[r].gen] = "absent"
      /\ \A g \in Generations : registry'.generations[g] # "absent" => registry.generations[g] # "absent"
      /\ (Gone \/ Whole)'
  BY <1>1, <1>2, <1>3, WithoutRecycled DEF Base, DropFromRegistry
<1>5. Base'
  BY <1>1, <1>2, <1>4 DEF Base, NonIdle
<1>6. RetirementsOK'
  BY <1>2 DEF InstInv, RetirementsOK, NonIdle, TransactionsOpen, RetirementsIdle
<1>7. run' \in RetirementRuns /\ run'.op = r /\ run'.at = "CLOSE"
  BY <1>1, RetirementGoes DEF DropFromRegistry
<1>8. RunOK'
  BY <1>1, <1>2, <1>3, <1>4, <1>7 DEF RunOK, RecyclingOK, NonIdle, TransactionsOpen
<1>9. TypesOK'
  BY <1>2, <1>4, <1>7 DEF InstInv, TypesOK
<1> QED
  BY <1>1, <1>2, <1>5, <1>6, <1>8, <1>9, QuietStep

LEMMA CloseKeeps == ASSUME InstInv, NEW r \in Retirements, CloseRetirement(r) PROVE InstInv'
<1> USE DEF Recycling
<1>1. /\ At(r, "CLOSE") /\ ~TransactionsOpen /\ RecyclingOK(r, "CLOSE") /\ serving = None /\ retire[r] # None
      /\ retire[r] \in Retiring /\ Base /\ (\A s \in Retirements : NonIdle(s) => s = r)
      /\ retire[r].before.generations[retire[r].gen] = "retiring"
  BY RetirementPlace DEF CloseRetirement
<1>2. UNCHANGED <<registry, pointer, image, tool, host, lock, plan, tx, serving, audit>> /\ run' = None
  BY DEF CloseRetirement, installed, mcp
<1> DEFINE y == [retire[r] EXCEPT !.status = "COMMITTED"]
<1>3. y \in Retiring /\ y.gen = retire[r].gen /\ y.before = retire[r].before /\ y.status = "COMMITTED"
  BY <1>1, RetirementRows
<1>4. retire' = [retire EXCEPT ![r] = y]
  BY DEF CloseRetirement
<1> HIDE DEF y
<1>5. /\ retire' \in [Retirements -> Retiring \cup {None}] /\ retire'[r] = y
      /\ \A s \in Retirements \ {r} : retire'[s] = retire[s]
  BY <1>3, <1>4 DEF InstInv, TypesOK
<1>6. Base'
  <2>1. (Gone \/ Whole)'
    BY <1>1, <1>2 DEF Base, Gone, Whole, Binding, Active
  <2>2. \A g \in Generations : registry.generations[g] # "absent" => image[g] # "absent"
    BY <1>1 DEF Base, RecyclingOK
  <2> QED
    BY <1>2, <2>1, <2>2 DEF Base
<1>7. RetirementsOK'
  BY <1>1, <1>2, <1>3, <1>5 DEF InstInv, RetirementsOK, NonIdle, TransactionsOpen
<1>8. TypesOK' /\ RunOK'
  BY <1>2, <1>5 DEF InstInv, TypesOK, RunOK
<1> QED
  BY <1>1, <1>2, <1>6, <1>7, <1>8, QuietStep

LEMMA RetirementFailsKeeps == ASSUME InstInv, RetirementFails PROVE InstInv'
<1>1. run \in RetirementRuns
  BY DEF RetirementFails, InstInv, TypesOK, OperationRuns
<1>2. PICK r \in Retirements, at \in Recycling : At(r, at) /\ run.op = r
  BY <1>1 DEF RetirementRuns, At, RetirementFails
<1>3. image \in Images
  BY DEF InstInv, TypesOK
<1> QED
  BY <1>2, <1>3, RequiringKeeps DEF RetirementFails, installed

LEMMA RecoverRetirementKeeps ==
  ASSUME InstInv, NEW r \in Retirements, RecoverRetirement(r)
  PROVE  InstInv'
<1> DEFINE target == Reconciled(r)
           status == CASE target = "RECYCLED_VERIFIED" -> "COMMITTED"
                       [] target = "PREPARED" /\ Intact(retire[r].gen) -> "ABORTED"
                       [] OTHER -> "RECOVERY_REQUIRED"
           y == [retire[r] EXCEPT !.target = target, !.status = status]
<1>1. /\ ~TransactionsOpen /\ run = None /\ serving = None /\ retire[r] # None /\ retire[r] \in Retiring
      /\ \A s \in Retirements \ {r} : ~NonIdle(s)
      /\ retire[r].before.generations[retire[r].gen] = "retiring" /\ retire[r].gen \in Generations
  BY DEF RecoverRetirement, Quiet, Idle, NonIdle, InstInv, TypesOK, RetirementsOK, Retiring
<1>2. Base
  BY <1>1 DEF InstInv, Changing, Holder, TransactionsOpen
<1>3. UNCHANGED <<pointer, image, tool, host, lock, plan, tx, run, serving, audit>>
  BY DEF RecoverRetirement, mcp
<1>4. /\ registry \in {retire[r].before, Verified(r, target)} /\ registry' = Verified(r, target)
      /\ retire' = [retire EXCEPT ![r] = y]
  BY DEF RecoverRetirement
<1>5. target \in {"PREPARED", "RECYCLING", "RECYCLED_VERIFIED"}
  BY <1>1 DEF Reconciled, Retiring
<1>6. /\ status \in {"COMMITTED", "ABORTED", "RECOVERY_REQUIRED"}
      /\ status = "COMMITTED" <=> target = "RECYCLED_VERIFIED"
      /\ status = "ABORTED" => target = "PREPARED" /\ Intact(retire[r].gen)
  OBVIOUS
<1> HIDE DEF target, status
<1>7. /\ y \in Retiring /\ y.gen = retire[r].gen /\ y.before = retire[r].before /\ y.status = status
      /\ y.target = target
  BY <1>1, <1>5, <1>6 DEF Retiring
<1> HIDE DEF y
<1>8. /\ retire' \in [Retirements -> Retiring \cup {None}] /\ retire'[r] = y /\ y # None
      /\ \A s \in Retirements \ {r} : retire'[s] = retire[s]
  BY <1>4, <1>7, NoneAssumption DEF InstInv, TypesOK
<1>9. \A s \in Retirements \ {r} : ~NonIdle(s)'
  BY <1>1, <1>8 DEF NonIdle
<1>10. RetirementsOK'
  BY <1>1, <1>3, <1>6, <1>7, <1>8, <1>9 DEF InstInv, RetirementsOK, TransactionsOpen
<1>11. Base' /\ registry' \in Registries
  <2>1. CASE target = "RECYCLED_VERIFIED"
    <3>1. /\ registry' \in Registries /\ registry'.generations[retire[r].gen] = "absent"
          /\ \A g \in Generations : registry'.generations[g] # "absent" => registry.generations[g] # "absent"
          /\ (Gone \/ Whole)'
      BY <1>1, <1>2, <1>3, <1>4, <2>1, WithoutRecycled DEF Base
    <3>2. \A g \in Generations : registry'.generations[g] # "absent" => image[g] # "absent"
      BY <1>1, <1>2, <3>1 DEF Base
    <3> QED
      BY <1>3, <3>1, <3>2 DEF Base
  <2>2. CASE target # "RECYCLED_VERIFIED"
    <3>1. UNCHANGED registry
      BY <1>4, <2>2 DEF Verified
    <3>2. (Gone \/ Whole)'
      BY <1>2, <1>3, <3>1 DEF Base, Gone, Whole, Binding, Active
    <3>3. ASSUME NEW g \in Generations, registry.generations[g] # "absent", image[g] = "absent"
          PROVE  NonIdle(r)' /\ retire'[r].gen = g
      <4>1. retire[r].gen = g
        BY <1>1, <1>2, <3>3 DEF Base
      <4>2. status = "RECOVERY_REQUIRED"
        BY <1>6, <2>2, <3>3, <4>1, IdentitiesAssumption DEF Intact
      <4> QED
        BY <1>7, <1>8, <4>1, <4>2 DEF NonIdle
    <3> QED
      BY <1>3, <3>1, <3>2, <3>3 DEF Base, InstInv, TypesOK
  <2> QED
    BY <2>1, <2>2
<1>12. TypesOK' /\ RunOK'
  BY <1>1, <1>3, <1>8, <1>11 DEF InstInv, TypesOK, RunOK
<1> QED
  BY <1>1, <1>3, <1>10, <1>11, <1>12, QuietStep

(***************************************************************************)
(* Plans, requests and the owner                                           *)
(***************************************************************************)
LEMMA AroundKeeps ==
  ASSUME InstInv, UNCHANGED <<registry, pointer, image, tool, plan, tx, run, retire, audit>>, TypesOK',
         lock' = lock \/ (lock # None /\ lock' # None /\ lock'.op = lock.op),
         serving' # None => run' = None
  PROVE  InstInv'
<1>1. \A o \in Operations : JournalOK(o)' /\ (Holder(o)' => HolderFacts(o)')
  BY HolderSame DEF InstInv, JournalOK, Holder
<1>2. (\A o \in Operations : ~Changing(o)') => Base'
  BY BaseSame DEF InstInv, Changing, Holder
<1>3. RetirementsOK'
  BY DEF InstInv, RetirementsOK, NonIdle, TransactionsOpen, RetirementsIdle
<1>4. RunOK'
  <2>1. RetirementsIdle' = RetirementsIdle /\ TransactionsOpen' = TransactionsOpen
    BY DEF RetirementsIdle, TransactionsOpen
  <2>2. ASSUME NEW r, NEW at, RecyclingOK(r, at) PROVE RecyclingOK(r, at)'
    BY <2>2 DEF RecyclingOK, NonIdle
  <2>3. ASSUME NEW o, NEW at, PlaceOK(o, at) PROVE PlaceOK(o, at)'
    BY <2>3 DEF PlaceOK, TargetThere, Marked, Wanted, Cleaned, Forgotten, Forward, ImagesBack, Back, Holder,
                Binding, Active
  <2>4. CASE run \in OperationRuns /\ RetirementsIdle /\ PlaceOK(run.op, run.at)
    BY <2>1, <2>3, <2>4 DEF RunOK
  <2>5. CASE run \in RetirementRuns /\ ~TransactionsOpen /\ RecyclingOK(run.op, run.at)
    BY <2>1, <2>2, <2>5 DEF RunOK
  <2> QED
    BY <2>4, <2>5 DEF InstInv, RunOK
<1> QED
  BY <1>1, <1>2, <1>3, <1>4 DEF InstInv

LEMMA PlanKeeps ==
  ASSUME InstInv, NEW o \in Operations, NEW kind \in Kinds, NEW g \in Generations, Plan(o, kind, g)
  PROVE  InstInv'
<1> USE DEF installed, mcp
<1>1. plan[o] = None /\ run = None /\ run' = None /\ tx[o] = None
  BY NoneAssumption DEF Plan, InstInv, JournalOK
<1> DEFINE p == [kind |-> kind, gen |-> g, basis |-> Basis(g)]
<1>2. p \in Plans
  <2>1. Basis(g) \in [registry : Registries, image : ImageStates, tool : Projections, host : HostFiles]
    BY DEF Basis, InstInv, TypesOK, Images
  <2> QED
    BY <2>1 DEF Plans
<1>3. plan' = [plan EXCEPT ![o] = p]
  BY DEF Plan
<1> HIDE DEF p
<1>4. /\ plan' \in [Operations -> Plans \cup {None}]
      /\ \A x \in Operations \ {o} : plan'[x] = plan[x]
  BY <1>2, <1>3 DEF InstInv, TypesOK
<1>5. ASSUME NEW x \in Operations
      PROVE  JournalOK(x)' /\ (Holder(x)' => HolderFacts(x)')
  <2>1. CASE x = o
    BY <1>1, <2>1 DEF Plan, JournalOK, Holder
  <2>2. CASE x # o
    <3>1. JournalOK(x)'
      BY <1>4, <2>2 DEF Plan, InstInv, JournalOK
    <3>2. Holder(x)' => HolderFacts(x)'
      BY <1>4, <2>2 DEF Plan, InstInv, Holder, HolderFacts, OthersThere, TargetThere, Marked, Wanted,
                        ProjectionsHold, Cleaned, Forgotten, Forward, Back, ImagesBack
    <3> QED
      BY <3>1, <3>2
  <2> QED
    BY <2>1, <2>2
<1>6. (\A x \in Operations : ~Changing(x)') => Base'
  BY BaseSame DEF Plan, InstInv, Changing, Holder
<1>7. RetirementsOK'
  BY DEF Plan, InstInv, RetirementsOK, NonIdle, TransactionsOpen, RetirementsIdle
<1>8. TypesOK'
  BY <1>4 DEF Plan, InstInv, TypesOK
<1> QED
  BY <1>1, <1>5, <1>6, <1>7, <1>8 DEF InstInv, RunOK

LEMMA AroundSteps ==
  ASSUME InstInv,
         \/ LockExpires \/ EndRequest \/ UNCHANGED vars
         \/ \E t \in Tools : Admit(t) \/ EditHost(t)
  PROVE  InstInv'
<1> USE DEF installed, mcp
<1>1. CASE LockExpires
  <2>1. lock' \in Locks /\ lock' # None /\ lock'.op = lock.op
    <3> DEFINE held == [lock EXCEPT !.live = FALSE]
    <3>1. lock \in Locks
      BY <1>1 DEF LockExpires, InstInv, TypesOK
    <3>2. held \in Locks /\ held.op = lock.op
      BY <3>1 DEF Locks
    <3>3. lock' = held
      BY <1>1 DEF LockExpires
    <3> HIDE DEF held
    <3> QED
      BY <3>2, <3>3, NoneAssumption
  <2>2. TypesOK'
    BY <1>1, <2>1 DEF LockExpires, InstInv, TypesOK
  <2> QED
    BY <1>1, <2>1, <2>2, AroundKeeps DEF LockExpires, InstInv
<1>2. CASE EndRequest
  BY <1>2, AroundKeeps DEF EndRequest, InstInv, TypesOK
<1>3. CASE UNCHANGED vars
  BY <1>3, AroundKeeps DEF vars, InstInv, TypesOK
<1>4. ASSUME NEW t \in Tools, Admit(t) PROVE InstInv'
  BY <1>4, AroundKeeps DEF Admit, Idle, InstInv, TypesOK
<1>5. ASSUME NEW t \in Tools, EditHost(t) PROVE InstInv'
  <2>1. host' \in HostFiles
    BY <1>5 DEF EditHost, InstInv, TypesOK, HostFiles
  <2>2. TypesOK'
    BY <1>5, <2>1 DEF EditHost, InstInv, TypesOK
  <2> QED
    BY <1>5, <2>2, AroundKeeps DEF EditHost, InstInv
<1> QED
  BY <1>1, <1>2, <1>3, <1>4, <1>5

LEMMA DamageKeeps == ASSUME InstInv, NEW g \in Generations, DamageImage(g) PROVE InstInv'
<1>1. UNCHANGED <<registry, pointer, tool, host, lock, plan, tx, run, serving, retire, audit>>
  BY DEF DamageImage, mcp
<1>2. /\ image' \in Images /\ image \in Images /\ image'[g] = "damaged" /\ image[g] # "absent"
      /\ \A h \in Generations \ {g} : image'[h] = image[h]
  BY IdentitiesAssumption DEF DamageImage, Intact, InstInv, TypesOK, Images, ImageStates
<1>3. \A h \in Generations : image'[h] = "absent" <=> image[h] = "absent"
  BY <1>2
<1>4. ASSUME NEW s, ImagesBack(s) PROVE ImagesBack(s)'
  BY <1>2, <1>4 DEF ImagesBack
<1>5. ASSUME NEW s, Back(s) PROVE Back(s)'
  BY <1>1, <1>4, <1>5 DEF Back
<1>6. ASSUME NEW o \in Operations, plan[o] \in Plans
      PROVE  (OthersThere(o) => OthersThere(o)') /\ (TargetThere(o) => TargetThere(o)')
  BY <1>1, <1>3, <1>6 DEF OthersThere, TargetThere, Plans
<1>7. ASSUME NEW o \in Operations, JournalOK(o), Holder(o), HolderFacts(o) PROVE HolderFacts(o)'
  <2>1. plan[o] \in Plans
    BY <1>7 DEF JournalOK, Holder
  <2>2. tx[o].restored => Back(tx[o].saved)'
    BY <1>1, <1>5, <1>7 DEF HolderFacts
  <2> QED
    BY <1>1, <1>6, <1>7, <2>1, <2>2 DEF HolderFacts, Marked, Wanted, ProjectionsHold, Cleaned, Forgotten, Forward,
                                        Onward
<1>8. \A o \in Operations : JournalOK(o)' /\ (Holder(o)' => HolderFacts(o)')
  BY <1>1, <1>7 DEF InstInv, JournalOK, Holder
<1>9. (\A o \in Operations : ~Changing(o)') => Base'
  <2> SUFFICES ASSUME Base PROVE Base'
    BY <1>1 DEF InstInv, Changing, Holder
  <2>1. (Gone \/ Whole)'
    BY <1>1, <1>3, ShapeKept DEF Base, InstInv, TypesOK
  <2> QED
    BY <1>1, <1>3, <2>1 DEF Base, NonIdle
<1>10. RetirementsOK'
  BY <1>1 DEF InstInv, RetirementsOK, NonIdle, TransactionsOpen, RetirementsIdle
<1>11. RunOK'
  <2>1. RetirementsIdle' = RetirementsIdle /\ TransactionsOpen' = TransactionsOpen
    BY <1>1 DEF RetirementsIdle, TransactionsOpen
  <2>2. CASE run # None /\ run \in RetirementRuns /\ ~TransactionsOpen /\ RecyclingOK(run.op, run.at)
    BY <1>1, <2>1, <2>2 DEF RunOK, RecyclingOK, NonIdle
  <2>3. CASE run # None /\ run \in OperationRuns /\ RetirementsIdle /\ PlaceOK(run.op, run.at)
    <3> DEFINE o == run.op
               at == run.at
    <3>1. o \in Operations /\ plan[o] \in Plans
      BY <2>3 DEF OperationRuns, PlaceOK
    <3>2. TargetThere(o) => TargetThere(o)'
      BY <1>1, <1>6, <3>1
    <3>3. /\ ImagesBack(tx[o].saved) => ImagesBack(tx[o].saved)'
          /\ Back(tx[o].saved) => Back(tx[o].saved)'
      BY <1>1, <1>2 DEF ImagesBack, Back
    <3>4. PlaceOK(o, at)'
      BY <1>1, <2>3, <3>1, <3>2, <3>3 DEF PlaceOK, Marked, Wanted, Cleaned, Forgotten, Forward, Holder, Binding, Active
    <3> QED
      BY <1>1, <2>1, <2>3, <3>4 DEF RunOK
  <2> QED
    BY <1>1, <2>2, <2>3 DEF InstInv, RunOK
<1>12. TypesOK'
  BY <1>1, <1>2 DEF InstInv, TypesOK
<1> QED
  BY <1>1, <1>8, <1>9, <1>10, <1>11, <1>12 DEF InstInv

(***************************************************************************)
(* The invariant                                                           *)
(***************************************************************************)
LEMMA InitInv == Init => InstInv
<1> SUFFICES ASSUME Init PROVE InstInv
  OBVIOUS
<1>1. registry \in Registries
  BY DEF Init, Registries, OperationOrNone
<1>2. pointer \in GenerationOrNone /\ image \in Images /\ tool \in Projections /\ host \in HostFiles
  BY DEF Init, GenerationOrNone, Images, ImageStates, Projections, HostFiles
<1>3. /\ plan \in [Operations -> Plans \cup {None}] /\ tx \in [Operations -> Transactions \cup {None}]
      /\ retire \in [Retirements -> Retiring \cup {None}]
  BY DEF Init
<1>4. TypesOK
  BY <1>1, <1>2, <1>3 DEF Init, TypesOK
<1>5. Base
  BY DEF Init, Base, Gone, ActiveOf
<1>6. RetirementsOK /\ RunOK
  BY DEF Init, RetirementsOK, NonIdle, TransactionsOpen, RunOK
<1>7. \A o \in Operations : tx[o] = None
  BY DEF Init
<1> QED
  BY <1>4, <1>5, <1>6, <1>7 DEF Init, InstInv, JournalOK, Holder

LEMMA StepInv == InstInv /\ [Next]_vars => InstInv'
<1> SUFFICES ASSUME InstInv, [Next]_vars PROVE InstInv'
  OBVIOUS
<1>1. ASSUME NEW o \in Operations, ExecutionStep(o) PROVE InstInv'
  <2>1. CASE AcquireLock(o) \/ Recheck(o) \/ Refused(o) \/ MarkPlan(o) \/ Stage(o) \/ BeginSnapshot(o) \/ Snapshot(o)
    BY <2>1, AcquireKeeps, EarlyKeeps, EndFails, SnapshotKeeps
  <2>2. CASE \/ Prevalidate(o) \/ RemoveTarget(o) \/ PlaceTarget(o) \/ WriteRegistry(o) \/ WritePointer(o)
             \/ Activated(o)
    BY <2>2, PrevalidateKeeps, RemoveKeeps, PlaceKeeps, RegistryKeeps, PointerKeeps, ActivatedKeeps
  <2>3. CASE \/ Postvalidate(o) \/ ReadyToClean(o) \/ CleanRegistry(o) \/ CleanImages(o) \/ ReviewEntries(o)
             \/ RecordEntries(o) \/ \E t \in Tools : WriteEntry(o, t)
    BY <2>3, PostvalidateKeeps, ReadyKeeps, CleaningKeeps, EntriesKeep
  <2>4. CASE Commit(o) \/ RecordOutcome(o) \/ Discard(o) \/ Unlock(o) \/ FinalScan(o)
    BY <2>4, CommitKeeps, OutcomeKeeps, DiscardKeeps, UnlockKeeps, ScanKeeps
  <2>5. CASE \E t \in Tools : ProjectFiles(o, t) \/ ProjectManifest(o, t)
    BY <2>5, ProjectionsKeep
  <2> QED
    BY <1>1, <2>1, <2>2, <2>3, <2>4, <2>5 DEF ExecutionStep
<1>2. ASSUME NEW o \in Operations, UndoStep(o) PROVE InstInv'
  BY <1>2, UndoKeeps, EndFails, RestoringKeeps, RestoredToolsKeep, MarkFailedKeeps, OutcomeKeeps DEF UndoStep
<1>3. ASSUME NEW r \in Retirements, RetirementStep(r) PROVE InstInv'
  BY <1>3, RecyclingKeeps, DropKeeps, CloseKeeps DEF RetirementStep
<1>4. CASE \E o \in Operations : Begin(o) \/ ExecutionStep(o) \/ UndoStep(o) \/ Recover(o)
  BY <1>1, <1>2, <1>4, BeginKeeps, RecoverKeeps
<1>5. CASE \E o \in Operations, kind \in Kinds, g \in Generations : Plan(o, kind, g)
  BY <1>5, PlanKeeps
<1>6. CASE \/ \E r \in Retirements : RetirementStep(r) \/ RecoverRetirement(r)
           \/ \E r \in Retirements, g \in Generations : StartRetirement(r, g)
  BY <1>3, <1>6, RecoverRetirementKeeps, StartRetirementKeeps
<1>7. CASE \/ \E t \in Tools : Admit(t) \/ EditHost(t)
           \/ LockExpires \/ EndRequest \/ UNCHANGED vars
  BY <1>7, AroundSteps
<1>8. CASE \E g \in Generations : DamageImage(g)
  BY <1>8, DamageKeeps
<1>9. CASE Fault \/ Killed \/ RetirementFails
  BY <1>9, FaultKeeps, KilledKeeps, RetirementFailsKeeps
<1> QED
  BY <1>4, <1>5, <1>6, <1>7, <1>8, <1>9 DEF Next

LEMMA AlwaysInv == Spec => []InstInv
BY InitInv, StepInv, PTL DEF Spec

(***************************************************************************)
(* What follows from it                                                    *)
(***************************************************************************)
\* Between operations the installation is not there at all, or it is whole:
\* registry, pointer, image, projections and binding receipt agree, however
\* many operations were killed, failed, rolled back or recovered before.
\* (_same_generation_disposition and doctor, which trust what they read)
THEOREM SettledIsWholeAlways == Spec => []SettledIsWhole
<1>1. InstInv => SettledIsWhole
  BY DEF InstInv, Changing, Holder, TransactionsOpen, Base, NonIdle, RetirementsIdle, SettledIsWhole
<1> QED
  BY <1>1, AlwaysInv, PTL

\* A rollback that reaches the archive has put back what its snapshot holds, in
\* whatever process it was finished.  (_restore_snapshot)
THEOREM RollbackRestoresAlways == Spec => []RollbackRestores
<1>1. InstInv => RollbackRestores
  <2> SUFFICES ASSUME InstInv, NEW o \in Operations, At(o, "ARCHIVE"), tx[o].snapshot = "COMPLETE"
               PROVE  Back(tx[o].saved)
    BY DEF RollbackRestores, Back, ImagesBack
  <2>1. PlaceOK(o, "ARCHIVE") /\ (Holder(o) => HolderFacts(o))
    BY AtPlace DEF Places, Undoing
  <2>2. Holder(o) /\ tx[o].restored
    BY <2>1 DEF PlaceOK, Undoing, Holder
  <2> QED
    BY <2>1, <2>2 DEF HolderFacts
<1> QED
  BY <1>1, AlwaysInv, PTL

\* The generation a request works with stays the active one, the one the
\* pointer names, and its image stays in place: the request holds the mutex
\* every operation begins with.  (runtime_admission and RuntimeMutex)
THEOREM ServedIsInstalledAlways == Spec => []ServedIsInstalled
<1>1. Init => ServedIsInstalled
  BY DEF Init, ServedIsInstalled
<1>2. InstInv /\ ServedIsInstalled /\ [Next]_vars => ServedIsInstalled'
  <2> SUFFICES ASSUME InstInv, ServedIsInstalled, [Next]_vars, serving' # None PROVE ServedIsInstalled'
    BY DEF ServedIsInstalled
  <2>1. ASSUME NEW t \in Tools, Admit(t) PROVE ServedIsInstalled'
    <3>1. serving' = pointer /\ pointer = Active /\ Intact(pointer) /\ UNCHANGED <<registry, pointer, image>>
      BY <2>1 DEF Admit, installed
    <3>2. image[pointer] # "absent"
      BY <3>1, IdentitiesAssumption DEF Intact
    <3> QED
      BY <3>1, <3>2 DEF ServedIsInstalled, Active
  <2>2. ASSUME NEW g \in Generations, DamageImage(g) PROVE ServedIsInstalled'
    <3>1. /\ UNCHANGED <<registry, pointer, serving>> /\ image' = [image EXCEPT ![g] = "damaged"]
          /\ image \in Images
      BY <2>2 DEF DamageImage, InstInv, TypesOK
    <3>2. serving = pointer /\ serving = Active /\ image[serving] # "absent" /\ serving \in Generations
      BY <3>1 DEF ServedIsInstalled, InstInv, TypesOK, GenerationOrNone
    <3>3. image'[serving] # "absent"
      BY <3>1, <3>2 DEF Images
    <3> QED
      BY <3>1, <3>2, <3>3 DEF ServedIsInstalled, Active
  <2>3. CASE UNCHANGED <<registry, pointer, image, serving>>
    BY <2>3 DEF ServedIsInstalled, Active
  <2>4. ASSUME NEW o \in Operations, Begin(o) \/ Recover(o) PROVE UNCHANGED <<registry, pointer, image, serving>>
    BY <2>4 DEF Begin, Recover, installed
  <2>5. ASSUME run # None PROVE serving' = serving => FALSE
    BY <2>5 DEF InstInv
  <2>6. ASSUME NEW o \in Operations, ExecutionStep(o) \/ UndoStep(o) PROVE run # None /\ serving' = serving
    BY <2>6 DEF ExecutionStep, UndoStep, At, AcquireLock, Recheck, Refused, MarkPlan, Stage, BeginSnapshot, Snapshot,
       Prevalidate, RemoveTarget, PlaceTarget, WriteRegistry, WritePointer, Activated, Postvalidate, ReadyToClean,
       CleanRegistry, CleanImages, ReviewEntries, RecordEntries, Commit, RecordOutcome, Discard, Unlock, FinalScan,
       ProjectFiles, ProjectManifest, WriteEntry, Undo, Torn, WipeImages, CopyImages, RestoreRegistry, RestorePointer,
       RestoredTools, MarkFailed, Archive, RestoreTool, Raises
  <2>7. ASSUME NEW r \in Retirements, RetirementStep(r) PROVE run # None /\ serving' = serving
    BY <2>7 DEF RetirementStep, At, MarkRecycling, Invoke, RecordVerified, DropFromRegistry, CloseRetirement
  <2>8. CASE Fault \/ Killed \/ RetirementFails
    BY <2>5, <2>8 DEF Fault, Killed, RetirementFails
  <2>9. ASSUME NEW r \in Retirements, RecoverRetirement(r) \/ \E g \in Generations : StartRetirement(r, g)
        PROVE  FALSE
    BY <2>9 DEF RecoverRetirement, StartRetirement, Idle
  <2>10. CASE \/ \E o \in Operations, kind \in Kinds, g \in Generations : Plan(o, kind, g)
              \/ \E t \in Tools : EditHost(t)
              \/ LockExpires \/ EndRequest \/ UNCHANGED vars
    BY <2>3, <2>10 DEF Plan, EditHost, LockExpires, EndRequest, vars, installed
  <2> QED
    BY <2>1, <2>2, <2>3, <2>4, <2>5, <2>6, <2>7, <2>8, <2>9, <2>10 DEF Next
<1> QED
  BY <1>1, <1>2, AlwaysInv, PTL DEF Spec
=============================================================================
