------------------------ MODULE WorkspaceTransaction ------------------------
(***************************************************************************)
(* Workspace transactions (workspace_transactions.py, the workspace        *)
(* profile): several processes replace sets of control files under one     *)
(* lock file and a journal per operation.  A process can fail at every     *)
(* file-system call and be killed between any two; what it leaves is taken *)
(* up by an explicit recovery.                                             *)
(*                                                                         *)
(* Left out: the staged copies (fresh names that only their own process    *)
(* and a recovery touch) and the journal's cursor, history and receipts,   *)
(* which no decision reads.                                                *)
(***************************************************************************)
EXTENDS Naturals, Sequences, FiniteSets

CONSTANTS
  Files, Contents, Absent, Edited,
  Ops,         \* operation ids, each with its one deterministic plan
  Targets,     \* Targets[o]: the files o replaces, in the order of their roles
  Pre,         \* Pre[o]: the planned preimages of o's inputs, targets included
  New,         \* New[o]: the planned contents of o's targets
  InitialFile,
  Procs, NoOp,
  MaxFaults    \* bound: failing calls and kills in one behaviour

TargetSet(o) == {Targets[o][i] : i \in DOMAIN Targets[o]}

ASSUME PlanAssumption ==
  /\ Absent \in Contents /\ Edited \in Contents
  /\ InitialFile \in [Files -> Contents]
  /\ {NoOp, "FREE", "TORN"} \cap Ops = {}
  /\ \A o \in Ops : /\ \A i, j \in DOMAIN Targets[o] : i # j => Targets[o][i] # Targets[o][j]
                    /\ Targets[o] \in Seq(Files)
                    /\ New[o] \in [TargetSet(o) -> Contents]
                    /\ TargetSet(o) \subseteq DOMAIN Pre[o]
                    /\ DOMAIN Pre[o] \subseteq Files
ASSUME FaultsAssumption == MaxFaults \in Nat

\* What plans leave in target f of o once o took effect: what o wrote, and what is
\* written over that by a plan made against it.
Later(o, f) ==
  LET Closed(X) ==
        /\ New[o][f] \in X
        /\ \A q \in Ops : f \in TargetSet(q) /\ Pre[q][f] \in X => New[q][f] \in X
  IN  {c \in Contents : \A X \in SUBSET Contents : Closed(X) => c \in X}

\* Neither an operation nor those planned after it bring back all that it was
\* planned against: a plan has targets, and control files carry revisions and times.
ASSUME NoReturnAssumption ==
  \A o \in Ops : \E f \in TargetSet(o) : Pre[o][f] \notin Later(o, f)

VARIABLES
  file,      \* [Files -> Contents]
  lock,      \* "FREE", "TORN" (created, not yet written), or the operation it names
  journal,   \* journal[o]: its state, and the preimages it preserves
  work,      \* work[p]: what process p is doing
  faults

vars == <<file, lock, journal, work, faults>>

Pending == {"PREPARED", "IN_PROGRESS", "ROLLING_BACK", "RECOVERY_REQUIRED"}
States == Pending \cup {"NONE", "COMMITTED", "ROLLED_BACK"}
NoJournal == [state |-> "NONE", orig |-> <<>>]
Idle == [at |-> "IDLE", op |-> NoOp, i |-> 0, seen |-> "NONE", orig |-> <<>>]
Phases == {"IDLE", "CHECKED", "LOCKING", "LOCKED", "CLEAR", "CAPTURED", "PREPARED",
           "REPLACING", "VALIDATED", "COMMITTED", "FAILED", "RESTORING", "RESTORED",
           "GIVING_UP", "FINALIZING", "REVIEWED", "CONFIRMED", "RECOVERING",
           "RECOVERED", "STOPPING", "UNLOCKING"}
Preimages == {<<>>} \cup UNION {[TargetSet(o) -> Contents] : o \in Ops}

TypeOK ==
  /\ file \in [Files -> Contents]
  /\ lock \in {"FREE", "TORN"} \cup Ops
  /\ journal \in [Ops -> [state : States, orig : Preimages]]
  /\ work \in [Procs -> [at : Phases, op : Ops \cup {NoOp}, i : Nat, seen : States,
                         orig : Preimages]]
  /\ faults \in 0..MaxFaults

Init ==
  /\ file = InitialFile
  /\ lock = "FREE"
  /\ journal = [o \in Ops |-> NoJournal]
  /\ work = [p \in Procs |-> Idle]
  /\ faults = 0
-----------------------------------------------------------------------------
InputsAsPlanned(o) == \A f \in DOMAIN Pre[o] : file[f] = Pre[o][f]
OutputsAsPlanned(o) == \A f \in TargetSet(o) : file[f] = New[o][f]

At(p, place) == work[p].at = place
Go(p, place) ==
  work' = [work EXCEPT ![p] = IF place = "IDLE" THEN Idle ELSE [@ EXCEPT !.at = place]]
Moves(p, place) == Go(p, place) /\ UNCHANGED <<file, lock, journal, faults>>

\* A call of process p fails, and p goes on at place; at IDLE it has ended.
Fails == faults < MaxFaults /\ faults' = faults + 1
FailsTo(p, place) == Fails /\ Go(p, place) /\ UNCHANGED <<file, lock, journal>>

Write(p, state) ==
  journal' = [journal EXCEPT ![work[p].op] = [state |-> state, orig |-> work[p].orig]]

\* Writing the journal and going on, or failing to.
Journals(p, state, place, failing) ==
  \/ Write(p, state) /\ Go(p, place) /\ UNCHANGED <<file, lock, faults>>
  \/ FailsTo(p, failing)

\* Removing the lock: it is read, and if it names p's operation the file of that
\* name is removed.  A removal that fails acts as a check that fails.
OwnsLock(p) == lock = work[p].op
ReleasesLock(p, failing) ==
  \/ OwnsLock(p) /\ Moves(p, "UNLOCKING")
  \/ ~OwnsLock(p) /\ Moves(p, failing)
  \/ FailsTo(p, failing)

RemoveLock(p) ==
  At(p, "UNLOCKING") /\ lock' = "FREE" /\ Go(p, "IDLE") /\ UNCHANGED <<file, journal, faults>>
-----------------------------------------------------------------------------
(* execute_transaction. *)

\* Checked before locking.  A COMMITTED journal answers a retry without
\* writing; any other but a rolled back one refuses the operation.
Check(p, o) ==
  /\ At(p, "IDLE")
  /\ lock = "FREE"
  /\ journal[o].state \in {"NONE", "ROLLED_BACK"}
  /\ InputsAsPlanned(o)
  /\ work' = [work EXCEPT ![p] = [Idle EXCEPT !.at = "CHECKED", !.op = o]]
  /\ UNCHANGED <<file, lock, journal, faults>>

\* The lock file is created exclusively, and then written.
CreateLockOver(p) ==   \* mutant: the lock is not created exclusively
  At(p, "CHECKED") /\ lock' = "TORN" /\ Go(p, "LOCKING") /\ UNCHANGED <<file, journal, faults>>
CreateLock(p) ==
  /\ At(p, "CHECKED")
  /\ \/ lock = "FREE" /\ lock' = "TORN" /\ Go(p, "LOCKING")
     \/ lock # "FREE" /\ UNCHANGED lock /\ Go(p, "IDLE")
  /\ UNCHANGED <<file, journal, faults>>

WriteLock(p) ==
  /\ At(p, "LOCKING")
  /\ \/ lock' = work[p].op /\ Go(p, "LOCKED") /\ UNCHANGED <<file, journal, faults>>
     \/ FailsTo(p, "IDLE")

\* The inputs again, now under the lock.  A stale plan gives the lock back.
Recheck(p) ==
  LET o == work[p].op IN
  /\ At(p, "LOCKED")
  /\ \/ InputsAsPlanned(o) /\ Moves(p, "CLEAR")
     \/ ~InputsAsPlanned(o) /\ ReleasesLock(p, "IDLE")
     \/ OwnsLock(p) /\ FailsTo(p, "UNLOCKING")

Capture(p) ==
  /\ At(p, "CLEAR")
  /\ \/ /\ work' = [work EXCEPT ![p].at = "CAPTURED",
                      ![p].orig = [f \in TargetSet(work[p].op) |-> file[f]]]
        /\ UNCHANGED <<file, lock, journal, faults>>
     \/ FailsTo(p, "IDLE")

Prepare(p) == At(p, "CAPTURED") /\ Journals(p, "PREPARED", "PREPARED", "FAILED")
Begin(p) == At(p, "PREPARED") /\ Journals(p, "IN_PROGRESS", "REPLACING", "FAILED")

\* Staging, or the journal's record of it, can fail before the first file is
\* replaced; recording the cursor can fail after each.
Replace(p) ==
  LET o == work[p].op
      i == work[p].i + 1
  IN
  /\ At(p, "REPLACING") /\ i <= Len(Targets[o])
  /\ \/ /\ file' = [file EXCEPT ![Targets[o][i]] = New[o][Targets[o][i]]]
        /\ \/ work' = [work EXCEPT ![p].i = i] /\ UNCHANGED faults
           \/ work' = [work EXCEPT ![p].i = i, ![p].at = "FAILED"] /\ Fails
        /\ UNCHANGED <<lock, journal>>
     \/ FailsTo(p, "FAILED")

\* Output hashes and the caller's own validation.
Validate(p) ==
  LET o == work[p].op IN
  /\ At(p, "REPLACING") /\ work[p].i = Len(Targets[o])
  /\ \/ OutputsAsPlanned(o) /\ Moves(p, "VALIDATED")
     \/ ~OutputsAsPlanned(o) /\ Moves(p, "FAILED")
     \/ FailsTo(p, "FAILED")

\* From here on a failure is not rolled back: the outputs are left to recovery.
Commit(p) ==
  /\ At(p, "VALIDATED")
  /\ \/ Write(p, "COMMITTED") /\ Go(p, "COMMITTED") /\ UNCHANGED <<file, lock, faults>>
     \/ FailsTo(p, "IDLE")

Unlock(p) == At(p, "COMMITTED") /\ ReleasesLock(p, "IDLE")
-----------------------------------------------------------------------------
(* The rollback of a caught failure. *)

RollBack(p) ==
  /\ At(p, "FAILED")
  /\ \/ /\ Write(p, "ROLLING_BACK")
        /\ work' = [work EXCEPT ![p].at = "RESTORING", ![p].i = Len(Targets[work[p].op])]
        /\ UNCHANGED <<file, lock, faults>>
     \/ FailsTo(p, "GIVING_UP")

Known(f, o, orig) == file[f] \in {orig[f], New[o][f]}

Restore(p) ==
  LET o == work[p].op
      f == Targets[o][work[p].i]
      orig == work[p].orig
  IN
  /\ At(p, "RESTORING") /\ work[p].i > 0
  /\ \/ /\ Known(f, o, orig)
        /\ file' = [file EXCEPT ![f] = orig[f]]
        /\ \/ work' = [work EXCEPT ![p].i = @ - 1] /\ UNCHANGED faults
           \/ Go(p, "GIVING_UP") /\ Fails
        /\ UNCHANGED <<lock, journal>>
     \/ ~Known(f, o, orig) /\ Moves(p, "GIVING_UP")
     \/ FailsTo(p, "GIVING_UP")

FinishRollBack(p) ==
  /\ At(p, "RESTORING") /\ work[p].i = 0
  /\ Journals(p, "ROLLED_BACK", "RESTORED", "GIVING_UP")

UnlockRolledBack(p) == At(p, "RESTORED") /\ ReleasesLock(p, "GIVING_UP")

\* The lock is kept; failing to write even this is passed over.
GiveUp(p) ==
  /\ At(p, "GIVING_UP")
  /\ \/ Write(p, "RECOVERY_REQUIRED") /\ Go(p, "IDLE") /\ UNCHANGED <<file, lock, faults>>
     \/ FailsTo(p, "IDLE")
-----------------------------------------------------------------------------
(* recover_transaction, applied to the journal and lock that were reviewed. *)

\* Recovery is for an interrupted operation: nobody works on it any more, in its
\* execution or in a recovery of it. Its reviewer sees to that.
Looking == {"CHECKED", "FINALIZING", "REVIEWED"}
Interrupted(o) == \A p \in Procs : work[p].op = o => work[p].at \in Looking

\* What a review accepts: an untouched lock, a commit whose outputs stand, or a
\* pending journal every target of which is in a state it knows.
LockOnly(o) == journal[o].state = "NONE" /\ InputsAsPlanned(o)
Committed(o) == journal[o].state = "COMMITTED" /\ OutputsAsPlanned(o)
Restorable(o) ==
  /\ journal[o].state \in Pending
  /\ \A f \in TargetSet(o) : Known(f, o, journal[o].orig)

Reviewable(o) == LockOnly(o) \/ Committed(o) \/ Restorable(o)

Review(p, o) ==
  /\ At(p, "IDLE") /\ Interrupted(o) /\ lock = o
  /\ \E place \in {"FINALIZING", "REVIEWED"} :
       /\ IF place = "REVIEWED" THEN Restorable(o) ELSE LockOnly(o) \/ Committed(o)
       /\ work' = [work EXCEPT ![p] = [at |-> place, op |-> o, i |-> 0,
                                       seen |-> journal[o].state, orig |-> journal[o].orig]]
  /\ UNCHANGED <<file, lock, journal, faults>>

\* Nothing is applied but to the lock and the journal that were reviewed; two
\* that say the same are taken for one.
Unchanged(p) ==
  LET o == work[p].op IN
  OwnsLock(p) /\ journal[o].state = work[p].seen /\ journal[o].orig = work[p].orig

FinalizeUntouched(p) ==   \* mutant: a commit is never finalized
  LET unchanged == OwnsLock(p) /\ journal[work[p].op].state = "NONE" IN
  /\ At(p, "FINALIZING")
  /\ \/ unchanged /\ Interrupted(work[p].op) /\ Moves(p, "UNLOCKING")
     \/ ~unchanged /\ Moves(p, "IDLE")
Finalize(p) ==
  /\ At(p, "FINALIZING")
  /\ \/ Unchanged(p) /\ Interrupted(work[p].op) /\ Moves(p, "UNLOCKING")
     \/ ~Unchanged(p) /\ Moves(p, "IDLE")
     \/ FailsTo(p, "IDLE")

Confirm(p) ==
  /\ At(p, "REVIEWED")
  /\ \/ Unchanged(p) /\ Interrupted(work[p].op) /\ Moves(p, "CONFIRMED")
     \/ ~Unchanged(p) /\ Moves(p, "IDLE")

StartRecovery(p) ==
  /\ At(p, "CONFIRMED")
  /\ \/ /\ Write(p, "ROLLING_BACK")
        /\ work' = [work EXCEPT ![p].at = "RECOVERING", ![p].i = Len(Targets[work[p].op])]
        /\ UNCHANGED <<file, lock, faults>>
     \/ FailsTo(p, "STOPPING")

\* A created target is removed only if it still is what was planned; a replaced
\* one gets its preimage back whatever it now holds.
Recovered(f, o, orig) ==
  IF orig[f] = Absent /\ file[f] # New[o][f] THEN file[f] ELSE orig[f]

RecoverFile(p) ==
  LET o == work[p].op
      f == Targets[o][work[p].i]
  IN
  /\ At(p, "RECOVERING") /\ work[p].i > 0
  /\ \/ /\ file' = [file EXCEPT ![f] = Recovered(f, o, work[p].orig)]
        /\ \/ work' = [work EXCEPT ![p].i = @ - 1] /\ UNCHANGED faults
           \/ Go(p, "STOPPING") /\ Fails
        /\ UNCHANGED <<lock, journal>>
     \/ FailsTo(p, "STOPPING")

FinishRecovery(p) ==
  /\ At(p, "RECOVERING") /\ work[p].i = 0
  /\ Journals(p, "ROLLED_BACK", "RECOVERED", "STOPPING")

UnlockRecovered(p) == At(p, "RECOVERED") /\ ReleasesLock(p, "STOPPING")

StopRecovery(p) ==
  /\ At(p, "STOPPING")
  /\ \/ Write(p, "RECOVERY_REQUIRED") /\ Go(p, "IDLE") /\ UNCHANGED <<file, lock, faults>>
     \/ FailsTo(p, "IDLE")
-----------------------------------------------------------------------------
(* The environment. *)

\* A process is killed between two steps.
Killed(p) == ~At(p, "IDLE") /\ FailsTo(p, "IDLE")

\* The owner edits a file by hand, while no transaction process runs.
OwnerEdits(f) ==
  /\ \A p \in Procs : At(p, "IDLE")
  /\ file' = [file EXCEPT ![f] = Edited]
  /\ UNCHANGED <<lock, journal, work, faults>>

Executes(p) ==
  \/ CreateLock(p) \/ WriteLock(p) \/ Recheck(p) \/ Capture(p) \/ Prepare(p) \/ Begin(p)
  \/ Replace(p) \/ Validate(p) \/ Commit(p) \/ Unlock(p)
  \/ RollBack(p) \/ Restore(p) \/ FinishRollBack(p) \/ UnlockRolledBack(p) \/ GiveUp(p)
  \/ RemoveLock(p)
Recovers(p) ==
  \/ \E o \in Ops : Review(p, o)
  \/ Finalize(p) \/ Confirm(p) \/ StartRecovery(p) \/ RecoverFile(p) \/ FinishRecovery(p)
  \/ UnlockRecovered(p) \/ StopRecovery(p)

Next ==
  \/ \E p \in Procs : \/ \E o \in Ops : Check(p, o)
                     \/ Executes(p) \/ Recovers(p) \/ Killed(p)
  \/ \E f \in Files : OwnerEdits(f)

Spec == Init /\ [][Next]_vars
-----------------------------------------------------------------------------
\* A journal that is not settled always has its lock, so that nothing governed
\* runs beside it or reads its half-replaced files.
PendingHoldsLock == \A o \in Ops : journal[o].state \in Pending => lock = o

\* "Workspace and coordination authority writes share [the lock] ... and one
\* writer" (LONG_PROJECT_AGENTS.template.en.md): from the lock to its removal, a
\* process works alone and the lock names its operation.
Writes(p) == ~ \E place \in {"IDLE", "CHECKED", "LOCKING", "FINALIZING", "REVIEWED", "CONFIRMED"} :
                 At(p, place)
OneWriter ==
  \A p \in Procs : Writes(p) => lock = work[p].op /\ \A q \in Procs : Writes(q) => q = p

\* The preimages in a journal are the contents the plan was reviewed against.
PreimagesExact ==
  \A o \in Ops : journal[o].state # "NONE" =>
    \A f \in TargetSet(o) : journal[o].orig[f] = Pre[o][f]
=============================================================================
