------------------------- MODULE DomainTransaction -------------------------
(***************************************************************************)
(* The second transaction protocol of workspace_transactions.py, the one   *)
(* of the Artifact and coordination profiles, beside the workspace one.    *)
(* The coordination profile has the lock file and the journal directory of *)
(* the workspace profile: an operation of either kind finds what one of    *)
(* the other kind was doing when it failed or was killed.                  *)
(*                                                                         *)
(* The places of a process are those of WorkspaceTransaction.  The status  *)
(* RECOVERY_IN_PROGRESS is ROLLING_BACK here: both are pending, and        *)
(* nothing tells them apart.  The Artifact profile has the same protocol   *)
(* under a lock of its own; it is the case that every operation is legacy. *)
(***************************************************************************)
EXTENDS WorkspaceTransaction

CONSTANT LegacySets   \* the sets of operations that may be coordination's

ASSUME LegacyAssumption == LegacySets \subseteq SUBSET Ops

VARIABLES
  legacy,      \* the operations that follow the second protocol
  published    \* history: those of them that released their lock committed

domainVars == <<file, lock, journal, work, faults, legacy, published>>

DomainInit == Init /\ legacy \in LegacySets /\ published = {}

IsLegacy(p) == work[p].op \in legacy
-----------------------------------------------------------------------------
(* _execute_legacy_transaction. *)

\* Before the lock only the lock file and an earlier journal are looked at; the
\* inputs matter to the retry of what was rolled back.
LegacyCheck(p, o) ==
  /\ At(p, "IDLE") /\ lock = "FREE"
  /\ journal[o].state \in {"NONE", "ROLLED_BACK"}
  /\ journal[o].state = "ROLLED_BACK" => InputsAsPlanned(o)
  /\ work' = [work EXCEPT ![p] = [Idle EXCEPT !.at = "CHECKED", !.op = o]]
  /\ UNCHANGED <<file, lock, journal, faults>>

\* Everything from here on is one try.  A failure before the journal is put
\* together leaves no preimages to record.
LegacyCaptureAnything(p) ==   \* mutant: the inputs are not compared under the lock
  LET o == work[p].op IN
  /\ At(p, "LOCKED")
  /\ work' = [work EXCEPT ![p].at = "CAPTURED", ![p].orig = [f \in TargetSet(o) |-> file[f]]]
  /\ UNCHANGED <<file, lock, journal, faults>>
LegacyCapture(p) ==
  LET o == work[p].op IN
  /\ At(p, "LOCKED")
  /\ \/ /\ InputsAsPlanned(o)
        /\ work' = [work EXCEPT ![p].at = "CAPTURED",
                                ![p].orig = [f \in TargetSet(o) |-> file[f]]]
        /\ UNCHANGED <<file, lock, journal, faults>>
     \/ ~InputsAsPlanned(o) /\ Moves(p, "FAILED")
     \/ FailsTo(p, "FAILED")

LegacyBegin(p) == At(p, "CAPTURED") /\ Journals(p, "IN_PROGRESS", "REPLACING", "FAILED")

\* The caller's validation; the outputs are not compared with the plan.
LegacyValidate(p) ==
  /\ At(p, "REPLACING") /\ work[p].i = Len(Targets[work[p].op])
  /\ Moves(p, "VALIDATED") \/ FailsTo(p, "FAILED")

LegacyCommit(p) == At(p, "VALIDATED") /\ Journals(p, "COMMITTED", "COMMITTED", "FAILED")

\* Unlike a workspace transaction, one that cannot release its lock is rolled
\* back though its journal says COMMITTED.
LegacyUnlock(p) == At(p, "COMMITTED") /\ ReleasesLock(p, "FAILED")

\* What was replaced is restored, in reverse and whatever it now holds; only
\* afterwards the journal says so.
LegacyRestore(p) ==
  LET f == Targets[work[p].op][work[p].i] IN
  /\ At(p, "FAILED") /\ work[p].i > 0
  /\ \/ /\ file' = [file EXCEPT ![f] = work[p].orig[f]]
        /\ work' = [work EXCEPT ![p].i = @ - 1]
        /\ UNCHANGED <<lock, journal, faults>>
     \/ FailsTo(p, "GIVING_UP")

LegacyFinish(p) ==
  /\ At(p, "FAILED") /\ work[p].i = 0
  /\ \/ work[p].orig = <<>> /\ Moves(p, "RESTORED")
     \/ work[p].orig # <<>> /\ Journals(p, "ROLLED_BACK", "RESTORED", "IDLE")

LegacyRelease(p) == At(p, "RESTORED") /\ ReleasesLock(p, "IDLE")

LegacyExecutes(p) ==
  \/ CreateLock(p) \/ WriteLock(p) \/ LegacyCapture(p) \/ LegacyBegin(p) \/ Replace(p)
  \/ LegacyValidate(p) \/ LegacyCommit(p) \/ LegacyUnlock(p) \/ RemoveLock(p)
  \/ LegacyRestore(p) \/ LegacyFinish(p) \/ LegacyRelease(p) \/ GiveUp(p)
-----------------------------------------------------------------------------
(* _recover_legacy_transaction: there is no finalizing of a lock without a  *)
(* pending journal.                                                         *)

\* The call that applies a recovery repeats every check of its dry run.
LegacyReview(p, o) ==
  /\ At(p, "IDLE") /\ Interrupted(o) /\ lock = o
  /\ Restorable(o)
  /\ work' = [work EXCEPT ![p] = [at |-> "CONFIRMED", op |-> o, i |-> 0,
                                  seen |-> journal[o].state, orig |-> journal[o].orig]]
  /\ UNCHANGED <<file, lock, journal, faults>>

LegacyStartRecovery(p) ==
  /\ At(p, "CONFIRMED")
  /\ \/ /\ Write(p, "ROLLING_BACK")
        /\ work' = [work EXCEPT ![p].at = "RECOVERING", ![p].i = Len(Targets[work[p].op])]
        /\ UNCHANGED <<file, lock, faults>>
     \/ FailsTo(p, "IDLE")

LegacyRecoverFile(p) ==
  LET f == Targets[work[p].op][work[p].i] IN
  /\ At(p, "RECOVERING") /\ work[p].i > 0
  /\ \/ /\ file' = [file EXCEPT ![f] = work[p].orig[f]]
        /\ work' = [work EXCEPT ![p].i = @ - 1]
        /\ UNCHANGED <<lock, journal, faults>>
     \/ FailsTo(p, "STOPPING")

LegacyRecovers(p) ==
  \/ LegacyStartRecovery(p) \/ LegacyRecoverFile(p)
  \/ FinishRecovery(p) \/ UnlockRecovered(p) \/ StopRecovery(p)
-----------------------------------------------------------------------------
\* execute_transaction and recover_transaction choose the protocol: by the
\* profile of the operation, and by the shape of its journal once there is one.
Protocol == <<legacy, published>>
DomainChecks(p) ==
  /\ \E o \in Ops : IF o \in legacy THEN LegacyCheck(p, o) ELSE Check(p, o)
  /\ UNCHANGED Protocol

Publishes ==
  /\ published' = published \cup {o \in legacy : /\ journal[o].state = "COMMITTED"
                                                /\ lock = o /\ lock' = "FREE"}
  /\ UNCHANGED legacy
DomainExecutes(p) ==
  /\ \/ IsLegacy(p) /\ LegacyExecutes(p)
     \/ ~IsLegacy(p) /\ Executes(p)
  /\ Publishes

WorkspaceRecovers(p) ==
  \/ \E o \in Ops \ legacy : Review(p, o)
  \/ Finalize(p) \/ Confirm(p) \/ StartRecovery(p) \/ RecoverFile(p) \/ FinishRecovery(p)
  \/ UnlockRecovered(p) \/ StopRecovery(p)
DomainRecovers(p) ==
  /\ \/ \E o \in legacy : LegacyReview(p, o)
     \/ IsLegacy(p) /\ LegacyRecovers(p)
     \/ ~IsLegacy(p) /\ WorkspaceRecovers(p)
  /\ UNCHANGED Protocol

DomainKilled(p) == Killed(p) /\ UNCHANGED Protocol
DomainOwnerEdits(f) == OwnerEdits(f) /\ UNCHANGED Protocol

DomainNext ==
  \/ \E p \in Procs : DomainChecks(p) \/ DomainExecutes(p) \/ DomainRecovers(p) \/ DomainKilled(p)
  \/ \E f \in Files : DomainOwnerEdits(f)

DomainSpec == DomainInit /\ [][DomainNext]_domainVars

\* A process that is not killed goes on, and interrupted work gets recovered
\* where that is possible.
FairDomainSpec ==
  DomainSpec /\ \A p \in Procs : WF_domainVars(DomainExecutes(p)) /\ WF_domainVars(DomainRecovers(p))
-----------------------------------------------------------------------------
\* Every lock is released at last, unless what was interrupted is something its
\* recovery refuses (_recover_transaction, workspace_transactions.py:533 and
\* :1528).  For a coordination lock that is also one without a pending journal.
Refused(o) == IF o \in legacy THEN ~Restorable(o) ELSE ~Reviewable(o)
DomainLocksAreReleased ==
  \A o \in Ops : (lock = o) ~> (lock # o \/ (Interrupted(o) /\ Refused(o)))

\* A lock keeps every governed reader away (_require_no_incomplete_workspace_-
\* transaction), so that an operation of the second protocol takes effect when
\* it has released the lock; a workspace one does with its journal.
Hidden(o) == \/ journal[o].state \in Pending
             \/ o \in legacy \ published /\ journal[o].state = "COMMITTED"
HiddenFor(f) == {o \in Ops : Hidden(o) /\ f \in TargetSet(o) /\ Known(f, o, journal[o].orig)}
Visible == [f \in Files |->
  IF HiddenFor(f) = {} THEN file[f] ELSE journal[CHOOSE o \in HiddenFor(f) : TRUE].orig[f]]
InEffect == {o \in Ops : journal[o].state = "COMMITTED" /\ ~Hidden(o)}

VisibleAtomic == INSTANCE AtomicFiles WITH disk <- Visible, committed <- InEffect

\* With both protocols at work under one lock every step still is an atomic
\* commit, an edit of the owner or invisible: what one leaves behind never lets
\* the other start on, publish or undo half of it.
DomainsImplementAtomic == [][VisibleAtomic!AtomicNext]_<<Visible, InEffect>>
=============================================================================
