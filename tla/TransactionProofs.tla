-------------------------- MODULE TransactionProofs --------------------------
(***************************************************************************)
(* The safety of workspace transactions for any number of operations,      *)
(* files, processes and faults.  Interrupted is part of Review: nobody     *)
(* recovers an operation that somebody still works on.                     *)
(*                                                                         *)
(* The inductive invariant says that at most one process is at work, and   *)
(* what its record guarantees of the lock, its journal and the files at    *)
(* the place it has come to (Good).  A step then needs two things: that    *)
(* the store stays in order, and that the record moved is good again       *)
(* (OneMoves); the other processes, being inactive, claim nothing.         *)
(*                                                                         *)
(* The second half is about both protocols under one lock                  *)
(* (DomainTransaction), and shows that they implement the atomic files.    *)
(***************************************************************************)
EXTENDS DomainTransaction, TLAPS

Works == [at : Phases, op : Ops \cup {NoOp}, i : Nat, seen : States, orig : Preimages]
Journal == [state : States, orig : Preimages]

Active(w) == w.at \notin {"IDLE"} \cup Looking
Uncaptured == {"IDLE", "CHECKED", "LOCKING", "LOCKED", "CLEAR", "FINALIZING", "UNLOCKING"}
Backwards == {"RESTORING", "RECOVERING"}
Settling == {"LOCKED", "UNLOCKING", "COMMITTED", "RESTORED", "RECOVERED"}

Exact(o, orig) == /\ orig \in [TargetSet(o) -> Contents]
                  /\ \A f \in TargetSet(o) : orig[f] = Pre[o][f]

\* One process's part, for its record w while the files, the lock and the
\* journals are f, l and j.
Good(w, f, l, j) ==
  /\ w \in Works
  /\ w.at # "IDLE" => w.op \in Ops
  /\ w.at = "LOCKING" => l = "TORN"
  /\ Active(w) /\ w.at # "LOCKING" => l = w.op
  /\ w.at \in Settling => j[w.op].state \notin Pending
  /\ w.at = "FINALIZING" => w.seen \notin Pending
  /\ w.at = "CLEAR" => \A x \in DOMAIN Pre[w.op] : f[x] = Pre[w.op][x]
  /\ w.at \notin Uncaptured => Exact(w.op, w.orig)
  /\ w.at \in Backwards => w.i <= Len(Targets[w.op])

JournalsOK == /\ journal \in [Ops -> Journal]
              /\ \A o \in Ops : journal[o].state # "NONE" => Exact(o, journal[o].orig)
StoreOK == /\ file \in [Files -> Contents]
           /\ lock \in {"FREE", "TORN"} \cup Ops
           /\ faults \in 0..MaxFaults
           /\ JournalsOK /\ PendingHoldsLock
WorkOK == \A p \in Procs : Good(work[p], file, lock, journal)
Alone(p) == \A q \in Procs : q # p => ~Active(work[q])
Exclusive == \A p \in Procs : Active(work[p]) => Alone(p)

IInv == work \in [Procs -> Works] /\ StoreOK /\ WorkOK /\ Exclusive

\* What may be preserved: nothing, or one content for each target.
LEMMA Shapes == /\ <<>> \in Preimages
                /\ \A o \in Ops : [TargetSet(o) -> Contents] \subseteq Preimages
  BY DEF Preimages

\* The targets of a plan are files, in a finite order.
LEMMA TargetsAreFiles ==
  \A o \in Ops : /\ \A i \in 1..Len(Targets[o]) : Targets[o][i] \in TargetSet(o)
                 /\ TargetSet(o) \subseteq Files
                 /\ Len(Targets[o]) \in Nat
<1> SUFFICES ASSUME NEW o \in Ops
             PROVE /\ \A i \in 1..Len(Targets[o]) : Targets[o][i] \in TargetSet(o)
                   /\ TargetSet(o) \subseteq Files
                   /\ Len(Targets[o]) \in Nat
  OBVIOUS
<1>1. Targets[o] \in Seq(Files)
  BY PlanAssumption
<1>2. DOMAIN Targets[o] = 1..Len(Targets[o]) /\ Len(Targets[o]) \in Nat
  BY <1>1
<1> QED
  BY <1>1, <1>2 DEF TargetSet

\* Positions that a process counts through are positions of its plan.
LEMMA InRange ==
  \A o \in Ops : \A i \in Nat : i > 0 /\ i <= Len(Targets[o]) => i \in DOMAIN Targets[o]
<1> SUFFICES ASSUME NEW o \in Ops PROVE DOMAIN Targets[o] = 1..Len(Targets[o]) /\ Len(Targets[o]) \in Nat
  OBVIOUS
<1>1. Targets[o] \in Seq(Files)
  BY PlanAssumption
<1> QED
  BY <1>1

\* An idle process claims nothing.
LEMMA IdleIsGood == \A f, l, j : Good(Idle, f, l, j) /\ Idle \in Works /\ ~Active(Idle)
  BY Shapes DEF Good, Works, Idle, Phases, States, Active, Looking, Settling, Backwards, Uncaptured

\* The invariant holds at the start.
LEMMA InitOK == Init => IInv
<1> SUFFICES ASSUME Init PROVE IInv
  OBVIOUS
<1>1. work \in [Procs -> Works] /\ WorkOK /\ Exclusive
  BY IdleIsGood DEF Init, WorkOK, Exclusive, Alone
<1>2. NoJournal \in Journal
  BY Shapes DEF Journal, NoJournal, States
<1>3. \A o \in Ops : journal[o] = NoJournal
  BY DEF Init
<1>4. JournalsOK /\ PendingHoldsLock
  BY <1>2, <1>3 DEF Init, JournalsOK, PendingHoldsLock, NoJournal, Pending
<1>5. StoreOK
  BY <1>4, PlanAssumption, FaultsAssumption DEF Init, StoreOK
<1> QED
  BY <1>1, <1>5 DEF IInv

\* A process that is alone at work may change whatever its own part allows.
LEMMA OneMoves ==
  ASSUME IInv, NEW p \in Procs, NEW w, Alone(p), StoreOK',
         work' = [work EXCEPT ![p] = w], Good(w, file', lock', journal')
  PROVE  IInv'
<1>1. w \in Works
  BY DEF Good
<1>2. work' \in [Procs -> Works] /\ work'[p] = w /\ \A q \in Procs : q # p => work'[q] = work[q]
  BY <1>1 DEF IInv
<1>3. ASSUME NEW q \in Procs, q # p PROVE ~Active(work[q]) /\ Good(work[q], file', lock', journal')
  <2>1. ~Active(work[q]) /\ Good(work[q], file, lock, journal)
    BY <1>3 DEF IInv, Alone, WorkOK
  <2> QED
    BY <2>1 DEF Good, Active, Looking, Settling, Backwards, Uncaptured
<1>4. WorkOK'
  BY <1>2, <1>3 DEF WorkOK
<1>5. Exclusive'
  BY <1>2, <1>3 DEF Exclusive, Alone
<1> QED
  BY <1>2, <1>4, <1>5 DEF IInv

\* A process that is not at work afterwards, and has touched nothing.
LEMMA QuietOK ==
  ASSUME IInv, NEW p \in Procs, NEW w, UNCHANGED <<file, lock, journal>>,
         faults' \in 0..MaxFaults, work' = [work EXCEPT ![p] = w],
         Good(w, file, lock, journal), ~Active(w)
  PROVE  IInv'
<1>1. /\ work' \in [Procs -> Works] /\ work'[p] = w
      /\ \A q \in Procs : q # p => work'[q] = work[q]
  BY DEF IInv, Good
<1>2. StoreOK'
  BY DEF IInv, StoreOK, JournalsOK, PendingHoldsLock
<1>3. WorkOK' /\ Exclusive'
  BY <1>1 DEF IInv, WorkOK, Exclusive, Alone
<1> QED
  BY <1>1, <1>2, <1>3 DEF IInv

\* A process goes on, or fails and goes on elsewhere, without touching anything.
LEMMA Relocates ==
  ASSUME IInv, NEW p \in Procs, NEW place \in Phases, Active(work[p]),
         Go(p, place), UNCHANGED <<file, lock, journal>>, faults' \in 0..MaxFaults,
         place = "IDLE" \/ Good([work[p] EXCEPT !.at = place], file, lock, journal)
  PROVE  IInv'
<1>1. Alone(p)
  BY DEF IInv, Exclusive
<1>2. StoreOK'
  BY DEF IInv, StoreOK, JournalsOK, PendingHoldsLock
<1>3. CASE place = "IDLE"
  BY <1>1, <1>2, <1>3, OneMoves, IdleIsGood DEF Go
<1>4. CASE place # "IDLE"
  BY <1>1, <1>2, <1>4, OneMoves DEF Go
<1> QED
  BY <1>3, <1>4

\* Writing a journal under its lock, with the preimages captured under it.
LEMMA Journaled ==
  ASSUME IInv, NEW p \in Procs, NEW state \in States, Active(work[p]),
         work[p].at \notin Uncaptured, Write(p, state), lock' = lock
  PROVE  /\ JournalsOK' /\ PendingHoldsLock'
         /\ journal'[work[p].op].state = state
<1>1. Good(work[p], file, lock, journal)
  BY DEF IInv, WorkOK
<1>2. /\ work[p].op \in Ops /\ lock = work[p].op /\ work[p].orig \in Preimages
      /\ Exact(work[p].op, work[p].orig)
  BY <1>1 DEF Good, Works, Uncaptured, Active, Looking
<1>3. journal \in [Ops -> Journal] 
  BY DEF IInv, StoreOK, JournalsOK
<1>4. [state |-> state, orig |-> work[p].orig] \in Journal
  BY <1>2 DEF Journal
<1>5. /\ journal' \in [Ops -> Journal]
      /\ journal'[work[p].op] = [state |-> state, orig |-> work[p].orig]
      /\ \A o \in Ops : o # work[p].op => journal'[o] = journal[o]
  BY <1>2, <1>3, <1>4 DEF Write
<1>6. JournalsOK'
  BY <1>2, <1>5 DEF JournalsOK, IInv, StoreOK
<1>7. PendingHoldsLock'
  BY <1>2, <1>5 DEF PendingHoldsLock, IInv, StoreOK
<1> QED
  BY <1>5, <1>6, <1>7

\* What process p's part says while it works.
LEMMA AtWork ==
  ASSUME IInv, NEW p \in Procs
  PROVE  /\ Good(work[p], file, lock, journal) /\ work[p] \in Works
         /\ Active(work[p]) => Alone(p) /\ work[p].op \in Ops
         /\ \A place \in Phases : [work[p] EXCEPT !.at = place] \in Works
  BY DEF IInv, WorkOK, Exclusive, Good, Active, Looking, Works

\* The same process at another place.
LEMMA Elsewhere ==
  ASSUME NEW w \in Works, NEW place \in Phases
  PROVE  LET v == [w EXCEPT !.at = place] IN
         /\ v \in Works /\ v.at = place /\ v.op = w.op
         /\ v.seen = w.seen /\ v.orig = w.orig
  BY DEF Works

\* Failing at a place that has written nothing under the lock, or that is not
\* about to remove it.
LEMMA FailureOK ==
  ASSUME IInv, NEW p \in Procs, NEW place \in Phases, Active(work[p]), FailsTo(p, place),
         \/ place = "IDLE"
         \/ place \in {"FAILED", "GIVING_UP", "STOPPING"} /\ work[p].at \notin Uncaptured
  PROVE  IInv'
<1>1. faults' \in 0..MaxFaults
  BY FaultsAssumption DEF FailsTo, Fails, IInv, StoreOK
<1>2. place = "IDLE" \/ Good([work[p] EXCEPT !.at = place], file, lock, journal)
  BY AtWork DEF Good, Active, Looking, Settling, Backwards, Uncaptured, Works
<1> QED
  BY <1>1, <1>2, Relocates DEF FailsTo

\* Nothing fails and nothing changes but the place.
LEMMA MoveOK ==
  ASSUME IInv, NEW p \in Procs, NEW place \in Phases, Active(work[p]), Moves(p, place),
         place = "IDLE" \/ Good([work[p] EXCEPT !.at = place], file, lock, journal)
  PROVE  IInv'
  BY Relocates DEF Moves, IInv, StoreOK

\* Checking the lock before removing it: it names the process's operation.
LEMMA ReleaseOK ==
  ASSUME IInv, NEW p \in Procs, NEW failing \in {"IDLE", "GIVING_UP", "STOPPING"},
         work[p].at \in Settling \ {"UNLOCKING"}, ReleasesLock(p, failing),
         failing = "IDLE" \/ work[p].at \notin Uncaptured
  PROVE  IInv'
<1>1. Active(work[p]) /\ failing \in Phases /\ "UNLOCKING" \in Phases
  BY DEF Active, Looking, Settling, Phases
<1>2. CASE OwnsLock(p) /\ Moves(p, "UNLOCKING")
  <2>1. Good([work[p] EXCEPT !.at = "UNLOCKING"], file, lock, journal)
    BY <1>1, AtWork DEF Good, Active, Looking, Settling, Backwards, Uncaptured, Works
  <2> QED
    BY <1>1, <1>2, <2>1, MoveOK
<1>3. CASE ~OwnsLock(p) /\ Moves(p, failing)
  <2>1. OwnsLock(p)
    BY AtWork, <1>1 DEF Good, OwnsLock, Settling
  <2> QED
    BY <1>3, <2>1
<1>4. CASE FailsTo(p, failing)
  BY <1>1, <1>4, FailureOK
<1> QED
  BY <1>2, <1>3, <1>4 DEF ReleasesLock

\* A journal of process p is written and p goes on, or fails.
LEMMA JournalOK ==
  ASSUME IInv, NEW p \in Procs, NEW state \in States, NEW place \in Phases,
         NEW failing \in {"IDLE", "FAILED", "GIVING_UP", "STOPPING"},
         Active(work[p]), work[p].at \notin Uncaptured,
         place = "IDLE" \/ place \notin Uncaptured,
         place \in Settling => state \notin Pending, place \notin Backwards,
         Journals(p, state, place, failing)
  PROVE  IInv'
<1>1. failing \in Phases
  BY DEF Phases
<1>2. CASE FailsTo(p, failing)
  BY <1>1, <1>2, FailureOK
<1>3. CASE Write(p, state) /\ Go(p, place) /\ UNCHANGED <<file, lock, faults>>
  <2>1. StoreOK'
    BY <1>3, Journaled DEF StoreOK, IInv
  <2>2. Alone(p)
    BY AtWork
  <2>3. CASE place = "IDLE"
    BY <1>3, <2>1, <2>2, <2>3, IdleIsGood, OneMoves DEF Go
  <2>4. CASE place # "IDLE"
    <3>1. Good([work[p] EXCEPT !.at = place], file', lock', journal')
      BY <1>3, <2>4, AtWork, Journaled DEF Good, Active, Looking, Uncaptured, Backwards, Works
    <3> QED
      BY <1>3, <2>1, <2>2, <2>4, <3>1, OneMoves DEF Go
  <2> QED
    BY <2>3, <2>4
<1> QED
  BY <1>2, <1>3 DEF Journals
-----------------------------------------------------------------------------
(* execute_transaction. *)

\* The checks before locking claim nothing of the files later.
LEMMA CheckOK == ASSUME IInv, NEW p \in Procs, NEW o \in Ops, Check(p, o) PROVE IInv'
<1> DEFINE w == [Idle EXCEPT !.at = "CHECKED", !.op = o]
<1>1. Good(w, file, lock, journal) /\ ~Active(w)
  BY Shapes DEF Good, Works, Idle, Phases, States, Active, Looking, Settling, Backwards, Uncaptured
<1>2. work' = [work EXCEPT ![p] = w] /\ UNCHANGED <<file, lock, journal, faults>>
  BY DEF Check
<1>3. faults' \in 0..MaxFaults
  BY <1>2 DEF IInv, StoreOK
<1> QED
  BY <1>1, <1>2, <1>3, QuietOK

\* With the lock free nobody is at work and no journal is pending.
LEMMA FreeLock ==
  ASSUME IInv, lock = "FREE"
  PROVE  /\ \A q \in Procs : ~Active(work[q])
         /\ \A o \in Ops : journal[o].state \notin Pending
  BY PlanAssumption DEF IInv, WorkOK, StoreOK, Good, Active, Looking, PendingHoldsLock

LEMMA CreateLockOK == ASSUME IInv, NEW p \in Procs, CreateLock(p) PROVE IInv'
<1> DEFINE w == [work[p] EXCEPT !.at = "LOCKING"]
<1>1. CASE lock = "FREE" /\ lock' = "TORN" /\ Go(p, "LOCKING")
  <2>1. Alone(p) /\ (\A o \in Ops : journal[o].state \notin Pending)
    BY <1>1, FreeLock DEF Alone
  <2>2. StoreOK'
    BY <1>1, <2>1 DEF CreateLock, IInv, StoreOK, JournalsOK, PendingHoldsLock
  <2>3. w \in Works /\ w.at = "LOCKING" /\ w.op \in Ops
    BY ZenonT(60), AtWork, Elsewhere DEF CreateLock, At, Good, Phases
  <2>4. Good(w, file', lock', journal')
    <3> HIDE DEF w
    <3> QED
      BY <1>1, <2>3 DEF Good, Active, Looking, Settling, Backwards, Uncaptured
  <2> QED
    BY <1>1, <2>1, <2>2, <2>4, OneMoves DEF Go
<1>2. CASE lock # "FREE" /\ Moves(p, "IDLE")
  <2>1. StoreOK' /\ work' = [work EXCEPT ![p] = Idle] /\ UNCHANGED <<file, lock, journal>>
    BY <1>2 DEF Moves, Go, IInv, StoreOK, JournalsOK, PendingHoldsLock
  <2>2. /\ work' \in [Procs -> Works] /\ work'[p] = Idle
        /\ \A q \in Procs : q # p => work'[q] = work[q]
    BY <2>1, IdleIsGood DEF IInv
  <2>3. WorkOK' /\ Exclusive'
    BY <2>1, <2>2, IdleIsGood DEF IInv, WorkOK, Exclusive, Alone
  <2> QED
    BY <2>1, <2>2, <2>3 DEF IInv
<1> QED
  BY <1>1, <1>2 DEF CreateLock, Moves

LEMMA WriteLockOK == ASSUME IInv, NEW p \in Procs, WriteLock(p) PROVE IInv'
<1>1. Active(work[p]) /\ lock = "TORN" /\ work[p].op \in Ops /\ Alone(p)
  BY AtWork DEF WriteLock, At, Active, Looking, Good
<1>2. CASE /\ lock' = work[p].op /\ Go(p, "LOCKED") /\ UNCHANGED <<file, journal, faults>>
  <2>1. \A o \in Ops : journal[o].state \notin Pending
    BY <1>1, PlanAssumption DEF IInv, StoreOK, PendingHoldsLock
  <2>2. StoreOK'
    BY <1>1, <1>2, <2>1 DEF IInv, StoreOK, JournalsOK, PendingHoldsLock
  <2> DEFINE w == [work[p] EXCEPT !.at = "LOCKED"]
  <2>3. w \in Works /\ w.at = "LOCKED" /\ w.op = work[p].op
    <3>1. work[p] \in Works /\ "LOCKED" \in Phases
      BY AtWork DEF Phases
    <3> QED
      BY <3>1, Elsewhere
  <2>4. Good(w, file', lock', journal')
    <3> HIDE DEF w
    <3> QED
      BY <1>1, <1>2, <2>1, <2>3 DEF Good, Settling, Backwards, Uncaptured
  <2> QED
    BY <1>1, <1>2, <2>2, <2>4, OneMoves DEF Go
<1>3. CASE FailsTo(p, "IDLE")
  BY <1>1, <1>3, FailureOK DEF Phases
<1> QED
  BY <1>2, <1>3 DEF WriteLock

LEMMA RecheckOK == ASSUME IInv, NEW p \in Procs, Recheck(p) PROVE IInv'
<1>1. work[p].at = "LOCKED" /\ Active(work[p])
  BY DEF Recheck, At, Active, Looking
<1>2. CASE InputsAsPlanned(work[p].op) /\ Moves(p, "CLEAR")
  <2> DEFINE w == [work[p] EXCEPT !.at = "CLEAR"]
  <2>1. w \in Works /\ w.at = "CLEAR" /\ w.op = work[p].op
    <3>1. work[p] \in Works /\ "CLEAR" \in Phases
      BY AtWork DEF Phases
    <3> QED
      BY <3>1, Elsewhere
  <2>2. work[p].op \in Ops /\ lock = work[p].op
    BY <1>1, AtWork DEF Good
  <2>3. Good(w, file, lock, journal)
    <3> HIDE DEF w
    <3> QED
      BY <1>2, <2>1, <2>2 DEF Good, Settling, Backwards, Uncaptured, InputsAsPlanned
  <2> QED
    BY <1>1, <1>2, <2>3, MoveOK DEF Phases
<1>3. CASE ReleasesLock(p, "IDLE")
  BY <1>1, <1>3, ReleaseOK DEF Settling
<1>4. CASE FailsTo(p, "UNLOCKING")
  <2> DEFINE w == [work[p] EXCEPT !.at = "UNLOCKING"]
  <2>a. w \in Works /\ w.at = "UNLOCKING" /\ w.op = work[p].op
    <3>1. work[p] \in Works /\ "UNLOCKING" \in Phases
      BY AtWork DEF Phases
    <3> QED
      BY <3>1, Elsewhere
  <2>b. /\ work[p].op \in Ops /\ lock = work[p].op
        /\ journal[work[p].op].state \notin Pending
    BY <1>1, AtWork DEF Good, Settling
  <2>1. Good(w, file, lock, journal)
    <3> HIDE DEF w
    <3> QED
      BY <2>a, <2>b DEF Good, Settling, Backwards, Uncaptured
  <2>2. faults' \in 0..MaxFaults
    BY <1>4, FaultsAssumption DEF FailsTo, Fails, IInv, StoreOK
  <2> QED
    BY <1>1, <1>4, <2>1, <2>2, Relocates DEF Phases, FailsTo
<1> QED
  BY <1>2, <1>3, <1>4 DEF Recheck

LEMMA CaptureOK == ASSUME IInv, NEW p \in Procs, Capture(p) PROVE IInv'
<1> DEFINE o == work[p].op
           orig == [f \in TargetSet(o) |-> file[f]]
           w == [work[p] EXCEPT !.at = "CAPTURED", !.orig = orig]
<1>1. work[p].at = "CLEAR" /\ Active(work[p]) /\ Alone(p) /\ o \in Ops
  BY AtWork DEF Capture, At, Active, Looking
<1>2. CASE work' = [work EXCEPT ![p].at = "CAPTURED", ![p].orig = orig]
           /\ UNCHANGED <<file, lock, journal, faults>>
  <2>1. Exact(o, orig)
    BY <1>1, AtWork, TargetsAreFiles, PlanAssumption DEF Exact, Good, IInv, StoreOK
  <2>a. orig \in Preimages
    BY <1>1, <2>1, Shapes DEF Exact
  <2>b. w \in Works /\ w.at = "CAPTURED" /\ w.op = o /\ w.orig = orig
    <3>1. work[p] \in Works
      BY AtWork
    <3> HIDE DEF orig
    <3> QED
      BY <2>a, <3>1 DEF Works, Phases
  <2>c. o \in Ops /\ lock = o
    BY <1>1, AtWork DEF Good, Active, Looking
  <2>2. Good(w, file', lock', journal')
    <3> HIDE DEF w, o, orig
    <3> QED
      BY <1>2, <2>1, <2>b, <2>c DEF Good, Settling, Backwards, Uncaptured
  <2>3. work' = [work EXCEPT ![p] = w]
    BY <1>2 DEF IInv
  <2>4. StoreOK'
    BY <1>2 DEF IInv, StoreOK, JournalsOK, PendingHoldsLock
  <2> QED
    BY <1>1, <2>2, <2>3, <2>4, OneMoves
<1>3. CASE FailsTo(p, "IDLE")
  BY <1>1, <1>3, FailureOK DEF Phases
<1> QED
  BY <1>2, <1>3 DEF Capture

LEMMA PrepareOK == ASSUME IInv, NEW p \in Procs, Prepare(p) \/ Begin(p) PROVE IInv'
  BY JournalOK DEF Prepare, Begin, At, Active, Looking, Uncaptured, Settling, Backwards, States,
                   Pending, Phases

\* A process at work that has the preimages changes a target's contents, and
\* moves on to any of the places it then may.
LEMMA FileOK ==
  ASSUME IInv, NEW p \in Procs, NEW f \in TargetSet(work[p].op), NEW c \in Contents,
         NEW i \in Nat, NEW place \in Phases \ (Uncaptured \cup Settling),
         place \in Backwards => i <= Len(Targets[work[p].op]),
         Active(work[p]), work[p].at \notin Uncaptured,
         file' = [file EXCEPT ![f] = c], UNCHANGED <<lock, journal>>,
         faults' \in 0..MaxFaults,
         work' = [work EXCEPT ![p] = [@ EXCEPT !.i = i, !.at = place]]
  PROVE  IInv'
<1> DEFINE w == [work[p] EXCEPT !.i = i, !.at = place]
<1>1. StoreOK'
  BY TargetsAreFiles, AtWork DEF IInv, StoreOK, JournalsOK, PendingHoldsLock
<1>2. Good(w, file', lock', journal')
  BY AtWork DEF Good, Works, Active, Looking, Uncaptured
<1>3. work' = [work EXCEPT ![p] = w]
  OBVIOUS
<1> QED
  BY <1>1, <1>2, <1>3, AtWork, OneMoves

\* It only moves on, perhaps with a call that failed.
LEMMA GoesOnOK ==
  ASSUME IInv, NEW p \in Procs, NEW place \in Phases \ (Uncaptured \cup Settling \cup Backwards),
         Active(work[p]), work[p].at \notin Uncaptured,
         Moves(p, place) \/ FailsTo(p, place)
  PROVE  IInv'
<1> DEFINE w == [work[p] EXCEPT !.at = place]
<1>1. w \in Works /\ w.at = place /\ w.op = work[p].op /\ w.orig = work[p].orig
  BY AtWork, Elsewhere
<1>2. /\ work[p].op \in Ops /\ lock = work[p].op /\ Exact(work[p].op, work[p].orig)
  BY AtWork DEF Good, Active, Looking, Uncaptured
<1>3. Good(w, file, lock, journal)
  <2> HIDE DEF w
  <2> QED
    BY <1>1, <1>2 DEF Good, Uncaptured
<1>4. faults' \in 0..MaxFaults
  BY FaultsAssumption DEF Moves, FailsTo, Fails, IInv, StoreOK
<1> QED
  BY <1>3, <1>4, Relocates DEF Moves, FailsTo

\* It writes its journal and starts to go through the targets backwards.
LEMMA TurnsBackOK ==
  ASSUME IInv, NEW p \in Procs, NEW n \in Nat, NEW place \in Phases \ (Uncaptured \cup Settling),
         n <= Len(Targets[work[p].op]),
         Active(work[p]), work[p].at \notin Uncaptured,
         Write(p, "ROLLING_BACK"), UNCHANGED <<file, lock, faults>>,
         work' = [work EXCEPT ![p].at = place, ![p].i = n]
  PROVE  IInv'
<1> DEFINE w == [work[p] EXCEPT !.at = place, !.i = n]
<1>1. /\ work[p] \in Works /\ work[p].op \in Ops /\ lock = work[p].op
      /\ Exact(work[p].op, work[p].orig) /\ Alone(p)
  BY AtWork DEF Good, Active, Looking, Uncaptured
<1>2. w \in Works /\ w.at = place /\ w.op = work[p].op /\ w.orig = work[p].orig /\ w.i = n
  BY <1>1 DEF Works
<1>3. work' = [work EXCEPT ![p] = w]
  BY DEF IInv
<1>4. StoreOK'
  BY Journaled DEF States, Pending, StoreOK, IInv
<1>5. Good(w, file', lock', journal')
  <2> HIDE DEF w
  <2> QED
    BY <1>1, <1>2 DEF Good, Uncaptured
<1> QED
  BY <1>1, <1>3, <1>4, <1>5, OneMoves

LEMMA ReplaceOK == ASSUME IInv, NEW p \in Procs, Replace(p) PROVE IInv'
<1> DEFINE o == work[p].op
           i == work[p].i + 1
           f == Targets[o][i]
<1>1. /\ Active(work[p]) /\ work[p].at = "REPLACING" /\ work[p].at \notin Uncaptured
      /\ work[p] \in Works /\ o \in Ops /\ i \in Nat \ {0} /\ i <= Len(Targets[o])
  BY AtWork DEF Replace, At, Active, Looking, Uncaptured, Works
<1>2. f \in TargetSet(o) /\ New[o][f] \in Contents
  BY <1>1, TargetsAreFiles, PlanAssumption
<1>3. CASE FailsTo(p, "FAILED")
  BY <1>1, <1>3, GoesOnOK DEF Phases, Uncaptured, Settling, Backwards
<1>4. ASSUME file' = [file EXCEPT ![f] = New[o][f]], UNCHANGED <<lock, journal>>,
             work' = [work EXCEPT ![p].i = i], UNCHANGED faults
      PROVE  IInv'
  <2>1. work' = [work EXCEPT ![p] = [@ EXCEPT !.i = i, !.at = "REPLACING"]]
    BY <1>1, <1>4 DEF IInv, Works
  <2>2. faults' \in 0..MaxFaults
    BY <1>4 DEF IInv, StoreOK
  <2>3. "REPLACING" \in Phases \ (Uncaptured \cup Settling \cup Backwards)
    BY DEF Phases, Uncaptured, Settling, Backwards
  <2> HIDE DEF f, i
  <2> QED
    BY <1>1, <1>2, <1>4, <2>1, <2>2, <2>3, FileOK
<1>5. ASSUME file' = [file EXCEPT ![f] = New[o][f]], UNCHANGED <<lock, journal>>,
             work' = [work EXCEPT ![p].i = i, ![p].at = "FAILED"], Fails
      PROVE  IInv'
  <2>1. work' = [work EXCEPT ![p] = [@ EXCEPT !.i = i, !.at = "FAILED"]]
    BY <1>5 DEF IInv
  <2>2. faults' \in 0..MaxFaults
    BY <1>5, FaultsAssumption DEF Fails, IInv, StoreOK
  <2>3. "FAILED" \in Phases \ (Uncaptured \cup Settling \cup Backwards)
    BY DEF Phases, Uncaptured, Settling, Backwards
  <2> HIDE DEF f, i
  <2> QED
    BY <1>1, <1>2, <1>5, <2>1, <2>2, <2>3, FileOK
<1> QED
  BY <1>3, <1>4, <1>5 DEF Replace

LEMMA ValidateOK == ASSUME IInv, NEW p \in Procs, Validate(p) PROVE IInv'
  BY GoesOnOK DEF Validate, At, Active, Looking, Phases, Uncaptured, Settling, Backwards

LEMMA CommitOK == ASSUME IInv, NEW p \in Procs, Commit(p) PROVE IInv'
<1>1. Journals(p, "COMMITTED", "COMMITTED", "IDLE") /\ work[p].at = "VALIDATED"
  BY DEF Commit, Journals, At
<1> QED
  BY <1>1, JournalOK DEF Active, Looking, Uncaptured, Settling, Backwards, States, Pending, Phases

LEMMA RemoveLockOK == ASSUME IInv, NEW p \in Procs, RemoveLock(p) PROVE IInv'
<1>1. /\ Alone(p) /\ lock = work[p].op /\ work[p].op \in Ops
      /\ journal[work[p].op].state \notin Pending
  BY AtWork DEF RemoveLock, At, Active, Looking, Good, Settling
<1>2. StoreOK'
  BY <1>1 DEF RemoveLock, IInv, StoreOK, JournalsOK, PendingHoldsLock
<1> QED
  BY <1>1, <1>2, IdleIsGood, OneMoves DEF RemoveLock, Go

LEMMA UnlockOK ==
  ASSUME IInv, NEW p \in Procs, Unlock(p) \/ UnlockRolledBack(p) \/ UnlockRecovered(p)
  PROVE  IInv'
  BY ReleaseOK DEF Unlock, UnlockRolledBack, UnlockRecovered, At, Settling, Backwards, Uncaptured
-----------------------------------------------------------------------------
(* The rollback of a caught failure, and recovery. *)

LEMMA RollBackOK == ASSUME IInv, NEW p \in Procs, RollBack(p) PROVE IInv'
<1>1. Active(work[p]) /\ work[p].at \notin Uncaptured /\ Len(Targets[work[p].op]) \in Nat
  BY AtWork, TargetsAreFiles DEF RollBack, At, Active, Looking, Uncaptured
<1> DEFINE n == Len(Targets[work[p].op])
<1>2. CASE FailsTo(p, "GIVING_UP")
  BY <1>1, <1>2, GoesOnOK DEF Phases, Uncaptured, Settling, Backwards
<1>3. CASE /\ Write(p, "ROLLING_BACK") /\ UNCHANGED <<file, lock, faults>>
           /\ work' = [work EXCEPT ![p].at = "RESTORING", ![p].i = n]
  <2>1. "RESTORING" \in Phases \ (Uncaptured \cup Settling) /\ n \in Nat /\ n <= n
    BY <1>1 DEF Phases, Uncaptured, Settling
  <2> QED
    BY <1>1, <1>3, <2>1, TurnsBackOK
<1> QED
  BY <1>2, <1>3 DEF RollBack

\* One target is given contents, and the next is turned to or the work fails.
LEMMA GivesBackOK ==
  ASSUME IInv, NEW p \in Procs, NEW here \in {"RESTORING", "RECOVERING"},
         NEW failing \in {"GIVING_UP", "STOPPING"}, At(p, here), work[p].i > 0,
         NEW f \in TargetSet(work[p].op), NEW c \in Contents,
         file' = [file EXCEPT ![f] = c], UNCHANGED <<lock, journal>>,
         \/ work' = [work EXCEPT ![p].i = @ - 1] /\ UNCHANGED faults
         \/ Go(p, failing) /\ Fails
  PROVE  IInv'
<1>1. /\ Active(work[p]) /\ work[p].at = here /\ work[p].at \notin Uncaptured
      /\ work[p] \in Works /\ work[p].i \in Nat /\ work[p].i - 1 \in Nat
      /\ Len(Targets[work[p].op]) \in Nat /\ work[p].i <= Len(Targets[work[p].op])
  BY AtWork, TargetsAreFiles DEF At, Active, Looking, Uncaptured, Backwards, Works, Good
<1>2. /\ here \in Phases \ (Uncaptured \cup Settling)
      /\ failing \in Phases \ (Uncaptured \cup Settling) /\ failing \notin Backwards
  BY DEF Phases, Uncaptured, Settling, Backwards
<1>3. CASE work' = [work EXCEPT ![p].i = @ - 1] /\ UNCHANGED faults
  <2>1. work' = [work EXCEPT ![p] = [@ EXCEPT !.i = work[p].i - 1, !.at = here]]
    BY <1>1, <1>3 DEF IInv, Works
  <2>2. faults' \in 0..MaxFaults
    BY <1>3 DEF IInv, StoreOK
  <2>3. work[p].i - 1 <= Len(Targets[work[p].op])
    BY <1>1
  <2> QED
    BY <1>1, <1>2, <2>1, <2>2, <2>3, FileOK
<1>4. CASE Go(p, failing) /\ Fails
  <2>1. work' = [work EXCEPT ![p] = [@ EXCEPT !.i = work[p].i, !.at = failing]]
    BY <1>1, <1>4 DEF IInv, Works, Go
  <2>2. faults' \in 0..MaxFaults
    BY <1>4, FaultsAssumption DEF Fails, IInv, StoreOK
  <2> QED
    BY <1>1, <1>2, <2>1, <2>2, FileOK
<1> QED
  BY <1>3, <1>4

LEMMA RestoreOK == ASSUME IInv, NEW p \in Procs, Restore(p) PROVE IInv'
<1> DEFINE o == work[p].op
           f == Targets[o][work[p].i]
           orig == work[p].orig
<1>1. /\ At(p, "RESTORING") /\ Active(work[p]) /\ work[p].at \notin Uncaptured
      /\ o \in Ops /\ work[p].i \in DOMAIN Targets[o] /\ work[p].i > 0 /\ Exact(o, orig)
  BY AtWork, InRange DEF Restore, At, Active, Looking, Uncaptured, Backwards, Good, Works
<1>2. CASE FailsTo(p, "GIVING_UP") \/ Moves(p, "GIVING_UP")
  BY <1>1, <1>2, GoesOnOK DEF Phases, Uncaptured, Settling, Backwards
<1>3. CASE /\ file' = [file EXCEPT ![f] = orig[f]] /\ UNCHANGED <<lock, journal>>
           /\ \/ work' = [work EXCEPT ![p].i = @ - 1] /\ UNCHANGED faults
              \/ Go(p, "GIVING_UP") /\ Fails
  <2>1. f \in TargetSet(o) /\ orig[f] \in Contents
    BY <1>1, <1>3 DEF TargetSet, Exact
  <2> HIDE DEF f, orig
  <2> QED
    BY <1>1, <1>3, <2>1, GivesBackOK
<1> QED
  BY <1>2, <1>3 DEF Restore

LEMMA RecoverFileOK == ASSUME IInv, NEW p \in Procs, RecoverFile(p) PROVE IInv'
<1> DEFINE o == work[p].op
           f == Targets[o][work[p].i]
           c == Recovered(f, o, work[p].orig)
<1>1. /\ At(p, "RECOVERING") /\ Active(work[p]) /\ work[p].at \notin Uncaptured
      /\ o \in Ops /\ work[p].i \in DOMAIN Targets[o] /\ work[p].i > 0
      /\ Exact(o, work[p].orig)
  BY AtWork, InRange DEF RecoverFile, At, Active, Looking, Uncaptured, Backwards, Good, Works
<1>2. CASE FailsTo(p, "STOPPING")
  BY <1>1, <1>2, GoesOnOK DEF Phases, Uncaptured, Settling, Backwards
<1>3. CASE /\ file' = [file EXCEPT ![f] = c] /\ UNCHANGED <<lock, journal>>
           /\ \/ work' = [work EXCEPT ![p].i = @ - 1] /\ UNCHANGED faults
              \/ Go(p, "STOPPING") /\ Fails
  <2>1. f \in TargetSet(o) /\ f \in Files
    BY <1>1, <1>3, TargetsAreFiles DEF TargetSet
  <2>2. c \in Contents
    BY <1>1, <2>1 DEF Recovered, Exact, IInv, StoreOK
  <2> HIDE DEF f, c
  <2> QED
    BY <1>1, <1>3, <2>1, <2>2, GivesBackOK
<1> QED
  BY <1>2, <1>3 DEF RecoverFile

LEMMA FinishOK ==
  ASSUME IInv, NEW p \in Procs, FinishRollBack(p) \/ FinishRecovery(p) PROVE IInv'
  BY JournalOK DEF FinishRollBack, FinishRecovery, At, Active, Looking, Uncaptured, Settling,
                   Backwards, States, Pending, Phases

LEMMA GiveUpOK == ASSUME IInv, NEW p \in Procs, GiveUp(p) \/ StopRecovery(p) PROVE IInv'
<1>1. /\ Journals(p, "RECOVERY_REQUIRED", "IDLE", "IDLE")
      /\ work[p].at \in {"GIVING_UP", "STOPPING"}
  BY DEF GiveUp, StopRecovery, Journals, At
<1> QED
  BY <1>1, JournalOK DEF Active, Looking, Uncaptured, Settling, Backwards, States, Pending, Phases

\* A review only looks; what it saw is kept in its record.
LEMMA ReviewOK ==
  ASSUME IInv, NEW p \in Procs, NEW o \in Ops, Review(p, o)
  PROVE  IInv'
<1>1. UNCHANGED <<file, lock, journal>> /\ faults' \in 0..MaxFaults
  BY DEF Review, IInv, StoreOK
<1>2. PICK place \in {"FINALIZING", "REVIEWED"} :
        /\ IF place = "REVIEWED" THEN Restorable(o) ELSE LockOnly(o) \/ Committed(o)
        /\ work' = [work EXCEPT ![p] = [at |-> place, op |-> o, i |-> 0,
                                       seen |-> journal[o].state, orig |-> journal[o].orig]]
  BY DEF Review
<1> DEFINE w == [at |-> place, op |-> o, i |-> 0,
                 seen |-> journal[o].state, orig |-> journal[o].orig]
<1>3. /\ journal[o].state \in States /\ journal[o].orig \in Preimages
      /\ journal[o].state # "NONE" => Exact(o, journal[o].orig)
  BY DEF IInv, StoreOK, JournalsOK, Journal
<1>4. w \in Works /\ w.at = place /\ w.op = o
  BY <1>3 DEF Works, Phases
<1>5. /\ place = "FINALIZING" => w.seen \notin Pending
      /\ place = "REVIEWED" => Exact(o, w.orig)
  BY <1>2, <1>3 DEF Restorable, LockOnly, Committed, Pending
<1>6. Good(w, file, lock, journal) /\ ~Active(w)
  <2> HIDE DEF w
  <2> QED
    BY <1>4, <1>5 DEF Good, Active, Looking, Settling, Backwards, Uncaptured
<1> QED
  BY <1>1, <1>2, <1>6, QuietOK

\* A review that still stands finds nobody else at work: who is, works on another
\* operation, and has its lock.
LEMMA TakesOverOK ==
  ASSUME IInv, NEW p \in Procs, NEW place \in Phases, work[p].at \in {"FINALIZING", "REVIEWED"},
         Unchanged(p), Interrupted(work[p].op), Moves(p, place), place # "IDLE",
         Good([work[p] EXCEPT !.at = place], file, lock, journal)
  PROVE  IInv'
<1>1. work[p].op \in Ops /\ lock = work[p].op
  BY AtWork DEF Good, Unchanged, OwnsLock
<1>2. Alone(p)
  <2> SUFFICES ASSUME NEW q \in Procs, Active(work[q]) PROVE FALSE
    BY DEF Alone
  <2>1. work[q].op = work[p].op
    BY <1>1, AtWork, PlanAssumption DEF Good, Active, Looking
  <2> QED
    BY <2>1 DEF Interrupted, Active, Looking
<1>3. StoreOK'
  BY DEF Moves, IInv, StoreOK, JournalsOK, PendingHoldsLock
<1> QED
  BY <1>2, <1>3, OneMoves DEF Moves, Go

\* A review that is given up.
LEMMA RefusesOK ==
  ASSUME IInv, NEW p \in Procs, Moves(p, "IDLE") \/ FailsTo(p, "IDLE")
  PROVE  IInv'
<1>1. /\ UNCHANGED <<file, lock, journal>> /\ faults' \in 0..MaxFaults
      /\ work' = [work EXCEPT ![p] = Idle]
  BY FaultsAssumption DEF Moves, FailsTo, Fails, Go, IInv, StoreOK
<1> QED
  BY <1>1, IdleIsGood, QuietOK

LEMMA FinalizeOK == ASSUME IInv, NEW p \in Procs, Finalize(p) PROVE IInv'
<1>1. /\ work[p].at = "FINALIZING" /\ work[p] \in Works
      /\ work[p].op \in Ops /\ work[p].seen \notin Pending
  BY AtWork DEF Finalize, At, Good
<1>2. CASE Unchanged(p) /\ Interrupted(work[p].op) /\ Moves(p, "UNLOCKING")
  <2> DEFINE w == [work[p] EXCEPT !.at = "UNLOCKING"]
  <2>1. "UNLOCKING" \in Phases
    BY DEF Phases
  <2>2. w \in Works /\ w.at = "UNLOCKING" /\ w.op = work[p].op
    BY <1>1, <2>1, Elsewhere
  <2>3. journal[work[p].op].state \notin Pending /\ lock = work[p].op
    BY <1>1, <1>2 DEF Unchanged, OwnsLock
  <2>4. Good(w, file, lock, journal)
    <3> HIDE DEF w
    <3> QED
      BY <1>1, <2>2, <2>3 DEF Good, Settling, Backwards, Uncaptured
  <2> QED
    BY <1>1, <1>2, <2>1, <2>4, TakesOverOK
<1> QED
  BY <1>2, RefusesOK DEF Finalize

LEMMA ConfirmOK == ASSUME IInv, NEW p \in Procs, Confirm(p) PROVE IInv'
<1>1. /\ work[p].at = "REVIEWED" /\ work[p] \in Works
      /\ work[p].op \in Ops /\ Exact(work[p].op, work[p].orig)
  BY AtWork DEF Confirm, At, Good, Uncaptured
<1>2. CASE Unchanged(p) /\ Interrupted(work[p].op) /\ Moves(p, "CONFIRMED")
  <2> DEFINE w == [work[p] EXCEPT !.at = "CONFIRMED"]
  <2>1. "CONFIRMED" \in Phases
    BY DEF Phases
  <2>2. w \in Works /\ w.at = "CONFIRMED" /\ w.op = work[p].op /\ w.orig = work[p].orig
    BY <1>1, <2>1, Elsewhere
  <2>3. Good(w, file, lock, journal)
    <3> HIDE DEF w
    <3> QED
      BY <1>1, <1>2, <2>2 DEF Good, Unchanged, OwnsLock, Settling, Backwards, Uncaptured
  <2> QED
    BY <1>1, <1>2, <2>1, <2>3, TakesOverOK
<1> QED
  BY <1>2, RefusesOK DEF Confirm

LEMMA StartRecoveryOK == ASSUME IInv, NEW p \in Procs, StartRecovery(p) PROVE IInv'
<1>1. Active(work[p]) /\ work[p].at \notin Uncaptured /\ Len(Targets[work[p].op]) \in Nat
  BY AtWork, TargetsAreFiles DEF StartRecovery, At, Active, Looking, Uncaptured
<1> DEFINE n == Len(Targets[work[p].op])
<1>2. CASE FailsTo(p, "STOPPING")
  BY <1>1, <1>2, GoesOnOK DEF Phases, Uncaptured, Settling, Backwards
<1>3. CASE /\ Write(p, "ROLLING_BACK") /\ UNCHANGED <<file, lock, faults>>
           /\ work' = [work EXCEPT ![p].at = "RECOVERING", ![p].i = n]
  <2>1. "RECOVERING" \in Phases \ (Uncaptured \cup Settling) /\ n \in Nat /\ n <= n
    BY <1>1 DEF Phases, Uncaptured, Settling
  <2> QED
    BY <1>1, <1>3, <2>1, TurnsBackOK
<1> QED
  BY <1>2, <1>3 DEF StartRecovery
-----------------------------------------------------------------------------
LEMMA KilledOK == ASSUME IInv, NEW p \in Procs, Killed(p) PROVE IInv'
  BY RefusesOK DEF Killed

LEMMA OwnerEditsOK == ASSUME IInv, NEW f \in Files, OwnerEdits(f) PROVE IInv'
<1>1. \A p \in Procs : work[p].at = "IDLE" /\ work'[p] = work[p]
  BY DEF OwnerEdits, At
<1>2. StoreOK'
  BY PlanAssumption DEF OwnerEdits, IInv, StoreOK, JournalsOK, PendingHoldsLock
<1>3. WorkOK'
  <2> SUFFICES ASSUME NEW p \in Procs PROVE Good(work[p], file', lock', journal')
    BY <1>1 DEF WorkOK
  <2> QED
    BY <1>1, AtWork DEF OwnerEdits, Good, Settling, Backwards, Uncaptured
<1> QED
  BY <1>1, <1>2, <1>3 DEF OwnerEdits, IInv, Exclusive, Alone

LEMMA StutterOK == ASSUME IInv, UNCHANGED vars PROVE IInv'
  BY DEF vars, IInv, StoreOK, JournalsOK, PendingHoldsLock, WorkOK, Exclusive, Alone

\* Every step keeps the invariant.
LEMMA NextOK == ASSUME IInv, [Next]_vars PROVE IInv'
<1>1. ASSUME NEW p \in Procs, Executes(p) PROVE IInv'
  BY <1>1, CreateLockOK, WriteLockOK, RecheckOK, CaptureOK, PrepareOK, ReplaceOK, ValidateOK,
     CommitOK, UnlockOK, RollBackOK, RestoreOK, FinishOK, GiveUpOK, RemoveLockOK DEF Executes
<1>2. ASSUME NEW p \in Procs, Recovers(p) PROVE IInv'
  BY <1>2, ReviewOK, FinalizeOK, ConfirmOK, StartRecoveryOK, RecoverFileOK, FinishOK, UnlockOK,
     GiveUpOK DEF Recovers
<1> QED
  BY <1>1, <1>2, CheckOK, KilledOK, OwnerEditsOK, StutterOK DEF Next
-----------------------------------------------------------------------------
\* The invariant contains the properties the runs check.
LEMMA Consequences == IInv => TypeOK /\ OneWriter /\ PendingHoldsLock /\ PreimagesExact
<1> SUFFICES ASSUME IInv PROVE TypeOK /\ OneWriter /\ PendingHoldsLock /\ PreimagesExact
  OBVIOUS
<1>1. TypeOK
  BY DEF IInv, StoreOK, JournalsOK, Journal, Works, TypeOK
<1>2. OneWriter
  <2> SUFFICES ASSUME NEW p \in Procs, Writes(p)
               PROVE  lock = work[p].op /\ \A q \in Procs : Writes(q) => q = p
    BY DEF OneWriter
  <2>1. Active(work[p]) /\ work[p].at # "LOCKING"
    BY DEF Writes, At, Active, Looking
  <2>2. \A q \in Procs : Writes(q) => Active(work[q])
    BY DEF Writes, At, Active, Looking
  <2> QED
    BY <2>1, <2>2, AtWork DEF Good, Alone
<1>3. PreimagesExact
  BY DEF IInv, StoreOK, JournalsOK, Exact, PreimagesExact
<1> QED
  BY <1>1, <1>2, <1>3 DEF IInv, StoreOK

\* The invariant holds in every reachable state.
LEMMA Invariance == Spec => []IInv
<1>1. IInv /\ [Next]_vars => IInv'
  BY NextOK
<1> QED
  BY <1>1, InitOK, PTL DEF Spec

\* The type invariant of workspace transactions, for every plan and every fault.
THEOREM TypeOKHolds == Spec => []TypeOK
  BY Invariance, Consequences, PTL

\* From the lock file to its removal a process of execute_transaction or
\* recover_transaction works alone, and the lock names its operation.
THEOREM OneWriterHolds == Spec => []OneWriter
  BY Invariance, Consequences, PTL

\* Wherever a process fails or is killed, a journal that is not settled still
\* has its lock, so readers and writers of the workspace stop.
THEOREM PendingHoldsLockHolds == Spec => []PendingHoldsLock
  BY Invariance, Consequences, PTL

\* What a journal preserves of each target is exactly what the operation was
\* planned against, whatever raced with it before it had the lock.
THEOREM PreimagesExactHolds == Spec => []PreimagesExact
  BY Invariance, Consequences, PTL
-----------------------------------------------------------------------------
(***************************************************************************)
(* Both protocols under one lock.                                          *)
(*                                                                         *)
(* The lock names the only operation whose files can be hidden.  The       *)
(* invariant (DInv) says in which state the targets of that operation are  *)
(* at every place of the process at work: as captured, written up to its   *)
(* position, or put back down to it; and what is left when nobody works:   *)
(* every target is one of its two contents, or edited by the owner.  From  *)
(* this every step is invisible, or shows one operation as a whole.        *)
(***************************************************************************)

Settled(o) == journal[o].state \in {"NONE", "ROLLED_BACK"}
\* The targets of p's operation: as captured; written up to p's position; put
\* back down to it.  And its other inputs.
AsCaptured(p) == \A f \in TargetSet(work[p].op) : file[f] = work[p].orig[f]
Forward(p) ==
  LET w == work[p] IN
  /\ w.i <= Len(Targets[w.op])
  /\ \A k \in DOMAIN Targets[w.op] :
       LET f == Targets[w.op][k] IN file[f] = IF k <= w.i THEN New[w.op][f] ELSE w.orig[f]
Backward(p) ==
  LET w == work[p] IN
  /\ w.i <= Len(Targets[w.op])
  /\ \A k \in DOMAIN Targets[w.op] :
       k > w.i => file[Targets[w.op][k]] = w.orig[Targets[w.op][k]]
RestAsPlanned(o) == \A f \in DOMAIN Pre[o] \ TargetSet(o) : file[f] = Pre[o][f]
Recorded(p) == Hidden(work[p].op) /\ journal[work[p].op].orig = work[p].orig
\* A coordination transaction that failed before it captured anything.
Bare(p) == work[p].orig = <<>> /\ work[p].i = 0 /\ work[p].op \in legacy /\ ~Hidden(work[p].op)

AtStart(p) == LET w == work[p] IN
  /\ w.i = 0 /\ ~Hidden(w.op)
  /\ w.at = "LOCKED" => w.orig = <<>>
  /\ w.at = "CLEAR" => InputsAsPlanned(w.op) /\ w.op \notin legacy
Ahead(p) == LET w == work[p] IN
  /\ Exact(w.op, w.orig) /\ Forward(p) /\ RestAsPlanned(w.op)
  /\ w.at \in {"CAPTURED", "PREPARED"} => w.i = 0
  /\ w.at = "VALIDATED" => w.i = Len(Targets[w.op])
  /\ IF w.at = "CAPTURED" THEN Settled(w.op) ELSE Recorded(p)
Committing(p) == LET w == work[p] IN
  /\ journal[w.op].state = "COMMITTED"
  /\ w.op \in legacy => /\ Exact(w.op, w.orig) /\ Forward(p) /\ RestAsPlanned(w.op)
                        /\ w.i = Len(Targets[w.op]) /\ Recorded(p)
Failing(p) == LET w == work[p] IN
  \/ Bare(p)
  \/ /\ Exact(w.op, w.orig) /\ Forward(p)
     /\ Recorded(p) \/ (Settled(w.op) /\ w.i = 0)
Restoring(p) == Exact(work[p].op, work[p].orig) /\ Backward(p) /\ Recorded(p)
Restored(p) == LET w == work[p] IN
  \/ w.at = "RESTORED" /\ Bare(p)
  \/ Exact(w.op, w.orig) /\ Settled(w.op) /\ AsCaptured(p)
Stopping(p) == LET w == work[p] IN
  Exact(w.op, w.orig) /\ (Recorded(p) \/ (Settled(w.op) /\ AsCaptured(p)))
Releasing(p) == LET o == work[p].op IN
  Hidden(o) => /\ o \in legacy /\ journal[o].state = "COMMITTED"
               /\ OutputsAsPlanned(o) /\ RestAsPlanned(o)

\* What a process may rely on at each place; the record of one that only looks
\* guarantees nothing of the store.
PartOK(p) == LET w == work[p] IN
  /\ w \in Works
  /\ w.at # "IDLE" => w.op \in Ops
  /\ w.at \in {"CHECKED", "LOCKING"} => w.i = 0 /\ w.orig = <<>>
  /\ w.at = "LOCKING" => lock = "TORN"
  /\ Active(w) /\ w.at # "LOCKING" => lock = w.op
  /\ w.at \in {"FINALIZING", "REVIEWED"} => w.op \notin legacy /\ (w.at = "REVIEWED" <=> w.seen \in Pending)
  /\ w.at \in {"LOCKED", "CLEAR"} => AtStart(p)
  /\ w.at \in {"CAPTURED", "PREPARED", "REPLACING", "VALIDATED"} => Ahead(p)
  /\ w.at = "COMMITTED" => Committing(p)
  /\ w.at = "FAILED" => Failing(p)
  /\ w.at \in {"RESTORING", "RECOVERING"} => Restoring(p)
  /\ w.at \in {"RESTORED", "RECOVERED"} => Restored(p)
  /\ w.at \in {"GIVING_UP", "STOPPING"} => Stopping(p)
  /\ w.at = "UNLOCKING" => Releasing(p)
  /\ w.at = "CONFIRMED" => Recorded(p) /\ Exact(w.op, w.orig)

HiddenIsLocked == \A o \in Ops : Hidden(o) => lock = o
\* While somebody works, every target of what is hidden is one of its two
\* contents; only the owner spoils that, when nobody does.
Tidy == (\E p \in Procs : work[p].at # "IDLE") =>
  \A o \in Ops : Hidden(o) => \A f \in TargetSet(o) : Known(f, o, journal[o].orig)
Spoilt == \A o \in Ops : Hidden(o) =>
  \A f \in TargetSet(o) : Known(f, o, journal[o].orig) \/ file[f] = Edited
DStore ==
  /\ file \in [Files -> Contents]
  /\ lock \in {"FREE", "TORN"} \cup Ops
  /\ faults \in 0..MaxFaults
  /\ journal \in [Ops -> Journal]
  /\ \A o \in Ops : journal[o].state # "NONE" => Exact(o, journal[o].orig)
  /\ legacy \subseteq Ops /\ published \subseteq legacy
  /\ \A o \in published : journal[o].state = "COMMITTED"
  /\ HiddenIsLocked /\ Tidy /\ Spoilt
\* What took effect while a process was about to do it again is not what its plan
\* was made against.
Early == {"CHECKED", "LOCKING", "LOCKED", "CLEAR"}
NeverBack == \A p \in Procs : work[p].at \in Early /\ work[p].op \in InEffect =>
  \A f \in TargetSet(work[p].op) : Visible[f] \in Later(work[p].op, f)
StaysEarly(p) == work'[p].at \in Early => work[p].at \in Early /\ work'[p].op = work[p].op
DInv ==
  /\ work \in [Procs -> Works] /\ DStore
  /\ (\A p \in Procs : PartOK(p)) /\ Exclusive /\ NeverBack

(***************************************************************************)
(* What is visible                                                         *)
(***************************************************************************)
Step == (\E o \in Ops : VisibleAtomic!Commit(o)) \/ UNCHANGED <<Visible, InEffect>>
AtomicStep == VisibleAtomic!AtomicNext \/ UNCHANGED <<Visible, InEffect>>

\* Only the operation that has the lock can keep a file hidden.
Behind(f) == /\ lock \in Ops /\ Hidden(lock) /\ f \in TargetSet(lock)
             /\ Known(f, lock, journal[lock].orig)
SeenFiles ==
  \A f \in Files : Visible[f] = IF Behind(f) THEN journal[lock].orig[f] ELSE file[f]

\* The CHOOSE of Visible has one candidate.
LEMMA Seen == HiddenIsLocked => SeenFiles
<1> SUFFICES ASSUME HiddenIsLocked, NEW f \in Files
             PROVE  Visible[f] = IF Behind(f) THEN journal[lock].orig[f] ELSE file[f]
  BY DEF SeenFiles
<1>1. HiddenFor(f) \subseteq {lock}
  BY DEF HiddenFor, HiddenIsLocked
<1>2. lock \in HiddenFor(f) <=> Behind(f)
  BY DEF HiddenFor, Behind
<1>3. CASE Behind(f)
  <2>1. HiddenFor(f) = {lock}
    BY <1>1, <1>2, <1>3
  <2>2. (CHOOSE o \in HiddenFor(f) : TRUE) = lock
    BY <2>1
  <2> QED
    BY <2>1, <2>2, <1>3 DEF Visible
<1>4. CASE ~Behind(f)
  <2>1. HiddenFor(f) = {}
    BY <1>1, <1>2, <1>4
  <2> QED
    BY <2>1, <1>4 DEF Visible
<1> QED
  BY <1>3, <1>4

LEMMA SeenNext == HiddenIsLocked' => SeenFiles'
  BY Seen, PTL

LEMMA Pointwise == /\ Visible = [f \in Files |-> Visible[f]]
                   /\ Visible' = [f \in Files |-> Visible'[f]]
  BY DEF Visible

\* What is visible is a content for each file.
LEMMA VisibleContents == ASSUME DStore PROVE Visible \in [Files -> Contents]
<1> SUFFICES ASSUME NEW f \in Files PROVE Visible[f] \in Contents
  BY Pointwise
<1>1. SeenFiles
  BY Seen DEF DStore
<1>2. CASE Behind(f)
  <2>1. journal[lock].state # "NONE" /\ lock \in Ops /\ f \in TargetSet(lock)
    BY <1>2 DEF Behind, Hidden, Pending
  <2>2. journal[lock].orig[f] \in Contents
    BY <2>1 DEF DStore, Exact
  <2> QED
    BY <1>1, <1>2, <2>2 DEF SeenFiles
<1>3. CASE ~Behind(f)
  BY <1>1, <1>3 DEF SeenFiles, DStore
<1> QED
  BY <1>2, <1>3

\* Neither files nor journals change: nothing does.
LEMMA SameSeen ==
  ASSUME UNCHANGED <<file, journal, legacy, published>>
  PROVE  UNCHANGED <<Visible, InEffect>>
<1>1. \A o : Hidden(o)' <=> Hidden(o)
  BY DEF Hidden
<1>2. \A f : HiddenFor(f)' = HiddenFor(f)
  BY <1>1 DEF HiddenFor, Known
<1> DEFINE One(S) == CHOOSE o \in S : TRUE
<1>3. Visible' = Visible
  <2>1. /\ Visible = [f \in Files |-> IF HiddenFor(f) = {} THEN file[f]
                                     ELSE journal[One(HiddenFor(f))].orig[f]]
        /\ Visible' = [f \in Files |-> IF HiddenFor(f)' = {} THEN file[f]
                                     ELSE journal[One(HiddenFor(f)')].orig[f]]
    BY DEF Visible
  <2> HIDE DEF One
  <2> QED
    BY <1>2, <2>1
<1>4. InEffect' = InEffect
  BY <1>1 DEF InEffect
<1> QED
  BY <1>3, <1>4

(***************************************************************************)
(* What took effect is never what a plan is made against again             *)
(***************************************************************************)
LEMMA LaterIsClosed ==
  ASSUME NEW o \in Ops, NEW f \in TargetSet(o)
  PROVE  /\ New[o][f] \in Later(o, f)
         /\ \A q \in Ops : f \in TargetSet(q) /\ Pre[q][f] \in Later(o, f) => New[q][f] \in Later(o, f)
<1> DEFINE Closed(X) ==
             /\ New[o][f] \in X
             /\ \A q \in Ops : f \in TargetSet(q) /\ Pre[q][f] \in X => New[q][f] \in X
<1>1. Later(o, f) = {c \in Contents : \A X \in SUBSET Contents : Closed(X) => c \in X}
  BY DEF Later
<1>2. \A q \in Ops : f \in TargetSet(q) => New[q][f] \in Contents
  BY PlanAssumption
<1>3. ASSUME NEW q \in Ops, f \in TargetSet(q), Pre[q][f] \in Later(o, f)
      PROVE  New[q][f] \in Later(o, f)
  <2>1. ASSUME NEW X \in SUBSET Contents, Closed(X) PROVE New[q][f] \in X
    BY <1>1, <1>3, <2>1
  <2> HIDE DEF Closed
  <2> QED
    BY <1>1, <1>2, <1>3, <2>1
<1> QED
  BY <1>1, <1>2, <1>3

\* What a step shows of the targets of an operation that took effect.
LEMMA LaterKept ==
  ASSUME Visible \in [Files -> Contents], Step, NEW o \in InEffect', NEW f \in TargetSet(o),
         o \in InEffect => Visible[f] \in Later(o, f)
  PROVE  Visible'[f] \in Later(o, f)
<1>0. o \in Ops /\ f \in Files
  BY TargetsAreFiles DEF InEffect
<1>1. CASE UNCHANGED <<Visible, InEffect>>
  BY <1>1
<1>2. ASSUME NEW q \in Ops, VisibleAtomic!Commit(q) PROVE Visible'[f] \in Later(o, f)
  <2>1. /\ \A g \in DOMAIN Pre[q] : Visible[g] = Pre[q][g]
        /\ InEffect' = InEffect \cup {q}
        /\ Visible' = [g \in Files |-> IF g \in DOMAIN New[q] THEN New[q][g] ELSE Visible[g]]
    BY <1>2 DEF VisibleAtomic!Commit, VisibleAtomic!InputsMatch, VisibleAtomic!With
  <2>2. DOMAIN New[q] = TargetSet(q) /\ TargetSet(q) \subseteq DOMAIN Pre[q]
    BY PlanAssumption
  <2>3. CASE o = q
    BY <1>0, <2>1, <2>2, <2>3, LaterIsClosed
  <2>4. CASE o # q
    <3>1. Visible[f] \in Later(o, f)
      BY <2>1, <2>4
    <3>2. CASE f \in TargetSet(q)
      BY <1>0, <2>1, <2>2, <3>1, <3>2, LaterIsClosed
    <3>3. CASE f \notin TargetSet(q)
      BY <1>0, <2>1, <2>2, <3>1, <3>3
    <3> QED
      BY <3>2, <3>3
  <2> QED
    BY <2>3, <2>4
<1> QED
  BY <1>1, <1>2 DEF Step

LEMMA NeverBackKept ==
  ASSUME NeverBack, Visible \in [Files -> Contents], Step, NEW p \in Procs,
         \A q \in Procs : q # p => work'[q] = work[q],
         StaysEarly(p) \/ (work'[p].op \notin InEffect /\ UNCHANGED InEffect)
  PROVE  NeverBack'
<1> SUFFICES ASSUME NEW q \in Procs, work'[q].at \in Early, work'[q].op \in InEffect',
                    NEW f \in TargetSet(work'[q].op)
             PROVE  Visible'[f] \in Later(work'[q].op, f)
  BY DEF NeverBack, Early
<1>1. work[q].at \in Early /\ work'[q].op = work[q].op
  BY DEF StaysEarly
<1>2. work[q].op \in InEffect => Visible[f] \in Later(work'[q].op, f)
  BY <1>1 DEF NeverBack
<1> QED
  BY <1>1, <1>2, LaterKept

\* An operation that finds its inputs as planned under its lock has not taken
\* effect.
LEMMA NotInEffect ==
  ASSUME DStore, NeverBack, NEW p \in Procs, NEW o \in Ops, work[p].at \in Early, o = work[p].op,
         lock = o, ~Hidden(o), InputsAsPlanned(o)
  PROVE  Settled(o)
<1>1. \A f \in Files : Visible[f] = file[f]
  BY Seen DEF DStore, SeenFiles, Behind
<1>2. o \notin InEffect
  <2> SUFFICES ASSUME o \in InEffect PROVE FALSE
    OBVIOUS
  <2>1. PICK f \in TargetSet(o) : Pre[o][f] \notin Later(o, f)
    BY NoReturnAssumption
  <2>2. f \in Files /\ f \in DOMAIN Pre[o]
    BY TargetsAreFiles, PlanAssumption
  <2> QED
    BY <1>1, <2>1, <2>2 DEF NeverBack, InputsAsPlanned
<1>3. journal[o].state \in States
  BY DEF DStore, Journal
<1> QED
  BY <1>2, <1>3 DEF InEffect, Hidden, Settled, States, Pending

(***************************************************************************)
(* One process moves                                                       *)
(***************************************************************************)
\* A process keeps its part while nothing it speaks of changes.
LEMMA PartKept ==
  ASSUME UNCHANGED <<file, lock, journal, legacy, published>>, NEW q \in Procs,
         work'[q] = work[q], PartOK(q)
  PROVE  PartOK(q)'
<1>1. /\ AtStart(q) => AtStart(q)'
      /\ Stopping(q) => Stopping(q)'
      /\ Releasing(q) => Releasing(q)'
  BY DEF AtStart, Stopping, Releasing, Hidden, InputsAsPlanned, OutputsAsPlanned, RestAsPlanned,
         Recorded, Settled, AsCaptured
<1>2. Recorded(q) => Recorded(q)'
  BY DEF Recorded, Hidden
<1>3. Forward(q) => Forward(q)'
  BY DEF Forward
<1>4. Ahead(q) => Ahead(q)'
  BY <1>2, <1>3 DEF Ahead, RestAsPlanned, Settled
<1>5. Committing(q) => Committing(q)'
  BY <1>2, <1>3 DEF Committing, RestAsPlanned
<1>6. Bare(q) => Bare(q)'
  BY DEF Bare, Hidden
<1>7. Failing(q) => Failing(q)'
  BY <1>2, <1>3, <1>6 DEF Failing, Settled
<1>8. Restoring(q) => Restoring(q)'
  BY <1>2 DEF Restoring, Backward
<1>9. Restored(q) => Restored(q)'
  BY <1>6 DEF Restored, Settled, AsCaptured
<1> QED
  BY <1>1, <1>2, <1>4, <1>5, <1>7, <1>8, <1>9 DEF PartOK

\* A process that is not at work speaks of nothing that changes.
LEMMA InactiveKept ==
  ASSUME legacy' = legacy, NEW q \in Procs, work'[q] = work[q], ~Active(work[q]), PartOK(q)
  PROVE  PartOK(q)'
  BY DEF PartOK, Active, Looking

LEMMA WorkIs ==
  ASSUME work \in [Procs -> Works], NEW p \in Procs, NEW w \in Works,
         work' = [work EXCEPT ![p] = w]
  PROVE  /\ work' \in [Procs -> Works] /\ work'[p] = w
         /\ \A q \in Procs : q # p => work'[q] = work[q]
  OBVIOUS

\* A process that is alone at work may change whatever its own part allows.
LEMMA Takes ==
  ASSUME DInv, NEW p \in Procs, NEW w \in Works, Alone(p), work' = [work EXCEPT ![p] = w],
         StaysEarly(p), legacy' = legacy, DStore', PartOK(p)', Step
  PROVE  DInv'
<1>1. /\ work' \in [Procs -> Works] /\ work'[p] = w
      /\ \A q \in Procs : q # p => work'[q] = work[q]
  BY WorkIs DEF DInv
<1>2. \A q \in Procs : PartOK(q)'
  BY <1>1, InactiveKept DEF DInv, Alone
<1>3. Exclusive'
  BY <1>1 DEF Exclusive, Alone
<1>4. NeverBack'
  BY <1>1, NeverBackKept, VisibleContents DEF DInv
<1> QED
  BY <1>1, <1>2, <1>3, <1>4 DEF DInv

\* A process goes elsewhere and touches nothing.
LEMMA Wanders ==
  ASSUME DInv, NEW p \in Procs, NEW w \in Works, Alone(p) \/ ~Active(w),
         work[p].at # "IDLE" \/ Tidy', StaysEarly(p) \/ work'[p].op \notin InEffect,
         UNCHANGED <<file, lock, journal, legacy, published>>, faults' \in 0..MaxFaults,
         work' = [work EXCEPT ![p] = w], PartOK(p)'
  PROVE  DInv' /\ Step
<1>1. /\ work' \in [Procs -> Works] /\ work'[p] = w
      /\ \A q \in Procs : q # p => work'[q] = work[q]
  BY WorkIs DEF DInv
<1>2. \A q \in Procs : PartOK(q)'
  BY <1>1, PartKept DEF DInv
<1>3. Exclusive'
  BY <1>1 DEF DInv, Exclusive, Alone
<1>4. HiddenIsLocked' /\ Spoilt'
  BY DEF DInv, DStore, HiddenIsLocked, Spoilt, Hidden, Known
<1>5. Tidy'
  BY <1>1 DEF DInv, DStore, Tidy, Hidden, Known
<1>6. DStore'
  BY <1>4, <1>5 DEF DInv, DStore
<1>7. Step /\ UNCHANGED InEffect
  BY SameSeen DEF Step
<1>8. NeverBack'
  BY <1>1, <1>7, NeverBackKept, VisibleContents DEF DInv
<1> QED
  BY <1>1, <1>2, <1>3, <1>6, <1>7, <1>8 DEF DInv

(***************************************************************************)
(* Journals and files behind the lock                                      *)
(***************************************************************************)
AllKnown(o) == \A f \in TargetSet(o) : Known(f, o, journal[o].orig)

\* Behind a lock the preimages are visible; without, the files.
LEMMA HiddenSeen ==
  ASSUME HiddenIsLocked, NEW o \in Ops, lock = o, Hidden(o), AllKnown(o)
  PROVE  \A f \in Files : Visible[f] = IF f \in TargetSet(o) THEN journal[o].orig[f] ELSE file[f]
  BY Seen DEF SeenFiles, Behind, AllKnown

LEMMA HiddenSeenNext ==
  ASSUME HiddenIsLocked', NEW o \in Ops, lock' = o, Hidden(o)', AllKnown(o)'
  PROVE  \A f \in Files : Visible'[f] = IF f \in TargetSet(o) THEN journal'[o].orig[f] ELSE file'[f]
  BY SeenNext DEF SeenFiles, Behind, AllKnown

LEMMA OpenSeen ==
  ASSUME HiddenIsLocked, \A o \in Ops : ~Hidden(o)
  PROVE  \A f \in Files : Visible[f] = file[f]
  BY Seen DEF SeenFiles, Behind

LEMMA OpenSeenNext ==
  ASSUME HiddenIsLocked', \A o \in Ops : ~Hidden(o)'
  PROVE  \A f \in Files : Visible'[f] = file'[f]
  BY SeenNext DEF SeenFiles, Behind

\* What a process that has captured its targets shows: their preimages.
Captured(p) ==
  LET o == work[p].op IN
  /\ work[p].at # "IDLE" /\ o \in Ops /\ lock = o /\ Exact(o, work[p].orig)
  /\ Recorded(p) \/ (Settled(o) /\ AsCaptured(p))
LEMMA CapturedShows ==
  ASSUME DInv, NEW p \in Procs, Captured(p)
  PROVE  LET o == work[p].op IN
         /\ \A f \in Files : Visible[f] = IF f \in TargetSet(o) THEN work[p].orig[f] ELSE file[f]
         /\ \A f \in TargetSet(o) : Known(f, o, work[p].orig)
         /\ o \notin InEffect /\ o \notin published
<1> DEFINE o == work[p].op
<1>1. CASE Recorded(p)
  <2>1. AllKnown(o) /\ HiddenIsLocked /\ Hidden(o) /\ journal[o].orig = work[p].orig
    BY <1>1 DEF Captured, DInv, DStore, Tidy, AllKnown, Recorded
  <2>2. o \notin published
    BY <2>1 DEF DInv, DStore, Hidden, Pending
  <2> QED
    BY <2>1, <2>2, HiddenSeen DEF Captured, AllKnown, InEffect
<1>2. CASE Settled(o) /\ AsCaptured(p)
  <2>1. ~Hidden(o) /\ o \notin InEffect /\ o \notin published
    BY <1>2 DEF Settled, Hidden, InEffect, Pending, DInv, DStore
  <2>2. \A x \in Ops : ~Hidden(x)
    BY <2>1 DEF Captured, DInv, DStore, HiddenIsLocked
  <2>3. \A f \in Files : Visible[f] = file[f]
    BY <2>2, OpenSeen DEF DInv, DStore
  <2> QED
    BY <1>2, <2>1, <2>3 DEF AsCaptured, Known
<1> QED
  BY <1>1, <1>2 DEF Captured

LEMMA WriteIs ==
  ASSUME DInv, NEW p \in Procs, NEW state \in States, work[p].op \in Ops, Write(p, state)
  PROVE  /\ journal' \in [Ops -> Journal]
         /\ journal'[work[p].op] = [state |-> state, orig |-> work[p].orig]
         /\ journal'[work[p].op].state = state /\ journal'[work[p].op].orig = work[p].orig
         /\ \A o \in Ops : o # work[p].op => journal'[o] = journal[o]
<1>1. [state |-> state, orig |-> work[p].orig] \in Journal
  BY DEF DInv, Works, Journal
<1>2. journal \in [Ops -> Journal]
  BY DEF DInv, DStore
<1> QED
  BY <1>1, <1>2 DEF Write

\* Other operations stay as they are, and are not hidden.
LEMMA OthersOpen ==
  ASSUME DInv, NEW p \in Procs, NEW state \in States, Captured(p), Write(p, state),
         UNCHANGED <<legacy, published>>
  PROVE  \A o \in Ops : o # work[p].op => ~Hidden(o) /\ ~Hidden(o)' /\ (o \in InEffect' <=> o \in InEffect)
<1> SUFFICES ASSUME NEW o \in Ops, o # work[p].op
             PROVE  ~Hidden(o) /\ ~Hidden(o)' /\ (o \in InEffect' <=> o \in InEffect)
  OBVIOUS
<1>1. ~Hidden(o)
  BY DEF Captured, DInv, DStore, HiddenIsLocked
<1>2. journal'[o] = journal[o]
  BY WriteIs DEF Captured
<1>3. ~Hidden(o)'
  BY <1>1, <1>2 DEF Hidden
<1> QED
  BY <1>1, <1>2, <1>3 DEF InEffect

\* The store stays in order when a journal is written over captured targets.
LEMMA WriteKeeps ==
  ASSUME DInv, NEW p \in Procs, NEW state \in States, Captured(p), Write(p, state),
         UNCHANGED <<file, lock, faults, legacy, published>>
  PROVE  DStore'
<1>0. PICK o \in Ops : o = work[p].op
  BY DEF Captured
<1>1. /\ journal' \in [Ops -> Journal] /\ journal'[o].orig = work[p].orig
      /\ \A x \in Ops : x # o => journal'[x] = journal[x]
  BY <1>0, WriteIs DEF Captured
<1>2. \A x \in Ops : x # o => ~Hidden(x)'
  BY <1>0, OthersOpen
<1>3. (\A f \in TargetSet(o) : Known(f, o, journal[o].orig))'
  BY <1>0, <1>1, CapturedShows DEF Known
<1>4. HiddenIsLocked'
  BY <1>0, <1>2 DEF HiddenIsLocked, Captured
<1>5. Tidy' /\ Spoilt'
  BY <1>2, <1>3 DEF Tidy, Spoilt
<1>6. \A x \in Ops : journal'[x].state # "NONE" => Exact(x, journal'[x].orig)
  BY <1>0, <1>1 DEF Captured, DInv, DStore
<1>7. \A x \in published : journal'[x].state = "COMMITTED"
  BY <1>0, <1>1, CapturedShows DEF DInv, DStore
<1> QED
  BY <1>1, <1>4, <1>5, <1>6, <1>7 DEF DInv, DStore

\* A journal that stays pending, or says that all is as it was, shows nothing.
LEMMA WriteHides ==
  ASSUME DInv, NEW p \in Procs, NEW state \in States, Captured(p), Write(p, state),
         UNCHANGED <<file, lock, faults, legacy, published>>,
         \/ state \in Pending
         \/ state = "COMMITTED" /\ work[p].op \in legacy
         \/ state = "ROLLED_BACK" /\ AsCaptured(p)
  PROVE  DStore' /\ Step
<1>0. PICK o \in Ops : o = work[p].op
  BY DEF Captured
<1>1. DStore'
  BY WriteKeeps
<1>2. /\ journal'[o].orig = work[p].orig /\ journal'[o].state = state
      /\ lock' = o
      /\ \A x \in Ops : x # o => ~Hidden(x)' /\ (x \in InEffect' <=> x \in InEffect)
  BY <1>0, WriteIs, OthersOpen DEF Captured
<1>3. /\ \A f \in Files : Visible[f] = IF f \in TargetSet(o) THEN work[p].orig[f] ELSE file[f]
      /\ \A f \in TargetSet(o) : Known(f, o, work[p].orig)
      /\ o \notin InEffect /\ o \notin published
  BY <1>0, CapturedShows
<1>4. SUFFICES o \notin InEffect' /\ \A f \in Files : Visible'[f] = Visible[f]
  <2>1. InEffect' = InEffect <=> (o \notin InEffect' /\ \A x \in Ops : x # o => (x \in InEffect' <=> x \in InEffect))
    BY <1>3 DEF InEffect
  <2> QED
    BY <1>1, <1>2, <2>1, Pointwise DEF Step
<1>5. CASE state \in Pending \/ (state = "COMMITTED" /\ o \in legacy)
  <2>1. Hidden(o)' /\ o \notin InEffect'
    BY <1>2, <1>3, <1>5 DEF Hidden, InEffect
  <2>2. AllKnown(o)'
    BY <1>2, <1>3 DEF AllKnown, Known
  <2>3. \A f \in Files : Visible'[f] = IF f \in TargetSet(o) THEN journal'[o].orig[f] ELSE file'[f]
    BY <1>1, <1>2, <2>1, <2>2, HiddenSeenNext DEF DStore
  <2> QED
    BY <1>2, <1>3, <2>1, <2>3
<1>6. CASE state = "ROLLED_BACK" /\ AsCaptured(p)
  <2>1. ~Hidden(o)' /\ o \notin InEffect'
    BY <1>2, <1>6 DEF Hidden, InEffect, Pending
  <2>2. \A f \in Files : Visible'[f] = file'[f]
    BY <1>1, <1>2, <2>1, OpenSeenNext DEF DStore
  <2> QED
    BY <1>0, <1>2, <1>3, <1>6, <2>1, <2>2 DEF AsCaptured
<1> QED
  BY <1>0, <1>5, <1>6

\* What an operation wrote becomes visible all at once: it takes effect.
LEMMA TakesEffect ==
  ASSUME DStore, DStore', NEW o \in Ops, lock = o, Hidden(o), AllKnown(o), file' = file,
         OutputsAsPlanned(o), RestAsPlanned(o), journal[o].state # "NONE",
         journal'[o].state = "COMMITTED", \A x \in Ops : x # o => journal'[x] = journal[x],
         \A x \in Ops : ~Hidden(x)', legacy' = legacy, published' \subseteq published \cup {o}
  PROVE  VisibleAtomic!Commit(o)
<1>1. \A f \in Files : Visible[f] = IF f \in TargetSet(o) THEN Pre[o][f] ELSE file[f]
  <2>1. \A f \in TargetSet(o) : journal[o].orig[f] = Pre[o][f]
    BY DEF DStore, Exact
  <2> QED
    BY <2>1, HiddenSeen DEF DStore
<1>2. \A f \in Files : Visible'[f] = file[f]
  BY OpenSeenNext DEF DStore
<1>3. /\ DOMAIN New[o] = TargetSet(o) /\ TargetSet(o) \subseteq Files
      /\ TargetSet(o) \subseteq DOMAIN Pre[o] /\ DOMAIN Pre[o] \subseteq Files
  BY PlanAssumption, TargetsAreFiles
<1>4. VisibleAtomic!InputsMatch(o, Visible)
  BY <1>1, <1>3 DEF VisibleAtomic!InputsMatch, RestAsPlanned
<1>5. Visible' = VisibleAtomic!With(Visible, New[o])
  <2>1. VisibleAtomic!With(Visible, New[o]) =
          [f \in Files |-> IF f \in TargetSet(o) THEN New[o][f] ELSE Visible[f]]
    BY <1>3, VisibleContents DEF VisibleAtomic!With
  <2>2. \A f \in Files : Visible'[f] = IF f \in TargetSet(o) THEN New[o][f] ELSE Visible[f]
    BY <1>1, <1>2 DEF OutputsAsPlanned
  <2> QED
    BY <2>1, <2>2, Pointwise
<1>6. o \notin InEffect /\ InEffect' = InEffect \cup {o}
  <2>1. \A x \in Ops : x # o => ~Hidden(x)
    BY DEF DStore, HiddenIsLocked
  <2>2. \A x \in Ops : x \in InEffect <=> journal[x].state = "COMMITTED" /\ x # o
    BY <2>1 DEF InEffect
  <2>3. \A x \in Ops : x \in InEffect' <=> journal'[x].state = "COMMITTED"
    BY DEF InEffect
  <2>4. InEffect \subseteq Ops /\ InEffect' \subseteq Ops
    BY DEF InEffect
  <2> QED
    BY <2>2, <2>3, <2>4
<1> QED
  BY <1>4, <1>5, <1>6 DEF VisibleAtomic!Commit

\* A file that is written behind the journal of its operation is not seen.
Behindhand(p) == /\ work[p].at # "IDLE" /\ work[p].op \in Ops /\ lock = work[p].op
                 /\ Exact(work[p].op, work[p].orig) /\ Recorded(p)
LEMMA FileHides ==
  ASSUME DInv, NEW p \in Procs, Behindhand(p), NEW f \in TargetSet(work[p].op),
         NEW c \in {work[p].orig[f], New[work[p].op][f]},
         file' = [file EXCEPT ![f] = c],
         UNCHANGED <<lock, journal, legacy, published>>, faults' \in 0..MaxFaults
  PROVE  DStore' /\ Step
<1>0. PICK o \in Ops : o = work[p].op
  BY DEF Behindhand
<1>1. /\ lock = o /\ Hidden(o) /\ AllKnown(o) /\ journal[o].orig = work[p].orig
      /\ c \in {journal[o].orig[f], New[o][f]} /\ f \in TargetSet(o) /\ f \in Files
  BY <1>0, TargetsAreFiles DEF Behindhand, Recorded, DInv, DStore, Tidy, AllKnown
<1>2. \A x : Hidden(x)' <=> Hidden(x)
  BY DEF Hidden
<1>3. c \in Contents
  BY <1>0, <1>1, PlanAssumption DEF Behindhand, Exact
<1>4. file \in [Files -> Contents]
  BY DEF DInv, DStore
<1>5. /\ file' \in [Files -> Contents] /\ file'[f] = c
      /\ \A g \in Files : g # f => file'[g] = file[g]
  BY <1>1, <1>3, <1>4
<1>6. AllKnown(o)'
  BY <1>1, <1>5, TargetsAreFiles DEF AllKnown, Known
<1>7. \A x \in Ops : Hidden(x) => x = o
  BY <1>1 DEF DInv, DStore, HiddenIsLocked
<1>8. HiddenIsLocked' /\ Tidy' /\ Spoilt'
  BY <1>1, <1>2, <1>6, <1>7 DEF HiddenIsLocked, Tidy, Spoilt, AllKnown
<1>9. DStore'
  BY <1>5, <1>8 DEF DInv, DStore
<1>10. \A g \in Files : Visible'[g] = Visible[g]
  <2>1. \A g \in Files : Visible[g] = IF g \in TargetSet(o) THEN journal[o].orig[g] ELSE file[g]
    BY <1>1, HiddenSeen DEF DInv, DStore
  <2>2. \A g \in Files : Visible'[g] = IF g \in TargetSet(o) THEN journal'[o].orig[g] ELSE file'[g]
    BY <1>1, <1>2, <1>6, <1>9, HiddenSeenNext DEF DStore
  <2> QED
    BY <1>1, <1>5, <2>1, <2>2
<1>11. InEffect' = InEffect
  BY <1>2 DEF InEffect
<1> QED
  BY <1>9, <1>10, <1>11, Pointwise DEF Step

\* With the lock free or torn nothing is hidden.
LEMMA OpenLock ==
  ASSUME DInv, lock \in {"FREE", "TORN"}
  PROVE  \A o \in Ops : ~Hidden(o)
  BY PlanAssumption DEF DInv, DStore, HiddenIsLocked

\* The lock changes while nothing is hidden.
LEMMA LockTakes ==
  ASSUME DInv, NEW p \in Procs, NEW w \in Works, Alone(p), \A o \in Ops : ~Hidden(o),
         UNCHANGED <<file, journal, faults, legacy, published>>, lock' \in {"FREE", "TORN"} \cup Ops,
         work' = [work EXCEPT ![p] = w], StaysEarly(p), PartOK(p)'
  PROVE  DInv' /\ Step
<1>1. \A o \in Ops : ~Hidden(o)'
  BY DEF Hidden
<1>2. DStore'
  BY <1>1 DEF DInv, DStore, HiddenIsLocked, Tidy, Spoilt
<1>3. Step
  BY SameSeen DEF Step
<1> QED
  BY <1>2, <1>3, Takes

(***************************************************************************)
(* A process goes elsewhere                                                *)
(***************************************************************************)
LEMMA Where ==
  ASSUME DInv, NEW p \in Procs, NEW place \in Phases \ {"IDLE"}, Go(p, place)
  PROVE  /\ work' = [work EXCEPT ![p] = [work[p] EXCEPT !.at = place]]
         /\ [work[p] EXCEPT !.at = place] \in Works
         /\ work'[p] = [work[p] EXCEPT !.at = place] /\ work'[p] \in Works
         /\ work'[p].at = place /\ work'[p].op = work[p].op /\ work'[p].i = work[p].i
         /\ work'[p].orig = work[p].orig /\ work'[p].seen = work[p].seen
<1>1. work \in [Procs -> Works] /\ work[p] \in Works
  BY DEF DInv
<1> DEFINE w == [work[p] EXCEPT !.at = place]
<1>2. w \in Works /\ w.at = place /\ w.op = work[p].op /\ w.orig = work[p].orig /\ w.seen = work[p].seen
  BY <1>1, Elsewhere
<1>3. w.i = work[p].i
  BY <1>1 DEF Works
<1>4. work' = [work EXCEPT ![p] = w]
  BY DEF Go
<1>5. work'[p] = w
  BY <1>1, <1>4
<1> HIDE DEF w
<1>6. work' = [work EXCEPT ![p] = w] /\ w \in Works /\ work'[p] = w /\ work'[p] \in Works
      /\ work'[p].at = place /\ work'[p].op = work[p].op /\ work'[p].i = work[p].i
      /\ work'[p].orig = work[p].orig /\ work'[p].seen = work[p].seen
  BY <1>2, <1>3, <1>4, <1>5
<1> QED
  BY <1>6 DEF w

\* What is said of a process's targets, while it only changes its place.
LEMMA SaidKept ==
  ASSUME NEW p \in Procs, UNCHANGED <<file, journal, legacy, published>>,
         work'[p].op = work[p].op, work'[p].i = work[p].i, work'[p].orig = work[p].orig
  PROVE  /\ \A o : /\ Hidden(o)' <=> Hidden(o)
                   /\ Settled(o)' <=> Settled(o)
                   /\ RestAsPlanned(o)' <=> RestAsPlanned(o)
                   /\ InputsAsPlanned(o)' <=> InputsAsPlanned(o)
                   /\ OutputsAsPlanned(o)' <=> OutputsAsPlanned(o)
         /\ Forward(p) => Forward(p)'
         /\ AsCaptured(p) => AsCaptured(p)'
         /\ Recorded(p) => Recorded(p)'
         /\ Bare(p) => Bare(p)'
<1>1. \A o : Hidden(o)' <=> Hidden(o)
  BY DEF Hidden
<1>2. \A o : /\ Settled(o)' <=> Settled(o)
             /\ RestAsPlanned(o)' <=> RestAsPlanned(o)
             /\ InputsAsPlanned(o)' <=> InputsAsPlanned(o)
             /\ OutputsAsPlanned(o)' <=> OutputsAsPlanned(o)
  BY DEF Settled, RestAsPlanned, InputsAsPlanned, OutputsAsPlanned
<1>3. (Forward(p) => Forward(p)') /\ (AsCaptured(p) => AsCaptured(p)')
  BY DEF Forward, AsCaptured
<1>4. (Recorded(p) => Recorded(p)') /\ (Bare(p) => Bare(p)')
  BY <1>1 DEF Recorded, Bare
<1> QED
  BY <1>1, <1>2, <1>3, <1>4

\* Where p may go without touching anything.
Fits(p, place) == LET w == work[p] IN
  \/ /\ place = "CLEAR" /\ InputsAsPlanned(w.op) /\ w.op \notin legacy /\ w.i = 0 /\ ~Hidden(w.op)
     /\ w.at \in Early
  \/ place = "UNLOCKING" /\ Releasing(p)
  \/ place = "FAILED" /\ Failing(p)
  \/ /\ place = "VALIDATED" /\ Exact(w.op, w.orig) /\ Forward(p) /\ RestAsPlanned(w.op)
     /\ w.i = Len(Targets[w.op]) /\ Recorded(p)
  \/ place \in {"GIVING_UP", "STOPPING"} /\ Stopping(p)
  \/ place = "CONFIRMED" /\ Recorded(p) /\ Exact(w.op, w.orig)
  \/ place = "RESTORED" /\ Bare(p)

LEMMA Goes ==
  ASSUME DInv, NEW p \in Procs, NEW place, work[p].at # "IDLE", Go(p, place),
         UNCHANGED <<file, lock, journal, legacy, published>>, faults' \in 0..MaxFaults,
         Alone(p), lock = work[p].op, Fits(p, place)
  PROVE  DInv' /\ Step
<1>1. place \in Phases \ {"IDLE"} /\ work[p].op \in Ops
  BY DEF Fits, Phases, DInv, PartOK
<1>2. /\ work' = [work EXCEPT ![p] = [work[p] EXCEPT !.at = place]]
      /\ [work[p] EXCEPT !.at = place] \in Works /\ work'[p] \in Works
      /\ work'[p].at = place /\ work'[p].op = work[p].op /\ work'[p].i = work[p].i
      /\ work'[p].orig = work[p].orig /\ work'[p].seen = work[p].seen
  BY <1>1, Where
<1>3. /\ \A o : /\ Hidden(o)' <=> Hidden(o)
                /\ Settled(o)' <=> Settled(o)
                /\ RestAsPlanned(o)' <=> RestAsPlanned(o)
                /\ InputsAsPlanned(o)' <=> InputsAsPlanned(o)
                /\ OutputsAsPlanned(o)' <=> OutputsAsPlanned(o)
      /\ Forward(p) => Forward(p)'
      /\ AsCaptured(p) => AsCaptured(p)'
      /\ Recorded(p) => Recorded(p)'
      /\ Bare(p) => Bare(p)'
  BY <1>2, SaidKept
<1>4. /\ work'[p] \in Works /\ work'[p].op \in Ops /\ lock' = work'[p].op
      /\ work'[p].at = place
  BY <1>1, <1>2
<1>5. /\ work'[p].at = "CLEAR" => AtStart(p)'
      /\ work'[p].at = "UNLOCKING" => Releasing(p)'
      /\ work'[p].at = "VALIDATED" => Ahead(p)'
      /\ work'[p].at \in {"GIVING_UP", "STOPPING"} => Stopping(p)'
      /\ work'[p].at = "CONFIRMED" => Recorded(p)' /\ Exact(work'[p].op, work'[p].orig)
  BY <1>2, <1>3 DEF Fits, AtStart, Releasing, Ahead, Stopping
<1>6. work'[p].at = "FAILED" => Failing(p)'
  BY <1>2, <1>3 DEF Fits, Failing
<1>7. work'[p].at = "RESTORED" => Restored(p)'
  BY <1>2, <1>3 DEF Fits, Restored
<1>8. work'[p].at \in {"CLEAR", "UNLOCKING", "FAILED", "VALIDATED", "GIVING_UP", "STOPPING",
                       "CONFIRMED", "RESTORED"}
  BY <1>4 DEF Fits
<1>9. PartOK(p)'
  BY <1>4, <1>5, <1>6, <1>7, <1>8 DEF PartOK
<1>10. StaysEarly(p)
  BY <1>2, <1>8 DEF StaysEarly, Early, Fits
<1> QED
  BY <1>2, <1>9, <1>10, Wanders

\* A process that is done, that gives up or that is killed claims nothing.
LEMMA Ends ==
  ASSUME DInv, NEW p \in Procs, work[p].at # "IDLE", Go(p, "IDLE"),
         UNCHANGED <<file, lock, journal, legacy, published>>, faults' \in 0..MaxFaults
  PROVE  DInv' /\ Step
<1>1. Idle \in Works /\ ~Active(Idle)
  BY IdleIsGood
<1>2. work' = [work EXCEPT ![p] = Idle] /\ work'[p] = Idle
  BY DEF Go, DInv
<1>3. PartOK(p)'
  BY <1>1, <1>2 DEF PartOK, Idle, Active
<1>4. StaysEarly(p)
  BY <1>2 DEF StaysEarly, Early, Idle
<1> QED
  BY <1>1, <1>2, <1>3, <1>4, Wanders

\* What a process at work may rely on.
LEMMA PartIs ==
  ASSUME DInv, NEW p \in Procs
  PROVE  /\ PartOK(p) /\ work[p] \in Works
         /\ work[p].at # "IDLE" => work[p].op \in Ops
         /\ Active(work[p]) => Alone(p)
         /\ Active(work[p]) /\ work[p].at # "LOCKING" => lock = work[p].op
         /\ faults \in 0..MaxFaults
  BY DEF DInv, PartOK, Exclusive, DStore

LEMMA FailsKeeps ==
  ASSUME DInv, NEW p \in Procs, NEW place, FailsTo(p, place)
  PROVE  faults' \in 0..MaxFaults /\ Go(p, place) /\ UNCHANGED <<file, lock, journal>>
  BY FaultsAssumption DEF FailsTo, Fails, DInv, DStore

\* The process fails, or just goes on, to one of those places or to its end.
LEMMA MovesOn ==
  ASSUME DInv, NEW p \in Procs, NEW place, Moves(p, place) \/ FailsTo(p, place),
         work[p].at # "IDLE", UNCHANGED <<legacy, published>>,
         \/ place = "IDLE"
         \/ Active(work[p]) /\ work[p].at # "LOCKING" /\ Fits(p, place)
  PROVE  DInv' /\ Step
<1>1. faults' \in 0..MaxFaults /\ Go(p, place) /\ UNCHANGED <<file, lock, journal>>
  BY FailsKeeps, PartIs DEF Moves
<1>2. CASE place = "IDLE"
  BY <1>1, <1>2, Ends
<1>3. CASE Active(work[p]) /\ work[p].at # "LOCKING" /\ Fits(p, place)
  BY <1>1, <1>3, Goes, PartIs
<1> QED
  BY <1>2, <1>3

LEMMA Releases ==
  ASSUME DInv, NEW p \in Procs, NEW failing, ReleasesLock(p, failing),
         Active(work[p]), work[p].at # "LOCKING", UNCHANGED <<legacy, published>>,
         Releasing(p), failing = "IDLE" \/ Fits(p, failing)
  PROVE  DInv' /\ Step
<1>1. OwnsLock(p) /\ work[p].at # "IDLE" /\ Fits(p, "UNLOCKING")
  BY PartIs DEF OwnsLock, Active, Fits
<1> QED
  BY <1>1, MovesOn DEF ReleasesLock

-----------------------------------------------------------------------------
(* Steps of both protocols. *)

\* Only the removal of a lock publishes anything.
LEMMA PublishesNothing ==
  ASSUME DInv, Publishes, lock' # "FREE" \/ lock \in {"FREE", "TORN"} \/ lock' = lock
  PROVE  UNCHANGED <<legacy, published>>
<1>1. \A o \in legacy : ~(lock = o /\ lock' = "FREE")
  BY PlanAssumption DEF DInv, DStore
<1> QED
  BY <1>1 DEF Publishes

\* Nothing is hidden while the lock is free: every check finds the files in order.
LEMMA ChecksStep ==
  ASSUME DInv, NEW p \in Procs, NEW o \in Ops, Check(p, o) \/ LegacyCheck(p, o),
         UNCHANGED <<legacy, published>>
  PROVE  DInv' /\ Step
<1> DEFINE w == [Idle EXCEPT !.at = "CHECKED", !.op = o]
<1>1. /\ lock = "FREE" /\ UNCHANGED <<file, lock, journal, faults>>
      /\ work' = [work EXCEPT ![p] = w]
  BY DEF Check, LegacyCheck
<1>2. w \in Works /\ ~Active(w) /\ w.at = "CHECKED" /\ w.op = o /\ w.i = 0 /\ w.orig = <<>>
  BY Shapes DEF Works, Idle, Phases, States, Active, Looking
<1>3. Tidy'
  BY <1>1, OpenLock DEF Tidy, Hidden
<1>4. work'[p] = w
  BY <1>1 DEF DInv
<1> HIDE DEF w
<1>5. PartOK(p)'
  BY <1>2, <1>4 DEF PartOK, Active
<1>6. work'[p].op \notin InEffect
  BY <1>2, <1>4 DEF Check, LegacyCheck, InEffect
<1> QED
  BY <1>1, <1>2, <1>3, <1>5, <1>6, Wanders, PartIs

LEMMA CreateLockStep ==
  ASSUME DInv, NEW p \in Procs, CreateLock(p), UNCHANGED <<legacy, published>>
  PROVE  DInv' /\ Step
<1>0. /\ work[p].at = "CHECKED" /\ UNCHANGED <<file, journal, faults>>
      /\ work[p].i = 0 /\ work[p].orig = <<>> /\ work[p].op \in Ops
      /\ faults' \in 0..MaxFaults
  BY PartIs DEF CreateLock, At, PartOK
<1>1. CASE lock = "FREE" /\ lock' = "TORN" /\ Go(p, "LOCKING")
  <2>1. /\ work' = [work EXCEPT ![p] = [work[p] EXCEPT !.at = "LOCKING"]]
        /\ [work[p] EXCEPT !.at = "LOCKING"] \in Works /\ work'[p] \in Works
        /\ work'[p].at = "LOCKING" /\ work'[p].op = work[p].op /\ work'[p].i = work[p].i
        /\ work'[p].orig = work[p].orig
    BY <1>1, Where DEF Phases
  <2>2. Alone(p)
    BY <1>1, PlanAssumption DEF DInv, PartOK, Alone, Active, Looking
  <2>3. PartOK(p)'
    BY <1>0, <1>1, <2>1 DEF PartOK
  <2>4. StaysEarly(p)
    BY <1>0, <2>1 DEF StaysEarly, Early
  <2> QED
    BY <1>0, <1>1, <2>1, <2>2, <2>3, <2>4, LockTakes, OpenLock
<1>2. CASE UNCHANGED lock /\ Go(p, "IDLE")
  BY <1>0, <1>2, Ends
<1> QED
  BY <1>1, <1>2 DEF CreateLock

LEMMA WriteLockStep ==
  ASSUME DInv, NEW p \in Procs, WriteLock(p), UNCHANGED <<legacy, published>>
  PROVE  DInv' /\ Step
<1>0. /\ work[p].at = "LOCKING" /\ Active(work[p]) /\ lock = "TORN" /\ Alone(p)
      /\ work[p].i = 0 /\ work[p].orig = <<>> /\ work[p].op \in Ops
  BY PartIs DEF WriteLock, At, PartOK, Active, Looking
<1>1. CASE lock' = work[p].op /\ Go(p, "LOCKED") /\ UNCHANGED <<file, journal, faults>>
  <2>1. /\ work' = [work EXCEPT ![p] = [work[p] EXCEPT !.at = "LOCKED"]]
        /\ [work[p] EXCEPT !.at = "LOCKED"] \in Works /\ work'[p] \in Works
        /\ work'[p].at = "LOCKED" /\ work'[p].op = work[p].op /\ work'[p].i = work[p].i
        /\ work'[p].orig = work[p].orig
    BY <1>1, Where DEF Phases
  <2>2. \A o \in Ops : ~Hidden(o) /\ ~Hidden(o)'
    BY <1>0, <1>1, OpenLock DEF Hidden
  <2>3. AtStart(p)'
    BY <1>0, <2>1, <2>2 DEF AtStart
  <2>4. PartOK(p)'
    BY <1>0, <1>1, <2>1, <2>3 DEF PartOK
  <2>5. StaysEarly(p)
    BY <1>0, <2>1 DEF StaysEarly, Early
  <2> QED
    BY <1>0, <1>1, <2>1, <2>2, <2>4, <2>5, LockTakes
<1>2. CASE FailsTo(p, "IDLE")
  BY <1>0, <1>2, MovesOn
<1> QED
  BY <1>1, <1>2 DEF WriteLock

\* At the start nothing is written yet.
LEMMA NothingWritten ==
  ASSUME NEW p, NEW o \in Ops, work'[p].op = o, work'[p].i = 0,
         \A f \in TargetSet(o) : work'[p].orig[f] = file'[f]
  PROVE  Forward(p)'
<1>1. Targets[o] \in Seq(Files) /\ 0 <= Len(Targets[o])
  BY PlanAssumption
<1>2. \A k \in DOMAIN Targets[o] : ~(k <= 0) /\ Targets[o][k] \in TargetSet(o)
  BY <1>1 DEF TargetSet
<1> QED
  BY <1>1, <1>2 DEF Forward

\* The targets are captured, as they were planned: nothing took effect since.
LEMMA CapturesStep ==
  ASSUME DInv, NEW p \in Procs, work[p].at \in {"LOCKED", "CLEAR"}, AtStart(p),
         InputsAsPlanned(work[p].op), UNCHANGED <<file, lock, journal, faults, legacy, published>>,
         work' = [work EXCEPT ![p].at = "CAPTURED",
                              ![p].orig = [f \in TargetSet(work[p].op) |-> file[f]]]
  PROVE  DInv' /\ Step
<1>a. Active(work[p]) /\ work[p].at \in Early
  BY DEF Active, Looking, Early
<1>0. PICK o \in Ops : o = work[p].op
  BY PartIs
<1> DEFINE orig == [f \in TargetSet(o) |-> file[f]]
           w == [work[p] EXCEPT !.at = "CAPTURED", !.orig = orig]
<1>1. /\ work[p] \in Works /\ Alone(p) /\ lock = o /\ work[p].i = 0 /\ ~Hidden(o)
      /\ work[p].at # "IDLE" /\ InputsAsPlanned(o) /\ Len(Targets[o]) \in Nat
  BY <1>0, <1>a, PartIs, TargetsAreFiles DEF AtStart
<1>2. Settled(o)
  BY <1>0, <1>1, <1>a, NotInEffect DEF DInv
<1>3. Exact(o, orig)
  BY <1>1, TargetsAreFiles, PlanAssumption DEF Exact, InputsAsPlanned, DInv, DStore
<1>4. /\ work' = [work EXCEPT ![p] = w]
      /\ work'[p] = w
  BY <1>0 DEF DInv
<1>5. w \in Works /\ w.at = "CAPTURED" /\ w.op = o /\ w.orig = orig /\ w.i = 0
  <2>1. orig \in Preimages
    BY <1>3, Shapes DEF Exact
  <2> HIDE DEF orig
  <2> QED
    BY <1>0, <1>1, <2>1 DEF Works, Phases
<1> HIDE DEF w
<1>6. Forward(p)'
  <2>1. \A f \in TargetSet(o) : orig[f] = file[f]
    OBVIOUS
  <2> HIDE DEF orig
  <2> QED
    BY <1>4, <1>5, <2>1, NothingWritten
<1>7. (RestAsPlanned(o) /\ Settled(o))'
  BY <1>1, <1>2 DEF RestAsPlanned, InputsAsPlanned, Settled
<1>8. Ahead(p)'
  <2> HIDE DEF orig
  <2> QED
    BY <1>3, <1>4, <1>5, <1>6, <1>7 DEF Ahead
<1>9. PartOK(p)'
  BY <1>1, <1>4, <1>5, <1>8 DEF PartOK
<1>10. StaysEarly(p)
  BY <1>4, <1>5 DEF StaysEarly, Early
<1> QED
  BY <1>1, <1>4, <1>5, <1>9, <1>10, Wanders, PartIs

LEMMA RecheckStep ==
  ASSUME DInv, NEW p \in Procs, Recheck(p), ~IsLegacy(p), UNCHANGED <<legacy, published>>
  PROVE  DInv' /\ Step
<1>1. /\ Active(work[p]) /\ work[p].at = "LOCKED" /\ work[p].at # "LOCKING" /\ work[p].at # "IDLE"
      /\ AtStart(p) /\ Releasing(p) /\ work[p].op \notin legacy
  BY PartIs DEF Recheck, At, Active, Looking, PartOK, AtStart, Releasing, IsLegacy
<1>2. CASE InputsAsPlanned(work[p].op) /\ Moves(p, "CLEAR")
  BY <1>1, <1>2, MovesOn DEF Fits, AtStart, Early
<1>3. CASE ReleasesLock(p, "IDLE")
  BY <1>1, <1>3, Releases
<1>4. CASE FailsTo(p, "UNLOCKING")
  BY <1>1, <1>4, MovesOn DEF Fits
<1> QED
  BY <1>2, <1>3, <1>4 DEF Recheck

LEMMA CaptureStep ==
  ASSUME DInv, NEW p \in Procs, Capture(p), UNCHANGED <<legacy, published>>
  PROVE  DInv' /\ Step
<1>1. /\ Active(work[p]) /\ work[p].at = "CLEAR" /\ work[p].at # "LOCKING" /\ work[p].at # "IDLE"
      /\ AtStart(p) /\ InputsAsPlanned(work[p].op)
  BY PartIs DEF Capture, At, Active, Looking, PartOK, AtStart
<1>2. CASE FailsTo(p, "IDLE")
  BY <1>1, <1>2, MovesOn
<1> QED
  BY <1>1, <1>2, CapturesStep DEF Capture

LEMMA LegacyCaptureStep ==
  ASSUME DInv, NEW p \in Procs, LegacyCapture(p), IsLegacy(p), UNCHANGED <<legacy, published>>
  PROVE  DInv' /\ Step
<1>1. /\ Active(work[p]) /\ work[p].at = "LOCKED" /\ work[p].at # "LOCKING" /\ work[p].at # "IDLE"
      /\ AtStart(p)
  BY PartIs DEF LegacyCapture, At, Active, Looking, PartOK
<1>2. Fits(p, "FAILED")
  BY <1>1 DEF Fits, Failing, Bare, AtStart, IsLegacy
<1>3. CASE Moves(p, "FAILED") \/ FailsTo(p, "FAILED")
  BY <1>1, <1>2, <1>3, MovesOn
<1> QED
  BY <1>1, <1>3, CapturesStep DEF LegacyCapture

-----------------------------------------------------------------------------
(* The journal is written. *)

\* Where nothing is written yet, the targets are as they were captured.
LEMMA StillCaptured ==
  ASSUME NEW p \in Procs, work[p].op \in Ops,
         \/ Forward(p) /\ work[p].i = 0
         \/ Backward(p) /\ work[p].i = 0
  PROVE  AsCaptured(p)
<1> SUFFICES ASSUME NEW f \in TargetSet(work[p].op) PROVE file[f] = work[p].orig[f]
  BY DEF AsCaptured
<1>1. PICK k \in DOMAIN Targets[work[p].op] : f = Targets[work[p].op][k]
  BY DEF TargetSet
<1>2. Targets[work[p].op] \in Seq(Files)
  BY PlanAssumption
<1>3. k > 0 /\ ~(k <= 0)
  BY <1>1, <1>2
<1> QED
  BY <1>1, <1>3 DEF Forward, Backward

\* A process that goes forward has captured its targets, and may fail.
LEMMA AheadIs ==
  ASSUME DInv, NEW p \in Procs, work[p].at \in {"CAPTURED", "PREPARED", "REPLACING", "VALIDATED"}
  PROVE  /\ Active(work[p]) /\ work[p].at # "LOCKING" /\ work[p].at # "IDLE"
         /\ work[p] \in Works /\ work[p].op \in Ops
         /\ Ahead(p) /\ Captured(p) /\ Fits(p, "FAILED") /\ Alone(p)
<1>1. /\ Active(work[p]) /\ work[p].at # "LOCKING" /\ work[p].at # "IDLE"
      /\ work[p] \in Works /\ work[p].op \in Ops /\ lock = work[p].op /\ Alone(p)
  BY PartIs DEF Active, Looking
<1>2. Ahead(p)
  BY PartIs DEF PartOK
<1>3. work[p].at = "CAPTURED" => AsCaptured(p) /\ Settled(work[p].op) /\ work[p].i = 0
  BY <1>1, <1>2, StillCaptured DEF Ahead
<1>4. work[p].at # "CAPTURED" => Recorded(p)
  BY <1>2 DEF Ahead
<1>5. Exact(work[p].op, work[p].orig) /\ Forward(p)
  BY <1>2 DEF Ahead
<1>6. Captured(p)
  BY <1>1, <1>3, <1>4, <1>5 DEF Captured
<1>7. Fits(p, "FAILED")
  BY <1>3, <1>4, <1>5 DEF Fits, Failing
<1> QED
  BY <1>1, <1>2, <1>6, <1>7

\* Which journal p may write on its way to a place.
Into(p, state, place) == LET w == work[p] IN
  \/ /\ <<state, place>> \in {<<"PREPARED", "PREPARED">>, <<"IN_PROGRESS", "REPLACING">>}
     /\ w.i = 0 /\ Forward(p) /\ RestAsPlanned(w.op)
  \/ /\ <<state, place>> = <<"COMMITTED", "COMMITTED">> /\ w.op \in legacy
     /\ w.i = Len(Targets[w.op]) /\ Forward(p) /\ RestAsPlanned(w.op)
  \/ state = "ROLLED_BACK" /\ place \in {"RESTORED", "RECOVERED"} /\ AsCaptured(p)
  \/ state = "RECOVERY_REQUIRED" /\ place = "IDLE"

\* What is said of a process's journal and targets once it has written.
LEMMA Written ==
  ASSUME DInv, NEW p \in Procs, NEW state \in States, Captured(p), Write(p, state),
         UNCHANGED <<file, lock, legacy, published>>,
         work'[p].op = work[p].op, work'[p].orig = work[p].orig
  PROVE  LET o == work[p].op IN
         /\ journal'[o].state = state
         /\ state \in Pending \/ (state = "COMMITTED" /\ o \in legacy) => Recorded(p)'
         /\ state = "ROLLED_BACK" => Settled(o)'
         /\ RestAsPlanned(o) => RestAsPlanned(o)'
         /\ Forward(p) /\ work'[p].i = work[p].i => Forward(p)'
         /\ AsCaptured(p) => AsCaptured(p)'
<1>0. PICK o \in Ops : o = work[p].op
  BY DEF Captured
<1>1. journal'[o].state = state /\ journal'[o].orig = work[p].orig
  BY <1>0, WriteIs
<1>2. o \notin published
  BY <1>0, CapturedShows
<1>3. state \in Pending \/ (state = "COMMITTED" /\ o \in legacy) => Recorded(p)'
  BY <1>0, <1>1, <1>2 DEF Recorded, Hidden
<1>4. (state = "ROLLED_BACK" => Settled(o)') /\ (RestAsPlanned(o) => RestAsPlanned(o)')
  BY <1>1 DEF Settled, RestAsPlanned
<1>5. /\ Forward(p) /\ work'[p].i = work[p].i => Forward(p)'
      /\ AsCaptured(p) => AsCaptured(p)'
  BY DEF Forward, AsCaptured
<1> QED
  BY <1>0, <1>1, <1>3, <1>4, <1>5

LEMMA JournalsStep ==
  ASSUME DInv, NEW p \in Procs, NEW state, NEW place, NEW failing,
         Active(work[p]), work[p].at # "LOCKING", Captured(p), Into(p, state, place),
         Journals(p, state, place, failing), UNCHANGED <<legacy, published>>,
         failing = "IDLE" \/ Fits(p, failing)
  PROVE  DInv' /\ Step
<1>1. /\ state \in States /\ place \in Phases /\ Alone(p) /\ work[p].at # "IDLE"
      /\ work[p].op \in Ops /\ lock = work[p].op /\ Exact(work[p].op, work[p].orig)
  BY PartIs DEF Into, States, Pending, Phases, Active, Captured
<1>2. CASE FailsTo(p, failing)
  BY <1>1, <1>2, MovesOn
<1>3. CASE Write(p, state) /\ Go(p, place) /\ UNCHANGED <<file, lock, faults>>
  <2>1. DStore' /\ Step
    <3>1. \/ state \in Pending
          \/ state = "COMMITTED" /\ work[p].op \in legacy
          \/ state = "ROLLED_BACK" /\ AsCaptured(p)
      BY DEF Into, Pending
    <3> QED
      BY <1>1, <1>3, <3>1, WriteHides
  <2>2. CASE place = "IDLE"
    <3>1. Idle \in Works /\ work' = [work EXCEPT ![p] = Idle] /\ work'[p] = Idle
      BY <1>3, <2>2, IdleIsGood DEF Go, DInv
    <3>2. PartOK(p)'
      BY <3>1 DEF PartOK, Idle, Active
    <3>3. StaysEarly(p)
      BY <3>1 DEF StaysEarly, Early, Idle
    <3> QED
      BY <1>1, <1>3, <2>1, <3>1, <3>2, <3>3, Takes
  <2>3. CASE place # "IDLE"
    <3>1. /\ work' = [work EXCEPT ![p] = [work[p] EXCEPT !.at = place]]
          /\ [work[p] EXCEPT !.at = place] \in Works /\ work'[p] \in Works
          /\ work'[p].at = place /\ work'[p].op = work[p].op /\ work'[p].i = work[p].i
          /\ work'[p].orig = work[p].orig
      BY <1>1, <1>3, <2>3, Where
    <3>2. /\ journal'[work[p].op].state = state
          /\ state \in Pending \/ (state = "COMMITTED" /\ work[p].op \in legacy) => Recorded(p)'
          /\ state = "ROLLED_BACK" => Settled(work[p].op)'
          /\ RestAsPlanned(work[p].op) => RestAsPlanned(work[p].op)'
          /\ Forward(p) => Forward(p)'
          /\ AsCaptured(p) => AsCaptured(p)'
      BY <1>1, <1>3, <3>1, Written
    <3>a. StaysEarly(p)
      BY <2>3, <3>1 DEF StaysEarly, Early, Into
    <3>3. CASE place \in {"PREPARED", "REPLACING"}
      <4>1. Ahead(p)'
        BY <1>1, <3>1, <3>2, <3>3 DEF Ahead, Into, Pending
      <4>2. PartOK(p)'
        BY <1>1, <1>3, <3>1, <3>3, <4>1 DEF PartOK
      <4> QED
        BY <1>1, <1>3, <2>1, <3>1, <3>a, <4>2, Takes
    <3>4. CASE place = "COMMITTED"
      <4>1. Committing(p)'
        BY <1>1, <1>3, <3>1, <3>2, <3>4 DEF Committing, Into
      <4>2. PartOK(p)'
        BY <1>1, <1>3, <3>1, <3>4, <4>1 DEF PartOK
      <4> QED
        BY <1>1, <1>3, <2>1, <3>1, <3>a, <4>2, Takes
    <3>5. CASE place \in {"RESTORED", "RECOVERED"}
      <4>1. Restored(p)'
        BY <1>1, <3>1, <3>2, <3>5 DEF Restored, Into
      <4>2. PartOK(p)'
        BY <1>1, <1>3, <3>1, <3>5, <4>1 DEF PartOK
      <4> QED
        BY <1>1, <1>3, <2>1, <3>1, <3>a, <4>2, Takes
    <3> QED
      BY <2>3, <3>3, <3>4, <3>5 DEF Into
  <2> QED
    BY <2>2, <2>3
<1> QED
  BY <1>2, <1>3 DEF Journals

LEMMA PrepareStep ==
  ASSUME DInv, NEW p \in Procs, Prepare(p) \/ Begin(p) \/ LegacyBegin(p),
         UNCHANGED <<legacy, published>>
  PROVE  DInv' /\ Step
<1>1. work[p].at \in {"CAPTURED", "PREPARED"}
  BY DEF Prepare, Begin, LegacyBegin, At
<1>2. /\ Active(work[p]) /\ work[p].at # "LOCKING" /\ Captured(p) /\ Fits(p, "FAILED")
      /\ Into(p, "PREPARED", "PREPARED") /\ Into(p, "IN_PROGRESS", "REPLACING")
  BY <1>1, AheadIs DEF Ahead, Into
<1> QED
  BY <1>2, JournalsStep DEF Prepare, Begin, LegacyBegin

\* After the last file the targets are what was planned.
LEMMA AllWritten ==
  ASSUME NEW p \in Procs, work[p].op \in Ops, Forward(p), work[p].i = Len(Targets[work[p].op])
  PROVE  OutputsAsPlanned(work[p].op)
<1> SUFFICES ASSUME NEW f \in TargetSet(work[p].op) PROVE file[f] = New[work[p].op][f]
  BY DEF OutputsAsPlanned
<1>1. PICK k \in DOMAIN Targets[work[p].op] : f = Targets[work[p].op][k]
  BY DEF TargetSet
<1>2. Targets[work[p].op] \in Seq(Files)
  BY PlanAssumption
<1>3. k <= Len(Targets[work[p].op])
  BY <1>1, <1>2
<1> QED
  BY <1>1, <1>3 DEF Forward

LEMMA ValidateStep ==
  ASSUME DInv, NEW p \in Procs, Validate(p) \/ LegacyValidate(p), UNCHANGED <<legacy, published>>
  PROVE  DInv' /\ Step
<1>1. work[p].at = "REPLACING" /\ work[p].i = Len(Targets[work[p].op])
  BY DEF Validate, LegacyValidate, At
<1>2. /\ Active(work[p]) /\ work[p].at # "LOCKING" /\ work[p].at # "IDLE" /\ Fits(p, "FAILED")
      /\ Ahead(p)
  BY <1>1, AheadIs
<1>3. Fits(p, "VALIDATED")
  BY <1>1, <1>2 DEF Ahead, Fits
<1> QED
  BY <1>2, <1>3, MovesOn DEF Validate, LegacyValidate

LEMMA LegacyCommitStep ==
  ASSUME DInv, NEW p \in Procs, LegacyCommit(p), IsLegacy(p), UNCHANGED <<legacy, published>>
  PROVE  DInv' /\ Step
<1>1. work[p].at = "VALIDATED"
  BY DEF LegacyCommit, At
<1>2. /\ Active(work[p]) /\ work[p].at # "LOCKING" /\ Captured(p) /\ Fits(p, "FAILED") /\ Ahead(p)
  BY <1>1, AheadIs
<1>3. Into(p, "COMMITTED", "COMMITTED")
  BY <1>1, <1>2 DEF Into, Ahead, IsLegacy
<1> QED
  BY <1>2, <1>3, JournalsStep DEF LegacyCommit

\* A workspace operation takes effect with its journal.
LEMMA CommitStep ==
  ASSUME DInv, NEW p \in Procs, Commit(p), ~IsLegacy(p), UNCHANGED <<legacy, published>>
  PROVE  DInv' /\ Step
<1>1. work[p].at = "VALIDATED"
  BY DEF Commit, At
<1>2. /\ Active(work[p]) /\ work[p].at # "LOCKING" /\ work[p].at # "IDLE" /\ Captured(p)
      /\ Ahead(p) /\ Alone(p)
  BY <1>1, AheadIs
<1>3. CASE FailsTo(p, "IDLE")
  BY <1>2, <1>3, MovesOn
<1>4. CASE Write(p, "COMMITTED") /\ Go(p, "COMMITTED") /\ UNCHANGED <<file, lock, faults>>
  <2>0. PICK o \in Ops : o = work[p].op
    BY <1>2 DEF Captured
  <2>1. "COMMITTED" \in States /\ "COMMITTED" \in Phases \ {"IDLE"}
    BY DEF States, Phases
  <2>2. DStore'
    BY <1>2, <1>4, <2>1, WriteKeeps
  <2>3. /\ journal'[o].state = "COMMITTED" /\ \A x \in Ops : x # o => journal'[x] = journal[x]
    BY <1>4, <2>0, <2>1, WriteIs
  <2>4. o \notin legacy
    BY <2>0 DEF IsLegacy
  <2>5. /\ Recorded(p) /\ RestAsPlanned(o) /\ OutputsAsPlanned(o) /\ lock = o
    BY <1>1, <1>2, <2>0, AllWritten DEF Ahead, Captured
  <2>6. Hidden(o) /\ journal[o].state # "NONE"
    BY <2>0, <2>5 DEF Recorded, Hidden, Pending
  <2>7. AllKnown(o)
    BY <1>2, <2>6 DEF DInv, DStore, Tidy, AllKnown
  <2>8. \A x \in Ops : ~Hidden(x)'
    <3>1. ~Hidden(o)'
      BY <2>3, <2>4 DEF Hidden, Pending
    <3>2. \A x \in Ops : x # o => ~Hidden(x)'
      BY <1>2, <1>4, <2>0, <2>1, OthersOpen
    <3> QED
      BY <3>1, <3>2
  <2>9. VisibleAtomic!Commit(o)
    BY <1>4, <2>2, <2>3, <2>5, <2>6, <2>7, <2>8, TakesEffect DEF DInv
  <2>10. Step
    BY <2>9 DEF Step
  <2>11. /\ work' = [work EXCEPT ![p] = [work[p] EXCEPT !.at = "COMMITTED"]]
         /\ [work[p] EXCEPT !.at = "COMMITTED"] \in Works /\ work'[p] \in Works
         /\ work'[p].at = "COMMITTED" /\ work'[p].op = work[p].op
    BY <1>4, <2>1, Where
  <2>12. Committing(p)'
    BY <1>4, <2>0, <2>3, <2>4, <2>11 DEF Committing
  <2>13. PartOK(p)'
    BY <1>4, <2>0, <2>5, <2>11, <2>12 DEF PartOK
  <2>14. StaysEarly(p)
    BY <2>11 DEF StaysEarly, Early
  <2> QED
    BY <1>2, <1>4, <2>2, <2>10, <2>11, <2>13, <2>14, Takes
<1> QED
  BY <1>3, <1>4 DEF Commit

LEMMA UnlockStep ==
  ASSUME DInv, NEW p \in Procs, Unlock(p), ~IsLegacy(p), UNCHANGED <<legacy, published>>
  PROVE  DInv' /\ Step
<1>1. work[p].at = "COMMITTED" /\ Active(work[p]) /\ work[p].at # "LOCKING" /\ Committing(p)
  BY PartIs DEF Unlock, At, Active, Looking, PartOK
<1>2. Releasing(p)
  BY <1>1 DEF Committing, Releasing, Hidden, IsLegacy, Pending
<1> QED
  BY <1>1, <1>2, Releases DEF Unlock

LEMMA LegacyUnlockStep ==
  ASSUME DInv, NEW p \in Procs, LegacyUnlock(p), IsLegacy(p), UNCHANGED <<legacy, published>>
  PROVE  DInv' /\ Step
<1>1. /\ work[p].at = "COMMITTED" /\ Active(work[p]) /\ work[p].at # "LOCKING" /\ Committing(p)
      /\ work[p].op \in Ops
  BY PartIs DEF LegacyUnlock, At, Active, Looking, PartOK
<1>2. Releasing(p)
  BY <1>1, AllWritten DEF Committing, Releasing, IsLegacy
<1>3. Fits(p, "FAILED")
  BY <1>1 DEF Committing, Fits, Failing, IsLegacy
<1> QED
  BY <1>1, <1>2, <1>3, Releases DEF LegacyUnlock

\* What was put back no longer hides anything.
LEMMA UnlockRestoredStep ==
  ASSUME DInv, NEW p \in Procs, UNCHANGED <<legacy, published>>,
         \/ UnlockRolledBack(p) /\ ~IsLegacy(p)
         \/ LegacyRelease(p)
         \/ UnlockRecovered(p)
  PROVE  DInv' /\ Step
<1>1. /\ work[p].at \in {"RESTORED", "RECOVERED"} /\ Active(work[p]) /\ work[p].at # "LOCKING"
      /\ Restored(p)
  BY PartIs DEF UnlockRolledBack, LegacyRelease, UnlockRecovered, At, Active, Looking, PartOK
<1>2. Releasing(p)
  BY <1>1 DEF Restored, Bare, Settled, Hidden, Pending, Releasing
<1>3. CASE UnlockRolledBack(p) /\ ~IsLegacy(p)
  <2>1. Fits(p, "GIVING_UP")
    BY <1>1, <1>3 DEF Restored, Bare, Fits, Stopping, IsLegacy
  <2> QED
    BY <1>1, <1>2, <1>3, <2>1, Releases DEF UnlockRolledBack
<1>4. CASE LegacyRelease(p)
  BY <1>1, <1>2, <1>4, Releases DEF LegacyRelease
<1>5. CASE UnlockRecovered(p)
  <2>1. Fits(p, "STOPPING")
    BY <1>1, <1>5 DEF Restored, Fits, Stopping, UnlockRecovered, At
  <2> QED
    BY <1>1, <1>2, <1>5, <2>1, Releases DEF UnlockRecovered
<1> QED
  BY <1>3, <1>4, <1>5

LEMMA FinishStep ==
  ASSUME DInv, NEW p \in Procs, FinishRollBack(p) \/ FinishRecovery(p),
         UNCHANGED <<legacy, published>>
  PROVE  DInv' /\ Step
<1>1. /\ work[p].at \in {"RESTORING", "RECOVERING"} /\ Active(work[p]) /\ work[p].at # "LOCKING"
      /\ work[p].op \in Ops /\ lock = work[p].op /\ work[p].at # "IDLE"
      /\ Restoring(p) /\ work[p].i = 0
  BY PartIs DEF FinishRollBack, FinishRecovery, At, Active, Looking, PartOK
<1>2. Captured(p) /\ AsCaptured(p)
  BY <1>1, StillCaptured DEF Captured, Restoring
<1>3. Fits(p, "GIVING_UP") /\ Fits(p, "STOPPING")
  BY <1>1 DEF Fits, Stopping, Restoring
<1>4. Into(p, "ROLLED_BACK", "RESTORED") /\ Into(p, "ROLLED_BACK", "RECOVERED")
  BY <1>2 DEF Into
<1> QED
  BY <1>1, <1>2, <1>3, <1>4, JournalsStep DEF FinishRollBack, FinishRecovery

\* A plan has a target: preimages that were captured are told from none.
LEMMA CapturedSomething ==
  ASSUME NEW o \in Ops, NEW orig, Exact(o, orig)
  PROVE  orig # <<>>
<1>1. PICK f : f \in TargetSet(o)
  BY NoReturnAssumption
<1>2. DOMAIN orig # {}
  BY <1>1 DEF Exact
<1> QED
  BY <1>2

LEMMA LegacyFinishStep ==
  ASSUME DInv, NEW p \in Procs, LegacyFinish(p), UNCHANGED <<legacy, published>>
  PROVE  DInv' /\ Step
<1>1. /\ work[p].at = "FAILED" /\ Active(work[p]) /\ work[p].at # "LOCKING" /\ work[p].at # "IDLE"
      /\ work[p].op \in Ops /\ lock = work[p].op /\ Failing(p) /\ work[p].i = 0
  BY PartIs DEF LegacyFinish, At, Active, Looking, PartOK
<1>2. CASE work[p].orig = <<>> /\ Moves(p, "RESTORED")
  <2>1. Bare(p)
    BY <1>1, <1>2, CapturedSomething DEF Failing
  <2> QED
    BY <1>1, <1>2, <2>1, MovesOn DEF Fits
<1>3. CASE work[p].orig # <<>> /\ Journals(p, "ROLLED_BACK", "RESTORED", "IDLE")
  <2>1. Exact(work[p].op, work[p].orig) /\ Forward(p) /\ (Recorded(p) \/ Settled(work[p].op))
    BY <1>1, <1>3 DEF Failing, Bare
  <2>2. AsCaptured(p)
    BY <1>1, <2>1, StillCaptured
  <2> QED
    BY <1>1, <1>3, <2>1, <2>2, JournalsStep DEF Captured, Into
<1> QED
  BY <1>2, <1>3 DEF LegacyFinish

\* What could not be put back stays behind the lock.
LEMMA GiveUpStep ==
  ASSUME DInv, NEW p \in Procs, GiveUp(p) \/ StopRecovery(p), UNCHANGED <<legacy, published>>
  PROVE  DInv' /\ Step
<1>1. /\ work[p].at \in {"GIVING_UP", "STOPPING"} /\ Active(work[p]) /\ work[p].at # "LOCKING"
      /\ work[p].op \in Ops /\ lock = work[p].op /\ work[p].at # "IDLE" /\ Stopping(p)
  BY PartIs DEF GiveUp, StopRecovery, At, Active, Looking, PartOK
<1>2. Journals(p, "RECOVERY_REQUIRED", "IDLE", "IDLE")
  BY DEF GiveUp, StopRecovery, Journals
<1> QED
  BY <1>1, <1>2, JournalsStep DEF Captured, Stopping, Into

\* The lock is removed.  What was hidden until now is the second protocol's
\* operation taking effect.
LEMMA RemoveLockStep ==
  ASSUME DInv, NEW p \in Procs, RemoveLock(p), Publishes
  PROVE  DInv' /\ Step
<1>1. /\ work[p].at = "UNLOCKING" /\ work[p].at # "IDLE" /\ lock = work[p].op /\ work[p].op \in Ops
      /\ Alone(p) /\ Releasing(p) /\ faults \in 0..MaxFaults
  BY PartIs DEF RemoveLock, At, Active, Looking, PartOK
<1>0. PICK o \in Ops : o = work[p].op
  BY <1>1
<1>2. lock' = "FREE" /\ UNCHANGED <<file, journal, faults>> /\ legacy' = legacy
  BY DEF RemoveLock, Publishes
<1>3. /\ Idle \in Works /\ work' = [work EXCEPT ![p] = Idle] /\ work'[p] = Idle
  BY IdleIsGood DEF RemoveLock, Go, DInv
<1>4. PartOK(p)'
  BY <1>3 DEF PartOK, Idle, Active
<1>a. StaysEarly(p)
  BY <1>3 DEF StaysEarly, Early, Idle
<1>5. \A x \in Ops : x # o => ~Hidden(x)
  BY <1>0, <1>1 DEF DInv, DStore, HiddenIsLocked
<1>6. CASE Hidden(o)
  <2>1. /\ o \in legacy /\ journal[o].state = "COMMITTED" /\ OutputsAsPlanned(o) /\ RestAsPlanned(o)
    BY <1>0, <1>1, <1>6 DEF Releasing
  <2>2. published' = published \cup {o}
    BY <1>0, <1>1, <1>2, <2>1 DEF Publishes
  <2>3. \A x \in Ops : ~Hidden(x)'
    BY <1>2, <1>5, <2>1, <2>2 DEF Hidden, Pending
  <2>4. DStore'
    BY <1>2, <2>1, <2>2, <2>3 DEF DInv, DStore, HiddenIsLocked, Tidy, Spoilt
  <2>5. AllKnown(o)
    BY <1>1, <1>6 DEF DInv, DStore, Tidy, AllKnown
  <2>6. VisibleAtomic!Commit(o)
    BY <1>0, <1>1, <1>2, <1>6, <2>1, <2>2, <2>3, <2>4, <2>5, TakesEffect DEF DInv
  <2>7. Step
    BY <2>6 DEF Step
  <2> QED
    BY <1>1, <1>2, <1>3, <1>4, <1>a, <2>4, <2>7, Takes
<1>7. CASE ~Hidden(o)
  <2>1. \A x \in legacy : journal[x].state = "COMMITTED" /\ lock = x => x \in published
    BY <1>0, <1>1, <1>7 DEF Hidden
  <2>2. published' = published
    BY <2>1 DEF Publishes
  <2>3. \A x \in Ops : ~Hidden(x)
    BY <1>5, <1>7
  <2> QED
    BY <1>1, <1>2, <1>3, <1>4, <1>a, <2>2, <2>3, LockTakes
<1> QED
  BY <1>6, <1>7
-----------------------------------------------------------------------------
(* Files are written and put back, behind the lock. *)

\* A position forward, or one back: the targets before it are written, the
\* others as captured.
LEMMA ForwardKept ==
  ASSUME NEW p \in Procs, NEW o \in Ops, NEW n \in DOMAIN Targets[o], NEW c,
         file \in [Files -> Contents], Forward(p),
         file' = [file EXCEPT ![Targets[o][n]] = c],
         work[p].op = o, work'[p].op = o, work'[p].orig = work[p].orig,
         work[p].i \in Nat, work'[p].i \in Nat,
         \/ /\ n = work[p].i + 1 /\ work'[p].i = n /\ c = New[o][Targets[o][n]]
         \/ /\ n = work[p].i /\ work'[p].i = n - 1 /\ c = work[p].orig[Targets[o][n]]
  PROVE  Forward(p)'
<1>1. Targets[o] \in Seq(Files) /\ n \in 1..Len(Targets[o]) /\ Len(Targets[o]) \in Nat
  BY PlanAssumption, TargetsAreFiles
<1>2. \A k \in DOMAIN Targets[o] : k \in Nat /\ Targets[o][k] \in Files
  BY <1>1
<1>3. \A k \in DOMAIN Targets[o] : k # n => Targets[o][k] # Targets[o][n]
  BY PlanAssumption
<1>4. \A k \in DOMAIN Targets[o] :
        file'[Targets[o][k]] = IF k = n THEN c ELSE file[Targets[o][k]]
  BY <1>2, <1>3
<1>5. work'[p].i <= Len(Targets[o])
  BY <1>1 DEF Forward
<1>6. ASSUME NEW k \in DOMAIN Targets[o]
      PROVE  file'[Targets[o][k]] = IF k <= work'[p].i THEN New[o][Targets[o][k]]
                                    ELSE work[p].orig[Targets[o][k]]
  <2>1. file[Targets[o][k]] = IF k <= work[p].i THEN New[o][Targets[o][k]]
                              ELSE work[p].orig[Targets[o][k]]
    BY DEF Forward
  <2>2. k # n => (k <= work'[p].i <=> k <= work[p].i)
    BY <1>1, <1>2
  <2>3. CASE k = n
    BY <1>1, <1>4, <2>3
  <2>4. CASE k # n
    BY <1>4, <2>1, <2>2, <2>4
  <2> QED
    BY <2>3, <2>4
<1> QED
  BY <1>5, <1>6 DEF Forward

LEMMA BackwardKept ==
  ASSUME NEW p \in Procs, NEW o \in Ops, NEW n \in DOMAIN Targets[o],
         file \in [Files -> Contents], Backward(p),
         file' = [file EXCEPT ![Targets[o][n]] = work[p].orig[Targets[o][n]]],
         work[p].op = o, work'[p].op = o, work'[p].orig = work[p].orig,
         work[p].i \in Nat, n = work[p].i, work'[p].i = n - 1
  PROVE  Backward(p)'
<1>1. Targets[o] \in Seq(Files) /\ n \in 1..Len(Targets[o]) /\ Len(Targets[o]) \in Nat
  BY PlanAssumption, TargetsAreFiles
<1>2. \A k \in DOMAIN Targets[o] : k \in Nat /\ Targets[o][k] \in Files
  BY <1>1
<1>3. \A k \in DOMAIN Targets[o] : k # n => Targets[o][k] # Targets[o][n]
  BY PlanAssumption
<1>4. \A k \in DOMAIN Targets[o] :
        file'[Targets[o][k]] = IF k = n THEN work[p].orig[Targets[o][n]] ELSE file[Targets[o][k]]
  BY <1>2, <1>3
<1>5. work'[p].i <= Len(Targets[o])
  BY <1>1 DEF Backward
<1>6. ASSUME NEW k \in DOMAIN Targets[o], k > work'[p].i
      PROVE  file'[Targets[o][k]] = work[p].orig[Targets[o][k]]
  <2>1. k = n \/ k > work[p].i
    BY <1>1, <1>2, <1>6
  <2> QED
    BY <1>4, <2>1 DEF Backward
<1> QED
  BY <1>5, <1>6 DEF Backward

\* What is said of a process's journal and its other inputs, while only one of
\* its targets is written.
LEMMA SaidBehind ==
  ASSUME DInv, NEW p \in Procs, NEW f \in TargetSet(work[p].op), NEW c,
         file' = [file EXCEPT ![f] = c], UNCHANGED <<lock, journal, legacy, published>>,
         work'[p].op = work[p].op, work'[p].orig = work[p].orig, work[p].op \in Ops
  PROVE  /\ Recorded(p) => Recorded(p)'
         /\ RestAsPlanned(work[p].op) => RestAsPlanned(work[p].op)'
<1>1. Recorded(p) => Recorded(p)'
  BY DEF Recorded, Hidden
<1>2. \A g \in DOMAIN Pre[work[p].op] \ TargetSet(work[p].op) : file'[g] = file[g]
  BY PlanAssumption DEF DInv, DStore
<1>3. RestAsPlanned(work[p].op) => RestAsPlanned(work[p].op)'
  BY <1>2 DEF RestAsPlanned
<1> QED
  BY <1>1, <1>3

\* A process that writes a file behind its journal moves on, or fails.
LEMMA FileStep ==
  ASSUME DInv, NEW p \in Procs, NEW w \in Works, Behindhand(p), Alone(p),
         NEW f \in TargetSet(work[p].op),
         NEW c \in {work[p].orig[f], New[work[p].op][f]},
         file' = [file EXCEPT ![f] = c],
         UNCHANGED <<lock, journal, legacy, published>>, faults' \in 0..MaxFaults,
         work' = [work EXCEPT ![p] = w], StaysEarly(p), PartOK(p)'
  PROVE  DInv' /\ Step
<1>1. DStore' /\ Step
  BY FileHides
<1> QED
  BY <1>1, Takes

LEMMA Counts ==
  ASSUME DInv, NEW p \in Procs, NEW i \in Nat, NEW place \in Phases,
         work' = [work EXCEPT ![p] = [work[p] EXCEPT !.i = i, !.at = place]]
  PROVE  /\ [work[p] EXCEPT !.i = i, !.at = place] \in Works /\ work'[p] \in Works
         /\ work'[p].at = place /\ work'[p].op = work[p].op /\ work'[p].i = i
         /\ work'[p].orig = work[p].orig /\ work'[p].seen = work[p].seen
<1>1. work \in [Procs -> Works] /\ work[p] \in Works
  BY DEF DInv
<1> DEFINE w == [work[p] EXCEPT !.i = i, !.at = place]
<1>2. /\ w \in Works /\ w.at = place /\ w.op = work[p].op /\ w.i = i
      /\ w.orig = work[p].orig /\ w.seen = work[p].seen
  BY <1>1 DEF Works
<1>3. work'[p] = w
  BY <1>1
<1> QED
  BY <1>2, <1>3

LEMMA CountsDown ==
  ASSUME DInv, NEW p \in Procs, work[p].i > 0, work' = [work EXCEPT ![p].i = @ - 1]
  PROVE  /\ work' = [work EXCEPT ![p] = [work[p] EXCEPT !.i = work[p].i - 1]]
         /\ [work[p] EXCEPT !.i = work[p].i - 1] \in Works /\ work'[p] \in Works
         /\ work'[p].at = work[p].at /\ work'[p].op = work[p].op /\ work'[p].i = work[p].i - 1
         /\ work'[p].orig = work[p].orig
<1>1. work \in [Procs -> Works] /\ work[p] \in Works
  BY DEF DInv
<1> DEFINE w == [work[p] EXCEPT !.i = work[p].i - 1]
<1>2. /\ w \in Works /\ w.at = work[p].at /\ w.op = work[p].op /\ w.i = work[p].i - 1
      /\ w.orig = work[p].orig
  BY <1>1 DEF Works
<1>3. work' = [work EXCEPT ![p] = w]
  OBVIOUS
<1>4. work'[p] = w
  BY <1>1, <1>3
<1> QED
  BY <1>2, <1>3, <1>4

LEMMA ReplaceStep ==
  ASSUME DInv, NEW p \in Procs, Replace(p), UNCHANGED <<legacy, published>>
  PROVE  DInv' /\ Step
<1>1. work[p].at = "REPLACING"
  BY DEF Replace, At
<1>2. /\ Active(work[p]) /\ work[p].at # "LOCKING" /\ work[p].at # "IDLE" /\ Fits(p, "FAILED")
      /\ Ahead(p) /\ Captured(p) /\ Alone(p) /\ work[p] \in Works
  BY <1>1, AheadIs
<1>3. CASE FailsTo(p, "FAILED")
  BY <1>2, <1>3, MovesOn
<1>4. CASE ~FailsTo(p, "FAILED")
  <2>0. PICK o \in Ops : o = work[p].op
    BY <1>2 DEF Captured
  <2>1. PICK i \in Nat : i = work[p].i + 1
    BY <1>2 DEF Works
  <2>2. PICK f : f = Targets[o][i]
    OBVIOUS
  <2>3. /\ i \in DOMAIN Targets[o] /\ f \in TargetSet(o) /\ work[p].i \in Nat
    BY <1>2, <2>0, <2>1, <2>2, InRange DEF Replace, TargetSet, Works
  <2>4. PICK place \in {"REPLACING", "FAILED"} :
          /\ work' = [work EXCEPT ![p] = [work[p] EXCEPT !.i = i, !.at = place]]
          /\ faults' = faults \/ Fails
    <3>1. \/ work' = [work EXCEPT ![p].i = i] /\ faults' = faults
          \/ work' = [work EXCEPT ![p].i = i, ![p].at = "FAILED"] /\ Fails
      BY <1>4, <2>1 DEF Replace
    <3>2. CASE work' = [work EXCEPT ![p].i = i] /\ faults' = faults
      <4>1. work' = [work EXCEPT ![p] = [work[p] EXCEPT !.i = i, !.at = "REPLACING"]]
        BY <1>1, <3>2 DEF DInv, Works
      <4> QED
        BY <3>2, <4>1
    <3>3. CASE work' = [work EXCEPT ![p].i = i, ![p].at = "FAILED"] /\ Fails
      <4>1. work' = [work EXCEPT ![p] = [work[p] EXCEPT !.i = i, !.at = "FAILED"]]
        BY <3>3 DEF DInv
      <4> QED
        BY <3>3, <4>1
    <3> QED
      BY <3>1, <3>2, <3>3
  <2>5. /\ file' = [file EXCEPT ![f] = New[o][f]] /\ UNCHANGED <<lock, journal>>
    BY <1>4, <2>0, <2>1, <2>2 DEF Replace
  <2>6. faults' \in 0..MaxFaults
    BY <2>4, FaultsAssumption DEF Fails, DInv, DStore
  <2>7. /\ [work[p] EXCEPT !.i = i, !.at = place] \in Works /\ work'[p] \in Works
        /\ work'[p].at = place /\ work'[p].op = work[p].op /\ work'[p].i = i
        /\ work'[p].orig = work[p].orig
    BY <2>4, Counts DEF Phases
  <2>8. Forward(p) /\ Recorded(p) /\ RestAsPlanned(o) /\ Exact(o, work[p].orig)
    BY <1>1, <1>2, <2>0 DEF Ahead
  <2>9. Forward(p)'
    BY <2>0, <2>1, <2>2, <2>3, <2>5, <2>7, <2>8, ForwardKept DEF DInv, DStore
  <2>10. Recorded(p)' /\ RestAsPlanned(o)'
    BY <2>0, <2>3, <2>5, <2>7, <2>8, SaidBehind
  <2>11. Ahead(p)' \/ place # "REPLACING"
    BY <2>0, <2>7, <2>8, <2>9, <2>10 DEF Ahead
  <2>12. Failing(p)'
    BY <2>0, <2>7, <2>8, <2>9, <2>10 DEF Failing
  <2>13. lock = o
    BY <1>2, <2>0 DEF Captured
  <2>14. PartOK(p)'
    BY <2>0, <2>5, <2>7, <2>11, <2>12, <2>13 DEF PartOK
  <2>15. Behindhand(p)
    BY <1>2, <2>0, <2>8, <2>13 DEF Behindhand
  <2>16. StaysEarly(p)
    BY <2>7 DEF StaysEarly, Early
  <2> QED
    BY <1>2, <2>0, <2>3, <2>4, <2>5, <2>6, <2>7, <2>14, <2>15, <2>16, FileStep
<1> QED
  BY <1>3, <1>4

\* Putting a file back, in a rollback and in a recovery of either protocol.
LEMMA PutsBack ==
  ASSUME DInv, NEW p \in Procs, work[p].at \in {"RESTORING", "RECOVERING"}, work[p].i > 0,
         LET f == Targets[work[p].op][work[p].i] IN file' = [file EXCEPT ![f] = work[p].orig[f]],
         UNCHANGED <<lock, journal, legacy, published>>,
         NEW failing \in {"GIVING_UP", "STOPPING"},
         \/ work' = [work EXCEPT ![p].i = @ - 1] /\ UNCHANGED faults
         \/ Go(p, failing) /\ Fails
  PROVE  DInv' /\ Step
<1>1. /\ Active(work[p]) /\ work[p].at # "LOCKING" /\ work[p].at # "IDLE" /\ lock = work[p].op
      /\ work[p] \in Works /\ work[p].op \in Ops /\ Restoring(p) /\ Alone(p)
  BY PartIs DEF Active, Looking, PartOK
<1>0. PICK o \in Ops : o = work[p].op
  BY <1>1
<1>2. PICK n \in Nat : n = work[p].i
  BY <1>1 DEF Works
<1>3. PICK f : f = Targets[o][n]
  OBVIOUS
<1>4. /\ Exact(o, work[p].orig) /\ Backward(p) /\ Recorded(p)
      /\ n \in DOMAIN Targets[o] /\ f \in TargetSet(o)
  BY <1>0, <1>1, <1>2, <1>3, InRange DEF Restoring, Backward, TargetSet
<1>5. file' = [file EXCEPT ![f] = work[p].orig[f]]
  BY <1>0, <1>2, <1>3
<1>6. Behindhand(p)
  BY <1>0, <1>1, <1>4 DEF Behindhand
<1>7. CASE work' = [work EXCEPT ![p].i = @ - 1] /\ UNCHANGED faults
  <2>2. /\ work' = [work EXCEPT ![p] = [work[p] EXCEPT !.i = work[p].i - 1]]
        /\ [work[p] EXCEPT !.i = work[p].i - 1] \in Works /\ work'[p] \in Works
        /\ work'[p].at = work[p].at /\ work'[p].op = work[p].op /\ work'[p].i = work[p].i - 1
        /\ work'[p].orig = work[p].orig
    BY <1>7, CountsDown
  <2>3. Backward(p)'
    BY <1>0, <1>2, <1>3, <1>4, <1>5, <2>2, BackwardKept DEF DInv, DStore
  <2>4. Recorded(p)'
    BY <1>0, <1>4, <1>5, <2>2, SaidBehind
  <2>5. Restoring(p)'
    BY <1>0, <1>4, <2>2, <2>3, <2>4 DEF Restoring
  <2>6. PartOK(p)'
    BY <1>0, <1>1, <2>2, <2>5 DEF PartOK
  <2>7. faults' \in 0..MaxFaults
    BY <1>7 DEF DInv, DStore
  <2>8. StaysEarly(p)
    BY <2>2 DEF StaysEarly, Early
  <2> QED
    BY <1>0, <1>1, <1>4, <1>5, <1>6, <2>2, <2>6, <2>7, <2>8, FileStep
<1>8. CASE Go(p, failing) /\ Fails
  <2>1. /\ work' = [work EXCEPT ![p] = [work[p] EXCEPT !.at = failing]]
        /\ [work[p] EXCEPT !.at = failing] \in Works /\ work'[p] \in Works
        /\ work'[p].at = failing /\ work'[p].op = work[p].op
        /\ work'[p].orig = work[p].orig
    BY <1>8, Where DEF Phases
  <2>2. Recorded(p)'
    BY <1>0, <1>4, <1>5, <2>1, SaidBehind
  <2>3. Stopping(p)'
    BY <1>0, <1>4, <2>1, <2>2 DEF Stopping
  <2>4. PartOK(p)'
    BY <1>0, <1>1, <2>1, <2>3 DEF PartOK
  <2>5. faults' \in 0..MaxFaults
    BY <1>8, FaultsAssumption DEF Fails, DInv, DStore
  <2>6. StaysEarly(p)
    BY <2>1 DEF StaysEarly, Early
  <2> QED
    BY <1>0, <1>1, <1>4, <1>5, <1>6, <2>1, <2>4, <2>5, <2>6, FileStep
<1> QED
  BY <1>7, <1>8

\* While a process goes back, every target is in a state it knows.
LEMMA TargetKnown ==
  ASSUME DInv, NEW p \in Procs, work[p].at \in {"RESTORING", "RECOVERING"}, work[p].i > 0
  PROVE  LET f == Targets[work[p].op][work[p].i] IN
         /\ Known(f, work[p].op, work[p].orig)
         /\ Fits(p, "GIVING_UP") /\ Fits(p, "STOPPING")
         /\ Active(work[p]) /\ work[p].at # "LOCKING" /\ work[p].at # "IDLE"
<1>1. /\ Active(work[p]) /\ work[p].at # "LOCKING" /\ work[p].at # "IDLE"
      /\ work[p] \in Works /\ work[p].op \in Ops /\ Restoring(p)
  BY PartIs DEF Active, Looking, PartOK
<1>2. work[p].i \in DOMAIN Targets[work[p].op]
  BY <1>1, InRange DEF Restoring, Backward, Works
<1>3. Targets[work[p].op][work[p].i] \in TargetSet(work[p].op)
  BY <1>2 DEF TargetSet
<1>4. Known(Targets[work[p].op][work[p].i], work[p].op, work[p].orig)
  BY <1>1, <1>3 DEF DInv, DStore, Tidy, Restoring, Recorded
<1>5. Fits(p, "GIVING_UP") /\ Fits(p, "STOPPING")
  BY <1>1 DEF Fits, Stopping, Restoring
<1> QED
  BY <1>1, <1>4, <1>5

LEMMA RestoreStep ==
  ASSUME DInv, NEW p \in Procs, Restore(p), UNCHANGED <<legacy, published>>
  PROVE  DInv' /\ Step
<1>1. work[p].at = "RESTORING" /\ work[p].i > 0
  BY DEF Restore, At
<1>2. CASE FailsTo(p, "GIVING_UP") \/ Moves(p, "GIVING_UP")
  BY <1>1, <1>2, TargetKnown, MovesOn
<1>3. CASE ~(FailsTo(p, "GIVING_UP") \/ Moves(p, "GIVING_UP"))
  <2>1. /\ file' = [file EXCEPT ![Targets[work[p].op][work[p].i]] =
                                  work[p].orig[Targets[work[p].op][work[p].i]]]
        /\ UNCHANGED <<lock, journal>>
        /\ \/ work' = [work EXCEPT ![p].i = @ - 1] /\ UNCHANGED faults
           \/ Go(p, "GIVING_UP") /\ Fails
    BY <1>3 DEF Restore
  <2> QED
    BY <1>1, <2>1, PutsBack
<1> QED
  BY <1>2, <1>3

LEMMA RecoverFileStep ==
  ASSUME DInv, NEW p \in Procs, RecoverFile(p) \/ LegacyRecoverFile(p),
         UNCHANGED <<legacy, published>>
  PROVE  DInv' /\ Step
<1>1. work[p].at = "RECOVERING" /\ work[p].i > 0
  BY DEF RecoverFile, LegacyRecoverFile, At
<1>2. CASE FailsTo(p, "STOPPING")
  BY <1>1, <1>2, TargetKnown, MovesOn
<1>3. CASE ~FailsTo(p, "STOPPING")
  <2>1. Recovered(Targets[work[p].op][work[p].i], work[p].op, work[p].orig) =
          work[p].orig[Targets[work[p].op][work[p].i]]
    BY <1>1, TargetKnown DEF Recovered, Known
  <2>2. /\ file' = [file EXCEPT ![Targets[work[p].op][work[p].i]] =
                                  work[p].orig[Targets[work[p].op][work[p].i]]]
        /\ UNCHANGED <<lock, journal>>
        /\ \/ work' = [work EXCEPT ![p].i = @ - 1] /\ UNCHANGED faults
           \/ Go(p, "STOPPING") /\ Fails
    BY <1>3, <2>1 DEF RecoverFile, LegacyRecoverFile
  <2> QED
    BY <1>1, <2>2, PutsBack
<1> QED
  BY <1>2, <1>3

LEMMA LegacyRestoreStep ==
  ASSUME DInv, NEW p \in Procs, LegacyRestore(p), UNCHANGED <<legacy, published>>
  PROVE  DInv' /\ Step
<1>1. /\ work[p].at = "FAILED" /\ Active(work[p]) /\ work[p].at # "LOCKING" /\ work[p].at # "IDLE"
      /\ work[p].op \in Ops /\ lock = work[p].op /\ Failing(p) /\ work[p].i > 0
      /\ work[p] \in Works /\ Alone(p) /\ faults \in 0..MaxFaults
  BY PartIs DEF LegacyRestore, At, Active, Looking, PartOK
<1>2. Exact(work[p].op, work[p].orig) /\ Forward(p) /\ Recorded(p)
  BY <1>1 DEF Failing, Bare
<1>3. CASE FailsTo(p, "GIVING_UP")
  BY <1>1, <1>2, <1>3, MovesOn DEF Fits, Stopping
<1>4. CASE ~FailsTo(p, "GIVING_UP")
  <2>0. PICK o \in Ops : o = work[p].op
    BY <1>1
  <2>1. PICK n \in Nat : n = work[p].i
    BY <1>1 DEF Works
  <2>2. PICK f : f = Targets[o][n]
    OBVIOUS
  <2>3. n \in DOMAIN Targets[o] /\ f \in TargetSet(o)
    BY <1>1, <1>2, <2>0, <2>1, <2>2, InRange DEF Forward, TargetSet
  <2>4. /\ file' = [file EXCEPT ![f] = work[p].orig[f]] /\ UNCHANGED <<lock, journal, faults>>
        /\ work' = [work EXCEPT ![p].i = @ - 1]
    BY <1>4, <2>0, <2>1, <2>2 DEF LegacyRestore
  <2>5. /\ work' = [work EXCEPT ![p] = [work[p] EXCEPT !.i = work[p].i - 1]]
        /\ [work[p] EXCEPT !.i = work[p].i - 1] \in Works /\ work'[p] \in Works
        /\ work'[p].at = work[p].at /\ work'[p].op = work[p].op /\ work'[p].i = work[p].i - 1
        /\ work'[p].orig = work[p].orig
    BY <1>1, <2>4, CountsDown
  <2>6. work[p].i \in Nat /\ work'[p].i \in Nat
    BY <1>1, <2>5 DEF Works
  <2>7. Forward(p)'
    BY <1>2, <2>0, <2>1, <2>2, <2>3, <2>4, <2>5, <2>6, ForwardKept DEF DInv, DStore
  <2>8. Recorded(p)'
    BY <1>2, <2>0, <2>3, <2>4, <2>5, SaidBehind
  <2>9. Failing(p)'
    BY <1>2, <2>5, <2>7, <2>8 DEF Failing
  <2>10. PartOK(p)'
    BY <1>1, <2>4, <2>5, <2>9 DEF PartOK
  <2>11. Behindhand(p)
    BY <1>1, <1>2 DEF Behindhand
  <2>12. StaysEarly(p)
    BY <1>1, <2>5 DEF StaysEarly, Early
  <2> QED
    BY <1>1, <2>0, <2>3, <2>4, <2>5, <2>10, <2>11, <2>12, FileStep
<1> QED
  BY <1>3, <1>4

\* At the start nothing is put back yet.
LEMMA NothingPutBack ==
  ASSUME NEW p, NEW o \in Ops, work'[p].op = o, work'[p].i = Len(Targets[o])
  PROVE  Backward(p)'
<1>1. Targets[o] \in Seq(Files)
  BY PlanAssumption
<1>2. \A k \in DOMAIN Targets[o] : ~(k > Len(Targets[o]))
  BY <1>1
<1>3. Len(Targets[o]) <= Len(Targets[o])
  BY <1>1
<1> QED
  BY <1>2, <1>3 DEF Backward

\* A process that has captured its targets writes that it goes back.
LEMMA TurnsBack ==
  ASSUME DInv, NEW p \in Procs, Active(work[p]), work[p].at # "LOCKING", Captured(p),
         NEW place \in {"RESTORING", "RECOVERING"}, Write(p, "ROLLING_BACK"),
         NEW n \in Nat, n = Len(Targets[work[p].op]),
         work' = [work EXCEPT ![p] = [work[p] EXCEPT !.i = n, !.at = place]],
         UNCHANGED <<file, lock, faults, legacy, published>>
  PROVE  DInv' /\ Step
<1>0. PICK o \in Ops : o = work[p].op
  BY DEF Captured
<1>1. n = Len(Targets[o])
  BY <1>0
<1>2. "ROLLING_BACK" \in States /\ "ROLLING_BACK" \in Pending /\ place \in Phases
  BY DEF States, Pending, Phases
<1>4. /\ [work[p] EXCEPT !.i = n, !.at = place] \in Works /\ work'[p] \in Works
      /\ work'[p].at = place /\ work'[p].op = work[p].op /\ work'[p].i = n
      /\ work'[p].orig = work[p].orig
  BY <1>2, Counts, ZenonT(40)
<1>5. DStore' /\ Step
  BY <1>2, WriteHides
<1>6. Recorded(p)'
  BY <1>2, <1>4, Written
<1>7. Backward(p)'
  BY <1>0, <1>1, <1>4, NothingPutBack
<1>8. Restoring(p)'
  BY <1>4, <1>6, <1>7 DEF Restoring, Captured
<1>9. PartOK(p)'
  BY <1>0, <1>4, <1>8 DEF PartOK, Captured
<1>10. StaysEarly(p)
  BY <1>4 DEF StaysEarly, Early
<1> QED
  BY <1>4, <1>5, <1>9, <1>10, Takes, PartIs

LEMMA TurnsTo ==
  ASSUME DInv, NEW p \in Procs, work[p].op \in Ops, NEW place,
         work' = [work EXCEPT ![p].at = place, ![p].i = Len(Targets[work[p].op])]
  PROVE  \E n \in Nat : /\ n = Len(Targets[work[p].op])
                        /\ work' = [work EXCEPT ![p] = [work[p] EXCEPT !.i = n, !.at = place]]
<1>1. PICK n \in Nat : n = Len(Targets[work[p].op])
  BY TargetsAreFiles
<1>2. work' = [work EXCEPT ![p] = [work[p] EXCEPT !.i = n, !.at = place]]
  BY <1>1 DEF DInv, Works
<1> QED
  BY <1>1, <1>2

LEMMA RollBackStep ==
  ASSUME DInv, NEW p \in Procs, RollBack(p), ~IsLegacy(p), UNCHANGED <<legacy, published>>
  PROVE  DInv' /\ Step
<1>1. /\ work[p].at = "FAILED" /\ Active(work[p]) /\ work[p].at # "LOCKING" /\ work[p].at # "IDLE"
      /\ work[p].op \in Ops /\ lock = work[p].op /\ Failing(p)
  BY PartIs DEF RollBack, At, Active, Looking, PartOK
<1>2. /\ Exact(work[p].op, work[p].orig) /\ Forward(p)
      /\ Recorded(p) \/ (Settled(work[p].op) /\ work[p].i = 0)
  BY <1>1 DEF Failing, Bare, IsLegacy
<1>3. Recorded(p) \/ (Settled(work[p].op) /\ AsCaptured(p))
  BY <1>1, <1>2, StillCaptured
<1>4. Captured(p) /\ Fits(p, "GIVING_UP")
  BY <1>1, <1>2, <1>3 DEF Captured, Fits, Stopping
<1>5. CASE FailsTo(p, "GIVING_UP")
  BY <1>1, <1>4, <1>5, MovesOn
<1>6. CASE ~FailsTo(p, "GIVING_UP")
  <2>1. /\ Write(p, "ROLLING_BACK") /\ UNCHANGED <<file, lock, faults>>
        /\ work' = [work EXCEPT ![p].at = "RESTORING", ![p].i = Len(Targets[work[p].op])]
    BY <1>6 DEF RollBack
  <2>2. PICK n \in Nat : /\ n = Len(Targets[work[p].op])
                         /\ work' = [work EXCEPT ![p] = [work[p] EXCEPT !.i = n, !.at = "RESTORING"]]
    BY <1>1, <2>1, TurnsTo
  <2> QED
    BY <1>1, <1>4, <2>1, <2>2, TurnsBack
<1> QED
  BY <1>5, <1>6

LEMMA StartRecoveryStep ==
  ASSUME DInv, NEW p \in Procs, StartRecovery(p) \/ LegacyStartRecovery(p),
         UNCHANGED <<legacy, published>>
  PROVE  DInv' /\ Step
<1>1. /\ work[p].at = "CONFIRMED" /\ Active(work[p]) /\ work[p].at # "LOCKING" /\ work[p].at # "IDLE"
      /\ work[p].op \in Ops /\ lock = work[p].op /\ Recorded(p) /\ Exact(work[p].op, work[p].orig)
  BY PartIs DEF StartRecovery, LegacyStartRecovery, At, Active, Looking, PartOK
<1>2. Captured(p) /\ Fits(p, "STOPPING")
  BY <1>1 DEF Captured, Fits, Stopping
<1>3. CASE FailsTo(p, "STOPPING") \/ FailsTo(p, "IDLE")
  BY <1>1, <1>2, <1>3, MovesOn
<1>4. CASE ~(FailsTo(p, "STOPPING") \/ FailsTo(p, "IDLE"))
  <2>1. /\ Write(p, "ROLLING_BACK") /\ UNCHANGED <<file, lock, faults>>
        /\ work' = [work EXCEPT ![p].at = "RECOVERING", ![p].i = Len(Targets[work[p].op])]
    BY <1>4 DEF StartRecovery, LegacyStartRecovery
  <2>2. PICK n \in Nat : /\ n = Len(Targets[work[p].op])
                         /\ work' = [work EXCEPT ![p] = [work[p] EXCEPT !.i = n, !.at = "RECOVERING"]]
    BY <1>1, <2>1, TurnsTo
  <2> QED
    BY <1>1, <1>2, <2>1, <2>2, TurnsBack
<1> QED
  BY <1>3, <1>4

-----------------------------------------------------------------------------
(* Reviews, kills and the owner. *)

\* Nobody works on an interrupted operation, nor on another while its lock stands.
LEMMA NobodyElse ==
  ASSUME DInv, NEW p \in Procs, NEW o \in Ops, lock = o, Interrupted(o)
  PROVE  Alone(p)
<1> SUFFICES ASSUME NEW q \in Procs, Active(work[q]) PROVE FALSE
  BY DEF Alone
<1>1. work[q].op = o
  BY PartIs, PlanAssumption DEF PartOK
<1> QED
  BY <1>1 DEF Interrupted, Active, Looking

\* The operation that a review finds locked is the only one that can be hidden.
LEMMA LockedIsTidy ==
  ASSUME DInv, NEW o \in Ops, lock = o, UNCHANGED <<file, lock, journal, legacy, published>>,
         Hidden(o) => AllKnown(o)
  PROVE  Tidy'
<1>1. \A x \in Ops : Hidden(x)' => x = o
  BY DEF DInv, DStore, HiddenIsLocked, Hidden
<1>2. Hidden(o)' => AllKnown(o)'
  BY DEF Hidden, AllKnown, Known
<1> QED
  BY <1>1, <1>2 DEF Tidy, AllKnown

LEMMA ReviewStep ==
  ASSUME DInv, NEW p \in Procs, NEW o \in Ops \ legacy, Review(p, o), UNCHANGED <<legacy, published>>
  PROVE  DInv' /\ Step
<1>1. UNCHANGED <<file, lock, journal, faults>> /\ lock = o
  BY DEF Review
<1>2. PICK place \in {"FINALIZING", "REVIEWED"} :
        /\ IF place = "REVIEWED" THEN Restorable(o) ELSE LockOnly(o) \/ Committed(o)
        /\ work' = [work EXCEPT ![p] = [at |-> place, op |-> o, i |-> 0,
                                       seen |-> journal[o].state, orig |-> journal[o].orig]]
  BY DEF Review
<1> DEFINE w == [at |-> place, op |-> o, i |-> 0,
                 seen |-> journal[o].state, orig |-> journal[o].orig]
<1>3. journal[o].state \in States /\ journal[o].orig \in Preimages
  BY DEF DInv, DStore, Journal
<1>4. w \in Works /\ w.at = place /\ w.op = o /\ (w.at = "REVIEWED" <=> w.seen \in Pending)
  BY <1>2, <1>3 DEF Works, Phases, Restorable, LockOnly, Committed, Pending
<1>5. work'[p] = w
  BY <1>2 DEF DInv
<1> HIDE DEF w
<1>6. PartOK(p)'
  BY <1>1, <1>4, <1>5 DEF PartOK, Active, Looking
<1>7. Hidden(o) => AllKnown(o)
  BY <1>2 DEF Restorable, LockOnly, Committed, Hidden, Pending, AllKnown
<1>8. Tidy'
  BY <1>1, <1>7, LockedIsTidy
<1>9. ~Active(w) /\ work' = [work EXCEPT ![p] = w]
  BY <1>2, <1>4 DEF Active, Looking, w
<1>10. StaysEarly(p)
  BY <1>4, <1>5 DEF StaysEarly, Early
<1> QED
  BY <1>1, <1>4, <1>6, <1>8, <1>9, <1>10, Wanders, PartIs

LEMMA LegacyReviewStep ==
  ASSUME DInv, NEW p \in Procs, NEW o \in legacy, LegacyReview(p, o), UNCHANGED <<legacy, published>>
  PROVE  DInv' /\ Step
<1>1. /\ UNCHANGED <<file, lock, journal, faults>> /\ lock = o /\ o \in Ops
      /\ Restorable(o) /\ Alone(p)
  BY NobodyElse DEF LegacyReview, DInv, DStore
<1> DEFINE w == [at |-> "CONFIRMED", op |-> o, i |-> 0,
                 seen |-> journal[o].state, orig |-> journal[o].orig]
<1>2. /\ journal[o].state \in States /\ journal[o].orig \in Preimages
      /\ Exact(o, journal[o].orig) /\ Hidden(o) /\ AllKnown(o)
  BY <1>1 DEF DInv, DStore, Journal, Restorable, Hidden, Pending, AllKnown
<1>3. w \in Works /\ w.at = "CONFIRMED" /\ w.op = o /\ w.orig = journal[o].orig
  BY <1>1, <1>2 DEF Works, Phases
<1>4. work' = [work EXCEPT ![p] = w] /\ work'[p] = w
  BY DEF LegacyReview, DInv
<1> HIDE DEF w
<1>5. Recorded(p)'
  BY <1>1, <1>2, <1>3, <1>4 DEF Recorded, Hidden
<1>6. PartOK(p)'
  BY <1>1, <1>2, <1>3, <1>4, <1>5 DEF PartOK
<1>7. Tidy'
  BY <1>1, <1>2, LockedIsTidy
<1>8. StaysEarly(p)
  BY <1>3, <1>4 DEF StaysEarly, Early
<1> QED
  BY <1>1, <1>3, <1>4, <1>6, <1>7, <1>8, Wanders, PartIs

\* A review that still stands is acted on alone.
LEMMA ConfirmStep ==
  ASSUME DInv, NEW p \in Procs, Finalize(p) \/ Confirm(p), UNCHANGED <<legacy, published>>
  PROVE  DInv' /\ Step
<1>1. /\ work[p].at \in {"FINALIZING", "REVIEWED"} /\ work[p].at # "IDLE" /\ work[p].op \in Ops
      /\ work[p].op \notin legacy /\ (work[p].at = "REVIEWED" <=> work[p].seen \in Pending)
  BY PartIs DEF Finalize, Confirm, At, PartOK
<1>2. CASE Moves(p, "IDLE") \/ FailsTo(p, "IDLE")
  BY <1>1, <1>2, MovesOn
<1>3. ASSUME NEW place, Unchanged(p), Interrupted(work[p].op), Moves(p, place),
             \/ place = "UNLOCKING" /\ At(p, "FINALIZING")
             \/ place = "CONFIRMED" /\ At(p, "REVIEWED")
      PROVE  DInv' /\ Step
  <2>1. lock = work[p].op /\ journal[work[p].op].state = work[p].seen
        /\ journal[work[p].op].orig = work[p].orig
    BY <1>3 DEF Unchanged, OwnsLock
  <2>2. Alone(p)
    BY <1>1, <1>3, <2>1, NobodyElse
  <2>3. place = "UNLOCKING" => Releasing(p)
    BY <1>1, <1>3, <2>1 DEF At, Releasing, Hidden
  <2>4. place = "CONFIRMED" => Recorded(p) /\ Exact(work[p].op, work[p].orig)
    <3>1. place = "CONFIRMED" => journal[work[p].op].state \in Pending
      BY <1>1, <1>3, <2>1 DEF At
    <3> QED
      BY <1>1, <2>1, <3>1 DEF Recorded, Hidden, Pending, DInv, DStore
  <2>5. Fits(p, place)
    BY <1>3, <2>3, <2>4 DEF Fits
  <2>6. faults' \in 0..MaxFaults /\ Go(p, place) /\ UNCHANGED <<file, lock, journal>>
    BY <1>3, PartIs DEF Moves
  <2> QED
    BY <1>1, <2>1, <2>2, <2>5, <2>6, Goes
<1> QED
  BY <1>1, <1>2, <1>3 DEF Finalize, Confirm

LEMMA KilledStep ==
  ASSUME DInv, NEW p \in Procs, Killed(p), UNCHANGED <<legacy, published>>
  PROVE  DInv' /\ Step
  BY MovesOn DEF Killed, At

\* An edit behind a lock is seen, unless it puts there what the interrupted
\* operation put or found there.
LEMMA OwnerEditsStep ==
  ASSUME DInv, NEW f \in Files, OwnerEdits(f), UNCHANGED <<legacy, published>>
  PROVE  DInv' /\ AtomicStep
<1>1. /\ \A p \in Procs : work[p].at = "IDLE" /\ work'[p] = work[p]
      /\ file' = [file EXCEPT ![f] = Edited] /\ UNCHANGED <<lock, journal, work, faults>>
  BY DEF OwnerEdits, At
<1>2. \A x : Hidden(x)' <=> Hidden(x)
  BY <1>1 DEF Hidden
<1>3. /\ file' \in [Files -> Contents] /\ file'[f] = Edited
      /\ \A g \in Files : g # f => file'[g] = file[g]
  BY <1>1, PlanAssumption DEF DInv, DStore
<1>4. HiddenIsLocked' /\ Tidy'
  BY <1>1, <1>2 DEF DInv, DStore, HiddenIsLocked, Tidy
<1>5. Spoilt'
  <2> SUFFICES ASSUME NEW o \in Ops, Hidden(o)', NEW g \in TargetSet(o)
               PROVE  Known(g, o, journal[o].orig)' \/ file'[g] = Edited
    BY DEF Spoilt
  <2>1. g \in Files /\ (Known(g, o, journal[o].orig) \/ file[g] = Edited)
    BY <1>2, TargetsAreFiles DEF DInv, DStore, Spoilt
  <2> QED
    BY <1>1, <1>3, <2>1 DEF Known
<1>6. DStore'
  BY <1>1, <1>3, <1>4, <1>5 DEF DInv, DStore
<1>7. \A p \in Procs : PartOK(p)'
  BY <1>1, InactiveKept DEF DInv, Active
<1>8. Exclusive'
  BY <1>1 DEF DInv, Exclusive, Alone, Active
<1>9. InEffect' = InEffect
  BY <1>1, <1>2 DEF InEffect
<1>10. SeenFiles /\ SeenFiles'
  BY <1>4, Seen, SeenNext DEF DInv, DStore
<1>11. \A g \in Files : g # f => Visible'[g] = Visible[g]
  <2> SUFFICES ASSUME NEW g \in Files, g # f PROVE Visible'[g] = Visible[g]
    OBVIOUS
  <2>1. Behind(g)' <=> Behind(g)
    BY <1>1, <1>2, <1>3 DEF Behind, Known
  <2> QED
    BY <1>1, <1>3, <1>10, <2>1 DEF SeenFiles
<1>12. ASSUME Behind(f)' PROVE AtomicStep
  <2>1. lock \in Ops /\ Hidden(lock) /\ f \in TargetSet(lock) /\ Edited \in {journal[lock].orig[f], New[lock][f]}
    BY <1>1, <1>2, <1>3, <1>12 DEF Behind, Known
  <2>2. Known(f, lock, journal[lock].orig)
    BY <2>1 DEF DInv, DStore, Spoilt, Known
  <2>3. Visible'[f] = Visible[f]
    BY <1>1, <1>10, <1>12, <2>1, <2>2 DEF SeenFiles, Behind
  <2>4. Visible' = Visible
    BY <1>11, <2>3, Pointwise
  <2> QED
    BY <1>9, <2>4 DEF AtomicStep
<1>13. ASSUME ~Behind(f)' PROVE AtomicStep
  <2>1. Visible'[f] = Edited
    BY <1>3, <1>10, <1>13 DEF SeenFiles
  <2>2. Visible' = [Visible EXCEPT ![f] = Edited]
    BY <1>11, <2>1, Pointwise
  <2>3. \E g \in Files : Visible' = [Visible EXCEPT ![g] = Edited] /\ UNCHANGED InEffect
    BY <1>9, <2>2
  <2> QED
    BY <2>3 DEF AtomicStep, VisibleAtomic!AtomicNext, VisibleAtomic!OwnerEdits
<1>14. AtomicStep
  BY <1>12, <1>13
<1>15. NeverBack'
  BY <1>1 DEF NeverBack, Early
<1> QED
  BY <1>1, <1>6, <1>7, <1>8, <1>14, <1>15 DEF DInv

-----------------------------------------------------------------------------
\* Nothing is at work and nothing is hidden at the start.
LEMMA DomainInitOK == DomainInit => DInv
<1> SUFFICES ASSUME DomainInit PROVE DInv
  OBVIOUS
<1>1. /\ Idle \in Works /\ ~Active(Idle) /\ Idle.at = "IDLE"
      /\ work \in [Procs -> Works] /\ \A p \in Procs : work[p] = Idle
  BY IdleIsGood DEF DomainInit, Init, Idle
<1>2. \A p \in Procs : PartOK(p)
  BY <1>1 DEF PartOK, Active
<1>3. Exclusive
  BY <1>1 DEF Exclusive
<1>4. NoJournal \in Journal /\ \A o \in Ops : journal[o].state = "NONE"
  BY Shapes DEF Journal, NoJournal, States, DomainInit, Init
<1>5. \A o \in Ops : ~Hidden(o)
  BY <1>4 DEF Hidden, Pending
<1>6. legacy \subseteq Ops /\ published = {}
  BY LegacyAssumption DEF DomainInit
<1>7. DStore
  BY <1>4, <1>5, <1>6, PlanAssumption, FaultsAssumption
     DEF DomainInit, Init, DStore, HiddenIsLocked, Tidy, Spoilt
<1>8. NeverBack
  BY <1>4 DEF NeverBack, InEffect
<1> QED
  BY <1>1, <1>2, <1>3, <1>7, <1>8 DEF DInv

LEMMA DomainStutter == ASSUME DInv, UNCHANGED domainVars PROVE DInv' /\ Step
<1>1. UNCHANGED <<file, lock, journal, work, faults, legacy, published>>
  BY DEF domainVars
<1>2. \A p \in Procs : PartOK(p)'
  BY <1>1, PartKept DEF DInv
<1>3. HiddenIsLocked' /\ Tidy' /\ Spoilt'
  BY <1>1 DEF DInv, DStore, HiddenIsLocked, Tidy, Spoilt, Hidden, Known
<1>4. UNCHANGED <<Visible, InEffect>>
  BY <1>1, SameSeen
<1>5. NeverBack'
  BY <1>1, <1>4 DEF DInv, NeverBack
<1> QED
  BY <1>1, <1>2, <1>3, <1>4, <1>5 DEF DInv, DStore, Exclusive, Alone, Step

\* Only WriteLock and RemoveLock change a lock that is taken.
LEMMA LockStands ==
  ASSUME NEW p \in Procs,
         \/ Recheck(p) \/ Capture(p) \/ LegacyCapture(p) \/ Prepare(p) \/ Begin(p) \/ LegacyBegin(p)
         \/ Replace(p) \/ Validate(p) \/ LegacyValidate(p) \/ Commit(p) \/ LegacyCommit(p)
         \/ Unlock(p) \/ LegacyUnlock(p) \/ RollBack(p) \/ Restore(p) \/ LegacyRestore(p)
         \/ FinishRollBack(p) \/ LegacyFinish(p) \/ UnlockRolledBack(p) \/ LegacyRelease(p)
         \/ GiveUp(p)
  PROVE  lock' = lock
<1>1. \A place : Moves(p, place) \/ FailsTo(p, place) => lock' = lock
  BY DEF Moves, FailsTo
<1>2. \A failing : ReleasesLock(p, failing) => lock' = lock
  BY <1>1 DEF ReleasesLock
<1>3. \A state, place, failing : Journals(p, state, place, failing) => lock' = lock
  BY <1>1 DEF Journals
<1>4. CASE Recheck(p) \/ Capture(p) \/ LegacyCapture(p)
  BY <1>1, <1>2, <1>4 DEF Recheck, Capture, LegacyCapture
<1>5. CASE Prepare(p) \/ Begin(p) \/ LegacyBegin(p) \/ Replace(p) \/ Validate(p) \/ LegacyValidate(p)
  BY <1>1, <1>3, <1>5 DEF Prepare, Begin, LegacyBegin, Replace, Validate, LegacyValidate
<1>6. CASE Commit(p) \/ LegacyCommit(p) \/ Unlock(p) \/ LegacyUnlock(p) \/ RollBack(p) \/ GiveUp(p)
  BY <1>1, <1>2, <1>3, <1>6 DEF Commit, LegacyCommit, Unlock, LegacyUnlock, RollBack, GiveUp
<1>7. CASE Restore(p) \/ LegacyRestore(p)
  BY <1>1, <1>7 DEF Restore, LegacyRestore
<1>8. CASE FinishRollBack(p) \/ LegacyFinish(p) \/ UnlockRolledBack(p) \/ LegacyRelease(p)
  BY <1>1, <1>2, <1>3, <1>8 DEF FinishRollBack, LegacyFinish, UnlockRolledBack, LegacyRelease
<1> QED
  BY <1>4, <1>5, <1>6, <1>7, <1>8

LEMMA ExecutesStep ==
  ASSUME DInv, NEW p \in Procs, DomainExecutes(p)
  PROVE  DInv' /\ Step
<1>0. Publishes
  BY DEF DomainExecutes
<1>1. CASE CreateLock(p)
  <2>1. UNCHANGED <<legacy, published>>
    BY <1>0, <1>1, PublishesNothing DEF CreateLock
  <2> QED
    BY <1>1, <2>1, CreateLockStep
<1>2. CASE WriteLock(p)
  <2>1. lock = "TORN"
    BY <1>2, PartIs DEF WriteLock, At, PartOK
  <2>2. UNCHANGED <<legacy, published>>
    BY <1>0, <2>1, PublishesNothing
  <2> QED
    BY <1>2, <2>2, WriteLockStep
<1>3. CASE RemoveLock(p)
  BY <1>0, <1>3, RemoveLockStep
<1>4. ASSUME IsLegacy(p), LegacyExecutes(p), ~CreateLock(p), ~WriteLock(p), ~RemoveLock(p)
      PROVE  DInv' /\ Step
  <2>1. UNCHANGED <<legacy, published>>
    BY <1>0, <1>4, LockStands, PublishesNothing DEF LegacyExecutes
  <2> QED
    BY <1>4, <2>1, LegacyCaptureStep, PrepareStep, ReplaceStep, ValidateStep, LegacyCommitStep,
       LegacyUnlockStep, LegacyRestoreStep, LegacyFinishStep, UnlockRestoredStep, GiveUpStep
       DEF LegacyExecutes
<1>5. ASSUME ~IsLegacy(p), Executes(p), ~CreateLock(p), ~WriteLock(p), ~RemoveLock(p)
      PROVE  DInv' /\ Step
  <2>1. UNCHANGED <<legacy, published>>
    BY <1>0, <1>5, LockStands, PublishesNothing DEF Executes
  <2> QED
    BY <1>5, <2>1, RecheckStep, CaptureStep, PrepareStep, ReplaceStep, ValidateStep, CommitStep,
       UnlockStep, RollBackStep, RestoreStep, FinishStep, UnlockRestoredStep, GiveUpStep
       DEF Executes
<1> QED
  BY <1>1, <1>2, <1>3, <1>4, <1>5 DEF DomainExecutes

LEMMA RecoversStep ==
  ASSUME DInv, NEW p \in Procs, DomainRecovers(p)
  PROVE  DInv' /\ Step
<1>1. UNCHANGED <<legacy, published>>
  BY DEF DomainRecovers, Protocol
<1>2. CASE LegacyRecovers(p)
  BY <1>1, <1>2, StartRecoveryStep, RecoverFileStep, FinishStep, UnlockRestoredStep, GiveUpStep
     DEF LegacyRecovers
<1>3. CASE WorkspaceRecovers(p)
  BY <1>1, <1>3, ReviewStep, ConfirmStep, StartRecoveryStep, RecoverFileStep, FinishStep,
     UnlockRestoredStep, GiveUpStep DEF WorkspaceRecovers
<1> QED
  BY <1>1, <1>2, <1>3, LegacyReviewStep DEF DomainRecovers

\* Every step keeps the invariant, and is one of the atomic files or shows nothing.
LEMMA DomainNextOK == ASSUME DInv, [DomainNext]_domainVars PROVE DInv' /\ AtomicStep
<1>0. Step => AtomicStep
  BY DEF Step, AtomicStep, VisibleAtomic!AtomicNext
<1>1. ASSUME NEW p \in Procs, DomainChecks(p) PROVE DInv' /\ AtomicStep
  BY <1>0, <1>1, ChecksStep DEF DomainChecks, Protocol
<1>2. ASSUME NEW p \in Procs, DomainKilled(p) PROVE DInv' /\ AtomicStep
  BY <1>0, <1>2, KilledStep DEF DomainKilled, Protocol
<1>3. ASSUME NEW f \in Files, DomainOwnerEdits(f) PROVE DInv' /\ AtomicStep
  BY <1>3, OwnerEditsStep DEF DomainOwnerEdits, Protocol
<1> QED
  BY <1>0, <1>1, <1>2, <1>3, ExecutesStep, RecoversStep, DomainStutter DEF DomainNext
-----------------------------------------------------------------------------
\* With both protocols at work the invariant contains the same properties.
LEMMA DomainConsequences == DInv => TypeOK /\ OneWriter /\ PendingHoldsLock /\ PreimagesExact
<1> SUFFICES ASSUME DInv PROVE TypeOK /\ OneWriter /\ PendingHoldsLock /\ PreimagesExact
  OBVIOUS
<1>0. TypeOK
  BY DEF DInv, DStore, Journal, Works, TypeOK
<1>1. OneWriter
  <2> SUFFICES ASSUME NEW p \in Procs, Writes(p)
               PROVE  lock = work[p].op /\ \A q \in Procs : Writes(q) => q = p
    BY DEF OneWriter
  <2>1. \A q \in Procs : Writes(q) => Active(work[q]) /\ work[q].at # "LOCKING"
    BY DEF Writes, At, Active, Looking
  <2> QED
    BY <2>1, PartIs DEF Alone
<1>2. PendingHoldsLock
  BY DEF DInv, DStore, HiddenIsLocked, Hidden, PendingHoldsLock
<1>3. PreimagesExact
  BY DEF DInv, DStore, Exact, PreimagesExact
<1> QED
  BY <1>0, <1>1, <1>2, <1>3

LEMMA DomainInvariance == DomainSpec => []DInv
<1>1. DInv /\ [DomainNext]_domainVars => DInv'
  BY DomainNextOK
<1> QED
  BY <1>1, DomainInitOK, PTL DEF DomainSpec

\* With workspace and coordination operations under one lock file, whatever
\* fails, is killed, is recovered or is edited between, a process that holds the
\* lock works alone and under the lock of its own operation.
THEOREM OneWriterAcrossProtocols == DomainSpec => []OneWriter
  BY DomainInvariance, DomainConsequences, PTL

\* Whatever the two protocols find of each other, what is not settled keeps its
\* lock, and a journal preserves exactly what its operation was planned against.
THEOREM JournalsAcrossProtocols == DomainSpec => [](TypeOK /\ PendingHoldsLock /\ PreimagesExact)
  BY DomainInvariance, DomainConsequences, PTL

\* Both protocols together implement the atomic files: what a governed reader
\* can see changes only when an operation takes effect as a whole, on the inputs
\* it was planned against, or when the owner edits a file.
THEOREM DomainsImplementAtomicAlways == DomainSpec => DomainsImplementAtomic
<1>1. DInv /\ [DomainNext]_domainVars => DInv' /\ [VisibleAtomic!AtomicNext]_<<Visible, InEffect>>
  BY DomainNextOK DEF AtomicStep
<1> QED
  BY <1>1, DomainInvariance, PTL DEF DomainSpec, DomainsImplementAtomic
==============================================================================
