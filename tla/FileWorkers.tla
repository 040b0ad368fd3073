---------------------------- MODULE FileWorkers -----------------------------
(***************************************************************************)
(* v2_local_host.py and v2_file_update.py: the workers that carry out file *)
(* operations.  A worker is one call of read_file, create_file or          *)
(* update_file; it alternates store transactions with file I/O and may     *)
(* vanish between any two of them.                                         *)
(*                                                                         *)
(* create_file checks its lease, then writes outside any transaction.      *)
(* update_file works on an exclusive handle, commits the preimage in one   *)
(* transaction, and checks the lease and writes inside a second one.       *)
(***************************************************************************)
EXTENDS Operations

CONSTANT OpKind   \* operation -> "read", "create" or "update"

ASSUME KindAssumption == OpKind \in [Ops -> {"read", "create", "update"}]

VARIABLES
  worker,    \* where the call for an operation is, "GONE" once it ended or died
  effect,    \* what the call has done with the file: nothing, part, all of it
  preimage   \* FILE_UPDATE_PREIMAGE is recorded, so the old bytes are safe

workerVars == <<worker, effect, preimage>>

WorkerStates == {"IDLE", "ADMITTED", "OPEN", "SAVED", "WRITTEN", "UNCERTAIN",
                 "REFUSED", "GONE"}

WorkerTypeOK ==
  /\ worker \in [Ops -> WorkerStates]
  /\ effect \in [Ops -> {"NONE", "PARTIAL", "APPLIED"}]
  /\ preimage \in [Ops -> BOOLEAN]

WorkerInit ==
  /\ worker = [o \in Ops |-> "IDLE"]
  /\ effect = [o \in Ops |-> "NONE"]
  /\ preimage = [o \in Ops |-> FALSE]

WorkerLive(o) == worker[o] \notin {"IDLE", "GONE"}

\* exclusive_existing_file: no other process can open the file meanwhile.
HandleOpening(o) == OpKind[o] = "update" /\ worker[o] = "OPEN"   \* mutant: closed too early
HandleHeld(o) == OpKind[o] = "update" /\ worker[o] \in {"OPEN", "SAVED"}

At(o, s) == worker' = [worker EXCEPT ![o] = s]
Does(o, e) == effect' = [effect EXCEPT ![o] = e]

\* The call's own transaction; execute_once sends exactly one worker on.
Begin(o) ==
  /\ worker[o] = "IDLE"
  /\ RecordIntent(o)
  /\ At(o, "ADMITTED")
  /\ UNCHANGED <<effect, preimage>>

\* read_file and create_file: a refused lease leaves the call, and the intent
\* it recorded, behind.
VerifyLease(o) ==
  /\ OpKind[o] # "update" /\ worker[o] = "ADMITTED"
  /\ At(o, IF LeaseValid(o) THEN "OPEN" ELSE "GONE")
  /\ UNCHANGED <<storeVars, effect, preimage>>

Read(o) ==
  /\ OpKind[o] = "read" /\ worker[o] = "OPEN"
  /\ \/ At(o, "WRITTEN") /\ Does(o, "APPLIED")
     \/ At(o, "REFUSED") /\ UNCHANGED effect
  /\ UNCHANGED <<storeVars, preimage>>

\* open('xb'): the file is there, still empty, from here on.
CreateExclusive(o) ==
  /\ OpKind[o] = "create" /\ worker[o] = "OPEN"
  /\ \/ At(o, "SAVED") /\ Does(o, "PARTIAL")
     \/ At(o, "REFUSED") /\ UNCHANGED effect
  /\ UNCHANGED <<storeVars, preimage>>

CreateWrite(o) ==
  /\ OpKind[o] = "create" /\ worker[o] = "SAVED"
  /\ \/ At(o, "WRITTEN") /\ Does(o, "APPLIED")
     \/ /\ At(o, "UNCERTAIN")
        /\ \E e \in {"PARTIAL", "APPLIED"} : Does(o, e)
  /\ UNCHANGED <<storeVars, preimage>>

\* update_file: the exclusive open succeeds on the expected bytes, or not.
OpenExclusive(o) ==
  /\ OpKind[o] = "update" /\ worker[o] = "ADMITTED"
  /\ \/ /\ At(o, "OPEN")
        /\ \A p \in Ops \ {o} : <<o, p>> \in OpConflicts => ~HandleHeld(p)
     \/ At(o, "REFUSED")
  /\ UNCHANGED <<storeVars, effect, preimage>>

PreservePreimage(o) ==
  /\ OpKind[o] = "update" /\ worker[o] = "OPEN"
  /\ IF LeaseValid(o)
     THEN At(o, "SAVED") /\ preimage' = [preimage EXCEPT ![o] = TRUE]
     ELSE At(o, "REFUSED") /\ UNCHANGED preimage
  /\ UNCHANGED <<storeVars, effect>>

FencedWrite(o) ==
  /\ OpKind[o] = "update" /\ worker[o] = "SAVED"
  /\ \/ LeaseValid(o) /\ At(o, "WRITTEN") /\ Does(o, "APPLIED")
     \/ /\ LeaseValid(o) /\ At(o, "UNCERTAIN")
        /\ \E e \in {"NONE", "PARTIAL", "APPLIED"} : Does(o, e)
     \/ ~LeaseValid(o) /\ At(o, "REFUSED") /\ UNCHANGED effect
  /\ UNCHANGED <<storeVars, preimage>>

\* The call's last transaction.  If the operation is no longer pending the
\* observation is a replay or refused, and the store keeps what it knew.
OutcomeGuessed(o) ==   \* mutant: an interrupted write is taken for none
  IF worker[o] = "WRITTEN" THEN "SUCCEEDED" ELSE "FAILED"
Outcome(o) == CASE worker[o] = "WRITTEN" -> "SUCCEEDED"
                [] worker[o] = "UNCERTAIN" -> "UNKNOWN"
                [] worker[o] = "REFUSED" -> "FAILED"

Report(o) ==
  /\ worker[o] \in {"WRITTEN", "UNCERTAIN", "REFUSED"}
  /\ At(o, "GONE")
  /\ IF OpPending(o) THEN Observe(o, Outcome(o)) ELSE UNCHANGED storeVars
  /\ UNCHANGED <<effect, preimage>>

WorkerDies(o) ==
  /\ WorkerLive(o)
  /\ At(o, "GONE")
  /\ \/ UNCHANGED effect
     \* mid-write, under the handle
     \/ worker[o] = "SAVED" /\ OpKind[o] = "update" /\ LeaseValid(o) /\ Does(o, "PARTIAL")
  /\ UNCHANGED <<storeVars, preimage>>

\* reconcile_update looks at the bytes under the exclusive handle; it needs
\* the preimage record and answers only when the file is wholly old or new.
ReconcileUpdate(o) ==
  /\ OpKind[o] = "update" /\ preimage[o]
  /\ \A p \in Ops : (p = o \/ <<o, p>> \in OpConflicts) => ~HandleHeld(p)
  /\ OpPending(o)
  /\ \/ effect[o] = "APPLIED" /\ Observe(o, "SUCCEEDED")
     \/ effect[o] = "NONE" /\ Observe(o, "FAILED")
  /\ UNCHANGED workerVars

\* operation.observe by whoever holds the actor name, once the call is gone:
\* assumed truthful, which nothing in the code can check.
Attest(o) ==
  /\ worker[o] = "GONE" /\ OpPending(o)
  /\ \/ effect[o] = "APPLIED" /\ Observe(o, "SUCCEEDED")
     \/ effect[o] = "NONE" /\ Observe(o, "FAILED")
     \/ opState[o] # "UNKNOWN" /\ Observe(o, "UNKNOWN")
  /\ UNCHANGED workerVars

WorkerStep(o) ==
  \/ VerifyLease(o) \/ Read(o) \/ CreateExclusive(o) \/ CreateWrite(o)
  \/ OpenExclusive(o) \/ PreservePreimage(o) \/ FencedWrite(o) \/ Report(o)

=============================================================================
