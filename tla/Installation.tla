---------------------------- MODULE Installation ----------------------------
(* One installation of MALTS: a registry of generations, the pointer to the    *)
(* active one, their images, what is projected into the Hosts' directories,    *)
(* and the entries in the Hosts' own configuration files.  An operation        *)
(* changes all of them in steps, under a mutex that its process loses with its *)
(* life, a lock file that it does not, and a journal in a transaction          *)
(* directory from which another process recovers.  Version 2 recovers forward  *)
(* only, the legacy version and every uninstallation are rolled back.          *)
EXTENDS Naturals, FiniteSets

CONSTANTS
  Operations,   \* identities of install, update, repair, finalize and uninstall
  Retirements,  \* identities of retirements of old generations
  Generations,
  Second,       \* the generations of version 2; they bring the MCP runtime along
  Tools,        \* selected Hosts
  None,
  MaxMishaps,   \* bound: exceptions (I/O), killed processes and edits together
  MaxEdits      \* bound: edits of the owner and damaged images

ASSUME SecondAssumption == Second \subseteq Generations
ASSUME IdentitiesAssumption ==
  Operations \cap (Retirements \cup {"absent", "damaged"}) = {}

(***************************************************************************)
(* What the files hold                                                     *)
(***************************************************************************)
Kinds == {"install", "update", "repair", "finalize", "uninstall"}
GenerationOrNone == Generations \cup {None}
OperationOrNone == Operations \cup {None}
Registries == [generations : [Generations -> {"absent", "active", "retiring"}],
               status : {"missing", "transaction-active", "stable", "uninstalled"},
               by : OperationOrNone]
ImageStates == Operations \cup {"absent", "damaged"}
Images == [Generations -> ImageStates]
Projections == [Tools -> [files : GenerationOrNone, manifest : GenerationOrNone]]
HostFiles == [Tools -> [entry : BOOLEAN, edition : Nat]]
Snapshots == [registry : Registries, pointer : GenerationOrNone, image : Images, tool : Projections]
JournalStates == {"DISCOVER", "LOCK", "PLAN", "STAGE", "SNAPSHOT", "PREVALIDATE", "ACTIVATE",
                  "POSTVALIDATE", "CLEAN", "COMMIT", "ROLLBACK", "FAILED"}
Transactions == [state : JournalStates, staged : BOOLEAN,
                 snapshot : {"NONE", "PARTIAL", "COMPLETE"}, saved : Snapshots \cup {None},
                 restored : BOOLEAN, failedAt : JournalStates \cup {None}]
Plans == [kind : Kinds, gen : Generations,
          basis : [registry : Registries, image : ImageStates, tool : Projections, host : HostFiles]]
Retiring == [gen : Generations, target : {"PREPARED", "RECYCLING", "RECYCLED_VERIFIED"},
             receipt : BOOLEAN,
             status : {"PREPARED", "RECOVERY_REQUIRED", "COMMITTED", "ABORTED"},
             before : Registries, surfaces : GenerationOrNone \X Projections]
Locks == [op : Operations, live : BOOLEAN]
Bindings == [gen : Generations, by : OperationOrNone]

ASSUME NoneAssumption ==
  None \notin Generations \cup Transactions \cup Plans \cup Retiring \cup Locks \cup Bindings

VARIABLES
  registry,  \* [generations: "absent", "active" or "retiring" each; status; by: who wrote it]
  pointer,   \* generation or None
  image,     \* image[g]: "absent", "damaged" or the operation that placed it
  tool,      \* tool[t]: generation of the projected files and of their manifest
  host,      \* host[t]: [entry, edition] of the Host's own configuration file
  ledger,    \* the MCP installation record says READY
  lock,      \* None or [op, live]
  plan,      \* plan[o]: the reviewed plan, or None
  tx,        \* tx[o]: the transaction directory of o, or None
  run,       \* the process that has the mutex: [op, at, how, undo], or None
  serving,   \* the generation a runtime request works with; it has the mutex
  retire,    \* retire[r]: [gen, target, receipt, status], or None
  audit,     \* [current: the binding receipt, verdict of each operation]
  faults, edits

vars == <<registry, pointer, image, tool, host, ledger, lock, plan, tx, run, serving,
          retire, audit, faults, edits>>
installed == <<registry, pointer, image, tool>>
mcp == <<host, ledger>>
bounds == <<faults, edits>>

Active == IF \E g \in Generations : registry.generations[g] = "active"
          THEN CHOOSE g \in Generations : registry.generations[g] = "active" ELSE None
Forward(o) == plan[o].kind # "uninstall" /\ plan[o].gen \in Second
HasRuntime(o) == plan[o].gen \in Second
Intact(g) == image[g] \in Operations
\* What the binding receipt is about: the active record and when it was made.
Binding == IF Active = None THEN None ELSE [gen |-> Active, by |-> registry.by]

\* _require_v2_runtime_direction
Direction(generations, g, kind) ==
  \/ kind = "uninstall" \/ \A old \in Second : generations[old] = "absent"
  \/ g \in Second

TransactionsOpen == \E o \in Operations : tx[o] # None
RetirementsIdle == \A r \in Retirements : retire[r] # None => retire[r].status \in {"COMMITTED", "ABORTED"}
\* The runtime mutex is free.
IdleForOperations == run = None  \* mutant: a request does not hold the mutex
Idle == run = None /\ serving = None

Init ==
  /\ registry = [generations |-> [g \in Generations |-> "absent"], status |-> "missing", by |-> None]
  /\ pointer = None /\ image = [g \in Generations |-> "absent"]
  /\ tool = [t \in Tools |-> [files |-> None, manifest |-> None]]
  /\ host = [t \in Tools |-> [entry |-> FALSE, edition |-> 0]] /\ ledger = FALSE
  /\ lock = None /\ plan = [o \in Operations |-> None] /\ tx = [o \in Operations |-> None]
  /\ run = None /\ serving = None /\ retire = [r \in Retirements |-> None]
  /\ audit = [current |-> None, verdict |-> [o \in Operations |-> None]]
  /\ faults = 0 /\ edits = 0

------------------------------------------------------------------------------
\* Plans

\* _same_generation_disposition: what may be done to g.  The same generation in
\* good order is NO_OP, a name in use is a collision.
Disposed(kind, g) ==
  CASE kind = "install" -> registry.status \in {"missing", "uninstalled"} /\ image[g] = "absent"
    [] kind = "update" -> Active # None /\ image[g] = "absent" /\ registry.generations[g] = "absent"
    [] kind = "repair" -> Active = g
    [] kind = "finalize" -> registry.generations[g] # "absent" /\ (Active = g \/ image[g] # "absent")
    [] kind = "uninstall" -> Active = g

\* The managed entries are as the installation record has them.
EntriesAsRecorded == \A t \in Tools : host[t].entry = ledger

Basis(g) == [registry |-> registry, image |-> image[g], tool |-> tool, host |-> host]

Plan(o, kind, g) ==
  /\ plan[o] = None /\ run = None /\ RetirementsIdle
  /\ Disposed(kind, g) /\ Direction(registry.generations, g, kind)
  /\ g \in Second => EntriesAsRecorded
  /\ plan' = [plan EXCEPT ![o] = [kind |-> kind, gen |-> g, basis |-> Basis(g)]]
  /\ UNCHANGED <<installed, mcp, lock, tx, run, serving, retire, audit, bounds>>

\* _verify_plan_inputs
InputsHold(o) == LET b == plan[o].basis IN
  /\ registry = b.registry /\ tool = b.tool
  /\ Direction(registry.generations, plan[o].gen, plan[o].kind)
  /\ plan[o].kind # "uninstall" => image[plan[o].gen] = b.image
  /\ HasRuntime(o) => host = b.host

------------------------------------------------------------------------------
\* Steps and failures

At(o, at) == run # None /\ run.op = o /\ run.at = at
Go(at) == run' = [run EXCEPT !.at = at]
Journal(o, state) == tx' = [tx EXCEPT ![o].state = state]
NewTransaction(state) ==
  [state |-> state, staged |-> FALSE, snapshot |-> "NONE", saved |-> None, restored |-> FALSE, failedAt |-> None]

BeforeActivation == {"LOCK", "RECHECK", "REFUSED", "PLAN", "STAGE", "SNAPSHOT", "SNAPSHOT2", "PREVALIDATE"}

\* An exception.  Recovery leaves things as they are; a rollback that fails says
\* so in the journal; an activation of version 2 is never taken back; the rest
\* is rolled back at once, a journal that is gone being written anew.
Raise(o) ==
  IF run.how = "RECOVER" \/ (~run.undo /\ Forward(o) /\ run.at \notin BeforeActivation)
  THEN run' = None /\ UNCHANGED tx
  ELSE IF run.undo
  THEN /\ run' = None
       /\ tx' = IF tx[o] = None \/ tx[o].state = "FAILED" THEN tx
                ELSE [tx EXCEPT ![o].state = "FAILED", ![o].failedAt = tx[o].state]
  ELSE /\ run' = [run EXCEPT !.at = "UNDO", !.undo = TRUE]
       /\ tx' = IF tx[o] # None THEN tx ELSE [tx EXCEPT ![o] = NewTransaction("COMMIT")]

Raises(o) == Raise(o) /\ UNCHANGED <<installed, mcp, lock, plan, serving, retire, audit, bounds>>

Fault ==
  /\ run # None /\ run.op \in Operations /\ faults + edits < MaxMishaps /\ faults' = faults + 1
  /\ Raise(run.op) /\ UNCHANGED <<installed, mcp, lock, plan, serving, retire, audit, edits>>

Killed ==
  /\ run # None /\ faults + edits < MaxMishaps /\ faults' = faults + 1 /\ run' = None
  /\ UNCHANGED <<installed, mcp, lock, plan, tx, serving, retire, audit, edits>>

------------------------------------------------------------------------------
\* _execute_plan_with_artifact

Begin(o) ==
  /\ Idle /\ plan[o] # None /\ tx[o] = None /\ audit.verdict[o] = None
  /\ RetirementsIdle /\ InputsHold(o)
  /\ tx' = [tx EXCEPT ![o] = NewTransaction("DISCOVER")]
  /\ run' = [op |-> o, at |-> "LOCK", how |-> "EXECUTE", undo |-> FALSE]
  /\ UNCHANGED <<installed, mcp, lock, plan, serving, retire, audit, bounds>>

LockExpires ==
  /\ run = None /\ lock # None /\ lock.live /\ lock' = [lock EXCEPT !.live = FALSE]
  /\ UNCHANGED <<installed, mcp, plan, tx, run, serving, retire, audit, bounds>>

LockIsStale == lock # None /\ ~lock.live
\* A lock that expired is replaced, unless its operation has a transaction.
LockIsFree == lock = None \/ (LockIsStale /\ tx[lock.op] = None)
AcquireLock(o) ==
  /\ At(o, "LOCK")
  /\ IF LockIsFree
     THEN /\ lock' = [op |-> o, live |-> TRUE] /\ Go("RECHECK")
          /\ UNCHANGED <<installed, mcp, plan, tx, serving, retire, audit, bounds>>
     ELSE Raises(o)

Recheck(o) ==
  /\ At(o, "RECHECK") /\ Journal(o, "LOCK") /\ Go(IF InputsHold(o) THEN "PLAN" ELSE "REFUSED")
  /\ UNCHANGED <<installed, mcp, lock, plan, serving, retire, audit, bounds>>
Refused(o) == At(o, "REFUSED") /\ Raises(o)

MarkPlan(o) ==
  /\ At(o, "PLAN") /\ Journal(o, "PLAN") /\ Go("STAGE")
  /\ UNCHANGED <<installed, mcp, lock, plan, serving, retire, audit, bounds>>

Stage(o) ==
  /\ At(o, "STAGE") /\ tx' = [tx EXCEPT ![o].state = "STAGE", ![o].staged = TRUE] /\ Go("SNAPSHOT")
  /\ UNCHANGED <<installed, mcp, lock, plan, serving, retire, audit, bounds>>

\* A snapshot is a directory that fills; its last file makes it complete.
BeginSnapshot(o) ==
  /\ At(o, "SNAPSHOT") /\ tx' = [tx EXCEPT ![o].snapshot = "PARTIAL"] /\ Go("SNAPSHOT2")
  /\ UNCHANGED <<installed, mcp, lock, plan, serving, retire, audit, bounds>>
Snapshot(o) ==
  /\ At(o, "SNAPSHOT2") /\ Go("PREVALIDATE")
  /\ tx' = [tx EXCEPT ![o].state = "SNAPSHOT", ![o].snapshot = "COMPLETE",
              ![o].saved = [registry |-> registry, pointer |-> pointer, image |-> image, tool |-> tool]]
  /\ UNCHANGED <<installed, mcp, lock, plan, serving, retire, audit, bounds>>

Prevalidate(o) ==
  /\ At(o, "PREVALIDATE")
  /\ IF InputsHold(o)
     THEN /\ Journal(o, "PREVALIDATE")
          /\ Go(IF plan[o].kind = "uninstall" THEN "REGISTER" ELSE "REMOVE")
          /\ UNCHANGED <<installed, mcp, lock, plan, serving, retire, audit, bounds>>
     ELSE Raises(o)

\* _activate: an image in place is removed (repair and finalize only), the
\* staged one moves there, the registry names it, the pointer follows.
RemoveTarget(o) ==
  /\ At(o, "REMOVE")
  /\ IF image[plan[o].gen] = "absent" \/ plan[o].kind \in {"repair", "finalize"}
     THEN /\ image' = [image EXCEPT ![plan[o].gen] = "absent"] /\ Go("PLACE")
          /\ UNCHANGED <<registry, pointer, tool, mcp, lock, plan, tx, serving, retire, audit, bounds>>
     ELSE Raises(o)
PlaceTarget(o) ==
  /\ At(o, "PLACE") /\ image' = [image EXCEPT ![plan[o].gen] = o]
  /\ tx' = [tx EXCEPT ![o].staged = FALSE] /\ Go("REGISTER")
  /\ UNCHANGED <<registry, pointer, tool, mcp, lock, plan, serving, retire, audit, bounds>>

Registered(o) ==
  IF plan[o].kind = "uninstall"
  THEN [generations |-> [g \in Generations |-> IF registry.generations[g] = "active" THEN "retiring"
                                               ELSE registry.generations[g]],
        status |-> "uninstalled", by |-> o]
  ELSE [generations |-> [g \in Generations |-> IF g = plan[o].gen THEN "active"
                                               ELSE IF registry.generations[g] = "absent" THEN "absent"
                                               ELSE "retiring"],
        status |-> "transaction-active", by |-> o]
WriteRegistry(o) ==
  /\ At(o, "REGISTER") /\ Direction(registry.generations, plan[o].gen, plan[o].kind)
  /\ registry' = Registered(o) /\ Go("POINT")
  /\ UNCHANGED <<pointer, image, tool, mcp, lock, plan, tx, serving, retire, audit, bounds>>
WritePointer(o) ==
  /\ At(o, "POINT") /\ pointer' = (IF plan[o].kind = "uninstall" THEN None ELSE plan[o].gen)
  /\ Go("ACTIVATE")
  /\ UNCHANGED <<registry, image, tool, mcp, lock, plan, tx, serving, retire, audit, bounds>>
Activated(o) ==
  /\ At(o, "ACTIVATE") /\ Journal(o, "ACTIVATE") /\ Go("PROJECT")
  /\ UNCHANGED <<installed, mcp, lock, plan, serving, retire, audit, bounds>>

Wanted(o) == IF plan[o].kind = "uninstall" THEN None ELSE plan[o].gen
\* _apply_projections: the files of a Host, then their manifest.
ProjectFiles(o, t) ==
  /\ At(o, "PROJECT") /\ tool[t].files # Wanted(o)
  /\ tool' = [tool EXCEPT ![t].files = Wanted(o)]
  /\ UNCHANGED <<registry, pointer, image, mcp, lock, plan, tx, run, serving, retire, audit, bounds>>
ProjectManifest(o, t) ==
  /\ At(o, "PROJECT") /\ tool[t].files = Wanted(o) /\ tool[t].manifest # Wanted(o)
  /\ tool' = [tool EXCEPT ![t].manifest = Wanted(o)]
  /\ UNCHANGED <<registry, pointer, image, mcp, lock, plan, tx, run, serving, retire, audit, bounds>>
ProjectionsHold(o) == \A t \in Tools : tool[t].manifest = Wanted(o) /\ tool[t].files = Wanted(o)
Postvalidate(o) ==
  /\ At(o, "PROJECT") /\ ProjectionsHold(o) /\ Journal(o, "POSTVALIDATE") /\ Go("READY")
  /\ UNCHANGED <<installed, mcp, lock, plan, serving, retire, audit, bounds>>
ReadyToClean(o) ==
  /\ At(o, "READY") /\ Journal(o, "CLEAN") /\ Go("CLEAN")
  /\ UNCHANGED <<installed, mcp, lock, plan, serving, retire, audit, bounds>>

\* _clean: an uninstallation removes every image and then forgets them, a legacy
\* finalization forgets the retiring ones and then removes them, all else keeps
\* them.  The registry is stable again.
Forgotten(o) == CASE plan[o].kind = "uninstall" -> {g \in Generations : plan[o].basis.registry.generations[g] # "absent"}
                  [] plan[o].kind = "finalize" /\ ~Forward(o) ->
                       {g \in Generations \ {plan[o].gen} : plan[o].basis.registry.generations[g] # "absent"}
                  [] OTHER -> {}
Cleaned(o) ==
  [generations |-> [g \in Generations |-> IF g \in Forgotten(o) THEN "absent" ELSE registry.generations[g]],
   status |-> IF plan[o].kind = "uninstall" THEN "uninstalled" ELSE "stable", by |-> o]
ImagesGone(o) == \A g \in Forgotten(o) : image[g] = "absent"
CleanRegistry(o) ==
  /\ At(o, "CLEAN") /\ (plan[o].kind = "uninstall" => ImagesGone(o))
  /\ registry # Cleaned(o) /\ registry' = Cleaned(o)
  /\ UNCHANGED <<pointer, image, tool, mcp, lock, plan, tx, run, serving, retire, audit, bounds>>
CleanImages(o) ==
  /\ At(o, "CLEAN") /\ ~ImagesGone(o) /\ (plan[o].kind # "uninstall" => registry = Cleaned(o))
  /\ image' = [g \in Generations |-> IF g \in Forgotten(o) THEN "absent" ELSE image[g]]
  /\ UNCHANGED <<registry, pointer, tool, mcp, lock, plan, tx, run, serving, retire, audit, bounds>>

\* mcp_install.apply: every Host's file is as it was reviewed, or already as it
\* shall be; then one after the other is written, and the record at last.
After(o, t) == [plan[o].basis.host[t] EXCEPT !.entry = plan[o].kind # "uninstall"]
EntriesReviewed(o) == \A t \in Tools : host[t] \in {plan[o].basis.host[t], After(o, t)}
ReviewEntriesAsPlanned(o) ==  \* mutant: what this operation wrote counts as an edit
  /\ At(o, "CLEAN") /\ registry = Cleaned(o) /\ ImagesGone(o)
  /\ IF HasRuntime(o) => host = plan[o].basis.host
     THEN /\ Go(IF HasRuntime(o) THEN "ENTRIES" ELSE "COMMIT")
          /\ UNCHANGED <<installed, mcp, lock, plan, tx, serving, retire, audit, bounds>>
     ELSE Raises(o)
ReviewEntries(o) ==
  /\ At(o, "CLEAN") /\ registry = Cleaned(o) /\ ImagesGone(o)
  /\ IF HasRuntime(o) => EntriesReviewed(o)
     THEN /\ Go(IF HasRuntime(o) THEN "ENTRIES" ELSE "COMMIT")
          /\ UNCHANGED <<installed, mcp, lock, plan, tx, serving, retire, audit, bounds>>
     ELSE Raises(o)
WriteEntry(o, t) ==
  /\ At(o, "ENTRIES") /\ host[t] # After(o, t)
  /\ IF host[t] = plan[o].basis.host[t]
     THEN /\ host' = [host EXCEPT ![t] = After(o, t)]
          /\ UNCHANGED <<installed, ledger, lock, plan, tx, run, serving, retire, audit, bounds>>
     ELSE Raises(o)
RecordEntries(o) ==
  /\ At(o, "ENTRIES") /\ \A t \in Tools : host[t] = After(o, t)
  /\ ledger' = (plan[o].kind # "uninstall") /\ Go("COMMIT")
  /\ UNCHANGED <<installed, host, lock, plan, tx, serving, retire, audit, bounds>>

Commit(o) ==
  /\ At(o, "COMMIT") /\ Journal(o, "COMMIT") /\ Go("AUDIT")
  /\ UNCHANGED <<installed, mcp, lock, plan, serving, retire, audit, bounds>>
\* _record_audit_outcome; the receipt follows the active generation.
RecordOutcome(o) ==
  /\ At(o, "AUDIT") /\ Go("DISCARD")
  /\ audit' = [current |-> Binding, verdict |-> [audit.verdict EXCEPT ![o] =
                 IF plan[o].kind = "uninstall" THEN "UNINSTALLED" ELSE "SUCCESS"]]
  /\ UNCHANGED <<installed, mcp, lock, plan, tx, serving, retire, bounds>>
Discard(o) ==
  /\ At(o, "DISCARD") /\ tx' = [tx EXCEPT ![o] = None] /\ Go("UNLOCK")
  /\ UNCHANGED <<installed, mcp, lock, plan, serving, retire, audit, bounds>>
Unlock(o) ==
  /\ At(o, "UNLOCK") /\ lock' = (IF lock # None /\ lock.op = o THEN None ELSE lock)
  /\ run' = IF run.undo THEN None ELSE [run EXCEPT !.at = "SCAN"]
  /\ UNCHANGED <<installed, mcp, plan, tx, serving, retire, audit, bounds>>
\* scan_residue: a transaction of anybody's is residue.
FinalScan(o) ==
  /\ At(o, "SCAN")
  /\ IF TransactionsOpen THEN Raises(o)
     ELSE run' = None /\ UNCHANGED <<installed, mcp, lock, plan, tx, serving, retire, audit, bounds>>

ExecutionStep(o) ==
  \/ AcquireLock(o) \/ Recheck(o) \/ Refused(o) \/ MarkPlan(o) \/ Stage(o) \/ BeginSnapshot(o) \/ Snapshot(o)
  \/ Prevalidate(o) \/ RemoveTarget(o) \/ PlaceTarget(o) \/ WriteRegistry(o) \/ WritePointer(o) \/ Activated(o)
  \/ Postvalidate(o) \/ ReadyToClean(o) \/ CleanRegistry(o) \/ CleanImages(o) \/ ReviewEntries(o)
  \/ RecordEntries(o) \/ Commit(o) \/ RecordOutcome(o) \/ Discard(o) \/ Unlock(o) \/ FinalScan(o)
  \/ \E t \in Tools : ProjectFiles(o, t) \/ ProjectManifest(o, t) \/ WriteEntry(o, t)
------------------------------------------------------------------------------
\* _rollback and _restore_snapshot

ActiveOf(generations) == {g \in Generations : generations[g] = "active"}
SavedDirection(o) ==
  tx[o].saved # None =>
    \A g \in ActiveOf(tx[o].saved.registry.generations) : Direction(registry.generations, g, "restore")

\* What was staged or snapshotted decides whether anything is to be restored.
Untouched == {"DISCOVER", "LOCK", "PLAN", "STAGE"}
Undo(o) ==
  /\ At(o, "UNDO")
  /\ IF ~SavedDirection(o) THEN Raises(o)
     ELSE /\ Go(CASE tx[o].state \in Untouched \/ tx[o].snapshot = "NONE" -> "UNSTAGE"
                  [] tx[o].state \notin Untouched /\ tx[o].snapshot = "PARTIAL" -> "TORN"
                  [] OTHER -> "WIPE")
          /\ tx' = IF tx[o].state \in {"DISCOVER", "LOCK"} THEN tx ELSE [tx EXCEPT ![o].state = "ROLLBACK"]
          /\ UNCHANGED <<installed, mcp, lock, plan, serving, retire, audit, bounds>>
Torn(o) == At(o, "TORN") /\ Raises(o)

WipeImages(o) ==
  /\ At(o, "WIPE") /\ image' = [g \in Generations |-> "absent"] /\ Go("COPY")
  /\ UNCHANGED <<registry, pointer, tool, mcp, lock, plan, tx, serving, retire, audit, bounds>>
CopyImages(o) ==
  /\ At(o, "COPY") /\ image' = tx[o].saved.image /\ Go("REREG")
  /\ UNCHANGED <<registry, pointer, tool, mcp, lock, plan, tx, serving, retire, audit, bounds>>
RestoreRegistry(o) ==
  /\ At(o, "REREG") /\ registry' = tx[o].saved.registry /\ Go("REPOINT")
  /\ UNCHANGED <<pointer, image, tool, mcp, lock, plan, tx, serving, retire, audit, bounds>>
PointerKept(o) == At(o, "REPOINT") /\ Go("RETOOL") /\ UNCHANGED <<installed, mcp, lock, plan, tx, serving, retire, audit, bounds>>  \* mutant: forgotten
RestorePointer(o) ==
  /\ At(o, "REPOINT") /\ pointer' = tx[o].saved.pointer /\ Go("RETOOL")
  /\ UNCHANGED <<registry, image, tool, mcp, lock, plan, tx, serving, retire, audit, bounds>>
\* Files are removed by the manifest that is there and restored by the saved one.
Restored(t, saved) ==
  [files |-> IF saved.files # None THEN saved.files
             ELSE IF tool[t].manifest # None THEN None ELSE tool[t].files,
   manifest |-> saved.manifest]
RestoreTool(o, t) ==
  /\ At(o, "RETOOL") /\ tool[t] # Restored(t, tx[o].saved.tool[t])
  /\ tool' = [tool EXCEPT ![t] = Restored(t, tx[o].saved.tool[t])]
  /\ UNCHANGED <<registry, pointer, image, mcp, lock, plan, tx, run, serving, retire, audit, bounds>>
RestoredTools(o) ==
  /\ At(o, "RETOOL") /\ (\A t \in Tools : tool[t] = Restored(t, tx[o].saved.tool[t])) /\ Go("UNSTAGE")
  /\ UNCHANGED <<installed, mcp, lock, plan, tx, serving, retire, audit, bounds>>
MarkFailed(o) ==
  /\ At(o, "UNSTAGE") /\ Go("ARCHIVE")
  /\ tx' = [tx EXCEPT ![o].state = "FAILED", ![o].restored = TRUE, ![o].staged = FALSE,
                          ![o].failedAt = "ROLLBACK"]
  /\ UNCHANGED <<installed, mcp, lock, plan, serving, retire, audit, bounds>>
\* The binding receipt is repaired when it is missing and never overruled.
ReceiptAgrees == Binding # None => audit.current \in {None, Binding}
Archive(o) ==
  /\ At(o, "ARCHIVE")
  /\ IF ReceiptAgrees
     THEN /\ audit' = [current |-> IF Binding = None THEN audit.current ELSE Binding,
                       verdict |-> [audit.verdict EXCEPT ![o] = "RECOVERED"]]
          /\ Go("DISCARD") /\ UNCHANGED <<installed, mcp, lock, plan, tx, serving, retire, bounds>>
     ELSE Raises(o)

UndoStep(o) ==
  \/ Undo(o) \/ Torn(o) \/ WipeImages(o) \/ CopyImages(o) \/ RestoreRegistry(o) \/ RestorePointer(o)
  \/ RestoredTools(o) \/ MarkFailed(o) \/ Archive(o) \/ \E t \in Tools : RestoreTool(o, t)

------------------------------------------------------------------------------
\* recover_transaction

TargetIs(o) == IF plan[o].kind = "finalize" THEN image[plan[o].gen] = o ELSE Intact(plan[o].gen)
TargetActive(o) == TargetIs(o) /\ Active = plan[o].gen
TargetServed(o) == TargetActive(o) /\ pointer = plan[o].gen

\* _resume_v2_activation_before_registry: complete what is missing of the target.
ReviewedStillThere(o) == plan[o].kind = "finalize" /\ image[plan[o].gen] = plan[o].basis.image
ResumeTarget(o) ==
  IF pointer # tx[o].saved.pointer THEN None
  ELSE IF image[plan[o].gen] = "absent" /\ tx[o].staged THEN "PLACE"
  ELSE IF TargetIs(o) THEN "REGISTER"
  ELSE IF ReviewedStillThere(o) /\ tx[o].staged THEN "REMOVE"
  ELSE None
ResumeForward(o) == LET s == tx[o].state IN
  CASE s \in {"DISCOVER", "LOCK", "PLAN", "STAGE", "SNAPSHOT"} -> "UNDO"
    [] s = "PREVALIDATE" /\ registry = plan[o].basis.registry -> ResumeTarget(o)
    [] s = "PREVALIDATE" /\ registry # plan[o].basis.registry ->
                            IF TargetActive(o) /\ pointer \in {None, tx[o].saved.pointer, plan[o].gen}
                            THEN "POINT" ELSE None
    [] s = "ACTIVATE" /\ TargetServed(o) -> "PROJECT"
    [] s = "POSTVALIDATE" /\ TargetServed(o) /\ ProjectionsHold(o) -> "READY"
    [] s = "CLEAN" /\ TargetServed(o) /\ ProjectionsHold(o) -> "CLEAN"
    [] s = "COMMIT" /\ TargetServed(o) /\ ProjectionsHold(o) -> "AUDIT"
    [] OTHER -> None
ResumeBackClaimed(o) == LET s == tx[o].state IN  \* mutant: a failed rollback counts as done
  CASE s = "CLEAN" -> "CLEAN"
    [] s = "COMMIT" -> "AUDIT"
    [] s = "FAILED" -> "ARCHIVE"
    [] OTHER -> "UNDO"
ResumeBack(o) == LET s == tx[o].state IN
  CASE s = "CLEAN" -> "CLEAN"
    [] s = "COMMIT" -> "AUDIT"
    [] s = "FAILED" -> IF tx[o].failedAt = "COMMIT" /\ tx[o].snapshot = "COMPLETE" THEN "UNDO"
                       ELSE IF tx[o].restored THEN "ARCHIVE" ELSE None
    [] OTHER -> "UNDO"
\* Where another process takes the transaction up; None: it refuses.
Resume(o) == IF ~Direction(registry.generations, plan[o].gen, plan[o].kind) THEN None
             ELSE IF Forward(o) THEN ResumeForward(o) ELSE ResumeBack(o)

Recover(o) ==
  /\ Idle /\ tx[o] # None /\ Resume(o) # None
  /\ run' = [op |-> o, at |-> Resume(o), how |-> "RECOVER", undo |-> Resume(o) \in {"UNDO", "ARCHIVE"}]
  /\ UNCHANGED <<installed, mcp, lock, plan, tx, serving, retire, audit, bounds>>

------------------------------------------------------------------------------
\* lifecycle_retirement: an inactive generation leaves through an approved
\* recycler, whose effect may remain unknown.

Quiet == lock = None /\ ~TransactionsOpen
Healthy == /\ registry.status = "stable" /\ pointer = Active /\ Intact(pointer)
           /\ \A t \in Tools : tool[t].files = pointer /\ tool[t].manifest = pointer

StartRetirement(r, g) ==
  /\ Idle /\ retire[r] = None /\ RetirementsIdle /\ Quiet /\ Active # None /\ Healthy
  /\ registry.generations[g] = "retiring" /\ Intact(g)
  /\ retire' = [retire EXCEPT ![r] = [gen |-> g, target |-> "PREPARED", receipt |-> FALSE,
                                      status |-> "PREPARED", before |-> registry, surfaces |-> <<pointer, tool>>]]
  /\ run' = [op |-> r, at |-> "MARK", how |-> "RETIRE", undo |-> FALSE]
  /\ UNCHANGED <<installed, mcp, lock, plan, tx, serving, audit, bounds>>

SurfacesHold(r) == retire[r].surfaces = <<pointer, tool>>
RequiresRecovery(r) == run' = None /\ retire' = [retire EXCEPT ![r].status = "RECOVERY_REQUIRED"]
MarkRecycling(r) ==
  /\ At(r, "MARK")
  /\ IF SurfacesHold(r) /\ Intact(retire[r].gen)
     THEN retire' = [retire EXCEPT ![r].target = "RECYCLING"] /\ Go("INVOKE")
     ELSE RequiresRecovery(r)
  /\ UNCHANGED <<installed, mcp, lock, plan, tx, serving, audit, bounds>>
\* The recycler takes the image away or refuses, with or without a valid receipt.
Invoke(r) ==
  /\ At(r, "INVOKE")
  /\ \/ /\ image' = [image EXCEPT ![retire[r].gen] = "absent"]
        /\ \/ retire' = [retire EXCEPT ![r].receipt = TRUE] /\ Go("VERIFIED")
           \/ RequiresRecovery(r)
     \/ UNCHANGED image /\ RequiresRecovery(r)
  /\ UNCHANGED <<registry, pointer, tool, mcp, lock, plan, tx, serving, audit, bounds>>
RecordVerified(r) ==
  /\ At(r, "VERIFIED") /\ retire' = [retire EXCEPT ![r].target = "RECYCLED_VERIFIED"] /\ Go("DROP")
  /\ UNCHANGED <<installed, mcp, lock, plan, tx, serving, audit, bounds>>
\* _commit_verified
Verified(r, target) ==
  IF target = "RECYCLED_VERIFIED" THEN [retire[r].before EXCEPT !.generations[retire[r].gen] = "absent"]
  ELSE retire[r].before
DropFromRegistry(r) ==
  /\ At(r, "DROP") /\ registry' = Verified(r, retire[r].target) /\ Go("CLOSE")
  /\ UNCHANGED <<pointer, image, tool, mcp, lock, plan, tx, serving, retire, audit, bounds>>
CloseRetirement(r) ==
  /\ At(r, "CLOSE") /\ retire' = [retire EXCEPT ![r].status = "COMMITTED"] /\ run' = None
  /\ UNCHANGED <<installed, mcp, lock, plan, tx, serving, audit, bounds>>
RetirementFails ==
  /\ run # None /\ run.how = "RETIRE" /\ faults + edits < MaxMishaps /\ faults' = faults + 1
  /\ RequiresRecovery(run.op) /\ UNCHANGED <<installed, mcp, lock, plan, tx, serving, audit, edits>>

\* The recorded receipt decides; no effect is repeated.
Reconciled(r) ==
  IF retire[r].target = "RECYCLING" /\ retire[r].receipt /\ image[retire[r].gen] = "absent"
  THEN "RECYCLED_VERIFIED" ELSE retire[r].target
RecoverRetirement(r) == LET target == Reconciled(r) IN
  /\ Idle /\ retire[r] # None /\ retire[r].status # "COMMITTED" /\ Quiet /\ SurfacesHold(r)
  /\ \A s \in Retirements \ {r} : retire[s] # None => retire[s].status \in {"COMMITTED", "ABORTED"}
  /\ registry \in {retire[r].before, Verified(r, target)} /\ registry' = Verified(r, target)
  /\ retire' = [retire EXCEPT ![r].target = target,
       ![r].status = CASE target = "RECYCLED_VERIFIED" -> "COMMITTED"
                       [] target = "PREPARED" /\ Intact(retire[r].gen) -> "ABORTED"
                       [] OTHER -> "RECOVERY_REQUIRED"]
  /\ UNCHANGED <<pointer, image, tool, mcp, lock, plan, tx, run, serving, audit, bounds>>

RetirementStep(r) ==
  MarkRecycling(r) \/ Invoke(r) \/ RecordVerified(r) \/ DropFromRegistry(r) \/ CloseRetirement(r)

------------------------------------------------------------------------------
\* Requests, the owner, and the whole

\* runtime_admission through the boot file of t.
Admit(t) ==
  /\ Idle /\ Quiet /\ tool[t].files # None
  /\ tool[t].files = pointer /\ pointer = Active /\ Intact(pointer)
  /\ serving' = pointer
  /\ UNCHANGED <<installed, mcp, lock, plan, tx, run, retire, audit, bounds>>
EndRequest ==
  /\ serving # None /\ serving' = None
  /\ UNCHANGED <<installed, mcp, lock, plan, tx, run, retire, audit, bounds>>

EditHost(t) ==
  /\ edits < MaxEdits /\ faults + edits < MaxMishaps /\ edits' = edits + 1 /\ host' = [host EXCEPT ![t].edition = @ + 1]
  /\ UNCHANGED <<installed, ledger, lock, plan, tx, run, serving, retire, audit, faults>>
DamageImage(g) ==
  /\ edits < MaxEdits /\ faults + edits < MaxMishaps /\ edits' = edits + 1 /\ Intact(g) /\ image' = [image EXCEPT ![g] = "damaged"]
  /\ UNCHANGED <<registry, pointer, tool, mcp, lock, plan, tx, run, serving, retire, audit, faults>>

Next ==
  \/ \E o \in Operations : Begin(o) \/ ExecutionStep(o) \/ UndoStep(o) \/ Recover(o)
  \/ \E o \in Operations, kind \in Kinds, g \in Generations : Plan(o, kind, g)
  \/ \E r \in Retirements : RetirementStep(r) \/ RecoverRetirement(r)
  \/ \E r \in Retirements, g \in Generations : StartRetirement(r, g)
  \/ \E t \in Tools : Admit(t) \/ EditHost(t)
  \/ \E g \in Generations : DamageImage(g)
  \/ Fault \/ Killed \/ RetirementFails \/ LockExpires \/ EndRequest

\* A process goes on, a request ends, and the owner recovers what is open.
Fairness ==
  /\ \A o \in Operations : WF_vars(ExecutionStep(o) \/ UndoStep(o)) /\ SF_vars(Recover(o))
  /\ \A r \in Retirements : WF_vars(RetirementStep(r))
  /\ WF_vars(EndRequest)

Spec == Init /\ [][Next]_vars /\ Fairness

------------------------------------------------------------------------------
\* Properties

\* With nothing in progress the installation is whole: not there at all, or with
\* one active generation that registry, pointer, image, projections and binding
\* receipt agree on.  (_same_generation_disposition and doctor rely on it.)
Gone == /\ registry.status \in {"missing", "uninstalled"} /\ pointer = None /\ ActiveOf(registry.generations) = {}
        /\ \A t \in Tools : tool[t].manifest = None
Whole == /\ registry.status = "stable" /\ ActiveOf(registry.generations) = {pointer}
         /\ image[pointer] # "absent" /\ audit.current = Binding
         /\ \A t \in Tools : tool[t] = [files |-> pointer, manifest |-> pointer]
SettledIsWhole ==
  /\ run = None /\ ~TransactionsOpen => Gone \/ Whole
  /\ run = None /\ ~TransactionsOpen /\ RetirementsIdle =>
       \A g \in Generations : registry.generations[g] # "absent" => image[g] # "absent"

\* The generation a request is working with stays active and installed.
\* (runtime_admission and RuntimeMutex)
ServedIsInstalled ==
  serving # None => serving = pointer /\ serving = Active /\ image[serving] # "absent"

\* A rollback leaves what the snapshot had: registry, pointer, images, projections.
\* (_restore_snapshot)
RollbackRestores ==
  \A o \in Operations : At(o, "ARCHIVE") /\ tx[o].snapshot = "COMPLETE" =>
    LET saved == tx[o].saved IN
    /\ registry = saved.registry /\ pointer = saved.pointer
    /\ \A g \in Generations : image[g] \in {saved.image[g], "damaged"}
    /\ \A t \in Tools : tool[t].manifest = saved.tool[t].manifest

\* An interrupted operation is completed, or rolled back, unless recovery refuses
\* it: a state nobody recovers from, a torn snapshot, a receipt of another binding,
\* a Host file the owner has edited.  (recover_transaction)
Refuses(o) ==
  \/ Resume(o) = None
  \/ Resume(o) = "UNDO" /\ (~SavedDirection(o) \/ (tx[o].snapshot = "PARTIAL" /\ tx[o].state \notin Untouched))
  \/ Resume(o) = "ARCHIVE" /\ ~ReceiptAgrees
  \/ HasRuntime(o) /\ ~EntriesReviewed(o)
InterruptionsSettle ==
  \A o \in Operations : tx[o] # None ~> (tx[o] = None \/ Refuses(o))

=============================================================================
