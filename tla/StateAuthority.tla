--------------------------- MODULE StateAuthority ---------------------------
(* Which of several databases of one workspace is in charge.  A store is a     *)
(* state directory; restoring a backup makes another one.  Protocol files in   *)
(* the workspace (two seals and a pointer: the adoption binding, or the        *)
(* locator of a workspace that never had documents) select one of them, and    *)
(* every switch is a sequence of database transactions and file replacements   *)
(* that may stop between any two.  Before adoption the workspace belongs to    *)
(* the document programs, whose lock files are the seals.                      *)
EXTENDS Integers, Sequences

CONSTANTS
  Stores,      \* state directories
  Backups,     \* backup directories
  Switches,    \* adoption, forward recovery and relocation identities
  Works,       \* operations of the project, by identity
  None, Revoked,
  MaxSource,   \* bound: writes of the document programs
  MaxNotes,    \* bound: ordinary writes per store (new tasks, phases, ...)
  MaxCrash     \* bound: interrupted switches and failed disks

VARIABLES
  db,          \* db[s]: the database of s, or None
  saved,       \* saved[b]: the database image in b and the store it was taken from, or None
  plan,        \* plan[f]: the reviewed plan of f, or None
  seal,        \* seal[i]: None, "LEGACY" (a lock that is held) or the switch that wrote it
  pointer,     \* None, the store it was created with (a locator), or the switch that wrote it
  hand,        \* the handoff in progress: [switch, step], or None
  source,      \* revision of the workspace's documents
  worker,      \* worker[w]: the store whose intent the worker of w acts on, or None
  unreadable,  \* stores whose database cannot be opened
  gap,         \* operations a disaster's gap review answered for
  crashes

Facts == [switch : Switches, store : Stores, epoch : Stores \cup Switches,
          state : {"RESTORED", "PREPARED", "SUPERSEDED", "ACTIVE"}]
Grants == [epoch : Stores \cup Switches, quarantined : BOOLEAN]
\* A database: its recovery row, its adoption rows and native facts, its work.
Rows == [published : BOOLEAN, epoch : Stores \cup Switches, quarantined : BOOLEAN,
         basis : Backups \cup {None}, reviewed : BOOLEAN, imported : Nat \cup {None},
         adoption : [Switches -> {"ABSENT", "PREPARED", "ACTIVE", "SUPERSEDED"}],
         facts : Seq(Facts),
         op : [Works -> {"ABSENT", "PREPARED", "INTENT", "UNKNOWN", "DONE", "CANCELLED"}],
         grant : [Works -> Grants \cup {None, Revoked}], notes : Nat]
\* A backup: an image of a database, and where it was taken.
Images == [from : Stores, image : Rows]
ASSUME NoneAssumption ==
  None \notin Rows \cup Images \cup Nat \cup Stores \cup Backups \cup Switches
ASSUME IdentitiesAssumption == Stores \cap Switches = {}

vars == <<db, saved, plan, seal, pointer, hand, source, worker, unreadable, gap, crashes>>
files == <<seal, pointer>>

\* A new database: definitions only.
NewStore(s, revision) ==
  [published |-> TRUE, epoch |-> s, quarantined |-> FALSE, basis |-> None, reviewed |-> FALSE,
   imported |-> revision, adoption |-> [f \in Switches |-> "ABSENT"], facts |-> <<>>,
   op |-> [w \in Works |-> "ABSENT"], grant |-> [w \in Works |-> None], notes |-> 0]

Current(facts) == facts[Len(facts)]
Fact(f, s, state) == [switch |-> f, store |-> s, epoch |-> db[s].epoch, state |-> state]
WithFact(d, x) == [d EXCEPT !.facts = Append(@, x)]
Has(s) == db[s] # None /\ db[s].published /\ s \notin unreadable
Begun(state) == state \in {"INTENT", "UNKNOWN", "DONE"}
Pending(s) == \E w \in Works : db[s].op[w] \in {"INTENT", "UNKNOWN"}

StateHashWithoutWork(d) == [d EXCEPT !.adoption = {}, !.op = {}, !.grant = {}]  \* mutant: work may go on
\* The state hash of a store leaves the adoption rows out; relocation also
\* leaves out the facts of the relocation itself.
StateHash(d) == [d EXCEPT !.adoption = {}]
Without(d, f) == StateHash([d EXCEPT !.facts = SelectSeq(d.facts, LAMBDA x : x.switch # f)])

------------------------------------------------------------------------------
\* Who is in charge

\* The steps of a switch, in the order of the code.
Steps == [ADOPT    |-> <<"SEAL1", "SEAL2", "POINTER", "ACTIVATE">>,
          FORWARD  |-> <<"TARGET", "OLD", "SEAL1", "SEAL2", "POINTER", "ACTIVATE">>,
          DISASTER |-> <<"TARGET", "SEAL1", "SEAL2", "POINTER", "ACTIVATE">>,
          RELOCATE |-> <<"TARGET", "OLD", "POINTER", "ACTIVATE">>]


NativeAuthority(s) ==
  LET f == Current(db[s].facts)
  IN f.state = "ACTIVE" /\ f.store = s /\ f.epoch = db[s].epoch /\ pointer = f.switch

ActiveBindingByRow(s) ==  \* mutant: the files are not read
  \E f \in Switches : db[s].adoption[f] = "ACTIVE" /\ plan[f].target = s /\ plan[f].epoch = db[s].epoch
ActiveBinding(s) ==
  \E f \in Switches : /\ db[s].adoption[f] = "ACTIVE"
                      /\ plan[f].target = s /\ plan[f].epoch = db[s].epoch
                      /\ pointer = f /\ \A i \in 1..2 : seal[i] = f

\* require_execution_ready
Ready(s) == /\ Has(s) /\ ~db[s].quarantined
            /\ db[s].facts # <<>> => NativeAuthority(s)
            /\ db[s].imported # None => ActiveBinding(s)

\* The Host of a forward switch or relocation keeps both databases locked; an
\* adoption locks its database only for the last two steps, one transaction; a
\* recovery from a lost disk locks nothing between its transactions.
Locked(s) ==
  /\ hand # None
  /\ LET p == plan[hand.switch] IN
     CASE p.kind \in {"FORWARD", "RELOCATE"} -> s \in {p.old, p.target}
       [] p.kind = "ADOPT" -> s = p.target /\ Steps.ADOPT[hand.step] = "ACTIVATE"
       [] OTHER -> FALSE

\* StateStore.transaction
Writable(s) == /\ Has(s) /\ ~Locked(s)
               /\ db[s].facts # <<>> => Current(db[s].facts).state = "RESTORED" \/ NativeAuthority(s)

Healthy(s) == Ready(s) /\ ~Pending(s)

\* Nothing but perhaps documents, or a native store with a locator or without.
Init ==
  /\ \/ db = [s \in Stores |-> None] /\ pointer = None
     \/ \E s \in Stores : /\ db = [t \in Stores |-> IF t = s THEN NewStore(s, None) ELSE None]
                          /\ pointer \in {None, s}
  /\ saved = [b \in Backups |-> None] /\ plan = [f \in Switches |-> None]
  /\ seal = [i \in 1..2 |-> None] /\ hand = None
  /\ source = 0 /\ worker = [w \in Works |-> None] /\ unreadable = {} /\ gap = {} /\ crashes = 0

------------------------------------------------------------------------------
\* Work in a store

Put(s, row) == /\ db' = [db EXCEPT ![s] = row]
               /\ UNCHANGED <<saved, plan, files, hand, source, unreadable, gap, crashes>>

\* Grants may be recorded in any store that takes writes, also in quarantine.
RecordGrant(s, w) ==
  /\ Writable(s) /\ db[s].grant[w] = None
  /\ Put(s, [db[s] EXCEPT !.grant[w] = [epoch |-> db[s].epoch, quarantined |-> db[s].quarantined]])
  /\ UNCHANGED worker

Granted(s, w) == db[s].grant[w] \notin {None, Revoked}

Prepare(s, w) ==
  /\ Writable(s) /\ Ready(s) /\ Granted(s, w) /\ db[s].op[w] = "ABSENT"
  /\ Put(s, [db[s] EXCEPT !.op[w] = "PREPARED"]) /\ UNCHANGED worker

RecordIntent(s, w) ==
  /\ Writable(s) /\ Ready(s) /\ Granted(s, w) /\ db[s].op[w] = "PREPARED"
  /\ Put(s, [db[s] EXCEPT !.op[w] = "INTENT"]) /\ worker' = [worker EXCEPT ![w] = s]

\* The worker stops; until it does it may touch the project's files.
WorkerEnds(w) ==
  /\ worker[w] # None /\ worker' = [worker EXCEPT ![w] = None]
  /\ UNCHANGED <<db, saved, plan, files, hand, source, unreadable, gap, crashes>>

\* An observation attests that the worker is gone and says what became of it.
ObserveOutcome(s, w) ==
  /\ Writable(s) /\ db[s].op[w] \in {"INTENT", "UNKNOWN"} /\ worker[w] = None
  /\ Put(s, [db[s] EXCEPT !.op[w] = "DONE"]) /\ UNCHANGED worker

\* Anything else the services write without asking for execution readiness.
OrdinaryWrite(s) ==
  /\ Writable(s) /\ db[s].notes < MaxNotes
  /\ Put(s, [db[s] EXCEPT !.notes = @ + 1]) /\ UNCHANGED worker

------------------------------------------------------------------------------
\* The document programs, and the import of their definitions

LegacyLock(i) ==
  /\ \A s \in Stores : db[s] # None => db[s].imported # None
  /\ seal[i] = None /\ source < MaxSource /\ seal' = [seal EXCEPT ![i] = "LEGACY"]
  /\ UNCHANGED <<db, saved, plan, pointer, hand, source, worker, unreadable, gap, crashes>>

LegacyUnlock(i) ==
  /\ seal[i] = "LEGACY" /\ seal' = [seal EXCEPT ![i] = None]
  /\ source' = IF source = MaxSource THEN source ELSE source + 1
  /\ UNCHANGED <<db, saved, plan, pointer, hand, worker, unreadable, gap, crashes>>

ImportDefinitions(s) ==
  /\ db[s] = None /\ \A t \in Stores : db[t] # None => db[t].imported # None
  /\ Put(s, [NewStore(s, source) EXCEPT !.published = FALSE, !.quarantined = TRUE])
  /\ UNCHANGED worker

FinalizeImport(s) ==
  /\ db[s] # None /\ ~db[s].published
  /\ Put(s, [db[s] EXCEPT !.published = TRUE]) /\ UNCHANGED worker

\* verify_definition_import: nothing but what was imported, and no execution.
Untouched(s) == StateHash(db[s]) = StateHash([NewStore(s, db[s].imported) EXCEPT !.quarantined = TRUE])

------------------------------------------------------------------------------
\* Backup, restore and the review of what was restored

Backup(b, s) ==
  /\ Has(s) /\ ~Locked(s) /\ saved[b] = None
  /\ saved' = [saved EXCEPT ![b] = [from |-> s, image |-> db[s]]]
  /\ UNCHANGED <<db, plan, files, hand, source, worker, unreadable, gap, crashes>>

OpAfterRestore(state) ==
  CASE state = "INTENT" -> "UNKNOWN" [] state = "PREPARED" -> "CANCELLED" [] OTHER -> state

Restored(b, t) ==
  LET image == saved[b].image IN
  [image EXCEPT !.epoch = t, !.quarantined = TRUE, !.basis = b, !.reviewed = FALSE,
     !.op = [w \in Works |-> OpAfterRestore(image.op[w])],
     !.grant = [w \in Works |-> IF image.grant[w] = None THEN None ELSE Revoked],
     !.facts = IF image.facts = <<>> THEN <<>>
               ELSE Append(image.facts, [switch |-> Current(image.facts).switch, store |-> t,
                                         epoch |-> t, state |-> "RESTORED"])]

Restore(b, t) ==
  /\ saved[b] # None /\ db[t] = None /\ hand = None
  /\ Put(t, Restored(b, t)) /\ UNCHANGED worker

ReviewKeepsGrants(t) ==  \* mutant: grants of the quarantine stay
  /\ Writable(t) /\ db[t].quarantined /\ db[t].basis # None /\ ~Pending(t)
  /\ \A w \in Works : worker[w] = None
  /\ Put(t, [db[t] EXCEPT !.quarantined = FALSE, !.reviewed = TRUE]) /\ UNCHANGED worker
\* Recovery.apply.  The report attests that no writer is left and that every
\* project root was reviewed.
ApplyReview(t) ==
  /\ Writable(t) /\ db[t].quarantined /\ db[t].basis # None /\ ~Pending(t)
  /\ \A w \in Works : worker[w] = None
  /\ Put(t, [db[t] EXCEPT !.quarantined = FALSE, !.reviewed = TRUE,
               !.op = [w \in Works |-> IF db[t].op[w] = "PREPARED" THEN "CANCELLED" ELSE db[t].op[w]],
               !.grant = [w \in Works |-> IF db[t].grant[w] = None THEN None ELSE Revoked]])
  /\ UNCHANGED worker

\* The disk of a store fails, or comes back.
StoreFails(s) ==
  /\ Has(s) /\ ~Locked(s) /\ unreadable = {} /\ unreadable' = {s}
  /\ crashes < MaxCrash /\ crashes' = crashes + 1
  /\ UNCHANGED <<db, saved, plan, files, hand, source, worker, gap>>
StoreReturns(s) ==
  /\ s \in unreadable /\ ~Locked(s) /\ unreadable' = {}
  /\ UNCHANGED <<db, saved, plan, files, hand, source, worker, gap, crashes>>

------------------------------------------------------------------------------
\* Plans.  An identity that no database knows may be planned anew.

Unused(f) == \A s \in Stores : db[s] # None => /\ db[s].adoption[f] = "ABSENT"
                                               /\ \A i \in DOMAIN db[s].facts : db[s].facts[i].switch # f

Review(f, p) ==
  /\ hand = None /\ Unused(f) /\ plan[f] # p
  /\ plan' = [plan EXCEPT ![f] = p]
  /\ UNCHANGED <<db, saved, files, hand, source, worker, unreadable, gap, crashes>>

\* Adoption.plan
PlanAdoption(f, s) ==
  /\ Has(s) /\ db[s].imported = source /\ Untouched(s)
  /\ pointer = None /\ \A i \in 1..2 : seal[i] = None
  /\ Review(f, [kind |-> "ADOPT", target |-> s, old |-> s, parent |-> None, epoch |-> f,
                revision |-> source, oldHash |-> None, newHash |-> None])

\* What every switch to a restored store asks of it.
Reconciled(t, b) == /\ Has(t) /\ ~db[t].quarantined /\ db[t].reviewed /\ db[t].basis = b /\ ~Pending(t)

\* ForwardRecovery.plan: the old store is in charge and did nothing since b.
PlanForward(f, b, t) ==
  \E s \in Stores, parent \in Switches :
    /\ s # t /\ Has(s) /\ ActiveBinding(s) /\ db[s].adoption[parent] = "ACTIVE" /\ pointer = parent
    /\ saved[b] # None /\ StateHash(saved[b].image) = StateHash(db[s]) /\ Reconciled(t, b)
    /\ db[t].adoption[parent] # "ABSENT"
    /\ Review(f, [kind |-> "FORWARD", target |-> t, old |-> s, parent |-> parent, epoch |-> db[t].epoch,
                  revision |-> None, oldHash |-> StateHash(db[s]), newHash |-> StateHash(db[t])])

\* UnavailableStoreRecovery.plan: the old store is only kept, not read.  Its raw
\* bytes are recorded, and the operator answers for what the backup lacks: its
\* work is reconstructed, and none of it is still going on.
PlanDisaster(f, b, t) ==
  \E parent \in Switches :
    /\ saved[b] # None /\ saved[b].image.adoption[parent] = "ACTIVE"
    /\ plan[parent].epoch = saved[b].image.epoch /\ plan[parent].target # t
    /\ pointer = parent /\ \A i \in 1..2 : seal[i] = parent
    /\ Reconciled(t, b) /\ db[t].adoption[parent] # "ABSENT"
    /\ \A w \in Works : worker[w] = None
    /\ Review(f, [kind |-> "DISASTER", target |-> t, old |-> plan[parent].target, parent |-> parent,
                  epoch |-> db[t].epoch, revision |-> None,
                  oldHash |-> db[plan[parent].target], newHash |-> StateHash(db[t])])

\* classify_source: where there is a locator, the store it names; no binding.
NativeSource(s) ==
  \/ pointer \in {None, s}
  \/ pointer \in Switches /\ plan[pointer].kind = "RELOCATE" /\ plan[pointer].target = s

\* Relocation of a store without documents: preparation (backup, restore and
\* quarantine under the lock of the old store) and the forward plan.
PrepareRelocation(f, s, b, t) ==
  /\ db[s] # None /\ db[s].imported = None /\ Healthy(s) /\ NativeSource(s)
  /\ db[t] = None /\ saved[b] = None
  /\ hand = None /\ Unused(f) /\ plan[f] = None
  /\ LET image == db[s]
         row == [image EXCEPT !.epoch = t, !.quarantined = TRUE, !.basis = b, !.reviewed = FALSE,
                   !.op = [w \in Works |-> OpAfterRestore(image.op[w])],
                   !.grant = [w \in Works |-> IF image.grant[w] = None THEN None ELSE Revoked],
                   !.facts = Append(image.facts, [switch |-> f, store |-> t, epoch |-> t, state |-> "RESTORED"])]
     IN /\ saved' = [saved EXCEPT ![b] = [from |-> s, image |-> image]]
        /\ db' = [db EXCEPT ![t] = row]
        /\ plan' = [plan EXCEPT ![f] = [kind |-> "PREPARING", target |-> t, old |-> s, parent |-> pointer,
                                        epoch |-> t, revision |-> None, oldHash |-> StateHash(image),
                                        newHash |-> None]]
  /\ UNCHANGED <<files, hand, source, worker, unreadable, gap, crashes>>

PlanRelocation(f) ==
  /\ plan[f] # None /\ plan[f].kind = "PREPARING" /\ hand = None
  /\ LET p == plan[f] IN
     /\ Healthy(p.old) /\ Without(db[p.old], f) = p.oldHash /\ pointer = p.parent
     /\ Reconciled(p.target, db[p.target].basis)
     /\ plan' = [plan EXCEPT ![f].kind = "RELOCATE", ![f].newHash = Without(db[p.target], f)]
  /\ UNCHANGED <<db, saved, files, hand, source, worker, unreadable, gap, crashes>>

------------------------------------------------------------------------------
\* A switch, under the mutex of the workspace

At(f, step) == /\ hand # None /\ hand.switch = f
               /\ Steps[plan[f].kind][hand.step] = step
Onward == hand' = IF hand.step = Len(Steps[plan[hand.switch].kind]) THEN None
                  ELSE [hand EXCEPT !.step = @ + 1]

\* Adoption.apply, its first transaction
PrepareAdoption(f) ==
  /\ plan[f] # None /\ plan[f].kind = "ADOPT" /\ hand = None
  /\ LET s == plan[f].target IN
     /\ Writable(s) /\ Untouched(s) /\ db[s].adoption[f] = "ABSENT"
     /\ Put(s, [db[s] EXCEPT !.adoption[f] = "PREPARED"])
  /\ UNCHANGED worker

FilesUntouched(f) ==  \* mutant: a continuation wants the files as they were
  pointer = plan[f].parent /\ \A i \in 1..2 : seal[i] = plan[f].parent
\* Files that belong to the transition: as they were, or already replaced.
FilesMatchEither(f) == /\ pointer \in {plan[f].parent, f}
                       /\ \A i \in 1..2 : seal[i] \in {plan[f].parent, f}

NativeState(d, f) == IF Current(d.facts).switch = f THEN Current(d.facts).state ELSE "OTHER"

\* What apply checks before its first write, again on every continuation.
BasisHolds(f) ==
  LET p == plan[f]  t == p.target  s == p.old IN
  CASE p.kind = "ADOPT" -> db[t].adoption[f] = "PREPARED" /\ Untouched(t)
    [] p.kind = "FORWARD" ->
         /\ Has(s) /\ db[t].adoption[f] \in {"ABSENT", "PREPARED"} /\ FilesMatchEither(f)
         /\ db[s].adoption[p.parent] \in {"ACTIVE", "SUPERSEDED"}
         /\ StateHash(db[s]) = p.oldHash /\ StateHash(db[t]) = p.newHash
    [] p.kind = "DISASTER" ->
         /\ db[t].adoption[f] \in {"ABSENT", "PREPARED"} /\ FilesMatchEither(f)
         /\ db[t].adoption[f] = "ABSENT" => pointer = p.parent /\ \A i \in 1..2 : seal[i] = p.parent
         /\ db[s] = p.oldHash /\ StateHash(db[t]) = p.newHash
    [] p.kind = "RELOCATE" ->
         /\ Has(s) /\ NativeState(db[t], f) \in {"RESTORED", "PREPARED"} /\ pointer \in {p.parent, f}
         /\ Without(db[s], f) = p.oldHash /\ Without(db[t], f) = p.newHash
    [] OTHER -> FALSE

Begin(f) ==
  /\ hand = None /\ plan[f] # None /\ Has(plan[f].target) /\ BasisHolds(f)
  /\ hand' = [switch |-> f, step |-> 1]
  /\ UNCHANGED <<db, saved, plan, files, source, worker, unreadable, gap, crashes>>

\* The target says PREPARED before the old store says SUPERSEDED.
MarkTarget(f) ==
  /\ At(f, "TARGET") /\ Onward
  /\ LET t == plan[f].target IN
     db' = [db EXCEPT ![t] =
       IF plan[f].kind = "RELOCATE"
       THEN IF NativeState(@, f) = "PREPARED" THEN @ ELSE WithFact(@, Fact(f, t, "PREPARED"))
       ELSE [@ EXCEPT !.adoption[f] = "PREPARED", !.adoption[plan[f].parent] = "SUPERSEDED"]]
  /\ UNCHANGED <<saved, plan, files, source, worker, unreadable, gap, crashes>>

MarkOld(f) ==
  /\ At(f, "OLD") /\ Onward
  /\ LET s == plan[f].old IN
     db' = [db EXCEPT ![s] =
       IF plan[f].kind = "RELOCATE"
       THEN IF db[s].facts # <<>> /\ NativeState(@, f) = "SUPERSEDED" THEN @
            ELSE WithFact(@, Fact(f, s, "SUPERSEDED"))
       ELSE [@ EXCEPT !.adoption[plan[f].parent] = "SUPERSEDED"]]
  /\ UNCHANGED <<saved, plan, files, source, worker, unreadable, gap, crashes>>

\* _write_owned or replace_protocol: a foreign seal is never overwritten.
ReplaceSeal(f, i) ==
  /\ At(f, <<"SEAL1", "SEAL2">>[i]) /\ seal[i] \in {plan[f].parent, f}
  /\ seal' = [seal EXCEPT ![i] = f] /\ Onward
  /\ UNCHANGED <<db, saved, plan, pointer, source, worker, unreadable, gap, crashes>>

\* An adoption looks at the documents once they are sealed.
ReplacePointer(f) ==
  /\ At(f, "POINTER") /\ pointer \in {plan[f].parent, f}
  /\ plan[f].kind = "ADOPT" => source = plan[f].revision /\ Untouched(plan[f].target)
  /\ pointer' = f /\ Onward
  /\ UNCHANGED <<db, saved, plan, seal, source, worker, unreadable, gap, crashes>>

\* The last transaction looks at the target once more.
StillReviewed(f) ==
  LET p == plan[f] IN
  CASE p.kind = "ADOPT" -> Untouched(p.target)
    [] p.kind = "FORWARD" -> StateHash(db[p.target]) = p.newHash
    [] p.kind = "DISASTER" -> BasisHolds(f)
    [] OTHER -> TRUE

Activate(f) ==
  /\ At(f, "ACTIVATE") /\ StillReviewed(f) /\ Onward
  /\ LET t == plan[f].target IN
     /\ db' = [db EXCEPT ![t] =
          IF plan[f].kind = "RELOCATE" THEN WithFact(@, Fact(f, t, "ACTIVE"))
          ELSE IF plan[f].kind = "ADOPT"
               THEN [@ EXCEPT !.adoption[f] = "ACTIVE", !.epoch = plan[f].epoch, !.quarantined = FALSE]
               ELSE [@ EXCEPT !.adoption[f] = "ACTIVE"]]
     /\ gap' = IF plan[f].kind # "DISASTER" THEN gap
               ELSE gap \cup {w \in Works : ~Begun(db[t].op[w])}
  /\ UNCHANGED <<saved, plan, files, source, worker, unreadable, crashes>>

\* What does not fit raises: the locks go, what was written stays.
Refuses(f) ==
  /\ \/ \E i \in 1..2 : At(f, <<"SEAL1", "SEAL2">>[i]) /\ seal[i] \notin {plan[f].parent, f}
     \/ At(f, "POINTER") /\ ~(pointer \in {plan[f].parent, f}
                              /\ (plan[f].kind = "ADOPT" => source = plan[f].revision /\ Untouched(plan[f].target)))
     \/ At(f, "ACTIVATE") /\ ~StillReviewed(f)
  /\ hand' = None
  /\ UNCHANGED <<db, saved, plan, files, source, worker, unreadable, gap, crashes>>

\* Another failure, or the end of the process.
Interrupted ==
  /\ hand # None /\ crashes < MaxCrash
  /\ hand' = None /\ crashes' = crashes + 1
  /\ UNCHANGED <<db, saved, plan, files, source, worker, unreadable, gap>>

\* A Host that does not keep its seals: a failed adoption takes them back, as
\* long as no binding was written.
TakesSealsBack(f) ==
  /\ hand # None /\ hand.switch = f /\ plan[f].kind = "ADOPT" /\ pointer # f /\ crashes < MaxCrash
  /\ seal' = [i \in 1..2 |-> IF seal[i] = f THEN None ELSE seal[i]]
  /\ hand' = None /\ crashes' = crashes + 1
  /\ UNCHANGED <<db, saved, plan, pointer, source, worker, unreadable, gap>>

SwitchStep(f) == \/ MarkTarget(f) \/ MarkOld(f) \/ ReplacePointer(f) \/ Activate(f) \/ Refuses(f)
                 \/ \E i \in 1..2 : ReplaceSeal(f, i)

Next ==
  \/ \E s \in Stores, w \in Works : \/ RecordGrant(s, w) \/ Prepare(s, w) \/ RecordIntent(s, w)
                                    \/ ObserveOutcome(s, w)
  \/ \E w \in Works : WorkerEnds(w)
  \/ \E s \in Stores : \/ OrdinaryWrite(s) \/ ImportDefinitions(s) \/ FinalizeImport(s)
                       \/ ApplyReview(s) \/ StoreFails(s) \/ StoreReturns(s)
  \/ \E i \in 1..2 : LegacyLock(i) \/ LegacyUnlock(i)
  \/ \E b \in Backups, s \in Stores : Backup(b, s) \/ Restore(b, s)
  \/ \E f \in Switches :
       \/ SwitchStep(f) \/ Begin(f) \/ PrepareAdoption(f) \/ PlanRelocation(f) \/ TakesSealsBack(f)
       \/ \E s \in Stores : PlanAdoption(f, s)
       \/ \E b \in Backups, t \in Stores :
            \/ PlanForward(f, b, t) \/ PlanDisaster(f, b, t)
            \/ \E s \in Stores : PrepareRelocation(f, s, b, t)
  \/ Interrupted

Spec == Init /\ [][Next]_vars

\* An owner continues an interrupted switch with its plan, and a process that is
\* not killed carries it through.
Prepared(f) ==
  plan[f] # None /\ LET t == plan[f].target IN
    /\ Has(t)
    /\ \/ db[t].adoption[f] = "PREPARED"
       \/ db[t].facts # <<>> /\ NativeState(db[t], f) = "PREPARED"
SwitchFairness == /\ \A f \in Switches : WF_vars(SwitchStep(f)) /\ WF_vars(Begin(f) /\ Prepared(f))
                  /\ \A i \in 1..2 : WF_vars(LegacyUnlock(i))
FairSpec == Spec /\ SwitchFairness

------------------------------------------------------------------------------
\* Properties

\* The two databases that say they are in charge are copies of a workspace that
\* no protocol file selects; of all others there is at most one
\* (require_execution_ready, StateStore.transaction).
Plain(s) == db[s].facts = <<>> /\ db[s].imported = None
OneAuthority == \A s, t \in Stores : s # t /\ Ready(s) /\ Ready(t) => Plain(s) \/ Plain(t)

\* Where execution is open, no grant is live that was given in an earlier epoch
\* or in quarantine, and no worker is at work that another database sent.
OldEpochIsDead ==
  \A s \in Stores : Ready(s) /\ ~Plain(s) =>
    \A w \in Works : /\ Granted(s, w) => db[s].grant[w] = [epoch |-> db[s].epoch, quarantined |-> FALSE]
                     /\ worker[w] \notin {None, s} => Plain(worker[w])

\* The switch was carried to its end (and perhaps another after it).
Completed(f) ==
  plan[f] # None /\ LET d == db[plan[f].target] IN
    d # None /\ \/ d.adoption[f] \in {"ACTIVE", "SUPERSEDED"}
                \/ \E i \in DOMAIN d.facts : d.facts[i].switch = f /\ d.facts[i].state = "ACTIVE"

\* What a database handed to a worker before a switch retired it is known to the
\* database in charge, however many switches later, unless the gap review of a
\* lost disk answered for it.
WorkKept ==
  \A f \in Switches, t \in Stores, w \in Works :
    Completed(f) /\ Ready(t) /\ ~Plain(t) /\ w \notin gap /\ Begun(db[plan[f].old].op[w])
    => Begun(db[t].op[w])

\* A switch that was interrupted after its first transaction is carried to its
\* end, unless somebody wrote to one of its databases or to the documents in
\* between, or its old database cannot be opened (the continuations of apply).
WrittenSince(f) ==
  LET p == plan[f] IN
  \/ p.kind = "ADOPT" /\ (source # p.revision \/ ~Untouched(p.target))
  \/ p.kind = "FORWARD" /\ (StateHash(db[p.old]) # p.oldHash \/ StateHash(db[p.target]) # p.newHash)
  \/ p.kind = "DISASTER" /\ (db[p.old] # p.oldHash \/ StateHash(db[p.target]) # p.newHash)
  \/ p.kind = "RELOCATE" /\ (Without(db[p.old], f) # p.oldHash \/ Without(db[p.target], f) # p.newHash)
SwitchCompletes == \A f \in Switches :
  Prepared(f) ~> ~Prepared(f) \/ WrittenSince(f) \/ plan[f].old \in unreadable
=============================================================================
