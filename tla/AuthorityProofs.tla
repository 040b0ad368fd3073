---------------------------- MODULE AuthorityProofs ----------------------------
(***************************************************************************)
(* At most one of the databases of a workspace is in charge, for any       *)
(* number of stores, backups, switches, crashes and ordinary writes.       *)
(*                                                                         *)
(* The pointer names one switch, and a store is in charge only when that   *)
(* switch is ACTIVE in it.  So it is enough that a switch is ACTIVE for    *)
(* one store alone: the target of its plan.  A plan can be reviewed anew   *)
(* as long as no database knows the switch; therefore whatever is ACTIVE   *)
(* anywhere, also in an image that may be restored, has to be accounted    *)
(* for by the plan as it is, and an image may know no switch that the      *)
(* database it was taken from does not know.                               *)
(*                                                                         *)
(* The second half adds what a switch does to the work: no grant and no    *)
(* worker of an earlier epoch acts on the database in charge, and no work  *)
(* that was begun is forgotten.                                            *)
(***************************************************************************)
EXTENDS StateAuthority, TLAPS

Hands == [switch : Switches, step : Int]
PlanFields == {"kind", "target", "old", "epoch", "newHash"}
PlanOK(p) == /\ \A field \in PlanFields : field \in DOMAIN p
             /\ p = [field \in DOMAIN p |-> p[field]]
             /\ p.target \in Stores /\ p.old \in Stores /\ p.epoch \in Stores \cup Switches

Types ==
  /\ db \in [Stores -> Rows \cup {None}]
  /\ saved \in [Backups -> Images \cup {None}]
  /\ plan = [f \in Switches |-> plan[f]]
  /\ \A f \in Switches : plan[f] # None => PlanOK(plan[f])
  /\ source \in Nat

\* A switch in progress has a plan that can be applied, to databases there are.
HandHeld ==
  hand # None =>
    LET p == plan[hand.switch] IN
    /\ hand \in Hands /\ p # None
    /\ p.kind \in {"ADOPT", "FORWARD", "DISASTER", "RELOCATE"}
    /\ hand.step \in 1 .. Len(Steps[p.kind])
    /\ db[p.target] # None
    /\ p.kind \in {"FORWARD", "RELOCATE"} => db[p.old] # None

\* What is ACTIVE in a database is so by a plan of the right kind; a native fact
\* for the target of that plan only.
AccountedBy(d, plans) ==
  /\ \A f \in Switches : d.adoption[f] = "ACTIVE" =>
       plans[f] # None /\ plans[f].kind \in {"ADOPT", "FORWARD", "DISASTER"}
  /\ \A i \in DOMAIN d.facts : d.facts[i].state = "ACTIVE" =>
       LET p == plans[d.facts[i].switch] IN
       p # None /\ p.kind = "RELOCATE" /\ p.target = d.facts[i].store
Accounted(d) == AccountedBy(d, plan)

Knows(d, f) == \/ d.adoption[f] # "ABSENT"
               \/ \E i \in DOMAIN d.facts : d.facts[i].switch = f

StoresHeld == \A s \in Stores : db[s] # None => Accounted(db[s])
ImagesHeld ==
  \A b \in Backups : saved[b] # None =>
    /\ Accounted(saved[b].image)
    /\ db[saved[b].from] # None
    /\ \A f \in Switches : Knows(saved[b].image, f) => Knows(db[saved[b].from], f)

AuthorityInv == Types /\ HandHeld /\ StoresHeld /\ ImagesHeld

-----------------------------------------------------------------------------
LEMMA AppendGives ==
  ASSUME NEW q \in Seq(Facts), NEW x \in Facts
  PROVE  /\ Append(q, x) \in Seq(Facts)
         /\ \A i \in DOMAIN Append(q, x) :
              Append(q, x)[i] = x \/ (i \in DOMAIN q /\ Append(q, x)[i] = q[i])
         /\ \A i \in DOMAIN q : i \in DOMAIN Append(q, x) /\ Append(q, x)[i] = q[i]
         /\ \E i \in DOMAIN Append(q, x) : Append(q, x)[i] = x
<1>1. Len(q) + 1 \in DOMAIN Append(q, x) /\ Append(q, x)[Len(q) + 1] = x
  OBVIOUS
<1> QED
  BY <1>1

LEMMA LastIsFact ==
  ASSUME NEW q \in Seq(Facts), q # <<>>
  PROVE  Len(q) \in DOMAIN q /\ Current(q) = q[Len(q)] /\ Current(q) \in Facts
BY DEF Current

\* A fact that is not ACTIVE may be appended to any database.
LEMMA FactAdded ==
  ASSUME NEW d \in Rows, Accounted(d), NEW x \in Facts, x.state # "ACTIVE",
         NEW e \in Rows, e.adoption = d.adoption, e.facts = Append(d.facts, x)
  PROVE  Accounted(e) /\ \A f \in Switches : Knows(d, f) => Knows(e, f)
<1>1. d.facts \in Seq(Facts)
  BY DEF Rows
<1>2. Accounted(e)
  BY <1>1, AppendGives DEF Accounted, AccountedBy
<1>3. \A f \in Switches : Knows(d, f) => Knows(e, f)
  BY <1>1, AppendGives DEF Knows
<1> QED
  BY <1>2, <1>3

-----------------------------------------------------------------------------
(* Steps that write one database, and no plan. *)

LEMMA StoreWritten ==
  ASSUME AuthorityInv, NEW s \in Stores, NEW row \in Rows,
         db' = [db EXCEPT ![s] = row],
         UNCHANGED <<saved, plan>>, HandHeld', source' \in Nat,
         Accounted(row),
         db[s] # None => \A f \in Switches : Knows(db[s], f) => Knows(row, f)
  PROVE  AuthorityInv'
<1> USE DEF AuthorityInv
<1>1. Types'
  BY DEF Types
<1>2. \A t \in Stores : db'[t] = IF t = s THEN row ELSE db[t]
  BY DEF Types
<1>3. \A d : Accounted(d)' <=> Accounted(d)
  BY DEF Accounted, AccountedBy
<1>4. StoresHeld'
  BY <1>2 DEF StoresHeld, Accounted, AccountedBy
<1>5. row # None
  BY NoneAssumption
<1>6. ImagesHeld'
  <2> SUFFICES ASSUME NEW b \in Backups, saved[b] # None
               PROVE  /\ Accounted(saved[b].image)
                      /\ db'[saved[b].from] # None
                      /\ \A f \in Switches : Knows(saved[b].image, f) => Knows(db'[saved[b].from], f)
    BY DEF ImagesHeld, Accounted
  <2>1. saved[b].from \in Stores
    BY DEF Types, Images
  <2> QED
    BY <1>2, <1>5, <2>1 DEF ImagesHeld
<1> QED
  BY <1>1, <1>4, <1>6

\* A database that is written is there; the switch in progress goes on or ends.
LEMMA HandKeeps ==
  ASSUME AuthorityInv, UNCHANGED plan,
         \A t \in Stores : db[t] # None => db'[t] # None,
         hand' \in {hand, None} \/ (hand # None /\ Onward)
  PROVE  HandHeld'
<1> USE DEF AuthorityInv, Types
<1>1. CASE hand' \in {hand, None}
  BY <1>1 DEF HandHeld, Hands, PlanOK
<1>2. CASE hand # None /\ Onward /\ hand' # None
  <2>1. hand' = [hand EXCEPT !.step = @ + 1] /\ hand.step # Len(Steps[plan[hand.switch].kind])
    BY <1>2 DEF Onward
  <2>2. hand \in Hands /\ plan[hand.switch].kind \in {"ADOPT", "FORWARD", "DISASTER", "RELOCATE"}
    BY <1>2 DEF HandHeld
  <2>3. hand' \in Hands /\ hand'.switch = hand.switch /\ hand'.step = hand.step + 1
    BY <2>1, <2>2 DEF Hands
  <2>4. Len(Steps[plan[hand.switch].kind]) \in Nat
    BY <2>2 DEF Steps
  <2>5. hand'.step \in 1 .. Len(Steps[plan[hand.switch].kind])
    BY <1>2, <2>1, <2>3, <2>4 DEF HandHeld
  <2>6. hand.switch \in Switches
    BY <2>2 DEF Hands
  <2> QED
    BY <1>2, <2>3, <2>5, <2>6 DEF HandHeld, PlanOK
<1> QED
  BY <1>1, <1>2 DEF HandHeld

LEMMA Present ==
  ASSUME AuthorityInv, NEW s \in Stores, NEW row \in Rows, db' = [db EXCEPT ![s] = row]
  PROVE  \A t \in Stores : db[t] # None => db'[t] # None
BY NoneAssumption DEF AuthorityInv, Types

\* ... of which the switches know nothing.
LEMMA WorkWritten ==
  ASSUME AuthorityInv, NEW s \in Stores, NEW row \in Rows, Put(s, row), db[s] # None,
         row.adoption = db[s].adoption, row.facts = db[s].facts
  PROVE  AuthorityInv'
<1>1. Accounted(row) /\ \A f \in Switches : Knows(db[s], f) => Knows(row, f)
  BY DEF AuthorityInv, StoresHeld, Accounted, AccountedBy, Knows
<1>2. /\ db' = [db EXCEPT ![s] = row]
      /\ UNCHANGED <<saved, plan>> /\ HandHeld' /\ source' \in Nat
  BY Present, HandKeeps DEF Put, AuthorityInv, Types
<1> QED
  BY <1>1, <1>2, StoreWritten

\* Steps that write no database at all.
LEMMA NoStoreWritten ==
  ASSUME AuthorityInv, UNCHANGED <<db, saved, plan>>, HandHeld', source' \in Nat
  PROVE  AuthorityInv'
<1> USE DEF AuthorityInv
<1>1. Types'
  BY DEF Types
<1>2. StoresHeld'
  BY DEF StoresHeld, Accounted, AccountedBy
<1>3. ImagesHeld'
  BY DEF ImagesHeld, Accounted
<1> QED
  BY <1>1, <1>2, <1>3

LEMMA RowOf ==
  ASSUME AuthorityInv, NEW s \in Stores, db[s] # None
  PROVE  db[s] \in Rows /\ Accounted(db[s])
BY DEF AuthorityInv, Types, StoresHeld

-----------------------------------------------------------------------------
LEMMA InitHolds == Init => AuthorityInv
<1> SUFFICES ASSUME Init PROVE AuthorityInv
  OBVIOUS
<1>1. \A s \in Stores : NewStore(s, None) \in Rows
  BY DEF NewStore, Rows
<1>2. \A s \in Stores : db[s] = None \/ db[s] = NewStore(s, None)
  BY DEF Init
<1>3. Types
  BY <1>1 DEF Init, Types
<1>4. StoresHeld
  <2>1. ASSUME NEW s \in Stores PROVE Accounted(NewStore(s, None))
    <3>1. /\ NewStore(s, None).facts = <<>>
          /\ NewStore(s, None).adoption = [f \in Switches |-> "ABSENT"]
      BY DEF NewStore
    <3> QED
      BY <3>1 DEF Accounted, AccountedBy
  <2> QED
    BY <1>2, <2>1 DEF StoresHeld
<1>5. ImagesHeld /\ HandHeld
  BY DEF Init, ImagesHeld, HandHeld
<1> QED
  BY <1>3, <1>4, <1>5 DEF AuthorityInv

LEMMA WorkKeeps ==
  ASSUME AuthorityInv, NEW s \in Stores, NEW w \in Works,
         RecordGrant(s, w) \/ Prepare(s, w) \/ RecordIntent(s, w) \/ ObserveOutcome(s, w)
  PROVE  AuthorityInv'
<1>1. db[s] # None
  BY DEF RecordGrant, Prepare, RecordIntent, ObserveOutcome, Writable, Has
<1>2. db[s] \in Rows
  BY <1>1, RowOf
<1>3. CASE RecordGrant(s, w)
  <2> DEFINE g == [epoch |-> db[s].epoch, quarantined |-> db[s].quarantined]
             row == [db[s] EXCEPT !.grant[w] = g]
  <2>1. Put(s, row)
    BY <1>3 DEF RecordGrant
  <2>2. g \in Grants
    BY <1>2 DEF Rows, Grants
  <2> HIDE DEF g
  <2>3. row \in Rows /\ row.adoption = db[s].adoption /\ row.facts = db[s].facts
    BY <1>2, <2>2 DEF Rows
  <2> HIDE DEF row
  <2> QED
    BY <1>1, <2>1, <2>3, WorkWritten
<1>4. ASSUME NEW o \in {"PREPARED", "INTENT", "DONE"}, Put(s, [db[s] EXCEPT !.op[w] = o])
      PROVE  AuthorityInv'
  <2> DEFINE row == [db[s] EXCEPT !.op[w] = o]
  <2>1. row \in Rows /\ row.adoption = db[s].adoption /\ row.facts = db[s].facts
    BY <1>2 DEF Rows
  <2>2. Put(s, row)
    BY <1>4
  <2> HIDE DEF row
  <2> QED
    BY <1>1, <2>1, <2>2, WorkWritten
<1> QED
  BY <1>3, <1>4 DEF Prepare, RecordIntent, ObserveOutcome

LEMMA OrdinaryWriteKeeps ==
  ASSUME AuthorityInv, NEW s \in Stores, OrdinaryWrite(s)
  PROVE  AuthorityInv'
<1> DEFINE row == [db[s] EXCEPT !.notes = @ + 1]
<1>1. Put(s, row) /\ db[s] # None
  BY DEF OrdinaryWrite, Writable, Has
<1>2. db[s] \in Rows
  BY <1>1, RowOf
<1>3. row \in Rows /\ row.adoption = db[s].adoption /\ row.facts = db[s].facts
  BY <1>2 DEF Rows
<1> HIDE DEF row
<1> QED
  BY <1>1, <1>3, WorkWritten

LEMMA ImportKeeps ==
  ASSUME AuthorityInv, NEW s \in Stores, ImportDefinitions(s) \/ FinalizeImport(s)
  PROVE  AuthorityInv'
<1>1. CASE ImportDefinitions(s)
  <2> DEFINE row == [NewStore(s, source) EXCEPT !.published = FALSE, !.quarantined = TRUE]
  <2>1. NewStore(s, source) \in Rows /\ NewStore(s, source).facts = <<>>
        /\ NewStore(s, source).adoption = [f \in Switches |-> "ABSENT"]
    BY DEF NewStore, Rows, AuthorityInv, Types
  <2>2. /\ row \in Rows /\ row.facts = <<>>
        /\ \A f \in Switches : row.adoption[f] = "ABSENT"
    BY <2>1 DEF Rows
  <2>3. Put(s, row) /\ db[s] = None
    BY <1>1 DEF ImportDefinitions
  <2> HIDE DEF row
  <2>4. Accounted(row)
    BY <2>2 DEF Accounted, AccountedBy
  <2>5. /\ db' = [db EXCEPT ![s] = row]
        /\ UNCHANGED <<saved, plan>> /\ HandHeld' /\ source' \in Nat
    BY <2>2, <2>3, Present, HandKeeps DEF Put, AuthorityInv, Types
  <2> QED
    BY <2>2, <2>3, <2>4, <2>5, StoreWritten
<1>2. CASE FinalizeImport(s)
  <2> DEFINE row == [db[s] EXCEPT !.published = TRUE]
  <2>1. Put(s, row) /\ db[s] # None
    BY <1>2 DEF FinalizeImport
  <2>2. db[s] \in Rows
    BY <2>1, RowOf
  <2>3. row \in Rows /\ row.adoption = db[s].adoption /\ row.facts = db[s].facts
    BY <2>2 DEF Rows
  <2> HIDE DEF row
  <2> QED
    BY <2>1, <2>3, WorkWritten
<1> QED
  BY <1>1, <1>2

LEMMA ApplyReviewKeeps ==
  ASSUME AuthorityInv, NEW t \in Stores, ApplyReview(t)
  PROVE  AuthorityInv'
<1> DEFINE op == [w \in Works |-> IF db[t].op[w] = "PREPARED" THEN "CANCELLED" ELSE db[t].op[w]]
           grant == [w \in Works |-> IF db[t].grant[w] = None THEN None ELSE Revoked]
           row == [db[t] EXCEPT !.quarantined = FALSE, !.reviewed = TRUE, !.op = op,
                                !.grant = grant]
<1>1. Put(t, row) /\ db[t] # None
  BY DEF ApplyReview, Writable, Has
<1>2. db[t] \in Rows
  BY <1>1, RowOf
<1>3. /\ op \in [Works -> {"ABSENT", "PREPARED", "INTENT", "UNKNOWN", "DONE", "CANCELLED"}]
      /\ grant \in [Works -> Grants \cup {None, Revoked}]
  BY <1>2 DEF Rows
<1> HIDE DEF op, grant
<1>4. row \in Rows /\ row.adoption = db[t].adoption /\ row.facts = db[t].facts
  BY <1>2, <1>3 DEF Rows
<1> HIDE DEF row
<1> QED
  BY <1>1, <1>4, WorkWritten

LEMMA BesideKeeps ==
  ASSUME AuthorityInv,
         \/ \E w \in Works : WorkerEnds(w)
         \/ \E s \in Stores : StoreFails(s) \/ StoreReturns(s)
         \/ \E i \in 1..2 : LegacyLock(i) \/ LegacyUnlock(i)
         \/ Interrupted
         \/ \E f \in Switches : TakesSealsBack(f) \/ Refuses(f)
         \/ UNCHANGED vars
  PROVE  AuthorityInv'
<1>1. UNCHANGED <<db, saved, plan>>
  BY DEF WorkerEnds, StoreFails, StoreReturns, LegacyLock, LegacyUnlock, Interrupted,
     TakesSealsBack, Refuses, vars
<1>2. hand' = hand \/ hand' = None
  BY DEF WorkerEnds, StoreFails, StoreReturns, LegacyLock, LegacyUnlock, Interrupted,
     TakesSealsBack, Refuses, vars
<1>3. source' \in Nat
  BY DEF WorkerEnds, StoreFails, StoreReturns, LegacyLock, LegacyUnlock, Interrupted,
     TakesSealsBack, Refuses, vars, AuthorityInv, Types
<1>4. HandHeld'
  BY <1>1, <1>2, HandKeeps
<1> QED
  BY <1>1, <1>3, <1>4, NoStoreWritten

-----------------------------------------------------------------------------
(* Backups, restores and plans. *)

LEMMA BackupKeeps ==
  ASSUME AuthorityInv, NEW b \in Backups, NEW s \in Stores, Backup(b, s)
  PROVE  AuthorityInv'
<1> DEFINE image == [from |-> s, image |-> db[s]]
<1>1. db[s] # None /\ saved' = [saved EXCEPT ![b] = image] /\ UNCHANGED <<db, plan, hand, source>>
  BY DEF Backup, Has
<1>2. image \in Images /\ image.from = s /\ image.image = db[s]
  BY <1>1, RowOf DEF Images
<1> HIDE DEF image
<1>3. Types' /\ \A c \in Backups : saved'[c] = IF c = b THEN image ELSE saved[c]
  BY <1>1, <1>2 DEF AuthorityInv, Types
<1>4. HandHeld'
  BY <1>1, HandKeeps
<1>5. StoresHeld'
  BY <1>1 DEF AuthorityInv, StoresHeld, Accounted, AccountedBy
<1>6. Accounted(db[s])
  BY <1>1, RowOf
<1>7. ImagesHeld'
  <2> SUFFICES ASSUME NEW c \in Backups, saved'[c] # None
               PROVE  /\ Accounted(saved'[c].image)
                      /\ db[saved'[c].from] # None
                      /\ \A f \in Switches : Knows(saved'[c].image, f) => Knows(db[saved'[c].from], f)
    BY <1>1 DEF ImagesHeld, Accounted
  <2>1. CASE c = b
    BY <1>1, <1>2, <1>3, <1>6, <2>1
  <2>2. CASE c # b
    BY <1>3, <2>2 DEF AuthorityInv, ImagesHeld
  <2> QED
    BY <2>1, <2>2
<1> QED
  BY <1>3, <1>4, <1>5, <1>7 DEF AuthorityInv

LEMMA RestoreKeeps ==
  ASSUME AuthorityInv, NEW b \in Backups, NEW t \in Stores, Restore(b, t)
  PROVE  AuthorityInv'
<1> DEFINE image == saved[b].image
           x == [switch |-> Current(image.facts).switch, store |-> t, epoch |-> t, state |-> "RESTORED"]
           op == [w \in Works |-> OpAfterRestore(image.op[w])]
           grant == [w \in Works |-> IF image.grant[w] = None THEN None ELSE Revoked]
           facts == IF image.facts = <<>> THEN <<>> ELSE Append(image.facts, x)
           row == [image EXCEPT !.epoch = t, !.quarantined = TRUE, !.basis = b, !.reviewed = FALSE,
                     !.op = op, !.grant = grant, !.facts = facts]
<1>1. Put(t, row) /\ db[t] = None /\ saved[b] # None
  BY DEF Restore, Restored
<1>2. image \in Rows /\ Accounted(image)
  BY <1>1 DEF AuthorityInv, Types, Images, ImagesHeld
<1>3. /\ op \in [Works -> {"ABSENT", "PREPARED", "INTENT", "UNKNOWN", "DONE", "CANCELLED"}]
      /\ grant \in [Works -> Grants \cup {None, Revoked}]
  BY <1>2 DEF Rows, OpAfterRestore
<1>4. image.facts \in Seq(Facts)
  BY <1>2 DEF Rows
<1>5. image.facts # <<>> => x \in Facts
  BY <1>4, LastIsFact DEF Facts
<1>6. x.state = "RESTORED"
  OBVIOUS
<1> HIDE DEF x, image
<1>7. /\ facts \in Seq(Facts)
      /\ \A i \in DOMAIN facts : facts[i].state = "ACTIVE" =>
           i \in DOMAIN image.facts /\ facts[i] = image.facts[i]
  BY <1>4, <1>5, <1>6, AppendGives
<1> HIDE DEF op, grant, facts
<1>8. row \in Rows /\ row.adoption = image.adoption /\ row.facts = facts
  BY <1>2, <1>3, <1>7 DEF Rows
<1> HIDE DEF row
<1>9. Accounted(row)
  BY <1>2, <1>7, <1>8 DEF Accounted, AccountedBy
<1>10. /\ db' = [db EXCEPT ![t] = row]
       /\ UNCHANGED <<saved, plan>> /\ HandHeld' /\ source' \in Nat
  BY <1>1, <1>8, Present, HandKeeps DEF Put, AuthorityInv, Types
<1> QED
  BY <1>1, <1>8, <1>9, <1>10, StoreWritten

\* A switch that no database knows is ACTIVE nowhere, also in no image.
LEMMA UnusedIsFree ==
  ASSUME AuthorityInv, NEW f \in Switches, Unused(f)
  PROVE  /\ \A s \in Stores : db[s] # None => ~Knows(db[s], f)
         /\ \A b \in Backups : saved[b] # None => ~Knows(saved[b].image, f)
<1>1. \A s \in Stores : db[s] # None => ~Knows(db[s], f)
  BY DEF Unused, Knows
<1>2. \A b \in Backups : saved[b] # None => saved[b].from \in Stores /\ db[saved[b].from] # None
  BY DEF AuthorityInv, Types, Images, ImagesHeld
<1> QED
  BY <1>1, <1>2 DEF AuthorityInv, ImagesHeld

LEMMA PlanChanged ==
  ASSUME AuthorityInv, NEW f \in Switches, NEW p, PlanOK(p), hand = None,
         plan' = [plan EXCEPT ![f] = p], UNCHANGED <<db, saved, hand, source>>,
         \A s \in Stores : db[s] # None =>
            /\ db[s].adoption[f] # "ACTIVE"
            /\ \A i \in DOMAIN db[s].facts : db[s].facts[i].state = "ACTIVE" => db[s].facts[i].switch # f,
         \A b \in Backups : saved[b] # None =>
            /\ saved[b].image.adoption[f] # "ACTIVE"
            /\ \A i \in DOMAIN saved[b].image.facts :
                 saved[b].image.facts[i].state = "ACTIVE" => saved[b].image.facts[i].switch # f
  PROVE  AuthorityInv'
<1> USE DEF AuthorityInv
<1>1. Types' /\ \A g \in Switches : plan'[g] = IF g = f THEN p ELSE plan[g]
  BY DEF Types
<1>2. HandHeld'
  BY DEF HandHeld
<1>3. ASSUME NEW d \in Rows, Accounted(d), d.adoption[f] # "ACTIVE",
             \A i \in DOMAIN d.facts : d.facts[i].state = "ACTIVE" => d.facts[i].switch # f
      PROVE  Accounted(d)'
  <2>1. d.facts \in Seq(Facts)
    BY DEF Rows
  <2>2. \A i \in DOMAIN d.facts : d.facts[i] \in Facts
    BY <2>1
  <2>3. \A i \in DOMAIN d.facts : d.facts[i].switch \in Switches
    BY <2>2 DEF Facts
  <2> QED
    BY <1>1, <1>3, <2>3 DEF Accounted, AccountedBy
<1>4. StoresHeld'
  BY <1>3, RowOf DEF StoresHeld
<1>5. ImagesHeld'
  <2> SUFFICES ASSUME NEW b \in Backups, saved[b] # None
               PROVE  /\ Accounted(saved[b].image)'
                      /\ db[saved[b].from] # None
                      /\ \A g \in Switches : Knows(saved[b].image, g) => Knows(db[saved[b].from], g)
    BY DEF ImagesHeld, Knows
  <2>1. saved[b].image \in Rows /\ Accounted(saved[b].image)
    BY DEF Types, Images, ImagesHeld
  <2> QED
    BY <1>3, <2>1 DEF ImagesHeld
<1> QED
  BY <1>1, <1>2, <1>4, <1>5

LEMMA ReviewKeeps ==
  ASSUME AuthorityInv, NEW f \in Switches, NEW p, PlanOK(p), Review(f, p)
  PROVE  AuthorityInv'
<1>1. /\ hand = None /\ plan' = [plan EXCEPT ![f] = p] /\ UNCHANGED <<db, saved, hand, source>>
      /\ Unused(f)
  BY DEF Review
<1>2. \A s \in Stores : db[s] # None =>
        /\ db[s].adoption[f] # "ACTIVE"
        /\ \A i \in DOMAIN db[s].facts : db[s].facts[i].state = "ACTIVE" => db[s].facts[i].switch # f
  BY <1>1, UnusedIsFree DEF Knows
<1>3. \A b \in Backups : saved[b] # None =>
        /\ saved[b].image.adoption[f] # "ACTIVE"
        /\ \A i \in DOMAIN saved[b].image.facts :
             saved[b].image.facts[i].state = "ACTIVE" => saved[b].image.facts[i].switch # f
  BY <1>1, UnusedIsFree DEF Knows
<1> QED
  BY <1>1, <1>2, <1>3, PlanChanged

LEMMA PlanAdoptionKeeps ==
  ASSUME AuthorityInv, NEW f \in Switches, NEW s \in Stores, PlanAdoption(f, s)
  PROVE  AuthorityInv'
<1> DEFINE p == [kind |-> "ADOPT", target |-> s, old |-> s, parent |-> None, epoch |-> f,
                 revision |-> source, oldHash |-> None, newHash |-> None]
<1>1. PlanOK(p)
  BY DEF PlanOK, PlanFields
<1>2. Review(f, p)
  BY DEF PlanAdoption
<1> HIDE DEF p
<1> QED
  BY <1>1, <1>2, ReviewKeeps

LEMMA PlanForwardKeeps ==
  ASSUME AuthorityInv, NEW f \in Switches, NEW b \in Backups, NEW t \in Stores,
         PlanForward(f, b, t)
  PROVE  AuthorityInv'
<1> PICK s \in Stores, parent \in Switches :
      /\ Reconciled(t, b)
      /\ Review(f, [kind |-> "FORWARD", target |-> t, old |-> s, parent |-> parent,
                    epoch |-> db[t].epoch, revision |-> None, oldHash |-> StateHash(db[s]),
                    newHash |-> StateHash(db[t])])
  BY DEF PlanForward
<1> DEFINE p == [kind |-> "FORWARD", target |-> t, old |-> s, parent |-> parent,
                 epoch |-> db[t].epoch, revision |-> None, oldHash |-> StateHash(db[s]),
                 newHash |-> StateHash(db[t])]
<1>1. db[t].epoch \in Stores \cup Switches
  BY RowOf DEF Reconciled, Has, Rows
<1>2. PlanOK(p)
  BY <1>1 DEF PlanOK, PlanFields
<1>3. Review(f, p)
  OBVIOUS
<1> HIDE DEF p
<1> QED
  BY <1>2, <1>3, ReviewKeeps

LEMMA PlanDisasterKeeps ==
  ASSUME AuthorityInv, NEW f \in Switches, NEW b \in Backups, NEW t \in Stores,
         PlanDisaster(f, b, t)
  PROVE  AuthorityInv'
<1> PICK parent \in Switches :
      /\ saved[b] # None /\ saved[b].image.adoption[parent] = "ACTIVE"
      /\ Reconciled(t, b)
      /\ Review(f, [kind |-> "DISASTER", target |-> t, old |-> plan[parent].target,
                    parent |-> parent, epoch |-> db[t].epoch, revision |-> None,
                    oldHash |-> db[plan[parent].target], newHash |-> StateHash(db[t])])
  BY DEF PlanDisaster
<1> DEFINE p == [kind |-> "DISASTER", target |-> t, old |-> plan[parent].target,
                 parent |-> parent, epoch |-> db[t].epoch, revision |-> None,
                 oldHash |-> db[plan[parent].target], newHash |-> StateHash(db[t])]
<1>1. db[t].epoch \in Stores \cup Switches
  BY RowOf DEF Reconciled, Has, Rows
<1>2. plan[parent].target \in Stores
  BY DEF AuthorityInv, ImagesHeld, Accounted, AccountedBy, Types, PlanOK
<1>3. PlanOK(p)
  BY <1>1, <1>2 DEF PlanOK, PlanFields
<1>4. Review(f, p)
  OBVIOUS
<1> HIDE DEF p
<1> QED
  BY <1>3, <1>4, ReviewKeeps

LEMMA PlanRelocationKeeps ==
  ASSUME AuthorityInv, NEW f \in Switches, PlanRelocation(f)
  PROVE  AuthorityInv'
<1> DEFINE hash == Without(db[plan[f].target], f)
           p == [plan[f] EXCEPT !.kind = "RELOCATE", !.newHash = hash]
<1>1. /\ plan[f] # None /\ plan[f].kind = "PREPARING" /\ hand = None
      /\ plan' = [plan EXCEPT ![f].kind = "RELOCATE", ![f].newHash = hash]
      /\ UNCHANGED <<db, saved, hand, source>>
  BY DEF PlanRelocation
<1>2. PlanOK(plan[f]) /\ plan = [g \in Switches |-> plan[g]]
  BY <1>1 DEF AuthorityInv, Types
<1> HIDE DEF hash
<1>3. PlanOK(p) /\ plan' = [plan EXCEPT ![f] = p]
  BY <1>1, <1>2 DEF PlanOK, PlanFields
<1> HIDE DEF p
<1>4. ASSUME NEW d, Accounted(d)
      PROVE  /\ d.adoption[f] # "ACTIVE"
             /\ \A i \in DOMAIN d.facts : d.facts[i].state = "ACTIVE" => d.facts[i].switch # f
  BY <1>1, <1>4 DEF Accounted, AccountedBy
<1> QED
  BY ZenonT(40), <1>1, <1>3, <1>4, PlanChanged DEF AuthorityInv, StoresHeld, ImagesHeld

LEMMA PrepareRelocationKeeps ==
  ASSUME AuthorityInv, NEW f \in Switches, NEW s \in Stores, NEW b \in Backups,
         NEW t \in Stores, PrepareRelocation(f, s, b, t)
  PROVE  AuthorityInv'
<1> DEFINE x == [switch |-> f, store |-> t, epoch |-> t, state |-> "RESTORED"]
           op == [w \in Works |-> OpAfterRestore(db[s].op[w])]
           grant == [w \in Works |-> IF db[s].grant[w] = None THEN None ELSE Revoked]
           row == [db[s] EXCEPT !.epoch = t, !.quarantined = TRUE, !.basis = b,
                     !.reviewed = FALSE, !.op = op, !.grant = grant, !.facts = Append(@, x)]
           image == [from |-> s, image |-> db[s]]
           p == [kind |-> "PREPARING", target |-> t, old |-> s, parent |-> pointer, epoch |-> t,
                 revision |-> None, oldHash |-> StateHash(db[s]), newHash |-> None]
<1> USE DEF AuthorityInv
<1>1. /\ db[s] # None /\ db[t] = None /\ hand = None /\ Unused(f)
      /\ saved' = [saved EXCEPT ![b] = image] /\ db' = [db EXCEPT ![t] = row]
      /\ plan' = [plan EXCEPT ![f] = p] /\ UNCHANGED <<hand, source>>
  BY DEF PrepareRelocation
<1>2. db[s] \in Rows /\ Accounted(db[s]) /\ db[s].facts \in Seq(Facts)
  BY <1>1, RowOf DEF Rows
<1>3. /\ op \in [Works -> {"ABSENT", "PREPARED", "INTENT", "UNKNOWN", "DONE", "CANCELLED"}]
      /\ grant \in [Works -> Grants \cup {None, Revoked}]
  BY <1>2 DEF Rows, OpAfterRestore
<1>4. x \in Facts /\ x.state = "RESTORED"
  BY DEF Facts
<1>5. PlanOK(p)
  BY DEF PlanOK, PlanFields
<1>6. image \in Images /\ image.from = s /\ image.image = db[s]
  BY <1>2 DEF Images
<1> HIDE DEF x, op, grant, p, image
<1>7. /\ row \in Rows /\ row.adoption = db[s].adoption
      /\ row.facts = Append(db[s].facts, x)
  BY <1>2, <1>3, <1>4, AppendGives DEF Rows
<1> HIDE DEF row
<1>8. Accounted(row)
  BY <1>2, <1>4, <1>7, FactAdded
<1>9. /\ Types'
      /\ \A y \in Stores : db'[y] = IF y = t THEN row ELSE db[y]
      /\ \A c \in Backups : saved'[c] = IF c = b THEN image ELSE saved[c]
      /\ \A g \in Switches : plan'[g] = IF g = f THEN p ELSE plan[g]
  BY <1>1, <1>5, <1>6, <1>7 DEF Types
<1>10. HandHeld'
  BY <1>1 DEF HandHeld
\* Nothing said so far that f is ACTIVE: the new plan of f disturbs nothing.
<1>11. ASSUME NEW d \in Rows, Accounted(d), ~Knows(d, f)
       PROVE  AccountedBy(d, plan')
  <2>1. d.facts \in Seq(Facts)
    BY DEF Rows
  <2>2. \A i \in DOMAIN d.facts : d.facts[i] \in Facts
    BY <2>1
  <2>3. \A i \in DOMAIN d.facts : d.facts[i].switch \in Switches \ {f}
    BY <1>11, <2>2 DEF Facts, Knows
  <2>4. d.adoption[f] # "ACTIVE"
    BY <1>11 DEF Knows
  <2> QED
    BY <1>9, <1>11, <2>3, <2>4 DEF Accounted, AccountedBy
<1>12. \A y \in Stores : db[y] # None => AccountedBy(db[y], plan')
  BY <1>1, <1>11, RowOf, UnusedIsFree
<1>13. AccountedBy(row, plan')
  <2>1. \A i \in DOMAIN row.facts : row.facts[i].state = "ACTIVE" =>
           i \in DOMAIN db[s].facts /\ row.facts[i] = db[s].facts[i]
    BY <1>2, <1>4, <1>7, AppendGives
  <2>2. AccountedBy(db[s], plan')
    BY <1>1, <1>12
  <2> QED
    BY <1>7, <2>1, <2>2 DEF AccountedBy
<1>14. StoresHeld'
  BY <1>9, <1>12, <1>13 DEF StoresHeld, Accounted
<1>15. \A g \in Switches : Knows(db[s], g) => Knows(row, g)
  BY <1>2, <1>4, <1>7, FactAdded
<1>16. \A y \in Stores : db[y] # None =>
         db'[y] # None /\ \A g \in Switches : Knows(db[y], g) => Knows(db'[y], g)
  BY <1>1, <1>9
<1>17. ASSUME NEW c \in Backups, saved'[c] # None
       PROVE  /\ AccountedBy(saved'[c].image, plan')
              /\ db'[saved'[c].from] # None
              /\ \A g \in Switches : Knows(saved'[c].image, g) => Knows(db'[saved'[c].from], g)
  <2>1. CASE c = b
    <3>1. saved'[c].image = db[s] /\ saved'[c].from = s
      BY <1>6, <1>9, <2>1
    <3> QED
      BY <1>1, <1>12, <1>16, <3>1
  <2>2. CASE c # b
    <3>1. saved'[c] = saved[c] /\ saved[c].from \in Stores /\ saved[c].image \in Rows
      BY <1>9, <1>17, <2>2 DEF Types, Images
    <3>2. /\ Accounted(saved[c].image) /\ ~Knows(saved[c].image, f)
          /\ db[saved[c].from] # None
          /\ \A g \in Switches : Knows(saved[c].image, g) => Knows(db[saved[c].from], g)
      BY <1>1, <1>17, <3>1, UnusedIsFree DEF ImagesHeld
    <3>3. AccountedBy(saved[c].image, plan')
      BY <1>11, <3>1, <3>2
    <3> QED
      BY <1>16, <3>1, <3>2, <3>3
  <2> QED
    BY <2>1, <2>2
<1>18. ImagesHeld'
  BY <1>17 DEF ImagesHeld, Accounted, Knows
<1> QED
  BY <1>9, <1>10, <1>14, <1>18

-----------------------------------------------------------------------------
(* A switch. *)

LEMMA PrepareAdoptionKeeps ==
  ASSUME AuthorityInv, NEW f \in Switches, PrepareAdoption(f)
  PROVE  AuthorityInv'
<1> DEFINE s == plan[f].target
           row == [db[s] EXCEPT !.adoption[f] = "PREPARED"]
<1>1. Put(s, row) /\ db[s] # None /\ s \in Stores
  BY DEF PrepareAdoption, Writable, Has, AuthorityInv, Types, PlanOK
<1>2. db[s] \in Rows /\ Accounted(db[s])
  BY <1>1, RowOf
<1> HIDE DEF s
<1>3. /\ row \in Rows /\ row.facts = db[s].facts
      /\ row.adoption = [db[s].adoption EXCEPT ![f] = "PREPARED"]
  BY <1>2 DEF Rows
<1> HIDE DEF row
<1>4. Accounted(row) /\ \A g \in Switches : Knows(db[s], g) => Knows(row, g)
  BY <1>2, <1>3 DEF Accounted, AccountedBy, Knows, Rows
<1>5. /\ db' = [db EXCEPT ![s] = row]
      /\ UNCHANGED <<saved, plan>> /\ HandHeld' /\ source' \in Nat
  BY <1>1, <1>3, Present, HandKeeps DEF Put, AuthorityInv, Types
<1> QED
  BY <1>1, <1>3, <1>4, <1>5, StoreWritten

LEMMA FilesKeep ==
  ASSUME AuthorityInv, NEW f \in Switches,
         ReplacePointer(f) \/ \E i \in 1..2 : ReplaceSeal(f, i)
  PROVE  AuthorityInv'
<1>1. hand # None /\ Onward /\ UNCHANGED <<db, saved, plan, source>>
  BY DEF ReplacePointer, ReplaceSeal, At
<1>2. HandHeld'
  BY <1>1, HandKeeps
<1> QED
  BY <1>1, <1>2, NoStoreWritten DEF AuthorityInv, Types

LEMMA BeginKeeps ==
  ASSUME AuthorityInv, NEW f \in Switches, Begin(f)
  PROVE  AuthorityInv'
<1>1. /\ plan[f] # None /\ db[plan[f].target] # None /\ BasisHolds(f)
      /\ hand' = [switch |-> f, step |-> 1] /\ UNCHANGED <<db, saved, plan, source>>
  BY DEF Begin, Has
<1>2. /\ plan[f].kind \in {"ADOPT", "FORWARD", "DISASTER", "RELOCATE"}
      /\ plan[f].kind \in {"FORWARD", "RELOCATE"} => db[plan[f].old] # None
  BY <1>1 DEF BasisHolds, Has
<1>3. 1 \in 1 .. Len(Steps[plan[f].kind])
  BY <1>2 DEF Steps
<1>4. hand' \in Hands /\ hand'.switch = f /\ hand'.step = 1
  BY <1>1 DEF Hands
<1>5. HandHeld'
  BY <1>1, <1>2, <1>3, <1>4 DEF HandHeld
<1> QED
  BY <1>1, <1>5, NoStoreWritten DEF AuthorityInv, Types

\* The step a switch takes, and the databases it takes it in.
LEMMA AtGives ==
  ASSUME AuthorityInv, NEW f \in Switches, NEW step, At(f, step)
  PROVE  /\ hand # None /\ plan[f] # None /\ PlanOK(plan[f])
         /\ plan[f].kind \in {"ADOPT", "FORWARD", "DISASTER", "RELOCATE"}
         /\ db[plan[f].target] # None
         /\ step = "OLD" => db[plan[f].old] # None
<1>1. /\ hand # None /\ hand.switch = f /\ plan[f] # None
      /\ plan[f].kind \in {"ADOPT", "FORWARD", "DISASTER", "RELOCATE"}
      /\ hand.step \in 1 .. Len(Steps[plan[f].kind])
      /\ db[plan[f].target] # None
      /\ plan[f].kind \in {"FORWARD", "RELOCATE"} => db[plan[f].old] # None
      /\ Steps[plan[f].kind][hand.step] = step
  BY DEF At, AuthorityInv, HandHeld
<1>2. step = "OLD" => plan[f].kind \in {"FORWARD", "RELOCATE"}
  <2>1. CASE plan[f].kind = "ADOPT"
    BY <1>1, <2>1 DEF Steps
  <2>2. CASE plan[f].kind = "DISASTER"
    BY <1>1, <2>2 DEF Steps
  <2> QED
    BY <1>1, <2>1, <2>2
<1> QED
  BY <1>1, <1>2 DEF AuthorityInv, Types

\* A step of a switch that writes the database s.
LEMMA SwitchWritten ==
  ASSUME AuthorityInv, NEW s \in Stores, NEW row \in Rows, hand # None, Onward,
         db' = [db EXCEPT ![s] = row], UNCHANGED <<saved, plan, source>>,
         Accounted(row), \A g \in Switches : Knows(db[s], g) => Knows(row, g)
  PROVE  AuthorityInv'
<1>1. HandHeld'
  BY Present, HandKeeps
<1>2. source' \in Nat
  BY DEF AuthorityInv, Types
<1> QED
  BY <1>1, <1>2, StoreWritten

LEMMA FactOf ==
  ASSUME AuthorityInv, NEW f \in Switches, NEW s \in Stores, db[s] # None,
         NEW state \in {"PREPARED", "SUPERSEDED", "ACTIVE"}
  PROVE  /\ Fact(f, s, state) \in Facts /\ Fact(f, s, state).state = state
         /\ Fact(f, s, state).switch = f /\ Fact(f, s, state).store = s
<1>1. db[s].epoch \in Stores \cup Switches
  BY RowOf DEF Rows
<1> QED
  BY <1>1 DEF Fact, Facts

LEMMA MarkTargetKeeps ==
  ASSUME AuthorityInv, NEW f \in Switches, MarkTarget(f)
  PROVE  AuthorityInv'
<1> DEFINE t == plan[f].target
           x == Fact(f, t, "PREPARED")
           native == WithFact(db[t], x)
           adopted == [db[t] EXCEPT !.adoption[f] = "PREPARED",
                                    !.adoption[plan[f].parent] = "SUPERSEDED"]
<1>1. /\ At(f, "TARGET") /\ Onward /\ UNCHANGED <<saved, plan, source>>
      /\ db' = [db EXCEPT ![t] = IF plan[f].kind = "RELOCATE"
                                 THEN IF NativeState(db[t], f) = "PREPARED" THEN db[t] ELSE native
                                 ELSE adopted]
  BY DEF MarkTarget
<1>2. hand # None /\ t \in Stores /\ db[t] # None
  BY <1>1, AtGives DEF PlanOK
<1>3. db[t] \in Rows /\ Accounted(db[t])
  BY <1>2, RowOf
<1>4. x \in Facts /\ x.state = "PREPARED"
  BY <1>2, FactOf
<1> HIDE DEF t, x
<1>5. native \in Rows /\ native.adoption = db[t].adoption /\ native.facts = Append(db[t].facts, x)
  BY <1>3, <1>4, AppendGives DEF Rows, WithFact
<1>6. Accounted(native) /\ \A g \in Switches : Knows(db[t], g) => Knows(native, g)
  BY <1>3, <1>4, <1>5, FactAdded
<1>7. /\ adopted \in Rows /\ adopted.facts = db[t].facts
      /\ adopted.adoption = [db[t].adoption EXCEPT ![f] = "PREPARED", ![plan[f].parent] = "SUPERSEDED"]
  BY <1>3 DEF Rows
<1> HIDE DEF native, adopted
<1>8. Accounted(adopted) /\ \A g \in Switches : Knows(db[t], g) => Knows(adopted, g)
  BY SMTT(30), <1>3, <1>7 DEF Accounted, AccountedBy, Knows, Rows
<1>9. PICK row \in {db[t], native, adopted} : db' = [db EXCEPT ![t] = row]
  BY <1>1
<1> QED
  BY <1>1, <1>2, <1>3, <1>5, <1>6, <1>7, <1>8, <1>9, SwitchWritten

LEMMA MarkOldKeeps ==
  ASSUME AuthorityInv, NEW f \in Switches, MarkOld(f)
  PROVE  AuthorityInv'
<1> DEFINE s == plan[f].old
           x == Fact(f, s, "SUPERSEDED")
           native == WithFact(db[s], x)
           adopted == [db[s] EXCEPT !.adoption[plan[f].parent] = "SUPERSEDED"]
<1>1. /\ At(f, "OLD") /\ Onward /\ UNCHANGED <<saved, plan, source>>
      /\ db' = [db EXCEPT ![s] =
                  IF plan[f].kind = "RELOCATE"
                  THEN IF db[s].facts # <<>> /\ NativeState(db[s], f) = "SUPERSEDED" THEN db[s]
                       ELSE native
                  ELSE adopted]
  BY DEF MarkOld
<1>2. hand # None /\ s \in Stores /\ db[s] # None
  BY <1>1, AtGives DEF PlanOK
<1>3. db[s] \in Rows /\ Accounted(db[s])
  BY <1>2, RowOf
<1>4. x \in Facts /\ x.state = "SUPERSEDED"
  BY <1>2, FactOf
<1> HIDE DEF s, x
<1>5. native \in Rows /\ native.adoption = db[s].adoption /\ native.facts = Append(db[s].facts, x)
  BY <1>3, <1>4, AppendGives DEF Rows, WithFact
<1>6. Accounted(native) /\ \A g \in Switches : Knows(db[s], g) => Knows(native, g)
  BY <1>3, <1>4, <1>5, FactAdded
<1>7. /\ adopted \in Rows /\ adopted.facts = db[s].facts
      /\ adopted.adoption = [db[s].adoption EXCEPT ![plan[f].parent] = "SUPERSEDED"]
  BY <1>3 DEF Rows
<1> HIDE DEF native, adopted
<1>8. Accounted(adopted) /\ \A g \in Switches : Knows(db[s], g) => Knows(adopted, g)
  BY <1>3, <1>7 DEF Accounted, AccountedBy, Knows, Rows
<1>9. PICK row \in {db[s], native, adopted} : db' = [db EXCEPT ![s] = row]
  BY <1>1
<1> QED
  BY <1>1, <1>2, <1>3, <1>5, <1>6, <1>7, <1>8, <1>9, SwitchWritten

\* The one step that makes a switch ACTIVE does it in the target of its plan.
LEMMA ActivateKeeps ==
  ASSUME AuthorityInv, NEW f \in Switches, Activate(f)
  PROVE  AuthorityInv'
<1> DEFINE t == plan[f].target
           x == Fact(f, t, "ACTIVE")
           native == WithFact(db[t], x)
           adopted == [db[t] EXCEPT !.adoption[f] = "ACTIVE", !.epoch = plan[f].epoch,
                                    !.quarantined = FALSE]
           switched == [db[t] EXCEPT !.adoption[f] = "ACTIVE"]
<1>1. /\ At(f, "ACTIVATE") /\ Onward /\ UNCHANGED <<saved, plan, source>>
      /\ db' = [db EXCEPT ![t] = IF plan[f].kind = "RELOCATE" THEN native
                                 ELSE IF plan[f].kind = "ADOPT" THEN adopted ELSE switched]
  BY DEF Activate
<1>2. /\ hand # None /\ t \in Stores /\ db[t] # None /\ plan[f] # None
      /\ plan[f].kind \in {"ADOPT", "FORWARD", "DISASTER", "RELOCATE"}
      /\ plan[f].epoch \in Stores \cup Switches
  BY <1>1, AtGives DEF PlanOK
<1>3. db[t] \in Rows /\ Accounted(db[t]) /\ db[t].facts \in Seq(Facts)
  BY <1>2, RowOf DEF Rows
<1>4. x \in Facts /\ x.switch = f /\ x.store = t
  BY <1>2, FactOf
<1> HIDE DEF x
<1>5. CASE plan[f].kind = "RELOCATE"
  <2>1. native \in Rows /\ native.adoption = db[t].adoption /\ native.facts = Append(db[t].facts, x)
    BY <1>3, <1>4, AppendGives DEF Rows, WithFact
  <2> HIDE DEF native
  <2>2. Accounted(native)
    <3>1. \A i \in DOMAIN native.facts :
            native.facts[i] = x \/ (i \in DOMAIN db[t].facts /\ native.facts[i] = db[t].facts[i])
      BY <1>3, <1>4, <2>1, AppendGives
    <3>2. plan[x.switch] # None /\ plan[x.switch].kind = "RELOCATE" /\ plan[x.switch].target = x.store
      BY <1>2, <1>4, <1>5
    <3> HIDE DEF t
    <3> QED
      BY <1>3, <2>1, <3>1, <3>2 DEF Accounted, AccountedBy
  <2>3. \A g \in Switches : Knows(db[t], g) => Knows(native, g)
    <3>1. \A i \in DOMAIN db[t].facts : i \in DOMAIN native.facts /\ native.facts[i] = db[t].facts[i]
      BY <1>3, <1>4, <2>1, AppendGives
    <3> HIDE DEF t
    <3> QED
      BY <2>1, <3>1 DEF Knows
  <2> HIDE DEF t
  <2> QED
    BY <1>1, <1>2, <1>5, <2>1, <2>2, <2>3, SwitchWritten
<1>6. CASE plan[f].kind # "RELOCATE"
  <2> HIDE DEF t
  <2>1. /\ adopted \in Rows /\ adopted.facts = db[t].facts
        /\ adopted.adoption = [db[t].adoption EXCEPT ![f] = "ACTIVE"]
    BY <1>2, <1>3 DEF Rows
  <2>2. /\ switched \in Rows /\ switched.facts = db[t].facts
        /\ switched.adoption = [db[t].adoption EXCEPT ![f] = "ACTIVE"]
    BY <1>3 DEF Rows
  <2> HIDE DEF adopted, switched
  <2>3. PICK row \in {adopted, switched} : db' = [db EXCEPT ![t] = row]
    BY <1>1, <1>6
  <2>4. Accounted(row) /\ \A g \in Switches : Knows(db[t], g) => Knows(row, g)
    BY <1>2, <1>3, <1>6, <2>1, <2>2, <2>3 DEF Accounted, AccountedBy, Knows, Rows
  <2> QED
    BY ZenonT(40), <1>1, <1>2, <2>1, <2>2, <2>3, <2>4, SwitchWritten
<1> QED
  BY <1>5, <1>6

-----------------------------------------------------------------------------
LEMMA SwitchNextKeeps ==
  ASSUME AuthorityInv, NEW f \in Switches,
         \/ SwitchStep(f) \/ Begin(f) \/ PrepareAdoption(f) \/ PlanRelocation(f) \/ TakesSealsBack(f)
         \/ \E s \in Stores : PlanAdoption(f, s)
         \/ \E b \in Backups, t \in Stores :
              \/ PlanForward(f, b, t) \/ PlanDisaster(f, b, t)
              \/ \E s \in Stores : PrepareRelocation(f, s, b, t)
  PROVE  AuthorityInv'
<1>1. CASE SwitchStep(f) \/ TakesSealsBack(f)
  BY <1>1, MarkTargetKeeps, MarkOldKeeps, FilesKeep, ActivateKeeps, BesideKeeps DEF SwitchStep
<1> QED
  BY <1>1, BeginKeeps, PrepareAdoptionKeeps, PlanRelocationKeeps, PlanAdoptionKeeps,
     PlanForwardKeeps, PlanDisasterKeeps, PrepareRelocationKeeps

LEMMA AuthorityStep == AuthorityInv /\ [Next]_vars => AuthorityInv'
<1> SUFFICES ASSUME AuthorityInv, [Next]_vars PROVE AuthorityInv'
  OBVIOUS
<1>1. CASE \/ \E s \in Stores, w \in Works : \/ RecordGrant(s, w) \/ Prepare(s, w)
                                             \/ RecordIntent(s, w) \/ ObserveOutcome(s, w)
           \/ \E b \in Backups, s \in Stores : Backup(b, s) \/ Restore(b, s)
  BY <1>1, WorkKeeps, BackupKeeps, RestoreKeeps
<1>2. CASE \E s \in Stores : \/ OrdinaryWrite(s) \/ ImportDefinitions(s) \/ FinalizeImport(s)
                             \/ ApplyReview(s) \/ StoreFails(s) \/ StoreReturns(s)
  BY <1>2, OrdinaryWriteKeeps, ImportKeeps, ApplyReviewKeeps, BesideKeeps
<1>3. CASE \/ \E w \in Works : WorkerEnds(w)
           \/ \E i \in 1..2 : LegacyLock(i) \/ LegacyUnlock(i)
           \/ Interrupted \/ UNCHANGED vars
  BY <1>3, BesideKeeps
<1>4. CASE \E f \in Switches :
             \/ SwitchStep(f) \/ Begin(f) \/ PrepareAdoption(f) \/ PlanRelocation(f)
             \/ TakesSealsBack(f)
             \/ \E s \in Stores : PlanAdoption(f, s)
             \/ \E b \in Backups, t \in Stores :
                  \/ PlanForward(f, b, t) \/ PlanDisaster(f, b, t)
                  \/ \E s \in Stores : PrepareRelocation(f, s, b, t)
  BY <1>4, SwitchNextKeeps
<1> QED
  BY <1>1, <1>2, <1>3, <1>4 DEF Next

\* A store that the protocol files select is the target of the switch the pointer
\* names, by adoption or by a native fact.
LEMMA InChargeIsTarget ==
  ASSUME AuthorityInv, NEW s \in Stores, Ready(s), ~Plain(s)
  PROVE  /\ pointer \in Switches => plan[pointer].target = s
         /\ pointer \in Switches
<1>1. db[s] # None /\ db[s] \in Rows /\ Accounted(db[s])
  BY RowOf DEF Ready, Has
<1>2. CASE db[s].imported # None
  BY <1>2 DEF Ready, ActiveBinding
<1>3. CASE db[s].facts # <<>>
  <2>1. db[s].facts \in Seq(Facts)
    BY <1>1 DEF Rows
  <2>2. PICK i \in DOMAIN db[s].facts : Current(db[s].facts) = db[s].facts[i]
    BY <1>3, <2>1, LastIsFact
  <2>3. db[s].facts[i] \in Facts
    BY <2>1
  <2>4. /\ db[s].facts[i].state = "ACTIVE" /\ db[s].facts[i].store = s
        /\ pointer = db[s].facts[i].switch
    BY <1>3, <2>2 DEF Ready, NativeAuthority
  <2> QED
    BY <1>1, <2>3, <2>4 DEF Accounted, AccountedBy, Facts
<1> QED
  BY <1>2, <1>3 DEF Plain

\* However often a workspace is backed up, restored, adopted, recovered and moved,
\* and wherever that stops, its protocol files put one database in charge at most
\* (require_execution_ready, Adoption, ForwardRecovery, UnavailableStoreRecovery).
THEOREM OneAuthorityHolds == Spec => []OneAuthority
<1>1. AuthorityInv => OneAuthority
  BY InChargeIsTarget DEF OneAuthority
<1> QED
  BY InitHolds, AuthorityStep, <1>1, PTL DEF Spec

-----------------------------------------------------------------------------
(***************************************************************************)
(* Work and epochs.  A switch retires a database while nobody works for    *)
(* it.  Nothing says so where the switch is carried out: the plan compares *)
(* the operations of the database with those it had when the plan was      *)
(* reviewed, and whatever was begun by then is known to have ended.  So    *)
(* the invariant follows the operations: from a database to its images, to *)
(* the databases restored from them, and to the plans; and it follows the  *)
(* pointer from switch to switch, to say for whom a worker may be at work. *)
(***************************************************************************)

HasFact(d, f) == \E i \in DOMAIN d.facts : d.facts[i].switch = f
\* What was begun in e was begun in d.
Covers(d, e) == \A w \in Works : Begun(e.op[w]) => Begun(d.op[w])

\* d is the database of s or an image of it.
OwnEpoch(d, s) ==
  \/ d.epoch = s
  \/ /\ d.epoch \in Switches /\ plan[d.epoch] # None /\ plan[d.epoch].kind = "ADOPT"
     /\ plan[d.epoch].target = s /\ d.adoption[d.epoch] # "ABSENT"
Switched(d) ==
  \A f \in Switches :
    /\ d.adoption[f] # "ABSENT" => /\ d.imported # None /\ plan[f] # None
                                   /\ plan[f].kind \in {"ADOPT", "FORWARD", "DISASTER"}
    /\ d.adoption[f] = "ACTIVE" => Completed(f)
Based(d) == d.basis # None => saved[d.basis] # None /\ Covers(d, saved[d.basis].image)
RowOK(d, s) == OwnEpoch(d, s) /\ Switched(d) /\ Based(d)

RowsOK == \A s \in Stores : db[s] # None => RowOK(db[s], s)
ImageOK(b) == /\ RowOK(saved[b].image, saved[b].from)
              /\ Covers(db[saved[b].from], saved[b].image)
ImagesOK == \A b \in Backups : saved[b] # None => ImageOK(b)

\* What a plan says of its databases and of the switch before it.
PlanHeld(f) ==
  LET p == plan[f] IN
  /\ p.kind \in {"ADOPT", "FORWARD", "DISASTER", "PREPARING", "RELOCATE"}
  /\ db[p.target] # None /\ db[p.old] # None
  /\ p.parent \in {None} \cup Stores \cup Switches
  /\ p.parent \in Switches => /\ plan[p.parent] # None /\ plan[p.parent].target = p.old
                              /\ Completed(p.parent)
  /\ p.kind = "ADOPT" => /\ p.parent = None /\ p.old = p.target /\ p.epoch = f
                         /\ db[p.target].imported # None
  /\ p.kind \in {"FORWARD", "DISASTER"} => /\ p.parent \in Switches /\ p.old # p.target
                                           /\ db[p.target].adoption[p.parent] # "ABSENT"
  /\ p.kind \in {"PREPARING", "RELOCATE"} => HasFact(db[p.target], f) /\ p.old # p.target
  /\ p.kind # "ADOPT" => Covers(db[p.old], p.oldHash)
  /\ p.kind \notin {"ADOPT", "DISASTER"} => Covers(db[p.target], p.oldHash)
PlansOK == \A f \in Switches : plan[f] # None => PlanHeld(f)

\* A native switch that was carried out left its marks.
NativeHeld(f) ==
  LET p == plan[f] IN
  p.kind = "RELOCATE" =>
    /\ Completed(f) \/ pointer = f => db[p.old].facts # <<>>
    /\ Completed(f) => NativeState(db[p.target], f) \notin {"RESTORED", "PREPARED"}
NativeOK == \A f \in Switches : plan[f] # None => NativeHeld(f)

\* Where execution is open, grants are of this epoch and not of a quarantine.
GrantsOK ==
  \A s \in Stores : db[s] # None /\ ~db[s].quarantined =>
    \A w \in Works : Granted(s, w) =>
      db[s].grant[w] = [epoch |-> db[s].epoch, quarantined |-> FALSE]

WorkersOK ==
  /\ worker = [w \in Works |-> worker[w]]
  /\ \A w \in Works : worker[w] # None =>
       worker[w] \in Stores /\ db[worker[w]] # None /\ db[worker[w]].op[w] = "INTENT"

\* What was begun when an image was taken that has been reviewed, or when a plan
\* was, is not being worked on any more.
ReviewsOK ==
  \A s \in Stores : db[s] # None /\ db[s].reviewed /\ db[s].basis # None =>
    \A w \in Works : Begun(saved[db[s].basis].image.op[w]) => worker[w] # saved[db[s].basis].from
RetiredOK ==
  \A f \in Switches : plan[f] # None /\ plan[f].kind # "ADOPT" =>
    \A w \in Works : Begun(plan[f].oldHash.op[w]) => worker[w] # plan[f].old

\* The switch in progress is not yet carried out, and its databases stand still.
HandOK ==
  hand # None =>
    LET f == hand.switch  p == plan[f]  step == Steps[p.kind][hand.step] IN
    /\ ~Completed(f)
    /\ p.kind \in {"FORWARD", "RELOCATE"} => db[p.old].published /\ db[p.old].op = p.oldHash.op
    /\ step # "TARGET" => Knows(db[p.target], f)
    /\ p.kind = "RELOCATE" /\ step \in {"POINTER", "ACTIVATE"} => db[p.old].facts # <<>>
    /\ step = "ACTIVATE" => pointer = f

\* Who may be at work: the target of the switch the pointer names; or, while a
\* recovery from a lost disk is not finished, the database it gave up.
AtWork(s) ==
  /\ pointer \in Switches
  /\ \/ plan[pointer].target = s
     \/ plan[pointer].kind = "DISASTER" /\ plan[pointer].old = s /\ ~Completed(pointer)
PointerOK ==
  /\ pointer \in {None} \cup Stores \cup Switches
  /\ pointer \in Switches => /\ plan[pointer] # None /\ plan[pointer].kind # "PREPARING"
                             /\ Knows(db[plan[pointer].target], pointer)
  /\ \A w \in Works : worker[w] # None /\ ~Plain(worker[w]) => AtWork(worker[w])

\* The last switch that was carried out, whose target knows all the work of those
\* before it.
Last == IF pointer \in Switches /\ ~Completed(pointer) THEN plan[pointer].parent ELSE pointer
KeptOK ==
  \A f \in Switches : Completed(f) =>
    /\ Last \in Switches /\ Completed(Last)
    /\ \A w \in Works : w \notin gap /\ Begun(db[plan[f].old].op[w])
                           => Begun(db[plan[Last].target].op[w])

EpochInv == /\ RowsOK /\ ImagesOK /\ PlansOK /\ NativeOK /\ GrantsOK
            /\ WorkersOK /\ ReviewsOK /\ RetiredOK /\ HandOK /\ PointerOK /\ KeptOK
FullInv == AuthorityInv /\ EpochInv

-----------------------------------------------------------------------------
(* Facts about one state. *)

LEMMA HashKeeps ==
  ASSUME NEW d \in Rows, NEW f \in Switches
  PROVE  /\ StateHash(d).op = d.op /\ StateHash(d).epoch = d.epoch /\ StateHash(d).grant = d.grant
         /\ Without(d, f).op = d.op
<1>1. \A e \in Rows : StateHash(e).op = e.op /\ StateHash(e).epoch = e.epoch /\ StateHash(e).grant = e.grant
  BY DEF StateHash, Rows
<1>2. StateHash([d EXCEPT !.facts = SelectSeq(d.facts, LAMBDA x : x.switch # f)]).op = d.op
  BY DEF StateHash, Rows
<1> QED
  BY <1>1, <1>2 DEF Without

LEMMA PlanRead ==
  ASSUME FullInv, NEW f \in Switches, plan[f] # None
  PROVE  /\ PlanOK(plan[f]) /\ PlanHeld(f) /\ plan[f].target \in Stores /\ plan[f].old \in Stores
         /\ db[plan[f].target] \in Rows /\ db[plan[f].old] \in Rows
         /\ RowOK(db[plan[f].target], plan[f].target) /\ RowOK(db[plan[f].old], plan[f].old)
<1>1. PlanOK(plan[f]) /\ PlanHeld(f) /\ plan[f].target \in Stores /\ plan[f].old \in Stores
  BY DEF FullInv, AuthorityInv, Types, PlanOK, EpochInv, PlansOK
<1>2. db[plan[f].target] # None /\ db[plan[f].old] # None
  BY <1>1 DEF PlanHeld
<1> QED
  BY <1>1, <1>2, RowOf DEF FullInv, EpochInv, RowsOK

LEMMA FactRead ==
  ASSUME NEW d \in Rows, NEW i \in DOMAIN d.facts
  PROVE  d.facts[i] \in Facts /\ d.facts \in Seq(Facts) /\ d.facts # <<>>
BY DEF Rows

\* A switch that was carried out is known where it was, by the mark of its kind.
LEMMA CompletedRead ==
  ASSUME FullInv, NEW f \in Switches, Completed(f)
  PROVE  /\ plan[f] # None /\ plan[f].kind \in {"ADOPT", "FORWARD", "DISASTER", "RELOCATE"}
         /\ Knows(db[plan[f].target], f)
         /\ plan[f].kind # "RELOCATE" => db[plan[f].target].adoption[f] \in {"ACTIVE", "SUPERSEDED"}
<1>1. plan[f] # None
  BY DEF Completed
<1> DEFINE d == db[plan[f].target]
<1>2. d \in Rows /\ Switched(d) /\ plan[f].target \in Stores /\ d # None
  BY <1>1, PlanRead DEF RowOK, Completed
<1>3. Accounted(d)
  BY <1>2, RowOf DEF FullInv
<1>4. \/ d.adoption[f] \in {"ACTIVE", "SUPERSEDED"}
      \/ \E i \in DOMAIN d.facts : d.facts[i].switch = f /\ d.facts[i].state = "ACTIVE"
  BY DEF Completed
<1> HIDE DEF d
<1>5. CASE d.adoption[f] \in {"ACTIVE", "SUPERSEDED"}
  BY <1>1, <1>2, <1>5 DEF Switched, Knows, d
<1>6. CASE \E i \in DOMAIN d.facts : d.facts[i].switch = f /\ d.facts[i].state = "ACTIVE"
  BY <1>1, <1>3, <1>6 DEF Accounted, AccountedBy, Knows, d
<1> QED
  BY <1>4, <1>5, <1>6

\* A store the protocol files put in charge is where the last switch ended.
LEMMA InCharge ==
  ASSUME FullInv, NEW s \in Stores, Ready(s), ~Plain(s)
  PROVE  pointer \in Switches /\ plan[pointer] # None /\ plan[pointer].target = s /\ Completed(pointer)
<1>1. db[s] # None /\ db[s] \in Rows /\ Accounted(db[s]) /\ pointer \in Switches /\ plan[pointer].target = s
  BY RowOf, InChargeIsTarget DEF Ready, Has, FullInv
<1>2. CASE db[s].imported # None
  <2>1. db[s].adoption[pointer] = "ACTIVE"
    BY <1>2 DEF Ready, ActiveBinding
  <2> QED
    BY <1>1, <2>1 DEF FullInv, EpochInv, RowsOK, RowOK, Switched, Completed
<1>3. CASE db[s].facts # <<>>
  <2>1. db[s].facts \in Seq(Facts)
    BY <1>1 DEF Rows
  <2>2. PICK i \in DOMAIN db[s].facts : Current(db[s].facts) = db[s].facts[i]
    BY <1>3, <2>1, LastIsFact
  <2>3. db[s].facts[i].state = "ACTIVE" /\ pointer = db[s].facts[i].switch
    BY <1>3, <2>2 DEF Ready, NativeAuthority
  <2>4. plan[pointer] # None
    BY <1>1, <2>3 DEF Accounted, AccountedBy
  <2> QED
    BY <1>1, <2>3, <2>4 DEF Completed
<1> QED
  BY <1>2, <1>3 DEF Plain

\* No worker is at work for a database whose operations are those of the plan.
LEMMA NobodyAtWork ==
  ASSUME FullInv, NEW f \in Switches, plan[f] # None, plan[f].kind # "ADOPT",
         db[plan[f].old].op = plan[f].oldHash.op, NEW w \in Works
  PROVE  worker[w] # plan[f].old
<1> SUFFICES ASSUME worker[w] = plan[f].old PROVE FALSE
  OBVIOUS
<1>1. plan[f].old \in Stores /\ db[plan[f].old] # None
  BY PlanRead DEF PlanHeld
<1>2. worker[w] # None
  BY <1>1, NoneAssumption
<1>3. db[plan[f].old].op[w] = "INTENT"
  BY <1>2 DEF FullInv, EpochInv, WorkersOK
<1>4. Begun(plan[f].oldHash.op[w])
  BY <1>3 DEF Begun
<1> QED
  BY <1>4 DEF FullInv, EpochInv, RetiredOK

-----------------------------------------------------------------------------
(* Steps that only add: nothing known is forgotten, no begun work undone. *)

Grown(d, e) ==
  /\ e.imported = d.imported
  /\ \A f \in Switches : d.adoption[f] # "ABSENT" => e.adoption[f] # "ABSENT"
  /\ \A f \in Switches : HasFact(d, f) => HasFact(e, f)
  /\ d.facts # <<>> => e.facts # <<>>
  /\ Covers(e, d)

KnownAnywhere(f) == \E s \in Stores : db[s] # None /\ Knows(db[s], f)

Ahead ==
  /\ \A b \in Backups : saved[b] # None => saved'[b] = saved[b]
  /\ \A f \in Switches :
       plan[f] # None /\ plan[f].kind # "PREPARING" /\ KnownAnywhere(f) => plan'[f] = plan[f]
  /\ \A f \in Switches : Completed(f) => Completed(f)'
  /\ \A s \in Stores : db[s] # None => db'[s] # None /\ Grown(db[s], db'[s])

LEMMA CompletedStays ==
  ASSUME FullInv, Ahead, NEW f \in Switches, Completed(f)
  PROVE  plan'[f] = plan[f] /\ Completed(f)'
<1>1. plan[f] # None /\ plan[f].kind # "PREPARING" /\ KnownAnywhere(f)
  BY CompletedRead, PlanRead DEF KnownAnywhere, PlanHeld
<1> QED
  BY <1>1 DEF Ahead

\* What was in order stays in order.
LEMMA RowStays ==
  ASSUME FullInv, Ahead, NEW d \in Rows, NEW s \in Stores, RowOK(d, s),
         \A f \in Switches : Knows(d, f) => KnownAnywhere(f)
  PROVE  RowOK(d, s)'
<1>1. \A f \in Switches : d.adoption[f] # "ABSENT" => plan[f] # None /\ plan'[f] = plan[f]
  BY DEF RowOK, Switched, Ahead, Knows
<1>2. OwnEpoch(d, s)'
  BY <1>1 DEF RowOK, OwnEpoch
<1>3. Switched(d)'
  BY <1>1, CompletedStays DEF RowOK, Switched
<1>4. Based(d)'
  <2>1. d.basis # None => d.basis \in Backups
    BY DEF Rows
  <2> QED
    BY <2>1 DEF RowOK, Based, Ahead
<1> QED
  BY <1>2, <1>3, <1>4 DEF RowOK

LEMMA RowsStay ==
  ASSUME FullInv, Ahead,
         \A s \in Stores : db'[s] # None => db'[s] = db[s] \/ RowOK(db[s], s)'
  PROVE  RowsOK'
<1> SUFFICES ASSUME NEW s \in Stores, db'[s] # None, db'[s] = db[s]
             PROVE  RowOK(db[s], s)'
  BY DEF RowsOK
<1>1. db[s] \in Rows /\ RowOK(db[s], s) /\ \A f \in Switches : Knows(db[s], f) => KnownAnywhere(f)
  BY RowOf DEF FullInv, EpochInv, RowsOK, KnownAnywhere
<1> DEFINE d == db[s]
<1> QED
  BY <1>1, RowStays

LEMMA ImagesStay ==
  ASSUME FullInv, Ahead,
         \A b \in Backups : saved'[b] # None => saved'[b] = saved[b] \/ ImageOK(b)'
  PROVE  ImagesOK'
<1> SUFFICES ASSUME NEW b \in Backups, saved'[b] # None, saved'[b] = saved[b]
             PROVE  ImageOK(b)'
  BY DEF ImagesOK
<1>1. saved[b].image \in Rows /\ saved[b].from \in Stores /\ db[saved[b].from] # None /\ ImageOK(b)
  BY DEF FullInv, EpochInv, ImagesOK, AuthorityInv, Types, Images, ImagesHeld
<1>2. \A f \in Switches : Knows(saved[b].image, f) => KnownAnywhere(f)
  BY <1>1 DEF FullInv, AuthorityInv, ImagesHeld, KnownAnywhere
<1>3. RowOK(saved[b].image, saved[b].from)'
  BY <1>1, <1>2, RowStays DEF ImageOK
<1>4. Covers(db'[saved[b].from], saved[b].image)
  BY <1>1 DEF ImageOK, Ahead, Grown, Covers
<1> QED
  BY <1>3, <1>4 DEF ImageOK, Covers

LEMMA PlanStays ==
  ASSUME FullInv, Ahead, NEW f \in Switches, plan[f] # None, plan'[f] = plan[f]
  PROVE  PlanHeld(f)'
<1> DEFINE p == plan[f]
<1>1. PlanHeld(f) /\ p.target \in Stores /\ p.old \in Stores
  BY PlanRead
<1>2. /\ db'[p.target] # None /\ Grown(db[p.target], db'[p.target])
      /\ db'[p.old] # None /\ Grown(db[p.old], db'[p.old])
  BY <1>1 DEF Ahead, PlanHeld
<1>3. p.parent \in Switches => plan'[p.parent] = plan[p.parent] /\ Completed(p.parent)'
  BY <1>1, CompletedStays DEF PlanHeld
<1>4. \A h : /\ Covers(db[p.target], h) => Covers(db'[p.target], h)
             /\ Covers(db[p.old], h) => Covers(db'[p.old], h)
  BY <1>2 DEF Grown, Covers
<1>5. /\ db'[p.target].imported = db[p.target].imported
      /\ \A g \in Switches : db[p.target].adoption[g] # "ABSENT" => db'[p.target].adoption[g] # "ABSENT"
      /\ HasFact(db[p.target], f) => HasFact(db'[p.target], f)
  BY <1>2 DEF Grown
<1> QED
  BY <1>1, <1>2, <1>3, <1>4, <1>5 DEF PlanHeld

LEMMA PlansStay ==
  ASSUME FullInv, Ahead,
         \A f \in Switches : plan'[f] # None => (plan'[f] = plan[f] /\ plan[f] # None) \/ PlanHeld(f)'
  PROVE  PlansOK'
BY PlanStays DEF PlansOK

\* Steps that begin nothing, plan nothing and touch no protocol file.
Calm == /\ UNCHANGED <<plan, pointer, gap>>
        /\ \A f \in Switches : Completed(f)' => Completed(f)
        /\ \A s \in Stores : db[s] # None =>
             \A w \in Works : Begun(db'[s].op[w]) => Begun(db[s].op[w])
        /\ \A w \in Works : worker'[w] \in {worker[w], None}
\* ... and mark no native switch.
Quiet == Calm /\ \A s \in Stores : db[s] # None => db'[s].facts = db[s].facts

LEMMA CalmRetired ==
  ASSUME FullInv, Calm
  PROVE  RetiredOK'
<1> SUFFICES ASSUME NEW f \in Switches, plan[f] # None, plan[f].kind # "ADOPT", NEW w \in Works,
                    Begun(plan[f].oldHash.op[w]), worker'[w] = plan[f].old
             PROVE  FALSE
  BY DEF RetiredOK, Calm
<1>1. plan[f].old # None
  BY PlanRead, NoneAssumption
<1> QED
  BY <1>1 DEF Calm, FullInv, EpochInv, RetiredOK

LEMMA CalmNative ==
  ASSUME FullInv, Ahead, Quiet
  PROVE  NativeOK'
<1> SUFFICES ASSUME NEW f \in Switches, plan[f] # None
             PROVE  NativeHeld(f)'
  BY DEF NativeOK, Quiet, Calm
<1>1. /\ NativeHeld(f) /\ plan'[f] = plan[f] /\ pointer' = pointer
      /\ Completed(f)' => Completed(f)
  BY DEF FullInv, EpochInv, NativeOK, Quiet, Calm
<1>2. /\ db'[plan[f].old].facts = db[plan[f].old].facts
      /\ db'[plan[f].target].facts = db[plan[f].target].facts
  BY PlanRead DEF PlanHeld, Quiet, Calm
<1> QED
  BY <1>1, <1>2 DEF NativeHeld, NativeState

LEMMA CalmPointer ==
  ASSUME FullInv, Ahead, Quiet
  PROVE  PointerOK'
<1>1. PointerOK /\ pointer' = pointer /\ plan' = plan
  BY DEF FullInv, EpochInv, Quiet, Calm
<1>2. pointer \in Switches => Knows(db'[plan[pointer].target], pointer)
  <2> SUFFICES ASSUME NEW f \in Switches, f = pointer PROVE Knows(db'[plan[f].target], f)
    BY <1>1
  <2>1. plan[f] # None /\ Knows(db[plan[f].target], f)
    BY <1>1 DEF PointerOK
  <2>2. Grown(db[plan[f].target], db'[plan[f].target])
    BY <2>1, PlanRead DEF PlanHeld, Ahead
  <2> QED
    BY <2>1, <2>2 DEF Grown, Knows, HasFact
<1>3. ASSUME NEW w \in Works, worker'[w] # None, ~Plain(worker[w])'
      PROVE  AtWork(worker[w])'
  <2>1. worker'[w] = worker[w] /\ worker[w] # None
    BY <1>3 DEF Quiet, Calm
  <2>2. worker[w] \in Stores /\ db[worker[w]] # None
    BY <2>1 DEF FullInv, EpochInv, WorkersOK
  <2> DEFINE s == worker[w]
  <2>3. db'[s].facts = db[s].facts /\ db'[s].imported = db[s].imported
    BY <2>2 DEF Quiet, Calm, Ahead, Grown
  <2>4. ~Plain(s)
    BY <1>3, <2>1, <2>3 DEF Plain
  <2>5. AtWork(s)
    BY <1>1, <2>1, <2>4 DEF PointerOK
  <2> HIDE DEF s
  <2>6. ASSUME NEW f \in Switches, f = pointer PROVE Completed(f)' <=> Completed(f)
    BY <1>1 DEF Quiet, Calm, Ahead
  <2> QED
    BY <1>1, <2>1, <2>5, <2>6 DEF AtWork, Completed, s
<1> QED
  BY <1>1, <1>2, <1>3 DEF PointerOK

LEMMA CalmKept ==
  ASSUME FullInv, Ahead, Calm
  PROVE  KeptOK'
<1> SUFFICES ASSUME NEW f \in Switches, Completed(f)'
             PROVE  /\ Last' \in Switches /\ Completed(Last)'
                    /\ \A w \in Works : w \notin gap' /\ Begun(db'[plan'[f].old].op[w])
                                          => Begun(db'[plan'[Last'].target].op[w])
  BY DEF KeptOK
<1>1. Completed(f) /\ pointer' = pointer /\ plan' = plan /\ gap' = gap
  BY DEF Calm
<1>2. /\ Last \in Switches /\ Completed(Last)
      /\ \A w \in Works : w \notin gap /\ Begun(db[plan[f].old].op[w])
                             => Begun(db[plan[Last].target].op[w])
  BY <1>1 DEF FullInv, EpochInv, KeptOK
<1>3. \A g \in Switches : Completed(g)' <=> Completed(g)
  BY DEF Ahead, Calm
<1>4. Last' = Last
  BY <1>1, <1>3 DEF Last, Completed
<1>5. PICK l \in Switches : l = Last /\ Completed(l)
  BY <1>2
<1>6. Completed(Last)'
  BY <1>3, <1>4, <1>5 DEF Completed
<1>7. /\ plan[f].old \in Stores /\ db[plan[f].old] # None
      /\ plan[l].target \in Stores /\ db[plan[l].target] # None
  BY <1>1, <1>5, PlanRead, CompletedRead DEF PlanHeld
<1>8. \A w \in Works : /\ Begun(db'[plan[f].old].op[w]) => Begun(db[plan[f].old].op[w])
                       /\ Begun(db[plan[l].target].op[w]) => Begun(db'[plan[l].target].op[w])
  BY <1>7 DEF Calm, Ahead, Grown, Covers
<1>9. Last' = l
  BY <1>4, <1>5
<1>10. \A w \in Works : w \notin gap' /\ Begun(db'[plan'[f].old].op[w])
                        => Begun(db'[plan'[l].target].op[w])
  BY <1>1, <1>2, <1>5, <1>8
<1> QED
  BY <1>6, <1>9, <1>10

LEMMA CalmPlans ==
  ASSUME FullInv, Ahead, Quiet
  PROVE  PlansOK' /\ NativeOK' /\ RetiredOK' /\ PointerOK' /\ KeptOK'
BY PlansStay, CalmNative, CalmRetired, CalmPointer, CalmKept DEF Quiet, Calm

\* The old database of a switch in progress stands still; other steps leave the
\* switch where it is, or end it.
LEMMA HandStands ==
  ASSUME FullInv, Ahead, Quiet, hand' \in {hand, None},
         hand # None /\ plan[hand.switch].kind \in {"FORWARD", "RELOCATE"} =>
           /\ db'[plan[hand.switch].old].published = db[plan[hand.switch].old].published
           /\ db'[plan[hand.switch].old].op = db[plan[hand.switch].old].op
  PROVE  HandOK'
<1> SUFFICES ASSUME hand # None, hand' = hand
             PROVE  HandOK'
  BY DEF HandOK
<1> DEFINE f == hand.switch  p == plan[f]
<1>1. f \in Switches /\ p # None /\ HandOK
  BY DEF FullInv, AuthorityInv, HandHeld, Hands, EpochInv
<1>2. pointer' = pointer /\ plan' = plan /\ (Completed(f)' => Completed(f))
  BY <1>1 DEF Quiet, Calm
<1>3. /\ p.target \in Stores /\ db[p.target] # None /\ p.old \in Stores /\ db[p.old] # None
  BY <1>1, PlanRead DEF PlanHeld
<1>4. Knows(db[p.target], f) => Knows(db'[p.target], f)
  BY <1>1, <1>3 DEF Ahead, Grown, Knows, HasFact
<1>5. db'[p.old].facts = db[p.old].facts
  BY <1>3 DEF Quiet, Calm
<1>6. /\ ~Completed(f)
      /\ p.kind \in {"FORWARD", "RELOCATE"} => db[p.old].published /\ db[p.old].op = p.oldHash.op
      /\ Steps[p.kind][hand.step] # "TARGET" => Knows(db[p.target], f)
      /\ p.kind = "RELOCATE" /\ Steps[p.kind][hand.step] \in {"POINTER", "ACTIVATE"} => db[p.old].facts # <<>>
      /\ Steps[p.kind][hand.step] = "ACTIVATE" => pointer = f
  BY <1>1 DEF HandOK
<1>7. (~Completed(hand.switch))'
  BY <1>2, <1>6 DEF Completed
<1> HIDE DEF f, p
<1> QED
  BY <1>2, <1>4, <1>5, <1>6, <1>7 DEF HandOK, f, p

-----------------------------------------------------------------------------
(* Work in a database. *)

LEMMA NotOld ==
  ASSUME FullInv, NEW s \in Stores, Writable(s), hand # None,
         plan[hand.switch].kind \in {"FORWARD", "RELOCATE"}
  PROVE  s # plan[hand.switch].old
BY DEF Writable, Locked

\* A database is written and begins nothing new.
LEMMA WorkStands ==
  ASSUME FullInv, NEW s \in Stores, NEW row \in Rows, Put(s, row), UNCHANGED worker, db[s] # None,
         row.adoption = db[s].adoption, row.facts = db[s].facts, row.imported = db[s].imported,
         row.epoch = db[s].epoch, row.basis = db[s].basis,
         \A w \in Works : Begun(row.op[w]) <=> Begun(db[s].op[w]),
         \A w \in Works : worker[w] = s => row.op[w] = "INTENT",
         ~row.quarantined => \A w \in Works : row.grant[w] \notin {None, Revoked} =>
                               row.grant[w] = [epoch |-> row.epoch, quarantined |-> FALSE],
         row.reviewed => db[s].reviewed \/ \A w \in Works : worker[w] = None,
         Writable(s) \/ (row.op = db[s].op /\ row.published)
  PROVE  EpochInv'
<1>1. /\ \A t \in Stores : db'[t] = IF t = s THEN row ELSE db[t]
      /\ UNCHANGED <<saved, plan, pointer, hand, gap, worker>>
  BY DEF Put, files, FullInv, AuthorityInv, Types
<1>2. row # None
  BY NoneAssumption
<1>3. \A f \in Switches : Completed(f)' <=> Completed(f)
  <2> SUFFICES ASSUME NEW f \in Switches, plan[f] # None PROVE Completed(f)' <=> Completed(f)
    BY <1>1 DEF Completed
  <2>1. plan[f].target \in Stores
    BY PlanRead
  <2>2. CASE plan[f].target = s
    BY <1>1, <1>2, <2>1, <2>2 DEF Completed
  <2>3. CASE plan[f].target # s
    BY <1>1, <2>1, <2>3 DEF Completed
  <2> QED
    BY <2>2, <2>3
<1>4. \A t \in Stores : db[t] # None => db'[t] # None /\ Grown(db[t], db'[t])
  BY <1>1, <1>2 DEF Grown, HasFact, Covers
<1>5. Ahead
  BY <1>1, <1>3, <1>4 DEF Ahead
<1>6. Quiet
  BY <1>1, <1>3 DEF Quiet, Calm
<1>7. RowsOK'
  <2>1. RowOK(db[s], s)
    BY DEF FullInv, EpochInv, RowsOK
  <2>2. RowOK(row, s)
    BY <2>1 DEF RowOK, OwnEpoch, Switched, Based, Covers
  <2>3. \A f \in Switches : Knows(row, f) => KnownAnywhere(f)
    BY DEF Knows, KnownAnywhere
  <2>4. RowOK(row, s)'
    BY <1>5, <2>2, <2>3, RowStays
  <2>5. RowOK(db[s], s)'
    BY <1>1, <2>4 DEF RowOK, OwnEpoch, Switched, Based, Covers
  <2> QED
    BY <1>1, <1>5, <2>5, RowsStay
<1>8. ImagesOK'
  BY <1>1, <1>5, ImagesStay
<1>9. GrantsOK'
  BY ZenonT(40), <1>1, <1>2 DEF GrantsOK, Granted, FullInv, EpochInv
<1>10. WorkersOK'
  BY <1>1, <1>2 DEF WorkersOK, FullInv, EpochInv
<1>11. ReviewsOK'
  <2> SUFFICES ASSUME NEW t \in Stores, db'[t] # None, db'[t].reviewed, db'[t].basis # None,
                      NEW w \in Works, Begun(saved[db'[t].basis].image.op[w])
               PROVE  worker[w] # saved[db'[t].basis].from
    BY <1>1 DEF ReviewsOK
  <2>1. CASE t # s \/ db[s].reviewed
    BY <1>1, <2>1 DEF ReviewsOK, FullInv, EpochInv
  <2>2. CASE t = s /\ worker[w] = None
    <3>1. db[s] \in Rows /\ RowOK(db[s], s) /\ db'[t].basis = db[s].basis
      BY <1>1, <2>2, RowOf DEF FullInv, EpochInv, RowsOK
    <3>2. db'[t].basis \in Backups /\ saved[db'[t].basis] # None
      BY <3>1 DEF Rows, RowOK, Based
    <3> QED
      BY <2>2, <3>2, NoneAssumption DEF FullInv, AuthorityInv, Types, Images
  <2> QED
    BY <1>1, <2>1, <2>2
<1>12. HandOK'
  <2>1. ASSUME hand # None, plan[hand.switch].kind \in {"FORWARD", "RELOCATE"}
        PROVE  /\ db'[plan[hand.switch].old].published = db[plan[hand.switch].old].published
               /\ db'[plan[hand.switch].old].op = db[plan[hand.switch].old].op
    <3>1. hand.switch \in Switches /\ plan[hand.switch] # None /\ plan[hand.switch].old \in Stores
      BY <2>1, PlanRead DEF FullInv, AuthorityInv, HandHeld, Hands
    <3>2. db[plan[hand.switch].old].published
      BY <2>1, <3>1 DEF FullInv, EpochInv, HandOK
    <3>3. CASE plan[hand.switch].old = s
      <4>1. row.op = db[s].op /\ row.published /\ row.published \in BOOLEAN /\ db[s].published \in BOOLEAN
        BY <2>1, <3>3, NotOld, RowOf DEF Rows, FullInv
      <4> QED
        BY <1>1, <3>2, <3>3, <4>1
    <3> QED
      BY <1>1, <3>1, <3>3
  <2> QED
    BY <1>1, <1>5, <1>6, <2>1, HandStands
<1> QED
  BY <1>5, <1>6, <1>7, <1>8, <1>9, <1>10, <1>11, <1>12, CalmPlans DEF EpochInv

LEMMA WorkersRead ==
  ASSUME FullInv, NEW w \in Works, NEW s \in Stores, worker[w] = s
  PROVE  db[s] # None /\ db[s].op[w] = "INTENT"
BY NoneAssumption DEF FullInv, EpochInv, WorkersOK

LEMMA GrantEpochs ==
  ASSUME FullInv, NEW s \in Stores, NEW w \in Works, RecordGrant(s, w)
  PROVE  EpochInv'
<1> DEFINE g == [epoch |-> db[s].epoch, quarantined |-> db[s].quarantined]
           row == [db[s] EXCEPT !.grant[w] = g]
<1>1. Put(s, row) /\ UNCHANGED worker /\ db[s] # None /\ Writable(s)
  BY DEF RecordGrant, Writable, Has
<1>2. db[s] \in Rows
  BY <1>1, RowOf DEF FullInv
<1>3. g \in Grants /\ (~db[s].quarantined => g = [epoch |-> db[s].epoch, quarantined |-> FALSE])
  BY <1>2 DEF Rows, Grants
<1> HIDE DEF g
<1>4. /\ row \in Rows /\ row.op = db[s].op /\ row.published = db[s].published
      /\ row.adoption = db[s].adoption /\ row.facts = db[s].facts /\ row.imported = db[s].imported
      /\ row.epoch = db[s].epoch /\ row.basis = db[s].basis /\ row.reviewed = db[s].reviewed
      /\ row.quarantined = db[s].quarantined
      /\ \A v \in Works : row.grant[v] = IF v = w THEN g ELSE db[s].grant[v]
  BY <1>2, <1>3 DEF Rows
<1> HIDE DEF row
<1>5. ~row.quarantined => \A v \in Works : row.grant[v] \notin {None, Revoked} =>
        row.grant[v] = [epoch |-> row.epoch, quarantined |-> FALSE]
  BY <1>1, <1>3, <1>4 DEF FullInv, EpochInv, GrantsOK, Granted
<1> QED
  BY <1>1, <1>4, <1>5, WorkersRead, WorkStands

LEMMA PrepareEpochs ==
  ASSUME FullInv, NEW s \in Stores, NEW w \in Works, Prepare(s, w) \/ ObserveOutcome(s, w)
  PROVE  EpochInv'
<1>1. PICK o \in {"PREPARED", "DONE"} :
        /\ Put(s, [db[s] EXCEPT !.op[w] = o])
        /\ Begun(o) <=> Begun(db[s].op[w])
        /\ worker[w] = s => db[s].op[w] # "INTENT"
  <2>1. CASE Prepare(s, w)
    BY <2>1 DEF Prepare, Begun
  <2>2. CASE ObserveOutcome(s, w)
    BY <2>2, NoneAssumption DEF ObserveOutcome, Begun
  <2> QED
    BY <2>1, <2>2
<1>2. UNCHANGED worker /\ Writable(s) /\ db[s] # None /\ db[s] \in Rows
  BY RowOf DEF Prepare, ObserveOutcome, Writable, Has, FullInv
<1> DEFINE row == [db[s] EXCEPT !.op[w] = o]
<1>3. /\ row \in Rows /\ row.grant = db[s].grant
      /\ row.adoption = db[s].adoption /\ row.facts = db[s].facts /\ row.imported = db[s].imported
      /\ row.epoch = db[s].epoch /\ row.basis = db[s].basis /\ row.reviewed = db[s].reviewed
      /\ row.quarantined = db[s].quarantined
      /\ \A v \in Works : row.op[v] = IF v = w THEN o ELSE db[s].op[v]
  BY <1>2 DEF Rows
<1>4. Put(s, row)
  BY <1>1
<1> HIDE DEF row
<1>5. \A v \in Works : Begun(row.op[v]) <=> Begun(db[s].op[v])
  BY <1>1, <1>3
<1>6. \A v \in Works : worker[v] = s => row.op[v] = "INTENT"
  BY <1>1, <1>3, WorkersRead
<1>7. ~row.quarantined => \A v \in Works : row.grant[v] \notin {None, Revoked} =>
        row.grant[v] = [epoch |-> row.epoch, quarantined |-> FALSE]
  BY <1>2, <1>3 DEF FullInv, EpochInv, GrantsOK, Granted
<1> QED
  BY <1>2, <1>3, <1>4, <1>5, <1>6, <1>7, WorkStands

LEMMA NotesEpochs ==
  ASSUME FullInv, NEW s \in Stores, OrdinaryWrite(s) \/ FinalizeImport(s)
  PROVE  EpochInv'
<1> DEFINE noted == [db[s] EXCEPT !.notes = @ + 1]
           final == [db[s] EXCEPT !.published = TRUE]
<1>1. \/ Put(s, noted) /\ Writable(s)
      \/ Put(s, final)
  BY DEF OrdinaryWrite, FinalizeImport
<1>2. UNCHANGED worker /\ db[s] # None /\ db[s] \in Rows
  BY RowOf DEF OrdinaryWrite, FinalizeImport, Writable, Has, FullInv
<1>3. PICK row \in Rows :
        /\ Put(s, row) /\ (Writable(s) \/ row.published)
        /\ row.grant = db[s].grant /\ row.op = db[s].op
        /\ row.adoption = db[s].adoption /\ row.facts = db[s].facts /\ row.imported = db[s].imported
        /\ row.epoch = db[s].epoch /\ row.basis = db[s].basis /\ row.reviewed = db[s].reviewed
        /\ row.quarantined = db[s].quarantined
  <2>1. /\ noted \in Rows /\ noted.grant = db[s].grant /\ noted.op = db[s].op
        /\ noted.adoption = db[s].adoption /\ noted.facts = db[s].facts /\ noted.imported = db[s].imported
        /\ noted.epoch = db[s].epoch /\ noted.basis = db[s].basis /\ noted.reviewed = db[s].reviewed
        /\ noted.quarantined = db[s].quarantined
    BY <1>2 DEF Rows
  <2>2. /\ final \in Rows /\ final.grant = db[s].grant /\ final.op = db[s].op
        /\ final.adoption = db[s].adoption /\ final.facts = db[s].facts /\ final.imported = db[s].imported
        /\ final.epoch = db[s].epoch /\ final.basis = db[s].basis /\ final.reviewed = db[s].reviewed
        /\ final.quarantined = db[s].quarantined /\ final.published
    BY <1>2 DEF Rows
  <2> HIDE DEF noted, final
  <2> QED
    BY <1>1, <2>1, <2>2
<1>4. ~row.quarantined => \A v \in Works : row.grant[v] \notin {None, Revoked} =>
        row.grant[v] = [epoch |-> row.epoch, quarantined |-> FALSE]
  BY <1>2, <1>3 DEF FullInv, EpochInv, GrantsOK, Granted
<1> QED
  BY <1>1, <1>2, <1>3, <1>4, WorkersRead, WorkStands

LEMMA ReviewEpochs ==
  ASSUME FullInv, NEW t \in Stores, ApplyReview(t)
  PROVE  EpochInv'
<1> DEFINE op == [w \in Works |-> IF db[t].op[w] = "PREPARED" THEN "CANCELLED" ELSE db[t].op[w]]
           grant == [w \in Works |-> IF db[t].grant[w] = None THEN None ELSE Revoked]
           row == [db[t] EXCEPT !.quarantined = FALSE, !.reviewed = TRUE, !.op = op,
                                !.grant = grant]
<1>1. Put(t, row) /\ UNCHANGED worker /\ db[t] # None /\ Writable(t) /\ \A w \in Works : worker[w] = None
  BY DEF ApplyReview, Writable, Has
<1>2. db[t] \in Rows
  BY <1>1, RowOf DEF FullInv
<1>3. /\ op \in [Works -> {"ABSENT", "PREPARED", "INTENT", "UNKNOWN", "DONE", "CANCELLED"}]
      /\ grant \in [Works -> Grants \cup {None, Revoked}]
      /\ \A w \in Works : Begun(op[w]) <=> Begun(db[t].op[w])
      /\ \A w \in Works : grant[w] \in {None, Revoked}
  BY <1>2 DEF Rows, Begun
<1> HIDE DEF op, grant
<1>4. /\ row \in Rows /\ row.grant = grant /\ row.op = op
      /\ row.adoption = db[t].adoption /\ row.facts = db[t].facts /\ row.imported = db[t].imported
      /\ row.epoch = db[t].epoch /\ row.basis = db[t].basis
  BY <1>2, <1>3 DEF Rows
<1> HIDE DEF row
<1>5. \A w \in Works : worker[w] = t => row.op[w] = "INTENT"
  BY <1>1, NoneAssumption
<1>6. \A w \in Works : Begun(row.op[w]) <=> Begun(db[t].op[w])
  BY <1>3, <1>4
<1>7. \A w \in Works : row.grant[w] \in {None, Revoked}
  BY <1>3, <1>4
<1> QED
  BY <1>1, <1>4, <1>5, <1>6, <1>7, WorkStands

\* What a switch retired was in the charge of the protocol files.
LEMMA OldIsNotPlain ==
  ASSUME FullInv, NEW f \in Switches, Completed(f)
  PROVE  ~Plain(plan[f].old)
<1>1. plan[f] # None /\ PlanHeld(f) /\ NativeHeld(f) /\ db[plan[f].old] \in Rows
  BY CompletedRead, PlanRead DEF FullInv, EpochInv, NativeOK
<1>2. plan[f].kind \in {"ADOPT", "FORWARD", "DISASTER", "RELOCATE"}
  BY CompletedRead
<1>3. CASE plan[f].kind = "ADOPT"
  BY <1>1, <1>3 DEF PlanHeld, Plain
<1>4. CASE plan[f].kind = "RELOCATE"
  BY <1>1, <1>4 DEF NativeHeld, Plain
<1>5. CASE plan[f].kind \in {"FORWARD", "DISASTER"}
  <2>1. PICK g \in Switches : g = plan[f].parent /\ plan[g].target = plan[f].old /\ Completed(g)
    BY <1>1, <1>5 DEF PlanHeld
  <2>2. Knows(db[plan[f].old], g) /\ RowOK(db[plan[f].old], plan[f].old)
    BY <2>1, CompletedRead, PlanRead, <1>1
  <2>3. db[plan[f].old].adoption[g] # "ABSENT" => db[plan[f].old].imported # None
    BY <2>2 DEF RowOK, Switched
  <2>4. HasFact(db[plan[f].old], g) => db[plan[f].old].facts # <<>>
    BY <1>1, FactRead DEF HasFact
  <2> QED
    BY <2>2, <2>3, <2>4 DEF Knows, HasFact, Plain
<1> QED
  BY <1>2, <1>3, <1>4, <1>5

LEMMA IntentEpochs ==
  ASSUME FullInv, NEW s \in Stores, NEW w \in Works, RecordIntent(s, w)
  PROVE  EpochInv'
<1> DEFINE next == [db[s] EXCEPT !.op[w] = "INTENT"]
<1>1. /\ Put(s, next) /\ worker' = [worker EXCEPT ![w] = s] /\ db[s] # None /\ Writable(s) /\ Ready(s)
      /\ db[s].op[w] = "PREPARED"
  BY DEF RecordIntent, Writable, Has
<1>2. db[s] \in Rows
  BY <1>1, RowOf DEF FullInv
<1>3. PICK row \in Rows :
      /\ row = next /\ row.grant = db[s].grant /\ row.published = db[s].published
      /\ row.adoption = db[s].adoption /\ row.facts = db[s].facts /\ row.imported = db[s].imported
      /\ row.epoch = db[s].epoch /\ row.basis = db[s].basis /\ row.reviewed = db[s].reviewed
      /\ row.quarantined = db[s].quarantined
      /\ \A v \in Works : row.op[v] = IF v = w THEN "INTENT" ELSE db[s].op[v]
  <2>1. /\ next \in Rows /\ next.grant = db[s].grant /\ next.published = db[s].published
        /\ next.adoption = db[s].adoption /\ next.facts = db[s].facts /\ next.imported = db[s].imported
        /\ next.epoch = db[s].epoch /\ next.basis = db[s].basis /\ next.reviewed = db[s].reviewed
        /\ next.quarantined = db[s].quarantined
        /\ \A v \in Works : next.op[v] = IF v = w THEN "INTENT" ELSE db[s].op[v]
    BY <1>2 DEF Rows
  <2> HIDE DEF next
  <2> QED
    BY <2>1
<1> HIDE DEF next
<1>4. /\ \A t \in Stores : db'[t] = IF t = s THEN row ELSE db[t]
      /\ UNCHANGED <<saved, plan, pointer, hand, gap>>
      /\ row # None /\ s # None
  BY <1>1, <1>3, NoneAssumption DEF Put, files, FullInv, AuthorityInv, Types
<1>5. worker' = [v \in Works |-> worker'[v]] /\ \A v \in Works : worker'[v] = IF v = w THEN s ELSE worker[v]
  BY <1>1 DEF FullInv, EpochInv, WorkersOK
<1>6. \A f \in Switches : Completed(f)' <=> Completed(f)
  <2> SUFFICES ASSUME NEW f \in Switches, plan[f] # None PROVE Completed(f)' <=> Completed(f)
    BY <1>4 DEF Completed
  <2>1. plan[f].target \in Stores
    BY PlanRead
  <2>2. CASE plan[f].target = s
    BY <1>1, <1>3, <1>4, <2>1, <2>2 DEF Completed
  <2>3. CASE plan[f].target # s
    BY <1>4, <2>1, <2>3 DEF Completed
  <2> QED
    BY <2>2, <2>3
<1>7. Covers(row, db[s]) /\ ~Begun(db[s].op[w]) /\ Begun(row.op[w])
  BY <1>1, <1>3 DEF Covers, Begun
<1>8. \A t \in Stores : db[t] # None => db'[t] # None /\ Grown(db[t], db'[t])
  BY <1>3, <1>4, <1>7 DEF Grown, HasFact, Covers
<1>9. Ahead
  BY <1>4, <1>6, <1>8 DEF Ahead
<1>10. RowsOK'
  <2>1. RowOK(db[s], s)
    BY <1>1 DEF FullInv, EpochInv, RowsOK
  <2>2. RowOK(row, s)
    BY <1>3, <1>7, <2>1 DEF RowOK, OwnEpoch, Switched, Based, Covers
  <2>3. \A f \in Switches : Knows(row, f) => KnownAnywhere(f)
    BY <1>1, <1>3 DEF Knows, KnownAnywhere
  <2>4. RowOK(row, s)'
    BY <1>3, <1>9, <2>2, <2>3, RowStays
  <2>5. RowOK(db[s], s)'
    BY <1>4, <2>4 DEF RowOK, OwnEpoch, Switched, Based, Covers
  <2> QED
    BY <1>4, <1>9, <2>5, RowsStay
<1>11. ImagesOK'
  BY <1>4, <1>9, ImagesStay
<1>12. PlansOK'
  BY <1>4, <1>9, PlansStay
<1>13. \A t \in Stores : db[t] # None => db'[t].facts = db[t].facts /\ db'[t].imported = db[t].imported
  BY <1>3, <1>4
<1>14. NativeOK'
  <2> SUFFICES ASSUME NEW f \in Switches, plan[f] # None PROVE NativeHeld(f)'
    BY <1>4 DEF NativeOK
  <2>1. /\ NativeHeld(f) /\ plan'[f] = plan[f] /\ pointer' = pointer /\ (Completed(f)' <=> Completed(f))
    BY <1>4, <1>6 DEF FullInv, EpochInv, NativeOK
  <2>2. /\ db'[plan[f].old].facts = db[plan[f].old].facts
        /\ db'[plan[f].target].facts = db[plan[f].target].facts
    BY <1>13, PlanRead DEF PlanHeld
  <2> QED
    BY <2>1, <2>2 DEF NativeHeld, NativeState
<1>15. GrantsOK'
  <2> SUFFICES ASSUME NEW t \in Stores, db'[t] # None, ~db'[t].quarantined,
                      NEW v \in Works, db'[t].grant[v] \notin {None, Revoked}
               PROVE  db'[t].grant[v] = [epoch |-> db'[t].epoch, quarantined |-> FALSE]
    BY DEF GrantsOK, Granted
  <2>1. /\ db[t] # None /\ db'[t].quarantined = db[t].quarantined
        /\ db'[t].grant = db[t].grant /\ db'[t].epoch = db[t].epoch
    BY <1>1, <1>3, <1>4
  <2> QED
    BY <2>1 DEF GrantsOK, Granted, FullInv, EpochInv
<1>16. WorkersOK'
  BY <1>3, <1>4, <1>5 DEF WorkersOK, FullInv, EpochInv
<1>17. ReviewsOK'
  <2> SUFFICES ASSUME NEW t \in Stores, db'[t] # None, db'[t].reviewed, db'[t].basis # None,
                      NEW v \in Works, Begun(saved[db'[t].basis].image.op[v])
               PROVE  worker'[v] # saved[db'[t].basis].from
    BY <1>4 DEF ReviewsOK
  <2>1. db[t] # None /\ db[t].reviewed /\ db[t].basis = db'[t].basis /\ db[t] \in Rows /\ RowOK(db[t], t)
    BY <1>1, <1>3, <1>4, RowOf DEF FullInv, EpochInv, RowsOK
  <2>2. worker[v] # saved[db[t].basis].from
    BY <2>1 DEF FullInv, EpochInv, ReviewsOK
  <2>3. db[t].basis \in Backups /\ saved[db[t].basis] # None
    BY <2>1 DEF Rows, RowOK, Based
  <2>4. Covers(db[saved[db[t].basis].from], saved[db[t].basis].image)
    BY <2>3 DEF FullInv, EpochInv, ImagesOK, ImageOK
  <2> QED
    BY <1>5, <1>7, <2>1, <2>2, <2>4 DEF Covers
<1>18. RetiredOK'
  <2> SUFFICES ASSUME NEW f \in Switches, plan[f] # None, plan[f].kind # "ADOPT", NEW v \in Works,
                      Begun(plan[f].oldHash.op[v])
               PROVE  worker'[v] # plan[f].old
    BY <1>4 DEF RetiredOK
  <2>1. worker[v] # plan[f].old /\ Covers(db[plan[f].old], plan[f].oldHash)
    BY PlanRead DEF FullInv, EpochInv, RetiredOK, PlanHeld
  <2> QED
    BY <1>5, <1>7, <2>1 DEF Covers
<1>19. HandOK'
  <2> SUFFICES ASSUME hand # None PROVE HandOK'
    BY <1>4 DEF HandOK
  <2> DEFINE f == hand.switch  p == plan[f]
  <2>1. f \in Switches /\ p # None /\ HandOK
    BY DEF FullInv, AuthorityInv, HandHeld, Hands, EpochInv
  <2>2. p.target \in Stores /\ db[p.target] # None /\ p.old \in Stores /\ db[p.old] # None
    BY <2>1, PlanRead DEF PlanHeld
  <2>3. p.kind \in {"FORWARD", "RELOCATE"} => p.old # s
    BY <1>1, NotOld
  <2>4. /\ ~Completed(f)
        /\ p.kind \in {"FORWARD", "RELOCATE"} => db[p.old].published /\ db[p.old].op = p.oldHash.op
        /\ Steps[p.kind][hand.step] # "TARGET" => Knows(db[p.target], f)
        /\ p.kind = "RELOCATE" /\ Steps[p.kind][hand.step] \in {"POINTER", "ACTIVATE"} => db[p.old].facts # <<>>
        /\ Steps[p.kind][hand.step] = "ACTIVATE" => pointer = f
    BY <2>1 DEF HandOK
  <2>5. Knows(db[p.target], f) => Knows(db'[p.target], f)
    BY <1>8, <2>1, <2>2 DEF Grown, Knows, HasFact
  <2>6. p.kind \in {"FORWARD", "RELOCATE"} => db'[p.old].published /\ db'[p.old].op = p.oldHash.op
    BY <1>4, <2>2, <2>3, <2>4
  <2>7. db'[p.old].facts = db[p.old].facts
    BY <1>13, <2>2
  <2>8. (~Completed(hand.switch))'
    <3>1. Completed(f)' => Completed(f)
      BY <1>4, <1>6, <2>1 DEF Completed
    <3> QED
      BY <1>4, <2>4, <3>1 DEF Completed
  <2> HIDE DEF f, p
  <2> QED
    BY <1>4, <2>4, <2>5, <2>6, <2>7, <2>8 DEF HandOK, f, p
<1>20. PointerOK'
  <2>1. PointerOK
    BY DEF FullInv, EpochInv
  <2>2. pointer \in Switches => Knows(db'[plan[pointer].target], pointer)
    <3> SUFFICES ASSUME NEW f \in Switches, f = pointer PROVE Knows(db'[plan[f].target], f)
      OBVIOUS
    <3>1. plan[f] # None /\ Knows(db[plan[f].target], f)
      BY <2>1 DEF PointerOK
    <3>2. Grown(db[plan[f].target], db'[plan[f].target])
      BY <1>8, <3>1, PlanRead DEF PlanHeld
    <3> QED
      BY <3>1, <3>2 DEF Grown, Knows, HasFact
  <2>3. ASSUME NEW v \in Works, worker'[v] # None, ~Plain(worker[v])'
        PROVE  AtWork(worker[v])'
    <3>1. PICK t \in Stores : t = worker'[v] /\ db[t] # None
      BY <1>1, <1>5, <2>3 DEF FullInv, EpochInv, WorkersOK
    <3>2. ~Plain(t)
      BY <1>13, <2>3, <3>1 DEF Plain
    <3>3. AtWork(t)
      <4>1. CASE v = w
        <5>1. t = s
          BY <1>5, <3>1, <4>1
        <5> QED
          BY <1>1, <3>2, <5>1, InCharge DEF AtWork
      <4>2. CASE v # w
        BY <1>5, <2>1, <2>3, <3>1, <3>2, <4>2 DEF PointerOK
      <4> QED
        BY <4>1, <4>2
    <3>4. ASSUME NEW f \in Switches, f = pointer PROVE Completed(f)' <=> Completed(f)
      BY <1>6
    <3> QED
      BY <1>4, <3>1, <3>3, <3>4 DEF AtWork, Completed
  <2> QED
    BY <1>4, <2>1, <2>2, <2>3 DEF PointerOK
<1>21. KeptOK'
  <2> SUFFICES ASSUME NEW f \in Switches, Completed(f)'
               PROVE  /\ Last' \in Switches /\ Completed(Last)'
                      /\ \A v \in Works : v \notin gap' /\ Begun(db'[plan'[f].old].op[v])
                                            => Begun(db'[plan'[Last'].target].op[v])
    BY DEF KeptOK
  <2>1. Completed(f)
    BY <1>6
  <2>2. /\ Last \in Switches /\ Completed(Last)
        /\ \A v \in Works : v \notin gap /\ Begun(db[plan[f].old].op[v])
                               => Begun(db[plan[Last].target].op[v])
    BY <2>1 DEF FullInv, EpochInv, KeptOK
  <2>3. Last' = Last
    BY <1>4, <1>6 DEF Last, Completed
  <2>4. PICK l \in Switches : l = Last /\ Completed(l)
    BY <2>2
  <2>5. Completed(Last)'
    BY <1>6, <2>3, <2>4 DEF Completed
  <2>6. Last' = l
    BY <2>3, <2>4
  <2>7. /\ plan[f].old \in Stores /\ db[plan[f].old] # None
        /\ plan[l].target \in Stores /\ db[plan[l].target] # None
    BY <2>1, <2>4, PlanRead, CompletedRead DEF PlanHeld
  <2>8. plan[f].old = s => plan[l].target = s
    <3> SUFFICES ASSUME plan[f].old = s PROVE plan[l].target = s
      OBVIOUS
    <3>1. ~Plain(s)
      BY <2>1, OldIsNotPlain
    <3>2. pointer \in Switches /\ plan[pointer].target = s /\ Completed(pointer)
      BY <1>1, <3>1, InCharge
    <3> QED
      BY <2>4, <3>2 DEF Last
  <2>9. ASSUME NEW v \in Works, v \notin gap, Begun(db'[plan[f].old].op[v])
        PROVE  Begun(db'[plan[l].target].op[v])
    <3>1. CASE plan[f].old = s
      BY <2>8, <2>9, <3>1
    <3>2. CASE plan[f].old # s
      <4>1. Begun(db[plan[f].old].op[v])
        BY <1>4, <2>7, <2>9, <3>2
      <4>2. Begun(db[plan[l].target].op[v])
        BY <2>2, <2>4, <2>9, <4>1
      <4> QED
        BY <1>8, <2>7, <4>2 DEF Grown, Covers
    <3> QED
      BY <3>1, <3>2
  <2> QED
    BY <1>4, <2>5, <2>6, <2>9
<1> QED
  BY <1>10, <1>11, <1>12, <1>14, <1>15, <1>16, <1>17, <1>18, <1>19, <1>20, <1>21 DEF EpochInv

-----------------------------------------------------------------------------
(* New databases, backups, and what happens beside the databases. *)

LEMMA BasisRead ==
  ASSUME FullInv, NEW s \in Stores, db[s] # None, db[s].basis # None
  PROVE  /\ db[s].basis \in Backups /\ saved[db[s].basis] # None
         /\ saved[db[s].basis].from \in Stores
BY RowOf DEF FullInv, EpochInv, RowsOK, RowOK, Based, Rows, AuthorityInv, Types, Images

LEMMA NewStands ==
  ASSUME FullInv, NEW s \in Stores, NEW row \in Rows, Put(s, row), UNCHANGED worker, db[s] = None,
         RowOK(row, s), \A f \in Switches : Knows(row, f) => KnownAnywhere(f),
         row.quarantined, ~row.reviewed
  PROVE  EpochInv'
<1>1. /\ \A t \in Stores : db'[t] = IF t = s THEN row ELSE db[t]
      /\ UNCHANGED <<saved, plan, pointer, hand, gap, worker>>
  BY DEF Put, files, FullInv, AuthorityInv, Types
<1>2. row # None
  BY NoneAssumption
<1>3. \A f \in Switches : Completed(f)' <=> Completed(f)
  <2> SUFFICES ASSUME NEW f \in Switches, plan[f] # None PROVE Completed(f)' <=> Completed(f)
    BY <1>1 DEF Completed
  <2>1. plan[f].target \in Stores /\ plan[f].target # s
    BY PlanRead DEF PlanHeld
  <2> QED
    BY <1>1, <2>1 DEF Completed
<1>4. \A t \in Stores : db[t] # None => db'[t] # None /\ db'[t] = db[t] /\ Grown(db[t], db'[t])
  BY <1>1 DEF Grown, HasFact, Covers
<1>5. Ahead
  BY <1>1, <1>3, <1>4 DEF Ahead
<1>6. Quiet
  BY <1>1, <1>3, <1>4 DEF Quiet, Calm
<1>7. RowsOK'
  <2>1. RowOK(row, s)'
    BY <1>5, RowStays
  <2>2. RowOK(db[s], s)'
    BY <1>1, <2>1 DEF RowOK, OwnEpoch, Switched, Based, Covers
  <2> QED
    BY <1>1, <1>5, <2>2, RowsStay
<1>8. ImagesOK'
  BY <1>1, <1>5, ImagesStay
<1>9. GrantsOK'
  BY <1>1, <1>2 DEF GrantsOK, Granted, FullInv, EpochInv
<1>10. WorkersOK'
  BY <1>1, <1>2 DEF WorkersOK, FullInv, EpochInv
<1>11. ReviewsOK'
  BY <1>1 DEF ReviewsOK, FullInv, EpochInv
<1>12. HandOK'
  <2>1. ASSUME hand # None, plan[hand.switch].kind \in {"FORWARD", "RELOCATE"}
        PROVE  /\ db'[plan[hand.switch].old].published = db[plan[hand.switch].old].published
               /\ db'[plan[hand.switch].old].op = db[plan[hand.switch].old].op
    <3>1. hand.switch \in Switches /\ plan[hand.switch] # None
      BY <2>1 DEF FullInv, AuthorityInv, HandHeld, Hands
    <3>2. plan[hand.switch].old \in Stores /\ db[plan[hand.switch].old] # None
      BY <3>1, PlanRead DEF PlanHeld
    <3> QED
      BY <1>4, <3>2
  <2> QED
    BY <1>1, <1>5, <1>6, <2>1, HandStands
<1> QED
  BY <1>5, <1>6, <1>7, <1>8, <1>9, <1>10, <1>11, <1>12, CalmPlans DEF EpochInv

LEMMA ImportEpochs ==
  ASSUME FullInv, NEW s \in Stores, ImportDefinitions(s)
  PROVE  EpochInv'
<1> DEFINE row == [NewStore(s, source) EXCEPT !.published = FALSE, !.quarantined = TRUE]
<1>1. Put(s, row) /\ UNCHANGED worker /\ db[s] = None
  BY DEF ImportDefinitions
<1>2. NewStore(s, source) \in Rows
  BY DEF NewStore, Rows, FullInv, AuthorityInv, Types
<1>3. /\ NewStore(s, source).facts = <<>> /\ NewStore(s, source).epoch = s
      /\ NewStore(s, source).basis = None /\ ~NewStore(s, source).reviewed
      /\ \A f \in Switches : NewStore(s, source).adoption[f] = "ABSENT"
  BY DEF NewStore
<1>4. /\ row \in Rows /\ row.quarantined /\ row.facts = <<>> /\ row.epoch = s
      /\ row.basis = None /\ ~row.reviewed
      /\ \A f \in Switches : row.adoption[f] = "ABSENT"
  BY <1>2, <1>3 DEF Rows
<1> HIDE DEF row
<1>5. RowOK(row, s)
  BY <1>4 DEF RowOK, OwnEpoch, Switched, Based
<1>6. \A f \in Switches : ~Knows(row, f)
  BY <1>4 DEF Knows
<1> QED
  BY <1>1, <1>4, <1>5, <1>6, NewStands

\* What a restored database is, of an image with or without facts.
LEMMA RestoredRow ==
  ASSUME FullInv, NEW b \in Backups, NEW t \in Stores, saved[b] # None
  PROVE  /\ Restored(b, t) \in Rows /\ Restored(b, t).quarantined /\ ~Restored(b, t).reviewed
         /\ RowOK(Restored(b, t), t)
         /\ \A f \in Switches : Knows(Restored(b, t), f) => KnownAnywhere(f)
<1> DEFINE image == saved[b].image
           x == [switch |-> Current(image.facts).switch, store |-> t, epoch |-> t, state |-> "RESTORED"]
           op == [w \in Works |-> OpAfterRestore(image.op[w])]
           grant == [w \in Works |-> IF image.grant[w] = None THEN None ELSE Revoked]
           facts == IF image.facts = <<>> THEN <<>> ELSE Append(image.facts, x)
           row == [image EXCEPT !.epoch = t, !.quarantined = TRUE, !.basis = b, !.reviewed = FALSE,
                                !.op = op, !.grant = grant, !.facts = facts]
<1>1. Restored(b, t) = row
  BY DEF Restored
<1>2. /\ image \in Rows /\ RowOK(image, saved[b].from) /\ saved[b].from \in Stores
      /\ \A f \in Switches : Knows(image, f) => KnownAnywhere(f)
  BY DEF FullInv, AuthorityInv, Types, Images, EpochInv, ImagesOK, ImageOK, ImagesHeld, KnownAnywhere
<1> HIDE DEF image
<1>3. /\ op \in [Works -> {"ABSENT", "PREPARED", "INTENT", "UNKNOWN", "DONE", "CANCELLED"}]
      /\ grant \in [Works -> Grants \cup {None, Revoked}]
      /\ \A w \in Works : Begun(image.op[w]) => Begun(op[w])
  BY <1>2 DEF Rows, OpAfterRestore, Begun
<1>4. /\ facts \in Seq(Facts)
      /\ \A f \in Switches : (\E i \in DOMAIN facts : facts[i].switch = f) => HasFact(image, f)
  <2>1. image.facts \in Seq(Facts)
    BY <1>2 DEF Rows
  <2>2. CASE image.facts = <<>>
    BY <2>2
  <2>3. CASE image.facts # <<>>
    <3>1. Len(image.facts) \in DOMAIN image.facts /\ Current(image.facts) = image.facts[Len(image.facts)]
          /\ Current(image.facts) \in Facts
      BY <2>1, <2>3, LastIsFact
    <3>2. x \in Facts /\ x.switch = image.facts[Len(image.facts)].switch
      BY <3>1 DEF Facts
    <3> HIDE DEF x
    <3>3. /\ Append(image.facts, x) \in Seq(Facts)
          /\ \A i \in DOMAIN Append(image.facts, x) :
               Append(image.facts, x)[i] = x
               \/ (i \in DOMAIN image.facts /\ Append(image.facts, x)[i] = image.facts[i])
      BY <2>1, <3>2, AppendGives
    <3> QED
      BY <2>3, <3>1, <3>2, <3>3 DEF HasFact
  <2> QED
    BY <2>2, <2>3
<1> HIDE DEF op, grant, facts
<1>5. /\ row \in Rows /\ row.quarantined /\ ~row.reviewed
      /\ row.epoch = t /\ row.basis = b /\ row.op = op /\ row.facts = facts
      /\ row.adoption = image.adoption /\ row.imported = image.imported
  BY <1>2, <1>3, <1>4 DEF Rows
<1> HIDE DEF row
<1>6. RowOK(row, t)
  <2>1. OwnEpoch(row, t)
    BY <1>5 DEF OwnEpoch
  <2>2. Switched(row)
    BY <1>2, <1>5 DEF RowOK, Switched
  <2>3. Based(row)
    BY <1>3, <1>5 DEF Based, Covers, image
  <2> QED
    BY <2>1, <2>2, <2>3 DEF RowOK
<1>7. \A f \in Switches : Knows(row, f) => KnownAnywhere(f)
  BY <1>2, <1>4, <1>5 DEF Knows, HasFact
<1> QED
  BY <1>1, <1>5, <1>6, <1>7

LEMMA RestoreEpochs ==
  ASSUME FullInv, NEW b \in Backups, NEW t \in Stores, Restore(b, t)
  PROVE  EpochInv'
<1>1. Put(t, Restored(b, t)) /\ UNCHANGED worker /\ db[t] = None /\ saved[b] # None
  BY DEF Restore
<1>2. PICK row \in Rows : row = Restored(b, t)
  BY <1>1, RestoredRow
<1> QED
  BY <1>1, <1>2, RestoredRow, NewStands

\* Nothing but workers, seals, documents and disks.
LEMMA BesideEpochs ==
  ASSUME FullInv,
         \/ \E w \in Works : WorkerEnds(w)
         \/ \E s \in Stores : StoreFails(s) \/ StoreReturns(s)
         \/ \E i \in 1..2 : LegacyLock(i) \/ LegacyUnlock(i)
         \/ Interrupted
         \/ \E f \in Switches : TakesSealsBack(f) \/ Refuses(f)
         \/ UNCHANGED vars
  PROVE  EpochInv'
<1>1. UNCHANGED <<db, saved, plan, pointer, gap>> /\ hand' \in {hand, None}
  BY DEF WorkerEnds, StoreFails, StoreReturns, LegacyLock, LegacyUnlock, Interrupted,
     TakesSealsBack, Refuses, vars, files
<1>2. /\ worker' = [w \in Works |-> worker'[w]]
      /\ \A w \in Works : worker'[w] \in {worker[w], None}
  <2>1. worker = [w \in Works |-> worker[w]]
    BY DEF FullInv, EpochInv, WorkersOK
  <2>2. worker' = worker \/ \E w \in Works : worker' = [worker EXCEPT ![w] = None]
    BY DEF WorkerEnds, StoreFails, StoreReturns, LegacyLock, LegacyUnlock, Interrupted,
       TakesSealsBack, Refuses, vars
  <2>3. CASE worker' = worker
    BY <2>1, <2>3
  <2>4. ASSUME NEW v \in Works, worker' = [worker EXCEPT ![v] = None]
        PROVE  /\ worker' = [w \in Works |-> worker'[w]]
               /\ \A w \in Works : worker'[w] \in {worker[w], None}
    BY <2>1, <2>4
  <2> QED
    BY <2>2, <2>3, <2>4
<1>3. \A f \in Switches : Completed(f)' <=> Completed(f)
  BY <1>1 DEF Completed
<1>4. Ahead
  BY <1>1, <1>3 DEF Ahead, Grown, HasFact, Covers
<1>5. Quiet
  BY <1>1, <1>2, <1>3 DEF Quiet, Calm
<1>6. RowsOK' /\ ImagesOK'
  BY <1>1, <1>4, RowsStay, ImagesStay
<1>7. GrantsOK'
  BY <1>1 DEF GrantsOK, Granted, FullInv, EpochInv
<1>8. WorkersOK'
  BY <1>1, <1>2 DEF WorkersOK, FullInv, EpochInv
<1>9. ReviewsOK'
  <2> SUFFICES ASSUME NEW s \in Stores, db[s] # None, db[s].reviewed, db[s].basis # None,
                      NEW w \in Works, Begun(saved[db[s].basis].image.op[w])
               PROVE  worker'[w] # saved[db[s].basis].from
    BY <1>1 DEF ReviewsOK
  <2>1. worker[w] # saved[db[s].basis].from /\ saved[db[s].basis].from # None
    BY BasisRead, NoneAssumption DEF FullInv, EpochInv, ReviewsOK
  <2> QED
    BY <1>2, <2>1
<1>10. HandOK'
  BY <1>1, <1>4, <1>5, HandStands
<1> QED
  BY <1>4, <1>5, <1>6, <1>7, <1>8, <1>9, <1>10, CalmPlans DEF EpochInv

LEMMA BackupEpochs ==
  ASSUME FullInv, NEW b \in Backups, NEW s \in Stores, Backup(b, s)
  PROVE  EpochInv'
<1>1. PICK image : image = [from |-> s, image |-> db[s]]
  OBVIOUS
<1>2. /\ db[s] # None /\ saved[b] = None /\ saved' = [saved EXCEPT ![b] = image]
      /\ UNCHANGED <<db, plan, pointer, hand, worker, gap>>
  BY <1>1 DEF Backup, Has, files
<1>3. \A c \in Backups : saved'[c] = IF c = b THEN image ELSE saved[c]
  BY <1>2 DEF FullInv, AuthorityInv, Types
<1>4. \A f \in Switches : Completed(f)' <=> Completed(f)
  BY <1>2 DEF Completed
<1>5. Ahead
  BY <1>2, <1>3, <1>4 DEF Ahead, Grown, HasFact, Covers
<1>6. Quiet
  BY <1>2, <1>4 DEF Quiet, Calm
<1>7. RowsOK'
  BY <1>2, <1>5, RowsStay
<1>8. ImagesOK'
  <2>1. RowOK(db[s], s)'
    BY <1>2, <1>7 DEF RowsOK
  <2>2. ImageOK(b)'
    BY SMTT(30), <1>1, <1>2, <1>3, <2>1 DEF ImageOK, Covers, RowOK, OwnEpoch, Switched, Based
  <2> QED
    BY <1>3, <1>5, <2>2, ImagesStay
<1>9. GrantsOK'
  BY <1>2 DEF GrantsOK, Granted, FullInv, EpochInv
<1>10. WorkersOK'
  BY <1>2 DEF WorkersOK, FullInv, EpochInv
<1>11. ReviewsOK'
  BY <1>2, <1>3, BasisRead DEF ReviewsOK, FullInv, EpochInv
<1>12. HandOK'
  BY <1>2, <1>5, <1>6, HandStands
<1> QED
  BY <1>5, <1>6, <1>7, <1>8, <1>9, <1>10, <1>11, <1>12, CalmPlans DEF EpochInv

-----------------------------------------------------------------------------
(* Plans. *)

LEMMA PlanMade ==
  ASSUME FullInv, NEW f \in Switches, NEW p, plan' = [plan EXCEPT ![f] = p],
         UNCHANGED <<db, saved, pointer, hand, worker, gap>>, hand = None,
         ~Completed(f), ~Completed(f)', pointer # f, PlanHeld(f)',
         plan[f] # None /\ KnownAnywhere(f) => plan[f].kind = "PREPARING",
         p.kind # "ADOPT" => \A w \in Works : Begun(p.oldHash.op[w]) => worker[w] # p.old
  PROVE  EpochInv'
<1>1. \A g \in Switches : plan'[g] = IF g = f THEN p ELSE plan[g]
  BY DEF FullInv, AuthorityInv, Types
<1>2. \A g \in Switches : Completed(g)' <=> Completed(g)
  <2> SUFFICES ASSUME NEW g \in Switches, g # f PROVE Completed(g)' <=> Completed(g)
    OBVIOUS
  <2>1. plan'[g] = plan[g]
    BY <1>1
  <2> QED
    BY <2>1 DEF Completed
<1>3. Ahead
  BY <1>1, <1>2 DEF Ahead, Grown, HasFact, Covers
<1>4. RowsOK' /\ ImagesOK'
  BY <1>3, RowsStay, ImagesStay
<1>5. PlansOK'
  <2>1. \A g \in Switches : plan'[g] # None =>
          (plan'[g] = plan[g] /\ plan[g] # None) \/ PlanHeld(g)'
    BY <1>1
  <2> QED
    BY <1>3, <2>1, PlansStay
<1>6. NativeOK'
  <2> SUFFICES ASSUME NEW g \in Switches, plan'[g] # None PROVE NativeHeld(g)'
    BY DEF NativeOK
  <2>1. CASE g = f
    BY <1>2, <2>1 DEF NativeHeld
  <2>2. CASE g # f
    <3>1. plan'[g] = plan[g] /\ NativeHeld(g) /\ (Completed(g)' <=> Completed(g))
      BY <1>1, <1>2, <2>2 DEF FullInv, EpochInv, NativeOK
    <3> QED
      BY <3>1 DEF NativeHeld, NativeState
  <2> QED
    BY <2>1, <2>2
<1>7. GrantsOK' /\ WorkersOK' /\ ReviewsOK' /\ HandOK'
  BY DEF GrantsOK, Granted, WorkersOK, ReviewsOK, HandOK, FullInv, EpochInv
<1>8. RetiredOK'
  BY <1>1 DEF RetiredOK, FullInv, EpochInv
<1>9. ASSUME NEW q \in Switches, q = pointer
      PROVE  plan'[q] = plan[q] /\ (Completed(q)' <=> Completed(q))
  BY <1>1, <1>2, <1>9
<1>10. Last' = Last
  <2>1. CASE pointer \in Switches
    <3>1. PICK q \in Switches : q = pointer
      BY <2>1
    <3>2. plan'[q] = plan[q] /\ (Completed(q)' <=> Completed(q))
      BY <1>9, <3>1
    <3>3. pointer' = q /\ (Completed(pointer)' <=> Completed(q)')
      BY <3>1 DEF Completed
    <3>4. Completed(pointer) <=> Completed(q)
      BY <3>1
    <3> QED
      BY <3>1, <3>2, <3>3, <3>4 DEF Last
  <2>2. CASE pointer \notin Switches
    BY <2>2 DEF Last
  <2> QED
    BY <2>1, <2>2
<1>11. PointerOK'
  <2>1. PointerOK
    BY DEF FullInv, EpochInv
  <2>2. pointer \in Switches => /\ plan'[pointer] = plan[pointer] /\ plan[pointer] # None
                                /\ plan[pointer].kind # "PREPARING"
                                /\ Knows(db'[plan'[pointer].target], pointer)
    BY <1>9, <2>1 DEF PointerOK, Knows
  <2>3. ASSUME NEW w \in Works, worker'[w] # None, ~Plain(worker[w])'
        PROVE  AtWork(worker[w])'
    <3>1. AtWork(worker[w])
      BY <2>1, <2>3 DEF PointerOK, Plain
    <3>2. PICK q \in Switches : q = pointer
      BY <3>1 DEF AtWork
    <3>3. plan'[q] = plan[q] /\ (Completed(q)' <=> Completed(q))
      BY <1>9, <3>2
    <3> QED
      BY ZenonT(40), <3>1, <3>2, <3>3 DEF AtWork, Completed
  <2> QED
    BY <2>1, <2>2, <2>3 DEF PointerOK
<1>12. KeptOK'
  <2> SUFFICES ASSUME NEW g \in Switches, Completed(g)'
               PROVE  /\ Last' \in Switches /\ Completed(Last)'
                      /\ \A v \in Works : v \notin gap' /\ Begun(db'[plan'[g].old].op[v])
                                            => Begun(db'[plan'[Last'].target].op[v])
    BY DEF KeptOK
  <2>2. Completed(g) /\ g # f
    BY <1>2
  <2>3. /\ Last \in Switches /\ Completed(Last)
        /\ \A v \in Works : v \notin gap /\ Begun(db[plan[g].old].op[v])
                               => Begun(db[plan[Last].target].op[v])
    BY <2>2 DEF FullInv, EpochInv, KeptOK
  <2>4. PICK l \in Switches : l = Last /\ Completed(l) /\ l # f
    BY <2>3
  <2>5. Last' = l /\ plan'[l] = plan[l] /\ plan'[g] = plan[g]
    BY <1>1, <1>10, <2>2, <2>4
  <2>6. Completed(Last)'
    <3>1. Completed(l)'
      BY <1>2, <2>4
    <3> QED
      BY <2>5, <3>1 DEF Completed
  <2> QED
    BY <2>3, <2>4, <2>5, <2>6
<1> QED
  BY <1>4, <1>5, <1>6, <1>7, <1>8, <1>11, <1>12 DEF EpochInv

\* A switch no database knows was never carried out, and no file names it.
LEMMA UnusedIsNew ==
  ASSUME FullInv, NEW f \in Switches, Unused(f)
  PROVE  ~KnownAnywhere(f) /\ ~Completed(f) /\ pointer # f
<1>1. ~KnownAnywhere(f)
  BY DEF KnownAnywhere, Knows, Unused
<1>2. ~Completed(f)
  BY <1>1, CompletedRead, PlanRead DEF KnownAnywhere, PlanHeld
<1>3. pointer # f
  <2> SUFFICES ASSUME pointer = f PROVE FALSE
    OBVIOUS
  <2>1. plan[f] # None /\ Knows(db[plan[f].target], f)
    BY DEF FullInv, EpochInv, PointerOK
  <2> QED
    BY <1>1, <2>1, PlanRead DEF KnownAnywhere, PlanHeld
<1> QED
  BY <1>1, <1>2, <1>3

LEMMA ReviewMade ==
  ASSUME FullInv, NEW f \in Switches, NEW p, Review(f, p), UNCHANGED worker,
         p.target \in Stores, db[p.target] # None, PlanHeld(f)',
         p.kind # "ADOPT" => \A w \in Works : Begun(p.oldHash.op[w]) => worker[w] # p.old
  PROVE  EpochInv'
<1>1. /\ plan' = [plan EXCEPT ![f] = p] /\ UNCHANGED <<db, saved, pointer, hand, worker, gap>>
      /\ hand = None /\ Unused(f)
  BY DEF Review, files
<1>2. ~KnownAnywhere(f) /\ ~Completed(f) /\ pointer # f
  BY <1>1, UnusedIsNew
<1>3. plan'[f] = p
  BY <1>1 DEF FullInv, AuthorityInv, Types
<1>4. ~Completed(f)'
  BY <1>1, <1>3 DEF Completed, Unused
<1> QED
  BY <1>1, <1>2, <1>4, PlanMade

LEMMA PlanAdoptionEpochs ==
  ASSUME FullInv, NEW f \in Switches, NEW s \in Stores, PlanAdoption(f, s)
  PROVE  EpochInv'
<1>1. PICK p : p = [kind |-> "ADOPT", target |-> s, old |-> s, parent |-> None, epoch |-> f,
                    revision |-> source, oldHash |-> None, newHash |-> None]
  OBVIOUS
<1>2. Review(f, p) /\ UNCHANGED <<worker, db>> /\ db[s] # None /\ db[s].imported = source
  BY <1>1 DEF PlanAdoption, Has, Review
<1>3. plan'[f] = p
  BY <1>2 DEF Review, FullInv, AuthorityInv, Types
<1>4. source # None /\ None \notin Switches
  BY NoneAssumption DEF FullInv, AuthorityInv, Types
<1>5. PlanHeld(f)'
  BY <1>1, <1>2, <1>3, <1>4 DEF PlanHeld
<1> QED
  BY <1>1, <1>2, <1>5, ReviewMade

\* The epoch of a database, which its state hash holds, tells which one it is.
LEMMA SameOwner ==
  ASSUME NEW d, NEW e, NEW s \in Stores, NEW t \in Stores, OwnEpoch(d, s), OwnEpoch(e, t),
         d.epoch = e.epoch
  PROVE  s = t
BY IdentitiesAssumption DEF OwnEpoch

\* A database that was reviewed after the restore of an image covers it, and
\* nobody works on at what the image had begun.
LEMMA ReconciledRead ==
  ASSUME FullInv, NEW t \in Stores, NEW b \in Backups, Reconciled(t, b), saved[b] # None
  PROVE  /\ db[t] # None /\ db[t] \in Rows /\ Covers(db[t], saved[b].image)
         /\ \A w \in Works : Begun(saved[b].image.op[w]) => worker[w] # saved[b].from
<1>1. db[t] # None /\ db[t].reviewed /\ db[t].basis = b
  BY DEF Reconciled, Has
<1>2. db[t] \in Rows /\ RowOK(db[t], t) /\ b # None
  BY <1>1, RowOf, NoneAssumption DEF FullInv, EpochInv, RowsOK
<1>3. Covers(db[t], saved[b].image)
  BY <1>1, <1>2 DEF RowOK, Based
<1> QED
  BY <1>1, <1>2, <1>3 DEF FullInv, EpochInv, ReviewsOK

LEMMA PlanForwardEpochs ==
  ASSUME FullInv, NEW f \in Switches, NEW b \in Backups, NEW t \in Stores, PlanForward(f, b, t)
  PROVE  EpochInv'
<1>0. PICK s \in Stores, parent \in Switches : \E p :
      /\ s # t /\ Has(s) /\ ActiveBinding(s) /\ db[s].adoption[parent] = "ACTIVE" /\ pointer = parent
      /\ saved[b] # None /\ StateHash(saved[b].image) = StateHash(db[s]) /\ Reconciled(t, b)
      /\ db[t].adoption[parent] # "ABSENT"
      /\ Review(f, p)
      /\ p = [kind |-> "FORWARD", target |-> t, old |-> s, parent |-> parent, epoch |-> db[t].epoch,
              revision |-> None, oldHash |-> StateHash(db[s]), newHash |-> StateHash(db[t])]
  BY DEF PlanForward
<1>1. PICK p :
      /\ s # t /\ Has(s) /\ ActiveBinding(s) /\ db[s].adoption[parent] = "ACTIVE" /\ pointer = parent
      /\ saved[b] # None /\ StateHash(saved[b].image) = StateHash(db[s]) /\ Reconciled(t, b)
      /\ db[t].adoption[parent] # "ABSENT"
      /\ Review(f, p)
      /\ p = [kind |-> "FORWARD", target |-> t, old |-> s, parent |-> parent, epoch |-> db[t].epoch,
              revision |-> None, oldHash |-> StateHash(db[s]), newHash |-> StateHash(db[t])]
  BY <1>0
<1>2. /\ p.kind = "FORWARD" /\ p.target = t /\ p.old = s /\ p.parent = parent
      /\ p.oldHash = StateHash(db[s])
  BY <1>1
<1>3. /\ db[s] # None /\ db[s] \in Rows /\ RowOK(db[s], s) /\ plan'[f] = p
      /\ UNCHANGED <<worker, db>>
  BY <1>1, RowOf DEF Has, Review, FullInv, AuthorityInv, Types, EpochInv, RowsOK
<1>4. /\ saved[b].image \in Rows /\ saved[b].from \in Stores
      /\ RowOK(saved[b].image, saved[b].from)
  BY <1>1 DEF FullInv, AuthorityInv, Types, Images, EpochInv, ImagesOK, ImageOK
<1>5. p.oldHash.op = db[s].op /\ saved[b].image.op = db[s].op /\ saved[b].image.epoch = db[s].epoch
  <2>1. PICK g \in Switches : TRUE
    OBVIOUS
  <2> QED
    BY <1>1, <1>2, <1>3, <1>4, <2>1, HashKeeps
<1>6. saved[b].from = s
  BY <1>3, <1>4, <1>5, SameOwner DEF RowOK
<1>7. /\ db[t] # None /\ Covers(db[t], saved[b].image)
      /\ \A w \in Works : Begun(saved[b].image.op[w]) => worker[w] # saved[b].from
  BY <1>1, ReconciledRead
<1>8. plan[parent] # None /\ plan[parent].target = s /\ Completed(parent)
  BY <1>1, <1>3 DEF RowOK, Switched, ActiveBinding
<1>9. parent # f
  <2>1. Unused(f)
    BY <1>1 DEF Review
  <2> QED
    BY <1>8, <2>1, UnusedIsNew
<1>10. plan'[parent] = plan[parent] /\ Completed(parent)'
  <2>1. plan'[parent] = plan[parent]
    BY <1>1, <1>9 DEF Review, FullInv, AuthorityInv, Types
  <2> QED
    BY <1>3, <1>8, <2>1 DEF Completed
<1>11. Covers(db[s], p.oldHash) /\ Covers(db[t], p.oldHash)
  BY <1>5, <1>7 DEF Covers
<1>12. PlanHeld(f)'
  BY <1>1, <1>2, <1>3, <1>7, <1>8, <1>10, <1>11 DEF PlanHeld, Covers
<1> QED
  BY <1>1, <1>2, <1>3, <1>5, <1>6, <1>7, <1>12, ReviewMade

LEMMA PlanDisasterEpochs ==
  ASSUME FullInv, NEW f \in Switches, NEW b \in Backups, NEW t \in Stores, PlanDisaster(f, b, t)
  PROVE  EpochInv'
<1>0. PICK parent \in Switches : \E p :
      /\ saved[b] # None /\ saved[b].image.adoption[parent] = "ACTIVE"
      /\ plan[parent].target # t
      /\ Reconciled(t, b) /\ db[t].adoption[parent] # "ABSENT"
      /\ \A w \in Works : worker[w] = None
      /\ Review(f, p)
      /\ p = [kind |-> "DISASTER", target |-> t, old |-> plan[parent].target, parent |-> parent,
              epoch |-> db[t].epoch, revision |-> None, oldHash |-> db[plan[parent].target],
              newHash |-> StateHash(db[t])]
  BY DEF PlanDisaster
<1>1. PICK p :
      /\ saved[b] # None /\ saved[b].image.adoption[parent] = "ACTIVE"
      /\ plan[parent].target # t
      /\ Reconciled(t, b) /\ db[t].adoption[parent] # "ABSENT"
      /\ \A w \in Works : worker[w] = None
      /\ Review(f, p)
      /\ p = [kind |-> "DISASTER", target |-> t, old |-> plan[parent].target, parent |-> parent,
              epoch |-> db[t].epoch, revision |-> None, oldHash |-> db[plan[parent].target],
              newHash |-> StateHash(db[t])]
  BY <1>0
<1> DEFINE s == plan[parent].target
<1>2. /\ p.kind = "DISASTER" /\ p.target = t /\ p.old = s /\ p.parent = parent
      /\ p.oldHash = db[s]
  BY <1>1
<1>3. plan'[f] = p /\ UNCHANGED <<worker, db>> /\ db[t] # None
  BY <1>1 DEF Reconciled, Has, Review, FullInv, AuthorityInv, Types
<1>4. saved[b].image \in Rows /\ RowOK(saved[b].image, saved[b].from)
  BY <1>1 DEF FullInv, AuthorityInv, Types, Images, EpochInv, ImagesOK, ImageOK
<1>5. plan[parent] # None /\ Completed(parent)
  BY <1>1, <1>4 DEF RowOK, Switched
<1>6. s \in Stores /\ db[s] # None
  BY <1>5, PlanRead DEF PlanHeld
<1>7. parent # f
  <2>1. Unused(f)
    BY <1>1 DEF Review
  <2> QED
    BY <1>5, <2>1, UnusedIsNew
<1>8. plan'[parent] = plan[parent] /\ Completed(parent)'
  <2>1. plan'[parent] = plan[parent]
    BY <1>1, <1>7 DEF Review, FullInv, AuthorityInv, Types
  <2> QED
    BY <1>3, <1>5, <2>1 DEF Completed
<1>9. Covers(db[s], p.oldHash)
  BY <1>2 DEF Covers
<1> HIDE DEF s
<1>10. plan[parent].target = s /\ s # t
  BY <1>1 DEF s
<1>11. PlanHeld(f)'
  BY <1>1, <1>2, <1>3, <1>5, <1>6, <1>8, <1>9, <1>10 DEF PlanHeld, Covers
<1>12. \A w \in Works : worker[w] # p.old
  BY <1>1, <1>2, <1>6, NoneAssumption
<1> QED
  BY <1>1, <1>2, <1>3, <1>11, <1>12, ReviewMade

LEMMA PlanRelocationEpochs ==
  ASSUME FullInv, NEW f \in Switches, PlanRelocation(f)
  PROVE  EpochInv'
<1>1. /\ plan[f] # None /\ plan[f].kind = "PREPARING" /\ hand = None
      /\ plan' = [plan EXCEPT ![f].kind = "RELOCATE", ![f].newHash = Without(db[plan[f].target], f)]
      /\ UNCHANGED <<db, saved, pointer, hand, worker, gap>>
  BY DEF PlanRelocation, files
<1>2. /\ PlanOK(plan[f]) /\ PlanHeld(f) /\ plan = [g \in Switches |-> plan[g]]
      /\ plan[f].target \in Stores
  BY <1>1, PlanRead DEF FullInv, AuthorityInv, Types
<1>3. PICK p : p = [plan[f] EXCEPT !.kind = "RELOCATE", !.newHash = Without(db[plan[f].target], f)]
  OBVIOUS
<1>4. plan' = [plan EXCEPT ![f] = p] /\ plan'[f] = p
  BY <1>1, <1>2, <1>3
<1>5. /\ p.kind = "RELOCATE" /\ p.target = plan[f].target /\ p.old = plan[f].old
      /\ p.parent = plan[f].parent /\ p.oldHash = plan[f].oldHash /\ p.epoch = plan[f].epoch
  BY <1>2, <1>3 DEF PlanOK, PlanFields
<1>6. ~Completed(f) /\ pointer # f
  BY <1>1, CompletedRead DEF FullInv, EpochInv, PointerOK
<1>7. ~Completed(f)'
  BY ZenonT(40), <1>1, <1>4, <1>5, <1>6 DEF Completed
<1>8. PlanHeld(f)'
  <2>1. PICK g : g = plan[f].parent
    OBVIOUS
  <2>2. g \in Switches => /\ plan[g] # None /\ plan[g].target = p.old
                          /\ plan'[g] = plan[g] /\ Completed(g)'
    <3> SUFFICES ASSUME g \in Switches
                 PROVE  /\ plan[g] # None /\ plan[g].target = p.old
                        /\ plan'[g] = plan[g] /\ Completed(g)'
      OBVIOUS
    <3>1. plan[g] # None /\ plan[g].target = p.old /\ Completed(g)
      BY <1>2, <1>5, <2>1 DEF PlanHeld
    <3>2. plan'[g] = plan[g]
      BY <1>2, <1>4, <1>6, <3>1
    <3> QED
      BY <1>1, <3>1, <3>2 DEF Completed
  <2>3. p.parent = g
    BY <1>5, <2>1
  <2> QED
    <3>1. /\ db[p.target] # None /\ db[p.old] # None
          /\ p.parent \in {None} \cup Stores \cup Switches
          /\ HasFact(db[p.target], f) /\ p.old # p.target
          /\ Covers(db[p.old], p.oldHash) /\ Covers(db[p.target], p.oldHash)
      BY <1>1, <1>2, <1>5 DEF PlanHeld
    <3>2. p.parent \in Switches => /\ plan'[p.parent] # None /\ plan'[p.parent].target = p.old
                                    /\ Completed(p.parent)'
      BY <2>2, <2>3
    <3>3. db' = db /\ plan'[f] = p
      BY <1>1, <1>4
    <3> QED
      BY <1>5, <3>1, <3>2, <3>3 DEF PlanHeld
<1>9. \A w \in Works : Begun(p.oldHash.op[w]) => worker[w] # p.old
  BY <1>1, <1>5 DEF FullInv, EpochInv, RetiredOK
<1> QED
  BY <1>1, <1>4, <1>6, <1>7, <1>8, <1>9, PlanMade

\* The preparation of a relocation is a backup, a restore and a plan in one.
LEMMA PrepareRelocationEpochs ==
  ASSUME FullInv, NEW f \in Switches, NEW s \in Stores, NEW b \in Backups, NEW t \in Stores,
         PrepareRelocation(f, s, b, t)
  PROVE  EpochInv'
<1> DEFINE mark == [switch |-> f, store |-> t, epoch |-> t, state |-> "RESTORED"]
           op == [w \in Works |-> OpAfterRestore(db[s].op[w])]
           grant == [w \in Works |-> IF db[s].grant[w] = None THEN None ELSE Revoked]
           facts == Append(db[s].facts, mark)
           restored == [db[s] EXCEPT !.epoch = t, !.quarantined = TRUE, !.basis = b, !.reviewed = FALSE,
                          !.op = op, !.grant = grant, !.facts = facts]
<1>1. PICK row, d, p :
      /\ row = restored /\ d = db[s]
      /\ p = [kind |-> "PREPARING", target |-> t, old |-> s, parent |-> pointer, epoch |-> t,
              revision |-> None, oldHash |-> StateHash(db[s]), newHash |-> None]
  OBVIOUS
<1>2. /\ db[s] # None /\ Healthy(s) /\ NativeSource(s) /\ db[t] = None /\ saved[b] = None
      /\ hand = None /\ Unused(f) /\ plan[f] = None
      /\ saved' = [saved EXCEPT ![b] = [from |-> s, image |-> d]]
      /\ db' = [db EXCEPT ![t] = row] /\ plan' = [plan EXCEPT ![f] = p]
      /\ UNCHANGED <<pointer, hand, worker, gap>>
  BY <1>1 DEF PrepareRelocation, files
<1>3. d \in Rows /\ RowOK(d, s) /\ d.facts \in Seq(Facts) /\ s # t /\ d = db[s]
  BY <1>1, <1>2, RowOf DEF FullInv, EpochInv, RowsOK, Rows
<1>4. /\ op \in [Works -> {"ABSENT", "PREPARED", "INTENT", "UNKNOWN", "DONE", "CANCELLED"}]
      /\ grant \in [Works -> Grants \cup {None, Revoked}]
      /\ \A w \in Works : Begun(d.op[w]) => Begun(op[w])
  BY <1>1, <1>3 DEF Rows, OpAfterRestore, Begun
<1>5. /\ facts \in Seq(Facts) /\ \E i \in DOMAIN facts : facts[i].switch = f
      /\ \A i \in DOMAIN facts : \/ facts[i].switch = f /\ facts[i].state = "RESTORED"
                                 \/ i \in DOMAIN d.facts /\ facts[i] = d.facts[i]
  <2>1. mark \in Facts /\ mark.switch = f /\ mark.state = "RESTORED"
    BY DEF Facts
  <2> HIDE DEF mark
  <2> QED
    BY <1>3, <2>1, AppendGives
<1> HIDE DEF op, grant, facts
<1>6. /\ row \in Rows /\ row.quarantined /\ ~row.reviewed
      /\ row.epoch = t /\ row.basis = b /\ row.op = op /\ row.facts = facts
      /\ row.adoption = d.adoption /\ row.imported = d.imported
  BY <1>1, <1>3, <1>4, <1>5 DEF Rows
<1> HIDE DEF restored
<1>7. /\ p.kind = "PREPARING" /\ p.target = t /\ p.old = s /\ p.parent = pointer
      /\ p.oldHash.op = d.op
  BY <1>1, <1>3, HashKeeps
<1>8. /\ \A y \in Stores : db'[y] = IF y = t THEN row ELSE db[y]
      /\ \A g \in Switches : plan'[g] = IF g = f THEN p ELSE plan[g]
      /\ \A c \in Backups : c # b => saved'[c] = saved[c]
      /\ saved'[b].from = s /\ saved'[b].image = d /\ saved'[b] = [from |-> s, image |-> d]
      /\ row # None
  BY <1>2, <1>6, NoneAssumption DEF FullInv, AuthorityInv, Types
<1>9. ~KnownAnywhere(f) /\ ~Completed(f) /\ pointer # f
  BY <1>2, UnusedIsNew
<1>10. \A g \in Switches : Completed(g)' <=> Completed(g)
  <2> SUFFICES ASSUME NEW g \in Switches PROVE Completed(g)' <=> Completed(g)
    OBVIOUS
  <2>1. CASE g = f
    <3>1. /\ d.adoption[f] = "ABSENT"
          /\ \A i \in DOMAIN d.facts : d.facts[i].switch # f
      BY <1>2, <1>3 DEF Unused
    <3>2. ~Completed(f)'
      BY <1>5, <1>6, <1>7, <1>8, <3>1 DEF Completed
    <3> QED
      BY <1>9, <2>1, <3>2
  <2>2. CASE g # f
    <3>1. plan'[g] = plan[g]
      BY <1>8, <2>2
    <3>2. plan[g] # None => db'[plan[g].target] = db[plan[g].target]
      BY <1>2, <1>8, PlanRead DEF PlanHeld
    <3> QED
      BY <3>1, <3>2 DEF Completed
  <2> QED
    BY <2>1, <2>2
<1>11. \A y \in Stores : db[y] # None => db'[y] # None /\ db'[y] = db[y] /\ Grown(db[y], db'[y])
  BY <1>2, <1>8 DEF Grown, HasFact, Covers
<1>12. Ahead
  BY <1>2, <1>8, <1>10, <1>11 DEF Ahead
<1>13. RowOK(d, s)'
  <2>1. \A g \in Switches : Knows(d, g) => KnownAnywhere(g)
    BY <1>2, <1>3 DEF KnownAnywhere
  <2> QED
    BY <1>3, <1>12, <2>1, RowStays
<1>14. RowsOK'
  <2>1. OwnEpoch(row, t)'
    BY <1>6 DEF OwnEpoch
  <2>2. Switched(row)'
    BY <1>6, <1>13 DEF RowOK, Switched
  <2>3. Based(row)'
    <3>1. Covers(row, d)
      BY <1>4, <1>6 DEF Covers
    <3>2. saved'[b] # None
      BY <1>8, <1>3, NoneAssumption DEF Images
    <3> QED
      BY <1>6, <1>8, <3>1, <3>2 DEF Based, Covers
  <2>4. RowOK(db[t], t)'
    BY <1>8, <2>1, <2>2, <2>3 DEF RowOK, OwnEpoch, Switched, Based, Covers
  <2> QED
    BY <1>8, <1>12, <2>4, RowsStay
<1>15. ImagesOK'
  <2>1. ImageOK(b)'
    <3>1. db'[s] = d
      BY <1>3, <1>8
    <3> QED
      BY <1>8, <1>13, <3>1 DEF ImageOK, Covers, RowOK, OwnEpoch, Switched, Based
  <2> QED
    BY <1>8, <1>12, <2>1, ImagesStay
<1>16. \A q \in Switches : q = pointer => plan'[q] = plan[q] /\ plan[q] # None
  BY <1>8, <1>9 DEF FullInv, EpochInv, PointerOK
<1>17. PlansOK'
  <2>1. PICK g : g = pointer
    OBVIOUS
  <2>2. g \in Switches => /\ plan'[g] # None /\ plan'[g].target = s /\ Completed(g)'
    <3> SUFFICES ASSUME g \in Switches
                 PROVE  plan'[g] # None /\ plan'[g].target = s /\ Completed(g)'
      OBVIOUS
    <3>1. plan'[g] = plan[g] /\ plan[g] # None
      BY <1>16, <2>1
    <3>2. plan[g].kind = "RELOCATE" /\ plan[g].target = s
      BY <1>2, <2>1, NoneAssumption, IdentitiesAssumption DEF NativeSource
    <3>3. ~Plain(s)
      <4>1. Knows(d, g) /\ Switched(d)
        BY <1>3, <2>1, <3>2 DEF FullInv, EpochInv, PointerOK, RowOK
      <4>2. HasFact(d, g)
        BY <3>2, <4>1 DEF Knows, Switched, HasFact
      <4> QED
        BY <1>3, <4>2, FactRead DEF Plain, HasFact
    <3>4. Completed(g)
      BY <1>2, <2>1, <3>3, InCharge DEF Healthy
    <3> QED
      BY <1>10, <3>1, <3>2, <3>4
  <2>3. g \in {None} \cup Stores \cup Switches
    BY <2>1 DEF FullInv, EpochInv, PointerOK
  <2>4. p.parent = g
    BY <1>7, <2>1
  <2>5. /\ db'[t] = row /\ db'[s] = d /\ plan'[f] = p
    BY <1>3, <1>8
  <2>6. /\ HasFact(row, f) /\ Covers(d, p.oldHash) /\ Covers(row, p.oldHash)
    BY <1>4, <1>5, <1>6, <1>7 DEF HasFact, Covers
  <2>7. d # None
    BY <1>2, <1>3
  <2>8. PlanHeld(f)'
    BY <1>3, <1>7, <1>8, <2>2, <2>3, <2>4, <2>5, <2>6, <2>7 DEF PlanHeld, HasFact, Covers
  <2>9. \A h \in Switches : plan'[h] # None =>
          (plan'[h] = plan[h] /\ plan[h] # None) \/ PlanHeld(h)'
    BY <1>8, <2>8
  <2> QED
    BY <1>12, <2>9, PlansStay
<1>18. NativeOK'
  <2> SUFFICES ASSUME NEW g \in Switches, plan'[g] # None PROVE NativeHeld(g)'
    BY DEF NativeOK
  <2>1. CASE g = f
    BY <1>7, <1>8, <2>1 DEF NativeHeld
  <2>2. CASE g # f
    <3>1. plan'[g] = plan[g] /\ NativeHeld(g) /\ (Completed(g)' <=> Completed(g))
      BY <1>8, <1>10, <2>2 DEF FullInv, EpochInv, NativeOK
    <3>2. /\ db'[plan[g].old] = db[plan[g].old] /\ db'[plan[g].target] = db[plan[g].target]
      BY <1>11, <3>1, PlanRead DEF PlanHeld
    <3> QED
      BY <1>2, <3>1, <3>2 DEF NativeHeld, NativeState
  <2> QED
    BY <2>1, <2>2
<1>19. GrantsOK'
  BY <1>6, <1>8 DEF GrantsOK, Granted, FullInv, EpochInv
<1>20. WorkersOK'
  BY <1>2, <1>8 DEF WorkersOK, FullInv, EpochInv
<1>21. ReviewsOK'
  <2> SUFFICES ASSUME NEW y \in Stores, db'[y] # None, db'[y].reviewed, db'[y].basis # None,
                      NEW w \in Works, Begun(saved'[db'[y].basis].image.op[w])
               PROVE  worker[w] # saved'[db'[y].basis].from
    BY <1>2 DEF ReviewsOK
  <2>1. y # t /\ db'[y] = db[y]
    BY <1>6, <1>8
  <2>2. db[y].basis \in Backups /\ saved[db[y].basis] # None
    BY <2>1, BasisRead
  <2>3. saved'[db[y].basis] = saved[db[y].basis]
    BY <1>2, <1>8, <2>2
  <2> QED
    BY <2>1, <2>3 DEF FullInv, EpochInv, ReviewsOK
<1>22. RetiredOK'
  <2>1. \A w \in Works : Begun(d.op[w]) => worker[w] # s
    BY <1>2, <1>3, WorkersRead DEF Healthy, Pending
  <2> QED
    BY <1>2, <1>7, <1>8, <2>1 DEF RetiredOK, FullInv, EpochInv
<1>23. HandOK'
  BY <1>2 DEF HandOK
<1>24. PointerOK'
  <2>1. PointerOK
    BY DEF FullInv, EpochInv
  <2>2. pointer \in Switches =>
          /\ plan'[pointer] = plan[pointer]
          /\ db'[plan[pointer].target] = db[plan[pointer].target]
    BY <1>11, <1>16, PlanRead DEF PlanHeld
  <2>3. ASSUME NEW w \in Works, worker'[w] # None, ~Plain(worker[w])'
        PROVE  AtWork(worker[w])'
    <3>1. worker[w] \in Stores /\ db'[worker[w]] = db[worker[w]]
      BY <1>2, <1>11, <2>3 DEF FullInv, EpochInv, WorkersOK
    <3>2. AtWork(worker[w])
      BY <1>2, <2>1, <2>3, <3>1 DEF PointerOK, Plain
    <3>3. PICK q \in Switches : q = pointer
      BY <3>2 DEF AtWork
    <3>4. plan'[q] = plan[q] /\ (Completed(q)' <=> Completed(q))
      BY <1>10, <1>16, <3>3
    <3> QED
      BY <1>2, <3>2, <3>3, <3>4 DEF AtWork, Completed
  <2> QED
    BY <1>2, <2>1, <2>2, <2>3 DEF PointerOK, Knows
<1>25. KeptOK'
  <2> SUFFICES ASSUME NEW g \in Switches, Completed(g)'
               PROVE  /\ Last' \in Switches /\ Completed(Last)'
                      /\ \A v \in Works : v \notin gap' /\ Begun(db'[plan'[g].old].op[v])
                                            => Begun(db'[plan'[Last'].target].op[v])
    BY DEF KeptOK
  <2>1. Completed(g) /\ g # f
    BY <1>9, <1>10
  <2>2. /\ Last \in Switches /\ Completed(Last)
        /\ \A v \in Works : v \notin gap /\ Begun(db[plan[g].old].op[v])
                               => Begun(db[plan[Last].target].op[v])
    BY <2>1 DEF FullInv, EpochInv, KeptOK
  <2>3. PICK l \in Switches : l = Last /\ Completed(l) /\ l # f
    BY <1>9, <2>2
  <2>4. Last' = Last
    <3>1. CASE pointer \in Switches
      <4>1. PICK q \in Switches : q = pointer
        BY <3>1
      <4>2. plan'[q] = plan[q] /\ (Completed(q)' <=> Completed(q))
        BY <1>10, <1>16, <4>1
      <4>3. pointer' = q /\ (Completed(pointer)' <=> Completed(q)')
        BY <1>2, <4>1 DEF Completed
      <4>4. Completed(pointer) <=> Completed(q)
        BY <4>1
      <4> QED
        BY <4>1, <4>2, <4>3, <4>4 DEF Last
    <3>2. CASE pointer \notin Switches
      BY <1>2, <3>2 DEF Last
    <3> QED
      BY <3>1, <3>2
  <2>5. Last' = l /\ plan'[l] = plan[l] /\ plan'[g] = plan[g]
    BY <1>8, <2>1, <2>3, <2>4
  <2>6. Completed(Last)'
    <3>1. Completed(l)'
      BY <1>10, <2>3
    <3> QED
      BY <2>5, <3>1 DEF Completed
  <2>7. db'[plan[g].old] = db[plan[g].old] /\ db'[plan[l].target] = db[plan[l].target]
    BY <1>11, <2>1, <2>3, PlanRead, CompletedRead DEF PlanHeld
  <2> QED
    BY <1>2, <2>2, <2>3, <2>5, <2>6, <2>7
<1> QED
  BY <1>14, <1>15, <1>17, <1>18, <1>19, <1>20, <1>21, <1>22, <1>23, <1>24, <1>25 DEF EpochInv

-----------------------------------------------------------------------------
(* A switch. *)

SwitchKinds == {"ADOPT", "FORWARD", "DISASTER", "RELOCATE"}

LEMMA StepOrder ==
  ASSUME NEW k \in SwitchKinds, NEW n \in 1 .. Len(Steps[k]), n # Len(Steps[k])
  PROVE  LET now == Steps[k][n]  next == Steps[k][n + 1] IN
         /\ now # "ACTIVATE" /\ next # "TARGET"
         /\ next = "ACTIVATE" <=> now = "POINTER"
         /\ now \in {"SEAL1", "SEAL2"} => k # "RELOCATE"
         /\ k = "RELOCATE" /\ next = "POINTER" => now = "OLD"
<1>1. CASE k = "ADOPT"
  BY <1>1 DEF Steps
<1>2. CASE k = "FORWARD"
  BY <1>2 DEF Steps
<1>3. CASE k = "DISASTER"
  BY <1>3 DEF Steps
<1>4. CASE k = "RELOCATE"
  BY <1>4 DEF Steps
<1> QED
  BY <1>1, <1>2, <1>3, <1>4 DEF SwitchKinds

LEMMA StepKinds ==
  ASSUME NEW k \in SwitchKinds, NEW n \in 1 .. Len(Steps[k])
  PROVE  /\ Steps[k][n] = "TARGET" => k # "ADOPT"
         /\ Steps[k][n] = "OLD" => k \in {"FORWARD", "RELOCATE"}
         /\ Steps[k][n] = "ACTIVATE" => n = Len(Steps[k])
<1>1. CASE k = "ADOPT"
  BY <1>1 DEF Steps
<1>2. CASE k = "FORWARD"
  BY <1>2 DEF Steps
<1>3. CASE k = "DISASTER"
  BY <1>3 DEF Steps
<1>4. CASE k = "RELOCATE"
  BY <1>4 DEF Steps
<1> QED
  BY <1>1, <1>2, <1>3, <1>4 DEF SwitchKinds

\* A switch in progress, at a step of its kind.
LEMMA HandRead ==
  ASSUME FullInv, NEW f \in Switches, NEW step, At(f, step)
  PROVE  /\ hand # None /\ hand.switch = f /\ plan[f] # None /\ plan[f].kind \in SwitchKinds
         /\ hand \in Hands /\ hand.step \in 1 .. Len(Steps[plan[f].kind])
         /\ Steps[plan[f].kind][hand.step] = step
         /\ ~Completed(f)
         /\ plan[f].kind \in {"FORWARD", "RELOCATE"} =>
              db[plan[f].old].published /\ db[plan[f].old].op = plan[f].oldHash.op
         /\ step # "TARGET" => Knows(db[plan[f].target], f)
         /\ plan[f].kind = "RELOCATE" /\ step \in {"POINTER", "ACTIVATE"} => db[plan[f].old].facts # <<>>
         /\ step = "ACTIVATE" => pointer = f
<1>1. /\ hand # None /\ hand.switch = f /\ plan[f] # None /\ plan[f].kind \in SwitchKinds
      /\ hand \in Hands /\ hand.step \in 1 .. Len(Steps[plan[f].kind])
      /\ Steps[plan[f].kind][hand.step] = step
  BY DEF At, FullInv, AuthorityInv, HandHeld, SwitchKinds
<1>2. HandOK
  BY DEF FullInv, EpochInv
<1> QED
  BY <1>1, <1>2 DEF HandOK

\* A step of a switch in progress leads to the next, of which so much is to show.
LEMMA HandMoves ==
  ASSUME FullInv, Ahead, NEW f \in Switches, NEW step, At(f, step), Onward, UNCHANGED plan,
         ~Completed(f)' \/ step = "ACTIVATE",
         plan[f].kind \in {"FORWARD", "RELOCATE"} =>
           /\ db'[plan[f].old].published = db[plan[f].old].published
           /\ db'[plan[f].old].op = db[plan[f].old].op,
         step \in {"TARGET", "ACTIVATE"} \/ Knows(db[plan[f].target], f),
         step = "TARGET" => Knows(db'[plan[f].target], f),
         step = "OLD" /\ plan[f].kind = "RELOCATE" => db'[plan[f].old].facts # <<>>,
         step = "POINTER" => pointer' = f
  PROVE  HandOK'
<1>1. /\ hand # None /\ hand.switch = f /\ plan[f] # None /\ plan[f].kind \in SwitchKinds
      /\ hand \in Hands /\ hand.step \in 1 .. Len(Steps[plan[f].kind])
      /\ Steps[plan[f].kind][hand.step] = step
      /\ plan[f].kind \in {"FORWARD", "RELOCATE"} =>
              db[plan[f].old].published /\ db[plan[f].old].op = plan[f].oldHash.op
      /\ plan[f].kind = "RELOCATE" /\ step \in {"POINTER", "ACTIVATE"} => db[plan[f].old].facts # <<>>
  BY HandRead
<1> SUFFICES ASSUME hand' # None PROVE HandOK'
  BY DEF HandOK
<1>2. hand.step # Len(Steps[plan[f].kind]) /\ hand' = [hand EXCEPT !.step = @ + 1]
  BY <1>1 DEF Onward
<1>3. hand'.switch = f /\ hand'.step = hand.step + 1
  BY <1>1, <1>2 DEF Hands
<1> DEFINE k == plan[f].kind  n == hand.step
<1>4. LET now == Steps[k][n]  next == Steps[k][n + 1] IN
         /\ now # "ACTIVATE" /\ next # "TARGET"
         /\ next = "ACTIVATE" <=> now = "POINTER"
         /\ k = "RELOCATE" /\ next = "POINTER" => now = "OLD"
  BY <1>1, <1>2, StepOrder
<1>5. /\ step # "ACTIVATE"
      /\ Steps[k][n + 1] = "ACTIVATE" => step = "POINTER"
      /\ k = "RELOCATE" /\ Steps[k][n + 1] = "POINTER" => step = "OLD"
  BY <1>1, <1>4
<1>6. /\ plan[f].target \in Stores /\ db[plan[f].target] # None
      /\ plan[f].old \in Stores /\ db[plan[f].old] # None
  BY <1>1, PlanRead DEF PlanHeld
<1>7. Knows(db'[plan[f].target], f)
  BY <1>5, <1>6 DEF Ahead, Grown, Knows, HasFact
<1>8. db[plan[f].old].facts # <<>> => db'[plan[f].old].facts # <<>>
  BY <1>6 DEF Ahead, Grown
<1>9. (~Completed(hand.switch))'
  <2>1. ~Completed(f)'
    BY <1>5
  <2> QED
    BY <1>3, <2>1 DEF Completed
<1>10. plan'[f] = plan[f] /\ Steps[plan'[f].kind][hand'.step] = Steps[k][n + 1]
  BY <1>3
<1> HIDE DEF k, n
<1>11. k = plan[f].kind
  BY DEF k
<1> QED
  BY <1>1, <1>3, <1>5, <1>7, <1>8, <1>9, <1>10, <1>11 DEF HandOK

\* Only files, and the hand that writes them.
LEMMA FilesOnly ==
  ASSUME FullInv, UNCHANGED <<db, saved, plan, worker, gap>>
  PROVE  /\ RowsOK' /\ ImagesOK' /\ PlansOK' /\ GrantsOK' /\ WorkersOK' /\ ReviewsOK' /\ RetiredOK'
         /\ Ahead /\ \A g \in Switches : Completed(g)' <=> Completed(g)
<1>1. \A g \in Switches : Completed(g)' <=> Completed(g)
  BY DEF Completed
<1>2. Ahead
  BY <1>1 DEF Ahead, Grown, HasFact, Covers
<1>3. RowsOK' /\ ImagesOK' /\ PlansOK'
  BY <1>2, RowsStay, ImagesStay, PlansStay
<1> QED
  BY <1>1, <1>2, <1>3 DEF GrantsOK, Granted, WorkersOK, ReviewsOK, RetiredOK, FullInv, EpochInv

\* What apply checks before its first write says that the switch is not done.
LEMMA BasisGives ==
  ASSUME FullInv, NEW f \in Switches, plan[f] # None, Has(plan[f].target), BasisHolds(f)
  PROVE  /\ plan[f].kind \in SwitchKinds /\ ~Completed(f)
         /\ plan[f].kind \in {"FORWARD", "RELOCATE"} =>
              db[plan[f].old].published /\ db[plan[f].old].op = plan[f].oldHash.op
         /\ plan[f].kind = "ADOPT" => Knows(db[plan[f].target], f)
         /\ plan[f].kind = "DISASTER" => db[plan[f].old].op = plan[f].oldHash.op
<1>1. plan[f].kind \in SwitchKinds
  BY DEF BasisHolds, SwitchKinds
<1>2. db[plan[f].old] \in Rows /\ db[plan[f].target] \in Rows
  BY PlanRead
<1>3. CASE plan[f].kind = "ADOPT"
  <2>1. db[plan[f].target].adoption[f] = "PREPARED"
    BY <1>3 DEF BasisHolds
  <2> QED
    BY <1>3, <2>1, CompletedRead DEF Knows, SwitchKinds
<1>4. CASE plan[f].kind = "FORWARD"
  <2>1. /\ db[plan[f].target].adoption[f] \in {"ABSENT", "PREPARED"} /\ Has(plan[f].old)
        /\ StateHash(db[plan[f].old]) = plan[f].oldHash
    BY <1>4 DEF BasisHolds
  <2> QED
    BY <1>2, <1>4, <2>1, CompletedRead, HashKeeps DEF Has, SwitchKinds
<1>5. CASE plan[f].kind = "DISASTER"
  <2>1. /\ db[plan[f].target].adoption[f] \in {"ABSENT", "PREPARED"}
        /\ db[plan[f].old] = plan[f].oldHash
    BY <1>5 DEF BasisHolds
  <2> QED
    BY <1>5, <2>1, CompletedRead DEF SwitchKinds
<1>6. CASE plan[f].kind = "RELOCATE"
  <2>1. /\ NativeState(db[plan[f].target], f) \in {"RESTORED", "PREPARED"} /\ Has(plan[f].old)
        /\ Without(db[plan[f].old], f) = plan[f].oldHash
    BY <1>6 DEF BasisHolds
  <2>2. ~Completed(f)
    BY <1>6, <2>1 DEF FullInv, EpochInv, NativeOK, NativeHeld
  <2> QED
    BY <1>2, <1>6, <2>1, <2>2, HashKeeps DEF Has, SwitchKinds
<1> QED
  BY <1>1, <1>3, <1>4, <1>5, <1>6 DEF SwitchKinds

LEMMA BeginEpochs ==
  ASSUME FullInv, NEW f \in Switches, Begin(f)
  PROVE  EpochInv'
<1>1. /\ plan[f] # None /\ Has(plan[f].target) /\ BasisHolds(f) /\ hand' = [switch |-> f, step |-> 1]
      /\ UNCHANGED <<db, saved, plan, pointer, worker, gap>>
  BY DEF Begin, files
<1>2. /\ RowsOK' /\ ImagesOK' /\ PlansOK' /\ GrantsOK' /\ WorkersOK' /\ ReviewsOK' /\ RetiredOK'
      /\ Ahead /\ \A g \in Switches : Completed(g)' <=> Completed(g)
  BY <1>1, FilesOnly
<1>3. worker = [w \in Works |-> worker[w]]
  BY DEF FullInv, EpochInv, WorkersOK
<1>4. Quiet
  BY <1>1, <1>2, <1>3 DEF Quiet, Calm
<1>5. /\ plan[f].kind \in SwitchKinds /\ ~Completed(f)
      /\ plan[f].kind \in {"FORWARD", "RELOCATE"} =>
           db[plan[f].old].published /\ db[plan[f].old].op = plan[f].oldHash.op
      /\ plan[f].kind = "ADOPT" => Knows(db[plan[f].target], f)
  BY <1>1, BasisGives
<1>6. /\ Steps[plan[f].kind][1] \notin {"POINTER", "ACTIVATE"}
      /\ plan[f].kind # "ADOPT" => Steps[plan[f].kind][1] = "TARGET"
  BY <1>5 DEF Steps, SwitchKinds
<1>7. hand'.switch = f /\ hand'.step = 1
  BY <1>1
<1>8. (~Completed(hand.switch))'
  BY <1>1, <1>5, <1>7 DEF Completed
<1>9. HandOK'
  BY <1>1, <1>5, <1>6, <1>7, <1>8 DEF HandOK, Knows
<1> QED
  BY <1>2, <1>4, <1>9, CalmPlans DEF EpochInv

LEMMA ReplaceSealEpochs ==
  ASSUME FullInv, NEW f \in Switches, NEW i \in 1..2, ReplaceSeal(f, i)
  PROVE  EpochInv'
<1>1. PICK step \in {"SEAL1", "SEAL2"} : At(f, step)
  BY DEF ReplaceSeal
<1>2. Onward /\ UNCHANGED <<db, saved, plan, pointer, worker, gap>>
  BY DEF ReplaceSeal
<1>3. /\ RowsOK' /\ ImagesOK' /\ PlansOK' /\ GrantsOK' /\ WorkersOK' /\ ReviewsOK' /\ RetiredOK'
      /\ Ahead /\ \A g \in Switches : Completed(g)' <=> Completed(g)
  BY <1>2, FilesOnly
<1>4. Quiet
  BY <1>2, <1>3 DEF Quiet, Calm
<1>5. ~Completed(f) /\ Knows(db[plan[f].target], f)
  BY <1>1, HandRead
<1>6. ~Completed(f)'
  BY <1>3, <1>5
<1>7. HandOK'
  BY <1>1, <1>2, <1>3, <1>5, <1>6, HandMoves
<1> QED
  BY <1>3, <1>4, <1>7, CalmPlans DEF EpochInv

\* The pointer is replaced while nobody works for the database of the switch
\* before, or while its disk is lost.
LEMMA ReplacePointerEpochs ==
  ASSUME FullInv, NEW f \in Switches, ReplacePointer(f)
  PROVE  EpochInv'
<1>1. /\ At(f, "POINTER") /\ pointer \in {plan[f].parent, f} /\ pointer' = f /\ Onward
      /\ UNCHANGED <<db, saved, plan, worker, gap>>
  BY DEF ReplacePointer
<1>2. /\ RowsOK' /\ ImagesOK' /\ PlansOK' /\ GrantsOK' /\ WorkersOK' /\ ReviewsOK' /\ RetiredOK'
      /\ Ahead /\ \A g \in Switches : Completed(g)' <=> Completed(g)
  BY <1>1, FilesOnly
<1>3. /\ plan[f] # None /\ plan[f].kind \in SwitchKinds /\ ~Completed(f)
      /\ plan[f].kind \in {"FORWARD", "RELOCATE"} => db[plan[f].old].op = plan[f].oldHash.op
      /\ Knows(db[plan[f].target], f)
      /\ plan[f].kind = "RELOCATE" => db[plan[f].old].facts # <<>>
  BY <1>1, HandRead
<1>4. PlanHeld(f) /\ plan[f].old \in Stores
  BY <1>3, PlanRead
<1>5. ~Completed(f)'
  BY <1>2, <1>3
<1>6. HandOK'
  BY <1>1, <1>2, <1>3, <1>5, HandMoves
<1>7. NativeOK'
  <2> SUFFICES ASSUME NEW g \in Switches, plan[g] # None PROVE NativeHeld(g)'
    BY <1>1 DEF NativeOK
  <2>1. NativeHeld(g) /\ (Completed(g)' <=> Completed(g))
    BY <1>2 DEF FullInv, EpochInv, NativeOK
  <2> QED
    BY <1>1, <1>3, <2>1 DEF NativeHeld, NativeState
<1>8. PICK q : q = plan[f].parent
  OBVIOUS
<1>9. q \in Switches => plan[q] # None /\ plan[q].target = plan[f].old /\ Completed(q)
  BY <1>4, <1>8 DEF PlanHeld
<1>10. Last = q
  BY <1>1, <1>3, <1>8, <1>9 DEF Last
<1>11. Last' = q
  <2>1. pointer' = f /\ f \in Switches /\ plan'[f].parent = q
    BY <1>1, <1>8
  <2>2. ~Completed(pointer)'
    BY <1>5, <2>1 DEF Completed
  <2> QED
    BY <2>1, <2>2 DEF Last
<1>12. PointerOK'
  <2>1. ASSUME NEW w \in Works, worker[w] # None, ~Plain(worker[w])
        PROVE  plan[f].target = worker[w] \/ (plan[f].kind = "DISASTER" /\ plan[f].old = worker[w])
    <3>1. AtWork(worker[w])
      BY <2>1 DEF FullInv, EpochInv, PointerOK
    <3>2. CASE pointer = f
      BY <3>1, <3>2 DEF AtWork
    <3>3. CASE pointer = q
      <4>1. plan[f].old = worker[w]
        BY <1>9, <3>1, <3>3 DEF AtWork
      <4>2. plan[f].kind # "ADOPT"
        BY <1>4, <1>8, <3>1, <3>3, NoneAssumption DEF PlanHeld, AtWork
      <4>3. plan[f].kind \notin {"FORWARD", "RELOCATE"}
        BY <1>3, <4>1, <4>2, NobodyAtWork
      <4> QED
        BY <1>3, <4>1, <4>2, <4>3 DEF SwitchKinds
    <3> QED
      BY <1>1, <1>8, <3>2, <3>3
  <2>2. ASSUME NEW w \in Works, worker'[w] # None, ~Plain(worker[w])'
        PROVE  AtWork(worker[w])'
    <3>1. plan[f].target = worker[w] \/ (plan[f].kind = "DISASTER" /\ plan[f].old = worker[w])
      BY <1>1, <2>1, <2>2 DEF Plain
    <3>2. ~Completed(pointer)'
      BY <1>1, <1>5 DEF Completed
    <3> QED
      BY <1>1, <3>1, <3>2 DEF AtWork
  <2>3. plan[f].kind # "PREPARING"
    BY <1>3 DEF SwitchKinds
  <2> QED
    BY <1>1, <1>3, <2>2, <2>3 DEF PointerOK, Knows
<1>13. KeptOK'
  <2> SUFFICES ASSUME NEW g \in Switches, Completed(g)'
               PROVE  /\ Last' \in Switches /\ Completed(Last)'
                      /\ \A v \in Works : v \notin gap' /\ Begun(db'[plan'[g].old].op[v])
                                            => Begun(db'[plan'[Last'].target].op[v])
    BY DEF KeptOK
  <2>1. Completed(g)
    BY <1>2
  <2>2. /\ q \in Switches /\ Completed(q)
        /\ \A v \in Works : v \notin gap /\ Begun(db[plan[g].old].op[v])
                               => Begun(db[plan[q].target].op[v])
    BY <1>10, <2>1 DEF FullInv, EpochInv, KeptOK
  <2>3. Completed(Last)'
    <3>1. Completed(q)'
      BY <1>2, <2>2
    <3> QED
      BY <1>11, <3>1 DEF Completed
  <2> QED
    BY <1>1, <1>11, <2>2, <2>3
<1> QED
  BY <1>2, <1>6, <1>7, <1>12, <1>13 DEF EpochInv

\* A database is marked: its work stays as it is.
LEMMA MarkStands ==
  ASSUME FullInv, NEW s \in Stores, NEW row \in Rows, db' = [db EXCEPT ![s] = row], db[s] # None,
         UNCHANGED <<saved, plan, worker>>,
         row.op = db[s].op, row.basis = db[s].basis, row.reviewed = db[s].reviewed,
         Grown(db[s], row), Switched(row)', OwnEpoch(row, s),
         \A g \in Switches : Completed(g) => Completed(g)'
  PROVE  /\ Ahead /\ RowsOK' /\ ImagesOK' /\ PlansOK' /\ WorkersOK' /\ ReviewsOK' /\ RetiredOK'
         /\ \A y \in Stores : db'[y] = IF y = s THEN row ELSE db[y]
<1>1. /\ \A y \in Stores : db'[y] = IF y = s THEN row ELSE db[y]
      /\ row # None
  BY NoneAssumption DEF FullInv, AuthorityInv, Types
<1>2. \A y \in Stores : db[y] # None => db'[y] # None /\ Grown(db[y], db'[y])
  BY <1>1 DEF Grown, HasFact, Covers
<1>3. Ahead
  BY <1>2 DEF Ahead
<1>4. RowsOK'
  <2>1. RowOK(db[s], s)
    BY DEF FullInv, EpochInv, RowsOK
  <2>2. OwnEpoch(row, s)'
    BY DEF OwnEpoch
  <2>3. Based(row)'
    BY <2>1 DEF RowOK, Based, Covers
  <2>4. RowOK(db[s], s)'
    BY <1>1, <2>2, <2>3 DEF RowOK, OwnEpoch, Switched, Based, Covers
  <2> QED
    BY <1>1, <1>3, <2>4, RowsStay
<1>5. ImagesOK' /\ PlansOK'
  BY <1>3, ImagesStay, PlansStay
<1>6. WorkersOK'
  BY <1>1 DEF WorkersOK, FullInv, EpochInv
<1>7. ReviewsOK'
  BY <1>1 DEF ReviewsOK, FullInv, EpochInv
<1>8. RetiredOK'
  BY DEF RetiredOK, FullInv, EpochInv
<1> QED
  BY <1>1, <1>3, <1>4, <1>5, <1>6, <1>7, <1>8

LEMMA GrantsStand ==
  ASSUME FullInv, NEW s \in Stores, NEW row \in Rows, db[s] # None,
         \A y \in Stores : db'[y] = IF y = s THEN row ELSE db[y],
         row.grant = db[s].grant, row.epoch = db[s].epoch, row.quarantined = db[s].quarantined
  PROVE  GrantsOK'
<1> SUFFICES ASSUME NEW t \in Stores, db'[t] # None, ~db'[t].quarantined,
                    NEW w \in Works, db'[t].grant[w] \notin {None, Revoked}
             PROVE  db'[t].grant[w] = [epoch |-> db'[t].epoch, quarantined |-> FALSE]
  BY DEF GrantsOK, Granted
<1>1. /\ db[t] # None /\ db'[t].quarantined = db[t].quarantined
      /\ db'[t].grant = db[t].grant /\ db'[t].epoch = db[t].epoch
  OBVIOUS
<1> QED
  BY <1>1 DEF GrantsOK, Granted, FullInv, EpochInv

\* Native facts are in the order of the switches that wrote them.
LEMMA NativeStands ==
  ASSUME FullInv, NEW s \in Stores, NEW row \in Rows, db[s] # None, UNCHANGED <<plan, pointer>>,
         \A y \in Stores : db'[y] = IF y = s THEN row ELSE db[y],
         NEW f \in Switches, NEW x \in Facts, x.switch = f,
         row.facts = db[s].facts \/ row.facts = Append(db[s].facts, x),
         \A g \in Switches : g # f => (Completed(g)' => Completed(g)),
         Completed(f)' /\ plan[f].kind = "RELOCATE" =>
           /\ db[plan[f].old].facts # <<>> /\ plan[f].target = s
           /\ row.facts = Append(db[s].facts, x) /\ x.state = "ACTIVE"
  PROVE  NativeOK'
<1> SUFFICES ASSUME NEW g \in Switches, plan[g] # None, plan[g].kind = "RELOCATE"
             PROVE  /\ Completed(g)' \/ pointer = g => db'[plan[g].old].facts # <<>>
                    /\ Completed(g)' => NativeState(db'[plan[g].target], g) \notin {"RESTORED", "PREPARED"}
  BY DEF NativeOK, NativeHeld, NativeState
<1>1. db[s].facts \in Seq(Facts)
  BY RowOf DEF FullInv, Rows
<1>2. Append(db[s].facts, x) # <<>> /\ Current(Append(db[s].facts, x)) = x
  BY <1>1 DEF Current
<1>3. NativeHeld(g) /\ plan[g].old \in Stores /\ plan[g].target \in Stores
  BY PlanRead DEF FullInv, EpochInv, NativeOK
<1>4. db[plan[g].old].facts # <<>> => db'[plan[g].old].facts # <<>>
  BY <1>2, <1>3
<1>5. CASE g = f
  <2>1. Completed(f)' => db'[plan[g].target].facts = Append(db[s].facts, x) /\ x.state = "ACTIVE"
    BY <1>3, <1>5
  <2> QED
    BY <1>2, <1>3, <1>4, <1>5, <2>1 DEF NativeHeld, NativeState
<1>6. CASE g # f
  <2>1. Completed(g)' => Completed(g)
    BY <1>6
  <2>2. CASE db'[plan[g].target].facts = db[plan[g].target].facts
    BY <1>3, <1>4, <2>1, <2>2 DEF NativeHeld, NativeState
  <2>3. CASE db'[plan[g].target].facts = Append(db[s].facts, x)
    BY <1>2, <1>3, <1>4, <1>6, <2>1, <2>3 DEF NativeHeld, NativeState
  <2> QED
    BY <1>3, <2>2, <2>3
<1> QED
  BY <1>5, <1>6

LEMMA PointerStands ==
  ASSUME FullInv, Ahead, NEW s \in Stores, NEW row \in Rows, UNCHANGED <<plan, pointer, worker>>,
         \A y \in Stores : db'[y] = IF y = s THEN row ELSE db[y],
         row.imported = db[s].imported,
         row.facts = db[s].facts \/ ~Plain(s) \/ (\A w \in Works : worker[w] # s),
         \A g \in Switches : Completed(g)' <=> Completed(g)
  PROVE  PointerOK'
<1>1. PointerOK
  BY DEF FullInv, EpochInv
<1>2. pointer \in Switches => Knows(db'[plan[pointer].target], pointer)
  <2> SUFFICES ASSUME NEW f \in Switches, f = pointer PROVE Knows(db'[plan[f].target], f)
    OBVIOUS
  <2>1. plan[f] # None /\ Knows(db[plan[f].target], f)
    BY <1>1 DEF PointerOK
  <2>2. Grown(db[plan[f].target], db'[plan[f].target])
    BY <2>1, PlanRead DEF PlanHeld, Ahead
  <2> QED
    BY <2>1, <2>2 DEF Grown, Knows, HasFact
<1>3. ASSUME NEW w \in Works, worker'[w] # None, ~Plain(worker[w])'
      PROVE  AtWork(worker[w])'
  <2>1. worker[w] \in Stores
    BY <1>3 DEF FullInv, EpochInv, WorkersOK
  <2>2. ~Plain(worker[w])
    BY <1>3, <2>1 DEF Plain
  <2>3. AtWork(worker[w])
    BY <1>1, <1>3, <2>2 DEF PointerOK
  <2>4. PICK q \in Switches : q = pointer
    BY <2>3 DEF AtWork
  <2>5. Completed(q)' <=> Completed(q)
    OBVIOUS
  <2> QED
    BY <2>3, <2>4, <2>5 DEF AtWork, Completed
<1> QED
  BY <1>1, <1>2, <1>3 DEF PointerOK

\* Marking one switch or its parent completes and undoes nothing else.
LEMMA CompletedOthers ==
  ASSUME FullInv, NEW s \in Stores, NEW row \in Rows, db[s] # None, UNCHANGED plan,
         \A y \in Stores : db'[y] = IF y = s THEN row ELSE db[y],
         NEW g \in Switches,
         plan[g] # None /\ plan[g].target = s =>
           /\ row.adoption[g] \in {"ACTIVE", "SUPERSEDED"} <=> db[s].adoption[g] \in {"ACTIVE", "SUPERSEDED"}
           /\ \/ row.facts = db[s].facts
              \/ \E x \in Facts : row.facts = Append(db[s].facts, x)
                                  /\ (x.switch # g \/ x.state # "ACTIVE")
  PROVE  Completed(g)' <=> Completed(g)
<1> SUFFICES ASSUME plan[g] # None PROVE Completed(g)' <=> Completed(g)
  BY DEF Completed
<1>1. plan[g].target \in Stores /\ row # None /\ db[s].facts \in Seq(Facts)
  BY PlanRead, RowOf, NoneAssumption DEF FullInv, Rows
<1>2. CASE plan[g].target # s
  BY <1>1, <1>2 DEF Completed
<1>3. CASE plan[g].target = s
  <2>1. CASE row.facts = db[s].facts
    BY <1>1, <1>3, <2>1 DEF Completed
  <2>2. ASSUME NEW x \in Facts, row.facts = Append(db[s].facts, x), x.switch # g \/ x.state # "ACTIVE"
        PROVE  Completed(g)' <=> Completed(g)
    <3>1. /\ \A i \in DOMAIN row.facts : row.facts[i] = x \/ (i \in DOMAIN db[s].facts /\ row.facts[i] = db[s].facts[i])
          /\ \A i \in DOMAIN db[s].facts : i \in DOMAIN row.facts /\ row.facts[i] = db[s].facts[i]
      BY <1>1, <2>2, AppendGives
    <3>2. (\E i \in DOMAIN row.facts : row.facts[i].switch = g /\ row.facts[i].state = "ACTIVE")
          <=> (\E i \in DOMAIN db[s].facts : db[s].facts[i].switch = g /\ db[s].facts[i].state = "ACTIVE")
      BY <2>2, <3>1
    <3> QED
      BY <1>1, <1>3, <3>2 DEF Completed
  <2> QED
    BY <1>3, <2>1, <2>2
<1> QED
  BY <1>2, <1>3

LEMMA FactGrows ==
  ASSUME NEW d \in Rows, NEW row \in Rows, NEW x \in Facts,
         row.facts = Append(d.facts, x), row.adoption = d.adoption, row.imported = d.imported, row.op = d.op
  PROVE  Grown(d, row) /\ HasFact(row, x.switch) /\ row.facts # <<>>
<1>1. d.facts \in Seq(Facts)
  BY DEF Rows
<1>2. /\ \A i \in DOMAIN d.facts : i \in DOMAIN row.facts /\ row.facts[i] = d.facts[i]
      /\ \E i \in DOMAIN row.facts : row.facts[i] = x
  BY <1>1, AppendGives
<1>3. row.facts # <<>>
  BY <1>2
<1> QED
  BY <1>2, <1>3 DEF Grown, HasFact, Covers

LEMMA PrepareAdoptionEpochs ==
  ASSUME FullInv, NEW f \in Switches, PrepareAdoption(f)
  PROVE  EpochInv'
<1>1. PICK s, row : s = plan[f].target /\ row = [db[s] EXCEPT !.adoption[f] = "PREPARED"]
  OBVIOUS
<1>2. /\ plan[f] # None /\ plan[f].kind = "ADOPT" /\ hand = None /\ db[s] # None
      /\ db[s].adoption[f] = "ABSENT"
      /\ db' = [db EXCEPT ![s] = row] /\ UNCHANGED <<saved, plan, pointer, hand, worker, gap>>
  BY <1>1 DEF PrepareAdoption, Put, files, Writable, Has
<1>3. /\ s \in Stores /\ db[s] \in Rows /\ RowOK(db[s], s) /\ db[s].imported # None
  BY <1>1, <1>2, PlanRead DEF PlanHeld
<1>4. /\ row \in Rows /\ row.grant = db[s].grant /\ row.op = db[s].op
      /\ row.facts = db[s].facts /\ row.imported = db[s].imported
      /\ row.epoch = db[s].epoch /\ row.basis = db[s].basis /\ row.reviewed = db[s].reviewed
      /\ row.quarantined = db[s].quarantined
      /\ \A g \in Switches : row.adoption[g] = IF g = f THEN "PREPARED" ELSE db[s].adoption[g]
  BY <1>1, <1>3 DEF Rows
<1>5. \A y \in Stores : db'[y] = IF y = s THEN row ELSE db[y]
  BY <1>2 DEF FullInv, AuthorityInv, Types
<1>6. \A g \in Switches : Completed(g)' <=> Completed(g)
  BY <1>2, <1>3, <1>4, <1>5, CompletedOthers
<1>7. Grown(db[s], row)
  BY <1>4 DEF Grown, HasFact, Covers
<1>8. Switched(row)'
  BY <1>2, <1>3, <1>4, <1>6 DEF RowOK, Switched
<1>9. OwnEpoch(row, s)
  BY <1>3, <1>4 DEF RowOK, OwnEpoch
<1>10. /\ Ahead /\ RowsOK' /\ ImagesOK' /\ PlansOK' /\ WorkersOK' /\ ReviewsOK' /\ RetiredOK'
  BY <1>2, <1>3, <1>4, <1>6, <1>7, <1>8, <1>9, MarkStands
<1>11. GrantsOK'
  BY <1>2, <1>3, <1>4, <1>5, GrantsStand
<1>12. Quiet
  BY <1>2, <1>4, <1>5, <1>6 DEF Quiet, Calm
<1>13. HandOK'
  BY <1>2 DEF HandOK
<1> QED
  BY <1>10, <1>11, <1>12, <1>13, CalmPlans DEF EpochInv

LEMMA MarkTargetEpochs ==
  ASSUME FullInv, NEW f \in Switches, MarkTarget(f)
  PROVE  EpochInv'
<1>1. PICK t, s, q, x :
        t = plan[f].target /\ s = plan[f].old /\ q = plan[f].parent /\ x = Fact(f, t, "PREPARED")
  OBVIOUS
<1>2. /\ At(f, "TARGET") /\ Onward /\ UNCHANGED <<saved, plan, pointer, worker, gap>>
      /\ db' = [db EXCEPT ![t] =
                  IF plan[f].kind = "RELOCATE"
                  THEN IF NativeState(@, f) = "PREPARED" THEN @ ELSE WithFact(@, x)
                  ELSE [@ EXCEPT !.adoption[f] = "PREPARED", !.adoption[q] = "SUPERSEDED"]]
  BY <1>1 DEF MarkTarget, files
<1>3. /\ plan[f] # None /\ plan[f].kind \in SwitchKinds /\ ~Completed(f) /\ hand # None
      /\ Steps[plan[f].kind][hand.step] = "TARGET" /\ hand.step \in 1 .. Len(Steps[plan[f].kind])
  BY <1>2, HandRead
<1>4. /\ PlanHeld(f) /\ t \in Stores /\ s \in Stores /\ db[t] \in Rows /\ db[t] # None /\ db[s] # None
      /\ RowOK(db[t], t)
  BY <1>1, <1>3, PlanRead DEF PlanHeld
<1>5. plan[f].kind # "ADOPT"
  BY <1>3, StepKinds
<1>6. /\ s # t
      /\ plan[f].kind = "RELOCATE" => HasFact(db[t], f)
      /\ plan[f].kind # "RELOCATE" =>
           /\ q \in Switches /\ db[t].adoption[q] # "ABSENT" /\ Completed(q) /\ q # f
           /\ plan[q].target = s
  BY <1>1, <1>3, <1>4, <1>5 DEF PlanHeld, SwitchKinds
<1>7. x \in Facts /\ x.switch = f /\ x.state = "PREPARED"
  BY <1>1, <1>4, FactOf DEF FullInv
<1>8. PICK row \in Rows :
        /\ db' = [db EXCEPT ![t] = row]
        /\ row.grant = db[t].grant /\ row.op = db[t].op /\ row.imported = db[t].imported
        /\ row.epoch = db[t].epoch /\ row.basis = db[t].basis /\ row.reviewed = db[t].reviewed
        /\ row.quarantined = db[t].quarantined
        /\ \/ plan[f].kind = "RELOCATE" /\ row = db[t]
           \/ plan[f].kind = "RELOCATE" /\ row.facts = Append(db[t].facts, x) /\ row.adoption = db[t].adoption
           \/ /\ plan[f].kind # "RELOCATE" /\ row.facts = db[t].facts
              /\ \A g \in Switches : row.adoption[g] = IF g = q THEN "SUPERSEDED"
                                                       ELSE IF g = f THEN "PREPARED" ELSE db[t].adoption[g]
  <2> DEFINE native == WithFact(db[t], x)
             adopted == [db[t] EXCEPT !.adoption[f] = "PREPARED", !.adoption[q] = "SUPERSEDED"]
  <2>1. /\ native \in Rows /\ native.grant = db[t].grant /\ native.op = db[t].op
        /\ native.imported = db[t].imported
        /\ native.epoch = db[t].epoch /\ native.basis = db[t].basis /\ native.reviewed = db[t].reviewed
        /\ native.quarantined = db[t].quarantined
        /\ native.adoption = db[t].adoption /\ native.facts = Append(db[t].facts, x)
    BY <1>4, <1>7, AppendGives DEF Rows, WithFact
  <2>2. plan[f].kind # "RELOCATE" =>
        /\ adopted \in Rows /\ adopted.grant = db[t].grant /\ adopted.op = db[t].op
        /\ adopted.imported = db[t].imported
        /\ adopted.epoch = db[t].epoch /\ adopted.basis = db[t].basis /\ adopted.reviewed = db[t].reviewed
        /\ adopted.quarantined = db[t].quarantined /\ adopted.facts = db[t].facts
        /\ \A g \in Switches : adopted.adoption[g] = IF g = q THEN "SUPERSEDED"
                                                     ELSE IF g = f THEN "PREPARED" ELSE db[t].adoption[g]
    BY <1>4, <1>6 DEF Rows
  <2>3. \/ plan[f].kind = "RELOCATE" /\ db' = [db EXCEPT ![t] = db[t]]
        \/ plan[f].kind = "RELOCATE" /\ db' = [db EXCEPT ![t] = native]
        \/ plan[f].kind # "RELOCATE" /\ db' = [db EXCEPT ![t] = adopted]
    BY <1>2
  <2> HIDE DEF native, adopted
  <2> QED
    BY <1>4, <2>1, <2>2, <2>3
<1>9. \A y \in Stores : db'[y] = IF y = t THEN row ELSE db[y]
  BY <1>8 DEF FullInv, AuthorityInv, Types
<1>10. \A g \in Switches : Completed(g)' <=> Completed(g)
  <2> SUFFICES ASSUME NEW g \in Switches, plan[g] # None, plan[g].target = t
               PROVE  Completed(g)' <=> Completed(g)
    BY <1>2, <1>4, <1>8, <1>9, CompletedOthers
  <2>1. plan[f].kind # "RELOCATE" => g # q
    BY <1>6
  <2>2. plan[f].kind # "RELOCATE" => db[t].adoption[f] \notin {"ACTIVE", "SUPERSEDED"}
    BY <1>1, <1>3, <1>4 DEF Completed
  <2>3. row.adoption[g] \in {"ACTIVE", "SUPERSEDED"} <=> db[t].adoption[g] \in {"ACTIVE", "SUPERSEDED"}
    BY <1>8, <2>1, <2>2
  <2> QED
    BY <1>2, <1>4, <1>7, <1>8, <1>9, <2>3, CompletedOthers
<1>11. Grown(db[t], row)
  <2>1. CASE row.facts = Append(db[t].facts, x) /\ row.adoption = db[t].adoption
    BY <1>4, <1>7, <1>8, <2>1, FactGrows
  <2>2. CASE row.facts = db[t].facts
    BY <1>6, <1>8, <2>2 DEF Grown, HasFact, Covers
  <2> QED
    BY <1>8, <2>1, <2>2
<1>12. plan[f].kind # "RELOCATE" => row.imported # None
  BY <1>4, <1>6, <1>8 DEF RowOK, Switched
<1>13. Switched(row)'
  <2>1. CASE row.adoption = db[t].adoption
    BY <1>2, <1>4, <1>8, <1>10, <2>1 DEF RowOK, Switched
  <2>2. CASE plan[f].kind # "RELOCATE"
    BY <1>2, <1>3, <1>4, <1>5, <1>6, <1>8, <1>10, <1>12, <2>2 DEF RowOK, Switched, SwitchKinds
  <2> QED
    BY <1>8, <2>1, <2>2
<1>14. OwnEpoch(row, t)
  BY <1>4, <1>8, <1>11 DEF RowOK, OwnEpoch, Grown
<1>15. /\ Ahead /\ RowsOK' /\ ImagesOK' /\ PlansOK' /\ WorkersOK' /\ ReviewsOK' /\ RetiredOK'
  BY <1>2, <1>4, <1>8, <1>10, <1>11, <1>13, <1>14, MarkStands
<1>16. GrantsOK'
  BY <1>4, <1>8, <1>9, GrantsStand
<1>17. KeptOK'
  <2>1. Calm
    BY <1>2, <1>8, <1>9, <1>10 DEF Calm
  <2> QED
    BY <1>15, <2>1, CalmKept
<1>18. NativeOK'
  BY <1>2, <1>3, <1>4, <1>7, <1>8, <1>9, <1>10, NativeStands
<1>19. PointerOK'
  <2>1. row.facts = db[t].facts \/ ~Plain(t)
    BY <1>4, <1>6, <1>8, FactRead DEF HasFact, Plain
  <2> QED
    BY <1>2, <1>4, <1>8, <1>9, <1>10, <1>15, <2>1, PointerStands
<1>20. HandOK'
  <2>1. Knows(row, f)
    BY <1>6, <1>8, <1>11 DEF Knows, Grown, HasFact
  <2>2. db'[t] = row /\ db'[s] = db[s]
    BY <1>4, <1>6, <1>9
  <2>3. ~Completed(f)'
    BY <1>3, <1>10
  <2> QED
    BY <1>1, <1>2, <1>15, <2>1, <2>2, <2>3, HandMoves
<1> QED
  BY <1>15, <1>16, <1>17, <1>18, <1>19, <1>20 DEF EpochInv

LEMMA MarkOldEpochs ==
  ASSUME FullInv, NEW f \in Switches, MarkOld(f)
  PROVE  EpochInv'
<1>1. PICK t, s, q, x :
        t = plan[f].target /\ s = plan[f].old /\ q = plan[f].parent /\ x = Fact(f, s, "SUPERSEDED")
  OBVIOUS
<1>2. /\ At(f, "OLD") /\ Onward /\ UNCHANGED <<saved, plan, pointer, worker, gap>>
      /\ db' = [db EXCEPT ![s] =
                  IF plan[f].kind = "RELOCATE"
                  THEN IF db[s].facts # <<>> /\ NativeState(@, f) = "SUPERSEDED" THEN @ ELSE WithFact(@, x)
                  ELSE [@ EXCEPT !.adoption[q] = "SUPERSEDED"]]
  BY <1>1 DEF MarkOld, files
<1>3. /\ plan[f] # None /\ plan[f].kind \in SwitchKinds /\ ~Completed(f) /\ hand # None
      /\ Steps[plan[f].kind][hand.step] = "OLD" /\ hand.step \in 1 .. Len(Steps[plan[f].kind])
      /\ plan[f].kind \in {"FORWARD", "RELOCATE"} => db[s].op = plan[f].oldHash.op
      /\ Knows(db[t], f)
  BY <1>1, <1>2, HandRead
<1>4. /\ PlanHeld(f) /\ t \in Stores /\ s \in Stores /\ db[s] \in Rows /\ db[t] # None /\ db[s] # None
      /\ RowOK(db[s], s) /\ RowOK(db[t], t)
  BY <1>1, <1>3, PlanRead DEF PlanHeld
<1>5. plan[f].kind \in {"FORWARD", "RELOCATE"}
  BY <1>3, StepKinds
<1>6. /\ s # t
      /\ plan[f].kind # "RELOCATE" =>
           /\ q \in Switches /\ db[t].adoption[q] # "ABSENT" /\ Completed(q) /\ q # f
           /\ plan[q].target = s
  BY <1>1, <1>3, <1>4, <1>5 DEF PlanHeld
<1>7. plan[f].kind # "RELOCATE" => db[s].adoption[q] \in {"ACTIVE", "SUPERSEDED"}
  <2>1. plan[f].kind # "RELOCATE" => plan[q].kind # "RELOCATE"
    BY <1>4, <1>6 DEF RowOK, Switched
  <2> QED
    BY <1>6, <2>1, CompletedRead
<1>8. x \in Facts /\ x.switch = f /\ x.state = "SUPERSEDED"
  BY <1>1, <1>4, FactOf DEF FullInv
<1>9. PICK row \in Rows :
        /\ db' = [db EXCEPT ![s] = row]
        /\ row.grant = db[s].grant /\ row.op = db[s].op /\ row.imported = db[s].imported
        /\ row.epoch = db[s].epoch /\ row.basis = db[s].basis /\ row.reviewed = db[s].reviewed
        /\ row.quarantined = db[s].quarantined /\ row.published = db[s].published
        /\ \/ plan[f].kind = "RELOCATE" /\ row = db[s] /\ row.facts # <<>>
           \/ plan[f].kind = "RELOCATE" /\ row.facts = Append(db[s].facts, x) /\ row.adoption = db[s].adoption
           \/ /\ plan[f].kind # "RELOCATE" /\ row.facts = db[s].facts
              /\ \A g \in Switches : row.adoption[g] = IF g = q THEN "SUPERSEDED" ELSE db[s].adoption[g]
  <2> DEFINE native == WithFact(db[s], x)
             adopted == [db[s] EXCEPT !.adoption[q] = "SUPERSEDED"]
  <2>1. /\ native \in Rows /\ native.grant = db[s].grant /\ native.op = db[s].op
        /\ native.imported = db[s].imported
        /\ native.epoch = db[s].epoch /\ native.basis = db[s].basis /\ native.reviewed = db[s].reviewed
        /\ native.quarantined = db[s].quarantined /\ native.published = db[s].published
        /\ native.adoption = db[s].adoption /\ native.facts = Append(db[s].facts, x)
    BY <1>4, <1>8, AppendGives DEF Rows, WithFact
  <2>2. plan[f].kind # "RELOCATE" =>
        /\ adopted \in Rows /\ adopted.grant = db[s].grant /\ adopted.op = db[s].op
        /\ adopted.imported = db[s].imported
        /\ adopted.epoch = db[s].epoch /\ adopted.basis = db[s].basis /\ adopted.reviewed = db[s].reviewed
        /\ adopted.quarantined = db[s].quarantined /\ adopted.published = db[s].published
        /\ adopted.facts = db[s].facts
        /\ \A g \in Switches : adopted.adoption[g] = IF g = q THEN "SUPERSEDED" ELSE db[s].adoption[g]
    BY <1>4, <1>6 DEF Rows
  <2>3. \/ plan[f].kind = "RELOCATE" /\ db' = [db EXCEPT ![s] = db[s]] /\ db[s].facts # <<>>
        \/ plan[f].kind = "RELOCATE" /\ db' = [db EXCEPT ![s] = native]
        \/ plan[f].kind # "RELOCATE" /\ db' = [db EXCEPT ![s] = adopted]
    BY <1>2
  <2> HIDE DEF native, adopted
  <2> QED
    BY <1>4, <2>1, <2>2, <2>3
<1>10. \A y \in Stores : db'[y] = IF y = s THEN row ELSE db[y]
  BY <1>9 DEF FullInv, AuthorityInv, Types
<1>11. \A g \in Switches : Completed(g)' <=> Completed(g)
  <2> SUFFICES ASSUME NEW g \in Switches, plan[g] # None, plan[g].target = s
               PROVE  Completed(g)' <=> Completed(g)
    BY <1>2, <1>4, <1>9, <1>10, CompletedOthers
  <2>1. row.adoption[g] \in {"ACTIVE", "SUPERSEDED"} <=> db[s].adoption[g] \in {"ACTIVE", "SUPERSEDED"}
    BY <1>7, <1>9
  <2> QED
    BY <1>2, <1>4, <1>8, <1>9, <1>10, <2>1, CompletedOthers
<1>12. Grown(db[s], row)
  <2>1. CASE row.facts = Append(db[s].facts, x) /\ row.adoption = db[s].adoption
    BY <1>4, <1>8, <1>9, <2>1, FactGrows
  <2>2. CASE row.facts = db[s].facts
    BY <1>7, <1>9, <2>2 DEF Grown, HasFact, Covers
  <2> QED
    BY <1>9, <2>1, <2>2
<1>13. Switched(row)'
  <2>1. CASE row.adoption = db[s].adoption
    BY <1>2, <1>4, <1>9, <1>11, <2>1 DEF RowOK, Switched
  <2>2. CASE plan[f].kind # "RELOCATE"
    BY <1>2, <1>4, <1>6, <1>7, <1>9, <1>11, <2>2 DEF RowOK, Switched
  <2> QED
    BY <1>9, <2>1, <2>2
<1>14. OwnEpoch(row, s)
  BY <1>4, <1>9, <1>12 DEF RowOK, OwnEpoch, Grown
<1>15. /\ Ahead /\ RowsOK' /\ ImagesOK' /\ PlansOK' /\ WorkersOK' /\ ReviewsOK' /\ RetiredOK'
  BY <1>2, <1>4, <1>9, <1>11, <1>12, <1>13, <1>14, MarkStands
<1>16. GrantsOK'
  BY <1>4, <1>9, <1>10, GrantsStand
<1>17. KeptOK'
  <2>1. Calm
    BY <1>2, <1>9, <1>10, <1>11 DEF Calm
  <2> QED
    BY <1>15, <2>1, CalmKept
<1>18. NativeOK'
  BY <1>2, <1>3, <1>4, <1>8, <1>9, <1>10, <1>11, NativeStands
<1>19. PointerOK'
  <2>1. \A w \in Works : worker[w] # s
    BY <1>1, <1>3, <1>5, NobodyAtWork
  <2> QED
    BY <1>2, <1>4, <1>9, <1>10, <1>11, <1>15, <2>1, PointerStands
<1>20. HandOK'
  <2>1. db'[s] = row /\ db'[t] = db[t]
    BY <1>4, <1>6, <1>10
  <2>2. plan[f].kind = "RELOCATE" => row.facts # <<>>
    BY <1>4, <1>8, <1>9, FactGrows
  <2>3. ~Completed(f)'
    BY <1>3, <1>11
  <2> QED
    BY <1>1, <1>2, <1>3, <1>9, <1>15, <2>1, <2>2, <2>3, HandMoves
<1> QED
  BY <1>15, <1>16, <1>17, <1>18, <1>19, <1>20 DEF EpochInv

\* The last step: the switch is carried out, and its target is in charge.
LEMMA ActivateEpochs ==
  ASSUME FullInv, NEW f \in Switches, Activate(f)
  PROVE  EpochInv'
<1>1. PICK t, s, q, x :
        t = plan[f].target /\ s = plan[f].old /\ q = plan[f].parent /\ x = Fact(f, t, "ACTIVE")
  OBVIOUS
<1>2. /\ At(f, "ACTIVATE") /\ Onward /\ StillReviewed(f) /\ UNCHANGED <<saved, plan, pointer, worker>>
      /\ db' = [db EXCEPT ![t] =
                  IF plan[f].kind = "RELOCATE" THEN WithFact(@, x)
                  ELSE IF plan[f].kind = "ADOPT"
                       THEN [@ EXCEPT !.adoption[f] = "ACTIVE", !.epoch = plan[f].epoch, !.quarantined = FALSE]
                       ELSE [@ EXCEPT !.adoption[f] = "ACTIVE"]]
      /\ gap' = IF plan[f].kind # "DISASTER" THEN gap ELSE gap \cup {w \in Works : ~Begun(db[t].op[w])}
  BY <1>1 DEF Activate, files
<1>3. /\ plan[f] # None /\ plan[f].kind \in SwitchKinds /\ ~Completed(f)
      /\ plan[f].kind \in {"FORWARD", "RELOCATE"} => db[s].op = plan[f].oldHash.op
      /\ Knows(db[t], f) /\ pointer = f
      /\ plan[f].kind = "RELOCATE" => db[s].facts # <<>>
  BY <1>1, <1>2, HandRead
<1>4. /\ PlanHeld(f) /\ t \in Stores /\ s \in Stores /\ db[t] \in Rows /\ db[t] # None /\ db[s] # None
      /\ RowOK(db[t], t) /\ db[s] \in Rows /\ plan[f].epoch \in Stores \cup Switches
  BY <1>1, <1>3, PlanRead DEF PlanHeld, PlanOK
<1>5. /\ plan[f].kind = "ADOPT" => q = None /\ s = t /\ plan[f].epoch = f /\ db[t].imported # None
      /\ plan[f].kind # "ADOPT" => s # t
      /\ plan[f].kind \in {"FORWARD", "DISASTER"} => q \in Switches /\ db[t].adoption[q] # "ABSENT"
      /\ q \in Switches => plan[q].target = s
      /\ plan[f].kind \in {"FORWARD", "RELOCATE"} => Covers(db[t], plan[f].oldHash)
  BY <1>1, <1>3, <1>4 DEF PlanHeld, SwitchKinds
<1>6. x \in Facts /\ x.switch = f /\ x.state = "ACTIVE"
  BY <1>1, <1>4, FactOf DEF FullInv
<1>7. PICK row \in Rows :
        /\ db' = [db EXCEPT ![t] = row]
        /\ row.grant = db[t].grant /\ row.op = db[t].op /\ row.imported = db[t].imported
        /\ row.basis = db[t].basis /\ row.reviewed = db[t].reviewed
        /\ \/ plan[f].kind = "ADOPT" /\ row.epoch = f /\ ~row.quarantined
           \/ plan[f].kind # "ADOPT" /\ row.epoch = db[t].epoch /\ row.quarantined = db[t].quarantined
        /\ \/ plan[f].kind = "RELOCATE" /\ row.facts = Append(db[t].facts, x) /\ row.adoption = db[t].adoption
           \/ /\ plan[f].kind # "RELOCATE" /\ row.facts = db[t].facts
              /\ \A g \in Switches : row.adoption[g] = IF g = f THEN "ACTIVE" ELSE db[t].adoption[g]
  <2> DEFINE native == WithFact(db[t], x)
             adopted == [db[t] EXCEPT !.adoption[f] = "ACTIVE", !.epoch = plan[f].epoch, !.quarantined = FALSE]
             switched == [db[t] EXCEPT !.adoption[f] = "ACTIVE"]
  <2>1. /\ native \in Rows /\ native.grant = db[t].grant /\ native.op = db[t].op
        /\ native.imported = db[t].imported /\ native.basis = db[t].basis /\ native.reviewed = db[t].reviewed
        /\ native.epoch = db[t].epoch /\ native.quarantined = db[t].quarantined
        /\ native.adoption = db[t].adoption /\ native.facts = Append(db[t].facts, x)
    BY <1>4, <1>6, AppendGives DEF Rows, WithFact
  <2>2. plan[f].kind = "ADOPT" =>
        /\ adopted \in Rows /\ adopted.grant = db[t].grant /\ adopted.op = db[t].op
        /\ adopted.imported = db[t].imported /\ adopted.basis = db[t].basis /\ adopted.reviewed = db[t].reviewed
        /\ adopted.epoch = f /\ ~adopted.quarantined /\ adopted.facts = db[t].facts
        /\ \A g \in Switches : adopted.adoption[g] = IF g = f THEN "ACTIVE" ELSE db[t].adoption[g]
    BY <1>4, <1>5 DEF Rows
  <2>3. /\ switched \in Rows /\ switched.grant = db[t].grant /\ switched.op = db[t].op
        /\ switched.imported = db[t].imported /\ switched.basis = db[t].basis
        /\ switched.reviewed = db[t].reviewed
        /\ switched.epoch = db[t].epoch /\ switched.quarantined = db[t].quarantined
        /\ switched.facts = db[t].facts
        /\ \A g \in Switches : switched.adoption[g] = IF g = f THEN "ACTIVE" ELSE db[t].adoption[g]
    BY <1>4 DEF Rows
  <2>4. \/ plan[f].kind = "RELOCATE" /\ db' = [db EXCEPT ![t] = native]
        \/ plan[f].kind = "ADOPT" /\ db' = [db EXCEPT ![t] = adopted]
        \/ plan[f].kind \notin {"ADOPT", "RELOCATE"} /\ db' = [db EXCEPT ![t] = switched]
    BY <1>2
  <2> HIDE DEF native, adopted, switched
  <2> QED
    BY <2>1, <2>2, <2>3, <2>4
<1>8. /\ \A y \in Stores : db'[y] = IF y = t THEN row ELSE db[y]
      /\ row # None
  BY <1>7, NoneAssumption DEF FullInv, AuthorityInv, Types
<1>9. \A g \in Switches : g # f => (Completed(g)' <=> Completed(g))
  BY <1>2, <1>4, <1>6, <1>7, <1>8, CompletedOthers
<1>10. Completed(f)'
  <2>3. plan'[f] = plan[f] /\ plan[f] # None /\ db'[plan[f].target] = row /\ row # None
    BY <1>1, <1>2, <1>3, <1>4, <1>8
  <2>1. CASE plan[f].kind = "RELOCATE"
    <3>1. \E i \in DOMAIN row.facts : row.facts[i] = x
      BY <1>4, <1>6, <1>7, <2>1, AppendGives DEF Rows
    <3> QED
      BY <1>6, <2>3, <3>1 DEF Completed
  <2>2. CASE plan[f].kind # "RELOCATE"
    <3>1. row.adoption[f] = "ACTIVE"
      BY <1>7, <2>2
    <3> QED
      BY <2>3, <3>1 DEF Completed
  <2> QED
    BY <2>1, <2>2
<1>11. Grown(db[t], row)
  <2>1. CASE row.facts = Append(db[t].facts, x) /\ row.adoption = db[t].adoption
    BY <1>4, <1>6, <1>7, <2>1, FactGrows
  <2>2. CASE row.facts = db[t].facts
    BY <1>7, <2>2 DEF Grown, HasFact, Covers
  <2> QED
    BY <1>7, <2>1, <2>2
<1>12. plan[f].kind # "RELOCATE" => row.imported # None
  BY <1>3, <1>4, <1>5, <1>7 DEF RowOK, Switched, SwitchKinds
<1>13. Switched(row)'
  <2>1. \A g \in Switches : Completed(g) => Completed(g)'
    BY <1>9, <1>10
  <2>2. CASE row.adoption = db[t].adoption
    BY <1>2, <1>4, <1>7, <2>1, <2>2 DEF RowOK, Switched
  <2>3. CASE plan[f].kind # "RELOCATE"
    BY <1>2, <1>3, <1>4, <1>7, <1>10, <1>12, <2>1, <2>3 DEF RowOK, Switched, SwitchKinds
  <2> QED
    BY <1>7, <2>2, <2>3
<1>14. OwnEpoch(row, t)
  <2>1. CASE plan[f].kind = "ADOPT"
    BY <1>1, <1>3, <1>7, <2>1 DEF OwnEpoch
  <2>2. CASE plan[f].kind # "ADOPT"
    BY <1>4, <1>7, <1>11, <2>2 DEF RowOK, OwnEpoch, Grown
  <2> QED
    BY <2>1, <2>2
<1>15. /\ Ahead /\ RowsOK' /\ ImagesOK' /\ PlansOK' /\ WorkersOK' /\ ReviewsOK' /\ RetiredOK'
  BY <1>2, <1>4, <1>7, <1>9, <1>10, <1>11, <1>13, <1>14, MarkStands
<1>16. GrantsOK'
  <2>1. CASE plan[f].kind = "ADOPT"
    <3>1. StateHash(db[t]) = StateHash([NewStore(t, db[t].imported) EXCEPT !.quarantined = TRUE])
      BY <1>1, <1>2, <2>1 DEF StillReviewed, Untouched
    <3>2. NewStore(t, db[t].imported) \in Rows
      BY <1>4 DEF NewStore, Rows
    <3>3. PICK e : e = NewStore(t, db[t].imported)
      OBVIOUS
    <3>4. \A w \in Works : e.grant[w] = None
      BY <3>3 DEF NewStore
    <3>5. PICK n : n = [e EXCEPT !.quarantined = TRUE]
      OBVIOUS
    <3>6. n \in Rows /\ n.grant = e.grant
      BY <3>2, <3>3, <3>5 DEF Rows
    <3>9. StateHash(db[t]) = StateHash(n)
      BY <3>1, <3>3, <3>5
    <3>7. db[t].grant = e.grant
      BY <1>4, <3>6, <3>9, HashKeeps
    <3>8. \A w \in Works : row.grant[w] = None
      BY <1>7, <3>4, <3>7
    <3> QED
      BY <1>8, <3>8 DEF GrantsOK, Granted, FullInv, EpochInv
  <2>2. CASE plan[f].kind # "ADOPT"
    BY <1>4, <1>7, <1>8, <2>2, GrantsStand
  <2> QED
    BY <2>1, <2>2
<1>17. NativeOK'
  <2>1. UNCHANGED <<plan, pointer>>
    BY <1>2
  <2>2. row.facts = db[t].facts \/ row.facts = Append(db[t].facts, x)
    BY <1>7
  <2>3. plan[f].kind = "RELOCATE" => /\ db[plan[f].old].facts # <<>> /\ plan[f].target = t
                                     /\ row.facts = Append(db[t].facts, x) /\ x.state = "ACTIVE"
    BY <1>1, <1>3, <1>6, <1>7
  <2> QED
    BY <1>4, <1>6, <1>8, <1>9, <2>1, <2>2, <2>3, NativeStands
<1>18. PointerOK'
  <2>1. Knows(db'[plan[f].target], f)
    <3>1. CASE plan[f].kind = "RELOCATE"
      <4>1. \E i \in DOMAIN row.facts : row.facts[i] = x
        BY <1>4, <1>6, <1>7, <3>1, AppendGives DEF Rows
      <4> QED
        BY <1>1, <1>3, <1>4, <1>6, <1>8, <4>1 DEF Knows
    <3>2. CASE plan[f].kind # "RELOCATE"
      <4>1. row.adoption[f] = "ACTIVE"
        BY <1>7, <3>2
      <4> QED
        BY <1>1, <1>3, <1>4, <1>8, <4>1 DEF Knows
    <3> QED
      BY <3>1, <3>2
  <2>2. ASSUME NEW w \in Works, worker[w] # None, worker[w] # t, ~Plain(worker[w])
        PROVE  FALSE
    <3>1. AtWork(worker[w])
      BY <2>2 DEF FullInv, EpochInv, PointerOK
    <3>2. plan[f].kind = "DISASTER" /\ s = worker[w]
      BY <1>1, <1>3, <2>2, <3>1 DEF AtWork
    <3>3. db[s] = plan[f].oldHash
      BY <1>1, <1>2, <3>2 DEF StillReviewed, BasisHolds
    <3> QED
      BY <1>1, <1>3, <3>2, <3>3, NobodyAtWork
  <2>3. ASSUME NEW w \in Works, worker'[w] # None, ~Plain(worker[w])'
        PROVE  AtWork(worker[w])'
    <3>1. worker'[w] = worker[w] /\ worker[w] \in Stores
      BY <1>2, <2>3 DEF FullInv, EpochInv, WorkersOK
    <3>2. worker[w] = t
      BY <1>8, <2>2, <2>3, <3>1 DEF Plain
    <3> QED
      BY <1>1, <1>2, <1>3, <3>1, <3>2 DEF AtWork
  <2>4. plan[f].kind # "PREPARING"
    BY <1>3 DEF SwitchKinds
  <2>5. pointer' = f /\ plan' = plan /\ plan[f] # None
    BY <1>2, <1>3
  <2> QED
    BY <2>1, <2>3, <2>4, <2>5 DEF PointerOK, Knows
<1>19. KeptOK'
  <2>1. Last = q
    BY <1>1, <1>3 DEF Last
  <2>2. Last' = f
    <3>1. pointer' = f
      BY <1>2, <1>3
    <3>2. Completed(pointer)'
      BY <1>10, <3>1 DEF Completed
    <3> QED
      BY <3>1, <3>2 DEF Last
  <2>3. Completed(Last)'
    BY <1>10, <2>2 DEF Completed
  <2>4. \A w \in Works : w \notin gap' => w \notin gap
    BY <1>2
  <2>5. ASSUME NEW w \in Works, w \notin gap', Begun(db[s].op[w])
        PROVE  Begun(row.op[w])
    <3>1. CASE plan[f].kind = "DISASTER"
      BY <1>2, <1>7, <2>5, <3>1
    <3>2. CASE plan[f].kind = "ADOPT"
      BY <1>5, <1>7, <2>5, <3>2
    <3>3. CASE plan[f].kind \in {"FORWARD", "RELOCATE"}
      BY <1>3, <1>5, <1>7, <2>5, <3>3 DEF Covers
    <3> QED
      BY <1>3, <3>1, <3>2, <3>3 DEF SwitchKinds
  <2>6. \A y \in Stores : db[y] # None => db'[y].op = db[y].op
    BY <1>7, <1>8
  <2>7. ASSUME NEW g \in Switches, Completed(g)', NEW w \in Works, w \notin gap',
               Begun(db'[plan[g].old].op[w])
        PROVE  Begun(row.op[w])
    <3>1. CASE g = f
      BY <1>1, <1>4, <2>5, <2>6, <2>7, <3>1
    <3>2. CASE g # f
      <4>1. Completed(g)
        BY <1>9, <2>7, <3>2
      <4>2. plan[g].old \in Stores /\ db[plan[g].old] # None
        BY <4>1, CompletedRead, PlanRead DEF PlanHeld
      <4>3. /\ q \in Switches
            /\ Begun(db[plan[g].old].op[w]) => Begun(db[plan[q].target].op[w])
        BY <2>1, <2>4, <2>7, <4>1 DEF FullInv, EpochInv, KeptOK
      <4>4. Begun(db[s].op[w])
        BY <1>5, <2>6, <2>7, <4>2, <4>3
      <4> QED
        BY <2>5, <2>7, <4>4
    <3> QED
      BY <3>1, <3>2
  <2>8. /\ plan' = plan /\ plan'[Last'].target = t /\ db'[t] = row /\ Last' \in Switches
    BY <1>1, <1>2, <1>4, <1>8, <2>2
  <2> QED
    BY <2>3, <2>7, <2>8 DEF KeptOK
<1>20. HandOK'
  <2>1. plan[f].kind \in {"FORWARD", "RELOCATE"} => db'[s] = db[s]
    BY <1>4, <1>5, <1>8
  <2> QED
    BY <1>1, <1>2, <1>15, <2>1, HandMoves
<1> QED
  BY <1>15, <1>16, <1>17, <1>18, <1>19, <1>20 DEF EpochInv

-----------------------------------------------------------------------------
LEMMA EpochInit == Init => EpochInv
<1> SUFFICES ASSUME Init PROVE EpochInv
  OBVIOUS
<1>1. /\ \A f \in Switches : plan[f] = None /\ ~Completed(f)
      /\ \A b \in Backups : saved[b] = None
      /\ hand = None /\ worker = [w \in Works |-> None] /\ \A w \in Works : worker[w] = None
      /\ pointer \in {None} \cup Stores
  BY DEF Init, Completed
<1>2. \A s \in Stores : db[s] = None \/ db[s] = NewStore(s, None)
  BY DEF Init
<1>3. \A s \in Stores : LET d == NewStore(s, None) IN
        /\ d.epoch = s /\ d.basis = None /\ \A f \in Switches : d.adoption[f] = "ABSENT"
        /\ \A w \in Works : d.grant[w] = None
  BY DEF NewStore
<1>4. RowsOK
  <2> SUFFICES ASSUME NEW s \in Stores, NEW d, d = db[s], d = NewStore(s, None) PROVE RowOK(d, s)
    BY <1>2 DEF RowsOK
  <2> QED
    BY <1>3 DEF RowOK, OwnEpoch, Switched, Based
<1>5. GrantsOK
  BY <1>2, <1>3 DEF GrantsOK, Granted
<1>6. ReviewsOK
  BY <1>2, <1>3 DEF ReviewsOK
<1>7. ImagesOK /\ PlansOK /\ NativeOK /\ RetiredOK
  BY <1>1 DEF ImagesOK, PlansOK, NativeOK, RetiredOK
<1>8. WorkersOK /\ HandOK /\ KeptOK
  BY <1>1 DEF WorkersOK, HandOK, KeptOK
<1>9. pointer \notin Switches
  BY <1>1, NoneAssumption, IdentitiesAssumption
<1>10. PointerOK
  BY <1>1, <1>9 DEF PointerOK
<1> QED
  BY <1>4, <1>5, <1>6, <1>7, <1>8, <1>10 DEF EpochInv

LEMMA SwitchNextEpochs ==
  ASSUME FullInv, NEW f \in Switches,
         \/ SwitchStep(f) \/ Begin(f) \/ PrepareAdoption(f) \/ PlanRelocation(f) \/ TakesSealsBack(f)
         \/ \E s \in Stores : PlanAdoption(f, s)
         \/ \E b \in Backups, t \in Stores :
              \/ PlanForward(f, b, t) \/ PlanDisaster(f, b, t)
              \/ \E s \in Stores : PrepareRelocation(f, s, b, t)
  PROVE  EpochInv'
<1>1. CASE SwitchStep(f) \/ TakesSealsBack(f)
  BY <1>1, MarkTargetEpochs, MarkOldEpochs, ReplaceSealEpochs, ReplacePointerEpochs, ActivateEpochs,
     BesideEpochs DEF SwitchStep
<1> QED
  BY <1>1, BeginEpochs, PrepareAdoptionEpochs, PlanRelocationEpochs, PlanAdoptionEpochs,
     PlanForwardEpochs, PlanDisasterEpochs, PrepareRelocationEpochs

LEMMA EpochStep == FullInv /\ [Next]_vars => FullInv'
<1> SUFFICES ASSUME FullInv, [Next]_vars PROVE EpochInv'
  BY AuthorityStep DEF FullInv
<1>1. CASE \E s \in Stores, w \in Works : \/ RecordGrant(s, w) \/ Prepare(s, w)
                                          \/ RecordIntent(s, w) \/ ObserveOutcome(s, w)
  BY <1>1, GrantEpochs, PrepareEpochs, IntentEpochs
<1>2. CASE \E b \in Backups, s \in Stores : Backup(b, s) \/ Restore(b, s)
  BY <1>2, BackupEpochs, RestoreEpochs
<1>3. CASE \E s \in Stores : \/ OrdinaryWrite(s) \/ ImportDefinitions(s) \/ FinalizeImport(s)
                             \/ ApplyReview(s) \/ StoreFails(s) \/ StoreReturns(s)
  BY <1>3, NotesEpochs, ImportEpochs, ReviewEpochs, BesideEpochs
<1>4. CASE \/ \E w \in Works : WorkerEnds(w)
           \/ \E i \in 1..2 : LegacyLock(i) \/ LegacyUnlock(i)
           \/ Interrupted \/ UNCHANGED vars
  BY <1>4, BesideEpochs
<1>5. CASE \E f \in Switches :
             \/ SwitchStep(f) \/ Begin(f) \/ PrepareAdoption(f) \/ PlanRelocation(f)
             \/ TakesSealsBack(f)
             \/ \E s \in Stores : PlanAdoption(f, s)
             \/ \E b \in Backups, t \in Stores :
                  \/ PlanForward(f, b, t) \/ PlanDisaster(f, b, t)
                  \/ \E s \in Stores : PrepareRelocation(f, s, b, t)
  BY <1>5, SwitchNextEpochs
<1> QED
  BY <1>1, <1>2, <1>3, <1>4, <1>5 DEF Next

LEMMA EpochHolds == Spec => []FullInv
<1>1. Init => FullInv
  BY InitHolds, EpochInit DEF FullInv
<1> QED
  BY <1>1, EpochStep, PTL DEF Spec

\* Where execution is open nothing acts on an earlier epoch: no grant that a
\* restore carried along, and no worker that another database sent
\* (Restore.apply, Recovery.apply, ForwardRecovery.apply, Adoption.apply).
THEOREM OldEpochIsDeadHolds == Spec => []OldEpochIsDead
<1>1. FullInv => OldEpochIsDead
  <2> SUFFICES ASSUME FullInv, NEW s \in Stores, Ready(s), ~Plain(s), NEW w \in Works
               PROVE  /\ Granted(s, w) => db[s].grant[w] = [epoch |-> db[s].epoch, quarantined |-> FALSE]
                      /\ worker[w] \notin {None, s} => Plain(worker[w])
    BY DEF OldEpochIsDead
  <2>1. pointer \in Switches /\ plan[pointer].target = s /\ Completed(pointer)
    BY InCharge
  <2>2. Granted(s, w) => db[s].grant[w] = [epoch |-> db[s].epoch, quarantined |-> FALSE]
    BY DEF FullInv, EpochInv, GrantsOK, Ready, Has
  <2>3. worker[w] \notin {None, s} => Plain(worker[w])
    BY <2>1 DEF FullInv, EpochInv, PointerOK, AtWork
  <2> QED
    BY <2>2, <2>3
<1> QED
  BY EpochHolds, <1>1, PTL

\* What was handed to a worker before a switch is known to the database in
\* charge, however many switches were carried out since, through backups that
\* were taken before it and interruptions between any two steps, but for what
\* the gap review of a lost disk answered for.
THEOREM WorkKeptHolds == Spec => []WorkKept
<1>1. FullInv => WorkKept
  <2> SUFFICES ASSUME FullInv, NEW f \in Switches, NEW t \in Stores, NEW w \in Works,
                      Completed(f), Ready(t), ~Plain(t), w \notin gap, Begun(db[plan[f].old].op[w])
               PROVE  Begun(db[t].op[w])
    BY DEF WorkKept
  <2>1. pointer \in Switches /\ plan[pointer].target = t /\ Completed(pointer)
    BY InCharge
  <2>2. Last = pointer
    BY <2>1 DEF Last
  <2> QED
    BY <2>1, <2>2 DEF FullInv, EpochInv, KeptOK
<1> QED
  BY EpochHolds, <1>1, PTL
=============================================================================
