------------------------ MODULE WorkspaceArtifacts ------------------------
(***************************************************************************)
(* The Artifact lifecycle of a workspace (tools/workspace_artifacts.py and *)
(* the commands of tools/long_workspace.py that use it).  Each Phase and   *)
(* Session keeps a registry of its artifacts in its control document; the  *)
(* shared and the archive index hold what outlives them.  There is no      *)
(* store: the rows are Markdown, a command is planned against the          *)
(* documents, an Artifact transaction (DomainTransaction) writes it if the *)
(* inputs of the plan still have their hashes, and an audit of the result  *)
(* rolls it back when it finds an issue.  The owner of the workspace edits *)
(* payloads and documents by hand at any moment.                           *)
(*                                                                         *)
(* A reference is <<owner, id>>, with "shared" and "archive" as owners.    *)
(***************************************************************************)
EXTENDS Naturals

CONSTANTS
  Phases, Sessions,    \* the owners a workspace may register
  First,               \* the phase a workspace starts with
  OwnerOffers,         \* rows to register: [id, role, pass, at, rels]
  SharedOffers,        \* shared entries: [id, scope, at, source, rels]
  ArchiveOffers,       \* archive entries: [id, at, rels]
  Locators, Contents,  \* payload files and what may stand in them
  Normal,              \* scope text -> its normalised form
  Nil,
  MaxEdits             \* bound: edits made by hand

VARIABLES
  docs,                \* enrolment, registries and the states of the owners
  mentions,            \* control document -> shared entries its text names
  payload,             \* locator -> content, Nil when the file is missing
  plan,                \* a command planned and not yet written, or Nil
  edits                \* edits made by hand so far

artifactVars == <<docs, mentions, payload, plan, edits>>

ASSUME FirstIsPhase == First \in Phases /\ Phases \cap Sessions = {}
ASSUME NamesAssumption == (Phases \cup Sessions) \cap {"project", "shared", "archive", "external"} = {}
ASSUME PlacesAssumption == \A x \in OwnerOffers \cup SharedOffers : x.at \in Locators
ASSUME EditsAssumption == MaxEdits \in Nat

Owners == Phases \cup Sessions
Controls == Owners \cup {"project"}
Indexes == {"shared", "archive"}
Dispositions == {"UNRESOLVED", "KEEP_OWNED", "PROMOTE_SHARED"}
External == <<"external", Nil>>
Relation(type, ref) == [type |-> type, of |-> ref]
SourceOfTruth == Relation("SOURCE_OF_TRUTH", Nil)

(***************************************************************************)
(* Rows and relations                                                      *)
(***************************************************************************)
\* The payload of these rows is hashed into the row and may not change.
Frozen(r) == r.role \in {"EVIDENCE", "RECOVERY"} \/ (r.role = "DELIVERABLE" /\ r.pass)

\* A relation that evidence must carry.
Proves(r) == r.role = "EVIDENCE" => \E x \in r.rels : x.type = "EVIDENCE_FOR"

SameScopeText(a, b) == a.scope = b.scope   \* mutant: the texts are compared as written
SameScope(a, b) == Normal[a.scope] = Normal[b.scope]

Targets(rels, type) == {x.of : x \in {y \in rels : y.type = type}}

\* What can be reached from a set of nodes along edges <<from, to>>: the least
\* set that has these nodes and that no edge leaves.
Reach(from, edges) ==
  LET nodes == from \cup {e[2] : e \in edges}
      closed == {X \in SUBSET nodes : from \subseteq X /\ \A e \in edges : e[1] \in X => e[2] \in X}
  IN  {n \in nodes : \A X \in closed : n \in X}

Cyclic(edges) == \E e \in edges : e[1] \in Reach({e[2]}, edges)

(***************************************************************************)
(* The audit                                                               *)
(***************************************************************************)
Active(d) == {o \in Owners : d.status[o] = "ACTIVE"}

OwnersNamed(refs) == {ref[1] : ref \in refs \ {Nil}} \cap Owners

RefsOf(r) == {x.of : x \in r.rels}

\* The registries that are read: of the active owners, and of every owner a
\* row read so far refers to, whatever its state.
Parsed(d) ==
  LET indexed == OwnersNamed({s.source : s \in d.shared}
                              \cup UNION {RefsOf(s) : s \in d.shared \cup d.archive})
      edges == UNION {{o} \X OwnersNamed(UNION {RefsOf(r) : r \in d.rows[o]}) : o \in Owners}
  IN  IF d.enrolled THEN Reach(Active(d) \cup indexed, edges) ELSE {}

Artifacts(d) ==
  (UNION {{[ref |-> <<o, r.id>>, at |-> r.at, hash |-> r.hash, rels |-> r.rels] :
             r \in d.rows[o]} : o \in Parsed(d)})
  \cup {[ref |-> <<"shared", s.id>>, at |-> s.at, hash |-> Nil, rels |-> s.rels] :
          s \in d.shared}
  \cup {[ref |-> <<"archive", x.id>>, at |-> x.at, hash |-> Nil, rels |-> x.rels] :
          x \in d.archive}

\* _parse_owner_registry, row by row and against its neighbours.
RegistryPresent(rows, pay) == \A r \in rows : pay[r.at] # Nil   \* mutant: hashes are not compared
RegistryHolds(rows, pay) ==
  \A r \in rows :
     /\ pay[r.at] # Nil
     /\ r.hash # Nil => pay[r.at] = r.hash
     /\ Proves(r)
     /\ \A q \in rows \ {r} : q.id # r.id /\ q.at # r.at

\* _parse_shared_registry
SharedHolds(shared, pay) ==
  /\ \A s \in shared : pay[s.at] # Nil
  /\ \A s, t \in shared : s.status = "CURRENT" /\ t.status = "CURRENT" /\ SameScope(s, t) => s = t

\* _validate_artifact_relationships
RelationsHold(d) ==
  LET all == Artifacts(d)
      refs == {a.ref : a \in all}
      edges(type) == UNION {{a.ref} \X Targets(a.rels, type) : a \in all}
      authorities == {a.ref : a \in {x \in all : SourceOfTruth \in x.rels}} \cup {External}
  IN  /\ \A s \in d.shared :
           /\ (s.status = "CURRENT") = (SourceOfTruth \in s.rels)
           /\ s.source \in refs \cup {External}
      /\ \A a \in all : RefsOf(a) \subseteq refs \cup {External, Nil}
      /\ \A e \in edges("SUPERSEDES") : <<e[2], e[1]>> \in edges("SUPERSEDED_BY")
      /\ \A e \in edges("SUPERSEDED_BY") : <<e[2], e[1]>> \in edges("SUPERSEDES")
      /\ ~Cyclic(edges("SUPERSEDES"))
      /\ \A e \in edges("MIRROR_OF") :
           Reach({e[2]}, edges("MIRROR_OF")) \cap authorities # {}

\* audit_workspace without a finding of severity ISSUE.
AuditPasses(d, pay) ==
  /\ \A o \in Parsed(d) : RegistryHolds(d.rows[o], pay)
  /\ SharedHolds(d.shared, pay)
  /\ \A x \in d.archive : pay[x.at] # Nil
  /\ RelationsHold(d)

\* The control documents whose hashes the audit records.
Audited(d) == {"project"} \cup Active(d) \cup Parsed(d)

(***************************************************************************)
(* Planning                                                                *)
(***************************************************************************)
ArtifactInit ==
  /\ docs = [enrolled |-> FALSE, declared |-> {},
             rows |-> [o \in Owners |-> {}], shared |-> {}, archive |-> {},
             status |-> [o \in Owners |-> IF o = First THEN "ACTIVE" ELSE "absent"]]
  /\ mentions = [c \in Controls |-> {}]
  /\ payload \in [Locators -> Contents]
  /\ plan = Nil
  /\ edits = 0

Plan(command, inputs) ==
  /\ plan' = [command |-> command, inputs |-> inputs]
  /\ UNCHANGED <<docs, mentions, payload, edits>>

PlanEnroll(indexes) ==
  /\ ~docs.enrolled
  /\ AuditPasses(docs, payload)
  /\ Plan([op |-> "enroll", indexes |-> indexes], Audited(docs))

\* The hash is of the payload as it is; without the file nothing is registered.
PlanRegister(o, r, disposition) ==
  /\ docs.enrolled
  /\ docs.status[o] # "absent"
  /\ payload[r.at] # Nil
  /\ Proves(r)
  /\ \A q \in docs.rows[o] : q.id # r.id /\ q.at # r.at
  /\ Plan([op |-> "register", owner |-> o, offer |-> r, disposition |-> disposition,
           hash |-> IF Frozen(r) THEN payload[r.at] ELSE Nil],
          {"project", o} \cup (IF Frozen(r) THEN {r.at} ELSE {}))

NoCurrentRival(s) == \A t \in docs.shared : t.status = "CURRENT" => ~SameScope(s, t)

PlanShare(s, status) ==
  /\ docs.enrolled
  /\ payload[s.at] # Nil
  /\ \A t \in docs.shared : t.id # s.id /\ t.at # s.at
  /\ status = "CURRENT" => NoCurrentRival(s)
  /\ Plan([op |-> "share", offer |-> s, status |-> status], {"project"})

PlanArchive(x) ==
  /\ docs.enrolled
  /\ payload[x.at] # Nil
  /\ \A y \in docs.archive : y.id # x.id /\ y.at # x.at
  /\ Plan([op |-> "archive", offer |-> x], {"project"})

Promotable(r) == r.role = "DELIVERABLE" /\ r.pass /\ r.hash # Nil /\ payload[r.at] = r.hash

\* Only id and scope of the offer are used: the rest comes from the source row.
PlanPromote(o, r, s) ==
  /\ docs.enrolled
  /\ Promotable(r)
  /\ \A t \in docs.shared : t.id # s.id
  /\ NoCurrentRival(s)
  /\ Plan([op |-> "promote", owner |-> o, row |-> r, offer |-> s], {"project", o, r.at})

\* _active_control_paths
ActivePhaseControls(d) == {"project"} \cup (Active(d) \cap Phases)  \* mutant: the session is forgotten
ActiveControls(d) == {"project"} \cup Active(d)

Supersession(d) ==
  UNION {{s.id} \X {ref[2] : ref \in {x \in Targets(s.rels, "SUPERSEDES") : x[1] = "shared"}} :
           s \in d.shared}

\* The active documents that name the old entry are rewritten with it.
Superseded(d, c) ==
  LET Ref(s) == <<"shared", s.id>>
      Without(rels) == {x \in rels : x.type # "SUPERSEDED_BY"}
      old == [c.old EXCEPT !.status = "SUPERSEDED",
                !.rels = (Without(@) \ {SourceOfTruth}) \cup {Relation("SUPERSEDED_BY", Ref(c.new))}]
      new == [c.new EXCEPT !.status = "CURRENT",
                !.rels = Without(@) \cup {SourceOfTruth, Relation("SUPERSEDES", Ref(c.old))}]
  IN  [d EXCEPT !.shared = (@ \ {c.old, c.new}) \cup {old, new}]

Succeeds(old, new) ==
  /\ SameScope(old, new)
  /\ old.status = "CURRENT"
  /\ new.status = "SUPERSEDED"

PlanSupersede(old, new) ==
  LET stale == {c \in ActiveControls(docs) : old.id \in mentions[c]}
      command == [op |-> "supersede", old |-> old, new |-> new, at |-> stale]
  IN  /\ docs.enrolled
      /\ Succeeds(old, new)
      /\ ~Cyclic(Supersession(docs))
      /\ ~Cyclic(Supersession(Superseded(docs, command)))
      /\ Plan(command, Audited(docs))

PlanReconcile(o, r, disposition) ==
  /\ docs.enrolled
  /\ r.disposition # disposition
  /\ Plan([op |-> "reconcile", owner |-> o, row |-> r, disposition |-> disposition],
          {"project", o})

\* artifact_close_gate.  The rows of an owner that the audit does not read --
\* of a phase that is open beside the active one -- do not count.
CloseGate(o) ==
  docs.enrolled => /\ AuditPasses(docs, payload)
                   /\ o \in Parsed(docs) =>
                        \A r \in docs.rows[o] : r.disposition # "UNRESOLVED"

\* command_close_phase, command_close_session
CloseInputsRendered(o) == {"project"}   \* mutant: the audited registries are not inputs
CloseInputs(o) == Audited(docs) \cup {o}
PlanClose(o) ==
  /\ docs.status[o] \in {"ACTIVE", "OPEN"}
  /\ o \in Phases /\ docs.status[o] = "ACTIVE" => Active(docs) \cap Sessions = {}
  /\ CloseGate(o)
  /\ Plan([op |-> "close", owner |-> o], CloseInputs(o))

(***************************************************************************)
(* Writing                                                                 *)
(***************************************************************************)
Registered(c) ==
  [id |-> c.offer.id, role |-> c.offer.role, pass |-> c.offer.pass, at |-> c.offer.at,
   rels |-> c.offer.rels, hash |-> c.hash, disposition |-> c.disposition]

\* A shared entry; the first one declares the index in the project document.
AddShared(d, s) == [d EXCEPT !.shared = @ \cup {s}, !.declared = @ \cup {"shared"}]

ChangeRow(d, o, r, s) == [d EXCEPT !.rows[o] = (@ \ {r}) \cup {s}]

Promoted(d, c) ==
  LET source == <<c.owner, c.row.id>>
      entry == [id |-> c.offer.id, scope |-> c.offer.scope, at |-> c.row.at,
                status |-> "CURRENT", source |-> source,
                rels |-> {SourceOfTruth, Relation("SUPERSEDES", source)}]
      row == [c.row EXCEPT !.disposition = "PROMOTE_SHARED",
                !.rels = @ \cup {Relation("SUPERSEDED_BY", <<"shared", c.offer.id>>)}]
  IN  AddShared(ChangeRow(d, c.owner, c.row, row), entry)

Shared(d, c) ==
  AddShared(d, [id |-> c.offer.id, scope |-> c.offer.scope, at |-> c.offer.at,
                status |-> c.status, source |-> c.offer.source,
                rels |-> c.offer.rels \cup (IF c.status = "CURRENT" THEN {SourceOfTruth} ELSE {})])

Result(d, c) ==
  CASE c.op = "enroll" -> [d EXCEPT !.enrolled = TRUE, !.declared = c.indexes]
    [] c.op = "register" -> [d EXCEPT !.rows[c.owner] = @ \cup {Registered(c)}]
    [] c.op = "share" -> Shared(d, c)
    [] c.op = "archive" -> [d EXCEPT !.archive = @ \cup {c.offer}, !.declared = @ \cup {"archive"}]
    [] c.op = "promote" -> Promoted(d, c)
    [] c.op = "supersede" -> Superseded(d, c)
    [] c.op = "reconcile" -> ChangeRow(d, c.owner, c.row, [c.row EXCEPT !.disposition = c.disposition])
    [] c.op = "close" -> [d EXCEPT !.status[c.owner] = "DONE"]

Rewritten(c) ==
  IF c.op # "supersede" THEN mentions
  ELSE [x \in Controls |-> IF x \in c.at THEN (mentions[x] \ {c.old.id}) \cup {c.new.id}
                           ELSE mentions[x]]

\* execute_transaction with _artifact_post_validate: rolled back when the
\* audit of what was written finds an issue.  A workspace that is not
\* enrolled is closed by an ordinary transaction, without the audit.
WriteOut ==
  /\ plan # Nil
  /\ plan' = Nil
  /\ LET d == Result(docs, plan.command)
     IN  IF d.enrolled => AuditPasses(d, payload)
         THEN docs' = d /\ mentions' = Rewritten(plan.command)
         ELSE UNCHANGED <<docs, mentions>>
  /\ UNCHANGED <<payload, edits>>

\* The phase commands that know nothing of artifacts.  They write the state
\* document, which is an input of every plan.
Shift(o, from, to) ==
  /\ docs.status[o] = from
  /\ docs' = [docs EXCEPT !.status[o] = to]
  /\ plan' = Nil
  /\ UNCHANGED <<mentions, payload, edits>>

StatusOnOpening == IF Active(docs) \cap Phases = {} THEN "ACTIVE" ELSE "OPEN"

OpenPhase(p) == Shift(p, "absent", StatusOnOpening)
ResumePhase(p) == Shift(p, "PAUSED", StatusOnOpening)
PausePhase(p) ==
  \/ Shift(p, "OPEN", "PAUSED")
  \/ Active(docs) \cap Sessions = {} /\ Shift(p, "ACTIVE", "PAUSED")
OpenSession(s) ==
  /\ Active(docs) \cap Phases # {}
  /\ Active(docs) \cap Sessions = {}
  /\ Shift(s, "absent", "ACTIVE")

(***************************************************************************)
(* The owner of the workspace                                              *)
(***************************************************************************)
\* A plan with the edited file among its inputs can only be refused.
ByHand(file) ==
  /\ edits < MaxEdits
  /\ edits' = edits + 1
  /\ plan' = IF plan # Nil /\ file \in plan.inputs THEN Nil ELSE plan

EditPayload(l) ==
  \E c \in (Contents \cup {Nil}) \ {payload[l]} :
     /\ payload' = [payload EXCEPT ![l] = c]
     /\ ByHand(l)
     /\ UNCHANGED <<docs, mentions>>

Mention(c) ==
  \E s \in docs.shared :
     /\ c \in Owners => docs.status[c] # "absent"
     /\ s.id \notin mentions[c]
     /\ mentions' = [mentions EXCEPT ![c] = @ \cup {s.id}]
     /\ ByHand(c)
     /\ UNCHANGED <<docs, payload>>

WriteRow(o) ==
  \E r \in OwnerOffers, h \in Contents :
     LET hash == IF Frozen(r) THEN h ELSE Nil
         row == Registered([offer |-> r, hash |-> hash, disposition |-> "UNRESOLVED"])
     IN  /\ docs.status[o] # "absent"
         /\ row \notin docs.rows[o]
         /\ docs' = [docs EXCEPT !.rows[o] = @ \cup {row}]
         /\ ByHand(o)
         /\ UNCHANGED <<mentions, payload>>

PlanForOwner(o) ==
  \/ \E r \in OwnerOffers, d \in {"UNRESOLVED", "KEEP_OWNED"} : PlanRegister(o, r, d)
  \/ \E r \in docs.rows[o], s \in SharedOffers : PlanPromote(o, r, s)
  \/ \E r \in docs.rows[o], d \in {"UNRESOLVED", "KEEP_OWNED"} : PlanReconcile(o, r, d)
  \/ PlanClose(o)

PlanForIndex ==
  \/ \E indexes \in SUBSET Indexes : PlanEnroll(indexes)
  \/ \E s \in SharedOffers, status \in {"CURRENT", "SUPERSEDED"} : PlanShare(s, status)
  \/ \E x \in ArchiveOffers : PlanArchive(x)
  \/ \E old, new \in docs.shared : PlanSupersede(old, new)

\* One plan is followed at a time: of two that overlap, the one written
\* first leaves the other refused, as if that had never been planned.
Planning == plan = Nil /\ (PlanForIndex \/ \E o \in Owners : PlanForOwner(o))

PhaseStep(p) == OpenPhase(p) \/ PausePhase(p) \/ ResumePhase(p)

ArtifactNext ==
  \/ Planning
  \/ WriteOut
  \/ \E p \in Phases : PhaseStep(p)
  \/ \E s \in Sessions : OpenSession(s)
  \/ \E l \in Locators : EditPayload(l)
  \/ \E c \in Controls : Mention(c)
  \/ \E o \in Owners : WriteRow(o)

ArtifactSpec == ArtifactInit /\ [][ArtifactNext]_artifactVars

(***************************************************************************)
(* Properties                                                              *)
(***************************************************************************)
RowIds == {r.id : r \in OwnerOffers}
SharedIds == {s.id : s \in SharedOffers}
Relations ==
  (UNION {x.rels : x \in OwnerOffers \cup SharedOffers}) \cup {SourceOfTruth}
  \cup [type : {"SUPERSEDES", "SUPERSEDED_BY"},
        of : (Owners \X RowIds) \cup ({"shared"} \X SharedIds)]
Rows == [id : RowIds, role : {r.role : r \in OwnerOffers}, pass : {r.pass : r \in OwnerOffers},
         at : Locators, rels : SUBSET Relations, hash : Contents \cup {Nil},
         disposition : Dispositions]
Entries == [id : SharedIds, scope : {s.scope : s \in SharedOffers}, at : Locators,
            status : {"CURRENT", "SUPERSEDED"},
            source : {s.source : s \in SharedOffers} \cup (Owners \X RowIds),
            rels : SUBSET Relations]
Documents == [enrolled : BOOLEAN, declared : SUBSET Indexes, rows : [Owners -> SUBSET Rows],
              shared : SUBSET Entries, archive : SUBSET ArchiveOffers,
              status : [Owners -> {"absent", "ACTIVE", "OPEN", "PAUSED", "DONE"}]]

\* Types of the variables; which commands plan may hold is PlanHolds of
\* EvidenceProofs.
ArtifactTypeOK ==
  /\ docs \in Documents
  /\ mentions \in [Controls -> SUBSET SharedIds]
  /\ payload \in [Locators -> Contents \cup {Nil}]
  /\ edits \in 0 .. MaxEdits

SuccessorEdges == UNION {{<<"shared", s.id>>} \X Targets(s.rels, "SUPERSEDED_BY") : s \in docs.shared}

\* Succeeded in the index; an entry may also be registered as superseded by a
\* row of an owner.
Succeeded(s) == \E ref \in Targets(s.rels, "SUPERSEDED_BY") : ref[1] = "shared"

\* One purpose has one source of truth, and whoever holds the reference of an
\* entry that was succeeded, or of a row that was promoted, is led by the
\* registries to the entry in force for that purpose (plan_promote,
\* plan_supersede, _plan_register_shared).
SuccessionEndsAtCurrent ==
  /\ \A s, t \in docs.shared :
        s.status = "CURRENT" /\ t.status = "CURRENT" /\ s # t => Normal[s.scope] # Normal[t.scope]
  /\ \A s \in docs.shared :
        LET heirs == Reach({<<"shared", s.id>>}, SuccessorEdges)
        IN  s.status = "CURRENT" \/ Succeeded(s) =>
              \E t \in docs.shared : /\ <<"shared", t.id>> \in heirs
                                     /\ t.status = "CURRENT"
                                     /\ Normal[t.scope] = Normal[s.scope]
  /\ \A s \in docs.shared : \A ref \in Targets(s.rels, "SUPERSEDES") : ref[1] \in Owners =>
        \E r \in docs.rows[ref[1]] : /\ r.id = ref[2]
                                     /\ <<"shared", s.id>> \in Targets(r.rels, "SUPERSEDED_BY")

\* The owner that was working is closed without an artifact left undecided,
\* though registrations, decisions and edits by hand run beside the close
\* (artifact_close_gate, _artifact_aware_close).
ClosedIsResolved ==
  [][\A o \in Owners :
       /\ docs.enrolled
       /\ docs.status[o] = "ACTIVE"
       /\ docs'.status[o] = "DONE"
       => \A r \in docs'.rows[o] : r.disposition # "UNRESOLVED"]_artifactVars

\* No command adds to registries whose shared entries rest on a source that
\* was altered since it was frozen, in whatever state the owner of that
\* source is by then (audit_workspace follows references).
SharedSourcesAreIntact ==
  [][docs'.shared # docs.shared \/ docs'.archive # docs.archive =>
       \A s \in docs'.shared :
         s.source[1] \in Owners =>
           \A r \in docs'.rows[s.source[1]] :
             r.id = s.source[2] /\ r.hash # Nil => payload'[r.at] = r.hash]_artifactVars

\* Superseding an entry leaves no active control document that names it: the
\* documents are read when the command is planned and may be edited before it
\* writes (plan_supersede, _active_control_paths).
ReferencesFollow ==
  [][\A s \in docs.shared :
       /\ s.status = "CURRENT"
       /\ \E t \in docs'.shared : t.id = s.id /\ t.status = "SUPERSEDED"
       => \A c \in {"project"} \cup Active(docs') : s.id \notin mentions'[c]]_artifactVars
===========================================================================
