---------------------------- MODULE MCArtifacts ----------------------------
(***************************************************************************)
(* A small workspace: two phases, one session, one deliverable and one     *)
(* piece of evidence for it, two shared entries for one purpose whose text *)
(* is written in two ways, either promoted from the deliverable or         *)
(* registered, a row that replaces one of these entries, which is then     *)
(* registered as superseded by the row, and an archive entry that mirrors  *)
(* the other.                                                              *)
(***************************************************************************)
EXTENDS WorkspaceArtifacts, FiniteSets, TLC

CONSTANTS p1, p2, s1, l1, l2

MCOwnerOffers ==
  {[id |-> "a1", role |-> "DELIVERABLE", pass |-> TRUE, at |-> l1, rels |-> {}],
   [id |-> "a2", role |-> "EVIDENCE", pass |-> TRUE, at |-> l2,
    rels |-> {Relation("EVIDENCE_FOR", <<p1, "a1">>)}],
   [id |-> "a3", role |-> "DELIVERABLE", pass |-> FALSE, at |-> l2,
    rels |-> {Relation("SUPERSEDES", <<"shared", "h2">>)}]}

MCSharedOffers ==
  {[id |-> "h1", scope |-> "k", at |-> l1, source |-> External, rels |-> {}],
   [id |-> "h2", scope |-> "K", at |-> l2, source |-> External, rels |-> {}],
   [id |-> "h2", scope |-> "K", at |-> l2, source |-> External,
    rels |-> {Relation("SUPERSEDED_BY", <<p1, "a3">>)}]}

MCArchiveOffers == {[id |-> "x1", at |-> l2, rels |-> {Relation("MIRROR_OF", <<"shared", "h1">>)}]}

MCNormal == [t \in {"k", "K"} |-> "k"]

\* Bound: this many rows and entries overall, the deliverable in the registry
\* of the first phase, the evidence in the session's; the row that replaces an
\* entry alone with entries of the index, before another owner opens.  The
\* payloads start alike.
MaxEntries == 3
Small(d) ==
  /\ Cardinality(UNION {{o} \X d.rows[o] : o \in Owners})
       + Cardinality(d.shared) + Cardinality(d.archive) <= MaxEntries
  /\ \A o \in Owners : \A r \in d.rows[o] :
       /\ IF r.role = "EVIDENCE" THEN o \in Sessions ELSE o = First
       /\ r.id = "a3" => /\ d.archive = {} /\ d.rows[First] = {r}
                         /\ \A q \in Owners \ {First} : d.status[q] = "absent" /\ d.rows[q] = {}

MCInit == ArtifactInit /\ \A l \in Locators : payload[l] = "v1"
MCSpec == MCInit /\ [][ArtifactNext /\ Small(docs')]_artifactVars
============================================================================
