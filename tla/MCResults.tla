----------------------------- MODULE MCResults ------------------------------
(* Two attempts, in two rounds, and one invocation with three intents, of one  *)
(* request each where two are budgeted, so that two may be reserved and the     *)
(* third may not, and where a provider may send three for any of them; a legacy *)
(* contract, and a CURRENT one with and without an Admission.                   *)
EXTENDS ResultLineage, TLC

CONSTANTS x1, x2, i1, n1, n2, n3, e1, q1

MCIntents == {n1, n2, n3}
Alike == Permutations(Attempts) \cup Permutations(Intents)
MCRequestLimit == [n \in MCIntents |-> 1]

\* Bounds: of the states that end a task alike, and of the ends of an attempt or an
\* invocation alike, one stands for the others; an envelope is revoked while it is
\* active.
OneOfAKind ==
  /\ lineage'.status \notin {"PARTIAL", "FAILED", "REPLANNING"}
  /\ \A x \in Attempts : lineage'.attempt[x] \notin {"FAILED", "CANCELLED", "NOT_RUN"}
  /\ \A i \in Invocations : lineage'.invocation[i] \notin {"FAILED", "CANCELLED", "NOT_RUN"}
  /\ \A e \in Envelopes : lineage.envelope[e] = "expired" => lineage'.envelope[e] = "expired"

\* Bounds: a legacy contract has no Admission, and several intents are reserved
\* for a CURRENT one without an Admission.
Simple == authority.contract = "CURRENT" /\ authority.profile = "NONE"
OneIntent == Cardinality({n \in Intents : lineage'.reserved[n] # None}) <= 1
MCInit == Init /\ (authority.contract = "LEGACY" => authority.profile = "NONE")
MCSpec == MCInit /\ [][Next /\ OneOfAKind /\ (Simple \/ OneIntent)]_vars
=============================================================================
