------------------------- MODULE CoordinationProofs -------------------------
(***************************************************************************)
(* Proofs about resource admissions, for any number of admissions, clients, *)
(* phases and commands and for every request they make.                    *)
(*                                                                         *)
(* A call is planned from one state and committed in another moment, so     *)
(* the invariant speaks of the states that are planned as well: a plan     *)
(* that is still fresh leads to a state in order (StateOK) that follows on *)
(* the one there is (Follows), and why it was planned still holds          *)
(* (Reasons).  Everything that changes what a plan was made from makes it  *)
(* stale, which is what the compared hashes are for.                       *)
(***************************************************************************)
EXTENDS WorkspaceCoordination, TLAPS

Fields == {"epoch", "active", "token", "queue", "bound", "quarantined", "authority"}

Shape(s) ==
  /\ DOMAIN s = Fields
  /\ s.epoch \in [Domains -> Nat]
  /\ s.active \subseteq Admissions
  /\ DOMAIN s.token = Admissions
  /\ s.quarantined \subseteq Admissions

\* The tokens of a holder are those of its domains, and none is behind.
Tokens(s) ==
  /\ \A a \in s.active : DOMAIN s.token[a] = TokenDomains(a)
  /\ TokensCurrent(s)

Compatible(s) ==
  /\ \A a, b \in s.active : a # b => ~Conflicts(a, b)
  /\ \A a \in s.active, q \in s.quarantined :
       /\ ~LocatorsConflict(a, q)
       /\ \A k \in Caps[a], h \in Caps[q] :
            CapabilityDomain(k) = CapabilityDomain(h) => ~CapabilitiesConflict(k, h)

StateOK(s) == Shape(s) /\ Tokens(s) /\ Compatible(s)

\* From s to n no epoch falls, and who does not keep its tokens is behind.
Follows(s, n) ==
  /\ \A d \in Domains : n.epoch[d] >= s.epoch[d]
  /\ \A a \in s.active :
       \/ a \in n.active /\ n.token[a] = s.token[a]
       \/ \A d \in DOMAIN s.token[a] : n.epoch[d] > s.epoch[d]

\* Why a call was planned.
Reasons(op, who, n) ==
  /\ \A a \in coord.quarantined \ n.quarantined : op = "RECONCILE" /\ who = a
  /\ \A a \in n.active \ coord.active, b \in Admissions :
       Before(coord, b, a) => QueuedIds(a) \cap QueuedIds(b) = {}
  /\ op = "RESULT" => who \in coord.active /\ n.token = coord.token /\ PhaseIsOpen(who)

PlanShape(p) == DOMAIN p = {"op", "who", "next", "fresh"}
Fenced(p) ==
  p.op = "RESULT" =>
    LET held == p.next.token[p.who] IN
    /\ DOMAIN held \subseteq Domains
    /\ \A d \in DOMAIN held : held[d] \in Int
    /\ \/ p.who \in coord.active /\ coord.token[p.who] = held
       \/ \A d \in DOMAIN held : coord.epoch[d] > held[d]
Fresh(p) ==
  p.fresh => StateOK(p.next) /\ Follows(coord, p.next) /\ Reasons(p.op, p.who, p.next)

IInv ==
  /\ StateOK(coord)
  /\ DOMAIN plan = Clients
  /\ \A c \in Clients : plan[c] # None => PlanShape(plan[c]) /\ Fenced(plan[c]) /\ Fresh(plan[c])
-----------------------------------------------------------------------------
(* Domains and conflicts. *)

\* Every domain a token can name has an epoch (_increment_grant_domains adds its
\* row).
LEMMA TokenDomainsKnown ==
  ASSUME NEW a \in Admissions PROVE TokenDomains(a) \subseteq Domains
BY RequestAssumption DEF TokenDomains, Domains, CapabilityDomains

\* Two locators exclude each other whichever of them comes first.
LEMMA LocatorsSymmetric ==
  ASSUME NEW a \in Admissions, NEW b \in Admissions, LocatorsConflict(a, b)
  PROVE  LocatorsConflict(b, a)
BY RequestAssumption, OverlapAssumption DEF LocatorsConflict

\* Admissions exclude each other whichever of them comes first.
LEMMA ConflictsSymmetric ==
  ASSUME NEW a \in Admissions, NEW b \in Admissions, Conflicts(a, b)
  PROVE  Conflicts(b, a)
BY LocatorsSymmetric DEF Conflicts, CapabilitiesConflict

\* What is neither refused nor made to wait conflicts with no holder and with
\* no quarantine.
LEMMA AdmittedIsCompatible ==
  ASSUME NEW s, Shape(s), NEW a \in Admissions, ~Refused(s, a), ~Waits(s, a)
  PROVE  /\ \A b \in s.active : ~Conflicts(a, b) /\ ~Conflicts(b, a)
         /\ \A q \in s.quarantined :
              /\ ~LocatorsConflict(a, q)
              /\ \A k \in Caps[a], h \in Caps[q] : CapabilityDomain(k) # CapabilityDomain(h)
<1>1. ASSUME NEW b \in s.active PROVE ~Conflicts(a, b)
  BY <1>1 DEF Refused, Waits, Conflicts, CapabilitiesWait
<1>2. ASSUME NEW b \in s.active PROVE ~Conflicts(b, a)
  BY <1>1, <1>2, ConflictsSymmetric DEF Shape
<1>3. ASSUME NEW q \in s.quarantined
      PROVE  /\ ~LocatorsConflict(a, q)
             /\ \A k \in Caps[a], h \in Caps[q] : CapabilityDomain(k) # CapabilityDomain(h)
  <2>1. q \in Admissions /\ ~Quarantines(q, a)
    BY DEF Refused, Shape
  <2>2. ~LocatorsConflict(a, q)
    BY <2>1, RequestAssumption, OverlapAssumption DEF LocatorsConflict, Quarantines
  <2>3. \A k \in Caps[a], h \in Caps[q] : CapabilityDomain(k) # CapabilityDomain(h)
    BY <2>1 DEF Quarantines, CapabilityDomains
  <2> QED BY <2>2, <2>3
<1> QED BY <1>1, <1>2, <1>3
-----------------------------------------------------------------------------
(* The states that are planned. *)

\* Raising domains raises exactly these.
LEMMA RaisedEpochs ==
  ASSUME NEW e \in [Domains -> Nat], NEW ds
  PROVE  /\ Raised(e, ds) \in [Domains -> Nat]
         /\ \A d \in Domains : Raised(e, ds)[d] >= e[d]
         /\ \A d \in Domains : d \in ds => Raised(e, ds)[d] > e[d]
BY DEF Raised

\* What granting a changes (admit).
LEMMA GrantedFields ==
  ASSUME NEW s, Shape(s), NEW a \in Admissions, NEW seen
  PROVE  LET n == Granted(s, a, seen) IN
         /\ Shape(n)
         /\ n.active = s.active \cup {a}
         /\ n.epoch = Raised(s.epoch, AffectedDomains(s, a))
         /\ DOMAIN n.token[a] = TokenDomains(a)
         /\ \A b \in Admissions \ {a} : n.token[b] = s.token[b]
         /\ n.quarantined = s.quarantined
<1>1. Raised(s.epoch, AffectedDomains(s, a)) \in [Domains -> Nat]
  BY RaisedEpochs DEF Shape
<1> QED BY <1>1 DEF Granted, Shape, Fields

\* What ending admissions changes (_bump_tokens and the removal).
LEMMA RetiredFields ==
  ASSUME NEW s, Shape(s), NEW ended
  PROVE  LET n == Retired(s, ended) IN
         /\ Shape(n)
         /\ n.active = s.active \ ended
         /\ n.epoch = Raised(s.epoch, TokenDomainsOf(s, ended))
         /\ \A b \in Admissions \ ended : n.token[b] = s.token[b]
         /\ n.quarantined = s.quarantined
<1>1. Raised(s.epoch, TokenDomainsOf(s, ended)) \in [Domains -> Nat]
  BY RaisedEpochs DEF Shape
<1> QED BY <1>1 DEF Retired, Shape, Fields

\* A grant leads to a state in order: TokensCurrent is _validate_state's check of
\* the planned state.
LEMMA GrantIsOK ==
  ASSUME NEW s, StateOK(s), NEW a \in Admissions, NEW seen, a \notin s.active,
         ~Refused(s, a), ~Waits(s, a), TokensCurrent(Granted(s, a, seen))
  PROVE  StateOK(Granted(s, a, seen)) /\ Follows(s, Granted(s, a, seen))
<1> DEFINE n == Granted(s, a, seen)
<1>1. /\ Shape(n) /\ n.active = s.active \cup {a} /\ n.quarantined = s.quarantined
      /\ n.epoch = Raised(s.epoch, AffectedDomains(s, a))
      /\ DOMAIN n.token[a] = TokenDomains(a)
      /\ \A b \in Admissions \ {a} : n.token[b] = s.token[b]
  BY GrantedFields DEF StateOK
<1> HIDE DEF n
<1>2. Tokens(n)
  <2>1. TokensCurrent(n)
    BY DEF n
  <2>2. ASSUME NEW b \in n.active PROVE DOMAIN n.token[b] = TokenDomains(b)
    BY <1>1, <2>2 DEF StateOK, Tokens, Shape
  <2> QED BY <2>1, <2>2 DEF Tokens
<1>3. Compatible(n)
  <2>1. /\ \A b \in s.active : ~Conflicts(a, b) /\ ~Conflicts(b, a)
        /\ \A q \in s.quarantined :
             /\ ~LocatorsConflict(a, q)
             /\ \A k \in Caps[a], h \in Caps[q] : CapabilityDomain(k) # CapabilityDomain(h)
    BY AdmittedIsCompatible DEF StateOK
  <2>2. Compatible(s)
    BY DEF StateOK
  <2>3. \A b, c \in n.active : b # c => ~Conflicts(b, c)
    BY <1>1, <2>1, <2>2 DEF Compatible
  <2>4. ASSUME NEW b \in n.active, NEW q \in n.quarantined
        PROVE  /\ ~LocatorsConflict(b, q)
               /\ \A k \in Caps[b], h \in Caps[q] :
                    CapabilityDomain(k) = CapabilityDomain(h) => ~CapabilitiesConflict(k, h)
    <3>1. CASE b = a
      BY <1>1, <2>1, <3>1
    <3>2. CASE b # a
      BY <1>1, <2>2, <3>2 DEF Compatible
    <3> QED BY <3>1, <3>2
  <2> QED BY <2>3, <2>4 DEF Compatible
<1>4. Follows(s, n)
  <2>1. \A d \in Domains : n.epoch[d] >= s.epoch[d]
    BY <1>1, RaisedEpochs DEF StateOK, Shape
  <2>2. \A b \in s.active : b \in n.active /\ n.token[b] = s.token[b]
    BY <1>1 DEF StateOK, Shape
  <2> QED BY <2>1, <2>2 DEF Follows
<1> QED BY <1>1, <1>2, <1>3, <1>4 DEF StateOK, n

\* Ending admissions, some of which stay behind as a quarantine, does too.
LEMMA RetirementIsOK ==
  ASSUME NEW s, StateOK(s), NEW ended \in SUBSET s.active, NEW n,
         NEW kept \in SUBSET ended, Shape(n), TokensCurrent(n),
         n.active = s.active \ ended,
         n.epoch = Raised(s.epoch, TokenDomainsOf(s, ended)),
         \A b \in Admissions \ ended : n.token[b] = s.token[b],
         n.quarantined = s.quarantined \cup kept
  PROVE  StateOK(n) /\ Follows(s, n)
<1>1. Tokens(n)
  BY DEF StateOK, Tokens, Shape
<1>2. Compatible(n)
  <2>1. Compatible(s)
    BY DEF StateOK
  <2>2. \A a, b \in n.active : a # b => ~Conflicts(a, b)
    BY <2>1 DEF Compatible
  <2>3. ASSUME NEW a \in n.active, NEW q \in n.quarantined
        PROVE  /\ ~LocatorsConflict(a, q)
               /\ \A k \in Caps[a], h \in Caps[q] :
                    CapabilityDomain(k) = CapabilityDomain(h) => ~CapabilitiesConflict(k, h)
    <3>1. CASE q \in s.quarantined
      BY <2>1, <3>1 DEF Compatible
    <3>2. CASE q \in kept
      <4>1. ~Conflicts(a, q)
        BY <2>1, <3>2 DEF Compatible
      <4> QED BY <4>1 DEF Conflicts
    <3> QED BY <3>1, <3>2
  <2> QED BY <2>2, <2>3 DEF Compatible
<1>3. Follows(s, n)
  <2>1. \A d \in Domains : n.epoch[d] >= s.epoch[d]
    BY RaisedEpochs DEF StateOK, Shape
  <2>2. ASSUME NEW a \in s.active, a \in ended, NEW d \in DOMAIN s.token[a]
        PROVE  n.epoch[d] > s.epoch[d]
    <3>1. a \in Admissions /\ d \in Domains
      BY <2>2, TokenDomainsKnown DEF StateOK, Shape, Tokens
    <3>2. d \in TokenDomainsOf(s, ended)
      BY <2>2 DEF TokenDomainsOf
    <3> QED BY <3>1, <3>2, RaisedEpochs DEF StateOK, Shape
  <2>3. \A a \in s.active : a \notin ended => a \in n.active /\ n.token[a] = s.token[a]
    BY DEF StateOK, Shape
  <2> QED BY <2>1, <2>2, <2>3 DEF Follows
<1> QED BY <1>1, <1>2, <1>3 DEF StateOK

\* A plan that leaves holders, tokens and epochs alone, and adds no quarantine.
LEMMA SameHolders ==
  ASSUME NEW s, StateOK(s), NEW n, Shape(n), n.active = s.active, n.epoch = s.epoch,
         n.token = s.token, n.quarantined \subseteq s.quarantined
  PROVE  StateOK(n) /\ Follows(s, n)
<1>1. Tokens(n)
  BY DEF StateOK, Tokens, TokensCurrent
<1>2. Compatible(n)
  BY DEF StateOK, Compatible
<1>3. Follows(s, n)
  BY DEF StateOK, Shape, Follows
<1> QED BY <1>1, <1>2, <1>3 DEF StateOK
-----------------------------------------------------------------------------
(* The invariant. *)

LEMMA InitIInv == Init => IInv
<1> SUFFICES ASSUME Init PROVE IInv
  OBVIOUS
<1>1. Shape(coord)
  BY DEF Init, Shape, Fields
<1>2. Tokens(coord) /\ Compatible(coord)
  BY DEF Init, Tokens, TokensCurrent, Compatible
<1>3. DOMAIN plan = Clients /\ \A c \in Clients : plan[c] = None
  BY DEF Init
<1> QED BY <1>1, <1>2, <1>3 DEF IInv, StateOK

\* A call keeps the invariant if what it plans is in order, follows on the state
\* it was read from, and has its reasons there.
LEMMA PlanningIsOK ==
  ASSUME IInv, NEW c \in Clients, NEW op, NEW a, NEW n, Plans(c, op, a, n),
         StateOK(n), Follows(coord, n), Reasons(op, a, n),
         op = "RESULT" => a \in Admissions
  PROVE  IInv'
<1> DEFINE p == [op |-> op, who |-> a, next |-> n, fresh |-> TRUE]
<1>1. coord' = coord /\ control' = control /\ plan' = [plan EXCEPT ![c] = p]
  BY DEF Plans
<1>2. PlanShape(p) /\ Fresh(p)
  BY DEF PlanShape, Fresh
<1>3. Fenced(p)
  <2> SUFFICES ASSUME op = "RESULT"
               PROVE  /\ DOMAIN n.token[a] \subseteq Domains
                      /\ \A d \in DOMAIN n.token[a] : n.token[a][d] \in Int
                      /\ a \in coord.active /\ coord.token[a] = n.token[a]
    BY DEF Fenced
  <2>1. a \in coord.active /\ n.token = coord.token
    BY DEF Reasons
  <2>2. a \in Admissions /\ DOMAIN coord.token[a] = TokenDomains(a)
    BY <2>1 DEF IInv, StateOK, Shape, Tokens
  <2>3. \A d \in DOMAIN coord.token[a] : d \in Domains /\ coord.token[a][d] = coord.epoch[d]
    BY <2>1, <2>2, TokenDomainsKnown DEF IInv, StateOK, Tokens, TokensCurrent
  <2>4. coord.epoch \in [Domains -> Nat]
    BY DEF IInv, StateOK, Shape
  <2> QED BY <2>1, <2>3, <2>4
<1> HIDE DEF p
<1>4. ASSUME NEW x \in Clients, plan'[x] # None
      PROVE  PlanShape(plan'[x]) /\ Fenced(plan'[x]) /\ Fresh(plan'[x])
  <2>1. CASE x = c
    BY <1>1, <1>2, <1>3, <2>1 DEF IInv
  <2>2. CASE x # c
    BY <1>1, <1>4, <2>2 DEF IInv
  <2> QED BY <2>1, <2>2
<1>5. \A q : (PlanShape(q)' <=> PlanShape(q)) /\ (Fenced(q)' <=> Fenced(q)) /\ (Fresh(q)' <=> Fresh(q))
  BY <1>1 DEF PlanShape, Fenced, Fresh, Follows, Reasons, PhaseIsOpen
<1>6. StateOK(coord)'
  BY <1>1 DEF IInv, StateOK, Shape, Tokens, TokensCurrent, Compatible
<1>7. DOMAIN plan' = Clients
  BY <1>1 DEF IInv
<1> QED BY <1>4, <1>5, <1>6, <1>7 DEF IInv

\* The reasons of a call that only removes holders, or leaves them alone, are
\* that it forgets no quarantine.
LEMMA NobodyAdmitted ==
  ASSUME NEW op, NEW a, NEW n, n.active \subseteq coord.active, op # "RESULT",
         coord.quarantined \subseteq n.quarantined
  PROVE  Reasons(op, a, n)
BY DEF Reasons

LEMMA AdmitKeeps ==
  ASSUME IInv, NEW c \in Clients, NEW a \in Admissions, Admit(c, a)
  PROVE  IInv'
<1> DEFINE seen == edition[Phase[a]]
<1>1. StateOK(coord) /\ Shape(coord) /\ ~Refused(coord, a) /\ a \notin coord.active
  BY DEF Admit, IInv, StateOK
<1>2. CASE Plans(c, "QUEUE", a, Queued(coord, a, seen))
  <2> DEFINE n == Queued(coord, a, seen)
  <2>1. /\ Shape(n) /\ n.active = coord.active /\ n.epoch = coord.epoch
        /\ n.token = coord.token /\ n.quarantined = coord.quarantined
    BY <1>1 DEF Queued, Shape, Fields
  <2> HIDE DEF n
  <2>2. StateOK(n) /\ Follows(coord, n) /\ Reasons("QUEUE", a, n)
    BY <1>1, <2>1, SameHolders, NobodyAdmitted
  <2>3. Plans(c, "QUEUE", a, n)
    BY <1>2 DEF n
  <2> QED BY <2>2, <2>3, PlanningIsOK
<1>3. CASE ~Waits(coord, a) /\ Plans(c, "GRANT", a, Granted(coord, a, seen))
  <2> DEFINE n == Granted(coord, a, seen)
  <2>1. TokensCurrent(n)
    BY <1>3 DEF Plans
  <2>2. StateOK(n) /\ Follows(coord, n)
    BY <1>1, <1>3, <2>1, GrantIsOK
  <2>3. n.active = coord.active \cup {a} /\ n.quarantined = coord.quarantined
    BY <1>1, GrantedFields
  <2> HIDE DEF n, seen
  <2>4. \A b \in Admissions : Before(coord, b, a) => QueuedIds(a) \cap QueuedIds(b) = {}
    BY <1>3 DEF Waits
  <2>5. Reasons("GRANT", a, n)
    BY <2>3, <2>4 DEF Reasons
  <2>6. Plans(c, "GRANT", a, n)
    BY <1>3 DEF n
  <2> QED BY <2>2, <2>5, <2>6, PlanningIsOK
<1> QED BY <1>2, <1>3 DEF Admit

\* Calls that plan the end of admissions.
LEMMA RetiringKeeps ==
  ASSUME IInv, NEW c \in Clients, NEW a, NEW n, NEW op, NEW ended \in SUBSET coord.active,
         NEW kept \in SUBSET ended, Plans(c, op, a, n), op # "RESULT",
         Shape(n), n.active = Retired(coord, ended).active,
         n.epoch = Retired(coord, ended).epoch, n.token = Retired(coord, ended).token,
         n.quarantined = coord.quarantined \cup kept
  PROVE  IInv'
<1>1. StateOK(coord) /\ Shape(coord)
  BY DEF IInv, StateOK
<1>2. /\ n.active = coord.active \ ended
      /\ n.epoch = Raised(coord.epoch, TokenDomainsOf(coord, ended))
      /\ \A b \in Admissions \ ended : n.token[b] = coord.token[b]
  <2> DEFINE r == Retired(coord, ended)
  <2>1. /\ r.active = coord.active \ ended
        /\ r.epoch = Raised(coord.epoch, TokenDomainsOf(coord, ended))
        /\ \A b \in Admissions \ ended : r.token[b] = coord.token[b]
    BY <1>1, RetiredFields
  <2> HIDE DEF r
  <2>2. n.active = r.active /\ n.epoch = r.epoch /\ n.token = r.token
    BY DEF r
  <2> QED BY <2>1, <2>2
<1>3. TokensCurrent(n)
  BY DEF Plans
<1>4. StateOK(n) /\ Follows(coord, n)
  BY <1>1, <1>2, <1>3, RetirementIsOK
<1>5. Reasons(op, a, n)
  BY <1>2, NobodyAdmitted
<1> QED BY <1>4, <1>5, PlanningIsOK

LEMMA ReleaseKeeps ==
  ASSUME IInv, NEW c \in Clients, NEW a \in Admissions, Release(c, a)
  PROVE  IInv'
<1> DEFINE n == Retired(coord, {a})
<1>1. Shape(coord) /\ {a} \in SUBSET coord.active
  BY DEF Release, IInv, StateOK
<1>2. Shape(n) /\ n.quarantined = coord.quarantined \cup {}
  BY <1>1, RetiredFields
<1>3. Plans(c, "RELEASE", a, n)
  BY DEF Release
<1>4. n.active = Retired(coord, {a}).active /\ n.epoch = Retired(coord, {a}).epoch
      /\ n.token = Retired(coord, {a}).token
  OBVIOUS
<1> HIDE DEF n
<1>5. {} \in SUBSET {a} /\ "RELEASE" # "RESULT"
  OBVIOUS
<1> QED BY <1>1, <1>2, <1>3, <1>4, <1>5, RetiringKeeps

LEMMA ReapKeeps ==
  ASSUME IInv, NEW c \in Clients, ReapExpired(c)
  PROVE  IInv'
<1> DEFINE expired == lapsed \cap coord.active
           kept == {a \in expired : MustReconcile(a)}
           r == Retired(coord, expired)
           n == [r EXCEPT !.quarantined = @ \cup kept]
<1>1. Shape(coord) /\ expired \in SUBSET coord.active
  BY DEF IInv, StateOK
<1>2. Shape(r) /\ r.quarantined = coord.quarantined
  BY <1>1, RetiredFields
<1>3. Plans(c, "REAP", None, n)
  BY DEF ReapExpired
<1>4. kept \in SUBSET expired
  OBVIOUS
<1>5. kept \subseteq Admissions
  BY <1>1 DEF Shape
<1>6. Shape(n) /\ n.quarantined = coord.quarantined \cup kept
  <2> HIDE DEF kept, r
  <2> QED BY <1>2, <1>5 DEF Shape, Fields
<1>7. n.active = r.active /\ n.epoch = r.epoch /\ n.token = r.token
  <2> HIDE DEF kept, r
  <2> QED BY <1>2 DEF Shape, Fields
<1>8. /\ n.active = Retired(coord, expired).active
      /\ n.epoch = Retired(coord, expired).epoch /\ n.token = Retired(coord, expired).token
  <2> HIDE DEF n, expired
  <2> QED BY <1>7 DEF r
<1> HIDE DEF n, r, kept, expired
<1> QED BY <1>1, <1>3, <1>4, <1>6, <1>8, RetiringKeeps

LEMMA UnknownKeeps ==
  ASSUME IInv, NEW c \in Clients, NEW a \in Admissions, RecordUnknown(c, a)
  PROVE  IInv'
<1> DEFINE r == Retired(coord, {a})
           n == [r EXCEPT !.quarantined = @ \cup {a}]
           m == [r EXCEPT !.authority = a]
<1>1. Shape(coord) /\ {a} \in SUBSET coord.active
  BY DEF RecordUnknown, IInv, StateOK
<1>2. Shape(r) /\ r.quarantined = coord.quarantined
  BY <1>1, RetiredFields
<1>3. Plans(c, "UNKNOWN", a, n) \/ Plans(c, "AUTHORITY", a, m)
  BY DEF RecordUnknown
<1>4. /\ Shape(n) /\ n.quarantined = coord.quarantined \cup {a}
      /\ n.active = r.active /\ n.epoch = r.epoch /\ n.token = r.token
  <2> HIDE DEF r
  <2> QED BY <1>2 DEF Shape, Fields
<1>5. /\ Shape(m) /\ m.quarantined = coord.quarantined \cup {}
      /\ m.active = r.active /\ m.epoch = r.epoch /\ m.token = r.token
  <2> HIDE DEF r
  <2> QED BY <1>2 DEF Shape, Fields
<1> HIDE DEF n, m
<1>6. {} \in SUBSET {a} /\ {a} \in SUBSET {a} /\ "UNKNOWN" # "RESULT" /\ "AUTHORITY" # "RESULT"
  OBVIOUS
<1>7. CASE Plans(c, "UNKNOWN", a, n)
  BY <1>1, <1>4, <1>6, <1>7, RetiringKeeps
<1>8. CASE Plans(c, "AUTHORITY", a, m)
  BY <1>1, <1>5, <1>6, <1>8, RetiringKeeps
<1> QED BY <1>3, <1>7, <1>8

LEMMA ReconcileKeeps ==
  ASSUME IInv, NEW c \in Clients, NEW a \in Admissions, ReconcileQuarantine(c, a)
  PROVE  IInv'
<1> DEFINE n == [coord EXCEPT !.quarantined = @ \ {a}]
           m == [coord EXCEPT !.authority = None]
<1>1. StateOK(coord) /\ Shape(coord)
  BY DEF IInv, StateOK
<1>2. Plans(c, "RECONCILE", a, n) \/ Plans(c, "REOPEN", a, m)
  BY DEF ReconcileQuarantine
<1>3. /\ Shape(n) /\ n.active = coord.active /\ n.epoch = coord.epoch
      /\ n.token = coord.token /\ n.quarantined = coord.quarantined \ {a}
  BY <1>1 DEF Shape, Fields
<1>4. /\ Shape(m) /\ m.active = coord.active /\ m.epoch = coord.epoch
      /\ m.token = coord.token /\ m.quarantined = coord.quarantined
  BY <1>1 DEF Shape, Fields
<1> HIDE DEF n, m
<1>5. CASE Plans(c, "RECONCILE", a, n)
  <2>1. StateOK(n) /\ Follows(coord, n)
    BY <1>1, <1>3, SameHolders
  <2>2. Reasons("RECONCILE", a, n)
    BY <1>3 DEF Reasons
  <2> QED BY <1>5, <2>1, <2>2, PlanningIsOK
<1>6. CASE Plans(c, "REOPEN", a, m)
  <2>1. StateOK(m) /\ Follows(coord, m)
    BY <1>1, <1>4, SameHolders
  <2>2. Reasons("REOPEN", a, m)
    BY <1>4 DEF Reasons
  <2> QED BY <1>6, <2>1, <2>2, PlanningIsOK
<1> QED BY <1>2, <1>5, <1>6

LEMMA UseKeeps ==
  ASSUME IInv, NEW c \in Clients, NEW a \in Admissions, Renew(c, a) \/ RecordResult(c, a)
  PROVE  IInv'
<1>1. StateOK(coord) /\ Shape(coord)
  BY DEF IInv, StateOK
<1>2. StateOK(coord) /\ Follows(coord, coord)
  BY <1>1, SameHolders
<1>3. CASE Renew(c, a)
  <2>1. Plans(c, "RENEW", a, coord) /\ Reasons("RENEW", a, coord)
    BY <1>3 DEF Renew, Reasons
  <2> QED BY <1>2, <2>1, PlanningIsOK
<1>4. CASE RecordResult(c, a)
  <2>1. Plans(c, "RESULT", a, coord) /\ Reasons("RESULT", a, coord)
    BY <1>4 DEF RecordResult, VerifyAdmission, Reasons
  <2> QED BY <1>2, <2>1, PlanningIsOK
<1> QED BY <1>3, <1>4

\* Whatever changes coordination or the control file makes every plan stale.
LEMMA NothingFresh ==
  ASSUME IInv, NEW c, NEW x \in Clients, OthersStale(c)[x] # None
  PROVE  LET p == OthersStale(c)[x] IN
         /\ plan[x] # None /\ PlanShape(p) /\ ~p.fresh
         /\ p.op = plan[x].op /\ p.who = plan[x].who /\ p.next = plan[x].next
<1>1. plan[x] # None /\ OthersStale(c)[x] = [plan[x] EXCEPT !.fresh = FALSE]
  BY DEF OthersStale
<1>2. PlanShape(plan[x])
  BY <1>1 DEF IInv
<1> QED BY <1>1, <1>2 DEF PlanShape

\* Who was fenced, or held what it had, is so after a step that follows.
LEMMA FencedFollows ==
  ASSUME IInv, NEW x \in Clients, plan[x] # None, plan'[x] # None,
         plan'[x].op = plan[x].op, plan'[x].who = plan[x].who, plan'[x].next = plan[x].next,
         StateOK(coord'), Follows(coord, coord')
  PROVE  Fenced(plan[x])' 
<1> DEFINE p == plan[x]
           held == p.next.token[p.who]
<1> SUFFICES ASSUME p.op = "RESULT"
             PROVE  /\ DOMAIN held \subseteq Domains
                    /\ \A d \in DOMAIN held : held[d] \in Int
                    /\ \/ p.who \in coord'.active /\ coord'.token[p.who] = held
                       \/ \A d \in DOMAIN held : coord'.epoch[d] > held[d]
  BY DEF Fenced
<1>1. Fenced(p)
  BY DEF IInv
<1>2. DOMAIN held \subseteq Domains /\ \A d \in DOMAIN held : held[d] \in Int
  BY <1>1 DEF Fenced
<1>3. /\ coord.epoch \in [Domains -> Nat] /\ coord'.epoch \in [Domains -> Nat]
      /\ \A d \in Domains : coord'.epoch[d] >= coord.epoch[d]
  BY DEF IInv, StateOK, Shape, Follows
<1>4. CASE p.who \in coord.active /\ coord.token[p.who] = held
  <2>1. \A d \in DOMAIN held : coord.epoch[d] = held[d]
    BY <1>4 DEF IInv, StateOK, Tokens, TokensCurrent
  <2>2. \/ p.who \in coord'.active /\ coord'.token[p.who] = held
        \/ \A d \in DOMAIN held : coord'.epoch[d] > coord.epoch[d]
    BY <1>4 DEF Follows
  <2> HIDE DEF held, p
  <2> QED BY <1>2, <2>1, <2>2
<1>5. CASE \A d \in DOMAIN held : coord.epoch[d] > held[d]
  <2> HIDE DEF held, p
  <2> QED BY <1>2, <1>3, <1>5
<1> QED BY <1>1, <1>2, <1>4, <1>5 DEF Fenced

\* A step that moves coordination along and leaves no plan fresh keeps the
\* invariant.
LEMMA StaleKeeps ==
  ASSUME IInv, NEW c, plan' = OthersStale(c), StateOK(coord'), Follows(coord, coord')
  PROVE  IInv'
<1>1. DOMAIN plan' = Clients
  BY DEF OthersStale
<1>2. ASSUME NEW x \in Clients, plan'[x] # None
      PROVE  PlanShape(plan'[x]) /\ Fenced(plan[x])' /\ ~plan'[x].fresh
  <2>1. /\ plan[x] # None /\ PlanShape(plan'[x]) /\ ~plan'[x].fresh
        /\ plan'[x].op = plan[x].op /\ plan'[x].who = plan[x].who /\ plan'[x].next = plan[x].next
    BY <1>2, NothingFresh
  <2> QED BY <1>2, <2>1, FencedFollows
<1> QED BY <1>1, <1>2 DEF IInv, Fresh, PlanShape, StateOK, Shape, Tokens, TokensCurrent, Compatible

LEMMA CommitFollows ==
  ASSUME IInv, NEW c \in Clients, Commit(c)
  PROVE  StateOK(coord') /\ Follows(coord, coord') /\ Reasons(plan[c].op, plan[c].who, coord')
BY DEF Commit, IInv, Fresh

LEMMA NextKeeps ==
  ASSUME IInv, [Next]_vars
  PROVE  IInv'
<1>1. ASSUME NEW c \in Clients, Calls(c) PROVE IInv'
  BY <1>1, AdmitKeeps, UseKeeps, ReleaseKeeps, UnknownKeeps, ReconcileKeeps, ReapKeeps DEF Calls
<1>2. ASSUME NEW c \in Clients, Commit(c) PROVE IInv'
  <2>1. plan' = OthersStale(c)
    BY <1>2 DEF Commit
  <2> QED BY <1>2, <2>1, CommitFollows, StaleKeeps
<1>3. ASSUME NEW m \in Commanders, WriteCommand(m) PROVE IInv'
  <2>1. plan' = OthersStale(None) /\ coord' = coord
    BY <1>3 DEF WriteCommand
  <2>2. StateOK(coord) /\ Follows(coord, coord)
    BY SameHolders DEF IInv, StateOK
  <2> QED BY <2>1, <2>2, StaleKeeps
<1>4. ASSUME UNCHANGED <<coord, control, plan>> PROVE IInv'
  BY <1>4 DEF IInv, StateOK, Shape, Tokens, TokensCurrent, Compatible, PlanShape, Fenced,
              Fresh, Follows, Reasons, PhaseIsOpen
<1>5. ASSUME NEW a \in Admissions, Expire(a) PROVE IInv'
  BY <1>4, <1>5 DEF Expire
<1>6. ASSUME NEW m \in Commanders, NEW p \in Phases, ReadForPause(m, p) \/ ReadForResume(m, p)
      PROVE  IInv'
  BY <1>4, <1>6 DEF ReadForPause, ReadForResume
<1>7. ASSUME NEW p \in Phases, EditPhase(p) PROVE IInv'
  BY <1>4, <1>7 DEF EditPhase
<1>8. CASE UNCHANGED vars
  BY <1>4, <1>8 DEF vars
<1> QED BY <1>1, <1>2, <1>3, <1>5, <1>6, <1>7, <1>8 DEF Next

THEOREM IInvHolds == Spec => []IInv
BY InitIInv, NextKeeps, PTL DEF Spec
-----------------------------------------------------------------------------
(* What follows. *)

LEMMA IInvImplies == IInv => ActiveDisjoint /\ QuarantineHolds /\ TokensFenced
<1> SUFFICES ASSUME IInv PROVE ActiveDisjoint /\ QuarantineHolds /\ TokensFenced
  OBVIOUS
<1>1. ActiveDisjoint /\ QuarantineHolds
  BY DEF IInv, StateOK, Compatible, ActiveDisjoint, QuarantineHolds
<1>2. TokensFenced
  BY DEF IInv, StateOK, Tokens, Fenced, TokensFenced
<1> QED BY <1>1, <1>2

\* Whatever is admitted at one time is compatible.
THEOREM ActiveDisjointHolds == Spec => []ActiveDisjoint
BY IInvHolds, IInvImplies, PTL

\* Nothing is admitted on top of an unknown effect.
THEOREM QuarantineHoldsAlways == Spec => []QuarantineHolds
BY IInvHolds, IInvImplies, PTL

\* A holder whose admission ended is behind in every domain of its tokens.
THEOREM TokensFencedHolds == Spec => []TokensFenced
BY IInvHolds, IInvImplies, PTL

\* Only a commit changes coordination.
LEMMA ChangeIsCommit ==
  ASSUME [Next]_vars, coord' # coord
  PROVE  \E c \in Clients : Commit(c)
<1>1. ~(\E c \in Clients : Calls(c))
  BY ZenonT(60) DEF Calls, Admit, Renew, Release, RecordUnknown, ReconcileQuarantine, RecordResult,
         ReapExpired, Plans
<1> QED BY <1>1 DEF Next, vars, Expire, ReadForPause, ReadForResume, WriteCommand, EditPhase

LEMMA StepProperties ==
  ASSUME IInv, [Next]_vars
  PROVE  /\ \A a \in coord.quarantined \ coord'.quarantined :
              \E c \in Clients : Commit(c) /\ plan[c].op = "RECONCILE" /\ plan[c].who = a
         /\ \A a \in coord'.active \ coord.active, b \in Admissions :
              Before(coord, b, a) => QueuedIds(a) \cap QueuedIds(b) = {}
         /\ \A c \in Clients : Commit(c) /\ plan[c].op = "RESULT" =>
              LET a == plan[c].who IN
              /\ a \in coord.active
              /\ coord.token[a] = plan[c].next.token[a]
              /\ PhaseIsOpen(a)
<1>1. CASE coord' # coord
  <2>1. PICK c \in Clients : Commit(c)
    BY <1>1, ChangeIsCommit
  <2>2. Reasons(plan[c].op, plan[c].who, coord')
    BY <2>1, CommitFollows
  <2>3. /\ \A a \in coord.quarantined \ coord'.quarantined :
              plan[c].op = "RECONCILE" /\ plan[c].who = a
        /\ \A a \in coord'.active \ coord.active, b \in Admissions :
              Before(coord, b, a) => QueuedIds(a) \cap QueuedIds(b) = {}
    BY <2>2 DEF Reasons
  <2>4. \A a \in coord.quarantined \ coord'.quarantined :
          \E x \in Clients : Commit(x) /\ plan[x].op = "RECONCILE" /\ plan[x].who = a
    BY <2>1, <2>3
  <2> HIDE <2>1
  <2>5. ASSUME NEW x \in Clients, Commit(x), plan[x].op = "RESULT"
        PROVE  /\ plan[x].who \in coord.active /\ PhaseIsOpen(plan[x].who)
               /\ coord.token[plan[x].who] = plan[x].next.token[plan[x].who]
    <3>1. Reasons(plan[x].op, plan[x].who, coord') /\ coord' = plan[x].next
      BY <2>5, CommitFollows DEF Commit
    <3> QED BY <2>5, <3>1 DEF Reasons
  <2> QED BY <2>3, <2>4, <2>5
<1>2. CASE coord' = coord
  <2>1. ASSUME NEW x \in Clients, Commit(x), plan[x].op = "RESULT"
        PROVE  /\ plan[x].who \in coord.active /\ PhaseIsOpen(plan[x].who)
               /\ coord.token[plan[x].who] = plan[x].next.token[plan[x].who]
    <3>1. Reasons(plan[x].op, plan[x].who, coord') /\ coord' = plan[x].next
      BY <2>1, CommitFollows DEF Commit
    <3> QED BY <2>1, <3>1 DEF Reasons
  <2> QED BY <1>2, <2>1
<1> QED BY <1>1, <1>2

\* A quarantine ends by its own reconciliation and by nothing else.
THEOREM UnknownIsKeptHolds == Spec => UnknownIsKept
<1>1. IInv /\ [Next]_vars =>
        [\A a \in coord.quarantined \ coord'.quarantined :
           \E c \in Clients : Commit(c) /\ plan[c].op = "RECONCILE" /\ plan[c].who = a]_vars
  BY StepProperties
<1> QED BY <1>1, IInvHolds, PTL DEF Spec, UnknownIsKept

\* A result is recorded only under an admission that is still what it was.
THEOREM ResultUnderAuthorityHolds == Spec => ResultUnderAuthority
<1>1. IInv /\ [Next]_vars =>
        [\A c \in Clients : Commit(c) /\ plan[c].op = "RESULT" =>
           LET a == plan[c].who IN
           /\ a \in coord.active
           /\ coord.token[a] = plan[c].next.token[a]
           /\ PhaseIsOpen(a)]_vars
  BY StepProperties
<1> QED BY <1>1, IInvHolds, PTL DEF Spec, ResultUnderAuthority

\* Nobody overtakes an earlier request for the same queued capability.
THEOREM QueueIsFairHolds == Spec => QueueIsFair
<1>1. IInv /\ [Next]_vars =>
        [\A a \in coord'.active \ coord.active, b \in Admissions :
           Before(coord, b, a) => QueuedIds(a) \cap QueuedIds(b) = {}]_vars
  BY StepProperties
<1> QED BY <1>1, IInvHolds, PTL DEF Spec, QueueIsFair
=============================================================================
