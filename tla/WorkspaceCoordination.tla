----------------------- MODULE WorkspaceCoordination ------------------------
(***************************************************************************)
(* Resource admissions (workspace_coordination.py): agents that share a    *)
(* workspace ask for places (typed locators) and capabilities, hold them   *)
(* under fencing epochs until they release them or expire, wait for queued *)
(* capabilities, and leave a quarantine behind when an effect is unknown.  *)
(*                                                                         *)
(* A call reads the coordination state, computes the next one and commits  *)
(* it by a transaction that compares the hashes of what was read.  Reading *)
(* and committing are separate steps here; the transaction itself is one   *)
(* (WorkspaceTransaction shows what that takes).  plan[c] is the call of   *)
(* client c in between.  The clock and the owner's edits of a phase-control *)
(* file are in no compared hash.                                           *)
(*                                                                         *)
(* The phase commands of long_workspace.py and the recording of results    *)
(* are here as far as they touch coordination: they read it, rely on it,   *)
(* and write the workspace control file.                                   *)
(***************************************************************************)
EXTENDS Integers, Sequences

CONSTANTS
  Admissions,  \* admission ids, each with one request under it
  Phases, Phase,      \* Phase[a]: the phase a's request names
  Places, Overlap,    \* pairs of places that are equal, nested or aliases
  Writes, Reads,      \* the places of a's locators
  Caps,        \* a's capabilities: [id, mode, fenceable, key]
  Fold,        \* a capability id without its case
  NoKey,       \* the key of a capability that needs no isolation
  Clients, Commanders,
  None,
  MaxEpoch,    \* bound: grants of one domain
  MaxEdits     \* bound: changes of one phase-control file

CapabilityDomain(k) == <<Fold[k.id], k.key>>
CapabilityDomains(a) == {CapabilityDomain(k) : k \in Caps[a]}
Domains == Places \cup UNION {CapabilityDomains(a) : a \in Admissions}

ASSUME RequestAssumption ==
  /\ Phase \in [Admissions -> Phases]
  /\ Writes \in [Admissions -> SUBSET Places]
  /\ Reads \in [Admissions -> SUBSET Places]
  /\ None \notin Admissions
  /\ \A a \in Admissions : \A k \in Caps[a] : (k.mode = "ISOLATE_REQUIRED") <=> (k.key # NoKey)
ASSUME OverlapAssumption ==
  \A p, q \in Places : /\ <<p, p>> \in Overlap
                       /\ <<p, q>> \in Overlap => <<q, p>> \in Overlap

VARIABLES
  coord,    \* runtime/workspace_coordination.json
  control,  \* runtime/workspace_control.json: phase statuses and result bindings
  edition,  \* edition[p]: which bytes the control file of phase p has
  lapsed,   \* the admissions and queued requests whose expires_at has passed
  plan,     \* plan[c]: the call client c has planned and not committed
  command   \* command[m]: the phase command that m has read for and not written

vars == <<coord, control, edition, lapsed, plan, command>>

NoTokens == <<>>
Filed(s) == s.active \cup {s.queue[i] : i \in DOMAIN s.queue}

Init ==
  /\ coord = [epoch |-> [d \in Domains |-> 0], active |-> {},
              token |-> [a \in Admissions |-> NoTokens],
              queue |-> <<>>, bound |-> [a \in Admissions |-> 0],
              quarantined |-> {}, authority |-> None]
  /\ control = [status |-> [p \in Phases |-> "OPEN"], results |-> {}]
  /\ edition = [p \in Phases |-> 0]
  /\ lapsed = {}
  /\ plan = [c \in Clients |-> None]
  /\ command = [m \in Commanders |-> None]
-----------------------------------------------------------------------------
(* Conflicts. *)

LocatorsConflict(a, b) ==
  \E p \in Writes[a] \cup Reads[a], q \in Writes[b] \cup Reads[b] :
    <<p, q>> \in Overlap /\ (p \in Writes[a] \/ q \in Writes[b])

\* Two capabilities that exclude each other, and those of them that make the
\* later request wait instead of refusing it.
CapabilitiesConflict(k, h) ==
  /\ k.id = h.id
  /\ ~(k.mode = "SHARED" /\ h.mode = "SHARED")
  /\ ~(k.mode = "ISOLATE_REQUIRED" /\ h.mode = "ISOLATE_REQUIRED" /\ k.key # h.key)
CapabilitiesWait(k, h) == CapabilitiesConflict(k, h) /\ "QUEUED" \in {k.mode, h.mode}

Conflicts(a, b) ==
  LocatorsConflict(a, b) \/ \E k \in Caps[a], h \in Caps[b] : CapabilitiesConflict(k, h)

\* A quarantine keeps its places as if they were written, and its capabilities by
\* their domains.
QuarantinesWritten(q, a) ==   \* mutant: what the quarantined admission read is free
  \/ \E p \in Writes[q], r \in Writes[a] \cup Reads[a] : <<p, r>> \in Overlap
  \/ CapabilityDomains(q) \cap CapabilityDomains(a) # {}
Quarantines(q, a) ==
  \/ \E p \in Writes[q] \cup Reads[q], r \in Writes[a] \cup Reads[a] : <<p, r>> \in Overlap
  \/ CapabilityDomains(q) \cap CapabilityDomains(a) # {}

RefusedToWriters(s, a) ==   \* mutant: a reader is not held against a writer
  \/ s.authority # None
  \/ \E q \in s.quarantined : Quarantines(q, a)
  \/ \E b \in s.active :
       \/ Writes[a] # {} /\ LocatorsConflict(a, b)
       \/ \E k \in Caps[a], h \in Caps[b] : CapabilitiesConflict(k, h) /\ ~CapabilitiesWait(k, h)
Refused(s, a) ==
  \/ s.authority # None
  \/ \E q \in s.quarantined : Quarantines(q, a)
  \/ \E b \in s.active :
       \/ LocatorsConflict(a, b)
       \/ \E k \in Caps[a], h \in Caps[b] : CapabilitiesConflict(k, h) /\ ~CapabilitiesWait(k, h)

QueuedIds(a) == {k.id : k \in {k \in Caps[a] : k.mode = "QUEUED"}}
Before(s, b, a) ==
  \E i \in DOMAIN s.queue : /\ s.queue[i] = b
                            /\ \A j \in 1..i : s.queue[j] # a
WaitsForHolders(s, a) ==   \* mutant: without the queue's order
  \E b \in s.active : \E k \in Caps[a], h \in Caps[b] : CapabilitiesWait(k, h)
Waits(s, a) ==
  \/ \E b \in s.active : \E k \in Caps[a], h \in Caps[b] : CapabilitiesWait(k, h)
  \/ \E b \in Admissions : Before(s, b, a) /\ QueuedIds(a) \cap QueuedIds(b) # {}
-----------------------------------------------------------------------------
(* The next coordination state. *)

TokenDomains(a) ==
  Writes[a] \cup {CapabilityDomain(k) : k \in {k \in Caps[a] : k.mode # "SHARED"}}

\* Domains with a row (an epoch) that overlap with a's are raised with them.
AffectedDomains(s, a) ==
  TokenDomains(a) \cup {p \in Places : s.epoch[p] > 0 /\ \E q \in Writes[a] : <<q, p>> \in Overlap}

Raised(e, ds) == [d \in DOMAIN e |-> IF d \in ds THEN e[d] + 1 ELSE e[d]]

Unqueued(q, a) == SelectSeq(q, LAMBDA b : b # a)

Granted(s, a, seen) ==
  LET e == Raised(s.epoch, AffectedDomains(s, a)) IN
  [s EXCEPT !.epoch = e,
            !.active = @ \cup {a},
            !.token[a] = [d \in TokenDomains(a) |-> e[d]],
            !.queue = Unqueued(@, a),
            !.bound[a] = seen]

Queued(s, a, seen) == [s EXCEPT !.queue = Append(@, a), !.bound[a] = seen]

\* No domain has two holders, so that each is raised once.
TokenDomainsOf(s, as) == UNION {DOMAIN s.token[a] : a \in as}

RetiredUnraised(s, ended) ==   \* mutant: the epochs stay
  [s EXCEPT !.active = @ \ ended,
            !.token = [a \in Admissions |-> IF a \in ended THEN NoTokens ELSE @[a]],
            !.bound = [a \in Admissions |-> IF a \in ended THEN 0 ELSE @[a]]]
Retired(s, ended) ==
  [s EXCEPT !.epoch = Raised(@, TokenDomainsOf(s, ended)),
            !.active = @ \ ended,
            !.token = [a \in Admissions |-> IF a \in ended THEN NoTokens ELSE @[a]],
            !.bound = [a \in Admissions |-> IF a \in ended THEN 0 ELSE @[a]]]

\* What _validate_state says of a state about to be written.
TokensCurrent(s) == \A a \in s.active : \A d \in DOMAIN s.token[a] : s.epoch[d] = s.token[a][d]
-----------------------------------------------------------------------------
(* Calls of the coordination program, up to what they plan to commit.        *)

Free(c) == plan[c] # None => ~plan[c].fresh
Plans(c, op, a, next) ==
  /\ Free(c)
  /\ TokensCurrent(next)
  /\ plan' = [plan EXCEPT ![c] = [op |-> op, who |-> a, next |-> next, fresh |-> TRUE]]
  /\ UNCHANGED <<coord, control, edition, lapsed, command>>

PhaseIsOpen(a) == control.status[Phase[a]] = "OPEN"
\* A request that is on file is only taken up again as it was filed.
BindingIsCurrent(a) == coord.bound[a] = edition[Phase[a]]
MustReconcile(a) == \E k \in Caps[a] : k.mode # "SHARED" /\ ~k.fenceable

Admit(c, a) ==
  LET seen == edition[Phase[a]] IN
  /\ PhaseIsOpen(a)
  /\ a \notin coord.active /\ a \notin lapsed
  /\ a \in Filed(coord) => BindingIsCurrent(a)
  /\ ~Refused(coord, a)
  /\ \A d \in AffectedDomains(coord, a) : coord.epoch[d] < MaxEpoch
  /\ \/ Waits(coord, a) /\ a \notin Filed(coord) /\ Plans(c, "QUEUE", a, Queued(coord, a, seen))
     \/ ~Waits(coord, a) /\ Plans(c, "GRANT", a, Granted(coord, a, seen))

Renew(c, a) ==
  /\ a \in coord.active /\ a \notin lapsed /\ BindingIsCurrent(a)
  /\ Plans(c, "RENEW", a, coord)

Release(c, a) ==
  /\ a \in coord.active
  /\ ~(a \in lapsed /\ MustReconcile(a))
  /\ Plans(c, "RELEASE", a, Retired(coord, {a}))

ReapExpired(c) ==
  LET expired == lapsed \cap coord.active IN
  /\ expired # {}
  /\ Plans(c, "REAP", None, [Retired(coord, expired) EXCEPT
       !.quarantined = @ \cup {a \in expired : MustReconcile(a)}])

\* The holder does not know what its effect did.
RecordUnknown(c, a) ==
  /\ a \in coord.active
  /\ \/ Plans(c, "UNKNOWN", a, [Retired(coord, {a}) EXCEPT !.quarantined = @ \cup {a}])
     \/ /\ coord.authority = None
        /\ Plans(c, "AUTHORITY", a, [Retired(coord, {a}) EXCEPT !.authority = a])

ReconcileQuarantine(c, a) ==
  \/ a \in coord.quarantined /\ Plans(c, "RECONCILE", a, [coord EXCEPT !.quarantined = @ \ {a}])
  \/ a = coord.authority /\ Plans(c, "REOPEN", a, [coord EXCEPT !.authority = None])

\* A result recorded under an admission: verified, and bound to what was read.
VerifyAdmission(a) ==
  PhaseIsOpen(a) /\ a \in coord.active /\ a \notin lapsed /\ BindingIsCurrent(a)
RecordResult(c, a) == VerifyAdmission(a) /\ Plans(c, "RESULT", a, coord)

\* The transaction of a plan: what it read must still be there.  Other plans are
\* refused after it; of a result, the tokens stay with its holder.
OthersStaleButResults(c) ==   \* mutant: a result is not compared with coordination
  [x \in Clients |-> IF x = c \/ plan[x] = None \/ plan[x].op # "RESULT" THEN None
                     ELSE plan[x]]
OthersStale(c) ==
  [x \in Clients |-> IF x = c \/ plan[x] = None \/ plan[x].op # "RESULT" THEN None
                     ELSE [plan[x] EXCEPT !.fresh = FALSE]]
Commit(c) ==
  /\ plan[c] # None
  /\ plan[c].fresh
  /\ coord' = plan[c].next
  /\ control' = IF plan[c].op = "RESULT" THEN [control EXCEPT !.results = @ \cup {plan[c].who}]
                ELSE control
  /\ lapsed' = (lapsed \cap Filed(coord')) \ (IF plan[c].op = "RENEW" THEN {plan[c].who} ELSE {})
  /\ plan' = OthersStale(c)
  /\ UNCHANGED <<edition, command>>

\* The clock passes the expires_at of an admission or of a queued request.
Expire(a) ==
  /\ a \in Filed(coord) \ lapsed
  /\ lapsed' = lapsed \cup {a}
  /\ UNCHANGED <<coord, control, edition, plan, command>>
-----------------------------------------------------------------------------
(* Commands of long_workspace.py that change a phase. *)

\* Pausing is for a phase that coordination is done with.
CloseGate(p) ==
  /\ coord.authority = None
  /\ \A a \in Filed(coord) \cup coord.quarantined : Phase[a] # p

ReadForPause(m, p) ==
  /\ command[m] = None
  /\ control.status[p] = "OPEN"
  /\ CloseGate(p)
  /\ command' = [command EXCEPT ![m] = [phase |-> p, to |-> "PAUSED", read |-> control]]
  /\ UNCHANGED <<coord, control, edition, lapsed, plan>>

ReadForResume(m, p) ==
  /\ command[m] = None
  /\ control.status[p] = "PAUSED"
  /\ command' = [command EXCEPT ![m] = [phase |-> p, to |-> "OPEN", read |-> control]]
  /\ UNCHANGED <<coord, control, edition, lapsed, plan>>

\* The preconditions of this write are the hashes of the files as they are now;
\* what is written was computed from the files as they were read.
WriteCommand(m) ==
  LET w == command[m] IN
  /\ w # None
  /\ edition[w.phase] < MaxEdits
  /\ control' = [w.read EXCEPT !.status[w.phase] = w.to]
  /\ edition' = [edition EXCEPT ![w.phase] = @ + 1]
  /\ plan' = OthersStale(None)
  /\ command' = [command EXCEPT ![m] = None]
  /\ UNCHANGED <<coord, lapsed>>

\* A phase-control file is edited: by hand, or by a command for its tables.
EditPhase(p) ==
  /\ edition[p] < MaxEdits
  /\ edition' = [edition EXCEPT ![p] = @ + 1]
  /\ UNCHANGED <<coord, control, lapsed, plan, command>>

Calls(c) ==
  \/ \E a \in Admissions :
       Admit(c, a) \/ Renew(c, a) \/ Release(c, a) \/ RecordUnknown(c, a)
         \/ ReconcileQuarantine(c, a) \/ RecordResult(c, a)
  \/ ReapExpired(c)

Next ==
  \/ \E c \in Clients : Calls(c) \/ Commit(c)
  \/ \E a \in Admissions : Expire(a)
  \/ \E m \in Commanders, p \in Phases : ReadForPause(m, p) \/ ReadForResume(m, p)
  \/ \E m \in Commanders : WriteCommand(m)
  \/ \E p \in Phases : EditPhase(p)

Spec == Init /\ [][Next]_vars
-----------------------------------------------------------------------------
(* Properties. *)

Plan == [op : {"GRANT", "QUEUE", "RENEW", "RELEASE", "REAP", "UNKNOWN", "AUTHORITY",
               "RECONCILE", "REOPEN", "RESULT"},
         who : Admissions \cup {None}, fresh : BOOLEAN]
IsState(s) ==
  /\ s.epoch \in [Domains -> Nat]
  /\ s.active \subseteq Admissions
  /\ \A a \in Admissions : s.token[a] = NoTokens \/ s.token[a] \in [TokenDomains(a) -> Nat]
  /\ s.queue \in Seq(Admissions)
  /\ s.bound \in [Admissions -> Nat]
  /\ s.quarantined \subseteq Admissions
  /\ s.authority \in Admissions \cup {None}

\* The type of every variable; and an admission is never active and queued, nor
\* queued twice.
TypeOK ==
  /\ IsState(coord)
  /\ \A i \in DOMAIN coord.queue : coord.queue[i] \notin coord.active
  /\ \A i, j \in DOMAIN coord.queue : coord.queue[i] = coord.queue[j] => i = j
  /\ control.status \in [Phases -> {"OPEN", "PAUSED"}]
  /\ control.results \subseteq Admissions
  /\ edition \in [Phases -> 0..MaxEdits]
  /\ lapsed \subseteq Filed(coord)
  /\ \A c \in Clients : plan[c] # None =>
       /\ [op |-> plan[c].op, who |-> plan[c].who, fresh |-> plan[c].fresh] \in Plan
       /\ IsState(plan[c].next)
  /\ \A m \in Commanders : command[m] # None =>
       command[m].phase \in Phases /\ command[m].to \in {"OPEN", "PAUSED"}

\* Whatever is admitted at one time is compatible: no place is written beside
\* another user of it, no capability used beside one that excludes it
\* (_active_conflicts, under calls that overlap).
ActiveDisjoint == \A a, b \in coord.active : a # b => ~Conflicts(a, b)

\* A holder of tokens that works on while its admission ends, and perhaps is
\* granted again, is behind in every domain it had a token for, so that a
\* resource that compares epochs refuses it (_bump_tokens, _increment_grant_domains).
TokensFenced ==
  \A c \in Clients : plan[c] # None /\ plan[c].op = "RESULT" =>
    LET a == plan[c].who
        held == plan[c].next.token[a] IN
    \/ a \in coord.active /\ coord.token[a] = held /\ TokensCurrent(coord)
    \/ \A d \in DOMAIN held : coord.epoch[d] > held[d]

\* Nothing is admitted on top of an unknown effect: not on the places of a
\* quarantined admission, not with a capability of the same domain
\* (_quarantine_conflicts).
QuarantineHolds ==
  \A a \in coord.active, q \in coord.quarantined :
    /\ ~LocatorsConflict(a, q)
    /\ \A k \in Caps[a], h \in Caps[q] :
         CapabilityDomain(k) = CapabilityDomain(h) => ~CapabilitiesConflict(k, h)

\* A quarantine ends by the reconciliation of that quarantine and by nothing
\* else: no other call writes over it (reconcile_quarantine).
UnknownIsKept ==
  [][\A a \in coord.quarantined \ coord'.quarantined :
       \E c \in Clients : Commit(c) /\ plan[c].op = "RECONCILE" /\ plan[c].who = a]_vars

\* A result is recorded while the admission it was verified under is still
\* active with the same tokens, in an open phase (record-result-events).
ResultUnderAuthority ==
  [][\A c \in Clients : Commit(c) /\ plan[c].op = "RESULT" =>
       LET a == plan[c].who IN
       /\ a \in coord.active
       /\ coord.token[a] = plan[c].next.token[a]
       /\ PhaseIsOpen(a)]_vars

\* Nobody gets a queued capability before a request that was queued for it
\* earlier (_queue_order_conflicts).
QueueIsFair ==
  [][\A a \in coord'.active \ coord.active, b \in Admissions :
       Before(coord, b, a) => QueuedIds(a) \cap QueuedIds(b) = {}]_vars

=============================================================================
