--------------------------- MODULE HostExecution ----------------------------
(***************************************************************************)
(* v2_host_execution.py: the controller's protocol with a managed Host.    *)
(* Each Host call is one invocation: a transaction admits it, the adapter  *)
(* is called outside any transaction, and a last transaction records what  *)
(* it answered, or that nobody knows.  Calls for one dispatch overlap, and *)
(* their answers may be recorded in any order.  The adapter is the         *)
(* supervised process host.                                                *)
(***************************************************************************)
EXTENDS ExecutionState

CONSTANTS
  Calls,          \* invocation ids
  CallDispatch,   \* invocation -> the dispatch it is for
  CallMethod,     \* invocation -> "LAUNCH", "QUERY" or "CANCEL"
  PolicyTerms     \* the budgets the operator may approve

ASSUME CallsAssumption ==
  /\ CallDispatch \in [Calls -> Dispatches]
  /\ CallMethod \in [Calls -> {"LAUNCH", "QUERY", "CANCEL"}]
  /\ PolicyTerms \subseteq [launches : Nat, agents : Nat, queries : Nat, cancels : Nat]

VARIABLES
  callRow,   \* host_invocation.state
  caller,    \* where the controller is in the call, with the answer it got
  journal, cancelFlag, supervisor, command

callVars == <<callRow, caller>>
processVars == <<journal, cancelFlag, supervisor, command>>

PH == INSTANCE ProcessHost WITH Keys <- Dispatches

CallerStates == {"IDLE", "CALLING", "ADMITTED", "ASKING", "GOT_RUNNING",
                 "GOT_EXITED", "GOT_UNKNOWN", "RAISED", "DONE"}

CallTypeOK ==
  /\ callRow \in [Calls -> {"ABSENT", "INTENT_COMMITTED", "OBSERVED", "UNKNOWN"}]
  /\ caller \in [Calls -> CallerStates]
  /\ PH!ProcessTypeOK

CallInit ==
  /\ callRow = [c \in Calls |-> "ABSENT"]
  /\ caller = [c \in Calls |-> "IDLE"]
  /\ PH!ProcessInit

Launches == {d \in Dispatches : launched[d]}
Active == {d \in Dispatches : HostPending(d)}
CallsMade(d, m) == {c \in Calls : CallDispatch[c] = d /\ CallMethod[c] = m
                                  /\ callRow[c] # "ABSENT"}

HostGrants(d) == {g \in Grants : GrantHost[g] = d /\ GrantTask[g] = DispatchTask[d]}

Goto(c, s) == caller' = [caller EXCEPT ![c] = s]
-----------------------------------------------------------------------------
(* The dispatch budget. *)

PolicyStep == UNCHANGED <<grantRev, opVars, limit, taskVars, proofVars, phaseVars,
                          runVars, hostRev, launched, quiesced, hostSource, callVars, processVars>>

Approve(terms) == [launches |-> terms.launches, agents |-> terms.agents,
                   queries |-> terms.queries, cancels |-> terms.cancels,
                   state |-> "ACTIVE", live |-> TRUE]

ConfigurePolicy(terms) ==
  /\ policy.state = "NONE"
  /\ policy' = Approve(terms)
  /\ PolicyStep /\ UNCHANGED <<grantState, hostState, cancelWanted, fresh>>

ExpirePolicy ==
  /\ policy.state = "ACTIVE" /\ policy.live
  /\ policy' = [policy EXCEPT !.live = FALSE]
  /\ PolicyStep /\ UNCHANGED <<grantState, hostState, cancelWanted, fresh>>

\* revoke_budget stops admissions and grants; the Hosts still have to be
\* cancelled and queried.
RevokePolicy ==
  /\ policy.state = "ACTIVE"
  /\ policy' = [policy EXCEPT !.state = "REVOKED"]
  /\ RevokeGrants({g \in Grants : GrantHost[g] # NoHost})
  /\ cancelWanted' = [d \in Dispatches |-> cancelWanted[d] \/ HostPending(d)]
  /\ hostState' = [d \in Dispatches |->
       IF HostPending(d) /\ hostState[d] = "RUNNING" THEN "CANCEL_REQUESTED" ELSE hostState[d]]
  /\ PolicyStep /\ UNCHANGED fresh

\* amend_budget never goes below what was used, and lifts a revocation only
\* when every launched Host is quiesced.
AmendPolicy(terms) ==
  /\ policy.state # "NONE" /\ policy # Approve(terms)
  /\ policy.state = "REVOKED" => Active = {}
  /\ Cardinality(Launches) <= terms.launches
  /\ Cardinality(Active) <= terms.agents
  /\ \A d \in Dispatches : /\ Cardinality(CallsMade(d, "QUERY")) <= terms.queries
                           /\ Cardinality(CallsMade(d, "CANCEL")) <= terms.cancels
  /\ policy' = Approve(terms)
  /\ fresh' = [d \in Dispatches |-> FALSE]
  /\ PolicyStep /\ UNCHANGED <<grantState, hostState, cancelWanted>>
-----------------------------------------------------------------------------
(* Dispatches. *)

\* dispatch_recovery_source: a paused Run whose own Host is known to have ended
\* and whose checkpoint has no unresolved effect.
RecoverySource(r, t) ==
  /\ RunTask[r] = t /\ runState[r] = "PAUSED" /\ runRev[r] = taskRev[t]
  /\ runCkpt[r] = "CLEAN"
  /\ RunHost[r] # NoHost
  /\ LET h == RunHost[r] IN
       launched[h] /\ hostState[h] = "EXITED" /\ quiesced[h] = "YES" /\ hostRev[h] = taskRev[t]

\* _ready
DispatchReady(t, source) ==
  /\ IF source = NoHost THEN taskStatus[t] \in {"READY", "RUNNING"}
     ELSE taskStatus[t] = "PAUSED" /\ RecoverySource(source, t)
  /\ PhaseReady(t) /\ Resolved(t) /\ ~PendingEffect(t) /\ ~PendingHost(t)
  /\ \A r \in CurrentRuns(t) \ {source} :
       RunHost[r] # NoHost /\ quiesced[RunHost[r]] = "YES"

PrepareDispatch(d, source) ==
  /\ hostState[d] = "ABSENT" /\ taskStatus[DispatchTask[d]] # "ABSENT"
  /\ policy.state = "ACTIVE"
  /\ DispatchReady(DispatchTask[d], source)
  /\ hostState' = [hostState EXCEPT ![d] = "PREPARED"]
  /\ hostRev' = [hostRev EXCEPT ![d] = taskRev[DispatchTask[d]]]
  /\ hostSource' = [hostSource EXCEPT ![d] = source]
  /\ fresh' = [fresh EXCEPT ![d] = TRUE]
  /\ UNCHANGED <<grantVars, opVars, limit, taskVars, proofVars, phaseVars, runVars, launched,
                 cancelWanted, quiesced, policy, callVars, processVars>>

Admitted(c) == /\ callRow' = [callRow EXCEPT ![c] = "INTENT_COMMITTED"]
               /\ Goto(c, "CALLING")

PolicyFits == Cardinality(Launches) < policy.launches /\ Cardinality(Active) < policy.agents

\* The Host's own Run takes over from whatever Run the task had.
RunsAtLaunch(d) ==
  [r \in Runs |-> IF RunHost[r] = d THEN "OPEN"
                  ELSE IF r \in CurrentRuns(DispatchTask[d]) THEN "CLOSED" ELSE runState[r]]

\* launch, its first transaction: every check prepare made is made again.
Launch(c) ==
  LET d == CallDispatch[c]
      t == DispatchTask[d]
  IN
  /\ CallMethod[c] = "LAUNCH" /\ callRow[c] = "ABSENT"
  /\ hostState[d] = "PREPARED"
  /\ taskRev[t] = hostRev[d] /\ DispatchReady(t, hostSource[d]) /\ fresh[d]
  /\ PolicyUsable
  /\ PolicyFits
  /\ Admitted(c)
  /\ runState' = RunsAtLaunch(d)
  /\ runRev' = [r \in Runs |-> IF RunHost[r] = d THEN hostRev[d] ELSE runRev[r]]
  /\ runCkpt' = [r \in Runs |-> IF RunHost[r] # d THEN runCkpt[r]
                                ELSE IF hostSource[d] = NoHost THEN "NONE" ELSE "CLEAN"]
  /\ taskStatus' = [taskStatus EXCEPT ![t] = "RUNNING"]
  /\ hostState' = [hostState EXCEPT ![d] = "INTENT_COMMITTED"]
  /\ launched' = [launched EXCEPT ![d] = TRUE]
  /\ UNCHANGED <<grantVars, opVars, limit, taskRev, deps, marker, pauseWanted, proofVars,
                 phaseVars, runResume, hostRev, cancelWanted, quiesced, hostSource,
                 fresh, policy, processVars>>

Poll(c) ==
  LET d == CallDispatch[c] IN
  /\ CallMethod[c] = "QUERY" /\ callRow[c] = "ABSENT"
  /\ launched[d]
  /\ Cardinality(CallsMade(d, "QUERY")) < policy.queries
  /\ Admitted(c)
  /\ UNCHANGED <<storeVars, processVars>>

CancelBeforeLaunch(d) ==
  /\ hostState[d] # "ABSENT" /\ ~launched[d] /\ hostState[d] # "CANCELLED"
  /\ RevokeGrants(HostGrants(d))
  /\ hostState' = [hostState EXCEPT ![d] = "CANCELLED"]
  /\ cancelWanted' = [cancelWanted EXCEPT ![d] = TRUE]
  /\ quiesced' = [quiesced EXCEPT ![d] = "YES"]
  /\ UNCHANGED <<grantRev, opVars, limit, taskVars, proofVars, phaseVars, runVars,
                 hostRev, launched, hostSource, fresh, policy, callVars, processVars>>

Cancel(c) ==
  LET d == CallDispatch[c] IN
  /\ CallMethod[c] = "CANCEL" /\ callRow[c] = "ABSENT"
  /\ HostPending(d)
  /\ Cardinality(CallsMade(d, "CANCEL")) < policy.cancels
  /\ Admitted(c)
  /\ RevokeGrants(HostGrants(d))
  /\ hostState' = [hostState EXCEPT ![d] = "CANCEL_REQUESTED"]
  /\ cancelWanted' = [cancelWanted EXCEPT ![d] = TRUE]
  /\ UNCHANGED <<grantRev, opVars, limit, taskVars, proofVars, phaseVars, runVars,
                 hostRev, launched, quiesced, hostSource, fresh, policy, processVars>>
-----------------------------------------------------------------------------
(* The adapter call, outside any transaction. *)

CallStart(c) ==
  LET d == CallDispatch[c] IN
  /\ CallMethod[c] = "LAUNCH"
  /\ \/ caller[c] = "CALLING" /\ PH!Admit(d) /\ Goto(c, "ADMITTED")
     \/ caller[c] = "ADMITTED" /\ PH!Spawn(d) /\ Goto(c, "ASKING")
  /\ UNCHANGED <<storeVars, callRow>>

CallCancel(c) ==
  /\ CallMethod[c] = "CANCEL" /\ caller[c] = "CALLING"
  /\ PH!FlagCancel(CallDispatch[c]) /\ Goto(c, "ASKING")
  /\ UNCHANGED <<storeVars, callRow>>

Ask(c) ==
  /\ caller[c] = "ASKING" \/ (CallMethod[c] = "QUERY" /\ caller[c] = "CALLING")
  /\ Goto(c, CASE PH!QueryAnswer(CallDispatch[c]) = "RUNNING" -> "GOT_RUNNING"
               [] PH!QueryAnswer(CallDispatch[c]) = "EXITED" -> "GOT_EXITED"
               [] OTHER -> "GOT_UNKNOWN")
  /\ UNCHANGED <<storeVars, callRow, processVars>>

\* The callback raises (Popen, the host's database, an invalid observation).
CallRaises(c) ==
  /\ caller[c] \in {"CALLING", "ADMITTED", "ASKING"}
  /\ Goto(c, "RAISED")
  /\ UNCHANGED <<storeVars, callRow, processVars>>

\* The controller dies in the middle of the call, or before recording it.
CallerDies(c) ==
  /\ caller[c] \notin {"IDLE", "DONE"}
  /\ Goto(c, "DONE")
  /\ UNCHANGED <<storeVars, callRow, processVars>>
-----------------------------------------------------------------------------
(* The last transaction of a call. *)

Got(c) == CASE caller[c] = "GOT_RUNNING" -> [state |-> "RUNNING", quiesced |-> "NO"]
            [] caller[c] = "GOT_EXITED"  -> [state |-> "EXITED", quiesced |-> "YES"]
            [] caller[c] = "GOT_UNKNOWN" -> [state |-> "UNKNOWN", quiesced |-> "NULL"]

\* "Terminal Host observation regressed": the transaction rolls back.
Regresses(c) == Got(c).quiesced # "YES" /\ quiesced[CallDispatch[c]] = "YES"

Answered(c) == caller[c] \in {"GOT_RUNNING", "GOT_EXITED", "GOT_UNKNOWN"}

Regressed(c) ==
  /\ Answered(c) /\ Regresses(c)
  /\ Goto(c, "RAISED")
  /\ UNCHANGED <<storeVars, callRow, processVars>>

\* What becomes of the Host's open Run, and of the effects its actor admitted in
\* this task and never reported, when its processes are known to have ended.
RunsAfterEnd(d) == [r \in Runs |-> IF RunHost[r] = d /\ runState[r] = "OPEN"
                                   THEN "CLOSED" ELSE runState[r]]
OrphansForgotten(d) == {}   \* mutant
Orphans(d) == {o \in Ops : OpGrant[o] \in HostGrants(d) /\ opState[o] = "INTENT_RECORDED"}
OrphanOutcome == "UNKNOWN"

\* _observe.  Quiescence withdraws the Host actor's grants, turns what it had
\* admitted and never reported into unknown effects, closes its Run, and hands
\* a RUNNING task back.
ObserveHost(c) ==
  LET d == CallDispatch[c]
      t == DispatchTask[d]
      v == Got(c)
      ended == v.quiesced = "YES"
      orphans == IF ended THEN Orphans(d) ELSE {}
      runs == IF ended THEN RunsAfterEnd(d) ELSE runState
  IN
  /\ Answered(c) /\ ~Regresses(c)
  /\ Goto(c, "DONE")
  /\ callRow' = [callRow EXCEPT ![c] = "OBSERVED"]
  /\ hostState' = [hostState EXCEPT ![d] =
       IF v.state = "RUNNING" /\ cancelWanted[d] THEN "CANCEL_REQUESTED" ELSE v.state]
  /\ quiesced' = [quiesced EXCEPT ![d] = v.quiesced]
  /\ RevokeGrants(IF ended THEN HostGrants(d) ELSE {})
  /\ opState' = [o \in Ops |-> IF o \in orphans THEN OrphanOutcome ELSE opState[o]]
  /\ leaseState' = [o \in Ops |-> IF o \in orphans THEN "QUARANTINED" ELSE leaseState[o]]
  /\ UNCHANGED launched
  /\ IF taskRev[t] = hostRev[d]
     THEN Reconcile(t, runs, ended /\ quiesced[d] # "YES")
     ELSE runState' = runs /\ UNCHANGED <<taskStatus, marker, pauseWanted, accepted, runResume>>
  /\ UNCHANGED <<grantRev, opRev, intents, limit, taskRev, deps, evid,
                 phaseVars, runRev, runCkpt, hostRev, cancelWanted, hostSource,
                 fresh, policy, processVars>>

\* HostCallUncertain: unless it is known to have ended, nothing is known of it.
CallUncertain(c) ==
  LET d == CallDispatch[c]
      t == DispatchTask[d]
  IN
  /\ caller[c] = "RAISED"
  /\ Goto(c, "DONE")
  /\ callRow' = [callRow EXCEPT ![c] = "UNKNOWN"]
  /\ hostState' = [hostState EXCEPT ![d] = IF quiesced[d] = "YES" THEN @ ELSE "UNKNOWN"]
  /\ UNCHANGED <<opState, launched, quiesced>>
  /\ IF quiesced[d] # "YES" /\ taskRev[t] = hostRev[d]
     THEN Reconcile(t, runState, FALSE)
     ELSE UNCHANGED <<taskStatus, marker, pauseWanted, accepted, runState, runResume>>
  /\ UNCHANGED <<grantVars, opRev, leaseState, intents, limit, taskRev, deps, evid,
                 phaseVars, runRev, runCkpt, hostRev, cancelWanted, hostSource,
                 fresh, policy, processVars>>

CallStep(c) ==
  CallStart(c) \/ CallCancel(c) \/ Ask(c) \/ Regressed(c) \/ ObserveHost(c) \/ CallUncertain(c)

HostNext ==
  \/ \E terms \in PolicyTerms : ConfigurePolicy(terms) \/ AmendPolicy(terms)
  \/ ExpirePolicy \/ RevokePolicy
  \/ \E d \in Dispatches : \/ CancelBeforeLaunch(d)
                           \/ \E source \in Runs \cup {NoHost} : PrepareDispatch(d, source)
  \/ \E c \in Calls : \/ Launch(c) \/ Poll(c) \/ Cancel(c)
                      \/ CallStep(c) \/ CallRaises(c) \/ CallerDies(c)
=============================================================================
