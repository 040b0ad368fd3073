------------------------------- MODULE MCHost -------------------------------
(* Managed Hosts in three models, each with a task of its own, of which a      *)
(* behaviour takes one: a Host with calls to launch, query and cancel it        *)
(* overlapping, a Host whose actor creates a file, and two Hosts of one task,   *)
(* the second perhaps recovering from the first.                                *)
EXTENDS Execution, TLC

CONSTANTS called, writer, shared, g1, o1, r1, r2, r3, r4, d1, d2, d3, d4,
          launch1, query1, cancel1, launch2, query2, launch3, query3, launch4

MCTasks == {called, writer, shared}
MCGrants == {g1}
MCOps == {o1}
MCGrantTask == g1 :> writer
MCGrantHost == g1 :> d2
MCGrantMax == g1 :> Unlimited
MCOpGrant == o1 :> g1
MCOpKind == o1 :> "create"

MCRuns == {r1, r2, r3, r4}
MCRunTask == r1 :> called @@ r2 :> writer @@ r3 :> shared @@ r4 :> shared
MCRunHost == r1 :> d1 @@ r2 :> d2 @@ r3 :> d3 @@ r4 :> d4
MCDispatches == {d1, d2, d3, d4}
MCDispatchTask == d1 :> called @@ d2 :> writer @@ d3 :> shared @@ d4 :> shared
MCCalls == {launch1, query1, cancel1, launch2, query2, launch3, query3, launch4}
MCCallDispatch == launch1 :> d1 @@ query1 :> d1 @@ cancel1 :> d1
               @@ launch2 :> d2 @@ query2 :> d2
               @@ launch3 :> d3 @@ query3 :> d3 @@ launch4 :> d4
MCCallMethod == launch1 :> "LAUNCH" @@ query1 :> "QUERY" @@ cancel1 :> "CANCEL"
             @@ launch2 :> "LAUNCH" @@ query2 :> "QUERY"
             @@ launch3 :> "LAUNCH" @@ query3 :> "QUERY" @@ launch4 :> "LAUNCH"

Terms(launches, cancels) ==
  [launches |-> launches, agents |-> launches, queries |-> 1, cancels |-> cancels]
MCPolicyTerms == {Terms(1, 1), Terms(2, 1)}

Nothing == {}

\* Only one of the tasks is created.
OneModel == \A t, u \in Tasks : t # u => taskRev'[t] = 0 \/ taskRev'[u] = 0

\* Bound: no clock, dependencies or evidence here; MCEffects and MCLifecycle
\* vary those.
NoClock == /\ \A g \in Grants : grantState'[g] # "EXPIRED"
           /\ \A o \in Ops : leaseState'[o] # "LAPSED"
\* Bounds: the policy is withdrawn under the writer, two launches are allowed
\* where there are two Hosts, and the Host with overlapping calls is the one
\* whose task is cancelled.
PolicyStays == policy'.state # "REVOKED" /\ (policy'.state = "ACTIVE" => policy'.live)
Varied == /\ taskRev'[writer] = 0 => PolicyStays
          /\ policy'.launches \in {0, IF taskRev'[shared] = 0 THEN 1 ELSE 2}
          /\ taskStatus'[shared] # "CANCELLED"
MCSpec == Init /\ [][Next /\ OneModel /\ NoClock /\ Varied /\ UNCHANGED <<deps, evid>>]_vars
=============================================================================
