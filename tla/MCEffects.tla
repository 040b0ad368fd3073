----------------------------- MODULE MCEffects ------------------------------
(* Two tasks of one project: the first creates a file and updates another,    *)
(* which the second task updates too.                                         *)
EXTENDS Execution, TLC

CONSTANTS t1, t2, g1, g2, o1, o2, o3

MCTasks == {t1, t2}
MCGrants == {g1, g2}
MCOps == {o1, o2, o3}
MCGrantTask == g1 :> t1 @@ g2 :> t2
MCGrantHost == g1 :> NoHost @@ g2 :> NoHost
MCGrantMax == g1 :> Unlimited @@ g2 :> Unlimited
MCOpGrant == o1 :> g1 @@ o2 :> g1 @@ o3 :> g2
MCOpKind == o1 :> "create" @@ o2 :> "update" @@ o3 :> "update"
MCOpConflicts == {<<o2, o3>>, <<o3, o2>>}

Nothing == {}
NoFunction == <<>>

\* Bounds: no dependencies and no evidence here, MCLifecycle varies those; and
\* only the first task is revised.
MCSpec == Init /\ [][Next /\ UNCHANGED <<deps, evid>> /\ taskRev'[t2] < 2]_vars
=============================================================================
