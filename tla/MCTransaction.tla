--------------------------- MODULE MCTransaction ----------------------------
(* Two operations planned against the same files, and one that follows.      *)
EXTENDS DomainTransaction, TLC

CONSTANTS a, b, p1, p2, o1, o2, o3, absent, edited

MCFiles == {a, b}
MCProcs == {p1, p2}
MCContents == {0, 1, 2, absent, edited}
MCInitial == a :> 0 @@ b :> absent

\* o1 creates b and updates a; o2 was planned against the same a and b, and
\* updates a only; o3 follows o1.
MCOps == {o1, o2, o3}
MCTargets == o1 :> <<b, a>> @@ o2 :> <<a>> @@ o3 :> <<a, b>>
MCPre == o1 :> (a :> 0 @@ b :> absent) @@ o2 :> (a :> 0 @@ b :> absent)
         @@ o3 :> (a :> 1 @@ b :> 1)
MCNew == o1 :> (a :> 1 @@ b :> 1) @@ o2 :> (a :> 2) @@ o3 :> (a :> 2 @@ b :> 2)

\* All operations follow the workspace protocol, all the other one, or one each
\* comes between those of the other kind.
MCLegacySets == {{}, {o1}, {o2}, {o1, o2, o3}}
=============================================================================
