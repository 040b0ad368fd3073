--------------------------- MODULE MCCoordination ---------------------------
(* Three admissions in one phase.  a1 writes a directory and queues for a       *)
(* camera; a2 queues for the camera and needs a GPU isolated; a3 reads a file   *)
(* of the directory and isolates the GPU under another key, without fencing.    *)
EXTENDS WorkspaceCoordination, TLC

CONSTANTS a1, a2, a3, ph, dir, file, cam, gpu, GPU, k1, k2, c1, c2

Cap(id, mode, fenceable, key) == [id |-> id, mode |-> mode, fenceable |-> fenceable, key |-> key]

MCAdmissions == {a1, a2, a3}
MCClients == {c1, c2}
Alike == Permutations(MCClients)  \* every property here is about single steps
MCPhase == [a \in MCAdmissions |-> ph]
MCPlaces == {dir, file}
MCOverlap == MCPlaces \X MCPlaces
MCWrites == a1 :> {dir} @@ a2 :> {} @@ a3 :> {}
MCReads == a1 :> {} @@ a2 :> {} @@ a3 :> {file}
MCCaps == a1 :> {Cap(cam, "QUEUED", TRUE, NoKey)}
       @@ a2 :> {Cap(cam, "QUEUED", TRUE, NoKey), Cap(gpu, "ISOLATE_REQUIRED", TRUE, k1)}
       @@ a3 :> {Cap(GPU, "ISOLATE_REQUIRED", FALSE, k2)}
MCFold == cam :> cam @@ gpu :> gpu @@ GPU :> gpu

\* Bounds: the GPU is isolated once under each key, the other domains are granted
\* twice; a phase-control file is edited by hand only before a command writes it.
Once(c) == plan'[c] # None => \A k \in {k1, k2} : plan'[c].next.epoch[<<gpu, k>>] <= 2
ByHand == edition' # edition /\ control' = control
OneEdit == ByHand => edition[ph] = 0
MCSpec == Init /\ [][Next /\ OneEdit /\ \A c \in Clients : Once(c)]_vars
=============================================================================
