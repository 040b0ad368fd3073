---------------------------- MODULE AtomicFiles -----------------------------
(***************************************************************************)
(* What a workspace transaction promises: an operation replaces all its    *)
(* target files at one instant, at most once, and only while every input   *)
(* still is what it was planned against.  Between two operations only the  *)
(* workspace's owner changes a file.                                       *)
(***************************************************************************)
CONSTANTS Files, Ops, Edited,
          Pre,    \* Pre[o]: the contents of the inputs o was planned against
          New     \* New[o]: the contents o gives to its targets

VARIABLES disk,        \* [Files -> Contents]
          committed    \* the operations that took effect

InputsMatch(o, contents) == \A f \in DOMAIN Pre[o] : contents[f] = Pre[o][f]
With(contents, update) ==
  [f \in DOMAIN contents |-> IF f \in DOMAIN update THEN update[f] ELSE contents[f]]

Commit(o) ==
  /\ o \notin committed
  /\ InputsMatch(o, disk)
  /\ disk' = With(disk, New[o])
  /\ committed' = committed \cup {o}

OwnerEdits(f) ==
  /\ disk' = [disk EXCEPT ![f] = Edited]
  /\ UNCHANGED committed

AtomicNext == (\E o \in Ops : Commit(o)) \/ (\E f \in Files : OwnerEdits(f))
=============================================================================
