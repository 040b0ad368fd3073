--------------------------- MODULE MCProcessHost ----------------------------
(* Two runs of the supervised process host. *)
EXTENDS ProcessHost

CONSTANTS k1, k2

MCKeys == {k1, k2}
=============================================================================
