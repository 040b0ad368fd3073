---------------------------- MODULE EffectLedger ----------------------------
(***************************************************************************)
(* What the execution core promises about effects on the world, without    *)
(* grants, leases, tasks, Hosts or workers: every operation is admitted at *)
(* most once and never beside a rival, its file is touched only while it   *)
(* is admitted, and when its outcome is written down it is the true one    *)
(* and nothing changes it afterwards.                                      *)
(***************************************************************************)
CONSTANTS
  Ops,
  Rivals   \* pairs of operations that must not be admitted together

VARIABLES
  phase,   \* "NEW", "ADMITTED", "DONE", "NOT_DONE" or "DROPPED"
  effect   \* what has been done to the operation's file

ledger == <<phase, effect>>

Progress(from, to) == \/ from = to
                      \/ from = "NONE" /\ to \in {"PARTIAL", "APPLIED"}
                      \/ from = "PARTIAL" /\ to = "APPLIED"

Init ==
  /\ phase = [o \in Ops |-> "NEW"]
  /\ effect = [o \in Ops |-> "NONE"]

Admit(o) ==
  /\ phase[o] = "NEW"
  /\ \A p \in Ops \ {o} : <<o, p>> \in Rivals => phase[p] # "ADMITTED"
  /\ phase' = [phase EXCEPT ![o] = "ADMITTED"]
  /\ UNCHANGED effect

Touch(o) ==
  /\ phase[o] = "ADMITTED"
  /\ \E e \in {"PARTIAL", "APPLIED"} :
       Progress(effect[o], e) /\ effect' = [effect EXCEPT ![o] = e]
  /\ UNCHANGED phase

Settle(o) ==
  /\ phase[o] = "ADMITTED"
  /\ \/ effect[o] = "APPLIED" /\ phase' = [phase EXCEPT ![o] = "DONE"]
     \/ effect[o] = "NONE" /\ phase' = [phase EXCEPT ![o] = "NOT_DONE"]
  /\ UNCHANGED effect

\* Operations that were never admitted can be withdrawn together.
Drop(S) ==
  /\ \A o \in S : phase[o] = "NEW"
  /\ phase' = [o \in Ops |-> IF o \in S THEN "DROPPED" ELSE phase[o]]
  /\ UNCHANGED effect

Next ==
  \/ \E o \in Ops : Admit(o) \/ Touch(o) \/ Settle(o)
  \/ \E S \in SUBSET Ops : Drop(S)

Spec == Init /\ [][Next]_ledger
=============================================================================
