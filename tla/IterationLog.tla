----------------------------- MODULE IterationLog -----------------------------
(***************************************************************************)
(* What the factor loop promises of its database alone: iterations are     *)
(* counted one by one, facts are added with an iteration and never         *)
(* otherwise, and a loop that waits for a review takes nothing until a     *)
(* reconcile.  Damage is what somebody else does to the facts.             *)
(***************************************************************************)
EXTENDS Naturals

VARIABLES count, facts, phase

logVars == <<count, facts, phase>>

Init ==
    /\ count = 0
    /\ facts = {}
    /\ phase = "NONE"

Create ==
    /\ phase = "NONE"
    /\ phase' = "RUNNING"
    /\ UNCHANGED <<count, facts>>

Advance ==
    /\ phase = "RUNNING"
    /\ count' = count + 1
    /\ facts \subseteq facts'
    /\ phase' \in {"RUNNING", "COMPLETED", "REQUIRES_REVIEW"}

Steer ==
    /\ \/ phase = "RUNNING" /\ phase' \in {"PAUSED", "TERMINATED", "COMPLETED"}
       \/ phase = "PAUSED" /\ phase' \in {"RUNNING", "TERMINATED"}
       \/ phase # "NONE" /\ phase' = "REQUIRES_REVIEW"
       \/ phase = "REQUIRES_REVIEW" /\ phase' = "RUNNING"
    /\ UNCHANGED <<count, facts>>

Damage ==
    /\ facts' \subseteq facts
    /\ UNCHANGED <<count, phase>>

Next == Create \/ Advance \/ Steer \/ Damage

Spec == Init /\ [][Next]_logVars
=============================================================================
