------------------------------ MODULE VersionLife ------------------------------
(***************************************************************************)
(* What a registry of DNA promises of the versions of one DNA: a version   *)
(* passes the gates one at a time, at most one version is active, and it   *)
(* gives way in the step that activates the next one.  Only workflow DNA   *)
(* can be rolled back: a version that was active before replaces the       *)
(* active one.                                                             *)
(***************************************************************************)
EXTENDS Naturals, Sequences

CONSTANTS
    Versions,
    Gates,        \* the stages before ACTIVE, in their order
    Reinstates    \* whether a version may become active again

VARIABLE stage

\* Nothing is registered, or one version is active already
Init ==
    \E serving \in {{}} \cup {{v} : v \in Versions} :
        stage = [v \in Versions |-> IF v \in serving THEN "ACTIVE" ELSE Gates[1]]

Advance(v) ==
    \E i \in 1..(Len(Gates) - 1) :
        stage[v] = Gates[i] /\ stage' = [stage EXCEPT ![v] = Gates[i + 1]]

Retire(v) ==
    /\ stage[v] \notin {Gates[1], "ACTIVE", "RETIRED"}
    /\ stage' = [stage EXCEPT ![v] = "RETIRED"]

Withdraw(v) ==
    /\ stage[v] = "ACTIVE"
    /\ stage' = [stage EXCEPT ![v] = "DEPRECATED"]

Serve(v) ==
    /\ \/ stage[v] = Gates[Len(Gates)]
       \/ Reinstates /\ stage[v] = "DEPRECATED" /\ \E w \in Versions : stage[w] = "ACTIVE"
    /\ stage' = [w \in Versions |->
                    IF w = v THEN "ACTIVE"
                    ELSE IF stage[w] = "ACTIVE" THEN "DEPRECATED" ELSE stage[w]]

Next == \E v \in Versions : Advance(v) \/ Retire(v) \/ Withdraw(v) \/ Serve(v)

Spec == Init /\ [][Next]_stage
================================================================================
