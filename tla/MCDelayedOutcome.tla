---------------------------- MODULE MCDelayedOutcome ----------------------------
EXTENDS DelayedOutcome

Plan(deps, capability) ==
    [edges |-> [k \in {"k1"} |-> deps], active |-> [k \in {"k1"} |-> TRUE],
     valid |-> [k \in {"k1"} |-> TRUE], capabilities |-> {capability}, longest |-> 1, budget |-> 1]

MCPlans == {Plan({}, "read"), Plan({}, "notify"), Plan({"k1"}, "read"), Plan({}, "trade")}
MCIdentities == {[digests |-> Definitions, bound |-> References],
                 [digests |-> Definitions, bound |-> References \ {"agent binds workflow"}]}
================================================================================
