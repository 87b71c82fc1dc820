---------------------------- MODULE MCDnaEvolution ----------------------------
EXTENDS DnaEvolution, TLC

CONSTANTS e1, e2, e3

\* e1 comes before the dataset or after it, e2 is of training time and e3 is risky
MCFacts ==
    (e1 :> [dna |-> "base", split |-> "VALIDATION", risky |-> FALSE, score |-> [k \in Keys |-> 50]]) @@
    (e2 :> [dna |-> "donor", split |-> "TRAIN", risky |-> FALSE, score |-> [k \in Keys |-> 100]]) @@
    (e3 :> [dna |-> "base", split |-> "TEST", risky |-> TRUE, score |-> [k \in Keys |-> 100]])

MCKeys == {"success_rate", "evidence_score"}
MCThreshold == [success_rate |-> 95, evidence_score |-> 80]

Node(input) == [binding |-> "read@1", effect |-> "PURE", input |-> input, limit |-> 1]
MCWorkflows == [base |-> [n1 |-> Node("a"), n2 |-> Node("a")], donor |-> [n1 |-> Node("b"), n2 |-> Node("b")]]

Op(kind, node, value) == [kind |-> kind, node |-> node, value |-> value]
Request(donor, operation) ==
    [base |-> "base", donor |-> donor, version |-> "next", dataset |-> CHOOSE x \in Datasets : TRUE,
     operations |-> <<operation>>]
MCRequests ==
    {Request("none", Op("SET_INPUT", "n2", "c")), Request("donor", Op("REPLACE_FROM_DONOR", "n1", "none")),
     Request("none", Op("REMOVE_NODE", "n2", "none")),
     Request("none", Op("SET_CAPABILITY_VERSION", "n1", "trade@1"))}

MCMutablePaths == {<<"SET_INPUT", "n1">>, <<"node", "n1">>, <<"SET_CAPABILITY_VERSION", "n1">>}
MCAutoValue == [success_rate |-> "c", evidence_score |-> "d"]

Measured(success, evidence, risk) ==
    [success_rate |-> success, evidence_score |-> evidence, risk_rate |-> risk]
MCParent == Measured(1, 1, 0)
MCMeasures == {Measured(1, 2, 0), Measured(2, 2, 0), Measured(2, 3, -1)}
MCDimensions == {"success_rate", "evidence_score", "risk_rate"}
MCSlack == [d \in Dimensions |-> 0]
Symmetry == Permutations(Calls)
================================================================================
