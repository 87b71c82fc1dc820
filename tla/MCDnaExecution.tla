---------------------------- MODULE MCDnaExecution ----------------------------
EXTENDS DnaExecution, TLC

MCParents == [v \in Versions |-> {}]
MCUses == "a1" :> [market |-> "w1"]
Member(agent, responsibilities, priority) ==
    [agent |-> agent, responsibilities |-> responsibilities, priority |-> priority]
MCMembers ==
    ("o1" :> [lead |-> Member("a1", {"review", "research"}, 2), researcher |-> Member("a1", {"research"}, 1)]) @@
    ("o2" :> [lead |-> Member("a1", {"review"}, 1), researcher |-> Member("a1", {"research"}, 1)])
MCFallback == [o \in Organizations |-> "lead"]
MCFirst == [workflow |-> "w1", agent |-> "a1", organization |-> "o1"]
MCRoleRank == [lead |-> 1, researcher |-> 2]
MCBudget == [o \in Organizations |-> 1]
================================================================================
