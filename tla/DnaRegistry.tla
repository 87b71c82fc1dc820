------------------------------ MODULE DnaRegistry ------------------------------
(***************************************************************************)
(* The persistent registry of the versions of one DNA                      *)
(* (domain_sdk/dna_repository.py).  Every operation is one transaction; a  *)
(* Can... predicate says when it does not raise.  Document and digests of  *)
(* a version never change, so a row is its status and its revision.        *)
(***************************************************************************)
EXTENDS Naturals, FiniteSets

CONSTANTS
    Versions,   \* versions of the DNA
    Parents,    \* the parent_dna of each version
    MaxDepth    \* bound of the code: 32 generations

ASSUME DnaRegistryAssumption ==
    /\ Parents \in [Versions -> SUBSET Versions]
    /\ MaxDepth \in Nat

VARIABLE dna    \* dna_definition: status and revision, "NONE" before its row

Statuses == {"CANDIDATE", "VALIDATED", "SHADOW", "CANARY", "ACTIVE", "DEPRECATED", "RETIRED"}

Allowed ==
    {<<"CANDIDATE", "VALIDATED">>, <<"VALIDATED", "SHADOW">>, <<"SHADOW", "CANARY">>,
     <<"CANARY", "ACTIVE">>, <<"ACTIVE", "DEPRECATED">>, <<"DEPRECATED", "RETIRED">>}
    \cup {<<s, "RETIRED">> : s \in {"CANDIDATE", "VALIDATED", "SHADOW", "CANARY"}}

DnaRow == [status : Statuses \cup {"NONE"}, revision : Nat]
NoDna == [status |-> "NONE", revision |-> 0]

ActiveVersions == {v \in Versions : dna[v].status = "ACTIVE"}

\* The versions reachable from v over n parent references: the walk of
\* _assert_acyclic, level by level
Ancestors(v) ==
    LET level[n \in 0..MaxDepth] ==
          IF n = 0 THEN {v} ELSE UNION {Parents[a] : a \in level[n - 1]}
    IN  level

ParentsHold(v) ==
    /\ Cardinality(Parents[v]) <= 4
    /\ \A p \in Parents[v] :
         /\ p # v
         /\ dna[p].status # "NONE"
         /\ Ancestors(p)[MaxDepth] = {}
         /\ \A n \in 0..MaxDepth : v \notin Ancestors(p)[n]

CanRegister(v) == dna[v].status = "NONE" /\ ParentsHold(v)

Register(v) ==
    /\ CanRegister(v)
    /\ dna' = [dna EXCEPT ![v] = [status |-> "CANDIDATE", revision |-> 0]]

\* _change() of the rows named by "to": compare-and-set on each revision
Changed(to) ==
    [v \in Versions |->
        IF v \in DOMAIN to THEN [status |-> to[v], revision |-> dna[v].revision + 1] ELSE dna[v]]

CanTransition(v, to, revision) ==
    /\ <<dna[v].status, to>> \in Allowed
    /\ dna[v].revision = revision
    /\ to = "ACTIVE" => ActiveVersions = {}      \* idx_dna_one_active

Transition(v, to, revision) ==
    /\ CanTransition(v, to, revision)
    /\ dna' = Changed([x \in {v} |-> to])

\* A faulty activate() that does not look at the status
CanActivateAny(v, revision) ==
    /\ dna[v].status # "ACTIVE"
    /\ dna[v].revision = revision

CanActivate(v, revision) ==
    /\ dna[v].status = "CANARY"
    /\ dna[v].revision = revision

Activate(v, revision) ==
    /\ CanActivate(v, revision)
    /\ dna' = Changed([x \in ActiveVersions \cup {v} |-> IF x = v THEN "ACTIVE" ELSE "DEPRECATED"])

CanRollback(target, activeRevision, targetRevision) ==
    /\ dna[target].status = "DEPRECATED"
    /\ dna[target].revision = targetRevision
    /\ \E active \in ActiveVersions : dna[active].revision = activeRevision

Rollback(target, activeRevision, targetRevision) ==
    /\ CanRollback(target, activeRevision, targetRevision)
    /\ dna' = Changed([x \in ActiveVersions \cup {target} |->
                          IF x = target THEN "ACTIVE" ELSE "DEPRECATED"])
================================================================================
