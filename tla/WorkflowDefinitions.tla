-------------------------- MODULE WorkflowDefinitions --------------------------
(***************************************************************************)
(* Workflow definitions: their validation, the order in which their nodes  *)
(* may run and the registry that keeps one active version of each          *)
(* (workflow.py), and their composition from components (dna_composer.py). *)
(*                                                                         *)
(* For the registry a definition is its key, the edges of its graph (the   *)
(* dependencies and the branches) and the sub-workflows it names.  Node    *)
(* ids are numbers, which sort as the names do.                            *)
(*                                                                         *)
(* For the composer it has its own skill nodes, each with a risk and       *)
(* permissions, and the definitions its sub-workflow nodes name; its       *)
(* policy declares a timeout, parallelism and capabilities.  A parent is   *)
(* built from one to four components within limits that each call brings   *)
(* along.  Mappings of fields between components are left out.             *)
(***************************************************************************)
EXTENDS Naturals, FiniteSets, Sequences, FiniteSetsExt, SequencesExt

CONSTANTS Definitions    \* [key |-> <<workflow, version>>, nodes, edges, children]

ASSUME DefinitionsAssumption == \A d \in Definitions : IsFiniteSet(d.nodes) /\ d.nodes \subseteq Nat

VARIABLES
    registry,      \* key -> the registered definition with its status and order
    active         \* workflow -> the key of its active version

registryVars == <<registry, active>>

Incoming(left, edges, n) == {e \in edges : e[2] = n /\ e[1] \in left}

(* The loop of _topological_order(): the smallest ready node goes next.  A *)
(* node is ready once nothing that is left points at it.                   *)
TopologicalOrder(nodes, edges) ==
    LET step[left \in SUBSET nodes] ==
          LET ready == {n \in left : Incoming(left, edges, n) = {}} IN
          IF ready = {} THEN <<>> ELSE <<Min(ready)>> \o step[left \ {Min(ready)}]
    IN  step[nodes]

Valid(d) ==
    /\ d.key \notin d.children /\ d.children \subseteq DOMAIN registry
    /\ Len(TopologicalOrder(d.nodes, d.edges)) = Cardinality(d.nodes)

RegistryInit == registry = <<>> /\ active = <<>>

RegisterWorkflow(d, status) ==
    /\ Valid(d) /\ d.key \notin DOMAIN registry
    /\ registry' = [k \in DOMAIN registry \cup {d.key} |->
          IF k = d.key THEN [definition |-> d, status |-> status, order |-> TopologicalOrder(d.nodes, d.edges)]
          ELSE registry[k]]
    /\ UNCHANGED active

\* activate(): the version that was active is deprecated and may be activated again
Activate(key) ==
    LET previous == IF key[1] \in DOMAIN active THEN {active[key[1]]} ELSE {} IN
    /\ key \in DOMAIN registry /\ registry[key].status # "ACTIVE"
    /\ registry' = [k \in DOMAIN registry |->
          IF k = key THEN [registry[k] EXCEPT !.status = "ACTIVE"]
          ELSE IF k \in previous THEN [registry[k] EXCEPT !.status = "DEPRECATED"]
          ELSE registry[k]]
    /\ active' = [w \in DOMAIN active \cup {key[1]} |-> IF w = key[1] THEN key ELSE active[w]]

RegistryNext ==
    \/ \E d \in Definitions, s \in {"DRAFT", "VALIDATED", "DEPRECATED"} : RegisterWorkflow(d, s)
    \/ \E key \in DOMAIN registry : Activate(key)

\* From a definition of such a set a run would descend for ever
LeadsBack(keys) == keys # {} /\ \A k \in keys : registry[k].definition.children \cap keys # {}

(* Every registered definition can run to its end: its order runs every    *)
(* node once and after what it depends on, and the sub-workflows that it   *)
(* reaches are registered and never lead back to it.  One version of a     *)
(* workflow is active, and it is the one that is served.                   *)
RegisteredIsRunnable ==
    /\ \A keys \in SUBSET DOMAIN registry : ~ LeadsBack(keys)
    /\ \A k \in DOMAIN registry :
          LET d == registry[k].definition
              order == registry[k].order
          IN  /\ d.children \subseteq DOMAIN registry
              /\ {order[i] : i \in DOMAIN order} = d.nodes /\ Len(order) = Cardinality(d.nodes)
              /\ \A i, j \in DOMAIN order : <<order[i], order[j]>> \in d.edges => i < j
              /\ registry[k].status = "ACTIVE" <=> k[1] \in DOMAIN active /\ active[k[1]] = k

----------------------------------------------------------------------------
CONSTANTS
    BaseDna,          \* definitions registered by hand: name -> definition
    LimitSets,        \* the limits of the calls
    ComposedNames     \* bound: names for the parents

(* What is registered by hand names what was registered before it: the     *)
(* definitions have an order of age (validate, workflow.py:113-124).       *)
ASSUME CompositionAssumption ==
    /\ IsFiniteSet(DOMAIN BaseDna)
    /\ \A n \in DOMAIN BaseDna :
          /\ {"children", "skills", "gates"} \subseteq DOMAIN BaseDna[n]
          /\ BaseDna[n].children \in Seq(DOMAIN BaseDna) /\ IsFiniteSet(BaseDna[n].skills) /\ BaseDna[n].gates \in Nat
    /\ \E age \in [DOMAIN BaseDna -> 1..Cardinality(DOMAIN BaseDna)] :
          \A n \in DOMAIN BaseDna : \A c \in Range(BaseDna[n].children) : age[c] < age[n]
    /\ \A l \in LimitSets : l.nodes \in Nat

VARIABLES
    catalog,          \* name -> definition
    composed          \* name -> the limits it was composed within

compositionVars == <<catalog, composed>>

CompositionInit == catalog = BaseDna /\ composed = <<>>

Children(name) == catalog[name].children       \* a sequence, one per sub-workflow node
OwnNodes(name) == Cardinality(catalog[name].skills) + Len(Children(name)) + catalog[name].gates

SumOf(f) == MapThenSumSet(LAMBDA x : f[x], DOMAIN f)
MaxOf(s) == FoldLeft(LAMBDA x, y : IF x > y THEN x ELSE y, 0, s)

(* A faulty expansion: the nodes of the children alone.                    *)
NodesWithoutDescent(roots) == SumOf([i \in DOMAIN roots |-> OwnNodes(roots[i])])

(* _graph_metrics(): every path to a definition counts its nodes again.    *)
(* A definition is composed of older ones, so the descent ends.            *)
ExpandedNodes(roots) ==
    LET expand[name \in DOMAIN catalog] ==
          OwnNodes(name) + SumOf([i \in DOMAIN Children(name) |-> expand[Children(name)[i]]])
    IN  SumOf([i \in DOMAIN roots |-> expand[roots[i]]])

DepthOf(roots) ==
    LET depth[name \in DOMAIN catalog] ==
          1 + MaxOf([i \in DOMAIN Children(name) |-> depth[Children(name)[i]]])
    IN  MaxOf([i \in DOMAIN roots |-> depth[roots[i]]])

\* What compose() looks at: the policies of the components and their own skill nodes
Capabilities(roots) == UNION {catalog[r].capabilities : r \in Range(roots)}
DirectSkills(roots) == UNION {catalog[r].skills : r \in Range(roots)}

Governed(roots, limits) ==
    /\ Capabilities(roots) \subseteq limits.capabilities
    /\ \A s \in DirectSkills(roots) : s.permissions \subseteq limits.permissions /\ s.risk <= limits.risk

Timeouts(roots) == [i \in DOMAIN roots |-> catalog[roots[i]].timeout]
Parallelisms(roots) == [i \in DOMAIN roots |-> catalog[roots[i]].parallelism]

Compose(name, roots, parallel, limits) ==
    LET gate == IF parallel THEN 1 ELSE 0
        timeout == IF parallel THEN MaxOf(Timeouts(roots)) ELSE SumOf(Timeouts(roots))
        parallelism == IF parallel THEN SumOf(Parallelisms(roots)) ELSE MaxOf(Parallelisms(roots))
    IN  /\ name \notin DOMAIN catalog
        /\ Len(roots) \in 1..limits.components
        /\ parallel => Len(roots) > 1
        /\ \A r \in Range(roots) : catalog[r].composable
        /\ Governed(roots, limits)
        /\ DepthOf(roots) <= limits.depth
        /\ ExpandedNodes(roots) + Len(roots) + gate <= limits.nodes
        /\ timeout <= limits.timeout /\ parallelism <= limits.parallelism
        /\ catalog' = [n \in DOMAIN catalog \cup {name} |->
              IF n = name THEN [children |-> roots, skills |-> {}, gates |-> gate, timeout |-> timeout,
                                parallelism |-> parallelism, capabilities |-> Capabilities(roots),
                                composable |-> FALSE]
              ELSE catalog[n]]
        /\ composed' = [n \in DOMAIN composed \cup {name} |-> IF n = name THEN limits ELSE composed[n]]

\* A parent is a candidate: it can be a component once it has passed validation
Validate(name) ==
    /\ ~ catalog[name].composable
    /\ catalog' = [catalog EXCEPT ![name].composable = TRUE]
    /\ UNCHANGED composed

Roots == UNION {[1..n -> DOMAIN catalog] : n \in 1..2}

CompositionNext ==
    \/ \E name \in ComposedNames, roots \in Roots, parallel \in BOOLEAN, limits \in LimitSets :
          Compose(name, roots, parallel, limits)
    \/ \E name \in DOMAIN catalog : Validate(name)

(* What a run of a definition starts: a path of names and positions for    *)
(* every sub-workflow node that is reached.                                *)
Paths(name) ==
    LET walk[n \in DOMAIN catalog] ==
          {<<n>>} \cup UNION {{<<n, i>> \o p : p \in walk[Children(n)[i]]} : i \in DOMAIN Children(n)}
    IN  walk[name]

(* Executing a composed definition runs no more nodes than the limits it   *)
(* was composed within allow, however often a definition is shared.        *)
ExpansionIsBounded ==
    \A name \in DOMAIN composed :
       SumOf([p \in Paths(name) |-> OwnNodes(Last(p))]) <= composed[name].nodes

(* What is registered or composed can run, and runs no more than its       *)
(* limits allow.                                                           *)
DefinitionsAreSound == RegisteredIsRunnable /\ ExpansionIsBounded
=============================================================================
