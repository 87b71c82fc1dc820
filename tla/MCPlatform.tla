------------------------------ MODULE MCPlatform ------------------------------
(* Instances of the components of the platform that share no state: each    *)
(* behaviour runs one of them, so the state space is their sum.             *)
EXTENDS MemoryStores, InsightDelivery, LlmClient, SkillRegistry,
        WorkflowDefinitions, SubWorkflow, Cognition,
        SandboxRun, SearchGovernor, Database

Plain == [rules |-> <<>>, required |-> {}]
MCFieldValues == [number |-> {1, 2}, text |-> {3}]
Reads == Contract("read", 1, 1, Plain, Plain, "PURE", {"data"})
Writes == Contract("read", 2, 1, Plain, Plain, "IDEMPOTENT", {"data", "disk"})
Shows == Contract("read", 1, 1, Plain, Plain, "QUERYABLE", {"data", "disk"})
MCContracts == {Reads, Writes, Shows}
Package(skill, version, digest, contract, permissions, cost) ==
    [skill |-> skill, version |-> version, digest |-> digest, provides |-> contract,
     effect |-> contract.effect, permissions |-> permissions, cost |-> cost,
     queryable |-> contract.effect # "PURE"]
MCPackages == {Package("reader", 1, "d1", Reads, {}, 1), Package("reader", 1, "d2", Writes, {"data"}, 1),
               Package("other", 1, "d3", Writes, {"data"}, 0)}
MCRequirements == {[contract |-> Reads, permissions |-> {"data"}, effect |-> "PURE"],
                   [contract |-> Writes, permissions |-> {"data", "disk"}, effect |-> "QUERYABLE"]}

Graph(key, edges, children) == [key |-> key, nodes |-> {1, 2, 3}, edges |-> edges, children |-> children]
MCDefinitions ==
    {Graph(<<"a", 1>>, edges, {}) : edges \in SUBSET {<<1, 2>>, <<2, 3>>, <<3, 1>>, <<3, 2>>}}
    \cup {Graph(<<"a", 2>>, {<<3, 1>>}, {<<"b", 1>>}), Graph(<<"b", 1>>, {}, {<<"a", 1>>}),
          Graph(<<"b", 1>>, {}, {<<"a", 2>>}), Graph(<<"a", 3>>, {}, {<<"a", 3>>})}

Skill(timed) == [kind |-> "skill", child |-> "none", policy |-> "fail", timed |-> timed, undo |-> 0]
Sub(child, policy, timed, undo) == [kind |-> "sub", child |-> child, policy |-> policy, timed |-> timed, undo |-> undo]
MCWorkflowTrees ==
    {[root |-> <<Skill(FALSE), Sub("mid", "compensate", TRUE, 3), Skill(TRUE)>>,
      mid |-> <<Sub("leaf", "continue", TRUE, 0), Skill(FALSE)>>, leaf |-> <<Skill(TRUE)>>],
     [root |-> <<Sub("mid", "fail", FALSE, 0), Skill(FALSE)>>, mid |-> <<Sub("leaf", "fail", FALSE, 0)>>,
      leaf |-> <<Skill(FALSE), Sub("deep", "continue", FALSE, 0)>>, deep |-> <<Skill(FALSE)>>]}

Dna(children, skillset, timeout) ==
    [children |-> children, skills |-> skillset, gates |-> 0, timeout |-> timeout, parallelism |-> 1,
     capabilities |-> {"read"}, composable |-> TRUE]
MCBaseDna == [leaf |-> Dna(<<>>, {[permissions |-> {}, risk |-> 0]}, 1),
              harsh |-> Dna(<<>>, {[permissions |-> {"disk"}, risk |-> 2]}, 1),
              nest |-> Dna(<<"leaf", "harsh">>, {}, 2)]
Limits(nodes, permissions, risk) ==
    [components |-> 2, nodes |-> nodes, depth |-> 3, timeout |-> 6, parallelism |-> 3,
     capabilities |-> {"read"}, permissions |-> permissions, risk |-> risk]
MCLimitSets == {Limits(7, {}, 1), Limits(12, {"disk"}, 2)}

MCLines == {[seq |-> 1, at |-> 0, value |-> 0], [seq |-> 2, at |-> 1, value |-> 2], [seq |-> 3, at |-> 0, value |-> 1],
            [seq |-> 3, at |-> 2, value |-> 1]}

Goal(id, priority, domain, deadline, conditions) ==
    [id |-> id, enabled |-> id # 4, priority |-> priority, domain |-> domain, deadline |-> deadline, conditions |-> conditions]
Value(kind, value) == [kind |-> kind, value |-> value]
When(path, op, expected) == [path |-> path, op |-> op, expected |-> expected]
MCGoals ==
    {Goal(1, 1, "market", 1, {When("price", "LT", Value("number", 1)), When("open", "EQ", Value("number", 1))}),
     Goal(2, 2, "market", 2, {When("price", "GTE", Value("number", 2)), When("open", "NE", Value("flag", 0))}),
     Goal(3, 1, "review", 2, {}), Goal(4, 2, "review", 2, {})}
MCContexts ==
    {<<>>} \cup {[price |-> p, open |-> o] : p \in {Value("number", 0), Value("number", 2), Value("flag", 1)},
                                          o \in {Value("flag", 0), Value("flag", 1)}}
MCStimuli == {[id |-> 2, key |-> 7, type |-> "salient", priority |-> 2]}
MCInjected == {[id |-> 1, key |-> NoKey, command |-> "status", priority |-> 1], [id |-> 3, key |-> 7, command |-> "status", priority |-> 2],
               [id |-> 4, key |-> NoKey, command |-> "order", priority |-> 3], [id |-> 5, key |-> NoKey, command |-> "shell", priority |-> 3]}
MCAllowedCommands == [status |-> FALSE, order |-> TRUE]
MCPlanRules == {[id |-> 1, goal |-> 2, types |-> {"command", "salient"}, model |-> TRUE, ttl |-> 2],
                [id |-> 2, goal |-> 1, types |-> {"command"}, model |-> FALSE, ttl |-> 1],
                [id |-> 3, goal |-> 3, types |-> {"salient"}, model |-> TRUE, ttl |-> 2]}

MCPhaseOf == [h \in 0..2 |-> CASE h = 0 -> "CLOSED" [] h = 1 -> "TRADING" [] OTHER -> "CLOSED"]

Candidate(id, kind, class, at, base, deadline, cost, gates) ==
    [id |-> id, kind |-> kind, class |-> class, at |-> at, base |-> base, deadline |-> deadline, cost |-> cost,
     penalty |-> 0, ready |-> "waits" \notin gates, free |-> "conflicts" \notin gates, safe |-> "safe" \in gates]
MCCompetitors ==
    {Candidate(1, "STIMULUS", "NORMAL", 1, 3, NoDeadline, 0, {}), Candidate(2, "STIMULUS", "NORMAL", 0, 3, NoDeadline, 0, {}),
     Candidate(3, "RUN", "RECOVERY", 0, 2, NoDeadline, 2, {"safe"}), Candidate(4, "RUN", "REALTIME", 1, 4, 2, 1, {"safe"}),
     Candidate(5, "RUN", "BACKGROUND", 0, 1, NoDeadline, 1, {}), Candidate(6, "RUN", "NORMAL", 0, 5, NoDeadline, 0, {"waits"}),
     Candidate(7, "RUN", "NORMAL", 0, 5, 3, 0, {"conflicts"})}
MCBudgets == {[mode |-> mode, slots |-> slots, cost |-> 2] : mode \in {"NORMAL", "REVIEW", "SAFE"}, slots \in {1, 2}}

MCPlans == {<<<<1, 0, 1>>>>, <<<<0, 2>>, <<1, 0>>>>, <<<<1, 1>>, <<2>>>>, <<<<3, 0, 1>>>>, <<<<0>>, <<0, 1>>, <<1>>>>}

Task(home, kind) == [home |-> home, kind |-> kind]
MCDeployments ==
    {[start |-> Task("app", "initialize"), one |-> Task("app", "unit"), two |-> Task("app", "unit"),
      ask |-> Task("app", "query")],
     [start |-> Task("app", "initialize"), two |-> Task("app", "unit"), end |-> Task("app", "close"),
      update |-> Task("cli", "initialize")]}
MCMigrations == <<"first", "second">>
MCKnown == [app |-> 1, cli |-> 2]
MCStatements == [one |-> 2, two |-> 1, first |-> 2, second |-> 1]

\* A policy whose exploitation bounds are all met at once, and checkpoints at the edges of the window
MCSearchPolicies ==
    {DefaultPolicy, [DefaultPolicy EXCEPT !.max.mutate = 3500, !.max.crossover = 3000, !.max.perturb = 1500,
                                          !.stagnation = 1]}
MCCheckpoints ==
    {[steer |-> [rounds |-> 4, momentum |-> 2500, share |-> share, step |-> 2, streak |-> 2],
      weights |-> [mutate |-> w[1], crossover |-> w[2], perturb |-> w[3], random |-> One - w[4], llm |-> w[4]]] :
        share \in {1500, 2000, 3000, 5500},
        w \in {<<9600, 200, 200, 200>>, <<200, 200, 9600, 9500>>, <<4900, 4900, 200, 5000>>, <<300, 9000, 700, 3000>>}}
MCParents == {[parents |-> {}, seen |-> {}], [parents |-> {1}, seen |-> {1, 2}]}

ASSUME SearchAssumption == \A p \in MCSearchPolicies : ValidPolicy(p)

VARIABLES
    part,
    searching      \* the search of factors: <<>> or <<[policy, search, done]>>

(* A search starts or is restored from a checkpoint; then rounds follow.   *)
(* Trees are numbers: the batch of a round is any two of them.             *)
SearchInit == searching = <<>>

SearchBegins(p, search) ==
    /\ searching = <<>>
    /\ Restorable(p, search)
    /\ searching' = <<[policy |-> p, search |-> search, done |-> 0]>>

SearchRound(known, trees, proposed, backtested, kept) ==
    LET x == searching[1] IN
    /\ searching # <<>> /\ x.done < 1
    /\ searching' = <<[x EXCEPT !.done = @ + 1,
          !.search = RoundOfSearch(x.policy, @, Len(trees), known.parents, known.seen, trees, proposed, backtested, kept)]>>

SearchNext ==
    \/ \E p \in MCSearchPolicies, c \in MCCheckpoints \cup {NewSearch(DefaultPolicy)} : SearchBegins(p, c)
    \/ \E known \in MCParents, trees \in [1..3 -> 1..2], proposed \in 0..1 :
         \E backtested \in SUBSET (Range(trees) \ known.seen) : \E kept \in SUBSET backtested :
            SearchRound(known, trees, proposed, backtested, kept)

vars == <<part, searching, artifactVars, memoryVars, deliveryVars, llmVars, contractVars, skillVars, registryVars, treeVars,
          compositionVars, perceptionVars, coordinationVars, entryVars, controllerVars,
          policyVars, sandboxVars, databaseVars>>

Init ==
    /\ part \in {"artifacts", "memory", "delivery", "llm", "contracts", "skills", "workflows", "trees", "dna",
                 "perception", "coordination", "entries", "controller", "policy", "sandbox", "search", "database"}
    /\ ArtifactInit /\ MemoryInit /\ DeliveryInit /\ LlmInit /\ ContractInit /\ SkillInit /\ RegistryInit /\ TreeInit
    /\ CompositionInit /\ PerceptionInit /\ CoordinationInit /\ EntryInit /\ ControllerInit
    /\ PolicyInit /\ SandboxInit /\ SearchInit /\ DatabaseInit
    \* Where a component that does not run starts makes no difference
    /\ part # "delivery" => subscription = CHOOSE s \in [channel : Channels, enabled : {TRUE}] : TRUE
    /\ part # "trees" => tree = CHOOSE t \in WorkflowTrees : TRUE
    /\ part # "sandbox" => plan = (CHOOSE p \in SandboxPlans : TRUE) /\ fault = "NONE"
    /\ part # "database" => callers = CHOOSE c \in Deployments : TRUE

Next ==
    /\ UNCHANGED part
    /\ part = "artifacts" => ArtifactNext
    /\ part # "artifacts" => UNCHANGED artifactVars
    /\ part = "memory" => MemoryNext
    /\ part # "memory" => UNCHANGED memoryVars
    /\ part = "delivery" => DeliveryNext
    /\ part # "delivery" => UNCHANGED deliveryVars
    /\ part = "llm" => LlmNext
    /\ part # "llm" => UNCHANGED llmVars
    /\ part = "contracts" => CompareSchemas
    /\ part # "contracts" => UNCHANGED contractVars
    /\ part = "skills" => SkillNext
    /\ part # "skills" => UNCHANGED skillVars
    /\ part = "workflows" => RegistryNext
    /\ part # "workflows" => UNCHANGED registryVars
    /\ part = "trees" => TreeNext
    /\ part # "trees" => UNCHANGED treeVars
    /\ part = "dna" => CompositionNext
    /\ part # "dna" => UNCHANGED compositionVars
    /\ part = "perception" => PerceptionNext
    /\ part # "perception" => UNCHANGED perceptionVars
    /\ part = "coordination" => CoordinationNext
    /\ part # "coordination" => UNCHANGED coordinationVars
    /\ part = "entries" => EntryNext
    /\ part # "entries" => UNCHANGED entryVars
    /\ part = "controller" => ControllerNext
    /\ part # "controller" => UNCHANGED controllerVars
    /\ part = "policy" => PolicyNext
    /\ part # "policy" => UNCHANGED policyVars
    /\ part = "sandbox" => SandboxNext
    /\ part # "sandbox" => UNCHANGED sandboxVars
    /\ part = "search" => SearchNext
    /\ part # "search" => UNCHANGED searching
    /\ part = "database" => DatabaseNext
    /\ part # "database" => UNCHANGED databaseVars

Spec == Init /\ [][Next]_vars

(* Whatever rounds did to the share and the weights, and whatever a search *)
(* was restored from: the next quota can be computed, keeps each strategy  *)
(* in the bounds of the policy and is a whole, its counts are the batch,   *)
(* and what a round leaves for the checkpoint can be restored.             *)
QuotaIsKept ==
    \A i \in DOMAIN searching :
        LET p == searching[i].policy
            quota == Quota(p, searching[i].search)
            counts == Allocate(quota.ratios, 3)
        IN  /\ quota.converged
            /\ Near(Sum(quota.ratios, DOMAIN quota.ratios), One, 4 * Rounding)
            /\ \A s \in DOMAIN counts :
                  /\ quota.ratios[s] \in (p.min[s] - Rounding)..(p.max[s] + Rounding)
                  /\ Near(One * counts[s], 3 * quota.ratios[s], One)
            /\ Sum(counts, DOMAIN counts) = 3
            /\ Restorable(p, searching[i].search)
=============================================================================
