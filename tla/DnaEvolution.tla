----------------------------- MODULE DnaEvolution ------------------------------
(***************************************************************************)
(* From evidence to a selected candidate: proposals (dna_candidates.py,    *)
(* apps/quant_agent/candidate_service.py and auto_evolution.py), sandbox   *)
(* replays (dna_replay.py) and selections (dna_selection.py).              *)
(*                                                                         *)
(* A replay and a selection take two transactions: one checks the stored   *)
(* sources and the id, one writes the report.  Between them the sandbox    *)
(* runs, and other calls may use the same id.  An answer is recorded in    *)
(* "answered" when the call returns it.                                    *)
(***************************************************************************)
EXTENDS Integers, Sequences, FiniteSets, FiniteSetsExt, SequencesExt

-----------------------------------------------------------------------------
(* What the evolution pipeline knows and how it judges.  The judgements    *)
(* come first, without state: what a proposal may change                   *)
(* (dna_candidates.py), when a replay passes (dna_replay.py) and which     *)
(* candidates survive (dna_selection.py).  Then the evidence: fitness      *)
(* observations and their snapshots (dna_fitness.py), and sealed datasets  *)
(* (experience_dataset.py); every operation on it is one transaction.      *)
(*                                                                         *)
(* A workflow is a function from its nodes to records                      *)
(*   binding  its capability and version,   effect  its side effect,       *)
(*   input, limit   what a mutation may set.                               *)
(* A vector of a replay is a function from Dimensions to numbers, larger   *)
(* is better (costs, latencies and risk rates are negated).                *)

CONSTANTS
    MutablePaths, AllowedBindings, MaxEffect, MaxOperations, MaxNodes,  \* CandidatePolicy
    Dimensions, Slack,                    \* ReplayPolicy: the loss a dimension may show
    MaximumSurvivors, MinimumNovelty      \* SelectionPolicy, novelty in parts of Scale

EffectRank == [PURE |-> 0, IDEMPOTENT |-> 1, QUERYABLE |-> 2, NON_REPLAYABLE |-> 3]

\* CandidateOperation: what it changes, of which node, to which value
Kinds == {"SET_INPUT", "SET_CONSTRAINT", "SET_CAPABILITY_VERSION", "ADD_SKILL_NODE",
          "REMOVE_NODE", "REPLACE_FROM_DONOR"}

Path(op) ==
    CASE op.kind \in {"ADD_SKILL_NODE", "REMOVE_NODE"} -> <<"nodes">>
      [] op.kind = "REPLACE_FROM_DONOR" -> <<"node", op.node>>
      [] OTHER -> <<op.kind, op.node>>

Applies(workflow, donor, op) ==
    CASE op.kind = "ADD_SKILL_NODE" -> op.node \notin DOMAIN workflow
      [] op.kind = "REPLACE_FROM_DONOR" -> op.node \in DOMAIN workflow \cap DOMAIN donor
      [] OTHER -> op.node \in DOMAIN workflow

Apply(workflow, donor, op) ==
    CASE op.kind = "ADD_SKILL_NODE" ->
           [n \in DOMAIN workflow \cup {op.node} |-> IF n = op.node THEN op.value ELSE workflow[n]]
      [] op.kind = "REMOVE_NODE" -> [n \in DOMAIN workflow \ {op.node} |-> workflow[n]]
      [] op.kind = "REPLACE_FROM_DONOR" -> [workflow EXCEPT ![op.node] = donor[op.node]]
      [] op.kind = "SET_INPUT" -> [workflow EXCEPT ![op.node].input = op.value]
      [] op.kind = "SET_CONSTRAINT" -> [workflow EXCEPT ![op.node].limit = op.value]
      [] op.kind = "SET_CAPABILITY_VERSION" -> [workflow EXCEPT ![op.node].binding = op.value]

\* A faulty generator that does not look at the path of an operation
GeneratedAnywhere(base, donor, operations) ==
    FoldLeft(LAMBDA done, op : {Apply(w, donor, op) : w \in {x \in done : Applies(x, donor, op)}},
             {base}, operations)

\* The workflow after the operations in their order, or {} when one of them
\* raises: it is outside the mutable paths or does not fit the workflow
Generated(base, donor, operations) ==
    FoldLeft(LAMBDA done, op :
                {Apply(w, donor, op) : w \in {x \in done :
                     Path(op) \in MutablePaths /\ Applies(x, donor, op)}},
             {base}, operations)

WithinPolicy(workflow) ==
    /\ DOMAIN workflow # {} /\ Cardinality(DOMAIN workflow) <= MaxNodes
    /\ \A n \in DOMAIN workflow :
         /\ workflow[n].binding \in AllowedBindings
         /\ workflow[n].limit >= 0
         /\ EffectRank[workflow[n].effect] <= EffectRank[MaxEffect]

\* A mutation has no donor and replaces nothing from one, a crossover does both
WellFormed(request) ==
    LET crosses == \E i \in DOMAIN request.operations :
                      request.operations[i].kind = "REPLACE_FROM_DONOR"
    IN  /\ request.operations # <<>>
        /\ Len(request.operations) <= MaxOperations
        /\ crosses <=> request.donor # "none"
        /\ request.version \notin {request.base, request.donor}

----------------------------------------------------------------------------
\* The reasons for which a replay fails; it passes when there are none
Reasons(parent, candidate, steady) ==
    {d \in Dimensions : candidate[d] < parent[d] - Slack[d]}
    \cup (IF steady THEN {} ELSE {"nondeterministic"})
    \cup (IF candidate["risk_rate"] < 0 THEN {"candidate_risk_exceeded"} ELSE {})

----------------------------------------------------------------------------
Dominates(a, b) ==
    /\ \A d \in Dimensions : a[d] >= b[d]
    /\ \E d \in Dimensions : a[d] > b[d]

Scale == 60

\* One minus the largest Jaccard similarity to another member
Novelty(signature, p) ==
    LET others == {q \in DOMAIN signature : q # p}
        similarity(q) == (Cardinality(signature[p] \cap signature[q]) * Scale)
                         \div Cardinality(signature[p] \cup signature[q])
    IN  IF others = {} THEN Scale ELSE Scale - Max({similarity(q) : q \in others})

\* _select(): members is a sequence of records in the order of their ids,
\* with content, vector, passed and signature
Duplicates(members) ==
    {i \in DOMAIN members : \E j \in 1..(i - 1) : members[j].content = members[i].content}

ParetoFront(members) ==
    LET eligible == {i \in DOMAIN members \ Duplicates(members) : members[i].passed}
    IN  {i \in eligible : ~\E j \in eligible : Dominates(members[j].vector, members[i].vector)}

\* What may survive: the front, as far as it is novel
Novel(members) ==
    LET signature == [i \in DOMAIN members |-> members[i].signature]
    IN  {i \in ParetoFront(members) : Novelty(signature, i) >= MinimumNovelty}

\* By novelty, then success, then evidence; the id decides the rest
Ranked(members) ==
    LET signature == [i \in DOMAIN members |-> members[i].signature]
        rank(i) == <<Novelty(signature, i), members[i].vector["success_rate"],
                     members[i].vector["evidence_score"], -i>>
        above(i, j) == \E k \in 1..4 : /\ rank(i)[k] > rank(j)[k]
                                       /\ \A l \in 1..(k - 1) : rank(i)[l] = rank(j)[l]
    IN  SetToSortSeq(Novel(members), above)

Survivors(members) ==
    LET ranked == Ranked(members)
        count == Cardinality(Novel(members))
    IN  {ranked[k] : k \in 1..(IF count < MaximumSurvivors THEN count ELSE MaximumSurvivors)}

Disposition(members, i) ==
    IF i \in Duplicates(members) THEN "DUPLICATE"
    ELSE IF ~members[i].passed THEN "HARD_REJECTED"
    ELSE IF i \notin ParetoFront(members) THEN "DOMINATED"
    ELSE IF i \in Survivors(members) THEN "SELECTED" ELSE "CAPACITY"

----------------------------------------------------------------------------
CONSTANTS
    Evaluations,      \* persisted outcome evaluations inside the window
    Facts,            \* of each: the version it is attributed to, its time and what it reports
    Dnas,             \* registered versions
    Datasets,         \* dataset versions, all of one spec
    Keys, Threshold,  \* WEAKNESS_THRESHOLDS, in per cent
    MinimumSamples,   \* of a snapshot
    PerDna,           \* minimum_samples_per_dna
    MaxRevision       \* bound: projections of one snapshot

VARIABLES
    rows,       \* dna_fitness_observation: the evaluations that are projected
    snapshot,   \* dna_fitness_snapshot by version
    closed,     \* whether the window has ended
    sealed      \* dna_experience_sample by dataset, {} before it is built

evidenceVars == <<rows, snapshot, closed, sealed>>

Readiness == {"COLLECTING", "OBSERVING", "READY", "RISK_BLOCKED"}
Splits == {"TRAIN", "VALIDATION", "TEST"}
Fact == [dna : Dnas, split : Splits, risky : BOOLEAN, score : [Keys -> 0..100]]

NoSnapshot == [count |-> 0, risks |-> 0, mean |-> [k \in Keys |-> 0],
               readiness |-> "COLLECTING", revision |-> 0]

EvidenceInit ==
    /\ rows = {}
    /\ snapshot = [d \in Dnas |-> NoSnapshot]
    /\ closed = FALSE
    /\ sealed = [x \in Datasets |-> {}]

RowsOf(stored, d) == {e \in stored : Facts[e].dna = d}

\* the maximum risk rate is zero
ReadinessOf(count, risks, ended) ==
    IF count < MinimumSamples THEN "COLLECTING"
    ELSE IF risks > 0 THEN "RISK_BLOCKED"
    ELSE IF ended THEN "READY" ELSE "OBSERVING"

\* _rebuild(): the snapshot over all rows of a version
Rebuilt(stored, d) ==
    LET mine == RowsOf(stored, d)
        count == Cardinality(mine)
        risks == Cardinality({e \in mine : Facts[e].risky})
    IN  [count |-> count, risks |-> risks,
         mean |-> [k \in Keys |-> MapThenSumSet(LAMBDA e : Facts[e].score[k], mine) \div count],
         readiness |-> ReadinessOf(count, risks, closed),
         revision |-> snapshot[d].revision + 1]

\* project(): a second projection of an evaluation finds its row and
\* returns the snapshot as it is
Project(e) ==
    LET d == Facts[e].dna
    IN  /\ e \notin rows /\ snapshot[d].revision < MaxRevision
        /\ rows' = rows \cup {e}
        /\ snapshot' = [snapshot EXCEPT ![d] = Rebuilt(rows', d)]
        /\ UNCHANGED <<closed, sealed>>

Refresh(d) ==
    /\ snapshot[d].revision \in 1..(MaxRevision - 1)
    /\ snapshot' = [snapshot EXCEPT ![d] = Rebuilt(rows, d)]
    /\ UNCHANGED <<rows, closed, sealed>>

CloseWindow ==
    /\ ~closed /\ closed' = TRUE
    /\ UNCHANGED <<rows, snapshot, sealed>>

\* build(): the samples are the rows of the moment; a dataset that exists is
\* loaded, not built again
Buildable(x) == sealed[x] = {} /\ \A d \in Dnas : Cardinality(RowsOf(rows, d)) >= PerDna

BuildDataset(x) ==
    /\ Buildable(x)
    /\ sealed' = [sealed EXCEPT ![x] = rows]
    /\ UNCHANGED <<rows, snapshot, closed>>

\* What a replay may use of a dataset
HeldOut(x) == {e \in sealed[x] : Facts[e].split # "TRAIN"}

\* detect_weakness(): the score that falls short the most
Weak(s) == {k \in Keys : s.mean[k] < Threshold[k]}
Weakness(s) ==
    CHOOSE k \in Weak(s) : \A l \in Weak(s) : s.mean[k] - Threshold[k] <= s.mean[l] - Threshold[l]

EvidenceNext ==
    \/ \E e \in Evaluations : Project(e)
    \/ \E d \in Dnas : Refresh(d)
    \/ \E x \in Datasets : BuildDataset(x)
    \/ CloseWindow

\* A snapshot counts every observation of its version exactly once, in
\* whatever order and however often they were projected, and no version with
\* an observed risk is READY once it has its samples
\* (DnaFitnessProjector.project and refresh).
SnapshotsAreTrue ==
    \A d \in Dnas :
        snapshot[d].revision > 0 =>
          /\ snapshot[d].count = Cardinality(RowsOf(rows, d))
          /\ snapshot[d].risks = Cardinality({e \in RowsOf(rows, d) : Facts[e].risky})
          /\ snapshot[d].readiness \in {"OBSERVING", "READY"}
               => \A e \in RowsOf(rows, d) : ~Facts[e].risky

-----------------------------------------------------------------------------
CONSTANTS
    Calls,
    Proposals, Replays, Selections,   \* ids
    Requests,       \* candidate requests a caller may make under any id
    Workflows,      \* the workflow of each registered version
    Active,         \* the version that is active
    AutoValue,      \* what the rule strategy writes into an input
    Measures,       \* vectors that the sandbox may measure
    Parent          \* the vector of the parent

NodeFields == {"binding", "effect", "input", "limit"}

\* Operations on one node each; an added node is complete
AreOperations(operations) ==
    /\ DOMAIN operations = 1..Len(operations) /\ Len(operations) \in Nat
    /\ \A i \in DOMAIN operations :
         /\ operations[i].kind \in Kinds
         /\ operations[i].kind = "ADD_SKILL_NODE" => DOMAIN operations[i].value = NodeFields

\* Proposals, replays and selections have a table each
ASSUME EvolutionAssumption ==
    /\ IsFiniteSet(Evaluations) /\ MaximumSurvivors \in Nat
    /\ Proposals \cap Replays = {} /\ Selections \cap (Proposals \cup Replays) = {}
    /\ "none" \notin Proposals
    /\ Measures \subseteq [Dimensions -> Int] /\ "risk_rate" \in Dimensions
    /\ Active \in DOMAIN Workflows
    /\ \A d \in DOMAIN Workflows : \A n \in DOMAIN Workflows[d] : DOMAIN Workflows[d][n] = NodeFields
    /\ \A request \in Requests :
         /\ request.base \in DOMAIN Workflows /\ request.donor \in DOMAIN Workflows \cup {"none"}
         /\ request.dataset \in Datasets /\ AreOperations(request.operations)

VARIABLES proposal, replay, selection, answered, call

evolutionVars == <<evidenceVars, proposal, replay, selection, answered, call>>

NoProposal == [content |-> {}, version |-> "none", base |-> "none", dataset |-> "none",
               signature |-> {}]
NoReplay == [proposal |-> "none", passed |-> FALSE, vector |-> <<>>, cases |-> {}]
NoSelection == <<>>
NoCall == [pc |-> "idle", id |-> "none", argument |-> <<>>]

Keyed == Proposals \cup Replays \cup Selections

EvolutionInit ==
    /\ EvidenceInit
    /\ proposal = [p \in Proposals |-> NoProposal]
    /\ replay = [r \in Replays |-> NoReplay]
    /\ selection = [s \in Selections |-> NoSelection]
    /\ answered = [k \in Keyed |-> {}]
    /\ call = [c \in Calls |-> NoCall]

Answers(k, row) == answered' = [answered EXCEPT ![k] = @ \cup {row}]
Returns(c) == call' = [call EXCEPT ![c] = NoCall]

----------------------------------------------------------------------------
\* generate(): everything but the storage is decided by the request
Candidate(request) ==
    Generated(Workflows[request.base],
              IF request.donor = "none" THEN <<>> ELSE Workflows[request.donor],
              request.operations)

Sources(request) == {request.base, request.donor} \ {"none"}

\* _validate_sources(): each parent has a sample in the sealed dataset
FromDataset(request) ==
    \A d \in Sources(request) : \E e \in sealed[request.dataset] : Facts[e].dna = d

ProposalRow(request) ==
    [content |-> Candidate(request), version |-> request.version, base |-> request.base,
     dataset |-> request.dataset,
     signature |-> {request.operations[i] : i \in DOMAIN request.operations}]

\* The transaction of generate(): an id that exists answers with its row if
\* that is the same, and content that another proposal has is refused
Stores(p, request) ==
    LET row == ProposalRow(request)
    IN  /\ WellFormed(request)
        /\ \E w \in row.content : WithinPolicy(w)
        /\ sealed[request.dataset] # {}
        /\ FromDataset(request)
        /\ IF proposal[p] = NoProposal
             THEN /\ \A q \in Proposals : <<proposal[q].content, proposal[q].version>>
                                           # <<row.content, row.version>>
                  /\ proposal' = [proposal EXCEPT ![p] = row]
             ELSE proposal[p] = row /\ UNCHANGED proposal
        /\ Answers(p, row)

Generate(p, request) ==
    /\ Stores(p, request)
    /\ UNCHANGED <<evidenceVars, replay, selection, call>>

\* auto_plan_candidate() reads the active version and its latest snapshot
PlanCandidate(c, p) ==
    /\ call[c] = NoCall
    /\ snapshot[Active].revision > 0
    /\ snapshot[Active].readiness # "RISK_BLOCKED"
    /\ Weak(snapshot[Active]) # {}
    /\ call' = [call EXCEPT ![c] = [pc |-> "drive", id |-> p,
                                    argument |-> <<Weakness(snapshot[Active])>>]]
    /\ UNCHANGED <<evidenceVars, proposal, replay, selection, answered>>

\* RuleEvolutionStrategy: one input of a skill node is rewritten after the
\* weakness it read; the version is the next one
AutoRequest(weakness, node, dataset) ==
    [base |-> Active, donor |-> "none", version |-> "next", dataset |-> dataset,
     operations |-> <<[kind |-> "SET_INPUT", node |-> node, value |-> AutoValue[weakness]]>>]

Drive(c) ==
    /\ call[c].pc = "drive"
    /\ \/ \E n \in DOMAIN Workflows[Active], x \in Datasets :
             Stores(call[c].id, AutoRequest(call[c].argument[1], n, x))
       \/ UNCHANGED <<proposal, answered>>     \* propose_candidate() rejects it
    /\ Returns(c)
    /\ UNCHANGED <<evidenceVars, replay, selection>>

----------------------------------------------------------------------------
\* _validate_sources(): a stored proposal over a registered base and a sealed
\* dataset, and nothing in either workflow that cannot be repeated
Replayable(p) ==
    /\ proposal[p] # NoProposal
    /\ proposal[p].base \in DOMAIN Workflows
    /\ sealed[proposal[p].dataset] # {}
    /\ \A w \in proposal[p].content \cup {Workflows[proposal[p].base]} :
         \A n \in DOMAIN w : w[n].effect # "NON_REPLAYABLE"

\* run(): its first transaction.  An id that exists is answered from its
\* row, or refused for another request.
StartReplay(c, r, p) ==
    /\ call[c] = NoCall
    /\ Replayable(p)
    /\ HeldOut(proposal[p].dataset) # {}
    /\ replay[r] = NoReplay
    /\ call' = [call EXCEPT ![c] = [pc |-> "sandbox", id |-> r, argument |-> <<p>>]]
    /\ UNCHANGED <<evidenceVars, proposal, replay, selection, answered>>

GetReplay(r) ==
    /\ replay[r] # NoReplay
    /\ Answers(r, replay[r])
    /\ UNCHANGED <<evidenceVars, proposal, replay, selection, call>>

\* The sandbox measures, and the second transaction stores the report: the
\* first one to be stored is the answer to all of the same request
SandboxReport(p, vector, steady) ==
    [proposal |-> p, passed |-> Reasons(Parent, vector, steady) = {}, vector |-> vector,
     cases |-> HeldOut(proposal[p].dataset)]

\* A faulty second transaction that answers with its own report
SaveReplayOwn(c) ==
    LET r == call[c].id
        p == call[c].argument[1]
    IN  /\ call[c].pc = "sandbox"
        /\ \E vector \in Measures, steady \in BOOLEAN :
              LET report == SandboxReport(p, vector, steady)
              IN  /\ replay' = IF replay[r] = NoReplay THEN [replay EXCEPT ![r] = report] ELSE replay
                  /\ Answers(r, report)
        /\ Returns(c)
        /\ UNCHANGED <<evidenceVars, proposal, selection>>

SaveReplay(c) ==
    LET r == call[c].id
        p == call[c].argument[1]
    IN  /\ call[c].pc = "sandbox"
        /\ \/ /\ replay[r] = NoReplay
              /\ \E vector \in Measures, steady \in BOOLEAN :
                    /\ replay' = [replay EXCEPT ![r] = SandboxReport(p, vector, steady)]
                    /\ Answers(r, SandboxReport(p, vector, steady))
           \/ /\ replay[r].proposal = p
              /\ Answers(r, replay[r]) /\ UNCHANGED replay
           \/ /\ replay[r].proposal \notin {p, "none"}
              /\ UNCHANGED <<replay, answered>>
        /\ Returns(c)
        /\ UNCHANGED <<evidenceVars, proposal, selection>>

----------------------------------------------------------------------------
\* select(): the population is a sequence of replays in the order of their
\* proposals, each stored for its proposal
Population(rs) ==
    /\ \A i \in DOMAIN rs : replay[rs[i]] # NoReplay
    /\ \A i, j \in DOMAIN rs : i # j => replay[rs[i]].proposal # replay[rs[j]].proposal

Members(rs) ==
    [i \in DOMAIN rs |->
        LET row == proposal[replay[rs[i]].proposal]
        IN  [content |-> <<row.content, row.version>>, vector |-> replay[rs[i]].vector,
             passed |-> replay[rs[i]].passed, signature |-> row.signature]]

StartSelection(c, s, rs) ==
    /\ call[c] = NoCall
    /\ selection[s] = NoSelection
    /\ Population(rs)
    /\ call' = [call EXCEPT ![c] = [pc |-> "select", id |-> s, argument |-> rs]]
    /\ UNCHANGED <<evidenceVars, proposal, replay, selection, answered>>

\* The report is written in a second transaction; its key refuses a second
\* report, and a population without survivors raises
SaveSelection(c) ==
    LET s == call[c].id
        rs == call[c].argument
        report == [i \in DOMAIN rs |->
                     [replay |-> rs[i], disposition |-> Disposition(Members(rs), i)]]
    IN  /\ call[c].pc = "select"
        /\ IF selection[s] = NoSelection /\ Survivors(Members(rs)) # {}
             THEN /\ selection' = [selection EXCEPT ![s] = report]
                  /\ Answers(s, report)
             ELSE UNCHANGED <<selection, answered>>
        /\ Returns(c)
        /\ UNCHANGED <<evidenceVars, proposal, replay>>

GetSelection(s) ==
    /\ selection[s] # NoSelection
    /\ Answers(s, selection[s])
    /\ UNCHANGED <<evidenceVars, proposal, replay, selection, call>>

CrashCall(c) ==
    /\ call[c] # NoCall /\ Returns(c)
    /\ UNCHANGED <<evidenceVars, proposal, replay, selection, answered>>

EvolutionNext ==
    \/ EvidenceNext /\ UNCHANGED <<proposal, replay, selection, answered, call>>
    \/ \E p \in Proposals, request \in Requests : Generate(p, request)
    \/ \E c \in Calls :
         \/ Drive(c) \/ SaveReplay(c) \/ SaveSelection(c) \/ CrashCall(c)
         \/ \E p \in Proposals : PlanCandidate(c, p) \/ \E r \in Replays : StartReplay(c, r, p)
         \/ \E s \in Selections, rs \in [1..2 -> Replays] : StartSelection(c, s, rs)
    \/ \E r \in Replays : GetReplay(r)
    \/ \E s \in Selections : GetSelection(s)

EvolutionSpec == EvolutionInit /\ [][EvolutionNext]_evolutionVars

----------------------------------------------------------------------------
\* A selected candidate earned it: its stored replay passed on samples that
\* are still in the sealed dataset of its proposal and none of them from
\* training, nobody in its population that passed dominates it, and no more
\* survive than the policy allows (_select and DnaSandboxReplay.run).
SelectedPassedItsGates ==
    \A s \in Selections :
        LET members == selection[s]
            chosen == {i \in DOMAIN members : members[i].disposition = "SELECTED"}
            row(i) == replay[members[i].replay]
            better(i, j) == /\ row(i).vector # row(j).vector
                            /\ \A d \in Dimensions : row(i).vector[d] >= row(j).vector[d]
        IN  /\ Cardinality(chosen) <= MaximumSurvivors
            /\ \A i \in chosen :
                 /\ row(i).passed /\ row(i).vector["risk_rate"] >= 0
                 /\ row(i).cases = HeldOut(proposal[row(i).proposal].dataset)
                 /\ ~\E j \in DOMAIN members : row(j).passed /\ better(j, i)

\* A stored proposal differs from its base only where the policy lets it:
\* no binding outside the allowed ones, no stronger side effect, and no
\* change of a node that no mutable path reaches (DnaCandidateGenerator).
BoundaryHolds ==
    \A p \in Proposals : proposal[p] # NoProposal =>
        \E w \in proposal[p].content :
            LET base == Workflows[proposal[p].base]
            IN  /\ \A n \in DOMAIN w : /\ w[n].binding \in AllowedBindings
                                       /\ EffectRank[w[n].effect] <= EffectRank[MaxEffect]
                /\ <<"nodes">> \notin MutablePaths => DOMAIN w = DOMAIN base
                /\ \A n \in DOMAIN w \cap DOMAIN base :
                     ({<<"nodes">>, <<"node", n>>, <<"SET_INPUT", n>>} \cap MutablePaths = {})
                       => w[n].input = base[n].input

\* Nothing is promoted on less: evidence, proposals and selections hold up.
EvolutionIsSound == SnapshotsAreTrue /\ BoundaryHolds /\ SelectedPassedItsGates

\* Every answer about a proposal, a replay or a selection is the one row
\* that is stored for its id, however many calls race for it.
StoredFor(k) ==
    IF k \in Proposals THEN {proposal[k]} \ {NoProposal}
    ELSE IF k \in Replays THEN {replay[k]} \ {NoReplay} ELSE {selection[k]} \ {NoSelection}
Reports == INSTANCE WriteOnce WITH
    Keys <- Keyed, None <- {}, stored <- [k \in Keyed |-> StoredFor(k)],
    answered <- [k \in Keyed |-> {{row} : row \in answered[k]}]
ImplementsWriteOnce == Reports!Spec
=============================================================================
