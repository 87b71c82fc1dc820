---------------------------- MODULE SearchGovernor ----------------------------
(***************************************************************************)
(* The governor of the factor search (factor_adaptation.py): the facts of  *)
(* a round steer the share of exploration, the window step and the weights *)
(* within the two groups of strategies; the next quota divides the share   *)
(* by the weights inside the bounds of the policy.                         *)
(*                                                                         *)
(* Ratios and weights are counted in 1/10000 and rounded down; what the    *)
(* code takes for a rounding error of floats is a few units here.          *)
(***************************************************************************)
EXTENDS Integers, Sequences, FiniteSets, FiniteSetsExt, SequencesExt

One == 10000
Rounding == 5

\* GenerationStrategy, in the order of its declaration
Strategies == <<"mutate", "crossover", "perturb", "random", "llm">>
Exploration == {"random", "llm"}
Exploitation == {"mutate", "crossover", "perturb"}
Groups == {Exploration, Exploitation}

Magnitude(n) == IF n < 0 THEN -n ELSE n
Sum(f, s) == MapThenSumSet(LAMBDA x : f[x], s)
Clamped(low, n, high) == Max({low, Min({n, high})})
Near(m, n, tolerance) == Magnitude(m - n) <= tolerance

BaseRatios == [mutate |-> 2500, crossover |-> 2500, perturb |-> 1500, random |-> 1500, llm |-> 2000]

DefaultPolicy ==
    [min |-> [mutate |-> 1000, crossover |-> 1000, perturb |-> 500, random |-> 500, llm |-> 500],
     max |-> [mutate |-> 4000, crossover |-> 4000, perturb |-> 3000, random |-> 3500, llm |-> 3500],
     low |-> 2000, high |-> 5500, adjust |-> 800, alpha |-> 5000, exploit |-> 3000,
     duplicate |-> 4000, shift |-> 500, stagnation |-> 3, minStep |-> 1, maxStep |-> 3, sensitivity |-> 5000]

\* A share of the window can be divided among the strategies of its group
ValidPolicy(p) ==
    /\ \A s \in Exploration \cup Exploitation : 0 <= p.min[s] /\ p.min[s] <= p.max[s] /\ p.max[s] <= One
    /\ Sum(p.min, DOMAIN p.min) <= One /\ One <= Sum(p.max, DOMAIN p.max)
    /\ Sum(p.min, Exploration) <= p.low /\ p.low <= p.high /\ p.high <= Sum(p.max, Exploration)
    /\ Sum(p.min, Exploitation) <= One - p.high /\ One - p.low <= Sum(p.max, Exploitation)
    /\ {p.alpha, p.sensitivity} \subseteq 1..One /\ {p.exploit, p.duplicate} \subseteq 0..One
    /\ p.adjust > 0 /\ p.shift >= 0 /\ p.stagnation >= 1 /\ 1 <= p.minStep /\ p.minStep <= p.maxStep

-----------------------------------------------------------------------------
(* The state of a search: steer is [rounds, momentum, share, step, streak] *)
(* with -1 for no momentum yet; weights divide each group.                 *)

Shares(weights, group) ==
    LET total == Sum(weights, group)
    IN  [s \in group |-> IF total > 0 THEN (weights[s] * One) \div total ELSE One \div Cardinality(group)]

BaseWeights == Shares(BaseRatios, Exploration) @@ Shares(BaseRatios, Exploitation)

NewSteer(p) ==
    [rounds |-> 0, momentum |-> -1, share |-> Sum(BaseRatios, Exploration), step |-> p.minStep, streak |-> 0]

NewSearch(p) == [steer |-> NewSteer(p), weights |-> BaseWeights]

\* generated, duplicates, tested and accepted are counts
Steered(p, steer, generated, duplicates, tested, accepted) ==
    LET rate == IF tested = 0 THEN 0 ELSE (One * accepted) \div tested
        momentum == IF tested = 0 THEN steer.momentum
                    ELSE IF steer.momentum = -1 THEN rate
                    ELSE (p.alpha * rate + (One - p.alpha) * steer.momentum) \div One
        streak == IF tested = 0 THEN steer.streak ELSE IF accepted > 0 THEN 0 ELSE steer.streak + 1
        shift == (IF tested > 0 /\ rate >= p.exploit THEN -p.adjust ELSE 0)
                 + (IF tested > 0 /\ streak >= p.stagnation THEN p.adjust ELSE 0)
                 + (IF (IF generated = 0 THEN 0 ELSE (One * duplicates) \div generated) >= p.duplicate
                      THEN p.shift ELSE 0)
        step == IF momentum = -1 THEN steer.step
                ELSE IF momentum >= p.exploit /\ momentum >= steer.momentum THEN p.minStep
                ELSE IF streak >= p.stagnation \/ momentum < steer.momentum
                     THEN Min({steer.step + 1, p.maxStep})
                ELSE steer.step
    IN  [rounds |-> steer.rounds + 1, momentum |-> momentum, streak |-> streak, step |-> step,
         share |-> Clamped(p.low, steer.share + Clamped(-p.adjust, shift, p.adjust), p.high)]

\* Strategies of a group gain or lose against the mean of the tested ones
Tilted(p, weights, tested, accepted) ==
    LET score(s) == (One * accepted[s]) \div tested[s]
        seen(group) == {s \in group : tested[s] > 0}
        mean(group) == MapThenSumSet(score, seen(group)) \div Cardinality(seen(group))
        adjusted(group) ==
            [s \in group |-> IF tested[s] = 0 THEN weights[s]
                             ELSE (weights[s] * (One + (p.sensitivity * (score(s) - mean(group))) \div One)) \div One]
        tilted(group) == IF seen(group) = {} THEN [s \in group |-> weights[s]] ELSE Shares(adjusted(group), group)
    IN  tilted(Exploration) @@ tilted(Exploitation)

Observe(p, search, generated, duplicates, tested, accepted) ==
    [steer |-> Steered(p, search.steer, generated, duplicates, Sum(tested, DOMAIN tested), Sum(accepted, DOMAIN accepted)),
     weights |-> Tilted(p, search.weights, tested, accepted)]

-----------------------------------------------------------------------------
(* The quota: _bounded_proportional(), current_quota() and allocate().     *)

(* A pass over the strategies that are free: each takes its part of the    *)
(* residual up to its bound.  One that a pass brings to its bound leaves   *)
(* in the next pass.                                                       *)
Pass(p, weights, x) ==
    LET whole == Sum(weights, x.free)
        delta(s) == (x.residual * weights[s]) \div whole
        room(s) == (IF delta(s) > 0 THEN p.max[s] ELSE p.min[s]) - x.given[s]
        applied == [s \in x.free |-> IF Magnitude(delta(s)) <= Magnitude(room(s)) THEN delta(s) ELSE room(s)]
    IN  IF Magnitude(x.residual) <= Rounding \/ x.free = {} THEN x
        ELSE [given |-> [s \in DOMAIN x.given |-> x.given[s] + (IF s \in x.free THEN applied[s] ELSE 0)],
              residual |-> x.residual - Sum(applied, x.free),
              free |-> {s \in x.free : /\ Magnitude(Magnitude(delta(s)) - Magnitude(room(s))) > Rounding
                                       /\ Magnitude(room(s)) > Rounding}]

(* A faulty loop: one pass for each strategy of the group.                 *)
PassesOfStrategies(group) == Cardinality(group)
Passes(group) == Cardinality(group) + 1

Divide(p, total, weights, group) ==
    LET whole == Sum(weights, group)
        given == [s \in group |-> Clamped(p.min[s], (total * weights[s]) \div whole, p.max[s])]
    IN  FoldLeft(LAMBDA x, i : Pass(p, weights, x),
                 [given |-> given, residual |-> total - Sum(given, group), free |-> group],
                 [i \in 1..Passes(group) |-> i])

\* converged is FALSE where current_quota() raises
Quota(p, search) ==
    LET explore == Divide(p, search.steer.share, search.weights, Exploration)
        exploit == Divide(p, One - Sum(explore.given, Exploration), search.weights, Exploitation)
    IN  [converged |-> \A x \in {explore, exploit} : Near(x.residual, 0, 2 * Rounding),
         ratios |-> explore.given @@ exploit.given]

\* The largest remainders get what the whole parts leave
Allocate(ratios, total) ==
    LET order == DOMAIN Strategies
        part(i) == total * ratios[Strategies[i]]
        base(i) == part(i) \div One
        left == total - MapThenSumSet(base, order)
        before(i) == {j \in order : \/ part(j) % One > part(i) % One
                                    \/ part(j) % One = part(i) % One /\ j < i}
    IN  [s \in DOMAIN ratios |->
            LET i == CHOOSE k \in order : Strategies[k] = s
            IN  base(i) + (IF Cardinality(before(i)) < left THEN 1 ELSE 0)]

-----------------------------------------------------------------------------
(* A round of the search: what run_round() draws, what the backtest says   *)
(* of it, and what observe() makes of that. *)

\* Without parents everything but the model explores at random
Native(s, count, parents) == [i \in 1..count |-> IF parents = {} THEN "random" ELSE s]

\* ... and so does what the model does not propose
Mechanism(count, proposed) == [i \in 1..count |-> IF i <= proposed THEN "llm" ELSE "random"]

\* generate(): the strategies the candidates are labelled with
Labels(counts, parents, proposed) ==
    FoldLeft(LAMBDA done, s : done \o IF s = "llm" THEN Mechanism(counts[s], proposed) ELSE Native(s, counts[s], parents),
             <<>>, Strategies)

\* run_round(): candidates known from the batch, the pool or the history
DuplicatesOf(trees, known) ==
    Cardinality({i \in DOMAIN trees : trees[i] \in known \/ \E j \in 1..(i - 1) : trees[j] = trees[i]})

\* RoundFeedback.from_round(): every candidate of a tree counts for its strategy
CountsOf(labels, trees, chosen) ==
    [s \in Exploration \cup Exploitation |->
        Cardinality({i \in DOMAIN labels : labels[i] = s /\ trees[i] \in chosen})]

\* What a round leaves; without a quota it raises
RoundOfSearch(p, search, count, parents, seen, trees, proposed, tested, accepted) ==
    LET quota == Quota(p, search)
        labels == Labels(Allocate(quota.ratios, count), parents, proposed)
    IN  IF ~quota.converged THEN search
        ELSE Observe(p, search, count, DuplicatesOf(trees, parents \cup seen),
                     CountsOf(labels, trees, tested), CountsOf(labels, trees, accepted))

GroupsAreWhole(weights) ==
    \A group \in Groups : /\ \A s \in group : weights[s] > 0
                          /\ Near(Sum(weights, group), One, Rounding)

\* from_dict(): what a checkpoint may hold, whatever the policy
WellFormed(search) ==
    /\ search.steer.rounds >= 0 /\ search.steer.streak >= 0 /\ search.steer.step >= 1
    /\ search.steer.momentum \in -1..One /\ search.steer.share \in 0..One
    /\ GroupsAreWhole(search.weights)

\* restore(): the state of a checkpoint fits the policy of today
Restorable(p, search) ==
    /\ WellFormed(search)
    /\ search.steer.share \in p.low..p.high
    /\ search.steer.step \in p.minStep..p.maxStep
=============================================================================
