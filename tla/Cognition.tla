------------------------------ MODULE Cognition --------------------------------
(***************************************************************************)
(* Perception, the state controller, the way from stimuli to candidate     *)
(* plans, and the admission of what waits for a slot.                      *)
(***************************************************************************)
EXTENDS Integers, FiniteSets, Sequences, SequencesExt, FiniteSetsExt

-----------------------------------------------------------------------------
(* From a source of observations to the model of the world and to what is  *)
(* salient in it (sensory.py, cognition.py): the adapter publishes the     *)
(* lines of a source, the bus delivers them late, again and in any order,  *)
(* the world keeps the newest fact and attention compares an event with    *)
(* the fact it finds.  One entity and one rule; a value is a number.       *)

CONSTANTS
    Lines,             \* the lines of the source: [seq, at, value]
    Freshness,         \* freshness_seconds of the world
    Tolerance,         \* future_tolerance_seconds of the adapter
    Threshold, Cooldown,   \* of the rule
    PerceptionHorizon, MaxPublished    \* bounds: the clock, and the published events

ASSUME PerceptionAssumption ==
    /\ {Freshness, Tolerance, Threshold, Cooldown, PerceptionHorizon, MaxPublished} \subseteq Nat
    /\ \A l \in Lines : {l.seq, l.at} \subseteq Nat

VARIABLES
    lastSequence,      \* of the adapter, -1 at first
    published,         \* the events on the bus: [id, seq, at, value]
    fact,              \* the fact of the snapshot, or NoFact
    lastByKey,         \* the last fact that was applied, expired or not, or NoFact
    projected,         \* the ids of the events the world has seen
    evaluated,         \* the keys of the events attention has evaluated
    lastSalient,       \* when the rule fired last, or -1
    salient,           \* history: [key, at] of the salient events
    perceptionClock

worldVars == <<fact, lastByKey, projected>>
attentionVars == <<evaluated, lastSalient, salient>>
perceptionVars == <<lastSequence, published, fact, lastByKey, projected, evaluated, lastSalient, salient, perceptionClock>>

NoFact == [at |-> -1]

PerceptionInit ==
    /\ lastSequence = -1 /\ published = {} /\ perceptionClock = 0
    /\ fact = NoFact /\ lastByKey = NoFact /\ projected = {}
    /\ evaluated = {} /\ lastSalient = -1 /\ salient = {}

PerceptionTick ==
    /\ perceptionClock < PerceptionHorizon
    /\ perceptionClock' = perceptionClock + 1
    /\ UNCHANGED <<lastSequence, published, worldVars, attentionVars>>

(* ingest_line(): a sequence that goes back and a time ahead of the clock  *)
(* are rejected.  The sequence is recorded after the event was published:  *)
(* a publication that fails after the fact is not.                         *)
IngestLine(l, recorded) ==
    /\ l.seq > lastSequence
    /\ l.at <= perceptionClock + Tolerance
    /\ Cardinality(published) < MaxPublished
    /\ published' = published \cup {[id |-> Cardinality(published), seq |-> l.seq, at |-> l.at, value |-> l.value]}
    /\ lastSequence' = IF recorded THEN l.seq ELSE lastSequence
    /\ UNCHANGED <<worldVars, attentionVars, perceptionClock>>

Previous(e) == lastByKey

\* apply(): older, repeated and contradictory observations do not enter
Project(e) ==
    /\ e.id \notin projected
    /\ \/ /\ e.at > Previous(e).at
          /\ fact' = [at |-> e.at, value |-> e.value, expires |-> perceptionClock + Freshness]
          /\ lastByKey' = fact'
          /\ projected' = projected \cup {e.id}
       \/ /\ e.at = Previous(e).at /\ e.value = Previous(e).value
          /\ projected' = projected \cup {e.id}
          /\ UNCHANGED <<fact, lastByKey>>
    /\ UNCHANGED <<lastSequence, published, attentionVars, perceptionClock>>

\* fresh_snapshot() drops what has expired from the snapshot
FreshSnapshot ==
    /\ fact # NoFact /\ fact.expires <= perceptionClock
    /\ fact' = NoFact
    /\ UNCHANGED <<lastSequence, published, lastByKey, projected, attentionVars, perceptionClock>>

Distance(a, b) == IF a >= b THEN a - b ELSE b - a

Cooling(e) == lastSalient >= 0 /\ perceptionClock - lastSalient < Cooldown

(* process(): without a fact to compare with nothing is recorded; a key is *)
(* evaluated once, whatever the outcome.                                   *)
Attend(e) ==
    LET fires == ~ Cooling(e) /\ Distance(e.value, fact.value) >= Threshold
    IN  /\ fact # NoFact /\ e.seq \notin evaluated
        /\ evaluated' = evaluated \cup {e.seq}
        /\ lastSalient' = IF fires THEN perceptionClock ELSE lastSalient
        /\ salient' = IF fires THEN salient \cup {[key |-> e.seq, at |-> perceptionClock]} ELSE salient
        /\ UNCHANGED <<lastSequence, published, worldVars, perceptionClock>>

PerceptionNext ==
    \/ PerceptionTick \/ FreshSnapshot
    \/ \E l \in Lines, recorded \in BOOLEAN : IngestLine(l, recorded)
    \/ \E e \in published : Project(e) \/ Attend(e)

(* The world never goes back: the fact of its snapshot is the newest that  *)
(* it was ever told and kept, though facts expire in between and events    *)
(* arrive late, repeated and out of order.                                 *)
WorldMovesForward ==
    fact # NoFact => \A e \in published : e.id \in projected => e.at <= fact.at

(* A rule is salient no more often than its cooldown allows, by the clock, *)
(* and once for an observation, however often it was published.            *)
SalientSpacing ==
    \A s, t \in salient : s # t => s.key # t.key /\ Distance(s.at, t.at) >= Cooldown

(* What perception makes of a source keeps its order and its pace.         *)
PerceptionIsOrdered == WorldMovesForward /\ SalientSpacing
-----------------------------------------------------------------------------
(* The state of the brain (state.py): the phase of the market by the       *)
(* clock, the workload and the mode, changed by concurrent callers and     *)
(* announced to a sink that may take its time.                             *)

CONSTANTS
    PhaseOf,           \* hour -> the phase at that hour
    ControllerHorizon, MaxChanges   \* bounds: the clock, and the announced changes

ASSUME ControllerAssumption == {ControllerHorizon, MaxChanges} \subseteq Nat

VARIABLES
    brain,             \* [phase, workload, mode]
    announced,         \* what the sink was called with: <<[previous, current]>>
    hour

controllerVars == <<brain, announced, hour>>

Closed == {"CLOSED", "HOLIDAY"}
Workloads == {"IDLE", "BUSY"}
Modes == {"BOOTING", "NORMAL", "REVIEW", "DEGRADED", "SAFE", "SHUTTING_DOWN"}

ControllerInit ==
    /\ brain = [phase |-> "CLOSED", workload |-> "IDLE", mode |-> "BOOTING"]
    /\ announced = <<>> /\ hour = 0

HourPasses ==
    /\ hour < ControllerHorizon /\ hour' = hour + 1
    /\ UNCHANGED <<brain, announced>>

\* _replace(): the sink is called in the step that changes the state, and awaited after it
ReplaceState(current) ==
    /\ brain' = current
    /\ announced' = Append(announced, [previous |-> brain, current |-> current])

Changes(current) ==
    /\ current # brain /\ Len(announced) < MaxChanges
    /\ ReplaceState(current)
    /\ UNCHANGED hour

\* refresh(): the phase of this hour; the normal mode and the review follow it
Refresh ==
    LET phase == PhaseOf[hour]
        mode == CASE brain.mode = "NORMAL" /\ phase \in Closed -> "REVIEW"
                  [] brain.mode = "REVIEW" /\ phase \notin Closed -> "NORMAL"
                  [] OTHER -> brain.mode
    IN  Changes([brain EXCEPT !.phase = phase, !.mode = mode])

MarkReady ==
    /\ brain.mode = "BOOTING"
    /\ Changes([brain EXCEPT !.phase = PhaseOf[hour],
                             !.mode = IF PhaseOf[hour] \in Closed THEN "REVIEW" ELSE "NORMAL"])

SetWorkload(w) == Changes([brain EXCEPT !.workload = w])

SetMode(m) ==
    /\ m = "BOOTING" => brain.mode = "BOOTING"
    /\ Changes([brain EXCEPT !.mode = m])

ControllerNext ==
    \/ HourPasses \/ Refresh \/ MarkReady
    \/ \E w \in Workloads : SetWorkload(w)
    \/ \E m \in Modes : SetMode(m)

(* A subscriber that applies the changes in the order of its calls always  *)
(* has the present state: every change starts where the last one ended,    *)
(* and the brain never boots twice.                                        *)
ChangesChain ==
    /\ \A i \in DOMAIN announced :
          /\ announced[i].current = IF i = Len(announced) THEN brain ELSE announced[i + 1].previous
          /\ announced[i].current.mode = "BOOTING" => announced[i].previous.mode = "BOOTING"

-----------------------------------------------------------------------------
(* From stimuli to candidate plans (goals.py, coordinator.py,              *)
(* prefrontal.py): goals are evaluated, stimuli are merged into a cycle    *)
(* that locks the goals of one snapshot, and the planner turns a cycle     *)
(* into a plan, asking a model on the way.                                 *)
(* Time passes and goals are evaluated again while a cycle is planned.     *)

CONSTANTS
    Goals,             \* [id, enabled, priority, domain, deadline, conditions]; a condition is [path, op, expected]
    Contexts,          \* what goals are evaluated against: paths to values, [kind, value]
    Stimuli,           \* [id, key, type, priority]: what the bus delivers to the coordinator
    Injected,          \* [id, key, command, priority]: what users give to the command adapter; key is NoKey if they give none
    AllowedCommands,   \* the allowlist of the adapter: [command |-> has a side effect]
    PlanRules,         \* [id, goal, types, model, ttl]: goal is the id of a goal
    MergeWindow, MaxPending, MaxBatch, MaxActive,
    CoordinationHorizon    \* bound: the clock

ASSUME CoordinationAssumption ==
    /\ {MaxPending, MaxBatch, MaxActive} \subseteq Nat \ {0} /\ MaxBatch <= MaxPending
    /\ {MergeWindow, CoordinationHorizon} \subseteq Nat
    /\ \A c \in Injected, s \in Stimuli : c.id # s.id
    /\ \A g, h \in Goals : g.id = h.id => g = h
    /\ \A g \in Goals : g.deadline \in Nat
    /\ \A r \in PlanRules : r.id \in Nat /\ r.ttl \in Nat

VARIABLES
    goalSnapshot,      \* the selected goals of the last evaluation, with their statuses
    pending,           \* <<[stimulus, at]>>, the oldest first
    commanded,         \* the stimuli that the command adapter published
    accepted,          \* history and _seen: the stimuli that were accepted
    cycles,            \* every cycle that was formed: [id, stimuli, focus, goals, state]
    plans,             \* what the planner made: [cycle, goal, made, created, expires, source]
    coordinationClock

coordinationVars == <<goalSnapshot, pending, commanded, accepted, cycles, plans, coordinationClock>>

CoordinationInit ==
    /\ goalSnapshot = {} /\ pending = <<>> /\ commanded = {} /\ accepted = {} /\ cycles = {} /\ plans = {}
    /\ coordinationClock = 0

CoordinationTick ==
    /\ coordinationClock < CoordinationHorizon
    /\ coordinationClock' = coordinationClock + 1
    /\ UNCHANGED <<goalSnapshot, pending, commanded, accepted, cycles, plans>>

\* A flag equals the number that stands for it, and is never compared by size
Equal(v, w) == v.value = w.value /\ (v.kind = w.kind \/ {v.kind, w.kind} = {"number", "flag"})

Compares(op, m, n) ==
    CASE op = "GT" -> m > n [] op = "GTE" -> m >= n [] op = "LT" -> m < n [] op = "LTE" -> m <= n

\* A condition over a path that the context has not is not met, whatever it says
Matches(c, context) ==
    /\ c.path \in DOMAIN context
    /\ LET actual == context[c.path] IN
       CASE c.op = "EQ" -> Equal(actual, c.expected)
         [] c.op = "NE" -> ~Equal(actual, c.expected)
         [] OTHER -> {actual.kind, c.expected.kind} = {"number"} /\ Compares(c.op, actual.value, c.expected.value)

\* A goal without conditions is never complete
Available(g, context) ==
    /\ g.enabled
    /\ g.deadline > coordinationClock
    /\ g.conditions = {} \/ \E c \in g.conditions : ~Matches(c, context)

Preferred(g, h) ==
    \/ g.priority > h.priority
    \/ g.priority = h.priority /\ g.deadline < h.deadline
    \/ g.priority = h.priority /\ g.deadline = h.deadline /\ g.id < h.id

\* _select(): the preferred goal of every domain
Selected(available) ==
    {g \in available : ~ \E h \in available : h.domain = g.domain /\ Preferred(h, g)}

EvaluateGoals(context) ==
    /\ goalSnapshot' = Selected({g \in Goals : Available(g, context)})
    /\ UNCHANGED <<pending, commanded, accepted, cycles, plans, coordinationClock>>

NoKey == 0

(* inject(): what is not on the list, or has side effects, is refused; a   *)
(* command without a key has one of its own.                               *)
Inject(c) ==
    /\ c.command \in DOMAIN AllowedCommands /\ ~ AllowedCommands[c.command]
    /\ commanded' = commanded \cup
          {[id |-> c.id, key |-> IF c.key = NoKey THEN c.id ELSE c.key, type |-> "command", priority |-> c.priority]}
    /\ UNCHANGED <<goalSnapshot, pending, accepted, cycles, plans, coordinationClock>>

\* submit(): what was accepted before is known by its id and by its key
Submit(s) ==
    /\ ~ \E t \in accepted : t.id = s.id \/ t.key = s.key
    /\ Len(pending) < MaxPending
    /\ pending' = Append(pending, [stimulus |-> s, at |-> coordinationClock])
    /\ accepted' = accepted \cup {s}
    /\ UNCHANGED <<goalSnapshot, commanded, cycles, plans, coordinationClock>>

ActiveCycles == {c \in cycles : c.active}

Occupied == UNION {{g.domain : g \in c.goals} : c \in ActiveCycles}

Left(batch) == SubSeq(pending, Len(batch) + 1, Len(pending))

Focus(stimuli) ==
    CHOOSE s \in stimuli : \A t \in stimuli : t # s => s.priority > t.priority \/ (s.priority = t.priority /\ s.id < t.id)

\* form_cycle(): with the last snapshot, which may be old by the clock
FormCycle(force) ==
    LET batch == SubSeq(pending, 1, Min({MaxBatch, Len(pending)}))
        stimuli == {batch[i].stimulus : i \in DOMAIN batch}
        goals == {g \in goalSnapshot : g.domain \notin Occupied}
    IN  /\ pending # <<>> /\ Cardinality(ActiveCycles) < MaxActive
        /\ force \/ coordinationClock - pending[1].at >= MergeWindow
        /\ goals # {}
        /\ cycles' = cycles \cup {[id |-> Cardinality(cycles), stimuli |-> stimuli, focus |-> Focus(stimuli),
                                   goals |-> goals, active |-> TRUE, planning |-> "none", asked |-> 0]}
        /\ pending' = Left(batch)
        /\ UNCHANGED <<goalSnapshot, commanded, accepted, plans, coordinationClock>>

ReplaceCycle(c, d) == cycles' = (cycles \ {c}) \cup {d}

CompleteCycle(c) ==
    /\ c.active
    /\ ReplaceCycle(c, [c EXCEPT !.active = FALSE])
    /\ UNCHANGED <<goalSnapshot, pending, commanded, accepted, plans, coordinationClock>>

Candidates(c) == {r \in PlanRules : c.focus.type \in r.types /\ \E g \in c.goals : g.id = r.goal}
RuleOf(c) == CHOOSE r \in Candidates(c) : \A q \in Candidates(c) : r.id <= q.id

\* plan(): the rule is selected and its model is asked, if it has one
StartPlan(c) ==
    /\ c.planning = "none"
    /\ ReplaceCycle(c, [c EXCEPT !.planning = IF Candidates(c) = {} THEN "failed" ELSE "asking",
                                 !.asked = coordinationClock])
    /\ UNCHANGED <<goalSnapshot, pending, commanded, accepted, plans, coordinationClock>>

(* A faulty clock: read before the model was asked.                        *)
MomentOfAsking(c) == c.asked
PlanMoment(c) == coordinationClock

\* ... and the plan is bounded by the deadline of its goal when the answer is there, usable or not
FinishPlan(c, answer) ==
    LET r == RuleOf(c)
        g == CHOOSE x \in c.goals : x.id = r.goal
        now == PlanMoment(c)
        expires == Min({now + r.ttl, g.deadline})
    IN  /\ c.planning = "asking"
        /\ answer # "RULE" <=> r.model
        /\ \/ /\ expires > now
              /\ plans' = plans \cup {[cycle |-> c.id, goal |-> g, made |-> coordinationClock, created |-> now,
                                       expires |-> expires, source |-> answer]}
              /\ ReplaceCycle(c, [c EXCEPT !.planning = "planned"])
           \/ /\ expires <= now
              /\ ReplaceCycle(c, [c EXCEPT !.planning = "failed"])
              /\ UNCHANGED plans
        /\ UNCHANGED <<goalSnapshot, pending, commanded, accepted, coordinationClock>>

CoordinationNext ==
    \/ CoordinationTick
    \/ \E context \in Contexts : EvaluateGoals(context)
    \/ \E c \in Injected : Inject(c)
    \/ \E s \in Stimuli \cup commanded : Submit(s)
    \/ \E force \in BOOLEAN : FormCycle(force)
    \/ \E c \in cycles : \/ CompleteCycle(c) \/ StartPlan(c)
                         \/ \E a \in {"RULE", "MODEL", "RULE_FALLBACK"} : FinishPlan(c, a)

(* Cycles that are active at the same time never share a conflict domain,  *)
(* and a stimulus that was accepted waits or belongs to one cycle: none is *)
(* lost, none is planned twice.                                            *)
CyclesAreSeparate ==
    /\ \A c, d \in ActiveCycles : c # d => \A g \in c.goals, h \in d.goals : g.domain # h.domain
    /\ \A s \in accepted :
          Cardinality({i \in DOMAIN pending : pending[i].stimulus = s}) + Cardinality({c \in cycles : s \in c.stimuli}) = 1

(* A plan leaves a window for its execution at the moment it is made, and  *)
(* none after the deadline of its goal, however long the model took.       *)
PlanFitsItsGoal ==
    \A p \in plans : p.made < p.expires /\ p.expires <= p.goal.deadline

(* Stimuli become cycles and cycles become plans without loss, overlap or  *)
(* an empty window.                                                        *)
CoordinationIsSound == CyclesAreSeparate /\ PlanFitsItsGoal

-----------------------------------------------------------------------------
(* Global admission (scheduling/policy.py): one call of evaluate() ranks   *)
(* what waits for a slot, and goes down the ranking with the slots and the *)
(* cost that are left.  Nothing is kept between calls but the clock and    *)
(* the time at which each candidate was enqueued.  Priority, salience and  *)
(* goal urgency are one number here, so are the two penalties.             *)

CONSTANTS
    Competitors,     \* [id, kind, class, at, base, deadline, cost, penalty, ready, free, safe]
    Budgets,        \* [mode, slots, cost]
    AdmissionThreshold, DeadlineBonus, DeadlineHorizon, RecoveryBonus, RealtimeBonus,
    ReviewBonus, AgingInterval, AgingStep, AgingLimit,     \* PolicyConfig
    PolicyHorizon   \* bound: the last tick of the clock

(* evaluate() refuses candidates that share an id; ids are numbers in the  *)
(* order of the names, amounts and seconds are whole.  Intervals are       *)
(* positive and bonuses not negative (PolicyConfig.__post_init__), nor are *)
(* slots and costs (__post_init__ in scheduling/models.py:45-84).          *)
ASSUME PolicyAssumption ==
    /\ IsFiniteSet(Competitors)
    /\ \A c, d \in Competitors : c.id = d.id => c = d
    /\ \A c \in Competitors : {c.id, c.at, c.base, c.penalty, c.deadline} \subseteq Int /\ c.cost \in Nat
    /\ \A b \in Budgets : b.slots \in Nat /\ b.cost \in Nat
    /\ {DeadlineHorizon, AgingInterval} \subseteq Nat \ {0} /\ AgingLimit \in Nat
    /\ {AdmissionThreshold, DeadlineBonus, RecoveryBonus, RealtimeBonus, ReviewBonus, AgingStep} \subseteq Nat
    /\ PolicyHorizon \in Nat

VARIABLES
    policyClock,
    evaluation     \* the last call: its candidates, budget, moment and outcome by candidate

policyVars == <<policyClock, evaluation>>

NoDeadline == -1
Lesser(a, b) == IF a < b THEN a ELSE b
Above(a, b) == IF a > b THEN a ELSE b

Aging(c, now) == Lesser((Above(0, now - c.at) \div AgingInterval) * AgingStep, AgingLimit)

Urgency(c, now) ==
    IF c.deadline = NoDeadline THEN 0
    ELSE (DeadlineBonus * Above(0, DeadlineHorizon - Above(0, c.deadline - now))) \div DeadlineHorizon

ClassBonus(c, mode) ==
    CASE c.class = "RECOVERY" -> RecoveryBonus
      [] c.class = "REALTIME" -> RealtimeBonus
      [] c.class = "BACKGROUND" /\ mode = "REVIEW" -> ReviewBonus
      [] OTHER -> 0

Score(c, mode, now) ==
    c.base + Urgency(c, now) + ClassBonus(c, mode) + Aging(c, now) - c.cost - c.penalty

\* The order of evaluate(): the higher score, then the longer wait, then the id
GoesBefore(a, b, mode, now) ==
    \/ Score(a, mode, now) > Score(b, mode, now)
    \/ Score(a, mode, now) = Score(b, mode, now) /\ (a.at < b.at \/ (a.at = b.at /\ a.id < b.id))

\* _hard_decision(): what no score can outweigh
Hard(c, mode, now) ==
    IF c.deadline # NoDeadline /\ c.deadline <= now THEN "DEADLINE_EXPIRED"
    ELSE IF mode = "SAFE" /\ ~ c.safe THEN "SAFE_MODE_DENY"
    ELSE IF ~ c.ready THEN "DEPENDENCY_NOT_READY"
    ELSE IF ~ c.free THEN "CONFLICT_ACTIVE"
    ELSE "HARD_GATES_PASSED"

Decided(c, mode, now, left) ==
    IF Hard(c, mode, now) # "HARD_GATES_PASSED" THEN Hard(c, mode, now)
    ELSE IF Score(c, mode, now) < AdmissionThreshold THEN "SCORE_BELOW_THRESHOLD"
    ELSE IF left.slots = 0 THEN "NO_CONCURRENCY_SLOT"
    ELSE IF c.cost > left.cost THEN "COST_BUDGET_UNAVAILABLE"
    ELSE "SCORE_AND_BUDGET_ADMIT"

\* sorted(): the place of a candidate tells how many go before it
Ranking(candidates, mode, now) ==
    LET place(c) == Cardinality({d \in candidates : GoesBefore(d, c, mode, now)}) + 1
    IN  [i \in 1..Cardinality(candidates) |-> CHOOSE c \in candidates : place(c) = i]

\* An admission takes a slot and its cost
Decide(left, c, mode, now) ==
    LET rule == Decided(c, mode, now, left)
        admitted == rule = "SCORE_AND_BUDGET_ADMIT"
    IN  [slots |-> IF admitted THEN left.slots - 1 ELSE left.slots,
         cost |-> IF admitted THEN left.cost - c.cost ELSE left.cost,
         rules |-> [d \in DOMAIN left.rules \cup {c} |-> IF d = c THEN rule ELSE left.rules[d]]]

\* The loop of evaluate(): left[i] is what is left, and decided, after i candidates
Outcomes(candidates, budget, now) ==
    LET ranking == Ranking(candidates, budget.mode, now)
        left[i \in 0..Cardinality(candidates)] ==
            IF i = 0 THEN [slots |-> budget.slots, cost |-> budget.cost, rules |-> <<>>]
            ELSE Decide(left[i - 1], ranking[i], budget.mode, now)
    IN  left[Cardinality(candidates)].rules

PolicyInit == policyClock = 0 /\ evaluation = <<>>

PolicyTick ==
    /\ policyClock < PolicyHorizon
    /\ policyClock' = policyClock + 1
    /\ evaluation' = <<>>

\* A call depends on no other call: one between two ticks is enough
Evaluate(candidates, budget) ==
    /\ evaluation = <<>>
    /\ evaluation' = <<[budget |-> budget, now |-> policyClock,
                        rules |-> Outcomes(candidates, budget, policyClock)]>>
    /\ UNCHANGED policyClock

\* rank_stimuli() and rank_runs()
RankKind(candidates, kind, budget) == Evaluate({c \in candidates : c.kind = kind}, budget)

PolicyNext ==
    \/ PolicyTick
    \/ \E candidates \in SUBSET Competitors, budget \in Budgets :
          \/ Evaluate(candidates, budget)
          \/ \E kind \in {"STIMULUS", "RUN"} : RankKind(candidates, kind, budget)

(* Admission is within its budget and nobody is passed over: what is       *)
(* admitted may run now; what is left out only for want of a slot came     *)
(* behind as many as there were slots, each with a higher score or an      *)
(* equal one and a longer wait; and what costs too much does not fit       *)
(* beside what came before it, though something cheaper behind it may      *)
(* (evaluate, policy.py:86-131).                                           *)
AdmissionIsFair ==
    evaluation # <<>> =>
        LET e == evaluation[1]
            mode == e.budget.mode
            admitted == {c \in DOMAIN e.rules : e.rules[c] = "SCORE_AND_BUDGET_ADMIT"}
            beats(a, c) == \/ Score(a, mode, e.now) > Score(c, mode, e.now)
                           \/ Score(a, mode, e.now) = Score(c, mode, e.now) /\ a.at <= c.at
            costOf(s) == MapThenSumSet(LAMBDA c : c.cost, s)
        IN  /\ Cardinality(admitted) <= e.budget.slots
            /\ costOf(admitted) <= e.budget.cost
            /\ \A c \in admitted :
                  /\ c.ready /\ c.free /\ (c.deadline = NoDeadline \/ c.deadline > e.now)
                  /\ mode = "SAFE" => c.safe
            /\ \A c \in DOMAIN e.rules :
                  /\ e.rules[c] = "NO_CONCURRENCY_SLOT" =>
                        Cardinality(admitted) = e.budget.slots /\ \A a \in admitted : beats(a, c)
                  /\ e.rules[c] = "COST_BUDGET_UNAVAILABLE" =>
                        costOf({a \in admitted : beats(a, c)}) + c.cost > e.budget.cost

(* From the input to the admission: what came from outside is kept in the *)
(* order and at the time it happened, the state controller announces what  *)
(* it changed, cycles and plans are sound, and who is admitted fits the    *)
(* budget.                                                                 *)
CognitionIsSound == PerceptionIsOrdered /\ ChangesChain /\ CoordinationIsSound /\ AdmissionIsFair
=============================================================================
