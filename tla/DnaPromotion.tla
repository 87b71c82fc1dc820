------------------------------ MODULE DnaPromotion ------------------------------
(***************************************************************************)
(* The promotion of selected versions (domain_sdk/dna_promotion.py):       *)
(* campaigns from Shadow over Canary to Active, their observations, hard   *)
(* stops, the kill switch and the rollback to a baseline.                  *)
(*                                                                         *)
(* A version has at most one campaign, so a campaign is named by its       *)
(* version.  A call reads its campaign once and works on that copy; its    *)
(* transactions on the registry and on the campaign are separate, and      *)
(* other calls, a crash or an operator may come between any two.           *)
(*   pc "baseline", "enlist", "open"      the rest of start()              *)
(*      "insert", "rows", "record", "advance"  of observe() and _evaluate()*)
(*      "stop", "target", "withdraw"      of _stop()                       *)
(*      "change"                          before _change()                 *)
(***************************************************************************)
EXTENDS DnaRegistry, Sequences

CONSTANTS
    Calls,           \* calls that may be in flight
    Initial,         \* the version the bootstrap has activated
    Selected,        \* the versions with a SELECTED member row
    Observations,    \* observation ids
    Minimum,         \* samples a stage needs, by stage
    MaxInterrupts,   \* bound: calls cut off
    Seen,            \* what observations may report, of Reports
    MaxOperator      \* bound: transitions made by an operator

ASSUME DnaPromotionAssumption ==
    /\ Initial \in Versions
    /\ Selected \subseteq Versions \ {Initial}
    /\ Minimum \in [{"SHADOW", "CANARY"} -> Nat \ {0}]
    /\ Seen \subseteq {"good", "weak", "risk", "breach"}

VARIABLES
    campaign,    \* dna_promotion_campaign by version
    observed,    \* dna_promotion_observation by id
    call, interrupts, operated

promVars == <<dna, campaign, observed, call, interrupts, operated>>

Open == {"SHADOW", "CANARY", "ACTIVE"}
Stages == Open \cup {"ROLLED_BACK", "STOPPED"}
CampaignRow == [stage : Stages \cup {"NONE"}, baseline : Versions \cup {"NONE"}, revision : Nat]
NoCampaign == [stage |-> "NONE", baseline |-> "NONE", revision |-> 0]

\* What an observation reports: all well, a run that failed or was unstable,
\* a risk violation, or one of the other three reasons for a hard stop
Reports == {"good", "weak", "risk", "breach"}
ObservationRow == [of : Versions, stage : Open, report : Reports]
NoObservation == [of |-> "NONE", stage |-> "NONE", report |-> "NONE"]

NoCall == [pc |-> "idle", of |-> "NONE", copy |-> NoCampaign, id |-> "NONE",
           report |-> "NONE", dna |-> NoDna, target |-> 0, to |-> "NONE"]

\* _ensure_workflow_dna has taken the first version to ACTIVE
Init ==
    /\ dna = [v \in Versions |->
                IF v = Initial THEN [status |-> "ACTIVE", revision |-> 4] ELSE NoDna]
    /\ campaign = [v \in Versions |-> NoCampaign]
    /\ observed = [o \in Observations |-> NoObservation]
    /\ call = [c \in Calls |-> NoCall]
    /\ interrupts = 0
    /\ operated = 0

Begin(c, step) == call[c] = NoCall /\ call' = [call EXCEPT ![c] = step]
At(c, pc) == call[c].pc = pc
Goto(c, pc) == call' = [call EXCEPT ![c].pc = pc]
Returns(c) == call' = [call EXCEPT ![c] = NoCall]
Changing(c, to) == [NoCall EXCEPT !.pc = "change", !.of = call[c].of, !.to = to,
                                  !.copy = [NoCampaign EXCEPT !.revision = call[c].copy.revision]]
Bounds == <<interrupts, operated>>
Stored == <<campaign, observed>>

Hard(report) == report \in {"risk", "breach"}

----------------------------------------------------------------------------
\* start(): the selection is checked and the active version read in one
\* transaction; a campaign that exists is returned as it is
Start(c, v) ==
    /\ campaign[v].stage = "NONE"
    /\ v \in Selected
    /\ \E b \in Versions \cup {"NONE"} :
         /\ IF ActiveVersions = {} THEN b = "NONE" ELSE b \in ActiveVersions
         /\ Begin(c, [NoCall EXCEPT !.pc = "enlist", !.of = v,
                                    !.copy = [NoCampaign EXCEPT !.baseline = b]])
    /\ UNCHANGED <<dna, Stored, Bounds>>

\* get() or register()
Enlist(c) ==
    LET v == call[c].of
    IN  /\ At(c, "enlist")
        /\ \/ CanRegister(v) /\ Register(v)
           \/ dna[v].status # "NONE" /\ UNCHANGED dna
        /\ call' = [call EXCEPT ![c].pc = "admit", ![c].dna = dna'[v]]
        /\ UNCHANGED <<Stored, Bounds>>

EnlistRefused(c) ==
    /\ At(c, "enlist")
    /\ dna[call[c].of].status = "NONE" /\ ~CanRegister(call[c].of)
    /\ Returns(c)
    /\ UNCHANGED <<dna, Stored, Bounds>>

\* the transitions to VALIDATED and SHADOW, on the record of the call
Admit(c) ==
    LET v == call[c].of
        next == [CANDIDATE |-> "VALIDATED", VALIDATED |-> "SHADOW"]
        held == call[c].dna
    IN  /\ At(c, "admit")
        /\ held.status \in DOMAIN next
        /\ IF CanTransition(v, next[held.status], held.revision)
             THEN /\ Transition(v, next[held.status], held.revision)
                  /\ call' = [call EXCEPT ![c].dna = dna'[v]]
             ELSE Returns(c) /\ UNCHANGED dna
        /\ UNCHANGED <<Stored, Bounds>>

\* the row of the campaign; its keys refuse a second one
OpenCampaign(c) ==
    LET v == call[c].of
    IN  /\ At(c, "admit")
        /\ call[c].dna.status \notin {"CANDIDATE", "VALIDATED"}
        /\ campaign' = IF call[c].dna.status # "SHADOW" \/ campaign[v].stage # "NONE" THEN campaign
                       ELSE [campaign EXCEPT ![v] = [call[c].copy EXCEPT !.stage = "SHADOW"]]
        /\ Returns(c)
        /\ UNCHANGED <<dna, observed, Bounds>>

----------------------------------------------------------------------------
\* observe() reads its campaign
Observe(c, v, o, report) ==
    /\ campaign[v].stage \in Open
    /\ Begin(c, [NoCall EXCEPT !.pc = "insert", !.of = v, !.copy = campaign[v],
                               !.id = o, !.report = report])
    /\ UNCHANGED <<dna, Stored, Bounds>>

\* and stores the observation under the stage it has read.  An id that is
\* stored already changes nothing: the payload differs and the call raises,
\* or it is the same and the campaign is returned.
Insert(c) ==
    /\ At(c, "insert")
    /\ IF observed[call[c].id] = NoObservation
         THEN /\ observed' = [observed EXCEPT ![call[c].id] =
                                [of |-> call[c].of, stage |-> call[c].copy.stage, report |-> call[c].report]]
              /\ call' = [call EXCEPT ![c] = [NoCall EXCEPT !.of = call[c].of, !.copy = call[c].copy,
                                !.pc = IF Hard(call[c].report) THEN "stop" ELSE "rows"]]
         ELSE Returns(c) /\ UNCHANGED observed
    /\ UNCHANGED <<dna, campaign, Bounds>>

\* evaluate(), for the revision its caller names: the one it has seen
Evaluate(c, v) ==
    /\ campaign[v].stage # "NONE"
    /\ Begin(c, [NoCall EXCEPT !.pc = "rows", !.of = v, !.copy = campaign[v]])
    /\ UNCHANGED <<dna, Stored, Bounds>>

Rows(v, stage) == {o \in Observations : observed[o].of = v /\ observed[o].stage = stage}

\* A faulty gate that counts the observations of every stage
EnoughOfAnyStage(v, stage) ==
    Cardinality({o \in Observations : observed[o].of = v}) >= Minimum[stage]

\* The gate of _evaluate() over the rows of a stage: the defaults of the
\* policy allow no weak run and no risk
Enough(v, stage) == Cardinality(Rows(v, stage)) >= Minimum[stage]
Passes(v, stage) == \A o \in Rows(v, stage) : observed[o].report \notin {"weak", "risk"}

\* _evaluate() decides on the rows.  The minimum durations are zero, as in
\* the policy of the command line (cli.py:361).  A campaign that is over has
\* no rows of its stage, and the minimum of Canary is then never reached.
Judge(c) ==
    LET v == call[c].of
        stage == call[c].copy.stage
    IN  /\ At(c, "rows")
        /\ IF stage \notin {"SHADOW", "CANARY"} \/ ~Enough(v, stage) THEN Returns(c)
           ELSE IF ~Passes(v, stage) THEN Goto(c, "stop")
           ELSE call' = [call EXCEPT ![c].pc = "advance", ![c].dna = dna[v]]
        /\ UNCHANGED <<dna, Stored, Bounds>>

\* the next gate of the registry, on the record the call has read
Advance(c) ==
    LET v == call[c].of
        held == call[c].dna.revision
        to == IF call[c].copy.stage = "SHADOW" THEN "CANARY" ELSE "ACTIVE"
        can == IF to = "CANARY" THEN CanTransition(v, to, held) ELSE CanActivate(v, held)
    IN  /\ At(c, "advance")
        /\ IF can
             THEN /\ IF to = "CANARY" THEN Transition(v, to, held) ELSE Activate(v, held)
                  /\ call' = [call EXCEPT ![c] = Changing(c, to)]
             ELSE Returns(c) /\ UNCHANGED dna
        /\ UNCHANGED <<Stored, Bounds>>

----------------------------------------------------------------------------
\* kill(), and rollback() of an active campaign: both read it and stop it
Kill(c, v) ==
    /\ campaign[v].stage \in Open
    /\ Begin(c, [NoCall EXCEPT !.pc = "stop", !.of = v, !.copy = campaign[v]])
    /\ UNCHANGED <<dna, Stored, Bounds>>

\* _stop() reads the record of its version, and that of the baseline
ReadForStop(c) ==
    /\ At(c, "stop")
    /\ call' = [call EXCEPT ![c].pc = IF call[c].copy.stage = "ACTIVE" /\ call[c].copy.baseline # "NONE"
                                        THEN "target" ELSE "withdraw",
                            ![c].dna = dna[call[c].of]]
    /\ UNCHANGED <<dna, Stored, Bounds>>

ReadTarget(c) ==
    /\ At(c, "target")
    /\ call' = [call EXCEPT ![c].pc = "restore", ![c].target = dna[call[c].copy.baseline].revision]
    /\ UNCHANGED <<dna, Stored, Bounds>>

\* The baseline is restored in the registry
Restore(c) ==
    LET base == call[c].copy.baseline
        held == call[c].dna.revision
    IN  /\ At(c, "restore")
        /\ IF CanRollback(base, held, call[c].target)
             THEN /\ Rollback(base, held, call[c].target)
                  /\ call' = [call EXCEPT ![c] = Changing(c, "ROLLED_BACK")]
             ELSE Returns(c) /\ UNCHANGED dna
        /\ UNCHANGED <<Stored, Bounds>>

\* or the version is retired, when the record says it is on its way
Withdraw(c) ==
    LET v == call[c].of
        held == call[c].dna
        must == held.status \in {"SHADOW", "CANARY"}
    IN  /\ At(c, "withdraw")
        /\ IF must /\ ~CanTransition(v, "RETIRED", held.revision)
             THEN Returns(c) /\ UNCHANGED dna
             ELSE /\ IF must THEN Transition(v, "RETIRED", held.revision) ELSE UNCHANGED dna
                  /\ call' = [call EXCEPT ![c] = Changing(c, "STOPPED")]
        /\ UNCHANGED <<Stored, Bounds>>

\* _change(): the campaign moves if nobody has moved it since it was read
Unmoved(c) == campaign[call[c].of].revision = call[c].copy.revision

Change(c) ==
    LET v == call[c].of
    IN  /\ At(c, "change")
        /\ IF Unmoved(c)
             THEN campaign' = [campaign EXCEPT ![v].stage = call[c].to, ![v].revision = @ + 1]
             ELSE UNCHANGED campaign
        /\ Returns(c)
        /\ UNCHANGED <<dna, observed, Bounds>>

----------------------------------------------------------------------------
\* The process ends, or the call is cancelled
Interrupt(c) ==
    /\ call[c] # NoCall /\ interrupts < MaxInterrupts
    /\ interrupts' = interrupts + 1
    /\ Returns(c)
    /\ UNCHANGED <<dna, Stored, operated>>

\* "bia dna transition", for the revision the operator has seen
Operate(v, to) ==
    /\ operated < MaxOperator
    /\ Transition(v, to, dna[v].revision)
    /\ operated' = operated + 1
    /\ UNCHANGED <<Stored, call, interrupts>>

Next ==
    \/ \E c \in Calls, v \in Versions :
         \/ Start(c, v) \/ Evaluate(c, v) \/ Kill(c, v)
         \/ \E o \in Observations, r \in Seen : Observe(c, v, o, r)
    \/ \E c \in Calls :
         \/ Enlist(c) \/ EnlistRefused(c) \/ Admit(c) \/ OpenCampaign(c) \/ Insert(c) \/ Judge(c)
         \/ Advance(c) \/ ReadForStop(c) \/ ReadTarget(c) \/ Restore(c) \/ Withdraw(c) \/ Change(c)
         \/ Interrupt(c)
    \/ \E v \in Versions, to \in Statuses : Operate(v, to)

Spec == Init /\ [][Next]_promVars

----------------------------------------------------------------------------
TypeOK ==
    /\ dna \in [Versions -> DnaRow]
    /\ campaign \in [Versions -> CampaignRow]
    /\ observed \in [Observations -> ObservationRow \cup {NoObservation}]

\* A campaign that left a stage for the next did so on enough observations
\* of that stage, whatever was observed, stopped or evaluated meanwhile
\* (_evaluate, dna_promotion.py:269-305).
PromotedOnEvidence ==
    \A v \in Versions :
        LET good(stage) == {o \in Rows(v, stage) : observed[o].report \in {"good", "breach"}}
        IN  /\ campaign[v].stage \in {"CANARY", "ACTIVE", "ROLLED_BACK"}
                 => Cardinality(good("SHADOW")) >= Minimum["SHADOW"]
            /\ campaign[v].stage \in {"ACTIVE", "ROLLED_BACK"}
                 => Cardinality(good("CANARY")) >= Minimum["CANARY"]

\* No campaign says more than the registry: it is behind its version after a
\* crash or a lost race, never ahead of it (_evaluate and _stop change the
\* registry first, dna_promotion.py:294-330).
RegistryLeads ==
    \A v \in Versions :
        /\ campaign[v].stage = "SHADOW" => dna[v].status \notin {"NONE", "CANDIDATE", "VALIDATED"}
        /\ campaign[v].stage = "CANARY" => dna[v].revision >= 3
        /\ campaign[v].stage = "ACTIVE" => dna[v].status \in {"ACTIVE", "DEPRECATED", "RETIRED"}
        /\ campaign[v].stage = "STOPPED"
             => dna[v].status \in {"ACTIVE", "DEPRECATED", "RETIRED"}

\* A campaign is promoted on evidence, and behind the registry
PromotionIsSound == TypeOK /\ PromotedOnEvidence /\ RegistryLeads

\* The registry keeps its promise under every interleaving of the calls
Life == INSTANCE VersionLife WITH
    Gates <- <<"NONE", "CANDIDATE", "VALIDATED", "SHADOW", "CANARY">>, Reinstates <- TRUE,
    stage <- [v \in Versions |-> dna[v].status]
ImplementsVersionLife == Life!Spec
================================================================================
