-------------------------- MODULE DnaPromotion_proofs --------------------------
(***************************************************************************)
(* Proofs about the promotion of versions, for any number of calls,        *)
(* versions and observations, and any interruptions: a campaign moves on   *)
(* evidence and never ahead of the registry, and the registry keeps the    *)
(* promise of VersionLife.                                                 *)
(*                                                                         *)
(* What a call remembers is judged against the tables as they are now, so  *)
(* the invariant is written with operators of a call, the rows d of the    *)
(* registry and the observations o: they stay true while d and o grow.     *)
(***************************************************************************)
EXTENDS DnaPromotion, FiniteSetTheorems, TLAPS

(* Statuses that a version with a campaign can have, and those that are    *)
(* never left for an earlier one.                                          *)
Late == {"SHADOW", "CANARY", "ACTIVE", "DEPRECATED", "RETIRED"}
Ended == {"ACTIVE", "DEPRECATED", "RETIRED"}

(* A status is reached through the ones before it, a revision at a time.   *)
Climbed(d) ==
    \A v \in Versions :
        /\ d[v].status = "NONE" => d[v].revision = 0
        /\ d[v].status = "VALIDATED" => d[v].revision >= 1
        /\ d[v].status = "SHADOW" => d[v].revision >= 2
        /\ d[v].status = "CANARY" => d[v].revision >= 3

Good(o, v, stage) ==
    {i \in Observations : /\ o[i].of = v /\ o[i].stage = stage
                          /\ o[i].report \in {"good", "breach"}}

(* A stage is left for the next one on enough good observations.           *)
Earned(o, v, stage) == Cardinality(Good(o, v, stage)) >= Minimum[stage]
Evidence(o, v, stage) ==
    /\ stage \in {"CANARY", "ACTIVE", "ROLLED_BACK"} => Earned(o, v, "SHADOW")
    /\ stage \in {"ACTIVE", "ROLLED_BACK"} => Earned(o, v, "CANARY")

(* The registry is where a campaign in this stage says, or further.        *)
Leads(d, v, stage) ==
    /\ stage # "NONE" => d[v].status \in Late
    /\ stage = "CANARY" => d[v].revision >= 3
    /\ stage \in {"ACTIVE", "STOPPED"} => d[v].status \in Ended

(* Calls that work on the copy of a campaign, and on a record they read.   *)
Working == {"insert", "rows", "advance", "stop", "target", "restore", "withdraw"}
Holding == {"target", "restore", "withdraw"}

CallRow ==
    [pc : {"idle", "enlist", "admit", "change"} \cup Working, of : Versions \cup {"NONE"},
     copy : CampaignRow, id : Observations \cup {"NONE"}, report : Reports \cup {"NONE"},
     dna : DnaRow, target : Nat, to : Stages \cup {"NONE"}]

(* A call is a row of its own, and what it needs at its step is there.     *)
Formed(k) ==
    /\ k \in CallRow
    /\ k.pc # "idle" => k.of \in Versions
    /\ k.pc \in {"enlist", "admit"} => k.copy.revision = 0
    /\ k.pc = "insert" => k.id \in Observations /\ k.report \in Reports /\ k.copy.stage \in Open
    /\ k.pc = "advance" => k.copy.stage \in {"SHADOW", "CANARY"}
    /\ k.pc \in {"target", "restore"} => k.copy.stage = "ACTIVE" /\ k.copy.baseline \in Versions
    /\ k.pc = "change" => k.to \in Stages

(* What a call has read or done still counts.                              *)
Counts(k, d, o) ==
    /\ k.pc \in Working =>
          k.copy.stage # "NONE" /\ d[k.of].status \in Late /\ Evidence(o, k.of, k.copy.stage)
    /\ k.pc = "advance" => Earned(o, k.of, k.copy.stage)
    /\ k.pc \in Holding => k.dna.status \in Late
    /\ k.pc \in Holding \cup {"admit"} =>
          /\ k.dna.status \in Late => d[k.of].status \in Late
          /\ k.dna.status \in Ended => d[k.of].status \in Ended
    /\ k.pc = "change" => Leads(d, k.of, k.to) /\ Evidence(o, k.of, k.to)

Recorded(o) == {i \in Observations : o[i] # NoObservation}

IInv ==
    /\ TypeOK
    /\ Climbed(dna)
    /\ IsFiniteSet(Recorded(observed))
    /\ \A v \in Versions : Leads(dna, v, campaign[v].stage) /\ Evidence(observed, v, campaign[v].stage)
    /\ call \in [Calls -> CallRow]
    /\ \A c \in Calls : Formed(call[c]) /\ Counts(call[c], dna, observed)

-----------------------------------------------------------------------------
(* The registry only climbs.                                               *)

Registry == [Versions -> DnaRow]

Climbs(d, e) ==
    \A v \in Versions :
        /\ e[v].revision >= d[v].revision
        /\ d[v].status \in Late => e[v].status \in Late
        /\ d[v].status \in Ended => e[v].status \in Ended

(* A version that is registered starts at the bottom.                      *)
LEMMA RegisterClimbs ==
    ASSUME NEW v \in Versions, dna \in Registry, Climbed(dna), Register(v)
    PROVE  dna' \in Registry /\ Climbed(dna') /\ Climbs(dna, dna')
           /\ dna'[v].status = "CANDIDATE"
BY DEF Register, CanRegister, Registry, DnaRow, Statuses, Climbed, Climbs, Late, Ended

(* Changed() moves the named rows on by one revision.                      *)
LEMMA ChangedClimbs ==
    ASSUME NEW to, DOMAIN to \subseteq Versions, dna \in Registry, Climbed(dna),
           \A v \in DOMAIN to :
              \/ <<dna[v].status, to[v]>> \in Allowed
              \/ dna[v].status = "DEPRECATED" /\ to[v] = "ACTIVE",
           dna' = Changed(to)
    PROVE  dna' \in Registry /\ Climbed(dna') /\ Climbs(dna, dna')
<1>1. ASSUME NEW v \in Versions
      PROVE  /\ dna'[v] \in DnaRow
             /\ dna'[v].status = "NONE" => dna'[v].revision = 0
             /\ dna'[v].status = "VALIDATED" => dna'[v].revision >= 1
             /\ dna'[v].status = "SHADOW" => dna'[v].revision >= 2
             /\ dna'[v].status = "CANARY" => dna'[v].revision >= 3
             /\ dna'[v].revision >= dna[v].revision
             /\ dna[v].status \in Late => dna'[v].status \in Late
             /\ dna[v].status \in Ended => dna'[v].status \in Ended
  <2>1. CASE v \notin DOMAIN to
        BY <2>1 DEF Changed, Registry, Climbed, Late, Ended, DnaRow
  <2>2. CASE v \in DOMAIN to
    <3>1. dna'[v] = [status |-> to[v], revision |-> dna[v].revision + 1]
          BY <2>2 DEF Changed
    <3>2. dna[v].status \in Statuses \cup {"NONE"} /\ dna[v].revision \in Nat
          BY DEF Registry, DnaRow
    <3> QED BY <2>2, <3>1, <3>2 DEF Climbed, Late, Ended, DnaRow, Allowed, Statuses
  <2> QED BY <2>1, <2>2
<1>2. dna' \in Registry
      BY <1>1 DEF Changed, Registry
<1> QED BY <1>1, <1>2 DEF Climbed, Climbs

LEMMA TransitionClimbs ==
    ASSUME NEW v \in Versions, NEW to, NEW r, dna \in Registry, Climbed(dna), Transition(v, to, r)
    PROVE  /\ dna' \in Registry /\ Climbed(dna') /\ Climbs(dna, dna')
           /\ dna'[v].status = to /\ <<dna[v].status, to>> \in Allowed
<1>1. <<dna[v].status, to>> \in Allowed
      BY DEF Transition, CanTransition
<1>2. dna' \in Registry /\ Climbed(dna') /\ Climbs(dna, dna')
      BY <1>1, ChangedClimbs DEF Transition
<1> QED BY <1>1, <1>2 DEF Transition, Changed

LEMMA ActivateClimbs ==
    ASSUME NEW v \in Versions, NEW r, dna \in Registry, Climbed(dna), Activate(v, r)
    PROVE  /\ dna' \in Registry /\ Climbed(dna') /\ Climbs(dna, dna')
           /\ dna'[v].status = "ACTIVE"
<1> DEFINE to == [x \in ActiveVersions \cup {v} |-> IF x = v THEN "ACTIVE" ELSE "DEPRECATED"]
<1>1. \A x \in DOMAIN to : <<dna[x].status, to[x]>> \in Allowed
      BY DEF Activate, CanActivate, ActiveVersions, Allowed
<1>2. DOMAIN to \subseteq Versions /\ dna' = Changed(to)
      BY DEF Activate, ActiveVersions
<1>3. dna' \in Registry /\ Climbed(dna') /\ Climbs(dna, dna')
      BY <1>1, <1>2, ChangedClimbs
<1> QED BY <1>2, <1>3 DEF Changed

LEMMA RollbackClimbs ==
    ASSUME NEW v \in Versions, NEW r, NEW q, dna \in Registry, Climbed(dna), Rollback(v, r, q)
    PROVE  dna' \in Registry /\ Climbed(dna') /\ Climbs(dna, dna')
<1> DEFINE to == [x \in ActiveVersions \cup {v} |-> IF x = v THEN "ACTIVE" ELSE "DEPRECATED"]
<1>1. \A x \in DOMAIN to : \/ <<dna[x].status, to[x]>> \in Allowed
                           \/ dna[x].status = "DEPRECATED" /\ to[x] = "ACTIVE"
      BY DEF Rollback, CanRollback, ActiveVersions, Allowed
<1>2. DOMAIN to \subseteq Versions /\ dna' = Changed(to)
      BY DEF Rollback, ActiveVersions
<1> QED BY <1>1, <1>2, ChangedClimbs

LEMMA StillClimbs ==
    ASSUME dna \in Registry, Climbed(dna), UNCHANGED dna
    PROVE  dna' \in Registry /\ Climbed(dna') /\ Climbs(dna, dna')
BY DEF Registry, DnaRow, Climbs, Climbed

-----------------------------------------------------------------------------
(* What has been observed stays observed, and so does what it proved.      *)

Table == [Observations -> ObservationRow \cup {NoObservation}]

Extends(o, p) ==
    /\ p \in Table
    /\ IsFiniteSet(Recorded(p))
    /\ \A i \in Observations : o[i] # NoObservation => p[i] = o[i]

LEMMA EarnedStays ==
    ASSUME NEW o, NEW p, Extends(o, p), o \in Table, IsFiniteSet(Recorded(o)),
           NEW v, NEW stage \in {"SHADOW", "CANARY"}, Earned(o, v, stage)
    PROVE  Earned(p, v, stage)
<1>1. Good(o, v, stage) \subseteq Good(p, v, stage)
      BY DEF Good, Extends, NoObservation
<1>2. Good(p, v, stage) \subseteq Recorded(p)
      BY DEF Good, Recorded, NoObservation
<1>3. /\ IsFiniteSet(Good(p, v, stage))
      /\ Cardinality(Good(o, v, stage)) <= Cardinality(Good(p, v, stage))
      BY <1>1, <1>2, FS_Subset DEF Extends
<1>4. /\ Cardinality(Good(o, v, stage)) \in Nat /\ Cardinality(Good(p, v, stage)) \in Nat
      BY <1>1, <1>3, FS_Subset, FS_CardinalityType
<1>5. Minimum[stage] \in Nat
      BY DnaPromotionAssumption
<1> QED BY <1>3, <1>4, <1>5 DEF Earned

LEMMA EvidenceStays ==
    ASSUME NEW o, NEW p, Extends(o, p), o \in Table, IsFiniteSet(Recorded(o)),
           NEW v, NEW stage, Evidence(o, v, stage)
    PROVE  Evidence(p, v, stage)
BY EarnedStays DEF Evidence

LEMMA LeadsStays ==
    ASSUME NEW d \in Registry, NEW e \in Registry, Climbs(d, e),
           NEW v \in Versions, NEW stage, Leads(d, v, stage)
    PROVE  Leads(e, v, stage)
BY DEF Leads, Climbs, Registry, DnaRow

(* A call that does nothing loses nothing to the steps of the others.      *)
LEMMA CountsStays ==
    ASSUME NEW d \in Registry, NEW e \in Registry, Climbs(d, e),
           NEW o \in Table, NEW p, Extends(o, p), IsFiniteSet(Recorded(o)),
           NEW k, Formed(k), Counts(k, d, o)
    PROVE  Counts(k, e, p)
<1>1. k.pc # "idle" => k.of \in Versions
      BY DEF Formed
<1>2. k.pc \in Working =>
         k.copy.stage # "NONE" /\ e[k.of].status \in Late /\ Evidence(p, k.of, k.copy.stage)
      BY <1>1, EvidenceStays DEF Counts, Climbs, Working
<1>3. k.pc = "advance" => Earned(p, k.of, k.copy.stage)
      BY EarnedStays DEF Counts, Formed
<1>4. k.pc \in Holding \cup {"admit"} =>
         /\ k.dna.status \in Late => e[k.of].status \in Late
         /\ k.dna.status \in Ended => e[k.of].status \in Ended
      BY <1>1 DEF Counts, Climbs, Holding
<1>5. k.pc = "change" => Leads(e, k.of, k.to) /\ Evidence(p, k.of, k.to)
      BY <1>1, EvidenceStays, LeadsStays DEF Counts
<1> QED BY <1>2, <1>3, <1>4, <1>5 DEF Counts

(* A step of one call: the tables grow, campaigns may change.              *)
LEMMA CallStep ==
    ASSUME IInv, NEW c \in Calls, NEW k, call' = [call EXCEPT ![c] = k],
           Formed(k), Counts(k, dna', observed'),
           dna' \in Registry, Climbed(dna'), Climbs(dna, dna'), Extends(observed, observed'),
           NEW v \in Versions, NEW row \in CampaignRow,
           \/ UNCHANGED campaign
           \/ /\ campaign' = [campaign EXCEPT ![v] = row]
              /\ Leads(dna', v, row.stage) /\ Evidence(observed', v, row.stage)
    PROVE  IInv'
<1>1. TypeOK'
      BY DEF IInv, TypeOK, Registry, Extends, Table
<1>2. ASSUME NEW w \in Versions
      PROVE  Leads(dna', w, campaign'[w].stage) /\ Evidence(observed', w, campaign'[w].stage)
  <2>1. campaign \in [Versions -> CampaignRow] /\ dna \in Registry /\ observed \in Table
        BY DEF IInv, TypeOK, Registry, Table
  <2>2. Leads(dna', w, campaign[w].stage) /\ Evidence(observed', w, campaign[w].stage)
        BY <2>1, LeadsStays, EvidenceStays DEF IInv
  <2> QED BY <2>1, <2>2
<1>3. call' \in [Calls -> CallRow]
      BY DEF IInv, Formed
<1>4. ASSUME NEW b \in Calls
      PROVE  Formed(call'[b]) /\ Counts(call'[b], dna', observed')
  <2>1. CASE b = c
        BY <2>1 DEF IInv
  <2>2. CASE b # c
    <3>1. call'[b] = call[b] /\ Formed(call[b]) /\ Counts(call[b], dna, observed)
          BY <2>2 DEF IInv
    <3>2. dna \in Registry /\ observed \in Table /\ IsFiniteSet(Recorded(observed))
          BY DEF IInv, TypeOK, Registry, Table
    <3> QED BY <3>1, <3>2, CountsStays
  <2> QED BY <2>1, <2>2
<1> QED BY <1>1, <1>2, <1>3, <1>4 DEF IInv, Extends

LEMMA StillExtends ==
    ASSUME observed \in Table, IsFiniteSet(Recorded(observed)), UNCHANGED observed
    PROVE  Extends(observed, observed')
BY DEF Extends

-----------------------------------------------------------------------------
(* The inductive step, one action at a time.                               *)

LEMMA InductiveInit == Init => IInv
<1> SUFFICES ASSUME Init PROVE IInv
    OBVIOUS
<1>1. NoDna \in DnaRow /\ NoCampaign \in CampaignRow
      BY DEF NoDna, DnaRow, NoCampaign, CampaignRow
<1>2. TypeOK
      BY <1>1 DEF Init, TypeOK, DnaRow, Statuses
<1>3. Climbed(dna)
      BY DEF Init, Climbed, NoDna
<1>4. IsFiniteSet(Recorded(observed))
  <2>1. Recorded(observed) = {}
        BY DEF Init, Recorded
  <2> QED BY <2>1, FS_EmptySet
<1>5. \A v \in Versions : Leads(dna, v, campaign[v].stage) /\ Evidence(observed, v, campaign[v].stage)
      BY DEF Init, NoCampaign, Leads, Evidence
<1>6. NoCall \in CallRow /\ Formed(NoCall) /\ Counts(NoCall, dna, observed)
      BY <1>1 DEF NoCall, CallRow, Formed, Counts, Working, Holding
<1> QED BY <1>2, <1>3, <1>4, <1>5, <1>6 DEF Init, IInv

(* A call that has returned needs nothing.                                 *)
LEMMA NoCallCounts ==
    ASSUME NEW d, NEW o
    PROVE  Formed(NoCall) /\ Counts(NoCall, d, o)
BY DEF NoCall, CallRow, Formed, Counts, Working, Holding, NoDna, DnaRow, NoCampaign, CampaignRow

(* A step that changes one call and none of the tables.                    *)
LEMMA ReadStep ==
    ASSUME IInv, NEW c \in Calls, NEW k, call' = [call EXCEPT ![c] = k],
           Formed(k), Counts(k, dna, observed), UNCHANGED <<dna, campaign, observed>>
    PROVE  IInv'
<1>1. dna \in Registry /\ observed \in Table /\ IsFiniteSet(Recorded(observed)) /\ Climbed(dna)
      BY DEF IInv, TypeOK, Registry, Table
<1>2. PICK v \in Versions : TRUE
      BY DnaPromotionAssumption
<1>3. NoCampaign \in CampaignRow
      BY DEF NoCampaign, CampaignRow
<1> QED BY <1>1, <1>2, <1>3, CallStep, StillClimbs, StillExtends

LEMMA ReturnStep ==
    ASSUME IInv, NEW c \in Calls, Returns(c), UNCHANGED <<dna, campaign, observed>>
    PROVE  IInv'
BY NoCallCounts, ReadStep DEF Returns

(* A step that changes the registry, and the call that took it.            *)
LEMMA RegistryStep ==
    ASSUME IInv, NEW c \in Calls, NEW k, call' = [call EXCEPT ![c] = k],
           Formed(k), Counts(k, dna', observed'), UNCHANGED <<campaign, observed>>,
           dna' \in Registry, Climbed(dna'), Climbs(dna, dna')
    PROVE  IInv'
<1>1. observed \in Table /\ IsFiniteSet(Recorded(observed))
      BY DEF IInv, TypeOK, Table
<1>2. PICK v \in Versions : TRUE
      BY DnaPromotionAssumption
<1>3. NoCampaign \in CampaignRow
      BY DEF NoCampaign, CampaignRow
<1> QED BY <1>1, <1>2, <1>3, CallStep, StillExtends

(* The tables and one call, as the invariant describes them.               *)
LEMMA Given ==
    ASSUME IInv, NEW c \in Calls
    PROVE  /\ dna \in Registry /\ observed \in Table /\ campaign \in [Versions -> CampaignRow]
           /\ IsFiniteSet(Recorded(observed)) /\ Climbed(dna)
           /\ call[c] \in CallRow /\ Formed(call[c]) /\ Counts(call[c], dna, observed)
BY DEF IInv, TypeOK, Registry, Table

(* A step that moves a campaign, and returns.                              *)
LEMMA CampaignStep ==
    ASSUME IInv, NEW c \in Calls, Returns(c), UNCHANGED <<dna, observed>>,
           NEW v \in Versions, NEW row \in CampaignRow, campaign' = [campaign EXCEPT ![v] = row],
           Leads(dna, v, row.stage), Evidence(observed, v, row.stage)
    PROVE  IInv'
<1>1. dna' \in Registry /\ Climbed(dna') /\ Climbs(dna, dna')
      BY Given, StillClimbs
<1>2. Extends(observed, observed')
      BY Given, StillExtends
<1>3. Formed(NoCall) /\ Counts(NoCall, dna', observed')
      BY NoCallCounts
<1>4. call' = [call EXCEPT ![c] = NoCall]
      BY DEF Returns
<1>5. Leads(dna', v, row.stage) /\ Evidence(observed', v, row.stage)
      OBVIOUS
<1> QED BY <1>1, <1>2, <1>3, <1>4, <1>5, CallStep

LEMMA StartStep ==
    ASSUME IInv, NEW c \in Calls, NEW v \in Versions, Start(c, v)
    PROVE  IInv'
<1>1. PICK b \in Versions \cup {"NONE"} :
         Begin(c, [NoCall EXCEPT !.pc = "enlist", !.of = v, !.copy = [NoCampaign EXCEPT !.baseline = b]])
      BY DEF Start
<1> DEFINE k == [NoCall EXCEPT !.pc = "enlist", !.of = v, !.copy = [NoCampaign EXCEPT !.baseline = b]]
<1>2. Formed(k) /\ Counts(k, dna, observed)
      BY DEF NoCall, CallRow, Formed, Counts, Working, Holding, NoDna, DnaRow, NoCampaign, CampaignRow
<1> QED BY <1>1, <1>2, ReadStep DEF Start, Begin, Stored

LEMMA EnlistStep ==
    ASSUME IInv, NEW c \in Calls, Enlist(c)
    PROVE  IInv'
<1> DEFINE v == call[c].of
           k == [call[c] EXCEPT !.pc = "admit", !.dna = dna'[v]]
<1>1. v \in Versions /\ call[c] \in CallRow
      BY Given DEF Formed, Enlist, At
<1>2. dna' \in Registry /\ Climbed(dna') /\ Climbs(dna, dna')
      BY <1>1, Given, RegisterClimbs, StillClimbs DEF Enlist
<1>3. dna'[v] \in DnaRow
      BY <1>1, <1>2 DEF Registry
<1>4. Formed(k) /\ Counts(k, dna', observed')
      BY <1>1, <1>3, Given DEF CallRow, Formed, Counts, Working, Holding, Enlist, At
<1>5. call' = [call EXCEPT ![c] = k]
      BY DEF Enlist
<1> QED BY <1>2, <1>4, <1>5, RegistryStep DEF Enlist, Stored

LEMMA AdmitStep ==
    ASSUME IInv, NEW c \in Calls, Admit(c)
    PROVE  IInv'
<1> DEFINE v == call[c].of
           held == call[c].dna
           next == [CANDIDATE |-> "VALIDATED", VALIDATED |-> "SHADOW"]
           k == [call[c] EXCEPT !.dna = dna'[v]]
<1>1. v \in Versions /\ call[c] \in CallRow
      BY Given DEF Formed, Admit, At
<1>2. CASE CanTransition(v, next[held.status], held.revision)
  <2>1. Transition(v, next[held.status], held.revision) /\ call' = [call EXCEPT ![c] = k]
        BY <1>2 DEF Admit
  <2>2. dna' \in Registry /\ Climbed(dna') /\ Climbs(dna, dna')
        BY <1>1, <2>1, Given, TransitionClimbs
  <2>3. dna'[v] \in DnaRow
        BY <1>1, <2>2 DEF Registry
  <2>4. Formed(k) /\ Counts(k, dna', observed')
        BY <1>1, <2>3, Given DEF CallRow, Formed, Counts, Working, Holding, Admit, At
  <2> QED BY <2>1, <2>2, <2>4, RegistryStep DEF Admit, Stored
<1>3. CASE ~ CanTransition(v, next[held.status], held.revision)
      BY <1>3, ReturnStep DEF Admit, Stored
<1> QED BY <1>2, <1>3

LEMMA OpenStep ==
    ASSUME IInv, NEW c \in Calls, OpenCampaign(c)
    PROVE  IInv'
<1> DEFINE v == call[c].of
           row == [call[c].copy EXCEPT !.stage = "SHADOW"]
<1>1. v \in Versions /\ call[c] \in CallRow
      BY Given DEF Formed, OpenCampaign, At
<1>2. CASE UNCHANGED campaign
      BY <1>2, ReturnStep DEF OpenCampaign
<1>3. CASE campaign' # campaign
  <2>1. call[c].dna.status = "SHADOW" /\ campaign' = [campaign EXCEPT ![v] = row]
        BY <1>3 DEF OpenCampaign
  <2>2. row \in CampaignRow
        BY <1>1 DEF CallRow, CampaignRow, Stages, Open
  <2>3. Leads(dna, v, "SHADOW") /\ Evidence(observed, v, "SHADOW")
        BY <2>1, Given DEF Counts, OpenCampaign, At, Leads, Late, Evidence
  <2>4. row.stage = "SHADOW"
        BY <1>1 DEF CallRow, CampaignRow
  <2>5. Returns(c) /\ UNCHANGED <<dna, observed>>
        BY DEF OpenCampaign
  <2> HIDE DEF v, row
  <2> QED BY <1>1, <2>1, <2>2, <2>3, <2>4, <2>5, CampaignStep
<1> QED BY <1>2, <1>3

LEMMA ObserveStep ==
    ASSUME IInv, NEW c \in Calls, NEW v \in Versions, NEW o \in Observations, NEW r \in Seen,
           Observe(c, v, o, r)
    PROVE  IInv'
<1> DEFINE k == [NoCall EXCEPT !.pc = "insert", !.of = v, !.copy = campaign[v], !.id = o, !.report = r]
<1>1. campaign[v] \in CampaignRow /\ campaign[v].stage \in Open
      BY DEF IInv, TypeOK, Observe
<1>2. Leads(dna, v, campaign[v].stage) /\ Evidence(observed, v, campaign[v].stage)
      BY DEF IInv
<1>3. Formed(k)
      BY <1>1, DnaPromotionAssumption DEF NoCall, CallRow, Formed, Working, NoDna, DnaRow, Reports
<1>4. Counts(k, dna, observed)
      BY <1>1, <1>2 DEF NoCall, Counts, Working, Holding, Open, Leads
<1>5. call' = [call EXCEPT ![c] = k]
      BY DEF Observe, Begin
<1> QED BY <1>3, <1>4, <1>5, ReadStep DEF Observe, Stored

LEMMA InsertStep ==
    ASSUME IInv, NEW c \in Calls, Insert(c)
    PROVE  IInv'
<1> DEFINE k == [NoCall EXCEPT !.of = call[c].of, !.copy = call[c].copy,
                               !.pc = IF Hard(call[c].report) THEN "stop" ELSE "rows"]
           i == call[c].id
           new == [of |-> call[c].of, stage |-> call[c].copy.stage, report |-> call[c].report]
<1>1. call[c] \in CallRow /\ call[c].of \in Versions /\ i \in Observations /\ new \in ObservationRow
      BY Given DEF Formed, Insert, At, ObservationRow
<1>2. CASE observed[i] = NoObservation
  <2>1. observed' = [observed EXCEPT ![i] = new] /\ call' = [call EXCEPT ![c] = k]
        BY <1>2 DEF Insert
  <2>2. Extends(observed, observed')
    <3>1. observed' \in Table
          BY <1>1, <2>1, Given DEF Table
    <3>2. Recorded(observed') \subseteq Recorded(observed) \cup {i}
          BY <2>1, Given DEF Recorded, Table
    <3>3. IsFiniteSet(Recorded(observed'))
          BY <3>2, Given, FS_AddElement, FS_Subset
    <3>4. \A j \in Observations : observed[j] # NoObservation => observed'[j] = observed[j]
          BY <1>2, <2>1, Given DEF Table
    <3> QED BY <3>1, <3>3, <3>4 DEF Extends
  <2>3. Formed(k)
        BY <1>1 DEF NoCall, CallRow, Formed, Working, NoDna, DnaRow
  <2>0. dna' = dna /\ Climbs(dna, dna)
        BY Given, StillClimbs DEF Insert
  <2>4. Counts(call[c], dna, observed')
        BY <2>0, <2>2, Given, CountsStays
  <2>5. Counts(k, dna, observed')
        BY <2>4 DEF NoCall, Counts, Working, Holding, Insert, At
  <2>6. dna' \in Registry /\ Climbed(dna') /\ Climbs(dna, dna') /\ dna' = dna /\ UNCHANGED campaign
        BY Given, StillClimbs DEF Insert
  <2>7. campaign[call[c].of] \in CampaignRow
        BY <1>1, Given
  <2> HIDE DEF k
  <2> QED BY <1>1, <2>1, <2>2, <2>3, <2>5, <2>6, <2>7, CallStep
<1>3. CASE observed[i] # NoObservation
      BY <1>3, ReturnStep DEF Insert
<1> QED BY <1>2, <1>3

LEMMA EvaluateStep ==
    ASSUME IInv, NEW c \in Calls, NEW v \in Versions, Evaluate(c, v)
    PROVE  IInv'
<1> DEFINE k == [NoCall EXCEPT !.pc = "rows", !.of = v, !.copy = campaign[v]]
<1>1. campaign[v] \in CampaignRow /\ campaign[v].stage # "NONE"
      BY DEF IInv, TypeOK, Evaluate
<1>2. Leads(dna, v, campaign[v].stage) /\ Evidence(observed, v, campaign[v].stage)
      BY DEF IInv
<1>3. Formed(k)
      BY <1>1 DEF NoCall, CallRow, Formed, Working, NoDna, DnaRow, Reports
<1>4. Counts(k, dna, observed)
      BY <1>1, <1>2 DEF NoCall, Counts, Working, Holding, Leads
<1> QED BY <1>3, <1>4, ReadStep DEF Evaluate, Begin, Stored

LEMMA KillStep ==
    ASSUME IInv, NEW c \in Calls, NEW v \in Versions, Kill(c, v)
    PROVE  IInv'
<1> DEFINE k == [NoCall EXCEPT !.pc = "stop", !.of = v, !.copy = campaign[v]]
<1>1. campaign[v] \in CampaignRow /\ campaign[v].stage # "NONE"
      BY DEF IInv, TypeOK, Kill, Open
<1>2. Leads(dna, v, campaign[v].stage) /\ Evidence(observed, v, campaign[v].stage)
      BY DEF IInv
<1>3. Formed(k)
      BY <1>1 DEF NoCall, CallRow, Formed, Working, NoDna, DnaRow, Reports
<1>4. Counts(k, dna, observed)
      BY <1>1, <1>2 DEF NoCall, Counts, Working, Holding, Leads
<1> QED BY <1>3, <1>4, ReadStep DEF Kill, Begin, Stored

(* Enough rows of a stage, none of them bad, are enough good rows.         *)
LEMMA JudgedIsEarned ==
    ASSUME observed \in Table, NEW v \in Versions, NEW stage \in {"SHADOW", "CANARY"},
           Enough(v, stage), Passes(v, stage)
    PROVE  Earned(observed, v, stage)
<1>1. Rows(v, stage) = Good(observed, v, stage)
  <2> SUFFICES ASSUME NEW i \in Observations, observed[i].of = v, observed[i].stage = stage
               PROVE  observed[i].report \in {"good", "breach"}
      BY DEF Rows, Good
  <2>1. observed[i] \in ObservationRow
        BY DEF Table, NoObservation
  <2> QED BY <2>1 DEF Passes, Rows, ObservationRow, Reports
<1> QED BY <1>1 DEF Enough, Earned

LEMMA JudgeStep ==
    ASSUME IInv, NEW c \in Calls, Judge(c)
    PROVE  IInv'
<1> DEFINE v == call[c].of
           stage == call[c].copy.stage
<1>1. call[c] \in CallRow /\ v \in Versions /\ Counts(call[c], dna, observed)
      BY Given DEF Formed, Judge, At
<1>2. dna[v] \in DnaRow
      BY <1>1, Given DEF Registry
<1>3. CASE stage \notin {"SHADOW", "CANARY"} \/ ~ Enough(v, stage)
      BY <1>3, ReturnStep DEF Judge, Stored
<1>4. CASE ~ (stage \notin {"SHADOW", "CANARY"} \/ ~ Enough(v, stage)) /\ ~ Passes(v, stage)
  <2> DEFINE k == [call[c] EXCEPT !.pc = "stop"]
  <2>1. call' = [call EXCEPT ![c] = k]
        BY <1>4 DEF Judge, Goto
  <2>2. Formed(k) /\ Counts(k, dna, observed)
        BY <1>1 DEF CallRow, Formed, Counts, Working, Holding, Judge, At
  <2> QED BY <2>1, <2>2, ReadStep DEF Judge, Stored
<1>5. CASE ~ (stage \notin {"SHADOW", "CANARY"} \/ ~ Enough(v, stage)) /\ Passes(v, stage)
  <2> DEFINE k == [call[c] EXCEPT !.pc = "advance", !.dna = dna[v]]
  <2>1. call' = [call EXCEPT ![c] = k]
        BY <1>5 DEF Judge
  <2>2. Earned(observed, v, stage)
        BY <1>1, <1>5, Given, JudgedIsEarned
  <2>3. Formed(k)
        BY <1>1, <1>2, <1>5 DEF CallRow, Formed, Working
  <2>4. Counts(k, dna, observed)
        BY <1>1, <2>2 DEF CallRow, Counts, Working, Holding, Judge, At
  <2> QED BY <2>1, <2>3, <2>4, ReadStep DEF Judge, Stored
<1> QED BY <1>3, <1>4, <1>5

LEMMA AdvanceStep ==
    ASSUME IInv, NEW c \in Calls, Advance(c)
    PROVE  IInv'
<1> DEFINE v == call[c].of
           held == call[c].dna.revision
           stage == call[c].copy.stage
           to == IF stage = "SHADOW" THEN "CANARY" ELSE "ACTIVE"
           can == IF to = "CANARY" THEN CanTransition(v, to, held) ELSE CanActivate(v, held)
           k == Changing(c, to)
<1>1. call[c] \in CallRow /\ v \in Versions /\ stage \in {"SHADOW", "CANARY"} /\ call[c].pc = "advance"
      BY Given DEF Formed, Advance, At
<1>2. /\ Evidence(observed, v, stage) /\ Earned(observed, v, stage) /\ dna[v].status \in Late
      BY <1>1, Given DEF Counts, Working
<1>3. CASE ~ can
      BY <1>3, ReturnStep DEF Advance, Stored
<1>4. CASE can
  <2>1. /\ call' = [call EXCEPT ![c] = k]
        /\ \/ to = "CANARY" /\ Transition(v, to, held)
           \/ to = "ACTIVE" /\ Activate(v, held)
        BY <1>4 DEF Advance
  <2>2. dna' \in Registry /\ Climbed(dna') /\ Climbs(dna, dna') /\ dna'[v].status = to
    <3>1. CASE to = "CANARY"
      <4>1. dna \in Registry /\ Climbed(dna) /\ Transition(v, to, held)
            BY <2>1, <3>1, Given
      <4> HIDE DEF v, to, held
      <4> QED BY <1>1, <4>1, TransitionClimbs
    <3>2. CASE to = "ACTIVE"
          BY <1>1, <2>1, <3>2, Given, ActivateClimbs
    <3> QED BY <3>1, <3>2
  <2>3. Leads(dna', v, to)
        BY <1>1, <2>2 DEF Leads, Late, Ended, Climbed
  <2>4. Evidence(observed, v, to)
        BY <1>1, <1>2 DEF Evidence
  <2>5. to \in Stages
        BY DEF Stages, Open
  <2> HIDE DEF to
  <2>6. Formed(k)
        BY <1>1, <2>5 DEF Changing, NoCall, NoCampaign, NoDna, DnaRow, CallRow, CampaignRow, Formed, Working
  <2>7. Counts(k, dna', observed)
        BY <2>3, <2>4 DEF Changing, NoCall, Counts, Working, Holding
  <2>8. UNCHANGED <<campaign, observed>>
        BY DEF Advance, Stored
  <2> HIDE DEF k
  <2> QED BY <2>1, <2>2, <2>6, <2>7, <2>8, RegistryStep
<1> QED BY <1>3, <1>4

LEMMA ReadForStopStep ==
    ASSUME IInv, NEW c \in Calls, ReadForStop(c)
    PROVE  IInv'
<1> DEFINE v == call[c].of
           k == [call[c] EXCEPT !.pc = IF call[c].copy.stage = "ACTIVE" /\ call[c].copy.baseline # "NONE"
                                       THEN "target" ELSE "withdraw",
                                !.dna = dna[v]]
<1>1. call[c] \in CallRow /\ v \in Versions /\ call[c].pc = "stop"
      BY Given DEF Formed, ReadForStop, At
<1>2. dna[v] \in DnaRow
      BY <1>1, Given DEF Registry
<1>3. call[c].copy \in CampaignRow
      BY <1>1 DEF CallRow
<1>4. Formed(k)
      BY <1>1, <1>2, <1>3 DEF CallRow, CampaignRow, Formed, Working
<1>5. Counts(k, dna, observed)
      BY <1>1, Given DEF CallRow, Counts, Working, Holding
<1>6. call' = [call EXCEPT ![c] = k]
      BY DEF ReadForStop
<1> QED BY <1>4, <1>5, <1>6, ReadStep DEF ReadForStop, Stored

LEMMA ReadTargetStep ==
    ASSUME IInv, NEW c \in Calls, ReadTarget(c)
    PROVE  IInv'
<1> DEFINE base == call[c].copy.baseline
           k == [call[c] EXCEPT !.pc = "restore", !.target = dna[base].revision]
<1>1. call[c] \in CallRow /\ call[c].of \in Versions /\ base \in Versions /\ call[c].pc = "target"
      BY Given DEF Formed, ReadTarget, At
<1>2. dna[base].revision \in Nat
      BY <1>1, Given DEF Registry, DnaRow
<1>3. Formed(k)
      BY <1>1, <1>2, Given DEF CallRow, Formed, Working
<1>4. Counts(k, dna, observed)
      BY <1>1, Given DEF CallRow, Counts, Working, Holding
<1>5. call' = [call EXCEPT ![c] = k]
      BY DEF ReadTarget
<1> QED BY <1>3, <1>4, <1>5, ReadStep DEF ReadTarget, Stored

LEMMA RestoreStep ==
    ASSUME IInv, NEW c \in Calls, Restore(c)
    PROVE  IInv'
<1> DEFINE v == call[c].of
           base == call[c].copy.baseline
           held == call[c].dna.revision
           k == Changing(c, "ROLLED_BACK")
<1>1. /\ call[c] \in CallRow /\ v \in Versions /\ base \in Versions
      /\ call[c].copy.stage = "ACTIVE" /\ call[c].pc = "restore"
      BY Given DEF Formed, Restore, At
<1>2. Evidence(observed, v, "ACTIVE") /\ dna[v].status \in Late
      BY <1>1, Given DEF Counts, Working
<1>3. CASE ~ CanRollback(base, held, call[c].target)
      BY <1>3, ReturnStep DEF Restore, Stored
<1>4. CASE CanRollback(base, held, call[c].target)
  <2>1. Rollback(base, held, call[c].target) /\ call' = [call EXCEPT ![c] = k]
        BY <1>4 DEF Restore
  <2>2. dna' \in Registry /\ Climbed(dna') /\ Climbs(dna, dna')
        BY <1>1, <2>1, Given, RollbackClimbs
  <2>3. Leads(dna', v, "ROLLED_BACK")
        BY <1>1, <1>2, <2>2 DEF Leads, Climbs
  <2>4. Evidence(observed, v, "ROLLED_BACK")
        BY <1>2 DEF Evidence
  <2>5. Formed(k)
        BY <1>1 DEF Changing, NoCall, NoCampaign, NoDna, DnaRow, CallRow, CampaignRow, Formed, Working, Stages, Open
  <2>6. Counts(k, dna', observed)
        BY <2>3, <2>4 DEF Changing, NoCall, Counts, Working, Holding
  <2>7. UNCHANGED <<campaign, observed>>
        BY DEF Restore, Stored
  <2> HIDE DEF k
  <2> QED BY <2>1, <2>2, <2>5, <2>6, <2>7, RegistryStep
<1> QED BY <1>3, <1>4

LEMMA WithdrawStep ==
    ASSUME IInv, NEW c \in Calls, Withdraw(c)
    PROVE  IInv'
<1> DEFINE v == call[c].of
           held == call[c].dna
           must == held.status \in {"SHADOW", "CANARY"}
           k == Changing(c, "STOPPED")
<1>1. call[c] \in CallRow /\ v \in Versions /\ call[c].pc = "withdraw"
      BY Given DEF Formed, Withdraw, At
<1>2. /\ held.status \in Late /\ dna[v].status \in Late
      /\ held.status \in Ended => dna[v].status \in Ended
      BY <1>1, Given DEF Counts, Working, Holding
<1>3. CASE must /\ ~ CanTransition(v, "RETIRED", held.revision)
      BY <1>3, ReturnStep DEF Withdraw, Stored
<1>4. CASE ~ (must /\ ~ CanTransition(v, "RETIRED", held.revision))
  <2>1. /\ call' = [call EXCEPT ![c] = k]
        /\ IF must THEN Transition(v, "RETIRED", held.revision) ELSE UNCHANGED dna
        BY <1>4 DEF Withdraw
  <2>2. dna' \in Registry /\ Climbed(dna') /\ Climbs(dna, dna') /\ (must => dna'[v].status = "RETIRED")
    <3>1. CASE must
      <4>1. dna \in Registry /\ Climbed(dna) /\ Transition(v, "RETIRED", held.revision)
            BY <2>1, <3>1, Given
      <4> HIDE DEF v, held
      <4> QED BY <1>1, <4>1, TransitionClimbs
    <3>2. CASE ~ must
          BY <2>1, <3>2, Given, StillClimbs
    <3> QED BY <3>1, <3>2
  <2>3. dna'[v].status \in Ended
        BY <1>1, <1>2, <2>2 DEF Late, Ended, Climbs
  <2>4. Leads(dna', v, "STOPPED") /\ Evidence(observed, v, "STOPPED")
        BY <2>3 DEF Leads, Evidence, Late, Ended
  <2>5. Formed(k)
        BY <1>1 DEF Changing, NoCall, NoCampaign, NoDna, DnaRow, CallRow, CampaignRow, Formed, Working, Stages, Open
  <2>6. Counts(k, dna', observed)
        BY <2>4 DEF Changing, NoCall, Counts, Working, Holding
  <2>7. UNCHANGED <<campaign, observed>>
        BY DEF Withdraw, Stored
  <2> HIDE DEF k
  <2> QED BY <2>1, <2>2, <2>5, <2>6, <2>7, RegistryStep
<1> QED BY <1>3, <1>4

LEMMA ChangeStep ==
    ASSUME IInv, NEW c \in Calls, Change(c)
    PROVE  IInv'
<1> DEFINE v == call[c].of
           row == [stage |-> call[c].to, baseline |-> campaign[v].baseline, revision |-> campaign[v].revision + 1]
<1>1. call[c] \in CallRow /\ v \in Versions /\ call[c].to \in Stages
      BY Given DEF Formed, Change, At
<1>2. campaign[v] \in CampaignRow
      BY <1>1, Given
<1>3. CASE ~ Unmoved(c)
      BY <1>3, ReturnStep DEF Change
<1>4. CASE Unmoved(c)
  <2>1. campaign' = [campaign EXCEPT ![v] = row]
        BY <1>2, <1>4 DEF Change, CampaignRow
  <2>2. row \in CampaignRow /\ row.stage = call[c].to
        BY <1>1, <1>2 DEF CampaignRow
  <2>3. Leads(dna, v, row.stage) /\ Evidence(observed, v, row.stage)
        BY <2>2, Given DEF Counts, Change, At
  <2>4. Returns(c) /\ UNCHANGED <<dna, observed>>
        BY DEF Change
  <2> HIDE DEF row
  <2> QED BY <1>1, <2>1, <2>2, <2>3, <2>4, CampaignStep
<1> QED BY <1>3, <1>4

LEMMA OperateStep ==
    ASSUME IInv, NEW v \in Versions, NEW to \in Statuses, Operate(v, to)
    PROVE  IInv'
<1>1. dna' \in Registry /\ Climbed(dna') /\ Climbs(dna, dna')
  <2>1. dna \in Registry /\ Climbed(dna)
        BY DEF IInv, TypeOK, Registry
  <2> QED BY <2>1, TransitionClimbs DEF Operate
<1>2. UNCHANGED <<campaign, observed, call>>
      BY DEF Operate, Stored
<1>3. dna \in Registry /\ observed \in Table /\ IsFiniteSet(Recorded(observed))
      BY DEF IInv, TypeOK, Registry, Table
<1>4. Extends(observed, observed')
      BY <1>2, <1>3, StillExtends
<1>5. \A w \in Versions : Leads(dna', w, campaign[w].stage)
      BY <1>1, <1>3, LeadsStays DEF IInv
<1>6. \A c \in Calls : Counts(call[c], dna', observed)
      BY <1>1, <1>2, <1>3, <1>4, CountsStays DEF IInv
<1> QED BY <1>1, <1>2, <1>5, <1>6 DEF IInv, TypeOK, Registry

LEMMA InductiveStep == IInv /\ [Next]_promVars => IInv'
<1> SUFFICES ASSUME IInv, [Next]_promVars
             PROVE  IInv'
    OBVIOUS
<1>1. ASSUME NEW c \in Calls, NEW v \in Versions,
             \/ Start(c, v) \/ Evaluate(c, v) \/ Kill(c, v)
             \/ \E o \in Observations, r \in Seen : Observe(c, v, o, r)
      PROVE  IInv'
      BY <1>1, StartStep, EvaluateStep, KillStep, ObserveStep
<1>2. ASSUME NEW c \in Calls,
             Enlist(c) \/ EnlistRefused(c) \/ Admit(c) \/ OpenCampaign(c) \/ Insert(c) \/ Judge(c)
      PROVE  IInv'
  <2>1. CASE EnlistRefused(c)
        BY <2>1, ReturnStep DEF EnlistRefused, Stored
  <2> QED BY <1>2, <2>1, EnlistStep, AdmitStep, OpenStep, InsertStep, JudgeStep
<1>3. ASSUME NEW c \in Calls,
             \/ Advance(c) \/ ReadForStop(c) \/ ReadTarget(c) \/ Restore(c) \/ Withdraw(c) \/ Change(c)
             \/ Interrupt(c)
      PROVE  IInv'
  <2>1. CASE Interrupt(c)
        BY <2>1, ReturnStep DEF Interrupt, Stored
  <2> QED BY <1>3, <2>1, AdvanceStep, ReadForStopStep, ReadTargetStep, RestoreStep, WithdrawStep, ChangeStep
<1>4. ASSUME NEW v \in Versions, NEW to \in Statuses, Operate(v, to)
      PROVE  IInv'
      BY <1>4, OperateStep
<1>5. CASE UNCHANGED promVars
      BY <1>5 DEF promVars, IInv, TypeOK
<1> QED BY <1>1, <1>2, <1>3, <1>4, <1>5 DEF Next

-----------------------------------------------------------------------------
(* The theorems. *)

LEMMA Inductive == Spec => []IInv
BY InductiveInit, InductiveStep, PTL DEF Spec

(* Whatever is observed, evaluated, killed and interrupted at once, rows   *)
(* are well formed, a campaign is in a stage it has the evidence for       *)
(* (_evaluate), and the registry is never behind it (_evaluate, _stop).    *)
THEOREM PromotionsAreSound == Spec => []PromotionIsSound
<1>1. IInv => PromotionIsSound
  <2> SUFFICES ASSUME IInv
               PROVE  TypeOK /\ PromotedOnEvidence /\ RegistryLeads
      BY DEF PromotionIsSound
  <2>1. TypeOK
        BY DEF IInv
  <2>2. PromotedOnEvidence
    <3>1. ASSUME NEW v \in Versions, NEW stage
          PROVE  {o \in Rows(v, stage) : observed[o].report \in {"good", "breach"}} = Good(observed, v, stage)
          BY DEF Rows, Good
    <3> QED BY <3>1 DEF IInv, PromotedOnEvidence, Evidence, Earned
  <2>3. RegistryLeads
    <3>1. dna \in Registry
          BY DEF IInv, TypeOK, Registry
    <3> QED BY <3>1 DEF IInv, RegistryLeads, Leads, Late, Ended, Registry, DnaRow
  <2> QED BY <2>1, <2>2, <2>3
<1> QED BY <1>1, Inductive, PTL

-----------------------------------------------------------------------------
(* The registry implements VersionLife.                                    *)

LifeStage == [v \in Versions |-> dna[v].status]
LifeGates == <<"NONE", "CANDIDATE", "VALIDATED", "SHADOW", "CANARY">>

(* The bootstrap has activated one version.                                *)
LEMMA LifeInit == Init => Life!Init
<1> SUFFICES ASSUME Init PROVE Life!Init
    OBVIOUS
<1>2. LifeStage = [v \in Versions |-> IF v \in {Initial} THEN "ACTIVE" ELSE LifeGates[1]]
      BY DEF LifeStage, LifeGates, Init, NoDna
<1>3. {Initial} \in {{}} \cup {{v} : v \in Versions}
      BY DnaPromotionAssumption
<1> QED BY <1>2, <1>3 DEF Life!Init, LifeStage, LifeGates

(* The next gate is passed.                                                *)
LEMMA LifeAdvances ==
    ASSUME NEW v \in Versions, NEW i \in 1..4,
           LifeStage[v] = LifeGates[i], LifeStage' = [LifeStage EXCEPT ![v] = LifeGates[i + 1]]
    PROVE  Life!Next
<1>1. Len(LifeGates) - 1 = 4
      BY DEF LifeGates
<1>2. i \in 1..(Len(LifeGates) - 1)
      BY <1>1
<1>3. Life!Advance(v)
      BY <1>2, Zenon DEF Life!Advance, LifeStage, LifeGates
<1> QED BY <1>3 DEF Life!Next

(* A transition passes a gate, serves, withdraws or retires.               *)
LEMMA LifeTransition ==
    ASSUME dna \in Registry, NEW v \in Versions, NEW to \in Statuses, NEW r, Transition(v, to, r)
    PROVE  Life!Next
<1>1. LifeStage' = [LifeStage EXCEPT ![v] = to]
      BY DEF LifeStage, Transition, Changed
<1>2. LifeStage[v] = dna[v].status /\ <<LifeStage[v], to>> \in Allowed
      BY DEF LifeStage, Transition, CanTransition
<1>3. CASE to = "RETIRED"
  <2>1. LifeStage[v] \notin {"NONE", "ACTIVE", "RETIRED"}
        BY <1>2, <1>3 DEF Allowed
  <2> QED BY <1>1, <1>3, <2>1 DEF Life!Next, Life!Retire, LifeStage
<1>4. CASE to = "DEPRECATED"
      BY <1>1, <1>2, <1>4 DEF Life!Next, Life!Withdraw, LifeStage, Allowed
<1>5. CASE to = "ACTIVE"
  <2>1. LifeStage[v] = "CANARY"
        BY <1>2, <1>5 DEF Allowed
  <2>2. \A w \in Versions : LifeStage[w] # "ACTIVE"
        BY <1>5 DEF Transition, CanTransition, ActiveVersions, LifeStage
  <2>3. LifeStage' = [w \in Versions |-> IF w = v THEN "ACTIVE"
                                         ELSE IF LifeStage[w] = "ACTIVE" THEN "DEPRECATED" ELSE LifeStage[w]]
        BY <1>1, <1>5, <2>2 DEF LifeStage
  <2>4. LifeGates[Len(LifeGates)] = "CANARY"
        BY DEF LifeGates
  <2> QED BY <2>1, <2>3, <2>4 DEF Life!Next, Life!Serve, LifeStage, LifeGates
<1>6. CASE to \in {"VALIDATED", "SHADOW", "CANARY"}
  <2>1. \E i \in 1..4 : LifeStage[v] = LifeGates[i] /\ to = LifeGates[i + 1]
        BY <1>2, <1>6 DEF LifeGates, Allowed
  <2> QED BY <1>1, <2>1, LifeAdvances
<1> QED BY <1>2, <1>3, <1>4, <1>5, <1>6 DEF Allowed, Statuses

(* activate() and rollback() serve: the active version gives way.          *)
LEMMA LifeServes ==
    ASSUME dna \in Registry, NEW v \in Versions,
           \/ dna[v].status = "CANARY"
           \/ dna[v].status = "DEPRECATED" /\ ActiveVersions # {},
           dna' = Changed([x \in ActiveVersions \cup {v} |-> IF x = v THEN "ACTIVE" ELSE "DEPRECATED"])
    PROVE  Life!Next
<1>1. LifeStage' = [w \in Versions |-> IF w = v THEN "ACTIVE"
                                       ELSE IF LifeStage[w] = "ACTIVE" THEN "DEPRECATED" ELSE LifeStage[w]]
      BY DEF LifeStage, Changed, ActiveVersions
<1>2. LifeGates[Len(LifeGates)] = "CANARY"
      BY DEF LifeGates
<1>3. \/ LifeStage[v] = LifeGates[Len(LifeGates)]
      \/ LifeStage[v] = "DEPRECATED" /\ \E w \in Versions : LifeStage[w] = "ACTIVE"
      BY <1>2 DEF LifeStage, ActiveVersions
<1> QED BY <1>1, <1>3 DEF Life!Next, Life!Serve, LifeStage, LifeGates

LEMMA LifeRegisters ==
    ASSUME dna \in Registry, NEW v \in Versions, Register(v)
    PROVE  Life!Next
<1>1. LifeStage' = [LifeStage EXCEPT ![v] = "CANDIDATE"] /\ LifeStage[v] = "NONE"
      BY DEF LifeStage, Register, CanRegister, Registry
<1>2. 1 \in 1..4 /\ LifeGates[1] = "NONE" /\ LifeGates[1 + 1] = "CANDIDATE"
      BY DEF LifeGates
<1> QED BY <1>1, <1>2, LifeAdvances


(* Every step of the calls is a step of the versions, or none.             *)
LEMMA LifeStep == IInv /\ [Next]_promVars => [Life!Next]_LifeStage
<1> SUFFICES ASSUME IInv, [Next]_promVars, dna' # dna
             PROVE  Life!Next
    BY DEF LifeStage
<1>0. dna \in Registry /\ \A c \in Calls : call[c].pc # "idle" => call[c].of \in Versions
      BY DEF IInv, TypeOK, Registry, Formed
<1>1. ASSUME NEW c \in Calls, Enlist(c)
      PROVE  Life!Next
      BY <1>0, <1>1, LifeRegisters DEF Enlist, At
<1>2. ASSUME NEW c \in Calls, Admit(c)
      PROVE  Life!Next
  <2> DEFINE next == [CANDIDATE |-> "VALIDATED", VALIDATED |-> "SHADOW"]
             v == call[c].of
             to == next[call[c].dna.status]
             held == call[c].dna.revision
  <2>1. Transition(v, to, held) /\ v \in Versions /\ to \in Statuses
        BY <1>0, <1>2 DEF Admit, At, Statuses
  <2> HIDE DEF v, to, held
  <2> QED BY <1>0, <2>1, LifeTransition
<1>3. ASSUME NEW c \in Calls, Advance(c)
      PROVE  Life!Next
  <2> DEFINE v == call[c].of
             held == call[c].dna.revision
  <2>1. v \in Versions /\ (Transition(v, "CANARY", held) \/ Activate(v, held))
        BY <1>0, <1>3 DEF Advance, At
  <2> HIDE DEF v, held
  <2>2. CASE Transition(v, "CANARY", held)
        BY <1>0, <2>1, <2>2, LifeTransition DEF Statuses
  <2>3. CASE Activate(v, held)
        BY <1>0, <2>1, <2>3, LifeServes DEF Activate, CanActivate
  <2> QED BY <2>1, <2>2, <2>3
<1>4. ASSUME NEW c \in Calls, Restore(c)
      PROVE  Life!Next
  <2> DEFINE v == call[c].copy.baseline
             held == call[c].dna.revision
             seen == call[c].target
  <2>1. v \in Versions /\ Rollback(v, held, seen)
        BY <1>4, Given DEF Restore, Formed, At
  <2> HIDE DEF v, held, seen
  <2> QED BY <1>0, <2>1, LifeServes DEF Rollback, CanRollback
<1>5. ASSUME NEW c \in Calls, Withdraw(c)
      PROVE  Life!Next
  <2> DEFINE v == call[c].of
             held == call[c].dna.revision
  <2>1. v \in Versions /\ Transition(v, "RETIRED", held)
        BY <1>0, <1>5 DEF Withdraw, At
  <2> HIDE DEF v, held
  <2> QED BY <1>0, <2>1, LifeTransition DEF Statuses
<1>6. ASSUME NEW v \in Versions, NEW to \in Statuses, Operate(v, to)
      PROVE  Life!Next
      BY <1>0, <1>6, LifeTransition DEF Operate
<1> QED BY <1>1, <1>2, <1>3, <1>4, <1>5, <1>6
        DEF Next, promVars, Stored, Start, EnlistRefused, OpenCampaign, Observe, Insert, Evaluate, Judge,
            Kill, ReadForStop, ReadTarget, Change, Interrupt

(* The registry keeps its promise under every interleaving of the calls: a *)
(* version passes the gates one at a time, and at most one is active       *)
(* (idx_dna_one_active, dna_repository.py).                                *)
THEOREM PromotionImplementsVersionLife == Spec => ImplementsVersionLife
<1>1. IInv /\ [Next]_promVars => [Life!Next]_[v \in Versions |-> dna[v].status]
      BY LifeStep DEF LifeStage
<1> QED BY <1>1, LifeInit, Inductive, PTL DEF Spec, ImplementsVersionLife, Life!Spec
=============================================================================
