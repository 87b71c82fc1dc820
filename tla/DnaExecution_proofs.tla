-------------------------- MODULE DnaExecution_proofs --------------------------
(***************************************************************************)
(* Proofs about the three layers of DNA and the executions that run under  *)
(* them, for any number of versions, starting processes and calls: an      *)
(* admitted execution runs under versions that were active together, no    *)
(* definition is registered over one that had not passed its gate, and     *)
(* both upper registries keep the promise of VersionLife.                  *)
(*                                                                         *)
(* The argument: a version that has been active is active again in no      *)
(* later state.  What a call has read of a layer therefore tells, when a   *)
(* later read finds the version active, that it was active all the time.   *)
(***************************************************************************)
EXTENDS DnaExecution, Sequences, TLAPS

LayerRow == [status : LayerStatuses \cup {"NONE"}, revision : Nat]

(* What a version has been, for good.                                      *)
Served == {"ACTIVE", "DEPRECATED", "RETIRED"}
Unproven == {"NONE", "CANDIDATE"}

Roles == (UNION {DOMAIN Members[o] : o \in Organizations}) \cup {"NONE", Lead}
Identity ==
    [organization : Organizations \cup {"NONE"}, role : Roles,
     agent : Agents \cup {"NONE"}, workflow : Versions \cup {"NONE"}]

Verifying == {"verify organization", "verify agent", "verify workflow"}
CallRow ==
    [pc : {"idle", "agent", "workflow", "admitted", "recorded", "running", "ended"} \cup Verifying,
     wants : WorkflowRoles \cup {"NONE"}, identity : Identity, together : BOOLEAN]

(* What a call k has read still counts, over the rows ag of the agents and *)
(* the rows og of the organizations: each read found a version active, and *)
(* a version that a later read finds active still was so in between.       *)
Counts(k, ag, og) ==
    LET organization == k.identity.organization
        agent == k.identity.agent
    IN  /\ k.pc \in {"agent", "workflow", "verify organization"} =>
              organization \in Organizations /\ og[organization].status \in Served
        /\ k.pc = "agent" => agent \in Agents
        /\ k.pc \in {"workflow", "verify organization", "verify agent"} =>
              agent \in Agents /\ ag[agent].status \in Served
        /\ k.pc = "verify organization" =>
              (og[organization].status = "ACTIVE" /\ ag[agent].status = "ACTIVE" => k.together)
        /\ k.pc = "verify agent" => (ag[agent].status = "ACTIVE" => k.together)
        /\ k.pc \in {"verify workflow", "admitted", "running", "recorded"} => k.together

TypeOK ==
    /\ dna \in [Versions -> DnaRow]
    /\ agents \in [Agents -> LayerRow]
    /\ organizations \in [Organizations -> LayerRow]
    /\ call \in [Calls -> CallRow]

IInv ==
    /\ TypeOK
    /\ ReferencesPassedTheirGate
    /\ \A c \in Calls : Counts(call[c], agents, organizations)

-----------------------------------------------------------------------------
(* What a step does to the registries.                                     *)

WorkflowStep ==
    /\ \E v \in Versions :
         \/ Register(v)
         \/ \E to \in Statuses, r \in Nat : Transition(v, to, r)
         \/ \E r \in Nat : Activate(v, r)
    /\ UNCHANGED <<agents, organizations>>
AgentStep ==
    \E a \in Agents : RegisterAgent(a) \/ \E to \in LayerStatuses : \E r : TransitionAgent(a, to, r)
OrganizationStep ==
    \E o \in Organizations :
        RegisterOrganization(o) \/ \E to \in LayerStatuses : \E r : TransitionOrganization(o, to, r)

(* The rows of a layer keep their form; a version that has been active     *)
(* stays so for good and does not come back.                               *)
Ages(rows, next, names) ==
    /\ next \in [names -> LayerRow]
    /\ \A x \in names :
         /\ rows[x].status \in Served => next[x].status \in Served
         /\ rows[x].status \in Served /\ next[x].status = "ACTIVE" => rows[x].status = "ACTIVE"
         /\ rows[x].status \notin Unproven => next[x].status \notin Unproven

LEMMA RegisteredAges ==
    ASSUME NEW names, NEW rows \in [names -> LayerRow], NEW x \in names, rows[x].status = "NONE"
    PROVE  Ages(rows, Registered(rows, x), names)
BY DEF Ages, Registered, LayerRow, LayerStatuses, Statuses, Served, Unproven

LEMMA MovedAges ==
    ASSUME NEW names, NEW rows \in [names -> LayerRow], NEW x \in names,
           NEW to, <<rows[x].status, to>> \in LayerAllowed
    PROVE  Ages(rows, LayerMoved(rows, x, to), names)
<1> DEFINE next == LayerMoved(rows, x, to)
<1>1. next = [y \in names |->
                IF y = x THEN [status |-> to, revision |-> rows[y].revision + 1]
                ELSE IF to = "ACTIVE" /\ rows[y].status = "ACTIVE"
                  THEN [status |-> "DEPRECATED", revision |-> rows[y].revision + 1]
                ELSE rows[y]]
      BY DEF LayerMoved
<1>2. /\ to \in LayerStatuses \ Unproven
      /\ rows[x].status \in {"CANDIDATE", "VALIDATED", "ACTIVE", "DEPRECATED"}
      /\ to = "ACTIVE" => rows[x].status = "VALIDATED"
      /\ rows[x].status \in {"ACTIVE", "DEPRECATED"} => to \in {"DEPRECATED", "RETIRED"}
      BY DEF LayerAllowed, LayerStatuses, Statuses, Unproven
<1> HIDE DEF next
<1>3. next \in [names -> LayerRow]
  <2>1. ASSUME NEW y \in names PROVE next[y] \in LayerRow
        BY <1>1, <1>2, <2>1 DEF LayerRow, LayerStatuses, Statuses
  <2> QED BY <1>1, <2>1
<1>4. ASSUME NEW y \in names
      PROVE  /\ rows[y].status \in Served => next[y].status \in Served
             /\ rows[y].status \in Served /\ next[y].status = "ACTIVE" => rows[y].status = "ACTIVE"
             /\ rows[y].status \notin Unproven => next[y].status \notin Unproven
  <2>1. CASE y = x
        BY <1>1, <1>2, <2>1 DEF Served, Unproven
  <2>2. CASE y # x
        BY <1>1, <2>2 DEF Served, Unproven
  <2> QED BY <2>1, <2>2
<1> QED BY <1>3, <1>4 DEF Ages, next

LEMMA StillAges ==
    ASSUME NEW names, NEW rows \in [names -> LayerRow]
    PROVE  Ages(rows, rows, names)
BY DEF Ages

(* The workflow registry as well: a version passes its gate for good.      *)
LEMMA WorkflowAges ==
    ASSUME dna \in [Versions -> DnaRow], WorkflowStep
    PROVE  /\ dna' \in [Versions -> DnaRow]
           /\ \A v \in Versions : dna[v].status \notin Unproven => dna'[v].status \notin Unproven
<1>1. PICK v \in Versions :
           \/ Register(v)
           \/ \E to \in Statuses, r \in Nat : Transition(v, to, r)
           \/ \E r \in Nat : Activate(v, r)
      BY DEF WorkflowStep
<1>2. CASE Register(v)
  <2>1. dna[v].status = "NONE" /\ dna' = [dna EXCEPT ![v] = [status |-> "CANDIDATE", revision |-> 0]]
        BY <1>2 DEF Register, CanRegister
  <2>2. [status |-> "CANDIDATE", revision |-> 0] \in DnaRow
        BY DEF DnaRow, Statuses
  <2> QED BY <2>1, <2>2 DEF Unproven
<1>3. ASSUME NEW to, DOMAIN to \subseteq Versions, dna' = Changed(to),
             \A x \in DOMAIN to : to[x] \in Statuses \ {"CANDIDATE"}
      PROVE  /\ dna' \in [Versions -> DnaRow]
             /\ \A x \in Versions : dna[x].status \notin Unproven => dna'[x].status \notin Unproven
  <2>1. ASSUME NEW x \in Versions
        PROVE  /\ dna'[x] \in DnaRow
               /\ dna[x].status \notin Unproven => dna'[x].status \notin Unproven
    <3>1. CASE x \in DOMAIN to
          BY <1>3, <2>1, <3>1 DEF Changed, DnaRow, Statuses, Unproven
    <3>2. CASE x \notin DOMAIN to
          BY <1>3, <2>1, <3>2 DEF Changed
    <3> QED BY <3>1, <3>2
  <2>2. dna' = [x \in Versions |-> dna'[x]]
        BY <1>3 DEF Changed
  <2> QED BY <2>1, <2>2
<1>4. ASSUME NEW to \in Statuses, NEW r, Transition(v, to, r)
      PROVE  /\ dna' \in [Versions -> DnaRow]
             /\ \A x \in Versions : dna[x].status \notin Unproven => dna'[x].status \notin Unproven
  <2>1. to # "CANDIDATE"
        BY <1>4 DEF Transition, CanTransition, Allowed
  <2> QED BY <1>3, <1>4, <2>1 DEF Transition
<1>5. ASSUME NEW r, Activate(v, r)
      PROVE  /\ dna' \in [Versions -> DnaRow]
             /\ \A x \in Versions : dna[x].status \notin Unproven => dna'[x].status \notin Unproven
  <2> DEFINE to == [x \in ActiveVersions \cup {v} |-> IF x = v THEN "ACTIVE" ELSE "DEPRECATED"]
  <2>1. DOMAIN to \subseteq Versions /\ \A x \in DOMAIN to : to[x] \in Statuses \ {"CANDIDATE"}
        BY DEF ActiveVersions, Statuses
  <2>2. dna' = Changed(to)
        BY <1>5 DEF Activate
  <2> HIDE DEF to
  <2> QED BY <1>3, <2>1, <2>2
<1> QED BY <1>1, <1>2, <1>4, <1>5

-----------------------------------------------------------------------------
(* Every step is one step of one registry, or leaves the registries alone. *)

LEMMA AgentAges ==
    ASSUME agents \in [Agents -> LayerRow], AgentStep
    PROVE  Ages(agents, agents', Agents) /\ UNCHANGED <<dna, organizations>>
<1>1. PICK a \in Agents : RegisterAgent(a) \/ \E to \in LayerStatuses : \E r : TransitionAgent(a, to, r)
      BY DEF AgentStep
<1>2. CASE RegisterAgent(a)
      BY <1>2, RegisteredAges DEF RegisterAgent, CanRegisterAgent
<1>3. ASSUME NEW to \in LayerStatuses, NEW r, TransitionAgent(a, to, r)
      PROVE  Ages(agents, agents', Agents) /\ UNCHANGED <<dna, organizations>>
      BY <1>3, MovedAges DEF TransitionAgent, LayerMoves
<1> QED BY <1>1, <1>2, <1>3

LEMMA OrganizationAges ==
    ASSUME organizations \in [Organizations -> LayerRow], OrganizationStep
    PROVE  Ages(organizations, organizations', Organizations) /\ UNCHANGED <<dna, agents>>
<1>1. PICK o \in Organizations :
           RegisterOrganization(o) \/ \E to \in LayerStatuses : \E r : TransitionOrganization(o, to, r)
      BY DEF OrganizationStep
<1>2. CASE RegisterOrganization(o)
      BY <1>2, RegisteredAges DEF RegisterOrganization, CanRegisterOrganization
<1>3. ASSUME NEW to \in LayerStatuses, NEW r, TransitionOrganization(o, to, r)
      PROVE  Ages(organizations, organizations', Organizations) /\ UNCHANGED <<dna, agents>>
      BY <1>3, MovedAges DEF TransitionOrganization, LayerMoves
<1> QED BY <1>1, <1>2, <1>3

RegistryStep == UNCHANGED layerVars \/ WorkflowStep \/ AgentStep \/ OrganizationStep

LEMMA TransitionSteps ==
    ASSUME dna \in [Versions -> DnaRow], NEW v \in Versions, NEW to, NEW r,
           Transition(v, to, r), UNCHANGED <<agents, organizations>>
    PROVE  WorkflowStep
<1>1. to \in Statuses /\ r = dna[v].revision /\ r \in Nat
      BY DEF Transition, CanTransition, Allowed, Statuses, DnaRow
<1> QED BY <1>1 DEF WorkflowStep

LEMMA BootSteps ==
    ASSUME TypeOK, NEW s \in Starters, Boot(s)
    PROVE  RegistryStep
<1>1. CASE Start(s)
      BY <1>1 DEF Start, RegistryStep
<1>2. CASE BootWorkflow(s)
  <2> DEFINE v == First.workflow
             held == boot[s].held
             next == [CANDIDATE |-> "VALIDATED", VALIDATED |-> "SHADOW", SHADOW |-> "CANARY"]
             to == next[held.status]
             r == held.revision
  <2>1. v \in Versions /\ dna \in [Versions -> DnaRow]
        BY DnaExecutionAssumption DEF TypeOK
  <2>2. /\ UNCHANGED dna \/ Register(v) \/ Transition(v, to, r) \/ Activate(v, r)
        /\ UNCHANGED <<agents, organizations>>
        BY <1>2 DEF BootWorkflow
  <2> HIDE DEF v, held, next, to, r
  <2>3. CASE UNCHANGED dna
        BY <2>2, <2>3 DEF RegistryStep, layerVars
  <2>4. CASE Register(v)
        BY <2>1, <2>2, <2>4 DEF RegistryStep, WorkflowStep
  <2>5. CASE Transition(v, to, r)
        BY <2>1, <2>2, <2>5, TransitionSteps DEF RegistryStep
  <2>6. CASE Activate(v, r)
    <3>1. r \in Nat
          BY <2>1, <2>6 DEF Activate, CanActivate, DnaRow
    <3> QED BY <2>1, <2>2, <2>6, <3>1 DEF RegistryStep, WorkflowStep
  <2> QED BY <2>2, <2>3, <2>4, <2>5, <2>6
<1>3. CASE BootAgent(s)
  <2> DEFINE a == First.agent
             held == boot[s].held
             to == LayerNext[held.status]
             r == held.revision
  <2>1. a \in Agents
        BY DnaExecutionAssumption
  <2>2. \/ UNCHANGED layerVars
        \/ RegisterAgent(a)
        \/ held.status \in DOMAIN LayerNext /\ TransitionAgent(a, to, r)
        BY <1>3 DEF BootAgent
  <2>3. held.status \in DOMAIN LayerNext => to \in LayerStatuses
        BY DEF LayerNext, LayerStatuses, Statuses
  <2> HIDE DEF a, held, to, r
  <2> QED BY <2>1, <2>2, <2>3 DEF RegistryStep, AgentStep
<1>4. CASE BootOrganization(s)
  <2> DEFINE o == First.organization
             held == boot[s].held
             to == LayerNext[held.status]
             r == held.revision
  <2>1. o \in Organizations
        BY DnaExecutionAssumption
  <2>2. \/ UNCHANGED layerVars
        \/ RegisterOrganization(o)
        \/ held.status \in DOMAIN LayerNext /\ TransitionOrganization(o, to, r)
        BY <1>4 DEF BootOrganization
  <2>3. held.status \in DOMAIN LayerNext => to \in LayerStatuses
        BY DEF LayerNext, LayerStatuses, Statuses
  <2> HIDE DEF o, held, to, r
  <2> QED BY <2>1, <2>2, <2>3 DEF RegistryStep, OrganizationStep
<1> QED BY <1>1, <1>2, <1>3, <1>4 DEF Boot

LEMMA GovernSteps ==
    ASSUME TypeOK, Govern
    PROVE  RegistryStep
<1>1. CASE /\ \E v \in Versions :
                 Register(v) \/ \E to \in Statuses : Transition(v, to, dna[v].revision)
           /\ UNCHANGED <<agents, organizations>>
  <2>1. ASSUME NEW v \in Versions, NEW to \in Statuses, Transition(v, to, dna[v].revision)
        PROVE  WorkflowStep
        BY <1>1, <2>1, TransitionSteps DEF TypeOK
  <2> QED BY <1>1, <2>1 DEF RegistryStep, WorkflowStep
<1>2. CASE \E a \in Agents :
             RegisterAgent(a) \/ \E to \in LayerStatuses : TransitionAgent(a, to, agents[a].revision)
      BY <1>2 DEF RegistryStep, AgentStep
<1>3. CASE \E o \in Organizations :
             \/ RegisterOrganization(o)
             \/ \E to \in LayerStatuses : TransitionOrganization(o, to, organizations[o].revision)
      BY <1>3 DEF RegistryStep, OrganizationStep
<1> QED BY <1>1, <1>2, <1>3 DEF Govern

(* The calls read; only boots, crashes and governors write.                *)
CallStep ==
    \E c \in Calls :
        \/ Delegate(c) \/ ReadAgent(c) \/ ReadWorkflow(c)
        \/ VerifyOrganization(c) \/ VerifyAgent(c) \/ VerifyWorkflow(c) \/ Record(c)
        \/ StartQuant(c) \/ EndQuant(c)

LEMMA NextSteps ==
    ASSUME TypeOK, [Next]_execVars
    PROVE  \/ RegistryStep /\ UNCHANGED call
           \/ CallStep /\ UNCHANGED layerVars
<1>1. CASE \E s \in Starters : Boot(s) /\ UNCHANGED <<governed, call, context>>
      BY <1>1, BootSteps
<1>2. CASE \E s \in Starters : Crash(s) /\ UNCHANGED <<governed, call, context>>
      BY <1>2 DEF Crash, RegistryStep
<1>3. CASE Govern /\ UNCHANGED <<call, context>>
      BY <1>3, GovernSteps
<1>4. CASE CallStep
      BY <1>4 DEF CallStep, Delegate, ReadAgent, ReadWorkflow, VerifyOrganization, VerifyAgent,
                  VerifyWorkflow, Record, StartQuant, EndQuant, Registries
<1>5. CASE UNCHANGED execVars
      BY <1>5 DEF execVars, RegistryStep
<1> QED BY <1>1, <1>2, <1>3, <1>4, <1>5 DEF Next, CallStep

-----------------------------------------------------------------------------
(* The inductive invariant.                                                *)

LEMMA NoneFormed == NoIdentity \in Identity /\ NoCall \in CallRow /\ NoCall.pc = "idle"
<1>1. NoIdentity \in Identity
  <2>1. "NONE" \in Roles
        BY DEF Roles
  <2> QED BY <2>1 DEF NoIdentity, Identity
<1> QED BY <1>1 DEF NoCall, CallRow

LEMMA InductiveInit == Init => IInv
<1> SUFFICES ASSUME Init PROVE IInv
    OBVIOUS
<1>1. NoDna \in DnaRow /\ NoDna \in LayerRow /\ NoDna.status = "NONE"
      BY DEF NoDna, DnaRow, LayerRow
<1>3. TypeOK
      BY <1>1, NoneFormed DEF TypeOK, Init, LayersInit
<1>4. ReferencesPassedTheirGate
      BY <1>1 DEF ReferencesPassedTheirGate, Init, LayersInit
<1>5. \A c \in Calls : Counts(call[c], agents, organizations)
      BY NoneFormed DEF Counts, Init
<1> QED BY <1>3, <1>4, <1>5 DEF IInv

(* What a call has read counts on while the rows age.                      *)
LEMMA CountsStays ==
    ASSUME NEW k, NEW ag, NEW og, NEW ag2, NEW og2,
           Counts(k, ag, og), Ages(ag, ag2, Agents), Ages(og, og2, Organizations)
    PROVE  Counts(k, ag2, og2)
BY DEF Counts, Ages

(* A step of a registry.  register() checks the references in its          *)
(* transaction, and what has passed its gate does not return before it.    *)
LEMMA RegistryKeeps ==
    ASSUME IInv, RegistryStep, UNCHANGED call
    PROVE  IInv'
<1>0. TypeOK /\ ReferencesPassedTheirGate
      BY DEF IInv
<1>1. /\ dna' \in [Versions -> DnaRow]
      /\ \A v \in Versions : dna[v].status \notin Unproven => dna'[v].status \notin Unproven
      /\ Ages(agents, agents', Agents) /\ Ages(organizations, organizations', Organizations)
  <2>1. CASE UNCHANGED layerVars
        BY <1>0, <2>1, StillAges DEF layerVars, TypeOK
  <2>2. CASE WorkflowStep
    <3>1. UNCHANGED <<agents, organizations>>
          BY <2>2 DEF WorkflowStep
    <3> QED BY <1>0, <2>2, <3>1, WorkflowAges, StillAges DEF TypeOK
  <2>3. CASE AgentStep
        BY <1>0, <2>3, AgentAges, StillAges DEF TypeOK
  <2>4. CASE OrganizationStep
        BY <1>0, <2>4, OrganizationAges, StillAges DEF TypeOK
  <2> QED BY <2>1, <2>2, <2>3, <2>4 DEF RegistryStep
<1>2. TypeOK'
      BY <1>0, <1>1 DEF TypeOK, Ages
<1>3. \A c \in Calls : Counts(call'[c], agents', organizations')
      BY <1>1, CountsStays DEF IInv
<1>4. ASSUME NEW a \in Agents, agents'[a].status # "NONE", NEW r \in DOMAIN Uses[a]
      PROVE  dna'[Uses[a][r]].status \notin Unproven
  <2> DEFINE v == Uses[a][r]
  <2>1. v \in Versions
        BY DnaExecutionAssumption
  <2>2. CASE agents[a].status # "NONE"
        BY <1>0, <1>1, <2>1, <2>2 DEF ReferencesPassedTheirGate, Unproven
  <2>3. CASE agents[a].status = "NONE"
    <3>1. AgentStep
          BY <1>4, <2>3, OrganizationAges, <1>0 DEF RegistryStep, layerVars, WorkflowStep, TypeOK
    <3>2. PICK b \in Agents : RegisterAgent(b) \/ \E to \in LayerStatuses : \E q : TransitionAgent(b, to, q)
          BY <3>1 DEF AgentStep
    <3>3. CASE RegisterAgent(b)
      <4>1. a = b
            BY <1>0, <1>4, <2>3, <3>3 DEF RegisterAgent, Registered, TypeOK
      <4>2. dna[v].status \notin Unproven
            BY <3>3, <4>1 DEF RegisterAgent, CanRegisterAgent, Unproven
      <4> QED BY <1>1, <2>1, <4>2
    <3>4. ASSUME NEW to, NEW q, TransitionAgent(b, to, q)
          PROVE  FALSE
      <4>1. b # a
            BY <2>3, <3>4 DEF TransitionAgent, LayerMoves, LayerAllowed
      <4>2. agents'[a] = agents[a]
            BY <1>0, <2>3, <3>4, <4>1 DEF TransitionAgent, LayerMoved, TypeOK
      <4> QED BY <1>4, <2>3, <4>2
    <3> QED BY <3>2, <3>3, <3>4
  <2> QED BY <2>2, <2>3
<1>5. ASSUME NEW o \in Organizations, organizations'[o].status # "NONE", NEW r \in DOMAIN Members[o]
      PROVE  agents'[Members[o][r].agent].status \notin Unproven
  <2> DEFINE a == Members[o][r].agent
  <2>1. a \in Agents
        BY DnaExecutionAssumption
  <2>2. CASE organizations[o].status # "NONE"
        BY <1>0, <1>1, <2>1, <2>2 DEF ReferencesPassedTheirGate, Unproven, Ages
  <2>3. CASE organizations[o].status = "NONE"
    <3>1. OrganizationStep
          BY <1>5, <2>3, AgentAges, <1>0 DEF RegistryStep, layerVars, WorkflowStep, TypeOK
    <3>2. PICK b \in Organizations :
             RegisterOrganization(b) \/ \E to \in LayerStatuses : \E q : TransitionOrganization(b, to, q)
          BY <3>1 DEF OrganizationStep
    <3>3. CASE RegisterOrganization(b)
      <4>1. o = b
            BY <1>0, <1>5, <2>3, <3>3 DEF RegisterOrganization, Registered, TypeOK
      <4>2. agents[a].status \notin Unproven
            BY <3>3, <4>1 DEF RegisterOrganization, CanRegisterOrganization, Unproven
      <4> QED BY <1>1, <2>1, <4>2 DEF Ages
    <3>4. ASSUME NEW to, NEW q, TransitionOrganization(b, to, q)
          PROVE  FALSE
      <4>1. b # o
            BY <2>3, <3>4 DEF TransitionOrganization, LayerMoves, LayerAllowed
      <4>2. organizations'[o] = organizations[o]
            BY <1>0, <2>3, <3>4, <4>1 DEF TransitionOrganization, LayerMoved, TypeOK
      <4> QED BY <1>5, <2>3, <4>2
    <3> QED BY <3>2, <3>3, <3>4
  <2> QED BY <2>2, <2>3
<1>6. ReferencesPassedTheirGate'
      BY <1>4, <1>5 DEF ReferencesPassedTheirGate, Unproven
<1> QED BY <1>2, <1>3, <1>6 DEF IInv

(* A step of one call.                                                     *)
LEMMA CallKeeps ==
    ASSUME IInv, NEW c \in Calls, NEW k \in CallRow, call' = [call EXCEPT ![c] = k],
           Counts(k, agents, organizations), UNCHANGED layerVars
    PROVE  IInv'
<1>1. call \in [Calls -> CallRow] /\ UNCHANGED <<dna, agents, organizations>>
      BY DEF IInv, TypeOK, layerVars
<1>2. call' \in [Calls -> CallRow] /\ \A d \in Calls : call'[d] = IF d = c THEN k ELSE call[d]
      BY <1>1
<1>3. TypeOK' /\ ReferencesPassedTheirGate'
      BY <1>1, <1>2 DEF IInv, TypeOK, ReferencesPassedTheirGate
<1>4. \A d \in Calls : Counts(call'[d], agents', organizations')
      BY <1>1, <1>2 DEF IInv
<1> QED BY <1>3, <1>4 DEF IInv

(* A call that goes on with what it holds.                                 *)
LEMMA CallGoes ==
    ASSUME IInv, NEW c \in Calls, NEW pc, Goes(c, pc), UNCHANGED layerVars,
           pc \in {"verify agent", "verify workflow", "admitted", "recorded", "ended"},
           pc = "verify agent" =>
              /\ Reaches(c, "verify organization")
              /\ organizations[call[c].identity.organization].status = "ACTIVE",
           pc = "verify workflow" =>
              Reaches(c, "verify agent") /\ agents[call[c].identity.agent].status = "ACTIVE",
           pc = "admitted" => Reaches(c, "verify workflow"),
           pc = "recorded" => Reaches(c, "admitted") \/ Reaches(c, "running")
    PROVE  IInv'
<1> DEFINE k == [call[c] EXCEPT !.pc = pc]
<1>1. call[c] \in CallRow /\ Counts(call[c], agents, organizations)
      BY DEF IInv, TypeOK
<1>2. /\ k \in CallRow /\ k.pc = pc
      /\ k.identity = call[c].identity /\ k.together = call[c].together
      BY <1>1 DEF CallRow, Verifying
<1>3. call' = [call EXCEPT ![c] = k]
      BY DEF Goes
<1> HIDE DEF k
<1>4. Counts(k, agents, organizations)
      BY <1>1, <1>2 DEF Counts, Reaches
<1> QED BY <1>2, <1>3, <1>4, CallKeeps

LEMMA DelegateKeeps ==
    ASSUME IInv, NEW c \in Calls, Delegate(c)
    PROVE  IInv'
<1> DEFINE Sends(o, w, role) ==
             call' = [call EXCEPT ![c] = [NoCall EXCEPT
                        !.pc = "agent", !.wants = w,
                        !.identity = [NoIdentity EXCEPT !.organization = o, !.role = role,
                                         !.agent = Members[o][role].agent]]]
<1>0. \E o \in Active(organizations), r \in Responsibilities, w \in WorkflowRoles, asked \in Asked,
          unavailable \in SUBSET DOMAIN RoleRank :
         /\ asked <= Budget[o]
         /\ \E role \in Delegates(o, r, unavailable) : Sends(o, w, role)
      BY Zenon DEF Delegate
<1> HIDE DEF Sends
<1>1. PICK o \in Active(organizations), r \in Responsibilities, w \in WorkflowRoles,
           unavailable \in SUBSET DOMAIN RoleRank :
              \E role \in Delegates(o, r, unavailable) : Sends(o, w, role)
      BY <1>0
<1>2. PICK role \in Delegates(o, r, unavailable) : Sends(o, w, role)
      BY <1>1
<1> DEFINE id == [NoIdentity EXCEPT !.organization = o, !.role = role, !.agent = Members[o][role].agent]
           k == [NoCall EXCEPT !.pc = "agent", !.wants = w, !.identity = id]
<1>3. call' = [call EXCEPT ![c] = k]
      BY <1>2 DEF Sends
<1>4. o \in Organizations /\ organizations[o].status = "ACTIVE"
      BY DEF Active, IInv, TypeOK
<1>5. role \in DOMAIN Members[o]
      BY DEF Delegates
<1>e. role \in Roles
      BY <1>4, <1>5 DEF Roles
<1>6. Members[o][role].agent \in Agents
      BY <1>4, <1>5, DnaExecutionAssumption
<1>7. id \in Identity /\ id.organization = o /\ id.agent = Members[o][role].agent
      BY <1>4, <1>e, <1>6, NoneFormed DEF Identity
<1> HIDE DEF id
<1>8. k \in CallRow /\ k.pc = "agent" /\ k.identity = id
      BY <1>7, NoneFormed DEF CallRow
<1> HIDE DEF k
<1>c. Counts(k, agents, organizations)
      BY <1>4, <1>6, <1>7, <1>8 DEF Counts, Served
<1>9. UNCHANGED layerVars
      BY DEF Delegate, Registries
<1> QED BY <1>3, <1>8, <1>9, <1>c, CallKeeps

(* The read of the agent finds it active.                                  *)
LEMMA ReadAgentKeeps ==
    ASSUME IInv, NEW c \in Calls, ReadAgent(c)
    PROVE  IInv'
<1> DEFINE id == call[c].identity
           v == Uses[id.agent][call[c].wants]
<1>0. /\ call[c] \in CallRow /\ call[c].pc = "agent" /\ UNCHANGED layerVars
      /\ id.agent \in Agents
      /\ id.organization \in Organizations /\ organizations[id.organization].status \in Served
      BY DEF IInv, TypeOK, ReadAgent, Reaches, Registries, Counts
<1>1. CASE agents[id.agent].status = "ACTIVE" /\ call[c].wants \in DOMAIN Uses[id.agent]
  <2> DEFINE k == [call[c] EXCEPT !.pc = "workflow", !.identity = [id EXCEPT !.workflow = v]]
  <2>1. call' = [call EXCEPT ![c] = k]
    <3>1. call' = [call EXCEPT ![c].pc = "workflow", ![c].identity.workflow = v]
          BY <1>1 DEF ReadAgent
    <3>2. call \in [Calls -> CallRow]
          BY DEF IInv, TypeOK
    <3> HIDE DEF v
    <3> QED BY <1>0, <3>1, <3>2 DEF CallRow, Identity
  <2>2. v \in Versions
        BY <1>0, <1>1, DnaExecutionAssumption
  <2>3. id \in Identity /\ [id EXCEPT !.workflow = v] \in Identity
        BY <1>0, <2>2 DEF CallRow, Identity
  <2>4. k \in CallRow
        BY <1>0, <2>3 DEF CallRow
  <2>5. k.pc = "workflow" /\ k.identity.organization = id.organization /\ k.identity.agent = id.agent
        BY <1>0, <2>3 DEF CallRow, Identity
  <2> HIDE DEF k
  <2>6. Counts(k, agents, organizations)
        BY <1>0, <1>1, <2>5 DEF Counts, Served, Verifying
  <2> QED BY <1>0, <2>1, <2>4, <2>6, CallKeeps
<1>2. CASE ~(agents[id.agent].status = "ACTIVE" /\ call[c].wants \in DOMAIN Uses[id.agent])
  <2>1. Goes(c, "ended")
        BY <1>2 DEF ReadAgent
  <2> QED BY <1>0, <2>1, CallGoes
<1> QED BY <1>1, <1>2

(* The moment of the call at which all three are active, if they are.      *)
LEMMA ReadWorkflowKeeps ==
    ASSUME IInv, NEW c \in Calls, ReadWorkflow(c)
    PROVE  IInv'
<1> DEFINE id == call[c].identity
           both == id.organization \in Active(organizations) /\ id.agent \in Active(agents)
<1>0. /\ call[c] \in CallRow /\ call[c].pc = "workflow" /\ UNCHANGED layerVars
      /\ Counts(call[c], agents, organizations)
      BY DEF IInv, TypeOK, ReadWorkflow, Reaches, Registries
<1>1. CASE dna[id.workflow].status = "ACTIVE"
  <2> DEFINE k == [call[c] EXCEPT !.pc = "verify organization", !.together = both]
  <2>1. call' = [call EXCEPT ![c] = k]
        BY <1>1 DEF ReadWorkflow
  <2>2. k \in CallRow /\ k.pc = "verify organization" /\ k.identity = id /\ k.together = both
        BY <1>0 DEF CallRow, Verifying
  <2>3. /\ id.organization \in Organizations /\ organizations[id.organization].status \in Served
        /\ id.agent \in Agents /\ agents[id.agent].status \in Served
        BY <1>0 DEF Counts
  <2>4. organizations[id.organization].status = "ACTIVE" /\ agents[id.agent].status = "ACTIVE" => both
        BY <2>3 DEF Active, IInv, TypeOK
  <2> HIDE DEF k, both
  <2>5. Counts(k, agents, organizations)
        BY <2>2, <2>3, <2>4 DEF Counts
  <2> QED BY <1>0, <2>1, <2>2, <2>5, CallKeeps
<1>2. CASE dna[id.workflow].status # "ACTIVE"
  <2>1. Goes(c, "ended")
        BY <1>2 DEF ReadWorkflow
  <2> QED BY <1>0, <2>1, CallGoes
<1> QED BY <1>1, <1>2

(* Verification and record.                                                *)
LEMMA VerifyKeeps ==
    ASSUME IInv, NEW c \in Calls,
           VerifyOrganization(c) \/ VerifyAgent(c) \/ VerifyWorkflow(c) \/ Record(c) \/ EndQuant(c)
    PROVE  IInv'
<1>1. UNCHANGED layerVars
      BY DEF VerifyOrganization, VerifyAgent, VerifyWorkflow, Record, EndQuant, Registries
<1>2. CASE VerifyOrganization(c)
  <2>1. CASE organizations[call[c].identity.organization].status = "ACTIVE"
        BY <1>1, <1>2, <2>1, CallGoes DEF VerifyOrganization
  <2>2. CASE organizations[call[c].identity.organization].status # "ACTIVE"
        BY <1>1, <1>2, <2>2, CallGoes DEF VerifyOrganization
  <2> QED BY <2>1, <2>2
<1>3. CASE VerifyAgent(c)
  <2>1. CASE agents[call[c].identity.agent].status = "ACTIVE"
        BY <1>1, <1>3, <2>1, CallGoes DEF VerifyAgent
  <2>2. CASE agents[call[c].identity.agent].status # "ACTIVE"
        BY <1>1, <1>3, <2>2, CallGoes DEF VerifyAgent
  <2> QED BY <2>1, <2>2
<1>4. CASE VerifyWorkflow(c)
  <2>1. CASE dna[call[c].identity.workflow].status = "ACTIVE"
        BY <1>1, <1>4, <2>1, CallGoes DEF VerifyWorkflow
  <2>2. CASE dna[call[c].identity.workflow].status # "ACTIVE"
        BY <1>1, <1>4, <2>2, CallGoes DEF VerifyWorkflow
  <2> QED BY <2>1, <2>2
<1>5. CASE Record(c)
      BY <1>1, <1>5, CallGoes DEF Record
<1>6. CASE EndQuant(c)
      BY <1>1, <1>6, CallGoes DEF EndQuant
<1> QED BY <1>2, <1>3, <1>4, <1>5, <1>6

(* A quant application reads its chain with one query.                     *)
LEMMA StartQuantKeeps ==
    ASSUME IInv, NEW c \in Calls, StartQuant(c)
    PROVE  IInv'
<1>0. PICK w \in WorkflowRoles :
             \E id \in Chains(w) :
               call' = [call EXCEPT ![c] = [pc |-> "running", wants |-> w, identity |-> id, together |-> TRUE]]
      BY DEF StartQuant
<1>1. PICK id \in Chains(w) :
             call' = [call EXCEPT ![c] = [pc |-> "running", wants |-> w, identity |-> id, together |-> TRUE]]
      BY <1>0
<1> DEFINE k == [pc |-> "running", wants |-> w, identity |-> id, together |-> TRUE]
<1>2. id \in [organization : Active(organizations), role : {Lead}, agent : Active(agents),
               workflow : Active(dna)]
      BY DEF Chains
<1>3. Active(organizations) \subseteq Organizations /\ Active(agents) \subseteq Agents
      /\ Active(dna) \subseteq Versions
      BY DEF Active, IInv, TypeOK
<1>4. id \in Identity
  <2>1. Lead \in Roles
        BY DEF Roles
  <2> QED BY <1>2, <1>3, <2>1 DEF Identity
<1>5. k \in CallRow /\ Counts(k, agents, organizations)
      BY <1>4 DEF CallRow, Counts, Verifying
<1>6. UNCHANGED layerVars
      BY DEF StartQuant, Registries
<1> HIDE DEF k
<1> QED BY <1>1, <1>5, <1>6, CallKeeps DEF k

LEMMA InductiveStep == IInv /\ [Next]_execVars => IInv'
<1> SUFFICES ASSUME IInv, [Next]_execVars PROVE IInv'
    OBVIOUS
<1>1. CASE RegistryStep /\ UNCHANGED call
      BY <1>1, RegistryKeeps
<1>2. CASE CallStep
      BY <1>2, DelegateKeeps, ReadAgentKeeps, ReadWorkflowKeeps, VerifyKeeps, StartQuantKeeps
      DEF CallStep
<1> QED BY <1>1, <1>2, NextSteps DEF IInv

LEMMA Inductive == Spec => []IInv
BY InductiveInit, InductiveStep, PTL DEF Spec

(* An admitted execution runs under versions that were active together,    *)
(* and nothing is registered over a definition that had not passed its     *)
(* gate (organization_execution.py, agent_dna.py, organization_dna.py).    *)
THEOREM ExecutionsAreSound == Spec => []ExecutionIsSound
<1>1. IInv => ExecutionIsSound
      BY DEF IInv, ExecutionIsSound, AdmittedTogether, Counts
<1> QED BY <1>1, Inductive, PTL

-----------------------------------------------------------------------------
(* Both upper registries implement VersionLife.                            *)

(* What one operation does to the stages of its layer: register() and the  *)
(* transition to VALIDATED pass a gate, the others are steps of their own. *)
LayerStage(rows, names) == [x \in names |-> rows[x].status]

LEMMA RegisteredStage ==
    ASSUME NEW names, NEW rows \in [names -> LayerRow], NEW x \in names
    PROVE  LayerStage(Registered(rows, x), names) = [LayerStage(rows, names) EXCEPT ![x] = "CANDIDATE"]
BY DEF Registered, LayerStage

LEMMA MovedStage ==
    ASSUME NEW names, NEW rows \in [names -> LayerRow], NEW x \in names, NEW to
    PROVE  LayerStage(LayerMoved(rows, x, to), names) =
             [y \in names |-> IF y = x THEN to
                              ELSE IF to = "ACTIVE" /\ rows[y].status = "ACTIVE" THEN "DEPRECATED"
                              ELSE rows[y].status]
<1>1. \A y \in names :
         LayerMoved(rows, x, to)[y].status =
           IF y = x THEN to
           ELSE IF to = "ACTIVE" /\ rows[y].status = "ACTIVE" THEN "DEPRECATED" ELSE rows[y].status
      BY DEF LayerMoved
<1> QED BY <1>1 DEF LayerStage

LEMMA GatesOfLayers ==
    /\ Len(LayerGates) = 3 /\ LayerGates[1] = "NONE" /\ LayerGates[2] = "CANDIDATE"
    /\ LayerGates[3] = "VALIDATED" /\ 1 \in 1..(Len(LayerGates) - 1) /\ 2 \in 1..(Len(LayerGates) - 1)
BY DEF LayerGates

LEMMA AgentLifeInit == Init => AgentLife!Init
<1> SUFFICES ASSUME Init PROVE AgentLife!Init
    OBVIOUS
<1>1. LayerStage(agents, Agents) = [a \in Agents |-> IF a \in {} THEN "ACTIVE" ELSE LayerGates[1]]
      BY GatesOfLayers DEF LayerStage, Init, LayersInit, NoDna
<1>2. {} \in {{}} \cup {{a} : a \in Agents}
      OBVIOUS
<1> QED BY <1>1, <1>2, Zenon DEF AgentLife!Init, LayerStage

LEMMA AgentLifeStep ==
    ASSUME agents \in [Agents -> LayerRow], AgentStep
    PROVE  AgentLife!Next
<1> DEFINE stage == LayerStage(agents, Agents)
<1>1. PICK a \in Agents : RegisterAgent(a) \/ \E to \in LayerStatuses : \E r : TransitionAgent(a, to, r)
      BY DEF AgentStep
<1>2. \A y \in Agents : stage[y] = agents[y].status
      BY DEF LayerStage
<1>3. CASE RegisterAgent(a)
  <2>1. stage[a] = LayerGates[1] /\ stage' = [stage EXCEPT ![a] = LayerGates[1 + 1]]
        BY <1>2, <1>3, RegisteredStage, GatesOfLayers DEF RegisterAgent, CanRegisterAgent
  <2>2. AgentLife!Advance(a)
        BY <2>1, GatesOfLayers, Zenon DEF AgentLife!Advance, LayerStage
  <2> QED BY <2>2 DEF AgentLife!Next
<1>4. ASSUME NEW to \in LayerStatuses, NEW r, TransitionAgent(a, to, r)
      PROVE  AgentLife!Next
  <2>1. <<stage[a], to>> \in LayerAllowed
        BY <1>2, <1>4 DEF TransitionAgent, LayerMoves
  <2>2. stage' = [y \in Agents |-> IF y = a THEN to
                                  ELSE IF to = "ACTIVE" /\ stage[y] = "ACTIVE" THEN "DEPRECATED"
                                  ELSE stage[y]]
        BY <1>2, <1>4, MovedStage DEF TransitionAgent
  <2>3. CASE to = "VALIDATED"
    <3>0. 2 + 1 = 3 /\ stage[a] = "CANDIDATE"
          BY <2>1, <2>3 DEF LayerAllowed
    <3>1. stage[a] = LayerGates[2] /\ stage' = [stage EXCEPT ![a] = LayerGates[2 + 1]]
          BY <2>2, <2>3, <3>0, GatesOfLayers DEF LayerStage
    <3>2. AgentLife!Advance(a)
          BY <3>1, GatesOfLayers, Zenon DEF AgentLife!Advance, LayerStage
    <3> QED BY <3>2 DEF AgentLife!Next
  <2>4. CASE to = "ACTIVE"
    <3>1. stage[a] = LayerGates[Len(LayerGates)]
          BY <2>1, <2>4, GatesOfLayers DEF LayerAllowed
    <3>2. stage' = [y \in Agents |-> IF y = a THEN "ACTIVE"
                                    ELSE IF stage[y] = "ACTIVE" THEN "DEPRECATED" ELSE stage[y]]
          BY <2>2, <2>4
    <3>3. AgentLife!Serve(a)
          BY <3>1, <3>2 DEF AgentLife!Serve, LayerStage
    <3> QED BY <3>3 DEF AgentLife!Next
  <2>5. CASE to = "DEPRECATED"
    <3>1. stage[a] = "ACTIVE" /\ stage' = [stage EXCEPT ![a] = "DEPRECATED"]
          BY <2>1, <2>2, <2>5 DEF LayerAllowed, LayerStage
    <3>2. AgentLife!Withdraw(a)
          BY <3>1 DEF AgentLife!Withdraw, LayerStage
    <3> QED BY <3>2 DEF AgentLife!Next
  <2>6. CASE to = "RETIRED"
    <3>1. stage[a] \notin {LayerGates[1], "ACTIVE", "RETIRED"} /\ stage' = [stage EXCEPT ![a] = "RETIRED"]
          BY <2>1, <2>2, <2>6, GatesOfLayers DEF LayerAllowed, LayerStage
    <3>2. AgentLife!Retire(a)
          BY <3>1 DEF AgentLife!Retire, LayerStage
    <3> QED BY <3>2 DEF AgentLife!Next
  <2> QED BY <2>1, <2>3, <2>4, <2>5, <2>6 DEF LayerAllowed
<1> QED BY <1>1, <1>3, <1>4

LEMMA OrganizationLifeInit == Init => OrganizationLife!Init
<1> SUFFICES ASSUME Init PROVE OrganizationLife!Init
    OBVIOUS
<1>1. LayerStage(organizations, Organizations) = [o \in Organizations |-> IF o \in {} THEN "ACTIVE" ELSE LayerGates[1]]
      BY GatesOfLayers DEF LayerStage, Init, LayersInit, NoDna
<1>2. {} \in {{}} \cup {{o} : o \in Organizations}
      OBVIOUS
<1> QED BY <1>1, <1>2, Zenon DEF OrganizationLife!Init, LayerStage

LEMMA OrganizationLifeStep ==
    ASSUME organizations \in [Organizations -> LayerRow], OrganizationStep
    PROVE  OrganizationLife!Next
<1> DEFINE stage == LayerStage(organizations, Organizations)
<1>1. PICK o \in Organizations : RegisterOrganization(o) \/ \E to \in LayerStatuses : \E r : TransitionOrganization(o, to, r)
      BY DEF OrganizationStep
<1>2. \A y \in Organizations : stage[y] = organizations[y].status
      BY DEF LayerStage
<1>3. CASE RegisterOrganization(o)
  <2>1. stage[o] = LayerGates[1] /\ stage' = [stage EXCEPT ![o] = LayerGates[1 + 1]]
        BY <1>2, <1>3, RegisteredStage, GatesOfLayers DEF RegisterOrganization, CanRegisterOrganization
  <2>2. OrganizationLife!Advance(o)
        BY <2>1, GatesOfLayers, Zenon DEF OrganizationLife!Advance, LayerStage
  <2> QED BY <2>2 DEF OrganizationLife!Next
<1>4. ASSUME NEW to \in LayerStatuses, NEW r, TransitionOrganization(o, to, r)
      PROVE  OrganizationLife!Next
  <2>1. <<stage[o], to>> \in LayerAllowed
        BY <1>2, <1>4 DEF TransitionOrganization, LayerMoves
  <2>2. stage' = [y \in Organizations |-> IF y = o THEN to
                                  ELSE IF to = "ACTIVE" /\ stage[y] = "ACTIVE" THEN "DEPRECATED"
                                  ELSE stage[y]]
        BY <1>2, <1>4, MovedStage DEF TransitionOrganization
  <2>3. CASE to = "VALIDATED"
    <3>0. 2 + 1 = 3 /\ stage[o] = "CANDIDATE"
          BY <2>1, <2>3 DEF LayerAllowed
    <3>1. stage[o] = LayerGates[2] /\ stage' = [stage EXCEPT ![o] = LayerGates[2 + 1]]
          BY <2>2, <2>3, <3>0, GatesOfLayers DEF LayerStage
    <3>2. OrganizationLife!Advance(o)
          BY <3>1, GatesOfLayers, Zenon DEF OrganizationLife!Advance, LayerStage
    <3> QED BY <3>2 DEF OrganizationLife!Next
  <2>4. CASE to = "ACTIVE"
    <3>1. stage[o] = LayerGates[Len(LayerGates)]
          BY <2>1, <2>4, GatesOfLayers DEF LayerAllowed
    <3>2. stage' = [y \in Organizations |-> IF y = o THEN "ACTIVE"
                                    ELSE IF stage[y] = "ACTIVE" THEN "DEPRECATED" ELSE stage[y]]
          BY <2>2, <2>4
    <3>3. OrganizationLife!Serve(o)
          BY <3>1, <3>2 DEF OrganizationLife!Serve, LayerStage
    <3> QED BY <3>3 DEF OrganizationLife!Next
  <2>5. CASE to = "DEPRECATED"
    <3>1. stage[o] = "ACTIVE" /\ stage' = [stage EXCEPT ![o] = "DEPRECATED"]
          BY <2>1, <2>2, <2>5 DEF LayerAllowed, LayerStage
    <3>2. OrganizationLife!Withdraw(o)
          BY <3>1 DEF OrganizationLife!Withdraw, LayerStage
    <3> QED BY <3>2 DEF OrganizationLife!Next
  <2>6. CASE to = "RETIRED"
    <3>1. stage[o] \notin {LayerGates[1], "ACTIVE", "RETIRED"} /\ stage' = [stage EXCEPT ![o] = "RETIRED"]
          BY <2>1, <2>2, <2>6, GatesOfLayers DEF LayerAllowed, LayerStage
    <3>2. OrganizationLife!Retire(o)
          BY <3>1 DEF OrganizationLife!Retire, LayerStage
    <3> QED BY <3>2 DEF OrganizationLife!Next
  <2> QED BY <2>1, <2>3, <2>4, <2>5, <2>6 DEF LayerAllowed
<1> QED BY <1>1, <1>3, <1>4

(* Every step moves one version of one layer on, or none.                  *)
LEMMA LifeSteps ==
    IInv /\ [Next]_execVars =>
        /\ [AgentLife!Next]_[a \in Agents |-> agents[a].status]
        /\ [OrganizationLife!Next]_[o \in Organizations |-> organizations[o].status]
<1> SUFFICES ASSUME IInv, [Next]_execVars
             PROVE  /\ AgentLife!Next \/ UNCHANGED agents
                    /\ OrganizationLife!Next \/ UNCHANGED organizations
    OBVIOUS
<1>0. TypeOK
      BY DEF IInv
<1>1. UNCHANGED layerVars \/ WorkflowStep \/ AgentStep \/ OrganizationStep
      BY <1>0, NextSteps DEF RegistryStep
<1>2. CASE UNCHANGED layerVars \/ WorkflowStep
      BY <1>2 DEF layerVars, WorkflowStep
<1>3. CASE AgentStep
      BY <1>0, <1>3, AgentAges, AgentLifeStep DEF TypeOK
<1>4. CASE OrganizationStep
      BY <1>0, <1>4, OrganizationAges, OrganizationLifeStep DEF TypeOK
<1> QED BY <1>1, <1>2, <1>3, <1>4

(* Agent and organization DNA pass their gates one at a time, at most one  *)
(* version of each is active, and none comes back (transition() of         *)
(* agent_dna.py and organization_dna.py).                                  *)
THEOREM LayersImplementVersionLife == Spec => ImplementVersionLife
<1>1. Spec => AgentLife!Spec
      BY AgentLifeInit, LifeSteps, Inductive, PTL DEF Spec, AgentLife!Spec
<1>2. Spec => OrganizationLife!Spec
      BY OrganizationLifeInit, LifeSteps, Inductive, PTL DEF Spec, OrganizationLife!Spec
<1> QED BY <1>1, <1>2 DEF ImplementVersionLife
=============================================================================
