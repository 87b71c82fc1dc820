----------------------------- MODULE DnaExecution ------------------------------
(***************************************************************************)
(* Which versions of the three layers an execution runs under.  The        *)
(* organization entry (domain_sdk/organization_execution.py) reads one     *)
(* layer per transaction, and the governed application verifies all three  *)
(* again before it admits the plan.  The quant applications (runtime.py)   *)
(* read them with one query, and with another one when the run has ended.  *)
(***************************************************************************)
EXTENDS DnaRegistry

-----------------------------------------------------------------------------
(* Agent DNA over Workflow DNA, Organization DNA over Agent DNA            *)
(* (domain_sdk/agent_dna.py, organization_dna.py), and the start of the    *)
(* quant runtime that brings one version of each to ACTIVE                 *)
(* (_ensure_workflow_dna).  One DNA per layer, with several versions.      *)

CONSTANTS
    Agents, Organizations,     \* versions
    Uses,                      \* workflow_dna of an agent: version by workflow role
    Members,                   \* of an organization: agent, responsibilities, priority by role
    Fallback,                  \* fallback_role of an organization
    First,                     \* the version of each layer that the runtime starts with
    Starters,                  \* processes
    MaxCrashes, MaxGoverned    \* bounds

ASSUME DnaExecutionAssumption ==
    /\ First.workflow \in Versions /\ First.agent \in Agents /\ First.organization \in Organizations
    /\ \A a \in Agents : \A r \in DOMAIN Uses[a] : Uses[a][r] \in Versions
    /\ \A o \in Organizations : \A r \in DOMAIN Members[o] : Members[o][r].agent \in Agents

VARIABLES
    agents, organizations,     \* agent_dna_definition, organization_dna_definition
    boot,                      \* each process: where its start is, and the record it holds
    crashes, governed

layerVars == <<dna, agents, organizations>>
bootVars == <<boot, crashes>>

LayerStatuses == Statuses \ {"SHADOW", "CANARY"}
Unread == [status |-> "UNREAD", revision |-> 0]

LayersInit ==
    /\ dna = [v \in Versions |-> NoDna]
    /\ agents = [a \in Agents |-> NoDna]
    /\ organizations = [o \in Organizations |-> NoDna]
    /\ boot = [s \in Starters |-> [pc |-> "down", held |-> Unread]]
    /\ crashes = 0
    /\ governed = 0

----------------------------------------------------------------------------
LayerAllowed ==
    {<<"CANDIDATE", "VALIDATED">>, <<"CANDIDATE", "RETIRED">>, <<"VALIDATED", "ACTIVE">>,
     <<"VALIDATED", "RETIRED">>, <<"ACTIVE", "DEPRECATED">>, <<"DEPRECATED", "RETIRED">>}

\* transition(): raises unless
LayerMoves(rows, x, to, revision) ==
    /\ rows[x].revision = revision
    /\ <<rows[x].status, to>> \in LayerAllowed

\* A faulty transition() that forgets the version it replaces
LayerMovedAlone(rows, x, to) == [rows EXCEPT ![x] = [status |-> to, revision |-> @.revision + 1]]

\* and the active version gives way in the same transaction
LayerMoved(rows, x, to) ==
    [y \in DOMAIN rows |->
        IF y = x THEN [status |-> to, revision |-> rows[y].revision + 1]
        ELSE IF to = "ACTIVE" /\ rows[y].status = "ACTIVE"
          THEN [status |-> "DEPRECATED", revision |-> rows[y].revision + 1]
        ELSE rows[y]]

Registered(rows, x) == [rows EXCEPT ![x] = [status |-> "CANDIDATE", revision |-> 0]]

CanRegisterAgent(a) ==
    /\ agents[a].status = "NONE"
    /\ \A r \in DOMAIN Uses[a] : dna[Uses[a][r]].status \notin {"NONE", "CANDIDATE", "RETIRED"}

RegisterAgent(a) ==
    /\ CanRegisterAgent(a)
    /\ agents' = Registered(agents, a)
    /\ UNCHANGED <<dna, organizations>>

TransitionAgent(a, to, revision) ==
    /\ LayerMoves(agents, a, to, revision)
    /\ agents' = LayerMoved(agents, a, to)
    /\ UNCHANGED <<dna, organizations>>

CanRegisterOrganization(o) ==
    /\ organizations[o].status = "NONE"
    /\ \A r \in DOMAIN Members[o] :
         agents[Members[o][r].agent].status \in {"VALIDATED", "ACTIVE", "DEPRECATED"}

RegisterOrganization(o) ==
    /\ CanRegisterOrganization(o)
    /\ organizations' = Registered(organizations, o)
    /\ UNCHANGED <<dna, agents>>

TransitionOrganization(o, to, revision) ==
    /\ LayerMoves(organizations, o, to, revision)
    /\ organizations' = LayerMoved(organizations, o, to)
    /\ UNCHANGED <<dna, agents>>

----------------------------------------------------------------------------
At(s, pc) == boot[s].pc = pc
Holds(s, row) == boot' = [boot EXCEPT ![s].held = row]
Turns(s, pc) == boot' = [boot EXCEPT ![s] = [pc |-> pc, held |-> Unread]]

\* The process starts, again after a crash or after a start that raised
Start(s) ==
    /\ At(s, "down")
    /\ Turns(s, "workflow")
    /\ UNCHANGED <<layerVars, crashes>>

\* One transaction of the start: get(), register() when there is no row, or
\* the transition that the record asks for; a record that asks for nothing
\* ends the layer, and whatever raises ends the start
BootWorkflow(s) ==
    LET v == First.workflow
        held == boot[s].held
        next == [CANDIDATE |-> "VALIDATED", VALIDATED |-> "SHADOW", SHADOW |-> "CANARY"]
    IN  /\ At(s, "workflow")
        /\ \/ /\ held = Unread /\ Holds(s, dna[v]) /\ UNCHANGED dna
           \/ /\ held.status = "NONE"
              /\ IF CanRegister(v) THEN Register(v) /\ Holds(s, dna'[v])
                                   ELSE Turns(s, "down") /\ UNCHANGED dna
           \/ /\ held.status \in DOMAIN next
              /\ IF CanTransition(v, next[held.status], held.revision)
                   THEN Transition(v, next[held.status], held.revision) /\ Holds(s, dna'[v])
                   ELSE Turns(s, "down") /\ UNCHANGED dna
           \/ /\ held.status = "CANARY"
              /\ IF CanActivate(v, held.revision)
                   THEN Activate(v, held.revision) /\ Turns(s, "agent")
                   ELSE Turns(s, "down") /\ UNCHANGED dna
           \/ /\ held.status \in {"ACTIVE", "DEPRECATED", "RETIRED"}
              /\ Turns(s, "agent") /\ UNCHANGED dna
        /\ UNCHANGED <<agents, organizations, crashes>>

\* A faulty start that takes an active workflow for a finished start
BootAgentWhenNew(s) ==
    LET a == First.agent
        held == boot[s].held
    IN  /\ At(s, "agent")
        /\ \/ /\ held = Unread /\ agents[a].status = "NONE" /\ CanRegisterAgent(a)
              /\ RegisterAgent(a) /\ Holds(s, agents'[a])
           \/ /\ held = Unread /\ ~CanRegisterAgent(a)
              /\ Turns(s, "up") /\ UNCHANGED layerVars
           \/ /\ held.status \in {"CANDIDATE", "VALIDATED"}
              /\ LET to == [CANDIDATE |-> "VALIDATED", VALIDATED |-> "ACTIVE"][held.status]
                 IN  IF LayerMoves(agents, a, to, held.revision)
                       THEN TransitionAgent(a, to, held.revision) /\ Holds(s, agents'[a])
                       ELSE Turns(s, "down") /\ UNCHANGED layerVars
           \/ /\ held.status = "ACTIVE" /\ Turns(s, "organization") /\ UNCHANGED layerVars
        /\ UNCHANGED crashes

LayerNext == [CANDIDATE |-> "VALIDATED", VALIDATED |-> "ACTIVE"]

BootAgent(s) ==
    LET a == First.agent
        held == boot[s].held
    IN  /\ At(s, "agent")
        /\ \/ held = Unread /\ Holds(s, agents[a]) /\ UNCHANGED layerVars
           \/ /\ held.status = "NONE"
              /\ IF CanRegisterAgent(a) THEN RegisterAgent(a) /\ Holds(s, agents'[a])
                                        ELSE Turns(s, "down") /\ UNCHANGED layerVars
           \/ /\ held.status \in DOMAIN LayerNext
              /\ IF LayerMoves(agents, a, LayerNext[held.status], held.revision)
                   THEN TransitionAgent(a, LayerNext[held.status], held.revision) /\ Holds(s, agents'[a])
                   ELSE Turns(s, "down") /\ UNCHANGED layerVars
           \/ /\ held.status \in {"ACTIVE", "DEPRECATED", "RETIRED"}
              /\ Turns(s, "organization") /\ UNCHANGED layerVars
        /\ UNCHANGED crashes

BootOrganization(s) ==
    LET o == First.organization
        held == boot[s].held
    IN  /\ At(s, "organization")
        /\ \/ held = Unread /\ Holds(s, organizations[o]) /\ UNCHANGED layerVars
           \/ /\ held.status = "NONE"
              /\ IF CanRegisterOrganization(o) THEN RegisterOrganization(o) /\ Holds(s, organizations'[o])
                                               ELSE Turns(s, "down") /\ UNCHANGED layerVars
           \/ /\ held.status \in DOMAIN LayerNext
              /\ IF LayerMoves(organizations, o, LayerNext[held.status], held.revision)
                   THEN /\ TransitionOrganization(o, LayerNext[held.status], held.revision)
                        /\ Holds(s, organizations'[o])
                   ELSE Turns(s, "down") /\ UNCHANGED layerVars
           \/ /\ held.status \in {"ACTIVE", "DEPRECATED", "RETIRED"}
              /\ Turns(s, "up") /\ UNCHANGED layerVars
        /\ UNCHANGED crashes

Crash(s) ==
    /\ ~At(s, "down") /\ crashes < MaxCrashes
    /\ crashes' = crashes + 1
    /\ Turns(s, "down")
    /\ UNCHANGED layerVars

\* Other clients of the registries: the command line for workflows, the
\* public operations of the two layers above
Govern ==
    /\ governed < MaxGoverned
    /\ governed' = governed + 1
    /\ \/ /\ \E v \in Versions :
               Register(v) \/ \E to \in Statuses : Transition(v, to, dna[v].revision)
          /\ UNCHANGED <<agents, organizations>>
       \/ \E a \in Agents :
            RegisterAgent(a) \/ \E to \in LayerStatuses : TransitionAgent(a, to, agents[a].revision)
       \/ \E o \in Organizations :
            \/ RegisterOrganization(o)
            \/ \E to \in LayerStatuses : TransitionOrganization(o, to, organizations[o].revision)
    /\ UNCHANGED bootVars

Boot(s) == Start(s) \/ BootWorkflow(s) \/ BootAgent(s) \/ BootOrganization(s)

----------------------------------------------------------------------------
LayerGates == <<"NONE", "CANDIDATE", "VALIDATED">>

\* Both upper registries keep the promise of VersionLife, whoever calls them
\* (transition() of agent_dna.py and organization_dna.py).
AgentLife == INSTANCE VersionLife WITH
    Versions <- Agents, Gates <- LayerGates, Reinstates <- FALSE,
    stage <- [a \in Agents |-> agents[a].status]
OrganizationLife == INSTANCE VersionLife WITH
    Versions <- Organizations, Gates <- LayerGates, Reinstates <- FALSE,
    stage <- [o \in Organizations |-> organizations[o].status]
ImplementVersionLife == AgentLife!Spec /\ OrganizationLife!Spec

-----------------------------------------------------------------------------
CONSTANTS
    Calls,
    Responsibilities, WorkflowRoles, Lead,
    RoleRank,       \* the alphabetical order of the roles
    Budget,         \* of an organization
    Asked           \* budgets that a request may ask for

VARIABLES call, context     \* dna_execution_context, by call

execVars == <<layerVars, bootVars, governed, call, context>>

NoIdentity == [organization |-> "NONE", role |-> "NONE", agent |-> "NONE", workflow |-> "NONE"]
NoCall == [pc |-> "idle", wants |-> "NONE", identity |-> NoIdentity, together |-> FALSE]

Init ==
    /\ LayersInit
    /\ call = [c \in Calls |-> NoCall]
    /\ context = [c \in Calls |-> NoIdentity]

Active(rows) == {x \in DOMAIN rows : rows[x].status = "ACTIVE"}

Reaches(c, pc) == call[c].pc = pc
Goes(c, pc) == call' = [call EXCEPT ![c].pc = pc]
Registries == <<layerVars, bootVars, governed>>

\* delegate(): the responsible role of the highest priority that is
\* available, else the fallback; {} when the fallback is not available
Delegates(o, responsibility, unavailable) ==
    LET free == DOMAIN Members[o] \ unavailable
        able == {r \in free : responsibility \in Members[o][r].responsibilities}
        candidates == IF able = {} THEN {Fallback[o]} \cap free ELSE able
        before(r, q) == \/ Members[o][r].priority > Members[o][q].priority
                        \/ /\ Members[o][r].priority = Members[o][q].priority
                           /\ RoleRank[r] < RoleRank[q]
    IN  {r \in candidates : \A q \in candidates \ {r} : before(r, q)}

\* execute() of the organization: the active version, its budget and its
\* delegate; whatever it raises leaves no trace
Delegate(c) ==
    /\ Reaches(c, "idle")
    /\ \E o \in Active(organizations), r \in Responsibilities, w \in WorkflowRoles, asked \in Asked,
          unavailable \in SUBSET DOMAIN RoleRank :
         /\ asked <= Budget[o]
         /\ \E role \in Delegates(o, r, unavailable) :
              call' = [call EXCEPT ![c] = [NoCall EXCEPT
                         !.pc = "agent", !.wants = w,
                         !.identity = [NoIdentity EXCEPT !.organization = o, !.role = role,
                                          !.agent = Members[o][role].agent]]]
    /\ UNCHANGED <<Registries, context>>

ReadAgent(c) ==
    LET a == call[c].identity.agent
        w == call[c].wants
    IN  /\ Reaches(c, "agent")
        /\ IF agents[a].status = "ACTIVE" /\ w \in DOMAIN Uses[a]
             THEN call' = [call EXCEPT ![c].pc = "workflow", ![c].identity.workflow = Uses[a][w]]
             ELSE Goes(c, "ended")
        /\ UNCHANGED <<Registries, context>>

\* "together" remembers whether all three are active at this moment
ReadWorkflow(c) ==
    LET id == call[c].identity
    IN  /\ Reaches(c, "workflow")
        /\ IF dna[id.workflow].status = "ACTIVE"
             THEN call' = [call EXCEPT ![c].pc = "verify organization",
                             ![c].together = /\ id.organization \in Active(organizations)
                                             /\ id.agent \in Active(agents)]
             ELSE Goes(c, "ended")
        /\ UNCHANGED <<Registries, context>>

\* A faulty verification that trusts the version it has been handed
VerifyOrganizationTrusting(c) ==
    /\ Reaches(c, "verify organization")
    /\ Goes(c, "verify agent")
    /\ UNCHANGED <<Registries, context>>

\* verify_execution_identity(): each layer is read once more
VerifyOrganization(c) ==
    /\ Reaches(c, "verify organization")
    /\ Goes(c, IF organizations[call[c].identity.organization].status = "ACTIVE"
                 THEN "verify agent" ELSE "ended")
    /\ UNCHANGED <<Registries, context>>

VerifyAgent(c) ==
    /\ Reaches(c, "verify agent")
    /\ Goes(c, IF agents[call[c].identity.agent].status = "ACTIVE" THEN "verify workflow" ELSE "ended")
    /\ UNCHANGED <<Registries, context>>

VerifyWorkflow(c) ==
    /\ Reaches(c, "verify workflow")
    /\ Goes(c, IF dna[call[c].identity.workflow].status = "ACTIVE" THEN "admitted" ELSE "ended")
    /\ UNCHANGED <<Registries, context>>

\* Plan, decision and grant carry the identity; the run ends and its context
\* is recorded
Record(c) ==
    /\ Reaches(c, "admitted")
    /\ context' = [context EXCEPT ![c] = call[c].identity]
    /\ Goes(c, "recorded")
    /\ UNCHANGED Registries

\* _dna_context(): the one chain that is active as a whole under the lead role
Chains(w) ==
    {id \in [organization : Active(organizations), role : {Lead}, agent : Active(agents),
             workflow : Active(dna)] :
        /\ Lead \in DOMAIN Members[id.organization]
        /\ Members[id.organization][Lead].agent = id.agent
        /\ w \in DOMAIN Uses[id.agent] /\ Uses[id.agent][w] = id.workflow}

\* The plan of a quant application is made with the chain of the moment
StartQuant(c) ==
    /\ Reaches(c, "idle")
    /\ \E w \in WorkflowRoles : \E id \in Chains(w) :
         call' = [call EXCEPT ![c] = [pc |-> "running", wants |-> w, identity |-> id, together |-> TRUE]]
    /\ UNCHANGED <<Registries, context>>

\* and its context is the chain of the moment when the run has ended; when
\* there is none, the command fails although the run succeeded
EndQuant(c) ==
    /\ Reaches(c, "running")
    /\ IF Chains(call[c].wants) = {} THEN UNCHANGED context
       ELSE \E id \in Chains(call[c].wants) : context' = [context EXCEPT ![c] = id]
    /\ Goes(c, "recorded")
    /\ UNCHANGED Registries

Next ==
    \/ \E s \in Starters : Boot(s) /\ UNCHANGED <<governed, call, context>>
    \/ \E s \in Starters : Crash(s) /\ UNCHANGED <<governed, call, context>>
    \/ Govern /\ UNCHANGED <<call, context>>
    \/ \E c \in Calls :
         \/ Delegate(c) \/ ReadAgent(c) \/ ReadWorkflow(c)
         \/ VerifyOrganization(c) \/ VerifyAgent(c) \/ VerifyWorkflow(c) \/ Record(c)
         \/ StartQuant(c) \/ EndQuant(c)

\* A start that can go on goes on, and a process that is down is restarted
Fairness == \A s \in Starters : WF_execVars(Boot(s) /\ UNCHANGED <<governed, call, context>>)

Spec == Init /\ [][Next]_execVars /\ Fairness

----------------------------------------------------------------------------
\* The versions of an admitted execution were active together at one moment
\* of its call, although each is read in transactions of its own: both reads
\* of the upper layers found them active, and they do not come back
\* (organization_execution.py:60-83, dna_execution.py:56-79).
AdmittedTogether == \A c \in Calls : call[c].pc \in {"admitted", "recorded"} => call[c].together

\* Nothing is registered over a definition that had not passed its gate,
\* whatever moves meanwhile (register() of both upper layers).
ReferencesPassedTheirGate ==
    /\ \A a \in Agents : agents[a].status # "NONE" =>
         \A r \in DOMAIN Uses[a] : dna[Uses[a][r]].status \notin {"NONE", "CANDIDATE"}
    /\ \A o \in Organizations : organizations[o].status # "NONE" =>
         \A r \in DOMAIN Members[o] : agents[Members[o][r].agent].status \notin {"NONE", "CANDIDATE"}

\* An execution and the definitions it runs by were admitted rightly
ExecutionIsSound == AdmittedTogether /\ ReferencesPassedTheirGate

\* A start that is cut off between any two of its transactions is completed
\* by a later one, also next to another start: unless somebody else moves a
\* version, a whole chain is active in the end (_ensure_workflow_dna).
EventuallyReady ==
    <>(governed > 0 \/ /\ dna[First.workflow].status = "ACTIVE"
                       /\ agents[First.agent].status = "ACTIVE"
                       /\ organizations[First.organization].status = "ACTIVE")
=============================================================================
