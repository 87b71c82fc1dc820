------------------------------ MODULE GovernedTask ------------------------------
(***************************************************************************)
(* A task from its plan to its outcome (governed_execution.py, motor.py,   *)
(* planning.py, outcomes.py).                                              *)
(*                                                                         *)
(* A call of GovernedCognitiveApp.execute() or of MotorExec is a record    *)
(*   pc       where it waits:                                              *)
(*            "planned"   the plan is made, its grant not committed;       *)
(*            "dispatch"  before the transaction that starts an attempt;   *)
(*            "running"   in WorkflowRuntime.execute();                    *)
(*            "ended"     before the transaction that settles the task;    *)
(*            "settled"   before the transaction of the evaluation;        *)
(*            "recorded"  before the row of the execution context;         *)
(*            "decided"   before the transaction of recover();             *)
(*   kind     "govern" or "motor"; only the first evaluates;               *)
(*   attempt  the attempt it works on;                                     *)
(*   late     whether the clock it has read is past the deadline;          *)
(*   word     the status or the recovery action it has in hand.            *)
(* Transactions commit or roll back as a whole, a call can be interrupted  *)
(* between any two of them.  The rows of two tasks share no key.           *)
(*                                                                         *)
(* First come the checks between a proposed plan and its grant (plan       *)
(* validator, risk gate, execution identity) and the table by which an     *)
(* interrupted skill is recovered.  A plan is a record: edges[k], the      *)
(* dependencies of its task k; active[k] and valid[k], whether the         *)
(* workflow of k is active and its parameters fit; capabilities; longest,  *)
(* the longest node timeout; budget.  An identity is a record: digests,    *)
(* the definitions whose digest it names correctly; bound, the references  *)
(* between them that hold.                                                 *)
(***************************************************************************)
EXTENDS Naturals, FiniteSets, Sequences, SequencesExt

CONSTANTS
    AllowedCapabilities, SafeCapabilities,  \* RiskPolicy
    PlanBudget, DailyRemaining, MaxNodeDuration

SideEffects == {"PURE", "IDEMPOTENT", "QUERYABLE", "NON_REPLAYABLE"}
Definitions == {"organization", "agent", "workflow"}
References == {"role binds agent", "agent binds workflow", "workflow is planned"}

\* A graph is acyclic when no set of tasks keeps each of its members waiting.
Acyclic(edges) ==
    ~ \E S \in SUBSET DOMAIN edges \ {{}} : \A k \in S : edges[k] \cap S # {}

\* PlanValidator.validate
Validated(p) ==
    /\ \A k \in DOMAIN p.edges : p.edges[k] \subseteq DOMAIN p.edges /\ p.active[k] /\ p.valid[k]
    /\ Acyclic(p.edges)

\* RiskGate.evaluate
RiskApproved(p, mode, fresh) ==
    /\ fresh
    /\ p.longest <= MaxNodeDuration
    /\ p.capabilities \subseteq AllowedCapabilities
    /\ mode = "SAFE" => p.capabilities \subseteq SafeCapabilities
    /\ p.budget <= PlanBudget /\ p.budget <= DailyRemaining

\* verify_execution_identity
IdentityHolds(identity, stored) ==
    /\ \A d \in Definitions : stored[d] = "ACTIVE" /\ d \in identity.digests
    /\ identity.bound = References

\* SkillRecoveryManager._recover_queryable
QueryVerdict(answer) ==
    CASE answer = "SUCCEEDED" -> "COMPLETE"
      [] answer = "FAILED" -> "FAIL"
      [] answer \in {"PENDING", "error"} -> "REQUIRE_REVIEW"

\* A faulty table: whatever has attempts left is replayed.
ReplayWhatIsLeft(effect, late, attempt, maxAttempts, answer) ==
    IF late THEN "TIME_OUT" ELSE IF attempt >= maxAttempts THEN "FAIL" ELSE "REPLAY"

\* SkillRecoveryManager.recover; late says that the deadline has passed
RecoveryAction(effect, late, attempt, maxAttempts, answer) ==
    IF late THEN "TIME_OUT"
    ELSE CASE effect = "NON_REPLAYABLE" -> "REQUIRE_REVIEW"
           [] effect = "QUERYABLE" -> QueryVerdict(answer)
           [] effect \in {"PURE", "IDEMPOTENT"} ->
                  IF attempt >= maxAttempts THEN "FAIL" ELSE "REPLAY"

----------------------------------------------------------------------------
CONSTANTS
    Tasks,
    Plans, Identities,   \* what the planner and the callers may propose
    Effects,             \* the side effects of the skills, of SideEffects
    MaxAttempts,         \* max_attempts of a recovery
    MaxInterrupts,       \* bound: interruptions
    MaxRequests          \* bound: attempts a caller asks for

ASSUME GovernedTaskAssumption ==
    /\ Effects \subseteq SideEffects
    /\ MaxAttempts \in Nat \ {0}
    /\ MaxInterrupts \in Nat
    /\ MaxRequests \in Nat \ {0}

VARIABLES
    effect,      \* the side effect of the skill of each task
    due,         \* the tasks whose deadline has passed
    grant,       \* execution_grant.status
    authorized,  \* grant_attempt: the last authorised attempt
    task,        \* the task row: status and attempt
    runs,        \* workflow_run.status by attempt
    outcomes,    \* outcome_evaluation rows of each task
    context,     \* the tasks with a dna_execution_context row
    invoked,     \* calls of the skill for each task
    requested,   \* attempts that a caller asked for
    call,        \* the call at work on each task
    interrupts

govVars == <<effect, due, grant, authorized, task, runs, outcomes, context,
             invoked, requested, call, interrupts>>

RunEnds == {"SUCCEEDED", "FAILED", "TIMED_OUT", "CANCELLED"}
TaskEnds == RunEnds \cup {"REQUIRES_REVIEW"}
Repeatable == {"FAILED", "TIMED_OUT", "REQUIRES_REVIEW"}

\* Rows of task, execution_grant with grant_attempt, workflow_run, and the
\* evaluation with its episode
TaskRow == [status : TaskEnds \cup {"NONE", "RUNNING"}, attempt : Nat]
GrantStatus == {"NONE", "ACTIVE", "REVOKED", "EXPIRED"}
RunStatus == RunEnds \cup {"PENDING", "RUNNING"}
Assessments == {"PASSED", "FAILED", "UNKNOWN"}

NoCall == [pc |-> "idle", kind |-> "none", attempt |-> 0, late |-> FALSE, word |-> "none"]
NoTask == [status |-> "NONE", attempt |-> 0]

Init ==
    /\ effect \in [Tasks -> Effects]
    /\ due = {}
    /\ grant = [t \in Tasks |-> "NONE"]
    /\ authorized = [t \in Tasks |-> 0]
    /\ task = [t \in Tasks |-> NoTask]
    /\ runs = [t \in Tasks |-> <<>>]
    /\ outcomes = [t \in Tasks |-> <<>>]
    /\ context = {}
    /\ invoked = [t \in Tasks |-> 0]
    /\ requested = [t \in Tasks |-> 0]
    /\ call = [t \in Tasks |-> NoCall]
    /\ interrupts = 0

At(t, pc) == call[t].pc = pc
Goto(t, pc) == call' = [call EXCEPT ![t].pc = pc]
Return(t) == call' = [call EXCEPT ![t] = NoCall]
Dispatching(t, kind, n) ==
    [pc |-> "dispatch", kind |-> kind, attempt |-> n, late |-> t \in due, word |-> "none"]

\* execute() of a governed cycle.  The brain state is an argument: the mode
\* the risk gate will see is the one of this moment.
Execute(t) ==
    /\ grant[t] = "NONE" /\ At(t, "idle") /\ requested[t] = 0
    /\ \E mode \in {"NORMAL", "SAFE"} :
           call' = [call EXCEPT ![t] = [NoCall EXCEPT !.pc = "planned", !.kind = "govern", !.word = mode]]
    /\ requested' = [requested EXCEPT ![t] = 1]
    /\ UNCHANGED <<effect, due, grant, authorized, task, runs, outcomes, context,
                   invoked, interrupts>>

\* GrantIssuer._transition: an insertion or an end, with its row of execution_grant_transition
GrantMoves(t, from, to) ==
    /\ grant[t] = from
    /\ grant' = [grant EXCEPT ![t] = to]

\* MotorExec._transition: what may follow a status, with its row of task_transition
Follows(status) ==
    CASE status = "PENDING" -> {"READY"}
      [] status = "READY" -> {"DISPATCHED"}
      [] status = "DISPATCHED" -> {"RUNNING"}
      [] status = "RUNNING" -> TaskEnds
      [] OTHER -> {}
TaskMoves(t, to) ==
    /\ to \in Follows(task[t].status)
    /\ task' = [task EXCEPT ![t].status = to]

Registries == [Definitions -> {"ACTIVE", "RETIRED"}]

Admitted(p, mode, fresh, identity, stored) ==
    /\ Validated(p)
    /\ RiskApproved(p, mode, fresh)
    /\ Cardinality(DOMAIN p.edges) = 1
    /\ IdentityHolds(identity, stored)

\* PlanningRepository.add_decision: an expired plan is not approved, by the
\* clock that execute() read at its start.
Approves(late) == ~late

\* GrantIssuer.issue: one grant for the plan, valid as long as its task may run
Issues(t) == GrantMoves(t, "NONE", "ACTIVE")

\* The plan, its decision and its grant are inserted in one transaction.
Admit(t) ==
    /\ At(t, "planned")
    /\ Approves(call[t].late) /\ Issues(t)
    /\ \E p \in Plans, identity \in Identities, stored \in Registries :
           Admitted(p, call[t].word, TRUE, identity, stored)
    /\ call' = [call EXCEPT ![t] = Dispatching(t, "govern", 1)]
    /\ UNCHANGED <<effect, due, authorized, task, runs, outcomes, context, invoked,
                   requested, interrupts>>

\* One of the checks raises and nothing has been written.
Refuse(t) ==
    /\ At(t, "planned")
    /\ \E p \in Plans, identity \in Identities, stored \in Registries, fresh \in BOOLEAN :
           ~Admitted(p, call[t].word, fresh, identity, stored)
    /\ Return(t)
    /\ UNCHANGED <<effect, due, grant, authorized, task, runs, outcomes, context,
                   invoked, requested, interrupts>>

\* GrantIssuer.authorize_attempt after MotorExec._validate_grant: late is the
\* clock that execute() read before it waited for the transaction.
Authorizes(t, n, late) ==
    /\ grant[t] = "ACTIVE"
    /\ ~late
    /\ n = authorized[t] + 1

\* A faulty preparation: every task that has ended may be repeated.
PreparesWhatEnded(t, n) ==
    task[t] = NoTask \/ (task[t].attempt + 1 = n /\ task[t].status \in TaskEnds)

\* MotorExec._prepare_task
Prepares(t, n) ==
    \/ task[t] = NoTask
    \/ task[t].attempt + 1 = n /\ task[t].status \in Repeatable

\* The first transaction of MotorExec.execute(): PENDING, READY, DISPATCHED
\* and RUNNING are passed at once, the row of the run is PENDING.
Dispatch(t) ==
    LET n == call[t].attempt IN
    /\ At(t, "dispatch")
    /\ Authorizes(t, n, call[t].late)
    /\ Prepares(t, n)
    /\ authorized' = [authorized EXCEPT ![t] = n]
    /\ task' = [task EXCEPT ![t] = [status |-> "RUNNING", attempt |-> n]]
    /\ runs' = [runs EXCEPT ![t] = Append(@, "PENDING")]
    /\ Goto(t, "running")
    /\ UNCHANGED <<effect, due, grant, outcomes, context, invoked, requested,
                   interrupts>>

DispatchRefused(t) ==
    /\ At(t, "dispatch")
    /\ ~(Authorizes(t, call[t].attempt, call[t].late) /\ Prepares(t, call[t].attempt))
    /\ Return(t)
    /\ UNCHANGED <<effect, due, grant, authorized, task, runs, outcomes, context,
                   invoked, requested, interrupts>>

\* WorkflowRuntime.execute() as WorkflowRun models it: the run starts, calls
\* its skill at most once in an attempt, and ends; a cancellation request
\* is kept in the word of the call.
RunStarts(t) ==
    /\ At(t, "running")
    /\ Last(runs[t]) = "PENDING"
    /\ runs' = [runs EXCEPT ![t][Len(runs[t])] = "RUNNING"]
    /\ UNCHANGED <<effect, due, grant, authorized, task, outcomes, context, invoked,
                   requested, call, interrupts>>

Invoke(t) ==
    /\ At(t, "running")
    /\ Last(runs[t]) = "RUNNING"
    /\ invoked[t] < Len(runs[t])
    /\ invoked' = [invoked EXCEPT ![t] = @ + 1]
    /\ UNCHANGED <<effect, due, grant, authorized, task, runs, outcomes, context,
                   requested, call, interrupts>>

RunEndsWith(t, s) ==
    /\ At(t, "running")
    /\ Last(runs[t]) = "RUNNING"
    /\ s = "CANCELLED" => call[t].word = "cancel"
    /\ s = "SUCCEEDED" => invoked[t] > 0
    /\ runs' = [runs EXCEPT ![t][Len(runs[t])] = s]
    /\ call' = [call EXCEPT ![t] = [@ EXCEPT !.pc = "ended", !.word = s]]
    /\ UNCHANGED <<effect, due, grant, authorized, task, outcomes, context, invoked,
                   requested, interrupts>>

\* MotorExec.cancel(): the latest run whose row says RUNNING, which may
\* belong to an attempt that was interrupted; only a live run can be reached.
Cancel(t) ==
    /\ \E n \in DOMAIN runs[t] :
           /\ runs[t][n] = "RUNNING"
           /\ \A k \in DOMAIN runs[t] : k > n => runs[t][k] # "RUNNING"
           /\ At(t, "running") /\ call[t].attempt = n
    /\ call' = [call EXCEPT ![t].word = "cancel"]
    /\ UNCHANGED <<effect, due, grant, authorized, task, runs, outcomes, context,
                   invoked, requested, interrupts>>

\* The second transaction of MotorExec.execute()
Settle(t) ==
    /\ At(t, "ended")
    /\ TaskMoves(t, call[t].word)
    /\ IF call[t].kind = "govern" THEN Goto(t, "settled") ELSE Return(t)
    /\ UNCHANGED <<effect, due, grant, authorized, runs, outcomes, context, invoked,
                   requested, interrupts>>

\* OutcomeRepository.add in the transaction of evaluate_and_record()
Recordable(t, status) == task[t].status = status

Execution(status) ==
    CASE status = "SUCCEEDED" -> "PASSED"
      [] status = "REQUIRES_REVIEW" -> "UNKNOWN"
      [] status \in {"FAILED", "TIMED_OUT", "CANCELLED"} -> "FAILED"

\* OutcomeEvaluator.evaluate
Evaluation(by, status, attempt, covers) ==
    [by |-> by, status |-> status, attempt |-> attempt, covers |-> covers,
     execution |-> Execution(status)]

Evaluate(t) ==
    /\ At(t, "settled")
    /\ Recordable(t, call[t].word)
    /\ outcomes' = [outcomes EXCEPT ![t] =
                       Append(@, Evaluation("task", call[t].word, call[t].attempt, {}))]
    /\ Goto(t, "recorded")
    /\ UNCHANGED <<effect, due, grant, authorized, task, runs, context, invoked,
                   requested, interrupts>>

\* The row of the execution context (every caller here names an identity) is
\* not checked against the registry again.
RecordContext(t) ==
    /\ At(t, "recorded")
    /\ context' = context \cup {t}
    /\ Return(t)
    /\ UNCHANGED <<effect, due, grant, authorized, task, runs, outcomes, invoked,
                   requested, interrupts>>

\* The process stops, or the call is cancelled, or a statement of it raises.
Interrupt(t) ==
    /\ ~At(t, "idle")
    /\ interrupts < MaxInterrupts
    /\ interrupts' = interrupts + 1
    /\ Return(t)
    /\ UNCHANGED <<effect, due, grant, authorized, task, runs, outcomes, context,
                   invoked, requested>>

\* A caller starts the next attempt of a task that may be repeated.
Repeat(t) ==
    /\ At(t, "idle") /\ grant[t] # "NONE"
    /\ requested[t] < MaxRequests
    /\ requested' = [requested EXCEPT ![t] = @ + 1]
    /\ call' = [call EXCEPT ![t] = Dispatching(t, "motor", task[t].attempt + 1)]
    /\ UNCHANGED <<effect, due, grant, authorized, task, runs, outcomes, context,
                   invoked, interrupts>>

\* What a provider knows of the last invocation: a success only if there was
\* one in this attempt.
Answers(t) == {"FAILED", "PENDING", "error"}
                  \cup (IF invoked[t] = task[t].attempt THEN {"SUCCEEDED"} ELSE {})

\* The recovery of an interrupted task first asks SkillRecoveryManager ...
Decide(t) ==
    /\ At(t, "idle")
    /\ task[t].status = "RUNNING"
    /\ \E answer \in Answers(t) :
           call' = [call EXCEPT ![t] =
               [NoCall EXCEPT !.pc = "decided", !.kind = "motor", !.attempt = task[t].attempt,
                              !.word = RecoveryAction(effect[t], t \in due, task[t].attempt,
                                                      MaxAttempts, answer)]]
    /\ UNCHANGED <<effect, due, grant, authorized, task, runs, outcomes, context,
                   invoked, requested, interrupts>>

RecoveredAs == [COMPLETE |-> "SUCCEEDED", FAIL |-> "FAILED", REPLAY |-> "FAILED",
                REQUIRE_REVIEW |-> "REQUIRES_REVIEW", TIME_OUT |-> "TIMED_OUT"]

\* ... and then settles the attempt (MotorExec.recover()).  A replay is a new
\* execute() in transactions of its own, which may be refused.
Recover(t) ==
    /\ At(t, "decided")
    /\ TaskMoves(t, RecoveredAs[call[t].word])
    /\ call' = [call EXCEPT ![t] = IF call[t].word = "REPLAY"
                                   THEN Dispatching(t, "motor", task[t].attempt + 1)
                                   ELSE NoCall]
    /\ UNCHANGED <<effect, due, grant, authorized, runs, outcomes, context, invoked,
                   requested, interrupts>>

\* GrantIssuer.revoke and GrantIssuer.expire
EndGrant(t, s) ==
    /\ s = "EXPIRED" => t \in due
    /\ GrantMoves(t, "ACTIVE", s)
    /\ UNCHANGED <<effect, due, authorized, task, runs, outcomes, context, invoked,
                   requested, call, interrupts>>

\* The deadline, which is also the expiry of the grant, passes.
Expires(t) ==
    /\ grant[t] # "NONE" /\ t \notin due
    /\ due' = due \cup {t}
    /\ UNCHANGED <<effect, grant, authorized, task, runs, outcomes, context, invoked, requested, call,
                   interrupts>>

Step(t) ==
    \/ Admit(t) \/ Refuse(t) \/ Dispatch(t) \/ DispatchRefused(t)
    \/ RunStarts(t) \/ Invoke(t) \/ \E s \in RunEnds : RunEndsWith(t, s)
    \/ Settle(t) \/ Evaluate(t) \/ RecordContext(t)
    \/ Decide(t) \/ Recover(t)

GovNext ==
    \E t \in Tasks : \/ Step(t) \/ Execute(t) \/ Repeat(t) \/ Cancel(t) \/ Interrupt(t) \/ Expires(t)
                     \/ \E s \in {"REVOKED", "EXPIRED"} : EndGrant(t, s)

TypeOK ==
    /\ task \in [Tasks -> TaskRow]
    /\ grant \in [Tasks -> GrantStatus]
    /\ runs \in [Tasks -> Seq(RunStatus)]
    /\ due \subseteq Tasks /\ context \subseteq Tasks
    /\ invoked \in [Tasks -> Nat] /\ authorized \in [Tasks -> Nat] /\ requested \in [Tasks -> Nat]
    /\ \A t \in Tasks : \A i \in DOMAIN outcomes[t] : outcomes[t][i].execution \in Assessments

\* A task is SUCCEEDED because the run of its attempt succeeded or because the
\* provider of its skill confirmed that the interrupted attempt took effect
\* (motor.py:119 and :153).
SettledByItsRun ==
    \A t \in Tasks : task[t].status = "SUCCEEDED" =>
        \/ runs[t][task[t].attempt] = "SUCCEEDED"
        \/ effect[t] = "QUERYABLE" /\ invoked[t] = task[t].attempt

\* An effect that must not be repeated blindly happens at most once for each
\* attempt a caller asked for: no crash and no recovery adds one
\* (skill_recovery.py:58, motor.py:148).
EffectsAreRequested ==
    \A t \in Tasks : effect[t] \in {"QUERYABLE", "NON_REPLAYABLE"} => invoked[t] <= requested[t]

Life == INSTANCE TaskLife WITH
            authority <- grant,
            attempt <- [t \in Tasks |-> task[t].attempt],
            status <- [t \in Tasks |-> task[t].status]
================================================================================
