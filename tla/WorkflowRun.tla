------------------------------ MODULE WorkflowRun ------------------------------
(***************************************************************************)
(* One workflow run (workflow_runtime.py) on its stored projections        *)
(* (workflow_runs.py).                                                     *)
(*                                                                         *)
(* execute() visits the nodes in topological order; a parallel node runs   *)
(* one coroutine for each of its branches.  A coroutine c is a record      *)
(*   pc    where it waits: for its turn, for a transition to commit, for a *)
(*         permit, for a skill, for its branches;                          *)
(*   at    the index of its node in its list;                              *)
(*   end   what it has returned or raises ("none", "ok", "failed" or the   *)
(*         name of an exception);                                          *)
(*   try   the attempt of its node, the loop variable of _execute_node();  *)
(*   todo  the nodes a condition or a fail_fast node has still to skip.    *)
(*                                                                         *)
(* row is what the database holds, status and executed what the run        *)
(* believes: a cancellation that arrives while a commit is under way lets  *)
(* the commit through and the coroutine never hears of it.  Any step may   *)
(* be overtaken by cancel() and by the deadline.  Sub-workflows and        *)
(* compensation are not modelled, and a branch holds no parallel node.     *)
(***************************************************************************)
EXTENDS Naturals, Sequences, FiniteSets, Functions

CONSTANTS
    Order,           \* validation.topological_order
    Deps,            \* Deps[n]: depends_on
    Kind,            \* Kind[n]: "skill" (or "delay"), "condition", "parallel"
    Branches,        \* Branches[n]: the branches of a parallel node
    Selects,         \* Selects[n]: the then and the else nodes of a condition
    Policies,        \* failure policies of the parallel nodes
    MinSuccess,      \* MinSuccess[n]: min_success of a parallel node
    MaxAttempts,     \* MaxAttempts[n]: retry.max_attempts
    NodeLimited,     \* nodes with a timeout_seconds below the deadline
    MaxParallelism,  \* the smallest of the three concurrency limits
    Main             \* the coroutine of execute()

Nodes == Range(Order)
Parallels == {n \in Nodes : Kind[n] = "parallel"}
BranchIds == UNION {{n} \X DOMAIN Branches[n] : n \in Parallels}
Coroutines == {Main} \cup BranchIds

ASSUME WorkflowRunAssumption ==
    /\ Order \in Seq(Nodes) \ {<<>>}
    /\ Deps \in [Nodes -> SUBSET Nodes]
    /\ Kind \in [Nodes -> {"skill", "condition", "parallel"}]
    /\ Policies \subseteq {"fail_fast", "collect_all", "min_success"}
    /\ Branches \in [Parallels -> Seq(Seq(Nodes \ Parallels) \ {<<>>})]
    /\ Selects \in [{n \in Nodes : Kind[n] = "condition"} -> Seq(SUBSET Nodes)]
    /\ MinSuccess \in [Parallels -> Nat \ {0}]
    /\ MaxAttempts \in [Nodes -> Nat \ {0}]
    /\ \A n \in Parallels : MaxAttempts[n] = 1   \* only skills retry, workflow-node-1.0.schema.json
    /\ MaxParallelism \in Nat \ {0}
    /\ Main \notin BranchIds

VARIABLES
    policy,     \* policy[n]: failure_policy of a parallel node, fixed by the definition
    run,        \* workflow_run.status
    row,        \* the latest node_run of each node: its status and attempt
    status,     \* state.statuses
    executed,   \* state.executed
    attempts,   \* state.attempts
    tolerated,  \* state.tolerated_failures
    invoked,    \* calls of the skill invoker for each node
    co,         \* the coroutines
    doomed,     \* branches with a cancellation that has not arrived
    cancelled,  \* the cancellation token
    late        \* the deadline has passed

memory == <<status, executed, attempts, tolerated>>
vars == <<policy, run, row, memory, invoked, co, doomed, cancelled, late>>

Terminal == {"SUCCEEDED", "FAILED", "TIMED_OUT", "CANCELLED", "SKIPPED"}
NodeStatus == {"PENDING", "READY", "RUNNING"} \cup Terminal
RunTerminal == {"SUCCEEDED", "FAILED", "TIMED_OUT", "CANCELLED"}
Exceptions == {"WorkflowCancelled", "WorkflowTimedOut", "Cancelled", "Error"}

(* _NODE_TRANSITIONS *)
Allowed(from, to) ==
    \/ from = "PENDING" /\ to \in {"READY", "SKIPPED", "CANCELLED"}
    \/ from = "READY" /\ to \in {"RUNNING", "SKIPPED", "CANCELLED", "TIMED_OUT"}
    \/ from = "RUNNING" /\ to \in Terminal

(* _WORKFLOW_TRANSITIONS, and transition_workflow() within them *)
RunAllowed(from, to) ==
    \/ from = "PENDING" /\ to \in {"READY", "CANCELLED"}
    \/ from = "READY" /\ to \in {"RUNNING", "CANCELLED", "TIMED_OUT"}
    \/ from = "RUNNING" /\ to \in RunTerminal
RunMoves(to) == RunAllowed(run, to) /\ run' = to

(* create_node(): the first attempt, or the one after an attempt that ended *)
NoRow == [status |-> "NONE", attempt |-> 0]
MayFollow(r, attempt) == attempt = r.attempt + 1 /\ (r = NoRow \/ r.status \in Terminal)
Created(r) == [status |-> "PENDING", attempt |-> r.attempt + 1]

(* get_node() of the attempt the run knows: one before the latest has failed. *)
Stored(n) == IF row[n].attempt = attempts[n] THEN row[n].status ELSE "FAILED"

(* The transition a coroutine waits for at each of these positions. *)
Target == [skip |-> "SKIPPED", ready |-> "READY", run |-> "RUNNING",
           complete |-> "SUCCEEDED", fail |-> "FAILED", timeout |-> "TIMED_OUT",
           cancel |-> "CANCELLED"]

List(c) == IF c = Main THEN Order ELSE Branches[c[1]][c[2]]
Node(c) == List(c)[co[c].at]
Parts(n) == {b \in BranchIds : b[1] = n}
Ended(b) == co[b].pc = "done"

(* What _guard() raises. *)
Guard == IF cancelled THEN "WorkflowCancelled" ELSE IF late THEN "WorkflowTimedOut" ELSE "none"

-----------------------------------------------------------------------------
Init ==
    /\ policy \in [Parallels -> Policies]
    /\ run = "PENDING"
    /\ row = [n \in Nodes |-> NoRow]
    /\ status = [n \in Nodes |-> "PENDING"]
    /\ executed = {}
    /\ attempts = [n \in Nodes |-> 1]
    /\ tolerated = {}
    /\ invoked = [n \in Nodes |-> 0]
    /\ co = [c \in Coroutines |-> [pc |-> "idle", at |-> 1, end |-> "none", try |-> 1, todo |-> {}]]
    /\ doomed = {}
    /\ cancelled = FALSE
    /\ late = FALSE

Goto(c, pc) == co' = [co EXCEPT ![c].pc = pc]
Runs(c, pcs) == co[c].pc \in pcs /\ c \notin doomed

(* _execute_node() has returned: the next node of the list, unless a branch *)
(* has failed or the list is done.                                          *)
Returned(c, result) ==
    IF c # Main /\ result \in {"FAILED", "TIMED_OUT"}
      THEN [co[c] EXCEPT !.pc = "done", !.end = "failed"]
    ELSE IF co[c].at < Len(List(c))
      THEN [co[c] EXCEPT !.pc = "enter", !.at = @ + 1, !.end = "none"]
    ELSE IF c = Main THEN [co[c] EXCEPT !.pc = "close"]
    ELSE [co[c] EXCEPT !.pc = "done", !.end = "ok"]

(* An exception leaves _execute_node(): it ends a branch; execute() handles *)
(* cancellation and deadline and passes everything else on.                 *)
Raised(c, exception) ==
    IF c = Main /\ exception # "Error"
      THEN [co[c] EXCEPT !.pc = "sweep", !.at = 1, !.end = exception]
      ELSE [co[c] EXCEPT !.pc = "done", !.end = exception]

(* After the dispatch: _guard(), then success or failure. *)
Dispatched(c, succeeded) ==
    CASE Guard = "WorkflowCancelled" -> [co[c] EXCEPT !.pc = "cancel", !.end = Guard]
      [] Guard = "WorkflowTimedOut" -> [co[c] EXCEPT !.pc = "timeout", !.end = Guard]
      [] OTHER -> [co[c] EXCEPT !.pc = IF succeeded THEN "complete" ELSE "fail"]

(* _transition_node(): the projection, then what the run knows of it. *)
Store(n, s) ==
    /\ row' = [row EXCEPT ![n].status = s]
    /\ status' = [status EXCEPT ![n] = s]
    /\ executed' = IF s \in Terminal THEN executed \cup {n} ELSE executed

-----------------------------------------------------------------------------
(* _start_workflow(): one transaction makes the run READY and RUNNING and   *)
(* creates the first attempt of every node.                                 *)
Start ==
    /\ RunAllowed(run, "READY") /\ RunAllowed("READY", "RUNNING")
    /\ run' = "RUNNING"
    /\ row' = [n \in Nodes |-> Created(row[n])]
    /\ Goto(Main, "enter")
    /\ UNCHANGED <<policy, memory, invoked, doomed, cancelled, late>>

(* cancel(run_id) finds the run as long as execute() keeps its state. *)
Cancel ==
    /\ run = "RUNNING"
    /\ co[Main].pc \notin {"finish", "done"}
    /\ cancelled' = TRUE
    /\ UNCHANGED <<policy, run, row, memory, invoked, co, doomed, late>>

DeadlinePasses ==
    /\ run = "RUNNING"
    /\ late' = TRUE
    /\ UNCHANGED <<policy, run, row, memory, invoked, co, doomed, cancelled>>

-----------------------------------------------------------------------------
(* _execute_node() *)

Blocked(n) == \E d \in Deps[n] : status[d] \in {"FAILED", "TIMED_OUT", "CANCELLED"}

Unready(c, n) ==
    \E d \in Deps[n] : /\ status[d] \notin {"SUCCEEDED", "SKIPPED"}
                       /\ ~(c # Main /\ d = c[1] /\ status[d] = "RUNNING")

Enter(c) ==
    /\ Runs(c, {"enter"})
    /\ LET n == Node(c) IN
       co' = [co EXCEPT ![c] =
           IF c = Main /\ Guard # "none" THEN Raised(c, Guard)
           ELSE IF n \in executed THEN Returned(c, status[n])
           ELSE IF Blocked(n) THEN [@ EXCEPT !.pc = "skip"]
           ELSE IF Unready(c, n) THEN Raised(c, "Error")
           ELSE IF Guard # "none" THEN Raised(c, Guard)
           ELSE [@ EXCEPT !.pc = "ready", !.try = 1]]
    /\ UNCHANGED <<policy, run, row, memory, invoked, doomed, cancelled, late>>

(* Where a coroutine is after its transition; again: the failure is retried. *)
After(c, again) ==
    LET n == Node(c) IN
    CASE co[c].pc = "skip" -> Returned(c, "SKIPPED")
      [] co[c].pc = "ready" -> [co[c] EXCEPT !.pc = "run"]
      [] co[c].pc = "run" -> [co[c] EXCEPT !.pc =
             CASE Kind[n] = "skill" -> "limit" [] Kind[n] = "parallel" -> "join" [] OTHER -> "select"]
      [] co[c].pc = "complete" -> Returned(c, "SUCCEEDED")
      [] co[c].pc = "fail" -> IF again THEN [co[c] EXCEPT !.pc = "retry"] ELSE Returned(c, "FAILED")
      [] co[c].pc = "timeout" /\ co[c].end = "none" -> Returned(c, "TIMED_OUT")
      [] OTHER -> Raised(c, co[c].end)

(* The branches a parallel node starts when it is RUNNING. *)
Spawned(c) == IF co[c].pc = "run" /\ Node(c) \in Parallels THEN Parts(Node(c)) ELSE {}

Transition(c) ==
    /\ Runs(c, DOMAIN Target)
    /\ LET n == Node(c)  s == Target[co[c].pc] IN
       IF Allowed(Stored(n), s)
         THEN /\ Store(n, s)
              /\ \E again \in {FALSE, co[c].try < MaxAttempts[n]} :
                     co' = [d \in Coroutines |->
                               IF d = c THEN After(c, again)
                               ELSE IF d \in Spawned(c) THEN [co[d] EXCEPT !.pc = "enter"]
                               ELSE co[d]]
         ELSE /\ co' = [co EXCEPT ![c] = Raised(c, "Error")]
              /\ UNCHANGED <<row, status, executed>>
    /\ UNCHANGED <<policy, run, attempts, tolerated, invoked, doomed, cancelled, late>>

(* _complete_node() stores the output and the transition in one             *)
(* transaction.  When the output cannot be encoded or written it raises,    *)
(* the node stays RUNNING and no handler of _execute_node() sees it.        *)
OutputIsLost(c) ==
    /\ Runs(c, {"complete"})
    /\ co' = [co EXCEPT ![c] = Raised(c, "Error")]
    /\ UNCHANGED <<policy, run, row, memory, invoked, doomed, cancelled, late>>

(* After the backoff: _guard(), then _create_attempt(). *)
Retry(c) ==
    /\ Runs(c, {"retry"})
    /\ LET n == Node(c)  next == co[c].try + 1 IN
       IF Guard # "none" \/ ~ MayFollow(row[n], next)
         THEN /\ co' = [co EXCEPT ![c] = Raised(c, IF Guard # "none" THEN Guard ELSE "Error")]
              /\ UNCHANGED <<row, attempts>>
         ELSE /\ row' = [row EXCEPT ![n] = Created(@)]
              /\ attempts' = [attempts EXCEPT ![n] = next]
              /\ co' = [co EXCEPT ![c] = [@ EXCEPT !.pc = "ready", !.try = next]]
    /\ UNCHANGED <<policy, run, status, executed, tolerated, invoked, doomed, cancelled, late>>

-----------------------------------------------------------------------------
(* Skills: a permit, the invocation, its result. *)

(* Faulty permits: a cancelled branch does not release its permit. *)
WorkingOrCancelled == {c \in Coroutines : co[c].pc = "work" \/ co[c].end = "Cancelled"}

Working == {c \in Coroutines : co[c].pc = "work"}

Invoke(c) ==
    /\ Runs(c, {"limit"})
    /\ Cardinality(Working) < MaxParallelism
    /\ invoked' = [invoked EXCEPT ![Node(c)] = @ + 1]
    /\ Goto(c, "work")
    /\ UNCHANGED <<policy, run, row, memory, doomed, cancelled, late>>

(* The skill returns, or raises.  A result is looked at after the token. *)
SkillEnds(c) ==
    /\ Runs(c, {"work"})
    /\ \/ co' = [co EXCEPT ![c] = Dispatched(c, TRUE)]
       \/ Goto(c, "fail")
    /\ UNCHANGED <<policy, run, row, memory, invoked, doomed, cancelled, late>>

(* wait_for() gives up a skill, a permit or a condition. *)
TimesOut(c) ==
    /\ Runs(c, {"limit", "work", "select", "choose"})
    /\ \/ Node(c) \in NodeLimited /\ co' = [co EXCEPT ![c].pc = "timeout"]
       \/ late /\ co' = [co EXCEPT ![c] = [@ EXCEPT !.pc = "timeout", !.end = "WorkflowTimedOut"]]
    /\ UNCHANGED <<policy, run, row, memory, invoked, doomed, cancelled, late>>

-----------------------------------------------------------------------------
(* _run_condition(): the branch that is not selected is skipped. *)
Select(c) ==
    /\ Runs(c, {"select"})
    /\ \E i \in DOMAIN Selects[Node(c)] :
           co' = [co EXCEPT ![c] = [@ EXCEPT !.pc = "choose", !.todo = Selects[Node(c)][i]]]
    /\ UNCHANGED <<policy, run, row, memory, invoked, doomed, cancelled, late>>

(* The next node of todo; a RunStateError fails the node at hand. *)
SkipOne(c, skippable) ==
    \E n \in co[c].todo :
        IF n \in skippable
          THEN IF Allowed(Stored(n), "SKIPPED")
                 THEN Store(n, "SKIPPED") /\ co' = [co EXCEPT ![c].todo = @ \ {n}]
                 ELSE Goto(c, "fail") /\ UNCHANGED <<row, status, executed>>
          ELSE co' = [co EXCEPT ![c].todo = @ \ {n}] /\ UNCHANGED <<row, status, executed>>

Choose(c) ==
    /\ Runs(c, {"choose"})
    /\ \/ SkipOne(c, co[c].todo \ executed)
       \/ /\ co[c].todo = {}
          /\ co' = [co EXCEPT ![c] = Dispatched(c, TRUE)]
          /\ UNCHANGED <<row, status, executed>>
    /\ UNCHANGED <<policy, run, attempts, tolerated, invoked, doomed, cancelled, late>>

-----------------------------------------------------------------------------
(* _run_parallel() *)

Unended(c) == {b \in Parts(Node(c)) : ~Ended(b)}
Throwing(c) == {b \in Parts(Node(c)) : Ended(b) /\ co[b].end \in Exceptions}
Failing(c) == {b \in Parts(Node(c)) : Ended(b) /\ co[b].end = "failed"}
Succeeding(c) == {b \in Parts(Node(c)) : Ended(b) /\ co[b].end = "ok"}
Held(bs) == UNION {Range(Branches[b[1]][b[2]]) : b \in bs}

(* A branch has raised: result() and gather() pass it on at once, and the   *)
(* other branches run on.                                                   *)
JoinRaises(c) ==
    /\ Runs(c, {"join"})
    /\ \E b \in Throwing(c) :
           co' = [co EXCEPT ![c] =
               CASE co[b].end = "WorkflowCancelled" -> [@ EXCEPT !.pc = "cancel", !.end = co[b].end]
                 [] co[b].end = "WorkflowTimedOut" -> [@ EXCEPT !.pc = "timeout", !.end = co[b].end]
                 [] OTHER -> [@ EXCEPT !.pc = "fail"]]
    /\ UNCHANGED <<policy, run, row, memory, invoked, doomed, cancelled, late>>

(* fail_fast: the pending branches are cancelled and waited for. *)
JoinFailsFast(c) ==
    /\ Runs(c, {"join"})
    /\ policy[Node(c)] = "fail_fast"
    /\ Throwing(c) = {}
    /\ Failing(c) # {}
    /\ doomed' = doomed \cup Unended(c)
    /\ co' = [co EXCEPT ![c] = [@ EXCEPT !.pc = "drain", !.todo = Held(Unended(c))]]
    /\ UNCHANGED <<policy, run, row, memory, invoked, cancelled, late>>

Drain(c) ==
    /\ Runs(c, {"drain", "unwind"})
    /\ Unended(c) = {}
    /\ Goto(c, IF co[c].pc = "drain" THEN "clean" ELSE "timeout")
    /\ UNCHANGED <<policy, run, row, memory, invoked, doomed, cancelled, late>>

(* The nodes of the cancelled branches that had not started are skipped. *)
Clean(c) ==
    /\ Runs(c, {"clean"})
    /\ \/ SkipOne(c, {n \in co[c].todo : status[n] \in {"PENDING", "READY"}})
       \/ /\ co[c].todo = {}
          /\ co' = [co EXCEPT ![c] = Dispatched(c, FALSE)]
          /\ UNCHANGED <<row, status, executed>>
    /\ UNCHANGED <<policy, run, attempts, tolerated, invoked, doomed, cancelled, late>>

Enough(c) == IF policy[Node(c)] = "min_success" THEN Cardinality(Succeeding(c)) >= MinSuccess[Node(c)]
             ELSE Failing(c) = {}

(* Every branch has returned: the results are aggregated. *)
JoinAll(c) ==
    /\ Runs(c, {"join"})
    /\ Unended(c) = {}
    /\ Throwing(c) = {}
    /\ policy[Node(c)] = "fail_fast" => Failing(c) = {}
    /\ tolerated' = IF policy[Node(c)] = "min_success" /\ Enough(c)
                      THEN tolerated \cup {n \in Held(Parts(Node(c))) :
                                               status[n] \in {"FAILED", "TIMED_OUT"}}
                      ELSE tolerated
    /\ co' = [co EXCEPT ![c] = Dispatched(c, Enough(c))]
    /\ UNCHANGED <<policy, run, row, status, executed, attempts, invoked, doomed, cancelled, late>>

(* wait_for() cancels the join.  gather() cancels its branches and waits    *)
(* for them; asyncio.wait(), which fail_fast uses, leaves them alone.       *)
JoinTimesOut(c) ==
    /\ Runs(c, {"join", "drain", "clean"})
    /\ \E end \in (IF Node(c) \in NodeLimited THEN {"none"} ELSE {})
                  \cup (IF late THEN {"WorkflowTimedOut"} ELSE {}) :
           IF co[c].pc = "clean" \/ (co[c].pc = "join" /\ policy[Node(c)] = "fail_fast")
             THEN co' = [co EXCEPT ![c] = [@ EXCEPT !.pc = "timeout", !.end = end]] /\ doomed' = doomed
             ELSE /\ co' = [co EXCEPT ![c] = [@ EXCEPT !.pc = "unwind", !.end = end]]
                  /\ doomed' = doomed \cup Unended(c)
    /\ UNCHANGED <<policy, run, row, memory, invoked, cancelled, late>>

(* A cancellation arrives in a branch: inside the dispatch the node is      *)
(* CANCELLED; elsewhere the branch ends, and a commit under way succeeds    *)
(* unnoticed or is rolled back.                                             *)
Land(b) ==
    LET n == Node(b)
        ends == co' = [co EXCEPT ![b] = [@ EXCEPT !.pc = "done", !.end = "Cancelled"]] IN
    /\ b \in doomed
    /\ doomed' = doomed \ {b}
    /\ \/ /\ co[b].pc \in {"limit", "work", "select", "choose"}
          /\ co' = [co EXCEPT ![b] = [@ EXCEPT !.pc = "cancel", !.end = "Cancelled"]]
          /\ row' = row
       \/ /\ co[b].pc \in DOMAIN Target \cup {"enter", "retry"}
          /\ ends
          /\ row' = row
       \/ /\ co[b].pc \in DOMAIN Target
          /\ Allowed(Stored(n), Target[co[b].pc])
          /\ ends
          /\ row' = [row EXCEPT ![n].status = Target[co[b].pc]]
       \/ /\ co[b].pc = "retry"
          /\ Guard = "none" /\ MayFollow(row[n], co[b].try + 1)
          /\ ends
          /\ row' = [row EXCEPT ![n] = Created(@)]
    /\ UNCHANGED <<policy, run, memory, invoked, cancelled, late>>

-----------------------------------------------------------------------------
(* The end of execute(). *)

(* _cancel_remaining() reads what it knows of a node ... *)
SweepLook ==
    /\ co[Main].pc = "sweep"
    /\ IF Node(Main) \notin executed /\ status[Node(Main)] \notin Terminal
         THEN Goto(Main, "sweeping")
         ELSE IF co[Main].at < Len(Order) THEN co' = [co EXCEPT ![Main].at = @ + 1]
         ELSE Goto(Main, "finish")
    /\ UNCHANGED <<policy, run, row, memory, invoked, doomed, cancelled, late>>

(* A faulty sweep: a refused transition is passed over. *)
SweepBlindly ==
    /\ co[Main].pc = "sweeping"
    /\ row' = IF Allowed(Stored(Node(Main)), "CANCELLED")
                THEN [row EXCEPT ![Node(Main)].status = "CANCELLED"] ELSE row
    /\ status' = [status EXCEPT ![Node(Main)] = "CANCELLED"]
    /\ executed' = executed \cup {Node(Main)}
    /\ Goto(Main, "sweep")
    /\ UNCHANGED <<policy, run, attempts, tolerated, invoked, doomed, cancelled, late>>

(* ... and cancels it when the lock and the database are free. *)
SweepWrite ==
    /\ co[Main].pc = "sweeping"
    /\ IF Allowed(Stored(Node(Main)), "CANCELLED")
         THEN Store(Node(Main), "CANCELLED") /\ Goto(Main, "sweep")
         ELSE /\ co' = [co EXCEPT ![Main] = Raised(Main, "Error")]
              /\ UNCHANGED <<row, status, executed>>
    /\ UNCHANGED <<policy, run, attempts, tolerated, invoked, doomed, cancelled, late>>

Failures == {n \in Nodes : status[n] \in {"FAILED", "TIMED_OUT"}} \ tolerated

(* The last _guard(), the failures, the output mapping, which may raise. *)
Close ==
    /\ co[Main].pc = "close"
    /\ \/ /\ Guard # "none"
          /\ co' = [co EXCEPT ![Main] = Raised(Main, Guard)]
       \/ /\ Guard = "none"
          /\ co' = [co EXCEPT ![Main] = [@ EXCEPT !.pc = "finish",
                                         !.end = IF Failures # {} THEN "failed" ELSE "ok"]]
       \/ /\ Guard = "none"
          /\ Failures = {}
          /\ co' = [co EXCEPT ![Main] = Raised(Main, "Error")]
    /\ UNCHANGED <<policy, run, row, memory, invoked, doomed, cancelled, late>>

Outcome == [ok |-> "SUCCEEDED", failed |-> "FAILED",
            WorkflowCancelled |-> "CANCELLED", WorkflowTimedOut |-> "TIMED_OUT"]

Finish ==
    /\ co[Main].pc = "finish"
    /\ RunMoves(Outcome[co[Main].end])
    /\ Goto(Main, "done")
    /\ UNCHANGED <<policy, row, memory, invoked, doomed, cancelled, late>>

-----------------------------------------------------------------------------
Step(c) ==
    \/ Enter(c) \/ Transition(c) \/ OutputIsLost(c) \/ Retry(c)
    \/ Invoke(c) \/ SkillEnds(c) \/ TimesOut(c)
    \/ Select(c) \/ Choose(c)
    \/ JoinRaises(c) \/ JoinFailsFast(c) \/ Drain(c) \/ Clean(c) \/ JoinAll(c) \/ JoinTimesOut(c)

Next ==
    \/ Start \/ Cancel \/ DeadlinePasses
    \/ \E c \in Coroutines : Step(c)
    \/ \E b \in BranchIds : Land(b)
    \/ SweepLook \/ SweepWrite \/ Close \/ Finish

(* The event loop resumes every coroutine; skills return in the end.  The   *)
(* semaphores are fair.  Neither cancel() nor the deadline needs to come.   *)
Fairness ==
    /\ WF_vars(Start)
    /\ \A c \in Coroutines : WF_vars(Step(c))
    /\ \A b \in BranchIds : WF_vars(Land(b))
    /\ WF_vars(SweepLook \/ SweepWrite \/ Close \/ Finish)

Spec == Init /\ [][Next]_vars /\ Fairness

-----------------------------------------------------------------------------
TypeOK ==
    /\ policy \in [Parallels -> Policies]
    /\ run \in {"PENDING", "RUNNING"} \cup RunTerminal
    /\ row \in [Nodes -> [status : NodeStatus, attempt : Nat \ {0}] \cup {NoRow}]
    /\ status \in [Nodes -> NodeStatus]
    /\ executed \subseteq Nodes
    /\ \A n \in Nodes : attempts[n] \in 1 .. MaxAttempts[n]
    /\ tolerated \subseteq Nodes
    /\ invoked \in [Nodes -> Nat]
    /\ doomed \subseteq BranchIds
    /\ cancelled \in BOOLEAN
    /\ late \in BOOLEAN

(* A run that SUCCEEDED has no node that failed, was cancelled or did not   *)
(* end, but those a min_success node tolerates.                             *)
HonestSuccess ==
    run = "SUCCEEDED" =>
        \A n \in Nodes : row[n].status \in {"SUCCEEDED", "SKIPPED"} \/ n \in tolerated

(* What the run believes to have ended is stored: the database may be       *)
(* ahead of the run but never behind it.                                    *)
StatusIsStored ==
    \A n \in Nodes : status[n] \in Terminal =>
        status[n] = row[n].status \/ (status[n] = "FAILED" /\ row[n].attempt > 1)

(* A skill is invoked at most once for each attempt, in whichever coroutine *)
(* its node is met.                                                         *)
InvocationBudget == \A n \in Nodes : invoked[n] <= attempts[n]

(* A skill is invoked only after the nodes it depends on have succeeded or  *)
(* were skipped; the parallel node that holds it may fail later.            *)
RunsAfterDependencies ==
    \A n \in Nodes : invoked[n] > 0 =>
        \A d \in Deps[n] \ Parallels : status[d] \in {"SUCCEEDED", "SKIPPED"}

(* What is stored of a run is what happened in it, and what happened was    *)
(* due, with branches, retries, a cancellation and the deadline at once.    *)
RunIsHonest ==
    TypeOK /\ HonestSuccess /\ StatusIsStored /\ InvocationBudget /\ RunsAfterDependencies

(* execute() returns or raises, and no branch it has started lives for ever. *)
ExecuteReturns == <>[](Ended(Main) /\ \A b \in BranchIds : co[b].pc \in {"idle", "done"})

(* What the workflow specification says of a cancellation: it reaches the   *)
(* running nodes.  Once the run has ended no skill is invoked.              *)
NoStartAfterEnd == [][(run \in RunTerminal) => invoked' = invoked]_vars

=============================================================================
