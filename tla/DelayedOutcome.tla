----------------------------- MODULE DelayedOutcome -----------------------------
(***************************************************************************)
(* Delayed evaluation windows (delayed_outcomes.py) of governed tasks: one *)
(* window a task, evidence appended while it is open, and calls of         *)
(* evaluate(), each of three transactions: the check, the evaluation, the  *)
(* mark.  An evaluator is a record of where it waits, its task, and the    *)
(* status and the evidence its request names.                              *)
(***************************************************************************)
EXTENDS GovernedTask

CONSTANTS
    Evaluators,
    Evidence,
    MaxOutcomes    \* bound: evaluations of a task

VARIABLES
    window,     \* status of the window of each task
    moment,     \* where the clock is in the window: "before", "within", "after"
    evidence,   \* evidence_ledger
    evaluator   \* the calls of evaluate()

delVars == <<window, moment, evidence, evaluator>>
vars == <<govVars, delVars>>

NoRequest == [pc |-> "idle", task |-> "none", status |-> "none", seen |-> {}]

DelInit ==
    /\ Init
    /\ window = [t \in Tasks |-> "NONE"]
    /\ moment = [t \in Tasks |-> "before"]
    /\ evidence = [t \in Tasks |-> {}]
    /\ evaluator = [e \in Evaluators |-> NoRequest]

OpenWindow(t) ==
    /\ task[t] # NoTask /\ window[t] = "NONE"
    /\ window' = [window EXCEPT ![t] = "OPEN"]
    /\ UNCHANGED <<govVars, moment, evidence, evaluator>>

TimePasses(t) ==
    /\ window[t] # "NONE"
    /\ moment[t] # "after"
    /\ moment' = [moment EXCEPT ![t] = IF @ = "before" THEN "within" ELSE "after"]
    /\ UNCHANGED <<govVars, window, evidence, evaluator>>

\* A faulty append(): evidence may come until the window is evaluated.
AppendLate(t, x) ==
    /\ window[t] \in {"OPEN", "CLOSED"}
    /\ moment[t] # "before"
    /\ x \notin evidence[t]
    /\ evidence' = [evidence EXCEPT ![t] = @ \cup {x}]
    /\ UNCHANGED <<govVars, window, moment, evaluator>>

\* append() reads the clock before it waits for the transaction: it may commit
\* later than closes_at, as long as nobody has closed the window.
AppendEvidence(t, x) ==
    /\ window[t] = "OPEN"
    /\ moment[t] # "before"
    /\ x \notin evidence[t]
    /\ evidence' = [evidence EXCEPT ![t] = @ \cup {x}]
    /\ UNCHANGED <<govVars, window, moment, evaluator>>

Close(t) ==
    /\ window[t] = "OPEN"
    /\ moment[t] = "after"
    /\ window' = [window EXCEPT ![t] = "CLOSED"]
    /\ UNCHANGED <<govVars, moment, evidence, evaluator>>

\* The first transaction of evaluate(); the request was built by the caller.
Check(e, t) ==
    /\ evaluator[e].pc = "idle"
    /\ window[t] = "CLOSED"
    /\ task[t].status \in TaskEnds
    /\ Len(outcomes[t]) < MaxOutcomes
    /\ evaluator' = [evaluator EXCEPT ![e] =
           [pc |-> "checked", task |-> t, status |-> task[t].status, seen |-> evidence[t]]]
    /\ UNCHANGED <<govVars, window, moment, evidence>>

\* evaluate_and_record(), which refuses a status the task no longer has
Record(e) ==
    LET r == evaluator[e] IN
    /\ r.pc = "checked"
    /\ IF Recordable(r.task, r.status)
       THEN /\ outcomes' = [outcomes EXCEPT ![r.task] =
                   Append(@, Evaluation("window", r.status, task[r.task].attempt, r.seen))]
            /\ evaluator' = [evaluator EXCEPT ![e].pc = "recorded"]
       ELSE /\ evaluator' = [evaluator EXCEPT ![e] = NoRequest]
            /\ UNCHANGED outcomes
    /\ UNCHANGED <<effect, due, grant, authorized, task, runs, context, invoked,
                   requested, call, interrupts, window, moment, evidence>>

\* The third transaction raises when another evaluation has marked the window.
Mark(e) ==
    LET r == evaluator[e] IN
    /\ r.pc = "recorded"
    /\ window' = IF window[r.task] = "CLOSED" THEN [window EXCEPT ![r.task] = "EVALUATED"] ELSE window
    /\ evaluator' = [evaluator EXCEPT ![e] = NoRequest]
    /\ UNCHANGED <<govVars, moment, evidence>>

InterruptEvaluation(e) ==
    /\ evaluator[e].pc # "idle"
    /\ interrupts < MaxInterrupts
    /\ interrupts' = interrupts + 1
    /\ evaluator' = [evaluator EXCEPT ![e] = NoRequest]
    /\ UNCHANGED <<effect, due, grant, authorized, task, runs, outcomes, context,
                   invoked, requested, call, window, moment, evidence>>

Next ==
    \/ GovNext /\ UNCHANGED delVars
    \/ \E t \in Tasks : \/ OpenWindow(t) \/ TimePasses(t) \/ Close(t)
                        \/ \E x \in Evidence : AppendEvidence(t, x)
                        \/ \E e \in Evaluators : Check(e, t)
    \/ \E e \in Evaluators : Record(e) \/ Mark(e) \/ InterruptEvaluation(e)

(* A call that runs goes on, and the host that starts again recovers what  *)
(* it finds interrupted (docs/specifications/runtime-data-and-             *)
(* transactions.md:70), step Decide.                                       *)
Fairness ==
    \A t \in Tasks : WF_vars(Step(t) /\ UNCHANGED delVars)

Spec == DelInit /\ [][Next]_vars /\ Fairness

\* The life of a task, whoever evaluates it (motor.py:87, :148, planning.py:180).
ImplementsTaskLife == Life!Spec

\* What is recorded for a window covers all the evidence the window will ever
\* have, and a window is marked only after an evaluation (delayed_outcomes.py:181).
EvidenceIsFrozen ==
    \A t \in Tasks :
        /\ \A i \in DOMAIN outcomes[t] :
               outcomes[t][i].by = "window" => outcomes[t][i].covers = evidence[t]
        /\ window[t] = "EVALUATED" => \E i \in DOMAIN outcomes[t] : outcomes[t][i].by = "window"

\* An outcome names an end that the attempt it is filed under really had, even
\* when the task is repeated while the request waits (outcomes.py:138).
OutcomesAreTrue ==
    \A t \in Tasks : \A i \in DOMAIN outcomes[t] :
        LET o == outcomes[t][i] IN
        /\ o.attempt \in 1 .. task[t].attempt
        /\ o.execution = "PASSED" => \/ runs[t][o.attempt] = "SUCCEEDED"
                                    \/ effect[t] = "QUERYABLE"
        /\ o.attempt = task[t].attempt => o.status = task[t].status

\* What is said about a task, by its row, its window and its outcomes, is what
\* happened, in any order of its attempts, recoveries and evaluations.
OutcomesAreSound ==
    TypeOK /\ SettledByItsRun /\ EvidenceIsFrozen /\ OutcomesAreTrue
================================================================================
