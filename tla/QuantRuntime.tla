----------------------------- MODULE QuantRuntime ----------------------------
(***************************************************************************)
(* The quant agent's runtime service (apps/quant_agent/runtime.py) with    *)
(* the scheduler, the daily review and the market summary it drives.       *)
(*                                                                         *)
(* serve() is one coroutine that ticks the scheduler, publishes due outbox *)
(* messages and processes one accepted command per turn; job is its        *)
(* position and its local variables.  CLI processes insert command         *)
(* messages, the clock advances, lifecycle calls arrive and the process    *)
(* dies between any two of its steps.  Every committed transaction is a    *)
(* step.  The inbox (module Inbox) and the order and backoff of the outbox *)
(* (module Outbox) are reduced to what they promise: a message is consumed *)
(* with its command row or not at all, and a deferred one stays pending.   *)
(***************************************************************************)
EXTENDS Naturals, Sequences, FiniteSets, FiniteSetsExt

CONSTANTS
    Commands,      \* command.received messages a CLI may insert
    Kind,          \* Kind[c]: "summary", "review", "retry", "cancel", "unknown"
    Key,           \* Key[c]: dedup_key
    Target,        \* Target[c]: the summary whose latest task c controls
    DayOf,         \* DayOf[c]: business_date of a schedule.trigger
    Calendar,      \* the business days, in order
    TradingDays,   \* the days TradingCalendar.is_trading_day() accepts
    FireMissed,    \* missed_policy is FIRE_ONCE
    MaxReviews,    \* RestRepair.max_attempts
    MaxFaults,     \* bound: crashes, shutdowns and refused consumptions
    None           \* no message

Days == {Calendar[i] : i \in DOMAIN Calendar}
Messages == Commands \cup Days
Summaries == {c \in Commands : Kind[c] = "summary"}

ASSUME QuantRuntimeAssumption ==
    /\ Calendar \in Seq(Days)
    /\ Calendar # <<>>
    /\ Kind \in [Commands -> {"summary", "review", "retry", "cancel", "unknown"}]
    /\ \A c \in Commands : Kind[c] \in {"retry", "cancel"} => Target[c] \in Summaries
    /\ \A c \in Commands : Kind[c] = "review" => DayOf[c] \in Days
    /\ Commands \cap Days = {}
    /\ TradingDays \subseteq Days
    /\ FireMissed \in BOOLEAN
    /\ MaxReviews \in Nat \ {0}
    /\ MaxFaults \in Nat
    /\ None \notin Messages

\* What a sum over commands needs
ASSUME CommandsAreFinite == IsFiniteSet(Commands)

VARIABLES
    clock,       \* four stages a day: before, in the window, missed, expired
    outbox,      \* publish_state of each message's outbox_event
    checkpoint,  \* schedule_checkpoint status of each day
    review,      \* rest_repair_run of each day
    reviewed,    \* daily_review workflow runs that succeeded, per day
    command,     \* command_execution status
    attempt,     \* command_execution attempt
    task,        \* status of the latest task of each summary
    live,        \* summaries whose run the workflow runtime has a handle of
    notified,    \* notifications sent for each summary
    accepting,   \* QuantRuntimeService._accepting
    stopping,    \* QuantRuntimeService._stopping is set
    ticked,      \* checkpoint() has run since the service started
    job,         \* the serve() coroutine
    faults       \* faults so far

stored == <<outbox, checkpoint, review, reviewed, command, attempt, task, notified>>
vars == <<clock, stored, live, accepting, stopping, ticked, job, faults>>

Settled == {"SUCCEEDED", "FAILED"}
Positions == {"down", "loop", "tick", "relay", "publish", "confirm",
              "prepare", "review", "complete", "fail", "pick", "claim", "run",
              "exec", "sent", "finish", "ended"}

Idle(pc) == [pc |-> pc, seen |-> 0, batch |-> {}, at |-> None, result |-> "none"]
Goto(pc) == job' = [job EXCEPT !.pc = pc]

(* The stage of the day and the day of a clock value. *)
Stage(t) == <<"before", "window", "missed", "expired">>[(t % 4) + 1]
DayAt(t) == Calendar[(t \div 4) + 1]

-----------------------------------------------------------------------------
Init ==
    /\ clock = 0
    /\ outbox = [m \in Messages |-> "ABSENT"]
    /\ checkpoint = [d \in Days |-> "NONE"]
    /\ review = [d \in Days |-> [status |-> "NONE", attempt |-> 0, open |-> FALSE]]
    /\ reviewed = [d \in Days |-> 0]
    /\ command = [c \in Commands |-> "NONE"]
    /\ attempt = [c \in Commands |-> 0]
    /\ task = [c \in Summaries |-> "NONE"]
    /\ live = {}
    /\ notified = [c \in Summaries |-> 0]
    /\ accepting = FALSE
    /\ stopping = TRUE
    /\ ticked = FALSE
    /\ job = Idle("down")
    /\ faults = 0

(* Another process inserts a command message (commands.py).  Only ReadDue   *)
(* looks for new rows: one inserted earlier is inserted just before it.     *)
Enqueue(c) ==
    /\ job.pc = "relay"
    /\ outbox[c] = "ABSENT"
    /\ outbox' = [outbox EXCEPT ![c] = "PENDING"]
    /\ UNCHANGED <<clock, checkpoint, review, reviewed, command, attempt, task, notified,
                   live, accepting, stopping, ticked, job, faults>>

(* Only the ticks read the clock: it advances before one reads it, or       *)
(* before it writes; the rest of a day that is recorded passes unnoticed.   *)
TimePasses ==
    /\ checkpoint[DayAt(clock)] = "NONE" \/ DayAt(clock) # Calendar[Len(Calendar)]
    /\ job.pc = "loop" \/ (job.pc = "tick" /\ ~accepting)
    /\ clock + 1 < 4 * Len(Calendar)
    /\ clock' = clock + 1
    /\ UNCHANGED <<stored, live, accepting, stopping, ticked, job, faults>>

(* The clock passes the deadline of the day's rest_repair_run: prepare()    *)
(* looks at it when the run has FAILED and attempts are left.               *)
DeadlinePasses(d) ==
    /\ job.pc = "prepare"
    /\ review[d].status = "FAILED"
    /\ review[d].attempt < MaxReviews
    /\ review[d].open
    /\ review' = [review EXCEPT ![d].open = FALSE]
    /\ UNCHANGED <<clock, outbox, checkpoint, reviewed, command, attempt, task, notified,
                   live, accepting, stopping, ticked, job, faults>>

-----------------------------------------------------------------------------
(* The lifecycle. *)

(* A faulty start(): interrupted commands are not taken up again. *)
StartKeepsRows ==
    /\ job.pc = "down"
    /\ accepting' = TRUE
    /\ stopping' = FALSE
    /\ ticked' = FALSE
    /\ job' = Idle("loop")
    /\ UNCHANGED <<clock, stored, live, faults>>

(* start(): the rows a dead process left RUNNING are accepted again. *)
Start ==
    /\ job.pc = "down"
    /\ command' = [c \in Commands |-> IF command[c] = "RUNNING" THEN "ACCEPTED" ELSE command[c]]
    /\ accepting' = TRUE
    /\ stopping' = FALSE
    /\ ticked' = FALSE
    /\ job' = Idle("loop")
    /\ UNCHANGED <<clock, outbox, checkpoint, review, reviewed, attempt, task, notified,
                   live, faults>>

Quiesce ==
    /\ job.pc # "down"
    /\ accepting
    /\ faults < MaxFaults
    /\ faults' = faults + 1
    /\ accepting' = FALSE
    /\ stopping' = TRUE
    /\ UNCHANGED <<clock, stored, live, ticked, job>>

(* stop() of a service whose serve() has ended. *)
Stop ==
    /\ job.pc = "ended"
    /\ ticked
    /\ job' = Idle("down")
    /\ UNCHANGED <<clock, stored, live, accepting, stopping, ticked, faults>>

(* The process dies, or serve() is cancelled or fails and is restarted. *)
Crash ==
    /\ job.pc # "down"
    /\ faults < MaxFaults
    /\ faults' = faults + 1
    /\ accepting' = FALSE
    /\ stopping' = TRUE
    /\ ticked' = FALSE
    /\ live' = {}
    /\ job' = Idle("down")
    /\ UNCHANGED <<clock, stored>>

-----------------------------------------------------------------------------
(* Scheduler.tick() for a clock value it has read. *)

Fires(t) ==
    /\ DayAt(t) \in TradingDays
    /\ \/ Stage(t) = "window"
       \/ Stage(t) = "missed" /\ FireMissed

(* What the tick records of the day it finds. *)
Verdict(t) ==
    IF Fires(t) THEN "FIRED"
    ELSE IF Stage(t) = "expired" /\ DayAt(t) \in TradingDays THEN "EXPIRED" ELSE "SKIPPED"

(* A faulty scheduler: the last record of an occurrence stands. *)
RecordLast(t) ==
    IF Stage(t) = "before"
      THEN UNCHANGED <<checkpoint, outbox>>
      ELSE /\ checkpoint' = [checkpoint EXCEPT ![DayAt(t)] = Verdict(t)]
           /\ outbox' = IF Fires(t) THEN [outbox EXCEPT ![DayAt(t)] = "PENDING"] ELSE outbox

(* _fire() and _checkpoint(): the first record of an occurrence stands. *)
Record(t) ==
    LET d == DayAt(t) IN
    IF Stage(t) = "before" \/ checkpoint[d] # "NONE"
      THEN UNCHANGED <<checkpoint, outbox>>
      ELSE /\ checkpoint' = [checkpoint EXCEPT ![d] = Verdict(t)]
           /\ outbox' = IF Fires(t) THEN [outbox EXCEPT ![d] = "PENDING"] ELSE outbox

(* checkpoint(), after quiesce(): a tick beside serve(); the relay does      *)
(* nothing.  serve() has read its clock before quiesce(), so a tick that     *)
(* reads and writes at once meets every order of the two.                    *)
CheckpointTicks ==
    /\ job.pc # "down"
    /\ ~accepting
    /\ ~ticked
    /\ Record(clock)
    /\ ticked' = TRUE
    /\ UNCHANGED <<clock, review, reviewed, command, attempt, task, notified,
                   live, accepting, stopping, job, faults>>

LoopTurn ==
    /\ job.pc = "loop"
    /\ job' = IF stopping THEN Idle("ended") ELSE [Idle("tick") EXCEPT !.seen = clock]
    /\ UNCHANGED <<clock, stored, live, accepting, stopping, ticked, faults>>

ServeTicks ==
    /\ job.pc = "tick"
    /\ Record(job.seen)
    /\ job' = Idle("relay")
    /\ UNCHANGED <<clock, review, reviewed, command, attempt, task, notified,
                   live, accepting, stopping, ticked, faults>>

-----------------------------------------------------------------------------
(* OutboxRelay.publish_due() and _CommandPublisher.publish(). *)

(* The rows that are due; without any the pass is over. *)
Batch(due) == job' = [job EXCEPT !.pc = IF due = {} THEN "pick" ELSE "publish",
                                 !.batch = due, !.at = None]

ReadDue ==
    /\ job.pc = "relay"
    /\ Batch({m \in Messages : outbox[m] = "PENDING"})
    /\ UNCHANGED <<clock, stored, live, accepting, stopping, ticked, faults>>

(* A schedule.triggered message starts the daily review. *)
PublishDay(d) ==
    /\ job.pc = "publish"
    /\ d \in job.batch
    /\ job' = [job EXCEPT !.pc = "prepare", !.at = d]
    /\ UNCHANGED <<clock, stored, live, accepting, stopping, ticked, faults>>

(* A faulty deduplication: only commands that have ended are found. *)
RecordedEnded(k) == \E c \in Commands : Key[c] = k /\ command[c] \in Settled

Recorded(k) == \E c \in Commands : Key[c] = k /\ command[c] # "NONE"

(* A command message is consumed by accept(): one row per dedup_key, and a  *)
(* duplicate is acknowledged.  An unsupported command is buried by the      *)
(* inbox and refused for ever.                                              *)
Accept(c) ==
    /\ job.pc = "publish"
    /\ c \in job.batch
    /\ command' = IF Recorded(Key[c]) \/ Kind[c] = "unknown" THEN command
                  ELSE [command EXCEPT ![c] = "ACCEPTED"]
    /\ IF Kind[c] = "unknown" /\ ~Recorded(Key[c])
         THEN Batch(job.batch \ {c})
         ELSE job' = [job EXCEPT !.pc = "confirm", !.at = c]
    /\ UNCHANGED <<clock, outbox, checkpoint, review, reviewed, attempt, task, notified,
                   live, accepting, stopping, ticked, faults>>

(* The consumption failed and its attempts are not spent. *)
AcceptFails(c) ==
    /\ job.pc = "publish"
    /\ c \in job.batch
    /\ Kind[c] # "unknown"
    /\ faults < MaxFaults
    /\ faults' = faults + 1
    /\ Batch(job.batch \ {c})
    /\ UNCHANGED <<clock, stored, live, accepting, stopping, ticked>>

(* The next message; the one at hand stays pending. *)
Deferred == Batch(job.batch \ {job.at})

Confirm ==
    /\ job.pc = "confirm"
    /\ outbox' = [outbox EXCEPT ![job.at] = "PUBLISHED"]
    /\ Deferred
    /\ UNCHANGED <<clock, checkpoint, review, reviewed, command, attempt, task, notified,
                   live, accepting, stopping, ticked, faults>>

-----------------------------------------------------------------------------
(* DailyReviewApp.execute() for a schedule.triggered message, inside the    *)
(* relay, or for a schedule.trigger command.                                *)

ReviewDay == IF job.at \in Days THEN job.at ELSE DayOf[job.at]

ReviewReturns == job' = IF job.at \in Days THEN [job EXCEPT !.pc = "confirm"]
                        ELSE [job EXCEPT !.pc = "finish", !.result = "SUCCEEDED"]

ReviewRaises == IF job.at \in Days THEN Deferred
                ELSE job' = [job EXCEPT !.pc = "finish", !.result = "FAILED"]

(* A faulty prepare(): what has not succeeded is requested again. *)
RequestableAgain(d) == review[d].status # "SUCCEEDED" /\ review[d].attempt < MaxReviews

(* A first request, or the retry of one that FAILED before its deadline. *)
Requestable(d) ==
    \/ review[d].status = "NONE"
    \/ review[d].status = "FAILED" /\ review[d].attempt < MaxReviews /\ review[d].open

Prepare ==
    /\ job.pc = "prepare"
    /\ LET d == ReviewDay IN
       /\ Requestable(d)
       /\ review' = [review EXCEPT ![d] =
              [status |-> "REQUESTED", attempt |-> @.attempt + 1,
               open |-> @.open \/ @.status = "NONE"]]
    /\ Goto("review")
    /\ UNCHANGED <<clock, outbox, checkpoint, reviewed, command, attempt, task, notified,
                   live, accepting, stopping, ticked, faults>>

(* Any other request is a DUPLICATE: nothing runs, the caller succeeds. *)
PrepareDuplicate ==
    /\ job.pc = "prepare"
    /\ ~Requestable(ReviewDay)
    /\ ReviewReturns
    /\ UNCHANGED <<clock, stored, live, accepting, stopping, ticked, faults>>

(* _dna_context() raises before, the validator, the risk gate, the grant or *)
(* the motor after the request has been recorded.                           *)
ReviewFaults ==
    /\ job.pc \in {"prepare", "review"}
    /\ faults < MaxFaults
    /\ faults' = faults + 1
    /\ ReviewRaises
    /\ UNCHANGED <<clock, stored, live, accepting, stopping, ticked>>

ReviewRuns ==
    /\ job.pc = "review"
    /\ \/ /\ reviewed' = [reviewed EXCEPT ![ReviewDay] = @ + 1]
          /\ Goto("complete")
       \/ /\ reviewed' = reviewed
          /\ Goto("fail")
    /\ UNCHANGED <<clock, outbox, checkpoint, review, command, attempt, task, notified,
                   live, accepting, stopping, ticked, faults>>

(* RestRepair.complete() and fail(). *)
CloseReview(pc, status) ==
    /\ job.pc = pc
    /\ review' = [review EXCEPT ![ReviewDay].status = status]
    /\ ReviewReturns
    /\ UNCHANGED <<clock, outbox, checkpoint, reviewed, command, attempt, task, notified,
                   live, accepting, stopping, ticked, faults>>

-----------------------------------------------------------------------------
(* process_one(). *)

(* SELECT the oldest accepted command; rows are ordered by their arrival,   *)
(* which is any order of the messages.                                      *)
Pick ==
    /\ job.pc = "pick"
    /\ \/ /\ accepting
          /\ \E c \in Commands : /\ command[c] = "ACCEPTED"
                                 /\ job' = [job EXCEPT !.pc = "claim", !.at = c]
       \/ /\ ~accepting \/ \A c \in Commands : command[c] # "ACCEPTED"
          /\ Goto("loop")
    /\ UNCHANGED <<clock, stored, live, accepting, stopping, ticked, faults>>

(* A faulty claim: the attempt is not counted. *)
ClaimUncounted ==
    /\ job.pc = "claim"
    /\ command' = [command EXCEPT ![job.at] = "RUNNING"]
    /\ Goto(IF Kind[job.at] = "review" THEN "prepare" ELSE "run")
    /\ UNCHANGED <<clock, outbox, checkpoint, review, reviewed, attempt, task, notified,
                   live, accepting, stopping, ticked, faults>>

Claim ==
    /\ job.pc = "claim"
    /\ command' = [command EXCEPT ![job.at] = "RUNNING"]
    /\ attempt' = [attempt EXCEPT ![job.at] = @ + 1]
    /\ Goto(IF Kind[job.at] = "review" THEN "prepare" ELSE "run")
    /\ UNCHANGED <<clock, outbox, checkpoint, review, reviewed, task, notified,
                   live, accepting, stopping, ticked, faults>>

Finishes(result) == job' = [job EXCEPT !.pc = "finish", !.result = result]

(* The summary a running command executes. *)
Subject == IF Kind[job.at] = "summary" THEN job.at ELSE Target[job.at]

(* MotorExec.execute() starts: a new task for a summary, the failed one     *)
(* again for task.retry.                                                    *)
RunStarts ==
    /\ job.pc = "run"
    /\ Kind[job.at] = "summary" \/ (Kind[job.at] = "retry" /\ task[Subject] = "FAILED")
    /\ task' = [task EXCEPT ![Subject] = "RUNNING"]
    /\ live' = live \cup {Subject}
    /\ Goto("exec")
    /\ UNCHANGED <<clock, outbox, checkpoint, review, reviewed, command, attempt, notified,
                   accepting, stopping, ticked, faults>>

(* Cognition, planning, validation, risk gate, grant or a check of          *)
(* _execute_task_control() raises before anything has run.  task.cancel     *)
(* needs a RUNNING task and a live handle of its run.                       *)
NothingRuns ==
    /\ job.pc = "run"
    /\ Finishes(IF Kind[job.at] = "cancel" /\ task[Subject] = "RUNNING" /\ Subject \in live
                  THEN "SUCCEEDED" ELSE "FAILED")
    /\ UNCHANGED <<clock, stored, live, accepting, stopping, ticked, faults>>

(* The workflow runs: it notifies under the key of its own run, or not. *)
Notify ==
    /\ job.pc = "exec"
    /\ notified' = [notified EXCEPT ![Subject] = @ + 1]
    /\ Goto("sent")
    /\ UNCHANGED <<clock, outbox, checkpoint, review, reviewed, command, attempt, task,
                   live, accepting, stopping, ticked, faults>>

(* The run ends without, or with, its notification; the task follows.  The  *)
(* command of a summary fails with its run, task.retry returns its status.  *)
RunEnds(status) ==
    /\ \/ job.pc = "exec" /\ status = "FAILED"
       \/ job.pc = "sent"
    /\ task' = [task EXCEPT ![Subject] = status]
    /\ live' = live \ {Subject}
    /\ Finishes(IF Kind[job.at] = "retry" THEN "SUCCEEDED" ELSE status)
    /\ UNCHANGED <<clock, outbox, checkpoint, review, reviewed, command, attempt, notified,
                   accepting, stopping, ticked, faults>>

(* execute() raises out of the runtime: the task stays RUNNING. *)
RunRaises ==
    /\ job.pc \in {"exec", "sent"}
    /\ live' = live \ {Subject}
    /\ Finishes("FAILED")
    /\ UNCHANGED <<clock, stored, accepting, stopping, ticked, faults>>

(* The evaluation, the DNA context or a delivery raises after the run. *)
ReportRaises ==
    /\ \/ /\ job.pc = "finish"
          /\ Kind[job.at] \in {"summary", "review"}
          /\ Finishes("FAILED")
          /\ UNCHANGED faults
       \/ /\ job.pc = "confirm"
          /\ job.at \in Days
          /\ faults < MaxFaults
          /\ faults' = faults + 1
          /\ Deferred
    /\ UNCHANGED <<clock, stored, live, accepting, stopping, ticked>>

Finish ==
    /\ job.pc = "finish"
    /\ command' = IF command[job.at] = "RUNNING" THEN [command EXCEPT ![job.at] = job.result]
                  ELSE command
    /\ job' = Idle("loop")
    /\ UNCHANGED <<clock, outbox, checkpoint, review, reviewed, attempt, task, notified,
                   live, accepting, stopping, ticked, faults>>

-----------------------------------------------------------------------------
Serve ==
    \/ LoopTurn \/ ServeTicks \/ ReadDue
    \/ \E d \in Days : PublishDay(d)
    \/ \E c \in Commands : Accept(c) \/ AcceptFails(c)
    \/ Confirm
    \/ Prepare \/ PrepareDuplicate \/ ReviewFaults \/ ReviewRuns
    \/ CloseReview("complete", "SUCCEEDED") \/ CloseReview("fail", "FAILED")
    \/ Pick \/ Claim \/ RunStarts \/ NothingRuns \/ Notify
    \/ RunEnds("SUCCEEDED") \/ RunEnds("FAILED") \/ RunRaises \/ ReportRaises \/ Finish

Next ==
    \/ Serve
    \/ \E c \in Commands : Enqueue(c)
    \/ TimePasses
    \/ \E d \in Days : DeadlinePasses(d)
    \/ Start \/ Quiesce \/ CheckpointTicks \/ Stop \/ Crash

(* The event loop runs serve() and the lifecycle calls; a supervisor or an  *)
(* operator starts the service again.                                       *)
Fairness ==
    /\ WF_vars(Serve)
    /\ WF_vars(Start)
    /\ WF_vars(CheckpointTicks \/ Stop)

Spec == Init /\ [][Next]_vars /\ Fairness

-----------------------------------------------------------------------------
TypeOK ==
    /\ clock \in 0 .. 4 * Len(Calendar) - 1
    /\ outbox \in [Messages -> {"ABSENT", "PENDING", "PUBLISHED"}]
    /\ checkpoint \in [Days -> {"NONE", "FIRED", "SKIPPED", "EXPIRED"}]
    /\ review \in [Days -> [status : {"NONE", "REQUESTED"} \cup Settled,
                            attempt : 0 .. MaxReviews, open : BOOLEAN]]
    /\ reviewed \in [Days -> Nat]
    /\ command \in [Commands -> {"NONE", "ACCEPTED", "RUNNING"} \cup Settled]
    /\ attempt \in [Commands -> Nat]
    /\ task \in [Summaries -> {"NONE", "RUNNING"} \cup Settled]
    /\ live \subseteq Summaries
    /\ notified \in [Summaries -> Nat]
    /\ accepting \in BOOLEAN
    /\ stopping \in BOOLEAN
    /\ ticked \in BOOLEAN
    /\ job \in [pc : Positions, seen : 0 .. 4 * Len(Calendar) - 1,
                batch : SUBSET Messages, at : Messages \cup {None},
                result : {"none"} \cup Settled]
    /\ faults \in 0 .. MaxFaults

(* A business day has at most one review run that succeeded, whatever       *)
(* crashes, redeliveries and schedule.trigger commands ask for it again     *)
(* (prepare() takes a REQUESTED run for a duplicate).                       *)
ReviewedOnce == \A d \in Days : reviewed[d] <= 1

(* A review is recorded SUCCEEDED only when its workflow has succeeded,     *)
(* never because a caller was told DUPLICATE.                               *)
ReviewIsHonest == \A d \in Days : review[d].status = "SUCCEEDED" => reviewed[d] = 1

(* Reviews are counted right and reported right, and every row they depend  *)
(* on is well formed.                                                       *)
ReviewIsSound == TypeOK /\ ReviewedOnce /\ ReviewIsHonest

(* Of the messages with one dedup_key at most one is ever executed. *)
KeyRunsOnce ==
    \A b, c \in Commands : attempt[b] > 0 /\ attempt[c] > 0 /\ Key[b] = Key[c] => b = c

(* Every notification is paid for by an attempt of its command or of a      *)
(* task.retry of it.                                                        *)
NotifyBudget ==
    \A c \in Summaries :
        notified[c] <= MapThenSumSet(LAMBDA b : attempt[b],
            {b \in Commands : b = c \/ (Kind[b] = "retry" /\ Target[b] = c)})

(* What the repository's runbook asks: no second notification of a command. *)
NotifyOnce == \A c \in Summaries : notified[c] <= 1

(* The record of an occurrence is final, and so is the publication of its   *)
(* event, although serve() and checkpoint() tick at the same time with      *)
(* readings of the clock that may be old.                                   *)
OccurrenceIsDecidedOnce ==
    [][\A d \in Days : /\ checkpoint[d] # "NONE" => checkpoint'[d] = checkpoint[d]
                       /\ outbox[d] = "PUBLISHED" => outbox'[d] = "PUBLISHED"]_vars

(* No accepted command is left behind: in the end, across crashes and       *)
(* shutdowns, none is waiting or RUNNING.                                   *)
AcceptedEnds == <>[](\A c \in Commands : command[c] \notin {"ACCEPTED", "RUNNING"})

(* A service that was told to quiesce leaves its loop. *)
QuiescedEnds == job.pc # "down" /\ ~accepting ~> job.pc \in {"ended", "down"}

(* Nothing that was accepted and no shutdown that was asked for hangs.      *)
EverythingEnds == AcceptedEnds /\ QuiescedEnds
=============================================================================
