-------------------------------- MODULE Inbox --------------------------------
(***************************************************************************)
(* The transactional inbox consumer                                        *)
(* (active_agent_platform/events/inbox.py): consume() runs the database    *)
(* effects of one message and its inbox row in one transaction, retries a  *)
(* retryable failure a bounded number of times and buries what it cannot   *)
(* process.                                                                *)
(*                                                                         *)
(* One step of this module is one transaction or one in-memory step of a   *)
(* coroutine executing consume(); SQLiteDatabase serialises transactions,  *)
(* so a transaction is one step.  A coroutine may be interrupted at every  *)
(* await: its task is cancelled or the process dies, the rows stay.        *)
(*                                                                         *)
(* All messages belong to one consumer_id and pass the 64 KiB size guard.  *)
(***************************************************************************)
EXTENDS Naturals, FiniteSets

CONSTANTS
    Workers,        \* coroutines that may execute consume()
    Messages,       \* message instances (msg_id)
    NoMessage,      \* what an idle worker holds
    Key,            \* Key[m]: the business dedup_key of m, or NoKey
    NoKey,
    Exhausted,      \* messages an interrupted old version left with all attempts used
    MaxAttempts,    \* RetryPolicy.max_attempts
    MaxInterrupts   \* bound: cancellations and crashes of one behaviour

ASSUME InboxAssumption ==
    /\ NoMessage \notin Messages
    /\ MaxAttempts \in Nat \ {0}
    /\ MaxInterrupts \in Nat
    /\ Exhausted \subseteq Messages

VARIABLES
    inbox,        \* inbox[m]: the inbox_message row of m
    deadLetters,  \* number of dead_letter rows of m
    effects,      \* number of committed runs of the handler for m
    runs,         \* number of times the handler was started for m
    worker,       \* local state of each consume() call
    interrupts    \* interruptions so far

inboxVars == <<inbox, deadLetters, effects, runs, worker, interrupts>>

Terminal == {"DONE", "DEAD_LETTER"}
RowStatus == {"ABSENT", "RETRY_PENDING"} \cup Terminal
Row == [status : RowStatus, attempt : 0..MaxAttempts]
NoRow == [status |-> "ABSENT", attempt |-> 0]

Outcome == {"none", "PROCESSED", "DUPLICATE", "DEAD_LETTERED", "RAISED"}
Call == [pc : {"idle", "state", "attempt", "retry", "sleep", "bury"},
         msg : Messages \cup {NoMessage},
         attempt : 0..MaxAttempts,
         outcome : Outcome]

Idle == [pc |-> "idle", msg |-> NoMessage, attempt |-> 0, outcome |-> "none"]

At(pc, m, n) == [pc |-> pc, msg |-> m, attempt |-> n, outcome |-> "none"]

(* consume() returned to its caller, or raised out of it. *)
Returned(m, out) == [pc |-> "idle", msg |-> m, attempt |-> 0, outcome |-> out]

-----------------------------------------------------------------------------
(* Rows.  A lookup is by msg_id or by a dedup_key that is not null.        *)

SameScope(m, n) == n = m \/ (Key[m] # NoKey /\ Key[n] = Key[m])

Present(n) == inbox[n].status # "ABSENT"

Matching(m) == {n \in Messages : SameScope(m, n) /\ Present(n)}

(* A faulty lookup: by dedup_key alone. *)
SelectedByKey(m) ==
    LET found == {n \in Matching(m) : Key[m] # NoKey}
    IN IF found = {} THEN {NoRow} ELSE {inbox[n] : n \in found}

(* The row a SELECT ... LIMIT 1 for m returns, the empty row if there is none. *)
Selected(m) == IF Matching(m) = {} THEN {NoRow} ELSE {inbox[n] : n \in Matching(m)}

(* INSERT ... ON CONFLICT(consumer_id, msg_id) DO UPDATE handles a conflict *)
(* on the primary key only: a row of another message with the same          *)
(* dedup_key makes the unique index raise.                                  *)
CanUpsert(m) == Present(m) \/ Matching(m) = {}

-----------------------------------------------------------------------------
InboxInit ==
    /\ inbox = [m \in Messages |->
                   IF m \in Exhausted
                   THEN [status |-> "RETRY_PENDING", attempt |-> MaxAttempts]
                   ELSE NoRow]
    /\ deadLetters = [m \in Messages |-> 0]
    /\ effects = [m \in Messages |-> 0]
    /\ runs = [m \in Messages |-> 0]
    /\ worker = [w \in Workers |-> Idle]
    /\ interrupts = 0

(* consume(message, handler) is called: a delivery or a redelivery. *)
Begin(w, m) ==
    /\ worker[w].pc = "idle"
    /\ worker' = [worker EXCEPT ![w] = At("state", m, 0)]
    /\ UNCHANGED <<inbox, deadLetters, effects, runs, interrupts>>

(* _state(): a settled message is a duplicate; otherwise continue after the *)
(* recorded attempt, or bury a message whose attempts are all used.         *)
ReadState(w) ==
    LET m == worker[w].msg IN
    /\ worker[w].pc = "state"
    /\ \E row \in Selected(m) :
          worker' = [worker EXCEPT ![w] =
             IF row.status \in Terminal THEN Returned(m, "DUPLICATE")
             ELSE IF row.attempt < MaxAttempts THEN At("attempt", m, row.attempt + 1)
             ELSE At("bury", m, row.attempt)]
    /\ UNCHANGED <<inbox, deadLetters, effects, runs, interrupts>>

(* _run_attempt(): the message was settled since _state() looked. *)
AttemptDuplicate(w) ==
    LET m == worker[w].msg IN
    /\ worker[w].pc = "attempt"
    /\ \E row \in Selected(m) : row.status \in Terminal
    /\ worker' = [worker EXCEPT ![w] = Returned(m, "DUPLICATE")]
    /\ UNCHANGED <<inbox, deadLetters, effects, runs, interrupts>>

(* A faulty completion: the row keeps the status of a retry. *)
LeaveOpen(m, n) == [inbox EXCEPT ![m] = [status |-> "RETRY_PENDING", attempt |-> n]]

(* The row UPDATE ... WHERE msg_id = m touches: the message's own row, just *)
(* inserted when the lookup found none.  When the lookup found a row of     *)
(* another message with the same key the UPDATE touches nothing.            *)
MarkDone(m, n) ==
    IF CanUpsert(m)
    THEN [inbox EXCEPT ![m] = [status |-> "DONE", attempt |-> n]]
    ELSE inbox

(* A faulty attempt: it does not look whether the message was settled. *)
AttemptCommitsBlindly(w) ==
    LET m == worker[w].msg IN
    /\ worker[w].pc = "attempt"
    /\ runs' = [runs EXCEPT ![m] = @ + 1]
    /\ effects' = [effects EXCEPT ![m] = @ + 1]
    /\ inbox' = MarkDone(m, worker[w].attempt)
    /\ worker' = [worker EXCEPT ![w] = Returned(m, "PROCESSED")]
    /\ UNCHANGED <<deadLetters, interrupts>>

(* _run_attempt(): the handler's effects and the completion commit together. *)
AttemptCommits(w) ==
    LET m == worker[w].msg IN
    /\ worker[w].pc = "attempt"
    /\ \E row \in Selected(m) : row.status \notin Terminal
    /\ runs' = [runs EXCEPT ![m] = @ + 1]
    /\ effects' = [effects EXCEPT ![m] = @ + 1]
    /\ inbox' = MarkDone(m, worker[w].attempt)
    /\ worker' = [worker EXCEPT ![w] = Returned(m, "PROCESSED")]
    /\ UNCHANGED <<deadLetters, interrupts>>

(* _run_attempt(): the handler raises and the transaction rolls back; the   *)
(* classifier decides whether an attempt that is left may be used.          *)
AttemptFails(w) ==
    LET m == worker[w].msg
        n == worker[w].attempt
    IN
    /\ worker[w].pc = "attempt"
    /\ \E row \in Selected(m) : row.status \notin Terminal
    /\ runs' = [runs EXCEPT ![m] = @ + 1]
    /\ \E retryable \in BOOLEAN :
          worker' = [worker EXCEPT ![w] =
             IF retryable /\ n < MaxAttempts THEN At("retry", m, n) ELSE At("bury", m, n)]
    /\ UNCHANGED <<inbox, deadLetters, effects, interrupts>>

(* _record_retry() persists the failed attempt before the backoff. *)
RecordRetry(w) ==
    LET m == worker[w].msg
        n == worker[w].attempt
    IN
    /\ worker[w].pc = "retry"
    /\ IF CanUpsert(m)
       THEN /\ inbox' = [inbox EXCEPT ![m] = [status |-> "RETRY_PENDING", attempt |-> n]]
            /\ worker' = [worker EXCEPT ![w] = At("sleep", m, n)]
       ELSE /\ worker' = [worker EXCEPT ![w] = Returned(m, "RAISED")]
            /\ UNCHANGED inbox
    /\ UNCHANGED <<deadLetters, effects, runs, interrupts>>

(* The backoff ends and the loop takes the next attempt. *)
WakeUp(w) ==
    /\ worker[w].pc = "sleep"
    /\ worker' = [worker EXCEPT ![w] = At("attempt", worker[w].msg, worker[w].attempt + 1)]
    /\ UNCHANGED <<inbox, deadLetters, effects, runs, interrupts>>

(* _record_dead_letter(): the row and the dead letter commit together. *)
RecordDeadLetter(w) ==
    LET m == worker[w].msg
        n == worker[w].attempt
    IN
    /\ worker[w].pc = "bury"
    /\ IF CanUpsert(m)
       THEN /\ inbox' = [inbox EXCEPT ![m] = [status |-> "DEAD_LETTER", attempt |-> n]]
            /\ deadLetters' = [deadLetters EXCEPT ![m] = @ + 1]
            /\ worker' = [worker EXCEPT ![w] = Returned(m, "DEAD_LETTERED")]
       ELSE /\ worker' = [worker EXCEPT ![w] = Returned(m, "RAISED")]
            /\ UNCHANGED <<inbox, deadLetters>>
    /\ UNCHANGED <<effects, runs, interrupts>>

(* The call is cancelled at an await, or the process dies; the transaction  *)
(* of a handler that was running rolls back.                                *)
Interrupt(w) ==
    /\ worker[w].pc # "idle"
    /\ interrupts < MaxInterrupts
    /\ interrupts' = interrupts + 1
    /\ worker' = [worker EXCEPT ![w] = Idle]
    /\ \/ UNCHANGED runs
       \/ /\ worker[w].pc = "attempt"
          /\ \E row \in Selected(worker[w].msg) : row.status \notin Terminal
          /\ runs' = [runs EXCEPT ![worker[w].msg] = @ + 1]
    /\ UNCHANGED <<inbox, deadLetters, effects>>

Continue(w) ==
    \/ ReadState(w)
    \/ AttemptDuplicate(w)
    \/ AttemptCommits(w)
    \/ AttemptFails(w)
    \/ RecordRetry(w)
    \/ WakeUp(w)
    \/ RecordDeadLetter(w)

InboxNext == \E w \in Workers : (\E m \in Messages : Begin(w, m)) \/ Continue(w) \/ Interrupt(w)

InboxSpec == InboxInit /\ [][InboxNext]_inboxVars

-----------------------------------------------------------------------------
(* Properties                                                              *)

TypeOK ==
    /\ inbox \in [Messages -> Row]
    /\ deadLetters \in [Messages -> Nat]
    /\ effects \in [Messages -> Nat]
    /\ runs \in [Messages -> Nat]
    /\ worker \in [Workers -> Call]
    /\ interrupts \in 0..MaxInterrupts

(* The effects of a message are committed at most once, whatever failures, *)
(* interruptions and redeliveries happen; messages of one dedup_key share   *)
(* that single effect.                                                      *)
EffectAtMostOnce ==
    \A m \in Messages :
        /\ effects[m] <= 1
        /\ \A n \in Messages \ {m} :
              SameScope(m, n) /\ effects[m] > 0 => effects[n] = 0

(* Effects and completion are one transaction: the effects of a message are *)
(* there exactly when its row says DONE.                                    *)
AtomicCompletion ==
    \A m \in Messages : effects[m] > 0 <=> inbox[m].status = "DONE"

(* A buried message has exactly one dead letter and left no effect. *)
BuriedCleanly ==
    \A m \in Messages :
        /\ inbox[m].status = "DEAD_LETTER" => effects[m] = 0 /\ deadLetters[m] = 1
        /\ inbox[m].status # "DEAD_LETTER" => deadLetters[m] = 0

(* The handler runs at most max_attempts times for a message, plus once for *)
(* every interruption that kept a failed attempt from being recorded.       *)
RetryBudget == \A m \in Messages : runs[m] <= MaxAttempts + interrupts

(* The account of a consumer with one caller: effects and completion are   *)
(* one, a message is buried once and cleanly, its handler runs within its  *)
(* budget.                                                                 *)
ConsumptionIsSound == EffectAtMostOnce /\ AtomicCompletion /\ BuriedCleanly /\ RetryBudget

(* No step takes a settled message back: not a redelivery, not a late retry *)
(* record of an older call.                                                 *)
SettledIsFinal ==
    [][\A m \in Messages : inbox[m].status \in Terminal => inbox'[m] = inbox[m]]_inboxVars
=============================================================================
