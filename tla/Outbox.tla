------------------------------- MODULE Outbox --------------------------------
(***************************************************************************)
(* The transactional outbox (active_agent_platform/events/outbox.py): a    *)
(* writer appends an event in the transaction of the fact it reports, a    *)
(* relay publishes due events and confirms or defers each of them.         *)
(*                                                                         *)
(* publish_due() may be entered by the serve() loop and by checkpoint(), so *)
(* passes may interleave; every transaction and every await is a step.     *)
(* The publisher is a parameter of the relay: in EventDelivery it is the    *)
(* inbox consumer.  created_at and event_id order the rows as they were    *)
(* appended.  The clock is abstracted to whether next_attempt_at has       *)
(* passed.                                                                 *)
(***************************************************************************)
EXTENDS Naturals, Sequences, FiniteSets

CONSTANTS
    Events,        \* events a domain transaction may append (event_id)
    Passes,        \* coroutines that may execute publish_due()
    BatchSize,     \* OutboxRelay.batch_size
    MaxFailures,   \* bound: deliveries that are not acknowledged
    MaxStops       \* bound: crashes and stops of one behaviour

VARIABLES
    outbox,      \* outbox[e]: the outbox_event row of e
    order,       \* the appended events, ORDER BY created_at, event_id
    pass,        \* local state of each publish_due() call
    accepting,   \* OutboxRelay._accepting
    stopping,    \* OutboxRelay._stopping is set, or the relay is not running
    failures,    \* deliveries that were not acknowledged
    stops        \* crashes and stops so far

outboxVars == <<outbox, order, pass, accepting, stopping, failures, stops>>

Resting == [pc |-> "idle", batch |-> <<>>]

(* The next row of the batch, or the end of the pass. *)
Rest(p) == LET rest == Tail(pass[p].batch)
           IN [pc |-> IF rest = <<>> THEN "idle" ELSE "publish", batch |-> rest]

DuePending(e) == outbox[e].state = "PENDING" /\ outbox[e].due

(* e stands before f in ORDER BY created_at, event_id. *)
Before(e, f) == \E i, j \in DOMAIN order : i < j /\ order[i] = e /\ order[j] = f

(* SELECT ... WHERE PENDING AND due ORDER BY created_at, event_id LIMIT n:  *)
(* due rows in their order, and what is left out comes after the limit.     *)
IsDueBatch(batch) ==
    /\ \A i \in DOMAIN batch : DuePending(batch[i])
    /\ \A i, j \in DOMAIN batch : i < j => Before(batch[i], batch[j])
    /\ \A e \in Events : DuePending(e) =>
          \/ \E i \in DOMAIN batch : batch[i] = e
          \/ Len(batch) = BatchSize /\ \A i \in DOMAIN batch : Before(batch[i], e)

-----------------------------------------------------------------------------
Init ==
    /\ outbox = [e \in Events |-> [state |-> "ABSENT", due |-> FALSE]]
    /\ order = <<>>
    /\ pass = [p \in Passes |-> Resting]
    /\ accepting = FALSE
    /\ stopping = TRUE
    /\ failures = 0
    /\ stops = 0

(* OutboxWriter.append() in a domain transaction that commits. *)
AppendEvent(e) ==
    /\ outbox[e].state = "ABSENT"
    /\ outbox' = [outbox EXCEPT ![e] = [state |-> "PENDING", due |-> TRUE]]
    /\ order' = Append(order, e)
    /\ UNCHANGED <<pass, accepting, stopping, failures, stops>>

(* The clock passes next_attempt_at of a deferred event. *)
Elapse(e) ==
    /\ outbox[e].state = "PENDING"
    /\ ~outbox[e].due
    /\ outbox' = [outbox EXCEPT ![e].due = TRUE]
    /\ UNCHANGED <<order, pass, accepting, stopping, failures, stops>>

Start ==
    /\ stopping
    /\ \A p \in Passes : pass[p] = Resting
    /\ accepting' = TRUE
    /\ stopping' = FALSE
    /\ UNCHANGED <<outbox, order, pass, failures, stops>>

Quiesce ==
    /\ accepting
    /\ accepting' = FALSE
    /\ UNCHANGED <<outbox, order, pass, stopping, failures, stops>>

(* stop() sets the flags; a pass in flight runs to the end of its batch. *)
Stop ==
    /\ ~stopping
    /\ stops < MaxStops
    /\ stops' = stops + 1
    /\ accepting' = FALSE
    /\ stopping' = TRUE
    /\ UNCHANGED <<outbox, order, pass, failures>>

(* The process dies, or the tasks of the relay are cancelled. *)
Crash ==
    /\ stops < MaxStops
    /\ stops' = stops + 1
    /\ accepting' = FALSE
    /\ stopping' = TRUE
    /\ pass' = [p \in Passes |-> Resting]
    /\ UNCHANGED <<outbox, order, failures>>

(* publish_due() reads one batch: serve() loops until it is stopped,        *)
(* checkpoint() publishes only while the relay is accepting.                *)
Select(p) ==
    /\ pass[p] = Resting
    /\ IF p = "serve" THEN ~stopping ELSE accepting
    /\ \E n \in 1..BatchSize : \E batch \in [1..n -> Events] :
          /\ IsDueBatch(batch)
          /\ pass' = [pass EXCEPT ![p] = [pc |-> "publish", batch |-> batch]]
    /\ UNCHANGED <<outbox, order, accepting, stopping, failures, stops>>

(* The row is decoded and handed to the publisher. *)
Publish(p) ==
    /\ pass[p].pc = "publish"
    /\ pass' = [pass EXCEPT ![p].pc = "waiting"]
    /\ UNCHANGED <<outbox, order, accepting, stopping, failures, stops>>

(* No delivery of the report was rejected, dropped or closed. *)
Acknowledged(p) ==
    /\ pass[p].pc = "waiting"
    /\ pass' = [pass EXCEPT ![p].pc = "confirm"]
    /\ UNCHANGED <<outbox, order, accepting, stopping, failures, stops>>

(* The publisher raised, or a delivery was not acknowledged. *)
Refused(p) ==
    /\ pass[p].pc = "waiting"
    /\ failures < MaxFailures
    /\ failures' = failures + 1
    /\ pass' = [pass EXCEPT ![p].pc = "defer"]
    /\ UNCHANGED <<outbox, order, accepting, stopping, stops>>

(* _confirm(): UPDATE ... WHERE publish_state = PENDING. *)
Confirm(p) ==
    LET e == Head(pass[p].batch) IN
    /\ pass[p].pc = "confirm"
    /\ outbox' = [outbox EXCEPT ![e] =
                     IF @.state = "PENDING" THEN [state |-> "PUBLISHED", due |-> TRUE] ELSE @]
    /\ pass' = [pass EXCEPT ![p] = Rest(p)]
    /\ UNCHANGED <<order, accepting, stopping, failures, stops>>

(* _defer(): next_attempt_at moves into the future, WHERE still PENDING. *)
Defer(p) ==
    LET e == Head(pass[p].batch) IN
    /\ pass[p].pc = "defer"
    /\ outbox' = [outbox EXCEPT ![e].due = (@ /\ outbox[e].state # "PENDING")]
    /\ pass' = [pass EXCEPT ![p] = Rest(p)]
    /\ UNCHANGED <<order, accepting, stopping, failures, stops>>
=============================================================================
