---------------------------- MODULE EventDelivery ----------------------------
(***************************************************************************)
(* The durable event path of the runnable agent                            *)
(* (apps/quant_agent/runtime.py): the outbox relay publishes into          *)
(* _CommandPublisher, which runs the inbox consumer and turns its result   *)
(* into the acknowledgement the relay waits for.  The relay is the only    *)
(* caller of the consumer, so the consumer's calls are the relay's pass.   *)
(***************************************************************************)
EXTENDS Inbox, Sequences

CONSTANTS
    Source,        \* Source[e]: the source of e
    BatchSize      \* OutboxRelay.batch_size

Serve == "serve"

ASSUME EventDeliveryAssumption ==
    /\ Workers = {Serve}
    /\ BatchSize \in Nat \ {0}

VARIABLES outbox, order, pass, accepting, stopping, failures, stops

(* A dead letter refuses its event once, so this many refusals never bind; *)
(* a crash stops the relay and interrupts its consumer.                    *)
O == INSTANCE Outbox WITH
        Events <- Messages, Passes <- Workers,
        MaxFailures <- Cardinality(Messages), MaxStops <- MaxInterrupts

relayVars == <<outbox, order, pass, accepting, stopping, failures, stops>>
pathVars == <<relayVars, inboxVars>>

-----------------------------------------------------------------------------
PathInit == O!Init /\ InboxInit

(* The relay alone moves: the domain appends, time passes, lifecycle calls, *)
(* the batch is read, a row is confirmed or deferred.                       *)
OutboxStep ==
    /\ \/ \E e \in Messages : O!AppendEvent(e) \/ O!Elapse(e)
       \/ O!Start \/ O!Quiesce \/ O!Stop
       \/ O!Select(Serve) \/ O!Confirm(Serve) \/ O!Defer(Serve)
    /\ UNCHANGED inboxVars

(* publish(message) calls consume(command, accept). *)
Deliver ==
    /\ O!Publish(Serve)
    /\ Begin(Serve, Head(pass[Serve].batch))

(* consume() advances inside the publisher. *)
Consume ==
    /\ Continue(Serve)
    /\ UNCHANGED relayVars

ConsumerReturned(outcomes) ==
    /\ worker[Serve].pc = "idle"
    /\ worker[Serve].outcome \in outcomes

(* A faulty publisher: it reports before the consumer has returned. *)
ReportAtOnce ==
    /\ O!Acknowledged(Serve)
    /\ UNCHANGED inboxVars

(* PROCESSED and DUPLICATE are reported as ENQUEUED. *)
ReportEnqueued ==
    /\ ConsumerReturned({"PROCESSED", "DUPLICATE"})
    /\ O!Acknowledged(Serve)
    /\ UNCHANGED inboxVars

(* DEAD_LETTERED is reported as REJECTED; an exception passes through. *)
ReportRejected ==
    /\ ConsumerReturned({"DEAD_LETTERED", "RAISED"})
    /\ O!Refused(Serve)
    /\ UNCHANGED inboxVars

(* The process dies: the relay's pass and the call it made are gone. *)
Crash ==
    /\ O!Crash
    /\ IF worker[Serve].pc = "idle"
       THEN UNCHANGED inboxVars
       ELSE Interrupt(Serve)

PassStep == OutboxStep \/ Deliver \/ Consume \/ ReportEnqueued \/ ReportRejected

PathNext == PassStep \/ Crash

(* As for the relay alone; the consumer runs inside the relay's pass. *)
RelayStep ==
    \/ O!Select(Serve) /\ UNCHANGED inboxVars
    \/ O!Confirm(Serve) /\ UNCHANGED inboxVars
    \/ O!Defer(Serve) /\ UNCHANGED inboxVars
    \/ Deliver
    \/ Consume
    \/ ReportEnqueued
    \/ ReportRejected

PathFairness ==
    /\ WF_pathVars(O!Start /\ UNCHANGED inboxVars)
    /\ \A e \in Messages : WF_pathVars(O!Elapse(e) /\ UNCHANGED inboxVars)
    /\ WF_pathVars(RelayStep)

PathSpec == PathInit /\ [][PathNext]_pathVars /\ PathFairness

-----------------------------------------------------------------------------
(* What became of an event. *)
Fate ==
    [e \in Messages |->
        CASE inbox[e].status = "DONE" -> "applied"
          [] inbox[e].status = "DEAD_LETTER" -> "buried"
          [] OTHER -> IF outbox[e].state = "ABSENT" THEN "unknown" ELSE "pending"]

Published == {e \in Messages : outbox[e].state = "PUBLISHED"}

(* The promise of the path: applied once or buried, in source order,       *)
(* acknowledged only afterwards, and all of it in the end.                  *)
Delivery == INSTANCE ReliableDelivery WITH
    Events <- Messages, fate <- Fate, recorded <- order, acknowledged <- Published

(* The event path implements reliable delivery, across crashes, stops,      *)
(* handler failures and redeliveries.                                       *)
ImplementsDelivery == Delivery!Spec

=============================================================================
