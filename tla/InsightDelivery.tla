---------------------------- MODULE InsightDelivery ----------------------------
(***************************************************************************)
(* Delivery of insights to one subscription (delivery.py), by the service  *)
(* and by the command line, which are two processes on one database.       *)
(*                                                                         *)
(* deliver() reads the subscription, an earlier delivery, the clock and    *)
(* the deliveries of the last hour one after the other, and inserts in a   *)
(* transaction of its own.                                                 *)
(***************************************************************************)
EXTENDS Naturals, FiniteSets

CONSTANTS
    Insights, Deliverers, Channels,
    HourlyLimit, Hour,       \* the limit, and an hour in ticks of the clock
    QuietTicks,              \* the ticks that are quiet hours
    DeliveryHorizon          \* bound: the clock

ASSUME DeliveryAssumption ==
    /\ HourlyLimit \in Nat \ {0} /\ {Hour, DeliveryHorizon} \subseteq Nat
    /\ QuietTicks \subseteq Nat /\ IsFiniteSet(Deliverers)

VARIABLES
    subscription,    \* the row of insight_subscription: [channel, enabled]
    delivered,       \* the rows of insight_delivery: [insight, channel, at, read]
    calls,           \* what a deliverer has in hand
    deliveryClock,
    afterwards       \* history: deliveries since the subscription was disabled

deliveryVars == <<subscription, delivered, calls, deliveryClock, afterwards>>

NoDelivery == [pc |-> "idle"]

DeliveryInit ==
    /\ subscription \in [channel : Channels, enabled : {TRUE}]
    /\ delivered = {} /\ deliveryClock = 0 /\ afterwards = 0
    /\ calls = [d \in Deliverers |-> NoDelivery]

DeliveryTick ==
    /\ deliveryClock < DeliveryHorizon
    /\ deliveryClock' = deliveryClock + 1
    /\ UNCHANGED <<subscription, delivered, calls, afterwards>>

\* subscribe() enables the row again and may change its channel
Subscribe ==
    /\ \E c \in Channels : subscription' = [channel |-> c, enabled |-> TRUE]
    /\ afterwards' = 0
    /\ UNCHANGED <<delivered, calls, deliveryClock>>

SetEnabled(enabled) ==
    /\ subscription.enabled # enabled
    /\ subscription' = [subscription EXCEPT !.enabled = enabled]
    /\ afterwards' = 0
    /\ UNCHANGED <<delivered, calls, deliveryClock>>

MarkRead ==
    /\ \E r \in delivered : ~ r.read /\ delivered' = (delivered \ {r}) \cup {[r EXCEPT !.read = TRUE]}
    /\ UNCHANGED <<subscription, calls, deliveryClock, afterwards>>

Deliver(d) ==
    /\ calls[d].pc = "idle" /\ subscription.enabled
    /\ \E i \in Insights :
          calls' = [calls EXCEPT ![d] = [pc |-> "existing", insight |-> i, channel |-> subscription.channel]]
    /\ UNCHANGED <<subscription, delivered, deliveryClock, afterwards>>

Delivers(insight, channel) == \E r \in delivered : r.insight = insight /\ r.channel = channel

\* A duplicate, a low level and the quiet hours end the call; otherwise it keeps its moment
CheckExisting(d) ==
    LET c == calls[d] IN
    /\ c.pc = "existing"
    /\ calls' = [calls EXCEPT ![d] =
          IF Delivers(c.insight, c.channel) \/ deliveryClock \in QuietTicks THEN NoDelivery
          ELSE [pc |-> "count", insight |-> c.insight, channel |-> c.channel, now |-> deliveryClock]]
    /\ UNCHANGED <<subscription, delivered, deliveryClock, afterwards>>

(* A faulty count: what has been read is forgotten.                        *)
UnreadLastHour(now) == {r \in delivered : r.at + Hour >= now /\ ~ r.read}
LastHour(now) == {r \in delivered : r.at + Hour >= now}

CheckRate(d) ==
    /\ calls[d].pc = "count"
    /\ calls' = [calls EXCEPT ![d] =
          IF Cardinality(LastHour(calls[d].now)) >= HourlyLimit THEN NoDelivery
          ELSE [calls[d] EXCEPT !.pc = "insert"]]
    /\ UNCHANGED <<subscription, delivered, deliveryClock, afterwards>>

\* The key of subscription, insight and channel refuses what another call was first to insert
InsertDelivery(d) ==
    LET c == calls[d]
        taken == Delivers(c.insight, c.channel)
    IN  /\ c.pc = "insert"
        /\ delivered' = IF taken THEN delivered
                        ELSE delivered \cup {[insight |-> c.insight, channel |-> c.channel,
                                              at |-> c.now, read |-> FALSE]}
        /\ afterwards' = IF taken \/ subscription.enabled THEN afterwards ELSE afterwards + 1
        /\ calls' = [calls EXCEPT ![d] = NoDelivery]
        /\ UNCHANGED <<subscription, deliveryClock>>

DeliveryNext ==
    \/ \E d \in Deliverers : Deliver(d) \/ CheckExisting(d) \/ CheckRate(d) \/ InsertDelivery(d)
    \/ \E e \in BOOLEAN : SetEnabled(e)
    \/ Subscribe \/ MarkRead \/ DeliveryTick

DeliverySpec == DeliveryInit /\ [][DeliveryNext]_deliveryVars

(* Deliverers that count at the same time may exceed the limit of an hour  *)
(* by one each but the first, and never by more, read or unread, whatever  *)
(* the channel; and what is still delivered after the subscription was     *)
(* disabled are the calls that were already past their first read.         *)
RateIsKept ==
    /\ \A t \in 0..DeliveryHorizon :
          Cardinality({r \in delivered : r.at \in t..(t + Hour)}) <= HourlyLimit + Cardinality(Deliverers) - 1
    /\ afterwards <= Cardinality(Deliverers)
=============================================================================
