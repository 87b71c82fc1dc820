------------------------------ MODULE EventBus -------------------------------
(***************************************************************************)
(* The in-process event bus (active_agent_platform/events/bus.py) and its  *)
(* bounded subscriptions (events/subscription.py).                         *)
(*                                                                         *)
(* publish() serialises publishers with a FIFO lock and offers the message *)
(* to every accepting subscription in a task of its own; a full queue         *)
(* drops, rejects or makes the offer wait with a timeout.  A step ends at  *)
(* an await: entering publish(), taking the lock, one offer, one wake-up,  *)
(* one get().  BusMessages pass the schema and field checks of publish().     *)
(***************************************************************************)
EXTENDS Naturals, Sequences, SequencesExt

CONSTANTS
    Publishers,   \* coroutines that call publish()
    Outgoing,     \* Outgoing[p]: the messages p has to publish
    Subs,         \* subscriptions
    BusMessages,
    SourceOf,       \* SourceOf[m]
    Priority,     \* Priority[m]
    Wants,        \* Wants[s]: messages of s's types that satisfy its predicate
    Capacity,     \* Capacity[s]
    Policy,       \* Policy[s]: overflow_policy
    Coalesce,     \* Coalesce[s][m]: coalesce_key(m), or NoCoalesceKey
    NoCoalesceKey,
    NoBusMessage

ASSUME EventBusAssumption ==
    /\ NoBusMessage \notin BusMessages
    /\ \A p \in Publishers : Outgoing[p] \subseteq BusMessages
    /\ Priority \in [BusMessages -> Nat]
    /\ \A s \in Subs : Capacity[s] \in Nat \ {0}
    /\ \A s \in Subs : Policy[s] \in {"WAIT", "REJECT", "DROP", "COALESCE"}

VARIABLES
    busAccepting, \* EventBus._accepting
    subscribed,   \* EventBus._subscriptions
    closed,       \* subscriptions with _closed set
    queue,        \* queue[s]: Subscription._entries
    lock,         \* publishers holding (the head) or waiting for the lock
    sending,      \* sending[p]: the message of p's publish() call
    offer,        \* offer[s]: state of the offer task of the current publish()
    called,       \* messages in the order publish() was entered
    fate,         \* fate[s][m]: what was reported of m at s
    taken         \* taken[s]: messages get() returned

busVars == <<busAccepting, subscribed, closed, queue, lock, sending, offer, called, fate, taken>>

DeliveryOutcome == {"ENQUEUED", "COALESCED", "FILTERED", "DROPPED", "REJECTED", "CLOSED"}
Entry == [msg : BusMessages, key : {Coalesce[s][m] : s \in Subs, m \in BusMessages}]

Holder == Head(lock)
Current == sending[Holder]
Full(s) == Len(queue[s]) >= Capacity[s]

EntryOf(s, m) == [msg |-> m, key |-> Coalesce[s][m]]

(* _coalesced_entries.get(coalesce_key(m)): positions of the waiting entry. *)
Coalescible(s, m) ==
    {i \in DOMAIN queue[s] : Coalesce[s][m] # NoCoalesceKey /\ queue[s][i].key = Coalesce[s][m]}

(* _select_next_entry(): the first entry of each source, of those the one   *)
(* with the highest priority, of those the oldest.                          *)
FirstOfSource(s) ==
    {i \in DOMAIN queue[s] :
        \A j \in 1..(i - 1) : SourceOf[queue[s][j].msg] # SourceOf[queue[s][i].msg]}

NextEntry(s) ==
    CHOOSE i \in FirstOfSource(s) :
        \A j \in FirstOfSource(s) :
            LET p == Priority[queue[s][i].msg]
                q == Priority[queue[s][j].msg]
            IN p > q \/ (p = q /\ i <= j)

-----------------------------------------------------------------------------
BusInit ==
    /\ busAccepting = TRUE
    /\ subscribed = Subs
    /\ closed = {}
    /\ queue = [s \in Subs |-> <<>>]
    /\ lock = <<>>
    /\ sending = [p \in Publishers |-> NoBusMessage]
    /\ offer = [s \in Subs |-> "none"]
    /\ called = <<>>
    /\ fate = [s \in Subs |-> [m \in BusMessages |-> "none"]]
    /\ taken = [s \in Subs |-> <<>>]

(* publish(m): refused outright unless the bus accepts, else queued for the *)
(* lock.                                                                    *)
Publish(p, m) ==
    /\ busAccepting
    /\ sending[p] = NoBusMessage
    /\ ~Contains(called, m)
    /\ sending' = [sending EXCEPT ![p] = m]
    /\ lock' = Append(lock, p)
    /\ called' = Append(called, m)
    /\ UNCHANGED <<busAccepting, subscribed, closed, queue, offer, fate, taken>>

(* The lock is taken: the subscriptions of this moment are asked whether    *)
(* they accept; one whose predicate raises is reported REJECTED, the others *)
(* that accept get an offer task.                                           *)
FanOut ==
    LET asked(s) == s \in subscribed
        wanted(s) == Current \in Wants[s]
    IN
    /\ lock # <<>>
    /\ \A s \in Subs : offer[s] = "none"
    /\ \E raising \in SUBSET {s \in Subs : asked(s) /\ wanted(s)} :
          /\ fate' = [s \in Subs |->
                IF s \in raising THEN [fate[s] EXCEPT ![Current] = "REJECTED"]
                ELSE IF asked(s) /\ ~wanted(s) THEN [fate[s] EXCEPT ![Current] = "FILTERED"]
                ELSE fate[s]]
          /\ offer' = [s \in Subs |->
                IF asked(s) /\ wanted(s) /\ s \notin raising THEN "offered" ELSE "skipped"]
    /\ UNCHANGED <<busAccepting, subscribed, closed, queue, lock, sending, called, taken>>

Report(s, outcome) ==
    /\ offer' = [offer EXCEPT ![s] = "reported"]
    /\ fate' = [fate EXCEPT ![s][Current] = outcome]

OfferClosed(s) ==
    /\ offer[s] = "offered"
    /\ s \in closed
    /\ Report(s, "CLOSED")
    /\ UNCHANGED <<busAccepting, subscribed, closed, queue, lock, sending, called, taken>>

(* A waiting entry with the same key is given the new message in place. *)
OfferCoalesced(s) ==
    /\ offer[s] = "offered"
    /\ s \notin closed
    /\ \E i \in Coalescible(s, Current) : queue' = [queue EXCEPT ![s][i].msg = Current]
    /\ Report(s, "COALESCED")
    /\ UNCHANGED <<busAccepting, subscribed, closed, lock, sending, called, taken>>

(* _handle_full_queue(): drop, reject, or wait. *)
OfferFull(s) ==
    /\ offer[s] = "offered"
    /\ s \notin closed
    /\ Coalescible(s, Current) = {}
    /\ Full(s)
    /\ CASE Policy[s] = "DROP" -> Report(s, "DROPPED")
         [] Policy[s] \in {"REJECT", "COALESCE"} -> Report(s, "REJECTED")
         [] Policy[s] = "WAIT" -> offer' = [offer EXCEPT ![s] = "waiting"] /\ UNCHANGED fate
    /\ UNCHANGED <<busAccepting, subscribed, closed, queue, lock, sending, called, taken>>

Enqueue(s) ==
    /\ queue' = [queue EXCEPT ![s] = Append(@, EntryOf(s, Current))]
    /\ Report(s, "ENQUEUED")

OfferEnqueued(s) ==
    /\ offer[s] = "offered"
    /\ s \notin closed
    /\ Coalescible(s, Current) = {}
    /\ ~Full(s)
    /\ Enqueue(s)
    /\ UNCHANGED <<busAccepting, subscribed, closed, lock, sending, called, taken>>

(* A faulty end of a wait: without another look at _closed. *)
ResumeThoughClosed(s) ==
    /\ offer[s] = "waiting"
    /\ s \in closed \/ ~Full(s)
    /\ Enqueue(s)
    /\ UNCHANGED <<busAccepting, subscribed, closed, lock, sending, called, taken>>

(* The condition a waiting offer waits for holds: closed, or room. *)
Resume(s) ==
    /\ offer[s] = "waiting"
    /\ \/ /\ s \in closed
          /\ Report(s, "CLOSED")
          /\ UNCHANGED queue
       \/ /\ s \notin closed
          /\ ~Full(s)
          /\ Enqueue(s)
    /\ UNCHANGED <<busAccepting, subscribed, closed, lock, sending, called, taken>>

(* A faulty timeout: the entry stays behind when room was just made. *)
TimeoutLeavesEntry(s) ==
    /\ offer[s] = "waiting"
    /\ queue' = IF Full(s) THEN queue ELSE [queue EXCEPT ![s] = Append(@, EntryOf(s, Current))]
    /\ Report(s, "REJECTED")
    /\ UNCHANGED <<busAccepting, subscribed, closed, lock, sending, called, taken>>

(* wait_timeout_seconds is over, whether or not room was just made. *)
Timeout(s) ==
    /\ offer[s] = "waiting"
    /\ Report(s, "REJECTED")
    /\ UNCHANGED <<busAccepting, subscribed, closed, queue, lock, sending, called, taken>>

(* Every task is done: publish() returns its report and frees the lock. *)
Return ==
    /\ lock # <<>>
    /\ \A s \in Subs : offer[s] \in {"skipped", "reported"}
    /\ offer' = [s \in Subs |-> "none"]
    /\ sending' = [sending EXCEPT ![Holder] = NoBusMessage]
    /\ lock' = Tail(lock)
    /\ UNCHANGED <<busAccepting, subscribed, closed, queue, called, fate, taken>>

(* The task in publish() is cancelled: it leaves the lock, and the offers    *)
(* gather() still waits for are cancelled with it.                          *)
Cancel(p) ==
    /\ sending[p] # NoBusMessage
    /\ sending' = [sending EXCEPT ![p] = NoBusMessage]
    /\ \E i \in DOMAIN lock : lock[i] = p /\ lock' = RemoveAt(lock, i)
    /\ offer' = IF p = Holder THEN [s \in Subs |-> "none"] ELSE offer
    /\ UNCHANGED <<busAccepting, subscribed, closed, queue, called, fate, taken>>

(* get() of the subscription's consumer; a closed queue is drained first. *)
Get(s) ==
    /\ queue[s] # <<>>
    /\ taken' = [taken EXCEPT ![s] = Append(@, queue[s][NextEntry(s)].msg)]
    /\ queue' = [queue EXCEPT ![s] = RemoveAt(@, NextEntry(s))]
    /\ UNCHANGED <<busAccepting, subscribed, closed, lock, sending, offer, called, fate>>

Unsubscribe(s) ==
    /\ s \in subscribed
    /\ subscribed' = subscribed \ {s}
    /\ closed' = closed \cup {s}
    /\ UNCHANGED <<busAccepting, queue, lock, sending, offer, called, fate, taken>>

Quiesce ==
    /\ busAccepting
    /\ busAccepting' = FALSE
    /\ UNCHANGED <<subscribed, closed, queue, lock, sending, offer, called, fate, taken>>

Stop ==
    /\ ~ (subscribed \subseteq closed)
    /\ busAccepting' = FALSE
    /\ closed' = closed \cup subscribed
    /\ UNCHANGED <<subscribed, queue, lock, sending, offer, called, fate, taken>>

Offer(s) ==
    \/ OfferClosed(s) \/ OfferCoalesced(s) \/ OfferFull(s) \/ OfferEnqueued(s)
    \/ Resume(s) \/ Timeout(s)

BusNext ==
    \/ \E p \in Publishers : \E m \in Outgoing[p] : Publish(p, m)
    \/ \E p \in Publishers : Cancel(p)
    \/ FanOut
    \/ Return
    \/ \E s \in Subs : Offer(s) \/ Get(s) \/ Unsubscribe(s)
    \/ Quiesce
    \/ Stop

(* The event loop runs the publisher and its offer tasks, and a wait ends    *)
(* at its timeout.  Nothing is assumed of consumers: they may never call    *)
(* get().                                                                   *)
BusFairness ==
    /\ WF_busVars(FanOut)
    /\ WF_busVars(Return)
    /\ \A s \in Subs : WF_busVars(Offer(s))

BusSpec == BusInit /\ [][BusNext]_busVars /\ BusFairness

-----------------------------------------------------------------------------
BusTypeOK ==
    /\ busAccepting \in BOOLEAN
    /\ subscribed \subseteq Subs
    /\ closed \subseteq Subs
    /\ queue \in [Subs -> Seq(Entry)]
    /\ lock \in Seq(Publishers)
    /\ sending \in [Publishers -> BusMessages \cup {NoBusMessage}]
    /\ offer \in [Subs -> {"none", "skipped", "offered", "waiting", "reported"}]
    /\ called \in Seq(BusMessages)
    /\ fate \in [Subs -> [BusMessages -> DeliveryOutcome \cup {"none"}]]
    /\ taken \in [Subs -> Seq(BusMessages)]

(* No queue outgrows its capacity, also when a wait ends as others publish. *)
Bounded == \A s \in Subs : Len(queue[s]) <= Capacity[s]

CalledBefore(m, n) ==
    \E i, j \in DOMAIN called : i < j /\ called[i] = m /\ called[j] = n

(* The consumer of a queue that does not coalesce sees the messages of one   *)
(* source in the order they were published, whatever their priorities and   *)
(* however publishers interleave.                                           *)
SourceOrder ==
    \A s \in Subs : \A i, j \in DOMAIN taken[s] :
        (\A m \in BusMessages : Coalesce[s][m] = NoCoalesceKey) /\ i < j /\ SourceOf[taken[s][i]] = SourceOf[taken[s][j]]
            => CalledBefore(taken[s][i], taken[s][j])

Waiting(s) == {queue[s][i].msg : i \in DOMAIN queue[s]}

(* The report is the truth about the queue: a message reported ENQUEUED or   *)
(* COALESCED is waiting, was taken, or gave way to a later message of its   *)
(* key; a message reported otherwise never reaches the consumer, so the     *)
(* relay that publishes it again does not duplicate it here.                *)
HonestReport ==
    \A s \in Subs, m \in BusMessages :
        LET present == m \in Waiting(s) \cup ToSet(taken[s])
        IN  IF fate[s][m] \in {"ENQUEUED", "COALESCED"}
            THEN present \/ \E n \in BusMessages :
                    /\ fate[s][n] = "COALESCED"
                    /\ Coalesce[s][n] = Coalesce[s][m]
                    /\ CalledBefore(m, n)
            ELSE ~present

(* Coalescing keeps the latest message of a key, never an older one. *)
LatestKept ==
    \A s \in Subs : \A i \in DOMAIN queue[s], m \in BusMessages :
        /\ queue[s][i].key # NoCoalesceKey
        /\ Coalesce[s][m] = queue[s][i].key
        /\ fate[s][m] \in {"ENQUEUED", "COALESCED"}
        /\ m # queue[s][i].msg
        => CalledBefore(m, queue[s][i].msg)

(* The bus keeps its bounds, the order of every source and the latest of   *)
(* every key, and reports the truth, at the same time.                     *)
BusIsSound == BusTypeOK /\ Bounded /\ SourceOrder /\ HonestReport /\ LatestKept

(* No offer gets into a queue once it is closed, not even one that was       *)
(* waiting for room when it closed.                                         *)
ClosedTakesNothing ==
    [][\A s \in closed : Len(queue'[s]) <= Len(queue[s])]_busVars

(* Every publish() returns although a queue stays full and its consumer     *)
(* never calls get(): no slow subscriber holds up the bus for ever.         *)
PublishReturns ==
    \A p \in Publishers : sending[p] # NoBusMessage ~> sending[p] = NoBusMessage

(* A publisher is always let go, and never by way of a closed queue.        *)
PublishersAreReleased == ClosedTakesNothing /\ PublishReturns
=============================================================================
