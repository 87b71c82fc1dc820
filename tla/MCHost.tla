-------------------------------- MODULE MCHost --------------------------------
(* Instances of the parts of the host for TLC: the durable event path, the  *)
(* inbox consumer as a library (other callers, dedup_keys that are shared), *)
(* the event bus and the supervisor.  They share no state, so a behaviour   *)
(* runs one of them.                                                        *)
EXTENDS EventDelivery, EventBus, Supervisor, TLC

CONSTANTS
    Parts,   \* which parts this instance runs
    e1, e2, e3, k1, m1, m2, m3, p1, p2, s1, s2, src1, src2, kA, a, b, c

OneSource == (e1 :> src1) @@ (e2 :> src1)
OneKey == (e1 :> k1) @@ (e2 :> NoKey)

TwoFeeds == (p1 :> {m1, m3}) @@ (p2 :> {m2})
Feed == (m1 :> src1) @@ (m2 :> src1) @@ (m3 :> src2)
Urgency == (m1 :> 1) @@ (m2 :> 2) @@ (m3 :> 2)
MostOfIt == (s1 :> BusMessages) @@ (s2 :> {m1, m3})
WaitThenCoalesce == (s1 :> "WAIT") @@ (s2 :> "COALESCE")
TwoAndOne == (s1 :> 2) @@ (s2 :> 1)
(* s2 coalesces reports on one instrument. *)
ByInstrument == (s1 :> [m \in BusMessages |-> NoCoalesceKey]) @@ (s2 :> [m \in BusMessages |-> kA])

Registered == <<b, a, c>>

VARIABLES part, libInbox, libDeadLetters, libEffects, libRuns, libWorker, libInterrupts

libraryVars == <<libInbox, libDeadLetters, libEffects, libRuns, libWorker, libInterrupts>>

(* One caller, and a message an interrupted old version left behind. *)
Sole == INSTANCE Inbox WITH
    Workers <- {"w1"}, Messages <- {e1, e2, e3}, Key <- OneKey @@ (e3 :> e3), Exhausted <- {e3}, MaxInterrupts <- 3,
    inbox <- libInbox, deadLetters <- libDeadLetters, effects <- libEffects, runs <- libRuns,
    worker <- libWorker, interrupts <- libInterrupts

(* Two callers, two messages of one dedup_key, and no retries. *)
Concurrent == INSTANCE Inbox WITH
    Workers <- {"w1", "w2"}, Messages <- {e1, e2}, Key <- (e1 :> k1) @@ (e2 :> k1),
    MaxAttempts <- 1, inbox <- libInbox, deadLetters <- libDeadLetters, effects <- libEffects, runs <- libRuns,
    worker <- libWorker, interrupts <- libInterrupts

hostVars == <<part, pathVars, libraryVars, busVars, supervisorVars>>

Init ==
    /\ part \in Parts
    /\ PathInit /\ BusInit /\ SupervisorInit
    /\ IF part = "concurrent" THEN Concurrent!InboxInit ELSE Sole!InboxInit

Next ==
    /\ UNCHANGED part
    /\ part = "path" => PathNext
    /\ part # "path" => UNCHANGED pathVars
    /\ part = "sole" => Sole!InboxNext
    /\ part = "concurrent" => Concurrent!InboxNext
    /\ part \notin {"sole", "concurrent"} => UNCHANGED libraryVars
    /\ part = "bus" => BusNext
    /\ part # "bus" => UNCHANGED busVars
    /\ part = "supervisor" => SupervisorNext
    /\ part # "supervisor" => UNCHANGED supervisorVars

(* PathFairness and SupervisorFairness, each for its part. *)
Fairness ==
    /\ WF_pathVars(part = "path" /\ O!Start /\ UNCHANGED inboxVars)
    /\ \A e \in Messages : WF_pathVars(part = "path" /\ O!Elapse(e) /\ UNCHANGED inboxVars)
    /\ WF_pathVars(part = "path" /\ RelayStep)
    /\ WF_supervisorVars(part = "supervisor" /\ Run)
    /\ \A s \in Services :
          WF_supervisorVars(part = "supervisor" /\ (FirstServe(s) \/ BackoffEnds(s) \/ RestartSucceeds(s)))

Spec == Init /\ [][Next]_hostVars /\ Fairness

(* An instance that runs nothing but the bus. *)
BusRun == Init /\ [][Next]_hostVars /\ BusFairness

(* The consumer as a library: a sole caller finds it sound; two callers at *)
(* once and messages of one dedup_key still never repeat an effect.        *)
LibraryIsSound ==
    IF part = "concurrent" THEN Concurrent!EffectAtMostOnce ELSE Sole!ConsumptionIsSound
=============================================================================
