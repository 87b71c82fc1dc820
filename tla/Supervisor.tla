----------------------------- MODULE Supervisor ------------------------------
(***************************************************************************)
(* The lifecycle supervisor (active_agent_platform/runtime/supervisor.py): *)
(* it starts the registered services in order, restarts a crashed one      *)
(* after a backoff, opens its circuit when it is critical or crashed too   *)
(* often, and shuts all of them down in phases.                            *)
(*                                                                         *)
(* The run() coroutine and one task per service interleave at their        *)
(* awaits; a service is known by the outcome of its lifecycle calls.  The  *)
(* clock is abstracted: a backoff, the drain timeout and the end of the    *)
(* crash window may come at any time.                                      *)
(***************************************************************************)
EXTENDS Naturals, Sequences, FiniteSets

CONSTANTS
    Services,
    Order,        \* the registrations, a sequence of services
    Critical,     \* services registered as critical
    CrashLimit,   \* SupervisorConfig.crash_limit
    MaxCrashes    \* bound: failing start() and serve() calls of one behaviour

ASSUME SupervisorAssumption ==
    /\ Order \in Seq(Services)
    /\ Len(Order) = Cardinality(Services)
    /\ \A s \in Services : \E i \in DOMAIN Order : Order[i] = s
    /\ Critical \subseteq Services
    /\ CrashLimit \in Nat \ {0}
    /\ MaxCrashes \in Nat

VARIABLES
    main,        \* phase of run() and the service it is at: [phase, at]
    task,        \* task[s]: where the task of s is
    state,       \* _states[s]
    crashes,     \* crashes of s inside the crash window
    health,      \* _system_health
    shutdown,    \* _shutdown_requested
    started,     \* services whose last start() succeeded and that did not fail since
    working,     \* services that take new work: since start(), until quiesce()
    alarms,      \* alarms[s]: service.circuit_opened records of s
    failed       \* failing calls so far

supervisorVars ==
    <<main, task, state, crashes, health, shutdown, started, working, alarms, failed>>

State == {"STARTING", "READY", "RESTARTING", "CIRCUIT_OPEN", "STOPPED"}
Health == {"STARTING", "HEALTHY", "DEGRADED", "SAFE", "SHUTTING_DOWN", "STOPPED"}

(* "first" waits for its first step in _supervise(), "serving" in serve(),   *)
(* "backoff" and "restart" in _supervise(), "retry_backoff" and "retry" in   *)
(* _restart_after_failure().                                                *)
Task == {"none", "first", "serving", "backoff", "restart", "retry_backoff", "retry", "done"}

Phase == {"start", "starting", "run", "quiesce", "drain", "checkpoint", "cancel", "stop", "stopped"}

Main(phase, i) == [phase |-> phase, at |-> i]
In(phase) == main.phase = phase
Here == Order[main.at]
(* _refresh_health() for the states st. *)
Refreshed(st) ==
    IF health \in {"SAFE", "SHUTTING_DOWN"} THEN health
    ELSE IF \E s \in Services : st[s] = "CIRCUIT_OPEN" THEN "DEGRADED"
    ELSE IF \A s \in Services : st[s] = "READY" THEN "HEALTHY"
    ELSE "STARTING"

Opens(s, n) == s \in Critical \/ n >= CrashLimit
(* _record_crash(): n is the number of crashes left in the window, next the *)
(* state the caller leaves s in when the circuit stays closed.              *)
RecordCrash(s, n, next) ==
    /\ failed < MaxCrashes
    /\ failed' = failed + 1
    /\ crashes' = [crashes EXCEPT ![s] = n]
    /\ started' = started \ {s}
    /\ IF Opens(s, n)
       THEN /\ state' = [state EXCEPT ![s] = "CIRCUIT_OPEN"]
            /\ health' = IF s \in Critical THEN "SAFE" ELSE "DEGRADED"
            /\ alarms' = [alarms EXCEPT ![s] = @ + 1]
       ELSE /\ state' = [state EXCEPT ![s] = next]
            /\ health' = Refreshed([state EXCEPT ![s] = "RESTARTING"])
            /\ UNCHANGED alarms

(* Crashes older than the window are dropped before the new one is counted. *)
InWindow(s) == 1..(crashes[s] + 1)

(* The end of _supervise(). *)
Leave(s) ==
    /\ task' = [task EXCEPT ![s] = "done"]
    /\ state' = [state EXCEPT ![s] = IF @ = "CIRCUIT_OPEN" THEN @ ELSE "STOPPED"]

-----------------------------------------------------------------------------
SupervisorInit ==
    /\ main = Main("start", 1)
    /\ task = [s \in Services |-> "none"]
    /\ state = [s \in Services |-> "STOPPED"]
    /\ crashes = [s \in Services |-> 0]
    /\ health = "STARTING"
    /\ shutdown = FALSE
    /\ started = {}
    /\ working = {}
    /\ alarms = [s \in Services |-> 0]
    /\ failed = 0

RequestShutdown ==
    /\ ~shutdown
    /\ shutdown' = TRUE
    /\ UNCHANGED <<main, task, state, crashes, health, started, working, alarms, failed>>

(* run(): _start() of the next registration. *)
StartService ==
    /\ In("start")
    /\ main.at <= Len(Order)
    /\ main' = Main("starting", main.at)
    /\ state' = [state EXCEPT ![Here] = "STARTING"]
    /\ UNCHANGED <<task, crashes, health, shutdown, started, working, alarms, failed>>

(* start() returned; next is the state the caller leaves s in. *)
Started(s, next) ==
    /\ started' = started \cup {s}
    /\ working' = working \cup {s}
    /\ health' = Refreshed([state EXCEPT ![s] = "READY"])
    /\ state' = [state EXCEPT ![s] = next]

(* _supervise() gets a task. *)
FirstStartSucceeds ==
    /\ In("starting")
    /\ Started(Here, "READY")
    /\ task' = [task EXCEPT ![Here] = "first"]
    /\ main' = Main("start", main.at + 1)
    /\ UNCHANGED <<crashes, shutdown, alarms, failed>>

(* start() raised: _restart_after_failure() gets a task, which ends at once *)
(* when the crash opened the circuit.                                       *)
FirstStartFails ==
    /\ In("starting")
    /\ RecordCrash(Here, 1, "RESTARTING")
    /\ task' = [task EXCEPT ![Here] = IF Opens(Here, 1) THEN "done" ELSE "retry_backoff"]
    /\ main' = Main("start", main.at + 1)
    /\ UNCHANGED <<shutdown, working>>

AllStarted ==
    /\ In("start")
    /\ main.at > Len(Order)
    /\ health' = Refreshed(state)
    /\ main' = Main("run", 0)
    /\ UNCHANGED <<task, state, crashes, shutdown, started, working, alarms, failed>>

-----------------------------------------------------------------------------
(* The task of a service.                                                  *)

(* The loop test of _supervise(): serve again unless shutting down. *)
LoopTask == IF shutdown THEN "done" ELSE "serving"
LoopState(st) == IF shutdown THEN "STOPPED" ELSE st

FirstServe(s) ==
    /\ task[s] = "first"
    /\ task' = [task EXCEPT ![s] = LoopTask]
    /\ state' = [state EXCEPT ![s] = LoopState(@)]
    /\ UNCHANGED <<main, crashes, health, shutdown, started, working, alarms, failed>>

(* serve() returned because of the shutdown. *)
ServeReturns(s) ==
    /\ task[s] = "serving"
    /\ shutdown
    /\ Leave(s)
    /\ UNCHANGED <<main, crashes, health, shutdown, started, working, alarms, failed>>

(* serve() raised, or returned although nobody asked for a shutdown. *)
ServeFails(s) ==
    /\ task[s] = "serving"
    /\ \E n \in InWindow(s) :
          /\ RecordCrash(s, n, "RESTARTING")
          /\ task' = [task EXCEPT ![s] = IF Opens(s, n) THEN "done" ELSE "backoff"]
    /\ UNCHANGED <<main, shutdown, working>>

(* _backoff() is over: start() is called again, or the task ends. *)
BackoffEnds(s) ==
    /\ task[s] \in {"backoff", "retry_backoff"}
    /\ \/ shutdown /\ Leave(s)
       \/ /\ ~shutdown
          /\ task' = [task EXCEPT ![s] = IF @ = "backoff" THEN "restart" ELSE "retry"]
          /\ state' = [state EXCEPT ![s] = "STARTING"]
    /\ UNCHANGED <<main, crashes, health, shutdown, started, working, alarms, failed>>

(* That start() returned, possibly after the shutdown began: the loop of     *)
(* _supervise() goes on.                                                    *)
RestartSucceeds(s) ==
    /\ task[s] \in {"restart", "retry"}
    /\ Started(s, LoopState("READY"))
    /\ task' = [task EXCEPT ![s] = LoopTask]
    /\ UNCHANGED <<main, crashes, shutdown, alarms, failed>>

(* start() raised in _supervise(): unless the circuit opened, its loop       *)
(* continues with serve(), without another start().                         *)
RestartFails(s) ==
    /\ task[s] = "restart"
    /\ \E n \in InWindow(s) :
          /\ RecordCrash(s, n, LoopState("RESTARTING"))
          /\ task' = [task EXCEPT ![s] = IF Opens(s, n) THEN "done" ELSE LoopTask]
    /\ UNCHANGED <<main, shutdown, working>>

(* start() raised in _restart_after_failure(): it backs off again. *)
RetryFails(s) ==
    /\ task[s] = "retry"
    /\ \E n \in InWindow(s) :
          /\ RecordCrash(s, n, "RESTARTING")
          /\ task' = [task EXCEPT ![s] = IF Opens(s, n) THEN "done" ELSE "retry_backoff"]
    /\ UNCHANGED <<main, shutdown, working>>

-----------------------------------------------------------------------------
(* Shutdown: quiesce, drain, checkpoint, cancel, stop.  A failing hook is   *)
(* logged and the phase goes on.                                            *)

BeginShutdown ==
    /\ In("run")
    /\ shutdown
    /\ health' = "SHUTTING_DOWN"
    /\ main' = Main("quiesce", Len(Order))
    /\ UNCHANGED <<task, state, crashes, shutdown, started, working, alarms, failed>>

(* quiesce() of the services in reverse order. *)
QuiesceService ==
    /\ In("quiesce")
    /\ main.at > 0
    /\ working' = working \ {Here}
    /\ main' = Main("quiesce", main.at - 1)
    /\ UNCHANGED <<task, state, crashes, health, shutdown, started, alarms, failed>>

AllQuiesced ==
    /\ In("quiesce")
    /\ main.at = 0
    /\ main' = Main("drain", 0)
    /\ UNCHANGED <<task, state, crashes, health, shutdown, started, working, alarms, failed>>

(* A faulty drain: without the timeout. *)
DrainedFully ==
    /\ In("drain")
    /\ \A s \in Services : task[s] = "done"
    /\ main' = Main("checkpoint", Len(Order))
    /\ UNCHANGED <<task, state, crashes, health, shutdown, started, working, alarms, failed>>

(* Every task ended, or the shutdown timeout came first. *)
Drained ==
    /\ In("drain")
    /\ main' = Main("checkpoint", Len(Order))
    /\ UNCHANGED <<task, state, crashes, health, shutdown, started, working, alarms, failed>>

CheckpointService ==
    /\ In("checkpoint")
    /\ main' = IF main.at > 1 THEN Main("checkpoint", main.at - 1) ELSE Main("cancel", 0)
    /\ UNCHANGED <<task, state, crashes, health, shutdown, started, working, alarms, failed>>

(* A faulty cancellation: only of services that serve. *)
CancelServing ==
    /\ In("cancel")
    /\ task' = [s \in Services |-> IF task[s] = "serving" THEN "done" ELSE task[s]]
    /\ main' = Main("stop", Len(Order))
    /\ UNCHANGED <<state, crashes, health, shutdown, started, working, alarms, failed>>

(* Tasks that are not done are cancelled and awaited. *)
CancelTasks ==
    /\ In("cancel")
    /\ task' = [s \in Services |-> "done"]
    /\ main' = Main("stop", Len(Order))
    /\ UNCHANGED <<state, crashes, health, shutdown, started, working, alarms, failed>>

StopService ==
    /\ In("stop")
    /\ main.at > 0
    /\ started' = started \ {Here}
    /\ working' = working \ {Here}
    /\ state' = [state EXCEPT ![Here] = IF @ = "CIRCUIT_OPEN" THEN @ ELSE "STOPPED"]
    /\ main' = Main("stop", main.at - 1)
    /\ UNCHANGED <<task, crashes, health, shutdown, alarms, failed>>

RunEnds ==
    /\ In("stop")
    /\ main.at = 0
    /\ health' = "STOPPED"
    /\ main' = Main("stopped", 0)
    /\ UNCHANGED <<task, state, crashes, shutdown, started, working, alarms, failed>>

Run ==
    \/ StartService \/ FirstStartSucceeds \/ FirstStartFails \/ AllStarted
    \/ BeginShutdown \/ QuiesceService \/ AllQuiesced \/ Drained
    \/ CheckpointService \/ CancelTasks \/ StopService \/ RunEnds

ServiceTask(s) ==
    \/ FirstServe(s) \/ ServeReturns(s) \/ ServeFails(s) \/ BackoffEnds(s)
    \/ RestartSucceeds(s) \/ RestartFails(s) \/ RetryFails(s)

SupervisorNext == RequestShutdown \/ Run \/ \E s \in Services : ServiceTask(s)

(* run() goes on: every lifecycle hook returns and the drain has a timeout. *)
(* A backoff ends and a restarting start() returns or raises.  Nothing is   *)
(* assumed of serve(): it may run for ever, also after quiesce().           *)
SupervisorFairness ==
    /\ WF_supervisorVars(Run)
    /\ \A s \in Services :
          WF_supervisorVars(FirstServe(s) \/ BackoffEnds(s) \/ RestartSucceeds(s))

SupervisorSpec == SupervisorInit /\ [][SupervisorNext]_supervisorVars /\ SupervisorFairness

-----------------------------------------------------------------------------
SupervisorTypeOK ==
    /\ main \in [phase : Phase, at : 0..(Len(Order) + 1)]
    /\ task \in [Services -> Task]
    /\ state \in [Services -> State]
    /\ crashes \in [Services -> 0..MaxCrashes]
    /\ health \in Health
    /\ shutdown \in BOOLEAN
    /\ started \subseteq Services
    /\ working \subseteq Services
    /\ alarms \in [Services -> Nat]
    /\ failed \in 0..MaxCrashes

(* An open circuit raises one alarm, and the service is not run again.      *)
CircuitOpensOnce ==
    \A s \in Services :
        /\ alarms[s] <= 1
        /\ alarms[s] = 1 <=> state[s] = "CIRCUIT_OPEN"
        /\ state[s] = "CIRCUIT_OPEN" => task[s] = "done"

(* The system is HEALTHY only while every service is READY. *)
HealthyIsTrue ==
    health = "HEALTHY" /\ ~shutdown => \A s \in Services : state[s] = "READY"

(* When run() has ended no task is left, and no service accepts work, not   *)
(* even one whose start() was in flight when the shutdown began.            *)
NothingSurvives ==
    In("stopped") => /\ \A s \in Services : task[s] = "done"
                     /\ working = {}
                     /\ started = {}

(* A service that fails is given up once, the summary never calls a system *)
(* healthy that is not, and a shutdown leaves nothing running, at any       *)
(* interleaving of run() with the tasks of the services.                    *)
SupervisionIsSound == SupervisorTypeOK /\ CircuitOpensOnce /\ HealthyIsTrue /\ NothingSurvives

(* A shutdown ends, although a service neither drains nor stops serving.    *)
ShutdownEnds == shutdown ~> In("stopped")
=============================================================================
