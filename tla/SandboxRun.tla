------------------------------- MODULE SandboxRun -------------------------------
(***************************************************************************)
(* One execution of a workflow in the replay sandbox                       *)
(* (dna_sandbox_executor.py): the real workflow runtime on a virtual clock *)
(* that a driver advances.  Whenever the driver looks and something        *)
(* sleeps, it advances from sleeper to sleeper without giving the event    *)
(* loop a turn; else it yields for some real time, in which the branches   *)
(* of the workflow run and their commits end.                              *)
(*                                                                         *)
(* The workflow is one parallel node that waits for all of its branches.   *)
(* A node is the number of ticks it delays, or 0 for a skill.  The yield   *)
(* limit, which is in real time, is left out.                              *)
(***************************************************************************)
EXTENDS Naturals, FiniteSets, Sequences, FiniteSetsExt, Folds

CONSTANTS
    SandboxPlans,     \* sequences of branches, which are sequences of nodes
    SandboxFaults,    \* of {"NONE", "SKILL_FAILURE", "TIMEOUT"}
    SandboxDeadline,  \* deadline_seconds
    VirtualWindow     \* max_virtual_seconds

ASSUME SandboxRunAssumption ==
    /\ SandboxPlans \subseteq Seq(Seq(Nat))
    /\ SandboxFaults \subseteq {"NONE", "SKILL_FAILURE", "TIMEOUT"}
    /\ SandboxDeadline \in Nat \ {0} /\ VirtualWindow \in Nat
    /\ VirtualWindow >= SandboxDeadline

VARIABLES
    plan, fault,    \* what is executed
    virtual,        \* the virtual clock
    driving,        \* whether the driver runs, and nothing else
    branch,         \* each branch: [pc, at, wake], wake the deadline of its sleep
    writer,         \* the branches whose transaction is open, at most one
    stamps,         \* started_at and finished_at of the nodes
    faulted         \* the nodes that the fault has hit: <<branch, node>>

sandboxVars == <<plan, fault, virtual, driving, branch, writer, stamps, faulted>>

BranchesOf(p) == DOMAIN p
EndedBranch == {"done", "failed", "timed_out"}

SandboxInit ==
    /\ plan \in SandboxPlans
    /\ fault \in SandboxFaults
    /\ virtual = 0 /\ driving = FALSE
    /\ branch = [b \in BranchesOf(plan) |-> [pc |-> "next", at |-> 1, wake |-> 0]]
    /\ writer = {} /\ stamps = {} /\ faulted = {}

NodeAt(b) == plan[b][branch[b].at]
Goes(b, pc) == branch' = [branch EXCEPT ![b].pc = pc]
Expired == virtual >= SandboxDeadline
Runs(b, pc) == ~ driving /\ branch[b].pc = pc

----------------------------------------------------------------------------
\* The guard before a node
EnterSandboxNode(b) ==
    /\ Runs(b, "next")
    /\ Goes(b, IF branch[b].at > Len(plan[b]) THEN "done" ELSE IF Expired THEN "timed_out" ELSE "starting")
    /\ UNCHANGED <<plan, fault, virtual, driving, writer, stamps, faulted>>

\* A transition takes its time once its transaction is open; the commit
\* ends in a thread, whenever that is
OpenTransition(b) ==
    /\ ~ driving /\ branch[b].pc \in {"starting", "succeeding", "failing", "timing_out"}
    /\ writer = {}
    /\ writer' = {b}
    /\ stamps' = stamps \cup {virtual}
    /\ UNCHANGED <<plan, fault, virtual, driving, branch, faulted>>

After(pc) ==
    CASE pc = "starting" -> "dispatch" [] pc = "succeeding" -> "next"
      [] pc = "failing" -> "failed" [] pc = "timing_out" -> "timed_out"

CommitTransition(b) ==
    /\ ~ driving /\ writer = {b}
    /\ writer' = {}
    /\ branch' = [branch EXCEPT ![b].pc = After(@), ![b].at = IF branch[b].pc = "succeeding" THEN @ + 1 ELSE @]
    /\ UNCHANGED <<plan, fault, virtual, driving, stamps, faulted>>

\* sleep(): a sleeper with a deadline of its own
Sleeps(b, ticks) == branch' = [branch EXCEPT ![b].pc = "asleep", ![b].wake = virtual + ticks]

\* The first invocation of a skill in the run, in whichever branch, meets the fault
DispatchNode(b) ==
    LET hit == NodeAt(b) = 0 /\ faulted = {} IN
    /\ Runs(b, "dispatch") /\ b \notin writer
    /\ faulted' = IF hit THEN {<<b, branch[b].at>>} ELSE faulted
    /\ CASE Expired -> Goes(b, "timing_out")
         [] ~ Expired /\ NodeAt(b) > 0 -> Sleeps(b, NodeAt(b))
         [] ~ Expired /\ hit /\ fault = "TIMEOUT" -> Sleeps(b, VirtualWindow)
         [] ~ Expired /\ hit /\ fault = "SKILL_FAILURE" -> Goes(b, "failing")
         [] OTHER -> Goes(b, "succeeding")
    /\ UNCHANGED <<plan, fault, virtual, driving, writer, stamps>>

\* The guard after a dispatch comes before its result
Resumes(b) ==
    /\ Runs(b, "woken")
    /\ Goes(b, IF Expired THEN "timing_out" ELSE IF NodeAt(b) = 0 THEN "failing" ELSE "succeeding")
    /\ UNCHANGED <<plan, fault, virtual, driving, writer, stamps, faulted>>

----------------------------------------------------------------------------
Sleepers == {b \in DOMAIN branch : branch[b].pc = "asleep"}

\* What was woken runs before the driver's pause ends
DriverLooks ==
    /\ ~ driving /\ Sleepers # {}
    /\ \A b \in DOMAIN branch : branch[b].pc # "woken"
    /\ driving' = TRUE
    /\ UNCHANGED <<plan, fault, virtual, branch, writer, stamps, faulted>>

(* A faulty advance: by the deadline instead of what is left of it.        *)
AdvancedByDeadline(now, deadline) == now + deadline
Advanced(now, deadline) == now + (deadline - now)

\* advance() to the earliest sleeper, and at once to the next
AdvanceClock ==
    /\ driving /\ Sleepers # {}
    /\ virtual' = Advanced(virtual, Min({branch[b].wake : b \in Sleepers}))
    /\ branch' = [b \in DOMAIN branch |->
          IF b \in Sleepers /\ branch[b].wake <= virtual' THEN [branch[b] EXCEPT !.pc = "woken"] ELSE branch[b]]
    /\ UNCHANGED <<plan, fault, driving, writer, stamps, faulted>>

DriverYields ==
    /\ driving /\ Sleepers = {}
    /\ driving' = FALSE
    /\ UNCHANGED <<plan, fault, virtual, branch, writer, stamps, faulted>>

SandboxNext ==
    \/ \E b \in DOMAIN branch :
          EnterSandboxNode(b) \/ OpenTransition(b) \/ CommitTransition(b) \/ DispatchNode(b) \/ Resumes(b)
    \/ DriverLooks \/ AdvanceClock \/ DriverYields

----------------------------------------------------------------------------
SandboxEnded == \A b \in DOMAIN branch : branch[b].pc \in EndedBranch
Latency == IF stamps = {} THEN 0 ELSE Max(stamps) - Min(stamps)     \* _virtual_latency_ms()

Ticks(b) == FoldFunctionOnSet(LAMBDA x, y : x + y, 0, plan[b], DOMAIN plan[b])
AllTicks == FoldFunctionOnSet(LAMBDA x, y : x + y, 0, [b \in DOMAIN plan |-> Ticks(b)], DOMAIN plan)

(* What a replay measures is the workflow and not the machine, as far as   *)
(* that goes: a completed run took at least as long as its longest branch  *)
(* and at most as long as its branches one after the other, so exactly as  *)
(* long when it has one; it times out only when that much time is due; the *)
(* fault hits one skill, the first one when there is one branch, and no    *)
(* branch it hits with a failure or a timeout succeeds.                    *)
LatencyIsFaithful ==
    /\ SandboxEnded =>
          /\ (\A b \in DOMAIN branch : branch[b].pc = "done") =>
                /\ \A b \in DOMAIN plan : Latency >= Ticks(b)
                /\ Latency <= AllTicks
          /\ (\E b \in DOMAIN branch : branch[b].pc = "timed_out") =>
                virtual >= SandboxDeadline
                /\ (AllTicks >= SandboxDeadline \/ (fault = "TIMEOUT" /\ faulted # {}))
    /\ Cardinality(faulted) <= 1
    /\ \A f \in faulted :
          /\ Len(plan) = 1 => \A i \in 1 .. (f[2] - 1) : plan[1][i] > 0
          /\ fault # "NONE" => branch[f[1]].pc # "done"

=============================================================================
