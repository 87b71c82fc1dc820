------------------------------ MODULE SubWorkflow ------------------------------
(***************************************************************************)
(* Runs of workflows whose nodes run other workflows                       *)
(* (workflow_runtime.py): the row of a child is created by its parent's    *)
(* node and its execute() runs inside that node, so the executions of a    *)
(* tree are one stack.  They share a deadline and a cancellation token; a  *)
(* node may have a timeout of its own.                                     *)
(*                                                                         *)
(* The nodes of a workflow form a chain here, each depends on the one      *)
(* before it; branches, limits and retries are those of WorkflowRun.       *)
(***************************************************************************)
EXTENDS Naturals, Sequences, FiniteSets, SequencesExt

CONSTANTS
    WorkflowTrees,    \* functions from workflows to sequences of [kind, child, policy, timed, undo]
    RootWorkflow,
    MaxDepth          \* max_depth of the runtime

ASSUME SubWorkflowAssumption ==
    /\ MaxDepth \in Nat \ {0}
    /\ \A t \in WorkflowTrees :
         /\ RootWorkflow \in DOMAIN t
         /\ \A w \in DOMAIN t :
              /\ Len(t[w]) \in Nat /\ DOMAIN t[w] = 1..Len(t[w])
              /\ \A i \in DOMAIN t[w] : t[w][i].kind = "sub" => t[w][i].child \in DOMAIN t

VARIABLES
    tree,         \* the definitions of this behaviour
    subRuns,      \* the rows of workflow_run: <<[workflow, parent, node, status, nodes]>>
    stack,        \* the executions, the innermost last: <<[run, at, phase]>>
    treeCancelled, treeLate,
    startsAfter   \* history: skills that started after the cancellation

treeVars == <<tree, subRuns, stack, treeCancelled, treeLate, startsAfter>>

EndedRun == {"SUCCEEDED", "FAILED", "CANCELLED", "TIMED_OUT"}
Blocking == {"FAILED", "TIMED_OUT", "CANCELLED"}
Open == {"PENDING", "RUNNING"}

Top == Last(stack)
Chain(run) == tree[subRuns[run].workflow]
NodeOf(f) == Chain(f.run)[f.at]
UndoNodes(run) == {Chain(run)[i].undo : i \in DOMAIN Chain(run)} \ {0}

NewRow(workflow, parent, node, status) ==
    [workflow |-> workflow, parent |-> parent, node |-> node, status |-> status,
     nodes |-> [i \in DOMAIN tree[workflow] |-> "PENDING"]]

TreeInit ==
    /\ tree \in WorkflowTrees
    /\ subRuns = <<NewRow(RootWorkflow, 0, 0, "RUNNING")>>
    /\ stack = <<[run |-> 1, at |-> 1, phase |-> "next"]>>
    /\ treeCancelled = FALSE /\ treeLate = FALSE /\ startsAfter = 0

SetNode(rows, run, node, status) == [rows EXCEPT ![run].nodes[node] = status]
Move(f) == stack' = Append(Front(stack), f)
Onward == Move([run |-> Top.run, at |-> Top.at + 1, phase |-> "next"])

\* What _guard() raises, and how a node and its run end then
Guarded == ~ treeCancelled /\ ~ treeLate
TreeRaised == IF treeCancelled THEN "CANCELLED" ELSE "TIMED_OUT"
RunEnds(f, status) == [run |-> f.run, at |-> f.at, phase |-> "ending", status |-> status]

TreeCancel ==
    /\ stack # <<>> /\ ~ treeCancelled /\ treeCancelled' = TRUE
    /\ UNCHANGED <<tree, subRuns, stack, treeLate, startsAfter>>

TreeDeadline ==
    /\ stack # <<>> /\ ~ treeLate /\ treeLate' = TRUE
    /\ UNCHANGED <<tree, subRuns, stack, treeCancelled, startsAfter>>

\* The loop of execute() and the head of _execute_node()
EnterNode ==
    /\ stack # <<>> /\ Top.phase = "next" /\ Top.at <= Len(Chain(Top.run))
    /\ \/ ~ Guarded /\ Move(RunEnds(Top, TreeRaised)) /\ UNCHANGED subRuns
       \/ /\ Guarded /\ Top.at \in UndoNodes(Top.run)
          /\ Onward /\ UNCHANGED subRuns
       \/ /\ Guarded /\ Top.at \notin UndoNodes(Top.run)
          /\ LET skipped == Top.at > 1 /\ subRuns[Top.run].nodes[Top.at - 1] \in Blocking
             IN  /\ subRuns' = SetNode(subRuns, Top.run, Top.at, IF skipped THEN "SKIPPED" ELSE "RUNNING")
                 /\ IF skipped THEN Onward ELSE Move([Top EXCEPT !.phase = "work"])
    /\ UNCHANGED <<tree, treeCancelled, treeLate, startsAfter>>

\* A node ends and its run goes on, or a node and its run end together
NodeEnds(status) ==
    /\ subRuns' = SetNode(subRuns, Top.run, Top.at, status)
    /\ Onward
NodeAndRunEnd(status) ==
    /\ subRuns' = SetNode(subRuns, Top.run, Top.at, status)
    /\ Move(RunEnds(Top, status))

\* Nothing is left of the deadline when the node is dispatched
DispatchTooLate ==
    /\ stack # <<>> /\ Top.phase = "work" /\ treeLate
    /\ NodeAndRunEnd("TIMED_OUT")
    /\ UNCHANGED <<tree, treeCancelled, treeLate, startsAfter>>

StartSkill ==
    /\ stack # <<>>
    /\ \/ Top.phase = "work" /\ NodeOf(Top).kind = "skill" /\ Move([Top EXCEPT !.phase = "skill"])
       \/ Top.phase = "undo_work" /\ Move([Top EXCEPT !.phase = "undoing"])
    /\ startsAfter' = IF treeCancelled THEN startsAfter + 1 ELSE startsAfter
    /\ UNCHANGED <<tree, subRuns, treeCancelled, treeLate>>

\* A cancellation comes before the result, the deadline only before a success:
\* an exception passes the guard after the dispatch by
SkillReturns(ok) ==
    /\ stack # <<>> /\ Top.phase = "skill"
    /\ IF treeCancelled \/ (ok /\ treeLate) THEN NodeAndRunEnd(TreeRaised) ELSE NodeEnds(IF ok THEN "SUCCEEDED" ELSE "FAILED")
    /\ UNCHANGED <<tree, treeCancelled, treeLate, startsAfter>>

SkillRaises ==
    /\ stack # <<>> /\ Top.phase = "skill"
    /\ NodeEnds("FAILED")
    /\ UNCHANGED <<tree, treeCancelled, treeLate, startsAfter>>

\* _run_sub_workflow(): the row first, in a transaction of its own
CreateChild ==
    /\ stack # <<>> /\ Top.phase = "work" /\ NodeOf(Top).kind = "sub"
    /\ subRuns' = Append(subRuns, NewRow(NodeOf(Top).child, Top.run, Top.at, "PENDING"))
    /\ Move([Top EXCEPT !.phase = "created"])
    /\ UNCHANGED <<tree, treeCancelled, treeLate, startsAfter>>

\* ... then execute(), which refuses a run that is too deep and leaves its row
CallChild ==
    LET child == Len(subRuns) IN
    /\ stack # <<>> /\ Top.phase = "created"
    /\ IF Len(stack) >= MaxDepth THEN NodeEnds("FAILED")
       ELSE /\ subRuns' = [subRuns EXCEPT ![child].status = "RUNNING"]
            /\ stack' = Front(stack) \o <<[Top EXCEPT !.phase = "child"], [run |-> child, at |-> 1, phase |-> "next"]>>
    /\ UNCHANGED <<tree, treeCancelled, treeLate, startsAfter>>

\* After the loop: unused compensations are skipped, and the nodes decide
Skipping(run) ==
    [subRuns EXCEPT ![run].nodes = [i \in DOMAIN @ |->
        IF i \in UndoNodes(run) /\ @[i] = "PENDING" THEN "SKIPPED" ELSE @[i]]]

LeaveLoop ==
    LET failed == \E i \in DOMAIN subRuns[Top.run].nodes : subRuns[Top.run].nodes[i] \in {"FAILED", "TIMED_OUT"} IN
    /\ stack # <<>> /\ Top.phase = "next" /\ Top.at > Len(Chain(Top.run))
    /\ subRuns' = Skipping(Top.run)
    /\ Move(RunEnds(Top, IF ~ Guarded THEN TreeRaised ELSE IF failed THEN "FAILED" ELSE "SUCCEEDED"))
    /\ UNCHANGED <<tree, treeCancelled, treeLate, startsAfter>>

\* _cancel_remaining() and _finish_workflow(); the result goes to the node of the parent
Remaining(rows, run) ==
    [rows EXCEPT ![run].nodes = [i \in DOMAIN @ |-> IF @[i] \in Open THEN "CANCELLED" ELSE @[i]]]

Under(result) ==
    IF Len(stack) = 1 THEN <<>>
    ELSE LET parent == stack[Len(stack) - 1]
         IN  Append(Front(Front(stack)), [run |-> parent.run, at |-> parent.at, phase |-> "result", status |-> result])

EndRun ==
    /\ stack # <<>> /\ Top.phase = "ending"
    /\ subRuns' = [IF Top.status \in {"CANCELLED", "TIMED_OUT"} THEN Remaining(subRuns, Top.run) ELSE subRuns
                   EXCEPT ![Top.run].status = Top.status]
    /\ stack' = Under(Top.status)
    /\ UNCHANGED <<tree, treeCancelled, treeLate, startsAfter>>

\* The mapping of the output raises: execute() ends and its row does not
OutputRaises ==
    /\ stack # <<>> /\ Top.phase = "ending" /\ Top.status = "SUCCEEDED"
    /\ IF Len(stack) = 1 THEN stack' = <<>> /\ UNCHANGED subRuns
       ELSE LET parent == stack[Len(stack) - 1]
            IN  /\ subRuns' = SetNode(subRuns, parent.run, parent.at, "FAILED")
                /\ stack' = Append(Front(Front(stack)), [run |-> parent.run, at |-> parent.at + 1, phase |-> "next"])
    /\ UNCHANGED <<tree, treeCancelled, treeLate, startsAfter>>

Tolerated(f) == f.status = "SUCCEEDED" \/ NodeOf(f).policy = "continue"

ChildReturns ==
    /\ stack # <<>> /\ Top.phase = "result"
    /\ IF ~ Tolerated(Top) /\ NodeOf(Top).policy = "compensate"
       THEN Move([run |-> Top.run, at |-> Top.at, phase |-> "undo"]) /\ UNCHANGED subRuns
       ELSE IF ~ Guarded THEN NodeAndRunEnd(TreeRaised)
       ELSE NodeEnds(IF Tolerated(Top) THEN "SUCCEEDED" ELSE "FAILED")
    /\ UNCHANGED <<tree, treeCancelled, treeLate, startsAfter>>

StartUndo ==
    /\ stack # <<>> /\ Top.phase = "undo"
    /\ IF Guarded
       THEN /\ subRuns' = SetNode(subRuns, Top.run, NodeOf(Top).undo, "RUNNING")
            /\ Move([Top EXCEPT !.phase = "undo_work"])
       ELSE NodeAndRunEnd(TreeRaised)
    /\ UNCHANGED <<tree, treeCancelled, treeLate, startsAfter>>

\* The compensation ends as any skill does.  When it has succeeded, the node it
\* undoes is guarded once more; when it has failed, the node fails with it
UndoEnds(ok) ==
    LET undo == NodeOf(Top).undo
        ends(status) == SetNode(subRuns, Top.run, undo, status)
    IN
    /\ stack # <<>> /\ Top.phase = "undoing"
    /\ \/ /\ ok /\ Guarded
          /\ subRuns' = ends("SUCCEEDED")
          /\ Move([Top EXCEPT !.phase = "undone"])
       \/ /\ ~ ok
          /\ subRuns' = SetNode(ends("FAILED"), Top.run, Top.at, "FAILED")
          /\ Onward
       \/ /\ treeCancelled \/ (ok /\ treeLate)
          /\ subRuns' = SetNode(ends(TreeRaised), Top.run, Top.at, TreeRaised)
          /\ Move(RunEnds(Top, TreeRaised))
    /\ UNCHANGED <<tree, treeCancelled, treeLate, startsAfter>>

(* A faulty end: a compensated node counts as done.                        *)
CompensatedIsDone == IF Guarded THEN NodeEnds("SUCCEEDED") ELSE NodeAndRunEnd(TreeRaised)
Compensated == IF Guarded THEN NodeEnds("FAILED") ELSE NodeAndRunEnd(TreeRaised)

LeaveUndo ==
    /\ stack # <<>> /\ Top.phase = "undone"
    /\ Compensated
    /\ UNCHANGED <<tree, treeCancelled, treeLate, startsAfter>>

\* Frames whose node is inside wait_for(), and what a cancelled coroutine leaves of its run
InDispatch(f) == f.phase \in {"work", "skill", "created", "child", "result", "undo", "undo_work", "undoing",
                             "undone"}
Unwound(rows, above) ==
    [r \in DOMAIN rows |->
        IF \E i \in DOMAIN above : above[i].run = r /\ InDispatch(above[i])
          THEN [rows[r] EXCEPT !.nodes = [i \in DOMAIN @ |-> IF @[i] = "RUNNING" THEN "CANCELLED" ELSE @[i]]]
          ELSE rows[r]]

(* wait_for() of the k-th frame gives up: what runs inside it is cancelled *)
(* and records its node, but no end of its run.  The deadline is the same  *)
(* on all levels, so any of them may be the first to see it.               *)
GiveUp(k, byDeadline) ==
    LET f == stack[k]
        rows == Unwound(subRuns, SubSeq(stack, k + 1, Len(stack)))
        undone == IF f.phase \in {"undo_work", "undoing"} THEN SetNode(rows, f.run, NodeOf(f).undo, "CANCELLED") ELSE rows
    IN  /\ InDispatch(f)
        /\ IF byDeadline THEN treeLate ELSE NodeOf(f).timed
        /\ subRuns' = SetNode(undone, f.run, f.at, "TIMED_OUT")
        /\ stack' = Append(SubSeq(stack, 1, k - 1),
                           IF byDeadline THEN RunEnds(f, "TIMED_OUT")
                           ELSE [run |-> f.run, at |-> f.at + 1, phase |-> "next"])
        /\ UNCHANGED <<tree, treeCancelled, treeLate, startsAfter>>

TreeNext ==
    \/ EnterNode \/ DispatchTooLate \/ StartSkill \/ SkillRaises \/ CreateChild \/ CallChild
    \/ \E ok \in BOOLEAN : SkillReturns(ok) \/ UndoEnds(ok)
    \/ LeaveLoop \/ EndRun \/ OutputRaises \/ ChildReturns \/ StartUndo \/ LeaveUndo
    \/ \E k \in DOMAIN stack, byDeadline \in BOOLEAN : GiveUp(k, byDeadline)
    \/ TreeCancel \/ TreeDeadline

Executing(r) == \E i \in DOMAIN stack : stack[i].run = r

(* What the rows of a tree say is what happened in it: a run that          *)
(* succeeded has no failure below it that its definition does not          *)
(* tolerate, a run that is open and that nobody executes is below a node   *)
(* that did not succeed, and a cancellation lets one more skill start at   *)
(* most, whatever the depth.                                               *)
TreeIsHonest ==
    /\ \A r \in DOMAIN subRuns :
          LET row == subRuns[r] IN
          /\ row.status = "SUCCEEDED" => \A i \in DOMAIN row.nodes : row.nodes[i] \in {"SUCCEEDED", "SKIPPED"}
          /\ row.parent # 0 =>
                LET node == subRuns[row.parent].nodes[row.node] IN
                /\ node = "SUCCEEDED" => row.status = "SUCCEEDED" \/
                      (Chain(row.parent)[row.node].policy = "continue" /\ row.status \in EndedRun)
                /\ row.status \in Open /\ ~ Executing(r) /\ node # "RUNNING" => node \in Blocking
    /\ startsAfter <= 1

=============================================================================
