----------------------------- MODULE MCWorkflowRun -----------------------------
(* An instance of WorkflowRun for TLC: a parallel node p with the branches  *)
(* x and y, then a condition q that selects u or nothing.                   *)
EXTENDS WorkflowRun, TLC

CONSTANTS p, x, y, q, u

TheOrder == <<p, x, y, q, u>>
TheDeps == (p :> {}) @@ (x :> {p}) @@ (y :> {p}) @@ (q :> {x}) @@ (u :> {q})
TheKind == (p :> "parallel") @@ (q :> "condition") @@ [n \in {x, y, u} |-> "skill"]
TheBranches == p :> <<<<x>>, <<y>>>>
TheSelects == q :> <<{}, {u}>>
OneBranch == p :> 1
TwoForX == [n \in {p, x, y, q, u} |-> IF n = x THEN 2 ELSE 1]
=============================================================================
