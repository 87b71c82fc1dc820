-------------------------- MODULE WorkflowRun_proofs --------------------------
(***************************************************************************)
(* A workflow run tells the truth: theorems about WorkflowRun, for any     *)
(* definition (order, dependencies, branches that may share nodes, failure *)
(* policies, retries), any parallelism, cancellations and deadlines.  The  *)
(* second part is about SubWorkflow, trees of runs.                        *)
(***************************************************************************)
EXTENDS WorkflowRun, SubWorkflow, TLAPS

-----------------------------------------------------------------------------
(* The invariant.  A coroutine that has made its node READY owns the       *)
(* attempt of that node until it returns or raises.                        *)

Own == {"run", "limit", "work", "select", "choose", "join", "drain", "clean", "unwind",
        "complete", "fail", "timeout", "cancel", "retry"}
Active == Own \cup {"ready"}
Joining == {"join", "drain", "clean", "unwind"}
Ending == {"close", "sweep", "sweeping", "finish"}
Pcs == {"idle", "enter", "skip", "done"} \cup Active \cup Ending
Ends == {"none", "ok", "failed"} \cup Exceptions
Fine == {"SUCCEEDED", "SKIPPED"}
Failed == {"FAILED", "TIMED_OUT"}
Overdue == {"WorkflowCancelled", "WorkflowTimedOut"}

RowTyped ==
    /\ policy \in [Parallels -> Policies]
    /\ run \in {"PENDING", "RUNNING"} \cup RunTerminal
    /\ row \in [Nodes -> [status : NodeStatus, attempt : Nat \ {0}] \cup {NoRow}]
    /\ status \in [Nodes -> NodeStatus]
    /\ attempts \in [Nodes -> Nat \ {0}]
    /\ executed \subseteq Nodes
    /\ tolerated \subseteq Nodes
    /\ tolerated \cap Parallels = {}
    /\ invoked \in [Nodes -> Nat]
    /\ doomed \subseteq BranchIds
    /\ cancelled \in BOOLEAN
    /\ late \in BOOLEAN

CoRow == [pc : Pcs, at : Nat, end : Ends, try : Nat \ {0}, todo : SUBSET Nodes]

CoTyped ==
    /\ co \in [Coroutines -> CoRow]
    /\ \A c \in Coroutines : co[c].at \in 1..Len(List(c))

\* What a coroutine at this position may be, and has to raise
Shaped(c) ==
    /\ c \in BranchIds => co[c].pc \notin Joining \cup Ending
    /\ co[c].pc \notin {"unwind", "timeout", "cancel", "sweep", "sweeping", "finish", "done"} => co[c].end = "none"
    /\ co[c].pc \in {"unwind", "timeout"} => co[c].end \in {"none", "WorkflowTimedOut"}
    /\ co[c].pc = "cancel" => co[c].end \in {"WorkflowCancelled", "Cancelled"}
    /\ co[c].pc \in {"sweep", "sweeping"} => co[c].end \in Overdue
    /\ co[c].pc = "finish" => co[c].end \in Overdue \cup {"ok", "failed"}
    /\ co[c].pc = "done" => co[c].end # "none"
    /\ c = Main => co[c].end # "Cancelled"
    /\ co[c].end = "WorkflowCancelled" => cancelled

Due(n) == \A d \in Deps[n] \ Parallels : status[d] \in Fine

\* What an owner may rely on
Holds(c) ==
    LET n == Node(c) IN
    /\ co[c].pc \in Active => Due(n)
    /\ co[c].pc \in Own => row[n].attempt = attempts[n]
    /\ co[c].pc \in Own \ {"retry"} => row[n].status \in {"READY", "RUNNING", "SKIPPED", "CANCELLED"}
    /\ co[c].pc \in {"run", "limit"} => invoked[n] < attempts[n]
    /\ co[c].pc = "select" => Kind[n] = "condition"
    /\ co[c].pc = "retry" => row[n].status = "FAILED" /\ status[n] = "FAILED" /\ co[c].try < MaxAttempts[n]

Alone == \A c, d \in Coroutines : co[c].pc \in Own /\ co[d].pc \in Own /\ Node(c) = Node(d) => c = d

\* The database is ahead of the run by an attempt or a transition
Counted(n) ==
    /\ run # "PENDING" => row[n] # NoRow /\ row[n].attempt \in {attempts[n], attempts[n] + 1}
    /\ attempts[n] <= MaxAttempts[n] /\ row[n].attempt <= MaxAttempts[n]
    /\ status[n] \in Terminal => status[n] = row[n].status \/ (status[n] = "FAILED" /\ row[n].attempt > 1)
    /\ invoked[n] <= attempts[n]
    /\ row[n].status = "PENDING" /\ row[n].attempt = attempts[n] => invoked[n] < attempts[n]
    /\ invoked[n] > 0 => Due(n)

\* execute() has begun to end badly
Over ==
    \/ co[Main].pc \in {"sweep", "sweeping"}
    \/ co[Main].pc \in {"finish", "done"} /\ co[Main].end \in Exceptions

\* Who may have left a node that was executed before
Threw(c) == co[c].pc = "done" /\ co[c].end \in Exceptions
Loose(c, n) == Threw(c) \/ (co[c].pc \in Active /\ Node(c) = n)

Explained(n) ==
    /\ n \in executed /\ status[n] \notin Terminal => Over \/ \E c \in Coroutines : Loose(c, n)
    /\ status[n] = "CANCELLED" => cancelled \/ Over \/ \E b \in BranchIds : Threw(b)

\* A branch that has not returned belongs to a parallel node that fails
Stray(b) == co[b].pc # "idle" /\ ~ (co[b].pc = "done" /\ co[b].end \in {"ok", "failed"})
AtFault(p) ==
    \/ cancelled \/ Over
    \/ status[p] \in Failed
    \/ Node(Main) = p /\ co[Main].pc \in Joining \cup {"fail", "timeout", "cancel"}
Spawning(b) ==
    /\ co[b].pc # "idle" => row[b[1]].status \notin {"NONE", "PENDING", "READY"}
    /\ Stray(b) => AtFault(b[1])

\* execute() goes through all nodes
Visited ==
    /\ co[Main].pc \in {"enter", "skip"} \cup Active =>
          \A i \in 1..(co[Main].at - 1) : Order[i] \in executed
    /\ co[Main].pc = "close" => executed = Nodes

Won == co[Main].end = "ok" \/ run = "SUCCEEDED" => \A n \in Nodes : status[n] \in Fine \/ n \in tolerated

NotBegun ==
    run = "PENDING" =>
        /\ \A c \in Coroutines : co[c].pc = "idle" /\ co[c].at = 1
        /\ \A n \in Nodes : row[n] = NoRow /\ attempts[n] = 1 /\ invoked[n] = 0 /\ status[n] = "PENDING"

IInv ==
    /\ RowTyped /\ CoTyped
    /\ \A c \in Coroutines : Shaped(c) /\ Holds(c)
    /\ Alone
    /\ \A n \in Nodes : Counted(n) /\ Explained(n)
    /\ \A b \in BranchIds : Spawning(b)
    /\ Visited /\ Won /\ NotBegun

-----------------------------------------------------------------------------
(* Nodes, lists and coroutines.                                            *)

LEMMA ListsAre ==
    /\ \A c \in Coroutines : Len(List(c)) \in Nat \ {0} /\ \A i \in 1..Len(List(c)) : List(c)[i] \in Nodes
    /\ \A b \in BranchIds : b \in Coroutines /\ b # Main /\ b[1] \in Parallels /\ \A i \in 1..Len(List(b)) : List(b)[i] \notin Parallels
    /\ \A b \in BranchIds : Range(Branches[b[1]][b[2]]) \subseteq Nodes \ Parallels
    /\ Len(Order) \in Nat \ {0} /\ Nodes = {Order[i] : i \in 1..Len(Order)}
    /\ Main \in Coroutines /\ List(Main) = Order
    /\ Parallels \subseteq Nodes
<1>1. Order \in Seq(Nodes) \ {<<>>} /\ Main \notin BranchIds
      BY WorkflowRunAssumption DEF WorkflowRunAssumption
<1>2. Len(Order) \in Nat \ {0} /\ DOMAIN Order = 1..Len(Order) /\ \A i \in 1..Len(Order) : Order[i] \in Nodes
      BY <1>1
<1>3. Nodes = {Order[i] : i \in 1..Len(Order)}
      BY <1>2 DEF Nodes, Range
<1>4. ASSUME NEW b \in BranchIds
      PROVE  /\ b # Main /\ b[1] \in Parallels
             /\ List(b) \in Seq(Nodes \ Parallels) \ {<<>>} /\ List(b) = Branches[b[1]][b[2]]
  <2>1. PICK n \in Parallels : b \in {n} \X DOMAIN Branches[n]
        BY DEF BranchIds
  <2>2. Branches[n] \in Seq(Seq(Nodes \ Parallels) \ {<<>>})
        BY WorkflowRunAssumption DEF WorkflowRunAssumption
  <2>3. b[1] = n /\ b[2] \in DOMAIN Branches[n]
        BY <2>1
  <2>4. Branches[n][b[2]] \in Seq(Nodes \ Parallels) \ {<<>>}
        BY <2>2, <2>3
  <2>5. b # Main
        BY <1>1
  <2> QED BY <2>3, <2>4, <2>5 DEF List
<1>5. ASSUME NEW b \in BranchIds
      PROVE  /\ Len(List(b)) \in Nat \ {0} /\ \A i \in 1..Len(List(b)) : List(b)[i] \in Nodes \ Parallels
             /\ Range(Branches[b[1]][b[2]]) \subseteq Nodes \ Parallels
  <2>1. DOMAIN List(b) = 1..Len(List(b)) /\ \A i \in 1..Len(List(b)) : List(b)[i] \in Nodes \ Parallels
        BY <1>4
  <2>2. Range(List(b)) \subseteq Nodes \ Parallels
        BY <2>1 DEF Range
  <2> QED BY <1>4, <2>1, <2>2
<1>6. List(Main) = Order
      BY DEF List
<1>7. Parallels \subseteq Nodes
      BY DEF Parallels
<1>8. \A b \in BranchIds : b \in Coroutines
      BY DEF Coroutines
<1>9. \A c \in Coroutines : c = Main \/ c \in BranchIds
      BY DEF Coroutines
<1>10. Main \in Coroutines
      BY DEF Coroutines
<1> QED BY <1>2, <1>3, <1>4, <1>5, <1>6, <1>7, <1>8, <1>9, <1>10

LEMMA NodeIs ==
    ASSUME CoTyped, NEW c \in Coroutines
    PROVE  /\ Node(c) \in Nodes
           /\ c \in BranchIds => Node(c) \notin Parallels /\ c # Main
           /\ c # Main => c \in BranchIds
           /\ co[c] \in CoRow /\ co[c].at \in 1..Len(List(c))
BY ListsAre DEF CoTyped, Node, Coroutines

(* What a step does to the rows, as the other coroutines see it.           *)
Tame ==
    /\ \A n \in Nodes : status[n] \in Fine => status'[n] \in Fine
    /\ \A p \in Parallels : status[p] \in Failed => status'[p] \in Failed
    /\ \A p \in Parallels : row[p].status \notin {"NONE", "PENDING", "READY"} => row'[p].status \notin {"NONE", "PENDING", "READY"}
    /\ executed \subseteq executed' /\ tolerated \subseteq tolerated' /\ (cancelled => cancelled')

(* A step of the coroutine c leaves it as k and starts the branches S.     *)
Becomes(c, k, S) ==
    co' = [d \in Coroutines |-> IF d = c THEN k ELSE IF d \in S THEN [co[d] EXCEPT !.pc = "enter"] ELSE co[d]]

\* c does not leave an attempt behind that nobody accounts for
Accounts(c, k) ==
    /\ co[c].pc \in Active => \/ k.pc \in Active /\ k.at = co[c].at
                              \/ k.pc = "done" /\ k.end \in Exceptions
                              \/ Over' \/ status'[Node(c)] \in Terminal
    /\ \A n \in executed' : status'[n] \notin Terminal =>
          (n \in executed /\ status[n] \notin Terminal) \/ (k.pc \in Active /\ List(c)[k.at] = n)
    /\ \A n \in Nodes : status'[n] = "CANCELLED" =>
          status[n] = "CANCELLED" \/ cancelled' \/ Over' \/ (c \in BranchIds /\ k.pc = "done" /\ k.end \in Exceptions)

\* k owns what c owned, or what nobody owns
OwnsAlone(c, k) ==
    k.pc \in Own => \/ co[c].pc \in Own /\ k.at = co[c].at
                    \/ \A d \in Coroutines \ {c} : co[d].pc \in Own => Node(d) # List(c)[k.at]

\* execute() goes on
Proceeds(k) ==
    /\ Over => Over'
    /\ \A p \in Parallels : Node(Main) = p /\ co[Main].pc \in Joining \cup {"fail", "timeout", "cancel"} =>
          AtFault(p)' \/ \A b \in BranchIds : b[1] = p => ~ Stray(b)
    /\ k.pc \in {"enter", "skip"} \cup Active => \A i \in 1..(k.at - 1) : Order[i] \in executed'
    /\ k.pc = "close" => executed' = Nodes
    /\ k.end = "ok" => co[Main].end = "ok" \/ \A n \in Nodes : status[n] \in Fine \/ n \in tolerated

LEMMA StepKeeps ==
    ASSUME IInv, NEW c \in Coroutines, NEW k \in CoRow, NEW S \in SUBSET BranchIds, c \notin S,
           Becomes(c, k, S), k.at \in 1..Len(List(c)), k.pc # "idle", co[c].pc \notin {"idle", "done"},
           run # "PENDING", run' # "PENDING", run' = "SUCCEEDED" => run = "SUCCEEDED" \/ co[Main].end = "ok",
           RowTyped', Tame, \A n \in Nodes : Counted(n)',
           Shaped(c)', Holds(c)', \A d \in Coroutines \ {c} : d \notin S => Holds(d)',
           Accounts(c, k), OwnsAlone(c, k), c = Main => Proceeds(k),
           \A b \in S : co[b].pc = "idle" /\ AtFault(b[1])' /\ row'[b[1]].status \notin {"NONE", "PENDING", "READY"}
    PROVE  IInv'
<1>1. /\ co' \in [Coroutines -> CoRow] /\ co'[c] = k
      /\ \A d \in Coroutines : d # c => co'[d] = IF d \in S THEN [co[d] EXCEPT !.pc = "enter"] ELSE co[d]
      /\ \A d \in Coroutines : d # c => co'[d].at = co[d].at /\ co'[d].end = co[d].end
      /\ \A d \in Coroutines : d # c => co'[d].pc = IF d \in S THEN "enter" ELSE co[d].pc
  <2>1. co \in [Coroutines -> CoRow]
        BY DEF IInv, CoTyped
  <2>2. \A d \in Coroutines : [co[d] EXCEPT !.pc = "enter"] \in CoRow
        BY <2>1 DEF CoRow, Pcs
  <2>3. \A d \in Coroutines : co[d] = [pc |-> co[d].pc, at |-> co[d].at, end |-> co[d].end, try |-> co[d].try, todo |-> co[d].todo]
        BY <2>1 DEF CoRow
  <2> QED BY <2>1, <2>2, <2>3 DEF Becomes, CoRow
<1>2. CoTyped'
      BY <1>1 DEF IInv, CoTyped
<1>3. \A d \in Coroutines : Node(d)' = List(d)[co'[d].at]
      BY DEF Node
<1>4. \A d \in Coroutines \ {c} : Node(d)' = Node(d)
      BY <1>1 DEF Node
<1>5. \A d \in Coroutines : Shaped(d)'
  <2> SUFFICES ASSUME NEW d \in Coroutines, d # c PROVE Shaped(d)'
      OBVIOUS
  <2>1. Shaped(d)
        BY DEF IInv
  <2>2. CASE d \in S
    <3>1. co[d].end = "none"
          BY <2>1, <2>2 DEF Shaped
    <3> QED BY <1>1, <2>2, <3>1 DEF Shaped, Joining, Ending
  <2>3. CASE d \notin S
    <3>1. co'[d] = co[d]
          BY <1>1, <2>3
    <3> QED BY <2>1, <3>1 DEF Shaped, Tame
  <2> QED BY <2>2, <2>3
<1>6. \A d \in Coroutines : Holds(d)'
  <2>1. \A d \in S : d # c => co'[d].pc = "enter"
        BY <1>1, ListsAre
  <2>2. \A d \in S : d # c => Holds(d)'
        BY <2>1 DEF Holds, Active, Own
  <2> QED BY <2>2
<1>7. Alone'
  <2> SUFFICES ASSUME NEW d \in Coroutines, NEW e \in Coroutines, co'[d].pc \in Own, co'[e].pc \in Own, Node(d)' = Node(e)'
               PROVE  d = e
      BY DEF Alone
  <2>1. \A f \in Coroutines \ {c} : co'[f].pc \in Own => co[f].pc \in Own
        BY <1>1 DEF Own
  <2>2. CASE d # c /\ e # c
        BY <1>4, <2>1, <2>2 DEF IInv, Alone
  <2>3. ASSUME NEW f \in Coroutines \ {c}, co'[f].pc \in Own, k.pc \in Own, List(c)[k.at] = Node(f)
        PROVE  FALSE
    <3>1. co[f].pc \in Own
          BY <2>1, <2>3
    <3>2. co[c].pc \in Own /\ k.at = co[c].at
          BY <2>3, <3>1 DEF OwnsAlone
    <3>3. Node(c) = Node(f)
          BY <2>3, <3>2 DEF Node
    <3> QED BY <2>3, <3>1, <3>2, <3>3 DEF IInv, Alone
  <2> QED BY <1>1, <1>3, <1>4, <2>2, <2>3
<1>8. /\ Over => Over'
      /\ \A d \in Coroutines : Threw(d) => Threw(d)'
  <2>1. ASSUME c # Main PROVE co'[Main] = co[Main]
        BY <1>1, <2>1, ListsAre
  <2>2. Over => Over'
        BY <2>1 DEF Over, Proceeds
  <2>3. \A d \in Coroutines : Threw(d) => Threw(d)'
        BY <1>1 DEF Threw
  <2> QED BY <2>2, <2>3
<1>9. \A n \in Nodes : Explained(n)'
  <2> SUFFICES ASSUME NEW n \in Nodes PROVE Explained(n)'
      OBVIOUS
  <2>1. ASSUME n \in executed', status'[n] \notin Terminal
        PROVE  Over' \/ \E d \in Coroutines : Loose(d, n)'
    <3>1. CASE k.pc \in Active /\ List(c)[k.at] = n
          BY <1>1, <1>3, <3>1 DEF Loose
    <3>2. CASE n \in executed /\ status[n] \notin Terminal
      <4>1. Over \/ \E d \in Coroutines : Loose(d, n)
            BY <3>2 DEF IInv, Explained
      <4>2. ASSUME NEW d \in Coroutines, Loose(d, n) PROVE Over' \/ Loose(d, n)'
        <5>1. CASE Threw(d)
              BY <1>8, <5>1 DEF Loose
        <5>2. CASE co[d].pc \in Active /\ Node(d) = n /\ d # c
          <6>1. d \notin S
                BY <5>2 DEF Active, Own
          <6> QED BY <1>1, <1>4, <5>2, <6>1 DEF Loose
        <5>3. CASE co[d].pc \in Active /\ Node(d) = n /\ d = c
          <6>1. CASE k.pc \in Active /\ k.at = co[c].at
                BY <1>1, <1>3, <5>3, <6>1 DEF Loose, Node
          <6>2. CASE k.pc = "done" /\ k.end \in Exceptions
                BY <1>1, <5>3, <6>2 DEF Loose, Threw
          <6> QED BY <2>1, <5>3, <6>1, <6>2 DEF Accounts
        <5> QED BY <4>2, <5>1, <5>2, <5>3 DEF Loose
      <4> QED BY <1>8, <4>1, <4>2
    <3> QED BY <2>1, <3>1, <3>2 DEF Accounts
  <2>2. ASSUME status'[n] = "CANCELLED"
        PROVE  cancelled' \/ Over' \/ \E b \in BranchIds : Threw(b)'
    <3>1. CASE status[n] = "CANCELLED"
      <4>1. cancelled \/ Over \/ \E b \in BranchIds : Threw(b)
            BY <3>1 DEF IInv, Explained
      <4> QED BY <1>8, <4>1, ListsAre DEF Tame
    <3>2. CASE c \in BranchIds /\ k.pc = "done" /\ k.end \in Exceptions
          BY <1>1, <3>2 DEF Threw
    <3> QED BY <2>2, <3>1, <3>2 DEF Accounts
  <2> QED BY <2>1, <2>2 DEF Explained
<1>10. ASSUME NEW b \in BranchIds PROVE Spawning(b)'
  <2>1. b \in Coroutines /\ b[1] \in Parallels /\ b # Main
        BY ListsAre
  <2>2. CASE b \in S
        BY <2>2 DEF Spawning
  <2>3. CASE b \notin S
    <3>1. co'[b].pc # "idle" => co[b].pc # "idle"
          BY <1>1, <2>1, <2>3
    <3>2. Stray(b)' => Stray(b)
          BY <1>1, <2>1, <2>3 DEF Stray
    <3>3. co'[b].pc # "idle" => row'[b[1]].status \notin {"NONE", "PENDING", "READY"}
          BY <2>1, <3>1 DEF IInv, Spawning, Tame
    <3>4. ASSUME Stray(b)' PROVE AtFault(b[1])'
      <4>1. AtFault(b[1])
            BY <3>2, <3>4 DEF IInv, Spawning
      <4>2. CASE cancelled \/ Over
            BY <1>8, <4>2 DEF AtFault, Tame
      <4>3. CASE status[b[1]] \in Failed
            BY <2>1, <4>3 DEF AtFault, Tame
      <4>4. CASE Node(Main) = b[1] /\ co[Main].pc \in Joining \cup {"fail", "timeout", "cancel"}
        <5>1. CASE c = Main
              BY <2>1, <3>2, <3>4, <4>4, <5>1 DEF Proceeds
        <5>2. CASE c # Main
          <6>1. co'[Main] = co[Main] /\ Node(Main)' = Node(Main)
                BY <1>1, <1>4, <5>2, ListsAre
          <6> QED BY <4>4, <6>1 DEF AtFault
        <5> QED BY <5>1, <5>2
      <4> QED BY <4>1, <4>2, <4>3, <4>4 DEF AtFault
    <3> QED BY <3>3, <3>4 DEF Spawning
  <2> QED BY <2>2, <2>3
<1>11. Visited' /\ Won'
  <2>1. CASE c = Main
    <3>1. Visited'
          BY <1>1, <2>1 DEF Visited, Proceeds
    <3>2. Won'
          BY <1>1, <2>1 DEF IInv, Won, Proceeds, Tame
    <3> QED BY <3>1, <3>2
  <2>2. CASE c # Main
    <3>1. co'[Main] = co[Main]
          BY <1>1, <2>2, ListsAre
    <3>2. executed' \subseteq Nodes
          BY DEF RowTyped
    <3>3. Visited'
          BY <3>1, <3>2 DEF IInv, Visited, Tame
    <3>4. Won'
          BY <3>1 DEF IInv, Won, Tame
    <3> QED BY <3>3, <3>4
  <2> QED BY <2>1, <2>2
<1>12. NotBegun'
      BY DEF NotBegun
<1> QED BY <1>2, <1>5, <1>6, <1>7, <1>9, <1>10, <1>11, <1>12 DEF IInv

-----------------------------------------------------------------------------
(* Steps that leave the rows alone.                                        *)

RowsStay == UNCHANGED <<policy, run, row, status, executed, attempts, invoked, cancelled, late>>

\* min_success may tolerate more, a join may cancel branches
Extends ==
    /\ tolerated \subseteq tolerated' /\ tolerated' \subseteq Nodes /\ tolerated' \cap Parallels = {}
    /\ doomed' \subseteq BranchIds

LEMMA Begun ==
    ASSUME IInv, NEW c \in Coroutines, co[c].pc # "idle"
    PROVE  run # "PENDING"
BY DEF IInv, NotBegun

LEMMA QuietStep ==
    ASSUME IInv, NEW c \in Coroutines, NEW k \in CoRow, co' = [co EXCEPT ![c] = k],
           k.at \in 1..Len(List(c)), k.pc # "idle", co[c].pc \notin {"idle", "done"}, RowsStay, Extends,
           Shaped(c)', Holds(c)', Accounts(c, k), OwnsAlone(c, k), c = Main => Proceeds(k)
    PROVE  IInv'
<1>1. Becomes(c, k, {})
      BY DEF Becomes, IInv, CoTyped
<1>2. /\ run' = run /\ row' = row /\ status' = status /\ executed' = executed /\ attempts' = attempts
      /\ invoked' = invoked /\ cancelled' = cancelled /\ policy' = policy /\ late' = late
      BY DEF RowsStay
<1>3. RowTyped'
      BY <1>2 DEF IInv, RowTyped, Extends
<1>4. Tame
      BY <1>2 DEF Tame, Extends
<1>5. \A n \in Nodes : Counted(n)'
      BY <1>2 DEF IInv, Counted, Due
<1>6. ASSUME NEW d \in Coroutines \ {c} PROVE Holds(d)'
  <2>1. co'[d] = co[d] /\ Node(d)' = Node(d)
        BY DEF IInv, CoTyped, Node
  <2>2. Holds(d)
        BY DEF IInv
  <2> QED BY <1>2, <2>1, <2>2 DEF Holds, Due
<1>7. run # "PENDING"
      BY Begun
<1> QED BY <1>1, <1>2, <1>3, <1>4, <1>5, <1>6, <1>7, StepKeeps

(* The owner of an attempt moves on within it.                             *)
LEMMA StayStep ==
    ASSUME IInv, NEW c \in Coroutines, co[c].pc \in Own \ {"retry"},
           NEW k \in CoRow, k.pc \in Own \ {"run", "limit", "select", "retry"}, k.at = co[c].at,
           co' = [co EXCEPT ![c] = k], RowsStay, Extends, Shaped(c)',
           c = Main /\ co[Main].pc \in Joining \cup {"fail", "timeout", "cancel"} =>
              k.pc \in Joining \cup {"fail", "timeout", "cancel"} \/ \A b \in BranchIds : b[1] = Node(Main) => ~ Stray(b)
    PROVE  IInv'
<1>1. co'[c] = k /\ Node(c)' = Node(c) /\ k.at \in 1..Len(List(c)) /\ List(c)[k.at] = Node(c)
      BY DEF IInv, CoTyped, Node
<1>2. k.pc \in Active /\ co[c].pc \in Active /\ k.pc # "idle" /\ co[c].pc \notin {"idle", "done"}
      BY DEF Active, Own
<1>3. /\ run' = run /\ row' = row /\ status' = status /\ executed' = executed /\ attempts' = attempts
      /\ invoked' = invoked /\ cancelled' = cancelled
      BY DEF RowsStay
<1>4. Holds(c)'
  <2>1. Holds(c)
        BY DEF IInv
  <2>2. row[Node(c)].attempt = attempts[Node(c)] /\ Due(Node(c))
        BY <1>2, <2>1 DEF Holds
  <2>3. row[Node(c)].status \in {"READY", "RUNNING", "SKIPPED", "CANCELLED"}
        BY <2>1 DEF Holds
  <2>4. Due(Node(c))'
        BY <1>1, <1>3, <2>2 DEF Due
  <2> QED BY <1>1, <1>3, <2>2, <2>3, <2>4 DEF Holds
<1>5. Accounts(c, k)
      BY <1>2, <1>3 DEF Accounts
<1>6. OwnsAlone(c, k)
      BY DEF OwnsAlone
<1>7. ASSUME c = Main PROVE Proceeds(k)
  <2>1. ~ Over
        BY <1>7 DEF Over, Own
  <2>2. ASSUME NEW p \in Parallels, Node(Main) = p, co[Main].pc \in Joining \cup {"fail", "timeout", "cancel"}
        PROVE  AtFault(p)' \/ \A b \in BranchIds : b[1] = p => ~ Stray(b)
        BY <1>1, <1>7, <2>2 DEF AtFault
  <2>3. \A i \in 1..(co[Main].at - 1) : Order[i] \in executed
        BY <1>2, <1>7 DEF IInv, Visited
  <2>4. k.pc # "close"
        BY DEF Own
  <2>5. k.end # "ok"
        BY <1>1 DEF Shaped, Own, Overdue
  <2> QED BY <1>3, <1>7, <2>1, <2>2, <2>3, <2>4, <2>5 DEF Proceeds
<1> QED BY <1>1, <1>2, <1>4, <1>5, <1>6, <1>7, QuietStep

(* An exception leaves _execute_node().                                    *)
LEMMA RaisedIs ==
    ASSUME CoTyped, NEW c \in Coroutines, NEW e \in Exceptions
    PROVE  /\ Raised(c, e) \in CoRow /\ Raised(c, e).at \in 1..Len(List(c)) /\ Raised(c, e).end = e
           /\ c # Main \/ e = "Error" => Raised(c, e).pc = "done"
           /\ c = Main /\ e # "Error" => Raised(c, e).pc = "sweep"
<1>1. co[c] \in CoRow /\ co[c].at \in 1..Len(List(c)) /\ Len(List(c)) \in Nat \ {0}
      BY ListsAre DEF CoTyped
<1>2. e \in Ends /\ "done" \in Pcs /\ "sweep" \in Pcs
      BY DEF Ends, Pcs, Ending
<1>3. CASE c = Main /\ e # "Error"
  <2>1. Raised(c, e) = [co[c] EXCEPT !.pc = "sweep", !.at = 1, !.end = e]
        BY <1>3 DEF Raised
  <2>2. 1 \in 1..Len(List(c))
        BY <1>1
  <2>3. Raised(c, e) \in CoRow
    <3>1. co[c] = [pc |-> co[c].pc, at |-> co[c].at, end |-> co[c].end, try |-> co[c].try, todo |-> co[c].todo]
          BY <1>1 DEF CoRow
    <3>2. Raised(c, e) = [pc |-> "sweep", at |-> 1, end |-> e, try |-> co[c].try, todo |-> co[c].todo]
          BY <2>1, <3>1
    <3> QED BY <1>1, <1>2, <3>2 DEF CoRow
  <2>4. Raised(c, e).at = 1 /\ Raised(c, e).end = e /\ Raised(c, e).pc = "sweep"
        BY <1>1, <2>1 DEF CoRow
  <2> QED BY <1>3, <2>2, <2>3, <2>4
<1>4. CASE ~ (c = Main /\ e # "Error")
  <2>1. Raised(c, e) = [co[c] EXCEPT !.pc = "done", !.end = e]
        BY <1>4 DEF Raised
  <2> QED BY <1>1, <1>2, <1>4, <2>1 DEF CoRow
<1> QED BY <1>3, <1>4

LEMMA RaiseStep ==
    ASSUME IInv, NEW c \in Coroutines, co[c].pc \notin {"idle", "done"}, NEW e \in Exceptions,
           co' = [co EXCEPT ![c] = Raised(c, e)], RowsStay, tolerated' = tolerated, doomed' \subseteq BranchIds,
           e = "WorkflowCancelled" => cancelled, c = Main => e # "Cancelled"
    PROVE  IInv'
<1> DEFINE k == Raised(c, e)
<1>1. /\ k \in CoRow /\ k.at \in 1..Len(List(c)) /\ k.end = e
      /\ c # Main \/ e = "Error" => k.pc = "done"
      /\ c = Main /\ e # "Error" => k.pc = "sweep"
      BY RaisedIs DEF IInv
<1>2. co'[c] = k
      BY DEF IInv, CoTyped
<1>3. co' = [co EXCEPT ![c] = k]
      OBVIOUS
<1> HIDE DEF k
<1>4. k.pc \in {"done", "sweep"} /\ k.pc \notin Active /\ k.pc # "idle"
      BY <1>1 DEF Active, Own
<1>5. /\ run' = run /\ row' = row /\ status' = status /\ executed' = executed /\ attempts' = attempts
      /\ invoked' = invoked /\ cancelled' = cancelled
      BY DEF RowsStay
<1>6. Shaped(c)'
  <2>1. e \notin {"none", "ok", "failed"}
        BY DEF Exceptions
  <2>2. c = Main /\ e # "Error" => e \in Overdue
        BY DEF Exceptions, Overdue
  <2>3. c # Main => k.pc = "done"
        BY <1>1
  <2>4. c = Main => c \notin BranchIds
        BY ListsAre
  <2> QED BY <1>1, <1>2, <1>4, <1>5, <2>1, <2>2, <2>3, <2>4 DEF Shaped, Joining, Ending
<1>7. Holds(c)'
      BY <1>2, <1>4 DEF Holds, Active, Own
<1>8. c = Main => Over'
      BY <1>1, <1>2 DEF Over
<1>9. c # Main => k.pc = "done" /\ k.end \in Exceptions
      BY <1>1
<1>10. Accounts(c, k)
      BY <1>5, <1>8, <1>9 DEF Accounts
<1>11. OwnsAlone(c, k)
      BY <1>4 DEF OwnsAlone, Active
<1>12. ASSUME c = Main PROVE Proceeds(k)
  <2>1. \A p \in Parallels : AtFault(p)'
        BY <1>8, <1>12 DEF AtFault
  <2>2. k.end # "ok"
        BY <1>1 DEF Exceptions
  <2> QED BY <1>4, <1>8, <1>12, <2>1, <2>2 DEF Proceeds
<1>13. Extends
      BY DEF Extends, IInv, RowTyped
<1> QED BY <1>1, <1>3, <1>4, <1>6, <1>7, <1>10, <1>11, <1>12, <1>13, QuietStep

-----------------------------------------------------------------------------
(* Steps that store a transition of one node.                              *)

LEMMA AllowedIs ==
    ASSUME NEW a, NEW b, Allowed(a, b)
    PROVE  /\ a \in {"PENDING", "READY", "RUNNING"} /\ b \in NodeStatus \ {"PENDING"}
           /\ b = "READY" => a = "PENDING"
           /\ b = "RUNNING" => a = "READY"
BY DEF Allowed, Terminal, NodeStatus

LEMMA StoredIs ==
    ASSUME IInv, run # "PENDING", NEW n \in Nodes, NEW s, Allowed(Stored(n), s)
    PROVE  /\ row[n].attempt = attempts[n] /\ Stored(n) = row[n].status
           /\ row[n].status \in {"PENDING", "READY", "RUNNING"}
           /\ row[n] \in [status : NodeStatus, attempt : Nat \ {0}]
           /\ status[n] \notin Fine
           /\ n \in Parallels => status[n] \notin Failed
<1>1. Stored(n) \in {"PENDING", "READY", "RUNNING"}
      BY AllowedIs
<1>2. row[n].attempt = attempts[n] /\ Stored(n) = row[n].status
      BY <1>1 DEF Stored
<1>3. Counted(n) /\ row[n] # NoRow /\ row[n] \in [status : NodeStatus, attempt : Nat \ {0}] \cup {NoRow}
      BY DEF IInv, Counted, RowTyped
<1>4. status[n] \in Terminal => status[n] = "FAILED" /\ row[n].attempt > 1
      BY <1>1, <1>2, <1>3 DEF Counted, Terminal
<1>5. n \in Parallels => row[n].attempt <= 1
      BY <1>3, WorkflowRunAssumption DEF Counted, WorkflowRunAssumption
<1> QED BY <1>1, <1>2, <1>3, <1>4, <1>5 DEF Fine, Failed, Terminal

RowsMove == UNCHANGED <<policy, run, attempts, tolerated, invoked, cancelled, late, doomed>>

LEMMA StoreFacts ==
    ASSUME IInv, run # "PENDING", NEW n \in Nodes, NEW s \in NodeStatus, Allowed(Stored(n), s), Store(n, s), RowsMove
    PROVE  /\ Tame /\ RowTyped' /\ \A m \in Nodes : Counted(m)'
           /\ \A m \in Nodes : row'[m].attempt = row[m].attempt /\ row'[m].status = IF m = n THEN s ELSE row[m].status
           /\ \A m \in Nodes : status'[m] = IF m = n THEN s ELSE status[m]
           /\ executed' = IF s \in Terminal THEN executed \cup {n} ELSE executed
           /\ \A m \in Nodes : Due(m) => Due(m)'
<1>1. s # "PENDING"
      BY AllowedIs
<1>2. /\ row[n].attempt = attempts[n] /\ row[n].status \in {"PENDING", "READY", "RUNNING"}
      /\ row[n] \in [status : NodeStatus, attempt : Nat \ {0}]
      /\ status[n] \notin Fine /\ (n \in Parallels => status[n] \notin Failed)
      BY StoredIs
<1>3. /\ policy' = policy /\ run' = run /\ attempts' = attempts /\ tolerated' = tolerated /\ invoked' = invoked
      /\ cancelled' = cancelled /\ late' = late /\ doomed' = doomed
      BY DEF RowsMove
<1>4. /\ row' = [row EXCEPT ![n].status = s] /\ status' = [status EXCEPT ![n] = s]
      /\ executed' = IF s \in Terminal THEN executed \cup {n} ELSE executed
      BY DEF Store
<1>5. row'[n] = [status |-> s, attempt |-> row[n].attempt] /\ \A m \in Nodes : m # n => row'[m] = row[m]
      BY <1>2, <1>4 DEF IInv, RowTyped
<1>6. \A m \in Nodes : row'[m].attempt = row[m].attempt /\ row'[m].status = IF m = n THEN s ELSE row[m].status
      BY <1>5
<1>7. \A m \in Nodes : status'[m] = IF m = n THEN s ELSE status[m]
      BY <1>4 DEF IInv, RowTyped
<1>8. \A m \in Nodes : status[m] \in Fine => status'[m] = status[m]
      BY <1>2, <1>7
<1>9. \A m \in Nodes : Due(m) => Due(m)'
  <2>1. \A m \in Nodes : Deps[m] \subseteq Nodes
        BY WorkflowRunAssumption DEF WorkflowRunAssumption
  <2> QED BY <1>8, <2>1 DEF Due
<1>10. Tame
  <2>1. \A p \in Parallels : p \in Nodes
        BY ListsAre
  <2>2. \A p \in Parallels : status[p] \in Failed => status'[p] \in Failed
        BY <1>2, <1>7, <2>1
  <2>3. s = "READY" => row[n].status = "PENDING"
        BY AllowedIs, StoredIs
  <2>4. \A p \in Parallels : row[p].status \notin {"NONE", "PENDING", "READY"} =>
            row'[p].status \notin {"NONE", "PENDING", "READY"}
        BY <1>1, <1>6, <2>1, <2>3 DEF NodeStatus, Terminal
  <2> QED BY <1>3, <1>4, <1>8, <2>2, <2>4 DEF Tame
<1>11. RowTyped'
  <2>1. row' \in [Nodes -> [status : NodeStatus, attempt : Nat \ {0}] \cup {NoRow}]
    <3>1. row'[n] \in [status : NodeStatus, attempt : Nat \ {0}]
          BY <1>2, <1>5
    <3> QED BY <1>4, <1>5, <3>1 DEF IInv, RowTyped
  <2>2. status' \in [Nodes -> NodeStatus]
        BY <1>4 DEF IInv, RowTyped
  <2>3. executed' \subseteq Nodes
        BY <1>4 DEF IInv, RowTyped
  <2> QED BY <1>3, <2>1, <2>2, <2>3 DEF IInv, RowTyped
<1>12. ASSUME NEW m \in Nodes PROVE Counted(m)'
  <2>1. Counted(m)
        BY DEF IInv
  <2>2. row'[m] # NoRow
    <3>1. row[m] # NoRow
          BY <2>1 DEF Counted
    <3>2. row'[n] # NoRow
          BY <1>2, <1>5 DEF NoRow
    <3> QED BY <1>5, <3>1, <3>2
  <2>3. status'[m] \in Terminal => status'[m] = row'[m].status \/ (status'[m] = "FAILED" /\ row'[m].attempt > 1)
        BY <1>6, <1>7, <2>1 DEF Counted
  <2>4. row'[m].status = "PENDING" /\ row'[m].attempt = attempts'[m] => invoked'[m] < attempts'[m]
        BY <1>1, <1>3, <1>6, <2>1 DEF Counted
  <2>5. invoked'[m] > 0 => Due(m)'
        BY <1>3, <1>9, <2>1 DEF Counted
  <2> QED BY <1>3, <1>6, <2>1, <2>2, <2>3, <2>4, <2>5 DEF Counted
<1> QED BY <1>4, <1>6, <1>7, <1>9, <1>10, <1>11, <1>12

LEMMA StoreStep ==
    ASSUME IInv, NEW c \in Coroutines, NEW k \in CoRow, NEW S \in SUBSET BranchIds, c \notin S,
           Becomes(c, k, S), k.at \in 1..Len(List(c)), k.pc # "idle", co[c].pc \notin {"idle", "done"},
           NEW n \in Nodes, NEW s \in NodeStatus, Allowed(Stored(n), s), Store(n, s), RowsMove,
           s \in {"SUCCEEDED", "FAILED", "TIMED_OUT"} => co[c].pc \in Own /\ Node(c) = n,
           Shaped(c)', Holds(c)', Accounts(c, k), OwnsAlone(c, k), c = Main => Proceeds(k),
           \A b \in S : co[b].pc = "idle" /\ AtFault(b[1])' /\ row'[b[1]].status \notin {"NONE", "PENDING", "READY"}
    PROVE  IInv'
<1>1. run # "PENDING"
      BY Begun
<1>2. run' = run /\ attempts' = attempts /\ invoked' = invoked
      BY DEF RowsMove
<1>3. /\ Tame /\ RowTyped' /\ \A m \in Nodes : Counted(m)'
      /\ \A m \in Nodes : row'[m].attempt = row[m].attempt /\ row'[m].status = IF m = n THEN s ELSE row[m].status
      /\ \A m \in Nodes : status'[m] = IF m = n THEN s ELSE status[m]
      /\ \A m \in Nodes : Due(m) => Due(m)'
      BY <1>1, StoreFacts
<1>4. row[n].status \in {"PENDING", "READY", "RUNNING"} /\ s \in NodeStatus \ {"PENDING"}
      /\ (s = "READY" => row[n].status = "PENDING")
      BY <1>1, AllowedIs, StoredIs
<1>5. ASSUME NEW d \in Coroutines \ {c}, d \notin S PROVE Holds(d)'
  <2>1. co'[d] = co[d] /\ Node(d)' = Node(d)
        BY <1>5 DEF Becomes, Node
  <2>2. Holds(d) /\ Node(d) \in Nodes
        BY NodeIs DEF IInv
  <2>3. CASE Node(d) # n
        BY <1>2, <1>3, <2>1, <2>2, <2>3 DEF Holds
  <2>4. CASE Node(d) = n /\ co[d].pc \notin Own
    <3>1. co[d].pc \notin {"run", "limit", "retry"}
          BY <2>4 DEF Own
    <3> QED BY <1>3, <2>1, <2>2, <2>4, <3>1 DEF Holds
  <2>5. CASE Node(d) = n /\ co[d].pc \in Own
    <3>1. co[d].pc # "retry"
          BY <1>4, <2>2, <2>5 DEF Holds
    <3>2. row[n].status # "PENDING"
          BY <2>2, <2>5, <3>1 DEF Holds
    <3>3. s \notin {"SUCCEEDED", "FAILED", "TIMED_OUT"}
          BY <2>5 DEF IInv, Alone
    <3>4. s \in {"RUNNING", "SKIPPED", "CANCELLED"}
          BY <1>4, <3>2, <3>3 DEF NodeStatus, Terminal
    <3> QED BY <1>2, <1>3, <2>1, <2>2, <2>5, <3>1, <3>4 DEF Holds
  <2> QED BY <2>3, <2>4, <2>5
<1> QED BY <1>1, <1>2, <1>3, <1>5, StepKeeps

-----------------------------------------------------------------------------
(* _execute_node() returns.                                                *)

LEMMA GuardIs ==
    /\ Guard = "none" \/ (Guard \in Overdue /\ Guard \in Exceptions)
    /\ Guard = "WorkflowCancelled" => cancelled
BY DEF Guard, Overdue, Exceptions

LEMMA ReturnedIs ==
    ASSUME CoTyped, NEW c \in Coroutines, NEW r
    PROVE  /\ Returned(c, r) \in CoRow /\ Returned(c, r).at \in 1..Len(List(c))
           /\ \/ c # Main /\ Returned(c, r).pc = "done" /\ Returned(c, r).end \in {"ok", "failed"}
              \/ Returned(c, r).pc = "enter" /\ Returned(c, r).at = co[c].at + 1 /\ Returned(c, r).end = "none"
              \/ c = Main /\ Returned(c, r).pc = "close" /\ Returned(c, r).end = co[c].end /\ co[c].at = Len(Order)
<1>1. co[c] \in CoRow /\ co[c].at \in 1..Len(List(c)) /\ Len(List(c)) \in Nat \ {0}
      BY ListsAre DEF CoTyped
<1>2. co[c] = [pc |-> co[c].pc, at |-> co[c].at, end |-> co[c].end, try |-> co[c].try, todo |-> co[c].todo]
      BY <1>1 DEF CoRow
<1>3. "done" \in Pcs /\ "enter" \in Pcs /\ "close" \in Pcs /\ {"none", "ok", "failed"} \subseteq Ends
      BY DEF Pcs, Ending, Ends
<1>4. CASE c # Main /\ r \in {"FAILED", "TIMED_OUT"}
  <2>1. Returned(c, r) = [co[c] EXCEPT !.pc = "done", !.end = "failed"]
        BY <1>4 DEF Returned
  <2>2. Returned(c, r) = [pc |-> "done", at |-> co[c].at, end |-> "failed", try |-> co[c].try, todo |-> co[c].todo]
        BY <1>2, <2>1
  <2> QED BY <1>1, <1>3, <1>4, <2>2 DEF CoRow
<1>5. CASE ~ (c # Main /\ r \in {"FAILED", "TIMED_OUT"}) /\ co[c].at < Len(List(c))
  <2>1. Returned(c, r) = [co[c] EXCEPT !.pc = "enter", !.at = @ + 1, !.end = "none"]
        BY <1>5 DEF Returned
  <2>2. Returned(c, r) = [pc |-> "enter", at |-> co[c].at + 1, end |-> "none", try |-> co[c].try, todo |-> co[c].todo]
        BY <1>2, <2>1
  <2>3. co[c].at + 1 \in 1..Len(List(c)) /\ co[c].at + 1 \in Nat
        BY <1>1, <1>5
  <2> QED BY <1>1, <1>3, <2>2, <2>3 DEF CoRow
<1>6. CASE ~ (co[c].at < Len(List(c))) /\ c = Main
  <2>1. Returned(c, r) = [co[c] EXCEPT !.pc = "close"]
        BY <1>6 DEF Returned
  <2>2. Returned(c, r) = [pc |-> "close", at |-> co[c].at, end |-> co[c].end, try |-> co[c].try, todo |-> co[c].todo]
        BY <1>2, <2>1
  <2>3. co[c].at = Len(Order)
        BY <1>1, <1>6, ListsAre
  <2> QED BY <1>1, <1>3, <1>6, <2>2, <2>3 DEF CoRow
<1>7. CASE ~ (c # Main /\ r \in {"FAILED", "TIMED_OUT"}) /\ ~ (co[c].at < Len(List(c))) /\ c # Main
  <2>1. Returned(c, r) = [co[c] EXCEPT !.pc = "done", !.end = "ok"]
        BY <1>7 DEF Returned
  <2>2. Returned(c, r) = [pc |-> "done", at |-> co[c].at, end |-> "ok", try |-> co[c].try, todo |-> co[c].todo]
        BY <1>2, <2>1
  <2> QED BY <1>1, <1>3, <1>7, <2>2 DEF CoRow
<1> QED BY <1>4, <1>5, <1>6, <1>7

LEMMA ReturnedFits ==
    ASSUME IInv, NEW c \in Coroutines, co[c].pc \in {"enter", "skip"} \cup Active, co[c].end = "none",
           NEW r, co'[c] = Returned(c, r), Node(c) \in executed', executed \subseteq executed', executed' \subseteq Nodes
    PROVE  /\ Shaped(c)' /\ Holds(c)' /\ OwnsAlone(c, Returned(c, r))
           /\ Returned(c, r).pc \notin {"idle"} \cup Active
           /\ c = Main =>
                 /\ ~ Over
                 /\ Returned(c, r).pc \in {"enter", "skip"} \cup Active =>
                       \A i \in 1..(Returned(c, r).at - 1) : Order[i] \in executed'
                 /\ Returned(c, r).pc = "close" => executed' = Nodes
                 /\ Returned(c, r).end # "ok"
<1> DEFINE k == Returned(c, r)
<1>1. /\ k \in CoRow /\ k.at \in 1..Len(List(c))
      /\ \/ c # Main /\ k.pc = "done" /\ k.end \in {"ok", "failed"}
         \/ k.pc = "enter" /\ k.at = co[c].at + 1 /\ k.end = "none"
         \/ c = Main /\ k.pc = "close" /\ k.end = co[c].end /\ co[c].at = Len(Order)
      BY ReturnedIs DEF IInv
<1>2. co'[c] = k
      OBVIOUS
<1> HIDE DEF k
<1>3. k.pc \notin {"idle", "skip"} \cup Active
      BY <1>1 DEF Active, Own
<1>4. Shaped(c)'
  <2>1. k.end \in {"none", "ok", "failed"} /\ (k.pc = "done" => k.end # "none")
        BY <1>1
  <2>2. c \in BranchIds => k.pc \in {"done", "enter"}
        BY <1>1, ListsAre
  <2>3. k.pc # "done" => k.end = "none" /\ k.pc \in {"enter", "close"}
        BY <1>1
  <2> QED BY <1>2, <2>1, <2>2, <2>3 DEF Shaped, Joining, Ending
<1>5. Holds(c)'
      BY <1>2, <1>3 DEF Holds, Active, Own
<1>6. OwnsAlone(c, k)
      BY <1>3 DEF OwnsAlone, Active
<1>7. ASSUME c = Main
      PROVE  /\ ~ Over
             /\ k.pc \in {"enter", "skip"} \cup Active => \A i \in 1..(k.at - 1) : Order[i] \in executed'
             /\ k.pc = "close" => executed' = Nodes
             /\ k.end # "ok"
  <2>1. ~ Over
        BY <1>7 DEF Over, Active, Own
  <2>2. Node(c) = Order[co[c].at] /\ co[c].at \in 1..Len(Order) /\ Len(Order) \in Nat
        BY <1>7, ListsAre DEF Node, IInv, CoTyped
  <2>3. \A i \in 1..(co[c].at - 1) : Order[i] \in executed'
        BY <1>7 DEF IInv, Visited
  <2>4. \A i \in 1..co[c].at : Order[i] \in executed'
        BY <2>2, <2>3
  <2>5. k.pc = "enter" => \A i \in 1..(k.at - 1) : Order[i] \in executed'
        BY <1>1, <1>7, <2>2, <2>4
  <2>6. k.pc = "close" => executed' = Nodes
        BY <1>1, <2>4, ListsAre
  <2>7. k.end # "ok"
        BY <1>1, <1>7
  <2> QED BY <1>3, <2>1, <2>5, <2>6, <2>7
<1>8. k.pc \notin {"idle"} \cup Active
      BY <1>3
<1> QED BY <1>4, <1>5, <1>6, <1>7, <1>8 DEF k

-----------------------------------------------------------------------------
(* _execute_node() begins.                                                 *)

LEMMA EnterKeeps ==
    ASSUME IInv, NEW c \in Coroutines, Enter(c)
    PROVE  IInv'
<1> DEFINE n == Node(c)
<1>1. co[c].pc = "enter" /\ co[c] \in CoRow /\ co[c].at \in 1..Len(List(c)) /\ co \in [Coroutines -> CoRow]
      BY DEF Enter, Runs, IInv, CoTyped
<1>2. co[c].pc \notin {"idle", "done"} /\ co[c].pc \notin Active /\ co[c].end = "none"
  <2>1. Shaped(c)
        BY DEF IInv
  <2> QED BY <1>1, <2>1 DEF Shaped, Active, Own
<1>3. /\ policy' = policy /\ run' = run /\ row' = row /\ status' = status /\ executed' = executed /\ attempts' = attempts
      /\ tolerated' = tolerated /\ invoked' = invoked /\ doomed' = doomed /\ cancelled' = cancelled /\ late' = late
      BY DEF Enter, memory
<1>4. RowsStay /\ Extends /\ doomed' \subseteq BranchIds
      BY <1>3 DEF RowsStay, Extends, IInv, RowTyped
<1>5. ASSUME NEW e \in Exceptions, co' = [co EXCEPT ![c] = Raised(c, e)], e = "Error" \/ e = Guard PROVE IInv'
  <2>1. e = "WorkflowCancelled" => cancelled
        BY <1>5, GuardIs
  <2>2. e # "Cancelled"
        BY <1>5, GuardIs DEF Overdue
  <2> QED BY <1>2, <1>3, <1>4, <1>5, <2>1, <2>2, RaiseStep
<1>6. ASSUME NEW k \in CoRow, co' = [co EXCEPT ![c] = k], k.pc \notin {"idle"} \cup Active
      PROVE Accounts(c, k)
      BY <1>2, <1>3 DEF Accounts
<1>7. CASE co' = [co EXCEPT ![c] = Returned(c, status[n])] /\ n \in executed
  <2> DEFINE k == Returned(c, status[n])
  <2>1. k \in CoRow /\ k.at \in 1..Len(List(c))
        BY ReturnedIs DEF IInv
  <2>2. co'[c] = k
        BY <1>1, <1>7
  <2>3. /\ Shaped(c)' /\ Holds(c)' /\ OwnsAlone(c, k) /\ k.pc \notin {"idle"} \cup Active
        /\ c = Main =>
              /\ ~ Over
              /\ k.pc \in {"enter", "skip"} \cup Active => \A i \in 1..(k.at - 1) : Order[i] \in executed'
              /\ k.pc = "close" => executed' = Nodes
              /\ k.end # "ok"
        BY <1>1, <1>2, <1>3, <1>7, <2>2, ReturnedFits DEF IInv, RowTyped
  <2>4. co' = [co EXCEPT ![c] = k]
        BY <1>7
  <2> HIDE DEF k
  <2>5. c = Main => Proceeds(k)
        BY <1>1, <2>3 DEF Proceeds, Joining
  <2>6. Accounts(c, k)
        BY <1>6, <2>1, <2>3, <2>4
  <2> QED BY <1>2, <1>4, <2>1, <2>3, <2>4, <2>5, <2>6, QuietStep
<1>8. CASE co' = [co EXCEPT ![c] = [@ EXCEPT !.pc = "skip"]]
  <2> DEFINE k == [co[c] EXCEPT !.pc = "skip"]
  <2>1. /\ k \in CoRow /\ k.pc = "skip" /\ k.at = co[c].at /\ k.end = co[c].end
        BY <1>1 DEF CoRow, Pcs
  <2>2. co' = [co EXCEPT ![c] = k] /\ co'[c] = k
        BY <1>1, <1>8
  <2> HIDE DEF k
  <2>3. k.pc \notin {"idle"} \cup Active
        BY <2>1 DEF Active, Own
  <2>4. Shaped(c)' /\ Holds(c)' /\ OwnsAlone(c, k)
        BY <1>2, <2>1, <2>2, <2>3 DEF Shaped, Holds, OwnsAlone, Joining, Ending, Active, Own
  <2>5. c = Main => Proceeds(k)
    <3>1. c = Main => ~ Over /\ \A i \in 1..(k.at - 1) : Order[i] \in executed'
          BY <1>1, <1>3, <2>1 DEF Over, IInv, Visited
    <3> QED BY <1>1, <1>2, <2>1, <3>1 DEF Proceeds, Joining
  <2>6. Accounts(c, k)
        BY <1>6, <2>1, <2>2, <2>3
  <2> QED BY <1>1, <1>2, <1>4, <2>1, <2>2, <2>3, <2>4, <2>5, <2>6, QuietStep
<1>9. CASE co' = [co EXCEPT ![c] = [@ EXCEPT !.pc = "ready", !.try = 1]] /\ ~ Unready(c, n)
  <2> DEFINE k == [co[c] EXCEPT !.pc = "ready", !.try = 1]
  <2>1. /\ k \in CoRow /\ k.pc = "ready" /\ k.at = co[c].at /\ k.end = co[c].end
    <3>1. "ready" \in Pcs
          BY DEF Pcs, Active
    <3>2. co[c] = [pc |-> co[c].pc, at |-> co[c].at, end |-> co[c].end, try |-> co[c].try, todo |-> co[c].todo]
          BY <1>1 DEF CoRow
    <3>3. k = [co[c] EXCEPT !.pc = "ready", !.try = 1]
          OBVIOUS
    <3> HIDE DEF k
    <3>4. k = [pc |-> "ready", at |-> co[c].at, end |-> co[c].end, try |-> 1, todo |-> co[c].todo]
          BY <3>2, <3>3
    <3> QED BY <1>1, <3>1, <3>4 DEF CoRow
  <2>2. co' = [co EXCEPT ![c] = k] /\ co'[c] = k
        BY <1>1, <1>9
  <2> HIDE DEF k
  <2>3. Node(c)' = n
        BY <2>1, <2>2 DEF Node
  <2>4. Due(n)
    <3>1. \A d \in Deps[n] : status[d] \in {"SUCCEEDED", "SKIPPED"} \/ (c # Main /\ d = c[1])
          BY <1>9 DEF Unready
    <3>2. c # Main => c[1] \in Parallels
          BY ListsAre, NodeIs DEF IInv
    <3> QED BY <3>1, <3>2 DEF Due, Fine
  <2>5. Due(Node(c))'
        BY <1>3, <2>3, <2>4 DEF Due
  <2>6. Holds(c)'
        BY <2>1, <2>2, <2>5 DEF Holds, Own
  <2>7. Shaped(c)' /\ OwnsAlone(c, k)
        BY <1>2, <2>1, <2>2 DEF Shaped, OwnsAlone, Joining, Ending, Own
  <2>8. c = Main => Proceeds(k)
    <3>1. c = Main => ~ Over /\ \A i \in 1..(k.at - 1) : Order[i] \in executed'
          BY <1>1, <1>3, <2>1 DEF Over, IInv, Visited
    <3> QED BY <1>1, <1>2, <2>1, <3>1 DEF Proceeds, Joining
  <2>9. Accounts(c, k)
        BY <1>2, <1>3 DEF Accounts
  <2> QED BY <1>1, <1>2, <1>4, <2>1, <2>2, <2>6, <2>7, <2>8, <2>9, QuietStep
<1> DEFINE Goal == IInv'
<1> SUFFICES Goal
    OBVIOUS
<1>10. co' = [co EXCEPT ![c] =
           IF c = Main /\ Guard # "none" THEN Raised(c, Guard)
           ELSE IF n \in executed THEN Returned(c, status[n])
           ELSE IF Blocked(n) THEN [@ EXCEPT !.pc = "skip"]
           ELSE IF Unready(c, n) THEN Raised(c, "Error")
           ELSE IF Guard # "none" THEN Raised(c, Guard)
           ELSE [@ EXCEPT !.pc = "ready", !.try = 1]]
      BY DEF Enter
<1>11. "Error" \in Exceptions /\ (Guard # "none" => Guard \in Exceptions)
      BY GuardIs DEF Exceptions
<1> HIDE DEF n
<1>12. CASE c = Main /\ Guard # "none"
      BY <1>5, <1>10, <1>11, <1>12
<1>13. CASE ~ (c = Main /\ Guard # "none") /\ n \in executed
      BY <1>7, <1>10, <1>13
<1>14. CASE ~ (c = Main /\ Guard # "none") /\ n \notin executed /\ Blocked(n)
      BY <1>8, <1>10, <1>14
<1>15. CASE ~ (c = Main /\ Guard # "none") /\ n \notin executed /\ ~ Blocked(n) /\ Unready(c, n)
  <2>1. co' = [co EXCEPT ![c] = Raised(c, "Error")]
        BY <1>10, <1>15
  <2> QED BY <1>5, <1>11, <2>1
<1>16. CASE n \notin executed /\ ~ Blocked(n) /\ ~ Unready(c, n) /\ c # Main /\ Guard # "none"
  <2>1. co' = [co EXCEPT ![c] = Raised(c, Guard)]
        BY <1>10, <1>16
  <2> QED BY <1>5, <1>11, <1>16, <2>1
<1>17. CASE n \notin executed /\ ~ Blocked(n) /\ ~ Unready(c, n) /\ Guard = "none"
      BY <1>9, <1>10, <1>17
<1> QED BY <1>12, <1>13, <1>14, <1>15, <1>16, <1>17

-----------------------------------------------------------------------------
(* Transitions.                                                            *)

LEMMA TargetIs ==
    /\ DOMAIN Target = {"skip", "ready", "run", "complete", "fail", "timeout", "cancel"}
    /\ Target["skip"] = "SKIPPED" /\ Target["ready"] = "READY" /\ Target["run"] = "RUNNING"
    /\ Target["complete"] = "SUCCEEDED" /\ Target["fail"] = "FAILED" /\ Target["timeout"] = "TIMED_OUT"
    /\ Target["cancel"] = "CANCELLED"
    /\ \A p \in DOMAIN Target : Target[p] \in NodeStatus
BY DEF Target, NodeStatus, Terminal

\* The transition c waits for commits and leaves c as k, with the branches S started
Commits(c, k, S) ==
    /\ co[c].pc \in DOMAIN Target
    /\ Allowed(Stored(Node(c)), Target[co[c].pc]) /\ Store(Node(c), Target[co[c].pc])
    /\ Becomes(c, k, S) /\ RowsMove

LEMMA CommitIs ==
    ASSUME IInv, NEW c \in Coroutines, NEW k, NEW S \in SUBSET BranchIds, Commits(c, k, S)
    PROVE  /\ co[c] \in CoRow /\ co[c].at \in 1..Len(List(c)) /\ Node(c) \in Nodes
           /\ co[c].pc \notin {"idle", "done"} /\ run # "PENDING"
           /\ Target[co[c].pc] \in NodeStatus /\ co'[c] = k
           /\ \A m \in Nodes : status'[m] = IF m = Node(c) THEN Target[co[c].pc] ELSE status[m]
           /\ executed' = IF Target[co[c].pc] \in Terminal THEN executed \cup {Node(c)} ELSE executed
           /\ executed \subseteq executed' /\ executed' \subseteq Nodes /\ cancelled' = cancelled
<1>1. co[c] \in CoRow /\ co[c].at \in 1..Len(List(c)) /\ Node(c) \in Nodes
      BY NodeIs DEF IInv
<1>2. co[c].pc \in DOMAIN Target /\ Target[co[c].pc] \in NodeStatus /\ co[c].pc \notin {"idle", "done"}
      BY TargetIs DEF Commits
<1>3. run # "PENDING"
      BY <1>2, Begun
<1>4. Store(Node(c), Target[co[c].pc]) /\ cancelled' = cancelled
      BY DEF Commits, RowsMove
<1>5. status \in [Nodes -> NodeStatus] /\ executed \subseteq Nodes
      BY DEF IInv, RowTyped
<1>6. \A m \in Nodes : status'[m] = IF m = Node(c) THEN Target[co[c].pc] ELSE status[m]
      BY <1>1, <1>4, <1>5 DEF Store
<1>7. executed' = IF Target[co[c].pc] \in Terminal THEN executed \cup {Node(c)} ELSE executed
      BY <1>4 DEF Store
<1>8. co'[c] = k
      BY DEF Commits, Becomes
<1> QED BY <1>1, <1>2, <1>3, <1>4, <1>5, <1>6, <1>7, <1>8

LEMMA CommitKeeps ==
    ASSUME IInv, NEW c \in Coroutines, NEW k \in CoRow, NEW S \in SUBSET BranchIds, c \notin S, Commits(c, k, S),
           k.at \in 1..Len(List(c)), k.pc # "idle", Shaped(c)', Holds(c)', OwnsAlone(c, k),
           co[c].pc \in Active => \/ k.pc \in Active /\ k.at = co[c].at
                                  \/ k.pc = "done" /\ k.end \in Exceptions
                                  \/ Over' \/ status'[Node(c)] \in Terminal,
           co[c].pc \in {"ready", "run"} => k.pc \in Active /\ k.at = co[c].at,
           co[c].pc = "cancel" => Over' \/ (c \in BranchIds /\ k.pc = "done" /\ k.end \in Exceptions),
           c = Main => Proceeds(k),
           \A b \in S : co[b].pc = "idle" /\ AtFault(b[1])' /\ row'[b[1]].status \notin {"NONE", "PENDING", "READY"}
    PROVE  IInv'
<1> DEFINE n == Node(c)
<1> DEFINE s == Target[co[c].pc]
<1>1. /\ co[c] \in CoRow /\ n \in Nodes /\ co[c].pc \notin {"idle", "done"} /\ s \in NodeStatus
      /\ \A m \in Nodes : status'[m] = IF m = n THEN s ELSE status[m]
      /\ executed' = IF s \in Terminal THEN executed \cup {n} ELSE executed
      /\ executed' \subseteq Nodes
      BY CommitIs
<1>2. co[c].pc \in DOMAIN Target /\ Allowed(Stored(n), s) /\ Store(n, s) /\ Becomes(c, k, S) /\ RowsMove
      BY DEF Commits
<1>3. s \in {"SUCCEEDED", "FAILED", "TIMED_OUT"} => co[c].pc \in Own
      BY <1>2, TargetIs DEF Own
<1>4. s \notin Terminal => co[c].pc \in {"ready", "run"}
      BY <1>2, TargetIs DEF Terminal
<1>5. s = "CANCELLED" => co[c].pc = "cancel"
      BY <1>2, TargetIs
<1>6. List(c)[co[c].at] = n
      BY DEF Node
<1> HIDE DEF n, s
<1>7. \A m \in executed' : status'[m] \notin Terminal =>
          (m \in executed /\ status[m] \notin Terminal) \/ (k.pc \in Active /\ List(c)[k.at] = m)
      BY <1>1, <1>4, <1>6
<1>8. \A m \in Nodes : status'[m] = "CANCELLED" =>
          status[m] = "CANCELLED" \/ cancelled' \/ Over' \/ (c \in BranchIds /\ k.pc = "done" /\ k.end \in Exceptions)
      BY <1>1, <1>5
<1>9. Accounts(c, k)
      BY <1>7, <1>8 DEF Accounts
<1>10. s \in {"SUCCEEDED", "FAILED", "TIMED_OUT"} => co[c].pc \in Own /\ Node(c) = n
      BY <1>3 DEF n
<1> QED BY <1>1, <1>2, <1>9, <1>10, StoreStep

\* The node has ended and the coroutine goes to the next one
LEMMA CommitReturns ==
    ASSUME IInv, NEW c \in Coroutines, co[c].pc \in {"skip", "complete", "fail", "timeout"}, co[c].end = "none",
           NEW r, Commits(c, Returned(c, r), {})
    PROVE  IInv'
<1> DEFINE k == Returned(c, r)
<1>1. k \in CoRow /\ k.at \in 1..Len(List(c))
      BY ReturnedIs DEF IInv
<1>2. /\ Node(c) \in Nodes /\ co'[c] = k /\ executed \subseteq executed' /\ executed' \subseteq Nodes
      /\ \A m \in Nodes : status'[m] = IF m = Node(c) THEN Target[co[c].pc] ELSE status[m]
      /\ executed' = IF Target[co[c].pc] \in Terminal THEN executed \cup {Node(c)} ELSE executed
      BY CommitIs
<1>3. Target[co[c].pc] \in Terminal /\ co[c].pc \in {"enter", "skip"} \cup Active
      BY TargetIs DEF Terminal, Active, Own
<1>4. Node(c) \in executed' /\ status'[Node(c)] = Target[co[c].pc]
      BY <1>2, <1>3
<1>5. /\ Shaped(c)' /\ Holds(c)' /\ OwnsAlone(c, k) /\ k.pc \notin {"idle"} \cup Active
      /\ c = Main =>
            /\ ~ Over
            /\ k.pc \in {"enter", "skip"} \cup Active => \A i \in 1..(k.at - 1) : Order[i] \in executed'
            /\ k.pc = "close" => executed' = Nodes
            /\ k.end # "ok"
      BY <1>2, <1>3, <1>4, ReturnedFits
<1>6. Commits(c, k, {})
      OBVIOUS
<1> HIDE DEF k
<1>7. ASSUME c = Main PROVE Proceeds(k)
  <2>1. ASSUME NEW p \in Parallels, Node(Main) = p, co[Main].pc \in Joining \cup {"fail", "timeout", "cancel"}
        PROVE  AtFault(p)'
    <3>1. co[c].pc \in {"fail", "timeout"}
          BY <1>7, <2>1 DEF Joining
    <3>2. status'[p] \in Failed
          BY <1>4, <1>7, <2>1, <3>1, TargetIs DEF Failed
    <3> QED BY <3>2 DEF AtFault
  <2> QED BY <1>5, <1>7, <2>1 DEF Proceeds
<1>8. co[c].pc \notin {"ready", "run", "cancel"}
      OBVIOUS
<1>9. k.pc # "idle" /\ c \notin {} /\ status'[Node(c)] \in Terminal
      BY <1>3, <1>4, <1>5
<1> QED BY <1>1, <1>5, <1>6, <1>7, <1>8, <1>9, CommitKeeps

\* The node has ended and the exception goes on
LEMMA CommitRaises ==
    ASSUME IInv, NEW c \in Coroutines, co[c].pc \in {"timeout", "cancel"}, co[c].end \in Exceptions,
           Commits(c, Raised(c, co[c].end), {})
    PROVE  IInv'
<1> DEFINE k == Raised(c, co[c].end)
<1>1. /\ k \in CoRow /\ k.at \in 1..Len(List(c)) /\ k.end = co[c].end
      /\ c # Main \/ co[c].end = "Error" => k.pc = "done"
      /\ c = Main /\ co[c].end # "Error" => k.pc = "sweep"
      BY RaisedIs DEF IInv
<1>2. co'[c] = k /\ Commits(c, k, {}) /\ cancelled' = cancelled
      BY CommitIs
<1> HIDE DEF k
<1>3. Shaped(c)
      BY DEF IInv
<1>4. co[c].end \in {"WorkflowTimedOut", "WorkflowCancelled", "Cancelled"} /\ (c = Main => co[c].end # "Cancelled")
      /\ (co[c].end = "WorkflowCancelled" => cancelled)
      BY <1>3 DEF Shaped, Exceptions
<1>5. (c = Main => k.pc = "sweep" /\ c \notin BranchIds) /\ (c # Main => k.pc = "done")
      BY <1>1, <1>4, ListsAre
<1>6. k.pc \notin Active /\ k.pc # "idle"
      BY <1>5 DEF Active, Own
<1>7. Shaped(c)'
      BY <1>1, <1>2, <1>4, <1>5 DEF Shaped, Joining, Ending, Overdue
<1>8. Holds(c)'
      BY <1>2, <1>6 DEF Holds, Active, Own
<1>9. OwnsAlone(c, k)
      BY <1>6 DEF OwnsAlone, Active
<1>10. c = Main => Over'
      BY <1>2, <1>5 DEF Over
<1>11. c # Main => c \in BranchIds /\ k.pc = "done" /\ k.end \in Exceptions
      BY <1>1, <1>5, NodeIs DEF IInv
<1>12. c = Main => Proceeds(k)
      BY <1>1, <1>4, <1>5, <1>6, <1>10 DEF Proceeds, AtFault
<1>13. co[c].pc \notin {"ready", "run"}
      OBVIOUS
<1> QED BY <1>1, <1>2, <1>6, <1>7, <1>8, <1>9, <1>10, <1>11, <1>12, <1>13, CommitKeeps

\* The node is READY: its attempt gets an owner
LEMMA CommitReady ==
    ASSUME IInv, NEW c \in Coroutines, co[c].pc = "ready", Commits(c, [co[c] EXCEPT !.pc = "run"], {})
    PROVE  IInv'
<1> DEFINE k == [co[c] EXCEPT !.pc = "run"]
<1> DEFINE n == Node(c)
<1>1. /\ co[c] \in CoRow /\ co[c].at \in 1..Len(List(c)) /\ n \in Nodes /\ run # "PENDING" /\ co'[c] = k
      /\ executed \subseteq executed'
      BY CommitIs
<1>2. k \in CoRow /\ k.pc = "run" /\ k.at = co[c].at /\ k.end = co[c].end
  <2>1. "run" \in Pcs
        BY DEF Pcs, Active, Own
  <2> QED BY <1>1, <2>1 DEF CoRow
<1>3. Commits(c, k, {}) /\ Allowed(Stored(n), "READY") /\ Store(n, "READY") /\ RowsMove
      BY TargetIs DEF Commits
<1> HIDE DEF k
<1>4. row[n].status = "PENDING" /\ row[n].attempt = attempts[n]
      BY <1>1, <1>3, StoredIs, AllowedIs
<1>5. /\ \A m \in Nodes : row'[m].attempt = row[m].attempt /\ row'[m].status = IF m = n THEN "READY" ELSE row[m].status
      /\ \A m \in Nodes : Due(m) => Due(m)'
      /\ Tame
      BY <1>1, <1>3, StoreFacts DEF NodeStatus
<1>6. attempts' = attempts /\ invoked' = invoked /\ cancelled' = cancelled
      BY <1>3 DEF RowsMove
<1>7. Node(c)' = n
      BY <1>1, <1>2 DEF Node
<1>8. Shaped(c) /\ Holds(c) /\ Counted(n)
      BY <1>1 DEF IInv
<1>9. Due(Node(c))'
  <2>1. Due(n) /\ Deps[n] \subseteq Nodes
        BY <1>1, <1>8, WorkflowRunAssumption DEF Holds, Active, WorkflowRunAssumption
  <2> QED BY <1>5, <1>7, <2>1 DEF Due, Tame
<1>10. Holds(c)'
  <2>1. invoked[n] < attempts[n]
        BY <1>4, <1>8 DEF Counted
  <2>2. row'[n].attempt = attempts[n] /\ row'[n].status = "READY"
        BY <1>1, <1>4, <1>5
  <2> HIDE DEF n
  <2> QED BY <1>1, <1>2, <1>6, <1>7, <1>9, <2>1, <2>2 DEF Holds
<1>11. Shaped(c)'
      BY <1>1, <1>2, <1>6, <1>8 DEF Shaped, Joining, Ending
<1>12. OwnsAlone(c, k)
  <2>1. ASSUME NEW d \in Coroutines \ {c}, co[d].pc \in Own, Node(d) = n PROVE FALSE
    <3>1. Holds(d)
          BY DEF IInv
    <3> QED BY <1>4, <2>1, <3>1 DEF Holds
  <2>2. List(c)[k.at] = n
        BY <1>2 DEF Node
  <2> QED BY <2>1, <2>2 DEF OwnsAlone
<1>13. k.pc \in Active /\ co[c].pc \notin {"idle", "done", "cancel"} /\ k.pc # "idle"
      BY <1>2 DEF Active, Own
<1>14. c = Main => Proceeds(k)
  <2>1. c = Main => ~ Over /\ \A i \in 1..(k.at - 1) : Order[i] \in executed'
        BY <1>1, <1>2 DEF Over, IInv, Visited, Active
  <2>2. co[c].end = "none"
        BY <1>8 DEF Shaped
  <2> QED BY <1>2, <2>1, <2>2 DEF Proceeds, Joining
<1>15. k.at \in 1..Len(List(c)) /\ c \notin {}
      BY <1>1, <1>2
<1> QED BY <1>2, <1>3, <1>10, <1>11, <1>12, <1>13, <1>14, <1>15, CommitKeeps

\* The node is RUNNING: a skill waits for a permit, a parallel node for the branches it starts
LEMMA CommitRuns ==
    ASSUME IInv, NEW c \in Coroutines, co[c].pc = "run",
           NEW pc, pc = IF Kind[Node(c)] = "skill" THEN "limit" ELSE IF Kind[Node(c)] = "parallel" THEN "join" ELSE "select",
           Commits(c, [co[c] EXCEPT !.pc = pc], Spawned(c))
    PROVE  IInv'
<1> DEFINE k == [co[c] EXCEPT !.pc = pc]
<1> DEFINE n == Node(c)
<1> DEFINE S == Spawned(c)
<1>0. S \in SUBSET BranchIds
      BY DEF Spawned, Parts
<1>1. /\ co[c] \in CoRow /\ co[c].at \in 1..Len(List(c)) /\ n \in Nodes /\ run # "PENDING" /\ co'[c] = k
      /\ executed \subseteq executed'
      BY <1>0, CommitIs
<1>2. pc \in {"limit", "join", "select"} /\ (pc = "join" <=> n \in Parallels) /\ (pc = "select" => Kind[n] = "condition")
  <2>1. Kind[n] \in {"skill", "condition", "parallel"}
        BY <1>1, WorkflowRunAssumption DEF WorkflowRunAssumption
  <2> QED BY <1>1, <2>1 DEF Parallels
<1>3. k \in CoRow /\ k.pc = pc /\ k.at = co[c].at /\ k.end = co[c].end
  <2>1. pc \in Pcs
        BY <1>2 DEF Pcs, Active, Own
  <2> QED BY <1>1, <2>1 DEF CoRow
<1>4. Commits(c, k, S) /\ Allowed(Stored(n), "RUNNING") /\ Store(n, "RUNNING") /\ RowsMove
      BY TargetIs DEF Commits
<1>5. S = IF n \in Parallels THEN Parts(n) ELSE {}
      BY DEF Spawned
<1> HIDE DEF k, S
<1>6. row[n].status = "READY" /\ row[n].attempt = attempts[n]
      BY <1>1, <1>4, StoredIs, AllowedIs
<1>7. /\ \A m \in Nodes : row'[m].attempt = row[m].attempt /\ row'[m].status = IF m = n THEN "RUNNING" ELSE row[m].status
      /\ Tame
      BY <1>1, <1>4, StoreFacts DEF NodeStatus
<1>8. attempts' = attempts /\ invoked' = invoked /\ cancelled' = cancelled
      BY <1>4 DEF RowsMove
<1>9. Node(c)' = n
      BY <1>1, <1>3 DEF Node
<1>10. Shaped(c) /\ Holds(c)
      BY <1>1 DEF IInv
<1>11. Due(Node(c))'
  <2>1. Due(n) /\ Deps[n] \subseteq Nodes
        BY <1>1, <1>10, WorkflowRunAssumption DEF Holds, Active, Own, WorkflowRunAssumption
  <2> QED BY <1>7, <1>9, <2>1 DEF Due, Tame
<1>12. Holds(c)'
  <2>1. invoked[n] < attempts[n]
        BY <1>10 DEF Holds
  <2>2. row'[n].attempt = attempts[n] /\ row'[n].status = "RUNNING"
        BY <1>1, <1>6, <1>7
  <2> HIDE DEF n
  <2> QED BY <1>1, <1>2, <1>3, <1>8, <1>9, <1>11, <2>1, <2>2 DEF Holds
<1>13. c \in BranchIds => n \notin Parallels
      BY NodeIs DEF IInv
<1>14. Shaped(c)'
      BY <1>1, <1>2, <1>3, <1>8, <1>10, <1>13 DEF Shaped, Joining, Ending
<1>15. OwnsAlone(c, k) /\ k.pc \in Active /\ k.pc # "idle" /\ k.pc \in Own /\ co[c].pc \notin {"idle", "done", "cancel"}
      BY <1>2, <1>3 DEF OwnsAlone, Own, Active
<1>16. c \notin S
      BY <1>5, <1>13 DEF Parts
<1>17. c = Main => Proceeds(k)
  <2>1. c = Main => ~ Over /\ \A i \in 1..(k.at - 1) : Order[i] \in executed'
        BY <1>1, <1>3 DEF Over, IInv, Visited, Active, Own
  <2>2. co[c].end = "none"
        BY <1>10 DEF Shaped
  <2> QED BY <1>2, <1>3, <2>1, <2>2 DEF Proceeds, Joining
<1>18. ASSUME NEW b \in S
       PROVE  co[b].pc = "idle" /\ AtFault(b[1])' /\ row'[b[1]].status \notin {"NONE", "PENDING", "READY"}
  <2>1. b \in BranchIds /\ b[1] = n /\ n \in Parallels
        BY <1>5 DEF Parts
  <2>2. Spawning(b)
        BY <2>1 DEF IInv
  <2>3. co[b].pc = "idle"
        BY <1>6, <2>1, <2>2 DEF Spawning
  <2>4. c = Main
        BY <1>13, <2>1, NodeIs DEF IInv
  <2>5. co'[Main].pc = "join" /\ Node(Main)' = n
        BY <1>1, <1>2, <1>3, <1>9, <2>1, <2>4
  <2>6. row'[n].status = "RUNNING"
        BY <1>1, <1>7
  <2>7. \A p : p = n => AtFault(p)'
        BY <2>5 DEF AtFault, Joining
  <2> HIDE DEF n
  <2> QED BY <2>1, <2>3, <2>6, <2>7
<1>19. k.at \in 1..Len(List(c))
      BY <1>1, <1>3
<1> QED BY <1>0, <1>3, <1>4, <1>12, <1>14, <1>15, <1>16, <1>17, <1>18, <1>19, CommitKeeps

\* The failure of a skill is retried
LEMMA CommitFailsAgain ==
    ASSUME IInv, NEW c \in Coroutines, co[c].pc = "fail", co[c].try < MaxAttempts[Node(c)],
           Commits(c, [co[c] EXCEPT !.pc = "retry"], {})
    PROVE  IInv'
<1> DEFINE k == [co[c] EXCEPT !.pc = "retry"]
<1> DEFINE n == Node(c)
<1>1. /\ co[c] \in CoRow /\ co[c].at \in 1..Len(List(c)) /\ n \in Nodes /\ run # "PENDING" /\ co'[c] = k
      /\ executed \subseteq executed'
      /\ \A m \in Nodes : status'[m] = IF m = n THEN Target[co[c].pc] ELSE status[m]
      BY CommitIs
<1>2. k \in CoRow /\ k.pc = "retry" /\ k.at = co[c].at /\ k.end = co[c].end /\ k.try = co[c].try
  <2>1. "retry" \in Pcs
        BY DEF Pcs, Active, Own
  <2> QED BY <1>1, <2>1 DEF CoRow
<1>3. Commits(c, k, {}) /\ Allowed(Stored(n), "FAILED") /\ Store(n, "FAILED") /\ RowsMove
      BY TargetIs DEF Commits
<1> HIDE DEF k
<1>4. row[n].attempt = attempts[n]
      BY <1>1, <1>3, StoredIs
<1>5. /\ \A m \in Nodes : row'[m].attempt = row[m].attempt /\ row'[m].status = IF m = n THEN "FAILED" ELSE row[m].status
      /\ Tame
      BY <1>1, <1>3, StoreFacts DEF NodeStatus, Terminal
<1>6. attempts' = attempts /\ invoked' = invoked /\ cancelled' = cancelled
      BY <1>3 DEF RowsMove
<1>7. Node(c)' = n
      BY <1>1, <1>2 DEF Node
<1>8. Shaped(c) /\ Holds(c)
      BY <1>1 DEF IInv
<1>9. Due(Node(c))'
  <2>1. Due(n) /\ Deps[n] \subseteq Nodes
        BY <1>1, <1>8, WorkflowRunAssumption DEF Holds, Active, Own, WorkflowRunAssumption
  <2> QED BY <1>5, <1>7, <2>1 DEF Due, Tame
<1>10. status'[n] = "FAILED"
      BY <1>1, TargetIs
<1>11. Holds(c)'
  <2>1. row'[n].attempt = attempts[n] /\ row'[n].status = "FAILED"
        BY <1>1, <1>4, <1>5
  <2>2. co[c].try < MaxAttempts[n]
        OBVIOUS
  <2> HIDE DEF n
  <2> QED BY <1>1, <1>2, <1>6, <1>7, <1>9, <1>10, <2>1, <2>2 DEF Holds
<1>12. Shaped(c)'
      BY <1>1, <1>2, <1>6, <1>8 DEF Shaped, Joining, Ending
<1>13. OwnsAlone(c, k) /\ k.pc \in Active /\ k.pc # "idle" /\ co[c].pc \notin {"ready", "run", "cancel"}
      BY <1>2 DEF OwnsAlone, Own, Active
<1>14. ASSUME c = Main PROVE Proceeds(k)
  <2>1. ~ Over /\ \A i \in 1..(k.at - 1) : Order[i] \in executed'
        BY <1>1, <1>2, <1>14 DEF Over, IInv, Visited, Active, Own
  <2>2. co[c].end = "none"
        BY <1>8 DEF Shaped
  <2>3. ASSUME NEW p \in Parallels, Node(Main) = p PROVE AtFault(p)'
        BY <1>10, <1>14, <2>3 DEF AtFault, Failed
  <2> QED BY <1>2, <1>14, <2>1, <2>2, <2>3 DEF Proceeds
<1>15. k.at \in 1..Len(List(c)) /\ c \notin {}
      BY <1>1, <1>2
<1> QED BY <1>2, <1>3, <1>11, <1>12, <1>13, <1>14, <1>15, CommitKeeps

LEMMA TransitionKeeps ==
    ASSUME IInv, NEW c \in Coroutines, Transition(c)
    PROVE  IInv'
<1> DEFINE n == Node(c)
<1> DEFINE s == Target[co[c].pc]
<1>1. /\ policy' = policy /\ run' = run /\ attempts' = attempts /\ tolerated' = tolerated /\ invoked' = invoked
      /\ doomed' = doomed /\ cancelled' = cancelled /\ late' = late
      BY DEF Transition
<1>2. co[c].pc \in DOMAIN Target /\ co \in [Coroutines -> CoRow] /\ n \in Nodes /\ Shaped(c) /\ co[c] \in CoRow
      BY NodeIs DEF Transition, Runs, IInv, CoTyped
<1>3. co[c].pc \notin {"idle", "done"}
      BY <1>2, TargetIs
<1> DEFINE Goal == IInv'
<1> SUFFICES Goal
    OBVIOUS
<1>4. CASE ~ Allowed(Stored(n), s)
  <2>1. co' = [co EXCEPT ![c] = Raised(c, "Error")] /\ row' = row /\ status' = status /\ executed' = executed
        BY <1>4 DEF Transition
  <2>2. RowsStay /\ doomed' \subseteq BranchIds
        BY <1>1, <2>1 DEF RowsStay, IInv, RowTyped
  <2> QED BY <1>1, <1>3, <2>1, <2>2, RaiseStep DEF Exceptions
<1>5. CASE Allowed(Stored(n), s)
  <2>1. PICK again \in {FALSE, co[c].try < MaxAttempts[n]} :
            co' = [d \in Coroutines |-> IF d = c THEN After(c, again)
                                        ELSE IF d \in Spawned(c) THEN [co[d] EXCEPT !.pc = "enter"] ELSE co[d]]
        BY <1>5 DEF Transition
  <2>2. Store(n, s)
        BY <1>5 DEF Transition
  <2>3. RowsMove
        BY <1>1 DEF RowsMove
  <2>4. Becomes(c, After(c, again), Spawned(c))
        BY <2>1 DEF Becomes
  <2>5. Commits(c, After(c, again), Spawned(c))
        BY <1>2, <1>5, <2>2, <2>3, <2>4 DEF Commits
  <2>6. co[c].pc # "run" => Spawned(c) = {}
        BY DEF Spawned
  <2>7. CASE co[c].pc = "skip"
    <3>1. After(c, again) = Returned(c, "SKIPPED") /\ co[c].end = "none"
          BY <1>2, <2>7 DEF After, Shaped
    <3>2. Commits(c, Returned(c, "SKIPPED"), {})
          BY <2>5, <2>6, <2>7, <3>1
    <3> QED BY <2>7, <3>1, <3>2, CommitReturns
  <2>8. CASE co[c].pc = "ready"
    <3>1. After(c, again) = [co[c] EXCEPT !.pc = "run"]
          BY <2>8 DEF After
    <3> QED BY <2>5, <2>6, <2>8, <3>1, CommitReady
  <2>9. CASE co[c].pc = "run"
    <3> DEFINE pc == IF Kind[n] = "skill" THEN "limit" ELSE IF Kind[n] = "parallel" THEN "join" ELSE "select"
    <3>1. After(c, again) = [co[c] EXCEPT !.pc = pc]
          BY <2>9 DEF After
    <3>2. pc = IF Kind[Node(c)] = "skill" THEN "limit" ELSE IF Kind[Node(c)] = "parallel" THEN "join" ELSE "select"
          OBVIOUS
    <3> HIDE DEF pc
    <3>3. Commits(c, [co[c] EXCEPT !.pc = pc], Spawned(c))
          BY <2>5, <3>1
    <3> QED BY <2>9, <3>2, <3>3, CommitRuns
  <2>10. CASE co[c].pc = "complete"
    <3>1. After(c, again) = Returned(c, "SUCCEEDED") /\ co[c].end = "none"
          BY <1>2, <2>10 DEF After, Shaped
    <3>2. Commits(c, Returned(c, "SUCCEEDED"), {})
          BY <2>5, <2>6, <2>10, <3>1
    <3> QED BY <2>10, <3>1, <3>2, CommitReturns
  <2>11. CASE co[c].pc = "fail" /\ again
    <3>1. After(c, again) = [co[c] EXCEPT !.pc = "retry"]
          BY <2>11 DEF After
    <3>2. co[c].try < MaxAttempts[n]
          BY <2>11
    <3> QED BY <2>5, <2>6, <2>11, <3>1, <3>2, CommitFailsAgain
  <2>12. CASE co[c].pc = "fail" /\ ~ again
    <3>1. After(c, again) = Returned(c, "FAILED") /\ co[c].end = "none"
          BY <1>2, <2>12 DEF After, Shaped
    <3>2. Commits(c, Returned(c, "FAILED"), {})
          BY <2>5, <2>6, <2>12, <3>1
    <3> QED BY <2>12, <3>1, <3>2, CommitReturns
  <2>13. CASE co[c].pc = "timeout" /\ co[c].end = "none"
    <3>1. After(c, again) = Returned(c, "TIMED_OUT")
          BY <2>13 DEF After
    <3>2. Commits(c, Returned(c, "TIMED_OUT"), {})
          BY <2>5, <2>6, <2>13, <3>1
    <3> QED BY <2>13, <3>1, <3>2, CommitReturns
  <2>14. CASE co[c].pc = "cancel" \/ (co[c].pc = "timeout" /\ co[c].end # "none")
    <3>1. After(c, again) = Raised(c, co[c].end)
          BY <2>14 DEF After
    <3>2. co[c].end \in Exceptions /\ co[c].pc \in {"timeout", "cancel"}
          BY <1>2, <2>14 DEF Shaped, Exceptions
    <3>3. Commits(c, Raised(c, co[c].end), {})
          BY <2>5, <2>6, <2>14, <3>1
    <3> QED BY <3>2, <3>3, CommitRaises
  <2> QED BY <1>2, <2>7, <2>8, <2>9, <2>10, <2>11, <2>12, <2>13, <2>14, TargetIs
<1> QED BY <1>4, <1>5

(* The steps a coroutine takes without a commit.                           *)
LEMMA OutputKeeps ==
    ASSUME IInv, NEW c \in Coroutines, OutputIsLost(c)
    PROVE  IInv'
<1>1. co[c].pc = "complete" /\ co' = [co EXCEPT ![c] = Raised(c, "Error")]
      BY DEF OutputIsLost, Runs
<1>2. /\ policy' = policy /\ run' = run /\ row' = row /\ status' = status /\ executed' = executed /\ attempts' = attempts
      /\ tolerated' = tolerated /\ invoked' = invoked /\ doomed' = doomed /\ cancelled' = cancelled /\ late' = late
      BY DEF OutputIsLost, memory
<1>3. RowsStay /\ doomed' \subseteq BranchIds
      BY <1>2 DEF RowsStay, IInv, RowTyped
<1> QED BY <1>1, <1>2, <1>3, RaiseStep DEF Exceptions

-----------------------------------------------------------------------------
(* Within an attempt: skills, conditions, joins.                           *)

Moved(c, pc, end, todo) == [pc |-> pc, at |-> co[c].at, end |-> end, try |-> co[c].try, todo |-> todo]

LEMMA MovedIs ==
    ASSUME CoTyped, NEW c \in Coroutines
    PROVE  /\ \A pc : [co[c] EXCEPT !.pc = pc] = Moved(c, pc, co[c].end, co[c].todo)
           /\ \A todo : [co[c] EXCEPT !.todo = todo] = Moved(c, co[c].pc, co[c].end, todo)
           /\ \A pc, end : [co[c] EXCEPT !.pc = pc, !.end = end] = Moved(c, pc, end, co[c].todo)
           /\ \A pc \in Pcs, end \in Ends, todo \in SUBSET Nodes : Moved(c, pc, end, todo) \in CoRow
<1>1. co[c] \in CoRow
      BY DEF CoTyped
<1>2. co[c] = [pc |-> co[c].pc, at |-> co[c].at, end |-> co[c].end, try |-> co[c].try, todo |-> co[c].todo]
      BY <1>1 DEF CoRow
<1>3. \A pc : [co[c] EXCEPT !.pc = pc] = Moved(c, pc, co[c].end, co[c].todo)
      BY <1>2 DEF Moved
<1>4. \A todo : [co[c] EXCEPT !.todo = todo] = Moved(c, co[c].pc, co[c].end, todo)
      BY <1>2 DEF Moved
<1>5. ASSUME NEW pc, NEW end PROVE [co[c] EXCEPT !.pc = pc, !.end = end] = Moved(c, pc, end, co[c].todo)
  <2> DEFINE k == [co[c] EXCEPT !.pc = pc, !.end = end]
  <2>1. k = [co[c] EXCEPT !.pc = pc, !.end = end]
        OBVIOUS
  <2> HIDE DEF k
  <2>2. k = [pc |-> pc, at |-> co[c].at, end |-> end, try |-> co[c].try, todo |-> co[c].todo]
        BY <1>2, <2>1
  <2> QED BY <2>2 DEF Moved, k
<1>6. \A pc \in Pcs, end \in Ends, todo \in SUBSET Nodes : Moved(c, pc, end, todo) \in CoRow
      BY <1>1 DEF Moved, CoRow
<1> QED BY <1>3, <1>4, <1>5, <1>6

LEMMA MovedOnIs ==
    ASSUME CoTyped, NEW c \in Coroutines, NEW pc, NEW todo
    PROVE  [co[c] EXCEPT !.pc = pc, !.todo = todo] = Moved(c, pc, co[c].end, todo)
<1> DEFINE k == [co[c] EXCEPT !.pc = pc, !.todo = todo]
<1>1. co[c] \in CoRow
      BY DEF CoTyped
<1>2. co[c] = [pc |-> co[c].pc, at |-> co[c].at, end |-> co[c].end, try |-> co[c].try, todo |-> co[c].todo]
      BY <1>1 DEF CoRow
<1>3. k = [co[c] EXCEPT !.pc = pc, !.todo = todo]
      OBVIOUS
<1> HIDE DEF k
<1>4. k = [pc |-> pc, at |-> co[c].at, end |-> co[c].end, try |-> co[c].try, todo |-> todo]
      BY <1>2, <1>3
<1> QED BY <1>4 DEF Moved, k

\* A join that ends or fails: execute() does not forget its branches
Abides(c, pc) ==
    c = Main /\ co[Main].pc \in Joining \cup {"fail", "timeout", "cancel"} =>
        pc \in Joining \cup {"fail", "timeout", "cancel"} \/ \A b \in BranchIds : b[1] = Node(Main) => ~ Stray(b)

\* What a coroutine has to raise at its new position
Fits(c, pc, end) ==
    /\ c \in BranchIds => pc \notin Joining
    /\ pc \notin {"unwind", "timeout", "cancel"} => end = "none"
    /\ pc \in {"unwind", "timeout"} => end \in {"none", "WorkflowTimedOut"}
    /\ pc = "cancel" => end \in {"WorkflowCancelled", "Cancelled"} /\ (c = Main => end # "Cancelled")
    /\ end = "WorkflowCancelled" => cancelled

LEMMA MoveStep ==
    ASSUME IInv, NEW c \in Coroutines, co[c].pc \in Own \ {"retry"},
           NEW pc \in Own \ {"run", "limit", "select", "retry"}, NEW end, NEW todo \in SUBSET Nodes,
           co' = [co EXCEPT ![c] = Moved(c, pc, end, todo)], RowsStay, Extends, Fits(c, pc, end), Abides(c, pc)
    PROVE  IInv'
<1> DEFINE k == Moved(c, pc, end, todo)
<1>1. end \in Ends /\ pc \in Pcs
      BY DEF Fits, Ends, Exceptions, Pcs, Active
<1>2. k \in CoRow /\ k.pc = pc /\ k.end = end /\ k.at = co[c].at
  <2>1. k \in CoRow
        BY <1>1, MovedIs DEF IInv
  <2> QED BY <2>1 DEF Moved
<1>3. co'[c] = k /\ co' = [co EXCEPT ![c] = k]
      BY DEF IInv, CoTyped
<1> HIDE DEF k
<1>4. pc \notin Ending /\ pc \notin {"done"}
      BY DEF Own, Ending
<1>5. Shaped(c)'
  <2>1. cancelled' = cancelled
        BY DEF RowsStay
  <2> QED BY <1>2, <1>3, <1>4, <2>1 DEF Shaped, Fits, Ending
<1>6. c = Main /\ co[Main].pc \in Joining \cup {"fail", "timeout", "cancel"} =>
          k.pc \in Joining \cup {"fail", "timeout", "cancel"} \/ \A b \in BranchIds : b[1] = Node(Main) => ~ Stray(b)
      BY <1>2 DEF Abides
<1> QED BY <1>2, <1>3, <1>5, <1>6, StayStep

\* What most steps leave alone
LEMMA Quietly ==
    ASSUME IInv, UNCHANGED <<policy, run, row, memory, invoked, cancelled, late>>, doomed' \subseteq BranchIds
    PROVE  RowsStay /\ Extends /\ tolerated' = tolerated
<1>1. /\ policy' = policy /\ run' = run /\ row' = row /\ status' = status /\ executed' = executed /\ attempts' = attempts
      /\ tolerated' = tolerated /\ invoked' = invoked /\ cancelled' = cancelled /\ late' = late
      BY DEF memory
<1> QED BY <1>1 DEF RowsStay, Extends, IInv, RowTyped

LEMMA DispatchedIs ==
    ASSUME CoTyped, NEW c \in Coroutines, NEW succeeded \in BOOLEAN
    PROVE  \E pc, end :
              /\ pc \in {"cancel", "timeout", "complete", "fail"}
              /\ Dispatched(c, succeeded) = Moved(c, pc, end, co[c].todo)
              /\ co[c].end = "none" => Fits(c, pc, end)
              /\ pc = "complete" => succeeded
<1>1. /\ Guard = "none" \/ Guard \in {"WorkflowCancelled", "WorkflowTimedOut"}
      /\ Guard = "WorkflowCancelled" => cancelled
      BY GuardIs DEF Overdue
<1>2. CASE Guard = "WorkflowCancelled"
  <2>1. Dispatched(c, succeeded) = Moved(c, "cancel", "WorkflowCancelled", co[c].todo)
        BY <1>2, MovedIs DEF Dispatched
  <2>2. Fits(c, "cancel", "WorkflowCancelled")
        BY <1>1, <1>2 DEF Fits, Joining
  <2> WITNESS "cancel", "WorkflowCancelled"
  <2> QED BY <2>1, <2>2
<1>3. CASE Guard = "WorkflowTimedOut"
  <2>1. Dispatched(c, succeeded) = Moved(c, "timeout", "WorkflowTimedOut", co[c].todo)
        BY <1>3, MovedIs DEF Dispatched
  <2>2. Fits(c, "timeout", "WorkflowTimedOut")
        BY DEF Fits, Joining
  <2> WITNESS "timeout", "WorkflowTimedOut"
  <2> QED BY <2>1, <2>2
<1>4. CASE Guard = "none" /\ succeeded
  <2>1. Dispatched(c, succeeded) = [co[c] EXCEPT !.pc = "complete"]
        BY <1>4 DEF Dispatched
  <2>2. Dispatched(c, succeeded) = Moved(c, "complete", co[c].end, co[c].todo)
        BY <2>1, MovedIs
  <2>3. co[c].end = "none" => Fits(c, "complete", co[c].end)
        BY DEF Fits, Joining
  <2> WITNESS "complete", co[c].end
  <2> QED BY <1>4, <2>2, <2>3
<1>5. CASE Guard = "none" /\ ~ succeeded
  <2>1. Dispatched(c, succeeded) = [co[c] EXCEPT !.pc = "fail"]
        BY <1>5 DEF Dispatched
  <2>2. Dispatched(c, succeeded) = Moved(c, "fail", co[c].end, co[c].todo)
        BY <2>1, MovedIs
  <2>3. co[c].end = "none" => Fits(c, "fail", co[c].end)
        BY DEF Fits, Joining
  <2> WITNESS "fail", co[c].end
  <2> QED BY <1>5, <2>2, <2>3
<1> QED BY <1>1, <1>2, <1>3, <1>4, <1>5

LEMMA DispatchStep ==
    ASSUME IInv, NEW c \in Coroutines, co[c].pc \in Own \ {"retry", "unwind", "timeout", "cancel"}, NEW succeeded \in BOOLEAN,
           co' = [co EXCEPT ![c] = Dispatched(c, succeeded)], RowsStay, Extends,
           succeeded => Abides(c, "complete")
    PROVE  IInv'
<1>1. PICK pc, end :
              /\ pc \in {"cancel", "timeout", "complete", "fail"}
              /\ Dispatched(c, succeeded) = Moved(c, pc, end, co[c].todo)
              /\ co[c].end = "none" => Fits(c, pc, end)
              /\ pc = "complete" => succeeded
      BY DispatchedIs DEF IInv
<1>2. co[c].end = "none"
  <2>1. Shaped(c)
        BY DEF IInv
  <2>2. co[c].pc \notin {"unwind", "timeout", "cancel", "sweep", "sweeping", "finish", "done"}
        BY DEF Own
  <2> QED BY <2>1, <2>2 DEF Shaped
<1>3. co[c].todo \in SUBSET Nodes /\ pc \in Own \ {"run", "limit", "select", "retry"} /\ co[c].pc \in Own \ {"retry"}
      BY <1>1, NodeIs DEF IInv, CoRow, Own
<1>4. Abides(c, pc)
      BY <1>1 DEF Abides
<1>5. Fits(c, pc, end) /\ co' = [co EXCEPT ![c] = Moved(c, pc, end, co[c].todo)]
      BY <1>1, <1>2
<1> QED BY <1>3, <1>4, <1>5, MoveStep

LEMMA SkillKeeps ==
    ASSUME IInv, NEW c \in Coroutines, SkillEnds(c)
    PROVE  IInv'
<1>1. co[c].pc = "work" /\ co[c].end = "none" /\ co[c].todo \in SUBSET Nodes
      BY NodeIs DEF SkillEnds, Runs, IInv, Shaped, CoRow
<1>2. RowsStay /\ Extends
  <2>1. doomed' \subseteq BranchIds /\ UNCHANGED <<policy, run, row, memory, invoked, cancelled, late>>
        BY DEF SkillEnds, IInv, RowTyped
  <2> QED BY <2>1, Quietly
<1>3. \A pc : Abides(c, pc)
      BY <1>1 DEF Abides, Joining
<1>4. co[c].pc \in Own \ {"retry", "unwind", "timeout", "cancel"}
      BY <1>1 DEF Own
<1>5. CASE co' = [co EXCEPT ![c] = Dispatched(c, TRUE)]
      BY <1>2, <1>3, <1>4, <1>5, DispatchStep
<1>6. CASE Goto(c, "fail")
  <2>1. co' = [co EXCEPT ![c] = [co[c] EXCEPT !.pc = "fail"]]
        BY <1>6 DEF Goto
  <2>2. co' = [co EXCEPT ![c] = Moved(c, "fail", "none", co[c].todo)]
        BY <1>1, <2>1, MovedIs DEF IInv
  <2>3. Fits(c, "fail", "none") /\ "fail" \in Own \ {"run", "limit", "select", "retry"} /\ co[c].pc \in Own \ {"retry"}
        BY <1>4 DEF Fits, Own, Joining
  <2> QED BY <1>1, <1>2, <1>3, <2>2, <2>3, MoveStep
<1> QED BY <1>5, <1>6 DEF SkillEnds

LEMMA TimesOutKeeps ==
    ASSUME IInv, NEW c \in Coroutines, TimesOut(c)
    PROVE  IInv'
<1>1. co[c].pc \in {"limit", "work", "select", "choose"} /\ co[c].end = "none" /\ co[c].todo \in SUBSET Nodes
      BY NodeIs DEF TimesOut, Runs, IInv, Shaped, CoRow
<1>2. RowsStay /\ Extends
  <2>1. doomed' \subseteq BranchIds /\ UNCHANGED <<policy, run, row, memory, invoked, cancelled, late>>
        BY DEF TimesOut, IInv, RowTyped
  <2> QED BY <2>1, Quietly
<1>3. \A pc : Abides(c, pc)
      BY <1>1 DEF Abides, Joining
<1>4. co[c].pc \in Own \ {"retry"} /\ "timeout" \in Own \ {"run", "limit", "select", "retry"}
      BY <1>1 DEF Own
<1>5. ASSUME NEW end \in {"none", "WorkflowTimedOut"}, co' = [co EXCEPT ![c] = Moved(c, "timeout", end, co[c].todo)]
      PROVE  IInv'
  <2>1. Fits(c, "timeout", end)
        BY DEF Fits, Joining
  <2> QED BY <1>1, <1>2, <1>3, <1>4, <1>5, <2>1, MoveStep
<1>6. CASE co' = [co EXCEPT ![c].pc = "timeout"]
  <2>1. co' = [co EXCEPT ![c] = [co[c] EXCEPT !.pc = "timeout"]]
        BY <1>6
  <2> QED BY <1>1, <1>5, <2>1, MovedIs DEF IInv
<1>7. CASE co' = [co EXCEPT ![c] = [@ EXCEPT !.pc = "timeout", !.end = "WorkflowTimedOut"]]
  <2>1. co' = [co EXCEPT ![c] = [co[c] EXCEPT !.pc = "timeout", !.end = "WorkflowTimedOut"]]
        BY <1>7
  <2> QED BY <1>5, <2>1, MovedIs DEF IInv
<1> QED BY <1>6, <1>7 DEF TimesOut

LEMMA SelectKeeps ==
    ASSUME IInv, NEW c \in Coroutines, Select(c)
    PROVE  IInv'
<1>1. co[c].pc = "select" /\ co[c].end = "none"
      BY DEF Select, Runs, IInv, Shaped
<1>2. RowsStay /\ Extends
  <2>1. doomed' \subseteq BranchIds /\ UNCHANGED <<policy, run, row, memory, invoked, cancelled, late>>
        BY DEF Select, IInv, RowTyped
  <2> QED BY <2>1, Quietly
<1>3. Abides(c, "choose") /\ Fits(c, "choose", "none")
      BY <1>1 DEF Abides, Joining, Fits
<1>4. co[c].pc \in Own \ {"retry"} /\ "choose" \in Own \ {"run", "limit", "select", "retry"}
      BY <1>1 DEF Own
<1>5. PICK i \in DOMAIN Selects[Node(c)] :
          co' = [co EXCEPT ![c] = [@ EXCEPT !.pc = "choose", !.todo = Selects[Node(c)][i]]]
      BY DEF Select
<1> DEFINE todo == Selects[Node(c)][i]
<1>6. co' = [co EXCEPT ![c] = [co[c] EXCEPT !.pc = "choose", !.todo = todo]]
      BY <1>5
<1> HIDE DEF todo
<1>7. co' = [co EXCEPT ![c] = Moved(c, "choose", "none", todo)]
  <2>1. [co[c] EXCEPT !.pc = "choose", !.todo = todo] = Moved(c, "choose", co[c].end, todo)
        BY MovedOnIs DEF IInv
  <2> QED BY <1>1, <1>6, <2>1
<1>8. todo \in SUBSET Nodes
  <2>1. Kind[Node(c)] = "condition" /\ Node(c) \in Nodes
        BY <1>1, NodeIs DEF IInv, Holds
  <2> QED BY <2>1, WorkflowRunAssumption DEF WorkflowRunAssumption, todo
<1> QED BY <1>2, <1>3, <1>4, <1>7, <1>8, MoveStep

\* A condition and fail_fast skip one node after the other
LEMMA SkipKeeps ==
    ASSUME IInv, NEW c \in Coroutines, co[c].pc \in {"choose", "clean"}, NEW skippable, SkipOne(c, skippable),
           UNCHANGED <<policy, run, attempts, tolerated, invoked, doomed, cancelled, late>>
    PROVE  IInv'
<1>1. co[c].pc \in Own \ {"run", "limit", "select", "retry"} /\ co[c].end = "none" /\ co[c].todo \in SUBSET Nodes /\ Shaped(c)
      BY NodeIs DEF IInv, Shaped, CoRow, Own
<1>2. PICK n \in co[c].todo :
        IF n \in skippable
          THEN IF Allowed(Stored(n), "SKIPPED")
                 THEN Store(n, "SKIPPED") /\ co' = [co EXCEPT ![c].todo = @ \ {n}]
                 ELSE Goto(c, "fail") /\ UNCHANGED <<row, status, executed>>
          ELSE co' = [co EXCEPT ![c].todo = @ \ {n}] /\ UNCHANGED <<row, status, executed>>
      BY DEF SkipOne
<1> DEFINE todo == co[c].todo \ {n}
<1> DEFINE k == Moved(c, co[c].pc, "none", todo)
<1>3. todo \in SUBSET Nodes /\ n \in Nodes
      BY <1>1
<1>4. co' = [co EXCEPT ![c].todo = @ \ {n}] => co' = [co EXCEPT ![c] = k]
  <2>1. [co[c] EXCEPT !.todo = todo] = k
        BY <1>1, MovedIs DEF IInv
  <2> HIDE DEF k
  <2> QED BY <2>1
<1>5. Fits(c, co[c].pc, "none") /\ \A pc : pc \in {co[c].pc, "fail"} => Abides(c, pc)
      BY <1>1 DEF Fits, Abides, Shaped
<1> DEFINE Goal == IInv'
<1> SUFFICES Goal
    OBVIOUS
<1>6. CASE n \in skippable /\ Allowed(Stored(n), "SKIPPED")
  <2>1. Store(n, "SKIPPED") /\ co' = [co EXCEPT ![c] = k]
        BY <1>2, <1>4, <1>6
  <2>2. k \in CoRow /\ k.pc = co[c].pc /\ k.at = co[c].at /\ k.end = "none"
    <3>1. co[c].pc \in Pcs /\ "none" \in Ends
          BY NodeIs DEF IInv, CoRow, Ends
    <3>2. k \in CoRow
          BY <1>3, <3>1, MovedIs DEF IInv
    <3> QED BY <3>2 DEF Moved
  <2> HIDE DEF k
  <2>3. co'[c] = k /\ Becomes(c, k, {}) /\ Node(c)' = Node(c)
        BY <2>1, <2>2 DEF IInv, CoTyped, Becomes, Node
  <2>4. RowsMove
        BY DEF RowsMove
  <2>5. run # "PENDING" /\ co[c].pc \notin {"idle", "done"}
        BY <1>1, Begun DEF Own
  <2>6. /\ \A m \in Nodes : row'[m].attempt = row[m].attempt /\ row'[m].status = IF m = n THEN "SKIPPED" ELSE row[m].status
        /\ \A m \in Nodes : status'[m] = IF m = n THEN "SKIPPED" ELSE status[m]
        /\ executed' = executed \cup {n} /\ Tame
        BY <1>3, <1>6, <2>1, <2>4, <2>5, StoreFacts DEF NodeStatus, Terminal
  <2>7. Shaped(c)'
        BY <1>1, <2>2, <2>3 DEF Shaped
  <2>8. Holds(c)'
    <3>1. Holds(c) /\ Node(c) \in Nodes /\ Deps[Node(c)] \subseteq Nodes
          BY NodeIs, WorkflowRunAssumption DEF IInv, WorkflowRunAssumption
    <3>2. Due(Node(c))'
          BY <1>1, <2>3, <2>6, <3>1 DEF Holds, Active, Due, Tame
    <3> QED BY <1>1, <2>2, <2>3, <2>6, <3>1, <3>2 DEF Holds
  <2>9. k.pc \in Active /\ co[c].pc \in Active /\ k.pc # "idle" /\ k.at \in 1..Len(List(c))
        BY <1>1, <2>2, NodeIs DEF Active, IInv
  <2>10. Accounts(c, k)
    <3>1. executed \subseteq Nodes
          BY DEF IInv, RowTyped
    <3> QED BY <1>3, <2>2, <2>6, <2>9, <3>1 DEF Accounts, Terminal
  <2>11. OwnsAlone(c, k)
        BY <1>1, <2>2 DEF OwnsAlone
  <2>12. ASSUME c = Main PROVE Proceeds(k)
    <3>1. ~ Over /\ \A i \in 1..(k.at - 1) : Order[i] \in executed'
          BY <1>1, <2>2, <2>6, <2>9, <2>12 DEF Over, IInv, Visited, Own
    <3>2. ASSUME NEW p \in Parallels, Node(Main) = p, co[Main].pc \in Joining \cup {"fail", "timeout", "cancel"}
          PROVE  AtFault(p)'
          BY <2>2, <2>3, <2>12, <3>2 DEF AtFault
    <3> QED BY <1>1, <2>2, <2>12, <3>1, <3>2 DEF Proceeds, Own
  <2>13. "SKIPPED" \in NodeStatus /\ c \notin {}
        BY DEF NodeStatus, Terminal
  <2> QED BY <1>3, <1>6, <2>1, <2>2, <2>3, <2>4, <2>5, <2>7, <2>8, <2>9, <2>10, <2>11, <2>12, <2>13, StoreStep
<1>7. CASE ~ (n \in skippable /\ Allowed(Stored(n), "SKIPPED"))
  <2>1. row' = row /\ status' = status /\ executed' = executed
        BY <1>2, <1>7
  <2>2. RowsStay /\ Extends
        BY <2>1 DEF RowsStay, Extends, IInv, RowTyped
  <2>3. CASE co' = [co EXCEPT ![c].todo = @ \ {n}]
        BY <1>1, <1>3, <1>4, <1>5, <2>2, <2>3, MoveStep
  <2>4. CASE Goto(c, "fail")
    <3>1. co' = [co EXCEPT ![c] = [co[c] EXCEPT !.pc = "fail"]]
          BY <2>4 DEF Goto
    <3>2. co' = [co EXCEPT ![c] = Moved(c, "fail", "none", co[c].todo)]
          BY <1>1, <3>1, MovedIs DEF IInv
    <3>3. Fits(c, "fail", "none") /\ "fail" \in Own \ {"run", "limit", "select", "retry"} /\ Abides(c, "fail")
          BY <1>5 DEF Fits, Own, Joining
    <3> QED BY <1>1, <2>2, <3>2, <3>3, MoveStep
  <2> QED BY <1>2, <1>7, <2>3, <2>4
<1> QED BY <1>6, <1>7

LEMMA ChooseKeeps ==
    ASSUME IInv, NEW c \in Coroutines, Choose(c)
    PROVE  IInv'
<1>1. co[c].pc = "choose" /\ UNCHANGED <<policy, run, attempts, tolerated, invoked, doomed, cancelled, late>>
      BY DEF Choose, Runs
<1>2. CASE SkipOne(c, co[c].todo \ executed)
      BY <1>1, <1>2, SkipKeeps
<1>3. CASE co' = [co EXCEPT ![c] = Dispatched(c, TRUE)] /\ UNCHANGED <<row, status, executed>>
  <2>1. RowsStay /\ Extends
        BY <1>1, <1>3 DEF RowsStay, Extends, IInv, RowTyped
  <2>2. Abides(c, "complete") /\ co[c].pc \in Own \ {"retry", "unwind", "timeout", "cancel"}
        BY <1>1 DEF Abides, Joining, Own
  <2> QED BY <1>3, <2>1, <2>2, DispatchStep
<1> QED BY <1>2, <1>3 DEF Choose

LEMMA CleanKeeps ==
    ASSUME IInv, NEW c \in Coroutines, Clean(c)
    PROVE  IInv'
<1>1. co[c].pc = "clean" /\ UNCHANGED <<policy, run, attempts, tolerated, invoked, doomed, cancelled, late>>
      BY DEF Clean, Runs
<1>2. CASE SkipOne(c, {n \in co[c].todo : status[n] \in {"PENDING", "READY"}})
      BY <1>1, <1>2, SkipKeeps
<1>3. CASE co' = [co EXCEPT ![c] = Dispatched(c, FALSE)] /\ UNCHANGED <<row, status, executed>>
  <2>1. RowsStay /\ Extends
        BY <1>1, <1>3 DEF RowsStay, Extends, IInv, RowTyped
  <2>2. co[c].pc \in Own \ {"retry", "unwind", "timeout", "cancel"}
        BY <1>1 DEF Own
  <2> QED BY <1>3, <2>1, <2>2, DispatchStep
<1> QED BY <1>2, <1>3 DEF Clean

LEMMA RaisesKeeps ==
    ASSUME IInv, NEW c \in Coroutines, JoinRaises(c)
    PROVE  IInv'
<1>1. co[c].pc = "join" /\ co[c].end = "none" /\ co[c].todo \in SUBSET Nodes
      BY NodeIs DEF JoinRaises, Runs, IInv, Shaped, CoRow
<1>2. RowsStay /\ Extends
  <2>1. doomed' \subseteq BranchIds /\ UNCHANGED <<policy, run, row, memory, invoked, cancelled, late>>
        BY DEF JoinRaises, IInv, RowTyped
  <2> QED BY <2>1, Quietly
<1>3. PICK b \in Throwing(c) :
           co' = [co EXCEPT ![c] =
               CASE co[b].end = "WorkflowCancelled" -> [@ EXCEPT !.pc = "cancel", !.end = co[b].end]
                 [] co[b].end = "WorkflowTimedOut" -> [@ EXCEPT !.pc = "timeout", !.end = co[b].end]
                 [] OTHER -> [@ EXCEPT !.pc = "fail"]]
      BY DEF JoinRaises
<1>4. b \in Coroutines /\ Shaped(b)
      BY ListsAre DEF Throwing, Parts, IInv
<1>5. ASSUME NEW pc \in {"cancel", "timeout", "fail"}, NEW end, Fits(c, pc, end), co' = [co EXCEPT ![c] = Moved(c, pc, end, co[c].todo)]
      PROVE  IInv'
  <2>1. Abides(c, pc) /\ pc \in Own \ {"run", "limit", "select", "retry"} /\ co[c].pc \in Own \ {"retry"}
        BY <1>1 DEF Abides, Own
  <2> QED BY <1>1, <1>2, <1>5, <2>1, MoveStep
<1>6. CASE co[b].end = "WorkflowCancelled"
  <2>1. co' = [co EXCEPT ![c] = [co[c] EXCEPT !.pc = "cancel", !.end = "WorkflowCancelled"]]
        BY <1>3, <1>6
  <2>2. Fits(c, "cancel", "WorkflowCancelled")
        BY <1>4, <1>6 DEF Fits, Shaped, Joining
  <2> QED BY <1>5, <2>1, <2>2, MovedIs DEF IInv
<1>7. CASE co[b].end = "WorkflowTimedOut"
  <2>1. co' = [co EXCEPT ![c] = [co[c] EXCEPT !.pc = "timeout", !.end = "WorkflowTimedOut"]]
        BY <1>3, <1>7
  <2>2. Fits(c, "timeout", "WorkflowTimedOut")
        BY DEF Fits, Joining
  <2> QED BY <1>5, <2>1, <2>2, MovedIs DEF IInv
<1>8. CASE co[b].end \notin {"WorkflowCancelled", "WorkflowTimedOut"}
  <2>1. co' = [co EXCEPT ![c] = [co[c] EXCEPT !.pc = "fail"]]
        BY <1>3, <1>8
  <2>2. Fits(c, "fail", "none")
        BY DEF Fits, Joining
  <2>3. co' = [co EXCEPT ![c] = Moved(c, "fail", "none", co[c].todo)]
        BY <1>1, <2>1, MovedIs DEF IInv
  <2> QED BY <1>5, <2>2, <2>3
<1> QED BY <1>6, <1>7, <1>8

LEMMA HeldIs ==
    ASSUME NEW bs \in SUBSET BranchIds
    PROVE  Held(bs) \subseteq Nodes /\ Held(bs) \cap Parallels = {}
<1>1. ASSUME NEW n \in Held(bs) PROVE n \in Nodes \ Parallels
  <2>1. PICK b \in bs : n \in Range(Branches[b[1]][b[2]])
        BY DEF Held
  <2> QED BY <2>1, ListsAre
<1> QED BY <1>1

LEMMA FailsFastKeeps ==
    ASSUME IInv, NEW c \in Coroutines, JoinFailsFast(c)
    PROVE  IInv'
<1> DEFINE todo == Held(Unended(c))
<1>1. co[c].pc = "join" /\ co[c].end = "none" /\ Shaped(c)
      BY DEF JoinFailsFast, Runs, IInv, Shaped
<1>2. Unended(c) \subseteq BranchIds
      BY DEF Unended, Parts
<1>3. todo \in SUBSET Nodes
      BY <1>2, HeldIs
<1>4. RowsStay /\ Extends
  <2>1. doomed' \subseteq BranchIds /\ UNCHANGED <<policy, run, row, memory, invoked, cancelled, late>>
        BY <1>2 DEF JoinFailsFast, IInv, RowTyped
  <2> QED BY <2>1, Quietly
<1>5. co' = [co EXCEPT ![c] = [co[c] EXCEPT !.pc = "drain", !.todo = todo]]
      BY DEF JoinFailsFast
<1> HIDE DEF todo
<1>6. co' = [co EXCEPT ![c] = Moved(c, "drain", "none", todo)]
  <2>1. [co[c] EXCEPT !.pc = "drain", !.todo = todo] = Moved(c, "drain", co[c].end, todo)
        BY MovedOnIs DEF IInv
  <2> QED BY <1>1, <1>5, <2>1
<1>7. Fits(c, "drain", "none") /\ Abides(c, "drain")
      BY <1>1 DEF Fits, Abides, Joining, Shaped
<1>8. co[c].pc \in Own \ {"retry"} /\ "drain" \in Own \ {"run", "limit", "select", "retry"}
      BY <1>1 DEF Own
<1> QED BY <1>3, <1>4, <1>6, <1>7, <1>8, MoveStep

LEMMA DrainKeeps ==
    ASSUME IInv, NEW c \in Coroutines, Drain(c)
    PROVE  IInv'
<1> DEFINE pc == IF co[c].pc = "drain" THEN "clean" ELSE "timeout"
<1>1. co[c].pc \in {"drain", "unwind"} /\ co[c].todo \in SUBSET Nodes /\ Shaped(c)
      BY NodeIs DEF Drain, Runs, IInv, CoRow
<1>2. RowsStay /\ Extends
  <2>1. doomed' \subseteq BranchIds /\ UNCHANGED <<policy, run, row, memory, invoked, cancelled, late>>
        BY DEF Drain, IInv, RowTyped
  <2> QED BY <2>1, Quietly
<1>3. co' = [co EXCEPT ![c] = [co[c] EXCEPT !.pc = pc]]
      BY DEF Drain, Goto
<1>4. Fits(c, pc, co[c].end) /\ Abides(c, pc)
      BY <1>1 DEF Fits, Abides, Joining, Shaped
<1>5. co[c].pc \in Own \ {"retry"} /\ pc \in Own \ {"run", "limit", "select", "retry"}
      BY <1>1 DEF Own
<1> HIDE DEF pc
<1>6. co' = [co EXCEPT ![c] = Moved(c, pc, co[c].end, co[c].todo)]
      BY <1>3, MovedIs DEF IInv
<1> QED BY <1>1, <1>2, <1>4, <1>5, <1>6, MoveStep

LEMMA JoinKeeps ==
    ASSUME IInv, NEW c \in Coroutines, JoinAll(c)
    PROVE  IInv'
<1>1. co[c].pc = "join" /\ Shaped(c)
      BY DEF JoinAll, Runs, IInv
<1>2. tolerated \subseteq tolerated' /\ tolerated' \subseteq Nodes /\ tolerated' \cap Parallels = {}
  <2>1. Parts(Node(c)) \in SUBSET BranchIds
        BY DEF Parts
  <2>2. Held(Parts(Node(c))) \subseteq Nodes /\ Held(Parts(Node(c))) \cap Parallels = {}
        BY <2>1, HeldIs
  <2> QED BY <2>2 DEF JoinAll, IInv, RowTyped
<1>3. RowsStay /\ Extends
      BY <1>2 DEF RowsStay, Extends, JoinAll, IInv, RowTyped
<1>4. Abides(c, "complete")
  <2>1. ASSUME NEW b \in BranchIds, b[1] = Node(c) PROVE ~ Stray(b)
    <3>1. b \in Parts(Node(c)) /\ b \in Coroutines
          BY <2>1, ListsAre DEF Parts
    <3>2. Ended(b) /\ co[b].end \notin Exceptions
          BY <3>1 DEF JoinAll, Unended, Throwing
    <3>3. Shaped(b) /\ co[b].end \in Ends
          BY <3>1, NodeIs DEF IInv, CoRow
    <3> QED BY <3>2, <3>3 DEF Stray, Shaped, Ended, Ends
  <2> QED BY <2>1 DEF Abides
<1>5. PICK succeeded \in BOOLEAN : co' = [co EXCEPT ![c] = Dispatched(c, succeeded)]
  <2>1. co' = [co EXCEPT ![c] = Dispatched(c, Enough(c))]
        BY DEF JoinAll
  <2>2. Enough(c) = TRUE \/ Enough(c) = FALSE
    <3>1. CASE policy[Node(c)] = "min_success"
          BY <3>1 DEF Enough
    <3>2. CASE policy[Node(c)] # "min_success"
          BY <3>2 DEF Enough
    <3> QED BY <3>1, <3>2
  <2> QED BY <2>1, <2>2
<1>6. co[c].pc \in Own \ {"retry", "unwind", "timeout", "cancel"}
      BY <1>1 DEF Own
<1> QED BY <1>3, <1>4, <1>5, <1>6, DispatchStep

LEMMA JoinTimesOutKeeps ==
    ASSUME IInv, NEW c \in Coroutines, JoinTimesOut(c)
    PROVE  IInv'
<1>1. co[c].pc \in {"join", "drain", "clean"} /\ co[c].end = "none" /\ co[c].todo \in SUBSET Nodes /\ Shaped(c)
      BY NodeIs DEF JoinTimesOut, Runs, IInv, Shaped, CoRow
<1>2. PICK end \in (IF Node(c) \in NodeLimited THEN {"none"} ELSE {})
                  \cup (IF late THEN {"WorkflowTimedOut"} ELSE {}) :
           IF co[c].pc = "clean" \/ (co[c].pc = "join" /\ policy[Node(c)] = "fail_fast")
             THEN co' = [co EXCEPT ![c] = [@ EXCEPT !.pc = "timeout", !.end = end]] /\ doomed' = doomed
             ELSE /\ co' = [co EXCEPT ![c] = [@ EXCEPT !.pc = "unwind", !.end = end]]
                  /\ doomed' = doomed \cup Unended(c)
      BY DEF JoinTimesOut
<1>3. end \in {"none", "WorkflowTimedOut"}
      OBVIOUS
<1>4. RowsStay /\ Extends
  <2>1. Unended(c) \subseteq BranchIds
        BY DEF Unended, Parts
  <2>2. UNCHANGED <<policy, run, row, memory, invoked, cancelled, late>>
        BY DEF JoinTimesOut
  <2>3. doomed' \subseteq BranchIds
        BY <1>2, <2>1 DEF IInv, RowTyped
  <2> QED BY <2>2, <2>3, Quietly
<1>5. ASSUME NEW pc \in {"timeout", "unwind"}, co' = [co EXCEPT ![c] = [co[c] EXCEPT !.pc = pc, !.end = end]]
      PROVE  IInv'
  <2>1. co' = [co EXCEPT ![c] = Moved(c, pc, end, co[c].todo)]
        BY <1>5, MovedIs DEF IInv
  <2>2. Fits(c, pc, end) /\ Abides(c, pc)
        BY <1>1, <1>3 DEF Fits, Abides, Joining, Shaped
  <2>3. co[c].pc \in Own \ {"retry"} /\ pc \in Own \ {"run", "limit", "select", "retry"}
        BY <1>1 DEF Own
  <2> QED BY <1>1, <1>4, <2>1, <2>2, <2>3, MoveStep
<1>6. \/ co' = [co EXCEPT ![c] = [co[c] EXCEPT !.pc = "timeout", !.end = end]]
      \/ co' = [co EXCEPT ![c] = [co[c] EXCEPT !.pc = "unwind", !.end = end]]
      BY <1>2
<1> QED BY <1>5, <1>6

LEMMA InvokeKeeps ==
    ASSUME IInv, NEW c \in Coroutines, Invoke(c)
    PROVE  IInv'
<1> DEFINE n == Node(c)
<1> DEFINE k == Moved(c, "work", "none", co[c].todo)
<1>1. co[c].pc = "limit" /\ co[c].end = "none" /\ co[c].todo \in SUBSET Nodes /\ Shaped(c) /\ n \in Nodes
      /\ co[c] \in CoRow /\ co[c].at \in 1..Len(List(c))
      BY NodeIs DEF Invoke, Runs, IInv, Shaped, CoRow
<1>2. co' = [co EXCEPT ![c] = k] /\ co'[c] = k
  <2>1. co' = [co EXCEPT ![c] = [co[c] EXCEPT !.pc = "work"]]
        BY DEF Invoke, Goto
  <2>2. [co[c] EXCEPT !.pc = "work"] = k
        BY <1>1, MovedIs DEF IInv
  <2> HIDE DEF k
  <2> QED BY <2>1, <2>2 DEF IInv, CoTyped
<1>3. k \in CoRow /\ k.pc = "work" /\ k.end = "none" /\ k.at = co[c].at
  <2>1. "work" \in Pcs /\ "none" \in Ends
        BY DEF Pcs, Active, Own, Ends
  <2>2. k \in CoRow
        BY <1>1, <2>1, MovedIs DEF IInv
  <2> QED BY <2>2 DEF Moved
<1> HIDE DEF k
<1>4. /\ policy' = policy /\ run' = run /\ row' = row /\ status' = status /\ executed' = executed /\ attempts' = attempts
      /\ tolerated' = tolerated /\ doomed' = doomed /\ cancelled' = cancelled /\ late' = late
      BY DEF Invoke, memory
<1>5. invoked' \in [Nodes -> Nat] /\ \A m \in Nodes : invoked'[m] = IF m = n THEN invoked[m] + 1 ELSE invoked[m]
      BY <1>1 DEF Invoke, IInv, RowTyped
<1>6. Holds(c) /\ Due(n)
      BY <1>1 DEF IInv, Holds, Active, Own
<1>7. row[n].status # "PENDING" /\ invoked[n] < attempts[n] /\ invoked[n] \in Nat /\ attempts[n] \in Nat \ {0}
      BY <1>1, <1>6 DEF Holds, Own, IInv, RowTyped
<1>8. RowTyped' /\ Tame
      BY <1>4, <1>5 DEF IInv, RowTyped, Tame
<1>9. ASSUME NEW m \in Nodes PROVE Counted(m)'
  <2>1. Counted(m)
        BY DEF IInv
  <2>2. Due(m)' <=> Due(m)
        BY <1>4 DEF Due
  <2>3. CASE m = n
    <3> HIDE DEF n
    <3> QED BY <1>4, <1>5, <1>6, <1>7, <2>1, <2>2, <2>3 DEF Counted
  <2>4. CASE m # n
        BY <1>4, <1>5, <2>1, <2>2, <2>4 DEF Counted
  <2> QED BY <2>3, <2>4
<1>10. Node(c)' = n
      BY <1>2, <1>3 DEF Node
<1>11. Shaped(c)' /\ Holds(c)'
  <2>1. Shaped(c)'
        BY <1>1, <1>2, <1>3 DEF Shaped, Joining, Ending
  <2>2. Due(Node(c))'
        BY <1>4, <1>6, <1>10 DEF Due
  <2>3. row[n].attempt = attempts[n] /\ row[n].status \in {"READY", "RUNNING", "SKIPPED", "CANCELLED"}
        BY <1>1, <1>6 DEF Holds, Own
  <2> QED BY <1>2, <1>3, <1>4, <1>10, <2>1, <2>2, <2>3 DEF Holds
<1>12. ASSUME NEW d \in Coroutines \ {c} PROVE Holds(d)'
  <2>1. co'[d] = co[d] /\ Node(d)' = Node(d)
        BY <1>2 DEF IInv, CoTyped, Node
  <2>2. Holds(d) /\ Node(d) \in Nodes
        BY NodeIs DEF IInv
  <2>3. co[d].pc \in {"run", "limit"} => Node(d) # n
        BY <1>1 DEF IInv, Alone, Own
  <2> QED BY <1>4, <1>5, <2>1, <2>2, <2>3 DEF Holds, Due
<1>13. k.pc \in Active /\ k.pc # "idle" /\ co[c].pc \notin {"idle", "done"} /\ co[c].pc \in Own /\ k.at \in 1..Len(List(c))
      BY <1>1, <1>3 DEF Active, Own
<1>14. Accounts(c, k) /\ OwnsAlone(c, k)
      BY <1>3, <1>4, <1>13 DEF Accounts, OwnsAlone
<1>15. ASSUME c = Main PROVE Proceeds(k)
  <2>1. ~ Over /\ \A i \in 1..(k.at - 1) : Order[i] \in executed'
        BY <1>1, <1>3, <1>4, <1>13, <1>15 DEF Over, IInv, Visited, Active
  <2> QED BY <1>1, <1>3, <1>15, <2>1 DEF Proceeds, Joining
<1>16. Becomes(c, k, {}) /\ run # "PENDING" /\ c \notin {}
      BY <1>2, <1>13, Begun DEF Becomes, IInv, CoTyped
<1> QED BY <1>3, <1>4, <1>8, <1>9, <1>11, <1>12, <1>13, <1>14, <1>15, <1>16, StepKeeps

-----------------------------------------------------------------------------
(* The next attempt of a node.                                             *)

LEMMA RenewStep ==
    ASSUME IInv, NEW c \in Coroutines, co[c].pc = "retry", NEW k \in CoRow, k.at = co[c].at,
           co' = [co EXCEPT ![c] = k], MayFollow(row[Node(c)], co[c].try + 1),
           row' = [row EXCEPT ![Node(c)] = Created(@)],
           attempts' = attempts \/ attempts' = [attempts EXCEPT ![Node(c)] = co[c].try + 1],
           UNCHANGED <<policy, run, status, executed, tolerated, invoked, cancelled, late>>, doomed' \subseteq BranchIds,
           \/ k.pc = "ready" /\ k.end = "none"
           \/ k.pc = "done" /\ k.end = "Cancelled" /\ c # Main
    PROVE  IInv'
<1> DEFINE n == Node(c)
<1>1. n \in Nodes /\ co[c] \in CoRow /\ co[c].at \in 1..Len(List(c)) /\ co[c].try \in Nat \ {0}
      BY NodeIs DEF IInv, CoRow
<1>2. co'[c] = k /\ Node(c)' = n
      BY DEF IInv, CoTyped, Node
<1>3. /\ policy' = policy /\ run' = run /\ status' = status /\ executed' = executed
      /\ tolerated' = tolerated /\ invoked' = invoked /\ cancelled' = cancelled /\ late' = late
      OBVIOUS
<1>4. Shaped(c) /\ Holds(c) /\ co[c].pc \in Own /\ co[c].pc \in Active
      BY DEF IInv, Own, Active
<1>5. /\ row[n].attempt = attempts[n] /\ row[n].status = "FAILED" /\ status[n] = "FAILED"
      /\ co[c].try < MaxAttempts[n] /\ Due(n)
      BY <1>4 DEF Holds
<1>6. run # "PENDING"
      BY Begun
<1>7. row[n] \in [status : NodeStatus, attempt : Nat \ {0}]
      BY <1>1, <1>5, <1>6 DEF IInv, RowTyped, Counted
<1> DEFINE next == co[c].try + 1
<1>8. next = row[n].attempt + 1 /\ next \in Nat \ {0}
      BY <1>1 DEF MayFollow
<1>9. row'[n] = [status |-> "PENDING", attempt |-> next] /\ \A m \in Nodes : m # n => row'[m] = row[m]
  <2>1. Created(row[n]) = [status |-> "PENDING", attempt |-> next]
        BY <1>8 DEF Created
  <2> QED BY <1>1, <2>1 DEF IInv, RowTyped
<1>10. attempts' \in [Nodes -> Nat \ {0}] /\ attempts'[n] \in {attempts[n], next} /\ \A m \in Nodes : m # n => attempts'[m] = attempts[m]
  <2>1. CASE attempts' = attempts
        BY <1>1, <2>1 DEF IInv, RowTyped
  <2>2. CASE attempts' = [attempts EXCEPT ![n] = next]
    <3> HIDE DEF next
    <3> QED BY <1>1, <1>8, <2>2 DEF IInv, RowTyped
  <2> QED BY <2>1, <2>2
<1>11. next <= MaxAttempts[n] /\ MaxAttempts[n] \in Nat \ {0}
      BY <1>1, <1>5, WorkflowRunAssumption DEF WorkflowRunAssumption
<1>12. n \notin Parallels
      BY <1>1, <1>5, WorkflowRunAssumption DEF WorkflowRunAssumption
<1> HIDE DEF next
<1>13. RowTyped'
  <2>1. row' \in [Nodes -> [status : NodeStatus, attempt : Nat \ {0}] \cup {NoRow}]
    <3>1. row'[n] \in [status : NodeStatus, attempt : Nat \ {0}]
          BY <1>8, <1>9 DEF NodeStatus
    <3>2. \A m \in Nodes : row'[m] \in [status : NodeStatus, attempt : Nat \ {0}] \cup {NoRow}
          BY <1>9, <3>1 DEF IInv, RowTyped
    <3> QED BY <3>2 DEF IInv, RowTyped
  <2> QED BY <1>3, <1>10, <2>1 DEF IInv, RowTyped
<1>14. Tame
  <2>1. \A p \in Parallels : row'[p] = row[p]
        BY <1>9, <1>12, ListsAre
  <2> QED BY <1>3, <2>1 DEF Tame
<1>15. ASSUME NEW m \in Nodes PROVE Counted(m)'
  <2>1. Counted(m) /\ invoked[m] \in Nat /\ attempts[m] \in Nat \ {0}
        BY DEF IInv, RowTyped
  <2>2. Due(m)' <=> Due(m)
        BY <1>3 DEF Due
  <2>3. CASE m = n
    <3>1. row'[n].attempt = next /\ row'[n].status = "PENDING" /\ row'[n] # NoRow
          BY <1>9 DEF NoRow
    <3>2. next = attempts[n] + 1 /\ next > 1
          BY <1>5, <1>7, <1>8
    <3>3. invoked[n] <= attempts[n] /\ attempts[n] <= MaxAttempts[n] /\ (invoked[n] > 0 => Due(n))
          BY <2>1, <2>3 DEF Counted
    <3> HIDE DEF n
    <3> QED BY <1>3, <1>5, <1>10, <1>11, <2>1, <2>2, <2>3, <3>1, <3>2, <3>3 DEF Counted
  <2>4. CASE m # n
        BY <1>3, <1>9, <1>10, <2>1, <2>2, <2>4 DEF Counted
  <2> QED BY <2>3, <2>4
<1>16. ASSUME NEW d \in Coroutines \ {c} PROVE Holds(d)'
  <2>1. co'[d] = co[d] /\ Node(d)' = Node(d)
        BY DEF IInv, CoTyped, Node
  <2>2. Holds(d) /\ Node(d) \in Nodes
        BY NodeIs DEF IInv
  <2>3. co[d].pc \in Own => Node(d) # n
        BY <1>4 DEF IInv, Alone
  <2>4. Due(Node(d)) => Due(Node(d))'
        BY <1>3, <2>1 DEF Due
  <2>5. CASE Node(d) # n
        BY <1>3, <1>9, <1>10, <2>1, <2>2, <2>4, <2>5 DEF Holds
  <2>6. CASE co[d].pc \notin Own
        BY <2>1, <2>2, <2>4, <2>6 DEF Holds, Own
  <2> QED BY <2>3, <2>5, <2>6
<1>17. Shaped(c)'
      BY <1>2, ListsAre DEF Shaped, Joining, Ending
<1>18. Holds(c)'
  <2>1. Due(Node(c))'
        BY <1>2, <1>3, <1>5 DEF Due
  <2> QED BY <1>2, <2>1 DEF Holds, Own, Active
<1>19. Accounts(c, k)
      BY <1>3, <1>4 DEF Accounts, Active, Exceptions
<1>20. OwnsAlone(c, k) /\ k.pc # "idle" /\ k.at \in 1..Len(List(c)) /\ Becomes(c, k, {}) /\ c \notin {}
      BY <1>1 DEF OwnsAlone, Own, Becomes, IInv, CoTyped
<1>21. ASSUME c = Main PROVE Proceeds(k)
  <2>1. ~ Over /\ \A i \in 1..(k.at - 1) : Order[i] \in executed'
        BY <1>3, <1>4, <1>21 DEF Over, IInv, Visited
  <2> QED BY <1>21, <2>1 DEF Proceeds, Joining
<1>22. co[c].pc \notin {"idle", "done"} /\ run' # "PENDING" /\ (run' = "SUCCEEDED" => run = "SUCCEEDED")
      BY <1>3, <1>6
<1> QED BY <1>6, <1>13, <1>14, <1>15, <1>16, <1>17, <1>18, <1>19, <1>20, <1>21, <1>22, StepKeeps

LEMMA RetryKeeps ==
    ASSUME IInv, NEW c \in Coroutines, Retry(c)
    PROVE  IInv'
<1> DEFINE n == Node(c)
<1> DEFINE next == co[c].try + 1
<1>1. co[c].pc = "retry" /\ co[c] \in CoRow /\ co[c].end = "none" /\ Shaped(c)
      BY NodeIs DEF Retry, Runs, IInv, Shaped
<1>2. UNCHANGED <<policy, run, status, executed, tolerated, invoked, doomed, cancelled, late>>
      BY DEF Retry
<1>3. CASE Guard # "none" \/ ~ MayFollow(row[n], next)
  <2> DEFINE e == IF Guard # "none" THEN Guard ELSE "Error"
  <2>1. co' = [co EXCEPT ![c] = Raised(c, e)] /\ row' = row /\ attempts' = attempts
        BY <1>3 DEF Retry
  <2>2. e \in Exceptions /\ e # "Cancelled" /\ (e = "WorkflowCancelled" => cancelled)
        BY GuardIs DEF Exceptions, Overdue
  <2> HIDE DEF e
  <2>3. RowsStay /\ tolerated' = tolerated /\ doomed' \subseteq BranchIds
        BY <1>2, <2>1 DEF RowsStay, IInv, RowTyped
  <2> QED BY <1>1, <2>1, <2>2, <2>3, RaiseStep
<1>4. CASE Guard = "none" /\ MayFollow(row[n], next)
  <2>1. /\ row' = [row EXCEPT ![n] = Created(@)]
        /\ attempts' = [attempts EXCEPT ![n] = next]
        /\ co' = [co EXCEPT ![c] = [@ EXCEPT !.pc = "ready", !.try = next]]
        BY <1>4 DEF Retry
  <2> DEFINE k == [co[c] EXCEPT !.pc = "ready", !.try = next]
  <2>2. co[c] = [pc |-> co[c].pc, at |-> co[c].at, end |-> co[c].end, try |-> co[c].try, todo |-> co[c].todo]
        BY <1>1 DEF CoRow
  <2>3. k = [co[c] EXCEPT !.pc = "ready", !.try = next]
        OBVIOUS
  <2>4. co' = [co EXCEPT ![c] = k]
        BY <2>1
  <2>5. next \in Nat \ {0}
        BY <1>1 DEF CoRow
  <2> HIDE DEF k, next
  <2>6. k = [pc |-> "ready", at |-> co[c].at, end |-> co[c].end, try |-> next, todo |-> co[c].todo]
        BY <2>2, <2>3
  <2>7. "ready" \in Pcs
        BY DEF Pcs, Active
  <2>8. k \in CoRow /\ k.at = co[c].at /\ k.pc = "ready" /\ k.end = "none"
        BY <1>1, <2>5, <2>6, <2>7 DEF CoRow
  <2>9. doomed' \subseteq BranchIds
        BY <1>2 DEF IInv, RowTyped
  <2> QED BY <1>1, <1>2, <1>4, <2>1, <2>4, <2>8, <2>9, RenewStep DEF next
<1> QED BY <1>3, <1>4

-----------------------------------------------------------------------------
(* A cancellation arrives in a branch.                                     *)

\* The commit under way succeeds and the branch never hears of it
LEMMA UnheardStep ==
    ASSUME IInv, NEW b \in BranchIds, co[b].pc \in DOMAIN Target, NEW k \in CoRow, k.at = co[b].at,
           k.pc = "done", k.end = "Cancelled", co' = [co EXCEPT ![b] = k],
           Allowed(Stored(Node(b)), Target[co[b].pc]),
           row' = [row EXCEPT ![Node(b)].status = Target[co[b].pc]],
           UNCHANGED <<policy, run, memory, invoked, cancelled, late>>, doomed' \subseteq BranchIds
    PROVE  IInv'
<1> DEFINE n == Node(b)
<1> DEFINE s == Target[co[b].pc]
<1>1. /\ b \in Coroutines /\ b # Main /\ n \in Nodes /\ n \notin Parallels /\ co[b] \in CoRow /\ co[b].at \in 1..Len(List(b))
      BY ListsAre, NodeIs DEF IInv
<1>2. /\ policy' = policy /\ run' = run /\ status' = status /\ executed' = executed /\ attempts' = attempts
      /\ tolerated' = tolerated /\ invoked' = invoked /\ cancelled' = cancelled /\ late' = late
      BY DEF memory
<1>3. co'[b] = k
      BY <1>1 DEF IInv, CoTyped
<1>4. co[b].pc \notin {"idle", "done"} /\ s \in NodeStatus \ {"PENDING"} /\ (s = "READY" => row[n].status = "PENDING")
      /\ (s \in {"SUCCEEDED", "FAILED", "TIMED_OUT"} => co[b].pc \in Own)
  <2>1. co[b].pc \notin {"idle", "done"} /\ s \in NodeStatus /\ (s \in {"SUCCEEDED", "FAILED", "TIMED_OUT"} => co[b].pc \in Own)
        BY TargetIs DEF Own
  <2>2. run # "PENDING"
        BY <1>1, <2>1, Begun
  <2> QED BY <1>1, <2>1, <2>2, AllowedIs, StoredIs
<1>5. run # "PENDING"
      BY <1>1, <1>4, Begun
<1>6. /\ row[n].attempt = attempts[n] /\ row[n].status \in {"PENDING", "READY", "RUNNING"}
      /\ row[n] \in [status : NodeStatus, attempt : Nat \ {0}] /\ status[n] \notin Fine
      BY <1>1, <1>5, StoredIs
<1> HIDE DEF s
<1>7. row' = [row EXCEPT ![n].status = s]
      BY DEF s
<1>8. row'[n] = [status |-> s, attempt |-> row[n].attempt] /\ \A m \in Nodes : m # n => row'[m] = row[m]
      BY <1>1, <1>6, <1>7 DEF IInv, RowTyped
<1>9. RowTyped'
  <2>1. row' \in [Nodes -> [status : NodeStatus, attempt : Nat \ {0}] \cup {NoRow}]
    <3>1. row'[n] \in [status : NodeStatus, attempt : Nat \ {0}]
          BY <1>4, <1>6, <1>8
    <3>2. \A m \in Nodes : row'[m] \in [status : NodeStatus, attempt : Nat \ {0}] \cup {NoRow}
          BY <1>8, <3>1 DEF IInv, RowTyped
    <3> QED BY <1>7, <3>2 DEF IInv, RowTyped
  <2> QED BY <1>2, <2>1 DEF IInv, RowTyped
<1>10. Tame
  <2>1. \A p \in Parallels : row'[p] = row[p]
        BY <1>1, <1>8, ListsAre
  <2>2. \A p \in Parallels : row[p].status \notin {"NONE", "PENDING", "READY"} => row'[p].status \notin {"NONE", "PENDING", "READY"}
        BY <2>1
  <2>3. /\ \A m \in Nodes : status[m] \in Fine => status'[m] \in Fine
        /\ \A p \in Parallels : status[p] \in Failed => status'[p] \in Failed
        BY <1>2
  <2>4. executed \subseteq executed' /\ tolerated \subseteq tolerated' /\ (cancelled => cancelled')
        BY <1>2
  <2> QED BY <2>2, <2>3, <2>4 DEF Tame
<1>11. ASSUME NEW m \in Nodes PROVE Counted(m)'
  <2>1. Counted(m)
        BY DEF IInv
  <2>2. Due(m)' <=> Due(m)
        BY <1>2 DEF Due
  <2>3. CASE m = n
    <3>1. row'[n] # NoRow /\ row'[n].attempt = row[n].attempt /\ row'[n].status = s
          BY <1>6, <1>8 DEF NoRow
    <3>2. status[n] \in Terminal => status[n] = "FAILED" /\ row[n].attempt > 1
          BY <1>6, <2>1, <2>3 DEF Counted, Terminal
    <3> HIDE DEF n
    <3> QED BY <1>2, <1>4, <2>1, <2>2, <2>3, <3>1, <3>2 DEF Counted
  <2>4. CASE m # n
        BY <1>2, <1>8, <2>1, <2>2, <2>4 DEF Counted
  <2> QED BY <2>3, <2>4
<1>12. ASSUME NEW d \in Coroutines \ {b} PROVE Holds(d)'
  <2>1. co'[d] = co[d] /\ Node(d)' = Node(d)
        BY DEF IInv, CoTyped, Node
  <2>2. Holds(d) /\ Node(d) \in Nodes
        BY NodeIs DEF IInv
  <2>3. Due(Node(d)) => Due(Node(d))'
        BY <1>2, <2>1 DEF Due
  <2>4. CASE Node(d) # n
        BY <1>2, <1>8, <2>1, <2>2, <2>3, <2>4 DEF Holds
  <2>5. CASE co[d].pc \notin Own
        BY <1>2, <2>1, <2>2, <2>3, <2>5 DEF Holds, Own
  <2>6. CASE Node(d) = n /\ co[d].pc \in Own
    <3>1. co[d].pc # "retry" /\ row[n].status # "PENDING"
          BY <1>6, <2>2, <2>6 DEF Holds
    <3>2. s \notin {"SUCCEEDED", "FAILED", "TIMED_OUT"}
          BY <1>1, <1>4, <2>6 DEF IInv, Alone
    <3>3. s \in {"RUNNING", "SKIPPED", "CANCELLED"}
          BY <1>4, <3>1, <3>2 DEF NodeStatus, Terminal
    <3>4. row'[n].attempt = row[n].attempt /\ row'[n].status = s
          BY <1>8
    <3> QED BY <1>2, <2>1, <2>2, <2>3, <2>6, <3>1, <3>3, <3>4 DEF Holds
  <2> QED BY <2>4, <2>5, <2>6
<1>13. Shaped(b)'
      BY <1>1, <1>3 DEF Shaped, Joining, Ending
<1>14. Holds(b)'
      BY <1>3 DEF Holds, Own, Active
<1>15. Accounts(b, k) /\ OwnsAlone(b, k)
      BY <1>2 DEF Accounts, OwnsAlone, Own, Exceptions
<1>16. Becomes(b, k, {}) /\ b \notin {} /\ k.at \in 1..Len(List(b)) /\ k.pc # "idle"
      BY <1>1 DEF Becomes, IInv, CoTyped
<1> QED BY <1>1, <1>2, <1>4, <1>5, <1>9, <1>10, <1>11, <1>12, <1>13, <1>14, <1>15, <1>16, StepKeeps

LEMMA LandKeeps ==
    ASSUME IInv, NEW b \in BranchIds, Land(b)
    PROVE  IInv'
<1> DEFINE k == [co[b] EXCEPT !.pc = "done", !.end = "Cancelled"]
<1>1. /\ b \in Coroutines /\ b # Main /\ co[b] \in CoRow /\ co[b].todo \in SUBSET Nodes
      BY ListsAre, NodeIs DEF IInv, CoRow
<1>2. UNCHANGED <<policy, run, memory, invoked, cancelled, late>> /\ doomed' \subseteq BranchIds
      BY DEF Land, IInv, RowTyped
<1>3. k = Raised(b, "Cancelled") /\ "Cancelled" \in Exceptions
      BY <1>1 DEF Raised, Exceptions
<1>4. k \in CoRow /\ k.at = co[b].at /\ k.pc = "done" /\ k.end = "Cancelled"
  <2>1. k = Moved(b, "done", "Cancelled", co[b].todo)
        BY <1>1, MovedIs DEF IInv
  <2>2. Moved(b, "done", "Cancelled", co[b].todo) \in CoRow
    <3>1. "done" \in Pcs /\ "Cancelled" \in Ends
          BY DEF Pcs, Ends, Exceptions
    <3> QED BY <1>1, <3>1, MovedIs DEF IInv
  <2> HIDE DEF k
  <2> QED BY <2>1, <2>2 DEF Moved
<1>5. CASE co[b].pc \in {"limit", "work", "select", "choose"} /\ row' = row
           /\ co' = [co EXCEPT ![b] = [@ EXCEPT !.pc = "cancel", !.end = "Cancelled"]]
  <2>1. co' = [co EXCEPT ![b] = [co[b] EXCEPT !.pc = "cancel", !.end = "Cancelled"]]
        BY <1>5
  <2>2. co' = [co EXCEPT ![b] = Moved(b, "cancel", "Cancelled", co[b].todo)]
        BY <1>1, <2>1, MovedIs DEF IInv
  <2>3. RowsStay /\ Extends
        BY <1>2, <1>5, Quietly
  <2>4. Fits(b, "cancel", "Cancelled") /\ Abides(b, "cancel")
        BY <1>1 DEF Fits, Abides, Joining
  <2>5. co[b].pc \in Own \ {"retry"} /\ "cancel" \in Own \ {"run", "limit", "select", "retry"}
        BY <1>5 DEF Own
  <2> QED BY <1>1, <2>2, <2>3, <2>4, <2>5, MoveStep
<1>6. CASE co[b].pc \in DOMAIN Target \cup {"enter", "retry"} /\ row' = row /\ co' = [co EXCEPT ![b] = k]
  <2>1. RowsStay /\ tolerated' = tolerated
        BY <1>2, <1>6, Quietly
  <2>2. co[b].pc \notin {"idle", "done"}
        BY <1>6, TargetIs
  <2>3. co' = [co EXCEPT ![b] = Raised(b, "Cancelled")]
        BY <1>3, <1>6
  <2> QED BY <1>1, <1>2, <1>3, <2>1, <2>2, <2>3, RaiseStep
<1>7. CASE /\ co[b].pc \in DOMAIN Target /\ Allowed(Stored(Node(b)), Target[co[b].pc]) /\ co' = [co EXCEPT ![b] = k]
           /\ row' = [row EXCEPT ![Node(b)].status = Target[co[b].pc]]
  <2> HIDE DEF k
  <2> QED BY <1>2, <1>4, <1>7, UnheardStep
<1>8. CASE /\ co[b].pc = "retry" /\ MayFollow(row[Node(b)], co[b].try + 1) /\ co' = [co EXCEPT ![b] = k]
           /\ row' = [row EXCEPT ![Node(b)] = Created(@)]
  <2>1. attempts' = attempts /\ UNCHANGED <<policy, run, status, executed, tolerated, invoked, cancelled, late>>
        BY <1>2 DEF memory
  <2> HIDE DEF k
  <2> QED BY <1>1, <1>2, <1>4, <1>8, <2>1, RenewStep
<1>9. \/ co[b].pc \in {"limit", "work", "select", "choose"} /\ row' = row
          /\ co' = [co EXCEPT ![b] = [@ EXCEPT !.pc = "cancel", !.end = "Cancelled"]]
      \/ co[b].pc \in DOMAIN Target \cup {"enter", "retry"} /\ row' = row /\ co' = [co EXCEPT ![b] = k]
      \/ /\ co[b].pc \in DOMAIN Target /\ Allowed(Stored(Node(b)), Target[co[b].pc]) /\ co' = [co EXCEPT ![b] = k]
         /\ row' = [row EXCEPT ![Node(b)].status = Target[co[b].pc]]
      \/ /\ co[b].pc = "retry" /\ MayFollow(row[Node(b)], co[b].try + 1) /\ co' = [co EXCEPT ![b] = k]
         /\ row' = [row EXCEPT ![Node(b)] = Created(@)]
      BY DEF Land
<1> HIDE DEF k
<1> QED BY <1>5, <1>6, <1>7, <1>8, <1>9

-----------------------------------------------------------------------------
(* The end of execute().                                                   *)

LEMMA SweepLookKeeps ==
    ASSUME IInv, SweepLook
    PROVE  IInv'
<1>1. /\ co[Main].pc = "sweep" /\ Main \in Coroutines /\ co[Main] \in CoRow /\ co[Main].todo \in SUBSET Nodes
      /\ co[Main].at \in 1..Len(Order) /\ Len(Order) \in Nat \ {0} /\ Shaped(Main) /\ co \in [Coroutines -> CoRow]
      BY ListsAre, NodeIs DEF SweepLook, IInv, CoTyped, CoRow
<1>2. co[Main].end \in Overdue
      BY <1>1 DEF Shaped
<1>3. RowsStay /\ Extends
  <2>1. UNCHANGED <<policy, run, row, memory, invoked, cancelled, late>> /\ doomed' \subseteq BranchIds
        BY DEF SweepLook, IInv, RowTyped
  <2> QED BY <2>1, Quietly
<1>4. /\ status' = status /\ executed' = executed /\ cancelled' = cancelled
      BY <1>3 DEF RowsStay
<1>5. ASSUME NEW k \in CoRow, k.pc \in {"sweep", "sweeping", "finish"}, k.end = co[Main].end, k.at \in 1..Len(Order),
             co' = [co EXCEPT ![Main] = k]
      PROVE  IInv'
  <2>1. co'[Main] = k
        BY <1>1, <1>5
  <2>2. Shaped(Main)'
        BY <1>1, <1>2, <1>4, <1>5, <2>1, ListsAre DEF Shaped, Joining, Ending
  <2>3. Holds(Main)' /\ k.pc # "idle" /\ k.pc \notin Active /\ co[Main].pc \notin {"idle", "done"} /\ co[Main].pc \notin Active
        BY <1>1, <1>5, <2>1 DEF Holds, Active, Own
  <2>4. Over'
        BY <1>2, <1>5, <2>1 DEF Over, Overdue, Exceptions
  <2>5. Accounts(Main, k) /\ OwnsAlone(Main, k)
        BY <1>4, <2>3 DEF Accounts, OwnsAlone, Active
  <2>6. Proceeds(k)
    <3>1. \A p \in Parallels : AtFault(p)'
          BY <2>4 DEF AtFault
    <3> QED BY <1>2, <1>5, <2>3, <2>4, <3>1 DEF Proceeds, Overdue
  <2>7. k.at \in 1..Len(List(Main))
        BY <1>5, ListsAre
  <2> QED BY <1>1, <1>3, <1>5, <2>2, <2>3, <2>5, <2>6, <2>7, QuietStep
<1>6. ASSUME NEW pc \in {"sweeping", "finish"}, co' = [co EXCEPT ![Main] = [co[Main] EXCEPT !.pc = pc]] PROVE IInv'
  <2> DEFINE k == Moved(Main, pc, co[Main].end, co[Main].todo)
  <2>1. [co[Main] EXCEPT !.pc = pc] = k
        BY <1>1, MovedIs DEF IInv
  <2>2. pc \in Pcs /\ co[Main].end \in Ends
        BY <1>1 DEF Pcs, Ending, CoRow
  <2>3. k \in CoRow
        BY <1>1, <2>2, MovedIs DEF IInv
  <2>4. k.pc = pc /\ k.end = co[Main].end /\ k.at = co[Main].at
        BY DEF Moved
  <2> HIDE DEF k
  <2>5. co' = [co EXCEPT ![Main] = k]
        BY <1>6, <2>1
  <2> QED BY <1>1, <1>5, <2>3, <2>4, <2>5
<1>7. ASSUME co[Main].at < Len(Order), co' = [co EXCEPT ![Main] = [co[Main] EXCEPT !.at = co[Main].at + 1]] PROVE IInv'
  <2> DEFINE k == [co[Main] EXCEPT !.at = co[Main].at + 1]
  <2>1. co[Main] = [pc |-> co[Main].pc, at |-> co[Main].at, end |-> co[Main].end, try |-> co[Main].try, todo |-> co[Main].todo]
        BY <1>1 DEF CoRow
  <2>2. k = [co[Main] EXCEPT !.at = co[Main].at + 1]
        OBVIOUS
  <2> HIDE DEF k
  <2>3. k = [pc |-> co[Main].pc, at |-> co[Main].at + 1, end |-> co[Main].end, try |-> co[Main].try, todo |-> co[Main].todo]
        BY <2>1, <2>2
  <2>4. co[Main].at + 1 \in 1..Len(Order) /\ co[Main].at + 1 \in Nat
        BY <1>1, <1>7
  <2>5. k \in CoRow
        BY <1>1, <2>3, <2>4 DEF CoRow
  <2>6. k.pc = "sweep" /\ k.end = co[Main].end /\ k.at = co[Main].at + 1
        BY <1>1, <2>3
  <2>7. co' = [co EXCEPT ![Main] = k]
        BY <1>7, <2>2
  <2> QED BY <1>5, <2>4, <2>5, <2>6, <2>7
<1>8. \/ co' = [co EXCEPT ![Main].pc = "sweeping"] \/ co' = [co EXCEPT ![Main].pc = "finish"]
      \/ co[Main].at < Len(Order) /\ co' = [co EXCEPT ![Main].at = @ + 1]
      BY DEF SweepLook, Goto
<1>9. CASE co' = [co EXCEPT ![Main].pc = "sweeping"]
      BY <1>6, <1>9
<1>10. CASE co' = [co EXCEPT ![Main].pc = "finish"]
      BY <1>6, <1>10
<1>11. CASE co[Main].at < Len(Order) /\ co' = [co EXCEPT ![Main].at = @ + 1]
  <2>1. co' = [co EXCEPT ![Main] = [co[Main] EXCEPT !.at = co[Main].at + 1]]
        BY <1>11
  <2> QED BY <1>7, <1>11, <2>1
<1> QED BY <1>8, <1>9, <1>10, <1>11

LEMMA SweepWriteKeeps ==
    ASSUME IInv, SweepWrite
    PROVE  IInv'
<1> DEFINE n == Node(Main)
<1>1. /\ co[Main].pc = "sweeping" /\ Main \in Coroutines /\ co[Main] \in CoRow /\ n \in Nodes
      /\ co[Main].at \in 1..Len(List(Main)) /\ Shaped(Main) /\ co \in [Coroutines -> CoRow] /\ co[Main].todo \in SUBSET Nodes
      BY ListsAre, NodeIs DEF SweepWrite, IInv, CoTyped, CoRow
<1>2. co[Main].end \in Overdue
      BY <1>1 DEF Shaped
<1>3. UNCHANGED <<policy, run, attempts, tolerated, invoked, doomed, cancelled, late>>
      BY DEF SweepWrite
<1> DEFINE Goal == IInv'
<1> SUFFICES Goal
    OBVIOUS
<1>4. CASE ~ Allowed(Stored(n), "CANCELLED")
  <2>1. co' = [co EXCEPT ![Main] = Raised(Main, "Error")] /\ UNCHANGED <<row, status, executed>>
        BY <1>4 DEF SweepWrite
  <2>2. RowsStay /\ doomed' \subseteq BranchIds /\ tolerated' = tolerated
        BY <1>3, <2>1 DEF RowsStay, IInv, RowTyped
  <2> QED BY <1>1, <2>1, <2>2, RaiseStep DEF Exceptions
<1>5. CASE Allowed(Stored(n), "CANCELLED")
  <2> DEFINE k == Moved(Main, "sweep", co[Main].end, co[Main].todo)
  <2>1. Store(n, "CANCELLED") /\ co' = [co EXCEPT ![Main] = [co[Main] EXCEPT !.pc = "sweep"]]
        BY <1>5 DEF SweepWrite, Goto
  <2>2. [co[Main] EXCEPT !.pc = "sweep"] = k
        BY <1>1, MovedIs DEF IInv
  <2>3. "sweep" \in Pcs /\ co[Main].end \in Ends
        BY <1>1 DEF Pcs, Ending, CoRow
  <2>4. k \in CoRow
        BY <1>1, <2>3, MovedIs DEF IInv
  <2>5. k.pc = "sweep" /\ k.end = co[Main].end /\ k.at = co[Main].at
        BY DEF Moved
  <2> HIDE DEF k
  <2>6. co'[Main] = k /\ Becomes(Main, k, {})
        BY <1>1, <2>1, <2>2 DEF Becomes
  <2>7. RowsMove
        BY <1>3 DEF RowsMove
  <2>8. Over'
        BY <2>5, <2>6 DEF Over
  <2>9. Shaped(Main)'
        BY <1>1, <1>2, <1>3, <2>5, <2>6, ListsAre DEF Shaped, Joining, Ending
  <2>10. /\ Holds(Main)' /\ k.pc # "idle" /\ k.pc \notin Active /\ co[Main].pc \notin {"idle", "done"} /\ co[Main].pc \notin Active
        BY <1>1, <2>5, <2>6 DEF Holds, Active, Own
  <2>11. /\ \A m \in Nodes : status'[m] = IF m = n THEN "CANCELLED" ELSE status[m]
         /\ executed' = executed \cup {n} /\ executed \subseteq Nodes
        BY <1>1, <2>1 DEF Store, IInv, RowTyped, Terminal
  <2>12. Accounts(Main, k)
        BY <1>1, <2>8, <2>10, <2>11 DEF Accounts, Terminal
  <2>13. OwnsAlone(Main, k)
        BY <2>10 DEF OwnsAlone, Active
  <2>14. Proceeds(k)
    <3>1. \A p \in Parallels : AtFault(p)'
          BY <2>8 DEF AtFault
    <3> QED BY <1>2, <2>5, <2>8, <2>10, <3>1 DEF Proceeds, Overdue
  <2>15. "CANCELLED" \in NodeStatus /\ Main \notin {} /\ k.at \in 1..Len(List(Main))
        BY <1>1, <2>5 DEF NodeStatus, Terminal
  <2> QED BY <1>1, <1>5, <2>1, <2>4, <2>6, <2>7, <2>9, <2>10, <2>12, <2>13, <2>14, <2>15, StoreStep
<1> QED BY <1>4, <1>5

\* execute() sees every node behind it: what failed is tolerated, and no branch is left
LEMMA ClosedIs ==
    ASSUME IInv, co[Main].pc = "close", Guard = "none", Failures = {}
    PROVE  \A n \in Nodes : status[n] \in Fine \/ n \in tolerated
<1>1. ~ cancelled /\ ~ Over
      BY DEF Guard, Over
<1>2. ASSUME NEW p \in Parallels PROVE ~ AtFault(p)
  <2>1. p \in Nodes /\ p \notin tolerated
        BY ListsAre DEF IInv, RowTyped
  <2>2. status[p] \notin Failed
        BY <2>1 DEF Failures, Failed
  <2> QED BY <1>1, <2>2 DEF AtFault, Joining
<1>3. ASSUME NEW b \in BranchIds PROVE ~ Stray(b)
  <2>1. b[1] \in Parallels /\ Spawning(b)
        BY ListsAre DEF IInv
  <2> QED BY <1>2, <2>1 DEF Spawning
<1>4. ASSUME NEW n \in Nodes, status[n] \notin Terminal PROVE FALSE
  <2>1. n \in executed /\ Explained(n)
        BY DEF IInv, Visited
  <2>2. PICK c \in Coroutines : Loose(c, n)
        BY <1>1, <1>4, <2>1 DEF Explained
  <2>3. c # Main
        BY <2>2 DEF Loose, Threw, Active, Own
  <2>4. c \in BranchIds
        BY <2>3, NodeIs DEF IInv
  <2> QED BY <1>3, <2>2, <2>4 DEF Loose, Threw, Stray, Active, Own, Exceptions
<1>5. ASSUME NEW n \in Nodes, status[n] = "CANCELLED" PROVE FALSE
  <2>1. PICK b \in BranchIds : Threw(b)
        BY <1>1, <1>5 DEF IInv, Explained
  <2> QED BY <1>3, <2>1 DEF Threw, Stray, Exceptions
<1> QED BY <1>4, <1>5 DEF Failures, Fine, Terminal

LEMMA CloseKeeps ==
    ASSUME IInv, Close
    PROVE  IInv'
<1>1. /\ co[Main].pc = "close" /\ Main \in Coroutines /\ co[Main] \in CoRow /\ co[Main].todo \in SUBSET Nodes
      /\ co[Main].at \in 1..Len(List(Main)) /\ co \in [Coroutines -> CoRow] /\ Main \notin BranchIds
      BY ListsAre, NodeIs DEF Close, IInv, CoTyped, CoRow
<1>2. RowsStay /\ Extends /\ tolerated' = tolerated /\ doomed' \subseteq BranchIds
  <2>1. UNCHANGED <<policy, run, row, memory, invoked, cancelled, late>> /\ doomed' \subseteq BranchIds
        BY DEF Close, IInv, RowTyped
  <2> QED BY <2>1, Quietly
<1>3. CASE Guard # "none" /\ co' = [co EXCEPT ![Main] = Raised(Main, Guard)]
  <2>1. Guard \in Exceptions /\ Guard # "Cancelled" /\ (Guard = "WorkflowCancelled" => cancelled)
        BY <1>3, GuardIs DEF Overdue
  <2> QED BY <1>1, <1>2, <1>3, <2>1, RaiseStep
<1>4. CASE co' = [co EXCEPT ![Main] = Raised(Main, "Error")]
      BY <1>1, <1>2, <1>4, RaiseStep DEF Exceptions
<1>5. CASE /\ Guard = "none"
           /\ co' = [co EXCEPT ![Main] = [@ EXCEPT !.pc = "finish", !.end = IF Failures # {} THEN "failed" ELSE "ok"]]
  <2> DEFINE end == IF Failures # {} THEN "failed" ELSE "ok"
  <2>1. co' = [co EXCEPT ![Main] = [co[Main] EXCEPT !.pc = "finish", !.end = end]]
        BY <1>5
  <2>2. end \in {"failed", "ok"} /\ (end = "ok" => Failures = {})
        OBVIOUS
  <2> HIDE DEF end
  <2> DEFINE k == Moved(Main, "finish", end, co[Main].todo)
  <2>3. co' = [co EXCEPT ![Main] = k]
        BY <1>1, <2>1, MovedIs DEF IInv
  <2>4. "finish" \in Pcs /\ end \in Ends
        BY <2>2 DEF Pcs, Ending, Ends
  <2>5. k \in CoRow
        BY <1>1, <2>4, MovedIs DEF IInv
  <2>6. k.pc = "finish" /\ k.end = end /\ k.at = co[Main].at
        BY DEF Moved
  <2> HIDE DEF k
  <2>7. co'[Main] = k
        BY <1>1, <2>3
  <2>8. Shaped(Main)'
        BY <1>1, <2>2, <2>6, <2>7 DEF Shaped, Joining, Ending
  <2>9. Holds(Main)' /\ k.pc # "idle" /\ k.pc \notin Active /\ co[Main].pc \notin {"idle", "done"} /\ co[Main].pc \notin Active
        BY <1>1, <2>6, <2>7 DEF Holds, Active, Own
  <2>10. Accounts(Main, k) /\ OwnsAlone(Main, k)
        BY <1>2, <2>9 DEF Accounts, OwnsAlone, Active, RowsStay
  <2>11. Proceeds(k)
        BY <1>1, <1>5, <2>2, <2>6, <2>9, ClosedIs DEF Proceeds, Over, Joining
  <2> QED BY <1>1, <1>2, <2>3, <2>5, <2>6, <2>8, <2>9, <2>10, <2>11, QuietStep
<1> QED BY <1>3, <1>4, <1>5 DEF Close

LEMMA FinishKeeps ==
    ASSUME IInv, Finish
    PROVE  IInv'
<1>1. /\ co[Main].pc = "finish" /\ Main \in Coroutines /\ co[Main] \in CoRow /\ co[Main].todo \in SUBSET Nodes
      /\ co[Main].at \in 1..Len(List(Main)) /\ co \in [Coroutines -> CoRow] /\ Main \notin BranchIds /\ Shaped(Main)
      BY ListsAre, NodeIs DEF Finish, IInv, CoTyped, CoRow
<1>2. co[Main].end \in {"WorkflowCancelled", "WorkflowTimedOut", "ok", "failed"}
      BY <1>1 DEF Shaped, Overdue
<1>3. /\ policy' = policy /\ row' = row /\ status' = status /\ executed' = executed /\ attempts' = attempts
      /\ tolerated' = tolerated /\ invoked' = invoked /\ doomed' = doomed /\ cancelled' = cancelled /\ late' = late
      BY DEF Finish, memory
<1>4. run # "PENDING"
      BY <1>1, Begun
<1>5. run' \in RunTerminal /\ (run' = "SUCCEEDED" => co[Main].end = "ok")
  <2>1. run' = Outcome[co[Main].end]
        BY DEF Finish, RunMoves
  <2> QED BY <1>2, <2>1 DEF Outcome, RunTerminal
<1> DEFINE k == Moved(Main, "done", co[Main].end, co[Main].todo)
<1>6. co' = [co EXCEPT ![Main] = k] /\ co'[Main] = k
  <2>1. co' = [co EXCEPT ![Main] = [co[Main] EXCEPT !.pc = "done"]]
        BY DEF Finish, Goto
  <2>2. [co[Main] EXCEPT !.pc = "done"] = k
        BY <1>1, MovedIs DEF IInv
  <2> HIDE DEF k
  <2> QED BY <1>1, <2>1, <2>2
<1>7. k \in CoRow /\ k.pc = "done" /\ k.end = co[Main].end /\ k.at = co[Main].at
  <2>1. "done" \in Pcs /\ co[Main].end \in Ends
        BY <1>1 DEF Pcs, CoRow
  <2>2. k \in CoRow
        BY <1>1, <2>1, MovedIs DEF IInv
  <2> QED BY <2>2 DEF Moved
<1> HIDE DEF k
<1>8. RowTyped' /\ Tame
      BY <1>3, <1>5 DEF IInv, RowTyped, Tame
<1>9. ASSUME NEW n \in Nodes PROVE Counted(n)'
      BY <1>3, <1>4 DEF IInv, Counted, Due
<1>10. ASSUME NEW d \in Coroutines \ {Main} PROVE Holds(d)'
  <2>1. co'[d] = co[d] /\ Node(d)' = Node(d)
        BY <1>6 DEF IInv, CoTyped, Node
  <2>2. Holds(d)
        BY DEF IInv
  <2> QED BY <1>3, <2>1, <2>2 DEF Holds, Due
<1>11. Shaped(Main)'
      BY <1>1, <1>2, <1>3, <1>6, <1>7 DEF Shaped, Joining, Ending
<1>12. Holds(Main)' /\ k.pc # "idle" /\ k.pc \notin Active /\ co[Main].pc \notin {"idle", "done"} /\ co[Main].pc \notin Active
      BY <1>1, <1>6, <1>7 DEF Holds, Active, Own
<1>13. Accounts(Main, k) /\ OwnsAlone(Main, k)
      BY <1>3, <1>12 DEF Accounts, OwnsAlone, Active
<1>14. Proceeds(k)
  <2>1. Over => Over'
        BY <1>1, <1>6, <1>7 DEF Over
  <2> QED BY <1>1, <1>7, <1>12, <2>1 DEF Proceeds, Joining
<1>15. Becomes(Main, k, {}) /\ Main \notin {} /\ k.at \in 1..Len(List(Main)) /\ run' # "PENDING"
      BY <1>1, <1>5, <1>6, <1>7 DEF Becomes, RunTerminal
<1> QED BY <1>1, <1>4, <1>5, <1>7, <1>8, <1>9, <1>10, <1>11, <1>12, <1>13, <1>14, <1>15, StepKeeps

-----------------------------------------------------------------------------
(* The beginning, and what comes from outside.                             *)

LEMMA SignalKeeps ==
    ASSUME IInv, UNCHANGED <<policy, run, row, memory, invoked, co, doomed>>, cancelled' \in BOOLEAN, cancelled => cancelled', late' \in BOOLEAN
    PROVE  IInv'
<1>1. /\ policy' = policy /\ run' = run /\ row' = row /\ status' = status /\ executed' = executed /\ attempts' = attempts
      /\ tolerated' = tolerated /\ invoked' = invoked /\ co' = co /\ doomed' = doomed
      BY DEF memory
<1>2. \A c \in Coroutines : Node(c)' = Node(c)
      BY <1>1 DEF Node
<1>3. RowTyped' /\ CoTyped'
      BY <1>1 DEF IInv, RowTyped, CoTyped
<1>4. ASSUME NEW c \in Coroutines PROVE Shaped(c)' /\ Holds(c)'
  <2>1. Shaped(c) /\ Holds(c)
        BY DEF IInv
  <2> QED BY <1>1, <1>2, <2>1 DEF Shaped, Holds, Due
<1>5. Alone'
      BY <1>1, <1>2 DEF IInv, Alone
<1>6. ASSUME NEW n \in Nodes PROVE Counted(n)' /\ Explained(n)'
  <2>1. Counted(n) /\ Explained(n)
        BY DEF IInv
  <2>2. Counted(n)'
        BY <1>1, <2>1 DEF Counted, Due
  <2>3. Explained(n)'
        BY <1>1, <1>2, <2>1 DEF Explained, Over, Loose, Threw
  <2> QED BY <2>2, <2>3
<1>7. ASSUME NEW b \in BranchIds PROVE Spawning(b)'
  <2>1. Spawning(b) /\ Main \in Coroutines
        BY ListsAre DEF IInv
  <2>2. \A p : AtFault(p) => AtFault(p)'
        BY <1>1, <1>2, <2>1 DEF AtFault, Over
  <2> QED BY <1>1, <2>1, <2>2 DEF Spawning, Stray
<1>8. Visited' /\ Won' /\ NotBegun'
      BY <1>1 DEF IInv, Visited, Won, NotBegun
<1> QED BY <1>3, <1>4, <1>5, <1>6, <1>7, <1>8 DEF IInv

LEMMA StartKeeps ==
    ASSUME IInv, Start
    PROVE  IInv'
<1>1. run = "PENDING" /\ run' = "RUNNING"
      BY DEF Start, RunAllowed, IInv, RowTyped, RunTerminal
<1>2. /\ policy' = policy /\ status' = status /\ executed' = executed /\ attempts' = attempts /\ tolerated' = tolerated
      /\ invoked' = invoked /\ doomed' = doomed /\ cancelled' = cancelled /\ late' = late
      BY DEF Start, memory
<1>3. /\ \A c \in Coroutines : co[c].pc = "idle" /\ co[c].at = 1
      /\ \A n \in Nodes : row[n] = NoRow /\ attempts[n] = 1 /\ invoked[n] = 0 /\ status[n] = "PENDING"
      BY <1>1 DEF IInv, NotBegun
<1>4. row' = [n \in Nodes |-> [status |-> "PENDING", attempt |-> 1]]
      BY <1>3 DEF Start, Created, NoRow
<1>5. co' = [co EXCEPT ![Main] = [co[Main] EXCEPT !.pc = "enter"]] /\ Main \in Coroutines /\ co \in [Coroutines -> CoRow]
      BY ListsAre DEF Start, Goto, IInv, CoTyped
<1>6. /\ co'[Main] = [co[Main] EXCEPT !.pc = "enter"] /\ co'[Main] \in CoRow /\ co'[Main].pc = "enter" /\ co'[Main].end = co[Main].end
      /\ \A c \in Coroutines : c # Main => co'[c] = co[c]
      /\ \A c \in Coroutines : co'[c].pc \in {"idle", "enter"} /\ co'[c].at = 1
  <2>1. co'[Main] = [co[Main] EXCEPT !.pc = "enter"] /\ \A c \in Coroutines : c # Main => co'[c] = co[c]
        BY <1>5
  <2>2. [co[Main] EXCEPT !.pc = "enter"] \in CoRow
        BY <1>5 DEF CoRow, Pcs
  <2>3. co'[Main].pc = "enter" /\ co'[Main].at = co[Main].at /\ co'[Main].end = co[Main].end
        BY <1>5, <2>1 DEF CoRow
  <2> QED BY <1>3, <1>5, <2>1, <2>2, <2>3
<1>7. RowTyped'
  <2>1. row' \in [Nodes -> [status : NodeStatus, attempt : Nat \ {0}] \cup {NoRow}]
        BY <1>4 DEF NodeStatus
  <2> QED BY <1>1, <1>2, <2>1 DEF IInv, RowTyped
<1>8. CoTyped'
  <2>1. co' \in [Coroutines -> CoRow]
        BY <1>5, <1>6
  <2>2. \A c \in Coroutines : co'[c].at \in 1..Len(List(c))
        BY <1>6, ListsAre
  <2> QED BY <2>1, <2>2 DEF CoTyped
<1>9. \A c \in Coroutines : co[c].end = "none"
      BY <1>3 DEF IInv, Shaped
<1>10. ASSUME NEW c \in Coroutines PROVE Shaped(c)' /\ Holds(c)'
  <2>1. co'[c].end = "none"
        BY <1>6, <1>9
  <2> QED BY <1>6, <2>1 DEF Shaped, Holds, Joining, Ending, Active, Own
<1>11. Alone'
      BY <1>6 DEF Alone, Own
<1>12. ASSUME NEW n \in Nodes PROVE Counted(n)' /\ Explained(n)'
  <2>1. row'[n] = [status |-> "PENDING", attempt |-> 1] /\ MaxAttempts[n] \in Nat \ {0}
        BY <1>4, WorkflowRunAssumption DEF WorkflowRunAssumption
  <2>2. Counted(n)'
        BY <1>2, <1>3, <2>1 DEF Counted, NoRow, Terminal
  <2>3. n \notin executed
        BY <1>3, ListsAre DEF IInv, Explained, Over, Loose, Threw, Active, Own, Terminal
  <2>4. Explained(n)'
        BY <1>2, <1>3, <2>3 DEF Explained
  <2> QED BY <2>2, <2>4
<1>13. ASSUME NEW b \in BranchIds PROVE Spawning(b)'
  <2>1. co'[b].pc = "idle"
        BY <1>3, <1>6, ListsAre
  <2> QED BY <2>1 DEF Spawning, Stray
<1>14. Visited'
      BY <1>5, <1>6 DEF Visited
<1>15. Won'
      BY <1>1, <1>5, <1>6, <1>9 DEF Won
<1>16. NotBegun'
      BY <1>1 DEF NotBegun
<1> QED BY <1>7, <1>8, <1>10, <1>11, <1>12, <1>13, <1>14, <1>15, <1>16 DEF IInv

LEMMA InvInit ==
    ASSUME Init
    PROVE  IInv
<1> DEFINE k == [pc |-> "idle", at |-> 1, end |-> "none", try |-> 1, todo |-> {}]
<1>1. co = [c \in Coroutines |-> k]
      BY DEF Init
<1>2. k \in CoRow /\ k.pc = "idle" /\ k.at = 1 /\ k.end = "none"
      BY DEF CoRow, Pcs, Ends
<1> HIDE DEF k
<1>3. \A c \in Coroutines : co[c] = k
      BY <1>1
<1>4. RowTyped
  <2>1. /\ row \in [Nodes -> [status : NodeStatus, attempt : Nat \ {0}] \cup {NoRow}]
        /\ status \in [Nodes -> NodeStatus] /\ attempts \in [Nodes -> Nat \ {0}] /\ invoked \in [Nodes -> Nat]
        BY DEF Init, NodeStatus
  <2>2. /\ policy \in [Parallels -> Policies] /\ run = "PENDING" /\ executed = {} /\ tolerated = {} /\ doomed = {}
        /\ cancelled = FALSE /\ late = FALSE
        BY DEF Init
  <2> QED BY <2>1, <2>2 DEF RowTyped
<1>5. CoTyped
      BY <1>1, <1>2, ListsAre DEF CoTyped
<1>6. ASSUME NEW c \in Coroutines PROVE Shaped(c) /\ Holds(c)
      BY <1>2, <1>3 DEF Shaped, Holds, Joining, Ending, Active, Own
<1>7. Alone
      BY <1>2, <1>3 DEF Alone, Own
<1>8. ASSUME NEW n \in Nodes PROVE Counted(n) /\ Explained(n)
  <2>1. run = "PENDING" /\ row[n] = NoRow /\ status[n] = "PENDING" /\ executed = {} /\ attempts[n] = 1 /\ invoked[n] = 0
        BY DEF Init
  <2>2. MaxAttempts[n] \in Nat \ {0}
        BY WorkflowRunAssumption DEF WorkflowRunAssumption
  <2> QED BY <2>1, <2>2 DEF Counted, Explained, NoRow, Terminal
<1>9. ASSUME NEW b \in BranchIds PROVE Spawning(b)
  <2>1. co[b].pc = "idle"
        BY <1>2, <1>3, ListsAre
  <2> QED BY <2>1 DEF Spawning, Stray
<1>10. Visited /\ Won
  <2>1. co[Main].pc = "idle" /\ co[Main].end = "none" /\ run = "PENDING"
        BY <1>2, <1>3, ListsAre DEF Init
  <2> QED BY <2>1 DEF Visited, Won, Active, Own
<1>11. NotBegun
  <2>1. \A c \in Coroutines : co[c].pc = "idle" /\ co[c].at = 1
        BY <1>2, <1>3
  <2> QED BY <2>1 DEF Init, NotBegun
<1> QED BY <1>4, <1>5, <1>6, <1>7, <1>8, <1>9, <1>10, <1>11 DEF IInv

LEMMA InvStep ==
    ASSUME IInv, [Next]_vars
    PROVE  IInv'
<1>1. CASE Start
      BY <1>1, StartKeeps
<1>2. CASE Cancel
  <2>1. UNCHANGED <<policy, run, row, memory, invoked, co, doomed>> /\ cancelled' = TRUE /\ late' = late
        BY <1>2 DEF Cancel
  <2>2. late' \in BOOLEAN
        BY <2>1 DEF IInv, RowTyped
  <2> QED BY <2>1, <2>2, SignalKeeps
<1>3. CASE DeadlinePasses
  <2>1. UNCHANGED <<policy, run, row, memory, invoked, co, doomed>> /\ cancelled' = cancelled /\ late' = TRUE
        BY <1>3 DEF DeadlinePasses
  <2>2. cancelled' \in BOOLEAN
        BY <2>1 DEF IInv, RowTyped
  <2> QED BY <2>1, <2>2, SignalKeeps
<1>4. ASSUME NEW c \in Coroutines, Step(c) PROVE IInv'
      BY <1>4, EnterKeeps, TransitionKeeps, OutputKeeps, RetryKeeps, InvokeKeeps, SkillKeeps, TimesOutKeeps, SelectKeeps,
         ChooseKeeps, RaisesKeeps, FailsFastKeeps, DrainKeeps, CleanKeeps, JoinKeeps, JoinTimesOutKeeps DEF Step
<1>5. ASSUME NEW b \in BranchIds, Land(b) PROVE IInv'
      BY <1>5, LandKeeps
<1>6. CASE SweepLook \/ SweepWrite \/ Close \/ Finish
      BY <1>6, SweepLookKeeps, SweepWriteKeeps, CloseKeeps, FinishKeeps
<1>7. CASE UNCHANGED vars
  <2>1. UNCHANGED <<policy, run, row, memory, invoked, co, doomed>> /\ cancelled' = cancelled /\ late' = late
        BY <1>7 DEF vars
  <2>2. cancelled' \in BOOLEAN /\ late' \in BOOLEAN
        BY <2>1 DEF IInv, RowTyped
  <2> QED BY <2>1, <2>2, SignalKeeps
<1> QED BY <1>1, <1>2, <1>3, <1>4, <1>5, <1>6, <1>7 DEF Next

LEMMA InvAlways == Spec => []IInv
<1>1. Init => IInv
      BY InvInit
<1>2. IInv /\ [Next]_vars => IInv'
      BY InvStep
<1> QED BY <1>1, <1>2, PTL DEF Spec

-----------------------------------------------------------------------------
(* What is stored of a run is what happened in it: a run that SUCCEEDED    *)
(* has no node that failed, was cancelled or did not end; no transition    *)
(* the run believes in is missing from its rows; no skill is invoked more  *)
(* often than it has attempts, or before what it depends on has succeeded. *)
(* Branches, retries, cancel() and the deadline may interleave at will.    *)
THEOREM RunsAreHonest == Spec => []RunIsHonest
<1>1. ASSUME IInv PROVE RunIsHonest
  <2>1. TypeOK
    <3>1. \A n \in Nodes : attempts[n] \in 1..MaxAttempts[n]
          BY <1>1, WorkflowRunAssumption DEF IInv, RowTyped, Counted, WorkflowRunAssumption
    <3> QED BY <1>1, <3>1 DEF IInv, RowTyped, TypeOK
  <2>2. HonestSuccess
    <3>1. ASSUME NEW n \in Nodes, status[n] \in Fine PROVE row[n].status \in {"SUCCEEDED", "SKIPPED"}
          BY <1>1, <3>1 DEF IInv, Counted, Fine, Terminal
    <3> QED BY <1>1, <3>1 DEF IInv, Won, HonestSuccess
  <2>3. StatusIsStored /\ InvocationBudget
        BY <1>1 DEF IInv, Counted, StatusIsStored, InvocationBudget
  <2>4. RunsAfterDependencies
        BY <1>1 DEF IInv, Counted, Due, Fine, RunsAfterDependencies
  <2> QED BY <2>1, <2>2, <2>3, <2>4 DEF RunIsHonest
<1> QED BY <1>1, InvAlways, PTL

-----------------------------------------------------------------------------
(* Trees of runs (SubWorkflow).  The invariant is stated of any            *)
(* definitions T, rows R and stack S, so that the lemmas about it compare  *)
(* two states without looking at the actions.                              *)

NodeStates == {"PENDING", "RUNNING", "SUCCEEDED", "FAILED", "TIMED_OUT", "CANCELLED", "SKIPPED"}
Quiet == {"next", "work", "skill", "created", "child", "undo", "undo_work", "undoing", "undone"}
Frames == [run : Nat, at : Nat, phase : Quiet]
          \cup [run : Nat, at : Nat, phase : {"ending", "result"}, status : EndedRun]

TreeRow(T) ==
    [workflow : DOMAIN T, parent : Nat, node : Nat, status : Open \cup EndedRun,
     nodes : UNION {[D -> NodeStates] : D \in SUBSET Nat}]

Undone(T, R, r) == {T[R[r].workflow][i].undo : i \in DOMAIN T[R[r].workflow]} \ {0}

\* A frame is the execution of a run and waits inside the node that the next one is for
FrameIs(T, R, r, f) ==
    /\ f \in Frames /\ f.run = r
    /\ R[r].status = "RUNNING" /\ f.at \in 1 .. (Len(T[R[r].workflow]) + 1)
    /\ f.phase \notin {"next", "ending"} =>
          /\ f.at \in DOMAIN R[r].nodes /\ f.at \notin Undone(T, R, r)
          /\ R[r].nodes[f.at] = "RUNNING"

Stacked(R, S) ==
    \A i \in DOMAIN S :
        /\ S[i].run \in DOMAIN R
        /\ S[i].phase = "child" <=> i < Len(S)
        /\ i = 1 => R[S[i].run].parent = 0
        /\ i > 1 => R[S[i].run].parent = S[i - 1].run /\ R[S[i].run].node = S[i - 1].at
        /\ \A j \in DOMAIN S : j < i => S[j].run < S[i].run
        /\ S[i].phase = "created" =>
              /\ R[Len(R)].parent = S[i].run /\ R[Len(R)].node = S[i].at /\ R[Len(R)].status = "PENDING"
              /\ \A n \in DOMAIN R[Len(R)].nodes : R[Len(R)].nodes[n] = "PENDING"

\* Nodes before the present one are settled.  A compensation that went wrong
\* leaves a node that failed, and a run that is to succeed has none
Settling(T, R, r, f) ==
    IF f.phase = "ending"
      THEN f.status = "SUCCEEDED" => \A j \in DOMAIN R[r].nodes : R[r].nodes[j] \in Fine
      ELSE \A j \in DOMAIN R[r].nodes :
             IF j \notin Undone(T, R, r)
               THEN j < f.at => R[r].nodes[j] \in Fine \cup Failed
               ELSE \/ R[r].nodes[j] \in Fine \cup {"PENDING"}
                    \/ f.phase \in {"undo_work", "undoing"} /\ j = T[R[r].workflow][f.at].undo
                    \/ \E m \in DOMAIN R[r].nodes \ Undone(T, R, r) : m < f.at /\ R[r].nodes[m] \in Failed

\* A node that is done has a child that did what was asked, and a child
\* that is open and abandoned has a node that blocks its successors
Earned(T, R, r) ==
    R[R[r].parent].nodes[R[r].node] = "SUCCEEDED" =>
        R[r].status = "SUCCEEDED" \/
            (T[R[R[r].parent].workflow][R[r].node].policy = "continue" /\ R[r].status \in EndedRun)
Closed(R, r) == R[r].status \in Open => R[R[r].parent].nodes[R[r].node] \in Blocking

\* A child r of the run of frame f, below which stands the run "next"
Kid(T, R, f, next, r) ==
    /\ R[r].node \notin Undone(T, R, f.run)
    /\ R[r].node < f.at \/ (R[r].node = f.at /\ f.phase \notin {"next", "work", "skill"})
    /\ Earned(T, R, r)
    /\ R[r].node < f.at \/ f.phase = "ending" => Closed(R, r)
    /\ R[r].node = f.at =>
          /\ f.phase = "created" => r = Len(R)
          /\ f.phase = "child" => r = next
          /\ f.phase = "result" => R[r].status = f.status
          /\ f.phase \in {"undo", "undo_work", "undoing", "undone"} => R[r].status \in EndedRun

Below(S, i) == IF i < Len(S) THEN S[i + 1].run ELSE 0

Family(T, R, S) ==
    \A r \in DOMAIN R : R[r].parent # 0 =>
        /\ \A i \in DOMAIN S : S[i].run = R[r].parent => Kid(T, R, S[i], Below(S, i), r)
        /\ (\A i \in DOMAIN S : S[i].run # R[r].parent) => Earned(T, R, r) /\ Closed(R, r)

RowsAreHonest(T, R) ==
    \A r \in DOMAIN R :
        /\ DOMAIN R[r].nodes = DOMAIN T[R[r].workflow]
        /\ R[r].status = "SUCCEEDED" => \A j \in DOMAIN R[r].nodes : R[r].nodes[j] \in Fine
        /\ R[r].parent < r
        /\ R[r].parent # 0 => R[r].parent \in DOMAIN R /\ R[r].node \in DOMAIN R[R[r].parent].nodes

StartsAreFew(S, c, n) ==
    /\ c \in BOOLEAN /\ n \in {0, 1} /\ (~ c => n = 0)
    /\ \A i \in DOMAIN S : S[i].phase \in {"work", "undo_work"} => n = 0

TreeOf(T, R, S) ==
    /\ T \in WorkflowTrees /\ R \in Seq(TreeRow(T)) /\ S \in Seq(Frames)
    /\ Stacked(R, S) /\ RowsAreHonest(T, R) /\ Family(T, R, S)
    /\ \A i \in DOMAIN S : FrameIs(T, R, S[i].run, S[i]) /\ Settling(T, R, S[i].run, S[i])

TreeInv ==
    /\ TreeOf(tree, subRuns, stack) /\ StartsAreFew(stack, treeCancelled, startsAfter)
    /\ treeLate \in BOOLEAN

(* What an action does to the stack: it is cut at frame k, which is        *)
(* replaced by g.  What it does to the rows: those of Z change, in the     *)
(* states of the run and of its nodes.                                     *)
IsCut(S, S2, k, g) ==
    /\ S2 \in Seq(Frames) /\ Len(S2) = k /\ DOMAIN S2 = 1 .. k /\ S2[k] = g
    /\ \A i \in 1 .. (k - 1) : S2[i] = S[i]

Alters(T, R, R2, Z) ==
    /\ R2 \in Seq(TreeRow(T)) /\ Len(R2) = Len(R) /\ DOMAIN R2 = DOMAIN R
    /\ \A r \in DOMAIN R :
         /\ R2[r].workflow = R[r].workflow /\ R2[r].parent = R[r].parent /\ R2[r].node = R[r].node
         /\ DOMAIN R2[r].nodes = DOMAIN R[r].nodes
         /\ r \notin Z => R2[r] = R[r]

LEMMA StacksAre ==
    ASSUME NEW S \in Seq(Frames)
    PROVE  Len(S) \in Nat /\ DOMAIN S = 1 .. Len(S) /\ (S # <<>> => Len(S) \in DOMAIN S /\ Last(S) = S[Len(S)])
BY DEF Last

LEMMA CutAt ==
    ASSUME NEW S \in Seq(Frames), NEW k \in 1 .. Len(S), NEW g \in Frames
    PROVE  IsCut(S, Append(SubSeq(S, 1, k - 1), g), k, g)
<1> DEFINE lower == SubSeq(S, 1, k - 1)
<1>1. k - 1 \in 0 .. Len(S) /\ Len(S) \in Nat
      OBVIOUS
<1>2. lower \in Seq(Frames) /\ Len(lower) = k - 1 /\ \A i \in 1 .. (k - 1) : lower[i] = S[i]
      BY <1>1
<1> HIDE DEF lower
<1> QED BY <1>1, <1>2 DEF IsCut

LEMMA CutTop ==
    ASSUME NEW S \in Seq(Frames), S # <<>>, NEW g \in Frames
    PROVE  IsCut(S, Append(Front(S), g), Len(S), g)
<1>1. Front(S) = SubSeq(S, 1, Len(S) - 1)
      BY DEF Front
<1>2. Len(S) \in 1 .. Len(S)
      BY StacksAre
<1> QED BY <1>1, <1>2, CutAt

LEMMA CutParent ==
    ASSUME NEW S \in Seq(Frames), Len(S) > 1, NEW g \in Frames
    PROVE  IsCut(S, Append(Front(Front(S)), g), Len(S) - 1, g)
<1>1. Front(S) = SubSeq(S, 1, Len(S) - 1) /\ Len(S) \in Nat /\ Len(S) - 1 \in 0 .. Len(S)
      BY StacksAre DEF Front
<1>2. Front(S) \in Seq(Frames) /\ Len(Front(S)) = Len(S) - 1 /\ \A i \in 1 .. (Len(S) - 1) : Front(S)[i] = S[i]
      BY <1>1
<1>3. Front(S) # <<>>
  <2>1. Len(S) - 1 # 0 /\ Len(<<>>) = 0
        BY <1>1
  <2> QED BY <1>2, <2>1
<1>4. IsCut(Front(S), Append(Front(Front(S)), g), Len(S) - 1, g)
      BY <1>2, <1>3, CutTop
<1> QED BY <1>1, <1>2, <1>4 DEF IsCut

LEMMA CutKeeps ==
    ASSUME NEW T, NEW R, NEW S, NEW R2, NEW S2, NEW k, NEW g, TreeOf(T, R, S),
           k \in DOMAIN S, IsCut(S, S2, k, g), g.run = S[k].run, g.phase \notin {"child", "created"},
           Alters(T, R, R2, {S[j].run : j \in k .. Len(S)}),
           FrameIs(T, R2, g.run, g), Settling(T, R2, g.run, g),
           \A r \in DOMAIN R : R[r].parent = g.run => Kid(T, R2, g, 0, r),
           \A j \in (k + 1) .. Len(S) :
              /\ R2[S[j].run].status = "SUCCEEDED" =>
                    \A n \in DOMAIN R2[S[j].run].nodes : R2[S[j].run].nodes[n] \in Fine
              /\ \A r \in DOMAIN R : R[r].parent = S[j].run => Earned(T, R2, r) /\ Closed(R2, r)
    PROVE  TreeOf(T, R2, S2)
<1> DEFINE Z == {S[j].run : j \in k .. Len(S)}
<1>1. /\ S \in Seq(Frames) /\ Len(S) \in Nat /\ DOMAIN S = 1 .. Len(S) /\ k \in 1 .. Len(S)
      /\ DOMAIN S2 = 1 .. k /\ Len(S2) = k /\ S2[k] = g /\ \A i \in 1 .. (k - 1) : S2[i] = S[i]
      BY StacksAre DEF TreeOf, IsCut
<1>2. \A i, j \in DOMAIN S : S[i].run = S[j].run => i = j
  <2> SUFFICES ASSUME NEW i \in DOMAIN S, NEW j \in DOMAIN S, i < j PROVE S[i].run # S[j].run
      BY <1>1
  <2>1. S[i].run < S[j].run /\ S[i] \in Frames /\ S[j] \in Frames
        BY <1>1 DEF TreeOf, Stacked
  <2> QED BY <2>1 DEF Frames
<1>3. \A i \in 1 .. (k - 1) : S[i].run \notin Z /\ S2[i] = S[i] /\ Below(S2, i) = Below(S, i) /\ i \in DOMAIN S
  <2> SUFFICES ASSUME NEW i \in 1 .. (k - 1)
               PROVE  S[i].run \notin Z /\ S2[i] = S[i] /\ Below(S2, i) = Below(S, i) /\ i \in DOMAIN S
      OBVIOUS
  <2>1. i \in DOMAIN S /\ i < k /\ S2[i] = S[i]
        BY <1>1
  <2>2. ASSUME NEW j \in k .. Len(S) PROVE S[i].run # S[j].run
        BY <1>1, <1>2, <2>1
  <2>3. S2[i + 1].run = S[i + 1].run
    <3>1. CASE i = k - 1
          BY <1>1, <3>1
    <3>2. CASE i < k - 1
          BY <1>1, <3>2
    <3> QED BY <2>1, <3>1, <3>2, <1>1
  <2>4. Below(S2, i) = Below(S, i)
        BY <1>1, <2>1, <2>3 DEF Below
  <2>5. S[i].run \notin Z
        BY <2>2
  <2> QED BY <2>1, <2>4, <2>5
<1>4. /\ R2 \in Seq(TreeRow(T)) /\ DOMAIN R2 = DOMAIN R /\ Len(R2) = Len(R)
      /\ \A r \in DOMAIN R :
           /\ R2[r].workflow = R[r].workflow /\ R2[r].parent = R[r].parent /\ R2[r].node = R[r].node
           /\ DOMAIN R2[r].nodes = DOMAIN R[r].nodes
           /\ r \notin Z => R2[r] = R[r]
      BY DEF Alters
<1>5. \A i \in DOMAIN S : S[i].run \in DOMAIN R /\ R[S[i].run].status = "RUNNING"
      BY DEF TreeOf, Stacked, FrameIs
<1>6. R2[g.run].status = "RUNNING"
      BY DEF FrameIs
<1>11. \A r : r \in Z => r = g.run \/ \E j \in (k + 1) .. Len(S) : r = S[j].run
      BY <1>1
<1>7. Stacked(R2, S2)
  <2> SUFFICES ASSUME NEW i \in 1 .. k
               PROVE  /\ S2[i].run \in DOMAIN R2
                      /\ S2[i].phase = "child" <=> i < Len(S2)
                      /\ i = 1 => R2[S2[i].run].parent = 0
                      /\ i > 1 => R2[S2[i].run].parent = S2[i - 1].run /\ R2[S2[i].run].node = S2[i - 1].at
                      /\ \A j \in DOMAIN S2 : j < i => S2[j].run < S2[i].run
                      /\ S2[i].phase = "created" =>
                            /\ R2[Len(R2)].parent = S2[i].run /\ R2[Len(R2)].node = S2[i].at
                            /\ R2[Len(R2)].status = "PENDING"
                            /\ \A n \in DOMAIN R2[Len(R2)].nodes : R2[Len(R2)].nodes[n] = "PENDING"
      BY <1>1 DEF Stacked
  <2>1. i \in DOMAIN S /\ S2[i].run = S[i].run
        BY <1>1
  <2>2. S[i].run \in DOMAIN R
        BY <1>5, <2>1
  <2>3. S2[i].phase = "child" <=> i < k
    <3>1. CASE i = k
          BY <1>1, <3>1
    <3>2. CASE i < k
      <4>1. S2[i] = S[i] /\ i < Len(S)
            BY <1>1, <3>2
      <4>2. S[i].phase = "child" <=> i < Len(S)
            BY <2>1 DEF TreeOf, Stacked
      <4> QED BY <3>2, <4>1, <4>2
    <3> QED BY <3>1, <3>2, <1>1
  <2>4. S2[i].phase # "created"
        BY <2>3, <1>1
  <2>5. i = 1 => R2[S2[i].run].parent = 0
    <3>1. i = 1 => R[S[i].run].parent = 0
          BY <2>1 DEF TreeOf, Stacked
    <3> QED BY <1>4, <2>1, <2>2, <3>1
  <2>6. i > 1 => S2[i - 1] = S[i - 1]
        BY <1>1
  <2>7. i > 1 => R2[S2[i].run].parent = S2[i - 1].run /\ R2[S2[i].run].node = S2[i - 1].at
    <3>1. i > 1 => R[S[i].run].parent = S[i - 1].run /\ R[S[i].run].node = S[i - 1].at
          BY <2>1 DEF TreeOf, Stacked
    <3> QED BY <1>4, <2>1, <2>2, <2>6, <3>1
  <2>8. \A j \in DOMAIN S2 : j < i => S2[j].run < S2[i].run
    <3> SUFFICES ASSUME NEW j \in DOMAIN S2, j < i PROVE S2[j].run < S2[i].run
        OBVIOUS
    <3>1. j \in DOMAIN S /\ S2[j] = S[j]
          BY <1>1
    <3> QED BY <2>1, <3>1 DEF TreeOf, Stacked
  <2> QED BY <1>1, <1>4, <2>1, <2>2, <2>3, <2>4, <2>5, <2>7, <2>8
<1>8. RowsAreHonest(T, R2)
  <2> SUFFICES ASSUME NEW r \in DOMAIN R
               PROVE  /\ DOMAIN R2[r].nodes = DOMAIN T[R2[r].workflow]
                      /\ R2[r].status = "SUCCEEDED" => \A j \in DOMAIN R2[r].nodes : R2[r].nodes[j] \in Fine
                      /\ R2[r].parent < r
                      /\ R2[r].parent # 0 => R2[r].parent \in DOMAIN R2 /\ R2[r].node \in DOMAIN R2[R2[r].parent].nodes
      BY <1>4 DEF RowsAreHonest
  <2>1. DOMAIN R2[r].nodes = DOMAIN T[R2[r].workflow]
        BY <1>4 DEF TreeOf, RowsAreHonest
  <2>4. R2[r].parent < r
        BY <1>4 DEF TreeOf, RowsAreHonest
  <2>2. R2[r].parent # 0 => R2[r].parent \in DOMAIN R2 /\ R2[r].node \in DOMAIN R2[R2[r].parent].nodes
        BY <1>4, ZenonT(30) DEF TreeOf, RowsAreHonest
  <2>3. R2[r].status = "SUCCEEDED" => \A j \in DOMAIN R2[r].nodes : R2[r].nodes[j] \in Fine
    <3>1. CASE r \notin Z
          BY <1>4, <3>1 DEF TreeOf, RowsAreHonest
    <3>2. CASE r = g.run
          BY <1>6, <3>2
    <3>3. ASSUME NEW j \in (k + 1) .. Len(S), r = S[j].run
          PROVE  R2[r].status = "SUCCEEDED" => \A n \in DOMAIN R2[r].nodes : R2[r].nodes[n] \in Fine
          BY <3>3
    <3> QED BY <3>1, <3>2, <3>3, <1>11
  <2> QED BY <2>1, <2>2, <2>3, <2>4
<1>9. \A i \in DOMAIN S2 : FrameIs(T, R2, S2[i].run, S2[i]) /\ Settling(T, R2, S2[i].run, S2[i])
  <2> SUFFICES ASSUME NEW i \in 1 .. k
               PROVE  FrameIs(T, R2, S2[i].run, S2[i]) /\ Settling(T, R2, S2[i].run, S2[i])
      BY <1>1
  <2>1. CASE i = k
        BY <1>1, <2>1
  <2>2. CASE i \in 1 .. (k - 1)
    <3>1. S2[i] = S[i] /\ i \in DOMAIN S /\ R2[S[i].run] = R[S[i].run]
          BY <1>3, <1>4, <1>5, <2>2
    <3>2. FrameIs(T, R, S[i].run, S[i]) /\ Settling(T, R, S[i].run, S[i])
          BY <3>1 DEF TreeOf
    <3>3. Undone(T, R2, S[i].run) = Undone(T, R, S[i].run)
          BY <3>1 DEF Undone
    <3>4. FrameIs(T, R2, S[i].run, S[i])
          BY <3>1, <3>2, <3>3 DEF FrameIs
    <3>5. Settling(T, R2, S[i].run, S[i])
          BY <3>1, <3>2, <3>3, ZenonT(30) DEF Settling
    <3> QED BY <3>1, <3>4, <3>5
  <2> QED BY <2>1, <2>2, <1>1
<1>10. Family(T, R2, S2)
  <2> SUFFICES ASSUME NEW r \in DOMAIN R, R[r].parent # 0
               PROVE  /\ \A i \in 1 .. k : S2[i].run = R[r].parent => Kid(T, R2, S2[i], Below(S2, i), r)
                      /\ (\A i \in 1 .. k : S2[i].run # R[r].parent) => Earned(T, R2, r) /\ Closed(R2, r)
      BY <1>1, <1>4 DEF Family
  <2>1. R[r].parent \in DOMAIN R
        BY DEF TreeOf, RowsAreHonest
  <2>2. ASSUME NEW j \in DOMAIN S, r = S[j].run
        PROVE  j > 1 /\ R[r].parent = S[j - 1].run /\ j - 1 \in DOMAIN S
        BY <2>2, <1>1 DEF TreeOf, Stacked
  <2>3. ASSUME NEW i \in 1 .. (k - 1), S[i].run = R[r].parent
        PROVE  Kid(T, R2, S[i], Below(S, i), r)
    <3>1. Kid(T, R, S[i], Below(S, i), r)
          BY <1>3, <2>3 DEF TreeOf, Family
    <3>2. R2[R[r].parent] = R[R[r].parent]
          BY <1>3, <1>4, <2>1, <2>3
    <3>3. R2[r].status = R[r].status
      <4>1. CASE r \notin Z
            BY <1>4, <4>1
      <4>2. CASE r = g.run
            BY <4>2, <1>5, <1>6
      <4>3. ASSUME NEW j \in (k + 1) .. Len(S), r = S[j].run PROVE FALSE
        <5>1. j \in DOMAIN S /\ i \in DOMAIN S /\ i < j - 1
              BY <1>1
        <5>2. S[j - 1].run = S[i].run /\ j - 1 \in DOMAIN S
              BY <5>1, <4>3, <2>2, <2>3
        <5> QED BY <5>1, <5>2, <1>1, <1>2
      <4> QED BY <4>1, <4>2, <4>3, <1>11
    <3>4. R2[r].node = R[r].node /\ R2[r].parent = R[r].parent /\ Len(R2) = Len(R)
          BY <1>4
    <3>5. Earned(T, R, r) => Earned(T, R2, r)
          BY <3>2, <3>3, <3>4, ZenonT(30) DEF Earned
    <3>6. Closed(R, r) => Closed(R2, r)
          BY <3>2, <3>3, <3>4 DEF Closed
    <3>7. Undone(T, R2, S[i].run) = Undone(T, R, S[i].run)
          BY <2>3, <3>2 DEF Undone
    <3> QED BY <3>1, <3>3, <3>4, <3>5, <3>6, <3>7 DEF Kid
  <2>4. ASSUME NEW i \in 1 .. k, S2[i].run = R[r].parent
        PROVE  Kid(T, R2, S2[i], Below(S2, i), r)
    <3>1. CASE i = k
      <4>1. Below(S2, k) = 0
            BY <1>1 DEF Below
      <4> QED BY <3>1, <4>1, <2>4, <1>1
    <3>2. CASE i \in 1 .. (k - 1)
          BY <3>2, <2>3, <2>4, <1>3
    <3> QED BY <3>1, <3>2, <1>1
  <2>5. ASSUME \A i \in 1 .. k : S2[i].run # R[r].parent
        PROVE  Earned(T, R2, r) /\ Closed(R2, r)
    <3>1. CASE \E j \in (k + 1) .. Len(S) : R[r].parent = S[j].run
          BY <3>1
    <3>2. CASE ~\E j \in (k + 1) .. Len(S) : R[r].parent = S[j].run
      <4>1. \A j \in DOMAIN S : S[j].run # R[r].parent
            BY <3>2, <2>5, <1>1
      <4>2. R[r].parent \notin Z /\ r \notin Z
        <5>1. k .. Len(S) \subseteq DOMAIN S
              BY <1>1
        <5>2. \A j \in DOMAIN S : r # S[j].run
              BY <4>1, <2>2
        <5> QED BY <5>1, <5>2, <4>1
      <4>3. R2[R[r].parent] = R[R[r].parent] /\ R2[r] = R[r]
            BY <4>2, <2>1, <1>4
      <4>4. Earned(T, R, r) /\ Closed(R, r)
            BY <4>1 DEF TreeOf, Family
      <4> QED BY <4>3, <4>4, ZenonT(30) DEF Earned, Closed
    <3> QED BY <3>1, <3>2
  <2> QED BY <2>4, <2>5
<1> QED BY <1>1, <1>4, <1>7, <1>8, <1>9, <1>10 DEF TreeOf, IsCut

(* The usual step: the innermost execution goes on to g, and the nodes of  *)
(* its run become N.                                                       *)
WithNodes(R, x, N) == [R EXCEPT ![x].nodes = N]

LEMMA WithNodesIs ==
    ASSUME NEW T, NEW R \in Seq(TreeRow(T)), NEW x \in DOMAIN R, NEW N \in [DOMAIN R[x].nodes -> NodeStates]
    PROVE  /\ Alters(T, R, WithNodes(R, x, N), {x})
           /\ WithNodes(R, x, N)[x].status = R[x].status /\ WithNodes(R, x, N)[x].nodes = N
<1> DEFINE R2 == WithNodes(R, x, N)
<1>1. Len(R) \in Nat /\ DOMAIN R = 1 .. Len(R) /\ R \in [1 .. Len(R) -> TreeRow(T)]
      OBVIOUS
<1>2. R[x] \in TreeRow(T)
      OBVIOUS
<1>3. [R[x] EXCEPT !.nodes = N] \in TreeRow(T)
  <2>1. PICK D \in SUBSET Nat : R[x].nodes \in [D -> NodeStates]
        BY <1>2 DEF TreeRow
  <2>2. N \in [D -> NodeStates]
        BY <2>1
  <2>3. N \in UNION {[E -> NodeStates] : E \in SUBSET Nat}
        BY <2>2
  <2> QED BY <1>2, <2>3 DEF TreeRow
<1>4. R2 = [R EXCEPT ![x] = [R[x] EXCEPT !.nodes = N]]
      BY DEF WithNodes
<1>5. R2 \in [1 .. Len(R) -> TreeRow(T)]
      BY <1>1, <1>3, <1>4
<1>6. R2 \in Seq(TreeRow(T)) /\ Len(R2) = Len(R) /\ DOMAIN R2 = DOMAIN R
      BY <1>1, <1>5
<1>7. R2[x] = [R[x] EXCEPT !.nodes = N] /\ \A r \in DOMAIN R : r # x => R2[r] = R[r]
      BY <1>1, <1>4
<1>8. /\ R2[x].workflow = R[x].workflow /\ R2[x].parent = R[x].parent /\ R2[x].node = R[x].node
      /\ R2[x].status = R[x].status /\ R2[x].nodes = N
      BY <1>2, <1>7 DEF TreeRow
<1> HIDE DEF R2
<1>9. DOMAIN R2[x].nodes = DOMAIN R[x].nodes
      BY <1>8
<1>10. Alters(T, R, R2, {x})
       BY <1>6, <1>7, <1>8, <1>9 DEF Alters
<1> QED BY <1>8, <1>10 DEF R2

LEMMA MoveKeeps ==
    ASSUME NEW T, NEW R, NEW S, TreeOf(T, R, S), S # <<>>, NEW g \in Frames, NEW x, x = Last(S).run, g.run = x,
           g.phase \notin {"child", "created"},
           NEW N \in [DOMAIN R[x].nodes -> NodeStates],
           FrameIs(T, WithNodes(R, x, N), x, g), Settling(T, WithNodes(R, x, N), x, g),
           \A r \in DOMAIN R : R[r].parent = x => Kid(T, WithNodes(R, x, N), g, 0, r)
    PROVE  TreeOf(T, WithNodes(R, x, N), Append(Front(S), g))
<1> DEFINE R2 == WithNodes(R, x, N)
           S2 == Append(Front(S), g)
           k == Len(S)
<1>1. /\ S \in Seq(Frames) /\ R \in Seq(TreeRow(T)) /\ k \in Nat /\ k \in DOMAIN S /\ DOMAIN S = 1 .. k /\ Last(S) = S[k]
      BY StacksAre DEF TreeOf
<1>2. x \in DOMAIN R
      BY <1>1 DEF TreeOf, Stacked
<1>3. IsCut(S, S2, k, g)
      BY <1>1, CutTop
<1>4. Alters(T, R, R2, {x})
      BY <1>1, <1>2, WithNodesIs
<1>5. {S[j].run : j \in k .. Len(S)} = {x}
      BY <1>1
<1>6. \A j \in (k + 1) .. Len(S) : FALSE
      BY <1>1
<1> HIDE DEF R2, S2
<1>7. /\ FrameIs(T, R2, g.run, g) /\ Settling(T, R2, g.run, g)
      /\ \A r \in DOMAIN R : R[r].parent = g.run => Kid(T, R2, g, 0, r)
      BY DEF R2
<1>8. Alters(T, R, R2, {S[j].run : j \in k .. Len(S)})
      BY <1>4, <1>5
<1>9. k \in DOMAIN S /\ g.run = S[k].run
      BY <1>1
<1>10. TreeOf(T, R2, S2)
  <2> HIDE DEF k
  <2> QED BY <1>3, <1>6, <1>7, <1>8, <1>9, CutKeeps
<1> QED BY <1>10 DEF R2, S2

\* What TreeOf says of the innermost execution
LEMMA TopIs ==
    ASSUME NEW T, NEW R, NEW S, TreeOf(T, R, S), S # <<>>, NEW f, f = Last(S), NEW x, x = f.run
    PROVE  /\ x \in DOMAIN R /\ f \in Frames /\ f.phase # "child" /\ f.at \in Nat /\ x \in Nat
           /\ FrameIs(T, R, x, f) /\ Settling(T, R, x, f)
           /\ R[x].nodes \in [DOMAIN R[x].nodes -> NodeStates] /\ DOMAIN R[x].nodes = DOMAIN T[R[x].workflow]
           /\ DOMAIN R[x].nodes = 1 .. Len(T[R[x].workflow]) /\ Len(T[R[x].workflow]) \in Nat
           /\ \A r \in DOMAIN R : R[r].parent = x => Kid(T, R, f, 0, r) /\ R[r].node \in DOMAIN R[x].nodes
<1>1. S \in Seq(Frames) /\ R \in Seq(TreeRow(T)) /\ Len(S) \in DOMAIN S /\ f = S[Len(S)]
      BY StacksAre DEF TreeOf
<1>2. x \in DOMAIN R /\ (f.phase = "child" <=> Len(S) < Len(S)) /\ f \in Frames
      BY <1>1 DEF TreeOf, Stacked
<1>3. FrameIs(T, R, x, f) /\ Settling(T, R, x, f)
      BY <1>1 DEF TreeOf
<1>4. R[x] \in TreeRow(T) /\ x \in Nat /\ f.at \in Nat /\ f.phase # "child"
      BY <1>1, <1>2 DEF Frames
<1>5. PICK D \in SUBSET Nat : R[x].nodes \in [D -> NodeStates]
      BY <1>4 DEF TreeRow
<1>6. DOMAIN R[x].nodes = DOMAIN T[R[x].workflow]
      BY <1>2 DEF TreeOf, RowsAreHonest
<1>7. R[x].workflow \in DOMAIN T /\ T \in WorkflowTrees
      BY <1>4 DEF TreeRow, TreeOf
<1>8. DOMAIN T[R[x].workflow] = 1 .. Len(T[R[x].workflow]) /\ Len(T[R[x].workflow]) \in Nat
      BY <1>7, SubWorkflowAssumption
<1>9. ASSUME NEW r \in DOMAIN R, R[r].parent = x
      PROVE  Kid(T, R, f, 0, r) /\ R[r].node \in DOMAIN R[x].nodes
  <2>1. x # 0
        BY <1>1, <1>2
  <2>2. Below(S, Len(S)) = 0
        BY <1>1 DEF Below
  <2>3. Kid(T, R, f, 0, r)
        BY <1>1, <1>9, <2>1, <2>2 DEF TreeOf, Family
  <2>4. R[r].node \in DOMAIN R[x].nodes
        BY <1>9, <2>1 DEF TreeOf, RowsAreHonest
  <2> QED BY <2>3, <2>4
<1> QED BY <1>2, <1>3, <1>4, <1>5, <1>6, <1>8, <1>9

\* A node that was dispatched gets its end
SetAt(N, i, st) == [N EXCEPT ![i] = st]

LEMMA EndsKeep ==
    ASSUME NEW T, NEW R, NEW S, TreeOf(T, R, S), S # <<>>, NEW f, f = Last(S), NEW x, x = f.run,
           f.phase \notin {"next", "ending"}, NEW st, NEW g,
           \/ /\ st \in Failed \cup {"SUCCEEDED"} /\ g = [run |-> x, at |-> f.at + 1, phase |-> "next"]
              /\ f.phase \notin {"undo_work", "undoing"} \/ st \in Failed
           \/ st \in {"CANCELLED", "TIMED_OUT"} /\ g = [run |-> x, at |-> f.at, phase |-> "ending", status |-> st],
           NEW N \in [DOMAIN R[x].nodes -> NodeStates], N[f.at] = st,
           \A j \in DOMAIN N : j # f.at => \/ N[j] = R[x].nodes[j]
                                           \/ f.phase \in {"undo_work", "undoing"} /\ j \in Undone(T, R, x),
           st = "SUCCEEDED" => f.phase = "skill" \/
               /\ f.phase = "result"
               /\ f.status = "SUCCEEDED" \/ T[R[x].workflow][f.at].policy = "continue"
    PROVE  TreeOf(T, WithNodes(R, x, N), Append(Front(S), g))
<1> DEFINE R2 == WithNodes(R, x, N)
           N1 == R[x].nodes
<1>1. /\ x \in DOMAIN R /\ f \in Frames /\ f.phase # "child" /\ f.at \in Nat /\ x \in Nat
      /\ FrameIs(T, R, x, f) /\ Settling(T, R, x, f)
      /\ DOMAIN N1 = 1 .. Len(T[R[x].workflow]) /\ Len(T[R[x].workflow]) \in Nat
      /\ \A r \in DOMAIN R : R[r].parent = x => Kid(T, R, f, 0, r) /\ R[r].node \in DOMAIN N1
      BY TopIs
<1>2. g \in Frames /\ g.run = x /\ g.phase \in {"next", "ending"}
      BY <1>1 DEF Frames, EndedRun, Quiet
<1>3. Alters(T, R, R2, {x}) /\ R2[x].status = R[x].status /\ R2[x].nodes = N
  <2>1. R \in Seq(TreeRow(T))
        BY DEF TreeOf
  <2>2. x \in DOMAIN R
        BY <1>1
  <2>3. N \in [DOMAIN R[x].nodes -> NodeStates]
        OBVIOUS
  <2>4. Alters(T, R, WithNodes(R, x, N), {x})
        BY <2>1, <2>2, <2>3, WithNodesIs
  <2>5. WithNodes(R, x, N)[x].status = R[x].status /\ WithNodes(R, x, N)[x].nodes = N
        BY <2>1, <2>2, <2>3, <2>4, WithNodesIs
  <2> QED BY <2>4, <2>5
<1> HIDE DEF R2
<1>4. Undone(T, R2, x) = Undone(T, R, x) /\ R2[x].workflow = R[x].workflow
  <2>1. R2[x].workflow = R[x].workflow
        BY <1>1, <1>3 DEF Alters
  <2> QED BY <2>1 DEF Undone
<1>5. f.at \in DOMAIN N /\ f.at \notin Undone(T, R, x) /\ N1[f.at] = "RUNNING" /\ R[x].status = "RUNNING"
      BY <1>1 DEF FrameIs
<1>6. FrameIs(T, R2, x, g)
  <2>1. g.at \in 1 .. (Len(T[R[x].workflow]) + 1)
        BY <1>1, <1>5
  <2> QED BY <1>2, <1>3, <1>4, <1>5, <2>1 DEF FrameIs
<1>7. Settling(T, R2, x, g)
  <2>1. CASE g.phase = "ending"
        BY <2>1 DEF Settling
  <2>2. CASE g.phase # "ending"
    <3>1. g.phase = "next" /\ g.at = f.at + 1 /\ st \in Fine \cup Failed
          BY <2>2, <1>2 DEF Fine
    <3>2. ASSUME NEW j \in DOMAIN N, j \notin Undone(T, R, x), j < f.at + 1
          PROVE  N[j] \in Fine \cup Failed
      <4>1. CASE j = f.at
            BY <3>1, <4>1
      <4>2. CASE j # f.at
        <5>1. j < f.at /\ N[j] = N1[j] /\ j \in DOMAIN N1
              BY <1>1, <3>2, <4>2
        <5> QED BY <5>1, <1>1, <3>2 DEF Settling
      <4> QED BY <4>1, <4>2
    <3>3. ASSUME NEW j \in DOMAIN N, j \in Undone(T, R, x)
          PROVE  N[j] \in Fine \cup {"PENDING"}
                 \/ \E m \in DOMAIN N \ Undone(T, R, x) : m < f.at + 1 /\ N[m] \in Failed
      <4>1. CASE st \in Failed
            BY <4>1, <1>1, <1>5
      <4>2. CASE st \notin Failed
        <5>1. f.phase \notin {"undo_work", "undoing"} /\ N[j] = N1[j] /\ j \in DOMAIN N1
              BY <4>2, <3>1, <1>5, <3>3
        <5>2. CASE N1[j] \in Fine \cup {"PENDING"}
              BY <5>1, <5>2
        <5>3. CASE N1[j] \notin Fine \cup {"PENDING"}
          <6>1. PICK m \in DOMAIN N1 \ Undone(T, R, x) : m < f.at /\ N1[m] \in Failed
                BY <5>1, <5>3, <1>1, <3>3, SMTT(20) DEF Settling
          <6>2. N[m] = N1[m] /\ m < f.at + 1
                BY <6>1, <5>1, <1>1
          <6> QED BY <6>1, <6>2
        <5> QED BY <5>2, <5>3
      <4> QED BY <4>1, <4>2
    <3> QED BY <3>1, <3>2, <3>3, <1>3, <1>4 DEF Settling
  <2> QED BY <2>1, <2>2
<1>8. ASSUME NEW r \in DOMAIN R, R[r].parent = x PROVE Kid(T, R2, g, 0, r)
  <2>1. Kid(T, R, f, 0, r) /\ R[r].node \in DOMAIN N1
        BY <1>1, <1>8
  <2>2. /\ R2[r].node = R[r].node /\ R2[r].parent = x /\ R2[r].status = R[r].status
        BY <1>3, <1>8 DEF Alters
  <2>3. R[r].node \notin Undone(T, R, x) /\ R[r].node <= f.at /\ R[r].node \in Nat
        BY <1>1, <2>1 DEF Kid
  <2>6. R[r].node = f.at /\ st = "SUCCEEDED" =>
           f.phase = "result" /\ R[r].status = f.status /\ f.status \in EndedRun
    <3>1. f.phase = "result" => f.status \in EndedRun
          BY <1>1 DEF Frames, Quiet
    <3>2. R[r].node = f.at /\ st = "SUCCEEDED" => f.phase = "result"
          BY <1>1, <2>1 DEF Kid
    <3> QED BY <2>1, <3>1, <3>2 DEF Kid
  <2>4. CASE R[r].node = f.at
    <3>1. Earned(T, R2, r)
      <4>1. CASE st = "SUCCEEDED"
        <5>1. f.phase = "result" /\ R[r].status = f.status /\ f.status \in EndedRun
              BY <2>4, <2>6, <4>1
        <5>2. R[r].status = "SUCCEEDED" \/ T[R[x].workflow][f.at].policy = "continue"
              BY <4>1, <5>1
        <5> QED BY <5>1, <5>2, <1>3, <1>4, <2>2, <2>4, SMTT(20) DEF Earned
      <4>2. CASE st # "SUCCEEDED"
            BY <4>2, <1>3, <2>2, <2>4 DEF Earned
      <4> QED BY <4>1, <4>2
    <3>2. Closed(R2, r)
      <4>1. CASE st = "SUCCEEDED"
        <5>1. R[r].status = f.status /\ f.status \in EndedRun
              BY <2>4, <2>6, <4>1
        <5> QED BY <5>1, <2>2 DEF Closed, Open, EndedRun
      <4>2. CASE st # "SUCCEEDED"
            BY <4>2, <1>3, <2>2, <2>4 DEF Closed, Blocking, Failed
      <4> QED BY <4>1, <4>2
    <3>3. R[r].node < g.at \/ (g.phase = "ending" /\ R[r].node = g.at)
          BY <2>4, <1>1
    <3> QED BY <3>1, <3>2, <3>3, <1>1, <1>2, <1>4, <2>2, <2>3 DEF Kid
  <2>5. CASE R[r].node # f.at
    <3>1. R[r].node < f.at /\ R[r].node < g.at /\ N[R[r].node] = N1[R[r].node]
          BY <2>1, <2>3, <2>5, <1>1
    <3>2. Earned(T, R2, r) /\ Closed(R2, r)
          BY <2>1, <3>1, <1>3, <1>4, <2>2, <1>8, ZenonT(30) DEF Kid, Earned, Closed
    <3> QED BY <3>1, <3>2, <1>2, <1>4, <2>2, <2>3 DEF Kid
  <2> QED BY <2>4, <2>5
<1> QED BY <1>1, <1>2, <1>6, <1>7, <1>8, MoveKeeps DEF R2

\* A node ends and its run goes on
LEMMA NextAfter ==
    ASSUME NEW T, NEW R, NEW S, TreeOf(T, R, S), S # <<>>, NEW f, f = Last(S), NEW st \in Failed \cup {"SUCCEEDED"},
           f.phase \notin {"next", "ending"}, f.phase \notin {"undo_work", "undoing"},
           NEW N \in [DOMAIN R[f.run].nodes -> NodeStates], N[f.at] = st,
           \A j \in DOMAIN N : j # f.at => N[j] = R[f.run].nodes[j],
           st = "SUCCEEDED" => f.phase = "skill" \/
               /\ f.phase = "result"
               /\ f.status = "SUCCEEDED" \/ T[R[f.run].workflow][f.at].policy = "continue"
    PROVE  TreeOf(T, WithNodes(R, f.run, N), Append(Front(S), [run |-> f.run, at |-> f.at + 1, phase |-> "next"]))
<1> DEFINE g == [run |-> f.run, at |-> f.at + 1, phase |-> "next"]
<1>1. st \in Failed \cup {"SUCCEEDED"} /\ g = [run |-> f.run, at |-> f.at + 1, phase |-> "next"]
              /\ f.phase \notin {"undo_work", "undoing"}
      OBVIOUS
<1> HIDE DEF g
<1> QED BY <1>1, EndsKeep, SMTT(60) DEF g


LEMMA SameNodes ==
    ASSUME NEW T, NEW R \in Seq(TreeRow(T)), NEW x \in DOMAIN R
    PROVE  WithNodes(R, x, R[x].nodes) = R
<1>1. R \in [1 .. Len(R) -> TreeRow(T)] /\ DOMAIN R = 1 .. Len(R)
      OBVIOUS
<1>2. [R[x] EXCEPT !.nodes = R[x].nodes] = R[x]
      BY <1>1 DEF TreeRow
<1>3. WithNodes(R, x, R[x].nodes) = [R EXCEPT ![x] = [R[x] EXCEPT !.nodes = R[x].nodes]]
      BY DEF WithNodes
<1> QED BY <1>1, <1>2, <1>3

LEMMA SetNodeIs ==
    ASSUME NEW R, NEW x, NEW i, NEW st
    PROVE  SetNode(R, x, i, st) = WithNodes(R, x, [R[x].nodes EXCEPT ![i] = st])
BY DEF SetNode, WithNodes

\* What a change of the nodes of run x leaves of frames and children
LEMMA RunKeeps ==
    ASSUME NEW T, NEW R \in Seq(TreeRow(T)), NEW x \in DOMAIN R, NEW N \in [DOMAIN R[x].nodes -> NodeStates],
           NEW R2, R2 = WithNodes(R, x, N)
    PROVE  /\ R2[x].nodes = N /\ R2[x].status = R[x].status /\ R2[x].workflow = R[x].workflow
           /\ Undone(T, R2, x) = Undone(T, R, x) /\ Len(R2) = Len(R)
           /\ \A r \in DOMAIN R : /\ R2[r].node = R[r].node /\ R2[r].parent = R[r].parent
                                  /\ R2[r].status = R[r].status
<1>1. Alters(T, R, R2, {x})
      BY WithNodesIs
<1>2. R2[x].status = R[x].status /\ R2[x].nodes = N
      BY <1>1, WithNodesIs
<1>3. R2[x].workflow = R[x].workflow
      BY <1>1 DEF Alters
<1>4. Undone(T, R2, x) = Undone(T, R, x)
      BY <1>3 DEF Undone
<1>5. \A r \in DOMAIN R : R2[r].status = R[r].status
      BY <1>1, <1>2 DEF Alters
<1> QED BY <1>1, <1>2, <1>3, <1>4, <1>5 DEF Alters

LEMMA KidStays ==
    ASSUME NEW T, NEW R \in Seq(TreeRow(T)), NEW x \in DOMAIN R, NEW N \in [DOMAIN R[x].nodes -> NodeStates],
           NEW f, NEW g, f.run = x, g.run = x, f.at \in Nat, g.at \in Nat, NEW r \in DOMAIN R, R[r].parent = x,
           Kid(T, R, f, 0, r), N[R[r].node] = R[x].nodes[R[r].node],
           \/ R[r].node < f.at /\ f.at <= g.at
           \/ /\ R[r].node = f.at /\ g.at = f.at
              /\ g.phase \in {"undo", "undo_work", "undoing", "undone"} /\ R[r].status \in EndedRun
    PROVE  Kid(T, WithNodes(R, x, N), g, 0, r)
<1> DEFINE R2 == WithNodes(R, x, N)
<1>1. /\ R2[x].nodes = N /\ R2[x].workflow = R[x].workflow
      /\ Undone(T, R2, x) = Undone(T, R, x) /\ Len(R2) = Len(R)
      /\ R2[r].node = R[r].node /\ R2[r].parent = R[r].parent /\ R2[r].status = R[r].status
      BY RunKeeps
<1> HIDE DEF R2
<1>2. R[r].node \in Nat
  <2>1. R[r] \in TreeRow(T)
        OBVIOUS
  <2> QED BY <2>1 DEF TreeRow
<1>6. R2[r].node \notin Undone(T, R2, g.run)
      BY <1>1 DEF Kid
<1>3. Earned(T, R2, r)
      BY <1>1 DEF Kid, Earned
<1>4. ASSUME R[r].node < f.at /\ f.at <= g.at PROVE Kid(T, R2, g, 0, r)
  <2>1. R[r].node < g.at /\ R[r].node # g.at
        BY <1>2, <1>4
  <2>2. Closed(R2, r)
        BY <1>1, <1>4 DEF Kid, Closed
  <2>3. R2[r].node < g.at /\ R2[r].node # g.at
        BY <2>1, <1>1
  <2> QED BY <1>3, <1>6, <2>2, <2>3 DEF Kid
<1>5. ASSUME R[r].node = f.at, g.at = f.at,
             g.phase \in {"undo", "undo_work", "undoing", "undone"}, R[r].status \in EndedRun
      PROVE  Kid(T, R2, g, 0, r)
  <2>1. ~ (R[r].node < g.at)
        BY <1>2, <1>5
  <2>2. R2[r].node = g.at /\ ~ (R2[r].node < g.at) /\ R2[r].status \in EndedRun
        BY <2>1, <1>1, <1>5
  <2> QED BY <1>3, <1>5, <1>6, <2>2 DEF Kid
<1> QED BY <1>4, <1>5 DEF R2

\* A run goes on to a node, past it, or to its end
LEMMA NextKeeps ==
    ASSUME NEW T, NEW R, NEW S, TreeOf(T, R, S), S # <<>>, NEW f, f = Last(S), NEW x, x = f.run,
           f.phase = "next", NEW g \in Frames, g.run = x,
           NEW N \in [DOMAIN R[x].nodes -> NodeStates],
           \A j \in DOMAIN N : j # f.at => N[j] = R[x].nodes[j],
           \/ g.phase = "ending" /\ g.at = f.at /\ g.status # "SUCCEEDED"
           \/ /\ g.phase = "next" /\ g.at = f.at + 1 /\ f.at \in DOMAIN N
              /\ IF f.at \in Undone(T, R, x) THEN N = R[x].nodes ELSE N[f.at] = "SKIPPED"
           \/ /\ g.phase = "work" /\ g.at = f.at /\ f.at \in DOMAIN N
              /\ f.at \notin Undone(T, R, x) /\ N[f.at] = "RUNNING"
    PROVE  TreeOf(T, WithNodes(R, x, N), Append(Front(S), g))
<1> DEFINE R2 == WithNodes(R, x, N)
           N1 == R[x].nodes
<1>1. /\ x \in DOMAIN R /\ f \in Frames /\ f.at \in Nat
      /\ FrameIs(T, R, x, f) /\ Settling(T, R, x, f)
      /\ DOMAIN N1 = 1 .. Len(T[R[x].workflow]) /\ Len(T[R[x].workflow]) \in Nat
      /\ \A r \in DOMAIN R : R[r].parent = x => Kid(T, R, f, 0, r) /\ R[r].node \in DOMAIN N1
      BY TopIs
<1>2. R \in Seq(TreeRow(T))
      BY DEF TreeOf
<1>3. /\ R2[x].nodes = N /\ R2[x].status = R[x].status /\ R2[x].workflow = R[x].workflow
      /\ Undone(T, R2, x) = Undone(T, R, x)
  <2>1. x \in DOMAIN R
        BY <1>1
  <2> QED BY <1>2, <2>1, RunKeeps
<1>4. \A r \in DOMAIN R : R[r].parent = x => Kid(T, R2, g, 0, r)
  <2> SUFFICES ASSUME NEW r \in DOMAIN R, R[r].parent = x PROVE Kid(T, R2, g, 0, r)
      OBVIOUS
  <2>1. Kid(T, R, f, 0, r) /\ R[r].node \in DOMAIN N1 /\ R[r].node < f.at
        BY <1>1 DEF Kid
  <2>2. N[R[r].node] = N1[R[r].node]
        BY <2>1, <1>1
  <2>3. f.at <= g.at /\ g.at \in Nat
        BY <1>1
  <2> HIDE DEF R2
  <2>4. Kid(T, WithNodes(R, x, N), g, 0, r)
        BY <1>1, <1>2, <2>1, <2>2, <2>3, KidStays
  <2> QED BY <2>4 DEF R2
<1> HIDE DEF R2
<1>5. FrameIs(T, R2, x, g)
      BY <1>1, <1>3 DEF FrameIs
<1>6. Settling(T, R2, x, g)
  <2>1. CASE g.phase = "ending"
        BY <2>1 DEF Settling
  <2>2. CASE g.phase # "ending"
    <3>1. g.at \in {f.at, f.at + 1} /\ g.phase \in {"next", "work"} /\ f.at \in DOMAIN N
          BY <2>2
    <3>2. ASSUME NEW j \in DOMAIN N, j \notin Undone(T, R, x), j < g.at
          PROVE  N[j] \in Fine \cup Failed
      <4>1. CASE j < f.at
        <5>1. N[j] = N1[j] /\ j \in DOMAIN N1
              BY <4>1, <1>1
        <5> QED BY <5>1, <4>1, <3>2, <1>1 DEF Settling
      <4>2. CASE ~ (j < f.at)
        <5>1. j = f.at /\ g.at = f.at + 1
              BY <3>1, <3>2, <4>2, <1>1
        <5> QED BY <5>1, <3>2, <1>1 DEF Fine
      <4> QED BY <4>1, <4>2
    <3>3. ASSUME NEW j \in DOMAIN N, j \in Undone(T, R, x)
          PROVE  N[j] \in Fine \cup {"PENDING"}
                 \/ \E m \in DOMAIN N \ Undone(T, R, x) : m < g.at /\ N[m] \in Failed
      <4>1. N[j] = N1[j] /\ j \in DOMAIN N1
            BY <3>3, <2>2
      <4>2. CASE N1[j] \in Fine \cup {"PENDING"}
            BY <4>1, <4>2
      <4>3. CASE N1[j] \notin Fine \cup {"PENDING"}
        <5>1. PICK m \in DOMAIN N1 \ Undone(T, R, x) : m < f.at /\ N1[m] \in Failed
              BY <4>1, <4>3, <3>3, <1>1 DEF Settling
        <5>2. N[m] = N1[m] /\ m < g.at
              BY <5>1, <3>1, <1>1
        <5> QED BY <5>1, <5>2
      <4> QED BY <4>2, <4>3
    <3> QED BY <3>1, <3>2, <3>3, <1>3, ZenonT(30) DEF Settling
  <2> QED BY <2>1, <2>2
<1>7. g.phase \notin {"child", "created"}
      OBVIOUS
<1> QED BY <1>4, <1>5, <1>6, <1>7, MoveKeeps DEF R2

UndoOf(T, R, f) == T[R[f.run].workflow][f.at].undo

LEMMA UndoIsElse ==
    ASSUME NEW T, NEW R, NEW f, f.at \in DOMAIN T[R[f.run].workflow],
           NEW j \in Nat \ {0}, j \notin Undone(T, R, f.run)
    PROVE  j # UndoOf(T, R, f)
BY DEF Undone, UndoOf

\* A node that was dispatched goes on: to its skill, to its compensation and from there
LEMMA PhaseKeeps ==
    ASSUME NEW T, NEW R, NEW S, TreeOf(T, R, S), S # <<>>, NEW f, f = Last(S), NEW x, x = f.run,
           f.phase \notin {"next", "ending"}, NEW g \in Frames, g.run = x, g.at = f.at,
           NEW N \in [DOMAIN R[x].nodes -> NodeStates],
           \A j \in DOMAIN N : j # UndoOf(T, R, f) => N[j] = R[x].nodes[j],
           \/ f.phase = "work" /\ g.phase = "skill" /\ N = R[x].nodes
           \/ f.phase = "result" /\ g.phase = "undo" /\ N = R[x].nodes
           \/ f.phase = "undo_work" /\ g.phase = "undoing" /\ N = R[x].nodes
           \/ f.phase = "undo" /\ g.phase = "undo_work"
           \/ f.phase = "undoing" /\ g.phase = "undone" /\ (\A j \in DOMAIN N : j = UndoOf(T, R, f) => N[j] = "SUCCEEDED")
    PROVE  TreeOf(T, WithNodes(R, x, N), Append(Front(S), g))
<1> DEFINE R2 == WithNodes(R, x, N)
           N1 == R[x].nodes
<1>1. /\ x \in DOMAIN R /\ f \in Frames /\ f.at \in Nat
      /\ FrameIs(T, R, x, f) /\ Settling(T, R, x, f)
      /\ DOMAIN N1 = DOMAIN T[R[x].workflow]
      /\ DOMAIN N1 = 1 .. Len(T[R[x].workflow]) /\ Len(T[R[x].workflow]) \in Nat
      /\ \A r \in DOMAIN R : R[r].parent = x => Kid(T, R, f, 0, r) /\ R[r].node \in DOMAIN N1
      BY TopIs
<1>2. R \in Seq(TreeRow(T))
      BY DEF TreeOf
<1>3. /\ R2[x].nodes = N /\ R2[x].status = R[x].status /\ R2[x].workflow = R[x].workflow
      /\ Undone(T, R2, x) = Undone(T, R, x)
  <2>1. x \in DOMAIN R
        BY <1>1
  <2> QED BY <1>2, <2>1, RunKeeps
<1>4. /\ f.at \in DOMAIN N1 /\ f.at \notin Undone(T, R, x) /\ N1[f.at] = "RUNNING"
      /\ f.at \in 1 .. (Len(T[R[x].workflow]) + 1) /\ R[x].status = "RUNNING"
      BY <1>1 DEF FrameIs
<1>5. \A j \in DOMAIN N : j \notin Undone(T, R, x) => N[j] = N1[j]
  <2> SUFFICES ASSUME NEW j \in DOMAIN N, j \notin Undone(T, R, x) PROVE N[j] = N1[j]
      OBVIOUS
  <2>1. DOMAIN N = DOMAIN N1
        OBVIOUS
  <2>2. j \in Nat \ {0}
        BY <1>1, <2>1
  <2>3. f.at \in DOMAIN T[R[x].workflow]
        BY <1>1, <1>4
  <2>4. j # UndoOf(T, R, f)
        BY <2>2, <2>3, UndoIsElse
  <2> QED BY <2>4
<1>6. g.phase \in {"skill", "undo", "undo_work", "undoing", "undone"}
      OBVIOUS
<1>7. \A r \in DOMAIN R : R[r].parent = x => Kid(T, R2, g, 0, r)
  <2> SUFFICES ASSUME NEW r \in DOMAIN R, R[r].parent = x PROVE Kid(T, R2, g, 0, r)
      OBVIOUS
  <2>1. Kid(T, R, f, 0, r) /\ R[r].node \in DOMAIN N1
        BY <1>1
  <2>2. R[r].node \notin Undone(T, R, x)
        BY <2>1 DEF Kid
  <2>3. N[R[r].node] = N1[R[r].node]
        BY <1>5, <2>1, <2>2
  <2>4. \/ R[r].node < f.at /\ f.at <= g.at
        \/ /\ R[r].node = f.at /\ g.at = f.at
           /\ g.phase \in {"undo", "undo_work", "undoing", "undone"} /\ R[r].status \in EndedRun
    <3>1. CASE R[r].node < f.at
      <4>1. f.at <= g.at
            BY <1>1
      <4> QED BY <3>1, <4>1
    <3>2. CASE ~ (R[r].node < f.at)
      <4>1. R[r].node = f.at /\ f.phase \notin {"next", "work", "skill"}
            BY <3>2, <2>1 DEF Kid
      <4>2. f.phase \in {"result", "undo", "undo_work", "undoing"} /\ g.phase # "skill"
            BY <4>1
      <4>3. f.phase = "result" => f.status \in EndedRun
            BY <1>1 DEF Frames, Quiet
      <4>4. R[r].status \in EndedRun
            BY <2>1, <4>1, <4>2, <4>3 DEF Kid
      <4> QED BY <4>1, <4>2, <4>4, <1>6
    <3> QED BY <3>1, <3>2
  <2> HIDE DEF R2
  <2>5. Kid(T, WithNodes(R, x, N), g, 0, r)
        BY <1>1, <1>2, <2>1, <2>3, <2>4, KidStays
  <2> QED BY <2>5 DEF R2
<1> HIDE DEF R2
<1>8. FrameIs(T, R2, x, g)
  <2>1. N[f.at] = "RUNNING" /\ f.at \in DOMAIN N
        BY <1>4, <1>5
  <2> QED BY <2>1, <1>3, <1>4 DEF FrameIs
<1>9. Settling(T, R2, x, g)
  <2>1. \A j \in DOMAIN N : j \notin Undone(T, R, x) /\ j < g.at => N[j] \in Fine \cup Failed
        BY <1>1, <1>5 DEF Settling
  <2>2. ASSUME NEW j \in DOMAIN N, j \in Undone(T, R, x)
        PROVE  \/ N[j] \in Fine \cup {"PENDING"}
               \/ g.phase \in {"undo_work", "undoing"} /\ j = UndoOf(T, R, f)
               \/ \E m \in DOMAIN N \ Undone(T, R, x) : m < g.at /\ N[m] \in Failed
    <3>1. CASE N1[j] \in Fine \cup {"PENDING"} /\ j # UndoOf(T, R, f)
          BY <3>1
    <3>2. CASE j = UndoOf(T, R, f)
      <4>1. CASE g.phase \in {"undo_work", "undoing"}
            BY <4>1, <3>2
      <4>2. CASE g.phase = "undone"
            BY <4>2, <3>2, <2>2 DEF Fine
      <4>3. CASE g.phase \in {"skill", "undo"}
        <5>1. N = N1 /\ f.phase \in {"work", "result"}
              BY <4>3
        <5>2. \/ N1[j] \in Fine \cup {"PENDING"}
              \/ \E m \in DOMAIN N1 \ Undone(T, R, x) : m < f.at /\ N1[m] \in Failed
              BY <5>1, <2>2, <1>1 DEF Settling
        <5> QED BY <5>1, <5>2
      <4> QED BY <4>1, <4>2, <4>3, <1>6
    <3>3. CASE j # UndoOf(T, R, f) /\ N1[j] \notin Fine \cup {"PENDING"}
      <4>1. PICK m \in DOMAIN N1 \ Undone(T, R, x) : m < f.at /\ N1[m] \in Failed
            BY <3>3, <2>2, <1>1, ZenonT(30) DEF Settling, UndoOf
      <4>2. N[m] = N1[m]
            BY <4>1, <1>5
      <4> QED BY <4>1, <4>2
    <3> QED BY <3>1, <3>2, <3>3
  <2>3. g.phase # "ending"
        BY <1>6
  <2> QED BY <2>1, <2>2, <2>3, <1>3, ZenonT(30) DEF Settling, UndoOf
<1>10. g.phase \notin {"child", "created"}
      BY <1>6
<1> QED BY <1>7, <1>8, <1>9, <1>10, MoveKeeps DEF R2

\* The loop over the nodes is over
LEMMA LeaveKeeps ==
    ASSUME NEW T, NEW R, NEW S, TreeOf(T, R, S), S # <<>>, NEW f, f = Last(S), NEW x, x = f.run,
           f.phase = "next", f.at > Len(T[R[x].workflow]), NEW st \in EndedRun,
           NEW g, g = [run |-> x, at |-> f.at, phase |-> "ending", status |-> st],
           NEW N \in [DOMAIN R[x].nodes -> NodeStates],
           \A j \in DOMAIN N :
              N[j] = IF j \in Undone(T, R, x) /\ R[x].nodes[j] = "PENDING" THEN "SKIPPED" ELSE R[x].nodes[j],
           st = "SUCCEEDED" => \A j \in DOMAIN R[x].nodes : R[x].nodes[j] \notin Failed
    PROVE  TreeOf(T, WithNodes(R, x, N), Append(Front(S), g))
<1> DEFINE R2 == WithNodes(R, x, N)
           N1 == R[x].nodes
<1>1. /\ x \in DOMAIN R /\ f \in Frames /\ f.at \in Nat /\ x \in Nat
      /\ FrameIs(T, R, x, f) /\ Settling(T, R, x, f)
      /\ DOMAIN N1 = 1 .. Len(T[R[x].workflow]) /\ Len(T[R[x].workflow]) \in Nat
      /\ \A r \in DOMAIN R : R[r].parent = x => Kid(T, R, f, 0, r) /\ R[r].node \in DOMAIN N1
      BY TopIs
<1>2. R \in Seq(TreeRow(T))
      BY DEF TreeOf
<1>4. g \in Frames /\ g.run = x /\ g.phase = "ending" /\ g.at = f.at
      BY <1>1 DEF Frames
<1>5. /\ R2[x].nodes = N /\ R2[x].status = R[x].status /\ R2[x].workflow = R[x].workflow
      /\ Undone(T, R2, x) = Undone(T, R, x)
  <2>1. x \in DOMAIN R
        BY <1>1
  <2> QED BY <1>2, <2>1, RunKeeps
<1>6. \A r \in DOMAIN R : R[r].parent = x => Kid(T, R2, g, 0, r)
  <2> SUFFICES ASSUME NEW r \in DOMAIN R, R[r].parent = x PROVE Kid(T, R2, g, 0, r)
      OBVIOUS
  <2>1. Kid(T, R, f, 0, r) /\ R[r].node \in DOMAIN N1 /\ R[r].node < f.at /\ R[r].node \notin Undone(T, R, x)
        BY <1>1 DEF Kid
  <2>2. N[R[r].node] = N1[R[r].node]
        BY <2>1
  <2>3. f.at <= g.at /\ g.at \in Nat
        BY <1>1, <1>4
  <2> HIDE DEF R2
  <2>4. Kid(T, WithNodes(R, x, N), g, 0, r)
        BY <1>1, <1>2, <1>4, <2>1, <2>2, <2>3, KidStays
  <2> QED BY <2>4 DEF R2
<1> HIDE DEF R2
<1>7. FrameIs(T, R2, x, g)
      BY <1>1, <1>4, <1>5 DEF FrameIs
<1>8. Settling(T, R2, x, g)
  <2>1. ASSUME st = "SUCCEEDED", NEW j \in DOMAIN N PROVE N[j] \in Fine
    <3>1. j \in DOMAIN N1 /\ j < f.at /\ N1[j] \notin Failed
          BY <2>1, <1>1
    <3>2. CASE j \notin Undone(T, R, x)
      <4>1. N1[j] \in Fine \cup Failed
            BY <3>1, <3>2, <1>1 DEF Settling
      <4> QED BY <3>1, <3>2, <4>1
    <3>3. CASE j \in Undone(T, R, x)
      <4>1. \A m \in DOMAIN N1 : N1[m] \notin Failed
            BY <2>1
      <4>2. N1[j] \in Fine \cup {"PENDING"}
            BY <3>1, <3>3, <4>1, <1>1 DEF Settling
      <4> QED BY <3>1, <3>3, <4>2 DEF Fine
    <3> QED BY <3>2, <3>3
  <2> QED BY <2>1, <1>4, <1>5 DEF Settling
<1>9. TreeOf(T, WithNodes(R, x, N), Append(Front(S), g))
      BY <1>4, <1>6, <1>7, <1>8, MoveKeeps DEF R2
<1> QED BY <1>9

\* What TreeOf says of any execution
LEMMA FrameAt ==
    ASSUME NEW T, NEW R, NEW S, TreeOf(T, R, S), NEW i \in DOMAIN S
    PROVE  /\ S[i].run \in DOMAIN R /\ S[i] \in Frames /\ S[i].at \in Nat /\ S[i].run \in Nat \ {0}
           /\ FrameIs(T, R, S[i].run, S[i]) /\ Settling(T, R, S[i].run, S[i])
           /\ DOMAIN R[S[i].run].nodes = 1 .. Len(T[R[S[i].run].workflow]) /\ Len(T[R[S[i].run].workflow]) \in Nat
           /\ \A r \in DOMAIN R : R[r].parent = S[i].run =>
                Kid(T, R, S[i], Below(S, i), r) /\ R[r].node \in DOMAIN R[S[i].run].nodes
<1>1. S \in Seq(Frames) /\ R \in Seq(TreeRow(T)) /\ S[i] \in Frames
  <2>1. S \in Seq(Frames) /\ R \in Seq(TreeRow(T))
        BY DEF TreeOf
  <2> QED BY <2>1
<1>2. S[i].run \in DOMAIN R
      BY DEF TreeOf, Stacked
<1>3. FrameIs(T, R, S[i].run, S[i]) /\ Settling(T, R, S[i].run, S[i])
      BY DEF TreeOf
<1>4. R[S[i].run] \in TreeRow(T) /\ S[i].run \in Nat \ {0} /\ S[i].at \in Nat
      BY <1>1, <1>2 DEF Frames
<1>5. DOMAIN R[S[i].run].nodes = DOMAIN T[R[S[i].run].workflow]
      BY <1>2 DEF TreeOf, RowsAreHonest
<1>6. R[S[i].run].workflow \in DOMAIN T /\ T \in WorkflowTrees
      BY <1>4 DEF TreeRow, TreeOf
<1>7. DOMAIN T[R[S[i].run].workflow] = 1 .. Len(T[R[S[i].run].workflow]) /\ Len(T[R[S[i].run].workflow]) \in Nat
      BY <1>6, SubWorkflowAssumption
<1>8. ASSUME NEW r \in DOMAIN R, R[r].parent = S[i].run
      PROVE  Kid(T, R, S[i], Below(S, i), r) /\ R[r].node \in DOMAIN R[S[i].run].nodes
  <2>1. R[r].parent # 0
        BY <1>4, <1>8
  <2>2. Kid(T, R, S[i], Below(S, i), r)
        BY <1>8, <2>1 DEF TreeOf, Family
  <2>3. R[r].node \in DOMAIN R[R[r].parent].nodes
        BY <2>1 DEF TreeOf, RowsAreHonest
  <2> QED BY <2>2, <2>3, <1>8
<1> QED BY <1>1, <1>2, <1>3, <1>4, <1>5, <1>7, <1>8

LEMMA AtMostIs == \A m, n \in Nat : m < n + 1 /\ m # n => m < n
OBVIOUS

\* What becomes of the runs of the frames above k: those in a dispatch close
\* their running nodes, and no status changes
Abandoned(R, R2, S, k) ==
    \A j \in (k + 1) .. Len(S) :
       /\ R2[S[j].run].status = R[S[j].run].status
       /\ \A n \in DOMAIN R[S[j].run].nodes :
             R2[S[j].run].nodes[n] = IF InDispatch(S[j]) /\ R[S[j].run].nodes[n] = "RUNNING"
                                       THEN "CANCELLED" ELSE R[S[j].run].nodes[n]

\* An execution gives its node up, with what runs inside it
LEMMA AbandonKeeps ==
    ASSUME NEW T, NEW R, NEW S, TreeOf(T, R, S), NEW k \in DOMAIN S, NEW f, f = S[k],
           f.phase \notin {"next", "ending"}, NEW x, x = f.run, NEW st \in Failed, NEW S2, NEW g \in Frames,
           g.run = x,
           \/ g.phase = "next" /\ g.at = f.at + 1
           \/ g.phase = "ending" /\ g.at = f.at /\ g.status # "SUCCEEDED",
           IsCut(S, S2, k, g), NEW R2, Alters(T, R, R2, {S[j].run : j \in k .. Len(S)}),
           R2[x].status = R[x].status, R2[x].nodes[f.at] = st,
           \A n \in DOMAIN R[x].nodes : n # f.at =>
              \/ R2[x].nodes[n] = R[x].nodes[n]
              \/ f.phase \in {"undo_work", "undoing"} /\ n \in Undone(T, R, x),
           Abandoned(R, R2, S, k)
    PROVE  TreeOf(T, R2, S2)
<1> USE DEF Abandoned
<1> DEFINE N1 == R[x].nodes
           N == R2[x].nodes
<1>1. /\ x \in DOMAIN R /\ f \in Frames /\ f.at \in Nat
      /\ FrameIs(T, R, x, f) /\ Settling(T, R, x, f)
      /\ DOMAIN N1 = 1 .. Len(T[R[x].workflow]) /\ Len(T[R[x].workflow]) \in Nat
      /\ \A r \in DOMAIN R : R[r].parent = x => Kid(T, R, f, Below(S, k), r) /\ R[r].node \in DOMAIN N1
      BY FrameAt
<1>2. /\ S \in Seq(Frames) /\ Len(S) \in Nat /\ DOMAIN S = 1 .. Len(S) /\ k \in Nat
      BY StacksAre DEF TreeOf
<1>3. \A r \in DOMAIN R :
         /\ R2[r].workflow = R[r].workflow /\ R2[r].parent = R[r].parent /\ R2[r].node = R[r].node
         /\ DOMAIN R2[r].nodes = DOMAIN R[r].nodes
         /\ r \notin {S[j].run : j \in k .. Len(S)} => R2[r] = R[r]
      BY DEF Alters
<1>4. \A r \in DOMAIN R : R2[r].status = R[r].status
  <2> SUFFICES ASSUME NEW r \in DOMAIN R PROVE R2[r].status = R[r].status
      OBVIOUS
  <2>1. CASE r \notin {S[j].run : j \in k .. Len(S)}
        BY <2>1, <1>3
  <2>2. ASSUME NEW j \in k .. Len(S), r = S[j].run PROVE R2[r].status = R[r].status
    <3>1. j = k \/ j \in (k + 1) .. Len(S)
          BY <1>2
    <3> QED BY <3>1, <2>2
  <2> QED BY <2>1, <2>2
<1>5. \A r \in DOMAIN R : Undone(T, R2, r) = Undone(T, R, r)
  <2>1. \A r \in DOMAIN R : R2[r].workflow = R[r].workflow
        BY <1>3
  <2> SUFFICES ASSUME NEW r \in DOMAIN R PROVE Undone(T, R2, r) = Undone(T, R, r)
      OBVIOUS
  <2>2. T[R2[r].workflow] = T[R[r].workflow]
        BY <2>1
  <2> QED BY <2>2 DEF Undone
<1>6. /\ f.at \in DOMAIN N1 /\ f.at \notin Undone(T, R, x) /\ N1[f.at] = "RUNNING" /\ R[x].status = "RUNNING"
      /\ DOMAIN N = DOMAIN N1 /\ Undone(T, R2, x) = Undone(T, R, x) /\ R2[x].workflow = R[x].workflow
      BY <1>1, <1>3, <1>5 DEF FrameIs
<1>7. FrameIs(T, R2, x, g)
  <2>1. g.at \in 1 .. (Len(T[R[x].workflow]) + 1)
        BY <1>1, <1>6
  <2> QED BY <1>6, <2>1 DEF FrameIs
<1>8. Settling(T, R2, x, g)
  <2>1. CASE g.phase = "ending"
        BY <2>1 DEF Settling
  <2>2. CASE g.phase # "ending"
    <3>1. g.phase = "next" /\ g.at = f.at + 1
          BY <2>2
    <3>2. ASSUME NEW j \in DOMAIN N, j \notin Undone(T, R, x), j < f.at + 1
          PROVE  N[j] \in Fine \cup Failed
      <4>1. CASE j = f.at
            BY <4>1
      <4>2. CASE j # f.at
        <5>1. j < f.at /\ N[j] = N1[j] /\ j \in DOMAIN N1
          <6>1. j \in DOMAIN N1 /\ j \in Nat /\ f.at \in Nat
                BY <1>1, <1>6, <3>2
          <6>2. j < f.at
                BY <6>1, <3>2, <4>2, AtMostIs
          <6>3. N[j] = N1[j]
                BY <6>1, <3>2, <4>2, ZenonT(30)
          <6> QED BY <6>1, <6>2, <6>3
        <5> QED BY <5>1, <1>1, <3>2, ZenonT(30) DEF Settling
      <4> QED BY <4>1, <4>2
    <3>3. f.at < f.at + 1
          BY <1>1
    <3>4. \E m \in DOMAIN N \ Undone(T, R, x) : m < f.at + 1 /\ N[m] \in Failed
          BY <3>3, <1>6
    <3> QED BY <3>1, <3>2, <3>4, <1>6, SMTT(20) DEF Settling
  <2> QED BY <2>1, <2>2
<1>9. ASSUME NEW r \in DOMAIN R, R[r].parent = x PROVE Kid(T, R2, g, 0, r)
  <2>1. Kid(T, R, f, Below(S, k), r) /\ R[r].node \in DOMAIN N1
        BY <1>1, <1>9
  <2>2. R2[r].node = R[r].node /\ R2[r].parent = x /\ R2[r].status = R[r].status
        BY <1>3, <1>4, <1>9
  <2>3. R[r].node \notin Undone(T, R, x) /\ R[r].node <= f.at /\ R[r].node \in Nat
        BY <1>1, <2>1 DEF Kid
  <2>4. Earned(T, R2, r) /\ Closed(R2, r)
    <3>1. CASE R[r].node = f.at
          BY <3>1, <2>2 DEF Earned, Closed, Blocking, Failed
    <3>2. CASE R[r].node # f.at
      <4>1. R[r].node < f.at /\ N[R[r].node] = N1[R[r].node]
        <5>1. R[r].node < f.at
              BY <2>3, <3>2, <1>1
        <5>2. N[R[r].node] = N1[R[r].node]
              BY <2>1, <2>3, <3>2
        <5> QED BY <5>1, <5>2
      <4>2. Earned(T, R, r) /\ Closed(R, r)
            BY <2>1, <4>1, ZenonT(30) DEF Kid
      <4> QED BY <4>1, <4>2, <1>6, <2>2, <1>9, ZenonT(30) DEF Earned, Closed
    <3> QED BY <3>1, <3>2
  <2>5. R[r].node < g.at \/ (R[r].node = g.at /\ g.phase = "ending")
        BY <1>1, <2>3
  <2> QED BY <2>2, <2>3, <2>4, <2>5, <1>6 DEF Kid
<1>10. ASSUME NEW j \in (k + 1) .. Len(S)
       PROVE  /\ R2[S[j].run].status # "SUCCEEDED"
              /\ \A r \in DOMAIN R : R[r].parent = S[j].run => Earned(T, R2, r) /\ Closed(R2, r)
  <2>1. j \in DOMAIN S
        BY <1>2
  <2>2. /\ S[j].run \in DOMAIN R /\ FrameIs(T, R, S[j].run, S[j]) /\ S[j] \in Frames /\ S[j].at \in Nat
        /\ \A r \in DOMAIN R : R[r].parent = S[j].run =>
             Kid(T, R, S[j], Below(S, j), r) /\ R[r].node \in DOMAIN R[S[j].run].nodes
        BY <2>1, FrameAt
  <2>3. R2[S[j].run].status # "SUCCEEDED"
        BY <2>2, <1>4 DEF FrameIs
  <2>4. ASSUME NEW r \in DOMAIN R, R[r].parent = S[j].run
        PROVE  Earned(T, R2, r) /\ Closed(R2, r)
    <3>1. Kid(T, R, S[j], Below(S, j), r) /\ R[r].node \in DOMAIN R[S[j].run].nodes
          BY <2>2, <2>4
    <3>2. R2[r].node = R[r].node /\ R2[r].parent = S[j].run /\ R2[r].status = R[r].status
          BY <1>3, <1>4, <2>4
    <3>3. R2[S[j].run].nodes[R[r].node] = IF InDispatch(S[j]) /\ R[S[j].run].nodes[R[r].node] = "RUNNING"
                                             THEN "CANCELLED" ELSE R[S[j].run].nodes[R[r].node]
          BY <3>1
    <3>4. Earned(T, R, r) /\ R2[S[j].run].workflow = R[S[j].run].workflow
          BY <3>1, <2>2, <1>3 DEF Kid
    <3>5. Earned(T, R2, r)
          BY <2>4, <3>2, <3>3, <3>4, ZenonT(30) DEF Earned
    <3>6. Closed(R2, r)
      <4>1. CASE Closed(R, r)
            BY <4>1, <2>4, <3>2, <3>3, ZenonT(30) DEF Closed, Blocking
      <4>2. CASE ~ Closed(R, r)
        <5>1. R[r].node = S[j].at /\ S[j].phase \notin {"next", "work", "skill", "ending"}
              BY <4>2, <3>1 DEF Kid
        <5>2. InDispatch(S[j]) /\ R[S[j].run].nodes[R[r].node] = "RUNNING"
          <6>1. S[j].phase \in Quiet \cup {"ending", "result"}
                BY <2>2 DEF Frames
          <6> QED BY <5>1, <6>1, <2>2 DEF FrameIs, InDispatch, Quiet
        <5> QED BY <5>2, <3>2, <3>3 DEF Closed, Blocking
      <4> QED BY <4>1, <4>2
    <3> QED BY <3>5, <3>6
  <2> QED BY <2>3, <2>4
<1>11. g.phase \notin {"child", "created"} /\ g.run = S[k].run
       OBVIOUS
<1> QED BY <1>7, <1>8, <1>9, <1>10, <1>11, CutKeeps

LEMMA ParentIs ==
    ASSUME NEW T, NEW R, NEW S, TreeOf(T, R, S), Len(S) > 1
    PROVE  /\ Len(S) - 1 \in DOMAIN S /\ Len(S) \in DOMAIN S /\ S[Len(S) - 1].phase = "child"
           /\ S[Len(S) - 1].run < S[Len(S)].run
           /\ R[S[Len(S)].run].parent = S[Len(S) - 1].run /\ R[S[Len(S)].run].node = S[Len(S) - 1].at
<1>1. S \in Seq(Frames) /\ Len(S) \in Nat /\ DOMAIN S = 1 .. Len(S)
      BY StacksAre DEF TreeOf
<1>2. Len(S) - 1 \in DOMAIN S /\ Len(S) \in DOMAIN S /\ Len(S) - 1 < Len(S)
      BY <1>1
<1> QED BY <1>2 DEF TreeOf, Stacked

\* A run ends: its row gets the status st, its nodes become N
LEMMA RunEndKeeps ==
    ASSUME NEW T, NEW R, NEW S, TreeOf(T, R, S), S # <<>>, NEW f, f = Last(S), NEW x, x = f.run,
           f.phase = "ending", NEW st, st = f.status,
           NEW R2, Alters(T, R, R2, {x}), R2[x].status = st,
           \A n \in DOMAIN R[x].nodes :
              \/ R2[x].nodes[n] = R[x].nodes[n]
              \/ st # "SUCCEEDED" /\ R[x].nodes[n] \in Open /\ R2[x].nodes[n] = "CANCELLED",
           NEW S2,
           IF Len(S) = 1 THEN S2 = <<>>
           ELSE S2 = Append(Front(Front(S)), [run |-> S[Len(S) - 1].run, at |-> S[Len(S) - 1].at,
                                             phase |-> "result", status |-> st])
    PROVE  TreeOf(T, R2, S2)
<1>1. /\ S \in Seq(Frames) /\ Len(S) \in Nat /\ DOMAIN S = 1 .. Len(S) /\ Len(S) \in DOMAIN S /\ f = S[Len(S)]
      BY StacksAre DEF TreeOf
<1>2. /\ x \in DOMAIN R /\ x \in Nat \ {0} /\ f \in Frames /\ st \in EndedRun
      /\ FrameIs(T, R, x, f) /\ Settling(T, R, x, f)
  <2>1. /\ x \in DOMAIN R /\ x \in Nat \ {0} /\ f \in Frames
        /\ FrameIs(T, R, x, f) /\ Settling(T, R, x, f)
        BY <1>1, FrameAt
  <2>2. st \in EndedRun
        BY <2>1 DEF Frames, Quiet
  <2> QED BY <2>1, <2>2
<1>3. /\ DOMAIN R2 = DOMAIN R /\ R2 \in Seq(TreeRow(T))
      /\ \A r \in DOMAIN R :
           /\ R2[r].workflow = R[r].workflow /\ R2[r].parent = R[r].parent /\ R2[r].node = R[r].node
           /\ DOMAIN R2[r].nodes = DOMAIN R[r].nodes
           /\ r # x => R2[r] = R[r]
      BY DEF Alters
<1>4. R[x].parent # x
  <2>1. CASE Len(S) = 1
    <3>1. R[x].parent = 0
          BY <1>1, <2>1 DEF TreeOf, Stacked
    <3> QED BY <3>1, <1>2
  <2>2. CASE Len(S) > 1
    <3>1. S[Len(S) - 1].run < x /\ R[x].parent = S[Len(S) - 1].run
          BY <2>2, <1>1, ParentIs
    <3>2. S[Len(S) - 1].run \in Nat
          BY <2>2, <1>1, ParentIs, FrameAt
    <3> QED BY <3>1, <3>2, <1>2
  <2> QED BY <1>1, <2>1, <2>2
<1>5. ASSUME NEW r \in DOMAIN R, R[r].parent = x PROVE Earned(T, R2, r) /\ Closed(R2, r)
  <2>1. Kid(T, R, f, 0, r) /\ R[r].node \in DOMAIN R[x].nodes
        BY <1>5, TopIs
  <2>2. Earned(T, R, r) /\ Closed(R, r)
        BY <2>1 DEF Kid
  <2>3. R2[r] = R[r] /\ R2[x].workflow = R[x].workflow
        BY <1>2, <1>3, <1>4, <1>5
  <2>4. \/ R2[x].nodes[R[r].node] = R[x].nodes[R[r].node]
        \/ st # "SUCCEEDED" /\ R[x].nodes[R[r].node] \in Open /\ R2[x].nodes[R[r].node] = "CANCELLED"
        BY <2>1
  <2>5. Earned(T, R2, r)
        BY <1>5, <2>2, <2>3, <2>4 DEF Earned
  <2>6. Closed(R2, r)
        BY <1>5, <2>2, <2>3, <2>4 DEF Closed, Blocking
  <2> QED BY <2>5, <2>6
<1>6. R2[x].status = "SUCCEEDED" => \A n \in DOMAIN R2[x].nodes : R2[x].nodes[n] \in Fine
  <2> SUFFICES ASSUME st = "SUCCEEDED", NEW n \in DOMAIN R[x].nodes PROVE R2[x].nodes[n] \in Fine
      BY <1>2, <1>3
  <2>1. R2[x].nodes[n] = R[x].nodes[n]
        OBVIOUS
  <2> QED BY <2>1, <1>2 DEF Settling
<1>7. CASE Len(S) = 1
  <2>1. S2 = <<>> /\ S2 \in Seq(Frames) /\ DOMAIN S2 = {}
        BY <1>7
  <2>2. R[x].parent = 0
        BY <1>1, <1>7 DEF TreeOf, Stacked
  <2>3. RowsAreHonest(T, R2)
    <3> SUFFICES ASSUME NEW r \in DOMAIN R
                 PROVE  /\ DOMAIN R2[r].nodes = DOMAIN T[R2[r].workflow]
                        /\ R2[r].status = "SUCCEEDED" => \A j \in DOMAIN R2[r].nodes : R2[r].nodes[j] \in Fine
                        /\ R2[r].parent < r
                        /\ R2[r].parent # 0 => R2[r].parent \in DOMAIN R2 /\ R2[r].node \in DOMAIN R2[R2[r].parent].nodes
        BY <1>3 DEF RowsAreHonest
    <3>1. DOMAIN R2[r].nodes = DOMAIN T[R2[r].workflow]
          BY <1>3 DEF TreeOf, RowsAreHonest
    <3>4. R2[r].parent < r
          BY <1>3 DEF TreeOf, RowsAreHonest
    <3>2. R2[r].parent # 0 => R2[r].parent \in DOMAIN R2 /\ R2[r].node \in DOMAIN R2[R2[r].parent].nodes
          BY <1>3 DEF TreeOf, RowsAreHonest
    <3>3. R2[r].status = "SUCCEEDED" => \A j \in DOMAIN R2[r].nodes : R2[r].nodes[j] \in Fine
      <4>1. CASE r = x
            BY <4>1, <1>6
      <4>2. CASE r # x
            BY <4>2, <1>3 DEF TreeOf, RowsAreHonest
      <4> QED BY <4>1, <4>2
    <3> QED BY <3>1, <3>2, <3>3, <3>4
  <2>4. ASSUME NEW r \in DOMAIN R, R2[r].parent # 0 PROVE Earned(T, R2, r) /\ Closed(R2, r)
    <3>1. CASE R[r].parent = x
          BY <3>1, <1>5
    <3>2. CASE R[r].parent # x
      <4>1. r # x /\ R[r].parent # 0
            BY <2>2, <2>4, <1>3
      <4>2. \A i \in DOMAIN S : S[i].run = x
            BY <1>1, <1>7
      <4>3. Earned(T, R, r) /\ Closed(R, r)
            BY <3>2, <4>1, <4>2 DEF TreeOf, Family
      <4>4. R[r].parent \in DOMAIN R
            BY <4>1 DEF TreeOf, RowsAreHonest
      <4>5. R2[r] = R[r] /\ R2[R[r].parent] = R[R[r].parent]
            BY <1>3, <3>2, <4>1, <4>4
      <4> QED BY <4>3, <4>5 DEF Earned, Closed
    <3> QED BY <3>1, <3>2
  <2>5. Family(T, R2, S2)
        BY <2>1, <2>4, <1>3 DEF Family
  <2>6. Stacked(R2, S2) /\ \A i \in DOMAIN S2 : FrameIs(T, R2, S2[i].run, S2[i]) /\ Settling(T, R2, S2[i].run, S2[i])
        BY <2>1 DEF Stacked
  <2>7. T \in WorkflowTrees
        BY DEF TreeOf
  <2> QED BY <2>1, <2>3, <2>5, <2>6, <2>7, <1>3 DEF TreeOf
<1>8. CASE Len(S) # 1
  <2> DEFINE k == Len(S) - 1
             h == S[k]
             p == h.run
             g == [run |-> p, at |-> h.at, phase |-> "result", status |-> st]
  <2>1. Len(S) > 1
        BY <1>1, <1>8
  <2>2. /\ k \in DOMAIN S /\ h.phase = "child" /\ p < x /\ R[x].parent = p /\ R[x].node = h.at
        BY <1>1, <2>1, ParentIs
  <2>3. /\ p \in DOMAIN R /\ h \in Frames /\ h.at \in Nat /\ p \in Nat \ {0}
        /\ FrameIs(T, R, p, h) /\ Settling(T, R, p, h)
        /\ \A r \in DOMAIN R : R[r].parent = p => Kid(T, R, h, Below(S, k), r)
        BY <2>2, FrameAt
  <2>4. g \in Frames /\ g.run = p /\ g.at = h.at /\ g.phase = "result" /\ g.status = st
        BY <2>3, <1>2 DEF Frames
  <2>5. S2 = Append(Front(Front(S)), g)
        BY <1>8
  <2>6. Below(S, k) = x
        BY <1>1, <2>1 DEF Below
  <2> HIDE DEF g
  <2>7. IsCut(S, S2, k, g)
        BY <1>1, <2>1, <2>4, <2>5, CutParent
  <2>8. x \in {S[j].run : j \in k .. Len(S)}
        BY <1>1
  <2>9. Alters(T, R, R2, {S[j].run : j \in k .. Len(S)})
        BY <2>8 DEF Alters
  <2> HIDE DEF k, h, p
  <2>10. p # x /\ R2[p] = R[p]
        BY <1>2, <1>3, <2>2, <2>3
  <2>11. Undone(T, R2, p) = Undone(T, R, p)
        BY <2>10 DEF Undone
  <2>12. FrameIs(T, R2, p, g)
    <3>1. /\ R[p].status = "RUNNING" /\ h.at \in 1 .. (Len(T[R[p].workflow]) + 1)
          /\ h.at \in DOMAIN R[p].nodes /\ h.at \notin Undone(T, R, p) /\ R[p].nodes[h.at] = "RUNNING"
          BY <2>2, <2>3 DEF FrameIs
    <3> QED BY <3>1, <2>4, <2>10, <2>11 DEF FrameIs
  <2>13. Settling(T, R2, p, g)
        BY <2>2, <2>3, <2>4, <2>10, <2>11 DEF Settling
  <2>14. ASSUME NEW r \in DOMAIN R, R[r].parent = p PROVE Kid(T, R2, g, 0, r)
    <3>1. Kid(T, R, h, x, r)
          BY <2>3, <2>6, <2>14
    <3>2. R2[r].node = R[r].node /\ R2[r].parent = p
          BY <1>3, <2>14
    <3>3. R[r].node \notin Undone(T, R, p) /\ (R[r].node < h.at \/ R[r].node = h.at)
          BY <3>1 DEF Kid, p
    <3>4. CASE R[r].node = h.at
      <4>1. ~ (R[r].node < h.at)
            BY <3>4, <2>3
      <4>2. r = x /\ R2[r].status = st
            BY <3>1, <3>4, <2>2 DEF Kid
      <4>3. Earned(T, R2, r)
        <5>1. R2[p].nodes[R[r].node] = "RUNNING"
              BY <3>4, <2>2, <2>3, <2>10 DEF FrameIs
        <5> QED BY <5>1, <3>2 DEF Earned
      <4> QED BY <4>1, <4>2, <4>3, <3>2, <3>3, <3>4, <2>4, <2>11 DEF Kid
    <3>5. CASE R[r].node < h.at
      <4>1. R[r].node # h.at /\ r # x
        <5>1. R[r].node # h.at
              BY <3>5, <2>3
        <5> QED BY <5>1, <2>2
      <4>2. R2[r] = R[r]
            BY <4>1, <1>3
      <4>3. Earned(T, R, r) /\ Closed(R, r)
            BY <3>1, <3>5 DEF Kid
      <4>4. Earned(T, R2, r) /\ Closed(R2, r)
            BY <4>2, <4>3, <2>10, <2>14 DEF Earned, Closed
      <4> QED BY <4>1, <4>4, <3>2, <3>3, <3>5, <2>4, <2>11 DEF Kid
    <3> QED BY <3>3, <3>4, <3>5
  <2>15. \A j \in (k + 1) .. Len(S) : S[j].run = x
    <3>1. \A j \in (k + 1) .. Len(S) : j = Len(S)
      <4>1. k + 1 = Len(S)
            BY <1>1 DEF k
      <4> QED BY <4>1, <1>1
    <3> QED BY <3>1, <1>1
  <2>16. /\ g.run = S[k].run /\ g.phase \notin {"child", "created"}
         /\ FrameIs(T, R2, g.run, g) /\ Settling(T, R2, g.run, g)
         /\ \A r \in DOMAIN R : R[r].parent = g.run => Kid(T, R2, g, 0, r)
        BY <2>4, <2>12, <2>13, <2>14 DEF h, p
  <2>17. \A j \in (k + 1) .. Len(S) :
           /\ R2[S[j].run].status = "SUCCEEDED" =>
                 \A n \in DOMAIN R2[S[j].run].nodes : R2[S[j].run].nodes[n] \in Fine
           /\ \A r \in DOMAIN R : R[r].parent = S[j].run => Earned(T, R2, r) /\ Closed(R2, r)
        BY <1>5, <1>6, <2>15
  <2> QED BY <2>2, <2>7, <2>9, <2>16, <2>17, CutKeeps
<1> QED BY <1>7, <1>8

\* The row of a child is appended
LEMMA CreateKeeps ==
    ASSUME NEW T, NEW R, NEW S, TreeOf(T, R, S), S # <<>>, NEW f, f = Last(S), NEW x, x = f.run,
           f.phase = "work", NEW g, g = [run |-> x, at |-> f.at, phase |-> "created"],
           NEW q \in TreeRow(T), q.parent = x, q.node = f.at, q.status = "PENDING",
           DOMAIN q.nodes = DOMAIN T[q.workflow], \A n \in DOMAIN q.nodes : q.nodes[n] = "PENDING"
    PROVE  TreeOf(T, Append(R, q), Append(Front(S), g))
<1> DEFINE R2 == Append(R, q)
           S2 == Append(Front(S), g)
           c == Len(R) + 1
           k == Len(S)
<1>1. /\ S \in Seq(Frames) /\ R \in Seq(TreeRow(T)) /\ k \in Nat /\ k \in DOMAIN S /\ DOMAIN S = 1 .. k
      /\ f = S[k] /\ Len(R) \in Nat /\ DOMAIN R = 1 .. Len(R)
  <2>1. R \in Seq(TreeRow(T))
        BY DEF TreeOf
  <2> QED BY <2>1, StacksAre DEF TreeOf
<1>2. /\ x \in DOMAIN R /\ f \in Frames /\ f.at \in Nat /\ x \in Nat
      /\ FrameIs(T, R, x, f) /\ Settling(T, R, x, f)
      /\ \A r \in DOMAIN R : R[r].parent = x => Kid(T, R, f, 0, r) /\ R[r].node \in DOMAIN R[x].nodes
      BY TopIs
<1>3. /\ f.at \in 1 .. (Len(T[R[x].workflow]) + 1) /\ f.at \in DOMAIN R[x].nodes
      /\ f.at \notin Undone(T, R, x) /\ R[x].nodes[f.at] = "RUNNING" /\ R[x].status = "RUNNING"
      BY <1>2 DEF FrameIs
<1>4. g \in Frames /\ g.run = x /\ g.at = f.at /\ g.phase = "created"
      BY <1>2 DEF Frames, Quiet
<1>5. S2 \in Seq(Frames) /\ Len(S2) = k /\ DOMAIN S2 = 1 .. k /\ S2[k] = g /\ \A i \in 1 .. (k - 1) : S2[i] = S[i]
  <2>1. IsCut(S, S2, k, g)
        BY <1>1, <1>4, CutTop
  <2> QED BY <2>1 DEF IsCut
<1>6. /\ R2 \in Seq(TreeRow(T)) /\ Len(R2) = c /\ DOMAIN R2 = 1 .. c /\ R2[c] = q
      /\ \A r \in DOMAIN R : R2[r] = R[r] /\ r < c /\ r \in DOMAIN R2
      BY <1>1
<1>7. \A r \in DOMAIN R2 : r = c \/ r \in DOMAIN R
      BY <1>1, <1>6
<1>8. \A i \in DOMAIN S : S2[i].run = S[i].run /\ S2[i].at = S[i].at
  <2> SUFFICES ASSUME NEW i \in DOMAIN S PROVE S2[i].run = S[i].run /\ S2[i].at = S[i].at
      OBVIOUS
  <2>1. i = k \/ i \in 1 .. (k - 1)
        BY <1>1
  <2> QED BY <2>1, <1>1, <1>4, <1>5, ZenonT(30)
<1>9. \A i \in DOMAIN S : S[i].run \in DOMAIN R
      BY DEF TreeOf, Stacked
<1> HIDE DEF R2, S2, c, k
<1>10. Stacked(R2, S2)
  <2> SUFFICES ASSUME NEW i \in 1 .. k
               PROVE  /\ S2[i].run \in DOMAIN R2
                      /\ S2[i].phase = "child" <=> i < Len(S2)
                      /\ i = 1 => R2[S2[i].run].parent = 0
                      /\ i > 1 => R2[S2[i].run].parent = S2[i - 1].run /\ R2[S2[i].run].node = S2[i - 1].at
                      /\ \A j \in DOMAIN S2 : j < i => S2[j].run < S2[i].run
                      /\ S2[i].phase = "created" =>
                            /\ R2[Len(R2)].parent = S2[i].run /\ R2[Len(R2)].node = S2[i].at
                            /\ R2[Len(R2)].status = "PENDING"
                            /\ \A n \in DOMAIN R2[Len(R2)].nodes : R2[Len(R2)].nodes[n] = "PENDING"
      BY <1>5 DEF Stacked
  <2>1. i \in DOMAIN S /\ S2[i].run = S[i].run /\ S[i].run \in DOMAIN R /\ R2[S2[i].run] = R[S[i].run]
        BY <1>1, <1>6, <1>8, <1>9
  <2>2. i = 1 => R2[S2[i].run].parent = 0
    <3>1. i = 1 => R[S[i].run].parent = 0
          BY <2>1 DEF TreeOf, Stacked
    <3> QED BY <2>1, <3>1
  <2>3. i > 1 => R2[S2[i].run].parent = S2[i - 1].run /\ R2[S2[i].run].node = S2[i - 1].at
    <3>1. i > 1 => R[S[i].run].parent = S[i - 1].run /\ R[S[i].run].node = S[i - 1].at
          BY <2>1 DEF TreeOf, Stacked
    <3>2. i > 1 => i - 1 \in DOMAIN S
          BY <1>1
    <3> QED BY <2>1, <3>1, <3>2, <1>8
  <2>4. \A j \in DOMAIN S2 : j < i => S2[j].run < S2[i].run
    <3>1. \A j \in DOMAIN S : j < i => S[j].run < S[i].run
          BY <2>1 DEF TreeOf, Stacked
    <3> QED BY <2>1, <3>1, <1>1, <1>5, <1>8
  <2>5. CASE i = k
        BY <2>1, <2>2, <2>3, <2>4, <2>5, <1>4, <1>5, <1>6, <1>1
  <2>6. CASE i # k
    <3>1. i < k /\ S2[i] = S[i]
          BY <2>6, <1>1, <1>5
    <3>2. S[i].phase = "child" <=> i < k
          BY <2>1 DEF TreeOf, Stacked, k
    <3>3. (S2[i].phase = "child" <=> i < Len(S2)) /\ S2[i].phase # "created"
          BY <3>1, <3>2, <1>5
    <3> QED BY <3>3, <2>1, <2>2, <2>3, <2>4, <1>6
  <2> QED BY <2>5, <2>6
<1>11. RowsAreHonest(T, R2)
  <2> SUFFICES ASSUME NEW r \in DOMAIN R2
               PROVE  /\ DOMAIN R2[r].nodes = DOMAIN T[R2[r].workflow]
                      /\ R2[r].status = "SUCCEEDED" => \A j \in DOMAIN R2[r].nodes : R2[r].nodes[j] \in Fine
                      /\ R2[r].parent < r
                      /\ R2[r].parent # 0 => R2[r].parent \in DOMAIN R2 /\ R2[r].node \in DOMAIN R2[R2[r].parent].nodes
      BY DEF RowsAreHonest
  <2>1. CASE r = c
        BY <2>1, <1>2, <1>3, <1>6
  <2>2. CASE r \in DOMAIN R
    <3>1. R2[r] = R[r]
          BY <2>2, <1>6
    <3>2. /\ DOMAIN R[r].nodes = DOMAIN T[R[r].workflow]
          /\ R[r].status = "SUCCEEDED" => \A j \in DOMAIN R[r].nodes : R[r].nodes[j] \in Fine
          /\ R[r].parent < r
          /\ R[r].parent # 0 => R[r].parent \in DOMAIN R /\ R[r].node \in DOMAIN R[R[r].parent].nodes
          BY <2>2 DEF TreeOf, RowsAreHonest
    <3> QED BY <3>1, <3>2, <1>6
  <2> QED BY <2>1, <2>2, <1>7
<1>12. \A i \in DOMAIN S2 : FrameIs(T, R2, S2[i].run, S2[i]) /\ Settling(T, R2, S2[i].run, S2[i])
  <2> SUFFICES ASSUME NEW i \in 1 .. k
               PROVE  FrameIs(T, R2, S2[i].run, S2[i]) /\ Settling(T, R2, S2[i].run, S2[i])
      BY <1>5
  <2>1. i \in DOMAIN S /\ S2[i].run = S[i].run /\ S[i].run \in DOMAIN R /\ R2[S[i].run] = R[S[i].run]
        BY <1>1, <1>6, <1>8, <1>9
  <2>2. Undone(T, R2, S[i].run) = Undone(T, R, S[i].run)
        BY <2>1 DEF Undone
  <2>3. FrameIs(T, R, S[i].run, S[i]) /\ Settling(T, R, S[i].run, S[i])
        BY <2>1 DEF TreeOf
  <2>4. CASE i = k
    <3>1. R2[x] = R[x] /\ Undone(T, R2, x) = Undone(T, R, x) /\ S2[i] = g
          BY <2>1, <2>2, <2>4, <1>1, <1>5
    <3>2. FrameIs(T, R2, x, g)
          BY <3>1, <1>3, <1>4 DEF FrameIs
    <3>3. Settling(T, R2, x, g)
          BY <3>1, <1>2, <1>4 DEF Settling
    <3> QED BY <3>1, <3>2, <3>3, <1>4
  <2>5. CASE i # k
    <3>1. S2[i] = S[i]
          BY <2>5, <1>1, <1>5
    <3>2. FrameIs(T, R2, S[i].run, S[i])
          BY <2>1, <2>2, <2>3 DEF FrameIs
    <3>3. Settling(T, R2, S[i].run, S[i])
          BY <2>1, <2>2, <2>3 DEF Settling
    <3> QED BY <3>1, <3>2, <3>3
  <2> QED BY <2>4, <2>5
<1>13. Family(T, R2, S2)
  <2>1. ASSUME NEW r \in DOMAIN R, R[r].parent # 0, NEW i \in 1 .. k, S2[i].run = R[r].parent
        PROVE  Kid(T, R2, S2[i], Below(S2, i), r)
    <3>1. i \in DOMAIN S /\ S2[i].run = S[i].run /\ S[i].run \in DOMAIN R /\ R2[S[i].run] = R[S[i].run]
          BY <1>1, <1>6, <1>8, <1>9
    <3>2. Undone(T, R2, S[i].run) = Undone(T, R, S[i].run) /\ R2[r] = R[r]
          BY <3>1, <1>6 DEF Undone
    <3>3. Kid(T, R, S[i], Below(S, i), r)
          BY <2>1, <3>1 DEF TreeOf, Family
    <3>4. (Earned(T, R, r) => Earned(T, R2, r)) /\ (Closed(R, r) => Closed(R2, r))
          BY <2>1, <3>1, <3>2 DEF Earned, Closed
    <3>5. CASE i = k
      <4>1. S2[i] = g /\ S[i] = f
            BY <3>5, <1>1, <1>5
      <4>2. R[r].node < f.at /\ R[r].node \notin Undone(T, R, x) /\ Earned(T, R, r) /\ Closed(R, r)
            BY <3>3, <4>1 DEF Kid
      <4>3. R2[r].node < g.at /\ R2[r].node # g.at
            BY <4>2, <3>2, <1>2, <1>4
      <4> QED BY <4>1, <4>2, <4>3, <3>1, <3>2, <3>4, <1>4 DEF Kid
    <3>6. CASE i # k
      <4>1. S2[i] = S[i] /\ i < k
            BY <3>6, <1>1, <1>5
      <4>2. Below(S2, i) = Below(S, i)
        <5>1. i + 1 \in DOMAIN S
              BY <4>1, <1>1
        <5> QED BY <4>1, <5>1, <1>5, <1>8 DEF Below, k
      <4>3. S[i].phase # "created"
        <5>1. S[i].phase = "child"
              BY <3>1, <4>1 DEF TreeOf, Stacked, k
        <5> QED BY <5>1
      <4> QED BY <4>1, <4>2, <4>3, <3>1, <3>2, <3>3, <3>4 DEF Kid
    <3> QED BY <3>5, <3>6
  <2>2. ASSUME NEW r \in DOMAIN R, R[r].parent # 0, \A i \in 1 .. k : S2[i].run # R[r].parent
        PROVE  Earned(T, R2, r) /\ Closed(R2, r)
    <3>1. \A i \in DOMAIN S : S[i].run # R[r].parent
          BY <2>2, <1>1, <1>8
    <3>2. Earned(T, R, r) /\ Closed(R, r)
          BY <2>2, <3>1 DEF TreeOf, Family
    <3>3. R[r].parent \in DOMAIN R
          BY <2>2 DEF TreeOf, RowsAreHonest
    <3>4. R2[r] = R[r] /\ R2[R[r].parent] = R[R[r].parent]
          BY <3>3, <1>6
    <3> QED BY <3>2, <3>4 DEF Earned, Closed
  <2>3. ASSUME NEW i \in 1 .. k, S2[i].run = x PROVE Kid(T, R2, S2[i], Below(S2, i), c)
    <3>1. i = k
      <4> SUFFICES ASSUME i # k PROVE FALSE
          OBVIOUS
      <4>1. i < k /\ i \in DOMAIN S /\ S[i].run = x
            BY <2>3, <1>1, <1>8
      <4>2. S[i].run < S[k].run
            BY <4>1, <1>1 DEF TreeOf, Stacked
      <4> QED BY <4>1, <4>2, <1>1, <1>2
    <3>2. S2[i] = g /\ R2[x] = R[x] /\ Undone(T, R2, x) = Undone(T, R, x)
          BY <3>1, <1>2, <1>5, <1>6 DEF Undone
    <3>3. Earned(T, R2, c)
          BY <3>2, <1>3, <1>6 DEF Earned
    <3>4. R2[c].node = g.at /\ ~ (R2[c].node < g.at) /\ R2[c].node \notin Undone(T, R2, x)
          BY <3>2, <1>2, <1>3, <1>4, <1>6
    <3> QED BY <3>2, <3>3, <3>4, <1>4, <1>6 DEF Kid
  <2>4. \E i \in 1 .. k : S2[i].run = x
        BY <1>1, <1>4, <1>5
  <2>5. \A r \in DOMAIN R2 : r = c \/ (r \in DOMAIN R /\ R2[r] = R[r])
        BY <1>6, <1>7
  <2> QED BY <2>1, <2>2, <2>3, <2>4, <2>5, <1>5, <1>6 DEF Family
<1>14. TreeOf(T, R2, S2)
  <2>1. T \in WorkflowTrees
        BY DEF TreeOf
  <2> QED BY <2>1, <1>5, <1>6, <1>10, <1>11, <1>12, <1>13 DEF TreeOf
<1> QED BY <1>14 DEF R2, S2

\* The child that was created is executed
LEMMA CallKeeps ==
    ASSUME NEW T, NEW R, NEW S, TreeOf(T, R, S), S # <<>>, NEW f, f = Last(S), NEW x, x = f.run,
           f.phase = "created", NEW c, c = Len(R),
           NEW up, up = [run |-> x, at |-> f.at, phase |-> "child"],
           NEW g, g = [run |-> c, at |-> 1, phase |-> "next"]
    PROVE  TreeOf(T, [R EXCEPT ![c].status = "RUNNING"], Front(S) \o <<up, g>>)
<1> DEFINE R2 == [R EXCEPT ![c].status = "RUNNING"]
           S2 == Front(S) \o <<up, g>>
           k == Len(S)
<1>1. /\ S \in Seq(Frames) /\ R \in Seq(TreeRow(T)) /\ k \in Nat /\ k \in DOMAIN S /\ DOMAIN S = 1 .. k
      /\ f = S[k] /\ c \in Nat /\ DOMAIN R = 1 .. c
  <2>1. R \in Seq(TreeRow(T))
        BY DEF TreeOf
  <2> QED BY <2>1, StacksAre DEF TreeOf
<1>2. /\ x \in DOMAIN R /\ f \in Frames /\ f.at \in Nat /\ x \in Nat
      /\ FrameIs(T, R, x, f) /\ Settling(T, R, x, f)
      /\ \A r \in DOMAIN R : R[r].parent = x => Kid(T, R, f, 0, r) /\ R[r].node \in DOMAIN R[x].nodes
      BY TopIs
<1>3. /\ f.at \in 1 .. (Len(T[R[x].workflow]) + 1) /\ f.at \in DOMAIN R[x].nodes
      /\ f.at \notin Undone(T, R, x) /\ R[x].nodes[f.at] = "RUNNING" /\ R[x].status = "RUNNING"
      BY <1>2 DEF FrameIs
<1>4. c \in DOMAIN R
      BY <1>1, <1>2
<1>5. /\ R[c].parent = x /\ R[c].node = f.at /\ R[c].status = "PENDING"
      /\ \A n \in DOMAIN R[c].nodes : R[c].nodes[n] = "PENDING"
      BY <1>1 DEF TreeOf, Stacked
<1>6. x < c
      BY <1>4, <1>5 DEF TreeOf, RowsAreHonest
<1>7. up \in Frames /\ up.run = x /\ up.at = f.at /\ up.phase = "child"
      BY <1>2 DEF Frames, Quiet
<1>8. g \in Frames /\ g.run = c /\ g.at = 1 /\ g.phase = "next"
      BY <1>1 DEF Frames, Quiet
<1>9. /\ S2 \in Seq(Frames) /\ Len(S2) = k + 1 /\ DOMAIN S2 = 1 .. (k + 1)
      /\ S2[k] = up /\ S2[k + 1] = g /\ \A i \in 1 .. (k - 1) : S2[i] = S[i]
  <2>1. Front(S) = SubSeq(S, 1, k - 1) /\ k - 1 \in 0 .. k
        BY <1>1 DEF Front
  <2>2. Front(S) \in Seq(Frames) /\ Len(Front(S)) = k - 1 /\ \A i \in 1 .. (k - 1) : Front(S)[i] = S[i]
        BY <2>1, <1>1
  <2>3. <<up, g>> \in Seq(Frames) /\ Len(<<up, g>>) = 2 /\ <<up, g>>[1] = up /\ <<up, g>>[2] = g
        BY <1>7, <1>8
  <2> DEFINE lower == Front(S)
             pair == <<up, g>>
  <2>4. k - 1 \in Nat /\ k - 1 < k /\ k - 1 < k + 1 /\ k - (k - 1) = 1 /\ (k + 1) - (k - 1) = 2
        BY <1>1
  <2>5. k \in 1 .. (k + 1) /\ k + 1 \in 1 .. (k + 1) /\ (k - 1) + 2 = k + 1
        BY <1>1
  <2>6. \A i \in 1 .. (k - 1) : i \in 1 .. (k + 1) /\ i <= k - 1
        BY <1>1
  <2> HIDE DEF k, lower, pair
  <2>7. /\ lower \o pair \in Seq(Frames) /\ Len(lower \o pair) = Len(lower) + Len(pair)
        /\ DOMAIN (lower \o pair) = 1 .. (Len(lower) + Len(pair))
        /\ \A i \in 1 .. (Len(lower) + Len(pair)) :
              (lower \o pair)[i] = IF i <= Len(lower) THEN lower[i] ELSE pair[i - Len(lower)]
    <3>1. lower \in Seq(Frames) /\ pair \in Seq(Frames)
          BY <2>2, <2>3 DEF lower, pair
    <3> QED BY <3>1
  <2>8. Len(lower) + Len(pair) = k + 1 /\ Len(lower) = k - 1
        BY <2>2, <2>3, <2>5 DEF lower, pair
  <2>9. /\ lower \o pair \in Seq(Frames) /\ Len(lower \o pair) = k + 1
        /\ DOMAIN (lower \o pair) = 1 .. (k + 1)
        /\ \A i \in 1 .. (k + 1) : (lower \o pair)[i] = IF i <= k - 1 THEN lower[i] ELSE pair[i - (k - 1)]
        BY <2>7, <2>8
  <2>10. ~ (k <= k - 1) /\ ~ (k + 1 <= k - 1)
         BY <1>1
  <2>11. (lower \o pair)[k] = pair[1]
         BY <2>4, <2>5, <2>9, <2>10
  <2>12. (lower \o pair)[k + 1] = pair[2]
         BY <2>4, <2>5, <2>9, <2>10
  <2>13. \A i \in 1 .. (k - 1) : (lower \o pair)[i] = S[i]
         BY <2>2, <2>6, <2>9 DEF lower
  <2> QED BY <2>3, <2>9, <2>11, <2>12, <2>13 DEF lower, pair
<1>10. /\ R2 \in Seq(TreeRow(T)) /\ Len(R2) = Len(R) /\ DOMAIN R2 = DOMAIN R
       /\ R2[c].status = "RUNNING" /\ R2[c].workflow = R[c].workflow /\ R2[c].parent = x
       /\ R2[c].node = f.at /\ R2[c].nodes = R[c].nodes
       /\ \A r \in DOMAIN R : r # c => R2[r] = R[r]
  <2>1. R \in [1 .. c -> TreeRow(T)]
        BY <1>1
  <2>2. R[c] \in TreeRow(T)
        BY <2>1, <1>4, <1>1
  <2>3. [R[c] EXCEPT !.status = "RUNNING"] \in TreeRow(T)
        BY <2>2 DEF TreeRow, Open
  <2>4. R2 = [R EXCEPT ![c] = [R[c] EXCEPT !.status = "RUNNING"]]
        OBVIOUS
  <2>5. R2 \in [1 .. c -> TreeRow(T)]
        BY <2>1, <2>3, <2>4
  <2>6. R2 \in Seq(TreeRow(T)) /\ Len(R2) = Len(R) /\ DOMAIN R2 = DOMAIN R
        BY <2>5, <1>1
  <2>7. R2[c] = [R[c] EXCEPT !.status = "RUNNING"] /\ \A r \in DOMAIN R : r # c => R2[r] = R[r]
        BY <2>1, <1>1, <1>4
  <2> HIDE DEF R2
  <2>8. /\ R2[c].status = "RUNNING" /\ R2[c].workflow = R[c].workflow /\ R2[c].parent = R[c].parent
        /\ R2[c].node = R[c].node /\ R2[c].nodes = R[c].nodes
        BY <2>2, <2>7 DEF TreeRow
  <2> QED BY <2>6, <2>7, <2>8, <1>5
<1>11. \A i \in DOMAIN S : S2[i].run = S[i].run /\ S2[i].at = S[i].at /\ S2[i].phase = "child" /\ i < k + 1
  <2> SUFFICES ASSUME NEW i \in DOMAIN S
               PROVE  S2[i].run = S[i].run /\ S2[i].at = S[i].at /\ S2[i].phase = "child" /\ i < k + 1
      OBVIOUS
  <2>1. CASE i = k
        BY <2>1, <1>1, <1>7, <1>9
  <2>2. CASE i # k
    <3>1. i \in 1 .. (k - 1) /\ i < k
          BY <2>2, <1>1
    <3>2. S[i].phase = "child"
          BY <3>1 DEF TreeOf, Stacked
    <3>3. S2[i] = S[i]
          BY <3>1, <1>9
    <3>4. i < k + 1
          BY <3>1, <1>1
    <3> QED BY <3>2, <3>3, <3>4
  <2> QED BY <2>1, <2>2
<1>12. \A i \in DOMAIN S : S[i].run \in DOMAIN R /\ S[i].run < c /\ R2[S[i].run] = R[S[i].run]
  <2> SUFFICES ASSUME NEW i \in DOMAIN S
               PROVE  S[i].run \in DOMAIN R /\ S[i].run < c /\ R2[S[i].run] = R[S[i].run]
      OBVIOUS
  <2>1. S[i].run \in DOMAIN R
        BY DEF TreeOf, Stacked
  <2>2. i < k => S[i].run < x
        BY <1>1 DEF TreeOf, Stacked
  <2>3. S[i].run < c
        BY <2>1, <2>2, <1>1, <1>2, <1>6
  <2> QED BY <2>1, <2>3, <1>1, <1>10
<1>13. \A r \in DOMAIN R : R2[r].parent = R[r].parent /\ R2[r].node = R[r].node /\ R2[r].nodes = R[r].nodes
                           /\ R2[r].workflow = R[r].workflow
       BY <1>5, <1>10
<1>14. \A i \in DOMAIN S2 : i = k + 1 \/ i \in DOMAIN S
       BY <1>1, <1>9
<1>15. k + 1 \notin DOMAIN S /\ k + 1 > 1 /\ (k + 1) - 1 = k
       BY <1>1
<1>21. \A i \in DOMAIN S : i # k => i \in 1 .. (k - 1) /\ i < k /\ i + 1 \in DOMAIN S
  <2>1. k \in Nat /\ DOMAIN S = 1 .. k
        BY <1>1
  <2> HIDE DEF k
  <2>2. \A i \in 1 .. k : i # k => i \in 1 .. (k - 1) /\ i < k /\ i + 1 \in 1 .. k
        BY <2>1
  <2> QED BY <2>1, <2>2
<1> HIDE DEF R2, S2, k
<1>16. Stacked(R2, S2)
  <2> SUFFICES ASSUME NEW i \in DOMAIN S2
               PROVE  /\ S2[i].run \in DOMAIN R2
                      /\ S2[i].phase = "child" <=> i < Len(S2)
                      /\ i = 1 => R2[S2[i].run].parent = 0
                      /\ i > 1 => R2[S2[i].run].parent = S2[i - 1].run /\ R2[S2[i].run].node = S2[i - 1].at
                      /\ \A j \in DOMAIN S2 : j < i => S2[j].run < S2[i].run
                      /\ S2[i].phase # "created"
      BY DEF Stacked
  <2>1. CASE i = k + 1
    <3>1. \A j \in DOMAIN S2 : j < i => S2[j].run < S2[i].run
      <4> SUFFICES ASSUME NEW j \in DOMAIN S2, j < i PROVE S2[j].run < c
          BY <2>1, <1>8, <1>9
      <4>1. j \in DOMAIN S
            BY <2>1, <1>1, <1>9
      <4> QED BY <4>1, <1>11, <1>12
    <3>2. S2[i] = g /\ S2[i - 1] = up /\ ~ (i < Len(S2)) /\ i # 1
          BY <2>1, <1>1, <1>9, <1>15
    <3> QED BY <3>1, <3>2, <1>4, <1>7, <1>8, <1>10
  <2>2. CASE i \in DOMAIN S
    <3>1. /\ S2[i].run = S[i].run /\ S2[i].phase = "child" /\ S[i].run \in DOMAIN R
          /\ R2[S[i].run] = R[S[i].run] /\ i < Len(S2)
          BY <2>2, <1>9, <1>11, <1>12
    <3>2. i = 1 => R[S[i].run].parent = 0
          BY <2>2 DEF TreeOf, Stacked
    <3>3. i > 1 => R[S[i].run].parent = S[i - 1].run /\ R[S[i].run].node = S[i - 1].at
          BY <2>2 DEF TreeOf, Stacked
    <3>4. i > 1 => i - 1 \in DOMAIN S
          BY <2>2, <1>1
    <3>5. i > 1 => R2[S2[i].run].parent = S2[i - 1].run /\ R2[S2[i].run].node = S2[i - 1].at
          BY <3>1, <3>3, <3>4, <1>11
    <3>6. \A j \in DOMAIN S2 : j < i => S2[j].run < S2[i].run
      <4> SUFFICES ASSUME NEW j \in DOMAIN S2, j < i PROVE S2[j].run < S2[i].run
          OBVIOUS
      <4>1. j \in DOMAIN S
            BY <2>2, <1>1, <1>9
      <4>2. S[j].run < S[i].run
            BY <2>2, <4>1 DEF TreeOf, Stacked
      <4> QED BY <4>1, <4>2, <3>1, <1>11
    <3> QED BY <3>1, <3>2, <3>5, <3>6, <1>10
  <2> QED BY <2>1, <2>2, <1>14
<1>17. RowsAreHonest(T, R2)
  <2> SUFFICES ASSUME NEW r \in DOMAIN R
               PROVE  /\ DOMAIN R2[r].nodes = DOMAIN T[R2[r].workflow]
                      /\ R2[r].status = "SUCCEEDED" => \A j \in DOMAIN R2[r].nodes : R2[r].nodes[j] \in Fine
                      /\ R2[r].parent < r
                      /\ R2[r].parent # 0 => R2[r].parent \in DOMAIN R2 /\ R2[r].node \in DOMAIN R2[R2[r].parent].nodes
      BY <1>10 DEF RowsAreHonest
  <2>1. /\ DOMAIN R[r].nodes = DOMAIN T[R[r].workflow]
        /\ R[r].status = "SUCCEEDED" => \A j \in DOMAIN R[r].nodes : R[r].nodes[j] \in Fine
        /\ R[r].parent < r
        /\ R[r].parent # 0 => R[r].parent \in DOMAIN R /\ R[r].node \in DOMAIN R[R[r].parent].nodes
        BY DEF TreeOf, RowsAreHonest
  <2>2. R2[r].status = "SUCCEEDED" => \A j \in DOMAIN R2[r].nodes : R2[r].nodes[j] \in Fine
    <3>1. CASE r = c
          BY <3>1, <1>10
    <3>2. CASE r # c
          BY <3>2, <2>1, <1>10
    <3> QED BY <3>1, <3>2
  <2>3. DOMAIN R2[r].nodes = DOMAIN T[R2[r].workflow] /\ R2[r].parent < r
        BY <2>1, <1>13
  <2>4. R2[r].parent # 0 => R2[r].parent \in DOMAIN R2 /\ R2[r].node \in DOMAIN R2[R2[r].parent].nodes
        BY <2>1, <1>10, <1>13
  <2> QED BY <2>2, <2>3, <2>4
<1>18. \A i \in DOMAIN S2 : FrameIs(T, R2, S2[i].run, S2[i]) /\ Settling(T, R2, S2[i].run, S2[i])
  <2> SUFFICES ASSUME NEW i \in DOMAIN S2
               PROVE  FrameIs(T, R2, S2[i].run, S2[i]) /\ Settling(T, R2, S2[i].run, S2[i])
      OBVIOUS
  <2>1. CASE i = k + 1
    <3>1. S2[i] = g /\ \A n \in DOMAIN R2[c].nodes : R2[c].nodes[n] = "PENDING"
          BY <2>1, <1>5, <1>9, <1>10
    <3>2. 1 \in 1 .. (Len(T[R2[c].workflow]) + 1)
      <4>1. R2[c] \in TreeRow(T) /\ T \in WorkflowTrees
            BY <1>1, <1>4, <1>10 DEF TreeOf
      <4>2. Len(T[R2[c].workflow]) \in Nat
            BY <4>1, SubWorkflowAssumption DEF TreeRow
      <4> QED BY <4>2
    <3>3. FrameIs(T, R2, c, g)
          BY <3>2, <1>8, <1>10 DEF FrameIs
    <3>4. Settling(T, R2, c, g)
      <4>1. DOMAIN R2[c].nodes = DOMAIN T[R2[c].workflow]
            BY <1>4, <1>10, <1>17 DEF RowsAreHonest
      <4>2. R2[c] \in TreeRow(T) /\ T \in WorkflowTrees
            BY <1>1, <1>4, <1>10 DEF TreeOf
      <4>3. DOMAIN R2[c].nodes = 1 .. Len(T[R2[c].workflow]) /\ Len(T[R2[c].workflow]) \in Nat
            BY <4>1, <4>2, SubWorkflowAssumption DEF TreeRow
      <4>4. \A j \in DOMAIN R2[c].nodes : ~ (j < 1)
            BY <4>3
      <4> QED BY <3>1, <4>4, <1>8 DEF Settling
    <3> QED BY <3>1, <3>3, <3>4, <1>8
  <2>2. CASE i \in DOMAIN S
    <3>1. S2[i].run = S[i].run /\ S[i].run \in DOMAIN R /\ R2[S[i].run] = R[S[i].run]
          BY <2>2, <1>11, <1>12
    <3>2. Undone(T, R2, S[i].run) = Undone(T, R, S[i].run)
          BY <3>1 DEF Undone
    <3>3. FrameIs(T, R, S[i].run, S[i]) /\ Settling(T, R, S[i].run, S[i])
          BY <2>2 DEF TreeOf
    <3>4. CASE i = k
      <4>1. R2[x] = R[x] /\ Undone(T, R2, x) = Undone(T, R, x) /\ S2[i] = up
            BY <3>1, <3>2, <3>4, <1>1, <1>9
      <4>2. FrameIs(T, R2, x, up)
            BY <4>1, <1>3, <1>7 DEF FrameIs
      <4>3. Settling(T, R2, x, up)
            BY <4>1, <1>2, <1>7 DEF Settling
      <4> QED BY <4>1, <4>2, <4>3, <1>7
    <3>5. CASE i # k
      <4>1. S2[i] = S[i]
            BY <2>2, <3>5, <1>1, <1>9
      <4>2. FrameIs(T, R2, S[i].run, S[i])
            BY <3>1, <3>2, <3>3 DEF FrameIs
      <4>3. Settling(T, R2, S[i].run, S[i])
            BY <3>1, <3>2, <3>3, ZenonT(30) DEF Settling
      <4> QED BY <4>1, <4>2, <4>3
    <3> QED BY <3>4, <3>5
  <2> QED BY <2>1, <2>2, <1>14
<1>19. Family(T, R2, S2)
  <2> SUFFICES ASSUME NEW r \in DOMAIN R, R[r].parent # 0
               PROVE  /\ \A i \in DOMAIN S2 : S2[i].run = R[r].parent => Kid(T, R2, S2[i], Below(S2, i), r)
                      /\ (\A i \in DOMAIN S2 : S2[i].run # R[r].parent) => Earned(T, R2, r) /\ Closed(R2, r)
      BY <1>10, <1>13 DEF Family
  <2>1. R[r].parent \in DOMAIN R /\ R[r].parent < r /\ R[r].parent # c
    <3>1. R[r].parent \in DOMAIN R /\ R[r].parent < r
          BY DEF TreeOf, RowsAreHonest
    <3> QED BY <3>1, <1>1
  <2>2. R2[R[r].parent] = R[R[r].parent]
        BY <2>1, <1>10
  <2>3. r # c => (Earned(T, R, r) => Earned(T, R2, r)) /\ (Closed(R, r) => Closed(R2, r))
        BY <2>2, <1>10, ZenonT(30) DEF Earned, Closed
  <2>4. Earned(T, R2, c)
        BY <1>2, <1>3, <1>6, <1>10, <1>1 DEF Earned
  <2>5. ASSUME NEW i \in DOMAIN S2, S2[i].run = R[r].parent PROVE Kid(T, R2, S2[i], Below(S2, i), r)
    <3>1. i \in DOMAIN S
          BY <2>1, <2>5, <1>8, <1>9, <1>14
    <3>2. S2[i].run = S[i].run /\ R2[S[i].run] = R[S[i].run] /\ Undone(T, R2, S[i].run) = Undone(T, R, S[i].run)
      <4>1. S2[i].run = S[i].run /\ R2[S[i].run] = R[S[i].run]
            BY <3>1, <1>11, <1>12
      <4> QED BY <4>1 DEF Undone
    <3>3. Kid(T, R, S[i], Below(S, i), r)
          BY <2>5, <3>1, <3>2 DEF TreeOf, Family
    <3>4. CASE i = k
      <4>1. S2[i] = up /\ S[i] = f /\ Below(S2, i) = c
        <5>1. k < Len(S2) /\ S2[k + 1].run = c
              BY <1>1, <1>8, <1>9
        <5> QED BY <3>4, <5>1, <1>1, <1>9 DEF Below
      <4>2. R[r].node = f.at => r = c
            BY <3>3, <4>1 DEF Kid
      <4>3. r = c \/ (R[r].node < f.at /\ R[r].node # f.at /\ Earned(T, R2, r) /\ Closed(R2, r))
            BY <2>3, <3>3, <4>1, <4>2 DEF Kid
      <4>4. CASE r = c
        <5>1. R2[c].node = up.at /\ ~ (R2[c].node < up.at) /\ R2[c].node \notin Undone(T, R2, x)
              BY <3>2, <4>1, <1>2, <1>3, <1>7, <1>10
        <5> QED BY <4>1, <4>4, <5>1, <2>4, <1>7 DEF Kid
      <4>5. CASE r # c
        <5>1. R2[r].node < up.at /\ R2[r].node # up.at /\ Earned(T, R2, r) /\ Closed(R2, r)
              BY <4>3, <4>5, <1>7, <1>13
        <5>2. R2[r].node \notin Undone(T, R2, up.run)
              BY <3>2, <3>3, <4>1, <1>7, <1>13 DEF Kid
        <5>3. Kid(T, R2, up, c, r)
              BY <5>1, <5>2 DEF Kid
        <5> QED BY <4>1, <5>3
      <4> QED BY <4>4, <4>5
    <3>5. CASE i # k
      <4>1. S2[i] = S[i] /\ i < k /\ i + 1 \in DOMAIN S
        <5>1. i \in 1 .. (k - 1) /\ i < k /\ i + 1 \in DOMAIN S
              BY <3>1, <3>5, <1>21
        <5> QED BY <5>1, <1>9
      <4>2. Below(S2, i) = Below(S, i)
        <5>1. i < Len(S2) /\ i < Len(S) /\ S2[i + 1].run = S[i + 1].run
              BY <4>1, <1>1, <1>9, <1>11 DEF k
        <5> QED BY <5>1 DEF Below
      <4>3. S[i].phase = "child" /\ S[i].run # x
        <5>1. S[i].phase = "child"
              BY <3>1, <4>1 DEF TreeOf, Stacked, k
        <5>2. S[i].run < x
              BY <3>1, <4>1, <1>1 DEF TreeOf, Stacked
        <5> QED BY <5>1, <5>2, <1>2
      <4>4. R2[r] = R[r] /\ r # c
            BY <2>5, <3>2, <4>3, <1>5, <1>10
      <4> QED BY <4>1, <4>2, <4>3, <4>4, <2>3, <3>2, <3>3 DEF Kid
    <3> QED BY <3>4, <3>5
  <2>6. ASSUME \A i \in DOMAIN S2 : S2[i].run # R[r].parent PROVE Earned(T, R2, r) /\ Closed(R2, r)
    <3>1. \A i \in DOMAIN S : S[i].run # R[r].parent
      <4>1. \A i \in DOMAIN S : i \in DOMAIN S2
            BY <1>1, <1>9
      <4> QED BY <4>1, <2>6, <1>11
    <3>2. r # c
          BY <3>1, <1>1, <1>5
    <3>3. Earned(T, R, r) /\ Closed(R, r)
          BY <3>1 DEF TreeOf, Family
    <3> QED BY <3>2, <3>3, <2>3
  <2> QED BY <2>5, <2>6
<1>20. TreeOf(T, R2, S2)
  <2>1. T \in WorkflowTrees
        BY DEF TreeOf
  <2> QED BY <2>1, <1>9, <1>10, <1>16, <1>17, <1>18, <1>19 DEF TreeOf
<1> QED BY <1>20 DEF R2, S2

\* execute() of the root raises after its last node
LEMMA RootRaisesKeeps ==
    ASSUME NEW T, NEW R, NEW S, TreeOf(T, R, S), Len(S) = 1, NEW f, f = Last(S), f.phase = "ending"
    PROVE  TreeOf(T, R, <<>>)
<1>1. /\ S \in Seq(Frames) /\ DOMAIN S = {1} /\ f = S[1] /\ S # <<>>
  <2>1. S \in Seq(Frames)
        BY DEF TreeOf
  <2>2. DOMAIN S = 1 .. Len(S) /\ 1 .. 1 = {1}
        BY <2>1, StacksAre
  <2>3. S # <<>>
        BY <2>1, SMTT(30)
  <2> QED BY <2>1, <2>2, <2>3 DEF Last
<1>2. ASSUME NEW r \in DOMAIN R, R[r].parent # 0 PROVE Earned(T, R, r) /\ Closed(R, r)
  <2>1. CASE R[r].parent = f.run
    <3>1. Kid(T, R, f, 0, r)
          BY <1>1, <2>1, TopIs
    <3> QED BY <3>1 DEF Kid
  <2>2. CASE R[r].parent # f.run
    <3>1. \A i \in DOMAIN S : S[i].run # R[r].parent
          BY <1>1, <2>2
    <3> QED BY <1>2, <3>1 DEF TreeOf, Family
  <2> QED BY <2>1, <2>2
<1> DEFINE S2 == <<>>
<1>3. S2 \in Seq(Frames) /\ DOMAIN S2 = {}
      OBVIOUS
<1> HIDE DEF S2
<1>4. Stacked(R, S2) /\ \A i \in DOMAIN S2 : FrameIs(T, R, S2[i].run, S2[i]) /\ Settling(T, R, S2[i].run, S2[i])
      BY <1>3 DEF Stacked
<1>5. Family(T, R, S2)
      BY <1>2, <1>3 DEF Family
<1>6. TreeOf(T, R, S2)
      BY <1>3, <1>4, <1>5 DEF TreeOf
<1> QED BY <1>6 DEF S2

\* What the executions above frame k leave of their nodes when it gives up
StoppedAbove(R, U, S, k) ==
    \A j \in (k + 1) .. Len(S) : \A n \in DOMAIN R[S[j].run].nodes :
        U[S[j].run].nodes[n] = IF InDispatch(S[j]) /\ R[S[j].run].nodes[n] = "RUNNING"
                                 THEN "CANCELLED" ELSE R[S[j].run].nodes[n]

LEMMA UnwoundIs ==
    ASSUME NEW T, NEW R, NEW S, TreeOf(T, R, S), NEW k \in DOMAIN S,
           NEW U, U = Unwound(R, SubSeq(S, k + 1, Len(S)))
    PROVE  /\ Alters(T, R, U, {S[j].run : j \in (k + 1) .. Len(S)}) /\ U[S[k].run] = R[S[k].run]
           /\ \A r \in DOMAIN R : U[r].status = R[r].status
           /\ StoppedAbove(R, U, S, k)
<1> DEFINE above == SubSeq(S, k + 1, Len(S))
           Z == {S[j].run : j \in (k + 1) .. Len(S)}
           Hit(r) == \E j \in (k + 1) .. Len(S) : S[j].run = r /\ InDispatch(S[j])
           Down(r) == [i \in DOMAIN R[r].nodes |-> IF R[r].nodes[i] = "RUNNING" THEN "CANCELLED" ELSE R[r].nodes[i]]
<1>1. /\ S \in Seq(Frames) /\ R \in Seq(TreeRow(T)) /\ DOMAIN S = 1 .. Len(S) /\ Len(S) \in Nat /\ k \in Nat
      /\ Len(R) \in Nat /\ DOMAIN R = 1 .. Len(R) /\ R \in [1 .. Len(R) -> TreeRow(T)] /\ k \in 1 .. Len(S)
  <2>1. S \in Seq(Frames) /\ R \in Seq(TreeRow(T))
        BY DEF TreeOf
  <2> QED BY <2>1
<1>2. DOMAIN above = 1 .. (Len(S) - k) /\ \A i \in 1 .. (Len(S) - k) : above[i] = S[k + i]
  <2>1. k + 1 \in 1 .. (Len(S) + 1) /\ Len(S) \in 0 .. Len(S)
        BY <1>1
  <2>2. Len(above) = Len(S) - k /\ above \in Seq(Frames)
        BY <1>1, <2>1
  <2>3. ASSUME NEW i \in 1 .. (Len(S) - k) PROVE above[i] = S[k + i]
    <3>1. (k + 1) + i - 1 = k + i /\ i \in 1 .. ((Len(S) - (k + 1)) + 1)
          BY <1>1
    <3>2. above[i] = S[(k + 1) + i - 1]
          BY <1>1, <2>1, <3>1, SMTT(20)
    <3> QED BY <3>1, <3>2
  <2>4. \A i \in 1 .. (Len(S) - k) : above[i] = S[k + i]
        BY <2>3
  <2> QED BY <2>2, <2>4
<1>3. \A r : Hit(r) <=> \E i \in DOMAIN above : above[i].run = r /\ InDispatch(above[i])
  <2> HIDE DEF above
  <2>1. ASSUME NEW r, NEW j \in (k + 1) .. Len(S), S[j].run = r /\ InDispatch(S[j])
        PROVE  \E i \in DOMAIN above : above[i].run = r /\ InDispatch(above[i])
    <3>1. j - k \in 1 .. (Len(S) - k) /\ k + (j - k) = j
          BY <1>1
    <3>2. above[j - k] = S[j] /\ j - k \in DOMAIN above
          BY <1>2, <3>1
    <3> QED BY <2>1, <3>2
  <2>2. ASSUME NEW r, NEW i \in DOMAIN above, above[i].run = r /\ InDispatch(above[i])
        PROVE  Hit(r)
    <3>1. k + i \in (k + 1) .. Len(S) /\ above[i] = S[k + i]
          BY <1>1, <1>2
    <3> QED BY <2>2, <3>1
  <2> QED BY <2>1, <2>2
<1> HIDE DEF above, Hit
<1>4. /\ DOMAIN U = DOMAIN R
      /\ \A r \in DOMAIN R : U[r] = IF Hit(r) THEN [R[r] EXCEPT !.nodes = Down(r)] ELSE R[r]
  <2>1. U = [r \in DOMAIN R |-> IF Hit(r) THEN [R[r] EXCEPT !.nodes = Down(r)] ELSE R[r]]
        BY <1>3 DEF Unwound, above
  <2> HIDE DEF Down
  <2> QED BY <2>1
<1>5. ASSUME NEW r \in DOMAIN R
      PROVE  /\ [R[r] EXCEPT !.nodes = Down(r)] \in TreeRow(T) /\ Down(r) \in [DOMAIN R[r].nodes -> NodeStates]
             /\ [R[r] EXCEPT !.nodes = Down(r)].nodes = Down(r) /\ R[r] \in TreeRow(T)
             /\ [R[r] EXCEPT !.nodes = Down(r)].workflow = R[r].workflow
             /\ [R[r] EXCEPT !.nodes = Down(r)].parent = R[r].parent
             /\ [R[r] EXCEPT !.nodes = Down(r)].node = R[r].node
             /\ [R[r] EXCEPT !.nodes = Down(r)].status = R[r].status
  <2>1. R[r] \in TreeRow(T)
        BY <1>1
  <2>2. PICK D \in SUBSET Nat : R[r].nodes \in [D -> NodeStates]
        BY <2>1 DEF TreeRow
  <2>3. Down(r) \in [D -> NodeStates] /\ DOMAIN R[r].nodes = D
        BY <2>2 DEF NodeStates
  <2> HIDE DEF Down
  <2>4. Down(r) \in UNION {[E -> NodeStates] : E \in SUBSET Nat}
        BY <2>3
  <2> QED BY <2>1, <2>3, <2>4 DEF TreeRow
<1> HIDE DEF Down
<1>6. /\ U \in Seq(TreeRow(T)) /\ Len(U) = Len(R)
  <2>1. \A r \in DOMAIN R : U[r] \in TreeRow(T)
        BY <1>4, <1>5
  <2>2. U = [r \in 1 .. Len(R) |-> U[r]]
    <3>1. U = [r \in DOMAIN R |-> IF \E i \in DOMAIN above : above[i].run = r /\ InDispatch(above[i])
                                   THEN [R[r] EXCEPT !.nodes = [i \in DOMAIN @ |-> IF @[i] = "RUNNING" THEN "CANCELLED" ELSE @[i]]]
                                   ELSE R[r]]
          BY DEF Unwound, above
    <3> QED BY <3>1, <1>1, <1>4
  <2>3. U \in [1 .. Len(R) -> TreeRow(T)]
        BY <2>1, <2>2, <1>1
  <2> QED BY <2>3, <1>1
<1>7. \A r : r \notin Z => ~ Hit(r)
      BY DEF Hit
<1>8. Alters(T, R, U, Z)
  <2>1. \A r \in DOMAIN R :
         /\ U[r].workflow = R[r].workflow /\ U[r].parent = R[r].parent /\ U[r].node = R[r].node
         /\ DOMAIN U[r].nodes = DOMAIN R[r].nodes /\ (r \notin Z => U[r] = R[r])
    <3> SUFFICES ASSUME NEW r \in DOMAIN R
                 PROVE  /\ U[r].workflow = R[r].workflow /\ U[r].parent = R[r].parent /\ U[r].node = R[r].node
                        /\ DOMAIN U[r].nodes = DOMAIN R[r].nodes /\ (r \notin Z => U[r] = R[r])
        OBVIOUS
    <3>1. CASE Hit(r)
          BY <3>1, <1>4, <1>5, <1>7, ZenonT(30)
    <3>2. CASE ~ Hit(r)
          BY <3>2, <1>4
    <3> QED BY <3>1, <3>2
  <2> QED BY <2>1, <1>4, <1>6 DEF Alters
<1>9. \A i, j \in DOMAIN S : i < j => S[i].run # S[j].run
  <2> SUFFICES ASSUME NEW i \in DOMAIN S, NEW j \in DOMAIN S, i < j PROVE S[i].run # S[j].run
      OBVIOUS
  <2>1. S[i].run < S[j].run
        BY DEF TreeOf, Stacked
  <2>2. S[i].run \in Nat
        BY FrameAt
  <2> QED BY <2>1, <2>2
<1>10. U[S[k].run] = R[S[k].run]
  <2>1. \A j \in (k + 1) .. Len(S) : j \in DOMAIN S /\ k < j
        BY <1>1
  <2>2. S[k].run \notin Z
        BY <2>1, <1>9
  <2>3. S[k].run \in DOMAIN R
        BY FrameAt
  <2> QED BY <2>2, <2>3, <1>4, <1>7
<1>11. \A r \in DOMAIN R : U[r].status = R[r].status
       BY <1>4, <1>5
<1>12. ASSUME NEW j \in (k + 1) .. Len(S), NEW n \in DOMAIN R[S[j].run].nodes
       PROVE  U[S[j].run].nodes[n] = IF InDispatch(S[j]) /\ R[S[j].run].nodes[n] = "RUNNING"
                                       THEN "CANCELLED" ELSE R[S[j].run].nodes[n]
  <2>1. j \in DOMAIN S
        BY <1>1
  <2>2. S[j].run \in DOMAIN R
        BY <2>1, FrameAt
  <2>3. Hit(S[j].run) <=> InDispatch(S[j])
    <3>1. ASSUME NEW i \in (k + 1) .. Len(S), S[i].run = S[j].run PROVE i = j
      <4>1. i \in DOMAIN S
            BY <1>1
      <4>2. i < j \/ j < i \/ i = j
            BY <4>1, <2>1, <1>1
      <4> QED BY <4>1, <4>2, <2>1, <3>1, <1>9
    <3> QED BY <3>1 DEF Hit
  <2>4. Down(S[j].run)[n] = IF R[S[j].run].nodes[n] = "RUNNING" THEN "CANCELLED" ELSE R[S[j].run].nodes[n]
        BY DEF Down
  <2> QED BY <2>2, <2>3, <2>4, <1>4, <1>5
<1> QED BY <1>8, <1>10, <1>11, <1>12 DEF StoppedAbove

LEMMA SetAtIs ==
    ASSUME NEW D, NEW N \in [D -> NodeStates], NEW i, NEW st \in NodeStates
    PROVE  /\ SetAt(N, i, st) \in [D -> NodeStates] /\ (i \in D => SetAt(N, i, st)[i] = st)
           /\ \A j \in D : j # i => SetAt(N, i, st)[j] = N[j]
BY DEF SetAt

LEMMA SetTwiceIs ==
    ASSUME NEW T, NEW R \in Seq(TreeRow(T)), NEW x \in DOMAIN R, NEW i, NEW a, NEW j, NEW b
    PROVE  SetNode(SetNode(R, x, i, a), x, j, b) = WithNodes(R, x, SetAt(SetAt(R[x].nodes, i, a), j, b))
<1> DEFINE N == SetAt(R[x].nodes, i, a)
           R1 == WithNodes(R, x, N)
<1>1. R \in [1 .. Len(R) -> TreeRow(T)] /\ DOMAIN R = 1 .. Len(R) /\ R[x] \in TreeRow(T)
      OBVIOUS
<1>2. SetNode(R, x, i, a) = R1
      BY SetNodeIs DEF SetAt
<1> HIDE DEF N
<1>3. R1 = [R EXCEPT ![x] = [R[x] EXCEPT !.nodes = N]]
      BY DEF WithNodes
<1>4. R1[x] = [R[x] EXCEPT !.nodes = N]
      BY <1>1, <1>3
<1>5. R1[x].nodes = N
      BY <1>1, <1>4 DEF TreeRow
<1>6. SetNode(R1, x, j, b) = WithNodes(R1, x, SetAt(N, j, b))
      BY <1>5, SetNodeIs DEF SetAt
<1> DEFINE N2 == SetAt(N, j, b)
<1> HIDE DEF N2
<1>7. WithNodes(R1, x, N2) = [R1 EXCEPT ![x] = [R1[x] EXCEPT !.nodes = N2]]
      BY DEF WithNodes
<1>8. [R1[x] EXCEPT !.nodes = N2] = [R[x] EXCEPT !.nodes = N2]
      BY <1>1, <1>4 DEF TreeRow
<1>9. WithNodes(R1, x, N2) = [R EXCEPT ![x] = [R[x] EXCEPT !.nodes = N2]]
      BY <1>1, <1>3, <1>7, <1>8
<1>10. WithNodes(R1, x, N2) = WithNodes(R, x, N2)
      BY <1>9 DEF WithNodes
<1> QED BY <1>2, <1>6, <1>10 DEF N, N2

LEMMA AltersTwice ==
    ASSUME NEW T, NEW R, NEW U, NEW R2, NEW Z, NEW x, Alters(T, R, U, Z), Alters(T, U, R2, {x})
    PROVE  Alters(T, R, R2, Z \cup {x})
BY DEF Alters

LEMMA GiveUpKeeps ==
    ASSUME NEW T, NEW R, NEW S, TreeOf(T, R, S), NEW k \in DOMAIN S, NEW f, f = S[k], InDispatch(f),
           NEW x, x = f.run, NEW g \in Frames, g.run = x,
           \/ g.phase = "next" /\ g.at = f.at + 1
           \/ g.phase = "ending" /\ g.at = f.at /\ g.status # "SUCCEEDED",
           NEW U, U = Unwound(R, SubSeq(S, k + 1, Len(S))),
           NEW N \in [DOMAIN R[x].nodes -> NodeStates], N[f.at] = "TIMED_OUT",
           \A n \in DOMAIN N : n # f.at =>
              \/ N[n] = R[x].nodes[n]
              \/ f.phase \in {"undo_work", "undoing"} /\ n \in Undone(T, R, x)
    PROVE  TreeOf(T, WithNodes(U, x, N), Append(SubSeq(S, 1, k - 1), g))
<1> DEFINE R2 == WithNodes(U, x, N)
           S2 == Append(SubSeq(S, 1, k - 1), g)
           Z == {S[j].run : j \in (k + 1) .. Len(S)}
<1>1. /\ S \in Seq(Frames) /\ R \in Seq(TreeRow(T)) /\ k \in 1 .. Len(S) /\ Len(S) \in Nat /\ k \in Nat
      /\ DOMAIN S = 1 .. Len(S)
  <2>1. S \in Seq(Frames) /\ R \in Seq(TreeRow(T))
        BY DEF TreeOf
  <2> QED BY <2>1
<1>2. x \in DOMAIN R /\ x \in Nat \ {0}
      BY FrameAt
<1>3. /\ Alters(T, R, U, Z) /\ U[x] = R[x] /\ \A r \in DOMAIN R : U[r].status = R[r].status
      /\ \A j \in (k + 1) .. Len(S) : \A n \in DOMAIN R[S[j].run].nodes :
            U[S[j].run].nodes[n] = IF InDispatch(S[j]) /\ R[S[j].run].nodes[n] = "RUNNING"
                                     THEN "CANCELLED" ELSE R[S[j].run].nodes[n]
  <2> HIDE DEF R2, S2
  <2>1. Alters(T, R, U, Z)
        BY UnwoundIs
  <2>2. U[S[k].run] = R[S[k].run]
        BY <2>1, UnwoundIs
  <2>3. \A r \in DOMAIN R : U[r].status = R[r].status
        BY <2>1, UnwoundIs
  <2>4. \A j \in (k + 1) .. Len(S) : \A n \in DOMAIN R[S[j].run].nodes :
            U[S[j].run].nodes[n] = IF InDispatch(S[j]) /\ R[S[j].run].nodes[n] = "RUNNING"
                                     THEN "CANCELLED" ELSE R[S[j].run].nodes[n]
    <3>1. StoppedAbove(R, U, S, k)
          BY <2>1, UnwoundIs
    <3> QED BY <3>1 DEF StoppedAbove
  <2> QED BY <2>1, <2>2, <2>3, <2>4
<1>4. U \in Seq(TreeRow(T)) /\ DOMAIN U = DOMAIN R
      BY <1>3 DEF Alters
<1> HIDE DEF Z
<1>5. Alters(T, U, R2, {x}) /\ R2[x].status = U[x].status /\ R2[x].nodes = N
  <2>1. x \in DOMAIN U /\ N \in [DOMAIN U[x].nodes -> NodeStates]
        BY <1>2, <1>3, <1>4
  <2>2. Alters(T, U, WithNodes(U, x, N), {x})
        BY <1>4, <2>1, WithNodesIs
  <2>3. WithNodes(U, x, N)[x].status = U[x].status /\ WithNodes(U, x, N)[x].nodes = N
        BY <1>4, <2>1, <2>2, WithNodesIs
  <2> QED BY <2>2, <2>3
<1> HIDE DEF R2
<1>6. Alters(T, R, R2, Z \cup {x})
      BY <1>3, <1>5, AltersTwice
<1>7. Z \cup {x} = {S[j].run : j \in k .. Len(S)}
  <2>1. \A j : j \in k .. Len(S) <=> j = k \/ j \in (k + 1) .. Len(S)
        BY <1>1
  <2> QED BY <2>1 DEF Z
<1>8. IsCut(S, S2, k, g)
      BY <1>1, CutAt
<1> HIDE DEF S2
<1>9. \A j \in (k + 1) .. Len(S) : S[j].run # x /\ S[j].run \in DOMAIN R
  <2> SUFFICES ASSUME NEW j \in (k + 1) .. Len(S) PROVE S[j].run # x /\ S[j].run \in DOMAIN R
      OBVIOUS
  <2>1. j \in DOMAIN S /\ k < j
        BY <1>1
  <2>2. S[k].run < S[j].run /\ S[j].run \in DOMAIN R
        BY <2>1 DEF TreeOf, Stacked
  <2> QED BY <2>2, <1>2
<1>10. \A j \in (k + 1) .. Len(S) :
          /\ R2[S[j].run].status = R[S[j].run].status
          /\ \A n \in DOMAIN R[S[j].run].nodes :
                R2[S[j].run].nodes[n] = IF InDispatch(S[j]) /\ R[S[j].run].nodes[n] = "RUNNING"
                                          THEN "CANCELLED" ELSE R[S[j].run].nodes[n]
  <2> SUFFICES ASSUME NEW j \in (k + 1) .. Len(S)
               PROVE  /\ R2[S[j].run].status = R[S[j].run].status
                      /\ \A n \in DOMAIN R[S[j].run].nodes :
                            R2[S[j].run].nodes[n] = IF InDispatch(S[j]) /\ R[S[j].run].nodes[n] = "RUNNING"
                                                      THEN "CANCELLED" ELSE R[S[j].run].nodes[n]
      OBVIOUS
  <2>1. R2[S[j].run] = U[S[j].run] /\ S[j].run \in DOMAIN R
        BY <1>4, <1>5, <1>9 DEF Alters
  <2> QED BY <2>1, <1>3
<1>11. f.phase \notin {"next", "ending"}
       BY DEF InDispatch
<1>12. /\ Alters(T, R, R2, {S[j].run : j \in k .. Len(S)})
       /\ R2[x].status = R[x].status /\ R2[x].nodes[f.at] = "TIMED_OUT" /\ "TIMED_OUT" \in Failed
       /\ \A n \in DOMAIN R[x].nodes : n # f.at =>
             \/ R2[x].nodes[n] = R[x].nodes[n]
             \/ f.phase \in {"undo_work", "undoing"} /\ n \in Undone(T, R, x)
       BY <1>3, <1>5, <1>6, <1>7 DEF Failed
<1>13. TreeOf(T, R2, S2)
  <2>1. k \in DOMAIN S /\ f = S[k] /\ x = f.run /\ "TIMED_OUT" \in Failed /\ g \in Frames /\ g.run = x
        BY <1>12
  <2>2. \/ g.phase = "next" /\ g.at = f.at + 1
        \/ g.phase = "ending" /\ g.at = f.at /\ g.status # "SUCCEEDED"
        OBVIOUS
  <2>3. /\ R2[x].status = R[x].status /\ R2[x].nodes[f.at] = "TIMED_OUT"
        /\ \A n \in DOMAIN R[x].nodes : n # f.at =>
              \/ R2[x].nodes[n] = R[x].nodes[n]
              \/ f.phase \in {"undo_work", "undoing"} /\ n \in Undone(T, R, x)
        BY <1>12
  <2>4. Alters(T, R, R2, {S[j].run : j \in k .. Len(S)})
        BY <1>12
  <2>5. Abandoned(R, R2, S, k)
        BY <1>10 DEF Abandoned
  <2> QED BY <1>8, <1>11, <2>1, <2>2, <2>3, <2>4, <2>5, AbandonKeeps, SMTT(40)
<1> QED BY <1>13 DEF R2, S2

LEMMA ParentKeeps ==
    ASSUME NEW T, NEW R, NEW S, TreeOf(T, R, S), Len(S) > 1, Last(S).phase = "ending",
           NEW h, h = S[Len(S) - 1], NEW g, g = [run |-> h.run, at |-> h.at + 1, phase |-> "next"]
    PROVE  TreeOf(T, SetNode(R, h.run, h.at, "FAILED"), Append(Front(Front(S)), g))
<1> DEFINE k == Len(S) - 1
           x == h.run
           N == SetAt(R[x].nodes, h.at, "FAILED")
           R2 == WithNodes(R, x, N)
           S2 == Append(Front(Front(S)), g)
<1>1. /\ S \in Seq(Frames) /\ R \in Seq(TreeRow(T)) /\ Len(S) \in Nat /\ DOMAIN S = 1 .. Len(S)
      /\ Last(S) = S[Len(S)] /\ k \in DOMAIN S /\ k + 1 = Len(S) /\ Len(S) \in DOMAIN S
  <2>1. S \in Seq(Frames) /\ R \in Seq(TreeRow(T))
        BY DEF TreeOf
  <2>2. Len(S) \in Nat /\ DOMAIN S = 1 .. Len(S)
        BY <2>1
  <2> QED BY <2>1, <2>2 DEF Last
<1>2. h.phase = "child" /\ S[k].run < S[Len(S)].run
      BY ParentIs
<1>3. x \in DOMAIN R /\ h \in Frames /\ h.at \in Nat /\ x \in Nat \ {0} /\ FrameIs(T, R, x, h)
      BY <1>1, FrameAt
<1>4. h.at \in DOMAIN R[x].nodes
      BY <1>2, <1>3 DEF FrameIs
<1>5. R[x].nodes \in [DOMAIN R[x].nodes -> NodeStates]
  <2>1. R[x] \in TreeRow(T)
        BY <1>1, <1>3
  <2> QED BY <2>1 DEF TreeRow
<1>6. N \in [DOMAIN R[x].nodes -> NodeStates] /\ N[h.at] = "FAILED" /\ \A n \in DOMAIN R[x].nodes : n # h.at => N[n] = R[x].nodes[n]
  <2>1. "FAILED" \in NodeStates
        BY DEF NodeStates
  <2> HIDE DEF x
  <2>2. N \in [DOMAIN R[x].nodes -> NodeStates]
        BY <1>5, <2>1, SetAtIs
  <2>3. N[h.at] = "FAILED" /\ \A n \in DOMAIN R[x].nodes : n # h.at => N[n] = R[x].nodes[n]
        BY <1>4, <1>5, <2>1, SetAtIs
  <2> QED BY <2>2, <2>3
<1>7. SetNode(R, h.run, h.at, "FAILED") = R2
      BY SetNodeIs DEF SetAt
<1>8. g \in Frames /\ g.run = x /\ g.phase = "next" /\ g.at = h.at + 1
      BY <1>3 DEF Frames, Quiet
<1> HIDE DEF N
<1>9. Alters(T, R, R2, {x}) /\ R2[x].status = R[x].status /\ R2[x].nodes = N
  <2> HIDE DEF x
  <2>1. Alters(T, R, WithNodes(R, x, N), {x})
        BY <1>1, <1>3, <1>6, WithNodesIs
  <2>2. WithNodes(R, x, N)[x].status = R[x].status /\ WithNodes(R, x, N)[x].nodes = N
        BY <1>1, <1>3, <1>6, <2>1, WithNodesIs
  <2> QED BY <2>1, <2>2
<1>10. IsCut(S, S2, k, g)
      BY <1>1, <1>8, CutParent
<1> HIDE DEF R2, S2
<1>11. x \in {S[j].run : j \in k .. Len(S)}
  <2>1. k \in k .. Len(S)
        BY <1>1
  <2> QED BY <2>1
<1>12. Alters(T, R, R2, {S[j].run : j \in k .. Len(S)})
  <2> HIDE DEF k, x
  <2> QED BY <1>9, <1>11 DEF Alters
<1>13. ASSUME NEW j \in (k + 1) .. Len(S)
       PROVE  /\ R2[S[j].run].status = R[S[j].run].status
              /\ \A n \in DOMAIN R[S[j].run].nodes :
                    R2[S[j].run].nodes[n] = IF InDispatch(S[j]) /\ R[S[j].run].nodes[n] = "RUNNING"
                                              THEN "CANCELLED" ELSE R[S[j].run].nodes[n]
  <2>1. j = Len(S)
        BY <1>1
  <2>2. ~ InDispatch(S[j])
        BY <2>1, <1>1 DEF InDispatch
  <2>3. S[j].run # x /\ S[j].run \in DOMAIN R
    <3>1. S[Len(S)].run \in DOMAIN R /\ S[Len(S)].run \in Nat
          BY <1>1, FrameAt
    <3> QED BY <2>1, <3>1, <1>2, <1>3
  <2>4. R2[S[j].run] = R[S[j].run]
        BY <2>3, <1>9 DEF Alters
  <2> QED BY <2>2, <2>4
<1>14. /\ R2[x].nodes[h.at] = "FAILED" /\ "FAILED" \in Failed /\ h.phase \notin {"next", "ending"}
       /\ \A n \in DOMAIN R[x].nodes : n # h.at => R2[x].nodes[n] = R[x].nodes[n]
       BY <1>2, <1>6, <1>9, ZenonT(30) DEF Failed
<1>15. TreeOf(T, R2, S2)
  <2>1. k \in DOMAIN S /\ h = S[k]
        BY <1>1
  <2>2. /\ g.run = x /\ g.phase = "next" /\ g.at = h.at + 1 /\ g \in Frames /\ h.phase \notin {"next", "ending"}
        /\ R2[x].nodes[h.at] = "FAILED" /\ "FAILED" \in Failed /\ R2[x].status = R[x].status
        /\ \A n \in DOMAIN R[x].nodes : n # h.at => R2[x].nodes[n] = R[x].nodes[n]
        BY <1>8, <1>9, <1>14
  <2>3. Abandoned(R, R2, S, k)
        BY <1>13 DEF Abandoned
  <2> HIDE DEF k
  <2> QED BY <2>1, <2>2, <2>3, <1>10, <1>12, AbandonKeeps, SMTT(40)
<1> QED BY <1>7, <1>15 DEF S2

-----------------------------------------------------------------------------
(* The actions, one by one.                                                *)
treeMarks == <<tree, treeCancelled, treeLate, startsAfter>>

LEMMA Kept ==
    ASSUME TreeInv, UNCHANGED treeMarks, NEW R2, subRuns' = R2, NEW S2, stack' = S2, TreeOf(tree, R2, S2),
           S2 # <<>> => (Last(S2).phase \in {"work", "undo_work"} => startsAfter = 0)
    PROVE  TreeInv'
<1>1. /\ tree' = tree /\ treeCancelled' = treeCancelled /\ treeLate' = treeLate /\ startsAfter' = startsAfter
      BY DEF treeMarks
<1>2. S2 \in Seq(Frames) /\ DOMAIN S2 = 1 .. Len(S2) /\ Len(S2) \in Nat
  <2>1. S2 \in Seq(Frames)
        BY DEF TreeOf
  <2> QED BY <2>1
<1>3. \A i \in DOMAIN S2 : S2[i].phase \in {"work", "undo_work"} => startsAfter = 0
  <2> SUFFICES ASSUME NEW i \in DOMAIN S2, S2[i].phase \in {"work", "undo_work"} PROVE startsAfter = 0
      OBVIOUS
  <2>1. S2[i].phase = "child" <=> i < Len(S2)
        BY DEF TreeOf, Stacked
  <2>2. i = Len(S2) /\ S2 # <<>>
        BY <1>2, <2>1
  <2> QED BY <2>2 DEF Last
<1>4. StartsAreFew(S2, treeCancelled, startsAfter) /\ treeLate \in BOOLEAN
      BY <1>3 DEF TreeInv, StartsAreFew
<1> QED BY <1>1, <1>4 DEF TreeInv

LEMMA TreeMoved ==
    ASSUME TreeInv, stack # <<>>, UNCHANGED treeMarks, NEW R2, subRuns' = R2, NEW g \in Frames, Move(g),
           TreeOf(tree, R2, Append(Front(stack), g)), g.phase \in {"work", "undo_work"} => startsAfter = 0
    PROVE  TreeInv'
<1> DEFINE S2 == Append(Front(stack), g)
<1>1. IsCut(stack, S2, Len(stack), g)
      BY CutTop DEF TreeInv, TreeOf
<1>2. Last(S2) = g
      BY <1>1 DEF IsCut, Last
<1>3. stack' = S2
      BY DEF Move
<1> HIDE DEF S2
<1>4. TreeOf(tree, R2, S2)
      BY DEF S2
<1> QED BY <1>2, <1>3, <1>4, Kept

LEMMA TreeTop ==
    ASSUME TreeInv, stack # <<>>
    PROVE  /\ TreeOf(tree, subRuns, stack) /\ subRuns \in Seq(TreeRow(tree)) /\ Top = Last(stack)
           /\ Top.run \in DOMAIN subRuns /\ Top \in Frames /\ Top.at \in Nat /\ Top.run \in Nat /\ Top.phase # "child"
           /\ FrameIs(tree, subRuns, Top.run, Top)
           /\ subRuns[Top.run].nodes \in [DOMAIN subRuns[Top.run].nodes -> NodeStates]
           /\ DOMAIN subRuns[Top.run].nodes = DOMAIN tree[subRuns[Top.run].workflow]
           /\ DOMAIN subRuns[Top.run].nodes = 1 .. Len(tree[subRuns[Top.run].workflow])
<1>1. TreeOf(tree, subRuns, stack) /\ subRuns \in Seq(TreeRow(tree)) /\ Top = Last(stack)
      BY DEF TreeInv, TreeOf, Top
<1>2. /\ Top.run \in DOMAIN subRuns /\ Top \in Frames /\ Top.at \in Nat /\ Top.run \in Nat /\ Top.phase # "child"
      /\ FrameIs(tree, subRuns, Top.run, Top)
      BY <1>1, TopIs DEF Top
<1>3. /\ subRuns[Top.run].nodes \in [DOMAIN subRuns[Top.run].nodes -> NodeStates]
      /\ DOMAIN subRuns[Top.run].nodes = DOMAIN tree[subRuns[Top.run].workflow]
      /\ DOMAIN subRuns[Top.run].nodes = 1 .. Len(tree[subRuns[Top.run].workflow])
  <2>1. PICK f : f = Last(stack)
        OBVIOUS
  <2>2. PICK x : x = f.run
        OBVIOUS
  <2>3. FrameIs(tree, subRuns, x, f)
        BY <1>1, <2>1, <2>2, TopIs
  <2>4. subRuns[x].nodes \in [DOMAIN subRuns[x].nodes -> NodeStates]
        BY <1>1, <2>1, <2>2, <2>3, TopIs
  <2>5. DOMAIN subRuns[x].nodes = DOMAIN tree[subRuns[x].workflow]
        BY <1>1, <2>1, <2>2, <2>3, TopIs
  <2>6. DOMAIN subRuns[x].nodes = 1 .. Len(tree[subRuns[x].workflow])
        BY <1>1, <2>1, <2>2, <2>3, TopIs
  <2>7. x = Top.run
        BY <1>1, <2>1, <2>2
  <2> QED BY <2>4, <2>5, <2>6, <2>7
<1> QED BY <1>1, <1>2, <1>3

LEMMA NodeEndsKeep ==
    ASSUME TreeInv, stack # <<>>, UNCHANGED treeMarks, Top.phase \notin {"next", "ending", "undo_work", "undoing"},
           NEW st \in Failed \cup {"SUCCEEDED"}, NodeEnds(st),
           st = "SUCCEEDED" => Top.phase = "skill" \/ (Top.phase = "result" /\ Tolerated(Top))
    PROVE  TreeInv'
<1> DEFINE x == Top.run
           N == SetAt(subRuns[x].nodes, Top.at, st)
           g == [run |-> x, at |-> Top.at + 1, phase |-> "next"]
<1>1. /\ TreeOf(tree, subRuns, stack) /\ subRuns \in Seq(TreeRow(tree)) /\ Top = Last(stack)
      /\ x \in DOMAIN subRuns /\ Top.at \in Nat /\ x \in Nat /\ Top.phase # "child"
      /\ FrameIs(tree, subRuns, x, Top) /\ subRuns[x].nodes \in [DOMAIN subRuns[x].nodes -> NodeStates]
      BY TreeTop
<1>2. Top.at \in DOMAIN subRuns[x].nodes
      BY <1>1 DEF FrameIs
<1>3. st \in NodeStates
      BY DEF NodeStates, Failed
<1>4. /\ N \in [DOMAIN subRuns[x].nodes -> NodeStates] /\ N[Top.at] = st
      /\ \A j \in DOMAIN subRuns[x].nodes : j # Top.at => N[j] = subRuns[x].nodes[j]
      BY <1>1, <1>2, <1>3, SetAtIs
<1>5. subRuns' = WithNodes(subRuns, x, N) /\ Move(g)
      BY SetNodeIs DEF NodeEnds, Onward, SetAt
<1>6. g \in Frames /\ g.phase = "next"
      BY <1>1 DEF Frames, Quiet
<1> HIDE DEF N
<1>7. st = "SUCCEEDED" => Top.phase = "skill" \/
               /\ Top.phase = "result"
               /\ Top.status = "SUCCEEDED" \/ tree[subRuns[x].workflow][Top.at].policy = "continue"
      BY DEF Tolerated, NodeOf, Chain
<1>8. TreeOf(tree, WithNodes(subRuns, x, N), Append(Front(stack), g))
      BY <1>1, <1>4, <1>7, NextAfter DEF Top
<1> HIDE DEF g
<1> QED BY <1>5, <1>6, <1>8, TreeMoved

LEMMA NodeAndRunEndKeep ==
    ASSUME TreeInv, stack # <<>>, UNCHANGED treeMarks, Top.phase \notin {"next", "ending"},
           NEW st \in {"CANCELLED", "TIMED_OUT"}, NodeAndRunEnd(st)
    PROVE  TreeInv'
<1> DEFINE x == Top.run
           N == SetAt(subRuns[x].nodes, Top.at, st)
           g == [run |-> x, at |-> Top.at, phase |-> "ending", status |-> st]
<1>1. /\ TreeOf(tree, subRuns, stack) /\ subRuns \in Seq(TreeRow(tree)) /\ Top = Last(stack)
      /\ x \in DOMAIN subRuns /\ Top.at \in Nat /\ x \in Nat /\ Top.phase # "child"
      /\ FrameIs(tree, subRuns, x, Top) /\ subRuns[x].nodes \in [DOMAIN subRuns[x].nodes -> NodeStates]
      BY TreeTop
<1>2. Top.at \in DOMAIN subRuns[x].nodes
      BY <1>1 DEF FrameIs
<1>3. st \in NodeStates
      BY DEF NodeStates
<1>4. /\ N \in [DOMAIN subRuns[x].nodes -> NodeStates] /\ N[Top.at] = st
      /\ \A j \in DOMAIN subRuns[x].nodes : j # Top.at => N[j] = subRuns[x].nodes[j]
      BY <1>1, <1>2, <1>3, SetAtIs
<1>5. subRuns' = WithNodes(subRuns, x, N) /\ Move(g)
      BY SetNodeIs DEF NodeAndRunEnd, RunEnds, SetAt
<1>6. g \in Frames /\ g.phase = "ending"
      BY <1>1 DEF Frames, EndedRun
<1> HIDE DEF N
<1>8. TreeOf(tree, WithNodes(subRuns, x, N), Append(Front(stack), g))
      BY <1>1, <1>4, EndsKeep, SMTT(40) DEF Top
<1> HIDE DEF g
<1> QED BY <1>5, <1>6, <1>8, TreeMoved

LEMMA TreeRaisedIs == TreeRaised \in {"CANCELLED", "TIMED_OUT"}
BY DEF TreeRaised

LEMMA EndingActions ==
    ASSUME TreeInv, DispatchTooLate \/ SkillRaises \/ ChildReturns \/ LeaveUndo \/ \E ok \in BOOLEAN : SkillReturns(ok),
           ChildReturns => Tolerated(Top) \/ NodeOf(Top).policy # "compensate"
    PROVE  TreeInv'
<1>1. CASE DispatchTooLate
      BY <1>1, NodeAndRunEndKeep DEF DispatchTooLate, treeMarks
<1>2. CASE SkillRaises
      BY <1>2, NodeEndsKeep DEF SkillRaises, treeMarks, Failed
<1>3. CASE ChildReturns
  <2>1. CASE ~ Guarded
    <3>1. NodeAndRunEnd(TreeRaised) /\ stack # <<>> /\ Top.phase = "result" /\ UNCHANGED treeMarks
          BY <1>3, <2>1 DEF ChildReturns, treeMarks
    <3> QED BY <3>1, TreeRaisedIs, NodeAndRunEndKeep
  <2>2. CASE Guarded
    <3> DEFINE st == IF Tolerated(Top) THEN "SUCCEEDED" ELSE "FAILED"
    <3>1. NodeEnds(st) /\ stack # <<>> /\ Top.phase = "result" /\ UNCHANGED treeMarks
          BY <1>3, <2>2 DEF ChildReturns, treeMarks
    <3>2. st \in Failed \cup {"SUCCEEDED"} /\ (st = "SUCCEEDED" => Tolerated(Top))
          BY DEF Failed
    <3> HIDE DEF st
    <3> QED BY <3>1, <3>2, NodeEndsKeep
  <2> QED BY <2>1, <2>2
<1>4. CASE LeaveUndo
  <2>1. stack # <<>> /\ Top.phase = "undone" /\ UNCHANGED treeMarks /\ (NodeEnds("FAILED") \/ NodeAndRunEnd(TreeRaised))
        BY <1>4 DEF LeaveUndo, Compensated, treeMarks
  <2>2. CASE NodeEnds("FAILED")
        BY <2>1, <2>2, NodeEndsKeep DEF Failed
  <2>3. CASE NodeAndRunEnd(TreeRaised)
        BY <2>1, <2>3, TreeRaisedIs, NodeAndRunEndKeep
  <2> QED BY <2>1, <2>2, <2>3
<1>5. ASSUME NEW ok \in BOOLEAN, SkillReturns(ok) PROVE TreeInv'
  <2>1. CASE treeCancelled \/ (ok /\ treeLate)
    <3>1. NodeAndRunEnd(TreeRaised) /\ stack # <<>> /\ Top.phase = "skill" /\ UNCHANGED treeMarks
          BY <1>5, <2>1 DEF SkillReturns, treeMarks
    <3> QED BY <3>1, TreeRaisedIs, NodeAndRunEndKeep
  <2>2. CASE ~ (treeCancelled \/ (ok /\ treeLate))
    <3> DEFINE st == IF ok THEN "SUCCEEDED" ELSE "FAILED"
    <3>1. NodeEnds(st) /\ stack # <<>> /\ Top.phase = "skill" /\ UNCHANGED treeMarks
          BY <1>5, <2>2 DEF SkillReturns, treeMarks
    <3>2. st \in Failed \cup {"SUCCEEDED"}
          BY DEF Failed
    <3> HIDE DEF st
    <3> QED BY <3>1, <3>2, NodeEndsKeep
  <2> QED BY <2>1, <2>2
<1> QED BY <1>1, <1>2, <1>3, <1>4, <1>5

LEMMA TopPhase ==
    ASSUME TreeInv, stack # <<>>, NEW p \in Quiet
    PROVE  LET g == [run |-> Top.run, at |-> Top.at, phase |-> p] IN
           /\ g \in Frames /\ g.run = Top.run /\ g.at = Top.at /\ g.phase = p
           /\ Top.phase \in Quiet => [Top EXCEPT !.phase = p] = g
<1>1. Top \in Frames /\ Top.run \in Nat /\ Top.at \in Nat
      BY TreeTop
<1>2. Top.phase \in Quiet => Top \in [run : Nat, at : Nat, phase : Quiet]
      BY <1>1 DEF Frames, Quiet
<1> QED BY <1>1, <1>2 DEF Frames

LEMMA UndoNodesAre == \A x : UndoNodes(x) = Undone(tree, subRuns, x)
BY DEF UndoNodes, Undone, Chain

LEMMA EnterNodeKeeps ==
    ASSUME TreeInv, EnterNode
    PROVE  TreeInv'
<1> DEFINE x == Top.run
           N1 == subRuns[x].nodes
<1>1. /\ TreeOf(tree, subRuns, stack) /\ subRuns \in Seq(TreeRow(tree)) /\ Top = Last(stack)
      /\ x \in DOMAIN subRuns /\ Top.at \in Nat /\ x \in Nat
      /\ FrameIs(tree, subRuns, x, Top) /\ N1 \in [DOMAIN N1 -> NodeStates]
      /\ DOMAIN N1 = 1 .. Len(tree[subRuns[x].workflow])
      BY TreeTop DEF EnterNode
<1>2. stack # <<>> /\ Top.phase = "next" /\ UNCHANGED treeMarks /\ Top.at <= Len(Chain(x))
      BY DEF EnterNode, treeMarks
<1>3. Top.at \in DOMAIN N1
      BY <1>1, <1>2 DEF Chain, FrameIs
<1>8. N1 \in [DOMAIN N1 -> NodeStates]
      BY <1>1
<1>9. TreeOf(tree, subRuns, stack) /\ stack # <<>> /\ Top = Last(stack) /\ Top.phase = "next"
      BY <1>1, <1>2
<1>4. CASE ~ Guarded /\ Move(RunEnds(Top, TreeRaised)) /\ UNCHANGED subRuns
  <2> DEFINE g == [run |-> x, at |-> Top.at, phase |-> "ending", status |-> TreeRaised]
  <2>1. g \in Frames /\ g.run = x /\ g.phase = "ending" /\ g.at = Top.at /\ g.status # "SUCCEEDED"
        BY <1>1, TreeRaisedIs DEF Frames, EndedRun
  <2>2. WithNodes(subRuns, x, N1) = subRuns /\ Move(g)
        BY <1>1, <1>4, SameNodes DEF RunEnds
  <2> HIDE DEF g
  <2>3. TreeOf(tree, WithNodes(subRuns, x, N1), Append(Front(stack), g))
        BY <1>1, <1>2, <2>1, NextKeeps
  <2> QED BY <1>2, <1>4, <2>1, <2>2, <2>3, TreeMoved
<1>5. CASE Guarded /\ Top.at \in UndoNodes(x) /\ Onward /\ UNCHANGED subRuns
  <2> DEFINE g == [run |-> x, at |-> Top.at + 1, phase |-> "next"]
  <2>1. g \in Frames /\ g.run = x /\ g.phase = "next" /\ g.at = Top.at + 1
        BY <1>1 DEF Frames, Quiet
  <2>2. WithNodes(subRuns, x, N1) = subRuns /\ Move(g)
        BY <1>1, <1>5, SameNodes DEF Onward
  <2>3. Top.at \in Undone(tree, subRuns, x)
        BY <1>5, UndoNodesAre
  <2> HIDE DEF g
  <2>4. TreeOf(tree, WithNodes(subRuns, x, N1), Append(Front(stack), g))
        BY <1>1, <1>2, <1>3, <2>1, <2>3, NextKeeps
  <2> QED BY <1>2, <1>5, <2>1, <2>2, <2>4, TreeMoved
<1>6. ASSUME Guarded, Top.at \notin UndoNodes(x), subRuns' = SetNode(subRuns, x, Top.at, "SKIPPED"), Onward
      PROVE  TreeInv'
  <2> DEFINE g == [run |-> x, at |-> Top.at + 1, phase |-> "next"]
             N == SetAt(N1, Top.at, "SKIPPED")
  <2>1. g \in Frames /\ g.run = x /\ g.phase = "next" /\ g.at = Top.at + 1
        BY <1>1 DEF Frames, Quiet
  <2>2. subRuns' = WithNodes(subRuns, x, N) /\ Move(g)
        BY <1>6, SetNodeIs DEF Onward, SetAt
  <2>3. Top.at \notin Undone(tree, subRuns, x)
        BY <1>6, UndoNodesAre
  <2>4. /\ N \in [DOMAIN N1 -> NodeStates] /\ N[Top.at] = "SKIPPED"
        /\ \A j \in DOMAIN N1 : j # Top.at => N[j] = N1[j]
    <3>1. "SKIPPED" \in NodeStates
          BY DEF NodeStates
    <3> QED BY <1>3, <1>8, <3>1, SetAtIs
  <2> HIDE DEF g, N
  <2>5. TreeOf(tree, WithNodes(subRuns, x, N), Append(Front(stack), g))
        BY <1>3, <1>9, <2>1, <2>3, <2>4, NextKeeps, SMTT(30)
  <2> QED BY <1>2, <2>1, <2>2, <2>5, TreeMoved
<1>7. ASSUME Guarded, Top.at \notin UndoNodes(x), subRuns' = SetNode(subRuns, x, Top.at, "RUNNING"),
             Move([Top EXCEPT !.phase = "work"])
      PROVE  TreeInv'
  <2> DEFINE g == [run |-> x, at |-> Top.at, phase |-> "work"]
             N == SetAt(N1, Top.at, "RUNNING")
  <2>1. g \in Frames /\ g.run = x /\ g.phase = "work" /\ g.at = Top.at /\ [Top EXCEPT !.phase = "work"] = g
        BY <1>2, TopPhase DEF Quiet
  <2>2. subRuns' = WithNodes(subRuns, x, N) /\ Move(g)
        BY <1>7, <2>1, SetNodeIs DEF SetAt
  <2>3. Top.at \notin Undone(tree, subRuns, x)
        BY <1>7, UndoNodesAre
  <2>4. /\ N \in [DOMAIN N1 -> NodeStates] /\ N[Top.at] = "RUNNING"
        /\ \A j \in DOMAIN N1 : j # Top.at => N[j] = N1[j]
    <3>1. "RUNNING" \in NodeStates
          BY DEF NodeStates
    <3> QED BY <1>3, <1>8, <3>1, SetAtIs
  <2> HIDE DEF g, N
  <2>5. TreeOf(tree, WithNodes(subRuns, x, N), Append(Front(stack), g))
        BY <1>3, <1>9, <2>1, <2>3, <2>4, NextKeeps, SMTT(30)
  <2>6. startsAfter = 0
        BY <1>7 DEF Guarded, TreeInv, StartsAreFew
  <2> QED BY <1>2, <2>1, <2>2, <2>5, <2>6, TreeMoved
<1> QED BY <1>4, <1>5, <1>6, <1>7 DEF EnterNode

LEMMA StartSkillKeeps ==
    ASSUME TreeInv, StartSkill
    PROVE  TreeInv'
<1> DEFINE x == Top.run
           N1 == subRuns[x].nodes
<1>1. /\ TreeOf(tree, subRuns, stack) /\ subRuns \in Seq(TreeRow(tree)) /\ Top = Last(stack)
      /\ x \in DOMAIN subRuns /\ Top.at \in Nat /\ x \in Nat /\ N1 \in [DOMAIN N1 -> NodeStates] /\ stack # <<>>
      BY TreeTop DEF StartSkill
<1>2. PICK p \in {"skill", "undoing"} :
         /\ (Top.phase = "work" /\ p = "skill") \/ (Top.phase = "undo_work" /\ p = "undoing")
         /\ Move([Top EXCEPT !.phase = p])
      BY DEF StartSkill
<1> DEFINE g == [run |-> x, at |-> Top.at, phase |-> p]
<1>3. g \in Frames /\ g.run = x /\ g.phase = p /\ g.at = Top.at /\ [Top EXCEPT !.phase = p] = g
      BY <1>1, <1>2, TopPhase DEF Quiet
<1>4. Move(g)
      BY <1>2, <1>3
<1> HIDE DEF g
<1>5. TreeOf(tree, WithNodes(subRuns, x, N1), Append(Front(stack), g))
  <2>1. CASE Top.phase = "work"
        BY <1>1, <1>2, <1>3, <2>1, PhaseKeeps
  <2>2. CASE Top.phase = "undo_work"
        BY <1>1, <1>2, <1>3, <2>2, PhaseKeeps
  <2> QED BY <1>2, <2>1, <2>2
<1>6. WithNodes(subRuns, x, N1) = subRuns
      BY <1>1, SameNodes
<1>7. TreeOf(tree, subRuns, stack')
      BY <1>4, <1>5, <1>6 DEF Move
<1> DEFINE S2 == Append(Front(stack), g)
<1>8. IsCut(stack, S2, Len(stack), g) /\ stack' = S2
      BY <1>1, <1>3, <1>4, CutTop DEF TreeOf, Move
<1> HIDE DEF S2
<1>9. \A i \in DOMAIN S2 : S2[i].phase \notin {"work", "undo_work"}
  <2> SUFFICES ASSUME NEW i \in DOMAIN S2 PROVE S2[i].phase \notin {"work", "undo_work"}
      OBVIOUS
  <2>1. S2[i].phase = "child" <=> i < Len(S2)
        BY <1>7, <1>8 DEF TreeOf, Stacked
  <2>2. i = Len(S2) \/ i < Len(S2)
    <3>1. S2 \in Seq(Frames)
          BY <1>8 DEF IsCut
    <3> QED BY <3>1
  <2>3. S2[Len(S2)] = g
        BY <1>8 DEF IsCut
  <2> QED BY <2>1, <2>2, <2>3, <1>2, <1>3
<1>10. startsAfter = 0
  <2>1. stack[Len(stack)].phase \in {"work", "undo_work"} /\ Len(stack) \in DOMAIN stack
        BY <1>1, <1>2, StacksAre DEF TreeOf
  <2> QED BY <2>1 DEF TreeInv, StartsAreFew
<1>11. /\ tree' = tree /\ subRuns' = subRuns /\ treeCancelled' = treeCancelled /\ treeLate' = treeLate
       /\ startsAfter' = IF treeCancelled THEN startsAfter + 1 ELSE startsAfter
       BY DEF StartSkill
<1>12. StartsAreFew(S2, treeCancelled, startsAfter')
       BY <1>9, <1>10, <1>11 DEF TreeInv, StartsAreFew
<1>13. treeLate \in BOOLEAN
       BY DEF TreeInv
<1> QED BY <1>7, <1>8, <1>11, <1>12, <1>13 DEF TreeInv

LEMMA CreateChildKeeps ==
    ASSUME TreeInv, CreateChild
    PROVE  TreeInv'
<1> DEFINE x == Top.run
           q == NewRow(NodeOf(Top).child, x, Top.at, "PENDING")
           g == [run |-> x, at |-> Top.at, phase |-> "created"]
<1>1. /\ TreeOf(tree, subRuns, stack) /\ subRuns \in Seq(TreeRow(tree)) /\ Top = Last(stack)
      /\ x \in DOMAIN subRuns /\ Top.at \in Nat /\ x \in Nat /\ stack # <<>>
      /\ FrameIs(tree, subRuns, x, Top)
      /\ DOMAIN subRuns[x].nodes = DOMAIN tree[subRuns[x].workflow]
      BY TreeTop DEF CreateChild
<1>2. /\ Top.phase = "work" /\ NodeOf(Top).kind = "sub" /\ UNCHANGED treeMarks
      /\ subRuns' = Append(subRuns, q) /\ Move([Top EXCEPT !.phase = "created"])
      BY DEF CreateChild, treeMarks
<1>3. g \in Frames /\ g.phase = "created" /\ [Top EXCEPT !.phase = "created"] = g
      BY <1>1, <1>2, TopPhase DEF Quiet
<1>4. NodeOf(Top).child \in DOMAIN tree
  <2>1. subRuns[x] \in TreeRow(tree) /\ tree \in WorkflowTrees
        BY <1>1 DEF TreeOf
  <2>2. subRuns[x].workflow \in DOMAIN tree
        BY <2>1 DEF TreeRow
  <2>3. Top.at \in DOMAIN tree[subRuns[x].workflow]
        BY <1>1, <1>2 DEF FrameIs
  <2>4. tree[subRuns[x].workflow][Top.at].kind = "sub"
        BY <1>2 DEF NodeOf, Chain
  <2>5. tree[subRuns[x].workflow][Top.at].child \in DOMAIN tree
        BY <2>1, <2>2, <2>3, <2>4, SubWorkflowAssumption
  <2> QED BY <2>5 DEF NodeOf, Chain
<1>5. q \in TreeRow(tree) /\ q.parent = x /\ q.node = Top.at /\ q.status = "PENDING"
      /\ DOMAIN q.nodes = DOMAIN tree[q.workflow] /\ \A n \in DOMAIN q.nodes : q.nodes[n] = "PENDING"
  <2> DEFINE w == NodeOf(Top).child
             N == [i \in DOMAIN tree[w] |-> "PENDING"]
  <2>1. q = [workflow |-> w, parent |-> x, node |-> Top.at, status |-> "PENDING", nodes |-> N]
        BY DEF NewRow
  <2>2. DOMAIN tree[w] \in SUBSET Nat
    <3>1. DOMAIN tree[w] = 1 .. Len(tree[w]) /\ Len(tree[w]) \in Nat
          BY <1>1, <1>4, SubWorkflowAssumption DEF TreeOf
    <3> QED BY <3>1
  <2>3. N \in [DOMAIN tree[w] -> NodeStates]
        BY DEF NodeStates
  <2>4. N \in UNION {[D -> NodeStates] : D \in SUBSET Nat}
        BY <2>2, <2>3
  <2>5. DOMAIN N = DOMAIN tree[w] /\ \A n \in DOMAIN N : N[n] = "PENDING"
        OBVIOUS
  <2> HIDE DEF q, N
  <2>6. "PENDING" \in Open \cup EndedRun
        BY DEF Open
  <2> QED BY <2>1, <2>4, <2>5, <2>6, <1>1, <1>4 DEF TreeRow
<1> HIDE DEF q
<1>6. TreeOf(tree, Append(subRuns, q), Append(Front(stack), g))
      BY <1>1, <1>2, <1>5, CreateKeeps
<1> HIDE DEF g
<1> QED BY <1>1, <1>2, <1>3, <1>6, TreeMoved

LEMMA PrefixIs ==
    ASSUME NEW S \in Seq(Frames), NEW k \in 0 .. Len(S)
    PROVE  SubSeq(S, 1, k) \in Seq(Frames) /\ Len(SubSeq(S, 1, k)) = k
<1>1. Len(S) \in Nat
      OBVIOUS
<1> QED BY <1>1

LEMMA FrontIs ==
    ASSUME NEW S \in Seq(Frames), S # <<>>
    PROVE  Front(S) \in Seq(Frames) /\ Len(Front(S)) = Len(S) - 1 /\ Len(S) \in Nat
<1>1. Front(S) = SubSeq(S, 1, Len(S) - 1) /\ Len(S) \in Nat /\ Len(S) - 1 \in 0 .. Len(S)
      BY StacksAre DEF Front
<1> QED BY <1>1, PrefixIs

LEMMA CallChildKeeps ==
    ASSUME TreeInv, CallChild
    PROVE  TreeInv'
<1> DEFINE x == Top.run
           c == Len(subRuns)
           up == [run |-> x, at |-> Top.at, phase |-> "child"]
           g == [run |-> c, at |-> 1, phase |-> "next"]
           S2 == Front(stack) \o <<up, g>>
           R2 == [subRuns EXCEPT ![c].status = "RUNNING"]
<1>1. /\ TreeOf(tree, subRuns, stack) /\ subRuns \in Seq(TreeRow(tree)) /\ Top = Last(stack)
      /\ x \in DOMAIN subRuns /\ Top.at \in Nat /\ x \in Nat /\ stack # <<>>
      BY TreeTop DEF CallChild
<1>2. Top.phase = "created" /\ UNCHANGED treeMarks
      BY DEF CallChild, treeMarks
<1>3. CASE NodeEnds("FAILED")
      BY <1>1, <1>2, <1>3, NodeEndsKeep DEF Failed
<1>4. CASE /\ subRuns' = R2
           /\ stack' = Front(stack) \o <<[Top EXCEPT !.phase = "child"], [run |-> Len(subRuns), at |-> 1, phase |-> "next"]>>
  <2>1. [Top EXCEPT !.phase = "child"] = up
        BY <1>1, <1>2, TopPhase DEF Quiet
  <2>2. stack' = S2
        BY <1>4, <2>1
  <2>3. TreeOf(tree, R2, S2)
        BY <1>1, <1>2, CallKeeps
  <2>4. S2 \in Seq(Frames) /\ Len(S2) \in Nat /\ (S2 # <<>> => Len(S2) \in DOMAIN S2)
        BY <2>3, StacksAre DEF TreeOf
  <2> HIDE DEF R2, S2
  <2>5. S2 # <<>> => Last(S2).phase \notin {"work", "undo_work"}
    <3>1. S2 # <<>> => S2[Len(S2)].phase \in {"next", "child"}
      <4>1. stack \in Seq(Frames) /\ Len(stack) \in Nat /\ Front(stack) \in Seq(Frames) /\ Len(Front(stack)) = Len(stack) - 1
        <5>1. stack \in Seq(Frames)
              BY <1>1 DEF TreeOf
        <5> QED BY <5>1, <1>1, FrontIs
      <4> DEFINE lower == Front(stack)
                 m == Len(lower)
      <4>2. m \in Nat /\ lower \in Seq(Frames)
            BY <4>1
      <4>3. up \in Frames /\ g \in Frames
        <5>1. c \in Nat
              BY <1>1
        <5> QED BY <5>1, <1>1 DEF Frames, Quiet
      <4> HIDE DEF lower, up, g
      <4>4. Len(lower \o <<up, g>>) = m + 2 /\ (lower \o <<up, g>>)[m + 2] = g
            BY <4>2, <4>3
      <4> QED BY <4>4 DEF S2, lower, g
    <3> QED BY <3>1 DEF Last
  <2> QED BY <1>2, <1>4, <2>2, <2>3, <2>5, Kept DEF R2
<1> QED BY <1>3, <1>4 DEF CallChild

LEMMA LeaveLoopKeeps ==
    ASSUME TreeInv, LeaveLoop
    PROVE  TreeInv'
<1> DEFINE x == Top.run
           N1 == subRuns[x].nodes
           failed == \E i \in DOMAIN N1 : N1[i] \in {"FAILED", "TIMED_OUT"}
           st == IF ~ Guarded THEN TreeRaised ELSE IF failed THEN "FAILED" ELSE "SUCCEEDED"
           g == [run |-> x, at |-> Top.at, phase |-> "ending", status |-> st]
           N == [j \in DOMAIN N1 |->
                   IF j \in Undone(tree, subRuns, x) /\ N1[j] = "PENDING" THEN "SKIPPED" ELSE N1[j]]
<1>1. /\ TreeOf(tree, subRuns, stack) /\ Top = Last(stack)
      /\ Top.at \in Nat /\ x \in Nat /\ stack # <<>> /\ N1 \in [DOMAIN N1 -> NodeStates]
      BY TreeTop DEF LeaveLoop
<1>2. /\ Top.phase = "next" /\ Top.at > Len(tree[subRuns[x].workflow]) /\ UNCHANGED treeMarks
      /\ subRuns' = Skipping(x) /\ Move(g)
      BY DEF LeaveLoop, treeMarks, RunEnds, Chain
<1>3. st \in EndedRun /\ (st = "SUCCEEDED" => ~ failed)
      BY TreeRaisedIs DEF EndedRun
<1>4. N \in [DOMAIN N1 -> NodeStates]
      BY <1>1 DEF NodeStates
<1>5. subRuns' = WithNodes(subRuns, x, N)
      BY <1>2, UndoNodesAre, ZenonT(30) DEF Skipping, WithNodes
<1>6. st = "SUCCEEDED" => \A j \in DOMAIN N1 : N1[j] \notin Failed
      BY <1>3 DEF Failed
<1>7. \A j \in DOMAIN N :
         N[j] = IF j \in Undone(tree, subRuns, x) /\ N1[j] = "PENDING" THEN "SKIPPED" ELSE N1[j]
      OBVIOUS
<1> HIDE DEF N, st
<1>8. g \in Frames /\ g.phase = "ending"
      BY <1>1, <1>3 DEF Frames
<1>9. TreeOf(tree, WithNodes(subRuns, x, N), Append(Front(stack), g))
      BY <1>1, <1>2, <1>3, <1>4, <1>6, <1>7, LeaveKeeps
<1> HIDE DEF g
<1> QED BY <1>1, <1>2, <1>5, <1>8, <1>9, TreeMoved

LEMMA EndRunKeeps ==
    ASSUME TreeInv, EndRun
    PROVE  TreeInv'
<1> DEFINE x == Top.run
           st == Top.status
           N1 == subRuns[x].nodes
           N == [i \in DOMAIN N1 |-> IF st # "SUCCEEDED" /\ N1[i] \in Open THEN "CANCELLED" ELSE N1[i]]
           rows == IF st \in {"CANCELLED", "TIMED_OUT"} THEN Remaining(subRuns, x) ELSE subRuns
           R2 == [rows EXCEPT ![x].status = st]
<1>1. /\ TreeOf(tree, subRuns, stack) /\ Top = Last(stack)
      /\ subRuns \in Seq(TreeRow(tree)) /\ x \in DOMAIN subRuns /\ stack # <<>> /\ Top \in Frames
      /\ N1 \in [DOMAIN N1 -> NodeStates]
      BY TreeTop DEF EndRun
<1>2. Top.phase = "ending" /\ UNCHANGED treeMarks /\ subRuns' = R2 /\ stack' = Under(st)
      BY DEF EndRun, treeMarks
<1>3. st \in EndedRun
      BY <1>1, <1>2 DEF Frames, Quiet
<1> DEFINE M == IF st \in {"CANCELLED", "TIMED_OUT"}
                  THEN [i \in DOMAIN N1 |-> IF N1[i] \in Open THEN "CANCELLED" ELSE N1[i]] ELSE N1
           R1 == WithNodes(subRuns, x, M)
<1>4. rows = R1
  <2>1. CASE st \in {"CANCELLED", "TIMED_OUT"}
        BY <2>1 DEF Remaining, WithNodes
  <2>2. CASE st \notin {"CANCELLED", "TIMED_OUT"}
        BY <1>1, <2>2, SameNodes
  <2> QED BY <2>1, <2>2
<1>5. M \in [DOMAIN N1 -> NodeStates]
      BY <1>1 DEF NodeStates
<1>6. \A n \in DOMAIN N1 : \/ M[n] = N1[n]
                           \/ st # "SUCCEEDED" /\ N1[n] \in Open /\ M[n] = "CANCELLED"
      OBVIOUS
<1> HIDE DEF M
<1>7. Alters(tree, subRuns, R1, {x}) /\ R1[x].nodes = M
  <2>1. subRuns \in Seq(TreeRow(tree)) /\ x \in DOMAIN subRuns
        BY <1>1
  <2>2. M \in [DOMAIN subRuns[x].nodes -> NodeStates]
        BY <1>5
  <2> HIDE DEF x
  <2>3. Alters(tree, subRuns, WithNodes(subRuns, x, M), {x})
        BY <2>1, <2>2, WithNodesIs
  <2>4. WithNodes(subRuns, x, M)[x].nodes = M
        BY <2>1, <2>2, <2>3, WithNodesIs
  <2> QED BY <2>3, <2>4
<1> HIDE DEF R1, rows
<1>8. /\ R1 \in Seq(TreeRow(tree)) /\ DOMAIN R1 = DOMAIN subRuns /\ Len(R1) = Len(subRuns)
      BY <1>7 DEF Alters
<1>9. R2 = [R1 EXCEPT ![x].status = st]
      BY <1>4
<1> HIDE DEF R2
<1>10. Alters(tree, R1, R2, {x}) /\ R2[x].status = st /\ R2[x].nodes = R1[x].nodes
  <2>1. R1 \in [1 .. Len(R1) -> TreeRow(tree)] /\ DOMAIN R1 = 1 .. Len(R1) /\ Len(R1) \in Nat /\ x \in DOMAIN R1
        BY <1>1, <1>8
  <2>2. R1[x] \in TreeRow(tree)
        BY <2>1
  <2>3. [R1[x] EXCEPT !.status = st] \in TreeRow(tree)
        BY <2>2, <1>3 DEF TreeRow
  <2>4. R2 = [R1 EXCEPT ![x] = [R1[x] EXCEPT !.status = st]]
        BY <1>9
  <2>5. R2 \in [1 .. Len(R1) -> TreeRow(tree)]
        BY <2>1, <2>3, <2>4
  <2>6. R2 \in Seq(TreeRow(tree)) /\ Len(R2) = Len(R1) /\ DOMAIN R2 = DOMAIN R1
        BY <2>1, <2>5
  <2>7. R2[x] = [R1[x] EXCEPT !.status = st] /\ \A r \in DOMAIN R1 : r # x => R2[r] = R1[r]
        BY <2>1, <2>4
  <2>8. /\ R2[x].workflow = R1[x].workflow /\ R2[x].parent = R1[x].parent /\ R2[x].node = R1[x].node
        /\ R2[x].status = st /\ R2[x].nodes = R1[x].nodes
        BY <2>2, <2>7 DEF TreeRow
  <2>9. Alters(tree, R1, R2, {x})
        BY <2>6, <2>7, <2>8 DEF Alters
  <2> QED BY <2>8, <2>9
<1>11. Alters(tree, subRuns, R2, {x})
  <2>1. Alters(tree, subRuns, R2, {x} \cup {x})
        BY <1>7, <1>10, AltersTwice
  <2> QED BY <2>1
<1>12. \A n \in DOMAIN N1 : \/ R2[x].nodes[n] = N1[n]
                            \/ st # "SUCCEEDED" /\ N1[n] \in Open /\ R2[x].nodes[n] = "CANCELLED"
       BY <1>6, <1>7, <1>10
<1> DEFINE S2 == Under(st)
<1>13. IF Len(stack) = 1 THEN S2 = <<>>
       ELSE S2 = Append(Front(Front(stack)), [run |-> stack[Len(stack) - 1].run, at |-> stack[Len(stack) - 1].at,
                                              phase |-> "result", status |-> st])
       BY DEF Under
<1> HIDE DEF S2
<1>14. TreeOf(tree, R2, S2)
       BY <1>1, <1>2, <1>10, <1>11, <1>12, <1>13, RunEndKeeps
<1>15. S2 # <<>> => Last(S2).phase \notin {"work", "undo_work"}
  <2>1. CASE Len(stack) = 1
        BY <1>13, <2>1
  <2>2. CASE Len(stack) # 1
    <3> DEFINE g == [run |-> stack[Len(stack) - 1].run, at |-> stack[Len(stack) - 1].at,
                     phase |-> "result", status |-> st]
    <3>1. stack \in Seq(Frames) /\ Len(stack) > 1
      <4>1. stack \in Seq(Frames)
            BY <1>1 DEF TreeOf
      <4>2. Len(stack) \in DOMAIN stack /\ DOMAIN stack = 1 .. Len(stack) /\ Len(stack) \in Nat
            BY <4>1, <1>1, StacksAre
      <4> QED BY <4>1, <4>2, <2>2
    <3>2. g \in Frames
      <4>1. Len(stack) - 1 \in DOMAIN stack
            BY <1>1, <3>1, ParentIs
      <4>2. stack[Len(stack) - 1].run \in Nat /\ stack[Len(stack) - 1].at \in Nat
            BY <1>1, <4>1, FrameAt
      <4> QED BY <4>2, <1>3 DEF Frames
    <3>3. S2 = Append(Front(Front(stack)), g) /\ g.phase = "result"
          BY <1>13, <2>2
    <3> HIDE DEF g
    <3>4. IsCut(stack, S2, Len(stack) - 1, g)
          BY <3>1, <3>2, <3>3, CutParent
    <3> QED BY <3>3, <3>4 DEF IsCut, Last
  <2> QED BY <2>1, <2>2
<1> QED BY <1>2, <1>14, <1>15, Kept DEF S2

LEMMA OutputRaisesKeeps ==
    ASSUME TreeInv, OutputRaises
    PROVE  TreeInv'
<1>1. /\ TreeOf(tree, subRuns, stack) /\ Top = Last(stack) /\ stack # <<>> /\ Last(stack).phase = "ending"
      /\ UNCHANGED treeMarks
      BY TreeTop DEF OutputRaises, treeMarks
<1>2. CASE Len(stack) = 1
  <2>1. stack' = <<>> /\ subRuns' = subRuns
        BY <1>2 DEF OutputRaises
  <2>2. TreeOf(tree, subRuns, <<>>)
        BY <1>1, <1>2, RootRaisesKeeps
  <2> QED BY <1>1, <2>1, <2>2, Kept
<1>3. CASE Len(stack) # 1
  <2> DEFINE h == stack[Len(stack) - 1]
             g == [run |-> h.run, at |-> h.at + 1, phase |-> "next"]
             S2 == Append(Front(Front(stack)), g)
             R2 == SetNode(subRuns, h.run, h.at, "FAILED")
  <2>1. subRuns' = R2 /\ stack' = S2
        BY <1>3 DEF OutputRaises
  <2>2. stack \in Seq(Frames) /\ Len(stack) > 1
    <3>1. stack \in Seq(Frames)
          BY <1>1 DEF TreeOf
    <3> QED BY <3>1, <1>1, <1>3, SMTT(20)
  <2>3. g \in Frames /\ g.phase = "next"
    <3>1. Len(stack) - 1 \in DOMAIN stack
          BY <1>1, <2>2, ParentIs
    <3>2. h.run \in Nat /\ h.at \in Nat
          BY <1>1, <3>1, FrameAt
    <3> QED BY <3>2 DEF Frames, Quiet
  <2>4. TreeOf(tree, R2, S2)
        BY <1>1, <2>2, ParentKeeps
  <2> HIDE DEF g
  <2>5. IsCut(stack, S2, Len(stack) - 1, g)
        BY <2>2, <2>3, CutParent
  <2> HIDE DEF S2, R2
  <2>6. Last(S2).phase = "next"
        BY <2>3, <2>5 DEF IsCut, Last
  <2> QED BY <1>1, <2>1, <2>4, <2>6, Kept
<1> QED BY <1>2, <1>3

LEMMA ChildReturnsKeeps ==
    ASSUME TreeInv, ChildReturns
    PROVE  TreeInv'
<1>1. CASE Tolerated(Top) \/ NodeOf(Top).policy # "compensate"
      BY <1>1, EndingActions
<1>2. CASE ~ Tolerated(Top) /\ NodeOf(Top).policy = "compensate"
  <2> DEFINE x == Top.run
             N1 == subRuns[x].nodes
             g == [run |-> x, at |-> Top.at, phase |-> "undo"]
  <2>1. /\ TreeOf(tree, subRuns, stack) /\ subRuns \in Seq(TreeRow(tree)) /\ Top = Last(stack)
        /\ x \in DOMAIN subRuns /\ stack # <<>> /\ N1 \in [DOMAIN N1 -> NodeStates]
        BY TreeTop DEF ChildReturns
  <2>2. Top.phase = "result" /\ UNCHANGED treeMarks /\ Move(g) /\ subRuns' = subRuns
        BY <1>2 DEF ChildReturns, treeMarks
  <2>3. g \in Frames /\ g.run = x /\ g.phase = "undo" /\ g.at = Top.at
        BY <2>1, TopPhase DEF Quiet
  <2> HIDE DEF g
  <2>4. TreeOf(tree, WithNodes(subRuns, x, N1), Append(Front(stack), g))
        BY <2>1, <2>2, <2>3, PhaseKeeps
  <2>5. WithNodes(subRuns, x, N1) = subRuns
        BY <2>1, SameNodes
  <2>6. g.phase \notin {"work", "undo_work"}
        BY <2>3
  <2> QED BY <2>1, <2>2, <2>3, <2>4, <2>5, <2>6, TreeMoved
<1> QED BY <1>1, <1>2

LEMMA StartUndoKeeps ==
    ASSUME TreeInv, StartUndo
    PROVE  TreeInv'
<1> DEFINE x == Top.run
           N1 == subRuns[x].nodes
           u == UndoOf(tree, subRuns, Top)
           N == SetAt(N1, u, "RUNNING")
           g == [run |-> x, at |-> Top.at, phase |-> "undo_work"]
<1>1. /\ TreeOf(tree, subRuns, stack) /\ subRuns \in Seq(TreeRow(tree)) /\ Top = Last(stack)
      /\ x \in DOMAIN subRuns /\ stack # <<>> /\ N1 \in [DOMAIN N1 -> NodeStates]
      BY TreeTop DEF StartUndo
<1>2. Top.phase = "undo" /\ UNCHANGED treeMarks
      BY DEF StartUndo, treeMarks
<1>3. CASE NodeAndRunEnd(TreeRaised)
      BY <1>1, <1>2, <1>3, TreeRaisedIs, NodeAndRunEndKeep
<1>4. CASE /\ Guarded /\ subRuns' = SetNode(subRuns, x, NodeOf(Top).undo, "RUNNING")
           /\ Move([Top EXCEPT !.phase = "undo_work"])
  <2>1. NodeOf(Top).undo = u
        BY DEF NodeOf, Chain, UndoOf
  <2>2. subRuns' = WithNodes(subRuns, x, N)
        BY <1>4, <2>1, SetNodeIs DEF SetAt
  <2>3. g \in Frames /\ g.run = x /\ g.phase = "undo_work" /\ g.at = Top.at /\ [Top EXCEPT !.phase = "undo_work"] = g
        BY <1>1, <1>2, TopPhase DEF Quiet
  <2>4. "RUNNING" \in NodeStates
        BY DEF NodeStates
  <2>5. N \in [DOMAIN N1 -> NodeStates] /\ \A j \in DOMAIN N1 : j # u => N[j] = N1[j]
        BY <1>1, <2>4, SetAtIs
  <2> HIDE DEF g, N
  <2>6. TreeOf(tree, WithNodes(subRuns, x, N), Append(Front(stack), g))
    <3>1. \A j \in DOMAIN N : j # UndoOf(tree, subRuns, Top) => N[j] = subRuns[x].nodes[j]
          BY <2>5
    <3> QED BY <1>1, <1>2, <2>3, <2>5, <3>1, PhaseKeeps
  <2>7. startsAfter = 0
        BY <1>4 DEF Guarded, TreeInv, StartsAreFew
  <2> QED BY <1>1, <1>2, <1>4, <2>2, <2>3, <2>6, <2>7, TreeMoved
<1> QED BY <1>3, <1>4 DEF StartUndo

\* The compensation of a node gets its end, and the node with it
LEMMA BothAre ==
    ASSUME NEW D, NEW N1 \in [D -> NodeStates], NEW u, NEW a \in NodeStates, NEW at \in D, NEW b \in NodeStates
    PROVE  /\ SetAt(SetAt(N1, u, a), at, b) \in [D -> NodeStates] /\ SetAt(SetAt(N1, u, a), at, b)[at] = b
           /\ \A j \in D : j # at => SetAt(SetAt(N1, u, a), at, b)[j] = N1[j] \/ j = u
<1>1. SetAt(N1, u, a) \in [D -> NodeStates] /\ \A j \in D : j # u => SetAt(N1, u, a)[j] = N1[j]
      BY SetAtIs
<1> QED BY <1>1, SetAtIs

LEMMA UndoIsUndone ==
    ASSUME TreeInv, stack # <<>>, NEW i \in DOMAIN stack, NEW f, f = stack[i],
           f.phase \notin {"next", "ending"}, NEW j \in DOMAIN subRuns[f.run].nodes, j = NodeOf(f).undo
    PROVE  j \in Undone(tree, subRuns, f.run)
<1>1. /\ TreeOf(tree, subRuns, stack) /\ FrameIs(tree, subRuns, f.run, f)
      /\ DOMAIN subRuns[f.run].nodes = 1 .. Len(tree[subRuns[f.run].workflow])
      /\ Len(tree[subRuns[f.run].workflow]) \in Nat
      BY FrameAt DEF TreeInv
<1>2. f.run \in DOMAIN subRuns
      BY <1>1, FrameAt
<1>3. DOMAIN subRuns[f.run].nodes = DOMAIN tree[subRuns[f.run].workflow]
      BY <1>1, <1>2 DEF TreeOf, RowsAreHonest
<1>4. f.at \in DOMAIN tree[subRuns[f.run].workflow]
      BY <1>1, <1>3 DEF FrameIs
<1>5. j \in Nat \ {0}
      BY <1>1
<1> QED BY <1>4, <1>5, UndoIsElse, ZenonT(30) DEF NodeOf, Chain, UndoOf

LEMMA UndoEndsKeeps ==
    ASSUME TreeInv, NEW ok \in BOOLEAN, UndoEnds(ok)
    PROVE  TreeInv'
<1> DEFINE x == Top.run
           N1 == subRuns[x].nodes
           u == NodeOf(Top).undo
<1>1. /\ TreeOf(tree, subRuns, stack) /\ subRuns \in Seq(TreeRow(tree)) /\ Top = Last(stack)
      /\ x \in DOMAIN subRuns /\ stack # <<>> /\ Top.at \in Nat /\ x \in Nat /\ FrameIs(tree, subRuns, x, Top)
      BY TreeTop DEF UndoEnds
<1>2. N1 \in [DOMAIN N1 -> NodeStates]
      BY <1>1, TreeTop
<1>3. Top.phase = "undoing" /\ UNCHANGED treeMarks
      BY DEF UndoEnds, treeMarks
<1>4. Top.at \in DOMAIN N1
      BY <1>1, <1>3 DEF FrameIs
<1>5. \A j \in DOMAIN N1 : j = u => j \in Undone(tree, subRuns, x)
  <2> SUFFICES ASSUME NEW j \in DOMAIN N1, j = u PROVE j \in Undone(tree, subRuns, x)
      OBVIOUS
  <2>1. Len(stack) \in DOMAIN stack /\ Top = stack[Len(stack)]
        BY <1>1, StacksAre DEF TreeOf
  <2>2. Top.phase \notin {"next", "ending"}
        BY <1>3
  <2> QED BY <1>1, <2>1, <2>2, UndoIsUndone
<1>6. ASSUME NEW a \in NodeStates, NEW b \in NodeStates
      PROVE  LET N == SetAt(SetAt(N1, u, a), Top.at, b) IN
             /\ N \in [DOMAIN N1 -> NodeStates] /\ N[Top.at] = b
             /\ \A j \in DOMAIN N1 : j # Top.at => N[j] = N1[j] \/ j \in Undone(tree, subRuns, x)
             /\ SetNode(SetNode(subRuns, x, u, a), x, Top.at, b) = WithNodes(subRuns, x, N)
  <2> HIDE DEF u, N1
  <2>1. SetNode(SetNode(subRuns, x, u, a), x, Top.at, b) = WithNodes(subRuns, x, SetAt(SetAt(N1, u, a), Top.at, b))
        BY <1>1, SetTwiceIs DEF N1
  <2>2. /\ SetAt(SetAt(N1, u, a), Top.at, b) \in [DOMAIN N1 -> NodeStates] /\ SetAt(SetAt(N1, u, a), Top.at, b)[Top.at] = b
        /\ \A j \in DOMAIN N1 : j # Top.at => SetAt(SetAt(N1, u, a), Top.at, b)[j] = N1[j] \/ j = u
        BY <1>2, <1>4, BothAre
  <2> QED BY <1>5, <2>1, <2>2
<1>7. CASE /\ subRuns' = SetNode(subRuns, x, u, "SUCCEEDED") /\ Move([Top EXCEPT !.phase = "undone"])
  <2> DEFINE N == SetAt(N1, u, "SUCCEEDED")
             g == [run |-> x, at |-> Top.at, phase |-> "undone"]
  <2>1. u = UndoOf(tree, subRuns, Top)
        BY DEF NodeOf, Chain, UndoOf
  <2>2. subRuns' = WithNodes(subRuns, x, N)
        BY <1>7, SetNodeIs DEF SetAt
  <2>3. g \in Frames /\ g.run = x /\ g.phase = "undone" /\ g.at = Top.at /\ [Top EXCEPT !.phase = "undone"] = g
        BY <1>1, <1>3, TopPhase DEF Quiet
  <2>4. "SUCCEEDED" \in NodeStates
        BY DEF NodeStates
  <2>5. /\ N \in [DOMAIN N1 -> NodeStates] /\ \A j \in DOMAIN N1 : j # u => N[j] = N1[j]
        /\ \A j \in DOMAIN N1 : j = u => N[j] = "SUCCEEDED"
        BY <1>2, <2>4, SetAtIs
  <2> HIDE DEF g, N, u
  <2>6. TreeOf(tree, WithNodes(subRuns, x, N), Append(Front(stack), g))
    <3>1. /\ \A j \in DOMAIN N : j # UndoOf(tree, subRuns, Top) => N[j] = subRuns[x].nodes[j]
          /\ \A j \in DOMAIN N : j = UndoOf(tree, subRuns, Top) => N[j] = "SUCCEEDED"
          BY <2>1, <2>5
    <3> QED BY <1>1, <1>3, <2>3, <2>5, <3>1, PhaseKeeps
  <2>7. g.phase \notin {"work", "undo_work"}
        BY <2>3
  <2> QED BY <1>1, <1>3, <1>7, <2>2, <2>3, <2>6, <2>7, TreeMoved
<1>8. CASE subRuns' = SetNode(SetNode(subRuns, x, u, "FAILED"), x, Top.at, "FAILED") /\ Onward
  <2> DEFINE N == SetAt(SetAt(N1, u, "FAILED"), Top.at, "FAILED")
             g == [run |-> x, at |-> Top.at + 1, phase |-> "next"]
  <2>1. "FAILED" \in NodeStates /\ "FAILED" \in Failed \cup {"SUCCEEDED"} /\ "FAILED" \in Failed
        BY DEF NodeStates, Failed
  <2>2. /\ N \in [DOMAIN N1 -> NodeStates] /\ N[Top.at] = "FAILED"
        /\ \A j \in DOMAIN N1 : j # Top.at => N[j] = N1[j] \/ j \in Undone(tree, subRuns, x)
        /\ subRuns' = WithNodes(subRuns, x, N)
        BY <1>6, <1>8, <2>1
  <2>3. g \in Frames /\ g.phase = "next" /\ Move(g)
        BY <1>1, <1>8 DEF Frames, Quiet, Onward
  <2> HIDE DEF N, u
  <2>4. TreeOf(tree, WithNodes(subRuns, x, N), Append(Front(stack), g))
    <3>1. \A j \in DOMAIN N : j # Top.at =>
             N[j] = subRuns[x].nodes[j] \/ (Top.phase \in {"undo_work", "undoing"} /\ j \in Undone(tree, subRuns, x))
          BY <1>3, <2>2
    <3>2. Top.phase \notin {"next", "ending"}
          BY <1>3
    <3> QED BY <1>1, <3>2, <2>1, <2>2, <3>1, EndsKeep
  <2> HIDE DEF g
  <2> QED BY <1>1, <1>3, <2>2, <2>3, <2>4, TreeMoved
<1>9. CASE /\ subRuns' = SetNode(SetNode(subRuns, x, u, TreeRaised), x, Top.at, TreeRaised)
           /\ Move(RunEnds(Top, TreeRaised))
  <2> DEFINE N == SetAt(SetAt(N1, u, TreeRaised), Top.at, TreeRaised)
             g == [run |-> x, at |-> Top.at, phase |-> "ending", status |-> TreeRaised]
  <2>1. TreeRaised \in NodeStates /\ TreeRaised \in {"CANCELLED", "TIMED_OUT"}
        BY TreeRaisedIs DEF NodeStates
  <2>2. /\ N \in [DOMAIN N1 -> NodeStates] /\ N[Top.at] = TreeRaised
        /\ \A j \in DOMAIN N1 : j # Top.at => N[j] = N1[j] \/ j \in Undone(tree, subRuns, x)
        /\ subRuns' = WithNodes(subRuns, x, N)
        BY <1>6, <1>9, <2>1
  <2>3. g \in Frames /\ g.phase = "ending" /\ Move(g)
        BY <1>1, <1>9, <2>1 DEF Frames, EndedRun, RunEnds
  <2> HIDE DEF N, u
  <2>4. TreeOf(tree, WithNodes(subRuns, x, N), Append(Front(stack), g))
    <3>1. \A j \in DOMAIN N : j # Top.at =>
             N[j] = subRuns[x].nodes[j] \/ (Top.phase \in {"undo_work", "undoing"} /\ j \in Undone(tree, subRuns, x))
          BY <1>3, <2>2
    <3>2. Top.phase \notin {"next", "ending"} /\ TreeRaised # "SUCCEEDED"
          BY <1>3, <2>1
    <3> QED BY <1>1, <3>2, <2>1, <2>2, <3>1, EndsKeep
  <2> HIDE DEF g
  <2> QED BY <1>1, <1>3, <2>2, <2>3, <2>4, TreeMoved
<1> QED BY <1>7, <1>8, <1>9 DEF UndoEnds

LEMMA GiveUpIsKept ==
    ASSUME TreeInv, NEW k \in DOMAIN stack, NEW byDeadline \in BOOLEAN, GiveUp(k, byDeadline)
    PROVE  TreeInv'
<1> DEFINE f == stack[k]
           x == f.run
           N1 == subRuns[x].nodes
           u == NodeOf(f).undo
           U == Unwound(subRuns, SubSeq(stack, k + 1, Len(stack)))
           both == f.phase \in {"undo_work", "undoing"}
           N == IF both THEN SetAt(SetAt(N1, u, "CANCELLED"), f.at, "TIMED_OUT") ELSE SetAt(N1, f.at, "TIMED_OUT")
           g == IF byDeadline THEN [run |-> x, at |-> f.at, phase |-> "ending", status |-> "TIMED_OUT"]
                ELSE [run |-> x, at |-> f.at + 1, phase |-> "next"]
           S2 == Append(SubSeq(stack, 1, k - 1), g)
<1>1. /\ TreeOf(tree, subRuns, stack) /\ subRuns \in Seq(TreeRow(tree)) /\ stack \in Seq(Frames)
      /\ k \in 1 .. Len(stack) /\ stack # <<>>
      BY StacksAre DEF TreeInv, TreeOf
<1>2. /\ x \in DOMAIN subRuns /\ f \in Frames /\ f.at \in Nat /\ x \in Nat /\ FrameIs(tree, subRuns, x, f)
      BY <1>1, FrameAt
<1>3. InDispatch(f) /\ f.phase \notin {"next", "ending"} /\ UNCHANGED treeMarks
      BY DEF GiveUp, InDispatch, treeMarks
<1>4. f.at \in DOMAIN N1
      BY <1>2, <1>3 DEF FrameIs
<1>5. N1 \in [DOMAIN N1 -> NodeStates]
  <2>1. subRuns[x] \in TreeRow(tree)
        BY <1>1, <1>2
  <2> QED BY <2>1 DEF TreeRow
<1>6. U[x] = subRuns[x] /\ U \in Seq(TreeRow(tree)) /\ x \in DOMAIN U
  <2> HIDE DEF U
  <2>1. U = Unwound(subRuns, SubSeq(stack, k + 1, Len(stack)))
        BY DEF U
  <2>2. Alters(tree, subRuns, U, {stack[j].run : j \in (k + 1) .. Len(stack)}) /\ U[stack[k].run] = subRuns[stack[k].run]
        BY <1>1, <2>1, UnwoundIs
  <2> QED BY <1>2, <2>2 DEF Alters
<1>7. \A j \in DOMAIN N1 : j = u => j \in Undone(tree, subRuns, x)
      BY <1>1, <1>3, UndoIsUndone
<1>8. "CANCELLED" \in NodeStates /\ "TIMED_OUT" \in NodeStates
      BY DEF NodeStates
<1>9. /\ N \in [DOMAIN N1 -> NodeStates] /\ N[f.at] = "TIMED_OUT"
      /\ \A j \in DOMAIN N1 : j # f.at => N[j] = N1[j] \/ (both /\ j \in Undone(tree, subRuns, x))
  <2> HIDE DEF N1, u
  <2>1. CASE both
    <3>1. /\ SetAt(SetAt(N1, u, "CANCELLED"), f.at, "TIMED_OUT") \in [DOMAIN N1 -> NodeStates]
          /\ SetAt(SetAt(N1, u, "CANCELLED"), f.at, "TIMED_OUT")[f.at] = "TIMED_OUT"
          /\ \A j \in DOMAIN N1 : j # f.at => SetAt(SetAt(N1, u, "CANCELLED"), f.at, "TIMED_OUT")[j] = N1[j] \/ j = u
          BY <1>4, <1>5, <1>8, BothAre
    <3> QED BY <2>1, <3>1, <1>7
  <2>2. CASE ~ both
    <3>1. /\ SetAt(N1, f.at, "TIMED_OUT") \in [DOMAIN N1 -> NodeStates]
          /\ SetAt(N1, f.at, "TIMED_OUT")[f.at] = "TIMED_OUT"
          /\ \A j \in DOMAIN N1 : j # f.at => SetAt(N1, f.at, "TIMED_OUT")[j] = N1[j]
          BY <1>4, <1>5, <1>8, SetAtIs
    <3> QED BY <2>2, <3>1
  <2> QED BY <2>1, <2>2
<1>10. subRuns' = WithNodes(U, x, N)
  <2>1. subRuns' = SetNode(IF both THEN SetNode(U, x, u, "CANCELLED") ELSE U, x, f.at, "TIMED_OUT")
        BY DEF GiveUp
  <2> HIDE DEF U, u, both
  <2>2. CASE both
    <3>1. SetNode(SetNode(U, x, u, "CANCELLED"), x, f.at, "TIMED_OUT")
            = WithNodes(U, x, SetAt(SetAt(U[x].nodes, u, "CANCELLED"), f.at, "TIMED_OUT"))
          BY <1>6, SetTwiceIs
    <3> QED BY <1>6, <2>1, <2>2, <3>1
  <2>3. CASE ~ both
    <3>1. SetNode(U, x, f.at, "TIMED_OUT") = WithNodes(U, x, SetAt(U[x].nodes, f.at, "TIMED_OUT"))
          BY SetNodeIs DEF SetAt
    <3> QED BY <1>6, <2>1, <2>3, <3>1
  <2> QED BY <2>2, <2>3
<1>11. stack' = S2
       BY DEF GiveUp, RunEnds
<1>12. /\ g \in Frames /\ g.run = x /\ g.phase \in {"next", "ending"}
       /\ \/ g.phase = "next" /\ g.at = f.at + 1
          \/ g.phase = "ending" /\ g.at = f.at /\ g.status # "SUCCEEDED"
  <2>1. CASE byDeadline
        BY <2>1, <1>2 DEF Frames, EndedRun
  <2>2. CASE ~ byDeadline
        BY <2>2, <1>2 DEF Frames, Quiet
  <2> QED BY <2>1, <2>2
<1> HIDE DEF N, g
<1>13. TreeOf(tree, WithNodes(U, x, N), S2)
  <2>1. U = Unwound(subRuns, SubSeq(stack, k + 1, Len(stack)))
        OBVIOUS
  <2>2. \A n \in DOMAIN N : n # f.at =>
           \/ N[n] = subRuns[x].nodes[n]
           \/ f.phase \in {"undo_work", "undoing"} /\ n \in Undone(tree, subRuns, x)
        BY <1>9
  <2> HIDE DEF U
  <2> QED BY <1>1, <1>3, <1>9, <1>12, <2>1, <2>2, GiveUpKeeps
<1> HIDE DEF U
<1>14. IsCut(stack, S2, k, g)
       BY <1>1, <1>12, CutAt
<1> HIDE DEF S2
<1>15. S2 # <<>> => Last(S2).phase \notin {"work", "undo_work"}
  <2>1. S2[Len(S2)] = g
        BY <1>14 DEF IsCut
  <2> QED BY <1>12, <2>1 DEF Last
<1> QED BY <1>3, <1>10, <1>11, <1>13, <1>15, Kept

LEMMA CancelKeeps ==
    ASSUME TreeInv, TreeCancel \/ TreeDeadline
    PROVE  TreeInv'
BY DEF TreeInv, TreeCancel, TreeDeadline, StartsAreFew

LEMMA TreeStarts ==
    ASSUME TreeInit
    PROVE  TreeInv
<1> DEFINE q == NewRow(RootWorkflow, 0, 0, "RUNNING")
           D == DOMAIN tree[RootWorkflow]
           f == [run |-> 1, at |-> 1, phase |-> "next"]
<1>1. /\ tree \in WorkflowTrees /\ subRuns = <<q>> /\ stack = <<f>>
      /\ treeCancelled = FALSE /\ treeLate = FALSE /\ startsAfter = 0
      BY DEF TreeInit
<1>2. RootWorkflow \in DOMAIN tree /\ D = 1 .. Len(tree[RootWorkflow]) /\ Len(tree[RootWorkflow]) \in Nat
      BY <1>1, SubWorkflowAssumption
<1>3. /\ q.workflow = RootWorkflow /\ q.parent = 0 /\ q.node = 0 /\ q.status = "RUNNING"
      /\ DOMAIN q.nodes = D /\ \A n \in D : q.nodes[n] = "PENDING"
      BY DEF NewRow
<1>4. q \in TreeRow(tree)
  <2>1. [i \in D |-> "PENDING"] \in [D -> NodeStates] /\ D \in SUBSET Nat
        BY <1>2 DEF NodeStates
  <2>2. [i \in D |-> "PENDING"] \in UNION {[E -> NodeStates] : E \in SUBSET Nat}
        BY <2>1
  <2>3. q = [workflow |-> RootWorkflow, parent |-> 0, node |-> 0, status |-> "RUNNING", nodes |-> [i \in D |-> "PENDING"]]
        BY DEF NewRow
  <2>4. "RUNNING" \in Open \cup EndedRun
        BY DEF Open
  <2> QED BY <1>2, <2>2, <2>3, <2>4 DEF TreeRow
<1>5. f \in Frames /\ f.run = 1 /\ f.at = 1 /\ f.phase = "next"
      BY DEF Frames, Quiet
<1> HIDE DEF q, f
<1>6. subRuns \in Seq(TreeRow(tree)) /\ DOMAIN subRuns = {1} /\ subRuns[1] = q
      BY <1>1, <1>4
<1>7. stack \in Seq(Frames) /\ DOMAIN stack = {1} /\ stack[1] = f /\ Len(stack) = 1
      BY <1>1, <1>5
<1>8. Stacked(subRuns, stack)
      BY <1>3, <1>5, <1>6, <1>7 DEF Stacked
<1>9. RowsAreHonest(tree, subRuns)
      BY <1>3, <1>6 DEF RowsAreHonest
<1>10. Family(tree, subRuns, stack)
       BY <1>3, <1>6 DEF Family
<1>11. FrameIs(tree, subRuns, 1, f)
       BY <1>2, <1>3, <1>5, <1>6 DEF FrameIs
<1>12. Settling(tree, subRuns, 1, f)
  <2>1. \A j \in DOMAIN subRuns[1].nodes : j \in Nat /\ ~ (j < 1) /\ subRuns[1].nodes[j] = "PENDING"
        BY <1>2, <1>3, <1>6
  <2> QED BY <2>1, <1>5 DEF Settling
<1>13. TreeOf(tree, subRuns, stack)
       BY <1>1, <1>5, <1>6, <1>7, <1>8, <1>9, <1>10, <1>11, <1>12 DEF TreeOf
<1>14. StartsAreFew(stack, treeCancelled, startsAfter)
       BY <1>1, <1>7 DEF StartsAreFew
<1> QED BY <1>1, <1>13, <1>14 DEF TreeInv

LEMMA TreeStays ==
    ASSUME TreeInv, UNCHANGED treeVars
    PROVE  TreeInv'
BY DEF TreeInv, treeVars

LEMMA TreeStep ==
    ASSUME TreeInv, [TreeNext]_treeVars
    PROVE  TreeInv'
<1>1. CASE EnterNode
      BY <1>1, EnterNodeKeeps
<1>2. CASE DispatchTooLate \/ SkillRaises \/ LeaveUndo \/ \E ok \in BOOLEAN : SkillReturns(ok)
  <2>1. Top.phase # "result"
        BY <1>2 DEF DispatchTooLate, SkillRaises, LeaveUndo, SkillReturns
  <2>2. ~ ChildReturns
        BY <2>1 DEF ChildReturns
  <2> QED BY <1>2, <2>2, EndingActions
<1>3. CASE StartSkill
      BY <1>3, StartSkillKeeps
<1>4. CASE CreateChild
      BY <1>4, CreateChildKeeps
<1>5. CASE CallChild
      BY <1>5, CallChildKeeps
<1>6. ASSUME NEW ok \in BOOLEAN, UndoEnds(ok) PROVE TreeInv'
      BY <1>6, UndoEndsKeeps
<1>7. CASE LeaveLoop
      BY <1>7, LeaveLoopKeeps
<1>8. CASE EndRun
      BY <1>8, EndRunKeeps
<1>9. CASE OutputRaises
      BY <1>9, OutputRaisesKeeps
<1>10. CASE ChildReturns
       BY <1>10, ChildReturnsKeeps
<1>11. CASE StartUndo
       BY <1>11, StartUndoKeeps
<1>12. ASSUME NEW k \in DOMAIN stack, NEW byDeadline \in BOOLEAN, GiveUp(k, byDeadline) PROVE TreeInv'
       BY <1>12, GiveUpIsKept
<1>13. CASE TreeCancel \/ TreeDeadline
       BY <1>13, CancelKeeps
<1>14. CASE UNCHANGED treeVars
       BY <1>14, TreeStays
<1> QED BY <1>1, <1>2, <1>3, <1>4, <1>5, <1>6, <1>7, <1>8, <1>9, <1>10, <1>11, <1>12, <1>13, <1>14 DEF TreeNext

\* What the frames say of a child holds of it whether its parent runs or not
LEMMA TreeSays ==
    ASSUME TreeInv
    PROVE  TreeIsHonest
<1>1. TreeOf(tree, subRuns, stack) /\ startsAfter <= 1
      BY DEF TreeInv, StartsAreFew
<1>2. ASSUME NEW r \in DOMAIN subRuns
      PROVE  subRuns[r].status = "SUCCEEDED" =>
               \A i \in DOMAIN subRuns[r].nodes : subRuns[r].nodes[i] \in {"SUCCEEDED", "SKIPPED"}
      BY <1>1 DEF TreeOf, RowsAreHonest, Fine
<1>3. ASSUME NEW r \in DOMAIN subRuns, subRuns[r].parent # 0
      PROVE  /\ Earned(tree, subRuns, r)
             /\ subRuns[r].status \in Open /\ ~ Executing(r)
                /\ subRuns[subRuns[r].parent].nodes[subRuns[r].node] # "RUNNING" => Closed(subRuns, r)
  <2>1. CASE \A i \in DOMAIN stack : stack[i].run # subRuns[r].parent
        BY <1>1, <1>3, <2>1 DEF TreeOf, Family
  <2>2. ASSUME NEW i \in DOMAIN stack, stack[i].run = subRuns[r].parent
        PROVE  /\ Earned(tree, subRuns, r)
               /\ subRuns[subRuns[r].parent].nodes[subRuns[r].node] # "RUNNING" => Closed(subRuns, r)
    <3>1. Kid(tree, subRuns, stack[i], Below(stack, i), r)
          BY <1>1, <1>3, <2>2 DEF TreeOf, Family
    <3>2. Earned(tree, subRuns, r)
          BY <3>1 DEF Kid
    <3>3. CASE subRuns[r].node < stack[i].at \/ stack[i].phase = "ending"
          BY <3>1, <3>2, <3>3 DEF Kid
    <3>4. CASE subRuns[r].node = stack[i].at /\ stack[i].phase \notin {"next", "ending"}
      <4>1. FrameIs(tree, subRuns, stack[i].run, stack[i])
            BY <1>1 DEF TreeOf
      <4>2. subRuns[subRuns[r].parent].nodes[subRuns[r].node] = "RUNNING"
            BY <2>2, <3>4, <4>1 DEF FrameIs
      <4> QED BY <3>2, <4>2
    <3> QED BY <3>1, <3>3, <3>4 DEF Kid
  <2> QED BY <2>1, <2>2
<1>4. ASSUME NEW r \in DOMAIN subRuns, subRuns[r].parent # 0
      PROVE  LET node == subRuns[subRuns[r].parent].nodes[subRuns[r].node] IN
             /\ node = "SUCCEEDED" => subRuns[r].status = "SUCCEEDED" \/
                   (Chain(subRuns[r].parent)[subRuns[r].node].policy = "continue" /\ subRuns[r].status \in EndedRun)
             /\ subRuns[r].status \in Open /\ ~ Executing(r) /\ node # "RUNNING" => node \in Blocking
      BY <1>3, <1>4 DEF Earned, Closed, Chain
<1> QED BY <1>1, <1>2, <1>4 DEF TreeIsHonest

(* Honest trees: at any depth and for any definitions, a run that succeeded *)
(* has only nodes that succeeded or were skipped, a node that succeeded has *)
(* a child that did or whose failure its definition tolerates, a child left *)
(* open by a cancelled or overtaken coroutine is below a node that blocks   *)
(* its successors, and after a cancellation one more skill starts at most   *)
(* (execute, _run_sub_workflow, _execute_compensation, _guard).             *)
THEOREM TreesAreHonest == TreeInit /\ [][TreeNext]_treeVars => []TreeIsHonest
<1>1. TreeInit => TreeInv
      BY TreeStarts
<1>2. TreeInv /\ [TreeNext]_treeVars => TreeInv'
      BY TreeStep
<1>3. TreeInv => TreeIsHonest
      BY TreeSays
<1> QED BY <1>1, <1>2, <1>3, PTL

=============================================================================
