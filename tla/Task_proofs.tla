------------------------------ MODULE Task_proofs ------------------------------
(***************************************************************************)
(* Theorems about DelayedOutcome and GovernedTask, for any tasks, plans,   *)
(* identities, side effects and evaluators, and any number of attempts,    *)
(* interruptions, requests and pieces of evidence: what is recorded about  *)
(* a task is true, an effect that must not be repeated is asked for, and   *)
(* the rows of a task live the life that TaskLife describes.               *)
(***************************************************************************)
EXTENDS DelayedOutcome, TLAPS

Places == {"idle", "planned", "dispatch", "running", "ended", "settled", "recorded", "decided"}
Words == TaskEnds \cup DOMAIN RecoveredAs \cup {"none", "cancel", "NORMAL", "SAFE"}
CallRow == [pc : Places, kind : {"none", "govern", "motor"}, attempt : Nat, late : BOOLEAN, word : Words]
OutcomeRow == [by : {"task", "window"}, status : TaskEnds, attempt : Nat, covers : SUBSET Evidence,
               execution : Assessments]
WindowStatus == {"NONE", "OPEN", "CLOSED", "EVALUATED"}
Request == [pc : {"idle", "checked", "recorded"}, task : Tasks \cup {"none"}, status : TaskEnds \cup {"none"},
            seen : SUBSET Evidence]

RowsTyped ==
    /\ effect \in [Tasks -> SideEffects]
    /\ due \subseteq Tasks /\ context \subseteq Tasks
    /\ grant \in [Tasks -> GrantStatus]
    /\ authorized \in [Tasks -> Nat] /\ invoked \in [Tasks -> Nat] /\ requested \in [Tasks -> Nat]
    /\ task \in [Tasks -> TaskRow]
    /\ runs \in [Tasks -> Seq(RunStatus)]
    /\ call \in [Tasks -> CallRow]
    /\ outcomes \in [Tasks -> Seq(OutcomeRow)]

WindowsTyped ==
    /\ window \in [Tasks -> WindowStatus]
    /\ evidence \in [Tasks -> SUBSET Evidence]
    /\ evaluator \in [Evaluators -> Request]

\* The counters of a task agree: an attempt is authorised, opened and given a run in one step.
Counted(t) ==
    /\ task[t].attempt = Len(runs[t]) /\ authorized[t] = Len(runs[t])
    /\ invoked[t] <= Len(runs[t])
    /\ task[t].status = "NONE" <=> Len(runs[t]) = 0

\* What a call remembers of its task is so, however long ago it was read.
Remembers(t) ==
    /\ call[t].pc \in {"running", "ended", "decided"} => task[t].status = "RUNNING"
    /\ call[t].pc \in {"running", "ended", "settled", "decided"} => call[t].attempt = Len(runs[t])
    /\ call[t].pc \in {"ended", "settled"} => call[t].word \in RunEnds
    /\ call[t].pc = "ended" => Last(runs[t]) = call[t].word
    /\ call[t].pc = "decided" =>
           /\ call[t].word \in DOMAIN RecoveredAs
           /\ call[t].word = "COMPLETE" => effect[t] = "QUERYABLE" /\ invoked[t] = Len(runs[t])
           /\ call[t].word = "REPLAY" => effect[t] \in {"PURE", "IDEMPOTENT"}

\* The attempts of a task whose effect must not be repeated were asked for,
\* the one that a call is about to open included.
AskedFor(t) ==
    effect[t] \in {"QUERYABLE", "NON_REPLAYABLE"} =>
        /\ Len(runs[t]) <= requested[t]
        /\ call[t].pc \in {"planned", "dispatch"} => Len(runs[t]) < requested[t]

Earned(t) ==
    task[t].status = "SUCCEEDED" =>
        Last(runs[t]) = "SUCCEEDED" \/ (effect[t] = "QUERYABLE" /\ invoked[t] = Len(runs[t]))

InStep(t) == Counted(t) /\ Remembers(t) /\ AskedFor(t) /\ Earned(t)

\* An outcome of a task, told by its call or for its window
True(t, o) ==
    /\ o.attempt \in 1 .. task[t].attempt
    /\ o.execution = "PASSED" => runs[t][o.attempt] = "SUCCEEDED" \/ effect[t] = "QUERYABLE"
    /\ o.attempt = task[t].attempt => o.status = task[t].status
Covering(t, o) ==
    o.by = "window" => o.covers = evidence[t] /\ window[t] \in {"CLOSED", "EVALUATED"}

ToldFor(t) == \E i \in DOMAIN outcomes[t] : outcomes[t][i].by = "window"

Told ==
    /\ \A t \in Tasks : \A i \in DOMAIN outcomes[t] : True(t, outcomes[t][i]) /\ Covering(t, outcomes[t][i])
    /\ \A t \in Tasks : window[t] = "EVALUATED" => ToldFor(t)

\* A request that waits for a transaction names all the evidence there will ever be.
Asking ==
    \A e \in Evaluators : evaluator[e].pc # "idle" =>
        /\ evaluator[e].task \in Tasks
        /\ evaluator[e].status \in TaskEnds
        /\ evaluator[e].seen = evidence[evaluator[e].task]
        /\ window[evaluator[e].task] \in {"CLOSED", "EVALUATED"}
        /\ evaluator[e].pc = "recorded" => ToldFor(evaluator[e].task)

IInv == RowsTyped /\ WindowsTyped /\ (\A t \in Tasks : InStep(t)) /\ Told /\ Asking

-----------------------------------------------------------------------------
(* What a step of one task may do to its rows without making an outcome    *)
(* untrue: a success stays, and a status is left by opening or closing an  *)
(* attempt.                                                                *)
Kept(t) ==
    /\ task'[t].attempt >= task[t].attempt
    /\ \A k \in DOMAIN runs[t] : runs[t][k] = "SUCCEEDED" => runs'[t][k] = "SUCCEEDED"
    /\ task'[t].attempt = task[t].attempt => task'[t].status = task[t].status \/ task[t].status = "RUNNING"

LEMMA TaskStep ==
    ASSUME IInv, NEW t \in Tasks, RowsTyped', InStep(t)', Kept(t),
           UNCHANGED <<effect, outcomes, window, evidence, evaluator>>,
           \A u \in Tasks : u # t => /\ task'[u] = task[u] /\ runs'[u] = runs[u] /\ call'[u] = call[u]
                                     /\ authorized'[u] = authorized[u] /\ invoked'[u] = invoked[u]
                                     /\ requested'[u] = requested[u]
    PROVE  IInv'
<1>1. \A u \in Tasks : InStep(u)'
  <2>1. ASSUME NEW u \in Tasks, u # t PROVE InStep(u)'
    <3>1. InStep(u)
          BY DEF IInv
    <3> QED BY <2>1, <3>1 DEF InStep, Counted, Remembers, AskedFor, Earned
  <2> QED BY <2>1
<1>2. WindowsTyped'
      BY DEF IInv, WindowsTyped
<1>3. \A u \in Tasks : ToldFor(u)' <=> ToldFor(u)
      BY DEF ToldFor
<1>4. Asking'
      BY <1>3 DEF IInv, Asking
<1>5. Told'
  <2>1. ASSUME NEW u \in Tasks, NEW i \in DOMAIN outcomes[u]
        PROVE  True(u, outcomes[u][i])' /\ Covering(u, outcomes[u][i])'
    <3> DEFINE o == outcomes[u][i]
    <3>1. True(u, o) /\ Covering(u, o)
          BY DEF IInv, Told
    <3>2. o \in OutcomeRow
      <4>1. outcomes[u] \in Seq(OutcomeRow)
            BY DEF IInv, RowsTyped
      <4> QED BY <4>1
    <3>3. o' = o
          BY DEF IInv
    <3>4. Covering(u, o)'
          BY <3>1, <3>3 DEF Covering
    <3>5. CASE u # t
          BY <3>1, <3>3, <3>4, <3>5 DEF True
    <3>6. CASE u = t
      <4>1. /\ task[t].attempt = Len(runs[t]) /\ runs[t] \in Seq(RunStatus)
            /\ task[t].attempt \in Nat /\ task'[t].attempt \in Nat /\ o.attempt \in Nat
            BY <3>2 DEF IInv, InStep, Counted, RowsTyped, TaskRow, OutcomeRow
      <4>2. o.attempt \in DOMAIN runs[t] /\ o.attempt \in 1 .. task'[t].attempt
            BY <3>1, <3>6, <4>1 DEF True, Kept
      <4>3. o.execution = "PASSED" => runs'[t][o.attempt] = "SUCCEEDED" \/ effect[t] = "QUERYABLE"
            BY <3>1, <3>6, <4>2 DEF True, Kept
      <4>4. o.attempt = task'[t].attempt => o.status = task'[t].status
        <5>1. o.attempt = task'[t].attempt => task'[t].attempt = task[t].attempt
              BY <3>1, <3>6, <4>1 DEF True, Kept
        <5>2. o.status # "RUNNING"
              BY <3>2 DEF OutcomeRow, TaskEnds, RunEnds
        <5> QED BY <3>1, <3>6, <5>1, <5>2 DEF True, Kept
      <4> QED BY <3>3, <3>4, <3>6, <4>2, <4>3, <4>4 DEF True
    <3> QED BY <3>5, <3>6
  <2>2. ASSUME NEW u \in Tasks PROVE (window[u] = "EVALUATED" => ToldFor(u))'
        BY <1>3 DEF IInv, Told
  <2> QED BY <2>1, <2>2 DEF Told
<1> QED BY <1>1, <1>2, <1>4, <1>5 DEF IInv

(* A step that writes only the record of a call.                           *)
LEMMA CallStep ==
    ASSUME IInv, NEW t \in Tasks, NEW k \in CallRow, call' = [call EXCEPT ![t] = k],
           UNCHANGED <<effect, authorized, invoked, task, runs, outcomes, window, evidence, evaluator>>,
           grant' \in [Tasks -> GrantStatus], due' \subseteq Tasks, context' \subseteq Tasks,
           requested' \in [Tasks -> Nat], \A u \in Tasks : u # t => requested'[u] = requested[u],
           Remembers(t)', AskedFor(t)'
    PROVE  IInv'
<1>1. RowsTyped'
      BY DEF IInv, RowsTyped
<1>2. \A u \in Tasks : u # t => call'[u] = call[u]
      BY DEF IInv, RowsTyped
<1>3. InStep(t)'
  <2>1. Counted(t) /\ Earned(t)
        BY DEF IInv, InStep
  <2> QED BY <2>1 DEF InStep, Counted, Earned
<1>4. Kept(t)
      BY DEF Kept, IInv, RowsTyped, TaskRow
<1> QED BY <1>1, <1>2, <1>3, <1>4, TaskStep

(* The end of a call, without a trace or interrupted.                      *)
LEMMA ReturnStep ==
    ASSUME IInv, NEW t \in Tasks, Return(t), context' \subseteq Tasks,
           UNCHANGED <<effect, due, grant, authorized, task, runs, outcomes, invoked, requested,
                       window, evidence, evaluator>>
    PROVE  IInv'
<1>1. NoCall \in CallRow
      BY DEF NoCall, CallRow, Places, Words
<1>2. call'[t] = NoCall
      BY DEF Return, IInv, RowsTyped
<1>3. Remembers(t)'
      BY <1>2 DEF Remembers, NoCall
<1>4. AskedFor(t)'
  <2>1. AskedFor(t)
        BY DEF IInv, InStep
  <2> QED BY <1>2, <2>1 DEF AskedFor, NoCall
<1>5. /\ grant' \in [Tasks -> GrantStatus] /\ due' \subseteq Tasks /\ requested' \in [Tasks -> Nat]
      /\ \A u \in Tasks : u # t => requested'[u] = requested[u]
      BY DEF IInv, RowsTyped
<1> QED BY <1>1, <1>3, <1>4, <1>5, CallStep DEF Return

LEMMA InvInit == DelInit => IInv
<1> SUFFICES ASSUME DelInit PROVE IInv
    OBVIOUS
<1>1. NoTask \in TaskRow /\ NoCall \in CallRow /\ NoRequest \in Request
      BY DEF NoTask, TaskRow, NoCall, CallRow, Places, Words, NoRequest, Request
<1>2. RowsTyped
      BY <1>1, GovernedTaskAssumption DEF DelInit, Init, RowsTyped, GovernedTaskAssumption, GrantStatus
<1>3. WindowsTyped
      BY <1>1 DEF DelInit, WindowsTyped, WindowStatus
<1>4. ASSUME NEW t \in Tasks PROVE InStep(t)
  <2>1. runs[t] = <<>> /\ task[t] = NoTask /\ call[t] = NoCall /\ authorized[t] = 0
        /\ invoked[t] = 0 /\ requested[t] = 0
        BY DEF DelInit, Init
  <2> QED BY <2>1 DEF InStep, Counted, Remembers, AskedFor, Earned, NoTask, NoCall
<1>5. Told /\ Asking
      BY DEF DelInit, Init, Told, Asking, NoRequest
<1> QED BY <1>2, <1>3, <1>4, <1>5 DEF IInv

-----------------------------------------------------------------------------
(* One lemma for each action of a task.                                    *)
LEMMA CallsFit ==
    ASSUME IInv, NEW t \in Tasks
    PROVE  /\ call[t] \in CallRow /\ task[t] \in TaskRow /\ runs[t] \in Seq(RunStatus)
           /\ authorized[t] \in Nat /\ invoked[t] \in Nat /\ requested[t] \in Nat
           /\ effect[t] \in SideEffects /\ grant[t] \in GrantStatus
           /\ Counted(t) /\ Remembers(t) /\ AskedFor(t) /\ Earned(t)
BY DEF IInv, RowsTyped, InStep

LEMMA Dispatched ==
    ASSUME NEW t, NEW kind \in {"govern", "motor"}, NEW n \in Nat
    PROVE  Dispatching(t, kind, n) \in CallRow
BY DEF Dispatching, CallRow, Places, Words

LEMMA ExecuteStep ==
    ASSUME IInv, NEW t \in Tasks, Execute(t), UNCHANGED delVars
    PROVE  IInv'
<1>1. PICK mode \in {"NORMAL", "SAFE"} :
          call' = [call EXCEPT ![t] = [NoCall EXCEPT !.pc = "planned", !.kind = "govern", !.word = mode]]
      BY DEF Execute
<1> DEFINE k == [NoCall EXCEPT !.pc = "planned", !.kind = "govern", !.word = mode]
<1>2. k \in CallRow /\ k.pc = "planned"
      BY DEF NoCall, CallRow, Places, Words
<1>3. call'[t] = k /\ requested[t] = 0 /\ requested'[t] = 1 /\ UNCHANGED <<runs, effect>>
      BY <1>1 DEF Execute, IInv, RowsTyped
<1>4. Remembers(t)'
      BY <1>2, <1>3 DEF Remembers
<1>5. AskedFor(t)'
      BY <1>2, <1>3, CallsFit DEF AskedFor
<1>6. /\ grant' \in [Tasks -> GrantStatus] /\ due' \subseteq Tasks /\ context' \subseteq Tasks
      /\ requested' \in [Tasks -> Nat] /\ \A u \in Tasks : u # t => requested'[u] = requested[u]
      BY DEF Execute, IInv, RowsTyped
<1>7. UNCHANGED <<effect, authorized, invoked, task, runs, outcomes, window, evidence, evaluator>>
      BY DEF Execute, delVars
<1> HIDE DEF k
<1> QED BY <1>1, <1>2, <1>4, <1>5, <1>6, <1>7, CallStep DEF k

LEMMA AdmitStep ==
    ASSUME IInv, NEW t \in Tasks, Admit(t), UNCHANGED delVars
    PROVE  IInv'
<1> DEFINE k == Dispatching(t, "govern", 1)
<1>1. k \in CallRow /\ k.pc = "dispatch"
      BY Dispatched DEF Dispatching
<1>2. call' = [call EXCEPT ![t] = k] /\ call'[t] = k /\ call[t].pc = "planned" /\ UNCHANGED <<runs, effect, requested>>
      BY DEF Admit, At, IInv, RowsTyped
<1>3. Remembers(t)'
      BY <1>1, <1>2 DEF Remembers
<1>4. AskedFor(t)'
      BY <1>1, <1>2, CallsFit DEF AskedFor
<1>5. /\ grant' \in [Tasks -> GrantStatus] /\ due' \subseteq Tasks /\ context' \subseteq Tasks
      /\ requested' \in [Tasks -> Nat]
      BY DEF Admit, Issues, GrantMoves, GrantStatus, IInv, RowsTyped
<1>6. UNCHANGED <<effect, authorized, invoked, task, runs, outcomes, window, evidence, evaluator>>
      BY DEF Admit, delVars
<1> HIDE DEF k
<1> QED BY <1>1, <1>2, <1>3, <1>4, <1>5, <1>6, CallStep

LEMMA RepeatStep ==
    ASSUME IInv, NEW t \in Tasks, Repeat(t), UNCHANGED delVars
    PROVE  IInv'
<1> DEFINE k == Dispatching(t, "motor", task[t].attempt + 1)
<1>1. k \in CallRow /\ k.pc = "dispatch"
      BY Dispatched, CallsFit DEF Dispatching, TaskRow
<1>2. /\ call' = [call EXCEPT ![t] = k] /\ call'[t] = k /\ requested'[t] = requested[t] + 1
      /\ UNCHANGED <<runs, effect>>
      BY DEF Repeat, IInv, RowsTyped
<1>3. Remembers(t)'
      BY <1>1, <1>2 DEF Remembers
<1>4. AskedFor(t)'
      BY <1>1, <1>2, CallsFit DEF AskedFor
<1>5. /\ grant' \in [Tasks -> GrantStatus] /\ due' \subseteq Tasks /\ context' \subseteq Tasks
      /\ requested' \in [Tasks -> Nat] /\ \A u \in Tasks : u # t => requested'[u] = requested[u]
      BY DEF Repeat, IInv, RowsTyped
<1>6. UNCHANGED <<effect, authorized, invoked, task, runs, outcomes, window, evidence, evaluator>>
      BY DEF Repeat, delVars
<1> HIDE DEF k
<1> QED BY <1>1, <1>2, <1>3, <1>4, <1>5, <1>6, CallStep

LEMMA CancelStep ==
    ASSUME IInv, NEW t \in Tasks, Cancel(t), UNCHANGED delVars
    PROVE  IInv'
<1> DEFINE k == [call[t] EXCEPT !.word = "cancel"]
<1>1. /\ k \in CallRow /\ k.pc = call[t].pc /\ k.attempt = call[t].attempt
      /\ call[t].pc = "running"
      BY CallsFit DEF Cancel, At, CallRow, Words
<1>2. call' = [call EXCEPT ![t] = k] /\ call'[t] = k
      BY DEF Cancel, IInv, RowsTyped
<1>3. UNCHANGED <<effect, due, grant, authorized, task, runs, outcomes, context, invoked, requested>>
      BY DEF Cancel
<1>4. Remembers(t)'
      BY <1>1, <1>2, <1>3, CallsFit DEF Remembers
<1>5. AskedFor(t)'
      BY <1>1, <1>2, <1>3, CallsFit DEF AskedFor
<1>6. /\ grant' \in [Tasks -> GrantStatus] /\ due' \subseteq Tasks /\ context' \subseteq Tasks
      /\ requested' \in [Tasks -> Nat]
      BY <1>3 DEF IInv, RowsTyped
<1> HIDE DEF k
<1> QED BY <1>1, <1>2, <1>3, <1>4, <1>5, <1>6, CallStep DEF delVars

(* The grant and the clock concern no row of the task.                     *)
LEMMA GrantStep ==
    ASSUME IInv, NEW t \in Tasks, Expires(t) \/ (\E s \in {"REVOKED", "EXPIRED"} : EndGrant(t, s)),
           UNCHANGED delVars
    PROVE  IInv'
<1>1. UNCHANGED <<effect, authorized, task, runs, outcomes, context, invoked, requested, call>>
      BY DEF Expires, EndGrant
<1>2. grant' \in [Tasks -> GrantStatus] /\ due' \subseteq Tasks
  <2>1. CASE Expires(t)
        BY <2>1 DEF Expires, IInv, RowsTyped
  <2>2. CASE \E s \in {"REVOKED", "EXPIRED"} : EndGrant(t, s)
        BY <2>2 DEF EndGrant, GrantMoves, GrantStatus, IInv, RowsTyped
  <2> QED BY <2>1, <2>2
<1>3. Remembers(t)' /\ AskedFor(t)'
      BY <1>1, CallsFit DEF Remembers, AskedFor
<1>4. call' = [call EXCEPT ![t] = call[t]] /\ call[t] \in CallRow /\ context' \subseteq Tasks
      /\ requested' \in [Tasks -> Nat]
      BY <1>1 DEF IInv, RowsTyped
<1> QED BY <1>1, <1>2, <1>3, <1>4, CallStep DEF delVars

LEMMA DecideStep ==
    ASSUME IInv, NEW t \in Tasks, Decide(t), UNCHANGED delVars
    PROVE  IInv'
<1>1. PICK answer \in Answers(t) :
          call' = [call EXCEPT ![t] =
               [NoCall EXCEPT !.pc = "decided", !.kind = "motor", !.attempt = task[t].attempt,
                              !.word = RecoveryAction(effect[t], t \in due, task[t].attempt,
                                                      MaxAttempts, answer)]]
      BY DEF Decide
<1> DEFINE w == RecoveryAction(effect[t], t \in due, task[t].attempt, MaxAttempts, answer)
           k == [NoCall EXCEPT !.pc = "decided", !.kind = "motor", !.attempt = task[t].attempt, !.word = w]
<1>2. answer \in {"FAILED", "PENDING", "error", "SUCCEEDED"}
      /\ (answer = "SUCCEEDED" => invoked[t] = task[t].attempt)
      BY DEF Answers
<1>3. /\ w \in DOMAIN RecoveredAs
      /\ w = "COMPLETE" => effect[t] = "QUERYABLE" /\ answer = "SUCCEEDED"
      /\ w = "REPLAY" => effect[t] \in {"PURE", "IDEMPOTENT"}
      BY <1>2, CallsFit DEF RecoveryAction, QueryVerdict, SideEffects, RecoveredAs
<1> HIDE DEF w
<1>4. /\ k \in CallRow /\ k.pc = "decided" /\ k.attempt = task[t].attempt /\ k.word = w
      BY <1>3, CallsFit DEF NoCall, CallRow, Places, Words, TaskRow
<1>5. call' = [call EXCEPT ![t] = k] /\ call'[t] = k
      BY <1>1 DEF IInv, RowsTyped, w
<1>6. /\ UNCHANGED <<effect, due, grant, authorized, task, runs, outcomes, context, invoked, requested>>
      /\ task[t].status = "RUNNING"
      BY DEF Decide
<1> HIDE DEF k
<1>7. Remembers(t)'
      BY <1>2, <1>3, <1>4, <1>5, <1>6, CallsFit DEF Remembers, Counted
<1>8. AskedFor(t)'
      BY <1>4, <1>5, <1>6, CallsFit DEF AskedFor
<1>9. /\ grant' \in [Tasks -> GrantStatus] /\ due' \subseteq Tasks /\ context' \subseteq Tasks
      /\ requested' \in [Tasks -> Nat]
      BY <1>6 DEF IInv, RowsTyped
<1> QED BY <1>4, <1>5, <1>6, <1>7, <1>8, <1>9, CallStep DEF delVars

(* The steps on the run of a task: r is what its runs become.              *)
LEMMA DispatchStep ==
    ASSUME IInv, NEW t \in Tasks, Dispatch(t), UNCHANGED delVars
    PROVE  IInv'
<1> DEFINE n == call[t].attempt
           r == Append(runs[t], "PENDING")
           k == [call[t] EXCEPT !.pc = "running"]
<1>1. /\ n = authorized[t] + 1 /\ call[t].pc = "dispatch"
      /\ task[t] = NoTask \/ task[t].status \in Repeatable
      BY DEF Dispatch, Authorizes, Prepares, At
<1>2. n \in Nat /\ n = Len(runs[t]) + 1 /\ task[t].attempt < n
      BY <1>1, CallsFit DEF Counted
<1>3. r \in Seq(RunStatus) /\ Len(r) = n /\ r[n] = "PENDING" /\ \A i \in DOMAIN runs[t] : r[i] = runs[t][i]
      BY <1>2, CallsFit DEF RunStatus
<1>4. k \in CallRow /\ k.pc = "running" /\ k.attempt = n
      BY CallsFit DEF CallRow, Places
<1>5. /\ authorized' = [authorized EXCEPT ![t] = n] /\ runs' = [runs EXCEPT ![t] = r]
      /\ task' = [task EXCEPT ![t] = [status |-> "RUNNING", attempt |-> n]]
      /\ call' = [call EXCEPT ![t] = k]
      /\ UNCHANGED <<effect, due, grant, outcomes, context, invoked, requested, interrupts>>
      BY DEF Dispatch, Goto
<1> HIDE DEF n, r, k
<1>6. RowsTyped'
      BY <1>2, <1>3, <1>4, <1>5 DEF IInv, RowsTyped, TaskRow
<1>7. /\ authorized'[t] = n /\ runs'[t] = r /\ task'[t] = [status |-> "RUNNING", attempt |-> n]
      /\ call'[t] = k /\ invoked'[t] = invoked[t] /\ requested'[t] = requested[t] /\ effect'[t] = effect[t]
      BY <1>5 DEF IInv, RowsTyped
<1>8. Counted(t)'
      BY <1>2, <1>3, <1>7, CallsFit DEF Counted
<1>9. Remembers(t)'
      BY <1>3, <1>4, <1>7 DEF Remembers
<1>10. AskedFor(t)'
      BY <1>1, <1>2, <1>3, <1>4, <1>7, CallsFit DEF AskedFor
<1>11. Earned(t)'
      BY <1>7 DEF Earned
<1>12. Kept(t)
      BY <1>2, <1>3, <1>7, CallsFit DEF Kept, TaskRow
<1> QED BY <1>5, <1>6, <1>8, <1>9, <1>10, <1>11, <1>12, TaskStep DEF InStep, delVars, IInv, RowsTyped

\* A change of the last run, of the call, or of the calls of the skill, in a running attempt
LEMMA RunningStep ==
    ASSUME IInv, NEW t \in Tasks, call[t].pc = "running", UNCHANGED delVars,
           NEW r \in Seq(RunStatus), NEW k \in CallRow, NEW i \in Nat,
           Len(r) = Len(runs[t]), \A j \in DOMAIN runs[t] : runs[t][j] = "SUCCEEDED" => r[j] = "SUCCEEDED",
           i <= Len(runs[t]), k.attempt = call[t].attempt,
           k.pc = "running" \/ (k.pc = "ended" /\ k.word \in RunEnds /\ Last(r) = k.word),
           runs' = [runs EXCEPT ![t] = r], call' = [call EXCEPT ![t] = k], invoked' = [invoked EXCEPT ![t] = i],
           UNCHANGED <<effect, due, grant, authorized, task, outcomes, context, requested, interrupts>>
    PROVE  IInv'
<1>1. RowsTyped'
      BY DEF IInv, RowsTyped
<1>2. /\ runs'[t] = r /\ call'[t] = k /\ invoked'[t] = i
      /\ UNCHANGED <<effect[t], task[t], authorized[t], requested[t]>>
      BY DEF IInv, RowsTyped
<1>3. task[t].status = "RUNNING" /\ call[t].attempt = Len(runs[t])
      BY CallsFit DEF Remembers
<1>4. Counted(t)'
      BY <1>2, CallsFit DEF Counted
<1>5. Remembers(t)'
      BY <1>2, <1>3 DEF Remembers
<1>6. AskedFor(t)'
      BY <1>2, CallsFit DEF AskedFor
<1>7. Earned(t)'
      BY <1>2, <1>3 DEF Earned
<1>8. Kept(t)
      BY <1>2, CallsFit DEF Kept, TaskRow
<1> QED BY <1>1, <1>4, <1>5, <1>6, <1>7, <1>8, TaskStep DEF InStep, delVars, IInv, RowsTyped

LEMMA RunStep ==
    ASSUME IInv, NEW t \in Tasks, UNCHANGED delVars,
           RunStarts(t) \/ Invoke(t) \/ \E s \in RunEnds : RunEndsWith(t, s)
    PROVE  IInv'
<1>1. call[t].pc = "running" /\ UNCHANGED <<effect, due, grant, authorized, task, outcomes, context, requested, interrupts>>
      BY DEF RunStarts, Invoke, RunEndsWith, At
<1>2. runs[t] \in Seq(RunStatus) /\ Len(runs[t]) \in Nat \ {0} /\ invoked[t] \in Nat /\ invoked[t] <= Len(runs[t])
      BY <1>1, CallsFit DEF Remembers, Counted
<1>3. CASE RunStarts(t)
  <2> DEFINE r == [runs[t] EXCEPT ![Len(runs[t])] = "RUNNING"]
  <2>1. r \in Seq(RunStatus) /\ Len(r) = Len(runs[t])
        BY <1>2 DEF RunStatus
  <2>2. \A j \in DOMAIN runs[t] : runs[t][j] = "SUCCEEDED" => r[j] = "SUCCEEDED"
        BY <1>2, <1>3 DEF RunStarts, Last
  <2>3. runs' = [runs EXCEPT ![t] = r]
        BY <1>3 DEF RunStarts, IInv, RowsTyped
  <2>4. call' = [call EXCEPT ![t] = call[t]] /\ invoked' = [invoked EXCEPT ![t] = invoked[t]]
        BY <1>3 DEF RunStarts, IInv, RowsTyped
  <2> HIDE DEF r
  <2> QED BY <1>1, <1>2, <2>1, <2>2, <2>3, <2>4, CallsFit, RunningStep
<1>4. CASE Invoke(t)
  <2>1. runs' = [runs EXCEPT ![t] = runs[t]] /\ call' = [call EXCEPT ![t] = call[t]]
        BY <1>4 DEF Invoke, IInv, RowsTyped
  <2>2. invoked' = [invoked EXCEPT ![t] = invoked[t] + 1] /\ invoked[t] + 1 \in Nat /\ invoked[t] + 1 <= Len(runs[t])
        BY <1>2, <1>4 DEF Invoke
  <2> QED BY <1>1, <1>2, <2>1, <2>2, CallsFit, RunningStep
<1>5. ASSUME NEW s \in RunEnds, RunEndsWith(t, s) PROVE IInv'
  <2> DEFINE r == [runs[t] EXCEPT ![Len(runs[t])] = s]
             k == [call[t] EXCEPT !.pc = "ended", !.word = s]
  <2>1. r \in Seq(RunStatus) /\ Len(r) = Len(runs[t]) /\ Last(r) = s
        BY <1>2 DEF RunStatus, Last
  <2>2. \A j \in DOMAIN runs[t] : runs[t][j] = "SUCCEEDED" => r[j] = "SUCCEEDED"
        BY <1>2, <1>5 DEF RunEndsWith, Last
  <2>3. runs' = [runs EXCEPT ![t] = r]
        BY <1>5 DEF RunEndsWith, IInv, RowsTyped
  <2>4. call' = [call EXCEPT ![t] = k]
        BY <1>5 DEF RunEndsWith
  <2>5. invoked' = [invoked EXCEPT ![t] = invoked[t]]
        BY <1>5 DEF RunEndsWith, IInv, RowsTyped
  <2>6. k \in CallRow /\ k.attempt = call[t].attempt /\ k.pc = "ended" /\ k.word = s
        BY CallsFit DEF CallRow, Places, Words, TaskEnds
  <2> HIDE DEF r, k
  <2> QED BY <1>1, <1>2, <2>1, <2>2, <2>3, <2>4, <2>5, <2>6, RunningStep
<1> QED BY <1>3, <1>4, <1>5

(* An attempt is closed with what its run, or its provider, has said.      *)
LEMMA CloseStep ==
    ASSUME IInv, NEW t \in Tasks, UNCHANGED delVars, NEW s, TaskMoves(t, s), NEW k \in CallRow,
           s = "SUCCEEDED" => Last(runs[t]) = "SUCCEEDED" \/ (effect[t] = "QUERYABLE" /\ invoked[t] = Len(runs[t])),
           call' = [call EXCEPT ![t] = k],
           k.pc \in {"idle", "settled"} \/ (k.pc = "dispatch" /\ effect[t] \in {"PURE", "IDEMPOTENT"}),
           k.pc = "settled" => k.word \in RunEnds /\ k.attempt = Len(runs[t]),
           UNCHANGED <<effect, due, grant, authorized, runs, outcomes, context, invoked, requested, interrupts>>
    PROVE  /\ IInv'
           /\ task[t].status = "RUNNING" /\ s \in TaskEnds /\ task' = [task EXCEPT ![t].status = s]
<1>1. task[t].status = "RUNNING" /\ s \in TaskEnds /\ task' = [task EXCEPT ![t].status = s]
      BY CallsFit DEF TaskMoves, Follows, TaskRow, TaskEnds, RunEnds
<1>2. task'[t] = [task[t] EXCEPT !.status = s] /\ task'[t].status = s /\ task'[t].attempt = task[t].attempt
      /\ call'[t] = k
      BY <1>1, CallsFit DEF IInv, RowsTyped, TaskRow
<1>3. RowsTyped'
      BY <1>1, CallsFit DEF IInv, RowsTyped, TaskRow
<1>4. UNCHANGED <<effect[t], runs[t], authorized[t], requested[t], invoked[t]>>
      OBVIOUS
<1>5. Counted(t)'
      BY <1>1, <1>2, <1>4, CallsFit DEF Counted, TaskEnds, RunEnds
<1>6. Remembers(t)'
      BY <1>2, <1>4 DEF Remembers
<1>7. AskedFor(t)'
      BY <1>2, <1>4, CallsFit DEF AskedFor
<1>8. Earned(t)'
      BY <1>2, <1>4 DEF Earned
<1>9. Kept(t)
      BY <1>1, <1>2, CallsFit DEF Kept, TaskRow
<1>10. \A u \in Tasks : u # t => task'[u] = task[u] /\ call'[u] = call[u]
      BY <1>1 DEF IInv, RowsTyped
<1>11. IInv'
      BY <1>3, <1>5, <1>6, <1>7, <1>8, <1>9, <1>10, TaskStep DEF InStep, delVars
<1> QED BY <1>1, <1>11

Closes(t) ==
    /\ task[t].status = "RUNNING"
    /\ \E s \in TaskEnds : task' = [task EXCEPT ![t].status = s]

LEMMA SettleStep ==
    ASSUME IInv, NEW t \in Tasks, Settle(t), UNCHANGED delVars
    PROVE  IInv' /\ Closes(t)
<1> DEFINE s == call[t].word
           k == IF call[t].kind = "govern" THEN [call[t] EXCEPT !.pc = "settled"] ELSE NoCall
<1>1. call[t].pc = "ended" /\ TaskMoves(t, s)
      BY DEF Settle, At
<1>2. Last(runs[t]) = s /\ s \in RunEnds /\ call[t].attempt = Len(runs[t])
      BY <1>1, CallsFit DEF Remembers
<1>3. k \in CallRow /\ k.pc \in {"idle", "settled"} /\ (k.pc = "settled" => k.word = s /\ k.attempt = call[t].attempt)
      BY CallsFit DEF CallRow, Places, Words, NoCall
<1>4. call' = [call EXCEPT ![t] = k]
      BY DEF Settle, Goto, Return, IInv, RowsTyped
<1>5. UNCHANGED <<effect, due, grant, authorized, runs, outcomes, context, invoked, requested, interrupts>>
      BY DEF Settle
<1> HIDE DEF k, s
<1> QED BY <1>1, <1>2, <1>3, <1>4, <1>5, CloseStep DEF Closes

LEMMA RecoverStep ==
    ASSUME IInv, NEW t \in Tasks, Recover(t), UNCHANGED delVars
    PROVE  IInv' /\ Closes(t)
<1> DEFINE s == RecoveredAs[call[t].word]
           k == IF call[t].word = "REPLAY" THEN Dispatching(t, "motor", task[t].attempt + 1) ELSE NoCall
<1>1. call[t].pc = "decided" /\ TaskMoves(t, s) /\ call' = [call EXCEPT ![t] = k]
      BY DEF Recover, At
<1>2. /\ call[t].word \in DOMAIN RecoveredAs
      /\ call[t].word = "COMPLETE" => effect[t] = "QUERYABLE" /\ invoked[t] = Len(runs[t])
      /\ call[t].word = "REPLAY" => effect[t] \in {"PURE", "IDEMPOTENT"}
      BY <1>1, CallsFit DEF Remembers
<1>3. s = "SUCCEEDED" => call[t].word = "COMPLETE"
      BY <1>2 DEF RecoveredAs
<1>4. /\ Dispatching(t, "motor", task[t].attempt + 1) \in CallRow
      /\ Dispatching(t, "motor", task[t].attempt + 1).pc = "dispatch"
      BY Dispatched, CallsFit DEF TaskRow, Dispatching
<1>5. k \in CallRow /\ (k.pc = "idle" \/ (k.pc = "dispatch" /\ call[t].word = "REPLAY"))
  <2>1. NoCall \in CallRow /\ NoCall.pc = "idle"
        BY DEF CallRow, Places, Words, NoCall
  <2> QED BY <1>4, <2>1
<1>6. UNCHANGED <<effect, due, grant, authorized, runs, outcomes, context, invoked, requested, interrupts>>
      BY DEF Recover
<1> HIDE DEF k, s
<1>7. s = "SUCCEEDED" => Last(runs[t]) = "SUCCEEDED" \/ (effect[t] = "QUERYABLE" /\ invoked[t] = Len(runs[t]))
      BY <1>2, <1>3
<1>8. k.pc \in {"idle", "settled"} \/ (k.pc = "dispatch" /\ effect[t] \in {"PURE", "IDEMPOTENT"})
      BY <1>2, <1>5
<1>9. k.pc # "settled" /\ k \in CallRow
      BY <1>5
<1>10. IInv' /\ task[t].status = "RUNNING" /\ s \in TaskEnds /\ task' = [task EXCEPT ![t].status = s]
      BY <1>1, <1>6, <1>7, <1>8, <1>9, CloseStep
<1> QED BY <1>10 DEF Closes

-----------------------------------------------------------------------------
(* An outcome is added: it is true at the moment it is recorded.           *)
LEMMA TellStep ==
    ASSUME RowsTyped, Told, NEW t \in Tasks, NEW o \in OutcomeRow, True(t, o), Covering(t, o),
           outcomes' = [outcomes EXCEPT ![t] = Append(outcomes[t], o)],
           UNCHANGED <<effect, task, runs, window, evidence>>
    PROVE  /\ Told' /\ outcomes' \in [Tasks -> Seq(OutcomeRow)]
           /\ \A u \in Tasks : ToldFor(u) => ToldFor(u)'
           /\ o.by = "window" => ToldFor(t)'
<1>1. outcomes[t] \in Seq(OutcomeRow)
      BY DEF RowsTyped
<1>2. outcomes' \in [Tasks -> Seq(OutcomeRow)]
      BY <1>1 DEF RowsTyped
<1> DEFINE n == Len(outcomes[t]) + 1
           told == Append(outcomes[t], o)
<1>3. /\ outcomes'[t] = told /\ \A u \in Tasks : u # t => outcomes'[u] = outcomes[u]
      BY DEF RowsTyped
<1>4. /\ DOMAIN told = DOMAIN outcomes[t] \cup {n} /\ told[n] = o
      /\ \A i \in DOMAIN outcomes[t] : told[i] = outcomes[t][i]
      BY <1>1
<1> HIDE DEF told, n
<1>5. \A u \in Tasks : ToldFor(u) => ToldFor(u)'
      BY <1>3, <1>4 DEF ToldFor
<1>6. o.by = "window" => ToldFor(t)'
      BY <1>3, <1>4 DEF ToldFor
<1>7. ASSUME NEW u \in Tasks, NEW i \in DOMAIN outcomes'[u]
      PROVE  True(u, outcomes[u][i])' /\ Covering(u, outcomes[u][i])'
  <2>1. PICK p : p = outcomes'[u][i]
        OBVIOUS
  <2>2. True(u, p) /\ Covering(u, p)
        BY <1>3, <1>4, <2>1 DEF Told
  <2>3. True(u, p)' /\ Covering(u, p)'
        BY <2>2 DEF True, Covering
  <2> QED BY <2>1, <2>3 DEF True, Covering
<1>8. \A u \in Tasks : (window[u] = "EVALUATED" => ToldFor(u))'
      BY <1>5 DEF Told
<1> QED BY <1>2, <1>5, <1>6, <1>7, <1>8 DEF Told

LEMMA EvaluateStep ==
    ASSUME IInv, NEW t \in Tasks, Evaluate(t), UNCHANGED delVars
    PROVE  IInv'
<1> DEFINE o == Evaluation("task", call[t].word, call[t].attempt, {})
           k == [call[t] EXCEPT !.pc = "recorded"]
<1>1. /\ call[t].pc = "settled" /\ task[t].status = call[t].word
      /\ outcomes' = [outcomes EXCEPT ![t] = Append(outcomes[t], o)]
      /\ call' = [call EXCEPT ![t] = k]
      /\ UNCHANGED <<effect, due, grant, authorized, task, runs, context, invoked, requested, interrupts>>
      BY DEF Evaluate, Recordable, Goto, At
<1>2. /\ call[t].word \in RunEnds /\ call[t].attempt = Len(runs[t]) /\ task[t].attempt = Len(runs[t])
      /\ Len(runs[t]) \in Nat \ {0}
      BY <1>1, CallsFit DEF Remembers, Counted, RunEnds
<1>3. /\ o \in OutcomeRow /\ o.by = "task" /\ o.attempt = task[t].attempt /\ o.status = task[t].status
      /\ o.execution = "PASSED" => task[t].status = "SUCCEEDED"
      BY <1>1, <1>2 DEF Evaluation, OutcomeRow, Execution, RunEnds, TaskEnds, Assessments
<1>4. k \in CallRow /\ k.pc = "recorded"
      BY CallsFit DEF CallRow, Places
<1> HIDE DEF o, k
<1>5. True(t, o) /\ Covering(t, o)
      BY <1>2, <1>3, CallsFit DEF True, Covering, Earned, Last
<1>6. Told' /\ outcomes' \in [Tasks -> Seq(OutcomeRow)] /\ \A u \in Tasks : ToldFor(u) => ToldFor(u)'
      BY <1>1, <1>3, <1>5, TellStep DEF IInv, delVars
<1>7. RowsTyped' /\ WindowsTyped'
      BY <1>1, <1>4, <1>6 DEF IInv, RowsTyped, WindowsTyped, delVars
<1>8. Asking'
      BY <1>6 DEF IInv, Asking, delVars
<1>9. ASSUME NEW u \in Tasks PROVE InStep(u)'
  <2>1. InStep(u) /\ (call'[u] = call[u] \/ call'[u].pc = "recorded")
        BY <1>1, <1>4 DEF IInv, RowsTyped
  <2> QED BY <1>1, <2>1 DEF InStep, Counted, Remembers, AskedFor, Earned
<1> QED BY <1>6, <1>7, <1>8, <1>9 DEF IInv

-----------------------------------------------------------------------------
(* The windows and their evaluations leave the rows of the tasks alone.    *)
LEMMA TasksStay ==
    ASSUME IInv, UNCHANGED <<effect, due, grant, authorized, task, runs, context, invoked, requested, call>>
    PROVE  \A t \in Tasks : InStep(t)'
<1>1. ASSUME NEW t \in Tasks PROVE InStep(t)'
  <2>1. InStep(t)
        BY DEF IInv
  <2> QED BY <2>1 DEF InStep, Counted, Remembers, AskedFor, Earned
<1> QED BY <1>1

LEMMA WindowStep ==
    ASSUME IInv, NEW t \in Tasks, UNCHANGED govVars,
           \/ OpenWindow(t) \/ TimePasses(t) \/ Close(t)
           \/ (\E x \in Evidence : AppendEvidence(t, x)) \/ (\E e \in Evaluators : Check(e, t))
    PROVE  IInv'
<1>1. RowsTyped' /\ \A u \in Tasks : InStep(u)'
      BY TasksStay DEF govVars, IInv, RowsTyped
<1>2. \A u \in Tasks : ToldFor(u)' <=> ToldFor(u)
      BY DEF ToldFor, govVars
<1> DEFINE Rest == WindowsTyped' /\ Told' /\ Asking'
<1> SUFFICES Rest
    BY <1>1 DEF IInv
<1>3. CASE OpenWindow(t)
  <2>1. /\ window[t] = "NONE" /\ window' = [window EXCEPT ![t] = "OPEN"]
        /\ UNCHANGED <<evidence, evaluator>>
        BY <1>3 DEF OpenWindow
  <2>2. WindowsTyped'
        BY <2>1 DEF IInv, WindowsTyped, WindowStatus
  <2>3. \A u \in Tasks : window'[u] = window[u] \/ (window[u] = "NONE" /\ window'[u] = "OPEN")
        BY <2>1 DEF IInv, WindowsTyped
  <2>4. Told'
        BY <1>2, <2>1, <2>3 DEF IInv, Told, True, Covering, govVars
  <2>5. Asking'
        BY <1>2, <2>1, <2>3 DEF IInv, Asking
  <2> QED BY <2>2, <2>4, <2>5
<1>4. CASE TimePasses(t)
  <2>1. UNCHANGED <<window, evidence, evaluator>>
        BY <1>4 DEF TimePasses
  <2>2. WindowsTyped' /\ Asking'
        BY <1>2, <2>1 DEF IInv, WindowsTyped, Asking
  <2>3. Told'
        BY <1>2, <2>1 DEF IInv, Told, True, Covering, govVars
  <2> QED BY <2>2, <2>3
<1>5. CASE Close(t)
  <2>1. window[t] = "OPEN" /\ window' = [window EXCEPT ![t] = "CLOSED"] /\ UNCHANGED <<evidence, evaluator>>
        BY <1>5 DEF Close
  <2>2. WindowsTyped'
        BY <2>1 DEF IInv, WindowsTyped, WindowStatus
  <2>3. \A u \in Tasks : window'[u] = window[u] \/ (window[u] = "OPEN" /\ window'[u] = "CLOSED")
        BY <2>1 DEF IInv, WindowsTyped
  <2>4. Told'
        BY <1>2, <2>1, <2>3 DEF IInv, Told, True, Covering, govVars
  <2>5. Asking'
        BY <1>2, <2>1, <2>3 DEF IInv, Asking
  <2> QED BY <2>2, <2>4, <2>5
<1>6. ASSUME NEW x \in Evidence, AppendEvidence(t, x) PROVE Rest
  <2>1. /\ window[t] = "OPEN" /\ evidence' = [evidence EXCEPT ![t] = evidence[t] \cup {x}]
        /\ UNCHANGED <<window, evaluator>>
        BY <1>6 DEF AppendEvidence
  <2>2. WindowsTyped'
        BY <2>1 DEF IInv, WindowsTyped
  <2>3. \A u \in Tasks : evidence'[u] = evidence[u] \/ window[u] = "OPEN"
        BY <2>1 DEF IInv, WindowsTyped
  <2>4. Told'
        BY <1>2, <2>1, <2>3 DEF IInv, Told, True, Covering, govVars
  <2>5. Asking'
        BY <1>2, <2>1, <2>3 DEF IInv, Asking
  <2> QED BY <2>2, <2>4, <2>5
<1>7. ASSUME NEW e \in Evaluators, Check(e, t) PROVE Rest
  <2> DEFINE r == [pc |-> "checked", task |-> t, status |-> task[t].status, seen |-> evidence[t]]
  <2>1. /\ window[t] = "CLOSED" /\ task[t].status \in TaskEnds
        /\ evaluator' = [evaluator EXCEPT ![e] = r] /\ UNCHANGED <<window, evidence>>
        BY <1>7 DEF Check
  <2>2. r \in Request
        BY <2>1 DEF Request, IInv, WindowsTyped
  <2>3. WindowsTyped'
        BY <2>1, <2>2 DEF IInv, WindowsTyped
  <2>4. Told'
        BY <1>2, <2>1 DEF IInv, Told, True, Covering, govVars
  <2>5. \A d \in Evaluators : evaluator'[d] = evaluator[d] \/ evaluator'[d] = r
        BY <2>1 DEF IInv, WindowsTyped
  <2>6. Asking'
        BY <1>2, <2>1, <2>5 DEF IInv, Asking
  <2> QED BY <2>3, <2>4, <2>6
<1> QED BY <1>3, <1>4, <1>5, <1>6, <1>7

\* An evaluation gives up, is interrupted, or finds its window marked.
LEMMA DropStep ==
    ASSUME IInv, NEW e \in Evaluators, evaluator' = [evaluator EXCEPT ![e] = NoRequest],
           UNCHANGED <<effect, due, grant, authorized, task, runs, outcomes, context, invoked, requested, call, evidence>>,
           \A u \in Tasks : window'[u] = window[u] \/ (ToldFor(u) /\ window[u] = "CLOSED" /\ window'[u] = "EVALUATED"),
           window' \in [Tasks -> WindowStatus]
    PROVE  IInv'
<1>1. RowsTyped' /\ \A u \in Tasks : InStep(u)'
      BY TasksStay DEF IInv, RowsTyped
<1>2. \A u \in Tasks : ToldFor(u)' <=> ToldFor(u)
      BY DEF ToldFor
<1>3. NoRequest \in Request /\ NoRequest.pc = "idle"
      BY DEF NoRequest, Request
<1>4. WindowsTyped'
      BY <1>3 DEF IInv, WindowsTyped
<1>5. \A d \in Evaluators : evaluator'[d] = evaluator[d] \/ evaluator'[d].pc = "idle"
      BY <1>3 DEF IInv, WindowsTyped
<1>6. Asking'
      BY <1>2, <1>5 DEF IInv, Asking
<1>7. Told'
      BY <1>2 DEF IInv, Told, True, Covering
<1> QED BY <1>1, <1>4, <1>6, <1>7 DEF IInv

LEMMA RecordStep ==
    ASSUME IInv, NEW e \in Evaluators, Record(e)
    PROVE  IInv'
<1>0. PICK r, t : r = evaluator[e] /\ t = r.task
      OBVIOUS
<1> DEFINE o == Evaluation("window", r.status, task[t].attempt, r.seen)
           k == [r EXCEPT !.pc = "recorded"]
<1>1. /\ r.pc = "checked" /\ UNCHANGED <<effect, due, grant, authorized, task, runs, context, invoked, requested,
                                         call, window, evidence>>
      BY <1>0 DEF Record
<1>2. t \in Tasks /\ r.status \in TaskEnds /\ r.seen = evidence[t] /\ window[t] \in {"CLOSED", "EVALUATED"}
      /\ r \in Request
      BY <1>0, <1>1 DEF IInv, Asking, WindowsTyped
<1>3. CASE task[t].status # r.status
  <2>1. evaluator' = [evaluator EXCEPT ![e] = NoRequest] /\ UNCHANGED outcomes
        BY <1>0, <1>3 DEF Record, Recordable
  <2> QED BY <1>1, <2>1, DropStep DEF IInv, WindowsTyped
<1>4. CASE task[t].status = r.status
  <2>1. /\ outcomes' = [outcomes EXCEPT ![t] = Append(outcomes[t], o)]
        /\ evaluator' = [evaluator EXCEPT ![e] = k]
        BY <1>0, <1>4 DEF Record, Recordable
  <2>2. /\ o.by = "window" /\ o.attempt = task[t].attempt /\ o.status = task[t].status /\ o.covers = evidence[t]
        /\ o.execution = "PASSED" => task[t].status = "SUCCEEDED"
        BY <1>2, <1>4 DEF Evaluation, Execution, TaskEnds, RunEnds
  <2>3. o \in OutcomeRow
        BY <1>2, CallsFit DEF Evaluation, OutcomeRow, Execution, TaskEnds, RunEnds, Assessments, Request, TaskRow
  <2>4. task[t].attempt = Len(runs[t]) /\ Len(runs[t]) \in Nat \ {0}
        BY <1>2, <1>4, CallsFit DEF Counted, TaskEnds, RunEnds
  <2>5. k \in Request /\ k.pc = "recorded" /\ k.task = t /\ k.status = r.status /\ k.seen = r.seen
        BY <1>0, <1>2 DEF Request
  <2> HIDE DEF o, k
  <2>6. True(t, o) /\ Covering(t, o)
        BY <1>2, <2>2, <2>4, CallsFit DEF True, Covering, Earned, Last
  <2>t. RowsTyped /\ Told /\ t \in Tasks
        BY <1>2 DEF IInv
  <2>u. UNCHANGED <<effect, task, runs, window, evidence>>
        BY <1>1
  <2>7. Told' /\ outcomes' \in [Tasks -> Seq(OutcomeRow)] /\ (\A u \in Tasks : ToldFor(u) => ToldFor(u)') /\ ToldFor(t)'
        BY <2>1, <2>2, <2>3, <2>6, <2>t, <2>u, TellStep
  <2>8. RowsTyped' /\ WindowsTyped'
        BY <1>1, <2>1, <2>5, <2>7 DEF IInv, RowsTyped, WindowsTyped
  <2>9. \A d \in Evaluators : evaluator'[d] = evaluator[d] \/ evaluator'[d] = k
        BY <2>1 DEF IInv, WindowsTyped
  <2>10. Asking'
    <3>1. ASSUME NEW d \in Evaluators, evaluator'[d].pc # "idle", evaluator'[d] = evaluator[d]
          PROVE  /\ evaluator'[d].task \in Tasks /\ evaluator'[d].status \in TaskEnds
                 /\ evaluator'[d].seen = evidence[evaluator'[d].task]
                 /\ window[evaluator'[d].task] \in {"CLOSED", "EVALUATED"}
                 /\ evaluator'[d].pc = "recorded" => ToldFor(evaluator[d].task)'
          BY <2>7, <3>1 DEF IInv, Asking
    <3> QED BY <1>1, <1>2, <2>5, <2>7, <2>9, <3>1 DEF Asking
  <2>11. \A u \in Tasks : InStep(u)'
        BY <1>1, TasksStay
  <2> QED BY <2>7, <2>8, <2>10, <2>11 DEF IInv
<1> QED BY <1>3, <1>4

LEMMA MarkStep ==
    ASSUME IInv, NEW e \in Evaluators, Mark(e)
    PROVE  IInv'
<1> DEFINE t == evaluator[e].task
<1>1. /\ evaluator[e].pc = "recorded" /\ evaluator' = [evaluator EXCEPT ![e] = NoRequest]
      /\ window' = IF window[t] = "CLOSED" THEN [window EXCEPT ![t] = "EVALUATED"] ELSE window
      /\ UNCHANGED <<effect, due, grant, authorized, task, runs, outcomes, context, invoked, requested, call, evidence>>
      BY DEF Mark, govVars
<1>2. t \in Tasks /\ ToldFor(t)
      BY <1>1 DEF IInv, Asking
<1>3. window' \in [Tasks -> WindowStatus]
      BY <1>1 DEF IInv, WindowsTyped, WindowStatus
<1>4. \A u \in Tasks : window'[u] = window[u] \/ (ToldFor(u) /\ window[u] = "CLOSED" /\ window'[u] = "EVALUATED")
      BY <1>1, <1>2 DEF IInv, WindowsTyped
<1> QED BY <1>1, <1>3, <1>4, DropStep

LEMMA InterruptEvaluationStep ==
    ASSUME IInv, NEW e \in Evaluators, InterruptEvaluation(e)
    PROVE  IInv'
<1>1. /\ evaluator' = [evaluator EXCEPT ![e] = NoRequest]
      /\ UNCHANGED <<effect, due, grant, authorized, task, runs, outcomes, context, invoked, requested, call,
                     evidence, window>>
      BY DEF InterruptEvaluation
<1> QED BY <1>1, DropStep DEF IInv, WindowsTyped

-----------------------------------------------------------------------------
LEMMA InvStep == IInv /\ [Next]_vars => IInv'
<1> SUFFICES ASSUME IInv, [Next]_vars PROVE IInv'
    OBVIOUS
<1>1. ASSUME NEW t \in Tasks, Step(t), UNCHANGED delVars PROVE IInv'
  <2>1. CASE Admit(t)
        BY <1>1, <2>1, AdmitStep
  <2>2. CASE Refuse(t) \/ DispatchRefused(t)
        BY <1>1, <2>2, ReturnStep DEF Refuse, DispatchRefused, delVars, IInv, RowsTyped
  <2>3. CASE Dispatch(t)
        BY <1>1, <2>3, DispatchStep
  <2>4. CASE RunStarts(t) \/ Invoke(t) \/ \E s \in RunEnds : RunEndsWith(t, s)
        BY <1>1, <2>4, RunStep
  <2>5. CASE Settle(t)
        BY <1>1, <2>5, SettleStep
  <2>6. CASE Evaluate(t)
        BY <1>1, <2>6, EvaluateStep
  <2>7. CASE RecordContext(t)
        BY <1>1, <2>7, ReturnStep DEF RecordContext, delVars, IInv, RowsTyped
  <2>8. CASE Decide(t)
        BY <1>1, <2>8, DecideStep
  <2>9. CASE Recover(t)
        BY <1>1, <2>9, RecoverStep
  <2> QED BY <1>1, <2>1, <2>2, <2>3, <2>4, <2>5, <2>6, <2>7, <2>8, <2>9 DEF Step
<1>2. ASSUME NEW t \in Tasks, Interrupt(t), UNCHANGED delVars PROVE IInv'
      BY <1>2, ReturnStep DEF Interrupt, delVars, IInv, RowsTyped
<1>3. CASE GovNext /\ UNCHANGED delVars
      BY <1>1, <1>2, <1>3, ExecuteStep, RepeatStep, CancelStep, GrantStep DEF GovNext
<1>4. ASSUME NEW t \in Tasks, UNCHANGED govVars,
             \/ OpenWindow(t) \/ TimePasses(t) \/ Close(t)
             \/ (\E x \in Evidence : AppendEvidence(t, x)) \/ (\E e \in Evaluators : Check(e, t))
      PROVE  IInv'
      BY <1>4, WindowStep
<1>5. CASE \E t \in Tasks : \/ OpenWindow(t) \/ TimePasses(t) \/ Close(t)
                            \/ \E x \in Evidence : AppendEvidence(t, x)
                            \/ \E e \in Evaluators : Check(e, t)
      BY <1>4, <1>5 DEF OpenWindow, TimePasses, Close, AppendEvidence, Check
<1>6. CASE \E e \in Evaluators : Record(e) \/ Mark(e) \/ InterruptEvaluation(e)
      BY <1>6, RecordStep, MarkStep, InterruptEvaluationStep
<1>7. CASE UNCHANGED vars
  <2>1. UNCHANGED <<effect, due, grant, authorized, task, runs, outcomes, context, invoked, requested, call,
                    window, evidence, evaluator>>
        BY <1>7 DEF vars, govVars, delVars
  <2>2. RowsTyped' /\ WindowsTyped' /\ \A t \in Tasks : InStep(t)'
        BY <2>1, TasksStay DEF IInv, RowsTyped, WindowsTyped
  <2>3. Told' /\ Asking'
        BY <2>1 DEF IInv, Told, True, Covering, Asking, ToldFor
  <2> QED BY <2>2, <2>3 DEF IInv
<1> QED BY <1>3, <1>5, <1>6, <1>7 DEF Next

LEMMA InvHolds == Spec => []IInv
BY InvInit, InvStep, PTL DEF Spec

(* What the row, the window and the outcomes of a task say is what         *)
(* happened, however attempts, recoveries and evaluations interleave and   *)
(* whatever is interrupted (OutcomesAreSound).                             *)
THEOREM OutcomesStaySound == Spec => []OutcomesAreSound
<1>1. IInv => OutcomesAreSound
  <2> SUFFICES ASSUME IInv PROVE OutcomesAreSound
      OBVIOUS
  <2>1. TypeOK
    <3>1. \A t \in Tasks : \A i \in DOMAIN outcomes[t] : outcomes[t][i].execution \in Assessments
      <4> SUFFICES ASSUME NEW t \in Tasks, NEW i \in DOMAIN outcomes[t]
                   PROVE  outcomes[t][i].execution \in Assessments
          OBVIOUS
      <4>1. outcomes[t] \in Seq(OutcomeRow)
            BY DEF IInv, RowsTyped
      <4>2. outcomes[t][i] \in OutcomeRow
            BY <4>1
      <4> QED BY <4>2 DEF OutcomeRow
    <3> QED BY <3>1 DEF TypeOK, IInv, RowsTyped
  <2>2. SettledByItsRun
        BY CallsFit DEF SettledByItsRun, Counted, Earned, Last
  <2>3. EvidenceIsFrozen
        BY DEF IInv, Told, Covering, ToldFor, EvidenceIsFrozen
  <2>4. OutcomesAreTrue
        BY DEF IInv, Told, True, OutcomesAreTrue
  <2> QED BY <2>1, <2>2, <2>3, <2>4 DEF OutcomesAreSound
<1> QED BY <1>1, InvHolds, PTL

(* No crash, no recovery and no repetition calls a skill whose effect must *)
(* not be repeated more often than callers asked for attempts              *)
(* (EffectsAreRequested).                                                  *)
THEOREM EffectsStayRequested == Spec => []EffectsAreRequested
<1>1. IInv => EffectsAreRequested
  <2> SUFFICES ASSUME IInv, NEW t \in Tasks, effect[t] \in {"QUERYABLE", "NON_REPLAYABLE"}
               PROVE  invoked[t] <= requested[t]
      BY DEF EffectsAreRequested
  <2>1. invoked[t] <= Len(runs[t]) /\ Len(runs[t]) <= requested[t]
        BY CallsFit DEF Counted, AskedFor
  <2>2. invoked[t] \in Nat /\ requested[t] \in Nat /\ Len(runs[t]) \in Nat
        BY CallsFit
  <2> QED BY <2>1, <2>2
<1> QED BY <1>1, InvHolds, PTL

-----------------------------------------------------------------------------
(* The rows of a task live the life of TaskLife: an attempt is opened in   *)
(* the transaction that authorises it, under an active grant and after an  *)
(* attempt that may be repeated, and is closed once (the safety part of    *)
(* ImplementsTaskLife).                                                    *)
LEMMA LifeStep == IInv /\ [Next]_vars => [Life!Next]_(Life!vars)
<1> SUFFICES ASSUME IInv, [Next]_vars PROVE Life!Next \/ UNCHANGED Life!vars
    OBVIOUS
<1>1. (task' = task /\ grant' = grant) => UNCHANGED Life!vars
      BY DEF Life!vars
<1>2. ASSUME NEW t \in Tasks, Admit(t) PROVE Life!Next
  <2>1. grant[t] = "NONE" /\ grant' = [grant EXCEPT ![t] = "ACTIVE"] /\ task' = task
        BY <1>2 DEF Admit, Issues, GrantMoves
  <2> QED BY <2>1 DEF Life!Next, Life!Grant
<1>3. ASSUME NEW t \in Tasks, NEW s \in {"REVOKED", "EXPIRED"}, EndGrant(t, s) PROVE Life!Next
  <2>1. grant[t] = "ACTIVE" /\ grant' = [grant EXCEPT ![t] = s] /\ task' = task
        BY <1>3 DEF EndGrant, GrantMoves
  <2> QED BY <2>1 DEF Life!Next, Life!End
<1>4. ASSUME NEW t \in Tasks, Dispatch(t) PROVE Life!Next
  <2> DEFINE n == call[t].attempt
  <2>1. /\ grant[t] = "ACTIVE" /\ n = authorized[t] + 1
        /\ task[t] = NoTask \/ task[t].status \in Repeatable
        /\ task' = [task EXCEPT ![t] = [status |-> "RUNNING", attempt |-> n]] /\ grant' = grant
        BY <1>4 DEF Dispatch, Authorizes, Prepares
  <2>2. n = task[t].attempt + 1
        BY <2>1, CallsFit DEF Counted
  <2> HIDE DEF n
  <2>3. task[t].status \in Life!Repeatable
        BY <2>1 DEF NoTask, Repeatable, Life!Repeatable
  <2>4. /\ [u \in Tasks |-> task[u].attempt]' = [[u \in Tasks |-> task[u].attempt] EXCEPT ![t] = task[t].attempt + 1]
        /\ [u \in Tasks |-> task[u].status]' = [[u \in Tasks |-> task[u].status] EXCEPT ![t] = "RUNNING"]
        BY <2>1, <2>2 DEF IInv, RowsTyped
  <2>5. Life!Open(t)
        BY <2>1, <2>3, <2>4 DEF Life!Open
  <2> QED BY <2>5 DEF Life!Next
<1>5. ASSUME NEW t \in Tasks, Closes(t), grant' = grant PROVE Life!Next
  <2>1. PICK s \in TaskEnds : task' = [task EXCEPT ![t].status = s]
        BY <1>5 DEF Closes
  <2>2. task[t].status = "RUNNING" /\ s \in Life!Closed
        BY <1>5 DEF Closes, TaskEnds, RunEnds, Life!Closed
  <2>3. task[t] \in TaskRow
        BY CallsFit
  <2>4. \A u \in Tasks : task'[u] = IF u = t THEN [task[u] EXCEPT !.status = s] ELSE task[u]
        BY <2>1 DEF IInv, RowsTyped
  <2>5. /\ [u \in Tasks |-> task[u].attempt]' = [u \in Tasks |-> task[u].attempt]
        /\ [u \in Tasks |-> task[u].status]' = [[u \in Tasks |-> task[u].status] EXCEPT ![t] = s]
        BY <2>3, <2>4 DEF TaskRow
  <2>6. Life!Close(t)
        BY <1>5, <2>2, <2>5 DEF Life!Close
  <2> QED BY <2>6 DEF Life!Next
<1>6. ASSUME NEW t \in Tasks, Step(t), UNCHANGED delVars PROVE Life!Next \/ (task' = task /\ grant' = grant)
  <2>1. CASE Settle(t)
        BY <1>5, <1>6, <2>1, SettleStep DEF Settle
  <2>2. CASE Recover(t)
        BY <1>5, <1>6, <2>2, RecoverStep DEF Recover
  <2>3. CASE Refuse(t) \/ DispatchRefused(t) \/ RunStarts(t) \/ Invoke(t) \/ (\E s \in RunEnds : RunEndsWith(t, s))
             \/ Evaluate(t) \/ RecordContext(t) \/ Decide(t)
        BY <2>3 DEF Refuse, DispatchRefused, RunStarts, Invoke, RunEndsWith, Evaluate, RecordContext, Decide
  <2> QED BY <1>2, <1>4, <1>6, <2>1, <2>2, <2>3 DEF Step
<1>7. CASE GovNext /\ UNCHANGED delVars
  <2>1. PICK t \in Tasks : \/ Step(t) \/ Execute(t) \/ Repeat(t) \/ Cancel(t) \/ Interrupt(t) \/ Expires(t)
                           \/ \E s \in {"REVOKED", "EXPIRED"} : EndGrant(t, s)
        BY <1>7 DEF GovNext
  <2>2. CASE Execute(t) \/ Repeat(t) \/ Cancel(t) \/ Interrupt(t) \/ Expires(t)
        BY <1>1, <2>2 DEF Execute, Repeat, Cancel, Interrupt, Expires
  <2> QED BY <1>1, <1>3, <1>6, <1>7, <2>1, <2>2
<1>8. CASE \/ \E t \in Tasks : \/ OpenWindow(t) \/ TimePasses(t) \/ Close(t)
                               \/ \E x \in Evidence : AppendEvidence(t, x)
                               \/ \E e \in Evaluators : Check(e, t)
           \/ \E e \in Evaluators : Record(e) \/ Mark(e) \/ InterruptEvaluation(e)
      BY <1>1, <1>8 DEF OpenWindow, TimePasses, Close, AppendEvidence, Check, Record, Mark, InterruptEvaluation, govVars
<1>9. CASE UNCHANGED vars
      BY <1>1, <1>9 DEF vars, govVars
<1> QED BY <1>7, <1>8, <1>9 DEF Next

THEOREM TaskLivesItsLife == Spec => Life!SafeSpec
<1>1. DelInit => Life!Init
      BY DEF DelInit, Init, Life!Init, NoTask
<1> QED BY <1>1, InvHolds, LifeStep, PTL DEF Spec, Life!SafeSpec
================================================================================
