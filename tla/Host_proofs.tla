------------------------------ MODULE Host_proofs ------------------------------
(***************************************************************************)
(* Theorems about the host: the inbox consumer and the durable event path  *)
(* that it is part of (events/inbox.py, outbox.py), the supervisor         *)
(* with the task of each service (runtime/supervisor.py) and the event bus *)
(* (events/bus.py, events/subscription.py), for any messages, services,    *)
(* subscriptions and interruptions.                                        *)
(***************************************************************************)
EXTENDS EventDelivery, Supervisor, EventBus, FiniteSetTheorems, WellFoundedInduction, TLAPS

-----------------------------------------------------------------------------
(* The consumer.  The results on effects, dead letters and attempts hold   *)
(* for the way the runtime uses a consumer: one call at a time (the        *)
(* relay's pass), and messages whose dedup_keys differ.                    *)

(* One coroutine executes consume(). *)
SoleCaller == \A v, w \in Workers : v = w

(* No two messages share a dedup_key. *)
DistinctScopes == \A m, n \in Messages : SameScope(m, n) => m = n

-----------------------------------------------------------------------------
(* The inductive invariant.                                                *)

(* Ghost counters follow the row. *)
Accounted ==
    \A m \in Messages :
        /\ effects[m] = IF inbox[m].status = "DONE" THEN 1 ELSE 0
        /\ deadLetters[m] = IF inbox[m].status = "DEAD_LETTER" THEN 1 ELSE 0
        /\ inbox[m].status = "ABSENT" => inbox[m].attempt = 0

(* What a call in progress remembers agrees with the row of its message. *)
InStep ==
    \A w \in Workers :
        LET m == worker[w].msg
            n == worker[w].attempt
        IN
        /\ worker[w].pc # "idle" => m \in Messages
        /\ worker[w].pc \in {"attempt", "retry", "sleep", "bury"} =>
              inbox[m].status \notin Terminal
        /\ worker[w].pc \in {"attempt", "retry"} => n = inbox[m].attempt + 1
        /\ worker[w].pc = "retry" => n < MaxAttempts
        /\ worker[w].pc = "sleep" => n = inbox[m].attempt /\ n < MaxAttempts
        /\ worker[w].pc = "bury" => n \in {inbox[m].attempt, inbox[m].attempt + 1}

(* Every run of the handler is recorded, was interrupted, or belongs to the *)
(* failed attempt that is about to be recorded.                             *)
Budgeted ==
    \A m \in Messages :
        \/ runs[m] <= inbox[m].attempt + interrupts
        \/ \E w \in Workers : /\ worker[w].pc \in {"retry", "bury"}
                              /\ worker[w].msg = m
                              /\ runs[m] <= worker[w].attempt + interrupts

IInv == TypeOK /\ Accounted /\ InStep /\ Budgeted

-----------------------------------------------------------------------------
(* Type correctness, for any number of concurrent callers.                 *)

(* A backoff is only taken while an attempt is left. *)
BackoffRoom ==
    \A w \in Workers : worker[w].pc \in {"retry", "sleep"} => worker[w].attempt < MaxAttempts

(* What a lookup returns is a row. *)
LEMMA SelectedType ==
    ASSUME TypeOK, NEW m
    PROVE  Selected(m) \subseteq Row
BY InboxAssumption DEF TypeOK, Selected, Matching, NoRow, Row, RowStatus

LEMMA TypeInit == InboxInit => TypeOK /\ BackoffRoom
BY InboxAssumption
DEF InboxInit, TypeOK, BackoffRoom, Row, RowStatus, NoRow, Call, Idle, Outcome

(* Counting one more keeps a counter of natural numbers. *)
LEMMA Counted ==
    ASSUME NEW S, NEW f \in [S -> Nat], NEW x
    PROVE  [f EXCEPT ![x] = @ + 1] \in [S -> Nat]
<1> DEFINE g == [f EXCEPT ![x] = @ + 1]
<1>1. g = [y \in S |-> IF y = x THEN f[x] + 1 ELSE f[y]]
      OBVIOUS
<1>2. ASSUME NEW y \in S
      PROVE  g[y] \in Nat
  <2>1. CASE y = x
        BY <2>1
  <2>2. CASE y # x
        BY <2>2
  <2> QED BY <2>1, <2>2
<1> QED BY <1>1, <1>2

(* A call at a program counter is a call, and it has room for a backoff if  *)
(* it is about to take one.                                                 *)
LEMMA CallStep ==
    ASSUME TypeOK, BackoffRoom, NEW w \in Workers, NEW c \in Call,
           c.pc \in {"retry", "sleep"} => c.attempt < MaxAttempts,
           worker' = [worker EXCEPT ![w] = c]
    PROVE  worker' \in [Workers -> Call] /\ BackoffRoom'
BY DEF TypeOK, BackoffRoom

LEMMA TypeStep == TypeOK /\ BackoffRoom /\ [InboxNext]_inboxVars => TypeOK' /\ BackoffRoom'
<1> SUFFICES ASSUME TypeOK, BackoffRoom, [InboxNext]_inboxVars
             PROVE  TypeOK' /\ BackoffRoom'
    OBVIOUS
<1> DEFINE Calls == worker' \in [Workers -> Call] /\ BackoffRoom'
           Rows == inbox' \in [Messages -> Row]
           Counters == /\ deadLetters' \in [Messages -> Nat]
                       /\ effects' \in [Messages -> Nat]
                       /\ runs' \in [Messages -> Nat]
                       /\ interrupts' \in 0..MaxInterrupts
<1> SUFFICES Calls /\ Rows /\ Counters
    BY DEF TypeOK
<1>c. ASSUME NEW w \in Workers
      PROVE  worker[w] \in Call
      BY DEF TypeOK
<1>1. ASSUME NEW w \in Workers, NEW m \in Messages, Begin(w, m)
      PROVE  Calls /\ Rows /\ Counters
  <2>1. At("state", m, 0) \in Call
        BY InboxAssumption DEF At, Call, Outcome
  <2>2. Calls
        BY <1>1, <2>1, CallStep DEF Begin, At
  <2> QED BY <1>1, <2>2 DEF Begin, TypeOK
<1>2. ASSUME NEW w \in Workers, ReadState(w)
      PROVE  Calls /\ Rows /\ Counters
  <2> DEFINE m == worker[w].msg
             Reply(row) == IF row.status \in Terminal
                           THEN Returned(m, "DUPLICATE")
                           ELSE IF row.attempt < MaxAttempts
                                THEN At("attempt", m, row.attempt + 1)
                                ELSE At("bury", m, row.attempt)
  <2>1. PICK row \in Selected(m) : worker' = [worker EXCEPT ![w] = Reply(row)]
        BY <1>2 DEF ReadState
  <2>2. row \in Row
        BY <2>1, SelectedType
  <2>3. Reply(row) \in Call
        BY <2>2, <1>c, InboxAssumption DEF Call, Row, At, Returned, Outcome
  <2>4. Reply(row).pc \notin {"retry", "sleep"}
        BY DEF At, Returned
  <2>5. Calls
        BY <2>1, <2>3, <2>4, CallStep
  <2> QED BY <1>2, <2>5 DEF ReadState, TypeOK
<1>3. ASSUME NEW w \in Workers, AttemptDuplicate(w)
      PROVE  Calls /\ Rows /\ Counters
  <2>1. Returned(worker[w].msg, "DUPLICATE") \in Call
        BY <1>c, InboxAssumption DEF Returned, Call, Outcome
  <2>2. Calls
        BY <1>3, <2>1, CallStep DEF AttemptDuplicate, Returned
  <2> QED BY <1>3, <2>2 DEF AttemptDuplicate, TypeOK
<1>4. ASSUME NEW w \in Workers, AttemptCommits(w)
      PROVE  Calls /\ Rows /\ Counters
  <2>1. Returned(worker[w].msg, "PROCESSED") \in Call
        BY <1>c, InboxAssumption DEF Returned, Call, Outcome
  <2>2. Calls
        BY <1>4, <2>1, CallStep DEF AttemptCommits, Returned
  <2>3. [status |-> "DONE", attempt |-> worker[w].attempt] \in Row
        BY <1>c DEF Call, Row, RowStatus, Terminal
  <2>4. Rows
        BY <1>4, <2>3 DEF AttemptCommits, MarkDone, TypeOK
  <2>5. Counters
        BY <1>4, Counted DEF AttemptCommits, TypeOK
  <2> QED BY <2>2, <2>4, <2>5
<1>5. ASSUME NEW w \in Workers, AttemptFails(w)
      PROVE  Calls /\ Rows /\ Counters
  <2> DEFINE m == worker[w].msg
             n == worker[w].attempt
  <2>1. PICK retryable \in BOOLEAN :
           worker' = [worker EXCEPT ![w] =
             IF retryable /\ n < MaxAttempts THEN At("retry", m, n) ELSE At("bury", m, n)]
        BY <1>5 DEF AttemptFails
  <2>2. At("retry", m, n) \in Call /\ At("bury", m, n) \in Call
        BY <1>c DEF At, Call, Outcome
  <2>3. Calls
        BY <2>1, <2>2, CallStep DEF At
  <2>4. Counters
        BY <1>5, Counted DEF AttemptFails, TypeOK
  <2> QED BY <1>5, <2>3, <2>4 DEF AttemptFails, TypeOK
<1>6. ASSUME NEW w \in Workers, RecordRetry(w)
      PROVE  Calls /\ Rows /\ Counters
  <2> DEFINE m == worker[w].msg
             n == worker[w].attempt
  <2>1. At("sleep", m, n) \in Call /\ Returned(m, "RAISED") \in Call
        BY <1>c, InboxAssumption DEF At, Returned, Call, Outcome
  <2>2. n < MaxAttempts
        BY <1>6 DEF RecordRetry, BackoffRoom
  <2>3. Calls
        BY <1>6, <2>1, <2>2, CallStep DEF RecordRetry, At, Returned
  <2>4. [status |-> "RETRY_PENDING", attempt |-> n] \in Row
        BY <1>c DEF Call, Row, RowStatus
  <2>5. Rows
        BY <1>6, <2>4 DEF RecordRetry, TypeOK
  <2> QED BY <1>6, <2>3, <2>5 DEF RecordRetry, TypeOK
<1>7. ASSUME NEW w \in Workers, WakeUp(w)
      PROVE  Calls /\ Rows /\ Counters
  <2>1. worker[w].attempt < MaxAttempts
        BY <1>7 DEF WakeUp, BackoffRoom
  <2>2. At("attempt", worker[w].msg, worker[w].attempt + 1) \in Call
        BY <1>c, <2>1, InboxAssumption DEF At, Call, Outcome
  <2>3. Calls
        BY <1>7, <2>2, CallStep DEF WakeUp, At
  <2> QED BY <1>7, <2>3 DEF WakeUp, TypeOK
<1>8. ASSUME NEW w \in Workers, RecordDeadLetter(w)
      PROVE  Calls /\ Rows /\ Counters
  <2> DEFINE m == worker[w].msg
             n == worker[w].attempt
  <2>1. Returned(m, "DEAD_LETTERED") \in Call /\ Returned(m, "RAISED") \in Call
        BY <1>c, InboxAssumption DEF Returned, Call, Outcome
  <2>2. Calls
        BY <1>8, <2>1, CallStep DEF RecordDeadLetter, Returned
  <2>3. [status |-> "DEAD_LETTER", attempt |-> n] \in Row
        BY <1>c DEF Call, Row, RowStatus, Terminal
  <2>4. Rows
        BY <1>8, <2>3 DEF RecordDeadLetter, TypeOK
  <2>5. Counters
        BY <1>8, Counted DEF RecordDeadLetter, TypeOK
  <2> QED BY <2>2, <2>4, <2>5
<1>9. ASSUME NEW w \in Workers, Interrupt(w)
      PROVE  Calls /\ Rows /\ Counters
  <2>1. Idle \in Call
        BY InboxAssumption DEF Idle, Call, Outcome
  <2>2. Calls
        BY <1>9, <2>1, CallStep DEF Interrupt, Idle
  <2>3. Counters
        BY <1>9, Counted, InboxAssumption DEF Interrupt, TypeOK
  <2> QED BY <1>9, <2>2, <2>3 DEF Interrupt, TypeOK
<1>10. ASSUME UNCHANGED inboxVars
       PROVE  Calls /\ Rows /\ Counters
      BY <1>10 DEF inboxVars, TypeOK, BackoffRoom
<1> QED BY <1>1, <1>2, <1>3, <1>4, <1>5, <1>6, <1>7, <1>8, <1>9, <1>10 DEF InboxNext, Continue

(* Every row, counter and call keeps its type, for any number of callers    *)
(* and any sharing of dedup_keys.                                           *)
THEOREM TypeCorrect == InboxSpec => []TypeOK
<1>1. InboxSpec => [](TypeOK /\ BackoffRoom)
      BY TypeInit, TypeStep, PTL DEF InboxSpec
<1> QED BY <1>1, PTL

-----------------------------------------------------------------------------
(* Safety, for a sole caller and messages with different dedup_keys.       *)

(* Without shared keys a lookup returns the message's own row, and the row  *)
(* can be written.                                                          *)
LEMMA OwnRow ==
    ASSUME DistinctScopes, TypeOK, Accounted, NEW m \in Messages
    PROVE  Selected(m) = {inbox[m]} /\ CanUpsert(m)
<1>1. inbox[m] \in Row
      BY DEF TypeOK
<1>2. Matching(m) = IF Present(m) THEN {m} ELSE {}
      BY DEF DistinctScopes, Matching, SameScope
<1>3. CASE Present(m)
      BY <1>2, <1>3 DEF Selected, CanUpsert
<1>4. CASE ~Present(m)
  <2>1. inbox[m] = NoRow
        BY <1>1, <1>4 DEF Present, Accounted, Row, NoRow
  <2> QED BY <1>2, <1>4, <2>1 DEF Selected, CanUpsert
<1> QED BY <1>3, <1>4

LEMMA InvInit == InboxInit => IInv
<1> SUFFICES ASSUME InboxInit PROVE IInv
    OBVIOUS
<1>1. TypeOK
      BY TypeInit
<1>2. Accounted
      BY DEF InboxInit, Accounted, NoRow
<1>3. InStep
      BY DEF InboxInit, InStep, Idle
<1>4. Budgeted
      BY InboxAssumption DEF InboxInit, Budgeted, NoRow
<1> QED BY <1>1, <1>2, <1>3, <1>4 DEF IInv

(* The action SettledIsFinal is about. *)
Settled == \A m \in Messages : inbox[m].status \in Terminal => inbox'[m] = inbox[m]

LEMMA InvStep ==
    ASSUME SoleCaller, DistinctScopes, IInv, [InboxNext]_inboxVars
    PROVE  IInv' /\ Settled
<1> DEFINE Goal == Accounted' /\ InStep' /\ Budgeted' /\ Settled
<1>t. TypeOK /\ TypeOK'
      BY TypeStep DEF IInv, InStep, BackoffRoom
<1> SUFFICES Goal
    BY <1>t DEF IInv
<1>c. ASSUME NEW w \in Workers
      PROVE  /\ worker[w] \in Call
             /\ \A v \in Workers : v = w
      BY <1>t DEF TypeOK, SoleCaller
<1>n. /\ \A m \in Messages : inbox[m] \in Row
      /\ \A m \in Messages : runs[m] \in Nat /\ effects[m] \in Nat /\ deadLetters[m] \in Nat
      /\ interrupts \in Nat
      BY <1>t, InboxAssumption DEF TypeOK
<1>1. ASSUME NEW w \in Workers, NEW m \in Messages, Begin(w, m)
      PROVE  Goal
  <2>1. worker'[w] = At("state", m, 0)
        BY <1>1, <1>t DEF Begin, TypeOK
  <2>2. InStep'
        BY <1>1, <1>c, <2>1 DEF InStep, At
  <2>3. Accounted' /\ Settled
        BY <1>1 DEF Begin, IInv, Accounted, Settled
  <2>4. Budgeted'
        BY <1>1, <1>c DEF Begin, IInv, Budgeted
  <2> QED BY <2>2, <2>3, <2>4
<1>2. ASSUME NEW w \in Workers, ReadState(w)
      PROVE  Goal
  <2> DEFINE m == worker[w].msg
             Reply(row) == IF row.status \in Terminal
                           THEN Returned(m, "DUPLICATE")
                           ELSE IF row.attempt < MaxAttempts
                                THEN At("attempt", m, row.attempt + 1)
                                ELSE At("bury", m, row.attempt)
  <2>1. m \in Messages
        BY <1>2 DEF ReadState, IInv, InStep
  <2>2. worker' = [worker EXCEPT ![w] = Reply(inbox[m])]
    <3>1. Selected(m) = {inbox[m]}
          BY <2>1, OwnRow DEF IInv
    <3>2. PICK row \in Selected(m) : worker' = [worker EXCEPT ![w] = Reply(row)]
          BY <1>2 DEF ReadState
    <3> QED BY <3>1, <3>2
  <2>3. worker'[w] = Reply(inbox[m])
        BY <2>2, <1>t DEF TypeOK
  <2>4. InStep'
        BY <1>2, <1>c, <1>n, <2>1, <2>3, InboxAssumption
        DEF ReadState, InStep, At, Returned, Row
  <2>5. Accounted' /\ Settled
        BY <1>2 DEF ReadState, IInv, Accounted, Settled
  <2>6. Budgeted'
        BY <1>2, <1>c DEF ReadState, IInv, Budgeted
  <2> QED BY <2>4, <2>5, <2>6
<1>3. ASSUME NEW w \in Workers, AttemptDuplicate(w)
      PROVE  Goal
  <2>1. worker[w].msg \in Messages /\ inbox[worker[w].msg].status \notin Terminal
        BY <1>3 DEF AttemptDuplicate, IInv, InStep
  <2>2. Selected(worker[w].msg) = {inbox[worker[w].msg]}
        BY <2>1, OwnRow DEF IInv
  <2> QED BY <1>3, <2>1, <2>2 DEF AttemptDuplicate
<1>4. ASSUME NEW w \in Workers, AttemptCommits(w)
      PROVE  Goal
  <2> DEFINE m == worker[w].msg
             n == worker[w].attempt
  <2>1. /\ m \in Messages
        /\ inbox[m].status \notin Terminal
        /\ n = inbox[m].attempt + 1
        BY <1>4 DEF AttemptCommits, IInv, InStep
  <2>2. inbox' = [inbox EXCEPT ![m] = [status |-> "DONE", attempt |-> n]]
        BY <1>4, <2>1, OwnRow DEF AttemptCommits, MarkDone, IInv
  <2>3. worker'[w] = Returned(m, "PROCESSED")
        BY <1>4, <1>t DEF AttemptCommits, TypeOK
  <2>4. InStep'
        BY <1>c, <2>3 DEF InStep, Returned
  <2>5. Accounted'
    <3>1. effects' = [effects EXCEPT ![m] = @ + 1] /\ deadLetters' = deadLetters
          BY <1>4 DEF AttemptCommits
    <3>2. effects'[m] = 1 /\ deadLetters'[m] = 0 /\ inbox'[m].status = "DONE"
          BY <1>t, <2>1, <2>2, <3>1 DEF IInv, Accounted, Terminal, TypeOK
    <3>3. ASSUME NEW k \in Messages, k # m
          PROVE  effects'[k] = effects[k] /\ inbox'[k] = inbox[k]
          BY <1>t, <2>2, <3>1, <3>3 DEF TypeOK
    <3> QED BY <3>1, <3>2, <3>3 DEF IInv, Accounted
  <2>6. Settled
        BY <1>t, <2>1, <2>2 DEF Settled, TypeOK
  <2>7. Budgeted'
    <3> SUFFICES ASSUME NEW k \in Messages
                 PROVE  runs'[k] <= inbox'[k].attempt + interrupts'
        BY DEF Budgeted
    <3>1. runs[k] <= inbox[k].attempt + interrupts
          BY <1>4, <1>c DEF AttemptCommits, IInv, Budgeted
    <3>2. runs' = [runs EXCEPT ![m] = @ + 1] /\ interrupts' = interrupts
          BY <1>4 DEF AttemptCommits
    <3>3. CASE k = m
          BY <1>n, <1>t, <2>1, <2>2, <3>1, <3>2, <3>3 DEF TypeOK, Row
    <3>4. CASE k # m
          BY <1>n, <1>t, <2>1, <2>2, <3>1, <3>2, <3>4 DEF TypeOK
    <3> QED BY <3>3, <3>4
  <2> QED BY <2>4, <2>5, <2>6, <2>7
<1>5. ASSUME NEW w \in Workers, AttemptFails(w)
      PROVE  Goal
  <2> DEFINE m == worker[w].msg
             n == worker[w].attempt
  <2>1. /\ m \in Messages
        /\ inbox[m].status \notin Terminal
        /\ n = inbox[m].attempt + 1
        BY <1>5 DEF AttemptFails, IInv, InStep
  <2>2. \/ n < MaxAttempts /\ worker'[w] = At("retry", m, n)
        \/ worker'[w] = At("bury", m, n)
        BY <1>5, <1>t DEF AttemptFails, TypeOK
  <2>3. InStep'
        BY <1>5, <1>c, <1>n, <2>1, <2>2 DEF AttemptFails, InStep, At, Row
  <2>4. Accounted' /\ Settled
        BY <1>5 DEF AttemptFails, IInv, Accounted, Settled
  <2>5. Budgeted'
    <3> SUFFICES ASSUME NEW k \in Messages
                 PROVE  \/ runs'[k] <= inbox'[k].attempt + interrupts'
                        \/ /\ worker'[w].pc \in {"retry", "bury"}
                           /\ worker'[w].msg = k
                           /\ runs'[k] <= worker'[w].attempt + interrupts'
        BY DEF Budgeted
    <3>1. runs[k] <= inbox[k].attempt + interrupts
          BY <1>5, <1>c DEF AttemptFails, IInv, Budgeted
    <3>2. /\ runs' = [runs EXCEPT ![m] = @ + 1]
          /\ interrupts' = interrupts
          /\ inbox' = inbox
          BY <1>5 DEF AttemptFails
    <3>3. CASE k = m
          BY <1>n, <1>t, <2>1, <2>2, <3>1, <3>2, <3>3 DEF TypeOK, At, Row
    <3>4. CASE k # m
          BY <1>t, <3>1, <3>2, <3>4 DEF TypeOK
    <3> QED BY <3>3, <3>4
  <2> QED BY <2>3, <2>4, <2>5
<1>6. ASSUME NEW w \in Workers, RecordRetry(w)
      PROVE  Goal
  <2> DEFINE m == worker[w].msg
             n == worker[w].attempt
  <2>1. /\ m \in Messages
        /\ inbox[m].status \notin Terminal
        /\ n = inbox[m].attempt + 1
        /\ n < MaxAttempts
        BY <1>6 DEF RecordRetry, IInv, InStep
  <2>2. /\ inbox' = [inbox EXCEPT ![m] = [status |-> "RETRY_PENDING", attempt |-> n]]
        /\ worker' = [worker EXCEPT ![w] = At("sleep", m, n)]
        BY <1>6, <2>1, OwnRow DEF RecordRetry, IInv
  <2>3. worker'[w] = At("sleep", m, n)
        BY <2>2, <1>t DEF TypeOK
  <2>4. inbox'[m] = [status |-> "RETRY_PENDING", attempt |-> n]
        BY <1>t, <2>1, <2>2 DEF TypeOK
  <2>5. InStep'
        BY <1>c, <2>1, <2>3, <2>4 DEF InStep, At, Terminal
  <2>6. Accounted'
        BY <1>6, <1>t, <2>1, <2>2 DEF RecordRetry, IInv, Accounted, Terminal, TypeOK
  <2>7. Settled
        BY <1>t, <2>1, <2>2 DEF Settled, TypeOK
  <2>8. Budgeted'
    <3>1. UNCHANGED <<runs, interrupts>> /\ inbox'[m].attempt = n
          BY <1>6, <2>4 DEF RecordRetry
    <3>2. ASSUME NEW k \in Messages PROVE runs[k] <= inbox'[k].attempt + interrupts
      <4>1. runs[k] <= inbox[k].attempt + interrupts \/ (k = m /\ runs[k] <= n + interrupts)
            BY <1>c, <3>2 DEF IInv, Budgeted
      <4>2. CASE k # m
        <5>1. inbox'[k] = inbox[k]
              BY <1>t, <2>2, <4>2 DEF TypeOK
        <5> QED BY <4>1, <4>2, <5>1
      <4>3. CASE k = m
        <5>1. inbox[k].attempt \in Nat /\ interrupts \in Nat /\ runs[k] \in Nat
              BY <1>t DEF TypeOK, Row
        <5> QED BY <2>1, <3>1, <4>1, <4>3, <5>1
      <4> QED BY <4>2, <4>3
    <3> QED BY <3>1, <3>2 DEF Budgeted
  <2> QED BY <2>5, <2>6, <2>7, <2>8
<1>7. ASSUME NEW w \in Workers, WakeUp(w)
      PROVE  Goal
  <2>1. worker'[w] = At("attempt", worker[w].msg, worker[w].attempt + 1)
        BY <1>7, <1>t DEF WakeUp, TypeOK
  <2>2. InStep'
        BY <1>7, <1>c, <2>1 DEF WakeUp, IInv, InStep, At
  <2>3. Accounted' /\ Settled
        BY <1>7 DEF WakeUp, IInv, Accounted, Settled
  <2>4. Budgeted'
        BY <1>7, <1>c DEF WakeUp, IInv, Budgeted
  <2> QED BY <2>2, <2>3, <2>4
<1>8. ASSUME NEW w \in Workers, RecordDeadLetter(w)
      PROVE  Goal
  <2> DEFINE m == worker[w].msg
             n == worker[w].attempt
  <2>1. /\ m \in Messages
        /\ inbox[m].status \notin Terminal
        /\ n \in {inbox[m].attempt, inbox[m].attempt + 1}
        BY <1>8 DEF RecordDeadLetter, IInv, InStep
  <2>2. /\ inbox' = [inbox EXCEPT ![m] = [status |-> "DEAD_LETTER", attempt |-> n]]
        /\ deadLetters' = [deadLetters EXCEPT ![m] = @ + 1]
        /\ worker' = [worker EXCEPT ![w] = Returned(m, "DEAD_LETTERED")]
        BY <1>8, <2>1, OwnRow DEF RecordDeadLetter, IInv
  <2>3. worker'[w] = Returned(m, "DEAD_LETTERED")
        BY <2>2, <1>t DEF TypeOK
  <2>4. InStep'
        BY <1>c, <2>3 DEF InStep, Returned
  <2>5. Accounted'
        BY <1>8, <1>t, <2>1, <2>2 DEF RecordDeadLetter, IInv, Accounted, Terminal, TypeOK
  <2>6. Settled
        BY <1>t, <2>1, <2>2 DEF Settled, TypeOK
  <2>7. Budgeted'
    <3> SUFFICES ASSUME NEW k \in Messages
                 PROVE  runs'[k] <= inbox'[k].attempt + interrupts'
        BY DEF Budgeted
    <3>1. runs' = runs /\ interrupts' = interrupts
          BY <1>8 DEF RecordDeadLetter
    <3>2. \/ runs[k] <= inbox[k].attempt + interrupts
          \/ k = m /\ runs[k] <= n + interrupts
          BY <1>c DEF IInv, Budgeted
    <3>3. CASE k = m
          BY <1>n, <1>t, <2>1, <2>2, <3>1, <3>2, <3>3 DEF TypeOK, Row
    <3>4. CASE k # m
          BY <1>t, <2>2, <3>1, <3>2, <3>4 DEF TypeOK
    <3> QED BY <3>3, <3>4
  <2> QED BY <2>4, <2>5, <2>6, <2>7
<1>9. ASSUME NEW w \in Workers, Interrupt(w)
      PROVE  Goal
  <2>1. worker'[w] = Idle /\ interrupts' = interrupts + 1
        BY <1>9, <1>t DEF Interrupt, TypeOK
  <2>2. InStep'
        BY <1>c, <2>1 DEF InStep, Idle
  <2>3. Accounted' /\ Settled
        BY <1>9 DEF Interrupt, IInv, Accounted, Settled
  <2>4. Budgeted'
    <3> SUFFICES ASSUME NEW k \in Messages
                 PROVE  runs'[k] <= inbox'[k].attempt + interrupts'
        BY DEF Budgeted
    <3>1. /\ inbox' = inbox
          /\ \/ runs' = runs
             \/ worker[w].pc = "attempt" /\ runs' = [runs EXCEPT ![worker[w].msg] = @ + 1]
          BY <1>9 DEF Interrupt
    <3>2. runs'[k] \in {runs[k], runs[k] + 1}
          BY <1>t, <1>n, <3>1 DEF TypeOK
    <3>3. CASE runs[k] <= inbox[k].attempt + interrupts
          BY <1>n, <2>1, <3>1, <3>2, <3>3 DEF Row
    <3>4. CASE /\ worker[w].pc \in {"retry", "bury"}
               /\ worker[w].msg = k
               /\ runs[k] <= worker[w].attempt + interrupts
      <4>1. worker[w].attempt \in {inbox[k].attempt, inbox[k].attempt + 1}
            BY <3>4 DEF IInv, InStep
      <4>2. runs' = runs
            BY <3>1, <3>4
      <4> QED BY <1>n, <2>1, <3>1, <3>4, <4>1, <4>2 DEF Row
    <3> QED BY <1>c, <3>3, <3>4 DEF IInv, Budgeted
  <2> QED BY <2>2, <2>3, <2>4
<1>10. ASSUME UNCHANGED inboxVars
       PROVE  Goal
      BY <1>10 DEF inboxVars, IInv, Accounted, InStep, Budgeted, Settled
<1> QED BY <1>1, <1>2, <1>3, <1>4, <1>5, <1>6, <1>7, <1>8, <1>9, <1>10 DEF InboxNext, Continue

(* The invariant bounds the effects and the runs: an interruption is needed *)
(* for every run beyond the attempts a policy grants.                       *)
LEMMA InvImplies ==
    ASSUME DistinctScopes, IInv
    PROVE  ConsumptionIsSound
<1>1. \A m \in Messages : inbox[m] \in Row /\ runs[m] \in Nat
      BY DEF IInv, TypeOK
<1>2. \A m \in Messages :
         /\ effects[m] = IF inbox[m].status = "DONE" THEN 1 ELSE 0
         /\ deadLetters[m] = IF inbox[m].status = "DEAD_LETTER" THEN 1 ELSE 0
      BY DEF IInv, Accounted
<1>3. EffectAtMostOnce
      BY <1>2 DEF EffectAtMostOnce, DistinctScopes
<1>4. AtomicCompletion
      BY <1>2 DEF AtomicCompletion
<1>5. BuriedCleanly
      BY <1>2 DEF BuriedCleanly
<1>6. RetryBudget
  <2> SUFFICES ASSUME NEW m \in Messages
               PROVE  runs[m] <= MaxAttempts + interrupts
      BY DEF RetryBudget
  <2>1. \A w \in Workers : worker[w].attempt \in 0..MaxAttempts
        BY DEF IInv, TypeOK, Call
  <2>2. inbox[m].attempt \in 0..MaxAttempts
        BY <1>1 DEF Row
  <2>3. interrupts \in Nat
        BY InboxAssumption DEF IInv, TypeOK
  <2> QED BY <1>1, <2>1, <2>2, <2>3, InboxAssumption DEF IInv, Budgeted
<1> QED BY <1>3, <1>4, <1>5, <1>6 DEF ConsumptionIsSound

(* A sole caller commits the effects of a message at most once, together    *)
(* with its DONE row; what it buries has one dead letter and no effect; and *)
(* it stays within the attempts granted, interruptions aside.               *)
THEOREM Safe ==
    ASSUME SoleCaller, DistinctScopes
    PROVE  InboxSpec => []ConsumptionIsSound
<1>1. InboxSpec => []IInv
      BY InvInit, InvStep, PTL DEF InboxSpec
<1> QED BY <1>1, InvImplies, PTL

(* A sole caller never takes a settled message back. *)
THEOREM Final ==
    ASSUME SoleCaller, DistinctScopes
    PROVE  InboxSpec => SettledIsFinal
<1>1. InboxSpec => []IInv
      BY InvInit, InvStep, PTL DEF InboxSpec
<1>2. IInv /\ [InboxNext]_inboxVars => [Settled]_inboxVars
      BY InvStep
<1> QED BY <1>1, <1>2, PTL DEF InboxSpec, SettledIsFinal, Settled

-----------------------------------------------------------------------------
(* Any number of concurrent callers and any sharing of dedup_keys, for a   *)
(* consumer that does not retry: rows are written when a message settles,  *)
(* and a key has one row.                                                  *)

NoRetries == MaxAttempts = 1 /\ Exhausted = {}

SharedInv ==
    /\ TypeOK
    /\ BackoffRoom
    /\ \A w \in Workers : worker[w].pc \in {"attempt", "retry", "sleep"} => worker[w].attempt >= 1
    /\ \A m \in Messages : inbox[m].status = "ABSENT" => inbox[m] = NoRow
    /\ \A m \in Messages : inbox[m].status # "ABSENT" => inbox[m].status \in Terminal
    /\ \A m \in Messages : effects[m] > 0 => inbox[m].status \in Terminal
    /\ EffectAtMostOnce

LEMMA SharedStep ==
    ASSUME NoRetries, SharedInv, [InboxNext]_inboxVars
    PROVE  SharedInv'
<1>1. TypeOK /\ TypeOK' /\ BackoffRoom'
      BY TypeStep DEF SharedInv
<1>2. MaxAttempts = 1
      BY DEF NoRetries
<1>3. \A w \in Workers : worker[w].pc # "retry" /\ worker[w].pc # "sleep"
      BY <1>1, <1>2 DEF SharedInv, BackoffRoom, TypeOK, Call
<1>4. \A m \in Messages : inbox[m] \in Row /\ effects[m] \in Nat
      BY <1>1 DEF TypeOK
<1> DEFINE Rows == /\ \A m \in Messages : inbox[m].status = "ABSENT" => inbox[m] = NoRow
                   /\ \A m \in Messages : inbox[m].status # "ABSENT" => inbox[m].status \in Terminal
                   /\ \A m \in Messages : effects[m] > 0 => inbox[m].status \in Terminal
                   /\ EffectAtMostOnce
           Calls == \A w \in Workers : worker[w].pc \in {"attempt", "retry", "sleep"} => worker[w].attempt >= 1
<1>5. Rows /\ Calls
      BY DEF SharedInv
<1> SUFFICES Rows' /\ Calls'
    BY <1>1 DEF SharedInv
<1>6. ASSUME NEW w \in Workers, NEW c \in Call, worker' = [worker EXCEPT ![w] = c],
             c.pc \in {"attempt", "retry", "sleep"} => c.attempt >= 1
      PROVE  Calls'
      BY <1>1, <1>5, <1>6 DEF TypeOK
<1>7. ASSUME UNCHANGED <<inbox, effects>> PROVE Rows'
      BY <1>5, <1>7 DEF EffectAtMostOnce
<1>8. \A m, row : row \in Selected(m) => row \in Row
      BY <1>1, SelectedType
<1>9. ASSUME NEW w \in Workers, NEW m \in Messages, Begin(w, m) PROVE Rows' /\ Calls'
  <2>1. Calls'
        BY <1>1, <1>5, <1>9 DEF Begin, At, TypeOK
  <2> QED BY <1>7, <1>9, <2>1 DEF Begin
<1>10. ASSUME NEW w \in Workers, ReadState(w) PROVE Rows' /\ Calls'
  <2>1. PICK row \in Selected(worker[w].msg) :
           worker' = [worker EXCEPT ![w] =
              IF row.status \in Terminal THEN Returned(worker[w].msg, "DUPLICATE")
              ELSE IF row.attempt < MaxAttempts THEN At("attempt", worker[w].msg, row.attempt + 1)
              ELSE At("bury", worker[w].msg, row.attempt)]
        BY <1>10 DEF ReadState
  <2>2. row.attempt \in Nat
        BY <1>2, <1>8 DEF Row
  <2>3. worker'[w].pc = "attempt" => worker'[w].attempt = row.attempt + 1
        BY <1>1, <2>1 DEF TypeOK, Returned, At
  <2>4. worker'[w].pc \notin {"retry", "sleep"}
        BY <1>1, <2>1 DEF TypeOK, Returned, At
  <2>5. \A v \in Workers \ {w} : worker'[v] = worker[v]
        BY <1>1, <2>1 DEF TypeOK
  <2>6. Calls'
        BY <1>5, <2>2, <2>3, <2>4, <2>5
  <2> QED BY <1>7, <1>10, <2>6 DEF ReadState
<1>11. ASSUME NEW w \in Workers, AttemptDuplicate(w) PROVE Rows' /\ Calls'
  <2>1. Calls'
        BY <1>1, <1>5, <1>11 DEF AttemptDuplicate, Returned, TypeOK
  <2> QED BY <1>7, <1>11, <2>1 DEF AttemptDuplicate
<1>12. ASSUME NEW w \in Workers, AttemptCommits(w) PROVE Rows' /\ Calls'
  <2>1. PICK m : m = worker[w].msg
        OBVIOUS
  <2>2. Matching(m) = {}
    <3>1. PICK row \in Selected(m) : row.status \notin Terminal
          BY <1>12, <2>1 DEF AttemptCommits
    <3>2. \A n \in Matching(m) : inbox[n].status \in Terminal
          BY <1>5 DEF Matching, Present
    <3> QED BY <3>1, <3>2 DEF Selected
  <2>3. /\ effects' = [effects EXCEPT ![m] = @ + 1]
        /\ inbox' = [inbox EXCEPT ![m] = [status |-> "DONE", attempt |-> worker[w].attempt]]
        BY <1>12, <2>1, <2>2 DEF AttemptCommits, MarkDone, CanUpsert
  <2>4. \A n \in Messages : SameScope(m, n) \/ SameScope(n, m) => effects[n] = 0
    <3>1. \A n \in Messages : SameScope(m, n) => inbox[n].status = "ABSENT"
          BY <2>2 DEF Matching, Present
    <3>2. \A n \in Messages : SameScope(n, m) => SameScope(m, n)
          BY DEF SameScope
    <3> QED BY <1>4, <1>5, <3>1, <3>2 DEF Terminal
  <2>5. \A n \in Messages : n # m => effects'[n] = effects[n] /\ inbox'[n] = inbox[n]
        BY <1>1, <2>3 DEF TypeOK
  <2>6. m \in Messages => effects'[m] = 1 /\ inbox'[m].status = "DONE"
    <3>1. m \in Messages => effects[m] = 0
          BY <2>4 DEF SameScope
    <3> QED BY <1>1, <2>3, <3>1 DEF TypeOK
  <2>7. EffectAtMostOnce'
    <3> SUFFICES ASSUME NEW a \in Messages
                 PROVE  /\ effects'[a] <= 1
                        /\ \A b \in Messages \ {a} : SameScope(a, b) /\ effects'[a] > 0 => effects'[b] = 0
        BY DEF EffectAtMostOnce, SameScope
    <3>1. CASE a = m
          BY <2>4, <2>5, <2>6, <3>1
    <3>2. CASE a # m
      <4>1. effects'[a] = effects[a]
            BY <2>5, <3>2
      <4>2. ASSUME NEW b \in Messages \ {a}, SameScope(a, b), effects[a] > 0 PROVE effects'[b] = 0
        <5>1. effects[b] = 0
              BY <1>5, <4>2 DEF EffectAtMostOnce
        <5>2. b # m
              BY <1>4, <2>4, <4>2
        <5> QED BY <2>5, <5>1, <5>2
      <4> QED BY <1>5, <4>1, <4>2 DEF EffectAtMostOnce
    <3> QED BY <3>1, <3>2
  <2>8. Rows'
        BY <1>5, <2>5, <2>6, <2>7 DEF Terminal
  <2>9. Calls'
        BY <1>1, <1>5, <1>12 DEF AttemptCommits, Returned, TypeOK
  <2> QED BY <2>8, <2>9
<1>13. ASSUME NEW w \in Workers, AttemptFails(w) PROVE Rows' /\ Calls'
  <2>1. worker[w].attempt >= 1
        BY <1>5, <1>13 DEF AttemptFails
  <2>2. /\ worker'[w].attempt = worker[w].attempt
        /\ \A v \in Workers \ {w} : worker'[v] = worker[v]
        BY <1>1, <1>13 DEF AttemptFails, At, TypeOK
  <2>3. Calls'
        BY <1>5, <2>1, <2>2
  <2> QED BY <1>7, <1>13, <2>3 DEF AttemptFails
<1>14. ASSUME NEW w \in Workers, RecordRetry(w) \/ WakeUp(w) PROVE Rows' /\ Calls'
      BY <1>3, <1>14 DEF RecordRetry, WakeUp
<1>15. ASSUME NEW w \in Workers, RecordDeadLetter(w) PROVE Rows' /\ Calls'
  <2>1. PICK m : m = worker[w].msg
        OBVIOUS
  <2>2. \/ inbox' = inbox
        \/ inbox' = [inbox EXCEPT ![m] = [status |-> "DEAD_LETTER", attempt |-> worker[w].attempt]]
        BY <1>15, <2>1 DEF RecordDeadLetter
  <2>3. \A n \in Messages : inbox'[n] = inbox[n] \/ inbox'[n].status = "DEAD_LETTER"
        BY <1>1, <2>2 DEF TypeOK
  <2>4. effects' = effects
        BY <1>15 DEF RecordDeadLetter
  <2>5. Rows'
        BY <1>5, <2>3, <2>4 DEF EffectAtMostOnce, Terminal
  <2>6. Calls'
        BY <1>1, <1>5, <1>15 DEF RecordDeadLetter, Returned, TypeOK
  <2> QED BY <2>5, <2>6
<1>16. ASSUME NEW w \in Workers, Interrupt(w) PROVE Rows' /\ Calls'
  <2>1. Calls'
        BY <1>1, <1>5, <1>16 DEF Interrupt, Idle, TypeOK
  <2> QED BY <1>7, <1>16, <2>1 DEF Interrupt
<1>17. ASSUME UNCHANGED inboxVars PROVE Rows' /\ Calls'
      BY <1>5, <1>7, <1>17 DEF inboxVars
<1> QED BY <1>9, <1>10, <1>11, <1>12, <1>13, <1>14, <1>15, <1>16, <1>17 DEF InboxNext, Continue

(* However many callers race, and however messages share dedup_keys: the   *)
(* effects of a key are committed at most once.                            *)
THEOREM SharedKeysHaveOneEffect ==
    ASSUME NoRetries
    PROVE  InboxSpec => []EffectAtMostOnce
<1>1. InboxInit => SharedInv
  <2> SUFFICES ASSUME InboxInit PROVE SharedInv
      OBVIOUS
  <2>1. TypeOK /\ BackoffRoom
        BY TypeInit
  <2>2. \A m \in Messages : inbox[m] = NoRow /\ effects[m] = 0
        BY DEF InboxInit, NoRetries
  <2>3. \A w \in Workers : worker[w].pc = "idle"
        BY DEF InboxInit, Idle
  <2> QED BY <2>1, <2>2, <2>3 DEF SharedInv, EffectAtMostOnce, NoRow
<1>2. SharedInv /\ [InboxNext]_inboxVars => SharedInv'
      BY SharedStep
<1>3. SharedInv => EffectAtMostOnce
      BY DEF SharedInv
<1> QED BY <1>1, <1>2, <1>3, PTL DEF InboxSpec

-----------------------------------------------------------------------------
(* The durable event path of the runnable agent implements reliable        *)
(* delivery, as long as the dedup_keys of the events differ (the           *)
(* occurrences of a schedule do, scheduler.py).  The relay is the          *)
(* consumer's only caller.                                                 *)

Done(e) == inbox[e].status \in Terminal
Batch == pass[Serve].batch

RelayTypeOK ==
    /\ outbox \in [Messages -> [state : {"ABSENT", "PENDING", "PUBLISHED"}, due : BOOLEAN]]
    /\ order \in Seq(Messages)
    /\ pass \in [Workers -> [pc : {"idle", "publish", "waiting", "confirm", "defer"}, batch : Seq(Messages)]]

\* The rows in their order, each once
OrderIsOutbox ==
    /\ \A e \in Messages : outbox[e].state # "ABSENT" <=> \E i \in DOMAIN order : order[i] = e
    /\ \A i, j \in DOMAIN order : order[i] = order[j] => i = j

\* A row is confirmed or deferred when its message is settled, and not before it is there
SettledFirst ==
    \A e \in Messages :
        /\ Done(e) => outbox[e].state # "ABSENT"
        /\ outbox[e].state = "PUBLISHED" => Done(e)
        /\ outbox[e].state = "PENDING" /\ ~ outbox[e].due => Done(e)

\* What stands before an event of the batch is settled or before it in the batch
InPass ==
    /\ pass[Serve].pc = "idle" <=> Batch = <<>>
    /\ \A j \in DOMAIN Batch : outbox[Batch[j]].state # "ABSENT"
    /\ \A j \in DOMAIN Batch, e \in Messages :
          O!Before(e, Batch[j]) => Done(e) \/ \E i \in 1..(j - 1) : Batch[i] = e

\* The consumer works for the relay, on the head of its batch
InCall ==
    /\ worker[Serve].pc # "idle" => pass[Serve].pc = "waiting"
    /\ pass[Serve].pc = "waiting" => worker[Serve].msg = Batch[1]
    /\ pass[Serve].pc = "waiting" /\ worker[Serve].pc = "idle" => Done(Batch[1])
    /\ pass[Serve].pc \in {"confirm", "defer"} => Done(Batch[1])

PathInv == IInv /\ RelayTypeOK /\ OrderIsOutbox /\ SettledFirst /\ InPass /\ InCall

-----------------------------------------------------------------------------
LEMMA RelayIsSole == Workers = {Serve} /\ Serve \in Workers /\ SoleCaller
BY EventDeliveryAssumption DEF EventDeliveryAssumption, SoleCaller

(* The order of the rows is strict.                                        *)
LEMMA BeforeIsStrict ==
    ASSUME RelayTypeOK, OrderIsOutbox, NEW e, NEW f, O!Before(e, f)
    PROVE  e # f /\ ~ O!Before(f, e)
<1>1. DOMAIN order \subseteq Nat
      BY DEF RelayTypeOK
<1>2. PICK i, j \in DOMAIN order : i < j /\ order[i] = e /\ order[j] = f
      BY DEF O!Before
<1>3. ASSUME NEW k \in DOMAIN order, NEW l \in DOMAIN order, k < l, order[k] = f, order[l] = e
      PROVE  FALSE
  <2>1. k = j /\ l = i
        BY <1>2, <1>3 DEF OrderIsOutbox
  <2> QED BY <1>1, <1>2, <1>3, <2>1
<1>4. i # j
      BY <1>1, <1>2
<1> QED BY <1>2, <1>3, <1>4 DEF O!Before, OrderIsOutbox

(* A pass in progress has an event at hand.                                *)
LEMMA EventAtHand ==
    ASSUME PathInv, pass[Serve].pc # "idle"
    PROVE  /\ Batch \in Seq(Messages) /\ Batch # <<>> /\ 1 \in DOMAIN Batch
           /\ Head(Batch) = Batch[1] /\ Batch[1] \in Messages
           /\ outbox[Batch[1]].state \in {"PENDING", "PUBLISHED"}
<1>1. Batch \in Seq(Messages)
      BY RelayIsSole DEF PathInv, RelayTypeOK, Batch
<1>2. Batch # <<>>
      BY DEF PathInv, InPass
<1>3. 1 \in DOMAIN Batch /\ Head(Batch) = Batch[1] /\ Batch[1] \in Messages
      BY <1>1, <1>2
<1>4. outbox[Batch[1]].state \in {"PENDING", "PUBLISHED"}
      BY <1>3 DEF PathInv, InPass, RelayTypeOK
<1> QED BY <1>1, <1>2, <1>3, <1>4

(* What a step of consume() does to the row of its message.                *)
LEMMA ConsumeEffect ==
    ASSUME DistinctScopes, PathInv, Consume
    PROVE  /\ pass[Serve].pc = "waiting" /\ worker'[Serve].msg = Batch[1]
           /\ \A e \in Messages \ {Batch[1]} : inbox'[e] = inbox[e]
           /\ inbox'[Batch[1]].status # inbox[Batch[1]].status => inbox[Batch[1]].status \notin Terminal
           /\ worker'[Serve].pc = "idle" => inbox'[Batch[1]].status \in Terminal
<1>1. Continue(Serve) /\ UNCHANGED relayVars
      BY DEF Consume
<1>2. worker[Serve].pc # "idle"
      BY <1>1 DEF Continue, ReadState, AttemptDuplicate, AttemptCommits, AttemptFails, RecordRetry, WakeUp, RecordDeadLetter
<1>3. pass[Serve].pc = "waiting" /\ worker[Serve].msg = Batch[1]
      BY <1>2 DEF PathInv, InCall
<1>4. PICK m \in Messages : m = Batch[1]
      BY <1>3, EventAtHand
<1>5. Selected(m) = {inbox[m]} /\ CanUpsert(m)
      BY OwnRow DEF PathInv, IInv
<1>6. worker \in [Workers -> Call] /\ inbox \in [Messages -> Row] /\ Serve \in Workers
      BY RelayIsSole DEF PathInv, IInv, TypeOK
<1>7. worker[Serve].pc \in {"attempt", "retry", "sleep", "bury"} => inbox[m].status \notin Terminal
      BY <1>3, <1>4, <1>6 DEF PathInv, IInv, InStep
<1> DEFINE Goal == /\ worker'[Serve].msg = m
                   /\ \A e \in Messages \ {m} : inbox'[e] = inbox[e]
                   /\ inbox'[m].status # inbox[m].status => inbox[m].status \notin Terminal
                   /\ worker'[Serve].pc = "idle" => inbox'[m].status \in Terminal
<1> SUFFICES Goal
    BY <1>3, <1>4
<1>8. CASE ReadState(Serve)
  <2>1. inbox' = inbox
        BY <1>8 DEF ReadState
  <2>2. worker'[Serve] = IF inbox[m].status \in Terminal THEN Returned(m, "DUPLICATE")
                         ELSE IF inbox[m].attempt < MaxAttempts THEN At("attempt", m, inbox[m].attempt + 1)
                         ELSE At("bury", m, inbox[m].attempt)
        BY <1>3, <1>4, <1>5, <1>6, <1>8 DEF ReadState
  <2>3. worker'[Serve].msg = m
        BY <2>2 DEF Returned, At
  <2>4. worker'[Serve].pc = "idle" => inbox[m].status \in Terminal
        BY <2>2 DEF Returned, At
  <2> QED BY <2>1, <2>3, <2>4
<1>9. CASE AttemptDuplicate(Serve)
      BY <1>3, <1>4, <1>5, <1>6, <1>9 DEF AttemptDuplicate, Returned
<1>10. CASE AttemptCommits(Serve)
  <2>1. inbox' = [inbox EXCEPT ![m] = [status |-> "DONE", attempt |-> worker[Serve].attempt]]
        BY <1>3, <1>4, <1>5, <1>10 DEF AttemptCommits, MarkDone
  <2>2. worker'[Serve] = Returned(m, "PROCESSED")
        BY <1>3, <1>4, <1>6, <1>10 DEF AttemptCommits
  <2>3. inbox[m].status \notin Terminal
        BY <1>7, <1>10 DEF AttemptCommits
  <2>4. inbox'[m].status = "DONE" /\ \A e \in Messages \ {m} : inbox'[e] = inbox[e]
        BY <1>6, <2>1
  <2> QED BY <2>2, <2>3, <2>4 DEF Returned, Terminal
<1>11. CASE AttemptFails(Serve)
  <2>1. inbox' = inbox
        BY <1>11 DEF AttemptFails
  <2>2. worker'[Serve] \in {At("retry", m, worker[Serve].attempt), At("bury", m, worker[Serve].attempt)}
        BY <1>3, <1>4, <1>6, <1>11 DEF AttemptFails
  <2> QED BY <2>1, <2>2 DEF At
<1>12. CASE RecordRetry(Serve)
  <2>1. inbox' = [inbox EXCEPT ![m] = [status |-> "RETRY_PENDING", attempt |-> worker[Serve].attempt]]
        BY <1>3, <1>4, <1>5, <1>12 DEF RecordRetry
  <2>2. worker'[Serve] = At("sleep", m, worker[Serve].attempt)
        BY <1>3, <1>4, <1>5, <1>6, <1>12 DEF RecordRetry
  <2>3. inbox[m].status \notin Terminal
        BY <1>7, <1>12 DEF RecordRetry
  <2>4. inbox'[m].status = "RETRY_PENDING" /\ \A e \in Messages \ {m} : inbox'[e] = inbox[e]
        BY <1>6, <2>1
  <2> QED BY <2>2, <2>3, <2>4 DEF At, Terminal
<1>13. CASE WakeUp(Serve)
      BY <1>3, <1>4, <1>6, <1>13 DEF WakeUp, At
<1>14. CASE RecordDeadLetter(Serve)
  <2>1. inbox' = [inbox EXCEPT ![m] = [status |-> "DEAD_LETTER", attempt |-> worker[Serve].attempt]]
        BY <1>3, <1>4, <1>5, <1>14 DEF RecordDeadLetter
  <2>2. worker'[Serve] = Returned(m, "DEAD_LETTERED")
        BY <1>3, <1>4, <1>5, <1>6, <1>14 DEF RecordDeadLetter
  <2>3. inbox[m].status \notin Terminal
        BY <1>7, <1>14 DEF RecordDeadLetter
  <2>4. inbox'[m].status = "DEAD_LETTER" /\ \A e \in Messages \ {m} : inbox'[e] = inbox[e]
        BY <1>6, <2>1
  <2> QED BY <2>2, <2>3, <2>4 DEF Returned, Terminal
<1> QED BY <1>1, <1>8, <1>9, <1>10, <1>11, <1>12, <1>13, <1>14 DEF Continue

(* Every step of the path is a step of the consumer, or leaves it alone.   *)
LEMMA PathInbox ==
    ASSUME DistinctScopes, PathInv, [PathNext]_pathVars
    PROVE  IInv' /\ [InboxNext]_inboxVars
<1>1. [InboxNext]_inboxVars
  <2>1. CASE Deliver
    <3>1. pass[Serve].pc # "idle"
          BY <2>1 DEF Deliver, O!Publish
    <3>2. Head(pass[Serve].batch) \in Messages
          BY <3>1, EventAtHand DEF Batch
    <3> QED BY <2>1, <3>2, RelayIsSole DEF Deliver, InboxNext
  <2>2. CASE Consume
        BY <2>2, RelayIsSole DEF Consume, InboxNext
  <2>3. CASE Crash
        BY <2>3, RelayIsSole DEF Crash, InboxNext
  <2>4. CASE OutboxStep \/ ReportEnqueued \/ ReportRejected
        BY <2>4 DEF OutboxStep, ReportEnqueued, ReportRejected
  <2>5. CASE UNCHANGED pathVars
        BY <2>5 DEF pathVars
  <2> QED BY <2>1, <2>2, <2>3, <2>4, <2>5 DEF PathNext, PassStep
<1> QED BY <1>1, RelayIsSole, InvStep DEF PathInv

RelayInv == RelayTypeOK /\ OrderIsOutbox /\ SettledFirst /\ InPass /\ InCall

-----------------------------------------------------------------------------
(* The steps.                                                              *)
LEMMA AppendMoves ==
    ASSUME PathInv, NEW e \in Messages, O!AppendEvent(e), UNCHANGED inboxVars
    PROVE  RelayInv'
<1>1. /\ outbox' = [outbox EXCEPT ![e] = [state |-> "PENDING", due |-> TRUE]]
      /\ order' = Append(order, e) /\ pass' = pass /\ outbox[e].state = "ABSENT"
      /\ inbox' = inbox /\ worker' = worker
      BY DEF O!AppendEvent, inboxVars
<1>2. PICK n \in Nat : n = Len(order) /\ DOMAIN order = 1..n /\ order \in Seq(Messages)
  <2>1. order \in Seq(Messages)
        BY DEF PathInv, RelayTypeOK
  <2> QED BY <2>1
<1>3. /\ order' \in Seq(Messages) /\ DOMAIN order' = 1..(n + 1) /\ order'[n + 1] = e
      /\ \A i \in 1..n : order'[i] = order[i]
      BY <1>1, <1>2
<1>4. /\ outbox'[e] = [state |-> "PENDING", due |-> TRUE]
      /\ \A f \in Messages \ {e} : outbox'[f] = outbox[f]
      BY <1>1 DEF PathInv, RelayTypeOK
<1>5. \A i \in 1..n : order[i] # e
      BY <1>1, <1>2 DEF PathInv, OrderIsOutbox
<1>6. RelayTypeOK'
  <2>1. outbox' \in [Messages -> [state : {"ABSENT", "PENDING", "PUBLISHED"}, due : BOOLEAN]]
        BY <1>1 DEF PathInv, RelayTypeOK
  <2> QED BY <1>1, <1>3, <2>1 DEF PathInv, RelayTypeOK
<1>7. OrderIsOutbox'
  <2>1. ASSUME NEW f \in Messages PROVE outbox'[f].state # "ABSENT" <=> \E i \in 1..(n + 1) : order'[i] = f
    <3>1. CASE f = e
      <4>1. n + 1 \in 1..(n + 1)
            OBVIOUS
      <4> QED BY <1>3, <1>4, <3>1, <4>1
    <3>2. CASE f # e
      <4>1. outbox[f].state # "ABSENT" <=> \E i \in 1..n : order[i] = f
            BY <1>2 DEF PathInv, OrderIsOutbox
      <4>2. \A i \in 1..(n + 1) : i \in 1..n \/ i = n + 1
            OBVIOUS
      <4>3. \A i \in 1..n : i \in 1..(n + 1)
            OBVIOUS
      <4> QED BY <1>3, <1>4, <3>2, <4>1, <4>2, <4>3
    <3> QED BY <3>1, <3>2
  <2>2. ASSUME NEW i \in 1..(n + 1), NEW j \in 1..(n + 1), order'[i] = order'[j] PROVE i = j
    <3>1. CASE i \in 1..n /\ j \in 1..n
          BY <1>2, <1>3, <2>2, <3>1 DEF PathInv, OrderIsOutbox
    <3>2. CASE ~ (i \in 1..n /\ j \in 1..n)
          BY <1>3, <1>5, <2>2, <3>2
    <3> QED BY <3>1, <3>2
  <2> QED BY <1>3, <2>1, <2>2 DEF OrderIsOutbox
<1>8. SettledFirst'
      BY <1>1, <1>4 DEF PathInv, SettledFirst, Done
<1>9. InPass'
  <2>1. \A j \in DOMAIN Batch : Batch[j] # e /\ Batch[j] \in Messages
    <3>1. Batch \in Seq(Messages)
          BY RelayIsSole DEF PathInv, RelayTypeOK, Batch
    <3> QED BY <1>1, <3>1 DEF PathInv, InPass
  <2>2. ASSUME NEW j \in DOMAIN Batch, NEW f \in Messages, NEW k \in 1..(n + 1), NEW l \in 1..(n + 1),
               k < l, order'[k] = f, order'[l] = Batch[j]
        PROVE  O!Before(f, Batch[j])
    <3>1. l \in 1..n
          BY <1>3, <2>1, <2>2
    <3>2. k \in 1..n
          BY <2>2, <3>1
    <3> QED BY <1>2, <1>3, <2>2, <3>1, <3>2 DEF O!Before
  <2>3. \A j \in DOMAIN Batch, f \in Messages : O!Before(f, Batch[j])' => O!Before(f, Batch[j])
        BY <1>1, <1>3, <2>2 DEF O!Before, Batch
  <2> QED BY <1>1, <1>4, <2>1, <2>3 DEF PathInv, InPass, Batch, Done
<1>10. InCall'
      BY <1>1 DEF PathInv, InCall, Batch, Done
<1> QED BY <1>6, <1>7, <1>8, <1>9, <1>10 DEF RelayInv

(* Time passes, or the relay is started, quiesced or stopped.              *)
LEMMA IdleMoves ==
    ASSUME PathInv, UNCHANGED <<order, pass, inbox, worker>>,
           outbox' \in [Messages -> [state : {"ABSENT", "PENDING", "PUBLISHED"}, due : BOOLEAN]],
           \A e \in Messages : outbox'[e].state = outbox[e].state /\ (outbox[e].due => outbox'[e].due)
    PROVE  RelayInv'
<1>1. \A e, f : O!Before(e, f)' = O!Before(e, f)
      BY DEF O!Before
<1>2. Batch' = Batch /\ \A e : Done(e)' = Done(e)
      BY DEF Batch, Done
<1>3. RelayTypeOK'
      BY DEF PathInv, RelayTypeOK
<1>4. OrderIsOutbox'
      BY DEF PathInv, OrderIsOutbox
<1>5. SettledFirst'
      BY <1>2 DEF PathInv, SettledFirst
<1>6. InPass'
  <2>1. \A j \in DOMAIN Batch : Batch[j] \in Messages
    <3>1. Batch \in Seq(Messages)
          BY RelayIsSole DEF PathInv, RelayTypeOK, Batch
    <3> QED BY <3>1
  <2> QED BY <1>1, <1>2, <2>1 DEF PathInv, InPass, Done, Batch, O!Before
<1>7. InCall'
      BY <1>2 DEF PathInv, InCall, Done, Batch
<1> QED BY <1>3, <1>4, <1>5, <1>6, <1>7 DEF RelayInv

(* A pass reads its batch: what is due and was left out stands behind it.  *)
LEMMA SelectMoves ==
    ASSUME PathInv, O!Select(Serve), UNCHANGED inboxVars
    PROVE  RelayInv'
<1>1. PICK n \in 1..BatchSize : \E b \in [1..n -> Messages] :
          O!IsDueBatch(b) /\ pass' = [pass EXCEPT ![Serve] = [pc |-> "publish", batch |-> b]]
      BY DEF O!Select
<1>2. PICK b \in [1..n -> Messages] :
          O!IsDueBatch(b) /\ pass' = [pass EXCEPT ![Serve] = [pc |-> "publish", batch |-> b]]
      BY <1>1
<1>3. n \in Nat /\ n > 0 /\ b \in Seq(Messages) /\ DOMAIN b = 1..n /\ b # <<>>
  <2>1. BatchSize \in Nat
        BY EventDeliveryAssumption DEF EventDeliveryAssumption
  <2>2. n \in Nat /\ n > 0
        BY <2>1
  <2>3. b \in Seq(Messages) /\ DOMAIN b = 1..n
        BY <2>2
  <2> QED BY <2>2, <2>3
<1>4. UNCHANGED <<outbox, order, inbox, worker>> /\ pass[Serve].pc = "idle"
      BY DEF O!Select, O!Resting, inboxVars
<1>5. pass'[Serve] = [pc |-> "publish", batch |-> b] /\ Batch' = b
      BY <1>2, RelayIsSole DEF PathInv, RelayTypeOK, Batch
<1>6. RelayTypeOK'
      BY <1>2, <1>3, <1>4, RelayIsSole DEF PathInv, RelayTypeOK
<1>7. OrderIsOutbox' /\ SettledFirst'
      BY <1>4 DEF PathInv, OrderIsOutbox, SettledFirst, Done
<1>8. InPass'
  <2>1. ASSUME NEW j \in 1..n PROVE outbox[b[j]].state = "PENDING"
        BY <1>2, <1>3 DEF O!IsDueBatch, O!DuePending
  <2>2. ASSUME NEW j \in 1..n, NEW e \in Messages, O!Before(e, b[j]), ~ Done(e)
        PROVE  \E i \in 1..(j - 1) : b[i] = e
    <3>1. e # b[j] /\ ~ O!Before(b[j], e)
          BY <2>2, BeforeIsStrict DEF PathInv
    <3>2. outbox[e].state # "ABSENT"
          BY <2>2 DEF PathInv, OrderIsOutbox, O!Before
    <3>3. O!DuePending(e)
          BY <2>2, <3>2 DEF PathInv, SettledFirst, RelayTypeOK, O!DuePending
    <3>4. \/ \E i \in DOMAIN b : b[i] = e
          \/ \A i \in DOMAIN b : O!Before(b[i], e)
          BY <1>2, <3>3 DEF O!IsDueBatch
    <3>5. PICK i \in 1..n : b[i] = e
          BY <1>3, <3>1, <3>4
    <3>6. ~ (j < i)
          BY <1>2, <1>3, <3>1, <3>5 DEF O!IsDueBatch
    <3>7. i # j
          BY <3>1, <3>5
    <3>8. i \in 1..(j - 1)
          BY <1>3, <3>6, <3>7
    <3> QED BY <3>5, <3>8
  <2>3. \A e, f : O!Before(e, f)' = O!Before(e, f)
        BY <1>4 DEF O!Before
  <2>4. \A j \in 1..n, e \in Messages : O!Before(e, Batch[j])' => Done(e)' \/ \E i \in 1..(j - 1) : Batch'[i] = e
        BY <1>4, <1>5, <2>2 DEF O!Before, Done
  <2> QED BY <1>3, <1>4, <1>5, <2>1, <2>4 DEF InPass
<1>9. InCall'
      BY <1>4, <1>5 DEF PathInv, InCall, Done
<1> QED BY <1>6, <1>7, <1>8, <1>9 DEF RelayInv

(* The pass goes on to the next event, or ends: the one it leaves is       *)
(* settled.                                                                *)
LEMMA RestMoves ==
    ASSUME PathInv, pass[Serve].pc \in {"confirm", "defer"}, pass' = [pass EXCEPT ![Serve] = O!Rest(Serve)],
           UNCHANGED <<order, inbox, worker>>,
           NEW r \in [state : {"PENDING", "PUBLISHED"}, due : BOOLEAN],
           outbox' = [outbox EXCEPT ![Batch[1]] = r]
    PROVE  RelayInv'
<1>1. /\ Batch \in Seq(Messages) /\ Batch # <<>> /\ 1 \in DOMAIN Batch /\ Batch[1] \in Messages
      /\ outbox[Batch[1]].state \in {"PENDING", "PUBLISHED"}
      BY EventAtHand
<1>2. PICK n \in Nat : n = Len(Batch) /\ DOMAIN Batch = 1..n /\ n > 0
  <2>1. Len(Batch) \in Nat /\ DOMAIN Batch = 1..Len(Batch)
        BY <1>1
  <2>2. Len(Batch) > 0
        BY <1>1, <2>1
  <2> QED BY <2>1, <2>2
<1>3. PICK rest \in Seq(Messages) : rest = Tail(Batch) /\ DOMAIN rest = 1..(n - 1)
  <2>1. Tail(Batch) \in Seq(Messages) /\ Len(Tail(Batch)) = n - 1
        BY <1>1, <1>2
  <2>2. DOMAIN Tail(Batch) = 1..(n - 1)
        BY <2>1
  <2> QED BY <2>1, <2>2
<1>4. \A j \in 1..(n - 1) : rest[j] = Batch[j + 1] /\ j + 1 \in 1..n
      BY <1>1, <1>2, <1>3
<1>5. pass'[Serve] = [pc |-> IF rest = <<>> THEN "idle" ELSE "publish", batch |-> rest]
  <2>1. pass'[Serve] = O!Rest(Serve)
        BY RelayIsSole DEF PathInv, RelayTypeOK
  <2> QED BY <1>3, <2>1 DEF O!Rest, Batch
<1>6. Batch' = rest /\ Done(Batch[1])
      BY <1>5 DEF Batch, PathInv, InCall
<1>7. \A e \in Messages : outbox'[e] = IF e = Batch[1] THEN r ELSE outbox[e]
      BY <1>1 DEF PathInv, RelayTypeOK
<1>8. /\ \A e, f : O!Before(e, f)' = O!Before(e, f)
      /\ \A e : Done(e)' = Done(e)
      BY DEF O!Before, Done
<1>9. RelayTypeOK'
  <2>1. outbox' \in [Messages -> [state : {"ABSENT", "PENDING", "PUBLISHED"}, due : BOOLEAN]]
        BY <1>1 DEF PathInv, RelayTypeOK
  <2>2. pass' \in [Workers -> [pc : {"idle", "publish", "waiting", "confirm", "defer"}, batch : Seq(Messages)]]
    <3>1. pass'[Serve] \in [pc : {"idle", "publish", "waiting", "confirm", "defer"}, batch : Seq(Messages)]
          BY <1>5
    <3> QED BY <3>1, RelayIsSole DEF PathInv, RelayTypeOK
  <2> QED BY <2>1, <2>2 DEF PathInv, RelayTypeOK
<1>10. \A e \in Messages : outbox'[e].state = "ABSENT" <=> outbox[e].state = "ABSENT"
      BY <1>1, <1>7
<1>11. OrderIsOutbox'
      BY <1>10 DEF PathInv, OrderIsOutbox
<1>12. SettledFirst'
  <2> SUFFICES ASSUME NEW e \in Messages
               PROVE  /\ Done(e) => outbox'[e].state # "ABSENT"
                      /\ outbox'[e].state = "PUBLISHED" => Done(e)
                      /\ outbox'[e].state = "PENDING" /\ ~ outbox'[e].due => Done(e)
      BY <1>8 DEF SettledFirst
  <2> QED BY <1>6, <1>7, <1>10 DEF PathInv, SettledFirst
<1>13. InPass'
  <2>1. \A j \in 1..(n - 1) : outbox'[rest[j]].state # "ABSENT"
    <3>1. \A j \in 1..n : Batch[j] \in Messages /\ outbox[Batch[j]].state # "ABSENT"
          BY <1>1, <1>2 DEF PathInv, InPass
    <3>2. ASSUME NEW j \in 1..(n - 1) PROVE outbox'[rest[j]].state # "ABSENT"
      <4>1. rest[j] \in Messages /\ outbox[rest[j]].state # "ABSENT"
            BY <1>4, <3>1
      <4> QED BY <1>10, <4>1
    <3> QED BY <3>2
  <2>2. ASSUME NEW j \in 1..(n - 1), NEW e \in Messages, O!Before(e, rest[j]), ~ Done(e)
        PROVE  \E i \in 1..(j - 1) : rest[i] = e
    <3>1. PICK i \in 1..j : Batch[i] = e
      <4>1. O!Before(e, Batch[j + 1]) /\ j + 1 \in DOMAIN Batch
            BY <1>2, <1>4, <2>2
      <4>2. \E i \in 1..(j + 1 - 1) : Batch[i] = e
            BY <2>2, <4>1 DEF PathInv, InPass
      <4> QED BY <4>2
    <3>2. i # 1
          BY <1>6, <2>2, <3>1
    <3>3. i - 1 \in 1..(j - 1) /\ i - 1 \in 1..(n - 1) /\ i - 1 + 1 = i
          BY <1>2, <3>2
    <3> QED BY <1>4, <3>1, <3>3
  <2>3. \A j \in 1..(n - 1), e \in Messages : O!Before(e, Batch[j])' => Done(e)' \/ \E i \in 1..(j - 1) : Batch'[i] = e
        BY <1>6, <1>8, <2>2 DEF O!Before
  <2>4. pass'[Serve].pc = "idle" <=> rest = <<>>
        BY <1>5
  <2>5. DOMAIN rest = 1..(n - 1)
        BY <1>3
  <2> QED BY <1>6, <2>1, <2>3, <2>4, <2>5 DEF InPass
<1>14. InCall'
      BY <1>5 DEF PathInv, InCall
<1> QED BY <1>9, <1>11, <1>12, <1>13, <1>14 DEF RelayInv

(* The pass hands its event over, or takes the report; the rows stay.      *)
LEMMA PassMoves ==
    ASSUME PathInv, pass[Serve].pc # "idle", NEW pc \in {"waiting", "confirm", "defer"},
           pass' = [pass EXCEPT ![Serve].pc = pc], UNCHANGED <<outbox, order, inbox>>, InCall'
    PROVE  RelayInv'
<1>1. pass'[Serve] = [pc |-> pc, batch |-> Batch] /\ pass' \in [Workers -> [pc : {"idle", "publish", "waiting", "confirm", "defer"}, batch : Seq(Messages)]]
      BY RelayIsSole DEF PathInv, RelayTypeOK, Batch
<1>2. Batch' = Batch /\ (\A e : Done(e)' = Done(e)) /\ \A e, f : O!Before(e, f)' = O!Before(e, f)
      BY <1>1 DEF Batch, Done, O!Before
<1>3. RelayTypeOK' /\ OrderIsOutbox' /\ SettledFirst'
      BY <1>1, <1>2 DEF PathInv, RelayTypeOK, OrderIsOutbox, SettledFirst
<1>4. InPass'
  <2>1. Batch # <<>>
        BY EventAtHand
  <2>2. InPass /\ outbox' = outbox /\ pass'[Serve].pc # "idle"
        BY <1>1 DEF PathInv
  <2> QED BY <1>2, <2>1, <2>2 DEF InPass
<1> QED BY <1>3, <1>4 DEF RelayInv

LEMMA PathKeeps ==
    ASSUME DistinctScopes, PathInv, [PathNext]_pathVars
    PROVE  PathInv'
<1>1. IInv'
      BY PathInbox
<1>2. CASE OutboxStep
  <2> SUFFICES RelayInv'
      BY <1>1 DEF PathInv, RelayInv
  <2>1. UNCHANGED inboxVars /\ inbox' = inbox /\ worker' = worker
        BY <1>2 DEF OutboxStep, inboxVars
  <2>2. ASSUME NEW e \in Messages, O!AppendEvent(e) PROVE RelayInv'
        BY <2>1, <2>2, AppendMoves
  <2>3. ASSUME NEW e \in Messages, O!Elapse(e) PROVE RelayInv'
    <3>1. outbox' = [outbox EXCEPT ![e].due = TRUE] /\ order' = order /\ pass' = pass
          BY <2>3 DEF O!Elapse
    <3>2. outbox' \in [Messages -> [state : {"ABSENT", "PENDING", "PUBLISHED"}, due : BOOLEAN]]
          BY <3>1 DEF PathInv, RelayTypeOK
    <3>3. \A f \in Messages : outbox'[f].state = outbox[f].state /\ (outbox[f].due => outbox'[f].due)
          BY <3>1 DEF PathInv, RelayTypeOK
    <3> QED BY <2>1, <3>1, <3>2, <3>3, IdleMoves
  <2>4. CASE O!Start \/ O!Quiesce \/ O!Stop
    <3>1. UNCHANGED <<outbox, order, pass>>
          BY <2>4 DEF O!Start, O!Quiesce, O!Stop
    <3>2. outbox' \in [Messages -> [state : {"ABSENT", "PENDING", "PUBLISHED"}, due : BOOLEAN]]
          BY <3>1 DEF PathInv, RelayTypeOK
    <3>3. \A f \in Messages : outbox'[f].state = outbox[f].state /\ (outbox[f].due => outbox'[f].due)
          BY <3>1
    <3>4. UNCHANGED <<order, pass, inbox, worker>>
          BY <2>1, <3>1
    <3> QED BY <3>2, <3>3, <3>4, IdleMoves
  <2>5. CASE O!Select(Serve)
        BY <2>1, <2>5, SelectMoves
  <2>6. CASE O!Confirm(Serve)
    <3>1. pass[Serve].pc = "confirm" /\ order' = order /\ pass' = [pass EXCEPT ![Serve] = O!Rest(Serve)]
          BY <2>6 DEF O!Confirm
    <3>2. Head(Batch) = Batch[1] /\ Batch[1] \in Messages /\ outbox[Batch[1]].state \in {"PENDING", "PUBLISHED"}
          BY <3>1, EventAtHand
    <3>3. PICK r : r = IF outbox[Batch[1]].state = "PENDING" THEN [state |-> "PUBLISHED", due |-> TRUE] ELSE outbox[Batch[1]]
          OBVIOUS
    <3>4. r \in [state : {"PENDING", "PUBLISHED"}, due : BOOLEAN]
          BY <3>2, <3>3 DEF PathInv, RelayTypeOK
    <3>5. outbox' = [outbox EXCEPT ![Batch[1]] = r]
          BY <2>6, <3>2, <3>3 DEF O!Confirm, Batch
    <3>6. UNCHANGED <<order, inbox, worker>> /\ pass[Serve].pc \in {"confirm", "defer"}
          BY <2>1, <3>1
    <3> QED BY <3>1, <3>4, <3>5, <3>6, RestMoves
  <2>7. CASE O!Defer(Serve)
    <3>1. pass[Serve].pc = "defer" /\ order' = order /\ pass' = [pass EXCEPT ![Serve] = O!Rest(Serve)]
          BY <2>7 DEF O!Defer
    <3>2. Head(Batch) = Batch[1] /\ Batch[1] \in Messages /\ outbox[Batch[1]].state \in {"PENDING", "PUBLISHED"}
          BY <3>1, EventAtHand
    <3>3. PICK r : r = [outbox[Batch[1]] EXCEPT !.due = (@ /\ outbox[Batch[1]].state # "PENDING")]
          OBVIOUS
    <3>4. r \in [state : {"PENDING", "PUBLISHED"}, due : BOOLEAN]
          BY <3>2, <3>3 DEF PathInv, RelayTypeOK
    <3>5. outbox' = [outbox EXCEPT ![Batch[1]] = r]
          BY <2>7, <3>2, <3>3 DEF O!Defer, Batch
    <3>6. UNCHANGED <<order, inbox, worker>> /\ pass[Serve].pc \in {"confirm", "defer"}
          BY <2>1, <3>1
    <3> QED BY <3>1, <3>4, <3>5, <3>6, RestMoves
  <2> QED BY <1>2, <2>2, <2>3, <2>4, <2>5, <2>6, <2>7 DEF OutboxStep
<1>3. CASE Deliver
  <2>1. /\ pass[Serve].pc = "publish" /\ pass' = [pass EXCEPT ![Serve].pc = "waiting"]
        /\ UNCHANGED <<outbox, order, inbox>>
        /\ worker' = [worker EXCEPT ![Serve] = At("state", Head(Batch), 0)]
        BY <1>3 DEF Deliver, O!Publish, Begin, Batch
  <2>2. Head(Batch) = Batch[1]
        BY <2>1, EventAtHand
  <2>3. worker'[Serve].pc = "state" /\ worker'[Serve].msg = Batch[1]
        BY <2>1, <2>2, RelayIsSole DEF PathInv, IInv, TypeOK, At
  <2>4. pass'[Serve].pc = "waiting" /\ Batch' = Batch
        BY <2>1, RelayIsSole DEF PathInv, RelayTypeOK, Batch
  <2>5. InCall'
        BY <2>3, <2>4 DEF InCall
  <2>6. RelayInv'
        BY <2>1, <2>5, PassMoves
  <2> QED BY <1>1, <2>6 DEF PathInv, RelayInv
<1>4. CASE Consume
  <2>1. UNCHANGED <<outbox, order, pass>>
        BY <1>4 DEF Consume, relayVars
  <2>2. /\ pass[Serve].pc = "waiting" /\ worker'[Serve].msg = Batch[1]
        /\ \A e \in Messages \ {Batch[1]} : inbox'[e] = inbox[e]
        /\ inbox'[Batch[1]].status # inbox[Batch[1]].status => inbox[Batch[1]].status \notin Terminal
        /\ worker'[Serve].pc = "idle" => inbox'[Batch[1]].status \in Terminal
        BY <1>4, ConsumeEffect
  <2>3. Batch' = Batch /\ \A e, f : O!Before(e, f)' = O!Before(e, f)
        BY <2>1 DEF Batch, O!Before
  <2>4. \A e \in Messages : Done(e) => Done(e)'
        BY <2>2 DEF Done
  <2>5. Batch[1] \in Messages /\ outbox[Batch[1]].state # "ABSENT"
        BY <2>2, EventAtHand
  <2>6. RelayTypeOK' /\ OrderIsOutbox'
        BY <2>1 DEF PathInv, RelayTypeOK, OrderIsOutbox
  <2>7. SettledFirst'
    <3>1. \A e \in Messages : Done(e)' => Done(e) \/ e = Batch[1]
          BY <2>2 DEF Done
    <3> QED BY <2>1, <2>4, <2>5, <3>1 DEF PathInv, SettledFirst
  <2>8. InPass'
    <3>1. \A j \in DOMAIN Batch, e \in Messages :
             O!Before(e, Batch[j])' => Done(e)' \/ \E i \in 1..(j - 1) : Batch[i] = e
          BY <2>1, <2>3, <2>4 DEF PathInv, InPass, O!Before, Batch
    <3> QED BY <2>1, <2>3, <3>1 DEF PathInv, InPass, Batch
  <2>9. InCall'
        BY <2>1, <2>2, <2>3 DEF InCall, Done
  <2> QED BY <1>1, <2>6, <2>7, <2>8, <2>9 DEF PathInv
<1>5. CASE ReportEnqueued \/ ReportRejected
  <2>1. PICK pc \in {"confirm", "defer"} : pass' = [pass EXCEPT ![Serve].pc = pc]
        BY <1>5 DEF ReportEnqueued, ReportRejected, O!Acknowledged, O!Refused
  <2>2. /\ pass[Serve].pc = "waiting" /\ worker[Serve].pc = "idle"
        /\ UNCHANGED <<outbox, order, inbox, worker>>
        BY <1>5 DEF ReportEnqueued, ReportRejected, O!Acknowledged, O!Refused, ConsumerReturned, inboxVars
  <2>3. pass'[Serve].pc = pc /\ Batch' = Batch
        BY <2>1, RelayIsSole DEF PathInv, RelayTypeOK, Batch
  <2>4. InCall'
        BY <2>2, <2>3 DEF PathInv, InCall, Done
  <2>5. RelayInv'
        BY <2>1, <2>2, <2>4, PassMoves
  <2> QED BY <1>1, <2>5 DEF PathInv, RelayInv
<1>6. CASE Crash
  <2>1. /\ pass' = [p \in Workers |-> [pc |-> "idle", batch |-> <<>>]]
        /\ UNCHANGED <<outbox, order>>
        BY <1>6 DEF Crash, O!Crash, O!Resting
  <2>2. pass'[Serve] = [pc |-> "idle", batch |-> <<>>] /\ Batch' = <<>>
        BY <2>1, RelayIsSole DEF Batch
  <2>3. inbox' = inbox
        BY <1>6 DEF Crash, Interrupt, inboxVars
  <2>4. worker'[Serve].pc = "idle"
    <3>1. CASE worker[Serve].pc = "idle"
          BY <1>6, <3>1 DEF Crash, inboxVars
    <3>2. CASE worker[Serve].pc # "idle"
          BY <1>6, <3>2, RelayIsSole DEF Crash, Interrupt, Idle, PathInv, IInv, TypeOK
    <3> QED BY <3>1, <3>2
  <2>5. RelayTypeOK' /\ OrderIsOutbox' /\ SettledFirst'
        BY <2>1, <2>3 DEF PathInv, RelayTypeOK, OrderIsOutbox, SettledFirst, Done
  <2>6. InPass' /\ InCall'
        BY <2>2, <2>4 DEF InPass, InCall
  <2> QED BY <1>1, <2>5, <2>6 DEF PathInv
<1>7. CASE UNCHANGED pathVars
  <2>1. UNCHANGED <<outbox, order, pass, inbox, worker>>
        BY <1>7 DEF pathVars, relayVars, inboxVars
  <2>2. outbox' \in [Messages -> [state : {"ABSENT", "PENDING", "PUBLISHED"}, due : BOOLEAN]]
        BY <2>1 DEF PathInv, RelayTypeOK
  <2>3. RelayInv'
        BY <2>1, <2>2, IdleMoves
  <2> QED BY <1>1, <2>3 DEF PathInv, RelayInv
<1> QED BY <1>2, <1>3, <1>4, <1>5, <1>6, <1>7 DEF PathNext, PassStep

LEMMA PathStarts == PathInit => PathInv
<1> SUFFICES ASSUME PathInit PROVE PathInv
    OBVIOUS
<1>1. IInv
      BY InvInit DEF PathInit
<1>2. /\ outbox = [e \in Messages |-> [state |-> "ABSENT", due |-> FALSE]] /\ order = <<>>
      /\ pass = [p \in Workers |-> [pc |-> "idle", batch |-> <<>>]]
      BY DEF PathInit, O!Init, O!Resting
<1>3. RelayTypeOK
      BY <1>2 DEF RelayTypeOK
<1>4. OrderIsOutbox
      BY <1>2 DEF OrderIsOutbox
<1>5. SettledFirst
      BY <1>2 DEF SettledFirst, Done, PathInit, InboxInit, NoRow, Terminal
<1>6. Batch = <<>> /\ pass[Serve].pc = "idle" /\ worker[Serve].pc = "idle"
      BY <1>2, RelayIsSole DEF Batch, PathInit, InboxInit, Idle
<1>7. InPass /\ InCall
      BY <1>6 DEF InPass, InCall
<1> QED BY <1>1, <1>3, <1>4, <1>5, <1>7 DEF PathInv

-----------------------------------------------------------------------------
(* What a step does to the fate of the events.                             *)
LEMMA FateIs ==
    ASSUME PathInv
    PROVE  /\ \A e \in Messages : Fate[e] = IF inbox[e].status = "DONE" THEN "applied"
                                         ELSE IF inbox[e].status = "DEAD_LETTER" THEN "buried"
                                         ELSE IF outbox[e].state = "ABSENT" THEN "unknown" ELSE "pending"
           /\ Fate \in [Messages -> {"applied", "buried", "unknown", "pending"}]
           /\ \A e \in Messages : Done(e) <=> Fate[e] \in {"applied", "buried"}
<1>1. \A e \in Messages : Fate[e] = IF inbox[e].status = "DONE" THEN "applied"
                                 ELSE IF inbox[e].status = "DEAD_LETTER" THEN "buried"
                                 ELSE IF outbox[e].state = "ABSENT" THEN "unknown" ELSE "pending"
      BY DEF Fate
<1>2. Fate = [e \in Messages |-> Fate[e]]
      BY DEF Fate
<1> QED BY <1>1, <1>2 DEF Done, Terminal

LEMMA FateIsNext ==
    ASSUME PathInv'
    PROVE  /\ \A e \in Messages : Fate'[e] = IF inbox'[e].status = "DONE" THEN "applied"
                                          ELSE IF inbox'[e].status = "DEAD_LETTER" THEN "buried"
                                          ELSE IF outbox'[e].state = "ABSENT" THEN "unknown" ELSE "pending"
           /\ Fate' \in [Messages -> {"applied", "buried", "unknown", "pending"}]
<1>1. \A e \in Messages : Fate'[e] = IF inbox'[e].status = "DONE" THEN "applied"
                                  ELSE IF inbox'[e].status = "DEAD_LETTER" THEN "buried"
                                  ELSE IF outbox'[e].state = "ABSENT" THEN "unknown" ELSE "pending"
      BY DEF Fate
<1>2. Fate' = [e \in Messages |-> Fate'[e]]
      BY DEF Fate
<1> QED BY <1>1, <1>2

(* Rows and settlement stay: nobody sees the step.                         *)
LEMMA Unseen ==
    ASSUME PathInv, PathInv', UNCHANGED order,
           \A e \in Messages : outbox'[e].state = outbox[e].state,
           \A e \in Messages : inbox'[e].status # inbox[e].status => inbox[e].status \notin Terminal /\ inbox'[e].status \notin Terminal
    PROVE  UNCHANGED Delivery!deliveryVars
<1>1. \A e \in Messages : Fate'[e] = Fate[e]
      BY FateIs, FateIsNext DEF Terminal
<1>2. Fate' = Fate
      BY <1>1, FateIs, FateIsNext
<1>3. Published' = Published
      BY DEF Published
<1> QED BY <1>2, <1>3 DEF Delivery!deliveryVars

(* An event is settled when everything before it of its source is.         *)
LEMMA SettleStep ==
    ASSUME DistinctScopes, PathInv, PathInv', Consume
    PROVE  [Delivery!Next]_(Delivery!deliveryVars)
<1>1. /\ pass[Serve].pc = "waiting" /\ UNCHANGED <<outbox, order, pass>>
      /\ \A e \in Messages \ {Batch[1]} : inbox'[e] = inbox[e]
      /\ inbox'[Batch[1]].status # inbox[Batch[1]].status => inbox[Batch[1]].status \notin Terminal
      BY ConsumeEffect DEF Consume, relayVars
<1>2. PICK m \in Messages : m = Batch[1] /\ 1 \in DOMAIN Batch /\ outbox[m].state # "ABSENT"
      BY <1>1, EventAtHand
<1>3. CASE inbox'[m].status = inbox[m].status \/ inbox'[m].status \notin Terminal
  <2>1. \A e \in Messages : inbox'[e].status # inbox[e].status => inbox[e].status \notin Terminal /\ inbox'[e].status \notin Terminal
        BY <1>1, <1>2, <1>3
  <2> QED BY <1>1, <2>1, Unseen
<1>4. CASE inbox'[m].status # inbox[m].status /\ inbox'[m].status \in Terminal
  <2>1. Fate[m] = "pending" /\ Fate'[m] \in {"applied", "buried"}
        BY <1>1, <1>2, <1>4, FateIs, FateIsNext DEF Terminal
  <2>2. \A e \in Messages \ {m} : Fate'[e] = Fate[e]
        BY <1>1, <1>2, FateIs, FateIsNext
  <2>3. Fate' = [Fate EXCEPT ![m] = Fate'[m]]
        BY <2>2, FateIs, FateIsNext
  <2>4. UNCHANGED <<order, Published>>
        BY <1>1 DEF Published
  <2>5. \A f \in Delivery!Earlier(m) : Delivery!Settled(f)
    <3> SUFFICES ASSUME NEW f \in Messages, O!Before(f, m) PROVE Delivery!Settled(f)
        BY DEF Delivery!Earlier, O!Before
    <3>1. Done(f)
          BY <1>2 DEF PathInv, InPass
    <3> QED BY <3>1, FateIs DEF Delivery!Settled
  <2>6. Delivery!Settle(m)
        BY <2>1, <2>3, <2>4, <2>5 DEF Delivery!Settle
  <2> QED BY <2>6 DEF Delivery!Next
<1> QED BY <1>3, <1>4

LEMMA DeliveryStep ==
    ASSUME DistinctScopes, PathInv, [PathNext]_pathVars
    PROVE  [Delivery!Next]_(Delivery!deliveryVars)
<1>1. PathInv'
      BY PathKeeps
<1>2. CASE OutboxStep
  <2>1. UNCHANGED inbox
        BY <1>2 DEF OutboxStep, inboxVars
  <2>2. ASSUME NEW e \in Messages, O!AppendEvent(e) PROVE Delivery!Record(e)
    <3>1. /\ outbox[e].state = "ABSENT" /\ order' = Append(order, e)
          /\ outbox' = [outbox EXCEPT ![e] = [state |-> "PENDING", due |-> TRUE]]
          BY <2>2 DEF O!AppendEvent
    <3>2. /\ outbox'[e] = [state |-> "PENDING", due |-> TRUE]
          /\ \A f \in Messages \ {e} : outbox'[f] = outbox[f]
          BY <3>1 DEF PathInv, RelayTypeOK
    <3>3. ~ Done(e)
          BY <3>1 DEF PathInv, SettledFirst
    <3>4. Fate[e] = "unknown" /\ Fate'[e] = "pending"
          BY <1>1, <2>1, <3>1, <3>2, <3>3, FateIs, FateIsNext DEF Done, Terminal
    <3>5. \A f \in Messages \ {e} : Fate'[f] = Fate[f]
          BY <1>1, <2>1, <3>2, FateIs, FateIsNext
    <3>6. Fate' = [Fate EXCEPT ![e] = "pending"]
          BY <1>1, <3>4, <3>5, FateIs, FateIsNext
    <3>7. Published' = Published
          BY <3>1, <3>2 DEF Published
    <3> QED BY <3>1, <3>4, <3>6, <3>7 DEF Delivery!Record
  <2>3. ASSUME NEW e \in Messages, O!Elapse(e) PROVE UNCHANGED Delivery!deliveryVars
    <3>1. \A f \in Messages : outbox'[f].state = outbox[f].state
          BY <2>3 DEF O!Elapse, PathInv, RelayTypeOK
    <3>2. order' = order
          BY <2>3 DEF O!Elapse
    <3> QED BY <1>1, <2>1, <3>1, <3>2, Unseen
  <2>4. CASE O!Start \/ O!Quiesce \/ O!Stop \/ O!Select(Serve)
    <3>1. UNCHANGED <<outbox, order>>
          BY <2>4 DEF O!Start, O!Quiesce, O!Stop, O!Select
    <3> QED BY <1>1, <2>1, <3>1, Unseen
  <2>5. CASE O!Confirm(Serve)
    <3>1. PICK m \in Messages : m = Head(pass[Serve].batch) /\ Done(m)
      <4>1. pass[Serve].pc = "confirm"
            BY <2>5 DEF O!Confirm
      <4> QED BY <4>1, EventAtHand DEF PathInv, InCall, Batch
    <3>2. /\ outbox' = [outbox EXCEPT ![m] = IF outbox[m].state = "PENDING" THEN [state |-> "PUBLISHED", due |-> TRUE] ELSE outbox[m]]
          /\ order' = order
          BY <2>5, <3>1 DEF O!Confirm
    <3>3. CASE outbox[m].state # "PENDING"
      <4>1. \A f \in Messages : outbox'[f] = outbox[f]
            BY <3>2, <3>3 DEF PathInv, RelayTypeOK
      <4> QED BY <1>1, <2>1, <3>2, <4>1, Unseen
    <3>4. CASE outbox[m].state = "PENDING"
      <4>1. outbox'[m].state = "PUBLISHED" /\ \A f \in Messages \ {m} : outbox'[f] = outbox[f]
            BY <3>2, <3>4 DEF PathInv, RelayTypeOK
      <4>2. Fate[m] \in {"applied", "buried"}
            BY <3>1, FateIs
      <4>3. \A f \in Messages : Fate'[f] = Fate[f]
            BY <1>1, <2>1, <3>1, <4>1, FateIs, FateIsNext DEF Done, Terminal
      <4>4. Fate' = Fate
            BY <1>1, <4>3, FateIs, FateIsNext
      <4>5. m \notin Published /\ Published' = Published \cup {m}
            BY <3>4, <4>1 DEF Published
      <4>6. Delivery!Acknowledge(m)
            BY <3>2, <4>2, <4>4, <4>5 DEF Delivery!Acknowledge, Delivery!Settled
      <4> QED BY <4>6 DEF Delivery!Next
    <3> QED BY <3>3, <3>4
  <2>6. CASE O!Defer(Serve)
    <3>1. PICK m \in Messages : m = Head(pass[Serve].batch)
      <4>1. pass[Serve].pc = "defer"
            BY <2>6 DEF O!Defer
      <4> QED BY <4>1, EventAtHand DEF Batch
    <3>2. \A f \in Messages : outbox'[f].state = outbox[f].state
          BY <2>6, <3>1 DEF O!Defer, PathInv, RelayTypeOK
    <3>3. order' = order
          BY <2>6 DEF O!Defer
    <3> QED BY <1>1, <2>1, <3>2, <3>3, Unseen
  <2> QED BY <1>2, <2>2, <2>3, <2>4, <2>5, <2>6 DEF OutboxStep, Delivery!Next
<1>3. CASE Deliver \/ ReportEnqueued \/ ReportRejected
  <2>1. UNCHANGED <<outbox, order, inbox>>
        BY <1>3 DEF Deliver, ReportEnqueued, ReportRejected, O!Publish, O!Acknowledged, O!Refused, Begin, inboxVars
  <2> QED BY <1>1, <2>1, Unseen
<1>4. CASE Consume
      BY <1>1, <1>4, SettleStep
<1>5. CASE Crash
  <2>1. UNCHANGED <<outbox, order, inbox>>
        BY <1>5 DEF Crash, O!Crash, Interrupt, inboxVars
  <2> QED BY <1>1, <2>1, Unseen
<1>6. CASE UNCHANGED pathVars
  <2>1. UNCHANGED <<outbox, order, inbox>>
        BY <1>6 DEF pathVars, relayVars, inboxVars
  <2> QED BY <1>1, <2>1, Unseen
<1> QED BY <1>2, <1>3, <1>4, <1>5, <1>6 DEF PathNext, PassStep

LEMMA DeliveryStarts == PathInit => Delivery!Init
<1> SUFFICES ASSUME PathInit PROVE Delivery!Init
    OBVIOUS
<1>1. outbox = [e \in Messages |-> [state |-> "ABSENT", due |-> FALSE]] /\ order = <<>>
      BY DEF PathInit, O!Init
<1>2. \A e \in Messages : inbox[e].status \in {"ABSENT", "RETRY_PENDING"}
      BY DEF PathInit, InboxInit, NoRow
<1>3. Fate = [e \in Messages |-> "unknown"]
      BY <1>1, <1>2 DEF Fate
<1>4. Published = {}
      BY <1>1 DEF Published
<1> QED BY <1>1, <1>3, <1>4 DEF Delivery!Init

-----------------------------------------------------------------------------
(* The event path implements reliable delivery, in what a step may do: an  *)
(* event is applied once or buried, in the order of its source, and is     *)
(* acknowledged only afterwards, across crashes, stops, handler failures   *)
(* and redeliveries (events/outbox.py, events/inbox.py,                    *)
(* apps/quant_agent/runtime.py).                                           *)
THEOREM DeliveryIsReliable ==
    ASSUME DistinctScopes
    PROVE  PathSpec => Delivery!SafeSpec
<1>1. PathInit => PathInv
      BY PathStarts
<1>2. PathInv /\ [PathNext]_pathVars => PathInv'
      BY PathKeeps
<1>3. PathInv /\ [PathNext]_pathVars => [Delivery!Next]_(Delivery!deliveryVars)
      BY DeliveryStep
<1> QED BY <1>1, <1>2, <1>3, DeliveryStarts, PTL DEF PathSpec, Delivery!SafeSpec

(* In the event path the effects of an event and its completion are one,   *)
(* it is buried once and cleanly, and its handler keeps within its budget. *)
THEOREM PathConsumesSoundly ==
    ASSUME DistinctScopes
    PROVE  PathSpec => []ConsumptionIsSound
<1>1. PathInv => ConsumptionIsSound
      BY InvImplies DEF PathInv
<1> QED BY <1>1, PathStarts, PathKeeps, PTL DEF PathSpec

(* In the event path no step takes a settled event back.                   *)
THEOREM PathSettlesFinally ==
    ASSUME DistinctScopes
    PROVE  PathSpec => SettledIsFinal
<1>1. PathInv /\ [PathNext]_pathVars => PathInv' /\ [Settled]_inboxVars
  <2> SUFFICES ASSUME PathInv, [PathNext]_pathVars PROVE PathInv' /\ Settled
      OBVIOUS
  <2>1. [InboxNext]_inboxVars
        BY PathInbox
  <2>2. Settled
        BY <2>1, RelayIsSole, InvStep DEF PathInv
  <2> QED BY <2>2, PathKeeps
<1> QED BY <1>1, PathStarts, PTL DEF PathSpec, SettledIsFinal, Settled

-----------------------------------------------------------------------------
(* Supervision.  run() starts the registrations in order, and no task      *)
(* exists before its turn; a service that waits to be started again is not *)
(* READY; from the cancellation on nothing is left to take work.           *)

AwaitsStart == {"backoff", "restart", "retry_backoff", "retry"}

\* Where run() may be, and that the later phases are those of a shutdown
Position ==
    /\ In("start") => main.at \in 1..(Len(Order) + 1)
    /\ In("starting") => main.at \in 1..Len(Order)
    /\ main.phase \in {"quiesce", "checkpoint", "stop"} => main.at \in 0..Len(Order)
    /\ main.phase \notin {"start", "starting", "run"} => shutdown

\* The registrations that run() has still to start
Unstarted ==
    main.phase \in {"start", "starting"} =>
        \A i \in main.at..Len(Order) : task[Order[i]] = "none" /\ state[Order[i]] \in {"STOPPED", "STARTING"}

Waits == \A s \in Services : task[s] \in AwaitsStart => state[s] \in {"RESTARTING", "STARTING"}

CrashesAreCounted == \A s \in Services : crashes[s] <= failed

\* What the shutdown has behind it
Stopping ==
    /\ main.phase \in {"stop", "stopped"} => \A s \in Services : task[s] = "done"
    /\ In("stop") => \A i \in (main.at + 1)..Len(Order) : Order[i] \notin started \cup working
    /\ In("stopped") => started = {} /\ working = {}

SupInv ==
    /\ SupervisorTypeOK /\ Position /\ Unstarted /\ Waits /\ CrashesAreCounted
    /\ CircuitOpensOnce /\ HealthyIsTrue /\ Stopping

(* The registrations: each service has one place in the order.             *)
LEMMA OrderIs ==
    /\ Len(Order) \in Nat /\ DOMAIN Order = 1..Len(Order) /\ CrashLimit \in Nat \ {0} /\ MaxCrashes \in Nat
    /\ \A i \in 1..Len(Order) : Order[i] \in Services
    /\ \A s \in Services : \E i \in 1..Len(Order) : Order[i] = s
    /\ \A i, j \in 1..Len(Order) : Order[i] = Order[j] => i = j
    /\ Critical \subseteq Services
<1>1. /\ Order \in Seq(Services) /\ Len(Order) = Cardinality(Services)
      /\ \A s \in Services : \E i \in DOMAIN Order : Order[i] = s
      /\ CrashLimit \in Nat \ {0} /\ MaxCrashes \in Nat /\ Critical \subseteq Services
      BY SupervisorAssumption DEF SupervisorAssumption
<1>2. Len(Order) \in Nat /\ DOMAIN Order = 1..Len(Order) /\ \A i \in 1..Len(Order) : Order[i] \in Services
      BY <1>1
<1>3. Order \in Surjection(1..Len(Order), Services)
      BY <1>1, <1>2 DEF Surjection
<1>4. IsFiniteSet(1..Len(Order)) /\ Cardinality(1..Len(Order)) = Len(Order)
      BY <1>2, FS_Interval
<1>5. Order \in Injection(1..Len(Order), Services)
  <2>1. Cardinality(1..Len(Order)) = Cardinality(Services)
        BY <1>1, <1>4
  <2> QED BY <1>3, <1>4, <2>1, FS_SurjSameCardinalityImpliesInj
<1>6. \A i, j \in 1..Len(Order) : Order[i] = Order[j] => i = j
      BY <1>5 DEF Injection, IsInjective
<1> QED BY <1>1, <1>2, <1>6

(* A step of the task of one service.                                      *)
LEMMA TaskMoves ==
    ASSUME SupInv, NEW s \in Services, NEW t \in Task \ {"none"}, NEW st \in State, NEW alarm \in {0, 1},
           task[s] \notin {"none", "done"},
           task' = [task EXCEPT ![s] = t], state' = [state EXCEPT ![s] = st],
           alarms' = [alarms EXCEPT ![s] = alarm],
           alarm = 1 <=> st = "CIRCUIT_OPEN",
           st = "CIRCUIT_OPEN" => t = "done",
           t \in AwaitsStart => st \in {"RESTARTING", "STARTING"},
           health' \in Health,
           health' = "HEALTHY" /\ ~ shutdown => \A x \in Services : state'[x] = "READY",
           failed' \in 0..MaxCrashes, crashes' \in [Services -> 0..MaxCrashes], CrashesAreCounted',
           started' \subseteq Services, working' \subseteq Services,
           UNCHANGED <<main, shutdown>>
    PROVE  SupInv'
<1>1. \A x \in Services : /\ task'[x] = IF x = s THEN t ELSE task[x]
                          /\ state'[x] = IF x = s THEN st ELSE state[x]
                          /\ alarms'[x] = IF x = s THEN alarm ELSE alarms[x]
      BY DEF SupInv, SupervisorTypeOK
<1>2. SupervisorTypeOK'
  <2>1. task' \in [Services -> Task] /\ state' \in [Services -> State]
        BY DEF SupInv, SupervisorTypeOK
  <2>2. alarms' \in [Services -> Nat]
        BY DEF SupInv, SupervisorTypeOK
  <2> QED BY <2>1, <2>2 DEF SupInv, SupervisorTypeOK
<1>3. Position'
      BY DEF SupInv, Position, In
<1>4. Unstarted'
  <2> SUFFICES ASSUME main.phase \in {"start", "starting"}, NEW i \in main.at..Len(Order)
               PROVE  task'[Order[i]] = "none" /\ state'[Order[i]] \in {"STOPPED", "STARTING"}
      BY DEF Unstarted
  <2>1. task[Order[i]] = "none" /\ state[Order[i]] \in {"STOPPED", "STARTING"}
        BY DEF SupInv, Unstarted
  <2>2. main.at \in Nat /\ main.at >= 1
        BY OrderIs DEF SupInv, Position, In
  <2>3. Order[i] \in Services
        BY <2>2, OrderIs
  <2> QED BY <1>1, <2>1, <2>3
<1>5. Waits'
      BY <1>1 DEF SupInv, Waits
<1>6. CircuitOpensOnce'
      BY <1>1 DEF SupInv, CircuitOpensOnce
<1>7. HealthyIsTrue'
      BY DEF HealthyIsTrue
<1>8. Stopping'
      BY DEF SupInv, Stopping, In
<1> QED BY <1>2, <1>3, <1>4, <1>5, <1>6, <1>7, <1>8 DEF SupInv

(* A failing call is counted, and it leaves the service waiting or given   *)
(* up.                                                                     *)
LEMMA CrashMoves ==
    ASSUME SupInv, NEW s \in Services, NEW n \in InWindow(s), NEW next \in State \ {"CIRCUIT_OPEN"},
           NEW t \in Task \ {"none"},
           task[s] \notin {"none", "done"},
           RecordCrash(s, n, next),
           task' = [task EXCEPT ![s] = IF Opens(s, n) THEN "done" ELSE t],
           t \in AwaitsStart => next = "RESTARTING",
           UNCHANGED <<main, shutdown, working>>
    PROVE  SupInv'
<1>1. /\ failed' = failed + 1 /\ failed' \in 0..MaxCrashes /\ failed \in Nat
      /\ crashes' = [crashes EXCEPT ![s] = n] /\ n \in 1..(crashes[s] + 1) /\ started' \subseteq started
      BY OrderIs DEF RecordCrash, InWindow, SupInv, SupervisorTypeOK
<1>2. crashes[s] \in Nat /\ crashes[s] <= failed
      BY OrderIs DEF SupInv, SupervisorTypeOK, CrashesAreCounted
<1>3. n \in 0..failed' /\ n \in 0..MaxCrashes
      BY <1>1, <1>2, OrderIs
<1>4. crashes' \in [Services -> 0..MaxCrashes] /\ CrashesAreCounted'
  <2>1. \A x \in Services : crashes'[x] = IF x = s THEN n ELSE crashes[x]
        BY <1>1 DEF SupInv, SupervisorTypeOK
  <2>2. \A x \in Services : crashes[x] \in Nat /\ crashes[x] <= failed
        BY OrderIs DEF SupInv, SupervisorTypeOK, CrashesAreCounted
  <2>3. crashes' \in [Services -> 0..MaxCrashes]
        BY <1>1, <1>3 DEF SupInv, SupervisorTypeOK
  <2>4. CrashesAreCounted'
        BY <1>1, <1>3, <2>1, <2>2 DEF CrashesAreCounted
  <2> QED BY <2>3, <2>4
<1>5. alarms \in [Services -> Nat] /\ alarms[s] = 0
      BY DEF SupInv, SupervisorTypeOK, CircuitOpensOnce
<1>6. CASE Opens(s, n)
  <2>1. /\ state' = [state EXCEPT ![s] = "CIRCUIT_OPEN"] /\ alarms' = [alarms EXCEPT ![s] = 1]
        /\ health' \in {"SAFE", "DEGRADED"} /\ task' = [task EXCEPT ![s] = "done"]
        BY <1>5, <1>6 DEF RecordCrash
  <2>2. "CIRCUIT_OPEN" \in State /\ "done" \in Task \ {"none"} /\ health' \in Health /\ health' # "HEALTHY"
        /\ "done" \notin AwaitsStart
        BY <2>1 DEF State, Task, Health, AwaitsStart
  <2>3. started' \subseteq Services /\ working' \subseteq Services
        BY <1>1 DEF SupInv, SupervisorTypeOK
  <2> QED BY <1>1, <1>4, <2>1, <2>2, <2>3, TaskMoves
<1>7. CASE ~ Opens(s, n)
  <2>1. /\ state' = [state EXCEPT ![s] = next] /\ alarms' = [alarms EXCEPT ![s] = 0]
        /\ health' = Refreshed([state EXCEPT ![s] = "RESTARTING"]) /\ task' = [task EXCEPT ![s] = t]
    <3>1. alarms = [alarms EXCEPT ![s] = 0]
          BY <1>5
    <3> QED BY <1>7, <3>1 DEF RecordCrash
  <2>2. health' \in Health /\ health' # "HEALTHY"
    <3>1. [state EXCEPT ![s] = "RESTARTING"][s] # "READY"
          BY DEF SupInv, SupervisorTypeOK
    <3> QED BY <2>1, <3>1 DEF Refreshed, Health, SupInv, SupervisorTypeOK
  <2>3. started' \subseteq Services /\ working' \subseteq Services
        BY <1>1 DEF SupInv, SupervisorTypeOK
  <2>4. /\ t \in AwaitsStart => next \in {"RESTARTING", "STARTING"}
        /\ 0 = 1 <=> next = "CIRCUIT_OPEN"
        /\ next = "CIRCUIT_OPEN" => t = "done"
        /\ 0 \in {0, 1} /\ next \in State
        OBVIOUS
  <2>5. health' = "HEALTHY" /\ ~ shutdown => \A x \in Services : state'[x] = "READY"
        BY <2>2
  <2> QED BY <1>1, <1>4, <2>1, <2>2, <2>3, <2>4, <2>5, TaskMoves
<1> QED BY <1>6, <1>7

(* A successful start() of a service that has a task.                      *)
LEMMA StartMoves ==
    ASSUME SupInv, NEW s \in Services, task[s] \in {"restart", "retry"},
           Started(s, LoopState("READY")), task' = [task EXCEPT ![s] = LoopTask],
           UNCHANGED <<main, crashes, shutdown, alarms, failed>>
    PROVE  SupInv'
<1>1. /\ state' = [state EXCEPT ![s] = LoopState("READY")]
      /\ health' = Refreshed([state EXCEPT ![s] = "READY"])
      /\ started' = started \cup {s} /\ working' = working \cup {s}
      BY DEF Started
<1>2. LoopState("READY") \in State \ {"CIRCUIT_OPEN"} /\ LoopTask \in Task \ {"none"} /\ LoopTask \notin AwaitsStart
      BY DEF LoopState, LoopTask, State, Task, AwaitsStart
<1>3. health' \in Health /\ (health' = "HEALTHY" => \A x \in Services : [state EXCEPT ![s] = "READY"][x] = "READY")
      BY <1>1 DEF Refreshed, Health, SupInv, SupervisorTypeOK
<1>4. health' = "HEALTHY" /\ ~ shutdown => \A x \in Services : state'[x] = "READY"
      BY <1>1, <1>3 DEF LoopState
<1>5. alarms[s] = 0 /\ alarms' = [alarms EXCEPT ![s] = 0]
  <2>1. alarms \in [Services -> Nat] /\ alarms[s] = 0
        BY DEF SupInv, SupervisorTypeOK, CircuitOpensOnce
  <2> QED BY <2>1
<1>6. /\ failed' \in 0..MaxCrashes /\ crashes' \in [Services -> 0..MaxCrashes] /\ CrashesAreCounted'
      /\ started' \subseteq Services /\ working' \subseteq Services
      BY <1>1 DEF SupInv, SupervisorTypeOK, CrashesAreCounted
<1>7. PICK st : st = LoopState("READY")
      OBVIOUS
<1>8. PICK t : t = LoopTask
      OBVIOUS
<1>9. /\ state' = [state EXCEPT ![s] = st] /\ task' = [task EXCEPT ![s] = t]
      /\ st \in State /\ st # "CIRCUIT_OPEN" /\ t \in Task \ {"none"} /\ t \notin AwaitsStart
      /\ task[s] \notin {"none", "done"} /\ 0 \in {0, 1} /\ 0 # 1
      BY <1>1, <1>2, <1>7, <1>8
<1> QED BY <1>3, <1>4, <1>5, <1>6, <1>9, TaskMoves

(* A step of a task that neither starts the service nor fails.             *)
LEMMA CalmMoves ==
    ASSUME SupInv, NEW s \in Services, NEW t \in Task \ {"none"}, NEW st \in State \ {"CIRCUIT_OPEN"},
           task[s] \notin {"none", "done"},
           task' = [task EXCEPT ![s] = t], state' = [state EXCEPT ![s] = st],
           t \in AwaitsStart => st \in {"RESTARTING", "STARTING"},
           ~ shutdown => st = state[s] \/ state[s] # "READY",
           UNCHANGED <<main, crashes, health, shutdown, started, working, alarms, failed>>
    PROVE  SupInv'
<1>1. alarms' = [alarms EXCEPT ![s] = 0]
  <2>1. alarms \in [Services -> Nat] /\ alarms[s] = 0
        BY DEF SupInv, SupervisorTypeOK, CircuitOpensOnce
  <2> QED BY <2>1
<1>2. ASSUME health' = "HEALTHY", ~ shutdown PROVE \A x \in Services : state'[x] = "READY"
  <2>1. \A x \in Services : state[x] = "READY"
        BY <1>2 DEF SupInv, HealthyIsTrue
  <2>2. st = state[s]
        BY <1>2, <2>1
  <2> QED BY <2>1, <2>2 DEF SupInv, SupervisorTypeOK
<1>3. /\ failed' \in 0..MaxCrashes /\ crashes' \in [Services -> 0..MaxCrashes] /\ CrashesAreCounted'
      /\ started' \subseteq Services /\ working' \subseteq Services /\ health' \in Health
      BY DEF SupInv, SupervisorTypeOK, CrashesAreCounted
<1>4. 0 \in {0, 1} /\ 0 # 1 /\ st \in State /\ st # "CIRCUIT_OPEN"
      OBVIOUS
<1> QED BY <1>1, <1>2, <1>3, <1>4, TaskMoves

(* Whatever the task of a service does.                                    *)
LEMMA TaskInductive ==
    ASSUME SupInv, NEW s \in Services, ServiceTask(s)
    PROVE  SupInv'
<1>1. state[s] \in State /\ "done" \in Task \ {"none"} /\ "done" \notin AwaitsStart
      BY DEF SupInv, SupervisorTypeOK, Task, AwaitsStart
<1>2. task[s] \notin {"none", "done"} => state[s] # "CIRCUIT_OPEN"
      BY DEF SupInv, CircuitOpensOnce
<1>3. "STOPPED" \in State \ {"CIRCUIT_OPEN"} /\ "RESTARTING" \in State \ {"CIRCUIT_OPEN"}
      BY DEF State
<1>4. CASE FirstServe(s)
  <2>1. PICK t : t = LoopTask
        OBVIOUS
  <2>2. PICK st : st = LoopState(state[s])
        OBVIOUS
  <2>3. /\ task[s] = "first" /\ task' = [task EXCEPT ![s] = t] /\ state' = [state EXCEPT ![s] = st]
        /\ UNCHANGED <<main, crashes, health, shutdown, started, working, alarms, failed>>
        BY <1>4, <2>1, <2>2 DEF FirstServe
  <2>4. t \in Task \ {"none"} /\ t \notin AwaitsStart
        BY <2>1 DEF LoopTask, Task, AwaitsStart
  <2>5. st \in State \ {"CIRCUIT_OPEN"} /\ (~ shutdown => st = state[s])
        BY <1>1, <1>2, <1>3, <2>2, <2>3 DEF LoopState
  <2>6. task[s] \notin {"none", "done"}
        BY <2>3
  <2> QED BY <2>3, <2>4, <2>5, <2>6, CalmMoves
<1>5. ASSUME shutdown, task[s] \notin {"none", "done"}, Leave(s),
             UNCHANGED <<main, crashes, health, shutdown, started, working, alarms, failed>>
      PROVE  SupInv'
  <2>1. task' = [task EXCEPT ![s] = "done"] /\ state' = [state EXCEPT ![s] = "STOPPED"]
        BY <1>2, <1>5 DEF Leave
  <2> QED BY <1>1, <1>3, <1>5, <2>1, CalmMoves
<1>6. CASE ServeReturns(s)
      BY <1>5, <1>6 DEF ServeReturns
<1>7. CASE ServeFails(s)
  <2>1. PICK n \in InWindow(s) : RecordCrash(s, n, "RESTARTING")
                                 /\ task' = [task EXCEPT ![s] = IF Opens(s, n) THEN "done" ELSE "backoff"]
        BY <1>7 DEF ServeFails
  <2>2. "backoff" \in Task \ {"none"} /\ task[s] \notin {"none", "done"} /\ UNCHANGED <<main, shutdown, working>>
        BY <1>7 DEF ServeFails, Task
  <2> QED BY <1>3, <2>1, <2>2, CrashMoves
<1>8. CASE BackoffEnds(s)
  <2>1. /\ task[s] \in {"backoff", "retry_backoff"}
        /\ UNCHANGED <<main, crashes, health, shutdown, started, working, alarms, failed>>
        BY <1>8 DEF BackoffEnds
  <2>2. CASE shutdown /\ Leave(s)
        BY <1>5, <2>1, <2>2
  <2>3. CASE /\ ~ shutdown
             /\ task' = [task EXCEPT ![s] = IF @ = "backoff" THEN "restart" ELSE "retry"]
             /\ state' = [state EXCEPT ![s] = "STARTING"]
    <3>1. PICK t : t = IF task[s] = "backoff" THEN "restart" ELSE "retry"
          OBVIOUS
    <3>2. task' = [task EXCEPT ![s] = t] /\ t \in Task \ {"none"}
          BY <2>3, <3>1 DEF Task
    <3>3. state[s] # "READY"
          BY <2>1 DEF SupInv, Waits, AwaitsStart
    <3>4. "STARTING" \in State \ {"CIRCUIT_OPEN"} /\ task[s] \notin {"none", "done"}
          BY <2>1 DEF State
    <3> QED BY <2>1, <2>3, <3>2, <3>3, <3>4, CalmMoves
  <2> QED BY <1>8, <2>2, <2>3 DEF BackoffEnds
<1>9. CASE RestartSucceeds(s)
      BY <1>9, StartMoves DEF RestartSucceeds
<1>10. CASE RestartFails(s)
  <2>1. PICK n \in InWindow(s) : RecordCrash(s, n, LoopState("RESTARTING"))
                                 /\ task' = [task EXCEPT ![s] = IF Opens(s, n) THEN "done" ELSE LoopTask]
        BY <1>10 DEF RestartFails
  <2>2. task[s] \notin {"none", "done"} /\ UNCHANGED <<main, shutdown, working>>
        BY <1>10 DEF RestartFails
  <2>3. LoopTask \in Task \ {"none"} /\ LoopTask \notin AwaitsStart /\ LoopState("RESTARTING") \in State \ {"CIRCUIT_OPEN"}
        BY <1>3 DEF LoopTask, LoopState, Task, AwaitsStart
  <2> QED BY <2>1, <2>2, <2>3, CrashMoves
<1>11. CASE RetryFails(s)
  <2>1. PICK n \in InWindow(s) : RecordCrash(s, n, "RESTARTING")
                                 /\ task' = [task EXCEPT ![s] = IF Opens(s, n) THEN "done" ELSE "retry_backoff"]
        BY <1>11 DEF RetryFails
  <2>2. "retry_backoff" \in Task \ {"none"} /\ task[s] \notin {"none", "done"} /\ UNCHANGED <<main, shutdown, working>>
        BY <1>11 DEF RetryFails, Task
  <2> QED BY <1>3, <2>1, <2>2, CrashMoves
<1> QED BY <1>4, <1>6, <1>7, <1>8, <1>9, <1>10, <1>11 DEF ServiceTask

(* A step of run() or of a request that leaves services, crashes and       *)
(* alarms alone.                                                           *)
LEMMA PhaseMoves ==
    ASSUME SupInv, UNCHANGED <<task, state, crashes, alarms, failed>>,
           main' \in [phase : Phase, at : 0..(Len(Order) + 1)],
           health' \in Health, health' = "HEALTHY" /\ ~ shutdown' => \A s \in Services : state[s] = "READY",
           shutdown' \in BOOLEAN, started' \subseteq started, working' \subseteq working,
           Position', Unstarted', Stopping'
    PROVE  SupInv'
<1>1. SupervisorTypeOK'
      BY DEF SupInv, SupervisorTypeOK
<1>2. Waits' /\ CrashesAreCounted' /\ CircuitOpensOnce' /\ HealthyIsTrue'
      BY DEF SupInv, Waits, CrashesAreCounted, CircuitOpensOnce, HealthyIsTrue
<1> QED BY <1>1, <1>2 DEF SupInv

(* The end of the first start() of a service: it gets its task, and run()  *)
(* goes on with the next registration.                                     *)
LEMMA FirstMoves ==
    ASSUME SupInv, In("starting"), main' = Main("start", main.at + 1),
           NEW t \in Task \ {"none"}, NEW st \in State, NEW alarm \in {0, 1},
           task' = [task EXCEPT ![Here] = t], state' = [state EXCEPT ![Here] = st],
           alarms' = [alarms EXCEPT ![Here] = alarm],
           alarm = 1 <=> st = "CIRCUIT_OPEN",
           st = "CIRCUIT_OPEN" => t = "done",
           t \in AwaitsStart => st \in {"RESTARTING", "STARTING"},
           health' \in Health,
           health' = "HEALTHY" /\ ~ shutdown => \A x \in Services : state'[x] = "READY",
           failed' \in 0..MaxCrashes, crashes' \in [Services -> 0..MaxCrashes], CrashesAreCounted',
           started' \subseteq Services, working' \subseteq Services,
           UNCHANGED shutdown
    PROVE  SupInv'
<1> USE OrderIs
<1>1. main.at \in 1..Len(Order) /\ Here \in Services /\ Here = Order[main.at]
      BY DEF SupInv, Position, In, Here
<1>2. \A x \in Services : /\ task'[x] = IF x = Here THEN t ELSE task[x]
                          /\ state'[x] = IF x = Here THEN st ELSE state[x]
                          /\ alarms'[x] = IF x = Here THEN alarm ELSE alarms[x]
      BY <1>1 DEF SupInv, SupervisorTypeOK
<1>3. main'.phase = "start" /\ main'.at = main.at + 1 /\ main' \in [phase : Phase, at : 0..(Len(Order) + 1)]
      BY <1>1 DEF Main, Phase
<1>4. SupervisorTypeOK'
  <2>1. task' \in [Services -> Task] /\ state' \in [Services -> State]
        BY DEF SupInv, SupervisorTypeOK
  <2>2. alarms' \in [Services -> Nat]
    <3>1. alarm \in Nat /\ alarms \in [Services -> Nat]
          BY DEF SupInv, SupervisorTypeOK
    <3> QED BY <3>1
  <2> QED BY <1>3, <2>1, <2>2 DEF SupInv, SupervisorTypeOK
<1>5. Position'
      BY <1>1, <1>3 DEF Position, In
<1>6. Unstarted'
  <2> SUFFICES ASSUME NEW i \in (main.at + 1)..Len(Order)
               PROVE  task'[Order[i]] = "none" /\ state'[Order[i]] \in {"STOPPED", "STARTING"}
      BY <1>3 DEF Unstarted
  <2>1. i \in main.at..Len(Order) /\ i \in 1..Len(Order) /\ i # main.at
        BY <1>1
  <2>2. task[Order[i]] = "none" /\ state[Order[i]] \in {"STOPPED", "STARTING"}
        BY <2>1 DEF SupInv, Unstarted, In
  <2>3. Order[i] \in Services /\ Order[i] # Here
        BY <1>1, <2>1
  <2> QED BY <1>2, <2>2, <2>3
<1>7. Waits' /\ CircuitOpensOnce' /\ HealthyIsTrue'
      BY <1>1, <1>2 DEF SupInv, Waits, CircuitOpensOnce, HealthyIsTrue
<1>8. Stopping'
      BY <1>3 DEF Stopping, In
<1> QED BY <1>4, <1>5, <1>6, <1>7, <1>8 DEF SupInv

LEMMA RunInductive ==
    ASSUME SupInv, Run
    PROVE  SupInv'
<1> USE OrderIs
<1>1. /\ main \in [phase : Phase, at : 0..(Len(Order) + 1)] /\ main.at \in Nat
      /\ started \subseteq Services /\ working \subseteq Services /\ health \in Health /\ shutdown \in BOOLEAN
      /\ task \in [Services -> Task] /\ state \in [Services -> State] /\ failed \in 0..MaxCrashes
      /\ alarms \in [Services -> Nat] /\ crashes \in [Services -> 0..MaxCrashes]
      BY DEF SupInv, SupervisorTypeOK
<1>2. \A phase, i : Main(phase, i).phase = phase /\ Main(phase, i).at = i
      BY DEF Main
<1>3. \A phase \in Phase, i \in 0..(Len(Order) + 1) : Main(phase, i) \in [phase : Phase, at : 0..(Len(Order) + 1)]
      BY DEF Main
<1>4. CASE BeginShutdown
  <2>1. /\ In("run") /\ shutdown /\ health' = "SHUTTING_DOWN" /\ main' = Main("quiesce", Len(Order))
        /\ UNCHANGED <<task, state, crashes, shutdown, started, working, alarms, failed>>
        BY <1>4 DEF BeginShutdown
  <2>2. Position' /\ Unstarted' /\ Stopping'
        BY <1>2, <2>1 DEF Position, Unstarted, Stopping, In
  <2>3. main' \in [phase : Phase, at : 0..(Len(Order) + 1)]
        BY <1>3, <2>1 DEF Phase
  <2>4. health' \in Health /\ health' # "HEALTHY"
        BY <2>1 DEF Health
  <2> QED BY <1>1, <2>1, <2>2, <2>3, <2>4, PhaseMoves
<1>5. CASE QuiesceService
  <2>1. /\ In("quiesce") /\ main.at > 0 /\ working' = working \ {Here} /\ main' = Main("quiesce", main.at - 1)
        /\ UNCHANGED <<task, state, crashes, health, shutdown, started, alarms, failed>>
        BY <1>5 DEF QuiesceService
  <2>2. main.at - 1 \in 0..Len(Order) /\ shutdown
        BY <1>1, <2>1 DEF SupInv, Position, In
  <2>3. Position' /\ Unstarted' /\ Stopping'
        BY <1>2, <2>1, <2>2 DEF Position, Unstarted, Stopping, In
  <2>4. main' \in [phase : Phase, at : 0..(Len(Order) + 1)]
        BY <1>3, <2>1, <2>2 DEF Phase
  <2>5. health' = "HEALTHY" /\ ~ shutdown' => \A s \in Services : state[s] = "READY"
        BY <2>1, <2>2
  <2> QED BY <1>1, <2>1, <2>3, <2>4, <2>5, PhaseMoves
<1>6. ASSUME AllQuiesced \/ Drained \/ CheckpointService PROVE SupInv'
  <2>1. /\ main.phase \in {"quiesce", "drain", "checkpoint"}
        /\ UNCHANGED <<task, state, crashes, health, shutdown, started, working, alarms, failed>>
        BY <1>6 DEF AllQuiesced, Drained, CheckpointService, In
  <2>2. PICK phase \in {"drain", "checkpoint", "cancel"}, i \in 0..Len(Order) : main' = Main(phase, i)
    <3>1. CASE AllQuiesced \/ Drained
          BY <3>1 DEF AllQuiesced, Drained
    <3>2. CASE CheckpointService
      <4>1. main.at \in 0..Len(Order)
            BY <3>2 DEF CheckpointService, SupInv, Position, In
      <4> QED BY <3>2, <4>1 DEF CheckpointService
    <3> QED BY <1>6, <3>1, <3>2
  <2>3. shutdown
        BY <2>1 DEF SupInv, Position
  <2>4. Position' /\ Unstarted' /\ Stopping'
        BY <1>2, <2>1, <2>2, <2>3 DEF Position, Unstarted, Stopping, In
  <2>5. main' \in [phase : Phase, at : 0..(Len(Order) + 1)]
    <3>1. i \in 0..(Len(Order) + 1) /\ phase \in Phase
          BY DEF Phase
    <3> QED BY <1>3, <2>2, <3>1
  <2>6. health' = "HEALTHY" /\ ~ shutdown' => \A s \in Services : state[s] = "READY"
        BY <2>1, <2>3
  <2> QED BY <1>1, <2>1, <2>4, <2>5, <2>6, PhaseMoves
<1>7. CASE AllStarted
  <2>1. /\ health' = Refreshed(state) /\ main' = Main("run", 0)
        /\ UNCHANGED <<task, state, crashes, shutdown, started, working, alarms, failed>>
        BY <1>7 DEF AllStarted
  <2>2. Position' /\ Unstarted' /\ Stopping'
        BY <1>2, <2>1 DEF Position, Unstarted, Stopping, In
  <2>3. main' \in [phase : Phase, at : 0..(Len(Order) + 1)]
        BY <1>3, <2>1 DEF Phase
  <2>4. health' \in Health /\ (health' = "HEALTHY" => \A s \in Services : state[s] = "READY")
        BY <1>1, <2>1 DEF Refreshed, Health
  <2> QED BY <1>1, <2>1, <2>2, <2>3, <2>4, PhaseMoves
<1>8. CASE RunEnds
  <2>1. /\ In("stop") /\ main.at = 0 /\ health' = "STOPPED" /\ main' = Main("stopped", 0)
        /\ UNCHANGED <<task, state, crashes, shutdown, started, working, alarms, failed>>
        BY <1>8 DEF RunEnds
  <2>2. started = {} /\ working = {}
    <3>1. \A i \in 1..Len(Order) : Order[i] \notin started \cup working
          BY <2>1 DEF SupInv, Stopping
    <3> QED BY <1>1, <3>1
  <2>3. shutdown /\ \A s \in Services : task[s] = "done"
        BY <2>1 DEF SupInv, Position, Stopping, In
  <2>4. Position' /\ Unstarted' /\ Stopping'
        BY <1>2, <2>1, <2>2, <2>3 DEF Position, Unstarted, Stopping, In
  <2>5. main' \in [phase : Phase, at : 0..(Len(Order) + 1)]
        BY <1>3, <2>1 DEF Phase
  <2>6. health' \in Health /\ health' # "HEALTHY"
        BY <2>1 DEF Health
  <2> QED BY <1>1, <2>1, <2>4, <2>5, <2>6, PhaseMoves
<1>9. CASE CancelTasks
  <2>1. /\ In("cancel") /\ task' = [s \in Services |-> "done"] /\ main' = Main("stop", Len(Order))
        /\ UNCHANGED <<state, crashes, health, shutdown, started, working, alarms, failed>>
        BY <1>9 DEF CancelTasks
  <2>2. shutdown /\ \A s \in Services : task'[s] = "done"
        BY <2>1 DEF SupInv, Position, In
  <2>3. SupervisorTypeOK'
    <3>1. main' \in [phase : Phase, at : 0..(Len(Order) + 1)] /\ task' \in [Services -> Task]
          BY <1>3, <2>1 DEF Phase, Task
    <3> QED BY <2>1, <3>1 DEF SupInv, SupervisorTypeOK
  <2>4. Position' /\ Unstarted' /\ Stopping'
        BY <1>2, <2>1, <2>2 DEF Position, Unstarted, Stopping, In
  <2>5. Waits' /\ CrashesAreCounted' /\ CircuitOpensOnce' /\ HealthyIsTrue'
        BY <2>1, <2>2 DEF SupInv, Waits, AwaitsStart, CrashesAreCounted, CircuitOpensOnce, HealthyIsTrue
  <2> QED BY <2>3, <2>4, <2>5 DEF SupInv
<1>10. CASE StopService
  <2>1. PICK s : s = Here
        OBVIOUS
  <2>2. /\ In("stop") /\ main.at > 0 /\ started' = started \ {s} /\ working' = working \ {s}
        /\ state' = [state EXCEPT ![s] = IF @ = "CIRCUIT_OPEN" THEN @ ELSE "STOPPED"]
        /\ main' = Main("stop", main.at - 1)
        /\ UNCHANGED <<task, crashes, health, shutdown, alarms, failed>>
        BY <1>10, <2>1 DEF StopService
  <2>3. main.at \in 1..Len(Order) /\ s \in Services /\ s = Order[main.at] /\ shutdown
        BY <2>1, <2>2 DEF SupInv, Position, In, Here
  <2>4. \A x \in Services : state'[x] = "CIRCUIT_OPEN" <=> state[x] = "CIRCUIT_OPEN"
        BY <1>1, <2>2, <2>3
  <2>5. \A x \in Services : task[x] = "done"
        BY <2>2 DEF SupInv, Stopping, In
  <2>6. SupervisorTypeOK'
    <3>1. main' \in [phase : Phase, at : 0..(Len(Order) + 1)]
      <4>1. main.at - 1 \in 0..(Len(Order) + 1)
            BY <2>3
      <4> QED BY <1>3, <2>2, <4>1 DEF Phase
    <3>2. state' \in [Services -> State]
          BY <1>1, <2>2, <2>3 DEF State
    <3> QED BY <1>1, <2>2, <3>1, <3>2 DEF SupervisorTypeOK
  <2>7. Position' /\ Unstarted'
        BY <1>2, <2>2, <2>3 DEF Position, Unstarted, In
  <2>8. Stopping'
    <3>1. ASSUME NEW i \in main.at..Len(Order) PROVE Order[i] \notin started' \cup working'
      <4>1. CASE i = main.at
            BY <2>2, <2>3, <4>1
      <4>2. CASE i # main.at
        <5>1. i \in (main.at + 1)..Len(Order)
              BY <1>1, <3>1, <4>2
        <5> QED BY <2>2, <5>1 DEF SupInv, Stopping
      <4> QED BY <4>1, <4>2
    <3>2. main.at - 1 + 1 = main.at
          BY <1>1
    <3> QED BY <1>2, <2>2, <2>5, <3>1, <3>2 DEF Stopping, In
  <2>9. Waits' /\ CrashesAreCounted' /\ CircuitOpensOnce' /\ HealthyIsTrue'
        BY <2>2, <2>3, <2>4, <2>5 DEF SupInv, Waits, AwaitsStart, CrashesAreCounted, CircuitOpensOnce, HealthyIsTrue
  <2> QED BY <2>6, <2>7, <2>8, <2>9 DEF SupInv
<1>11. CASE StartService
  <2>1. PICK s : s = Here
        OBVIOUS
  <2>2. /\ In("start") /\ main' = Main("starting", main.at) /\ state' = [state EXCEPT ![s] = "STARTING"]
        /\ UNCHANGED <<task, crashes, health, shutdown, started, working, alarms, failed>>
        BY <1>11, <2>1 DEF StartService
  <2>3. main.at \in 1..Len(Order) /\ s = Order[main.at] /\ s \in Services
        BY <1>11, <2>1 DEF StartService, SupInv, Position, In, Here
  <2>4. task[s] = "none" /\ state[s] \in {"STOPPED", "STARTING"}
        BY <2>2, <2>3 DEF SupInv, Unstarted, In
  <2>5. \A x \in Services : state'[x] = IF x = s THEN "STARTING" ELSE state[x]
        BY <1>1, <2>2, <2>3
  <2>6. SupervisorTypeOK'
    <3>1. main' \in [phase : Phase, at : 0..(Len(Order) + 1)]
          BY <1>1, <1>3, <2>2, <2>3 DEF Phase
    <3>2. state' \in [Services -> State]
          BY <1>1, <2>2 DEF State
    <3> QED BY <1>1, <2>2, <3>1, <3>2 DEF SupervisorTypeOK
  <2>7. Position' /\ Stopping'
        BY <1>2, <2>2, <2>3 DEF Position, Stopping, In
  <2>8. Unstarted'
    <3> SUFFICES ASSUME NEW i \in main.at..Len(Order)
                 PROVE  task'[Order[i]] = "none" /\ state'[Order[i]] \in {"STOPPED", "STARTING"}
        BY <1>2, <2>2 DEF Unstarted
    <3>1. task[Order[i]] = "none" /\ state[Order[i]] \in {"STOPPED", "STARTING"}
          BY <2>2 DEF SupInv, Unstarted, In
    <3>2. Order[i] \in Services
          BY <2>3
    <3> QED BY <2>2, <2>5, <3>1, <3>2
  <2>9. Waits' /\ CrashesAreCounted' /\ CircuitOpensOnce'
        BY <2>2, <2>3, <2>4, <2>5 DEF SupInv, Waits, AwaitsStart, CrashesAreCounted, CircuitOpensOnce
  <2>10. HealthyIsTrue'
        BY <2>2, <2>3, <2>4 DEF SupInv, HealthyIsTrue
  <2> QED BY <2>6, <2>7, <2>8, <2>9, <2>10 DEF SupInv
<1>12. CASE FirstStartSucceeds
  <2>1. PICK s : s = Here
        OBVIOUS
  <2>2. /\ In("starting") /\ main' = Main("start", main.at + 1) /\ task' = [task EXCEPT ![s] = "first"]
        /\ state' = [state EXCEPT ![s] = "READY"] /\ health' = Refreshed([state EXCEPT ![s] = "READY"])
        /\ started' = started \cup {s} /\ working' = working \cup {s}
        /\ UNCHANGED <<crashes, shutdown, alarms, failed>>
        BY <1>12, <2>1 DEF FirstStartSucceeds, Started
  <2>3. main.at \in 1..Len(Order) /\ s = Order[main.at] /\ s \in Services
        BY <2>1, <2>2 DEF SupInv, Position, In, Here
  <2>4. task[s] = "none"
        BY <2>2, <2>3 DEF SupInv, Unstarted, In
  <2>5. alarms[s] = 0 /\ alarms' = [alarms EXCEPT ![s] = 0]
    <3>1. alarms[s] = 0
          BY <1>1, <2>3, <2>4 DEF SupInv, CircuitOpensOnce
    <3> QED BY <1>1, <2>2, <3>1
  <2>6. health' \in Health /\ (health' = "HEALTHY" => \A x \in Services : state'[x] = "READY")
        BY <1>1, <2>2 DEF Refreshed, Health
  <2>7. /\ "first" \in Task \ {"none"} /\ "first" \notin AwaitsStart /\ "READY" \in State /\ "READY" # "CIRCUIT_OPEN"
        /\ 0 \in {0, 1} /\ 0 # 1
        BY DEF Task, AwaitsStart, State
  <2>8. started' \subseteq Services /\ working' \subseteq Services /\ CrashesAreCounted'
        BY <1>1, <2>2, <2>3 DEF SupInv, CrashesAreCounted
  <2> QED BY <1>1, <2>1, <2>2, <2>5, <2>6, <2>7, <2>8, FirstMoves
<1>13. CASE FirstStartFails
  <2>1. PICK s : s = Here
        OBVIOUS
  <2>2. /\ In("starting") /\ main' = Main("start", main.at + 1) /\ RecordCrash(s, 1, "RESTARTING")
        /\ task' = [task EXCEPT ![s] = IF Opens(s, 1) THEN "done" ELSE "retry_backoff"]
        /\ UNCHANGED <<shutdown, working>>
        BY <1>13, <2>1 DEF FirstStartFails
  <2>3. main.at \in 1..Len(Order) /\ s = Order[main.at] /\ s \in Services
        BY <2>1, <2>2 DEF SupInv, Position, In, Here
  <2>4. alarms[s] = 0
    <3>1. task[s] = "none"
          BY <2>2, <2>3 DEF SupInv, Unstarted, In
    <3> QED BY <1>1, <2>3, <3>1 DEF SupInv, CircuitOpensOnce
  <2>5. failed' = failed + 1 /\ failed' \in 1..MaxCrashes /\ crashes' = [crashes EXCEPT ![s] = 1] /\ started' \subseteq Services
        BY <1>1, <2>2 DEF RecordCrash
  <2>6. crashes' \in [Services -> 0..MaxCrashes] /\ CrashesAreCounted'
    <3>1. \A x \in Services : crashes'[x] = IF x = s THEN 1 ELSE crashes[x]
          BY <1>1, <2>5
    <3>2. \A x \in Services : crashes[x] \in Nat /\ crashes[x] <= failed
          BY <1>1 DEF SupInv, CrashesAreCounted
    <3>3. crashes' \in [Services -> 0..MaxCrashes]
      <4>1. 1 \in 0..MaxCrashes
            BY <2>5
      <4> QED BY <1>1, <2>5, <4>1
    <3>4. CrashesAreCounted'
          BY <1>1, <2>5, <3>1, <3>2 DEF CrashesAreCounted
    <3> QED BY <3>3, <3>4
  <2>7. CASE Opens(s, 1)
    <3>1. /\ state' = [state EXCEPT ![s] = "CIRCUIT_OPEN"] /\ alarms' = [alarms EXCEPT ![s] = 1]
          /\ health' \in {"SAFE", "DEGRADED"} /\ task' = [task EXCEPT ![s] = "done"]
          BY <2>2, <2>4, <2>7 DEF RecordCrash
    <3>2. "CIRCUIT_OPEN" \in State /\ "done" \in Task \ {"none"} /\ health' \in Health /\ health' # "HEALTHY"
          /\ "done" \notin AwaitsStart /\ failed' \in 0..MaxCrashes
          BY <2>5, <3>1 DEF State, Task, Health, AwaitsStart
    <3> QED BY <1>1, <2>1, <2>2, <2>5, <2>6, <3>1, <3>2, FirstMoves
  <2>8. CASE ~ Opens(s, 1)
    <3>1. /\ state' = [state EXCEPT ![s] = "RESTARTING"] /\ health' = Refreshed([state EXCEPT ![s] = "RESTARTING"])
          /\ task' = [task EXCEPT ![s] = "retry_backoff"]
          BY <2>2, <2>8 DEF RecordCrash
    <3>2. alarms' = [alarms EXCEPT ![s] = 0]
      <4>1. alarms = [alarms EXCEPT ![s] = 0]
            BY <1>1, <2>4
      <4> QED BY <2>2, <2>8, <4>1 DEF RecordCrash
    <3>3. health' \in Health /\ health' # "HEALTHY"
      <4>1. [state EXCEPT ![s] = "RESTARTING"][s] # "READY"
            BY <1>1, <2>3
      <4> QED BY <1>1, <2>3, <3>1, <4>1 DEF Refreshed, Health
    <3>4. /\ "RESTARTING" \in State /\ "RESTARTING" # "CIRCUIT_OPEN" /\ "retry_backoff" \in Task \ {"none"}
          /\ 0 \in {0, 1} /\ 0 # 1 /\ failed' \in 0..MaxCrashes
          BY <2>5 DEF State, Task
    <3> QED BY <1>1, <2>1, <2>2, <2>5, <2>6, <3>1, <3>2, <3>3, <3>4, FirstMoves
  <2> QED BY <2>7, <2>8
<1> QED BY <1>4, <1>5, <1>6, <1>7, <1>8, <1>9, <1>10, <1>11, <1>12, <1>13 DEF Run

LEMMA SupInductive == SupInv /\ [SupervisorNext]_supervisorVars => SupInv'
<1> SUFFICES ASSUME SupInv, [SupervisorNext]_supervisorVars PROVE SupInv'
    OBVIOUS
<1>1. CASE RequestShutdown
  <2>1. shutdown' = TRUE /\ UNCHANGED <<main, task, state, crashes, health, started, working, alarms, failed>>
        BY <1>1 DEF RequestShutdown
  <2>2. Position' /\ Unstarted' /\ Stopping'
        BY <2>1 DEF SupInv, Position, Unstarted, Stopping, In
  <2> QED BY <2>1, <2>2, PhaseMoves DEF SupInv, SupervisorTypeOK
<1>2. CASE UNCHANGED supervisorVars
      BY <1>2 DEF supervisorVars, SupInv, SupervisorTypeOK, Position, Unstarted, Waits, CrashesAreCounted,
                  CircuitOpensOnce, HealthyIsTrue, Stopping, In
<1> QED BY <1>1, <1>2, RunInductive, TaskInductive DEF SupervisorNext

(* A failing service is given up once and with one alarm, HEALTHY is said  *)
(* of no system with a service that is not READY, and a shutdown leaves    *)
(* nothing behind, at any interleaving (runtime/supervisor.py: run(),      *)
(* _supervise(), _restart_after_failure(), _shutdown()).                   *)
THEOREM SupervisionStaysSound == SupervisorSpec => []SupervisionIsSound
<1>1. SupervisorInit => SupInv
  <2> SUFFICES ASSUME SupervisorInit PROVE SupInv
      OBVIOUS
  <2>1. /\ main.phase = "start" /\ main.at = 1 /\ main \in [phase : Phase, at : 0..(Len(Order) + 1)]
        BY OrderIs DEF SupervisorInit, Main, Phase
  <2>2. SupervisorTypeOK
    <3>1. /\ task \in [Services -> Task] /\ state \in [Services -> State] /\ health \in Health
          /\ started \subseteq Services /\ working \subseteq Services /\ shutdown \in BOOLEAN
          BY DEF SupervisorInit, Task, State, Health
    <3>2. alarms \in [Services -> Nat] /\ crashes \in [Services -> 0..MaxCrashes] /\ failed \in 0..MaxCrashes
          BY OrderIs DEF SupervisorInit
    <3> QED BY <2>1, <3>1, <3>2 DEF SupervisorTypeOK
  <2>3. Position /\ Unstarted /\ Stopping
        BY <2>1, OrderIs DEF SupervisorInit, Position, Unstarted, Stopping, In
  <2>4. Waits /\ CrashesAreCounted /\ CircuitOpensOnce /\ HealthyIsTrue
        BY DEF SupervisorInit, Waits, AwaitsStart, CrashesAreCounted, CircuitOpensOnce, HealthyIsTrue
  <2> QED BY <2>2, <2>3, <2>4 DEF SupInv
<1>2. SupInv => SupervisionIsSound
      BY DEF SupInv, SupervisionIsSound, NothingSurvives, Stopping, In
<1> QED BY <1>1, <1>2, SupInductive, PTL DEF SupervisorSpec

-----------------------------------------------------------------------------
(* The event bus.  Publishers stand in the lock in the order of their      *)
(* calls, and what has a fate was called before everything in the lock but *)
(* the message at hand; a queue is ordered by calls, a key occurs in it    *)
(* once, and what it or its consumer holds was accepted.                   *)

Accepted(s, m) == fate[s][m] \in {"ENQUEUED", "COALESCED"}
CalledMessages == {called[i] : i \in DOMAIN called}
InLine(i) == sending[lock[i]]
Coalesces(s) == \E m \in BusMessages : Coalesce[s][m] # NoCoalesceKey

\* A call is made once, and a publisher waits once
Distinct ==
    /\ \A i, j \in DOMAIN called : called[i] = called[j] => i = j
    /\ \A i, j \in DOMAIN lock : lock[i] = lock[j] => i = j

\* The lock holds those who publish, in the order of their calls
LockIsFair ==
    /\ \A p \in Publishers : sending[p] # NoBusMessage <=> \E i \in DOMAIN lock : lock[i] = p
    /\ \A i \in DOMAIN lock : InLine(i) \in CalledMessages
    /\ \A i, j \in DOMAIN lock : i < j => CalledBefore(InLine(i), InLine(j))

\* Fates are decided at the head of the lock, and once
FatesInTurn ==
    /\ lock = <<>> => \A s \in Subs : offer[s] = "none"
    /\ \A s \in Subs, i \in DOMAIN lock :
          fate[s][InLine(i)] # "none" => i = 1 /\ offer[s] \in {"skipped", "reported"}
    /\ \A s \in Subs, m \in BusMessages : fate[s][m] # "none" =>
          /\ m \in CalledMessages
          /\ \A i \in DOMAIN lock : m = InLine(i) \/ CalledBefore(m, InLine(i))

\* What a queue holds and a consumer took was accepted, a key is there once
HoldsAccepted ==
    \A s \in Subs :
       /\ \A i \in DOMAIN queue[s] : queue[s][i].key = Coalesce[s][queue[s][i].msg] /\ Accepted(s, queue[s][i].msg)
       /\ \A i \in DOMAIN taken[s] : Accepted(s, taken[s][i])
       /\ \A i, j \in DOMAIN queue[s] : queue[s][i].key = queue[s][j].key /\ queue[s][i].key # NoCoalesceKey => i = j

\* Queue and consumer follow the calls
QueueInOrder ==
    \A s \in Subs : ~ Coalesces(s) =>
       /\ \A i, j \in DOMAIN queue[s] : i < j => CalledBefore(queue[s][i].msg, queue[s][j].msg)
       /\ \A i \in DOMAIN taken[s], j \in DOMAIN queue[s] :
             SourceOf[taken[s][i]] = SourceOf[queue[s][j].msg] => CalledBefore(taken[s][i], queue[s][j].msg)

\* What was accepted is there, or gave way to a later message of its key
AcceptedStays ==
    \A s \in Subs, m \in BusMessages : Accepted(s, m) =>
       \/ m \in Waiting(s) \cup ToSet(taken[s])
       \/ \E n \in BusMessages :
             /\ fate[s][n] = "COALESCED" /\ Coalesce[s][n] = Coalesce[s][m] /\ CalledBefore(m, n)

\* A key that waits for room is in the queue for nobody else
WaitsAlone == \A s \in Subs : offer[s] = "waiting" => Coalescible(s, Current) = {}

QueuesAreSound == HoldsAccepted /\ QueueInOrder /\ AcceptedStays /\ LatestKept /\ SourceOrder /\ Bounded

BusInv == BusTypeOK /\ Distinct /\ LockIsFair /\ FatesInTurn /\ WaitsAlone /\ QueuesAreSound

-----------------------------------------------------------------------------
(* What the operators on sequences yield.                                  *)
(* Where the entry at j stood before the one at k was removed.             *)
After(k, j) == IF j < k THEN j ELSE j + 1

LEMMA AfterIs ==
    ASSUME NEW n \in Nat, NEW k \in 1..n
    PROVE  /\ \A j \in 1..(n - 1) : After(k, j) \in 1..n \ {k}
           /\ \A i, j \in 1..(n - 1) : (i < j => After(k, i) < After(k, j)) /\ (After(k, i) = After(k, j) => i = j)
           /\ \A l \in 1..n \ {k} : \E j \in 1..(n - 1) : After(k, j) = l
<1>1. \A j \in 1..(n - 1) : After(k, j) \in 1..n \ {k}
      BY DEF After
<1>2. \A i, j \in 1..(n - 1) : (i < j => After(k, i) < After(k, j)) /\ (After(k, i) = After(k, j) => i = j)
      BY DEF After
<1>3. ASSUME NEW l \in 1..n \ {k} PROVE \E j \in 1..(n - 1) : After(k, j) = l
  <2>1. CASE l < k
    <3>1. l \in 1..(n - 1) /\ After(k, l) = l
          BY <2>1 DEF After
    <3> QED BY <3>1
  <2>2. CASE ~ (l < k)
    <3>1. l - 1 \in 1..(n - 1) /\ ~ (l - 1 < k) /\ l - 1 + 1 = l
          BY <2>2
    <3>2. After(k, l - 1) = l
          BY <3>1 DEF After
    <3> QED BY <3>1, <3>2
  <2> QED BY <2>1, <2>2
<1> QED BY <1>1, <1>2, <1>3

LEMMA RemoveAtIs ==
    ASSUME NEW X, NEW q \in Seq(X), NEW i \in DOMAIN q
    PROVE  /\ RemoveAt(q, i) \in Seq(X) /\ Len(RemoveAt(q, i)) = Len(q) - 1
           /\ DOMAIN RemoveAt(q, i) = 1..(Len(q) - 1)
           /\ \A j \in 1..(Len(q) - 1) : RemoveAt(q, i)[j] = q[After(i, j)]
<1>1. Len(q) \in Nat /\ i \in 1..Len(q)
      OBVIOUS
<1>2. PICK a, b : a = SubSeq(q, 1, i - 1) /\ b = SubSeq(q, i + 1, Len(q))
      OBVIOUS
<1>3. a \in Seq(X) /\ Len(a) = i - 1 /\ \A j \in 1..(i - 1) : a[j] = q[j]
      BY <1>1, <1>2
<1>4. b \in Seq(X) /\ Len(b) = Len(q) - i /\ \A j \in 1..(Len(q) - i) : b[j] = q[i + j]
      BY <1>1, <1>2
<1>5. RemoveAt(q, i) = a \o b
      BY <1>2 DEF RemoveAt
<1>6. Len(a \o b) = Len(q) - 1 /\ a \o b \in Seq(X) /\ DOMAIN (a \o b) = 1..(Len(q) - 1)
      BY <1>1, <1>3, <1>4
<1>7. ASSUME NEW j \in 1..(i - 1) PROVE (a \o b)[j] = q[j]
      BY <1>1, <1>3, <1>4
<1>8. ASSUME NEW j \in i..(Len(q) - 1) PROVE (a \o b)[j] = q[j + 1]
  <2>1. j \in Nat /\ i \in Nat /\ j >= i /\ j <= Len(q) - 1 /\ i >= 1
        BY <1>1
  <2>2. Len(a) = i - 1 /\ Len(q) \in Nat
        BY <1>1, <1>3
  <2>3. j - i + 1 \in 1..(Len(q) - i)
        BY <2>1, <2>2
  <2>4. i + (j - i + 1) = j + 1
        BY <2>1
  <2>5. Len(b) \in Nat /\ Len(b) = Len(q) - i /\ (a \o b)[j] = IF j <= Len(a) THEN a[j] ELSE b[j - Len(a)]
        BY <1>1, <1>3, <1>4, <1>6
  <2>6. j - Len(a) = j - i + 1 /\ ~ (j <= Len(a))
        BY <2>1, <2>2
  <2>7. (a \o b)[j] = b[j - i + 1]
        BY <2>5, <2>6
  <2> QED BY <1>4, <2>3, <2>4, <2>7
<1>9. ASSUME NEW j \in 1..(Len(q) - 1) PROVE (a \o b)[j] = q[After(i, j)]
  <2>1. CASE j < i
    <3>1. j \in 1..(i - 1)
          BY <1>1, <2>1
    <3> QED BY <1>7, <2>1, <3>1 DEF After
  <2>2. CASE ~ (j < i)
    <3>1. j \in i..(Len(q) - 1)
          BY <1>1, <2>2
    <3> QED BY <1>8, <2>2, <3>1 DEF After
  <2> QED BY <2>1, <2>2
<1> QED BY <1>5, <1>6, <1>9

LEMMA AppendIs ==
    ASSUME NEW X, NEW q \in Seq(X), NEW e \in X
    PROVE  /\ Append(q, e) \in Seq(X) /\ Len(Append(q, e)) = Len(q) + 1 /\ DOMAIN Append(q, e) = 1..(Len(q) + 1)
           /\ Append(q, e)[Len(q) + 1] = e
           /\ \A i \in 1..Len(q) : Append(q, e)[i] = q[i]
OBVIOUS

LEMMA BeforeTrans ==
    ASSUME BusTypeOK, Distinct, NEW l, NEW m, NEW n, CalledBefore(l, m), CalledBefore(m, n)
    PROVE  CalledBefore(l, n)
<1>1. DOMAIN called \subseteq Nat
      BY DEF BusTypeOK
<1>2. PICK i, j \in DOMAIN called : i < j /\ called[i] = l /\ called[j] = m
      BY DEF CalledBefore
<1>3. PICK j2, k \in DOMAIN called : j2 < k /\ called[j2] = m /\ called[k] = n
      BY DEF CalledBefore
<1>4. j = j2 /\ i < k
      BY <1>1, <1>2, <1>3 DEF Distinct
<1> QED BY <1>2, <1>3, <1>4 DEF CalledBefore

(* The entry that get() takes comes first of its source.                   *)
LEMMA NextIsFirst ==
    ASSUME BusTypeOK, NEW s \in Subs, queue[s] # <<>>
    PROVE  NextEntry(s) \in FirstOfSource(s)
<1>1. queue[s] \in Seq(Entry) /\ Priority \in [BusMessages -> Nat]
      BY EventBusAssumption DEF EventBusAssumption, BusTypeOK
<1>2. PICK n \in Nat : n > 0 /\ DOMAIN queue[s] = 1..n /\ \A i \in 1..n : queue[s][i].msg \in BusMessages
  <2>1. Len(queue[s]) \in Nat /\ Len(queue[s]) > 0 /\ DOMAIN queue[s] = 1..Len(queue[s])
        BY <1>1
  <2>2. \A i \in 1..Len(queue[s]) : queue[s][i] \in Entry
        BY <1>1
  <2> QED BY <2>1, <2>2 DEF Entry
<1>3. 1 \in FirstOfSource(s)
      BY <1>2 DEF FirstOfSource
<1> DEFINE rank(i) == Priority[queue[s][i].msg]
           Beats(i, j) == rank(i) > rank(j) \/ (rank(i) = rank(j) /\ i < j)
<1>4. FirstOfSource(s) \subseteq 1..n
      BY <1>2 DEF FirstOfSource
<1> DEFINE first == FirstOfSource(s)
           above(i) == {j \in first : Beats(j, i)}
           T == {above(i) : i \in first}
<1>5. IsFiniteSet(first)
  <2>1. IsFiniteSet(1..n)
        BY FS_Interval
  <2> QED BY <1>4, <2>1, FS_Subset
<1>6. \A i, j, k \in first : /\ rank(i) \in Nat /\ ~ Beats(i, i)
                             /\ Beats(i, j) /\ Beats(j, k) => Beats(i, k)
                             /\ i = j \/ Beats(i, j) \/ Beats(j, i)
  <2>1. \A i \in first : rank(i) \in Nat /\ i \in Nat
        BY <1>1, <1>2, <1>4
  <2> HIDE DEF rank, first
  <2> QED BY <2>1
<1> HIDE DEF Beats
<1>7. T \subseteq FiniteSubsetsOf(first) /\ T # {}
  <2>1. ASSUME NEW i \in first PROVE above(i) \in FiniteSubsetsOf(first)
        BY <1>5, FS_Subset DEF FiniteSubsetsOf
  <2> QED BY <1>3, <2>1
<1> HIDE DEF T
<1>8. PICK low \in T : \A y \in T : <<y, low>> \notin StrictSubsetOrdering(first)
      BY <1>7, FS_StrictSubsetOrderingWellFounded, WFMin
<1>9. PICK i \in first : low = above(i)
      BY <1>8 DEF T
<1>10. ASSUME NEW j \in first, Beats(j, i) PROVE FALSE
  <2>1. above(j) \subseteq above(i)
        BY <1>6, <1>10
  <2>2. j \in above(i) /\ j \notin above(j)
        BY <1>6, <1>10
  <2>3. above(j) \in T /\ above(j) \subseteq first /\ above(i) \subseteq first
        BY DEF T
  <2>4. <<above(j), low>> \in StrictSubsetOrdering(first)
        BY <1>9, <2>1, <2>2, <2>3 DEF StrictSubsetOrdering
  <2> QED BY <1>8, <2>3, <2>4
<1>11. \A j \in first : rank(i) > rank(j) \/ (rank(i) = rank(j) /\ i <= j)
  <2>1. \A j \in first : i = j \/ Beats(i, j)
        BY <1>6, <1>10
  <2>2. \A j \in first : rank(j) \in Nat /\ j \in Nat
        BY <1>4, <1>6
  <2> QED BY <2>1, <2>2 DEF Beats
<1> QED BY <1>11 DEF NextEntry

(* The message at hand has no fate yet where it is offered, and everything *)
(* with a fate was called before it.                                       *)
LEMMA AtHand ==
    ASSUME BusInv, NEW s \in Subs, offer[s] # "none"
    PROVE  /\ lock # <<>> /\ 1 \in DOMAIN lock /\ Holder = lock[1] /\ Current = InLine(1)
           /\ Holder \in Publishers /\ Current \in BusMessages /\ Current \in CalledMessages
           /\ offer[s] \in {"offered", "waiting"} =>
                 /\ fate[s][Current] = "none"
                 /\ \A m \in BusMessages : fate[s][m] # "none" => CalledBefore(m, Current)
<1>1. lock # <<>> /\ lock \in Seq(Publishers) /\ called \in Seq(BusMessages)
      BY DEF BusInv, FatesInTurn, BusTypeOK
<1>2. 1 \in DOMAIN lock /\ Holder = lock[1] /\ Holder \in Publishers
      BY <1>1 DEF Holder
<1>3. Current = InLine(1)
      BY <1>2 DEF Current, InLine
<1>4. Current \in CalledMessages /\ Current \in BusMessages
      BY <1>1, <1>2, <1>3 DEF BusInv, LockIsFair, CalledMessages
<1>5. ASSUME offer[s] \in {"offered", "waiting"}
      PROVE  /\ fate[s][Current] = "none"
             /\ \A m \in BusMessages : fate[s][m] # "none" => CalledBefore(m, Current)
  <2>1. fate[s][Current] = "none"
        BY <1>2, <1>3, <1>5 DEF BusInv, FatesInTurn
  <2> QED BY <1>2, <1>3, <2>1 DEF BusInv, FatesInTurn
<1> QED BY <1>1, <1>2, <1>3, <1>4, <1>5

(* Queues stay sound when nothing is accepted.                             *)
LEMMA QueuesKeep ==
    ASSUME BusInv, UNCHANGED <<queue, taken>>,
           \A m, n : CalledBefore(m, n) => CalledBefore(m, n)',
           \A s \in Subs, m \in BusMessages :
              \/ fate'[s][m] = fate[s][m]
              \/ fate[s][m] = "none" /\ fate'[s][m] \notin {"ENQUEUED", "COALESCED"}
    PROVE  QueuesAreSound'
<1>1. \A s \in Subs, m \in BusMessages : /\ Accepted(s, m)' = Accepted(s, m)
                                         /\ fate'[s][m] = "COALESCED" <=> fate[s][m] = "COALESCED"
      BY DEF Accepted
<1>2. \A s \in Subs : /\ \A i \in DOMAIN queue[s] : queue[s][i].msg \in BusMessages
                      /\ \A i \in DOMAIN taken[s] : taken[s][i] \in BusMessages
  <2>1. ASSUME NEW s \in Subs, NEW i \in DOMAIN queue[s] PROVE queue[s][i] \in Entry
        BY DEF BusInv, BusTypeOK
  <2> QED BY <2>1 DEF BusInv, BusTypeOK, Entry
<1>3. HoldsAccepted'
      BY <1>1, <1>2 DEF BusInv, QueuesAreSound, HoldsAccepted
<1>4. QueueInOrder'
      BY DEF BusInv, QueuesAreSound, QueueInOrder
<1>5. AcceptedStays'
  <2> SUFFICES ASSUME NEW s \in Subs, NEW m \in BusMessages, Accepted(s, m)
               PROVE  \/ m \in Waiting(s) \cup ToSet(taken[s])
                      \/ \E n \in BusMessages :
                            /\ fate'[s][n] = "COALESCED" /\ Coalesce[s][n] = Coalesce[s][m] /\ CalledBefore(m, n)'
      BY <1>1 DEF AcceptedStays, Waiting
  <2> QED BY <1>1 DEF BusInv, QueuesAreSound, AcceptedStays
<1>6. LatestKept'
      BY <1>1 DEF BusInv, QueuesAreSound, LatestKept, Accepted
<1>7. SourceOrder'
      BY DEF BusInv, QueuesAreSound, SourceOrder
<1>8. Bounded'
      BY DEF BusInv, QueuesAreSound, Bounded
<1> QED BY <1>3, <1>4, <1>5, <1>6, <1>7, <1>8 DEF QueuesAreSound

(* An offer is answered.                                                   *)
LEMMA ReportMoves ==
    ASSUME BusInv, NEW s \in Subs, NEW outcome \in DeliveryOutcome,
           offer[s] \in {"offered", "waiting"}, Report(s, outcome),
           queue' \in [Subs -> Seq(Entry)],
           \A x \in Subs \ {s} : queue'[x] = queue[x],
           QueuesAreSound',
           UNCHANGED <<busAccepting, subscribed, closed, lock, sending, called, taken>>
    PROVE  BusInv'
<1>1. /\ lock # <<>> /\ 1 \in DOMAIN lock /\ Current = InLine(1) /\ Current \in BusMessages /\ Current \in CalledMessages
      BY AtHand
<1>2. /\ offer' = [offer EXCEPT ![s] = "reported"]
      /\ fate' = [fate EXCEPT ![s][Current] = outcome]
      BY DEF Report
<1>3. /\ offer'[s] = "reported" /\ \A x \in Subs \ {s} : offer'[x] = offer[x]
      /\ \A x \in Subs, m \in BusMessages : fate'[x][m] = IF x = s /\ m = Current THEN outcome ELSE fate[x][m]
      BY <1>1, <1>2 DEF BusInv, BusTypeOK
<1>4. BusTypeOK'
  <2>1. fate' \in [Subs -> [BusMessages -> DeliveryOutcome \cup {"none"}]]
        BY <1>1, <1>2 DEF BusInv, BusTypeOK
  <2>2. offer' \in [Subs -> {"none", "skipped", "offered", "waiting", "reported"}]
        BY <1>2 DEF BusInv, BusTypeOK
  <2> QED BY <2>1, <2>2 DEF BusInv, BusTypeOK
<1>5. /\ \A m, n : CalledBefore(m, n)' = CalledBefore(m, n)
      /\ \A i : InLine(i)' = InLine(i) /\ CalledMessages' = CalledMessages
      BY DEF CalledBefore, InLine, CalledMessages
<1>6. Distinct' /\ LockIsFair'
      BY <1>5 DEF BusInv, Distinct, LockIsFair
<1>7. \A i \in DOMAIN lock : InLine(i) \in BusMessages /\ (InLine(i) = Current => i = 1)
  <2>1. ASSUME NEW i \in DOMAIN lock, i # 1 PROVE InLine(i) # Current
    <3>1. i > 1 /\ CalledBefore(InLine(1), InLine(i))
          BY <1>1, <2>1 DEF BusInv, BusTypeOK, LockIsFair
    <3>2. \A m : ~ CalledBefore(m, m)
      <4>1. DOMAIN called \subseteq Nat
            BY DEF BusInv, BusTypeOK
      <4> QED BY <4>1 DEF BusInv, Distinct, CalledBefore
    <3> QED BY <1>1, <3>1, <3>2
  <2>2. ASSUME NEW i \in DOMAIN lock PROVE InLine(i) \in BusMessages
    <3>1. InLine(i) \in CalledMessages
          BY DEF BusInv, LockIsFair
    <3> QED BY <3>1 DEF CalledMessages, BusInv, BusTypeOK
  <2> QED BY <2>1, <2>2
<1>8. FatesInTurn'
  <2>1. ASSUME NEW x \in Subs, NEW i \in DOMAIN lock, fate'[x][InLine(i)] # "none"
        PROVE  i = 1 /\ offer'[x] \in {"skipped", "reported"}
    <3>1. CASE x = s /\ InLine(i) = Current
          BY <1>3, <1>7, <3>1
    <3>2. CASE x = s /\ InLine(i) # Current
          BY <1>3, <1>7, <2>1, <3>2 DEF BusInv, FatesInTurn
    <3>3. CASE x # s
          BY <1>3, <1>7, <2>1, <3>3 DEF BusInv, FatesInTurn
    <3> QED BY <3>1, <3>2, <3>3
  <2>2. ASSUME NEW x \in Subs, NEW m \in BusMessages, fate'[x][m] # "none"
        PROVE  /\ m \in CalledMessages
               /\ \A i \in DOMAIN lock : m = InLine(i) \/ CalledBefore(m, InLine(i))
    <3>1. CASE x = s /\ m = Current
          BY <1>1, <1>5, <3>1 DEF BusInv, LockIsFair, BusTypeOK
    <3>2. CASE ~ (x = s /\ m = Current)
          BY <1>3, <2>2, <3>2 DEF BusInv, FatesInTurn
    <3> QED BY <3>1, <3>2
  <2> QED BY <1>1, <1>5, <2>1, <2>2 DEF FatesInTurn
<1>9. WaitsAlone'
      BY <1>3 DEF BusInv, WaitsAlone, Coalescible, Current, Holder
<1> QED BY <1>4, <1>6, <1>8, <1>9 DEF BusInv

(* What is refused leaves the queue as it is.                              *)
LEMMA RefusalMoves ==
    ASSUME BusInv, NEW s \in Subs, NEW outcome \in DeliveryOutcome \ {"ENQUEUED", "COALESCED"},
           offer[s] \in {"offered", "waiting"}, Report(s, outcome),
           UNCHANGED <<busAccepting, subscribed, closed, queue, lock, sending, called, taken>>
    PROVE  BusInv'
<1>1. Current \in BusMessages /\ fate[s][Current] = "none"
      BY AtHand
<1>2. \A x \in Subs, m \in BusMessages : fate'[x][m] = IF x = s /\ m = Current THEN outcome ELSE fate[x][m]
      BY <1>1 DEF Report, BusInv, BusTypeOK
<1>3. QueuesAreSound'
  <2>1. \A m, n : CalledBefore(m, n) => CalledBefore(m, n)'
        BY DEF CalledBefore
  <2> QED BY <1>1, <1>2, <2>1, QueuesKeep
<1>4. queue' \in [Subs -> Seq(Entry)] /\ \A x \in Subs \ {s} : queue'[x] = queue[x]
      BY DEF BusInv, BusTypeOK
<1> QED BY <1>3, <1>4, ReportMoves

(* A message is put at the end of a queue that has room.                   *)
LEMMA EnqueueMoves ==
    ASSUME BusInv, NEW s \in Subs, offer[s] \in {"offered", "waiting"},
           Coalescible(s, Current) = {}, ~ Full(s), Enqueue(s),
           UNCHANGED <<busAccepting, subscribed, closed, lock, sending, called, taken>>
    PROVE  BusInv'
<1>1. /\ Current \in BusMessages /\ fate[s][Current] = "none"
      /\ \A m \in BusMessages : fate[s][m] # "none" => CalledBefore(m, Current)
      BY AtHand
<1>2. PICK e : e = EntryOf(s, Current)
      OBVIOUS
<1>3. e \in Entry /\ e.msg = Current /\ e.key = Coalesce[s][Current]
      BY <1>1, <1>2 DEF EntryOf, Entry
<1>4. /\ queue' = [queue EXCEPT ![s] = Append(queue[s], e)] /\ Report(s, "ENQUEUED")
      BY <1>2 DEF Enqueue
<1>5. PICK n \in Nat : n = Len(queue[s])
      BY DEF BusInv, BusTypeOK
<1>6. queue[s] \in Seq(Entry) /\ DOMAIN queue[s] = 1..n /\ \A i \in 1..n : queue[s][i].msg \in BusMessages
  <2>1. queue[s] \in Seq(Entry) /\ DOMAIN queue[s] = 1..n
        BY <1>5 DEF BusInv, BusTypeOK
  <2>2. \A i \in 1..n : queue[s][i] \in Entry
        BY <1>5, <2>1
  <2> QED BY <2>1, <2>2 DEF Entry
<1>7. /\ queue'[s] \in Seq(Entry) /\ Len(queue'[s]) = n + 1 /\ DOMAIN queue'[s] = 1..(n + 1)
      /\ queue'[s][n + 1] = e /\ \A i \in 1..n : queue'[s][i] = queue[s][i]
      /\ \A x \in Subs \ {s} : queue'[x] = queue[x]
      /\ queue' \in [Subs -> Seq(Entry)]
  <2>1. queue'[s] = Append(queue[s], e) /\ \A x \in Subs \ {s} : queue'[x] = queue[x]
        BY <1>4 DEF BusInv, BusTypeOK
  <2>2. Append(queue[s], e) \in Seq(Entry)
        BY <1>3, <1>6
  <2>3. queue' \in [Subs -> Seq(Entry)]
        BY <1>4, <2>2 DEF BusInv, BusTypeOK
  <2> QED BY <1>3, <1>5, <1>6, <2>1, <2>3, AppendIs
<1>8. \A x \in Subs, m \in BusMessages :
         /\ fate'[x][m] = IF x = s /\ m = Current THEN "ENQUEUED" ELSE fate[x][m]
      BY <1>1, <1>4 DEF Report, BusInv, BusTypeOK
<1>9. \A l, m : CalledBefore(l, m)' = CalledBefore(l, m)
      BY DEF CalledBefore
<1>10. \A i \in 1..n : fate[s][queue[s][i].msg] # "none" /\ queue[s][i].msg # Current
                       /\ CalledBefore(queue[s][i].msg, Current)
      BY <1>1, <1>6 DEF BusInv, QueuesAreSound, HoldsAccepted, Accepted
<1>11. HoldsAccepted'
  <2>1. ASSUME NEW x \in Subs, NEW i \in DOMAIN queue'[x]
        PROVE  queue'[x][i].key = Coalesce[x][queue'[x][i].msg] /\ fate'[x][queue'[x][i].msg] \in {"ENQUEUED", "COALESCED"}
    <3>1. CASE x = s /\ i = n + 1
          BY <1>1, <1>3, <1>7, <1>8, <3>1
    <3>2. CASE x = s /\ i # n + 1
      <4>1. i \in 1..n
            BY <1>7, <2>1, <3>2
      <4>2. queue[s][i].key = Coalesce[s][queue[s][i].msg] /\ fate[s][queue[s][i].msg] \in {"ENQUEUED", "COALESCED"}
            BY <1>6, <4>1 DEF BusInv, QueuesAreSound, HoldsAccepted, Accepted
      <4> QED BY <1>6, <1>7, <1>8, <1>10, <3>2, <4>1, <4>2
    <3>3. CASE x # s
      <4>1. queue[x][i] \in Entry
            BY <1>7, <2>1, <3>3 DEF BusInv, BusTypeOK
      <4>2. queue[x][i].key = Coalesce[x][queue[x][i].msg] /\ fate[x][queue[x][i].msg] \in {"ENQUEUED", "COALESCED"}
            BY <1>7, <2>1, <3>3 DEF BusInv, QueuesAreSound, HoldsAccepted, Accepted
      <4> QED BY <1>7, <1>8, <3>3, <4>1, <4>2 DEF Entry
    <3> QED BY <3>1, <3>2, <3>3
  <2>2. ASSUME NEW x \in Subs, NEW i \in DOMAIN taken[x] PROVE fate'[x][taken[x][i]] \in {"ENQUEUED", "COALESCED"}
    <3>1. taken[x][i] \in BusMessages
          BY DEF BusInv, BusTypeOK
    <3> QED BY <1>8, <3>1 DEF BusInv, QueuesAreSound, HoldsAccepted, Accepted
  <2>3. ASSUME NEW x \in Subs, NEW i \in DOMAIN queue'[x], NEW j \in DOMAIN queue'[x],
               queue'[x][i].key = queue'[x][j].key, queue'[x][i].key # NoCoalesceKey
        PROVE  i = j
    <3>1. CASE x # s
          BY <1>7, <2>3, <3>1 DEF BusInv, QueuesAreSound, HoldsAccepted
    <3>2. CASE x = s
      <4>1. \A k \in 1..n : queue[s][k].key # Coalesce[s][Current] \/ Coalesce[s][Current] = NoCoalesceKey
            BY <1>6 DEF Coalescible
      <4>2. \A k \in 1..n : queue'[s][k].key # queue'[s][n + 1].key \/ queue'[s][n + 1].key = NoCoalesceKey
            BY <1>3, <1>7, <4>1
      <4>3. (i \in 1..n \/ i = n + 1) /\ (j \in 1..n \/ j = n + 1)
            BY <1>7, <3>2
      <4>4. CASE i \in 1..n /\ j \in 1..n
            BY <1>6, <1>7, <2>3, <3>2, <4>4 DEF BusInv, QueuesAreSound, HoldsAccepted
      <4> QED BY <2>3, <3>2, <4>2, <4>3, <4>4
    <3> QED BY <3>1, <3>2
  <2> QED BY <2>1, <2>2, <2>3 DEF HoldsAccepted, Accepted
<1>12. QueueInOrder'
  <2> SUFFICES ASSUME NEW x \in Subs, ~ Coalesces(x)
               PROVE  /\ \A i, j \in DOMAIN queue'[x] : i < j => CalledBefore(queue'[x][i].msg, queue'[x][j].msg)
                      /\ \A i \in DOMAIN taken[x], j \in DOMAIN queue'[x] :
                            SourceOf[taken[x][i]] = SourceOf[queue'[x][j].msg] => CalledBefore(taken[x][i], queue'[x][j].msg)
      BY <1>9 DEF QueueInOrder
  <2>1. CASE x # s
        BY <1>7, <2>1 DEF BusInv, QueuesAreSound, QueueInOrder
  <2>2. CASE x = s
    <3>1. ASSUME NEW i \in 1..(n + 1), NEW j \in 1..(n + 1), i < j PROVE CalledBefore(queue'[s][i].msg, queue'[s][j].msg)
      <4>1. i \in 1..n /\ (j \in 1..n \/ j = n + 1)
            BY <3>1
      <4> QED BY <1>3, <1>6, <1>7, <1>10, <2>2, <3>1, <4>1 DEF BusInv, QueuesAreSound, QueueInOrder
    <3>2. ASSUME NEW i \in DOMAIN taken[s], NEW j \in 1..(n + 1), SourceOf[taken[s][i]] = SourceOf[queue'[s][j].msg]
          PROVE  CalledBefore(taken[s][i], queue'[s][j].msg)
      <4>1. taken[s][i] \in BusMessages /\ fate[s][taken[s][i]] \in {"ENQUEUED", "COALESCED"}
            BY DEF BusInv, BusTypeOK, QueuesAreSound, HoldsAccepted, Accepted
      <4>2. CASE j = n + 1
            BY <1>1, <1>3, <1>7, <4>1, <4>2
      <4>3. CASE j \in 1..n
            BY <1>6, <1>7, <2>2, <3>2, <4>3 DEF BusInv, QueuesAreSound, QueueInOrder
      <4> QED BY <4>2, <4>3
    <3> QED BY <1>7, <2>2, <3>1, <3>2
  <2> QED BY <2>1, <2>2
<1>13. \A x \in Subs : Waiting(x) \subseteq Waiting(x)' /\ (x = s => Current \in Waiting(x)')
  <2>1. ASSUME NEW x \in Subs PROVE Waiting(x) \subseteq Waiting(x)' /\ (x = s => Current \in Waiting(x)')
    <3>1. CASE x # s
          BY <1>7, <3>1 DEF Waiting
    <3>2. CASE x = s
      <4>1. ASSUME NEW i \in 1..n PROVE queue[s][i].msg \in Waiting(s)'
            BY <1>7, <4>1 DEF Waiting
      <4>2. Current \in Waiting(s)'
            BY <1>3, <1>7 DEF Waiting
      <4> QED BY <1>6, <3>2, <4>1, <4>2 DEF Waiting
    <3> QED BY <3>1, <3>2
  <2> QED BY <2>1
<1>14. AcceptedStays'
  <2> SUFFICES ASSUME NEW x \in Subs, NEW m \in BusMessages, fate'[x][m] \in {"ENQUEUED", "COALESCED"}
               PROVE  \/ m \in Waiting(x)' \cup ToSet(taken[x])
                      \/ \E k \in BusMessages :
                            /\ fate'[x][k] = "COALESCED" /\ Coalesce[x][k] = Coalesce[x][m] /\ CalledBefore(m, k)
      BY <1>9 DEF AcceptedStays, Accepted
  <2>1. CASE x = s /\ m = Current
        BY <1>13, <2>1
  <2>2. CASE ~ (x = s /\ m = Current)
    <3>1. Accepted(x, m)
          BY <1>8, <2>2 DEF Accepted
    <3>2. \A k \in BusMessages : fate[x][k] = "COALESCED" => fate'[x][k] = "COALESCED"
          BY <1>1, <1>8
    <3> QED BY <1>13, <3>1, <3>2 DEF BusInv, QueuesAreSound, AcceptedStays
  <2> QED BY <2>1, <2>2
<1>15. LatestKept'
  <2> SUFFICES ASSUME NEW x \in Subs, NEW i \in DOMAIN queue'[x], NEW m \in BusMessages,
                      queue'[x][i].key # NoCoalesceKey, Coalesce[x][m] = queue'[x][i].key,
                      fate'[x][m] \in {"ENQUEUED", "COALESCED"}, m # queue'[x][i].msg
               PROVE  CalledBefore(m, queue'[x][i].msg)
      BY <1>9 DEF LatestKept, Accepted
  <2>1. CASE x # s
        BY <1>7, <1>8, <2>1 DEF BusInv, QueuesAreSound, LatestKept, Accepted
  <2>2. CASE x = s /\ i = n + 1
        BY <1>1, <1>3, <1>7, <1>8, <2>2 DEF Accepted
  <2>3. CASE x = s /\ i \in 1..n
    <3>1. m # Current
          BY <1>6, <1>7, <2>3 DEF Coalescible
    <3> QED BY <1>6, <1>7, <1>8, <2>3, <3>1 DEF BusInv, QueuesAreSound, LatestKept, Accepted
  <2> QED BY <1>7, <2>1, <2>2, <2>3
<1>16. SourceOrder'
      BY <1>9 DEF BusInv, QueuesAreSound, SourceOrder
<1>17. Bounded'
  <2>1. Capacity[s] \in Nat
        BY EventBusAssumption DEF EventBusAssumption
  <2>2. n + 1 <= Capacity[s]
        BY <1>5, <2>1 DEF Full
  <2> QED BY <1>7, <2>2 DEF BusInv, QueuesAreSound, Bounded
<1>18. QueuesAreSound'
      BY <1>11, <1>12, <1>14, <1>15, <1>16, <1>17 DEF QueuesAreSound
<1>19. "ENQUEUED" \in DeliveryOutcome
      BY DEF DeliveryOutcome
<1> QED BY <1>4, <1>7, <1>18, <1>19, ReportMoves

(* The waiting entry of the key is given the message.                      *)
LEMMA CoalesceMoves ==
    ASSUME BusInv, NEW s \in Subs, offer[s] = "offered",
           NEW i \in Coalescible(s, Current), queue' = [queue EXCEPT ![s][i].msg = Current],
           Report(s, "COALESCED"),
           UNCHANGED <<busAccepting, subscribed, closed, lock, sending, called, taken>>
    PROVE  BusInv'
<1>1. /\ Current \in BusMessages /\ fate[s][Current] = "none"
      /\ \A m \in BusMessages : fate[s][m] # "none" => CalledBefore(m, Current)
      BY AtHand
<1>2. PICK n \in Nat : n = Len(queue[s])
  <2>1. queue[s] \in Seq(Entry)
        BY DEF BusInv, BusTypeOK
  <2>2. Len(queue[s]) \in Nat
        BY <2>1
  <2> QED BY <2>2
<1>3. queue[s] \in Seq(Entry) /\ DOMAIN queue[s] = 1..n /\ \A j \in 1..n : queue[s][j] \in Entry /\ queue[s][j].msg \in BusMessages
  <2>1. queue[s] \in Seq(Entry) /\ DOMAIN queue[s] = 1..n
        BY <1>2 DEF BusInv, BusTypeOK
  <2>2. \A j \in 1..n : queue[s][j] \in Entry
        BY <1>2, <2>1
  <2> QED BY <2>1, <2>2 DEF Entry
<1>4. i \in 1..n /\ Coalesce[s][Current] # NoCoalesceKey /\ queue[s][i].key = Coalesce[s][Current]
      BY <1>3 DEF Coalescible
<1>5. PICK e : e = [queue[s][i] EXCEPT !.msg = Current]
      OBVIOUS
<1>6. e \in Entry /\ e.msg = Current /\ e.key = queue[s][i].key
      BY <1>1, <1>3, <1>4, <1>5 DEF Entry
<1>7. /\ queue'[s] \in Seq(Entry) /\ Len(queue'[s]) = n /\ DOMAIN queue'[s] = 1..n
      /\ queue'[s][i] = e /\ \A j \in 1..n \ {i} : queue'[s][j] = queue[s][j]
      /\ \A x \in Subs \ {s} : queue'[x] = queue[x]
      /\ queue' \in [Subs -> Seq(Entry)]
  <2>1. queue' = [queue EXCEPT ![s] = [queue[s] EXCEPT ![i] = e]]
        BY <1>5
  <2>2. queue'[s] = [queue[s] EXCEPT ![i] = e] /\ \A x \in Subs \ {s} : queue'[x] = queue[x]
        BY <2>1 DEF BusInv, BusTypeOK
  <2>3. [queue[s] EXCEPT ![i] = e] \in Seq(Entry) /\ Len([queue[s] EXCEPT ![i] = e]) = n
        BY <1>2, <1>3, <1>4, <1>6
  <2>4. queue' \in [Subs -> Seq(Entry)]
        BY <2>1, <2>3 DEF BusInv, BusTypeOK
  <2> QED BY <1>3, <1>4, <2>2, <2>3, <2>4
<1>8. \A x \in Subs, m \in BusMessages : fate'[x][m] = IF x = s /\ m = Current THEN "COALESCED" ELSE fate[x][m]
      BY <1>1 DEF Report, BusInv, BusTypeOK
<1>9. \A l, m : CalledBefore(l, m)' = CalledBefore(l, m)
      BY DEF CalledBefore
<1>10. \A j \in 1..n : /\ queue[s][j].key = Coalesce[s][queue[s][j].msg]
                       /\ fate[s][queue[s][j].msg] \in {"ENQUEUED", "COALESCED"}
                       /\ queue[s][j].msg # Current
      BY <1>1, <1>3 DEF BusInv, QueuesAreSound, HoldsAccepted, Accepted
<1>11. \A j, k \in 1..n : queue[s][j].key = queue[s][k].key /\ queue[s][j].key # NoCoalesceKey => j = k
      BY <1>3 DEF BusInv, QueuesAreSound, HoldsAccepted
<1>12. \A j \in 1..n : queue'[s][j].key = queue[s][j].key
      BY <1>6, <1>7
<1>13. HoldsAccepted'
  <2>1. ASSUME NEW x \in Subs, NEW j \in DOMAIN queue'[x]
        PROVE  queue'[x][j].key = Coalesce[x][queue'[x][j].msg] /\ fate'[x][queue'[x][j].msg] \in {"ENQUEUED", "COALESCED"}
    <3>1. CASE x = s /\ j = i
          BY <1>1, <1>4, <1>6, <1>7, <1>8, <3>1
    <3>2. CASE x = s /\ j # i
      <4>1. j \in 1..n \ {i}
            BY <1>7, <2>1, <3>2
      <4> QED BY <1>3, <1>7, <1>8, <1>10, <3>2, <4>1
    <3>3. CASE x # s
      <4>1. queue[x][j] \in Entry
            BY <1>7, <2>1, <3>3 DEF BusInv, BusTypeOK
      <4>2. queue[x][j].key = Coalesce[x][queue[x][j].msg] /\ fate[x][queue[x][j].msg] \in {"ENQUEUED", "COALESCED"}
            BY <1>7, <2>1, <3>3 DEF BusInv, QueuesAreSound, HoldsAccepted, Accepted
      <4> QED BY <1>7, <1>8, <3>3, <4>1, <4>2 DEF Entry
    <3> QED BY <3>1, <3>2, <3>3
  <2>2. ASSUME NEW x \in Subs, NEW j \in DOMAIN taken[x] PROVE fate'[x][taken[x][j]] \in {"ENQUEUED", "COALESCED"}
    <3>1. taken[x][j] \in BusMessages
          BY DEF BusInv, BusTypeOK
    <3> QED BY <1>8, <3>1 DEF BusInv, QueuesAreSound, HoldsAccepted, Accepted
  <2>3. ASSUME NEW x \in Subs, NEW j \in DOMAIN queue'[x], NEW k \in DOMAIN queue'[x],
               queue'[x][j].key = queue'[x][k].key, queue'[x][j].key # NoCoalesceKey
        PROVE  j = k
    <3>1. CASE x # s
          BY <1>7, <2>3, <3>1 DEF BusInv, QueuesAreSound, HoldsAccepted
    <3>2. CASE x = s
          BY <1>7, <1>11, <1>12, <2>3, <3>2
    <3> QED BY <3>1, <3>2
  <2> QED BY <2>1, <2>2, <2>3 DEF HoldsAccepted, Accepted
<1>14. QueueInOrder'
  <2>1. Coalesces(s)
        BY <1>1, <1>4 DEF Coalesces
  <2> SUFFICES ASSUME NEW x \in Subs, ~ Coalesces(x)
               PROVE  /\ \A j, k \in DOMAIN queue'[x] : j < k => CalledBefore(queue'[x][j].msg, queue'[x][k].msg)
                      /\ \A j \in DOMAIN taken[x], k \in DOMAIN queue'[x] :
                            SourceOf[taken[x][j]] = SourceOf[queue'[x][k].msg] => CalledBefore(taken[x][j], queue'[x][k].msg)
      BY <1>9 DEF QueueInOrder
  <2>2. x # s
        BY <2>1
  <2> QED BY <1>7, <2>2 DEF BusInv, QueuesAreSound, QueueInOrder
<1>15. ASSUME NEW x \in Subs, NEW m \in Waiting(x), ~ (x = s /\ m = queue[s][i].msg) PROVE m \in Waiting(x)'
  <2>1. CASE x # s
        BY <1>7, <1>15, <2>1 DEF Waiting
  <2>2. CASE x = s
    <3>1. PICK j \in 1..n : m = queue[s][j].msg
          BY <1>3, <1>15, <2>2 DEF Waiting
    <3>2. j # i
          BY <1>15, <2>2, <3>1
    <3> QED BY <1>7, <2>2, <3>1, <3>2 DEF Waiting
  <2> QED BY <2>1, <2>2
<1>16. Current \in Waiting(s)'
      BY <1>4, <1>6, <1>7 DEF Waiting
<1>17. AcceptedStays'
  <2> SUFFICES ASSUME NEW x \in Subs, NEW m \in BusMessages, fate'[x][m] \in {"ENQUEUED", "COALESCED"}
               PROVE  \/ m \in Waiting(x)' \cup ToSet(taken[x])
                      \/ \E k \in BusMessages :
                            /\ fate'[x][k] = "COALESCED" /\ Coalesce[x][k] = Coalesce[x][m] /\ CalledBefore(m, k)
      BY <1>9 DEF AcceptedStays, Accepted
  <2>1. CASE x = s /\ m = Current
        BY <1>16, <2>1
  <2>2. CASE x = s /\ m = queue[s][i].msg
    <3>1. fate'[s][Current] = "COALESCED" /\ Coalesce[s][Current] = Coalesce[s][m] /\ CalledBefore(m, Current)
          BY <1>1, <1>4, <1>8, <1>10, <2>2
    <3> QED BY <1>1, <2>2, <3>1
  <2>3. CASE ~ (x = s /\ m = Current) /\ ~ (x = s /\ m = queue[s][i].msg)
    <3>1. Accepted(x, m)
          BY <1>8, <2>3 DEF Accepted
    <3>2. \A k \in BusMessages : fate[x][k] = "COALESCED" => fate'[x][k] = "COALESCED"
          BY <1>1, <1>8
    <3> QED BY <1>15, <2>3, <3>1, <3>2 DEF BusInv, QueuesAreSound, AcceptedStays
  <2> QED BY <2>1, <2>2, <2>3
<1>18. LatestKept'
  <2> SUFFICES ASSUME NEW x \in Subs, NEW j \in DOMAIN queue'[x], NEW m \in BusMessages,
                      queue'[x][j].key # NoCoalesceKey, Coalesce[x][m] = queue'[x][j].key,
                      fate'[x][m] \in {"ENQUEUED", "COALESCED"}, m # queue'[x][j].msg
               PROVE  CalledBefore(m, queue'[x][j].msg)
      BY <1>9 DEF LatestKept
  <2>1. CASE x # s
        BY <1>7, <1>8, <2>1 DEF BusInv, QueuesAreSound, LatestKept
  <2>2. CASE x = s /\ j = i
        BY <1>1, <1>6, <1>7, <1>8, <2>2
  <2>3. CASE x = s /\ j # i
    <3>1. j \in 1..n \ {i}
          BY <1>7, <2>3
    <3>2. m # Current
          BY <1>4, <1>7, <1>11, <1>12, <2>3, <3>1
    <3> QED BY <1>3, <1>7, <1>8, <2>3, <3>1, <3>2 DEF BusInv, QueuesAreSound, LatestKept
  <2> QED BY <2>1, <2>2, <2>3
<1>19. SourceOrder'
      BY <1>9 DEF BusInv, QueuesAreSound, SourceOrder
<1>20. Bounded'
      BY <1>2, <1>7 DEF BusInv, QueuesAreSound, Bounded
<1>21. QueuesAreSound'
      BY <1>13, <1>14, <1>17, <1>18, <1>19, <1>20 DEF QueuesAreSound
<1>22. "COALESCED" \in DeliveryOutcome
      BY DEF DeliveryOutcome
<1> QED BY <1>7, <1>21, <1>22, ReportMoves

(* The consumer takes the entry that is next.                              *)
LEMMA GetMoves ==
    ASSUME BusInv, NEW s \in Subs, Get(s)
    PROVE  BusInv'
<1>1. PICK k : k = NextEntry(s)
      OBVIOUS
<1>2. PICK n \in Nat : n = Len(queue[s])
      BY DEF BusInv, BusTypeOK
<1>3. queue[s] \in Seq(Entry) /\ DOMAIN queue[s] = 1..n /\ \A j \in 1..n : queue[s][j].msg \in BusMessages
  <2>1. queue[s] \in Seq(Entry) /\ DOMAIN queue[s] = 1..n
        BY <1>2 DEF BusInv, BusTypeOK
  <2>2. \A j \in 1..n : queue[s][j] \in Entry
        BY <1>2, <2>1
  <2> QED BY <2>1, <2>2 DEF Entry
<1>4. /\ k \in 1..n
      /\ \A j \in 1..(k - 1) : SourceOf[queue[s][j].msg] # SourceOf[queue[s][k].msg]
  <2>1. k \in FirstOfSource(s)
        BY <1>1, NextIsFirst DEF Get, BusInv
  <2> QED BY <1>3, <2>1 DEF FirstOfSource
<1>5. PICK m \in BusMessages : m = queue[s][k].msg
      BY <1>3, <1>4
<1>6. /\ taken' = [taken EXCEPT ![s] = Append(taken[s], m)]
      /\ queue' = [queue EXCEPT ![s] = RemoveAt(queue[s], k)]
      /\ UNCHANGED <<busAccepting, subscribed, closed, lock, sending, offer, called, fate>>
      BY <1>1, <1>5 DEF Get
<1>7. /\ queue'[s] \in Seq(Entry) /\ Len(queue'[s]) = n - 1 /\ DOMAIN queue'[s] = 1..(n - 1)
      /\ \A j \in 1..(n - 1) : queue'[s][j] = queue[s][After(k, j)]
      /\ \A x \in Subs \ {s} : queue'[x] = queue[x]
      /\ queue' \in [Subs -> Seq(Entry)]
  <2>1. queue'[s] = RemoveAt(queue[s], k) /\ \A x \in Subs \ {s} : queue'[x] = queue[x]
        BY <1>6 DEF BusInv, BusTypeOK
  <2>2. /\ RemoveAt(queue[s], k) \in Seq(Entry) /\ Len(RemoveAt(queue[s], k)) = n - 1
        /\ DOMAIN RemoveAt(queue[s], k) = 1..(n - 1)
        /\ \A j \in 1..(n - 1) : RemoveAt(queue[s], k)[j] = queue[s][After(k, j)]
    <3>1. queue[s] \in Seq(Entry) /\ k \in DOMAIN queue[s] /\ Len(queue[s]) = n
          BY <1>2, <1>3, <1>4
    <3> QED BY <3>1, RemoveAtIs
  <2>3. queue' \in [Subs -> Seq(Entry)]
        BY <1>6, <2>2 DEF BusInv, BusTypeOK
  <2> QED BY <2>1, <2>2, <2>3
<1>8. /\ \A j \in 1..(n - 1) : After(k, j) \in 1..n \ {k}
      /\ \A i, j \in 1..(n - 1) : (i < j => After(k, i) < After(k, j)) /\ (After(k, i) = After(k, j) => i = j)
      /\ \A l \in 1..n \ {k} : \E j \in 1..(n - 1) : After(k, j) = l
      BY <1>4, AfterIs
<1>8a. \A x \in Subs : \A j \in DOMAIN queue'[x] : \E l \in DOMAIN queue[x] : queue'[x][j] = queue[x][l]
  <2> SUFFICES ASSUME NEW x \in Subs, NEW j \in DOMAIN queue'[x] PROVE \E l \in DOMAIN queue[x] : queue'[x][j] = queue[x][l]
      OBVIOUS
  <2>1. CASE x # s
        BY <1>7, <2>1
  <2>2. CASE x = s
    <3>1. j \in 1..(n - 1) /\ queue'[s][j] = queue[s][After(k, j)]
          BY <1>7, <2>2
    <3>2. After(k, j) \in DOMAIN queue[s]
          BY <1>3, <1>8, <3>1
    <3> QED BY <2>2, <3>1, <3>2
  <2> QED BY <2>1, <2>2
<1>9. PICK t \in Nat : t = Len(taken[s]) /\ DOMAIN taken[s] = 1..t /\ taken[s] \in Seq(BusMessages)
      BY DEF BusInv, BusTypeOK
<1>10. /\ taken'[s] \in Seq(BusMessages) /\ DOMAIN taken'[s] = 1..(t + 1)
       /\ taken'[s][t + 1] = m /\ \A j \in 1..t : taken'[s][j] = taken[s][j]
       /\ \A x \in Subs \ {s} : taken'[x] = taken[x]
       /\ taken' \in [Subs -> Seq(BusMessages)]
  <2>1. taken'[s] = Append(taken[s], m) /\ \A x \in Subs \ {s} : taken'[x] = taken[x]
        BY <1>6 DEF BusInv, BusTypeOK
  <2>2. Append(taken[s], m) \in Seq(BusMessages)
        BY <1>9
  <2>3. taken' \in [Subs -> Seq(BusMessages)]
        BY <1>6, <2>2 DEF BusInv, BusTypeOK
  <2> QED BY <1>9, <2>1, <2>3, AppendIs
<1>11. /\ \A l, x : CalledBefore(l, x)' = CalledBefore(l, x)
       /\ \A i : InLine(i)' = InLine(i)
       /\ CalledMessages' = CalledMessages /\ Current' = Current
      BY <1>6 DEF CalledBefore, InLine, CalledMessages, Current, Holder
<1>12. BusTypeOK'
      BY <1>6, <1>7, <1>10 DEF BusInv, BusTypeOK
<1>13. Distinct' /\ LockIsFair' /\ FatesInTurn'
      BY <1>6, <1>11 DEF BusInv, Distinct, LockIsFair, FatesInTurn
<1>14. WaitsAlone'
  <2> SUFFICES ASSUME NEW x \in Subs, offer[x] = "waiting", NEW j \in DOMAIN queue'[x],
                      Coalesce[x][Current] # NoCoalesceKey, queue'[x][j].key = Coalesce[x][Current]
               PROVE  FALSE
      BY <1>6, <1>11 DEF WaitsAlone, Coalescible
  <2>1. \A i \in DOMAIN queue[x] : queue[x][i].key # Coalesce[x][Current]
        BY DEF BusInv, WaitsAlone, Coalescible
  <2>2. PICK l \in DOMAIN queue[x] : queue'[x][j] = queue[x][l]
        BY <1>8a
  <2> QED BY <2>1, <2>2
<1>15. HoldsAccepted'
  <2>1. ASSUME NEW x \in Subs, NEW j \in DOMAIN queue'[x]
        PROVE  queue'[x][j].key = Coalesce[x][queue'[x][j].msg] /\ fate[x][queue'[x][j].msg] \in {"ENQUEUED", "COALESCED"}
    <3>1. PICK l \in DOMAIN queue[x] : queue'[x][j] = queue[x][l]
          BY <1>8a
    <3> QED BY <3>1 DEF BusInv, QueuesAreSound, HoldsAccepted, Accepted
  <2>2. ASSUME NEW x \in Subs, NEW j \in DOMAIN taken'[x] PROVE fate[x][taken'[x][j]] \in {"ENQUEUED", "COALESCED"}
    <3>1. CASE x # s
          BY <1>10, <3>1 DEF BusInv, QueuesAreSound, HoldsAccepted, Accepted
    <3>2. CASE x = s /\ j = t + 1
          BY <1>3, <1>4, <1>5, <1>10, <3>2 DEF BusInv, QueuesAreSound, HoldsAccepted, Accepted
    <3>3. CASE x = s /\ j # t + 1
      <4>1. j \in 1..t
            BY <1>10, <3>3
      <4> QED BY <1>9, <1>10, <3>3, <4>1 DEF BusInv, QueuesAreSound, HoldsAccepted, Accepted
    <3> QED BY <3>1, <3>2, <3>3
  <2>3. ASSUME NEW x \in Subs, NEW i \in DOMAIN queue'[x], NEW j \in DOMAIN queue'[x],
               queue'[x][i].key = queue'[x][j].key, queue'[x][i].key # NoCoalesceKey
        PROVE  i = j
    <3>1. CASE x # s
          BY <1>7, <2>3, <3>1 DEF BusInv, QueuesAreSound, HoldsAccepted
    <3>2. CASE x = s
      <4>1. i \in 1..(n - 1) /\ j \in 1..(n - 1)
            BY <1>7, <3>2
      <4>2. PICK a \in 1..n, b \in 1..n : a = After(k, i) /\ b = After(k, j)
            BY <1>8, <4>1
      <4>3. queue'[s][i] = queue[s][a] /\ queue'[s][j] = queue[s][b]
            BY <1>7, <4>1, <4>2
      <4>4. a = b
            BY <1>3, <2>3, <3>2, <4>3 DEF BusInv, QueuesAreSound, HoldsAccepted
      <4> QED BY <1>8, <4>1, <4>2, <4>4
    <3> QED BY <3>1, <3>2
  <2> QED BY <1>6, <2>1, <2>2, <2>3 DEF HoldsAccepted, Accepted
<1>16. ASSUME NEW i \in 1..n, NEW j \in 1..n, i < j, ~ Coalesces(s)
       PROVE  CalledBefore(queue[s][i].msg, queue[s][j].msg)
      BY <1>3, <1>16 DEF BusInv, QueuesAreSound, QueueInOrder
<1>17. ASSUME NEW i \in 1..t, NEW j \in 1..n, SourceOf[taken[s][i]] = SourceOf[queue[s][j].msg], ~ Coalesces(s)
       PROVE  CalledBefore(taken[s][i], queue[s][j].msg)
      BY <1>3, <1>9, <1>17 DEF BusInv, QueuesAreSound, QueueInOrder
<1>18. QueueInOrder'
  <2> SUFFICES ASSUME NEW x \in Subs, ~ Coalesces(x)
               PROVE  /\ \A i, j \in DOMAIN queue'[x] : i < j => CalledBefore(queue'[x][i].msg, queue'[x][j].msg)
                      /\ \A i \in DOMAIN taken'[x], j \in DOMAIN queue'[x] :
                            SourceOf[taken'[x][i]] = SourceOf[queue'[x][j].msg] => CalledBefore(taken'[x][i], queue'[x][j].msg)
      BY <1>11 DEF QueueInOrder
  <2>1. CASE x # s
        BY <1>7, <1>10, <2>1 DEF BusInv, QueuesAreSound, QueueInOrder
  <2>2. CASE x = s
    <3>1. ASSUME NEW i \in 1..(n - 1), NEW j \in 1..(n - 1), i < j PROVE CalledBefore(queue'[s][i].msg, queue'[s][j].msg)
      <4>1. After(k, i) \in 1..n /\ After(k, j) \in 1..n /\ After(k, i) < After(k, j)
            BY <1>8, <3>1
      <4>2. CalledBefore(queue[s][After(k, i)].msg, queue[s][After(k, j)].msg)
            BY <1>16, <2>2, <4>1
      <4> QED BY <1>7, <4>2
    <3>2. ASSUME NEW i \in 1..(t + 1), NEW j \in 1..(n - 1), SourceOf[taken'[s][i]] = SourceOf[queue'[s][j].msg]
          PROVE  CalledBefore(taken'[s][i], queue'[s][j].msg)
      <4>1. CASE i \in 1..t
        <5>1. After(k, j) \in 1..n /\ queue'[s][j] = queue[s][After(k, j)] /\ taken'[s][i] = taken[s][i]
              BY <1>7, <1>8, <1>10, <4>1
        <5> QED BY <1>17, <2>2, <3>2, <4>1, <5>1
      <4>2. CASE i = t + 1
        <5>1. After(k, j) \in 1..n \ {k} /\ SourceOf[queue[s][After(k, j)].msg] = SourceOf[queue[s][k].msg]
              BY <1>5, <1>7, <1>8, <1>10, <3>2, <4>2
        <5>2. k < After(k, j)
          <6>1. After(k, j) \notin 1..(k - 1)
                BY <1>4, <5>1
          <6> QED BY <1>4, <5>1, <6>1
        <5>3. PICK l \in 1..n : l = After(k, j) /\ queue'[s][j] = queue[s][l] /\ k < l
              BY <1>7, <5>1, <5>2
        <5>4. CalledBefore(queue[s][k].msg, queue[s][l].msg)
              BY <1>4, <1>16, <2>2, <5>3
        <5> QED BY <1>5, <1>10, <4>2, <5>3, <5>4
      <4> QED BY <4>1, <4>2
    <3> QED BY <1>7, <1>10, <2>2, <3>1, <3>2
  <2> QED BY <2>1, <2>2
<1>19. SourceOrder'
  <2> SUFFICES ASSUME NEW x \in Subs, NEW i \in DOMAIN taken'[x], NEW j \in DOMAIN taken'[x],
                      ~ Coalesces(x), i < j, SourceOf[taken'[x][i]] = SourceOf[taken'[x][j]]
               PROVE  CalledBefore(taken'[x][i], taken'[x][j])
      BY <1>11 DEF SourceOrder, Coalesces
  <2>1. \A c \in BusMessages : Coalesce[x][c] = NoCoalesceKey
        BY DEF Coalesces
  <2>2. CASE x # s
        BY <1>10, <2>1, <2>2 DEF BusInv, QueuesAreSound, SourceOrder
  <2>3. CASE x = s /\ j = t + 1
    <3>1. i \in 1..t
          BY <1>10, <2>3
    <3> QED BY <1>4, <1>5, <1>10, <1>17, <2>3, <3>1
  <2>4. CASE x = s /\ j # t + 1
    <3>1. i \in 1..t /\ j \in 1..t
          BY <1>10, <2>4
    <3> QED BY <1>9, <1>10, <2>1, <2>4, <3>1 DEF BusInv, QueuesAreSound, SourceOrder
  <2> QED BY <2>2, <2>3, <2>4
<1>20. ASSUME NEW x \in Subs, NEW c, c \in Waiting(x) \cup ToSet(taken[x])
       PROVE  c \in Waiting(x)' \cup ToSet(taken'[x])
  <2>1. CASE x # s
        BY <1>7, <1>10, <1>20, <2>1 DEF Waiting, ToSet
  <2>2. CASE x = s /\ c \in ToSet(taken[x])
    <3>1. PICK i \in 1..t : c = taken[s][i]
          BY <1>9, <2>2 DEF ToSet
    <3>2. i \in DOMAIN taken'[s] /\ taken'[s][i] = c
          BY <1>10, <3>1
    <3> QED BY <2>2, <3>2 DEF ToSet
  <2>3. CASE x = s /\ c \in Waiting(x)
    <3>1. PICK l \in 1..n : c = queue[s][l].msg
          BY <1>3, <2>3 DEF Waiting
    <3>2. CASE l = k
      <4>1. t + 1 \in DOMAIN taken'[s] /\ taken'[s][t + 1] = c
            BY <1>5, <1>10, <3>1, <3>2
      <4> QED BY <2>3, <4>1 DEF ToSet
    <3>3. CASE l # k
      <4>1. PICK j \in 1..(n - 1) : After(k, j) = l
            BY <1>8, <3>3
      <4>2. j \in DOMAIN queue'[s] /\ queue'[s][j].msg = c
            BY <1>7, <3>1, <4>1
      <4> QED BY <2>3, <4>2 DEF Waiting
    <3> QED BY <3>2, <3>3
  <2> QED BY <1>20, <2>1, <2>2, <2>3
<1>21. AcceptedStays'
  <2> SUFFICES ASSUME NEW x \in Subs, NEW c \in BusMessages, Accepted(x, c)
               PROVE  \/ c \in Waiting(x)' \cup ToSet(taken'[x])
                      \/ \E d \in BusMessages :
                            /\ fate[x][d] = "COALESCED" /\ Coalesce[x][d] = Coalesce[x][c] /\ CalledBefore(c, d)
      BY <1>6, <1>11 DEF AcceptedStays, Accepted
  <2> QED BY <1>20 DEF BusInv, QueuesAreSound, AcceptedStays
<1>22. LatestKept'
  <2> SUFFICES ASSUME NEW x \in Subs, NEW j \in DOMAIN queue'[x], NEW c \in BusMessages,
                      queue'[x][j].key # NoCoalesceKey, Coalesce[x][c] = queue'[x][j].key,
                      fate[x][c] \in {"ENQUEUED", "COALESCED"}, c # queue'[x][j].msg
               PROVE  CalledBefore(c, queue'[x][j].msg)
      BY <1>6, <1>11 DEF LatestKept
  <2>1. CASE x # s
        BY <1>7, <2>1 DEF BusInv, QueuesAreSound, LatestKept
  <2>2. CASE x = s
    <3>1. PICK l \in DOMAIN queue[x] : queue'[x][j] = queue[x][l]
          BY <1>8a
    <3> QED BY <3>1 DEF BusInv, QueuesAreSound, LatestKept
  <2> QED BY <2>1, <2>2
<1>23. Bounded'
  <2>1. \A x \in Subs : Capacity[x] \in Nat
        BY EventBusAssumption DEF EventBusAssumption
  <2>2. n <= Capacity[s]
        BY <1>2 DEF BusInv, QueuesAreSound, Bounded
  <2>3. n - 1 <= Capacity[s]
        BY <2>1, <2>2
  <2> QED BY <1>7, <2>3 DEF BusInv, QueuesAreSound, Bounded
<1> QED BY <1>12, <1>13, <1>14, <1>15, <1>18, <1>19, <1>21, <1>22, <1>23 DEF BusInv, QueuesAreSound

(* The head of the lock is the message at hand, and no other place is.     *)
LEMMA AtHead ==
    ASSUME BusInv, lock # <<>>
    PROVE  /\ 1 \in DOMAIN lock /\ Holder = lock[1] /\ Holder \in Publishers /\ Current = InLine(1)
           /\ \A i \in DOMAIN lock : InLine(i) \in BusMessages /\ (InLine(i) = Current => i = 1)
<1>1. lock \in Seq(Publishers) /\ called \in Seq(BusMessages)
      BY DEF BusInv, BusTypeOK
<1>2. 1 \in DOMAIN lock /\ Holder = lock[1] /\ Holder \in Publishers
      BY <1>1 DEF Holder
<1>3. Current = InLine(1)
      BY <1>2 DEF Current, InLine
<1>4. ASSUME NEW i \in DOMAIN lock PROVE InLine(i) \in BusMessages
  <2>1. InLine(i) \in CalledMessages
        BY DEF BusInv, LockIsFair
  <2> QED BY <1>1, <2>1 DEF CalledMessages
<1>5. ASSUME NEW i \in DOMAIN lock, i # 1 PROVE InLine(i) # Current
  <2>1. CalledBefore(InLine(1), InLine(i))
        BY <1>1, <1>2, <1>5 DEF BusInv, LockIsFair
  <2>2. \A m : ~ CalledBefore(m, m)
    <3>1. DOMAIN called \subseteq Nat
          BY <1>1
    <3> QED BY <3>1 DEF BusInv, Distinct, CalledBefore
  <2> QED BY <1>3, <2>1, <2>2
<1> QED BY <1>2, <1>3, <1>4, <1>5

(* A publisher calls publish() and stands at the end of the lock.          *)
LEMMA PublishMoves ==
    ASSUME BusInv, NEW p \in Publishers, NEW m \in Outgoing[p], Publish(p, m)
    PROVE  BusInv'
<1>1. m \in BusMessages /\ m # NoBusMessage
      BY EventBusAssumption DEF EventBusAssumption
<1>2. PICK c \in Nat : c = Len(called) /\ DOMAIN called = 1..c /\ called \in Seq(BusMessages)
      BY DEF BusInv, BusTypeOK
<1>3. PICK n \in Nat : n = Len(lock) /\ DOMAIN lock = 1..n /\ lock \in Seq(Publishers)
      BY DEF BusInv, BusTypeOK
<1>4. /\ called' = Append(called, m) /\ lock' = Append(lock, p) /\ sending' = [sending EXCEPT ![p] = m]
      /\ sending[p] = NoBusMessage
      /\ UNCHANGED <<busAccepting, subscribed, closed, queue, offer, fate, taken>>
      BY DEF Publish
<1>5. /\ called' \in Seq(BusMessages) /\ DOMAIN called' = 1..(c + 1)
      /\ called'[c + 1] = m /\ \A i \in 1..c : called'[i] = called[i]
      BY <1>1, <1>2, <1>4, AppendIs
<1>6. /\ lock' \in Seq(Publishers) /\ DOMAIN lock' = 1..(n + 1)
      /\ lock'[n + 1] = p /\ \A i \in 1..n : lock'[i] = lock[i]
      BY <1>3, <1>4, AppendIs
<1>7. sending'[p] = m /\ \A x \in Publishers \ {p} : sending'[x] = sending[x]
      BY <1>4 DEF BusInv, BusTypeOK
<1>8. \A i \in 1..c : called[i] # m
  <2>1. ~ Contains(called, m)
        BY DEF Publish
  <2> QED BY <1>2, <2>1 DEF Contains
<1>9. \A i \in 1..n : lock[i] # p /\ lock[i] \in Publishers
  <2>1. ~ \E i \in DOMAIN lock : lock[i] = p
        BY <1>4 DEF BusInv, LockIsFair
  <2>2. \A i \in 1..n : lock[i] \in Publishers
        BY <1>3
  <2> QED BY <1>3, <2>1, <2>2
<1>10. /\ InLine(n + 1)' = m
       /\ \A i \in 1..n : InLine(i)' = InLine(i)
      BY <1>6, <1>7, <1>9 DEF InLine
<1>11. \A x, y : CalledBefore(x, y) => CalledBefore(x, y)'
  <2> SUFFICES ASSUME NEW x, NEW y, NEW i \in 1..c, NEW j \in 1..c, i < j, called[i] = x, called[j] = y
               PROVE  CalledBefore(x, y)'
      BY <1>2 DEF CalledBefore
  <2>1. i \in 1..(c + 1) /\ j \in 1..(c + 1)
        OBVIOUS
  <2> QED BY <1>5, <2>1 DEF CalledBefore
<1>12. \A x \in CalledMessages : CalledBefore(x, m)'
  <2> SUFFICES ASSUME NEW x, NEW i \in 1..c, x = called[i] PROVE CalledBefore(x, m)'
      BY <1>2 DEF CalledMessages
  <2>1. i \in 1..(c + 1) /\ c + 1 \in 1..(c + 1) /\ i < c + 1
        OBVIOUS
  <2> QED BY <1>5, <2>1 DEF CalledBefore
<1>13. CalledMessages' = CalledMessages \cup {m}
  <2>1. 1..(c + 1) = 1..c \cup {c + 1}
        OBVIOUS
  <2> QED BY <1>2, <1>5, <2>1 DEF CalledMessages
<1>14. BusTypeOK'
  <2>1. sending' \in [Publishers -> BusMessages \cup {NoBusMessage}]
        BY <1>1, <1>4 DEF BusInv, BusTypeOK
  <2> QED BY <1>4, <1>5, <1>6, <2>1 DEF BusInv, BusTypeOK
<1>15. Distinct'
  <2>1. ASSUME NEW i \in 1..(c + 1), NEW j \in 1..(c + 1), called'[i] = called'[j] PROVE i = j
        BY <1>2, <1>5, <1>8, <2>1 DEF BusInv, Distinct
  <2>2. ASSUME NEW i \in 1..(n + 1), NEW j \in 1..(n + 1), lock'[i] = lock'[j] PROVE i = j
        BY <1>3, <1>6, <1>9, <2>2 DEF BusInv, Distinct
  <2> QED BY <1>5, <1>6, <2>1, <2>2 DEF Distinct
<1>16. LockIsFair'
  <2>1. ASSUME NEW x \in Publishers PROVE sending'[x] # NoBusMessage <=> \E i \in 1..(n + 1) : lock'[i] = x
    <3>1. CASE x = p
      <4>1. n + 1 \in 1..(n + 1)
            OBVIOUS
      <4> QED BY <1>1, <1>6, <1>7, <3>1, <4>1
    <3>2. CASE x # p
      <4>1. sending[x] # NoBusMessage <=> \E i \in 1..n : lock[i] = x
            BY <1>3 DEF BusInv, LockIsFair
      <4>2. \A i \in 1..(n + 1) : i \in 1..n \/ i = n + 1
            OBVIOUS
      <4>3. 1..n \subseteq 1..(n + 1)
            OBVIOUS
      <4> QED BY <1>6, <1>7, <3>2, <4>1, <4>2, <4>3
    <3> QED BY <3>1, <3>2
  <2>2. ASSUME NEW i \in 1..(n + 1) PROVE InLine(i)' \in CalledMessages'
    <3>1. CASE i = n + 1
          BY <1>10, <1>13, <3>1
    <3>2. CASE i # n + 1
      <4>1. i \in 1..n
            BY <3>2
      <4> QED BY <1>3, <1>10, <1>13, <4>1 DEF BusInv, LockIsFair
    <3> QED BY <3>1, <3>2
  <2>3. ASSUME NEW i \in 1..(n + 1), NEW j \in 1..(n + 1), i < j PROVE CalledBefore(InLine(i), InLine(j))'
    <3>1. i \in 1..n
          BY <2>3
    <3>2. InLine(i)' = InLine(i) /\ InLine(i) \in CalledMessages
          BY <1>3, <1>10, <3>1 DEF BusInv, LockIsFair
    <3>3. CASE j = n + 1
          BY <1>10, <1>12, <3>2, <3>3 DEF CalledBefore
    <3>4. CASE j # n + 1
      <4>1. j \in 1..n
            BY <3>4
      <4>2. CalledBefore(InLine(i), InLine(j))
            BY <1>3, <2>3, <3>1, <4>1 DEF BusInv, LockIsFair
      <4>3. InLine(j)' = InLine(j)
            BY <1>10, <4>1
      <4> QED BY <1>11, <3>2, <4>2, <4>3 DEF CalledBefore
    <3> QED BY <3>3, <3>4
  <2> QED BY <1>6, <2>1, <2>2, <2>3 DEF LockIsFair
<1>17. FatesInTurn'
  <2>1. lock' # <<>>
        BY <1>6
  <2>2. ASSUME NEW s \in Subs, NEW i \in 1..(n + 1), fate[s][InLine(i)'] # "none"
        PROVE  i = 1 /\ offer[s] \in {"skipped", "reported"}
    <3>1. CASE i = n + 1
      <4>1. m \in CalledMessages
            BY <1>1, <1>10, <2>2, <3>1 DEF BusInv, FatesInTurn
      <4> QED BY <1>2, <1>8, <4>1 DEF CalledMessages
    <3>2. CASE i # n + 1
      <4>1. i \in 1..n
            BY <3>2
      <4> QED BY <1>3, <1>10, <2>2, <4>1 DEF BusInv, FatesInTurn
    <3> QED BY <3>1, <3>2
  <2>3. ASSUME NEW s \in Subs, NEW x \in BusMessages, fate[s][x] # "none", NEW i \in 1..(n + 1)
        PROVE  x \in CalledMessages' /\ (x = InLine(i)' \/ CalledBefore(x, InLine(i))')
    <3>1. x \in CalledMessages
          BY <2>3 DEF BusInv, FatesInTurn
    <3>2. CASE i = n + 1
          BY <1>10, <1>12, <1>13, <3>1, <3>2 DEF CalledBefore
    <3>3. CASE i # n + 1
      <4>1. i \in 1..n
            BY <3>3
      <4>2. x = InLine(i) \/ CalledBefore(x, InLine(i))
            BY <1>3, <2>3, <4>1 DEF BusInv, FatesInTurn
      <4> QED BY <1>10, <1>11, <1>13, <3>1, <4>1, <4>2 DEF CalledBefore
    <3> QED BY <3>2, <3>3
  <2>4. 1 \in 1..(n + 1)
        OBVIOUS
  <2>5. \A s \in Subs, i \in DOMAIN lock' : fate'[s][InLine(i)'] # "none" => i = 1 /\ offer'[s] \in {"skipped", "reported"}
        BY <1>4, <1>6, <2>2
  <2>6. \A s \in Subs, x \in BusMessages : fate'[s][x] # "none" =>
           /\ x \in CalledMessages'
           /\ \A i \in DOMAIN lock' : x = InLine(i)' \/ CalledBefore(x, InLine(i))'
        BY <1>4, <1>6, <2>3, <2>4
  <2> QED BY <2>1, <2>5, <2>6 DEF FatesInTurn
<1>18. WaitsAlone'
  <2> SUFFICES ASSUME NEW s \in Subs, offer[s] = "waiting" PROVE Coalescible(s, Current)' = {}
      BY <1>4 DEF WaitsAlone
  <2>1. /\ 1 \in 1..n /\ Current = InLine(1)
        BY <1>3, AtHand
  <2>2. Current' = InLine(1)'
    <3>1. Holder' = lock'[1]
          BY <1>6 DEF Holder
    <3> QED BY <3>1 DEF Current, InLine
  <2>3. Current' = Current
        BY <1>10, <2>1, <2>2
  <2> QED BY <1>4, <2>3 DEF BusInv, WaitsAlone, Coalescible
<1>19. QueuesAreSound'
      BY <1>4, <1>11, QueuesKeep
<1> QED BY <1>14, <1>15, <1>16, <1>17, <1>18, <1>19 DEF BusInv

(* The subscriptions are asked.                                            *)
LEMMA FanOutMoves ==
    ASSUME BusInv, FanOut
    PROVE  BusInv'
<1>1. lock # <<>> /\ \A s \in Subs : offer[s] = "none"
      BY DEF FanOut
<1>2. /\ 1 \in DOMAIN lock /\ Current = InLine(1) /\ Current \in BusMessages
      /\ \A i \in DOMAIN lock : InLine(i) \in BusMessages /\ (InLine(i) = Current => i = 1)
      BY <1>1, AtHead
<1>3. PICK raising \in SUBSET Subs :
          /\ fate' = [s \in Subs |->
                IF s \in raising THEN [fate[s] EXCEPT ![Current] = "REJECTED"]
                ELSE IF s \in subscribed /\ ~ (Current \in Wants[s]) THEN [fate[s] EXCEPT ![Current] = "FILTERED"]
                ELSE fate[s]]
          /\ offer' = [s \in Subs |->
                IF s \in subscribed /\ Current \in Wants[s] /\ s \notin raising THEN "offered" ELSE "skipped"]
      BY DEF FanOut
<1>4. UNCHANGED <<busAccepting, subscribed, closed, queue, lock, sending, called, taken>>
      BY DEF FanOut
<1>5. \A s \in Subs : fate[s][Current] = "none"
      BY <1>1, <1>2 DEF BusInv, FatesInTurn
<1>6. \A s \in Subs, m \in BusMessages :
         \/ fate'[s][m] = fate[s][m]
         \/ m = Current /\ offer'[s] = "skipped" /\ fate'[s][m] \in {"REJECTED", "FILTERED"}
      BY <1>3 DEF BusInv, BusTypeOK
<1>7. /\ \A m, n : CalledBefore(m, n)' = CalledBefore(m, n)
      /\ \A i : InLine(i)' = InLine(i) /\ CalledMessages' = CalledMessages
      BY <1>4 DEF CalledBefore, InLine, CalledMessages
<1>8. BusTypeOK'
  <2>1. fate' \in [Subs -> [BusMessages -> DeliveryOutcome \cup {"none"}]]
    <3>1. \A s \in Subs : fate'[s] \in [BusMessages -> DeliveryOutcome \cup {"none"}]
          BY <1>2, <1>3 DEF BusInv, BusTypeOK, DeliveryOutcome
    <3> QED BY <1>3, <3>1
  <2>2. offer' \in [Subs -> {"none", "skipped", "offered", "waiting", "reported"}]
        BY <1>3
  <2> QED BY <1>4, <2>1, <2>2 DEF BusInv, BusTypeOK
<1>9. Distinct' /\ LockIsFair'
      BY <1>4, <1>7 DEF BusInv, Distinct, LockIsFair
<1>10. FatesInTurn'
  <2>1. ASSUME NEW s \in Subs, NEW i \in DOMAIN lock, fate'[s][InLine(i)] # "none"
        PROVE  i = 1 /\ offer'[s] \in {"skipped", "reported"}
    <3>1. fate[s][InLine(i)] = "none"
          BY <1>1 DEF BusInv, FatesInTurn
    <3> QED BY <1>2, <1>6, <2>1, <3>1
  <2>2. ASSUME NEW s \in Subs, NEW m \in BusMessages, fate'[s][m] # "none"
        PROVE  /\ m \in CalledMessages
               /\ \A i \in DOMAIN lock : m = InLine(i) \/ CalledBefore(m, InLine(i))
    <3>1. CASE m = Current
          BY <1>2, <3>1 DEF BusInv, LockIsFair, BusTypeOK
    <3>2. CASE m # Current
          BY <1>6, <2>2, <3>2 DEF BusInv, FatesInTurn
    <3> QED BY <3>1, <3>2
  <2> QED BY <1>1, <1>4, <1>7, <2>1, <2>2 DEF FatesInTurn
<1>11. WaitsAlone'
      BY <1>3 DEF WaitsAlone
<1>12. QueuesAreSound'
  <2>1. \A s \in Subs, m \in BusMessages :
           \/ fate'[s][m] = fate[s][m]
           \/ fate[s][m] = "none" /\ fate'[s][m] \notin {"ENQUEUED", "COALESCED"}
        BY <1>5, <1>6
  <2> QED BY <1>4, <1>7, <2>1, QueuesKeep
<1> QED BY <1>8, <1>9, <1>10, <1>11, <1>12 DEF BusInv

(* A publisher leaves the lock, from its head or from behind.              *)
LEMMA LeaveMoves ==
    ASSUME BusInv, NEW k \in DOMAIN lock, NEW n \in Nat, n = Len(lock),
           lock' \in Seq(Publishers), DOMAIN lock' = 1..(n - 1),
           \A j \in 1..(n - 1) : lock'[j] = lock[After(k, j)],
           sending' = [sending EXCEPT ![lock[k]] = NoBusMessage],
           offer' = IF k = 1 THEN [s \in Subs |-> "none"] ELSE offer,
           UNCHANGED <<busAccepting, subscribed, closed, queue, called, fate, taken>>
    PROVE  BusInv'
<1>1. lock \in Seq(Publishers) /\ DOMAIN lock = 1..n
  <2>1. lock \in Seq(Publishers)
        BY DEF BusInv, BusTypeOK
  <2> QED BY <2>1
<1>2. /\ \A j \in 1..(n - 1) : After(k, j) \in 1..n \ {k}
      /\ \A i, j \in 1..(n - 1) : (i < j => After(k, i) < After(k, j)) /\ (After(k, i) = After(k, j) => i = j)
      /\ \A l \in 1..n \ {k} : \E j \in 1..(n - 1) : After(k, j) = l
  <2>1. k \in 1..n
        BY <1>1
  <2> QED BY <2>1, AfterIs
<1>3. \A l \in 1..n \ {k} : lock[l] # lock[k]
      BY <1>1 DEF BusInv, Distinct
<1>4. /\ lock[k] \in Publishers /\ sending'[lock[k]] = NoBusMessage
      /\ \A x \in Publishers \ {lock[k]} : sending'[x] = sending[x]
      BY <1>1 DEF BusInv, BusTypeOK
<1>5. \A j \in 1..(n - 1) : InLine(j)' = InLine(After(k, j))
  <2> SUFFICES ASSUME NEW j \in 1..(n - 1) PROVE sending'[lock'[j]] = sending[lock[After(k, j)]]
      BY DEF InLine
  <2>1. PICK l \in 1..n \ {k} : l = After(k, j)
        BY <1>2
  <2>2. lock[l] \in Publishers \ {lock[k]}
        BY <1>1, <1>3, <2>1
  <2> QED BY <1>4, <2>1, <2>2
<1>6. /\ \A x, y : CalledBefore(x, y)' = CalledBefore(x, y)
      /\ CalledMessages' = CalledMessages
      BY DEF CalledBefore, CalledMessages
<1>7. BusTypeOK'
  <2>1. offer' \in [Subs -> {"none", "skipped", "offered", "waiting", "reported"}]
        BY DEF BusInv, BusTypeOK
  <2>2. sending' \in [Publishers -> BusMessages \cup {NoBusMessage}]
        BY <1>4 DEF BusInv, BusTypeOK
  <2> QED BY <2>1, <2>2 DEF BusInv, BusTypeOK
<1>8. Distinct'
  <2>1. ASSUME NEW i \in 1..(n - 1), NEW j \in 1..(n - 1), lock'[i] = lock'[j] PROVE i = j
    <3>1. PICK a \in 1..n, b \in 1..n : a = After(k, i) /\ b = After(k, j)
          BY <1>2
    <3>2. lock[a] = lock[b]
          BY <2>1, <3>1
    <3>3. a = b
          BY <1>1, <3>2 DEF BusInv, Distinct
    <3> QED BY <1>2, <3>1, <3>3
  <2> QED BY <1>6, <2>1 DEF BusInv, Distinct
<1>9. LockIsFair'
  <2>1. ASSUME NEW x \in Publishers PROVE sending'[x] # NoBusMessage <=> \E j \in 1..(n - 1) : lock'[j] = x
    <3>1. CASE x = lock[k]
      <4>1. \A j \in 1..(n - 1) : lock'[j] # lock[k]
            BY <1>2, <1>3
      <4> QED BY <1>4, <3>1, <4>1
    <3>2. CASE x # lock[k]
      <4>1. sending'[x] # NoBusMessage <=> \E l \in 1..n : lock[l] = x
            BY <1>1, <1>4, <3>2 DEF BusInv, LockIsFair
      <4>2. ASSUME NEW l \in 1..n, lock[l] = x PROVE \E j \in 1..(n - 1) : lock'[j] = x
        <5>1. l # k
              BY <3>2, <4>2
        <5>2. PICK j \in 1..(n - 1) : After(k, j) = l
              BY <1>2, <5>1
        <5> QED BY <4>2, <5>2
      <4>3. ASSUME NEW j \in 1..(n - 1), lock'[j] = x PROVE \E l \in 1..n : lock[l] = x
        <5>1. After(k, j) \in 1..n
              BY <1>2
        <5> QED BY <4>3, <5>1
      <4> QED BY <4>1, <4>2, <4>3
    <3> QED BY <3>1, <3>2
  <2>2. ASSUME NEW j \in 1..(n - 1) PROVE InLine(j)' \in CalledMessages'
    <3>1. After(k, j) \in DOMAIN lock
          BY <1>1, <1>2
    <3> QED BY <1>5, <1>6, <3>1 DEF BusInv, LockIsFair
  <2>3. ASSUME NEW i \in 1..(n - 1), NEW j \in 1..(n - 1), i < j PROVE CalledBefore(InLine(i), InLine(j))'
    <3>1. PICK a \in DOMAIN lock, b \in DOMAIN lock : a = After(k, i) /\ b = After(k, j) /\ a < b
          BY <1>1, <1>2, <2>3
    <3>2. CalledBefore(InLine(a), InLine(b))
          BY <3>1 DEF BusInv, LockIsFair
    <3> QED BY <1>5, <3>1, <3>2 DEF CalledBefore
  <2> QED BY <2>1, <2>2, <2>3 DEF LockIsFair
<1>10. FatesInTurn'
  <2>1. lock' = <<>> => \A s \in Subs : offer'[s] = "none"
    <3> SUFFICES ASSUME lock' = <<>> PROVE k = 1
        OBVIOUS
    <3>1. DOMAIN lock' = {}
          OBVIOUS
    <3>2. k # 1 => 1 \in 1..(n - 1)
          BY <1>1
    <3> QED BY <3>1, <3>2
  <2>2. ASSUME NEW s \in Subs, NEW j \in 1..(n - 1), fate'[s][InLine(j)'] # "none"
        PROVE  j = 1 /\ offer'[s] \in {"skipped", "reported"}
    <3>1. PICK l \in DOMAIN lock : l = After(k, j) /\ l # k
          BY <1>1, <1>2
    <3>2. l = 1 /\ offer[s] \in {"skipped", "reported"}
          BY <1>5, <2>2, <3>1 DEF BusInv, FatesInTurn
    <3>3. j = 1
          BY <1>1, <3>1, <3>2 DEF After
    <3> QED BY <3>1, <3>2, <3>3
  <2>3. ASSUME NEW s \in Subs, NEW m \in BusMessages, fate'[s][m] # "none"
        PROVE  /\ m \in CalledMessages'
               /\ \A j \in 1..(n - 1) : m = InLine(j)' \/ CalledBefore(m, InLine(j))'
    <3>1. /\ m \in CalledMessages
          /\ \A l \in 1..n : m = InLine(l) \/ CalledBefore(m, InLine(l))
          BY <1>1, <2>3 DEF BusInv, FatesInTurn
    <3>2. ASSUME NEW j \in 1..(n - 1) PROVE m = InLine(j)' \/ CalledBefore(m, InLine(j))'
      <4>1. After(k, j) \in 1..n
            BY <1>2
      <4> QED BY <1>5, <3>1, <4>1 DEF CalledBefore
    <3> QED BY <1>6, <3>1, <3>2
  <2> QED BY <2>1, <2>2, <2>3 DEF FatesInTurn
<1>11. WaitsAlone'
  <2> SUFFICES ASSUME NEW s \in Subs, offer'[s] = "waiting" PROVE Coalescible(s, Current)' = {}
      BY DEF WaitsAlone
  <2>1. k # 1 /\ offer[s] = "waiting"
        OBVIOUS
  <2>2. 1 \in 1..(n - 1) /\ After(k, 1) = 1
        BY <1>1, <2>1 DEF After
  <2>3. Current' = InLine(1)'
    <3>1. Holder' = lock'[1]
          BY <2>2 DEF Holder
    <3> QED BY <3>1 DEF Current, InLine
  <2>4. Current = InLine(1)
        BY <2>1, AtHand
  <2>5. Current' = Current
        BY <1>5, <2>2, <2>3, <2>4
  <2> QED BY <2>1, <2>5 DEF BusInv, WaitsAlone, Coalescible
<1>12. QueuesAreSound'
      BY <1>6, QueuesKeep
<1> QED BY <1>7, <1>8, <1>9, <1>10, <1>11, <1>12 DEF BusInv

(* Nothing that the queues and the lock depend on changes.                 *)
LEMMA StillMoves ==
    ASSUME BusInv, busAccepting' \in BOOLEAN, subscribed' \subseteq Subs, closed' \subseteq Subs,
           UNCHANGED <<queue, lock, sending, offer, called, fate, taken>>
    PROVE  BusInv'
<1>1. /\ \A x, y : CalledBefore(x, y)' = CalledBefore(x, y)
      /\ \A i : InLine(i)' = InLine(i) /\ CalledMessages' = CalledMessages
      BY DEF CalledBefore, InLine, CalledMessages
<1>2. BusTypeOK'
      BY DEF BusInv, BusTypeOK
<1>3. Distinct' /\ LockIsFair' /\ FatesInTurn'
      BY <1>1 DEF BusInv, Distinct, LockIsFair, FatesInTurn
<1>4. WaitsAlone'
      BY DEF BusInv, WaitsAlone, Coalescible, Current, Holder
<1>5. QueuesAreSound'
      BY <1>1, QueuesKeep
<1> QED BY <1>2, <1>3, <1>4, <1>5 DEF BusInv

(* An offer meets a full queue and waits for room.                         *)
LEMMA WaitMoves ==
    ASSUME BusInv, NEW s \in Subs, offer[s] = "offered", Coalescible(s, Current) = {},
           offer' = [offer EXCEPT ![s] = "waiting"],
           UNCHANGED <<busAccepting, subscribed, closed, queue, lock, sending, called, fate, taken>>
    PROVE  BusInv'
<1>1. /\ \A x, y : CalledBefore(x, y)' = CalledBefore(x, y)
      /\ \A i : InLine(i)' = InLine(i) /\ CalledMessages' = CalledMessages
      BY DEF CalledBefore, InLine, CalledMessages
<1>2. offer'[s] = "waiting" /\ \A x \in Subs \ {s} : offer'[x] = offer[x]
      BY DEF BusInv, BusTypeOK
<1>3. BusTypeOK'
      BY DEF BusInv, BusTypeOK
<1>4. Distinct' /\ LockIsFair'
      BY <1>1 DEF BusInv, Distinct, LockIsFair
<1>5. FatesInTurn'
  <2>1. lock # <<>>
        BY AtHand
  <2>2. \A x \in Subs, i \in DOMAIN lock : fate[x][InLine(i)] # "none" => i = 1 /\ offer'[x] \in {"skipped", "reported"}
        BY <1>2 DEF BusInv, FatesInTurn
  <2> QED BY <1>1, <2>1, <2>2 DEF BusInv, FatesInTurn
<1>6. WaitsAlone'
      BY <1>2 DEF BusInv, WaitsAlone, Coalescible, Current, Holder
<1>7. QueuesAreSound'
      BY <1>1, QueuesKeep
<1> QED BY <1>3, <1>4, <1>5, <1>6, <1>7 DEF BusInv

LEMMA OfferKeeps ==
    ASSUME BusInv, NEW s \in Subs, Offer(s)
    PROVE  BusInv'
<1>1. CASE OfferClosed(s)
      BY <1>1, RefusalMoves DEF OfferClosed, DeliveryOutcome
<1>2. CASE OfferCoalesced(s)
      BY <1>2, CoalesceMoves DEF OfferCoalesced
<1>3. CASE OfferFull(s)
  <2>1. Policy[s] \in {"WAIT", "REJECT", "DROP", "COALESCE"}
        BY EventBusAssumption DEF EventBusAssumption
  <2>2. \/ Report(s, "DROPPED")
        \/ Report(s, "REJECTED")
        \/ offer' = [offer EXCEPT ![s] = "waiting"] /\ UNCHANGED fate
        BY <1>3, <2>1 DEF OfferFull
  <2>3. CASE Report(s, "DROPPED")
        BY <1>3, <2>3, RefusalMoves DEF OfferFull, DeliveryOutcome
  <2>4. CASE Report(s, "REJECTED")
        BY <1>3, <2>4, RefusalMoves DEF OfferFull, DeliveryOutcome
  <2>5. CASE offer' = [offer EXCEPT ![s] = "waiting"] /\ UNCHANGED fate
        BY <1>3, <2>5, WaitMoves DEF OfferFull
  <2> QED BY <2>2, <2>3, <2>4, <2>5
<1>4. CASE OfferEnqueued(s)
      BY <1>4, EnqueueMoves DEF OfferEnqueued
<1>5. CASE Resume(s)
  <2>1. CASE Report(s, "CLOSED") /\ UNCHANGED queue
        BY <1>5, <2>1, RefusalMoves DEF Resume, DeliveryOutcome
  <2>2. CASE ~ Full(s) /\ Enqueue(s)
    <3>1. Coalescible(s, Current) = {}
          BY <1>5 DEF Resume, BusInv, WaitsAlone
    <3> QED BY <1>5, <2>2, <3>1, EnqueueMoves DEF Resume
  <2> QED BY <1>5, <2>1, <2>2 DEF Resume
<1>6. CASE Timeout(s)
      BY <1>6, RefusalMoves DEF Timeout, DeliveryOutcome
<1> QED BY <1>1, <1>2, <1>3, <1>4, <1>5, <1>6 DEF Offer

LEMMA BusKeeps == BusInv /\ [BusNext]_busVars => BusInv'
<1> SUFFICES ASSUME BusInv, [BusNext]_busVars PROVE BusInv'
    OBVIOUS
<1>1. ASSUME NEW p \in Publishers, NEW m \in Outgoing[p], Publish(p, m) PROVE BusInv'
      BY <1>1, PublishMoves
<1>2. ASSUME NEW p \in Publishers, Cancel(p) PROVE BusInv'
  <2>1. PICK k \in DOMAIN lock : lock[k] = p /\ lock' = RemoveAt(lock, k)
        BY <1>2 DEF Cancel
  <2>2. PICK n \in Nat : n = Len(lock) /\ lock \in Seq(Publishers) /\ DOMAIN lock = 1..n
        BY DEF BusInv, BusTypeOK
  <2>3. /\ RemoveAt(lock, k) \in Seq(Publishers) /\ DOMAIN RemoveAt(lock, k) = 1..(n - 1)
        /\ \A j \in 1..(n - 1) : RemoveAt(lock, k)[j] = lock[After(k, j)]
        BY <2>2, RemoveAtIs
  <2>4. p = Holder <=> k = 1
    <3>1. 1 \in DOMAIN lock /\ Holder = lock[1]
      <4>1. lock # <<>>
            BY <2>2
      <4> QED BY <4>1, AtHead
    <3> QED BY <2>1, <3>1 DEF BusInv, Distinct
  <2>5. offer' = IF k = 1 THEN [s \in Subs |-> "none"] ELSE offer
        BY <1>2, <2>4 DEF Cancel
  <2>6. /\ sending' = [sending EXCEPT ![lock[k]] = NoBusMessage]
        /\ UNCHANGED <<busAccepting, subscribed, closed, queue, called, fate, taken>>
        BY <1>2, <2>1 DEF Cancel
  <2> QED BY <2>1, <2>2, <2>3, <2>5, <2>6, LeaveMoves
<1>3. CASE FanOut
      BY <1>3, FanOutMoves
<1>4. CASE Return
  <2>1. PICK n \in Nat : n = Len(lock) /\ lock \in Seq(Publishers) /\ DOMAIN lock = 1..n
        BY DEF BusInv, BusTypeOK
  <2>2. 1 \in DOMAIN lock /\ Holder = lock[1]
        BY <1>4, AtHead DEF Return
  <2>3. /\ lock' = Tail(lock) /\ lock # <<>> /\ offer' = [s \in Subs |-> "none"]
        /\ sending' = [sending EXCEPT ![lock[1]] = NoBusMessage]
        /\ UNCHANGED <<busAccepting, subscribed, closed, queue, called, fate, taken>>
        BY <1>4, <2>2 DEF Return
  <2>4. /\ lock' \in Seq(Publishers) /\ DOMAIN lock' = 1..(n - 1)
        /\ \A j \in 1..(n - 1) : lock'[j] = lock[After(1, j)]
        BY <2>1, <2>3 DEF After
  <2> QED BY <2>1, <2>2, <2>3, <2>4, LeaveMoves
<1>5. ASSUME NEW s \in Subs, Offer(s) PROVE BusInv'
      BY <1>5, OfferKeeps
<1>6. ASSUME NEW s \in Subs, Get(s) PROVE BusInv'
      BY <1>6, GetMoves
<1>7. ASSUME NEW s \in Subs, Unsubscribe(s) PROVE BusInv'
  <2>1. busAccepting' \in BOOLEAN /\ subscribed' \subseteq Subs /\ closed' \subseteq Subs
        BY <1>7 DEF Unsubscribe, BusInv, BusTypeOK
  <2> QED BY <1>7, <2>1, StillMoves DEF Unsubscribe
<1>8. CASE Quiesce
  <2>1. busAccepting' \in BOOLEAN /\ subscribed' \subseteq Subs /\ closed' \subseteq Subs
        BY <1>8 DEF Quiesce, BusInv, BusTypeOK
  <2> QED BY <1>8, <2>1, StillMoves DEF Quiesce
<1>9. CASE Stop
  <2>1. busAccepting' \in BOOLEAN /\ subscribed' \subseteq Subs /\ closed' \subseteq Subs
        BY <1>9 DEF Stop, BusInv, BusTypeOK
  <2> QED BY <1>9, <2>1, StillMoves DEF Stop
<1>10. CASE UNCHANGED busVars
  <2>1. busAccepting' \in BOOLEAN /\ subscribed' \subseteq Subs /\ closed' \subseteq Subs
        BY <1>10 DEF busVars, BusInv, BusTypeOK
  <2> QED BY <1>10, <2>1, StillMoves DEF busVars
<1> QED BY <1>1, <1>2, <1>3, <1>4, <1>5, <1>6, <1>7, <1>8, <1>9, <1>10 DEF BusNext

LEMMA BusStarts == BusInit => BusInv
<1> SUFFICES ASSUME BusInit PROVE BusInv
    OBVIOUS
<1>1. BusTypeOK
      BY DEF BusInit, BusTypeOK
<1>2. Distinct /\ LockIsFair /\ FatesInTurn /\ WaitsAlone
      BY DEF BusInit, Distinct, LockIsFair, FatesInTurn, WaitsAlone
<1>3. HoldsAccepted /\ QueueInOrder /\ AcceptedStays /\ LatestKept /\ SourceOrder
      BY DEF BusInit, HoldsAccepted, QueueInOrder, AcceptedStays, LatestKept, SourceOrder, Accepted
<1>4. Bounded
  <2>1. \A s \in Subs : Capacity[s] \in Nat
        BY EventBusAssumption DEF EventBusAssumption
  <2> QED BY <2>1 DEF BusInit, Bounded
<1> QED BY <1>1, <1>2, <1>3, <1>4 DEF BusInv, QueuesAreSound

(* The report is the truth: what was accepted is there or gave way, what   *)
(* was not accepted is not there.                                          *)
LEMMA BusInvIsSound == BusInv => BusIsSound
<1> SUFFICES ASSUME BusInv PROVE BusIsSound
    OBVIOUS
<1>1. ASSUME NEW s \in Subs, NEW m \in BusMessages, m \in Waiting(s) \cup ToSet(taken[s])
      PROVE  Accepted(s, m)
      BY <1>1 DEF BusInv, QueuesAreSound, HoldsAccepted, Waiting, ToSet
<1>2. HonestReport
      BY <1>1 DEF BusInv, QueuesAreSound, AcceptedStays, HonestReport, Accepted
<1> QED BY <1>2 DEF BusInv, QueuesAreSound, BusIsSound

(* Whoever publishes, whatever is cancelled, closed or full: the queues    *)
(* keep their bounds, the order of every source and the latest message of  *)
(* every key, and publish() reports the truth (events/bus.py).             *)
THEOREM BusStaysSound == BusSpec => []BusIsSound
<1>1. BusSpec => []BusInv
      BY BusStarts, BusKeeps, PTL DEF BusSpec
<1> QED BY <1>1, BusInvIsSound, PTL

(* No offer gets into a closed queue, not even one that waited for room    *)
(* when it was closed (events/subscription.py).                            *)
THEOREM ClosedQueuesTakeNothing == BusSpec => ClosedTakesNothing
<1>1. BusSpec => []BusInv
      BY BusStarts, BusKeeps, PTL DEF BusSpec
<1>2. BusInv /\ [BusNext]_busVars => [\A s \in closed : Len(queue'[s]) <= Len(queue[s])]_busVars
  <2> SUFFICES ASSUME BusInv, BusNext, NEW s \in closed PROVE Len(queue'[s]) <= Len(queue[s])
      OBVIOUS
  <2>1. PICK n \in Nat : n = Len(queue[s]) /\ s \in Subs /\ queue[s] \in Seq(Entry) /\ DOMAIN queue[s] = 1..n
    <3>1. s \in Subs /\ queue[s] \in Seq(Entry)
          BY DEF BusInv, BusTypeOK
    <3> QED BY <3>1
  <2>2. SUFFICES ASSUME queue'[s] # queue[s] PROVE Len(queue'[s]) <= Len(queue[s])
        BY <2>1
  <2>3. ASSUME NEW x \in Subs, OfferCoalesced(x) PROVE Len(queue'[s]) <= Len(queue[s])
    <3>1. PICK i \in DOMAIN queue[x] : queue' = [queue EXCEPT ![x][i].msg = Current]
          BY <2>3 DEF OfferCoalesced, Coalescible
    <3>2. queue'[s] = queue[s] \/ queue'[s] = [queue[s] EXCEPT ![i].msg = Current]
          BY <2>1, <3>1 DEF BusInv, BusTypeOK
    <3>3. Len([queue[s] EXCEPT ![i].msg = Current]) = n
          BY <2>1
    <3> QED BY <2>1, <3>2, <3>3
  <2>4. ASSUME NEW x \in Subs, Get(x) PROVE Len(queue'[s]) <= Len(queue[s])
    <3>1. x = s
          BY <2>1, <2>2, <2>4 DEF Get, BusInv, BusTypeOK
    <3>2. NextEntry(s) \in DOMAIN queue[s]
          BY <2>4, <3>1, NextIsFirst DEF Get, FirstOfSource, BusInv
    <3>3. queue'[s] = RemoveAt(queue[s], NextEntry(s))
          BY <2>1, <2>4, <3>1 DEF Get, BusInv, BusTypeOK
    <3>4. Len(RemoveAt(queue[s], NextEntry(s))) = n - 1
          BY <2>1, <3>2, RemoveAtIs
    <3> QED BY <2>1, <3>3, <3>4
  <2>5. ASSUME NEW x \in Subs, OfferEnqueued(x) \/ Resume(x) PROVE FALSE
    <3>1. x \notin closed \/ UNCHANGED queue
          BY <2>5 DEF OfferEnqueued, Resume
    <3>2. x # s
          BY <2>2, <3>1
    <3> QED BY <2>1, <2>2, <2>5, <3>2 DEF OfferEnqueued, Resume, Enqueue, BusInv, BusTypeOK
  <2>6. ASSUME NEW x \in Subs, OfferClosed(x) \/ OfferFull(x) \/ Timeout(x) \/ Unsubscribe(x) PROVE FALSE
        BY <2>2, <2>6 DEF OfferClosed, OfferFull, Timeout, Unsubscribe
  <2>7. ASSUME FanOut \/ Return \/ Quiesce \/ Stop PROVE FALSE
        BY <2>2, <2>7 DEF FanOut, Return, Quiesce, Stop
  <2>8. ASSUME NEW p \in Publishers, Cancel(p) \/ \E m \in Outgoing[p] : Publish(p, m) PROVE FALSE
        BY <2>2, <2>8 DEF Cancel, Publish
  <2> QED BY <2>3, <2>4, <2>5, <2>6, <2>7, <2>8 DEF BusNext, Offer
<1> QED BY <1>1, <1>2, PTL DEF BusSpec, ClosedTakesNothing
=============================================================================
