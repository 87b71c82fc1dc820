------------------------------ MODULE FactorLoop -------------------------------
(***************************************************************************)
(* The factor discovery loop (factor_loop.py) and the application that     *)
(* runs its rounds (factor_loop_app.py): facts and checkpoint row change   *)
(* in one transaction, the pointer file is replaced afterwards.            *)
(*                                                                         *)
(* One call runs at a time, as in the command line.  A call is             *)
(*   pc    "load"     in initialize(): row, facts and pointer are read;    *)
(*         "create", "heal"  before the pointer write of initialize();     *)
(*         "act"      before the transaction of the operation;             *)
(*         "publish"  before the pointer write that follows it;            *)
(*         "announce" before the hooks;                                    *)
(*   row   the checkpoint it has in hand.                                  *)
(* The pointer is written by a thread: a cancelled call leaves its write   *)
(* behind, and it lands at any later time.                                 *)
(***************************************************************************)
EXTENDS SearchGovernor

-----------------------------------------------------------------------------
(* One round of the factor search without its storage: hard gate           *)
(* (factor_review.py), frequent-subtree avoidance (factor_fsa.py), budgeted *)
(* backtests (factor_loop_app.py) and the steering of the next round        *)
(* (module SearchGovernor).                                                *)
(*                                                                         *)
(* A candidate is a chain of operators over a field,                       *)
(*   [ops |-> sequence of [op, window], field |-> field], root first.      *)
(* Its hash is the candidate itself.                                       *)

CONSTANTS
    Universe,          \* the trees that the vocabulary allows
    Idempotent,        \* the operators that are idempotent
    MaxDepth,          \* max_depth and max_operator_nodes of the gate
    MaxLookback,       \* max_window of the backtest
    MaxBacktests,      \* max_backtests_per_round
    PoolCapacity,
    WindowRounds, ShareThreshold, MinAcceptRate, MaxVariants,
    MinObservations, ReleaseShare, ReleaseRounds,           \* FsaPolicy
    Stagnation, MaxStep                                     \* ExplorationPolicy

ASSUME FactorSearchAssumption ==
    /\ \A t \in Universe : t.ops \in Seq([op : STRING, window : Nat])
    /\ {MaxDepth, MaxBacktests, PoolCapacity, WindowRounds, MaxVariants, MinObservations,
        ReleaseRounds, Stagnation, MaxStep} \subseteq Nat \ {0}
    /\ MaxLookback \in Nat
    /\ ShareThreshold \in 1..100 /\ MinAcceptRate \in 0..100
    /\ ReleaseShare \in 0..(ShareThreshold - 1)
    /\ ReleaseRounds <= WindowRounds

-----------------------------------------------------------------------------
(* The hard gate *)

\* The same operator twice in a row says nothing new
RedundantIdentity(t) ==
    \E i \in 1..(Len(t.ops) - 1) :
        /\ t.ops[i].op = t.ops[i + 1].op
        /\ t.ops[i].window = t.ops[i + 1].window \/ t.ops[i].op \in Idempotent

ReviewPasses(t, known) ==
    /\ ~RedundantIdentity(t)
    /\ Len(t.ops) <= MaxDepth
    /\ t \notin known

\* The places of a batch that pass, a repeated candidate counts once
ReviewBatch(batch, known) ==
    {i \in DOMAIN batch : /\ \A j \in 1..(i - 1) : batch[j] # batch[i]
                          /\ ReviewPasses(batch[i], known)}

Lookback(t) ==
    FoldLeft(LAMBDA sum, o : sum + (IF o.op = "ts_delta" THEN o.window ELSE o.window - 1), 0, t.ops)

-----------------------------------------------------------------------------
(* Frequent-subtree avoidance: fsa is [window, round, active, streak,      *)
(* history], where window holds the last rounds as [batch, accepted] and   *)
(* history all bans as [skeleton, since, until].                           *)

Skeletons(t) ==
    {[j \in 1..(Len(t.ops) - i + 1) |-> t.ops[i + j - 1].op] : i \in DOMAIN t.ops}
Skeleton(t) == [j \in DOMAIN t.ops |-> t.ops[j].op]
Variant(t) == [j \in DOMAIN t.ops |-> t.ops[j].window]

Counted(round, s) == {i \in DOMAIN round.batch : s \in Skeletons(round.batch[i])}
Count(round, s) == Cardinality(Counted(round, s))
Nodes(round) == Cardinality(UNION {{i} \X DOMAIN round.batch[i].ops : i \in DOMAIN round.batch})
Observed(window, s) == FoldLeft(LAMBDA n, r : n + Count(r, s), 0, window)
Accepts(window, s) ==
    FoldLeft(LAMBDA n, r : n + Cardinality({i \in Counted(r, s) : r.batch[i] \in r.accepted}), 0, window)
Observations(window) == FoldLeft(LAMBDA n, r : n + Nodes(r), 0, window)
SeenSkeletons(window) ==
    UNION {UNION {Skeletons(r.batch[i]) : i \in DOMAIN r.batch} : r \in Range(window)}
SeenVariants(window, s) ==
    UNION {{Variant(r.batch[i]) : i \in Counted(r, s)} : r \in Range(window)}

NewFsa == [window |-> <<>>, round |-> 0, active |-> {}, streak |-> [s \in {} |-> 0], history |-> {}]

(* A banned skeleton anywhere in the tree stops it, and so does one more   *)
(* variant of a root that has its share of variants.                       *)
Allows(fsa, t) ==
    /\ Skeletons(t) \cap fsa.active = {}
    /\ LET seen == SeenVariants(fsa.window, Skeleton(t))
       IN  seen = {} \/ Variant(t) \in seen \/ Cardinality(seen) < MaxVariants

Valued(window, s) ==
    LET n == Observed(window, s)
    IN  IF n = 0 THEN MinAcceptRate = 0 ELSE Accepts(window, s) * 100 >= MinAcceptRate * n

ToBan(fsa, window) ==
    {s \in SeenSkeletons(window) \ fsa.active :
        /\ Observations(window) >= MinObservations
        /\ Observed(window, s) * 100 >= ShareThreshold * Observations(window)
        /\ ~Valued(window, s)}

\* The share of s in a round is below the release share
Faded(round, s) ==
    IF Nodes(round) = 0 THEN ReleaseShare > 0
    ELSE Count(round, s) * 100 < ReleaseShare * Nodes(round)

Retired(history, released, round) ==
    {IF ban.skeleton \in released /\ ban.until = 0 THEN [ban EXCEPT !.until = round] ELSE ban :
        ban \in history}

Released(window, active, streak) ==
    {s \in active : Valued(window, s) \/ streak[s] >= ReleaseRounds}

ObserveFsa(fsa, batch, accepted) ==
    LET all == Append(fsa.window, [batch |-> batch, accepted |-> accepted])
        window == IF Len(all) > WindowRounds THEN Tail(all) ELSE all
        round == fsa.round + 1
        banned == ToBan(fsa, window)
        active == fsa.active \cup banned
        before(s) == IF s \in banned \/ s \notin DOMAIN fsa.streak THEN 0 ELSE fsa.streak[s]
        streak == [s \in active \cup DOMAIN fsa.streak |->
                      IF s \notin active THEN fsa.streak[s]
                      ELSE IF Faded(Last(window), s) THEN before(s) + 1 ELSE 0]
        released == Released(window, active, streak)
        bans == {[skeleton |-> s, since |-> round, until |-> 0] : s \in banned}
    IN  [window |-> window, round |-> round, active |-> active \ released, streak |-> streak,
         history |-> Retired(fsa.history \cup bans, released, round)]

-----------------------------------------------------------------------------
(* The search and its governor.  The weights of the strategies are left to  *)
(* SearchGovernor: a batch here is any batch they allow.                    *)

SearchPolicy == [DefaultPolicy EXCEPT !.stagnation = Stagnation, !.maxStep = MaxStep]

AddParent(pool, t) ==
    IF t \in Range(pool) THEN pool
    ELSE IF Len(pool) = PoolCapacity THEN Tail(Append(pool, t)) ELSE Append(pool, t)

-----------------------------------------------------------------------------
(* What an application keeps in memory from round to round, and a round.   *)
NewMemory == [search |-> NewSteer(SearchPolicy), fsa |-> NewFsa, pool |-> <<>>]

\* The candidates of a batch that are backtested
Backtested(memory, batch, known) ==
    LET survivors == {i \in ReviewBatch(batch, known) : 
                         /\ batch[i] \notin known
                         /\ Lookback(batch[i]) <= MaxLookback
                         /\ Allows(memory.fsa, batch[i])}
    IN  {batch[i] : i \in {j \in survivors :
            Cardinality({k \in survivors : k < j}) < MaxBacktests}}

RoundOf(memory, batch, known, tested, accepted) ==
    LET places(trees) == Cardinality({i \in DOMAIN batch : batch[i] \in trees})
    IN  [search |-> Steered(SearchPolicy, memory.search, Len(batch), DuplicatesOf(batch, Range(memory.pool) \cup known),
                            places(tested), places(accepted)),
         fsa |-> ObserveFsa(memory.fsa, batch, accepted),
         pool |-> FoldLeft(AddParent, memory.pool,
                           SelectSeq(batch, LAMBDA t : t \in accepted))]

-----------------------------------------------------------------------------
CONSTANTS
    Batches,          \* the batches that generation may return
    MaxIterations, MaxFailures,   \* of the profile
    MaxRounds,        \* bound: rounds of one process
    MaxCount,         \* bound: iterations of the database
    MaxFaults         \* bound: crashes, cancellations and damages

ASSUME FactorLoopAssumption ==
    /\ Batches \subseteq Seq(Universe)
    /\ {MaxIterations, MaxFailures} \subseteq Nat \ {0}
    /\ {MaxRounds, MaxCount, MaxFaults} \subseteq Nat

VARIABLES
    row,          \* discovery_loop_checkpoint, with the digests
    candidates,   \* factor_candidate
    factors,      \* factor_library
    pointer,      \* the checkpoint file
    late,         \* pointer writes of cancelled calls, still under way
    memory,       \* the search of the running process, or "down"
    snapshot,     \* _search_state of its loop: rounds of a search, or -1
    heard,        \* what the hooks of the process were told last
    call,
    causes,       \* history: what may justify a review
    faults

loopVars == <<row, candidates, factors, pointer, late, memory, snapshot, heard, call, causes, faults>>

Statuses == {"RUNNING", "PAUSED", "COMPLETED", "TERMINATED", "REQUIRES_REVIEW"}

\* The clock of the application stands still, so the digest knows no times
StateDigest(it, status, failures, soon) == <<it, status, failures, soon>>
FactsDigest == <<candidates, factors>>
Checkpoint(it, status, failures, soon, facts) ==
    [it |-> it, status |-> status, failures |-> failures, soon |-> soon,
     digest |-> StateDigest(it, status, failures, soon), facts |-> facts]
Payload(r, search) ==
    [kind |-> "ok", it |-> r.it, digest |-> r.digest, facts |-> r.facts, search |-> search]

NoRow == [status |-> "NONE", it |-> 0]
Missing == [kind |-> "missing"]
Corrupt == [kind |-> "corrupt"]
NoCall == [pc |-> "idle"]

Init ==
    /\ row = NoRow
    /\ candidates = {}
    /\ factors = {}
    /\ pointer = Missing
    /\ late = {}
    /\ memory = <<>>
    /\ snapshot = -1
    /\ heard = {}
    /\ call = NoCall
    /\ causes = {}
    /\ faults = 0

Readable(p) == p.kind = "ok"

-----------------------------------------------------------------------------
(* A process and its calls *)

(* A new process starts a new search; nothing restores the snapshot.       *)
StartProcess ==
    /\ memory = <<>>
    /\ memory' = <<NewMemory>>
    /\ UNCHANGED <<row, candidates, factors, pointer, late, snapshot, heard, call, causes, faults>>

MemoryIsLost ==
    /\ memory' = <<>>
    /\ snapshot' = -1
    /\ heard' = {}

Exit ==
    /\ memory # <<>>
    /\ call = NoCall
    /\ late = {}
    /\ MemoryIsLost
    /\ UNCHANGED <<row, candidates, factors, pointer, late, call, causes, faults>>

Called(op, ok, tested, accepted, search) ==
    [pc |-> "load", op |-> op, ok |-> ok, tested |-> tested, accepted |-> accepted,
     search |-> search, row |-> NoRow]

(* A faulty loop: it looks the hashes up under another algorithm version. *)
OtherHashes == {}

TestedHashes == candidates

(* A round is searched in memory; then commit_iteration() is called.       *)
Round ==
    /\ memory # <<>>
    /\ call = NoCall
    /\ memory[1].search.rounds < MaxRounds
    /\ row.it < MaxCount
    /\ \E batch \in Batches :
         LET tested == Backtested(memory[1], batch, TestedHashes)
         IN  \E accepted \in SUBSET tested :
               /\ memory' = <<RoundOf(memory[1], batch, TestedHashes, tested, accepted)>>
               /\ call' = Called("commit", TRUE, tested, accepted, memory'[1].search.rounds)
    /\ UNCHANGED <<row, candidates, factors, pointer, late, snapshot, heard, causes, faults>>

Operate(op, ok) ==
    /\ memory # <<>>
    /\ call = NoCall
    /\ op = "iterate" => row.it < MaxCount \/ row.it >= MaxIterations
    /\ call' = Called(op, ok, {}, {}, -1)
    /\ UNCHANGED <<row, candidates, factors, pointer, late, memory, snapshot, heard, causes, faults>>

-----------------------------------------------------------------------------
(* initialize() *)

PointerProblem(p, r) ==
    /\ p.it >= r.it
    /\ \/ p.it # r.it
       \/ p.digest # r.digest
       \/ p.facts # r.facts

\* The first call creates the row; its pointer write and hook follow
CreateRow ==
    /\ row = NoRow
    /\ row' = Checkpoint(0, "RUNNING", 0, TRUE, FactsDigest)
    /\ call' = [call EXCEPT !.pc = "create", !.row = row']
    /\ UNCHANGED snapshot

\* Facts or pointer disagree with the row: review, the evidence stays
MarkReview ==
    /\ row # NoRow
    /\ \/ row.facts # FactsDigest
       \/ pointer = Corrupt
       \/ Readable(pointer) /\ PointerProblem(pointer, row)
    /\ row' = [row EXCEPT !.status = "REQUIRES_REVIEW"]
    /\ call' = [call EXCEPT !.pc = "act", !.row = row']
    /\ snapshot' = IF row.facts = FactsDigest /\ Readable(pointer) /\ pointer.search # -1
                   THEN pointer.search ELSE snapshot

Consistent ==
    /\ row # NoRow
    /\ row.facts = FactsDigest
    /\ pointer # Corrupt
    /\ Readable(pointer) => ~PointerProblem(pointer, row)
    /\ call' = [call EXCEPT !.pc = "heal", !.row = row]
    /\ snapshot' = IF Readable(pointer) /\ pointer.search # -1 THEN pointer.search ELSE snapshot
    /\ UNCHANGED row

Load ==
    /\ call.pc = "load"
    /\ call.op # "reconcile" \/ row = NoRow
    /\ CreateRow \/ MarkReview \/ Consistent
    /\ UNCHANGED <<candidates, factors, pointer, late, memory, heard, causes, faults>>

\* reconcile() does not initialize when there is a row
LoadForReconcile ==
    /\ call.pc = "load"
    /\ call.op = "reconcile"
    /\ row # NoRow
    /\ call' = [call EXCEPT !.pc = "act", !.row = row]
    /\ UNCHANGED <<row, candidates, factors, pointer, late, memory, snapshot, heard, causes, faults>>

WritePointer ==
    /\ call.pc \in {"create", "heal", "publish"}
    /\ pointer' = Payload(call.row, snapshot)
    /\ call' = [call EXCEPT !.pc = IF call.pc = "publish" THEN "announce" ELSE "act"]
    /\ heard' = IF call.pc = "create" THEN {<<"checkpoint", 0>>} ELSE heard
    /\ UNCHANGED <<row, candidates, factors, late, memory, snapshot, causes, faults>>

-----------------------------------------------------------------------------
(* The operations, once they know the current checkpoint *)

\* One row written by _commit()
Commit(it, status, failures, soon) ==
    /\ row' = Checkpoint(it, status, failures, soon, call.row.facts)
    /\ call' = [call EXCEPT !.pc = "publish", !.row = row']
    /\ UNCHANGED <<candidates, factors, snapshot>>

Exhausted(failures) == failures >= MaxFailures

(* A faulty loop: it goes on as if a transaction that rolled back had not. *)
CommitIterationLost ==
    /\ call.op = "commit"
    /\ call' = [call EXCEPT !.pc = "publish",
                            !.row = Checkpoint(call.row.it + 1, "RUNNING", 0, FALSE, call.row.facts)]
    /\ UNCHANGED <<row, candidates, factors, snapshot>>

(* commit_iteration(): facts and checkpoint in one transaction.  Its one   *)
(* caller reports success.                                                 *)
CommitIteration ==
    /\ call.op = "commit"
    /\ candidates' = candidates \cup call.tested
    /\ factors' = factors \cup call.accepted
    /\ snapshot' = call.search
    /\ LET failures == IF call.ok THEN 0 ELSE call.row.failures + 1
           it == call.row.it + 1
           status == IF Exhausted(failures) THEN "REQUIRES_REVIEW"
                     ELSE IF it >= MaxIterations THEN "COMPLETED" ELSE "RUNNING"
       IN  row' = Checkpoint(it, status, failures, FALSE, <<candidates', factors'>>)
    /\ call' = [call EXCEPT !.pc = "publish", !.row = row']

(* iterate(): without facts; the last iteration completes the loop.        *)
Iterate ==
    /\ call.op = "iterate"
    /\ LET failures == IF call.ok THEN 0 ELSE call.row.failures + 1
           it == call.row.it + 1
       IN  IF call.row.it >= MaxIterations
           THEN Commit(call.row.it, "COMPLETED", call.row.failures, call.row.soon)
           ELSE Commit(it, IF ~call.ok /\ Exhausted(failures) THEN "REQUIRES_REVIEW"
                           ELSE IF call.ok /\ it >= MaxIterations THEN "COMPLETED" ELSE "RUNNING",
                       failures, FALSE)

Pause == call.op = "pause" /\ Commit(call.row.it, "PAUSED", call.row.failures, call.row.soon)
Resume == call.op = "resume" /\ Commit(call.row.it, "RUNNING", call.row.failures, TRUE)
Terminate == call.op = "terminate" /\ Commit(call.row.it, "TERMINATED", call.row.failures, call.row.soon)

\* The facts are authoritative; only the status and their digest change
Reconcile ==
    /\ call.op = "reconcile"
    /\ row' = [call.row EXCEPT !.status = "RUNNING", !.facts = FactsDigest]
    /\ call' = [call EXCEPT !.pc = "publish", !.row = row']
    /\ UNCHANGED <<candidates, factors, snapshot>>

(* A faulty loop: a paused loop still commits. *)
TakesPaused(op) ==
    IF op = "reconcile" THEN {"REQUIRES_REVIEW"} ELSE {"RUNNING", "PAUSED"}

\* The status each operation asks for
Takes(op) ==
    CASE op \in {"commit", "iterate", "pause"} -> {"RUNNING"}
      [] op = "resume" -> {"PAUSED"}
      [] op = "terminate" -> {"RUNNING", "PAUSED"}
      [] op = "reconcile" -> {"REQUIRES_REVIEW"}
      [] OTHER -> {}

Act ==
    /\ call.pc = "act"
    /\ call.row.status \in Takes(call.op)
    /\ CommitIteration \/ Iterate \/ Pause \/ Resume \/ Terminate \/ Reconcile
    /\ UNCHANGED <<pointer, late, memory, heard, causes, faults>>

NothingToDo ==
    /\ call.pc = "act"
    /\ call.row.status \notin Takes(call.op)
    /\ call' = NoCall
    /\ UNCHANGED <<row, candidates, factors, pointer, late, memory, snapshot, heard, causes, faults>>

\* reconcile() publishes no event; the others one per checkpoint at least
Announced ==
    LET r == call.row
        ended == IF call.ok THEN "completed" ELSE "failed"
    IN  IF call.op = "reconcile" THEN {}
        ELSE {<<"checkpoint", r.it>>}
             \cup (IF call.op \in {"commit", "iterate"} THEN {<<ended, r.it>>} ELSE {})
             \cup (IF call.op = "iterate" /\ r.status = "REQUIRES_REVIEW" THEN {<<"stalled", r.it>>} ELSE {})

Announce ==
    /\ call.pc = "announce"
    /\ heard' = Announced
    /\ call' = NoCall
    /\ UNCHANGED <<row, candidates, factors, pointer, late, memory, snapshot, causes, faults>>

-----------------------------------------------------------------------------
(* Faults *)

\* A write that keeps the iteration makes the older pointer a stranger
Steering == {"pause", "resume", "terminate", "iterate"}

Crash ==
    /\ memory # <<>>
    /\ faults < MaxFaults
    /\ faults' = faults + 1
    /\ MemoryIsLost
    /\ call' = NoCall
    /\ late' = {}
    /\ causes' = IF call.pc = "publish" /\ call.op \in Steering /\ Readable(pointer) /\ pointer.it = row.it
                 THEN causes \cup {"steering"} ELSE causes
    /\ UNCHANGED <<row, candidates, factors, pointer>>

\* The caller is cancelled; a pointer write that has begun goes on
Cancel ==
    /\ call.pc # "idle"
    /\ faults < MaxFaults
    /\ faults' = faults + 1
    /\ call' = NoCall
    /\ IF call.pc \in {"create", "heal", "publish"}
       THEN late' = late \cup {Payload(call.row, snapshot)} /\ causes' = causes \cup {"late"}
       ELSE UNCHANGED <<late, causes>>
    /\ UNCHANGED <<row, candidates, factors, pointer, memory, snapshot, heard>>

LateWrite ==
    \E p \in late :
        /\ pointer' = p
        /\ late' = late \ {p}
        /\ UNCHANGED <<row, candidates, factors, memory, snapshot, heard, call, causes, faults>>

\* Somebody deletes a fact, or the pointer file is damaged
Damage ==
    /\ faults < MaxFaults
    /\ faults' = faults + 1
    /\ \/ /\ \E c \in candidates : candidates' = candidates \ {c}
          /\ UNCHANGED pointer
       \/ /\ pointer' = Corrupt
          /\ UNCHANGED candidates
    /\ causes' = causes \cup {"damage"}
    /\ UNCHANGED <<row, factors, late, memory, snapshot, heard, call>>

-----------------------------------------------------------------------------
Operations == {"initialize", "pause", "resume", "terminate", "reconcile"}

Next ==
    \/ StartProcess \/ Exit \/ Round
    \/ \E op \in Operations : Operate(op, TRUE)
    \/ \E ok \in BOOLEAN : Operate("iterate", ok)
    \/ Load \/ LoadForReconcile \/ WritePointer \/ Act \/ NothingToDo \/ Announce
    \/ Crash \/ Cancel \/ LateWrite \/ Damage

Spec == Init /\ [][Next]_loopVars

-----------------------------------------------------------------------------
(* Nobody outside is ahead of the database: the pointer file and the hooks *)
(* name only iterations that are committed, whatever was interrupted.      *)
NobodyIsAhead ==
    /\ Readable(pointer) => pointer.it <= row.it
    /\ \A p \in late : p.it <= row.it
    /\ \A h \in heard : h[2] <= row.it

(* The loop stops for a review only with a reason: failures in a row, a    *)
(* damage, a late pointer, or a crash between a pause, resume, terminate   *)
(* and its pointer.  A crash inside an iteration is never one.             *)
ReviewIsJustified ==
    row.status = "REQUIRES_REVIEW" => row.failures >= MaxFailures \/ causes # {}

\* A round has used the skeleton so often that a ban would stay
Frequent(round, s) == Count(round, s) * 100 >= ReleaseShare * Max({1, Nodes(round)})

(* A ban outlives its skeleton by ReleaseRounds rounds at most, and the    *)
(* active bans are those of the history that nothing has lifted.           *)
BansFade ==
    memory # <<>> =>
        LET fsa == memory[1].fsa
            rounds == Len(fsa.window)
            open == {ban \in fsa.history : ban.until = 0}
        IN  /\ fsa.active = {ban.skeleton : ban \in open}
            /\ \A ban \in open :
                 \/ fsa.round - ban.since < ReleaseRounds
                 \/ \E k \in 0..(ReleaseRounds - 1) : Frequent(fsa.window[rounds - k], ban.skeleton)

(* Pointer, hooks, reviews and bans say no more than the database.         *)
LoopIsSound == NobodyIsAhead /\ ReviewIsJustified /\ BansFade

(* A candidate whose test is committed is not backtested again, across     *)
(* processes, crashes and healed pointers.                                 *)
TestedOnce ==
    [][call'.pc = "load" /\ call.pc = "idle" => call'.tested \cap candidates = {}]_loopVars

(* The database alone implements the log of iterations.                    *)
Log == INSTANCE IterationLog WITH
    count <- row.it, facts <- candidates, phase <- row.status
ImplementsLog == Log!Spec
=============================================================================
