-------------------------------- MODULE Database --------------------------------
(***************************************************************************)
(* The database of the platform (storage/database.py): one connection per  *)
(* process, used under an asyncio lock; each call of sqlite3 runs in a     *)
(* thread of the executor, which a cancelled task no longer waits for.     *)
(* Two processes share one file, and each brings its schema up to date.    *)
(* A unit is what runs inside transaction(); a migration is a unit whose   *)
(* last statement records its version.  A statement is <<unit, number>>.   *)
(***************************************************************************)
EXTENDS Naturals, FiniteSets, Sequences, SequencesExt

CONSTANTS
    Deployments,       \* sets of tasks that processes run: caller -> [home, kind]
    Migrations,        \* the versions that exist, in their order
    KnownMigrations,   \* process -> how many of them its code knows
    Statements,        \* unit or version -> the number of its statements
    MaxInterruptions, MaxKills    \* bounds: cancellations, and ends of a process

(* The versions are unique (SQLiteDatabase.__init__), the last statement   *)
(* of each records it, and a process initialises its database once.        *)
ASSUME DatabaseAssumption ==
    /\ {MaxInterruptions, MaxKills} \subseteq Nat
    /\ Migrations \in Seq(Range(Migrations)) /\ IsInjective(Migrations)
    /\ \A p \in DOMAIN KnownMigrations : KnownMigrations[p] \in 0..Len(Migrations)
    /\ \A name \in Range(Migrations) : Statements[name] \in Nat \ {0}
    /\ \A d \in Deployments :
          /\ d \in [DOMAIN d -> [home : DOMAIN KnownMigrations, kind : {"initialize", "unit", "query", "close"}]]
          /\ \A t \in DOMAIN d : t \notin Range(Migrations) /\ (d[t].kind = "unit" => Statements[t] \in Nat)
          /\ \A t, u \in DOMAIN d : d[t].kind = "initialize" /\ d[u] = d[t] => t = u

VARIABLES
    callers,           \* the deployment of this behaviour
    stored,            \* the statements whose effects are in the file
    connections,       \* process -> [state, pending]: pending are those of the open transaction
    usable,            \* the processes whose _connection is set
    lockQueue,         \* process -> who waits for its lock, the holder first
    doing,             \* caller -> [pc, at, todo, now, hit, saw]: the versions to do, the one at hand
    threads,           \* the calls of sqlite3 under way: [by, kind, what, awaited]
    interruptions, kills,
    overtaken,         \* history: the statements whose caller was cancelled while they ran
    abandoned          \* history: the processes that left a begin, commit or rollback to itself

databaseVars == <<callers, stored, connections, usable, lockQueue, doing, threads, interruptions, kills, overtaken, abandoned>>

Processes == DOMAIN KnownMigrations
Home(t) == callers[t].home
Resting == [pc |-> "idle", at |-> 0, todo |-> {}, now |-> 0, hit |-> FALSE, saw |-> {}]
Ended == {"done", "raised"}
Closing == [state |-> "closed", pending |-> {}]
Known(p) == 1..KnownMigrations[p]
UnitOf(name) == {<<name, k>> : k \in 1..Statements[name]}
Recorded(name) == <<name, Statements[name]>>
\* The unit that a caller is in
AtHand(t) == IF callers[t].kind = "initialize" THEN Migrations[doing[t].now] ELSE t

DatabaseInit ==
    /\ callers \in Deployments
    /\ stored = {} /\ threads = {} /\ usable = {} /\ overtaken = {} /\ abandoned = {}
    /\ connections = [p \in Processes |-> Closing]
    /\ lockQueue = [p \in Processes |-> <<>>]
    /\ doing = [t \in DOMAIN callers |-> Resting]
    /\ interruptions = 0 /\ kills = 0

Call(t, kind, what) == [by |-> t, kind |-> kind, what |-> what, awaited |-> TRUE]
\* What the calls become that t no longer waits for: a thread that runs goes on
Forsaken(t) == {[o EXCEPT !.awaited = FALSE] : o \in {q \in threads : q.by = t /\ q.awaited}}
Kept(t) == {o \in threads : ~ (o.by = t /\ o.awaited)}

\* From here t waits for a call, the others being as in rest
Awaits(t, rest, kind, what, state) ==
    /\ doing' = [doing EXCEPT ![t] = [state EXCEPT !.pc = kind]]
    /\ threads' = rest \cup {Call(t, kind, what)}
    /\ UNCHANGED lockQueue

\* The caller returns or raises, and the next one has the lock
Leaves(t, rest, how, state) ==
    /\ doing' = [doing EXCEPT ![t] = [state EXCEPT !.pc = how]]
    /\ \E i \in DOMAIN lockQueue[Home(t)] :
          lockQueue[Home(t)][i] = t /\ lockQueue' = [lockQueue EXCEPT ![Home(t)] = RemoveAt(@, i)]
    /\ threads' = rest

\* The programs await initialize() before they give the database to anyone
Initialized(p) == \A t \in DOMAIN callers : Home(t) = p /\ callers[t].kind = "initialize" => doing[t].pc \in Ended

WaitForLock(t) ==
    /\ doing[t].pc = "idle"
    /\ callers[t].kind = "initialize" \/ Initialized(Home(t))
    /\ doing' = [doing EXCEPT ![t].pc = "queued"]
    /\ lockQueue' = [lockQueue EXCEPT ![Home(t)] = Append(@, t)]
    /\ UNCHANGED <<stored, connections, usable, threads, interruptions, kills, overtaken, abandoned>>

(* The caller has the lock: initialize() refuses a second connection and   *)
(* opens one, transaction() and the queries require it, close() gives it   *)
(* up before it is closed.                                                 *)
Acquire(t) ==
    LET p == Home(t)
        kind == callers[t].kind
        open == p \in usable
    IN  /\ doing[t].pc = "queued" /\ Head(lockQueue[p]) = t
        /\ \/ /\ kind # "close" /\ open = (kind = "initialize")
              /\ Leaves(t, threads, "raised", doing[t])
           \/ /\ kind = "close" /\ ~ open
              /\ Leaves(t, threads, "done", doing[t])
           \/ /\ kind \in {"close", "query", "unit"} /\ open
              /\ Awaits(t, threads, CASE kind = "unit" -> "begin" [] kind = "query" -> "select" [] OTHER -> "close",
                        t, doing[t])
           \/ /\ kind = "initialize" /\ ~ open
              /\ Awaits(t, threads, "versions", t, doing[t])
        /\ connections' = IF kind = "initialize" /\ ~ open
                          THEN [connections EXCEPT ![p] = [state |-> "idle", pending |-> {}]] ELSE connections
        /\ usable' = IF kind = "close" THEN usable \ {p} ELSE usable
        /\ UNCHANGED <<stored, interruptions, kills, overtaken, abandoned>>

----------------------------------------------------------------------------
(* The thread of a call: what sqlite3 does.                                *)

\* BEGIN IMMEDIATE and a statement outside a transaction wait for the writer of another process
Busy(p) == \E q \in Processes \ {p} : connections[q].state = "open"

Succeeds(o) ==
    LET p == Home(o.by)
        c == connections[p]
    IN  CASE o.kind = "begin" -> c.state = "idle" /\ ~ Busy(p)
          [] o.kind = "write" -> /\ c.state # "closed" /\ (c.state = "open" \/ ~ Busy(p))
                                 /\ o.what \notin stored \cup c.pending    \* a table or a key that exists
          [] OTHER -> c.state # "closed"

Effect(o) ==
    LET p == Home(o.by)
        open == connections[p].state = "open"
    IN  /\ stored' = CASE o.kind = "commit" -> stored \cup connections[p].pending
                       [] o.kind = "write" /\ ~ open -> stored \cup {o.what}
                       [] OTHER -> stored
        /\ connections' =
              [connections EXCEPT ![p] =
                  CASE o.kind = "begin" -> [state |-> "open", pending |-> {}]
                    [] o.kind = "write" /\ open -> [connections[p] EXCEPT !.pending = @ \cup {o.what}]
                    [] o.kind \in {"commit", "rollback", "unbegin"} -> [state |-> "idle", pending |-> {}]
                    [] o.kind = "close" -> Closing
                    [] OTHER -> @]

\* A caller that waits for o goes on with its result, in the code below it
Proceeds(o, ok) ==
    LET t == o.by
        p == Home(t)
        state == doing[t]
        rest == threads \ {o}
        initializing == callers[t].kind = "initialize"
        missing == {i \in Known(p) : Recorded(Migrations[i]) \notin stored}
        Body == /\ doing' = [doing EXCEPT ![t] = [state EXCEPT !.pc = "body", !.at = IF o.kind = "write" THEN @ + 1 ELSE 0]]
                /\ threads' = rest
                /\ UNCHANGED <<lockQueue, usable>>
        Ends(how) == Leaves(t, rest, how, state) /\ UNCHANGED usable
        Then(kind, next) == Awaits(t, rest, kind, t, next) /\ UNCHANGED usable
        Migrate(todo) ==
            \/ todo = {} /\ Leaves(t, rest, "done", [state EXCEPT !.todo = todo]) /\ usable' = usable \cup {p}
            \/ \E i \in todo : /\ \A j \in todo : i <= j
                               /\ Then("begin", [state EXCEPT !.todo = todo, !.now = i, !.at = 0])
    IN  CASE o.kind = "versions" ->
                IF \E i \in DOMAIN Migrations \ Known(p) : Recorded(Migrations[i]) \in stored
                THEN Then("close", state) ELSE Migrate(missing)
          [] o.kind = "select" -> /\ Leaves(t, rest, "done", [state EXCEPT !.saw = stored \cup connections[p].pending])
                                  /\ UNCHANGED usable
          [] o.kind = "begin" /\ initializing -> IF ok THEN Body ELSE Then("rollback", state)
          [] o.kind = "begin" /\ ~ initializing ->
                IF ~ ok THEN Ends("raised") ELSE IF state.hit THEN Then("unbegin", state) ELSE Body
          [] o.kind = "write" -> IF ok THEN Body ELSE Then("rollback", state)
          [] o.kind = "commit" /\ initializing -> Migrate(state.todo \ {state.now})
          [] o.kind = "commit" /\ ~ initializing -> Ends(IF state.hit THEN "raised" ELSE "done")
          [] o.kind = "rollback" /\ initializing -> Then("close", state)
          [] o.kind = "close" /\ ~ initializing -> Ends("done")
          [] OTHER -> Ends("raised")

Perform(o) ==
    /\ \/ Succeeds(o) /\ Effect(o)
       \/ ~ Succeeds(o) /\ UNCHANGED <<stored, connections>>
    /\ IF o.awaited THEN Proceeds(o, Succeeds(o))
       ELSE threads' = threads \ {o} /\ UNCHANGED <<doing, lockQueue, usable>>
    /\ UNCHANGED <<interruptions, kills, overtaken, abandoned>>

(* The body of a transaction, and of a migration: its statements in order, *)
(* each awaited, then the commit; a unit may raise between two of them.    *)
Continue(t) ==
    LET state == doing[t]
    IN  /\ state.pc = "body"
        /\ \/ /\ state.at < Statements[AtHand(t)]
              /\ Awaits(t, threads, "write", <<AtHand(t), state.at + 1>>, state)
           \/ /\ state.at = Statements[AtHand(t)]
              /\ Awaits(t, threads, "commit", t, state)
           \/ /\ callers[t].kind = "unit"
              /\ Awaits(t, threads, "rollback", t, state)
        /\ UNCHANGED <<stored, connections, usable, interruptions, kills, overtaken, abandoned>>
----------------------------------------------------------------------------
(* Cancellation.  A shielded call is waited for after the first one; a     *)
(* second one, and any one of a call that is awaited as it is, leaves the  *)
(* thread to itself, or takes the call back when no thread has begun it.   *)

Released(t) == {Kept(t), Kept(t) \cup Forsaken(t)}
Interrupts(t) == interruptions < MaxInterruptions /\ interruptions' = interruptions + 1
Shielded(t) == callers[t].kind = "unit" /\ doing[t].pc \in {"begin", "commit", "rollback"}

CancelQueued(t) ==
    /\ doing[t].pc = "queued" /\ Interrupts(t)
    /\ Leaves(t, threads, "raised", doing[t])
    /\ UNCHANGED <<stored, connections, usable, kills, overtaken, abandoned>>

(* A faulty transaction(), _finish(): the call is not waited for.          *)
CancelUnshielded(t) ==
    /\ Shielded(t) /\ ~ doing[t].hit /\ Interrupts(t)
    /\ \E rest \in Released(t) : Leaves(t, rest, "raised", doing[t])
    /\ UNCHANGED <<stored, connections, usable, kills, overtaken, abandoned>>
CancelShielded(t) ==
    /\ Shielded(t) /\ ~ doing[t].hit /\ Interrupts(t)
    /\ doing' = [doing EXCEPT ![t].hit = TRUE]
    /\ UNCHANGED <<stored, connections, usable, lockQueue, threads, kills, overtaken, abandoned>>

CancelAgain(t) ==
    /\ (Shielded(t) /\ doing[t].hit) \/ doing[t].pc = "unbegin"
    /\ Interrupts(t)
    /\ \E rest \in Released(t) : Leaves(t, rest, "raised", doing[t])
    /\ abandoned' = abandoned \cup {Home(t)}
    /\ UNCHANGED <<stored, connections, usable, kills, overtaken>>

\* Inside the body of a transaction or of a migration: what is rolled back may still run
CancelStatement(t) ==
    LET migrating == callers[t].kind = "initialize"
    IN  /\ doing[t].pc = "write" \/ (migrating /\ doing[t].pc \in {"begin", "commit"})
        /\ Interrupts(t)
        /\ \E rest \in Released(t) : Awaits(t, rest, "rollback", t, doing[t])
        /\ overtaken' = overtaken \cup {o.what : o \in {q \in threads : q.by = t /\ q.awaited /\ q.kind = "write"}}
        /\ UNCHANGED <<stored, connections, usable, kills, abandoned>>

\* initialize() closes the connection whatever interrupts it; a query and close() just end
CancelOutside(t) ==
    LET initializing == callers[t].kind = "initialize"
    IN  /\ \/ doing[t].pc \in {"select", "close"}
           \/ initializing /\ doing[t].pc \in {"versions", "rollback"}
        /\ Interrupts(t)
        \* A connection whose close() no thread has begun is closed when it is collected
        /\ \E rest \in IF doing[t].pc = "close" THEN {Kept(t) \cup Forsaken(t)} ELSE Released(t) :
              IF initializing /\ doing[t].pc # "close" THEN Awaits(t, rest, "close", t, doing[t])
              ELSE Leaves(t, rest, "raised", doing[t])
        /\ UNCHANGED <<stored, connections, usable, kills, overtaken, abandoned>>

(* The process ends at any moment and starts again: what is not committed  *)
(* is gone, and what had begun is not done again.                          *)
KillProcess(p) ==
    LET mine == {t \in DOMAIN callers : Home(t) = p}
    IN  /\ kills < MaxKills /\ kills' = kills + 1
        /\ connections' = [connections EXCEPT ![p] = Closing]
        /\ usable' = usable \ {p}
        /\ lockQueue' = [lockQueue EXCEPT ![p] = <<>>]
        /\ threads' = {o \in threads : o.by \notin mine}
        /\ doing' = [t \in DOMAIN callers |->
                        IF t \notin mine THEN doing[t]
                        ELSE IF callers[t].kind = "initialize" \/ doing[t].pc = "idle" THEN Resting
                        ELSE IF doing[t].pc = "done" THEN doing[t] ELSE [Resting EXCEPT !.pc = "raised"]]
        /\ UNCHANGED <<stored, interruptions, overtaken, abandoned>>

DatabaseNext ==
    /\ UNCHANGED callers
    /\ \/ \E o \in threads : Perform(o)
       \/ \E t \in DOMAIN callers :
          \/ WaitForLock(t) \/ Acquire(t) \/ Continue(t)
          \/ CancelQueued(t) \/ CancelShielded(t) \/ CancelAgain(t) \/ CancelStatement(t) \/ CancelOutside(t)
       \/ \E p \in Processes : KillProcess(p)

DatabaseSpec == DatabaseInit /\ [][DatabaseNext]_databaseVars

(* What a task and the file agree on, whatever is cancelled, fails or ends *)
(* the process: a unit is in the file as a whole or not at all, save for a *)
(* statement that its caller was cancelled in; a transaction that returned *)
(* is in it; a query sees no half of a unit; a connection that nobody uses *)
(* has no open transaction; and a process that serves has the schema that  *)
(* its code knows.  A second cancellation of a shielded call leaves the    *)
(* transaction open: queries may see half of it, and no other one begins.  *)
WholeIn(file, name) == UnitOf(name) \subseteq file \/ UnitOf(name) \cap file \subseteq overtaken
DatabaseIsAtomic ==
    /\ \A t \in DOMAIN callers : callers[t].kind = "unit" =>
          WholeIn(stored, t) /\ (doing[t].pc = "done" => UnitOf(t) \subseteq stored)
    /\ \A i \in DOMAIN Migrations : WholeIn(stored, Migrations[i])
    /\ \A q \in DOMAIN callers : callers[q].kind = "query" /\ abandoned = {} =>
          \A t \in DOMAIN callers : callers[t].kind = "unit" => WholeIn(doing[q].saw, t)
    /\ \A p \in Processes \ abandoned :
          lockQueue[p] = <<>> /\ (\A o \in threads : Home(o.by) # p) => connections[p].state # "open"
    /\ \A p \in usable : \A i \in Known(p) : Recorded(Migrations[i]) \in stored
=============================================================================
