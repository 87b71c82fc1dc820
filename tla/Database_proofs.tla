---------------------------- MODULE Database_proofs ----------------------------
(***************************************************************************)
(* DatabaseIsAtomic, for any deployment of tasks on any processes, any     *)
(* migrations and statements, and any numbers of cancellations and ends of *)
(* a process.                                                              *)
(*                                                                         *)
(* The property is far from inductive: a thread that its caller no longer  *)
(* waits for goes on, and may begin, write, commit or close while the lock *)
(* has gone to another caller.  The invariant says, of each process, who   *)
(* holds the lock and for which call, what the calls left to themselves    *)
(* may still do, in which phase of its life the process is, what the open  *)
(* transaction holds and whose it is, and that whatever is to be committed *)
(* is whole.  A process disturbs the others only by adding to the file,    *)
(* and every step of a task is a turn: it goes on to its next call, or     *)
(* leaves the lock to the next one.                                        *)
(***************************************************************************)
EXTENDS Database, TLAPS

-----------------------------------------------------------------------------
(* The invariant.                                                          *)

\* The calls that each kind of caller makes, in the order of the code; a body awaits nothing
Steps == [initialize |-> {"versions", "begin", "body", "write", "commit", "rollback", "close"},
          unit |-> {"begin", "body", "write", "commit", "rollback", "unbegin"},
          query |-> {"select"}, close |-> {"close"}]
\* The program counters past the lock; in a transaction; and the calls that end one
Active == {"versions", "begin", "body", "write", "commit", "rollback", "unbegin", "select", "close"}
Alive == {"body", "write", "commit"}
Finishing == {"commit", "rollback", "unbegin"}
Initializes(t) == callers[t].kind = "initialize"
Units == {t \in DOMAIN callers : callers[t].kind = "unit"}
Names == Units \cup Range(Migrations)
\* The units of tasks and of migrations, and that a file holds each as a whole
WholeUnits(file) == \A name \in Names : WholeIn(file, name)
Mine(p) == {t \in DOMAIN callers : Home(t) = p}
CallsOf(p) == {o \in threads : Home(o.by) = p}

\* The types, with records written out
IsCaller(k) == k = [pc |-> k.pc, at |-> k.at, todo |-> k.todo, now |-> k.now, hit |-> k.hit, saw |-> k.saw]
CallerTyped(t, k) ==
    /\ IsCaller(k)
    /\ k.pc \in Steps[callers[t].kind] \cup {"idle", "queued"} \cup Ended
    /\ k.at \in Nat /\ k.todo \subseteq Known(Home(t)) /\ k.hit \in BOOLEAN
CallTyped(o) ==
    /\ o = [by |-> o.by, kind |-> o.kind, what |-> o.what, awaited |-> o.awaited]
    /\ o.by \in DOMAIN callers /\ o.awaited \in BOOLEAN /\ o.kind \in Steps[callers[o.by].kind] \ {"body"}
ConnectionTyped(c) ==
    /\ c = [state |-> c.state, pending |-> c.pending]
    /\ c.state \in {"closed", "idle", "open"}
    /\ c.state # "open" => c.pending = {}

DatabaseTyped ==
    /\ callers \in Deployments
    /\ doing = [t \in DOMAIN callers |-> doing[t]]
    /\ connections = [p \in Processes |-> connections[p]]
    /\ lockQueue \in [Processes -> Seq(DOMAIN callers)] /\ usable \subseteq Processes
    /\ \A t \in DOMAIN callers : CallerTyped(t, doing[t])
    /\ \A p \in Processes : ConnectionTyped(connections[p])
    /\ \A o \in threads : CallTyped(o)

\* The lock: who is past it is its first
LockIsHeld(p) ==
    /\ \A i \in DOMAIN lockQueue[p] :
          /\ Home(lockQueue[p][i]) = p
          /\ doing[lockQueue[p][i]].pc = "queued" \/ (i = 1 /\ doing[lockQueue[p][i]].pc \in Active)
          /\ \A j \in DOMAIN lockQueue[p] : lockQueue[p][j] = lockQueue[p][i] => i = j
    /\ \A t \in Mine(p) : doing[t].pc \in Active \cup {"queued"} => \E i \in DOMAIN lockQueue[p] : lockQueue[p][i] = t

\* Who is past the lock waits for one call, except in a body
CallsAgree(t) ==
    /\ doing[t].pc \in Active \ {"body"} => \E o \in threads : o.by = t /\ o.awaited
    /\ \A o, q \in threads : o.by = t /\ q.by = t /\ o.awaited /\ q.awaited => o = q
    /\ \A o \in threads : o.by = t /\ o.awaited =>
          /\ o.kind = doing[t].pc
          /\ o.kind = "write" => o.what = <<AtHand(t), doing[t].at + 1>> /\ doing[t].at < Statements[AtHand(t)]

\* What a cancelled caller may have left to itself
LooseIsKnown(o) ==
    o.awaited \/
        /\ o.kind = "write" => o.what \in overtaken
        /\ Initializes(o.by) => doing[o.by].pc \in {"rollback", "close", "raised"}
        /\ callers[o.by].kind = "unit" /\ o.kind # "write" => Home(o.by) \in abandoned

\* A process is brought up first, then used, then closed
Phased(p) ==
    /\ \A t \in Mine(p) : Initializes(t) =>
          /\ p \in usable => doing[t].pc = "done"
          /\ doing[t].pc \in {"idle", "queued"} => connections[p].state = "closed"
          /\ doing[t].pc \in {"versions", "begin"} => connections[p].state = "idle"
          /\ doing[t].pc = "raised" => connections[p].state = "closed" \/ \E o \in threads : o.by = t /\ o.kind = "close"
          /\ \A o \in threads : o.by = t => doing[t].pc \notin {"idle", "queued", "done"}
          /\ \A u \in Mine(p) : ~ Initializes(u) /\
                (doing[u].pc \in Active \/ \E o \in threads : o.by = u) => doing[t].pc = "done"
    /\ \A t \in Mine(p) : callers[t].kind \in {"unit", "query"} /\ doing[t].pc \in Active => p \in usable
    /\ \A o \in CallsOf(p) : o.kind = "close" => p \notin usable

\* The transaction at hand: an open connection, with the statements so far
Under(t) == {<<AtHand(t), k>> : k \in 1..(IF doing[t].pc = "commit" THEN Statements[AtHand(t)] ELSE doing[t].at)}
InTransaction(t) ==
    doing[t].pc \in Alive =>
        /\ connections[Home(t)].state = "open"
        /\ Under(t) \subseteq connections[Home(t)].pending
        /\ connections[Home(t)].pending \subseteq Under(t) \cup overtaken
        /\ doing[t].at <= Statements[AtHand(t)]

\* A transaction of a unit ends once
EndsOnce(p) ==
    \A o \in CallsOf(p) : o.kind \in Finishing /\ callers[o.by].kind = "unit" =>
       /\ connections[p].state # "idle"
       /\ doing[o.by].pc \notin {"body", "write"}
       /\ \A t \in Mine(p) : t # o.by => doing[t].pc \notin Alive \cup {"rollback", "unbegin"}
       /\ \A q \in CallsOf(p) : q.kind \in Finishing => q = o

\* Whoever commits, commits whole units
CommitsWhole(p) == \A o \in CallsOf(p) : o.kind = "commit" => WholeUnits(connections[p].pending)

OpenIsUsed(p) ==
    p \notin abandoned /\ connections[p].state = "open" =>
        \/ \E t \in Mine(p) : doing[t].pc \in Alive \cup {"rollback", "unbegin", "close"}
        \/ \E o \in CallsOf(p) : o.kind = "close"

MigratesAll(t) ==
    Initializes(t) /\ doing[t].pc \in Alive \cup {"begin"} =>
        /\ doing[t].now \in doing[t].todo
        /\ \A i \in Known(Home(t)) : i \in doing[t].todo \/ Recorded(Migrations[i]) \in stored

\* What a caller has been told
Told(t) ==
    /\ callers[t].kind = "unit" /\ doing[t].pc = "done" => UnitOf(t) \subseteq stored
    /\ callers[t].kind = "query" /\ abandoned = {} => \A u \in Units : WholeIn(doing[t].saw, u)

ProcessInv(p) ==
    /\ LockIsHeld(p) /\ Phased(p) /\ EndsOnce(p) /\ CommitsWhole(p) /\ OpenIsUsed(p)
    /\ \A t \in Mine(p) : CallsAgree(t) /\ InTransaction(t) /\ MigratesAll(t) /\ Told(t)
    /\ \A o \in CallsOf(p) : LooseIsKnown(o)
    /\ p \in usable => \A i \in Known(p) : Recorded(Migrations[i]) \in stored

DatabaseInv ==
    /\ DatabaseTyped
    /\ \A p \in Processes : ProcessInv(p)
    /\ WholeUnits(stored)

-----------------------------------------------------------------------------
\* A deployment: every process is initialised by one caller, and every version that it knows exists
LEMMA DeploymentIs ==
    ASSUME callers \in Deployments
    PROVE  /\ \A t \in DOMAIN callers : Home(t) \in Processes /\ t \notin Range(Migrations)
                 /\ callers[t].kind \in {"initialize", "unit", "query", "close"}
                 /\ (callers[t].kind = "unit" => Statements[t] \in Nat)
           /\ \A t, u \in DOMAIN callers : Initializes(t) /\ Initializes(u) /\ Home(t) = Home(u) => t = u
           /\ \A p \in Processes : Known(p) \subseteq DOMAIN Migrations
           /\ \A i \in DOMAIN Migrations : Migrations[i] \in Range(Migrations) /\ Statements[Migrations[i]] \in Nat \ {0}
<1>1. callers \in [DOMAIN callers -> [home : Processes, kind : {"initialize", "unit", "query", "close"}]]
      BY DatabaseAssumption DEF DatabaseAssumption, Processes
<1>2. \A t \in DOMAIN callers : t \notin Range(Migrations) /\ (callers[t].kind = "unit" => Statements[t] \in Nat)
      BY DatabaseAssumption DEF DatabaseAssumption
<1>3. ASSUME NEW t \in DOMAIN callers, NEW u \in DOMAIN callers, Initializes(t), Initializes(u), Home(t) = Home(u)
      PROVE  t = u
  <2>1. callers[t] = callers[u]
        BY <1>1, <1>3 DEF Initializes, Home
  <2> QED BY <1>3, <2>1, DatabaseAssumption DEF DatabaseAssumption, Initializes
<1>4. Migrations \in Seq(Range(Migrations))
      BY DatabaseAssumption DEF DatabaseAssumption
<1>5. \A i \in DOMAIN Migrations : Migrations[i] \in Range(Migrations)
      BY <1>4 DEF Range
<1>6. \A i \in DOMAIN Migrations : Statements[Migrations[i]] \in Nat \ {0}
      BY <1>5, DatabaseAssumption DEF DatabaseAssumption
<1>7. ASSUME NEW p \in Processes PROVE Known(p) \subseteq DOMAIN Migrations
  <2>1. KnownMigrations[p] \in 0..Len(Migrations) /\ Len(Migrations) \in Nat /\ DOMAIN Migrations = 1..Len(Migrations)
        BY <1>4, DatabaseAssumption DEF DatabaseAssumption, Processes
  <2> QED BY <2>1 DEF Known
<1> QED BY <1>1, <1>2, <1>3, <1>5, <1>6, <1>7 DEF Home

\* The caller past the lock is the first in its queue, and there is one
LEMMA HolderIs ==
    ASSUME DatabaseTyped, NEW p \in Processes, LockIsHeld(p), NEW t \in Mine(p), doing[t].pc \in Active
    PROVE  /\ lockQueue[p] # <<>> /\ lockQueue[p][1] = t /\ 1 \in DOMAIN lockQueue[p]
           /\ \A u \in Mine(p) : doing[u].pc \in Active => u = t
<1>1. "queued" \notin Active
      BY DEF Active
<1>2. ASSUME NEW u \in Mine(p), doing[u].pc \in Active
      PROVE  lockQueue[p][1] = u /\ 1 \in DOMAIN lockQueue[p]
  <2>1. PICK i \in DOMAIN lockQueue[p] : lockQueue[p][i] = u
        BY <1>2 DEF LockIsHeld
  <2>2. i = 1
        BY <1>1, <1>2, <2>1 DEF LockIsHeld
  <2> QED BY <2>1, <2>2
<1>3. lockQueue[p] # <<>>
      BY <1>2
<1> QED BY <1>2, <1>3

LEMMA UnitsApart ==
    ASSUME NEW a, NEW b, a # b
    PROVE  UnitOf(a) \cap UnitOf(b) = {}
BY DEF UnitOf

\* What happens in one process is nothing to the others
LEMMA Elsewhere ==
    ASSUME DatabaseInv, NEW p \in Processes, callers' = callers, DatabaseTyped',
           \A t \in DOMAIN callers : Home(t) # p => doing'[t] = doing[t],
           \A o \in threads \cup threads' : Home(o.by) # p => (o \in threads <=> o \in threads'),
           \A q \in Processes \ {p} : connections'[q] = connections[q] /\ lockQueue'[q] = lockQueue[q]
                                      /\ (q \in usable <=> q \in usable'),
           stored \subseteq stored', overtaken \subseteq overtaken', abandoned \subseteq abandoned'
    PROVE  \A q \in Processes \ {p} : ProcessInv(q)'
<1> SUFFICES ASSUME NEW q \in Processes \ {p} PROVE ProcessInv(q)'
    OBVIOUS
<1>0. \A t : Home(t)' = Home(t) /\ Initializes(t)' = Initializes(t)
      BY DEF Home, Initializes
<1>1. Mine(q)' = Mine(q) /\ \A t \in Mine(q) : doing'[t] = doing[t] /\ Home(t) = q /\ t \in DOMAIN callers
      BY <1>0 DEF Mine
<1>2. CallsOf(q)' = CallsOf(q)
      BY <1>0 DEF CallsOf
<1>3. \A t \in Mine(q) : \A o : o.by = t => (o \in threads <=> o \in threads')
      BY <1>1
<1>4. ProcessInv(q)
      BY DEF DatabaseInv
<1>5. \A t \in Mine(q) : AtHand(t)' = AtHand(t)
      BY <1>1 DEF AtHand
<1>6. connections'[q] = connections[q] /\ lockQueue'[q] = lockQueue[q] /\ (q \in usable <=> q \in usable')
      OBVIOUS
<1>7. LockIsHeld(q)'
  <2>1. LockIsHeld(q) /\ lockQueue[q] \in Seq(DOMAIN callers)
        BY <1>4 DEF ProcessInv, DatabaseInv, DatabaseTyped
  <2>2. \A i \in DOMAIN lockQueue[q] : lockQueue[q][i] \in Mine(q)
        BY <2>1 DEF LockIsHeld, Mine
  <2>3. \A i \in DOMAIN lockQueue[q] : doing'[lockQueue[q][i]] = doing[lockQueue[q][i]]
        BY <1>1, <2>2
  <2> QED BY <1>0, <1>1, <1>6, <2>1, <2>3 DEF LockIsHeld
<1>8. Phased(q)'
      BY <1>0, <1>1, <1>2, <1>3, <1>4, <1>6 DEF ProcessInv, Phased
<1>9. EndsOnce(q)'
  <2>1. \A o \in CallsOf(q) : o.by \in Mine(q)
        BY DEF CallsOf, Mine, DatabaseInv, DatabaseTyped, CallTyped
  <2> QED BY <1>0, <1>1, <1>2, <1>4, <1>6, <2>1 DEF ProcessInv, EndsOnce
<1>10. CommitsWhole(q)'
      BY <1>2, <1>4, <1>6 DEF ProcessInv, CommitsWhole, WholeUnits, WholeIn, Names, Units
<1>11. OpenIsUsed(q)'
      BY <1>1, <1>2, <1>4, <1>6 DEF ProcessInv, OpenIsUsed
<1>12. \A t \in Mine(q) : CallsAgree(t)'
      BY <1>1, <1>3, <1>4, <1>5 DEF ProcessInv, CallsAgree
<1>13. \A t \in Mine(q) : InTransaction(t)'
      BY <1>0, <1>1, <1>4, <1>5, <1>6 DEF ProcessInv, InTransaction, Under
<1>14. \A t \in Mine(q) : MigratesAll(t)'
      BY <1>0, <1>1, <1>4 DEF ProcessInv, MigratesAll
<1>15. \A t \in Mine(q) : Told(t)'
      BY <1>0, <1>1, <1>4 DEF ProcessInv, Told, WholeIn, Units
<1>16. \A o \in CallsOf(q) : LooseIsKnown(o)'
  <2>1. \A o \in CallsOf(q) : o.by \in Mine(q)
        BY DEF CallsOf, Mine, DatabaseInv, DatabaseTyped, CallTyped
  <2> QED BY <1>0, <1>1, <1>4, <2>1 DEF ProcessInv, LooseIsKnown
<1>17. q \in usable' => \A i \in Known(q) : Recorded(Migrations[i]) \in stored'
      BY <1>4, <1>6 DEF ProcessInv
<1> QED BY <1>1, <1>2, <1>7, <1>8, <1>9, <1>10, <1>11, <1>12, <1>13, <1>14, <1>15, <1>16, <1>17 DEF ProcessInv

(* Where the entry at j stood before the one at k was removed.             *)
After(k, j) == IF j < k THEN j ELSE j + 1

LEMMA AfterIs ==
    ASSUME NEW n \in Nat, NEW k \in 1..n
    PROVE  /\ \A j \in 1..(n - 1) : After(k, j) \in 1..n \ {k}
           /\ \A i, j \in 1..(n - 1) : (i < j => After(k, i) < After(k, j)) /\ (After(k, i) = After(k, j) => i = j)
           /\ \A l \in 1..n \ {k} : \E j \in 1..(n - 1) : After(k, j) = l
<1>1. \A j \in 1..(n - 1) : After(k, j) \in 1..n \ {k}
      BY DEF After
<1>2. \A i, j \in 1..(n - 1) : (i < j => After(k, i) < After(k, j)) /\ (After(k, i) = After(k, j) => i = j)
      BY DEF After
<1>3. ASSUME NEW l \in 1..n \ {k} PROVE \E j \in 1..(n - 1) : After(k, j) = l
  <2>1. CASE l < k
    <3>1. l \in 1..(n - 1) /\ After(k, l) = l
          BY <2>1 DEF After
    <3> QED BY <3>1
  <2>2. CASE ~ (l < k)
    <3>1. l - 1 \in 1..(n - 1) /\ ~ (l - 1 < k) /\ l - 1 + 1 = l
          BY <2>2
    <3>2. After(k, l - 1) = l
          BY <3>1 DEF After
    <3> QED BY <3>1, <3>2
  <2> QED BY <2>1, <2>2
<1> QED BY <1>1, <1>2, <1>3

\* What is left of a queue that someone leaves, and of one that someone joins
LEMMA RemoveAtIs ==
    ASSUME NEW X, NEW q \in Seq(X), NEW i \in DOMAIN q
    PROVE  /\ RemoveAt(q, i) \in Seq(X) /\ Len(RemoveAt(q, i)) = Len(q) - 1
           /\ DOMAIN RemoveAt(q, i) = 1..(Len(q) - 1)
           /\ \A j \in 1..(Len(q) - 1) : RemoveAt(q, i)[j] = q[After(i, j)]
<1>1. Len(q) \in Nat /\ i \in 1..Len(q)
      OBVIOUS
<1>2. PICK a, b : a = SubSeq(q, 1, i - 1) /\ b = SubSeq(q, i + 1, Len(q))
      OBVIOUS
<1>3. a \in Seq(X) /\ Len(a) = i - 1 /\ \A j \in 1..(i - 1) : a[j] = q[j]
      BY <1>1, <1>2
<1>4. b \in Seq(X) /\ Len(b) = Len(q) - i /\ \A j \in 1..(Len(q) - i) : b[j] = q[i + j]
      BY <1>1, <1>2
<1>5. RemoveAt(q, i) = a \o b
      BY <1>2 DEF RemoveAt
<1>6. Len(a \o b) = Len(q) - 1 /\ a \o b \in Seq(X) /\ DOMAIN (a \o b) = 1..(Len(q) - 1)
      BY <1>1, <1>3, <1>4
<1>7. ASSUME NEW j \in 1..(i - 1) PROVE (a \o b)[j] = q[j]
      BY <1>1, <1>3, <1>4
<1>8. ASSUME NEW j \in i..(Len(q) - 1) PROVE (a \o b)[j] = q[j + 1]
  <2>1. j \in Nat /\ i \in Nat /\ j >= i /\ j <= Len(q) - 1 /\ i >= 1
        BY <1>1
  <2>2. Len(a) = i - 1 /\ Len(q) \in Nat
        BY <1>1, <1>3
  <2>3. j - i + 1 \in 1..(Len(q) - i)
        BY <2>1, <2>2
  <2>4. i + (j - i + 1) = j + 1
        BY <2>1
  <2>5. Len(b) \in Nat /\ Len(b) = Len(q) - i /\ (a \o b)[j] = IF j <= Len(a) THEN a[j] ELSE b[j - Len(a)]
        BY <1>1, <1>3, <1>4, <1>6
  <2>6. j - Len(a) = j - i + 1 /\ ~ (j <= Len(a))
        BY <2>1, <2>2
  <2>7. (a \o b)[j] = b[j - i + 1]
        BY <2>5, <2>6
  <2> QED BY <1>4, <2>3, <2>4, <2>7
<1>9. ASSUME NEW j \in 1..(Len(q) - 1) PROVE (a \o b)[j] = q[After(i, j)]
  <2>1. CASE j < i
    <3>1. j \in 1..(i - 1)
          BY <1>1, <2>1
    <3> QED BY <1>7, <2>1, <3>1 DEF After
  <2>2. CASE ~ (j < i)
    <3>1. j \in i..(Len(q) - 1)
          BY <1>1, <2>2
    <3> QED BY <1>8, <2>2, <3>1 DEF After
  <2> QED BY <2>1, <2>2
<1> QED BY <1>5, <1>6, <1>9

LEMMA AppendIs ==
    ASSUME NEW X, NEW q \in Seq(X), NEW e \in X
    PROVE  /\ Append(q, e) \in Seq(X) /\ Len(Append(q, e)) = Len(q) + 1 /\ DOMAIN Append(q, e) = 1..(Len(q) + 1)
           /\ Append(q, e)[Len(q) + 1] = e
           /\ \A i \in 1..Len(q) : Append(q, e)[i] = q[i]
OBVIOUS

-----------------------------------------------------------------------------
(* A caller goes on: what becomes of lock and calls.                       *)
Stays(t, k) == k.pc \in Active /\ lockQueue' = lockQueue /\ lockQueue[Home(t)] # <<>> /\ lockQueue[Home(t)][1] = t
Goes(t, k) ==
    /\ k.pc \in Ended
    /\ \E i \in DOMAIN lockQueue[Home(t)] :
          lockQueue[Home(t)][i] = t /\ lockQueue' = [lockQueue EXCEPT ![Home(t)] = RemoveAt(@, i)]

\* The lock stays with who holds it, or goes to the next one
LEMMA LockTurns ==
    ASSUME DatabaseInv, NEW p \in Processes, NEW t \in Mine(p), NEW k, callers' = callers,
           doing' = [doing EXCEPT ![t] = k], Stays(t, k) \/ Goes(t, k)
    PROVE  /\ LockIsHeld(p)' /\ lockQueue' \in [Processes -> Seq(DOMAIN callers)]
           /\ \A q \in Processes \ {p} : lockQueue'[q] = lockQueue[q]
<1>0. /\ t \in DOMAIN callers /\ Home(t) = p /\ lockQueue \in [Processes -> Seq(DOMAIN callers)]
      /\ doing = [u \in DOMAIN callers |-> doing[u]] /\ LockIsHeld(p)
      BY DEF Mine, DatabaseInv, DatabaseTyped, ProcessInv
<1>1. doing'[t] = k /\ \A u \in DOMAIN callers : u # t => doing'[u] = doing[u]
      BY <1>0
<1>2. Mine(p)' = Mine(p) /\ \A u : Home(u)' = Home(u)
      BY DEF Mine, Home
<1>3. PICK n \in Nat : n = Len(lockQueue[p]) /\ DOMAIN lockQueue[p] = 1..n /\ lockQueue[p] \in Seq(DOMAIN callers)
      BY <1>0
<1>4. \A i \in 1..n : lockQueue[p][i] \in DOMAIN callers
      BY <1>3
<1>5. CASE Stays(t, k)
  <2>1. lockQueue' = lockQueue /\ lockQueue[p][1] = t /\ k.pc \in Active
        BY <1>0, <1>5 DEF Stays
  <2>2. \A i \in 1..n : lockQueue[p][i] = t => i = 1
    <3>1. n # 0
          BY <1>0, <1>3, <1>5 DEF Stays
    <3>2. 1 \in 1..n
          BY <3>1
    <3> QED BY <1>0, <1>3, <2>1, <3>2 DEF LockIsHeld
  <2>3. LockIsHeld(p)'
    <3>1. ASSUME NEW i \in 1..n
          PROVE  /\ Home(lockQueue[p][i]) = p
                 /\ doing'[lockQueue[p][i]].pc = "queued" \/ (i = 1 /\ doing'[lockQueue[p][i]].pc \in Active)
                 /\ \A j \in 1..n : lockQueue[p][j] = lockQueue[p][i] => i = j
          BY <1>0, <1>1, <1>3, <1>4, <2>1, <2>2 DEF LockIsHeld
    <3>2. ASSUME NEW u \in Mine(p), doing'[u].pc \in Active \cup {"queued"}
          PROVE  \E i \in 1..n : lockQueue[p][i] = u
      <4>1. CASE u = t
        <5>1. n # 0 /\ 1 \in 1..n
          <6>1. n # 0
                BY <1>0, <1>3, <1>5 DEF Stays
          <6> QED BY <6>1
        <5> QED BY <2>1, <4>1, <5>1
      <4>2. CASE u # t
            BY <1>0, <1>1, <1>3, <3>2, <4>2 DEF LockIsHeld, Mine
      <4> QED BY <4>1, <4>2
    <3> QED BY <1>2, <1>3, <2>1, <3>1, <3>2 DEF LockIsHeld
  <2> QED BY <1>0, <2>1, <2>3
<1>6. CASE Goes(t, k)
  <2>1. PICK i \in 1..n : lockQueue[p][i] = t /\ lockQueue' = [lockQueue EXCEPT ![p] = RemoveAt(lockQueue[p], i)]
        BY <1>0, <1>3, <1>6 DEF Goes
  <2>2. k.pc \notin Active \cup {"queued"}
        BY <1>6 DEF Goes, Ended, Active
  <2>3. /\ RemoveAt(lockQueue[p], i) \in Seq(DOMAIN callers) /\ DOMAIN RemoveAt(lockQueue[p], i) = 1..(n - 1)
        /\ \A j \in 1..(n - 1) : RemoveAt(lockQueue[p], i)[j] = lockQueue[p][After(i, j)]
        BY <1>3, <2>1, RemoveAtIs
  <2>4. lockQueue'[p] = RemoveAt(lockQueue[p], i) /\ \A q \in Processes \ {p} : lockQueue'[q] = lockQueue[q]
        BY <1>0, <2>1
  <2>5. lockQueue' \in [Processes -> Seq(DOMAIN callers)]
        BY <1>0, <2>1, <2>3
  <2>6. /\ \A j \in 1..(n - 1) : After(i, j) \in 1..n \ {i} /\ (After(i, j) = 1 => j = 1)
        /\ \A j, l \in 1..(n - 1) : After(i, j) = After(i, l) => j = l
        /\ \A m \in 1..n \ {i} : \E j \in 1..(n - 1) : After(i, j) = m
    <3>1. \A j \in 1..(n - 1) : After(i, j) = 1 => j = 1
          BY DEF After
    <3>2. n \in Nat /\ i \in 1..n
          BY <2>1
    <3>3. \A j \in 1..(n - 1) : After(i, j) \in 1..n \ {i}
          BY <3>2, AfterIs
    <3>4. \A j, l \in 1..(n - 1) : After(i, j) = After(i, l) => j = l
          BY <3>2 DEF After
    <3>5. \A m \in 1..n \ {i} : \E j \in 1..(n - 1) : After(i, j) = m
          BY <3>2, AfterIs
    <3> QED BY <3>1, <3>3, <3>4, <3>5
  <2>7. \A m \in 1..n \ {i} : lockQueue[p][m] # t
        BY <1>0, <1>3, <2>1 DEF LockIsHeld
  <2>8. ASSUME NEW j \in 1..(n - 1)
        PROVE  LET u == lockQueue'[p][j] IN
               /\ Home(u) = p /\ (doing'[u].pc = "queued" \/ (j = 1 /\ doing'[u].pc \in Active))
               /\ \A l \in 1..(n - 1) : lockQueue'[p][l] = u => j = l
    <3>1. PICK m \in 1..n \ {i} : m = After(i, j) /\ lockQueue'[p][j] = lockQueue[p][m] /\ (m = 1 => j = 1)
          BY <2>3, <2>4, <2>6
    <3>2. lockQueue[p][m] # t /\ lockQueue[p][m] \in DOMAIN callers
          BY <1>4, <2>7
    <3>3. doing'[lockQueue[p][m]] = doing[lockQueue[p][m]]
          BY <1>1, <3>2
    <3>4. /\ Home(lockQueue[p][m]) = p
          /\ doing[lockQueue[p][m]].pc = "queued" \/ (m = 1 /\ doing[lockQueue[p][m]].pc \in Active)
          /\ \A l \in 1..n : lockQueue[p][l] = lockQueue[p][m] => l = m
          BY <1>0, <1>3 DEF LockIsHeld
    <3>5. ASSUME NEW l \in 1..(n - 1), lockQueue'[p][l] = lockQueue'[p][j] PROVE j = l
      <4>1. lockQueue[p][After(i, l)] = lockQueue[p][m] /\ After(i, l) \in 1..n
            BY <2>3, <2>4, <2>6, <3>1, <3>5
      <4>2. After(i, l) = m
            BY <3>4, <4>1
      <4> QED BY <2>6, <3>1, <4>2
    <3> QED BY <3>1, <3>3, <3>4, <3>5
  <2>9. ASSUME NEW u \in Mine(p), doing'[u].pc \in Active \cup {"queued"}
        PROVE  \E j \in 1..(n - 1) : lockQueue'[p][j] = u
    <3>1. u # t /\ u \in DOMAIN callers
          BY <1>1, <2>2, <2>9 DEF Mine
    <3>2. PICK m \in 1..n : lockQueue[p][m] = u
          BY <1>0, <1>1, <1>3, <2>9, <3>1 DEF LockIsHeld
    <3>3. PICK j \in 1..(n - 1) : After(i, j) = m
          BY <2>1, <2>6, <3>1, <3>2
    <3> QED BY <2>3, <2>4, <3>2, <3>3
  <2>10. DOMAIN lockQueue'[p] = 1..(n - 1)
         BY <2>3, <2>4
  <2>11. LockIsHeld(p)'
         BY <1>2, <2>8, <2>9, <2>10 DEF LockIsHeld
  <2> QED BY <2>4, <2>5, <2>11
<1> QED BY <1>5, <1>6

\* The unit that a caller is in when it stands at k
UnitFor(t, k) == IF Initializes(t) THEN Migrations[k.now] ELSE t

Turn(t, k, kept, new) ==
    /\ callers' = callers /\ CallerTyped(t, k)
    /\ doing' = [doing EXCEPT ![t] = k]
    /\ threads' = kept \cup new
    /\ kept \in {Kept(t), Kept(t) \cup Forsaken(t)}
    /\ \/ Goes(t, k) /\ new = {}
       \/ Stays(t, k) /\ k.pc = "body" /\ new = {}
       \/ /\ Stays(t, k) /\ k.pc # "body"
          /\ \E what : /\ new = {Call(t, k.pc, what)}
                       /\ k.pc = "write" => what = <<UnitFor(t, k), k.at + 1>> /\ k.at < Statements[UnitFor(t, k)]

\* What is left of the calls of a caller that goes on: it waits for none of them
LEMMA KeptIs ==
    ASSUME DatabaseInv, NEW t \in DOMAIN callers, NEW kept \in {Kept(t), Kept(t) \cup Forsaken(t)}, NEW o \in kept
    PROVE  /\ CallTyped(o)
           /\ \/ o \in threads /\ ~ (o.by = t /\ o.awaited)
              \/ \E q \in threads : /\ q.by = t /\ q.awaited /\ o.by = t /\ o.kind = q.kind /\ o.what = q.what /\ ~ o.awaited
                                    /\ q.kind = doing[t].pc
<1>1. CASE o \in Kept(t)
      BY <1>1 DEF Kept, DatabaseInv, DatabaseTyped
<1>2. CASE o \in Forsaken(t)
  <2>1. PICK q \in threads : q.by = t /\ q.awaited /\ o = [q EXCEPT !.awaited = FALSE]
        BY <1>2 DEF Forsaken
  <2>2. CallTyped(q)
        BY DEF DatabaseInv, DatabaseTyped
  <2>3. o = [by |-> q.by, kind |-> q.kind, what |-> q.what, awaited |-> FALSE]
        BY <2>1, <2>2 DEF CallTyped
  <2>4. CallTyped(o)
        BY <2>2, <2>3 DEF CallTyped
  <2>5. q.kind = doing[t].pc
    <3>1. CallsAgree(t)
          BY DeploymentIs DEF DatabaseInv, ProcessInv, DatabaseTyped, Mine
    <3> QED BY <2>1, <3>1 DEF CallsAgree
  <2> QED BY <2>1, <2>3, <2>4, <2>5
<1> QED BY <1>1, <1>2

\* What a turn changes: one caller, its calls and its place in the queue
LEMMA TurnIs ==
    ASSUME DatabaseInv, NEW p \in Processes, NEW t \in Mine(p), NEW k, NEW kept, NEW new, Turn(t, k, kept, new)
    PROVE  /\ doing'[t] = k /\ \A u \in DOMAIN callers : u # t => doing'[u] = doing[u]
           /\ doing' = [u \in DOMAIN callers |-> doing'[u]]
           /\ \A u \in DOMAIN callers : CallerTyped(u, doing[u])'
           /\ Mine(p)' = Mine(p) /\ (\A u : Home(u)' = Home(u) /\ Initializes(u)' = Initializes(u)) /\ Units' = Units
           /\ \A o \in threads' : CallTyped(o)'
           /\ \A o \in threads' : /\ o \notin threads => o.by = t
                                  /\ o \in kept \/ (new = {o} /\ o.by = t /\ o.kind = k.pc /\ o.awaited)
           /\ \A o \in threads : o.by # t \/ ~ o.awaited => o \in threads'
           /\ LockIsHeld(p)' /\ lockQueue' \in [Processes -> Seq(DOMAIN callers)]
           /\ \A q \in Processes \ {p} : lockQueue'[q] = lockQueue[q]
           /\ \A u \in Mine(p) : CallsAgree(u)'
           /\ \A u \in DOMAIN callers : u # t => AtHand(u)' = AtHand(u)
           /\ AtHand(t)' = UnitFor(t, k)
<1>0. /\ t \in DOMAIN callers /\ Home(t) = p /\ callers' = callers /\ threads' = kept \cup new
      /\ doing' = [doing EXCEPT ![t] = k] /\ kept \in {Kept(t), Kept(t) \cup Forsaken(t)} /\ CallerTyped(t, k)
      BY DEF Mine, Turn
<1>1. doing = [u \in DOMAIN callers |-> doing[u]] /\ \A u \in DOMAIN callers : CallerTyped(u, doing[u])
      BY DEF DatabaseInv, DatabaseTyped
<1>2. doing'[t] = k /\ \A u \in DOMAIN callers : u # t => doing'[u] = doing[u]
      BY <1>0, <1>1
<1>3. doing' = [u \in DOMAIN callers |-> doing'[u]]
      BY <1>0, <1>1
<1>4. (\A u : Home(u)' = Home(u) /\ Initializes(u)' = Initializes(u)) /\ Mine(p)' = Mine(p) /\ Units' = Units
      BY <1>0 DEF Home, Initializes, Mine, Units
<1>6. ASSUME NEW u \in DOMAIN callers PROVE CallerTyped(u, doing[u])'
  <2>1. CallerTyped(u, doing'[u])
        BY <1>0, <1>1, <1>2
  <2> QED BY <1>0, <1>4, <2>1 DEF CallerTyped, IsCaller
<1>7. \A o \in kept : CallTyped(o) /\ (o \in threads \/ o.by = t)
      BY <1>0, KeptIs
<1>8. ASSUME NEW o \in new
      PROVE  new = {o} /\ o = Call(t, k.pc, o.what) /\ o.by = t /\ o.kind = k.pc /\ o.awaited
             /\ CallTyped(o) /\ Stays(t, k) /\ k.pc # "body"
             /\ (k.pc = "write" => o.what = <<UnitFor(t, k), k.at + 1>> /\ k.at < Statements[UnitFor(t, k)])
  <2>1. PICK what : /\ new = {Call(t, k.pc, what)} /\ Stays(t, k) /\ k.pc # "body"
                    /\ k.pc = "write" => what = <<UnitFor(t, k), k.at + 1>> /\ k.at < Statements[UnitFor(t, k)]
        BY <1>8 DEF Turn
  <2>2. o = [by |-> t, kind |-> k.pc, what |-> what, awaited |-> TRUE]
        BY <2>1 DEF Call
  <2>3. k.pc \in Steps[callers[t].kind]
    <3>1. k.pc \in Active /\ k.pc \in Steps[callers[t].kind] \cup {"idle", "queued"} \cup Ended
          BY <1>0, <2>1 DEF Stays, CallerTyped
    <3> QED BY <3>1 DEF Active, Ended
  <2> QED BY <1>0, <2>1, <2>2, <2>3 DEF Call, CallTyped
<1>9. \A o \in threads' : CallTyped(o)'
  <2>1. \A o \in threads' : CallTyped(o)
        BY <1>0, <1>7, <1>8
  <2> QED BY <1>0, <2>1 DEF CallTyped
<1>10. \A o \in threads' : /\ o \notin threads => o.by = t
                           /\ o \in kept \/ (new = {o} /\ o.by = t /\ o.kind = k.pc /\ o.awaited)
       BY <1>0, <1>7, <1>8
<1>11. \A o \in threads : o.by # t \/ ~ o.awaited => o \in threads'
       BY <1>0 DEF Kept
<1>12. /\ LockIsHeld(p)' /\ lockQueue' \in [Processes -> Seq(DOMAIN callers)]
       /\ \A q \in Processes \ {p} : lockQueue'[q] = lockQueue[q]
  <2>1. Stays(t, k) \/ Goes(t, k)
        BY DEF Turn
  <2> QED BY <1>0, <2>1, LockTurns
<1>13. (\A u \in DOMAIN callers : u # t => AtHand(u)' = AtHand(u)) /\ AtHand(t)' = UnitFor(t, k)
       BY <1>0, <1>2 DEF AtHand, UnitFor, Initializes
<1>14. ASSUME NEW u \in Mine(p) PROVE CallsAgree(u)'
  <2>1. CallsAgree(u) /\ u \in DOMAIN callers
        BY DEF DatabaseInv, ProcessInv, Mine
  <2>2. CASE u # t
    <3>1. \A o : o.by = u => (o \in threads <=> o \in threads')
          BY <1>10, <1>11, <2>2
    <3>2. doing'[u] = doing[u] /\ AtHand(u)' = AtHand(u)
          BY <1>2, <1>13, <2>1, <2>2
    <3> QED BY <2>1, <3>1, <3>2 DEF CallsAgree
  <2>3. CASE u = t
    <3>1. \A o \in kept : o.by = t => ~ o.awaited
          BY <1>0, KeptIs
    <3>2. \A o \in threads' : o.by = t /\ o.awaited => o \in new
          BY <1>0, <3>1
    <3>3. \A o, q \in threads' : o.by = t /\ q.by = t /\ o.awaited /\ q.awaited => o = q
          BY <1>8, <3>2
    <3>4. ASSUME k.pc \in Active \ {"body"} PROVE \E o \in threads' : o.by = t /\ o.awaited
      <4>1. k.pc \notin Ended
            BY <3>4 DEF Active, Ended
      <4>2. PICK what : new = {Call(t, k.pc, what)}
            BY <3>4, <4>1 DEF Turn, Goes
      <4>3. Call(t, k.pc, what).by = t /\ Call(t, k.pc, what).awaited
            BY DEF Call
      <4>4. Call(t, k.pc, what) \in threads'
            BY <1>0, <4>2
      <4> QED BY <4>3, <4>4
    <3>5. \A o \in threads' : o.by = t /\ o.awaited =>
             /\ o.kind = k.pc
             /\ o.kind = "write" => o.what = <<UnitFor(t, k), k.at + 1>> /\ k.at < Statements[UnitFor(t, k)]
          BY <1>8, <3>2
    <3> QED BY <1>2, <1>13, <2>3, <3>3, <3>4, <3>5 DEF CallsAgree
  <2> QED BY <2>2, <2>3
<1> QED BY <1>2, <1>3, <1>4, <1>6, <1>9, <1>10, <1>11, <1>12, <1>13, <1>14

\* ... with what happens to the connection and the file
TurnWith(p, t, k, kept, new, c) ==
    /\ Turn(t, k, kept, new)
    /\ doing[t].pc \in Active \/ (doing[t].pc = "queued" /\ kept = threads /\ (c = connections[p] \/ (lockQueue[p][1] = t /\ lockQueue[p] # <<>>)))
    /\ connections' = [connections EXCEPT ![p] = c] /\ ConnectionTyped(c)
    /\ \A q : q # p => (q \in usable <=> q \in usable')
    /\ stored \subseteq stored' /\ overtaken \subseteq overtaken' /\ abandoned \subseteq abandoned'

\* What is left of the calls of t that it waited for
Excused(p, t, k, kept) ==
    /\ Initializes(t) => k.pc \in {"rollback", "close", "raised"} \/ (kept = Kept(t) /\ doing[t].pc \notin {"rollback", "close"})
    /\ kept # Kept(t) =>
          \A q \in threads : q.by = t /\ q.awaited =>
              /\ q.kind = "write" => q.what \in overtaken'
              /\ callers[t].kind = "unit" /\ q.kind # "write" => p \in abandoned'

\* A turn preserves the invariant when it preserves the parts that are about the transaction
LEMMA TurnKeeps ==
    ASSUME DatabaseInv, NEW p \in Processes, NEW t \in Mine(p), NEW k, NEW kept, NEW new, NEW c,
           TurnWith(p, t, k, kept, new, c), Excused(p, t, k, kept),
           Phased(p)', EndsOnce(p)', CommitsWhole(p)', OpenIsUsed(p)', InTransaction(t)', MigratesAll(t)', Told(t)',
           p \in usable' => \A i \in Known(p) : Recorded(Migrations[i]) \in stored',
           WholeUnits(stored)'
    PROVE  DatabaseInv'
<1>0. /\ Turn(t, k, kept, new) /\ t \in DOMAIN callers /\ Home(t) = p /\ callers' = callers
      /\ DatabaseTyped /\ ProcessInv(p) /\ kept \in {Kept(t), Kept(t) \cup Forsaken(t)}
      BY DEF TurnWith, Turn, Mine, DatabaseInv
<1>1. /\ doing'[t] = k /\ \A u \in DOMAIN callers : u # t => doing'[u] = doing[u]
      /\ doing' = [u \in DOMAIN callers |-> doing'[u]]
      /\ \A u \in DOMAIN callers : CallerTyped(u, doing[u])'
      /\ Mine(p)' = Mine(p) /\ (\A u : Home(u)' = Home(u) /\ Initializes(u)' = Initializes(u)) /\ Units' = Units
      /\ \A o \in threads' : CallTyped(o)'
      /\ \A o \in threads' : /\ o \notin threads => o.by = t
                             /\ o \in kept \/ (new = {o} /\ o.by = t /\ o.kind = k.pc /\ o.awaited)
      /\ \A o \in threads : o.by # t \/ ~ o.awaited => o \in threads'
      /\ LockIsHeld(p)' /\ lockQueue' \in [Processes -> Seq(DOMAIN callers)]
      /\ \A q \in Processes \ {p} : lockQueue'[q] = lockQueue[q]
      /\ \A u \in Mine(p) : CallsAgree(u)'
      /\ \A u \in DOMAIN callers : u # t => AtHand(u)' = AtHand(u)
      BY <1>0, TurnIs
<1>2. /\ connections'[p] = c /\ \A q \in Processes \ {p} : connections'[q] = connections[q]
      /\ connections' = [q \in Processes |-> connections'[q]]
      /\ \A q \in Processes : ConnectionTyped(connections[q])'
  <2>1. connections = [q \in Processes |-> connections[q]] /\ \A q \in Processes : ConnectionTyped(connections[q])
        BY <1>0 DEF DatabaseTyped
  <2>2. connections' = [connections EXCEPT ![p] = c] /\ ConnectionTyped(c)
        BY DEF TurnWith
  <2>3. connections'[p] = c /\ \A q \in Processes \ {p} : connections'[q] = connections[q]
        BY <2>1, <2>2
  <2>4. \A q \in Processes : ConnectionTyped(connections'[q])
        BY <2>1, <2>2, <2>3
  <2> QED BY <2>1, <2>2, <2>3, <2>4 DEF ConnectionTyped
<1>3. DatabaseTyped'
  <2>1. usable' \subseteq Processes
        BY <1>0 DEF DatabaseTyped, TurnWith
  <2> QED BY <1>0, <1>1, <1>2, <2>1 DEF DatabaseTyped
<1>4. \A q \in Processes \ {p} : ProcessInv(q)'
  <2>1. \A o \in threads \cup threads' : Home(o.by) # p => (o \in threads <=> o \in threads')
        BY <1>0, <1>1
  <2>2. \A u \in DOMAIN callers : Home(u) # p => doing'[u] = doing[u]
        BY <1>0, <1>1
  <2>3. /\ \A q \in Processes \ {p} : q \in usable <=> q \in usable'
        /\ stored \subseteq stored' /\ overtaken \subseteq overtaken' /\ abandoned \subseteq abandoned'
        BY DEF TurnWith
  <2> QED BY <1>0, <1>1, <1>2, <1>3, <2>1, <2>2, <2>3, Elsewhere
<1>5. ASSUME NEW u \in Mine(p) PROVE InTransaction(u)' /\ MigratesAll(u)' /\ Told(u)'
  <2>1. CASE u = t
        BY <2>1
  <2>2. CASE u # t
    <3>1. /\ u \in DOMAIN callers /\ Home(u) = p /\ doing'[u] = doing[u] /\ AtHand(u)' = AtHand(u)
          /\ InTransaction(u) /\ MigratesAll(u) /\ Told(u)
          BY <1>0, <1>1, <2>2 DEF Mine, ProcessInv
    <3>2. doing[u].pc \notin Active \/ c = connections[p]
      <4>1. CASE doing[t].pc \in Active
            BY <1>0, <2>2, <4>1, HolderIs DEF ProcessInv
      <4>2. CASE doing[t].pc = "queued" /\ lockQueue[p][1] = t /\ lockQueue[p] # <<>>
        <5>1. doing[u].pc \in Active => u = t
          <6>1. LockIsHeld(p) /\ "queued" \notin Active
                BY <1>0 DEF ProcessInv, Active
          <6>2. doing[u].pc \in Active => lockQueue[p][1] = u
                BY <1>0, <6>1, HolderIs
          <6> QED BY <4>2, <6>2
        <5> QED BY <2>2, <5>1
      <4> QED BY <4>1, <4>2 DEF TurnWith
    <3>3. Alive \subseteq Active /\ stored \subseteq stored' /\ overtaken \subseteq overtaken' /\ abandoned \subseteq abandoned'
          BY DEF Alive, Active, TurnWith
    <3>4. InTransaction(u)'
      <4>1. CASE doing[u].pc \in Alive
        <5>1. connections'[p] = connections[p]
              BY <1>2, <3>2, <3>3, <4>1
        <5> QED BY <1>1, <3>1, <3>3, <5>1 DEF InTransaction, Under
      <4>2. CASE doing[u].pc \notin Alive
            BY <3>1, <4>2 DEF InTransaction
      <4> QED BY <4>1, <4>2
    <3>5. MigratesAll(u)'
          BY <1>1, <3>1, <3>3 DEF MigratesAll
    <3>6. Told(u)'
          BY <1>0, <1>1, <3>1, <3>3 DEF Told, WholeIn
    <3> QED BY <3>4, <3>5, <3>6
  <2> QED BY <2>1, <2>2
<1>6. ASSUME NEW o \in CallsOf(p)' PROVE LooseIsKnown(o)'
  <2>1. o \in threads' /\ Home(o.by) = p
        BY <1>1 DEF CallsOf
  <2>2. CASE o \notin kept
        BY <1>1, <2>1, <2>2 DEF LooseIsKnown
  <2>3. CASE o \in kept /\ o \in threads /\ o.by # t
    <3>1. LooseIsKnown(o) /\ o.by \in DOMAIN callers
          BY <1>0, <2>1, <2>3 DEF ProcessInv, CallsOf, DatabaseTyped, CallTyped
    <3>2. doing'[o.by] = doing[o.by]
          BY <1>1, <2>3, <3>1
    <3> QED BY <1>0, <1>1, <3>1, <3>2 DEF LooseIsKnown, TurnWith
  <2>4. CASE o \in kept /\ o \in threads /\ o.by = t /\ ~ o.awaited
    <3>1. LooseIsKnown(o)
          BY <1>0, <2>1, <2>4 DEF ProcessInv, CallsOf
    <3>2. Initializes(t) => k.pc \in {"rollback", "close", "raised"}
      <4>1. Initializes(t) => doing[t].pc \in {"rollback", "close", "raised"}
            BY <2>4, <3>1 DEF LooseIsKnown
      <4>2. doing[t].pc # "raised"
            BY DEF TurnWith, Active
      <4> QED BY <4>1, <4>2 DEF Excused
    <3> QED BY <1>0, <1>1, <2>4, <3>1, <3>2 DEF LooseIsKnown, TurnWith
  <2>5. CASE o \in kept /\ ~ (o \in threads /\ ~ (o.by = t /\ o.awaited))
    <3>1. PICK q \in threads : q.by = t /\ q.awaited /\ o.by = t /\ o.kind = q.kind /\ o.what = q.what /\ ~ o.awaited
          BY <1>0, <2>5, KeptIs
    <3>2. kept # Kept(t)
          BY <2>5 DEF Kept
    <3>3. Initializes(t) => k.pc \in {"rollback", "close", "raised"}
          BY <3>2 DEF Excused
    <3> QED BY <1>0, <1>1, <3>1, <3>2, <3>3 DEF LooseIsKnown, Excused
  <2> QED BY <2>2, <2>3, <2>4, <2>5
<1>7. ProcessInv(p)'
      BY <1>1, <1>5, <1>6 DEF ProcessInv
<1> QED BY <1>3, <1>4, <1>7 DEF DatabaseInv

\* Every call after a turn is the one that t waits for, or was there before
LEMMA CallsBefore ==
    ASSUME DatabaseInv, NEW p \in Processes, NEW t \in Mine(p), NEW k, NEW kept, NEW new, NEW c,
           TurnWith(p, t, k, kept, new, c)
    PROVE  /\ connections'[p] = c /\ doing'[t] = k /\ \A u \in Mine(p) : u # t => doing'[u] = doing[u]
           /\ Mine(p)' = Mine(p) /\ t \in DOMAIN callers /\ Home(t) = p
           /\ \A u : Home(u)' = Home(u) /\ Initializes(u)' = Initializes(u) /\ callers'[u] = callers[u]
           /\ \A o \in CallsOf(p)' :
                 /\ o \in threads' /\ o.by \in Mine(p)
                 /\ o = [by |-> o.by, kind |-> o.kind, what |-> o.what, awaited |-> o.awaited] /\ o.awaited \in BOOLEAN
                 /\ \/ new = {o} /\ o.by = t /\ o.kind = k.pc /\ o.awaited /\ k.pc \in Active
                    \/ o \in CallsOf(p) /\ ~ (o.by = t /\ o.awaited)
                    \/ \E q \in CallsOf(p) : /\ q.by = t /\ q.awaited /\ o.by = t /\ o.kind = q.kind /\ o.what = q.what
                                             /\ ~ o.awaited /\ q.kind = doing[t].pc
           /\ \A o \in CallsOf(p) : o.by # t \/ ~ o.awaited => o \in CallsOf(p)'
           /\ k.pc \in Ended \/ k.pc \in Active
           /\ k.pc \in Active => doing[t].pc \in Active \/ (lockQueue[p][1] = t /\ lockQueue[p] # <<>>)
<1>0. /\ Turn(t, k, kept, new) /\ t \in DOMAIN callers /\ Home(t) = p /\ callers' = callers
      /\ DatabaseTyped /\ ProcessInv(p) /\ kept \in {Kept(t), Kept(t) \cup Forsaken(t)} /\ threads' = kept \cup new
      BY DEF TurnWith, Turn, Mine, DatabaseInv
<1>1. /\ doing'[t] = k /\ \A u \in DOMAIN callers : u # t => doing'[u] = doing[u]
      /\ Mine(p)' = Mine(p) /\ (\A u : Home(u)' = Home(u) /\ Initializes(u)' = Initializes(u))
      /\ \A o \in threads' : CallTyped(o)'
      /\ \A o \in threads' : /\ o \notin threads => o.by = t
                             /\ o \in kept \/ (new = {o} /\ o.by = t /\ o.kind = k.pc /\ o.awaited)
      /\ \A o \in threads : o.by # t \/ ~ o.awaited => o \in threads'
      BY <1>0, TurnIs
<1>2. connections'[p] = c
  <2>1. connections = [q \in Processes |-> connections[q]]
        BY <1>0 DEF DatabaseTyped
  <2> QED BY <2>1 DEF TurnWith
<1>3. k.pc \in Ended \/ k.pc \in Active
      BY DEF TurnWith, Turn, Goes, Stays
<1>4. k.pc \in Active => doing[t].pc \in Active \/ (lockQueue[p][1] = t /\ lockQueue[p] # <<>>)
  <2>1. k.pc \in Active => k.pc \notin Ended
        BY DEF Active, Ended
  <2> QED BY <1>0, <2>1 DEF Turn, Goes, Stays
<1>5. ASSUME NEW o \in CallsOf(p)'
      PROVE  /\ o \in threads' /\ o.by \in Mine(p)
             /\ o = [by |-> o.by, kind |-> o.kind, what |-> o.what, awaited |-> o.awaited] /\ o.awaited \in BOOLEAN
             /\ \/ new = {o} /\ o.by = t /\ o.kind = k.pc /\ o.awaited /\ k.pc \in Active
                \/ o \in CallsOf(p) /\ ~ (o.by = t /\ o.awaited)
                \/ \E q \in CallsOf(p) : /\ q.by = t /\ q.awaited /\ o.by = t /\ o.kind = q.kind /\ o.what = q.what
                                         /\ ~ o.awaited /\ q.kind = doing[t].pc
  <2>1. /\ o \in threads' /\ Home(o.by) = p /\ o.by \in DOMAIN callers
        /\ o = [by |-> o.by, kind |-> o.kind, what |-> o.what, awaited |-> o.awaited] /\ o.awaited \in BOOLEAN
        BY <1>0, <1>1 DEF CallsOf, CallTyped
  <2>2. CASE o \notin kept
    <3>1. new # {}
          BY <1>1, <2>1, <2>2
    <3>2. k.pc \in Active
          BY <3>1 DEF TurnWith, Turn, Stays
    <3> QED BY <1>1, <2>1, <2>2, <3>2 DEF Mine
  <2>3. CASE o \in kept
        BY <1>0, <2>1, <2>3, KeptIs DEF CallsOf, Mine
  <2> QED BY <2>2, <2>3
<1>6. \A o \in CallsOf(p) : o.by # t \/ ~ o.awaited => o \in CallsOf(p)'
      BY <1>1 DEF CallsOf
<1> QED BY <1>0, <1>1, <1>2, <1>3, <1>4, <1>5, <1>6 DEF Mine

NoFinisher(p) == \A o \in CallsOf(p) : o.kind \notin Finishing

\* A transaction of a unit still ends once after a turn
LEMMA EndsTurn ==
    ASSUME DatabaseInv, NEW p \in Processes, NEW t \in Mine(p), NEW k, NEW kept, NEW new, NEW c,
           TurnWith(p, t, k, kept, new, c),
           \/ NoFinisher(p) /\ doing[t].pc \in Active /\ c.state # "idle"
           \/ /\ k.pc \notin Alive \cup {"rollback", "unbegin"} \/ Initializes(t)
              /\ c.state # "idle" \/ (\A o \in CallsOf(p)' : o.kind \notin Finishing \/ Initializes(o.by))
    PROVE  EndsOnce(p)'
<1> SUFFICES ASSUME NEW o \in CallsOf(p)', o.kind \in Finishing, callers[o.by].kind = "unit"
             PROVE  /\ c.state # "idle"
                    /\ doing'[o.by].pc \notin {"body", "write"}
                    /\ \A u \in Mine(p) : u # o.by => doing'[u].pc \notin Alive \cup {"rollback", "unbegin"}
                    /\ \A q \in CallsOf(p)' : q.kind \in Finishing => q = o
    BY CallsBefore DEF EndsOnce
<1>0. ProcessInv(p) /\ DatabaseTyped /\ EndsOnce(p) /\ LockIsHeld(p)
      BY DEF DatabaseInv, ProcessInv
<1>1. CASE NoFinisher(p) /\ doing[t].pc \in Active /\ c.state # "idle"
  <2>1. \A q \in CallsOf(p)' : q.kind \in Finishing => new = {q} /\ q.by = t /\ q.kind = k.pc
        BY <1>1, CallsBefore DEF NoFinisher
  <2>2. new = {o} /\ o.by = t /\ k.pc = o.kind
        BY <2>1
  <2>3. \A u \in Mine(p) : doing[u].pc \in Active => u = t
        BY <1>0, <1>1, HolderIs
  <2>4. \A u \in Mine(p) : u # o.by => doing'[u].pc \notin Alive \cup {"rollback", "unbegin"}
        BY <2>2, <2>3, CallsBefore DEF Active, Alive
  <2>5. doing'[o.by].pc \notin {"body", "write"}
        BY <2>2, CallsBefore DEF Finishing
  <2> QED BY <1>1, <2>1, <2>2, <2>4, <2>5
<1>2. CASE /\ k.pc \notin Alive \cup {"rollback", "unbegin"} \/ Initializes(t)
           /\ c.state # "idle" \/ (\A q \in CallsOf(p)' : q.kind \notin Finishing \/ Initializes(q.by))
  <2>0. ~ Initializes(o.by) /\ c.state # "idle"
        BY <1>2 DEF Initializes
  <2>1. ASSUME NEW q \in CallsOf(p)', q.kind \in Finishing, ~ Initializes(q.by)
        PROVE  \/ q \in CallsOf(p) /\ ~ (q.by = t /\ q.awaited)
               \/ \E r \in CallsOf(p) : r.by = t /\ r.awaited /\ q.by = t /\ q.kind = r.kind
                                             /\ q.what = r.what /\ ~ q.awaited
        BY <1>2, <2>1, CallsBefore DEF Finishing, Alive
  <2>2. PICK r \in CallsOf(p) : /\ r.by = o.by /\ r.kind = o.kind /\ r.what = o.what
                                /\ r = o \/ (r.by = t /\ r.awaited)
        BY <2>0, <2>1
  <2>3. /\ doing[o.by].pc \notin {"body", "write"}
        /\ \A u \in Mine(p) : u # o.by => doing[u].pc \notin Alive \cup {"rollback", "unbegin"}
        /\ \A q \in CallsOf(p) : q.kind \in Finishing => q = r
        BY <1>0, <2>2 DEF EndsOnce
  <2>4. o.by \in Mine(p) /\ r.by \in Mine(p)
        BY <2>2, CallsBefore
  <2>5. Initializes(t) => t # o.by
        BY <2>0
  <2>6. ASSUME Initializes(t) PROVE doing[t].pc = "done"
    <3>1. Home(o.by) = p /\ o.by \in DOMAIN callers /\ \E q \in threads : q.by = o.by
          BY <2>2, <2>4 DEF CallsOf, Mine
    <3> QED BY <1>0, <2>0, <2>2, <2>4, <2>6, <3>1 DEF ProcessInv, Phased
  <2>7. ~ Initializes(t)
        BY <2>6 DEF TurnWith, Active
  <2>8. k.pc \notin Alive \cup {"rollback", "unbegin"}
        BY <1>2, <2>7
  <2>9. /\ doing'[o.by].pc \notin {"body", "write"}
        /\ \A u \in Mine(p) : u # o.by => doing'[u].pc \notin Alive \cup {"rollback", "unbegin"}
        BY <2>3, <2>4, <2>8, CallsBefore DEF Alive
  <2>10. ASSUME NEW q \in CallsOf(p)', q.kind \in Finishing PROVE q = o
    <3>1. ~ Initializes(q.by)
      <4>1. ASSUME Initializes(q.by) PROVE q \in CallsOf(p) /\ q.by \in Mine(p) /\ q \in threads
            BY <2>7, <2>10, <4>1, CallsBefore DEF CallsOf
      <4>2. ASSUME Initializes(q.by) PROVE doing[q.by].pc = "done"
        <5>1. \E x \in threads : x.by = o.by
              BY <2>2 DEF CallsOf
        <5> QED BY <1>0, <2>0, <2>4, <4>1, <4>2, <5>1 DEF ProcessInv, Phased
      <4> QED BY <1>0, <4>1, <4>2 DEF ProcessInv, Phased
    <3>2. PICK s \in CallsOf(p) : /\ s.kind = q.kind /\ s.by = q.by /\ s.what = q.what
                                  /\ (s = q /\ ~ (q.by = t /\ q.awaited)) \/ (s.by = t /\ s.awaited /\ ~ q.awaited)
          BY <2>1, <2>10, <3>1
    <3>3. s = r
          BY <2>3, <2>10, <3>2
    <3>4. CASE ~ (r.by = t /\ r.awaited)
          BY <2>2, <3>2, <3>3, <3>4
    <3>5. CASE r.by = t /\ r.awaited
      <4>1. ~ q.awaited /\ ~ o.awaited
            BY <2>1, <2>0, <2>2, <3>2, <3>3, <3>5
      <4>2. q.by = o.by /\ q.kind = o.kind /\ q.what = o.what
            BY <2>2, <3>2, <3>3
      <4>3. /\ q = [by |-> q.by, kind |-> q.kind, what |-> q.what, awaited |-> FALSE]
            /\ o = [by |-> o.by, kind |-> o.kind, what |-> o.what, awaited |-> FALSE]
            BY <4>1, CallsBefore
      <4> QED BY <4>2, <4>3
    <3> QED BY <3>4, <3>5
  <2> QED BY <2>0, <2>9, <2>10
<1> QED BY <1>1, <1>2

\* A caller that is past the lock, or has it, goes on in a phase of its process
LEMMA ActiveIs ==
    ASSUME DatabaseInv, NEW p \in Processes, NEW t \in Mine(p), doing[t].pc \in Active
    PROVE  /\ ~ Initializes(t) => \A u \in Mine(p) : Initializes(u) => doing[u].pc = "done"
           /\ \A o \in CallsOf(p) : o.by \in Mine(p) /\ (o.by = t /\ o.awaited => o.kind = doing[t].pc)
                 /\ (Initializes(t) => o.by = t) /\ (~ Initializes(t) => ~ Initializes(o.by))
                 /\ (o.by = t /\ ~ o.awaited /\ Initializes(t) => doing[t].pc \in {"rollback", "close", "raised"})
           /\ callers[t].kind \in {"unit", "query"} => p \in usable /\ \A o \in CallsOf(p) : o.kind # "close"
           /\ \A u \in Mine(p) : doing[u].pc \in Active => u = t
<1>0. /\ ProcessInv(p) /\ DatabaseTyped /\ Phased(p) /\ LockIsHeld(p) /\ t \in DOMAIN callers /\ Home(t) = p
      /\ \A u, v \in DOMAIN callers : Initializes(u) /\ Initializes(v) /\ Home(u) = Home(v) => u = v
  <2>1. /\ ProcessInv(p) /\ DatabaseTyped /\ Phased(p) /\ LockIsHeld(p) /\ t \in DOMAIN callers /\ Home(t) = p
        BY DEF DatabaseInv, ProcessInv, Mine
  <2>2. callers \in Deployments
        BY <2>1 DEF DatabaseTyped
  <2> QED BY <2>1, <2>2, DeploymentIs
<1>1. ASSUME ~ Initializes(t), NEW u \in Mine(p), Initializes(u) PROVE doing[u].pc = "done"
      BY <1>0, <1>1 DEF Phased
<1>2. ASSUME NEW o \in CallsOf(p)
      PROVE  /\ o.by \in Mine(p) /\ (o.by = t /\ o.awaited => o.kind = doing[t].pc)
             /\ (Initializes(t) => o.by = t) /\ (~ Initializes(t) => ~ Initializes(o.by))
             /\ (o.by = t /\ ~ o.awaited /\ Initializes(t) => doing[t].pc \in {"rollback", "close", "raised"})
  <2>1. o \in threads /\ o.by \in DOMAIN callers /\ Home(o.by) = p /\ o.by \in Mine(p)
        BY <1>0 DEF CallsOf, DatabaseTyped, CallTyped, Mine
  <2>2. o.by = t /\ o.awaited => o.kind = doing[t].pc
        BY <1>0, <2>1 DEF ProcessInv, CallsAgree
  <2>3. ASSUME Initializes(t) PROVE o.by = t
    <3>1. doing[t].pc # "done"
          BY DEF Active
    <3>2. Initializes(o.by)
          BY <1>0, <2>1, <2>3, <3>1 DEF Phased
    <3> QED BY <1>0, <2>1, <2>3, <3>2
  <2>4. ASSUME ~ Initializes(t) PROVE ~ Initializes(o.by)
    <3>1. Initializes(o.by) => doing[o.by].pc = "done"
          BY <1>1, <2>1, <2>4
    <3> QED BY <1>0, <2>1, <3>1 DEF Phased
  <2>5. o.by = t /\ ~ o.awaited /\ Initializes(t) => doing[t].pc \in {"rollback", "close", "raised"}
        BY <1>0 DEF ProcessInv, LooseIsKnown
  <2> QED BY <2>1, <2>2, <2>3, <2>4, <2>5
<1>3. callers[t].kind \in {"unit", "query"} => p \in usable /\ \A o \in CallsOf(p) : o.kind # "close"
      BY <1>0 DEF Phased
<1>4. \A u \in Mine(p) : doing[u].pc \in Active => u = t
      BY <1>0, HolderIs
<1> QED BY <1>1, <1>2, <1>3, <1>4

\* Nothing is about to end a transaction that is being written, or the one before it begins
LEMMA AloneIs ==
    ASSUME DatabaseInv, NEW p \in Processes, NEW t \in Mine(p),
           doing[t].pc \in {"body", "write"} \/ (doing[t].pc \in {"begin", "versions"} /\ connections[p].state = "idle")
    PROVE  NoFinisher(p)
<1> SUFFICES ASSUME NEW o \in CallsOf(p), o.kind \in Finishing PROVE FALSE
    BY DEF NoFinisher
<1>1. doing[t].pc \in Active /\ EndsOnce(p) /\ t \in DOMAIN callers
      BY DEF Active, DatabaseInv, ProcessInv, Mine
<1>2. /\ o.by \in Mine(p) /\ (o.by = t /\ o.awaited => o.kind = doing[t].pc)
      /\ (Initializes(t) => o.by = t) /\ (~ Initializes(t) => ~ Initializes(o.by))
      /\ (o.by = t /\ ~ o.awaited /\ Initializes(t) => doing[t].pc \in {"rollback", "close", "raised"})
      BY <1>1, ActiveIs
<1>3. CASE Initializes(t)
  <2>1. CallTyped(o)
        BY DEF DatabaseInv, DatabaseTyped, CallsOf
  <2> QED BY <1>2, <1>3, <2>1 DEF Finishing, CallTyped
<1>4. CASE ~ Initializes(t)
  <2>1. CallTyped(o) /\ callers \in Deployments
        BY DEF DatabaseInv, DatabaseTyped, CallsOf
  <2>2. callers[o.by].kind \in {"unit", "query", "close"}
        BY <1>2, <1>4, <2>1, DeploymentIs DEF CallTyped, Initializes
  <2>3. callers[o.by].kind = "unit"
        BY <2>1, <2>2 DEF CallTyped, Steps, Finishing
  <2> QED BY <1>1, <2>3 DEF EndsOnce, Alive
<1> QED BY <1>3, <1>4

\* What waits to be committed after a turn is whole
LEMMA CommitTurn ==
    ASSUME DatabaseInv, NEW p \in Processes, NEW t \in Mine(p), NEW k, NEW kept, NEW new, NEW c,
           TurnWith(p, t, k, kept, new, c),
           c.pending \in {{}, connections[p].pending} \/ NoFinisher(p),
           k.pc = "commit" => WholeUnits(c.pending)'
    PROVE  CommitsWhole(p)'
<1> SUFFICES ASSUME NEW o \in CallsOf(p)', o.kind = "commit" PROVE WholeUnits(c.pending)'
    BY CallsBefore DEF CommitsWhole, WholeUnits
<1>1. CASE new = {o} /\ o.kind = k.pc
      BY <1>1
<1>2. CASE \E r \in CallsOf(p) : r.kind = "commit"
  <2>1. ~ NoFinisher(p)
        BY <1>2 DEF NoFinisher, Finishing
  <2>2. WholeUnits(connections[p].pending)
        BY <1>2 DEF DatabaseInv, ProcessInv, CommitsWhole
  <2>3. overtaken \subseteq overtaken' /\ callers' = callers /\ Names' = Names
        BY DEF TurnWith, Turn, Names, Units
  <2>4. CASE c.pending = {}
        BY <2>4 DEF WholeUnits, WholeIn
  <2>5. CASE c.pending = connections[p].pending
        BY <2>2, <2>3, <2>5 DEF WholeUnits, WholeIn
  <2> QED BY <2>1, <2>4, <2>5
<1> QED BY <1>1, <1>2, CallsBefore

\* An open transaction is somebody's after a turn
LEMMA OpenTurn ==
    ASSUME DatabaseInv, NEW p \in Processes, NEW t \in Mine(p), NEW k, NEW kept, NEW new, NEW c,
           TurnWith(p, t, k, kept, new, c),
           \/ p \in abandoned' \/ c.state # "open" \/ k.pc \in Alive \cup {"rollback", "unbegin", "close"}
           \/ \E o \in CallsOf(p)' : o.kind = "close"
           \/ connections[p].state = "open" /\ doing[t].pc \notin Alive \cup {"rollback", "unbegin", "close"}
    PROVE  OpenIsUsed(p)'
<1> SUFFICES ASSUME p \notin abandoned', c.state = "open", k.pc \notin Alive \cup {"rollback", "unbegin", "close"},
                    connections[p].state = "open", doing[t].pc \notin Alive \cup {"rollback", "unbegin", "close"}
             PROVE  \/ \E u \in Mine(p) : doing'[u].pc \in Alive \cup {"rollback", "unbegin", "close"}
                    \/ \E o \in CallsOf(p)' : o.kind = "close"
    BY CallsBefore DEF OpenIsUsed
<1>1. p \notin abandoned /\ OpenIsUsed(p)
      BY DEF TurnWith, DatabaseInv, ProcessInv
<1>2. CASE \E u \in Mine(p) : doing[u].pc \in Alive \cup {"rollback", "unbegin", "close"}
  <2>1. PICK u \in Mine(p) : doing[u].pc \in Alive \cup {"rollback", "unbegin", "close"}
        BY <1>2
  <2>2. u # t /\ doing'[u] = doing[u]
        BY <2>1, CallsBefore
  <2> QED BY <2>1, <2>2
<1>3. CASE \E o \in CallsOf(p) : o.kind = "close"
  <2>1. PICK o \in CallsOf(p) : o.kind = "close"
        BY <1>3
  <2>2. o.by = t /\ o.awaited => o.kind = doing[t].pc
        BY DEF DatabaseInv, ProcessInv, CallsAgree, CallsOf
  <2>3. o \in CallsOf(p)'
        BY <2>1, <2>2, CallsBefore
  <2> QED BY <2>1, <2>3
<1> QED BY <1>1, <1>2, <1>3 DEF OpenIsUsed

\* A turn of a task in a process that is up, and of the one that brings it up
LEMMA ServeTurn ==
    ASSUME DatabaseInv, NEW p \in Processes, NEW t \in Mine(p), NEW k, NEW kept, NEW new, NEW c,
           TurnWith(p, t, k, kept, new, c), ~ Initializes(t),
           doing[t].pc \in Active \/ k.pc \notin Active \/ p \in usable,
           c = connections[p] \/ doing[t].pc \in Active,
           p \in usable' => p \in usable,
           (p \in usable <=> p \in usable') \/ (lockQueue[p] # <<>> /\ lockQueue[p][1] = t),
           k.pc \in Active /\ callers[t].kind \in {"unit", "query"} => p \in usable',
           k.pc = "close" => p \notin usable'
    PROVE  Phased(p)'
<1>0. /\ Phased(p) /\ DatabaseTyped /\ LockIsHeld(p)
      /\ connections'[p] = c /\ doing'[t] = k /\ \A u \in Mine(p) : u # t => doing'[u] = doing[u]
      /\ Mine(p)' = Mine(p) /\ t \in DOMAIN callers /\ Home(t) = p /\ callers' = callers
      /\ \A u : Home(u)' = Home(u) /\ Initializes(u)' = Initializes(u) /\ callers'[u] = callers[u]
  <2>1. Phased(p) /\ DatabaseTyped /\ LockIsHeld(p) /\ callers' = callers
        BY DEF DatabaseInv, ProcessInv, TurnWith, Turn
  <2>2. /\ connections'[p] = c /\ doing'[t] = k /\ \A u \in Mine(p) : u # t => doing'[u] = doing[u]
        /\ Mine(p)' = Mine(p) /\ t \in DOMAIN callers /\ Home(t) = p
        /\ \A u : Home(u)' = Home(u) /\ Initializes(u)' = Initializes(u) /\ callers'[u] = callers[u]
        BY CallsBefore
  <2> QED BY <2>1, <2>2
<1>1. \A o \in threads' : o.by # t => o \in threads
  <2>1. Turn(t, k, kept, new)
        BY DEF TurnWith
  <2> QED BY <2>1, TurnIs
<1>2. \A o \in threads : o.by # t => o \in threads'
  <2>1. Turn(t, k, kept, new)
        BY DEF TurnWith
  <2> QED BY <2>1, TurnIs
<1>3. doing[t].pc \notin {"idle", "done", "raised"}
      BY DEF TurnWith, Active
<1>4. ASSUME doing[t].pc \in Active, NEW u \in Mine(p), Initializes(u) PROVE doing[u].pc = "done"
      BY <1>0, <1>4 DEF Phased
<1>5. ASSUME NEW u \in Mine(p), Initializes(u)
      PROVE  /\ p \in usable' => doing'[u].pc = "done"
             /\ doing'[u].pc \in {"idle", "queued"} => c.state = "closed"
             /\ doing'[u].pc \in {"versions", "begin"} => c.state = "idle"
             /\ doing'[u].pc = "raised" => c.state = "closed" \/ \E o \in threads' : o.by = u /\ o.kind = "close"
             /\ \A o \in threads' : o.by = u => doing'[u].pc \notin {"idle", "queued", "done"}
             /\ \A v \in Mine(p) : ~ Initializes(v) /\
                   (doing'[v].pc \in Active \/ \E o \in threads' : o.by = v) => doing'[u].pc = "done"
  <2>1. u # t /\ doing'[u] = doing[u]
        BY <1>0, <1>5
  <2>2. p \in usable' => doing[u].pc = "done"
        BY <1>0, <1>5 DEF Phased
  <2>3. c = connections[p] \/ doing[u].pc = "done"
        BY <1>4, <1>5
  <2>4. doing[u].pc \in {"idle", "queued"} => c.state = "closed"
        BY <1>0, <1>5, <2>3 DEF Phased
  <2>5. doing[u].pc \in {"versions", "begin"} => c.state = "idle"
        BY <1>0, <1>5, <2>3 DEF Phased
  <2>6. doing[u].pc = "raised" => c.state = "closed" \/ \E o \in threads' : o.by = u /\ o.kind = "close"
        BY <1>0, <1>2, <1>5, <2>1, <2>3 DEF Phased
  <2>7. \A o \in threads' : o.by = u => doing[u].pc \notin {"idle", "queued", "done"}
        BY <1>0, <1>1, <1>5, <2>1 DEF Phased
  <2>8. ASSUME NEW v \in Mine(p), ~ Initializes(v), doing'[v].pc \in Active \/ \E o \in threads' : o.by = v
        PROVE  doing[u].pc = "done"
    <3>1. CASE v # t
          BY <1>0, <1>1, <1>5, <2>8, <3>1 DEF Phased
    <3>2. CASE v = t /\ (doing[t].pc \in Active \/ p \in usable)
          BY <1>0, <1>4, <1>5, <3>2 DEF Phased
    <3>3. CASE v = t /\ doing[t].pc \notin Active /\ k.pc \notin Active
      <4>1. PICK o \in threads' : o.by = t
            BY <1>0, <2>8, <3>3
      <4>2. (kept = threads /\ new = {}) \/ k.pc \in Active
            BY <3>3 DEF TurnWith, Turn, Stays
      <4>3. o \in threads
            BY <3>3, <4>1, <4>2 DEF TurnWith, Turn
      <4> QED BY <1>0, <1>5, <2>8, <3>3, <4>1, <4>3 DEF Phased
    <3> QED BY <3>1, <3>2, <3>3
  <2> QED BY <2>1, <2>2, <2>4, <2>5, <2>6, <2>7, <2>8
<1>6. ASSUME NEW u \in Mine(p), callers[u].kind \in {"unit", "query"}, doing'[u].pc \in Active PROVE p \in usable'
  <2>1. CASE u = t
        BY <1>0, <1>6, <2>1
  <2>2. CASE u # t
    <3>1. doing[u].pc \in Active /\ p \in usable
          BY <1>0, <1>6, <2>2 DEF Phased
    <3>2. lockQueue[p][1] = u
          BY <1>0, <3>1, HolderIs
    <3> QED BY <2>2, <3>1, <3>2
  <2> QED BY <2>1, <2>2
<1>7. ASSUME NEW o \in CallsOf(p)', o.kind = "close" PROVE p \notin usable'
  <2>1. CASE \E r \in CallsOf(p) : r.kind = "close"
        BY <1>0, <2>1 DEF Phased
  <2>2. CASE o.kind = k.pc
        BY <1>7, <2>2
  <2> QED BY <1>7, <2>1, <2>2, CallsBefore
<1> QED BY <1>0, <1>5, <1>6, <1>7 DEF Phased

LEMMA InitTurn ==
    ASSUME DatabaseInv, NEW p \in Processes, NEW t \in Mine(p), NEW k, NEW kept, NEW new, NEW c,
           TurnWith(p, t, k, kept, new, c), Initializes(t),
           p \in usable' => k.pc = "done",
           k.pc \in {"versions", "begin"} => c.state = "idle",
           k.pc = "raised" => c.state = "closed" \/ \E o \in threads' : o.by = t /\ o.kind = "close",
           k.pc = "done" => \A o \in threads' : o.by # t
    PROVE  Phased(p)'
<1>0. /\ Phased(p) /\ DatabaseTyped /\ LockIsHeld(p)
      /\ connections'[p] = c /\ doing'[t] = k /\ \A u \in Mine(p) : u # t => doing'[u] = doing[u]
      /\ Mine(p)' = Mine(p) /\ t \in DOMAIN callers /\ Home(t) = p /\ callers' = callers
      /\ \A u : Home(u)' = Home(u) /\ Initializes(u)' = Initializes(u) /\ callers'[u] = callers[u]
  <2>1. Phased(p) /\ DatabaseTyped /\ LockIsHeld(p) /\ callers' = callers
        BY DEF DatabaseInv, ProcessInv, TurnWith, Turn
  <2>2. /\ connections'[p] = c /\ doing'[t] = k /\ \A u \in Mine(p) : u # t => doing'[u] = doing[u]
        /\ Mine(p)' = Mine(p) /\ t \in DOMAIN callers /\ Home(t) = p
        /\ \A u : Home(u)' = Home(u) /\ Initializes(u)' = Initializes(u) /\ callers'[u] = callers[u]
        BY CallsBefore
  <2> QED BY <2>1, <2>2
<1>1. \A o \in threads' : o.by # t => o \in threads
  <2>1. Turn(t, k, kept, new)
        BY DEF TurnWith
  <2> QED BY <2>1, TurnIs
<1>2. doing[t].pc # "done" /\ k.pc \notin {"idle", "queued"}
      BY DEF TurnWith, Turn, Stays, Goes, Active, Ended
<1>3. ASSUME NEW u \in Mine(p), u # t
      PROVE  ~ Initializes(u) /\ doing'[u].pc \notin Active /\ \A o \in threads' : o.by # u
  <2>1. ~ Initializes(u)
    <3>1. callers \in Deployments /\ u \in DOMAIN callers /\ Home(u) = p
          BY <1>0 DEF DatabaseTyped, Mine
    <3> QED BY <1>0, <1>3, <3>1, DeploymentIs
  <2>2. doing[u].pc \notin Active /\ \A o \in threads : o.by # u
        BY <1>0, <1>2, <2>1 DEF Phased
  <2> QED BY <1>0, <1>1, <1>3, <2>1, <2>2
<1>4. ASSUME NEW o \in CallsOf(p)' PROVE o.by = t
      BY <1>3, CallsBefore
<1>5. p \notin usable' \/ CallsOf(p)' = {}
      BY <1>4, CallsBefore
<1>6. /\ p \in usable' => k.pc = "done"
      /\ k.pc \in {"idle", "queued"} => c.state = "closed"
      /\ k.pc \in {"versions", "begin"} => c.state = "idle"
      /\ k.pc = "raised" => c.state = "closed" \/ \E o \in threads' : o.by = t /\ o.kind = "close"
      /\ \A o \in threads' : o.by = t => k.pc \notin {"idle", "queued", "done"}
      /\ \A u \in Mine(p) : ~ Initializes(u) => ~ (doing'[u].pc \in Active \/ \E o \in threads' : o.by = u)
      BY <1>2, <1>3
<1>7. ASSUME NEW u \in Mine(p), callers[u].kind \in {"unit", "query"}, doing'[u].pc \in Active PROVE FALSE
      BY <1>3, <1>7 DEF Initializes
<1>8. \A u \in Mine(p) : Initializes(u) => u = t
      BY <1>3
<1> QED BY <1>0, <1>5, <1>6, <1>7, <1>8 DEF Phased

\* A call under way is one of its caller's
LEMMA StepsAre ==
    ASSUME DatabaseInv, NEW t \in DOMAIN callers
    PROVE  Steps[callers[t].kind] \subseteq Active
<1>1. callers \in Deployments
      BY DEF DatabaseInv, DatabaseTyped
<1>2. callers[t].kind \in {"initialize", "unit", "query", "close"}
      BY <1>1, DeploymentIs
<1> QED BY <1>2 DEF Steps, Active

(* The ways in which a caller goes on are turns.                           *)
Fits(t, kind, what, state) ==
    kind = "write" => what = <<UnitFor(t, state), state.at + 1>> /\ state.at < Statements[UnitFor(t, state)]

\* The ways that the code of a task goes on are turns: it waits for a write, for another call, or leaves
LEMMA AwaitsIs ==
    ASSUME DatabaseInv, NEW p \in Processes, NEW t \in Mine(p), callers' = callers,
           NEW rest \in {Kept(t), Kept(t) \cup Forsaken(t)}, NEW kind, NEW what, NEW state, CallerTyped(t, state),
           kind \in Steps[callers[t].kind] \ {"body"}, Awaits(t, rest, kind, what, state),
           lockQueue[p] # <<>>, lockQueue[p][1] = t, Fits(t, kind, what, state),
           NEW k, k = [state EXCEPT !.pc = kind]
    PROVE  Turn(t, k, rest, {Call(t, k.pc, what)})
<1>2. t \in DOMAIN callers /\ Home(t) = p
      BY DEF Mine
<1>3. /\ k.pc = kind /\ k.at = state.at /\ k.todo = state.todo /\ k.now = state.now
      /\ k.hit = state.hit /\ k.saw = state.saw
      /\ k = [pc |-> k.pc, at |-> k.at, todo |-> k.todo, now |-> k.now, hit |-> k.hit, saw |-> k.saw]
      BY DEF CallerTyped, IsCaller
<1>4. CallerTyped(t, k)
      BY <1>3 DEF CallerTyped, IsCaller
<1>5. kind \in Active
      BY <1>2, StepsAre
<1>6. Stays(t, k) /\ k.pc # "body"
      BY <1>2, <1>3, <1>5 DEF Stays, Awaits
<1>7. UnitFor(t, k) = UnitFor(t, state)
      BY <1>3 DEF UnitFor
<1>8. doing' = [doing EXCEPT ![t] = k] /\ threads' = rest \cup {Call(t, k.pc, what)}
      BY <1>3 DEF Awaits
<1> QED BY <1>3, <1>4, <1>6, <1>7, <1>8 DEF Turn, Fits

LEMMA AwaitsOther ==
    ASSUME DatabaseInv, NEW p \in Processes, NEW t \in Mine(p), callers' = callers,
           NEW rest \in {Kept(t), Kept(t) \cup Forsaken(t)}, NEW kind, NEW state, CallerTyped(t, state),
           kind \in Steps[callers[t].kind] \ {"body"}, Awaits(t, rest, kind, t, state),
           lockQueue[p] # <<>>, lockQueue[p][1] = t, kind # "write",
           NEW k, k = [state EXCEPT !.pc = kind]
    PROVE  Turn(t, k, rest, {Call(t, k.pc, t)})
<1>1. PICK what : what = t
      OBVIOUS
<1>2. Fits(t, kind, what, state)
      BY DEF Fits
<1>3. Awaits(t, rest, kind, what, state)
      BY <1>1
<1>4. Turn(t, k, rest, {Call(t, k.pc, what)})
      BY <1>2, <1>3, AwaitsIs
<1> QED BY <1>1, <1>4

LEMMA LeavesIs ==
    ASSUME DatabaseInv, NEW p \in Processes, NEW t \in Mine(p), callers' = callers,
           NEW rest \in {Kept(t), Kept(t) \cup Forsaken(t)}, NEW how \in Ended, NEW state, CallerTyped(t, state),
           Leaves(t, rest, how, state), NEW k, k = [state EXCEPT !.pc = how]
    PROVE  Turn(t, k, rest, {})
<1>2. t \in DOMAIN callers /\ Home(t) = p
      BY DEF Mine
<1>3. /\ k.pc = how /\ k.at = state.at /\ k.todo = state.todo /\ k.now = state.now
      /\ k.hit = state.hit /\ k.saw = state.saw
      /\ k = [pc |-> k.pc, at |-> k.at, todo |-> k.todo, now |-> k.now, hit |-> k.hit, saw |-> k.saw]
      BY DEF CallerTyped, IsCaller
<1>4. CallerTyped(t, k)
      BY <1>3 DEF CallerTyped, IsCaller
<1>5. Goes(t, k)
      BY <1>3 DEF Goes, Leaves
<1> QED BY <1>3, <1>4, <1>5 DEF Turn, Leaves

\* What the invariant says of the process of a caller
LEMMA AtRest ==
    ASSUME DatabaseInv, NEW p \in Processes, NEW t \in Mine(p)
    PROVE  /\ t \in DOMAIN callers /\ Home(t) = p /\ callers \in Deployments /\ ProcessInv(p) /\ CallerTyped(t, doing[t])
           /\ connections = [q \in Processes |-> connections[q]] /\ ConnectionTyped(connections[p])
           /\ callers[t].kind \in {"initialize", "unit", "query", "close"}
           /\ lockQueue[p] \in Seq(DOMAIN callers) /\ WholeUnits(stored)
           /\ doing[t].pc = "queued" => Kept(t) = threads /\ lockQueue[p] # <<>> /\ Head(lockQueue[p]) = lockQueue[p][1]
           /\ doing[t].pc \in Active => lockQueue[p] # <<>> /\ lockQueue[p][1] = t
<1>1. /\ t \in DOMAIN callers /\ Home(t) = p /\ callers \in Deployments /\ ProcessInv(p) /\ CallerTyped(t, doing[t])
      /\ connections = [q \in Processes |-> connections[q]] /\ ConnectionTyped(connections[p]) /\ WholeUnits(stored)
      /\ DatabaseTyped /\ LockIsHeld(p) /\ lockQueue[p] \in Seq(DOMAIN callers)
      BY DEF DatabaseInv, DatabaseTyped, Mine, ProcessInv
<1>2. callers[t].kind \in {"initialize", "unit", "query", "close"}
      BY <1>1, DeploymentIs
<1>3. ASSUME doing[t].pc = "queued"
      PROVE  Kept(t) = threads /\ lockQueue[p] # <<>> /\ Head(lockQueue[p]) = lockQueue[p][1]
  <2>1. \A o \in threads : ~ (o.by = t /\ o.awaited)
    <3>1. ASSUME NEW o \in threads, o.by = t, o.awaited PROVE FALSE
      <4>1. o.kind = "queued" /\ CallTyped(o)
            BY <1>1, <1>3, <3>1 DEF ProcessInv, CallsAgree, DatabaseTyped
      <4>2. o.kind \in Active
            BY <1>1, <3>1, <4>1, StepsAre DEF CallTyped
      <4> QED BY <4>1, <4>2 DEF Active
    <3> QED BY <3>1
  <2>2. \E i \in DOMAIN lockQueue[p] : lockQueue[p][i] = t
        BY <1>1, <1>3 DEF LockIsHeld
  <2>3. lockQueue[p] # <<>>
        BY <1>1, <2>2
  <2> QED BY <1>1, <2>1, <2>3 DEF Kept
<1>4. doing[t].pc \in Active => lockQueue[p] # <<>> /\ lockQueue[p][1] = t
      BY <1>1, HolderIs
<1> QED BY <1>1, <1>2, <1>3, <1>4

\* A turn that leaves the connection and the file alone
LEMMA QuietKeeps ==
    ASSUME DatabaseInv, NEW p \in Processes, NEW t \in Mine(p), NEW k, NEW kept, NEW new,
           TurnWith(p, t, k, kept, new, connections[p]), Excused(p, t, k, kept), stored' = stored, Phased(p)',
           k.pc \in Alive =>
              /\ doing[t].pc = "body" /\ k.at = doing[t].at /\ k.now = doing[t].now /\ k.todo = doing[t].todo
              /\ k.pc = "body" \/ k.pc = "write" \/ k.at = Statements[AtHand(t)],
           k.pc \in {"rollback", "unbegin"} => Initializes(t) \/ doing[t].pc \in {"body", "write"},
           \/ p \in abandoned' \/ connections[p].state # "open" \/ k.pc \in Alive \cup {"rollback", "unbegin", "close"}
           \/ doing[t].pc \notin Alive \cup {"rollback", "unbegin", "close"} \/ \E o \in CallsOf(p)' : o.kind = "close",
           k.pc = "begin" /\ Initializes(t) =>
              k.now \in k.todo /\ \A i \in Known(p) : i \in k.todo \/ Recorded(Migrations[i]) \in stored,
           k.pc = "done" => callers[t].kind # "unit",
           k.saw = doing[t].saw \/ callers[t].kind # "query" \/ (abandoned = {} => \A u \in Units : WholeIn(k.saw, u)),
           p \in usable' => p \in usable \/ \A i \in Known(p) : Recorded(Migrations[i]) \in stored
    PROVE  DatabaseInv'
<1>a. PICK c : c = connections[p]
      OBVIOUS
<1>0. /\ t \in DOMAIN callers /\ Home(t) = p /\ ProcessInv(p) /\ connections'[p] = connections[p]
      /\ CallsAgree(t) /\ InTransaction(t) /\ MigratesAll(t) /\ Told(t) /\ EndsOnce(p) /\ WholeUnits(stored)
      /\ callers' = callers /\ overtaken \subseteq overtaken' /\ abandoned \subseteq abandoned'
      /\ doing'[t] = k /\ Units' = Units /\ Names' = Names /\ CallerTyped(t, doing[t])
  <2>1. /\ t \in DOMAIN callers /\ Home(t) = p /\ ProcessInv(p) /\ WholeUnits(stored) /\ CallerTyped(t, doing[t])
        BY AtRest
  <2>2. connections'[p] = connections[p] /\ doing'[t] = k
        BY CallsBefore
  <2>3. callers' = callers /\ overtaken \subseteq overtaken' /\ abandoned \subseteq abandoned'
        BY DEF TurnWith, Turn
  <2> QED BY <2>1, <2>2, <2>3 DEF ProcessInv, Units, Names
<1>1. AtHand(t)' = UnitFor(t, k) /\ (k.pc \in Alive => UnitFor(t, k) = AtHand(t))
  <2>1. Turn(t, k, kept, new)
        BY DEF TurnWith
  <2>2. AtHand(t)' = UnitFor(t, k)
        BY <2>1, TurnIs
  <2> QED BY <2>2 DEF UnitFor, AtHand, Initializes
<1>2. doing[t].pc \in {"body", "write"} => NoFinisher(p) /\ connections[p].state = "open" /\ doing[t].pc \in Active
      BY <1>0, AloneIs DEF InTransaction, Alive, Active
<1>3. EndsOnce(p)'
  <2>1. CASE doing[t].pc \in {"body", "write"}
        BY <1>2, <2>1, EndsTurn
  <2>2. CASE doing[t].pc \notin {"body", "write"}
    <3>1. k.pc \notin Alive \cup {"rollback", "unbegin"} \/ Initializes(t)
          BY <2>2
    <3>2. connections[p].state # "idle" \/ (\A o \in CallsOf(p)' : o.kind \notin Finishing \/ Initializes(o.by))
      <4>1. ASSUME connections[p].state = "idle", NEW o \in CallsOf(p)', o.kind \in Finishing, ~ Initializes(o.by) PROVE FALSE
        <5>1. CASE new = {o} /\ o.by = t /\ o.kind = k.pc
              BY <3>1, <4>1, <5>1 DEF Finishing, Alive
        <5>2. CASE \E r \in CallsOf(p) : r.kind = o.kind /\ r.by = o.by
          <6>1. PICK r \in CallsOf(p) : r.kind = o.kind /\ r.by = o.by
                BY <5>2
          <6>2. callers[r.by].kind = "unit"
            <7>1. CallTyped(r) /\ callers \in Deployments
                  BY DEF DatabaseInv, DatabaseTyped, CallsOf
            <7>2. callers[r.by].kind \in {"unit", "query", "close"}
                  BY <4>1, <6>1, <7>1, DeploymentIs DEF CallTyped, Initializes
            <7> QED BY <4>1, <6>1, <7>1, <7>2 DEF CallTyped, Steps, Finishing
          <6> QED BY <1>0, <4>1, <6>1, <6>2 DEF EndsOnce
        <5> QED BY <5>1, <5>2, CallsBefore
      <4> QED BY <4>1
    <3> QED BY <3>1, <3>2, EndsTurn
  <2> QED BY <2>1, <2>2
<1>4. ASSUME k.pc \in Alive
      PROVE  /\ Under(t)' \subseteq connections[p].pending /\ connections[p].pending \subseteq Under(t)' \cup overtaken
             /\ connections[p].state = "open" /\ k.at <= Statements[AtHand(t)]
  <2>1. InTransaction(t) /\ doing[t].pc = "body"
        BY <1>0, <1>4
  <2>2. Under(t)' = Under(t)
    <3>1. \/ k.pc # "commit" \/ k.at = Statements[AtHand(t)]
          BY <1>4
    <3> QED BY <1>0, <1>1, <1>4, <2>1, <3>1 DEF Under
  <2> QED BY <1>0, <1>4, <2>1, <2>2 DEF InTransaction, Alive
<1>5. InTransaction(t)'
  <2>1. Home(t)' = p
        BY <1>0 DEF Home
  <2>2. k.pc \in Alive =>
           /\ connections'[p].state = "open"
           /\ Under(t)' \subseteq connections'[p].pending
           /\ connections'[p].pending \subseteq Under(t)' \cup overtaken'
           /\ k.at <= Statements[AtHand(t)']
        BY <1>0, <1>1, <1>4
  <2> QED BY <1>0, <2>1, <2>2 DEF InTransaction
<1>6. k.pc = "commit" => WholeUnits(c.pending)'
  <2>1. ASSUME k.pc = "commit" PROVE WholeUnits(c.pending)'
    <3>1. k.pc \in Alive
          BY <2>1 DEF Alive
    <3>2. Under(t)' = UnitOf(AtHand(t))
          BY <1>0, <1>1, <2>1, <3>1 DEF Under, UnitOf
    <3>3. UnitOf(AtHand(t)) \subseteq c.pending /\ c.pending \subseteq UnitOf(AtHand(t)) \cup overtaken
          BY <1>a, <1>4, <3>1, <3>2
    <3>4. ASSUME NEW name \in Names PROVE WholeIn(c.pending, name)
          BY <3>3, UnitsApart DEF WholeIn
    <3> QED BY <1>0, <3>4 DEF WholeUnits, WholeIn
  <2> QED BY <2>1
<1>7. CommitsWhole(p)'
      BY <1>a, <1>6, CommitTurn
<1>8. OpenIsUsed(p)'
      BY <1>a, OpenTurn
<1>9. MigratesAll(t)'
  <2>1. CASE k.pc \in Alive
    <3>1. MigratesAll(t) /\ doing[t].pc \in Alive
          BY <1>0, <2>1 DEF Alive
    <3>2. Initializes(t) => k.now \in k.todo /\ \A i \in Known(p) : i \in k.todo \/ Recorded(Migrations[i]) \in stored
          BY <1>0, <2>1, <3>1 DEF MigratesAll
    <3> QED BY <1>0, <3>2 DEF MigratesAll, Initializes, Home
  <2>2. CASE k.pc \notin Alive
        BY <1>0, <2>2 DEF MigratesAll, Initializes, Home
  <2> QED BY <2>1, <2>2
<1>10. Told(t)'
  <2>1. callers[t].kind = "query" /\ abandoned' = {} => \A u \in Units : WholeIn(k.saw, u)
        BY <1>0 DEF Told
  <2>2. callers[t].kind = "query" /\ abandoned' = {} => \A u \in Units : WholeIn(k.saw, u)'
        BY <1>0, <2>1 DEF WholeIn
  <2> QED BY <1>0, <2>2 DEF Told
<1>11. p \in usable' => \A i \in Known(p) : Recorded(Migrations[i]) \in stored'
       BY <1>0 DEF ProcessInv
<1>12. WholeUnits(stored)'
       BY <1>0 DEF WholeUnits, WholeIn
<1> QED BY <1>3, <1>5, <1>7, <1>8, <1>9, <1>10, <1>11, <1>12, TurnKeeps

\* The turns that nothing happens in: cancellations, the body and the lock
LEMMA CalmIs ==
    ASSUME DatabaseInv, NEW p \in Processes, NEW t \in Mine(p), NEW k, NEW kept, NEW new, Turn(t, k, kept, new),
           doing[t].pc \in Active \/ (doing[t].pc = "queued" /\ kept = threads),
           connections' = connections, stored' = stored, usable' = usable \/ usable' = usable \ {p} \/ usable' = usable \cup {p},
           overtaken \subseteq overtaken', abandoned \subseteq abandoned'
    PROVE  TurnWith(p, t, k, kept, new, connections[p])
<1>1. connections' = [connections EXCEPT ![p] = connections[p]] /\ ConnectionTyped(connections[p])
      BY AtRest
<1>2. \A q \in Processes \ {p} : q \in usable <=> q \in usable'
      OBVIOUS
<1>3. stored \subseteq stored'
      OBVIOUS
<1> QED BY <1>1, <1>2, <1>3 DEF TurnWith

LEMMA CancelQueuedKeeps ==
    ASSUME DatabaseInv, callers' = callers, NEW t \in DOMAIN callers, CancelQueued(t)
    PROVE  DatabaseInv'
<1>1. PICK p \in Processes : p = Home(t) /\ t \in Mine(p)
      BY DeploymentIs DEF DatabaseInv, DatabaseTyped, Mine
<1>2. /\ doing[t].pc = "queued" /\ Leaves(t, threads, "raised", doing[t]) /\ Kept(t) = threads
      /\ stored' = stored /\ connections' = connections /\ usable' = usable /\ overtaken' = overtaken /\ abandoned' = abandoned
      BY <1>1, AtRest DEF CancelQueued
<1>3. PICK k : Turn(t, k, threads, {}) /\ k.pc = "raised" /\ k.saw = doing[t].saw
  <2>1. PICK how \in {"raised"} : \E y : y = doing[t] /\ Leaves(t, threads, how, y)
        BY <1>1, <1>2, Zenon
  <2>2. PICK x : x = doing[t] /\ Leaves(t, threads, how, x)
        BY <2>1
  <2>3. CallerTyped(t, x) /\ how \in Ended /\ threads \in {Kept(t), Kept(t) \cup Forsaken(t)}
        BY <1>1, <1>2, <2>1, <2>2, AtRest DEF Ended
  <2>8. PICK k : k = [x EXCEPT !.pc = how]
        OBVIOUS
  <2>9. Turn(t, k, threads, {})
        BY <1>1, <1>2, <2>1, <2>2, <2>3, <2>8, LeavesIs
  <2>10. k.pc = how /\ k.saw = x.saw /\ k.at = x.at /\ k.now = x.now /\ k.todo = x.todo
         BY <2>3, <2>8 DEF CallerTyped, IsCaller
  <2> QED BY <1>1, <1>2, <2>1, <2>2, <2>3, <2>9, <2>10
<1>4. TurnWith(p, t, k, threads, {}, connections[p])
      BY <1>1, <1>2, <1>3, CalmIs
<1>5. Excused(p, t, k, threads)
      BY <1>2, <1>3 DEF Excused
<1>6. Phased(p)'
  <2>1. Phased(p)
        BY DEF DatabaseInv, ProcessInv
  <2>2. CASE Initializes(t)
    <3>1. p \notin usable /\ connections[p].state = "closed"
          BY <1>1, <1>2, <2>1, <2>2 DEF Phased
    <3> QED BY <1>1, <1>2, <1>3, <1>4, <2>2, <3>1, InitTurn
  <2>3. CASE ~ Initializes(t)
        BY <1>1, <1>2, <1>3, <1>4, <2>3, ServeTurn DEF Active
  <2> QED BY <2>2, <2>3
<1>7. \A u \in {t} : k.pc \notin Alive \cup {"rollback", "unbegin", "begin", "done"}
           /\ doing[t].pc \notin Alive \cup {"rollback", "unbegin", "close"}
      BY <1>2, <1>3 DEF Alive
<1> QED BY <1>1, <1>2, <1>3, <1>4, <1>5, <1>6, <1>7, QuietKeeps

LEMMA CancelAgainKeeps ==
    ASSUME DatabaseInv, callers' = callers, NEW t \in DOMAIN callers, CancelAgain(t)
    PROVE  DatabaseInv'
<1>1. PICK p \in Processes : p = Home(t) /\ t \in Mine(p)
      BY DeploymentIs DEF DatabaseInv, DatabaseTyped, Mine
<1>2. PICK rest \in {Kept(t), Kept(t) \cup Forsaken(t)} : Leaves(t, rest, "raised", doing[t])
      BY DEF CancelAgain, Released
<1>3. /\ doing[t].pc \in {"begin", "commit", "rollback", "unbegin"} /\ callers[t].kind = "unit" /\ abandoned' = abandoned \cup {p}
      /\ stored' = stored /\ connections' = connections /\ usable' = usable /\ overtaken' = overtaken
  <2>1. doing[t].pc = "unbegin" => callers[t].kind = "unit"
        BY <1>1, AtRest DEF CallerTyped, Steps, Ended
  <2> QED BY <1>1, <2>1 DEF CancelAgain, Shielded
<1>4. PICK k : Turn(t, k, rest, {}) /\ k.pc = "raised" /\ k.saw = doing[t].saw
  <2>1. PICK how \in {"raised"} : \E y : y = doing[t] /\ Leaves(t, rest, how, y)
        BY <1>1, <1>2, Zenon
  <2>2. PICK x : x = doing[t] /\ Leaves(t, rest, how, x)
        BY <2>1
  <2>3. CallerTyped(t, x) /\ how \in Ended /\ rest \in {Kept(t), Kept(t) \cup Forsaken(t)}
        BY <1>1, <1>2, <2>1, <2>2, AtRest DEF Ended
  <2>8. PICK k : k = [x EXCEPT !.pc = how]
        OBVIOUS
  <2>9. Turn(t, k, rest, {})
        BY <1>1, <1>2, <2>1, <2>2, <2>3, <2>8, LeavesIs
  <2>10. k.pc = how /\ k.saw = x.saw /\ k.at = x.at /\ k.now = x.now /\ k.todo = x.todo
         BY <2>3, <2>8 DEF CallerTyped, IsCaller
  <2> QED BY <1>1, <1>2, <2>1, <2>2, <2>3, <2>9, <2>10
<1>5. doing[t].pc \in Active /\ ~ Initializes(t)
      BY <1>3 DEF Active, Initializes
<1>6. TurnWith(p, t, k, rest, {}, connections[p])
      BY <1>1, <1>3, <1>4, <1>5, CalmIs
<1>7. Excused(p, t, k, rest)
  <2>1. ASSUME NEW q \in threads, q.by = t, q.awaited PROVE q.kind # "write"
        BY <1>1, <1>3, <2>1, AtRest DEF ProcessInv, CallsAgree
  <2> QED BY <1>3, <1>5, <2>1 DEF Excused
<1>8. Phased(p)'
      BY <1>1, <1>3, <1>4, <1>5, <1>6, ServeTurn DEF Active
<1>9. k.pc \notin Alive \cup {"rollback", "unbegin", "begin", "done"}
      BY <1>4 DEF Alive
<1> QED BY <1>1, <1>3, <1>4, <1>6, <1>7, <1>8, <1>9, QuietKeeps

LEMMA CancelStatementKeeps ==
    ASSUME DatabaseInv, callers' = callers, NEW t \in DOMAIN callers, CancelStatement(t)
    PROVE  DatabaseInv'
<1>1. PICK p \in Processes : p = Home(t) /\ t \in Mine(p)
      BY DeploymentIs DEF DatabaseInv, DatabaseTyped, Mine
<1>2. PICK rest \in {Kept(t), Kept(t) \cup Forsaken(t)} : Awaits(t, rest, "rollback", t, doing[t])
      BY DEF CancelStatement, Released
<1>3. /\ doing[t].pc = "write" \/ (Initializes(t) /\ doing[t].pc \in {"begin", "commit"})
      /\ overtaken' = overtaken \cup {o.what : o \in {q \in threads : q.by = t /\ q.awaited /\ q.kind = "write"}}
      /\ stored' = stored /\ connections' = connections /\ usable' = usable /\ abandoned' = abandoned
      BY DEF CancelStatement, Initializes
<1>4. doing[t].pc \in Active /\ callers[t].kind \in {"initialize", "unit"}
  <2>1. doing[t].pc = "write" => callers[t].kind \in {"initialize", "unit"}
        BY <1>1, AtRest DEF CallerTyped, Steps, Ended
  <2> QED BY <1>3, <2>1 DEF Active, Initializes
<1>5. PICK k : Turn(t, k, rest, {Call(t, k.pc, t)}) /\ k.pc = "rollback" /\ k.saw = doing[t].saw
  <2>1. PICK kind \in {"rollback"} : \E y : y = doing[t] /\ Awaits(t, rest, kind, t, y)
        BY <1>1, <1>2, <1>4, Zenon
  <2>2. PICK x : x = doing[t] /\ Awaits(t, rest, kind, t, x)
        BY <2>1
  <2>3. CallerTyped(t, x) /\ rest \in {Kept(t), Kept(t) \cup Forsaken(t)} /\ lockQueue[p] # <<>> /\ lockQueue[p][1] = t
        BY <1>1, <1>2, <1>4, <2>1, <2>2, AtRest
  <2>4. kind \in Steps[callers[t].kind] \ {"body"} /\ kind # "write"
        BY <1>1, <1>2, <1>4, <2>1, <2>2 DEF Steps, Initializes
  <2>8. PICK k : k = [x EXCEPT !.pc = kind]
        OBVIOUS
  <2>9. Turn(t, k, rest, {Call(t, k.pc, t)})
        BY <1>1, <1>2, <1>4, <2>1, <2>2, <2>3, <2>4, <2>8, AwaitsOther
  <2>10. k.pc = kind /\ k.saw = x.saw /\ k.at = x.at /\ k.now = x.now /\ k.todo = x.todo
         BY <2>3, <2>8 DEF CallerTyped, IsCaller
  <2> QED BY <1>1, <1>2, <1>4, <2>1, <2>2, <2>3, <2>4, <2>9, <2>10
<1>6. TurnWith(p, t, k, rest, {Call(t, k.pc, t)}, connections[p])
      BY <1>1, <1>3, <1>4, <1>5, CalmIs
<1>7. Excused(p, t, k, rest)
  <2>1. ASSUME NEW q \in threads, q.by = t, q.awaited
        PROVE  q.kind = doing[t].pc /\ (q.kind = "write" => q.what \in overtaken')
        BY <1>1, <1>3, <2>1, AtRest DEF ProcessInv, CallsAgree
  <2> QED BY <1>3, <1>5, <2>1 DEF Excused, Initializes
<1>8. Phased(p)'
  <2>1. Phased(p)
        BY DEF DatabaseInv, ProcessInv
  <2>2. CASE Initializes(t)
    <3>1. p \notin usable
          BY <1>1, <1>4, <2>1, <2>2 DEF Phased, Active
    <3> QED BY <1>1, <1>3, <1>5, <1>6, <2>2, <3>1, InitTurn
  <2>3. CASE ~ Initializes(t)
    <3>1. p \in usable
          BY <1>1, <1>4, <2>1, <2>3 DEF Phased, Initializes
    <3> QED BY <1>1, <1>3, <1>4, <1>5, <1>6, <2>3, <3>1, ServeTurn
  <2> QED BY <2>2, <2>3
<1>9. k.pc \notin Alive \cup {"begin", "done"} /\ k.pc \in Alive \cup {"rollback", "unbegin", "close"}
      BY <1>5 DEF Alive
<1> QED BY <1>1, <1>3, <1>5, <1>6, <1>7, <1>8, <1>9, QuietKeeps

LEMMA CancelOutsideKeeps ==
    ASSUME DatabaseInv, callers' = callers, NEW t \in DOMAIN callers, CancelOutside(t)
    PROVE  DatabaseInv'
<1>1. PICK p \in Processes : p = Home(t) /\ t \in Mine(p)
      BY DeploymentIs DEF DatabaseInv, DatabaseTyped, Mine
<1>2. /\ doing[t].pc \in {"select", "close"} \/ (Initializes(t) /\ doing[t].pc \in {"versions", "rollback"})
      /\ stored' = stored /\ connections' = connections /\ usable' = usable /\ overtaken' = overtaken /\ abandoned' = abandoned
      BY DEF CancelOutside, Initializes
<1>3. PICK rest \in {Kept(t), Kept(t) \cup Forsaken(t)} :
         /\ doing[t].pc = "close" => rest = Kept(t) \cup Forsaken(t)
         /\ IF Initializes(t) /\ doing[t].pc # "close" THEN Awaits(t, rest, "close", t, doing[t])
            ELSE Leaves(t, rest, "raised", doing[t])
      BY DEF CancelOutside, Released, Initializes
<1>4. doing[t].pc \in Active /\ callers[t].kind # "unit" /\ (doing[t].pc = "close" => callers[t].kind # "query")
  <2>1. doing[t].pc \in {"select", "close"} => callers[t].kind # "unit" /\ (doing[t].pc = "close" => callers[t].kind # "query")
        BY <1>1, AtRest DEF CallerTyped, Steps, Ended
  <2> QED BY <1>2, <2>1 DEF Active, Initializes
<1>5. Phased(p) /\ CallsAgree(t) /\ ProcessInv(p)
      BY <1>1 DEF DatabaseInv, ProcessInv
<1>6. CASE Initializes(t) /\ doing[t].pc # "close"
  <2>1. PICK k : Turn(t, k, rest, {Call(t, k.pc, t)}) /\ k.pc = "close" /\ k.saw = doing[t].saw
    <3>1. PICK kind \in {"close"} : \E y : y = doing[t] /\ Awaits(t, rest, kind, t, y)
          BY <1>1, <1>3, <1>4, <1>6, Zenon
    <3>2. PICK x : x = doing[t] /\ Awaits(t, rest, kind, t, x)
          BY <3>1
    <3>3. CallerTyped(t, x) /\ rest \in {Kept(t), Kept(t) \cup Forsaken(t)} /\ lockQueue[p] # <<>> /\ lockQueue[p][1] = t
          BY <1>1, <1>3, <1>4, <1>6, <3>1, <3>2, AtRest
    <3>4. kind \in Steps[callers[t].kind] \ {"body"} /\ kind # "write"
          BY <1>1, <1>3, <1>4, <1>6, <3>1, <3>2 DEF Steps, Initializes
    <3>8. PICK k : k = [x EXCEPT !.pc = kind]
          OBVIOUS
    <3>9. Turn(t, k, rest, {Call(t, k.pc, t)})
          BY <1>1, <3>2, <3>3, <3>4, <3>8, AwaitsOther
    <3>10. k.pc = kind /\ k.saw = x.saw /\ k.at = x.at /\ k.now = x.now /\ k.todo = x.todo
           BY <3>3, <3>8 DEF CallerTyped, IsCaller
    <3> QED BY <1>1, <1>3, <1>4, <1>6, <3>1, <3>2, <3>3, <3>4, <3>9, <3>10
  <2>2. TurnWith(p, t, k, rest, {Call(t, k.pc, t)}, connections[p])
        BY <1>1, <1>2, <1>4, <2>1, CalmIs
  <2>3. Excused(p, t, k, rest)
    <3>1. \A q \in threads : q.by = t /\ q.awaited => q.kind # "write"
          BY <1>2, <1>5 DEF CallsAgree
    <3> QED BY <1>4, <2>1, <3>1 DEF Excused
  <2>4. Phased(p)'
    <3>1. p \notin usable
          BY <1>1, <1>4, <1>5, <1>6 DEF Phased, Active
    <3> QED BY <1>1, <1>2, <1>6, <2>1, <2>2, <3>1, InitTurn
  <2>5. k.pc \notin Alive \cup {"rollback", "unbegin", "begin", "done"} /\ k.pc \in Alive \cup {"rollback", "unbegin", "close"}
        BY <2>1 DEF Alive
  <2> QED BY <1>1, <1>2, <2>1, <2>2, <2>3, <2>4, <2>5, QuietKeeps
<1>7. CASE ~ (Initializes(t) /\ doing[t].pc # "close")
  <2>1. PICK k : Turn(t, k, rest, {}) /\ k.pc = "raised" /\ k.saw = doing[t].saw
    <3>1. PICK how \in {"raised"} : \E y : y = doing[t] /\ Leaves(t, rest, how, y)
          BY <1>1, <1>3, <1>7, Zenon
    <3>2. PICK x : x = doing[t] /\ Leaves(t, rest, how, x)
          BY <3>1
    <3>3. CallerTyped(t, x) /\ how \in Ended /\ rest \in {Kept(t), Kept(t) \cup Forsaken(t)}
          BY <1>1, <1>3, <1>7, <3>1, <3>2, AtRest DEF Ended
    <3>8. PICK k : k = [x EXCEPT !.pc = how]
          OBVIOUS
    <3>9. Turn(t, k, rest, {})
          BY <1>1, <1>3, <1>7, <3>1, <3>2, <3>3, <3>8, LeavesIs
    <3>10. k.pc = how /\ k.saw = x.saw /\ k.at = x.at /\ k.now = x.now /\ k.todo = x.todo
           BY <3>3, <3>8 DEF CallerTyped, IsCaller
    <3> QED BY <1>1, <1>3, <1>7, <3>1, <3>2, <3>3, <3>9, <3>10
  <2>2. TurnWith(p, t, k, rest, {}, connections[p])
        BY <1>1, <1>2, <1>4, <2>1, CalmIs
  <2>3. Excused(p, t, k, rest)
    <3>1. \A q \in threads : q.by = t /\ q.awaited => q.kind # "write"
          BY <1>2, <1>5 DEF CallsAgree
    <3> QED BY <1>4, <2>1, <3>1 DEF Excused
  <2>4. doing[t].pc = "close" => \E o \in threads' : o.by = t /\ o.kind = "close"
    <3>1. ASSUME doing[t].pc = "close" PROVE \E o \in threads' : o.by = t /\ o.kind = "close"
      <4>1. PICK q \in threads : q.by = t /\ q.awaited /\ q.kind = "close"
            BY <1>5, <3>1 DEF CallsAgree, Active
      <4>2. CallTyped(q)
            BY DEF DatabaseInv, DatabaseTyped
      <4>3. PICK o : o = [q EXCEPT !.awaited = FALSE]
            OBVIOUS
      <4>4. o.by = t /\ o.kind = "close"
            BY <4>1, <4>2, <4>3 DEF CallTyped
      <4>5. o \in Forsaken(t)
            BY <4>1, <4>3 DEF Forsaken
      <4>6. o \in threads'
            BY <1>3, <2>1, <3>1, <4>5 DEF Turn
      <4> QED BY <4>4, <4>6
    <3> QED BY <3>1
  <2>5. Phased(p)'
    <3>1. CASE Initializes(t)
      <4>1. p \notin usable
            BY <1>1, <1>4, <1>5, <3>1 DEF Phased, Active
      <4> QED BY <1>1, <1>2, <1>7, <2>1, <2>2, <2>4, <3>1, <4>1, InitTurn
    <3>2. CASE ~ Initializes(t)
          BY <1>1, <1>2, <1>4, <2>1, <2>2, <3>2, ServeTurn DEF Active
    <3> QED BY <3>1, <3>2
  <2>6. k.pc \notin Alive \cup {"rollback", "unbegin", "begin", "done"}
        BY <2>1 DEF Alive
  <2>7. doing[t].pc \notin Alive \cup {"rollback", "unbegin", "close"} \/ \E o \in CallsOf(p)' : o.kind = "close"
    <3>1. CASE doing[t].pc = "close"
      <4>1. PICK o \in threads' : o.by = t /\ o.kind = "close"
            BY <2>4, <3>1
      <4>2. o \in CallsOf(p)'
            BY <1>1, <4>1, <2>2, CallsBefore DEF CallsOf
      <4> QED BY <4>1, <4>2
    <3>2. CASE doing[t].pc # "close"
          BY <1>2, <1>7, <3>2 DEF Alive
    <3> QED BY <3>1, <3>2
  <2> QED BY <1>1, <1>2, <2>1, <2>2, <2>3, <2>5, <2>6, <2>7, QuietKeeps
<1> QED BY <1>6, <1>7

LEMMA ContinueKeeps ==
    ASSUME DatabaseInv, callers' = callers, NEW t \in DOMAIN callers, Continue(t)
    PROVE  DatabaseInv'
<1>1. PICK p \in Processes : p = Home(t) /\ t \in Mine(p)
      BY DeploymentIs DEF DatabaseInv, DatabaseTyped, Mine
<1>2. /\ doing[t].pc = "body"
      /\ stored' = stored /\ connections' = connections /\ usable' = usable /\ overtaken' = overtaken /\ abandoned' = abandoned
      BY DEF Continue
<1>3. /\ doing[t].pc \in Active /\ callers[t].kind \in {"initialize", "unit"} /\ CallsAgree(t) /\ Phased(p)
      /\ AtHand(t) = UnitFor(t, doing[t])
  <2>1. callers[t].kind \in {"initialize", "unit"}
        BY <1>1, <1>2, AtRest DEF CallerTyped, Steps, Ended
  <2> QED BY <1>1, <1>2, <2>1 DEF Active, DatabaseInv, ProcessInv, AtHand, UnitFor, Initializes
<1>4. PICK kind, what :
         /\ Awaits(t, threads, kind, what, doing[t])
         /\ \/ kind = "write" /\ what = <<AtHand(t), doing[t].at + 1>> /\ doing[t].at < Statements[AtHand(t)]
            \/ kind = "commit" /\ doing[t].at = Statements[AtHand(t)]
            \/ kind = "rollback" /\ callers[t].kind = "unit"
      BY DEF Continue
<1>5. Kept(t) = threads
  <2>1. \A o \in threads : ~ (o.by = t /\ o.awaited)
    <3>1. ASSUME NEW o \in threads, o.by = t, o.awaited PROVE FALSE
      <4>1. o.kind = "body" /\ CallTyped(o)
            BY <1>2, <1>3, <3>1 DEF CallsAgree, DatabaseInv, DatabaseTyped
      <4> QED BY <4>1 DEF CallTyped
    <3> QED BY <3>1
  <2> QED BY <2>1 DEF Kept
<1>6. PICK k : /\ Turn(t, k, threads, {Call(t, k.pc, what)}) /\ k.pc = kind /\ k.saw = doing[t].saw
               /\ k.at = doing[t].at /\ k.now = doing[t].now /\ k.todo = doing[t].todo
  <2>1. PICK x : x = doing[t] /\ Awaits(t, threads, kind, what, x)
        BY <1>1, <1>2, <1>3, <1>4, <1>5, Zenon
  <2>3. CallerTyped(t, x) /\ threads \in {Kept(t), Kept(t) \cup Forsaken(t)} /\ lockQueue[p] # <<>> /\ lockQueue[p][1] = t
        BY <1>1, <1>2, <1>3, <1>4, <1>5, <2>1, AtRest
  <2>4. kind \in Steps[callers[t].kind] \ {"body"}
        BY <1>1, <1>2, <1>3, <1>4, <1>5, <2>1 DEF Steps, Initializes
  <2>5. Fits(t, kind, what, x)
        BY <1>3, <1>4, <2>1 DEF Fits
  <2>8. PICK k : k = [x EXCEPT !.pc = kind]
        OBVIOUS
  <2>9. Turn(t, k, threads, {Call(t, k.pc, what)})
        BY <1>1, <2>1, <2>3, <2>4, <2>5, <2>8, AwaitsIs
  <2>10. k.pc = kind /\ k.saw = x.saw /\ k.at = x.at /\ k.now = x.now /\ k.todo = x.todo
         BY <2>3, <2>8 DEF CallerTyped, IsCaller
  <2> QED BY <1>1, <1>2, <1>3, <1>4, <1>5, <2>1, <2>3, <2>4, <2>9, <2>10
<1>7. TurnWith(p, t, k, threads, {Call(t, k.pc, what)}, connections[p])
      BY <1>1, <1>2, <1>3, <1>5, <1>6, CalmIs
<1>8. Excused(p, t, k, threads)
      BY <1>2, <1>5 DEF Excused
<1>9. Phased(p)'
  <2>1. CASE Initializes(t)
    <3>1. p \notin usable
          BY <1>1, <1>2, <1>3, <2>1 DEF Phased
    <3> QED BY <1>1, <1>2, <1>4, <1>6, <1>7, <2>1, <3>1, InitTurn
  <2>2. CASE ~ Initializes(t)
    <3>1. p \in usable
          BY <1>1, <1>3, <2>2 DEF Phased, Initializes
    <3> QED BY <1>1, <1>2, <1>3, <1>4, <1>6, <1>7, <2>2, <3>1, ServeTurn
  <2> QED BY <2>1, <2>2
<1>10. k.pc \in {"write", "commit", "rollback"} /\ k.pc \in Alive \cup {"rollback"}
       BY <1>4, <1>6 DEF Alive
<1>11. k.pc \in Alive => k.pc = "write" \/ k.at = Statements[AtHand(t)]
       BY <1>4, <1>6 DEF Alive
<1> QED BY <1>1, <1>2, <1>6, <1>7, <1>8, <1>9, <1>10, <1>11, QuietKeeps

LEMMA AcquireKeeps ==
    ASSUME DatabaseInv, callers' = callers, NEW t \in DOMAIN callers, Acquire(t)
    PROVE  DatabaseInv'
<1>1. PICK p \in Processes : p = Home(t) /\ t \in Mine(p)
      BY DeploymentIs DEF DatabaseInv, DatabaseTyped, Mine
<1>2. /\ doing[t].pc = "queued" /\ Kept(t) = threads /\ lockQueue[p] # <<>> /\ lockQueue[p][1] = t
      /\ stored' = stored /\ overtaken' = overtaken /\ abandoned' = abandoned
      BY <1>1, AtRest DEF Acquire
<1>3. /\ Phased(p) /\ (Initializes(t) => p \notin usable /\ connections[p].state = "closed")
      /\ callers[t].kind \in {"initialize", "unit", "query", "close"} /\ CallerTyped(t, doing[t])
  <2>1. Phased(p)
        BY DEF DatabaseInv, ProcessInv
  <2> QED BY <1>1, <1>2, <2>1, AtRest DEF Phased
<1>4. usable' = (IF callers[t].kind = "close" THEN usable \ {p} ELSE usable)
      BY <1>1 DEF Acquire
<1>5. CASE /\ callers[t].kind # "close" /\ (p \in usable) = (callers[t].kind = "initialize")
           /\ Leaves(t, threads, "raised", doing[t])
  <2>1. ~ Initializes(t) /\ connections' = connections
        BY <1>1, <1>3, <1>5 DEF Acquire, Initializes
  <2>2. PICK k : Turn(t, k, threads, {}) /\ k.pc = "raised" /\ k.saw = doing[t].saw
    <3>1. PICK how \in {"raised"} : \E y : y = doing[t] /\ Leaves(t, threads, how, y)
          BY <1>1, <1>2, <1>3, <1>5, Zenon
    <3>2. PICK x : x = doing[t] /\ Leaves(t, threads, how, x)
          BY <3>1
    <3>3. CallerTyped(t, x) /\ how \in Ended /\ threads \in {Kept(t), Kept(t) \cup Forsaken(t)}
          BY <1>1, <1>2, <1>3, <1>5, <3>1, <3>2, AtRest DEF Ended
    <3>8. PICK k : k = [x EXCEPT !.pc = how]
          OBVIOUS
    <3>9. Turn(t, k, threads, {})
          BY <1>1, <1>2, <1>3, <1>5, <3>1, <3>2, <3>3, <3>8, LeavesIs
    <3>10. k.pc = how /\ k.saw = x.saw /\ k.at = x.at /\ k.now = x.now /\ k.todo = x.todo
           BY <3>3, <3>8 DEF CallerTyped, IsCaller
    <3> QED BY <1>1, <1>2, <1>3, <1>5, <3>1, <3>2, <3>3, <3>9, <3>10
  <2>3. TurnWith(p, t, k, threads, {}, connections[p])
        BY <1>1, <1>2, <1>4, <2>1, <2>2, CalmIs
  <2>4. Excused(p, t, k, threads)
        BY <1>2, <2>1 DEF Excused
  <2>5. Phased(p)'
        BY <1>1, <1>2, <1>4, <1>5, <2>1, <2>2, <2>3, ServeTurn DEF Active
  <2>6. k.pc \notin Alive \cup {"rollback", "unbegin", "begin", "done"} /\ doing[t].pc \notin Alive \cup {"rollback", "unbegin", "close"}
        BY <1>2, <2>2 DEF Alive
  <2>7. p \in usable' => p \in usable
        BY <1>4
  <2> QED BY <1>1, <1>2, <2>2, <2>3, <2>4, <2>5, <2>6, <2>7, QuietKeeps
<1>6. CASE callers[t].kind = "close" /\ p \notin usable /\ Leaves(t, threads, "done", doing[t])
  <2>1. ~ Initializes(t) /\ connections' = connections
        BY <1>1, <1>3, <1>6 DEF Acquire, Initializes
  <2>2. PICK k : Turn(t, k, threads, {}) /\ k.pc = "done" /\ k.saw = doing[t].saw
    <3>1. PICK how \in {"done"} : \E y : y = doing[t] /\ Leaves(t, threads, how, y)
          BY <1>1, <1>2, <1>3, <1>6, Zenon
    <3>2. PICK x : x = doing[t] /\ Leaves(t, threads, how, x)
          BY <3>1
    <3>3. CallerTyped(t, x) /\ how \in Ended /\ threads \in {Kept(t), Kept(t) \cup Forsaken(t)}
          BY <1>1, <1>2, <1>3, <1>6, <3>1, <3>2, AtRest DEF Ended
    <3>8. PICK k : k = [x EXCEPT !.pc = how]
          OBVIOUS
    <3>9. Turn(t, k, threads, {})
          BY <1>1, <1>2, <1>3, <1>6, <3>1, <3>2, <3>3, <3>8, LeavesIs
    <3>10. k.pc = how /\ k.saw = x.saw /\ k.at = x.at /\ k.now = x.now /\ k.todo = x.todo
           BY <3>3, <3>8 DEF CallerTyped, IsCaller
    <3> QED BY <1>1, <1>2, <1>3, <1>6, <3>1, <3>2, <3>3, <3>9, <3>10
  <2>3. TurnWith(p, t, k, threads, {}, connections[p])
        BY <1>1, <1>2, <1>4, <2>1, <2>2, CalmIs
  <2>4. Excused(p, t, k, threads)
        BY <1>2, <2>1 DEF Excused
  <2>5. Phased(p)'
        BY <1>1, <1>2, <1>4, <1>6, <2>1, <2>2, <2>3, ServeTurn DEF Active
  <2>6. k.pc \notin Alive \cup {"rollback", "unbegin", "begin"} /\ doing[t].pc \notin Alive \cup {"rollback", "unbegin", "close"}
        BY <1>2, <2>2 DEF Alive
  <2>7. p \in usable' => p \in usable
        BY <1>4
  <2> QED BY <1>1, <1>2, <1>6, <2>2, <2>3, <2>4, <2>5, <2>6, <2>7, QuietKeeps
<1>7. CASE /\ callers[t].kind \in {"close", "query", "unit"} /\ p \in usable
           /\ Awaits(t, threads, CASE callers[t].kind = "unit" -> "begin" [] callers[t].kind = "query" -> "select" [] OTHER -> "close",
                     t, doing[t])
  <2>1. ~ Initializes(t) /\ connections' = connections
        BY <1>1, <1>3, <1>7 DEF Acquire, Initializes
  <2>2. PICK kind : /\ Awaits(t, threads, kind, t, doing[t])
                    /\ \/ callers[t].kind = "unit" /\ kind = "begin"
                       \/ callers[t].kind = "query" /\ kind = "select"
                       \/ callers[t].kind = "close" /\ kind = "close"
        BY <1>7
  <2>3. kind \in Steps[callers[t].kind] \ {"body"} /\ kind # "write"
        BY <2>2 DEF Steps
  <2>4. PICK k : Turn(t, k, threads, {Call(t, k.pc, t)}) /\ k.pc = kind /\ k.saw = doing[t].saw
    <3>1. PICK x : x = doing[t] /\ Awaits(t, threads, kind, t, x)
          BY <1>1, <1>2, <1>3, <2>2, <2>3, Zenon
    <3>3. CallerTyped(t, x) /\ threads \in {Kept(t), Kept(t) \cup Forsaken(t)} /\ lockQueue[p] # <<>> /\ lockQueue[p][1] = t
          BY <1>1, <1>2, <1>3, <2>2, <2>3, <3>1, AtRest
    <3>4. kind \in Steps[callers[t].kind] \ {"body"} /\ kind # "write"
          BY <1>1, <1>2, <1>3, <2>2, <2>3, <3>1 DEF Steps, Initializes
    <3>8. PICK k : k = [x EXCEPT !.pc = kind]
          OBVIOUS
    <3>9. Turn(t, k, threads, {Call(t, k.pc, t)})
          BY <1>1, <1>2, <1>3, <2>2, <2>3, <3>1, <3>3, <3>4, <3>8, AwaitsOther
    <3>10. k.pc = kind /\ k.saw = x.saw /\ k.at = x.at /\ k.now = x.now /\ k.todo = x.todo
           BY <3>3, <3>8 DEF CallerTyped, IsCaller
    <3> QED BY <1>1, <1>2, <1>3, <2>2, <2>3, <3>1, <3>3, <3>4, <3>9, <3>10
  <2>5. TurnWith(p, t, k, threads, {Call(t, k.pc, t)}, connections[p])
        BY <1>1, <1>2, <1>4, <2>1, <2>4, CalmIs
  <2>6. Excused(p, t, k, threads)
        BY <1>2, <2>1 DEF Excused
  <2>7. /\ p \in usable' => p \in usable
        /\ callers[t].kind \in {"unit", "query"} => p \in usable'
        /\ k.pc = "close" => p \notin usable'
        BY <1>4, <1>7, <2>2, <2>4
  <2>8. Phased(p)'
        BY <1>1, <1>2, <1>7, <2>1, <2>4, <2>5, <2>7, ServeTurn
  <2>9. k.pc \notin Alive \cup {"rollback", "unbegin", "done"} /\ doing[t].pc \notin Alive \cup {"rollback", "unbegin", "close"}
        BY <1>2, <2>2, <2>4 DEF Alive
  <2> QED BY <1>1, <1>2, <2>1, <2>4, <2>5, <2>6, <2>7, <2>8, <2>9, QuietKeeps
<1>8. CASE callers[t].kind = "initialize" /\ Awaits(t, threads, "versions", t, doing[t])
  <2>1. Initializes(t) /\ p \notin usable
        BY <1>3, <1>8 DEF Initializes
  <2>2. PICK c : c = [state |-> "idle", pending |-> {}]
        OBVIOUS
  <2>3. connections' = [connections EXCEPT ![p] = c] /\ ConnectionTyped(c) /\ usable' = usable
        BY <1>1, <1>4, <1>8, <2>1, <2>2 DEF Acquire, ConnectionTyped
  <2>4. PICK k : Turn(t, k, threads, {Call(t, k.pc, t)}) /\ k.pc = "versions"
    <3>1. PICK kind \in {"versions"} : \E y : y = doing[t] /\ Awaits(t, threads, kind, t, y)
          BY <1>1, <1>2, <1>3, <1>8, Zenon
    <3>2. PICK x : x = doing[t] /\ Awaits(t, threads, kind, t, x)
          BY <3>1
    <3>3. CallerTyped(t, x) /\ threads \in {Kept(t), Kept(t) \cup Forsaken(t)} /\ lockQueue[p] # <<>> /\ lockQueue[p][1] = t
          BY <1>1, <1>2, <1>3, <1>8, <3>1, <3>2, AtRest
    <3>4. kind \in Steps[callers[t].kind] \ {"body"} /\ kind # "write"
          BY <1>1, <1>2, <1>3, <1>8, <3>1, <3>2 DEF Steps, Initializes
    <3>8. PICK k : k = [x EXCEPT !.pc = kind]
          OBVIOUS
    <3>9. Turn(t, k, threads, {Call(t, k.pc, t)})
          BY <1>1, <1>2, <1>3, <1>8, <3>1, <3>2, <3>3, <3>4, <3>8, AwaitsOther
    <3>10. k.pc = kind /\ k.saw = x.saw /\ k.at = x.at /\ k.now = x.now /\ k.todo = x.todo
           BY <3>3, <3>8 DEF CallerTyped, IsCaller
    <3> QED BY <1>1, <1>2, <1>3, <1>8, <3>1, <3>2, <3>3, <3>4, <3>9, <3>10
  <2>5. TurnWith(p, t, k, threads, {Call(t, k.pc, t)}, c)
        BY <1>2, <2>3, <2>4 DEF TurnWith
  <2>6. Excused(p, t, k, threads)
        BY <1>2 DEF Excused
  <2>7. Phased(p)'
        BY <1>1, <2>1, <2>2, <2>3, <2>4, <2>5, InitTurn
  <2>8. CallsOf(p) = {}
    <3>1. ASSUME NEW o \in CallsOf(p) PROVE FALSE
      <4>1. o \in threads /\ o.by \in DOMAIN callers /\ Home(o.by) = p /\ o.by \in Mine(p)
            BY DEF CallsOf, DatabaseInv, DatabaseTyped, CallTyped, Mine
      <4> QED BY <1>1, <1>2, <1>3, <2>1, <4>1, DeploymentIs, AtRest DEF Phased
    <3> QED BY <3>1
  <2>9. EndsOnce(p)'
    <3>1. \A o \in CallsOf(p)' : o.kind = k.pc
          BY <1>1, <2>5, <2>8, CallsBefore
    <3>2. \A o \in CallsOf(p)' : o.kind \notin Finishing
          BY <2>4, <3>1 DEF Finishing
    <3> QED BY <1>1, <2>1, <2>5, <3>2, EndsTurn
  <2>10. CommitsWhole(p)' /\ OpenIsUsed(p)'
    <3>1. CommitsWhole(p)'
          BY <1>1, <2>2, <2>4, <2>5, CommitTurn
    <3>2. OpenIsUsed(p)'
          BY <1>1, <2>2, <2>5, OpenTurn
    <3> QED BY <3>1, <3>2
  <2>11. InTransaction(t)' /\ MigratesAll(t)' /\ Told(t)'
    <3>1. doing'[t].pc = "versions" /\ callers'[t].kind = "initialize"
          BY <1>1, <1>8, <2>4, <2>5, CallsBefore
    <3>2. "versions" \notin Alive \cup {"begin", "done"}
          BY DEF Alive
    <3> QED BY <3>1, <3>2 DEF InTransaction, MigratesAll, Told
  <2>12. WholeUnits(stored)' /\ p \notin usable'
    <3>1. WholeUnits(stored)
          BY DEF DatabaseInv
    <3> QED BY <1>2, <2>1, <2>3, <3>1 DEF WholeUnits, WholeIn, Names, Units
  <2> QED BY <1>1, <2>5, <2>6, <2>7, <2>9, <2>10, <2>11, <2>12, TurnKeeps
<1> QED BY <1>1, <1>5, <1>6, <1>7, <1>8 DEF Acquire

-----------------------------------------------------------------------------
(* What a call of sqlite3 does to the connection and the file.             *)
Does(p, o, ok, c) ==
    /\ connections' = [connections EXCEPT ![p] = c] /\ ConnectionTyped(c) /\ ok \in BOOLEAN
    /\ ~ ok => c = connections[p] /\ stored' = stored /\ (o.kind \notin {"begin", "write"} => c.state = "closed")
    /\ ok => connections[p].state # "closed"
    /\ ok /\ o.kind = "begin" => connections[p].state = "idle" /\ c = [state |-> "open", pending |-> {}] /\ stored' = stored
    /\ ok /\ o.kind = "write" /\ connections[p].state = "open" =>
          c = [state |-> "open", pending |-> connections[p].pending \cup {o.what}] /\ stored' = stored
    /\ ok /\ o.kind = "write" /\ connections[p].state # "open" => c = connections[p] /\ stored' = stored \cup {o.what}
    /\ ok /\ o.kind = "commit" =>
          c = [state |-> "idle", pending |-> {}] /\ stored' = stored \cup connections[p].pending
    /\ ok /\ o.kind \in {"rollback", "unbegin"} => c = [state |-> "idle", pending |-> {}] /\ stored' = stored
    /\ ok /\ o.kind = "close" => c = Closing /\ stored' = stored
    /\ ok /\ o.kind \in {"versions", "select"} => c = connections[p] /\ stored' = stored

\* What the thread of a call does to the connection and to the file, by its kind
LEMMA DoesIs ==
    ASSUME DatabaseInv, callers' = callers, NEW p \in Processes, NEW o \in CallsOf(p), Perform(o)
    PROVE  \E ok, c : /\ Does(p, o, ok, c) /\ overtaken' = overtaken /\ abandoned' = abandoned
                      /\ IF o.awaited THEN Proceeds(o, ok)
                         ELSE threads' = threads \ {o} /\ UNCHANGED <<doing, lockQueue, usable>>
<1>1. /\ o \in threads /\ Home(o.by) = p /\ CallTyped(o) /\ ConnectionTyped(connections[p])
      /\ connections = [q \in Processes |-> connections[q]]
      BY DEF CallsOf, DatabaseInv, DatabaseTyped
<1>2. o.kind \in Active \ {"body"}
      BY <1>1, StepsAre DEF CallTyped
<1>3. PICK ok : ok = Succeeds(o)
      OBVIOUS
<1>4. ok \in BOOLEAN
      BY <1>3 DEF Succeeds
<1>5. CASE ~ ok
  <2>1. stored' = stored /\ connections' = connections
        BY <1>3, <1>5 DEF Perform
  <2>2. connections' = [connections EXCEPT ![p] = connections[p]]
        BY <1>1, <2>1
  <2>3. o.kind \notin {"begin", "write"} => connections[p].state = "closed"
        BY <1>1, <1>3, <1>5 DEF Succeeds
  <2>4. Does(p, o, ok, connections[p])
        BY <1>1, <1>4, <1>5, <2>1, <2>2, <2>3 DEF Does
  <2> QED BY <1>3, <2>4 DEF Perform
<1>6. CASE ok
  <2>1. Effect(o)
        BY <1>3, <1>6 DEF Perform
  <2>2. connections[p].state # "closed" /\ (o.kind = "begin" => connections[p].state = "idle")
        BY <1>1, <1>3, <1>6 DEF Succeeds
  <2>3. stored' = CASE o.kind = "commit" -> stored \cup connections[p].pending
                    [] o.kind = "write" /\ connections[p].state # "open" -> stored \cup {o.what}
                    [] OTHER -> stored
        BY <1>1, <2>1 DEF Effect
  <2>4. CASE o.kind = "begin"
    <3>1. PICK c : c = [state |-> "open", pending |-> {}]
          OBVIOUS
    <3>2. connections' = [connections EXCEPT ![p] = c]
          BY <1>1, <2>1, <2>4, <3>1 DEF Effect
    <3>3. Does(p, o, ok, c)
          BY <1>4, <1>6, <2>2, <2>3, <2>4, <3>1, <3>2 DEF Does, ConnectionTyped
    <3> QED BY <1>3, <3>3 DEF Perform
  <2>5. CASE o.kind = "write" /\ connections[p].state = "open"
    <3>1. PICK c : c = [connections[p] EXCEPT !.pending = connections[p].pending \cup {o.what}]
          OBVIOUS
    <3>2. connections' = [connections EXCEPT ![p] = c]
          BY <1>1, <2>1, <2>5, <3>1 DEF Effect
    <3>3. c = [state |-> "open", pending |-> connections[p].pending \cup {o.what}] /\ stored' = stored
          BY <1>1, <2>3, <2>5, <3>1 DEF ConnectionTyped
    <3>4. Does(p, o, ok, c)
          BY <1>4, <1>6, <2>2, <2>5, <3>2, <3>3 DEF Does, ConnectionTyped
    <3> QED BY <1>3, <3>4 DEF Perform
  <2>6. CASE (o.kind = "write" /\ connections[p].state # "open") \/ o.kind \in {"versions", "select"}
    <3>1. connections' = [connections EXCEPT ![p] = connections[p]]
          BY <1>1, <2>1, <2>6 DEF Effect
    <3>2. Does(p, o, ok, connections[p])
          BY <1>1, <1>4, <1>6, <2>2, <2>3, <2>6, <3>1 DEF Does
    <3> QED BY <1>3, <3>2 DEF Perform
  <2>7. CASE o.kind \in {"commit", "rollback", "unbegin"}
    <3>1. PICK c : c = [state |-> "idle", pending |-> {}]
          OBVIOUS
    <3>2. connections' = [connections EXCEPT ![p] = c]
          BY <1>1, <2>1, <2>7, <3>1 DEF Effect
    <3>3. Does(p, o, ok, c)
          BY <1>4, <1>6, <2>2, <2>3, <2>7, <3>1, <3>2 DEF Does, ConnectionTyped
    <3> QED BY <1>3, <3>3 DEF Perform
  <2>8. CASE o.kind = "close"
    <3>1. PICK c : c = Closing
          OBVIOUS
    <3>2. connections' = [connections EXCEPT ![p] = c]
          BY <1>1, <2>1, <2>8, <3>1 DEF Effect
    <3>3. Does(p, o, ok, c)
          BY <1>4, <1>6, <2>2, <2>3, <2>8, <3>1, <3>2 DEF Does, ConnectionTyped, Closing
    <3> QED BY <1>3, <3>3 DEF Perform
  <2> QED BY <1>2, <2>4, <2>5, <2>6, <2>7, <2>8 DEF Active
<1> QED BY <1>4, <1>5, <1>6

\* The one call that a caller waits for
LEMMA AwaitedIs ==
    ASSUME DatabaseInv, NEW o \in threads, o.awaited
    PROVE  /\ Home(o.by) \in Processes /\ o.by \in Mine(Home(o.by)) /\ o \in CallsOf(Home(o.by))
           /\ doing[o.by].pc = o.kind /\ o.kind \in Active /\ o.kind \in Steps[callers[o.by].kind] \ {"body"}
           /\ threads \ {o} = Kept(o.by)
           /\ o.kind = "write" => o.what = <<AtHand(o.by), doing[o.by].at + 1>> /\ doing[o.by].at < Statements[AtHand(o.by)]
<1>1. CallTyped(o) /\ o.by \in DOMAIN callers /\ callers \in Deployments
      BY DEF DatabaseInv, DatabaseTyped, CallTyped
<1>2. Home(o.by) \in Processes /\ o.by \in Mine(Home(o.by)) /\ o \in CallsOf(Home(o.by))
      BY <1>1, DeploymentIs DEF Mine, CallsOf
<1>3. CallsAgree(o.by)
      BY <1>2 DEF DatabaseInv, ProcessInv
<1>4. threads \ {o} = Kept(o.by)
      BY <1>3 DEF CallsAgree, Kept
<1>5. o.kind \in Active
      BY <1>1, StepsAre DEF CallTyped
<1> QED BY <1>1, <1>2, <1>3, <1>4, <1>5 DEF CallsAgree, CallTyped

\* The result of each kind of call: versions, select, begin, write, commit, and the ones that end
LEMMA VersionsKeep ==
    ASSUME DatabaseInv, callers' = callers, NEW p \in Processes, NEW o \in CallsOf(p), o.awaited, o.kind = "versions",
           NEW ok, NEW c, Does(p, o, ok, c), overtaken' = overtaken, abandoned' = abandoned, Proceeds(o, ok)
    PROVE  DatabaseInv'
<1>1. PICK t : t = o.by
      OBVIOUS
<1>2. /\ o \in threads /\ Home(t) = p /\ t \in Mine(p) /\ t \in DOMAIN callers /\ doing[t].pc = "versions" /\ threads \ {o} = Kept(t)
      /\ doing[t].pc \in Active
  <2>1. o \in threads /\ Home(t) = p
        BY <1>1 DEF CallsOf
  <2> QED BY <1>1, <2>1, AwaitedIs DEF Mine
<1>3. /\ CallerTyped(t, doing[t]) /\ lockQueue[p] # <<>> /\ lockQueue[p][1] = t /\ Phased(p)
      /\ connections = [q \in Processes |-> connections[q]] /\ ConnectionTyped(connections[p])
      BY <1>2, AtRest DEF ProcessInv
<1>4. Initializes(t)
  <2>1. callers[t].kind \in {"initialize", "unit", "query", "close"} /\ "versions" \in Steps[callers[t].kind]
        BY <1>1, <1>2, AtRest, AwaitedIs
  <2> QED BY <2>1 DEF Steps, Initializes
<1>5. /\ p \notin usable /\ connections[p].state = "idle"
      /\ \A q \in Kept(t) : q.by # t
  <2>1. p \notin usable /\ connections[p].state = "idle"
        BY <1>2, <1>3, <1>4 DEF Phased
  <2>2. ASSUME NEW q \in Kept(t), q.by = t PROVE FALSE
    <3>1. q \in CallsOf(p) /\ ~ q.awaited
          BY <1>2, <2>2 DEF Kept, CallsOf
    <3> QED BY <1>2, <1>4, <2>2, <3>1, ActiveIs
  <2> QED BY <2>1, <2>2
<1>6. stored' = stored /\ connections' = connections
  <2>1. c = connections[p] /\ stored' = stored /\ connections' = [connections EXCEPT ![p] = c]
        BY DEF Does
  <2> QED BY <1>3, <2>1
<1>8. CASE Awaits(t, Kept(t), "close", t, doing[t]) /\ usable' = usable
  <2>1. PICK k : Turn(t, k, Kept(t), {Call(t, k.pc, t)}) /\ k.pc = "close" /\ k.saw = doing[t].saw
    <3>1. PICK kind \in {"close"} : \E y : y = doing[t] /\ Awaits(t, Kept(t), kind, t, y)
          BY <1>2, <1>3, <1>8, Zenon
    <3>2. PICK x : x = doing[t] /\ Awaits(t, Kept(t), kind, t, x)
          BY <3>1
    <3>3. CallerTyped(t, x) /\ Kept(t) \in {Kept(t), Kept(t) \cup Forsaken(t)} /\ lockQueue[p] # <<>> /\ lockQueue[p][1] = t
          BY <1>2, <1>3, <1>8, <3>1, <3>2, AtRest
    <3>4. kind \in Steps[callers[t].kind] \ {"body"} /\ kind # "write"
          BY <1>4, <3>1 DEF Steps, Initializes
    <3>8. PICK k : k = [x EXCEPT !.pc = kind]
          OBVIOUS
    <3>9. Turn(t, k, Kept(t), {Call(t, k.pc, t)})
          BY <1>2, <3>2, <3>3, <3>4, <3>8, AwaitsOther
    <3>10. k.pc = kind /\ k.saw = x.saw /\ k.at = x.at /\ k.now = x.now /\ k.todo = x.todo
           BY <3>3, <3>8 DEF CallerTyped, IsCaller
    <3> QED BY <1>2, <1>3, <1>8, <3>1, <3>2, <3>3, <3>4, <3>9, <3>10
  <2>2. TurnWith(p, t, k, Kept(t), {Call(t, k.pc, t)}, connections[p])
        BY <1>2, <1>6, <1>8, <2>1, CalmIs
  <2>3. Excused(p, t, k, Kept(t))
        BY <1>2 DEF Excused
  <2>4. Phased(p)'
        BY <1>2, <1>4, <1>5, <1>8, <2>1, <2>2, InitTurn
  <2>5. k.pc \notin Alive \cup {"rollback", "unbegin", "begin", "done"} /\ k.pc \in Alive \cup {"rollback", "unbegin", "close"}
        BY <2>1 DEF Alive
  <2> QED BY <1>2, <1>5, <1>6, <1>8, <2>1, <2>2, <2>3, <2>4, <2>5, QuietKeeps
<1>9. CASE \E todo : /\ todo = {i \in Known(p) : Recorded(Migrations[i]) \notin stored}
                     /\ \/ todo = {} /\ Leaves(t, Kept(t), "done", [doing[t] EXCEPT !.todo = todo]) /\ usable' = usable \cup {p}
                        \/ \E i \in todo : /\ Awaits(t, Kept(t), "begin", t, [doing[t] EXCEPT !.todo = todo, !.now = i, !.at = 0])
                                           /\ usable' = usable
  <2>1. PICK todo : /\ todo = {i \in Known(p) : Recorded(Migrations[i]) \notin stored}
                    /\ \/ todo = {} /\ Leaves(t, Kept(t), "done", [doing[t] EXCEPT !.todo = todo]) /\ usable' = usable \cup {p}
                       \/ \E i \in todo : /\ Awaits(t, Kept(t), "begin", t, [doing[t] EXCEPT !.todo = todo, !.now = i, !.at = 0])
                                          /\ usable' = usable
        BY <1>9
  <2>2. CASE todo = {} /\ Leaves(t, Kept(t), "done", [doing[t] EXCEPT !.todo = todo]) /\ usable' = usable \cup {p}
    <3>1. PICK s : s = [doing[t] EXCEPT !.todo = todo]
          OBVIOUS
    <3>2. s = [pc |-> doing[t].pc, at |-> doing[t].at, todo |-> todo, now |-> doing[t].now, hit |-> doing[t].hit, saw |-> doing[t].saw]
          BY <1>3, <3>1 DEF CallerTyped, IsCaller
    <3>3. CallerTyped(t, s)
          BY <1>3, <2>2, <3>2 DEF CallerTyped, IsCaller
    <3>4. PICK k : Turn(t, k, Kept(t), {}) /\ k.pc = "done" /\ k.saw = s.saw
      <4>1. PICK how \in {"done"} : Leaves(t, Kept(t), how, s)
            BY <1>2, <2>2, <3>1, <3>3, Zenon
      <4>3. CallerTyped(t, s) /\ how \in Ended /\ Kept(t) \in {Kept(t), Kept(t) \cup Forsaken(t)}
            BY <1>2, <2>2, <3>1, <3>3, <4>1, AtRest DEF Ended
      <4>8. PICK k : k = [s EXCEPT !.pc = how]
            OBVIOUS
      <4>9. Turn(t, k, Kept(t), {})
            BY <1>2, <2>2, <3>1, <3>3, <4>1, <4>3, <4>8, LeavesIs
      <4>10. k.pc = how /\ k.saw = s.saw /\ k.at = s.at /\ k.now = s.now /\ k.todo = s.todo
             BY <4>3, <4>8 DEF CallerTyped, IsCaller
      <4> QED BY <1>2, <2>2, <3>1, <3>3, <4>1, <4>3, <4>9, <4>10
    <3>5. TurnWith(p, t, k, Kept(t), {}, connections[p])
          BY <1>2, <1>6, <2>2, <3>4, CalmIs
    <3>6. Excused(p, t, k, Kept(t))
          BY <1>2 DEF Excused
    <3>7. Phased(p)'
      <4>1. \A q \in threads' : q.by # t
            BY <1>5, <3>4 DEF Turn
      <4> QED BY <1>2, <1>4, <1>5, <2>2, <3>4, <3>5, <4>1, InitTurn
    <3>8. k.pc \notin Alive \cup {"rollback", "unbegin", "begin"} /\ callers[t].kind # "unit" /\ k.saw = doing[t].saw
          BY <1>4, <3>2, <3>4 DEF Alive, Initializes
    <3>9. \A i \in Known(p) : Recorded(Migrations[i]) \in stored
          BY <2>1, <2>2
    <3> QED BY <1>2, <1>5, <1>6, <3>4, <3>5, <3>6, <3>7, <3>8, <3>9, QuietKeeps
  <2>3. ASSUME NEW i \in todo, Awaits(t, Kept(t), "begin", t, [doing[t] EXCEPT !.todo = todo, !.now = i, !.at = 0]),
               usable' = usable
        PROVE  DatabaseInv'
    <3>1. PICK s : s = [doing[t] EXCEPT !.todo = todo, !.now = i, !.at = 0]
          OBVIOUS
    <3>2. s = [pc |-> doing[t].pc, at |-> 0, todo |-> todo, now |-> i, hit |-> doing[t].hit, saw |-> doing[t].saw]
          BY <1>3, <3>1 DEF CallerTyped, IsCaller
    <3>3. CallerTyped(t, s)
          BY <1>2, <1>3, <2>1, <3>2 DEF CallerTyped, IsCaller
    <3>4. PICK k : Turn(t, k, Kept(t), {Call(t, k.pc, t)}) /\ k.pc = "begin" /\ k.saw = s.saw /\ k.todo = s.todo /\ k.now = s.now
      <4>1. PICK kind \in {"begin"} : Awaits(t, Kept(t), kind, t, s)
            BY <1>2, <1>3, <2>3, <3>1, <3>3, Zenon
      <4>3. CallerTyped(t, s) /\ Kept(t) \in {Kept(t), Kept(t) \cup Forsaken(t)} /\ lockQueue[p] # <<>> /\ lockQueue[p][1] = t
            BY <1>2, <1>3, <2>3, <3>1, <3>3, <4>1, AtRest
      <4>4. kind \in Steps[callers[t].kind] \ {"body"} /\ kind # "write"
            BY <1>4, <4>1 DEF Steps, Initializes
      <4>8. PICK k : k = [s EXCEPT !.pc = kind]
            OBVIOUS
      <4>9. Turn(t, k, Kept(t), {Call(t, k.pc, t)})
            BY <1>2, <4>1, <4>3, <4>4, <4>8, AwaitsOther
      <4>10. k.pc = kind /\ k.saw = s.saw /\ k.at = s.at /\ k.now = s.now /\ k.todo = s.todo
             BY <4>3, <4>8 DEF CallerTyped, IsCaller
      <4> QED BY <1>2, <1>3, <2>3, <3>1, <3>3, <4>1, <4>3, <4>4, <4>9, <4>10
    <3>5. TurnWith(p, t, k, Kept(t), {Call(t, k.pc, t)}, connections[p])
          BY <1>2, <1>6, <2>3, <3>4, CalmIs
    <3>6. Excused(p, t, k, Kept(t))
          BY <1>2 DEF Excused
    <3>7. Phased(p)'
          BY <1>2, <1>4, <1>5, <2>3, <3>4, <3>5, InitTurn
    <3>8. k.pc \notin Alive \cup {"rollback", "unbegin", "done"} /\ k.saw = doing[t].saw
          BY <3>2, <3>4 DEF Alive
    <3>9. k.now \in k.todo /\ \A j \in Known(p) : j \in k.todo \/ Recorded(Migrations[j]) \in stored
          BY <2>1, <3>2, <3>4
    <3> QED BY <1>2, <1>5, <1>6, <2>3, <3>4, <3>5, <3>6, <3>7, <3>8, <3>9, QuietKeeps
  <2> QED BY <2>1, <2>2, <2>3
<1>10. PICK todo : todo = {i \in Known(p) : Recorded(Migrations[i]) \notin stored}
       OBVIOUS
<1>11. \/ Awaits(t, Kept(t), "close", t, doing[t]) /\ usable' = usable
       \/ todo = {} /\ Leaves(t, Kept(t), "done", [doing[t] EXCEPT !.todo = todo]) /\ usable' = usable \cup {p}
       \/ \E i \in todo : /\ Awaits(t, Kept(t), "begin", t, [doing[t] EXCEPT !.todo = todo, !.now = i, !.at = 0])
                          /\ usable' = usable
       BY <1>1, <1>2, <1>10 DEF Proceeds
<1> QED BY <1>8, <1>9, <1>10, <1>11

LEMMA SelectKeeps ==
    ASSUME DatabaseInv, callers' = callers, NEW p \in Processes, NEW o \in CallsOf(p), o.awaited, o.kind = "select",
           NEW ok, NEW c, Does(p, o, ok, c), overtaken' = overtaken, abandoned' = abandoned, Proceeds(o, ok)
    PROVE  DatabaseInv'
<1>1. PICK t : t = o.by
      OBVIOUS
<1>2. /\ o \in threads /\ Home(t) = p /\ t \in Mine(p) /\ t \in DOMAIN callers /\ doing[t].pc = "select" /\ threads \ {o} = Kept(t)
      /\ doing[t].pc \in Active
  <2>1. o \in threads /\ Home(t) = p
        BY <1>1 DEF CallsOf
  <2> QED BY <1>1, <2>1, AwaitedIs DEF Mine
<1>3. /\ CallerTyped(t, doing[t]) /\ ProcessInv(p) /\ WholeUnits(stored)
      /\ connections = [q \in Processes |-> connections[q]] /\ ConnectionTyped(connections[p])
      BY <1>2, AtRest
<1>4. callers[t].kind = "query"
  <2>1. callers[t].kind \in {"initialize", "unit", "query", "close"} /\ "select" \in Steps[callers[t].kind]
        BY <1>1, <1>2, AtRest, AwaitedIs
  <2> QED BY <2>1 DEF Steps
<1>5. stored' = stored /\ connections' = connections
  <2>1. c = connections[p] /\ stored' = stored /\ connections' = [connections EXCEPT ![p] = c]
        BY DEF Does
  <2> QED BY <1>3, <2>1
<1>6. abandoned = {} => connections[p].pending = {}
  <2>1. ASSUME abandoned = {}, connections[p].state = "open" PROVE FALSE
    <3>1. OpenIsUsed(p)
          BY <1>3 DEF ProcessInv
    <3>2. \A u \in Mine(p) : doing[u].pc \in Active => u = t
          BY <1>2, ActiveIs
    <3>3. \A q \in CallsOf(p) : q.kind # "close"
          BY <1>2, <1>4, ActiveIs
    <3>4. Alive \cup {"rollback", "unbegin", "close"} \subseteq Active
          BY DEF Alive, Active
    <3> QED BY <1>2, <2>1, <3>1, <3>2, <3>3, <3>4 DEF OpenIsUsed, Alive
  <2> QED BY <1>3, <2>1 DEF ConnectionTyped
<1>7. PICK s : s = [doing[t] EXCEPT !.saw = stored \cup connections[p].pending]
      OBVIOUS
<1>8. Leaves(t, Kept(t), "done", s) /\ usable' = usable
      BY <1>1, <1>2, <1>7 DEF Proceeds
<1>9. s = [pc |-> doing[t].pc, at |-> doing[t].at, todo |-> doing[t].todo, now |-> doing[t].now, hit |-> doing[t].hit,
           saw |-> stored \cup connections[p].pending]
      BY <1>3, <1>7 DEF CallerTyped, IsCaller
<1>10. CallerTyped(t, s)
       BY <1>3, <1>9 DEF CallerTyped, IsCaller
<1>11. PICK k : Turn(t, k, Kept(t), {}) /\ k.pc = "done" /\ k.saw = s.saw
  <2>1. PICK how \in {"done"} : Leaves(t, Kept(t), how, s)
        BY <1>2, <1>8, <1>10, Zenon
  <2>3. CallerTyped(t, s) /\ how \in Ended /\ Kept(t) \in {Kept(t), Kept(t) \cup Forsaken(t)}
        BY <1>2, <1>8, <1>10, <2>1, AtRest DEF Ended
  <2>8. PICK k : k = [s EXCEPT !.pc = how]
        OBVIOUS
  <2>9. Turn(t, k, Kept(t), {})
        BY <1>2, <1>8, <1>10, <2>1, <2>3, <2>8, LeavesIs
  <2>10. k.pc = how /\ k.saw = s.saw /\ k.at = s.at /\ k.now = s.now /\ k.todo = s.todo
         BY <2>3, <2>8 DEF CallerTyped, IsCaller
  <2> QED BY <1>2, <1>8, <1>10, <2>1, <2>3, <2>9, <2>10
<1>12. TurnWith(p, t, k, Kept(t), {}, connections[p])
       BY <1>2, <1>5, <1>8, <1>11, CalmIs
<1>13. Excused(p, t, k, Kept(t)) /\ ~ Initializes(t)
       BY <1>2, <1>4 DEF Excused, Initializes
<1>14. Phased(p)'
  <2>1. k.pc \notin Active /\ k.pc # "close"
        BY <1>11 DEF Active
  <2> QED BY <1>2, <1>8, <1>12, <1>13, <2>1, ServeTurn
<1>15. k.pc \notin Alive \cup {"rollback", "unbegin", "begin"} /\ doing[t].pc \notin Alive \cup {"rollback", "unbegin", "close"}
       BY <1>2, <1>11 DEF Alive
<1>16. abandoned = {} => \A u \in Units : WholeIn(k.saw, u)
  <2>1. ASSUME abandoned = {} PROVE \A u \in Units : WholeIn(k.saw, u)
    <3>1. k.saw = stored
          BY <1>6, <1>9, <1>11, <2>1
    <3> QED BY <1>3, <3>1 DEF WholeUnits, Names
  <2> QED BY <2>1
<1> QED BY <1>2, <1>4, <1>5, <1>8, <1>11, <1>12, <1>13, <1>14, <1>15, <1>16, QuietKeeps

\* A caller goes on into its body
LEMMA BodyIs ==
    ASSUME DatabaseInv, NEW p \in Processes, NEW t \in Mine(p), callers' = callers, doing[t].pc \in Active,
           callers[t].kind \in {"initialize", "unit"}, NEW n \in Nat, NEW k, k = [doing[t] EXCEPT !.pc = "body", !.at = n],
           doing' = [doing EXCEPT ![t] = k], threads' = Kept(t), lockQueue' = lockQueue
    PROVE  Turn(t, k, Kept(t), {})
<1>2. t \in DOMAIN callers /\ Home(t) = p /\ CallerTyped(t, doing[t]) /\ lockQueue[p] # <<>> /\ lockQueue[p][1] = t
      BY AtRest
<1>3. k = [pc |-> "body", at |-> n, todo |-> doing[t].todo, now |-> doing[t].now, hit |-> doing[t].hit, saw |-> doing[t].saw]
      BY <1>2 DEF CallerTyped, IsCaller
<1>4. CallerTyped(t, k)
  <2>1. "body" \in Steps[callers[t].kind]
        BY DEF Steps
  <2> QED BY <1>2, <1>3, <2>1 DEF CallerTyped, IsCaller
<1>5. Stays(t, k) /\ k.pc = "body"
      BY <1>2, <1>3 DEF Stays, Active
<1> QED BY <1>4, <1>5 DEF Turn

\* A transaction that is open, or goes on by one statement
LEMMA InBodyKeeps ==
    ASSUME DatabaseInv, NEW p \in Processes, NEW t \in Mine(p), NEW k, NEW new, NEW c,
           TurnWith(p, t, k, Kept(t), new, c), stored' = stored, usable' = usable,
           doing[t].pc \in {"begin", "write"}, callers[t].kind \in {"initialize", "unit"}, NoFinisher(p),
           c.state = "open", k.pc = "body" \/ (k.pc = "unbegin" /\ ~ Initializes(t)),
           k.pc = "body" =>
              /\ k.todo = doing[t].todo /\ k.now = doing[t].now
              /\ {<<AtHand(t), j>> : j \in 1..k.at} \subseteq c.pending
              /\ c.pending \subseteq {<<AtHand(t), j>> : j \in 1..k.at} \cup overtaken
              /\ k.at <= Statements[AtHand(t)]
    PROVE  DatabaseInv'
<1>0. /\ t \in DOMAIN callers /\ Home(t) = p /\ Phased(p) /\ MigratesAll(t) /\ WholeUnits(stored)
      /\ callers' = callers /\ overtaken \subseteq overtaken' /\ doing'[t] = k /\ connections'[p] = c /\ doing[t].pc \in Active
      /\ Turn(t, k, Kept(t), new) /\ ProcessInv(p)
  <2>1. t \in DOMAIN callers /\ Home(t) = p /\ ProcessInv(p) /\ WholeUnits(stored)
        BY AtRest
  <2>2. connections'[p] = c /\ doing'[t] = k
        BY CallsBefore
  <2>3. callers' = callers /\ overtaken \subseteq overtaken' /\ Turn(t, k, Kept(t), new)
        BY DEF TurnWith, Turn
  <2> QED BY <2>1, <2>2, <2>3 DEF ProcessInv, Active
<1>1. AtHand(t)' = UnitFor(t, k) /\ (k.pc = "body" => UnitFor(t, k) = AtHand(t))
      BY <1>0, TurnIs DEF UnitFor, AtHand, Initializes
<1>2. Excused(p, t, k, Kept(t))
      BY DEF Excused
<1>3. Phased(p)'
  <2>1. CASE Initializes(t)
    <3>1. p \notin usable
          BY <1>0, <2>1 DEF Phased
    <3> QED BY <1>0, <2>1, <3>1, InitTurn
  <2>2. CASE ~ Initializes(t)
    <3>1. p \in usable /\ k.pc # "close"
          BY <1>0, <2>2 DEF Phased, Initializes
    <3> QED BY <1>0, <2>2, <3>1, ServeTurn
  <2> QED BY <2>1, <2>2
<1>4. EndsOnce(p)'
      BY <1>0, EndsTurn
<1>5. CommitsWhole(p)'
      BY CommitTurn
<1>6. OpenIsUsed(p)'
      BY OpenTurn DEF Alive
<1>7. InTransaction(t)'
  <2>1. CASE k.pc = "body"
    <3>1. Under(t)' = {<<AtHand(t), j>> : j \in 1..k.at}
          BY <1>0, <1>1, <2>1 DEF Under
    <3>2. Home(t)' = p
          BY <1>0 DEF Home
    <3> QED BY <1>0, <1>1, <2>1, <3>1, <3>2 DEF InTransaction
  <2>2. CASE k.pc = "unbegin"
        BY <1>0, <2>2 DEF InTransaction, Alive
  <2> QED BY <2>1, <2>2
<1>8. MigratesAll(t)'
  <2>1. CASE Initializes(t)
        BY <1>0, <2>1 DEF MigratesAll, Alive, Initializes, Home
  <2>2. CASE ~ Initializes(t)
        BY <1>0, <2>2 DEF MigratesAll, Initializes
  <2> QED BY <2>1, <2>2
<1>9. Told(t)'
      BY <1>0 DEF Told
<1>10. WholeUnits(stored)' /\ (p \in usable' => \A i \in Known(p) : Recorded(Migrations[i]) \in stored')
       BY <1>0 DEF WholeUnits, WholeIn, Names, Units, ProcessInv
<1> QED BY <1>2, <1>3, <1>4, <1>5, <1>6, <1>7, <1>8, <1>9, <1>10, TurnKeeps

LEMMA BeginKeeps ==
    ASSUME DatabaseInv, callers' = callers, NEW p \in Processes, NEW o \in CallsOf(p), o.awaited, o.kind = "begin",
           NEW ok, NEW c, Does(p, o, ok, c), overtaken' = overtaken, abandoned' = abandoned, Proceeds(o, ok)
    PROVE  DatabaseInv'
<1>1. PICK t : t = o.by
      OBVIOUS
<1>2. /\ o \in threads /\ Home(t) = p /\ t \in Mine(p) /\ t \in DOMAIN callers /\ doing[t].pc = "begin" /\ threads \ {o} = Kept(t)
      /\ doing[t].pc \in Active
  <2>1. o \in threads /\ Home(t) = p
        BY <1>1 DEF CallsOf
  <2> QED BY <1>1, <2>1, AwaitedIs DEF Mine
<1>3. /\ CallerTyped(t, doing[t]) /\ ProcessInv(p) /\ Phased(p) /\ lockQueue[p] # <<>> /\ lockQueue[p][1] = t
      /\ connections = [q \in Processes |-> connections[q]] /\ callers \in Deployments
      BY <1>2, AtRest DEF ProcessInv
<1>4. callers[t].kind \in {"initialize", "unit"} /\ (Initializes(t) <=> callers[t].kind = "initialize")
  <2>1. callers[t].kind \in {"initialize", "unit", "query", "close"} /\ "begin" \in Steps[callers[t].kind]
        BY <1>1, <1>2, AtRest, AwaitedIs
  <2> QED BY <2>1 DEF Steps, Initializes
<1>5. CASE ~ ok
  <2>1. stored' = stored /\ connections' = connections
    <3>1. c = connections[p] /\ stored' = stored /\ connections' = [connections EXCEPT ![p] = c]
          BY <1>5 DEF Does
    <3> QED BY <1>3, <3>1
  <2>2. CASE Initializes(t)
    <3>1. Awaits(t, Kept(t), "rollback", t, doing[t]) /\ usable' = usable
          BY <1>1, <1>2, <1>4, <1>5, <2>2 DEF Proceeds
    <3>2. PICK k : Turn(t, k, Kept(t), {Call(t, k.pc, t)}) /\ k.pc = "rollback" /\ k.saw = doing[t].saw
      <4>1. PICK kind \in {"rollback"} : \E y : y = doing[t] /\ Awaits(t, Kept(t), kind, t, y)
            BY <1>2, <1>3, <3>1, Zenon
      <4>2. PICK x : x = doing[t] /\ Awaits(t, Kept(t), kind, t, x)
            BY <4>1
      <4>3. CallerTyped(t, x) /\ Kept(t) \in {Kept(t), Kept(t) \cup Forsaken(t)} /\ lockQueue[p] # <<>> /\ lockQueue[p][1] = t
            BY <1>2, <1>3, <3>1, <4>1, <4>2, AtRest
      <4>4. kind \in Steps[callers[t].kind] \ {"body"} /\ kind # "write"
            BY <1>4, <2>2, <4>1 DEF Steps, Initializes
      <4>8. PICK k : k = [x EXCEPT !.pc = kind]
            OBVIOUS
      <4>9. Turn(t, k, Kept(t), {Call(t, k.pc, t)})
            BY <1>2, <4>2, <4>3, <4>4, <4>8, AwaitsOther
      <4>10. k.pc = kind /\ k.saw = x.saw /\ k.at = x.at /\ k.now = x.now /\ k.todo = x.todo
             BY <4>3, <4>8 DEF CallerTyped, IsCaller
      <4> QED BY <1>2, <1>3, <3>1, <4>1, <4>2, <4>3, <4>4, <4>9, <4>10
    <3>3. TurnWith(p, t, k, Kept(t), {Call(t, k.pc, t)}, connections[p])
          BY <1>2, <2>1, <3>1, <3>2, CalmIs
    <3>4. Excused(p, t, k, Kept(t)) /\ p \notin usable
          BY <1>2, <1>3, <2>2 DEF Excused, Phased
    <3>5. Phased(p)'
          BY <1>2, <2>2, <3>1, <3>2, <3>3, <3>4, InitTurn
    <3>6. k.pc \notin Alive \cup {"begin", "done"} /\ k.pc \in Alive \cup {"rollback", "unbegin", "close"}
          BY <3>2 DEF Alive
    <3> QED BY <1>2, <2>1, <2>2, <3>1, <3>2, <3>3, <3>4, <3>5, <3>6, QuietKeeps
  <2>3. CASE ~ Initializes(t)
    <3>1. Leaves(t, Kept(t), "raised", doing[t]) /\ usable' = usable
          BY <1>1, <1>2, <1>4, <1>5, <2>3 DEF Proceeds
    <3>2. PICK k : Turn(t, k, Kept(t), {}) /\ k.pc = "raised" /\ k.saw = doing[t].saw
      <4>1. PICK how \in {"raised"} : \E y : y = doing[t] /\ Leaves(t, Kept(t), how, y)
            BY <1>2, <1>3, <3>1, Zenon
      <4>2. PICK x : x = doing[t] /\ Leaves(t, Kept(t), how, x)
            BY <4>1
      <4>3. CallerTyped(t, x) /\ how \in Ended /\ Kept(t) \in {Kept(t), Kept(t) \cup Forsaken(t)}
            BY <1>2, <1>3, <3>1, <4>1, <4>2, AtRest DEF Ended
      <4>8. PICK k : k = [x EXCEPT !.pc = how]
            OBVIOUS
      <4>9. Turn(t, k, Kept(t), {})
            BY <1>2, <1>3, <3>1, <4>1, <4>2, <4>3, <4>8, LeavesIs
      <4>10. k.pc = how /\ k.saw = x.saw /\ k.at = x.at /\ k.now = x.now /\ k.todo = x.todo
             BY <4>3, <4>8 DEF CallerTyped, IsCaller
      <4> QED BY <1>2, <1>3, <3>1, <4>1, <4>2, <4>3, <4>9, <4>10
    <3>3. TurnWith(p, t, k, Kept(t), {}, connections[p])
          BY <1>2, <2>1, <3>1, <3>2, CalmIs
    <3>4. Excused(p, t, k, Kept(t))
          BY <1>2 DEF Excused
    <3>5. Phased(p)'
      <4>1. k.pc \notin Active /\ k.pc # "close"
            BY <3>2 DEF Active
      <4> QED BY <1>2, <2>3, <3>1, <3>2, <3>3, <4>1, ServeTurn
    <3>6. k.pc \notin Alive \cup {"rollback", "unbegin", "begin", "done"} /\ doing[t].pc \notin Alive \cup {"rollback", "unbegin", "close"}
          BY <1>2, <3>2 DEF Alive
    <3> QED BY <1>2, <2>1, <2>3, <3>1, <3>2, <3>3, <3>4, <3>5, <3>6, QuietKeeps
  <2> QED BY <2>2, <2>3
<1>6. CASE ok
  <2>1. /\ connections[p].state = "idle" /\ c = [state |-> "open", pending |-> {}] /\ stored' = stored
        /\ connections' = [connections EXCEPT ![p] = c] /\ ConnectionTyped(c)
        BY <1>6 DEF Does
  <2>2. NoFinisher(p)
        BY <1>2, <2>1, AloneIs
  <2>3. CASE doing[t].hit /\ ~ Initializes(t)
    <3>1. Awaits(t, Kept(t), "unbegin", t, doing[t]) /\ usable' = usable
          BY <1>1, <1>2, <1>4, <1>6, <2>3 DEF Proceeds
    <3>2. PICK k : Turn(t, k, Kept(t), {Call(t, k.pc, t)}) /\ k.pc = "unbegin"
      <4>1. PICK kind \in {"unbegin"} : \E y : y = doing[t] /\ Awaits(t, Kept(t), kind, t, y)
            BY <1>2, <1>3, <3>1, Zenon
      <4>2. PICK x : x = doing[t] /\ Awaits(t, Kept(t), kind, t, x)
            BY <4>1
      <4>3. CallerTyped(t, x) /\ Kept(t) \in {Kept(t), Kept(t) \cup Forsaken(t)} /\ lockQueue[p] # <<>> /\ lockQueue[p][1] = t
            BY <1>2, <1>3, <3>1, <4>1, <4>2, AtRest
      <4>4. kind \in Steps[callers[t].kind] \ {"body"} /\ kind # "write"
            BY <1>4, <2>3, <4>1 DEF Steps, Initializes
      <4>8. PICK k : k = [x EXCEPT !.pc = kind]
            OBVIOUS
      <4>9. Turn(t, k, Kept(t), {Call(t, k.pc, t)})
            BY <1>2, <4>2, <4>3, <4>4, <4>8, AwaitsOther
      <4>10. k.pc = kind /\ k.saw = x.saw /\ k.at = x.at /\ k.now = x.now /\ k.todo = x.todo
             BY <4>3, <4>8 DEF CallerTyped, IsCaller
      <4> QED BY <1>2, <1>3, <3>1, <4>1, <4>2, <4>3, <4>4, <4>9, <4>10
    <3>3. TurnWith(p, t, k, Kept(t), {Call(t, k.pc, t)}, c)
          BY <1>2, <2>1, <3>1, <3>2 DEF TurnWith
    <3> QED BY <1>2, <1>4, <2>1, <2>2, <2>3, <3>1, <3>2, <3>3, InBodyKeeps
  <2>4. CASE ~ (doing[t].hit /\ ~ Initializes(t))
    <3>1. /\ doing' = [doing EXCEPT ![t] = [doing[t] EXCEPT !.pc = "body", !.at = 0]]
          /\ threads' = Kept(t) /\ lockQueue' = lockQueue /\ usable' = usable
          BY <1>1, <1>2, <1>4, <1>6, <2>4 DEF Proceeds
    <3>2. PICK k : Turn(t, k, Kept(t), {}) /\ k.pc = "body" /\ k.at = 0 /\ k.todo = doing[t].todo /\ k.now = doing[t].now
      <4>1. PICK n \in Nat : n = 0
            OBVIOUS
      <4>2. PICK k : k = [doing[t] EXCEPT !.pc = "body", !.at = n]
            OBVIOUS
      <4>3. doing' = [doing EXCEPT ![t] = k] /\ threads' = Kept(t) /\ lockQueue' = lockQueue
            BY <3>1, <4>1, <4>2
      <4>4. Turn(t, k, Kept(t), {})
            BY <1>2, <1>4, <4>2, <4>3, BodyIs
      <4>5. k.pc = "body" /\ k.at = n /\ k.todo = doing[t].todo /\ k.now = doing[t].now
            BY <1>3, <4>2 DEF CallerTyped, IsCaller
      <4> QED BY <4>1, <4>4, <4>5
    <3>3. TurnWith(p, t, k, Kept(t), {}, c)
          BY <1>2, <2>1, <3>1, <3>2 DEF TurnWith
    <3>4. Statements[AtHand(t)] \in Nat
      <4>1. CASE Initializes(t)
        <5>1. doing[t].now \in doing[t].todo /\ doing[t].todo \subseteq Known(p)
              BY <1>2, <1>3, <4>1 DEF ProcessInv, MigratesAll, CallerTyped
        <5> QED BY <1>3, <1>4, <4>1, <5>1, DeploymentIs DEF AtHand
      <4>2. CASE ~ Initializes(t)
            BY <1>2, <1>3, <1>4, <4>2, DeploymentIs DEF AtHand
      <4> QED BY <4>1, <4>2
    <3>5. {<<AtHand(t), j>> : j \in 1..k.at} = {} /\ k.at <= Statements[AtHand(t)]
          BY <3>2, <3>4
    <3> QED BY <1>2, <1>4, <2>1, <2>2, <3>1, <3>2, <3>3, <3>5, InBodyKeeps
  <2> QED BY <2>3, <2>4
<1>7. ok \in BOOLEAN
      BY DEF Does
<1> QED BY <1>5, <1>6, <1>7

LEMMA WriteKeeps ==
    ASSUME DatabaseInv, callers' = callers, NEW p \in Processes, NEW o \in CallsOf(p), o.awaited, o.kind = "write",
           NEW ok, NEW c, Does(p, o, ok, c), overtaken' = overtaken, abandoned' = abandoned, Proceeds(o, ok)
    PROVE  DatabaseInv'
<1>1. PICK t : t = o.by
      OBVIOUS
<1>2. /\ o \in threads /\ Home(t) = p /\ t \in Mine(p) /\ t \in DOMAIN callers /\ doing[t].pc = "write" /\ threads \ {o} = Kept(t)
      /\ doing[t].pc \in Active /\ o.what = <<AtHand(t), doing[t].at + 1>> /\ doing[t].at < Statements[AtHand(t)]
  <2>1. o \in threads /\ Home(t) = p
        BY <1>1 DEF CallsOf
  <2> QED BY <1>1, <2>1, AwaitedIs DEF Mine
<1>3. /\ CallerTyped(t, doing[t]) /\ ProcessInv(p) /\ Phased(p) /\ lockQueue[p] # <<>> /\ lockQueue[p][1] = t
      /\ connections = [q \in Processes |-> connections[q]] /\ callers \in Deployments
      BY <1>2, AtRest DEF ProcessInv
<1>4. callers[t].kind \in {"initialize", "unit"} /\ (Initializes(t) <=> callers[t].kind = "initialize")
  <2>1. callers[t].kind \in {"initialize", "unit", "query", "close"} /\ "write" \in Steps[callers[t].kind]
        BY <1>1, <1>2, AtRest, AwaitedIs
  <2> QED BY <2>1 DEF Steps, Initializes
<1>5. CASE ~ ok
  <2>1. stored' = stored /\ connections' = connections
    <3>1. c = connections[p] /\ stored' = stored /\ connections' = [connections EXCEPT ![p] = c]
          BY <1>5 DEF Does
    <3> QED BY <1>3, <3>1
  <2>2. Awaits(t, Kept(t), "rollback", t, doing[t]) /\ usable' = usable
        BY <1>1, <1>2, <1>5 DEF Proceeds
  <2>3. PICK k : Turn(t, k, Kept(t), {Call(t, k.pc, t)}) /\ k.pc = "rollback" /\ k.saw = doing[t].saw
    <3>1. PICK kind \in {"rollback"} : \E y : y = doing[t] /\ Awaits(t, Kept(t), kind, t, y)
          BY <1>2, <1>3, <2>2, Zenon
    <3>2. PICK x : x = doing[t] /\ Awaits(t, Kept(t), kind, t, x)
          BY <3>1
    <3>3. CallerTyped(t, x) /\ Kept(t) \in {Kept(t), Kept(t) \cup Forsaken(t)} /\ lockQueue[p] # <<>> /\ lockQueue[p][1] = t
          BY <1>2, <1>3, <2>2, <3>1, <3>2, AtRest
    <3>4. kind \in Steps[callers[t].kind] \ {"body"} /\ kind # "write"
          BY <1>4, <3>1 DEF Steps, Initializes
    <3>8. PICK k : k = [x EXCEPT !.pc = kind]
          OBVIOUS
    <3>9. Turn(t, k, Kept(t), {Call(t, k.pc, t)})
          BY <1>2, <3>2, <3>3, <3>4, <3>8, AwaitsOther
    <3>10. k.pc = kind /\ k.saw = x.saw /\ k.at = x.at /\ k.now = x.now /\ k.todo = x.todo
           BY <3>3, <3>8 DEF CallerTyped, IsCaller
    <3> QED BY <1>2, <1>3, <2>2, <3>1, <3>2, <3>3, <3>4, <3>9, <3>10
  <2>4. TurnWith(p, t, k, Kept(t), {Call(t, k.pc, t)}, connections[p])
        BY <1>2, <2>1, <2>2, <2>3, CalmIs
  <2>5. Excused(p, t, k, Kept(t))
        BY <1>2 DEF Excused
  <2>6. Phased(p)'
    <3>1. CASE Initializes(t)
      <4>1. p \notin usable
            BY <1>2, <1>3, <3>1 DEF Phased
      <4> QED BY <1>2, <2>2, <2>3, <2>4, <3>1, <4>1, InitTurn
    <3>2. CASE ~ Initializes(t)
      <4>1. p \in usable
            BY <1>2, <1>3, <1>4, <3>2 DEF Phased
      <4> QED BY <1>2, <2>2, <2>3, <2>4, <3>2, <4>1, ServeTurn
    <3> QED BY <3>1, <3>2
  <2>7. k.pc \notin Alive \cup {"begin", "done"} /\ k.pc \in Alive \cup {"rollback", "unbegin", "close"}
        BY <2>3 DEF Alive
  <2> QED BY <1>2, <2>1, <2>2, <2>3, <2>4, <2>5, <2>6, <2>7, QuietKeeps
<1>6. CASE ok
  <2>1. InTransaction(t) /\ doing[t].pc \in Alive
        BY <1>2, <1>3 DEF ProcessInv, Alive
  <2>2. /\ connections[p].state = "open" /\ doing[t].at \in Nat
        /\ {<<AtHand(t), j>> : j \in 1..doing[t].at} \subseteq connections[p].pending
        /\ connections[p].pending \subseteq {<<AtHand(t), j>> : j \in 1..doing[t].at} \cup overtaken
        BY <1>2, <1>3, <2>1 DEF InTransaction, Under, CallerTyped
  <2>3. /\ c = [state |-> "open", pending |-> connections[p].pending \cup {<<AtHand(t), doing[t].at + 1>>}] /\ stored' = stored
        /\ connections' = [connections EXCEPT ![p] = c] /\ ConnectionTyped(c)
        BY <1>2, <1>6, <2>2 DEF Does
  <2>4. NoFinisher(p)
        BY <1>2, AloneIs
  <2>5. /\ doing' = [doing EXCEPT ![t] = [doing[t] EXCEPT !.pc = "body", !.at = doing[t].at + 1]]
        /\ threads' = Kept(t) /\ lockQueue' = lockQueue /\ usable' = usable
        BY <1>1, <1>2, <1>6 DEF Proceeds
  <2>6. PICK k : Turn(t, k, Kept(t), {}) /\ k.pc = "body" /\ k.at = doing[t].at + 1 /\ k.todo = doing[t].todo /\ k.now = doing[t].now
    <3>1. PICK n \in Nat : n = doing[t].at + 1
          BY <2>2
    <3>2. PICK k : k = [doing[t] EXCEPT !.pc = "body", !.at = n]
          OBVIOUS
    <3>3. doing' = [doing EXCEPT ![t] = k] /\ threads' = Kept(t) /\ lockQueue' = lockQueue
          BY <2>5, <3>1, <3>2
    <3>4. Turn(t, k, Kept(t), {})
          BY <1>2, <1>4, <3>2, <3>3, BodyIs
    <3>5. k.pc = "body" /\ k.at = n /\ k.todo = doing[t].todo /\ k.now = doing[t].now
          BY <1>3, <3>2 DEF CallerTyped, IsCaller
    <3> QED BY <3>1, <3>4, <3>5
  <2>7. TurnWith(p, t, k, Kept(t), {}, c)
        BY <1>2, <2>3, <2>5, <2>6 DEF TurnWith
  <2>8. Statements[AtHand(t)] \in Nat
    <3>1. CASE Initializes(t)
      <4>1. doing[t].now \in doing[t].todo /\ doing[t].todo \subseteq Known(p)
            BY <1>2, <1>3, <2>1, <3>1 DEF ProcessInv, MigratesAll, CallerTyped
      <4> QED BY <1>3, <1>4, <3>1, <4>1, DeploymentIs DEF AtHand
    <3>2. CASE ~ Initializes(t)
          BY <1>2, <1>3, <1>4, <3>2, DeploymentIs DEF AtHand
    <3> QED BY <3>1, <3>2
  <2>9. {<<AtHand(t), j>> : j \in 1..k.at} = {<<AtHand(t), j>> : j \in 1..doing[t].at} \cup {<<AtHand(t), doing[t].at + 1>>}
    <3>1. 1..k.at = (1..doing[t].at) \cup {doing[t].at + 1}
          BY <2>2, <2>6
    <3> QED BY <3>1
  <2>10. k.at <= Statements[AtHand(t)]
         BY <1>2, <2>2, <2>6, <2>8
  <2> QED BY <1>2, <1>4, <2>2, <2>3, <2>4, <2>5, <2>6, <2>7, <2>9, <2>10, InBodyKeeps
<1>7. ok \in BOOLEAN
      BY DEF Does
<1> QED BY <1>5, <1>6, <1>7

\* A call ends a transaction, or the connection, and its caller goes on at k
Closes(p, t, k, c, o) ==
    /\ o.by = t /\ o.awaited /\ o.kind \in Finishing \cup {"close"}
    /\ c.state # "open" /\ c.pending = {} /\ (c.state = "closed" \/ o.kind \in Finishing)
    /\ Initializes(t) => doing[t].pc \notin {"rollback", "close"} \/ k.pc \in {"close", "raised"}
    /\ callers[t].kind # "query" /\ k.pc \notin Alive \cup {"rollback", "unbegin"}
    /\ k.pc = "begin" => k.now \in k.todo /\ \A i \in Known(p) : i \in k.todo \/ Recorded(Migrations[i]) \in stored'
    /\ k.pc = "done" /\ callers[t].kind = "unit" => UnitOf(t) \subseteq stored'
    /\ p \in usable' => \A i \in Known(p) : Recorded(Migrations[i]) \in stored'

\* A turn after a commit, a rollback or a close: the transaction is over, the caller at most begins another
LEMMA EndKeeps ==
    ASSUME DatabaseInv, NEW p \in Processes, NEW t \in Mine(p), NEW k, NEW new, NEW c, NEW o \in CallsOf(p),
           TurnWith(p, t, k, Kept(t), new, c), Closes(p, t, k, c, o), Phased(p)', WholeUnits(stored)'
    PROVE  DatabaseInv'
<1> USE DEF Closes
<1>0. /\ t \in DOMAIN callers /\ Home(t) = p /\ callers' = callers /\ doing'[t] = k /\ connections'[p] = c
      /\ Turn(t, k, Kept(t), new) /\ EndsOnce(p) /\ o.kind = doing[t].pc /\ doing[t].pc \in Active
      /\ CallTyped(o) /\ callers[t].kind \in {"initialize", "unit", "query", "close"}
  <2>1. o \in threads
        BY DEF CallsOf
  <2>2. o.kind = doing[t].pc /\ doing[t].pc \in Active
        BY <2>1, AwaitedIs
  <2> QED BY <2>1, <2>2, AtRest, CallsBefore DEF ProcessInv, TurnWith, Turn, DatabaseInv, DatabaseTyped
<1>1. Excused(p, t, k, Kept(t))
      BY DEF Excused
<1>2. EndsOnce(p)'
  <2>1. ASSUME c.state = "idle", NEW q \in CallsOf(p)', q.kind \in Finishing PROVE Initializes(q.by)
    <3>1. q \in Kept(t)
      <4>1. q \in threads' /\ \A r \in new : r.kind = k.pc
            BY <1>0, CallsBefore DEF Turn, Call
      <4>2. k.pc \notin Finishing
            BY DEF Finishing, Alive
      <4> QED BY <1>0, <2>1, <4>1, <4>2 DEF Turn
    <3>2. q \in CallsOf(p) /\ ~ (q.by = t /\ q.awaited)
      <4>1. Home(q.by) = p
            BY <1>0, <2>1 DEF CallsOf, Home
      <4> QED BY <3>1, <4>1 DEF Kept, CallsOf
    <3>3. CASE Initializes(t)
          BY <1>0, <3>2, <3>3, ActiveIs
    <3>4. CASE ~ Initializes(t)
      <4>1. callers[t].kind = "unit" /\ o.kind \in Finishing
            BY <1>0, <2>1, <3>4 DEF CallTyped, Steps, Finishing, Initializes
      <4>2. q = o
            BY <1>0, <2>1, <3>2, <4>1 DEF EndsOnce
      <4> QED BY <3>2, <4>2
    <3> QED BY <3>3, <3>4
  <2> QED BY <2>1, EndsTurn
<1>3. CommitsWhole(p)'
  <2>1. k.pc # "commit"
        BY DEF Alive
  <2> QED BY <2>1, CommitTurn
<1>4. OpenIsUsed(p)'
      BY OpenTurn
<1>5. InTransaction(t)' /\ Told(t)'
      BY <1>0 DEF InTransaction, Told, UnitOf
<1>6. MigratesAll(t)'
      BY <1>0 DEF MigratesAll, Initializes, Home
<1> QED BY <1>1, <1>2, <1>3, <1>4, <1>5, <1>6, TurnKeeps

\* Two files that hold whole units do so together
LEMMA WholeTogether ==
    ASSUME NEW a, NEW b, WholeUnits(a), WholeUnits(b)
    PROVE  WholeUnits(a \cup b)
<1> SUFFICES ASSUME NEW name \in Names PROVE WholeIn(a \cup b, name)
    BY DEF WholeUnits
<1>1. WholeIn(a, name) /\ WholeIn(b, name)
      BY DEF WholeUnits
<1> QED BY <1>1 DEF WholeIn

LEMMA CommitKeeps ==
    ASSUME DatabaseInv, callers' = callers, NEW p \in Processes, NEW o \in CallsOf(p), o.awaited, o.kind = "commit",
           NEW ok, NEW c, Does(p, o, ok, c), overtaken' = overtaken, abandoned' = abandoned, Proceeds(o, ok)
    PROVE  DatabaseInv'
<1>1. PICK t : t = o.by
      OBVIOUS
<1>2. /\ o \in threads /\ Home(t) = p /\ t \in Mine(p) /\ t \in DOMAIN callers /\ doing[t].pc = "commit" /\ threads \ {o} = Kept(t)
      /\ doing[t].pc \in Active
  <2>1. o \in threads /\ Home(t) = p
        BY <1>1 DEF CallsOf
  <2> QED BY <1>1, <2>1, AwaitedIs DEF Mine
<1>3. /\ CallerTyped(t, doing[t]) /\ ProcessInv(p) /\ Phased(p) /\ lockQueue[p] # <<>> /\ lockQueue[p][1] = t
      /\ callers \in Deployments /\ WholeUnits(stored)
      BY <1>2, AtRest DEF ProcessInv
<1>4. callers[t].kind \in {"initialize", "unit"} /\ (Initializes(t) <=> callers[t].kind = "initialize")
  <2>1. callers[t].kind \in {"initialize", "unit", "query", "close"} /\ "commit" \in Steps[callers[t].kind]
        BY <1>1, <1>2, AtRest, AwaitedIs
  <2> QED BY <2>1 DEF Steps, Initializes
<1>5. /\ connections[p].state = "open" /\ UnitOf(AtHand(t)) \subseteq connections[p].pending
      /\ WholeUnits(connections[p].pending)
  <2>1. InTransaction(t) /\ doing[t].pc \in Alive /\ CommitsWhole(p)
        BY <1>2, <1>3 DEF ProcessInv, Alive
  <2> QED BY <1>2, <2>1 DEF InTransaction, Under, UnitOf, CommitsWhole
<1>6. /\ ok /\ c = [state |-> "idle", pending |-> {}] /\ stored' = stored \cup connections[p].pending
      /\ connections' = [connections EXCEPT ![p] = c] /\ ConnectionTyped(c)
      BY <1>5 DEF Does
<1>7. WholeUnits(stored)' /\ stored \subseteq stored' /\ UnitOf(AtHand(t)) \subseteq stored'
  <2>1. WholeUnits(stored \cup connections[p].pending)
        BY <1>3, <1>5, WholeTogether
  <2>2. WholeUnits(stored')
        BY <1>6, <2>1
  <2> QED BY <1>5, <1>6, <2>2 DEF WholeUnits, WholeIn, Names, Units
<1>8. CASE ~ Initializes(t)
  <2>1. PICK how \in {"raised", "done"} : Leaves(t, Kept(t), how, doing[t]) /\ usable' = usable
        BY <1>1, <1>2, <1>4, <1>8 DEF Proceeds
  <2>2. PICK k : Turn(t, k, Kept(t), {}) /\ k.pc = how
    <3>1. PICK x : x = doing[t] /\ Leaves(t, Kept(t), how, x)
          BY <1>2, <1>3, <2>1, Zenon
    <3>3. CallerTyped(t, x) /\ how \in Ended /\ Kept(t) \in {Kept(t), Kept(t) \cup Forsaken(t)}
          BY <1>2, <1>3, <2>1, <3>1, AtRest DEF Ended
    <3>8. PICK k : k = [x EXCEPT !.pc = how]
          OBVIOUS
    <3>9. Turn(t, k, Kept(t), {})
          BY <1>2, <1>3, <2>1, <3>1, <3>3, <3>8, LeavesIs
    <3>10. k.pc = how /\ k.saw = x.saw /\ k.at = x.at /\ k.now = x.now /\ k.todo = x.todo
           BY <3>3, <3>8 DEF CallerTyped, IsCaller
    <3> QED BY <1>2, <1>3, <2>1, <3>1, <3>3, <3>9, <3>10
  <2>3. TurnWith(p, t, k, Kept(t), {}, c)
        BY <1>2, <1>6, <1>7, <2>1, <2>2 DEF TurnWith
  <2>4. k.pc \notin Active /\ k.pc \notin Alive \cup {"rollback", "unbegin", "begin", "close"}
        BY <2>1, <2>2 DEF Active, Alive
  <2>5. Phased(p)'
        BY <1>2, <1>8, <2>1, <2>3, <2>4, ServeTurn
  <2>6. UnitOf(t) \subseteq stored'
        BY <1>4, <1>7, <1>8 DEF AtHand
  <2>7. p \in usable' => \A i \in Known(p) : Recorded(Migrations[i]) \in stored'
        BY <1>3, <1>7, <2>1 DEF ProcessInv
  <2>8. o.kind \in Finishing
        BY DEF Finishing
  <2>10. Closes(p, t, k, c, o)
         BY <1>1, <1>2, <1>4, <1>6, <1>7, <1>8, <2>3, <2>4, <2>5, <2>6, <2>7, <2>8 DEF Closes
  <2> QED BY <1>2, <1>7, <2>3, <2>5, <2>10, EndKeeps
<1>9. CASE Initializes(t)
  <2>1. /\ p \notin usable /\ \A q \in Kept(t) : q.by # t
    <3>1. p \notin usable
          BY <1>2, <1>3, <1>9 DEF Phased
    <3>2. ASSUME NEW q \in Kept(t), q.by = t PROVE FALSE
      <4>1. q \in CallsOf(p) /\ ~ q.awaited
            BY <1>2, <3>2 DEF Kept, CallsOf
      <4> QED BY <1>2, <1>9, <3>2, <4>1, ActiveIs
    <3> QED BY <3>1, <3>2
  <2>2. PICK todo : todo = doing[t].todo \ {doing[t].now}
        OBVIOUS
  <2>3. /\ todo \subseteq Known(p) /\ (\A i \in Known(p) : i \in todo \/ Recorded(Migrations[i]) \in stored')
        /\ AtHand(t) = Migrations[doing[t].now]
    <3>1. MigratesAll(t) /\ doing[t].todo \subseteq Known(p) /\ AtHand(t) = Migrations[doing[t].now]
          BY <1>2, <1>3, <1>4, <1>9 DEF ProcessInv, CallerTyped, AtHand
    <3>2. doing[t].now \in Known(p) /\ \A i \in Known(p) : i \in doing[t].todo \/ Recorded(Migrations[i]) \in stored
          BY <1>2, <1>9, <3>1 DEF MigratesAll, Alive
    <3>3. Recorded(AtHand(t)) \in UnitOf(AtHand(t))
      <4>1. Statements[AtHand(t)] \in Nat \ {0}
            BY <1>3, <3>1, <3>2, DeploymentIs
      <4>2. Statements[AtHand(t)] \in 1..Statements[AtHand(t)]
            BY <4>1
      <4> QED BY <4>2 DEF Recorded, UnitOf
    <3> QED BY <1>7, <2>2, <3>1, <3>2, <3>3
  <2>4. \/ todo = {} /\ Leaves(t, Kept(t), "done", [doing[t] EXCEPT !.todo = todo]) /\ usable' = usable \cup {p}
        \/ \E i \in todo : /\ Awaits(t, Kept(t), "begin", t, [doing[t] EXCEPT !.todo = todo, !.now = i, !.at = 0])
                           /\ usable' = usable
        BY <1>1, <1>2, <1>4, <1>9, <2>2 DEF Proceeds
  <2>5. CASE todo = {} /\ Leaves(t, Kept(t), "done", [doing[t] EXCEPT !.todo = todo]) /\ usable' = usable \cup {p}
    <3>1. PICK s : s = [doing[t] EXCEPT !.todo = todo]
          OBVIOUS
    <3>2. s = [pc |-> doing[t].pc, at |-> doing[t].at, todo |-> todo, now |-> doing[t].now, hit |-> doing[t].hit, saw |-> doing[t].saw]
          BY <1>3, <3>1 DEF CallerTyped, IsCaller
    <3>3. CallerTyped(t, s)
          BY <1>3, <2>5, <3>2 DEF CallerTyped, IsCaller
    <3>4. PICK k : Turn(t, k, Kept(t), {}) /\ k.pc = "done"
      <4>1. PICK how \in {"done"} : Leaves(t, Kept(t), how, s)
            BY <2>5, <3>1, Zenon
      <4>3. CallerTyped(t, s) /\ how \in Ended
            BY <3>3, <4>1 DEF Ended
      <4>8. PICK k : k = [s EXCEPT !.pc = how]
            OBVIOUS
      <4>9. Turn(t, k, Kept(t), {})
            BY <1>2, <4>1, <4>3, <4>8, LeavesIs
      <4>10. k.pc = how
             BY <4>3, <4>8 DEF CallerTyped, IsCaller
      <4> QED BY <4>1, <4>9, <4>10
    <3>5. TurnWith(p, t, k, Kept(t), {}, c)
          BY <1>2, <1>6, <1>7, <2>5, <3>4 DEF TurnWith
    <3>6. Phased(p)'
      <4>1. \A q \in threads' : q.by # t
            BY <2>1, <3>4 DEF Turn
      <4> QED BY <1>2, <1>9, <2>1, <3>4, <3>5, <4>1, InitTurn
    <3>7. k.pc \notin Alive \cup {"rollback", "unbegin", "begin"} /\ o.kind \in Finishing
          BY <3>4 DEF Alive, Finishing
    <3>8. \A i \in Known(p) : Recorded(Migrations[i]) \in stored'
          BY <2>3, <2>5
    <3>10. Closes(p, t, k, c, o)
           BY <1>1, <1>2, <1>4, <1>6, <1>7, <1>9, <3>5, <3>6, <3>7, <3>8 DEF Closes
    <3> QED BY <1>2, <1>7, <3>5, <3>6, <3>10, EndKeeps
  <2>6. ASSUME NEW i \in todo, Awaits(t, Kept(t), "begin", t, [doing[t] EXCEPT !.todo = todo, !.now = i, !.at = 0]), usable' = usable
        PROVE  DatabaseInv'
    <3>1. PICK s : s = [doing[t] EXCEPT !.todo = todo, !.now = i, !.at = 0]
          OBVIOUS
    <3>2. s = [pc |-> doing[t].pc, at |-> 0, todo |-> todo, now |-> i, hit |-> doing[t].hit, saw |-> doing[t].saw]
          BY <1>3, <3>1 DEF CallerTyped, IsCaller
    <3>3. CallerTyped(t, s)
          BY <1>2, <1>3, <2>3, <3>2 DEF CallerTyped, IsCaller
    <3>4. PICK k : Turn(t, k, Kept(t), {Call(t, k.pc, t)}) /\ k.pc = "begin" /\ k.todo = s.todo /\ k.now = s.now
      <4>1. PICK kind \in {"begin"} : Awaits(t, Kept(t), kind, t, s)
            BY <1>2, <1>3, <2>6, <3>1, <3>3, Zenon
      <4>3. CallerTyped(t, s) /\ Kept(t) \in {Kept(t), Kept(t) \cup Forsaken(t)} /\ lockQueue[p] # <<>> /\ lockQueue[p][1] = t
            BY <1>2, <1>3, <2>6, <3>1, <3>3, <4>1, AtRest
      <4>4. kind \in Steps[callers[t].kind] \ {"body"} /\ kind # "write"
            BY <1>4, <1>9, <4>1 DEF Steps, Initializes
      <4>8. PICK k : k = [s EXCEPT !.pc = kind]
            OBVIOUS
      <4>9. Turn(t, k, Kept(t), {Call(t, k.pc, t)})
            BY <1>2, <4>1, <4>3, <4>4, <4>8, AwaitsOther
      <4>10. k.pc = kind /\ k.saw = s.saw /\ k.at = s.at /\ k.now = s.now /\ k.todo = s.todo
             BY <4>3, <4>8 DEF CallerTyped, IsCaller
      <4> QED BY <1>2, <1>3, <2>6, <3>1, <3>3, <4>1, <4>3, <4>4, <4>9, <4>10
    <3>5. TurnWith(p, t, k, Kept(t), {Call(t, k.pc, t)}, c)
          BY <1>2, <1>6, <1>7, <2>6, <3>4 DEF TurnWith
    <3>6. Phased(p)'
          BY <1>2, <1>6, <1>9, <2>1, <2>6, <3>4, <3>5, InitTurn
    <3>7. k.pc \notin Alive \cup {"rollback", "unbegin", "done"} /\ o.kind \in Finishing
          BY <3>4 DEF Alive, Finishing
    <3>8. k.now \in k.todo /\ \A j \in Known(p) : j \in k.todo \/ Recorded(Migrations[j]) \in stored'
          BY <2>3, <3>2, <3>4
    <3>10. Closes(p, t, k, c, o)
           BY <1>1, <1>2, <1>4, <1>6, <1>7, <1>9, <2>1, <2>6, <3>5, <3>6, <3>7, <3>8 DEF Closes
    <3> QED BY <1>2, <1>7, <3>5, <3>6, <3>10, EndKeeps
  <2> QED BY <2>4, <2>5, <2>6
<1> QED BY <1>8, <1>9

LEMMA CloseKeeps ==
    ASSUME DatabaseInv, callers' = callers, NEW p \in Processes, NEW o \in CallsOf(p), o.awaited,
           o.kind \in {"rollback", "unbegin", "close"},
           NEW ok, NEW c, Does(p, o, ok, c), overtaken' = overtaken, abandoned' = abandoned, Proceeds(o, ok)
    PROVE  DatabaseInv'
<1>1. PICK t : t = o.by
      OBVIOUS
<1>2. /\ o \in threads /\ Home(t) = p /\ t \in Mine(p) /\ t \in DOMAIN callers /\ doing[t].pc = o.kind /\ threads \ {o} = Kept(t)
      /\ doing[t].pc \in Active
  <2>1. o \in threads /\ Home(t) = p
        BY <1>1 DEF CallsOf
  <2> QED BY <1>1, <2>1, AwaitedIs DEF Mine
<1>3. /\ CallerTyped(t, doing[t]) /\ ProcessInv(p) /\ Phased(p) /\ lockQueue[p] # <<>> /\ lockQueue[p][1] = t
      /\ callers \in Deployments /\ WholeUnits(stored)
      BY <1>2, AtRest DEF ProcessInv
<1>4. /\ callers[t].kind \in {"initialize", "unit", "close"} /\ (Initializes(t) <=> callers[t].kind = "initialize")
      /\ Initializes(t) => o.kind \in {"rollback", "close"}
      /\ ~ Initializes(t) => (o.kind = "close" <=> callers[t].kind = "close")
  <2>1. callers[t].kind \in {"initialize", "unit", "query", "close"} /\ o.kind \in Steps[callers[t].kind]
        BY <1>1, <1>2, AtRest, AwaitedIs
  <2> QED BY <2>1 DEF Steps, Initializes
<1>5. /\ c.state # "open" /\ c.pending = {} /\ (c.state = "closed" \/ o.kind \in {"rollback", "unbegin"}) /\ stored' = stored
      /\ connections' = [connections EXCEPT ![p] = c] /\ ConnectionTyped(c)
  <2>1. CASE ok
        BY <2>1 DEF Does, Closing
  <2>2. CASE ~ ok
        BY <2>2 DEF Does, ConnectionTyped
  <2> QED BY <2>1, <2>2 DEF Does
<1>6. WholeUnits(stored)' /\ (p \in usable => \A i \in Known(p) : Recorded(Migrations[i]) \in stored')
      /\ o.kind \in Finishing \cup {"close"} /\ (c.state = "closed" \/ o.kind \in Finishing)
      BY <1>3, <1>5 DEF WholeUnits, WholeIn, Names, Units, ProcessInv, Finishing
<1>7. CASE Initializes(t) /\ o.kind = "rollback"
  <2>1. Awaits(t, Kept(t), "close", t, doing[t]) /\ usable' = usable
        BY <1>1, <1>2, <1>4, <1>7 DEF Proceeds
  <2>2. PICK k : Turn(t, k, Kept(t), {Call(t, k.pc, t)}) /\ k.pc = "close"
    <3>1. PICK kind \in {"close"} : \E y : y = doing[t] /\ Awaits(t, Kept(t), kind, t, y)
          BY <1>2, <1>3, <2>1, Zenon
    <3>2. PICK x : x = doing[t] /\ Awaits(t, Kept(t), kind, t, x)
          BY <3>1
    <3>3. CallerTyped(t, x) /\ Kept(t) \in {Kept(t), Kept(t) \cup Forsaken(t)} /\ lockQueue[p] # <<>> /\ lockQueue[p][1] = t
          BY <1>2, <1>3, <2>1, <3>1, <3>2, AtRest
    <3>4. kind \in Steps[callers[t].kind] \ {"body"} /\ kind # "write"
          BY <1>4, <1>7, <3>1 DEF Steps, Initializes
    <3>8. PICK k : k = [x EXCEPT !.pc = kind]
          OBVIOUS
    <3>9. Turn(t, k, Kept(t), {Call(t, k.pc, t)})
          BY <1>2, <3>2, <3>3, <3>4, <3>8, AwaitsOther
    <3>10. k.pc = kind /\ k.saw = x.saw /\ k.at = x.at /\ k.now = x.now /\ k.todo = x.todo
           BY <3>3, <3>8 DEF CallerTyped, IsCaller
    <3> QED BY <1>2, <1>3, <2>1, <3>1, <3>2, <3>3, <3>4, <3>9, <3>10
  <2>3. TurnWith(p, t, k, Kept(t), {Call(t, k.pc, t)}, c)
        BY <1>2, <1>5, <2>1, <2>2 DEF TurnWith
  <2>4. Phased(p)'
    <3>1. p \notin usable
          BY <1>2, <1>3, <1>7 DEF Phased
    <3> QED BY <1>2, <1>7, <2>1, <2>2, <2>3, <3>1, InitTurn
  <2>5. k.pc \notin Alive \cup {"rollback", "unbegin", "begin", "done"}
        BY <2>2 DEF Alive
  <2>10. Closes(p, t, k, c, o)
         BY <1>1, <1>2, <1>4, <1>5, <1>6, <1>7, <2>1, <2>2, <2>3, <2>4, <2>5 DEF Closes
  <2> QED BY <1>2, <1>6, <2>3, <2>4, <2>10, EndKeeps
<1>8. CASE Initializes(t) /\ o.kind = "close"
  <2>1. Leaves(t, Kept(t), "raised", doing[t]) /\ usable' = usable
        BY <1>1, <1>2, <1>4, <1>8 DEF Proceeds
  <2>2. PICK k : Turn(t, k, Kept(t), {}) /\ k.pc = "raised"
    <3>1. PICK how \in {"raised"} : \E y : y = doing[t] /\ Leaves(t, Kept(t), how, y)
          BY <1>2, <1>3, <2>1, Zenon
    <3>2. PICK x : x = doing[t] /\ Leaves(t, Kept(t), how, x)
          BY <3>1
    <3>3. CallerTyped(t, x) /\ how \in Ended /\ Kept(t) \in {Kept(t), Kept(t) \cup Forsaken(t)}
          BY <1>2, <1>3, <2>1, <3>1, <3>2, AtRest DEF Ended
    <3>8. PICK k : k = [x EXCEPT !.pc = how]
          OBVIOUS
    <3>9. Turn(t, k, Kept(t), {})
          BY <1>2, <1>3, <2>1, <3>1, <3>2, <3>3, <3>8, LeavesIs
    <3>10. k.pc = how /\ k.saw = x.saw /\ k.at = x.at /\ k.now = x.now /\ k.todo = x.todo
           BY <3>3, <3>8 DEF CallerTyped, IsCaller
    <3> QED BY <1>2, <1>3, <2>1, <3>1, <3>2, <3>3, <3>9, <3>10
  <2>3. TurnWith(p, t, k, Kept(t), {}, c)
        BY <1>2, <1>5, <2>1, <2>2 DEF TurnWith
  <2>4. Phased(p)'
    <3>1. p \notin usable
          BY <1>2, <1>3, <1>8 DEF Phased
    <3> QED BY <1>2, <1>5, <1>8, <2>1, <2>2, <2>3, <3>1, InitTurn
  <2>5. k.pc \notin Alive \cup {"rollback", "unbegin", "begin", "done"}
        BY <2>2 DEF Alive
  <2>10. Closes(p, t, k, c, o)
         BY <1>1, <1>2, <1>4, <1>5, <1>6, <1>8, <2>1, <2>2, <2>3, <2>4, <2>5 DEF Closes
  <2> QED BY <1>2, <1>6, <2>3, <2>4, <2>10, EndKeeps
<1>9. CASE ~ Initializes(t)
  <2>0. \E how \in {"raised", "done"} : /\ Leaves(t, Kept(t), how, doing[t])
                                        /\ usable' = usable /\ (callers[t].kind = "unit" => how = "raised")
        BY <1>1, <1>2, <1>4, <1>9 DEF Proceeds
  <2>1. PICK how \in {"raised", "done"} : Leaves(t, Kept(t), how, doing[t]) /\ (callers[t].kind = "unit" => how = "raised")
        BY <2>0, Zenon
  <2>9. usable' = usable
        BY <2>0
  <2>2. PICK k : Turn(t, k, Kept(t), {}) /\ k.pc = how
    <3>1. PICK x : x = doing[t] /\ Leaves(t, Kept(t), how, x)
          BY <1>2, <1>3, <2>1, <2>9, Zenon
    <3>3. CallerTyped(t, x) /\ how \in Ended /\ Kept(t) \in {Kept(t), Kept(t) \cup Forsaken(t)}
          BY <1>2, <1>3, <2>1, <2>9, <3>1, AtRest DEF Ended
    <3>8. PICK k : k = [x EXCEPT !.pc = how]
          OBVIOUS
    <3>9. Turn(t, k, Kept(t), {})
          BY <1>2, <1>3, <2>1, <2>9, <3>1, <3>3, <3>8, LeavesIs
    <3>10. k.pc = how /\ k.saw = x.saw /\ k.at = x.at /\ k.now = x.now /\ k.todo = x.todo
           BY <3>3, <3>8 DEF CallerTyped, IsCaller
    <3> QED BY <1>2, <1>3, <2>1, <2>9, <3>1, <3>3, <3>9, <3>10
  <2>3. TurnWith(p, t, k, Kept(t), {}, c)
        BY <1>2, <1>5, <2>2, <2>9 DEF TurnWith
  <2>4. k.pc \notin Active /\ k.pc \notin Alive \cup {"rollback", "unbegin", "begin", "close"}
        BY <2>2, <2>9 DEF Active, Alive
  <2>5. Phased(p)'
        BY <1>2, <1>9, <2>3, <2>4, <2>9, ServeTurn
  <2>6. ~ (k.pc = "done" /\ callers[t].kind = "unit") /\ callers[t].kind # "query"
        BY <1>4, <2>1, <2>2
  <2>7. p \in usable' => \A i \in Known(p) : Recorded(Migrations[i]) \in stored'
        BY <1>6, <2>9
  <2>10. Closes(p, t, k, c, o)
         BY <1>1, <1>5, <1>6, <1>9, <2>4, <2>6, <2>7 DEF Closes
  <2> QED BY <1>2, <1>6, <2>3, <2>5, <2>10, EndKeeps
<1> QED BY <1>2, <1>4, <1>7, <1>8, <1>9

\* A call that nobody waits for any more
LEMMA LooseKeeps ==
    ASSUME DatabaseInv, callers' = callers, NEW p \in Processes, NEW o \in CallsOf(p), ~ o.awaited,
           NEW ok, NEW c, Does(p, o, ok, c), overtaken' = overtaken, abandoned' = abandoned,
           threads' = threads \ {o}, UNCHANGED <<doing, lockQueue, usable>>
    PROVE  DatabaseInv'
<1>0. /\ DatabaseTyped /\ ProcessInv(p) /\ Phased(p) /\ EndsOnce(p) /\ LooseIsKnown(o) /\ WholeUnits(stored)
      /\ o \in threads /\ Home(o.by) = p /\ CallTyped(o) /\ o.by \in Mine(p) /\ o.by \in DOMAIN callers
      /\ connections = [q \in Processes |-> connections[q]] /\ ConnectionTyped(connections[p]) /\ ConnectionTyped(c)
      BY DEF DatabaseInv, ProcessInv, CallsOf, DatabaseTyped, CallTyped, Mine, Does
<1>1. connections'[p] = c /\ (\A q \in Processes \ {p} : connections'[q] = connections[q])
      /\ connections' = [q \in Processes |-> connections'[q]]
      BY <1>0 DEF Does
<1>2. /\ \A u : Home(u)' = Home(u) /\ Initializes(u)' = Initializes(u) /\ AtHand(u)' = AtHand(u)
      /\ Mine(p)' = Mine(p) /\ CallsOf(p)' = CallsOf(p) \ {o} /\ Units' = Units /\ Names' = Names
      BY DEF Home, Initializes, AtHand, Mine, CallsOf, Units, Names
<1>3. DatabaseTyped'
  <2>1. \A q \in Processes : ConnectionTyped(connections'[q])
        BY <1>0, <1>1 DEF DatabaseTyped
  <2>2. \A t \in DOMAIN callers : CallerTyped(t, doing[t])'
        BY <1>0, <1>2 DEF DatabaseTyped, CallerTyped, IsCaller
  <2>3. \A x \in threads' : CallTyped(x)'
        BY <1>0 DEF DatabaseTyped, CallTyped
  <2> QED BY <1>0, <1>1, <2>1, <2>2, <2>3 DEF DatabaseTyped, ConnectionTyped
<1>4. o.kind \in Active \ {"body"}
      BY <1>0, StepsAre DEF CallTyped
<1>5. CommitsWhole(p) /\ (o.kind = "write" => o.what \in overtaken)
      BY <1>0 DEF ProcessInv, LooseIsKnown
<1>6. stored \subseteq stored' /\ WholeUnits(stored')
  <2>1. stored' = stored \/ (o.kind = "write" /\ stored' = stored \cup {o.what})
           \/ (o.kind = "commit" /\ stored' = stored \cup connections[p].pending)
        BY <1>4 DEF Does, Active
  <2>2. ASSUME o.kind = "write" PROVE WholeUnits(stored \cup {o.what})
    <3>1. WholeUnits({o.what})
          BY <1>5, <2>2 DEF WholeUnits, WholeIn
    <3> QED BY <1>0, <3>1, WholeTogether
  <2>3. ASSUME o.kind = "commit" PROVE WholeUnits(stored \cup connections[p].pending)
    <3>1. WholeUnits(connections[p].pending)
          BY <1>5, <2>3 DEF CommitsWhole
    <3> QED BY <1>0, <3>1, WholeTogether
  <2> QED BY <1>0, <2>1, <2>2, <2>3
<1>7. WholeUnits(stored)'
      BY <1>2, <1>6 DEF WholeUnits, WholeIn
<1>8. \A q \in Processes \ {p} : ProcessInv(q)'
  <2>1. \A x \in threads \cup threads' : Home(x.by) # p => (x \in threads <=> x \in threads')
        BY <1>0
  <2> QED BY <1>1, <1>3, <1>6, <2>1, Elsewhere
<1>9. LockIsHeld(p)'
      BY <1>0, <1>2 DEF ProcessInv, LockIsHeld
<1>10. Phased(p)'
  <2>1. ASSUME NEW t \in Mine(p), Initializes(t), doing[t].pc # "done" PROVE o.by = t /\ doing[t].pc \in {"rollback", "close", "raised"}
    <3>1. Initializes(o.by)
          BY <1>0, <2>1 DEF Phased
    <3>2. o.by = t
          BY <1>0, <2>1, <3>1, DeploymentIs DEF DatabaseTyped, Mine
    <3> QED BY <1>0, <2>1, <3>2 DEF LooseIsKnown
  <2>2. ASSUME NEW t \in Mine(p), Initializes(t), doing[t].pc = "raised"
        PROVE  c.state = "closed" \/ \E x \in threads' : x.by = t /\ x.kind = "close"
    <3>1. CASE connections[p].state = "closed"
          BY <3>1 DEF Does
    <3>2. CASE \E x \in threads : x.by = t /\ x.kind = "close"
      <4>1. PICK x \in threads : x.by = t /\ x.kind = "close"
            BY <3>2
      <4>2. CASE x = o
        <5>1. ok => c = Closing
              BY <4>1, <4>2 DEF Does
        <5>2. ~ ok => c.state = "closed"
              BY <4>1, <4>2 DEF Does
        <5> QED BY <5>1, <5>2 DEF Closing
      <4>3. CASE x # o
            BY <4>1, <4>3
      <4> QED BY <4>2, <4>3
    <3> QED BY <1>0, <2>2, <3>1, <3>2 DEF Phased
  <2>3. ASSUME NEW t \in Mine(p), Initializes(t)
        PROVE  /\ p \in usable => doing[t].pc = "done"
               /\ doing[t].pc \in {"idle", "queued"} => c.state = "closed"
               /\ doing[t].pc \in {"versions", "begin"} => c.state = "idle"
               /\ \A x \in threads' : x.by = t => doing[t].pc \notin {"idle", "queued", "done"}
               /\ \A u \in Mine(p) : ~ Initializes(u) /\
                     (doing[u].pc \in Active \/ \E x \in threads' : x.by = u) => doing[t].pc = "done"
        BY <1>0, <2>1, <2>3 DEF Phased
  <2>4. /\ \A t \in Mine(p) : callers[t].kind \in {"unit", "query"} /\ doing[t].pc \in Active => p \in usable
        /\ \A x \in CallsOf(p) : x.kind = "close" => p \notin usable
        BY <1>0 DEF Phased
  <2> QED BY <1>1, <1>2, <2>2, <2>3, <2>4 DEF Phased
<1>11. EndsOnce(p)'
  <2>1. ASSUME NEW x \in CallsOf(p) \ {o}, x.kind \in Finishing, callers[x.by].kind = "unit"
        PROVE  /\ c.state # "idle" /\ doing[x.by].pc \notin {"body", "write"}
               /\ \A t \in Mine(p) : t # x.by => doing[t].pc \notin Alive \cup {"rollback", "unbegin"}
               /\ \A q \in CallsOf(p) : q.kind \in Finishing => q = x
    <3>1. /\ connections[p].state # "idle" /\ doing[x.by].pc \notin {"body", "write"}
          /\ \A t \in Mine(p) : t # x.by => doing[t].pc \notin Alive \cup {"rollback", "unbegin"}
          /\ \A q \in CallsOf(p) : q.kind \in Finishing => q = x
          BY <1>0, <2>1 DEF EndsOnce
    <3>2. o.kind \notin {"commit", "rollback", "unbegin"}
          BY <2>1, <3>1 DEF Finishing
    <3>3. c.state # "idle"
          BY <1>4, <3>1, <3>2 DEF Does, Active, Closing
    <3> QED BY <3>1, <3>3
  <2> QED BY <1>1, <1>2, <2>1 DEF EndsOnce
<1>12. CommitsWhole(p)'
  <2>1. ASSUME NEW x \in CallsOf(p) \ {o}, x.kind = "commit" PROVE WholeUnits(c.pending)
    <3>1. WholeUnits(connections[p].pending)
          BY <1>5, <2>1 DEF CommitsWhole
    <3>2. c.pending \in {{}, connections[p].pending} \/ (o.kind = "write" /\ c.pending = connections[p].pending \cup {o.what})
          BY <1>0, <1>4 DEF Does, Active, Closing, ConnectionTyped
    <3>3. ASSUME o.kind = "write" PROVE WholeUnits({o.what})
          BY <1>5, <3>3 DEF WholeUnits, WholeIn
    <3>4. WholeUnits({})
          BY DEF WholeUnits, WholeIn
    <3> QED BY <3>1, <3>2, <3>3, <3>4, WholeTogether
  <2> QED BY <1>1, <1>2, <2>1 DEF CommitsWhole, WholeUnits, WholeIn
<1>13. OpenIsUsed(p)'
  <2>1. ASSUME p \notin abandoned, c.state = "open"
        PROVE  \/ \E t \in Mine(p) : doing[t].pc \in Alive \cup {"rollback", "unbegin", "close"}
               \/ \E x \in CallsOf(p) \ {o} : x.kind = "close"
    <3>1. CASE connections[p].state = "open"
      <4>1. o.kind # "close"
            BY <2>1 DEF Does, Closing
      <4> QED BY <1>0, <2>1, <3>1, <4>1 DEF ProcessInv, OpenIsUsed
    <3>2. CASE connections[p].state # "open"
      <4>1. ok /\ o.kind = "begin" /\ connections[p].state # "closed"
            BY <1>4, <2>1, <3>2 DEF Does, Active, Closing
      <4>2. Initializes(o.by)
        <5>1. callers[o.by].kind # "unit"
              BY <1>0, <2>1, <4>1 DEF LooseIsKnown
        <5>2. callers[o.by].kind \in {"initialize", "unit", "query", "close"}
              BY <1>0, DeploymentIs DEF DatabaseTyped
        <5> QED BY <1>0, <4>1, <5>1, <5>2 DEF CallTyped, Steps, Initializes
      <4>3. doing[o.by].pc \in {"rollback", "close", "raised"}
            BY <1>0, <4>2 DEF LooseIsKnown
      <4>4. CASE doing[o.by].pc = "raised"
        <5>1. PICK x \in threads : x.by = o.by /\ x.kind = "close"
              BY <1>0, <4>1, <4>2, <4>4 DEF Phased
        <5>2. x \in CallsOf(p) /\ x # o
              BY <1>0, <4>1, <5>1 DEF CallsOf
        <5> QED BY <5>1, <5>2
      <4> QED BY <1>0, <4>3, <4>4
    <3> QED BY <3>1, <3>2
  <2> QED BY <1>1, <1>2, <2>1 DEF OpenIsUsed
<1>14. ASSUME NEW t \in Mine(p) PROVE CallsAgree(t)' /\ InTransaction(t)' /\ MigratesAll(t)' /\ Told(t)'
  <2>1. t \in DOMAIN callers /\ Home(t) = p /\ CallsAgree(t) /\ InTransaction(t) /\ MigratesAll(t) /\ Told(t)
        BY <1>0 DEF Mine, ProcessInv
  <2>2. CallsAgree(t)'
        BY <1>2, <2>1 DEF CallsAgree
  <2>3. MigratesAll(t)' /\ Told(t)'
        BY <1>2, <1>6, <2>1 DEF MigratesAll, Told, UnitOf, WholeIn
  <2>4. InTransaction(t)'
    <3>1. ASSUME doing[t].pc \in Alive
          PROVE  c = connections[p] \/ (c.state = "open" /\ c.pending = connections[p].pending \cup {o.what} /\ o.what \in overtaken)
      <4>1. doing[t].pc \in Active /\ connections[p].state = "open"
            BY <2>1, <3>1 DEF Alive, Active, InTransaction
      <4>2. /\ ~ Initializes(t)
            /\ ~ Initializes(o.by)
        <5>1. ~ Initializes(t)
              BY <3>1, <4>1, ActiveIs DEF Alive
        <5> QED BY <4>1, <5>1, ActiveIs
      <4>3. callers[t].kind = "unit" /\ callers[o.by].kind \in {"unit", "query", "close"}
        <5>1. callers[t].kind \in {"unit", "query", "close"} /\ callers[o.by].kind \in {"unit", "query", "close"}
              BY <1>0, <2>1, <4>2, DeploymentIs DEF DatabaseTyped, Initializes
        <5>2. CallerTyped(t, doing[t])
              BY <1>0, <2>1 DEF DatabaseTyped
        <5> QED BY <3>1, <5>1, <5>2 DEF CallerTyped, Steps, Alive, Ended
      <4>4. o.kind # "close"
            BY <4>1, <4>3, ActiveIs
      <4>5. o.kind \notin {"commit", "rollback", "unbegin"}
        <5>1. ASSUME o.kind \in Finishing PROVE FALSE
          <6>1. callers[o.by].kind = "unit"
                BY <1>0, <4>3, <5>1 DEF CallTyped, Steps, Finishing
          <6>2. /\ doing[o.by].pc \notin {"body", "write"}
                /\ t # o.by => doing[t].pc \notin Alive \cup {"rollback", "unbegin"}
                /\ \A q \in CallsOf(p) : q.kind \in Finishing => q = o
                BY <1>0, <5>1, <6>1 DEF EndsOnce
          <6>3. t = o.by /\ doing[t].pc = "commit"
                BY <3>1, <6>2 DEF Alive
          <6>4. PICK q \in threads : q.by = t /\ q.awaited /\ q.kind = "commit"
                BY <2>1, <4>1, <6>3 DEF CallsAgree
          <6>5. q \in CallsOf(p)
                BY <2>1, <6>4 DEF CallsOf
          <6> QED BY <6>2, <6>4, <6>5 DEF Finishing
        <5> QED BY <5>1 DEF Finishing
      <4> QED BY <1>4, <1>5, <4>1, <4>4, <4>5 DEF Does, Active
    <3> QED BY <1>1, <1>2, <2>1, <3>1 DEF InTransaction, Under
  <2> QED BY <2>2, <2>3, <2>4
<1>15. \A x \in CallsOf(p)' : LooseIsKnown(x)'
       BY <1>0, <1>2 DEF ProcessInv, LooseIsKnown
<1>16. p \in usable' => \A i \in Known(p) : Recorded(Migrations[i]) \in stored'
       BY <1>0, <1>6 DEF ProcessInv
<1>17. ProcessInv(p)'
       BY <1>2, <1>9, <1>10, <1>11, <1>12, <1>13, <1>14, <1>15, <1>16 DEF ProcessInv
<1> QED BY <1>3, <1>7, <1>8, <1>17 DEF DatabaseInv

\* A caller begins to wait for the lock, or is hit where it waits for a call
Stands(t, k) ==
    /\ CallerTyped(t, k)
    /\ k.at = doing[t].at /\ k.now = doing[t].now /\ k.todo = doing[t].todo /\ k.saw = doing[t].saw
    /\ k.pc = doing[t].pc \/ (doing[t].pc = "idle" /\ k.pc = "queued")

LEMMA StandsKeeps ==
    ASSUME DatabaseInv, callers' = callers, NEW p \in Processes, NEW t \in Mine(p), NEW k, Stands(t, k),
           doing' = [doing EXCEPT ![t] = k], UNCHANGED <<stored, connections, usable, threads, overtaken, abandoned>>,
           LockIsHeld(p)', lockQueue' \in [Processes -> Seq(DOMAIN callers)],
           \A q \in Processes \ {p} : lockQueue'[q] = lockQueue[q]
    PROVE  DatabaseInv'
<1>0. /\ t \in DOMAIN callers /\ Home(t) = p /\ DatabaseTyped /\ ProcessInv(p) /\ WholeUnits(stored)
      /\ doing = [u \in DOMAIN callers |-> doing[u]]
      BY DEF DatabaseInv, DatabaseTyped, Mine
<1>1. /\ doing'[t] = k /\ (\A u \in DOMAIN callers : u # t => doing'[u] = doing[u])
      /\ doing' = [u \in DOMAIN callers |-> doing'[u]]
      BY <1>0
<1>2. /\ \A u : Home(u)' = Home(u) /\ Initializes(u)' = Initializes(u)
      /\ Mine(p)' = Mine(p) /\ CallsOf(p)' = CallsOf(p) /\ Units' = Units /\ Names' = Names
      BY DEF Home, Initializes, Mine, CallsOf, Units, Names
<1>3. \A u \in DOMAIN callers : AtHand(u)' = AtHand(u) /\ Stands(u, doing'[u])
  <2>1. ASSUME NEW u \in DOMAIN callers PROVE Stands(u, doing'[u])
        BY <1>0, <1>1 DEF Stands, DatabaseTyped
  <2> QED BY <2>1 DEF AtHand, Stands
<1>4. DatabaseTyped'
  <2>1. \A u \in DOMAIN callers : CallerTyped(u, doing[u])'
        BY <1>2, <1>3 DEF Stands, CallerTyped, IsCaller
  <2>2. \A o \in threads' : CallTyped(o)'
        BY <1>0 DEF DatabaseTyped, CallTyped
  <2> QED BY <1>0, <1>1, <2>1, <2>2 DEF DatabaseTyped, ConnectionTyped
<1>5. \A q \in Processes \ {p} : ProcessInv(q)'
  <2>1. \A u \in DOMAIN callers : Home(u) # p => doing'[u] = doing[u]
        BY <1>0, <1>1
  <2> QED BY <1>4, <2>1, Elsewhere
<1>6. \A u \in Mine(p) : /\ u \in DOMAIN callers /\ (doing'[u].pc \in Active <=> doing[u].pc \in Active)
                         /\ doing'[u].pc = doing[u].pc \/ (doing[u].pc = "idle" /\ doing'[u].pc = "queued")
      BY <1>3 DEF Mine, Stands, Active
<1>7. \A o \in CallsOf(p) : o.by \in Mine(p) /\ o \in threads /\ Home(o.by) = p /\ CallTyped(o)
      BY <1>0 DEF CallsOf, Mine, DatabaseTyped, CallTyped
<1>8. Phased(p)'
  <2>1. Phased(p)
        BY <1>0 DEF ProcessInv
  <2>3. ASSUME NEW u \in Mine(p), Initializes(u)
        PROVE  /\ p \in usable' => doing'[u].pc = "done"
               /\ doing'[u].pc \in {"idle", "queued"} => connections'[p].state = "closed"
               /\ doing'[u].pc \in {"versions", "begin"} => connections'[p].state = "idle"
               /\ doing'[u].pc = "raised" => connections'[p].state = "closed" \/ \E o \in threads' : o.by = u /\ o.kind = "close"
               /\ \A o \in threads' : o.by = u => doing'[u].pc \notin {"idle", "queued", "done"}
    <3>1. doing'[u].pc = doing[u].pc \/ (doing[u].pc = "idle" /\ doing'[u].pc = "queued")
          BY <1>6
    <3> QED BY <2>1, <2>3, <3>1 DEF Phased
  <2>4. ASSUME NEW u \in Mine(p), Initializes(u), NEW v \in Mine(p), ~ Initializes(v),
               doing'[v].pc \in Active \/ \E o \in threads' : o.by = v
        PROVE  doing'[u].pc = "done"
    <3>1. doing[u].pc = "done"
          BY <1>6, <2>1, <2>4 DEF Phased
    <3> QED BY <1>6, <3>1
  <2>5. \A u \in Mine(p) : callers[u].kind \in {"unit", "query"} /\ doing'[u].pc \in Active => p \in usable'
        BY <1>6, <2>1 DEF Phased
  <2>6. \A o \in CallsOf(p) : o.kind = "close" => p \notin usable'
        BY <2>1 DEF Phased
  <2> QED BY <1>2, <2>3, <2>4, <2>5, <2>6 DEF Phased
<1>9. EndsOnce(p)'
  <2>1. EndsOnce(p)
        BY <1>0 DEF ProcessInv
  <2>2. \A u \in Mine(p) : doing'[u].pc \in Alive \cup {"rollback", "unbegin"} => doing'[u].pc = doing[u].pc
        BY <1>6 DEF Alive
  <2>3. \A u \in Mine(p) : doing'[u].pc \in {"body", "write"} => doing'[u].pc = doing[u].pc
        BY <1>6
  <2> QED BY <1>2, <1>7, <2>1, <2>2, <2>3 DEF EndsOnce
<1>10. CommitsWhole(p)' /\ WholeUnits(stored)'
  <2>2. CommitsWhole(p)
        BY <1>0 DEF ProcessInv
  <2>3. CommitsWhole(p)'
        BY <1>2, <2>2 DEF CommitsWhole, WholeUnits, WholeIn
  <2>4. WholeUnits(stored)'
        BY <1>0, <1>2 DEF WholeUnits, WholeIn
  <2> QED BY <2>3, <2>4
<1>11. OpenIsUsed(p)'
       BY <1>0, <1>2, <1>6 DEF ProcessInv, OpenIsUsed, Alive
<1>12. ASSUME NEW u \in Mine(p) PROVE CallsAgree(u)' /\ InTransaction(u)' /\ MigratesAll(u)' /\ Told(u)'
  <2>1. /\ u \in DOMAIN callers /\ Stands(u, doing'[u]) /\ AtHand(u)' = AtHand(u)
        /\ CallsAgree(u) /\ InTransaction(u) /\ MigratesAll(u) /\ Told(u)
        BY <1>0, <1>3 DEF Mine, ProcessInv
  <2>2. ASSUME doing[u].pc = "idle", NEW o \in threads, o.by = u, o.awaited PROVE FALSE
    <3>1. o.kind = "idle" /\ CallTyped(o)
          BY <1>0, <2>1, <2>2 DEF CallsAgree, DatabaseTyped
    <3>2. o.kind \in Active
          BY <1>0, <2>2, <3>1, StepsAre DEF CallTyped, DatabaseTyped
    <3> QED BY <3>1, <3>2 DEF Active
  <2>3. CallsAgree(u)'
        BY <2>1, <2>2 DEF CallsAgree, Stands, Active
  <2>4. InTransaction(u)'
        BY <1>2, <2>1 DEF InTransaction, Under, Stands, Alive
  <2>5. MigratesAll(u)'
        BY <1>2, <2>1 DEF MigratesAll, Stands, Alive
  <2>6. Told(u)'
        BY <1>2, <2>1 DEF Told, Stands, WholeIn
  <2> QED BY <2>3, <2>4, <2>5, <2>6
<1>13. \A o \in CallsOf(p)' : LooseIsKnown(o)'
       BY <1>0, <1>2, <1>6, <1>7 DEF ProcessInv, LooseIsKnown
<1>14. ProcessInv(p)'
       BY <1>0, <1>2, <1>8, <1>9, <1>10, <1>11, <1>12, <1>13 DEF ProcessInv
<1> QED BY <1>4, <1>5, <1>10, <1>14 DEF DatabaseInv

LEMMA WaitForLockKeeps ==
    ASSUME DatabaseInv, callers' = callers, NEW t \in DOMAIN callers, WaitForLock(t)
    PROVE  DatabaseInv'
<1>1. PICK p \in Processes : p = Home(t) /\ t \in Mine(p)
      BY DeploymentIs DEF DatabaseInv, DatabaseTyped, Mine
<1>2. /\ CallerTyped(t, doing[t]) /\ LockIsHeld(p) /\ lockQueue \in [Processes -> Seq(DOMAIN callers)]
      /\ doing = [u \in DOMAIN callers |-> doing[u]] /\ doing[t].pc = "idle"
      BY <1>1 DEF DatabaseInv, DatabaseTyped, ProcessInv, WaitForLock
<1>3. PICK k : k = [doing[t] EXCEPT !.pc = "queued"]
      OBVIOUS
<1>4. k = [pc |-> "queued", at |-> doing[t].at, todo |-> doing[t].todo, now |-> doing[t].now, hit |-> doing[t].hit, saw |-> doing[t].saw]
      BY <1>2, <1>3 DEF CallerTyped, IsCaller
<1>5. Stands(t, k)
      BY <1>2, <1>4 DEF Stands, CallerTyped, IsCaller
<1>6. doing' = [doing EXCEPT ![t] = k]
      BY <1>2, <1>3 DEF WaitForLock
<1>7. PICK n \in Nat : n = Len(lockQueue[p]) /\ DOMAIN lockQueue[p] = 1..n /\ lockQueue[p] \in Seq(DOMAIN callers)
      BY <1>2
<1>8. PICK s : s = Append(lockQueue[p], t)
      OBVIOUS
<1>9. /\ s \in Seq(DOMAIN callers) /\ DOMAIN s = 1..(n + 1) /\ s[n + 1] = t /\ \A i \in 1..n : s[i] = lockQueue[p][i]
      BY <1>7, <1>8, AppendIs
<1>10. lockQueue' = [lockQueue EXCEPT ![p] = s]
       BY <1>1, <1>8 DEF WaitForLock
<1>11. /\ lockQueue'[p] = s /\ \A q \in Processes \ {p} : lockQueue'[q] = lockQueue[q]
       /\ lockQueue' \in [Processes -> Seq(DOMAIN callers)]
       BY <1>2, <1>9, <1>10
<1>12. doing'[t].pc = "queued" /\ \A u \in DOMAIN callers : u # t => doing'[u] = doing[u]
       BY <1>2, <1>4, <1>6
<1>13. LockIsHeld(p)'
  <2>1. \A i \in 1..n : lockQueue[p][i] \in DOMAIN callers /\ lockQueue[p][i] # t
    <3>1. ASSUME NEW i \in 1..n, lockQueue[p][i] = t PROVE FALSE
          BY <1>2, <1>7, <3>1 DEF LockIsHeld, Active
    <3> QED BY <1>7, <3>1
  <2>2. Mine(p)' = Mine(p) /\ \A u : Home(u)' = Home(u)
        BY DEF Mine, Home
  <2>3. ASSUME NEW i \in 1..(n + 1)
        PROVE  /\ Home(s[i]) = p
               /\ doing'[s[i]].pc = "queued" \/ (i = 1 /\ doing'[s[i]].pc \in Active)
               /\ \A j \in 1..(n + 1) : s[j] = s[i] => i = j
    <3>1. CASE i = n + 1
      <4>1. \A j \in 1..(n + 1) : j # n + 1 => j \in 1..n
            OBVIOUS
      <4> QED BY <1>1, <1>9, <1>12, <2>1, <3>1, <4>1
    <3>2. CASE i # n + 1
      <4>1. i \in 1..n /\ \A j \in 1..(n + 1) : j # n + 1 => j \in 1..n
            BY <3>2
      <4>2. s[i] = lockQueue[p][i] /\ s[i] # t /\ doing'[s[i]] = doing[s[i]]
            BY <1>9, <1>12, <2>1, <4>1
      <4> QED BY <1>2, <1>7, <1>9, <4>1, <4>2 DEF LockIsHeld
    <3> QED BY <3>1, <3>2
  <2>4. ASSUME NEW u \in Mine(p), doing'[u].pc \in Active \cup {"queued"} PROVE \E i \in 1..(n + 1) : s[i] = u
    <3>1. CASE u = t
      <4>1. n + 1 \in 1..(n + 1)
            OBVIOUS
      <4> QED BY <1>9, <3>1, <4>1
    <3>2. CASE u # t
      <4>1. PICK i \in 1..n : lockQueue[p][i] = u
            BY <1>2, <1>7, <1>12, <2>4, <3>2 DEF LockIsHeld, Mine
      <4>2. i \in 1..(n + 1)
            OBVIOUS
      <4> QED BY <1>9, <4>1, <4>2
    <3> QED BY <3>1, <3>2
  <2> QED BY <1>9, <1>11, <2>2, <2>3, <2>4 DEF LockIsHeld
<1>14. UNCHANGED <<stored, connections, usable, threads, overtaken, abandoned>>
       BY DEF WaitForLock
<1> QED BY <1>1, <1>5, <1>6, <1>11, <1>13, <1>14, StandsKeeps

LEMMA CancelShieldedKeeps ==
    ASSUME DatabaseInv, callers' = callers, NEW t \in DOMAIN callers, CancelShielded(t)
    PROVE  DatabaseInv'
<1>1. PICK p \in Processes : p = Home(t) /\ t \in Mine(p)
      BY DeploymentIs DEF DatabaseInv, DatabaseTyped, Mine
<1>2. /\ CallerTyped(t, doing[t]) /\ LockIsHeld(p) /\ lockQueue \in [Processes -> Seq(DOMAIN callers)]
      /\ doing = [u \in DOMAIN callers |-> doing[u]] /\ lockQueue' = lockQueue
      BY <1>1 DEF DatabaseInv, DatabaseTyped, ProcessInv, CancelShielded
<1>3. PICK k : k = [doing[t] EXCEPT !.hit = TRUE]
      OBVIOUS
<1>4. k = [pc |-> doing[t].pc, at |-> doing[t].at, todo |-> doing[t].todo, now |-> doing[t].now, hit |-> TRUE, saw |-> doing[t].saw]
      BY <1>2, <1>3 DEF CallerTyped, IsCaller
<1>5. Stands(t, k)
      BY <1>2, <1>4 DEF Stands, CallerTyped, IsCaller
<1>6. doing' = [doing EXCEPT ![t] = k]
      BY <1>2, <1>3 DEF CancelShielded
<1>7. LockIsHeld(p)'
  <2>1. \A u \in DOMAIN callers : doing'[u].pc = doing[u].pc
        BY <1>2, <1>4, <1>6
  <2>2. \A i \in DOMAIN lockQueue[p] : lockQueue[p][i] \in DOMAIN callers
        BY <1>2
  <2>3. Mine(p)' = Mine(p) /\ (\A u : Home(u)' = Home(u)) /\ \A u \in Mine(p) : u \in DOMAIN callers
        BY DEF Mine, Home
  <2>4. ASSUME NEW i \in DOMAIN lockQueue[p]
        PROVE  /\ Home(lockQueue[p][i]) = p
               /\ doing'[lockQueue[p][i]].pc = "queued" \/ (i = 1 /\ doing'[lockQueue[p][i]].pc \in Active)
               /\ \A j \in DOMAIN lockQueue[p] : lockQueue[p][j] = lockQueue[p][i] => i = j
    <3>1. doing'[lockQueue[p][i]].pc = doing[lockQueue[p][i]].pc
          BY <2>1, <2>2
    <3> QED BY <1>2, <3>1 DEF LockIsHeld
  <2>5. \A u \in Mine(p) : doing'[u].pc \in Active \cup {"queued"} => \E i \in DOMAIN lockQueue[p] : lockQueue[p][i] = u
        BY <1>2, <2>1, <2>3 DEF LockIsHeld
  <2> QED BY <1>2, <2>3, <2>4, <2>5 DEF LockIsHeld
<1>8. UNCHANGED <<stored, connections, usable, threads, overtaken, abandoned>>
      BY DEF CancelShielded
<1>9. lockQueue' \in [Processes -> Seq(DOMAIN callers)] /\ \A q \in Processes \ {p} : lockQueue'[q] = lockQueue[q]
      BY <1>2
<1> QED BY <1>1, <1>5, <1>6, <1>7, <1>8, <1>9, StandsKeeps

\* A process ends, and starts again
LEMMA KillKeeps ==
    ASSUME DatabaseInv, callers' = callers, NEW p \in Processes, KillProcess(p)
    PROVE  DatabaseInv'
<1>0. /\ DatabaseTyped /\ ProcessInv(p) /\ WholeUnits(stored) /\ callers \in Deployments
      /\ connections = [q \in Processes |-> connections[q]] /\ lockQueue \in [Processes -> Seq(DOMAIN callers)]
      BY DEF DatabaseInv, DatabaseTyped
<1>1. /\ \A u : Home(u)' = Home(u) /\ Initializes(u)' = Initializes(u)
      /\ Mine(p)' = Mine(p) /\ Units' = Units /\ Names' = Names
      /\ stored' = stored /\ overtaken' = overtaken /\ abandoned' = abandoned /\ usable' = usable \ {p}
      BY DEF Home, Initializes, Mine, Units, Names, KillProcess
<1>2. /\ \A u \in DOMAIN callers : Home(u) # p => doing'[u] = doing[u]
      /\ doing' = [u \in DOMAIN callers |-> doing'[u]]
      BY DEF KillProcess
<1>3. ASSUME NEW u \in Mine(p)
      PROVE  \/ doing'[u] = Resting
             \/ ~ Initializes(u) /\ doing'[u] = doing[u] /\ doing[u].pc = "done"
             \/ ~ Initializes(u) /\ doing'[u] = [Resting EXCEPT !.pc = "raised"]
      BY DEF KillProcess, Mine, Initializes
<1>4. \A u \in Mine(p) : doing'[u].pc \in {"idle", "done", "raised"} /\ (Initializes(u) => doing'[u].pc = "idle")
      BY <1>3 DEF Resting
<1>5. /\ CallsOf(p)' = {} /\ threads' \subseteq threads
      /\ \A o \in threads : Home(o.by) # p => o \in threads'
  <2>1. threads' = {o \in threads : ~ (o.by \in DOMAIN callers /\ Home(o.by) = p)}
        BY DEF KillProcess
  <2>2. \A o \in threads : o.by \in DOMAIN callers
        BY <1>0 DEF DatabaseTyped, CallTyped
  <2> QED BY <1>1, <2>1, <2>2 DEF CallsOf
<1>6. /\ connections' = [connections EXCEPT ![p] = Closing] /\ connections'[p].state = "closed"
      /\ (\A q \in Processes \ {p} : connections'[q] = connections[q])
      /\ \A q \in Processes : ConnectionTyped(connections'[q])
  <2>1. connections' = [connections EXCEPT ![p] = Closing]
        BY DEF KillProcess
  <2>2. connections'[p] = Closing /\ \A q \in Processes \ {p} : connections'[q] = connections[q]
        BY <1>0, <2>1
  <2>3. ConnectionTyped(Closing) /\ Closing.state = "closed"
        BY DEF ConnectionTyped, Closing
  <2> QED BY <1>0, <2>1, <2>2, <2>3 DEF DatabaseTyped
<1>7. /\ lockQueue'[p] = <<>> /\ (\A q \in Processes \ {p} : lockQueue'[q] = lockQueue[q])
      /\ lockQueue' \in [Processes -> Seq(DOMAIN callers)]
  <2>1. lockQueue' = [lockQueue EXCEPT ![p] = <<>>] /\ <<>> \in Seq(DOMAIN callers)
        BY DEF KillProcess
  <2> QED BY <1>0, <2>1
<1>8. DatabaseTyped'
  <2>1. ASSUME NEW u \in DOMAIN callers PROVE CallerTyped(u, doing'[u])
    <3>1. CallerTyped(u, doing[u])
          BY <1>0 DEF DatabaseTyped
    <3>2. CallerTyped(u, Resting)
          BY DEF CallerTyped, IsCaller, Resting
    <3>3. CallerTyped(u, [Resting EXCEPT !.pc = "raised"])
      <4>1. PICK k : k = [Resting EXCEPT !.pc = "raised"]
            OBVIOUS
      <4>2. k = [pc |-> "raised", at |-> 0, todo |-> {}, now |-> 0, hit |-> FALSE, saw |-> {}]
            BY <4>1 DEF Resting
      <4>3. CallerTyped(u, k)
            BY <4>2 DEF CallerTyped, IsCaller, Ended
      <4> QED BY <4>1, <4>3
    <3>4. CASE Home(u) = p
      <4>1. u \in Mine(p)
            BY <3>4 DEF Mine
      <4> QED BY <1>3, <3>1, <3>2, <3>3, <4>1
    <3>5. CASE Home(u) # p
          BY <1>2, <3>1, <3>5
    <3> QED BY <3>4, <3>5
  <2>2. \A u \in DOMAIN callers : CallerTyped(u, doing[u])'
        BY <1>1, <2>1 DEF CallerTyped, IsCaller
  <2>3. \A o \in threads' : CallTyped(o)'
        BY <1>0, <1>5 DEF DatabaseTyped, CallTyped
  <2>4. connections' = [q \in Processes |-> connections'[q]]
        BY <1>0, <1>6
  <2>5. usable' \subseteq Processes
        BY <1>0, <1>1 DEF DatabaseTyped
  <2> QED BY <1>0, <1>2, <1>6, <1>7, <2>2, <2>3, <2>4, <2>5 DEF DatabaseTyped, ConnectionTyped
<1>9. \A q \in Processes \ {p} : ProcessInv(q)'
  <2>1. \A o \in threads \cup threads' : Home(o.by) # p => (o \in threads <=> o \in threads')
        BY <1>5
  <2> QED BY <1>1, <1>2, <1>6, <1>7, <1>8, <2>1, Elsewhere
<1>10. LockIsHeld(p)'
       BY <1>1, <1>4, <1>7 DEF LockIsHeld, Active
<1>11. Phased(p)'
  <2>1. p \notin usable' /\ \A o \in threads' : o.by \notin Mine(p)
        BY <1>1, <1>5 DEF CallsOf, Mine
  <2>2. \A u \in Mine(p) : doing'[u].pc \notin Active
        BY <1>4 DEF Active
  <2> QED BY <1>1, <1>4, <1>5, <1>6, <2>1, <2>2 DEF Phased
<1>12. EndsOnce(p)' /\ CommitsWhole(p)' /\ OpenIsUsed(p)' /\ \A o \in CallsOf(p)' : LooseIsKnown(o)'
       BY <1>5, <1>6 DEF EndsOnce, CommitsWhole, OpenIsUsed
<1>13. ASSUME NEW u \in Mine(p) PROVE CallsAgree(u)' /\ InTransaction(u)' /\ MigratesAll(u)' /\ Told(u)'
  <2>1. /\ doing'[u].pc \notin Active \cup Alive \cup {"begin"} /\ \A o \in threads' : o.by # u
    <3>1. doing'[u].pc \notin Active \cup Alive \cup {"begin"}
          BY <1>4 DEF Active, Alive
    <3>2. \A o \in threads' : o.by # u
          BY <1>1, <1>5 DEF CallsOf, Mine
    <3> QED BY <3>1, <3>2
  <2>2. CallsAgree(u)' /\ InTransaction(u)' /\ MigratesAll(u)'
        BY <2>1 DEF CallsAgree, InTransaction, MigratesAll
  <2>3. Told(u)
        BY <1>0 DEF ProcessInv
  <2>4. doing'[u] = doing[u] \/ (doing'[u].pc # "done" /\ doing'[u].saw = {})
        BY <1>3 DEF Resting
  <2>5. Told(u)'
        BY <1>1, <2>3, <2>4 DEF Told, WholeIn, UnitOf
  <2> QED BY <2>2, <2>5
<1>14. p \notin usable'
       BY <1>1
<1>15. ProcessInv(p)'
       BY <1>1, <1>10, <1>11, <1>12, <1>13, <1>14 DEF ProcessInv
<1>16. WholeUnits(stored)'
       BY <1>0, <1>1 DEF WholeUnits, WholeIn
<1> QED BY <1>8, <1>9, <1>15, <1>16 DEF DatabaseInv

\* Whatever a thread does, and whether anyone waits for it or not
LEMMA PerformKeeps ==
    ASSUME DatabaseInv, callers' = callers, NEW o \in threads, Perform(o)
    PROVE  DatabaseInv'
<1>1. /\ CallTyped(o) /\ o.by \in DOMAIN callers /\ callers \in Deployments
      BY DEF DatabaseInv, DatabaseTyped, CallTyped
<1>2. PICK p \in Processes : p = Home(o.by) /\ o \in CallsOf(p)
      BY <1>1, DeploymentIs DEF CallsOf
<1>3. PICK ok, c : /\ Does(p, o, ok, c) /\ overtaken' = overtaken /\ abandoned' = abandoned
                   /\ IF o.awaited THEN Proceeds(o, ok)
                      ELSE threads' = threads \ {o} /\ UNCHANGED <<doing, lockQueue, usable>>
      BY <1>2, DoesIs
<1>4. CASE ~ o.awaited
      BY <1>2, <1>3, <1>4, LooseKeeps
<1>5. CASE o.awaited
  <2>1. Proceeds(o, ok) /\ o.kind \in Active \ {"body"}
        BY <1>1, <1>3, <1>5, StepsAre DEF CallTyped
  <2>2. CASE o.kind = "versions"
        BY <1>2, <1>3, <1>5, <2>1, <2>2, VersionsKeep
  <2>3. CASE o.kind = "select"
        BY <1>2, <1>3, <1>5, <2>1, <2>3, SelectKeeps
  <2>4. CASE o.kind = "begin"
        BY <1>2, <1>3, <1>5, <2>1, <2>4, BeginKeeps
  <2>5. CASE o.kind = "write"
        BY <1>2, <1>3, <1>5, <2>1, <2>5, WriteKeeps
  <2>6. CASE o.kind = "commit"
        BY <1>2, <1>3, <1>5, <2>1, <2>6, CommitKeeps
  <2>7. CASE o.kind \in {"rollback", "unbegin", "close"}
        BY <1>2, <1>3, <1>5, <2>1, <2>7, CloseKeeps
  <2> QED BY <2>1, <2>2, <2>3, <2>4, <2>5, <2>6, <2>7 DEF Active
<1> QED BY <1>4, <1>5

\* The invariant holds at the start, implies the property, and every step preserves it
LEMMA DatabaseStarts ==
    ASSUME DatabaseInit
    PROVE  DatabaseInv
<1>1. /\ callers \in Deployments /\ stored = {} /\ threads = {} /\ usable = {} /\ overtaken = {} /\ abandoned = {}
      /\ connections = [p \in Processes |-> Closing] /\ lockQueue = [p \in Processes |-> <<>>]
      /\ doing = [t \in DOMAIN callers |-> Resting]
      BY DEF DatabaseInit
<1>2. \A t \in DOMAIN callers : doing[t].pc = "idle" /\ doing[t].saw = {} /\ CallerTyped(t, doing[t])
      BY <1>1 DEF Resting, CallerTyped, IsCaller
<1>3. \A p \in Processes : connections[p].state = "closed" /\ ConnectionTyped(connections[p])
      BY <1>1 DEF Closing, ConnectionTyped
<1>4. DatabaseTyped
  <2>1. lockQueue \in [Processes -> Seq(DOMAIN callers)]
    <3>1. <<>> \in Seq(DOMAIN callers)
          OBVIOUS
    <3> QED BY <1>1, <3>1
  <2> QED BY <1>1, <1>2, <1>3, <2>1 DEF DatabaseTyped
<1>5. WholeUnits(stored) /\ \A name : WholeIn({}, name)
      BY <1>1 DEF WholeUnits, WholeIn
<1>6. ASSUME NEW p \in Processes PROVE ProcessInv(p)
  <2>1. CallsOf(p) = {} /\ lockQueue[p] = <<>> /\ \A t \in Mine(p) : t \in DOMAIN callers
        BY <1>1 DEF CallsOf, Mine
  <2>2. LockIsHeld(p)
        BY <1>2, <2>1 DEF LockIsHeld, Active
  <2>3. Phased(p)
        BY <1>1, <1>2, <1>3, <2>1 DEF Phased, Active
  <2>4. EndsOnce(p) /\ CommitsWhole(p) /\ OpenIsUsed(p)
        BY <1>3, <2>1 DEF EndsOnce, CommitsWhole, OpenIsUsed
  <2>5. \A t \in Mine(p) : CallsAgree(t) /\ InTransaction(t) /\ MigratesAll(t) /\ Told(t)
        BY <1>1, <1>2, <1>5, <2>1 DEF CallsAgree, InTransaction, MigratesAll, Told, Active, Alive
  <2> QED BY <1>1, <2>1, <2>2, <2>3, <2>4, <2>5 DEF ProcessInv
<1> QED BY <1>4, <1>5, <1>6 DEF DatabaseInv

LEMMA DatabaseIsWhole ==
    ASSUME DatabaseInv
    PROVE  DatabaseIsAtomic
<1>1. /\ DatabaseTyped /\ WholeUnits(stored) /\ callers \in Deployments
      /\ \A t \in DOMAIN callers : Home(t) \in Processes /\ t \in Mine(Home(t)) /\ Told(t)
  <2>1. DatabaseTyped /\ WholeUnits(stored) /\ callers \in Deployments
        BY DEF DatabaseInv, DatabaseTyped
  <2>2. \A t \in DOMAIN callers : Home(t) \in Processes /\ t \in Mine(Home(t))
        BY <2>1, DeploymentIs DEF Mine
  <2> QED BY <2>1, <2>2 DEF DatabaseInv, ProcessInv
<1>2. \A t \in DOMAIN callers : callers[t].kind = "unit" =>
         WholeIn(stored, t) /\ (doing[t].pc = "done" => UnitOf(t) \subseteq stored)
      BY <1>1 DEF Told, WholeUnits, Names, Units
<1>3. \A i \in DOMAIN Migrations : WholeIn(stored, Migrations[i])
      BY <1>1, DeploymentIs DEF WholeUnits, Names
<1>4. \A q \in DOMAIN callers : callers[q].kind = "query" /\ abandoned = {} =>
         \A t \in DOMAIN callers : callers[t].kind = "unit" => WholeIn(doing[q].saw, t)
      BY <1>1 DEF Told, Units
<1>5. ASSUME NEW p \in Processes \ abandoned, lockQueue[p] = <<>>, \A o \in threads : Home(o.by) # p
      PROVE  connections[p].state # "open"
  <2>1. OpenIsUsed(p) /\ LockIsHeld(p) /\ CallsOf(p) = {}
        BY <1>5 DEF DatabaseInv, ProcessInv, CallsOf
  <2>2. \A t \in Mine(p) : doing[t].pc \notin Active
        BY <1>1, <1>5, <2>1, HolderIs
  <2> QED BY <2>1, <2>2 DEF OpenIsUsed, Active, Alive
<1>6. \A p \in usable : \A i \in Known(p) : Recorded(Migrations[i]) \in stored
      BY <1>1 DEF DatabaseTyped, DatabaseInv, ProcessInv
<1> QED BY <1>2, <1>3, <1>4, <1>5, <1>6 DEF DatabaseIsAtomic

LEMMA DatabaseGoesOn ==
    ASSUME DatabaseInv, [DatabaseNext]_databaseVars
    PROVE  DatabaseInv'
<1>1. CASE UNCHANGED databaseVars
  <2>1. /\ callers' = callers /\ doing' = doing /\ threads' = threads /\ lockQueue' = lockQueue /\ connections' = connections
        /\ usable' = usable /\ stored' = stored /\ overtaken' = overtaken /\ abandoned' = abandoned
        BY <1>1 DEF databaseVars
  <2>2. \A u : Home(u)' = Home(u) /\ Initializes(u)' = Initializes(u) /\ AtHand(u)' = AtHand(u)
        BY <2>1 DEF Home, Initializes, AtHand
  <2>3. Units' = Units /\ Names' = Names /\ \A p : Mine(p)' = Mine(p) /\ CallsOf(p)' = CallsOf(p)
        BY <2>1 DEF Units, Names, Mine, CallsOf, Home
  <2>4. DatabaseTyped'
        BY <2>1 DEF DatabaseInv, DatabaseTyped, CallerTyped, IsCaller, CallTyped, ConnectionTyped, Home
  <2>5. WholeUnits(stored)'
        BY <2>1, <2>3 DEF DatabaseInv, WholeUnits, WholeIn
  <2>6. ASSUME NEW p \in Processes PROVE ProcessInv(p)'
    <3>1. ProcessInv(p)
          BY DEF DatabaseInv
    <3>2. LockIsHeld(p)' /\ Phased(p)' /\ EndsOnce(p)' /\ OpenIsUsed(p)'
          BY <2>1, <2>2, <2>3, <3>1 DEF ProcessInv, LockIsHeld, Phased, EndsOnce, OpenIsUsed
    <3>3. CommitsWhole(p)'
          BY <2>1, <2>3, <3>1 DEF ProcessInv, CommitsWhole, WholeUnits, WholeIn
    <3>4. \A t \in Mine(p) : CallsAgree(t)' /\ InTransaction(t)' /\ MigratesAll(t)' /\ Told(t)'
          BY <2>1, <2>2, <2>3, <3>1 DEF ProcessInv, CallsAgree, InTransaction, Under, MigratesAll, Told, WholeIn
    <3>5. \A o \in CallsOf(p) : LooseIsKnown(o)'
          BY <2>1, <2>2, <3>1 DEF ProcessInv, LooseIsKnown
    <3> QED BY <2>1, <2>3, <3>1, <3>2, <3>3, <3>4, <3>5 DEF ProcessInv
  <2> QED BY <2>4, <2>5, <2>6 DEF DatabaseInv
<1>2. CASE callers' = callers /\ \E o \in threads : Perform(o)
      BY <1>2, PerformKeeps
<1>3. ASSUME callers' = callers, NEW t \in DOMAIN callers,
             \/ WaitForLock(t) \/ Acquire(t) \/ Continue(t)
             \/ CancelQueued(t) \/ CancelShielded(t) \/ CancelAgain(t) \/ CancelStatement(t) \/ CancelOutside(t)
      PROVE  DatabaseInv'
  <2>1. CASE WaitForLock(t)
        BY <1>3, <2>1, WaitForLockKeeps
  <2>2. CASE Acquire(t)
        BY <1>3, <2>2, AcquireKeeps
  <2>3. CASE Continue(t)
        BY <1>3, <2>3, ContinueKeeps
  <2>4. CASE CancelQueued(t)
        BY <1>3, <2>4, CancelQueuedKeeps
  <2>5. CASE CancelShielded(t)
        BY <1>3, <2>5, CancelShieldedKeeps
  <2>6. CASE CancelAgain(t)
        BY <1>3, <2>6, CancelAgainKeeps
  <2>7. CASE CancelStatement(t)
        BY <1>3, <2>7, CancelStatementKeeps
  <2>8. CASE CancelOutside(t)
        BY <1>3, <2>8, CancelOutsideKeeps
  <2> QED BY <1>3, <2>1, <2>2, <2>3, <2>4, <2>5, <2>6, <2>7, <2>8
<1>4. CASE callers' = callers /\ \E p \in Processes : KillProcess(p)
      BY <1>4, KillKeeps
<1> QED BY <1>1, <1>2, <1>3, <1>4 DEF DatabaseNext

(* Whatever is cancelled, fails or ends a process, in whichever order the  *)
(* threads run: units and migrations are in the file as a whole or not at  *)
(* all, save for a statement that its caller was cancelled in; a           *)
(* transaction that returned is in it; an unused connection has no open    *)
(* transaction and a query sees no half of a unit, unless a shielded call  *)
(* was left to itself; and a process that serves has the schema that its   *)
(* code knows (storage/database.py: transaction(), _finish(),              *)
(* initialize(), close()).                                                 *)
THEOREM DatabaseStaysAtomic == DatabaseSpec => []DatabaseIsAtomic
<1>1. DatabaseInit => DatabaseInv
      BY DatabaseStarts
<1>2. DatabaseInv /\ [DatabaseNext]_databaseVars => DatabaseInv'
      BY DatabaseGoesOn
<1>3. DatabaseInv => DatabaseIsAtomic
      BY DatabaseIsWhole
<1> QED BY <1>1, <1>2, <1>3, PTL DEF DatabaseSpec

================================================================================
