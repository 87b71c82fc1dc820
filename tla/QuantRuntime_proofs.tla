------------------------- MODULE QuantRuntime_proofs -------------------------
(***************************************************************************)
(* Proofs about QuantRuntime for every calendar and every set of commands. *)
(*                                                                         *)
(* TInv strengthens the type invariant by what the position of the job     *)
(* says of the message at hand.  ReviewInv, KeyInv and DayInv are          *)
(* inductive relative to it: they tie the request of a review, the row of  *)
(* a dedup_key and the event of an occurrence to the step serve() is at.   *)
(*                                                                         *)
(* Sums over finite sets, which the notifications need, are built up from  *)
(* a smallest set on which a claim about them fails.  Three more parts     *)
(* need the same argument and follow here.  In a run of the replay sandbox *)
(* (SandboxRun) what the branches have slept adds up to no less than the   *)
(* clock shows.  From evidence to a selection (DnaEvolution) every row     *)
(* that is stored stays, is the answer to all who ask, and rests on what   *)
(* it was written from.  And the definitions of workflows                  *)
(* (WorkflowDefinitions) can run, within the limits they were composed in: *)
(* the nodes over all the paths of a definition are as many as its         *)
(* composition was admitted with.                                          *)
(***************************************************************************)
EXTENDS QuantRuntime, SandboxRun, DnaEvolution, WorkflowDefinitions, Integers, FiniteSetTheorems, WellFoundedInduction, TLAPS

(* The values of the clock, of the job and of a rest_repair_run. *)
Clocks == 0 .. 4 * Len(Calendar) - 1
Jobs == [pc : Positions, seen : Clocks, batch : SUBSET Messages, at : Messages \cup {None},
         result : {"none"} \cup Settled]
Reviews == [status : {"NONE", "REQUESTED"} \cup Settled, attempt : 0 .. MaxReviews, open : BOOLEAN]

(* The positions inside DailyReviewApp.execute(). *)
Reviewing == {"prepare", "review", "complete", "fail"}

(* What a position promises of the message at hand. *)
PlacedAt(j) ==
    /\ j.pc \in {"claim", "run", "exec", "sent", "finish"} => j.at \in Commands
    /\ j.pc \in {"confirm"} \cup Reviewing => j.at \in Messages
    /\ j.pc \in Reviewing /\ j.at \in Commands => Kind[j.at] = "review"
    /\ j.pc \in {"exec", "sent"} => Kind[j.at] \in {"summary", "retry"}
    /\ j.pc = "finish" => j.result \in Settled

(* A review that was never requested has made no attempt. *)
Fresh == \A d \in Days : review[d].status = "NONE" => review[d].attempt = 0

TInv == TypeOK /\ PlacedAt(job) /\ Fresh

JobOK(j) == j \in Jobs /\ PlacedAt(j)

(* A clock value falls on a day of the calendar. *)
LEMMA DayTyped ==
    ASSUME NEW t \in Clocks
    PROVE  DayAt(t) \in Days
<1>1. Len(Calendar) \in Nat /\ DOMAIN Calendar = 1 .. Len(Calendar)
      BY QuantRuntimeAssumption
<1>2. (t \div 4) + 1 \in 1 .. Len(Calendar)
      BY <1>1, SMT DEF Clocks
<1> QED BY <1>1, <1>2 DEF DayAt, Days

(* A job at rest is well formed. *)
LEMMA IdleOK == ASSUME NEW pc \in {"down", "loop", "relay", "ended"} PROVE JobOK(Idle(pc))
<1>1. 0 \in Clocks
      BY QuantRuntimeAssumption DEF Clocks
<1> QED BY <1>1, QuantRuntimeAssumption DEF JobOK, Jobs, PlacedAt, Idle, Positions, Reviewing

(* The service starts well formed: nothing stored, no process. *)
LEMMA TypeInit == Init => TInv
<1>1. 0 \in Clocks /\ Len(Calendar) \in Nat \ {0}
      BY QuantRuntimeAssumption DEF Clocks
<1> SUFFICES ASSUME Init PROVE TInv
    OBVIOUS
<1>2. JobOK(job)
      BY IdleOK DEF Init
<1>3. review \in [Days -> Reviews] /\ Fresh
      BY QuantRuntimeAssumption DEF Init, Reviews, Fresh
<1>4. clock \in Clocks /\ faults \in 0 .. MaxFaults
      BY <1>1, QuantRuntimeAssumption DEF Init
<1>5. /\ outbox \in [Messages -> {"ABSENT", "PENDING", "PUBLISHED"}]
      /\ checkpoint \in [Days -> {"NONE", "FIRED", "SKIPPED", "EXPIRED"}]
      /\ reviewed \in [Days -> Nat]
      BY DEF Init
<1>6. /\ command \in [Commands -> {"NONE", "ACCEPTED", "RUNNING"} \cup Settled]
      /\ attempt \in [Commands -> Nat]
      /\ task \in [Summaries -> {"NONE", "RUNNING"} \cup Settled]
      /\ notified \in [Summaries -> Nat]
      BY DEF Init
<1>7. live \subseteq Summaries /\ accepting \in BOOLEAN /\ stopping \in BOOLEAN /\ ticked \in BOOLEAN
      BY DEF Init
<1> QED BY <1>2, <1>3, <1>4, <1>5, <1>6, <1>7 DEF TInv, TypeOK, JobOK, Jobs, Clocks, Reviews

-----------------------------------------------------------------------------
(* Where the steps of serve() leave the job. *)

(* A step that moves the job alone, to a position its message is fit for. *)
LEMMA GotoOK ==
    ASSUME TInv, NEW pc \in Positions \ {"finish"}, Goto(pc),
           pc \in {"claim", "run", "exec", "sent"} => job.at \in Commands,
           pc \in {"confirm"} \cup Reviewing => job.at \in Messages,
           pc \in Reviewing /\ job.at \in Commands => Kind[job.at] = "review",
           pc \in {"exec", "sent"} => Kind[job.at] \in {"summary", "retry"}
    PROVE  JobOK(job')
<1>1. job \in Jobs
      BY DEF TInv, TypeOK, Jobs, Clocks
<1>2. job' \in Jobs /\ job'.pc = pc /\ job'.at = job.at
      BY <1>1 DEF Goto, Jobs
<1> QED BY <1>2 DEF JobOK, PlacedAt

(* Going on with the messages left over leaves the job well formed. *)
LEMMA BatchOK ==
    ASSUME TInv, NEW due \in SUBSET Messages, Batch(due)
    PROVE  JobOK(job')
BY DEF TInv, TypeOK, Batch, Jobs, Clocks, JobOK, PlacedAt, Positions, Reviewing

(* So does a command that has a result. *)
LEMMA FinishesOK ==
    ASSUME TInv, NEW result \in Settled, job.at \in Commands, Finishes(result)
    PROVE  JobOK(job')
BY DEF TInv, TypeOK, Finishes, Jobs, Clocks, JobOK, PlacedAt, Positions, Reviewing

(* A message in execute() of the daily review names a business day. *)
LEMMA ReviewDayOK ==
    ASSUME TInv, job.pc \in Reviewing
    PROVE  ReviewDay \in Days
BY QuantRuntimeAssumption DEF TInv, PlacedAt, ReviewDay, Messages

(* A command that runs, or runs again, a summary names one. *)
LEMMA SubjectOK ==
    ASSUME TInv, job.at \in Commands, Kind[job.at] \in {"summary", "retry"}
    PROVE  Subject \in Summaries
BY QuantRuntimeAssumption DEF Subject, Summaries

(* The daily review returns to the relay, or to the command. *)
LEMMA ReturnsOK ==
    ASSUME TInv, job.pc \in Reviewing, ReviewReturns
    PROVE  JobOK(job')
<1>1. CASE job.at \in Days
      BY <1>1 DEF TInv, TypeOK, ReviewReturns, Jobs, Clocks, JobOK, PlacedAt, Positions, Reviewing
<1>2. CASE job.at \notin Days
  <2>1. job.at \in Commands
        BY <1>2 DEF TInv, PlacedAt, Messages
  <2> QED BY <1>2, <2>1 DEF TInv, TypeOK, ReviewReturns, Jobs, Clocks, JobOK, PlacedAt, Positions,
                            Reviewing, Settled
<1> QED BY <1>1, <1>2

(* It raises into the relay, or into the command. *)
LEMMA RaisesOK ==
    ASSUME TInv, job.pc \in Reviewing, ReviewRaises
    PROVE  JobOK(job')
<1>1. CASE job.at \in Days
  <2>1. job.batch \ {job.at} \in SUBSET Messages
        BY DEF TInv, TypeOK
  <2> QED BY <1>1, <2>1, BatchOK DEF ReviewRaises, Deferred
<1>2. CASE job.at \notin Days
  <2>1. job.at \in Commands
        BY <1>2 DEF TInv, PlacedAt, Messages
  <2>2. job' = [job EXCEPT !.pc = "finish", !.result = "FAILED"]
        BY <1>2 DEF ReviewRaises
  <2> QED BY <2>1, <2>2 DEF TInv, TypeOK, Jobs, Clocks, JobOK, PlacedAt, Positions, Reviewing, Settled
<1> QED BY <1>1, <1>2

(* A tick records one of the three verdicts and at most one event. *)
LEMMA RecordOK ==
    ASSUME TInv, NEW t \in Clocks, Record(t)
    PROVE  /\ outbox' \in [Messages -> {"ABSENT", "PENDING", "PUBLISHED"}]
           /\ checkpoint' \in [Days -> {"NONE", "FIRED", "SKIPPED", "EXPIRED"}]
<1>1. DayAt(t) \in Days
      BY DayTyped
<1>2. Verdict(t) \in {"FIRED", "SKIPPED", "EXPIRED"}
      BY DEF Verdict
<1> QED BY <1>1, <1>2 DEF Record, TInv, TypeOK

(* A step that changes the job alone. *)
LEMMA JobAlone ==
    ASSUME TInv, JobOK(job'), faults' \in 0 .. MaxFaults,
           UNCHANGED <<clock, stored, live, accepting, stopping, ticked>>
    PROVE  TInv'
<1>1. Fresh'
      BY DEF TInv, Fresh, stored
<1> QED BY <1>1 DEF TInv, TypeOK, JobOK, Jobs, Clocks, stored

(* Every step of the service keeps TInv. *)
LEMMA TypeStep == TInv /\ [Next]_vars => TInv'
<1> SUFFICES ASSUME TInv, [Next]_vars
             PROVE  TInv'
    OBVIOUS
<1>0. /\ faults \in 0 .. MaxFaults
      /\ JobOK(job)
      /\ review \in [Days -> Reviews]
      BY DEF TInv, TypeOK, JobOK, Jobs, Clocks, Reviews
<1>1. CASE LoopTurn
  <2>1. JobOK(job')
    <3>1. CASE stopping
          BY <1>1, <3>1, IdleOK DEF LoopTurn
    <3>2. CASE ~ stopping
      <4>1. clock \in Clocks /\ job' = [pc |-> "tick", seen |-> clock, batch |-> {}, at |-> None, result |-> "none"]
            BY <1>1, <3>2 DEF LoopTurn, Idle, TInv, TypeOK, Clocks
      <4>2. job' \in Jobs
            BY <4>1 DEF Jobs, Positions
      <4>3. PlacedAt(job')
            BY <4>1 DEF PlacedAt, Reviewing
      <4> QED BY <4>2, <4>3 DEF JobOK
    <3> QED BY <3>1, <3>2
  <2> QED BY <1>1, <1>0, <2>1, JobAlone DEF LoopTurn
<1>2. CASE ServeTicks
  <2>1. JobOK(job')
        BY <1>2, IdleOK DEF ServeTicks
  <2>2. job.seen \in Clocks
        BY <1>0 DEF JobOK, Jobs
  <2>3. Fresh'
        BY <1>2 DEF ServeTicks, TInv, Fresh
  <2> QED BY <1>2, <2>1, <2>2, <2>3, RecordOK DEF ServeTicks, TInv, TypeOK, JobOK, Jobs, Clocks
<1>3. CASE ReadDue
  <2>1. JobOK(job')
        BY <1>3, BatchOK DEF ReadDue
  <2> QED BY <1>3, <1>0, <2>1, JobAlone DEF ReadDue
<1>4. ASSUME NEW d \in Days, PublishDay(d)
      PROVE  TInv'
  <2>1. JobOK(job')
        BY <1>4, QuantRuntimeAssumption
        DEF PublishDay, TInv, TypeOK, JobOK, Jobs, Clocks, PlacedAt, Positions, Reviewing, Messages
  <2> QED BY <1>4, <1>0, <2>1, JobAlone DEF PublishDay
<1>5. ASSUME NEW c \in Commands, Accept(c)
      PROVE  TInv'
  <2>1. JobOK(job')
    <3>1. CASE Kind[c] = "unknown" /\ ~Recorded(Key[c])
      <4>1. job.batch \ {c} \in SUBSET Messages
            BY DEF TInv, TypeOK
      <4> QED BY <1>5, <3>1, <4>1, BatchOK DEF Accept
    <3>2. CASE ~(Kind[c] = "unknown" /\ ~Recorded(Key[c]))
      <4>1. job' = [job EXCEPT !.pc = "confirm", !.at = c]
            BY <1>5, <3>2 DEF Accept
      <4> QED BY <4>1 DEF TInv, TypeOK, JobOK, Jobs, Clocks, PlacedAt, Positions, Reviewing, Messages
    <3> QED BY <3>1, <3>2
  <2>2. command' \in [Commands -> {"NONE", "ACCEPTED", "RUNNING"} \cup Settled]
        BY <1>5 DEF Accept, TInv, TypeOK
  <2>3. Fresh'
        BY <1>5 DEF Accept, TInv, Fresh
  <2> QED BY <1>5, <2>1, <2>2, <2>3 DEF Accept, TInv, TypeOK, JobOK, Jobs, Clocks
<1>6. ASSUME NEW c \in Commands, AcceptFails(c)
      PROVE  TInv'
  <2>1. job.batch \ {c} \in SUBSET Messages
        BY DEF TInv, TypeOK
  <2>2. JobOK(job')
        BY <1>6, <2>1, BatchOK DEF AcceptFails
  <2>3. faults' \in 0 .. MaxFaults
        BY <1>0, <1>6, QuantRuntimeAssumption DEF AcceptFails
  <2> QED BY <1>6, <2>2, <2>3, JobAlone DEF AcceptFails
<1>7. CASE Confirm
  <2>1. job.batch \ {job.at} \in SUBSET Messages
        BY DEF TInv, TypeOK
  <2>2. JobOK(job')
        BY <1>7, <2>1, BatchOK DEF Confirm, Deferred
  <2>3. outbox' \in [Messages -> {"ABSENT", "PENDING", "PUBLISHED"}]
        BY <1>7 DEF Confirm, TInv, TypeOK
  <2>4. Fresh'
        BY <1>7 DEF Confirm, TInv, Fresh
  <2> QED BY <1>7, <2>2, <2>3, <2>4 DEF Confirm, TInv, TypeOK, JobOK, Jobs, Clocks
<1>8. CASE Prepare
  <2>1. ReviewDay \in Days
        BY <1>8, ReviewDayOK DEF Prepare, Reviewing
  <2>2. JobOK(job')
        BY <1>8, GotoOK DEF Prepare, TInv, PlacedAt, Positions, Reviewing
  <2>3. review[ReviewDay].attempt + 1 \in 0 .. MaxReviews
        BY <1>8, <1>0, <2>1, QuantRuntimeAssumption DEF Prepare, Requestable, TInv, Fresh, Reviews
  <2>4. review' \in [Days -> Reviews] /\ Fresh'
        BY <1>8, <1>0, <2>1, <2>3 DEF Prepare, TInv, Fresh, Reviews
  <2> QED BY <1>8, <2>2, <2>4 DEF Prepare, TInv, TypeOK, JobOK, Jobs, Clocks, Reviews
<1>9. CASE PrepareDuplicate
  <2>1. JobOK(job')
        BY <1>9, ReturnsOK DEF PrepareDuplicate, Reviewing
  <2> QED BY <1>9, <1>0, <2>1, JobAlone DEF PrepareDuplicate
<1>10. CASE ReviewFaults
  <2>1. JobOK(job')
        BY <1>10, RaisesOK DEF ReviewFaults, Reviewing
  <2>2. faults' \in 0 .. MaxFaults
        BY <1>0, <1>10, QuantRuntimeAssumption DEF ReviewFaults
  <2> QED BY <1>10, <2>1, <2>2, JobAlone DEF ReviewFaults
<1>11. CASE ReviewRuns
  <2>1. ReviewDay \in Days
        BY <1>11, ReviewDayOK DEF ReviewRuns, Reviewing
  <2>2. JobOK(job')
    <3>1. Goto("complete") \/ Goto("fail")
          BY <1>11 DEF ReviewRuns
    <3>2. job.at \in Messages /\ (job.at \in Commands => Kind[job.at] = "review")
          BY <1>11 DEF ReviewRuns, TInv, PlacedAt, Reviewing
    <3> QED BY <3>1, <3>2, GotoOK DEF Positions, Reviewing
  <2>3. reviewed' \in [Days -> Nat]
    <3>1. reviewed' = reviewed \/ reviewed' = [reviewed EXCEPT ![ReviewDay] = @ + 1]
          BY <1>11 DEF ReviewRuns
    <3> QED BY <3>1, <2>1 DEF TInv, TypeOK
  <2>4. Fresh'
        BY <1>11 DEF ReviewRuns, TInv, Fresh
  <2> QED BY <1>11, <2>2, <2>3, <2>4 DEF ReviewRuns, TInv, TypeOK, JobOK, Jobs, Clocks
<1>12. ASSUME NEW pc \in {"complete", "fail"}, NEW s \in Settled, CloseReview(pc, s)
       PROVE  TInv'
  <2>1. ReviewDay \in Days
        BY <1>12, ReviewDayOK DEF CloseReview, Reviewing
  <2>2. JobOK(job')
        BY <1>12, ReturnsOK DEF CloseReview, Reviewing
  <2>3. review' \in [Days -> Reviews] /\ Fresh'
        BY <1>12, <1>0, <2>1 DEF CloseReview, TInv, Fresh, Reviews, Settled
  <2> QED BY <1>12, <2>2, <2>3 DEF CloseReview, TInv, TypeOK, JobOK, Jobs, Clocks, Reviews
<1>13. CASE Pick
  <2>1. JobOK(job')
    <3>1. CASE Goto("loop")
          BY <3>1, GotoOK DEF Positions, Reviewing
    <3>2. ASSUME NEW c \in Commands, job' = [job EXCEPT !.pc = "claim", !.at = c]
          PROVE  JobOK(job')
          BY <3>2, <1>0 DEF JobOK, Jobs, PlacedAt, Positions, Reviewing, Messages
    <3> QED BY <1>13, <3>1, <3>2 DEF Pick
  <2> QED BY <1>13, <1>0, <2>1, JobAlone DEF Pick
<1>14. CASE Claim
  <2>1. job.at \in Commands
        BY <1>14 DEF Claim, TInv, PlacedAt
  <2>2. JobOK(job')
    <3>1. (Kind[job.at] = "review" /\ Goto("prepare")) \/ Goto("run")
          BY <1>14 DEF Claim
    <3> QED BY <2>1, <3>1, GotoOK DEF Positions, Reviewing, Messages
  <2>3. /\ attempt' \in [Commands -> Nat]
        /\ command' \in [Commands -> {"NONE", "ACCEPTED", "RUNNING"} \cup Settled]
        BY <1>14, <2>1 DEF Claim, TInv, TypeOK
  <2>4. Fresh'
        BY <1>14 DEF Claim, TInv, Fresh
  <2> QED BY <1>14, <2>2, <2>3, <2>4 DEF Claim, TInv, TypeOK, JobOK, Jobs, Clocks
<1>15. CASE RunStarts
  <2>1. job.at \in Commands
        BY <1>15 DEF RunStarts, TInv, PlacedAt
  <2>2. Subject \in Summaries
        BY <1>15, <2>1, SubjectOK DEF RunStarts
  <2>3. JobOK(job')
        BY <1>15, <2>1, GotoOK DEF RunStarts, Positions, Reviewing
  <2>4. task' \in [Summaries -> {"NONE", "RUNNING"} \cup Settled] /\ live' \subseteq Summaries
        BY <1>15, <2>2 DEF RunStarts, TInv, TypeOK
  <2>5. Fresh'
        BY <1>15 DEF RunStarts, TInv, Fresh
  <2> QED BY <1>15, <2>3, <2>4, <2>5 DEF RunStarts, TInv, TypeOK, JobOK, Jobs, Clocks
<1>16. CASE NothingRuns
  <2>1. job.at \in Commands
        BY <1>16 DEF NothingRuns, TInv, PlacedAt
  <2>2. JobOK(job')
        BY <1>16, <2>1, FinishesOK DEF NothingRuns, Settled
  <2> QED BY <1>16, <1>0, <2>2, JobAlone DEF NothingRuns
<1>17. CASE Notify
  <2>1. job.at \in Commands /\ Kind[job.at] \in {"summary", "retry"}
        BY <1>17 DEF Notify, TInv, PlacedAt
  <2>2. Subject \in Summaries
        BY <2>1, SubjectOK
  <2>3. JobOK(job')
        BY <1>17, <2>1, GotoOK DEF Notify, Positions, Reviewing
  <2>4. notified' \in [Summaries -> Nat]
        BY <1>17, <2>2 DEF Notify, TInv, TypeOK
  <2>5. Fresh'
        BY <1>17 DEF Notify, TInv, Fresh
  <2> QED BY <1>17, <2>3, <2>4, <2>5 DEF Notify, TInv, TypeOK, JobOK, Jobs, Clocks
<1>18. ASSUME NEW s \in Settled, RunEnds(s)
       PROVE  TInv'
  <2>1. job.at \in Commands /\ Kind[job.at] \in {"summary", "retry"}
        BY <1>18 DEF RunEnds, TInv, PlacedAt
  <2>2. Subject \in Summaries
        BY <2>1, SubjectOK
  <2>3. JobOK(job')
        BY <1>18, <2>1, FinishesOK DEF RunEnds, Settled
  <2>4. task' \in [Summaries -> {"NONE", "RUNNING"} \cup Settled] /\ live' \subseteq Summaries
        BY <1>18, <2>2 DEF RunEnds, TInv, TypeOK
  <2>5. Fresh'
        BY <1>18 DEF RunEnds, TInv, Fresh
  <2> QED BY <1>18, <2>3, <2>4, <2>5 DEF RunEnds, TInv, TypeOK, JobOK, Jobs, Clocks
<1>19. CASE RunRaises
  <2>1. job.at \in Commands
        BY <1>19 DEF RunRaises, TInv, PlacedAt
  <2>2. JobOK(job')
        BY <1>19, <2>1, FinishesOK DEF RunRaises, Settled
  <2>3. Fresh'
        BY <1>19 DEF RunRaises, TInv, Fresh, stored
  <2> QED BY <1>19, <2>2, <2>3 DEF RunRaises, TInv, TypeOK, JobOK, Jobs, Clocks, stored
<1>20. CASE ReportRaises
  <2>1. JobOK(job')
    <3>1. CASE job.pc = "finish"
      <4>1. job.at \in Commands
            BY <3>1 DEF TInv, PlacedAt
      <4> QED BY <1>20, <3>1, <4>1, FinishesOK DEF ReportRaises, Settled
    <3>2. CASE job.pc = "confirm"
      <4>1. job.batch \ {job.at} \in SUBSET Messages
            BY DEF TInv, TypeOK
      <4> QED BY <1>20, <3>2, <4>1, BatchOK DEF ReportRaises, Deferred
    <3> QED BY <1>20, <3>1, <3>2 DEF ReportRaises
  <2>2. faults' \in 0 .. MaxFaults
        BY <1>0, <1>20, QuantRuntimeAssumption DEF ReportRaises
  <2> QED BY <1>20, <2>1, <2>2, JobAlone DEF ReportRaises
<1>21. CASE Finish
  <2>1. job.at \in Commands /\ job.result \in Settled
        BY <1>21 DEF Finish, TInv, PlacedAt
  <2>2. JobOK(job')
        BY <1>21, IdleOK DEF Finish
  <2>3. command' \in [Commands -> {"NONE", "ACCEPTED", "RUNNING"} \cup Settled]
        BY <1>21, <2>1 DEF Finish, TInv, TypeOK
  <2>4. Fresh'
        BY <1>21 DEF Finish, TInv, Fresh
  <2> QED BY <1>21, <2>2, <2>3, <2>4 DEF Finish, TInv, TypeOK, JobOK, Jobs, Clocks
<1>22. ASSUME NEW c \in Commands, Enqueue(c)
       PROVE  TInv'
       BY <1>22 DEF Enqueue, TInv, TypeOK, PlacedAt, Fresh
<1>23. CASE TimePasses
  <2>1. clock' \in 0 .. 4 * Len(Calendar) - 1
    <3>1. clock + 1 < 4 * Len(Calendar) /\ clock' = clock + 1 /\ clock \in Nat /\ Len(Calendar) \in Nat
          BY <1>23, QuantRuntimeAssumption DEF TimePasses, TInv, TypeOK
    <3> QED BY <3>1
  <2> QED BY <1>23, <2>1 DEF TimePasses, stored, TInv, TypeOK, PlacedAt, Fresh
<1>24. ASSUME NEW d \in Days, DeadlinePasses(d)
       PROVE  TInv'
  <2>1. review' \in [Days -> Reviews] /\ Fresh'
        BY <1>24 DEF DeadlinePasses, TInv, TypeOK, Fresh, Reviews
  <2>2. PlacedAt(job)'
        BY <1>24 DEF DeadlinePasses, TInv, PlacedAt
  <2> QED BY <1>24, <2>1, <2>2 DEF DeadlinePasses, TInv, TypeOK, Reviews
<1>25. CASE Start
  <2>1. JobOK(job')
        BY <1>25, IdleOK DEF Start
  <2>2. command' \in [Commands -> {"NONE", "ACCEPTED", "RUNNING"} \cup Settled]
        BY <1>25 DEF Start, TInv, TypeOK, Settled
  <2>3. Fresh'
        BY <1>25 DEF Start, TInv, Fresh
  <2> QED BY <1>25, <2>1, <2>2, <2>3 DEF Start, TInv, TypeOK, JobOK, Jobs, Clocks
<1>26. CASE Quiesce
  <2>1. Fresh' /\ PlacedAt(job)'
        BY <1>26 DEF Quiesce, TInv, Fresh, PlacedAt, stored
  <2>2. faults' \in 0 .. MaxFaults
        BY <1>0, <1>26, QuantRuntimeAssumption DEF Quiesce
  <2> QED BY <1>26, <2>1, <2>2 DEF Quiesce, TInv, TypeOK, stored
<1>27. CASE CheckpointTicks
  <2>1. Fresh' /\ PlacedAt(job)'
        BY <1>27 DEF CheckpointTicks, TInv, Fresh, PlacedAt
  <2>2. clock \in Clocks
        BY DEF TInv, TypeOK, Clocks
  <2> QED BY <1>27, <2>1, <2>2, RecordOK DEF CheckpointTicks, TInv, TypeOK
<1>28. CASE Stop
  <2>1. JobOK(job')
        BY <1>28, IdleOK DEF Stop
  <2> QED BY <1>28, <1>0, <2>1, JobAlone DEF Stop
<1>29. CASE Crash
  <2>1. JobOK(job')
        BY <1>29, IdleOK DEF Crash
  <2>2. Fresh'
        BY <1>29 DEF Crash, TInv, Fresh, stored
  <2>3. faults' \in 0 .. MaxFaults
        BY <1>0, <1>29, QuantRuntimeAssumption DEF Crash
  <2> QED BY <1>29, <2>1, <2>2, <2>3 DEF Crash, TInv, TypeOK, JobOK, Jobs, Clocks, stored
<1>30. CASE UNCHANGED vars
  <2>1. Fresh' /\ PlacedAt(job)'
        BY <1>30 DEF vars, TInv, Fresh, PlacedAt, stored
  <2> QED BY <1>30, <2>1 DEF vars, stored, TInv, TypeOK
<1>31. "SUCCEEDED" \in Settled /\ "FAILED" \in Settled
       BY DEF Settled
<1>32. CASE Serve
       BY <1>32, <1>31, <1>1, <1>2, <1>3, <1>4, <1>5, <1>6, <1>7, <1>8, <1>9, <1>10, <1>11, <1>12, <1>13,
          <1>14, <1>15, <1>16, <1>17, <1>18, <1>19, <1>20, <1>21 DEF Serve
<1> QED BY <1>22, <1>23, <1>24, <1>25, <1>26, <1>27, <1>28, <1>29, <1>30, <1>32 DEF Next

-----------------------------------------------------------------------------
(* The daily review. *)

(* A review without a result has no run that succeeded, a SUCCEEDED one has *)
(* one; the run at hand is REQUESTED, and only "complete" has a success.    *)
ReviewInv ==
    /\ \A d \in Days :
           /\ reviewed[d] \in {0, 1}
           /\ review[d].status \in {"NONE", "FAILED"} => reviewed[d] = 0
           /\ review[d].status = "SUCCEEDED" => reviewed[d] = 1
    /\ job.pc \in {"review", "fail", "complete"} =>
           /\ review[ReviewDay].status = "REQUESTED"
           /\ reviewed[ReviewDay] = IF job.pc = "complete" THEN 1 ELSE 0

(* The job is inside a review run. *)
AtReview(j) == j.pc \in {"review", "fail", "complete"}

(* No review has been requested when the service starts. *)
LEMMA ReviewInit == Init => ReviewInv
BY DEF Init, ReviewInv, Idle

(* A step that leaves the review, or stays away from it. *)
LEMMA ReviewFrame ==
    ASSUME ReviewInv, UNCHANGED <<review, reviewed>>, job' = job \/ ~AtReview(job')
    PROVE  ReviewInv'
BY DEF ReviewInv, ReviewDay, AtReview

(* A job at rest is in no review run. *)
LEMMA IdleAway == ASSUME NEW pc \in {"down", "loop", "relay", "ended"} PROVE ~AtReview(Idle(pc))
BY DEF Idle, AtReview

(* Neither is the relay between two messages, *)
LEMMA BatchAway == ASSUME TInv, NEW due, Batch(due) PROVE ~AtReview(job')
BY DEF TInv, TypeOK, Batch, AtReview

(* a step to a position outside the review run, *)
LEMMA GotoAway ==
    ASSUME TInv, NEW pc \in Positions \ {"review", "fail", "complete"}, Goto(pc)
    PROVE  ~AtReview(job')
BY DEF TInv, TypeOK, Goto, AtReview

(* a command that has a result, *)
LEMMA FinishesAway == ASSUME TInv, NEW result, Finishes(result) PROVE ~AtReview(job')
BY DEF TInv, TypeOK, Finishes, AtReview

(* a review that has returned, *)
LEMMA ReturnsAway == ASSUME TInv, ReviewReturns PROVE ~AtReview(job')
<1>1. job' = [job EXCEPT !.pc = "confirm"] \/ job' = [job EXCEPT !.pc = "finish", !.result = "SUCCEEDED"]
      BY DEF ReviewReturns
<1> QED BY <1>1 DEF TInv, TypeOK, AtReview

(* or one that has raised. *)
LEMMA RaisesAway == ASSUME TInv, ReviewRaises PROVE ~AtReview(job')
<1>1. CASE job.at \in Days
      BY <1>1, BatchAway DEF ReviewRaises, Deferred
<1>2. CASE job.at \notin Days
  <2>1. job' = [job EXCEPT !.pc = "finish", !.result = "FAILED"]
        BY <1>2 DEF ReviewRaises
  <2> QED BY <2>1 DEF TInv, TypeOK, AtReview
<1> QED BY <1>1, <1>2

(* Every step keeps ReviewInv: only prepare() enters a review run. *)
LEMMA ReviewStep == TInv /\ ReviewInv /\ [Next]_vars => ReviewInv'
<1> SUFFICES ASSUME TInv, ReviewInv, [Next]_vars
             PROVE  ReviewInv'
    OBVIOUS
<1>1. CASE LoopTurn
  <2>1. ~AtReview(job')
        BY <1>1, IdleAway DEF LoopTurn, Idle, AtReview
  <2> QED BY <1>1, <2>1, ReviewFrame DEF LoopTurn, stored
<1>2. CASE ServeTicks
      BY <1>2, IdleAway, ReviewFrame DEF ServeTicks
<1>3. CASE ReadDue
      BY <1>3, BatchAway, ReviewFrame DEF ReadDue, stored
<1>4. ASSUME NEW d \in Days, PublishDay(d)
      PROVE  ReviewInv'
  <2>1. ~AtReview(job')
        BY <1>4 DEF PublishDay, TInv, TypeOK, AtReview
  <2> QED BY <1>4, <2>1, ReviewFrame DEF PublishDay, stored
<1>5. ASSUME NEW c \in Commands, Accept(c)
      PROVE  ReviewInv'
  <2>1. Batch(job.batch \ {c}) \/ job' = [job EXCEPT !.pc = "confirm", !.at = c]
        BY <1>5 DEF Accept
  <2>2. ~AtReview(job')
        BY <2>1, BatchAway DEF TInv, TypeOK, AtReview
  <2> QED BY <1>5, <2>2, ReviewFrame DEF Accept
<1>6. ASSUME NEW c \in Commands, AcceptFails(c)
      PROVE  ReviewInv'
      BY <1>6, BatchAway, ReviewFrame DEF AcceptFails, stored
<1>7. CASE Confirm
      BY <1>7, BatchAway, ReviewFrame DEF Confirm, Deferred
<1>8. CASE Prepare
  <2>1. ReviewDay \in Days
        BY <1>8, ReviewDayOK DEF Prepare, Reviewing
  <2>2. ReviewDay' = ReviewDay /\ job'.pc = "review"
        BY <1>8 DEF Prepare, Goto, ReviewDay, TInv, TypeOK
  <2>3. reviewed[ReviewDay] = 0
        BY <1>8, <2>1 DEF Prepare, Requestable, ReviewInv
  <2>4. /\ review'[ReviewDay].status = "REQUESTED"
        /\ \A d \in Days \ {ReviewDay} : review'[d] = review[d]
        BY <1>8, <2>1 DEF Prepare, TInv, TypeOK
  <2>5. reviewed' = reviewed
        BY <1>8 DEF Prepare
  <2> QED BY <2>1, <2>2, <2>3, <2>4, <2>5 DEF ReviewInv
<1>9. CASE PrepareDuplicate
      BY <1>9, ReturnsAway, ReviewFrame DEF PrepareDuplicate, stored
<1>10. CASE ReviewFaults
      BY <1>10, RaisesAway, ReviewFrame DEF ReviewFaults, stored
<1>11. CASE ReviewRuns
  <2>1. ReviewDay \in Days
        BY <1>11, ReviewDayOK DEF ReviewRuns, Reviewing
  <2>2. review[ReviewDay].status = "REQUESTED" /\ reviewed[ReviewDay] = 0 /\ review' = review
        BY <1>11 DEF ReviewRuns, ReviewInv
  <2>3. CASE reviewed' = [reviewed EXCEPT ![ReviewDay] = @ + 1] /\ Goto("complete")
    <3>1. ReviewDay' = ReviewDay /\ job'.pc = "complete"
          BY <2>3 DEF Goto, ReviewDay, TInv, TypeOK
    <3>2. reviewed'[ReviewDay] = 1 /\ \A d \in Days \ {ReviewDay} : reviewed'[d] = reviewed[d]
          BY <2>1, <2>2, <2>3 DEF TInv, TypeOK
    <3> QED BY <2>1, <2>2, <3>1, <3>2 DEF ReviewInv
  <2>4. CASE reviewed' = reviewed /\ Goto("fail")
    <3>1. ReviewDay' = ReviewDay /\ job'.pc = "fail"
          BY <2>4 DEF Goto, ReviewDay, TInv, TypeOK
    <3> QED BY <2>1, <2>2, <2>4, <3>1 DEF ReviewInv
  <2> QED BY <1>11, <2>3, <2>4 DEF ReviewRuns
<1>12. CASE CloseReview("complete", "SUCCEEDED") \/ CloseReview("fail", "FAILED")
  <2>1. ReviewDay \in Days
        BY <1>12, ReviewDayOK DEF CloseReview, Reviewing
  <2>2. ~AtReview(job')
        BY <1>12, ReturnsAway DEF CloseReview
  <2>3. /\ reviewed' = reviewed
        /\ review'[ReviewDay].status = IF job.pc = "complete" THEN "SUCCEEDED" ELSE "FAILED"
        /\ \A d \in Days \ {ReviewDay} : review'[d] = review[d]
        BY <1>12, <2>1 DEF CloseReview, TInv, TypeOK
  <2>4. reviewed[ReviewDay] = IF job.pc = "complete" THEN 1 ELSE 0
        BY <1>12 DEF CloseReview, ReviewInv
  <2> QED BY <2>1, <2>2, <2>3, <2>4 DEF ReviewInv, AtReview
<1>13. CASE Pick
  <2>1. ~AtReview(job')
        BY <1>13 DEF Pick, Goto, TInv, TypeOK, AtReview
  <2> QED BY <1>13, <2>1, ReviewFrame DEF Pick, stored
<1>14. CASE Claim
      BY <1>14, GotoAway, ReviewFrame DEF Claim, Positions
<1>15. CASE RunStarts
      BY <1>15, GotoAway, ReviewFrame DEF RunStarts, Positions
<1>16. CASE NothingRuns
      BY <1>16, FinishesAway, ReviewFrame DEF NothingRuns, stored
<1>17. CASE Notify
      BY <1>17, GotoAway, ReviewFrame DEF Notify, Positions
<1>18. ASSUME NEW s \in Settled, RunEnds(s)
       PROVE  ReviewInv'
       BY <1>18, FinishesAway, ReviewFrame DEF RunEnds
<1>19. CASE RunRaises
       BY <1>19, FinishesAway, ReviewFrame DEF RunRaises, stored
<1>20. CASE ReportRaises
       BY <1>20, FinishesAway, BatchAway, ReviewFrame DEF ReportRaises, Deferred, stored
<1>21. CASE Finish
       BY <1>21, IdleAway, ReviewFrame DEF Finish
<1>22. ASSUME NEW c \in Commands, Enqueue(c)
       PROVE  ReviewInv'
       BY <1>22, ReviewFrame DEF Enqueue
<1>23. CASE TimePasses
       BY <1>23, ReviewFrame DEF TimePasses, stored
<1>24. ASSUME NEW d \in Days, DeadlinePasses(d)
       PROVE  ReviewInv'
  <2>1. \A e \in Days : review'[e].status = review[e].status
        BY <1>24 DEF DeadlinePasses, TInv, TypeOK
  <2>2. reviewed' = reviewed /\ job.pc = "prepare" /\ job' = job
        BY <1>24 DEF DeadlinePasses
  <2> QED BY <2>1, <2>2 DEF ReviewInv
<1>25. CASE Start \/ Stop \/ Crash
       BY <1>25, IdleAway, ReviewFrame DEF Start, Stop, Crash, stored
<1>26. CASE Quiesce \/ CheckpointTicks \/ UNCHANGED vars
       BY <1>26, ReviewFrame DEF Quiesce, CheckpointTicks, vars, stored
<1>27. "SUCCEEDED" \in Settled /\ "FAILED" \in Settled
       BY DEF Settled
<1>28. CASE Serve
       BY <1>28, <1>27, <1>1, <1>2, <1>3, <1>4, <1>5, <1>6, <1>7, <1>8, <1>9, <1>10, <1>11, <1>12, <1>13,
          <1>14, <1>15, <1>16, <1>17, <1>18, <1>19, <1>20, <1>21 DEF Serve
<1> QED BY <1>22, <1>23, <1>24, <1>25, <1>26, <1>28 DEF Next

-----------------------------------------------------------------------------
(* The commands. *)

(* Only one message of a dedup_key has a command row, and only a command    *)
(* with a row is attempted or at hand.                                      *)
KeyInv ==
    /\ \A b, c \in Commands :
           command[b] # "NONE" /\ command[c] # "NONE" /\ Key[b] = Key[c] => b = c
    /\ \A c \in Commands : attempt[c] > 0 => command[c] # "NONE"
    /\ job.pc = "claim" => command[job.at] # "NONE"

(* No command has a row when the service starts. *)
LEMMA KeyInit == Init => KeyInv
BY DEF Init, KeyInv, Idle

(* A step that adds no row and claims nothing. *)
LEMMA KeyFrame ==
    ASSUME KeyInv, job' = job \/ job'.pc # "claim", attempt' = attempt,
           \A c \in Commands : command'[c] = "NONE" <=> command[c] = "NONE",
           job.pc = "claim" /\ job' = job => job.at \in Commands
    PROVE  KeyInv'
BY DEF KeyInv

(* Every step keeps KeyInv: only accept() adds a row. *)
LEMMA KeyStep == TInv /\ KeyInv /\ [Next]_vars => KeyInv'
<1> SUFFICES ASSUME TInv, KeyInv, [Next]_vars
             PROVE  KeyInv'
    OBVIOUS
<1>0. /\ command \in [Commands -> {"NONE", "ACCEPTED", "RUNNING"} \cup Settled]
      /\ job.pc = "claim" => job.at \in Commands
      BY DEF TInv, TypeOK, PlacedAt
<1>1. ASSUME command' = command, attempt' = attempt, job' = job \/ job'.pc # "claim"
      PROVE  KeyInv'
      BY <1>0, <1>1, KeyFrame
<1>2. ASSUME NEW c \in Commands, Accept(c)
      PROVE  KeyInv'
  <2>1. job'.pc # "claim"
    <3>1. Batch(job.batch \ {c}) \/ job' = [job EXCEPT !.pc = "confirm", !.at = c]
          BY <1>2 DEF Accept
    <3> QED BY <3>1 DEF Batch, TInv, TypeOK
  <2>2. CASE Recorded(Key[c]) \/ Kind[c] = "unknown"
    <3>1. command' = command /\ attempt' = attempt
          BY <1>2, <2>2 DEF Accept
    <3> QED BY <2>1, <3>1, <1>1
  <2>3. CASE ~Recorded(Key[c]) /\ Kind[c] # "unknown"
    <3>1. command' = [command EXCEPT ![c] = "ACCEPTED"] /\ attempt' = attempt
          BY <1>2, <2>3 DEF Accept
    <3>2. \A b \in Commands : Key[b] = Key[c] => command[b] = "NONE"
          BY <2>3 DEF Recorded
    <3> QED BY <1>0, <2>1, <3>1, <3>2 DEF KeyInv
  <2> QED BY <2>2, <2>3
<1>3. CASE Pick
  <2>1. CASE Goto("loop")
    <3>1. job'.pc # "claim"
          BY <2>1 DEF Goto, TInv, TypeOK
    <3> QED BY <1>3, <3>1, <1>1 DEF Pick, stored
  <2>2. ASSUME NEW c \in Commands, command[c] = "ACCEPTED",
               job' = [job EXCEPT !.pc = "claim", !.at = c]
        PROVE  KeyInv'
    <3>1. job'.at = c /\ command' = command /\ attempt' = attempt
          BY <1>3, <2>2 DEF Pick, stored, TInv, TypeOK
    <3> QED BY <2>2, <3>1 DEF KeyInv
  <2> QED BY <1>3, <2>1, <2>2 DEF Pick
<1>4. CASE Claim
  <2>1. job.at \in Commands /\ command[job.at] # "NONE"
        BY <1>0, <1>4 DEF Claim, KeyInv
  <2>2. job'.pc # "claim"
        BY <1>4 DEF Claim, Goto, TInv, TypeOK
  <2>3. \A c \in Commands : command'[c] = "NONE" <=> command[c] = "NONE"
        BY <1>0, <1>4, <2>1 DEF Claim
  <2>4. \A c \in Commands : attempt'[c] = attempt[c] \/ c = job.at
        BY <1>4, <2>1 DEF Claim, TInv, TypeOK
  <2> QED BY <2>1, <2>2, <2>3, <2>4 DEF KeyInv
<1>5. CASE Finish
  <2>1. job.at \in Commands /\ job.result # "NONE"
        BY <1>5 DEF Finish, TInv, PlacedAt, Settled
  <2>2. \A c \in Commands : command'[c] = "NONE" <=> command[c] = "NONE"
        BY <1>0, <1>5, <2>1 DEF Finish
  <2>3. job'.pc # "claim"
        BY <1>5 DEF Finish, Idle
  <2> QED BY <1>5, <2>2, <2>3, KeyFrame DEF Finish
<1>6. CASE Start
  <2>1. \A c \in Commands : command'[c] = "NONE" <=> command[c] = "NONE"
        BY <1>6 DEF Start
  <2>2. job'.pc # "claim"
        BY <1>6 DEF Start, Idle
  <2> QED BY <1>6, <2>1, <2>2, KeyFrame DEF Start
<1>7. CASE LoopTurn
  <2>1. job'.pc # "claim"
        BY <1>7 DEF LoopTurn, Idle
  <2> QED BY <1>1, <1>7, <2>1 DEF LoopTurn, stored
<1>8. CASE ServeTicks \/ Stop \/ Crash
  <2>1. job'.pc # "claim"
        BY <1>8 DEF ServeTicks, Stop, Crash, Idle
  <2> QED BY <1>1, <1>8, <2>1 DEF ServeTicks, Stop, Crash, stored
<1>9. ASSUME NEW due, Batch(due)
      PROVE  job'.pc # "claim"
      BY <1>9 DEF Batch, TInv, TypeOK
<1>10. ASSUME NEW pc \in Positions \ {"claim"}, Goto(pc)
       PROVE  job'.pc # "claim"
       BY <1>10 DEF Goto, TInv, TypeOK
<1>11. ASSUME NEW result, Finishes(result)
       PROVE  job'.pc # "claim"
       BY <1>11 DEF Finishes, TInv, TypeOK
<1>12. CASE ReadDue \/ Confirm \/ \E c \in Commands : AcceptFails(c)
       BY <1>1, <1>9, <1>12 DEF ReadDue, Confirm, AcceptFails, Deferred, stored
<1>13. ASSUME NEW d \in Days, PublishDay(d)
       PROVE  KeyInv'
  <2>1. job'.pc # "claim"
        BY <1>13 DEF PublishDay, TInv, TypeOK
  <2> QED BY <1>1, <1>13, <2>1 DEF PublishDay, stored
<1>14. ASSUME ReviewReturns
       PROVE  job'.pc # "claim"
  <2>1. \/ job' = [job EXCEPT !.pc = "confirm"]
        \/ job' = [job EXCEPT !.pc = "finish", !.result = "SUCCEEDED"]
        BY <1>14 DEF ReviewReturns
  <2> QED BY <2>1 DEF TInv, TypeOK
<1>15. ASSUME ReviewRaises
       PROVE  job'.pc # "claim"
  <2>1. Batch(job.batch \ {job.at}) \/ job' = [job EXCEPT !.pc = "finish", !.result = "FAILED"]
        BY <1>15 DEF ReviewRaises, Deferred
  <2> QED BY <2>1, <1>9 DEF TInv, TypeOK
<1>16. CASE Prepare
       BY <1>1, <1>10, <1>16 DEF Prepare, Positions
<1>17. CASE PrepareDuplicate
       BY <1>1, <1>14, <1>17 DEF PrepareDuplicate, stored
<1>18. CASE ReviewFaults
       BY <1>1, <1>15, <1>18 DEF ReviewFaults, stored
<1>19. CASE ReviewRuns
  <2>1. job'.pc # "claim"
        BY <1>10, <1>19 DEF ReviewRuns, Positions
  <2> QED BY <1>1, <1>19, <2>1 DEF ReviewRuns
<1>20. CASE CloseReview("complete", "SUCCEEDED") \/ CloseReview("fail", "FAILED")
       BY <1>1, <1>14, <1>20 DEF CloseReview
<1>21. CASE RunStarts
       BY <1>1, <1>10, <1>21 DEF RunStarts, Positions
<1>22. CASE NothingRuns
       BY <1>1, <1>11, <1>22 DEF NothingRuns, stored
<1>23. CASE Notify
       BY <1>1, <1>10, <1>23 DEF Notify, Positions
<1>24. CASE RunEnds("SUCCEEDED") \/ RunEnds("FAILED")
       BY <1>1, <1>11, <1>24 DEF RunEnds
<1>25. CASE RunRaises
       BY <1>1, <1>11, <1>25 DEF RunRaises, stored
<1>26. CASE ReportRaises
       BY <1>1, <1>9, <1>11, <1>26 DEF ReportRaises, Deferred, stored
<1>27. CASE Serve
       BY <1>27, <1>2, <1>3, <1>4, <1>5, <1>7, <1>8, <1>12, <1>13, <1>16, <1>17, <1>18, <1>19, <1>20, <1>21,
          <1>22, <1>23, <1>24, <1>25, <1>26 DEF Serve
<1>28. CASE TimePasses \/ Quiesce \/ CheckpointTicks \/ UNCHANGED vars
       BY <1>1, <1>28 DEF TimePasses, Quiesce, CheckpointTicks, vars, stored
<1>29. CASE (\E c \in Commands : Enqueue(c)) \/ (\E d \in Days : DeadlinePasses(d))
       BY <1>1, <1>29 DEF Enqueue, DeadlinePasses
<1> QED BY <1>6, <1>8, <1>27, <1>28, <1>29 DEF Next

-----------------------------------------------------------------------------
(* The occurrences of the schedule. *)

(* A day without a record has no event, and the relay holds only days that  *)
(* have one.                                                                *)
DayInv ==
    /\ \A d \in Days : checkpoint[d] = "NONE" => outbox[d] = "ABSENT"
    /\ \A d \in Days : d \in job.batch => outbox[d] # "ABSENT"
    /\ job.at \in Days => outbox[job.at] # "ABSENT"

(* No occurrence has a record, or an event, when the service starts. *)
LEMMA DayInit == Init => DayInv
BY QuantRuntimeAssumption DEF Init, DayInv, Idle, Messages

(* The job takes no message up that the relay does not hold. *)
Holds(j, k) == k.batch \subseteq j.batch /\ (k.at \in Days => k.at \in j.batch \cup {j.at})

(* A job at rest holds nothing. *)
LEMMA IdleHolds == ASSUME NEW pc PROVE Holds(job, Idle(pc))
BY QuantRuntimeAssumption DEF Holds, Idle, Messages

(* A step that records nothing and takes up nothing keeps DayInv. *)
LEMMA DayFrame ==
    ASSUME DayInv, UNCHANGED <<checkpoint, outbox>>, Holds(job, job'), job.batch \subseteq Messages
    PROVE  DayInv'
BY DEF DayInv, Holds

(* A step keeps DayInv, and what it finds recorded or published. *)
LEMMA DayStep ==
    TInv /\ DayInv /\ [Next]_vars =>
        /\ DayInv'
        /\ \A d \in Days : /\ checkpoint[d] # "NONE" => checkpoint'[d] = checkpoint[d]
                           /\ outbox[d] = "PUBLISHED" => outbox'[d] = "PUBLISHED"
<1> DEFINE Decided == \A d \in Days : /\ checkpoint[d] # "NONE" => checkpoint'[d] = checkpoint[d]
                                      /\ outbox[d] = "PUBLISHED" => outbox'[d] = "PUBLISHED"
<1> SUFFICES ASSUME TInv, DayInv, [Next]_vars
             PROVE  DayInv' /\ Decided
    OBVIOUS
<1>0. /\ outbox \in [Messages -> {"ABSENT", "PENDING", "PUBLISHED"}]
      /\ checkpoint \in [Days -> {"NONE", "FIRED", "SKIPPED", "EXPIRED"}]
      /\ job.batch \subseteq Messages
      /\ Days \subseteq Messages
      /\ job.seen \in Clocks /\ clock \in Clocks
      BY DEF TInv, TypeOK, Messages, Clocks
<1>1. ASSUME UNCHANGED <<checkpoint, outbox>>, Holds(job, job')
      PROVE  DayInv' /\ Decided
      BY <1>0, <1>1, DayFrame
<1>2. Holds(job, job)
      BY DEF Holds
<1>3. ASSUME NEW t \in Clocks, Record(t), job' = job \/ job' = Idle("relay")
      PROVE  DayInv' /\ Decided
  <2>1. Holds(job, job')
        BY <1>2, <1>3, IdleHolds
  <2>2. CASE UNCHANGED <<checkpoint, outbox>>
        BY <1>1, <2>1, <2>2
  <2>3. CASE ~UNCHANGED <<checkpoint, outbox>>
    <3>1. DayAt(t) \in Days /\ checkpoint[DayAt(t)] = "NONE" /\ outbox[DayAt(t)] = "ABSENT"
          BY <1>3, <2>3, DayTyped DEF Record, DayInv
    <3>2. Verdict(t) # "NONE"
          BY DEF Verdict
    <3>3. /\ checkpoint' = [checkpoint EXCEPT ![DayAt(t)] = Verdict(t)]
          /\ outbox' = outbox \/ outbox' = [outbox EXCEPT ![DayAt(t)] = "PENDING"]
          BY <1>3, <2>3 DEF Record
    <3>4. \A d \in Days : outbox'[d] = outbox[d] \/ (d = DayAt(t) /\ outbox'[d] = "PENDING")
          BY <1>0, <3>3
    <3>5. \A d \in Days : IF d = DayAt(t) THEN checkpoint'[d] = Verdict(t)
                          ELSE checkpoint'[d] = checkpoint[d]
          BY <1>0, <3>3
    <3>6. Decided
          BY <3>1, <3>4, <3>5
    <3>7. DayInv'
          BY <1>0, <2>1, <3>1, <3>2, <3>4, <3>5 DEF DayInv, Holds
    <3> QED BY <3>6, <3>7
  <2> QED BY <2>2, <2>3
<1>4. CASE ServeTicks
      BY <1>0, <1>3, <1>4 DEF ServeTicks
<1>5. CASE CheckpointTicks
      BY <1>0, <1>3, <1>5 DEF CheckpointTicks
<1>6. ASSUME NEW due \in SUBSET Messages, Batch(due)
      PROVE  job'.batch = due /\ job'.at = None
      BY <1>6 DEF Batch, TInv, TypeOK
<1>7. None \notin Days
      BY QuantRuntimeAssumption DEF Messages
<1>8. ASSUME NEW m, Batch(job.batch \ {m})
      PROVE  Holds(job, job')
  <2>1. job.batch \ {m} \in SUBSET Messages
        BY <1>0
  <2> QED BY <1>6, <1>7, <1>8, <2>1 DEF Holds
<1>9. ASSUME NEW pc, Goto(pc)
      PROVE  Holds(job, job')
      BY <1>9 DEF Goto, TInv, TypeOK, Holds
<1>10. ASSUME NEW result, Finishes(result)
       PROVE  Holds(job, job')
       BY <1>10 DEF Finishes, TInv, TypeOK, Holds
<1>11. ASSUME ReviewReturns
       PROVE  Holds(job, job')
  <2>1. \/ job' = [job EXCEPT !.pc = "confirm"]
        \/ job' = [job EXCEPT !.pc = "finish", !.result = "SUCCEEDED"]
        BY <1>11 DEF ReviewReturns
  <2> QED BY <2>1 DEF TInv, TypeOK, Holds
<1>12. ASSUME ReviewRaises
       PROVE  Holds(job, job')
  <2>1. Batch(job.batch \ {job.at}) \/ job' = [job EXCEPT !.pc = "finish", !.result = "FAILED"]
        BY <1>12 DEF ReviewRaises, Deferred
  <2>2. CASE job' = [job EXCEPT !.pc = "finish", !.result = "FAILED"]
        BY <2>2 DEF TInv, TypeOK, Holds
  <2> QED BY <2>1, <2>2, <1>8
<1>13. CASE ReadDue
  <2>1. UNCHANGED <<checkpoint, outbox>> /\ Batch({m \in Messages : outbox[m] = "PENDING"})
        BY <1>13 DEF ReadDue, stored
  <2>2. job'.batch = {m \in Messages : outbox[m] = "PENDING"} /\ job'.at = None
        BY <2>1, <1>6
  <2> QED BY <2>1, <2>2, <1>7 DEF DayInv
<1>14. ASSUME NEW d \in Days, PublishDay(d)
       PROVE  DayInv' /\ Decided
  <2>1. Holds(job, job')
        BY <1>14 DEF PublishDay, TInv, TypeOK, Holds
  <2> QED BY <1>1, <1>14, <2>1 DEF PublishDay, stored
<1>15. ASSUME NEW c \in Commands, Accept(c)
       PROVE  DayInv' /\ Decided
  <2>1. Batch(job.batch \ {c}) \/ job' = [job EXCEPT !.pc = "confirm", !.at = c]
        BY <1>15 DEF Accept
  <2>2. CASE job' = [job EXCEPT !.pc = "confirm", !.at = c]
    <3>1. Holds(job, job')
          BY <2>2, QuantRuntimeAssumption DEF TInv, TypeOK, Holds
    <3> QED BY <1>1, <1>15, <3>1 DEF Accept
  <2> QED BY <1>1, <1>8, <1>15, <2>1, <2>2 DEF Accept
<1>16. ASSUME NEW c \in Commands, AcceptFails(c)
       PROVE  DayInv' /\ Decided
       BY <1>1, <1>8, <1>16 DEF AcceptFails, stored
<1>17. CASE Confirm
  <2>1. checkpoint' = checkpoint /\ outbox' = [outbox EXCEPT ![job.at] = "PUBLISHED"]
        BY <1>17 DEF Confirm
  <2>2. Holds(job, job')
        BY <1>8, <1>17 DEF Confirm, Deferred
  <2>3. \A d \in Days : outbox'[d] = IF d = job.at THEN "PUBLISHED" ELSE outbox[d]
        BY <1>0, <2>1
  <2> QED BY <1>0, <2>1, <2>2, <2>3 DEF DayInv, Holds
<1>18. CASE Prepare \/ RunStarts \/ Notify \/ Claim
       BY <1>1, <1>9, <1>18 DEF Prepare, RunStarts, Notify, Claim
<1>19. CASE PrepareDuplicate
       BY <1>1, <1>11, <1>19 DEF PrepareDuplicate, stored
<1>20. CASE ReviewFaults
       BY <1>1, <1>12, <1>20 DEF ReviewFaults, stored
<1>21. CASE ReviewRuns
  <2>1. Goto("complete") \/ Goto("fail")
        BY <1>21 DEF ReviewRuns
  <2> QED BY <1>1, <1>9, <1>21, <2>1 DEF ReviewRuns
<1>22. CASE CloseReview("complete", "SUCCEEDED") \/ CloseReview("fail", "FAILED")
       BY <1>1, <1>11, <1>22 DEF CloseReview
<1>23. CASE Pick
  <2>1. CASE Goto("loop")
        BY <1>1, <1>9, <1>23, <2>1 DEF Pick, stored
  <2>2. ASSUME NEW c \in Commands, job' = [job EXCEPT !.pc = "claim", !.at = c]
        PROVE  DayInv' /\ Decided
    <3>1. Holds(job, job')
          BY <2>2, QuantRuntimeAssumption DEF TInv, TypeOK, Holds
    <3> QED BY <1>1, <1>23, <3>1 DEF Pick, stored
  <2> QED BY <1>23, <2>1, <2>2 DEF Pick
<1>24. CASE NothingRuns \/ RunRaises \/ RunEnds("SUCCEEDED") \/ RunEnds("FAILED")
       BY <1>1, <1>10, <1>24 DEF NothingRuns, RunRaises, RunEnds, stored
<1>25. CASE ReportRaises
       BY <1>1, <1>8, <1>10, <1>25 DEF ReportRaises, Deferred, stored
<1>26. CASE LoopTurn
  <2>1. Holds(job, job')
    <3>1. job' = Idle("ended") \/ job' = [Idle("tick") EXCEPT !.seen = clock]
          BY <1>26 DEF LoopTurn
    <3>2. CASE job' = [Idle("tick") EXCEPT !.seen = clock]
          BY <3>2, <1>7 DEF Idle, Holds
    <3> QED BY <3>1, <3>2, IdleHolds
  <2> QED BY <1>1, <1>26, <2>1 DEF LoopTurn, stored
<1>27. CASE Finish \/ Start \/ Stop \/ Crash
       BY <1>1, <1>27, IdleHolds DEF Finish, Start, Stop, Crash, stored
<1>28. ASSUME NEW c \in Commands, Enqueue(c)
       PROVE  DayInv' /\ Decided
  <2>1. \A d \in Days : outbox'[d] = outbox[d]
        BY <1>0, <1>28, QuantRuntimeAssumption DEF Enqueue
  <2>2. checkpoint' = checkpoint /\ job' = job
        BY <1>28 DEF Enqueue
  <2> QED BY <2>1, <2>2 DEF DayInv
<1>29. CASE TimePasses \/ Quiesce \/ UNCHANGED vars
       BY <1>1, <1>2, <1>29 DEF TimePasses, Quiesce, vars, stored
<1>30. CASE \E d \in Days : DeadlinePasses(d)
       BY <1>1, <1>2, <1>30 DEF DeadlinePasses
<1>31. CASE Serve
       BY <1>31, <1>4, <1>13, <1>14, <1>15, <1>16, <1>17, <1>18, <1>19, <1>20, <1>21, <1>22, <1>23, <1>24, <1>25,
          <1>26, <1>27 DEF Serve
<1> QED BY <1>5, <1>27, <1>28, <1>29, <1>30, <1>31 DEF Next

-----------------------------------------------------------------------------
(* The theorems. *)

(* The state of the service is well formed in every reachable state: in     *)
(* particular a review never makes more attempts than it is allowed.        *)
THEOREM TypeCorrect == Spec => []TypeOK
<1>1. TInv => TypeOK
      BY DEF TInv
<1> QED BY <1>1, TypeInit, TypeStep, PTL DEF Spec

(* A business day has at most one review run that succeeded, however often  *)
(* the process dies, the event is delivered and a command asks for it.      *)
THEOREM ReviewsOnce == Spec => []ReviewedOnce
<1>1. ReviewInv => ReviewedOnce
      BY DEF ReviewInv, ReviewedOnce
<1> QED BY <1>1, TypeInit, TypeStep, ReviewInit, ReviewStep, PTL DEF Spec

(* A review recorded SUCCEEDED has a workflow run that succeeded. *)
THEOREM ReviewsHonestly == Spec => []ReviewIsHonest
<1>1. ReviewInv => ReviewIsHonest
      BY DEF ReviewInv, ReviewIsHonest
<1> QED BY <1>1, TypeInit, TypeStep, ReviewInit, ReviewStep, PTL DEF Spec

(* The three facts above are what the run checks of reviews               *)
(* (RestRepairRepository.prepare, complete and fail).                       *)
THEOREM ReviewsAreSound == Spec => []ReviewIsSound
<1>1. TypeOK /\ ReviewedOnce /\ ReviewIsHonest <=> ReviewIsSound
      BY DEF ReviewIsSound
<1> QED BY <1>1, TypeCorrect, ReviewsOnce, ReviewsHonestly, PTL

(* Of the messages with one dedup_key at most one is ever executed. *)
THEOREM KeysRunOnce == Spec => []KeyRunsOnce
<1>1. KeyInv => KeyRunsOnce
      BY DEF KeyInv, KeyRunsOnce
<1> QED BY <1>1, TypeInit, TypeStep, KeyInit, KeyStep, PTL DEF Spec

(* The record of an occurrence and the publication of its event are final,  *)
(* although serve() and checkpoint() tick at the same time.                 *)
THEOREM OccurrencesAreDecidedOnce == Spec => OccurrenceIsDecidedOnce
<1>1. TInv /\ DayInv /\ [Next]_vars =>
          [\A d \in Days : /\ checkpoint[d] # "NONE" => checkpoint'[d] = checkpoint[d]
                           /\ outbox[d] = "PUBLISHED" => outbox'[d] = "PUBLISHED"]_vars
      BY DayStep
<1>2. TInv /\ DayInv /\ [Next]_vars => DayInv'
      BY DayStep
<1> QED BY <1>1, <1>2, TypeInit, TypeStep, DayInit, PTL DEF Spec, OccurrenceIsDecidedOnce

-----------------------------------------------------------------------------
(* Sums over finite sets.  The library adds the elements up one by one, in *)
(* the order of CHOOSE, by a function that recurs over the subsets; that   *)
(* such a function exists, and that the order does not matter, is shown by *)
(* looking at a smallest set where it would fail.                          *)

Total(g, S) == MapThenSumSet(LAMBDA b : g[b], S)

First(s) == CHOOSE x \in s : TRUE
Rest(s) == s \ {First(s)}
Sums(g, S, it) == it = [s \in SUBSET S |-> IF s = {} THEN 0 ELSE g[First(s)] + it[Rest(s)]]
Summing(g, S) == CHOOSE it : Sums(g, S, it)

LEMMA TotalIs == ASSUME NEW g, NEW S PROVE Total(g, S) = Summing(g, S)[S]
BY DEF Total, MapThenSumSet, MapThenFoldSet, Summing, Sums, First, Rest

LEMMA FirstIsIn == ASSUME NEW s, s # {} PROVE First(s) \in s
BY DEF First

(* Among sets that fail there is a smallest one. *)
LEMMA SmallestSet ==
    ASSUME NEW S, IsFiniteSet(S), NEW T \in SUBSET SUBSET S, T # {}
    PROVE  \E low \in T : \A s \in SUBSET low : s # low => s \notin T
<1>1. T \subseteq FiniteSubsetsOf(S)
  <2>1. ASSUME NEW s \in T PROVE s \in FiniteSubsetsOf(S)
        BY FS_Subset DEF FiniteSubsetsOf
  <2> QED BY <2>1
<1>2. PICK low \in T : \A y \in T : <<y, low>> \notin StrictSubsetOrdering(S)
      BY <1>1, FS_StrictSubsetOrderingWellFounded, WFMin
<1>3. ASSUME NEW s \in SUBSET low, s # low, s \in T PROVE FALSE
  <2>1. <<s, low>> \in StrictSubsetOrdering(S)
        BY <1>3 DEF StrictSubsetOrdering
  <2> QED BY <1>2, <1>3, <2>1
<1> QED BY <1>3

(* What such a function is at a set does not depend on where it is defined. *)
LEMMA SumsAgree ==
    ASSUME NEW g, NEW S, IsFiniteSet(S), NEW U, NEW a, NEW b, Sums(g, S, a), Sums(g, U, b),
           NEW w \in SUBSET S, w \in SUBSET U
    PROVE  a[w] = b[w]
<1> DEFINE T == {s \in SUBSET w : a[s] # b[s]}
<1>1. SUFFICES ASSUME w \in T PROVE FALSE
      OBVIOUS
<1>2. T \in SUBSET SUBSET w /\ IsFiniteSet(w)
      BY FS_Subset
<1>3. PICK low \in T : \A s \in SUBSET low : s # low => s \notin T
  <2> HIDE DEF T
  <2> QED BY <1>1, <1>2, SmallestSet
<1>4. low \in SUBSET w /\ a[low] # b[low]
      OBVIOUS
<1>5. low # {}
      BY <1>4 DEF Sums
<1>6. First(low) \in low /\ Rest(low) \in SUBSET low /\ Rest(low) # low
      BY <1>5, FirstIsIn DEF Rest
<1>7. a[Rest(low)] = b[Rest(low)]
  <2>1. Rest(low) \in SUBSET w
        BY <1>4, <1>6
  <2>2. Rest(low) \notin T
        BY <1>3, <1>6
  <2> QED BY <2>1, <2>2
<1>8. a[low] = g[First(low)] + a[Rest(low)] /\ b[low] = g[First(low)] + b[Rest(low)]
      BY <1>4, <1>5 DEF Sums
<1> QED BY <1>4, <1>7, <1>8

LEMMA SumsExist ==
    ASSUME NEW g, NEW S, IsFiniteSet(S)
    PROVE  Sums(g, S, Summing(g, S))
<1> DEFINE T == {s \in SUBSET S : ~Sums(g, s, Summing(g, s))}
<1>1. SUFFICES ASSUME T # {} PROVE FALSE
      OBVIOUS
<1>2. PICK s \in T : \A u \in SUBSET s : u # s => u \notin T
  <2> HIDE DEF T
  <2>1. T \in SUBSET SUBSET S
        BY DEF T
  <2> QED BY <1>1, <2>1, SmallestSet
<1>3. \A u \in SUBSET s : u # s => Sums(g, u, Summing(g, u))
      BY <1>2
<1> DEFINE it == [u \in SUBSET s |-> IF u = {} THEN 0 ELSE g[First(u)] + Summing(g, Rest(u))[Rest(u)]]
<1>4. ASSUME NEW u \in SUBSET s, u # {} PROVE it[Rest(u)] = Summing(g, Rest(u))[Rest(u)]
  <2>1. First(u) \in u /\ Rest(u) \in SUBSET u /\ Rest(u) # s /\ Rest(u) \in SUBSET s
        BY <1>4, FirstIsIn DEF Rest
  <2>2. Sums(g, Rest(u), Summing(g, Rest(u)))
        BY <1>3, <2>1
  <2>3. CASE Rest(u) = {}
        BY <2>1, <2>2, <2>3 DEF Sums
  <2>4. CASE Rest(u) # {}
    <3> DEFINE v == Rest(u)
    <3>1. First(v) \in v /\ Rest(v) \in SUBSET v /\ Rest(v) # v
          BY <2>4, FirstIsIn DEF Rest
    <3>2. Rest(v) \in SUBSET s /\ Rest(v) # s
          BY <2>1, <3>1
    <3>3. Sums(g, Rest(v), Summing(g, Rest(v)))
          BY <1>3, <3>2
    <3>4. IsFiniteSet(v)
          BY <2>1, FS_Subset
    <3>5. Summing(g, v)[Rest(v)] = Summing(g, Rest(v))[Rest(v)]
          BY <2>2, <3>1, <3>3, <3>4, SumsAgree
    <3>6. Summing(g, v)[v] = g[First(v)] + Summing(g, v)[Rest(v)]
          BY <2>2, <2>4 DEF Sums
    <3>7. it[v] = g[First(v)] + Summing(g, Rest(v))[Rest(v)]
          BY <2>1, <2>4
    <3> QED BY <3>5, <3>6, <3>7
  <2> QED BY <2>3, <2>4
<1>5. Sums(g, s, it)
  <2> DEFINE step(u) == IF u = {} THEN 0 ELSE g[First(u)] + Summing(g, Rest(u))[Rest(u)]
             next(u) == IF u = {} THEN 0 ELSE g[First(u)] + it[Rest(u)]
  <2>1. \A u \in SUBSET s : step(u) = next(u)
        BY <1>4
  <2>2. it = [u \in SUBSET s |-> step(u)]
        OBVIOUS
  <2> HIDE DEF step, next, it
  <2>3. it = [u \in SUBSET s |-> next(u)]
        BY <2>1, <2>2
  <2> QED BY <2>3 DEF Sums, next
<1> HIDE DEF it
<1>6. Sums(g, s, Summing(g, s))
      BY <1>5 DEF Summing
<1> QED BY <1>2, <1>6

LEMMA TotalEmpty == ASSUME NEW g PROVE Total(g, {}) = 0
<1>1. Sums(g, {}, Summing(g, {}))
      BY SumsExist, FS_EmptySet
<1> QED BY <1>1, TotalIs DEF Sums

LEMMA TotalFirst ==
    ASSUME NEW g, NEW S, IsFiniteSet(S), S # {}
    PROVE  Total(g, S) = g[First(S)] + Total(g, Rest(S))
<1>1. Sums(g, S, Summing(g, S)) /\ Rest(S) \in SUBSET S
      BY SumsExist DEF Rest
<1>2. IsFiniteSet(Rest(S))
      BY <1>1, FS_Subset
<1>3. Sums(g, Rest(S), Summing(g, Rest(S)))
      BY <1>2, SumsExist
<1>4. Summing(g, S)[Rest(S)] = Summing(g, Rest(S))[Rest(S)]
      BY <1>1, <1>3, SumsAgree
<1>5. Summing(g, S)[S] = g[First(S)] + Summing(g, S)[Rest(S)]
      BY <1>1 DEF Sums
<1> QED BY <1>4, <1>5, TotalIs

LEMMA TotalType ==
    ASSUME NEW S, IsFiniteSet(S), NEW g, \A x \in S : g[x] \in Int
    PROVE  Total(g, S) \in Int
<1> DEFINE T == {s \in SUBSET S : Total(g, s) \notin Int}
<1>1. SUFFICES ASSUME T # {} PROVE FALSE
      OBVIOUS
<1>2. PICK s \in T : \A u \in SUBSET s : u # s => u \notin T
  <2> HIDE DEF T
  <2>1. T \in SUBSET SUBSET S
        BY DEF T
  <2> QED BY <1>1, <2>1, SmallestSet
<1>3. s # {}
      BY TotalEmpty
<1>4. First(s) \in s /\ Rest(s) \in SUBSET s /\ Rest(s) # s
      BY <1>3, FirstIsIn DEF Rest
<1>5. Total(g, Rest(s)) \in Int
      BY <1>2, <1>4
<1>6. Total(g, s) = g[First(s)] + Total(g, Rest(s))
  <2>1. IsFiniteSet(s)
        BY FS_Subset
  <2> QED BY <1>3, <2>1, TotalFirst
<1> QED BY <1>4, <1>5, <1>6

(* The order does not matter: any element may be added last. *)
LEMMA TotalAdd ==
    ASSUME NEW S, IsFiniteSet(S), NEW g, \A y \in S : g[y] \in Int, NEW x \in S
    PROVE  Total(g, S) = Total(g, S \ {x}) + g[x]
<1> DEFINE T == {s \in SUBSET S : \E y \in s : Total(g, s) # Total(g, s \ {y}) + g[y]}
<1>1. SUFFICES ASSUME T # {} PROVE FALSE
      OBVIOUS
<1>2. PICK s \in T : \A u \in SUBSET s : u # s => u \notin T
  <2> HIDE DEF T
  <2>1. T \in SUBSET SUBSET S
        BY DEF T
  <2> QED BY <1>1, <2>1, SmallestSet
<1>3. PICK y \in s : Total(g, s) # Total(g, s \ {y}) + g[y]
      OBVIOUS
<1> DEFINE f == First(s)
<1>4. f \in s /\ s # {} /\ IsFiniteSet(s) /\ s \in SUBSET S
      BY FirstIsIn, FS_Subset
<1>5. Total(g, s) = g[f] + Total(g, s \ {f})
      BY <1>4, TotalFirst DEF Rest
<1>6. \A u \in SUBSET S : Total(g, u) \in Int
  <2>1. ASSUME NEW u \in SUBSET S PROVE Total(g, u) \in Int
    <3>1. IsFiniteSet(u) /\ \A z \in u : g[z] \in Int
          BY FS_Subset
    <3> QED BY <3>1, TotalType
  <2> QED BY <2>1
<1>7. g[f] \in Int /\ g[y] \in Int
      BY <1>4
<1>8. y # f
      BY <1>3, <1>4, <1>5, <1>6, <1>7
<1>9. Total(g, s \ {f}) = Total(g, (s \ {f}) \ {y}) + g[y]
  <2>1. s \ {f} \notin T /\ s \ {f} \in SUBSET S /\ y \in s \ {f}
        BY <1>2, <1>4, <1>8
  <2> QED BY <2>1
<1>10. Total(g, s \ {y}) = Total(g, (s \ {y}) \ {f}) + g[f]
  <2>1. s \ {y} \notin T /\ s \ {y} \in SUBSET S /\ f \in s \ {y}
        BY <1>2, <1>4, <1>8
  <2> QED BY <2>1
<1>11. (s \ {f}) \ {y} = (s \ {y}) \ {f}
      OBVIOUS
<1>12. /\ Total(g, s \ {f}) \in Int /\ Total(g, s \ {y}) \in Int
       /\ Total(g, (s \ {y}) \ {f}) \in Int
      BY <1>4, <1>6
<1> HIDE DEF T, f
<1> QED
  <2> DEFINE both == Total(g, (s \ {y}) \ {f})
  <2>1. /\ Total(g, s) = g[f] + Total(g, s \ {f})
        /\ Total(g, s \ {f}) = both + g[y]
        /\ Total(g, s \ {y}) = both + g[f]
        /\ both \in Int /\ g[f] \in Int /\ g[y] \in Int
        BY <1>5, <1>7, <1>9, <1>10, <1>11, <1>12
  <2> HIDE DEF both
  <2>2. Total(g, s) = Total(g, s \ {y}) + g[y]
        BY <2>1
  <2> QED BY <2>2, <1>3

(* A sum depends on its summands alone. *)
LEMMA TotalSame ==
    ASSUME NEW S, IsFiniteSet(S), NEW g, NEW h, \A x \in S : g[x] = h[x]
    PROVE  Total(g, S) = Total(h, S)
<1> DEFINE T == {s \in SUBSET S : Total(g, s) # Total(h, s)}
<1>1. SUFFICES ASSUME T # {} PROVE FALSE
      OBVIOUS
<1>2. PICK s \in T : \A u \in SUBSET s : u # s => u \notin T
  <2> HIDE DEF T
  <2>1. T \in SUBSET SUBSET S
        BY DEF T
  <2> QED BY <1>1, <2>1, SmallestSet
<1>3. s # {} /\ IsFiniteSet(s) /\ s \in SUBSET S
      BY TotalEmpty, FS_Subset
<1>4. First(s) \in s /\ Rest(s) \in SUBSET s /\ Rest(s) # s
      BY <1>3, FirstIsIn DEF Rest
<1>5. Total(g, Rest(s)) = Total(h, Rest(s))
      BY <1>2, <1>3, <1>4
<1>6. /\ Total(g, s) = g[First(s)] + Total(g, Rest(s))
      /\ Total(h, s) = h[First(s)] + Total(h, Rest(s))
      BY <1>3, TotalFirst
<1> QED BY <1>3, <1>4, <1>5, <1>6

(* Sums of what is nothing. *)
LEMMA TotalZero ==
    ASSUME NEW S, IsFiniteSet(S), NEW g, \A x \in S : g[x] = 0
    PROVE  Total(g, S) = 0
<1> DEFINE T == {s \in SUBSET S : Total(g, s) # 0}
<1>1. SUFFICES ASSUME T # {} PROVE FALSE
      OBVIOUS
<1>2. PICK s \in T : \A u \in SUBSET s : u # s => u \notin T
  <2> HIDE DEF T
  <2>1. T \in SUBSET SUBSET S
        BY DEF T
  <2> QED BY <1>1, <2>1, SmallestSet
<1>3. s # {} /\ IsFiniteSet(s) /\ s \in SUBSET S
      BY TotalEmpty, FS_Subset
<1>4. First(s) \in s /\ Rest(s) \in SUBSET s /\ Rest(s) # s
      BY <1>3, FirstIsIn DEF Rest
<1>5. Total(g, Rest(s)) = 0
      BY <1>2, <1>3, <1>4
<1>6. Total(g, s) = g[First(s)] + Total(g, Rest(s))
      BY <1>3, TotalFirst
<1> QED BY <1>2, <1>3, <1>4, <1>5, <1>6

(* One summand that grows by one. *)
LEMMA TotalGrows ==
    ASSUME NEW S, IsFiniteSet(S), NEW g, NEW h, NEW x \in S,
           \A y \in S : g[y] \in Int, h[x] = g[x] + 1, \A y \in S \ {x} : h[y] = g[y]
    PROVE  Total(h, S) = Total(g, S) + 1
<1>1. Total(g, S) = Total(g, S \ {x}) + g[x]
      BY TotalAdd
<1>2. \A y \in S : h[y] \in Int
      OBVIOUS
<1>3. Total(h, S) = Total(h, S \ {x}) + h[x]
      BY <1>2, TotalAdd
<1>4. IsFiniteSet(S \ {x})
      BY FS_Subset
<1>5. Total(g, S \ {x}) = Total(h, S \ {x})
      BY <1>4, TotalSame
<1>6. Total(g, S \ {x}) \in Int /\ g[x] \in Int
      BY <1>4, TotalType
<1> QED BY <1>1, <1>3, <1>5, <1>6

-----------------------------------------------------------------------------
(* The notifications.                                                      *)

(* The commands whose attempts pay for the notifications of a summary, and *)
(* the attempt that has not spent its notification yet.                    *)
Payers(c) == {b \in Commands : b = c \/ (Kind[b] = "retry" /\ Target[b] = c)}
Saves(j, c) == j.pc \in {"run", "exec"} /\ j.at \in Payers(c)

BudgetInv ==
    \A c \in Summaries : notified[c] + (IF Saves(job, c) THEN 1 ELSE 0) <= Total(attempt, Payers(c))

LEMMA PayersAreFinite == ASSUME NEW c PROVE IsFiniteSet(Payers(c)) /\ Payers(c) \subseteq Commands
BY CommandsAreFinite, FS_Subset DEF Payers

LEMMA PaidTyped ==
    ASSUME TInv, NEW c PROVE Total(attempt, Payers(c)) \in Int
<1>1. \A b \in Payers(c) : attempt[b] \in Int
      BY PayersAreFinite DEF TInv, TypeOK
<1> QED BY <1>1, PayersAreFinite, TotalType

LEMMA BudgetInit == Init => BudgetInv
<1> SUFFICES ASSUME Init, NEW c \in Summaries
             PROVE  notified[c] + (IF Saves(job, c) THEN 1 ELSE 0) <= Total(attempt, Payers(c))
    BY DEF BudgetInv
<1>1. Total(attempt, Payers(c)) = 0
  <2>1. \A b \in Payers(c) : attempt[b] = 0
        BY PayersAreFinite DEF Init
  <2> QED BY <2>1, PayersAreFinite, TotalZero
<1>2. notified[c] = 0 /\ ~Saves(job, c)
      BY DEF Init, Saves, Idle
<1> QED BY <1>1, <1>2

(* A step that neither notifies nor claims, and does not come to a run. *)
LEMMA BudgetFrame ==
    ASSUME TInv, BudgetInv, notified' = notified, attempt' = attempt,
           \A c \in Summaries : Saves(job', c) => Saves(job, c)
    PROVE  BudgetInv'
<1> SUFFICES ASSUME NEW c \in Summaries
             PROVE  notified[c] + (IF Saves(job', c) THEN 1 ELSE 0) <= Total(attempt, Payers(c))
    BY DEF BudgetInv
<1>1. Total(attempt, Payers(c)) \in Int /\ notified[c] \in Nat
      BY PaidTyped DEF TInv, TypeOK
<1> QED BY <1>1 DEF BudgetInv

LEMMA IdleSpent == ASSUME NEW pc \in {"down", "loop", "relay", "ended", "tick"}, NEW c PROVE ~Saves(Idle(pc), c)
BY DEF Idle, Saves

LEMMA BatchSpent == ASSUME TInv, NEW due, Batch(due), NEW c PROVE ~Saves(job', c)
BY DEF TInv, TypeOK, Batch, Saves

LEMMA GotoSpent ==
    ASSUME TInv, NEW pc \in Positions \ {"run", "exec"}, Goto(pc), NEW c PROVE ~Saves(job', c)
BY DEF TInv, TypeOK, Goto, Saves

LEMMA FinishesSpent == ASSUME TInv, NEW result, Finishes(result), NEW c PROVE ~Saves(job', c)
BY DEF TInv, TypeOK, Finishes, Saves

LEMMA ReturnsSpent == ASSUME TInv, ReviewReturns, NEW c PROVE ~Saves(job', c)
BY DEF TInv, TypeOK, ReviewReturns, Saves

LEMMA RaisesSpent == ASSUME TInv, ReviewRaises, NEW c PROVE ~Saves(job', c)
BY BatchSpent DEF TInv, TypeOK, ReviewRaises, Deferred, Saves

(* A claim adds an attempt to what it may later spend. *)
LEMMA ClaimPays ==
    ASSUME TInv, BudgetInv, Claim
    PROVE  BudgetInv'
<1>0. job.at \in Commands /\ ~(job.pc \in {"run", "exec"}) /\ notified' = notified /\ job'.at = job.at
      BY DEF Claim, Goto, TInv, TypeOK, PlacedAt
<1>1. attempt' = [attempt EXCEPT ![job.at] = @ + 1] /\ attempt \in [Commands -> Nat]
      BY DEF Claim, TInv, TypeOK
<1> SUFFICES ASSUME NEW c \in Summaries
             PROVE  notified[c] + (IF Saves(job', c) THEN 1 ELSE 0) <= Total(attempt', Payers(c))
    BY <1>0 DEF BudgetInv
<1>2. Total(attempt, Payers(c)) \in Int /\ notified[c] \in Nat
      BY PaidTyped DEF TInv, TypeOK
<1>3. notified[c] <= Total(attempt, Payers(c))
      BY <1>0, <1>2 DEF BudgetInv, Saves
<1>4. CASE job.at \in Payers(c)
  <2>1. /\ \A y \in Payers(c) : attempt[y] \in Int
        /\ attempt'[job.at] = attempt[job.at] + 1
        /\ \A y \in Payers(c) \ {job.at} : attempt'[y] = attempt[y]
        BY <1>0, <1>1, PayersAreFinite
  <2>2. Total(attempt', Payers(c)) = Total(attempt, Payers(c)) + 1
        BY <1>4, <2>1, PayersAreFinite, TotalGrows
  <2> QED BY <1>2, <1>3, <2>2
<1>5. CASE job.at \notin Payers(c)
  <2>1. \A y \in Payers(c) : attempt'[y] = attempt[y]
        BY <1>0, <1>1, <1>5, PayersAreFinite
  <2>2. Total(attempt', Payers(c)) = Total(attempt, Payers(c))
        BY <2>1, PayersAreFinite, TotalSame
  <2>3. ~Saves(job', c)
        BY <1>0, <1>5 DEF Saves
  <2> QED BY <1>3, <2>2, <2>3, <1>2
<1> QED BY <1>4, <1>5

(* A notification spends the attempt that its run has saved. *)
LEMMA NotifySpends ==
    ASSUME TInv, BudgetInv, Notify
    PROVE  BudgetInv'
<1>1. job.at \in Commands /\ Kind[job.at] \in {"summary", "retry"} /\ job.pc = "exec"
      BY DEF Notify, TInv, PlacedAt
<1>2. Subject \in Summaries /\ job.at \in Payers(Subject)
      BY <1>1, SubjectOK DEF Payers, Subject
<1>3. Saves(job, Subject)
      BY <1>1, <1>2 DEF Saves
<1>4. /\ notified' = [notified EXCEPT ![Subject] = @ + 1] /\ attempt' = attempt
      /\ notified \in [Summaries -> Nat]
      BY DEF Notify, TInv, TypeOK
<1> SUFFICES ASSUME NEW c \in Summaries
             PROVE  notified'[c] + (IF Saves(job', c) THEN 1 ELSE 0) <= Total(attempt, Payers(c))
    BY <1>4 DEF BudgetInv
<1>5. Total(attempt, Payers(c)) \in Int /\ notified[c] \in Nat
      BY PaidTyped DEF TInv, TypeOK
<1>6. ~Saves(job', c)
      BY GotoSpent DEF Notify, Positions
<1>7. CASE c = Subject
  <2>1. notified[c] + 1 <= Total(attempt, Payers(c))
        BY <1>3, <1>7 DEF BudgetInv
  <2>2. notified'[c] = notified[c] + 1
        BY <1>4, <1>7
  <2> QED BY <1>5, <1>6, <2>1, <2>2
<1>8. CASE c # Subject
  <2>1. notified'[c] = notified[c]
        BY <1>4, <1>8
  <2>2. notified[c] <= Total(attempt, Payers(c))
        BY <1>5 DEF BudgetInv
  <2> QED BY <1>5, <1>6, <2>1, <2>2
<1> QED BY <1>7, <1>8

LEMMA BudgetStep == TInv /\ BudgetInv /\ [Next]_vars => BudgetInv'
<1> SUFFICES ASSUME TInv, BudgetInv, [Next]_vars
             PROVE  BudgetInv'
    OBVIOUS
<1>1. ASSUME notified' = notified, attempt' = attempt, \A c \in Summaries : ~Saves(job', c)
      PROVE  BudgetInv'
      BY <1>1, BudgetFrame
<1>2. ASSUME notified' = notified, attempt' = attempt, job' = job
      PROVE  BudgetInv'
      BY <1>2, BudgetFrame
<1>3. CASE LoopTurn
  <2>1. \A c \in Summaries : ~Saves(job', c)
        BY <1>3 DEF LoopTurn, Idle, Saves
  <2> QED BY <1>1, <1>3, <2>1 DEF LoopTurn, stored
<1>4. CASE ServeTicks \/ Finish \/ Start \/ Stop \/ Crash
      BY <1>1, <1>4, IdleSpent DEF ServeTicks, Finish, Start, Stop, Crash, stored
<1>5. CASE ReadDue \/ Confirm
      BY <1>1, <1>5, BatchSpent DEF ReadDue, Confirm, Deferred, stored
<1>6. ASSUME NEW d \in Days, PublishDay(d)
      PROVE  BudgetInv'
  <2>1. \A c \in Summaries : ~Saves(job', c)
        BY <1>6 DEF PublishDay, TInv, TypeOK, Saves
  <2> QED BY <1>1, <1>6, <2>1 DEF PublishDay, stored
<1>7. ASSUME NEW c \in Commands, Accept(c)
      PROVE  BudgetInv'
  <2>1. Batch(job.batch \ {c}) \/ job' = [job EXCEPT !.pc = "confirm", !.at = c]
        BY <1>7 DEF Accept
  <2>2. \A b \in Summaries : ~Saves(job', b)
        BY <2>1, BatchSpent DEF TInv, TypeOK, Saves
  <2> QED BY <1>1, <1>7, <2>2 DEF Accept
<1>8. ASSUME NEW c \in Commands, AcceptFails(c)
      PROVE  BudgetInv'
      BY <1>1, <1>8, BatchSpent DEF AcceptFails, stored
<1>9. CASE Prepare \/ ReviewRuns
      BY <1>1, <1>9, GotoSpent DEF Prepare, ReviewRuns, Positions
<1>10. CASE PrepareDuplicate
       BY <1>1, <1>10, ReturnsSpent DEF PrepareDuplicate, stored
<1>11. CASE ReviewFaults
       BY <1>1, <1>11, RaisesSpent DEF ReviewFaults, stored
<1>12. ASSUME NEW pc, NEW s, CloseReview(pc, s)
       PROVE  BudgetInv'
       BY <1>1, <1>12, ReturnsSpent DEF CloseReview
<1>13. CASE Pick
  <2>1. \A c \in Summaries : ~Saves(job', c)
        BY <1>13 DEF Pick, Goto, TInv, TypeOK, Saves
  <2> QED BY <1>1, <1>13, <2>1 DEF Pick, stored
<1>14. CASE Claim
       BY <1>14, ClaimPays
<1>15. CASE RunStarts
  <2>1. \A c \in Summaries : Saves(job', c) => Saves(job, c)
        BY <1>15 DEF RunStarts, Goto, TInv, TypeOK, Saves
  <2> QED BY <1>15, <2>1, BudgetFrame DEF RunStarts
<1>16. CASE NothingRuns \/ RunRaises
       BY <1>1, <1>16, FinishesSpent DEF NothingRuns, RunRaises, stored
<1>17. CASE Notify
       BY <1>17, NotifySpends
<1>18. ASSUME NEW s, RunEnds(s)
       PROVE  BudgetInv'
       BY <1>1, <1>18, FinishesSpent DEF RunEnds
<1>19. CASE ReportRaises
       BY <1>1, <1>19, FinishesSpent, BatchSpent DEF ReportRaises, Deferred, stored
<1>20. CASE Serve
       BY <1>20, <1>3, <1>4, <1>5, <1>6, <1>7, <1>8, <1>9, <1>10, <1>11, <1>12, <1>13,
          <1>14, <1>15, <1>16, <1>17, <1>18, <1>19 DEF Serve
<1>21. ASSUME NEW c \in Commands, Enqueue(c)
       PROVE  BudgetInv'
       BY <1>2, <1>21 DEF Enqueue
<1>22. ASSUME NEW d \in Days, DeadlinePasses(d)
       PROVE  BudgetInv'
       BY <1>2, <1>22 DEF DeadlinePasses
<1>23. CASE TimePasses \/ Quiesce \/ CheckpointTicks \/ UNCHANGED vars
       BY <1>2, <1>23 DEF TimePasses, Quiesce, CheckpointTicks, vars, stored
<1> QED BY <1>4, <1>20, <1>21, <1>22, <1>23 DEF Next

(* However often a process dies and whatever is retried, every             *)
(* notification of a market summary is paid for by an attempt of its       *)
(* command or of a task.retry of it (QuantRuntimeService.process_one).     *)
THEOREM NotificationsArePaid == Spec => []NotifyBudget
<1>1. Init => TInv /\ BudgetInv
      BY TypeInit, BudgetInit
<1>2. TInv /\ BudgetInv /\ [Next]_vars => (TInv /\ BudgetInv)'
      BY TypeStep, BudgetStep
<1>3. TInv /\ BudgetInv => NotifyBudget
  <2> SUFFICES ASSUME TInv, BudgetInv, NEW c \in Summaries
               PROVE  notified[c] <= Total(attempt, Payers(c))
      BY DEF NotifyBudget, Total, Payers
  <2>1. Total(attempt, Payers(c)) \in Int /\ notified[c] \in Nat
        BY PaidTyped DEF TInv, TypeOK
  <2> QED BY <2>1 DEF BudgetInv
<1> QED BY <1>1, <1>2, <1>3, PTL DEF Spec

-----------------------------------------------------------------------------
(* A sum is monotone in its summands ... *)
LEMMA TotalLess ==
    ASSUME NEW S, IsFiniteSet(S), NEW g, NEW h, \A x \in S : g[x] \in Int /\ h[x] \in Int /\ g[x] <= h[x]
    PROVE  Total(g, S) <= Total(h, S)
<1> DEFINE T == {s \in SUBSET S : ~(Total(g, s) <= Total(h, s))}
<1>1. SUFFICES ASSUME T # {} PROVE FALSE
      OBVIOUS
<1>2. PICK s \in T : \A u \in SUBSET s : u # s => u \notin T
  <2> HIDE DEF T
  <2>1. T \in SUBSET SUBSET S
        BY DEF T
  <2> QED BY <1>1, <2>1, SmallestSet
<1>3. s # {} /\ IsFiniteSet(s) /\ s \in SUBSET S
  <2>1. Total(g, {}) <= Total(h, {})
        BY TotalEmpty
  <2> QED BY <1>2, <2>1, FS_Subset
<1>4. First(s) \in s /\ Rest(s) \in SUBSET s /\ Rest(s) # s
      BY <1>3, FirstIsIn DEF Rest
<1>5. Total(g, Rest(s)) <= Total(h, Rest(s))
      BY <1>2, <1>3, <1>4
<1>6. /\ Total(g, s) = g[First(s)] + Total(g, Rest(s))
      /\ Total(h, s) = h[First(s)] + Total(h, Rest(s))
      BY <1>3, TotalFirst
<1>7. Total(g, Rest(s)) \in Int /\ Total(h, Rest(s)) \in Int
  <2>1. IsFiniteSet(Rest(s)) /\ (\A x \in Rest(s) : g[x] \in Int) /\ (\A x \in Rest(s) : h[x] \in Int)
        BY <1>3, <1>4, FS_Subset
  <2> QED BY <2>1, TotalType
<1>8. g[First(s)] \in Int /\ h[First(s)] \in Int /\ g[First(s)] <= h[First(s)]
      BY <1>3, <1>4
<1> HIDE DEF T
<1>9. Total(g, s) <= Total(h, s)
      BY <1>5, <1>6, <1>7, <1>8
<1> QED BY <1>2, <1>9 DEF T

(* ... and grows with one of them. *)
LEMMA TotalMore ==
    ASSUME NEW S, IsFiniteSet(S), NEW g, NEW h, \A x \in S : g[x] \in Int /\ h[x] \in Int /\ g[x] <= h[x],
           NEW d \in Int, NEW x \in S, h[x] >= g[x] + d
    PROVE  Total(h, S) >= Total(g, S) + d
<1>1. Total(g, S) = Total(g, S \ {x}) + g[x] /\ Total(h, S) = Total(h, S \ {x}) + h[x]
      BY TotalAdd
<1>2. IsFiniteSet(S \ {x})
      BY FS_Subset
<1>3. Total(g, S \ {x}) <= Total(h, S \ {x})
      BY <1>2, TotalLess
<1>4. Total(g, S \ {x}) \in Int /\ Total(h, S \ {x}) \in Int /\ g[x] \in Int /\ h[x] \in Int
  <2>1. (\A y \in S \ {x} : g[y] \in Int) /\ (\A y \in S \ {x} : h[y] \in Int)
        OBVIOUS
  <2> QED BY <1>2, <2>1, TotalType
<1> QED BY <1>1, <1>3, <1>4

(* Part of a sum of natural numbers. *)
LEMMA TotalPart ==
    ASSUME NEW S, IsFiniteSet(S), NEW g, \A x \in S : g[x] \in Nat, NEW U \in SUBSET S
    PROVE  Total(g, U) <= Total(g, S)
<1> DEFINE T == {s \in SUBSET S : ~(Total(g, s \cap U) <= Total(g, s))}
<1>1. S \notin T => Total(g, U) <= Total(g, S)
  <2>1. S \cap U = U
        OBVIOUS
  <2> QED BY <2>1
<1>2. SUFFICES ASSUME T # {} PROVE FALSE
      BY <1>1
<1>3. PICK s \in T : \A u \in SUBSET s : u # s => u \notin T
  <2> HIDE DEF T
  <2>1. T \in SUBSET SUBSET S
        BY DEF T
  <2> QED BY <1>2, <2>1, SmallestSet
<1>4. s # {} /\ IsFiniteSet(s) /\ s \in SUBSET S
  <2>1. {} \cap U = {} /\ Total(g, {}) <= Total(g, {})
        BY TotalEmpty
  <2>2. s # {}
        BY <1>3, <2>1
  <2> QED BY <2>2, FS_Subset
<1> DEFINE x == First(s)
           low == s \ {x}
<1>5. x \in s /\ low \in SUBSET s /\ low # s
      BY <1>4, FirstIsIn
<1>6. Total(g, low \cap U) <= Total(g, low)
      BY <1>3, <1>4, <1>5
<1>7. Total(g, s) = g[x] + Total(g, low)
      BY <1>4, TotalFirst DEF Rest
<1>8. \A u \in SUBSET S : Total(g, u) \in Int
  <2>1. ASSUME NEW u \in SUBSET S PROVE Total(g, u) \in Int
    <3>1. IsFiniteSet(u) /\ \A z \in u : g[z] \in Int
          BY FS_Subset
    <3> QED BY <3>1, TotalType
  <2> QED BY <2>1
<1>9. g[x] \in Nat /\ low \in SUBSET S /\ low \cap U \in SUBSET S /\ s \cap U \in SUBSET S
      BY <1>4, <1>5
<1>10. Total(g, low) \in Int /\ Total(g, low \cap U) \in Int
      BY <1>8, <1>9
<1>11. Total(g, s \cap U) = Total(g, low \cap U) + (IF x \in U THEN g[x] ELSE 0)
  <2>1. CASE x \in U
    <3>1. IsFiniteSet(s \cap U) /\ (\A y \in s \cap U : g[y] \in Int) /\ x \in s \cap U
          BY <1>4, <1>5, <2>1, FS_Subset
    <3>2. (s \cap U) \ {x} = low \cap U
          OBVIOUS
    <3> HIDE DEF low, x
    <3>3. Total(g, s \cap U) = Total(g, (s \cap U) \ {x}) + g[x]
          BY <3>1, TotalAdd
    <3> QED BY <2>1, <3>2, <3>3
  <2>2. CASE x \notin U
    <3>1. s \cap U = low \cap U
          BY <2>2
    <3>2. Total(g, s \cap U) = Total(g, low \cap U)
          BY <3>1
    <3> HIDE DEF low, x
    <3> QED BY <2>2, <3>2, <1>10
  <2> QED BY <2>1, <2>2
<1> HIDE DEF T, low, x
<1>12. Total(g, s \cap U) <= Total(g, s)
      BY <1>6, <1>7, <1>9, <1>10, <1>11
<1> QED BY <1>3, <1>12 DEF T

(* The extremes of a finite set of integers. *)
LEMMA MaxIs ==
    ASSUME NEW S \in SUBSET Int, IsFiniteSet(S), S # {}
    PROVE  Max(S) \in S /\ \A y \in S : Max(S) >= y
<1> DEFINE above(x) == {y \in S : y > x}
           T == {above(x) : x \in S}
<1>1. PICK low \in T : \A s \in SUBSET low : s # low => s \notin T
  <2>1. T \in SUBSET SUBSET S /\ T # {}
        OBVIOUS
  <2> HIDE DEF T
  <2> QED BY <2>1, SmallestSet
<1>2. PICK x \in S : low = above(x)
      BY <1>1
<1>3. ASSUME NEW y \in S, y > x PROVE FALSE
  <2>1. above(y) \in SUBSET above(x)
    <3>1. \A z \in S : z > y => z > x
      <4>1. x \in Int /\ y \in Int /\ \A z \in S : z \in Int
            OBVIOUS
      <4> HIDE DEF T, above
      <4> QED BY <1>3, <4>1
    <3> QED BY <3>1
  <2>2. y \in above(x) /\ y \notin above(y)
        BY <1>3
  <2>3. above(y) \in T
        OBVIOUS
  <2> HIDE DEF T, above
  <2> QED BY <1>1, <1>2, <2>1, <2>2, <2>3
<1>4. \A y \in S : x >= y
      BY <1>3
<1> QED BY <1>4 DEF Max

LEMMA MinIs ==
    ASSUME NEW S \in SUBSET Int, IsFiniteSet(S), S # {}
    PROVE  Min(S) \in S /\ \A y \in S : Min(S) <= y
<1> DEFINE below(x) == {y \in S : y < x}
           T == {below(x) : x \in S}
<1>1. PICK low \in T : \A s \in SUBSET low : s # low => s \notin T
  <2>1. T \in SUBSET SUBSET S /\ T # {}
        OBVIOUS
  <2> HIDE DEF T
  <2> QED BY <2>1, SmallestSet
<1>2. PICK x \in S : low = below(x)
      BY <1>1
<1>3. ASSUME NEW y \in S, y < x PROVE FALSE
  <2>1. below(y) \in SUBSET below(x)
    <3>1. \A z \in S : z < y => z < x
      <4>1. x \in Int /\ y \in Int /\ \A z \in S : z \in Int
            OBVIOUS
      <4> HIDE DEF T, below
      <4> QED BY <1>3, <4>1
    <3> QED BY <3>1
  <2>2. y \in below(x) /\ y \notin below(y)
        BY <1>3
  <2>3. below(y) \in T
        OBVIOUS
  <2> HIDE DEF T, below
  <2> QED BY <1>1, <1>2, <2>1, <2>2, <2>3
<1>4. \A y \in S : x <= y
      BY <1>3
<1> QED BY <1>4 DEF Min

-----------------------------------------------------------------------------
(* A run in the replay sandbox (SandboxRun): what a branch has slept, by   *)
(* the place it has reached, lies between what the stamps span and what    *)
(* the clock shows.                                                        *)

Opening == {"starting", "succeeding", "failing", "timing_out"}
Places == Opening \cup EndedBranch \cup {"next", "dispatch", "asleep", "woken"}
BranchRow == [pc : Places, at : Nat \ {0}, wake : Nat]

Sofar(b, k) == Total(plan[b], 1 .. (k - 1))

SandboxTypes ==
    /\ plan \in Seq(Seq(Nat)) /\ fault \in {"NONE", "SKILL_FAILURE", "TIMEOUT"}
    /\ virtual \in Nat
    /\ branch \in [DOMAIN plan -> BranchRow]
    /\ stamps \in SUBSET (0 .. virtual)

(* What a place says of the node, the clock and the sleep of a branch.     *)
PlacedBranch(b) ==
    /\ branch[b].pc \notin {"next", "done"} => branch[b].at \in DOMAIN plan[b]
    /\ branch[b].at <= Len(plan[b]) + 1
    /\ branch[b].pc = "done" => branch[b].at = Len(plan[b]) + 1
    /\ b \in writer => branch[b].pc \in Opening
    /\ branch[b].pc = "asleep" => branch[b].wake >= virtual
    /\ branch[b].pc = "woken" => virtual >= branch[b].wake
    /\ branch[b].pc \in {"timing_out", "timed_out"} => virtual >= SandboxDeadline

(* The stamps span the sleeps a branch has behind it, and with the clock   *)
(* or the end of its sleep the one it is in.                               *)
Spread(n) == n = 0 \/ \E s, t \in stamps : t - s >= n
Since(now, n) == \E s \in stamps : now - s >= n

MeasuredBranch(b) ==
    LET upto == Sofar(b, branch[b].at)
        through == Sofar(b, branch[b].at + 1)
    IN  /\ branch[b].pc \in {"next", "starting", "dispatch", "done"} => Spread(upto)
        /\ branch[b].pc = "dispatch" \/ (branch[b].pc = "starting" /\ b \in writer) => stamps # {}
        /\ branch[b].pc = "asleep" => Since(branch[b].wake, through)
        /\ branch[b].pc \in {"woken", "succeeding"} => Since(virtual, through)
        /\ branch[b].pc = "succeeding" /\ b \in writer => Spread(through)

(* What a branch has slept, or all that it could when it is out of time or *)
(* has ended.                                                              *)
Spent(b) ==
    IF branch[b].pc = "asleep" THEN Sofar(b, branch[b].at + 1) - (branch[b].wake - virtual)
    ELSE IF branch[b].pc \in {"woken", "succeeding"} THEN Sofar(b, branch[b].at + 1)
    ELSE IF branch[b].pc \in {"next", "starting", "dispatch"} THEN Sofar(b, branch[b].at)
    ELSE Ticks(b)

(* The clock advances only while a branch sleeps.                          *)
Honest == fault = "TIMEOUT" => faulted = {}
AllSpent == Total([b \in DOMAIN plan |-> Spent(b)], DOMAIN plan)
ClockInv == Honest => virtual <= AllSpent

(* A branch that the fault has hit, and where the first skill is.          *)
Doomed(b) ==
    \/ branch[b].pc \in {"failing", "failed", "timing_out", "timed_out"}
    \/ branch[b].pc \in {"asleep", "woken"} /\ branch[b].wake >= SandboxDeadline

Clear(b) ==
    /\ \A i \in 1 .. (branch[b].at - 1) : plan[b][i] > 0
    /\ branch[b].pc \in {"asleep", "woken", "succeeding"} => plan[b][branch[b].at] > 0

Hit(b, k) ==
    /\ faulted = {<<b, k>>}
    /\ fault # "NONE" => Doomed(b)
    /\ Len(plan) = 1 => \A i \in 1 .. (k - 1) : plan[1][i] > 0

FaultInv ==
    \/ faulted = {} /\ \A b \in DOMAIN plan : Clear(b)
    \/ \E b \in DOMAIN plan : \E k \in DOMAIN plan[b] : Hit(b, k)

SandboxInv ==
    /\ SandboxTypes
    /\ \A b \in DOMAIN plan : PlacedBranch(b) /\ MeasuredBranch(b)
    /\ ClockInv /\ FaultInv

LEMMA TicksAre ==
    ASSUME NEW b PROVE Ticks(b) = Total(plan[b], DOMAIN plan[b])
BY DEF Ticks, Total, FoldFunctionOnSet, MapThenSumSet

LEMMA AllTicksAre == AllTicks = Total([b \in DOMAIN plan |-> Ticks(b)], DOMAIN plan)
BY DEF AllTicks, Total, FoldFunctionOnSet, MapThenSumSet

LEMMA PlanIs ==
    ASSUME SandboxTypes
    PROVE  /\ DOMAIN plan = 1 .. Len(plan) /\ Len(plan) \in Nat /\ IsFiniteSet(DOMAIN plan)
           /\ \A b \in DOMAIN plan : /\ plan[b] \in Seq(Nat) /\ Len(plan[b]) \in Nat
                                     /\ DOMAIN plan[b] = 1 .. Len(plan[b]) /\ IsFiniteSet(DOMAIN plan[b])
                                     /\ \A i \in DOMAIN plan[b] : plan[b][i] \in Nat
<1>1. plan \in Seq(Seq(Nat))
      BY DEF SandboxTypes
<1>2. DOMAIN plan = 1 .. Len(plan) /\ Len(plan) \in Nat
      BY <1>1
<1>3. \A b \in DOMAIN plan : plan[b] \in Seq(Nat)
      BY <1>1
<1>4. \A b \in DOMAIN plan : /\ DOMAIN plan[b] = 1 .. Len(plan[b]) /\ Len(plan[b]) \in Nat
                             /\ \A i \in DOMAIN plan[b] : plan[b][i] \in Nat
      BY <1>3
<1> QED BY <1>2, <1>3, <1>4, FS_Interval

LEMMA SofarIs ==
    ASSUME SandboxTypes, NEW b \in DOMAIN plan, NEW k \in Nat \ {0}, k <= Len(plan[b]) + 1
    PROVE  /\ Sofar(b, k) \in Nat /\ Ticks(b) \in Nat /\ Sofar(b, k) <= Ticks(b)
           /\ k = 1 => Sofar(b, k) = 0
           /\ k = Len(plan[b]) + 1 => Sofar(b, k) = Ticks(b)
           /\ k \in DOMAIN plan[b] => Sofar(b, k + 1) = Sofar(b, k) + plan[b][k]
<1> DEFINE p == plan[b]
           S == DOMAIN plan[b]
           U == 1 .. (k - 1)
<1>1. /\ S = 1 .. Len(p) /\ Len(p) \in Nat /\ IsFiniteSet(S) /\ \A i \in S : p[i] \in Nat
      BY PlanIs
<1>2. U \in SUBSET S /\ IsFiniteSet(U)
  <2>1. U \in SUBSET S
        BY <1>1
  <2> QED BY <2>1, <1>1, FS_Subset
<1>3. Sofar(b, k) = Total(p, U) /\ Ticks(b) = Total(p, S)
      BY TicksAre DEF Sofar
<1>4. Sofar(b, k + 1) = Total(p, 1 .. k)
  <2>1. (k + 1) - 1 = k
        OBVIOUS
  <2> QED BY <2>1 DEF Sofar
<1>5. k = 1 => U = {}
      OBVIOUS
<1>6. k = Len(p) + 1 => U = S
      BY <1>1
<1>7. k \in S => 1 .. k \in SUBSET S /\ (1 .. k) \ {k} = U /\ IsFiniteSet(1 .. k) /\ k \in 1 .. k
  <2>1. k \in S => 1 .. k \in SUBSET S
        BY <1>1
  <2>2. (1 .. k) \ {k} = U /\ k \in 1 .. k
        OBVIOUS
  <2> QED BY <2>1, <2>2, <1>1, FS_Subset
<1> HIDE DEF p, S, U
<1>8. Total(p, U) <= Total(p, S) /\ Total(p, {}) <= Total(p, U)
  <2>1. {} \in SUBSET U /\ \A i \in U : p[i] \in Nat
        BY <1>1, <1>2
  <2> QED BY <2>1, <1>1, <1>2, TotalPart
<1>9. Total(p, U) \in Int /\ Total(p, S) \in Int
  <2>1. (\A i \in U : p[i] \in Int) /\ (\A i \in S : p[i] \in Int)
        BY <1>1, <1>2
  <2> QED BY <2>1, <1>1, <1>2, TotalType
<1>10. k \in S => Total(p, 1 .. k) = Total(p, U) + p[k]
  <2> SUFFICES ASSUME k \in S PROVE Total(p, 1 .. k) = Total(p, U) + p[k]
      OBVIOUS
  <2>1. \A i \in 1 .. k : p[i] \in Int
        BY <1>1, <1>7
  <2>2. Total(p, 1 .. k) = Total(p, (1 .. k) \ {k}) + p[k]
        BY <2>1, <1>7, TotalAdd
  <2> QED BY <2>2, <1>7
<1>11. Sofar(b, k) \in Nat /\ Ticks(b) \in Nat /\ Sofar(b, k) <= Ticks(b)
      BY <1>3, <1>8, <1>9, TotalEmpty
<1>12. k = 1 => Sofar(b, k) = 0
      BY <1>3, <1>5, TotalEmpty
<1>13. k = Len(p) + 1 => Sofar(b, k) = Ticks(b)
      BY <1>3, <1>6
<1>14. k \in S => Sofar(b, k + 1) = Sofar(b, k) + p[k]
      BY <1>3, <1>4, <1>10
<1> QED BY <1>11, <1>12, <1>13, <1>14 DEF p, S

LEMMA SpentIs ==
    ASSUME SandboxTypes, NEW b \in DOMAIN plan, PlacedBranch(b)
    PROVE  /\ Spent(b) \in Int /\ Spent(b) <= Ticks(b) /\ Ticks(b) \in Nat
           /\ branch[b] \in BranchRow /\ virtual \in Nat
<1>1. branch[b] \in BranchRow /\ virtual \in Nat
      BY DEF SandboxTypes
<1> DEFINE k == branch[b].at
<1>2. k \in Nat \ {0} /\ k <= Len(plan[b]) + 1 /\ branch[b].wake \in Nat
      BY <1>1 DEF PlacedBranch, BranchRow
<1>3. Sofar(b, k) \in Nat /\ Ticks(b) \in Nat /\ Sofar(b, k) <= Ticks(b)
  <2> HIDE DEF k
  <2> QED BY <1>2, SofarIs
<1>4. branch[b].pc \in {"asleep", "woken", "succeeding"} =>
        Sofar(b, k + 1) \in Nat /\ Sofar(b, k + 1) <= Ticks(b)
  <2>1. branch[b].pc \in {"asleep", "woken", "succeeding"} => k \in DOMAIN plan[b]
        BY DEF PlacedBranch
  <2>2. k \in DOMAIN plan[b] => k + 1 \in Nat \ {0} /\ k + 1 <= Len(plan[b]) + 1
        BY <1>2, PlanIs
  <2> HIDE DEF k
  <2>3. k \in DOMAIN plan[b] => Sofar(b, k + 1) \in Nat /\ Sofar(b, k + 1) <= Ticks(b)
        BY <2>2, SofarIs
  <2> QED BY <2>1, <2>3
<1>5. branch[b].pc = "asleep" => branch[b].wake >= virtual
      BY DEF PlacedBranch
<1> HIDE DEF k
<1>6. Spent(b) \in Int /\ Spent(b) <= Ticks(b)
      BY <1>1, <1>2, <1>3, <1>4, <1>5 DEF Spent, k
<1> QED BY <1>1, <1>3, <1>6

LEMMA SandboxInductiveInit == SandboxInit => SandboxInv
<1> SUFFICES ASSUME SandboxInit PROVE SandboxInv
    OBVIOUS
<1>1. SandboxTypes
  <2>1. plan \in Seq(Seq(Nat)) /\ fault \in {"NONE", "SKILL_FAILURE", "TIMEOUT"}
        BY SandboxRunAssumption DEF SandboxInit
  <2>2. branch \in [DOMAIN plan -> BranchRow]
        BY DEF SandboxInit, BranchesOf, BranchRow, Places
  <2> QED BY <2>1, <2>2 DEF SandboxInit, SandboxTypes
<1>2. ASSUME NEW b \in DOMAIN plan
      PROVE  /\ branch[b] = [pc |-> "next", at |-> 1, wake |-> 0]
             /\ Sofar(b, 1) = 0 /\ Len(plan[b]) \in Nat
  <2>1. 1 \in Nat \ {0} /\ 1 <= Len(plan[b]) + 1 /\ Len(plan[b]) \in Nat
        BY <1>1, PlanIs
  <2>2. Sofar(b, 1) = 0
        BY <1>1, <2>1, SofarIs
  <2> QED BY <2>1, <2>2 DEF SandboxInit, BranchesOf
<1>3. ASSUME NEW b \in DOMAIN plan PROVE PlacedBranch(b) /\ MeasuredBranch(b)
  <2>1. branch[b].pc = "next" /\ branch[b].at = 1 /\ b \notin writer
        BY <1>2 DEF SandboxInit
  <2>2. Spread(Sofar(b, branch[b].at))
        BY <1>2, <2>1 DEF Spread
  <2> QED BY <1>2, <2>1, <2>2 DEF PlacedBranch, MeasuredBranch
<1>4. ClockInv
  <2> DEFINE spent == [b \in DOMAIN plan |-> Spent(b)]
  <2>1. \A b \in DOMAIN plan : spent[b] = 0
        BY <1>2 DEF Spent
  <2> HIDE DEF spent
  <2>2. Total(spent, DOMAIN plan) = 0
        BY <1>1, <2>1, PlanIs, TotalZero
  <2> QED BY <2>2 DEF ClockInv, AllSpent, spent, SandboxInit
<1>5. FaultInv
  <2>1. \A b \in DOMAIN plan : Clear(b)
        BY <1>2 DEF Clear
  <2> QED BY <2>1 DEF FaultInv, SandboxInit
<1> QED BY <1>1, <1>3, <1>4, <1>5 DEF SandboxInv

AllPlaced == \A b \in DOMAIN plan : PlacedBranch(b)
SpentAreNumbers == \A b \in DOMAIN plan : Spent(b) \in Int

LEMMA SpentTyped == SandboxTypes /\ AllPlaced => SpentAreNumbers
BY SpentIs DEF AllPlaced, SpentAreNumbers

LEMMA SpentTypedNext == SandboxTypes' /\ AllPlaced' => SpentAreNumbers'
BY SpentTyped, PTL

LEMMA SpentStays ==
    ASSUME NEW b, plan' = plan
    PROVE  /\ Ticks(b)' = Ticks(b) /\ \A k : Sofar(b, k)' = Sofar(b, k)
           /\ branch'[b] = branch[b] /\ virtual' = virtual => Spent(b)' = Spent(b)
<1>1. Ticks(b)' = Ticks(b)
      BY DEF Ticks, FoldFunctionOnSet, MapThenFoldSet
<1>2. \A k : Sofar(b, k)' = Sofar(b, k)
      BY DEF Sofar
<1> QED BY <1>1, <1>2 DEF Spent

(* A branch that a step does not move keeps its place and its measure.     *)
LEMMA BranchStays ==
    ASSUME NEW b, PlacedBranch(b), MeasuredBranch(b), branch'[b] = branch[b], plan' = plan,
           stamps \subseteq stamps', virtual' = virtual, b \in writer' => b \in writer
    PROVE  PlacedBranch(b)' /\ MeasuredBranch(b)'
<1>1. PlacedBranch(b)'
      BY DEF PlacedBranch
<1>2. \A n : (Spread(n) => Spread(n)') /\ \A now : Since(now, n) => Since(now, n)'
      BY DEF Spread, Since
<1>3. \A k : Sofar(b, k)' = Sofar(b, k)
      BY DEF Sofar
<1>4. MeasuredBranch(b)'
      BY <1>2, <1>3 DEF MeasuredBranch
<1> QED BY <1>1, <1>4

(* While the clock stands still no branch loses what it has slept.         *)
LEMMA ClockStands ==
    ASSUME SandboxInv, SandboxTypes', \A b \in DOMAIN plan : PlacedBranch(b)',
           virtual' = virtual, plan' = plan,
           Honest' => Honest /\ \A b \in DOMAIN plan : Spent(b) <= Spent(b)'
    PROVE  ClockInv'
<1> SUFFICES ASSUME Honest' PROVE virtual <= AllSpent'
    BY DEF ClockInv
<1> DEFINE g == [b \in DOMAIN plan |-> Spent(b)]
           h == [b \in DOMAIN plan |-> Spent(b)']
<1>1. virtual <= Total(g, DOMAIN plan)
      BY DEF SandboxInv, ClockInv, AllSpent
<1>2. IsFiniteSet(DOMAIN plan)
      BY PlanIs DEF SandboxInv
<1>3. \A b \in DOMAIN plan : g[b] \in Int /\ h[b] \in Int /\ g[b] <= h[b]
  <2> SUFFICES ASSUME NEW b \in DOMAIN plan PROVE Spent(b) \in Int /\ Spent(b)' \in Int /\ Spent(b) <= Spent(b)'
      OBVIOUS
  <2>1. Spent(b) \in Int
        BY SpentIs DEF SandboxInv
  <2>2. Spent(b)' \in Int
        BY SpentTypedNext DEF AllPlaced, SpentAreNumbers
  <2> QED BY <2>1, <2>2
<1>4. AllSpent' = Total(h, DOMAIN plan)
      BY DEF AllSpent
<1> HIDE DEF g, h
<1>5. Total(g, DOMAIN plan) <= Total(h, DOMAIN plan)
      BY <1>2, <1>3, TotalLess
<1>6. Total(g, DOMAIN plan) \in Int /\ Total(h, DOMAIN plan) \in Int
      BY <1>2, <1>3, TotalType
<1>7. virtual \in Nat
      BY DEF SandboxInv, SandboxTypes
<1> QED BY <1>1, <1>4, <1>5, <1>6, <1>7

(* Nor does the fault let go of a branch. *)
LEMMA FaultStays ==
    ASSUME FaultInv, plan' = plan, fault' = fault, faulted' = faulted,
           \A b \in DOMAIN plan : (Clear(b) => Clear(b)') /\ (Doomed(b) => Doomed(b)')
    PROVE  FaultInv'
<1>1. CASE faulted = {} /\ \A b \in DOMAIN plan : Clear(b)
      BY <1>1 DEF FaultInv
<1>2. ASSUME NEW b \in DOMAIN plan, NEW k \in DOMAIN plan[b], Hit(b, k)
      PROVE  FaultInv'
  <2>1. Hit(b, k)'
        BY <1>2 DEF Hit
  <2> QED BY <2>1 DEF FaultInv
<1> QED BY <1>1, <1>2 DEF FaultInv

(* A step that moves no branch. *)
LEMMA NoBranchMoves ==
    ASSUME SandboxInv, UNCHANGED <<plan, fault, virtual, branch, writer, stamps, faulted>>
    PROVE  SandboxInv'
<1>1. SandboxTypes'
      BY DEF SandboxInv, SandboxTypes
<1>2. \A b \in DOMAIN plan : PlacedBranch(b)' /\ MeasuredBranch(b)'
      BY BranchStays DEF SandboxInv
<1>3. \A b : Spent(b)' = Spent(b)
      BY SpentStays
<1>4. Honest' = Honest
      BY DEF Honest
<1>5. AllSpent' = AllSpent
      BY <1>3 DEF AllSpent
<1>6. FaultInv'
      BY FaultStays DEF SandboxInv, Clear, Doomed
<1> QED BY <1>1, <1>2, <1>4, <1>5, <1>6 DEF SandboxInv, ClockInv

(* What a step of one branch has to show: that branch is where it should   *)
(* be, has lost nothing of its sleep, and keeps to the fault.              *)
LEMMA OneMoves ==
    ASSUME SandboxInv, NEW b \in DOMAIN plan, NEW row \in BranchRow, branch' = [branch EXCEPT ![b] = row],
           UNCHANGED <<plan, fault, virtual>>, stamps' \in SUBSET (0 .. virtual), stamps \subseteq stamps',
           \A c \in DOMAIN plan : c # b /\ c \in writer' => c \in writer,
           PlacedBranch(b)', MeasuredBranch(b)', Honest' => Honest /\ Spent(b) <= Spent(b)',
           FaultInv'
    PROVE  SandboxInv'
<1>1. SandboxTypes'
      BY DEF SandboxInv, SandboxTypes
<1>2. \A c \in DOMAIN plan : c # b => branch'[c] = branch[c]
      BY DEF SandboxInv, SandboxTypes
<1>3. \A c \in DOMAIN plan : c # b => PlacedBranch(c)' /\ MeasuredBranch(c)'
      BY <1>2, BranchStays DEF SandboxInv
<1>4. \A c \in DOMAIN plan : c # b => Spent(c)' = Spent(c) /\ Spent(c) \in Int
      BY <1>2, SpentIs, SpentStays DEF SandboxInv
<1>5. ClockInv'
  <2>1. Honest' => \A c \in DOMAIN plan : Spent(c) <= Spent(c)'
    <3> SUFFICES ASSUME Honest', NEW c \in DOMAIN plan PROVE Spent(c) <= Spent(c)'
        OBVIOUS
    <3>1. CASE c = b
          BY <3>1
    <3>2. CASE c # b
          BY <1>4, <3>2
    <3> QED BY <3>1, <3>2
  <2>2. \A c \in DOMAIN plan : PlacedBranch(c)'
        BY <1>3
  <2> QED BY <1>1, <2>1, <2>2, ClockStands
<1> QED BY <1>1, <1>3, <1>5 DEF SandboxInv

LEMMA BranchIs ==
    ASSUME SandboxInv, NEW b \in DOMAIN plan
    PROVE  /\ branch[b] \in BranchRow /\ PlacedBranch(b) /\ MeasuredBranch(b) /\ virtual \in Nat
           /\ branch[b].at \in Nat \ {0} /\ branch[b].at <= Len(plan[b]) + 1 /\ branch[b].wake \in Nat
           /\ Len(plan[b]) \in Nat /\ DOMAIN plan[b] = 1 .. Len(plan[b])
           /\ Sofar(b, branch[b].at) \in Nat /\ Ticks(b) \in Nat /\ Sofar(b, branch[b].at) <= Ticks(b)
           /\ branch[b].at = Len(plan[b]) + 1 => Sofar(b, branch[b].at) = Ticks(b)
           /\ branch[b].at \in DOMAIN plan[b] =>
                 /\ plan[b][branch[b].at] \in Nat
                 /\ Sofar(b, branch[b].at + 1) = Sofar(b, branch[b].at) + plan[b][branch[b].at]
                 /\ Sofar(b, branch[b].at + 1) <= Ticks(b)
<1> DEFINE k == branch[b].at
<1>1. SandboxTypes /\ PlacedBranch(b) /\ MeasuredBranch(b)
      BY DEF SandboxInv
<1>2. branch[b] \in BranchRow /\ virtual \in Nat
      BY <1>1 DEF SandboxTypes
<1>3. k \in Nat \ {0} /\ k <= Len(plan[b]) + 1 /\ branch[b].wake \in Nat
      BY <1>1, <1>2 DEF PlacedBranch, BranchRow
<1>4. /\ Len(plan[b]) \in Nat /\ DOMAIN plan[b] = 1 .. Len(plan[b])
      /\ \A i \in DOMAIN plan[b] : plan[b][i] \in Nat
      BY <1>1, PlanIs
<1> HIDE DEF k
<1>5. /\ Sofar(b, k) \in Nat /\ Ticks(b) \in Nat /\ Sofar(b, k) <= Ticks(b)
      /\ k = Len(plan[b]) + 1 => Sofar(b, k) = Ticks(b)
      /\ k \in DOMAIN plan[b] => Sofar(b, k + 1) = Sofar(b, k) + plan[b][k]
      BY <1>1, <1>3, SofarIs
<1>6. k \in DOMAIN plan[b] => Sofar(b, k + 1) <= Ticks(b)
  <2>1. k \in DOMAIN plan[b] => k + 1 \in Nat \ {0} /\ k + 1 <= Len(plan[b]) + 1
        BY <1>3, <1>4
  <2> QED BY <1>1, <2>1, SofarIs
<1> QED BY <1>1, <1>2, <1>3, <1>4, <1>5, <1>6 DEF k

LEMMA GoesIs ==
    ASSUME SandboxTypes, NEW b \in DOMAIN plan, NEW pc \in Places, Goes(b, pc)
    PROVE  \E row \in BranchRow : /\ branch' = [branch EXCEPT ![b] = row] /\ branch'[b] = row
                                  /\ row.pc = pc /\ row.at = branch[b].at /\ row.wake = branch[b].wake
<1> DEFINE row == [branch[b] EXCEPT !.pc = pc]
<1>1. branch \in [DOMAIN plan -> BranchRow]
      BY DEF SandboxTypes
<1>2. row \in BranchRow /\ row.pc = pc /\ row.at = branch[b].at /\ row.wake = branch[b].wake
      BY <1>1 DEF BranchRow
<1>3. branch' = [branch EXCEPT ![b] = row]
      BY DEF Goes
<1> HIDE DEF row
<1>4. branch'[b] = row
      BY <1>1, <1>3
<1> QED BY <1>2, <1>3, <1>4

(* A step of one branch and the fault. *)
LEMMA FaultOne ==
    ASSUME SandboxInv, NEW b \in DOMAIN plan, NEW row, branch' = [branch EXCEPT ![b] = row],
           plan' = plan, fault' = fault, faulted' = faulted,
           Clear(b) => Clear(b)', Doomed(b) => Doomed(b)'
    PROVE  FaultInv'
<1>1. \A c \in DOMAIN plan : c # b => branch'[c] = branch[c]
      BY DEF SandboxInv, SandboxTypes
<1>2. \A c \in DOMAIN plan : c # b => Clear(c)' = Clear(c) /\ Doomed(c)' = Doomed(c)
      BY <1>1 DEF Clear, Doomed
<1> QED BY <1>2, FaultStays DEF SandboxInv

(* A branch that only changes its place: what that asks of it. *)
LEMMA PlaceChanges ==
    ASSUME SandboxInv, NEW b \in DOMAIN plan, NEW pc \in Places, Goes(b, pc),
           UNCHANGED <<plan, fault, virtual, writer, stamps, faulted>>, b \notin writer,
           pc \in {"starting", "dispatch", "succeeding"} => branch[b].pc \in {"next", "dispatch", "woken"},
           pc \notin {"asleep", "woken", "dispatch", "next"},
           pc # "done" => branch[b].at \in DOMAIN plan[b],
           pc = "done" => branch[b].at = Len(plan[b]) + 1 /\ branch[b].pc = "next",
           pc \in {"timing_out", "timed_out"} => Expired,
           pc = "starting" => branch[b].pc = "next",
           pc = "succeeding" =>
              /\ branch[b].pc \in {"dispatch", "woken"}
              /\ Since(virtual, Sofar(b, branch[b].at + 1))
              /\ branch[b].pc = "dispatch" => plan[b][branch[b].at] = 0
              /\ Clear(b) => plan[b][branch[b].at] > 0,
           Doomed(b) => pc \in {"failing", "failed", "timing_out", "timed_out"}
    PROVE  SandboxInv'
<1>0. SandboxTypes /\ branch[b].pc \in Places
      BY BranchIs DEF SandboxInv, BranchRow
<1>1. PICK row \in BranchRow : /\ branch' = [branch EXCEPT ![b] = row] /\ branch'[b] = row
                               /\ row.pc = pc /\ row.at = branch[b].at /\ row.wake = branch[b].wake
      BY <1>0, GoesIs
<1>2. PlacedBranch(b)'
      BY <1>1, BranchIs DEF PlacedBranch, Expired
<1>3. MeasuredBranch(b)'
  <2>1. pc \in {"starting", "done"} => Spread(Sofar(b, branch[b].at))
        BY BranchIs DEF MeasuredBranch
  <2>2. /\ pc \in {"starting", "done"} => Spread(Sofar(b, branch[b].at))'
        /\ pc = "succeeding" => Since(virtual, Sofar(b, branch[b].at + 1))'
        BY <2>1, <1>1, SpentStays DEF Spread, Since
  <2> QED BY <2>2, <1>1 DEF MeasuredBranch
<1>4. Spent(b) <= Spent(b)'
  <2>1. Spent(b) \in Int /\ Spent(b) <= Ticks(b)
        BY SpentIs, BranchIs DEF SandboxInv
  <2>2. /\ Ticks(b)' = Ticks(b) /\ Sofar(b, branch[b].at)' = Sofar(b, branch[b].at)
        /\ Sofar(b, branch[b].at + 1)' = Sofar(b, branch[b].at + 1)
        BY <1>1, SpentStays
  <2>3. CASE pc \notin {"starting", "succeeding"}
        BY <2>1, <2>2, <2>3, <1>1 DEF Spent
  <2>4. CASE pc = "starting"
        BY <2>1, <2>2, <2>4, <1>1 DEF Spent
  <2>5. CASE pc = "succeeding"
    <3>1. branch[b].at \in DOMAIN plan[b]
          BY <2>5
    <3>2. Spent(b)' = Sofar(b, branch[b].at + 1)
          BY <2>2, <2>5, <1>1 DEF Spent
    <3>3. Spent(b) <= Sofar(b, branch[b].at + 1)
          BY <2>5, <3>1, BranchIs DEF Spent
    <3> QED BY <3>2, <3>3
  <2> QED BY <2>3, <2>4, <2>5
<1>5. FaultInv'
  <2>1. Clear(b) => Clear(b)'
        BY <1>1 DEF Clear
  <2>2. Doomed(b) => Doomed(b)'
        BY <1>1 DEF Doomed
  <2> QED BY <1>1, <2>1, <2>2, FaultOne
<1>6. Honest' => Honest
      BY DEF Honest
<1>7. stamps' \in SUBSET (0 .. virtual)
      BY DEF SandboxInv, SandboxTypes
<1> QED BY <1>1, <1>2, <1>3, <1>4, <1>5, <1>6, <1>7, OneMoves

LEMMA EnterStep ==
    ASSUME SandboxInv, NEW b \in DOMAIN plan, EnterSandboxNode(b)
    PROVE  SandboxInv'
<1> DEFINE pc == IF branch[b].at > Len(plan[b]) THEN "done" ELSE IF Expired THEN "timed_out" ELSE "starting"
<1>1. branch[b].pc = "next" /\ Goes(b, pc) /\ UNCHANGED <<plan, fault, virtual, writer, stamps, faulted>>
      BY DEF EnterSandboxNode, Runs
<1>2. b \notin writer
      BY <1>1, BranchIs DEF PlacedBranch, Opening
<1>3. pc = "done" => branch[b].at = Len(plan[b]) + 1
      BY BranchIs
<1>4. pc # "done" => branch[b].at \in DOMAIN plan[b]
      BY BranchIs
<1>5. pc \in {"done", "timed_out", "starting"} /\ (pc = "timed_out" => Expired)
      OBVIOUS
<1>6. ~Doomed(b)
      BY <1>1 DEF Doomed
<1> HIDE DEF pc
<1> QED BY <1>1, <1>2, <1>3, <1>4, <1>5, <1>6, PlaceChanges DEF Places, Opening, EndedBranch

LEMMA OpenStep ==
    ASSUME SandboxInv, NEW b \in DOMAIN plan, OpenTransition(b)
    PROVE  SandboxInv'
<1>1. /\ branch[b].pc \in Opening /\ writer' = {b} /\ stamps' = stamps \cup {virtual} /\ branch' = branch
      /\ UNCHANGED <<plan, fault, virtual, faulted>>
      BY DEF OpenTransition, Opening
<1>2. PICK row \in BranchRow : branch' = [branch EXCEPT ![b] = row] /\ row = branch[b]
      BY <1>1, BranchIs DEF SandboxInv, SandboxTypes
<1>3. PlacedBranch(b)'
      BY <1>1, BranchIs DEF PlacedBranch
<1>4. MeasuredBranch(b)'
  <2> DEFINE upto == Sofar(b, branch[b].at)
             through == Sofar(b, branch[b].at + 1)
  <2>1. branch[b].pc = "starting" => Spread(upto)
        BY BranchIs DEF MeasuredBranch
  <2>2. branch[b].pc = "succeeding" => Since(virtual, through)
        BY BranchIs DEF MeasuredBranch
  <2>3. upto' = upto /\ through' = through
        BY <1>1, SpentStays
  <2>4. virtual \in stamps' /\ stamps \subseteq stamps'
        BY <1>1
  <2> HIDE DEF upto, through
  <2>5. branch[b].pc = "starting" => Spread(upto)'
        BY <2>1, <2>3, <2>4 DEF Spread
  <2>6. branch[b].pc = "succeeding" => Since(virtual, through)' /\ Spread(through)'
        BY <1>1, <2>2, <2>3, <2>4 DEF Spread, Since
  <2> QED BY <1>1, <2>4, <2>5, <2>6 DEF MeasuredBranch, Opening, upto, through
<1>5. Spent(b)' = Spent(b) /\ Spent(b) \in Int
      BY <1>1, SpentStays, SpentIs, BranchIs DEF SandboxInv
<1>6. FaultInv'
  <2>1. (Clear(b) => Clear(b)') /\ (Doomed(b) => Doomed(b)')
        BY <1>1 DEF Clear, Doomed
  <2> QED BY <1>1, <1>2, <2>1, FaultOne
<1>7. stamps' \in SUBSET (0 .. virtual) /\ (Honest' => Honest)
  <2>1. stamps \in SUBSET (0 .. virtual) /\ virtual \in 0 .. virtual
        BY DEF SandboxInv, SandboxTypes
  <2> QED BY <1>1, <2>1 DEF Honest
<1>8. \A c \in DOMAIN plan : c # b /\ c \in writer' => c \in writer
      BY <1>1
<1>9. Honest' => Honest /\ Spent(b) <= Spent(b)'
      BY <1>5, <1>7
<1> QED BY <1>1, <1>2, <1>3, <1>4, <1>6, <1>7, <1>8, <1>9, OneMoves

LEMMA CommitIs ==
    ASSUME SandboxInv, NEW b \in DOMAIN plan, CommitTransition(b)
    PROVE  \E row \in BranchRow :
              /\ branch' = [branch EXCEPT ![b] = row] /\ branch'[b] = row /\ row.wake = branch[b].wake
              /\ \/ branch[b].pc = "starting" /\ row.pc = "dispatch" /\ row.at = branch[b].at
                 \/ branch[b].pc = "succeeding" /\ row.pc = "next" /\ row.at = branch[b].at + 1
                 \/ branch[b].pc = "failing" /\ row.pc = "failed" /\ row.at = branch[b].at
                 \/ branch[b].pc = "timing_out" /\ row.pc = "timed_out" /\ row.at = branch[b].at
<1> DEFINE pc == After(branch[b].pc)
           at == IF branch[b].pc = "succeeding" THEN branch[b].at + 1 ELSE branch[b].at
           row == [branch[b] EXCEPT !.pc = pc, !.at = at]
<1>1. b \in writer
      BY DEF CommitTransition
<1>2. branch[b].pc \in Opening /\ branch[b] \in BranchRow /\ branch[b].at \in Nat \ {0}
      BY <1>1, BranchIs DEF PlacedBranch
<1>3. branch \in [DOMAIN plan -> BranchRow]
      BY DEF SandboxInv, SandboxTypes
<1>4. branch' = [branch EXCEPT ![b] = row]
      BY <1>3 DEF CommitTransition
<1>5. \/ branch[b].pc = "starting" /\ pc = "dispatch" /\ at = branch[b].at
      \/ branch[b].pc = "succeeding" /\ pc = "next" /\ at = branch[b].at + 1
      \/ branch[b].pc = "failing" /\ pc = "failed" /\ at = branch[b].at
      \/ branch[b].pc = "timing_out" /\ pc = "timed_out" /\ at = branch[b].at
      BY <1>2 DEF After, Opening
<1>6. pc \in Places /\ at \in Nat \ {0}
  <2>1. pc \in Places
        BY <1>5 DEF Places, EndedBranch
  <2>2. branch[b].at + 1 \in Nat \ {0}
        BY <1>2
  <2> QED BY <1>2, <2>1, <2>2
<1> HIDE DEF pc, at
<1>7. row \in BranchRow /\ row.pc = pc /\ row.at = at /\ row.wake = branch[b].wake
      BY <1>2, <1>6 DEF BranchRow
<1> HIDE DEF row
<1>8. branch'[b] = row
      BY <1>3, <1>4
<1> QED BY <1>4, <1>5, <1>7, <1>8

LEMMA CommitStep ==
    ASSUME SandboxInv, NEW b \in DOMAIN plan, CommitTransition(b)
    PROVE  SandboxInv'
<1>1. /\ writer = {b} /\ writer' = {} /\ UNCHANGED <<plan, fault, virtual, stamps, faulted>>
      BY DEF CommitTransition
<1>2. branch[b].pc \in Opening /\ branch[b].at \in DOMAIN plan[b]
      BY <1>1, BranchIs DEF PlacedBranch, Opening
<1>3. PICK row \in BranchRow :
              /\ branch' = [branch EXCEPT ![b] = row] /\ branch'[b] = row /\ row.wake = branch[b].wake
              /\ \/ branch[b].pc = "starting" /\ row.pc = "dispatch" /\ row.at = branch[b].at
                 \/ branch[b].pc = "succeeding" /\ row.pc = "next" /\ row.at = branch[b].at + 1
                 \/ branch[b].pc = "failing" /\ row.pc = "failed" /\ row.at = branch[b].at
                 \/ branch[b].pc = "timing_out" /\ row.pc = "timed_out" /\ row.at = branch[b].at
      BY CommitIs
<1>7. PlacedBranch(b)'
      BY <1>1, <1>2, <1>3, BranchIs DEF PlacedBranch
<1>8. MeasuredBranch(b)'
  <2>1. Sofar(b, row.at)' = Sofar(b, row.at)
        BY <1>1 DEF Sofar
  <2>2. row.pc \in {"dispatch", "next"} => Spread(Sofar(b, row.at))
        BY <1>1, <1>3, BranchIs DEF MeasuredBranch
  <2>3. row.pc = "dispatch" => stamps # {}
        BY <1>1, <1>3, BranchIs DEF MeasuredBranch
  <2>4. row.pc \in {"dispatch", "next"} => Spread(Sofar(b, row.at))'
        BY <1>1, <2>1, <2>2 DEF Spread
  <2> QED BY <1>1, <1>3, <2>3, <2>4 DEF MeasuredBranch
<1>9. Spent(b)' = Spent(b) /\ Spent(b) \in Int
  <2>1. Ticks(b)' = Ticks(b) /\ Sofar(b, row.at)' = Sofar(b, row.at)
        BY <1>1, SpentStays
  <2>2. Spent(b) \in Int
        BY SpentIs, BranchIs DEF SandboxInv
  <2>3. branch[b].pc \in {"starting", "succeeding"} => Spent(b) = Sofar(b, row.at)
        BY <1>3 DEF Spent
  <2>4. branch[b].pc \notin {"starting", "succeeding"} => Spent(b) = Ticks(b)
        BY <1>3 DEF Spent
  <2>5. Spent(b)' = IF row.pc \in {"dispatch", "next"} THEN Sofar(b, row.at) ELSE Ticks(b)
        BY <1>3, <2>1 DEF Spent
  <2> QED BY <1>3, <2>2, <2>3, <2>4, <2>5
<1>10. FaultInv'
  <2>1. Clear(b) => Clear(b)'
    <3>1. branch[b].at \in Nat \ {0}
          BY BranchIs
    <3>2. CASE branch[b].pc = "succeeding"
      <4>1. row.pc = "next" /\ row.at = branch[b].at + 1
            BY <1>3, <3>2
      <4>2. \A i \in 1 .. (row.at - 1) : i = branch[b].at \/ i \in 1 .. (branch[b].at - 1)
            BY <3>1, <4>1
      <4> QED BY <1>1, <1>3, <3>2, <4>1, <4>2 DEF Clear
    <3>3. CASE branch[b].pc # "succeeding"
      <4>1. row.at = branch[b].at /\ row.pc \notin {"asleep", "woken", "succeeding"}
            BY <1>3, <3>3
      <4> QED BY <1>1, <1>3, <4>1 DEF Clear
    <3> QED BY <3>2, <3>3
  <2>2. Doomed(b) => Doomed(b)'
        BY <1>3 DEF Doomed
  <2> QED BY <1>1, <1>3, <2>1, <2>2, FaultOne
<1>11. stamps' \in SUBSET (0 .. virtual) /\ (Honest' => Honest)
      BY <1>1 DEF SandboxInv, SandboxTypes, Honest
<1>12. (Honest' => Honest /\ Spent(b) <= Spent(b)') /\ stamps \subseteq stamps'
      BY <1>1, <1>9, <1>11
<1> QED BY <1>1, <1>3, <1>7, <1>8, <1>10, <1>11, <1>12, OneMoves


(* A fault that is met for the first time: every branch is still clear. *)
LEMMA FaultMet ==
    ASSUME SandboxInv, NEW b \in DOMAIN plan, plan' = plan, fault' = fault,
           faulted = {}, faulted' = {<<b, branch[b].at>>}, branch[b].at \in DOMAIN plan[b],
           fault # "NONE" => Doomed(b)'
    PROVE  FaultInv'
<1> DEFINE k == branch[b].at
<1>1. \A c \in DOMAIN plan : Clear(c)
  <2>1. FaultInv
        BY DEF SandboxInv
  <2> QED BY <2>1 DEF FaultInv, Hit
<1>2. PICK n \in DOMAIN plan[b] : n = k
      OBVIOUS
<1>3. Len(plan) = 1 => b = 1
  <2>1. DOMAIN plan = 1 .. Len(plan) /\ Len(plan) \in Nat
        BY PlanIs DEF SandboxInv
  <2> QED BY <2>1
<1>4. \A i \in 1 .. (n - 1) : plan[b][i] > 0
      BY <1>1, <1>2 DEF Clear
<1>5. faulted' = {<<b, n>>}
      BY <1>2
<1> HIDE DEF k
<1>6. Hit(b, n)'
      BY <1>3, <1>4, <1>5 DEF Hit
<1> QED BY <1>6 DEF FaultInv

LEMMA SleepsIs ==
    ASSUME SandboxTypes, NEW b \in DOMAIN plan, NEW ticks \in Nat, Sleeps(b, ticks)
    PROVE  \E row \in BranchRow : /\ branch' = [branch EXCEPT ![b] = row] /\ branch'[b] = row
                                  /\ row.pc = "asleep" /\ row.at = branch[b].at /\ row.wake = virtual + ticks
<1> DEFINE wake == virtual + ticks
           row == [branch[b] EXCEPT !.pc = "asleep", !.wake = wake]
<1>1. branch \in [DOMAIN plan -> BranchRow] /\ wake \in Nat
      BY DEF SandboxTypes
<1>2. branch' = [branch EXCEPT ![b] = row]
      BY DEF Sleeps
<1> HIDE DEF wake
<1>3. row \in BranchRow /\ row.pc = "asleep" /\ row.at = branch[b].at /\ row.wake = wake
      BY <1>1 DEF BranchRow, Places
<1> HIDE DEF row
<1>4. branch'[b] = row
      BY <1>1, <1>2
<1> QED BY <1>2, <1>3, <1>4 DEF wake

(* The node that a branch is at: what its dispatch starts from. *)
LEMMA DispatchIs ==
    ASSUME SandboxInv, NEW b \in DOMAIN plan, DispatchNode(b)
    PROVE  /\ branch[b].pc = "dispatch" /\ b \notin writer /\ branch[b].at \in DOMAIN plan[b]
           /\ NodeAt(b) = plan[b][branch[b].at] /\ NodeAt(b) \in Nat
           /\ UNCHANGED <<plan, fault, virtual, writer, stamps>>
           /\ Spread(Sofar(b, branch[b].at)) /\ stamps # {}
           /\ stamps \in SUBSET (0 .. virtual) /\ virtual \in Nat
           /\ Spent(b) = Sofar(b, branch[b].at) /\ Spent(b) \in Int /\ Spent(b) <= Ticks(b)
           /\ Honest' => Honest
<1>1. branch[b].pc = "dispatch" /\ b \notin writer /\ UNCHANGED <<plan, fault, virtual, writer, stamps>>
      BY DEF DispatchNode, Runs
<1>2. branch[b].at \in DOMAIN plan[b]
      BY <1>1, BranchIs DEF PlacedBranch
<1>3. NodeAt(b) = plan[b][branch[b].at] /\ NodeAt(b) \in Nat
      BY <1>2, BranchIs DEF NodeAt
<1>4. Spread(Sofar(b, branch[b].at)) /\ stamps # {}
      BY <1>1, BranchIs DEF MeasuredBranch
<1>5. Spent(b) = Sofar(b, branch[b].at)
      BY <1>1 DEF Spent
<1>6. Spent(b) \in Int /\ Spent(b) <= Ticks(b)
      BY BranchIs, SpentIs DEF SandboxInv
<1>7. Honest' => Honest
      BY <1>1 DEF DispatchNode, Honest
<1> QED BY <1>1, <1>2, <1>3, <1>4, <1>5, <1>6, <1>7 DEF SandboxInv, SandboxTypes

(* Whatever the dispatch does with the fault, a branch that is due to end  *)
(* or to sleep past the deadline is doomed, and one that is not hit stays  *)
(* clear.                                                                  *)
LEMMA DispatchFault ==
    ASSUME SandboxInv, NEW b \in DOMAIN plan, DispatchNode(b),
           NEW row, branch' = [branch EXCEPT ![b] = row],
           faulted' # faulted /\ fault # "NONE" => Doomed(b)',
           faulted' = {} /\ Clear(b) => Clear(b)',
           ~Doomed(b)
    PROVE  FaultInv'
<1>1. CASE faulted = {} /\ faulted' = {<<b, branch[b].at>>}
  <2>1. branch[b].at \in DOMAIN plan[b] /\ UNCHANGED <<plan, fault>> /\ faulted' # faulted
        BY <1>1, DispatchIs
  <2> QED BY <1>1, <2>1, FaultMet
<1>2. CASE faulted' = faulted
  <2>1. UNCHANGED <<plan, fault>> /\ (\A c \in DOMAIN plan : c # b => branch'[c] = branch[c])
        BY DispatchIs DEF SandboxInv, SandboxTypes
  <2>2. \A c \in DOMAIN plan : c # b => Clear(c)' = Clear(c) /\ Doomed(c)' = Doomed(c)
        BY <2>1 DEF Clear, Doomed
  <2>3. CASE faulted = {}
    <3>1. \/ \A c \in DOMAIN plan : Clear(c)
          \/ \E c \in DOMAIN plan : \E k \in DOMAIN plan[c] : Hit(c, k)
          BY <2>3 DEF SandboxInv, FaultInv
    <3>2. \A c \in DOMAIN plan : Clear(c)
          BY <2>3, <3>1 DEF Hit
    <3>3. \A c \in DOMAIN plan : Clear(c)'
          BY <1>2, <2>2, <2>3, <3>2
    <3> QED BY <1>2, <2>1, <2>3, <3>3 DEF FaultInv
  <2>4. CASE faulted # {}
    <3>1. PICK c \in DOMAIN plan : \E k \in DOMAIN plan[c] : Hit(c, k)
          BY <2>4 DEF SandboxInv, FaultInv
    <3>4. PICK k \in DOMAIN plan[c] : Hit(c, k)
          BY <3>1
    <3>2. fault # "NONE" => Doomed(c)'
          BY <2>2, <2>1, <3>4 DEF Hit
    <3>3. Hit(c, k)'
          BY <1>2, <2>1, <3>4, <3>2 DEF Hit
    <3> QED BY <2>1, <3>3 DEF FaultInv
  <2> QED BY <2>3, <2>4
<1> QED BY <1>1, <1>2 DEF DispatchNode

(* The dispatch that times out, fails or succeeds at once. *)
LEMMA DispatchGoes ==
    ASSUME SandboxInv, NEW b \in DOMAIN plan, DispatchNode(b),
           NEW pc \in {"timing_out", "failing", "succeeding"}, Goes(b, pc),
           pc = "timing_out" => Expired,
           pc = "succeeding" => NodeAt(b) = 0 /\ (faulted' # faulted => fault = "NONE"),
           pc = "succeeding" => faulted' # {}
    PROVE  SandboxInv'
<1>1. PICK row \in BranchRow : /\ branch' = [branch EXCEPT ![b] = row] /\ branch'[b] = row
                               /\ row.pc = pc /\ row.at = branch[b].at /\ row.wake = branch[b].wake
  <2>1. pc \in Places /\ SandboxTypes
        BY DEF Places, Opening, SandboxInv
  <2> QED BY <2>1, GoesIs
<1>2. PlacedBranch(b)'
      BY <1>1, BranchIs, DispatchIs DEF PlacedBranch, Expired, Opening
<1>3. Sofar(b, branch[b].at)' = Sofar(b, branch[b].at) /\ Ticks(b)' = Ticks(b)
      /\ Sofar(b, branch[b].at + 1)' = Sofar(b, branch[b].at + 1)
      BY <1>1, SpentStays, DispatchIs
<1>4. pc = "succeeding" => Sofar(b, branch[b].at + 1) = Sofar(b, branch[b].at)
      BY BranchIs, DispatchIs
<1>5. Since(virtual, Sofar(b, branch[b].at))
  <2>1. \A s \in stamps : s \in Int /\ s <= virtual /\ virtual \in Nat
        BY DispatchIs
  <2>2. Sofar(b, branch[b].at) \in Nat
        BY BranchIs
  <2>3. CASE Sofar(b, branch[b].at) = 0
    <3>1. PICK s \in stamps : TRUE
          BY DispatchIs
    <3>2. virtual - s >= 0
          BY <2>1, <3>1
    <3> QED BY <2>3, <3>2 DEF Since
  <2>4. CASE \E s, t \in stamps : t - s >= Sofar(b, branch[b].at)
    <3>1. PICK s \in stamps, t \in stamps : t - s >= Sofar(b, branch[b].at)
          BY <2>4
    <3>2. virtual - s >= Sofar(b, branch[b].at)
          BY <2>1, <2>2, <3>1
    <3> QED BY <3>2 DEF Since
  <2> QED BY <2>3, <2>4, DispatchIs DEF Spread
<1>6. MeasuredBranch(b)'
  <2>1. pc = "succeeding" => Since(virtual, Sofar(b, branch[b].at + 1))'
        BY <1>3, <1>4, <1>5, DispatchIs DEF Since
  <2> QED BY <1>1, <2>1, DispatchIs DEF MeasuredBranch
<1>7. Spent(b) <= Spent(b)'
  <2>1. Spent(b)' = IF pc = "succeeding" THEN Sofar(b, branch[b].at) ELSE Ticks(b)
        BY <1>1, <1>3, <1>4 DEF Spent
  <2> QED BY <2>1, DispatchIs
<1>8. ~Doomed(b)
      BY DispatchIs DEF Doomed
<1>9. faulted' # faulted /\ fault # "NONE" => Doomed(b)'
      BY <1>1 DEF Doomed
<1>10. faulted' = {} /\ Clear(b) => Clear(b)'
      BY <1>1, DispatchIs DEF Clear
<1>11. FaultInv'
      BY <1>1, <1>8, <1>9, <1>10, DispatchFault
<1>12. \A c \in DOMAIN plan : c # b /\ c \in writer' => c \in writer
      BY DispatchIs
<1> QED BY <1>1, <1>2, <1>6, <1>7, <1>11, <1>12, DispatchIs, OneMoves

(* The dispatch that sleeps: a delay, or a skill that meets a timeout. *)
LEMMA DispatchSleeps ==
    ASSUME SandboxInv, NEW b \in DOMAIN plan, DispatchNode(b),
           NEW ticks \in Nat, Sleeps(b, ticks), ticks >= NodeAt(b),
           ticks = NodeAt(b) \/ (fault = "TIMEOUT" /\ faulted' # {}),
           NodeAt(b) = 0 => faulted' # {},
           faulted' # faulted => ticks >= SandboxDeadline
    PROVE  SandboxInv'
<1>1. PICK row \in BranchRow : /\ branch' = [branch EXCEPT ![b] = row] /\ branch'[b] = row
                               /\ row.pc = "asleep" /\ row.at = branch[b].at /\ row.wake = virtual + ticks
  <2>1. SandboxTypes
        BY DEF SandboxInv
  <2> QED BY <2>1, SleepsIs
<1>2. virtual \in Nat /\ virtual + ticks >= virtual
      BY DispatchIs
<1>3. PlacedBranch(b)'
      BY <1>1, <1>2, BranchIs, DispatchIs DEF PlacedBranch, Opening
<1>4. Sofar(b, branch[b].at)' = Sofar(b, branch[b].at) /\ Ticks(b)' = Ticks(b)
      /\ Sofar(b, branch[b].at + 1)' = Sofar(b, branch[b].at + 1)
      BY <1>1, SpentStays, DispatchIs
<1>5. Sofar(b, branch[b].at + 1) = Sofar(b, branch[b].at) + NodeAt(b) /\ Sofar(b, branch[b].at) \in Nat
      /\ NodeAt(b) \in Nat
      BY BranchIs, DispatchIs
<1>6. Since(virtual, Sofar(b, branch[b].at))
  <2>1. \A s \in stamps : s \in Int /\ s <= virtual /\ virtual \in Nat
        BY DispatchIs
  <2>2. CASE Sofar(b, branch[b].at) = 0
    <3>1. PICK s \in stamps : TRUE
          BY DispatchIs
    <3>2. virtual - s >= 0
          BY <2>1, <3>1
    <3> QED BY <2>2, <3>2 DEF Since
  <2>3. CASE \E s, t \in stamps : t - s >= Sofar(b, branch[b].at)
    <3>1. PICK s \in stamps, t \in stamps : t - s >= Sofar(b, branch[b].at)
          BY <2>3
    <3>2. virtual - s >= Sofar(b, branch[b].at)
          BY <1>5, <2>1, <3>1
    <3> QED BY <3>2 DEF Since
  <2> QED BY <2>2, <2>3, DispatchIs DEF Spread
<1>7. Since(virtual + ticks, Sofar(b, branch[b].at + 1))
  <2>1. PICK s \in stamps : virtual - s >= Sofar(b, branch[b].at)
        BY <1>6 DEF Since
  <2>2. s \in Int
        BY DispatchIs
  <2>3. (virtual + ticks) - s >= Sofar(b, branch[b].at) + NodeAt(b)
        BY <1>2, <1>5, <2>1, <2>2
  <2> QED BY <1>5, <2>3 DEF Since
<1>8. MeasuredBranch(b)'
  <2>1. Since(row.wake, Sofar(b, row.at + 1))
        BY <1>1, <1>7
  <2>2. Sofar(b, row.at + 1)' = Sofar(b, row.at + 1)
        BY <1>1, SpentStays, DispatchIs
  <2>3. Since(row.wake, Sofar(b, row.at + 1))'
        BY <2>1, <2>2, DispatchIs DEF Since
  <2> QED BY <1>1, <2>3, DispatchIs DEF MeasuredBranch
<1>9. Honest' => Spent(b) <= Spent(b)'
  <2> SUFFICES ASSUME Honest' PROVE Spent(b) <= Spent(b)'
      OBVIOUS
  <2>1. ticks = NodeAt(b)
        BY DispatchIs DEF Honest
  <2>2. Spent(b)' = Sofar(b, branch[b].at + 1) - ((virtual + ticks) - virtual)
        BY <1>1, <1>4, DispatchIs DEF Spent
  <2> QED BY <2>1, <2>2, <1>2, <1>5, DispatchIs
<1>10. ~Doomed(b)
      BY DispatchIs DEF Doomed
<1>11. faulted' # faulted /\ fault # "NONE" => Doomed(b)'
  <2>1. SandboxDeadline \in Nat /\ (ticks >= SandboxDeadline => virtual + ticks >= SandboxDeadline)
        BY <1>2, SandboxRunAssumption
  <2> QED BY <1>1, <2>1 DEF Doomed
<1>12. faulted' = {} /\ Clear(b) => Clear(b)'
  <2>1. NodeAt(b) # 0 => plan[b][branch[b].at] > 0
        BY <1>5, DispatchIs
  <2> QED BY <1>1, <2>1, DispatchIs DEF Clear
<1>13. FaultInv'
      BY <1>1, <1>10, <1>11, <1>12, DispatchFault
<1>14. \A c \in DOMAIN plan : c # b /\ c \in writer' => c \in writer
      BY DispatchIs
<1> QED BY <1>1, <1>3, <1>8, <1>9, <1>13, <1>14, DispatchIs, OneMoves

LEMMA DispatchStep ==
    ASSUME SandboxInv, NEW b \in DOMAIN plan, DispatchNode(b)
    PROVE  SandboxInv'
<1> DEFINE hit == NodeAt(b) = 0 /\ faulted = {}
<1>1. faulted' = IF hit THEN {<<b, branch[b].at>>} ELSE faulted
      BY DEF DispatchNode
<1>2. NodeAt(b) \in Nat /\ fault \in {"NONE", "SKILL_FAILURE", "TIMEOUT"}
      BY DispatchIs DEF SandboxInv, SandboxTypes
<1>3. NodeAt(b) = 0 => faulted' # {}
      BY <1>1
<1>4. faulted' # faulted => hit
      BY <1>1
<1>5. CASE Expired
  <2>1. Goes(b, "timing_out")
        BY <1>5 DEF DispatchNode
  <2> QED BY <1>5, <2>1, DispatchGoes
<1>6. CASE ~Expired /\ NodeAt(b) > 0
  <2>1. Sleeps(b, NodeAt(b))
        BY <1>6 DEF DispatchNode
  <2>2. faulted' = faulted
        BY <1>1, <1>2, <1>6
  <2> QED BY <1>2, <1>3, <2>1, <2>2, DispatchSleeps
<1>7. CASE ~Expired /\ hit /\ fault = "TIMEOUT"
  <2>1. Sleeps(b, VirtualWindow)
        BY <1>7 DEF DispatchNode
  <2>2. VirtualWindow \in Nat /\ VirtualWindow >= SandboxDeadline /\ VirtualWindow >= 0
        BY SandboxRunAssumption
  <2> QED BY <1>3, <1>7, <2>1, <2>2, DispatchSleeps
<1>8. CASE ~Expired /\ hit /\ fault = "SKILL_FAILURE"
  <2>1. Goes(b, "failing")
        BY <1>8 DEF DispatchNode
  <2> QED BY <2>1, DispatchGoes
<1>9. CASE ~Expired /\ ~(NodeAt(b) > 0) /\ ~(hit /\ fault \in {"TIMEOUT", "SKILL_FAILURE"})
  <2>1. Goes(b, "succeeding")
        BY <1>9 DEF DispatchNode
  <2>2. NodeAt(b) = 0
        BY <1>2, <1>9
  <2>3. faulted' # faulted => fault = "NONE"
        BY <1>2, <1>4, <1>9
  <2> QED BY <1>3, <2>1, <2>2, <2>3, DispatchGoes
<1> QED BY <1>2, <1>5, <1>6, <1>7, <1>8, <1>9

LEMMA ResumeStep ==
    ASSUME SandboxInv, NEW b \in DOMAIN plan, Resumes(b)
    PROVE  SandboxInv'
<1> DEFINE pc == IF Expired THEN "timing_out" ELSE IF NodeAt(b) = 0 THEN "failing" ELSE "succeeding"
<1>1. branch[b].pc = "woken" /\ Goes(b, pc) /\ UNCHANGED <<plan, fault, virtual, writer, stamps, faulted>>
      BY DEF Resumes, Runs
<1>2. b \notin writer /\ branch[b].at \in DOMAIN plan[b] /\ virtual >= branch[b].wake
      BY <1>1, BranchIs DEF PlacedBranch, Opening
<1>3. Since(virtual, Sofar(b, branch[b].at + 1))
      BY <1>1, BranchIs DEF MeasuredBranch
<1>4. pc \in {"timing_out", "failing", "succeeding"} /\ (pc = "timing_out" => Expired)
      OBVIOUS
<1>5. pc = "succeeding" => plan[b][branch[b].at] > 0
      BY <1>2, BranchIs DEF NodeAt
<1>6. Doomed(b) => Expired
  <2>1. Doomed(b) => branch[b].wake >= SandboxDeadline
        BY <1>1 DEF Doomed
  <2>2. branch[b].wake \in Nat /\ virtual \in Nat /\ SandboxDeadline \in Nat
        BY BranchIs, SandboxRunAssumption
  <2> QED BY <1>2, <2>1, <2>2 DEF Expired
<1>7. Doomed(b) => pc = "timing_out"
      BY <1>6
<1> HIDE DEF pc
<1> QED BY <1>1, <1>2, <1>3, <1>4, <1>5, <1>7, PlaceChanges DEF Places, Opening

(* The clock advances to the next sleeper, which has slept at least as     *)
(* much longer.                                                            *)
LEMMA AdvanceIs ==
    ASSUME SandboxInv, AdvanceClock
    PROVE  /\ virtual' \in Nat /\ virtual' >= virtual
           /\ branch' \in [DOMAIN plan -> BranchRow]
           /\ \A b \in DOMAIN plan :
                 /\ branch'[b].at = branch[b].at /\ branch'[b].wake = branch[b].wake
                 /\ branch[b].pc # "asleep" => branch'[b] = branch[b]
                 /\ branch[b].pc = "asleep" =>
                       \/ branch'[b].pc = "woken" /\ branch[b].wake = virtual'
                       \/ branch'[b].pc = "asleep" /\ branch[b].wake >= virtual'
           /\ \E b \in DOMAIN plan : branch[b].pc = "asleep"
<1> DEFINE W == {branch[b].wake : b \in Sleepers}
<1>1. branch \in [DOMAIN plan -> BranchRow] /\ DOMAIN branch = DOMAIN plan /\ virtual \in Nat
      BY DEF SandboxInv, SandboxTypes
<1>2. \A b \in DOMAIN plan : branch[b].pc = "asleep" => b \in Sleepers /\ branch[b].wake \in W
      BY <1>1 DEF Sleepers
<1>3. W \in SUBSET Nat /\ W # {} /\ \A w \in W : w >= virtual
  <2>1. \A b \in Sleepers : branch[b].wake \in Nat /\ branch[b].wake >= virtual
        BY <1>1, BranchIs DEF Sleepers, PlacedBranch
  <2> QED BY <2>1 DEF AdvanceClock
<1>4. IsFiniteSet(W)
  <2>1. IsFiniteSet(Sleepers)
        BY <1>1, PlanIs, FS_Subset DEF Sleepers, SandboxInv
  <2> DEFINE wake == [b \in Sleepers |-> branch[b].wake]
  <2>2. wake \in Surjection(Sleepers, W)
        BY DEF Surjection
  <2> HIDE DEF W, wake
  <2> QED BY <2>1, <2>2, FS_Surjection
<1>5. virtual' = virtual + (Min(W) - virtual)
      BY DEF AdvanceClock, Advanced
<1>6. branch' = [b \in DOMAIN plan |-> IF b \in Sleepers /\ branch[b].wake <= virtual'
                                       THEN [branch[b] EXCEPT !.pc = "woken"] ELSE branch[b]]
      BY <1>1 DEF AdvanceClock
<1>7. PICK c \in DOMAIN plan : branch[c].pc = "asleep"
      BY <1>1 DEF AdvanceClock, Sleepers
<1> HIDE DEF W
<1>8. Min(W) \in W /\ \A w \in W : Min(W) <= w
  <2>1. W \in SUBSET Int
        BY <1>3
  <2> QED BY <1>3, <1>4, <2>1, MinIs
<1>9. virtual' = Min(W) /\ virtual' \in Nat /\ virtual' >= virtual
  <2>1. Min(W) \in Nat /\ Min(W) >= virtual
        BY <1>3, <1>8
  <2> QED BY <1>1, <1>5, <2>1
<1>10. \A b \in DOMAIN plan : branch[b].pc = "asleep" => branch[b].wake \in Nat /\ branch[b].wake >= virtual'
      BY <1>2, <1>3, <1>8, <1>9
<1>11. ASSUME NEW b \in DOMAIN plan
       PROVE  /\ branch'[b] \in BranchRow
              /\ branch'[b].at = branch[b].at /\ branch'[b].wake = branch[b].wake
              /\ branch[b].pc # "asleep" => branch'[b] = branch[b]
              /\ branch[b].pc = "asleep" =>
                       \/ branch'[b].pc = "woken" /\ branch[b].wake = virtual'
                       \/ branch'[b].pc = "asleep" /\ branch[b].wake >= virtual'
  <2>1. branch[b] \in BranchRow
        BY <1>1
  <2>2. CASE b \in Sleepers /\ branch[b].wake <= virtual'
    <3>1. branch'[b] = [branch[b] EXCEPT !.pc = "woken"]
          BY <1>6, <2>2
    <3>2. branch[b].pc = "asleep" /\ branch[b].wake = virtual'
          BY <1>9, <1>10, <2>2 DEF Sleepers
    <3> QED BY <2>1, <3>1, <3>2 DEF BranchRow, Places
  <2>3. CASE ~(b \in Sleepers /\ branch[b].wake <= virtual')
    <3>1. branch'[b] = branch[b]
          BY <1>6, <2>3
    <3> QED BY <2>1, <3>1, <1>10
  <2> QED BY <2>2, <2>3
<1>12. branch' \in [DOMAIN plan -> BranchRow]
      BY <1>6, <1>11
<1> QED BY <1>7, <1>9, <1>11, <1>12

LEMMA AdvancePlaces ==
    ASSUME SandboxInv, AdvanceClock, NEW b \in DOMAIN plan
    PROVE  /\ PlacedBranch(b)' /\ MeasuredBranch(b)' /\ Spent(b) <= Spent(b)'
           /\ branch[b].pc = "asleep" => Spent(b)' >= Spent(b) + (virtual' - virtual)
<1>1. UNCHANGED <<plan, fault, writer, stamps>>
      BY DEF AdvanceClock
<1>2. /\ branch'[b].at = branch[b].at /\ branch'[b].wake = branch[b].wake
      /\ branch[b].pc # "asleep" => branch'[b] = branch[b]
      /\ branch[b].pc = "asleep" =>
            \/ branch'[b].pc = "woken" /\ branch[b].wake = virtual'
            \/ branch'[b].pc = "asleep" /\ branch[b].wake >= virtual'
      /\ virtual' \in Nat /\ virtual' >= virtual /\ virtual \in Nat
      BY AdvanceIs, BranchIs
<1>3. SandboxDeadline \in Nat
      BY SandboxRunAssumption
<1>4. PlacedBranch(b)'
  <2>1. PlacedBranch(b) /\ branch[b].wake \in Nat
        BY BranchIs
  <2>2. CASE branch[b].pc # "asleep"
    <3>1. branch'[b] = branch[b]
          BY <1>2, <2>2
    <3> QED BY <1>1, <1>2, <1>3, <2>1, <2>2, <3>1 DEF PlacedBranch
  <2>3. CASE branch[b].pc = "asleep"
    <3>1. b \notin writer
          BY <2>1, <2>3 DEF PlacedBranch, Opening
    <3> QED BY <1>1, <1>2, <2>1, <2>3, <3>1 DEF PlacedBranch
  <2> QED BY <2>2, <2>3
<1>5. Sofar(b, branch[b].at)' = Sofar(b, branch[b].at) /\ Ticks(b)' = Ticks(b)
      /\ Sofar(b, branch[b].at + 1)' = Sofar(b, branch[b].at + 1)
      BY <1>1, <1>2, SpentStays
<1>6. Spread(Sofar(b, branch[b].at))' = Spread(Sofar(b, branch[b].at))
      /\ Spread(Sofar(b, branch[b].at + 1))' = Spread(Sofar(b, branch[b].at + 1))
      BY <1>1, <1>5 DEF Spread
<1>7. branch[b].pc \in {"woken", "succeeding"} => branch[b].at \in DOMAIN plan[b]
      BY BranchIs DEF PlacedBranch
<1>8. MeasuredBranch(b)'
  <2>1. MeasuredBranch(b)
        BY BranchIs
  <2>2. CASE branch[b].pc # "asleep"
    <3>1. branch'[b] = branch[b]
          BY <1>2, <2>2
    <3>3. branch[b].pc \in {"woken", "succeeding"} => \E s \in stamps : virtual - s >= Sofar(b, branch[b].at + 1)
          BY <2>1 DEF MeasuredBranch, Since
    <3>4. branch[b].pc \in {"woken", "succeeding"} => \E s \in stamps : virtual' - s >= Sofar(b, branch[b].at + 1)
      <4> SUFFICES ASSUME branch[b].pc \in {"woken", "succeeding"}
                   PROVE  \E s \in stamps : virtual' - s >= Sofar(b, branch[b].at + 1)
          OBVIOUS
      <4>1. PICK s \in stamps : virtual - s >= Sofar(b, branch[b].at + 1)
            BY <3>3
      <4>2. s \in Int /\ Sofar(b, branch[b].at + 1) \in Int
        <5>1. s \in Int
              BY DEF SandboxInv, SandboxTypes
        <5> QED BY <5>1, <1>7, BranchIs
      <4>3. virtual' - s >= Sofar(b, branch[b].at + 1)
            BY <1>2, <4>1, <4>2
      <4> QED BY <4>3
    <3>5. branch[b].pc \in {"woken", "succeeding"} => Since(virtual, Sofar(b, branch[b].at + 1))'
          BY <1>1, <1>5, <3>4 DEF Since
    <3> QED BY <1>1, <1>6, <2>1, <2>2, <3>1, <3>5 DEF MeasuredBranch
  <2>3. CASE branch[b].pc = "asleep"
    <3>1. Since(branch[b].wake, Sofar(b, branch[b].at + 1))
          BY <2>1, <2>3 DEF MeasuredBranch
    <3>2. branch[b].wake = virtual' => Since(virtual, Sofar(b, branch[b].at + 1))'
          BY <1>1, <1>5, <3>1 DEF Since
    <3>3. Since(branch[b].wake, Sofar(b, branch[b].at + 1))'
          BY <1>1, <1>2, <1>5, <3>1 DEF Since
    <3> QED BY <1>2, <2>3, <3>2, <3>3 DEF MeasuredBranch
  <2> QED BY <2>2, <2>3
<1>9. Spent(b) <= Spent(b)' /\ (branch[b].pc = "asleep" => Spent(b)' >= Spent(b) + (virtual' - virtual))
  <2>1. CASE branch[b].pc # "asleep"
    <3>1. branch'[b] = branch[b]
          BY <1>2, <2>1
    <3>2. Spent(b)' = Spent(b)
          BY <1>5, <2>1, <3>1 DEF Spent
    <3>3. Spent(b) \in Int
          BY SpentIs, BranchIs DEF SandboxInv
    <3> QED BY <2>1, <3>2, <3>3
  <2>2. CASE branch[b].pc = "asleep"
    <3>1. Spent(b) = Sofar(b, branch[b].at + 1) - (branch[b].wake - virtual)
          BY <2>2 DEF Spent
    <3>2. \/ Spent(b)' = Sofar(b, branch[b].at + 1) /\ branch[b].wake = virtual'
          \/ Spent(b)' = Sofar(b, branch[b].at + 1) - (branch[b].wake - virtual')
          BY <1>2, <1>5, <2>2 DEF Spent
    <3>3. branch[b].wake \in Nat /\ Sofar(b, branch[b].at + 1) \in Int
      <4>1. branch[b].at \in DOMAIN plan[b]
            BY <2>2, BranchIs DEF PlacedBranch
      <4> QED BY <4>1, BranchIs
    <3> QED BY <1>2, <3>1, <3>2, <3>3
  <2> QED BY <2>1, <2>2
<1> QED BY <1>4, <1>8, <1>9

LEMMA AdvanceStep ==
    ASSUME SandboxInv, AdvanceClock
    PROVE  SandboxInv'
<1>1. UNCHANGED <<plan, fault, writer, stamps, faulted>>
      BY DEF AdvanceClock
<1>2. SandboxTypes'
  <2>1. stamps' \in SUBSET (0 .. virtual')
        BY <1>1, AdvanceIs DEF SandboxInv, SandboxTypes
  <2> QED BY <1>1, <2>1, AdvanceIs DEF SandboxInv, SandboxTypes
<1>3. \A b \in DOMAIN plan : PlacedBranch(b)' /\ MeasuredBranch(b)'
      BY AdvancePlaces
<1>4. ClockInv'
  <2> SUFFICES ASSUME Honest' PROVE virtual' <= AllSpent'
      BY DEF ClockInv
  <2> DEFINE g == [b \in DOMAIN plan |-> Spent(b)]
             h == [b \in DOMAIN plan |-> Spent(b)']
             d == virtual' - virtual
  <2>1. virtual <= Total(g, DOMAIN plan)
        BY <1>1 DEF SandboxInv, ClockInv, AllSpent, Honest
  <2>2. IsFiniteSet(DOMAIN plan)
        BY PlanIs DEF SandboxInv
  <2>3. \A b \in DOMAIN plan : g[b] \in Int /\ h[b] \in Int /\ g[b] <= h[b]
    <3> SUFFICES ASSUME NEW b \in DOMAIN plan
                 PROVE  Spent(b) \in Int /\ Spent(b)' \in Int /\ Spent(b) <= Spent(b)'
        OBVIOUS
    <3>1. Spent(b) \in Int
          BY SpentIs DEF SandboxInv
    <3>2. Spent(b)' \in Int
          BY <1>1, <1>2, <1>3, SpentTypedNext DEF AllPlaced, SpentAreNumbers
    <3> QED BY <3>1, <3>2, AdvancePlaces
  <2>4. PICK c \in DOMAIN plan : branch[c].pc = "asleep"
        BY AdvanceIs
  <2>5. h[c] >= g[c] + d
        BY <2>4, AdvancePlaces
  <2>6. AllSpent' = Total(h, DOMAIN plan)
        BY <1>1 DEF AllSpent
  <2>7. d \in Int /\ virtual \in Nat /\ virtual' \in Nat /\ virtual' = virtual + d
        BY AdvanceIs DEF SandboxInv, SandboxTypes
  <2> HIDE DEF g, h, d
  <2>8. Total(h, DOMAIN plan) >= Total(g, DOMAIN plan) + d
        BY <2>2, <2>3, <2>5, <2>7, TotalMore
  <2>9. Total(g, DOMAIN plan) \in Int /\ Total(h, DOMAIN plan) \in Int
        BY <2>2, <2>3, TotalType
  <2> QED BY <2>1, <2>6, <2>7, <2>8, <2>9
<1>5. FaultInv'
  <2>1. ASSUME NEW b \in DOMAIN plan PROVE (Clear(b) => Clear(b)') /\ (Doomed(b) => Doomed(b)')
    <3>1. /\ branch'[b].at = branch[b].at /\ branch'[b].wake = branch[b].wake
          /\ branch[b].pc # "asleep" => branch'[b] = branch[b]
          /\ branch[b].pc = "asleep" => branch'[b].pc \in {"woken", "asleep"}
          BY AdvanceIs
    <3> QED BY <1>1, <3>1 DEF Clear, Doomed
  <2> QED BY <1>1, <2>1, FaultStays DEF SandboxInv
<1> QED BY <1>1, <1>2, <1>3, <1>4, <1>5 DEF SandboxInv

LEMMA SandboxInductiveStep ==
    ASSUME SandboxInv, [SandboxNext]_sandboxVars
    PROVE  SandboxInv'
<1>1. DOMAIN branch = DOMAIN plan
      BY DEF SandboxInv, SandboxTypes
<1>2. ASSUME NEW b \in DOMAIN branch, EnterSandboxNode(b) PROVE SandboxInv'
      BY <1>1, <1>2, EnterStep
<1>3. ASSUME NEW b \in DOMAIN branch, OpenTransition(b) PROVE SandboxInv'
      BY <1>1, <1>3, OpenStep
<1>4. ASSUME NEW b \in DOMAIN branch, CommitTransition(b) PROVE SandboxInv'
      BY <1>1, <1>4, CommitStep
<1>5. ASSUME NEW b \in DOMAIN branch, DispatchNode(b) PROVE SandboxInv'
      BY <1>1, <1>5, DispatchStep
<1>6. ASSUME NEW b \in DOMAIN branch, Resumes(b) PROVE SandboxInv'
      BY <1>1, <1>6, ResumeStep
<1>7. CASE DriverLooks \/ DriverYields \/ UNCHANGED sandboxVars
      BY <1>7, NoBranchMoves DEF DriverLooks, DriverYields, sandboxVars
<1>8. CASE AdvanceClock
      BY <1>8, AdvanceStep
<1> QED BY <1>2, <1>3, <1>4, <1>5, <1>6, <1>7, <1>8 DEF SandboxNext

(* What the measure says of a run that has ended. *)
LEMMA LatencyIs ==
    ASSUME SandboxTypes, stamps # {}
    PROVE  /\ Latency \in Nat /\ Latency <= virtual
           /\ \A s, t \in stamps : Latency >= t - s
<1>1. stamps \in SUBSET (0 .. virtual) /\ virtual \in Nat
      BY DEF SandboxTypes
<1>2. stamps \in SUBSET Int /\ IsFiniteSet(stamps)
  <2>1. IsFiniteSet(0 .. virtual)
        BY <1>1, FS_Interval
  <2>2. IsFiniteSet(stamps)
        BY <1>1, <2>1, FS_Subset
  <2> QED BY <1>1, <2>2
<1>3. /\ Max(stamps) \in stamps /\ \A y \in stamps : Max(stamps) >= y
      /\ Min(stamps) \in stamps /\ \A y \in stamps : Min(stamps) <= y
      BY <1>2, MaxIs, MinIs
<1>4. Latency = Max(stamps) - Min(stamps)
      BY DEF Latency
<1>5. /\ Max(stamps) \in Int /\ Min(stamps) \in Int /\ Min(stamps) >= 0 /\ Max(stamps) <= virtual
      /\ Min(stamps) <= Max(stamps)
  <2>1. Max(stamps) \in 0 .. virtual /\ Min(stamps) \in 0 .. virtual
        BY <1>1, <1>3
  <2> QED BY <1>1, <1>3, <2>1
<1>6. ASSUME NEW s \in stamps, NEW t \in stamps PROVE Latency >= t - s
      BY <1>2, <1>3, <1>4, <1>5
<1> QED BY <1>1, <1>4, <1>5, <1>6

LEMMA AllSpentIs ==
    ASSUME SandboxInv
    PROVE  AllSpent \in Int /\ AllTicks \in Int /\ AllSpent <= AllTicks
<1> DEFINE g == [b \in DOMAIN plan |-> Spent(b)]
           h == [b \in DOMAIN plan |-> Ticks(b)]
<1>1. \A b \in DOMAIN plan : g[b] \in Int /\ h[b] \in Int /\ g[b] <= h[b]
      BY SpentIs DEF SandboxInv
<1>2. IsFiniteSet(DOMAIN plan)
      BY PlanIs DEF SandboxInv
<1>3. AllSpent = Total(g, DOMAIN plan) /\ AllTicks = Total(h, DOMAIN plan)
      BY AllTicksAre DEF AllSpent
<1> HIDE DEF g, h
<1> QED BY <1>1, <1>2, <1>3, TotalLess, TotalType

LEMMA FaithfulFromInductive == SandboxInv => LatencyIsFaithful
<1> SUFFICES ASSUME SandboxInv PROVE LatencyIsFaithful
    OBVIOUS
<1>1. DOMAIN branch = DOMAIN plan /\ SandboxTypes /\ virtual \in Nat /\ SandboxDeadline \in Nat
      BY SandboxRunAssumption DEF SandboxInv, SandboxTypes
<1>2. Honest => virtual <= AllTicks
      BY <1>1, AllSpentIs DEF SandboxInv, ClockInv
<1>3. ASSUME \A b \in DOMAIN branch : branch[b].pc = "done"
      PROVE  (\A b \in DOMAIN plan : Latency >= Ticks(b)) /\ Latency <= AllTicks
  <2>1. Latency \in Nat /\ Latency <= virtual
        BY <1>1, LatencyIs DEF Latency
  <2>2. ASSUME NEW b \in DOMAIN plan PROVE Latency >= Ticks(b)
    <3>1. Spread(Ticks(b)) /\ Ticks(b) \in Nat
          BY <1>1, <1>3, BranchIs DEF MeasuredBranch, PlacedBranch
    <3>2. CASE Ticks(b) = 0
          BY <2>1, <3>2
    <3>3. CASE \E s, t \in stamps : t - s >= Ticks(b)
      <4>1. PICK s \in stamps, t \in stamps : t - s >= Ticks(b)
            BY <3>3
      <4>2. Latency >= t - s /\ s \in Int /\ t \in Int
            BY <1>1, LatencyIs DEF SandboxTypes
      <4> QED BY <2>1, <3>1, <4>1, <4>2
    <3> QED BY <3>1, <3>2, <3>3 DEF Spread
  <2>3. Honest
    <3>1. \A b \in DOMAIN plan : ~Doomed(b)
          BY <1>1, <1>3 DEF Doomed
    <3> QED BY <3>1 DEF SandboxInv, FaultInv, Hit, Honest
  <2> QED BY <1>1, <1>2, <2>1, <2>2, <2>3, AllSpentIs
<1>4. ASSUME NEW b \in DOMAIN branch, branch[b].pc = "timed_out"
      PROVE  virtual >= SandboxDeadline /\ (AllTicks >= SandboxDeadline \/ (fault = "TIMEOUT" /\ faulted # {}))
  <2>1. virtual >= SandboxDeadline
        BY <1>1, <1>4, BranchIs DEF PlacedBranch
  <2> QED BY <1>1, <1>2, <2>1, AllSpentIs DEF Honest
<1>5. Cardinality(faulted) <= 1
  <2>1. CASE faulted = {}
        BY <2>1, FS_EmptySet
  <2>2. CASE \E b \in DOMAIN plan : \E k \in DOMAIN plan[b] : Hit(b, k)
    <3>1. PICK f : faulted = {f}
          BY <2>2 DEF Hit
    <3>2. Cardinality(faulted) = 1
          BY <3>1, FS_Singleton
    <3> QED BY <3>2
  <2> QED BY <2>1, <2>2 DEF SandboxInv, FaultInv
<1>6. ASSUME NEW f \in faulted
      PROVE  /\ Len(plan) = 1 => \A i \in 1 .. (f[2] - 1) : plan[1][i] > 0
             /\ fault # "NONE" => branch[f[1]].pc # "done"
  <2>1. PICK b \in DOMAIN plan : \E k \in DOMAIN plan[b] : Hit(b, k)
        BY DEF SandboxInv, FaultInv
  <2>2. PICK k \in DOMAIN plan[b] : Hit(b, k)
        BY <2>1
  <2>3. f[1] = b /\ f[2] = k
        BY <2>2 DEF Hit
  <2>4. Len(plan) = 1 => \A i \in 1 .. (f[2] - 1) : plan[1][i] > 0
        BY <2>2, <2>3 DEF Hit
  <2>5. fault # "NONE" => branch[f[1]].pc # "done"
        BY <2>2, <2>3 DEF Hit, Doomed
  <2> QED BY <2>4, <2>5
<1> QED BY <1>3, <1>4, <1>5, <1>6 DEF LatencyIsFaithful

(* In every run of the sandbox, for every plan, fault and deadline, the    *)
(* measured latency lies between the longest branch and the sum of them,   *)
(* a timeout is due, and the fault hits one skill that does not succeed    *)
(* (dna_sandbox_executor.py, _virtual_latency_ms).                         *)
THEOREM LatenciesAreFaithful == SandboxInit /\ [][SandboxNext]_sandboxVars => []LatencyIsFaithful
<1>1. SandboxInv /\ [SandboxNext]_sandboxVars => SandboxInv'
      BY SandboxInductiveStep
<1> QED BY SandboxInductiveInit, <1>1, FaithfulFromInductive, PTL

-----------------------------------------------------------------------------
(* From evidence to a selected candidate (DnaEvolution).  A row that is    *)
(* stored stays as it is, so what it rested on when it was written still   *)
(* holds, and every answer is the row.                                     *)

\* A proposal over a sealed dataset and within its boundary
WithinBoundary(w, base) ==
    /\ \A n \in DOMAIN w : DOMAIN w[n] = NodeFields
    /\ <<"nodes">> \notin MutablePaths => DOMAIN w = DOMAIN base
    /\ \A n \in DOMAIN w \cap DOMAIN base :
         ({<<"nodes">>, <<"node", n>>, <<"SET_INPUT", n>>} \cap MutablePaths = {})
            => w[n].input = base[n].input

StoredProposal(p) == proposal[p] # NoProposal

EarnedProposal(p) ==
    /\ proposal[p].dataset \in Datasets /\ sealed[proposal[p].dataset] # {}
    /\ \E w \in proposal[p].content : WithinPolicy(w)
    /\ \A w \in proposal[p].content : WithinBoundary(w, Workflows[proposal[p].base])

ProposalInv ==
    /\ \A p \in Proposals : StoredProposal(p) => EarnedProposal(p)
    /\ \A p, q \in Proposals : p # q /\ StoredProposal(p) /\ StoredProposal(q) =>
          <<proposal[p].content, proposal[p].version>> # <<proposal[q].content, proposal[q].version>>

EarnedReplay(r) ==
    LET p == replay[r].proposal
    IN  /\ p \in Proposals /\ StoredProposal(p)
        /\ replay[r].vector \in [Dimensions -> Int]
        /\ replay[r].passed => replay[r].vector["risk_rate"] >= 0
        /\ replay[r].cases = HeldOut(proposal[p].dataset)

ReplayInv == \A r \in Replays : replay[r] # NoReplay => EarnedReplay(r)

SelectionOf(rs) == [i \in DOMAIN rs |-> [replay |-> rs[i], disposition |-> Disposition(Members(rs), i)]]

SelectionInv ==
    \A s \in Selections : selection[s] # NoSelection =>
        \E rs \in [1..2 -> Replays] : Population(rs) /\ selection[s] = SelectionOf(rs)

CallInv ==
    \A c \in Calls :
        /\ call[c].pc = "drive" => call[c].id \in Proposals
        /\ call[c].pc = "sandbox" =>
              /\ call[c].id \in Replays /\ call[c].argument[1] \in Proposals
              /\ StoredProposal(call[c].argument[1])
        /\ call[c].pc = "select" =>
              /\ call[c].id \in Selections /\ call[c].argument \in [1..2 -> Replays]
              /\ Population(call[c].argument)

AnswerInv == \A k \in Keyed : answered[k] \in SUBSET StoredFor(k)

EvolutionDomains ==
    /\ DOMAIN snapshot = Dnas /\ DOMAIN sealed = Datasets /\ rows \in SUBSET Evaluations
    /\ DOMAIN proposal = Proposals /\ DOMAIN replay = Replays /\ DOMAIN selection = Selections
    /\ DOMAIN answered = Keyed /\ DOMAIN call = Calls

EvolutionInv ==
    /\ EvolutionDomains /\ SnapshotsAreTrue
    /\ ProposalInv /\ ReplayInv /\ SelectionInv /\ CallInv /\ AnswerInv

\* What is written stays
Kept ==
    /\ \A x \in Datasets : sealed[x] # {} => sealed'[x] = sealed[x]
    /\ \A p \in Proposals : StoredProposal(p) => proposal'[p] = proposal[p]
    /\ \A r \in Replays : replay[r] # NoReplay => replay'[r] = replay[r]
    /\ \A s \in Selections : selection[s] # NoSelection => selection'[s] = selection[s]

EvolutionTables == <<proposal, replay, selection, answered, call>>

LEMMA NoneIsStored == {NoProposal} \ {NoProposal} = {} /\ NoProposal.version = "none"
BY DEF NoProposal

LEMMA EvolutionInductiveInit == EvolutionInit => EvolutionInv
<1> SUFFICES ASSUME EvolutionInit PROVE EvolutionInv
    OBVIOUS
<1>1. EvolutionDomains
      BY DEF EvolutionInit, EvidenceInit, EvolutionDomains
<1>2. SnapshotsAreTrue
  <2>1. \A d \in Dnas : snapshot[d].revision = 0
        BY DEF EvolutionInit, EvidenceInit, NoSnapshot
  <2> QED BY <2>1 DEF SnapshotsAreTrue
<1>3. ProposalInv /\ ReplayInv /\ SelectionInv
      BY DEF EvolutionInit, ProposalInv, ReplayInv, SelectionInv, StoredProposal
<1>4. CallInv
  <2>1. \A c \in Calls : call[c].pc = "idle"
        BY DEF EvolutionInit, NoCall
  <2> QED BY <2>1 DEF CallInv
<1>5. AnswerInv
      BY DEF EvolutionInit, AnswerInv
<1> QED BY <1>1, <1>2, <1>3, <1>4, <1>5 DEF EvolutionInv

-----------------------------------------------------------------------------
(* Snapshots *)

LEMMA ReadyIsSafe ==
    ASSUME NEW count, NEW risks \in Nat, NEW ended, ReadinessOf(count, risks, ended) \in {"OBSERVING", "READY"}
    PROVE  risks = 0
BY DEF ReadinessOf

LEMMA RebuiltIsTrue ==
    ASSUME NEW written \in SUBSET Evaluations, NEW d
    PROVE  LET s == Rebuilt(written, d)
           IN  /\ s.count = Cardinality(RowsOf(written, d))
               /\ s.risks = Cardinality({e \in RowsOf(written, d) : Facts[e].risky})
               /\ s.readiness \in {"OBSERVING", "READY"} => \A e \in RowsOf(written, d) : ~Facts[e].risky
<1> DEFINE mine == RowsOf(written, d)
           risky == {e \in mine : Facts[e].risky}
           s == Rebuilt(written, d)
<1>1. IsFiniteSet(risky)
  <2>1. risky \in SUBSET Evaluations
        BY DEF RowsOf
  <2> QED BY <2>1, FS_Subset, EvolutionAssumption
<1>2. Cardinality(risky) \in Nat /\ (Cardinality(risky) = 0 => risky = {})
  <2> HIDE DEF risky
  <2> QED BY <1>1, FS_CardinalityType, FS_EmptySet
<1>3. /\ s.count = Cardinality(mine) /\ s.risks = Cardinality(risky)
      /\ s.readiness = ReadinessOf(Cardinality(mine), Cardinality(risky), closed)
      BY DEF Rebuilt
<1>4. s.readiness \in {"OBSERVING", "READY"} => risky = {}
  <2> HIDE DEF s, mine, risky
  <2> QED BY <1>2, <1>3, ReadyIsSafe
<1> QED BY <1>3, <1>4

LEMMA EvidenceStep ==
    ASSUME EvolutionInv, EvidenceNext
    PROVE  /\ DOMAIN snapshot' = Dnas /\ DOMAIN sealed' = Datasets /\ rows' \in SUBSET Evaluations
           /\ SnapshotsAreTrue'
           /\ \A x \in Datasets : sealed[x] # {} => sealed'[x] = sealed[x]
<1>1. /\ DOMAIN snapshot = Dnas /\ DOMAIN sealed = Datasets /\ rows \in SUBSET Evaluations /\ SnapshotsAreTrue
      BY DEF EvolutionInv, EvolutionDomains
<1>2. ASSUME NEW d, snapshot' = [snapshot EXCEPT ![d] = Rebuilt(rows', d)],
             rows' \in SUBSET Evaluations, \A c \in Dnas : c # d => RowsOf(rows', c) = RowsOf(rows, c),
             UNCHANGED sealed
      PROVE  DOMAIN snapshot' = Dnas /\ SnapshotsAreTrue'
  <2>1. DOMAIN snapshot' = Dnas
        BY <1>1, <1>2
  <2>2. ASSUME NEW c \in Dnas, snapshot'[c].revision > 0
        PROVE  /\ snapshot'[c].count = Cardinality(RowsOf(rows', c))
               /\ snapshot'[c].risks = Cardinality({e \in RowsOf(rows', c) : Facts[e].risky})
               /\ snapshot'[c].readiness \in {"OBSERVING", "READY"} => \A e \in RowsOf(rows', c) : ~Facts[e].risky
    <3>1. CASE c = d
      <4>1. snapshot'[c] = Rebuilt(rows', d)
            BY <1>1, <1>2, <3>1
      <4> QED BY <1>2, <3>1, <4>1, RebuiltIsTrue
    <3>2. CASE c # d
      <4>1. snapshot'[c] = snapshot[c] /\ RowsOf(rows', c) = RowsOf(rows, c)
            BY <1>1, <1>2, <3>2
      <4> QED BY <1>1, <2>2, <4>1 DEF SnapshotsAreTrue
    <3> QED BY <3>1, <3>2
  <2>3. \A c : RowsOf(rows, c)' = RowsOf(rows', c)
        BY DEF RowsOf
  <2> QED BY <2>1, <2>2, <2>3 DEF SnapshotsAreTrue
<1>3. ASSUME NEW e \in Evaluations, Project(e)
      PROVE  /\ rows' \in SUBSET Evaluations /\ UNCHANGED sealed
             /\ DOMAIN snapshot' = Dnas /\ SnapshotsAreTrue'
  <2> DEFINE d == Facts[e].dna
  <2>1. rows' = rows \cup {e} /\ snapshot' = [snapshot EXCEPT ![d] = Rebuilt(rows', d)] /\ UNCHANGED sealed
        BY <1>3 DEF Project
  <2>2. rows' \in SUBSET Evaluations
        BY <1>1, <2>1
  <2>3. \A c \in Dnas : c # d => RowsOf(rows', c) = RowsOf(rows, c)
        BY <2>1 DEF RowsOf
  <2> HIDE DEF d
  <2> QED BY <1>2, <2>1, <2>2, <2>3
<1>4. ASSUME NEW d \in Dnas, Refresh(d)
      PROVE  /\ rows' \in SUBSET Evaluations /\ UNCHANGED sealed
             /\ DOMAIN snapshot' = Dnas /\ SnapshotsAreTrue'
  <2>1. rows' = rows /\ UNCHANGED sealed
        BY <1>4 DEF Refresh
  <2>2. snapshot' = [snapshot EXCEPT ![d] = Rebuilt(rows', d)]
        BY <1>4, <2>1 DEF Refresh
  <2> QED BY <1>1, <1>2, <2>1, <2>2
<1>5. ASSUME NEW x \in Datasets, BuildDataset(x)
      PROVE  /\ DOMAIN sealed' = Datasets /\ \A y \in Datasets : sealed[y] # {} => sealed'[y] = sealed[y]
             /\ UNCHANGED <<rows, snapshot>>
      BY <1>1, <1>5 DEF BuildDataset, Buildable
<1>6. CloseWindow => UNCHANGED <<rows, snapshot, sealed>>
      BY DEF CloseWindow
<1>7. UNCHANGED <<rows, snapshot>> => SnapshotsAreTrue'
      BY <1>1 DEF SnapshotsAreTrue, RowsOf
<1> QED BY <1>1, <1>3, <1>4, <1>5, <1>6, <1>7 DEF EvidenceNext

-----------------------------------------------------------------------------
(* What a generator makes: the fold over the operations as a function of   *)
(* the positions that are done, which exists as the sums above do.         *)

GeneratedBy(donor, op, done) ==
    {Apply(w, donor, op) : w \in {x \in done : Path(op) \in MutablePaths /\ Applies(x, donor, op)}}

Before(s) == s \ {Max(s)}
Generates(base, donor, ops, S, it) ==
    it = [s \in SUBSET S |-> IF s = {} THEN {base} ELSE GeneratedBy(donor, ops[Max(s)], it[Before(s)])]
Generating(base, donor, ops, S) == CHOOSE it : Generates(base, donor, ops, S, it)

LEMMA GeneratedIs ==
    ASSUME NEW base, NEW donor, NEW ops
    PROVE  Generated(base, donor, ops) = Generating(base, donor, ops, DOMAIN ops)[DOMAIN ops]
BY DEF Generated, FoldLeft, MapThenFoldSet, Generating, Generates, Before, GeneratedBy

LEMMA BeforeIs ==
    ASSUME NEW S \in SUBSET Int, IsFiniteSet(S), NEW s \in SUBSET S, s # {}
    PROVE  Before(s) \in SUBSET s /\ Before(s) # s /\ Max(s) \in s
<1>1. IsFiniteSet(s) /\ s \in SUBSET Int
      BY FS_Subset
<1>2. Max(s) \in s
      BY <1>1, MaxIs
<1> QED BY <1>2 DEF Before

LEMMA GenerationsAgree ==
    ASSUME NEW base, NEW donor, NEW ops, NEW S \in SUBSET Int, IsFiniteSet(S), NEW U, NEW a, NEW b,
           Generates(base, donor, ops, S, a), Generates(base, donor, ops, U, b),
           NEW w \in SUBSET S, w \in SUBSET U
    PROVE  a[w] = b[w]
<1> DEFINE T == {s \in SUBSET w : a[s] # b[s]}
<1>1. SUFFICES ASSUME w \in T PROVE FALSE
      OBVIOUS
<1>2. T \in SUBSET SUBSET w /\ IsFiniteSet(w)
      BY FS_Subset
<1>3. PICK low \in T : \A s \in SUBSET low : s # low => s \notin T
  <2> HIDE DEF T
  <2>1. T # {} /\ T \in SUBSET SUBSET w
        BY <1>1, <1>2
  <2>2. IsFiniteSet(w)
        BY <1>2
  <2> QED BY <2>1, <2>2, SmallestSet
<1>4. low \in SUBSET w /\ a[low] # b[low]
      OBVIOUS
<1>5. low # {}
      BY <1>4 DEF Generates
<1>6. Before(low) \in SUBSET low /\ Before(low) # low
      BY <1>4, <1>5, BeforeIs
<1>7. a[Before(low)] = b[Before(low)]
  <2>1. Before(low) \in SUBSET w
        BY <1>4, <1>6
  <2>2. Before(low) \notin T
        BY <1>3, <1>6
  <2> QED BY <2>1, <2>2
<1>8. /\ a[low] = GeneratedBy(donor, ops[Max(low)], a[Before(low)])
      /\ b[low] = GeneratedBy(donor, ops[Max(low)], b[Before(low)])
      BY <1>4, <1>5 DEF Generates
<1> QED BY <1>4, <1>7, <1>8

LEMMA GenerationsExist ==
    ASSUME NEW base, NEW donor, NEW ops, NEW S \in SUBSET Int, IsFiniteSet(S)
    PROVE  Generates(base, donor, ops, S, Generating(base, donor, ops, S))
<1> DEFINE made(u) == Generating(base, donor, ops, u)
           holds(u) == Generates(base, donor, ops, u, made(u))
           T == {s \in SUBSET S : ~holds(s)}
<1>1. SUFFICES ASSUME T # {} PROVE FALSE
      OBVIOUS
<1>2. PICK s \in T : \A u \in SUBSET s : u # s => u \notin T
  <2> HIDE DEF T
  <2>1. T \in SUBSET SUBSET S
        BY DEF T
  <2> QED BY <1>1, <2>1, SmallestSet
<1>3. s \in SUBSET S /\ \A u \in SUBSET s : u # s => holds(u)
      BY <1>2
<1> DEFINE step(u) == IF u = {} THEN {base} ELSE GeneratedBy(donor, ops[Max(u)], made(Before(u))[Before(u)])
           it == [u \in SUBSET s |-> step(u)]
           next(u) == IF u = {} THEN {base} ELSE GeneratedBy(donor, ops[Max(u)], it[Before(u)])
<1>4. ASSUME NEW u \in SUBSET s, u # {} PROVE it[Before(u)] = made(Before(u))[Before(u)]
  <2> DEFINE v == Before(u)
  <2>1. v \in SUBSET u /\ v # s /\ v \in SUBSET s /\ v \in SUBSET S
    <3>1. u \in SUBSET S
          BY <1>3
    <3>2. Before(u) \in SUBSET u /\ Before(u) # u
          BY <1>4, <3>1, BeforeIs
    <3> QED BY <3>1, <3>2
  <2>2. Generates(base, donor, ops, v, made(v))
        BY <1>3, <2>1
  <2>3. CASE v = {}
    <3>1. it[v] = {base}
          BY <2>1, <2>3
    <3>2. made(v)[v] = {base}
      <4> HIDE DEF v, made
      <4> QED BY <2>2, <2>3 DEF Generates
    <3> QED BY <3>1, <3>2
  <2>4. CASE v # {}
    <3> DEFINE x == Before(v)
    <3>1. x \in SUBSET v /\ x # v /\ x \in SUBSET s /\ x # s /\ x \in SUBSET S
      <4> HIDE DEF v
      <4>1. x \in SUBSET v /\ x # v
            BY <2>1, <2>4, BeforeIs
      <4> QED BY <2>1, <4>1
    <3>2. Generates(base, donor, ops, x, made(x))
          BY <1>3, <3>1
    <3>3. IsFiniteSet(v) /\ v \in SUBSET Int
          BY <2>1, FS_Subset
    <3>4. it[v] = GeneratedBy(donor, ops[Max(v)], made(x)[x])
          BY <2>1, <2>4
    <3> HIDE DEF v, made, x
    <3>5. made(v)[x] = made(x)[x]
          BY <2>2, <3>1, <3>2, <3>3, GenerationsAgree
    <3>6. made(v)[v] = GeneratedBy(donor, ops[Max(v)], made(v)[x])
          BY <2>2, <2>4 DEF Generates, x
    <3> QED BY <3>4, <3>5, <3>6 DEF v
  <2> QED BY <2>3, <2>4
<1>5. it = [u \in SUBSET s |-> next(u)]
  <2>1. \A u \in SUBSET s : step(u) = next(u)
        BY <1>4
  <2>2. it = [u \in SUBSET s |-> step(u)]
        OBVIOUS
  <2> HIDE DEF step, next, it
  <2> QED BY <2>1, <2>2
<1>6. Generates(base, donor, ops, s, it)
  <2> HIDE DEF it
  <2> QED BY <1>5 DEF Generates, next
<1> HIDE DEF it
<1>7. Generates(base, donor, ops, s, made(s))
      BY <1>6 DEF Generating
<1> QED BY <1>2, <1>7

(* One operation on a workflow within its boundary. *)
LEMMA AppliedIsBounded ==
    ASSUME NEW base, NEW donor, NEW op, NEW w, WithinBoundary(w, base),
           \A n \in DOMAIN donor : DOMAIN donor[n] = NodeFields,
           op.kind \in Kinds, op.kind = "ADD_SKILL_NODE" => DOMAIN op.value = NodeFields,
           Path(op) \in MutablePaths, Applies(w, donor, op)
    PROVE  WithinBoundary(Apply(w, donor, op), base)
<1>0. \A n \in DOMAIN w : DOMAIN w[n] = NodeFields
      BY DEF WithinBoundary
<1>1. CASE op.kind = "ADD_SKILL_NODE"
  <2>1. <<"nodes">> \in MutablePaths
        BY <1>1 DEF Path
  <2>2. Apply(w, donor, op) = [n \in DOMAIN w \cup {op.node} |-> IF n = op.node THEN op.value ELSE w[n]]
        BY <1>1 DEF Apply
  <2> QED BY <1>0, <1>1, <2>1, <2>2 DEF WithinBoundary
<1>2. CASE op.kind = "REMOVE_NODE"
  <2>1. <<"nodes">> \in MutablePaths
        BY <1>2 DEF Path
  <2>2. Apply(w, donor, op) = [n \in DOMAIN w \ {op.node} |-> w[n]]
        BY <1>2 DEF Apply
  <2> QED BY <1>0, <2>1, <2>2 DEF WithinBoundary
<1>3. CASE op.kind = "REPLACE_FROM_DONOR"
  <2>1. <<"node", op.node>> \in MutablePaths /\ op.node \in DOMAIN w /\ op.node \in DOMAIN donor
        BY <1>3 DEF Path, Applies
  <2>2. Apply(w, donor, op) = [w EXCEPT ![op.node] = donor[op.node]]
        BY <1>3 DEF Apply
  <2> QED BY <1>0, <2>1, <2>2 DEF WithinBoundary
<1>4. ASSUME op.kind \in {"SET_INPUT", "SET_CONSTRAINT", "SET_CAPABILITY_VERSION"}
      PROVE  WithinBoundary(Apply(w, donor, op), base)
  <2>1. op.node \in DOMAIN w /\ <<op.kind, op.node>> \in MutablePaths
        BY <1>4 DEF Applies, Path
  <2>2. PICK row : /\ Apply(w, donor, op) = [w EXCEPT ![op.node] = row] /\ DOMAIN row = NodeFields
                   /\ op.kind # "SET_INPUT" => row.input = w[op.node].input
    <3>1. DOMAIN w[op.node] = NodeFields
          BY <1>0, <2>1
    <3>2. CASE op.kind = "SET_INPUT"
      <4>1. Apply(w, donor, op) = [w EXCEPT ![op.node] = [w[op.node] EXCEPT !.input = op.value]]
            BY <3>2 DEF Apply
      <4> QED BY <3>1, <3>2, <4>1
    <3>3. CASE op.kind = "SET_CONSTRAINT"
      <4>1. Apply(w, donor, op) = [w EXCEPT ![op.node] = [w[op.node] EXCEPT !.limit = op.value]]
            BY <3>3 DEF Apply
      <4> QED BY <3>1, <3>3, <4>1 DEF NodeFields
    <3>4. CASE op.kind = "SET_CAPABILITY_VERSION"
      <4>1. Apply(w, donor, op) = [w EXCEPT ![op.node] = [w[op.node] EXCEPT !.binding = op.value]]
            BY <3>4 DEF Apply
      <4> QED BY <3>1, <3>4, <4>1 DEF NodeFields
    <3> QED BY <1>4, <3>2, <3>3, <3>4
  <2> DEFINE v == Apply(w, donor, op)
  <2>3. DOMAIN v = DOMAIN w /\ v[op.node] = row /\ \A n \in DOMAIN w : n # op.node => v[n] = w[n]
        BY <2>1, <2>2
  <2> HIDE DEF v
  <2>4. \A n \in DOMAIN v : DOMAIN v[n] = NodeFields
        BY <1>0, <2>2, <2>3
  <2>5. ASSUME NEW n \in DOMAIN v \cap DOMAIN base,
               {<<"nodes">>, <<"node", n>>, <<"SET_INPUT", n>>} \cap MutablePaths = {}
        PROVE  v[n].input = base[n].input
    <3>1. w[n].input = base[n].input
          BY <2>3, <2>5 DEF WithinBoundary
    <3>2. CASE n # op.node
          BY <2>3, <3>1, <3>2
    <3>3. CASE n = op.node
      <4>1. op.kind # "SET_INPUT"
            BY <2>1, <2>5, <3>3
      <4> QED BY <2>2, <2>3, <3>1, <3>3, <4>1
    <3> QED BY <3>2, <3>3
  <2>6. <<"nodes">> \notin MutablePaths => DOMAIN v = DOMAIN base
        BY <2>3 DEF WithinBoundary
  <2> QED BY <2>4, <2>5, <2>6 DEF WithinBoundary, v
<1> QED BY <1>1, <1>2, <1>3, <1>4 DEF Kinds

LEMMA GeneratedIsBounded ==
    ASSUME NEW base, NEW donor, NEW ops, AreOperations(ops),
           \A n \in DOMAIN base : DOMAIN base[n] = NodeFields,
           \A n \in DOMAIN donor : DOMAIN donor[n] = NodeFields
    PROVE  \A w \in Generated(base, donor, ops) : WithinBoundary(w, base)
<1> DEFINE S == DOMAIN ops
           it == Generating(base, donor, ops, S)
           bounded(s) == \A w \in it[s] : WithinBoundary(w, base)
           T == {s \in SUBSET S : ~bounded(s)}
<1>1. S \in SUBSET Int /\ IsFiniteSet(S)
  <2>1. S = 1 .. Len(ops) /\ Len(ops) \in Nat
        BY DEF AreOperations
  <2> QED BY <2>1, FS_Interval
<1>2. Generates(base, donor, ops, S, it)
      BY <1>1, GenerationsExist
<1>3. SUFFICES ASSUME T # {} PROVE FALSE
      BY GeneratedIs
<1>4. PICK s \in T : \A u \in SUBSET s : u # s => u \notin T
  <2> HIDE DEF T
  <2>1. T \in SUBSET SUBSET S
        BY DEF T
  <2> QED BY <1>1, <1>3, <2>1, SmallestSet
<1>5. s \in SUBSET S /\ ~bounded(s)
      BY <1>4
<1> HIDE DEF it
<1>6. s # {}
  <2>1. it[{}] = {base}
        BY <1>2 DEF Generates
  <2>2. WithinBoundary(base, base)
        BY DEF WithinBoundary
  <2> QED BY <1>5, <2>1, <2>2
<1>7. Before(s) \in SUBSET s /\ Before(s) # s /\ Max(s) \in S
      BY <1>1, <1>5, <1>6, BeforeIs
<1>8. bounded(Before(s))
      BY <1>4, <1>5, <1>7
<1>9. it[s] = GeneratedBy(donor, ops[Max(s)], it[Before(s)])
      BY <1>2, <1>5, <1>6 DEF Generates
<1>10. PICK op : op = ops[Max(s)] /\ op.kind \in Kinds /\ (op.kind = "ADD_SKILL_NODE" => DOMAIN op.value = NodeFields)
      BY <1>7 DEF AreOperations
<1>11. ASSUME NEW v \in it[s] PROVE WithinBoundary(v, base)
  <2>1. PICK w \in it[Before(s)] : Path(op) \in MutablePaths /\ Applies(w, donor, op) /\ v = Apply(w, donor, op)
        BY <1>9, <1>10 DEF GeneratedBy
  <2>2. WithinBoundary(w, base)
        BY <1>8
  <2> QED BY <1>10, <2>1, <2>2, AppliedIsBounded
<1> QED BY <1>5, <1>11

-----------------------------------------------------------------------------
(* What a stored row keeps *)

KeptRows == <<proposal, replay, selection, sealed>>

LEMMA StoredIs ==
    /\ \A p \in Proposals : StoredFor(p) = {proposal[p]} \ {NoProposal}
    /\ \A r \in Replays : StoredFor(r) = {replay[r]} \ {NoReplay}
    /\ \A s \in Selections : StoredFor(s) = {selection[s]} \ {NoSelection}
    /\ Keyed = Proposals \cup Replays \cup Selections
BY EvolutionAssumption DEF StoredFor, Keyed

(* Proposals, replays and calls after a step that stores no proposal. *)
LEMMA ProposalsStay ==
    ASSUME EvolutionInv, Kept, UNCHANGED proposal
    PROVE  ProposalInv'
<1>1. \A p \in Proposals : StoredProposal(p) => EarnedProposal(p)'
      BY DEF EvolutionInv, ProposalInv, EarnedProposal, Kept
<1> QED BY <1>1 DEF EvolutionInv, ProposalInv, StoredProposal

LEMMA ReplayStays ==
    ASSUME EvolutionInv, Kept, NEW r \in Replays, replay[r] # NoReplay
    PROVE  replay'[r] = replay[r] /\ EarnedReplay(r)'
<1>1. EarnedReplay(r) /\ replay'[r] = replay[r]
      BY DEF EvolutionInv, ReplayInv, Kept
<1>2. replay[r].proposal \in Proposals /\ StoredProposal(replay[r].proposal)
      BY <1>1 DEF EarnedReplay
<1>3. proposal'[replay[r].proposal] = proposal[replay[r].proposal]
      BY <1>2 DEF Kept
<1>4. sealed'[proposal[replay[r].proposal].dataset] = sealed[proposal[replay[r].proposal].dataset]
      BY <1>2 DEF EvolutionInv, ProposalInv, EarnedProposal, Kept
<1> QED BY <1>1, <1>3, <1>4 DEF EarnedReplay, StoredProposal, HeldOut

LEMMA PopulationStays ==
    ASSUME EvolutionInv, Kept, NEW rs \in [1..2 -> Replays], Population(rs)
    PROVE  Population(rs)' /\ SelectionOf(rs)' = SelectionOf(rs)
<1>1. \A i \in DOMAIN rs : rs[i] \in Replays /\ replay[rs[i]] # NoReplay
      BY DEF Population
<1>2. \A i \in DOMAIN rs : replay'[rs[i]] = replay[rs[i]]
      BY <1>1 DEF Kept
<1>3. \A i \in DOMAIN rs : proposal'[replay[rs[i]].proposal] = proposal[replay[rs[i]].proposal]
      BY <1>1 DEF Kept, EvolutionInv, ReplayInv, EarnedReplay
<1>4. Population(rs)'
      BY <1>2 DEF Population
<1>5. Members(rs)' = Members(rs)
      BY <1>2, <1>3 DEF Members
<1>6. SelectionOf(rs)' = SelectionOf(rs)
      BY <1>5 DEF SelectionOf
<1> QED BY <1>4, <1>6

LEMMA ReplaysStay ==
    ASSUME EvolutionInv, Kept, UNCHANGED replay
    PROVE  ReplayInv'
BY ReplayStays DEF ReplayInv

LEMMA SelectionsStay ==
    ASSUME EvolutionInv, Kept, UNCHANGED selection
    PROVE  SelectionInv'
<1> SUFFICES ASSUME NEW s \in Selections, selection[s] # NoSelection
             PROVE  \E rs \in [1..2 -> Replays] : Population(rs)' /\ selection[s] = SelectionOf(rs)'
    BY DEF SelectionInv
<1>1. PICK rs \in [1..2 -> Replays] : Population(rs) /\ selection[s] = SelectionOf(rs)
      BY DEF EvolutionInv, SelectionInv
<1> QED BY <1>1, PopulationStays

\* What a call holds is still stored
CallHolds(c) ==
    /\ call[c].pc = "drive" => call[c].id \in Proposals
    /\ call[c].pc = "sandbox" =>
          /\ call[c].id \in Replays /\ call[c].argument[1] \in Proposals
          /\ StoredProposal(call[c].argument[1])
    /\ call[c].pc = "select" =>
          /\ call[c].id \in Selections /\ call[c].argument \in [1..2 -> Replays]
          /\ Population(call[c].argument)

LEMMA CallStays ==
    ASSUME EvolutionInv, Kept, NEW c \in Calls, call'[c] = call[c]
    PROVE  CallHolds(c)'
<1>1. CallHolds(c)
      BY DEF EvolutionInv, CallInv, CallHolds
<1>2. call[c].pc = "sandbox" => StoredProposal(call[c].argument[1])'
      BY <1>1 DEF CallHolds, Kept, StoredProposal
<1>3. ASSUME call[c].pc = "select" PROVE Population(call[c].argument)'
  <2>1. PICK rs \in [1..2 -> Replays] : rs = call[c].argument
        BY <1>1, <1>3 DEF CallHolds
  <2>2. Population(rs)
        BY <1>1, <1>3, <2>1 DEF CallHolds
  <2>3. Population(rs)'
        BY <2>2, PopulationStays
  <2> QED BY <2>1, <2>3 DEF Population
<1> QED BY <1>1, <1>2, <1>3 DEF CallHolds

LEMMA CallsHold ==
    ASSUME \A c \in Calls : CallHolds(c)'
    PROVE  CallInv'
BY DEF CallInv, CallHolds

LEMMA CallsStay ==
    ASSUME EvolutionInv, Kept, UNCHANGED call
    PROVE  CallInv'
BY CallStays, CallsHold

LEMMA CallReturns ==
    ASSUME EvolutionInv, Kept, NEW c \in Calls, Returns(c)
    PROVE  CallInv' /\ DOMAIN call' = Calls
<1>1. DOMAIN call = Calls
      BY DEF EvolutionInv, EvolutionDomains
<1>2. DOMAIN call' = Calls /\ call'[c] = NoCall /\ \A b \in Calls : b # c => call'[b] = call[b]
      BY <1>1 DEF Returns
<1>3. CallHolds(c)'
      BY <1>2 DEF CallHolds, NoCall
<1> QED BY <1>2, <1>3, CallStays, CallsHold

LEMMA StoredStays ==
    ASSUME Kept, NEW k \in Keyed
    PROVE  StoredFor(k) \in SUBSET StoredFor(k)'
<1>1. CASE k \in Proposals
      BY <1>1 DEF StoredFor, Kept, StoredProposal
<1>2. CASE k \in Replays
      BY <1>2, EvolutionAssumption DEF StoredFor, Kept
<1>3. CASE k \in Selections
      BY <1>3, EvolutionAssumption DEF StoredFor, Kept
<1> QED BY <1>1, <1>2, <1>3 DEF Keyed

LEMMA AnswersStay ==
    ASSUME EvolutionInv, Kept, UNCHANGED answered
    PROVE  AnswerInv' /\ DOMAIN answered' = Keyed
BY StoredStays DEF EvolutionInv, EvolutionDomains, AnswerInv

LEMMA AnswerGiven ==
    ASSUME EvolutionInv, Kept, NEW k \in Keyed, NEW row, Answers(k, row), row \in StoredFor(k)'
    PROVE  AnswerInv' /\ DOMAIN answered' = Keyed
<1>1. DOMAIN answered = Keyed /\ \A l \in Keyed : answered[l] \in SUBSET StoredFor(l)
      BY DEF EvolutionInv, EvolutionDomains, AnswerInv
<1>2. /\ DOMAIN answered' = Keyed /\ answered'[k] = answered[k] \cup {row}
      /\ \A l \in Keyed : l # k => answered'[l] = answered[l]
      BY <1>1 DEF Answers
<1>3. ASSUME NEW l \in Keyed PROVE answered'[l] \in SUBSET StoredFor(l)'
  <2>1. StoredFor(l) \in SUBSET StoredFor(l)'
        BY StoredStays
  <2> QED BY <1>1, <1>2, <2>1
<1> QED BY <1>2, <1>3 DEF AnswerInv

LEMMA SnapshotsStay ==
    ASSUME EvolutionInv, UNCHANGED evidenceVars
    PROVE  SnapshotsAreTrue' /\ DOMAIN snapshot' = Dnas /\ DOMAIN sealed' = Datasets /\ rows' \in SUBSET Evaluations
<1>1. UNCHANGED <<rows, snapshot, sealed>>
      BY DEF evidenceVars
<1> QED BY <1>1 DEF EvolutionInv, EvolutionDomains, SnapshotsAreTrue, RowsOf

-----------------------------------------------------------------------------
(* The steps *)

IsRequest(request) ==
    /\ request.base \in DOMAIN Workflows /\ request.donor \in DOMAIN Workflows \cup {"none"}
    /\ request.dataset \in Datasets /\ AreOperations(request.operations)

LEMMA AutoRequestIs ==
    ASSUME NEW weakness, NEW n, NEW x \in Datasets
    PROVE  IsRequest(AutoRequest(weakness, n, x))
<1> DEFINE request == AutoRequest(weakness, n, x)
           ops == <<[kind |-> "SET_INPUT", node |-> n, value |-> AutoValue[weakness]]>>
<1>1. /\ request.base = Active /\ request.donor = "none" /\ request.dataset = x /\ request.operations = ops
      BY DEF AutoRequest
<1>2. DOMAIN ops = {1} /\ Len(ops) = 1 /\ ops[1].kind = "SET_INPUT"
      OBVIOUS
<1>3. AreOperations(ops)
      BY <1>2 DEF AreOperations, Kinds
<1> QED BY <1>1, <1>3, EvolutionAssumption DEF IsRequest

LEMMA CandidateIsBounded ==
    ASSUME NEW request, IsRequest(request)
    PROVE  \A w \in Candidate(request) : WithinBoundary(w, Workflows[request.base])
<1> DEFINE base == Workflows[request.base]
           donor == IF request.donor = "none" THEN <<>> ELSE Workflows[request.donor]
<1>1. \A n \in DOMAIN base : DOMAIN base[n] = NodeFields
      BY EvolutionAssumption DEF IsRequest
<1>2. \A n \in DOMAIN donor : DOMAIN donor[n] = NodeFields
  <2>1. CASE request.donor = "none"
    <3>1. donor = <<>>
          BY <2>1
    <3>2. DOMAIN <<>> = {}
          OBVIOUS
    <3> QED BY <3>1, <3>2
  <2>2. CASE request.donor # "none"
    <3>1. donor = Workflows[request.donor] /\ request.donor \in DOMAIN Workflows
          BY <2>2 DEF IsRequest
    <3> QED BY <3>1, EvolutionAssumption
  <2> QED BY <2>1, <2>2
<1>3. Candidate(request) = Generated(base, donor, request.operations)
      BY DEF Candidate
<1> HIDE DEF base, donor
<1>4. \A w \in Candidate(request) : WithinBoundary(w, base)
      BY <1>1, <1>2, <1>3, GeneratedIsBounded DEF IsRequest
<1> QED BY <1>4 DEF base

LEMMA StoresStep ==
    ASSUME EvolutionInv, NEW p \in Proposals, NEW request, IsRequest(request), Stores(p, request),
           UNCHANGED <<evidenceVars, replay, selection>>
    PROVE  /\ Kept /\ ProposalInv' /\ DOMAIN proposal' = Proposals
           /\ AnswerInv' /\ DOMAIN answered' = Keyed
<1> DEFINE row == ProposalRow(request)
<1>1. DOMAIN proposal = Proposals /\ ProposalInv
      BY DEF EvolutionInv, EvolutionDomains
<1>2. row.content = Candidate(request) /\ row.version = request.version /\ row.base = request.base
      /\ row.dataset = request.dataset
      BY DEF ProposalRow
<1>3. (\E w \in row.content : WithinPolicy(w)) /\ sealed[row.dataset] # {} /\ Answers(p, row)
      BY <1>2 DEF Stores
<1>4. row # NoProposal
      BY <1>3 DEF NoProposal
<1>5. UNCHANGED <<sealed, replay, selection>>
      BY DEF evidenceVars
<1>6. \/ /\ proposal[p] = NoProposal /\ proposal' = [proposal EXCEPT ![p] = row]
         /\ \A q \in Proposals : <<proposal[q].content, proposal[q].version>> # <<row.content, row.version>>
      \/ proposal[p] = row /\ proposal' = proposal
      BY DEF Stores
<1>7. row.dataset \in Datasets /\ row.base \in DOMAIN Workflows
      BY <1>2 DEF IsRequest
<1>8. \A w \in row.content : WithinBoundary(w, Workflows[row.base])
      BY <1>2, CandidateIsBounded
<1>9. DOMAIN proposal' = Proposals /\ proposal'[p] = row /\ \A q \in Proposals : q # p => proposal'[q] = proposal[q]
  <2> HIDE DEF row
  <2> QED BY <1>1, <1>6
<1>10. Kept
  <2> HIDE DEF row
  <2> QED BY <1>5, <1>6, <1>9 DEF Kept, StoredProposal
<1>11. ProposalInv'
  <2>1. CASE proposal' = proposal
        BY <1>10, <2>1, ProposalsStay
  <2>2. CASE /\ proposal[p] = NoProposal
             /\ \A q \in Proposals : <<proposal[q].content, proposal[q].version>> # <<row.content, row.version>>
    <3> HIDE DEF row
    <3>1. EarnedProposal(p)'
          BY <1>3, <1>5, <1>7, <1>8, <1>9 DEF EarnedProposal
    <3>2. \A q \in Proposals : q # p /\ StoredProposal(q) => EarnedProposal(q)'
          BY <1>1, <1>5, <1>9 DEF EarnedProposal, ProposalInv
    <3>3. \A q \in Proposals : StoredProposal(q)' => EarnedProposal(q)'
          BY <1>9, <3>1, <3>2 DEF StoredProposal
    <3>4. \A q, o \in Proposals : q # o /\ StoredProposal(q)' /\ StoredProposal(o)' =>
            <<proposal'[q].content, proposal'[q].version>> # <<proposal'[o].content, proposal'[o].version>>
      <4> SUFFICES ASSUME NEW q \in Proposals, NEW o \in Proposals, q # o, StoredProposal(q)', StoredProposal(o)'
                   PROVE  <<proposal'[q].content, proposal'[q].version>> # <<proposal'[o].content, proposal'[o].version>>
          OBVIOUS
      <4>1. CASE q = p
            BY <1>9, <2>2, <4>1
      <4>2. CASE o = p
            BY <1>9, <2>2, <4>2
      <4>3. CASE q # p /\ o # p
        <5>1. proposal'[q] = proposal[q] /\ proposal'[o] = proposal[o]
              BY <1>9, <4>3
        <5>2. StoredProposal(q) /\ StoredProposal(o)
              BY <5>1 DEF StoredProposal
        <5> QED BY <1>1, <5>1, <5>2 DEF ProposalInv
      <4> QED BY <4>1, <4>2, <4>3
    <3> QED BY <3>3, <3>4 DEF ProposalInv
  <2> QED BY <1>6, <2>1, <2>2
<1>12. row \in StoredFor(p)'
  <2>1. StoredFor(p)' = {proposal'[p]} \ {NoProposal}
        BY DEF StoredFor
  <2> HIDE DEF row
  <2> QED BY <1>4, <1>9, <2>1
<1>13. p \in Keyed
      BY DEF Keyed
<1> HIDE DEF row
<1> QED BY <1>3, <1>9, <1>10, <1>11, <1>12, <1>13, AnswerGiven

LEMMA GenerateStep ==
    ASSUME EvolutionInv, NEW p \in Proposals, NEW request \in Requests, Generate(p, request)
    PROVE  EvolutionInv' /\ Kept
<1>1. Stores(p, request) /\ UNCHANGED <<evidenceVars, replay, selection, call>>
      BY DEF Generate
<1>2. IsRequest(request)
      BY EvolutionAssumption DEF IsRequest
<1>3. /\ Kept /\ ProposalInv' /\ DOMAIN proposal' = Proposals
      /\ AnswerInv' /\ DOMAIN answered' = Keyed
      BY <1>1, <1>2, StoresStep
<1>4. ReplayInv' /\ SelectionInv' /\ CallInv'
      BY <1>1, <1>3, ReplaysStay, SelectionsStay, CallsStay
<1>5. SnapshotsAreTrue' /\ DOMAIN snapshot' = Dnas /\ DOMAIN sealed' = Datasets /\ rows' \in SUBSET Evaluations
      BY <1>1, SnapshotsStay
<1> QED BY <1>1, <1>3, <1>4, <1>5 DEF EvolutionInv, EvolutionDomains

LEMMA DriveStep ==
    ASSUME EvolutionInv, NEW c \in Calls, Drive(c)
    PROVE  EvolutionInv' /\ Kept
<1>1. Returns(c) /\ UNCHANGED <<evidenceVars, replay, selection>> /\ call[c].pc = "drive"
      BY DEF Drive
<1>2. PICK p \in Proposals : p = call[c].id
      BY <1>1 DEF EvolutionInv, CallInv
<1>3. /\ Kept /\ ProposalInv' /\ DOMAIN proposal' = Proposals
      /\ AnswerInv' /\ DOMAIN answered' = Keyed
  <2>1. CASE UNCHANGED <<proposal, answered>>
    <3>1. Kept
          BY <1>1, <2>1 DEF Kept, evidenceVars
    <3> QED BY <2>1, <3>1, ProposalsStay, AnswersStay DEF EvolutionInv, EvolutionDomains
  <2>2. ASSUME NEW n \in DOMAIN Workflows[Active], NEW x \in Datasets,
               Stores(call[c].id, AutoRequest(call[c].argument[1], n, x))
        PROVE  /\ Kept /\ ProposalInv' /\ DOMAIN proposal' = Proposals
               /\ AnswerInv' /\ DOMAIN answered' = Keyed
    <3>1. PICK request : request = AutoRequest(call[c].argument[1], n, x)
          OBVIOUS
    <3>2. IsRequest(request)
          BY <3>1, AutoRequestIs
    <3>3. Stores(p, request)
          BY <1>2, <2>2, <3>1
    <3> QED BY <1>1, <3>2, <3>3, StoresStep
  <2> QED BY <2>1, <2>2 DEF Drive
<1>4. ReplayInv' /\ SelectionInv'
      BY <1>1, <1>3, ReplaysStay, SelectionsStay
<1>5. CallInv' /\ DOMAIN call' = Calls
      BY <1>1, <1>3, CallReturns
<1>6. SnapshotsAreTrue' /\ DOMAIN snapshot' = Dnas /\ DOMAIN sealed' = Datasets /\ rows' \in SUBSET Evaluations
      BY <1>1, SnapshotsStay
<1> QED BY <1>1, <1>3, <1>4, <1>5, <1>6 DEF EvolutionInv, EvolutionDomains

(* A step that begins a call. *)
LEMMA CallBegins ==
    ASSUME EvolutionInv, NEW c \in Calls, NEW pc, NEW id, NEW argument,
           call' = [call EXCEPT ![c] = [pc |-> pc, id |-> id, argument |-> argument]],
           UNCHANGED <<evidenceVars, proposal, replay, selection, answered>>,
           pc = "drive" => id \in Proposals,
           pc = "sandbox" => id \in Replays /\ argument[1] \in Proposals /\ StoredProposal(argument[1]),
           pc = "select" => id \in Selections /\ argument \in [1..2 -> Replays] /\ Population(argument)
    PROVE  EvolutionInv' /\ Kept
<1>1. Kept
      BY DEF Kept, evidenceVars
<1>2. DOMAIN call = Calls
      BY DEF EvolutionInv, EvolutionDomains
<1>3. /\ DOMAIN call' = Calls /\ call'[c] = [pc |-> pc, id |-> id, argument |-> argument]
      /\ \A b \in Calls : b # c => call'[b] = call[b]
      BY <1>2
<1>4. CallHolds(c)'
      BY <1>3 DEF CallHolds, StoredProposal, Population
<1>5. CallInv'
      BY <1>1, <1>3, <1>4, CallStays, CallsHold
<1>6. ProposalInv' /\ ReplayInv' /\ SelectionInv' /\ AnswerInv' /\ DOMAIN answered' = Keyed
      BY <1>1, ProposalsStay, ReplaysStay, SelectionsStay, AnswersStay
<1>7. SnapshotsAreTrue' /\ DOMAIN snapshot' = Dnas /\ DOMAIN sealed' = Datasets /\ rows' \in SUBSET Evaluations
      BY SnapshotsStay
<1> QED BY <1>1, <1>3, <1>5, <1>6, <1>7 DEF EvolutionInv, EvolutionDomains

LEMMA BeginSteps ==
    ASSUME EvolutionInv, NEW c \in Calls,
           \/ \E p \in Proposals : PlanCandidate(c, p) \/ \E r \in Replays : StartReplay(c, r, p)
           \/ \E s \in Selections, rs \in [1..2 -> Replays] : StartSelection(c, s, rs)
    PROVE  EvolutionInv' /\ Kept
<1>1. ASSUME NEW p \in Proposals, PlanCandidate(c, p) PROVE EvolutionInv' /\ Kept
  <2>1. PICK argument : call' = [call EXCEPT ![c] = [pc |-> "drive", id |-> p, argument |-> argument]]
        BY <1>1 DEF PlanCandidate
  <2> QED BY <1>1, <2>1, CallBegins DEF PlanCandidate
<1>2. ASSUME NEW p \in Proposals, NEW r \in Replays, StartReplay(c, r, p) PROVE EvolutionInv' /\ Kept
  <2>1. PICK argument : argument = <<p>>
        OBVIOUS
  <2>2. argument[1] = p
        BY <2>1
  <2>3. /\ call' = [call EXCEPT ![c] = [pc |-> "sandbox", id |-> r, argument |-> argument]]
        /\ StoredProposal(p) /\ UNCHANGED <<evidenceVars, proposal, replay, selection, answered>>
        BY <1>2, <2>1 DEF StartReplay, Replayable, StoredProposal
  <2> QED BY <2>2, <2>3, CallBegins
<1>3. ASSUME NEW s \in Selections, NEW rs \in [1..2 -> Replays], StartSelection(c, s, rs)
      PROVE  EvolutionInv' /\ Kept
  <2>1. /\ call' = [call EXCEPT ![c] = [pc |-> "select", id |-> s, argument |-> rs]]
        /\ Population(rs) /\ UNCHANGED <<evidenceVars, proposal, replay, selection, answered>>
        BY <1>3 DEF StartSelection
  <2>2. PICK argument : argument = rs
        OBVIOUS
  <2>3. argument \in [1..2 -> Replays] /\ Population(argument)
        BY <2>1, <2>2
  <2>4. call' = [call EXCEPT ![c] = [pc |-> "select", id |-> s, argument |-> argument]]
        BY <2>1, <2>2
  <2>5. "select" # "drive" /\ "select" # "sandbox"
        OBVIOUS
  <2> HIDE <2>2
  <2> QED BY <2>1, <2>3, <2>4, <2>5, CallBegins
<1> QED BY <1>1, <1>2, <1>3

(* Every step tells at most one caller one row, of an id that either had   *)
(* none or keeps the one it has.                                           *)
OneReport ==
    \/ UNCHANGED answered /\ \A k \in Keyed : StoredFor(k)' = StoredFor(k)
    \/ \E k \in Keyed : \E row :
          /\ Answers(k, row) /\ row \in StoredFor(k)'
          /\ StoredFor(k) = {} \/ StoredFor(k)' = StoredFor(k)
          /\ \A l \in Keyed : l # k => StoredFor(l)' = StoredFor(l)

LEMMA NothingStored ==
    ASSUME UNCHANGED <<proposal, replay, selection>>
    PROVE  \A k : StoredFor(k)' = StoredFor(k)
BY DEF StoredFor

LEMMA OthersStay ==
    ASSUME NEW k,
           \A p \in Proposals : p # k => proposal'[p] = proposal[p],
           \A r \in Replays : r # k => replay'[r] = replay[r],
           \A s \in Selections : s # k => selection'[s] = selection[s]
    PROVE  \A l \in Keyed : l # k => StoredFor(l)' = StoredFor(l)
<1> SUFFICES ASSUME NEW l \in Keyed, l # k PROVE StoredFor(l)' = StoredFor(l)
    OBVIOUS
<1>1. CASE l \in Proposals
      BY <1>1 DEF StoredFor
<1>2. CASE l \in Replays
      BY <1>2, EvolutionAssumption DEF StoredFor
<1>3. CASE l \in Selections
      BY <1>3, EvolutionAssumption DEF StoredFor
<1> QED BY <1>1, <1>2, <1>3 DEF Keyed

LEMMA StoresReport ==
    ASSUME EvolutionInv, NEW p \in Proposals, NEW request, Stores(p, request), UNCHANGED <<replay, selection>>
    PROVE  OneReport
<1> DEFINE row == ProposalRow(request)
<1>1. DOMAIN proposal = Proposals
      BY DEF EvolutionInv, EvolutionDomains
<1>2. row # NoProposal /\ Answers(p, row)
      BY DEF Stores, NoProposal, ProposalRow
<1>3. \/ proposal[p] = NoProposal /\ proposal' = [proposal EXCEPT ![p] = row]
      \/ proposal[p] = row /\ proposal' = proposal
      BY DEF Stores
<1> HIDE DEF row
<1>4. proposal'[p] = row /\ \A q \in Proposals : q # p => proposal'[q] = proposal[q]
      BY <1>1, <1>3
<1>5. StoredFor(p)' = {row} /\ (StoredFor(p) = {} \/ StoredFor(p) = {row})
      BY <1>2, <1>3, <1>4 DEF StoredFor
<1>6. \A l \in Keyed : l # p => StoredFor(l)' = StoredFor(l)
      BY <1>4, OthersStay
<1>7. p \in Keyed
      BY DEF Keyed
<1> QED BY <1>2, <1>5, <1>6, <1>7 DEF OneReport

LEMMA PassedIs ==
    ASSUME NEW v \in Measures, NEW steady, Reasons(Parent, v, steady) = {}
    PROVE  v["risk_rate"] >= 0
<1>1. v \in [Dimensions -> Int] /\ "risk_rate" \in Dimensions
      BY EvolutionAssumption
<1>2. v["risk_rate"] \in Int
      BY <1>1
<1>3. ~(v["risk_rate"] < 0)
      BY DEF Reasons
<1> QED BY <1>2, <1>3

LEMMA ReplayStored ==
    ASSUME EvolutionInv, NEW r \in Replays, NEW p \in Proposals, StoredProposal(p), replay[r] = NoReplay,
           NEW vector \in Measures, NEW steady \in BOOLEAN,
           replay' = [replay EXCEPT ![r] = SandboxReport(p, vector, steady)],
           Answers(r, SandboxReport(p, vector, steady)), UNCHANGED <<evidenceVars, proposal, selection>>
    PROVE  /\ Kept /\ ReplayInv' /\ DOMAIN replay' = Replays
           /\ AnswerInv' /\ DOMAIN answered' = Keyed /\ OneReport
<1> DEFINE row == SandboxReport(p, vector, steady)
<1>1. DOMAIN replay = Replays /\ sealed' = sealed
      BY DEF EvolutionInv, EvolutionDomains, evidenceVars
<1>2. /\ row.proposal = p /\ row.vector = vector /\ row.passed = (Reasons(Parent, vector, steady) = {})
      /\ row.cases = HeldOut(proposal[p].dataset)
      BY DEF SandboxReport
<1>3. row # NoReplay
      BY <1>2, EvolutionAssumption DEF NoReplay
<1> HIDE DEF row
<1>4. DOMAIN replay' = Replays /\ replay'[r] = row /\ \A q \in Replays : q # r => replay'[q] = replay[q]
      BY <1>1 DEF row
<1>5. Kept
      BY <1>1, <1>4 DEF Kept
<1>6. EarnedReplay(r)'
  <2>1. row.passed => row.vector["risk_rate"] >= 0
        BY <1>2, PassedIs
  <2>2. row.vector \in [Dimensions -> Int]
        BY <1>2, EvolutionAssumption
  <2>3. HeldOut(proposal[p].dataset)' = HeldOut(proposal[p].dataset)
        BY <1>1 DEF HeldOut
  <2> QED BY <1>2, <1>4, <2>1, <2>2, <2>3 DEF EarnedReplay, StoredProposal
<1>7. ReplayInv'
  <2>1. \A q \in Replays : q # r /\ replay'[q] # NoReplay => EarnedReplay(q)'
        BY <1>4, <1>5, ReplayStays
  <2> QED BY <1>6, <2>1 DEF ReplayInv
<1>8. StoredFor(r)' = {row} /\ StoredFor(r) = {} /\ r \in Keyed
      BY <1>3, <1>4, EvolutionAssumption DEF StoredFor, Keyed
<1>9. AnswerInv' /\ DOMAIN answered' = Keyed
      BY <1>5, <1>8, AnswerGiven DEF row
<1>10. OneReport
  <2>1. \A l \in Keyed : l # r => StoredFor(l)' = StoredFor(l)
        BY <1>4, OthersStay
  <2> QED BY <1>8, <2>1 DEF OneReport, row
<1> QED BY <1>4, <1>5, <1>7, <1>9, <1>10

(* A step that answers with a row as it is, or not at all. *)
LEMMA RowAnswered ==
    ASSUME EvolutionInv, UNCHANGED <<proposal, replay, selection>>, UNCHANGED sealed,
           \/ UNCHANGED answered
           \/ \E k \in Keyed : \E row \in StoredFor(k) : Answers(k, row)
    PROVE  /\ Kept /\ AnswerInv' /\ DOMAIN answered' = Keyed /\ OneReport
           /\ ProposalInv' /\ ReplayInv' /\ SelectionInv'
<1>1. Kept
      BY DEF Kept
<1>2. \A k : StoredFor(k)' = StoredFor(k)
      BY NothingStored
<1>3. ProposalInv' /\ ReplayInv' /\ SelectionInv'
      BY <1>1, ProposalsStay, ReplaysStay, SelectionsStay
<1>4. CASE UNCHANGED answered
      BY <1>1, <1>2, <1>3, <1>4, AnswersStay DEF OneReport
<1>5. ASSUME NEW k \in Keyed, NEW row \in StoredFor(k), Answers(k, row)
      PROVE  AnswerInv' /\ DOMAIN answered' = Keyed /\ OneReport
  <2>1. row \in StoredFor(k)'
        BY <1>2
  <2>2. AnswerInv' /\ DOMAIN answered' = Keyed
        BY <1>1, <1>5, <2>1, AnswerGiven
  <2> QED BY <1>2, <1>5, <2>1, <2>2 DEF OneReport
<1> QED BY <1>1, <1>3, <1>4, <1>5

LEMMA SaveReplayStep ==
    ASSUME EvolutionInv, NEW c \in Calls, SaveReplay(c)
    PROVE  EvolutionInv' /\ OneReport
<1>1. Returns(c) /\ UNCHANGED <<evidenceVars, proposal, selection>> /\ call[c].pc = "sandbox"
      BY DEF SaveReplay
<1>2. PICK r \in Replays, p \in Proposals : r = call[c].id /\ p = call[c].argument[1] /\ StoredProposal(p)
      BY <1>1 DEF EvolutionInv, CallInv
<1>3. /\ Kept /\ ReplayInv' /\ DOMAIN replay' = Replays
      /\ AnswerInv' /\ DOMAIN answered' = Keyed /\ OneReport
  <2>1. ASSUME replay[r] = NoReplay, NEW vector \in Measures, NEW steady \in BOOLEAN,
               replay' = [replay EXCEPT ![r] = SandboxReport(p, vector, steady)],
               Answers(r, SandboxReport(p, vector, steady))
        PROVE  /\ Kept /\ ReplayInv' /\ DOMAIN replay' = Replays
               /\ AnswerInv' /\ DOMAIN answered' = Keyed /\ OneReport
        BY <1>1, <1>2, <2>1, ReplayStored
  <2>2. CASE /\ UNCHANGED replay
             /\ \/ replay[r].proposal = p /\ Answers(r, replay[r])
                \/ UNCHANGED answered
    <3>1. r \in Keyed /\ StoredFor(r) = {replay[r]} \ {NoReplay}
          BY StoredIs
    <3>2. replay[r].proposal = p => replay[r] # NoReplay
          BY EvolutionAssumption DEF NoReplay
    <3>3. UNCHANGED answered \/ \E k \in Keyed : \E row \in StoredFor(k) : Answers(k, row)
          BY <2>2, <3>1, <3>2
    <3> QED BY <1>1, <2>2, <3>3, RowAnswered DEF evidenceVars, EvolutionInv, EvolutionDomains
  <2> QED BY <1>2, <2>1, <2>2 DEF SaveReplay
<1>4. ProposalInv' /\ SelectionInv'
      BY <1>1, <1>3, ProposalsStay, SelectionsStay
<1>5. CallInv' /\ DOMAIN call' = Calls
      BY <1>1, <1>3, CallReturns
<1>6. SnapshotsAreTrue' /\ DOMAIN snapshot' = Dnas /\ DOMAIN sealed' = Datasets /\ rows' \in SUBSET Evaluations
      BY <1>1, SnapshotsStay
<1> QED BY <1>1, <1>3, <1>4, <1>5, <1>6 DEF EvolutionInv, EvolutionDomains

LEMMA SelectionStored ==
    ASSUME EvolutionInv, NEW s \in Selections, NEW rs \in [1..2 -> Replays], Population(rs),
           selection[s] = NoSelection, selection' = [selection EXCEPT ![s] = SelectionOf(rs)],
           Answers(s, SelectionOf(rs)), UNCHANGED <<evidenceVars, proposal, replay>>
    PROVE  /\ Kept /\ SelectionInv' /\ DOMAIN selection' = Selections
           /\ AnswerInv' /\ DOMAIN answered' = Keyed /\ OneReport
<1>1. DOMAIN selection = Selections /\ sealed' = sealed
      BY DEF EvolutionInv, EvolutionDomains, evidenceVars
<1>2. PICK row : row = SelectionOf(rs)
      OBVIOUS
<1>3. row # NoSelection
  <2>1. DOMAIN row = 1..2
        BY <1>2 DEF SelectionOf
  <2>2. 1 \in 1..2 /\ DOMAIN <<>> = {}
        OBVIOUS
  <2> QED BY <2>1, <2>2 DEF NoSelection
<1>4. /\ DOMAIN selection' = Selections /\ selection'[s] = row
      /\ \A t \in Selections : t # s => selection'[t] = selection[t]
      BY <1>1, <1>2
<1>5. Kept
      BY <1>1, <1>4 DEF Kept
<1>6. SelectionInv'
  <2>1. Population(rs)' /\ SelectionOf(rs)' = row
        BY <1>2, <1>5, PopulationStays
  <2>2. ASSUME NEW t \in Selections, t # s, selection'[t] # NoSelection
        PROVE  \E os \in [1..2 -> Replays] : Population(os)' /\ selection'[t] = SelectionOf(os)'
    <3>1. selection'[t] = selection[t]
          BY <1>4, <2>2
    <3>2. PICK os \in [1..2 -> Replays] : Population(os) /\ selection[t] = SelectionOf(os)
          BY <2>2, <3>1 DEF EvolutionInv, SelectionInv
    <3> QED BY <1>5, <3>1, <3>2, PopulationStays
  <2> QED BY <1>4, <2>1, <2>2 DEF SelectionInv
<1>7. StoredFor(s)' = {row} /\ StoredFor(s) = {} /\ s \in Keyed
      BY <1>3, <1>4, EvolutionAssumption DEF StoredFor, Keyed
<1>8. Answers(s, row)
      BY <1>2
<1>9. AnswerInv' /\ DOMAIN answered' = Keyed
      BY <1>5, <1>7, <1>8, AnswerGiven
<1>10. OneReport
  <2>1. \A l \in Keyed : l # s => StoredFor(l)' = StoredFor(l)
        BY <1>4, OthersStay
  <2> QED BY <1>7, <1>8, <2>1 DEF OneReport
<1> QED BY <1>4, <1>5, <1>6, <1>9, <1>10

LEMMA SaveSelectionStep ==
    ASSUME EvolutionInv, NEW c \in Calls, SaveSelection(c)
    PROVE  EvolutionInv' /\ OneReport
<1>1. Returns(c) /\ UNCHANGED <<evidenceVars, proposal, replay>> /\ call[c].pc = "select"
      BY DEF SaveSelection
<1>2. PICK s \in Selections, rs \in [1..2 -> Replays] : s = call[c].id /\ rs = call[c].argument
      BY <1>1 DEF EvolutionInv, CallInv
<1>3. Population(rs)
      BY <1>1, <1>2 DEF EvolutionInv, CallInv
<1>4. \/ /\ selection[s] = NoSelection /\ selection' = [selection EXCEPT ![s] = SelectionOf(rs)]
         /\ Answers(s, SelectionOf(rs))
      \/ UNCHANGED <<selection, answered>>
      BY <1>2 DEF SaveSelection, SelectionOf
<1>5. /\ Kept /\ SelectionInv' /\ DOMAIN selection' = Selections
      /\ AnswerInv' /\ DOMAIN answered' = Keyed /\ OneReport
  <2>1. CASE UNCHANGED <<selection, answered>>
        BY <1>1, <2>1, RowAnswered DEF evidenceVars, EvolutionInv, EvolutionDomains
  <2>2. CASE /\ selection[s] = NoSelection /\ selection' = [selection EXCEPT ![s] = SelectionOf(rs)]
             /\ Answers(s, SelectionOf(rs))
        BY <1>1, <1>3, <2>2, SelectionStored
  <2> QED BY <1>4, <2>1, <2>2
<1>6. ProposalInv' /\ ReplayInv'
      BY <1>1, <1>5, ProposalsStay, ReplaysStay
<1>7. CallInv' /\ DOMAIN call' = Calls
      BY <1>1, <1>5, CallReturns
<1>8. SnapshotsAreTrue' /\ DOMAIN snapshot' = Dnas /\ DOMAIN sealed' = Datasets /\ rows' \in SUBSET Evaluations
      BY <1>1, SnapshotsStay
<1> QED BY <1>1, <1>5, <1>6, <1>7, <1>8 DEF EvolutionInv, EvolutionDomains

LEMMA GetSteps ==
    ASSUME EvolutionInv,
           \/ \E r \in Replays : GetReplay(r)
           \/ \E s \in Selections : GetSelection(s)
           \/ \E c \in Calls : CrashCall(c)
    PROVE  EvolutionInv' /\ OneReport
<1>1. UNCHANGED <<evidenceVars, proposal, replay, selection>>
      BY DEF GetReplay, GetSelection, CrashCall
<1>2. UNCHANGED answered \/ \E k \in Keyed : \E row \in StoredFor(k) : Answers(k, row)
  <2>1. ASSUME NEW r \in Replays, GetReplay(r) PROVE \E k \in Keyed : \E row \in StoredFor(k) : Answers(k, row)
    <3>1. r \in Keyed /\ replay[r] \in StoredFor(r) /\ Answers(r, replay[r])
          BY <2>1, StoredIs DEF GetReplay
    <3> QED BY <3>1
  <2>2. ASSUME NEW s \in Selections, GetSelection(s) PROVE \E k \in Keyed : \E row \in StoredFor(k) : Answers(k, row)
    <3>1. s \in Keyed /\ selection[s] \in StoredFor(s) /\ Answers(s, selection[s])
          BY <2>2, StoredIs DEF GetSelection
    <3> QED BY <3>1
  <2>3. ASSUME NEW c \in Calls, CrashCall(c) PROVE UNCHANGED answered
        BY <2>3 DEF CrashCall
  <2> QED BY <2>1, <2>2, <2>3
<1>3. /\ Kept /\ AnswerInv' /\ DOMAIN answered' = Keyed /\ OneReport
      /\ ProposalInv' /\ ReplayInv' /\ SelectionInv'
      BY <1>1, <1>2, RowAnswered DEF evidenceVars
<1>4. CallInv' /\ DOMAIN call' = Calls
  <2>1. CASE UNCHANGED call
        BY <1>3, <2>1, CallsStay DEF EvolutionInv, EvolutionDomains
  <2>2. ASSUME NEW c \in Calls, CrashCall(c) PROVE CallInv' /\ DOMAIN call' = Calls
        BY <1>3, <2>2, CallReturns DEF CrashCall
  <2> QED BY <2>1, <2>2 DEF GetReplay, GetSelection
<1>5. SnapshotsAreTrue' /\ DOMAIN snapshot' = Dnas /\ DOMAIN sealed' = Datasets /\ rows' \in SUBSET Evaluations
      BY <1>1, SnapshotsStay
<1> QED BY <1>1, <1>3, <1>4, <1>5 DEF EvolutionInv, EvolutionDomains

LEMMA EvolutionStutters ==
    ASSUME EvolutionInv, UNCHANGED evolutionVars
    PROVE  EvolutionInv' /\ OneReport
<1>1. UNCHANGED <<proposal, replay, selection, answered, call>> /\ UNCHANGED evidenceVars
      BY DEF evolutionVars
<1>2. /\ Kept /\ AnswerInv' /\ DOMAIN answered' = Keyed /\ OneReport
      /\ ProposalInv' /\ ReplayInv' /\ SelectionInv'
      BY <1>1, RowAnswered DEF evidenceVars
<1>3. CallInv'
      BY <1>1, <1>2, CallsStay
<1>4. SnapshotsAreTrue' /\ DOMAIN snapshot' = Dnas /\ DOMAIN sealed' = Datasets /\ rows' \in SUBSET Evaluations
      BY <1>1, SnapshotsStay
<1> QED BY <1>1, <1>2, <1>3, <1>4 DEF EvolutionInv, EvolutionDomains

LEMMA EvolutionInductiveStep ==
    ASSUME EvolutionInv, [EvolutionNext]_evolutionVars
    PROVE  EvolutionInv' /\ OneReport
<1>1. CASE EvidenceNext /\ UNCHANGED <<proposal, replay, selection, answered, call>>
  <2>1. /\ DOMAIN snapshot' = Dnas /\ DOMAIN sealed' = Datasets /\ rows' \in SUBSET Evaluations
        /\ SnapshotsAreTrue' /\ \A x \in Datasets : sealed[x] # {} => sealed'[x] = sealed[x]
        BY <1>1, EvidenceStep
  <2>2. Kept
        BY <1>1, <2>1 DEF Kept
  <2>3. ProposalInv' /\ ReplayInv' /\ SelectionInv' /\ CallInv' /\ AnswerInv'
        BY <1>1, <2>2, ProposalsStay, ReplaysStay, SelectionsStay, CallsStay, AnswersStay
  <2>4. OneReport
        BY <1>1, NothingStored DEF OneReport
  <2> QED BY <1>1, <2>1, <2>3, <2>4 DEF EvolutionInv, EvolutionDomains
<1>2. ASSUME NEW p \in Proposals, NEW request \in Requests, Generate(p, request)
      PROVE  EvolutionInv' /\ OneReport
      BY <1>2, GenerateStep, StoresReport DEF Generate
<1>3. ASSUME NEW c \in Calls, Drive(c) PROVE EvolutionInv' /\ OneReport
  <2>1. EvolutionInv'
        BY <1>3, DriveStep
  <2>2. UNCHANGED <<replay, selection>> /\ call[c].id \in Proposals
        BY <1>3 DEF Drive, EvolutionInv, CallInv
  <2>3. CASE UNCHANGED <<proposal, answered>>
    <3>1. UNCHANGED <<proposal, replay, selection>>
          BY <2>2, <2>3
    <3>2. \A k : StoredFor(k)' = StoredFor(k)
          BY <3>1, NothingStored
    <3> QED BY <2>1, <2>3, <3>2 DEF OneReport
  <2>4. CASE \E request : Stores(call[c].id, request)
    <3>1. PICK p \in Proposals : p = call[c].id
          BY <2>2
    <3>2. PICK request : Stores(call[c].id, request)
          BY <2>4
    <3>3. Stores(p, request)
          BY <3>1, <3>2
    <3> QED BY <2>1, <2>2, <3>3, StoresReport
  <2> QED BY <1>3, <2>1, <2>3, <2>4 DEF Drive
<1>4. ASSUME NEW c \in Calls,
             \/ \E p \in Proposals : PlanCandidate(c, p) \/ \E r \in Replays : StartReplay(c, r, p)
             \/ \E s \in Selections, rs \in [1..2 -> Replays] : StartSelection(c, s, rs)
      PROVE  EvolutionInv' /\ OneReport
  <2>1. UNCHANGED <<proposal, replay, selection, answered>>
        BY <1>4 DEF PlanCandidate, StartReplay, StartSelection
  <2> QED BY <1>4, <2>1, BeginSteps, NothingStored DEF OneReport
<1>5. ASSUME NEW c \in Calls, SaveReplay(c) \/ SaveSelection(c) PROVE EvolutionInv' /\ OneReport
      BY <1>5, SaveReplayStep, SaveSelectionStep
<1>6. CASE \/ \E r \in Replays : GetReplay(r)
           \/ \E s \in Selections : GetSelection(s)
           \/ \E c \in Calls : CrashCall(c)
      BY <1>6, GetSteps
<1>7. CASE UNCHANGED evolutionVars
      BY <1>7, EvolutionStutters
<1> QED BY <1>1, <1>2, <1>3, <1>4, <1>5, <1>6, <1>7 DEF EvolutionNext

(* Every step is one of the table's (WriteOnce), or none. *)
LEMMA ReportStep ==
    ASSUME EvolutionInv, OneReport
    PROVE  [Reports!Next]_<<[k \in Keyed |-> StoredFor(k)], [k \in Keyed |-> {{row} : row \in answered[k]}]>>
<1> DEFINE written == [k \in Keyed |-> StoredFor(k)]
           told == [k \in Keyed |-> {{row} : row \in answered[k]}]
<1>1. CASE UNCHANGED answered /\ \A k \in Keyed : StoredFor(k)' = StoredFor(k)
      BY <1>1
<1>2. ASSUME NEW k \in Keyed, NEW row, Answers(k, row), row \in StoredFor(k)',
             StoredFor(k) = {} \/ StoredFor(k)' = StoredFor(k),
             \A l \in Keyed : l # k => StoredFor(l)' = StoredFor(l)
      PROVE  Reports!Next
  <2>1. DOMAIN answered = Keyed /\ answered[k] \in SUBSET StoredFor(k)
        BY DEF EvolutionInv, EvolutionDomains, AnswerInv
  <2>2. answered'[k] = answered[k] \cup {row} /\ \A l \in Keyed : l # k => answered'[l] = answered[l]
        BY <1>2, <2>1 DEF Answers
  <2>3. StoredFor(k)' = {row}
        BY <1>2 DEF StoredFor
  <2>4. written'[k] = {row} /\ written[k] = StoredFor(k) /\ written' = [written EXCEPT ![k] = {row}]
        BY <1>2, <2>3
  <2>5. told' = [told EXCEPT ![k] = told[k] \cup {{row}}]
        BY <2>2
  <2>6. CASE StoredFor(k) = {}
    <3>1. told[k] = {}
          BY <2>1, <2>6
    <3>2. told' = [told EXCEPT ![k] = {{row}}]
          BY <2>5, <3>1
    <3>3. Reports!Write(k)
          BY <2>4, <2>6, <3>2 DEF Reports!Write
    <3> QED BY <3>3 DEF Reports!Next
  <2>7. CASE StoredFor(k)' = StoredFor(k)
    <3>1. written[k] = {row} /\ written' = written
          BY <1>2, <2>3, <2>4, <2>7
    <3>2. Reports!Answer(k)
          BY <2>5, <3>1 DEF Reports!Answer
    <3> QED BY <3>2 DEF Reports!Next
  <2> QED BY <1>2, <2>6, <2>7
<1> QED BY <1>1, <1>2 DEF OneReport

LEMMA ReportInit == EvolutionInit => Reports!Init
BY DEF EvolutionInit, Reports!Init, StoredFor, Keyed

(* Every answer about a proposal, a replay or a selection is the one row   *)
(* that is stored for its id, for any number of ids, requests and calls    *)
(* that race for them or die (generate(), run() and select()).             *)
THEOREM ImplementWriteOnce == EvolutionSpec => ImplementsWriteOnce
<1>1. EvolutionInv /\ [EvolutionNext]_evolutionVars => EvolutionInv'
      BY EvolutionInductiveStep
<1>2. EvolutionInv /\ [EvolutionNext]_evolutionVars
        => [Reports!Next]_<<[k \in Keyed |-> StoredFor(k)], [k \in Keyed |-> {{row} : row \in answered[k]}]>>
      BY EvolutionInductiveStep, ReportStep
<1> QED BY EvolutionInductiveInit, ReportInit, <1>1, <1>2, PTL DEF EvolutionSpec, ImplementsWriteOnce, Reports!Spec

-----------------------------------------------------------------------------
(* Selections *)

LEMMA SurvivorsAreFew ==
    ASSUME NEW members, IsFiniteSet(DOMAIN members)
    PROVE  IsFiniteSet(Survivors(members)) /\ Cardinality(Survivors(members)) <= MaximumSurvivors
<1> DEFINE ranked == Ranked(members)
           count == Cardinality(Novel(members))
           n == IF count < MaximumSurvivors THEN count ELSE MaximumSurvivors
           few == [k \in 1..n |-> ranked[k]]
<1>1. count \in Nat
  <2>1. Novel(members) \in SUBSET DOMAIN members
        BY DEF Novel, ParetoFront
  <2> QED BY <2>1, FS_Subset, FS_CardinalityType
<1>2. n \in Nat /\ n <= MaximumSurvivors
  <2> HIDE DEF count
  <2> QED BY <1>1, EvolutionAssumption
<1>3. few \in Surjection(1..n, Survivors(members))
      BY DEF Survivors, Surjection
<1>4. IsFiniteSet(1..n) /\ Cardinality(1..n) = n
  <2> HIDE DEF n
  <2> QED BY <1>2, FS_Interval
<1> HIDE DEF few, n, ranked
<1>5. IsFiniteSet(Survivors(members)) /\ Cardinality(Survivors(members)) <= n
      BY <1>3, <1>4, FS_Surjection
<1>6. Cardinality(Survivors(members)) \in Nat
      BY <1>5, FS_CardinalityType
<1> QED BY <1>2, <1>5, <1>6, EvolutionAssumption

LEMMA MemberIs ==
    ASSUME EvolutionInv, NEW rs \in [1..2 -> Replays], Population(rs)
    PROVE  /\ DOMAIN Members(rs) = 1..2
           /\ \A i \in 1..2 :
                /\ EarnedReplay(rs[i])
                /\ Members(rs)[i].vector = replay[rs[i]].vector /\ Members(rs)[i].passed = replay[rs[i]].passed
                /\ replay[rs[i]].vector \in [Dimensions -> Int]
           /\ Duplicates(Members(rs)) = {}
<1>1. \A i \in 1..2 : EarnedReplay(rs[i])
      BY DEF Population, EvolutionInv, ReplayInv
<1>2. DOMAIN Members(rs) = 1..2
      BY DEF Members
<1>3. \A i \in 1..2 :
         /\ Members(rs)[i].content =
              <<proposal[replay[rs[i]].proposal].content, proposal[replay[rs[i]].proposal].version>>
         /\ Members(rs)[i].vector = replay[rs[i]].vector /\ Members(rs)[i].passed = replay[rs[i]].passed
      BY DEF Members
<1>4. ASSUME NEW i \in 1..2, NEW j \in 1..(i - 1) PROVE Members(rs)[j].content # Members(rs)[i].content
  <2>1. j \in 1..2 /\ j # i
        OBVIOUS
  <2>2. replay[rs[i]].proposal # replay[rs[j]].proposal
        BY <2>1 DEF Population
  <2>3. /\ replay[rs[i]].proposal \in Proposals /\ StoredProposal(replay[rs[i]].proposal)
        /\ replay[rs[j]].proposal \in Proposals /\ StoredProposal(replay[rs[j]].proposal)
        BY <1>1, <2>1 DEF EarnedReplay
  <2>4. <<proposal[replay[rs[i]].proposal].content, proposal[replay[rs[i]].proposal].version>>
         # <<proposal[replay[rs[j]].proposal].content, proposal[replay[rs[j]].proposal].version>>
        BY <2>2, <2>3 DEF EvolutionInv, ProposalInv
  <2> QED BY <1>3, <2>1, <2>4
<1>5. Duplicates(Members(rs)) = {}
      BY <1>2, <1>4 DEF Duplicates
<1> QED BY <1>1, <1>2, <1>3, <1>5 DEF EarnedReplay

LEMMA GatesPassed ==
    ASSUME EvolutionInv PROVE SelectedPassedItsGates
<1> SUFFICES ASSUME NEW s \in Selections
             PROVE  LET members == selection[s]
                        chosen == {i \in DOMAIN members : members[i].disposition = "SELECTED"}
                        row(i) == replay[members[i].replay]
                        better(i, j) == /\ row(i).vector # row(j).vector
                                        /\ \A d \in Dimensions : row(i).vector[d] >= row(j).vector[d]
                    IN  /\ Cardinality(chosen) <= MaximumSurvivors
                        /\ \A i \in chosen :
                             /\ row(i).passed /\ row(i).vector["risk_rate"] >= 0
                             /\ row(i).cases = HeldOut(proposal[row(i).proposal].dataset)
                             /\ ~\E j \in DOMAIN members : row(j).passed /\ better(j, i)
    BY DEF SelectedPassedItsGates
<1> DEFINE members == selection[s]
           chosen == {i \in DOMAIN members : members[i].disposition = "SELECTED"}
           row(i) == replay[members[i].replay]
           better(i, j) == /\ row(i).vector # row(j).vector
                           /\ \A d \in Dimensions : row(i).vector[d] >= row(j).vector[d]
<1>1. CASE members = NoSelection
  <2>1. chosen = {}
        BY <1>1 DEF NoSelection
  <2>2. Cardinality(chosen) = 0
        BY <2>1, FS_EmptySet
  <2>3. Cardinality(chosen) <= MaximumSurvivors
        BY <2>2, EvolutionAssumption
  <2> QED BY <2>1, <2>3
<1>2. CASE members # NoSelection
  <2>1. PICK rs \in [1..2 -> Replays] : Population(rs) /\ members = SelectionOf(rs)
        BY <1>2 DEF EvolutionInv, SelectionInv
  <2> DEFINE M == Members(rs)
  <2>2. /\ DOMAIN members = 1..2
        /\ \A i \in 1..2 : members[i].replay = rs[i] /\ members[i].disposition = Disposition(M, i)
        BY <2>1 DEF SelectionOf
  <2>3. /\ DOMAIN M = 1..2
        /\ \A i \in 1..2 :
             /\ EarnedReplay(rs[i])
             /\ M[i].vector = replay[rs[i]].vector /\ M[i].passed = replay[rs[i]].passed
             /\ replay[rs[i]].vector \in [Dimensions -> Int]
        /\ Duplicates(M) = {}
        BY <2>1, MemberIs
  <2> HIDE DEF M, members
  <2>4. ASSUME NEW i \in chosen
        PROVE  i \in 1..2 /\ i \in Survivors(M) /\ i \in ParetoFront(M) /\ M[i].passed
    <3>1. i \in 1..2 /\ Disposition(M, i) = "SELECTED"
          BY <2>2
    <3> QED BY <3>1 DEF Disposition
  <2>5. Cardinality(chosen) <= MaximumSurvivors
    <3>1. IsFiniteSet(DOMAIN M)
      <4>1. DOMAIN M = 1..2
            BY <2>3
      <4>2. \A n \in Nat : IsFiniteSet(1..n)
            BY FS_Interval
      <4> QED BY <4>1, <4>2
    <3>2. IsFiniteSet(Survivors(M)) /\ Cardinality(Survivors(M)) <= MaximumSurvivors
          BY <3>1, SurvivorsAreFew
    <3>3. chosen \in SUBSET Survivors(M)
          BY <2>4
    <3> HIDE DEF chosen
    <3>4. Cardinality(chosen) <= Cardinality(Survivors(M)) /\ IsFiniteSet(chosen)
          BY <3>2, <3>3, FS_Subset
    <3>5. Cardinality(chosen) \in Nat /\ Cardinality(Survivors(M)) \in Nat
          BY <3>2, <3>4, FS_CardinalityType
    <3> QED BY <3>2, <3>4, <3>5, EvolutionAssumption
  <2>6. \A i \in 1..2 : row(i) = replay[rs[i]]
        BY <2>2
  <2>7. ASSUME NEW i \in chosen
        PROVE  /\ row(i).passed /\ row(i).vector["risk_rate"] >= 0
               /\ row(i).cases = HeldOut(proposal[row(i).proposal].dataset)
    <3>1. i \in 1..2 /\ replay[rs[i]].passed
          BY <2>3, <2>4
    <3>2. EarnedReplay(rs[i]) /\ row(i) = replay[rs[i]]
          BY <2>3, <2>6, <3>1
    <3> QED BY <3>1, <3>2 DEF EarnedReplay
  <2>8. ASSUME NEW i \in chosen, NEW j \in DOMAIN members, row(j).passed, better(j, i)
        PROVE  FALSE
    <3>1. i \in 1..2 /\ j \in 1..2 /\ i \in ParetoFront(M)
          BY <2>2, <2>4
    <3>2. M[i].vector = row(i).vector /\ M[j].vector = row(j).vector /\ M[j].passed
          BY <2>3, <2>6, <2>8, <3>1
    <3>3. row(i).vector \in [Dimensions -> Int] /\ row(j).vector \in [Dimensions -> Int]
          BY <2>3, <2>6, <3>1
    <3>4. PICK d \in Dimensions : row(j).vector[d] # row(i).vector[d]
          BY <2>8, <3>3
    <3>5. row(j).vector[d] > row(i).vector[d]
          BY <2>8, <3>3, <3>4
    <3>6. Dominates(M[j].vector, M[i].vector)
          BY <2>8, <3>2, <3>5 DEF Dominates
    <3> QED BY <2>3, <3>1, <3>2, <3>6 DEF ParetoFront
  <2>9. \A i \in chosen :
           /\ row(i).passed /\ row(i).vector["risk_rate"] >= 0
           /\ row(i).cases = HeldOut(proposal[row(i).proposal].dataset)
           /\ ~\E j \in DOMAIN members : row(j).passed /\ better(j, i)
        BY <2>7, <2>8
  <2> QED BY <2>5, <2>9 DEF members
<1> QED BY <1>1, <1>2

LEMMA BoundaryFromInductive == EvolutionInv => BoundaryHolds
<1> SUFFICES ASSUME EvolutionInv, NEW p \in Proposals, proposal[p] # NoProposal
             PROVE  \E w \in proposal[p].content :
                        LET base == Workflows[proposal[p].base]
                        IN  /\ \A n \in DOMAIN w : /\ w[n].binding \in AllowedBindings
                                                   /\ EffectRank[w[n].effect] <= EffectRank[MaxEffect]
                            /\ <<"nodes">> \notin MutablePaths => DOMAIN w = DOMAIN base
                            /\ \A n \in DOMAIN w \cap DOMAIN base :
                                 ({<<"nodes">>, <<"node", n>>, <<"SET_INPUT", n>>} \cap MutablePaths = {})
                                   => w[n].input = base[n].input
    BY DEF BoundaryHolds
<1>1. EarnedProposal(p)
      BY DEF EvolutionInv, ProposalInv, StoredProposal
<1>2. PICK w \in proposal[p].content : WithinPolicy(w) /\ WithinBoundary(w, Workflows[proposal[p].base])
      BY <1>1 DEF EarnedProposal
<1> QED BY <1>2 DEF WithinPolicy, WithinBoundary

(* Nothing is selected on less, for every policy, request, dataset and     *)
(* measure: snapshots count each observation once, a proposal changes what *)
(* the policy lets it, and a selected candidate passed on held-out samples *)
(* and is not dominated (dna_fitness.py, dna_candidates.py, dna_replay.py  *)
(* and dna_selection.py).                                                  *)
THEOREM EvolutionsAreSound == EvolutionSpec => []EvolutionIsSound
<1>1. EvolutionInv /\ [EvolutionNext]_evolutionVars => EvolutionInv'
      BY EvolutionInductiveStep
<1>2. EvolutionInv => EvolutionIsSound
      BY GatesPassed, BoundaryFromInductive DEF EvolutionIsSound, EvolutionInv
<1> QED BY EvolutionInductiveInit, <1>1, <1>2, PTL DEF EvolutionSpec

-----------------------------------------------------------------------------
LEMMA LeastNumber == ASSUME NEW T \in SUBSET Nat, T # {} PROVE \E m \in T : \A k \in T : m <= k
<1> DEFINE R == {ss \in Nat \X Nat : ss[1] < ss[2]}
<1>1. R = OpToRel(<, Nat)
      BY DEF OpToRel
<1>2. IsWellFoundedOn(R, Nat)
      BY <1>1, NatLessThanWellFounded
<1> HIDE DEF R
<1>3. PICK m \in T : \A k \in T : <<k, m>> \notin R
      BY <1>2, WFMin
<1>4. \A k \in T : ~ (k < m)
      BY <1>3 DEF R
<1> QED BY <1>4

(* The order in which nodes may run.  A node that is ready has nothing     *)
(* left that points at it; what goes next is ready.                        *)
Unblocked(left, edges) == {n \in left : Incoming(left, edges, n) = {}}
Steps(nodes, edges, low, f) ==
    f = [left \in {s \in SUBSET nodes : Cardinality(s) < low} |->
            IF Unblocked(left, edges) = {} THEN <<>>
            ELSE <<Min(Unblocked(left, edges))>> \o f[left \ {Min(Unblocked(left, edges))}]]

LEMMA NextIsReady ==
    ASSUME NEW nodes \in SUBSET Nat, IsFiniteSet(nodes), NEW left \in SUBSET nodes, NEW edges, Unblocked(left, edges) # {}
    PROVE  /\ Min(Unblocked(left, edges)) \in left /\ IsFiniteSet(left)
           /\ Incoming(left, edges, Min(Unblocked(left, edges))) = {}
           /\ Cardinality(left \ {Min(Unblocked(left, edges))}) \in Nat
           /\ Cardinality(left \ {Min(Unblocked(left, edges))}) < Cardinality(left)
           /\ Cardinality(left) \in Nat
<1> DEFINE T == Unblocked(left, edges)
           m == Min(T)
<1>1. T \in SUBSET Nat /\ T # {}
      BY DEF Unblocked
<1> HIDE DEF T
<1>2. PICK x \in T : \A k \in T : x <= k
      BY <1>1, LeastNumber
<1>3. m \in T
      BY <1>2 DEF Min
<1> HIDE DEF m
<1>4. m \in left /\ Incoming(left, edges, m) = {}
      BY <1>3 DEF T, Unblocked
<1>5. IsFiniteSet(left)
      BY FS_Subset
<1>6. /\ Cardinality(left \ {m}) \in Nat /\ Cardinality(left) \in Nat
      /\ Cardinality(left \ {m}) = Cardinality(left) - 1
      BY <1>4, <1>5, FS_RemoveElement, FS_CardinalityType
<1>7. Cardinality(left \ {m}) < Cardinality(left)
      BY <1>6
<1> QED BY <1>4, <1>5, <1>6, <1>7 DEF m, T

LEMMA StepsExist ==
    ASSUME NEW nodes \in SUBSET Nat, IsFiniteSet(nodes), NEW edges, NEW low \in Nat
    PROVE  \E f : Steps(nodes, edges, low, f)
<1> DEFINE T == {m \in Nat : ~ \E f : Steps(nodes, edges, m, f)}
           D(m) == {s \in SUBSET nodes : Cardinality(s) < m}
           more(f, left) == IF Unblocked(left, edges) = {} THEN <<>>
                            ELSE <<Min(Unblocked(left, edges))>> \o f[left \ {Min(Unblocked(left, edges))}]
<1>1. SUFFICES ASSUME T # {} PROVE FALSE
      OBVIOUS
<1>2. PICK m \in T : \A k \in T : m <= k
  <2>1. T \in SUBSET Nat
        OBVIOUS
  <2> HIDE DEF T
  <2> QED BY <1>1, <2>1, LeastNumber
<1>3. m \in Nat /\ ~ \E f : Steps(nodes, edges, m, f)
      OBVIOUS
<1>4. CASE m = 0
  <2> DEFINE none == [left \in D(0) |-> <<>>]
  <2>1. \A s \in SUBSET nodes : ~ (Cardinality(s) < 0)
    <3>1. ASSUME NEW s \in SUBSET nodes PROVE ~ (Cardinality(s) < 0)
      <4>1. Cardinality(s) \in Nat
            BY FS_Subset, FS_CardinalityType
      <4> QED BY <4>1
    <3> QED BY <3>1
  <2>2. D(0) = {}
        BY <2>1
  <2>3. none = [left \in D(0) |-> more(none, left)]
        BY <2>2
  <2>4. Steps(nodes, edges, 0, none)
        BY <2>3 DEF Steps
  <2> QED BY <1>3, <1>4, <2>4
<1>5. CASE m # 0
  <2>1. m - 1 \in Nat /\ m - 1 \notin T
        BY <1>2, <1>3, <1>5
  <2>2. PICK old : Steps(nodes, edges, m - 1, old)
        BY <2>1
  <2> DEFINE new == [left \in D(m) |-> more(old, left)]
  <2>3. ASSUME NEW left \in D(m) PROVE more(old, left) = more(new, left)
    <3> DEFINE x == Min(Unblocked(left, edges))
               rest == left \ {x}
    <3>1. CASE Unblocked(left, edges) = {}
          BY <3>1
    <3>2. CASE Unblocked(left, edges) # {}
      <4>1. /\ Cardinality(rest) \in Nat /\ Cardinality(left) \in Nat /\ Cardinality(rest) < Cardinality(left)
            BY <3>2, NextIsReady
      <4>2. rest \in SUBSET nodes /\ Cardinality(left) < m
            OBVIOUS
      <4> HIDE DEF rest, x
      <4>3. rest \in D(m - 1) /\ rest \in D(m)
            BY <1>3, <4>1, <4>2
      <4>4. old[rest] = more(old, rest)
        <5>1. old = [u \in D(m - 1) |-> more(old, u)]
              BY <2>2 DEF Steps
        <5> HIDE DEF D, more
        <5> QED BY <4>3, <5>1
      <4>5. new[rest] = more(old, rest)
        <5> HIDE DEF D, more
        <5> QED BY <4>3
      <4>6. old[rest] = new[rest]
            BY <4>4, <4>5
      <4> QED BY <3>2, <4>6 DEF rest, x
    <3> QED BY <3>1, <3>2
  <2>4. new = [left \in D(m) |-> more(new, left)]
    <3> HIDE DEF D, more
    <3> DEFINE same == [left \in D(m) |-> more(new, left)]
    <3>1. \A left \in D(m) : more(old, left) = more(new, left)
          BY <2>3
    <3> QED BY <3>1
  <2>5. Steps(nodes, edges, m, new)
    <3> HIDE DEF new
    <3> QED BY <2>4 DEF Steps
  <2> QED BY <1>3, <2>5
<1> QED BY <1>4, <1>5

(* A list of some of the nodes, none twice, none before what points at it. *)
Ordered(order, left, edges) ==
    /\ order \in Seq(left)
    /\ \A i, j \in 1..Len(order) : i # j => order[i] # order[j]
    /\ \A i, j \in 1..Len(order) : <<order[i], order[j]>> \in edges => i < j

LEMMA OneMore ==
    ASSUME NEW left, NEW x \in left, NEW edges, NEW t, Ordered(t, left \ {x}, edges), Incoming(left, edges, x) = {}
    PROVE  Ordered(<<x>> \o t, left, edges)
<1> DEFINE s == <<x>> \o t
<1>1. /\ t \in Seq(left \ {x})
      /\ \A i, j \in 1..Len(t) : i # j => t[i] # t[j]
      /\ \A i, j \in 1..Len(t) : <<t[i], t[j]>> \in edges => i < j
      BY DEF Ordered
<1>2. t \in Seq(left) /\ <<x>> \in Seq(left) /\ Len(t) \in Nat /\ \A i \in 1..Len(t) : t[i] \in left \ {x}
      BY <1>1
<1>3. s \in Seq(left) /\ Len(s) = Len(t) + 1 /\ s[1] = x /\ \A i \in 2..(Len(t) + 1) : s[i] = t[i - 1]
      BY <1>2
<1> HIDE DEF s
<1>4. \A y \in left : <<y, x>> \notin edges
  <2>1. ASSUME NEW y \in left, <<y, x>> \in edges PROVE FALSE
    <3>1. <<y, x>> \in Incoming(left, edges, x)
          BY <2>1 DEF Incoming
    <3> QED BY <3>1
  <2> QED BY <2>1
<1>5. \A i \in 1..Len(s) : i = 1 \/ (i \in 2..(Len(t) + 1) /\ i - 1 \in 1..Len(t) /\ s[i] = t[i - 1])
      BY <1>2, <1>3
<1>6. \A i \in 1..Len(s) : s[i] \in left
      BY <1>2, <1>3, <1>5
<1>7. ASSUME NEW i \in 1..Len(s), NEW j \in 1..Len(s), i # j PROVE s[i] # s[j]
  <2>1. CASE i = 1
    <3>1. j # 1
          BY <1>7, <2>1
    <3>2. s[j] \in left \ {x}
          BY <1>2, <1>5, <3>1
    <3> QED BY <1>3, <2>1, <3>2
  <2>2. CASE j = 1
    <3>1. i # 1
          BY <1>7, <2>2
    <3>2. s[i] \in left \ {x}
          BY <1>2, <1>5, <3>1
    <3> QED BY <1>3, <2>2, <3>2
  <2>3. CASE i # 1 /\ j # 1
    <3>1. i - 1 \in 1..Len(t) /\ j - 1 \in 1..Len(t) /\ s[i] = t[i - 1] /\ s[j] = t[j - 1] /\ i - 1 # j - 1
          BY <1>5, <1>7, <2>3
    <3> QED BY <1>1, <3>1
  <2> QED BY <2>1, <2>2, <2>3
<1>8. ASSUME NEW i \in 1..Len(s), NEW j \in 1..Len(s), <<s[i], s[j]>> \in edges PROVE i < j
  <2>1. j # 1
        BY <1>3, <1>4, <1>6, <1>8
  <2>2. CASE i = 1
        BY <1>5, <2>1, <2>2
  <2>3. CASE i # 1
    <3>1. i - 1 \in 1..Len(t) /\ j - 1 \in 1..Len(t) /\ s[i] = t[i - 1] /\ s[j] = t[j - 1]
          BY <1>5, <2>1, <2>3
    <3>2. i - 1 < j - 1
          BY <1>1, <1>8, <3>1
    <3> QED BY <1>2, <3>2
  <2> QED BY <2>2, <2>3
<1> QED BY <1>3, <1>7, <1>8 DEF Ordered, s

(* The order of a valid definition runs every node. *)
LEMMA OrderIsSound ==
    ASSUME NEW nodes \in SUBSET Nat, IsFiniteSet(nodes), NEW edges
    PROVE  Ordered(TopologicalOrder(nodes, edges), nodes, edges)
<1> DEFINE f == CHOOSE step : step = [left \in SUBSET nodes |->
                    IF Unblocked(left, edges) = {} THEN <<>>
                    ELSE <<Min(Unblocked(left, edges))>> \o step[left \ {Min(Unblocked(left, edges))}]]
           more(left) == IF Unblocked(left, edges) = {} THEN <<>>
                         ELSE <<Min(Unblocked(left, edges))>> \o f[left \ {Min(Unblocked(left, edges))}]
           T == {left \in SUBSET nodes : ~ Ordered(f[left], left, edges)}
<1>1. TopologicalOrder(nodes, edges) = f[nodes]
      BY DEF TopologicalOrder, Unblocked
<1>2. f = [left \in SUBSET nodes |-> more(left)]
  <2> DEFINE low == Cardinality(nodes) + 1
  <2>1. Cardinality(nodes) \in Nat
        BY FS_CardinalityType
  <2>2. \A s \in SUBSET nodes : Cardinality(s) < low
    <3>1. ASSUME NEW s \in SUBSET nodes PROVE Cardinality(s) < low
      <4>1. Cardinality(s) <= Cardinality(nodes) /\ Cardinality(s) \in Nat
            BY FS_Subset, FS_CardinalityType
      <4> QED BY <2>1, <4>1
    <3> QED BY <3>1
  <2>3. SUBSET nodes = {s \in SUBSET nodes : Cardinality(s) < low}
    <3> HIDE DEF low
    <3> QED BY <2>2
  <2>4. PICK g : Steps(nodes, edges, low, g)
    <3>1. low \in Nat
          BY <2>1
    <3> HIDE DEF low
    <3> QED BY <3>1, StepsExist
  <2>5. g = [left \in SUBSET nodes |->
                IF Unblocked(left, edges) = {} THEN <<>>
                ELSE <<Min(Unblocked(left, edges))>> \o g[left \ {Min(Unblocked(left, edges))}]]
    <3> HIDE DEF low
    <3> QED BY <2>3, <2>4 DEF Steps
  <2> QED BY <2>5
<1> HIDE DEF f
<1>3. SUFFICES ASSUME T # {} PROVE FALSE
      BY <1>1
<1>4. PICK left \in T : \A s \in SUBSET left : s # left => s \notin T
  <2>1. T \in SUBSET SUBSET nodes
        OBVIOUS
  <2> HIDE DEF T
  <2> QED BY <1>3, <2>1, SmallestSet
<1>5. left \in SUBSET nodes /\ ~ Ordered(f[left], left, edges) /\ f[left] = more(left)
      BY <1>2
<1>6. CASE Unblocked(left, edges) = {}
  <2>1. f[left] = <<>>
        BY <1>5, <1>6
  <2>2. Ordered(<<>>, left, edges)
        BY DEF Ordered
  <2> QED BY <1>5, <2>1, <2>2
<1>7. CASE Unblocked(left, edges) # {}
  <2> DEFINE x == Min(Unblocked(left, edges))
  <2>1. x \in left /\ Incoming(left, edges, x) = {}
        BY <1>5, <1>7, NextIsReady
  <2>2. f[left] = <<x>> \o f[left \ {x}]
        BY <1>5, <1>7
  <2> HIDE DEF x
  <2>3. Ordered(f[left \ {x}], left \ {x}, edges)
    <3>1. left \ {x} \in SUBSET left /\ left \ {x} # left /\ left \ {x} \in SUBSET nodes
          BY <1>5, <2>1
    <3> QED BY <1>4, <3>1
  <2>4. Ordered(<<x>> \o f[left \ {x}], left, edges)
        BY <2>1, <2>3, OneMore
  <2> QED BY <1>5, <2>2, <2>4
<1> QED BY <1>6, <1>7

LEMMA FullOrder ==
    ASSUME NEW nodes, IsFiniteSet(nodes), NEW edges, NEW order, Ordered(order, nodes, edges), Len(order) = Cardinality(nodes)
    PROVE  {order[i] : i \in DOMAIN order} = nodes
<1> DEFINE n == Len(order)
<1>1. order \in Seq(nodes) /\ n \in Nat /\ DOMAIN order = 1..n /\ order \in [1..n -> nodes]
      BY DEF Ordered
<1>2. order \in Injection(1..n, nodes)
      BY <1>1 DEF Ordered, Injection, IsInjective
<1>3. IsFiniteSet(1..n) /\ Cardinality(1..n) = n
      BY <1>1, FS_Interval
<1>4. order \in Surjection(1..n, nodes)
  <2> HIDE DEF n
  <2>1. Cardinality(1..n) = Cardinality(nodes)
        BY <1>3 DEF n
  <2> QED BY <1>2, <1>3, <2>1, FS_Injection
<1> QED BY <1>1, <1>4 DEF Surjection

(* The invariant of the registry: definitions have the order in which they *)
(* were registered, each names older ones; the active version of a         *)
(* workflow is one of its versions, and no other has its status.           *)
AgesFall(age) ==
    \A k \in DOMAIN registry :
        /\ age[k] \in 1..Cardinality(DOMAIN registry)
        /\ \A c \in registry[k].definition.children : c \in DOMAIN registry /\ age[c] < age[k]

RowIsRunnable(row) ==
    LET d == row.definition
        order == row.order
    IN  /\ {order[i] : i \in DOMAIN order} = d.nodes /\ Len(order) = Cardinality(d.nodes)
        /\ \A i, j \in DOMAIN order : <<order[i], order[j]>> \in d.edges => i < j

StatusIsServed == \A k \in DOMAIN registry : registry[k].status = "ACTIVE" <=> k[1] \in DOMAIN active /\ active[k[1]] = k

RegistryInv ==
    /\ IsFiniteSet(DOMAIN registry)
    /\ \E age : AgesFall(age)
    /\ \A k \in DOMAIN registry : registry[k] = [definition |-> registry[k].definition, status |-> registry[k].status,
                                                 order |-> registry[k].order]
    /\ \A k \in DOMAIN registry : RowIsRunnable(registry[k])
    /\ \A w \in DOMAIN active : active[w] \in DOMAIN registry /\ active[w][1] = w
    /\ StatusIsServed

LEMMA RegistryStarts == RegistryInit => RegistryInv
<1> SUFFICES ASSUME RegistryInit PROVE RegistryInv
    OBVIOUS
<1>1. DOMAIN registry = {} /\ DOMAIN active = {}
      BY DEF RegistryInit
<1>2. IsFiniteSet(DOMAIN registry)
      BY <1>1, FS_EmptySet
<1>3. AgesFall(0)
      BY <1>1 DEF AgesFall
<1> QED BY <1>1, <1>2, <1>3 DEF RegistryInv, StatusIsServed

LEMMA ValidRows ==
    ASSUME NEW d \in Definitions, Valid(d), NEW row, row.definition = d, row.order = TopologicalOrder(d.nodes, d.edges)
    PROVE  RowIsRunnable(row)
<1> DEFINE order == TopologicalOrder(d.nodes, d.edges)
<1>1. IsFiniteSet(d.nodes) /\ d.nodes \in SUBSET Nat
      BY DefinitionsAssumption
<1>2. Ordered(order, d.nodes, d.edges)
      BY <1>1, OrderIsSound
<1>3. Len(order) = Cardinality(d.nodes)
      BY DEF Valid
<1> HIDE DEF order
<1>4. {order[i] : i \in DOMAIN order} = d.nodes
      BY <1>1, <1>2, <1>3, FullOrder
<1>5. DOMAIN order = 1..Len(order)
      BY <1>2 DEF Ordered
<1> QED BY <1>2, <1>3, <1>4, <1>5 DEF RowIsRunnable, Ordered, order

LEMMA RegisterKeeps ==
    ASSUME RegistryInv, NEW d \in Definitions, NEW status \in {"DRAFT", "VALIDATED", "DEPRECATED"}, RegisterWorkflow(d, status)
    PROVE  RegistryInv'
<1> DEFINE new == d.key
           row == [definition |-> d, status |-> status, order |-> TopologicalOrder(d.nodes, d.edges)]
           keys == DOMAIN registry
           n == Cardinality(keys)
<1>1. /\ Valid(d) /\ new \notin keys /\ active' = active
      /\ registry' = [k \in keys \cup {new} |-> IF k = new THEN row ELSE registry[k]]
      BY DEF RegisterWorkflow
<1>2. row.definition = d /\ row.status = status /\ row.order = TopologicalOrder(d.nodes, d.edges)
      OBVIOUS
<1> HIDE DEF row
<1>3. /\ DOMAIN registry' = keys \cup {new} /\ registry'[new] = row
      /\ \A k \in keys : registry'[k] = registry[k]
      BY <1>1
<1>4. IsFiniteSet(keys) /\ IsFiniteSet(keys \cup {new}) /\ Cardinality(keys \cup {new}) = n + 1 /\ n \in Nat
      BY <1>1, FS_AddElement, FS_CardinalityType DEF RegistryInv
<1>5. PICK age : AgesFall(age)
      BY DEF RegistryInv
<1>6. d.children \subseteq keys /\ new \notin d.children
      BY <1>1 DEF Valid
<1>7. \E a : AgesFall(a)'
  <2>0. PICK a : a = [k \in keys \cup {new} |-> IF k = new THEN n + 1 ELSE age[k]]
        OBVIOUS
  <2>1. \A k \in keys : age[k] \in 1..n /\ a[k] = age[k] /\ a[k] \in 1..(n + 1)
        BY <1>1, <1>4, <1>5, <2>0 DEF AgesFall
  <2>2. a[new] = n + 1 /\ a[new] \in 1..(n + 1)
        BY <1>4, <2>0
  <2> HIDE DEF new, keys, n
  <2>3. ASSUME NEW k \in keys \cup {new}, NEW c \in registry'[k].definition.children
        PROVE  c \in keys \cup {new} /\ a[c] < a[k]
    <3>1. CASE k = new
      <4>1. c \in keys
            BY <1>2, <1>3, <1>6, <2>3, <3>1
      <4>2. a[c] \in 1..n /\ a[k] = n + 1
            BY <2>1, <2>2, <3>1, <4>1
      <4> QED BY <1>4, <4>1, <4>2
    <3>2. CASE k # new
      <4>1. k \in keys /\ c \in registry[k].definition.children
            BY <1>3, <2>3, <3>2
      <4>2. c \in keys /\ age[c] < age[k]
            BY <1>5, <4>1 DEF AgesFall, keys
      <4> QED BY <2>1, <4>1, <4>2
    <3> QED BY <3>1, <3>2
  <2>4. \A k \in keys \cup {new} : a[k] \in 1..(n + 1)
        BY <2>1, <2>2
  <2>5. DOMAIN registry' = keys \cup {new} /\ Cardinality(DOMAIN registry') = n + 1
        BY <1>3, <1>4 DEF keys, n
  <2>6. AgesFall(a)'
        BY <2>3, <2>4, <2>5 DEF AgesFall
  <2> QED BY <2>6
<1>8. \A k \in keys \cup {new} : registry'[k] = [definition |-> registry'[k].definition, status |-> registry'[k].status,
                                                order |-> registry'[k].order]
      BY <1>3 DEF RegistryInv, row
<1>9. \A k \in keys \cup {new} : RowIsRunnable(registry'[k])
  <2>1. RowIsRunnable(row)
        BY <1>1, <1>2, ValidRows
  <2> QED BY <1>3, <2>1 DEF RegistryInv
<1>10. \A w \in DOMAIN active : active[w] \in keys \cup {new} /\ active[w][1] = w
       BY DEF RegistryInv
<1>11. StatusIsServed'
  <2>1. \A w \in DOMAIN active : active[w] # new
        BY <1>1 DEF RegistryInv
  <2>2. registry'[new].status # "ACTIVE"
        BY <1>2, <1>3
  <2> HIDE DEF new
  <2>3. StatusIsServed
        BY DEF RegistryInv
  <2>4. SUFFICES ASSUME NEW k \in keys \cup {new}
                 PROVE  registry'[k].status = "ACTIVE" <=> k[1] \in DOMAIN active /\ active[k[1]] = k
        BY <1>1, <1>3 DEF StatusIsServed
  <2>5. CASE k = new
        BY <2>1, <2>2, <2>5
  <2>6. CASE k # new
    <3>1. k \in keys /\ registry'[k] = registry[k]
          BY <1>3, <2>6
    <3>2. registry[k].status = "ACTIVE" <=> k[1] \in DOMAIN active /\ active[k[1]] = k
          BY <2>3, <3>1 DEF StatusIsServed
    <3> QED BY <3>1, <3>2
  <2> QED BY <2>5, <2>6
<1>12. \A k \in keys \cup {new} : RowIsRunnable(registry[k])' 
       BY <1>9 DEF RowIsRunnable
<1> QED BY <1>1, <1>3, <1>4, <1>7, <1>8, <1>10, <1>11, <1>12 DEF RegistryInv

LEMMA ActivateKeeps == ASSUME RegistryInv, NEW key \in DOMAIN registry, Activate(key) PROVE RegistryInv'
<1> DEFINE w == key[1]
           previous == IF w \in DOMAIN active THEN {active[w]} ELSE {}
           keys == DOMAIN registry
<1>1. /\ registry' = [k \in keys |-> IF k = key THEN [registry[k] EXCEPT !.status = "ACTIVE"]
                                     ELSE IF k \in previous THEN [registry[k] EXCEPT !.status = "DEPRECATED"]
                                     ELSE registry[k]]
      /\ active' = [x \in DOMAIN active \cup {w} |-> IF x = w THEN key ELSE active[x]]
      BY DEF Activate
<1> HIDE DEF previous
<1>2. DOMAIN registry' = keys
      BY <1>1
<1>3. ASSUME NEW k \in keys
      PROVE  /\ registry'[k].definition = registry[k].definition /\ registry'[k].order = registry[k].order
             /\ registry'[k] = [definition |-> registry'[k].definition, status |-> registry'[k].status,
                                order |-> registry'[k].order]
             /\ registry'[k].status = (IF k = key THEN "ACTIVE" ELSE IF k \in previous THEN "DEPRECATED"
                                       ELSE registry[k].status)
  <2> DEFINE row == registry[k]
  <2>1. row = [definition |-> row.definition, status |-> row.status, order |-> row.order]
        BY DEF RegistryInv
  <2>2. registry'[k] = (IF k = key THEN [row EXCEPT !.status = "ACTIVE"]
                        ELSE IF k \in previous THEN [row EXCEPT !.status = "DEPRECATED"] ELSE row)
        BY <1>1
  <2> HIDE DEF row
  <2> QED BY <2>1, <2>2 DEF row
<1>4. PICK age : AgesFall(age)
      BY DEF RegistryInv
<1>5. AgesFall(age)'
      BY <1>2, <1>3, <1>4 DEF AgesFall
<1>6. \A k \in keys : RowIsRunnable(registry[k])'
  <2> SUFFICES ASSUME NEW k \in keys PROVE RowIsRunnable(registry'[k])
      BY DEF RowIsRunnable
  <2>1. RowIsRunnable(registry[k])
        BY DEF RegistryInv
  <2>2. registry'[k].definition = registry[k].definition /\ registry'[k].order = registry[k].order
        BY <1>3
  <2> QED BY <2>1, <2>2 DEF RowIsRunnable
<1>7. \A x \in DOMAIN active' : active'[x] \in keys /\ active'[x][1] = x
  <2>1. \A x \in DOMAIN active : active[x] \in keys /\ active[x][1] = x
        BY DEF RegistryInv
  <2> QED BY <1>1, <2>1
<1>8. StatusIsServed'
  <2>1. SUFFICES ASSUME NEW k \in keys PROVE registry'[k].status = "ACTIVE" <=> k[1] \in DOMAIN active' /\ active'[k[1]] = k
        BY <1>2 DEF StatusIsServed
  <2>2. registry[k].status = "ACTIVE" <=> k[1] \in DOMAIN active /\ active[k[1]] = k
        BY DEF RegistryInv, StatusIsServed
  <2>3. CASE k = key
        BY <1>1, <1>3, <2>3
  <2>4. CASE k # key /\ k[1] = w
    <3>1. k \in previous <=> k[1] \in DOMAIN active /\ active[k[1]] = k
          BY <2>4 DEF previous
    <3>2. ~ (active'[k[1]] = k)
          BY <1>1, <2>4
    <3> QED BY <1>3, <2>2, <2>4, <3>1, <3>2
  <2>5. CASE k[1] # w
    <3>1. k \notin previous /\ k # key
      <4>1. k \in previous => k[1] = w
            BY DEF previous, RegistryInv
      <4> QED BY <2>5, <4>1
    <3>2. k[1] \in DOMAIN active' <=> k[1] \in DOMAIN active
          BY <1>1, <2>5
    <3>3. k[1] \in DOMAIN active => active'[k[1]] = active[k[1]]
          BY <1>1, <2>5
    <3> QED BY <1>3, <2>2, <3>1, <3>2, <3>3
  <2> QED BY <2>3, <2>4, <2>5
<1>9. IsFiniteSet(keys)
      BY DEF RegistryInv
<1> HIDE DEF w
<1> QED BY <1>2, <1>3, <1>5, <1>6, <1>7, <1>8, <1>9 DEF RegistryInv

LEMMA RegistryStep == RegistryInv /\ [RegistryNext]_registryVars => RegistryInv'
<1> SUFFICES ASSUME RegistryInv, [RegistryNext]_registryVars PROVE RegistryInv'
    OBVIOUS
<1>1. CASE UNCHANGED registryVars
  <2>1. registry' = registry /\ active' = active
        BY <1>1 DEF registryVars
  <2>2. PICK age : AgesFall(age)
        BY DEF RegistryInv
  <2>3. AgesFall(age)'
        BY <2>1, <2>2 DEF AgesFall
  <2>4. StatusIsServed'
        BY <2>1 DEF RegistryInv, StatusIsServed
  <2>5. \A k \in DOMAIN registry : RowIsRunnable(registry[k])'
        BY <2>1 DEF RegistryInv, RowIsRunnable
  <2> QED BY <2>1, <2>3, <2>4, <2>5 DEF RegistryInv
<1> QED BY <1>1, RegisterKeeps, ActivateKeeps DEF RegistryNext

LEMMA RegistryFollows == RegistryInv => RegisteredIsRunnable
<1> SUFFICES ASSUME RegistryInv PROVE RegisteredIsRunnable
    OBVIOUS
<1>1. PICK age : AgesFall(age)
      BY DEF RegistryInv
<1>2. ASSUME NEW keys \in SUBSET DOMAIN registry, LeadsBack(keys) PROVE FALSE
  <2> DEFINE T == {age[k] : k \in keys}
  <2>1. T \in SUBSET Nat /\ T # {}
        BY <1>1, <1>2 DEF AgesFall, LeadsBack
  <2> HIDE DEF T
  <2>2. PICK m \in T : \A x \in T : m <= x
        BY <2>1, LeastNumber
  <2>3. PICK k \in keys : m = age[k]
        BY <2>2 DEF T
  <2>4. PICK c \in registry[k].definition.children : c \in keys
        BY <1>2 DEF LeadsBack
  <2>5. age[c] < age[k] /\ age[c] \in T /\ age[k] \in Nat /\ age[c] \in Nat
        BY <1>1, <2>4 DEF AgesFall, T
  <2> QED BY <2>2, <2>3, <2>5
<1>3. \A k \in DOMAIN registry : registry[k].definition.children \subseteq DOMAIN registry
      BY <1>1 DEF AgesFall
<1>4. \A k \in DOMAIN registry : RowIsRunnable(registry[k])
      BY DEF RegistryInv
<1>5. StatusIsServed
      BY DEF RegistryInv
<1> QED BY <1>2, <1>3, <1>4, <1>5 DEF RegisteredIsRunnable, RowIsRunnable, StatusIsServed

(* Whatever is registered, in any order and of any definitions, runs all   *)
(* of its nodes in an order that its edges allow, never leads back to      *)
(* itself, and is served when it is the active version (workflow.py:71-236). *)
THEOREM RegistryStaysRunnable == RegistryInit /\ [][RegistryNext]_registryVars => []RegisteredIsRunnable
BY RegistryStarts, RegistryStep, RegistryFollows, PTL

(* The nodes of a definition and of all that it reaches.  Definitions have *)
(* ages, and a definition is older than what it names; the function that   *)
(* adds the nodes up exists for the ages below any number, thus for all.   *)
Own(cat, n) == Cardinality(cat[n].skills) + Len(cat[n].children) + cat[n].gates
OfKids(cat, n, f) == [i \in DOMAIN cat[n].children |-> f[cat[n].children[i]]]
Expands(cat, names, f) == f = [n \in names |-> Own(cat, n) + SumOf(OfKids(cat, n, f))]
Expansion(cat) == CHOOSE f : Expands(cat, DOMAIN cat, f)

RowIsFormed(cat, n) ==
    /\ {"children", "skills", "gates"} \subseteq DOMAIN cat[n]
    /\ cat[n].children \in Seq(DOMAIN cat) /\ IsFiniteSet(cat[n].skills) /\ cat[n].gates \in Nat

Aged(cat, age) ==
    /\ IsFiniteSet(DOMAIN cat)
    /\ \A n \in DOMAIN cat : RowIsFormed(cat, n) /\ age[n] \in 1..Cardinality(DOMAIN cat)
    /\ \A n \in DOMAIN cat : \A i \in DOMAIN cat[n].children :
          cat[n].children[i] \in DOMAIN cat /\ age[cat[n].children[i]] < age[n]

Below(cat, age, m) == {n \in DOMAIN cat : age[n] < m}

LEMMA BelowAll ==
    ASSUME NEW cat, NEW age, Aged(cat, age)
    PROVE  /\ Cardinality(DOMAIN cat) \in Nat
           /\ Below(cat, age, Cardinality(DOMAIN cat) + 1) = DOMAIN cat /\ Below(cat, age, 0) = {}
<1>1. Cardinality(DOMAIN cat) \in Nat
      BY FS_CardinalityType DEF Aged
<1>2. \A n \in DOMAIN cat : age[n] < Cardinality(DOMAIN cat) + 1 /\ ~ (age[n] < 0)
      BY <1>1 DEF Aged
<1> QED BY <1>1, <1>2 DEF Below

LEMMA ExpandsBelow ==
    ASSUME NEW cat, NEW age, Aged(cat, age), NEW low \in Nat
    PROVE  \E f : Expands(cat, Below(cat, age, low), f)
<1> DEFINE T == {m \in Nat : ~ \E f : Expands(cat, Below(cat, age, m), f)}
           sum(n, f) == Own(cat, n) + SumOf(OfKids(cat, n, f))
<1>1. SUFFICES ASSUME T # {} PROVE FALSE
      OBVIOUS
<1>2. PICK m \in T : \A k \in T : m <= k
  <2>1. T \in SUBSET Nat
        OBVIOUS
  <2> HIDE DEF T
  <2> QED BY <1>1, <2>1, LeastNumber
<1>3. m \in Nat /\ ~ \E f : Expands(cat, Below(cat, age, m), f)
      OBVIOUS
<1>4. CASE m = 0
  <2> DEFINE none == [n \in {} |-> 0]
  <2>1. none = [n \in {} |-> sum(n, none)]
        OBVIOUS
  <2>2. Expands(cat, {}, none)
        BY <2>1 DEF Expands
  <2> QED BY <1>3, <1>4, <2>2, BelowAll
<1>5. CASE m # 0
  <2>1. m - 1 \in Nat /\ m - 1 \notin T
        BY <1>2, <1>3, <1>5
  <2>2. PICK old : Expands(cat, Below(cat, age, m - 1), old)
        BY <2>1
  <2>3. old = [n \in Below(cat, age, m - 1) |-> sum(n, old)]
        BY <2>2 DEF Expands
  <2> DEFINE new == [n \in Below(cat, age, m) |-> sum(n, old)]
  <2>4. ASSUME NEW n \in Below(cat, age, m) PROVE OfKids(cat, n, old) = OfKids(cat, n, new)
    <3>1. ASSUME NEW i \in DOMAIN cat[n].children PROVE old[cat[n].children[i]] = new[cat[n].children[i]]
      <4> DEFINE c == cat[n].children[i]
      <4>1. n \in DOMAIN cat /\ age[n] < m
            BY DEF Below
      <4>2. c \in DOMAIN cat /\ age[c] < age[n] /\ age[c] \in Int /\ age[n] \in Int
            BY <4>1 DEF Aged
      <4>3. c \in Below(cat, age, m - 1) /\ c \in Below(cat, age, m)
            BY <1>3, <4>1, <4>2 DEF Below
      <4> HIDE DEF c, sum
      <4>4. old[c] = sum(c, old)
            BY <2>3, <4>3
      <4>5. new[c] = sum(c, old)
            BY <4>3
      <4> QED BY <4>4, <4>5 DEF c
    <3> HIDE DEF new
    <3> QED BY <3>1 DEF OfKids
  <2>5. \A n \in Below(cat, age, m) : sum(n, old) = sum(n, new)
    <3> HIDE DEF new
    <3> QED BY <2>4
  <2>6. new = [n \in Below(cat, age, m) |-> sum(n, new)]
    <3> HIDE DEF sum
    <3> QED BY <2>5
  <2>7. Expands(cat, Below(cat, age, m), new)
    <3> HIDE DEF new
    <3> QED BY <2>6 DEF Expands
  <2> QED BY <1>3, <2>7
<1> QED BY <1>4, <1>5

LEMMA ExpansionIs ==
    ASSUME NEW cat, NEW age, Aged(cat, age), NEW n \in DOMAIN cat
    PROVE  Expansion(cat)[n] = Own(cat, n) + SumOf(OfKids(cat, n, Expansion(cat)))
<1>1. Cardinality(DOMAIN cat) + 1 \in Nat
      BY BelowAll
<1>2. \E f : Expands(cat, DOMAIN cat, f)
      BY <1>1, BelowAll, ExpandsBelow
<1>3. Expands(cat, DOMAIN cat, Expansion(cat))
      BY <1>2 DEF Expansion
<1> QED BY <1>3 DEF Expands

LEMMA SumIs == ASSUME NEW f PROVE SumOf(f) = Total(f, DOMAIN f)
BY DEF SumOf, Total

LEMMA ExpansionType ==
    ASSUME NEW cat, NEW age, Aged(cat, age)
    PROVE  \A n \in DOMAIN cat : Expansion(cat)[n] \in Int
<1> DEFINE D == {n \in DOMAIN cat : Expansion(cat)[n] \notin Int}
           T == {age[n] : n \in D}
<1>1. SUFFICES ASSUME T # {} PROVE FALSE
      OBVIOUS
<1>2. T \in SUBSET Nat
      BY DEF Aged
<1>3. PICK m \in T : \A k \in T : m <= k
  <2> HIDE DEF T
  <2> QED BY <1>1, <1>2, LeastNumber
<1>4. PICK n \in D : m = age[n]
      OBVIOUS
<1>5. n \in DOMAIN cat /\ Expansion(cat)[n] \notin Int
      OBVIOUS
<1> DEFINE kids == OfKids(cat, n, Expansion(cat))
<1>6. \A i \in DOMAIN cat[n].children : Expansion(cat)[cat[n].children[i]] \in Int
  <2> SUFFICES ASSUME NEW i \in DOMAIN cat[n].children PROVE cat[n].children[i] \in DOMAIN cat /\ cat[n].children[i] \notin D
      OBVIOUS
  <2> DEFINE c == cat[n].children[i]
  <2>1. c \in DOMAIN cat /\ age[c] < age[n] /\ age[c] \in Int /\ age[n] \in Int
        BY <1>5 DEF Aged
  <2>2. ~ (m <= age[c])
        BY <1>4, <2>1
  <2> HIDE DEF c, D
  <2>3. c \notin D
        BY <1>3, <2>2
  <2> QED BY <2>1, <2>3 DEF c
<1> HIDE DEF D
<1>7. RowIsFormed(cat, n)
      BY <1>5 DEF Aged
<1>8. IsFiniteSet(DOMAIN cat[n].children) /\ Len(cat[n].children) \in Nat
  <2>1. Len(cat[n].children) \in Nat /\ DOMAIN cat[n].children = 1..Len(cat[n].children)
        BY <1>7 DEF RowIsFormed
  <2>2. IsFiniteSet(1..Len(cat[n].children))
        BY <2>1, FS_Interval
  <2> QED BY <2>1, <2>2
<1>9. DOMAIN kids = DOMAIN cat[n].children /\ \A i \in DOMAIN kids : kids[i] \in Int
      BY <1>6 DEF OfKids
<1> HIDE DEF kids
<1>10. SumOf(kids) \in Int
  <2>1. Total(kids, DOMAIN kids) \in Int
        BY <1>8, <1>9, TotalType
  <2> QED BY <2>1, SumIs
<1>11. Own(cat, n) \in Int
  <2>1. Cardinality(cat[n].skills) \in Nat /\ cat[n].gates \in Nat
        BY <1>7, FS_CardinalityType DEF RowIsFormed
  <2> QED BY <1>8, <2>1 DEF Own
<1>12. Expansion(cat)[n] = Own(cat, n) + SumOf(kids)
      BY <1>5, ExpansionIs DEF kids
<1> QED BY <1>5, <1>10, <1>11, <1>12

(* A catalog that grows changes nothing of what it had.                    *)
LEMMA ExpansionKeeps ==
    ASSUME NEW cat, NEW age, Aged(cat, age), NEW next, NEW later, Aged(next, later), DOMAIN cat \subseteq DOMAIN next,
           \A n \in DOMAIN cat : next[n].children = cat[n].children /\ Own(next, n) = Own(cat, n)
    PROVE  \A n \in DOMAIN cat : Expansion(next)[n] = Expansion(cat)[n]
<1> DEFINE D == {n \in DOMAIN cat : Expansion(next)[n] # Expansion(cat)[n]}
           T == {age[n] : n \in D}
<1>1. SUFFICES ASSUME T # {} PROVE FALSE
      OBVIOUS
<1>2. T \in SUBSET Nat
      BY DEF Aged
<1>3. PICK m \in T : \A k \in T : m <= k
  <2> HIDE DEF T
  <2> QED BY <1>1, <1>2, LeastNumber
<1>4. PICK n \in D : m = age[n]
      OBVIOUS
<1>5. n \in DOMAIN cat /\ n \in DOMAIN next /\ Expansion(next)[n] # Expansion(cat)[n]
      OBVIOUS
<1>6. \A i \in DOMAIN cat[n].children : Expansion(next)[cat[n].children[i]] = Expansion(cat)[cat[n].children[i]]
  <2> SUFFICES ASSUME NEW i \in DOMAIN cat[n].children PROVE cat[n].children[i] \in DOMAIN cat /\ cat[n].children[i] \notin D
      OBVIOUS
  <2> DEFINE c == cat[n].children[i]
  <2>1. c \in DOMAIN cat /\ age[c] < age[n] /\ age[c] \in Int /\ age[n] \in Int
        BY <1>5 DEF Aged
  <2>2. ~ (m <= age[c])
        BY <1>4, <2>1
  <2> HIDE DEF c, D
  <2>3. c \notin D
        BY <1>3, <2>2
  <2> QED BY <2>1, <2>3 DEF c
<1> HIDE DEF D
<1>7. OfKids(next, n, Expansion(next)) = OfKids(cat, n, Expansion(cat))
      BY <1>5, <1>6 DEF OfKids
<1> QED BY <1>5, <1>7, ExpansionIs

(* The invariant of the composition: what was composed was within its      *)
(* limits when it was, and nothing in the catalog has changed since.       *)
CompositionInv ==
    /\ \E age : Aged(catalog, age)
    /\ DOMAIN composed \subseteq DOMAIN catalog
    /\ \A n \in DOMAIN composed : Expansion(catalog)[n] <= composed[n].nodes

LEMMA CompositionStarts == CompositionInit => CompositionInv
<1> SUFFICES ASSUME CompositionInit PROVE CompositionInv
    OBVIOUS
<1>1. catalog = BaseDna /\ DOMAIN composed = {}
      BY DEF CompositionInit
<1>2. PICK age \in [DOMAIN BaseDna -> 1..Cardinality(DOMAIN BaseDna)] :
         \A n \in DOMAIN BaseDna : \A c \in Range(BaseDna[n].children) : age[c] < age[n]
      BY CompositionAssumption
<1>3. \A n \in DOMAIN BaseDna : RowIsFormed(BaseDna, n) /\ age[n] \in 1..Cardinality(DOMAIN BaseDna)
      BY CompositionAssumption DEF RowIsFormed
<1>4. ASSUME NEW n \in DOMAIN BaseDna, NEW i \in DOMAIN BaseDna[n].children
      PROVE  BaseDna[n].children[i] \in DOMAIN BaseDna /\ age[BaseDna[n].children[i]] < age[n]
  <2>1. BaseDna[n].children[i] \in DOMAIN BaseDna
        BY CompositionAssumption
  <2>2. BaseDna[n].children[i] \in Range(BaseDna[n].children)
        BY DEF Range
  <2> QED BY <1>2, <2>1, <2>2
<1>5. Aged(BaseDna, age)
      BY <1>3, <1>4, CompositionAssumption DEF Aged
<1> QED BY <1>1, <1>5 DEF CompositionInv

LEMMA ExpandedIs == ASSUME NEW roots PROVE ExpandedNodes(roots) = SumOf([i \in DOMAIN roots |-> Expansion(catalog)[roots[i]]])
BY DEF ExpandedNodes, Expansion, Expands, OfKids, Own, OwnNodes, Children

LEMMA ComposeKeeps ==
    ASSUME CompositionInv, NEW name \in ComposedNames, NEW roots \in Roots, NEW parallel \in BOOLEAN, NEW limits \in LimitSets,
           Compose(name, roots, parallel, limits)
    PROVE  CompositionInv'
<1> DEFINE gate == IF parallel THEN 1 ELSE 0
           names == DOMAIN catalog
           n == Cardinality(names)
<1>0. PICK row : row = [children |-> roots, skills |-> {}, gates |-> gate,
                        timeout |-> IF parallel THEN MaxOf(Timeouts(roots)) ELSE SumOf(Timeouts(roots)),
                        parallelism |-> IF parallel THEN SumOf(Parallelisms(roots)) ELSE MaxOf(Parallelisms(roots)),
                        capabilities |-> Capabilities(roots), composable |-> FALSE]
      OBVIOUS
<1>1. /\ name \notin names
      /\ ExpandedNodes(roots) + Len(roots) + gate <= limits.nodes
      /\ catalog' = [x \in names \cup {name} |-> IF x = name THEN row ELSE catalog[x]]
      /\ composed' = [x \in DOMAIN composed \cup {name} |-> IF x = name THEN limits ELSE composed[x]]
      BY <1>0 DEF Compose
<1>2. /\ row.children = roots /\ row.skills = {} /\ row.gates = gate /\ gate \in Nat
      /\ {"children", "skills", "gates"} \subseteq DOMAIN row
      BY <1>0
<1>3. roots \in Seq(names) /\ Len(roots) \in Nat
  <2>1. PICK k \in 1..2 : roots \in [1..k -> names]
        BY DEF Roots
  <2> QED BY <2>1
<1> HIDE DEF gate
<1>4. PICK age : Aged(catalog, age)
      BY DEF CompositionInv
<1>5. IsFiniteSet(names) /\ IsFiniteSet(names \cup {name}) /\ Cardinality(names \cup {name}) = n + 1 /\ n \in Nat
      BY <1>1, <1>4, FS_AddElement, FS_CardinalityType DEF Aged
<1>6. /\ DOMAIN catalog' = names \cup {name} /\ catalog'[name] = row
      /\ \A x \in names : catalog'[x] = catalog[x]
      BY <1>1
<1>7. PICK later : later = [x \in names \cup {name} |-> IF x = name THEN n + 1 ELSE age[x]]
      OBVIOUS
<1>8. \A x \in names : later[x] = age[x] /\ age[x] \in 1..n /\ later[x] \in 1..(n + 1) /\ RowIsFormed(catalog, x)
      BY <1>1, <1>4, <1>5, <1>7 DEF Aged
<1>9. later[name] = n + 1 /\ later[name] \in 1..(n + 1)
      BY <1>5, <1>7
<1>10. ASSUME NEW x \in names \cup {name} PROVE RowIsFormed(catalog', x)
  <2>1. CASE x = name
    <3>1. IsFiniteSet({}) /\ roots \in Seq(names \cup {name})
          BY <1>3, FS_EmptySet
    <3> QED BY <1>2, <1>6, <2>1, <3>1 DEF RowIsFormed
  <2>2. CASE x # name
    <3>1. RowIsFormed(catalog, x) /\ catalog'[x] = catalog[x]
          BY <1>6, <1>8, <2>2
    <3>2. catalog[x].children \in Seq(names \cup {name})
          BY <3>1 DEF RowIsFormed
    <3> QED BY <1>6, <3>1, <3>2 DEF RowIsFormed
  <2> QED BY <2>1, <2>2
<1>11. ASSUME NEW x \in names \cup {name}, NEW i \in DOMAIN catalog'[x].children
       PROVE  catalog'[x].children[i] \in names \cup {name} /\ later[catalog'[x].children[i]] < later[x]
  <2>1. CASE x = name
    <3>1. i \in DOMAIN roots /\ catalog'[x].children[i] = roots[i]
          BY <1>2, <1>6, <1>11, <2>1
    <3>2. roots[i] \in names
          BY <1>3, <3>1
    <3> QED BY <1>5, <1>8, <1>9, <2>1, <3>1, <3>2
  <2>2. CASE x # name
    <3>1. x \in names /\ catalog'[x] = catalog[x] /\ i \in DOMAIN catalog[x].children
          BY <1>6, <1>11, <2>2
    <3>2. catalog[x].children[i] \in names /\ age[catalog[x].children[i]] < age[x]
          BY <1>4, <3>1 DEF Aged
    <3> QED BY <1>8, <3>1, <3>2
  <2> QED BY <2>1, <2>2
<1>12. Aged(catalog', later)
  <2>1. Cardinality(DOMAIN catalog') = n + 1 /\ IsFiniteSet(DOMAIN catalog')
        BY <1>5, <1>6
  <2>2. \A x \in names \cup {name} : later[x] \in 1..(n + 1)
        BY <1>8, <1>9
  <2> HIDE DEF n, names
  <2> QED BY <1>6, <1>10, <1>11, <2>1, <2>2 DEF Aged
<1>13. \A x \in names : Expansion(catalog')[x] = Expansion(catalog)[x]
  <2>1. \A x \in names : catalog'[x].children = catalog[x].children /\ Own(catalog', x) = Own(catalog, x)
        BY <1>6 DEF Own
  <2>2. names \subseteq DOMAIN catalog'
        BY <1>6
  <2> QED BY <1>4, <1>12, <2>1, <2>2, ExpansionKeeps
<1>14. Expansion(catalog')[name] <= limits.nodes
  <2>1. Expansion(catalog')[name] = Own(catalog', name) + SumOf(OfKids(catalog', name, Expansion(catalog')))
        BY <1>6, <1>12, ExpansionIs
  <2>2. OfKids(catalog', name, Expansion(catalog')) = [i \in DOMAIN roots |-> Expansion(catalog)[roots[i]]]
    <3>1. catalog'[name].children = roots
          BY <1>2, <1>6
    <3>2. \A i \in DOMAIN roots : roots[i] \in names
          BY <1>3
    <3> HIDE DEF names
    <3> QED BY <1>13, <3>1, <3>2 DEF OfKids
  <2>3. Own(catalog', name) = Len(roots) + gate
    <3>1. catalog'[name].skills = {} /\ catalog'[name].children = roots /\ catalog'[name].gates = gate
          BY <1>2, <1>6
    <3>2. Cardinality({}) = 0
          BY FS_EmptySet
    <3> QED BY <1>2, <1>3, <3>1, <3>2 DEF Own
  <2>4. SumOf([i \in DOMAIN roots |-> Expansion(catalog)[roots[i]]]) = ExpandedNodes(roots)
        BY ExpandedIs
  <2>5. Expansion(catalog')[name] = (Len(roots) + gate) + ExpandedNodes(roots)
        BY <2>1, <2>2, <2>3, <2>4
  <2>6. ExpandedNodes(roots) \in Int
    <3> DEFINE f == [i \in DOMAIN roots |-> Expansion(catalog)[roots[i]]]
    <3>1. DOMAIN f = 1..Len(roots) /\ \A i \in DOMAIN f : roots[i] \in names
          BY <1>3
    <3>2. \A i \in DOMAIN f : f[i] \in Int
          BY <1>4, <3>1, ExpansionType
    <3>3. IsFiniteSet(DOMAIN f)
      <4>1. IsFiniteSet(1..Len(roots))
            BY <1>3, FS_Interval
      <4> HIDE DEF f
      <4> QED BY <3>1, <4>1
    <3> HIDE DEF f
    <3>4. SumOf(f) \in Int
          BY <3>2, <3>3, TotalType, SumIs
    <3> QED BY <2>4, <3>4 DEF f
  <2> QED BY <1>1, <1>2, <1>3, <2>5, <2>6
<1>15. DOMAIN composed' \subseteq names \cup {name} /\ \A x \in DOMAIN composed' : Expansion(catalog')[x] <= composed'[x].nodes
  <2>1. DOMAIN composed \subseteq names /\ \A x \in DOMAIN composed : Expansion(catalog)[x] <= composed[x].nodes
        BY DEF CompositionInv
  <2>2. \A x \in DOMAIN composed : composed'[x] = composed[x] /\ x # name
        BY <1>1, <2>1
  <2>3. DOMAIN composed' = DOMAIN composed \cup {name} /\ composed'[name] = limits
        BY <1>1
  <2> HIDE DEF names
  <2> QED BY <1>13, <1>14, <2>1, <2>2, <2>3
<1> QED BY <1>6, <1>12, <1>15 DEF CompositionInv

LEMMA ValidateKeeps == ASSUME CompositionInv, NEW name \in DOMAIN catalog, Validate(name) PROVE CompositionInv'
<1>1. catalog' = [catalog EXCEPT ![name].composable = TRUE] /\ composed' = composed
      BY DEF Validate
<1>2. PICK age : Aged(catalog, age)
      BY DEF CompositionInv
<1>3. DOMAIN catalog' = DOMAIN catalog
      BY <1>1
<1>4. ASSUME NEW n \in DOMAIN catalog
      PROVE  /\ {"children", "skills", "gates"} \subseteq DOMAIN catalog'[n]
             /\ catalog'[n].children = catalog[n].children /\ catalog'[n].skills = catalog[n].skills
             /\ catalog'[n].gates = catalog[n].gates
  <2>1. {"children", "skills", "gates"} \subseteq DOMAIN catalog[n]
        BY <1>2 DEF Aged, RowIsFormed
  <2>2. catalog'[n] = IF n = name THEN [catalog[n] EXCEPT !.composable = TRUE] ELSE catalog[n]
        BY <1>1
  <2> DEFINE row == catalog[n]
             next == catalog'[n]
  <2>3. next = IF n = name THEN [row EXCEPT !.composable = TRUE] ELSE row
        BY <2>2
  <2>4. {"children", "skills", "gates"} \subseteq DOMAIN row
        BY <2>1
  <2> HIDE DEF row, next
  <2>5. /\ {"children", "skills", "gates"} \subseteq DOMAIN next
        /\ next.children = row.children /\ next.skills = row.skills /\ next.gates = row.gates
        BY <2>3, <2>4
  <2> QED BY <2>5 DEF row, next
<1>5. Aged(catalog', age)
      BY <1>2, <1>3, <1>4 DEF Aged, RowIsFormed
<1>6. \A n \in DOMAIN catalog : Expansion(catalog')[n] = Expansion(catalog)[n]
  <2>1. \A n \in DOMAIN catalog : catalog'[n].children = catalog[n].children /\ Own(catalog', n) = Own(catalog, n)
        BY <1>4 DEF Own
  <2> QED BY <1>2, <1>3, <1>5, <2>1, ExpansionKeeps
<1> QED BY <1>1, <1>3, <1>5, <1>6 DEF CompositionInv

LEMMA CompositionStep == CompositionInv /\ [CompositionNext]_compositionVars => CompositionInv'
<1> SUFFICES ASSUME CompositionInv, [CompositionNext]_compositionVars PROVE CompositionInv'
    OBVIOUS
<1>1. CASE UNCHANGED compositionVars
      BY <1>1 DEF compositionVars, CompositionInv, Aged, RowIsFormed
<1> QED BY <1>1, ComposeKeeps, ValidateKeeps DEF CompositionNext

(* Sums over images and over unions of sets that share nothing.            *)
LEMMA TotalImage ==
    ASSUME NEW S, IsFiniteSet(S), NEW f, NEW g, NEW h,
           \A x \in S : g[x] \in Int /\ h[f[x]] = g[x],
           \A x, y \in S : f[x] = f[y] => x = y,
           NEW R, R = {f[x] : x \in S}
    PROVE  IsFiniteSet(R) /\ Total(h, R) = Total(g, S)
<1> DEFINE I(s) == {f[x] : x \in s}
           T == {s \in SUBSET S : ~ (IsFiniteSet(I(s)) /\ Total(h, I(s)) = Total(g, s))}
<1>1. SUFFICES ASSUME T # {} PROVE FALSE
      OBVIOUS
<1>2. PICK s \in T : \A u \in SUBSET s : u # s => u \notin T
  <2> HIDE DEF T
  <2>1. T \in SUBSET SUBSET S
        BY DEF T
  <2> QED BY <1>1, <2>1, SmallestSet
<1>3. s \in SUBSET S /\ IsFiniteSet(s) /\ ~ (IsFiniteSet(I(s)) /\ Total(h, I(s)) = Total(g, s))
      BY FS_Subset
<1>4. CASE s = {}
  <2>1. I(s) = {}
        BY <1>4
  <2> HIDE DEF I
  <2> QED BY <1>3, <1>4, <2>1, TotalEmpty, FS_EmptySet
<1>5. CASE s # {}
  <2>1. PICK x : x \in s
        BY <1>5
  <2> DEFINE u == s \ {x}
  <2>2. IsFiniteSet(I(u)) /\ Total(h, I(u)) = Total(g, u)
    <3>1. u \in SUBSET s /\ u # s /\ u \in SUBSET S
          BY <1>3, <2>1
    <3> QED BY <1>2, <3>1
  <2>3. I(s) = I(u) \cup {f[x]} /\ I(u) = I(s) \ {f[x]}
    <3>1. \A y \in u : f[y] # f[x]
          BY <1>3, <2>1
    <3> QED BY <2>1, <3>1
  <2>4. \A z \in I(s) : h[z] \in Int
        BY <1>3
  <2>5. f[x] \in I(s) /\ h[f[x]] = g[x] /\ \A y \in s : g[y] \in Int
        BY <1>3, <2>1
  <2> HIDE DEF I, u
  <2>6. IsFiniteSet(I(s))
    <3>1. PICK A : A = I(u)
          OBVIOUS
    <3>2. IsFiniteSet(A \cup {f[x]})
          BY <2>2, <3>1, FS_AddElement
    <3> QED BY <2>3, <3>1, <3>2
  <2>7. Total(h, I(s)) = Total(h, I(u)) + h[f[x]]
    <3>1. PICK A : A = I(s)
          OBVIOUS
    <3>2. Total(h, A) = Total(h, A \ {f[x]}) + h[f[x]]
          BY <2>4, <2>5, <2>6, <3>1, TotalAdd
    <3> QED BY <2>3, <3>1, <3>2
  <2>8. Total(g, s) = Total(g, u) + g[x]
        BY <1>3, <2>1, <2>5, TotalAdd DEF u
  <2> QED BY <1>3, <2>2, <2>5, <2>6, <2>7, <2>8
<1> QED BY <1>4, <1>5

LEMMA TotalJoin ==
    ASSUME NEW A, NEW B, IsFiniteSet(A), IsFiniteSet(B), A \cap B = {}, NEW g, \A x \in A \cup B : g[x] \in Int
    PROVE  IsFiniteSet(A \cup B) /\ Total(g, A \cup B) = Total(g, A) + Total(g, B)
<1> DEFINE T == {s \in SUBSET A : Total(g, s \cup B) # Total(g, s) + Total(g, B)}
<1>0. \A s \in SUBSET A : IsFiniteSet(s) /\ IsFiniteSet(s \cup B)
  <2>1. ASSUME NEW s \in SUBSET A PROVE IsFiniteSet(s) /\ IsFiniteSet(s \cup B)
        BY FS_Subset, FS_Union
  <2> QED BY <2>1
<1>1. SUFFICES ASSUME T # {} PROVE FALSE
      BY <1>0
<1>2. PICK s \in T : \A u \in SUBSET s : u # s => u \notin T
  <2> HIDE DEF T
  <2>1. T \in SUBSET SUBSET A
        BY DEF T
  <2> QED BY <1>1, <2>1, SmallestSet
<1>3. s \in SUBSET A /\ Total(g, s \cup B) # Total(g, s) + Total(g, B)
      OBVIOUS
<1>t. Total(g, B) \in Int
      BY TotalType
<1>4. s # {}
  <2>1. {} \cup B = B
        OBVIOUS
  <2> HIDE DEF T
  <2> QED BY <1>3, <1>t, <2>1, TotalEmpty
<1>5. PICK x : x \in s
      BY <1>4
<1> DEFINE u == s \ {x}
<1>6. u \in SUBSET s /\ u # s /\ u \in SUBSET A
      BY <1>3, <1>5
<1>7. Total(g, u \cup B) = Total(g, u) + Total(g, B)
      BY <1>2, <1>6
<1>8. (s \cup B) \ {x} = u \cup B /\ x \in s \cup B
      BY <1>3, <1>5
<1> HIDE DEF T
<1>9. /\ IsFiniteSet(s) /\ IsFiniteSet(s \cup B) /\ IsFiniteSet(u)
      /\ \A y \in s \cup B : g[y] \in Int
      BY <1>0, <1>3, <1>6
<1>10. Total(g, s \cup B) = Total(g, u \cup B) + g[x]
       BY <1>8, <1>9, TotalAdd
<1>11. Total(g, s) = Total(g, u) + g[x]
       BY <1>5, <1>9, TotalAdd
<1>12. Total(g, u) \in Int /\ g[x] \in Int
       BY <1>5, <1>9, TotalType
<1> HIDE DEF u
<1> QED BY <1>3, <1>t, <1>7, <1>10, <1>11, <1>12

(* The sets F[i] split R among themselves, and h has the sum of each.      *)
SplitInto(I, F, R, g, h) ==
    /\ \A i \in I : IsFiniteSet(F[i]) /\ h[i] = Total(g, F[i]) /\ \A x \in F[i] : g[x] \in Int
    /\ \A i, j \in I : i # j => F[i] \cap F[j] = {}
    /\ R = UNION {F[i] : i \in I}

LEMMA TotalUnion ==
    ASSUME NEW I, IsFiniteSet(I), NEW F, NEW R, NEW g, NEW h, SplitInto(I, F, R, g, h)
    PROVE  IsFiniteSet(R) /\ Total(g, R) = Total(h, I)
<1>0. /\ \A i \in I : IsFiniteSet(F[i]) /\ h[i] = Total(g, F[i]) /\ \A x \in F[i] : g[x] \in Int
      /\ \A i, j \in I : i # j => F[i] \cap F[j] = {}
      /\ R = UNION {F[i] : i \in I}
      BY DEF SplitInto
<1> DEFINE U(s) == UNION {F[i] : i \in s}
           T == {s \in SUBSET I : ~ (IsFiniteSet(U(s)) /\ Total(g, U(s)) = Total(h, s))}
<1>1. SUFFICES ASSUME T # {} PROVE FALSE
      BY <1>0
<1>2. PICK s \in T : \A u \in SUBSET s : u # s => u \notin T
  <2> HIDE DEF T
  <2>1. T \in SUBSET SUBSET I
        BY DEF T
  <2> QED BY <1>1, <2>1, SmallestSet
<1>3. s \in SUBSET I /\ IsFiniteSet(s) /\ ~ (IsFiniteSet(U(s)) /\ Total(g, U(s)) = Total(h, s))
      BY FS_Subset
<1>h. \A i \in I : h[i] \in Int
  <2>1. ASSUME NEW i \in I PROVE h[i] \in Int
        BY <1>0, TotalType
  <2> QED BY <2>1
<1>4. CASE s = {}
  <2>1. U(s) = {}
        BY <1>4
  <2> HIDE DEF U
  <2> QED BY <1>3, <1>4, <2>1, TotalEmpty, FS_EmptySet
<1>5. CASE s # {}
  <2>1. PICK i : i \in s
        BY <1>5
  <2> DEFINE u == s \ {i}
  <2>2. IsFiniteSet(U(u)) /\ Total(g, U(u)) = Total(h, u)
    <3>1. u \in SUBSET s /\ u # s /\ u \in SUBSET I
          BY <1>3, <2>1
    <3> QED BY <1>2, <3>1
  <2>3. U(s) = U(u) \cup F[i]
        BY <2>1
  <2>4. U(u) \cap F[i] = {}
        BY <1>0, <1>3, <2>1
  <2>5. \A x \in U(u) \cup F[i] : g[x] \in Int
        BY <1>0, <1>3, <2>1
  <2>6. IsFiniteSet(F[i]) /\ h[i] = Total(g, F[i]) /\ \A y \in s : h[y] \in Int
        BY <1>0, <1>3, <1>h, <2>1
  <2> HIDE DEF U, T, u
  <2>7. IsFiniteSet(U(s)) /\ Total(g, U(s)) = Total(g, U(u)) + Total(g, F[i])
    <3>1. PICK A, B : A = U(u) /\ B = F[i]
          OBVIOUS
    <3>2. IsFiniteSet(A) /\ IsFiniteSet(B) /\ A \cap B = {} /\ \A x \in A \cup B : g[x] \in Int
          BY <2>2, <2>4, <2>5, <2>6, <3>1
    <3>3. IsFiniteSet(A \cup B) /\ Total(g, A \cup B) = Total(g, A) + Total(g, B)
          BY <3>2, TotalJoin
    <3> QED BY <2>3, <3>1, <3>3
  <2>8. Total(h, s) = Total(h, u) + h[i]
        BY <1>3, <2>1, <2>6, TotalAdd DEF u
  <2> QED BY <1>3, <2>2, <2>6, <2>7, <2>8
<1> QED BY <1>4, <1>5

(* The walks of a definition: they exist age by age, as the expansion does. *)
Trails(cat, n, w) ==
    {<<n>>} \cup UNION {{<<n, i>> \o p : p \in w[cat[n].children[i]]} : i \in DOMAIN cat[n].children}
Walks(cat, names, w) == w = [n \in names |-> Trails(cat, n, w)]
WalkOf(cat) == CHOOSE w : Walks(cat, DOMAIN cat, w)

LEMMA PathsAre == ASSUME NEW name \in DOMAIN catalog PROVE Paths(name) = WalkOf(catalog)[name]
BY DEF Paths, WalkOf, Walks, Trails, Children

LEMMA WalksBelow ==
    ASSUME NEW cat, NEW age, Aged(cat, age), NEW low \in Nat
    PROVE  \E w : Walks(cat, Below(cat, age, low), w)
<1> DEFINE T == {m \in Nat : ~ \E w : Walks(cat, Below(cat, age, m), w)}
<1>1. SUFFICES ASSUME T # {} PROVE FALSE
      OBVIOUS
<1>2. PICK m \in T : \A k \in T : m <= k
  <2>1. T \in SUBSET Nat
        OBVIOUS
  <2> HIDE DEF T
  <2> QED BY <1>1, <2>1, LeastNumber
<1>3. m \in Nat /\ ~ \E w : Walks(cat, Below(cat, age, m), w)
      OBVIOUS
<1>4. CASE m = 0
  <2> DEFINE none == [n \in {} |-> {}]
  <2>1. none = [n \in {} |-> Trails(cat, n, none)]
        OBVIOUS
  <2>2. Walks(cat, {}, none)
        BY <2>1 DEF Walks
  <2> QED BY <1>3, <1>4, <2>2, BelowAll
<1>5. CASE m # 0
  <2>1. m - 1 \in Nat /\ m - 1 \notin T
        BY <1>2, <1>3, <1>5
  <2>2. PICK old : Walks(cat, Below(cat, age, m - 1), old)
        BY <2>1
  <2>3. old = [n \in Below(cat, age, m - 1) |-> Trails(cat, n, old)]
        BY <2>2 DEF Walks
  <2> DEFINE new == [n \in Below(cat, age, m) |-> Trails(cat, n, old)]
  <2>4. ASSUME NEW n \in Below(cat, age, m) PROVE Trails(cat, n, old) = Trails(cat, n, new)
    <3>1. ASSUME NEW i \in DOMAIN cat[n].children PROVE old[cat[n].children[i]] = new[cat[n].children[i]]
      <4> DEFINE c == cat[n].children[i]
      <4>1. n \in DOMAIN cat /\ age[n] < m
            BY DEF Below
      <4>2. c \in DOMAIN cat /\ age[c] < age[n] /\ age[c] \in Int /\ age[n] \in Int
            BY <4>1 DEF Aged
      <4>3. c \in Below(cat, age, m - 1) /\ c \in Below(cat, age, m)
            BY <1>3, <4>1, <4>2 DEF Below
      <4> HIDE DEF c
      <4>4. old[c] = Trails(cat, c, old)
            BY <2>3, <4>3
      <4>5. new[c] = Trails(cat, c, old)
            BY <4>3
      <4> QED BY <4>4, <4>5 DEF c
    <3> HIDE DEF new
    <3> DEFINE before(i) == {<<n, i>> \o p : p \in old[cat[n].children[i]]}
               after(i) == {<<n, i>> \o p : p \in new[cat[n].children[i]]}
    <3>2. \A i \in DOMAIN cat[n].children : before(i) = after(i)
          BY <3>1
    <3> HIDE DEF before, after
    <3>3. {before(i) : i \in DOMAIN cat[n].children} = {after(i) : i \in DOMAIN cat[n].children}
          BY <3>2
    <3> QED BY <3>3 DEF Trails, before, after
  <2>6. new = [n \in Below(cat, age, m) |-> Trails(cat, n, new)]
        BY <2>4
  <2>7. Walks(cat, Below(cat, age, m), new)
    <3> HIDE DEF new
    <3> QED BY <2>6 DEF Walks
  <2> QED BY <1>3, <2>7
<1> QED BY <1>4, <1>5

LEMMA WalkIs ==
    ASSUME NEW cat, NEW age, Aged(cat, age), NEW n \in DOMAIN cat
    PROVE  WalkOf(cat)[n] = Trails(cat, n, WalkOf(cat))
<1>1. Cardinality(DOMAIN cat) + 1 \in Nat
      BY BelowAll
<1>2. \E w : Walks(cat, DOMAIN cat, w)
      BY <1>1, BelowAll, WalksBelow
<1>3. Walks(cat, DOMAIN cat, WalkOf(cat))
      BY <1>2 DEF WalkOf
<1> QED BY <1>3 DEF Walks

(* A walk through a child ends where the child's walk ends, and its second *)
(* element says through which child it went.                               *)
LEMMA TrailStep ==
    ASSUME NEW S, NEW n \in S, NEW i \in S, NEW p \in Seq(S), p # <<>>
    PROVE  /\ <<n, i>> \o p \in Seq(S) /\ <<n, i>> \o p # <<>> /\ Len(<<n, i>> \o p) # 1
           /\ (<<n, i>> \o p)[2] = i /\ Last(<<n, i>> \o p) = Last(p)
<1> DEFINE q == <<n, i>> \o p
<1>1. <<n, i>> \in Seq(S) /\ Len(<<n, i>>) = 2 /\ <<n, i>>[2] = i
      OBVIOUS
<1>2. Len(p) \in Nat /\ Len(p) # 0
      OBVIOUS
<1>3. q \in Seq(S) /\ Len(q) = 2 + Len(p)
      BY <1>1
<1>4. \A j \in 1..(2 + Len(p)) : q[j] = IF j <= 2 THEN <<n, i>>[j] ELSE p[j - 2]
      BY <1>1
<1> HIDE DEF q
<1>5. q # <<>> /\ Len(q) # 1
      BY <1>2, <1>3
<1>6. q[2] = i
      BY <1>1, <1>2, <1>4
<1>7. q[2 + Len(p)] = p[Len(p)]
  <2>1. 2 + Len(p) \in 1..(2 + Len(p)) /\ ~ (2 + Len(p) <= 2) /\ (2 + Len(p)) - 2 = Len(p)
        BY <1>2
  <2> QED BY <1>4, <2>1
<1> QED BY <1>3, <1>5, <1>6, <1>7 DEF q, Last

WalkIsCounted(cat, n) ==
    /\ IsFiniteSet(WalkOf(cat)[n])
    /\ \A p \in WalkOf(cat)[n] : p \in Seq(DOMAIN cat \cup Nat) /\ p # <<>> /\ Last(p) \in DOMAIN cat
    /\ Total([p \in WalkOf(cat)[n] |-> Own(cat, Last(p))], WalkOf(cat)[n]) = Expansion(cat)[n]

(* One child: its walks, prolonged, add up to its expansion.               *)
LEMMA BranchIsCounted ==
    ASSUME NEW cat, NEW c, WalkIsCounted(cat, c), NEW n \in DOMAIN cat, NEW i \in Nat,
           \A m \in DOMAIN cat : Own(cat, m) \in Int,
           NEW g, \A p \in WalkOf(cat)[c] : g[<<n, i>> \o p] = Own(cat, Last(<<n, i>> \o p))
    PROVE  /\ IsFiniteSet({<<n, i>> \o p : p \in WalkOf(cat)[c]})
           /\ Total(g, {<<n, i>> \o p : p \in WalkOf(cat)[c]}) = Expansion(cat)[c]
<1> DEFINE S == WalkOf(cat)[c]
           U == DOMAIN cat \cup Nat
           f == [p \in S |-> <<n, i>> \o p]
           own == [p \in S |-> Own(cat, Last(p))]
<1>1. /\ IsFiniteSet(S) /\ \A p \in S : p \in Seq(U) /\ p # <<>> /\ Last(p) \in DOMAIN cat
      /\ Total(own, S) = Expansion(cat)[c]
      BY DEF WalkIsCounted
<1>2. n \in U /\ i \in U
      OBVIOUS
<1> HIDE DEF S, U
<1>3. \A p \in S : own[p] \in Int /\ g[f[p]] = own[p]
  <2>1. ASSUME NEW p \in S PROVE own[p] \in Int /\ g[f[p]] = own[p]
    <3>1. Last(<<n, i>> \o p) = Last(p) /\ Last(p) \in DOMAIN cat
          BY <1>1, <1>2, TrailStep
    <3>2. own[p] = Own(cat, Last(p)) /\ f[p] = <<n, i>> \o p
          OBVIOUS
    <3>3. g[<<n, i>> \o p] = Own(cat, Last(<<n, i>> \o p))
          BY DEF S
    <3> QED BY <3>1, <3>2, <3>3
  <2> QED BY <2>1
<1>4. \A p, q \in S : f[p] = f[q] => p = q
  <2>1. ASSUME NEW p \in S, NEW q \in S, f[p] = f[q] PROVE p = q
    <3>1. p \in Seq(U) /\ q \in Seq(U) /\ <<n, i>> \in Seq(U)
          BY <1>1, <1>2
    <3>2. <<n, i>> \o p = <<n, i>> \o q
          BY <2>1
    <3> QED BY <3>1, <3>2
  <2> QED BY <2>1
<1> HIDE DEF own
<1>5. {f[p] : p \in S} = {<<n, i>> \o p : p \in S}
      OBVIOUS
<1> HIDE DEF f
<1>6. PICK R : R = {f[p] : p \in S}
      OBVIOUS
<1>7. IsFiniteSet(R) /\ Total(g, R) = Total(own, S)
  <2>1. /\ IsFiniteSet(S) /\ \A x \in S : own[x] \in Int /\ g[f[x]] = own[x]
        /\ \A x, y \in S : f[x] = f[y] => x = y
        BY <1>1, <1>3, <1>4
  <2> QED BY <1>6, <2>1, TotalImage, SMTT(60)
<1> QED BY <1>1, <1>5, <1>6, <1>7 DEF S

(* All the walks of a definition: the nodes that they reach add up to its  *)
(* expansion.                                                              *)
LEMMA WalksAreCounted ==
    ASSUME NEW cat, NEW age, Aged(cat, age)
    PROVE  \A n \in DOMAIN cat : WalkIsCounted(cat, n)
<1> DEFINE D == {n \in DOMAIN cat : ~ WalkIsCounted(cat, n)}
           T == {age[n] : n \in D}
<1>1. SUFFICES ASSUME T # {} PROVE FALSE
      OBVIOUS
<1>2. T \in SUBSET Nat
      BY DEF Aged
<1>3. PICK low \in T : \A k \in T : low <= k
  <2> HIDE DEF T
  <2> QED BY <1>1, <1>2, LeastNumber
<1>4. PICK n \in D : low = age[n]
      OBVIOUS
<1>5. n \in DOMAIN cat /\ ~ WalkIsCounted(cat, n)
      OBVIOUS
<1> DEFINE kids == cat[n].children
           W == WalkOf(cat)
           U == DOMAIN cat \cup Nat
           through(i) == {<<n, i>> \o p : p \in W[kids[i]]}
           F == [i \in DOMAIN kids |-> through(i)]
           all == UNION {F[i] : i \in DOMAIN kids}
           g == [p \in W[n] |-> Own(cat, Last(p))]
           h == OfKids(cat, n, Expansion(cat))
<1>6. \A i \in DOMAIN kids : WalkIsCounted(cat, kids[i])
  <2> SUFFICES ASSUME NEW i \in DOMAIN kids PROVE kids[i] \in DOMAIN cat /\ kids[i] \notin D
      OBVIOUS
  <2> DEFINE c == kids[i]
  <2>1. c \in DOMAIN cat /\ age[c] < age[n] /\ age[c] \in Int /\ age[n] \in Int
        BY <1>5 DEF Aged
  <2>2. ~ (low <= age[c])
        BY <1>4, <2>1
  <2> HIDE DEF c, D
  <2>3. c \notin D
        BY <1>3, <2>2
  <2> QED BY <2>1, <2>3 DEF c
<1>7. RowIsFormed(cat, n)
      BY <1>5 DEF Aged
<1>8. IsFiniteSet(DOMAIN kids) /\ DOMAIN kids \in SUBSET Nat
  <2>1. Len(kids) \in Nat /\ DOMAIN kids = 1..Len(kids)
        BY <1>7 DEF RowIsFormed
  <2>2. IsFiniteSet(1..Len(kids))
        BY <2>1, FS_Interval
  <2> QED BY <2>1, <2>2
<1>9. \A m \in DOMAIN cat : Own(cat, m) \in Int
  <2>1. ASSUME NEW m \in DOMAIN cat PROVE Own(cat, m) \in Int
    <3>1. RowIsFormed(cat, m)
          BY DEF Aged
    <3>2. Cardinality(cat[m].skills) \in Nat /\ cat[m].gates \in Nat /\ Len(cat[m].children) \in Nat
          BY <3>1, FS_CardinalityType DEF RowIsFormed
    <3> QED BY <3>2 DEF Own
  <2> QED BY <2>1
<1> HIDE DEF D
<1>10. W[n] = {<<n>>} \cup all
  <2>1. W[n] = {<<n>>} \cup UNION {through(i) : i \in DOMAIN kids}
        BY <1>5, WalkIs DEF Trails
  <2> HIDE DEF through, W, kids
  <2>2. {F[i] : i \in DOMAIN kids} = {through(i) : i \in DOMAIN kids}
        OBVIOUS
  <2> HIDE DEF F
  <2> QED BY <2>1, <2>2
<1>11. \A i \in DOMAIN kids : \A p \in W[kids[i]] :
          LET q == <<n, i>> \o p IN
          /\ q \in Seq(U) /\ q # <<>> /\ Len(q) # 1 /\ q[2] = i /\ Last(q) = Last(p) /\ Last(p) \in DOMAIN cat
          /\ q \in W[n]
  <2>1. ASSUME NEW i \in DOMAIN kids, NEW p \in W[kids[i]]
        PROVE  LET q == <<n, i>> \o p IN
          /\ q \in Seq(U) /\ q # <<>> /\ Len(q) # 1 /\ q[2] = i /\ Last(q) = Last(p) /\ Last(p) \in DOMAIN cat
          /\ q \in W[n]
    <3>1. p \in Seq(U) /\ p # <<>> /\ Last(p) \in DOMAIN cat
          BY <1>6 DEF WalkIsCounted
    <3>2. n \in U /\ i \in U
          BY <1>5, <1>8
    <3>3. <<n, i>> \o p \in W[n]
      <4>1. <<n, i>> \o p \in F[i]
            OBVIOUS
      <4> HIDE DEF F, W
      <4> QED BY <1>10, <4>1
    <3> HIDE DEF U, W, kids
    <3> QED BY <3>1, <3>2, <3>3, TrailStep
  <2> QED BY <2>1
<1>12. \A i \in DOMAIN kids : \A q \in F[i] :
          q \in W[n] /\ q \in Seq(U) /\ q # <<>> /\ Len(q) # 1 /\ q[2] = i /\ Last(q) \in DOMAIN cat
  <2> HIDE DEF W, U, kids
  <2>1. ASSUME NEW i \in DOMAIN kids, NEW q \in F[i]
        PROVE  q \in W[n] /\ q \in Seq(U) /\ q # <<>> /\ Len(q) # 1 /\ q[2] = i /\ Last(q) \in DOMAIN cat
    <3>1. PICK p \in W[kids[i]] : q = <<n, i>> \o p
          OBVIOUS
    <3> QED BY <1>11, <3>1
  <2> QED BY <2>1
<1>13. \A i \in DOMAIN kids : IsFiniteSet(F[i]) /\ h[i] = Total(g, F[i]) /\ \A q \in F[i] : g[q] \in Int
  <2>1. ASSUME NEW i \in DOMAIN kids
        PROVE  IsFiniteSet(F[i]) /\ h[i] = Total(g, F[i]) /\ \A q \in F[i] : g[q] \in Int
    <3> DEFINE c == kids[i]
    <3>1. \A p \in W[c] : g[<<n, i>> \o p] = Own(cat, Last(<<n, i>> \o p))
      <4> HIDE DEF W, U, kids
      <4>1. \A p \in W[c] : <<n, i>> \o p \in W[n]
            BY <1>11
      <4> QED BY <4>1
    <3>2. WalkIsCounted(cat, c) /\ i \in Nat
          BY <1>6, <1>8
    <3>3. F[i] = through(i) /\ h[i] = Expansion(cat)[c]
          BY DEF OfKids
    <3>4. \A q \in F[i] : g[q] \in Int
      <4>1. \A q \in F[i] : q \in W[n] /\ Last(q) \in DOMAIN cat
            BY <1>12
      <4> HIDE DEF F, W
      <4> QED BY <1>9, <4>1
    <3> HIDE DEF g, h, F
    <3>5. IsFiniteSet(through(i)) /\ Total(g, through(i)) = Expansion(cat)[c]
          BY <1>5, <1>9, <3>1, <3>2, BranchIsCounted
    <3> HIDE DEF through
    <3> QED BY <3>3, <3>4, <3>5
  <2> QED BY <2>1
<1>14. \A i, j \in DOMAIN kids : i # j => F[i] \cap F[j] = {}
  <2> HIDE DEF F
  <2> QED BY <1>12
<1>15. IsFiniteSet(all) /\ Total(g, all) = Total(h, DOMAIN kids)
  <2>1. PICK I, R : I = DOMAIN kids /\ R = UNION {F[i] : i \in I} /\ R = all
        OBVIOUS
  <2> HIDE DEF F, g, h, kids
  <2>2. /\ IsFiniteSet(I)
        /\ \A i \in I : IsFiniteSet(F[i]) /\ h[i] = Total(g, F[i]) /\ \A q \in F[i] : g[q] \in Int
        /\ \A i, j \in I : i # j => F[i] \cap F[j] = {}
        BY <1>8, <1>13, <1>14, <2>1
  <2> HIDE DEF all
  <2>3. SplitInto(I, F, R, g, h)
        BY <2>1, <2>2, Zenon DEF SplitInto
  <2>4. IsFiniteSet(R) /\ Total(g, R) = Total(h, I)
        BY <2>2, <2>3, TotalUnion
  <2> QED BY <2>1, <2>4
<1>16. <<n>> \notin all /\ {<<n>>} \cap all = {}
  <2>1. Len(<<n>>) = 1
        OBVIOUS
  <2> HIDE DEF F, kids, W, U
  <2> QED BY <1>12, <2>1
<1>17. <<n>> \in Seq(U) /\ <<n>> # <<>> /\ Last(<<n>>) = n
      BY <1>5 DEF Last
<1>18. g[<<n>>] = Own(cat, n) /\ g[<<n>>] \in Int
  <2>1. <<n>> \in W[n]
        BY <1>10
  <2>2. g[<<n>>] = Own(cat, Last(<<n>>))
        BY <2>1
  <2> QED BY <1>5, <1>9, <1>17, <2>2
<1>19. \A q \in {<<n>>} \cup all : g[q] \in Int
  <2> HIDE DEF F, g, kids
  <2> QED BY <1>13, <1>18
<1>20. IsFiniteSet({<<n>>}) /\ Total(g, {<<n>>}) = g[<<n>>]
  <2> HIDE DEF g
  <2>1. IsFiniteSet({<<n>>})
        BY FS_Singleton
  <2>2. {<<n>>} \ {<<n>>} = {} /\ <<n>> \in {<<n>>} /\ \A q \in {<<n>>} : g[q] \in Int
        BY <1>18
  <2>3. Total(g, {<<n>>}) = Total(g, {<<n>>} \ {<<n>>}) + g[<<n>>]
        BY <2>1, <2>2, TotalAdd
  <2> QED BY <1>18, <2>1, <2>2, <2>3, TotalEmpty
<1>21. IsFiniteSet(W[n]) /\ Total(g, W[n]) = Own(cat, n) + Total(h, DOMAIN kids)
  <2>1. PICK A, B : A = {<<n>>} /\ B = all
        OBVIOUS
  <2> HIDE DEF g, h, all, W, kids
  <2>2. IsFiniteSet(A) /\ IsFiniteSet(B) /\ A \cap B = {} /\ \A q \in A \cup B : g[q] \in Int
        BY <1>15, <1>16, <1>19, <1>20, <2>1
  <2>3. IsFiniteSet(A \cup B) /\ Total(g, A \cup B) = Total(g, A) + Total(g, B)
        BY <2>2, TotalJoin
  <2>4. W[n] = A \cup B
        BY <1>10, <2>1
  <2> QED BY <1>15, <1>18, <1>20, <2>1, <2>3, <2>4
<1>22. Total(g, W[n]) = Expansion(cat)[n]
  <2>1. Expansion(cat)[n] = Own(cat, n) + SumOf(h)
        BY <1>5, ExpansionIs
  <2>2. DOMAIN h = DOMAIN kids
        BY DEF OfKids
  <2> HIDE DEF g, h, W, kids
  <2> QED BY <1>21, <2>1, <2>2, SumIs
<1>23. \A p \in W[n] : p \in Seq(U) /\ p # <<>> /\ Last(p) \in DOMAIN cat
  <2> HIDE DEF F, W, U, kids
  <2>1. ASSUME NEW p \in all PROVE p \in Seq(U) /\ p # <<>> /\ Last(p) \in DOMAIN cat
    <3>1. PICK i \in DOMAIN kids : p \in F[i]
          OBVIOUS
    <3> QED BY <1>12, <3>1
  <2> HIDE DEF all
  <2>2. ASSUME NEW p \in W[n] PROVE p \in Seq(U) /\ p # <<>> /\ Last(p) \in DOMAIN cat
    <3>1. p = <<n>> \/ p \in all
          BY <1>10
    <3> QED BY <1>5, <1>17, <2>1, <3>1
  <2> QED BY <2>2
<1> QED BY <1>5, <1>21, <1>22, <1>23 DEF WalkIsCounted

LEMMA ExpansionIsPaths ==
    ASSUME CompositionInv, NEW name \in DOMAIN catalog
    PROVE  SumOf([p \in Paths(name) |-> OwnNodes(Last(p))]) = Expansion(catalog)[name]
<1>1. PICK age : Aged(catalog, age)
      BY DEF CompositionInv
<1> DEFINE f == [p \in Paths(name) |-> OwnNodes(Last(p))]
           g == [p \in WalkOf(catalog)[name] |-> Own(catalog, Last(p))]
<1>2. WalkIsCounted(catalog, name)
      BY <1>1, WalksAreCounted
<1>3. Paths(name) = WalkOf(catalog)[name]
      BY PathsAre
<1>4. f = g /\ DOMAIN f = WalkOf(catalog)[name]
      BY <1>3 DEF OwnNodes, Own, Children
<1>5. Total(g, WalkOf(catalog)[name]) = Expansion(catalog)[name]
      BY <1>2 DEF WalkIsCounted
<1> HIDE DEF f, g
<1> QED BY <1>4, <1>5, SumIs DEF f

LEMMA CompositionIsBounded == CompositionInv => ExpansionIsBounded
<1> SUFFICES ASSUME CompositionInv, NEW name \in DOMAIN composed
             PROVE  SumOf([p \in Paths(name) |-> OwnNodes(Last(p))]) <= composed[name].nodes
    BY DEF ExpansionIsBounded
<1>1. name \in DOMAIN catalog /\ Expansion(catalog)[name] <= composed[name].nodes
      BY DEF CompositionInv
<1> QED BY <1>1, ExpansionIsPaths

(* What a composed definition reaches, over all its paths, stays within    *)
(* the limits of its composition, and what is registered can run.          *)
THEOREM DefinitionsStaySound ==
    /\ RegistryInit /\ [][RegistryNext]_registryVars
    /\ CompositionInit /\ [][CompositionNext]_compositionVars
    => []DefinitionsAreSound
<1>1. RegistryInit /\ [][RegistryNext]_registryVars => []RegisteredIsRunnable
      BY RegistryStaysRunnable
<1> QED BY <1>1, CompositionStarts, CompositionStep, CompositionIsBounded, PTL DEF DefinitionsAreSound
=============================================================================
