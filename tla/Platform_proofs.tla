--------------------------- MODULE Platform_proofs ---------------------------
(***************************************************************************)
(* Safety of the components of the platform, for any numbers of memories,  *)
(* entries, blobs, clients, insights, turns, packages, stimuli, plans and  *)
(* candidates, and of the factor loop.  Each component                     *)
(* has its own specification; their variables are disjoint.                *)
(***************************************************************************)
EXTENDS MemoryStores, InsightDelivery, LlmClient, SkillRegistry, FactorLoop, Cognition,
        FiniteSetTheorems, WellFoundedInduction, TLAPS

-----------------------------------------------------------------------------
(* Semantic memory.  The invariant is about any rows: they are rows, and   *)
(* living rows of one subject that differ name each other and are not      *)
(* both validated.                                                         *)

Row == [subject : Subjects, claim : Claims, version : DataVersions, until : Nat,
        evidence : SUBSET Episodes, status : SemanticStatuses, links : SUBSET Memories]

Opposed(rows, a, b) ==
    /\ {a, b} \subseteq Living(rows)
    /\ rows[a].subject = rows[b].subject /\ rows[a].claim # rows[b].claim

RowsAgree(rows) ==
    /\ DOMAIN rows \subseteq Memories
    /\ rows \in [DOMAIN rows -> Row]
    /\ \A a, b \in DOMAIN rows :
          Opposed(rows, a, b) => b \in rows[a].links /\ ~ (rows[a].status = "VALIDATED" /\ rows[b].status = "VALIDATED")

MemoryInv == RowsAgree(memories) /\ memoryClock \in Nat

(* A new candidate is linked with every living row that it contradicts.    *)
LEMMA ProposeKeeps ==
    ASSUME RowsAgree(memories), NEW m \in Memories, NEW s \in Subjects, NEW c \in Claims, NEW v \in DataVersions,
           NEW until \in 1..MemoryHorizon, NEW evidence \in SUBSET Episodes, Propose(m, s, c, v, until, evidence)
    PROVE  RowsAgree(memories')
<1> DEFINE conflicts == Conflicts(s, c)
           new == [subject |-> s, claim |-> c, version |-> v, until |-> until,
                   evidence |-> evidence, status |-> "CANDIDATE", links |-> conflicts]
           next == [x \in DOMAIN memories \cup {m} |->
              IF x = m THEN new
              ELSE IF x \in conflicts THEN [memories[x] EXCEPT !.links = @ \cup {m}]
              ELSE memories[x]]
<1>1. m \notin DOMAIN memories /\ memories' = next
      BY DEF Propose
<1>2. conflicts \subseteq DOMAIN memories
      BY DEF Conflicts, Living
<1>3. new \in Row
      BY <1>2, MemoryAssumption DEF Row, RowsAgree, SemanticStatuses, MemoryAssumption
<1>4. \A x \in DOMAIN memories : memories[x] \in Row
      BY DEF RowsAgree
<1>5. next \in [DOMAIN memories \cup {m} -> Row]
      BY <1>3, <1>4 DEF Row
<1>6. \A x \in DOMAIN memories :
         /\ next[x].subject = memories[x].subject /\ next[x].claim = memories[x].claim
         /\ next[x].status = memories[x].status
         /\ next[x].links = IF x \in conflicts THEN memories[x].links \cup {m} ELSE memories[x].links
      BY <1>1, <1>4 DEF Row
<1>7. /\ next[m].subject = s /\ next[m].claim = c
      /\ next[m].status = "CANDIDATE" /\ next[m].links = conflicts
      OBVIOUS
<1>8. \A x \in DOMAIN memories : x \in Living(next) => x \in Living(memories)
      BY <1>6 DEF Living
<1> HIDE DEF next, new, conflicts
<1>c. \A x \in Living(memories) : memories[x].subject = s /\ memories[x].claim # c => x \in conflicts
      BY DEF conflicts, Conflicts
<1>9. ASSUME NEW a \in DOMAIN memories \cup {m}, NEW b \in DOMAIN memories \cup {m}, Opposed(next, a, b)
      PROVE  b \in next[a].links /\ ~ (next[a].status = "VALIDATED" /\ next[b].status = "VALIDATED")
  <2>1. CASE a = m
    <3>1. b # m
          BY <2>1, <1>9 DEF Opposed
    <3>2. b \in DOMAIN memories /\ b \in Living(memories) /\ next[b].subject = s /\ next[b].claim # c
          BY <2>1, <3>1, <1>7, <1>8, <1>9 DEF Opposed
    <3>3. b \in conflicts
          BY <3>2, <1>6, <1>c
    <3> QED BY <2>1, <1>7, <3>3
  <2>2. CASE a # m /\ b = m
    <3>1. a \in DOMAIN memories /\ a \in Living(memories) /\ next[a].subject = s /\ next[a].claim # c
          BY <2>2, <1>7, <1>8, <1>9 DEF Opposed
    <3>2. next[a].links = memories[a].links \cup {m}
          BY <3>1, <1>6, <1>c
    <3> QED BY <2>2, <1>7, <3>2
  <2>3. CASE a # m /\ b # m
    <3>1. Opposed(memories, a, b)
          BY <2>3, <1>6, <1>8, <1>9 DEF Opposed
    <3> QED BY <2>3, <1>6, <3>1 DEF RowsAgree
  <2> QED BY <2>1, <2>2, <2>3
<1> QED BY <1>1, <1>5, <1>9 DEF RowsAgree

(* Other steps change statuses only: what lives has lived before, and only *)
(* a row without links becomes validated.                                  *)
LEMMA StatusesKeep ==
    ASSUME NEW rows, RowsAgree(rows), NEW next \in [DOMAIN rows -> Row],
           \A m \in DOMAIN rows :
              /\ next[m].subject = rows[m].subject /\ next[m].claim = rows[m].claim /\ next[m].links = rows[m].links
              /\ m \in Living(next) => m \in Living(rows)
              /\ next[m].status = "VALIDATED" => rows[m].status = "VALIDATED" \/ rows[m].links = {}
    PROVE  RowsAgree(next)
<1>1. DOMAIN next = DOMAIN rows
      OBVIOUS
<1>2. ASSUME NEW a \in DOMAIN rows, NEW b \in DOMAIN rows, Opposed(next, a, b)
      PROVE  b \in next[a].links /\ ~ (next[a].status = "VALIDATED" /\ next[b].status = "VALIDATED")
  <2>1. Opposed(rows, a, b) /\ Opposed(rows, b, a)
        BY <1>1, <1>2 DEF Opposed
  <2>2. /\ b \in rows[a].links /\ a \in rows[b].links
        /\ ~ (rows[a].status = "VALIDATED" /\ rows[b].status = "VALIDATED")
        BY <2>1 DEF RowsAgree
  <2> QED BY <2>2
<1> QED BY <1>1, <1>2 DEF RowsAgree

LEMMA MemoryInductive == MemoryInv /\ [MemoryNext]_memoryVars => MemoryInv'
<1> SUFFICES ASSUME MemoryInv, [MemoryNext]_memoryVars PROVE MemoryInv'
    OBVIOUS
<1>0. memories \in [DOMAIN memories -> Row] /\ memoryClock \in Nat
      BY DEF MemoryInv, RowsAgree
<1>1. ASSUME NEW m \in FreshId, NEW s \in Subjects, NEW c \in Claims, NEW v \in DataVersions,
             NEW until \in 1..MemoryHorizon, NEW evidence \in SUBSET Episodes, Propose(m, s, c, v, until, evidence)
      PROVE  MemoryInv'
  <2>1. m \in Memories
        BY DEF FreshId
  <2> QED BY <1>0, <1>1, <2>1, ProposeKeeps DEF MemoryInv, Propose
<1>2. ASSUME NEW m \in Memories, PromoteMemory(m) PROVE MemoryInv'
  <2>1. /\ m \in DOMAIN memories /\ memoryClock' = memoryClock
        /\ \E status \in {"EXPIRED", "VALIDATED"} :
              /\ memories' = [memories EXCEPT ![m].status = status]
              /\ status = "VALIDATED" => memories[m].links = {}
        BY <1>2 DEF PromoteMemory
  <2>2. memories[m].status = "CANDIDATE" /\ memories[m] \in Row
        BY <1>0, <1>2 DEF PromoteMemory
  <2>3. memories' \in [DOMAIN memories -> Row]
        BY <1>0, <2>1, <2>2 DEF Row, SemanticStatuses
  <2>4. RowsAgree(memories')
    <3>1. ASSUME NEW x \in DOMAIN memories
          PROVE  /\ memories'[x].subject = memories[x].subject /\ memories'[x].claim = memories[x].claim
                 /\ memories'[x].links = memories[x].links
                 /\ x \in Living(memories') => x \in Living(memories)
                 /\ memories'[x].status = "VALIDATED" => memories[x].status = "VALIDATED" \/ memories[x].links = {}
          BY <1>0, <2>1, <2>2 DEF Row, Living
    <3> QED BY <2>3, <3>1, StatusesKeep DEF MemoryInv
  <2> QED BY <1>0, <2>1, <2>4 DEF MemoryInv
<1>3. CASE ExpireDue
  <2>1. memories' = [m \in DOMAIN memories |->
              IF Due(m) THEN [memories[m] EXCEPT !.status = "EXPIRED"] ELSE memories[m]]
        BY <1>3 DEF ExpireDue
  <2>2. memories' \in [DOMAIN memories -> Row]
        BY <1>0, <2>1 DEF Row, SemanticStatuses
  <2>3. ASSUME NEW x \in DOMAIN memories
        PROVE  /\ memories'[x].subject = memories[x].subject /\ memories'[x].claim = memories[x].claim
               /\ memories'[x].links = memories[x].links
               /\ x \in Living(memories') => x \in Living(memories)
               /\ memories'[x].status = "VALIDATED" => memories[x].status = "VALIDATED" \/ memories[x].links = {}
        BY <1>0, <2>1 DEF Row, Living
  <2>4. RowsAgree(memories')
        BY <2>2, <2>3, StatusesKeep DEF MemoryInv
  <2> QED BY <1>0, <1>3, <2>4 DEF MemoryInv, ExpireDue
<1>4. CASE MemoryTick \/ (\E e \in Episodes : EpisodeRecorded(e)) \/ UNCHANGED memoryVars
      BY <1>4 DEF MemoryTick, EpisodeRecorded, memoryVars, MemoryInv
<1> QED BY <1>1, <1>2, <1>3, <1>4 DEF MemoryNext

(* Whatever is proposed, promoted and expired in any order, semantic       *)
(* memory holds no two truths, and contradicting claims name each other    *)
(* (propose(), promote(), expire_due() of semantic_memory.py).             *)
THEOREM KnowledgeStaysConsistent == MemorySpec => []KnowledgeIsConsistent
<1>1. MemoryInit => MemoryInv
      BY DEF MemoryInit, MemoryInv, RowsAgree
<1>2. MemoryInv => KnowledgeIsConsistent
  <2> SUFFICES ASSUME MemoryInv PROVE KnowledgeIsConsistent
      OBVIOUS
  <2>1. ASSUME NEW a \in Living(memories), NEW b \in Living(memories),
               memories[a].subject = memories[b].subject, memories[a].claim # memories[b].claim
        PROVE  b \in memories[a].links /\ ~ (memories[a].status = "VALIDATED" /\ memories[b].status = "VALIDATED")
        BY <2>1 DEF MemoryInv, RowsAgree, Opposed, Living
  <2>2. ContradictionsAreMutual
        BY <2>1 DEF ContradictionsAreMutual
  <2>3. NoContradictoryKnowledge
        BY <2>1 DEF NoContradictoryKnowledge, Validated, Living
  <2> QED BY <2>2, <2>3 DEF KnowledgeIsConsistent
<1> QED BY <1>1, <1>2, MemoryInductive, PTL DEF MemorySpec

-----------------------------------------------------------------------------
(* Working memory.  Its entries are finitely many, their ids differ, and   *)
(* there are no more of them than fit.                                     *)

EntryRow == [id : EntryIds, importance : Importances, created : Nat, expires : Nat]

Distinct(s) == IsFiniteSet(s) /\ s \subseteq EntryRow /\ \A e, f \in s : e.id = f.id => e = f

EntryInv ==
    /\ Distinct(entries) /\ Cardinality(entries) <= EntryCapacity
    /\ entryClock \in Nat

(* Both orders of entries are strict and total where ids differ.           *)
LEMMA OrdersAreTotal ==
    ASSUME NEW s, Distinct(s), NEW e \in s, NEW f \in s, NEW g \in s
    PROVE  /\ ~ Worse(e, e) /\ ~ Ahead(e, e)
           /\ e = f \/ Worse(e, f) \/ Worse(f, e)
           /\ e = f \/ Ahead(e, f) \/ Ahead(f, e)
           /\ Worse(e, f) /\ Worse(f, g) => Worse(e, g)
           /\ Ahead(e, f) /\ Ahead(f, g) => Ahead(e, g)
<1> DEFINE N(x) == x.id \in Nat /\ x.importance \in Nat /\ x.created \in Nat
<1>1. N(e) /\ N(f) /\ N(g)
      BY WorkingMemoryAssumption DEF WorkingMemoryAssumption, Distinct, EntryRow
<1>2. e.id = f.id => e = f
      BY DEF Distinct
<1>3. e.id # f.id => (Worse(e, f) \/ Worse(f, e)) /\ (Ahead(e, f) \/ Ahead(f, e))
      BY <1>1 DEF Worse, Ahead
<1>4. ~ Worse(e, e) /\ ~ Ahead(e, e)
      BY <1>1 DEF Worse, Ahead
<1>5. Worse(e, f) /\ Worse(f, g) => Worse(e, g)
      BY <1>1 DEF Worse
<1>6. Ahead(e, f) /\ Ahead(f, g) => Ahead(e, g)
      BY <1>1 DEF Ahead
<1> QED BY <1>2, <1>3, <1>4, <1>5, <1>6

(* There is a worst entry: among the sets of what is worse than an entry,  *)
(* one has no proper subset, and it is empty.                              *)
LEMMA VictimIsWorst ==
    ASSUME NEW s, Distinct(s), s # {}
    PROVE  Victim(s) \in s /\ \A f \in s : Victim(s) = f \/ Worse(Victim(s), f)
<1> DEFINE below(e) == {f \in s : Worse(f, e)}
           T == {below(e) : e \in s}
<1>1. T \subseteq FiniteSubsetsOf(s) /\ T # {}
  <2>1. ASSUME NEW e \in s PROVE below(e) \in FiniteSubsetsOf(s)
        BY FS_Subset DEF Distinct, FiniteSubsetsOf
  <2> QED BY <2>1
<1> HIDE DEF T
<1>2. PICK low \in T : \A y \in T : <<y, low>> \notin StrictSubsetOrdering(s)
      BY <1>1, FS_StrictSubsetOrderingWellFounded, WFMin
<1>3. PICK e \in s : low = below(e)
      BY <1>2 DEF T
<1>4. ASSUME NEW f \in s, Worse(f, e) PROVE FALSE
  <2>1. below(f) \subseteq below(e)
        BY <1>4, OrdersAreTotal
  <2>2. f \in below(e) /\ f \notin below(f)
        BY <1>4, OrdersAreTotal
  <2>3. below(f) \in T /\ below(f) \subseteq s /\ below(e) \subseteq s
        BY DEF T
  <2>4. <<below(f), low>> \in StrictSubsetOrdering(s)
        BY <1>3, <2>1, <2>2, <2>3 DEF StrictSubsetOrdering
  <2> QED BY <1>2, <2>3, <2>4
<1>5. \A f \in s : e = f \/ Worse(e, f)
      BY <1>4, OrdersAreTotal
<1> QED BY <1>5 DEF Victim

(* As many as fit are ahead of nobody: ranks differ.                       *)
LEMMA BestFit ==
    ASSUME NEW s, Distinct(s), NEW n \in Nat
    PROVE  Cardinality({e \in s : Cardinality({f \in s : Ahead(f, e)}) < n}) <= n
<1> DEFINE above(e) == {f \in s : Ahead(f, e)}
           top == {e \in s : Cardinality(above(e)) < n}
           rank == [e \in top |-> Cardinality(above(e))]
<1>1. \A e \in s : IsFiniteSet(above(e)) /\ Cardinality(above(e)) \in Nat
      BY FS_Subset, FS_CardinalityType DEF Distinct
<1>2. ASSUME NEW e \in s, NEW f \in s, Ahead(e, f)
      PROVE  Cardinality(above(e)) # Cardinality(above(f))
  <2>1. above(e) \subseteq above(f) /\ e \in above(f) /\ e \notin above(e)
        BY <1>2, OrdersAreTotal
  <2>2. Cardinality(above(e)) = Cardinality(above(f)) => above(e) = above(f)
        BY <1>1, <2>1, FS_Subset
  <2> QED BY <2>1, <2>2
<1>3. \A e, f \in s : e = f \/ Ahead(e, f) \/ Ahead(f, e)
      BY OrdersAreTotal
<1> HIDE DEF above
<1>4. rank \in [top -> 0..(n - 1)]
      BY <1>1
<1>5. \A e, f \in top : rank[e] = rank[f] => e = f
      BY <1>2, <1>3
<1>6. rank \in Injection(top, 0..(n - 1))
      BY <1>4, <1>5 DEF Injection, IsInjective
<1>7. IsFiniteSet(0..(n - 1)) /\ Cardinality(0..(n - 1)) = n
      BY FS_Interval
<1> QED BY <1>6, <1>7, FS_Injection DEF above

LEMMA FreshIsDistinct ==
    ASSUME NEW s, Distinct(s)
    PROVE  Distinct(Fresh(s)) /\ Cardinality(Fresh(s)) <= Cardinality(s) /\ Cardinality(s) \in Nat
BY FS_Subset, FS_CardinalityType DEF Distinct, Fresh

(* What remember() leaves: all fresh entries, or all but the worst.        *)
LEMMA RememberKeeps ==
    ASSUME EntryInv, NEW id \in EntryIds, NEW i \in Importances, NEW l \in Lifetimes, Remember(id, i, l)
    PROVE  /\ EntryInv'
           /\ \/ Fresh(entries) \subseteq entries'
              \/ /\ Cardinality(entries') = EntryCapacity
                 /\ \E v : /\ Fresh(entries) \ {v} \subseteq entries'
                           /\ \A f \in entries' : v.importance <= f.importance
<1> DEFINE entry == [id |-> id, importance |-> i, created |-> entryClock, expires |-> entryClock + l]
           fresh == Fresh(entries)
           all == fresh \cup {entry}
<1>0. EntryCapacity \in Nat \ {0} /\ EntryIds \subseteq Nat /\ Importances \subseteq Nat /\ Lifetimes \subseteq Nat
      BY WorkingMemoryAssumption DEF WorkingMemoryAssumption
<1>1. /\ Distinct(fresh) /\ Cardinality(fresh) \in Nat /\ Cardinality(fresh) <= EntryCapacity
      /\ entryClock' = entryClock /\ entryClock \in Nat
  <2>1. Cardinality(fresh) \in Nat
        BY FreshIsDistinct, FS_CardinalityType DEF EntryInv, Distinct
  <2> QED BY <1>0, <2>1, FreshIsDistinct DEF EntryInv, Remember
<1>2. CASE \E e \in fresh : e.id = id
  <2>1. entries' = fresh
        BY <1>2 DEF Remember
  <2> QED BY <1>1, <2>1 DEF EntryInv
<1>3. CASE ~ \E e \in fresh : e.id = id
  <2>1. entries' = IF Cardinality(all) > EntryCapacity THEN all \ {Victim(all)} ELSE all
        BY <1>3 DEF Remember
  <2>2. entry \in EntryRow
        BY <1>0, <1>1 DEF EntryRow
  <2>3. Distinct(all) /\ Cardinality(all) = Cardinality(fresh) + 1
    <3>1. entry \notin fresh
          BY <1>3
    <3>2. IsFiniteSet(all) /\ Cardinality(all) = Cardinality(fresh) + 1
          BY <1>1, <3>1, FS_AddElement DEF Distinct
    <3> QED BY <1>1, <1>3, <2>2, <3>2 DEF Distinct
  <2> HIDE DEF all
  <2>4. CASE Cardinality(all) > EntryCapacity
    <3>1. Victim(all) \in all /\ \A f \in all : Victim(all) = f \/ Worse(Victim(all), f)
          BY <2>3, VictimIsWorst DEF all
    <3>2. /\ entries' = all \ {Victim(all)} /\ IsFiniteSet(entries')
          /\ Cardinality(entries') = Cardinality(all) - 1
          BY <2>1, <2>3, <2>4, <3>1, FS_RemoveElement DEF Distinct
    <3>3. Cardinality(entries') = EntryCapacity
          BY <1>0, <1>1, <2>3, <2>4, <3>2
    <3>4. Distinct(entries')
          BY <2>3, <3>2 DEF Distinct
    <3>5. \A f \in entries' : Victim(all).importance <= f.importance
      <4>1. \A f \in all : f.importance \in Nat
            BY <1>0, <2>3 DEF Distinct, EntryRow
      <4> QED BY <3>1, <3>2, <4>1 DEF Worse
    <3>6. Fresh(entries) \ {Victim(all)} \subseteq entries'
          BY <3>2 DEF all
    <3> QED BY <1>0, <1>1, <3>3, <3>4, <3>5, <3>6 DEF EntryInv
  <2>5. CASE ~ (Cardinality(all) > EntryCapacity)
        BY <1>0, <1>1, <2>1, <2>3, <2>5 DEF EntryInv, all
  <2> QED BY <2>4, <2>5
<1> QED BY <1>2, <1>3

LEMMA EntryInductive == EntryInv /\ [EntryNext]_entryVars => EntryInv'
<1> SUFFICES ASSUME EntryInv, [EntryNext]_entryVars PROVE EntryInv'
    OBVIOUS
<1>0. EntryCapacity \in Nat
      BY WorkingMemoryAssumption DEF WorkingMemoryAssumption
<1>1. CASE EntryTick \/ UNCHANGED entryVars
      BY <1>1 DEF EntryTick, entryVars, EntryInv
<1>2. CASE Reclaim
  <2>1. Cardinality(Fresh(entries)) \in Nat
        BY FreshIsDistinct, FS_CardinalityType DEF EntryInv, Distinct
  <2> QED BY <1>0, <1>2, <2>1, FreshIsDistinct DEF Reclaim, EntryInv
<1>3. CASE ClearEntries
      BY <1>0, <1>3, FS_EmptySet DEF ClearEntries, EntryInv, Distinct
<1>4. ASSUME NEW id \in EntryIds, NEW i \in Importances, NEW l \in Lifetimes, Remember(id, i, l)
      PROVE  EntryInv'
      BY <1>4, RememberKeeps
<1>5. ASSUME NEW facts \in SUBSET [id : EntryIds, importance : Importances, created : {entryClock}, expires : {entryClock + 1}],
             Rebuild(facts)
      PROVE  EntryInv'
  <2> DEFINE fresh == Fresh(facts)
  <2>1. fresh \subseteq EntryRow
        BY DEF Fresh, EntryRow, EntryInv
  <2>2. Distinct(fresh)
        BY <1>5, <2>1, FS_Subset DEF Rebuild, Distinct, Fresh
  <2>3. entries' = {e \in fresh : Cardinality({f \in fresh : Ahead(f, e)}) < EntryCapacity}
        BY <1>5 DEF Rebuild
  <2> HIDE DEF fresh
  <2>4. Cardinality(entries') <= EntryCapacity
        BY <1>0, <2>2, <2>3, BestFit
  <2>5. Distinct(entries')
        BY <2>2, <2>3, FS_Subset DEF Distinct
  <2> QED BY <1>5, <2>4, <2>5 DEF Rebuild, EntryInv
<1> QED BY <1>1, <1>2, <1>3, <1>4, <1>5 DEF EntryNext

(* An entry that leaves working memory before its time makes room for      *)
(* entries that are no less important, and the memory stays full           *)
(* (remember(), rebuild() and the reclaiming readers of memory.py).        *)
THEOREM BestIsKept == EntrySpec => BestKept
<1> DEFINE Step ==
       \A e \in entries \ entries' :
          \/ e.expires <= entryClock \/ emptied'
          \/ /\ Cardinality(entries') = EntryCapacity
             /\ \A f \in entries' : e.importance <= f.importance
<1>1. EntryInit => EntryInv
      BY WorkingMemoryAssumption, FS_EmptySet DEF EntryInit, EntryInv, Distinct, WorkingMemoryAssumption
<1>2. EntryInv /\ [EntryNext]_entryVars => [Step]_entryVars
  <2> SUFFICES ASSUME EntryInv, EntryNext PROVE Step
      OBVIOUS
  <2>0. \A e \in entries : e \notin Fresh(entries) => e.expires <= entryClock
        BY DEF EntryInv, Distinct, EntryRow, Fresh
  <2>1. CASE EntryTick
        BY <2>1 DEF EntryTick
  <2>2. CASE Reclaim
        BY <2>0, <2>2 DEF Reclaim
  <2>3. CASE ClearEntries
        BY <2>3 DEF ClearEntries
  <2>4. ASSUME NEW id \in EntryIds, NEW i \in Importances, NEW l \in Lifetimes, Remember(id, i, l)
        PROVE  Step
        BY <2>0, <2>4, RememberKeeps
  <2>5. ASSUME NEW facts \in SUBSET [id : EntryIds, importance : Importances, created : {entryClock}, expires : {entryClock + 1}],
               Rebuild(facts)
        PROVE  Step
        BY <2>5 DEF Rebuild
  <2> QED BY <2>1, <2>2, <2>3, <2>4, <2>5 DEF EntryNext
<1> QED BY <1>1, <1>2, EntryInductive, PTL DEF EntrySpec, BestKept

-----------------------------------------------------------------------------
(* Skills.  What is bound and what was invoked is within what was asked    *)
(* for, and every package in the registry is one that exists: its digest   *)
(* identifies it.                                                          *)

Within(package, r) == Risk(package.effect) <= Risk(r.effect) /\ package.permissions \subseteq r.permissions

Items == [package : Packages, status : {"INSTALLED", "VERIFIED", "ENABLED", "DISABLED"},
          verified : BOOLEAN, health : Healths \cup {Unchecked}]

SkillInv ==
    /\ skills \subseteq Items
    /\ \A b \in bindings : b.package \in Packages /\ Within(b.package, b.requirement)
    /\ WithinItsContract

LEMMA SkillInductive == SkillInv /\ (SkillNext \/ UNCHANGED skillVars) => SkillInv'
<1> SUFFICES ASSUME SkillInv, SkillNext \/ UNCHANGED skillVars PROVE SkillInv'
    OBVIOUS
<1>1. ASSUME NEW c \in CapabilitySet, RegisterCapability(c) PROVE SkillInv'
      BY <1>1 DEF RegisterCapability, SkillInv, WithinItsContract
<1>2. ASSUME NEW p \in Packages, NEW found, InstallSkill(p, found) PROVE SkillInv'
  <2>1. /\ skills' = skills \cup {[package |-> p, status |-> "INSTALLED", verified |-> FALSE, health |-> Unchecked]}
        /\ UNCHANGED <<bindings, invoked>>
        BY <1>2 DEF InstallSkill
  <2>2. [package |-> p, status |-> "INSTALLED", verified |-> FALSE, health |-> Unchecked] \in Items
        BY DEF Items
  <2> QED BY <2>1, <2>2 DEF SkillInv, WithinItsContract
<1>3. ASSUME NEW item \in skills, VerifySkill(item) \/ DisableSkill(item) \/ \E h \in Healths : EnableSkill(item, h)
      PROVE  SkillInv'
  <2>1. item \in Items
        BY DEF SkillInv
  <2>2. \E changed \in Items : skills' = (skills \ {item}) \cup {changed}
    <3>1. CASE VerifySkill(item)
          BY <2>1, <3>1 DEF VerifySkill, Replaced, Items
    <3>2. CASE DisableSkill(item)
          BY <2>1, <3>2 DEF DisableSkill, Replaced, Items
    <3>3. CASE \E h \in Healths : EnableSkill(item, h)
          BY <2>1, <3>3 DEF EnableSkill, Replaced, Items
    <3> QED BY <1>3, <3>1, <3>2, <3>3
  <2>3. UNCHANGED <<bindings, invoked>>
        BY <1>3 DEF VerifySkill, DisableSkill, EnableSkill
  <2>4. skills' \subseteq Items
        BY <2>2 DEF SkillInv
  <2> QED BY <2>3, <2>4 DEF SkillInv, WithinItsContract
<1>4. ASSUME NEW r \in Requirements, Resolve(r) PROVE SkillInv'
  <2>1. PICK best \in skills : Eligible(best, r) /\ bindings' = bindings \cup {[package |-> best.package, requirement |-> r]}
        BY <1>4 DEF Resolve
  <2>2. Within(best.package, r)
        BY <2>1 DEF Eligible, Within
  <2>3. UNCHANGED <<skills, invoked>>
        BY <1>4 DEF Resolve
  <2>4. best.package \in Packages
        BY DEF SkillInv, Items
  <2> QED BY <2>1, <2>2, <2>3, <2>4 DEF SkillInv, WithinItsContract
<1>5. ASSUME NEW b \in bindings, InvokeSkill(b) \/ QuerySkill(b) PROVE SkillInv'
  <2>1. PICK item \in skills : /\ Pinned(item.package, b.package)
                               /\ invoked' = invoked \cup {[package |-> item.package, by |-> b]}
        BY <1>5 DEF InvokeSkill, QuerySkill
  <2>2. item.package = b.package
    <3>1. item \in Items /\ b.package \in Packages
          BY DEF SkillInv
    <3>2. item.package \in Packages /\ item.package.digest = b.package.digest
          BY <2>1, <3>1 DEF Items, Pinned
    <3>3. \A p, q \in Packages : p.digest = q.digest => p = q
          BY SkillAssumption DEF SkillAssumption
    <3> QED BY <3>1, <3>2, <3>3
  <2>3. UNCHANGED <<skills, bindings>>
        BY <1>5 DEF InvokeSkill, QuerySkill
  <2> QED BY <2>1, <2>2, <2>3 DEF SkillInv, WithinItsContract, Within
<1>6. CASE SkillRestart
      BY <1>6 DEF SkillRestart, SkillInv, WithinItsContract
<1>7. CASE UNCHANGED skillVars
      BY <1>7 DEF skillVars, SkillInv, WithinItsContract
<1> QED BY <1>1, <1>2, <1>3, <1>4, <1>5, <1>6, <1>7 DEF SkillNext

(* A rule that keeps another one lets through no more values.              *)
LEMMA KeptRulesNarrow ==
    ASSUME NEW required \in Rules, NEW provided \in Rules, RuleKept(required, provided)
    PROVE  provided.enum \subseteq required.enum
<1>1. PICK t \in FieldTypes : required.type = t /\ required.enum \in SUBSET FieldValues[t] \ {{}}
      BY DEF Rules
<1>2. PICK u \in FieldTypes : provided.type = u /\ provided.enum \in SUBSET FieldValues[u] \ {{}}
      BY DEF Rules
<1> QED BY <1>1, <1>2 DEF RuleKept, HasEnum

LEMMA CompatibleOutputsConform ==
    ASSUME NEW w \in Schemas, NEW p \in Schemas, SchemaCompatible(w, p, FALSE),
           NEW o, Conforms(o, p)
    PROVE  Conforms(o, w)
<1>1. /\ w.required \subseteq DOMAIN w.rules /\ \A name \in DOMAIN w.rules : w.rules[name] \in Rules
      /\ p.required \subseteq DOMAIN p.rules /\ \A name \in DOMAIN p.rules : p.rules[name] \in Rules
  <2>1. ASSUME NEW x \in Schemas
        PROVE  x.required \subseteq DOMAIN x.rules /\ \A name \in DOMAIN x.rules : x.rules[name] \in Rules
    <3>1. PICK names \in SUBSET FieldNames : \E f \in [names -> Rules], r \in SUBSET names : x = [rules |-> f, required |-> r]
          BY DEF Schemas
    <3> QED BY <3>1
  <2> QED BY <2>1
<1>2. w.required \subseteq DOMAIN o
      BY DEF SchemaCompatible, Conforms
<1>3. ASSUME NEW name \in DOMAIN o \cap DOMAIN w.rules PROVE o[name] \in w.rules[name].enum
  <2>1. name \in DOMAIN p.rules /\ RuleKept(w.rules[name], p.rules[name])
        BY DEF SchemaCompatible
  <2>2. o[name] \in p.rules[name].enum
        BY <2>1 DEF Conforms
  <2> QED BY <1>1, <2>1, <2>2, KeptRulesNarrow
<1> QED BY <1>2, <1>3 DEF Conforms

(* The adapter that is called is the one that was resolved, within what    *)
(* the node required, whatever is installed in between; and what a         *)
(* compatible skill answers conforms to the schema that was asked for      *)
(* (resolve(), invoke(), query_result(), compatible() of skills.py).       *)
THEOREM ContractsAreKept == SkillSpec => []SkillsKeepContracts
<1> DEFINE Inv == SkillInv /\ OutputsAreSafe
<1>1. SkillInit /\ ContractInit => Inv
  <2>1. SkillInit => SkillInv
        BY DEF SkillInit, SkillInv, WithinItsContract
  <2>2. ContractInit => OutputsAreSafe
        BY DEF ContractInit, OutputsAreSafe
  <2> QED BY <2>1, <2>2
<1>2. ASSUME Inv, \/ SkillNext /\ UNCHANGED contractVars
                  \/ CompareSchemas /\ UNCHANGED skillVars
                  \/ UNCHANGED <<skillVars, contractVars>>
      PROVE  Inv'
  <2>0. SkillNext \/ UNCHANGED skillVars
        BY <1>2
  <2>1. SkillInv'
        BY <1>2, <2>0, SkillInductive
  <2>2. CASE UNCHANGED contractVars
    <3>1. UNCHANGED <<wanted, offered>>
          BY <2>2 DEF contractVars
    <3>2. OutputsAreSafe'
          BY <1>2, <3>1 DEF OutputsAreSafe
    <3> QED BY <2>1, <3>2
  <2>3. CASE CompareSchemas
    <3>1. wanted' \in Schemas /\ offered' \in Schemas
          BY <2>3 DEF CompareSchemas
    <3> QED BY <2>1, <3>1, CompatibleOutputsConform DEF OutputsAreSafe
  <2> QED BY <1>2, <2>1, <2>2, <2>3
<1>3. Inv => SkillsKeepContracts
      BY DEF SkillInv, SkillsKeepContracts
<1> QED BY <1>1, <1>2, <1>3, PTL DEF SkillSpec

-----------------------------------------------------------------------------
(* Delivery of insights.  What is delivered in a window of an hour and     *)
(* what is about to be inserted there are together no more than the limit  *)
(* and one for each deliverer but the first.                               *)

DeliveryRow == [insight : Insights, channel : Channels, at : Nat, read : BOOLEAN]

DeliveryCall ==
    {NoDelivery} \cup [pc : {"existing"}, insight : Insights, channel : Channels]
                 \cup [pc : {"count", "insert"}, insight : Insights, channel : Channels, now : Nat]

InWindow(rows, t) == {r \in rows : r.at \in t..(t + Hour)}
Inserting(cs, t) == {d \in Deliverers : cs[d].pc = "insert" /\ cs[d].now \in t..(t + Hour)}
Busy(cs) == {d \in Deliverers : cs[d].pc # "idle"}

Bounded(rows, cs) ==
    \A t \in Nat : Cardinality(InWindow(rows, t)) + Cardinality(Inserting(cs, t)) <= HourlyLimit + Cardinality(Deliverers) - 1

DeliveryInv ==
    /\ subscription \in [channel : Channels, enabled : BOOLEAN]
    /\ IsFiniteSet(delivered) /\ delivered \subseteq DeliveryRow
    /\ calls \in [Deliverers -> DeliveryCall]
    /\ deliveryClock \in Nat /\ afterwards \in Nat
    /\ Bounded(delivered, calls)
    /\ subscription.enabled => afterwards = 0
    /\ afterwards + Cardinality(Busy(calls)) <= Cardinality(Deliverers)

(* The sets that are counted are finite.                                   *)
LEMMA DeliveryCounts ==
    ASSUME NEW rows, IsFiniteSet(rows), NEW cs
    PROVE  /\ \A t : /\ IsFiniteSet(InWindow(rows, t)) /\ Cardinality(InWindow(rows, t)) \in Nat
                     /\ IsFiniteSet(Inserting(cs, t)) /\ Cardinality(Inserting(cs, t)) \in Nat
                     /\ Cardinality(Inserting(cs, t)) <= Cardinality(Deliverers)
           /\ IsFiniteSet(Busy(cs)) /\ Cardinality(Busy(cs)) \in Nat
           /\ Cardinality(Busy(cs)) <= Cardinality(Deliverers)
           /\ Cardinality(Deliverers) \in Nat /\ IsFiniteSet(Deliverers)
<1>1. IsFiniteSet(Deliverers) /\ Cardinality(Deliverers) \in Nat
      BY DeliveryAssumption, FS_CardinalityType DEF DeliveryAssumption
<1>2. ASSUME NEW t
      PROVE  /\ IsFiniteSet(InWindow(rows, t)) /\ Cardinality(InWindow(rows, t)) \in Nat
             /\ IsFiniteSet(Inserting(cs, t)) /\ Cardinality(Inserting(cs, t)) \in Nat
             /\ Cardinality(Inserting(cs, t)) <= Cardinality(Deliverers)
  <2>1. InWindow(rows, t) \in SUBSET rows /\ Inserting(cs, t) \in SUBSET Deliverers
        BY DEF InWindow, Inserting
  <2>2. IsFiniteSet(InWindow(rows, t)) /\ IsFiniteSet(Inserting(cs, t)) /\ Cardinality(Inserting(cs, t)) <= Cardinality(Deliverers)
        BY <1>1, <2>1, FS_Subset
  <2> QED BY <2>2, FS_CardinalityType
<1>3. IsFiniteSet(Busy(cs)) /\ Cardinality(Busy(cs)) <= Cardinality(Deliverers)
  <2>1. Busy(cs) \in SUBSET Deliverers
        BY DEF Busy
  <2> QED BY <1>1, <2>1, FS_Subset
<1> QED BY <1>1, <1>2, <1>3, FS_CardinalityType

(* A caller that moves on without passing the count changes nothing that   *)
(* is bounded.                                                             *)
LEMMA CallMoves ==
    ASSUME NEW rows, IsFiniteSet(rows), NEW cs \in [Deliverers -> DeliveryCall], NEW d \in Deliverers,
           NEW c \in DeliveryCall, c.pc # "insert"
    PROVE  LET next == [cs EXCEPT ![d] = c]
           IN  /\ Bounded(rows, cs) => Bounded(rows, next)
               /\ Cardinality(Busy(next)) <= Cardinality(Busy(cs)) + (IF cs[d].pc = "idle" /\ c.pc # "idle" THEN 1 ELSE 0)
<1> DEFINE next == [cs EXCEPT ![d] = c]
<1>1. next \in [Deliverers -> DeliveryCall] /\ \A e \in Deliverers : next[e] = IF e = d THEN c ELSE cs[e]
      OBVIOUS
<1> HIDE DEF next
<1>2. ASSUME Bounded(rows, cs) PROVE Bounded(rows, next)
  <2>1. ASSUME NEW t \in Nat
        PROVE  Cardinality(InWindow(rows, t)) + Cardinality(Inserting(next, t)) <= HourlyLimit + Cardinality(Deliverers) - 1
    <3>1. Inserting(next, t) \subseteq Inserting(cs, t)
          BY <1>1 DEF Inserting
    <3>2. Cardinality(Inserting(next, t)) <= Cardinality(Inserting(cs, t))
          BY <3>1, DeliveryCounts, FS_Subset
    <3>3. Cardinality(InWindow(rows, t)) + Cardinality(Inserting(cs, t)) <= HourlyLimit + Cardinality(Deliverers) - 1
          BY <1>2 DEF Bounded
    <3>4. HourlyLimit \in Nat
          BY DeliveryAssumption DEF DeliveryAssumption
    <3>5. /\ Cardinality(InWindow(rows, t)) \in Nat /\ Cardinality(Inserting(cs, t)) \in Nat
          /\ Cardinality(Inserting(next, t)) \in Nat /\ Cardinality(Deliverers) \in Nat
          BY DeliveryCounts
    <3> QED BY <3>2, <3>3, <3>4, <3>5
  <2> QED BY <2>1 DEF Bounded
<1>0. /\ IsFiniteSet(Busy(cs)) /\ Cardinality(Busy(cs)) \in Nat
      /\ Cardinality(Busy(next)) \in Nat
      BY DeliveryCounts
<1>3. Cardinality(Busy(next)) <= Cardinality(Busy(cs)) + (IF cs[d].pc = "idle" /\ c.pc # "idle" THEN 1 ELSE 0)
  <2>1. CASE cs[d].pc = "idle" /\ c.pc # "idle"
    <3>1. Busy(next) = Busy(cs) \cup {d}
          BY <1>1, <2>1 DEF Busy
    <3>a. Cardinality(Busy(cs) \cup {d}) = IF d \in Busy(cs) THEN Cardinality(Busy(cs)) ELSE Cardinality(Busy(cs)) + 1
          BY <1>0, FS_AddElement
    <3>2. Cardinality(Busy(next)) <= Cardinality(Busy(cs)) + 1
          BY <1>0, <3>1, <3>a
    <3>3. (IF cs[d].pc = "idle" /\ c.pc # "idle" THEN 1 ELSE 0) = 1
          BY <2>1
    <3> QED BY <1>0, <3>2, <3>3
  <2>2. CASE ~ (cs[d].pc = "idle" /\ c.pc # "idle")
    <3>1. Busy(next) \subseteq Busy(cs)
          BY <1>1, <2>2 DEF Busy
    <3>2. Cardinality(Busy(next)) <= Cardinality(Busy(cs))
          BY <1>0, <3>1, FS_Subset
    <3>3. (IF cs[d].pc = "idle" /\ c.pc # "idle" THEN 1 ELSE 0) = 0
          BY <2>2
    <3> QED BY <1>0, <3>2, <3>3
  <2> QED BY <2>1, <2>2
<1> QED BY <1>2, <1>3 DEF next

(* A caller that passes the count has found less than the limit in the     *)
(* hour before its moment, which holds every window with that moment.      *)
LEMMA CountPasses ==
    ASSUME DeliveryInv, NEW d \in Deliverers, calls[d].pc = "count",
           ~ (Cardinality(LastHour(calls[d].now)) >= HourlyLimit)
    PROVE  LET next == [calls EXCEPT ![d] = [calls[d] EXCEPT !.pc = "insert"]]
           IN  /\ next \in [Deliverers -> DeliveryCall] /\ Bounded(delivered, next)
               /\ Busy(next) = Busy(calls)
<1> DEFINE now == calls[d].now
           c == [calls[d] EXCEPT !.pc = "insert"]
           next == [calls EXCEPT ![d] = c]
<1>0. HourlyLimit \in Nat /\ Hour \in Nat
      BY DeliveryAssumption DEF DeliveryAssumption
<1>1. calls[d] \in [pc : {"count", "insert"}, insight : Insights, channel : Channels, now : Nat]
      BY DEF DeliveryInv, DeliveryCall, NoDelivery
<1>2. c \in DeliveryCall /\ c.pc = "insert" /\ c.now = now /\ now \in Nat
      BY <1>1 DEF DeliveryCall
<1>3. next \in [Deliverers -> DeliveryCall] /\ \A e \in Deliverers : next[e] = IF e = d THEN c ELSE calls[e]
      BY <1>2 DEF DeliveryInv
<1>4. Busy(next) = Busy(calls)
      BY <1>2, <1>3 DEF Busy
<1> HIDE DEF next, c
<1>5. ASSUME NEW t \in Nat
      PROVE  Cardinality(InWindow(delivered, t)) + Cardinality(Inserting(next, t)) <= HourlyLimit + Cardinality(Deliverers) - 1
  <2>1. /\ Cardinality(InWindow(delivered, t)) \in Nat /\ Cardinality(Inserting(calls, t)) \in Nat
        /\ Cardinality(Inserting(next, t)) \in Nat /\ Cardinality(Deliverers) \in Nat
        /\ Cardinality(Inserting(next, t)) <= Cardinality(Deliverers)
        /\ IsFiniteSet(Inserting(calls, t))
        BY DeliveryCounts DEF DeliveryInv
  <2>2. CASE now \in t..(t + Hour)
    <3>1. InWindow(delivered, t) \subseteq LastHour(now)
      <4>1. ASSUME NEW r \in delivered, r.at \in t..(t + Hour) PROVE r.at + Hour >= now
        <5>1. r.at \in Nat
              BY DEF DeliveryInv, DeliveryRow
        <5> QED BY <1>0, <1>2, <2>2, <4>1, <5>1
      <4> QED BY <4>1 DEF InWindow, LastHour
    <3>2. LastHour(now) \in SUBSET delivered
          BY DEF LastHour
    <3>3. IsFiniteSet(LastHour(now)) /\ Cardinality(LastHour(now)) \in Nat
          BY <3>2, FS_Subset, FS_CardinalityType DEF DeliveryInv
    <3>4. Cardinality(InWindow(delivered, t)) <= Cardinality(LastHour(now))
          BY <3>1, <3>3, FS_Subset
    <3>5. Cardinality(LastHour(now)) < HourlyLimit
          BY <1>0, <3>3
    <3> QED BY <1>0, <2>1, <3>3, <3>4, <3>5
  <2>3. CASE now \notin t..(t + Hour)
    <3>1. Inserting(next, t) \subseteq Inserting(calls, t)
          BY <1>2, <1>3, <2>3 DEF Inserting
    <3>2. Cardinality(Inserting(next, t)) <= Cardinality(Inserting(calls, t))
          BY <2>1, <3>1, FS_Subset
    <3>3. Cardinality(InWindow(delivered, t)) + Cardinality(Inserting(calls, t)) <= HourlyLimit + Cardinality(Deliverers) - 1
          BY DEF DeliveryInv, Bounded
    <3> QED BY <1>0, <2>1, <3>2, <3>3
  <2> QED BY <2>2, <2>3
<1> QED BY <1>3, <1>4, <1>5 DEF Bounded, next, c

(* An insertion moves a caller from the ones that insert to the rows.      *)
LEMMA InsertMoves ==
    ASSUME DeliveryInv, NEW d \in Deliverers, calls[d].pc = "insert"
    PROVE  LET sent == [insight |-> calls[d].insight, channel |-> calls[d].channel, at |-> calls[d].now, read |-> FALSE]
               next == [calls EXCEPT ![d] = NoDelivery]
           IN  /\ sent \in DeliveryRow /\ Bounded(delivered \cup {sent}, next)
               /\ Cardinality(Busy(next)) + 1 <= Cardinality(Busy(calls))
<1> DEFINE sent == [insight |-> calls[d].insight, channel |-> calls[d].channel, at |-> calls[d].now, read |-> FALSE]
           next == [calls EXCEPT ![d] = NoDelivery]
           rows == delivered \cup {sent}
<1>0. HourlyLimit \in Nat /\ Hour \in Nat
      BY DeliveryAssumption DEF DeliveryAssumption
<1>1. calls[d] \in [pc : {"count", "insert"}, insight : Insights, channel : Channels, now : Nat]
      BY DEF DeliveryInv, DeliveryCall, NoDelivery
<1>2. sent \in DeliveryRow /\ sent.at = calls[d].now
      BY <1>1 DEF DeliveryRow
<1>3. \A e \in Deliverers : next[e] = IF e = d THEN NoDelivery ELSE calls[e]
      BY DEF DeliveryInv
<1>4. IsFiniteSet(delivered) /\ IsFiniteSet(rows)
      BY FS_AddElement DEF DeliveryInv
<1>5. Busy(next) = Busy(calls) \ {d} /\ d \in Busy(calls)
      BY <1>3 DEF Busy, NoDelivery
<1>6. IsFiniteSet(Busy(calls)) /\ Cardinality(Busy(calls)) \in Nat
      BY <1>4, DeliveryCounts
<1>7. Cardinality(Busy(next)) + 1 <= Cardinality(Busy(calls))
  <2>1. Cardinality(Busy(next)) = Cardinality(Busy(calls)) - 1
        BY <1>5, <1>6, FS_RemoveElement
  <2> QED BY <1>6, <2>1
<1> HIDE DEF next, sent, rows
<1>8. ASSUME NEW t \in Nat
      PROVE  Cardinality(InWindow(rows, t)) + Cardinality(Inserting(next, t)) <= HourlyLimit + Cardinality(Deliverers) - 1
  <2>1. /\ Cardinality(InWindow(delivered, t)) \in Nat /\ Cardinality(Inserting(calls, t)) \in Nat
        /\ Cardinality(Inserting(next, t)) \in Nat /\ Cardinality(Deliverers) \in Nat
        /\ Cardinality(InWindow(rows, t)) \in Nat
        /\ IsFiniteSet(Inserting(calls, t)) /\ IsFiniteSet(InWindow(delivered, t))
        BY <1>4, DeliveryCounts
  <2>2. Cardinality(InWindow(delivered, t)) + Cardinality(Inserting(calls, t)) <= HourlyLimit + Cardinality(Deliverers) - 1
        BY DEF DeliveryInv, Bounded
  <2>3. CASE calls[d].now \in t..(t + Hour)
    <3>1. InWindow(rows, t) = InWindow(delivered, t) \cup {sent}
          BY <1>2, <2>3 DEF InWindow, rows
    <3>a. Cardinality(InWindow(delivered, t) \cup {sent}) =
             IF sent \in InWindow(delivered, t) THEN Cardinality(InWindow(delivered, t)) ELSE Cardinality(InWindow(delivered, t)) + 1
          BY <2>1, FS_AddElement
    <3>2. Cardinality(InWindow(rows, t)) <= Cardinality(InWindow(delivered, t)) + 1
          BY <2>1, <3>1, <3>a
    <3>3. Inserting(next, t) = Inserting(calls, t) \ {d} /\ d \in Inserting(calls, t)
          BY <1>3, <2>3 DEF Inserting, NoDelivery
    <3>4. Cardinality(Inserting(next, t)) = Cardinality(Inserting(calls, t)) - 1
          BY <2>1, <3>3, FS_RemoveElement
    <3> QED BY <1>0, <2>1, <2>2, <3>2, <3>4
  <2>4. CASE calls[d].now \notin t..(t + Hour)
    <3>1. InWindow(rows, t) = InWindow(delivered, t)
          BY <1>2, <2>4 DEF InWindow, rows
    <3>2. Inserting(next, t) = Inserting(calls, t)
          BY <1>3, <2>4 DEF Inserting, NoDelivery
    <3> QED BY <2>2, <3>1, <3>2
  <2> QED BY <2>3, <2>4
<1> QED BY <1>2, <1>7, <1>8 DEF Bounded, sent, next, rows

(* Marking a delivery as read adds no row to any window.                   *)
LEMMA ReadingKeeps ==
    ASSUME DeliveryInv, MarkRead
    PROVE  IsFiniteSet(delivered') /\ delivered' \subseteq DeliveryRow /\ Bounded(delivered', calls)
<1>1. PICK r \in delivered : ~ r.read /\ delivered' = (delivered \ {r}) \cup {[r EXCEPT !.read = TRUE]}
      BY DEF MarkRead
<1> DEFINE marked == [r EXCEPT !.read = TRUE]
<1>2. r \in DeliveryRow
      BY DEF DeliveryInv
<1>3. marked \in DeliveryRow /\ marked.at = r.at
      BY <1>2 DEF DeliveryRow
<1>4. IsFiniteSet(delivered) /\ IsFiniteSet(delivered \ {r}) /\ IsFiniteSet(delivered')
      BY <1>1, FS_RemoveElement, FS_AddElement DEF DeliveryInv
<1> HIDE DEF marked
<1>5. ASSUME NEW t \in Nat
      PROVE  Cardinality(InWindow(delivered', t)) + Cardinality(Inserting(calls, t)) <= HourlyLimit + Cardinality(Deliverers) - 1
  <2> DEFINE before == InWindow(delivered, t)
             after == InWindow(delivered', t)
  <2>1. /\ Cardinality(before) \in Nat /\ Cardinality(after) \in Nat /\ Cardinality(Inserting(calls, t)) \in Nat
        /\ Cardinality(Deliverers) \in Nat /\ IsFiniteSet(before)
        BY <1>4, DeliveryCounts
  <2>2. Cardinality(before) + Cardinality(Inserting(calls, t)) <= HourlyLimit + Cardinality(Deliverers) - 1
        BY DEF DeliveryInv, Bounded
  <2>3. HourlyLimit \in Nat
        BY DeliveryAssumption DEF DeliveryAssumption
  <2>4. Cardinality(after) <= Cardinality(before)
    <3>1. CASE r.at \in t..(t + Hour)
      <4>1. after = (before \ {r}) \cup {marked} /\ r \in before
            BY <1>1, <1>3, <3>1 DEF InWindow, marked
      <4>2. IsFiniteSet(before \ {r}) /\ Cardinality(before \ {r}) = Cardinality(before) - 1
            BY <2>1, <4>1, FS_RemoveElement
      <4>3. Cardinality((before \ {r}) \cup {marked}) =
               IF marked \in before \ {r} THEN Cardinality(before \ {r}) ELSE Cardinality(before \ {r}) + 1
            BY <4>2, FS_AddElement
      <4> QED BY <2>1, <4>1, <4>2, <4>3
    <3>2. CASE r.at \notin t..(t + Hour)
      <4>1. after = before
            BY <1>1, <1>3, <3>2 DEF InWindow, marked
      <4> QED BY <2>1, <4>1
    <3> QED BY <3>1, <3>2
  <2> HIDE DEF before, after
  <2>5. Cardinality(after) + Cardinality(Inserting(calls, t)) <= HourlyLimit + Cardinality(Deliverers) - 1
        BY <2>1, <2>2, <2>3, <2>4
  <2> QED BY <2>5 DEF after
<1>6. delivered' \subseteq DeliveryRow
      BY <1>1, <1>3 DEF DeliveryInv, marked
<1> QED BY <1>4, <1>5, <1>6 DEF Bounded

LEMMA DeliveryInductive == DeliveryInv /\ [DeliveryNext]_deliveryVars => DeliveryInv'
<1> SUFFICES ASSUME DeliveryInv, [DeliveryNext]_deliveryVars PROVE DeliveryInv'
    OBVIOUS
<1>0. /\ IsFiniteSet(delivered) /\ Cardinality(Busy(calls)) \in Nat /\ Cardinality(Deliverers) \in Nat
      /\ Cardinality(Busy(calls)) <= Cardinality(Deliverers) /\ afterwards \in Nat
      /\ calls \in [Deliverers -> DeliveryCall] /\ Bounded(delivered, calls)
      BY DeliveryCounts DEF DeliveryInv
<1>1. CASE DeliveryTick
      BY <1>1 DEF DeliveryTick, DeliveryInv
<1>2. CASE Subscribe \/ \E e \in BOOLEAN : SetEnabled(e)
  <2>1. subscription' \in [channel : Channels, enabled : BOOLEAN] /\ afterwards' = 0
        /\ UNCHANGED <<delivered, calls, deliveryClock>>
    <3>1. subscription \in [channel : Channels, enabled : BOOLEAN]
          BY DEF DeliveryInv
    <3>2. CASE Subscribe
          BY <3>2 DEF Subscribe
    <3>3. ASSUME NEW e \in BOOLEAN, SetEnabled(e)
          PROVE  subscription' \in [channel : Channels, enabled : BOOLEAN] /\ afterwards' = 0
                 /\ UNCHANGED <<delivered, calls, deliveryClock>>
          BY <3>1, <3>3 DEF SetEnabled
    <3> QED BY <1>2, <3>2, <3>3
  <2>2. afterwards' + Cardinality(Busy(calls')) <= Cardinality(Deliverers)
        BY <1>0, <2>1
  <2> QED BY <2>1, <2>2 DEF DeliveryInv
<1>3. CASE MarkRead
  <2>1. UNCHANGED <<subscription, calls, deliveryClock, afterwards>>
        BY <1>3 DEF MarkRead
  <2> QED BY <1>3, <2>1, ReadingKeeps DEF DeliveryInv
<1>4. ASSUME NEW d \in Deliverers, NEW c \in DeliveryCall, c.pc # "insert", calls' = [calls EXCEPT ![d] = c],
             calls[d].pc = "idle" => c.pc = "idle" \/ subscription.enabled,
             UNCHANGED <<subscription, delivered, deliveryClock, afterwards>>
      PROVE  DeliveryInv'
  <2>1. /\ Bounded(delivered, calls')
        /\ Cardinality(Busy(calls')) <= Cardinality(Busy(calls)) + (IF calls[d].pc = "idle" /\ c.pc # "idle" THEN 1 ELSE 0)
        BY <1>0, <1>4, CallMoves
  <2>2. calls' \in [Deliverers -> DeliveryCall]
        BY <1>0, <1>4
  <2>3. Cardinality(Busy(calls')) \in Nat /\ Cardinality(Busy(calls')) <= Cardinality(Deliverers)
        BY <1>0, DeliveryCounts
  <2>4. afterwards + Cardinality(Busy(calls')) <= Cardinality(Deliverers)
    <3>1. CASE subscription.enabled
          BY <2>3, <3>1 DEF DeliveryInv
    <3>2. CASE ~ subscription.enabled
      <4>1. (IF calls[d].pc = "idle" /\ c.pc # "idle" THEN 1 ELSE 0) = 0
            BY <1>4, <3>2
      <4>2. afterwards + Cardinality(Busy(calls)) <= Cardinality(Deliverers)
            BY DEF DeliveryInv
      <4> QED BY <1>0, <2>1, <2>3, <4>1, <4>2
    <3> QED BY <3>1, <3>2
  <2> QED BY <1>4, <2>1, <2>2, <2>4 DEF DeliveryInv
<1>5. ASSUME NEW d \in Deliverers, Deliver(d) PROVE DeliveryInv'
  <2>1. PICK i \in Insights :
           calls' = [calls EXCEPT ![d] = [pc |-> "existing", insight |-> i, channel |-> subscription.channel]]
        BY <1>5 DEF Deliver
  <2>2. subscription.channel \in Channels /\ subscription.enabled /\ UNCHANGED <<subscription, delivered, deliveryClock, afterwards>>
        BY <1>5 DEF Deliver, DeliveryInv
  <2>3. [pc |-> "existing", insight |-> i, channel |-> subscription.channel] \in DeliveryCall
        BY <2>2 DEF DeliveryCall
  <2> QED BY <2>1, <2>2, <2>3, <1>4
<1>6. ASSUME NEW d \in Deliverers, CheckExisting(d) PROVE DeliveryInv'
  <2>1. calls[d].pc = "existing" /\ UNCHANGED <<subscription, delivered, deliveryClock, afterwards>>
        BY <1>6 DEF CheckExisting
  <2>2. calls[d] \in [pc : {"existing"}, insight : Insights, channel : Channels] /\ deliveryClock \in Nat
        BY <2>1 DEF DeliveryInv, DeliveryCall, NoDelivery
  <2>3. PICK c \in {NoDelivery, [pc |-> "count", insight |-> calls[d].insight, channel |-> calls[d].channel, now |-> deliveryClock]} :
           calls' = [calls EXCEPT ![d] = c]
        BY <1>6 DEF CheckExisting
  <2>4. c \in DeliveryCall /\ c.pc # "insert"
        BY <2>2, <2>3 DEF DeliveryCall, NoDelivery
  <2> QED BY <2>1, <2>3, <2>4, <1>4
<1>7. ASSUME NEW d \in Deliverers, CheckRate(d) PROVE DeliveryInv'
  <2>1. calls[d].pc = "count" /\ UNCHANGED <<subscription, delivered, deliveryClock, afterwards>>
        BY <1>7 DEF CheckRate
  <2>2. CASE Cardinality(LastHour(calls[d].now)) >= HourlyLimit
    <3>1. calls' = [calls EXCEPT ![d] = NoDelivery]
          BY <1>7, <2>2 DEF CheckRate
    <3>2. NoDelivery \in DeliveryCall /\ NoDelivery.pc # "insert"
          BY DEF DeliveryCall, NoDelivery
    <3> QED BY <2>1, <3>1, <3>2, <1>4
  <2>3. CASE ~ (Cardinality(LastHour(calls[d].now)) >= HourlyLimit)
    <3>1. calls' = [calls EXCEPT ![d] = [calls[d] EXCEPT !.pc = "insert"]]
          BY <1>7, <2>3 DEF CheckRate
    <3>2. /\ calls' \in [Deliverers -> DeliveryCall] /\ Bounded(delivered, calls')
          /\ Busy(calls') = Busy(calls)
          BY <2>1, <2>3, <3>1, CountPasses
    <3> QED BY <2>1, <3>2 DEF DeliveryInv
  <2> QED BY <2>2, <2>3
<1>8. ASSUME NEW d \in Deliverers, InsertDelivery(d) PROVE DeliveryInv'
  <2> DEFINE sent == [insight |-> calls[d].insight, channel |-> calls[d].channel, at |-> calls[d].now, read |-> FALSE]
  <2>1. /\ calls[d].pc = "insert" /\ calls' = [calls EXCEPT ![d] = NoDelivery]
        /\ UNCHANGED <<subscription, deliveryClock>>
        BY <1>8 DEF InsertDelivery
  <2>2. NoDelivery \in DeliveryCall /\ NoDelivery.pc = "idle"
        BY DEF DeliveryCall, NoDelivery
  <2>3. CASE Delivers(calls[d].insight, calls[d].channel)
    <3>1. delivered' = delivered /\ afterwards' = afterwards
          BY <1>8, <2>3 DEF InsertDelivery
    <3> QED BY <2>1, <2>2, <3>1, <1>4
  <2>4. CASE ~ Delivers(calls[d].insight, calls[d].channel)
    <3>1. delivered' = delivered \cup {sent} /\ afterwards' = IF subscription.enabled THEN afterwards ELSE afterwards + 1
          BY <1>8, <2>4 DEF InsertDelivery
    <3>2. /\ sent \in DeliveryRow /\ Bounded(delivered', calls')
          /\ Cardinality(Busy(calls')) + 1 <= Cardinality(Busy(calls))
          BY <2>1, <3>1, InsertMoves
    <3>3. IsFiniteSet(delivered') /\ delivered' \subseteq DeliveryRow
      <4>1. IsFiniteSet(delivered \cup {sent})
            BY <1>0, FS_AddElement
      <4> QED BY <3>1, <3>2, <4>1 DEF DeliveryInv
    <3>4. calls' \in [Deliverers -> DeliveryCall]
          BY <1>0, <2>1, <2>2
    <3>5. Cardinality(Busy(calls')) \in Nat
          BY <3>3, DeliveryCounts
    <3>6. /\ afterwards' \in Nat /\ afterwards' + Cardinality(Busy(calls')) <= Cardinality(Deliverers)
          /\ subscription.enabled => afterwards' = 0
      <4>1. /\ afterwards + Cardinality(Busy(calls)) <= Cardinality(Deliverers)
            /\ subscription.enabled => afterwards = 0
            BY DEF DeliveryInv
      <4> QED BY <1>0, <3>1, <3>2, <3>5, <4>1
    <3> QED BY <2>1, <3>2, <3>3, <3>4, <3>6 DEF DeliveryInv
  <2> QED BY <2>3, <2>4
<1>9. CASE UNCHANGED deliveryVars
      BY <1>9 DEF deliveryVars, DeliveryInv
<1> QED BY <1>1, <1>2, <1>3, <1>5, <1>6, <1>7, <1>8, <1>9 DEF DeliveryNext

(* However many deliverers count at the same time, and whatever is read,   *)
(* an hour holds no more deliveries than the limit and one for each        *)
(* deliverer but the first; and what follows a disabling are calls that    *)
(* were under way (deliver() of delivery.py).                              *)
THEOREM RateStaysKept == DeliverySpec => []RateIsKept
<1>1. DeliveryInit => DeliveryInv
  <2> SUFFICES ASSUME DeliveryInit PROVE DeliveryInv
      OBVIOUS
  <2>1. IsFiniteSet(delivered) /\ delivered = {} /\ calls = [d \in Deliverers |-> NoDelivery]
        BY FS_EmptySet DEF DeliveryInit
  <2>2. /\ Busy(calls) = {} /\ \A t : InWindow(delivered, t) = {} /\ Inserting(calls, t) = {}
        BY <2>1 DEF Busy, InWindow, Inserting, NoDelivery
  <2>3. Cardinality({}) = 0 /\ Cardinality(Deliverers) \in Nat /\ HourlyLimit \in Nat \ {0}
        BY <2>1, FS_EmptySet, DeliveryCounts, DeliveryAssumption DEF DeliveryAssumption
  <2>4. Bounded(delivered, calls)
        BY <2>2, <2>3 DEF Bounded
  <2>5. subscription \in [channel : Channels, enabled : BOOLEAN] /\ deliveryClock \in Nat /\ afterwards = 0
        BY DEF DeliveryInit
  <2>6. calls \in [Deliverers -> DeliveryCall]
        BY <2>1 DEF DeliveryCall
  <2>7. afterwards + Cardinality(Busy(calls)) <= Cardinality(Deliverers)
        BY <2>2, <2>3, <2>5
  <2> QED BY <2>1, <2>4, <2>5, <2>6, <2>7 DEF DeliveryInv
<1>2. DeliveryInv => RateIsKept
  <2> SUFFICES ASSUME DeliveryInv PROVE RateIsKept
      OBVIOUS
  <2>1. /\ \A t : Cardinality(InWindow(delivered, t)) \in Nat /\ Cardinality(Inserting(calls, t)) \in Nat
        /\ Cardinality(Busy(calls)) \in Nat /\ Cardinality(Deliverers) \in Nat
        BY DeliveryCounts DEF DeliveryInv
  <2>2. HourlyLimit \in Nat /\ DeliveryHorizon \in Nat
        BY DeliveryAssumption DEF DeliveryAssumption
  <2>3. ASSUME NEW t \in 0..DeliveryHorizon
        PROVE  Cardinality({r \in delivered : r.at \in t..(t + Hour)}) <= HourlyLimit + Cardinality(Deliverers) - 1
    <3>1. Cardinality(InWindow(delivered, t)) + Cardinality(Inserting(calls, t)) <= HourlyLimit + Cardinality(Deliverers) - 1
          BY <2>2 DEF DeliveryInv, Bounded
    <3>2. Cardinality(InWindow(delivered, t)) <= HourlyLimit + Cardinality(Deliverers) - 1
          BY <2>1, <2>2, <3>1
    <3> QED BY <3>2 DEF InWindow
  <2>4. afterwards <= Cardinality(Deliverers)
        BY <2>1 DEF DeliveryInv
  <2> QED BY <2>3, <2>4 DEF RateIsKept
<1> QED BY <1>1, <1>2, DeliveryInductive, PTL DEF DeliverySpec

-----------------------------------------------------------------------------
(* The client of the language model.  Replies are whole in the             *)
(* conversation and in what every turn sends; the pieces of a stream are   *)
(* of its attempt; and what was asked first, with what is reserved and not *)
(* asked yet, is paid.                                                     *)

Reply == {m \in [role : {"assistant"}, turn : Turns, text : Seq(Nat)] :
             \A j, k \in DOMAIN m.text : m.text[j] = m.text[k]}
WholeMessage == [role : {"system"}] \cup [role : {"user"}, turn : Turns] \cup Reply

Sent == [pc : {"reserve", "attempt", "answer", "done", "failed"}, messages : Seq(WholeMessage), session : Nat,
         streaming : BOOLEAN, attempt : 0..MaxRetries, emitted : BOOLEAN, parts : Seq(Nat)]

\* A turn that was sent is in order
Orderly(r) ==
    /\ \A i \in DOMAIN r.parts : r.parts[i] = r.attempt
    /\ r.parts # <<>> => r.streaming /\ r.emitted /\ r.pc \notin {"reserve", "attempt"}
    /\ r.pc = "reserve" => r.streaming /\ r.attempt = 0

Owes(r) == r.pc = "attempt" /\ r.streaming /\ r.attempt = 0
Owing(ts) == {t \in Turns : Owes(ts[t])}
Paid(reqs, ts) == {q \in reqs : ~ (ts[q[1]].streaming /\ q[2] > 0)}
Named(reqs, ts) == \A q \in reqs : q \in Turns \X (0..MaxRetries) /\ ts[q[1]] \in Sent

LlmInv ==
    /\ used \in 0..CallBudget /\ session \in Nat
    /\ conversation \in Seq(WholeMessage)
    /\ turns \in [Turns -> {NotSent} \cup Sent]
    /\ \A t \in Turns : turns[t] \in Sent => Orderly(turns[t])
    /\ IsFiniteSet(requests) /\ Named(requests, turns)
    /\ Cardinality(Paid(requests, turns)) + Cardinality(Owing(turns)) <= used

(* The sets that are counted are finite.                                   *)
LEMMA LlmCounts ==
    ASSUME NEW reqs, IsFiniteSet(reqs), NEW ts
    PROVE  /\ IsFiniteSet(Paid(reqs, ts)) /\ Cardinality(Paid(reqs, ts)) \in Nat
           /\ IsFiniteSet(Owing(ts)) /\ Cardinality(Owing(ts)) \in Nat
           /\ IsFiniteSet(Turns)
<1>1. IsFiniteSet(Turns)
      BY LlmAssumption DEF LlmAssumption
<1>2. Paid(reqs, ts) \in SUBSET reqs /\ Owing(ts) \in SUBSET Turns
      BY DEF Paid, Owing
<1>3. IsFiniteSet(Paid(reqs, ts)) /\ IsFiniteSet(Owing(ts))
      BY <1>1, <1>2, FS_Subset
<1> QED BY <1>1, <1>3, FS_CardinalityType

(* A turn that moves without asking the provider or reserving a call.      *)
LEMMA TurnMoves ==
    ASSUME LlmInv, NEW t \in Turns, NEW r \in Sent, Orderly(r),
           turns[t] \in Sent => turns[t].streaming = r.streaming,
           Owes(r) => Owes(turns[t]),
           turns' = [turns EXCEPT ![t] = r], UNCHANGED <<used, requests>>,
           session' \in Nat, conversation' \in Seq(WholeMessage)
    PROVE  LlmInv'
<1>1. /\ turns' \in [Turns -> {NotSent} \cup Sent]
      /\ \A u \in Turns : turns'[u] = IF u = t THEN r ELSE turns[u]
      BY DEF LlmInv
<1>2. \A u \in Turns : turns'[u] \in Sent => Orderly(turns'[u])
      BY <1>1 DEF LlmInv
<1>3. Named(requests, turns') /\ Paid(requests, turns') = Paid(requests, turns)
      BY <1>1 DEF LlmInv, Named, Paid
<1>4. Cardinality(Owing(turns')) <= Cardinality(Owing(turns))
  <2>1. Owing(turns') \subseteq Owing(turns)
        BY <1>1 DEF Owing
  <2> QED BY <2>1, LlmCounts, FS_Subset DEF LlmInv
<1>5. /\ Cardinality(Paid(requests, turns)) \in Nat /\ Cardinality(Owing(turns)) \in Nat
      /\ Cardinality(Owing(turns')) \in Nat
      BY LlmCounts DEF LlmInv
<1>6. used \in Nat /\ Cardinality(Paid(requests, turns)) + Cardinality(Owing(turns)) <= used
      BY LlmAssumption DEF LlmInv, LlmAssumption
<1>7. Cardinality(Paid(requests', turns')) + Cardinality(Owing(turns')) <= used'
      BY <1>3, <1>4, <1>5, <1>6
<1> QED BY <1>1, <1>2, <1>3, <1>7 DEF LlmInv

(* A turn that reserves a call, asks the provider, or does both.           *)
LEMMA TurnAsks ==
    ASSUME LlmInv, NEW t \in Turns, NEW r \in Sent, Orderly(r),
           turns[t] \in Sent, turns[t].streaming = r.streaming,
           turns' = [turns EXCEPT ![t] = r], UNCHANGED <<session, conversation>>,
           \/ used' = used + 1 /\ used' <= CallBudget /\ requests' = requests
           \/ /\ used' = used + 1 /\ used' <= CallBudget /\ ~ Owes(r)
              /\ requests' = requests \cup {<<t, turns[t].attempt>>}
           \/ /\ used' = used /\ turns[t].streaming /\ turns[t].pc = "attempt" /\ ~ Owes(r)
              /\ requests' = requests \cup {<<t, turns[t].attempt>>}
    PROVE  LlmInv'
<1> DEFINE q == <<t, turns[t].attempt>>
           paid == Paid(requests, turns)
           owing == Owing(turns)
<1>1. /\ turns' \in [Turns -> {NotSent} \cup Sent]
      /\ \A u \in Turns : turns'[u] = IF u = t THEN r ELSE turns[u]
      BY DEF LlmInv
<1>2. \A u \in Turns : turns'[u] \in Sent => Orderly(turns'[u])
      BY <1>1 DEF LlmInv
<1>3. turns[t].attempt \in 0..MaxRetries /\ MaxRetries \in Nat /\ CallBudget \in Nat /\ used \in Nat
      BY LlmAssumption DEF LlmInv, Sent, LlmAssumption
<1>4. IsFiniteSet(requests') /\ Named(requests', turns')
  <2>1. IsFiniteSet(requests) /\ IsFiniteSet(requests \cup {q})
        BY FS_AddElement DEF LlmInv
  <2>2. Named(requests, turns') /\ Named(requests \cup {q}, turns')
        BY <1>1, <1>3 DEF LlmInv, Named
  <2> QED BY <2>1, <2>2
<1>5. /\ Cardinality(paid) \in Nat /\ Cardinality(owing) \in Nat /\ IsFiniteSet(paid) /\ IsFiniteSet(owing)
      /\ Cardinality(Paid(requests', turns')) \in Nat /\ Cardinality(Owing(turns')) \in Nat
      BY <1>4, LlmCounts DEF LlmInv
<1>6. Cardinality(paid) + Cardinality(owing) <= used
      BY DEF LlmInv
<1>7. Cardinality(owing \cup {t}) <= Cardinality(owing) + 1 /\ IsFiniteSet(owing \cup {t})
  <2>1. IsFiniteSet(owing \cup {t})
        /\ Cardinality(owing \cup {t}) = IF t \in owing THEN Cardinality(owing) ELSE Cardinality(owing) + 1
        BY <1>5, FS_AddElement
  <2> QED BY <1>5, <2>1
<1>8. Cardinality(paid \cup {q}) <= Cardinality(paid) + 1
  <2>1. Cardinality(paid \cup {q}) = IF q \in paid THEN Cardinality(paid) ELSE Cardinality(paid) + 1
        BY <1>5, FS_AddElement
  <2> QED BY <1>5, <2>1
<1>9. Paid(requests, turns') = paid
      BY <1>1 DEF Paid, LlmInv, Named
<1>10. Cardinality(Paid(requests', turns')) + Cardinality(Owing(turns')) <= used' /\ used' \in 0..CallBudget
  <2>1. CASE used' = used + 1 /\ used' <= CallBudget /\ requests' = requests
    <3>1. Owing(turns') \subseteq owing \cup {t}
          BY <1>1 DEF Owing
    <3>2. Cardinality(Owing(turns')) <= Cardinality(owing \cup {t})
          BY <1>7, <3>1, FS_Subset
    <3>3. Cardinality(owing \cup {t}) \in Nat
          BY <1>7, FS_CardinalityType
    <3> QED BY <1>3, <1>5, <1>6, <1>7, <1>9, <2>1, <3>2, <3>3
  <2>2. CASE ~ Owes(r) /\ requests' = requests \cup {q}
    <3>1. Owing(turns') = owing \ {t}
          BY <1>1, <2>2 DEF Owing
    <3>2. Paid(requests', turns') = paid \cup (IF turns[t].streaming /\ turns[t].attempt > 0 THEN {} ELSE {q})
      <4>1. Paid(requests \cup {q}, turns') = Paid(requests, turns') \cup Paid({q}, turns')
            BY DEF Paid
      <4>2. Paid({q}, turns') = IF turns[t].streaming /\ turns[t].attempt > 0 THEN {} ELSE {q}
            BY <1>1 DEF Paid
      <4> QED BY <1>9, <2>2, <4>1, <4>2
    <3>3. Cardinality(owing \ {t}) = IF t \in owing THEN Cardinality(owing) - 1 ELSE Cardinality(owing)
          BY <1>5, FS_RemoveElement
    <3>6. Cardinality(Paid(requests', turns')) <= Cardinality(paid) + 1
      <4>1. Paid(requests', turns') = paid \/ Paid(requests', turns') = paid \cup {q}
            BY <3>2
      <4>2. Cardinality(paid) <= Cardinality(paid) + 1
            BY <1>5
      <4> QED BY <1>8, <4>1, <4>2
    <3>7. Cardinality(Owing(turns')) <= Cardinality(owing)
      <4>1. Cardinality(owing \ {t}) <= Cardinality(owing)
            BY <1>5, <3>3
      <4> QED BY <3>1, <4>1
    <3>4. CASE used' = used + 1 /\ used' <= CallBudget
          BY <1>3, <1>5, <1>6, <3>4, <3>6, <3>7
    <3>5. CASE used' = used /\ turns[t].streaming /\ turns[t].pc = "attempt"
      <4>1. CASE turns[t].attempt > 0
        <5>1. Paid(requests', turns') = paid
              BY <3>2, <3>5, <4>1
        <5>2. used \in 0..CallBudget
              BY DEF LlmInv
        <5> QED BY <1>3, <1>5, <1>6, <3>5, <3>7, <5>1, <5>2
      <4>2. CASE ~ (turns[t].attempt > 0)
        <5>1. t \in owing
              BY <1>3, <3>5, <4>2 DEF Owing, Owes
        <5>2. Cardinality(owing \ {t}) = Cardinality(owing) - 1
              BY <3>3, <5>1
        <5>3. Cardinality(Owing(turns')) = Cardinality(owing) - 1
              BY <3>1, <5>2
        <5>4. used \in 0..CallBudget
              BY DEF LlmInv
        <5> QED BY <1>3, <1>5, <1>6, <3>5, <3>6, <5>3, <5>4
      <4> QED BY <4>1, <4>2
    <3> QED BY <2>2, <3>4, <3>5, <1>3
  <2> QED BY <2>1, <2>2
<1> QED BY <1>1, <1>2, <1>4, <1>10 DEF LlmInv

LEMMA SentTurn ==
    ASSUME LlmInv, NEW t \in Turns, turns[t].pc # "unsent"
    PROVE  turns[t] \in Sent /\ Orderly(turns[t])
BY DEF LlmInv, NotSent

(* A failed attempt is followed by another one only if nothing was shown.  *)
LEMMA FailureKeeps ==
    ASSUME LlmInv, NEW t \in Turns, NEW code, FailedAttempt(t, code),
           turns[t].pc = "answer" \/ (turns[t].pc = "attempt" /\ ~ turns[t].streaming),
           UNCHANGED <<used, requests, conversation, session>>
    PROVE  LlmInv'
<1> DEFINE r == IF MayRetry(t, code) THEN [turns[t] EXCEPT !.pc = "attempt", !.attempt = @ + 1]
                                     ELSE [turns[t] EXCEPT !.pc = "failed"]
<1>1. turns' = [turns EXCEPT ![t] = r]
      BY DEF FailedAttempt
<1>2. turns[t] \in Sent /\ Orderly(turns[t])
      BY SentTurn
<1>3. session' \in Nat /\ conversation' \in Seq(WholeMessage)
      BY DEF LlmInv
<1>4. r \in Sent /\ Orderly(r) /\ r.streaming = turns[t].streaming /\ ~ Owes(r)
  <2>1. CASE MayRetry(t, code)
    <3>1. r = [turns[t] EXCEPT !.pc = "attempt", !.attempt = @ + 1]
          BY <2>1
    <3>2. turns[t].attempt + 1 \in 0..MaxRetries /\ turns[t].attempt + 1 # 0
          BY <1>2, <2>1, LlmAssumption DEF MayRetry, LlmAssumption, Sent
    <3>3. turns[t].parts = <<>>
          BY <1>2, <2>1 DEF MayRetry, Orderly
    <3>4. /\ r \in Sent /\ r.pc = "attempt" /\ r.parts = turns[t].parts
          /\ r.streaming = turns[t].streaming /\ r.attempt = turns[t].attempt + 1
          BY <1>2, <3>1, <3>2 DEF Sent
    <3> HIDE DEF r
    <3>5. Orderly(r)
          BY <3>3, <3>4 DEF Orderly
    <3> QED BY <3>2, <3>4, <3>5 DEF Owes
  <2>2. CASE ~ MayRetry(t, code)
    <3>1. r = [turns[t] EXCEPT !.pc = "failed"]
          BY <2>2
    <3>2. /\ r \in Sent /\ r.pc = "failed" /\ r.parts = turns[t].parts /\ r.emitted = turns[t].emitted
          /\ r.streaming = turns[t].streaming /\ r.attempt = turns[t].attempt
          BY <1>2, <3>1 DEF Sent
    <3> HIDE DEF r
    <3>3. Orderly(r)
          BY <1>2, <3>2 DEF Orderly
    <3> QED BY <3>2, <3>3 DEF Owes
  <2> QED BY <2>1, <2>2
<1> HIDE DEF r
<1> QED BY <1>1, <1>3, <1>4, TurnMoves

(* What a change of its state alone leaves of a turn.                      *)
LEMMA StateChanges ==
    ASSUME LlmInv, NEW t \in Turns, turns[t].pc # "unsent", NEW pc \in {"attempt", "answer", "done", "failed"},
           pc = "attempt" => turns[t].parts = <<>>
    PROVE  LET r == [turns[t] EXCEPT !.pc = pc]
           IN  /\ r \in Sent /\ Orderly(r) /\ turns[t] \in Sent
               /\ r.streaming = turns[t].streaming /\ r.attempt = turns[t].attempt /\ r.pc = pc
<1> DEFINE r == [turns[t] EXCEPT !.pc = pc]
<1>1. turns[t] \in Sent /\ Orderly(turns[t])
      BY SentTurn
<1>2. /\ r \in Sent /\ r.pc = pc /\ r.parts = turns[t].parts /\ r.emitted = turns[t].emitted
      /\ r.streaming = turns[t].streaming /\ r.attempt = turns[t].attempt
      BY <1>1 DEF Sent
<1> HIDE DEF r
<1>3. Orderly(r)
      BY <1>1, <1>2 DEF Orderly
<1> QED BY <1>1, <1>2, <1>3 DEF r

LEMMA LlmInductive == LlmInv /\ [LlmNext]_llmVars => LlmInv'
<1> SUFFICES ASSUME LlmInv, [LlmNext]_llmVars PROVE LlmInv'
    OBVIOUS
<1>0. /\ session \in Nat /\ conversation \in Seq(WholeMessage) /\ used \in 0..CallBudget /\ CallBudget \in Nat
      /\ MaxRetries \in Nat
      BY LlmAssumption DEF LlmInv, LlmAssumption
<1>1. ASSUME NEW t \in Turns, NEW b \in BOOLEAN, SendTurn(t, b) PROVE LlmInv'
  <2> DEFINE r == [pc |-> IF b THEN "reserve" ELSE "attempt", messages |-> Messages(t), session |-> session,
                   streaming |-> b, attempt |-> 0, emitted |-> FALSE, parts |-> <<>>]
  <2>1. turns[t].pc = "unsent" /\ turns' = [turns EXCEPT ![t] = r] /\ UNCHANGED <<used, requests, conversation, session>>
        BY <1>1 DEF SendTurn
  <2>2. turns[t] \notin Sent
        BY <2>1 DEF Sent
  <2>3. Messages(t) \in Seq(WholeMessage)
    <3>1. [role |-> "system"] \in WholeMessage /\ [role |-> "user", turn |-> t] \in WholeMessage
          BY DEF WholeMessage
    <3>2. /\ (IF conversation = <<>> THEN <<[role |-> "system"]>> ELSE <<>>) \in Seq(WholeMessage)
          /\ <<[role |-> "user", turn |-> t]>> \in Seq(WholeMessage)
          BY <3>1
    <3> QED BY <1>0, <3>2 DEF Messages
  <2>4. r \in Sent
        BY <1>0, <2>3 DEF Sent
  <2>5. Orderly(r) /\ ~ Owes(r)
        BY DEF Orderly, Owes
  <2> HIDE DEF r
  <2> QED BY <1>0, <2>1, <2>2, <2>4, <2>5, TurnMoves
<1>2. ASSUME NEW t \in Turns, NEW code, ProviderFails(t, code) PROVE LlmInv'
      BY <1>2, FailureKeeps DEF ProviderFails
<1>3. ASSUME NEW t \in Turns, ReserveStream(t) PROVE LlmInv'
  <2>1. turns[t].pc = "reserve" /\ UNCHANGED <<requests, conversation, session>>
        BY <1>3 DEF ReserveStream
  <2>2. turns[t].parts = <<>>
        BY <2>1, SentTurn DEF Orderly
  <2>3. CASE HasBudget
    <3>1. used' = used + 1 /\ used' <= CallBudget /\ turns' = [turns EXCEPT ![t] = [turns[t] EXCEPT !.pc = "attempt"]]
          BY <1>3, <2>3 DEF ReserveStream, HasBudget, EndTurn, LlmInv
    <3>2. PICK r : r = [turns[t] EXCEPT !.pc = "attempt"]
          OBVIOUS
    <3>3. r \in Sent /\ Orderly(r) /\ turns[t] \in Sent /\ r.streaming = turns[t].streaming
          BY <2>1, <2>2, <3>2, StateChanges
    <3> QED BY <2>1, <3>1, <3>2, <3>3, TurnAsks
  <2>4. CASE ~ HasBudget
    <3>1. used' = used /\ turns' = [turns EXCEPT ![t] = [turns[t] EXCEPT !.pc = "failed"]]
          BY <1>3, <2>4 DEF ReserveStream, EndTurn, LlmInv
    <3>2. PICK r : r = [turns[t] EXCEPT !.pc = "failed"]
          OBVIOUS
    <3>3. r \in Sent /\ Orderly(r) /\ r.streaming = turns[t].streaming /\ r.pc = "failed"
          BY <2>1, <3>2, StateChanges
    <3> QED BY <1>0, <2>1, <3>1, <3>2, <3>3, TurnMoves DEF Owes
  <2> QED BY <2>3, <2>4
<1>4. ASSUME NEW t \in Turns, AttemptStream(t) PROVE LlmInv'
  <2>1. /\ turns[t].pc = "attempt" /\ turns[t].streaming /\ requests' = requests \cup {<<t, turns[t].attempt>>}
        /\ UNCHANGED <<used, conversation, session>>
        BY <1>4 DEF AttemptStream, AskProvider
  <2>2. turns[t] \in Sent /\ Orderly(turns[t]) /\ turns[t].parts = <<>>
        BY <2>1, SentTurn DEF Orderly
  <2> DEFINE r == [turns[t] EXCEPT !.pc = "answer", !.emitted = FALSE]
  <2>3. turns' = [turns EXCEPT ![t] = r]
        BY <1>4 DEF AttemptStream, LlmInv
  <2>4. r \in Sent /\ r.pc = "answer" /\ r.parts = <<>> /\ r.streaming = turns[t].streaming
        BY <2>2 DEF Sent
  <2> HIDE DEF r
  <2>5. Orderly(r) /\ ~ Owes(r)
        BY <2>4 DEF Orderly, Owes
  <2> QED BY <2>1, <2>2, <2>3, <2>4, <2>5, TurnAsks
<1>5. ASSUME NEW t \in Turns, AttemptGenerate(t) PROVE LlmInv'
  <2>1. turns[t].pc = "attempt" /\ ~ turns[t].streaming /\ UNCHANGED <<conversation, session>>
        BY <1>5 DEF AttemptGenerate
  <2>2. CASE HasBudget
    <3>1. /\ used' = used + 1 /\ used' <= CallBudget /\ requests' = requests \cup {<<t, turns[t].attempt>>}
          /\ turns' = [turns EXCEPT ![t] = [turns[t] EXCEPT !.pc = "answer"]]
          BY <1>5, <2>2 DEF AttemptGenerate, AskProvider, EndTurn, HasBudget, LlmInv
    <3>2. PICK r : r = [turns[t] EXCEPT !.pc = "answer"]
          OBVIOUS
    <3>3. r \in Sent /\ Orderly(r) /\ turns[t] \in Sent /\ r.streaming = turns[t].streaming /\ r.pc = "answer"
          BY <2>1, <3>2, StateChanges
    <3>4. ~ Owes(r)
          BY <3>3 DEF Owes
    <3> QED BY <2>1, <3>1, <3>2, <3>3, <3>4, TurnAsks
  <2>3. CASE ~ HasBudget
        BY <1>5, <2>1, <2>3, FailureKeeps DEF AttemptGenerate
  <2> QED BY <2>2, <2>3
<1>6. ASSUME NEW t \in Turns, Interrupted(t) PROVE LlmInv'
  <2>1. /\ turns[t].pc \in {"attempt", "answer"} /\ UNCHANGED <<used, requests, conversation, session>>
        /\ turns' = [turns EXCEPT ![t] = [turns[t] EXCEPT !.pc = "failed"]]
        BY <1>6 DEF Interrupted, EndTurn, LlmInv
  <2>2. PICK r : r = [turns[t] EXCEPT !.pc = "failed"]
        OBVIOUS
  <2>3. r \in Sent /\ Orderly(r) /\ r.streaming = turns[t].streaming /\ r.pc = "failed"
        BY <2>1, <2>2, StateChanges
  <2> QED BY <1>0, <2>1, <2>2, <2>3, TurnMoves DEF Owes
<1>7. ASSUME NEW t \in Turns, Piece(t) PROVE LlmInv'
  <2>1. turns[t].pc = "answer" /\ turns[t].streaming /\ UNCHANGED <<used, requests, conversation, session>>
        BY <1>7 DEF Piece
  <2>2. turns[t] \in Sent /\ Orderly(turns[t])
        BY <2>1, SentTurn
  <2>3. PICK parts \in {turns[t].parts, Append(turns[t].parts, turns[t].attempt)} :
           turns' = [turns EXCEPT ![t] = [turns[t] EXCEPT !.emitted = TRUE, !.parts = parts]]
    <3>1. CASE turns' = [turns EXCEPT ![t].emitted = TRUE, ![t].parts = Append(@, turns[t].attempt)]
      <4>1. turns' = [turns EXCEPT ![t] = [turns[t] EXCEPT !.emitted = TRUE, !.parts = Append(turns[t].parts, turns[t].attempt)]]
            BY <2>2, <3>1 DEF LlmInv, Sent
      <4> QED BY <4>1
    <3>2. CASE turns' = [turns EXCEPT ![t].emitted = TRUE]
      <4>1. turns' = [turns EXCEPT ![t] = [turns[t] EXCEPT !.emitted = TRUE, !.parts = turns[t].parts]]
            BY <2>2, <3>2 DEF LlmInv, Sent
      <4> QED BY <4>1
    <3> QED BY <1>7, <3>1, <3>2 DEF Piece
  <2> DEFINE r == [turns[t] EXCEPT !.emitted = TRUE, !.parts = parts]
  <2>4. turns[t].attempt \in Nat /\ turns[t].parts \in Seq(Nat)
        BY <1>0, <2>2 DEF Sent
  <2>5. parts \in Seq(Nat) /\ \A i \in DOMAIN parts : parts[i] = turns[t].attempt
    <3>1. \A i \in DOMAIN turns[t].parts : turns[t].parts[i] = turns[t].attempt
          BY <2>2 DEF Orderly
    <3>2. CASE parts = turns[t].parts
          BY <2>4, <3>1, <3>2
    <3>3. CASE parts = Append(turns[t].parts, turns[t].attempt)
      <4>1. DOMAIN parts = 1..(Len(turns[t].parts) + 1) /\ parts \in Seq(Nat)
            BY <2>4, <3>3
      <4>2. \A i \in DOMAIN parts : IF i = Len(turns[t].parts) + 1 THEN parts[i] = turns[t].attempt
                                    ELSE i \in DOMAIN turns[t].parts /\ parts[i] = turns[t].parts[i]
            BY <2>4, <3>3, <4>1
      <4> QED BY <3>1, <4>1, <4>2
    <3> QED BY <2>3, <3>2, <3>3
  <2>6. /\ r \in Sent /\ r.pc = "answer" /\ r.parts = parts /\ r.emitted = TRUE
        /\ r.streaming = turns[t].streaming /\ r.attempt = turns[t].attempt
        BY <2>1, <2>2, <2>5 DEF Sent
  <2>7. turns' = [turns EXCEPT ![t] = r]
        BY <2>3
  <2> HIDE DEF r
  <2>8. Orderly(r) /\ ~ Owes(r)
        BY <2>1, <2>5, <2>6 DEF Orderly, Owes
  <2> QED BY <1>0, <2>1, <2>6, <2>7, <2>8, TurnMoves
<1>8. ASSUME NEW t \in Turns, Answered(t) PROVE LlmInv'
  <2> DEFINE text == IF turns[t].streaming THEN turns[t].parts ELSE <<turns[t].attempt>>
             reply == [role |-> "assistant", turn |-> t, text |-> text]
  <2>1. /\ turns[t].pc = "answer" /\ UNCHANGED <<used, requests, session>>
        /\ turns' = [turns EXCEPT ![t] = [turns[t] EXCEPT !.pc = "done"]]
        /\ conversation' = IF turns[t].session = session THEN Append(turns[t].messages, reply) ELSE conversation
        BY <1>8 DEF Answered, EndTurn, LlmInv
  <2>2. turns[t] \in Sent /\ Orderly(turns[t])
        BY <2>1, SentTurn
  <2>3. turns[t].messages \in Seq(WholeMessage) /\ turns[t].parts \in Seq(Nat) /\ turns[t].attempt \in Nat
        BY <1>0, <2>2 DEF Sent
  <2>4. text \in Seq(Nat) /\ \A j, k \in DOMAIN text : text[j] = text[k]
    <3>1. CASE turns[t].streaming
          BY <2>2, <2>3, <3>1 DEF Orderly
    <3>2. CASE ~ turns[t].streaming
          BY <2>3, <3>2
    <3> QED BY <3>1, <3>2
  <2> HIDE DEF text
  <2>5. reply \in WholeMessage
        BY <2>4 DEF WholeMessage, Reply
  <2> HIDE DEF reply
  <2>6. conversation' \in Seq(WholeMessage) /\ session' \in Nat
        BY <1>0, <2>1, <2>3, <2>5
  <2>7. PICK r : r = [turns[t] EXCEPT !.pc = "done"]
        OBVIOUS
  <2>8. r \in Sent /\ Orderly(r) /\ r.streaming = turns[t].streaming /\ r.pc = "done"
        BY <2>1, <2>7, StateChanges
  <2> QED BY <2>1, <2>6, <2>7, <2>8, TurnMoves DEF Owes
<1>9. CASE ClearSession
  <2>1. session' = session + 1 /\ conversation' = <<>> /\ UNCHANGED <<used, requests, turns>>
        BY <1>9 DEF ClearSession
  <2>2. session' \in Nat /\ conversation' \in Seq(WholeMessage)
        BY <1>0, <2>1
  <2> QED BY <2>1, <2>2 DEF LlmInv
<1>10. CASE UNCHANGED llmVars
      BY <1>10 DEF llmVars, LlmInv
<1> QED BY <1>1, <1>2, <1>3, <1>4, <1>5, <1>6, <1>7, <1>8, <1>9, <1>10 DEF LlmNext

(* However attempts fail, are repeated, interrupted or cleared away: a     *)
(* reply in the conversation comes from one attempt, and the provider is   *)
(* asked no more often than the budget and the retries of the streams      *)
(* allow (generate(), stream_generate(), send(), send_streaming() of       *)
(* llm_runtime.py).                                                        *)
THEOREM ChatStaysGoverned == LlmSpec => []ChatIsGoverned
<1>1. LlmInit => LlmInv
  <2> SUFFICES ASSUME LlmInit PROVE LlmInv
      OBVIOUS
  <2>1. /\ used = 0 /\ requests = {} /\ conversation = <<>> /\ session = 0
        /\ turns = [t \in Turns |-> NotSent]
        BY DEF LlmInit
  <2>2. NotSent \notin Sent /\ ~ Owes(NotSent)
        BY DEF NotSent, Sent, Owes
  <2>3. Paid(requests, turns) = {} /\ Owing(turns) = {}
        BY <2>1, <2>2 DEF Paid, Owing
  <2>4. IsFiniteSet({}) /\ Cardinality({}) = 0 /\ CallBudget \in Nat
        BY FS_EmptySet, LlmAssumption DEF LlmAssumption
  <2>5. Cardinality(Paid(requests, turns)) + Cardinality(Owing(turns)) <= used
    <3>1. Cardinality(Paid(requests, turns)) = 0 /\ Cardinality(Owing(turns)) = 0
          BY <2>3, <2>4
    <3> QED BY <2>1, <3>1
  <2>6. Named(requests, turns)
        BY <2>1 DEF Named
  <2> QED BY <2>1, <2>2, <2>4, <2>5, <2>6 DEF LlmInv
<1>2. LlmInv => OneAttemptPerReply
  <2> SUFFICES ASSUME LlmInv, NEW i \in DOMAIN conversation, conversation[i].role = "assistant"
               PROVE  \A j, k \in DOMAIN conversation[i].text : conversation[i].text[j] = conversation[i].text[k]
      BY DEF OneAttemptPerReply
  <2>1. conversation[i] \in WholeMessage
        BY DEF LlmInv
  <2>2. conversation[i] \in Reply
        BY <2>1 DEF WholeMessage
  <2> QED BY <2>2 DEF Reply
<1>3. LlmInv => CallsArePaid
  <2> SUFFICES ASSUME LlmInv PROVE CallsArePaid
      OBVIOUS
  <2> DEFINE streams == {t \in Turns : turns[t].pc # "unsent" /\ turns[t].streaming}
             paid == Paid(requests, turns)
             rest == requests \ paid
  <2>1. MaxRetries \in Nat /\ CallBudget \in Nat /\ used \in 0..CallBudget
        BY LlmAssumption DEF LlmInv, LlmAssumption
  <2>2. IsFiniteSet(streams) /\ IsFiniteSet(rest) /\ IsFiniteSet(paid)
    <3>1. streams \in SUBSET Turns /\ rest \in SUBSET requests
          OBVIOUS
    <3> QED BY <3>1, LlmCounts, FS_Subset DEF LlmInv
  <2>3. rest \subseteq streams \X (1..MaxRetries)
    <3>1. ASSUME NEW q \in rest PROVE q \in streams \X (1..MaxRetries)
      <4>1. q \in Turns \X (0..MaxRetries) /\ turns[q[1]] \in Sent
            BY DEF LlmInv, Named
      <4>2. turns[q[1]].streaming /\ q[2] > 0
            BY DEF Paid
      <4>3. turns[q[1]].pc # "unsent"
            BY <4>1 DEF Sent
      <4> QED BY <2>1, <4>1, <4>2, <4>3
    <3> QED BY <3>1
  <2>4. /\ IsFiniteSet(streams \X (1..MaxRetries))
        /\ Cardinality(streams \X (1..MaxRetries)) = MaxRetries * Cardinality(streams)
    <3>1. IsFiniteSet(1..MaxRetries) /\ Cardinality(1..MaxRetries) = MaxRetries
          BY <2>1, FS_Interval
    <3>2. /\ IsFiniteSet(streams \X (1..MaxRetries))
          /\ Cardinality(streams \X (1..MaxRetries)) = Cardinality(streams) * Cardinality(1..MaxRetries)
          BY <2>2, <3>1, FS_Product
    <3>3. Cardinality(streams) \in Nat
          BY <2>2, FS_CardinalityType
    <3>4. Cardinality(streams) * MaxRetries = MaxRetries * Cardinality(streams)
          BY <2>1, <3>3
    <3> QED BY <3>1, <3>2, <3>4
  <2>5. Cardinality(rest) <= MaxRetries * Cardinality(streams)
        BY <2>3, <2>4, FS_Subset
  <2>6. Cardinality(requests) = Cardinality(rest) + Cardinality(paid)
    <3>1. paid \subseteq requests
          BY DEF Paid
    <3>2. requests = rest \cup paid /\ rest \cap paid = {}
          BY <3>1
    <3>3. Cardinality(rest \cup paid) = Cardinality(rest) + Cardinality(paid) - Cardinality(rest \cap paid)
          BY <2>2, FS_Union
    <3>4. Cardinality(rest) \in Nat /\ Cardinality(paid) \in Nat /\ Cardinality({}) = 0
          BY <2>2, FS_CardinalityType, FS_EmptySet
    <3>5. Cardinality(rest \cap paid) = 0
          BY <3>2, <3>4
    <3> HIDE DEF rest, paid
    <3>6. Cardinality(rest \cup paid) = Cardinality(rest) + Cardinality(paid)
          BY <3>3, <3>4, <3>5
    <3> QED BY <3>2, <3>6
  <2>7. Cardinality(paid) <= used
    <3>1. Cardinality(paid) \in Nat /\ Cardinality(Owing(turns)) \in Nat
          BY LlmCounts DEF LlmInv
    <3> QED BY <2>1, <3>1 DEF LlmInv
  <2>8. Cardinality(rest) \in Nat /\ Cardinality(paid) \in Nat /\ Cardinality(streams) \in Nat
        BY <2>2, FS_CardinalityType
  <2> HIDE DEF rest, paid
  <2>9. Cardinality(requests) <= CallBudget + MaxRetries * Cardinality(streams)
    <3> HIDE DEF streams
    <3>1. PICK bound : bound = MaxRetries * Cardinality(streams)
          OBVIOUS
    <3>2. bound \in Nat
          BY <2>1, <2>8, <3>1
    <3> QED BY <2>1, <2>5, <2>6, <2>7, <2>8, <3>1, <3>2
  <2> QED BY <2>9 DEF CallsArePaid
<1>4. LlmInv => ChatIsGoverned
      BY <1>2, <1>3 DEF ChatIsGoverned
<1> QED BY <1>1, <1>4, LlmInductive, PTL DEF LlmSpec

-----------------------------------------------------------------------------
(* Artifacts.  Time connects the writers with the collector: whoever holds *)
(* a fresh blob finds its file, what is judged is old, and a registered    *)
(* blob that the collector does not know is newer than its cutoff; always  *)
(* except for the blobs in stale.                                          *)

Times == 0..ArtifactHorizon
Client == [pc : {"writing", "staged", "register"}, blob : Blobs, time : Times]
Sweep == [pc : {"sweep"}, referenced : SUBSET Blobs, cutoff : Nat, seen : SUBSET Blobs]
Removal == [pc : {"unlink"}, referenced : SUBSET Blobs, cutoff : Nat, seen : SUBSET Blobs, blob : Blobs]

ArtifactTypes ==
    /\ artifactRows \subseteq Blobs /\ artifactClock \in Times
    /\ files \in [Blobs -> Times \cup {Absent}]
    /\ clients \in [ArtifactClients -> {AtRest} \cup Client]
    /\ collector \in {AtRest} \cup Sweep \cup Removal
    /\ collector.pc # "idle" => collector.cutoff + Grace <= artifactClock

\* c has staged b and may register it
Holds(c, b) == clients[c].pc \in {"staged", "register"} /\ clients[c].blob = b

TimesAgree == \A c \in ArtifactClients, b \in Blobs : Holds(c, b) /\ Present(b) => clients[c].time = files[b]

FreshIsThere ==
    \A c \in ArtifactClients, b \in Blobs \ stale : Holds(c, b) => Outlived(clients[c].time) \/ Present(b)

JudgedIsOld == \A b \in Blobs \ stale : Judged(b) => ~ Present(b) \/ files[b] <= collector.cutoff

RegisteredIsSafe ==
    \A b \in artifactRows \ stale :
       /\ Present(b) /\ ~ Judged(b)
       /\ collector.pc # "idle" => b \in collector.referenced \/ files[b] > collector.cutoff

ArtifactInv == ArtifactTypes /\ TimesAgree /\ FreshIsThere /\ JudgedIsOld /\ RegisteredIsSafe

LEMMA ArtifactNumbers == Grace \in Nat /\ ArtifactHorizon \in Nat /\ Absent \in Nat /\ \A t \in Times : t \in Nat /\ t # Absent
BY ArtifactAssumption DEF ArtifactAssumption, Times, Absent

(* A client in its states.                                                 *)
LEMMA ClientIs ==
    ASSUME ArtifactInv, NEW c \in ArtifactClients, clients[c].pc # "idle"
    PROVE  clients[c] \in Client
BY DEF ArtifactInv, ArtifactTypes, AtRest

LEMMA CollectorIs ==
    ASSUME ArtifactInv
    PROVE  /\ collector.pc = "sweep" => collector \in Sweep
           /\ collector.pc = "unlink" => collector \in Removal
BY DEF ArtifactInv, ArtifactTypes, AtRest, Sweep, Removal

(* A step of one client that touches neither files nor collector: it comes *)
(* to hold only what is there, or what it held.                            *)
LEMMA ClientMoves ==
    ASSUME ArtifactInv, NEW c \in ArtifactClients, NEW next \in {AtRest} \cup Client,
           clients' = [clients EXCEPT ![c] = next],
           UNCHANGED <<artifactRows, files, collector, artifactClock, stale>>,
           next.pc \in {"staged", "register"} =>
              \/ Holds(c, next.blob) /\ next.time = clients[c].time
              \/ Present(next.blob) /\ next.time = files[next.blob]
    PROVE  ArtifactInv'
<1>1. \A x \in ArtifactClients : clients'[x] = IF x = c THEN next ELSE clients[x]
      BY DEF ArtifactInv, ArtifactTypes
<1>2. ArtifactTypes'
      BY DEF ArtifactInv, ArtifactTypes
<1>3. \A b : Present(b)' = Present(b) /\ Judged(b)' = Judged(b)
      BY DEF Present, Judged
<1>4. TimesAgree' /\ FreshIsThere'
  <2>1. ASSUME NEW x \in ArtifactClients, NEW b \in Blobs, Holds(x, b)'
        PROVE  /\ Present(b) => clients'[x].time = files[b]
               /\ b \notin stale => Outlived(clients'[x].time) \/ Present(b)
    <3>1. CASE x = c
      <4>1. next.pc \in {"staged", "register"} /\ next.blob = b /\ clients'[x] = next
            BY <1>1, <2>1, <3>1 DEF Holds
      <4>2. CASE Holds(c, b) /\ next.time = clients[c].time
            BY <4>1, <4>2 DEF ArtifactInv, TimesAgree, FreshIsThere
      <4>3. CASE Present(b) /\ next.time = files[b]
            BY <4>1, <4>3
      <4> QED BY <4>1, <4>2, <4>3
    <3>2. CASE x # c
      <4>1. Holds(x, b) /\ clients'[x] = clients[x]
            BY <1>1, <2>1, <3>2 DEF Holds
      <4> QED BY <4>1 DEF ArtifactInv, TimesAgree, FreshIsThere
    <3> QED BY <3>1, <3>2
  <2> QED BY <1>3, <2>1 DEF TimesAgree, FreshIsThere, Outlived
<1>5. JudgedIsOld'
      BY <1>3 DEF ArtifactInv, JudgedIsOld
<1>6. RegisteredIsSafe'
      BY <1>3 DEF ArtifactInv, RegisteredIsSafe
<1> QED BY <1>2, <1>4, <1>5, <1>6 DEF ArtifactInv

(* A step of the collector that removes no file: it begins with what is    *)
(* registered, or it judges by its cutoff.                                 *)
LEMMA CollectorMoves ==
    ASSUME ArtifactInv, collector' \in {AtRest} \cup Sweep \cup Removal,
           UNCHANGED <<artifactRows, files, clients, artifactClock, stale>>,
           collector'.pc # "idle" =>
              /\ collector'.cutoff + Grace <= artifactClock
              /\ \/ artifactRows \subseteq collector'.referenced
                 \/ /\ collector.pc # "idle"
                    /\ collector'.referenced = collector.referenced /\ collector'.cutoff = collector.cutoff,
           collector'.pc = "unlink" =>
              Collectable(collector'.blob) /\ collector.pc = "sweep" /\ collector'.cutoff = collector.cutoff
    PROVE  ArtifactInv'
<1>1. ArtifactTypes'
      BY DEF ArtifactInv, ArtifactTypes
<1>2. \A b : Present(b)' = Present(b)
      BY DEF Present
<1>3. TimesAgree' /\ FreshIsThere'
      BY <1>2 DEF ArtifactInv, TimesAgree, FreshIsThere, Holds, Outlived
<1>4. ASSUME NEW b \in Blobs, Judged(b)' PROVE files[b] <= collector'.cutoff /\ b \notin artifactRows \ stale
  <2>1. collector'.pc = "unlink" /\ collector'.blob = b /\ Collectable(b) /\ collector.pc = "sweep"
        BY <1>4 DEF Judged
  <2>2. b \notin artifactRows \ stale
    <3> SUFFICES ASSUME b \in artifactRows \ stale PROVE FALSE
        OBVIOUS
    <3>1. b \in collector.referenced \/ files[b] > collector.cutoff
          BY <2>1 DEF ArtifactInv, RegisteredIsSafe
    <3>2. collector \in Sweep
          BY <2>1, CollectorIs
    <3>3. files[b] \in Nat /\ collector.cutoff \in Nat
          BY <3>2, ArtifactNumbers DEF Sweep, ArtifactInv, ArtifactTypes
    <3> QED BY <2>1, <3>1, <3>3 DEF Collectable
  <2>3. files[b] <= collector'.cutoff
        BY <2>1 DEF Collectable
  <2> QED BY <2>1, <2>2, <2>3
<1>5. JudgedIsOld'
      BY <1>2, <1>4 DEF JudgedIsOld
<1>6. RegisteredIsSafe'
  <2> SUFFICES ASSUME NEW b \in artifactRows \ stale
               PROVE  /\ Present(b) /\ ~ Judged(b)'
                      /\ collector'.pc # "idle" => b \in collector'.referenced \/ files[b] > collector'.cutoff
      BY <1>2 DEF RegisteredIsSafe
  <2>1. b \in Blobs
        BY DEF ArtifactInv, ArtifactTypes
  <2>2. Present(b) /\ ~ Judged(b)'
        BY <1>4, <2>1 DEF ArtifactInv, RegisteredIsSafe
  <2>3. collector'.pc # "idle" => b \in collector'.referenced \/ files[b] > collector'.cutoff
        BY DEF ArtifactInv, RegisteredIsSafe
  <2> QED BY <2>2, <2>3
<1> QED BY <1>1, <1>3, <1>5, <1>6 DEF ArtifactInv

(* Whatever step is taken, the invariant stays.                            *)
LEMMA ArtifactInductive == ArtifactInv /\ [ArtifactNext]_artifactVars => ArtifactInv'
<1> SUFFICES ASSUME ArtifactInv, [ArtifactNext]_artifactVars PROVE ArtifactInv'
    OBVIOUS
<1> USE ArtifactNumbers
<1>1. ASSUME NEW c \in ArtifactClients, Stage(c) PROVE ArtifactInv'
  <2>1. PICK b \in Blobs : clients' = [clients EXCEPT ![c] =
              [pc |-> IF Present(b) THEN "staged" ELSE "writing", blob |-> b,
               time |-> IF Present(b) THEN files[b] ELSE artifactClock]]
        BY <1>1 DEF Stage
  <2>2. PICK next : next = [pc |-> IF Present(b) THEN "staged" ELSE "writing", blob |-> b,
                            time |-> IF Present(b) THEN files[b] ELSE artifactClock]
        OBVIOUS
  <2>3. next \in Client
    <3>1. files[b] \in Times \cup {Absent} /\ artifactClock \in Times
          BY DEF ArtifactInv, ArtifactTypes
    <3> QED BY <2>2, <3>1 DEF Client, Present
  <2>4. next.pc \in {"staged", "register"} => Present(next.blob) /\ next.time = files[next.blob]
        BY <2>2
  <2>5. UNCHANGED <<artifactRows, files, collector, artifactClock, stale>>
        BY <1>1 DEF Stage
  <2>6. clients' = [clients EXCEPT ![c] = next]
        BY <2>1, <2>2
  <2> QED BY <2>3, <2>4, <2>5, <2>6, ClientMoves
<1>2. ASSUME NEW c \in ArtifactClients, ValidateStaged(c) PROVE ArtifactInv'
  <2>1. clients[c].pc = "staged" /\ UNCHANGED <<artifactRows, files, collector, artifactClock, stale>>
        BY <1>2 DEF ValidateStaged
  <2>2. clients[c] \in Client
        BY <2>1, ClientIs
  <2>3. PICK next : next = IF Present(clients[c].blob) THEN [clients[c] EXCEPT !.pc = "register"] ELSE AtRest
        OBVIOUS
  <2>4. clients' = [clients EXCEPT ![c] = next]
        BY <1>2, <2>3 DEF ValidateStaged
  <2>5. next \in {AtRest} \cup Client
        BY <2>2, <2>3 DEF Client
  <2>6. next.pc \in {"staged", "register"} => Holds(c, next.blob) /\ next.time = clients[c].time
        BY <2>1, <2>2, <2>3 DEF Client, AtRest, Holds
  <2> QED BY <2>1, <2>4, <2>5, <2>6, ClientMoves
<1>3. ASSUME NEW c \in ArtifactClients, clients' = [clients EXCEPT ![c] = AtRest],
             UNCHANGED <<artifactRows, files, collector, artifactClock, stale>>
      PROVE  ArtifactInv'
  <2>1. AtRest.pc \notin {"staged", "register"}
        BY DEF AtRest
  <2> QED BY <1>3, <2>1, ClientMoves
<1>4. ASSUME NEW c \in ArtifactClients, Abandon(c) PROVE ArtifactInv'
      BY <1>3, <1>4 DEF Abandon
<1>5. ASSUME CollectorReads PROVE ArtifactInv'
  <2>1. PICK next : next = [pc |-> "sweep", referenced |-> artifactRows, cutoff |-> Cutoff(artifactClock), seen |-> {}]
        OBVIOUS
  <2>2. collector' = next /\ artifactClock >= Grace
        BY <1>5, <2>1 DEF CollectorReads
  <2>3. artifactClock \in Nat /\ artifactRows \subseteq Blobs
        BY DEF ArtifactInv, ArtifactTypes
  <2>4. artifactClock - Grace \in Nat /\ artifactClock - Grace + Grace <= artifactClock
        BY <2>2, <2>3
  <2>5. next \in Sweep
        BY <2>1, <2>3, <2>4 DEF Sweep, Cutoff
  <2>6. next.cutoff + Grace <= artifactClock /\ artifactRows \subseteq next.referenced /\ next.pc = "sweep"
        BY <2>1, <2>4 DEF Cutoff
  <2>7. UNCHANGED <<artifactRows, files, clients, artifactClock, stale>>
        BY <1>5 DEF CollectorReads
  <2> QED BY <2>2, <2>5, <2>6, <2>7, CollectorMoves
<1>6. ASSUME NEW b \in Blobs, Examine(b) PROVE ArtifactInv'
  <2>1. collector.pc = "sweep" /\ UNCHANGED <<artifactRows, files, clients, artifactClock, stale>>
        BY <1>6 DEF Examine
  <2>2. collector \in Sweep /\ collector.cutoff + Grace <= artifactClock
        BY <2>1, CollectorIs DEF ArtifactInv, ArtifactTypes
  <2>3. CASE Collectable(b)
    <3>1. PICK next : next = [pc |-> "unlink", referenced |-> collector.referenced,
                              cutoff |-> collector.cutoff, seen |-> collector.seen, blob |-> b]
          OBVIOUS
    <3>2. collector' = next
          BY <1>6, <2>3, <3>1 DEF Examine
    <3>3. next \in Removal
          BY <2>2, <3>1 DEF Sweep, Removal
    <3>4. next.referenced = collector.referenced /\ next.cutoff = collector.cutoff /\ next.blob = b
          BY <3>1
    <3> QED BY <2>1, <2>2, <2>3, <3>2, <3>3, <3>4, CollectorMoves
  <2>4. CASE ~ Collectable(b)
    <3>1. PICK next : next = [collector EXCEPT !.seen = @ \cup {b}]
          OBVIOUS
    <3>2. collector' = next
          BY <1>6, <2>4, <3>1 DEF Examine
    <3>3. /\ next \in Sweep /\ next.pc = "sweep"
          /\ next.referenced = collector.referenced /\ next.cutoff = collector.cutoff
          BY <2>2, <3>1 DEF Sweep
    <3> QED BY <2>1, <2>2, <3>2, <3>3, CollectorMoves
  <2> QED BY <2>3, <2>4
<1>7. ASSUME CollectorEnds PROVE ArtifactInv'
      BY <1>7, CollectorMoves DEF CollectorEnds, AtRest
<1>8. ASSUME UnlinkTemporary PROVE ArtifactInv'
  <2>1. CASE UNCHANGED clients
        BY <1>8, <2>1 DEF UnlinkTemporary, ArtifactInv, ArtifactTypes, TimesAgree, FreshIsThere, JudgedIsOld,
                          RegisteredIsSafe, Holds, Present, Judged, Outlived
  <2>2. ASSUME NEW c \in ArtifactClients, clients' = [clients EXCEPT ![c] = AtRest] PROVE ArtifactInv'
        BY <1>3, <1>8, <2>2 DEF UnlinkTemporary
  <2> QED BY <1>8, <2>1, <2>2 DEF UnlinkTemporary
<1>9. ASSUME ArtifactCrash PROVE ArtifactInv'
  <2>1. /\ UNCHANGED <<artifactRows, files, artifactClock, stale>>
        /\ collector' = AtRest /\ clients' = [c \in ArtifactClients |-> AtRest]
        BY <1>9 DEF ArtifactCrash
  <2>2. \A c \in ArtifactClients, b \in Blobs : ~ Holds(c, b)'
        BY <2>1 DEF Holds, AtRest
  <2>3. collector'.pc = "idle" /\ \A b : ~ Judged(b)' /\ Present(b)' = Present(b)
        BY <2>1 DEF Judged, AtRest, Present
  <2>4. ArtifactTypes'
        BY <2>1, <2>3 DEF ArtifactInv, ArtifactTypes
  <2>5. RegisteredIsSafe'
        BY <2>1, <2>3 DEF ArtifactInv, RegisteredIsSafe
  <2> QED BY <2>2, <2>3, <2>4, <2>5 DEF ArtifactInv, TimesAgree, FreshIsThere, JudgedIsOld
<1>10. ASSUME ArtifactTick PROVE ArtifactInv'
  <2>1. /\ artifactClock' = artifactClock + 1 /\ artifactClock' \in Times /\ artifactClock \in Nat
        /\ UNCHANGED <<artifactRows, files, clients, collector, stale>>
        BY <1>10 DEF ArtifactTick, ArtifactInv, ArtifactTypes, Times
  <2>2. \A b : Present(b)' = Present(b) /\ Judged(b)' = Judged(b)
        BY <2>1 DEF Present, Judged
  <2>3. ASSUME NEW time \in Nat, Outlived(time) PROVE Outlived(time)'
        BY <2>1, <2>3 DEF Outlived
  <2>4. ArtifactTypes'
    <3>1. collector'.pc # "idle" => collector'.cutoff + Grace <= artifactClock'
      <4> SUFFICES ASSUME collector.pc # "idle" PROVE collector.cutoff + Grace <= artifactClock'
          BY <2>1
      <4>1. collector.cutoff \in Nat /\ collector.cutoff + Grace <= artifactClock
            BY DEF ArtifactInv, ArtifactTypes, AtRest, Sweep, Removal
      <4> QED BY <2>1, <4>1
    <3> QED BY <2>1, <3>1 DEF ArtifactInv, ArtifactTypes
  <2>5. FreshIsThere'
    <3> SUFFICES ASSUME NEW c \in ArtifactClients, NEW b \in Blobs \ stale, Holds(c, b)
                 PROVE  Outlived(clients[c].time)' \/ Present(b)
        BY <2>1, <2>2 DEF FreshIsThere, Holds
    <3>1. clients[c].time \in Nat
          BY ClientIs DEF Holds, Client
    <3>2. Outlived(clients[c].time) \/ Present(b)
          BY DEF ArtifactInv, FreshIsThere
    <3>3. ASSUME Outlived(clients[c].time) PROVE clients[c].time + Grace <= artifactClock'
          BY <2>1, <3>1, <3>3 DEF Outlived
    <3> QED BY <2>1, <3>2, <3>3 DEF Outlived
  <2> QED BY <2>1, <2>2, <2>4, <2>5 DEF ArtifactInv, TimesAgree, JudgedIsOld, RegisteredIsSafe, Holds
<1>11. ASSUME NEW c \in ArtifactClients, Register(c) PROVE ArtifactInv'
  <2>1. PICK b, time : b = clients[c].blob /\ time = clients[c].time
        OBVIOUS
  <2>2. /\ clients[c].pc = "register" /\ artifactRows' = artifactRows \cup {b}
        /\ stale' = IF b \notin artifactRows /\ Outlived(time) THEN stale \cup {b} ELSE stale
        /\ clients' = [clients EXCEPT ![c] = AtRest]
        /\ UNCHANGED <<files, collector, artifactClock>>
        BY <1>11, <2>1 DEF Register
  <2>3. clients[c] \in Client /\ b \in Blobs /\ time \in Nat /\ artifactClock \in Nat
        BY <2>1, <2>2, ClientIs DEF Client, ArtifactInv, ArtifactTypes
  <2>4. \A x \in ArtifactClients : clients'[x] = IF x = c THEN AtRest ELSE clients[x]
        BY <2>2 DEF ArtifactInv, ArtifactTypes
  <2>5. ArtifactTypes'
        BY <2>2, <2>3 DEF ArtifactInv, ArtifactTypes
  <2>6. \A x : Present(x)' = Present(x) /\ Judged(x)' = Judged(x)
        BY <2>2 DEF Present, Judged
  <2>7. \A x \in ArtifactClients, e \in Blobs : Holds(x, e)' => Holds(x, e) /\ clients'[x] = clients[x]
        BY <2>4 DEF Holds, AtRest
  <2>8. TimesAgree' /\ FreshIsThere' /\ JudgedIsOld'
    <3>1. stale \subseteq stale'
          BY <2>2
    <3> QED BY <2>2, <2>6, <2>7, <3>1 DEF ArtifactInv, TimesAgree, FreshIsThere, JudgedIsOld, Outlived
  <2>9. ASSUME b \notin stale', b \notin artifactRows
        PROVE  /\ Present(b) /\ ~ Judged(b)
               /\ collector.pc # "idle" => files[b] > collector.cutoff
    <3>1. b \notin stale /\ ~ Outlived(time)
          BY <2>2, <2>9
    <3>2. Holds(c, b)
          BY <2>1, <2>2 DEF Holds
    <3>3. Present(b) /\ files[b] = time
          BY <2>1, <2>3, <3>1, <3>2 DEF ArtifactInv, TimesAgree, FreshIsThere
    <3>4. ASSUME collector.pc # "idle" PROVE files[b] > collector.cutoff
      <4>1. collector.cutoff \in Nat /\ collector.cutoff + Grace <= artifactClock
            BY <3>4 DEF ArtifactInv, ArtifactTypes, AtRest, Sweep, Removal
      <4> QED BY <2>3, <3>1, <3>3, <4>1 DEF Outlived
    <3>5. ~ Judged(b)
      <4> SUFFICES ASSUME Judged(b) PROVE FALSE
          OBVIOUS
      <4>1. collector.pc # "idle" /\ collector \in Removal
            BY CollectorIs DEF Judged
      <4>2. files[b] <= collector.cutoff /\ collector.cutoff \in Nat /\ files[b] \in Nat
            BY <2>3, <3>1, <3>3, <4>1 DEF ArtifactInv, JudgedIsOld, Removal
      <4> QED BY <3>4, <4>1, <4>2
    <3> QED BY <3>3, <3>4, <3>5
  <2>10. RegisteredIsSafe'
    <3>1. stale \subseteq stale'
          BY <2>2
    <3>2. ASSUME NEW e \in artifactRows' \ stale'
          PROVE  e \in artifactRows \ stale \/ (e = b /\ b \notin artifactRows)
      <4>1. e \notin stale /\ (e \in artifactRows \/ e = b)
            BY <2>2, <3>1, <3>2
      <4> QED BY <4>1
    <3>3. ASSUME NEW e \in artifactRows' \ stale'
          PROVE  /\ Present(e) /\ ~ Judged(e)
                 /\ collector.pc # "idle" => e \in collector.referenced \/ files[e] > collector.cutoff
      <4>1. CASE e \in artifactRows \ stale
            BY <4>1 DEF ArtifactInv, RegisteredIsSafe
      <4>2. CASE e = b /\ b \notin artifactRows
            BY <2>9, <4>2
      <4> QED BY <3>2, <4>1, <4>2
    <3>4. UNCHANGED <<files, collector>>
          BY <2>2
    <3> QED BY <2>6, <3>3, <3>4 DEF RegisteredIsSafe
  <2> QED BY <2>5, <2>8, <2>10 DEF ArtifactInv
<1>12. ASSUME NEW c \in ArtifactClients, Replace(c) PROVE ArtifactInv'
  <2>1. PICK b, time : b = clients[c].blob /\ time = clients[c].time
        OBVIOUS
  <2>2. /\ clients[c].pc = "writing" /\ files' = [files EXCEPT ![b] = time]
        /\ stale' = IF Outlived(time) \/ Judged(b) THEN stale \cup {b} ELSE stale
        /\ UNCHANGED <<artifactRows, collector, artifactClock>>
        BY <1>12, <2>1 DEF Replace
  <2>3. clients[c] \in Client /\ b \in Blobs /\ time \in Times /\ artifactClock \in Nat
        BY <2>1, <2>2, ClientIs DEF Client, ArtifactInv, ArtifactTypes
  <2>4. clients' = [x \in ArtifactClients |->
              IF x = c THEN [clients[c] EXCEPT !.pc = "staged"]
              ELSE IF clients[x].pc \in {"staged", "register"} /\ clients[x].blob = b
                   THEN [clients[x] EXCEPT !.time = time] ELSE clients[x]]
        BY <1>12, <2>1 DEF Replace
  <2>5. ASSUME NEW x \in ArtifactClients
        PROVE  /\ clients'[x] \in {AtRest} \cup Client
               /\ Holds(x, b)' => clients'[x].time = time
               /\ \A e \in Blobs \ {b} : Holds(x, e)' => Holds(x, e) /\ clients'[x].time = clients[x].time
    <3>1. CASE x = c
      <4>1. clients'[x] = [clients[c] EXCEPT !.pc = "staged"]
            BY <2>4, <3>1
      <4> QED BY <2>1, <2>3, <4>1 DEF Client, Holds
    <3>2. CASE x # c /\ clients[x].pc \in {"staged", "register"} /\ clients[x].blob = b
      <4>1. clients'[x] = [clients[x] EXCEPT !.time = time]
            BY <2>4, <3>2
      <4>2. clients[x] \in Client
            BY <3>2, ClientIs
      <4> QED BY <2>3, <3>2, <4>1, <4>2 DEF Client, Holds
    <3>3. CASE x # c /\ ~ (clients[x].pc \in {"staged", "register"} /\ clients[x].blob = b)
      <4>1. clients'[x] = clients[x]
            BY <2>4, <3>3
      <4> QED BY <3>3, <4>1 DEF ArtifactInv, ArtifactTypes, Holds
    <3> QED BY <3>1, <3>2, <3>3
  <2>6. ArtifactTypes'
    <3>1. clients' \in [ArtifactClients -> {AtRest} \cup Client]
          BY <2>4, <2>5
    <3>2. files' \in [Blobs -> Times \cup {Absent}]
          BY <2>2, <2>3 DEF ArtifactInv, ArtifactTypes
    <3> QED BY <2>2, <3>1, <3>2 DEF ArtifactInv, ArtifactTypes
  <2>7. /\ files'[b] = time /\ Present(b)'
        /\ \A e \in Blobs \ {b} : files'[e] = files[e] /\ Present(e)' = Present(e)
        /\ \A e : Judged(e)' = Judged(e)
        BY <2>2, <2>3 DEF ArtifactInv, ArtifactTypes, Present, Judged
  <2>8. TimesAgree'
        BY <2>5, <2>7 DEF ArtifactInv, TimesAgree
  <2>9. stale \subseteq stale' /\ (b \notin stale' => ~ Outlived(time) /\ ~ Judged(b))
        BY <2>2
  <2>10. FreshIsThere'
        BY <2>2, <2>5, <2>7, <2>9 DEF ArtifactInv, FreshIsThere, Outlived
  <2>11. JudgedIsOld'
        BY <2>2, <2>7, <2>9 DEF ArtifactInv, JudgedIsOld
  <2>12. ASSUME b \notin stale', collector.pc # "idle" PROVE time > collector.cutoff
    <3>1. collector.cutoff \in Nat /\ collector.cutoff + Grace <= artifactClock
          BY <2>12 DEF ArtifactInv, ArtifactTypes, AtRest, Sweep, Removal
    <3>2. time \in Nat /\ ~ Outlived(time)
          BY <2>3, <2>9, <2>12
    <3> QED BY <2>3, <3>1, <3>2 DEF Outlived
  <2>13. RegisteredIsSafe'
    <3>1. ASSUME NEW e \in artifactRows' \ stale'
          PROVE  /\ Present(e)' /\ ~ Judged(e)'
                 /\ collector'.pc # "idle" => e \in collector'.referenced \/ files'[e] > collector'.cutoff
      <4>1. CASE e = b
            BY <2>2, <2>7, <2>9, <2>12, <4>1
      <4>2. CASE e # b
            BY <2>2, <2>7, <2>9, <3>1, <4>2 DEF ArtifactInv, ArtifactTypes, RegisteredIsSafe
      <4> QED BY <4>1, <4>2
    <3> QED BY <3>1 DEF RegisteredIsSafe
  <2> QED BY <2>6, <2>8, <2>10, <2>11, <2>13 DEF ArtifactInv
<1>13. ASSUME Unlink PROVE ArtifactInv'
  <2>1. PICK b : b = collector.blob
        OBVIOUS
  <2>2. PICK next : next = [pc |-> "sweep", referenced |-> collector.referenced,
                            cutoff |-> collector.cutoff, seen |-> collector.seen \cup {b}]
        OBVIOUS
  <2>3. /\ collector.pc = "unlink" /\ files' = [files EXCEPT ![b] = Absent] /\ collector' = next
        /\ UNCHANGED <<artifactRows, clients, artifactClock, stale>>
        BY <1>13, <2>1, <2>2 DEF Unlink
  <2>4. collector \in Removal /\ b \in Blobs /\ Judged(b)
        BY <2>1, <2>3, CollectorIs DEF Removal, Judged
  <2>5. /\ next \in Sweep /\ next.pc = "sweep"
        /\ next.referenced = collector.referenced /\ next.cutoff = collector.cutoff
        BY <2>2, <2>4 DEF Removal, Sweep
  <2>6. collector.cutoff + Grace <= artifactClock /\ collector.cutoff \in Nat /\ artifactClock \in Nat
        BY <2>3, <2>4 DEF ArtifactInv, ArtifactTypes, Removal
  <2>7. /\ ~ Present(b)'
        /\ \A e \in Blobs \ {b} : files'[e] = files[e] /\ Present(e)' = Present(e)
        /\ \A e : ~ Judged(e)'
        BY <2>3, <2>4, <2>5 DEF ArtifactInv, ArtifactTypes, Present, Judged
  <2>8. ArtifactTypes'
    <3>1. files' \in [Blobs -> Times \cup {Absent}]
          BY <2>3, <2>4 DEF ArtifactInv, ArtifactTypes
    <3> QED BY <2>3, <2>5, <2>6, <3>1 DEF ArtifactInv, ArtifactTypes
  <2>9. TimesAgree'
        BY <2>3, <2>7 DEF ArtifactInv, TimesAgree, Holds
  <2>10. ASSUME NEW c \in ArtifactClients, Holds(c, b), b \notin stale PROVE Outlived(clients[c].time)
    <3>1. CASE ~ Present(b)
          BY <2>4, <2>10, <3>1 DEF ArtifactInv, FreshIsThere
    <3>2. CASE Present(b)
      <4>1. clients[c].time = files[b] /\ files[b] <= collector.cutoff /\ files[b] \in Nat
            BY <2>4, <2>10, <3>2 DEF ArtifactInv, ArtifactTypes, TimesAgree, JudgedIsOld, Present
      <4> QED BY <2>6, <4>1 DEF Outlived
    <3> QED BY <3>1, <3>2
  <2>11. FreshIsThere'
        BY <2>3, <2>7, <2>10 DEF ArtifactInv, FreshIsThere, Holds, Outlived
  <2>12. JudgedIsOld'
        BY <2>7 DEF JudgedIsOld
  <2>13. RegisteredIsSafe'
    <3>1. ASSUME NEW e \in artifactRows \ stale
          PROVE  /\ Present(e)' /\ ~ Judged(e)'
                 /\ collector'.pc # "idle" => e \in collector'.referenced \/ files'[e] > collector'.cutoff
      <4>1. e # b /\ e \in Blobs
            BY <2>4 DEF ArtifactInv, ArtifactTypes, RegisteredIsSafe
      <4> QED BY <2>3, <2>5, <2>7, <4>1 DEF ArtifactInv, RegisteredIsSafe
    <3> QED BY <2>3, <3>1 DEF RegisteredIsSafe
  <2> QED BY <2>8, <2>9, <2>11, <2>12, <2>13 DEF ArtifactInv
<1>14. CASE UNCHANGED artifactVars
      BY <1>14 DEF artifactVars, ArtifactInv, ArtifactTypes, TimesAgree, FreshIsThere, JudgedIsOld,
                   RegisteredIsSafe, Holds, Present, Judged, Outlived
<1> QED BY <1>1, <1>2, <1>4, <1>5, <1>6, <1>7, <1>8, <1>9, <1>10, <1>11, <1>12, <1>13, <1>14 DEF ArtifactNext

(* However writers, transactions, collections and crashes interleave: a    *)
(* registered blob has its file, unless it was put there or used too late, *)
(* or replaced under a collector that had judged it (artifacts.py).        *)
THEOREM RegisteredStaysPresent == ArtifactSpec => []RegisteredIsPresent
<1>1. ArtifactInit => ArtifactInv
      BY ArtifactNumbers DEF ArtifactInit, ArtifactInv, ArtifactTypes, TimesAgree, FreshIsThere, JudgedIsOld,
                             RegisteredIsSafe, Holds, Judged, AtRest, Times
<1>2. ArtifactInv => RegisteredIsPresent
      BY DEF ArtifactInv, RegisteredIsSafe, RegisteredIsPresent
<1> QED BY <1>1, <1>2, ArtifactInductive, PTL DEF ArtifactSpec

-----------------------------------------------------------------------------
(* The factor loop.  A call works on the row that is stored; as long as    *)
(* nothing has disturbed the loop (no cause of a review has been met), the *)
(* row agrees with the facts, and a pointer of the same iteration agrees   *)
(* with the row, or is about to.                                           *)

Loops == Operations \cup {"commit", "iterate"}
InHand == {"create", "heal", "act", "publish", "announce"}

LoopRow ==
    [it : Nat, status : Statuses, failures : Nat, soon : BOOLEAN,
     digest : Nat \X Statuses \X Nat \X BOOLEAN, facts : (SUBSET Universe) \X (SUBSET Universe)]

LoopCall(search) ==
    [pc : {"load"} \cup InHand, op : Loops, ok : BOOLEAN, tested : SUBSET Universe,
     accepted : SUBSET Universe, search : {search}, row : LoopRow \cup {NoRow}]

IsLoopCall(k) == \E search : k \in LoopCall(search)

LoopTypes ==
    /\ row \in LoopRow \cup {NoRow}
    /\ candidates \subseteq Universe /\ factors \subseteq Universe
    /\ call = NoCall \/ IsLoopCall(call)
    /\ call.pc \in InHand => call.row = row /\ row # NoRow

\* NobodyIsAhead, of numbers
Behind ==
    /\ Readable(pointer) => pointer.it \in Nat /\ pointer.it <= row.it
    /\ \A p \in late : p.it \in Nat /\ p.it <= row.it
    /\ \A h \in heard : h[2] \in Nat /\ h[2] <= row.it

Undisturbed ==
    causes = {} =>
        /\ late = {}
        /\ pointer # Corrupt
        /\ row = NoRow => ~Readable(pointer)
        /\ row # NoRow => row.facts = FactsDigest
        /\ Readable(pointer) /\ pointer.it = row.it =>
              \/ pointer.digest = row.digest /\ pointer.facts = row.facts
              \/ call.pc = "publish" /\ call.op \in Steering

LoopIInv == LoopTypes /\ Behind /\ ReviewIsJustified /\ Undisturbed

LEMMA LoopInit == Init => LoopIInv
BY DEF Init, LoopIInv, LoopTypes, Behind, ReviewIsJustified, Undisturbed, Readable, NoRow, NoCall,
       Missing, Corrupt, InHand

(* What a stored row and a call in progress are.                           *)
LEMMA LoopForms ==
    ASSUME LoopTypes
    PROVE  /\ row.it \in Nat
           /\ row # NoRow => row \in LoopRow
           /\ row = NoRow <=> row.status = "NONE"
           /\ call # NoCall <=> call.pc # "idle"
BY DEF LoopTypes, LoopRow, NoRow, Statuses, NoCall, LoopCall, IsLoopCall, InHand

(* A row that is written by a step.                                        *)
Written(r, it, status, failures, soon, facts) == r = Checkpoint(it, status, failures, soon, facts)
Reads(r, it, status, failures, facts) ==
    r \in LoopRow /\ r.it = it /\ r.status = status /\ r.failures = failures /\ r.facts = facts

LEMMA CheckpointForm ==
    ASSUME NEW it \in Nat, NEW status \in Statuses, NEW failures \in Nat, NEW soon \in BOOLEAN,
           NEW facts \in (SUBSET Universe) \X (SUBSET Universe),
           NEW r, Written(r, it, status, failures, soon, facts)
    PROVE  Reads(r, it, status, failures, facts)
BY DEF Checkpoint, LoopRow, StateDigest, Written, Reads

(* A step that changes neither tables nor files; the call may go on.       *)
LEMMA LoopStill ==
    ASSUME LoopIInv, UNCHANGED <<row, candidates, factors, pointer, late, causes>>,
           heard' \subseteq heard,
           call' = NoCall \/ IsLoopCall(call'),
           call'.pc \in InHand => call'.row = row /\ row # NoRow,
           call.pc = "publish" =>
              \/ causes # {}
              \/ call'.pc = "publish" /\ call'.op = call.op
              \/ ~(call.op \in Steering /\ Readable(pointer) /\ pointer.it = row.it)
    PROVE  LoopIInv'
<1>1. LoopTypes'
      BY DEF LoopIInv, LoopTypes
<1>2. Behind'
      BY DEF LoopIInv, Behind, Readable
<1>3. ReviewIsJustified'
      BY DEF LoopIInv, ReviewIsJustified
<1>4. Undisturbed'
      BY DEF LoopIInv, Undisturbed, Readable, FactsDigest
<1> QED BY <1>1, <1>2, <1>3, <1>4 DEF LoopIInv

(* A step that stores a row, and has it in hand.                           *)
LEMMA LoopStores ==
    ASSUME LoopIInv, UNCHANGED <<pointer, late, heard, causes>>, row' \in LoopRow,
           candidates' \subseteq Universe, factors' \subseteq Universe,
           IsLoopCall(call'), call'.row = row',
           row'.it >= row.it,
           row'.status = "REQUIRES_REVIEW" => row'.failures >= MaxFailures \/ causes # {},
           causes = {} => row'.facts = FactsDigest',
           causes = {} /\ Readable(pointer) /\ row'.it = row.it =>
              \/ row'.digest = row.digest /\ row'.facts = row.facts /\ call.pc # "publish"
              \/ call'.pc = "publish" /\ call'.op \in Steering
    PROVE  LoopIInv'
<1>0. row.it \in Nat /\ row'.it \in Nat
      BY LoopForms DEF LoopIInv, LoopRow
<1>1. LoopTypes'
      BY DEF LoopTypes, LoopRow, NoRow
<1>2. Behind'
      BY <1>0 DEF LoopIInv, Behind, Readable
<1>3. ReviewIsJustified'
      BY DEF ReviewIsJustified
<1>4. Undisturbed'
  <2> SUFFICES ASSUME causes = {} PROVE Undisturbed'
      BY DEF Undisturbed
  <2>1. late' = {} /\ pointer' # Corrupt /\ row' # NoRow /\ row'.facts = FactsDigest'
        BY DEF LoopIInv, Undisturbed, LoopRow, NoRow
  <2>2. ASSUME Readable(pointer), pointer.it = row'.it
        PROVE  \/ pointer.digest = row'.digest /\ pointer.facts = row'.facts
               \/ call'.pc = "publish" /\ call'.op \in Steering
    <3>1. row'.it = row.it /\ pointer.it = row.it
          BY <1>0, <2>2 DEF LoopIInv, Behind
    <3> QED BY <2>2, <3>1 DEF LoopIInv, Undisturbed
  <2> QED BY <2>1, <2>2 DEF Undisturbed, Readable
<1> QED BY <1>1, <1>2, <1>3, <1>4 DEF LoopIInv
-----------------------------------------------------------------------------
(* The steps of the loop.                                                  *)

LEMMA CalledForm ==
    ASSUME NEW op \in Loops, NEW ok \in BOOLEAN, NEW tested \in SUBSET Universe,
           NEW passing \in SUBSET Universe, NEW search
    PROVE  Called(op, ok, tested, passing, search) \in LoopCall(search)
           /\ Called(op, ok, tested, passing, search).pc = "load"
BY DEF Called, LoopCall, NoRow

LEMMA QuietSteps ==
    ASSUME LoopIInv, StartProcess \/ Exit \/ NothingToDo
    PROVE  LoopIInv'
<1>1. UNCHANGED <<row, candidates, factors, pointer, late, causes>>
      BY DEF StartProcess, Exit, NothingToDo
<1>2. heard' \subseteq heard
      BY DEF StartProcess, Exit, NothingToDo, MemoryIsLost
<1>3. call' = call \/ (call.pc = "act" /\ call' = NoCall)
      BY DEF StartProcess, Exit, NothingToDo
<1> QED BY <1>1, <1>2, <1>3, LoopStill DEF LoopIInv, LoopTypes, NoCall, InHand

LEMMA OperateStep ==
    ASSUME LoopIInv, NEW op \in Loops, NEW ok \in BOOLEAN, Operate(op, ok)
    PROVE  LoopIInv'
<1>1. call' \in LoopCall(-1) /\ call'.pc = "load" /\ call = NoCall
      BY CalledForm DEF Operate
<1>2. UNCHANGED <<row, candidates, factors, pointer, late, causes, heard>>
      BY DEF Operate
<1> QED BY <1>1, <1>2, LoopStill DEF NoCall, InHand, IsLoopCall

(* What is tested and accepted comes from the batch.                       *)
LEMMA BacktestedForm ==
    ASSUME NEW m, NEW batch \in Seq(Universe), NEW known
    PROVE  Backtested(m, batch, known) \subseteq Universe
           /\ Backtested(m, batch, known) \cap known = {}
<1>1. ASSUME NEW t \in Backtested(m, batch, known)
      PROVE  t \in Universe /\ t \notin known
  <2>1. PICK i \in ReviewBatch(batch, known) : t = batch[i] /\ batch[i] \notin known
        BY <1>1 DEF Backtested
  <2>2. i \in DOMAIN batch
        BY DEF ReviewBatch
  <2> QED BY <2>1, <2>2
<1> QED BY <1>1

LEMMA RoundStep ==
    ASSUME LoopIInv, Round
    PROVE  LoopIInv'
<1>1. PICK batch \in Batches :
        \E passing \in SUBSET Backtested(memory[1], batch, TestedHashes) :
            call' = Called("commit", TRUE, Backtested(memory[1], batch, TestedHashes), passing,
                           memory'[1].search.rounds)
      BY DEF Round
<1>2. batch \in Seq(Universe)
      BY FactorLoopAssumption
<1> DEFINE tested == Backtested(memory[1], batch, TestedHashes)
           search == memory'[1].search.rounds
<1>3. tested \subseteq Universe
      BY <1>2, BacktestedForm
<1>4. PICK passing \in SUBSET tested : call' = Called("commit", TRUE, tested, passing, search)
      BY <1>1
<1>5. call' \in LoopCall(search) /\ call'.pc = "load"
  <2> HIDE DEF tested, search
  <2> QED BY <1>3, <1>4, CalledForm DEF Loops
<1>6. UNCHANGED <<row, candidates, factors, pointer, late, causes, heard>> /\ call = NoCall
      BY DEF Round
<1> HIDE DEF search
<1> QED BY <1>5, <1>6, LoopStill DEF NoCall, InHand, IsLoopCall

(* initialize() and reconcile() take the row in hand.                      *)
MovedTo(k, pc, r) == k = [call EXCEPT !.pc = pc, !.row = r]
Holding(k, pc, r) == IsLoopCall(k) /\ k.pc = pc /\ k.row = r /\ k.op = call.op

LEMMA LoopCallMoves ==
    ASSUME LoopTypes, call.pc # "idle", NEW pc \in {"load"} \cup InHand, NEW r \in LoopRow,
           NEW k, MovedTo(k, pc, r)
    PROVE  Holding(k, pc, r)
<1>1. PICK search : call \in LoopCall(search)
      BY LoopForms DEF LoopTypes, IsLoopCall
<1>2. k \in LoopCall(search) /\ k.pc = pc /\ k.row = r /\ k.op = call.op
      BY <1>1 DEF LoopCall, MovedTo
<1> QED BY <1>2 DEF Holding, IsLoopCall

LEMMA CallStays ==
    ASSUME LoopTypes, call.pc # "idle", NEW pc \in {"load"} \cup InHand,
           NEW k, k = [call EXCEPT !.pc = pc]
    PROVE  Holding(k, pc, call.row)
<1>1. PICK search : call \in LoopCall(search)
      BY LoopForms DEF LoopTypes, IsLoopCall
<1>2. k \in LoopCall(search) /\ k.pc = pc /\ k.row = call.row /\ k.op = call.op
      BY <1>1 DEF LoopCall
<1> QED BY <1>2 DEF Holding, IsLoopCall

LEMMA CreateStep ==
    ASSUME LoopIInv, Load, CreateRow
    PROVE  LoopIInv'
<1>1. row = NoRow /\ row.it = 0 /\ LoopTypes
      BY DEF CreateRow, NoRow, LoopIInv
<1>2. /\ row' \in LoopRow /\ row'.it = 0 /\ row'.status = "RUNNING" /\ row'.facts = FactsDigest
  <2>1. FactsDigest \in (SUBSET Universe) \X (SUBSET Universe)
        BY <1>1 DEF FactsDigest, LoopTypes
  <2>2. Written(row', 0, "RUNNING", 0, TRUE, FactsDigest)
        BY DEF CreateRow, Written
  <2>3. Reads(row', 0, "RUNNING", 0, FactsDigest)
        BY <2>1, <2>2, CheckpointForm DEF Statuses
  <2> QED BY <2>3 DEF Reads
<1>3. UNCHANGED <<candidates, factors, pointer, late, heard, causes>> /\ call.pc = "load"
      BY DEF Load
<1>4. IsLoopCall(call') /\ call'.row = row'
  <2>1. MovedTo(call', "create", row')
        BY DEF CreateRow, MovedTo
  <2>2. Holding(call', "create", row')
        BY <1>1, <1>2, <1>3, <2>1, LoopCallMoves DEF InHand
  <2> QED BY <2>2 DEF Holding
<1>5. causes = {} => ~Readable(pointer)
      BY <1>1 DEF LoopIInv, Undisturbed
<1> QED BY <1>1, <1>2, <1>3, <1>4, <1>5, LoopStores DEF LoopTypes, FactsDigest

(* A review that the load finds has a cause: undisturbed, the row has the  *)
(* facts, and the pointer of its iteration is its own.                     *)
LEMMA MarkStep ==
    ASSUME LoopIInv, Load, MarkReview
    PROVE  LoopIInv' /\ causes # {}
<1>1. LoopTypes /\ row \in LoopRow /\ call.pc = "load"
      BY LoopForms DEF LoopIInv, MarkReview, Load
<1>2. causes # {}
  <2> SUFFICES ASSUME causes = {} PROVE FALSE
      OBVIOUS
  <2>1. row.facts = FactsDigest /\ pointer # Corrupt
        BY DEF LoopIInv, Undisturbed, MarkReview
  <2>2. Readable(pointer) /\ PointerProblem(pointer, row)
        BY <2>1 DEF MarkReview
  <2>3. pointer.it = row.it
        BY <1>1, <2>2 DEF PointerProblem, LoopIInv, Behind, LoopRow
  <2> QED BY <1>1, <2>2, <2>3 DEF PointerProblem, LoopIInv, Undisturbed
<1>3. /\ row' \in LoopRow /\ row'.it = row.it
      BY <1>1 DEF MarkReview, LoopRow, Statuses
<1>4. IsLoopCall(call') /\ call'.row = row'
  <2>1. MovedTo(call', "act", row')
        BY DEF MarkReview, MovedTo
  <2>2. Holding(call', "act", row')
        BY <1>1, <1>3, <2>1, LoopCallMoves DEF InHand
  <2> QED BY <2>2 DEF Holding
<1>5. UNCHANGED <<candidates, factors, pointer, late, heard, causes>>
      BY DEF Load
<1> QED BY <1>1, <1>2, <1>3, <1>4, <1>5, LoopStores DEF LoopTypes, LoopRow

LEMMA TakeStep ==
    ASSUME LoopIInv, (Load /\ Consistent) \/ LoadForReconcile
    PROVE  LoopIInv'
<1>1. LoopTypes /\ row \in LoopRow /\ row # NoRow /\ call.pc = "load"
      BY LoopForms DEF LoopIInv, Load, Consistent, LoadForReconcile
<1>2. UNCHANGED <<row, candidates, factors, pointer, late, heard, causes>>
      BY DEF Load, Consistent, LoadForReconcile
<1>3. IsLoopCall(call') /\ call'.row = row
  <2>1. MovedTo(call', "heal", row) \/ MovedTo(call', "act", row)
        BY DEF Consistent, LoadForReconcile, MovedTo
  <2>2. Holding(call', "heal", row) \/ Holding(call', "act", row)
        BY <1>1, <2>1, LoopCallMoves DEF InHand
  <2> QED BY <2>2 DEF Holding
<1> QED BY <1>1, <1>2, <1>3, LoopStill

(* The pointer becomes that of the row in hand.                            *)
LEMMA PointerStep ==
    ASSUME LoopIInv, WritePointer
    PROVE  LoopIInv'
<1>1. LoopTypes /\ row \in LoopRow /\ row # NoRow /\ call.row = row /\ call.pc \in InHand
      BY LoopForms DEF LoopIInv, WritePointer, LoopTypes, InHand
<1>2. UNCHANGED <<row, candidates, factors, late, causes>>
      BY DEF WritePointer
<1>3. /\ pointer'.kind = "ok" /\ pointer'.it = row.it
      /\ pointer'.digest = row.digest /\ pointer'.facts = row.facts
      BY <1>1 DEF WritePointer, Payload
<1>4. IsLoopCall(call') /\ call'.row = row
  <2>1. Holding(call', "announce", row) \/ Holding(call', "act", row)
        BY <1>1, CallStays DEF WritePointer, InHand
  <2> QED BY <2>1 DEF Holding
<1>5. \A h \in heard' : h \in heard \/ h[2] = 0
      BY DEF WritePointer
<1>6. LoopTypes'
      BY <1>1, <1>2, <1>4 DEF LoopTypes
<1>7. Behind'
      BY <1>1, <1>2, <1>3, <1>5 DEF LoopIInv, Behind, LoopRow
<1>8. ReviewIsJustified'
      BY <1>2 DEF LoopIInv, ReviewIsJustified
<1>9. Undisturbed'
      BY <1>1, <1>2, <1>3 DEF LoopIInv, Undisturbed, FactsDigest, Corrupt
<1> QED BY <1>6, <1>7, <1>8, <1>9 DEF LoopIInv

-----------------------------------------------------------------------------
(* The transactions of the operations.                                     *)

(* A transaction holds the stored row, and the call goes on to publish it. *)
LEMMA Held ==
    ASSUME LoopIInv, call.pc = "act"
    PROVE  /\ LoopTypes /\ call.row = row /\ row # NoRow /\ row \in LoopRow
           /\ row.it \in Nat /\ row.failures \in Nat /\ row.soon \in BOOLEAN
           /\ call.op \in Loops /\ call.ok \in BOOLEAN
           /\ call.tested \subseteq Universe /\ call.accepted \subseteq Universe
<1>1. LoopTypes /\ call.row = row /\ row # NoRow /\ row \in LoopRow
      BY LoopForms DEF LoopIInv, LoopTypes, InHand
<1>2. PICK search : call \in LoopCall(search)
      BY LoopForms DEF LoopIInv, LoopTypes, IsLoopCall
<1> QED BY <1>1, <1>2 DEF LoopRow, LoopCall

LEMMA PublishForm ==
    ASSUME LoopIInv, call.pc = "act", MovedTo(call', "publish", row'), row' \in LoopRow
    PROVE  IsLoopCall(call') /\ call'.pc = "publish" /\ call'.row = row' /\ call'.op = call.op
<1>1. Holding(call', "publish", row')
      BY LoopCallMoves DEF LoopIInv, InHand
<1> QED BY <1>1 DEF Holding

(* commit_iteration(): facts and row in one transaction, the next number.  *)
LEMMA CommitIterationStep ==
    ASSUME LoopIInv, Act, CommitIteration
    PROVE  LoopIInv'
<1> DEFINE failures == IF call.ok THEN 0 ELSE call.row.failures + 1
           it == call.row.it + 1
           status == IF Exhausted(failures) THEN "REQUIRES_REVIEW"
                     ELSE IF it >= MaxIterations THEN "COMPLETED" ELSE "RUNNING"
           facts == <<candidates', factors'>>
<1>0. call.pc = "act" /\ UNCHANGED <<pointer, late, heard, causes>>
      BY DEF Act
<1>1. candidates' \subseteq Universe /\ factors' \subseteq Universe
      BY <1>0, Held DEF CommitIteration, LoopTypes
<1>2. it \in Nat /\ failures \in Nat /\ status \in Statuses /\ it = row.it + 1
      BY <1>0, Held DEF Statuses
<1>3. facts \in (SUBSET Universe) \X (SUBSET Universe)
      BY <1>1
<1>4. Written(row', it, status, failures, FALSE, facts) /\ MovedTo(call', "publish", row')
      BY DEF CommitIteration, Written, MovedTo
<1>5. status = "REQUIRES_REVIEW" => failures >= MaxFailures
      BY DEF Exhausted
<1> HIDE DEF failures, it, status
<1>6. Reads(row', it, status, failures, facts)
      BY <1>2, <1>3, <1>4, CheckpointForm
<1>7. IsLoopCall(call') /\ call'.row = row'
      BY <1>0, <1>4, <1>6, PublishForm DEF Reads
<1>8. row.it \in Nat
      BY <1>0, Held
<1> QED BY <1>0, <1>1, <1>2, <1>5, <1>6, <1>7, <1>8, LoopStores DEF Reads, FactsDigest

(* One row written by _commit(): a new number, or a steering operation.    *)
LEMMA CommitStep ==
    ASSUME LoopIInv, Act, NEW it \in Nat, NEW status \in Statuses, NEW failures \in Nat,
           NEW soon \in BOOLEAN, Commit(it, status, failures, soon),
           it >= row.it,
           it = row.it => call.op \in Steering,
           status = "REQUIRES_REVIEW" => failures >= MaxFailures
    PROVE  LoopIInv'
<1>0. call.pc = "act" /\ UNCHANGED <<pointer, late, heard, causes, candidates, factors>>
      BY DEF Act, Commit
<1>1. candidates \subseteq Universe /\ factors \subseteq Universe /\ call.row = row
      /\ row \in LoopRow /\ row # NoRow /\ row.it \in Nat
      BY <1>0, Held DEF LoopTypes
<1>2. row.facts \in (SUBSET Universe) \X (SUBSET Universe)
      BY <1>1 DEF LoopRow
<1>3. Written(row', it, status, failures, soon, row.facts) /\ MovedTo(call', "publish", row')
      BY <1>1 DEF Commit, Written, MovedTo
<1>4. Reads(row', it, status, failures, row.facts)
      BY <1>2, <1>3, CheckpointForm
<1>5. IsLoopCall(call') /\ call'.row = row' /\ call'.pc = "publish" /\ call'.op = call.op
      BY <1>0, <1>3, <1>4, PublishForm DEF Reads
<1>6. causes = {} => row.facts = FactsDigest
      BY <1>1 DEF LoopIInv, Undisturbed
<1> QED BY <1>0, <1>1, <1>4, <1>5, <1>6, LoopStores DEF Reads, FactsDigest

LEMMA IterateStep ==
    ASSUME LoopIInv, Act, Iterate
    PROVE  LoopIInv'
<1> DEFINE failures == IF call.ok THEN 0 ELSE call.row.failures + 1
           it == call.row.it + 1
           status == IF ~call.ok /\ Exhausted(failures) THEN "REQUIRES_REVIEW"
                     ELSE IF call.ok /\ it >= MaxIterations THEN "COMPLETED" ELSE "RUNNING"
<1>0. /\ row.it \in Nat /\ row.failures \in Nat /\ row.soon \in BOOLEAN /\ call.row = row
      /\ call.op \in Steering
      BY Held DEF Act, Iterate, Steering
<1>1. CASE Commit(call.row.it, "COMPLETED", call.row.failures, call.row.soon)
      BY <1>0, <1>1, CommitStep DEF Statuses
<1>2. CASE Commit(it, status, failures, FALSE)
  <2>1. it \in Nat /\ failures \in Nat /\ status \in Statuses /\ it >= row.it /\ it # row.it
        BY <1>0 DEF Statuses
  <2>2. status = "REQUIRES_REVIEW" => failures >= MaxFailures
        BY DEF Exhausted
  <2> HIDE DEF it, failures, status
  <2> QED BY <1>2, <2>1, <2>2, CommitStep
<1> QED BY <1>1, <1>2 DEF Iterate

LEMMA SteerStep ==
    ASSUME LoopIInv, Act, Pause \/ Resume \/ Terminate
    PROVE  LoopIInv'
<1>0. /\ row.it \in Nat /\ row.failures \in Nat /\ row.soon \in BOOLEAN /\ call.row = row
      /\ call.op \in Steering
      BY Held DEF Act, Pause, Resume, Terminate, Steering
<1>1. CASE Commit(call.row.it, "PAUSED", call.row.failures, call.row.soon)
      BY <1>0, <1>1, CommitStep DEF Statuses
<1>2. CASE Commit(call.row.it, "RUNNING", call.row.failures, TRUE)
  <2> DEFINE soon == TRUE
  <2>1. soon \in BOOLEAN /\ Commit(call.row.it, "RUNNING", call.row.failures, soon)
        BY <1>2
  <2> HIDE DEF soon
  <2> QED BY <1>0, <2>1, CommitStep DEF Statuses
<1>3. CASE Commit(call.row.it, "TERMINATED", call.row.failures, call.row.soon)
      BY <1>0, <1>3, CommitStep DEF Statuses
<1> QED BY <1>1, <1>2, <1>3 DEF Pause, Resume, Terminate

(* reconcile() takes the facts as they are; the number and the digest of   *)
(* the state stay.                                                         *)
LEMMA ReconcileStep ==
    ASSUME LoopIInv, Act, Reconcile
    PROVE  LoopIInv'
<1>0. call.pc = "act" /\ UNCHANGED <<pointer, late, heard, causes, candidates, factors>>
      BY DEF Act, Reconcile
<1>1. candidates \subseteq Universe /\ factors \subseteq Universe /\ call.row = row
      /\ row \in LoopRow /\ row # NoRow /\ row.it \in Nat
      BY <1>0, Held DEF LoopTypes
<1>2. /\ row' \in LoopRow /\ row'.it = row.it /\ row'.status = "RUNNING" /\ row'.digest = row.digest
      /\ row'.facts = FactsDigest
  <2>1. row' = [row EXCEPT !.status = "RUNNING", !.facts = FactsDigest]
        BY <1>1 DEF Reconcile
  <2>2. FactsDigest \in (SUBSET Universe) \X (SUBSET Universe) /\ "RUNNING" \in Statuses
        BY <1>1 DEF FactsDigest, Statuses
  <2> QED BY <1>1, <2>1, <2>2 DEF LoopRow
<1>3. MovedTo(call', "publish", row')
      BY DEF Reconcile, MovedTo
<1>4. IsLoopCall(call') /\ call'.row = row'
      BY <1>0, <1>2, <1>3, PublishForm
<1>5. causes = {} => row.facts = FactsDigest
      BY <1>1 DEF LoopIInv, Undisturbed
<1>6. FactsDigest' = FactsDigest
      BY <1>0 DEF FactsDigest
<1> QED BY <1>0, <1>1, <1>2, <1>4, <1>5, <1>6, LoopStores

LEMMA ActStep ==
    ASSUME LoopIInv, Act
    PROVE  LoopIInv'
BY CommitIterationStep, IterateStep, SteerStep, ReconcileStep DEF Act

-----------------------------------------------------------------------------
(* Hooks and faults.                                                       *)

LEMMA AnnounceStep ==
    ASSUME LoopIInv, Announce
    PROVE  LoopIInv'
<1>1. call.pc = "announce" /\ call.row = row /\ row.it \in Nat
      BY LoopForms DEF Announce, LoopIInv, LoopTypes, InHand
<1>2. UNCHANGED <<row, candidates, factors, pointer, late, causes>> /\ call' = NoCall
      BY DEF Announce
<1>3. \A h \in heard' : h[2] = row.it
      BY <1>1 DEF Announce, Announced
<1>4. LoopTypes'
      BY <1>2 DEF LoopIInv, LoopTypes, NoCall, InHand
<1>5. Behind'
      BY <1>1, <1>2, <1>3 DEF LoopIInv, Behind, Readable
<1>6. ReviewIsJustified'
      BY <1>2 DEF LoopIInv, ReviewIsJustified
<1>7. Undisturbed'
      BY <1>1, <1>2 DEF LoopIInv, Undisturbed, Readable, FactsDigest
<1> QED BY <1>4, <1>5, <1>6, <1>7 DEF LoopIInv

LEMMA CrashStep ==
    ASSUME LoopIInv, Crash
    PROVE  LoopIInv'
<1>1. /\ UNCHANGED <<row, candidates, factors, pointer>> /\ call' = NoCall /\ late' = {} /\ heard' = {}
      /\ causes \subseteq causes'
      /\ causes' = {} => ~(/\ call.pc = "publish" /\ call.op \in Steering
                           /\ Readable(pointer) /\ pointer.it = row.it)
      BY DEF Crash, MemoryIsLost
<1>2. LoopTypes'
      BY <1>1 DEF LoopIInv, LoopTypes, NoCall, InHand
<1>3. Behind'
      BY <1>1 DEF LoopIInv, Behind, Readable
<1>4. ReviewIsJustified'
      BY <1>1 DEF LoopIInv, ReviewIsJustified
<1>5. Undisturbed'
      BY <1>1 DEF LoopIInv, Undisturbed, Readable, FactsDigest
<1> QED BY <1>2, <1>3, <1>4, <1>5 DEF LoopIInv

(* A cancelled call may leave the write of its row behind.                 *)
LEMMA CancelStep ==
    ASSUME LoopIInv, Cancel
    PROVE  LoopIInv'
<1>1. UNCHANGED <<row, candidates, factors, pointer, heard>> /\ call' = NoCall /\ call.pc # "idle"
      BY DEF Cancel
<1>2. LoopTypes'
      BY <1>1 DEF LoopIInv, LoopTypes, NoCall, InHand
<1>3. CASE call.pc \in {"create", "heal", "publish"}
  <2>1. late' = late \cup {Payload(call.row, snapshot)} /\ causes' = causes \cup {"late"}
        BY <1>3 DEF Cancel
  <2>2. call.row = row /\ row.it \in Nat
        BY <1>3, LoopForms DEF LoopIInv, LoopTypes, InHand
  <2>3. Behind'
        BY <1>1, <2>1, <2>2 DEF LoopIInv, Behind, Readable, Payload
  <2>4. ReviewIsJustified' /\ Undisturbed'
        BY <2>1 DEF ReviewIsJustified, Undisturbed
  <2> QED BY <1>2, <2>3, <2>4 DEF LoopIInv
<1>4. CASE call.pc \notin {"create", "heal", "publish"}
  <2>1. UNCHANGED <<late, causes>>
        BY <1>4 DEF Cancel
  <2>2. Behind' /\ ReviewIsJustified'
        BY <1>1, <2>1 DEF LoopIInv, Behind, Readable, ReviewIsJustified
  <2>3. Undisturbed'
        BY <1>1, <1>4, <2>1 DEF LoopIInv, Undisturbed, Readable, FactsDigest
  <2> QED BY <1>2, <2>2, <2>3 DEF LoopIInv
<1> QED BY <1>3, <1>4

LEMMA LateStep ==
    ASSUME LoopIInv, LateWrite
    PROVE  LoopIInv'
<1>1. PICK p \in late : pointer' = p /\ late' = late \ {p}
      BY DEF LateWrite
<1>2. UNCHANGED <<row, candidates, factors, heard, call, causes>> /\ causes # {}
      BY <1>1 DEF LateWrite, LoopIInv, Undisturbed
<1>3. LoopTypes'
      BY <1>2 DEF LoopIInv, LoopTypes
<1>4. Behind'
      BY <1>1, <1>2 DEF LoopIInv, Behind, Readable
<1>5. ReviewIsJustified' /\ Undisturbed'
      BY <1>2 DEF ReviewIsJustified, Undisturbed
<1> QED BY <1>3, <1>4, <1>5 DEF LoopIInv

LEMMA DamageStep ==
    ASSUME LoopIInv, Damage
    PROVE  LoopIInv'
<1>1. /\ UNCHANGED <<row, factors, late, heard, call>> /\ causes' # {}
      /\ candidates' \subseteq candidates
      /\ pointer' = pointer \/ pointer' = Corrupt
      BY DEF Damage
<1>2. LoopTypes'
      BY <1>1 DEF LoopIInv, LoopTypes
<1>3. Behind'
      BY <1>1 DEF LoopIInv, Behind, Readable, Corrupt
<1>4. ReviewIsJustified' /\ Undisturbed'
      BY <1>1 DEF ReviewIsJustified, Undisturbed
<1> QED BY <1>2, <1>3, <1>4 DEF LoopIInv

LEMMA LoopStep == LoopIInv /\ [Next]_loopVars => LoopIInv'
<1> SUFFICES ASSUME LoopIInv, [Next]_loopVars PROVE LoopIInv'
    OBVIOUS
<1>1. CASE StartProcess \/ Exit \/ NothingToDo
      BY <1>1, QuietSteps
<1>2. CASE Round
      BY <1>2, RoundStep
<1>3. ASSUME NEW op \in Operations, Operate(op, TRUE)
      PROVE  LoopIInv'
  <2> DEFINE ok == TRUE
  <2>1. ok \in BOOLEAN /\ Operate(op, ok) /\ op \in Loops
        BY <1>3 DEF Loops
  <2> HIDE DEF ok
  <2> QED BY <2>1, OperateStep
<1>4. ASSUME NEW ok \in BOOLEAN, Operate("iterate", ok)
      PROVE  LoopIInv'
      BY <1>4, OperateStep DEF Loops
<1>5. CASE Load
      BY <1>5, CreateStep, MarkStep, TakeStep DEF Load
<1>6. CASE LoadForReconcile
      BY <1>6, TakeStep
<1>7. CASE WritePointer \/ Act \/ Announce
      BY <1>7, PointerStep, ActStep, AnnounceStep
<1>8. CASE Crash \/ Cancel \/ LateWrite \/ Damage
      BY <1>8, CrashStep, CancelStep, LateStep, DamageStep
<1>9. CASE UNCHANGED loopVars
      BY <1>9 DEF loopVars, LoopIInv, LoopTypes, Behind, ReviewIsJustified, Undisturbed, Readable, FactsDigest
<1> QED BY <1>1, <1>2, <1>3, <1>4, <1>5, <1>6, <1>7, <1>8, <1>9 DEF Next

LEMMA LoopInductive == Spec => []LoopIInv
BY LoopInit, LoopStep, PTL DEF Spec

(* A candidate whose test is committed is not backtested again             *)
(* (tested_hashes(), factor_loop.py; _round_once(), factor_loop_app.py).   *)
THEOREM LoopTestsOnce == Spec => TestedOnce
<1>1. ASSUME [Next]_loopVars, call'.pc = "load", call.pc = "idle"
      PROVE  call'.tested \cap candidates = {}
  <2>1. CASE Round
    <3>1. PICK batch \in Batches :
            \E passing \in SUBSET Backtested(memory[1], batch, TestedHashes) :
                call' = Called("commit", TRUE, Backtested(memory[1], batch, TestedHashes), passing,
                               memory'[1].search.rounds)
          BY <2>1 DEF Round
    <3>2. call'.tested = Backtested(memory[1], batch, candidates)
          BY <3>1 DEF Called, TestedHashes
    <3> QED BY <3>1, <3>2, BacktestedForm, FactorLoopAssumption
  <2>2. CASE \E op, ok : Operate(op, ok)
        BY <2>2 DEF Operate, Called
  <2>3. CASE StartProcess \/ Exit \/ Load \/ LoadForReconcile \/ WritePointer \/ Act \/ NothingToDo \/ Announce
        BY <1>1, <2>3 DEF StartProcess, Exit, Load, LoadForReconcile, WritePointer, Act, NothingToDo, Announce
  <2>4. CASE Crash \/ Cancel \/ LateWrite \/ Damage \/ UNCHANGED loopVars
        BY <1>1, <2>4 DEF Crash, Cancel, LateWrite, Damage, NoCall, loopVars
  <2> QED BY <1>1, <2>1, <2>2, <2>3, <2>4 DEF Next
<1> QED BY <1>1, PTL DEF Spec, TestedOnce

-----------------------------------------------------------------------------
(* The database alone implements the log of iterations.                    *)

LogStep == [Log!Next]_(Log!logVars)

LEMMA LogStutters ==
    ASSUME UNCHANGED <<row, candidates>>
    PROVE  LogStep
BY DEF LogStep, Log!logVars

LEMMA LoadLogs ==
    ASSUME LoopIInv, Load
    PROVE  LogStep
<1>0. UNCHANGED candidates
      BY DEF Load
<1>1. CASE CreateRow
  <2>1. row.status = "NONE" /\ row.it = 0 /\ LoopTypes
        BY <1>1 DEF CreateRow, NoRow, LoopIInv
  <2>2. FactsDigest \in (SUBSET Universe) \X (SUBSET Universe)
        BY <2>1 DEF FactsDigest, LoopTypes
  <2> DEFINE soon == TRUE
  <2>3. Written(row', 0, "RUNNING", 0, soon, FactsDigest) /\ soon \in BOOLEAN
        BY <1>1 DEF CreateRow, Written
  <2> HIDE DEF soon
  <2>4. row'.it = 0 /\ row'.status = "RUNNING"
        BY <2>2, <2>3, CheckpointForm DEF Statuses, Reads
  <2> QED BY <1>0, <2>1, <2>4 DEF LogStep, Log!Next, Log!Create
<1>2. CASE MarkReview
  <2>1. row \in LoopRow /\ row.status # "NONE"
        BY <1>2, LoopForms DEF MarkReview, LoopIInv
  <2>2. row'.status = "REQUIRES_REVIEW" /\ row'.it = row.it
        BY <1>2, <2>1 DEF MarkReview, LoopRow
  <2> QED BY <1>0, <2>1, <2>2 DEF LogStep, Log!Next, Log!Steer
<1>3. CASE Consistent
      BY <1>0, <1>3, LogStutters DEF Consistent
<1> QED BY <1>1, <1>2, <1>3 DEF Load

(* A checkpoint written over the row in hand.                              *)
LEMMA CommitReads ==
    ASSUME LoopIInv, Act, NEW it \in Nat, NEW status \in Statuses, NEW failures \in Nat,
           NEW soon \in BOOLEAN, Commit(it, status, failures, soon)
    PROVE  row'.it = it /\ row'.status = status /\ UNCHANGED candidates
<1>1. call.row = row /\ row \in LoopRow
      BY Held DEF Act
<1>2. row.facts \in (SUBSET Universe) \X (SUBSET Universe)
      BY <1>1 DEF LoopRow
<1>3. Written(row', it, status, failures, soon, row.facts)
      BY <1>1 DEF Commit, Written
<1> QED BY <1>2, <1>3, CheckpointForm DEF Reads, Commit

LEMMA ActLogs ==
    ASSUME LoopIInv, Act
    PROVE  LogStep
<1>0. /\ row.it \in Nat /\ row.failures \in Nat /\ row.soon \in BOOLEAN /\ call.row = row
      /\ row \in LoopRow /\ row.status \in Takes(call.op) /\ LoopTypes
      BY Held DEF Act
<1>1. CASE CommitIteration
  <2> DEFINE failures == IF call.ok THEN 0 ELSE call.row.failures + 1
             it == call.row.it + 1
             status == IF Exhausted(failures) THEN "REQUIRES_REVIEW"
                       ELSE IF it >= MaxIterations THEN "COMPLETED" ELSE "RUNNING"
             facts == <<candidates', factors'>>
             soon == FALSE
  <2>1. it \in Nat /\ failures \in Nat /\ it = row.it + 1
        /\ status \in {"RUNNING", "COMPLETED", "REQUIRES_REVIEW"} /\ status \in Statuses
        BY <1>0 DEF Statuses
  <2>2. facts \in (SUBSET Universe) \X (SUBSET Universe) /\ candidates \subseteq candidates'
        BY <1>0, <1>1, Held DEF Act, CommitIteration, LoopTypes
  <2>3. Written(row', it, status, failures, soon, facts) /\ soon \in BOOLEAN
        BY <1>1 DEF CommitIteration, Written
  <2>4. row.status = "RUNNING"
        BY <1>0, <1>1 DEF CommitIteration, Takes
  <2> HIDE DEF failures, it, status, facts, soon
  <2>5. row'.it = it /\ row'.status = status
        BY <2>1, <2>2, <2>3, CheckpointForm DEF Reads
  <2> QED BY <2>1, <2>2, <2>4, <2>5 DEF LogStep, Log!Next, Log!Advance
<1>2. CASE Iterate
  <2> DEFINE failures == IF call.ok THEN 0 ELSE call.row.failures + 1
             it == call.row.it + 1
             status == IF ~call.ok /\ Exhausted(failures) THEN "REQUIRES_REVIEW"
                       ELSE IF call.ok /\ it >= MaxIterations THEN "COMPLETED" ELSE "RUNNING"
  <2>1. row.status = "RUNNING"
        BY <1>0, <1>2 DEF Iterate, Takes
  <2>2. CASE Commit(call.row.it, "COMPLETED", call.row.failures, call.row.soon)
    <3>1. row'.it = row.it /\ row'.status = "COMPLETED" /\ UNCHANGED candidates
          BY <1>0, <2>2, CommitReads DEF Statuses
    <3> QED BY <2>1, <3>1 DEF LogStep, Log!Next, Log!Steer
  <2>3. CASE Commit(it, status, failures, FALSE)
    <3>1. it \in Nat /\ failures \in Nat /\ it = row.it + 1
          /\ status \in {"RUNNING", "COMPLETED", "REQUIRES_REVIEW"} /\ status \in Statuses
          BY <1>0 DEF Statuses
    <3> HIDE DEF failures, it, status
    <3>2. row'.it = it /\ row'.status = status /\ UNCHANGED candidates
          BY <2>3, <3>1, CommitReads
    <3> QED BY <2>1, <3>1, <3>2 DEF LogStep, Log!Next, Log!Advance
  <2> QED BY <1>2, <2>2, <2>3 DEF Iterate
<1>3. CASE Pause
  <2>1. row'.it = row.it /\ row'.status = "PAUSED" /\ UNCHANGED candidates
        BY <1>0, <1>3, CommitReads DEF Pause, Statuses
  <2>2. row.status = "RUNNING"
        BY <1>0, <1>3 DEF Pause, Takes
  <2> QED BY <2>1, <2>2 DEF LogStep, Log!Next, Log!Steer
<1>4. CASE Resume
  <2> DEFINE soon == TRUE
  <2>0. soon \in BOOLEAN /\ Commit(call.row.it, "RUNNING", call.row.failures, soon)
        BY <1>4 DEF Resume
  <2> HIDE DEF soon
  <2>1. row'.it = row.it /\ row'.status = "RUNNING" /\ UNCHANGED candidates
        BY <1>0, <2>0, CommitReads DEF Statuses
  <2>2. row.status = "PAUSED"
        BY <1>0, <1>4 DEF Resume, Takes
  <2> QED BY <2>1, <2>2 DEF LogStep, Log!Next, Log!Steer
<1>5. CASE Terminate
  <2>1. row'.it = row.it /\ row'.status = "TERMINATED" /\ UNCHANGED candidates
        BY <1>0, <1>5, CommitReads DEF Terminate, Statuses
  <2>2. row.status \in {"RUNNING", "PAUSED"}
        BY <1>0, <1>5 DEF Terminate, Takes
  <2> QED BY <2>1, <2>2 DEF LogStep, Log!Next, Log!Steer
<1>6. CASE Reconcile
  <2>1. row'.it = row.it /\ row'.status = "RUNNING" /\ UNCHANGED candidates
        BY <1>0, <1>6 DEF Reconcile, LoopRow
  <2>2. row.status = "REQUIRES_REVIEW"
        BY <1>0, <1>6 DEF Reconcile, Takes
  <2> QED BY <2>1, <2>2 DEF LogStep, Log!Next, Log!Steer
<1> QED BY <1>1, <1>2, <1>3, <1>4, <1>5, <1>6 DEF Act

LEMMA DamageLogs ==
    ASSUME Damage
    PROVE  LogStep
<1>1. UNCHANGED row /\ candidates' \subseteq candidates
      BY DEF Damage
<1> QED BY <1>1 DEF LogStep, Log!Next, Log!Damage

(* The checkpoint row and the facts implement the log of iterations: one   *)
(* number at a time, facts with a number only, nothing during a review     *)
(* (FactorLoop, factor_loop.py).                                           *)
THEOREM LoopImplementsLog == Spec => ImplementsLog
<1>1. Init => Log!Init
      BY DEF Init, Log!Init, NoRow
<1>2. LoopIInv /\ [Next]_loopVars => [Log!Next]_(Log!logVars)
  <2> SUFFICES ASSUME LoopIInv, [Next]_loopVars PROVE LogStep
      BY DEF LogStep
  <2>1. CASE Load
        BY <2>1, LoadLogs
  <2>2. CASE Act
        BY <2>2, ActLogs
  <2>3. CASE Damage
        BY <2>3, DamageLogs
  <2>4. CASE \/ StartProcess \/ Exit \/ Round \/ (\E op, ok : Operate(op, ok)) \/ LoadForReconcile
             \/ WritePointer \/ NothingToDo \/ Announce \/ Crash \/ Cancel \/ LateWrite
        BY <2>4, LogStutters DEF StartProcess, Exit, Round, Operate, LoadForReconcile, WritePointer,
           NothingToDo, Announce, Crash, Cancel, LateWrite
  <2>5. CASE UNCHANGED loopVars
        BY <2>5, LogStutters DEF loopVars
  <2> QED BY <2>1, <2>2, <2>3, <2>4, <2>5 DEF Next
<1> QED BY <1>1, <1>2, LoopInductive, PTL DEF Spec, ImplementsLog, Log!Spec

-----------------------------------------------------------------------------
(* Bans of skeletons (factor_fsa.py).  The streak of a banned skeleton     *)
(* counts the faded rounds since its ban, or since the last round of the   *)
(* window in which it had not faded.                                       *)

LoopRound == [batch : Seq(Universe), accepted : SUBSET Universe]

LEMMA RoundCounts ==
    ASSUME NEW round \in LoopRound, NEW s
    PROVE  Nodes(round) \in Nat /\ Count(round, s) \in Nat
<1>1. round.batch \in Seq(Universe) /\ IsFiniteSet(DOMAIN round.batch)
  <2>1. round.batch \in Seq(Universe)
        BY DEF LoopRound
  <2>2. DOMAIN round.batch = 1..Len(round.batch) /\ Len(round.batch) \in Int
        BY <2>1
  <2> QED BY <2>1, <2>2, FS_Interval
<1>2. Count(round, s) \in Nat
  <2>1. Counted(round, s) \subseteq DOMAIN round.batch
        BY DEF Counted
  <2>2. IsFiniteSet(Counted(round, s))
        BY <1>1, <2>1, FS_Subset
  <2> QED BY <2>2, FS_CardinalityType DEF Count
<1>3. ASSUME NEW i \in DOMAIN round.batch
      PROVE  IsFiniteSet({i} \X DOMAIN round.batch[i].ops)
  <2>1. round.batch[i] \in Universe
        BY <1>1
  <2>2. round.batch[i].ops \in Seq([op : STRING, window : Nat])
        BY <2>1, FactorSearchAssumption
  <2> DEFINE ops == round.batch[i].ops
  <2>3. DOMAIN ops = 1..Len(ops) /\ Len(ops) \in Int
        BY <2>2
  <2>4. IsFiniteSet(DOMAIN ops)
        BY <2>3, FS_Interval
  <2> HIDE DEF ops
  <2>5. IsFiniteSet({i} \X DOMAIN ops)
        BY <2>4, FS_Product, FS_Singleton
  <2> QED BY <2>5 DEF ops
<1> DEFINE node(i) == {i} \X DOMAIN round.batch[i].ops
           nodes == {node(i) : i \in DOMAIN round.batch}
           f == [i \in DOMAIN round.batch |-> node(i)]
<1>4. f \in Surjection(DOMAIN round.batch, nodes)
      BY DEF Surjection
<1>5. IsFiniteSet(nodes)
  <2> HIDE DEF f, nodes
  <2> QED BY <1>1, <1>4, FS_Surjection
<1>6. \A T \in nodes : IsFiniteSet(T)
      BY <1>3
<1>7. IsFiniteSet(UNION nodes)
  <2> HIDE DEF nodes
  <2> QED BY <1>5, <1>6, FS_UNION
<1>8. Nodes(round) = Cardinality(UNION nodes)
      BY DEF Nodes
<1> HIDE DEF nodes
<1> QED BY <1>2, <1>7, <1>8, FS_CardinalityType

(* A round in which a skeleton has not faded would keep its ban.           *)
LEMMA NotFadedIsFrequent ==
    ASSUME NEW round \in LoopRound, NEW s, ~Faded(round, s)
    PROVE  Frequent(round, s)
<1>1. Nodes(round) \in Nat /\ Count(round, s) \in Nat
      BY RoundCounts
<1>2. ReleaseShare \in Nat
      BY FactorSearchAssumption
<1>3. CASE Nodes(round) = 0
  <2>1. ReleaseShare = 0
        BY <1>2, <1>3 DEF Faded
  <2>2. Max({1, Nodes(round)}) = 1
        BY <1>3 DEF Max
  <2> QED BY <1>1, <2>1, <2>2 DEF Frequent
<1>4. CASE Nodes(round) # 0
  <2>1. Max({1, Nodes(round)}) = Nodes(round)
        BY <1>1, <1>4 DEF Max
  <2> DEFINE n == Nodes(round)
             c == Count(round, s)
             floor == ReleaseShare * n
  <2>2. ~(c * 100 < floor) /\ floor \in Int /\ c \in Int
        BY <1>1, <1>2, <1>4 DEF Faded
  <2>3. c * 100 >= floor
    <3> HIDE DEF c, floor
    <3> QED BY <2>2
  <2> QED BY <2>1, <2>3 DEF Frequent
<1> QED BY <1>3, <1>4

IsBan(ban) == \E s : ban \in [skeleton : {s}, since : Nat \ {0}, until : Nat]
Open(history) == {ban \in history : ban.until = 0}

StreakRuns(n, ban, round) == n = round - ban.since + 1
StreakBreaks(n, ban, round, window) ==
    n <= round - ban.since /\ ~Faded(window[Len(window) - n], ban.skeleton)

StreakIs(n, ban, round, window) ==
    /\ ban.since <= round
    /\ n \in 0..(ReleaseRounds - 1)
    /\ StreakRuns(n, ban, round) \/ StreakBreaks(n, ban, round, window)

FsaHolds(fsa) ==
    /\ fsa.round \in Nat
    /\ fsa.window \in Seq(LoopRound)
    /\ Len(fsa.window) = IF fsa.round < WindowRounds THEN fsa.round ELSE WindowRounds
    /\ \A ban \in fsa.history : IsBan(ban)
    /\ fsa.active = {ban.skeleton : ban \in Open(fsa.history)}
    /\ fsa.active \subseteq DOMAIN fsa.streak
    /\ \A ban \in Open(fsa.history) :
         StreakIs(fsa.streak[ban.skeleton], ban, fsa.round, fsa.window)

LEMMA NewFsaHolds == FsaHolds(NewFsa)
BY FactorSearchAssumption DEF FsaHolds, NewFsa, Open

(* The window moves by one round.                                          *)
Moved(window, r) ==
    IF Len(Append(window, r)) > WindowRounds THEN Tail(Append(window, r)) ELSE Append(window, r)

Shifted(window, moved) ==
    \A n \in Nat : n < Len(window) /\ n + 1 < WindowRounds =>
        moved[Len(moved) - (n + 1)] = window[Len(window) - n]

LEMMA WindowMoves ==
    ASSUME NEW window \in Seq(LoopRound), NEW r \in LoopRound, NEW round \in Nat,
           Len(window) = IF round < WindowRounds THEN round ELSE WindowRounds,
           NEW moved,
           moved = Moved(window, r)
    PROVE  /\ moved \in Seq(LoopRound)
           /\ Len(moved) = IF round + 1 < WindowRounds THEN round + 1 ELSE WindowRounds
           /\ Len(moved) \in Nat \ {0}
           /\ Shifted(window, moved)
<1>0. WindowRounds \in Nat \ {0}
      BY FactorSearchAssumption
<1> DEFINE all == Append(window, r)
<1>1. all \in Seq(LoopRound) /\ Len(all) = Len(window) + 1
      /\ \A j \in 1..Len(window) : all[j] = window[j]
      BY DEF all
<1>2. CASE Len(all) > WindowRounds
  <2>1. moved = Tail(all)
        BY <1>2 DEF Moved
  <2> HIDE DEF all
  <2>2. moved \in Seq(LoopRound) /\ Len(moved) = Len(all) - 1
        /\ \A j \in 1..(Len(all) - 1) : moved[j] = all[j + 1]
        BY <1>1, <2>1
  <2>3. Len(window) = WindowRounds /\ round >= WindowRounds /\ Len(moved) = WindowRounds
        BY <1>0, <1>1, <1>2, <2>2
  <2>4. ASSUME NEW n \in Nat, n < Len(window), n + 1 < WindowRounds
        PROVE  moved[Len(moved) - (n + 1)] = window[Len(window) - n]
    <3> DEFINE j == Len(moved) - (n + 1)
    <3>0. j = WindowRounds - (n + 1) /\ Len(all) - 1 = WindowRounds /\ Len(window) = WindowRounds
          BY <1>0, <1>1, <2>3
    <3>1. j \in 1..(Len(all) - 1) /\ j + 1 = Len(window) - n /\ Len(window) - n \in 1..Len(window)
      <4> HIDE DEF j
      <4>1. j \in 1..WindowRounds /\ j + 1 = WindowRounds - n /\ WindowRounds - n \in 1..WindowRounds
            BY <1>0, <2>4, <3>0
      <4> QED BY <3>0, <4>1
    <3> HIDE DEF j
    <3>2. moved[j] = all[j + 1]
          BY <2>2, <3>1
    <3>3. moved[j] = window[Len(window) - n]
          BY <1>1, <3>1, <3>2
    <3> QED BY <3>3 DEF j
  <2>5. Shifted(window, moved)
        BY <2>4 DEF Shifted
  <2> QED BY <1>0, <2>2, <2>3, <2>5
<1>3. CASE ~(Len(all) > WindowRounds)
  <2>1. moved = all
        BY <1>3 DEF Moved
  <2> HIDE DEF all
  <2>2. Len(moved) = Len(window) + 1 /\ Len(window) = round
        BY <1>0, <1>1, <1>3, <2>1
  <2>3. ASSUME NEW n \in Nat, n < Len(window)
        PROVE  moved[Len(moved) - (n + 1)] = window[Len(window) - n]
    <3>1. Len(moved) - (n + 1) = Len(window) - n /\ Len(window) - n \in 1..Len(window)
          BY <2>2, <2>3
    <3> QED BY <1>1, <2>1, <3>1
  <2>4. Shifted(window, moved)
        BY <2>3 DEF Shifted
  <2> QED BY <1>0, <1>1, <1>3, <2>1, <2>2, <2>4
<1> QED BY <1>2, <1>3

LEMMA NextStreak ==
    ASSUME NEW round \in Nat, NEW since \in Nat \ {0}, NEW n \in Nat, NEW m, m = n + 1
    PROVE  /\ n = round - since + 1 => m = (round + 1) - since + 1
           /\ n <= round - since => n < round /\ m <= (round + 1) - since
OBVIOUS

(* An open ban goes on with its streak unless a release lifts it.          *)
LEMMA StreakMoves ==
    ASSUME NEW window \in Seq(LoopRound), NEW r \in LoopRound, NEW round \in Nat,
           Len(window) = IF round < WindowRounds THEN round ELSE WindowRounds,
           NEW moved,
           moved = Moved(window, r),
           NEW ban, IsBan(ban), NEW n, NEW m,
           StreakIs(n, ban, round, window),
           m = IF Faded(moved[Len(moved)], ban.skeleton) THEN n + 1 ELSE 0,
           ~(m >= ReleaseRounds)
    PROVE  StreakIs(m, ban, round + 1, moved)
<1>0. /\ WindowRounds \in Nat \ {0} /\ ReleaseRounds \in Nat \ {0} /\ ReleaseRounds <= WindowRounds
      /\ ban.since \in Nat \ {0}
      BY FactorSearchAssumption DEF IsBan
<1>1. /\ ban.since <= round
      /\ n \in 0..(ReleaseRounds - 1)
      /\ \/ n = round - ban.since + 1
         \/ n <= round - ban.since /\ ~Faded(window[Len(window) - n], ban.skeleton)
      BY DEF StreakIs, StreakRuns, StreakBreaks
<1>2. Len(moved) \in Nat \ {0} /\ Shifted(window, moved)
      BY WindowMoves
<1>3. m \in 0..(ReleaseRounds - 1) /\ ban.since <= round + 1 /\ n \in Nat
      BY <1>0, <1>1
<1>4. CASE ~Faded(moved[Len(moved)], ban.skeleton)
  <2>1. m = 0
        BY <1>4
  <2>2. Len(moved) - m = Len(moved) /\ m <= (round + 1) - ban.since
        BY <1>0, <1>2, <1>3, <2>1
  <2>3. ~Faded(moved[Len(moved) - m], ban.skeleton)
        BY <1>4, <2>2
  <2>4. StreakBreaks(m, ban, round + 1, moved)
        BY <2>2, <2>3 DEF StreakBreaks
  <2> QED BY <1>3, <2>4 DEF StreakIs
<1>5. CASE Faded(moved[Len(moved)], ban.skeleton)
  <2>1. m = n + 1
        BY <1>5
  <2>2. CASE n = round - ban.since + 1
    <3> DEFINE since == ban.since
    <3>3. since \in Nat \ {0} /\ n = round - since + 1
          BY <1>0, <2>2
    <3> HIDE DEF since
    <3>4. m = (round + 1) - since + 1
          BY <1>3, <2>1, <3>3, NextStreak
    <3>1. m = (round + 1) - ban.since + 1
          BY <3>4 DEF since
    <3>2. StreakRuns(m, ban, round + 1)
          BY <3>1 DEF StreakRuns
    <3> QED BY <1>3, <3>2 DEF StreakIs
  <2>3. CASE n <= round - ban.since /\ ~Faded(window[Len(window) - n], ban.skeleton)
    <3>6. n + 1 < WindowRounds
          BY <1>0, <1>3, <2>1
    <3>7. n <= round - ban.since
          BY <2>3
    <3>1. n < round /\ m <= (round + 1) - ban.since
          BY <1>0, <1>3, <2>1, <3>7, NextStreak
    <3>5. n < Len(window)
          BY <1>0, <1>3, <3>1, <3>6
    <3>2. moved[Len(moved) - (n + 1)] = window[Len(window) - n]
          BY <1>2, <1>3, <3>5, <3>6 DEF Shifted
    <3>3. ~Faded(moved[Len(moved) - m], ban.skeleton)
          BY <2>1, <2>3, <3>2
    <3>4. StreakBreaks(m, ban, round + 1, moved)
          BY <3>1, <3>3 DEF StreakBreaks
    <3> QED BY <1>3, <3>4 DEF StreakIs
  <2> QED BY <1>1, <2>2, <2>3
<1> QED BY <1>4, <1>5

(* A round is observed: new bans are added, faded ones are lifted.         *)
LEMMA ObserveStep ==
    ASSUME NEW fsa, FsaHolds(fsa), NEW batch \in Seq(Universe), NEW passing \in SUBSET Universe
    PROVE  FsaHolds(ObserveFsa(fsa, batch, passing))
<1> DEFINE r == [batch |-> batch, accepted |-> passing]
           all == Append(fsa.window, r)
           window == IF Len(all) > WindowRounds THEN Tail(all) ELSE all
           round == fsa.round + 1
           banned == ToBan(fsa, window)
           active == fsa.active \cup banned
           before(s) == IF s \in banned \/ s \notin DOMAIN fsa.streak THEN 0 ELSE fsa.streak[s]
           streak == [s \in active \cup DOMAIN fsa.streak |->
                         IF s \notin active THEN fsa.streak[s]
                         ELSE IF Faded(Last(window), s) THEN before(s) + 1 ELSE 0]
           released == Released(window, active, streak)
           bans == {[skeleton |-> s, since |-> round, until |-> 0] : s \in banned}
           kept == fsa.history \cup bans
           history == Retired(kept, released, round)
           next == ObserveFsa(fsa, batch, passing)
<1>1. /\ next.window = window /\ next.round = round /\ next.active = active \ released
      /\ next.streak = streak /\ next.history = history
      BY DEF ObserveFsa
<1> HIDE DEF next
<1>2. r \in LoopRound
      BY DEF LoopRound
<1>3. /\ fsa.round \in Nat /\ fsa.window \in Seq(LoopRound)
      /\ Len(fsa.window) = IF fsa.round < WindowRounds THEN fsa.round ELSE WindowRounds
      BY DEF FsaHolds
<1>4. /\ window \in Seq(LoopRound) /\ Len(window) \in Nat \ {0}
      /\ Len(window) = IF round < WindowRounds THEN round ELSE WindowRounds
  <2>1. window = Moved(fsa.window, r)
        BY DEF Moved
  <2> HIDE DEF r, window
  <2> QED BY <1>2, <1>3, <2>1, WindowMoves
<1>5. round \in Nat \ {0}
      BY <1>3
<1>6. \A ban \in kept : IsBan(ban)
  <2>1. \A ban \in bans : IsBan(ban)
        BY <1>5 DEF IsBan
  <2> QED BY <2>1 DEF FsaHolds
<1> DEFINE lifted(ban) == ban.skeleton \in released /\ ban.until = 0
<1>7. \A ban \in history : IsBan(ban)
  <2> SUFFICES ASSUME NEW ban \in kept
               PROVE  IsBan([ban EXCEPT !.until = round])
      BY <1>6 DEF Retired
  <2>1. PICK s : ban \in [skeleton : {s}, since : Nat \ {0}, until : Nat]
        BY <1>6 DEF IsBan
  <2>2. [ban EXCEPT !.until = round] \in [skeleton : {s}, since : Nat \ {0}, until : Nat]
        BY <1>5, <2>1
  <2> QED BY <2>2 DEF IsBan
<1>8. Open(history) = {ban \in kept : ban.until = 0 /\ ban.skeleton \notin released}
  <2>1. ASSUME NEW ban \in kept
        PROVE  [ban EXCEPT !.until = round].until # 0
    <3>1. PICK s : ban \in [skeleton : {s}, since : Nat \ {0}, until : Nat]
          BY <1>6 DEF IsBan
    <3> QED BY <1>5, <3>1
  <2> HIDE DEF kept, released, round
  <2> QED BY <2>1 DEF Retired, Open
<1>9. {ban.skeleton : ban \in {b \in kept : b.until = 0}} = active
  <2>1. fsa.active = {ban.skeleton : ban \in {b \in fsa.history : b.until = 0}}
        BY DEF FsaHolds, Open
  <2>2. banned = {ban.skeleton : ban \in bans} /\ \A ban \in bans : ban.until = 0
    <3>1. \A ban \in bans : ban.skeleton \in banned /\ ban.until = 0
          OBVIOUS
    <3>2. \A s \in banned : \E ban \in bans : s = ban.skeleton
      <4> TAKE s \in banned
      <4>1. [skeleton |-> s, since |-> round, until |-> 0] \in bans
            OBVIOUS
      <4> HIDE DEF bans, banned
      <4> QED BY <4>1
    <3> HIDE DEF bans, banned
    <3> QED BY <3>1, <3>2
  <2> HIDE DEF banned, bans
  <2> QED BY <2>1, <2>2
<1>10. active \ released = {ban.skeleton : ban \in Open(history)}
  <2> HIDE DEF active, kept, released, history
  <2> QED BY <1>8, <1>9
<1>11. active \ released \subseteq DOMAIN streak
       OBVIOUS
<1>12. ASSUME NEW ban \in Open(history)
       PROVE  StreakIs(streak[ban.skeleton], ban, round, window)
  <2> DEFINE s == ban.skeleton
  <2>1. ban \in kept /\ ban.until = 0 /\ s \notin released /\ IsBan(ban)
        BY <1>6, <1>8, <1>12
  <2>2. s \in active
        BY <1>9, <2>1
  <2>3. streak[s] = IF Faded(window[Len(window)], s) THEN before(s) + 1 ELSE 0
    <3> HIDE DEF active, window, before
    <3> QED BY <2>2 DEF Last
  <2>4. ~(streak[s] >= ReleaseRounds)
    <3> HIDE DEF active, window, streak
    <3> QED BY <2>1, <2>2 DEF Released
  <2>5. CASE ban \in bans
    <3>1. s \in banned /\ ban.since = round
          BY <2>5
    <3>2. before(s) = 0
          BY <3>1
    <3>3. \/ streak[s] = 1
          \/ streak[s] = 0 /\ ~Faded(window[Len(window)], s)
      <4> HIDE DEF streak, window, before
      <4> QED BY <2>3, <3>2
    <3> HIDE DEF streak, window, round, released, banned
    <3>4. streak[s] \in 0..(ReleaseRounds - 1)
          BY <2>4, <3>3, FactorSearchAssumption
    <3>5. ban.since <= round /\ round - ban.since + 1 = 1 /\ round - ban.since = 0
          /\ Len(window) - 0 = Len(window)
          BY <1>4, <1>5, <3>1
    <3> QED BY <3>3, <3>4, <3>5 DEF StreakIs, StreakRuns, StreakBreaks
  <2>6. CASE ban \in fsa.history /\ ban \notin bans
    <3>1. s \in fsa.active /\ s \in DOMAIN fsa.streak
          /\ StreakIs(fsa.streak[s], ban, fsa.round, fsa.window)
          BY <2>1, <2>6 DEF FsaHolds, Open
    <3>2. s \notin banned
          BY <3>1 DEF ToBan
    <3>3. before(s) = fsa.streak[s]
          BY <3>1, <3>2
    <3>4. streak[s] = IF Faded(window[Len(window)], s) THEN fsa.streak[s] + 1 ELSE 0
          BY <2>3, <3>3
    <3>5. window = Moved(fsa.window, r)
          BY DEF Moved
    <3> HIDE DEF window, r, streak
    <3> QED BY <1>2, <1>3, <2>1, <2>4, <3>1, <3>4, <3>5, StreakMoves
  <2> QED BY <2>1, <2>5, <2>6
<1> HIDE DEF window, round, active, streak, released, history
<1>13. /\ next.round \in Nat /\ next.window \in Seq(LoopRound)
       /\ Len(next.window) = IF next.round < WindowRounds THEN next.round ELSE WindowRounds
       BY <1>1, <1>4, <1>5
<1>14. \A ban \in next.history : IsBan(ban)
       BY <1>1, <1>7
<1>15. next.active = {ban.skeleton : ban \in Open(next.history)} /\ next.active \subseteq DOMAIN next.streak
       BY <1>1, <1>10, <1>11
<1>16. \A ban \in Open(next.history) :
            StreakIs(next.streak[ban.skeleton], ban, next.round, next.window)
       BY <1>1, <1>12
<1>17. FsaHolds(next)
       BY <1>13, <1>14, <1>15, <1>16 DEF FsaHolds
<1> QED BY <1>17 DEF next

(* The memory of a process is new, or a round on.                          *)
SearchHolds == memory # <<>> => FsaHolds(memory[1].fsa)

LEMMA SearchStep == SearchHolds /\ [Next]_loopVars => SearchHolds'
<1> SUFFICES ASSUME SearchHolds, [Next]_loopVars PROVE SearchHolds'
    OBVIOUS
<1>1. CASE StartProcess
  <2>1. memory' = <<NewMemory>>
        BY <1>1 DEF StartProcess
  <2>2. memory'[1].fsa = NewFsa
        BY <2>1 DEF NewMemory
  <2> QED BY <2>2, NewFsaHolds DEF SearchHolds
<1>2. CASE Round
  <2>0. PICK batch \in Batches :
          \E passing \in SUBSET Backtested(memory[1], batch, TestedHashes) :
              memory' = <<RoundOf(memory[1], batch, TestedHashes,
                                  Backtested(memory[1], batch, TestedHashes), passing)>>
        BY <1>2 DEF Round
  <2>1. PICK passing \in SUBSET Backtested(memory[1], batch, TestedHashes) :
          memory' = <<RoundOf(memory[1], batch, TestedHashes,
                              Backtested(memory[1], batch, TestedHashes), passing)>>
        BY <2>0
  <2>2. batch \in Seq(Universe)
        BY FactorLoopAssumption
  <2>3. passing \in SUBSET Universe
        BY <2>1, <2>2, BacktestedForm
  <2>4. memory'[1].fsa = ObserveFsa(memory[1].fsa, batch, passing)
        BY <2>1 DEF RoundOf
  <2>5. FsaHolds(memory[1].fsa)
        BY <1>2 DEF SearchHolds, Round
  <2>6. FsaHolds(ObserveFsa(memory[1].fsa, batch, passing))
        BY <2>2, <2>3, <2>5, ObserveStep
  <2> QED BY <2>4, <2>6 DEF SearchHolds
<1>3. CASE Exit \/ Crash
      BY <1>3 DEF Exit, Crash, MemoryIsLost, SearchHolds
<1>4. CASE \/ (\E op, ok : Operate(op, ok)) \/ Load \/ LoadForReconcile \/ WritePointer \/ Act
           \/ NothingToDo \/ Announce \/ Cancel \/ LateWrite \/ Damage \/ UNCHANGED loopVars
  <2>1. UNCHANGED memory
        BY <1>4 DEF Operate, Load, LoadForReconcile, WritePointer, Act, NothingToDo, Announce, Cancel,
           LateWrite, Damage, loopVars
  <2> QED BY <2>1 DEF SearchHolds
<1> QED BY <1>1, <1>2, <1>3, <1>4 DEF Next

LEMMA SearchInductive == Spec => []SearchHolds
<1>1. Init => SearchHolds
      BY DEF Init, SearchHolds
<1> QED BY <1>1, SearchStep, PTL DEF Spec

(* The streak of an open ban bounds the rounds since its skeleton was seen.*)
LEMMA HoldingFades == SearchHolds => BansFade
<1> SUFFICES ASSUME SearchHolds, memory # <<>> PROVE BansFade
    BY DEF BansFade
<1> DEFINE fsa == memory[1].fsa
           open == {ban \in fsa.history : ban.until = 0}
<1>1. FsaHolds(fsa)
      BY DEF SearchHolds
<1>2. open = Open(fsa.history)
      BY DEF Open
<1>3. fsa.active = {ban.skeleton : ban \in open}
      BY <1>1, <1>2 DEF FsaHolds
<1>4. ASSUME NEW ban \in open
      PROVE  \/ fsa.round - ban.since < ReleaseRounds
             \/ \E k \in 0..(ReleaseRounds - 1) : Frequent(fsa.window[Len(fsa.window) - k], ban.skeleton)
  <2> DEFINE n == fsa.streak[ban.skeleton]
  <2>1. StreakIs(n, ban, fsa.round, fsa.window) /\ IsBan(ban)
        BY <1>1, <1>2 DEF FsaHolds, Open
  <2>2. /\ fsa.round \in Nat /\ fsa.window \in Seq(LoopRound)
        /\ Len(fsa.window) = IF fsa.round < WindowRounds THEN fsa.round ELSE WindowRounds
        BY <1>1 DEF FsaHolds
  <2>3. /\ WindowRounds \in Nat \ {0} /\ ReleaseRounds \in Nat \ {0} /\ ReleaseRounds <= WindowRounds
        /\ ban.since \in Nat \ {0}
        BY <2>1, FactorSearchAssumption DEF IsBan
  <2> HIDE DEF n, fsa
  <2>4. ban.since <= fsa.round /\ n \in 0..(ReleaseRounds - 1)
        /\ (StreakRuns(n, ban, fsa.round) \/ StreakBreaks(n, ban, fsa.round, fsa.window))
        BY <2>1 DEF StreakIs
  <2>5. CASE StreakRuns(n, ban, fsa.round)
    <3>1. n = fsa.round - ban.since + 1
          BY <2>5 DEF StreakRuns
    <3> QED BY <2>2, <2>3, <2>4, <3>1
  <2>6. CASE StreakBreaks(n, ban, fsa.round, fsa.window)
    <3>1. n <= fsa.round - ban.since /\ ~Faded(fsa.window[Len(fsa.window) - n], ban.skeleton)
          BY <2>6 DEF StreakBreaks
    <3>5. n \in Nat /\ n < fsa.round /\ n < WindowRounds /\ Len(fsa.window) \in Nat
          BY <2>2, <2>3, <2>4, <3>1
    <3>6. n < Len(fsa.window)
          BY <2>2, <2>3, <3>5
    <3>2. Len(fsa.window) - n \in 1..Len(fsa.window)
          BY <3>5, <3>6
    <3>3. fsa.window[Len(fsa.window) - n] \in LoopRound
          BY <2>2, <3>2
    <3>4. Frequent(fsa.window[Len(fsa.window) - n], ban.skeleton)
          BY <3>1, <3>3, NotFadedIsFrequent
    <3> QED BY <2>4, <3>4
  <2> QED BY <2>4, <2>5, <2>6
<1> HIDE DEF fsa
<1>5. /\ fsa.active = {ban.skeleton : ban \in open}
      /\ \A ban \in open :
           \/ fsa.round - ban.since < ReleaseRounds
           \/ \E k \in 0..(ReleaseRounds - 1) : Frequent(fsa.window[Len(fsa.window) - k], ban.skeleton)
      BY <1>3, <1>4
<1> QED BY <1>5 DEF BansFade, fsa

(* Pointer and hooks are never ahead of the database, a review has a cause,*)
(* and no ban outlives its skeleton (factor_loop.py, factor_fsa.py).       *)
THEOREM LoopSound == Spec => []LoopIsSound
<1>1. LoopIInv /\ SearchHolds => LoopIsSound
      BY HoldingFades DEF LoopIInv, Behind, NobodyIsAhead, LoopIsSound
<1> QED BY <1>1, LoopInductive, SearchInductive, PTL

-----------------------------------------------------------------------------
(* Perception.  What has been applied was published, under ids that are    *)
(* counted; the newest of it is remembered after its fact has expired, and *)
(* the rule remembers when it fired last.                                  *)

PublishedIsCounted ==
    /\ IsFiniteSet(published)
    /\ \A e \in published : e.id \in 0..(Cardinality(published) - 1) /\ e.at \in Nat
    /\ \A e, f \in published : e.id = f.id => e = f
    /\ projected \subseteq 0..(Cardinality(published) - 1)

NewestIsRemembered ==
    /\ lastByKey.at \in Int
    /\ fact # NoFact => fact = lastByKey
    /\ \A e \in published : e.id \in projected => e.at <= lastByKey.at

FiredIsRemembered ==
    /\ perceptionClock \in Nat /\ lastSalient \in Int
    /\ \A s \in salient : s.key \in evaluated /\ s.at \in 0..lastSalient
    /\ lastSalient <= perceptionClock

PerceptionInv == PublishedIsCounted /\ NewestIsRemembered /\ FiredIsRemembered /\ SalientSpacing

LEMMA PerceptionStarts == PerceptionInit => PerceptionInv
<1> SUFFICES ASSUME PerceptionInit PROVE PerceptionInv
    OBVIOUS
<1>1. PublishedIsCounted
  <2>1. IsFiniteSet({}) /\ Cardinality({}) = 0
        BY FS_EmptySet
  <2> QED BY <2>1 DEF PublishedIsCounted, PerceptionInit
<1>2. NewestIsRemembered
      BY DEF NewestIsRemembered, PerceptionInit, NoFact
<1>3. FiredIsRemembered /\ SalientSpacing
      BY DEF FiredIsRemembered, SalientSpacing, PerceptionInit
<1> QED BY <1>1, <1>2, <1>3 DEF PerceptionInv

LEMMA IngestKeeps ==
    ASSUME PerceptionInv, NEW l \in Lines, NEW recorded \in BOOLEAN, IngestLine(l, recorded)
    PROVE  PerceptionInv'
<1> DEFINE n == Cardinality(published)
           new == [id |-> n, seq |-> l.seq, at |-> l.at, value |-> l.value]
<1>1. n \in Nat
      BY FS_CardinalityType DEF PerceptionInv, PublishedIsCounted
<1>2. new \notin published
      BY <1>1 DEF PerceptionInv, PublishedIsCounted
<1>3. published' = published \cup {new} /\ UNCHANGED <<projected, fact, lastByKey>>
      BY DEF IngestLine, worldVars
<1>4. IsFiniteSet(published') /\ Cardinality(published') = n + 1
  <2> HIDE DEF new
  <2> QED BY <1>2, <1>3, FS_AddElement DEF PerceptionInv, PublishedIsCounted
<1>5. new.id = n /\ new.at \in Nat
      BY PerceptionAssumption
<1>6. /\ \A e \in published : e.id \in 0..(n - 1) /\ e.at \in Nat
      /\ \A e, f \in published : e.id = f.id => e = f
      /\ projected \subseteq 0..(n - 1)
      BY DEF PerceptionInv, PublishedIsCounted
<1> HIDE DEF new, n
<1>7. \A e \in published' : e.id \in 0..n /\ e.at \in Nat
      BY <1>1, <1>3, <1>5, <1>6
<1>8. \A e, f \in published' : e.id = f.id => e = f
      BY <1>1, <1>3, <1>5, <1>6
<1>9. projected' \subseteq 0..n
      BY <1>1, <1>3, <1>6
<1>10. PublishedIsCounted'
  <2>1. Cardinality(published') - 1 = n
        BY <1>1, <1>4
  <2> QED BY <2>1, <1>4, <1>7, <1>8, <1>9 DEF PublishedIsCounted
<1>11. NewestIsRemembered'
  <2>1. ASSUME NEW e \in published', e.id \in projected' PROVE e \in published
        BY <2>1, <1>1, <1>3, <1>5, <1>6
  <2> QED BY <2>1, <1>3 DEF PerceptionInv, NewestIsRemembered
<1>12. FiredIsRemembered' /\ SalientSpacing'
       BY DEF PerceptionInv, FiredIsRemembered, SalientSpacing, IngestLine, attentionVars
<1> QED BY <1>10, <1>11, <1>12 DEF PerceptionInv

LEMMA ProjectKeeps ==
    ASSUME PerceptionInv, NEW e \in published, Project(e)
    PROVE  PerceptionInv'
<1>1. /\ IsFiniteSet(published) /\ published' = published /\ projected' = projected \cup {e.id}
      /\ e.id \in 0..(Cardinality(published) - 1) /\ e.at \in Nat
      BY DEF PerceptionInv, PublishedIsCounted, Project
<1>2. PublishedIsCounted'
      BY <1>1 DEF PerceptionInv, PublishedIsCounted
<1>3. /\ lastByKey.at \in Int /\ (fact # NoFact => fact = lastByKey)
      /\ \A f \in published : f.id \in projected => f.at <= lastByKey.at /\ f.at \in Nat
      /\ \A f \in published : f.id = e.id => f = e
      BY DEF PerceptionInv, NewestIsRemembered, PublishedIsCounted
<1>4. /\ lastByKey'.at = e.at /\ lastByKey'.at >= lastByKey.at
      /\ fact' # NoFact => fact' = lastByKey'
      BY <1>1, <1>3 DEF Project, Previous
<1>5. NewestIsRemembered'
  <2>1. ASSUME NEW f \in published, f.id \in projected' PROVE f.at <= lastByKey'.at
    <3>1. CASE f = e
          BY <3>1, <1>1, <1>4
    <3>2. CASE f # e
      <4>1. f.id \in projected
            BY <3>2, <2>1, <1>1, <1>3
      <4>2. f.at <= lastByKey.at /\ f.at \in Nat
            BY <4>1, <1>3
      <4> QED BY <4>2, <1>1, <1>3, <1>4
    <3> QED BY <3>1, <3>2
  <2> QED BY <2>1, <1>1, <1>4 DEF NewestIsRemembered
<1>6. FiredIsRemembered' /\ SalientSpacing'
      BY DEF PerceptionInv, FiredIsRemembered, SalientSpacing, Project, attentionVars
<1> QED BY <1>2, <1>5, <1>6 DEF PerceptionInv

(* The rule fires: all that was salient before is at least a cooldown old. *)
LEMMA AttendKeeps ==
    ASSUME PerceptionInv, NEW e \in published, Attend(e)
    PROVE  PerceptionInv'
<1>1. UNCHANGED <<published, projected, fact, lastByKey, perceptionClock>>
      BY DEF Attend, worldVars
<1>2. PublishedIsCounted' /\ NewestIsRemembered'
      BY <1>1 DEF PerceptionInv, PublishedIsCounted, NewestIsRemembered
<1>3. /\ e.seq \notin evaluated /\ evaluated' = evaluated \cup {e.seq}
      /\ \/ UNCHANGED <<lastSalient, salient>>
         \/ /\ lastSalient' = perceptionClock /\ ~ Cooling(e)
            /\ salient' = salient \cup {[key |-> e.seq, at |-> perceptionClock]}
      BY DEF Attend
<1>4. /\ perceptionClock \in Nat /\ lastSalient \in Int /\ lastSalient <= perceptionClock
      /\ \A s \in salient : s.key \in evaluated /\ s.at \in 0..lastSalient
      /\ \A s, t \in salient : s # t => s.key # t.key /\ Distance(s.at, t.at) >= Cooldown
      BY DEF PerceptionInv, FiredIsRemembered, SalientSpacing
<1>5. CASE UNCHANGED <<lastSalient, salient>>
      BY <1>1, <1>2, <1>3, <1>4, <1>5 DEF PerceptionInv, FiredIsRemembered, SalientSpacing
<1>6. CASE /\ lastSalient' = perceptionClock /\ ~ Cooling(e)
           /\ salient' = salient \cup {[key |-> e.seq, at |-> perceptionClock]}
  <2> DEFINE new == [key |-> e.seq, at |-> perceptionClock]
  <2>1. Cooldown \in Nat
        BY PerceptionAssumption
  <2>2. ASSUME NEW s \in salient
        PROVE  s.key # new.key /\ Distance(s.at, new.at) >= Cooldown /\ Distance(new.at, s.at) >= Cooldown
    <3>1. s.key # new.key
          BY <1>3, <1>4
    <3>2. s.at \in Nat /\ s.at <= lastSalient /\ lastSalient >= 0
          BY <1>4
    <3>3. perceptionClock - lastSalient >= Cooldown
          BY <1>4, <1>6, <2>1, <3>2 DEF Cooling
    <3>4. perceptionClock - s.at >= Cooldown /\ s.at <= perceptionClock
          BY <1>4, <2>1, <3>2, <3>3
    <3> QED BY <1>4, <2>1, <3>1, <3>2, <3>4 DEF Distance
  <2>3. salient' = salient \cup {new} /\ new.key \in evaluated' /\ new.at = perceptionClock
        BY <1>3, <1>6
  <2> HIDE DEF new
  <2>4. SalientSpacing'
        BY <1>4, <2>2, <2>3 DEF SalientSpacing
  <2>5. \A s \in salient' : s.key \in evaluated' /\ s.at \in 0..lastSalient'
        BY <1>3, <1>4, <1>6, <2>3
  <2>6. FiredIsRemembered'
        BY <1>1, <1>4, <1>6, <2>5 DEF FiredIsRemembered
  <2> QED BY <1>2, <2>4, <2>6 DEF PerceptionInv
<1> QED BY <1>3, <1>5, <1>6

LEMMA PerceptionStep == PerceptionInv /\ [PerceptionNext]_perceptionVars => PerceptionInv'
<1> SUFFICES ASSUME PerceptionInv, [PerceptionNext]_perceptionVars PROVE PerceptionInv'
    OBVIOUS
<1>1. CASE PerceptionTick
  <2>1. perceptionClock' = perceptionClock + 1 /\ UNCHANGED <<published, projected, fact, lastByKey, evaluated, lastSalient, salient>>
        BY <1>1 DEF PerceptionTick, worldVars, attentionVars
  <2>2. FiredIsRemembered'
        BY <2>1 DEF PerceptionInv, FiredIsRemembered
  <2> QED BY <2>1, <2>2 DEF PerceptionInv, PublishedIsCounted, NewestIsRemembered, SalientSpacing
<1>2. CASE FreshSnapshot
      BY <1>2 DEF FreshSnapshot, attentionVars, PerceptionInv, PublishedIsCounted, NewestIsRemembered,
                  FiredIsRemembered, SalientSpacing
<1>3. CASE UNCHANGED perceptionVars
      BY <1>3 DEF perceptionVars, PerceptionInv, PublishedIsCounted, NewestIsRemembered, FiredIsRemembered, SalientSpacing
<1> QED BY <1>1, <1>2, <1>3, IngestKeeps, ProjectKeeps, AttendKeeps DEF PerceptionNext

(* The world never goes back and the rule keeps its cooldown, for any      *)
(* lines, published late, repeated and in any order.                       *)
THEOREM PerceptionStaysOrdered == PerceptionInit /\ [][PerceptionNext]_perceptionVars => []PerceptionIsOrdered
<1>1. PerceptionInv => PerceptionIsOrdered
      BY DEF PerceptionInv, NewestIsRemembered, PerceptionIsOrdered, WorldMovesForward
<1> QED BY <1>1, PerceptionStarts, PerceptionStep, PTL

-----------------------------------------------------------------------------
(* The state controller: the changes chain by themselves.                  *)

BrainStates ==
    [phase : {"CLOSED"} \cup {PhaseOf[h] : h \in 0..ControllerHorizon}, workload : Workloads, mode : Modes]

ControllerInv ==
    /\ hour \in 0..ControllerHorizon /\ brain \in BrainStates
    /\ announced \in Seq([previous : BrainStates, current : BrainStates])
    /\ ChangesChain

LEMMA ControllerStarts == ControllerInit => ControllerInv
<1> SUFFICES ASSUME ControllerInit PROVE ControllerInv
    OBVIOUS
<1>1. hour \in 0..ControllerHorizon /\ brain \in BrainStates /\ announced = <<>>
      BY ControllerAssumption DEF ControllerInit, BrainStates, Workloads, Modes
<1>2. announced \in Seq([previous : BrainStates, current : BrainStates]) /\ DOMAIN announced = {}
      BY <1>1
<1> QED BY <1>1, <1>2 DEF ControllerInv, ChangesChain

LEMMA ChangeKeeps ==
    ASSUME ControllerInv, NEW b \in BrainStates, Changes(b), b.mode = "BOOTING" => brain.mode = "BOOTING"
    PROVE  ControllerInv'
<1> DEFINE n == Len(announced)
           new == [previous |-> brain, current |-> b]
<1>1. /\ brain \in BrainStates /\ announced \in Seq([previous : BrainStates, current : BrainStates])
      /\ \A i \in DOMAIN announced :
            /\ announced[i].current = IF i = n THEN brain ELSE announced[i + 1].previous
            /\ announced[i].current.mode = "BOOTING" => announced[i].previous.mode = "BOOTING"
      BY DEF ControllerInv, ChangesChain
<1>2. brain' = b /\ announced' = Append(announced, new) /\ hour' = hour
      BY DEF Changes, ReplaceState
<1>3. new \in [previous : BrainStates, current : BrainStates] /\ new.previous = brain /\ new.current = b
      BY <1>1
<1> HIDE DEF new
<1>4. announced' \in Seq([previous : BrainStates, current : BrainStates])
      BY <1>1, <1>2, <1>3
<1>5. /\ n \in Nat /\ DOMAIN announced = 1 .. n /\ DOMAIN announced' = 1 .. (n + 1) /\ Len(announced') = n + 1
      /\ announced'[n + 1] = new /\ \A i \in 1 .. n : announced'[i] = announced[i]
      BY <1>1, <1>2, <1>3
<1> HIDE DEF n
<1>6. ASSUME NEW i \in 1 .. (n + 1)
      PROVE  /\ announced'[i].current = IF i = n + 1 THEN b ELSE announced'[i + 1].previous
             /\ announced'[i].current.mode = "BOOTING" => announced'[i].previous.mode = "BOOTING"
  <2>1. CASE i = n + 1
        BY <2>1, <1>3, <1>5
  <2>2. CASE i # n + 1
    <3>1. i \in 1 .. n /\ (i # n => i + 1 \in 1 .. n)
          BY <2>2, <1>5
    <3>2. announced'[i] = announced[i] /\ (i # n => announced'[i + 1] = announced[i + 1])
          BY <3>1, <1>5
    <3>3. CASE i = n
          BY <3>1, <3>2, <3>3, <2>2, <1>1, <1>3, <1>5
    <3>4. CASE i # n
          BY <3>1, <3>2, <3>4, <2>2, <1>1, <1>5
    <3> QED BY <3>3, <3>4
  <2> QED BY <2>1, <2>2
<1>7. ChangesChain'
      BY <1>2, <1>5, <1>6 DEF ChangesChain
<1> QED BY <1>2, <1>4, <1>7 DEF ControllerInv

LEMMA ControllerStep == ControllerInv /\ [ControllerNext]_controllerVars => ControllerInv'
<1> SUFFICES ASSUME ControllerInv, [ControllerNext]_controllerVars PROVE ControllerInv'
    OBVIOUS
<1>1. /\ hour \in 0..ControllerHorizon /\ brain \in BrainStates /\ PhaseOf[hour] \in {PhaseOf[h] : h \in 0..ControllerHorizon}
      BY DEF ControllerInv
<1>2. CASE HourPasses
  <2>1. hour' \in 0..ControllerHorizon /\ UNCHANGED <<brain, announced>>
        BY <1>1, <1>2, ControllerAssumption DEF HourPasses
  <2> QED BY <2>1 DEF ControllerInv, ChangesChain
<1>3. CASE Refresh
  <2> DEFINE mode == CASE brain.mode = "NORMAL" /\ PhaseOf[hour] \in Closed -> "REVIEW"
                       [] brain.mode = "REVIEW" /\ PhaseOf[hour] \notin Closed -> "NORMAL"
                       [] OTHER -> brain.mode
             b == [brain EXCEPT !.phase = PhaseOf[hour], !.mode = mode]
  <2>1. mode \in Modes /\ (mode = "BOOTING" => brain.mode = "BOOTING")
        BY <1>1 DEF BrainStates, Modes
  <2>2. Changes(b)
        BY <1>3 DEF Refresh
  <2> HIDE DEF mode
  <2>3. b \in BrainStates /\ b.mode = mode
        BY <1>1, <2>1 DEF BrainStates
  <2> HIDE DEF b
  <2> QED BY <2>1, <2>2, <2>3, ChangeKeeps
<1>4. CASE MarkReady
  <2> DEFINE mode == IF PhaseOf[hour] \in Closed THEN "REVIEW" ELSE "NORMAL"
             b == [brain EXCEPT !.phase = PhaseOf[hour], !.mode = mode]
  <2>1. mode \in Modes /\ mode # "BOOTING"
        BY DEF Modes
  <2>2. Changes(b)
        BY <1>4 DEF MarkReady
  <2> HIDE DEF mode
  <2>3. b \in BrainStates /\ b.mode = mode
        BY <1>1, <2>1 DEF BrainStates
  <2> HIDE DEF b
  <2> QED BY <2>1, <2>2, <2>3, ChangeKeeps
<1>5. ASSUME NEW w \in Workloads, SetWorkload(w) PROVE ControllerInv'
  <2> DEFINE b == [brain EXCEPT !.workload = w]
  <2>1. Changes(b)
        BY <1>5 DEF SetWorkload
  <2>2. b \in BrainStates /\ b.mode = brain.mode
        BY <1>1 DEF BrainStates
  <2> HIDE DEF b
  <2> QED BY <2>1, <2>2, ChangeKeeps
<1>6. ASSUME NEW m \in Modes, SetMode(m) PROVE ControllerInv'
  <2> DEFINE b == [brain EXCEPT !.mode = m]
  <2>1. Changes(b) /\ (m = "BOOTING" => brain.mode = "BOOTING")
        BY <1>6 DEF SetMode
  <2>2. b \in BrainStates /\ b.mode = m
        BY <1>1 DEF BrainStates
  <2> HIDE DEF b
  <2> QED BY <2>1, <2>2, ChangeKeeps
<1>7. CASE UNCHANGED controllerVars
      BY <1>7 DEF controllerVars, ControllerInv, ChangesChain
<1> QED BY <1>2, <1>3, <1>4, <1>5, <1>6, <1>7 DEF ControllerNext

(* The state controller announces every change, from what was announced    *)
(* before it, and never goes back to booting (_replace, state.py:175-203). *)
THEOREM ChangesStayChained == ControllerInit /\ [][ControllerNext]_controllerVars => []ChangesChain
<1>1. ControllerInv => ChangesChain
      BY DEF ControllerInv
<1> QED BY <1>1, ControllerStarts, ControllerStep, PTL

-----------------------------------------------------------------------------
(* Stimuli, cycles and plans.  A stimulus waits at one place or belongs to *)
(* one cycle; what was ever accepted does one or the other.                *)

(* What may be submitted: what the bus delivers, and commands.             *)
Submissions ==
    Stimuli \cup {[id |-> c.id, key |-> IF c.key = NoKey THEN c.id ELSE c.key, type |-> "command", priority |-> c.priority] :
                     c \in Injected}
Waiting == [stimulus : Submissions, at : Nat]

StimuliAreKept ==
    /\ \A i, j \in DOMAIN pending : pending[i].stimulus = pending[j].stimulus => i = j
    /\ \A c, d \in cycles : \A s \in c.stimuli : s \in d.stimuli => c = d
    /\ \A i \in DOMAIN pending : pending[i].stimulus \in accepted /\ \A c \in cycles : pending[i].stimulus \notin c.stimuli
    /\ \A c \in cycles : c.stimuli \subseteq accepted
    /\ \A s \in accepted : (\E i \in DOMAIN pending : pending[i].stimulus = s) \/ \E c \in cycles : s \in c.stimuli

DomainsAreSeparate ==
    \A c, d \in ActiveCycles : c # d => \A g \in c.goals, h \in d.goals : g.domain # h.domain

(* A cycle locks goals, and its planner asks only when it has a rule.      *)
CycleFields == {"id", "stimuli", "focus", "goals", "active", "planning", "asked"}
CyclesAreRows == \A c \in cycles : DOMAIN c = CycleFields
CyclesArePlanned ==
    \A c \in cycles : c.goals \subseteq Goals /\ (c.planning = "asking" => Candidates(c) # {})

CoordinationInv ==
    /\ coordinationClock \in Nat /\ goalSnapshot \subseteq Goals /\ commanded \subseteq Submissions
    /\ pending \in Seq(Waiting)
    /\ StimuliAreKept /\ DomainsAreSeparate /\ CyclesAreRows /\ CyclesArePlanned /\ PlanFitsItsGoal

LEMMA CoordinationStarts == CoordinationInit => CoordinationInv
<1> SUFFICES ASSUME CoordinationInit PROVE CoordinationInv
    OBVIOUS
<1>1. /\ coordinationClock = 0 /\ goalSnapshot = {} /\ commanded = {} /\ pending = <<>>
      /\ cycles = {} /\ accepted = {} /\ plans = {}
      BY DEF CoordinationInit
<1>2. pending \in Seq(Waiting) /\ DOMAIN pending = {}
      BY <1>1
<1>3. StimuliAreKept
      BY <1>1, <1>2 DEF StimuliAreKept
<1>4. DomainsAreSeparate /\ CyclesAreRows /\ CyclesArePlanned /\ PlanFitsItsGoal
      BY <1>1 DEF DomainsAreSeparate, ActiveCycles, CyclesAreRows, CyclesArePlanned, PlanFitsItsGoal
<1> QED BY <1>1, <1>2, <1>3, <1>4 DEF CoordinationInv

(* The invariant counts as the property does.                              *)
LEMMA KeptIsCounted ==
    ASSUME CoordinationInv
    PROVE  CoordinationIsSound
<1> SUFFICES ASSUME NEW s \in accepted
             PROVE  Cardinality({i \in DOMAIN pending : pending[i].stimulus = s}) + Cardinality({c \in cycles : s \in c.stimuli}) = 1
    BY DEF CoordinationInv, CoordinationIsSound, CyclesAreSeparate, DomainsAreSeparate
<1> DEFINE I == {i \in DOMAIN pending : pending[i].stimulus = s}
           C == {c \in cycles : s \in c.stimuli}
<1>1. Cardinality({}) = 0 /\ \A x : Cardinality({x}) = 1
      BY FS_EmptySet, FS_Singleton
<1>2. CASE \E i \in DOMAIN pending : pending[i].stimulus = s
  <2>1. PICK i \in DOMAIN pending : pending[i].stimulus = s
        BY <1>2
  <2>2. I = {i} /\ C = {}
        BY <2>1 DEF CoordinationInv, StimuliAreKept
  <2> HIDE DEF I, C
  <2>3. Cardinality(I) = 1 /\ Cardinality(C) = 0
        BY <2>2, <1>1
  <2>4. Cardinality(I) + Cardinality(C) = 1
        BY <2>3
  <2> QED BY <2>4 DEF I, C
<1>3. CASE ~ \E i \in DOMAIN pending : pending[i].stimulus = s
  <2>1. PICK c \in cycles : s \in c.stimuli
        BY <1>3 DEF CoordinationInv, StimuliAreKept
  <2>2. I = {} /\ C = {c}
        BY <2>1, <1>3 DEF CoordinationInv, StimuliAreKept
  <2> HIDE DEF I, C
  <2>3. Cardinality(I) = 0 /\ Cardinality(C) = 1
        BY <2>2, <1>1
  <2>4. Cardinality(I) + Cardinality(C) = 1
        BY <2>3
  <2> QED BY <2>4 DEF I, C
<1> QED BY <1>2, <1>3

LEMMA SubmitKeeps ==
    ASSUME CoordinationInv, NEW s \in Stimuli \cup commanded, Submit(s)
    PROVE  CoordinationInv'
<1> DEFINE n == Len(pending)
           new == [stimulus |-> s, at |-> coordinationClock]
<1>1. /\ pending \in Seq(Waiting) /\ coordinationClock \in Nat /\ s \in Submissions
      BY DEF CoordinationInv, Submissions
<1>2. /\ pending' = Append(pending, new) /\ accepted' = accepted \cup {s} /\ s \notin accepted
      /\ UNCHANGED <<goalSnapshot, commanded, cycles, plans, coordinationClock>>
      BY DEF Submit
<1>3. new \in Waiting /\ new.stimulus = s
      BY <1>1 DEF Waiting
<1> HIDE DEF new
<1>4. /\ n \in Nat /\ DOMAIN pending = 1 .. n /\ DOMAIN pending' = 1 .. (n + 1) /\ pending' \in Seq(Waiting)
      /\ pending'[n + 1] = new /\ \A i \in 1 .. n : pending'[i] = pending[i]
      BY <1>1, <1>2, <1>3
<1> HIDE DEF n
<1>5. /\ \A i, j \in 1 .. n : pending[i].stimulus = pending[j].stimulus => i = j
      /\ \A c, d \in cycles : \A t \in c.stimuli : t \in d.stimuli => c = d
      /\ \A i \in 1 .. n : pending[i].stimulus \in accepted /\ \A c \in cycles : pending[i].stimulus \notin c.stimuli
      /\ \A c \in cycles : c.stimuli \subseteq accepted
      /\ \A t \in accepted : (\E i \in 1 .. n : pending[i].stimulus = t) \/ \E c \in cycles : t \in c.stimuli
      BY <1>4 DEF CoordinationInv, StimuliAreKept
<1>6. \A i \in 1 .. (n + 1) : (i = n + 1 /\ pending'[i].stimulus = s) \/ (i \in 1 .. n /\ pending'[i] = pending[i])
      BY <1>3, <1>4
<1>7. ASSUME NEW i \in 1 .. (n + 1), NEW j \in 1 .. (n + 1), pending'[i].stimulus = pending'[j].stimulus PROVE i = j
  <2>1. \A l \in 1 .. n : pending[l].stimulus # s
        BY <1>2, <1>5
  <2>2. CASE i \in 1 .. n /\ j \in 1 .. n
        BY <2>2, <1>4, <1>5, <1>7
  <2>3. CASE i \in 1 .. n /\ j = n + 1
        BY <2>1, <2>3, <1>3, <1>4, <1>7
  <2>4. CASE i = n + 1 /\ j \in 1 .. n
        BY <2>1, <2>4, <1>3, <1>4, <1>7
  <2> QED BY <2>2, <2>3, <2>4, <1>6
<1>8. ASSUME NEW i \in 1 .. (n + 1)
      PROVE  pending'[i].stimulus \in accepted' /\ \A c \in cycles : pending'[i].stimulus \notin c.stimuli
  <2>1. CASE pending'[i].stimulus = s
        BY <2>1, <1>2, <1>5
  <2>2. CASE i \in 1 .. n /\ pending'[i] = pending[i]
        BY <2>2, <1>2, <1>5
  <2> QED BY <2>1, <2>2, <1>6
<1>9. \A t \in accepted' : (\E i \in 1 .. (n + 1) : pending'[i].stimulus = t) \/ \E c \in cycles : t \in c.stimuli
  <2> SUFFICES ASSUME NEW t \in accepted'
               PROVE  (\E i \in 1 .. (n + 1) : pending'[i].stimulus = t) \/ \E c \in cycles : t \in c.stimuli
      OBVIOUS
  <2>1. CASE t = s
    <3>1. n + 1 \in 1 .. (n + 1)
          BY <1>4
    <3> QED BY <2>1, <3>1, <1>3, <1>4
  <2>2. CASE t \in accepted
    <3>1. \A i \in 1 .. n : i \in 1 .. (n + 1)
          BY <1>4
    <3> QED BY <2>2, <3>1, <1>4, <1>5
  <2> QED BY <2>1, <2>2, <1>2
<1>10. \A c \in cycles : c.stimuli \subseteq accepted'
       BY <1>2, <1>5
<1>11. StimuliAreKept'
       BY <1>2, <1>4, <1>5, <1>7, <1>8, <1>9, <1>10 DEF StimuliAreKept
<1>12. DomainsAreSeparate' /\ CyclesAreRows' /\ CyclesArePlanned' /\ PlanFitsItsGoal'
       BY <1>2 DEF CoordinationInv, DomainsAreSeparate, ActiveCycles, CyclesAreRows, CyclesArePlanned, Candidates,
                   PlanFitsItsGoal
<1> QED BY <1>2, <1>4, <1>11, <1>12 DEF CoordinationInv

LEMMA LeastNatural == ASSUME NEW T \in SUBSET Nat, T # {} PROVE \E m \in T : \A k \in T : m <= k
<1> DEFINE R == {ss \in Nat \X Nat : ss[1] < ss[2]}
<1>1. R = OpToRel(<, Nat)
      BY DEF OpToRel
<1>2. IsWellFoundedOn(R, Nat)
      BY <1>1, NatLessThanWellFounded
<1> HIDE DEF R
<1>3. PICK m \in T : \A k \in T : <<k, m>> \notin R
      BY <1>2, WFMin
<1>4. \A k \in T : ~ (k < m)
      BY <1>3 DEF R
<1> QED BY <1>4

LEMMA SuffixIs ==
    ASSUME NEW A, NEW q \in Seq(A), NEW k \in 0 .. Len(q)
    PROVE  /\ SubSeq(q, k + 1, Len(q)) \in Seq(A) /\ Len(SubSeq(q, k + 1, Len(q))) = Len(q) - k
           /\ \A i \in 1 .. (Len(q) - k) : SubSeq(q, k + 1, Len(q))[i] = q[k + i]
<1>1. Len(q) \in Nat /\ k \in Nat /\ k + 1 \in 1 .. (Len(q) + 1)
      OBVIOUS
<1>2. Len(SubSeq(q, k + 1, Len(q))) = Len(q) - k
      BY <1>1
<1>3. \A i \in 1 .. (Len(q) - k) : SubSeq(q, k + 1, Len(q))[i] = q[k + i]
      BY <1>1
<1>4. SubSeq(q, k + 1, Len(q)) \in Seq(A)
      BY <1>1
<1> QED BY <1>2, <1>3, <1>4

LEMMA LesserIs == ASSUME NEW a \in Int, NEW b \in Int PROVE Min({a, b}) = IF a <= b THEN a ELSE b
<1> DEFINE m == IF a <= b THEN a ELSE b
<1>1. m \in {a, b} /\ \A y \in {a, b} : m <= y
      OBVIOUS
<1>2. \A x \in {a, b} : (\A y \in {a, b} : x <= y) => x = m
      OBVIOUS
<1>3. Min({a, b}) \in {a, b} /\ \A y \in {a, b} : Min({a, b}) <= y
  <2> HIDE DEF m
  <2> QED BY <1>1 DEF Min
<1> HIDE DEF m
<1>4. Min({a, b}) = m
      BY <1>2, <1>3
<1> QED BY <1>4 DEF m

(* A cycle takes the oldest stimuli that wait, and goals of free domains.  *)
LEMMA FormKeeps ==
    ASSUME CoordinationInv, NEW force \in BOOLEAN, FormCycle(force)
    PROVE  CoordinationInv'
<1> DEFINE n == Len(pending)
           k == Min({MaxBatch, n})
           batch == SubSeq(pending, 1, k)
           goals == {g \in goalSnapshot : g.domain \notin Occupied}
           stimuli == {batch[i].stimulus : i \in DOMAIN batch}
           new == [id |-> Cardinality(cycles), stimuli |-> stimuli, focus |-> Focus(stimuli),
                   goals |-> goals, active |-> TRUE, planning |-> "none", asked |-> 0]
<1>1. /\ pending \in Seq(Waiting) /\ n \in Nat /\ DOMAIN pending = 1 .. n /\ MaxBatch \in Nat
      BY CoordinationAssumption DEF CoordinationInv
<1>2. k \in 0 .. n
      BY <1>1, LesserIs
<1>3. /\ cycles' = cycles \cup {new} /\ pending' = SubSeq(pending, Len(batch) + 1, n)
      /\ UNCHANGED <<goalSnapshot, commanded, accepted, plans, coordinationClock>>
      BY DEF FormCycle, Left
<1>4. /\ new.stimuli = stimuli /\ new.goals = goals /\ new.planning = "none"
      OBVIOUS
<1> HIDE DEF new, k, n
<1>5. Len(batch) = k /\ DOMAIN batch = 1 .. k /\ \A i \in 1 .. k : batch[i] = pending[i]
      BY <1>1, <1>2 DEF n
<1>6. stimuli = {pending[i].stimulus : i \in 1 .. k}
      BY <1>5
<1> HIDE DEF batch
<1>7. pending' \in Seq(Waiting) /\ DOMAIN pending' = 1 .. (n - k) /\ \A i \in 1 .. (n - k) : pending'[i] = pending[k + i]
  <2>1. pending' = SubSeq(pending, k + 1, Len(pending))
        BY <1>3, <1>5 DEF n
  <2>2. k \in 0 .. Len(pending) /\ n = Len(pending)
        BY <1>2 DEF n
  <2>3. /\ pending' \in Seq(Waiting) /\ Len(pending') = n - k
        /\ \A i \in 1 .. (n - k) : pending'[i] = pending[k + i]
        BY <1>1, <2>1, <2>2, SuffixIs
  <2> QED BY <2>3
<1> HIDE DEF stimuli
<1>8. /\ \A i, j \in 1 .. n : pending[i].stimulus = pending[j].stimulus => i = j
      /\ \A c, d \in cycles : \A t \in c.stimuli : t \in d.stimuli => c = d
      /\ \A i \in 1 .. n : pending[i].stimulus \in accepted /\ \A c \in cycles : pending[i].stimulus \notin c.stimuli
      /\ \A c \in cycles : c.stimuli \subseteq accepted
      /\ \A t \in accepted : (\E i \in 1 .. n : pending[i].stimulus = t) \/ \E c \in cycles : t \in c.stimuli
      BY <1>1 DEF CoordinationInv, StimuliAreKept
<1>9. \A i \in 1 .. (n - k) : k + i \in 1 .. n /\ k + i \notin 1 .. k
      BY <1>1, <1>2
<1>10. \A i \in 1 .. k : i \in 1 .. n
       BY <1>1, <1>2
<1>11. \A i, j \in 1 .. (n - k) : pending'[i].stimulus = pending'[j].stimulus => i = j
  <2> SUFFICES ASSUME NEW i \in 1 .. (n - k), NEW j \in 1 .. (n - k), pending'[i].stimulus = pending'[j].stimulus PROVE i = j
      OBVIOUS
  <2>1. k + i = k + j
        BY <1>7, <1>8, <1>9
  <2> QED BY <2>1, <1>1, <1>2
<1>12. \A t \in stimuli : t \in accepted /\ (\A c \in cycles : t \notin c.stimuli)
       BY <1>6, <1>8, <1>10
<1>13. \A c, d \in cycles' : \A t \in c.stimuli : t \in d.stimuli => c = d
       BY <1>3, <1>4, <1>8, <1>12
<1>14. \A i \in 1 .. (n - k) : pending'[i].stimulus \in accepted /\ \A c \in cycles' : pending'[i].stimulus \notin c.stimuli
  <2> SUFFICES ASSUME NEW i \in 1 .. (n - k)
               PROVE  pending[k + i].stimulus \in accepted /\ \A c \in cycles' : pending[k + i].stimulus \notin c.stimuli
      BY <1>7
  <2>1. pending[k + i].stimulus \notin stimuli
    <3>1. ASSUME NEW j \in 1 .. k, pending[k + i].stimulus = pending[j].stimulus PROVE FALSE
      <4>1. k + i = j
            BY <3>1, <1>8, <1>9, <1>10
      <4> QED BY <4>1, <1>9
    <3> QED BY <3>1, <1>6
  <2> QED BY <2>1, <1>3, <1>4, <1>8, <1>9
<1>15. \A c \in cycles' : c.stimuli \subseteq accepted
       BY <1>3, <1>4, <1>8, <1>12
<1>16. \A t \in accepted : (\E i \in 1 .. (n - k) : pending'[i].stimulus = t) \/ \E c \in cycles' : t \in c.stimuli
  <2> SUFFICES ASSUME NEW t \in accepted, \A c \in cycles' : t \notin c.stimuli
               PROVE  \E i \in 1 .. (n - k) : pending'[i].stimulus = t
      OBVIOUS
  <2>1. t \notin stimuli /\ \A c \in cycles : t \notin c.stimuli
        BY <1>3, <1>4
  <2>2. PICK j \in 1 .. n : pending[j].stimulus = t
        BY <2>1, <1>8
  <2>3. j \notin 1 .. k
        BY <2>1, <2>2, <1>6
  <2>4. j - k \in 1 .. (n - k) /\ k + (j - k) = j
        BY <2>3, <1>1, <1>2
  <2>5. pending'[j - k] = pending[j]
        BY <2>4, <1>7
  <2> QED BY <2>2, <2>4, <2>5
<1>17. StimuliAreKept'
       BY <1>3, <1>7, <1>11, <1>13, <1>14, <1>15, <1>16 DEF StimuliAreKept
<1>18. DomainsAreSeparate'
  <2> SUFFICES ASSUME NEW c \in cycles', NEW d \in cycles', c.active, d.active, c # d, NEW g \in c.goals, NEW h \in d.goals
               PROVE  g.domain # h.domain
      BY DEF DomainsAreSeparate, ActiveCycles
  <2>1. \A e \in cycles : e.active => \A f \in e.goals : f.domain \in Occupied
        BY DEF Occupied, ActiveCycles
  <2>2. \A f \in new.goals : f.domain \notin Occupied
        BY <1>4
  <2>3. \A e, f \in cycles : e.active /\ f.active /\ e # f => \A x \in e.goals, y \in f.goals : x.domain # y.domain
        BY DEF CoordinationInv, DomainsAreSeparate, ActiveCycles
  <2> HIDE DEF goals
  <2> QED BY <2>1, <2>2, <2>3, <1>3
<1>19. CyclesArePlanned' /\ CyclesAreRows'
  <2>1. new.goals \subseteq Goals
        BY <1>4 DEF CoordinationInv
  <2>2. DOMAIN new = CycleFields
        BY DEF new, CycleFields
  <2>3. CyclesAreRows'
        BY <2>2, <1>3 DEF CoordinationInv, CyclesAreRows
  <2> QED BY <2>1, <2>3, <1>3, <1>4 DEF CoordinationInv, CyclesArePlanned, Candidates
<1>20. PlanFitsItsGoal'
       BY <1>3 DEF CoordinationInv, PlanFitsItsGoal
<1> QED BY <1>3, <1>7, <1>17, <1>18, <1>19, <1>20 DEF CoordinationInv

(* A cycle goes on with the stimuli and the goals it has.                  *)
LEMMA ReplaceKeeps ==
    ASSUME CoordinationInv, NEW c \in cycles, NEW d, ReplaceCycle(c, d),
           DOMAIN d = CycleFields, d.stimuli = c.stimuli, d.goals = c.goals, d.active => c.active,
           d.planning = "asking" => Candidates(d) # {},
           UNCHANGED <<goalSnapshot, commanded, pending, accepted, coordinationClock>>, PlanFitsItsGoal'
    PROVE  CoordinationInv'
<1>1. cycles' = (cycles \ {c}) \cup {d}
      BY DEF ReplaceCycle
<1>2. StimuliAreKept'
  <2>1. \A a, b \in cycles' : \A s \in a.stimuli : s \in b.stimuli => a = b
        BY <1>1 DEF CoordinationInv, StimuliAreKept
  <2>2. \A i \in DOMAIN pending : pending[i].stimulus \in accepted /\ \A a \in cycles' : pending[i].stimulus \notin a.stimuli
        BY <1>1 DEF CoordinationInv, StimuliAreKept
  <2>3. \A a \in cycles' : a.stimuli \subseteq accepted
        BY <1>1 DEF CoordinationInv, StimuliAreKept
  <2>4. \A s \in accepted : (\E i \in DOMAIN pending : pending[i].stimulus = s) \/ \E a \in cycles' : s \in a.stimuli
        BY <1>1 DEF CoordinationInv, StimuliAreKept
  <2> QED BY <2>1, <2>2, <2>3, <2>4 DEF CoordinationInv, StimuliAreKept
<1>3. DomainsAreSeparate'
      BY <1>1 DEF CoordinationInv, DomainsAreSeparate, ActiveCycles
<1>4. CyclesArePlanned'
      BY <1>1 DEF CoordinationInv, CyclesArePlanned, Candidates
<1>5. CyclesAreRows'
      BY <1>1 DEF CoordinationInv, CyclesAreRows
<1> QED BY <1>2, <1>3, <1>4, <1>5 DEF CoordinationInv

LEMMA PlannedIsPlanned ==
    ASSUME CoordinationInv, NEW c \in cycles, NEW answer, FinishPlan(c, answer)
    PROVE  PlanFitsItsGoal'
<1> DEFINE r == RuleOf(c)
           g == CHOOSE x \in c.goals : x.id = r.goal
           expires == Min({coordinationClock + r.ttl, g.deadline})
<1>1. Candidates(c) # {} /\ c.goals \subseteq Goals /\ coordinationClock \in Nat
      BY DEF CoordinationInv, CyclesArePlanned, FinishPlan
<1>2. r \in Candidates(c)
  <2> DEFINE ids == {q.id : q \in Candidates(c)}
  <2>1. ids \in SUBSET Nat /\ ids # {}
        BY <1>1, CoordinationAssumption DEF Candidates
  <2>2. PICK m \in ids : \A i \in ids : m <= i
        BY <2>1, LeastNatural
  <2>3. PICK q \in Candidates(c) : q.id = m
        BY <2>2
  <2>4. \A p \in Candidates(c) : q.id <= p.id
        BY <2>2, <2>3
  <2> QED BY <2>4 DEF RuleOf
<1>3. r \in PlanRules /\ \E x \in c.goals : x.id = r.goal
      BY <1>2 DEF Candidates
<1> HIDE DEF r
<1>4. g \in c.goals
      BY <1>3
<1>5. r.ttl \in Nat /\ g.deadline \in Nat
      BY <1>1, <1>3, <1>4, CoordinationAssumption
<1> HIDE DEF g
<1>6. expires \in Int /\ expires <= g.deadline
      BY <1>1, <1>5, LesserIs
<1>7. \/ UNCHANGED plans
      \/ /\ expires > coordinationClock
         /\ plans' = plans \cup {[cycle |-> c.id, goal |-> g, made |-> coordinationClock, created |-> coordinationClock,
                                  expires |-> expires, source |-> answer]}
      BY DEF FinishPlan, PlanMoment, g, r
<1> HIDE DEF expires
<1>8. \A p \in plans : p.made < p.expires /\ p.expires <= p.goal.deadline
      BY DEF CoordinationInv, PlanFitsItsGoal
<1> QED BY <1>1, <1>6, <1>7, <1>8 DEF PlanFitsItsGoal

LEMMA CoordinationStep == CoordinationInv /\ [CoordinationNext]_coordinationVars => CoordinationInv'
<1> SUFFICES ASSUME CoordinationInv, [CoordinationNext]_coordinationVars PROVE CoordinationInv'
    OBVIOUS
<1>1. ASSUME UNCHANGED <<pending, accepted, cycles, plans>>, coordinationClock' \in Nat,
             goalSnapshot' \subseteq Goals, commanded' \subseteq Submissions
      PROVE  CoordinationInv'
      BY <1>1 DEF CoordinationInv, StimuliAreKept, DomainsAreSeparate, ActiveCycles, CyclesAreRows, CyclesArePlanned,
                  Candidates, PlanFitsItsGoal
<1>2. coordinationClock \in Nat /\ goalSnapshot \subseteq Goals /\ commanded \subseteq Submissions
      BY DEF CoordinationInv
<1>10. \A c \in cycles : /\ DOMAIN c = CycleFields
                         /\ \A f \in {"id", "stimuli", "focus", "goals", "active", "planning", "asked"} : f \in DOMAIN c
       BY DEF CoordinationInv, CyclesAreRows, CycleFields
<1>3. CASE CoordinationTick
      BY <1>1, <1>2, <1>3 DEF CoordinationTick
<1>4. ASSUME NEW context \in Contexts, EvaluateGoals(context) PROVE CoordinationInv'
  <2>1. goalSnapshot' \subseteq Goals
        BY <1>4 DEF EvaluateGoals, Selected
  <2> QED BY <1>1, <1>2, <1>4, <2>1 DEF EvaluateGoals
<1>5. ASSUME NEW c \in Injected, Inject(c) PROVE CoordinationInv'
  <2>1. commanded' \subseteq Submissions
        BY <1>2, <1>5 DEF Inject, Submissions
  <2> QED BY <1>1, <1>2, <1>5, <2>1 DEF Inject
<1>6. ASSUME NEW c \in cycles, CompleteCycle(c) PROVE CoordinationInv'
  <2> DEFINE d == [c EXCEPT !.active = FALSE]
  <2>1. /\ ReplaceCycle(c, d) /\ UNCHANGED <<goalSnapshot, pending, commanded, accepted, plans, coordinationClock>>
        BY <1>6 DEF CompleteCycle
  <2>2. /\ DOMAIN d = CycleFields /\ d.stimuli = c.stimuli /\ d.goals = c.goals /\ (d.active => c.active)
        /\ d.planning = c.planning /\ d.focus = c.focus
        BY <1>6, <1>10 DEF CompleteCycle
  <2> HIDE DEF d
  <2>3. d.planning = "asking" => Candidates(d) # {}
        BY <2>2 DEF CoordinationInv, CyclesArePlanned, Candidates
  <2>4. PlanFitsItsGoal'
        BY <2>1 DEF CoordinationInv, PlanFitsItsGoal
  <2> QED BY <2>1, <2>2, <2>3, <2>4, ReplaceKeeps
<1>7. ASSUME NEW c \in cycles, StartPlan(c) PROVE CoordinationInv'
  <2> DEFINE d == [c EXCEPT !.planning = IF Candidates(c) = {} THEN "failed" ELSE "asking", !.asked = coordinationClock]
  <2>1. /\ ReplaceCycle(c, d) /\ UNCHANGED <<goalSnapshot, pending, commanded, accepted, plans, coordinationClock>>
        BY <1>7 DEF StartPlan
  <2>2. /\ DOMAIN d = CycleFields /\ d.stimuli = c.stimuli /\ d.goals = c.goals /\ d.active = c.active
        /\ d.focus = c.focus /\ (d.planning = "asking" => Candidates(c) # {})
        BY <1>7, <1>10 DEF StartPlan
  <2> HIDE DEF d
  <2>3. d.planning = "asking" => Candidates(d) # {}
        BY <2>2 DEF Candidates
  <2>4. PlanFitsItsGoal'
        BY <2>1 DEF CoordinationInv, PlanFitsItsGoal
  <2> QED BY <2>1, <2>2, <2>3, <2>4, ReplaceKeeps
<1>8. ASSUME NEW c \in cycles, NEW a, FinishPlan(c, a) PROVE CoordinationInv'
  <2>1. PICK word \in {"planned", "failed"} : ReplaceCycle(c, [c EXCEPT !.planning = word])
        BY <1>8 DEF FinishPlan
  <2> DEFINE d == [c EXCEPT !.planning = word]
  <2>2. UNCHANGED <<goalSnapshot, pending, commanded, accepted, coordinationClock>>
        BY <1>8 DEF FinishPlan
  <2>3. DOMAIN d = CycleFields /\ d.stimuli = c.stimuli /\ d.goals = c.goals /\ d.active = c.active /\ d.planning # "asking"
        BY <1>8, <1>10 DEF FinishPlan
  <2>4. ReplaceCycle(c, d) /\ PlanFitsItsGoal'
        BY <1>8, <2>1, PlannedIsPlanned
  <2> HIDE DEF d
  <2> QED BY <2>2, <2>3, <2>4, ReplaceKeeps
<1>9. CASE UNCHANGED coordinationVars
      BY <1>1, <1>2, <1>9 DEF coordinationVars
<1> QED BY <1>3, <1>4, <1>5, <1>6, <1>7, <1>8, <1>9, SubmitKeeps, FormKeeps DEF CoordinationNext

(* Cycles and plans are sound for any stimuli, commands, goals and rules.  *)
THEOREM CoordinationStaysSound ==
    CoordinationInit /\ [][CoordinationNext]_coordinationVars => []CoordinationIsSound
BY CoordinationStarts, CoordinationStep, KeptIsCounted, PTL

-----------------------------------------------------------------------------
(* Admission.  The order of the candidates is total, so that their places  *)
(* are the numbers up to their number.                                     *)

LEMMA ScoreType == ASSUME NEW c \in Competitors, NEW mode, NEW now \in Int PROVE Score(c, mode, now) \in Int
<1>1. /\ c.at \in Int /\ c.base \in Int /\ c.penalty \in Int /\ c.deadline \in Int /\ c.cost \in Int
      /\ AgingInterval \in Nat /\ AgingInterval > 0 /\ DeadlineHorizon \in Nat /\ DeadlineHorizon > 0
      /\ AgingStep \in Int /\ AgingLimit \in Int /\ DeadlineBonus \in Int
      /\ RecoveryBonus \in Int /\ RealtimeBonus \in Int /\ ReviewBonus \in Int
      BY PolicyAssumption
<1>2. Aging(c, now) \in Int
  <2>1. Above(0, now - c.at) \in Int
        BY <1>1 DEF Above
  <2>2. (Above(0, now - c.at) \div AgingInterval) \in Int
        BY <1>1, <2>1
  <2>3. (Above(0, now - c.at) \div AgingInterval) * AgingStep \in Int
        BY <1>1, <2>2
  <2> QED BY <1>1, <2>3 DEF Aging, Lesser
<1>3. Urgency(c, now) \in Int
  <2>1. DeadlineHorizon - Above(0, c.deadline - now) \in Int
        BY <1>1 DEF Above
  <2>2. Above(0, DeadlineHorizon - Above(0, c.deadline - now)) \in Int
        BY <2>1 DEF Above
  <2>3. DeadlineBonus * Above(0, DeadlineHorizon - Above(0, c.deadline - now)) \in Int
        BY <1>1, <2>2
  <2>4. (DeadlineBonus * Above(0, DeadlineHorizon - Above(0, c.deadline - now))) \div DeadlineHorizon \in Int
        BY <1>1, <2>3
  <2> QED BY <2>4 DEF Urgency
<1>4. ClassBonus(c, mode) \in Int
      BY <1>1 DEF ClassBonus
<1> QED BY <1>1, <1>2, <1>3, <1>4 DEF Score

LEMMA BeforeIsAnOrder ==
    ASSUME NEW mode, NEW now \in Int, NEW a \in Competitors, NEW b \in Competitors, NEW c \in Competitors
    PROVE  /\ ~ GoesBefore(a, a, mode, now)
           /\ GoesBefore(a, b, mode, now) \/ a = b \/ GoesBefore(b, a, mode, now)
           /\ GoesBefore(a, b, mode, now) /\ GoesBefore(b, c, mode, now) => GoesBefore(a, c, mode, now)
<1>1. /\ Score(a, mode, now) \in Int /\ Score(b, mode, now) \in Int /\ Score(c, mode, now) \in Int
      BY ScoreType
<1>2. {a.id, a.at, b.id, b.at, c.id, c.at} \subseteq Int /\ (a.id = b.id => a = b)
      BY PolicyAssumption
<1> QED BY <1>1, <1>2 DEF GoesBefore

Earlier(C, c, mode, now) == {d \in C : GoesBefore(d, c, mode, now)}
Place(C, c, mode, now) == Cardinality(Earlier(C, c, mode, now)) + 1

LEMMA PlacesAre ==
    ASSUME NEW C \in SUBSET Competitors, NEW mode, NEW now \in Int
    PROVE  /\ IsFiniteSet(C) /\ Cardinality(C) \in Nat
           /\ \A c \in C : Place(C, c, mode, now) \in 1..Cardinality(C)
           /\ \A a, b \in C : GoesBefore(a, b, mode, now) => Place(C, a, mode, now) < Place(C, b, mode, now)
<1> DEFINE n == Cardinality(C)
           earlier(c) == Earlier(C, c, mode, now)
<1>1. IsFiniteSet(C) /\ n \in Nat
      BY PolicyAssumption, FS_Subset, FS_CardinalityType
<1>2. \A c \in C : IsFiniteSet(earlier(c)) /\ Cardinality(earlier(c)) \in Nat
  <2> SUFFICES ASSUME NEW c \in C PROVE IsFiniteSet(earlier(c)) /\ Cardinality(earlier(c)) \in Nat
      OBVIOUS
  <2>1. earlier(c) \in SUBSET C
        BY DEF Earlier
  <2> HIDE DEF earlier
  <2> QED BY <1>1, <2>1, FS_Subset, FS_CardinalityType
<1>3. ASSUME NEW c \in C PROVE Place(C, c, mode, now) \in 1..n
  <2>1. earlier(c) \in SUBSET C /\ earlier(c) # C
        BY BeforeIsAnOrder DEF Earlier
  <2>2. Cardinality(earlier(c)) <= n /\ (n = Cardinality(earlier(c)) => C = earlier(c))
    <3> HIDE DEF earlier
    <3> QED BY <1>1, <2>1, FS_Subset
  <2>3. Cardinality(earlier(c)) < n
        BY <1>1, <1>2, <2>1, <2>2
  <2> HIDE DEF n
  <2> QED BY <1>1, <1>2, <2>3 DEF Place
<1>4. ASSUME NEW a \in C, NEW b \in C, GoesBefore(a, b, mode, now) PROVE Place(C, a, mode, now) < Place(C, b, mode, now)
  <2>1. earlier(a) \in SUBSET earlier(b)
    <3> SUFFICES ASSUME NEW d \in C, GoesBefore(d, a, mode, now) PROVE GoesBefore(d, b, mode, now)
        BY DEF Earlier
    <3> QED BY <1>4, BeforeIsAnOrder
  <2>2. a \in earlier(b) /\ a \notin earlier(a)
        BY <1>4, BeforeIsAnOrder DEF Earlier
  <2>3. Cardinality(earlier(a)) <= Cardinality(earlier(b)) /\ Cardinality(earlier(a)) # Cardinality(earlier(b))
    <3> HIDE DEF earlier
    <3> QED BY <1>2, <2>1, <2>2, FS_Subset
  <2>4. Cardinality(earlier(a)) < Cardinality(earlier(b))
        BY <1>2, <2>3
  <2> QED BY <1>2, <2>4 DEF Place
<1> QED BY <1>1, <1>3, <1>4

(* The ranking names every candidate once, the better ones first.          *)
Ranks(C, mode, now, r) ==
    /\ IsFiniteSet(C) /\ Cardinality(C) \in Nat
    /\ DOMAIN r = 1..Cardinality(C)
    /\ \A i \in 1..Cardinality(C) : r[i] \in C
    /\ \A c \in C : \E i \in 1..Cardinality(C) : r[i] = c
    /\ \A i, j \in 1..Cardinality(C) : i < j => GoesBefore(r[i], r[j], mode, now) /\ r[i] # r[j]

LEMMA RankingRanks ==
    ASSUME NEW C \in SUBSET Competitors, NEW mode, NEW now \in Int
    PROVE  Ranks(C, mode, now, Ranking(C, mode, now))
<1> DEFINE n == Cardinality(C)
           place(c) == Place(C, c, mode, now)
           p == [c \in C |-> place(c)]
           r == Ranking(C, mode, now)
<1>1. /\ IsFiniteSet(C) /\ n \in Nat /\ \A c \in C : place(c) \in 1..n
      /\ \A a, b \in C : GoesBefore(a, b, mode, now) => place(a) < place(b)
      BY PlacesAre
<1>2. r = [i \in 1..n |-> CHOOSE c \in C : place(c) = i]
      BY DEF Ranking, Place, Earlier
<1> HIDE DEF place, n, r
<1>3. \A a, b \in C : place(a) = place(b) => a = b
  <2> SUFFICES ASSUME NEW a \in C, NEW b \in C, place(a) = place(b) PROVE a = b
      OBVIOUS
  <2>1. ~ (place(a) < place(b)) /\ ~ (place(b) < place(a))
        BY <1>1
  <2>2. ~ GoesBefore(a, b, mode, now) /\ ~ GoesBefore(b, a, mode, now)
        BY <1>1, <2>1
  <2> QED BY <2>2, BeforeIsAnOrder
<1>4. p \in Injection(C, 1..n)
      BY <1>1, <1>3 DEF Injection, IsInjective
<1>5. IsFiniteSet(1..n) /\ Cardinality(1..n) = n
      BY <1>1, FS_Interval
<1>6. p \in Surjection(C, 1..n)
  <2> HIDE DEF p
  <2>1. Cardinality(C) = Cardinality(1..n)
        BY <1>5 DEF n
  <2> QED BY <1>4, <1>5, <2>1, FS_Injection
<1>7. \A i \in 1..n : \E c \in C : place(c) = i
      BY <1>6 DEF Surjection
<1>8. \A i \in 1..n : r[i] \in C /\ place(r[i]) = i
      BY <1>2, <1>7
<1>9. \A c \in C : \E i \in 1..n : r[i] = c
  <2> SUFFICES ASSUME NEW c \in C PROVE r[place(c)] = c
      BY <1>1
  <2>1. place(c) \in 1..n
        BY <1>1
  <2>2. r[place(c)] \in C /\ place(r[place(c)]) = place(c)
        BY <1>8, <2>1
  <2> QED BY <1>3, <2>2
<1>10. ASSUME NEW i \in 1..n, NEW j \in 1..n, i < j PROVE GoesBefore(r[i], r[j], mode, now) /\ r[i] # r[j]
  <2>1. r[i] \in C /\ r[j] \in C /\ place(r[i]) = i /\ place(r[j]) = j
        BY <1>8
  <2>2. r[i] # r[j] /\ ~ (place(r[j]) < place(r[i]))
        BY <1>1, <1>10, <2>1
  <2>3. ~ GoesBefore(r[j], r[i], mode, now)
        BY <1>1, <2>1, <2>2
  <2> QED BY <2>1, <2>2, <2>3, BeforeIsAnOrder
<1>11. DOMAIN r = 1..n
       BY <1>2
<1> QED BY <1>1, <1>8, <1>9, <1>10, <1>11 DEF Ranks, n, r

(* Sums over finite sets.  The library adds the elements up one by one, in *)
(* the order of CHOOSE, by a function that recurs over the subsets; that   *)
(* such a function exists, and that the order does not matter, is shown by *)
(* looking at a smallest set where it would fail.                          *)

Costs(S) == MapThenSumSet(LAMBDA c : c.cost, S)

First(s) == CHOOSE x \in s : TRUE
Rest(s) == s \ {First(s)}
Sums(S, it) == it = [s \in SUBSET S |-> IF s = {} THEN 0 ELSE First(s).cost + it[Rest(s)]]
Summing(S) == CHOOSE it : Sums(S, it)

LEMMA CostsIs == ASSUME NEW S PROVE Costs(S) = Summing(S)[S]
BY DEF Costs, MapThenSumSet, MapThenFoldSet, Summing, Sums, First, Rest

LEMMA FirstIsIn == ASSUME NEW s, s # {} PROVE First(s) \in s
BY DEF First

(* Among sets that fail there is a smallest one. *)
LEMMA SmallestSubset ==
    ASSUME NEW S, IsFiniteSet(S), NEW T \in SUBSET SUBSET S, T # {}
    PROVE  \E low \in T : \A s \in SUBSET low : s # low => s \notin T
<1>1. T \subseteq FiniteSubsetsOf(S)
  <2>1. ASSUME NEW s \in T PROVE s \in FiniteSubsetsOf(S)
        BY FS_Subset DEF FiniteSubsetsOf
  <2> QED BY <2>1
<1>2. PICK low \in T : \A y \in T : <<y, low>> \notin StrictSubsetOrdering(S)
      BY <1>1, FS_StrictSubsetOrderingWellFounded, WFMin
<1>3. ASSUME NEW s \in SUBSET low, s # low, s \in T PROVE FALSE
  <2>1. <<s, low>> \in StrictSubsetOrdering(S)
        BY <1>3 DEF StrictSubsetOrdering
  <2> QED BY <1>2, <1>3, <2>1
<1> QED BY <1>3

(* What such a function is at a set does not depend on where it is defined. *)
LEMMA SumsAgree ==
    ASSUME NEW S, IsFiniteSet(S), NEW U, NEW a, NEW b, Sums(S, a), Sums(U, b),
           NEW w \in SUBSET S, w \in SUBSET U
    PROVE  a[w] = b[w]
<1> DEFINE T == {s \in SUBSET w : a[s] # b[s]}
<1>1. SUFFICES ASSUME w \in T PROVE FALSE
      OBVIOUS
<1>2. T \in SUBSET SUBSET w /\ IsFiniteSet(w)
      BY FS_Subset
<1>3. PICK low \in T : \A s \in SUBSET low : s # low => s \notin T
  <2> HIDE DEF T
  <2> QED BY <1>1, <1>2, SmallestSubset
<1>4. low \in SUBSET w /\ a[low] # b[low]
      OBVIOUS
<1>5. low # {}
      BY <1>4 DEF Sums
<1>6. First(low) \in low /\ Rest(low) \in SUBSET low /\ Rest(low) # low
      BY <1>5, FirstIsIn DEF Rest
<1>7. a[Rest(low)] = b[Rest(low)]
  <2>1. Rest(low) \in SUBSET w
        BY <1>4, <1>6
  <2>2. Rest(low) \notin T
        BY <1>3, <1>6
  <2> QED BY <2>1, <2>2
<1>8. a[low] = First(low).cost + a[Rest(low)] /\ b[low] = First(low).cost + b[Rest(low)]
      BY <1>4, <1>5 DEF Sums
<1> QED BY <1>4, <1>7, <1>8

LEMMA SumsExist ==
    ASSUME NEW S, IsFiniteSet(S)
    PROVE  Sums(S, Summing(S))
<1> DEFINE T == {s \in SUBSET S : ~Sums(s, Summing(s))}
<1>1. SUFFICES ASSUME T # {} PROVE FALSE
      OBVIOUS
<1>2. PICK s \in T : \A u \in SUBSET s : u # s => u \notin T
  <2> HIDE DEF T
  <2>1. T \in SUBSET SUBSET S
        BY DEF T
  <2> QED BY <1>1, <2>1, SmallestSubset
<1>3. \A u \in SUBSET s : u # s => Sums(u, Summing(u))
      BY <1>2
<1> DEFINE it == [u \in SUBSET s |-> IF u = {} THEN 0 ELSE First(u).cost + Summing(Rest(u))[Rest(u)]]
<1>4. ASSUME NEW u \in SUBSET s, u # {} PROVE it[Rest(u)] = Summing(Rest(u))[Rest(u)]
  <2>1. First(u) \in u /\ Rest(u) \in SUBSET u /\ Rest(u) # s /\ Rest(u) \in SUBSET s
        BY <1>4, FirstIsIn DEF Rest
  <2>2. Sums(Rest(u), Summing(Rest(u)))
        BY <1>3, <2>1
  <2>3. CASE Rest(u) = {}
        BY <2>1, <2>2, <2>3 DEF Sums
  <2>4. CASE Rest(u) # {}
    <3> DEFINE v == Rest(u)
    <3>1. First(v) \in v /\ Rest(v) \in SUBSET v /\ Rest(v) # v
          BY <2>4, FirstIsIn DEF Rest
    <3>2. Rest(v) \in SUBSET s /\ Rest(v) # s
          BY <2>1, <3>1
    <3>3. Sums(Rest(v), Summing(Rest(v)))
          BY <1>3, <3>2
    <3>4. IsFiniteSet(v)
          BY <2>1, FS_Subset
    <3>5. Summing(v)[Rest(v)] = Summing(Rest(v))[Rest(v)]
          BY <2>2, <3>1, <3>3, <3>4, SumsAgree
    <3>6. Summing(v)[v] = First(v).cost + Summing(v)[Rest(v)]
          BY <2>2, <2>4 DEF Sums
    <3>7. it[v] = First(v).cost + Summing(Rest(v))[Rest(v)]
          BY <2>1, <2>4
    <3> QED BY <3>5, <3>6, <3>7
  <2> QED BY <2>3, <2>4
<1>5. Sums(s, it)
  <2> DEFINE step(u) == IF u = {} THEN 0 ELSE First(u).cost + Summing(Rest(u))[Rest(u)]
             next(u) == IF u = {} THEN 0 ELSE First(u).cost + it[Rest(u)]
  <2>1. \A u \in SUBSET s : step(u) = next(u)
        BY <1>4
  <2>2. it = [u \in SUBSET s |-> step(u)]
        OBVIOUS
  <2> HIDE DEF step, next, it
  <2>3. it = [u \in SUBSET s |-> next(u)]
        BY <2>1, <2>2
  <2> QED BY <2>3 DEF Sums, next
<1> HIDE DEF it
<1>6. Sums(s, Summing(s))
      BY <1>5 DEF Summing
<1> QED BY <1>2, <1>6

LEMMA NoCosts == Costs({}) = 0
<1>1. Sums({}, Summing({}))
      BY SumsExist, FS_EmptySet
<1> QED BY <1>1, CostsIs DEF Sums

LEMMA CostsFirst ==
    ASSUME NEW S, IsFiniteSet(S), S # {}
    PROVE  Costs(S) = First(S).cost + Costs(Rest(S))
<1>1. Sums(S, Summing(S)) /\ Rest(S) \in SUBSET S
      BY SumsExist DEF Rest
<1>2. IsFiniteSet(Rest(S))
      BY <1>1, FS_Subset
<1>3. Sums(Rest(S), Summing(Rest(S)))
      BY <1>2, SumsExist
<1>4. Summing(S)[Rest(S)] = Summing(Rest(S))[Rest(S)]
      BY <1>1, <1>3, SumsAgree
<1>5. Summing(S)[S] = First(S).cost + Summing(S)[Rest(S)]
      BY <1>1 DEF Sums
<1> QED BY <1>4, <1>5, CostsIs

LEMMA CostsType ==
    ASSUME NEW S, IsFiniteSet(S), \A x \in S : x.cost \in Int
    PROVE  Costs(S) \in Int
<1> DEFINE T == {s \in SUBSET S : Costs(s) \notin Int}
<1>1. SUFFICES ASSUME T # {} PROVE FALSE
      OBVIOUS
<1>2. PICK s \in T : \A u \in SUBSET s : u # s => u \notin T
  <2> HIDE DEF T
  <2>1. T \in SUBSET SUBSET S
        BY DEF T
  <2> QED BY <1>1, <2>1, SmallestSubset
<1>3. s # {}
      BY NoCosts
<1>4. First(s) \in s /\ Rest(s) \in SUBSET s /\ Rest(s) # s
      BY <1>3, FirstIsIn DEF Rest
<1>5. Costs(Rest(s)) \in Int
      BY <1>2, <1>4
<1>6. Costs(s) = First(s).cost + Costs(Rest(s))
  <2>1. IsFiniteSet(s)
        BY FS_Subset
  <2> QED BY <1>3, <2>1, CostsFirst
<1> QED BY <1>4, <1>5, <1>6

(* The order does not matter: any element may be added last. *)
LEMMA CostsAdd ==
    ASSUME NEW S, IsFiniteSet(S), \A y \in S : y.cost \in Int, NEW x \in S
    PROVE  Costs(S) = Costs(S \ {x}) + x.cost
<1> DEFINE T == {s \in SUBSET S : \E y \in s : Costs(s) # Costs(s \ {y}) + y.cost}
<1>1. SUFFICES ASSUME T # {} PROVE FALSE
      OBVIOUS
<1>2. PICK s \in T : \A u \in SUBSET s : u # s => u \notin T
  <2> HIDE DEF T
  <2>1. T \in SUBSET SUBSET S
        BY DEF T
  <2> QED BY <1>1, <2>1, SmallestSubset
<1>3. PICK y \in s : Costs(s) # Costs(s \ {y}) + y.cost
      OBVIOUS
<1> DEFINE f == First(s)
<1>4. f \in s /\ s # {} /\ IsFiniteSet(s) /\ s \in SUBSET S
      BY FirstIsIn, FS_Subset
<1>5. Costs(s) = f.cost + Costs(s \ {f})
      BY <1>4, CostsFirst DEF Rest
<1>6. \A u \in SUBSET S : Costs(u) \in Int
  <2>1. ASSUME NEW u \in SUBSET S PROVE Costs(u) \in Int
    <3>1. IsFiniteSet(u) /\ \A z \in u : z.cost \in Int
          BY FS_Subset
    <3> QED BY <3>1, CostsType
  <2> QED BY <2>1
<1>7. f.cost \in Int /\ y.cost \in Int
      BY <1>4
<1>8. y # f
  <2>1. Costs(s \ {f}) \in Int
        BY <1>4, <1>6
  <2>2. Costs(s) = Costs(s \ {f}) + f.cost
    <3> HIDE DEF f
    <3> QED BY <1>5, <1>7, <2>1
  <2> QED BY <1>3, <2>2
<1>9. Costs(s \ {f}) = Costs((s \ {f}) \ {y}) + y.cost
  <2>1. s \ {f} \notin T /\ s \ {f} \in SUBSET S /\ y \in s \ {f}
        BY <1>2, <1>4, <1>8
  <2> QED BY <2>1
<1>10. Costs(s \ {y}) = Costs((s \ {y}) \ {f}) + f.cost
  <2>1. s \ {y} \notin T /\ s \ {y} \in SUBSET S /\ f \in s \ {y}
        BY <1>2, <1>4, <1>8
  <2> QED BY <2>1
<1>11. (s \ {f}) \ {y} = (s \ {y}) \ {f}
      OBVIOUS
<1>12. /\ Costs(s \ {f}) \in Int /\ Costs(s \ {y}) \in Int
       /\ Costs((s \ {y}) \ {f}) \in Int
      BY <1>4, <1>6
<1> HIDE DEF T, f
<1> QED
  <2> DEFINE both == Costs((s \ {y}) \ {f})
  <2>1. /\ Costs(s) = f.cost + Costs(s \ {f})
        /\ Costs(s \ {f}) = both + y.cost
        /\ Costs(s \ {y}) = both + f.cost
        /\ both \in Int /\ f.cost \in Int /\ y.cost \in Int
        BY <1>5, <1>7, <1>9, <1>10, <1>11, <1>12
  <2> HIDE DEF both
  <2>2. Costs(s) = Costs(s \ {y}) + y.cost
        BY <2>1
  <2> QED BY <2>2, <1>3


(* A cost is never negative: more candidates cost no less. *)
LEMMA CostsGrow ==
    ASSUME NEW S, IsFiniteSet(S), \A x \in S : x.cost \in Nat, NEW u \in SUBSET S
    PROVE  Costs(u) \in Nat /\ Costs(u) <= Costs(S)
<1> DEFINE T == {s \in SUBSET S : \E v \in SUBSET s : ~ (Costs(v) \in Nat /\ Costs(v) <= Costs(s))}
<1>1. SUFFICES ASSUME T # {} PROVE FALSE
      OBVIOUS
<1>2. PICK s \in T : \A v \in SUBSET s : v # s => v \notin T
  <2> HIDE DEF T
  <2>1. T \in SUBSET SUBSET S
        BY DEF T
  <2> QED BY <1>1, <2>1, SmallestSubset
<1>3. PICK v \in SUBSET s : ~ (Costs(v) \in Nat /\ Costs(v) <= Costs(s))
      OBVIOUS
<1>4. s \in SUBSET S /\ IsFiniteSet(s)
      BY FS_Subset
<1>5. \A w \in SUBSET S : Costs(w) \in Int
  <2>1. ASSUME NEW w \in SUBSET S PROVE Costs(w) \in Int
    <3>1. IsFiniteSet(w) /\ \A z \in w : z.cost \in Int
          BY FS_Subset
    <3> QED BY <3>1, CostsType
  <2> QED BY <2>1
<1>6. CASE v = s
  <2>1. CASE s = {}
        BY <1>3, <1>6, <2>1, NoCosts
  <2>2. CASE s # {}
    <3> DEFINE f == First(s)
               less == s \ {f}
    <3>1. f \in s /\ f \in S /\ f.cost \in Nat
          BY <1>4, <2>2, FirstIsIn
    <3>2. less \in SUBSET s /\ less # s /\ less \notin T /\ less \in SUBSET S
          BY <1>2, <1>4, <3>1
    <3>3. Costs(less) \in Nat
          BY <3>2
    <3>4. Costs(s) = f.cost + Costs(less)
          BY <1>4, <2>2, CostsFirst DEF Rest
    <3> HIDE DEF f, less, T
    <3> QED BY <1>3, <1>6, <3>1, <3>3, <3>4
  <2> QED BY <2>1, <2>2
<1>7. CASE v # s
  <2>1. PICK x \in s : x \notin v
        BY <1>7
  <2> DEFINE less == s \ {x}
  <2>2. v \in SUBSET less /\ less # s /\ less \in SUBSET s /\ less \notin T /\ less \in SUBSET S /\ x \in S
        BY <1>2, <1>4, <2>1
  <2>3. Costs(v) \in Nat /\ Costs(v) <= Costs(less)
        BY <2>2
  <2>4. Costs(s) = Costs(less) + x.cost
    <3>1. \A z \in s : z.cost \in Int
          BY <1>4
    <3> QED BY <1>4, <3>1, CostsAdd
  <2>5. x.cost \in Nat /\ Costs(less) \in Int
        BY <1>5, <2>2
  <2> HIDE DEF less, T
  <2> QED BY <1>3, <2>3, <2>4, <2>5
<1> QED BY <1>6, <1>7

(* The loop of evaluate() runs to the end of the ranking: there is such a  *)
(* function, for the least number of candidates without one would have one *)
(* step more than one that exists.                                         *)
AtFirst(budget) == [slots |-> budget.slots, cost |-> budget.cost, rules |-> <<>>]
Runs(n, budget, r, now, left) ==
    left = [i \in 0..n |-> IF i = 0 THEN AtFirst(budget) ELSE Decide(left[i - 1], r[i], budget.mode, now)]

LEMMA LoopExists ==
    ASSUME NEW n \in Nat, NEW budget, NEW r, NEW now
    PROVE  \E left : Runs(n, budget, r, now, left)
<1> DEFINE T == {m \in Nat : ~ \E left : Runs(m, budget, r, now, left)}
<1>1. SUFFICES ASSUME T # {} PROVE FALSE
      OBVIOUS
<1>2. PICK m \in T : \A k \in T : m <= k
  <2>1. T \in SUBSET Nat
        OBVIOUS
  <2> HIDE DEF T
  <2> QED BY <1>1, <2>1, LeastNatural
<1>3. m \in Nat /\ ~ \E left : Runs(m, budget, r, now, left)
      OBVIOUS
<1>4. CASE m = 0
  <2> DEFINE left == [i \in 0..0 |-> AtFirst(budget)]
             same == [i \in 0..0 |-> IF i = 0 THEN AtFirst(budget) ELSE Decide(left[i - 1], r[i], budget.mode, now)]
  <2>1. \A i \in 0..0 : i = 0
        OBVIOUS
  <2>2. left = same
        BY <2>1
  <2>3. Runs(0, budget, r, now, left)
        BY <2>2 DEF Runs
  <2> QED BY <1>3, <1>4, <2>3
<1>5. CASE m # 0
  <2>1. m - 1 \in Nat /\ m - 1 \notin T
        BY <1>2, <1>3, <1>5
  <2>2. PICK prev : Runs(m - 1, budget, r, now, prev)
        BY <2>1
  <2> DEFINE last == Decide(prev[m - 1], r[m], budget.mode, now)
             left == [i \in 0..m |-> IF i < m THEN prev[i] ELSE last]
             next(i) == IF i = 0 THEN AtFirst(budget) ELSE Decide(left[i - 1], r[i], budget.mode, now)
  <2>3. ASSUME NEW i \in 0..m PROVE left[i] = next(i)
    <3>1. CASE i = 0
      <4>1. i \in 0..(m - 1) /\ i < m
            BY <1>3, <1>5, <3>1
      <4>2. prev[i] = AtFirst(budget)
            BY <2>2, <3>1, <4>1 DEF Runs
      <4> QED BY <3>1, <4>1, <4>2
    <3>2. CASE i # 0
      <4>1. i - 1 \in 0..m /\ i - 1 < m /\ i - 1 \in 0..(m - 1)
            BY <1>3, <3>2
      <4>2. left[i - 1] = prev[i - 1]
            BY <4>1
      <4>3. CASE i < m
        <5>1. i \in 0..(m - 1)
              BY <1>3, <4>3
        <5>2. prev[i] = Decide(prev[i - 1], r[i], budget.mode, now)
              BY <2>2, <3>2, <5>1 DEF Runs
        <5> QED BY <3>2, <4>2, <4>3, <5>2
      <4>4. CASE ~ (i < m)
        <5>1. i = m
              BY <1>3, <4>4
        <5> QED BY <3>2, <4>2, <4>4, <5>1
      <4> QED BY <4>3, <4>4
    <3> QED BY <3>1, <3>2
  <2>4. left = [i \in 0..m |-> left[i]]
        OBVIOUS
  <2>5. left = [i \in 0..m |-> next(i)]
    <3> HIDE DEF next, left
    <3> QED BY <2>3, <2>4
  <2>6. Runs(m, budget, r, now, left)
        BY <2>5 DEF Runs
  <2> QED BY <1>3, <2>6
<1> QED BY <1>4, <1>5

LEMMA OutcomesAre ==
    ASSUME NEW C \in SUBSET Competitors, NEW budget, NEW now
    PROVE  \E left : /\ Runs(Cardinality(C), budget, Ranking(C, budget.mode, now), now, left)
                     /\ Outcomes(C, budget, now) = left[Cardinality(C)].rules
<1> DEFINE n == Cardinality(C)
           r == Ranking(C, budget.mode, now)
           left == CHOOSE it : Runs(n, budget, r, now, it)
<1>1. Outcomes(C, budget, now) = left[n].rules
      BY DEF Outcomes, Runs, AtFirst
<1>2. n \in Nat
      BY PolicyAssumption, FS_Subset, FS_CardinalityType
<1>3. Runs(n, budget, r, now, left)
      BY <1>2, LoopExists
<1> QED BY <1>1, <1>3

(* What holds after i candidates: the slots and the cost that are left are *)
(* what the admitted did not take, and whoever was refused for want of one *)
(* came behind those that had taken it.                                    *)
Admitted(rules) == {c \in DOMAIN rules : rules[c] = "SCORE_AND_BUDGET_ADMIT"}
Preceding(r, j) == {r[k] : k \in 1..(j - 1)}

SlotsWereTaken(i, left, r) ==
    \A j \in 1..i : left.rules[r[j]] = "NO_CONCURRENCY_SLOT" => left.slots = 0 /\ Admitted(left.rules) \subseteq Preceding(r, j)
CostWasTaken(i, left, r, budget) ==
    \A j \in 1..i : left.rules[r[j]] = "COST_BUDGET_UNAVAILABLE" =>
        \E s \in SUBSET Admitted(left.rules) : s \subseteq Preceding(r, j) /\ Costs(s) + r[j].cost > budget.cost
Balanced(left, budget, now) ==
    LET admitted == Admitted(left.rules)
    IN  /\ left.slots \in Nat /\ left.cost \in Nat
        /\ IsFiniteSet(admitted) /\ admitted \in SUBSET Competitors
        /\ Cardinality(admitted) + left.slots = budget.slots
        /\ Costs(admitted) + left.cost = budget.cost
        /\ \A c \in admitted : Hard(c, budget.mode, now) = "HARD_GATES_PASSED"

AdmissionInv(i, left, r, budget, now) ==
    /\ DOMAIN left.rules = Preceding(r, i + 1)
    /\ Balanced(left, budget, now)
    /\ SlotsWereTaken(i, left, r)
    /\ CostWasTaken(i, left, r, budget)

LEMMA DecidedIs ==
    ASSUME NEW c, NEW mode, NEW now, NEW left
    PROVE  LET rule == Decided(c, mode, now, left)
           IN  /\ rule = "SCORE_AND_BUDGET_ADMIT" =>
                     Hard(c, mode, now) = "HARD_GATES_PASSED" /\ left.slots # 0 /\ ~ (c.cost > left.cost)
               /\ rule = "NO_CONCURRENCY_SLOT" => left.slots = 0
               /\ rule = "COST_BUDGET_UNAVAILABLE" => c.cost > left.cost
<1>1. Hard(c, mode, now) \in {"DEADLINE_EXPIRED", "SAFE_MODE_DENY", "DEPENDENCY_NOT_READY", "CONFLICT_ACTIVE",
                              "HARD_GATES_PASSED"}
      BY DEF Hard
<1> QED BY <1>1 DEF Decided

LEMMA AdmissionStarts ==
    ASSUME NEW budget \in Budgets, NEW r, NEW now
    PROVE  AdmissionInv(0, AtFirst(budget), r, budget, now)
<1> DEFINE left == AtFirst(budget)
<1>1. left.slots = budget.slots /\ left.cost = budget.cost /\ left.rules = <<>>
      BY DEF AtFirst
<1> HIDE DEF left
<1>2. DOMAIN left.rules = {} /\ Admitted(left.rules) = {}
      BY <1>1 DEF Admitted
<1>3. Preceding(r, 0 + 1) = {}
      BY DEF Preceding
<1>4. Balanced(left, budget, now)
  <2>1. IsFiniteSet({}) /\ Cardinality({}) = 0
        BY FS_EmptySet
  <2>2. left.slots \in Nat /\ left.cost \in Nat
        BY <1>1, PolicyAssumption
  <2>3. Cardinality(Admitted(left.rules)) + left.slots = budget.slots
    <3>1. Cardinality(Admitted(left.rules)) = 0 /\ left.slots = budget.slots
          BY <1>1, <1>2, <2>1
    <3> QED BY <2>2, <3>1
  <2>4. Costs(Admitted(left.rules)) + left.cost = budget.cost
    <3>1. Costs(Admitted(left.rules)) = 0 /\ left.cost = budget.cost
          BY <1>1, <1>2, NoCosts
    <3> QED BY <2>2, <3>1
  <2> QED BY <1>2, <2>1, <2>2, <2>3, <2>4 DEF Balanced
<1>5. SlotsWereTaken(0, left, r) /\ CostWasTaken(0, left, r, budget)
      BY DEF SlotsWereTaken, CostWasTaken
<1> QED BY <1>2, <1>3, <1>4, <1>5 DEF AdmissionInv, left

LEMMA AdmissionStep ==
    ASSUME NEW C \in SUBSET Competitors, NEW budget \in Budgets, NEW r, NEW now, Ranks(C, budget.mode, now, r),
           NEW i \in Nat, i + 1 \in 1..Cardinality(C), NEW left, AdmissionInv(i, left, r, budget, now)
    PROVE  AdmissionInv(i + 1, Decide(left, r[i + 1], budget.mode, now), r, budget, now)
<1> DEFINE n == Cardinality(C)
           c == r[i + 1]
           rule == Decided(c, budget.mode, now, left)
           then == Decide(left, c, budget.mode, now)
           old == Admitted(left.rules)
           new == Admitted(then.rules)
<1>1. /\ n \in Nat /\ c \in C /\ c \in Competitors /\ c.cost \in Nat
      /\ \A j, k \in 1..n : j < k => r[j] # r[k]
      /\ \A j \in 1..n : r[j] \in C
      BY PolicyAssumption DEF Ranks
<1>2. DOMAIN left.rules = Preceding(r, i + 1) /\ Balanced(left, budget, now) /\ SlotsWereTaken(i, left, r)
      /\ CostWasTaken(i, left, r, budget)
      BY DEF AdmissionInv
<1>3. c \notin Preceding(r, i + 1)
  <2>1. SUFFICES ASSUME NEW k \in 1..((i + 1) - 1), r[k] = c PROVE FALSE
        BY DEF Preceding
  <2>2. k \in 1..n /\ k < i + 1
        BY <1>1
  <2> QED BY <1>1, <2>1, <2>2
<1>4. Preceding(r, (i + 1) + 1) = Preceding(r, i + 1) \cup {c}
  <2>1. 1..(((i + 1) + 1) - 1) = 1..((i + 1) - 1) \cup {i + 1}
        OBVIOUS
  <2> QED BY <2>1 DEF Preceding
<1>5. /\ then.slots = (IF rule = "SCORE_AND_BUDGET_ADMIT" THEN left.slots - 1 ELSE left.slots)
      /\ then.cost = (IF rule = "SCORE_AND_BUDGET_ADMIT" THEN left.cost - c.cost ELSE left.cost)
      /\ then.rules = [d \in DOMAIN left.rules \cup {c} |-> IF d = c THEN rule ELSE left.rules[d]]
      BY DEF Decide
<1>6. /\ rule = "SCORE_AND_BUDGET_ADMIT" =>
            Hard(c, budget.mode, now) = "HARD_GATES_PASSED" /\ left.slots # 0 /\ ~ (c.cost > left.cost)
      /\ rule = "NO_CONCURRENCY_SLOT" => left.slots = 0
      /\ rule = "COST_BUDGET_UNAVAILABLE" => c.cost > left.cost
      BY DecidedIs
<1> HIDE DEF rule, then, n
<1>7. DOMAIN then.rules = Preceding(r, (i + 1) + 1)
      BY <1>2, <1>4, <1>5
<1>8. /\ rule = "SCORE_AND_BUDGET_ADMIT" => new = old \cup {c}
      /\ rule # "SCORE_AND_BUDGET_ADMIT" => new = old
      /\ c \notin old
      BY <1>2, <1>3, <1>5 DEF Admitted
<1>9. \A j \in 1..i : then.rules[r[j]] = left.rules[r[j]]
  <2>1. ASSUME NEW j \in 1..i PROVE then.rules[r[j]] = left.rules[r[j]]
    <3>1. r[j] \in Preceding(r, i + 1)
          BY DEF Preceding
    <3> QED BY <1>2, <1>3, <1>5, <3>1
  <2> QED BY <2>1
<1>10. then.rules[c] = rule
       BY <1>5
<1>11. old \subseteq Preceding(r, i + 1)
       BY <1>2 DEF Admitted
<1>12. /\ left.slots \in Nat /\ left.cost \in Nat
       /\ IsFiniteSet(old) /\ old \in SUBSET Competitors
       /\ Cardinality(old) + left.slots = budget.slots
       /\ Costs(old) + left.cost = budget.cost
       /\ \A d \in old : Hard(d, budget.mode, now) = "HARD_GATES_PASSED"
       BY <1>2 DEF Balanced
<1> HIDE DEF old, new, c
<1>13. /\ then.slots \in Nat /\ then.cost \in Nat
       /\ IsFiniteSet(new) /\ new \in SUBSET Competitors
       /\ Cardinality(new) + then.slots = budget.slots
       /\ Costs(new) + then.cost = budget.cost
       /\ \A d \in new : Hard(d, budget.mode, now) = "HARD_GATES_PASSED"
  <2>1. CASE rule = "SCORE_AND_BUDGET_ADMIT"
    <3>1. IsFiniteSet(new) /\ Cardinality(new) = Cardinality(old) + 1 /\ Cardinality(old) \in Nat
          BY <1>8, <1>12, <2>1, FS_AddElement, FS_CardinalityType
    <3>2. Costs(new) = Costs(old) + c.cost
      <4>1. \A d \in new : d \in Competitors /\ d.cost \in Int
            BY <1>1, <1>8, <1>12, <2>1, PolicyAssumption
      <4>2. c \in new /\ new \ {c} = old
            BY <1>8, <2>1
      <4> QED BY <3>1, <4>1, <4>2, CostsAdd
    <3>3. Costs(old) \in Nat
      <4>1. \A d \in old : d.cost \in Nat
            BY <1>12, PolicyAssumption
      <4> QED BY <1>12, <4>1, CostsGrow
    <3>4. \A d \in new : d \in Competitors /\ Hard(d, budget.mode, now) = "HARD_GATES_PASSED"
          BY <1>1, <1>6, <1>8, <1>12, <2>1
    <3>5. /\ then.slots = left.slots - 1 /\ then.cost = left.cost - c.cost
          /\ left.slots # 0 /\ ~ (c.cost > left.cost)
          BY <1>5, <1>6, <2>1
    <3>6. then.slots \in Nat /\ then.cost \in Nat /\ Cardinality(new) + then.slots = budget.slots
          BY <1>1, <1>12, <3>1, <3>5
    <3>7. Costs(new) + then.cost = budget.cost
          BY <1>1, <1>12, <3>2, <3>3, <3>5
    <3> QED BY <3>1, <3>4, <3>6, <3>7
  <2>2. CASE rule # "SCORE_AND_BUDGET_ADMIT"
        BY <1>5, <1>8, <1>12, <2>2
  <2> QED BY <2>1, <2>2
<1>14. Balanced(then, budget, now)
       BY <1>13 DEF Balanced, new
<1>15. SlotsWereTaken(i + 1, then, r)
  <2>1. SUFFICES ASSUME NEW j \in 1..(i + 1), then.rules[r[j]] = "NO_CONCURRENCY_SLOT"
                 PROVE  then.slots = 0 /\ new \subseteq Preceding(r, j)
        BY DEF SlotsWereTaken, new
  <2>2. CASE j = i + 1
    <3>1. rule = "NO_CONCURRENCY_SLOT"
          BY <1>10, <2>1, <2>2 DEF c
    <3>2. new = old /\ then.slots = left.slots /\ left.slots = 0
          BY <1>5, <1>6, <1>8, <3>1
    <3> QED BY <1>11, <2>2, <3>2
  <2>3. CASE j # i + 1
    <3>1. j \in 1..i
          BY <2>3
    <3>2. left.slots = 0 /\ old \subseteq Preceding(r, j)
          BY <1>2, <1>9, <2>1, <3>1 DEF SlotsWereTaken, old
    <3>3. rule # "SCORE_AND_BUDGET_ADMIT"
          BY <1>6, <3>2
    <3> QED BY <1>5, <1>8, <3>2, <3>3
  <2> QED BY <2>2, <2>3
<1>16. CostWasTaken(i + 1, then, r, budget)
  <2>1. SUFFICES ASSUME NEW j \in 1..(i + 1), then.rules[r[j]] = "COST_BUDGET_UNAVAILABLE"
                 PROVE  \E s \in SUBSET new : s \subseteq Preceding(r, j) /\ Costs(s) + r[j].cost > budget.cost
        BY DEF CostWasTaken, new
  <2>2. old \subseteq new
        BY <1>8
  <2>3. CASE j = i + 1
    <3>1. rule = "COST_BUDGET_UNAVAILABLE" /\ r[j] = c
          BY <1>10, <2>1, <2>3 DEF c
    <3>2. c.cost > left.cost
          BY <1>6, <3>1
    <3>3. Costs(old) \in Nat
      <4>1. \A d \in old : d.cost \in Nat
            BY <1>12, PolicyAssumption
      <4> QED BY <1>12, <4>1, CostsGrow
    <3>4. Costs(old) + c.cost > budget.cost
          BY <1>1, <1>12, <3>2, <3>3
    <3> QED BY <1>11, <2>2, <2>3, <3>1, <3>4
  <2>4. CASE j # i + 1
    <3>1. j \in 1..i
          BY <2>4
    <3>2. \E s \in SUBSET old : s \subseteq Preceding(r, j) /\ Costs(s) + r[j].cost > budget.cost
          BY <1>2, <1>9, <2>1, <3>1 DEF CostWasTaken, old
    <3> QED BY <2>2, <3>2
  <2> QED BY <2>3, <2>4
<1> QED BY <1>7, <1>14, <1>15, <1>16 DEF AdmissionInv, then, c

LEMMA AdmissionHolds ==
    ASSUME NEW C \in SUBSET Competitors, NEW budget \in Budgets, NEW r, NEW now, Ranks(C, budget.mode, now, r),
           NEW left, Runs(Cardinality(C), budget, r, now, left)
    PROVE  AdmissionInv(Cardinality(C), left[Cardinality(C)], r, budget, now)
<1> DEFINE n == Cardinality(C)
           T == {i \in 0..n : ~ AdmissionInv(i, left[i], r, budget, now)}
<1>1. n \in Nat
      BY DEF Ranks
<1>2. SUFFICES ASSUME T # {} PROVE FALSE
  <2>1. n \in 0..n
        BY <1>1
  <2>2. AdmissionInv(n, left[n], r, budget, now)
    <3> HIDE DEF n
    <3> QED BY <1>2, <2>1
  <2> QED BY <2>2
<1>3. PICK m \in T : \A k \in T : m <= k
  <2>1. T \in SUBSET Nat
        BY <1>1
  <2> HIDE DEF T
  <2> QED BY <1>2, <2>1, LeastNatural
<1>4. m \in 0..n /\ ~ AdmissionInv(m, left[m], r, budget, now)
      OBVIOUS
<1>5. left = [i \in 0..n |-> IF i = 0 THEN AtFirst(budget) ELSE Decide(left[i - 1], r[i], budget.mode, now)]
      BY DEF Runs
<1> HIDE DEF n
<1>6. CASE m = 0
  <2>1. left[m] = AtFirst(budget)
        BY <1>4, <1>5, <1>6
  <2> QED BY <1>4, <1>6, <2>1, AdmissionStarts
<1>7. CASE m # 0
  <2> DEFINE k == m - 1
  <2>1. k \in Nat /\ k \in 0..n /\ k + 1 = m /\ m \in 1..n /\ ~ (m <= k)
        BY <1>1, <1>4, <1>7
  <2>2. k \notin T
        BY <1>3, <2>1
  <2>3. AdmissionInv(k, left[k], r, budget, now)
        BY <2>1, <2>2
  <2>4. left[m] = Decide(left[k], r[m], budget.mode, now)
        BY <1>4, <1>5, <1>7
  <2> HIDE DEF k
  <2>5. k + 1 \in 1..Cardinality(C)
        BY <2>1 DEF n
  <2>6. AdmissionInv(k + 1, Decide(left[k], r[k + 1], budget.mode, now), r, budget, now)
        BY <2>1, <2>3, <2>5, AdmissionStep
  <2> QED BY <1>4, <2>1, <2>4, <2>6
<1> QED BY <1>6, <1>7

(* What the loop ends with is what AdmissionIsFair says of an evaluation.  *)
Beats(a, c, mode, now) ==
    \/ Score(a, mode, now) > Score(c, mode, now)
    \/ Score(a, mode, now) = Score(c, mode, now) /\ a.at <= c.at

Fair(rules, budget, now) ==
    LET admitted == Admitted(rules)
        mode == budget.mode
    IN  /\ Cardinality(admitted) <= budget.slots
        /\ Costs(admitted) <= budget.cost
        /\ \A c \in admitted :
              /\ c.ready /\ c.free /\ (c.deadline = NoDeadline \/ c.deadline > now)
              /\ mode = "SAFE" => c.safe
        /\ \A c \in DOMAIN rules :
              /\ rules[c] = "NO_CONCURRENCY_SLOT" =>
                    Cardinality(admitted) = budget.slots /\ \A a \in admitted : Beats(a, c, mode, now)
              /\ rules[c] = "COST_BUDGET_UNAVAILABLE" =>
                    Costs({a \in admitted : Beats(a, c, mode, now)}) + c.cost > budget.cost

LEMMA OutcomesAreFair ==
    ASSUME NEW C \in SUBSET Competitors, NEW budget \in Budgets, NEW now \in Int
    PROVE  Fair(Outcomes(C, budget, now), budget, now)
<1> DEFINE n == Cardinality(C)
           mode == budget.mode
           r == Ranking(C, mode, now)
           rules == Outcomes(C, budget, now)
           admitted == Admitted(rules)
<1>1. Ranks(C, mode, now, r)
      BY RankingRanks
<1>2. PICK left : Runs(n, budget, r, now, left) /\ rules = left[n].rules
      BY OutcomesAre
<1>3. AdmissionInv(n, left[n], r, budget, now)
      BY <1>1, <1>2, AdmissionHolds
<1>4. /\ n \in Nat /\ \A i \in 1..n : r[i] \in C
      /\ \A i, j \in 1..n : i < j => GoesBefore(r[i], r[j], mode, now)
      BY <1>1 DEF Ranks
<1> DEFINE end == left[n]
<1>5. end.rules = rules
      BY <1>2
<1> HIDE DEF r, rules, end, n
<1>6. /\ DOMAIN rules = Preceding(r, n + 1) /\ Balanced(end, budget, now)
      /\ SlotsWereTaken(n, end, r) /\ CostWasTaken(n, end, r, budget)
      BY <1>3, <1>5 DEF AdmissionInv, end
<1>7. /\ end.slots \in Nat /\ end.cost \in Nat
      /\ IsFiniteSet(admitted) /\ admitted \in SUBSET Competitors
      /\ Cardinality(admitted) + end.slots = budget.slots
      /\ Costs(admitted) + end.cost = budget.cost
      /\ \A c \in admitted : Hard(c, mode, now) = "HARD_GATES_PASSED"
      BY <1>5, <1>6 DEF Balanced
<1>8. /\ \A j \in 1..n : rules[r[j]] = "NO_CONCURRENCY_SLOT" => end.slots = 0 /\ admitted \subseteq Preceding(r, j)
      /\ \A j \in 1..n : rules[r[j]] = "COST_BUDGET_UNAVAILABLE" =>
            \E s \in SUBSET admitted : s \subseteq Preceding(r, j) /\ Costs(s) + r[j].cost > budget.cost
      BY <1>5, <1>6 DEF SlotsWereTaken, CostWasTaken
<1> HIDE DEF admitted
<1>9. \A c \in DOMAIN rules : \E j \in 1..n : c = r[j]
  <2>1. 1..((n + 1) - 1) = 1..n
        BY <1>4
  <2> QED BY <1>6, <2>1 DEF Preceding
<1>10. ASSUME NEW j \in 1..n, NEW a \in Preceding(r, j) PROVE Beats(a, r[j], mode, now)
  <2>1. PICK k \in 1..(j - 1) : a = r[k]
        BY <1>10 DEF Preceding
  <2>2. k \in 1..n /\ k < j
        BY <1>4, <2>1
  <2>3. GoesBefore(a, r[j], mode, now)
        BY <1>4, <2>1, <2>2
  <2>4. a \in Competitors /\ r[j] \in Competitors
        BY <1>4, <2>1, <2>2
  <2>5. a.at \in Int /\ r[j].at \in Int
        BY <2>4, PolicyAssumption
  <2> QED BY <2>3, <2>5 DEF GoesBefore, Beats
<1>11. Cardinality(admitted) \in Nat /\ Costs(admitted) \in Nat /\ \A s \in SUBSET admitted : Costs(s) \in Nat
  <2>1. \A c \in admitted : c.cost \in Nat
        BY <1>7, PolicyAssumption
  <2>2. \A s \in SUBSET admitted : Costs(s) \in Nat
        BY <1>7, <2>1, CostsGrow
  <2> QED BY <1>7, <2>2, FS_CardinalityType
<1>12. budget.slots \in Nat /\ budget.cost \in Nat
       BY PolicyAssumption
<1>13. Cardinality(admitted) <= budget.slots /\ Costs(admitted) <= budget.cost
       BY <1>7, <1>11, <1>12
<1>14. ASSUME NEW c \in admitted
       PROVE  /\ c.ready /\ c.free /\ (c.deadline = NoDeadline \/ c.deadline > now)
              /\ mode = "SAFE" => c.safe
  <2>1. Hard(c, mode, now) = "HARD_GATES_PASSED" /\ c \in Competitors
        BY <1>7
  <2>2. c.deadline \in Int
        BY <2>1, PolicyAssumption
  <2>3. ~ (c.deadline # NoDeadline /\ c.deadline <= now) /\ ~ (mode = "SAFE" /\ ~ c.safe) /\ ~ ~ c.ready /\ ~ ~ c.free
        BY <2>1 DEF Hard
  <2>4. c.deadline = NoDeadline \/ c.deadline > now
        BY <2>2, <2>3
  <2> QED BY <2>3, <2>4
<1>15. ASSUME NEW c \in DOMAIN rules, rules[c] = "NO_CONCURRENCY_SLOT"
       PROVE  Cardinality(admitted) = budget.slots /\ \A a \in admitted : Beats(a, c, mode, now)
  <2>1. PICK j \in 1..n : c = r[j]
        BY <1>9
  <2>2. end.slots = 0 /\ admitted \subseteq Preceding(r, j)
        BY <1>8, <1>15, <2>1
  <2>3. Cardinality(admitted) = budget.slots
        BY <1>7, <1>11, <2>2
  <2> QED BY <1>10, <2>1, <2>2, <2>3
<1>16. ASSUME NEW c \in DOMAIN rules, rules[c] = "COST_BUDGET_UNAVAILABLE"
       PROVE  Costs({a \in admitted : Beats(a, c, mode, now)}) + c.cost > budget.cost
  <2> DEFINE better == {a \in admitted : Beats(a, c, mode, now)}
  <2>1. PICK j \in 1..n : c = r[j]
        BY <1>9
  <2>2. PICK s \in SUBSET admitted : s \subseteq Preceding(r, j) /\ Costs(s) + r[j].cost > budget.cost
        BY <1>8, <1>16, <2>1
  <2>3. s \in SUBSET better
        BY <1>10, <2>1, <2>2
  <2>4. IsFiniteSet(better) /\ better \in SUBSET admitted
        BY <1>7, FS_Subset
  <2> HIDE DEF better
  <2>5. \A x \in better : x.cost \in Nat
        BY <1>7, <2>4, PolicyAssumption
  <2>6. Costs(s) <= Costs(better) /\ Costs(s) \in Nat /\ Costs(better) \in Nat
        BY <1>11, <2>3, <2>4, <2>5, CostsGrow
  <2>7. c.cost \in Nat
    <3>1. c \in Competitors
          BY <1>4, <2>1
    <3> QED BY <3>1, PolicyAssumption
  <2>8. Costs(better) + c.cost > budget.cost
        BY <1>12, <2>1, <2>2, <2>6, <2>7
  <2> QED BY <2>8 DEF better
<1> QED BY <1>13, <1>14, <1>15, <1>16 DEF Fair, admitted, rules

(* The invariant of the policy: an evaluation is what evaluate() returned  *)
(* for some candidates, or for those of one kind.                          *)
PolicyInv ==
    /\ policyClock \in Nat
    /\ evaluation # <<>> =>
          \E C \in SUBSET Competitors, budget \in Budgets, now \in Nat :
              evaluation = <<[budget |-> budget, now |-> now, rules |-> Outcomes(C, budget, now)]>>

LEMMA PolicyStarts == PolicyInit => PolicyInv
BY DEF PolicyInit, PolicyInv

LEMMA PolicyStep == PolicyInv /\ [PolicyNext]_policyVars => PolicyInv'
<1> SUFFICES ASSUME PolicyInv, [PolicyNext]_policyVars PROVE PolicyInv'
    OBVIOUS
<1> USE DEF PolicyInv
<1>1. CASE PolicyTick
      BY <1>1 DEF PolicyTick
<1>2. ASSUME NEW C \in SUBSET Competitors, NEW budget \in Budgets, Evaluate(C, budget) PROVE PolicyInv'
      BY <1>2 DEF Evaluate
<1>3. ASSUME NEW C \in SUBSET Competitors, NEW kind, NEW budget \in Budgets, RankKind(C, kind, budget) PROVE PolicyInv'
  <2>1. {c \in C : c.kind = kind} \in SUBSET Competitors
        OBVIOUS
  <2> QED BY <1>2, <1>3, <2>1 DEF RankKind
<1>4. CASE UNCHANGED policyVars
      BY <1>4 DEF policyVars
<1> QED BY <1>1, <1>2, <1>3, <1>4 DEF PolicyNext

LEMMA AdmissionFollows == PolicyInv => AdmissionIsFair
<1> SUFFICES ASSUME PolicyInv, evaluation # <<>>,
                    NEW C \in SUBSET Competitors, NEW budget \in Budgets, NEW now \in Nat,
                    evaluation = <<[budget |-> budget, now |-> now, rules |-> Outcomes(C, budget, now)]>>
             PROVE  AdmissionIsFair
    BY DEF PolicyInv, AdmissionIsFair
<1>1. Fair(Outcomes(C, budget, now), budget, now)
      BY OutcomesAreFair
<1>2. evaluation[1] = [budget |-> budget, now |-> now, rules |-> Outcomes(C, budget, now)]
      OBVIOUS
<1>3. evaluation[1].budget = budget /\ evaluation[1].now = now /\ evaluation[1].rules = Outcomes(C, budget, now)
      BY <1>2
<1> DEFINE e == evaluation[1]
<1>4. Fair(e.rules, e.budget, e.now)
      BY <1>1, <1>3
<1> HIDE DEF e
<1> QED BY <1>4 DEF AdmissionIsFair, Fair, Admitted, Beats, Costs, e

(* No call of the policy admits more than its budget allows, and nobody is *)
(* refused a slot or the cost by a candidate that came behind it           *)
(* (evaluate, policy.py:70-131).                                           *)
THEOREM AdmissionStaysFair == PolicyInit /\ [][PolicyNext]_policyVars => []AdmissionIsFair
BY PolicyStarts, PolicyStep, AdmissionFollows, PTL

(* Everything that the run checks of cognition, for any lines, hours,     *)
(* goals, stimuli, plans and candidates: the four parts share no variable. *)
THEOREM CognitionStaysSound ==
    /\ PerceptionInit /\ [][PerceptionNext]_perceptionVars
    /\ ControllerInit /\ [][ControllerNext]_controllerVars
    /\ CoordinationInit /\ [][CoordinationNext]_coordinationVars
    /\ PolicyInit /\ [][PolicyNext]_policyVars
    => []CognitionIsSound
<1>1. PerceptionIsOrdered /\ ChangesChain /\ CoordinationIsSound /\ AdmissionIsFair => CognitionIsSound
      BY DEF CognitionIsSound
<1> QED BY <1>1, PerceptionStaysOrdered, ChangesStayChained, CoordinationStaysSound, AdmissionStaysFair, PTL
=============================================================================
