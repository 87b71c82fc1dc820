----------------------------- MODULE MemoryStores -----------------------------
(***************************************************************************)
(* The two memories and the store of the artifacts, which share no state.  *)
(*                                                                         *)
(* Semantic memory (semantic_memory.py): claims are proposed with their    *)
(* evidence, promoted by an operator and expired by the clock, each in one *)
(* transaction.  A subject stands for a claim key with the digest of its   *)
(* scope.  Moments are whole seconds: with fractions of a second the text  *)
(* that the database compares is not in the order of time.                 *)
(*                                                                         *)
(* Working memory (memory.py): entries expire, the least important one     *)
(* makes room for a better one, and the whole is cleared or rebuilt from   *)
(* facts.                                                                  *)
(***************************************************************************)
EXTENDS Naturals, FiniteSets

CONSTANTS
    Memories, Subjects, Claims, DataVersions, Episodes,
    MemoryHorizon     \* bound: the clock

ASSUME MemoryAssumption == MemoryHorizon \in Nat

VARIABLES
    memories,         \* the rows of semantic_memory, by their id
    episodes,         \* the rows of episode, which the evidence names
    memoryClock

memoryVars == <<memories, episodes, memoryClock>>

SemanticStatuses == {"CANDIDATE", "VALIDATED", "EXPIRED", "REJECTED"}
Living(rows) == {m \in DOMAIN rows : rows[m].status \in {"CANDIDATE", "VALIDATED"}}

MemoryInit == memories = <<>> /\ episodes = {} /\ memoryClock = 0

MemoryTick ==
    /\ memoryClock < MemoryHorizon
    /\ memoryClock' = memoryClock + 1
    /\ UNCHANGED <<memories, episodes>>

EpisodeRecorded(e) ==
    /\ e \notin episodes
    /\ episodes' = episodes \cup {e}
    /\ UNCHANGED <<memories, memoryClock>>

(* A faulty lookup: only what is validated already can contradict.         *)
ConflictsWithValidated(subject, claim) ==
    {m \in Living(memories) : memories[m].status = "VALIDATED" /\ memories[m].subject = subject
                                /\ memories[m].claim # claim}
Conflicts(subject, claim) ==
    {m \in Living(memories) : memories[m].subject = subject /\ memories[m].claim # claim}

Duplicate(subject, claim, version) ==
    \E m \in DOMAIN memories :
       /\ memories[m].subject = subject /\ memories[m].claim = claim
       /\ memories[m].version = version

(* propose(): the clock is read before the transaction is entered, so the  *)
(* candidate may be overdue when it is stored.  A conflict is written on   *)
(* both sides.                                                             *)
Propose(m, subject, claim, version, until, evidence) ==
    LET conflicts == Conflicts(subject, claim)
        row == [subject |-> subject, claim |-> claim, version |-> version, until |-> until,
                evidence |-> evidence, status |-> "CANDIDATE", links |-> conflicts]
    IN  /\ m \notin DOMAIN memories
        /\ evidence # {} /\ evidence \subseteq episodes
        /\ ~ Duplicate(subject, claim, version)
        /\ memories' = [x \in DOMAIN memories \cup {m} |->
              IF x = m THEN row
              ELSE IF x \in conflicts THEN [memories[x] EXCEPT !.links = @ \cup {m}]
              ELSE memories[x]]
        /\ UNCHANGED <<episodes, memoryClock>>

\* promote(): an overdue candidate expires, a contradicted one stays as it is
PromoteMemory(m) ==
    /\ m \in DOMAIN memories /\ memories[m].status = "CANDIDATE"
    /\ \/ /\ memories[m].until <= memoryClock
          /\ memories' = [memories EXCEPT ![m].status = "EXPIRED"]
       \/ /\ memories[m].until > memoryClock
          /\ memories[m].links = {} /\ memories[m].evidence \subseteq episodes
          /\ memories' = [memories EXCEPT ![m].status = "VALIDATED"]
    /\ UNCHANGED <<episodes, memoryClock>>

Due(m) == m \in Living(memories) /\ memories[m].until <= memoryClock

ExpireDue ==
    /\ \E m \in DOMAIN memories : Due(m)
    /\ memories' = [m \in DOMAIN memories |->
          IF Due(m) THEN [memories[m] EXCEPT !.status = "EXPIRED"] ELSE memories[m]]
    /\ UNCHANGED <<episodes, memoryClock>>

\* Ids are random: which of those that are not used comes next makes no difference
FreshId == {m \in Memories \ DOMAIN memories : m = CHOOSE x \in Memories \ DOMAIN memories : TRUE}

MemoryNext ==
    \/ \E m \in FreshId, s \in Subjects, c \in Claims, v \in DataVersions,
          until \in 1..MemoryHorizon, evidence \in SUBSET Episodes :
          Propose(m, s, c, v, until, evidence)
    \/ \E m \in Memories : PromoteMemory(m)
    \/ ExpireDue \/ MemoryTick
    \/ \E e \in Episodes : EpisodeRecorded(e)

MemorySpec == MemoryInit /\ [][MemoryNext]_memoryVars

\* validated(): what the rest of the system takes for knowledge
Validated == {m \in DOMAIN memories : memories[m].status = "VALIDATED" /\ memories[m].until > memoryClock}

(* Two validated memories of one subject make the same claim, whichever    *)
(* order they were proposed, promoted and expired in.                      *)
NoContradictoryKnowledge ==
    \A a, b \in Validated : memories[a].subject = memories[b].subject => memories[a].claim = memories[b].claim

(* Living memories of one subject that claim different things name each    *)
(* other, and one of them at most has been promoted.                       *)
ContradictionsAreMutual ==
    \A a, b \in Living(memories) :
       memories[a].subject = memories[b].subject /\ memories[a].claim # memories[b].claim =>
          /\ b \in memories[a].links
          /\ {memories[a].status, memories[b].status} # {"VALIDATED"}

(* Semantic memory holds no two truths, and a contradiction is known to    *)
(* both of the claims it is between.                                       *)
KnowledgeIsConsistent == NoContradictoryKnowledge /\ ContradictionsAreMutual

-----------------------------------------------------------------------------
(* Working memory. *)

CONSTANTS
    EntryIds,           \* numbers, which sort as the ids do
    Importances, Lifetimes,
    EntryCapacity,
    EntryHorizon        \* bound: the clock

ASSUME WorkingMemoryAssumption ==
    /\ EntryCapacity \in Nat \ {0} /\ EntryHorizon \in Nat
    /\ EntryIds \cup Importances \cup Lifetimes \subseteq Nat

VARIABLES
    entries,        \* [id, importance, created, expires]
    entryClock,
    emptied         \* history: the last step cleared or rebuilt the memory

entryVars == <<entries, entryClock, emptied>>

EntryInit == entries = {} /\ entryClock = 0 /\ emptied = FALSE

EntryTick ==
    /\ entryClock < EntryHorizon
    /\ entryClock' = entryClock + 1 /\ emptied' = FALSE
    /\ UNCHANGED entries

Fresh(s) == {e \in s : e.expires > entryClock}

\* The order of eviction, the worst first
Worse(e, f) ==
    \/ e.importance < f.importance
    \/ e.importance = f.importance /\ e.created < f.created
    \/ e.importance = f.importance /\ e.created = f.created /\ e.id < f.id

(* A faulty eviction: the oldest entry goes.                               *)
Oldest(s) == CHOOSE e \in s : \A f \in s : e = f \/ e.created < f.created \/ (e.created = f.created /\ e.id < f.id)
Victim(s) == CHOOSE e \in s : \A f \in s : e = f \/ Worse(e, f)

\* remember(): what has expired is reclaimed, an id that is there is a duplicate
Remember(id, importance, lifetime) ==
    LET entry == [id |-> id, importance |-> importance, created |-> entryClock, expires |-> entryClock + lifetime]
        fresh == Fresh(entries)
        all == fresh \cup {entry}
    IN  /\ emptied' = FALSE
        /\ IF \E e \in fresh : e.id = id THEN entries' = fresh
           ELSE entries' = IF Cardinality(all) > EntryCapacity THEN all \ {Victim(all)} ELSE all
        /\ UNCHANGED entryClock

\* get(), entries(), snapshot() and metrics() reclaim
Reclaim ==
    /\ Fresh(entries) # entries
    /\ entries' = Fresh(entries) /\ emptied' = FALSE
    /\ UNCHANGED entryClock

ClearEntries ==
    /\ entries # {} /\ entries' = {} /\ emptied' = TRUE
    /\ UNCHANGED entryClock

\* The order of entries() and of rebuild(), the best first
Ahead(e, f) ==
    \/ e.importance > f.importance
    \/ e.importance = f.importance /\ e.created > f.created
    \/ e.importance = f.importance /\ e.created = f.created /\ e.id < f.id

(* rebuild(): the best of the facts that have not expired, with the times  *)
(* they had.  Facts that have expired are left out like facts that are not *)
(* there, so the ones that are tried have not.                             *)
Rebuild(facts) ==
    LET fresh == Fresh(facts) IN
    /\ IsFiniteSet(facts)
    /\ \A e, f \in fresh : e.id = f.id => e = f
    /\ entries' = {e \in fresh : Cardinality({f \in fresh : Ahead(f, e)}) < EntryCapacity}
    /\ emptied' = TRUE
    /\ UNCHANGED entryClock

EntryNext ==
    \/ EntryTick \/ Reclaim \/ ClearEntries
    \/ \E id \in EntryIds, i \in Importances, l \in Lifetimes : Remember(id, i, l)
    \/ \E facts \in SUBSET [id : EntryIds, importance : Importances, created : {entryClock}, expires : {entryClock + 1}] :
          Rebuild(facts)

EntrySpec == EntryInit /\ [][EntryNext]_entryVars

(* An entry that leaves before its time, other than with the whole memory, *)
(* is no more important than any entry that stays, and a full memory stays *)
(* full.                                                                   *)
BestKept ==
    [][\A e \in entries \ entries' :
          \/ e.expires <= entryClock \/ emptied'
          \/ /\ Cardinality(entries') = EntryCapacity
             /\ \A f \in entries' : e.importance <= f.importance]_entryVars

-----------------------------------------------------------------------------
(* The content-addressed artifact store (artifacts.py): a blob is written  *)
(* to a file first and its row is inserted by the caller's transaction     *)
(* afterwards; the collection of orphans reads the references, then walks  *)
(* the directory in a thread.                                              *)
(*                                                                         *)
(* A blob is its digest.  Clients stage and register, one collector runs   *)
(* beside them, and the process may die at any step.  The files carry the  *)
(* clock of the machine, which is also the clock of the collection.        *)

CONSTANTS
    Blobs, ArtifactClients,
    Grace,              \* older_than of a collection
    ArtifactHorizon     \* bound: the clock

ASSUME ArtifactAssumption == {Grace, ArtifactHorizon} \subseteq Nat

VARIABLES
    artifactRows,   \* the digests of the table artifact
    files,          \* blob -> time of its last change, or Absent
    leftovers,      \* times of temporary files whose writer died
    clients,
    collector,
    artifactClock,
    stale           \* history: blobs whose file was older than Grace when it was used, or came too late

artifactVars == <<artifactRows, files, leftovers, clients, collector, artifactClock, stale>>

Absent == ArtifactHorizon + 1
AtRest == [pc |-> "idle"]
Present(b) == files[b] # Absent

ArtifactInit ==
    /\ artifactRows = {} /\ leftovers = {} /\ stale = {}
    /\ files = [b \in Blobs |-> Absent]
    /\ clients = [c \in ArtifactClients |-> AtRest]
    /\ collector = AtRest
    /\ artifactClock = 0

ArtifactTick ==
    /\ artifactClock < ArtifactHorizon
    /\ artifactClock' = artifactClock + 1
    /\ UNCHANGED <<artifactRows, files, leftovers, clients, collector, stale>>

(* stage(): content that exists already is compared and left as it is,     *)
(* other content goes to a temporary file first.                           *)
Stage(c) ==
    /\ clients[c].pc = "idle"
    /\ \E b \in Blobs :
          clients' = [clients EXCEPT ![c] =
              [pc |-> IF Present(b) THEN "staged" ELSE "writing", blob |-> b,
               time |-> IF Present(b) THEN files[b] ELSE artifactClock]]
    /\ UNCHANGED <<artifactRows, files, leftovers, collector, artifactClock, stale>>

Outlived(time) == time + Grace <= artifactClock
Judged(b) == collector.pc = "unlink" /\ collector.blob = b

(* The file keeps the time at which its temporary was written, so a slow   *)
(* writer may put an older file in the place of a newer one; time becomes  *)
(* that of the file for everybody who has staged the blob.  A collector    *)
(* that has judged the file in its place removes the new one.              *)
Replace(c) ==
    LET blob == clients[c].blob
        time == clients[c].time
    IN  /\ clients[c].pc = "writing"
        /\ files' = [files EXCEPT ![blob] = time]
        /\ stale' = IF Outlived(time) \/ Judged(blob) THEN stale \cup {blob} ELSE stale
        /\ clients' = [x \in ArtifactClients |->
              IF x = c THEN [clients[c] EXCEPT !.pc = "staged"]
              ELSE IF clients[x].pc \in {"staged", "register"} /\ clients[x].blob = blob
                   THEN [clients[x] EXCEPT !.time = time] ELSE clients[x]]
        /\ UNCHANGED <<artifactRows, leftovers, collector, artifactClock>>

\* register(): the file must be there, whoever wrote it
ValidateStaged(c) ==
    /\ clients[c].pc = "staged"
    /\ clients' = [clients EXCEPT ![c] =
          IF Present(clients[c].blob) THEN [clients[c] EXCEPT !.pc = "register"] ELSE AtRest]
    /\ UNCHANGED <<artifactRows, files, leftovers, collector, artifactClock, stale>>

\* ... and the row is there when the transaction commits; a row that exists is reused
Register(c) ==
    /\ clients[c].pc = "register"
    /\ artifactRows' = artifactRows \cup {clients[c].blob}
    /\ stale' = IF clients[c].blob \notin artifactRows /\ Outlived(clients[c].time)
                THEN stale \cup {clients[c].blob} ELSE stale
    /\ clients' = [clients EXCEPT ![c] = AtRest]
    /\ UNCHANGED <<files, leftovers, collector, artifactClock>>

\* The transaction of the caller rolls back and the staged blob stays behind
Abandon(c) ==
    /\ clients[c].pc \in {"staged", "register"}
    /\ clients' = [clients EXCEPT ![c] = AtRest]
    /\ UNCHANGED <<artifactRows, files, leftovers, collector, artifactClock, stale>>

\* collect_orphans(): the references of this moment, the cutoff of this moment
CutoffForgetsGrace(now) == now                    \* A faulty cutoff: the grace period is not taken off
Cutoff(now) == now - Grace

CollectorReads ==
    /\ collector.pc = "idle"
    /\ artifactClock >= Grace
    /\ collector' = [pc |-> "sweep", referenced |-> artifactRows, cutoff |-> Cutoff(artifactClock),
                     seen |-> {}]
    /\ UNCHANGED <<artifactRows, files, leftovers, clients, artifactClock, stale>>

Collectable(b) ==
    /\ Present(b) /\ b \notin collector.referenced
    /\ files[b] <= collector.cutoff

(* One path of the walk is judged, then removed; between the two another   *)
(* writer may have replaced the file.                                      *)
Examine(b) ==
    /\ collector.pc = "sweep" /\ Present(b) /\ b \notin collector.seen
    /\ collector' = IF Collectable(b)
                    THEN [pc |-> "unlink", referenced |-> collector.referenced,
                          cutoff |-> collector.cutoff, seen |-> collector.seen, blob |-> b]
                    ELSE [collector EXCEPT !.seen = @ \cup {b}]
    /\ UNCHANGED <<artifactRows, files, leftovers, clients, artifactClock, stale>>

Unlink ==
    /\ collector.pc = "unlink"
    /\ files' = [files EXCEPT ![collector.blob] = Absent]
    /\ collector' = [pc |-> "sweep", referenced |-> collector.referenced,
                     cutoff |-> collector.cutoff, seen |-> collector.seen \cup {collector.blob}]
    /\ UNCHANGED <<artifactRows, leftovers, clients, artifactClock, stale>>

\* A temporary file that is old enough goes, its writer alive or not: then os.replace fails
UnlinkTemporary ==
    /\ collector.pc = "sweep"
    /\ \/ \E t \in leftovers :
             t <= collector.cutoff /\ leftovers' = leftovers \ {t} /\ UNCHANGED clients
       \/ \E c \in ArtifactClients :
             /\ clients[c].pc = "writing" /\ clients[c].time <= collector.cutoff
             /\ clients' = [clients EXCEPT ![c] = AtRest]
             /\ UNCHANGED leftovers
    /\ UNCHANGED <<artifactRows, files, collector, artifactClock, stale>>

\* The walk ends, or a path it has listed is gone when it asks for its time
CollectorEnds ==
    /\ collector.pc = "sweep"
    /\ collector' = AtRest
    /\ UNCHANGED <<artifactRows, files, leftovers, clients, artifactClock, stale>>

ArtifactCrash ==
    /\ leftovers' = leftovers \cup {clients[c].time : c \in {x \in ArtifactClients : clients[x].pc = "writing"}}
    /\ clients' = [c \in ArtifactClients |-> AtRest]
    /\ collector' = AtRest
    /\ clients # clients' \/ collector # collector'
    /\ UNCHANGED <<artifactRows, files, artifactClock, stale>>

ArtifactNext ==
    \/ \E c \in ArtifactClients : Stage(c) \/ Replace(c) \/ ValidateStaged(c) \/ Register(c) \/ Abandon(c)
    \/ CollectorReads \/ Unlink \/ UnlinkTemporary \/ CollectorEnds
    \/ \E b \in Blobs : Examine(b)
    \/ ArtifactTick \/ ArtifactCrash

ArtifactSpec == ArtifactInit /\ [][ArtifactNext]_artifactVars

(* The blob of a registered artifact is never collected, unless its file   *)
(* had already outlived the grace period when the row was inserted or when *)
(* a writer put it there, or a writer replaced it after the collector had  *)
(* looked at its time: the references may be read before the row and the   *)
(* file removed after it.                                                  *)
RegisteredIsPresent == \A b \in artifactRows : Present(b) \/ b \in stale
=============================================================================
