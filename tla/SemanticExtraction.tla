------------------------- MODULE SemanticExtraction -------------------------
(* Episodic memories summed up as semantic ones (capture/semantic/): a cron   *)
(* job reads the episodic rows, clusters those of a user that are not summed  *)
(* up yet, has a model write a summary of each cluster, and stores each with  *)
(* a mark on its sources. A job that takes longer than two hours overlaps the *)
(* next; users delete and promotion moves rows meanwhile. Ages, confidences   *)
(* and the vectors (use_vector_clustering is never set) are left out.         *)
EXTENDS Naturals, Sequences, FiniteSets, Functions

CONSTANTS
    Memories,          \* rows of sufficient age and confidence
    User, Room, Words, \* a memory's user, its group or "private", its keywords
    Jobs,              \* jobs that may overlap
    MinSize,           \* min_cluster_size
    MaxClusters,       \* max_clusters_per_run
    MaxPerCluster,     \* max_memories_per_cluster
    MaxReads,          \* jobs ever run
    MaxMoves           \* memories promoted or deleted at a time

VARIABLES
    rows,      \* stored memories: [layer, done]; done: summarized
    job,       \* a job: [at, clusters, results, left], see NoJob
    sums,      \* the summaries stored, in order: [from, of]
    reads,     \* jobs run so far
    excuses    \* per memory: updates that failed, overlaps and crashes before its mark

vars == <<rows, job, sums, reads, excuses>>

\* clusters: sequences of memories; results: [from, of], a cluster with a text and the
\* cluster this text is about; left: sources of the summary stored last without a mark.
NoJob == [at |-> "idle", clusters |-> <<>>, results |-> <<>>, left |-> <<>>]

Stored == DOMAIN rows
Sources(cs) == UNION {Range(c) : c \in Range(cs)}
Holds(j) == Sources(job[j].clusters) \cup Range(job[j].left)
            \cup UNION {Range(r.from) : r \in Range(job[j].results)}

Init ==
    /\ rows = [m \in Memories |-> [layer |-> "episodic", done |-> FALSE]]
    /\ job = [j \in Jobs |-> NoJob] /\ sums = <<>> /\ reads = 0
    /\ excuses = [m \in Memories |-> 0]

-----------------------------------------------------------------------------
(* semantic_clustering.py.                                                   *)

\* Mutant: what is summed up is clustered again.
Eligible_Done == {m \in Stored : rows[m].layer = "episodic"}

\* _prefilter.
Eligible == {m \in Stored : rows[m].layer = "episodic" /\ ~rows[m].done}

\* The keywords, from the most frequent.
Having(ms, w) == {m \in ms : w \in Words[m]}
Orders(ms) ==
    LET ws == UNION {Words[m] : m \in ms} IN
    {o \in Injection(1..Cardinality(ws), ws) : \A i, j \in DOMAIN o :
         i < j => Cardinality(Having(ms, o[i])) >= Cardinality(Having(ms, o[j]))}

\* _entity_topic_clustering, in one order of the keywords: each takes the memories no
\* keyword took before it, if there are enough.
Free(ms, order, taken, i) == Having(ms, order[i]) \ UNION {taken[k] : k \in 1..(i - 1)}
Entities(ms, order) ==
    {taken \in [DOMAIN order -> SUBSET ms] : \A i \in DOMAIN order :
         LET c == Free(ms, order, taken, i)
         IN taken[i] = IF Cardinality(c) < MinSize THEN {} ELSE c}

\* The rest is one cluster (the memories are of one type), again if enough.
Clusters(ms, taken) ==
    LET rest == ms \ UNION Range(taken)
    IN (Range(taken) \ {{}}) \cup (IF Cardinality(rest) < MinSize THEN {} ELSE {rest})

\* _group_by_user: each user's clusters, and the ways they may come together.
Ways(u) == LET ms == {m \in Eligible : User[m] = u}
           IN UNION {{Clusters(ms, taken) : taken \in Entities(ms, order)} : order \in Orders(ms)}

OfUsers ==
    LET us == {User[m] : m \in Eligible}
    IN {UNION Range(w) : w \in {w \in [us -> UNION {Ways(u) : u \in us}] : \A u \in us : w[u] \in Ways(u)}}

\* cluster: of the memories of each cluster so many, and of all clusters, the largest
\* first, so many.
Most(n, limit) == IF n > limit THEN limit ELSE n
Cut(c) == {SubSeq(s, 1, Most(Len(s), MaxPerCluster)) : s \in Injection(1..Cardinality(c), c)}

Cuts(cs) == {t \in Injection(1..Cardinality(cs), cs) : \A i, j \in DOMAIN t :
                 i < j => Most(Cardinality(t[i]), MaxPerCluster) >= Most(Cardinality(t[j]), MaxPerCluster)}

-----------------------------------------------------------------------------
(* semantic_extractor.py.                                                    *)

\* run reads the rows and clusters them. A memory that another job holds without
\* having marked it may be summed up twice.
Read(j) ==
    /\ job[j].at = "idle" /\ reads < MaxReads /\ reads' = reads + 1
    /\ \E own \in OfUsers : \E cs \in Cuts(own) :
         /\ cs # <<>>
         /\ \E pick \in [DOMAIN cs -> UNION {Cut(c) : c \in Range(cs)}] :
              /\ \A i \in DOMAIN cs : pick[i] \in Cut(cs[i])
              /\ LET taken == SubSeq(pick, 1, Most(Len(pick), MaxClusters)) IN
                   /\ job' = [job EXCEPT ![j] = [NoJob EXCEPT !.at = "ask", !.clusters = taken]]
                   /\ excuses' = [m \in Memories |-> excuses[m] +
                          IF m \in Sources(taken) THEN Cardinality({k \in Jobs \ {j} : m \in Holds(k)}) ELSE 0]
    /\ UNCHANGED <<rows, sums>>

\* What the model may answer: for a batch, texts taken for the clusters in their order,
\* where it may have left one out; one by one where there is one or the batch failed.
Batched(n) ==
    {s \in UNION {[1..k -> 1..n] : k \in 0..n} : \A i, j \in DOMAIN s : i < j => s[i] < s[j]}
Result(cs, i, k) == [from |-> cs[i], of |-> cs[k]]
Results(cs) ==
    {[i \in DOMAIN s |-> Result(cs, i, s[i])] : s \in IF Len(cs) > 1 THEN Batched(Len(cs)) ELSE {}}
    \cup {[i \in DOMAIN s |-> Result(cs, s[i], s[i])] : s \in Batched(Len(cs))}

Settled(jb) == IF jb.results = <<>> /\ jb.left = <<>> THEN NoJob ELSE jb

\* _extract_clusters_batch, of one batch.
Answer(j) ==
    /\ job[j].at = "ask"
    /\ \E rs \in Results(job[j].clusters) :
         job' = [job EXCEPT ![j] = Settled([NoJob EXCEPT !.at = "keep", !.results = rs])]
    /\ UNCHANGED <<rows, sums, reads, excuses>>

\* _persist_result: the summary is stored, or that fails and the next one is tried.
Keep(j) ==
    /\ job[j].at = "keep" /\ job[j].left = <<>>
    /\ LET r == Head(job[j].results)
           rest == [job[j] EXCEPT !.results = Tail(@)]
       IN \/ /\ sums' = Append(sums, r)
             /\ job' = [job EXCEPT ![j] = [rest EXCEPT !.left = r.from]]
          \/ /\ job' = [job EXCEPT ![j] = Settled(rest)]
             /\ UNCHANGED sums
    /\ UNCHANGED <<rows, reads, excuses>>

\* Each source is written back as it was read, with the mark; of one that is gone
\* nothing is written, and a failure is only logged.
Mark(j) ==
    /\ job[j].left # <<>>
    /\ LET m == Head(job[j].left) IN
         \/ /\ rows' = [n \in Stored |-> IF n = m THEN [layer |-> "episodic", done |-> TRUE] ELSE rows[n]]
            /\ UNCHANGED excuses
         \/ /\ excuses' = [excuses EXCEPT ![m] = @ + 1]
            /\ UNCHANGED rows
    /\ job' = [job EXCEPT ![j] = Settled([job[j] EXCEPT !.left = Tail(@)])]
    /\ UNCHANGED <<sums, reads>>

-----------------------------------------------------------------------------
\* Promotion, which keeps the mark of a row; the user's deletion; the end of the bot.
May(m) == m \in Stored /\ Cardinality({n \in Memories : n \notin Stored \/ rows[n].layer # "episodic"}) < MaxMoves

Promote(m) ==
    /\ May(m) /\ rows[m].layer = "episodic"
    /\ rows' = [rows EXCEPT ![m].layer = "semantic"]
    /\ UNCHANGED <<job, sums, reads, excuses>>

Delete(m) ==
    /\ May(m)
    /\ rows' = [n \in Stored \ {m} |-> rows[n]]
    /\ UNCHANGED <<job, sums, reads, excuses>>

Crash ==
    /\ \E j \in Jobs : job[j] # NoJob
    /\ excuses' = [m \in Memories |-> excuses[m] + Cardinality({j \in Jobs : m \in Holds(j)})]
    /\ job' = [j \in Jobs |-> NoJob]
    /\ UNCHANGED <<rows, sums, reads>>

Next ==
    \/ \E j \in Jobs : Read(j) \/ Answer(j) \/ Keep(j) \/ Mark(j)
    \/ \E m \in Memories : Promote(m) \/ Delete(m)
    \/ Crash

Spec == Init /\ [][Next]_vars

-----------------------------------------------------------------------------
\* Unless a mark failed, a job overlapped another or the bot ended before it, a memory
\* is the source of one summary.
SummedOnce ==
    \A m \in Memories : Cardinality({i \in DOMAIN sums : m \in Range(sums[i].from)}) <= 1 + excuses[m]

\* A summary is of one user, of enough memories and of no more than fit; a job's
\* clusters share no memory.
OneUser ==
    \A i \in DOMAIN sums : LET c == sums[i].from IN
        /\ \A k, l \in DOMAIN c : User[c[k]] = User[c[l]]
        /\ Len(c) >= MinSize /\ Len(c) <= MaxPerCluster
Disjoint ==
    \A j \in Jobs : \A k, l \in DOMAIN job[j].clusters :
        k # l => Range(job[j].clusters[k]) \cap Range(job[j].clusters[l]) = {}

\* The three of them.
ExtractionSound == SummedOnce /\ OneUser /\ Disjoint

\* Do not hold: a summary's sources are of its group (it gets the first one's group and
\* scope, semantic_extractor.py:409, so a private chat can be summed up for a group);
\* its text is about its sources (:363 takes the answer's items by their place and
\* never looks at the cluster_key the prompt asks for); what was deleted is in no
\* summary stored later; a row that was promoted stays so (:530 writes the old layer).
OneRoom == \A i \in DOMAIN sums : \A k, l \in DOMAIN sums[i].from : Room[sums[i].from[k]] = Room[sums[i].from[l]]
AboutItsSources == \A i \in DOMAIN sums : sums[i].of = sums[i].from
DeletedNotSummed == [][Len(sums') > Len(sums) => Range(sums'[Len(sums')].from) \subseteq Stored]_vars
PromotedStays == [][\A m \in Stored \cap DOMAIN rows' : rows[m].layer = "semantic" => rows'[m].layer = "semantic"]_vars
=============================================================================
