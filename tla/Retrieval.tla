----------------------------- MODULE Retrieval -----------------------------
(* Retrieval of one user's chat, and what is done with the result:           *)
(* retrieval/retrieval_engine.py and the strategies of retrieval/strategies/,*)
(* services/context_builder.py (build_sections) and the list of recently     *)
(* injected memories of services/shared_state.py. A request waits for the    *)
(* router, the collection, the session manager, the access counts and the    *)
(* chat history; meanwhile memories are captured, archived and deleted, and  *)
(* other requests run. Which memories the collection shows to a chat is in   *)
(* VectorStore, how a result is ordered in Ranking: here it is any of them.  *)
EXTENDS Integers, Sequences, SequencesExt, FiniteSets, FiniteSetsExt

CONSTANTS
    Memories,
    Requests,
    TopK, MaxContext,
    MaxTrack,      \* SharedState.max_recent_track
    MaxAsked       \* bound: requests of a run, and reads of whole rows

VARIABLES
    store,         \* the collection: memory -> access count
    working,       \* the managers' memories: 1 is the engine's, 2 the one after delete_all
    current,       \* the manager that captures use
    injected,      \* recently_injected[session]
    req,           \* the requests
    object,        \* the access counts of the sessions' memory objects
    unused,        \* memories not captured yet
    snapshots,     \* whole rows that were read and may be written back
    accessed,      \* ghost: the accesses of each memory
    exact,         \* ghost: memories whose counts nothing disturbed
    asked

vars == <<store, working, current, injected, req, object, unused, snapshots, accessed, exact, asked>>

Idle == [pc |-> "idle"]

Init ==
    /\ store = <<>> /\ working = [n \in 1..2 |-> {}] /\ current = 1
    /\ injected = <<>>
    /\ req = [i \in Requests |-> Idle]
    /\ unused = Memories /\ object = [m \in Memories |-> 0] /\ snapshots = {}
    /\ accessed = [m \in Memories |-> 0] /\ exact = Memories
    /\ asked = 0

Stored == DOMAIN store
Take(S, n) == {T \in SUBSET S : Cardinality(T) = Min({n, Cardinality(S)})}

-----------------------------------------------------------------------------
(* The memories themselves, as the other components move them.               *)

\* A memory goes to the collection with its count.
Put(m, count) == store' = [k \in Stored \cup {m} |-> IF k = m THEN count ELSE store[k]]

Capture(m) ==
    /\ m \in unused /\ unused' = unused \ {m}
    /\ \/ /\ working' = [working EXCEPT ![current] = @ \cup {m}]
          /\ UNCHANGED store
       \/ /\ Put(m, 0)
          /\ UNCHANGED working
    /\ UNCHANGED <<current, injected, req, object, snapshots, accessed, exact, asked>>

\* The lifecycle manager, which keeps the manager it started with, stores a
\* session's memory and clears it after that.
ArchiveStores(m) ==
    /\ m \in working[1] \ Stored
    /\ Put(m, object[m])
    /\ UNCHANGED <<working, current, injected, req, object, unused, snapshots, accessed, exact, asked>>

ArchiveClears(m) ==
    /\ m \in working[1] \cap Stored
    /\ working' = [working EXCEPT ![1] = @ \ {m}]
    /\ UNCHANGED <<store, current, injected, req, object, unused, snapshots, accessed, exact, asked>>

\* delete_all_memories replaces the storage module's manager, not the engine's.
DeleteAll ==
    /\ unused # Memories
    /\ store' = <<>> /\ current' = 2 /\ exact' = {}
    /\ working' = [working EXCEPT ![2] = {}]
    /\ UNCHANGED <<injected, req, object, unused, snapshots, accessed, asked>>

-----------------------------------------------------------------------------
(* The writers of whole rows: promotion and demotion (lifecycle_manager.py), *)
(* reviews (reinforcement.py, grace_period.py), the marks of extracted       *)
(* memories (semantic_extractor.py) and merged conflicts (capture/conflict). *)
(* Each reads memories, waits, and writes each back with the count it read.  *)

Reads(m) ==
    /\ m \in Stored /\ asked < MaxAsked
    /\ asked' = asked + 1
    /\ snapshots' = snapshots \cup {[memory |-> m, count |-> store[m]]}
    /\ UNCHANGED <<store, working, current, injected, req, object, unused, accessed, exact>>

Searched == UNION {IF req[j].pc \in {"working", "sync"} THEN req[j].found ELSE {} : j \in Requests}

\* update_memory, which changes nothing when the row is gone; the count is the one
\* that was read, a review or a merge adds one.
WritesBack(r, more) ==
    /\ snapshots' = snapshots \ {r}
    /\ store' = [m \in Stored |-> IF m = r.memory THEN r.count + more ELSE store[m]]
    /\ accessed' = [accessed EXCEPT ![r.memory] = @ + more]
    /\ exact' = IF r.memory \in Stored /\ store[r.memory] = r.count /\ (more = 1 => r.memory \notin Searched)
                THEN exact ELSE exact \ {r.memory}
    /\ UNCHANGED <<working, current, injected, req, object, unused, asked>>

\* The memory is left as it is, or its update fails.
Drops(r) ==
    /\ snapshots' = snapshots \ {r}
    /\ UNCHANGED <<store, working, current, injected, req, object, unused, accessed, exact, asked>>

-----------------------------------------------------------------------------
(* A request.                                                                *)

Busy(i) == UNION {IF j # i /\ req[j].pc \in {"working", "sync"} THEN req[j].found ELSE {} : j \in Requests}

\* search_memories, or build_sections, which also injects the result. The request
\* waits for the router and the embedding of its query.
Ask(i, inject) ==
    /\ req[i].pc = "idle" /\ asked < MaxAsked
    /\ asked' = asked + 1
    /\ req' = [req EXCEPT ![i] = [pc |-> "query", inject |-> inject]]
    /\ UNCHANGED <<store, working, current, injected, object, unused, snapshots, accessed, exact>>

\* _update_access_and_sync up to its wait: the ranked list s is cut to top_k, and
\* each memory of it is accessed; those that are live are the session's objects,
\* which are written when they have been archived.
Access(i, s, live, read) ==
    \E R \in Take(Range(s), TopK) :
        /\ accessed' = [m \in Memories |-> accessed[m] + (IF m \in R THEN 1 ELSE 0)]
        /\ exact' = exact \ (R \cap (Busy(i) \cup (live \cap Stored)))
        /\ object' = [m \in Memories |-> object[m] + (IF m \in R \cap live THEN 1 ELSE 0)]
        /\ req' = [req EXCEPT ![i] = [pc |-> "sync", inject |-> req[i].inject, list |-> s, found |-> Range(s), result |-> R,
                                       write |-> [m \in R \ (live \ Stored) |-> IF m \in live THEN object'[m] ELSE read[m] + 1]]]

\* query_memories, with the access counts the collection has; a failure is no result.
Nearest(n) == Take(Stored, n) \cup {{}}
Read(S) == [m \in S |-> store[m]]

\* The strategies: the nearest as they are, the nearest by time or emotion, and,
\* hybrid or along the graph, the nearest merged with the session's.
VectorOnly(i) == \E S \in Nearest(TopK) : Access(i, SetToSeq(S), {}, Read(S))
TimeAware(i) == \E S \in Nearest(2 * TopK) : Access(i, SetToSeq(S), {}, Read(S))
Hybrid(i) ==
    \E S \in Nearest(2 * TopK) :
        /\ req' = [req EXCEPT ![i] = [pc |-> "working", inject |-> req[i].inject, found |-> S, read |-> Read(S)]]
        /\ exact' = exact \ (S \cap Busy(i))
        /\ UNCHANGED <<object, accessed>>

QueryReturns(i) ==
    /\ req[i].pc = "query"
    /\ VectorOnly(i) \/ TimeAware(i) \/ Hybrid(i)
    /\ UNCHANGED <<store, working, current, injected, unused, snapshots, asked>>

\* Mutant: the merge does not look at the ids it has.
Merged_Twice(W, P) ==
    {W \o SetToSeq(T) : T \in Take(P, 2 * TopK - Len(W))}

\* _merge_memories: working memories first, then the others while there is room.
Merged(W, P) ==
    {W \o SetToSeq(T) : T \in Take(P \ Range(W), 2 * TopK - Len(W))}

MaxWorking == Min({MaxContext, TopK + 1})
Relevant == Min({2 * MaxContext, 10})

\* _get_relevant_working_memories: those that share a word with the query or are
\* recent; a failure is none.
WorkingReturns(i) ==
    /\ req[i].pc = "working"
    /\ \E W \in {S \in SUBSET working[1] : Cardinality(S) <= Relevant} :
       \E V \in Take(W, MaxWorking) :
       \E s \in Merged(SetToSeq(V), req[i].found) : Access(i, s, V, req[i].read)
    /\ UNCHANGED <<store, working, current, injected, unused, snapshots, asked>>

\* filter_recently_injected: all of them recent, half of them are kept.
Filtered(R) ==
    IF R = {} THEN {{}}
    ELSE IF R \subseteq Range(injected) THEN Take(R, Max({1, Cardinality(R) \div 2}))
    ELSE {R \ Range(injected)}

\* retrieve ends; the context builder filters, and waits for the chat history.
Deliver(i) ==
    \E F \in Filtered(req[i].result) :
        req' = [req EXCEPT ![i] =
                  IF req[i].inject
                  THEN [pc |-> "history", kept |-> F, since |-> {}, again |-> req[i].result \subseteq Range(injected)]
                  ELSE Idle]

\* Mutant: the count is added to what is stored by now.
Written_Added(i) == [m \in Stored |-> IF m \in DOMAIN req[i].write THEN store[m] + req[i].write[m] ELSE store[m]]

\* batch_update_access_stats: the count is the memory object's own.
Written(i) == [m \in Stored |-> IF m \in DOMAIN req[i].write THEN req[i].write[m] ELSE store[m]]

\* A failed update changes nothing, and nobody is told.
SyncReturns(i) ==
    /\ req[i].pc = "sync"
    /\ \/ store' = Written(i) /\ UNCHANGED exact
       \/ exact' = exact \ DOMAIN req[i].write /\ UNCHANGED store
    /\ Deliver(i)
    /\ UNCHANGED <<working, current, injected, object, unused, snapshots, accessed, asked>>

Newest(s, n) == SubSeq(s, Max({1, Len(s) - n + 1}), Len(s))

\* Mutant: the newest marks are the ones that go.
Mark_Oldest(kept) == injected' = SubSeq(injected \o SetToSeq(kept), 1, Min({MaxTrack, Len(injected) + Cardinality(kept)}))

\* track_injected_memories.
Mark(kept) == injected' = Newest(injected \o SetToSeq(kept), MaxTrack)

\* After the chat history select_memories takes some of them, T, at least one;
\* all that was retrieved is marked, also what the budget left out.
Inject(i, T) ==
    /\ req[i].pc = "history"
    /\ T \subseteq req[i].kept /\ (T = {} => req[i].kept = {}) /\ Cardinality(T) <= MaxContext
    /\ IF req[i].kept = {} THEN UNCHANGED injected ELSE Mark(req[i].kept)
    /\ req' = [j \in Requests |->
                 IF j = i THEN Idle
                 ELSE IF req[j].pc = "history" THEN [req[j] EXCEPT !.since = @ \cup req[i].kept]
                 ELSE req[j]]
    /\ UNCHANGED <<store, working, current, object, unused, snapshots, accessed, exact, asked>>

\* An exception before or after the retrieval is an empty context.
Fail(i) ==
    /\ req[i].pc \in {"query", "history"}
    /\ req' = [req EXCEPT ![i] = Idle]
    /\ UNCHANGED <<store, working, current, injected, object, unused, snapshots, accessed, exact, asked>>

Next ==
    \/ \E m \in Memories : Capture(m) \/ ArchiveStores(m) \/ ArchiveClears(m)
    \/ DeleteAll
    \/ \E m \in Memories : Reads(m)
    \/ \E r \in snapshots : Drops(r) \/ \E more \in 0..1 : WritesBack(r, more)
    \/ \E i \in Requests :
         \/ \E inject \in BOOLEAN : Ask(i, inject)
         \/ QueryReturns(i) \/ WorkingReturns(i) \/ SyncReturns(i)
         \/ \E T \in SUBSET Memories : Inject(i, T)
         \/ Fail(i)

Spec == Init /\ [][Next]_vars

-----------------------------------------------------------------------------
\* A memory that is archived while it is retrieved, and so is found in the
\* collection and in the session, is one memory of the merged list.
MergedOnce == \A i \in Requests :
    req[i].pc = "sync" => IsInjective(req[i].list) /\ Len(req[i].list) <= 2 * TopK

\* No access is counted that was not one; each is counted unless another request
\* or review of the memory overlaps, the update fails, the memory is not the
\* collection's, or its row is written back with the count it had before.
AccessCounted == \A m \in Stored :
    /\ store[m] <= accessed[m]
    /\ m \in exact /\ (\A i \in Requests : req[i].pc = "sync" => m \notin req[i].result) => store[m] = accessed[m]

\* A memory is shown again only when everything retrieved was shown lately, or
\* when another request showed it while this one waited for the chat history.
ShownAgainForAReason ==
    [][\A i \in Requests, T \in SUBSET Memories : Inject(i, T) =>
         T \cap Range(injected) \subseteq req[i].since \/ req[i].again]_vars

\* What was shown last is known as shown.
LastShownKnown ==
    [][\A i \in Requests, T \in SUBSET Memories :
         Inject(i, T) /\ Cardinality(req[i].kept) <= MaxTrack => T \subseteq Range(injected')]_vars

\* The merged list is right whatever overlaps, and the access counts as far as they can be.
RetrievalCounts == MergedOnce /\ AccessCounted

\* Does not hold: after delete_all_memories nothing deleted is retrieved (the
\* engine reads the manager that was replaced, services/business_service.py:493).
DeletedNotRetrieved == current = 2 => working[1] = {}

\* Does not hold: what is marked was shown (context_builder.py:166).
MarkedWasShown ==
    [][\A i \in Requests, T \in SUBSET Memories : Inject(i, T) => req[i].kept \subseteq T]_vars
=============================================================================
