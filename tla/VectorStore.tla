---------------------------- MODULE VectorStore ----------------------------
(* The Chroma collection behind ChromaManager: the operations of             *)
(* storage/chroma_operations.py, each a coroutine that leaves the event loop *)
(* at every asyncio.to_thread call and so interleaves with the others, and   *)
(* the scope clauses of storage/chroma_queries.py.                           *)
(* A caller of update_memory or of the access statistics works on a Memory   *)
(* object it read earlier; the object is its own copy of the stored row.     *)
EXTENDS Naturals, FiniteSets

CONSTANTS
    Ids,        \* memory identifiers (uuid4: an identifier is stored once)
    Meta,       \* Ids -> [user, group, scope]: the metadata no operation rewrites
    Users, Groups,
    NoGroup,    \* the empty group_id of a private chat
    Callers,    \* coroutines that use the store
    MaxAccess   \* bound on access_count

VARIABLES
    collection, \* stored rows: a function on a subset of Ids
    open,       \* ChromaManager._is_ready with a collection
    job,        \* what each caller is doing
    added,      \* history: identifiers some add has written
    deleted     \* history: identifiers whose deletion was reported

vars == <<collection, open, job, added, deleted>>

Layers == {"episodic", "semantic"}
Row == [layer: Layers, access: 0..MaxAccess]
Stored == DOMAIN collection
Fresh == [layer |-> "episodic", access |-> 0]
Idle == [op |-> "none", at |-> "idle", ids |-> {}, copy |-> Fresh, seen |-> Fresh]

-----------------------------------------------------------------------------
(* What a caller in a chat may see: one where-clause per scope.              *)

GroupClauses(u, g) ==
    {m \in Stored : \/ Meta[m].scope = "shared" /\ Meta[m].group = g
                    \/ Meta[m].scope = "private" /\ Meta[m].group = g /\ Meta[m].user = u
                    \/ Meta[m].scope = "global"}

PrivateClauses(u) ==
    {m \in Stored : \/ Meta[m].scope = "user" /\ Meta[m].user = u
                    \/ Meta[m].scope = "global"}

\* query_memories: the semantic search may also take the user's group-private rows.
Searched(u, g, includeGroupPrivate) ==
    IF g # NoGroup THEN GroupClauses(u, g)
    ELSE PrivateClauses(u) \cup
         {m \in Stored : includeGroupPrivate /\ Meta[m].scope = "private" /\ Meta[m].user = u}

\* get_all_memories and count_memories use the same clauses.
Listed(u, g) == IF g # NoGroup THEN GroupClauses(u, g) ELSE PrivateClauses(u)

(* The rows each bulk deletion selects.                                      *)
SessionRows(u, g) == {m \in Stored : Meta[m].user = u /\ Meta[m].group = g}
UserRows(u, privateOnly) ==
    {m \in Stored : /\ Meta[m].user = u
                    /\ privateOnly => \/ Meta[m].scope = "user"
                                      \/ Meta[m].scope = "global" /\ Meta[m].group = NoGroup}
GroupRows(g, filter) ==
    {m \in Stored : Meta[m].group = g /\ (filter = "any" \/ Meta[m].scope = filter)}

BulkTargets ==
    {SessionRows(u, g) : u \in Users, g \in Groups \cup {NoGroup}}
    \cup {UserRows(u, p) : u \in Users, p \in BOOLEAN}
    \cup {GroupRows(g, f) : g \in Groups, f \in {"any", "shared", "private"}}
    \cup {Stored}

-----------------------------------------------------------------------------
Init ==
    /\ collection = [m \in {} |-> Fresh]
    /\ open = TRUE
    /\ job = [c \in Callers |-> Idle]
    /\ added = {}
    /\ deleted = {}

Go(c, at) == job' = [job EXCEPT ![c].at = at]
Done(c) == job' = [job EXCEPT ![c] = Idle]
Start(c, op, at, ids) == job' = [job EXCEPT ![c] = [Idle EXCEPT !.op = op, !.at = at, !.ids = ids]]
At(c, op, at) == job[c].op = op /\ job[c].at = at
Target(c) == CHOOSE m \in job[c].ids : TRUE
Without(ids) == [m \in Stored \ ids |-> collection[m]]

(* add_memory: an embedding, tried twice, then the write.                    *)
BeginAdd(c, m) ==
    /\ open /\ job[c] = Idle
    /\ m \notin added /\ \A d \in Callers : job[d].op = "add" => m \notin job[d].ids
    /\ Start(c, "add", "embed", {m})
    /\ UNCHANGED <<collection, open, added, deleted>>

Embedded(c) ==
    /\ job[c].op = "add" /\ job[c].at \in {"embed", "retry"}
    /\ Go(c, "write")
    /\ UNCHANGED <<collection, open, added, deleted>>

EmbeddingFails(c) ==
    /\ job[c].op = "add"
    /\ \/ job[c].at = "embed" /\ Go(c, "retry")
       \/ job[c].at = "retry" /\ Done(c)
    /\ UNCHANGED <<collection, open, added, deleted>>

AddWrite(c) ==
    /\ open /\ At(c, "add", "write")
    /\ collection' = [m \in Stored \cup job[c].ids |-> IF m \in Stored THEN collection[m] ELSE job[c].copy]
    /\ added' = added \cup job[c].ids
    /\ Done(c)
    /\ UNCHANGED <<open, deleted>>

(* A caller reads a row into a Memory object it will write back.             *)
Fetch(c, m, op) ==
    /\ open /\ job[c] = Idle /\ m \in Stored
    /\ op = "stats" => collection[m].access < MaxAccess
    /\ job' = [job EXCEPT ![c] = [op |-> op, at |-> IF op = "stats" THEN "get" ELSE "write", ids |-> {m},
                                  copy |-> collection[m], seen |-> Fresh]]
    /\ UNCHANGED <<collection, open, added, deleted>>

\* Mutant: the rows are upserted.
Rewrite_Upsert(m, row) == [n \in Stored \cup {m} |-> IF n = m THEN row ELSE collection[n]]

\* collection.update of an identifier that is no longer stored changes nothing.
Rewrite(m, row) == IF m \in Stored THEN [collection EXCEPT ![m] = row] ELSE collection

\* update_memory writes the whole metadata of the object; True either way.
UpdateWrite(c, layer) ==
    /\ open /\ At(c, "update", "write")
    /\ collection' = Rewrite(Target(c), [job[c].copy EXCEPT !.layer = layer])
    /\ Done(c)
    /\ UNCHANGED <<open, added, deleted>>

\* batch_update_access_stats: read the stored metadata, merge the two fields in, write it all.
StatsGet(c) ==
    /\ open /\ At(c, "stats", "get")
    /\ IF Target(c) \in Stored
       THEN job' = [job EXCEPT ![c].at = "write", ![c].seen = collection[Target(c)]]
       ELSE Done(c)
    /\ UNCHANGED <<collection, open, added, deleted>>

Merged(c) == [job[c].seen EXCEPT !.access = job[c].copy.access + 1]

StatsWrite(c) ==
    /\ open /\ At(c, "stats", "write")
    /\ collection' = Rewrite(Target(c), Merged(c))
    /\ Done(c)
    /\ UNCHANGED <<open, added, deleted>>

(* delete_memory: check, delete, verify; True only when the verify finds nothing. *)
DeleteCheck(c, m) ==
    /\ open /\ job[c] = Idle /\ m \in Stored
    /\ Start(c, "delete", "delete", {m})
    /\ UNCHANGED <<collection, open, added, deleted>>

DeleteRow(c) ==
    /\ open /\ At(c, "delete", "delete")
    /\ collection' = Without(job[c].ids)
    /\ Go(c, "verify")
    /\ UNCHANGED <<open, added, deleted>>

DeleteVerify(c) ==
    /\ open /\ At(c, "delete", "verify")
    /\ deleted' = IF job[c].ids \cap Stored = {} THEN deleted \cup job[c].ids ELSE deleted
    /\ Done(c)
    /\ UNCHANGED <<collection, open, added>>

(* delete_session, delete_user_memories, delete_group_memories and           *)
(* delete_all_memories: select identifiers, then delete those.               *)
BulkSelect(c) ==
    /\ open /\ job[c] = Idle
    /\ \E rows \in BulkTargets \ {{}} : Start(c, "bulk", "delete", rows)
    /\ UNCHANGED <<collection, open, added, deleted>>

BulkDelete(c) ==
    /\ open /\ At(c, "bulk", "delete")
    /\ collection' = Without(job[c].ids)
    /\ deleted' = deleted \cup job[c].ids
    /\ Done(c)
    /\ UNCHANGED <<open, added>>

(* close() during a hot reload, then initialize() again: an operation that   *)
(* comes back to a closed manager fails and its exception ends the call.     *)
Close ==
    /\ open /\ open' = FALSE
    /\ UNCHANGED <<collection, job, added, deleted>>

Initialize ==
    /\ ~open /\ open' = TRUE
    /\ UNCHANGED <<collection, job, added, deleted>>

NotReady(c) ==
    /\ ~open /\ job[c].op # "none" /\ job[c].at \notin {"embed", "retry"}
    /\ Done(c)
    /\ UNCHANGED <<collection, open, added, deleted>>

Next ==
    \/ \E c \in Callers, m \in Ids : BeginAdd(c, m) \/ DeleteCheck(c, m)
    \/ \E c \in Callers, m \in Ids, op \in {"update", "stats"} : Fetch(c, m, op)
    \/ \E c \in Callers, layer \in Layers : UpdateWrite(c, layer)
    \/ \E c \in Callers : \/ Embedded(c) \/ EmbeddingFails(c) \/ AddWrite(c)
                          \/ StatsGet(c) \/ StatsWrite(c)
                          \/ DeleteRow(c) \/ DeleteVerify(c)
                          \/ BulkSelect(c) \/ BulkDelete(c) \/ NotReady(c)
    \/ Close \/ Initialize

Spec == Init /\ [][Next]_vars

-----------------------------------------------------------------------------
\* A memory whose deletion was reported (True, or counted by a bulk deletion)
\* is never stored again, whatever statistics or updates were in flight on a
\* copy of it: chroma_operations.py deletes by identifier and updates rows in place.
DeletedStaysDeleted == deleted \cap Stored = {}

\* No chat is shown another user's private memories: a search or a listing
\* returns only shared rows of that group, the user's own rows, and global ones,
\* and what is searched is never more than the caller asked for.
ScopesSeparate ==
    \A u \in Users, g \in Groups \cup {NoGroup}, p \in BOOLEAN : \A m \in Searched(u, g, p) :
        /\ Meta[m].scope \in {"user", "private"} => Meta[m].user = u
        /\ Meta[m].scope = "shared" => Meta[m].group = g
        /\ Meta[m].scope = "private" /\ g # NoGroup => Meta[m].group = g
        /\ Meta[m].scope = "user" => g = NoGroup

\* Forgetting in a private chat (delete_user_memories with in_private_only)
\* selects everything private the chat lists for its user, and nothing another
\* group or another user still reads: the deletion's clauses against the listing's.
PrivateDeleteMatchesListing ==
    \A u \in Users :
        /\ {m \in Listed(u, NoGroup) : Meta[m].scope = "user"} \subseteq UserRows(u, TRUE)
        /\ \A g \in Groups : UserRows(u, TRUE) \cap Listed(u, g) \subseteq Listed(u, NoGroup)

\* The statistics sync rewrites a whole row from what it read one await earlier:
\* a step that changes a row's layer is an update, or a statistics write that
\* overlapped an update of the same row after its own read.
StatsKeepLayer ==
    [][\A c \in Callers : StatsWrite(c) /\ Target(c) \in Stored =>
          LET m == Target(c) IN
          collection'[m].layer # collection[m].layer => job[c].seen.layer # collection[m].layer]_vars

\* What is deleted stays deleted, no chat is shown what is another's, forgetting
\* selects what the listing shows, and a statistics write keeps the layers.
VectorStoreSound ==
    /\ [](DeletedStaysDeleted /\ ScopesSeparate /\ PrivateDeleteMatchesListing)
    /\ StatsKeepLayer
=============================================================================
