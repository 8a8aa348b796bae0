--------------------------- MODULE KnowledgeGraph ---------------------------
(* The knowledge graph: KGStorage (knowledge_graph/kg_storage.py), whose     *)
(* operations each run under one lock, the extraction that stores a triple   *)
(* in three of them (kg_extractor.py), the batch of memories waiting for the *)
(* model (services/modules/kg_module.py), maintenance that reads and deletes *)
(* in two (kg_maintenance.py), and what a query reaches (kg_reasoning.py).   *)
(* Every triple here relates the same two names; a memory has one triple,    *)
(* found by the rules at once or by the model in a batch.                    *)
EXTENDS Naturals, Sequences

CONSTANTS
    Facts, By, In,   \* memories, their users, their groups
    NoGroup,         \* the group of a private chat
    Workers,         \* coroutines that store triples
    PendingSize,     \* _batch_size
    MaxNodes         \* bound on node identifiers

VARIABLES
    nodes,    \* kg_nodes: identifier -> [name, user, group]
    owner,    \* the same, of every identifier ever given
    edges,    \* kg_edges: <<source, target>> -> [user, group, memory]
    known,    \* _node_cache: <<name, user, group>> -> identifier
    pending,  \* _pending_items
    storing,  \* what each worker does
    upkeep,   \* run_full_cleanup
    fact      \* history: what became of each memory's triple; "caught" when it was in a
              \* batch or a worker's hands as its user had it deleted

graphVars == <<nodes, owner, edges, known, pending, storing, upkeep, fact>>
graph == <<nodes, owner, edges, known>>

\* Every memory has a user and a chat, and a batch holds at least one.
ASSUME GraphAssumption ==
    /\ DOMAIN By = Facts /\ DOMAIN In = Facts
    /\ PendingSize \in Nat \ {0} /\ MaxNodes \in Nat

Names == {"subject", "object"}
Nodes == [name : Names, user : {By[m] : m \in Facts}, group : {In[m] : m \in Facts}]
Free == [at |-> "idle", left |-> <<>>, from |-> 0, to |-> 0]
NoUpkeep == [at |-> "idle", ids |-> {}]
Key(name, m) == <<name, By[m], In[m]>>
Settled(ms, f) == [m \in Facts |-> IF m \in ms /\ fact[m] = "storing" THEN f ELSE fact[m]]
Keep(f, S) == [x \in S |-> f[x]]

Items(s) == {s[i] : i \in 1..Len(s)}

GraphInit ==
    /\ nodes = <<>> /\ owner = <<>> /\ edges = <<>> /\ known = <<>>
    /\ pending = <<>> /\ storing = [w \in Workers |-> Free] /\ upkeep = NoUpkeep
    /\ fact = [m \in Facts |-> "new"]

-----------------------------------------------------------------------------
(* upsert_node and upsert_edge.                                              *)

\* Mutant: a private message also finds the user's nodes of groups.
Found_AnyChat(name, m) ==
    {i \in DOMAIN nodes : nodes[i].name = name /\ (nodes[i].user = By[m]
                                                   \/ (In[m] # NoGroup /\ nodes[i].group = In[m]))}

\* _find_node_by_name takes any one of these: in a group also the user's nodes of
\* other chats, and other members' nodes of this group.
Found(name, m) ==
    {i \in DOMAIN nodes : /\ nodes[i].name = name
                          /\ IF In[m] # NoGroup THEN nodes[i].user = By[m] \/ nodes[i].group = In[m]
                             ELSE nodes[i].user = By[m] /\ nodes[i].group = NoGroup}

\* The identifiers upsert_node may return: the cached one, which an update of no
\* row leaves unnoticed when it is gone, one that is found, or a new one.
Upserted(name, m) ==
    IF Key(name, m) \in DOMAIN known THEN {known[Key(name, m)]}
    ELSE IF Found(name, m) # {} THEN Found(name, m)
    ELSE {Len(owner) + 1} \cap 1..MaxNodes

UpsertNode(name, m, i) ==
    /\ i \in Upserted(name, m)
    /\ IF i > Len(owner)
       THEN LET n == [name |-> name, user |-> By[m], group |-> In[m]] IN
            /\ nodes' = [j \in DOMAIN nodes \cup {i} |-> IF j = i THEN n ELSE nodes[j]]
            /\ owner' = Append(owner, n)
       ELSE UNCHANGED <<nodes, owner>>
    /\ known' = [k \in DOMAIN known \cup {Key(name, m)} |-> IF k = Key(name, m) THEN i ELSE known[k]]
    /\ UNCHANGED edges

\* An edge that is there is strengthened and keeps the memory it came from; a new
\* one needs both its nodes (foreign_keys=ON), or raises.
UpsertEdge(e, m) ==
    /\ edges' = [x \in DOMAIN edges \cup {e} |->
                   IF x \in DOMAIN edges THEN edges[x]
                   ELSE [user |-> By[m], group |-> In[m], memory |-> m]]
    /\ UNCHANGED <<nodes, owner, known>>

\* Mutant: foreign keys are off, as they are unless a connection asks for them.
Delete_NoCascade(ns, es) ==
    /\ nodes' = Keep(nodes, DOMAIN nodes \ ns)
    /\ edges' = Keep(edges, DOMAIN edges \ es)
    /\ UNCHANGED owner

\* Deleting nodes takes the edges at them along (ON DELETE CASCADE).
Delete(ns, es) ==
    /\ nodes' = Keep(nodes, DOMAIN nodes \ ns)
    /\ edges' = Keep(edges, {e \in DOMAIN edges \ es : e[1] \notin ns /\ e[2] \notin ns})
    /\ UNCHANGED owner

-----------------------------------------------------------------------------
(* process_memory and flush_pending_llm.                                     *)

\* The rules find the triple.
ProcessByRules(m, w) ==
    /\ fact[m] = "new" /\ storing[w] = Free
    /\ storing' = [storing EXCEPT ![w] = [Free EXCEPT !.at = "subject", !.left = <<m>>]]
    /\ fact' = [fact EXCEPT ![m] = "storing"]
    /\ UNCHANGED <<graph, pending, upkeep>>

\* The memory waits for the model; a full batch is flushed by who filled it.
ProcessByModel(m, w) ==
    /\ fact[m] = "new" /\ storing[w] = Free
    /\ LET items == Append(pending, m)
           full == Len(items) >= PendingSize IN
         /\ pending' = IF full THEN <<>> ELSE items
         /\ storing' = IF full THEN [storing EXCEPT ![w] = [Free EXCEPT !.at = "ask", !.left = items]] ELSE storing
    /\ fact' = [fact EXCEPT ![m] = "storing"]
    /\ UNCHANGED <<graph, upkeep>>

\* The scheduled flush, and that of close.
Flush(w) ==
    /\ pending # <<>> /\ storing[w] = Free
    /\ pending' = <<>>
    /\ storing' = [storing EXCEPT ![w] = [Free EXCEPT !.at = "ask", !.left = pending]]
    /\ UNCHANGED <<graph, upkeep, fact>>

\* What may be left of s, in its order, when some of its items are dropped.
Thinned(s) ==
    UNION {{[k \in 1..n |-> s[f[k]]] :
              f \in {g \in [1..n -> 1..Len(s)] : \A a, b \in 1..n : a < b => g[a] < g[b]}} :
            n \in 0..Len(s)}

\* The model finds triples of some of the batch, or of none, as when it fails.
Answer(w, left) ==
    /\ storing[w].at = "ask" /\ left \in Thinned(storing[w].left)
    /\ storing' = [storing EXCEPT ![w] = IF left = <<>> THEN Free ELSE [Free EXCEPT !.at = "subject", !.left = left]]
    /\ fact' = Settled(Items(storing[w].left) \ Items(left), "nothing")
    /\ UNCHANGED <<graph, pending, upkeep>>

Subject(w) ==
    /\ storing[w].at = "subject"
    /\ \E i \in 1..MaxNodes :
         /\ UpsertNode("subject", Head(storing[w].left), i)
         /\ storing' = [storing EXCEPT ![w].at = "object", ![w].from = i]
    /\ UNCHANGED <<pending, upkeep, fact>>

Object(w) ==
    /\ storing[w].at = "object"
    /\ \E i \in 1..MaxNodes :
         /\ UpsertNode("object", Head(storing[w].left), i)
         /\ storing' = [storing EXCEPT ![w].at = "edge", ![w].to = i]
    /\ UNCHANGED <<pending, upkeep, fact>>

\* The last third, which an exception ends together with the rest of the batch.
Edge(w) ==
    /\ storing[w].at = "edge"
    /\ LET e == <<storing[w].from, storing[w].to>>
           m == Head(storing[w].left)
           rest == Tail(storing[w].left)
           ok == e \in DOMAIN edges \/ {e[1], e[2]} \subseteq DOMAIN nodes IN
         /\ IF ok THEN UpsertEdge(e, m) ELSE UNCHANGED graph
         /\ storing' = [storing EXCEPT ![w] =
                          IF ok /\ rest # <<>> THEN [Free EXCEPT !.at = "subject", !.left = rest] ELSE Free]
         /\ fact' = Settled(IF ok THEN {m} ELSE Items(storing[w].left), IF ok THEN "known" ELSE "nothing")
    /\ UNCHANGED <<pending, upkeep>>

-----------------------------------------------------------------------------
(* The users' deletions.                                                     *)
ForgetFacts(ms) ==
    /\ fact' = [m \in Facts |-> IF m \notin ms \/ fact[m] = "new" THEN fact[m]
                               ELSE IF fact[m] \in {"storing", "caught"} THEN "caught" ELSE "forgotten"]
    /\ UNCHANGED <<pending, storing, upkeep>>

\* delete_user_data; without a group, all of the user's, and in both cases only
\* cached entries under the user's own key are dropped.
DeleteUser(u, g) ==
    /\ Delete({i \in DOMAIN nodes : nodes[i].user = u /\ g \in {NoGroup, nodes[i].group}},
              {e \in DOMAIN edges : edges[e].user = u /\ g \in {NoGroup, edges[e].group}})
    /\ known' = Keep(known, {k \in DOMAIN known : k[2] # u})
    /\ ForgetFacts({m \in Facts : By[m] = u /\ g \in {NoGroup, In[m]}})

DeleteGroup(g) ==
    /\ Delete({i \in DOMAIN nodes : nodes[i].group = g}, {e \in DOMAIN edges : edges[e].group = g})
    /\ known' = <<>>
    /\ ForgetFacts({m \in Facts : In[m] = g})

\* delete_all.
DeleteGraph ==
    /\ nodes # <<>>
    /\ Delete(DOMAIN nodes, DOMAIN edges)
    /\ known' = <<>>
    /\ ForgetFacts(Facts)

\* delete_by_memory_id, when a conflict resolves against the memory.
DeleteMemory(m) ==
    /\ \E e \in DOMAIN edges : edges[e].memory = m
    /\ Delete({}, {e \in DOMAIN edges : edges[e].memory = m})
    /\ UNCHANGED <<known, pending, storing, upkeep, fact>>

-----------------------------------------------------------------------------
(* The cache's lifetime, and maintenance: what is deleted was read before.   *)
Expire(k) ==
    /\ k \in DOMAIN known
    /\ known' = Keep(known, DOMAIN known \ {k})
    /\ UNCHANGED <<nodes, owner, edges, pending, storing, upkeep, fact>>

UpkeepReads ==
    /\ \/ /\ upkeep.at = "idle"
          /\ \E es \in SUBSET DOMAIN edges : es # {} /\ upkeep' = [at |-> "edges", ids |-> es]
       \/ /\ upkeep.at = "idle"
          /\ LET lone == {i \in DOMAIN nodes : \A e \in DOMAIN edges : i \notin {e[1], e[2]}} IN
             lone # {} /\ upkeep' = [at |-> "nodes", ids |-> lone]
    /\ UNCHANGED <<graph, pending, storing, fact>>

UpkeepDeletes ==
    /\ upkeep.at # "idle"
    /\ IF upkeep.at = "edges" THEN Delete({}, upkeep.ids) /\ UNCHANGED known
                              ELSE Delete(upkeep.ids, {}) /\ known' = <<>>
    /\ upkeep' = NoUpkeep
    /\ UNCHANGED <<pending, storing, fact>>

GraphNext ==
    \/ \E m \in Facts, w \in Workers : ProcessByRules(m, w) \/ ProcessByModel(m, w)
    \/ \E w \in Workers : \/ Flush(w)
                          \/ \E left \in Thinned(storing[w].left) : Answer(w, left)
                          \/ Subject(w) \/ Object(w) \/ Edge(w)
    \/ \E m \in Facts : \/ DeleteUser(By[m], In[m]) \/ DeleteUser(By[m], NoGroup)
                        \/ (In[m] # NoGroup /\ DeleteGroup(In[m]))
                        \/ DeleteMemory(m)
    \/ DeleteGraph
    \/ \E k \in DOMAIN known : Expire(k)
    \/ UpkeepReads \/ UpkeepDeletes

GraphSpec == GraphInit /\ [][GraphNext]_graphVars

-----------------------------------------------------------------------------
\* Types: identifiers are given once and rows never change, and the batch that
\* waits for the model stays below its size.
GraphTypeOK ==
    /\ owner \in Seq(Nodes)
    /\ DOMAIN nodes \subseteq 1..Len(owner) /\ \A i \in DOMAIN nodes : nodes[i] = owner[i]
    /\ DOMAIN edges \subseteq (1..Len(owner)) \X (1..Len(owner))
    /\ \A e \in DOMAIN edges : \E m \in Facts : edges[e] = [user |-> By[m], group |-> In[m], memory |-> m]
    /\ DOMAIN known \subseteq Names \X {By[m] : m \in Facts} \X {In[m] : m \in Facts}
    /\ \A k \in DOMAIN known : known[k] \in 1..Len(owner)
    /\ pending \in Seq(Facts) /\ Len(pending) < PendingSize
    /\ storing \in [Workers -> [at : {"idle", "ask", "subject", "object", "edge"}, left : Seq(Facts), from : Nat, to : Nat]]
    /\ upkeep.at \in {"idle", "edges", "nodes"}
    /\ fact \in [Facts -> {"new", "storing", "caught", "nothing", "known", "forgotten"}]

\* What a query of user u in chat g may be shown. It starts at nodes that are
\* visible and steps to neighbours that are, so it crosses an edge only between
\* two visible nodes, whatever chat the edge itself is from.
Visible(i, u, g) ==
    IF g # NoGroup THEN nodes[i].user = u \/ nodes[i].group = g
    ELSE nodes[i].user = u /\ nodes[i].group = NoGroup

Told(u, g) ==
    {edges[e].memory : e \in {e \in DOMAIN edges :
        {e[1], e[2]} \subseteq DOMAIN nodes /\ Visible(e[1], u, g) /\ Visible(e[2], u, g)}}

\* What a user says in a private chat is told to nobody else, although a query
\* checks the visibility of nodes only and edges hang on nodes of any chat.
PrivateFactsStayPrivate ==
    \A a, b \in Facts : In[a] = NoGroup /\ By[b] # By[a] =>
        \A g \in {NoGroup, In[b]} : a \notin Told(By[b], g)

\* Deletions by users, groups and maintenance never leave an edge without a node
\* that an extraction, which took three steps, still meant to join.
EdgesOnNodes == \A e \in DOMAIN edges : {e[1], e[2]} \subseteq DOMAIN nodes

\* Overlapping extractions, with a cache between them and the table, never give
\* one name two nodes of the same user and chat.
NodesUnique == \A i, j \in DOMAIN nodes : nodes[i] = nodes[j] => i = j

\* The cache knows a node that is gone only under another user's key: deleting a
\* user's data drops the entries under that user's keys alone. Such an entry
\* makes every triple that needs it fail until it expires.
StaleOnlyForeign == \A k \in DOMAIN known : known[k] \in DOMAIN nodes \/ owner[known[k]].user # k[2]

\* A deleted memory's knowledge comes back only if the memory was waiting in the
\* batch, or being stored, when the user had it deleted.
ForgottenOnlyInFlight == \A e \in DOMAIN edges : fact[edges[e].memory] # "forgotten"

\* The graph keeps its edges on nodes, its nodes unique and deletions final, but
\* for a stale foreign entry and work in flight.
GraphSound == GraphTypeOK /\ EdgesOnNodes /\ NodesUnique /\ StaleOnlyForeign /\ ForgottenOnlyInFlight

\* (Does not hold: a member's nodes of one group are found in another, and its
\* edges with them are shown to the members of the first.)
\* What is said in one group is told in no other but to its own user.
GroupFactsStayInGroup ==
    \A a, b \in Facts : By[b] # By[a] /\ In[b] # In[a] => a \notin Told(By[b], In[b])
=============================================================================
