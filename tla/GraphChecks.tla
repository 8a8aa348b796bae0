----------------------------- MODULE GraphChecks -----------------------------
(* The reports on the knowledge graph: contradictions, dangling edges,       *)
(* self-references, cycles and duplicate relations                           *)
(* (knowledge_graph/kg_consistency.py) and the orphan ratio                  *)
(* (knowledge_graph/kg_quality.py). Each check reads the tables under the    *)
(* storage's lock, and those that need two tables read them one after the    *)
(* other while nodes and edges come and go.                                  *)
EXTENDS Naturals, Sequences, FiniteSets, Functions

CONSTANTS
    Points,     \* node identifiers
    Kinds,      \* relation types
    Against,    \* CONTRADICTORY_RELATIONS: kind -> set of kinds
    Single,     \* UNIQUE_RELATIONS
    MaxRows,    \* bound on stored edges
    MaxRead,    \* LIMIT of get_all_edges: 50000
    MaxCycle,   \* max_cycle_length
    MaxPops,    \* max_iterations of one depth-first search: 10000
    MaxIssues   \* max_issues: 100

VARIABLES
    present,  \* the ids of kg_nodes
    rows,     \* kg_edges in table order, each [from, to, kind]
    reading,  \* a check between its two reads: what it needs of the first one
    touched,  \* history: a node was deleted during a dangling check, added during a quality report
    alarm     \* history: the last report was wrong, and whether touched explains it

vars == <<present, rows, reading, touched, alarm>>
Quiet == [check |-> "none", ends |-> {}, total |-> 0]

\* What get_all_edges reads of the table.
Places == DOMAIN rows \cap 1..MaxRead
Read == {rows[i] : i \in Places}

Ends(rs) == {r.from : r \in rs} \cup {r.to : r \in rs}

Init == present = {} /\ rows = <<>> /\ reading = Quiet /\ touched = FALSE /\ alarm = "none"

AddNode(n) ==
    /\ n \notin present
    /\ present' = present \cup {n}
    /\ touched' = (touched \/ reading.check = "quality")
    /\ UNCHANGED <<rows, reading, alarm>>

AddEdge(a, b, k) ==
    LET row == [from |-> a, to |-> b, kind |-> k] IN
    /\ {a, b} \subseteq present /\ row \notin Range(rows) /\ Len(rows) < MaxRows
    /\ rows' = Append(rows, row)
    /\ UNCHANGED <<present, reading, touched, alarm>>

\* What may be left of the table, in its order.
Thinned ==
    UNION {{[k \in 1..n |-> rows[f[k]]] :
              f \in {g \in [1..n -> DOMAIN rows] : \A a, b \in 1..n : a < b => g[a] < g[b]}} :
            n \in 0..Len(rows)}

\* The node's edges go with it.
DeleteNode(n) ==
    /\ n \in present
    /\ present' = present \ {n}
    /\ rows' \in {q \in Thinned : Range(q) = {r \in Range(rows) : n \notin {r.from, r.to}}}
    /\ touched' = (touched \/ reading.check = "dangling")
    /\ UNCHANGED <<reading, alarm>>

-----------------------------------------------------------------------------
(* validate_edge_references and generate_report, two reads each.             *)
ReadFirst(check) ==
    /\ reading = Quiet
    /\ reading' = IF check = "dangling" THEN [Quiet EXCEPT !.check = check, !.ends = Ends(Read)]
                  ELSE [Quiet EXCEPT !.check = check, !.total = Cardinality(present)]
    /\ touched' = FALSE
    /\ UNCHANGED <<present, rows, alarm>>

Lone == present \ Ends(Range(rows))

\* Edges without their nodes, or more orphans than nodes; no ratio of no nodes.
ReadSecond ==
    /\ reading # Quiet
    /\ LET wrong == IF reading.check = "dangling" THEN ~(reading.ends \subseteq present)
                    ELSE reading.total > 0 /\ Cardinality(Lone) > reading.total IN
       alarm' = IF ~wrong THEN "none" ELSE IF touched THEN "raced" ELSE "false"
    /\ reading' = Quiet /\ touched' = FALSE
    /\ UNCHANGED <<present, rows>>

Next ==
    \/ \E n \in Points : AddNode(n) \/ DeleteNode(n)
    \/ \E a, b \in Points, k \in Kinds : AddEdge(a, b, k)
    \/ \E check \in {"dangling", "quality"} : ReadFirst(check)
    \/ ReadSecond

Spec == Init /\ [][Next]_vars

-----------------------------------------------------------------------------
(* The checks that read one table.                                           *)

\* detect_contradictions: an earlier row against the later ones of its pair.
Contradicts(i, j) ==
    /\ i < j /\ rows[i].from = rows[j].from /\ rows[i].to = rows[j].to
    /\ rows[j].kind \in Against[rows[i].kind]
Contradictions == {p \in Places \X Places : Contradicts(p[1], p[2])}

SelfReferences == {i \in DOMAIN rows : rows[i].from = rows[i].to}

\* detect_duplicate_unique_relations.
Duplicates ==
    {p \in Points \X Single :
        Cardinality({i \in Places : rows[i].from = p[1] /\ rows[i].kind = p[2]}) > 1}

\* A path of the search is its edges: where it stands, the nodes it is through, and the
\* edges it goes on along, to a node that is not on it.
Reach(start, p) == IF p = <<>> THEN start ELSE p[Len(p)].to
Through(start, p) == {start} \cup {r.to : r \in Range(p)}
Onward(start, p) == {r \in Read : r.from = Reach(start, p) /\ r.to \notin Through(start, p)}
Longer(start, P) == UNION {{Append(p, r) : r \in Onward(start, p)} : p \in P}

\* The frames _dfs_find_cycles puts on its stack, when nothing cuts it: no node twice,
\* and never longer than the depth lets the search close them.
PathsFrom(start) ==
    LET paths[d \in 0..(MaxCycle - 1)] == IF d = 0 THEN {<<>>} ELSE Longer(start, paths[d - 1])
    IN UNION {paths[d] : d \in 0..(MaxCycle - 1)}

\* The search of a start is given up when it would pop more frames than that.
Cut(start) == Cardinality(PathsFrom(start)) > MaxPops

\* Mutant: an edge from a node to itself closes the empty path.
Closed_AtOnce(start) ==
    {Through(start, p) : p \in {q \in PathsFrom(start) :
        \E r \in Read : r.from = Reach(start, q) /\ r.to = start}}

\* The node sets of the paths that come back to their start.
Closed(start) ==
    {Through(start, p) : p \in {q \in PathsFrom(start) \ {<<>>} :
        \E r \in Read : r.from = Reach(start, q) /\ r.to = start}}

\* detect_cycles: whatever order it takes the starts in and wherever a search is cut, it
\* goes on until it has found so many; a search that is not cut finds all of its own.
CycleReports ==
    LET sure == UNION {Closed(n) : n \in {m \in Points : ~Cut(m)}} IN
    {R \in SUBSET UNION {Closed(n) : n \in Points} :
        /\ Cardinality(R) <= MaxIssues
        /\ sure \subseteq R \/ Cardinality(R) = MaxIssues}

\* A set of nodes carries a directed cycle when they can be put in a ring.
Ring(S) ==
    \E p \in Injection(1..Cardinality(S), S) : \A i \in DOMAIN p :
        \E r \in Range(rows) : r.from = p[i] /\ r.to = p[IF i = Len(p) THEN 1 ELSE i + 1]

\* What the bounded search reports are rings of two to max_cycle_length nodes, and it
\* misses one only if the table is longer than is read, the report is full, or the
\* searches from all of its nodes were cut.
RingsReported ==
    \A R \in CycleReports, S \in SUBSET Points :
        LET ring == Cardinality(S) \in 2..MaxCycle /\ Ring(S) IN
        /\ S \in R => ring
        /\ ring /\ S \notin R =>
              Len(rows) > MaxRead \/ Cardinality(R) = MaxIssues \/ \A n \in S : Cut(n)

\* Storage keeps no dangling edge (foreign keys): one is reported only when a
\* node was deleted between the two reads, and the share of orphans passes one
\* only when a node was added there.
AlarmsAreRaces == alarm # "false"

\* Of the rows that are read, contradictions are found whichever comes first when the
\* two kinds are listed against each other both ways; the others are missed in one order.
MutualAlwaysFound ==
    \A i, j \in Places :
        /\ i < j /\ rows[i].from = rows[j].from /\ rows[i].to = rows[j].to
        /\ rows[i].kind \in Against[rows[j].kind] /\ rows[j].kind \in Against[rows[i].kind]
        => <<i, j>> \in Contradictions

ChecksSound == RingsReported /\ AlarmsAreRaces /\ MutualAlwaysFound

\* (Does not hold: FRIEND_OF is listed against DISLIKES and not the reverse.)
\* Whether two relations contradict each other does not depend on their order.
OrderDoesNotMatter ==
    \A i, j \in DOMAIN rows :
        /\ i < j /\ rows[i].from = rows[j].from /\ rows[i].to = rows[j].to
        /\ rows[i].kind \in Against[rows[j].kind]
        => <<i, j>> \in Contradictions
=============================================================================
