---------------------------- MODULE SessionCache ----------------------------
(* WorkingMemoryCache (storage/cache.py): a bounded set of sessions, each an *)
(* LRU cache of memories, with a second list that keeps the order they are   *)
(* used in. Every operation runs under one lock.                             *)
EXTENDS Naturals, Sequences, FiniteSets, Functions

CONSTANTS
    Sessions,   \* session keys, each of one user
    Owner,      \* Sessions -> user
    Memories, MaxSessions, MaxMemories

VARIABLES
    sessions,   \* _sessions: session -> memory ids, least recently used first
    order       \* _session_order

vars == <<sessions, order>>

Init == sessions = [s \in {} |-> <<>>] /\ order = <<>>

-----------------------------------------------------------------------------
Without(S) == [s \in DOMAIN sessions \ S |-> sessions[s]]

\* What is left of a list when the members of S are removed from it.
Rest(q, S) ==
    LET kept == {i \in DOMAIN q : q[i] \notin S} IN
    [n \in 1 .. Cardinality(kept) |-> q[CHOOSE i \in kept : Cardinality({j \in kept : j <= i}) = n]]

Room == IF Cardinality(DOMAIN sessions) >= MaxSessions THEN {Head(order)} ELSE {}

AddMemory(s, m) ==
    LET out == IF s \in DOMAIN sessions THEN {} ELSE Room
        mine == IF s \in DOMAIN sessions THEN Rest(sessions[s], {m}) ELSE <<>>
        room == IF s \in DOMAIN sessions /\ m \notin Range(sessions[s]) /\ Len(mine) >= MaxMemories
                THEN Tail(mine) ELSE mine IN
    /\ sessions' = [x \in (DOMAIN sessions \ out) \cup {s} |->
                       IF x = s THEN Append(room, m) ELSE sessions[x]]
    /\ order' = Append(Rest(order, out \cup {s}), s)

GetMemory(s, m) ==
    /\ s \in DOMAIN sessions /\ m \in Range(sessions[s])
    /\ sessions' = [sessions EXCEPT ![s] = Append(Rest(@, {m}), m)]
    /\ order' = Append(Rest(order, {s}), s)

\* An entry that is older than the ttl goes, and the session keeps its place.
GetExpired(s, m) ==
    /\ s \in DOMAIN sessions /\ m \in Range(sessions[s])
    /\ sessions' = [sessions EXCEPT ![s] = Rest(@, {m})]
    /\ UNCHANGED order

\* clear_session of one chat, or of every chat of a user when no group is named.
ClearSessions(S) ==
    /\ S \cap DOMAIN sessions # {}
    /\ sessions' = Without(S)
    /\ order' = Rest(order, S)

Next ==
    \/ \E s \in Sessions, m \in Memories : AddMemory(s, m) \/ GetMemory(s, m) \/ GetExpired(s, m)
    \/ \E s \in Sessions : ClearSessions({s}) \/ ClearSessions({t \in Sessions : Owner[t] = Owner[s]})

Spec == Init /\ [][Next]_vars

-----------------------------------------------------------------------------
\* The two structures of the working-memory cache agree, so that the eviction
\* of the first session of the order always finds it.
SessionsInOrder ==
    /\ Range(order) = DOMAIN sessions /\ Len(order) = Cardinality(Range(order))
    /\ Len(order) <= MaxSessions
    /\ \A s \in DOMAIN sessions : Len(sessions[s]) <= MaxMemories
=============================================================================
