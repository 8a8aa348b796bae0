------------------------------ MODULE Capture ------------------------------
(* From a message to a stored memory (capture/capture_engine.py,             *)
(* capture/conflict/conflict_resolver.py, services/business_service.py).     *)
(* A capture looks for similar memories in the collection, drops what is told*)
(* already, and deletes what it contradicts before it is stored itself; it   *)
(* waits between these steps, other captures run, and working memories are   *)
(* promoted or discarded meanwhile. What a message is found to be is in      *)
(* Detection; here it is any memory. Confidences are tenths.                 *)
EXTENDS Integers, FiniteSets

CONSTANTS
    Ids,           \* messages, each captured once
    Kinds          \* what they can be: who tells what, how sure it is, whether it
                   \* was asked to be remembered, whether the group sees it

VARIABLES
    memory,        \* id -> what became of it
    rows,          \* ids in the collection
    session,       \* ids in working memory
    task,          \* id -> the capture's progress
    todo,          \* id -> the contradicting memories it has to resolve
    seen,          \* ghost: the similar memories its capture found
    fate           \* ghost: why an id is nowhere

vars == <<memory, rows, session, task, todo, seen, fate>>

None == [user |-> "none"]

Init ==
    /\ memory = [m \in Ids |-> None]
    /\ rows = {} /\ session = {}
    /\ task = [m \in Ids |-> "new"]
    /\ todo = [m \in Ids |-> {}] /\ seen = [m \in Ids |-> {}]
    /\ fate = [m \in Ids |-> "none"]

\* _assess_quality, from the confidence; 8 stands for 0.75 and more.
Quality(c) ==
    CASE c >= 9 -> 5 [] c = 8 -> 4 [] c \in 5..7 -> 3 [] c \in 3..4 -> 2 [] OTHER -> 1

\* _determine_storage_layer: asked for, of high confidence, or else in working
\* memory.
Persistent(k) == k.asked \/ k.confidence >= 7

Visible(m, n) == memory[n].shared \/ memory[n].user = memory[m].user
Duplicates(m, S) == {n \in S : memory[n].content = memory[m].content}
\* Two memories of the one subject contradict each other, or say the same.
Opposite(m, n) == memory[n].content # memory[m].content

\* Mutant: an old memory that was worth more is replaced.
Resolution_Swapped(new, old, alike) ==
    IF new.asked \/ old.quality > new.quality + 1 THEN "replace"
    ELSE IF new.quality > old.quality + 1 THEN "keep_old"
    ELSE IF new.confidence - old.confidence > 3 THEN "replace"
    ELSE IF old.confidence - new.confidence > 3 THEN "keep_old"
    ELSE IF alike THEN "replace" ELSE "pending"

\* _determine_conflict_resolution: "merge" is no answer of it; the new memory
\* is always the newer one; alike: a similarity above 0.7.
Resolution(new, old, alike) ==
    IF new.asked \/ new.quality > old.quality + 1 THEN "replace"
    ELSE IF old.quality > new.quality + 1 THEN "keep_old"
    ELSE IF new.confidence - old.confidence > 3 THEN "replace"
    ELSE IF old.confidence - new.confidence > 3 THEN "keep_old"
    ELSE IF alike THEN "replace" ELSE "pending"

-----------------------------------------------------------------------------
\* What a message was found to be.
Found(k) ==
    [user |-> k.user, content |-> k.content, confidence |-> k.confidence, asked |-> k.asked,
     shared |-> k.shared, quality |-> Quality(k.confidence), marked |-> FALSE, spared |-> {}]

\* capture_memory up to the search, or a message that is no memory.
Detect(m, k) ==
    /\ task[m] = "new"
    /\ \/ /\ memory' = [memory EXCEPT ![m] = Found(k)]
          /\ task' = [task EXCEPT ![m] = "search"]
       \/ task' = [task EXCEPT ![m] = "done"] /\ UNCHANGED memory
    /\ UNCHANGED <<rows, session, todo, seen, fate>>

\* query_memories, then without a wait the search for duplicates and conflicts; a
\* failed query finds nothing.
Search(m) ==
    /\ task[m] = "search"
    /\ \E S \in {{n \in rows : Visible(m, n)}, {}} :
         /\ seen' = [seen EXCEPT ![m] = S]
         /\ todo' = [todo EXCEPT ![m] = {n \in S : Opposite(m, n)}]
         /\ IF Duplicates(m, S) # {}
            THEN /\ task' = [task EXCEPT ![m] = "done"]
                 /\ fate' = [fate EXCEPT ![m] = "duplicate"]
            ELSE task' = [task EXCEPT ![m] = "resolve"] /\ UNCHANGED fate
    /\ UNCHANGED <<memory, rows, session>>

\* Mutant: an undecided contradiction leaves no mark.
Decide_Silent(m, n, answer) ==
    CASE answer = "replace" ->
           /\ \/ rows' = rows \ {n} /\ fate' = [fate EXCEPT ![n] = IF n \in rows THEN m ELSE @]
              \/ UNCHANGED <<rows, fate>>
           /\ memory' = [memory EXCEPT ![m].spared = @ \cup {n}]
      [] OTHER -> UNCHANGED <<memory, rows, fate>>

\* One conflict: the old memory is deleted, or stays because it cannot be, or the
\* new one is marked and, where the old one is kept, of low quality from now on.
Decide(m, n, answer) ==
    CASE answer = "replace" ->
           \/ /\ rows' = rows \ {n} /\ fate' = [fate EXCEPT ![n] = IF n \in rows THEN m ELSE @]
              /\ UNCHANGED memory
           \/ /\ memory' = [memory EXCEPT ![m].spared = @ \cup {n}]
              /\ UNCHANGED <<rows, fate>>
      [] answer = "keep_old" ->
           /\ memory' = [memory EXCEPT ![m].marked = TRUE, ![m].quality = 2]
           /\ UNCHANGED <<rows, fate>>
      [] OTHER ->
           /\ memory' = [memory EXCEPT ![m].marked = TRUE]
           /\ UNCHANGED <<rows, fate>>

\* resolve_conflicts, one after the other, in the order the query returned them.
Resolve(m, n) ==
    /\ task[m] = "resolve" /\ n \in todo[m]
    /\ todo' = [todo EXCEPT ![m] = @ \ {n}]
    /\ \E alike \in BOOLEAN : Decide(m, n, Resolution(memory[m], memory[n], alike))
    /\ UNCHANGED <<session, task, seen>>

Resolved(m) ==
    /\ task[m] = "resolve" /\ todo[m] = {}
    /\ task' = [task EXCEPT ![m] = "store"]
    /\ UNCHANGED <<memory, rows, session, todo, seen, fate>>

\* _store_memory_by_layer; add_memory that fails returns nothing, and the memory
\* is reported as captured.
Store(m) ==
    /\ task[m] = "store"
    /\ task' = [task EXCEPT ![m] = "done"]
    /\ IF Persistent(memory[m])
       THEN \/ rows' = rows \cup {m} /\ UNCHANGED fate
            \/ fate' = [fate EXCEPT ![m] = "failed"] /\ UNCHANGED rows
       ELSE UNCHANGED <<rows, fate>>
    /\ session' = IF Persistent(memory[m]) THEN session ELSE session \cup {m}
    /\ UNCHANGED <<memory, todo, seen>>

\* The lifecycle promotes a working memory or discards it.
Promote(m) ==
    /\ m \in session
    /\ session' = session \ {m} /\ rows' = rows \cup {m}
    /\ UNCHANGED <<memory, task, todo, seen, fate>>

Discard(m) ==
    /\ m \in session
    /\ session' = session \ {m} /\ fate' = [fate EXCEPT ![m] = "discarded"]
    /\ UNCHANGED <<memory, rows, task, todo, seen>>

\* The process dies: the captures under way and the working memories are gone.
Running(m) == task[m] \in {"search", "resolve", "store"}
Crash ==
    /\ \E m \in Ids : Running(m)
    /\ task' = [m \in Ids |-> IF Running(m) THEN "done" ELSE task[m]]
    /\ fate' = [m \in Ids |-> IF Running(m) \/ m \in session THEN "crashed" ELSE fate[m]]
    /\ session' = {}
    /\ UNCHANGED <<memory, rows, todo, seen>>

Next ==
    \/ \E m \in Ids :
         \/ \E k \in Kinds : Detect(m, k)
         \/ Search(m) \/ Resolved(m) \/ Store(m) \/ Promote(m) \/ Discard(m)
         \/ \E n \in Ids : Resolve(m, n)
    \/ Crash

Spec == Init /\ [][Next]_vars

-----------------------------------------------------------------------------
Held == rows \cup session

\* A memory that was stored after its capture had found a contradicting one, which
\* is still there, is marked (so the user can be asked), or could not be deleted.
ContradictionsMarked ==
    \A m \in Held : \A n \in seen[m] \cap rows : Opposite(m, n) => memory[m].marked \/ n \in memory[m].spared

\* Nothing is told twice by memories of which one saw the other.
ToldOnce == \A m \in Held : Duplicates(m, seen[m]) = {}

\* A memory that gave way has a successor, which is stored, or gave way itself, or
\* is under way, or was lost by a failure, a crash or the lifecycle.
GaveWay == {n \in Ids : fate[n] \in Ids}
SuccessorKnown ==
    \A n \in GaveWay : LET m == fate[n] IN
      m \in Held \/ m \in GaveWay \/ Running(m) \/ fate[m] \in {"failed", "crashed", "discarded"}

\* Nobody's private memory gives way to what another user says.
OthersPrivateKept ==
    \A n \in GaveWay : memory[n].user = memory[fate[n]].user \/ memory[n].shared

\* What was asked to be remembered gives way only to what was asked for, or to a
\* memory no worse by two grades.
WorthierKept ==
    \A n \in GaveWay : LET m == memory[fate[n]] IN
      m.asked \/ Quality(m.confidence) + 1 >= Quality(memory[n].confidence)

CaptureSound ==
    /\ ContradictionsMarked /\ ToldOnce /\ SuccessorKnown
    /\ OthersPrivateKept /\ WorthierKept

\* Does not hold: what gives way has a successor that is stored (the old memory is
\* deleted first, conflict_resolver.py:322).
NothingLost == \A n \in GaveWay : ~Running(fate[n]) => fate[n] \in Held \cup GaveWay

\* Does not hold: nobody's shared memory gives way to another user's message.
OthersKept == \A n \in GaveWay : memory[n].user = memory[fate[n]].user
=============================================================================
