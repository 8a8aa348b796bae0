-------------------------- MODULE MemoryLifecycle --------------------------
(* The way of a memory from a session's working memory to the store:         *)
(* SessionManager (storage/session_manager.py), the cleanup loop and the     *)
(* promotion of SessionLifecycleManager (storage/lifecycle_manager.py) with  *)
(* the grace period (storage/grace_period.py), and the user's commands that  *)
(* capture, clear and delete (services/business_service.py).                 *)
(* The two background tasks work on the Memory objects themselves, so what   *)
(* one sets the other sees; the store keeps what a row was written with. It  *)
(* keeps no end of a grace period (chroma_operations.py:143-180), so the     *)
(* sweep for reviews that are over (lifecycle_manager.py:523-548) finds none *)
(* to delete: a stored review stays until a command deletes it.              *)
EXTENDS Naturals, Sequences, FiniteSets, SequencesExt

CONSTANTS
    Chats,       \* session keys
    Restored,      \* those of the LIFECYCLE_STATE read at the start
    Mem, Home,   \* memories, and the session each is captured in
    MaxWorking   \* max_working_memory

VARIABLES
    working,  \* working_memory_cache of the manager that promotion uses
    apart,    \* that of the manager delete_all_memories put in its place, once it has
    split,    \* delete_all_memories has replaced the manager
    layer,    \* storage_layer of each Memory object
    review,   \* its review_status is pending_review
    rows,     \* stored rows: Mem -> [layer, review]
    state,    \* session_states: the state of each session, or "none"
    dated,    \* sessions whose entry has a last_active
    archive,  \* _archive_session of the cleanup loop
    promote,  \* _promote_memories
    clearing, \* a clear command between the store and the working memory
    fate,     \* history: what became of each memory
    inFlight  \* history: memories a background task held, or stored, while they were cleared

vars == <<working, apart, split, layer, review, rows, state, dated, archive, promote,
          clearing, fate, inFlight>>
memory == <<working, apart, split, layer, review, rows>>
session == <<state, dated>>
tasks == <<archive, promote, clearing>>

NoArchive == [at |-> "idle", chat |-> CHOOSE s \in Chats : TRUE, left |-> <<>>, keep |-> <<>>, upgraded |-> FALSE]
NoPromote == [at |-> "idle", left |-> <<>>, was |-> "working", copy |-> [layer |-> "episodic", review |-> FALSE]]
Stored == DOMAIN rows
InCache(cache, m) == m \in Range(cache[Home[m]])
Row(m) == [layer |-> layer[m], review |-> review[m]]
\* A session has a memory once.
Without(s, m) == IF m \in Range(s) THEN RemoveAt(s, CHOOSE i \in DOMAIN s : s[i] = m) ELSE s
Drop(ms) == [m \in Stored \ ms |-> rows[m]]
\* collection.add of an identifier that is there changes nothing.
Add(m) == [n \in Stored \cup {m} |-> IF n \in Stored THEN rows[n] ELSE Row(n)]
Fate(ms, f) == fate' = [m \in Mem |-> IF m \in ms THEN f ELSE fate[m]]
Held == Range(archive.left) \cup Range(archive.keep) \cup Range(promote.left)

\* 0 stands for the default, which is not 0.
ASSUME LifecycleAssumption ==
    /\ Chats # {} /\ Restored \subseteq Chats
    /\ Home \in [Mem -> Chats]
    /\ MaxWorking \in Nat \ {0}

Rows == [layer : {"working", "episodic", "semantic"}, review : BOOLEAN]
Cache == {c \in [Chats -> Seq(Mem)] : \A s \in Chats : Len(c[s]) <= MaxWorking}
Fates == {"unborn", "live", "overflowed", "forgotten", "discarded", "failed", "late"}

TypeOK ==
    /\ working \in Cache /\ apart \in Cache /\ split \in BOOLEAN
    /\ layer \in [Mem -> {"working", "episodic"}] /\ review \in [Mem -> BOOLEAN]
    /\ Stored \subseteq Mem /\ rows \in [Stored -> Rows]
    /\ state \in [Chats -> {"none", "active", "inactive", "closed", "archived"}]
    /\ dated \subseteq Chats
    /\ archive \in [at : {"idle", "judge"}, chat : Chats, left : Seq(Mem), keep : Seq(Mem),
                    upgraded : BOOLEAN]
    /\ promote \in [at : {"idle", "next", "add", "rank"}, left : Seq(Mem),
                    was : {"working", "episodic"}, copy : Rows]
    /\ clearing \subseteq Mem /\ inFlight \subseteq Mem
    /\ fate \in [Mem -> Fates]

Init ==
    /\ working = [s \in Chats |-> <<>>] /\ apart = working /\ split = FALSE
    /\ layer = [m \in Mem |-> "working"] /\ review = [m \in Mem |-> FALSE]
    /\ rows = [m \in {} |-> NoPromote.copy]
    /\ dated = Restored
    /\ state = [s \in Chats |-> IF s \in dated THEN "inactive" ELSE "none"]
    /\ archive = NoArchive /\ promote = NoPromote /\ clearing = {}
    /\ fate = [m \in Mem |-> "unborn"] /\ inFlight = {}

-----------------------------------------------------------------------------
(* What users do.                                                            *)

\* activate_session: the entry gets a state but no last_active of its own.
Activate(s) ==
    /\ state[s] # "active"
    /\ state' = [state EXCEPT ![s] = "active"]
    /\ UNCHANGED <<memory, dated, tasks, fate, inFlight>>

\* add_working_memory: the oldest memory goes when the session has too many.
Pushed(c, m) == [c EXCEPT ![Home[m]] = IF Len(@) >= MaxWorking THEN Append(Tail(@), m) ELSE Append(@, m)]
Oldest(c, m) == IF Len(c[Home[m]]) >= MaxWorking THEN {Head(c[Home[m]])} ELSE {}

Capture(m) ==
    /\ fate[m] = "unborn"
    /\ IF split THEN apart' = Pushed(apart, m) /\ UNCHANGED working
                ELSE working' = Pushed(working, m) /\ UNCHANGED apart
    /\ LET out == Oldest(IF split THEN apart ELSE working, m) IN
       fate' = [n \in Mem |-> IF n = m THEN "live" ELSE IF n \in out THEN "overflowed" ELSE fate[n]]
    /\ UNCHANGED <<split, layer, review, rows, session, tasks, inFlight>>

\* clear_memories, first half: the stored rows of the session.
ClearRows(s) ==
    /\ clearing = {}
    /\ clearing' = {m \in Mem : Home[m] = s /\ fate[m] # "unborn"}
    /\ rows' = Drop(clearing')
    /\ inFlight' = inFlight \cup (clearing' \cap Held)
    /\ UNCHANGED <<working, apart, split, layer, review, session, archive, promote, fate>>

Emptied(c, ms) == [s \in Chats |-> IF \E m \in ms : Home[m] = s THEN <<>> ELSE c[s]]

\* Second half: the working memory of the manager in use.
ClearWorking ==
    /\ clearing # {}
    /\ LET cache == IF split THEN apart ELSE working
           gone == clearing \cup {m \in Mem : InCache(cache, m) /\ \E n \in clearing : Home[n] = Home[m]} IN
         /\ IF split THEN apart' = Emptied(apart, clearing) /\ UNCHANGED working
                     ELSE working' = Emptied(working, clearing) /\ UNCHANGED apart
         /\ Fate(gone, "forgotten")
         /\ inFlight' = inFlight \cup (gone \cap (Held \cup Stored))
                        \cup {m \in gone : split /\ InCache(working, m)}
    /\ clearing' = {}
    /\ UNCHANGED <<split, layer, review, rows, session, archive, promote>>

\* delete_all_memories: empties the store and gives the capture a new manager;
\* the lifecycle manager and the retrieval keep the old one and what it holds.
DeleteAll ==
    /\ ~split /\ clearing = {}
    /\ rows' = Drop(Mem)
    /\ split' = TRUE
    /\ LET gone == {m \in Mem : fate[m] # "unborn"} IN
         /\ Fate(gone, "forgotten")
         /\ inFlight' = inFlight \cup {m \in gone : m \in Held \/ InCache(working, m)}
    /\ UNCHANGED <<working, apart, layer, review, session, tasks>>

-----------------------------------------------------------------------------
(* _promote_memories: what the evaluation (rules or an LLM) accepts of the   *)
(* working memories is added one by one, each under the episodic layer.      *)
PromoteStart ==
    /\ promote.at = "idle"
    /\ \E ms \in SUBSET {m \in Mem : InCache(working, m) /\ layer[m] = "working"} :
         /\ ms # {} /\ IsFiniteSet(ms)
         /\ \E order \in SetToSeqs(ms) :
              promote' = [NoPromote EXCEPT !.at = "next", !.left = order]
    /\ UNCHANGED <<memory, session, archive, clearing, fate, inFlight>>

PromoteNext ==
    /\ promote.at = "next"
    /\ IF promote.left = <<>> THEN promote' = NoPromote /\ UNCHANGED layer
       ELSE LET m == Head(promote.left) IN
              /\ layer' = [layer EXCEPT ![m] = "episodic"]
              /\ promote' = [promote EXCEPT !.at = "add", !.was = layer[m]]
    /\ UNCHANGED <<working, apart, split, review, rows, session, archive, clearing, fate, inFlight>>

\* Mutant: a memory whose add failed leaves the working memory as well.
PromotedFrom_Always(m, added) == [working EXCEPT ![Home[m]] = Without(@, m)]

PromotedFrom(m, added) == IF added THEN [working EXCEPT ![Home[m]] = Without(@, m)] ELSE working

PromoteAdded(added) ==
    /\ promote.at = "add"
    /\ LET m == Head(promote.left) IN
         /\ rows' = IF added THEN Add(m) ELSE rows
         /\ layer' = IF added THEN layer ELSE [layer EXCEPT ![m] = promote.was]
         /\ working' = PromotedFrom(m, added)
    /\ promote' = [promote EXCEPT !.at = "next", !.left = Tail(@)]
    /\ UNCHANGED <<apart, split, review, session, archive, clearing, fate, inFlight>>

\* The second and third phase: a row is read, judged, and written back a layer
\* up or down; update changes nothing when the row is gone.
Rank(m) ==
    /\ promote.at = "idle" /\ m \in Stored /\ rows[m].layer # "working"
    /\ promote' = [NoPromote EXCEPT !.at = "rank", !.left = <<m>>, !.copy = rows[m]]
    /\ UNCHANGED <<memory, session, archive, clearing, fate, inFlight>>

RankWritten ==
    /\ promote.at = "rank"
    /\ LET m == Head(promote.left)
           other == IF promote.copy.layer = "semantic" THEN "episodic" ELSE "semantic" IN
       rows' = IF m \in Stored THEN [rows EXCEPT ![m] = [promote.copy EXCEPT !.layer = other]] ELSE rows
    /\ promote' = NoPromote
    /\ UNCHANGED <<working, apart, split, layer, review, session, archive, clearing, fate, inFlight>>

-----------------------------------------------------------------------------
(* The cleanup loop.                                                         *)
\* Time may have passed any of the timeouts for a session with a last_active; the
\* others count as just active.
Deactivate(s) ==
    /\ archive.at = "idle" /\ state[s] = "active" /\ s \in dated
    /\ state' = [state EXCEPT ![s] = "inactive"]
    /\ UNCHANGED <<memory, dated, tasks, fate, inFlight>>

ArchiveStart(s) ==
    /\ archive.at = "idle" /\ state[s] = "inactive" /\ s \in dated
    /\ IF working[s] = <<>>
       THEN state' = [state EXCEPT ![s] = "closed"] /\ UNCHANGED archive
       ELSE /\ archive' = [NoArchive EXCEPT !.at = "judge", !.chat = s, !.left = working[s]]
            /\ UNCHANGED state
    /\ UNCHANGED <<memory, dated, promote, clearing, fate, inFlight>>

\* One memory is judged: worth keeping (by the evaluation, as protected or for
\* its weight), given a grace period, or discarded.
Judge(verdict) ==
    /\ archive.at = "judge" /\ archive.left # <<>>
    /\ LET m == Head(archive.left)
           kept == verdict \in {"upgraded", "grace"} IN
         /\ archive' = [archive EXCEPT !.left = Tail(@),
                            !.keep = IF kept THEN Append(@, m) ELSE @,
                            !.upgraded = @ \/ verdict = "upgraded"]
         /\ layer' = IF kept THEN [layer EXCEPT ![m] = "episodic"] ELSE layer
         /\ review' = IF verdict = "grace" THEN [review EXCEPT ![m] = TRUE] ELSE review
         /\ rows' = IF verdict = "grace" /\ m \in Stored
                    THEN [rows EXCEPT ![m] = [layer |-> layer[m], review |-> TRUE]] ELSE rows
         /\ IF kept THEN UNCHANGED fate ELSE Fate({m}, IF fate[m] = "live" THEN "discarded" ELSE fate[m])
    /\ UNCHANGED <<working, apart, split, session, promote, clearing, inFlight>>

\* One add_memory; what it returns is not looked at.
ArchiveAdd(added) ==
    /\ archive.at = "judge" /\ archive.left = <<>> /\ archive.keep # <<>>
    /\ LET m == Head(archive.keep) IN
         /\ rows' = IF added THEN Add(m) ELSE rows
         /\ IF added \/ fate[m] # "live" THEN UNCHANGED fate ELSE Fate({m}, "failed")
    /\ archive' = [archive EXCEPT !.keep = Tail(@)]
    /\ UNCHANGED <<working, apart, split, layer, review, session, promote, clearing, inFlight>>

\* The whole working memory of the session is cleared, with what came meanwhile.
ArchiveEnds ==
    /\ archive.at = "judge" /\ archive.left = <<>> /\ archive.keep = <<>>
    /\ LET late == {m \in Mem : InCache(working, m) /\ Home[m] = archive.chat /\ fate[m] = "live" /\ m \notin Stored} IN
       Fate(late, "late")
    /\ working' = [working EXCEPT ![archive.chat] = <<>>]
    /\ state' = [state EXCEPT ![archive.chat] = IF archive.upgraded THEN "archived" ELSE "closed"]
    /\ archive' = NoArchive
    /\ UNCHANGED <<apart, split, layer, review, rows, dated, promote, clearing, inFlight>>

\* The entry of a long closed session is dropped; the session itself is not,
\* since delete_session is called with arguments it does not take.
Forget(s) ==
    /\ archive.at = "idle" /\ state[s] \in {"closed", "archived"} /\ s \in dated
    /\ state' = [state EXCEPT ![s] = "none"]
    /\ dated' = dated \ {s}
    /\ UNCHANGED <<memory, tasks, fate, inFlight>>

Next ==
    \/ \E s \in Chats : \/ Activate(s) \/ ClearRows(s) \/ Deactivate(s)
                        \/ ArchiveStart(s) \/ Forget(s)
    \/ \E m \in Mem : Capture(m) \/ Rank(m)
    \/ ClearWorking \/ DeleteAll
    \/ PromoteStart \/ PromoteNext \/ RankWritten
    \/ \E ok \in BOOLEAN : PromoteAdded(ok) \/ ArchiveAdd(ok)
    \/ \E v \in {"upgraded", "grace", "discarded"} : Judge(v)
    \/ ArchiveEnds

Spec == Init /\ [][Next]_vars

-----------------------------------------------------------------------------
\* A captured memory is in the working memory or in the store until it is
\* pushed out by newer ones, judged and discarded, the user clears it, the archive
\* could not store it, or it came during an archive of its session: promotion and archive of the same memory lose nothing else.
NothingVanishes ==
    \A m \in Mem \ clearing : fate[m] = "live" => m \in Stored \/ InCache(working, m) \/ InCache(apart, m)

\* A memory the user has cleared comes back to the store only if promotion or
\* archive held it while the command ran, or the manager they kept after a
\* deletion of everything still does.
ForgottenReturnsInFlightOnly == \A m \in Stored : fate[m] = "forgotten" => m \in inFlight

\* Commands, promotion and cleanup, however they overlap, lose no memory they do
\* not mean to lose and bring none back that they did not hold.
LifecycleSound == TypeOK /\ NothingVanishes /\ ForgottenReturnsInFlightOnly

\* (Does not hold: a promotion whose add fails puts the object back to the
\* working layer while the archive is adding it.)
\* No stored row is of the working layer, where no ranking finds it.
RowsAreRanked == \A m \in Stored : rows[m].layer # "working"
=============================================================================
