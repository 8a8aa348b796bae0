--------------------------- MODULE ImageAnalysis ---------------------------
(* Descriptions of the images users send (multimodal/image_analyzer.py and    *)
(* image_cache.py). Both hooks of one message analyse its image, and those of *)
(* other messages run meanwhile: cache, budgets, recent images and cooldown   *)
(* are looked at before the model call and written after it. An entry whose   *)
(* time is over is dropped at once. Only the first image of a message is ever *)
(* analysed, whatever the mode, and one without text never while relevance is *)
(* required. Wording, token costs and the statistics are left out.            *)
EXTENDS Naturals, Sequences, FiniteSets, FiniteSetsExt, Functions

CONSTANTS
    Messages,        \* [user, session, image, sticker, related]
    Calls,           \* analyses that may overlap
    Modes,           \* image_analysis.mode: "skip", and those that analyse, as "auto"
    MaxCache, RecentLimit,
    DailyBudget, SessionBudget,
    MaxAsks          \* model calls ever

VARIABLES
    mode,
    cache,           \* images with a description, the oldest first
    recent,          \* the images analysed last, within the similar window
    daily, session,  \* analyses today, and of each session since the start
    cooling,         \* users analysed within the cooldown
    call,            \* the analyses that run: calls -> messages
    asks, paid, excuses  \* model calls; history: descriptions paid for, why again

vars == <<mode, cache, recent, daily, session, cooling, call, asks, paid, excuses>>

Images == {m.image : m \in Messages}
Sessions == {m.session : m \in Messages}
Running == DOMAIN call

Init ==
    /\ mode \in Modes
    /\ cache = <<>> /\ recent = <<>>
    /\ daily = 0 /\ session = [s \in Sessions |-> 0] /\ cooling = {}
    /\ call = [c \in {} |-> 0] /\ asks = 0
    /\ paid = [i \in Images |-> 0] /\ excuses = paid

-----------------------------------------------------------------------------
\* _determine_analysis_level: no sticker, and nothing in mode "skip".
Wanted(m) == mode # "skip" /\ ~m.sticker

\* Mutant: the session's budget may be reached, not only approached.
WithinBudget_OneMore(m) == daily < DailyBudget /\ (SessionBudget > 0 => session[m.session] <= SessionBudget)

\* check_budget; a session budget of zero is none.
WithinBudget(m) == daily < DailyBudget /\ (SessionBudget > 0 => session[m.session] < SessionBudget)

\* _analyze_single_image_with_checks, up to the model: anything else ends at once, with
\* a description from the cache or without one.
Analyse(c, m) ==
    /\ c \notin Running /\ asks < MaxAsks
    /\ Wanted(m)
    /\ m.image \notin Range(cache)
    /\ WithinBudget(m)
    /\ m.image \notin Range(recent)
    /\ m.related
    /\ m.user \notin cooling
    /\ call' = [d \in Running \cup {c} |-> IF d = c THEN m ELSE call[d]]
    /\ asks' = asks + 1
    /\ excuses' = [excuses EXCEPT ![m.image] = @ + Cardinality({d \in Running : call[d].image = m.image})]
    /\ UNCHANGED <<mode, cache, recent, daily, session, cooling, paid>>

\* What is left when the i-th entry is taken out.
Popped(s, i) == SubSeq(s, 1, i - 1) \o SubSeq(s, i + 1, Len(s))

\* add_to_cache with _cleanup_cache: in a full cache the older half gives way.
Kept(c) == IF Len(c) >= MaxCache THEN SubSeq(c, (Len(c) \div 2) + 1, Len(c)) ELSE c
Cached(i) ==
    LET kept == Kept(cache)
        at == {n \in DOMAIN kept : kept[n] = i}
    IN Append(IF at = {} THEN kept ELSE Popped(kept, CHOOSE n \in at : TRUE), i)

\* A deque of so many.
Seen(i) == LET s == Append(recent, i) IN IF Len(s) > RecentLimit THEN Tail(s) ELSE s

\* _update_stats_and_state: an analysis counts whether the model described the image,
\* failed, or was not there to be asked; only a description is cached.
Count(c) ==
    LET m == call[c] IN
    /\ daily' = daily + 1
    /\ session' = [session EXCEPT ![m.session] = @ + 1]
    /\ cooling' = cooling \cup {m.user}
    /\ recent' = Seen(m.image)
    /\ call' = [d \in Running \ {c} |-> call[d]]
    /\ UNCHANGED <<mode, asks>>

Describe(c) ==
    /\ c \in Running
    /\ LET i == call[c].image
           lost == Range(cache) \ Range(Cached(i))
       IN /\ cache' = Cached(i)
          /\ paid' = [paid EXCEPT ![i] = @ + 1]
          /\ excuses' = [j \in Images |-> excuses[j] + IF j \in lost THEN 1 ELSE 0]
    /\ Count(c)

Fail(c) ==
    /\ c \in Running
    /\ Count(c)
    /\ UNCHANGED <<cache, paid, excuses>>

-----------------------------------------------------------------------------
\* The cache's time, the similar window, the cooldown and the day pass; nothing ever
\* resets a session's count.
Expire ==
    /\ cache # <<>> /\ cache' = Tail(cache)
    /\ excuses' = [excuses EXCEPT ![Head(cache)] = @ + 1]
    /\ UNCHANGED <<mode, recent, daily, session, cooling, call, asks, paid>>

Forget ==
    /\ recent # <<>> /\ recent' = Tail(recent)
    /\ UNCHANGED <<mode, cache, daily, session, cooling, call, asks, paid, excuses>>

CoolDown(u) ==
    /\ u \in cooling /\ cooling' = cooling \ {u}
    /\ UNCHANGED <<mode, cache, recent, daily, session, call, asks, paid, excuses>>

NextDay ==
    /\ daily > 0 /\ daily' = 0
    /\ UNCHANGED <<mode, cache, recent, session, cooling, call, asks, paid, excuses>>

Next ==
    \/ \E c \in Calls, m \in Messages : Analyse(c, m)
    \/ \E c \in Calls : Describe(c) \/ Fail(c)
    \/ Expire \/ Forget \/ NextDay
    \/ \E u \in {m.user : m \in Messages} : CoolDown(u)

Spec == Init /\ [][Next]_vars

-----------------------------------------------------------------------------
\* An image is described once, and again for each time its description expired or gave
\* way, and for each analysis of it that was running when another began.
DescribedForAReason == \A i \in Images : paid[i] <= 1 + excuses[i]

\* Each analysis that overlaps the one that reaches a budget goes past it by one.
BudgetsOvershoot ==
    /\ daily < DailyBudget + Cardinality(Calls)
    /\ SessionBudget > 0 => \A s \in Sessions : session[s] < SessionBudget + Cardinality(Calls)

\* The cache holds what it may, each image once; a cache of one holds two.
CacheFits == Len(cache) <= Max({MaxCache, 2}) /\ Cardinality(Range(cache)) = Len(cache)

\* The three of them.
ImagesSound == DescribedForAReason /\ BudgetsOvershoot /\ CacheFits

\* Do not hold: budgets are kept; an image is described once while its description is
\* kept (message_processor.py:126 and :440 analyse the same message); a user's next
\* analysis waits for the cooldown; after a day without analyses a session has some left.
BudgetsKept == daily <= DailyBudget /\ \A s \in Sessions : session[s] <= SessionBudget
OneAtATime == \A c, d \in Running : call[c].user = call[d].user => c = d
DescribedOnce == \A c \in Running : call[c].image \notin Range(cache)
=============================================================================
