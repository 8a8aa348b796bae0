-------------------------- MODULE EmbeddingService --------------------------
(* EmbeddingManager (embedding/manager.py) and its providers: the choice of  *)
(* a provider at start, the local model loaded by a background thread, the   *)
(* LRU cache, and embed(), which leaves the event loop while the provider    *)
(* works and may come back after close() or to a cache others have filled.   *)
(* A text stands for a key of the cache, a text and the dimension asked for. *)
EXTENDS Naturals, Sequences, FiniteSets, Functions

CONSTANTS
    Texts, EmbedCallers,
    CacheMax    \* EMBEDDING_CACHE_MAX_SIZE

VARIABLES
    source,     \* embedding.source once initialize has run
    providers,  \* registered providers
    current,    \* current_provider, or "none"
    loading,    \* the local model: "no", "loading", "loaded", "failed"
    cache,      \* _embedding_cache, oldest first: [text, by]
    call        \* coroutines inside embed

vars == <<source, providers, current, loading, cache, call>>

Order == <<"astrbot", "local", "fallback">>
NoCall == [at |-> "idle", text |-> "", left |-> <<>>, got |-> "none"]

Init ==
    /\ source = "unset" /\ providers = {} /\ current = "none" /\ loading = "no"
    /\ cache = <<>>
    /\ call = [c \in EmbedCallers |-> NoCall]

-----------------------------------------------------------------------------
(* initialize(): the first provider of the source's order that comes up is   *)
(* the only one registered. The local provider comes up before its model.    *)
Candidates(s) ==
    CASE s = "auto" -> {"astrbot", "local", "fallback"}
      [] OTHER -> {s, "fallback"}

\* Mutant: every provider that comes up is registered.
Registered_All(s, p) == Candidates(s)

Registered(s, p) == {p}

Initialize(s, p) ==
    /\ source = "unset"
    /\ p \in Candidates(s)
    /\ source' = s
    /\ providers' = Registered(s, p) /\ current' = p
    /\ loading' = IF p = "local" THEN "loading" ELSE loading
    /\ UNCHANGED <<cache, call>>

\* The loader thread ends, with a model or with an error every later call raises.
LoadEnds ==
    /\ loading = "loading"
    /\ loading' \in {"loaded", "failed"}
    /\ UNCHANGED <<source, providers, current, cache, call>>

-----------------------------------------------------------------------------
\* What is left when the i-th entry is taken out.
Popped(s, i) == SubSeq(s, 1, i - 1) \o SubSeq(s, i + 1, Len(s))
Cached(x) == {i \in DOMAIN cache : cache[i].text = x}
Touch(s, i) == Append(Popped(s, i), s[i])

\* embed up to its first await: a hit returns at once and becomes the newest entry.
Hit(c, x) ==
    /\ call[c].at = "idle"
    /\ \E i \in Cached(x) :
         \/ cache' = Touch(cache, i)
         \/ cache' = Popped(cache, i)          \* expired: removed, and a miss
    /\ call' = IF Len(cache') = Len(cache) THEN call
               ELSE [call EXCEPT ![c] = [NoCall EXCEPT !.at = "first", !.text = x, !.got = current]]
    /\ UNCHANGED <<source, providers, current, loading>>

Miss(c, x) ==
    /\ call[c].at = "idle" /\ Cached(x) = {}
    /\ call' = [call EXCEPT ![c] = [NoCall EXCEPT !.at = "first", !.text = x, !.got = current]]
    /\ UNCHANGED <<source, providers, current, loading, cache>>

\* _add_to_cache: a present key is refreshed, a full cache drops its oldest entry.
Insert(e) ==
    LET same == Cached(e.text) IN
    IF same # {} THEN Append(Popped(cache, CHOOSE i \in same : TRUE), e)
    ELSE Append(IF Len(cache) >= CacheMax THEN Tail(cache) ELSE cache, e)

\* A provider can answer: the local one waits for its model.
CanAnswer(p) == p # "none" /\ (p = "local" => loading \in {"loaded", "closed"})
\* and may fail: no provider, a service error or timeout, a model that failed or loads too long.
CanFail(p) == p # "fallback"

Return(c, p) ==
    /\ cache' = Insert([text |-> call[c].text, by |-> p])
    /\ call' = [call EXCEPT ![c] = NoCall]

\* The current provider answers.
Answered(c) ==
    /\ call[c].at = "first" /\ CanAnswer(call[c].got)
    /\ Return(c, call[c].got)
    /\ UNCHANGED <<source, providers, current, loading>>

AfterFailure(c) == [call[c] EXCEPT !.at = "again", !.left = IF call[c].at = "first" THEN Order ELSE Tail(@)]

\* It fails: _embed_with_fallback goes through the registered providers in order.
Fails(c) ==
    /\ \/ call[c].at = "first" /\ CanFail(call[c].got)
       \/ call[c].at = "again" /\ call[c].left # <<>>
          /\ (Head(call[c].left) \in providers => CanFail(Head(call[c].left)))
    /\ call' = [call EXCEPT ![c] = AfterFailure(c)]
    /\ UNCHANGED <<source, providers, current, loading, cache>>

AnsweredByFallback(c) ==
    /\ call[c].at = "again" /\ call[c].left # <<>>
    /\ LET p == Head(call[c].left) IN
         /\ p \in providers /\ CanAnswer(p)
         /\ Return(c, p)
         /\ current' = p
    /\ UNCHANGED <<source, providers, loading>>

\* EmbeddingError: all providers failed.
Raises(c) ==
    /\ call[c].at = "again" /\ call[c].left = <<>>
    /\ call' = [call EXCEPT ![c] = NoCall]
    /\ UNCHANGED <<source, providers, current, loading, cache>>

\* close(): forgets the providers and the cache; calls in flight go on.
Close ==
    /\ current # "none"
    /\ providers' = {} /\ current' = "none" /\ cache' = <<>>
    /\ loading' = IF loading \in {"loaded", "loading"} THEN "closed" ELSE loading
    /\ UNCHANGED <<source, call>>

Next ==
    \/ \E s \in {"auto", "astrbot", "local"}, p \in {"astrbot", "local", "fallback"} : Initialize(s, p)
    \/ LoadEnds \/ Close
    \/ \E c \in EmbedCallers : \/ \E x \in Texts : Hit(c, x) \/ Miss(c, x)
                               \/ Answered(c) \/ Fails(c) \/ AnsweredByFallback(c) \/ Raises(c)

Spec == Init /\ [][Next]_vars

-----------------------------------------------------------------------------
\* The cache never outgrows its limit and holds one vector per key, whatever
\* calls come back together.
CacheBounded ==
    /\ Len(cache) <= CacheMax
    /\ \A i, j \in DOMAIN cache : cache[i].text = cache[j].text => i = j

\* Vectors of two models never meet in the cache, the pseudo-random ones of the
\* last resort least of all: a service that started with a provider answers
\* with it or raises, although _embed_with_fallback would try others.
NoMixedVectors == \A i, j \in DOMAIN cache : cache[i].by = cache[j].by

\* Overlapping calls and fallbacks keep the cache bounded and of one model.
EmbeddingSound == CacheBounded /\ NoMixedVectors
=============================================================================
