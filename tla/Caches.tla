------------------------------- MODULE Caches -------------------------------
(* storage/cache.py: the LRU and LFU caches EmbeddingCache chooses between,  *)
(* here given the same calls.                                                *)
EXTENDS Naturals, Sequences, FiniteSets

CONSTANTS
    Keys, Values, CacheSize,
    MaxCount    \* bound on access counts

VARIABLES
    lru,        \* LRUCache._cache, least recently used first: [key, value, old]
    lfu,        \* LFUCache._cache, oldest entry first: [key, value, old, count]
    minFreq,    \* LFUCache._min_freq
    recency,    \* history: [key], by the last set of the key or hit in lru, the latest last
    last        \* history: the value last set for a key

vars == <<lru, lfu, minFreq, recency, last>>

None == "none"
At(s, k) == CHOOSE i \in DOMAIN s : s[i].key = k
Has(s, k) == \E i \in DOMAIN s : s[i].key = k
\* What is left when the i-th entry is taken out.
Popped(s, i) == SubSeq(s, 1, i - 1) \o SubSeq(s, i + 1, Len(s))
Drop(s, k) == IF Has(s, k) THEN Popped(s, At(s, k)) ELSE s
ToEnd(s, k) == Append(Drop(s, k), s[At(s, k)])
Used(k) == recency' = IF Has(lru', k) THEN Append(Drop(recency, k), [key |-> k]) ELSE recency

MinOf(S) == IF S = {} THEN 0 ELSE CHOOSE n \in S : \A m \in S : n <= m
Counts(s) == {s[i].count : i \in DOMAIN s}
Least(s) == MinOf(Counts(s))

Init ==
    /\ lru = <<>> /\ lfu = <<>> /\ minFreq = 0
    /\ recency = <<>> /\ last = [k \in Keys |-> None]

-----------------------------------------------------------------------------
(* set: a present key gets the value (and keeps its creation time, so an     *)
(* expired entry stays expired); a new one evicts when the cache is full.    *)

LruSet(k, v) ==
    IF Has(lru, k) THEN ToEnd([lru EXCEPT ![At(lru, k)].value = v], k)
    ELSE Append(IF Len(lru) >= CacheSize /\ lru # <<>> THEN Tail(lru) ELSE lru,
                [key |-> k, value |-> v, old |-> FALSE])

\* Of the least frequently used entries the oldest goes.
LfuEvicted == IF lfu = <<>> THEN lfu
              ELSE Popped(lfu, MinOf({i \in DOMAIN lfu : lfu[i].count = Least(lfu)}))

\* Mutant: the value of a present key is left.
LfuSet_Keeps(k, v) ==
    IF Has(lfu, k) THEN lfu
    ELSE Append(IF Len(lfu) >= CacheSize THEN LfuEvicted ELSE lfu, [key |-> k, value |-> v, old |-> FALSE, count |-> 0])

LfuSet(k, v) ==
    IF Has(lfu, k) THEN [lfu EXCEPT ![At(lfu, k)].value = v]
    ELSE Append(IF Len(lfu) >= CacheSize THEN LfuEvicted ELSE lfu, [key |-> k, value |-> v, old |-> FALSE, count |-> 0])

\* The entry of k was the only one with the lowest count.
OnlyLowest(k) == \A i \in DOMAIN lfu : lfu[i].count = minFreq => lfu[i].key = k

SetFreq(k) ==
    IF ~Has(lfu, k) \/ (lfu[At(lfu, k)].count = minFreq /\ OnlyLowest(k)) THEN Least(lfu') ELSE minFreq

Set(k, v) ==
    /\ lru' = LruSet(k, v)
    /\ lfu' = LfuSet(k, v)
    /\ minFreq' = SetFreq(k)
    /\ last' = [last EXCEPT ![k] = v]
    /\ Used(k)

(* get: an expired entry is deleted and is a miss.                           *)

LruGet(k) ==
    IF ~Has(lru, k) THEN lru ELSE IF lru[At(lru, k)].old THEN Drop(lru, k) ELSE ToEnd(lru, k)

LfuGet(k) ==
    IF ~Has(lfu, k) THEN lfu ELSE IF lfu[At(lfu, k)].old THEN Drop(lfu, k)
    ELSE [lfu EXCEPT ![At(lfu, k)].count = @ + 1]

GetFreq(k) ==
    IF Has(lfu, k) /\ ~lfu[At(lfu, k)].old /\ lfu[At(lfu, k)].count = minFreq /\ OnlyLowest(k)
    THEN Least(lfu') ELSE minFreq

Get(k) ==
    /\ Has(lfu, k) => lfu[At(lfu, k)].count < MaxCount
    /\ lru' = LruGet(k)
    /\ lfu' = LfuGet(k)
    /\ minFreq' = GetFreq(k)
    /\ Used(k)
    /\ UNCHANGED last

\* delete takes the minimum before the entry is gone.
DeleteFreq(k) ==
    IF Has(lfu, k) /\ lfu[At(lfu, k)].count = minFreq
    THEN IF Len(lfu) > 1 THEN Least(lfu) ELSE 0 ELSE minFreq

Delete(k) ==
    /\ lru' = Drop(lru, k) /\ lfu' = Drop(lfu, k)
    /\ minFreq' = DeleteFreq(k)
    /\ last' = [last EXCEPT ![k] = None]
    /\ UNCHANGED recency

Clear ==
    /\ lru' = <<>> /\ lfu' = <<>> /\ minFreq' = 0
    /\ last' = [k \in Keys |-> None]
    /\ UNCHANGED recency

\* Time passes the ttl of an entry.
Aged(s, k) == IF Has(s, k) THEN [s EXCEPT ![At(s, k)].old = TRUE] ELSE s
Expire(k) ==
    /\ lru' = Aged(lru, k) /\ lfu' = Aged(lfu, k)
    /\ UNCHANGED <<minFreq, recency, last>>


Next ==
    \/ \E k \in Keys : (\E v \in Values : Set(k, v)) \/ Get(k) \/ Delete(k) \/ Expire(k)
    \/ Clear

Spec == Init /\ [][Next]_vars

-----------------------------------------------------------------------------
Before(s, x, y) == \E i, j \in DOMAIN s : i < j /\ s[i].key = x /\ s[j].key = y

\* The LRU cache drops by recency: its order is the order of the last set or hit.
OrderIsRecency == \A x, y \in Keys : Before(lru, x, y) => Before(recency, x, y)

\* Neither strategy ever serves a value that a later set or delete replaced.
NeverStale ==
    /\ \A i \in DOMAIN lru : lru[i].value = last[lru[i].key]
    /\ \A i \in DOMAIN lfu : lfu[i].value = last[lfu[i].key]

\* _min_freq, maintained along five paths, stays a lower bound of the counts
\* (expiry and delete leave it below the minimum).
MinFreqIsLowerBound == \A i \in DOMAIN lfu : minFreq <= lfu[i].count

\* Sets, hits, expiry, deletion and eviction in any order keep both strategies'
\* bookkeeping in step with what the cache holds, and its values current.
CachesSound == OrderIsRecency /\ NeverStale /\ MinFreqIsLowerBound

\* (Does not hold: set on an expired entry keeps its creation time.)
\* What was just set is served until it expires.
JustSetIsFresh == [][\A k \in Keys, v \in Values : Set(k, v) => ~lru'[At(lru', k)].old]_vars
=============================================================================
