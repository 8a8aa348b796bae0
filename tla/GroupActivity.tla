--------------------------- MODULE GroupActivity ---------------------------
(* How active a group is (core/activity_config.py): messages counted by the   *)
(* hour, a weighted average of the hours that had any, a level with           *)
(* hysteresis, and the presets of that level, cached key by key.              *)
EXTENDS Integers, Sequences

CONSTANTS
    Amounts,   \* messages an hour may have
    Keys       \* keys of the presets

VARIABLES
    counts,    \* hourly_counts, by how many hours ago; 0: the hour has no entry
    level,     \* 0: quiet, 1: moderate, 2: active, 3: intensive
    due,       \* activity_calc_interval has passed since the last calculation
    cache      \* _cache: the level whose preset is cached for a key, or NoLevel

vars == <<counts, level, due, cache>>

Hours == 0..3      \* ACTIVITY_WINDOW_HOURS, and the hour begun
NoLevel == -1
Levels == 0..3
Silent == [h \in Hours |-> 0]
NoCache == [k \in Keys |-> NoLevel]

Init == counts = Silent /\ level = 1 /\ due = TRUE /\ cache = NoCache

-----------------------------------------------------------------------------
Weight == <<10, 7, 5, 3>>

\* _weighted_average: ten times the messages per hour are Weighed(c) / Hourly(c); an
\* hour without messages has no entry, and no weight.
Sum4(f(_)) == f(0) + f(1) + f(2) + f(3)
Weighed(c) == LET w(h) == c[h] * Weight[h + 1] IN Sum4(w)
Hourly(c) == LET w(h) == IF c[h] = 0 THEN 0 ELSE Weight[h + 1] IN Sum4(w)

\* A rate is a fraction <<messages, hours>>.
Rate(c) == IF c = Silent THEN <<0, 1>> ELSE <<Weighed(c), Hourly(c)>>
AtLeast(r, tenths) == 10 * r[1] >= tenths * r[2]

Upper == <<5, 20, 50>>     \* of quiet, moderate, active
Raw(r) == CHOOSE l \in Levels : /\ l = 3 \/ ~AtLeast(r, 10 * Upper[l + 1])
                                /\ l = 0 \/ AtLeast(r, 10 * Upper[l])

\* Mutant: the factors of the limits up and down are swapped.
Classified_EasyUp(r, now) ==
    CASE Raw(r) > now -> IF AtLeast(r, 8 * Upper[now + 1]) THEN Raw(r) ELSE now
      [] Raw(r) < now -> IF AtLeast(r, 12 * Upper[Raw(r) + 1]) THEN now ELSE Raw(r)
      [] OTHER -> now

\* _classify_with_hysteresis: up from a fifth above the limit of the present level,
\* down from a fifth below the limit of the new one.
Classified(r, now) ==
    CASE Raw(r) > now -> IF AtLeast(r, 12 * Upper[now + 1]) THEN Raw(r) ELSE now
      [] Raw(r) < now -> IF AtLeast(r, 8 * Upper[Raw(r) + 1]) THEN now ELSE Raw(r)
      [] OTHER -> now

\* record_message, for the messages of some minutes.
Record(n) ==
    /\ counts[0] < n
    /\ counts' = [counts EXCEPT ![0] = n]
    /\ UNCHANGED <<level, due, cache>>

\* get_config: a cached preset, or that of the level, calculated again if due.
GetConfig(k) ==
    /\ cache[k] = NoLevel
    /\ level' = IF due THEN Classified(Rate(counts), level) ELSE level
    /\ due' = FALSE
    /\ cache' = [cache EXCEPT ![k] = level']
    /\ UNCHANGED counts

\* Minutes pass: the calculation is due again, or a preset expires (config_cache_ttl).
Later == due' = TRUE /\ UNCHANGED <<counts, level, cache>>
Expire(k) == cache' = [cache EXCEPT ![k] = NoLevel] /\ UNCHANGED <<counts, level, due>>

\* The next hour, and _prune_buckets, before anything looks at the counts.
NextHour ==
    /\ counts' = [h \in Hours |-> IF h = 0 THEN 0 ELSE counts[h - 1]]
    /\ due' = TRUE /\ cache' = NoCache /\ UNCHANGED level

\* serialize and deserialize: the counts and the level survive, the cache does not.
Restart == cache' = NoCache /\ UNCHANGED <<counts, level, due>>

Next ==
    \/ \E n \in Amounts : Record(n)
    \/ \E k \in Keys : GetConfig(k) \/ Expire(k)
    \/ Later \/ NextHour \/ Restart

Spec == Init /\ [][Next]_vars

-----------------------------------------------------------------------------
Rates == {<<m, 1>> : m \in {0, 3, 4, 5, 6, 15, 16, 19, 20, 23, 24, 39, 40, 49, 50, 59, 60}}
Less(r, s) == r[1] * s[2] < s[1] * r[2]

\* The level follows the messages without flapping: it settles at once, and after
\* it rose it falls only when the messages are a fifth less than they were then.
Settles == LET l == Classified(Rate(counts), level) IN Classified(Rate(counts), l) = l
NoFlapping ==
    \A r, s \in Rates : LET l == Classified(r, level) IN
        l > level /\ Classified(s, l) < l => 10 * s[1] <= 8 * r[1]

\* A group that nobody wrote to for four hours is quiet once calculated.
SilenceEnds == counts = Silent => Classified(Rate(counts), level) = 0

\* The three of them.
ActivitySound == Settles /\ NoFlapping /\ SilenceEnds

\* Do not hold: fewer messages never leave a higher level (from active, 4.5 an hour
\* keeps it, 10 does not: activity_config.py:339 compares with the limit of quiet
\* only); a group silent for an hour or more has a lower rate (only hours with
\* messages are averaged, :280); all presets of a group are of one level.
FewerIsLess == \A r, s \in Rates : Less(r, s) => Classified(r, level) <= Classified(s, level)
SilenceCounts == counts[0] = 0 /\ counts[1] = 0 => Raw(Rate(counts)) = 0
OneLevel == \A j, k \in Keys : cache[j] # NoLevel /\ cache[k] # NoLevel => cache[j] = cache[k]
=============================================================================
