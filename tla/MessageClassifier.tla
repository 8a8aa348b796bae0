------------------------- MODULE MessageClassifier -------------------------
(* Where a message goes (capture/message_classifier.py, called by            *)
(* process_message_batch): captured at once, put into the batch or dropped,  *)
(* by the rules, by a model, or by the model where the rules are unsure. The *)
(* model's answers are cached by the text, and a user has one call per       *)
(* cooldown. Confidences are hundredths.                                     *)
EXTENDS Naturals, Sequences, FiniteSets

CONSTANTS
    Requests,   \* messages, by number
    UserOf,     \* request -> who wrote it
    TextOf,     \* request -> its text
    Rules,      \* text -> what the rules find: negative, trigger, intensity
    CacheMax    \* fingerprint_cache_size

VARIABLES
    processing, \* mode: "local", "llm" or "hybrid"
    answers,    \* _fingerprint_cache: texts and layers, oldest first
    cooling,    \* users whose cooldown runs
    stage,      \* request -> "new", "asking" or where it went
    windowCalls, \* ghost: calls in the user's current cooldown
    known,      \* ghost: text -> layers a model gave it
    cause       \* ghost: request -> who decided: "rules" or "model"

vars == <<processing, answers, cooling, stage, windowCalls, known, cause>>

Layers == {"immediate", "batch", "discard"}
Users == {UserOf[r] : r \in Requests}

Init ==
    /\ processing \in {"local", "llm", "hybrid"}
    /\ answers = <<>> /\ cooling = {}
    /\ stage = [r \in Requests |-> "new"]
    /\ windowCalls = [u \in Users |-> 0]
    /\ known = [t \in {TextOf[r] : r \in Requests} |-> {}]
    /\ cause = [r \in Requests |-> "none"]

\* _classify_local: layer and confidence of a text.
Local(t) ==
    IF t.negative THEN [layer |-> "discard", confidence |-> 100]
    ELSE IF t.trigger >= 80 THEN [layer |-> "immediate", confidence |-> t.trigger]
    ELSE IF t.intensity >= 70 THEN [layer |-> "immediate", confidence |-> t.intensity]
    ELSE [layer |-> "batch", confidence |-> 50]
LocalOf(r) == Local(Rules[TextOf[r]])

\* Mutant: the band reaches down to what the rules put into the batch.
Unsure_Wide(t) == Local(t).confidence \in 50..79

\* The band in which the hybrid mode asks: above 0.6 and below 0.8.
Unsure(t) == Local(t).confidence \in 61..79

\* What is left when the i-th entry is taken out.
Popped(s, i) == SubSeq(s, 1, i - 1) \o SubSeq(s, i + 1, Len(s))
CachedAt(t) == {i \in DOMAIN answers : answers[i].text = t}
Cached(r) == CachedAt(TextOf[r]) # {}

\* _cache_result: a text answered again is young again, the oldest is dropped.
CacheResult(t, l) ==
    LET others == IF CachedAt(t) = {} THEN answers ELSE Popped(answers, CHOOSE i \in CachedAt(t) : TRUE)
        new == Append(others, [text |-> t, layer |-> l])
    IN answers' = IF Len(new) > CacheMax THEN Tail(new) ELSE new

\* process_message_batch does with the layer what it says.
Goes(r, l, who) ==
    /\ stage' = [stage EXCEPT ![r] = l]
    /\ cause' = [cause EXCEPT ![r] = who]

-----------------------------------------------------------------------------
\* The local mode, and the hybrid mode where the rules are sure; the model is
\* unavailable until its first use found a provider, and again later.
ByRules(r) ==
    /\ stage[r] = "new"
    /\ \/ processing = "local"
       \/ processing = "hybrid" /\ ~Cached(r) /\ ~Unsure(Rules[TextOf[r]])
    /\ Goes(r, LocalOf(r).layer, "rules")
    /\ UNCHANGED <<processing, answers, cooling, windowCalls, known>>

ByCache(r) ==
    /\ stage[r] = "new" /\ processing # "local" /\ Cached(r)
    /\ \E i \in CachedAt(TextOf[r]) :
         Goes(r, answers[i].layer, "model")
    /\ UNCHANGED <<processing, answers, cooling, windowCalls, known>>

WantsModel(r) ==
    /\ stage[r] = "new" /\ ~Cached(r)
    /\ \/ processing = "llm"
       \/ processing = "hybrid" /\ Unsure(Rules[TextOf[r]])

\* The cooldown runs, or the model is not available, which the llm mode looks at
\* before the cache.
Skips(r) ==
    /\ \/ WantsModel(r)
       \/ stage[r] = "new" /\ processing = "llm"
    /\ Goes(r, LocalOf(r).layer, "rules")
    /\ UNCHANGED <<processing, answers, cooling, windowCalls, known>>

\* Mutant: the call is recorded when it is answered.
Ask_Late(r) ==
    /\ WantsModel(r) /\ UserOf[r] \notin cooling
    /\ stage' = [stage EXCEPT ![r] = "asking"]
    /\ windowCalls' = [windowCalls EXCEPT ![UserOf[r]] = @ + 1]
    /\ UNCHANGED <<processing, answers, cooling, known, cause>>

\* _record_llm_call, and the call.
Ask(r) ==
    /\ WantsModel(r) /\ UserOf[r] \notin cooling
    /\ cooling' = cooling \cup {UserOf[r]}
    /\ stage' = [stage EXCEPT ![r] = "asking"]
    /\ windowCalls' = [windowCalls EXCEPT ![UserOf[r]] = @ + 1]
    /\ UNCHANGED <<processing, answers, known, cause>>

\* The answer, which the hybrid mode takes from 0.6 on; a failed call, an
\* unreadable answer and an unsure one leave the rules'.
Answer(r) ==
    /\ stage[r] = "asking"
    /\ \/ \E l \in Layers :
            /\ CacheResult(TextOf[r], l)
            /\ known' = [known EXCEPT ![TextOf[r]] = @ \cup {l}]
            /\ Goes(r, l, "model")
       \/ Goes(r, LocalOf(r).layer, "rules") /\ UNCHANGED <<answers, known>>
    /\ UNCHANGED <<processing, cooling, windowCalls>>

CooldownEnds(u) ==
    /\ u \in cooling
    /\ cooling' = cooling \ {u}
    /\ windowCalls' = [windowCalls EXCEPT ![u] = 0]
    /\ UNCHANGED <<processing, answers, stage, known, cause>>

\* The oldest answer is older than the TTL, and the next look drops it.
Expire ==
    /\ answers # <<>> /\ answers' = Tail(answers)
    /\ UNCHANGED <<processing, cooling, stage, windowCalls, known, cause>>

Next ==
    \/ \E r \in Requests : ByRules(r) \/ ByCache(r) \/ Skips(r) \/ Ask(r) \/ Answer(r)
    \/ \E u \in Users : CooldownEnds(u)
    \/ Expire

Spec == Init /\ [][Next]_vars

-----------------------------------------------------------------------------
\* A user's messages cost one call per cooldown, however many are under way.
OneCallPerCooldown == \A u \in Users : windowCalls[u] <= 1

\* The cache keeps one answer per text and its limit.
CacheKept ==
    /\ Len(answers) <= CacheMax
    /\ \A i, j \in DOMAIN answers : answers[i].text = answers[j].text => i = j

\* In the hybrid mode a model takes messages out of the immediate layer, and never
\* one in: it is asked only about what the rules have found immediate.
ModelOnlyLowers ==
    processing = "hybrid" => \A r \in Requests :
        stage[r] = "asking" \/ cause[r] = "model" => LocalOf(r).layer = "immediate"

\* What is dropped is no memory by the rules, or a model said so of that text.
DropsExplained ==
    \A r \in Requests : stage[r] = "discard" => LocalOf(r).layer = "discard" \/ "discard" \in known[TextOf[r]]

ClassifierSound == OneCallPerCooldown /\ CacheKept /\ ModelOnlyLowers /\ DropsExplained
=============================================================================
