--------------------------- MODULE PersonaProfile ---------------------------
(* A user's persona (models/user_persona.py): what is learnt from memories by *)
(* keywords or by an extraction (persona/persona_extractor.py,                *)
(* models/persona_extraction_applier.py) goes through apply_change, which     *)
(* keeps a bounded change log of shortened values. The emotional fields       *)
(* follow the user's EmotionalState. Scores have Top steps.                   *)
EXTENDS Integers, Sequences, Functions

CONSTANTS
    Words,    \* styles, goals and triggers a memory may mention
    Top,      \* the score 1.0
    MaxLog,   \* _max_change_log
    MaxShown, \* items of a list that the log shows (20)
    Cut,      \* what the log shows of a word: itself, or its first 200 characters
    Gates     \* features enabled: a subset of {"interest", "style", "preference"}

VARIABLES
    profile,  \* the fields, one per kind of field
    log,      \* change_log: fields with their old and new values
    bound     \* an EmotionalState is bound

vars == <<profile, log, bound>>

NoWord == "none"
Said == Words \cup {NoWord}
Steps == {-1, 0, 1}
Clamp(x) == IF x < 0 THEN 0 ELSE IF x > Top THEN Top ELSE x
Larger(a, b) == IF a < b THEN b ELSE a
LastOf(s, n) == SubSeq(s, Larger(1, Len(s) - n + 1), Len(s))

\* A new persona is bound to its user's EmotionalState.
Init ==
    /\ profile = [style |-> NoWord, goals |-> <<>>, triggers |-> <<>>, interest |-> 0, trust |-> 0, tone |-> 0]
    /\ log = <<>> /\ bound = TRUE

-----------------------------------------------------------------------------
Lists == {"goals", "triggers"}
State == [profile |-> profile, log |-> log]

\* _safe_log_value
Shown(f, v) ==
    IF f \in Lists THEN SubSeq(v, 1, IF Len(v) < MaxShown THEN Len(v) ELSE MaxShown)
    ELSE IF f = "style" /\ v # NoWord THEN Cut[v] ELSE v

\* Mutant: the record of a list keeps the element, not the list it is now in.
ApplyChange_AsAsked(st, f, v) ==
    LET old == st.profile[f]
        new == IF f \notin Lists THEN v ELSE IF v \in Range(old) THEN old ELSE Append(old, v)
        asked == IF f \in Lists THEN <<v>> ELSE v
    IN IF new = old THEN st
       ELSE [profile |-> [st.profile EXCEPT ![f] = new],
             log |-> LastOf(Append(st.log, [field |-> f, old |-> Shown(f, old), new |-> Shown(f, asked)]), MaxLog)]

\* apply_change: a list gets a new element, another field a new value; an edit
\* that changes nothing leaves no record.
ApplyChange(st, f, v) ==
    LET old == st.profile[f]
        new == IF f \notin Lists THEN v ELSE IF v \in Range(old) THEN old ELSE Append(old, v)
    IN IF new = old THEN st
       ELSE [profile |-> [st.profile EXCEPT ![f] = new],
             log |-> LastOf(Append(st.log, [field |-> f, old |-> Shown(f, old), new |-> Shown(f, new)]), MaxLog)]

\* What was not found changes nothing.
AddWord(st, f, w) == IF w = NoWord THEN st ELSE ApplyChange(st, f, w)
AddStep(st, f, d) == IF d = 0 THEN st ELSE ApplyChange(st, f, Clamp(st.profile[f] + d))

\* The weight of an interest is set past apply_change.
Become(st, interest) ==
    /\ profile' = [st.profile EXCEPT !.interest = interest]
    /\ log' = st.log
    /\ UNCHANGED bound

-----------------------------------------------------------------------------
(* update_from_memory, by the type of the memory.                            *)

UpdateFacts(w, work) ==
    Become(AddWord(AddWord(State, "goals", IF work THEN w ELSE NoWord), "style", w), Clamp(profile.interest + 1))

UpdateSocial(w, trusts) ==
    Become(AddWord(AddStep(State, "trust", IF trusts THEN 1 ELSE 0), "style", w), profile.interest)

\* _update_dimension_by_keywords and _update_personality_by_keywords: a word for
\* more comes before a word for less.
Leaning(more, less) == IF more THEN 1 ELSE IF less THEN -1 ELSE 0
UpdateInteraction(w, more, less) ==
    Become(AddStep(AddWord(State, "style", w), "tone", Leaning(more, less)), profile.interest)

UpdateFromMemory ==
    \E w \in Said, a, b \in BOOLEAN :
        UpdateFacts(w, a) \/ UpdateSocial(w, a) \/ UpdateInteraction(w, a, b)

-----------------------------------------------------------------------------
(* Extraction: by rules, by a model, or both.                                *)

Nought == [style |-> NoWord, goal |-> NoWord, trigger |-> NoWord, interest |-> 0, trust |-> 0, tone |-> 0, sure |-> FALSE]

\* RuleExtractor: one step for every keyword found; sure of what it found.
Habit(w, d) == [Nought EXCEPT !.style = w, !.trigger = w, !.interest = 1, !.tone = d, !.sure = TRUE]
Goal(w) == [Nought EXCEPT !.goal = w, !.trust = 1, !.sure = TRUE]
RuleResults == {Habit(w, d) : w \in Said, d \in Steps} \cup {Goal(w) : w \in Said} \cup {Nought}

\* LLMExtractor: parsed and clamped values, or nothing, when its limit is reached,
\* it has no provider, or the answer is empty or cannot be parsed.
Answer(w, d) ==
    [Nought EXCEPT !.style = w, !.goal = w, !.interest = Top, !.trust = Larger(0, d), !.tone = d, !.sure = TRUE]
LlmResults == {Answer(w, d) : w \in Said, d \in {-1, 1}} \cup {Nought}

FirstWord(a, b) == IF a # NoWord THEN a ELSE b
FirstStep(a, b) == IF a # 0 THEN a ELSE b

\* _merge_results: the model's word, or the rules'.
Merge(rule, llm) ==
    [style |-> FirstWord(llm.style, rule.style), goal |-> FirstWord(llm.goal, rule.goal),
     trigger |-> rule.trigger, interest |-> Larger(rule.interest, llm.interest),
     trust |-> Larger(rule.trust, llm.trust), tone |-> FirstStep(llm.tone, rule.tone),
     sure |-> rule.sure \/ llm.sure]

\* _apply_feature_gates.
Gated(r) ==
    [r EXCEPT !.interest = IF "interest" \in Gates THEN @ ELSE 0,
              !.style = IF "style" \in Gates THEN @ ELSE NoWord,
              !.tone = IF "preference" \in Gates THEN @ ELSE 0]

\* extract, in its three modes: a model that finds nothing falls back on rules,
\* and a hybrid extraction may be content with its rules, but is not theirs.
Extracted ==
    {[result |-> Gated(r), ruled |-> ruled] : r \in RuleResults, ruled \in BOOLEAN}
    \cup {[result |-> Gated(Merge(r, l)), ruled |-> FALSE] : r \in RuleResults, l \in LlmResults}

\* apply_extraction_result: only the rules add to an interest, and what is not
\* their adjustment is taken at a fifth (less than a step, or one).
ApplyExtraction(x, fifth) ==
    LET r == x.result
        words == AddWord(AddWord(AddWord(State, "style", r.style), "goals", r.goal), "triggers", r.trigger)
        tone == IF x.ruled \/ fifth THEN r.tone ELSE 0
    IN /\ r.sure \/ r.interest > 0
       /\ Become(AddStep(AddStep(words, "trust", r.trust), "tone", tone),
                 IF x.ruled THEN Clamp(profile.interest + r.interest) ELSE Larger(profile.interest, r.interest))

Extract == \E x \in Extracted, f \in BOOLEAN : ApplyExtraction(x, f)

-----------------------------------------------------------------------------
\* to_dict syncs from a bound EmotionalState first, which has no triggers
\* (nothing calls its add_trigger), so those learnt are dropped, unlogged.
Synced == IF bound THEN [profile EXCEPT !.triggers = <<>>] ELSE profile

Save == profile' = Synced /\ UNCHANGED <<log, bound>>

\* from_dict on the next start: nothing binds a restored persona.
Restart == profile' = Synced /\ bound' = FALSE /\ UNCHANGED log

Next == UpdateFromMemory \/ Extract \/ Save \/ Restart

Spec == Init /\ [][Next]_vars

-----------------------------------------------------------------------------
Logged == {"style", "goals", "trust", "tone"}

\* A record leads to the next one of its field, and the last one to the field's value,
\* as the log shows it.
Explained(i) ==
    LET later == {j \in DOMAIN log : j > i /\ log[j].field = log[i].field} IN
    /\ \A j \in later : (\A k \in later : j <= k) => log[j].old = log[i].new
    /\ later = {} => log[i].new = Shown(log[i].field, profile[log[i].field])

\* The change log explains the persona: the records of a field follow from each
\* other, and the last one shows its present value, across restarts, trimming and
\* shortening.
LogExplains == \A i \in DOMAIN log : log[i].field \in Logged => Explained(i)

\* Not so for the triggers of a bound persona.
TriggersExplained == \A i \in DOMAIN log : log[i].field = "triggers" => Explained(i)
=============================================================================
