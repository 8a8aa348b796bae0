------------------------- MODULE UpgradeEvaluation -------------------------
(* Which memories move up a layer (core/upgrade_evaluator.py with the rules of *)
(* models/memory.py): evaluations by rules, by a model, or by a model where    *)
(* the rules are not sure. All evaluations of the process share the set of     *)
(* memories a model is asked about and the semaphore of model calls, so one    *)
(* evaluation passes over what another holds. The order of those who wait for  *)
(* the semaphore and the confidence that is only logged are left out.          *)
EXTENDS Naturals, Sequences, FiniteSets, Functions

CONSTANTS
    Memories,
    Calls,           \* evaluations that may overlap
    Modes,           \* of "rule", "llm", "hybrid"
    BatchSize,       \* memories of one model call
    MaxLlm,          \* _max_concurrent_llm
    First,           \* what is known of the memories at first
    Traits,          \* what may be known of a memory, scores in hundredths
    MaxCalls,        \* evaluations ever begun
    MaxAccesses      \* accesses ever

VARIABLES
    mode, provider,  \* the configured mode; a model is there
    layer, traits,   \* of each memory
    evaluating,      \* _evaluating_memories
    call,            \* an evaluation, see NoCall
    begun, accesses,
    judged, passed   \* history: model verdicts per memory; what a call passed over, at how many

vars == <<mode, provider, layer, traits, evaluating, call, begun, accesses, judged, passed>>

\* kind: the layer the memories move from; given: what it was given; todo: batches to
\* ask about; mine: what it holds; said: its verdicts; sure: of those, the rules' own.
NoCall == [at |-> "idle", kind |-> "working", given |-> {}, todo |-> <<>>, mine |-> {},
           said |-> [m \in {} |-> FALSE], sure |-> {}]

Init ==
    /\ mode \in Modes /\ provider = FALSE
    /\ layer = [m \in Memories |-> "working"] /\ traits = First
    /\ evaluating = {} /\ call = [c \in Calls |-> NoCall]
    /\ begun = 0 /\ accesses = 0
    /\ judged = [m \in Memories |-> 0] /\ passed = [c \in Calls |-> [m \in {} |-> 0]]

-----------------------------------------------------------------------------
(* The rules. quality: 4 high confidence, 5 confirmed; asked: the user asked   *)
(* for it to be kept; days: since it was created.                              *)

\* should_upgrade_to_episodic and should_upgrade_to_semantic, of memories of the layer.
ToEpisodic(t) ==
    \/ t.access >= 3 /\ t.importance > 50
    \/ t.emotion > 60
    \/ t.confidence >= 70
    \/ t.asked
    \/ t.rif > 50 /\ t.access >= 2
    \/ t.quality >= 4

ToSemantic(t) ==
    \/ t.access >= 5 /\ t.confidence > 65
    \/ t.quality = 5
    \/ t.importance >= 80 /\ t.access >= 3
    \/ t.days >= 7 /\ t.access >= 3 /\ t.confidence > 60

Rule(kind, t) == IF kind = "working" THEN ToEpisodic(t) ELSE ToSemantic(t)

\* _classify_evaluation_tier: what surely moves up and what surely does not.
Pass(kind, t) ==
    IF kind = "working"
    THEN \/ t.asked
         \/ t.access >= 5 /\ t.importance > 60
         \/ t.emotion > 80 \/ t.confidence >= 85
         \/ t.rif > 70 /\ t.access >= 3
         \/ t.quality >= 5
    ELSE \/ t.quality = 5
         \/ t.access >= 10 /\ t.confidence > 70
         \/ t.importance >= 90 /\ t.access >= 5
         \/ t.access >= 8 /\ t.confidence > 80

Reject(kind, t) ==
    /\ ~Pass(kind, t)
    /\ IF kind = "working"
       THEN /\ t.access < 2 /\ t.importance <= 30 /\ t.emotion <= 40
            /\ t.confidence < 50 /\ t.rif <= 30 /\ ~t.asked /\ t.quality < 4
       ELSE t.access < 2 /\ t.confidence <= 40 /\ t.importance < 50

-----------------------------------------------------------------------------
(* An evaluation.                                                            *)

With(said, more) == [m \in DOMAIN said \cup DOMAIN more |-> IF m \in DOMAIN more THEN more[m] ELSE said[m]]

\* Every cut of the memories into batches, in an order.
Batches(ms) ==
    {[i \in 1..((Len(s) + BatchSize - 1) \div BatchSize) |->
          {s[j] : j \in {k \in DOMAIN s : (k - 1) \div BatchSize = i - 1}}] : s \in Injection(1..Cardinality(ms), ms)}

\* What the model is asked about: all in mode llm, what is not sure in mode hybrid,
\* nothing without a model; the rules judge the rest.
ForModel(kind, ms) ==
    IF mode = "rule" \/ ~provider THEN {}
    ELSE IF mode = "llm" THEN ms
    ELSE {m \in ms : ~Pass(kind, traits[m]) /\ ~Reject(kind, traits[m])}

\* By the rules, or, when they are sure, by their tier, which is the same (TiersAgree).
Sure(kind, m) ==
    IF mode = "hybrid" /\ Pass(kind, traits[m]) THEN TRUE
    ELSE IF mode = "hybrid" /\ Reject(kind, traits[m]) THEN FALSE
    ELSE Rule(kind, traits[m])

Free(ms) == ms \ evaluating

\* The verdicts on it before the evaluation that holds it.
Before(m) == IF \E d \in Calls : m \in call[d].mine \cap DOMAIN call[d].said THEN judged[m] - 1 ELSE judged[m]

\* evaluate_working_to_episodic and evaluate_episodic_to_semantic, up to the semaphore:
\* promotion gives them all memories of a layer.
Evaluate(c, kind) ==
    LET given == {m \in Memories : layer[m] = kind}
        ask == ForModel(kind, given)
        sure == [m \in given \ ask |-> Sure(kind, m)]
        mine == Free(ask)
    IN /\ call[c].at = "idle" /\ begun < MaxCalls /\ given # {}
       /\ begun' = begun + 1
       /\ evaluating' = evaluating \cup mine
       /\ \E todo \in Batches(mine) :
            call' = [call EXCEPT ![c] =
                [at |-> IF mine = {} THEN "done" ELSE "wait", kind |-> kind, given |-> given,
                 todo |-> todo, mine |-> mine, said |-> sure, sure |-> DOMAIN sure]]
       /\ passed' = [passed EXCEPT ![c] = [m \in ask \ mine |-> Before(m)]]
       /\ UNCHANGED <<mode, provider, layer, traits, accesses, judged>>

\* The semaphore.
Acquire(c) ==
    /\ call[c].at = "wait"
    /\ Cardinality({d \in Calls : call[d].at = "ask"}) < MaxLlm
    /\ call' = [call EXCEPT ![c].at = "ask"]
    /\ UNCHANGED <<mode, provider, layer, traits, evaluating, begun, accesses, judged, passed>>

\* Mutant: what was held stays held.
Released_Kept(ms) == evaluating

Released(ms) == evaluating \ ms

\* What the batch's answer says: of each memory yes (with enough confidence), no, or
\* nothing, as of all when it cannot be read, and then the rule of the layer the memory
\* has by now counts (_parse_llm_response); when the model fails or is silent, the
\* evaluation's own rule, which wants that layer.
Layered(kind, m) ==
    IF kind = "working" /\ layer[m] # "working" THEN ToSemantic(traits[m]) ELSE Rule(kind, traits[m])
Failed(kind, m) == (kind = "working" => layer[m] = "working") /\ Rule(kind, traits[m])

Answered(c, said) ==
    LET k == call[c]
        left == Tail(k.todo)
        over == left = <<>>
    IN /\ call' = [call EXCEPT ![c] =
              [k EXCEPT !.said = With(@, said), !.todo = left, !.at = IF over THEN "done" ELSE "sleep",
                        !.mine = IF over THEN {} ELSE @]]
       /\ evaluating' = IF over THEN Released(k.mine) ELSE evaluating
       /\ judged' = [m \in Memories |-> judged[m] + IF m \in Head(k.todo) THEN 1 ELSE 0]
       /\ UNCHANGED <<mode, provider, layer, traits, begun, accesses, passed>>

Answer(c) ==
    /\ call[c].at = "ask"
    /\ LET batch == Head(call[c].todo)
           kind == call[c].kind
       IN \/ \E named \in SUBSET batch : \E yes \in SUBSET named :
               Answered(c, [m \in batch |-> IF m \in named THEN m \in yes ELSE Layered(kind, m)])
          \/ Answered(c, [m \in batch |-> Failed(kind, m)])

\* The pause between two batches.
Wake(c) ==
    /\ call[c].at = "sleep"
    /\ call' = [call EXCEPT ![c].at = "wait"]
    /\ UNCHANGED <<mode, provider, layer, traits, evaluating, begun, accesses, judged, passed>>

\* _promote_memories moves what the evaluation said yes to, unless storing it fails.
Above(kind) == IF kind = "working" THEN "episodic" ELSE "semantic"

Use(c) ==
    /\ call[c].at = "done"
    /\ \E stored \in SUBSET {m \in DOMAIN call[c].said : call[c].said[m]} :
         layer' = [m \in Memories |-> IF m \in stored /\ layer[m] = call[c].kind THEN Above(call[c].kind) ELSE layer[m]]
    /\ call' = [call EXCEPT ![c] = NoCall]
    /\ passed' = [passed EXCEPT ![c] = [m \in {} |-> 0]]
    /\ UNCHANGED <<mode, provider, traits, evaluating, begun, accesses, judged>>

-----------------------------------------------------------------------------
\* set_llm_provider, and update_access of what is retrieved meanwhile.
SetProvider ==
    /\ ~provider /\ provider' = TRUE
    /\ UNCHANGED <<mode, layer, traits, evaluating, call, begun, accesses, judged, passed>>

Access(m) ==
    /\ accesses < MaxAccesses /\ accesses' = accesses + 1
    /\ traits' = [traits EXCEPT ![m].access = @ + 1]
    /\ UNCHANGED <<mode, provider, layer, evaluating, call, begun, judged, passed>>

Next ==
    \/ \E c \in Calls, kind \in {"working", "episodic"} : Evaluate(c, kind)
    \/ \E c \in Calls : Acquire(c) \/ Answer(c) \/ Wake(c) \/ Use(c)
    \/ SetProvider
    \/ \E m \in Memories : Access(m)

Spec == Init /\ [][Next]_vars

-----------------------------------------------------------------------------
\* Where the rules are sure they say what they say alone, of whatever is known.
TiersAgree == begun = 0 => \A t \in Traits : \A kind \in {"working", "episodic"} :
    /\ Pass(kind, t) => Rule(kind, t)
    /\ Reject(kind, t) => ~Rule(kind, t)

\* A memory is asked about by one call at a time, and by so many at once; what is held
\* is what an evaluation that runs still holds.
OneJudge ==
    /\ \A c, d \in Calls : c # d => call[c].mine \cap call[d].mine = {}
    /\ evaluating = UNION {call[c].mine : c \in Calls}

\* What an evaluation passed over is held, or who held it has judged it.
PassedIsJudged == \A c \in Calls : \A m \in DOMAIN passed[c] :
    m \in evaluating \/ judged[m] > passed[c][m]

\* An evaluation that is done says something of all it did not pass over.
AllAnswered == \A c \in Calls :
    call[c].at = "done" => DOMAIN call[c].said = call[c].given \ DOMAIN passed[c]

\* The four of them.
EvaluationSound == TiersAgree /\ OneJudge /\ PassedIsJudged /\ AllAnswered

\* Does not hold: an evaluation has a verdict on all it was given. _archive_session
\* takes none for a no (lifecycle_manager.py:602), so what promotion is asking about
\* goes to the grace period or is discarded.
EverythingJudged == \A c \in Calls : call[c].at = "done" => DOMAIN call[c].said = call[c].given
=============================================================================
