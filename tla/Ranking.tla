------------------------------ MODULE Ranking ------------------------------
(* The decisions of a retrieval that need no waiting: which strategy answers *)
(* a query (retrieval/retrieval_router.py, llm_retrieval_router.py), in which*)
(* order its memories come (retrieval/reranker.py), and which of them fit    *)
(* the prompt (utils/token_manager.py). Scores are ten-thousandths.          *)
EXTENDS Integers, Sequences, SequencesExt

CONSTANTS
    Budget, Preamble, Postamble,   \* the tokens of a TokenBudget
    Worths, Costs,                 \* what memories may be worth and cost
    Target,                        \* target_count, within 1..20
    Mode                           \* the routing detector's: "rule", "llm", "hybrid"

VARIABLES
    input,     \* what is decided: a query, two memories to rank, or some to show
    output     \* the decision

vars == <<input, output>>

Nothing == [kind |-> "nothing"]

Init == input = Nothing /\ output = Nothing

-----------------------------------------------------------------------------
(* The router.                                                               *)

\* What the router sees of a query; upset: the user's emotion is negative or
\* above 0.7. tangled: _might_be_complex. An empty query tells nothing.
Queries ==
    {q \in [kind : {"query"}, empty : BOOLEAN, time : BOOLEAN, relation : BOOLEAN, semantic : BOOLEAN,
             long : BOOLEAN, tangled : BOOLEAN, upset : BOOLEAN, graph : BOOLEAN] :
       q.empty => ~(q.time \/ q.relation \/ q.semantic \/ q.long \/ q.tangled)}

Strategies == {"vector", "time", "emotion", "graph", "hybrid"}

\* RetrievalRouter.route.
ByRules(q) ==
    IF q.time /\ q.relation THEN "hybrid"
    ELSE IF q.upset THEN "emotion"
    ELSE IF q.relation THEN "graph"
    ELSE IF q.time THEN IF q.semantic THEN "hybrid" ELSE "time"
    ELSE IF q.long THEN "hybrid" ELSE "vector"

\* The model's answer m, and whether it is sure of it (confidence 0.6).
Models == [strategy : Strategies, sure : BOOLEAN]

\* LLMRetrievalRouter, which there is unless the rules decide alone: an empty query is
\* not looked at; the model is asked where the rules know least.
ByMode(q, m) ==
    IF Mode = "rule" THEN ByRules(q)
    ELSE IF q.empty THEN "vector"
    ELSE IF Mode = "llm" THEN m.strategy
    ELSE IF m.sure /\ \/ ByRules(q) = "hybrid"
                      \/ ByRules(q) = "vector" /\ (q.long \/ q.tangled)
         THEN m.strategy ELSE ByRules(q)

\* Mutant: the graph is searched although there is none.
Executed_NoGraph(q, s) == s

\* retrieve_with_strategy: no graph, no search of it.
Executed(q, s) == IF s = "graph" /\ ~q.graph THEN "hybrid" ELSE s

\* _route_query: an answer that is not sure leaves it to the rules.
Route(q, m) ==
    /\ input = Nothing
    /\ input' = q
    /\ output' = [by |-> ByMode(q, m),
                  runs |-> Executed(q, IF Mode = "llm" /\ ~m.sure /\ ~q.empty THEN ByRules(q) ELSE ByMode(q, m))]

-----------------------------------------------------------------------------
(* The reranker. A memory's vector similarity and its graph centrality are   *)
(* never set: the first counts nothing, the second the same for all.         *)

Ranked == [quality : {4, 15}, rif : {0, 10}, recent : {5}, mine : BOOLEAN, accesses : {0, 12},
           feels : {"plain", "loud joy", "anger"}]
Pairs == [kind : {"pair"}, mood : {"anger", "joy"}, first : Ranked, second : Ranked]

\* _calculate_sender_score, _calculate_emotion_score: a loud joy hurts who is sad
\* or angry.
SenderScore(m) == IF m.mine THEN 10 ELSE 3
EmotionScore(m, mood) ==
    IF m.feels = "plain" THEN 5
    ELSE IF m.feels = "loud joy" THEN IF mood = "anger" THEN 0 ELSE 10
    ELSE IF m.feels = mood THEN 10 ELSE 3

\* Mutant: ten accesses and more are not one.
AccessScore_Uncapped(m) == 30 * m.accesses

AccessScore(m) == IF m.accesses > 10 THEN 10 ELSE m.accesses

\* _calculate_rerank_score; activity counts for all alike without the identities.
Score(m, mood) ==
    220 * m.quality + 220 * m.rif + 50 * m.recent + 100 * SenderScore(m) + 40 * 5
    + 90 * AccessScore(m) + 50 * EmotionScore(m, mood) + 80 * 5

\* A sequence by falling score, ties as they were.
Before(score, i, j) == score[i] > score[j] \/ (score[i] = score[j] /\ i < j)
Order(D, score) == CHOOSE o \in [D -> D] : \A k, l \in D : k < l => Before(score, o[k], o[l])
Sorted(s, score) == [k \in DOMAIN s |-> s[Order(DOMAIN s, score)[k]]]

Rerank(p) ==
    /\ input = Nothing
    /\ input' = p
    /\ output' = Sorted(<<p.first, p.second>>, <<Score(p.first, p.mood), Score(p.second, p.mood)>>)

-----------------------------------------------------------------------------
(* The token budget. A memory's cost is 0.7 of the tokens of its compressed  *)
(* content, its worth rif_score times importance_score.                      *)

Shown == [kind : {"show"}, memories : [1..3 -> [worth : Worths, cost : Costs]]]

\* Mutant: a memory that does not fit is passed over.
Selected_Skips(s) ==
    FoldLeft(LAMBDA done, m :
        IF done.used + m.cost <= Budget
        THEN [done EXCEPT !.list = Append(@, m), !.used = @ + m.cost] ELSE done,
        [list |-> <<>>, used |-> Preamble], SubSeq(s, 1, IF Len(s) < Target THEN Len(s) ELSE Target))

\* select_memories: what the first ones take, and how many of them fit; the first
\* that does not ends it.
Most(s) == IF Len(s) < Target THEN Len(s) ELSE Target
Taken(s) == LET used[k \in 0..Most(s)] == IF k = 0 THEN Preamble ELSE used[k - 1] + s[k].cost IN used
Fitting(s) ==
    CHOOSE k \in 0..Most(s) :
        (k = 0 \/ Taken(s)[k] <= Budget) /\ (k = Most(s) \/ Taken(s)[k + 1] > Budget)
Selected(s) == [list |-> SubSeq(s, 1, Fitting(s)), used |-> Taken(s)[Fitting(s)]]

\* finalize: the postamble, if it fits.
Finalized(done) == IF done.used + Postamble <= Budget THEN done.used + Postamble ELSE done.used

\* The ranking that came with them counts only among equal worths.
Select(i) ==
    /\ input = Nothing
    /\ input' = i
    /\ LET done == Selected(Sorted(i.memories, [k \in 1..3 |-> i.memories[k].worth])) IN
         output' = [list |-> done.list, used |-> Finalized(done)]

Next ==
    \/ \E q \in Queries, m \in Models : Route(q, m)
    \/ \E p \in Pairs : Rerank(p)
    \/ \E i \in Shown : Select(i)

Spec == Init /\ [][Next]_vars

-----------------------------------------------------------------------------
AtLeast(a, b, mood) ==
    /\ a.quality >= b.quality /\ a.rif >= b.rif /\ a.recent >= b.recent
    /\ a.accesses >= b.accesses /\ (b.mine => a.mine)
    /\ a.feels = b.feels \/ (mood = "anger" /\ b.feels = "loud joy")

\* A memory that is at least as good in everything and first stays first, and one
\* that may hurt an angry user never wins by what it tells of joy.
BetterStaysFirst ==
    input.kind = "pair" /\ AtLeast(input.first, input.second, input.mood) => output[1] = input.first

\* No number of accesses makes up for a confirmed memory with a full score.
AccessesDoNotWin ==
    input.kind = "pair" /\ input.first.quality = 15 /\ input.first.rif = 10 /\ input.first.mine
      /\ input.second.quality = 4 /\ input.second.rif = 0 => output[1] = input.first

\* The prompt's memories fit its budget, and nothing is shown for something worthier.
ShownFits ==
    input.kind = "show" =>
      /\ output.used <= Budget
      /\ \A k \in DOMAIN output.list : \A j \in 1..3 :
           input.memories[j].worth > output.list[k].worth => input.memories[j] \in Range(output.list)

\* The graph is searched only when there is one; unsure models never decide, and
\* for an upset user only an empty query, or one with a time and a relation, gets
\* another strategy.
RoutesWell ==
    input.kind = "query" =>
      /\ output.runs = "graph" => input.graph
      /\ Mode # "llm" /\ input.upset /\ output.runs # "emotion" =>
           input.empty \/ (input.time /\ input.relation)

RankingSound == BetterStaysFirst /\ AccessesDoNotWin /\ ShownFits /\ RoutesWell

\* Does not hold: a question about a relation is answered with the graph's help
\* where there is a graph (retrieval_router.py:87, 91; HYBRID asks no graph).
RelationUsesGraph ==
    input.kind = "query" /\ input.relation /\ input.graph => output.runs = "graph"

=============================================================================
