------------------------ MODULE KnowledgeGraphProofs ------------------------
(* Proofs about KnowledgeGraph, for any memories, users, groups, workers,    *)
(* batch size and number of nodes.                                           *)
EXTENDS KnowledgeGraph, Integers, FiniteSetTheorems, SequenceTheorems, SequencesExt, TLAPS

FactUsers == {By[m] : m \in Facts}
FactChats == {In[m] : m \in Facts}
Given == 1..Len(owner)
InHand == {"storing", "caught"}
NoTwice(s) == \A i, j \in 1..Len(s) : s[i] = s[j] => i = j

\* The tables and the cache, of which every row was once given out.
TablesTyped ==
    /\ owner \in Seq(Nodes)
    /\ DOMAIN nodes \subseteq Given /\ \A i \in DOMAIN nodes : nodes[i] = owner[i]
    /\ DOMAIN edges \subseteq Given \X Given
    /\ \A e \in DOMAIN edges : \E m \in Facts : edges[e] = [user |-> By[m], group |-> In[m], memory |-> m]
    /\ DOMAIN known \subseteq Names \X FactUsers \X FactChats
    /\ \A k \in DOMAIN known : known[k] \in Given

\* A node as an upsert from user u's private chat may return it.
Private(i, u) == owner[i].user = u /\ owner[i].group = NoGroup

PrivateRows ==
    /\ \A k \in DOMAIN known : k[3] = NoGroup => Private(known[k], k[2])
    /\ \A e \in DOMAIN edges : edges[e].group = NoGroup =>
         Private(e[1], edges[e].user) /\ Private(e[2], edges[e].user)

TablesInv == TablesTyped /\ EdgesOnNodes /\ NodesUnique /\ StaleOnlyForeign /\ PrivateRows

\* A worker between the thirds of a triple remembers nodes that were given out,
\* to its memory's user if they were asked for from a private chat.
Remembers(i, m) == i \in Given /\ (In[m] = NoGroup => Private(i, By[m]))

Works(w) ==
    /\ storing[w].at # "idle" => storing[w].left # <<>>
    /\ storing[w].at \in {"object", "edge"} => Remembers(storing[w].from, Head(storing[w].left))
    /\ storing[w].at = "edge" => Remembers(storing[w].to, Head(storing[w].left))

WorkInv == \A w \in Workers : Works(w)

\* A memory is in one place of the batch or of one worker's hands, and is marked so.
HandsInv ==
    /\ NoTwice(pending)
    /\ \A m \in Items(pending) : fact[m] \in InHand
    /\ \A w \in Workers :
         /\ NoTwice(storing[w].left)
         /\ \A m \in Items(storing[w].left) : fact[m] \in InHand /\ m \notin Items(pending)
    /\ \A v, w \in Workers : v # w => Items(storing[v].left) \cap Items(storing[w].left) = {}

HandsTyped ==
    /\ pending \in Seq(Facts) /\ Len(pending) < PendingSize
    /\ storing \in [Workers -> [at : {"idle", "ask", "subject", "object", "edge"}, left : Seq(Facts), from : Nat, to : Nat]]
    /\ upkeep.at \in {"idle", "edges", "nodes"}
    /\ fact \in [Facts -> {"new", "storing", "caught", "nothing", "known", "forgotten"}]

GraphInv == TablesInv /\ HandsTyped /\ WorkInv /\ HandsInv /\ ForgottenOnlyInFlight

-----------------------------------------------------------------------------
(* The tables under the operations of KGStorage.                             *)

\* Identifiers stay what they were, and there may be more of them.
OwnerGrows == Len(owner') \in Nat /\ Len(owner) <= Len(owner') /\ \A i \in Given : owner'[i] = owner[i]

\* Every identifier an upsert may return has the user and, in a private chat, the
\* privacy that was asked for.
LEMMA UpsertedRow ==
  ASSUME TablesInv, NEW name \in Names, NEW m \in Facts, NEW i \in Upserted(name, m)
  PROVE  \/ /\ i \in Given
            /\ i \in DOMAIN nodes \/ (Key(name, m) \in DOMAIN known /\ known[Key(name, m)] = i)
            /\ In[m] = NoGroup => Private(i, By[m])
         \/ i = Len(owner) + 1 /\ Found(name, m) = {} /\ Key(name, m) \notin DOMAIN known
<1>1. CASE Key(name, m) \in DOMAIN known
  <2>1. i = known[Key(name, m)] /\ i \in Given
    BY <1>1 DEF Upserted, TablesInv, TablesTyped
  <2>2. In[m] = NoGroup => Private(i, By[m])
    BY <1>1, <2>1 DEF TablesInv, PrivateRows, Key
  <2>3. QED
    BY <1>1, <2>1, <2>2
<1>2. CASE Key(name, m) \notin DOMAIN known /\ Found(name, m) # {}
  <2>1. i \in Found(name, m)
    BY <1>2 DEF Upserted
  <2>2. i \in DOMAIN nodes /\ nodes[i] = owner[i] /\ i \in Given
    BY <2>1 DEF Found, TablesInv, TablesTyped
  <2>3. In[m] = NoGroup => Private(i, By[m])
    BY <2>1, <2>2 DEF Found, Private
  <2>4. QED
    BY <2>2, <2>3
<1>3. CASE Key(name, m) \notin DOMAIN known /\ Found(name, m) = {}
  BY <1>3 DEF Upserted
<1>4. QED
  BY <1>1, <1>2, <1>3

LEMMA UpsertKeeps ==
  ASSUME TablesInv, NEW name \in Names, NEW m \in Facts, NEW i \in 1..MaxNodes, UpsertNode(name, m, i)
  PROVE  /\ TablesInv' /\ OwnerGrows /\ edges' = edges
         /\ i \in Given' /\ (In[m] = NoGroup => Private(i, By[m])')
<1> DEFINE K == Key(name, m)
<1> DEFINE n == [name |-> name, user |-> By[m], group |-> In[m]]
<1>0. /\ Len(owner) \in Nat /\ Given = 1..Len(owner) /\ i \in Nat /\ i \in Upserted(name, m)
      /\ n \in Nodes /\ K = <<name, By[m], In[m]>> /\ K \in Names \X FactUsers \X FactChats
      /\ K[1] = name /\ K[2] = By[m] /\ K[3] = In[m]
      /\ edges' = edges
      /\ DOMAIN known' = DOMAIN known \cup {K} /\ known'[K] = i
      /\ \A k \in DOMAIN known : k # K => known'[k] = known[k]
  BY LenProperties DEF TablesInv, TablesTyped, UpsertNode, Given, Nodes, Key, FactUsers, FactChats
<1>1. \/ /\ i \in Given /\ nodes' = nodes /\ owner' = owner
         /\ i \in DOMAIN nodes \/ (K \in DOMAIN known /\ known[K] = i)
         /\ In[m] = NoGroup => Private(i, By[m])
      \/ /\ i = Len(owner) + 1 /\ Found(name, m) = {} /\ K \notin DOMAIN known
         /\ owner' = Append(owner, n) /\ DOMAIN nodes' = DOMAIN nodes \cup {i} /\ nodes'[i] = n
         /\ \A j \in DOMAIN nodes : j # i => nodes'[j] = nodes[j]
  <2>1. \/ /\ i \in Given
           /\ i \in DOMAIN nodes \/ (K \in DOMAIN known /\ known[K] = i)
           /\ In[m] = NoGroup => Private(i, By[m])
        \/ i = Len(owner) + 1 /\ Found(name, m) = {} /\ K \notin DOMAIN known
    BY <1>0, UpsertedRow
  <2>2. i \in Given => nodes' = nodes /\ owner' = owner
    BY <1>0 DEF UpsertNode
  <2>3. i = Len(owner) + 1 =>
          /\ owner' = Append(owner, n) /\ DOMAIN nodes' = DOMAIN nodes \cup {i} /\ nodes'[i] = n
          /\ \A j \in DOMAIN nodes : j # i => nodes'[j] = nodes[j]
    BY <1>0 DEF UpsertNode
  <2>4. QED
    BY <2>1, <2>2, <2>3
<1> HIDE DEF K, n
<1>2. OwnerGrows /\ owner' \in Seq(Nodes) /\ Given \subseteq Given' /\ i \in Given'
      /\ \/ i \in Given /\ owner' = owner
         \/ i \notin Given /\ owner'[i] = n
  <2>1. CASE i \in Given /\ owner' = owner
    BY <1>0, <2>1 DEF OwnerGrows, Given, TablesInv, TablesTyped
  <2>2. CASE i = Len(owner) + 1 /\ owner' = Append(owner, n)
    <3>1. owner' \in Seq(Nodes) /\ Len(owner') = Len(owner) + 1 /\ owner'[i] = n
          /\ \A j \in 1..Len(owner) : owner'[j] = owner[j]
      BY <1>0, <2>2, AppendProperties DEF TablesInv, TablesTyped
    <3>2. QED
      BY <1>0, <2>2, <3>1 DEF OwnerGrows, Given
  <2>3. QED
    BY <1>1, <2>1, <2>2
<1>3. \A j \in DOMAIN nodes : j \in Given /\ j \in DOMAIN nodes' /\ nodes'[j] = nodes[j] /\ nodes[j] = owner[j]
  BY <1>0, <1>1 DEF TablesInv, TablesTyped, Given
<1>4. \A j \in DOMAIN nodes' : j \in Given' /\ nodes'[j] = owner'[j]
  BY <1>0, <1>1, <1>2, <1>3 DEF OwnerGrows, Given
<1>5. n.user = By[m] /\ n.group = In[m] /\ n.name = name
  BY DEF n
<1>6. In[m] = NoGroup => Private(i, By[m])'
  BY <1>0, <1>1, <1>2, <1>5 DEF Private, OwnerGrows
<1>7. TablesTyped'
  <2>1. DOMAIN edges' \subseteq Given' \X Given'
    BY <1>0, <1>2 DEF TablesInv, TablesTyped
  <2>2. \A e \in DOMAIN edges' : \E x \in Facts : edges'[e] = [user |-> By[x], group |-> In[x], memory |-> x]
    BY <1>0 DEF TablesInv, TablesTyped
  <2>3. DOMAIN known' \subseteq Names \X FactUsers \X FactChats /\ \A k \in DOMAIN known' : known'[k] \in Given'
    BY <1>0, <1>2 DEF TablesInv, TablesTyped
  <2>4. QED
    BY <1>2, <1>4, <2>1, <2>2, <2>3 DEF TablesTyped, FactUsers, FactChats
<1>8. EdgesOnNodes'
  BY <1>0, <1>3 DEF EdgesOnNodes, TablesInv
<1>9. NodesUnique'
  <2>1. CASE nodes' = nodes
    BY <2>1 DEF NodesUnique, TablesInv
  <2>2. CASE i = Len(owner) + 1 /\ Found(name, m) = {} /\ DOMAIN nodes' = DOMAIN nodes \cup {i} /\ nodes'[i] = n
    <3>1. \A j \in DOMAIN nodes : nodes[j] # n
      <4> SUFFICES ASSUME NEW j \in DOMAIN nodes, nodes[j] = n PROVE j \in Found(name, m)
        BY <2>2
      <4> QED
        BY <1>5 DEF Found
    <3>2. QED
      BY <1>3, <2>2, <3>1 DEF NodesUnique, TablesInv
  <2>3. QED
    BY <1>1, <2>1, <2>2
<1>10. StaleOnlyForeign'
  <2> SUFFICES ASSUME NEW k \in DOMAIN known' PROVE known'[k] \in DOMAIN nodes' \/ owner'[known'[k]].user # k[2]
    BY DEF StaleOnlyForeign
  <2>1. CASE k # K
    <3>1. k \in DOMAIN known /\ known'[k] = known[k] /\ known[k] \in Given
      BY <1>0, <2>1 DEF TablesInv, TablesTyped
    <3>2. known[k] \in DOMAIN nodes \/ owner[known[k]].user # k[2]
      BY <3>1 DEF TablesInv, StaleOnlyForeign
    <3>3. QED
      BY <1>2, <1>3, <3>1, <3>2 DEF OwnerGrows
  <2>2. CASE k = K /\ i \in Given /\ K \in DOMAIN known /\ known[K] = i
    <3>1. known[k] \in DOMAIN nodes \/ owner[known[k]].user # k[2]
      BY <2>2 DEF TablesInv, StaleOnlyForeign
    <3>2. QED
      BY <1>0, <1>2, <1>3, <2>2, <3>1 DEF OwnerGrows
  <2>3. CASE k = K /\ i \in DOMAIN nodes'
    BY <1>0, <2>3
  <2>4. QED
    BY <1>1, <1>3, <2>1, <2>2, <2>3
<1>11. PrivateRows'
  <2>1. ASSUME NEW k \in DOMAIN known', k[3] = NoGroup
        PROVE  owner'[known'[k]].user = k[2] /\ owner'[known'[k]].group = NoGroup
    <3>1. CASE k # K
      <4>1. k \in DOMAIN known /\ known'[k] = known[k] /\ known[k] \in Given
        BY <1>0, <3>1 DEF TablesInv, TablesTyped
      <4>2. Private(known[k], k[2])
        BY <2>1, <4>1 DEF TablesInv, PrivateRows
      <4>3. QED
        BY <1>2, <4>1, <4>2 DEF OwnerGrows, Private
    <3>2. CASE k = K
      BY <1>0, <1>6, <2>1, <3>2 DEF Private
    <3>3. QED
      BY <3>1, <3>2
  <2>2. ASSUME NEW e \in DOMAIN edges', edges'[e].group = NoGroup
        PROVE  \A j \in {e[1], e[2]} : owner'[j].user = edges'[e].user /\ owner'[j].group = NoGroup
    <3>1. e \in DOMAIN edges /\ e[1] \in Given /\ e[2] \in Given
      BY <1>0, <2>2 DEF TablesInv, TablesTyped
    <3>2. Private(e[1], edges[e].user) /\ Private(e[2], edges[e].user)
      BY <1>0, <2>2, <3>1 DEF TablesInv, PrivateRows
    <3>3. QED
      BY <1>0, <1>2, <3>1, <3>2 DEF OwnerGrows, Private
  <2>3. QED
    BY <2>1, <2>2 DEF PrivateRows, Private
<1>12. QED
  BY <1>0, <1>2, <1>6, <1>7, <1>8, <1>9, <1>10, <1>11 DEF TablesInv

\* A deletion, if the cache loses entries of the nodes it deletes but for those
\* under the keys of other users.
LEMMA DeleteKeeps ==
  ASSUME TablesInv, NEW ns, NEW es, Delete(ns, es),
         DOMAIN known' \subseteq DOMAIN known,
         \A k \in DOMAIN known' : /\ known'[k] = known[k]
                                  /\ known[k] \notin ns \/ owner[known[k]].user # k[2]
  PROVE  /\ TablesInv' /\ owner' = owner
         /\ DOMAIN edges' = {e \in DOMAIN edges \ es : e[1] \notin ns /\ e[2] \notin ns}
         /\ \A e \in DOMAIN edges' : edges'[e] = edges[e]
<1>1. /\ owner' = owner
      /\ DOMAIN nodes' = DOMAIN nodes \ ns /\ \A j \in DOMAIN nodes' : nodes'[j] = nodes[j]
      /\ DOMAIN edges' = {e \in DOMAIN edges \ es : e[1] \notin ns /\ e[2] \notin ns}
      /\ \A e \in DOMAIN edges' : edges'[e] = edges[e]
  BY DEF Delete, Keep
<1>2. TablesTyped'
  BY <1>1 DEF TablesInv, TablesTyped, Given, FactUsers, FactChats
<1>3. EdgesOnNodes'
  BY <1>1 DEF TablesInv, EdgesOnNodes
<1>4. NodesUnique'
  BY <1>1 DEF TablesInv, NodesUnique
<1>5. StaleOnlyForeign'
  BY <1>1 DEF TablesInv, StaleOnlyForeign
<1>6. PrivateRows'
  BY <1>1 DEF TablesInv, PrivateRows, Private
<1>7. QED
  BY <1>1, <1>2, <1>3, <1>4, <1>5, <1>6 DEF TablesInv

\* Storing an edge between nodes that are there.
LEMMA EdgeKeeps ==
  ASSUME TablesInv, NEW m \in Facts, NEW i \in Given, NEW j \in Given,
         <<i, j>> \in DOMAIN edges \/ {i, j} \subseteq DOMAIN nodes,
         In[m] = NoGroup => Private(i, By[m]) /\ Private(j, By[m]),
         UpsertEdge(<<i, j>>, m)
  PROVE  /\ TablesInv' /\ owner' = owner
         /\ \A e \in DOMAIN edges' : \/ e \in DOMAIN edges /\ edges'[e] = edges[e]
                                     \/ edges'[e].memory = m
<1> DEFINE e == <<i, j>>
<1> DEFINE r == [user |-> By[m], group |-> In[m], memory |-> m]
<1>1. /\ owner' = owner /\ nodes' = nodes /\ known' = known
      /\ e[1] = i /\ e[2] = j /\ e \in Given \X Given
      /\ DOMAIN edges' = DOMAIN edges \cup {e}
      /\ \A x \in DOMAIN edges : edges'[x] = edges[x]
      /\ e \notin DOMAIN edges => edges'[e] = r
      /\ r.user = By[m] /\ r.group = In[m] /\ r.memory = m
  BY DEF UpsertEdge
<1>2. e \in DOMAIN edges \/ {i, j} \subseteq DOMAIN nodes
  OBVIOUS
<1>3. r \in {[user |-> By[x], group |-> In[x], memory |-> x] : x \in Facts}
  OBVIOUS
<1> HIDE DEF e, r
<1>4. TablesTyped'
  BY <1>1, <1>3 DEF TablesInv, TablesTyped, Given, FactUsers, FactChats
<1>5. EdgesOnNodes'
  BY <1>1, <1>2 DEF TablesInv, EdgesOnNodes
<1>6. NodesUnique' /\ StaleOnlyForeign'
  BY <1>1 DEF TablesInv, NodesUnique, StaleOnlyForeign
<1>7. PrivateRows'
  BY <1>1 DEF TablesInv, PrivateRows, Private
<1>8. QED
  BY <1>1, <1>4, <1>5, <1>6, <1>7 DEF TablesInv

\* An entry that expires.
LEMMA ExpireKeeps == ASSUME TablesInv, NEW k \in DOMAIN known, Expire(k)
                     PROVE  TablesInv' /\ owner' = owner /\ edges' = edges
<1>1. /\ owner' = owner /\ nodes' = nodes /\ edges' = edges
      /\ DOMAIN known' = DOMAIN known \ {k} /\ \A x \in DOMAIN known' : known'[x] = known[x]
  BY DEF Expire, Keep
<1>2. TablesTyped'
  BY <1>1 DEF TablesInv, TablesTyped, Given, FactUsers, FactChats
<1>3. EdgesOnNodes' /\ NodesUnique' /\ StaleOnlyForeign' /\ PrivateRows'
  BY <1>1 DEF TablesInv, EdgesOnNodes, NodesUnique, StaleOnlyForeign, PrivateRows, Private
<1>4. QED
  BY <1>1, <1>2, <1>3 DEF TablesInv

LEMMA GraphSame == ASSUME TablesInv, UNCHANGED graph PROVE TablesInv'
<1>1. TablesTyped'
  BY DEF graph, TablesInv, TablesTyped, Given, FactUsers, FactChats
<1>2. EdgesOnNodes' /\ NodesUnique' /\ StaleOnlyForeign' /\ PrivateRows'
  BY DEF graph, TablesInv, EdgesOnNodes, NodesUnique, StaleOnlyForeign, PrivateRows, Private
<1>3. QED
  BY <1>1, <1>2 DEF TablesInv

-----------------------------------------------------------------------------
(* What waits in the batch and in the workers' hands.                        *)

LEMMA EmptyItems == Items(<<>>) = {} /\ NoTwice(<<>>)
  BY DEF Items, NoTwice

LEMMA OneItem == ASSUME NEW m \in Facts
                 PROVE  <<m>> \in Seq(Facts) /\ <<m>> # <<>> /\ Items(<<m>>) = {m} /\ NoTwice(<<m>>)
  BY DEF Items, NoTwice

LEMMA AppendItems ==
  ASSUME NEW s \in Seq(Facts), NEW m \in Facts, NoTwice(s), m \notin Items(s)
  PROVE  /\ Append(s, m) \in Seq(Facts) /\ Append(s, m) # <<>> /\ Len(Append(s, m)) = Len(s) + 1
         /\ Items(Append(s, m)) = Items(s) \cup {m} /\ NoTwice(Append(s, m))
<1> DEFINE t == Append(s, m)
<1>1. /\ t \in Seq(Facts) /\ Len(t) = Len(s) + 1 /\ Len(s) \in Nat
      /\ \A i \in 1..Len(s) : t[i] = s[i]
      /\ t[Len(s) + 1] = m
  BY AppendProperties, LenProperties
<1> HIDE DEF t
<1>2. t # <<>>
  BY <1>1
<1>3. Items(t) = Items(s) \cup {m}
  <2>1. \A i \in 1..Len(t) : i \in 1..Len(s) \/ i = Len(s) + 1
    BY <1>1
  <2>2. 1..Len(s) \subseteq 1..Len(t) /\ Len(s) + 1 \in 1..Len(t)
    BY <1>1
  <2>3. QED
    BY <1>1, <2>1, <2>2 DEF Items
<1>4. NoTwice(t)
  <2> SUFFICES ASSUME NEW i \in 1..Len(t), NEW j \in 1..Len(t), t[i] = t[j] PROVE i = j
    BY DEF NoTwice
  <2>1. \A k \in 1..Len(s) : s[k] # m
    BY DEF Items
  <2>2. i \in 1..Len(s) \/ i = Len(s) + 1
    BY <1>1
  <2>3. j \in 1..Len(s) \/ j = Len(s) + 1
    BY <1>1
  <2>4. QED
    BY <1>1, <2>1, <2>2, <2>3 DEF NoTwice
<1>5. QED
  BY <1>1, <1>2, <1>3, <1>4 DEF t

LEMMA TailItems ==
  ASSUME NEW s \in Seq(Facts), s # <<>>, NoTwice(s)
  PROVE  /\ Tail(s) \in Seq(Facts) /\ Head(s) \in Items(s)
         /\ Items(Tail(s)) \subseteq Items(s) \ {Head(s)} /\ NoTwice(Tail(s))
<1> DEFINE t == Tail(s)
<1>1. /\ t \in Seq(Facts) /\ Len(s) \in Nat \ {0} /\ Len(t) = Len(s) - 1 /\ Head(s) = s[1]
      /\ \A i \in 1..Len(t) : t[i] = s[i + 1]
  BY HeadTailProperties, EmptySeq, LenProperties
<1> HIDE DEF t
<1>2. Head(s) \in Items(s)
  BY <1>1 DEF Items
<1>3. \A i \in 1..Len(t) : i + 1 \in 1..Len(s) /\ i + 1 # 1
  BY <1>1
<1>4. Items(t) \subseteq Items(s) \ {Head(s)}
  BY <1>1, <1>3 DEF Items, NoTwice
<1>5. NoTwice(t)
  <2> SUFFICES ASSUME NEW i \in 1..Len(t), NEW j \in 1..Len(t), t[i] = t[j] PROVE i = j
    BY DEF NoTwice
  <2>1. i + 1 = j + 1
    BY <1>1, <1>3 DEF NoTwice
  <2>2. QED
    BY <1>1, <2>1
<1>6. QED
  BY <1>1, <1>2, <1>4, <1>5 DEF t

LEMMA ThinnedItems ==
  ASSUME NEW s \in Seq(Facts), NoTwice(s), NEW t \in Thinned(s)
  PROVE  t \in Seq(Facts) /\ Items(t) \subseteq Items(s) /\ NoTwice(t)
<1>0. PICK n \in 0..Len(s) :
        \E f \in [1..n -> 1..Len(s)] : (\A a, b \in 1..n : a < b => f[a] < f[b]) /\ t = [k \in 1..n |-> s[f[k]]]
  BY DEF Thinned
<1>1. PICK f \in [1..n -> 1..Len(s)] :
        (\A a, b \in 1..n : a < b => f[a] < f[b]) /\ t = [k \in 1..n |-> s[f[k]]]
  BY <1>0
<1>2. n \in Nat /\ Len(s) \in Nat /\ \A i \in 1..Len(s) : s[i] \in Facts
  BY LenProperties, ElementOfSeq
<1>3. t \in [1..n -> Facts] /\ \A k \in 1..n : t[k] = s[f[k]] /\ f[k] \in 1..Len(s)
  BY <1>1, <1>2
<1>4. t \in Seq(Facts) /\ Len(t) = n
  BY <1>2, <1>3, SeqDef, LenProperties
<1>5. Items(t) \subseteq Items(s)
  BY <1>3, <1>4 DEF Items
<1>6. NoTwice(t)
  <2> SUFFICES ASSUME NEW i \in 1..n, NEW j \in 1..n, t[i] = t[j] PROVE i = j
    BY <1>4 DEF NoTwice
  <2>1. f[i] = f[j] /\ f[i] \in Nat /\ f[j] \in Nat
    BY <1>2, <1>3 DEF NoTwice
  <2>2. ~(i < j) /\ ~(j < i)
    BY <1>1, <2>1
  <2>3. QED
    BY <1>2, <2>2
<1>7. QED
  BY <1>4, <1>5, <1>6

\* One worker takes memories that are new, the batch's or its own, and puts some
\* of them into the batch and some into its hands; others are let go only by it.
LEMMA HandsStep ==
  ASSUME HandsInv, HandsTyped, HandsTyped', NEW w \in Workers,
         \A v \in Workers \ {w} : storing'[v] = storing[v],
         NoTwice(pending'), NoTwice(storing'[w].left),
         Items(pending') \cap Items(storing'[w].left) = {},
         \A m \in Items(pending') \cup Items(storing'[w].left) :
            /\ m \in Items(pending) \cup Items(storing[w].left) \/ fact[m] \notin InHand
            /\ fact'[m] \in InHand,
         \A m \in Facts : fact[m] \in InHand => fact'[m] \in InHand \/ m \in Items(storing[w].left)
  PROVE  HandsInv'
<1>1. \A v \in Workers : \A m \in Items(storing[v].left) : m \in Facts
  <2> SUFFICES ASSUME NEW v \in Workers PROVE \A m \in Items(storing[v].left) : m \in Facts
    OBVIOUS
  <2>1. storing[v].left \in Seq(Facts)
    BY DEF HandsTyped
  <2>2. QED
    BY <2>1, ElementOfSeq DEF Items
<1>2. ASSUME NEW v \in Workers \ {w}
      PROVE  /\ NoTwice(storing'[v].left)
             /\ \A m \in Items(storing'[v].left) :
                  fact'[m] \in InHand /\ m \notin Items(pending') /\ m \notin Items(storing'[w].left)
  BY <1>1, <1>2 DEF HandsInv
<1>3. ASSUME NEW v \in Workers \ {w}, NEW u \in Workers \ {w}, u # v
      PROVE  Items(storing'[v].left) \cap Items(storing'[u].left) = {}
  BY <1>3 DEF HandsInv
<1>4. ASSUME NEW v \in Workers, NEW u \in Workers, v # u
      PROVE  Items(storing'[v].left) \cap Items(storing'[u].left) = {}
  BY <1>2, <1>3, <1>4
<1>5. ASSUME NEW v \in Workers
      PROVE  /\ NoTwice(storing'[v].left)
             /\ \A m \in Items(storing'[v].left) : fact'[m] \in InHand /\ m \notin Items(pending')
  BY <1>2
<1>6. QED
  BY <1>4, <1>5 DEF HandsInv, Items, NoTwice, InHand

LEMMA WorkKept == ASSUME NEW w \in Workers, Works(w), OwnerGrows, storing'[w] = storing[w]
                  PROVE  Works(w)'
  BY DEF Works, Remembers, OwnerGrows, Private, Given

LEMMA ForgottenKept ==
  ASSUME TablesInv, ForgottenOnlyInFlight,
         \A e \in DOMAIN edges' : e \in DOMAIN edges /\ edges'[e] = edges[e],
         \A m \in Facts : fact'[m] = "forgotten" => fact[m] = "forgotten"
  PROVE  ForgottenOnlyInFlight'
  BY DEF TablesInv, TablesTyped, ForgottenOnlyInFlight

-----------------------------------------------------------------------------
(* The operations.                                                           *)

LEMMA Still == ASSUME TablesInv, owner' = owner PROVE OwnerGrows
<1>1. Len(owner) \in Nat
  BY LenProperties DEF TablesInv, TablesTyped
<1>2. QED
  BY <1>1 DEF OwnerGrows

\* A worker begins with items that no worker has.
LEMMA GraphBeginKeeps ==
  ASSUME GraphInv, NEW w \in Workers, storing[w] = Free, UNCHANGED graph, UNCHANGED upkeep,
         pending' \in Seq(Facts), Len(pending') < PendingSize, NoTwice(pending'),
         NEW place \in {"ask", "subject"}, NEW items \in Seq(Facts), items # <<>>, NoTwice(items),
         storing' = [storing EXCEPT ![w] = [Free EXCEPT !.at = place, !.left = items]],
         Items(pending') \cap Items(items) = {},
         \A m \in Items(pending') \cup Items(items) :
            (m \in Items(pending) \/ fact[m] \notin InHand) /\ fact'[m] \in InHand,
         fact' \in [Facts -> {"new", "storing", "caught", "nothing", "known", "forgotten"}],
         \A m \in Facts : /\ fact[m] \in InHand => fact'[m] \in InHand
                          /\ fact'[m] = "forgotten" => fact[m] = "forgotten"
  PROVE  GraphInv'
<1>1. TablesInv' /\ OwnerGrows
  BY GraphSame, Still DEF graph, GraphInv
<1>2. /\ storing'[w].at = place /\ storing'[w].left = items /\ storing'[w].from = 0 /\ storing'[w].to = 0
      /\ \A v \in Workers \ {w} : storing'[v] = storing[v]
  BY DEF GraphInv, HandsTyped, Free
<1>3. HandsTyped'
  <2>1. [Free EXCEPT !.at = place, !.left = items]
          \in [at : {"idle", "ask", "subject", "object", "edge"}, left : Seq(Facts), from : Nat, to : Nat]
    BY DEF Free
  <2>2. QED
    BY <2>1 DEF GraphInv, HandsTyped
<1>4. WorkInv'
  <2>1. Works(w)'
    BY <1>2 DEF Works
  <2>2. \A v \in Workers \ {w} : Works(v)'
    BY <1>1, <1>2, WorkKept DEF GraphInv, WorkInv
  <2>3. QED
    BY <2>1, <2>2 DEF WorkInv
<1>5. HandsInv'
  <2>1. storing[w].left = <<>> /\ Items(storing[w].left) = {}
    BY EmptyItems DEF Free
  <2>2. QED
    BY <1>2, <1>3, <2>1, HandsStep DEF GraphInv
<1>6. ForgottenOnlyInFlight'
  BY ForgottenKept DEF GraphInv, graph
<1>7. QED
  BY <1>1, <1>3, <1>4, <1>5, <1>6 DEF GraphInv

LEMMA ProcessByRulesKeeps == ASSUME GraphInv, NEW m \in Facts, NEW w \in Workers, ProcessByRules(m, w)
                             PROVE  GraphInv'
<1>1. /\ fact[m] = "new" /\ storing[w] = Free /\ UNCHANGED graph /\ pending' = pending /\ UNCHANGED upkeep
      /\ storing' = [storing EXCEPT ![w] = [Free EXCEPT !.at = "subject", !.left = <<m>>]]
      /\ fact' = [fact EXCEPT ![m] = "storing"]
  BY DEF ProcessByRules
<1>2. /\ <<m>> \in Seq(Facts) /\ <<m>> # <<>> /\ Items(<<m>>) = {m} /\ NoTwice(<<m>>)
  BY OneItem
<1>3. /\ fact' \in [Facts -> {"new", "storing", "caught", "nothing", "known", "forgotten"}]
      /\ \A x \in Facts : fact'[x] = IF x = m THEN "storing" ELSE fact[x]
  BY <1>1 DEF GraphInv, HandsTyped
<1>4. \A x \in Items(pending) : x # m /\ x \in Facts /\ fact[x] \in InHand
  BY <1>1, ElementOfSeq DEF GraphInv, HandsTyped, HandsInv, InHand, Items
<1>5. QED
  BY <1>1, <1>2, <1>3, <1>4, GraphBeginKeeps DEF GraphInv, HandsTyped, HandsInv, InHand

LEMMA ProcessByModelKeeps == ASSUME GraphInv, NEW m \in Facts, NEW w \in Workers, ProcessByModel(m, w)
                             PROVE  GraphInv'
<1> DEFINE items == Append(pending, m)
<1>1. /\ fact[m] = "new" /\ storing[w] = Free /\ UNCHANGED graph /\ UNCHANGED upkeep
      /\ fact' = [fact EXCEPT ![m] = "storing"]
  BY DEF ProcessByModel
<1>2. \A x \in Items(pending) : x # m /\ x \in Facts /\ fact[x] \in InHand
  BY <1>1, ElementOfSeq DEF GraphInv, HandsTyped, HandsInv, InHand, Items
<1>3. /\ items \in Seq(Facts) /\ items # <<>> /\ Len(items) = Len(pending) + 1
      /\ Items(items) = Items(pending) \cup {m} /\ NoTwice(items) /\ Len(pending) \in Nat
  BY <1>2, AppendItems, LenProperties DEF GraphInv, HandsTyped, HandsInv
<1>4. /\ fact' \in [Facts -> {"new", "storing", "caught", "nothing", "known", "forgotten"}]
      /\ \A x \in Facts : fact'[x] = IF x = m THEN "storing" ELSE fact[x]
  BY <1>1 DEF GraphInv, HandsTyped
<1>5. \A x \in Items(items) : (x \in Items(pending) \/ fact[x] \notin InHand) /\ fact'[x] \in InHand
  BY <1>1, <1>2, <1>3, <1>4 DEF InHand
<1>6. \A x \in Facts : (fact[x] \in InHand => fact'[x] \in InHand) /\ (fact'[x] = "forgotten" => fact[x] = "forgotten")
  BY <1>4 DEF InHand
<1>7. CASE Len(items) >= PendingSize
  <2>1. /\ pending' = <<>>
        /\ storing' = [storing EXCEPT ![w] = [Free EXCEPT !.at = "ask", !.left = items]]
    BY <1>7 DEF ProcessByModel
  <2>2. pending' \in Seq(Facts) /\ Len(pending') < PendingSize /\ NoTwice(pending') /\ Items(pending') = {}
    BY <2>1, EmptySeq, EmptyItems, GraphAssumption
  <2> HIDE DEF items
  <2>3. QED
    BY <1>1, <1>3, <1>4, <1>5, <1>6, <2>1, <2>2, GraphBeginKeeps
<1>8. CASE ~(Len(items) >= PendingSize)
  <2>1. pending' = items /\ storing' = storing /\ Len(pending') < PendingSize
    BY <1>3, <1>8, GraphAssumption DEF ProcessByModel
  <2>2. TablesInv' /\ OwnerGrows
    BY <1>1, GraphSame, Still DEF graph, GraphInv
  <2>3. HandsTyped'
    BY <1>1, <1>3, <1>4, <2>1 DEF GraphInv, HandsTyped
  <2>4. WorkInv'
    BY <2>1, <2>2, WorkKept DEF GraphInv, WorkInv
  <2>5. HandsInv'
    <3>1. Items(storing[w].left) = {} /\ NoTwice(storing[w].left)
      BY <1>1, EmptyItems DEF Free
    <3> HIDE DEF items
    <3>2. QED
      BY <1>3, <1>5, <1>6, <2>1, <2>3, <3>1, HandsStep DEF GraphInv
  <2>6. ForgottenOnlyInFlight'
    BY <1>1, <1>6, ForgottenKept DEF GraphInv, graph
  <2>7. QED
    BY <2>2, <2>3, <2>4, <2>5, <2>6 DEF GraphInv
<1>9. QED
  BY <1>7, <1>8

LEMMA FlushKeeps == ASSUME GraphInv, NEW w \in Workers, Flush(w) PROVE GraphInv'
<1>1. /\ pending # <<>> /\ storing[w] = Free /\ pending' = <<>> /\ UNCHANGED graph /\ UNCHANGED upkeep /\ fact' = fact
      /\ storing' = [storing EXCEPT ![w] = [Free EXCEPT !.at = "ask", !.left = pending]]
  BY DEF Flush
<1>2. pending' \in Seq(Facts) /\ Len(pending') < PendingSize /\ NoTwice(pending') /\ Items(pending') = {}
  BY <1>1, EmptySeq, EmptyItems, GraphAssumption
<1>3. QED
  BY <1>1, <1>2, GraphBeginKeeps DEF GraphInv, HandsTyped, HandsInv

\* A worker lets go of memories and goes on with the rest.
LEMMA GoOnKeeps ==
  ASSUME GraphInv, TablesInv', OwnerGrows, ForgottenOnlyInFlight', NEW w \in Workers,
         UNCHANGED <<pending, upkeep>>, NEW r, storing' = [storing EXCEPT ![w] = r],
         r \in [at : {"idle", "ask", "subject", "object", "edge"}, left : Seq(Facts), from : Nat, to : Nat],
         NoTwice(r.left), Items(r.left) \subseteq Items(storing[w].left), Works(w)',
         fact' \in [Facts -> {"new", "storing", "caught", "nothing", "known", "forgotten"}],
         \A m \in Facts : fact[m] \in InHand => fact'[m] \in InHand \/ m \in Items(storing[w].left),
         \A m \in Items(pending) \cup Items(r.left) : fact'[m] \in InHand
  PROVE  GraphInv'
<1>1. storing'[w] = r /\ \A v \in Workers \ {w} : storing'[v] = storing[v]
  BY DEF GraphInv, HandsTyped
<1>2. HandsTyped'
  BY DEF GraphInv, HandsTyped
<1>3. WorkInv'
  <2>1. \A v \in Workers \ {w} : Works(v)'
    BY <1>1, WorkKept DEF GraphInv, WorkInv
  <2>2. QED
    BY <2>1 DEF WorkInv
<1>4. HandsInv'
  <2>1. pending' = pending /\ NoTwice(pending) /\ Items(pending) \cap Items(storing[w].left) = {}
    BY DEF GraphInv, HandsInv
  <2>2. /\ NoTwice(pending') /\ NoTwice(storing'[w].left)
        /\ Items(pending') \cap Items(storing'[w].left) = {}
    BY <1>1, <2>1
  <2>3. \A m \in Items(pending') \cup Items(storing'[w].left) :
          /\ m \in Items(pending) \cup Items(storing[w].left) \/ fact[m] \notin InHand
          /\ fact'[m] \in InHand
    BY <1>1, <2>1
  <2>4. QED
    BY <1>1, <1>2, <2>2, <2>3, HandsStep DEF GraphInv
<1>5. QED
  BY <1>2, <1>3, <1>4 DEF GraphInv

\* What Settled makes of the marks.
LEMMA SettledMarks ==
  ASSUME GraphInv, NEW ms \in SUBSET Facts, NEW f \in {"nothing", "known"}
  PROVE  /\ Settled(ms, f) \in [Facts -> {"new", "storing", "caught", "nothing", "known", "forgotten"}]
         /\ \A m \in Facts : /\ m \notin ms => Settled(ms, f)[m] = fact[m]
                             /\ Settled(ms, f)[m] = "forgotten" => fact[m] = "forgotten"
  BY DEF Settled, GraphInv, HandsTyped

LEMMA ItemsAreFacts == ASSUME GraphInv, NEW w \in Workers
                       PROVE  /\ Items(pending) \subseteq Facts /\ Items(storing[w].left) \subseteq Facts
                              /\ storing[w].left \in Seq(Facts)
<1>1. pending \in Seq(Facts) /\ storing[w].left \in Seq(Facts)
  BY DEF GraphInv, HandsTyped
<1>2. QED
  BY <1>1, ElementOfSeq DEF Items

LEMMA ItemsPending == ASSUME GraphInv PROVE Items(pending) \subseteq Facts
<1>1. pending \in Seq(Facts)
  BY DEF GraphInv, HandsTyped
<1>2. QED
  BY <1>1, ElementOfSeq DEF Items

LEMMA GraphAnswerKeeps == ASSUME GraphInv, NEW w \in Workers, NEW left \in Thinned(storing[w].left), Answer(w, left)
                     PROVE  GraphInv'
<1> DEFINE r == IF left = <<>> THEN Free ELSE [Free EXCEPT !.at = "subject", !.left = left]
<1> DEFINE gone == Items(storing[w].left) \ Items(left)
<1>1. UNCHANGED graph /\ UNCHANGED <<pending, upkeep>> /\ storing' = [storing EXCEPT ![w] = r]
      /\ fact' = Settled(gone, "nothing")
  BY DEF Answer
<1>2. left \in Seq(Facts) /\ Items(left) \subseteq Items(storing[w].left) /\ NoTwice(left)
  BY ItemsAreFacts, ThinnedItems DEF GraphInv, HandsInv
<1>3. r \in [at : {"idle", "ask", "subject", "object", "edge"}, left : Seq(Facts), from : Nat, to : Nat]
      /\ r.left = left /\ r.at \in {"idle", "subject"} /\ (r.at # "idle" => left # <<>>)
  BY <1>2, EmptySeq DEF Free
<1>4. /\ fact' \in [Facts -> {"new", "storing", "caught", "nothing", "known", "forgotten"}]
      /\ \A m \in Facts : /\ m \notin gone => fact'[m] = fact[m]
                          /\ fact'[m] = "forgotten" => fact[m] = "forgotten"
  <2> HIDE DEF gone
  <2>1. gone \in SUBSET Facts
    BY ItemsAreFacts DEF gone
  <2>2. QED
    BY <1>1, <2>1, SettledMarks
<1> HIDE DEF r
<1>5. TablesInv' /\ OwnerGrows
  BY <1>1, GraphSame, Still DEF graph, GraphInv
<1>6. storing'[w] = r
  BY <1>1 DEF GraphInv, HandsTyped
<1>7. Works(w)'
  BY <1>3, <1>6 DEF Works
<1>8. ForgottenOnlyInFlight'
  BY <1>1, <1>4, ForgottenKept DEF GraphInv, graph
<1>9. \A m \in Facts : fact[m] \in InHand => fact'[m] \in InHand \/ m \in Items(storing[w].left)
  BY <1>4
<1>10. \A m \in Items(pending) \cup Items(r.left) : fact'[m] \in InHand
  BY <1>2, <1>3, <1>4, ItemsAreFacts DEF GraphInv, HandsInv
<1>11. QED
  BY <1>1, <1>2, <1>3, <1>4, <1>5, <1>7, <1>8, <1>9, <1>10, GoOnKeeps

LEMMA SubjectKeeps == ASSUME GraphInv, NEW w \in Workers, Subject(w) PROVE GraphInv'
<1>1. PICK i \in 1..MaxNodes :
        /\ UpsertNode("subject", Head(storing[w].left), i)
        /\ storing' = [storing EXCEPT ![w].at = "object", ![w].from = i]
  BY DEF Subject
<1>2. /\ storing[w].at = "subject" /\ UNCHANGED <<pending, upkeep>> /\ fact' = fact
      /\ storing[w] \in [at : {"idle", "ask", "subject", "object", "edge"}, left : Seq(Facts), from : Nat, to : Nat]
      /\ storing[w].left # <<>> /\ NoTwice(storing[w].left)
  BY DEF Subject, GraphInv, HandsTyped, WorkInv, Works, HandsInv
<1>3. PICK m \in Facts : m = Head(storing[w].left)
  BY <1>2, TailItems, ItemsAreFacts
<1>4. PICK r \in [at : {"idle", "ask", "subject", "object", "edge"}, left : Seq(Facts), from : Nat, to : Nat] :
        r = [storing[w] EXCEPT !.at = "object", !.from = i]
  <2>1. i \in Nat
    BY GraphAssumption
  <2>2. QED
    BY <1>2, <2>1
<1>5. r.left = storing[w].left /\ r.at = "object" /\ r.from = i
  BY <1>2, <1>4
<1>6. storing' = [storing EXCEPT ![w] = r] /\ storing'[w] = r
  BY <1>1, <1>4 DEF GraphInv, HandsTyped
<1>7. /\ TablesInv' /\ OwnerGrows /\ edges' = edges
      /\ i \in Given' /\ (In[m] = NoGroup => Private(i, By[m])')
  BY <1>1, <1>3, UpsertKeeps DEF GraphInv, Names
<1>8. Works(w)'
  BY <1>2, <1>3, <1>5, <1>6, <1>7 DEF Works, Remembers, Private, Given, OwnerGrows
<1>9. ForgottenOnlyInFlight'
  BY <1>2, <1>7, ForgottenKept DEF GraphInv
<1>10. QED
  BY <1>2, <1>5, <1>6, <1>7, <1>8, <1>9, GoOnKeeps DEF GraphInv, HandsTyped, HandsInv

LEMMA ObjectKeeps == ASSUME GraphInv, NEW w \in Workers, Object(w) PROVE GraphInv'
<1>1. PICK i \in 1..MaxNodes :
        /\ UpsertNode("object", Head(storing[w].left), i)
        /\ storing' = [storing EXCEPT ![w].at = "edge", ![w].to = i]
  BY DEF Object
<1>2. /\ storing[w].at = "object" /\ UNCHANGED <<pending, upkeep>> /\ fact' = fact
      /\ storing[w] \in [at : {"idle", "ask", "subject", "object", "edge"}, left : Seq(Facts), from : Nat, to : Nat]
      /\ storing[w].left # <<>> /\ NoTwice(storing[w].left) /\ Remembers(storing[w].from, Head(storing[w].left))
  BY DEF Object, GraphInv, HandsTyped, WorkInv, Works, HandsInv
<1>3. PICK m \in Facts : m = Head(storing[w].left)
  BY <1>2, TailItems, ItemsAreFacts
<1>4. PICK r \in [at : {"idle", "ask", "subject", "object", "edge"}, left : Seq(Facts), from : Nat, to : Nat] :
        r = [storing[w] EXCEPT !.at = "edge", !.to = i]
  <2>1. i \in Nat
    BY GraphAssumption
  <2>2. QED
    BY <1>2, <2>1
<1>5. r.left = storing[w].left /\ r.at = "edge" /\ r.to = i /\ r.from = storing[w].from
  BY <1>2, <1>4
<1>6. storing' = [storing EXCEPT ![w] = r] /\ storing'[w] = r
  BY <1>1, <1>4 DEF GraphInv, HandsTyped
<1>7. /\ TablesInv' /\ OwnerGrows /\ edges' = edges
      /\ i \in Given' /\ (In[m] = NoGroup => Private(i, By[m])')
  BY <1>1, <1>3, UpsertKeeps DEF GraphInv, Names
<1>8. Works(w)'
  BY <1>2, <1>3, <1>5, <1>6, <1>7 DEF Works, Remembers, Private, Given, OwnerGrows
<1>9. ForgottenOnlyInFlight'
  BY <1>2, <1>7, ForgottenKept DEF GraphInv
<1>10. QED
  BY <1>2, <1>5, <1>6, <1>7, <1>8, <1>9, GoOnKeeps DEF GraphInv, HandsTyped, HandsInv

LEMMA EdgeStepKeeps == ASSUME GraphInv, NEW w \in Workers, Edge(w) PROVE GraphInv'
<1>1. /\ storing[w].at = "edge" /\ UNCHANGED <<pending, upkeep>> /\ storing[w].left # <<>>
      /\ storing[w].left \in Seq(Facts) /\ NoTwice(storing[w].left)
      /\ Remembers(storing[w].from, Head(storing[w].left)) /\ Remembers(storing[w].to, Head(storing[w].left))
  BY DEF Edge, GraphInv, HandsTyped, WorkInv, Works, HandsInv
<1>2. PICK m \in Facts, i \in Given, j \in Given : m = Head(storing[w].left) /\ i = storing[w].from /\ j = storing[w].to
  BY <1>1, TailItems, ItemsAreFacts DEF Remembers
<1>3. PICK rest \in Seq(Facts) : rest = Tail(storing[w].left)
  BY <1>1, TailItems
<1>4. /\ m \in Items(storing[w].left) /\ Items(rest) \subseteq Items(storing[w].left) \ {m} /\ NoTwice(rest)
      /\ fact[m] \in InHand /\ Items(storing[w].left) \subseteq Facts
  <2>1. /\ Head(storing[w].left) \in Items(storing[w].left) /\ NoTwice(Tail(storing[w].left))
        /\ Items(Tail(storing[w].left)) \subseteq Items(storing[w].left) \ {Head(storing[w].left)}
    BY <1>1, TailItems
  <2>2. \A x \in Items(storing[w].left) : x \in Facts /\ fact[x] \in InHand
    BY ItemsAreFacts DEF GraphInv, HandsInv
  <2>3. QED
    BY <1>2, <1>3, <2>1, <2>2
<1>5. <<storing[w].from, storing[w].to>> = <<i, j>> /\ <<i, j>>[1] = i /\ <<i, j>>[2] = j
  BY <1>2
<1> DEFINE ok == <<i, j>> \in DOMAIN edges \/ {i, j} \subseteq DOMAIN nodes
<1>6. CASE ok
  <2>1. PICK r : r = IF rest # <<>> THEN [Free EXCEPT !.at = "subject", !.left = rest] ELSE Free
    OBVIOUS
  <2>2. /\ UpsertEdge(<<i, j>>, m)
        /\ storing' = [storing EXCEPT ![w] = r]
        /\ fact' = Settled({m}, "known")
    BY <1>2, <1>3, <1>5, <1>6, <2>1 DEF Edge
  <2>3. /\ r \in [at : {"idle", "ask", "subject", "object", "edge"}, left : Seq(Facts), from : Nat, to : Nat]
        /\ r.left = rest /\ r.at \in {"idle", "subject"} /\ (r.at # "idle" => rest # <<>>)
    BY <2>1, EmptySeq DEF Free
  <2>4. storing'[w] = r
    BY <2>2 DEF GraphInv, HandsTyped
  <2>5. /\ TablesInv' /\ owner' = owner
        /\ \A e \in DOMAIN edges' : (e \in DOMAIN edges /\ edges'[e] = edges[e]) \/ edges'[e].memory = m
    BY <1>1, <1>2, <1>6, <2>2, EdgeKeeps DEF GraphInv, Remembers
  <2>6. /\ fact' \in [Facts -> {"new", "storing", "caught", "nothing", "known", "forgotten"}]
        /\ \A x \in Facts : /\ x # m => fact'[x] = fact[x]
                            /\ fact'[x] = "forgotten" => fact[x] = "forgotten"
    BY <2>2, SettledMarks
  <2>7. Works(w)'
    BY <2>3, <2>4 DEF Works
  <2>8. ForgottenOnlyInFlight'
    <3>1. fact'[m] # "forgotten"
      BY <1>4, <2>6 DEF InHand
    <3>2. QED
      BY <2>5, <2>6, <3>1 DEF GraphInv, ForgottenOnlyInFlight, TablesInv, TablesTyped
  <2>9. \A x \in Items(pending) \cup Items(r.left) : fact'[x] \in InHand
    BY <1>4, <2>3, <2>6, ItemsAreFacts DEF GraphInv, HandsInv
  <2>10. OwnerGrows
    BY <2>5, Still DEF GraphInv
  <2>11. QED
    BY <1>1, <1>4, <2>2, <2>3, <2>5, <2>6, <2>7, <2>8, <2>9, <2>10, GoOnKeeps
<1>7. CASE ~ok
  <2>1. /\ UNCHANGED graph
        /\ storing' = [storing EXCEPT ![w] = Free]
        /\ fact' = Settled(Items(storing[w].left), "nothing")
    BY <1>2, <1>3, <1>5, <1>7 DEF Edge
  <2>2. /\ Free \in [at : {"idle", "ask", "subject", "object", "edge"}, left : Seq(Facts), from : Nat, to : Nat]
        /\ Free.left = <<>> /\ Free.at = "idle" /\ Items(Free.left) = {} /\ NoTwice(Free.left)
    BY EmptySeq, EmptyItems DEF Free
  <2>3. storing'[w] = Free
    BY <2>1 DEF GraphInv, HandsTyped
  <2>4. TablesInv' /\ OwnerGrows
    BY <2>1, GraphSame, Still DEF graph, GraphInv
  <2>5. /\ fact' \in [Facts -> {"new", "storing", "caught", "nothing", "known", "forgotten"}]
        /\ \A x \in Facts : /\ x \notin Items(storing[w].left) => fact'[x] = fact[x]
                            /\ fact'[x] = "forgotten" => fact[x] = "forgotten"
    BY <1>4, <2>1, SettledMarks
  <2>6. Works(w)'
    BY <2>2, <2>3 DEF Works
  <2>7. ForgottenOnlyInFlight'
    BY <2>1, <2>5, ForgottenKept DEF GraphInv, graph
  <2>8. \A x \in Items(pending) \cup Items(Free.left) : fact'[x] \in InHand
    BY <2>2, <2>5, ItemsAreFacts DEF GraphInv, HandsInv
  <2>9. \A x \in Facts : fact[x] \in InHand => fact'[x] \in InHand \/ x \in Items(storing[w].left)
    BY <2>5
  <2>10. QED
    BY <1>1, <2>1, <2>2, <2>4, <2>5, <2>6, <2>7, <2>8, <2>9, GoOnKeeps
<1>8. QED
  BY <1>6, <1>7

\* Marks change, but for no memory that somebody has.
LEMMA HandsSame ==
  ASSUME GraphInv, UNCHANGED <<pending, storing>>,
         \A m \in Facts : fact[m] \in InHand => fact'[m] \in InHand
  PROVE  HandsInv'
<1>1. NoTwice(pending') /\ \A m \in Items(pending') : fact'[m] \in InHand
  <2>1. NoTwice(pending) /\ \A m \in Items(pending) : m \in Facts /\ fact[m] \in InHand
    BY ItemsPending DEF GraphInv, HandsInv
  <2>2. pending' = pending
    OBVIOUS
  <2>3. QED
    BY <2>1, <2>2
<1>2. ASSUME NEW w \in Workers
      PROVE  /\ NoTwice(storing'[w].left)
             /\ \A m \in Items(storing'[w].left) : fact'[m] \in InHand /\ m \notin Items(pending')
  <2>1. /\ NoTwice(storing[w].left)
        /\ \A m \in Items(storing[w].left) : m \in Facts /\ fact[m] \in InHand /\ m \notin Items(pending)
    BY ItemsAreFacts DEF GraphInv, HandsInv
  <2>2. pending' = pending /\ storing' = storing
    OBVIOUS
  <2>3. QED
    BY <2>1, <2>2
<1>3. ASSUME NEW v \in Workers, NEW u \in Workers, v # u
      PROVE  Items(storing'[v].left) \cap Items(storing'[u].left) = {}
  <2>1. Items(storing[v].left) \cap Items(storing[u].left) = {}
    BY <1>3 DEF GraphInv, HandsInv
  <2>2. QED
    BY <2>1
<1>4. QED
  BY <1>1, <1>2, <1>3 DEF HandsInv, Items, NoTwice, InHand

\* A deletion that a user asks for, and what it does to the marks.
LEMMA ForgetKeeps ==
  ASSUME GraphInv, NEW ms \in SUBSET Facts, ForgetFacts(ms), TablesInv', owner' = owner,
         \A e \in DOMAIN edges' : /\ e \in DOMAIN edges /\ edges'[e] = edges[e]
                                  /\ edges[e].memory \notin ms
  PROVE  GraphInv'
<1>1. /\ UNCHANGED <<pending, storing, upkeep>>
      /\ fact' = [m \in Facts |-> IF m \notin ms \/ fact[m] = "new" THEN fact[m]
                                  ELSE IF fact[m] \in {"storing", "caught"} THEN "caught" ELSE "forgotten"]
  BY DEF ForgetFacts
<1>2. /\ fact' \in [Facts -> {"new", "storing", "caught", "nothing", "known", "forgotten"}]
      /\ \A m \in Facts : /\ fact[m] \in InHand <=> fact'[m] \in InHand
                          /\ m \notin ms => fact'[m] = fact[m]
  BY <1>1 DEF GraphInv, HandsTyped, InHand
<1>3. HandsTyped'
  BY <1>1, <1>2 DEF GraphInv, HandsTyped
<1>4. WorkInv'
  BY <1>1, Still, WorkKept DEF GraphInv, WorkInv
<1>5. HandsInv'
  BY <1>1, <1>2, HandsSame
<1>6. ForgottenOnlyInFlight'
  BY <1>2 DEF GraphInv, ForgottenOnlyInFlight, TablesInv, TablesTyped
<1>7. QED
  BY <1>3, <1>4, <1>5, <1>6 DEF GraphInv

\* A deletion, or an expiry, that concerns no user's wish.
LEMMA RowsKeep ==
  ASSUME GraphInv, TablesInv', owner' = owner, UNCHANGED <<pending, storing, fact>>,
         upkeep'.at \in {"idle", "edges", "nodes"},
         \A e \in DOMAIN edges' : e \in DOMAIN edges /\ edges'[e] = edges[e]
  PROVE  GraphInv'
<1>1. HandsTyped'
  BY DEF GraphInv, HandsTyped
<1>2. WorkInv'
  BY Still, WorkKept DEF GraphInv, WorkInv
<1>3. HandsInv'
  BY HandsSame
<1>4. ForgottenOnlyInFlight'
  BY ForgottenKept DEF GraphInv
<1>5. QED
  BY <1>1, <1>2, <1>3, <1>4 DEF GraphInv

LEMMA EdgeRows == ASSUME GraphInv, NEW e \in DOMAIN edges
                  PROVE  /\ edges[e].memory \in Facts
                         /\ edges[e].user = By[edges[e].memory] /\ edges[e].group = In[edges[e].memory]
<1>1. PICK m \in Facts : edges[e] = [user |-> By[m], group |-> In[m], memory |-> m]
  BY DEF GraphInv, TablesInv, TablesTyped
<1>2. QED
  BY <1>1

LEMMA DeleteUserKeeps == ASSUME GraphInv, NEW u, NEW g, DeleteUser(u, g) PROVE GraphInv'
<1> DEFINE ns == {i \in DOMAIN nodes : nodes[i].user = u /\ g \in {NoGroup, nodes[i].group}}
<1> DEFINE es == {e \in DOMAIN edges : edges[e].user = u /\ g \in {NoGroup, edges[e].group}}
<1> DEFINE ms == {m \in Facts : By[m] = u /\ g \in {NoGroup, In[m]}}
<1>1. Delete(ns, es) /\ ForgetFacts(ms)
      /\ DOMAIN known' = {k \in DOMAIN known : k[2] # u} /\ \A k \in DOMAIN known' : known'[k] = known[k]
  BY DEF DeleteUser, Keep
<1>2. \A i \in ns : owner[i].user = u
  BY DEF GraphInv, TablesInv, TablesTyped
<1>3. \A e \in DOMAIN edges : edges[e].memory \in ms => e \in es
  BY EdgeRows
<1>4. ms \in SUBSET Facts
  OBVIOUS
<1> HIDE DEF ns, es, ms
<1>5. \A k \in DOMAIN known' : /\ known'[k] = known[k]
                               /\ known[k] \notin ns \/ owner[known[k]].user # k[2]
  BY <1>1, <1>2
<1>6. /\ TablesInv' /\ owner' = owner
      /\ DOMAIN edges' = {e \in DOMAIN edges \ es : e[1] \notin ns /\ e[2] \notin ns}
      /\ \A e \in DOMAIN edges' : edges'[e] = edges[e]
  BY <1>1, <1>5, DeleteKeeps DEF GraphInv
<1>7. QED
  BY <1>1, <1>3, <1>4, <1>6, ForgetKeeps

\* A deletion that clears the cache.
LEMMA ClearedKeeps ==
  ASSUME GraphInv, NEW ns, NEW es, Delete(ns, es), known' = <<>>
  PROVE  /\ TablesInv' /\ owner' = owner
         /\ \A e \in DOMAIN edges' : e \in DOMAIN edges /\ e \notin es /\ edges'[e] = edges[e]
<1>1. DOMAIN known' = {}
  OBVIOUS
<1>2. /\ TablesInv' /\ owner' = owner
      /\ DOMAIN edges' = {e \in DOMAIN edges \ es : e[1] \notin ns /\ e[2] \notin ns}
      /\ \A e \in DOMAIN edges' : edges'[e] = edges[e]
  BY <1>1, DeleteKeeps DEF GraphInv
<1>3. QED
  BY <1>2

LEMMA DeleteGroupKeeps == ASSUME GraphInv, NEW g, DeleteGroup(g) PROVE GraphInv'
<1> DEFINE ns == {i \in DOMAIN nodes : nodes[i].group = g}
<1> DEFINE es == {e \in DOMAIN edges : edges[e].group = g}
<1> DEFINE ms == {m \in Facts : In[m] = g}
<1>1. Delete(ns, es) /\ ForgetFacts(ms) /\ known' = <<>>
  BY DEF DeleteGroup
<1>2. (\A e \in DOMAIN edges : edges[e].memory \in ms => e \in es) /\ ms \in SUBSET Facts
  BY EdgeRows
<1> HIDE DEF ns, es, ms
<1>3. QED
  BY <1>1, <1>2, ClearedKeeps, ForgetKeeps

LEMMA DeleteGraphKeeps == ASSUME GraphInv, DeleteGraph PROVE GraphInv'
<1>1. Delete(DOMAIN nodes, DOMAIN edges) /\ ForgetFacts(Facts) /\ known' = <<>>
  BY DEF DeleteGraph
<1>2. /\ TablesInv' /\ owner' = owner
      /\ \A e \in DOMAIN edges' : e \in DOMAIN edges /\ e \notin DOMAIN edges /\ edges'[e] = edges[e]
  BY <1>1, ClearedKeeps
<1>3. QED
  BY <1>1, <1>2, ForgetKeeps

\* A deletion of edges alone.
LEMMA EdgesGone ==
  ASSUME GraphInv, NEW es, Delete({}, es), known' = known
  PROVE  /\ TablesInv' /\ owner' = owner
         /\ \A e \in DOMAIN edges' : e \in DOMAIN edges /\ edges'[e] = edges[e]
<1>1. \A k \in DOMAIN known' : known'[k] = known[k] /\ (known[k] \notin {} \/ owner[known[k]].user # k[2])
  OBVIOUS
<1>2. /\ TablesInv' /\ owner' = owner
      /\ DOMAIN edges' = {e \in DOMAIN edges \ es : e[1] \notin {} /\ e[2] \notin {}}
      /\ \A e \in DOMAIN edges' : edges'[e] = edges[e]
  BY <1>1, DeleteKeeps DEF GraphInv
<1>3. QED
  BY <1>2

LEMMA DeleteMemoryKeeps == ASSUME GraphInv, NEW m \in Facts, DeleteMemory(m) PROVE GraphInv'
<1>1. Delete({}, {e \in DOMAIN edges : edges[e].memory = m}) /\ UNCHANGED <<known, pending, storing, upkeep, fact>>
  BY DEF DeleteMemory
<1>2. upkeep'.at \in {"idle", "edges", "nodes"}
  BY <1>1 DEF GraphInv, HandsTyped
<1>3. QED
  BY <1>1, <1>2, EdgesGone, RowsKeep

LEMMA ExpireStepKeeps == ASSUME GraphInv, NEW k \in DOMAIN known, Expire(k) PROVE GraphInv'
<1>1. TablesInv' /\ owner' = owner /\ edges' = edges
  BY ExpireKeeps DEF GraphInv
<1>2. UNCHANGED <<pending, storing, upkeep, fact>>
  BY DEF Expire
<1>3. QED
  BY <1>1, <1>2, RowsKeep DEF GraphInv, HandsTyped

LEMMA UpkeepReadsKeeps == ASSUME GraphInv, UpkeepReads PROVE GraphInv'
<1>1. UNCHANGED graph /\ UNCHANGED <<pending, storing, fact>> /\ upkeep'.at \in {"idle", "edges", "nodes"}
  BY DEF UpkeepReads
<1>2. QED
  BY <1>1, GraphSame, RowsKeep DEF GraphInv, graph

LEMMA UpkeepDeletesKeeps == ASSUME GraphInv, UpkeepDeletes PROVE GraphInv'
<1>1. UNCHANGED <<pending, storing, fact>> /\ upkeep'.at \in {"idle", "edges", "nodes"}
  BY DEF UpkeepDeletes, NoUpkeep
<1>2. CASE upkeep.at = "edges"
  <2>1. Delete({}, upkeep.ids) /\ known' = known
    BY <1>2 DEF UpkeepDeletes
  <2>2. QED
    BY <1>1, <2>1, EdgesGone, RowsKeep
<1>3. CASE upkeep.at # "edges"
  <2>1. Delete(upkeep.ids, {}) /\ known' = <<>>
    BY <1>3 DEF UpkeepDeletes
  <2>2. QED
    BY <1>1, <2>1, ClearedKeeps, RowsKeep
<1>4. QED
  BY <1>2, <1>3

-----------------------------------------------------------------------------
(* The invariant, and what follows from it.                                  *)

LEMMA InitInv == GraphInit => GraphInv
<1> SUFFICES ASSUME GraphInit PROVE GraphInv
  OBVIOUS
<1>1. /\ owner = <<>> /\ DOMAIN nodes = {} /\ DOMAIN edges = {} /\ DOMAIN known = {}
      /\ pending = <<>> /\ Len(<<>>) = 0 /\ <<>> \in Seq(Facts) /\ <<>> \in Seq(Nodes)
  BY EmptySeq DEF GraphInit
<1>2. TablesInv
  BY <1>1 DEF TablesInv, TablesTyped, EdgesOnNodes, NodesUnique, StaleOnlyForeign, PrivateRows
<1>3. /\ \A w \in Workers : storing[w] = Free
      /\ Free \in [at : {"idle", "ask", "subject", "object", "edge"}, left : Seq(Facts), from : Nat, to : Nat]
      /\ Free.left = <<>> /\ Free.at = "idle"
  BY <1>1 DEF GraphInit, Free
<1>4. HandsTyped
  BY <1>1, <1>3, GraphAssumption DEF GraphInit, HandsTyped, NoUpkeep
<1>5. WorkInv
  BY <1>3 DEF WorkInv, Works
<1>6. HandsInv
  BY <1>1, <1>3, EmptyItems DEF HandsInv
<1>7. ForgottenOnlyInFlight
  BY <1>1 DEF ForgottenOnlyInFlight
<1>8. QED
  BY <1>2, <1>4, <1>5, <1>6, <1>7 DEF GraphInv

LEMMA StepInv == GraphInv /\ [GraphNext]_graphVars => GraphInv'
<1> SUFFICES ASSUME GraphInv, [GraphNext]_graphVars PROVE GraphInv'
  OBVIOUS
<1>1. ASSUME NEW m \in Facts, NEW w \in Workers, ProcessByRules(m, w) \/ ProcessByModel(m, w) PROVE GraphInv'
  BY <1>1, ProcessByRulesKeeps, ProcessByModelKeeps
<1>2. ASSUME NEW w \in Workers, Flush(w) PROVE GraphInv'
  BY <1>2, FlushKeeps
<1>3. ASSUME NEW w \in Workers, NEW left \in Thinned(storing[w].left), Answer(w, left) PROVE GraphInv'
  BY <1>3, GraphAnswerKeeps
<1>4. ASSUME NEW w \in Workers, Subject(w) \/ Object(w) \/ Edge(w) PROVE GraphInv'
  BY <1>4, SubjectKeeps, ObjectKeeps, EdgeStepKeeps
<1>5. ASSUME NEW m \in Facts, DeleteUser(By[m], In[m]) \/ DeleteUser(By[m], NoGroup) PROVE GraphInv'
  BY <1>5, DeleteUserKeeps
<1>6. ASSUME NEW m \in Facts, DeleteGroup(In[m]) \/ DeleteMemory(m) PROVE GraphInv'
  BY <1>6, DeleteGroupKeeps, DeleteMemoryKeeps
<1>7. CASE DeleteGraph
  BY <1>7, DeleteGraphKeeps
<1>8. ASSUME NEW k \in DOMAIN known, Expire(k) PROVE GraphInv'
  BY <1>8, ExpireStepKeeps
<1>9. CASE UpkeepReads \/ UpkeepDeletes
  BY <1>9, UpkeepReadsKeeps, UpkeepDeletesKeeps
<1>10. CASE UNCHANGED graphVars
  <2>1. UNCHANGED graph /\ UNCHANGED <<pending, storing, upkeep, fact>>
    BY <1>10 DEF graphVars, graph
  <2>2. upkeep'.at \in {"idle", "edges", "nodes"}
    BY <2>1 DEF GraphInv, HandsTyped
  <2>3. QED
    BY <2>1, <2>2, GraphSame, RowsKeep DEF GraphInv, graph
<1>11. QED
  BY <1>1, <1>2, <1>3, <1>4, <1>5, <1>6, <1>7, <1>8, <1>9, <1>10 DEF GraphNext

\* In every behaviour of the graph its tables, its cache, the batch and the
\* workers keep the invariant.
THEOREM GraphInvariant == GraphSpec => []GraphInv
<1>1. QED
  BY InitInv, StepInv, PTL DEF GraphSpec

\* The types of tables, cache, batch and workers; the batch stays below its size.
THEOREM GraphTypes == GraphSpec => []GraphTypeOK
<1>1. GraphInv => GraphTypeOK
  BY DEF GraphInv, TablesInv, TablesTyped, HandsTyped, GraphTypeOK, Given, FactUsers, FactChats
<1>2. QED
  BY <1>1, GraphInvariant, PTL

\* Whatever is deleted between the thirds of an extraction, an edge has its nodes.
THEOREM OnNodes == GraphSpec => []EdgesOnNodes
<1>1. GraphInv => EdgesOnNodes
  BY DEF GraphInv, TablesInv
<1>2. QED
  BY <1>1, GraphInvariant, PTL

\* Any number of extractions and a cache that forgets make no node twice.
THEOREM Unique == GraphSpec => []NodesUnique
<1>1. GraphInv => NodesUnique
  BY DEF GraphInv, TablesInv
<1>2. QED
  BY <1>1, GraphInvariant, PTL

\* A stale entry of the cache is one under another user's key.
THEOREM Stale == GraphSpec => []StaleOnlyForeign
<1>1. GraphInv => StaleOnlyForeign
  BY DEF GraphInv, TablesInv
<1>2. QED
  BY <1>1, GraphInvariant, PTL

\* Deleted knowledge returns only from the batch or from a worker's hands.
THEOREM FactsForgotten == GraphSpec => []ForgottenOnlyInFlight
<1>1. GraphInv => ForgottenOnlyInFlight
  BY DEF GraphInv
<1>2. QED
  BY <1>1, GraphInvariant, PTL

\* No query of another user, in any chat, is told what a private chat said.
THEOREM PrivateStays == GraphSpec => []PrivateFactsStayPrivate
<1>1. GraphInv => PrivateFactsStayPrivate
  <2> SUFFICES ASSUME GraphInv, NEW a \in Facts, NEW b \in Facts, In[a] = NoGroup, By[b] # By[a],
                      NEW g, a \in Told(By[b], g)
               PROVE  FALSE
    BY DEF PrivateFactsStayPrivate
  <2>1. PICK e \in DOMAIN edges : /\ edges[e].memory = a /\ e[1] \in DOMAIN nodes
                                  /\ Visible(e[1], By[b], g)
    BY DEF Told
  <2>2. edges[e].user = By[a] /\ edges[e].group = NoGroup
    BY <2>1, EdgeRows
  <2>3. Private(e[1], By[a]) /\ nodes[e[1]] = owner[e[1]]
    BY <2>1, <2>2 DEF GraphInv, TablesInv, TablesTyped, PrivateRows
  <2>4. QED
    BY <2>1, <2>3 DEF Visible, Private
<1>2. QED
  BY <1>1, GraphInvariant, PTL

\* The graph's types, ends, names, cache and deletions together, as the runs check
\* them.
THEOREM GraphIsSound == GraphSpec => []GraphSound
BY GraphTypes, OnNodes, Unique, Stale, FactsForgotten, PTL DEF GraphSound

-----------------------------------------------------------------------------
(* Sequences: what they hold when a place is taken out or added.              *)

\* What is left of a sequence when the place i is taken out: the places after it move up.
LEMMA RemovalPlaces ==
    ASSUME NEW S, NEW s \in Seq(S), NEW i \in 1 .. Len(s)
    PROVE  /\ RemoveAt(s, i) \in Seq(S) /\ Len(RemoveAt(s, i)) = Len(s) - 1
           /\ \A j \in 1 .. (Len(s) - 1) : RemoveAt(s, i)[j] = IF j < i THEN s[j] ELSE s[j + 1]
<1> DEFINE a == SubSeq(s, 1, i - 1)
           b == SubSeq(s, i + 1, Len(s))
<1>1. Len(s) \in Nat /\ i \in Nat /\ 1 <= i /\ i <= Len(s)
  BY LenProperties
<1>2. a \in Seq(S) /\ Len(a) = i - 1 /\ \A j \in 1 .. (i - 1) : a[j] = s[j]
  BY <1>1
<1>3. b \in Seq(S) /\ Len(b) = Len(s) - i /\ \A j \in 1 .. (Len(s) - i) : b[j] = s[i + j]
  BY <1>1
<1>4. RemoveAt(s, i) = a \o b
  BY DEF RemoveAt
<1> HIDE DEF a, b
<1>5. /\ a \o b \in Seq(S) /\ Len(a \o b) = Len(s) - 1
      /\ \A j \in 1 .. (Len(s) - 1) : (a \o b)[j] = IF j <= i - 1 THEN a[j] ELSE b[j - (i - 1)]
  <2>1. /\ a \o b \in Seq(S) /\ Len(a \o b) = Len(a) + Len(b)
        /\ \A j \in 1 .. Len(a) + Len(b) : (a \o b)[j] = IF j <= Len(a) THEN a[j] ELSE b[j - Len(a)]
    BY <1>2, <1>3, ConcatProperties
  <2>2. Len(a) = i - 1 /\ Len(a) + Len(b) = Len(s) - 1
    BY <1>1, <1>2, <1>3
  <2>3. QED  BY <2>1, <2>2
<1>6. \A j \in 1 .. (Len(s) - 1) : (a \o b)[j] = IF j < i THEN s[j] ELSE s[j + 1]
  <2> TAKE j \in 1 .. (Len(s) - 1)
  <2>1. CASE j < i
    <3>1. j \in 1 .. (i - 1)
      BY <1>1, <2>1
    <3>2. QED  BY <1>1, <1>2, <1>5, <2>1, <3>1
  <2>2. CASE ~(j < i)
    <3>1. j - (i - 1) \in 1 .. (Len(s) - i) /\ i + (j - (i - 1)) = j + 1 /\ ~(j <= i - 1)
      BY <1>1, <2>2
    <3>2. b[j - (i - 1)] = s[j + 1]
      BY <1>3, <3>1
    <3>3. QED  BY <1>5, <2>2, <3>1, <3>2
  <2>3. QED  BY <2>1, <2>2
<1>7. QED  BY <1>4, <1>5, <1>6
\* No two places of a sequence have the same key, k giving the keys.
Distinct(k, s) == \A i, j \in DOMAIN s : k[s[i]] = k[s[j]] => i = j

\* Taking out a place takes out its key and nothing else.
LEMMA RemovalDistinct ==
    ASSUME NEW S, NEW k, NEW s \in Seq(S), Distinct(k, s), NEW i \in 1 .. Len(s)
    PROVE  /\ RemoveAt(s, i) \in Seq(S) /\ Len(RemoveAt(s, i)) = Len(s) - 1
           /\ Distinct(k, RemoveAt(s, i))
           /\ \A e : e \in Range(RemoveAt(s, i)) <=> e \in Range(s) /\ k[e] # k[s[i]]
<1> DEFINE r == RemoveAt(s, i)
<1>1. /\ r \in Seq(S) /\ Len(r) = Len(s) - 1
      /\ \A j \in 1 .. (Len(s) - 1) : r[j] = IF j < i THEN s[j] ELSE s[j + 1]
  BY RemovalPlaces
<1>2. /\ Len(s) \in Nat /\ DOMAIN s = 1 .. Len(s) /\ DOMAIN r = 1 .. (Len(s) - 1)
      /\ i \in Nat /\ 1 <= i /\ i <= Len(s)
  BY <1>1, LenProperties
<1> HIDE DEF r
<1>3. \A j \in 1 .. (Len(s) - 1) : \E l \in 1 .. Len(s) : l # i /\ r[j] = s[l] /\ l = IF j < i THEN j ELSE j + 1
  <2> TAKE j \in 1 .. (Len(s) - 1)
  <2>1. CASE j < i
    BY <1>1, <1>2, <2>1
  <2>2. CASE ~(j < i)
    <3>1. j + 1 \in 1 .. Len(s) /\ j + 1 # i
      BY <1>2, <2>2
    <3>2. QED  BY <1>1, <2>2, <3>1
  <2>3. QED  BY <2>1, <2>2
<1>4. \A l \in 1 .. Len(s) : l # i => \E j \in 1 .. (Len(s) - 1) : r[j] = s[l]
  <2> TAKE l \in 1 .. Len(s)
  <2> HAVE l # i
  <2>1. CASE l < i
    <3>1. l \in 1 .. (Len(s) - 1)
      BY <1>2, <2>1
    <3>2. QED  BY <1>1, <2>1, <3>1
  <2>2. CASE ~(l < i)
    <3>1. l - 1 \in 1 .. (Len(s) - 1) /\ ~(l - 1 < i) /\ (l - 1) + 1 = l
      BY <1>2, <2>2
    <3>2. r[l - 1] = s[l]
      BY <1>1, <3>1
    <3>3. QED  BY <3>1, <3>2
  <2>3. QED  BY <2>1, <2>2
<1>5. Distinct(k, r)
  <2> SUFFICES ASSUME NEW a \in 1 .. (Len(s) - 1), NEW b \in 1 .. (Len(s) - 1), k[r[a]] = k[r[b]]
               PROVE  a = b
    BY <1>2 DEF Distinct
  <2>1. PICK l \in 1 .. Len(s) : r[a] = s[l] /\ l = IF a < i THEN a ELSE a + 1
    BY <1>3
  <2>2. PICK m \in 1 .. Len(s) : r[b] = s[m] /\ m = IF b < i THEN b ELSE b + 1
    BY <1>3
  <2>3. l = m
    BY <1>2, <2>1, <2>2 DEF Distinct
  <2>4. QED  BY <1>2, <2>1, <2>2, <2>3
<1>6. Range(r) \subseteq {e \in Range(s) : k[e] # k[s[i]]}
  <2> SUFFICES ASSUME NEW j \in 1 .. (Len(s) - 1)
               PROVE  r[j] \in {e \in Range(s) : k[e] # k[s[i]]}
    BY <1>2 DEF Range
  <2>1. PICK l \in 1 .. Len(s) : l # i /\ r[j] = s[l]
    BY <1>3
  <2>2. k[s[l]] # k[s[i]]
    BY <1>2, <2>1 DEF Distinct
  <2>3. QED  BY <1>2, <2>1, <2>2 DEF Range
<1>7. {e \in Range(s) : k[e] # k[s[i]]} \subseteq Range(r)
  <2> SUFFICES ASSUME NEW l \in 1 .. Len(s), k[s[l]] # k[s[i]]
               PROVE  s[l] \in Range(r)
    BY <1>2 DEF Range
  <2>1. PICK j \in 1 .. (Len(s) - 1) : r[j] = s[l]
    BY <1>4
  <2>2. QED  BY <1>2, <2>1 DEF Range
<1>8. QED  BY <1>1, <1>5, <1>6, <1>7 DEF r

\* A new key goes to the end.
LEMMA AppendDistinct ==
    ASSUME NEW S, NEW k, NEW s \in Seq(S), Distinct(k, s), NEW e \in S,
           \A x \in Range(s) : k[x] # k[e]
    PROVE  /\ Append(s, e) \in Seq(S) /\ Len(Append(s, e)) = Len(s) + 1
           /\ Distinct(k, Append(s, e))
           /\ Range(Append(s, e)) = Range(s) \cup {e}
<1> DEFINE r == Append(s, e)
<1>1. /\ r \in Seq(S) /\ Len(r) = Len(s) + 1 /\ r[Len(s) + 1] = e
      /\ \A i \in 1 .. Len(s) : r[i] = s[i]
  BY AppendProperties
<1>2. Len(s) \in Nat /\ DOMAIN s = 1 .. Len(s) /\ DOMAIN r = 1 .. (Len(s) + 1)
  BY <1>1, LenProperties
<1> HIDE DEF r
<1>3. \A i \in 1 .. (Len(s) + 1) : i \in 1 .. Len(s) \/ i = Len(s) + 1
  BY <1>2
<1>4. \A i \in 1 .. Len(s) : i \in 1 .. (Len(s) + 1) /\ s[i] \in Range(s)
  BY <1>2 DEF Range
<1>5. Len(s) + 1 \in 1 .. (Len(s) + 1)
  BY <1>2
<1>6. Distinct(k, r)
  <2> SUFFICES ASSUME NEW i \in 1 .. (Len(s) + 1), NEW j \in 1 .. (Len(s) + 1), k[r[i]] = k[r[j]]
               PROVE  i = j
    BY <1>2 DEF Distinct
  <2>1. CASE i \in 1 .. Len(s) /\ j \in 1 .. Len(s)
    BY <1>1, <1>2, <2>1 DEF Distinct
  <2>2. CASE i = Len(s) + 1 /\ j \in 1 .. Len(s)
    BY <1>1, <1>4, <2>2
  <2>3. CASE i \in 1 .. Len(s) /\ j = Len(s) + 1
    BY <1>1, <1>4, <2>3
  <2>4. QED  BY <1>3, <2>1, <2>2, <2>3
<1>7. Range(r) = Range(s) \cup {e}
  BY <1>1, <1>2, <1>3, <1>4, <1>5 DEF Range
<1>8. QED  BY <1>1, <1>6, <1>7 DEF r

\* The tail is without the first key.
LEMMA TailDistinct ==
    ASSUME NEW S, NEW k, NEW s \in Seq(S), Distinct(k, s), s # <<>>
    PROVE  /\ Tail(s) \in Seq(S) /\ Len(Tail(s)) = Len(s) - 1
           /\ Distinct(k, Tail(s)) /\ Head(s) \in Range(s)
           /\ \A e : e \in Range(Tail(s)) <=> e \in Range(s) /\ k[e] # k[s[1]]
<1>1. /\ Len(s) \in Nat /\ 1 <= Len(s) /\ DOMAIN s = 1 .. Len(s) /\ Head(s) = s[1]
      /\ Tail(s) \in Seq(S) /\ Len(Tail(s)) = Len(s) - 1
      /\ \A j \in 1 .. (Len(s) - 1) : Tail(s)[j] = s[j + 1]
  BY LenProperties, EmptySeq, HeadTailProperties
<1>2. 1 \in 1 .. Len(s)
  BY <1>1
<1>3. /\ RemoveAt(s, 1) \in Seq(S) /\ Len(RemoveAt(s, 1)) = Len(s) - 1
      /\ \A j \in 1 .. (Len(s) - 1) : RemoveAt(s, 1)[j] = s[j + 1]
  <2>1. \A j \in 1 .. (Len(s) - 1) : ~(j < 1)
    BY <1>1
  <2>2. QED  BY <1>2, <2>1, RemovalPlaces
<1>4. Tail(s) = RemoveAt(s, 1)
  BY <1>1, <1>3, SeqEqual
<1>5. Head(s) \in Range(s)
  BY <1>1, <1>2 DEF Range
<1>6. /\ Distinct(k, RemoveAt(s, 1))
      /\ \A e : e \in Range(RemoveAt(s, 1)) <=> e \in Range(s) /\ k[e] # k[s[1]]
  BY <1>2, RemovalDistinct
<1>7. QED  BY <1>1, <1>4, <1>5, <1>6

\* A list in which nothing is twice.
Once(q) == \A i, j \in DOMAIN q : q[i] = q[j] => i = j

\* A new member goes to the end of a list.
LEMMA Listing ==
    ASSUME NEW S, NEW q \in Seq(S), NEW e \in S
    PROVE  /\ Append(q, e) \in Seq(S) /\ Len(Append(q, e)) = Len(q) + 1 /\ Len(q) \in Nat
           /\ Range(Append(q, e)) = Range(q) \cup {e}
           /\ Once(q) /\ e \notin Range(q) => Once(Append(q, e))
<1>1. /\ Append(q, e) \in Seq(S) /\ Len(Append(q, e)) = Len(q) + 1 /\ Append(q, e)[Len(q) + 1] = e
      /\ \A i \in 1 .. Len(q) : Append(q, e)[i] = q[i]
  BY AppendProperties
<1>2. PICK r : r = Append(q, e)
  OBVIOUS
<1>3. Len(q) \in Nat /\ DOMAIN q = 1 .. Len(q) /\ DOMAIN r = 1 .. (Len(q) + 1)
  BY <1>1, <1>2, LenProperties
<1>4. /\ \A i \in 1 .. (Len(q) + 1) : i \in 1 .. Len(q) \/ i = Len(q) + 1
      /\ \A i \in 1 .. Len(q) : i \in 1 .. (Len(q) + 1) /\ r[i] = q[i] /\ q[i] \in Range(q)
      /\ Len(q) + 1 \in 1 .. (Len(q) + 1) /\ r[Len(q) + 1] = e
  BY <1>1, <1>2, <1>3 DEF Range
<1>5. Range(r) = Range(q) \cup {e}
  BY <1>3, <1>4 DEF Range
<1>6. Once(q) /\ e \notin Range(q) => Once(r)
  BY <1>3, <1>4 DEF Once
<1>7. QED  BY <1>1, <1>2, <1>3, <1>5, <1>6

\* A list of distinct members is as long as there are members.
LEMMA CountedOnce ==
    ASSUME NEW S, NEW q \in Seq(S), Once(q)
    PROVE  IsFiniteSet(Range(q)) /\ Cardinality(Range(q)) = Len(q)
<1>1. DOMAIN q = 1 .. Len(q) /\ Len(q) \in Nat
  BY LenProperties
<1>2. IsFiniteSet(1 .. Len(q)) /\ Cardinality(1 .. Len(q)) = Len(q)
  BY <1>1, FS_Interval
<1>3. q \in [1 .. Len(q) -> Range(q)]
  <2>1. q = [i \in 1 .. Len(q) |-> q[i]]
    BY <1>1
  <2>2. QED  BY <1>1, <2>1 DEF Range
<1>4. q \in Bijection(1 .. Len(q), Range(q))
  BY <1>1, <1>3 DEF Bijection, Injection, Surjection, IsInjective, Once, Range
<1>5. ExistsBijection(1 .. Len(q), Range(q))
  BY <1>4 DEF ExistsBijection
<1>6. QED  BY <1>2, <1>5, FS_Bijection

=============================================================================
