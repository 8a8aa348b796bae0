--------------------------- MODULE StorageProofs ----------------------------
(* Proofs about what is kept: the components of MCStorage, for any sessions, *)
(* memories, callers, keys and limits.                                       *)
EXTENDS MCStorage, KnowledgeGraphProofs, WellFoundedInduction

\* Promotion has a memory at hand while it adds or ranks.
BusyInv == promote.at \in {"add", "rank"} => promote.left # <<>>

\* What the first manager's cache keeps under a session was captured in it.
HomeInv == \A s \in Chats : \A m \in Range(working[s]) : Home[m] = s

\* A memory can come to the store again from the hands of a background task or
\* from the first manager's cache: a cleared one that is there was in flight.
HeldInv ==
    \A m \in Mem : fate[m] = "forgotten" /\ (m \in Stored \/ m \in Held \/ InCache(working, m))
                     => m \in inFlight

IInv == TypeOK /\ BusyInv /\ HomeInv /\ NothingVanishes /\ HeldInv

-----------------------------------------------------------------------------
(* Sequences: what they hold after an operation.                             *)

\* A sequence extended by a value holds that value besides the others.
LEMMA AppendHolds ==
    ASSUME NEW S, NEW s \in Seq(S), NEW e \in S
    PROVE  /\ Append(s, e) \in Seq(S) /\ Len(Append(s, e)) = Len(s) + 1
           /\ Range(Append(s, e)) = Range(s) \cup {e}
<1>1. /\ Append(s, e) \in Seq(S) /\ Len(Append(s, e)) = Len(s) + 1
      /\ \A i \in 1 .. Len(s) : Append(s, e)[i] = s[i]
      /\ Append(s, e)[Len(s) + 1] = e
  BY AppendProperties
<1>2. Len(s) \in Nat /\ DOMAIN s = 1 .. Len(s) /\ DOMAIN Append(s, e) = 1 .. (Len(s) + 1)
  BY <1>1, LenProperties
<1>3. \A i \in 1 .. (Len(s) + 1) : i \in 1 .. Len(s) \/ i = Len(s) + 1
  BY <1>2
<1>4. Range(Append(s, e)) \subseteq Range(s) \cup {e}
  BY <1>1, <1>2, <1>3 DEF Range
<1>5. Range(s) \cup {e} \subseteq Range(Append(s, e))
  <2>1. 1 .. Len(s) \subseteq 1 .. (Len(s) + 1) /\ Len(s) + 1 \in 1 .. (Len(s) + 1)
    BY <1>2
  <2>2. QED  BY <1>1, <1>2, <2>1 DEF Range
<1>6. QED  BY <1>1, <1>4, <1>5

\* The head and the tail of a sequence hold what it holds.
LEMMA TailHolds ==
    ASSUME NEW S, NEW s \in Seq(S), s # <<>>
    PROVE  /\ Head(s) \in S /\ Head(s) \in Range(s)
           /\ Tail(s) \in Seq(S) /\ Len(Tail(s)) = Len(s) - 1
           /\ Range(s) = Range(Tail(s)) \cup {Head(s)}
<1>1. /\ Len(s) \in Nat \ {0} /\ DOMAIN s = 1 .. Len(s) /\ Head(s) = s[1]
      /\ \A i \in 1 .. Len(s) : s[i] \in S
  BY LenProperties, EmptySeq, HeadTailProperties, ElementOfSeq
<1>2. /\ Tail(s) \in Seq(S) /\ Len(Tail(s)) = Len(s) - 1
      /\ \A i \in 1 .. Len(Tail(s)) : Tail(s)[i] = s[i + 1]
  BY HeadTailProperties
<1>3. DOMAIN Tail(s) = 1 .. (Len(s) - 1)
  BY <1>2, LenProperties
<1>4. 1 \in 1 .. Len(s)
  BY <1>1
<1>5. Head(s) \in S /\ Head(s) \in Range(s)
  BY <1>1, <1>4 DEF Range
<1>6. Range(Tail(s)) \subseteq Range(s)
  <2>1. \A i \in 1 .. (Len(s) - 1) : i + 1 \in 1 .. Len(s)
    BY <1>1
  <2>2. QED  BY <1>1, <1>2, <1>3, <2>1 DEF Range
<1>7. Range(s) \subseteq Range(Tail(s)) \cup {Head(s)}
  <2> SUFFICES ASSUME NEW i \in 1 .. Len(s) PROVE s[i] \in Range(Tail(s)) \cup {Head(s)}
    BY <1>1 DEF Range
  <2>1. CASE i = 1  BY <1>1, <2>1
  <2>2. CASE i # 1
    <3>1. i - 1 \in 1 .. (Len(s) - 1) /\ (i - 1) + 1 = i
      BY <1>1, <2>2
    <3>2. Tail(s)[i - 1] = s[i]
      BY <1>2, <3>1
    <3>3. QED  BY <1>3, <3>1, <3>2 DEF Range
  <2>3. QED  BY <2>1, <2>2
<1>8. QED  BY <1>2, <1>5, <1>6, <1>7

\* Without takes a memory's place out and keeps every other memory.
LEMMA WithoutHolds ==
    ASSUME NEW s \in Seq(Mem), NEW m
    PROVE  /\ Without(s, m) \in Seq(Mem) /\ Len(Without(s, m)) <= Len(s)
           /\ Range(Without(s, m)) \subseteq Range(s)
           /\ Range(s) \subseteq Range(Without(s, m)) \cup {m}
<1>1. Len(s) \in Nat /\ DOMAIN s = 1 .. Len(s) /\ \A i \in 1 .. Len(s) : s[i] \in Mem
  BY LenProperties, ElementOfSeq
<1>2. CASE m \notin Range(s)
  BY <1>1, <1>2 DEF Without
<1>3. CASE m \in Range(s)
  <2>1. PICK i \in 1 .. Len(s) : s[i] = m /\ Without(s, m) = RemoveAt(s, i)
    <3>1. \E i \in DOMAIN s : s[i] = m
      BY <1>3 DEF Range
    <3>2. (CHOOSE i \in DOMAIN s : s[i] = m) \in DOMAIN s /\ s[CHOOSE i \in DOMAIN s : s[i] = m] = m
      BY <3>1
    <3>3. QED  BY <1>1, <1>3, <3>2 DEF Without
  <2> DEFINE a == SubSeq(s, 1, i - 1)
             b == SubSeq(s, i + 1, Len(s))
  <2>2. a \in Seq(Mem) /\ Len(a) = i - 1 /\ \A j \in 1 .. (i - 1) : a[j] = s[j]
    <3>1. i - 1 \in Nat /\ 1 <= i /\ i - 1 <= Len(s)
      BY <1>1
    <3>2. \A j \in 1 .. (i - 1) : j \in 1 .. Len(s)
      BY <1>1
    <3>4. a = [j \in 1 .. (i - 1) |-> s[j]]
      <4>1. (i - 1) - 1 + 1 = i - 1 /\ \A j \in 1 .. (i - 1) : 1 + j - 1 = j
        BY <3>1
      <4>2. QED  BY <3>1, <4>1
    <3>5. a \in [1 .. (i - 1) -> Mem]
      BY <1>1, <3>2, <3>4
    <3>6. a \in Seq(Mem)
      BY <3>1, <3>5, SeqDef
    <3>7. Len(a) = i - 1
      BY <3>1, <3>4, <3>6, LenProperties
    <3>8. QED  BY <3>4, <3>6, <3>7
  <2>3. b \in Seq(Mem) /\ Len(b) = Len(s) - i /\ \A j \in 1 .. (Len(s) - i) : b[j] = s[i + j]
    <3>1. Len(s) - i \in Nat
      BY <1>1
    <3>2. \A j \in 1 .. (Len(s) - i) : i + j \in 1 .. Len(s)
      BY <1>1
    <3>4. b = [j \in 1 .. (Len(s) - i) |-> s[i + j]]
      <4>1. Len(s) - (i + 1) + 1 = Len(s) - i /\ \A j \in 1 .. (Len(s) - i) : (i + 1) + j - 1 = i + j
        BY <1>1
      <4>2. QED  BY <3>1, <4>1
    <3>5. b \in [1 .. (Len(s) - i) -> Mem]
      BY <1>1, <3>2, <3>4
    <3>6. b \in Seq(Mem)
      BY <3>1, <3>5, SeqDef
    <3>7. Len(b) = Len(s) - i
      BY <3>1, <3>4, <3>6, LenProperties
    <3>8. QED  BY <3>4, <3>6, <3>7
  <2> HIDE DEF a, b
  <2> DEFINE w == a \o b
  <2>4. Without(s, m) = w
    BY <2>1 DEF RemoveAt, a, b
  <2>5. /\ w \in Seq(Mem) /\ Len(w) = Len(s) - 1 /\ DOMAIN w = 1 .. (Len(s) - 1)
        /\ \A j \in 1 .. (Len(s) - 1) : w[j] = IF j <= i - 1 THEN s[j] ELSE s[j + 1]
    <3>1. w \in Seq(Mem) /\ Len(w) = Len(a) + Len(b)
      BY <2>2, <2>3, ConcatProperties
    <3>2. Len(w) = Len(s) - 1
      BY <1>1, <2>2, <2>3, <3>1
    <3>3. DOMAIN w = 1 .. (Len(s) - 1)
      BY <3>1, <3>2, LenProperties
    <3>4. ASSUME NEW j \in 1 .. (Len(s) - 1)
          PROVE  w[j] = IF j <= i - 1 THEN s[j] ELSE s[j + 1]
      <4>1. w[j] = IF j <= Len(a) THEN a[j] ELSE b[j - Len(a)]
        BY <1>1, <2>2, <2>3, <3>1, <3>2, ConcatProperties
      <4>2. CASE j <= i - 1
        BY <1>1, <2>2, <4>1, <4>2
      <4>3. CASE ~(j <= i - 1)
        <5>1. j - (i - 1) \in 1 .. (Len(s) - i) /\ i + (j - (i - 1)) = j + 1
          BY <1>1, <4>3
        <5>2. b[j - (i - 1)] = s[j + 1]
          BY <2>3, <5>1
        <5>3. QED  BY <2>2, <4>1, <4>3, <5>2
      <4>4. QED  BY <4>2, <4>3
    <3>5. QED  BY <3>1, <3>2, <3>3, <3>4
  <2> HIDE DEF w
  <2>6. Range(w) \subseteq Range(s)
    <3>1. \A j \in 1 .. (Len(s) - 1) : j \in 1 .. Len(s) /\ j + 1 \in 1 .. Len(s)
      BY <1>1
    <3>2. QED  BY <1>1, <2>5, <3>1 DEF Range
  <2>7. Range(s) \subseteq Range(w) \cup {m}
    <3> SUFFICES ASSUME NEW j \in 1 .. Len(s), j # i PROVE s[j] \in Range(w)
      BY <1>1, <2>1 DEF Range
    <3>1. CASE j < i
      <4>1. j \in 1 .. (Len(s) - 1) /\ j <= i - 1
        BY <1>1, <3>1
      <4>2. w[j] = s[j]
        BY <2>5, <4>1
      <4>3. QED  BY <2>5, <4>1, <4>2 DEF Range
    <3>2. CASE j > i
      <4>1. j - 1 \in 1 .. (Len(s) - 1) /\ ~(j - 1 <= i - 1) /\ (j - 1) + 1 = j
        BY <1>1, <3>2
      <4>2. w[j - 1] = s[j]
        BY <2>5, <4>1
      <4>3. QED  BY <2>5, <4>1, <4>2 DEF Range
    <3>3. QED  BY <1>1, <3>1, <3>2
  <2>8. QED  BY <1>1, <2>4, <2>5, <2>6, <2>7
<1>4. QED  BY <1>2, <1>3

\* An order of some memories is a sequence that holds no others.
LEMMA OrderHolds ==
    ASSUME NEW ms \in SUBSET Mem, IsFiniteSet(ms), NEW queue \in SetToSeqs(ms)
    PROVE  queue \in Seq(Mem) /\ Range(queue) \subseteq ms
<1>1. Cardinality(ms) \in Nat
  BY FS_CardinalityType
<1>2. queue \in [1 .. Cardinality(ms) -> ms]
  BY DEF SetToSeqs
<1>3. queue \in [1 .. Cardinality(ms) -> Mem]
  BY <1>2
<1>4. QED  BY <1>1, <1>2, <1>3, SeqDef DEF Range

-----------------------------------------------------------------------------
(* The caches and the rows after an operation.                               *)

\* add_working_memory keeps within the limit and pushes out the oldest only.
LEMMA PushedHolds ==
    ASSUME NEW c \in Cache, NEW m \in Mem
    PROVE  /\ Pushed(c, m) \in Cache
           /\ \A s \in Chats : \A n \in Range(Pushed(c, m)[s]) :
                n \in Range(c[s]) \/ (n = m /\ s = Home[m])
           /\ InCache(Pushed(c, m), m)
           /\ \A n \in Mem : InCache(c, n) => InCache(Pushed(c, m), n) \/ n \in Oldest(c, m)
<1> DEFINE h == Home[m]
           q == c[h]
           p == IF Len(q) >= MaxWorking THEN Append(Tail(q), m) ELSE Append(q, m)
<1>1. Home \in [Mem -> Chats] /\ MaxWorking \in Nat \ {0} /\ h \in Chats
  BY LifecycleAssumption
<1>2. c \in [Chats -> Seq(Mem)] /\ (\A s \in Chats : Len(c[s]) <= MaxWorking) /\ q \in Seq(Mem)
  BY <1>1 DEF Cache
<1>3. /\ p \in Seq(Mem) /\ Len(p) <= MaxWorking
      /\ m \in Range(p) /\ Range(p) \subseteq Range(q) \cup {m}
      /\ Range(q) \subseteq Range(p) \cup Oldest(c, m)
  <2>0. \A t \in Seq(Mem) : /\ Append(t, m) \in Seq(Mem) /\ Len(Append(t, m)) = Len(t) + 1
                              /\ Range(Append(t, m)) = Range(t) \cup {m}
    BY AppendHolds
  <2>1. CASE Len(q) >= MaxWorking
    <3>1. q # <<>> /\ Len(q) \in Nat
      BY <1>1, <1>2, <2>1, EmptySeq, LenProperties
    <3>2. /\ Tail(q) \in Seq(Mem) /\ Len(Tail(q)) = Len(q) - 1
          /\ Range(q) = Range(Tail(q)) \cup {Head(q)}
      BY <1>2, <3>1, TailHolds
    <3>3. /\ Append(Tail(q), m) \in Seq(Mem) /\ Len(Append(Tail(q), m)) = Len(Tail(q)) + 1
          /\ Range(Append(Tail(q), m)) = Range(Tail(q)) \cup {m}
      BY <2>0, <3>2
    <3>4. Oldest(c, m) = {Head(q)}
      BY <2>1 DEF Oldest
    <3>5. Len(q) <= MaxWorking
      BY <1>1, <1>2
    <3>6. Len(Append(Tail(q), m)) <= MaxWorking
      BY <1>1, <3>1, <3>2, <3>3, <3>5
    <3>7. p = Append(Tail(q), m)
      BY <2>1
    <3>8. QED  BY <3>2, <3>3, <3>4, <3>6, <3>7
  <2>2. CASE ~(Len(q) >= MaxWorking)
    <3>1. /\ Append(q, m) \in Seq(Mem) /\ Len(Append(q, m)) = Len(q) + 1
          /\ Range(Append(q, m)) = Range(q) \cup {m}
      BY <1>2, <2>0
    <3>2. Len(q) \in Nat
      BY <1>2, LenProperties
    <3>3. Len(Append(q, m)) <= MaxWorking
      BY <1>1, <2>2, <3>1, <3>2
    <3>4. p = Append(q, m)
      BY <2>2
    <3>5. QED  BY <3>1, <3>3, <3>4
  <2>3. QED  BY <2>1, <2>2
<1>4. Pushed(c, m) = [c EXCEPT ![h] = p]
  BY DEF Pushed
<1> HIDE DEF p
<1>5. \A s \in Chats : Pushed(c, m)[s] = IF s = h THEN p ELSE c[s]
  BY <1>1, <1>2, <1>4
<1>6. Pushed(c, m) \in Cache
  BY <1>1, <1>2, <1>3, <1>4, <1>5 DEF Cache
<1>7. \A n \in Mem : Home[n] \in Chats
  BY <1>1
<1>8. ASSUME NEW n \in Mem, InCache(c, n)
      PROVE  InCache(Pushed(c, m), n) \/ n \in Oldest(c, m)
  <2>1. CASE Home[n] = h  BY <1>3, <1>5, <1>7, <1>8, <2>1 DEF InCache
  <2>2. CASE Home[n] # h  BY <1>5, <1>7, <1>8, <2>2 DEF InCache
  <2>3. QED  BY <2>1, <2>2
<1>9. InCache(Pushed(c, m), m)
  BY <1>1, <1>3, <1>5 DEF InCache
<1>10. ASSUME NEW s \in Chats, NEW n \in Range(Pushed(c, m)[s])
       PROVE  n \in Range(c[s]) \/ (n = m /\ s = Home[m])
  <2>1. CASE s = h  BY <1>3, <1>5, <2>1
  <2>2. CASE s # h  BY <1>5, <2>2
  <2>3. QED  BY <2>1, <2>2
<1>11. QED  BY <1>6, <1>8, <1>9, <1>10

\* Clearing empties the caches of the sessions that are cleared, and no others.
LEMMA EmptiedHolds ==
    ASSUME NEW c \in Cache, NEW ms
    PROVE  /\ Emptied(c, ms) \in Cache
           /\ \A s \in Chats : Range(Emptied(c, ms)[s]) \subseteq Range(c[s])
           /\ \A n \in Mem : InCache(Emptied(c, ms), n)
                               <=> InCache(c, n) /\ ~\E k \in ms : Home[k] = Home[n]
<1>1. <<>> \in Seq(Mem) /\ Len(<<>>) = 0 /\ Range(<<>>) = {}
  BY EmptySeq DEF Range
<1>2. c \in [Chats -> Seq(Mem)] /\ \A s \in Chats : Len(c[s]) <= MaxWorking
  BY DEF Cache
<1>3. MaxWorking \in Nat /\ \A n \in Mem : Home[n] \in Chats
  BY LifecycleAssumption
<1>4. \A s \in Chats : Emptied(c, ms)[s] = IF \E k \in ms : Home[k] = s THEN <<>> ELSE c[s]
  BY DEF Emptied
<1>5. Emptied(c, ms) \in [Chats -> Seq(Mem)]
  BY <1>1, <1>2 DEF Emptied
<1>6. \A s \in Chats : Len(Emptied(c, ms)[s]) <= MaxWorking
  <2> TAKE s \in Chats
  <2>1. CASE \E k \in ms : Home[k] = s  BY <1>1, <1>3, <1>4, <2>1
  <2>2. CASE ~\E k \in ms : Home[k] = s  BY <1>2, <1>4, <2>2
  <2>3. QED  BY <2>1, <2>2
<1>7. \A s \in Chats : Range(Emptied(c, ms)[s]) \subseteq Range(c[s])
  BY <1>1, <1>4
<1>8. ASSUME NEW n \in Mem
      PROVE  InCache(Emptied(c, ms), n) <=> InCache(c, n) /\ ~\E k \in ms : Home[k] = Home[n]
  BY <1>1, <1>3, <1>4 DEF InCache
<1>9. QED  BY <1>5, <1>6, <1>7, <1>8 DEF Cache

\* Taking one memory out of its session's cache leaves every other one.
LEMMA RemovedHolds ==
    ASSUME NEW c \in Cache, NEW m \in Mem, NEW d, d = [c EXCEPT ![Home[m]] = Without(@, m)]
    PROVE  /\ d \in Cache
           /\ \A s \in Chats : Range(d[s]) \subseteq Range(c[s])
           /\ \A n \in Mem : InCache(d, n) => InCache(c, n)
           /\ \A n \in Mem \ {m} : InCache(c, n) => InCache(d, n)
<1>1. c \in [Chats -> Seq(Mem)] /\ \A s \in Chats : Len(c[s]) <= MaxWorking
  BY DEF Cache
<1>2. MaxWorking \in Nat /\ \A n \in Mem : Home[n] \in Chats
  BY LifecycleAssumption
<1> DEFINE q == c[Home[m]]
           w == Without(q, m)
<1>3. /\ w \in Seq(Mem) /\ Len(w) <= Len(q) /\ Range(w) \subseteq Range(q)
      /\ Range(q) \subseteq Range(w) \cup {m}
  BY <1>1, <1>2, WithoutHolds
<1>4. Len(w) \in Nat /\ Len(q) \in Nat /\ Len(q) <= MaxWorking
  BY <1>1, <1>2, <1>3, LenProperties
<1>5. d = [c EXCEPT ![Home[m]] = w]
  OBVIOUS
<1> HIDE DEF w
<1>6. \A s \in Chats : d[s] = IF s = Home[m] THEN w ELSE c[s]
  BY <1>1, <1>5
<1>7. Len(w) <= MaxWorking
  BY <1>2, <1>3, <1>4
<1>8. d \in Cache
  BY <1>1, <1>2, <1>3, <1>5, <1>6, <1>7 DEF Cache
<1>9. \A s \in Chats : Range(d[s]) \subseteq Range(c[s])
  BY <1>3, <1>6
<1>10. \A n \in Mem \ {m} : InCache(c, n) => InCache(d, n)
  BY <1>2, <1>3, <1>6 DEF InCache
<1>11. QED  BY <1>2, <1>8, <1>9, <1>10 DEF InCache

\* The cache of one session is emptied at the end of its archive.
LEMMA ClosedHolds ==
    ASSUME NEW c \in Cache, NEW s \in Chats, NEW d, d = [c EXCEPT ![s] = <<>>]
    PROVE  /\ d \in Cache
           /\ \A t \in Chats : Range(d[t]) \subseteq Range(c[t])
           /\ \A n \in Mem : InCache(d, n) => InCache(c, n)
           /\ \A n \in Mem : InCache(c, n) => InCache(d, n) \/ Home[n] = s
<1>1. <<>> \in Seq(Mem) /\ Len(<<>>) = 0 /\ Range(<<>>) = {}
  BY EmptySeq DEF Range
<1>2. c \in [Chats -> Seq(Mem)] /\ \A t \in Chats : Len(c[t]) <= MaxWorking
  BY DEF Cache
<1>3. MaxWorking \in Nat /\ \A n \in Mem : Home[n] \in Chats
  BY LifecycleAssumption
<1>4. \A t \in Chats : d[t] = IF t = s THEN <<>> ELSE c[t]
  BY <1>2
<1>5. d \in [Chats -> Seq(Mem)] /\ \A t \in Chats : Len(d[t]) <= MaxWorking
  BY <1>1, <1>2, <1>3, <1>4
<1>6. \A t \in Chats : Range(d[t]) \subseteq Range(c[t])
  BY <1>1, <1>4
<1>7. QED  BY <1>3, <1>4, <1>5, <1>6 DEF Cache, InCache

\* What is dropped is no longer stored; the other rows stay as they are.
LEMMA DropHolds ==
    ASSUME TypeOK, NEW ms, rows' = Drop(ms)
    PROVE  Stored' = Stored \ ms /\ Stored' \subseteq Mem /\ rows' \in [Stored' -> Rows]
<1>1. rows \in [Stored -> Rows] /\ Stored \subseteq Mem
  BY DEF TypeOK
<1>2. rows' = [m \in Stored \ ms |-> rows[m]]
  BY DEF Drop
<1>3. Stored' = Stored \ ms
  BY <1>2 DEF Stored
<1>4. QED  BY <1>1, <1>2, <1>3

\* Adding a memory stores it under its layer, and keeps every row there is.
LEMMA AddHolds ==
    ASSUME TypeOK, NEW m \in Mem, rows' = Add(m)
    PROVE  Stored' = Stored \cup {m} /\ Stored' \subseteq Mem /\ rows' \in [Stored' -> Rows]
<1>1. rows \in [Stored -> Rows] /\ Stored \subseteq Mem
  BY DEF TypeOK
<1>2. rows' = [n \in Stored \cup {m} |-> IF n \in Stored THEN rows[n] ELSE Row(n)]
  BY DEF Add
<1>3. \A n \in Mem : Row(n) \in Rows
  BY DEF TypeOK, Row, Rows
<1>4. Stored' = Stored \cup {m}
  BY <1>2 DEF Stored
<1>5. QED  BY <1>1, <1>2, <1>3, <1>4

\* A history entry per memory, those of some memories set to one fate.
LEMMA FateSet ==
    ASSUME TypeOK, NEW ms, NEW f \in Fates, Fate(ms, f)
    PROVE  /\ fate' \in [Mem -> Fates]
           /\ \A n \in Mem : fate'[n] = IF n \in ms THEN f ELSE fate[n]
BY DEF TypeOK, Fate

-----------------------------------------------------------------------------
(* Every action keeps the invariant.  First what several of them need.       *)

\* The idle records of the two tasks, which hold no memory.
LEMMA IdleTasks ==
    /\ NoArchive \in [at : {"idle", "judge"}, chat : Chats, left : Seq(Mem), keep : Seq(Mem),
                      upgraded : BOOLEAN]
    /\ NoPromote \in [at : {"idle", "next", "add", "rank"}, left : Seq(Mem),
                      was : {"working", "episodic"}, copy : Rows]
    /\ NoArchive.left = <<>> /\ NoArchive.keep = <<>> /\ NoPromote.left = <<>> /\ NoPromote.at = "idle"
    /\ Range(<<>>) = {} /\ <<>> \in Seq(Mem) /\ Len(<<>>) = 0
<1>1. (CHOOSE s \in Chats : TRUE) \in Chats
  BY LifecycleAssumption
<1>2. Range(<<>>) = {} /\ <<>> \in Seq(Mem) /\ Len(<<>>) = 0
  BY EmptySeq DEF Range
<1>3. QED  BY <1>1, <1>2 DEF NoArchive, NoPromote, Rows

\* While the first manager's cache only loses memories, the rest stay at home.
LEMMA HomeKept ==
    ASSUME HomeInv, \A s \in Chats : Range(working'[s]) \subseteq Range(working[s])
    PROVE  HomeInv'
BY DEF HomeInv

\* A step after which no live memory is in fewer places vanishes none.
LEMMA NothingLost ==
    ASSUME NothingVanishes, clearing' = clearing,
           \A n \in Mem : fate'[n] = "live" =>
             /\ fate[n] = "live"
             /\ n \in Stored \/ InCache(working, n) \/ InCache(apart, n) =>
                  n \in Stored' \/ InCache(working', n) \/ InCache(apart', n)
    PROVE  NothingVanishes'
BY DEF NothingVanishes, InCache

\* A step that takes no memory into new hands and clears none returns none.
LEMMA NoneReturns ==
    ASSUME HeldInv, inFlight \subseteq inFlight',
           \A n \in Mem : fate'[n] = "forgotten" =>
             /\ fate[n] = "forgotten"
             /\ n \in Stored' \/ n \in Held' \/ InCache(working', n) =>
                  n \in Stored \/ n \in Held \/ InCache(working, n)
    PROVE  HeldInv'
BY DEF HeldInv, InCache

\* Activation, deactivation and dropping an entry leave every memory alone.
LEMMA SessionStepKeeps ==
    ASSUME IInv, UNCHANGED <<memory, tasks, fate, inFlight>>,
           state' \in [Chats -> {"none", "active", "inactive", "closed", "archived"}],
           dated' \subseteq Chats
    PROVE  IInv'
BY DEF IInv, TypeOK, BusyInv, HomeInv, NothingVanishes, HeldInv, memory, tasks, Stored, InCache, Held

-----------------------------------------------------------------------------
(* The user's steps.                                                         *)

\* A captured memory joins the cache in use and may push out an older one.
LEMMA CaptureKeeps ==
    ASSUME IInv, NEW m \in Mem, Capture(m)
    PROVE  IInv'
<1> USE DEF IInv
<1> DEFINE out == Oldest(IF split THEN apart ELSE working, m)
<1>1. /\ working \in Cache /\ apart \in Cache /\ fate \in [Mem -> Fates] /\ fate[m] = "unborn"
      /\ UNCHANGED <<split, layer, review, rows, state, dated, archive, promote, clearing, inFlight>>
      /\ fate' = [n \in Mem |-> IF n = m THEN "live" ELSE IF n \in out THEN "overflowed" ELSE fate[n]]
  BY DEF TypeOK, Capture, session, tasks
<1>2. IF split THEN apart' = Pushed(apart, m) /\ working' = working
               ELSE working' = Pushed(working, m) /\ apart' = apart
  BY DEF Capture
<1>3. /\ working' \in Cache /\ apart' \in Cache
      /\ \A s \in Chats : \A n \in Range(working'[s]) : n \in Range(working[s]) \/ (n = m /\ s = Home[m])
      /\ InCache(working', m) \/ InCache(apart', m)
      /\ \A n \in Mem : InCache(working, n) \/ InCache(apart, n) =>
                          InCache(working', n) \/ InCache(apart', n) \/ n \in out
  <2>1. CASE split
    <3>1. apart' = Pushed(apart, m) /\ working' = working /\ out = Oldest(apart, m)
      BY <1>2, <2>1
    <3>2. /\ apart' \in Cache /\ InCache(apart', m)
          /\ \A s \in Chats : \A n \in Range(apart'[s]) : n \in Range(apart[s]) \/ (n = m /\ s = Home[m])
          /\ \A n \in Mem : InCache(apart, n) => InCache(apart', n) \/ n \in Oldest(apart, m)
      BY <1>1, <3>1, PushedHolds
    <3>3. QED  BY <1>1, <3>1, <3>2
  <2>2. CASE ~split
    <3>1. working' = Pushed(working, m) /\ apart' = apart /\ out = Oldest(working, m)
      BY <1>2, <2>2
    <3>2. /\ working' \in Cache /\ InCache(working', m)
          /\ \A s \in Chats : \A n \in Range(working'[s]) : n \in Range(working[s]) \/ (n = m /\ s = Home[m])
          /\ \A n \in Mem : InCache(working, n) => InCache(working', n) \/ n \in Oldest(working, m)
      BY <1>1, <3>1, PushedHolds
    <3>3. QED  BY <1>1, <3>1, <3>2
  <2>3. QED  BY <2>1, <2>2
<1> HIDE DEF out
<1>4. fate' \in [Mem -> Fates] /\ Stored' = Stored /\ Held' = Held
  BY <1>1 DEF Fates, Stored, Held
<1>5. TypeOK'
  BY <1>1, <1>3, <1>4 DEF TypeOK
<1>6. BusyInv'
  BY <1>1 DEF BusyInv
<1>7. HomeInv'
  BY <1>3 DEF HomeInv
<1>8. NothingVanishes'
  BY <1>1, <1>3, <1>4 DEF NothingVanishes, InCache
<1>9. HeldInv'
  <2>1. \A n \in Mem : Home[n] \in Chats
    BY LifecycleAssumption
  <2>2. \A n \in Mem : InCache(working', n) => InCache(working, n) \/ n = m
    BY <1>3, <2>1 DEF InCache
  <2>3. \A n \in Mem : fate'[n] = "forgotten" => fate[n] = "forgotten" /\ n # m
    BY <1>1
  <2>4. QED  BY <1>1, <1>4, <2>2, <2>3, NoneReturns
<1>10. QED  BY <1>5, <1>6, <1>7, <1>8, <1>9

\* The clear command's first half takes the rows of its memories only.
LEMMA ClearRowsKeeps ==
    ASSUME IInv, NEW s \in Chats, ClearRows(s)
    PROVE  IInv'
<1> USE DEF IInv
<1>1. /\ clearing = {} /\ clearing' = {m \in Mem : Home[m] = s /\ fate[m] # "unborn"}
      /\ rows' = Drop(clearing') /\ inFlight' = inFlight \cup (clearing' \cap Held)
      /\ UNCHANGED <<working, apart, split, layer, review, state, dated, archive, promote, fate>>
  BY DEF ClearRows, session
<1>2. Stored' = Stored \ clearing' /\ Stored' \subseteq Mem /\ rows' \in [Stored' -> Rows]
  BY <1>1, DropHolds
<1>3. Held' = Held /\ working' = working
  BY <1>1 DEF Held
<1>4. TypeOK'
  BY <1>1, <1>2 DEF TypeOK
<1>5. BusyInv' /\ HomeInv'
  BY <1>1 DEF BusyInv, HomeInv
<1>6. NothingVanishes'
  BY <1>1, <1>2 DEF NothingVanishes, InCache
<1>7. HeldInv'
  BY <1>1, <1>2, <1>3, NoneReturns
<1>8. QED  BY <1>4, <1>5, <1>6, <1>7

\* Its second half empties the cache in use; what is held elsewhere is in flight.
LEMMA ClearWorkingKeeps ==
    ASSUME IInv, ClearWorking
    PROVE  IInv'
<1> USE DEF IInv
<1> DEFINE cache == IF split THEN apart ELSE working
           gone == clearing \cup {m \in Mem : InCache(cache, m) /\ \E n \in clearing : Home[n] = Home[m]}
<1>1. /\ working \in Cache /\ apart \in Cache /\ clearing \subseteq Mem /\ gone \subseteq Mem
      /\ Fate(gone, "forgotten") /\ clearing' = {}
      /\ inFlight' = inFlight \cup (gone \cap (Held \cup Stored)) \cup {m \in gone : split /\ InCache(working, m)}
      /\ UNCHANGED <<split, layer, review, rows, state, dated, archive, promote>>
  BY DEF ClearWorking, TypeOK, session
<1>2. IF split THEN apart' = Emptied(apart, clearing) /\ working' = working
               ELSE working' = Emptied(working, clearing) /\ apart' = apart
  BY DEF ClearWorking
<1>3. /\ fate' \in [Mem -> Fates] /\ \A n \in Mem : fate'[n] = IF n \in gone THEN "forgotten" ELSE fate[n]
  BY <1>1, FateSet DEF Fates
<1>4. /\ working' \in Cache /\ apart' \in Cache
      /\ \A s \in Chats : Range(working'[s]) \subseteq Range(working[s])
      /\ \A n \in Mem : InCache(working', n) => InCache(working, n)
      /\ \A n \in Mem \ gone : /\ InCache(working, n) => InCache(working', n)
                               /\ InCache(apart, n) => InCache(apart', n)
      /\ \A n \in gone : InCache(working', n) => split
  <2>1. CASE split
    <3>1. \A n \in Mem : InCache(apart', n) <=> InCache(apart, n) /\ ~\E k \in clearing : Home[k] = Home[n]
      BY <1>1, <1>2, <2>1, EmptiedHolds
    <3>2. apart' \in Cache
      BY <1>1, <1>2, <2>1, EmptiedHolds
    <3>3. working' = working /\ cache = apart
      BY <1>2, <2>1
    <3>4. QED  BY <1>1, <2>1, <3>1, <3>2, <3>3
  <2>2. CASE ~split
    <3>1. \A n \in Mem : InCache(working', n) <=> InCache(working, n) /\ ~\E k \in clearing : Home[k] = Home[n]
      BY <1>1, <1>2, <2>2, EmptiedHolds
    <3>2. working' \in Cache /\ \A s \in Chats : Range(working'[s]) \subseteq Range(working[s])
      BY <1>1, <1>2, <2>2, EmptiedHolds
    <3>3. apart' = apart /\ cache = working
      BY <1>2, <2>2
    <3>4. QED  BY <1>1, <2>2, <3>1, <3>2, <3>3
  <2>3. QED  BY <2>1, <2>2
<1>5. clearing \subseteq gone
  OBVIOUS
<1> HIDE DEF gone
<1>6. Stored' = Stored /\ Held' = Held
  BY <1>1 DEF Stored, Held
<1>7. TypeOK'
  BY <1>1, <1>3, <1>4, <1>6 DEF TypeOK
<1>8. BusyInv' /\ HomeInv'
  BY <1>1, <1>4, HomeKept DEF BusyInv
<1>9. NothingVanishes'
  <2>1. \A n \in Mem : fate'[n] = "live" => n \notin gone /\ n \notin clearing /\ fate[n] = "live"
    BY <1>3, <1>5
  <2>2. QED  BY <1>1, <1>4, <1>6, <2>1 DEF NothingVanishes, InCache
<1>10. HeldInv'
  <2> SUFFICES ASSUME NEW n \in Mem, fate'[n] = "forgotten",
                      n \in Stored' \/ n \in Held' \/ InCache(working', n)
               PROVE  n \in inFlight'
    BY DEF HeldInv, InCache
  <2>1. n \in Stored \/ n \in Held \/ InCache(working, n)
    BY <1>4, <1>6
  <2>2. CASE n \in gone  BY <1>1, <1>4, <1>6, <2>1, <2>2
  <2>3. CASE n \notin gone  BY <1>1, <1>3, <2>1, <2>3 DEF HeldInv
  <2>4. QED  BY <2>2, <2>3
<1>11. QED  BY <1>7, <1>8, <1>9, <1>10

\* Deleting everything: what a task holds or the first manager caches is in flight.
LEMMA DeleteAllKeeps ==
    ASSUME IInv, DeleteAll
    PROVE  IInv'
<1> USE DEF IInv
<1> DEFINE gone == {m \in Mem : fate[m] # "unborn"}
<1>1. /\ clearing = {} /\ rows' = Drop(Mem) /\ split' = TRUE /\ Fate(gone, "forgotten")
      /\ inFlight' = inFlight \cup {m \in gone : m \in Held \/ InCache(working, m)}
      /\ UNCHANGED <<working, apart, layer, review, state, dated, archive, promote, clearing>>
  BY DEF DeleteAll, session, tasks
<1>2. Stored' = {} /\ rows' \in [Stored' -> Rows]
  BY <1>1, DropHolds DEF TypeOK
<1>3. /\ fate' \in [Mem -> Fates] /\ \A n \in Mem : fate'[n] = IF n \in gone THEN "forgotten" ELSE fate[n]
  BY <1>1, FateSet DEF Fates
<1>4. Held' = Held
  BY <1>1 DEF Held
<1>5. TypeOK'
  <2>1. inFlight' \subseteq Mem
    BY <1>1 DEF TypeOK
  <2>2. QED  BY <1>1, <1>2, <1>3, <2>1 DEF TypeOK
<1>6. BusyInv' /\ HomeInv'
  BY <1>1 DEF BusyInv, HomeInv
<1>7. NothingVanishes'
  <2>1. \A n \in Mem : fate'[n] # "live"
    BY <1>3
  <2>2. QED  BY <2>1 DEF NothingVanishes
<1>8. HeldInv'
  <2>1. \A n \in Mem : fate'[n] = "forgotten" => n \in gone
    BY <1>3 DEF TypeOK
  <2>2. QED  BY <1>1, <1>2, <1>4, <2>1 DEF HeldInv, InCache
<1>9. QED  BY <1>5, <1>6, <1>7, <1>8

-----------------------------------------------------------------------------
(* Promotion.                                                                *)

\* Promotion takes up memories of the first manager's cache only.
LEMMA PromoteStartKeeps ==
    ASSUME IInv, PromoteStart
    PROVE  IInv'
<1> USE DEF IInv
<1>1. PICK ms \in SUBSET {m \in Mem : InCache(working, m) /\ layer[m] = "working"} :
        /\ IsFiniteSet(ms)
        /\ \E queue \in SetToSeqs(ms) : promote' = [NoPromote EXCEPT !.at = "next", !.left = queue]
  BY DEF PromoteStart
<1>2. PICK queue \in SetToSeqs(ms) : promote' = [NoPromote EXCEPT !.at = "next", !.left = queue]
  BY <1>1
<1>3. queue \in Seq(Mem) /\ Range(queue) \subseteq ms
  BY <1>1, OrderHolds
<1>4. /\ promote' \in [at : {"idle", "next", "add", "rank"}, left : Seq(Mem),
                       was : {"working", "episodic"}, copy : Rows]
      /\ promote'.at = "next" /\ promote'.left = queue
  BY <1>2, <1>3, IdleTasks DEF NoPromote, Rows
<1>5. UNCHANGED <<memory, session, archive, clearing, fate, inFlight>>
  BY DEF PromoteStart
<1>6. Stored' = Stored /\ Held' \subseteq Held \cup ms /\ \A m \in ms : InCache(working, m)
  BY <1>3, <1>4, <1>5 DEF Stored, Held, memory
<1>7. TypeOK'
  BY <1>4, <1>5, <1>6 DEF TypeOK, memory, session
<1>8. BusyInv' /\ HomeInv'
  BY <1>4, <1>5 DEF BusyInv, HomeInv, memory
<1>9. NothingVanishes'
  BY <1>5, <1>6 DEF NothingVanishes, InCache, memory
<1>10. HeldInv'
  BY <1>5, <1>6, NoneReturns DEF memory
<1>11. QED  BY <1>7, <1>8, <1>9, <1>10

\* The next memory is set to the episodic layer before its add.
LEMMA PromoteNextKeeps ==
    ASSUME IInv, PromoteNext
    PROVE  IInv'
<1> USE DEF IInv
<1>1. UNCHANGED <<working, apart, split, review, rows, state, dated, archive, clearing, fate, inFlight>>
  BY DEF PromoteNext, session
<1>2. /\ promote' \in [at : {"idle", "next", "add", "rank"}, left : Seq(Mem),
                       was : {"working", "episodic"}, copy : Rows]
      /\ layer' \in [Mem -> {"working", "episodic"}]
      /\ Range(promote'.left) \subseteq Range(promote.left)
      /\ promote'.at \in {"add", "rank"} => promote'.left # <<>>
  <2>1. CASE promote.left = <<>>
    <3>1. promote' = NoPromote /\ layer' = layer
      BY <2>1 DEF PromoteNext
    <3>2. QED  BY <3>1, IdleTasks DEF TypeOK
  <2>2. CASE promote.left # <<>>
    <3> DEFINE m == Head(promote.left)
    <3>1. layer' = [layer EXCEPT ![m] = "episodic"] /\ promote' = [promote EXCEPT !.at = "add", !.was = layer[m]]
      BY <2>2 DEF PromoteNext
    <3>2. m \in Mem
      BY <2>2, TailHolds DEF TypeOK
    <3> HIDE DEF m
    <3>3. layer[m] \in {"working", "episodic"}
      BY <3>2 DEF TypeOK
    <3>4. promote'.left = promote.left
      BY <3>1 DEF TypeOK
    <3>5. QED  BY <2>2, <3>1, <3>2, <3>3, <3>4 DEF TypeOK
  <2>3. QED  BY <2>1, <2>2
<1>3. Stored' = Stored /\ Held' \subseteq Held
  BY <1>1, <1>2 DEF Stored, Held
<1>4. TypeOK'
  BY <1>1, <1>2, <1>3 DEF TypeOK
<1>5. BusyInv' /\ HomeInv'
  BY <1>1, <1>2 DEF BusyInv, HomeInv
<1>6. NothingVanishes'
  BY <1>1, <1>3 DEF NothingVanishes, InCache
<1>7. HeldInv'
  BY <1>1, <1>3, NoneReturns
<1>8. QED  BY <1>4, <1>5, <1>6, <1>7

\* An added memory is stored before it leaves the working memory; one whose add
\* failed stays there.
LEMMA PromoteAddedKeeps ==
    ASSUME IInv, NEW accepted \in BOOLEAN, PromoteAdded(accepted)
    PROVE  IInv'
<1> USE DEF IInv
<1> DEFINE m == Head(promote.left)
<1>1. /\ rows' = IF accepted THEN Add(m) ELSE rows
      /\ layer' = IF accepted THEN layer ELSE [layer EXCEPT ![m] = promote.was]
      /\ working' = IF accepted THEN [working EXCEPT ![Home[m]] = Without(@, m)] ELSE working
      /\ promote' = [promote EXCEPT !.at = "next", !.left = Tail(@)]
      /\ UNCHANGED <<apart, split, review, state, dated, archive, clearing, fate, inFlight>>
  BY DEF PromoteAdded, PromotedFrom, session
<1>2. /\ m \in Mem /\ m \in Range(promote.left) /\ Tail(promote.left) \in Seq(Mem)
      /\ Range(Tail(promote.left)) \subseteq Range(promote.left)
  BY TailHolds DEF PromoteAdded, TypeOK, BusyInv
<1> HIDE DEF m
<1>3. promote' \in [at : {"idle", "next", "add", "rank"}, left : Seq(Mem),
                    was : {"working", "episodic"}, copy : Rows]
      /\ promote'.at = "next" /\ promote'.left = Tail(promote.left)
  BY <1>1, <1>2 DEF TypeOK
<1>4. /\ Stored \subseteq Stored' /\ Stored' \subseteq Stored \cup (IF accepted THEN {m} ELSE {})
      /\ accepted => m \in Stored'
      /\ Stored' \subseteq Mem /\ rows' \in [Stored' -> Rows]
  <2>1. CASE accepted  BY <1>1, <1>2, <2>1, AddHolds
  <2>2. CASE ~accepted  BY <1>1, <2>2 DEF TypeOK, Stored
  <2>3. QED  BY <2>1, <2>2
<1>5. layer' \in [Mem -> {"working", "episodic"}]
  BY <1>1, <1>2 DEF TypeOK
<1>6. /\ working' \in Cache
      /\ \A s \in Chats : Range(working'[s]) \subseteq Range(working[s])
      /\ \A n \in Mem : InCache(working', n) => InCache(working, n)
      /\ \A n \in Mem : InCache(working, n) => InCache(working', n) \/ (accepted /\ n = m)
  <2>0. working \in Cache
    BY DEF TypeOK
  <2>1. CASE accepted
    <3>1. \A d : d = [working EXCEPT ![Home[m]] = Without(@, m)] =>
                 /\ d \in Cache
                 /\ \A s \in Chats : Range(d[s]) \subseteq Range(working[s])
                 /\ \A n \in Mem : InCache(d, n) => InCache(working, n)
                 /\ \A n \in Mem \ {m} : InCache(working, n) => InCache(d, n)
      BY <1>2, <2>0, RemovedHolds
    <3>2. working' = [working EXCEPT ![Home[m]] = Without(@, m)]
      BY <1>1, <2>1
    <3>3. QED  BY <2>1, <3>1, <3>2
  <2>2. CASE ~accepted
    <3>1. working' = working
      BY <1>1, <2>2
    <3>2. QED  BY <2>0, <3>1
  <2>3. QED  BY <2>1, <2>2
<1>7. Held' \subseteq Held /\ m \in Held
  BY <1>1, <1>2, <1>3 DEF Held
<1>8. TypeOK'
  BY <1>1, <1>3, <1>4, <1>5, <1>6 DEF TypeOK
<1>9. BusyInv' /\ HomeInv'
  BY <1>3, <1>6, HomeKept DEF BusyInv
<1>10. NothingVanishes'
  BY <1>1, <1>4, <1>6, NothingLost
<1>11. HeldInv'
  BY <1>1, <1>4, <1>6, <1>7, NoneReturns
<1>12. QED  BY <1>8, <1>9, <1>10, <1>11

\* A stored row is read to be ranked.
LEMMA RankKeeps ==
    ASSUME IInv, NEW m \in Mem, Rank(m)
    PROVE  IInv'
<1> USE DEF IInv
<1>1. /\ m \in Stored /\ promote' = [NoPromote EXCEPT !.at = "rank", !.left = <<m>>, !.copy = rows[m]]
      /\ UNCHANGED <<memory, session, archive, clearing, fate, inFlight>>
  BY DEF Rank
<1>2. <<m>> \in Seq(Mem) /\ <<m>> # <<>> /\ Range(<<m>>) = {m} /\ rows[m] \in Rows
  <2>1. <<m>> = Append(<<>>, m)
    OBVIOUS
  <2>2. /\ Append(<<>>, m) \in Seq(Mem) /\ Len(Append(<<>>, m)) = Len(<<>>) + 1
        /\ Range(Append(<<>>, m)) = Range(<<>>) \cup {m}
    <3>1. \A t \in Seq(Mem) : /\ Append(t, m) \in Seq(Mem) /\ Len(Append(t, m)) = Len(t) + 1
                              /\ Range(Append(t, m)) = Range(t) \cup {m}
      BY AppendHolds
    <3>2. QED  BY <3>1, IdleTasks
  <2>3. <<m>> # <<>>
    BY <2>1, <2>2, IdleTasks
  <2>4. QED  BY <1>1, <2>1, <2>2, <2>3, IdleTasks DEF TypeOK
<1>3. /\ promote' \in [at : {"idle", "next", "add", "rank"}, left : Seq(Mem),
                       was : {"working", "episodic"}, copy : Rows]
      /\ promote'.left = <<m>>
  BY <1>1, <1>2, IdleTasks DEF NoPromote
<1>4. Stored' = Stored /\ Held' \subseteq Held \cup Stored
  BY <1>1, <1>2, <1>3 DEF Stored, Held, memory
<1>5. TypeOK'
  BY <1>1, <1>3, <1>4 DEF TypeOK, memory, session
<1>6. BusyInv' /\ HomeInv'
  BY <1>1, <1>2, <1>3 DEF BusyInv, HomeInv, memory
<1>7. NothingVanishes'
  BY <1>1, <1>4 DEF NothingVanishes, InCache, memory
<1>8. HeldInv'
  BY <1>1, <1>4, NoneReturns DEF memory
<1>9. QED  BY <1>5, <1>6, <1>7, <1>8

\* A ranked row is written back only where it still is.
LEMMA RankWrittenKeeps ==
    ASSUME IInv, RankWritten
    PROVE  IInv'
<1> USE DEF IInv
<1> DEFINE m == Head(promote.left)
           other == IF promote.copy.layer = "semantic" THEN "episodic" ELSE "semantic"
<1>1. /\ rows' = IF m \in Stored THEN [rows EXCEPT ![m] = [promote.copy EXCEPT !.layer = other]] ELSE rows
      /\ promote' = NoPromote
      /\ UNCHANGED <<working, apart, split, layer, review, state, dated, archive, clearing, fate, inFlight>>
  BY DEF RankWritten, session
<1>2. [promote.copy EXCEPT !.layer = other] \in Rows
  BY DEF TypeOK, Rows
<1>3. Stored' = Stored /\ rows' \in [Stored' -> Rows]
  BY <1>1, <1>2 DEF TypeOK, Stored
<1>4. Held' \subseteq Held
  BY <1>1, IdleTasks DEF Held
<1>5. TypeOK'
  BY <1>1, <1>3, IdleTasks DEF TypeOK
<1>6. BusyInv' /\ HomeInv'
  BY <1>1, IdleTasks DEF BusyInv, HomeInv
<1>7. NothingVanishes'
  BY <1>1, <1>3 DEF NothingVanishes, InCache
<1>8. HeldInv'
  BY <1>1, <1>3, <1>4, NoneReturns
<1>9. QED  BY <1>5, <1>6, <1>7, <1>8

-----------------------------------------------------------------------------
(* The cleanup loop.                                                         *)

\* The archive takes up a session's working memory.
LEMMA ArchiveStartKeeps ==
    ASSUME IInv, NEW s \in Chats, ArchiveStart(s)
    PROVE  IInv'
<1> USE DEF IInv
<1>1. CASE working[s] = <<>>
  <2>1. state' = [state EXCEPT ![s] = "closed"] /\ UNCHANGED <<archive, memory, dated, promote, clearing, fate, inFlight>>
    BY <1>1 DEF ArchiveStart
  <2>2. QED  BY <2>1, SessionStepKeeps DEF TypeOK, tasks
<1>2. CASE working[s] # <<>>
  <2>1. /\ archive' = [NoArchive EXCEPT !.at = "judge", !.chat = s, !.left = working[s]]
        /\ UNCHANGED <<state, memory, dated, promote, clearing, fate, inFlight>>
    BY <1>2 DEF ArchiveStart
  <2>2. working[s] \in Seq(Mem)
    BY DEF TypeOK, Cache
  <2>3. /\ archive' \in [at : {"idle", "judge"}, chat : Chats, left : Seq(Mem), keep : Seq(Mem),
                         upgraded : BOOLEAN]
        /\ archive'.left = working[s] /\ archive'.keep = <<>>
    BY <2>1, <2>2, IdleTasks DEF NoArchive
  <2>4. \A n \in Range(working[s]) : InCache(working, n)
    BY DEF HomeInv, InCache
  <2>5. Stored' = Stored /\ Held' \subseteq Held \cup Range(working[s])
    BY <2>1, <2>3, IdleTasks DEF Stored, Held, memory
  <2>6. TypeOK'
    BY <2>1, <2>3, <2>5 DEF TypeOK, memory
  <2>7. BusyInv' /\ HomeInv'
    BY <2>1 DEF BusyInv, HomeInv, memory
  <2>8. NothingVanishes'
    BY <2>1, <2>5 DEF NothingVanishes, InCache, memory
  <2>9. HeldInv'
    BY <2>1, <2>4, <2>5, NoneReturns DEF memory
  <2>10. QED  BY <2>6, <2>7, <2>8, <2>9
<1>3. QED  BY <1>1, <1>2

\* A judged memory moves from one list of the archive to the other, or is discarded.
LEMMA JudgeKeeps ==
    ASSUME IInv, NEW verdict \in {"upgraded", "grace", "discarded"}, Judge(verdict)
    PROVE  IInv'
<1> USE DEF IInv
<1> DEFINE m == Head(archive.left)
           kept == verdict \in {"upgraded", "grace"}
           keep2 == IF kept THEN Append(archive.keep, m) ELSE archive.keep
<1>1. /\ archive' = [archive EXCEPT !.left = Tail(@), !.keep = keep2,
                          !.upgraded = @ \/ verdict = "upgraded"]
      /\ layer' = IF kept THEN [layer EXCEPT ![m] = "episodic"] ELSE layer
      /\ review' = IF verdict = "grace" THEN [review EXCEPT ![m] = TRUE] ELSE review
      /\ rows' = IF verdict = "grace" /\ m \in Stored
                 THEN [rows EXCEPT ![m] = [layer |-> layer[m], review |-> TRUE]] ELSE rows
      /\ IF kept THEN fate' = fate ELSE Fate({m}, IF fate[m] = "live" THEN "discarded" ELSE fate[m])
      /\ UNCHANGED <<working, apart, split, state, dated, promote, clearing, inFlight>>
  BY DEF Judge, session
<1>2. /\ m \in Mem /\ m \in Range(archive.left) /\ Tail(archive.left) \in Seq(Mem)
      /\ Range(Tail(archive.left)) \subseteq Range(archive.left)
  BY TailHolds DEF Judge, TypeOK
<1>3. keep2 \in Seq(Mem) /\ Range(keep2) \subseteq Range(archive.keep) \cup {m}
  <2>1. archive.keep \in Seq(Mem)
    BY DEF TypeOK
  <2>2. /\ Append(archive.keep, m) \in Seq(Mem)
        /\ Range(Append(archive.keep, m)) = Range(archive.keep) \cup {m}
    BY <1>2, <2>1, AppendHolds
  <2>3. QED  BY <2>1, <2>2
<1> HIDE DEF m, keep2
<1>4. /\ archive' \in [at : {"idle", "judge"}, chat : Chats, left : Seq(Mem), keep : Seq(Mem),
                       upgraded : BOOLEAN]
      /\ archive'.left = Tail(archive.left) /\ archive'.keep = keep2
  BY <1>1, <1>2, <1>3 DEF TypeOK
<1>5. layer' \in [Mem -> {"working", "episodic"}] /\ review' \in [Mem -> BOOLEAN]
  BY <1>1, <1>2 DEF TypeOK
<1>6. Stored' = Stored /\ rows' \in [Stored' -> Rows]
  BY <1>1, <1>2 DEF TypeOK, Stored, Rows
<1>7. /\ fate' \in [Mem -> Fates]
      /\ \A n \in Mem : fate'[n] \in {"live", "forgotten"} => fate'[n] = fate[n]
  <2>1. CASE kept  BY <1>1, <2>1 DEF TypeOK
  <2>2. CASE ~kept
    <3> DEFINE f == IF fate[m] = "live" THEN "discarded" ELSE fate[m]
    <3>1. f \in Fates /\ Fate({m}, f)
      BY <1>1, <1>2, <2>2 DEF TypeOK, Fates
    <3>2. f \notin {"live"} /\ (f = "forgotten" => fate[m] = "forgotten")
      OBVIOUS
    <3> HIDE DEF f
    <3>3. fate' \in [Mem -> Fates] /\ \A n \in Mem : fate'[n] = IF n \in {m} THEN f ELSE fate[n]
      BY <3>1, FateSet
    <3>4. QED  BY <3>2, <3>3
  <2>3. QED  BY <2>1, <2>2
<1>8. Held' \subseteq Held
  BY <1>1, <1>2, <1>3, <1>4 DEF Held
<1>9. TypeOK'
  BY <1>1, <1>4, <1>5, <1>6, <1>7 DEF TypeOK
<1>10. BusyInv' /\ HomeInv'
  BY <1>1 DEF BusyInv, HomeInv
<1>11. NothingVanishes'
  BY <1>1, <1>6, <1>7 DEF NothingVanishes, InCache
<1>12. HeldInv'
  BY <1>1, <1>6, <1>7, <1>8, NoneReturns
<1>13. QED  BY <1>9, <1>10, <1>11, <1>12

\* A kept memory is stored, or its add failed.
LEMMA ArchiveAddKeeps ==
    ASSUME IInv, NEW accepted \in BOOLEAN, ArchiveAdd(accepted)
    PROVE  IInv'
<1> USE DEF IInv
<1> DEFINE m == Head(archive.keep)
<1>1. /\ rows' = IF accepted THEN Add(m) ELSE rows
      /\ IF accepted \/ fate[m] # "live" THEN fate' = fate ELSE Fate({m}, "failed")
      /\ archive' = [archive EXCEPT !.keep = Tail(@)]
      /\ UNCHANGED <<working, apart, split, layer, review, state, dated, promote, clearing, inFlight>>
  BY DEF ArchiveAdd, session
<1>2. /\ m \in Mem /\ m \in Range(archive.keep) /\ Tail(archive.keep) \in Seq(Mem)
      /\ Range(Tail(archive.keep)) \subseteq Range(archive.keep)
  BY TailHolds DEF ArchiveAdd, TypeOK
<1> HIDE DEF m
<1>3. /\ archive' \in [at : {"idle", "judge"}, chat : Chats, left : Seq(Mem), keep : Seq(Mem),
                       upgraded : BOOLEAN]
      /\ archive'.left = archive.left /\ archive'.keep = Tail(archive.keep)
  BY <1>1, <1>2 DEF TypeOK
<1>4. /\ Stored \subseteq Stored' /\ Stored' \subseteq Stored \cup {m}
      /\ Stored' \subseteq Mem /\ rows' \in [Stored' -> Rows]
  <2>1. CASE accepted  BY <1>1, <1>2, <2>1, AddHolds
  <2>2. CASE ~accepted  BY <1>1, <2>2 DEF TypeOK, Stored
  <2>3. QED  BY <2>1, <2>2
<1>5. /\ fate' \in [Mem -> Fates]
      /\ \A n \in Mem : fate'[n] \in {"live", "forgotten"} => fate'[n] = fate[n]
  <2>1. CASE fate' = fate  BY <2>1 DEF TypeOK
  <2>2. CASE Fate({m}, "failed")
    <3>1. fate' \in [Mem -> Fates] /\ \A n \in Mem : fate'[n] = IF n \in {m} THEN "failed" ELSE fate[n]
      BY <2>2, FateSet DEF Fates
    <3>2. QED  BY <3>1
  <2>3. QED  BY <1>1, <2>1, <2>2
<1>6. Held' \subseteq Held /\ m \in Held
  BY <1>1, <1>2, <1>3 DEF Held
<1>7. TypeOK'
  BY <1>1, <1>3, <1>4, <1>5 DEF TypeOK
<1>8. BusyInv' /\ HomeInv'
  BY <1>1 DEF BusyInv, HomeInv
<1>9. NothingVanishes'
  BY <1>1, <1>4, <1>5, NothingLost
<1>10. HeldInv'
  BY <1>1, <1>4, <1>5, <1>6, NoneReturns
<1>11. QED  BY <1>7, <1>8, <1>9, <1>10

\* The session's working memory goes; what came too late to be judged goes with it.
LEMMA ArchiveEndsKeeps ==
    ASSUME IInv, ArchiveEnds
    PROVE  IInv'
<1> USE DEF IInv
<1> DEFINE late == {m \in Mem : InCache(working, m) /\ Home[m] = archive.chat /\ fate[m] = "live" /\ m \notin Stored}
<1>1. /\ Fate(late, "late") /\ archive' = NoArchive
      /\ working' = [working EXCEPT ![archive.chat] = <<>>]
      /\ state' = [state EXCEPT ![archive.chat] = IF archive.upgraded THEN "archived" ELSE "closed"]
      /\ UNCHANGED <<apart, split, layer, review, rows, dated, promote, clearing, inFlight>>
  BY DEF ArchiveEnds
<1>2. archive.chat \in Chats /\ working \in Cache
  BY DEF TypeOK
<1>3. /\ working' \in Cache
      /\ \A t \in Chats : Range(working'[t]) \subseteq Range(working[t])
      /\ \A n \in Mem : InCache(working', n) => InCache(working, n)
      /\ \A n \in Mem : InCache(working, n) => InCache(working', n) \/ Home[n] = archive.chat
  <2>1. \A d : d = [working EXCEPT ![archive.chat] = <<>>] =>
               /\ d \in Cache
               /\ \A t \in Chats : Range(d[t]) \subseteq Range(working[t])
               /\ \A n \in Mem : InCache(d, n) => InCache(working, n)
               /\ \A n \in Mem : InCache(working, n) => InCache(d, n) \/ Home[n] = archive.chat
    BY <1>2, ClosedHolds
  <2>2. working' = [working EXCEPT ![archive.chat] = <<>>]
    BY <1>1
  <2>3. QED  BY <2>1, <2>2
<1>4. fate' \in [Mem -> Fates] /\ \A n \in Mem : fate'[n] = IF n \in late THEN "late" ELSE fate[n]
  BY <1>1, FateSet DEF Fates
<1>5. Stored' = Stored /\ Held' \subseteq Held
  BY <1>1, IdleTasks DEF Stored, Held
<1>6. state' \in [Chats -> {"none", "active", "inactive", "closed", "archived"}]
  BY <1>1 DEF TypeOK
<1>7. TypeOK'
  BY <1>1, <1>3, <1>4, <1>5, <1>6, IdleTasks DEF TypeOK
<1>8. BusyInv' /\ HomeInv'
  BY <1>1, <1>3, HomeKept DEF BusyInv
<1>9. NothingVanishes'
  <2>1. ASSUME NEW n \in Mem, fate'[n] = "live"
        PROVE  /\ fate[n] = "live"
               /\ n \in Stored \/ InCache(working, n) \/ InCache(apart, n) =>
                    n \in Stored' \/ InCache(working', n) \/ InCache(apart', n)
    BY <1>1, <1>3, <1>4, <1>5, <2>1
  <2>2. QED  BY <1>1, <2>1, NothingLost
<1>10. HeldInv'
  <2>1. \A n \in Mem : fate'[n] = "forgotten" => fate[n] = "forgotten"
    BY <1>4
  <2>2. QED  BY <1>1, <1>3, <1>5, <2>1, NoneReturns
<1>11. QED  BY <1>7, <1>8, <1>9, <1>10

-----------------------------------------------------------------------------
(* The theorems.                                                             *)

LEMMA InitHolds ==
    ASSUME Init
    PROVE  IInv
<1> USE DEF Init
<1>1. working \in Cache /\ apart \in Cache
  BY IdleTasks, LifecycleAssumption DEF Cache
<1>2. Stored = {} /\ rows \in [Stored -> Rows]
  BY DEF Stored
<1>3. TypeOK
  BY <1>1, <1>2, IdleTasks, LifecycleAssumption DEF TypeOK, Fates
<1>4. HomeInv
  BY IdleTasks DEF HomeInv
<1>5. BusyInv /\ NothingVanishes /\ HeldInv
  BY IdleTasks DEF BusyInv, NothingVanishes, HeldInv
<1>6. QED  BY <1>3, <1>4, <1>5 DEF IInv

LEMMA NextKeeps ==
    ASSUME IInv, [Next]_vars
    PROVE  IInv'
<1>1. CASE UNCHANGED vars
  BY <1>1, SessionStepKeeps DEF vars, memory, tasks, IInv, TypeOK
<1>2. ASSUME NEW s \in Chats, Activate(s) \/ Deactivate(s) \/ Forget(s)
      PROVE  IInv'
  <2>1. /\ UNCHANGED <<memory, tasks, fate, inFlight>>
        /\ \E v \in {"active", "inactive", "none"} : state' = [state EXCEPT ![s] = v]
        /\ dated' \subseteq dated
    BY <1>2 DEF Activate, Deactivate, Forget
  <2>2. state' \in [Chats -> {"none", "active", "inactive", "closed", "archived"}] /\ dated' \subseteq Chats
    BY <2>1 DEF IInv, TypeOK
  <2>3. QED  BY <2>1, <2>2, SessionStepKeeps
<1>3. CASE Next
  BY <1>2, <1>3, CaptureKeeps, ClearRowsKeeps, ClearWorkingKeeps, DeleteAllKeeps, PromoteStartKeeps,
     PromoteNextKeeps, PromoteAddedKeeps, RankKeeps, RankWrittenKeeps, ArchiveStartKeeps, JudgeKeeps,
     ArchiveAddKeeps, ArchiveEndsKeeps DEF Next
<1>4. QED  BY <1>1, <1>3

\* The invariant holds in every state of every behaviour.
THEOREM Invariant == Spec => []IInv
<1>1. Init => IInv
  BY InitHolds
<1>2. IInv /\ [Next]_vars => IInv'
  BY NextKeeps
<1>3. QED  BY <1>1, <1>2, PTL DEF Spec

\* Every variable keeps its type: no working memory outgrows max_working_memory.
THEOREM LifecycleTypes == Spec => []TypeOK
<1>1. IInv => TypeOK
  BY DEF IInv
<1>2. QED  BY <1>1, Invariant, PTL

\* Whatever the interleaving of capture, commands, promotion and cleanup, a
\* memory leaves the working memory and the store only by one of the named ways.
THEOREM Vanishes == Spec => []NothingVanishes
<1>1. IInv => NothingVanishes
  BY DEF IInv
<1>2. QED  BY <1>1, Invariant, PTL

\* A cleared memory is stored again only if a background task or the manager
\* left behind by a deletion of everything had it while the command ran.
THEOREM Forgotten == Spec => []ForgottenReturnsInFlightOnly
<1>1. IInv => ForgottenReturnsInFlightOnly
  BY DEF IInv, HeldInv, TypeOK, ForgottenReturnsInFlightOnly
<1>2. QED  BY <1>1, Invariant, PTL

\* What is lost and what returns, together, as the runs check it.
THEOREM Sound == Spec => []LifecycleSound
BY LifecycleTypes, Vanishes, Forgotten, PTL DEF LifecycleSound

-----------------------------------------------------------------------------
(* The migration of the collection (CollectionMigration).                    *)

\* The backup in memory is of the start that took it, what a re-import has not
\* come to is still in it, and a collection that is not there holds nothing.
MigrationInv ==
    /\ disk \in [present : BOOLEAN, dim : Dims, docs : SUBSET Documents]
    /\ settings \in Mig!Settings /\ backup \cup missing \subseteq Documents
    /\ ~disk.present => disk.docs = {}
    /\ stage \in {"reimport", "ready"} => disk.present
    /\ stage \notin {"delete", "create", "reimport"} => backup = {}
    /\ stage = "delete" => disk.docs \subseteq backup \cup files
    /\ stage = "reimport" => backup \subseteq missing \cup disk.docs \cup refused

\* The last state of a start is the first of the next.
LEMMA MigrationInit ==
    ASSUME Dims # {}, Mig!Init
    PROVE  MigrationInv
<1>1. (CHOOSE d \in Dims : TRUE) \in Dims
  OBVIOUS
<1>2. [dim |-> CHOOSE d \in Dims : TRUE, up |-> TRUE, reimport |-> TRUE] \in Mig!Settings
  BY <1>1 DEF Mig!Settings
<1>3. (CHOOSE s \in Mig!Settings : s.up) \in Mig!Settings
  BY <1>2
<1>4. QED  BY <1>1, <1>3 DEF Mig!Init, Mig!Absent, MigrationInv

LEMMA MigrationStep ==
    ASSUME Dims # {}, MigrationInv, [Mig!Next]_(Mig!vars)
    PROVE  /\ MigrationInv'
           /\ (written \ (Mig!Reported \cup backup))' \subseteq (written \ (Mig!Reported \cup backup)) \cup refused
           /\ disk.docs # {} /\ disk'.docs # {} => disk'.dim = disk.dim
<1> USE DEF MigrationInv, Mig!Reported
<1>1. CASE Mig!Start
  BY <1>1 DEF Mig!Start
<1>2. CASE Mig!TakeBackup
  BY <1>2 DEF Mig!TakeBackup
<1>3. CASE Mig!DeleteCollection
  <2>1. Mig!Absent \in [present : BOOLEAN, dim : Dims, docs : SUBSET Documents] /\ Mig!Absent.docs = {}
    BY DEF Mig!Absent
  <2>2. QED  BY <1>3, <2>1 DEF Mig!DeleteCollection
<1>4. CASE Mig!OpenCollection
  <2>1. Mig!OpenedDim \in Dims /\ (disk.present => Mig!OpenedDim = disk.dim)
    BY DEF Mig!OpenedDim, Mig!Settings
  <2>2. QED  BY <1>4, <2>1 DEF Mig!OpenCollection
<1>5. CASE Mig!ReimportBatch
  <2>1. PICK b \in Mig!Batches : \E valid \in SUBSET b :
          /\ missing' = missing \ b
          /\ \/ disk' = [disk EXCEPT !.docs = @ \cup valid] /\ refused' = refused \cup Mig!Unembedded(b, valid)
             \/ refused' = refused \cup Mig!Unembedded(b, valid) \cup valid /\ UNCHANGED disk
    BY <1>5 DEF Mig!ReimportBatch
  <2>2. PICK valid \in SUBSET b :
          /\ missing' = missing \ b
          /\ \/ disk' = [disk EXCEPT !.docs = @ \cup valid] /\ refused' = refused \cup Mig!Unembedded(b, valid)
             \/ refused' = refused \cup Mig!Unembedded(b, valid) \cup valid /\ UNCHANGED disk
    BY <2>1
  <2>3. stage = "reimport" /\ UNCHANGED <<files, backup, stage, settings, crashes, boots, written, dropped>>
    BY <1>5 DEF Mig!ReimportBatch
  <2>4. b \subseteq missing /\ Mig!Unembedded(b, valid) = b \ valid
    BY DEF Mig!Batches, Mig!Unembedded
  <2>5. /\ disk' \in [present : BOOLEAN, dim : Dims, docs : SUBSET Documents]
        /\ disk'.dim = disk.dim /\ disk'.present = disk.present
        /\ disk.docs \subseteq disk'.docs /\ refused \subseteq refused'
        /\ b \subseteq disk'.docs \cup refused'
    <3>1. CASE disk' = [disk EXCEPT !.docs = @ \cup valid] /\ refused' = refused \cup (b \ valid)
      <4>1. disk.docs \cup valid \subseteq Documents
        BY <2>4
      <4>2. QED  BY <3>1, <2>4, <4>1
    <3>2. CASE refused' = refused \cup (b \ valid) \cup valid /\ UNCHANGED disk
      BY <3>2, <2>4
    <3>3. QED  BY <2>2, <2>4, <3>1, <3>2
  <2>6. QED  BY <2>2, <2>3, <2>4, <2>5
<1>6. CASE Mig!ReimportDone
  BY <1>6 DEF Mig!ReimportDone
<1>7. CASE Mig!Stop
  BY <1>7 DEF Mig!Stop
<1>8. CASE Mig!Crash
  <2>1. /\ stage' = "down" /\ backup' = {} /\ missing' = {} /\ UNCHANGED <<disk, files, settings, refused, written>>
        /\ dropped' = dropped \cup (backup \ (disk.docs \cup refused))
    BY <1>8 DEF Mig!Crash
  <2>2. (Mig!Reported \cup backup)' = Mig!Reported \cup backup
    BY <2>1
  <2>3. MigrationInv'
    BY <2>1
  <2>4. QED  BY <2>1, <2>2, <2>3
<1>9. CASE \E m \in Documents : Mig!Store(m)
  BY <1>9 DEF Mig!Store
<1>10. CASE UNCHANGED Mig!vars
  BY <1>10 DEF Mig!vars
<1>11. QED  BY <1>1, <1>2, <1>3, <1>4, <1>5, <1>6, <1>7, <1>8, <1>9, <1>10 DEF Mig!Next

\* Whatever starts, conflicts, failing backups and batches, disabled re-imports and
\* crashes come in whatever order, the collection is deleted only after its backup,
\* no document is lost unaccounted for, and no collection mixes dimensions.
THEOREM Migrates == ASSUME Dims # {} PROVE Mig!Spec => Mig!MigrationSound
<1>1. Mig!Init => MigrationInv
  BY MigrationInit
<1>2. MigrationInv /\ [Mig!Next]_(Mig!vars) => MigrationInv'
  BY MigrationStep
<1>3. MigrationInv => Mig!BackupBeforeDelete
  BY DEF MigrationInv, Mig!BackupBeforeDelete
<1>4. MigrationInv /\ [Mig!Next]_(Mig!vars) =>
        [(written \ (Mig!Reported \cup backup))' \subseteq (written \ (Mig!Reported \cup backup)) \cup refused]_(Mig!vars)
  BY MigrationStep
<1>5. MigrationInv /\ [Mig!Next]_(Mig!vars) =>
        [disk.docs # {} /\ disk'.docs # {} => disk'.dim = disk.dim]_(Mig!vars)
  BY MigrationStep
<1>6. Mig!Spec => []MigrationInv
  BY <1>1, <1>2, PTL DEF Mig!Spec
<1>7. QED
  BY <1>3, <1>4, <1>5, <1>6, PTL DEF Mig!Spec, Mig!MigrationSound, Mig!LossAccounted, Mig!DimensionFixed

-----------------------------------------------------------------------------
(* The vector store (VectorStore).                                           *)

VectorJobs ==
    [op : {"none", "add", "update", "stats", "delete", "bulk"},
     at : {"idle", "embed", "retry", "write", "get", "delete", "verify"},
     ids : SUBSET Ids, copy : Vec!Row, seen : Vec!Row]

VectorTypes ==
    /\ collection \in [DOMAIN collection -> Vec!Row] /\ DOMAIN collection \subseteq Ids
    /\ job \in [Callers -> VectorJobs]
    /\ \A c \in Callers : job[c].op = "stats" => job[c].copy.access < MaxAccess

\* What adds hold was never stored and is held by one of them; what deletions hold was.
JobsApart ==
    /\ \A c \in Callers : job[c].op = "add" => job[c].ids \cap added = {}
    /\ \A c \in Callers : job[c].op \in {"delete", "bulk"} => job[c].ids \subseteq added
    /\ \A c, d \in Callers : c # d /\ job[c].op = "add" /\ job[d].op = "add"
                               => job[c].ids \cap job[d].ids = {}

\* What was ever deleted or is stored was added, and nothing is both.
VectorInv ==
    /\ VectorTypes /\ JobsApart
    /\ DOMAIN collection \cup deleted \subseteq added
    /\ Vec!DeletedStaysDeleted

\* The idle job is a job, and a row that is rewritten a row.
LEMMA VectorRows ==
    ASSUME MaxAccess \in Nat
    PROVE  /\ Vec!Fresh \in Vec!Row
           /\ Vec!Idle \in VectorJobs /\ Vec!Idle.op = "none"
           /\ \A r \in Vec!Row, l \in Vec!Layers : [r EXCEPT !.layer = l] \in Vec!Row
           /\ \A r, s \in Vec!Row : s.access < MaxAccess =>
                [r EXCEPT !.access = s.access + 1] \in Vec!Row
<1>1. Vec!Fresh \in Vec!Row
  BY DEF Vec!Fresh, Vec!Row, Vec!Layers
<1>2. Vec!Idle \in VectorJobs /\ Vec!Idle.op = "none"
  BY <1>1 DEF Vec!Idle, VectorJobs
<1>3. \A r \in Vec!Row, l \in Vec!Layers : [r EXCEPT !.layer = l] \in Vec!Row
  BY DEF Vec!Row
<1>4. \A r, s \in Vec!Row : s.access < MaxAccess => [r EXCEPT !.access = s.access + 1] \in Vec!Row
  BY DEF Vec!Row
<1>5. QED  BY <1>1, <1>2, <1>3, <1>4

\* A caller's job turns into x, which holds what no add holds, or what was added.
LEMMA JobChanges ==
    ASSUME VectorTypes, JobsApart, NEW c \in Callers, NEW x \in VectorJobs,
           job' = [job EXCEPT ![c] = x], added \subseteq added',
           x.op = "stats" => x.copy.access < MaxAccess,
           x.op = "add" => x.ids \cap added' = {},
           x.op \in {"delete", "bulk"} => x.ids \subseteq added',
           \A d \in Callers : d # c /\ job[d].op = "add" =>
               job[d].ids \cap added' = {} /\ (x.op = "add" => job[d].ids \cap x.ids = {})
    PROVE  /\ job' \in [Callers -> VectorJobs] /\ JobsApart'
           /\ \A d \in Callers : job'[d].op = "stats" => job'[d].copy.access < MaxAccess
<1>1. /\ job' \in [Callers -> VectorJobs] /\ job'[c] = x
      /\ \A d \in Callers : d # c => job'[d] = job[d]
  BY DEF VectorTypes
<1>2. QED  BY <1>1 DEF VectorTypes, JobsApart

\* A caller that is done holds nothing any more.
LEMMA DoneChanges ==
    ASSUME MaxAccess \in Nat, VectorTypes, JobsApart, NEW c \in Callers, Vec!Done(c), added' = added
    PROVE  /\ job' \in [Callers -> VectorJobs] /\ JobsApart'
           /\ \A d \in Callers : job'[d].op = "stats" => job'[d].copy.access < MaxAccess
<1>1. Vec!Idle \in VectorJobs /\ Vec!Idle.op = "none"
  BY VectorRows
<1>2. job' = [job EXCEPT ![c] = Vec!Idle]
  BY DEF Vec!Done
<1>3. \A d \in Callers : job[d].op = "add" => job[d].ids \cap added' = {}
  BY DEF JobsApart
<1>4. QED  BY <1>1, <1>2, <1>3, JobChanges

\* A caller goes on with what it holds.
LEMMA GoChanges ==
    ASSUME VectorTypes, JobsApart, NEW c \in Callers, added' = added,
           NEW to \in {"idle", "embed", "retry", "write", "get", "delete", "verify"}, Vec!Go(c, to)
    PROVE  /\ job' \in [Callers -> VectorJobs] /\ JobsApart'
           /\ \A d \in Callers : job'[d].op = "stats" => job'[d].copy.access < MaxAccess
<1> DEFINE x == [job[c] EXCEPT !.at = to]
<1>1. x \in VectorJobs /\ x.op = job[c].op /\ x.ids = job[c].ids /\ x.copy = job[c].copy
  BY DEF VectorTypes, VectorJobs
<1>2. job' = [job EXCEPT ![c] = x]
  BY DEF Vec!Go
<1>3. /\ x.op = "stats" => x.copy.access < MaxAccess
      /\ x.op = "add" => x.ids \cap added' = {}
      /\ x.op \in {"delete", "bulk"} => x.ids \subseteq added'
      /\ \A d \in Callers : d # c /\ job[d].op = "add" =>
               job[d].ids \cap added' = {} /\ (x.op = "add" => job[d].ids \cap x.ids = {})
  BY <1>1 DEF VectorTypes, JobsApart
<1> HIDE DEF x
<1>4. QED  BY <1>1, <1>2, <1>3, JobChanges

-----------------------------------------------------------------------------
(* The steps.                                                                *)

\* What a step has to show beside the jobs.
LEMMA StoreKept ==
    ASSUME VectorInv, collection' = collection, added' = added, deleted' \subseteq deleted,
           job' \in [Callers -> VectorJobs], JobsApart',
           \A d \in Callers : job'[d].op = "stats" => job'[d].copy.access < MaxAccess
    PROVE  VectorInv'
BY DEF VectorInv, VectorTypes, Vec!DeletedStaysDeleted, Vec!Stored

LEMMA BeginAddKeeps ==
    ASSUME MaxAccess \in Nat, VectorInv, NEW c \in Callers, NEW m \in Ids, Vec!BeginAdd(c, m)
    PROVE  VectorInv'
<1> DEFINE x == [Vec!Idle EXCEPT !.op = "add", !.at = "embed", !.ids = {m}]
<1>1. x \in VectorJobs /\ x.op = "add" /\ x.ids = {m}
  BY VectorRows DEF VectorJobs
<1>2. /\ job' = [job EXCEPT ![c] = x] /\ m \notin added /\ added' = added
      /\ \A d \in Callers : job[d].op = "add" => m \notin job[d].ids
  BY DEF Vec!BeginAdd, Vec!Start
<1>3. \A d \in Callers : job[d].op = "add" => job[d].ids \cap added' = {} /\ job[d].ids \cap x.ids = {}
  BY <1>1, <1>2 DEF VectorInv, JobsApart
<1>0. /\ added \subseteq added'
      /\ x.op = "stats" => x.copy.access < MaxAccess
      /\ x.op = "add" => x.ids \cap added' = {}
      /\ x.op \in {"delete", "bulk"} => x.ids \subseteq added'
  BY <1>1, <1>2
<1> HIDE DEF x
<1>4. /\ job' \in [Callers -> VectorJobs] /\ JobsApart'
      /\ \A d \in Callers : job'[d].op = "stats" => job'[d].copy.access < MaxAccess
  <2>1. x \in VectorJobs /\ job' = [job EXCEPT ![c] = x] /\ VectorTypes /\ JobsApart
    BY <1>1, <1>2 DEF VectorInv
  <2>2. \A d \in Callers : d # c /\ job[d].op = "add" =>
           job[d].ids \cap added' = {} /\ (x.op = "add" => job[d].ids \cap x.ids = {})
    BY <1>3
  <2>3. QED  BY <1>0, <2>1, <2>2, JobChanges
<1>5. QED  BY <1>4, StoreKept DEF Vec!BeginAdd

LEMMA DeleteCheckKeeps ==
    ASSUME MaxAccess \in Nat, VectorInv, NEW c \in Callers, NEW m \in Ids, Vec!DeleteCheck(c, m)
    PROVE  VectorInv'
<1> DEFINE x == [Vec!Idle EXCEPT !.op = "delete", !.at = "delete", !.ids = {m}]
<1>1. x \in VectorJobs /\ x.op = "delete" /\ x.ids = {m}
  BY VectorRows DEF VectorJobs
<1>2. job' = [job EXCEPT ![c] = x] /\ m \in added /\ added' = added
  BY DEF Vec!DeleteCheck, Vec!Start, Vec!Stored, VectorInv
<1>3. \A d \in Callers : job[d].op = "add" => job[d].ids \cap added' = {}
  BY <1>2 DEF VectorInv, JobsApart
<1> HIDE DEF x
<1>4. /\ job' \in [Callers -> VectorJobs] /\ JobsApart'
      /\ \A d \in Callers : job'[d].op = "stats" => job'[d].copy.access < MaxAccess
  BY <1>1, <1>2, <1>3, JobChanges DEF VectorInv
<1>5. QED  BY <1>4, StoreKept DEF Vec!DeleteCheck

\* Whatever the clause, a bulk deletion selects rows that are stored.
LEMMA BulkSelectsStored == \A chosen \in Vec!BulkTargets : chosen \subseteq Vec!Stored
BY DEF Vec!BulkTargets, Vec!SessionRows, Vec!UserRows, Vec!GroupRows

LEMMA BulkSelectKeeps ==
    ASSUME MaxAccess \in Nat, VectorInv, NEW c \in Callers, Vec!BulkSelect(c)
    PROVE  VectorInv'
<1>1. PICK chosen \in Vec!BulkTargets : Vec!Start(c, "bulk", "delete", chosen)
  BY DEF Vec!BulkSelect
<1> DEFINE x == [Vec!Idle EXCEPT !.op = "bulk", !.at = "delete", !.ids = chosen]
<1>2. chosen \subseteq DOMAIN collection /\ chosen \subseteq Ids /\ chosen \subseteq added
  BY BulkSelectsStored DEF Vec!Stored, VectorInv, VectorTypes
<1>3. x \in VectorJobs /\ x.op = "bulk" /\ x.ids = chosen
  BY <1>2, VectorRows DEF VectorJobs
<1>4. job' = [job EXCEPT ![c] = x] /\ added' = added
  BY <1>1 DEF Vec!BulkSelect, Vec!Start
<1>5. \A d \in Callers : job[d].op = "add" => job[d].ids \cap added' = {}
  BY <1>4 DEF VectorInv, JobsApart
<1> HIDE DEF x
<1>6. /\ job' \in [Callers -> VectorJobs] /\ JobsApart'
      /\ \A d \in Callers : job'[d].op = "stats" => job'[d].copy.access < MaxAccess
  BY <1>2, <1>3, <1>4, <1>5, JobChanges DEF VectorInv
<1>7. QED  BY <1>6, StoreKept DEF Vec!BulkSelect

LEMMA FetchKeeps ==
    ASSUME MaxAccess \in Nat, VectorInv, NEW c \in Callers, NEW m \in Ids,
           NEW op \in {"update", "stats"}, Vec!Fetch(c, m, op)
    PROVE  VectorInv'
<1> DEFINE x == [op |-> op, at |-> IF op = "stats" THEN "get" ELSE "write", ids |-> {m},
                 copy |-> collection[m], seen |-> Vec!Fresh]
<1>1. collection[m] \in Vec!Row /\ (op = "stats" => collection[m].access < MaxAccess)
  BY DEF Vec!Fetch, Vec!Stored, VectorInv, VectorTypes
<1>2. x \in VectorJobs /\ x.op = op /\ x.copy = collection[m]
  BY <1>1, VectorRows DEF VectorJobs
<1>3. job' = [job EXCEPT ![c] = x] /\ added' = added
  BY DEF Vec!Fetch
<1>4. \A d \in Callers : job[d].op = "add" => job[d].ids \cap added' = {}
  BY <1>3 DEF VectorInv, JobsApart
<1> HIDE DEF x
<1>5. /\ job' \in [Callers -> VectorJobs] /\ JobsApart'
      /\ \A d \in Callers : job'[d].op = "stats" => job'[d].copy.access < MaxAccess
  BY <1>1, <1>2, <1>3, <1>4, JobChanges DEF VectorInv
<1>6. QED  BY <1>5, StoreKept DEF Vec!Fetch

\* The reads, the embedding and its failure, and a job that finds the store closed.
LEMMA JobOnlyKeeps ==
    ASSUME MaxAccess \in Nat, VectorInv, NEW c \in Callers,
           Vec!Embedded(c) \/ Vec!EmbeddingFails(c) \/ Vec!NotReady(c)
    PROVE  VectorInv'
<1>1. UNCHANGED <<collection, added, deleted>>
  BY DEF Vec!Embedded, Vec!EmbeddingFails, Vec!NotReady
<1>2. Vec!Done(c) \/ \E to \in {"write", "retry"} : Vec!Go(c, to)
  BY DEF Vec!Embedded, Vec!EmbeddingFails, Vec!NotReady
<1>3. CASE Vec!Done(c)
  BY <1>1, <1>3, DoneChanges, StoreKept DEF VectorInv
<1>4. CASE \E to \in {"write", "retry"} : Vec!Go(c, to)
  BY <1>1, <1>4, GoChanges, StoreKept DEF VectorInv
<1>5. QED  BY <1>2, <1>3, <1>4

LEMMA StatsGetKeeps ==
    ASSUME MaxAccess \in Nat, VectorInv, NEW c \in Callers, Vec!StatsGet(c)
    PROVE  VectorInv'
<1>1. UNCHANGED <<collection, added, deleted>> /\ job[c].op = "stats" /\ job[c] \in VectorJobs
  BY DEF Vec!StatsGet, Vec!At, VectorInv, VectorTypes
<1>2. CASE Vec!Target(c) \in Vec!Stored
  <2> DEFINE x == [job[c] EXCEPT !.at = "write", !.seen = collection[Vec!Target(c)]]
  <2>1. collection[Vec!Target(c)] \in Vec!Row
    BY <1>2 DEF Vec!Stored, VectorInv, VectorTypes
  <2>2. x \in VectorJobs /\ x.op = "stats" /\ x.copy = job[c].copy
    BY <1>1, <2>1 DEF VectorJobs
  <2>3. job' = [job EXCEPT ![c] = x]
    BY <1>2 DEF Vec!StatsGet, VectorInv, VectorTypes
  <2>4. \A d \in Callers : job[d].op = "add" => job[d].ids \cap added' = {}
    BY <1>1 DEF VectorInv, JobsApart
  <2>5. x.copy.access < MaxAccess
    BY <1>1, <2>2 DEF VectorInv, VectorTypes
  <2> HIDE DEF x
  <2>6. /\ job' \in [Callers -> VectorJobs] /\ JobsApart'
        /\ \A d \in Callers : job'[d].op = "stats" => job'[d].copy.access < MaxAccess
    BY <1>1, <2>2, <2>3, <2>4, <2>5, JobChanges DEF VectorInv
  <2>7. QED  BY <1>1, <2>6, StoreKept
<1>3. CASE Vec!Target(c) \notin Vec!Stored
  BY <1>1, <1>3, DoneChanges, StoreKept DEF VectorInv, Vec!StatsGet
<1>4. QED  BY <1>2, <1>3

\* A rewritten row stays in its place: an identifier that is not stored is not
\* stored by it.
LEMMA Rewriting ==
    ASSUME VectorInv, NEW m, NEW row \in Vec!Row
    PROVE  /\ Vec!Rewrite(m, row) \in [DOMAIN collection -> Vec!Row]
           /\ m \in Vec!Stored => Vec!Rewrite(m, row)[m] = row
BY DEF Vec!Rewrite, Vec!Stored, VectorInv, VectorTypes

LEMMA RewriteKeeps ==
    ASSUME MaxAccess \in Nat, VectorInv, NEW c \in Callers, NEW row \in Vec!Row,
           collection' = Vec!Rewrite(Vec!Target(c), row), Vec!Done(c), UNCHANGED <<added, deleted>>
    PROVE  VectorInv'
<1>1. DOMAIN collection' = DOMAIN collection /\ collection' \in [DOMAIN collection' -> Vec!Row]
  BY Rewriting
<1>2. /\ job' \in [Callers -> VectorJobs] /\ JobsApart'
      /\ \A d \in Callers : job'[d].op = "stats" => job'[d].copy.access < MaxAccess
  BY DoneChanges DEF VectorInv
<1>3. QED  BY <1>1, <1>2 DEF VectorInv, VectorTypes, Vec!DeletedStaysDeleted, Vec!Stored

LEMMA UpdateWriteKeeps ==
    ASSUME MaxAccess \in Nat, VectorInv, NEW c \in Callers, NEW to \in Vec!Layers,
           Vec!UpdateWrite(c, to)
    PROVE  VectorInv'
<1>1. [job[c].copy EXCEPT !.layer = to] \in Vec!Row
  BY VectorRows DEF VectorInv, VectorTypes, VectorJobs
<1>2. QED  BY <1>1, RewriteKeeps DEF Vec!UpdateWrite

\* A statistics write sets a layer only to the one its own read saw.
LEMMA StatsWriteKeeps ==
    ASSUME MaxAccess \in Nat, VectorInv, NEW c \in Callers, Vec!StatsWrite(c)
    PROVE  /\ VectorInv'
           /\ Vec!Target(c) \in Vec!Stored => collection'[Vec!Target(c)].layer = job[c].seen.layer
<1>1. /\ job[c] \in VectorJobs /\ job[c].copy.access < MaxAccess
      /\ job[c].seen \in Vec!Row /\ job[c].copy \in Vec!Row
  BY DEF Vec!StatsWrite, Vec!At, VectorInv, VectorTypes, VectorJobs
<1>2. Vec!Merged(c) \in Vec!Row /\ Vec!Merged(c).layer = job[c].seen.layer
  <2>1. Vec!Merged(c) \in Vec!Row
    BY <1>1, VectorRows DEF Vec!Merged
  <2>2. Vec!Merged(c).layer = job[c].seen.layer
    BY <1>1 DEF Vec!Merged, Vec!Row
  <2>3. QED  BY <2>1, <2>2
<1>3. VectorInv'
  BY <1>2, RewriteKeeps DEF Vec!StatsWrite
<1>4. Vec!Target(c) \in Vec!Stored => collection'[Vec!Target(c)].layer = job[c].seen.layer
  BY <1>2, Rewriting DEF Vec!StatsWrite
<1>5. QED  BY <1>3, <1>4

LEMMA AddWriteKeeps ==
    ASSUME MaxAccess \in Nat, VectorInv, NEW c \in Callers, Vec!AddWrite(c)
    PROVE  VectorInv'
<1>1. /\ job[c] \in VectorJobs /\ job[c].op = "add"
      /\ job[c].copy \in Vec!Row /\ job[c].ids \subseteq Ids /\ job[c].ids \cap added = {}
  BY DEF Vec!AddWrite, Vec!At, VectorInv, VectorTypes, VectorJobs, JobsApart
<1>2. /\ DOMAIN collection' = DOMAIN collection \cup job[c].ids
      /\ collection' \in [DOMAIN collection' -> Vec!Row]
      /\ added' = added \cup job[c].ids /\ deleted' = deleted
  BY <1>1 DEF Vec!AddWrite, Vec!Stored, VectorInv, VectorTypes
<1>3. \A d \in Callers : d # c /\ job[d].op = "add" => job[d].ids \cap added' = {}
  BY <1>1, <1>2 DEF VectorInv, JobsApart
<1>4. job' = [job EXCEPT ![c] = Vec!Idle] /\ Vec!Idle \in VectorJobs /\ Vec!Idle.op = "none"
  BY VectorRows DEF Vec!AddWrite, Vec!Done
<1>0. /\ added \subseteq added' /\ VectorTypes /\ JobsApart
      /\ \A d \in Callers : d # c /\ job[d].op = "add" =>
           job[d].ids \cap added' = {} /\ (Vec!Idle.op = "add" => job[d].ids \cap Vec!Idle.ids = {})
  BY <1>2, <1>3, <1>4 DEF VectorInv
<1>5. /\ job' \in [Callers -> VectorJobs] /\ JobsApart'
      /\ \A d \in Callers : job'[d].op = "stats" => job'[d].copy.access < MaxAccess
  BY <1>0, <1>4, JobChanges
<1>6. QED  BY <1>1, <1>2, <1>5 DEF VectorInv, VectorTypes, Vec!DeletedStaysDeleted, Vec!Stored

\* What is deleted is no longer stored, and was added.
LEMMA DeletionKeeps ==
    ASSUME VectorInv, NEW ids, ids \subseteq added, collection' = Vec!Without(ids), added' = added,
           deleted' \subseteq deleted \cup ids,
           job' \in [Callers -> VectorJobs], JobsApart',
           \A d \in Callers : job'[d].op = "stats" => job'[d].copy.access < MaxAccess
    PROVE  VectorInv'
<1>1. DOMAIN collection' = DOMAIN collection \ ids /\ collection' \in [DOMAIN collection' -> Vec!Row]
  BY DEF Vec!Without, Vec!Stored, VectorInv, VectorTypes
<1>2. QED  BY <1>1 DEF VectorInv, VectorTypes, Vec!DeletedStaysDeleted, Vec!Stored

LEMMA DeleteRowKeeps ==
    ASSUME MaxAccess \in Nat, VectorInv, NEW c \in Callers, Vec!DeleteRow(c)
    PROVE  VectorInv'
<1>1. job[c].ids \subseteq added
  BY DEF Vec!DeleteRow, Vec!At, VectorInv, JobsApart
<1>2. /\ job' \in [Callers -> VectorJobs] /\ JobsApart'
      /\ \A d \in Callers : job'[d].op = "stats" => job'[d].copy.access < MaxAccess
  BY GoChanges DEF Vec!DeleteRow, VectorInv
<1>3. QED  BY <1>1, <1>2, DeletionKeeps DEF Vec!DeleteRow

LEMMA BulkDeleteKeeps ==
    ASSUME MaxAccess \in Nat, VectorInv, NEW c \in Callers, Vec!BulkDelete(c)
    PROVE  VectorInv'
<1>1. job[c].ids \subseteq added
  BY DEF Vec!BulkDelete, Vec!At, VectorInv, JobsApart
<1>2. /\ job' \in [Callers -> VectorJobs] /\ JobsApart'
      /\ \A d \in Callers : job'[d].op = "stats" => job'[d].copy.access < MaxAccess
  BY DoneChanges DEF Vec!BulkDelete, VectorInv
<1>3. QED  BY <1>1, <1>2, DeletionKeeps DEF Vec!BulkDelete

LEMMA DeleteVerifyKeeps ==
    ASSUME MaxAccess \in Nat, VectorInv, NEW c \in Callers, Vec!DeleteVerify(c)
    PROVE  VectorInv'
<1>1. job[c].ids \subseteq added
  BY DEF Vec!DeleteVerify, Vec!At, VectorInv, JobsApart
<1>0. Vec!Done(c) /\ added' = added
  BY DEF Vec!DeleteVerify
<1>2. /\ job' \in [Callers -> VectorJobs] /\ JobsApart'
      /\ \A d \in Callers : job'[d].op = "stats" => job'[d].copy.access < MaxAccess
  BY <1>0, DoneChanges DEF VectorInv
<1>3. /\ UNCHANGED <<collection, added>>
      /\ deleted' \subseteq added /\ deleted' \cap DOMAIN collection = {}
  BY <1>1 DEF Vec!DeleteVerify, Vec!Stored, VectorInv, Vec!DeletedStaysDeleted
<1>4. QED  BY <1>2, <1>3 DEF VectorInv, VectorTypes, Vec!DeletedStaysDeleted, Vec!Stored

LEMMA VectorStep ==
    ASSUME MaxAccess \in Nat, VectorInv, [Vec!Next]_(Vec!vars)
    PROVE  VectorInv'
<1>1. CASE \E c \in Callers, m \in Ids : Vec!BeginAdd(c, m) \/ Vec!DeleteCheck(c, m)
  BY <1>1, BeginAddKeeps, DeleteCheckKeeps
<1>2. CASE \E c \in Callers, m \in Ids, op \in {"update", "stats"} : Vec!Fetch(c, m, op)
  BY <1>2, FetchKeeps
<1>3. CASE \E c \in Callers, to \in Vec!Layers : Vec!UpdateWrite(c, to)
  BY <1>3, UpdateWriteKeeps
<1>4. ASSUME NEW c \in Callers,
             \/ Vec!Embedded(c) \/ Vec!EmbeddingFails(c) \/ Vec!AddWrite(c)
             \/ Vec!StatsGet(c) \/ Vec!StatsWrite(c)
             \/ Vec!DeleteRow(c) \/ Vec!DeleteVerify(c)
             \/ Vec!BulkSelect(c) \/ Vec!BulkDelete(c) \/ Vec!NotReady(c)
      PROVE  VectorInv'
  BY <1>4, JobOnlyKeeps, AddWriteKeeps, StatsGetKeeps, StatsWriteKeeps, DeleteRowKeeps,
     DeleteVerifyKeeps, BulkSelectKeeps, BulkDeleteKeeps
<1>5. CASE Vec!Close \/ Vec!Initialize \/ UNCHANGED Vec!vars
  <2>1. UNCHANGED <<collection, job, added, deleted>>
    BY <1>5 DEF Vec!Close, Vec!Initialize, Vec!vars
  <2>2. QED
    BY <2>1 DEF VectorInv, VectorTypes, JobsApart, Vec!DeletedStaysDeleted, Vec!Stored
<1>6. QED  BY <1>1, <1>2, <1>3, <1>4, <1>5 DEF Vec!Next

\* Deleted rows stay deleted, scopes stay apart, forgetting selects what is listed, and
\* a statistics write keeps the layer it read, for any callers, rows and metadata.
THEOREM StoresRight == ASSUME MaxAccess \in Nat PROVE Vec!Spec => Vec!VectorStoreSound
<1>1. Vec!Init => VectorInv
  BY VectorRows DEF Vec!Init, VectorInv, VectorTypes, JobsApart, Vec!DeletedStaysDeleted, Vec!Stored
<1>2. VectorInv /\ [Vec!Next]_(Vec!vars) => VectorInv'
  BY VectorStep
<1>3. VectorInv => Vec!DeletedStaysDeleted
  BY DEF VectorInv
<1>4. Vec!ScopesSeparate
  BY DEF Vec!ScopesSeparate, Vec!Searched, Vec!GroupClauses, Vec!PrivateClauses
<1>5. Vec!PrivateDeleteMatchesListing
  BY DEF Vec!PrivateDeleteMatchesListing, Vec!Listed, Vec!UserRows, Vec!GroupClauses, Vec!PrivateClauses
<1>6. VectorInv /\ [Vec!Next]_(Vec!vars) =>
        [\A c \in Callers : Vec!StatsWrite(c) /\ Vec!Target(c) \in Vec!Stored =>
            LET m == Vec!Target(c) IN
            collection'[m].layer # collection[m].layer => job[c].seen.layer # collection[m].layer]_(Vec!vars)
  BY StatsWriteKeeps
<1>7. QED
  BY <1>1, <1>2, <1>3, <1>4, <1>5, <1>6, PTL DEF Vec!Spec, Vec!VectorStoreSound, Vec!StatsKeepLayer

-----------------------------------------------------------------------------
(* Upgrade evaluation (UpgradeEvaluation).                                   *)

\* Where k of n memories stands in the batches.
LEMMA BatchOf ==
    ASSUME NEW b \in Nat \ {0}, NEW n \in Nat
    PROVE  /\ (n + b - 1) \div b \in Nat
           /\ \A k \in 1..n : ((k - 1) \div b) + 1 \in 1..((n + b - 1) \div b)
<1>1. (n + b - 1) \div b \in Nat
  OBVIOUS
<1>2. ASSUME NEW k \in 1..n
      PROVE  ((k - 1) \div b) + 1 \in 1..((n + b - 1) \div b)
  <2>1. (k - 1) \div b \in Nat
    OBVIOUS
  <2>2. ((k - 1) \div b) + 1 <= ((n + b - 1) \div b)
    OBVIOUS
  <2>3. QED  BY <1>1, <2>1, <2>2
<1>3. QED  BY <1>1, <1>2

\* Batches cut the memories: each is in one batch, and in no two.
LEMMA BatchesCut ==
    ASSUME BatchSize \in Nat \ {0}, IsFiniteSet(Judged), NEW ms \in SUBSET Judged,
           NEW todo \in Upg!Batches(ms)
    PROVE  /\ todo \in Seq(SUBSET Judged)
           /\ \A m : m \in ms <=> \E i \in DOMAIN todo : m \in todo[i]
           /\ \A i, j \in DOMAIN todo : i # j => todo[i] \cap todo[j] = {}
<1> DEFINE n == Cardinality(ms)
<1>1. IsFiniteSet(ms) /\ n \in Nat
  BY FS_Subset, FS_CardinalityType
<1>2. PICK s \in Upg!Injection(1..Upg!Cardinality(ms), ms) :
        todo = [i \in 1..((Len(s) + BatchSize - 1) \div BatchSize) |->
                  {s[j] : j \in {k \in DOMAIN s : (k - 1) \div BatchSize = i - 1}}]
  BY DEF Upg!Batches
<1>3. s \in [1..n -> ms] /\ \A i, j \in 1..n : i # j => s[i] # s[j]
  <2>1. Upg!Cardinality(ms) = n
    BY DEF Upg!Cardinality, Cardinality
  <2>2. QED  BY <1>2, <2>1 DEF Upg!Injection, Upg!IsInjective
<1>4. DOMAIN s = 1..n /\ Len(s) = n
  BY <1>1, <1>3
<1>5. \A m \in ms : \E k \in 1..n : s[k] = m
  <2>1. s \in Injection(1..n, ms)
    BY <1>3 DEF Injection, IsInjective
  <2>2. IsFiniteSet(1..n) /\ Cardinality(1..n) = n
    BY <1>1, FS_Interval
  <2>3. s \in Surjection(1..n, ms)
    BY <2>1, <2>2, <1>1, FS_Injection
  <2>4. QED  BY <2>3 DEF Surjection
<1> DEFINE l == (n + BatchSize - 1) \div BatchSize
           Place(k) == ((k - 1) \div BatchSize) + 1
<1>6. l \in Nat /\ \A k \in 1..n : Place(k) \in 1..l
  BY <1>1, BatchOf
<1>7. todo = [i \in 1..l |-> {s[j] : j \in {k \in 1..n : (k - 1) \div BatchSize = i - 1}}]
  BY <1>2, <1>4
<1>7a. \A k \in 1..n : (k - 1) \div BatchSize \in Int
  BY <1>1
<1>8. \A i \in 1..l : \A m : m \in todo[i] <=> \E k \in 1..n : s[k] = m /\ Place(k) = i
  <2> SUFFICES ASSUME NEW i \in 1..l, NEW m
               PROVE  m \in todo[i] <=> \E k \in 1..n : s[k] = m /\ Place(k) = i
    OBVIOUS
  <2>1. todo[i] = {s[j] : j \in {k \in 1..n : (k - 1) \div BatchSize = i - 1}}
    BY <1>7
  <2>2. \A k \in 1..n : (k - 1) \div BatchSize = i - 1 <=> Place(k) = i
    BY <1>7a
  <2> HIDE DEF Place
  <2>3. QED  BY <2>1, <2>2
<1>9. todo \in Seq(SUBSET Judged)
  <2>1. \A i \in 1..l : todo[i] \subseteq Judged
    BY <1>8, <1>3
  <2> HIDE DEF l
  <2>2. QED  BY <1>6, <1>7, <2>1
<1>10. DOMAIN todo = 1..l
  BY <1>7
<1> HIDE DEF l, Place
<1>11. \A m : m \in ms <=> \E i \in DOMAIN todo : m \in todo[i]
  BY <1>3, <1>5, <1>6, <1>8, <1>10
<1>12. \A i, j \in DOMAIN todo : i # j => todo[i] \cap todo[j] = {}
  BY <1>3, <1>8, <1>10
<1>13. QED  BY <1>9, <1>11, <1>12

\* Taking the first of sets that do not overlap takes its members and no others.
LEMMA FirstTaken ==
    ASSUME NEW S, NEW t \in Seq(SUBSET S), t # <<>>,
           \A i, j \in DOMAIN t : i # j => t[i] \cap t[j] = {}
    PROVE  /\ Tail(t) \in Seq(SUBSET S) /\ Head(t) \in SUBSET S
           /\ \A m \in Head(t) : \E i \in DOMAIN t : m \in t[i]
           /\ \A m : (\E i \in DOMAIN Tail(t) : m \in Tail(t)[i])
                     <=> (\E i \in DOMAIN t : m \in t[i]) /\ m \notin Head(t)
           /\ \A i, j \in DOMAIN Tail(t) : i # j => Tail(t)[i] \cap Tail(t)[j] = {}
<1>1. /\ Len(t) \in Nat \ {0} /\ DOMAIN t = 1..Len(t) /\ 1 \in DOMAIN t /\ Head(t) = t[1]
      /\ Tail(t) \in Seq(SUBSET S) /\ Head(t) \in SUBSET S
      /\ DOMAIN Tail(t) = 1..(Len(t) - 1)
  OBVIOUS
<1>2. \A i \in DOMAIN Tail(t) : i + 1 \in DOMAIN t /\ i + 1 # 1 /\ Tail(t)[i] = t[i + 1]
  BY <1>1
<1>3. \A i \in DOMAIN t : i # 1 => i - 1 \in DOMAIN Tail(t) /\ Tail(t)[i - 1] = t[i]
  <2>1. \A i \in DOMAIN t : i # 1 => i - 1 \in DOMAIN Tail(t) /\ (i - 1) + 1 = i
    BY <1>1
  <2>2. QED  BY <2>1, <1>2
<1>4. \A m : (\E i \in DOMAIN Tail(t) : m \in Tail(t)[i])
             <=> (\E i \in DOMAIN t : m \in t[i]) /\ m \notin Head(t)
  <2> SUFFICES ASSUME NEW m
               PROVE  (\E i \in DOMAIN Tail(t) : m \in Tail(t)[i])
                      <=> (\E i \in DOMAIN t : m \in t[i]) /\ m \notin Head(t)
    OBVIOUS
  <2>1. ASSUME NEW i \in DOMAIN Tail(t), m \in Tail(t)[i]
        PROVE  (\E k \in DOMAIN t : m \in t[k]) /\ m \notin Head(t)
    BY <2>1, <1>1, <1>2
  <2>2. ASSUME NEW i \in DOMAIN t, m \in t[i], m \notin Head(t)
        PROVE  \E k \in DOMAIN Tail(t) : m \in Tail(t)[k]
    BY <2>2, <1>1, <1>3
  <2>3. QED  BY <2>1, <2>2
<1>5. \A i, j \in DOMAIN Tail(t) : i # j => Tail(t)[i] \cap Tail(t)[j] = {}
  <2>1. \A i, j \in DOMAIN Tail(t) : i # j => i + 1 # j + 1
    BY <1>1
  <2>2. QED  BY <1>2, <2>1
<1>6. QED  BY <1>1, <1>4, <1>5

\* m is in a batch that an evaluation k has still to ask about.
Ahead(k, m) == \E i \in DOMAIN k.todo : m \in k.todo[i]

\* What an evaluation was given is what it passed over, what it said, and what is
\* ahead; it holds what is ahead and what it asked about.
CallRight(k, over) ==
    /\ k = [at |-> k.at, kind |-> k.kind, given |-> k.given, todo |-> k.todo, mine |-> k.mine,
            said |-> k.said, sure |-> k.sure]
    /\ k.at \in {"idle", "wait", "ask", "sleep", "done"}
    /\ k.todo \in Seq(SUBSET Judged) /\ k.mine \subseteq Judged /\ k.given \subseteq Judged
    /\ \A i, j \in DOMAIN k.todo : i # j => k.todo[i] \cap k.todo[j] = {}
    /\ \A m \in Judged : Ahead(k, m) => m \in k.mine /\ m \in k.given /\ m \notin over
    /\ \A m \in k.mine : Ahead(k, m) \/ m \in DOMAIN k.said
    /\ DOMAIN k.said \subseteq Judged /\ over \subseteq Judged
    /\ \A m \in Judged : m \in DOMAIN k.said <=> m \in k.given /\ m \notin over /\ ~Ahead(k, m)
    /\ k.at \in {"wait", "ask", "sleep"} => k.todo # <<>>
    /\ k.at \in {"idle", "done"} => k.mine = {} /\ \A m \in Judged : ~Ahead(k, m)

CallsRight ==
    /\ call = [c \in Calls |-> call[c]] /\ passed = [c \in Calls |-> passed[c]]
    /\ judged \in [Judged -> Nat]
    /\ \A c \in Calls : CallRight(call[c], DOMAIN passed[c])

\* What was passed over has been judged since, or somebody has it ahead.
JudgedOrAhead == \A c \in Calls : \A m \in DOMAIN passed[c] :
    /\ passed[c][m] \in Int
    /\ \/ passed[c][m] < judged[m]
       \/ passed[c][m] <= judged[m] /\ \E d \in Calls : Ahead(call[d], m)

EvaluationInv == CallsRight /\ Upg!OneJudge /\ JudgedOrAhead

\* Where the rules are sure they say what they say alone.
LEMMA TiersSay ==
    ASSUME Traits \subseteq Known
    PROVE  Upg!TiersAgree
<1> SUFFICES ASSUME NEW t \in Traits
             PROVE  \A kind \in {"working", "episodic"} :
                      /\ Upg!Pass(kind, t) => Upg!Rule(kind, t)
                      /\ Upg!Reject(kind, t) => ~Upg!Rule(kind, t)
  BY DEF Upg!TiersAgree
<1>1. t \in Known
  OBVIOUS
<1>2. /\ t.access \in Nat /\ t.importance \in Nat /\ t.emotion \in Nat /\ t.confidence \in Nat
      /\ t.rif \in Nat /\ t.quality \in Nat /\ t.asked \in BOOLEAN /\ t.days \in Nat
  BY <1>1 DEF Known
<1>3. (Upg!Pass("working", t) => Upg!Rule("working", t))
      /\ (Upg!Reject("working", t) => ~Upg!Rule("working", t))
  BY <1>2 DEF Upg!Pass, Upg!Reject, Upg!Rule, Upg!ToEpisodic
<1>4. (Upg!Pass("episodic", t) => Upg!Rule("episodic", t))
      /\ (Upg!Reject("episodic", t) => ~Upg!Rule("episodic", t))
  BY <1>2 DEF Upg!Pass, Upg!Reject, Upg!Rule, Upg!ToSemantic
<1>5. QED  BY <1>3, <1>4

\* The idle evaluation.
LEMMA NoCallRight == CallRight(Upg!NoCall, {}) /\ Upg!NoCall.mine = {}
<1>1. \A m : ~Ahead(Upg!NoCall, m)
  BY DEF Ahead, Upg!NoCall
<1>2. DOMAIN Upg!NoCall.said = {}
  BY DEF Upg!NoCall
<1>3. QED  BY <1>1, <1>2 DEF CallRight, Upg!NoCall

\* The invariant gives the property.
LEMMA EvaluationImplies ==
    ASSUME EvaluationInv, Traits \subseteq Known
    PROVE  Upg!EvaluationSound
<1>1. Upg!PassedIsJudged
  <2> SUFFICES ASSUME NEW c \in Calls, NEW m \in DOMAIN passed[c]
               PROVE  m \in evaluating \/ judged[m] > passed[c][m]
    BY DEF Upg!PassedIsJudged
  <2>1. m \in Judged
    BY DEF EvaluationInv, CallsRight, CallRight
  <2>2. judged[m] \in Nat /\ passed[c][m] \in Int
    BY <2>1 DEF EvaluationInv, CallsRight, JudgedOrAhead
  <2>3. CASE passed[c][m] < judged[m]
    BY <2>2, <2>3
  <2>4. ASSUME NEW d \in Calls, Ahead(call[d], m)
        PROVE  m \in evaluating
    <3>1. m \in call[d].mine
      BY <2>1, <2>4 DEF EvaluationInv, CallsRight, CallRight
    <3>2. QED  BY <3>1 DEF EvaluationInv, Upg!OneJudge
  <2>5. QED  BY <2>3, <2>4 DEF EvaluationInv, JudgedOrAhead
<1>2. Upg!AllAnswered
  <2> SUFFICES ASSUME NEW c \in Calls, call[c].at = "done"
               PROVE  DOMAIN call[c].said = call[c].given \ DOMAIN passed[c]
    BY DEF Upg!AllAnswered
  <2>1. CallRight(call[c], DOMAIN passed[c])
    BY DEF EvaluationInv, CallsRight
  <2>2. QED  BY <2>1 DEF CallRight
<1>3. QED  BY <1>1, <1>2, TiersSay DEF EvaluationInv, Upg!EvaluationSound

LEMMA EvaluationInit ==
    ASSUME Upg!Init
    PROVE  EvaluationInv
<1>1. call = [c \in Calls |-> Upg!NoCall] /\ passed = [c \in Calls |-> [m \in {} |-> 0]]
  BY DEF Upg!Init
<1>2. \A c \in Calls : DOMAIN passed[c] = {} /\ CallRight(call[c], {}) /\ call[c].mine = {}
  BY <1>1, NoCallRight
<1>3. CallsRight
  BY <1>1, <1>2 DEF CallsRight, Upg!Init
<1>4. Upg!OneJudge
  BY <1>2 DEF Upg!OneJudge, Upg!Init
<1>5. JudgedOrAhead
  BY <1>2 DEF JudgedOrAhead
<1>6. QED  BY <1>3, <1>4, <1>5 DEF EvaluationInv

\* One evaluation turns into k, which keeps to its account.
LEMMA OneCallMoves ==
    ASSUME EvaluationInv, NEW c \in Calls, NEW k, NEW over,
           call' = [call EXCEPT ![c] = k], passed' = [passed EXCEPT ![c] = over],
           CallRight(k, DOMAIN over), judged' \in [Judged -> Nat]
    PROVE  /\ CallsRight'
           /\ call'[c] = k /\ passed'[c] = over
           /\ \A d \in Calls \ {c} : call'[d] = call[d] /\ passed'[d] = passed[d]
<1>1. /\ DOMAIN call = Calls /\ DOMAIN passed = Calls
  BY DEF EvaluationInv, CallsRight
<1>2. /\ call'[c] = k /\ passed'[c] = over
      /\ \A d \in Calls \ {c} : call'[d] = call[d] /\ passed'[d] = passed[d]
  BY <1>1
<1>3. call' = [d \in Calls |-> call'[d]] /\ passed' = [d \in Calls |-> passed'[d]]
  BY <1>1
<1>4. \A d \in Calls : CallRight(call'[d], DOMAIN passed'[d])
  BY <1>2 DEF EvaluationInv, CallsRight
<1>5. QED  BY <1>2, <1>3, <1>4 DEF CallsRight

\* An evaluation begins.
LEMMA EvaluateKeeps ==
    ASSUME EvaluationInv, BatchSize \in Nat \ {0}, IsFiniteSet(Judged),
           NEW c \in Calls, NEW kind \in {"working", "episodic"}, Upg!Evaluate(c, kind)
    PROVE  EvaluationInv'
<1> DEFINE given == {m \in Judged : judgedLayer[m] = kind}
           ask == Upg!ForModel(kind, given)
           sure == [m \in given \ ask |-> Upg!Sure(kind, m)]
           mine == Upg!Free(ask)
           over == [m \in ask \ mine |-> Upg!Before(m)]
<1>1. /\ call[c].at = "idle" /\ evaluating' = evaluating \cup mine /\ judged' = judged
      /\ passed' = [passed EXCEPT ![c] = over]
  BY DEF Upg!Evaluate
<1>2. PICK todo \in Upg!Batches(mine) :
        call' = [call EXCEPT ![c] =
                [at |-> IF mine = {} THEN "done" ELSE "wait", kind |-> kind, given |-> given,
                 todo |-> todo, mine |-> mine, said |-> sure, sure |-> DOMAIN sure]]
  BY DEF Upg!Evaluate
<1>3. ask \subseteq given /\ given \subseteq Judged
  BY DEF Upg!ForModel
<1>4. mine = ask \ evaluating
  BY DEF Upg!Free
<1> DEFINE k == [at |-> IF mine = {} THEN "done" ELSE "wait", kind |-> kind, given |-> given,
                 todo |-> todo, mine |-> mine, said |-> sure, sure |-> DOMAIN sure]
<1>5. DOMAIN sure = given \ ask /\ DOMAIN over = ask \ mine
  OBVIOUS
<1>6. call' = [call EXCEPT ![c] = k]
  BY <1>2
<1>7. /\ k.at = (IF mine = {} THEN "done" ELSE "wait") /\ k.given = given /\ k.todo = todo
      /\ k.mine = mine /\ k.said = sure
      /\ k = [at |-> k.at, kind |-> k.kind, given |-> k.given, todo |-> k.todo, mine |-> k.mine,
              said |-> k.said, sure |-> k.sure]
  OBVIOUS
<1> HIDE DEF ask, given, mine, sure, over, k
<1>8. mine \in SUBSET Judged
  BY <1>3, <1>4
<1>9. /\ todo \in Seq(SUBSET Judged)
      /\ \A m : m \in mine <=> \E i \in DOMAIN todo : m \in todo[i]
      /\ \A i, j \in DOMAIN todo : i # j => todo[i] \cap todo[j] = {}
  BY <1>2, <1>8, BatchesCut
<1>10. \A m : Ahead(k, m) <=> m \in mine
  BY <1>7, <1>9 DEF Ahead
<1>11. mine # {} => todo # <<>>
  BY <1>9
<1>12. CallRight(k, DOMAIN over)
  <2>1. k.todo \in Seq(SUBSET Judged) /\ k.mine \subseteq Judged /\ k.given \subseteq Judged
        /\ DOMAIN k.said \subseteq Judged /\ DOMAIN over \subseteq Judged
    BY <1>3, <1>5, <1>7, <1>8, <1>9
  <2>2. \A i, j \in DOMAIN k.todo : i # j => k.todo[i] \cap k.todo[j] = {}
    BY <1>7, <1>9
  <2>3. \A m \in Judged : Ahead(k, m) => m \in k.mine /\ m \in k.given /\ m \notin DOMAIN over
    BY <1>3, <1>4, <1>5, <1>7, <1>10
  <2>4. \A m \in Judged : m \in DOMAIN k.said <=> m \in k.given /\ m \notin DOMAIN over /\ ~Ahead(k, m)
    BY <1>3, <1>4, <1>5, <1>7, <1>10
  <2>5. /\ \A m \in k.mine : Ahead(k, m)
        /\ k.at \in {"idle", "wait", "ask", "sleep", "done"}
        /\ k.at \in {"wait", "ask", "sleep"} => k.todo # <<>>
        /\ k.at \in {"idle", "done"} => k.mine = {} /\ \A m \in Judged : ~Ahead(k, m)
    BY <1>7, <1>10, <1>11
  <2>6. QED  BY <1>7, <2>1, <2>2, <2>3, <2>4, <2>5 DEF CallRight
<1>13. judged' \in [Judged -> Nat]
  BY <1>1 DEF EvaluationInv, CallsRight
<1>14. /\ CallsRight' /\ call'[c] = k /\ passed'[c] = over
       /\ \A d \in Calls \ {c} : call'[d] = call[d] /\ passed'[d] = passed[d]
  BY <1>1, <1>6, <1>12, <1>13, OneCallMoves
<1>15. CallRight(call[c], DOMAIN passed[c]) /\ call[c].mine = {} /\ \A m \in Judged : ~Ahead(call[c], m)
  BY <1>1 DEF EvaluationInv, CallsRight, CallRight
<1>16. Upg!OneJudge'
  <2>1. \A d \in Calls \ {c} : call'[d].mine = call[d].mine /\ call[d].mine \subseteq evaluating
    BY <1>14 DEF EvaluationInv, Upg!OneJudge
  <2>2. call'[c].mine = mine /\ mine \cap evaluating = {}
    BY <1>4, <1>7, <1>14
  <2>3. \A d, e \in Calls : d # e => call'[d].mine \cap call'[e].mine = {}
    BY <2>1, <2>2 DEF EvaluationInv, Upg!OneJudge
  <2>4. \A m : m \in evaluating' <=> \E d \in Calls : m \in call'[d].mine
    <3>1. \A m : m \in evaluating <=> \E d \in Calls : m \in call[d].mine
      BY DEF EvaluationInv, Upg!OneJudge
    <3>2. QED  BY <3>1, <2>1, <2>2, <1>1, <1>15
  <2>5. evaluating' = UNION {call'[d].mine : d \in Calls}
    BY <2>4
  <2>6. QED  BY <2>3, <2>5 DEF Upg!OneJudge
<1>17. JudgedOrAhead'
  <2>1. \A d \in Calls : \A m \in Judged : Ahead(call[d], m) => Ahead(call'[d], m)
    BY <1>14, <1>15
  <2>2. \A d \in Calls \ {c} : DOMAIN passed[d] \subseteq Judged
    BY DEF EvaluationInv, CallsRight, CallRight
  <2>3. ASSUME NEW d \in Calls \ {c}, NEW m \in DOMAIN passed'[d]
        PROVE  /\ passed'[d][m] \in Int
               /\ \/ passed'[d][m] < judged'[m]
                  \/ passed'[d][m] <= judged'[m] /\ \E e \in Calls : Ahead(call'[e], m)
    BY <1>1, <1>14, <2>1, <2>2, <2>3 DEF EvaluationInv, JudgedOrAhead
  <2>4. ASSUME NEW m \in DOMAIN passed'[c]
        PROVE  /\ passed'[c][m] \in Int
               /\ \/ passed'[c][m] < judged'[m]
                  \/ passed'[c][m] <= judged'[m] /\ \E e \in Calls : Ahead(call'[e], m)
    <3>1. m \in ask \ mine /\ passed'[c][m] = Upg!Before(m)
      BY <2>4, <1>5, <1>14 DEF over
    <3>2. m \in Judged /\ m \in evaluating
      BY <3>1, <1>3, <1>4
    <3>3. judged[m] \in Nat /\ judged'[m] = judged[m]
      BY <3>2, <1>1 DEF EvaluationInv, CallsRight
    <3>4. PICK d \in Calls : m \in call[d].mine
      BY <3>2 DEF EvaluationInv, Upg!OneJudge
    <3>5. CASE m \in DOMAIN call[d].said
      <4>1. Upg!Before(m) = judged[m] - 1
        BY <3>4, <3>5 DEF Upg!Before
      <4>2. QED  BY <3>1, <3>3, <4>1
    <3>6. CASE m \notin DOMAIN call[d].said
      <4>1. Ahead(call[d], m)
        BY <3>4, <3>6 DEF EvaluationInv, CallsRight, CallRight
      <4>2. Upg!Before(m) = judged[m] \/ Upg!Before(m) = judged[m] - 1
        BY DEF Upg!Before
      <4>3. QED  BY <3>1, <3>2, <3>3, <4>1, <4>2, <2>1
    <3>7. QED  BY <3>5, <3>6
  <2>5. QED  BY <2>3, <2>4 DEF JudgedOrAhead
<1>18. QED  BY <1>14, <1>16, <1>17 DEF EvaluationInv

\* An evaluation waits for the semaphore, has it, or pauses.
LEMMA MoveKeeps ==
    ASSUME EvaluationInv, NEW c \in Calls, NEW x \in {"wait", "ask", "sleep"},
           call[c].at \in {"wait", "ask", "sleep"}, call' = [call EXCEPT ![c].at = x],
           passed' = passed, judged' = judged, evaluating' = evaluating
    PROVE  EvaluationInv'
<1> DEFINE k == [call[c] EXCEPT !.at = x]
<1>1. CallRight(call[c], DOMAIN passed[c]) /\ DOMAIN call = Calls /\ DOMAIN passed = Calls
      /\ passed = [d \in Calls |-> passed[d]]
  BY DEF EvaluationInv, CallsRight
<1>2. call' = [call EXCEPT ![c] = k]
  BY <1>1
<1>3. passed' = [passed EXCEPT ![c] = passed[c]]
  BY <1>1
<1>4. call[c] = [at |-> call[c].at, kind |-> call[c].kind, given |-> call[c].given, todo |-> call[c].todo,
                 mine |-> call[c].mine, said |-> call[c].said, sure |-> call[c].sure]
  BY <1>1 DEF CallRight
<1>5. /\ k.at = x /\ k.kind = call[c].kind /\ k.given = call[c].given /\ k.todo = call[c].todo
      /\ k.mine = call[c].mine /\ k.said = call[c].said /\ k.sure = call[c].sure
      /\ k = [at |-> k.at, kind |-> k.kind, given |-> k.given, todo |-> k.todo, mine |-> k.mine,
              said |-> k.said, sure |-> k.sure]
  BY <1>4
<1> HIDE DEF k
<1>6. \A m : Ahead(k, m) <=> Ahead(call[c], m)
  BY <1>5 DEF Ahead
<1>7. CallRight(k, DOMAIN passed[c])
  BY <1>1, <1>5, <1>6 DEF CallRight
<1>8. judged' \in [Judged -> Nat]
  BY DEF EvaluationInv, CallsRight
<1>9. /\ CallsRight' /\ call'[c] = k /\ passed'[c] = passed[c]
      /\ \A d \in Calls \ {c} : call'[d] = call[d] /\ passed'[d] = passed[d]
  BY <1>2, <1>3, <1>7, <1>8, OneCallMoves
<1>10. \A d \in Calls : call'[d].mine = call[d].mine /\ \A m : Ahead(call'[d], m) <=> Ahead(call[d], m)
  BY <1>5, <1>6, <1>9
<1>11. Upg!OneJudge'
  <2>1. \A d, e \in Calls : d # e => call'[d].mine \cap call'[e].mine = {}
    BY <1>10 DEF EvaluationInv, Upg!OneJudge
  <2>2. UNION {call'[d].mine : d \in Calls} = UNION {call[d].mine : d \in Calls}
    BY <1>10
  <2>3. QED  BY <2>1, <2>2 DEF EvaluationInv, Upg!OneJudge
<1>12. JudgedOrAhead'
  BY <1>10 DEF EvaluationInv, JudgedOrAhead
<1>13. QED  BY <1>9, <1>11, <1>12 DEF EvaluationInv

\* A batch is answered: its verdicts are said, and with the last one the hold ends.
LEMMA AnswerKeeps ==
    ASSUME EvaluationInv, NEW c \in Calls, NEW verdicts,
           call[c].at = "ask", DOMAIN verdicts = Head(call[c].todo), Upg!Answered(c, verdicts)
    PROVE  EvaluationInv'
<1>0. PICK k : k = call[c]
  OBVIOUS
<1>0a. PICK rest : rest = Tail(k.todo)
  OBVIOUS
<1> DEFINE over == rest = <<>>
           z == [k EXCEPT !.said = Upg!With(k.said, verdicts), !.todo = rest,
                          !.at = IF over THEN "done" ELSE "sleep", !.mine = IF over THEN {} ELSE k.mine]
<1>1. /\ call' = [call EXCEPT ![c] = z]
      /\ evaluating' = (IF over THEN evaluating \ k.mine ELSE evaluating)
      /\ judged' = [m \in Judged |-> judged[m] + IF m \in Head(k.todo) THEN 1 ELSE 0]
      /\ passed' = passed
  BY <1>0, <1>0a DEF Upg!Answered, Upg!Released
<1>2. CallRight(k, DOMAIN passed[c]) /\ DOMAIN call = Calls /\ DOMAIN passed = Calls
      /\ passed = [d \in Calls |-> passed[d]]
  BY <1>0 DEF EvaluationInv, CallsRight
<1>2a. k = [at |-> k.at, kind |-> k.kind, given |-> k.given, todo |-> k.todo, mine |-> k.mine,
            said |-> k.said, sure |-> k.sure]
  BY <1>2 DEF CallRight
<1> HIDE DEF over
<1>3. passed' = [passed EXCEPT ![c] = passed[c]]
  BY <1>1, <1>2
<1>4. /\ z.at = (IF over THEN "done" ELSE "sleep") /\ z.kind = k.kind /\ z.given = k.given
      /\ z.todo = rest /\ z.mine = (IF over THEN {} ELSE k.mine)
      /\ z.said = Upg!With(k.said, verdicts) /\ z.sure = k.sure
      /\ z = [at |-> z.at, kind |-> z.kind, given |-> z.given, todo |-> z.todo, mine |-> z.mine,
              said |-> z.said, sure |-> z.sure]
  <2>1. PICK x, mi, sa : /\ x = (IF over THEN "done" ELSE "sleep") /\ mi = (IF over THEN {} ELSE k.mine)
                         /\ sa = Upg!With(k.said, verdicts)
    OBVIOUS
  <2>2. PICK a, b, g, t, m, d, e : k = [at |-> a, kind |-> b, given |-> g, todo |-> t, mine |-> m,
                                        said |-> d, sure |-> e]
    BY <1>2a
  <2>3. z = [at |-> x, kind |-> b, given |-> g, todo |-> rest, mine |-> mi, said |-> sa, sure |-> e]
    <3>1. PICK k1 : k1 = [k EXCEPT !.said = sa]
      OBVIOUS
    <3>1a. k1 = [at |-> a, kind |-> b, given |-> g, todo |-> t, mine |-> m, said |-> sa, sure |-> e]
      BY ONLY <3>1, <2>2
    <3>2. PICK k2 : k2 = [k1 EXCEPT !.todo = rest]
      OBVIOUS
    <3>2a. k2 = [at |-> a, kind |-> b, given |-> g, todo |-> rest, mine |-> m, said |-> sa, sure |-> e]
      BY ONLY <3>1a, <3>2
    <3>3. PICK k3 : k3 = [k2 EXCEPT !.at = x]
      OBVIOUS
    <3>3a. k3 = [at |-> x, kind |-> b, given |-> g, todo |-> rest, mine |-> m, said |-> sa, sure |-> e]
      BY ONLY <3>2a, <3>3
    <3>4. [k3 EXCEPT !.mine = mi]
          = [at |-> x, kind |-> b, given |-> g, todo |-> rest, mine |-> mi, said |-> sa, sure |-> e]
      BY ONLY <3>3a
    <3>5. [k EXCEPT !.said = sa, !.todo = rest, !.at = x, !.mine = mi] = [k3 EXCEPT !.mine = mi]
      BY ONLY <3>1, <3>2, <3>3
    <3>6. z = [k EXCEPT !.said = sa, !.todo = rest, !.at = x, !.mine = mi]
      BY <2>1
    <3>7. QED  BY <3>4, <3>5, <3>6
  <2>4. QED  BY <2>1, <2>2, <2>3
<1>5. DOMAIN z.said = DOMAIN k.said \cup Head(k.todo)
  BY <1>0, <1>4 DEF Upg!With
<1>6. k.todo \in Seq(SUBSET Judged) /\ k.todo # <<>>
      /\ \A i, j \in DOMAIN k.todo : i # j => k.todo[i] \cap k.todo[j] = {}
  <2>1. call[c].at = "ask" /\ k.at = "ask"
    BY <1>0
  <2>2. QED  BY <1>2, <2>1 DEF CallRight
<1> HIDE DEF z
<1>7. /\ rest \in Seq(SUBSET Judged) /\ Head(k.todo) \in SUBSET Judged
      /\ \A m \in Head(k.todo) : Ahead(k, m)
      /\ \A m : Ahead(z, m) <=> Ahead(k, m) /\ m \notin Head(k.todo)
      /\ \A i, j \in DOMAIN rest : i # j => rest[i] \cap rest[j] = {}
  <2>0. PICK t : t = k.todo
    OBVIOUS
  <2>0a. t \in Seq(SUBSET Judged) /\ t # <<>>
         /\ \A i, j \in DOMAIN t : i # j => t[i] \cap t[j] = {}
    BY <1>6, <2>0
  <2>1. /\ Tail(t) \in Seq(SUBSET Judged) /\ Head(t) \in SUBSET Judged
        /\ \A m \in Head(t) : \E i \in DOMAIN t : m \in t[i]
        /\ \A m : (\E i \in DOMAIN Tail(t) : m \in Tail(t)[i])
                  <=> (\E i \in DOMAIN t : m \in t[i]) /\ m \notin Head(t)
        /\ \A i, j \in DOMAIN Tail(t) : i # j => Tail(t)[i] \cap Tail(t)[j] = {}
    BY <2>0a, FirstTaken
  <2>2. QED  BY <2>0, <2>1, <1>0a, <1>4 DEF Ahead
<1>8. over => \A m : ~Ahead(z, m)
  BY <1>4 DEF Ahead, over
<1>9. CallRight(z, DOMAIN passed[c])
  <2>1. /\ z.todo \in Seq(SUBSET Judged) /\ z.mine \subseteq Judged /\ z.given \subseteq Judged
        /\ DOMAIN z.said \subseteq Judged /\ DOMAIN passed[c] \subseteq Judged
        /\ \A i, j \in DOMAIN z.todo : i # j => z.todo[i] \cap z.todo[j] = {}
    BY <1>2, <1>4, <1>5, <1>7 DEF CallRight
  <2>2. \A m \in Judged : Ahead(z, m) => m \in z.mine /\ m \in z.given /\ m \notin DOMAIN passed[c]
    BY <1>2, <1>4, <1>7, <1>8 DEF CallRight
  <2>3. \A m \in Judged : m \in DOMAIN z.said <=> m \in z.given /\ m \notin DOMAIN passed[c] /\ ~Ahead(z, m)
    BY <1>2, <1>4, <1>5, <1>7 DEF CallRight
  <2>4. \A m \in z.mine : Ahead(z, m) \/ m \in DOMAIN z.said
    BY <1>2, <1>4, <1>5, <1>7 DEF CallRight
  <2>5. /\ z.at \in {"idle", "wait", "ask", "sleep", "done"}
        /\ z.at \in {"wait", "ask", "sleep"} => z.todo # <<>>
        /\ z.at \in {"idle", "done"} => z.mine = {} /\ \A m \in Judged : ~Ahead(z, m)
    BY <1>4, <1>8 DEF over
  <2>6. QED  BY <1>4, <2>1, <2>2, <2>3, <2>4, <2>5 DEF CallRight
<1>10. judged \in [Judged -> Nat] /\ judged' \in [Judged -> Nat]
  BY <1>1 DEF EvaluationInv, CallsRight
<1>11. /\ CallsRight' /\ call'[c] = z /\ passed'[c] = passed[c]
       /\ \A d \in Calls \ {c} : call'[d] = call[d] /\ passed'[d] = passed[d]
  BY <1>1, <1>3, <1>9, <1>10, OneCallMoves
<1>12. Upg!OneJudge'
  <2>1. \A d \in Calls \ {c} : call'[d].mine = call[d].mine /\ call[d].mine \cap k.mine = {}
    BY <1>0, <1>11 DEF EvaluationInv, Upg!OneJudge
  <2>2. call'[c].mine = (IF over THEN {} ELSE k.mine)
    BY <1>4, <1>11
  <2>3. \A d, e \in Calls : d # e => call'[d].mine \cap call'[e].mine = {}
    BY <2>1, <2>2 DEF EvaluationInv, Upg!OneJudge
  <2>4. \A m : m \in evaluating <=> \E d \in Calls : m \in call[d].mine
    BY DEF EvaluationInv, Upg!OneJudge
  <2>5. \A m : m \in evaluating' <=> \E d \in Calls : m \in call'[d].mine
    <3>1. CASE over
      BY <1>0, <1>1, <2>1, <2>2, <2>4, <3>1
    <3>2. CASE ~over
      BY <1>0, <1>1, <2>1, <2>2, <2>4, <3>2
    <3>3. QED  BY <3>1, <3>2
  <2>6. evaluating' = UNION {call'[d].mine : d \in Calls}
    BY <2>5
  <2>7. QED  BY <2>3, <2>6 DEF Upg!OneJudge
<1>13. JudgedOrAhead'
  <2> SUFFICES ASSUME NEW d \in Calls, NEW m \in DOMAIN passed[d]
               PROVE  /\ passed[d][m] \in Int
                      /\ \/ passed[d][m] < judged'[m]
                         \/ passed[d][m] <= judged'[m] /\ \E e \in Calls : Ahead(call'[e], m)
    BY <1>1 DEF JudgedOrAhead
  <2>1. m \in Judged
    BY DEF EvaluationInv, CallsRight, CallRight
  <2>2. judged[m] \in Nat /\ judged'[m] = judged[m] + (IF m \in Head(k.todo) THEN 1 ELSE 0)
    BY <1>1, <1>10, <2>1
  <2>3. /\ passed[d][m] \in Int
        /\ \/ passed[d][m] < judged[m]
           \/ passed[d][m] <= judged[m] /\ \E e \in Calls : Ahead(call[e], m)
    BY DEF EvaluationInv, JudgedOrAhead
  <2>4. CASE passed[d][m] < judged[m] \/ m \in Head(k.todo)
    BY <2>2, <2>3, <2>4
  <2>5. ASSUME NEW e \in Calls, Ahead(call[e], m), m \notin Head(k.todo)
        PROVE  Ahead(call'[e], m)
    BY <2>5, <1>0, <1>7, <1>11
  <2>6. QED  BY <2>2, <2>3, <2>4, <2>5
<1>14. QED  BY <1>11, <1>12, <1>13 DEF EvaluationInv

\* What an evaluation said is used, and it is over.
LEMMA UseKeeps ==
    ASSUME EvaluationInv, NEW c \in Calls, Upg!Use(c)
    PROVE  EvaluationInv'
<1>1. /\ call' = [call EXCEPT ![c] = Upg!NoCall] /\ passed' = [passed EXCEPT ![c] = [m \in {} |-> 0]]
      /\ call[c].at = "done" /\ evaluating' = evaluating /\ judged' = judged
  BY DEF Upg!Use
<1>2. DOMAIN [m \in {} |-> 0] = {}
  OBVIOUS
<1>3. CallRight(Upg!NoCall, DOMAIN [m \in {} |-> 0])
  BY <1>2, NoCallRight
<1>4. judged' \in [Judged -> Nat]
  BY <1>1 DEF EvaluationInv, CallsRight
<1>5. /\ CallsRight' /\ call'[c] = Upg!NoCall /\ passed'[c] = [m \in {} |-> 0]
      /\ \A d \in Calls \ {c} : call'[d] = call[d] /\ passed'[d] = passed[d]
  BY <1>1, <1>3, <1>4, OneCallMoves
<1>6. CallRight(call[c], DOMAIN passed[c])
  BY DEF EvaluationInv, CallsRight
<1>7. call[c].mine = {} /\ \A m \in Judged : ~Ahead(call[c], m)
  BY <1>1, <1>6 DEF CallRight
<1>8. \A d \in Calls : call'[d].mine = call[d].mine
  BY <1>5, <1>7, NoCallRight
<1>9. Upg!OneJudge'
  <2>1. \A d, e \in Calls : d # e => call'[d].mine \cap call'[e].mine = {}
    BY <1>8 DEF EvaluationInv, Upg!OneJudge
  <2>2. UNION {call'[d].mine : d \in Calls} = UNION {call[d].mine : d \in Calls}
    BY <1>8
  <2>3. QED  BY <1>1, <2>1, <2>2 DEF EvaluationInv, Upg!OneJudge
<1>10. JudgedOrAhead'
  <2>1. \A d \in Calls : \A m \in Judged : Ahead(call[d], m) => Ahead(call'[d], m)
    BY <1>5, <1>7
  <2>2. \A d \in Calls \ {c} : DOMAIN passed[d] \subseteq Judged
    BY DEF EvaluationInv, CallsRight, CallRight
  <2>3. DOMAIN passed'[c] = {}
    BY <1>5
  <2>4. ASSUME NEW d \in Calls \ {c}, NEW m \in DOMAIN passed'[d]
        PROVE  /\ passed'[d][m] \in Int
               /\ \/ passed'[d][m] < judged'[m]
                  \/ passed'[d][m] <= judged'[m] /\ \E e \in Calls : Ahead(call'[e], m)
    BY <1>1, <1>5, <2>1, <2>2, <2>4 DEF EvaluationInv, JudgedOrAhead
  <2>5. QED  BY <2>3, <2>4 DEF JudgedOrAhead
<1>11. QED  BY <1>5, <1>9, <1>10 DEF EvaluationInv

LEMMA EvaluationStep ==
    ASSUME EvaluationInv, BatchSize \in Nat \ {0}, IsFiniteSet(Judged), [Upg!Next]_(Upg!vars)
    PROVE  EvaluationInv'
<1>1. ASSUME NEW c \in Calls, NEW kind \in {"working", "episodic"}, Upg!Evaluate(c, kind)
      PROVE  EvaluationInv'
  BY <1>1, EvaluateKeeps
<1>2. ASSUME NEW c \in Calls, Upg!Acquire(c)
      PROVE  EvaluationInv'
  <2>1. call[c].at = "wait" /\ call' = [call EXCEPT ![c].at = "ask"] /\ passed' = passed
        /\ judged' = judged /\ evaluating' = evaluating
    BY <1>2 DEF Upg!Acquire
  <2>2. QED  BY <2>1, MoveKeeps
<1>3. ASSUME NEW c \in Calls, Upg!Answer(c)
      PROVE  EvaluationInv'
  <2>1. call[c].at = "ask"
    BY <1>3 DEF Upg!Answer
  <2>2. PICK verdicts : DOMAIN verdicts = Head(call[c].todo) /\ Upg!Answered(c, verdicts)
    BY <1>3 DEF Upg!Answer
  <2>3. QED  BY <2>1, <2>2, AnswerKeeps
<1>4. ASSUME NEW c \in Calls, Upg!Wake(c)
      PROVE  EvaluationInv'
  <2>1. call[c].at = "sleep" /\ call' = [call EXCEPT ![c].at = "wait"] /\ passed' = passed
        /\ judged' = judged /\ evaluating' = evaluating
    BY <1>4 DEF Upg!Wake
  <2>2. QED  BY <2>1, MoveKeeps
<1>5. ASSUME NEW c \in Calls, Upg!Use(c)
      PROVE  EvaluationInv'
  BY <1>5, UseKeeps
<1>6. ASSUME UNCHANGED <<call, passed, judged, evaluating>>
      PROVE  EvaluationInv'
  BY <1>6 DEF EvaluationInv, CallsRight, Upg!OneJudge, JudgedOrAhead
<1>7. CASE Upg!SetProvider \/ UNCHANGED Upg!vars
  BY <1>6, <1>7 DEF Upg!SetProvider, Upg!vars
<1>8. ASSUME NEW m \in Judged, Upg!Access(m)
      PROVE  EvaluationInv'
  BY <1>6, <1>8 DEF Upg!Access
<1>9. QED  BY <1>1, <1>2, <1>3, <1>4, <1>5, <1>7, <1>8 DEF Upg!Next

\* A memory is judged by one evaluation at a time, what one passes over another judges,
\* an evaluation says something of all else it was given, and the tiers agree with the
\* rules (_evaluating_memories and _classify_evaluation_tier, upgrade_evaluator.py).
THEOREM EvaluatesRight ==
    ASSUME BatchSize \in Nat \ {0}, IsFiniteSet(Judged), Traits \subseteq Known
    PROVE  Upg!Spec => []Upg!EvaluationSound
<1>1. Upg!Init => EvaluationInv
  BY EvaluationInit
<1>2. EvaluationInv /\ [Upg!Next]_(Upg!vars) => EvaluationInv'
  BY EvaluationStep
<1>3. EvaluationInv => Upg!EvaluationSound
  BY EvaluationImplies
<1>4. QED  BY <1>1, <1>2, <1>3, PTL DEF Upg!Spec

-----------------------------------------------------------------------------
(* Chat histories (ChatHistory).                                             *)

\* b holds the numbers up to top without a gap.
UpTo(b, top) == b \in Seq(Nat) /\ \A i \in 1..Len(b) : b[i] = top - Len(b) + i

HistoryInv ==
    /\ limit \in Nat /\ said \in [Talks -> Nat]
    /\ buffers = [c \in Talks |-> buffers[c]]
    /\ \A c \in Talks : UpTo(buffers[c], said[c]) /\ Len(buffers[c]) <= limit
    /\ saved = [limit |-> saved.limit, buffers |-> [c \in Talks |-> saved.buffers[c]]]
    /\ saved.limit \in Nat
    /\ \A c \in Talks : (\E top \in Nat : UpTo(saved.buffers[c], top)) /\ Len(saved.buffers[c]) <= saved.limit

\* The newest n of a gapless tail are one.
LEMMA NewestKeeps ==
    ASSUME NEW b, NEW top \in Nat, UpTo(b, top), NEW n \in Nat
    PROVE  UpTo(Hist!Newest(b, n), top) /\ Len(Hist!Newest(b, n)) <= n
<1>1. b \in Seq(Nat) /\ Len(b) \in Nat
  BY DEF UpTo
<1>2. CASE Len(b) > n
  <2>1. Hist!Newest(b, n) = SubSeq(b, Len(b) - n + 1, Len(b))
    BY <1>2 DEF Hist!Newest
  <2> DEFINE from == Len(b) - n + 1
             s == SubSeq(b, from, Len(b))
  <2>2. from \in 1..(Len(b) + 1) /\ from \in Int
    BY <1>1, <1>2
  <2>3. s \in Seq(Nat) /\ Len(s) = n /\ \A i \in 1..n : s[i] = b[from + i - 1]
    <3>1. CASE n = 0
      BY <1>1, <2>2, <3>1
    <3>2. CASE n # 0
      BY <1>1, <1>2, <2>2, <3>2
    <3>3. QED  BY <3>1, <3>2
  <2>4. \A i \in 1..n : from + i - 1 \in 1..Len(b) /\ b[from + i - 1] = top - Len(b) + (from + i - 1)
    <3>1. \A i \in 1..n : from + i - 1 \in 1..Len(b)
      BY <1>1, <1>2
    <3>2. QED  BY <3>1 DEF UpTo
  <2>5. \A i \in 1..n : s[i] = top - n + i
    <3>1. \A i \in 1..n : top - Len(b) + (from + i - 1) = top - n + i
      BY <1>1
    <3>2. QED  BY <2>3, <2>4, <3>1
  <2>6. Hist!Newest(b, n) = s
    BY <2>1
  <2> HIDE DEF s
  <2>7. \A i \in 1..Len(s) : s[i] = top - Len(s) + i
    BY <2>3, <2>5
  <2>8. UpTo(s, top) /\ Len(s) <= n
    BY <2>3, <2>7 DEF UpTo
  <2>9. QED  BY <2>6, <2>8
<1>3. CASE ~(Len(b) > n)
  BY <1>1, <1>3 DEF Hist!Newest
<1>4. QED  BY <1>2, <1>3

\* A message more is the next number.
LEMMA SaidOneMore ==
    ASSUME NEW b, NEW top \in Nat, UpTo(b, top)
    PROVE  UpTo(Append(b, top + 1), top + 1)
<1>1. b \in Seq(Nat) /\ Len(b) \in Nat
  BY DEF UpTo
<1> DEFINE a == Append(b, top + 1)
<1>2. a \in Seq(Nat) /\ Len(a) = Len(b) + 1
  BY <1>1
<1>3. \A i \in 1..Len(b) : a[i] = b[i] /\ b[i] = top - Len(b) + i
  BY <1>1 DEF UpTo
<1>4. a[Len(b) + 1] = top + 1
  BY <1>1
<1> HIDE DEF a
<1>5. \A i \in 1..Len(a) : a[i] = (top + 1) - Len(a) + i
  <2> SUFFICES ASSUME NEW i \in 1..Len(a)
               PROVE  a[i] = (top + 1) - Len(a) + i
    OBVIOUS
  <2>1. CASE i = Len(b) + 1
    BY <1>1, <1>2, <1>4, <2>1
  <2>2. CASE i # Len(b) + 1
    <3>1. i \in 1..Len(b)
      BY <1>1, <1>2, <2>2
    <3>2. QED  BY <1>1, <1>2, <1>3, <3>1
  <2>3. QED  BY <2>1, <2>2
<1>6. UpTo(a, top + 1)
  BY <1>2, <1>5 DEF UpTo
<1>7. QED  BY <1>6 DEF a

\* The last of a gapless tail is what it goes up to.
LEMMA LastIsTop ==
    ASSUME NEW b, NEW top \in Nat, UpTo(b, top), b # <<>>
    PROVE  b[Len(b)] = top
<1>1. b \in Seq(Nat) /\ Len(b) \in Nat /\ Len(b) # 0
  BY DEF UpTo
<1>2. Len(b) \in 1..Len(b)
  BY <1>1
<1>3. b[Len(b)] = top - Len(b) + Len(b)
  BY <1>2 DEF UpTo
<1>4. QED  BY <1>1, <1>3

\* No message at all goes up to anything.
LEMMA NoneIsUpTo == \A top : UpTo(<<>>, top) /\ Len(<<>>) = 0
BY DEF UpTo

LEMMA HistoryInit ==
    ASSUME ConfigLimit \in Nat, Hist!Init
    PROVE  HistoryInv
<1>1. limit \in Nat /\ said \in [Talks -> Nat] /\ buffers = [c \in Talks |-> <<>>]
      /\ saved = [limit |-> 0, buffers |-> [c \in Talks |-> <<>>]]
  BY DEF Hist!Init, Hist!Nothing
<1>2. /\ saved.limit = 0 /\ saved.buffers = [c \in Talks |-> <<>>]
      /\ \A c \in Talks : buffers[c] = <<>> /\ saved.buffers[c] = <<>>
  BY <1>1
<1>3. saved.buffers = [c \in Talks |-> saved.buffers[c]]
  BY <1>2
<1>4. saved = [limit |-> saved.limit, buffers |-> [c \in Talks |-> saved.buffers[c]]]
  BY <1>1, <1>2, <1>3
<1>5. \A c \in Talks : UpTo(buffers[c], said[c]) /\ Len(buffers[c]) <= limit
  BY <1>1, <1>2, NoneIsUpTo
<1>6. \A c \in Talks : UpTo(saved.buffers[c], 0) /\ Len(saved.buffers[c]) <= saved.limit
  BY <1>2, NoneIsUpTo
<1>7. buffers = [c \in Talks |-> buffers[c]]
  BY <1>1
<1>8. QED  BY <1>1, <1>2, <1>4, <1>5, <1>6, <1>7 DEF HistoryInv

\* One chat's buffer, or all of them, turn into what goes up to what was said and fits.
LEMMA BuffersChange ==
    ASSUME HistoryInv, saved' = saved, limit' \in Nat, said' \in [Talks -> Nat],
           buffers' = [c \in Talks |-> buffers'[c]],
           \A c \in Talks : UpTo(buffers'[c], said'[c]) /\ Len(buffers'[c]) <= limit'
    PROVE  HistoryInv'
BY DEF HistoryInv

LEMMA HistoryStep ==
    ASSUME HistoryInv, ConfigLimit \in Nat, Limits \subseteq Nat, [Hist!Next]_(Hist!vars)
    PROVE  HistoryInv'
<1>1. /\ limit \in Nat /\ said \in [Talks -> Nat] /\ DOMAIN buffers = Talks
      /\ \A c \in Talks : said[c] \in Nat /\ UpTo(buffers[c], said[c]) /\ Len(buffers[c]) <= limit
  BY DEF HistoryInv
<1>2. ASSUME NEW c \in Talks, Hist!AddMessage(c)
      PROVE  HistoryInv'
  <2>1. /\ said' = [said EXCEPT ![c] = said[c] + 1] /\ limit' = limit /\ saved' = saved
        /\ buffers' = [buffers EXCEPT ![c] = Hist!Newest(Append(buffers[c], said'[c]), limit)]
    BY <1>2 DEF Hist!AddMessage
  <2>2. said' \in [Talks -> Nat] /\ said'[c] = said[c] + 1 /\ \A d \in Talks \ {c} : said'[d] = said[d]
    BY <1>1, <2>1
  <2>3. /\ buffers' = [d \in Talks |-> buffers'[d]]
        /\ buffers'[c] = Hist!Newest(Append(buffers[c], said[c] + 1), limit)
        /\ \A d \in Talks \ {c} : buffers'[d] = buffers[d]
    BY <1>1, <2>1, <2>2
  <2>4. UpTo(Append(buffers[c], said[c] + 1), said[c] + 1)
    BY <1>1, SaidOneMore
  <2>5. UpTo(buffers'[c], said'[c]) /\ Len(buffers'[c]) <= limit
    <3>1. said[c] + 1 \in Nat
      BY <1>1
    <3>2. QED  BY <1>1, <2>2, <2>3, <2>4, <3>1, NewestKeeps
  <2>6. \A d \in Talks : UpTo(buffers'[d], said'[d]) /\ Len(buffers'[d]) <= limit'
    BY <1>1, <2>1, <2>2, <2>3, <2>5
  <2>7. QED  BY <1>1, <2>1, <2>2, <2>3, <2>6, BuffersChange
<1>3. ASSUME NEW n \in Limits, Hist!SetMaxMessages(n)
      PROVE  HistoryInv'
  <2>1. limit' = n /\ said' = said /\ saved' = saved
        /\ buffers' = [c \in Talks |-> Hist!Newest(buffers[c], n)]
    BY <1>3 DEF Hist!SetMaxMessages, Hist!Rebuilt
  <2>2. buffers' = [c \in Talks |-> buffers'[c]]
    BY <2>1
  <2>3. n \in Nat
    BY <1>3
  <2>4. \A c \in Talks : UpTo(Hist!Newest(buffers[c], n), said[c]) /\ Len(Hist!Newest(buffers[c], n)) <= n
    BY <1>1, <2>3, NewestKeeps
  <2>5. \A c \in Talks : UpTo(buffers'[c], said'[c]) /\ Len(buffers'[c]) <= limit'
    BY <2>1, <2>4
  <2>6. QED  BY <1>1, <2>1, <2>2, <2>3, <2>5, BuffersChange
<1>4. ASSUME NEW cs \in SUBSET Talks, Hist!Clear(cs)
      PROVE  HistoryInv'
  <2>1. limit' = limit /\ said' = said /\ saved' = saved
        /\ buffers' = [c \in Talks |-> IF c \in cs THEN <<>> ELSE buffers[c]]
    BY <1>4 DEF Hist!Clear
  <2>2. buffers' = [c \in Talks |-> buffers'[c]]
    BY <2>1
  <2>3. \A c \in Talks : UpTo(buffers'[c], said'[c]) /\ Len(buffers'[c]) <= limit'
    BY <1>1, <2>1, NoneIsUpTo
  <2>4. QED  BY <1>1, <2>1, <2>2, <2>3, BuffersChange
<1>5. CASE Hist!Save
  <2>1. limit' = limit /\ said' = said /\ buffers' = buffers
        /\ saved' = [limit |-> limit, buffers |-> buffers]
    BY <1>5 DEF Hist!Save
  <2>2. saved'.limit = limit /\ saved'.buffers = buffers
    BY <2>1
  <2>3. buffers = [c \in Talks |-> buffers[c]]
    BY DEF HistoryInv
  <2>4. saved' = [limit |-> saved'.limit, buffers |-> [c \in Talks |-> saved'.buffers[c]]]
    BY <2>1, <2>2, <2>3
  <2>5. \A c \in Talks : (\E top \in Nat : UpTo(saved'.buffers[c], top)) /\ Len(saved'.buffers[c]) <= saved'.limit
    BY <1>1, <2>2
  <2>6. QED  BY <1>1, <2>1, <2>2, <2>3, <2>4, <2>5 DEF HistoryInv
<1>6. CASE Hist!Restart
  <2>1. /\ limit' = Hist!Loaded /\ buffers' = saved.buffers /\ saved' = saved
        /\ said' = [c \in Talks |-> LET b == saved.buffers[c] IN IF b = <<>> THEN 0 ELSE b[Len(b)]]
    BY <1>6 DEF Hist!Restart
  <2>2. /\ saved = [limit |-> saved.limit, buffers |-> [c \in Talks |-> saved.buffers[c]]]
        /\ saved.limit \in Nat
        /\ \A c \in Talks : (\E top \in Nat : UpTo(saved.buffers[c], top)) /\ Len(saved.buffers[c]) <= saved.limit
    BY DEF HistoryInv
  <2>3. saved.buffers = [c \in Talks |-> saved.buffers[c]]
    BY <2>2
  <2>4. \A c \in Talks : said'[c] \in Nat /\ UpTo(buffers'[c], said'[c])
    <3> SUFFICES ASSUME NEW c \in Talks
                 PROVE  said'[c] \in Nat /\ UpTo(buffers'[c], said'[c])
      OBVIOUS
    <3>1. PICK top \in Nat : UpTo(saved.buffers[c], top)
      BY <2>2
    <3>2. CASE saved.buffers[c] = <<>>
      BY <2>1, <3>2, NoneIsUpTo
    <3>3. CASE saved.buffers[c] # <<>>
      BY <2>1, <3>1, <3>3, LastIsTop
    <3>4. QED  BY <3>2, <3>3
  <2>5. said' \in [Talks -> Nat]
    BY <2>1, <2>4
  <2>6. limit' \in Nat /\ \A c \in Talks : Len(buffers'[c]) <= limit'
    <3>1. CASE saved = Hist!Nothing
      <4>1. \A c \in Talks : buffers'[c] = <<>>
        BY <2>1, <3>1 DEF Hist!Nothing
      <4>2. limit' = ConfigLimit
        BY <2>1, <3>1 DEF Hist!Loaded
      <4>3. QED  BY <4>1, <4>2, NoneIsUpTo
    <3>2. CASE saved # Hist!Nothing
      BY <2>1, <2>2, <3>2 DEF Hist!Loaded
    <3>3. QED  BY <3>1, <3>2
  <2>7. buffers' = [c \in Talks |-> buffers'[c]]
    BY <2>1, <2>3
  <2>8. QED  BY <2>1, <2>4, <2>5, <2>6, <2>7, BuffersChange
<1>7. CASE UNCHANGED Hist!vars
  BY <1>7 DEF Hist!vars, HistoryInv
<1>8. QED  BY <1>2, <1>3, <1>4, <1>5, <1>6, <1>7 DEF Hist!Next

\* What the model is shown of a chat is its recent past without a gap, and no buffer
\* outgrows its limit, whatever is set, cleared, saved and loaded (ChatHistoryBuffer).
THEOREM HistoriesRight ==
    ASSUME ConfigLimit \in Nat, Limits \subseteq Nat
    PROVE  Hist!Spec => []Hist!ChatHistorySound
<1>1. Hist!Init => HistoryInv
  BY HistoryInit
<1>2. HistoryInv /\ [Hist!Next]_(Hist!vars) => HistoryInv'
  BY HistoryStep
<1>3. HistoryInv => Hist!ChatHistorySound
  <2> SUFFICES ASSUME HistoryInv
               PROVE  Hist!HistoryIsRecentTail /\ Hist!HistoryFits
    BY DEF Hist!ChatHistorySound
  <2>1. ASSUME NEW c \in Talks
        PROVE  buffers[c] = [i \in 1..Len(buffers[c]) |-> said[c] - Len(buffers[c]) + i]
    <3>1. UpTo(buffers[c], said[c])
      BY DEF HistoryInv
    <3>2. buffers[c] \in Seq(Nat) /\ DOMAIN buffers[c] = 1..Len(buffers[c])
      BY <3>1 DEF UpTo
    <3>3. QED  BY <3>1, <3>2 DEF UpTo
  <2>2. Hist!HistoryIsRecentTail
    BY <2>1 DEF Hist!HistoryIsRecentTail
  <2>3. Hist!HistoryFits
    BY DEF HistoryInv, Hist!HistoryFits
  <2>4. QED  BY <2>2, <2>3
<1>4. QED  BY <1>1, <1>2, <1>3, PTL DEF Hist!Spec

-----------------------------------------------------------------------------
(* What is kept in the key-value store (Persistence).                        *)

Content == [change : Nat, empty : BOOLEAN]
Holds == {"nothing", "newest", "overtaken"}
Place(n) == IF n = 0 THEN 4 ELSE n
SavedKey(s) == Persist!Order[at[s]]

PersistTypes ==
    /\ phase \in {"down", "loading", "up", "stopping"} /\ quiet \in BOOLEAN /\ putKnown \in BOOLEAN
    /\ mem \in [Persist!Keys -> Content] /\ kv \in [Persist!Keys -> Content]
    /\ changes \in Nat /\ at \in [Persist!Rows -> 0..3] /\ unread \subseteq Persist!Keys
    /\ took \in [Persist!Saves -> Content] /\ hold \in [Persist!Saves -> Holds]

\* No save is under way while the plugin is down or loads, nor that of a stop while it is
\* up; a key that is still to be loaded is not read yet; the first save_to_kv tells how
\* to put.
SavesInPhase ==
    /\ phase \in {"down", "loading"} => \A s \in Persist!Saves : at[s] = 0
    /\ phase # "stopping" => at["stop"] = 0
    /\ phase = "loading" /\ at["load"] # 0 =>
         \A i \in 1..3 : at["load"] <= i => Persist!Order[i] \in unread
    /\ at["auto"] \in {0, 2}
    /\ \A s \in Persist!Saves : /\ at[s] = 0 => hold[s] = "nothing"
                                /\ at[s] # 0 => putKnown

\* What the save of an undisturbed stop has passed is kept, and what it and the save of
\* the queues hold is what is.
Kept(k) == kv[k] = mem[k] \/ (k = "personas" /\ mem[k].empty)
StopSaves ==
    phase \in {"stopping", "down"} /\ quiet =>
        /\ \A c \in SavingCommands : at[c] = 0
        /\ \A i \in 1..3 : i < Place(at["stop"]) => Kept(Persist!Order[i])
        /\ \A s \in Persist!Saves : hold[s] # "nothing" => took[s] = mem[SavedKey(s)]

\* No change is newer than the last. What is in memory is as new as what a save holds of
\* it, and both are as new as the store, but for what was not loaded and what another
\* save overtook.
AsNew(change, k) == change >= kv[k].change \/ (k \in unread /\ change = 0)
NeverBehind ==
    /\ \A k \in Persist!Keys : /\ mem[k].change <= changes /\ kv[k].change <= changes
                               /\ AsNew(mem[k].change, k)
    /\ \A s \in Persist!Saves : hold[s] # "nothing" =>
         /\ took[s].change <= mem[SavedKey(s)].change
         /\ hold[s] = "newest" => AsNew(took[s].change, SavedKey(s))

PersistInv == PersistTypes /\ SavesInPhase /\ StopSaves /\ NeverBehind

\* The keys, their order and the rows.
LEMMA OrderOfKeys ==
    /\ Persist!Keys = {"sessions", "queues", "personas"} /\ Len(Persist!Order) = 3
    /\ \A i \in 1..3 : Persist!Order[i] \in Persist!Keys
    /\ \A i, j \in 1..3 : Persist!Order[i] = Persist!Order[j] => i = j
    /\ \A k \in Persist!Keys : \E i \in 1..3 : Persist!Order[i] = k
    /\ Persist!Order[3] = "personas" /\ Persist!Queues = 2
    /\ Persist!Rows = Persist!Saves \cup {"load"} /\ "load" \notin Persist!Saves
    /\ Persist!Saves = SavingCommands \cup {"stop", "auto"}
    /\ "stop" \notin SavingCommands /\ "auto" \notin SavingCommands
    /\ Persist!Nothing \in Content /\ Persist!Nothing.change = 0
    /\ Persist!Rest \in Content /\ Persist!Rest.change = 0
<1> DEFINE O == Persist!Order
<1>1. /\ O[1] = "sessions" /\ O[2] = "queues" /\ O[3] = "personas" /\ DOMAIN O = 1..3 /\ Len(O) = 3
  BY DEF Persist!Order
<1> HIDE DEF O
<1>2. \A i \in 1..3 : i = 1 \/ i = 2 \/ i = 3
  OBVIOUS
<1>3. Persist!Keys = {O[i] : i \in 1..3}
  BY <1>1 DEF Persist!Keys, Persist!Range, O
<1>4. {O[i] : i \in 1..3} = {"sessions", "queues", "personas"}
  BY <1>1, <1>2
<1>5. /\ \A i \in 1..3 : O[i] \in Persist!Keys
      /\ \A i, j \in 1..3 : O[i] = O[j] => i = j
      /\ \A k \in Persist!Keys : \E i \in 1..3 : O[i] = k
  BY <1>1, <1>2, <1>3
<1>6. /\ Persist!Rows = Persist!Saves \cup {"load"} /\ "load" \notin Persist!Saves
      /\ Persist!Saves = SavingCommands \cup {"stop", "auto"}
      /\ "stop" \notin SavingCommands /\ "auto" \notin SavingCommands
  BY StorageAssumption DEF Persist!Saves, Persist!Rows
<1>7. /\ Persist!Nothing \in Content /\ Persist!Nothing.change = 0
      /\ Persist!Rest \in Content /\ Persist!Rest.change = 0
  BY DEF Persist!Nothing, Persist!Rest, Content
<1>8. QED  BY <1>1, <1>3, <1>4, <1>5, <1>6, <1>7 DEF O, Persist!Queues

\* A row goes on to its next key, or is done.
LEMMA RowGoesOn ==
    ASSUME PersistTypes, NEW r \in Persist!Rows, at[r] # 0, Persist!Next1(r)
    PROVE  /\ at' \in [Persist!Rows -> 0..3] /\ at[r] \in 1..3
           /\ r # "auto" => Place(at'[r]) = at[r] + 1
           /\ r = "auto" => at'[r] = 0
           /\ \A q \in Persist!Rows \ {r} : at'[q] = at[q]
<1>1. at' = [at EXCEPT ![r] = IF r = "auto" \/ at[r] = 3 THEN 0 ELSE at[r] + 1] /\ at[r] \in 0..3
      /\ at \in [Persist!Rows -> 0..3]
  BY OrderOfKeys DEF Persist!Next1, PersistTypes
<1>2. at[r] \in 1..3
  BY <1>1
<1>3. at'[r] = (IF r = "auto" \/ at[r] = 3 THEN 0 ELSE at[r] + 1) /\ at'[r] \in 0..3
  BY <1>1, <1>2
<1>4. QED  BY <1>1, <1>2, <1>3 DEF Place

\* A row is given up or set to a key.
LEMMA RowSet ==
    ASSUME PersistTypes, NEW r \in Persist!Rows, NEW n \in {0, 1}, at' = [at EXCEPT ![r] = n]
    PROVE  /\ at' \in [Persist!Rows -> 0..3] /\ at'[r] = n
           /\ \A q \in Persist!Rows \ {r} : at'[q] = at[q]
BY DEF PersistTypes

LEMMA PersistInit ==
    ASSUME Persist!Init
    PROVE  PersistInv
<1>1. /\ phase = "down" /\ mem = [k \in Persist!Keys |-> Persist!Nothing]
      /\ kv = [k \in Persist!Keys |-> Persist!Nothing] /\ changes = 0
      /\ at = [r \in Persist!Rows |-> 0] /\ took = [s \in Persist!Saves |-> Persist!Nothing]
      /\ hold = [s \in Persist!Saves |-> "nothing"] /\ quiet = FALSE
      /\ putKnown = FALSE /\ unread = {}
  BY DEF Persist!Init, Persist!All
<1>2. "auto" \in Persist!Saves /\ "stop" \in Persist!Saves /\ Persist!Saves \subseteq Persist!Rows
  BY OrderOfKeys
<1>3. /\ \A k \in Persist!Keys : mem[k] = Persist!Nothing /\ kv[k] = Persist!Nothing
      /\ \A s \in Persist!Saves : at[s] = 0 /\ hold[s] = "nothing"
  BY <1>1, <1>2
<1>4. PersistTypes
  <2>1. mem \in [Persist!Keys -> Content] /\ kv \in [Persist!Keys -> Content]
    BY <1>1, OrderOfKeys
  <2>2. took \in [Persist!Saves -> Content] /\ hold \in [Persist!Saves -> Holds]
    BY <1>1, OrderOfKeys DEF Holds
  <2>3. at \in [Persist!Rows -> 0..3]
    BY <1>1
  <2>4. QED  BY <1>1, <2>1, <2>2, <2>3 DEF PersistTypes
<1>5. SavesInPhase
  BY <1>1, <1>2, <1>3 DEF SavesInPhase
<1>6. StopSaves
  BY <1>1 DEF StopSaves
<1>7. NeverBehind
  BY <1>1, <1>3, OrderOfKeys DEF NeverBehind, AsNew
<1>8. QED  BY <1>4, <1>5, <1>6, <1>7 DEF PersistInv

\* The loading: what is read is what is stored, what is not read stays unread.
LEMMA LoadKeeps ==
    ASSUME PersistInv, Persist!Start \/ Persist!Load \/ Persist!Loaded
    PROVE  PersistInv'
<1>1. /\ PersistTypes /\ SavesInPhase /\ StopSaves /\ NeverBehind
  BY DEF PersistInv
<1>2. /\ kv' = kv /\ changes' = changes /\ took' = took /\ hold' = hold /\ quiet' = quiet
      /\ phase \in {"down", "loading"} /\ phase' \in {"loading", "up"}
  BY DEF Persist!Start, Persist!Load, Persist!Loaded
<1>3. \A s \in Persist!Saves : at[s] = 0 /\ hold[s] = "nothing"
  BY <1>1, <1>2 DEF SavesInPhase
<1>4. StopSaves'
  BY <1>2 DEF StopSaves
<1>5. "auto" \in Persist!Saves /\ "stop" \in Persist!Saves /\ "load" \in Persist!Rows /\ "load" \notin Persist!Saves
  BY OrderOfKeys
<1>6. ASSUME \A s \in Persist!Saves : at'[s] = 0,
             \A k \in Persist!Keys : mem'[k].change <= changes /\ (mem'[k].change >= kv[k].change
                                       \/ (k \in unread' /\ mem'[k].change = 0))
      PROVE  NeverBehind'
  BY <1>1, <1>2, <1>3, <1>6 DEF NeverBehind, AsNew
<1>7. CASE Persist!Start
  <2>1. /\ phase' = "loading" /\ putKnown' = FALSE /\ unread' = Persist!Keys
        /\ mem' = [k \in Persist!Keys |-> Persist!Nothing] /\ at' = [at EXCEPT !["load"] = 1]
    BY <1>7 DEF Persist!Start, Persist!All
  <2>2. /\ at' \in [Persist!Rows -> 0..3] /\ at'["load"] = 1
        /\ \A q \in Persist!Saves : at'[q] = 0
    BY <1>1, <1>3, <2>1, RowSet, OrderOfKeys
  <2>3. \A k \in Persist!Keys : mem'[k] = Persist!Nothing
    BY <2>1
  <2>4. PersistTypes'
    BY <1>1, <1>2, <2>1, <2>2, OrderOfKeys DEF PersistTypes
  <2>5. SavesInPhase'
    BY <1>2, <1>3, <1>5, <2>1, <2>2, OrderOfKeys DEF SavesInPhase
  <2>6. NeverBehind'
    BY <1>1, <1>6, <2>1, <2>2, <2>3, OrderOfKeys DEF PersistTypes
  <2>7. QED  BY <1>4, <2>4, <2>5, <2>6 DEF PersistInv
<1>8. CASE Persist!Load
  <2>1. /\ phase = "loading" /\ phase' = "loading" /\ at["load"] # 0
        /\ at["load"] \in 1..3 /\ Persist!Order[at["load"]] \in Persist!Keys /\ putKnown' = putKnown
    BY <1>8, <1>1, OrderOfKeys DEF Persist!Load, PersistTypes
  <2> DEFINE k == Persist!Order[at["load"]]
  <2>2. \/ mem' = [mem EXCEPT ![k] = kv[k]] /\ unread' = unread \ {k} /\ Persist!Next1("load")
        \/ mem' = [mem EXCEPT ![k] = Persist!Rest] /\ unread' = unread /\ Persist!Next1("load")
        \/ mem' = mem /\ unread' = unread /\ Persist!Abort("load")
    BY <1>8 DEF Persist!Load
  <2>3. /\ at' \in [Persist!Rows -> 0..3]
        /\ \A q \in Persist!Saves : at'[q] = 0
        /\ at'["load"] = 0 \/ at'["load"] = at["load"] + 1
    <3>1. CASE Persist!Next1("load")
      BY <1>1, <1>3, <1>5, <2>1, <3>1, RowGoesOn, OrderOfKeys DEF Place
    <3>2. CASE Persist!Abort("load")
      BY <1>1, <1>3, <1>5, <3>2, RowSet, OrderOfKeys DEF Persist!Abort
    <3>3. QED  BY <2>2, <3>1, <3>2
  <2>4. k \in unread
    BY <1>1, <2>1 DEF SavesInPhase
  <2>5. /\ mem' \in [Persist!Keys -> Content] /\ unread' \subseteq Persist!Keys
        /\ unread' = unread \/ unread' = unread \ {k}
    <3>1. mem \in [Persist!Keys -> Content] /\ kv[k] \in Content /\ unread \subseteq Persist!Keys
      BY <1>1, <2>1 DEF PersistTypes
    <3>2. mem' \in [Persist!Keys -> Content]
      BY <2>1, <2>2, <3>1, OrderOfKeys
    <3>3. QED  BY <2>2, <3>1, <3>2
  <2>6. PersistTypes'
    BY <1>1, <1>2, <2>1, <2>3, <2>5 DEF PersistTypes
  <2>7. SavesInPhase'
    <3>1. ASSUME at'["load"] # 0, NEW i \in 1..3, at'["load"] <= i PROVE Persist!Order[i] \in unread'
      <4>1. at["load"] <= i /\ i # at["load"]
        BY <2>1, <2>3, <3>1
      <4>2. Persist!Order[i] \in unread /\ Persist!Order[i] # k
        BY <1>1, <2>1, <4>1, OrderOfKeys DEF SavesInPhase
      <4>3. QED  BY <2>5, <4>2
    <3>2. QED  BY <1>2, <1>3, <1>5, <2>1, <2>3, <3>1 DEF SavesInPhase
  <2>8. NeverBehind'
    <3>1. ASSUME NEW q \in Persist!Keys
          PROVE  mem'[q].change <= changes /\ (mem'[q].change >= kv[q].change
                                       \/ (q \in unread' /\ mem'[q].change = 0))
      <4>1. /\ mem[q].change <= changes /\ kv[q].change <= changes /\ AsNew(mem[q].change, q)
            /\ kv[q].change \in Nat /\ changes \in Nat
        BY <1>1 DEF NeverBehind, PersistTypes, Content
      <4>2. CASE q = k
        <5>1. mem'[q] = kv[q] \/ (unread' = unread /\ mem'[q] = Persist!Rest) \/ (unread' = unread /\ mem'[q] = mem[q])
          BY <1>1, <2>1, <2>2, <4>2 DEF PersistTypes
        <5>2. QED  BY <2>4, <4>1, <4>2, <5>1, OrderOfKeys DEF AsNew
      <4>3. CASE q # k
        <5>1. mem'[q] = mem[q] /\ (q \in unread => q \in unread')
          BY <1>1, <2>1, <2>2, <2>5, <4>3 DEF PersistTypes
        <5>2. QED  BY <4>1, <5>1 DEF AsNew
      <4>4. QED  BY <4>2, <4>3
    <3>2. QED  BY <1>6, <2>3, <3>1
  <2>9. QED  BY <1>4, <2>6, <2>7, <2>8 DEF PersistInv
<1>9. CASE Persist!Loaded
  <2>1. phase' = "up" /\ mem' = mem /\ at' = at /\ unread' = unread /\ putKnown' = putKnown
    BY <1>9 DEF Persist!Loaded
  <2>2. PersistTypes' /\ SavesInPhase'
    BY <1>1, <1>2, <1>3, <2>1, OrderOfKeys DEF PersistTypes, SavesInPhase
  <2>3. NeverBehind'
    BY <1>1, <1>3, <1>6, <2>1 DEF NeverBehind, AsNew
  <2>4. QED  BY <1>4, <2>2, <2>3 DEF PersistInv
<1>10. QED  BY <1>7, <1>8, <1>9

\* A save begins: of a command, of the stop, of the queues alone.
LEMMA BeginKeeps ==
    ASSUME PersistInv,
           (\E c \in SavingCommands : Persist!CommandSaves(c)) \/ Persist!Stop \/ Persist!AutoSaves
    PROVE  PersistInv'
<1>1. PersistTypes /\ SavesInPhase /\ StopSaves /\ NeverBehind
  BY DEF PersistInv
<1>2. PICK s \in Persist!Saves : \E n \in {1, 2} :
        /\ phase \in {"up", "stopping"} /\ at[s] = 0 /\ at' = [at EXCEPT ![s] = n]
        /\ mem' = mem /\ kv' = kv /\ changes' = changes /\ took' = took /\ hold' = hold /\ unread' = unread
        /\ putKnown' = TRUE
        /\ \/ s \in SavingCommands /\ phase = "up" /\ phase' = "up" /\ n = 1
              /\ quiet' = (\A other \in Persist!Saves : at[other] = 0)
           \/ s = "stop" /\ phase = "up" /\ phase' = "stopping" /\ n = 1
              /\ quiet' = (\A other \in Persist!Saves : at[other] = 0)
           \/ s = "auto" /\ phase' = phase /\ quiet' = quiet /\ n = 2
  <2>1. ASSUME NEW c \in SavingCommands, Persist!CommandSaves(c)
        PROVE  /\ phase = "up" /\ phase' = "up" /\ at[c] = 0 /\ Persist!BeginSave(c) /\ c \in Persist!Saves
    BY <2>1, OrderOfKeys DEF Persist!CommandSaves
  <2>2. CASE \E c \in SavingCommands : Persist!CommandSaves(c)
    BY <2>1, <2>2 DEF Persist!BeginSave
  <2>3. CASE Persist!Stop
    <3>1. "stop" \in Persist!Saves /\ at["stop"] = 0
      BY <1>1, <2>3, OrderOfKeys DEF SavesInPhase, Persist!Stop
    <3>2. QED  BY <2>3, <3>1 DEF Persist!Stop, Persist!BeginSave
  <2>4. CASE Persist!AutoSaves
    <3>1. "auto" \in Persist!Saves /\ putKnown
      BY <2>4, OrderOfKeys DEF Persist!AutoSaves
    <3>2. putKnown = TRUE
      BY <1>1, <3>1 DEF PersistTypes
    <3>3. QED  BY <2>4, <3>1, <3>2, OrderOfKeys DEF Persist!AutoSaves
  <2>5. QED  BY <2>2, <2>3, <2>4
<1>3. PICK n \in {1, 2} :
        /\ phase \in {"up", "stopping"} /\ at[s] = 0 /\ at' = [at EXCEPT ![s] = n]
        /\ mem' = mem /\ kv' = kv /\ changes' = changes /\ took' = took /\ hold' = hold /\ unread' = unread
        /\ putKnown' = TRUE
        /\ \/ s \in SavingCommands /\ phase = "up" /\ phase' = "up" /\ n = 1
              /\ quiet' = (\A other \in Persist!Saves : at[other] = 0)
           \/ s = "stop" /\ phase = "up" /\ phase' = "stopping" /\ n = 1
              /\ quiet' = (\A other \in Persist!Saves : at[other] = 0)
           \/ s = "auto" /\ phase' = phase /\ quiet' = quiet /\ n = 2
  BY <1>2
<1>4. /\ at' \in [Persist!Rows -> 0..3] /\ at'[s] = n /\ n # 0 /\ s \in Persist!Rows
      /\ \A q \in Persist!Rows \ {s} : at'[q] = at[q]
  <2>1. s \in Persist!Rows /\ n \in 0..3 /\ n # 0 /\ at \in [Persist!Rows -> 0..3]
    BY <1>1, OrderOfKeys DEF PersistTypes
  <2>2. QED  BY <1>3, <2>1
<1>5. "auto" \in Persist!Saves /\ "stop" \in Persist!Saves /\ Persist!Saves \subseteq Persist!Rows
      /\ SavingCommands \subseteq Persist!Saves /\ hold[s] = "nothing"
  BY <1>1, <1>3, OrderOfKeys DEF SavesInPhase
<1>6. PersistTypes'
  BY <1>1, <1>3, <1>4 DEF PersistTypes
<1>7. SavesInPhase'
  <2>1. \A q \in Persist!Saves : /\ at'[q] = 0 => hold'[q] = "nothing"
                                 /\ at'[q] # 0 => putKnown'
    BY <1>1, <1>3, <1>4, <1>5 DEF SavesInPhase
  <2>2. phase' \in {"up", "stopping"}
    BY <1>3
  <2>3. at'["auto"] \in {0, 2}
    BY <1>1, <1>3, <1>4, <1>5, OrderOfKeys DEF SavesInPhase
  <2>4. phase' # "stopping" => at'["stop"] = 0
    BY <1>1, <1>3, <1>4, <1>5, OrderOfKeys DEF SavesInPhase
  <2>5. QED  BY <2>1, <2>2, <2>3, <2>4 DEF SavesInPhase
<1>8. StopSaves'
  <2> SUFFICES ASSUME phase' \in {"stopping", "down"}, quiet'
               PROVE  /\ \A c \in SavingCommands : at'[c] = 0
                      /\ \A i \in 1..3 : i < Place(at'["stop"]) => Kept(Persist!Order[i])'
                      /\ \A q \in Persist!Saves : hold'[q] # "nothing" => took'[q] = mem'[SavedKey(q)']
    BY DEF StopSaves, SavedKey
  <2>1. CASE s = "stop"
    <3>1. \A q \in Persist!Saves : at[q] = 0 /\ hold[q] = "nothing"
      BY <1>1, <1>3, <2>1, OrderOfKeys DEF SavesInPhase
    <3>2. at'["stop"] = 1
      BY <1>3, <1>4, <2>1, OrderOfKeys
    <3>3. QED  BY <1>3, <1>4, <1>5, <2>1, <3>1, <3>2, OrderOfKeys DEF Place
  <2>2. CASE s # "stop"
    <3>1. s = "auto" /\ phase' = phase /\ quiet' = quiet
      BY <1>3, <2>2
    <3>2. /\ at'["stop"] = at["stop"] /\ \A c \in SavingCommands : at'[c] = at[c]
      BY <1>4, <1>5, <3>1, OrderOfKeys
    <3>3. \A q \in Persist!Saves : hold'[q] # "nothing" => at'[q] = at[q] /\ took'[q] = mem'[SavedKey(q)]
      BY <1>1, <1>3, <1>4, <1>5, <3>1 DEF StopSaves
    <3>4. \A i \in 1..3 : Kept(Persist!Order[i])' <=> Kept(Persist!Order[i])
      BY <1>3 DEF Kept
    <3>5. QED  BY <1>1, <3>1, <3>2, <3>3, <3>4 DEF StopSaves, SavedKey
  <2>3. QED  BY <2>1, <2>2
<1>9. NeverBehind'
  <2>1. \A q \in Persist!Saves : hold'[q] # "nothing" => SavedKey(q)' = SavedKey(q)
    BY <1>3, <1>4, <1>5 DEF SavedKey
  <2>2. QED  BY <1>1, <1>3, <2>1 DEF NeverBehind, AsNew
<1>10. QED  BY <1>6, <1>7, <1>8, <1>9 DEF PersistInv

\* A save takes what is in memory, or passes over a key.
LEMMA SerializeKeeps ==
    ASSUME PersistInv, NEW s \in Persist!Saves, Persist!Serialize(s)
    PROVE  PersistInv'
<1>1. PersistTypes /\ SavesInPhase /\ StopSaves /\ NeverBehind
  BY DEF PersistInv
<1> DEFINE k == SavedKey(s)
<1>2. /\ at[s] # 0 /\ hold[s] = "nothing" /\ s \in Persist!Rows
      /\ phase' = phase /\ mem' = mem /\ kv' = kv /\ changes' = changes /\ quiet' = quiet
      /\ putKnown' = putKnown /\ unread' = unread
      /\ \/ k = "personas" /\ mem[k].empty /\ Persist!Next1(s) /\ took' = took /\ hold' = hold
         \/ took' = [took EXCEPT ![s] = mem[k]] /\ hold' = [hold EXCEPT ![s] = "newest"] /\ at' = at
  BY OrderOfKeys DEF Persist!Serialize, Persist!Skipped, SavedKey
<1>3. at[s] \in 1..3 /\ k \in Persist!Keys /\ phase \in {"up", "stopping"}
  BY <1>1, <1>2, OrderOfKeys DEF PersistTypes, SavesInPhase, SavedKey
<1>4. CASE k = "personas" /\ mem[k].empty /\ Persist!Next1(s) /\ took' = took /\ hold' = hold
  <2>1. /\ at' \in [Persist!Rows -> 0..3]
        /\ s # "auto" => Place(at'[s]) = at[s] + 1
        /\ s = "auto" => at'[s] = 0
        /\ \A q \in Persist!Rows \ {s} : at'[q] = at[q]
    BY <1>1, <1>2, <1>4, RowGoesOn
  <2>2. \A q \in Persist!Saves : hold[q] # "nothing" => SavedKey(q)' = SavedKey(q)
    BY <1>2, <2>1, OrderOfKeys DEF SavedKey
  <2>3. PersistTypes'
    BY <1>1, <1>2, <1>4, <2>1 DEF PersistTypes
  <2>4. SavesInPhase'
    <3>1. \A q \in Persist!Saves : /\ at'[q] = 0 => hold'[q] = "nothing"
                                   /\ at'[q] # 0 => putKnown'
      BY <1>1, <1>2, <1>4, <2>1, OrderOfKeys DEF SavesInPhase
    <3>2. at'["auto"] \in {0, 2}
      BY <1>1, <2>1, OrderOfKeys DEF SavesInPhase
    <3>3. phase' # "stopping" => at'["stop"] = 0
      BY <1>1, <1>2, <2>1, OrderOfKeys DEF SavesInPhase
    <3>4. QED  BY <1>2, <1>3, <3>1, <3>2, <3>3 DEF SavesInPhase
  <2>5. StopSaves'
    <3> SUFFICES ASSUME phase' \in {"stopping", "down"}, quiet'
                 PROVE  /\ \A c \in SavingCommands : at'[c] = 0
                        /\ \A i \in 1..3 : i < Place(at'["stop"]) => Kept(Persist!Order[i])
                        /\ \A q \in Persist!Saves : hold[q] # "nothing" => took[q] = mem[SavedKey(q)]
      BY <1>2, <1>4, <2>2 DEF StopSaves, Kept
    <3>1. StopSaves /\ phase \in {"stopping", "down"} /\ quiet
      BY <1>1, <1>2
    <3>2. s \notin SavingCommands /\ \A c \in SavingCommands : at'[c] = 0
      BY <1>2, <2>1, <3>1, OrderOfKeys DEF StopSaves
    <3>3. ASSUME NEW i \in 1..3, i < Place(at'["stop"]) PROVE Kept(Persist!Order[i])
      <4>1. CASE s # "stop"
        <5>1. at'["stop"] = at["stop"]
          BY <2>1, <4>1, OrderOfKeys
        <5>2. QED  BY <3>1, <3>3, <5>1 DEF StopSaves
      <4>2. CASE s = "stop"
        <5>1. Place(at'["stop"]) = at["stop"] + 1 /\ Place(at["stop"]) = at["stop"]
          BY <1>3, <2>1, <4>2, OrderOfKeys DEF Place
        <5>2. i < at["stop"] \/ i = at["stop"]
          BY <1>3, <3>3, <4>2, <5>1
        <5>3. CASE i < at["stop"]
          BY <3>1, <5>1, <5>3 DEF StopSaves
        <5>4. CASE i = at["stop"]
          <6>1. Persist!Order[i] = k
            BY <4>2, <5>4 DEF SavedKey
          <6>2. QED  BY <1>4, <6>1 DEF Kept
        <5>5. QED  BY <5>2, <5>3, <5>4
      <4>3. QED  BY <4>1, <4>2
    <3>4. QED  BY <3>1, <3>2, <3>3 DEF StopSaves
  <2>6. NeverBehind'
    BY <1>1, <1>2, <1>4, <2>2 DEF NeverBehind, AsNew
  <2>7. QED  BY <2>3, <2>4, <2>5, <2>6 DEF PersistInv
<1>5. CASE took' = [took EXCEPT ![s] = mem[k]] /\ hold' = [hold EXCEPT ![s] = "newest"] /\ at' = at
  <2>1. /\ took'[s] = mem[k] /\ hold'[s] = "newest" /\ SavedKey(s)' = k
        /\ \A q \in Persist!Saves \ {s} : took'[q] = took[q] /\ hold'[q] = hold[q]
        /\ \A q \in Persist!Saves : SavedKey(q)' = SavedKey(q)
    BY <1>1, <1>5 DEF PersistTypes, SavedKey
  <2>2. PersistTypes'
    BY <1>1, <1>2, <1>3, <1>5 DEF PersistTypes, Holds
  <2>3. SavesInPhase'
    BY <1>1, <1>2, <1>5, <2>1 DEF SavesInPhase
  <2>4. StopSaves'
    <3>1. \A i \in 1..3 : Kept(Persist!Order[i])' <=> Kept(Persist!Order[i])
      BY <1>2 DEF Kept
    <3>2. QED  BY <1>1, <1>2, <1>5, <2>1, <3>1 DEF StopSaves
  <2>5. NeverBehind'
    <3>1. AsNew(mem[k].change, k) /\ mem[k].change <= mem[k].change
      BY <1>1, <1>3 DEF NeverBehind, PersistTypes, Content
    <3>2. QED  BY <1>1, <1>2, <2>1, <3>1 DEF NeverBehind, AsNew
  <2>6. QED  BY <2>2, <2>3, <2>4, <2>5 DEF PersistInv
<1>6. QED  BY <1>2, <1>4, <1>5

\* A save puts what it holds, and what others hold of the key is overtaken; or it fails,
\* or is cut.
LEMMA PutKeeps ==
    ASSUME PersistInv, NEW s \in Persist!Saves, Persist!Put(s) \/ (s = "auto" /\ Persist!CutAuto)
    PROVE  PersistInv'
<1>1. PersistTypes /\ SavesInPhase /\ StopSaves /\ NeverBehind
  BY DEF PersistInv
<1> DEFINE k == SavedKey(s)
<1> DEFINE Done == /\ hold[s] # "nothing" /\ kv' = [kv EXCEPT ![k] = took[s]] /\ Persist!Next1(s) /\ quiet' = quiet
                   /\ hold' = [o \in Persist!Saves |-> IF o = s THEN "nothing"
                                 ELSE IF hold[o] # "nothing" /\ at[o] = at[s] THEN "overtaken" ELSE hold[o]]
<1> DEFINE Failed == /\ kv' = kv /\ hold' = [hold EXCEPT ![s] = "nothing"] /\ at' = [at EXCEPT ![s] = 0]
                    /\ \/ quiet' = (quiet /\ s = "auto")
                       \/ quiet' = quiet /\ s = "auto"
<1>2. /\ at[s] # 0 /\ s \in Persist!Rows /\ took' = [took EXCEPT ![s] = Persist!Nothing]
      /\ phase' = phase /\ mem' = mem /\ changes' = changes /\ putKnown' = putKnown /\ unread' = unread
      /\ Done \/ Failed
  BY OrderOfKeys DEF Persist!Put, Persist!CutAuto, Persist!Abort, SavedKey
<1>3. at[s] \in 1..3 /\ k \in Persist!Keys /\ phase \in {"up", "stopping"}
  BY <1>1, <1>2, OrderOfKeys DEF PersistTypes, SavesInPhase, SavedKey
<1>4. /\ at' \in [Persist!Rows -> 0..3]
      /\ \A q \in Persist!Rows \ {s} : at'[q] = at[q]
      /\ s = "auto" => at'[s] = 0
      /\ at'[s] # 0 => at'[s] = at[s] + 1
      /\ Done /\ s # "auto" => Place(at'[s]) = at[s] + 1
      /\ Failed => at'[s] = 0
  <2>1. CASE Done
    <3>1. /\ at' \in [Persist!Rows -> 0..3]
          /\ s # "auto" => Place(at'[s]) = at[s] + 1
          /\ s = "auto" => at'[s] = 0
          /\ \A q \in Persist!Rows \ {s} : at'[q] = at[q]
      BY <1>1, <1>2, <2>1, RowGoesOn
    <3>2. Failed => at'[s] = 0
      BY <1>1, <1>2, RowSet
    <3>3. QED  BY <3>1, <3>2 DEF Place
  <2>2. CASE Failed
    <3>1. /\ at' \in [Persist!Rows -> 0..3] /\ at'[s] = 0
          /\ \A q \in Persist!Rows \ {s} : at'[q] = at[q]
      BY <1>1, <1>2, <2>2, RowSet
    <3>2. Done /\ s # "auto" => Place(at'[s]) = at[s] + 1
      BY <1>1, <1>2, RowGoesOn
    <3>3. QED  BY <3>1, <3>2
  <2>3. QED  BY <1>2, <2>1, <2>2
<1>5. /\ hold' \in [Persist!Saves -> Holds] /\ hold'[s] = "nothing"
      /\ \A q \in Persist!Saves \ {s} :
           /\ took'[q] = took[q] /\ SavedKey(q)' = SavedKey(q)
           /\ hold'[q] # "nothing" <=> hold[q] # "nothing"
           /\ hold'[q] = "newest" => /\ hold[q] = "newest" /\ (Done => at[q] # at[s])
  <2>1. took \in [Persist!Saves -> Content] /\ hold \in [Persist!Saves -> Holds]
    BY <1>1 DEF PersistTypes
  <2>2. \A q \in Persist!Saves \ {s} : took'[q] = took[q] /\ SavedKey(q)' = SavedKey(q)
    BY <1>2, <1>4, <2>1, OrderOfKeys DEF SavedKey
  <2>3. CASE Done
    <3>1. hold'[s] = "nothing" /\ hold' \in [Persist!Saves -> Holds]
      BY <2>1, <2>3 DEF Holds
    <3>2. \A q \in Persist!Saves \ {s} :
            hold'[q] = IF hold[q] # "nothing" /\ at[q] = at[s] THEN "overtaken" ELSE hold[q]
      BY <2>3
    <3>3. QED  BY <2>2, <3>1, <3>2
  <2>4. CASE Failed
    <3>1. hold'[s] = "nothing" /\ hold' \in [Persist!Saves -> Holds] /\ \A q \in Persist!Saves \ {s} : hold'[q] = hold[q]
      BY <2>1, <2>4 DEF Holds
    <3>2. Done => \A q \in Persist!Saves \ {s} : hold'[q] = IF hold[q] # "nothing" /\ at[q] = at[s] THEN "overtaken" ELSE hold[q]
      OBVIOUS
    <3>3. QED  BY <2>2, <3>1, <3>2
  <2>5. QED  BY <1>2, <2>3, <2>4
<1>6. kv' \in [Persist!Keys -> Content] /\ quiet' \in BOOLEAN /\ \A q \in Persist!Keys \ {k} : kv'[q] = kv[q]
  <2>1. kv \in [Persist!Keys -> Content] /\ took[s] \in Content /\ quiet \in BOOLEAN
    BY <1>1 DEF PersistTypes
  <2>2. CASE Done
    BY <1>3, <2>1, <2>2
  <2>3. CASE Failed
    <3>1. kv' = kv
      BY <2>3
    <3>2. quiet' \in BOOLEAN
      BY <2>1, <2>3
    <3>3. QED  BY <2>1, <3>1, <3>2
  <2>4. QED  BY <1>2, <2>2, <2>3
<1>7. PersistTypes'
  <2>1. took' \in [Persist!Saves -> Content]
    BY <1>1, <1>2, OrderOfKeys DEF PersistTypes
  <2>2. QED  BY <1>1, <1>2, <1>4, <1>5, <1>6, <2>1 DEF PersistTypes
<1>8. SavesInPhase'
  <2>1. \A q \in Persist!Saves : /\ at'[q] = 0 => hold'[q] = "nothing"
                                 /\ at'[q] # 0 => putKnown'
    BY <1>1, <1>2, <1>4, <1>5, OrderOfKeys DEF SavesInPhase
  <2>2. at'["auto"] \in {0, 2}
    BY <1>1, <1>4, OrderOfKeys DEF SavesInPhase
  <2>3. phase' # "stopping" => at'["stop"] = 0
    BY <1>1, <1>2, <1>4, OrderOfKeys DEF SavesInPhase
  <2>4. QED  BY <1>2, <1>3, <2>1, <2>2, <2>3 DEF SavesInPhase
<1>9. StopSaves'
  <2> SUFFICES ASSUME phase' \in {"stopping", "down"}, quiet'
               PROVE  /\ \A c \in SavingCommands : at'[c] = 0
                      /\ \A i \in 1..3 : i < Place(at'["stop"]) => Kept(Persist!Order[i])'
                      /\ \A q \in Persist!Saves : hold'[q] # "nothing" => took'[q] = mem'[SavedKey(q)']
    BY DEF StopSaves, SavedKey
  <2>1. StopSaves /\ phase \in {"stopping", "down"} /\ quiet /\ (Done \/ s = "auto")
    BY <1>1, <1>2
  <2>2. s \notin SavingCommands /\ \A c \in SavingCommands : at'[c] = 0
    BY <1>2, <1>4, <2>1, OrderOfKeys DEF StopSaves
  <2>3. \A q \in Persist!Saves : hold'[q] # "nothing" => took'[q] = mem'[SavedKey(q)']
    BY <1>2, <1>5, <2>1 DEF StopSaves
  <2>4. \A q \in Persist!Keys : Kept(q) => Kept(q)'
    <3>1. CASE Done
      <4>1. kv'[k] = mem[k]
        BY <1>1, <1>3, <2>1, <3>1 DEF StopSaves, PersistTypes
      <4>2. QED  BY <1>2, <1>6, <4>1 DEF Kept
    <3>2. CASE Failed
      BY <1>2, <3>2 DEF Kept
    <3>3. QED  BY <1>2, <3>1, <3>2
  <2>5. ASSUME NEW i \in 1..3, i < Place(at'["stop"]) PROVE Kept(Persist!Order[i])'
    <3>1. CASE s # "stop"
      <4>1. at'["stop"] = at["stop"]
        BY <1>4, <3>1, OrderOfKeys
      <4>2. QED  BY <2>1, <2>4, <2>5, <4>1, OrderOfKeys DEF StopSaves
    <3>2. CASE s = "stop"
      <4>1. Done /\ Place(at'["stop"]) = at["stop"] + 1 /\ Place(at["stop"]) = at["stop"]
        BY <1>3, <1>4, <2>1, <3>2 DEF Place
      <4>2. CASE i < at["stop"]
        BY <2>1, <2>4, <4>1, <4>2, OrderOfKeys DEF StopSaves
      <4>3. CASE i = at["stop"]
        <5>1. Persist!Order[i] = k
          BY <3>2, <4>3 DEF SavedKey
        <5>2. kv'[k] = mem[k]
          BY <1>1, <1>3, <2>1, <4>1 DEF StopSaves, PersistTypes
        <5>3. QED  BY <1>2, <5>1, <5>2 DEF Kept
      <4>4. QED  BY <1>3, <2>5, <3>2, <4>1, <4>2, <4>3
    <3>3. QED  BY <3>1, <3>2
  <2>6. QED  BY <2>2, <2>3, <2>5
<1>10. NeverBehind'
  <2>1. ASSUME NEW q \in Persist!Keys
        PROVE  mem'[q].change <= changes' /\ kv'[q].change <= changes' /\ AsNew(mem[q].change, q)'
    <3>1. /\ mem[q].change <= changes /\ kv[q].change <= changes /\ AsNew(mem[q].change, q)
          /\ mem[q].change \in Nat /\ kv[q].change \in Nat /\ took[s].change \in Nat /\ changes \in Nat
      BY <1>1 DEF NeverBehind, PersistTypes, Content
    <3>2. CASE kv'[q] = kv[q]
      BY <1>2, <3>1, <3>2 DEF AsNew
    <3>3. CASE kv'[q] # kv[q]
      <4>1. Done /\ q = k
        BY <1>2, <1>6, <3>3
      <4>2. kv'[q] = took[s] /\ took[s].change <= mem[q].change
        BY <1>1, <1>3, <4>1 DEF PersistTypes, NeverBehind
      <4>3. QED  BY <1>2, <3>1, <4>2 DEF AsNew
    <3>4. QED  BY <3>2, <3>3
  <2>2. ASSUME NEW q \in Persist!Saves, hold'[q] # "nothing"
        PROVE  /\ took'[q].change <= mem'[SavedKey(q)'].change
               /\ hold'[q] = "newest" => AsNew(took[q].change, SavedKey(q))'
    <3>1. /\ q # s /\ took'[q] = took[q] /\ SavedKey(q)' = SavedKey(q) /\ hold[q] # "nothing"
          /\ hold'[q] = "newest" => hold[q] = "newest" /\ (Done => at[q] # at[s])
      BY <1>5, <2>2
    <3>2. /\ took[q].change <= mem[SavedKey(q)].change
          /\ hold[q] = "newest" => AsNew(took[q].change, SavedKey(q))
      BY <1>1, <3>1 DEF NeverBehind
    <3>3. at[q] \in 1..3
      BY <1>1, <3>1, OrderOfKeys DEF PersistTypes, SavesInPhase
    <3>4. hold'[q] = "newest" => kv'[SavedKey(q)] = kv[SavedKey(q)]
      <4>1. CASE Done
        BY <1>3, <1>6, <3>1, <3>3, <4>1, OrderOfKeys DEF SavedKey
      <4>2. CASE Failed
        BY <4>2
      <4>3. QED  BY <1>2, <4>1, <4>2
    <3>5. took'[q].change <= mem'[SavedKey(q)'].change
      BY <1>2, <3>1, <3>2
    <3>6. ASSUME hold'[q] = "newest" PROVE AsNew(took[q].change, SavedKey(q))'
      <4>1. AsNew(took[q].change, SavedKey(q)) /\ kv'[SavedKey(q)] = kv[SavedKey(q)] /\ unread' = unread
        BY <1>2, <3>1, <3>2, <3>4, <3>6
      <4>2. QED  BY <3>1, <4>1 DEF AsNew
    <3>7. QED  BY <3>5, <3>6
  <2>3. QED  BY <2>1, <2>2 DEF NeverBehind
<1>11. QED  BY <1>7, <1>8, <1>9, <1>10 DEF PersistInv

\* A crash or the end of the stop: nothing is saved any more.
LEMMA EndKeeps ==
    ASSUME PersistInv, Persist!Stopped \/ Persist!Crash
    PROVE  PersistInv'
<1>1. PersistTypes /\ SavesInPhase /\ StopSaves /\ NeverBehind
  BY DEF PersistInv
<1>2. /\ phase' = "down" /\ at' = [r \in Persist!Rows |-> 0]
      /\ took' = [s \in Persist!Saves |-> Persist!Nothing] /\ hold' = [s \in Persist!Saves |-> "nothing"]
      /\ mem' = mem /\ kv' = kv /\ changes' = changes /\ putKnown' = putKnown /\ unread' = unread
      /\ quiet' = FALSE \/ (quiet' = quiet /\ phase = "stopping" /\ at["stop"] = 0)
  BY DEF Persist!Stopped, Persist!Crash, Persist!Ends
<1>3. /\ \A r \in Persist!Rows : at'[r] = 0
      /\ \A s \in Persist!Saves : hold'[s] = "nothing"
      /\ Persist!Saves \subseteq Persist!Rows /\ SavingCommands \subseteq Persist!Rows
      /\ "auto" \in Persist!Rows /\ "stop" \in Persist!Rows
  BY <1>2, OrderOfKeys
<1>4. PersistTypes'
  <2>1. took' \in [Persist!Saves -> Content] /\ hold' \in [Persist!Saves -> Holds]
    BY <1>2, OrderOfKeys DEF Holds
  <2>2. at' \in [Persist!Rows -> 0..3]
    BY <1>2
  <2>3. quiet' \in BOOLEAN
    BY <1>1, <1>2 DEF PersistTypes
  <2>4. QED  BY <1>1, <1>2, <2>1, <2>2, <2>3 DEF PersistTypes
<1>5. SavesInPhase'
  BY <1>2, <1>3 DEF SavesInPhase
<1>6. StopSaves'
  <2> SUFFICES ASSUME quiet' PROVE \A i \in 1..3 : Kept(Persist!Order[i])
    BY <1>2, <1>3 DEF StopSaves, Kept, Place
  <2>1. quiet /\ phase = "stopping" /\ at["stop"] = 0
    BY <1>2
  <2>2. QED  BY <1>1, <2>1 DEF StopSaves, Place
<1>7. NeverBehind'
  BY <1>1, <1>2, <1>3 DEF NeverBehind, AsNew
<1>8. QED  BY <1>4, <1>5, <1>6, <1>7 DEF PersistInv

\* Changes of what is in memory, and keys that are deleted.
LEMMA ChangeKeeps ==
    ASSUME PersistInv, phase \in {"up", "stopping"}, quiet' = FALSE,
           UNCHANGED <<phase, at, took, hold, putKnown, unread>>,
           \/ /\ changes' = changes + 1 /\ kv' = kv
              /\ \E K \in SUBSET Persist!Keys : \E empty \in BOOLEAN :
                   mem' = [k \in Persist!Keys |-> IF k \in K THEN [change |-> changes + 1, empty |-> empty] ELSE mem[k]]
           \/ /\ changes' = changes /\ mem' = mem
              /\ \E k \in Persist!Keys : kv' = [kv EXCEPT ![k] = Persist!Nothing]
    PROVE  PersistInv'
<1>1. PersistTypes /\ SavesInPhase /\ NeverBehind
  BY DEF PersistInv
<1>2. /\ changes \in Nat /\ changes' \in Nat /\ changes <= changes'
      /\ mem' \in [Persist!Keys -> Content] /\ kv' \in [Persist!Keys -> Content]
      /\ \A k \in Persist!Keys : /\ kv'[k] = kv[k] \/ kv'[k].change = 0
                                 /\ \/ mem'[k] = mem[k]
                                    \/ mem'[k].change = changes' /\ changes' = changes + 1 /\ kv'[k] = kv[k]
                                 /\ mem[k].change \in Nat /\ kv[k].change \in Nat
                                 /\ mem[k].change <= changes /\ kv[k].change <= changes
  <2>1. /\ mem \in [Persist!Keys -> Content] /\ kv \in [Persist!Keys -> Content] /\ changes \in Nat
        /\ \A k \in Persist!Keys : /\ mem[k].change \in Nat /\ kv[k].change \in Nat
                                   /\ mem[k].change <= changes /\ kv[k].change <= changes
    BY <1>1 DEF PersistTypes, NeverBehind, Content
  <2>2. CASE changes' = changes + 1
    <3>1. kv' = kv
      BY <2>1, <2>2
    <3>2. PICK K \in SUBSET Persist!Keys : \E empty \in BOOLEAN :
            mem' = [k \in Persist!Keys |-> IF k \in K THEN [change |-> changes + 1, empty |-> empty] ELSE mem[k]]
      <4>1. changes' # changes
        BY <2>1, <2>2
      <4>2. QED  BY <4>1, Zenon
    <3>3. PICK empty \in BOOLEAN :
            mem' = [k \in Persist!Keys |-> IF k \in K THEN [change |-> changes + 1, empty |-> empty] ELSE mem[k]]
      BY <3>2
    <3>4. [change |-> changes + 1, empty |-> empty] \in Content
      BY <2>1 DEF Content
    <3>5. QED  BY <2>1, <2>2, <3>1, <3>3, <3>4
  <2>3. CASE changes' = changes
    <3>1. mem' = mem /\ \E k \in Persist!Keys : kv' = [kv EXCEPT ![k] = Persist!Nothing]
      BY <2>1, <2>3
    <3>2. QED  BY <2>1, <2>3, <3>1, OrderOfKeys
  <2>4. QED  BY <2>2, <2>3
<1>3. PersistTypes'
  BY <1>1, <1>2 DEF PersistTypes
<1>4. SavesInPhase' /\ StopSaves'
  BY <1>1 DEF SavesInPhase, StopSaves
<1>5. NeverBehind'
  <2>1. ASSUME NEW k \in Persist!Keys
        PROVE  mem'[k].change <= changes' /\ kv'[k].change <= changes' /\ AsNew(mem[k].change, k)'
    <3>1. AsNew(mem[k].change, k)
      BY <1>1 DEF NeverBehind
    <3>2. QED  BY <1>2, <3>1 DEF AsNew
  <2>2. ASSUME NEW s \in Persist!Saves, hold'[s] # "nothing"
        PROVE  /\ took'[s].change <= mem'[SavedKey(s)'].change
               /\ hold'[s] = "newest" => AsNew(took[s].change, SavedKey(s))'
    <3>1. /\ took[s].change <= mem[SavedKey(s)].change
          /\ hold[s] = "newest" => AsNew(took[s].change, SavedKey(s))
          /\ SavedKey(s)' = SavedKey(s)
      BY <1>1, <2>2 DEF NeverBehind, SavedKey
    <3>2. at[s] \in 1..3 /\ took[s].change \in Nat
      BY <1>1, <2>2, OrderOfKeys DEF PersistTypes, SavesInPhase, Content
    <3>3. SavedKey(s) \in Persist!Keys
      BY <3>2, OrderOfKeys DEF SavedKey
    <3>4. took'[s].change <= mem'[SavedKey(s)'].change
      BY <1>2, <3>1, <3>2, <3>3
    <3>5. ASSUME hold'[s] = "newest" PROVE AsNew(took[s].change, SavedKey(s))'
      <4>1. AsNew(took[s].change, SavedKey(s))
        BY <3>1, <3>5
      <4>2. QED  BY <1>2, <3>1, <3>2, <3>3, <4>1 DEF AsNew
    <3>6. QED  BY <3>4, <3>5
  <2>3. QED  BY <2>1, <2>2 DEF NeverBehind
<1>6. QED  BY <1>3, <1>4, <1>5 DEF PersistInv

LEMMA PersistKeeps ==
    ASSUME PersistInv, [Persist!Next]_(Persist!vars)
    PROVE  PersistInv'
<1>1. ASSUME NEW K \in SUBSET Persist!Keys, NEW empty \in BOOLEAN, Persist!Become(K, empty),
             phase \in {"up", "stopping"}
      PROVE  PersistInv'
  BY <1>1, ChangeKeeps DEF Persist!Become
<1>2. CASE Persist!Start \/ Persist!Load \/ Persist!Loaded
  BY <1>2, LoadKeeps
<1>3. CASE (\E c \in SavingCommands : Persist!CommandSaves(c)) \/ Persist!Stop \/ Persist!AutoSaves
  BY <1>3, BeginKeeps
<1>4. CASE Persist!Stopped \/ Persist!Crash
  BY <1>4, EndKeeps
<1>5. CASE Persist!CutAuto
  <2>1. "auto" \in Persist!Saves
    BY OrderOfKeys
  <2>2. QED  BY <1>5, <2>1, PutKeeps
<1>6. ASSUME NEW s \in Persist!Saves, Persist!Serialize(s) \/ Persist!Put(s)
      PROVE  PersistInv'
  BY <1>6, SerializeKeeps, PutKeeps
<1>7. ASSUME NEW k \in Persist!Keys, Persist!Change(k) \/ Persist!ResetKey(k)
      PROVE  PersistInv'
  <2>1. CASE Persist!Change(k)
    <3>1. {k} \in SUBSET Persist!Keys
      OBVIOUS
    <3>2. QED  BY <1>1, <2>1, <3>1 DEF Persist!Change
  <2>2. CASE Persist!ResetKey(k)
    BY <2>2, ChangeKeeps DEF Persist!ResetKey
  <2>3. QED  BY <1>7, <2>1, <2>2
<1>8. CASE Persist!ClearPersonas \/ Persist!ResetMemory
  <2>1. {"personas"} \in SUBSET Persist!Keys /\ {"sessions", "personas"} \in SUBSET Persist!Keys
    BY OrderOfKeys
  <2>2. QED  BY <1>1, <1>8, <2>1 DEF Persist!ClearPersonas, Persist!ResetMemory
<1>9. CASE UNCHANGED Persist!vars
  BY <1>9 DEF Persist!vars, PersistInv, PersistTypes, SavesInPhase, StopSaves, Kept, SavedKey, NeverBehind, AsNew
<1>10. QED  BY <1>2, <1>3, <1>4, <1>5, <1>6, <1>7, <1>8, <1>9, StorageAssumption DEF Persist!Next

LEMMA PersistHolds == Persist!Spec => []PersistInv
<1>1. Persist!Init => PersistInv
  BY PersistInit
<1>2. PersistInv /\ [Persist!Next]_(Persist!vars) => PersistInv'
  BY PersistKeeps
<1>3. QED  BY <1>1, <1>2, PTL DEF Persist!Spec

\* After a stop whose save nothing disturbed the store holds what was in memory, but for
\* personas that were cleared, also when the queues are saved besides (save_to_kv,
\* terminate, _save_batch_queues).
THEOREM StopsKeep == Persist!Spec => []Persist!StopKeeps
<1>1. PersistInv => Persist!StopKeeps
  <2> SUFFICES ASSUME PersistInv, phase = "down", quiet, NEW k \in Persist!Keys
               PROVE  kv[k] = mem[k] \/ (k = "personas" /\ mem[k].empty)
    BY DEF Persist!StopKeeps
  <2>1. at["stop"] = 0
    BY OrderOfKeys DEF PersistInv, SavesInPhase
  <2>2. PICK i \in 1..3 : Persist!Order[i] = k
    BY OrderOfKeys
  <2>3. i < Place(at["stop"])
    BY <2>1 DEF Place
  <2>4. QED  BY <2>2, <2>3 DEF PersistInv, StopSaves, Kept
<1>2. QED  BY <1>1, PersistHolds, PTL

\* A stored key goes back to an older content only by a reset, by a put that another one
\* overtook, or when this start did not load it (load_from_kv, _execute_saver).
THEOREM NeverGoesBack == Persist!Spec => Persist!NoGoingBack
<1> DEFINE Why(k) ==
      \/ Persist!ResetKey(k)
      \/ \E s \in Persist!Saves :
            /\ Persist!Put(s) /\ k = Persist!Order[at[s]] /\ putKnown
            /\ hold[s] = "overtaken" \/ (k \in unread /\ took[s].change = 0)
<1> DEFINE NeverBack == \A k \in Persist!Keys : kv'[k].change < kv[k].change => Why(k)
<1>1. PersistInv /\ [Persist!Next]_(Persist!vars) => [NeverBack]_(Persist!vars)
  <2> SUFFICES ASSUME PersistInv, Persist!Next, NEW k \in Persist!Keys, kv'[k].change < kv[k].change
               PROVE  Why(k)
    OBVIOUS
  <2>1. kv \in [Persist!Keys -> Content] /\ kv[k].change \in Nat
    BY DEF PersistInv, PersistTypes, Content
  <2>2. kv' # kv
    BY <2>1
  <2>3. ASSUME NEW s \in Persist!Saves, Persist!Put(s)
        PROVE  Why(k)
    <3>1. /\ at[s] # 0 /\ hold[s] # "nothing" /\ kv' = [kv EXCEPT ![SavedKey(s)] = took[s]]
      BY <2>2, <2>3 DEF Persist!Put, SavedKey
    <3>2. k = SavedKey(s) /\ took[s].change < kv[k].change
      BY <2>1, <3>1
    <3>3. putKnown /\ hold[s] \in Holds /\ took[s].change \in Nat
      BY <3>1 DEF PersistInv, SavesInPhase, PersistTypes, Content
    <3>4. hold[s] = "newest" => k \in unread /\ took[s].change = 0
      BY <2>1, <3>1, <3>2, <3>3 DEF PersistInv, NeverBehind, AsNew
    <3>5. hold[s] = "overtaken" \/ (k \in unread /\ took[s].change = 0)
      BY <3>1, <3>3, <3>4 DEF Holds
    <3>6. QED  BY <2>3, <3>2, <3>3, <3>5 DEF SavedKey
  <2>4. ASSUME NEW q \in Persist!Keys, Persist!ResetKey(q)
        PROVE  Why(k)
    <3>1. q = k
      BY <2>1, <2>4 DEF Persist!ResetKey
    <3>2. QED  BY <2>4, <3>1
  <2>5. QED
    BY <2>2, <2>3, <2>4 DEF Persist!Next, Persist!Start, Persist!Load, Persist!Loaded, Persist!CommandSaves,
       Persist!Stop, Persist!BeginSave, Persist!AutoSaves, Persist!CutAuto, Persist!Stopped, Persist!Crash,
       Persist!Ends, Persist!ClearPersonas, Persist!ResetMemory, Persist!Become, Persist!Serialize, Persist!Change
<1>2. QED  BY <1>1, PersistHolds, PTL DEF Persist!Spec, Persist!NoGoingBack

-----------------------------------------------------------------------------
(* The configuration (ConfigStore).                                          *)

LEMMA ValidatedIs ==
    ASSUME NEW v PROVE Conf!Validated(v) = IF v = 4 THEN 0 ELSE IF v = 2 THEN 1 ELSE v
<1>1. CASE v = 4
  BY <1>1 DEF Conf!Validated, Conf!None, Conf!Default, Conf!Text
<1>2. CASE v = 2
  BY <1>2 DEF Conf!Validated, Conf!None, Conf!Default, Conf!Text
<1>3. CASE v # 4 /\ v # 2
  BY <1>3 DEF Conf!Validated, Conf!None, Conf!Default, Conf!Text
<1>4. QED  BY <1>1, <1>2, <1>3

\* A change is of keys that can be set, to values that are valid.
LEMMA SetWrites ==
    ASSUME NEW D \in SUBSET Conf!Keys, NEW updates \in [D -> {0, 1, 2, 3}], Conf!Set(updates)
    PROVE  \E changed \in SUBSET {"both", "rw"} : \E new \in [changed -> {0, 1}] : Conf!Write(new)
<1>1. PICK changed : changed = {k \in D : /\ k \in Conf!Writable /\ updates[k] # Conf!Bad
                                          /\ Conf!Validated(updates[k]) # data[k]}
  OBVIOUS
<1>2. PICK new : new = [k \in changed |-> Conf!Validated(updates[k])]
  OBVIOUS
<1>3. Conf!Write(new)
  BY <1>1, <1>2 DEF Conf!Set
<1>4. changed \in SUBSET {"both", "rw"}
  BY <1>1 DEF Conf!Writable
<1>5. ASSUME NEW k \in changed PROVE Conf!Validated(updates[k]) \in {0, 1}
  <2>1. updates[k] \in {0, 1, 2}
    BY <1>1 DEF Conf!Bad
  <2>2. QED  BY <2>1, ValidatedIs
<1>6. new \in [changed -> {0, 1}]
  BY <1>2, <1>5
<1>7. QED  BY <1>3, <1>4, <1>6

LEMMA SetsWrite ==
    ASSUME Conf!Sets
    PROVE  \E changed \in SUBSET {"both", "rw"} : \E new \in [changed -> {0, 1}] : Conf!Write(new)
<1>1. CASE \E k \in Conf!Writable, v \in {0, 1, 3} : Conf!Set([x \in {k} |-> v])
  <2>1. PICK k \in Conf!Writable, v \in {0, 1, 3} : Conf!Set([x \in {k} |-> v])
    BY <1>1
  <2>2. {k} \in SUBSET Conf!Keys /\ [x \in {k} |-> v] \in [{k} -> {0, 1, 2, 3}]
    BY DEF Conf!Writable, Conf!Keys
  <2>3. QED  BY <2>1, <2>2, SetWrites
<1>2. CASE \E v \in {0, 2} : Conf!Set([k \in Conf!Keys |-> v])
  <2>1. PICK v \in {0, 2} : Conf!Set([k \in Conf!Keys |-> v])
    BY <1>2
  <2>2. Conf!Keys \in SUBSET Conf!Keys /\ [k \in Conf!Keys |-> v] \in [Conf!Keys -> {0, 1, 2, 3}]
    OBVIOUS
  <2>3. QED  BY <2>1, <2>2, SetWrites
<1>3. QED  BY <1>1, <1>2 DEF Conf!Sets, Conf!Default, Conf!Bad, Conf!Text

-----------------------------------------------------------------------------
\* What the console sets is written as it is read, and nothing else is changed.
LEMMA WriteIs ==
    ASSUME NEW changed \in SUBSET {"both", "rw"}, NEW new \in [changed -> {0, 1}], Conf!Write(new)
    PROVE  /\ data' = [k \in Conf!Keys |-> IF k \in changed THEN new[k] ELSE data[k]]
           /\ cached' = [k \in Conf!Keys |-> IF k \in changed THEN Conf!None ELSE cached[k]]
           /\ user' = user
           /\ \/ onDisk' = [state |-> "whole",
                             map |-> [k \in Conf!Keys |-> IF k \in Conf!Writable /\ data'[k] # Conf!Default
                                                          THEN data'[k] ELSE Conf!None]]
              \/ onDisk' = onDisk
              \/ onDisk' = [state |-> "torn", map |-> Conf!Empty]
  BY DEF Conf!Write, Conf!Persist

ConfInv ==
    /\ data = [k \in Conf!Keys |-> data[k]] /\ cached = [k \in Conf!Keys |-> cached[k]]
    /\ Conf!CacheCoherent

LEMMA ConfStarts == Conf!Init => ConfInv
  BY DEF Conf!Init, ConfInv, Conf!CacheCoherent, Conf!Empty, Conf!None, Conf!Keys

LEMMA LoadedIs ==
    ASSUME NEW u, NEW f
    PROVE  Conf!Loaded(u, f) = [k \in Conf!Keys |-> Conf!Loaded(u, f)[k]]
<1>1. Conf!Merged(u, f) = [k \in Conf!Keys |-> Conf!Merged(u, f)[k]]
  BY DEF Conf!Merged
<1>2. QED  BY <1>1 DEF Conf!Loaded

LEMMA ConfKeeps == ConfInv /\ [Conf!Next]_(Conf!vars) => ConfInv'
<1> SUFFICES ASSUME ConfInv, [Conf!Next]_(Conf!vars) PROVE ConfInv'
  OBVIOUS
<1>1. CASE Conf!Start
  <2>1. data' = Conf!Loaded(user, onDisk) /\ cached' = Conf!Empty
    BY <1>1 DEF Conf!Start
  <2>2. QED  BY <2>1, LoadedIs DEF ConfInv, Conf!CacheCoherent, Conf!Empty
<1>2. CASE Conf!Sets
  <2>1. PICK changed \in SUBSET {"both", "rw"} : \E new \in [changed -> {0, 1}] : Conf!Write(new)
    BY <1>2, SetsWrite
  <2>2. PICK new \in [changed -> {0, 1}] : Conf!Write(new)
    BY <2>1
  <2>3. /\ data' = [k \in Conf!Keys |-> IF k \in changed THEN new[k] ELSE data[k]]
        /\ cached' = [k \in Conf!Keys |-> IF k \in changed THEN Conf!None ELSE cached[k]]
    BY <2>2, WriteIs
  <2>4. QED  BY <2>3 DEF ConfInv, Conf!CacheCoherent
<1>3. CASE Conf!UserEdits \/ Conf!FileEdited \/ UNCHANGED Conf!vars
  <2>1. data' = data /\ cached' = cached
    BY <1>3 DEF Conf!UserEdits, Conf!FileEdited, Conf!vars
  <2>2. QED  BY <2>1 DEF ConfInv, Conf!CacheCoherent
<1>4. ASSUME NEW k \in Conf!Keys, Conf!Get(k) PROVE ConfInv'
  <2>1. PICK v : data' = [data EXCEPT ![k] = v] /\ cached' = [cached EXCEPT ![k] = v]
    BY <1>4 DEF Conf!Get
  <2>2. \A j \in Conf!Keys : data'[j] = (IF j = k THEN v ELSE data[j]) /\ cached'[j] = (IF j = k THEN v ELSE cached[j])
    BY <2>1 DEF ConfInv
  <2>3. Conf!CacheCoherent'
    BY <2>2 DEF ConfInv, Conf!CacheCoherent
  <2>4. QED  BY <2>1, <2>3 DEF ConfInv
<1>5. ASSUME NEW k \in Conf!Keys, Conf!Expire(k) PROVE ConfInv'
  <2>1. data' = data /\ cached' = [cached EXCEPT ![k] = Conf!None]
    BY <1>5 DEF Conf!Expire
  <2>2. \A j \in Conf!Keys : cached'[j] = (IF j = k THEN Conf!None ELSE cached[j])
    BY <2>1 DEF ConfInv
  <2>3. Conf!CacheCoherent'
    BY <2>1, <2>2 DEF ConfInv, Conf!CacheCoherent
  <2>4. QED  BY <2>1, <2>3 DEF ConfInv
<1>6. QED  BY <1>1, <1>2, <1>3, <1>4, <1>5 DEF Conf!Next

\* Nothing the console, the user, the files, the time or a restart does leaves an answer in
\* the cache that is not the value kept.
THEOREM CacheAnswers == Conf!Spec => []Conf!CacheCoherent
<1>1. ConfInv => Conf!CacheCoherent
  BY DEF ConfInv
<1>2. QED  BY <1>1, ConfStarts, ConfKeeps, PTL DEF Conf!Spec

\* A value the next start finds in a whole file is loaded as it was set, whatever else the
\* configuration holds.
LEMMA WholeFileLoads ==
    ASSUME NEW v \in {0, 1}, NEW u, NEW f, NEW D, f.state = "whole", D["rw"] = v,
           f.map = [k \in Conf!Keys |-> IF k \in Conf!Writable /\ D[k] # Conf!Default THEN D[k] ELSE Conf!None]
    PROVE  Conf!Loaded(u, f)["rw"] = v
<1>1. f.map["rw"] = (IF v # 0 THEN v ELSE 4)
  BY DEF Conf!Keys, Conf!Writable, Conf!Default, Conf!None
<1>2. "rw" \in Conf!Keys /\ "rw" \notin Conf!Users
  BY DEF Conf!Keys, Conf!Users
<1>3. Conf!Merged(u, f)["rw"] = v
  <2>1. Conf!Merged(u, f)["rw"] =
          IF f.state = "whole" /\ f.map["rw"] # Conf!None THEN f.map["rw"] ELSE Conf!Default
    BY <1>2 DEF Conf!Merged
  <2>2. QED  BY <1>1, <2>1 DEF Conf!Default, Conf!None
<1>4. PICK m : m = Conf!Merged(u, f)
  OBVIOUS
<1>5. Conf!Loaded(u, f)["rw"] = v \/ Conf!Loaded(u, f)["rw"] = Conf!Validated(v)
  BY <1>2, <1>3, <1>4 DEF Conf!Loaded
<1>6. Conf!Validated(v) = v
  BY ValidatedIs
<1>7. QED  BY <1>5, <1>6

\* What is written is what the next start loads, for a key the user has not.
THEOREM SavedLoads == Conf!Spec => Conf!SavedIsLoaded
<1>1. ASSUME ConfInv, [Conf!Next]_(Conf!vars), NEW v \in {0, 1},
             data["rw"] # v, data'["rw"] = v, onDisk' # onDisk, onDisk'.state = "whole"
      PROVE  Conf!Loaded(user, onDisk')["rw"] = v
  <2>1. ~(Conf!Start \/ Conf!FileEdited \/ Conf!UserEdits \/ UNCHANGED Conf!vars)
    BY <1>1 DEF Conf!Start, Conf!FileEdited, Conf!UserEdits, Conf!vars
  <2>2. \A k \in Conf!Keys : ~Conf!Get(k) /\ ~Conf!Expire(k)
    BY <1>1 DEF Conf!Get, Conf!Expire
  <2>3. Conf!Sets
    BY <1>1, <2>1, <2>2 DEF Conf!Next
  <2>4. PICK changed \in SUBSET {"both", "rw"} : \E new \in [changed -> {0, 1}] : Conf!Write(new)
    BY <2>3, SetsWrite
  <2>5. PICK new \in [changed -> {0, 1}] : Conf!Write(new)
    BY <2>4
  <2>6. onDisk' = [state |-> "whole",
                    map |-> [k \in Conf!Keys |-> IF k \in Conf!Writable /\ data'[k] # Conf!Default
                                                 THEN data'[k] ELSE Conf!None]]
    <3>1. \/ onDisk' = [state |-> "whole",
                    map |-> [k \in Conf!Keys |-> IF k \in Conf!Writable /\ data'[k] # Conf!Default
                                                 THEN data'[k] ELSE Conf!None]]
          \/ onDisk' = onDisk
          \/ onDisk' = [state |-> "torn", map |-> Conf!Empty]
      BY <2>5, WriteIs
    <3>2. QED  BY <1>1, <3>1
  <2>7. QED  BY <1>1, <2>6, WholeFileLoads
<1>2. ConfInv /\ [Conf!Next]_(Conf!vars) =>
        \A v \in {Conf!Default, 1} :
          data["rw"] # v /\ data'["rw"] = v /\ onDisk' # onDisk /\ onDisk'.state = "whole" =>
            Conf!Loaded(user, onDisk')["rw"] = v
  BY <1>1 DEF Conf!Default
<1>3. QED  BY <1>2, ConfStarts, ConfKeeps, PTL DEF Conf!Spec, Conf!SavedIsLoaded

\* Only a start brings in a value that is not valid for a key of the plugin's, and only a
\* start or a change of the user's alters a key that is not to be written.
THEOREM OnlyLoadsBad == Conf!Spec => Conf!BadOnlyLoaded
<1>1. ASSUME ConfInv, Conf!Next
      PROVE  /\ data'["rw"] \in {2, 3} /\ data'["rw"] # data["rw"] => data' = Conf!Loaded(user, onDisk)
             /\ data'["ro"] # data["ro"] => data'["ro"] = user["ro"] \/ data' = Conf!Loaded(user, onDisk)
  <2>1. CASE Conf!Start
    BY <2>1 DEF Conf!Start
  <2>2. CASE Conf!UserEdits \/ Conf!FileEdited \/ \E k \in Conf!Keys : Conf!Expire(k)
    BY <2>2 DEF Conf!UserEdits, Conf!FileEdited, Conf!Expire
  <2>3. CASE Conf!Sets
    <3>1. PICK changed \in SUBSET {"both", "rw"} : \E new \in [changed -> {0, 1}] : Conf!Write(new)
      BY <2>3, SetsWrite
    <3>2. PICK new \in [changed -> {0, 1}] : Conf!Write(new)
      BY <3>1
    <3>3. data' = [k \in Conf!Keys |-> IF k \in changed THEN new[k] ELSE data[k]]
      BY <3>2, WriteIs
    <3>4. data'["ro"] = data["ro"] /\ (data'["rw"] \in {0, 1} \/ data'["rw"] = data["rw"])
      BY <3>3 DEF Conf!Keys
    <3>5. QED  BY <3>4
  <2>4. ASSUME NEW k \in Conf!Keys, Conf!Get(k)
        PROVE  data'["rw"] = data["rw"] /\ (data'["ro"] # data["ro"] => data'["ro"] = user["ro"])
    <3>1. data' = [data EXCEPT ![k] = IF k \in Conf!Users /\ user[k] # Conf!None THEN user[k] ELSE data[k]]
      BY <2>4 DEF Conf!Get
    <3>2. data'["rw"] = data["rw"]
      BY <3>1 DEF ConfInv, Conf!Keys, Conf!Users
    <3>3. data'["ro"] = data["ro"] \/ data'["ro"] = user["ro"]
      BY <3>1 DEF ConfInv, Conf!Keys
    <3>4. QED  BY <3>2, <3>3
  <2>5. QED  BY <1>1, <2>1, <2>2, <2>3, <2>4 DEF Conf!Next
<1>2. ConfInv /\ Conf!Next =>
        /\ data'["rw"] \in {Conf!Text, Conf!Bad} /\ data'["rw"] # data["rw"] => data' = Conf!Loaded(user, onDisk)
        /\ data'["ro"] # data["ro"] => data'["ro"] = user["ro"] \/ data' = Conf!Loaded(user, onDisk)
  BY <1>1 DEF Conf!Text, Conf!Bad
<1>3. QED  BY <1>2, ConfStarts, ConfKeeps, PTL DEF Conf!Spec, Conf!BadOnlyLoaded

-----------------------------------------------------------------------------
(* How active a group is (GroupActivity).                                    *)

ActInv == counts \in [0..3 -> Nat] /\ activity \in 0..3

\* The level's limits in messages an hour.
Limit(l) == IF l = 0 THEN 5 ELSE IF l = 1 THEN 20 ELSE 50

LEMMA LimitIs == \A l \in 0..2 : Activ!Upper[l + 1] = Limit(l) /\ Limit(l) \in Nat
  BY DEF Activ!Upper, Limit

\* A rate's level is the one whose limits it is within.
LEMMA RawIs ==
    ASSUME NEW m \in Nat, NEW n \in Nat, n > 0
    PROVE  /\ Activ!Raw(<<m, n>>) \in 0..3
           /\ Activ!Raw(<<m, n>>) = IF m < 5 * n THEN 0 ELSE IF m < 20 * n THEN 1 ELSE IF m < 50 * n THEN 2 ELSE 3
<1>1. PICK r : r = <<m, n>>
  OBVIOUS
<1>2. r[1] = m /\ r[2] = n
  BY <1>1
<1>3. /\ Activ!AtLeast(r, 10 * Activ!Upper[1]) <=> m >= 5 * n
      /\ Activ!AtLeast(r, 10 * Activ!Upper[2]) <=> m >= 20 * n
      /\ Activ!AtLeast(r, 10 * Activ!Upper[3]) <=> m >= 50 * n
  BY <1>2 DEF Activ!AtLeast, Activ!Upper
<1>4. PICK raw \in 0..3 : raw = IF m < 5 * n THEN 0 ELSE IF m < 20 * n THEN 1 ELSE IF m < 50 * n THEN 2 ELSE 3
  OBVIOUS
<1>5. ASSUME NEW l \in 0..3
      PROVE  (/\ l = 3 \/ ~Activ!AtLeast(r, 10 * Activ!Upper[l + 1])
              /\ l = 0 \/ Activ!AtLeast(r, 10 * Activ!Upper[l])) <=> l = raw
  <2>1. CASE l = 0
    BY <1>3, <1>4, <2>1
  <2>2. CASE l = 1
    BY <1>3, <1>4, <2>2
  <2>3. CASE l = 2
    BY <1>3, <1>4, <2>3
  <2>4. CASE l = 3
    BY <1>3, <1>4, <2>4
  <2>5. QED  BY <2>1, <2>2, <2>3, <2>4
<1>6. Activ!Raw(r) = CHOOSE l \in 0..3 : /\ l = 3 \/ ~Activ!AtLeast(r, 10 * Activ!Upper[l + 1])
                                         /\ l = 0 \/ Activ!AtLeast(r, 10 * Activ!Upper[l])
  BY DEF Activ!Raw, Activ!Levels
<1>7. Activ!Raw(r) = raw
  BY <1>5, <1>6
<1>8. QED  BY <1>1, <1>4, <1>7

\* The level classified is the rate's, or the present one where the limit between is near.
LEMMA ClassifiedIs ==
    ASSUME NEW r, NEW now \in 0..3, Activ!Raw(r) \in 0..3
    PROVE  Activ!Classified(r, now) =
             IF Activ!Raw(r) > now THEN IF Activ!AtLeast(r, 12 * Activ!Upper[now + 1]) THEN Activ!Raw(r) ELSE now
             ELSE IF Activ!Raw(r) < now THEN IF Activ!AtLeast(r, 8 * Activ!Upper[Activ!Raw(r) + 1]) THEN now ELSE Activ!Raw(r)
             ELSE now
<1>1. CASE Activ!Raw(r) > now
  <2>1. ~(Activ!Raw(r) < now)
    BY <1>1
  <2>2. QED  BY <1>1, <2>1, Zenon DEF Activ!Classified
<1>2. CASE Activ!Raw(r) < now
  <2>1. ~(Activ!Raw(r) > now)
    BY <1>2
  <2>2. QED  BY <1>2, <2>1, Zenon DEF Activ!Classified
<1>3. CASE ~(Activ!Raw(r) > now) /\ ~(Activ!Raw(r) < now)
  BY <1>3, Zenon DEF Activ!Classified
<1>4. QED  BY <1>1, <1>2, <1>3, Zenon

LEMMA SettlesAtOnce ==
    ASSUME NEW r, NEW now \in 0..3, Activ!Raw(r) \in 0..3
    PROVE  /\ Activ!Classified(r, now) \in 0..3
           /\ Activ!Classified(r, Activ!Classified(r, now)) = Activ!Classified(r, now)
<1>1. PICK l : l = Activ!Classified(r, now)
  OBVIOUS
<1>2. PICK w \in 0..3 : w = Activ!Raw(r)
  OBVIOUS
<1>3. l = now \/ l = w
  BY <1>1, <1>2, ClassifiedIs, Zenon
<1>4. l \in 0..3
  BY <1>3
<1>5. CASE l = now
  BY <1>1, <1>4, <1>5
<1>6. CASE l = w
  <2>1. ~(w > l) /\ ~(w < l)
    BY <1>6
  <2>2. Activ!Classified(r, l) = l
    BY <1>2, <1>4, <2>1, ClassifiedIs, Zenon
  <2>3. QED  BY <1>1, <1>4, <2>2
<1>7. QED  BY <1>3, <1>5, <1>6

\* After it rose a level falls only when the messages are a fifth less.
LEMMA FallsLate ==
    ASSUME NEW m \in Nat, NEW k \in Nat, NEW now \in 0..3,
           Activ!Classified(<<m, 1>>, now) > now,
           Activ!Classified(<<k, 1>>, Activ!Classified(<<m, 1>>, now)) < Activ!Classified(<<m, 1>>, now)
    PROVE  10 * k <= 8 * m
<1>1. PICK r, s : r = <<m, 1>> /\ s = <<k, 1>>
  OBVIOUS
<1>2. PICK w \in 0..3, v \in 0..3 : w = Activ!Raw(r) /\ v = Activ!Raw(s)
  BY <1>1, RawIs
<1>3. Activ!Classified(r, now) = w /\ w > now
  <2>1. Activ!Classified(r, now) = w \/ Activ!Classified(r, now) = now
    BY <1>2, ClassifiedIs, Zenon
  <2>2. QED  BY <1>1, <2>1
<1>4. Activ!Classified(s, w) < w
  BY <1>1, <1>3
<1>5. v < w /\ ~Activ!AtLeast(s, 8 * Activ!Upper[v + 1])
  <2>1. Activ!Classified(s, w) = IF v > w THEN IF Activ!AtLeast(s, 12 * Activ!Upper[w + 1]) THEN v ELSE w
             ELSE IF v < w THEN IF Activ!AtLeast(s, 8 * Activ!Upper[v + 1]) THEN w ELSE v
             ELSE w
    BY <1>2, ClassifiedIs, Zenon
  <2>2. QED  BY <1>4, <2>1
<1>6. s[1] = k /\ s[2] = 1
  BY <1>1
<1>7. v \in 0..2 /\ Activ!Upper[v + 1] = Limit(v)
  BY <1>5, LimitIs
<1>8. 10 * k < 8 * Limit(v)
  BY <1>5, <1>6, <1>7, LimitIs DEF Activ!AtLeast
<1>9. w = IF m < 5 THEN 0 ELSE IF m < 20 THEN 1 ELSE IF m < 50 THEN 2 ELSE 3
  BY <1>1, <1>2, RawIs
<1>10. Limit(v) <= m
  BY <1>5, <1>9 DEF Limit
<1>11. QED  BY <1>7, <1>8, <1>10, LimitIs

\* The rate of the counts is of some hours.
LEMMA RateIs ==
    ASSUME counts \in [0..3 -> Nat]
    PROVE  \E m \in Nat, n \in Nat : n > 0 /\ Activ!Rate(counts) = <<m, n>>
<1>1. CASE counts = Activ!Silent
  BY <1>1 DEF Activ!Rate
<1>2. CASE counts # Activ!Silent
  <2>1. Activ!Weighed(counts) = counts[0] * 10 + counts[1] * 7 + counts[2] * 5 + counts[3] * 3
    BY DEF Activ!Weighed, Activ!Sum4, Activ!Weight
  <2>2. Activ!Hourly(counts) = (IF counts[0] = 0 THEN 0 ELSE 10) + (IF counts[1] = 0 THEN 0 ELSE 7)
                               + (IF counts[2] = 0 THEN 0 ELSE 5) + (IF counts[3] = 0 THEN 0 ELSE 3)
    BY DEF Activ!Hourly, Activ!Sum4, Activ!Weight
  <2>3. \E h \in 0..3 : counts[h] # 0
    BY <1>2 DEF Activ!Silent, Activ!Hours
  <2>4. Activ!Weighed(counts) \in Nat
    BY <2>1
  <2>5. Activ!Hourly(counts) \in Nat /\ Activ!Hourly(counts) > 0
    BY <2>2, <2>3
  <2>6. QED  BY <1>2, <2>4, <2>5 DEF Activ!Rate
<1>3. QED  BY <1>1, <1>2

LEMMA ActivityIs == ActInv => Activ!ActivitySound
<1> SUFFICES ASSUME ActInv PROVE Activ!ActivitySound
  OBVIOUS
<1>1. Activ!Raw(Activ!Rate(counts)) \in 0..3 /\ activity \in 0..3
  BY RateIs, RawIs DEF ActInv
<1>2. Activ!Settles
  BY <1>1, SettlesAtOnce DEF Activ!Settles
<1>3. Activ!NoFlapping
  <2> SUFFICES ASSUME NEW r \in Activ!Rates, NEW s \in Activ!Rates,
                      Activ!Classified(r, activity) > activity,
                      Activ!Classified(s, Activ!Classified(r, activity)) < Activ!Classified(r, activity)
               PROVE  10 * s[1] <= 8 * r[1]
    BY DEF Activ!NoFlapping
  <2>1. PICK m \in Nat, k \in Nat : r = <<m, 1>> /\ s = <<k, 1>>
    BY DEF Activ!Rates
  <2>2. 10 * k <= 8 * m
    BY <1>1, <2>1, FallsLate
  <2>3. QED  BY <2>1, <2>2
<1>4. Activ!SilenceEnds
  <2> SUFFICES ASSUME counts = Activ!Silent PROVE Activ!Classified(Activ!Rate(counts), activity) = 0
    BY DEF Activ!SilenceEnds
  <2>1. PICK r : r = <<0, 1>> /\ Activ!Rate(counts) = r
    BY DEF Activ!Rate
  <2>2. Activ!Raw(r) = 0
    BY <2>1, RawIs
  <2>3. ~Activ!AtLeast(r, 8 * Activ!Upper[1])
    BY <2>1 DEF Activ!AtLeast, Activ!Upper
  <2>4. ~(0 > activity) /\ (activity = 0 \/ 0 < activity) /\ Activ!Raw(r) + 1 = 1
    BY <1>1, <2>2
  <2>5. Activ!Classified(r, activity) = 0
    <3>1. Activ!Classified(r, activity) =
             IF 0 < activity THEN IF Activ!AtLeast(r, 8 * Activ!Upper[Activ!Raw(r) + 1]) THEN activity ELSE 0 ELSE activity
      BY <1>1, <2>2, <2>4, ClassifiedIs
    <3>2. QED  BY <2>3, <2>4, <3>1
  <2>6. QED  BY <2>1, <2>5
<1>5. QED  BY <1>2, <1>3, <1>4 DEF Activ!ActivitySound

LEMMA ActKeeps == HourlyAmounts \subseteq Nat /\ ActInv /\ [Activ!Next]_(Activ!vars) => ActInv'
<1> SUFFICES ASSUME HourlyAmounts \subseteq Nat, ActInv, [Activ!Next]_(Activ!vars) PROVE ActInv'
  OBVIOUS
<1>1. ASSUME NEW n \in HourlyAmounts, Activ!Record(n) PROVE ActInv'
  BY <1>1 DEF Activ!Record, ActInv
<1>2. ASSUME NEW k \in PresetKeys, Activ!GetConfig(k) PROVE ActInv'
  <2>1. Activ!Raw(Activ!Rate(counts)) \in 0..3
    BY RateIs, RawIs DEF ActInv
  <2>2. Activ!Classified(Activ!Rate(counts), activity) \in 0..3
    BY <2>1, SettlesAtOnce DEF ActInv
  <2>3. QED  BY <1>2, <2>2 DEF Activ!GetConfig, ActInv
<1>3. CASE Activ!NextHour
  <2>1. counts' = [h \in 0..3 |-> IF h = 0 THEN 0 ELSE counts[h - 1]] /\ activity' = activity
    BY <1>3 DEF Activ!NextHour, Activ!Hours
  <2>2. \A h \in 0..3 : (IF h = 0 THEN 0 ELSE counts[h - 1]) \in Nat
    BY DEF ActInv
  <2>3. QED  BY <2>1, <2>2 DEF ActInv
<1>4. CASE Activ!Later \/ Activ!Restart \/ (\E k \in PresetKeys : Activ!Expire(k)) \/ UNCHANGED Activ!vars
  BY <1>4 DEF Activ!Later, Activ!Restart, Activ!Expire, Activ!vars, ActInv
<1>5. QED  BY <1>1, <1>2, <1>3, <1>4 DEF Activ!Next

\* Whatever is written and however the hours pass, a group's level settles at once, does
\* not fall again before a fifth fewer messages, and ends with silence.
THEOREM ActivityRight == ASSUME HourlyAmounts \subseteq Nat PROVE Activ!Spec => []Activ!ActivitySound
<1>1. Activ!Init => ActInv
  BY DEF Activ!Init, ActInv, Activ!Silent, Activ!Hours
<1>2. QED  BY <1>1, ActivityIs, ActKeeps, PTL DEF Activ!Spec

-----------------------------------------------------------------------------
(* The caches of storage/cache.py (Caches).                                  *)

LruRows == [key : CacheKeys, value : CacheValues, old : BOOLEAN]
LfuRows == [key : CacheKeys, value : CacheValues, old : BOOLEAN, count : Nat]
Uses == [key : CacheKeys]
Keyed(S) == [e \in S |-> e.key]

\* What the LRU cache holds was used, in the order it holds it, and is current.
LruInv ==
    /\ lru \in Seq(LruRows) /\ Distinct(Keyed(LruRows), lru)
    /\ recency \in Seq(Uses) /\ Distinct(Keyed(Uses), recency)
    /\ \A e \in Range(lru) : [key |-> e.key] \in Range(recency) /\ e.value = last[e.key]
    /\ Cch!OrderIsRecency

\* What the LFU cache holds is current, and used as often as the lowest count says.
LfuInv ==
    /\ lfu \in Seq(LfuRows) /\ Distinct(Keyed(LfuRows), lfu) /\ minFreq \in Nat
    /\ \A e \in Range(lfu) : e.value = last[e.key] /\ minFreq <= e.count

CachesInv == LruInv /\ LfuInv /\ last \in [CacheKeys -> CacheValues \cup {Cch!None}]

\* Whether a key is there, and where.
LEMMA Placed ==
    ASSUME NEW S, NEW s \in Seq(S), NEW k
    PROVE  /\ Cch!Has(s, k) <=> \E e \in Range(s) : e.key = k
           /\ Cch!Has(s, k) => /\ Cch!At(s, k) \in 1 .. Len(s) /\ s[Cch!At(s, k)].key = k
                               /\ s[Cch!At(s, k)] \in S /\ s[Cch!At(s, k)] \in Range(s)
<1>1. DOMAIN s = 1 .. Len(s) /\ \A i \in 1 .. Len(s) : s[i] \in S
  BY LenProperties, ElementOfSeq
<1>2. Cch!Has(s, k) <=> \E e \in Range(s) : e.key = k
  BY DEF Cch!Has, Range
<1>3. ASSUME Cch!Has(s, k)
      PROVE  Cch!At(s, k) \in 1 .. Len(s) /\ s[Cch!At(s, k)].key = k
  BY <1>1, <1>3 DEF Cch!Has, Cch!At
<1>4. QED  BY <1>1, <1>2, <1>3 DEF Range

\* What is left of rows of distinct keys when that of k is deleted.
LEMMA Dropping ==
    ASSUME NEW S, NEW s \in Seq(S), Distinct(Keyed(S), s), NEW k
    PROVE  /\ Cch!Drop(s, k) \in Seq(S) /\ Distinct(Keyed(S), Cch!Drop(s, k))
           /\ Len(Cch!Drop(s, k)) <= Len(s)
           /\ \A e : e \in Range(Cch!Drop(s, k)) <=> e \in Range(s) /\ e.key # k
           /\ \A x, y : Cch!Before(Cch!Drop(s, k), x, y) <=> Cch!Before(s, x, y) /\ x # k /\ y # k
<1> DEFINE r == Cch!Drop(s, k)
<1>0. DOMAIN s = 1 .. Len(s) /\ Len(s) \in Nat /\ \A e \in Range(s) : e \in S /\ Keyed(S)[e] = e.key
  <2>1. DOMAIN s = 1 .. Len(s) /\ Len(s) \in Nat /\ \A i \in 1 .. Len(s) : s[i] \in S
    BY LenProperties, ElementOfSeq
  <2>2. QED  BY <2>1 DEF Range, Keyed
<1>1. CASE Cch!Has(s, k)
  <2>1. PICK i \in 1 .. Len(s) : r = RemoveAt(s, i) /\ s[i].key = k /\ s[i] \in Range(s)
    BY <1>1, Placed DEF Cch!Drop, Cch!Popped, RemoveAt
  <2>2. /\ r \in Seq(S) /\ Len(r) = Len(s) - 1 /\ Distinct(Keyed(S), r)
        /\ \A e : e \in Range(r) <=> e \in Range(s) /\ Keyed(S)[e] # Keyed(S)[s[i]]
    <3>1. /\ RemoveAt(s, i) \in Seq(S) /\ Len(RemoveAt(s, i)) = Len(s) - 1
          /\ Distinct(Keyed(S), RemoveAt(s, i))
          /\ \A e : e \in Range(RemoveAt(s, i)) <=> e \in Range(s) /\ Keyed(S)[e] # Keyed(S)[s[i]]
      BY RemovalDistinct
    <3>2. r = RemoveAt(s, i)
      BY <2>1
    <3> HIDE DEF r
    <3>3. QED  BY <3>1, <3>2
  <2>3. \A e : e \in Range(r) <=> e \in Range(s) /\ e.key # k
    BY <1>0, <2>1, <2>2
  <2>4. \A j \in 1 .. (Len(s) - 1) : r[j] = IF j < i THEN s[j] ELSE s[j + 1]
    BY <2>1, RemovalPlaces
  <2>5. DOMAIN r = 1 .. (Len(s) - 1)
    BY <2>2, LenProperties
  <2>6. \A a \in 1 .. Len(s) : s[a].key = k <=> a = i
    <3>1. \A a \in 1 .. Len(s) : s[a] \in Range(s) /\ Keyed(S)[s[a]] = s[a].key
      BY <1>0 DEF Range
    <3>2. QED  BY <1>0, <2>1, <3>1 DEF Distinct
  <2> HIDE DEF r
  <2>7. ASSUME NEW x, NEW y, Cch!Before(r, x, y)
        PROVE  Cch!Before(s, x, y) /\ x # k /\ y # k
    <3>1. PICK a \in 1 .. (Len(s) - 1), b \in 1 .. (Len(s) - 1) : a < b /\ r[a].key = x /\ r[b].key = y
      BY <2>5, <2>7 DEF Cch!Before
    <3> DEFINE c == IF a < i THEN a ELSE a + 1
               d == IF b < i THEN b ELSE b + 1
    <3>2. /\ c \in 1 .. Len(s) /\ d \in 1 .. Len(s) /\ c < d /\ c # i /\ d # i
      BY <1>0, <3>1
    <3>3. s[c].key = x /\ s[d].key = y
      BY <2>4, <3>1
    <3> HIDE DEF c, d
    <3>4. QED  BY <1>0, <2>6, <3>2, <3>3 DEF Cch!Before
  <2>8. ASSUME NEW x, NEW y, Cch!Before(s, x, y), x # k, y # k
        PROVE  Cch!Before(r, x, y)
    <3>1. PICK a \in 1 .. Len(s), b \in 1 .. Len(s) : a < b /\ s[a].key = x /\ s[b].key = y
      BY <1>0, <2>8 DEF Cch!Before
    <3>2. a # i /\ b # i
      BY <2>6, <2>8, <3>1
    <3> DEFINE c == IF a < i THEN a ELSE a - 1
               d == IF b < i THEN b ELSE b - 1
    <3>3. c \in 1 .. (Len(s) - 1) /\ d \in 1 .. (Len(s) - 1) /\ c < d
      BY <1>0, <3>1, <3>2
    <3>4. r[c] = s[a]
      <4>1. CASE a < i
        BY <2>4, <3>3, <4>1
      <4>2. CASE ~(a < i)
        <5>1. c = a - 1 /\ ~(c < i) /\ c + 1 = a
          BY <3>1, <3>2, <4>2
        <5>2. QED  BY <2>4, <3>3, <5>1
      <4>3. QED  BY <4>1, <4>2
    <3>5. r[d] = s[b]
      <4>1. CASE b < i
        BY <2>4, <3>3, <4>1
      <4>2. CASE ~(b < i)
        <5>1. d = b - 1 /\ ~(d < i) /\ d + 1 = b
          BY <3>1, <3>2, <4>2
        <5>2. QED  BY <2>4, <3>3, <5>1
      <4>3. QED  BY <4>1, <4>2
    <3> HIDE DEF c, d
    <3>6. QED  BY <2>5, <3>1, <3>3, <3>4, <3>5 DEF Cch!Before
  <2>9. QED  BY <1>0, <2>2, <2>3, <2>7, <2>8 DEF r
<1>2. CASE ~Cch!Has(s, k)
  <2>1. r = s
    BY <1>2 DEF Cch!Drop
  <2>2. \A e \in Range(s) : e.key # k
    BY <1>2, Placed
  <2>3. \A x, y : Cch!Before(s, x, y) => x # k /\ y # k
    BY <1>0, <2>2 DEF Cch!Before, Range
  <2>4. QED  BY <1>0, <2>1, <2>2, <2>3
<1>3. QED  BY <1>1, <1>2

\* A row of a key that is not there goes to the end.
LEMMA Appending ==
    ASSUME NEW S, NEW s \in Seq(S), Distinct(Keyed(S), s), NEW e \in S, \A x \in Range(s) : x.key # e.key
    PROVE  /\ Append(s, e) \in Seq(S) /\ Distinct(Keyed(S), Append(s, e))
           /\ Range(Append(s, e)) = Range(s) \cup {e}
           /\ \A x, y : Cch!Before(Append(s, e), x, y) <=>
                Cch!Before(s, x, y) \/ (y = e.key /\ \E z \in Range(s) : z.key = x)
<1> DEFINE r == Append(s, e)
<1>1. /\ r \in Seq(S) /\ Len(r) = Len(s) + 1 /\ r[Len(s) + 1] = e
      /\ \A i \in 1 .. Len(s) : r[i] = s[i]
  BY AppendProperties
<1>2. Len(s) \in Nat /\ DOMAIN s = 1 .. Len(s) /\ DOMAIN r = 1 .. (Len(s) + 1)
  BY <1>1, LenProperties
<1>3. \A x \in Range(s) : x \in S
  BY <1>2, ElementOfSeq DEF Range
<1>4. \A x \in Range(s) : Keyed(S)[x] # Keyed(S)[e]
  BY <1>3 DEF Keyed
<1>5. Distinct(Keyed(S), r) /\ Range(r) = Range(s) \cup {e}
  BY <1>4, AppendDistinct
<1> HIDE DEF r
<1>6. ASSUME NEW x, NEW y, Cch!Before(r, x, y)
      PROVE  Cch!Before(s, x, y) \/ (y = e.key /\ \E z \in Range(s) : z.key = x)
  <2>1. PICK a \in 1 .. (Len(s) + 1), b \in 1 .. (Len(s) + 1) : a < b /\ r[a].key = x /\ r[b].key = y
    BY <1>2, <1>6 DEF Cch!Before
  <2>2. a \in 1 .. Len(s) /\ s[a].key = x /\ s[a] \in Range(s)
    BY <1>1, <1>2, <2>1 DEF Range
  <2>3. CASE b = Len(s) + 1
    BY <1>1, <2>1, <2>2, <2>3
  <2>4. CASE b # Len(s) + 1
    <3>1. b \in 1 .. Len(s) /\ s[b].key = y
      BY <1>1, <1>2, <2>1, <2>4
    <3>2. QED  BY <1>2, <2>1, <2>2, <3>1 DEF Cch!Before
  <2>5. QED  BY <2>3, <2>4
<1>7. ASSUME NEW x, NEW y, Cch!Before(s, x, y)
      PROVE  Cch!Before(r, x, y)
  <2>1. PICK a \in 1 .. Len(s), b \in 1 .. Len(s) : a < b /\ s[a].key = x /\ s[b].key = y
    BY <1>2, <1>7 DEF Cch!Before
  <2>2. a \in 1 .. (Len(s) + 1) /\ b \in 1 .. (Len(s) + 1) /\ r[a] = s[a] /\ r[b] = s[b]
    BY <1>1, <1>2, <2>1
  <2>3. QED  BY <1>2, <2>1, <2>2 DEF Cch!Before
<1>8. ASSUME NEW z \in Range(s)
      PROVE  Cch!Before(r, z.key, e.key)
  <2>1. PICK a \in 1 .. Len(s) : s[a] = z
    BY <1>2 DEF Range
  <2>2. a \in 1 .. (Len(s) + 1) /\ Len(s) + 1 \in 1 .. (Len(s) + 1) /\ a < Len(s) + 1 /\ r[a] = z
    BY <1>1, <1>2, <2>1
  <2>3. QED  BY <1>1, <1>2, <2>2 DEF Cch!Before
<1>9. QED  BY <1>1, <1>5, <1>6, <1>7, <1>8 DEF r

\* A row in the place of another of its key.
LEMMA Replacing ==
    ASSUME NEW S, NEW s \in Seq(S), Distinct(Keyed(S), s), NEW i \in 1 .. Len(s),
           NEW e \in S, e.key = s[i].key
    PROVE  /\ [s EXCEPT ![i] = e] \in Seq(S) /\ Distinct(Keyed(S), [s EXCEPT ![i] = e])
           /\ \A x : x \in Range([s EXCEPT ![i] = e]) <=> x = e \/ (x \in Range(s) /\ x.key # e.key)
           /\ \A x, y : Cch!Before([s EXCEPT ![i] = e], x, y) <=> Cch!Before(s, x, y)
<1> DEFINE q == [s EXCEPT ![i] = e]
<1>1. Len(s) \in Nat /\ DOMAIN s = 1 .. Len(s) /\ \A j \in 1 .. Len(s) : s[j] \in S
  BY LenProperties, ElementOfSeq
<1>2. q \in Seq(S) /\ Len(q) = Len(s)
  BY ExceptSeq
<1>3. DOMAIN q = 1 .. Len(s) /\ \A j \in 1 .. Len(s) : q[j] = IF j = i THEN e ELSE s[j]
  BY <1>1
<1> HIDE DEF q
<1>4. \A j \in 1 .. Len(s) : q[j].key = s[j].key /\ q[j] \in S
  BY <1>1, <1>3
<1>5. \A a, b \in 1 .. Len(s) : s[a].key = s[b].key => a = b
  BY <1>1 DEF Distinct, Keyed
<1>6. Distinct(Keyed(S), q)
  BY <1>3, <1>4, <1>5 DEF Distinct, Keyed
<1>7. \A x, y : Cch!Before(q, x, y) <=> Cch!Before(s, x, y)
  BY <1>1, <1>3, <1>4 DEF Cch!Before
<1>8. ASSUME NEW j \in 1 .. Len(s)
      PROVE  q[j] = e \/ (q[j] \in Range(s) /\ q[j].key # e.key)
  <2>1. CASE j = i
    BY <1>3, <2>1
  <2>2. CASE j # i
    BY <1>1, <1>3, <1>5, <2>2 DEF Range
  <2>3. QED  BY <2>1, <2>2
<1>9. ASSUME NEW j \in 1 .. Len(s), s[j].key # e.key
      PROVE  s[j] \in Range(q)
  BY <1>3, <1>9 DEF Range
<1>10. e \in Range(q)
  BY <1>3 DEF Range
<1>11. \A x : x \in Range(q) <=> x = e \/ (x \in Range(s) /\ x.key # e.key)
  BY <1>1, <1>3, <1>8, <1>9, <1>10 DEF Range
<1>12. QED  BY <1>2, <1>6, <1>7, <1>11 DEF q

\* Of numbers there is a least one.
LEMMA LeastNumber ==
    ASSUME NEW T, T \subseteq Nat
    PROVE  /\ Cch!MinOf(T) \in Nat /\ \A n \in T : Cch!MinOf(T) <= n
           /\ T # {} => Cch!MinOf(T) \in T
<1>1. CASE T = {}
  BY <1>1 DEF Cch!MinOf
<1>2. CASE T # {}
  <2>1. PICK x \in T : \A y \in T : ~(<<y, x>> \in OpToRel(<, Nat))
    BY <1>2, NatLessThanWellFounded, WFMin
  <2>2. ASSUME NEW y \in T PROVE x <= y
    <3>1. ~(y < x)
      BY <2>1 DEF OpToRel
    <3>2. QED  BY <3>1
  <2>3. QED  BY <1>2, <2>2 DEF Cch!MinOf
<1>3. QED  BY <1>1, <1>2

\* The least count of rows is one that none is below.
LEMMA LeastCount ==
    ASSUME NEW s \in Seq(LfuRows)
    PROVE  /\ Cch!Least(s) \in Nat /\ \A e \in Range(s) : Cch!Least(s) <= e.count
           /\ s # <<>> => \E e \in Range(s) : e.count = Cch!Least(s)
<1>1. DOMAIN s = 1 .. Len(s) /\ Len(s) \in Nat /\ \A i \in 1 .. Len(s) : s[i] \in LfuRows
  BY LenProperties, ElementOfSeq
<1>2. Cch!Counts(s) = {e.count : e \in Range(s)} /\ Cch!Counts(s) \subseteq Nat
  BY <1>1 DEF Cch!Counts, Range, LfuRows
<1>3. s # <<>> => Cch!Counts(s) # {}
  BY <1>1, EmptySeq DEF Cch!Counts
<1>4. QED  BY <1>2, <1>3, LeastNumber DEF Cch!Least

\* Without its least used row a cache holds what it held, if less.
LEMMA Evicting ==
    ASSUME LfuInv
    PROVE  /\ Cch!LfuEvicted \in Seq(LfuRows) /\ Distinct(Keyed(LfuRows), Cch!LfuEvicted)
           /\ Range(Cch!LfuEvicted) \subseteq Range(lfu)
<1>0. lfu \in Seq(LfuRows) /\ Distinct(Keyed(LfuRows), lfu)
  BY DEF LfuInv
<1>1. CASE lfu = <<>>
  BY <1>0, <1>1 DEF Cch!LfuEvicted
<1>2. CASE lfu # <<>>
  <2> DEFINE T == {i \in DOMAIN lfu : lfu[i].count = Cch!Least(lfu)}
  <2>1. DOMAIN lfu = 1 .. Len(lfu) /\ Len(lfu) \in Nat
    BY <1>0, LenProperties
  <2>2. PICK e \in Range(lfu) : e.count = Cch!Least(lfu)
    BY <1>0, <1>2, LeastCount
  <2>3. T # {} /\ T \subseteq Nat /\ T \subseteq 1 .. Len(lfu)
    BY <2>1, <2>2 DEF Range
  <2> HIDE DEF T
  <2>4. PICK i \in 1 .. Len(lfu) : i = Cch!MinOf(T)
    BY <2>3, LeastNumber
  <2>5. Cch!LfuEvicted = RemoveAt(lfu, i)
    BY <1>2, <2>4 DEF Cch!LfuEvicted, T, Cch!Popped, RemoveAt
  <2>6. /\ RemoveAt(lfu, i) \in Seq(LfuRows) /\ Distinct(Keyed(LfuRows), RemoveAt(lfu, i))
        /\ \A x : x \in Range(RemoveAt(lfu, i)) => x \in Range(lfu)
    BY <1>0, RemovalDistinct
  <2>7. QED  BY <2>5, <2>6
<1>3. QED  BY <1>1, <1>2

-----------------------------------------------------------------------------
(* The steps.                                                                *)

\* The row of k goes to the end of the LRU cache: r is what it held before.
LEMMA LruMoves ==
    ASSUME LruInv, NEW r \in Seq(LruRows), Distinct(Keyed(LruRows), r), NEW e \in LruRows,
           \A x \in Range(r) : x.key # e.key,
           \A x \in Range(r) : \E y \in Range(lru) : y.key = x.key,
           \A x, y : Cch!Before(r, x, y) => Cch!Before(lru, x, y),
           lru' = Append(r, e), Cch!Used(e.key),
           \A x \in Range(r) : x.value = last'[x.key], e.value = last'[e.key]
    PROVE  LruInv'
<1> DEFINE old == Cch!Drop(recency, e.key)
           u == [key |-> e.key]
<1>1. /\ lru' \in Seq(LruRows) /\ Distinct(Keyed(LruRows), lru') /\ Range(lru') = Range(r) \cup {e}
      /\ \A x, y : Cch!Before(lru', x, y) <=>
            Cch!Before(r, x, y) \/ (y = e.key /\ \E z \in Range(r) : z.key = x)
  BY Appending
<1>2. recency' = Append(old, u)
  <2>1. \E x \in Range(lru') : x.key = e.key
    BY <1>1
  <2>2. Cch!Has(lru', e.key)
    BY <1>1, <2>1, Placed
  <2>3. QED  BY <2>2 DEF Cch!Used
<1>3. /\ old \in Seq(Uses) /\ Distinct(Keyed(Uses), old)
      /\ \A x : x \in Range(old) <=> x \in Range(recency) /\ x.key # e.key
      /\ \A x, y : Cch!Before(old, x, y) <=> Cch!Before(recency, x, y) /\ x # e.key /\ y # e.key
  BY Dropping DEF LruInv
<1>4. u \in Uses /\ u.key = e.key
  BY DEF Uses, LruRows
<1> HIDE DEF old, u
<1>5. /\ recency' \in Seq(Uses) /\ Distinct(Keyed(Uses), recency') /\ Range(recency') = Range(old) \cup {u}
      /\ \A x, y : Cch!Before(recency', x, y) <=>
            Cch!Before(old, x, y) \/ (y = e.key /\ \E z \in Range(old) : z.key = x)
  <2>1. \A x \in Range(old) : x.key # u.key
    BY <1>3, <1>4
  <2>2. QED  BY <1>2, <1>3, <1>4, <2>1, Appending
<1>6. ASSUME NEW x \in Range(r)
      PROVE  [key |-> x.key] \in Range(old)
  <2>1. PICK y \in Range(lru) : y.key = x.key
    OBVIOUS
  <2>2. [key |-> x.key] \in Range(recency)
    BY <2>1 DEF LruInv
  <2>3. QED  BY <1>3, <2>2
<1>7. \A x \in Range(lru') : [key |-> x.key] \in Range(recency') /\ x.value = last'[x.key]
  BY <1>1, <1>5, <1>6 DEF u
<1>8. ASSUME NEW x \in CacheKeys, NEW y \in CacheKeys, Cch!Before(lru', x, y)
      PROVE  Cch!Before(recency', x, y)
  <2>1. CASE Cch!Before(r, x, y)
    <3>1. x # e.key /\ y # e.key
      <4>1. \A i \in DOMAIN r : r[i] \in Range(r)
        BY DEF Range
      <4>2. QED  BY <2>1, <4>1 DEF Cch!Before
    <3>2. Cch!Before(recency, x, y)
      BY <2>1 DEF LruInv, Cch!OrderIsRecency
    <3>3. QED  BY <1>3, <1>5, <3>1, <3>2
  <2>2. CASE y = e.key /\ \E z \in Range(r) : z.key = x
    <3>1. PICK z \in Range(r) : z.key = x
      BY <2>2
    <3>2. [key |-> x] \in Range(old) /\ [key |-> x].key = x
      BY <1>6, <3>1
    <3>3. QED  BY <1>5, <2>2, <3>2
  <2>3. QED  BY <1>1, <1>8, <2>1, <2>2
<1>9. Cch!OrderIsRecency'
  BY <1>8 DEF Cch!OrderIsRecency, Cch!Before
<1>10. QED  BY <1>1, <1>5, <1>7, <1>9 DEF LruInv

\* The LRU cache holds some of what it held, in its order.
LEMMA LruThins ==
    ASSUME LruInv, UNCHANGED recency, lru' \in Seq(LruRows), Distinct(Keyed(LruRows), lru'),
           \A x \in Range(lru') : \E y \in Range(lru) : y.key = x.key,
           \A x, y : Cch!Before(lru', x, y) => Cch!Before(lru, x, y),
           \A x \in Range(lru') : x.value = last'[x.key]
    PROVE  LruInv'
<1>1. \A x \in Range(lru') : [key |-> x.key] \in Range(recency)
  BY DEF LruInv
<1>2. ASSUME NEW x \in CacheKeys, NEW y \in CacheKeys, Cch!Before(lru', x, y)
      PROVE  Cch!Before(recency', x, y)
  <2>1. Cch!Before(recency, x, y)
    BY <1>2 DEF LruInv, Cch!OrderIsRecency
  <2>2. QED  BY <2>1
<1>3. Cch!OrderIsRecency'
  BY <1>2 DEF Cch!OrderIsRecency, Cch!Before
<1>4. QED  BY <1>1, <1>3 DEF LruInv

\* A key's row with another value, and a key's row that is old.
LEMMA Rewritten ==
    ASSUME NEW S \in {LruRows, LfuRows}, NEW s \in Seq(S), Distinct(Keyed(S), s), NEW k, Cch!Has(s, k)
    PROVE  /\ Cch!At(s, k) \in 1 .. Len(s)
           /\ s[Cch!At(s, k)] \in S /\ s[Cch!At(s, k)] \in Range(s) /\ s[Cch!At(s, k)].key = k
           /\ \A x \in Range(s) : x \in S /\ (x.key = k => x = s[Cch!At(s, k)])
<1>1. DOMAIN s = 1 .. Len(s) /\ \A i \in 1 .. Len(s) : s[i] \in S
  BY LenProperties, ElementOfSeq
<1>2. /\ Cch!At(s, k) \in 1 .. Len(s)
      /\ s[Cch!At(s, k)] \in S /\ s[Cch!At(s, k)] \in Range(s) /\ s[Cch!At(s, k)].key = k
  BY Placed
<1>3. ASSUME NEW i \in 1 .. Len(s), s[i].key = k
      PROVE  s[i] = s[Cch!At(s, k)]
  BY <1>1, <1>2, <1>3 DEF Distinct, Keyed
<1>4. QED  BY <1>1, <1>2, <1>3 DEF Range

LEMMA LruSets ==
    ASSUME CachesInv, NEW k \in CacheKeys, NEW v \in CacheValues, Cch!Set(k, v)
    PROVE  LruInv'
<1>0. /\ lru' = Cch!LruSet(k, v) /\ Cch!Used(k) /\ last' = [last EXCEPT ![k] = v]
      /\ lru \in Seq(LruRows) /\ Distinct(Keyed(LruRows), lru) /\ LruInv
  BY DEF Cch!Set, CachesInv, LruInv
<1>1. \A x : x \in Range(lru) => x \in LruRows /\ x.value = last[x.key]
  <2>1. \A i \in DOMAIN lru : lru[i] \in LruRows
    BY <1>0, LenProperties, ElementOfSeq
  <2>2. QED  BY <1>0, <2>1 DEF Range, LruInv
<1>2. \A y \in CacheKeys : last'[y] = IF y = k THEN v ELSE last[y]
  BY <1>0 DEF CachesInv
<1>3. CASE Cch!Has(lru, k)
  <2> DEFINE i == Cch!At(lru, k)
             e == [lru[i] EXCEPT !.value = v]
             q == [lru EXCEPT ![i] = e]
             r == Cch!Drop(q, k)
  <2>1. /\ i \in 1 .. Len(lru) /\ lru[i] \in LruRows /\ lru[i] \in Range(lru) /\ lru[i].key = k
        /\ \A x \in Range(lru) : x.key = k => x = lru[i]
    BY <1>0, <1>3, Rewritten
  <2>2. e \in LruRows /\ e.key = k /\ e.value = v
    BY <2>1 DEF LruRows
  <2>3. [lru EXCEPT ![i].value = v] = q
    OBVIOUS
  <2> HIDE DEF i, e
  <2>4. /\ q \in Seq(LruRows) /\ Distinct(Keyed(LruRows), q)
        /\ \A x : x \in Range(q) <=> x = e \/ (x \in Range(lru) /\ x.key # e.key)
        /\ \A x, y : Cch!Before(q, x, y) <=> Cch!Before(lru, x, y)
    BY <1>0, <2>1, <2>2, Replacing
  <2> HIDE DEF q
  <2>5. Cch!Has(q, k)
    <3>1. \E x \in Range(q) : x.key = k
      BY <2>2, <2>4
    <3>2. QED  BY <2>4, <3>1, Placed
  <2>6. q[Cch!At(q, k)] = e
    <3>1. \A x \in Range(q) : x.key = k => x = q[Cch!At(q, k)]
      BY <2>4, <2>5, Rewritten
    <3>2. QED  BY <2>2, <2>4, <3>1
  <2>7. lru' = Append(r, e)
    BY <1>0, <1>3, <2>3, <2>6 DEF Cch!LruSet, Cch!ToEnd, i
  <2>8. /\ r \in Seq(LruRows) /\ Distinct(Keyed(LruRows), r)
        /\ \A x : x \in Range(r) <=> x \in Range(q) /\ x.key # k
        /\ \A x, y : Cch!Before(r, x, y) <=> Cch!Before(q, x, y) /\ x # k /\ y # k
    BY <2>4, Dropping
  <2> HIDE DEF r
  <2>9. \A x \in Range(r) : x \in Range(lru) /\ x.key # k
    BY <2>2, <2>4, <2>8
  <2>10. \A x \in Range(r) : x.value = last'[x.key]
    BY <1>1, <1>2, <2>9 DEF LruRows
  <2>11. e.value = last'[e.key]
    BY <1>2, <2>2
  <2>12. \A x \in Range(r) : \E y \in Range(lru) : y.key = x.key
    BY <2>9
  <2>13. \A x, y : Cch!Before(r, x, y) => Cch!Before(lru, x, y)
    BY <2>4, <2>8
  <2>14. \A x \in Range(r) : x.key # e.key
    BY <2>2, <2>9
  <2>15. QED  BY <1>0, <2>2, <2>7, <2>8, <2>10, <2>11, <2>12, <2>13, <2>14, LruMoves
<1>4. CASE ~Cch!Has(lru, k)
  <2>1. PICK e \in LruRows : e = [key |-> k, value |-> v, old |-> FALSE] /\ e.key = k /\ e.value = v
    <3>1. [key |-> k, value |-> v, old |-> FALSE] \in LruRows
      BY DEF LruRows
    <3>2. QED  BY <3>1
  <2>2. PICK r : r = IF Len(lru) >= CacheSize /\ lru # <<>> THEN Tail(lru) ELSE lru
    OBVIOUS
  <2>3. lru' = Append(r, e)
    BY <1>0, <1>4, <2>1, <2>2 DEF Cch!LruSet
  <2>4. /\ r \in Seq(LruRows) /\ Distinct(Keyed(LruRows), r) /\ Range(r) \subseteq Range(lru)
        /\ \A x, y : Cch!Before(r, x, y) => Cch!Before(lru, x, y)
    <3>1. CASE r = lru
      BY <1>0, <3>1
    <3>2. CASE lru # <<>> /\ r = Tail(lru)
      <4>1. /\ Tail(lru) \in Seq(LruRows) /\ Len(Tail(lru)) = Len(lru) - 1
            /\ Distinct(Keyed(LruRows), Tail(lru)) /\ Range(Tail(lru)) \subseteq Range(lru)
        BY <1>0, <3>2, TailDistinct
      <4>2. Len(lru) \in Nat /\ DOMAIN lru = 1 .. Len(lru) /\ DOMAIN Tail(lru) = 1 .. (Len(lru) - 1)
            /\ \A j \in 1 .. (Len(lru) - 1) : Tail(lru)[j] = lru[j + 1]
        BY <1>0, <3>2, <4>1, LenProperties, HeadTailProperties
      <4>3. ASSUME NEW x, NEW y, Cch!Before(Tail(lru), x, y)
            PROVE  Cch!Before(lru, x, y)
        <5>1. PICK a, b \in 1 .. (Len(lru) - 1) : a < b /\ Tail(lru)[a].key = x /\ Tail(lru)[b].key = y
          BY <4>2, <4>3 DEF Cch!Before
        <5>2. a + 1 \in 1 .. Len(lru) /\ b + 1 \in 1 .. Len(lru) /\ a + 1 < b + 1
          BY <4>2, <5>1
        <5>3. lru[a + 1].key = x /\ lru[b + 1].key = y
          BY <4>2, <5>1
        <5>4. QED  BY <4>2, <5>2, <5>3 DEF Cch!Before
      <4>4. QED  BY <3>2, <4>1, <4>3
    <3>3. QED  BY <2>2, <3>1, <3>2
  <2>5. \A x \in Range(lru) : x.key # k
    BY <1>0, <1>4, Placed
  <2>6. \A x \in Range(r) : x \in LruRows /\ x.key # e.key /\ x.value = last'[x.key]
    BY <1>1, <1>2, <2>1, <2>4, <2>5 DEF LruRows
  <2>7. e.value = last'[e.key]
    BY <1>2, <2>1
  <2>8. QED  BY <1>0, <2>1, <2>3, <2>4, <2>6, <2>7, LruMoves
<1>5. QED  BY <1>3, <1>4

\* A hit moves the row to the end, an expired row goes.
LEMMA LruGets ==
    ASSUME CachesInv, NEW k \in CacheKeys, Cch!Get(k)
    PROVE  LruInv'
<1>0. /\ lru' = Cch!LruGet(k) /\ Cch!Used(k) /\ last' = last
      /\ lru \in Seq(LruRows) /\ Distinct(Keyed(LruRows), lru) /\ LruInv
  BY DEF Cch!Get, CachesInv, LruInv
<1>1. \A x \in Range(lru) : x.value = last[x.key]
  BY <1>0 DEF LruInv
<1>2. PICK r : r = Cch!Drop(lru, k)
  OBVIOUS
<1>3. /\ r \in Seq(LruRows) /\ Distinct(Keyed(LruRows), r)
      /\ \A x : x \in Range(r) <=> x \in Range(lru) /\ x.key # k
      /\ \A x, y : Cch!Before(r, x, y) <=> Cch!Before(lru, x, y) /\ x # k /\ y # k
  BY <1>0, <1>2, Dropping
<1>4. CASE ~Cch!Has(lru, k)
  <2>1. lru' = lru /\ recency' = recency
    BY <1>0, <1>4 DEF Cch!LruGet, Cch!Used
  <2>2. QED  BY <1>0, <1>1, <2>1, LruThins
<1>5. CASE Cch!Has(lru, k) /\ lru[Cch!At(lru, k)].old
  <2>1. lru' = r
    BY <1>0, <1>2, <1>5 DEF Cch!LruGet
  <2>2. ~Cch!Has(lru', k)
    <3>1. ~\E x \in Range(r) : x.key = k
      BY <1>3
    <3>2. QED  BY <1>3, <2>1, <3>1, Placed
  <2>3. recency' = recency
    BY <1>0, <2>2 DEF Cch!Used
  <2>4. QED  BY <1>0, <1>1, <1>3, <2>1, <2>3, LruThins
<1>6. CASE Cch!Has(lru, k) /\ ~lru[Cch!At(lru, k)].old
  <2>1. PICK e : e = lru[Cch!At(lru, k)]
    OBVIOUS
  <2>2. e \in LruRows /\ e \in Range(lru) /\ e.key = k
    BY <1>0, <1>6, <2>1, Rewritten
  <2>3. lru' = Append(r, e)
    BY <1>0, <1>2, <1>6, <2>1 DEF Cch!LruGet, Cch!ToEnd
  <2>4. \A x \in Range(r) : x.key # e.key /\ x.value = last'[x.key] /\ x \in Range(lru)
    BY <1>0, <1>1, <1>3, <2>2
  <2>5. e.value = last'[e.key]
    BY <1>0, <1>1, <2>2
  <2>6. \A x, y : Cch!Before(r, x, y) => Cch!Before(lru, x, y)
    BY <1>3
  <2>7. \A x \in Range(r) : \E y \in Range(lru) : y.key = x.key
    BY <2>4
  <2>8. QED  BY <1>0, <1>3, <2>2, <2>3, <2>4, <2>5, <2>6, <2>7, LruMoves
<1>7. QED  BY <1>4, <1>5, <1>6

\* A deleted row goes.
LEMMA LruDeletes ==
    ASSUME CachesInv, NEW k \in CacheKeys, Cch!Delete(k)
    PROVE  LruInv'
<1>0. /\ lru' = Cch!Drop(lru, k) /\ UNCHANGED recency /\ last' = [last EXCEPT ![k] = Cch!None]
      /\ lru \in Seq(LruRows) /\ Distinct(Keyed(LruRows), lru) /\ LruInv
  BY DEF Cch!Delete, CachesInv, LruInv
<1>1. \A x \in Range(lru) : x \in LruRows /\ x.value = last[x.key]
  <2>1. \A i \in DOMAIN lru : lru[i] \in LruRows
    BY <1>0, LenProperties, ElementOfSeq
  <2>2. QED  BY <1>0, <2>1 DEF Range, LruInv
<1>2. PICK r : r = Cch!Drop(lru, k)
  OBVIOUS
<1>3. /\ r \in Seq(LruRows) /\ Distinct(Keyed(LruRows), r)
      /\ \A x : x \in Range(r) <=> x \in Range(lru) /\ x.key # k
      /\ \A x, y : Cch!Before(r, x, y) <=> Cch!Before(lru, x, y) /\ x # k /\ y # k
  BY <1>0, <1>2, Dropping
<1>4. \A x \in Range(r) : x.value = last'[x.key]
  <2>1. \A y \in CacheKeys : y # k => last'[y] = last[y]
    BY <1>0 DEF CachesInv
  <2>2. QED  BY <1>1, <1>3, <2>1 DEF LruRows
<1>5. lru' = r
  BY <1>0, <1>2
<1>6. QED  BY <1>0, <1>3, <1>4, <1>5, LruThins

\* Age changes no key, value or place.
LEMMA LruAges ==
    ASSUME CachesInv, NEW k \in CacheKeys, Cch!Expire(k)
    PROVE  LruInv'
<1>0. /\ lru' = Cch!Aged(lru, k) /\ UNCHANGED <<recency, last>>
      /\ lru \in Seq(LruRows) /\ Distinct(Keyed(LruRows), lru) /\ LruInv
  BY DEF Cch!Expire, CachesInv, LruInv
<1>1. \A x \in Range(lru) : x.value = last[x.key]
  BY <1>0 DEF LruInv
<1>2. CASE ~Cch!Has(lru, k)
  <2>1. lru' = lru
    BY <1>0, <1>2 DEF Cch!Aged
  <2>2. QED  BY <1>0, <1>1, <2>1, LruThins
<1>3. CASE Cch!Has(lru, k)
  <2> DEFINE i == Cch!At(lru, k)
             e == [lru[i] EXCEPT !.old = TRUE]
  <2>1. /\ i \in 1 .. Len(lru) /\ lru[i] \in LruRows /\ lru[i] \in Range(lru) /\ lru[i].key = k
    BY <1>0, <1>3, Rewritten
  <2>2. e \in LruRows /\ e.key = k /\ e.value = lru[i].value
    BY <2>1 DEF LruRows
  <2>3. lru' = [lru EXCEPT ![i] = e]
    BY <1>0, <1>3 DEF Cch!Aged
  <2> HIDE DEF i, e
  <2> DEFINE q == [lru EXCEPT ![i] = e]
  <2>5. /\ q \in Seq(LruRows) /\ Distinct(Keyed(LruRows), q)
        /\ \A x : x \in Range(q) <=> x = e \/ (x \in Range(lru) /\ x.key # e.key)
        /\ \A x, y : Cch!Before(q, x, y) <=> Cch!Before(lru, x, y)
    BY <1>0, <2>1, <2>2, Replacing
  <2> HIDE DEF q
  <2>6. lru' = q
    BY <2>3 DEF q
  <2>7. \A x \in Range(q) : x.value = last'[x.key] /\ \E y \in Range(lru) : y.key = x.key
    <3>1. e.value = last[e.key]
      BY <1>1, <2>1, <2>2
    <3>2. QED  BY <1>0, <1>1, <2>1, <2>2, <2>5, <3>1
  <2>8. QED  BY <1>0, <2>5, <2>6, <2>7, LruThins
<1>4. QED  BY <1>2, <1>3

\* Setting, reading, deleting and ageing an entry of the LFU cache.
LEMMA LfuSets ==
    ASSUME CachesInv, NEW k \in CacheKeys, NEW v \in CacheValues, Cch!Set(k, v)
    PROVE  LfuInv'
<1>0. /\ lfu' = Cch!LfuSet(k, v) /\ minFreq' = Cch!SetFreq(k) /\ last' = [last EXCEPT ![k] = v]
      /\ lfu \in Seq(LfuRows) /\ Distinct(Keyed(LfuRows), lfu) /\ minFreq \in Nat /\ LfuInv
  BY DEF Cch!Set, CachesInv, LfuInv
<1>1. \A x : x \in Range(lfu) => x \in LfuRows /\ x.value = last[x.key] /\ minFreq <= x.count
  <2>1. \A i \in DOMAIN lfu : lfu[i] \in LfuRows
    BY <1>0, LenProperties, ElementOfSeq
  <2>2. QED  BY <1>0, <2>1 DEF Range, LfuInv
<1>2. \A y \in CacheKeys : last'[y] = IF y = k THEN v ELSE last[y]
  BY <1>0 DEF CachesInv
<1>3. CASE Cch!Has(lfu, k)
  <2> DEFINE i == Cch!At(lfu, k)
             e == [lfu[i] EXCEPT !.value = v]
  <2>1. /\ i \in 1 .. Len(lfu) /\ lfu[i] \in LfuRows /\ lfu[i] \in Range(lfu) /\ lfu[i].key = k
    BY <1>0, <1>3, Rewritten
  <2>2. e \in LfuRows /\ e.key = k /\ e.value = v /\ e.count = lfu[i].count
    BY <2>1 DEF LfuRows
  <2>3. lfu' = [lfu EXCEPT ![i] = e]
    BY <1>0, <1>3 DEF Cch!LfuSet
  <2> HIDE DEF i, e
  <2>4. /\ lfu' \in Seq(LfuRows) /\ Distinct(Keyed(LfuRows), lfu')
        /\ \A x : x \in Range(lfu') <=> x = e \/ (x \in Range(lfu) /\ x.key # e.key)
    <3>1. e.key = lfu[i].key
      BY <2>1, <2>2
    <3>2. /\ [lfu EXCEPT ![i] = e] \in Seq(LfuRows) /\ Distinct(Keyed(LfuRows), [lfu EXCEPT ![i] = e])
          /\ \A x : x \in Range([lfu EXCEPT ![i] = e]) <=> x = e \/ (x \in Range(lfu) /\ x.key # e.key)
          /\ \A x, y : Cch!Before([lfu EXCEPT ![i] = e], x, y) <=> Cch!Before(lfu, x, y)
      BY <1>0, <2>1, <2>2, <3>1, Replacing
    <3>3. QED  BY <2>3, <3>2
  <2>5. \A x \in Range(lfu') : x.value = last'[x.key]
    BY <1>1, <1>2, <2>2, <2>4 DEF LfuRows
  <2>6. \A x \in Range(lfu') : minFreq <= x.count
    BY <1>1, <2>1, <2>2, <2>4
  <2>7. minFreq' = minFreq \/ minFreq' = Cch!Least(lfu')
    BY <1>0 DEF Cch!SetFreq
  <2>8. Cch!Least(lfu') \in Nat /\ \A x \in Range(lfu') : Cch!Least(lfu') <= x.count
    BY <2>4, LeastCount
  <2>9. QED  BY <1>0, <2>4, <2>5, <2>6, <2>7, <2>8 DEF LfuInv
<1>4. CASE ~Cch!Has(lfu, k)
  <2>1. PICK e \in LfuRows : e = [key |-> k, value |-> v, old |-> FALSE, count |-> 0] /\ e.key = k /\ e.value = v
    <3>1. [key |-> k, value |-> v, old |-> FALSE, count |-> 0] \in LfuRows
      BY DEF LfuRows
    <3>2. QED  BY <3>1
  <2>2. PICK r : r = IF Len(lfu) >= CacheSize THEN Cch!LfuEvicted ELSE lfu
    OBVIOUS
  <2>3. lfu' = Append(r, e) /\ minFreq' = Cch!Least(lfu')
    BY <1>0, <1>4, <2>1, <2>2 DEF Cch!LfuSet, Cch!SetFreq
  <2>4. r \in Seq(LfuRows) /\ Distinct(Keyed(LfuRows), r) /\ Range(r) \subseteq Range(lfu)
    BY <1>0, <2>2, Evicting
  <2>5. \A x \in Range(lfu) : x.key # k
    BY <1>0, <1>4, Placed
  <2>6. \A x \in Range(r) : x \in LfuRows /\ x.key # e.key /\ x.value = last'[x.key]
    BY <1>1, <1>2, <2>1, <2>4, <2>5 DEF LfuRows
  <2>7. /\ lfu' \in Seq(LfuRows) /\ Distinct(Keyed(LfuRows), lfu')
        /\ Range(lfu') = Range(r) \cup {e}
    BY <2>3, <2>4, <2>6, Appending
  <2>8. minFreq' \in Nat /\ \A x \in Range(lfu') : minFreq' <= x.count
    BY <2>3, <2>7, LeastCount
  <2>9. \A x \in Range(lfu') : x.value = last'[x.key]
    BY <1>2, <2>1, <2>6, <2>7
  <2>10. QED  BY <2>7, <2>8, <2>9 DEF LfuInv
<1>5. QED  BY <1>3, <1>4

LEMMA LfuGets ==
    ASSUME CachesInv, NEW k \in CacheKeys, Cch!Get(k)
    PROVE  LfuInv'
<1>0. /\ lfu' = Cch!LfuGet(k) /\ minFreq' = Cch!GetFreq(k) /\ last' = last
      /\ lfu \in Seq(LfuRows) /\ Distinct(Keyed(LfuRows), lfu) /\ minFreq \in Nat /\ LfuInv
  BY DEF Cch!Get, CachesInv, LfuInv
<1>1. \A x \in Range(lfu) : x.value = last[x.key] /\ minFreq <= x.count
  BY <1>0 DEF LfuInv
<1>2. minFreq' = minFreq \/ minFreq' = Cch!Least(lfu')
  BY <1>0 DEF Cch!GetFreq
<1>3. SUFFICES /\ lfu' \in Seq(LfuRows) /\ Distinct(Keyed(LfuRows), lfu')
               /\ \A x \in Range(lfu') : x.value = last[x.key] /\ minFreq <= x.count
  <2>1. Cch!Least(lfu') \in Nat /\ \A x \in Range(lfu') : Cch!Least(lfu') <= x.count
    BY LeastCount
  <2>2. QED  BY <1>0, <1>2, <2>1 DEF LfuInv
<1>4. CASE ~Cch!Has(lfu, k)
  BY <1>0, <1>1, <1>4 DEF Cch!LfuGet
<1>5. CASE Cch!Has(lfu, k) /\ lfu[Cch!At(lfu, k)].old
  <2>1. lfu' = Cch!Drop(lfu, k)
    BY <1>0, <1>5 DEF Cch!LfuGet
  <2>2. QED  BY <1>0, <1>1, <2>1, Dropping
<1>6. CASE Cch!Has(lfu, k) /\ ~lfu[Cch!At(lfu, k)].old
  <2> DEFINE i == Cch!At(lfu, k)
             e == [lfu[i] EXCEPT !.count = @ + 1]
  <2>1. /\ i \in 1 .. Len(lfu) /\ lfu[i] \in LfuRows /\ lfu[i] \in Range(lfu) /\ lfu[i].key = k
    BY <1>0, <1>6, Rewritten
  <2>2. e \in LfuRows /\ e.key = k /\ e.value = lfu[i].value /\ e.count = lfu[i].count + 1 /\ lfu[i].count \in Nat
    BY <2>1 DEF LfuRows
  <2>3. lfu' = [lfu EXCEPT ![i] = e]
    BY <1>0, <1>6 DEF Cch!LfuGet
  <2> HIDE DEF i, e
  <2>4. /\ lfu' \in Seq(LfuRows) /\ Distinct(Keyed(LfuRows), lfu')
        /\ \A x : x \in Range(lfu') <=> x = e \/ (x \in Range(lfu) /\ x.key # e.key)
    <3>1. e.key = lfu[i].key
      BY <2>1, <2>2
    <3>2. /\ [lfu EXCEPT ![i] = e] \in Seq(LfuRows) /\ Distinct(Keyed(LfuRows), [lfu EXCEPT ![i] = e])
          /\ \A x : x \in Range([lfu EXCEPT ![i] = e]) <=> x = e \/ (x \in Range(lfu) /\ x.key # e.key)
          /\ \A x, y : Cch!Before([lfu EXCEPT ![i] = e], x, y) <=> Cch!Before(lfu, x, y)
      BY <1>0, <2>1, <2>2, <3>1, Replacing
    <3>3. QED  BY <2>3, <3>2
  <2>5. e.value = last[e.key] /\ minFreq <= e.count
    BY <1>0, <1>1, <2>1, <2>2
  <2>6. QED  BY <1>1, <2>4, <2>5
<1>7. QED  BY <1>4, <1>5, <1>6

LEMMA LfuDeletes ==
    ASSUME CachesInv, NEW k \in CacheKeys, Cch!Delete(k)
    PROVE  LfuInv'
<1>0. /\ lfu' = Cch!Drop(lfu, k) /\ minFreq' = Cch!DeleteFreq(k) /\ last' = [last EXCEPT ![k] = Cch!None]
      /\ lfu \in Seq(LfuRows) /\ Distinct(Keyed(LfuRows), lfu) /\ minFreq \in Nat /\ LfuInv
  BY DEF Cch!Delete, CachesInv, LfuInv
<1>1. \A x \in Range(lfu) : x \in LfuRows /\ x.value = last[x.key] /\ minFreq <= x.count
  <2>1. \A i \in DOMAIN lfu : lfu[i] \in LfuRows
    BY <1>0, LenProperties, ElementOfSeq
  <2>2. QED  BY <1>0, <2>1 DEF Range, LfuInv
<1>2. /\ lfu' \in Seq(LfuRows) /\ Distinct(Keyed(LfuRows), lfu')
      /\ \A x : x \in Range(lfu') <=> x \in Range(lfu) /\ x.key # k
  BY <1>0, Dropping
<1>3. \A x \in Range(lfu') : x.value = last'[x.key]
  <2>1. \A y \in CacheKeys : y # k => last'[y] = last[y]
    BY <1>0 DEF CachesInv
  <2>2. QED  BY <1>1, <1>2, <2>1 DEF LfuRows
<1>4. minFreq' \in {minFreq, Cch!Least(lfu), 0}
  BY <1>0 DEF Cch!DeleteFreq
<1>5. Cch!Least(lfu) \in Nat /\ \A x \in Range(lfu) : Cch!Least(lfu) <= x.count
  BY <1>0, LeastCount
<1>6. \A x \in Range(lfu) : 0 <= x.count
  BY <1>1 DEF LfuRows
<1>7. QED  BY <1>0, <1>1, <1>2, <1>3, <1>4, <1>5, <1>6 DEF LfuInv

LEMMA LfuAges ==
    ASSUME CachesInv, NEW k \in CacheKeys, Cch!Expire(k)
    PROVE  LfuInv'
<1>0. /\ lfu' = Cch!Aged(lfu, k) /\ UNCHANGED <<minFreq, last>>
      /\ lfu \in Seq(LfuRows) /\ Distinct(Keyed(LfuRows), lfu) /\ minFreq \in Nat /\ LfuInv
  BY DEF Cch!Expire, CachesInv, LfuInv
<1>1. \A x \in Range(lfu) : x.value = last[x.key] /\ minFreq <= x.count
  BY <1>0 DEF LfuInv
<1>2. CASE ~Cch!Has(lfu, k)
  BY <1>0, <1>1, <1>2 DEF Cch!Aged, LfuInv
<1>3. CASE Cch!Has(lfu, k)
  <2> DEFINE i == Cch!At(lfu, k)
             e == [lfu[i] EXCEPT !.old = TRUE]
  <2>1. /\ i \in 1 .. Len(lfu) /\ lfu[i] \in LfuRows /\ lfu[i] \in Range(lfu) /\ lfu[i].key = k
    BY <1>0, <1>3, Rewritten
  <2>2. e \in LfuRows /\ e.key = k /\ e.value = lfu[i].value /\ e.count = lfu[i].count
    BY <2>1 DEF LfuRows
  <2>3. lfu' = [lfu EXCEPT ![i] = e]
    BY <1>0, <1>3 DEF Cch!Aged
  <2> HIDE DEF i, e
  <2>4. /\ lfu' \in Seq(LfuRows) /\ Distinct(Keyed(LfuRows), lfu')
        /\ \A x : x \in Range(lfu') <=> x = e \/ (x \in Range(lfu) /\ x.key # e.key)
    <3>1. e.key = lfu[i].key
      BY <2>1, <2>2
    <3>2. /\ [lfu EXCEPT ![i] = e] \in Seq(LfuRows) /\ Distinct(Keyed(LfuRows), [lfu EXCEPT ![i] = e])
          /\ \A x : x \in Range([lfu EXCEPT ![i] = e]) <=> x = e \/ (x \in Range(lfu) /\ x.key # e.key)
          /\ \A x, y : Cch!Before([lfu EXCEPT ![i] = e], x, y) <=> Cch!Before(lfu, x, y)
      BY <1>0, <2>1, <2>2, <3>1, Replacing
    <3>3. QED  BY <2>3, <3>2
  <2>5. e.value = last[e.key] /\ minFreq <= e.count
    BY <1>1, <2>1, <2>2
  <2>6. QED  BY <1>0, <1>1, <2>4, <2>5 DEF LfuInv
<1>4. QED  BY <1>2, <1>3

LEMMA CachesInit ==
    ASSUME Cch!Init
    PROVE  CachesInv
<1>1. /\ lru = <<>> /\ lfu = <<>> /\ minFreq = 0 /\ recency = <<>> /\ last = [k \in CacheKeys |-> Cch!None]
  BY DEF Cch!Init
<1>2. /\ <<>> \in Seq(LruRows) /\ <<>> \in Seq(LfuRows) /\ <<>> \in Seq(Uses)
      /\ Len(<<>>) = 0 /\ DOMAIN <<>> = 1 .. 0 /\ Range(<<>>) = {}
  BY EmptySeq, LenProperties DEF Range
<1>3. Distinct(Keyed(LruRows), lru) /\ Distinct(Keyed(LfuRows), lfu) /\ Distinct(Keyed(Uses), recency)
  BY <1>1, <1>2 DEF Distinct
<1>4. Cch!OrderIsRecency
  BY <1>1, <1>2 DEF Cch!OrderIsRecency, Cch!Before
<1>5. LruInv
  BY <1>1, <1>2, <1>3, <1>4 DEF LruInv
<1>6. LfuInv
  BY <1>1, <1>2, <1>3 DEF LfuInv
<1>7. QED  BY <1>1, <1>5, <1>6 DEF CachesInv

LEMMA CachesStep ==
    ASSUME CachesInv, [Cch!Next]_(Cch!vars)
    PROVE  CachesInv'
<1>1. ASSUME NEW k \in CacheKeys, NEW v \in CacheValues, Cch!Set(k, v)
      PROVE  CachesInv'
  <2>1. last' \in [CacheKeys -> CacheValues \cup {Cch!None}]
    BY <1>1 DEF Cch!Set, CachesInv
  <2>2. QED  BY <1>1, <2>1, LruSets, LfuSets DEF CachesInv
<1>2. ASSUME NEW k \in CacheKeys, Cch!Get(k)
      PROVE  CachesInv'
  <2>1. UNCHANGED last
    BY <1>2 DEF Cch!Get
  <2>2. QED  BY <1>2, <2>1, LruGets, LfuGets DEF CachesInv
<1>3. ASSUME NEW k \in CacheKeys, Cch!Delete(k)
      PROVE  CachesInv'
  <2>1. last' \in [CacheKeys -> CacheValues \cup {Cch!None}]
    BY <1>3 DEF Cch!Delete, CachesInv
  <2>2. QED  BY <1>3, <2>1, LruDeletes, LfuDeletes DEF CachesInv
<1>4. ASSUME NEW k \in CacheKeys, Cch!Expire(k)
      PROVE  CachesInv'
  <2>1. UNCHANGED last
    BY <1>4 DEF Cch!Expire
  <2>2. QED  BY <1>4, <2>1, LruAges, LfuAges DEF CachesInv
<1>5. CASE Cch!Clear
  <2>1. /\ lru' = <<>> /\ lfu' = <<>> /\ minFreq' = 0 /\ UNCHANGED recency
        /\ last' \in [CacheKeys -> CacheValues \cup {Cch!None}]
    BY <1>5 DEF Cch!Clear
  <2>2. /\ <<>> \in Seq(LruRows) /\ <<>> \in Seq(LfuRows)
        /\ DOMAIN <<>> = 1 .. 0 /\ Range(<<>>) = {}
    BY EmptySeq, LenProperties DEF Range
  <2>3. Distinct(Keyed(LruRows), lru') /\ Distinct(Keyed(LfuRows), lfu')
    BY <2>1, <2>2 DEF Distinct
  <2>4. \A x, y : ~Cch!Before(lru', x, y)
    BY <2>1, <2>2 DEF Cch!Before
  <2>5. LruInv
    BY DEF CachesInv
  <2>6. LruInv'
    BY <2>1, <2>2, <2>3, <2>4, <2>5, LruThins
  <2>7. LfuInv'
    BY <2>1, <2>2, <2>3 DEF LfuInv
  <2>8. QED  BY <2>1, <2>6, <2>7 DEF CachesInv
<1>6. CASE UNCHANGED Cch!vars
  BY <1>6 DEF Cch!vars, CachesInv, LruInv, LfuInv, Cch!OrderIsRecency, Cch!Before
<1>7. QED  BY <1>1, <1>2, <1>3, <1>4, <1>5, <1>6 DEF Cch!Next

\* What the invariant says of rows it says of places.
LEMMA CachesHold == CachesInv => Cch!CachesSound
<1> SUFFICES ASSUME CachesInv
             PROVE  Cch!CachesSound
  OBVIOUS
<1>1. (\A i \in DOMAIN lru : lru[i] \in Range(lru)) /\ (\A i \in DOMAIN lfu : lfu[i] \in Range(lfu))
  BY DEF Range
<1>2. Cch!NeverStale
  BY <1>1 DEF CachesInv, LruInv, LfuInv, Cch!NeverStale
<1>3. Cch!MinFreqIsLowerBound
  BY <1>1 DEF CachesInv, LfuInv, Cch!MinFreqIsLowerBound
<1>4. QED  BY <1>2, <1>3 DEF CachesInv, LruInv, Cch!CachesSound

\* Whatever the size, the keys and the values: the LRU cache drops by recency, neither
\* cache serves a value that was replaced, and the lowest count is a lower bound.
THEOREM CachesRight == Cch!Spec => []Cch!CachesSound
<1>1. Cch!Init => CachesInv
  BY CachesInit
<1>2. CachesInv /\ [Cch!Next]_(Cch!vars) => CachesInv'
  BY CachesStep
<1>3. CachesInv => Cch!CachesSound
  BY CachesHold
<1>4. QED  BY <1>1, <1>2, <1>3, PTL DEF Cch!Spec

-----------------------------------------------------------------------------
(* The sessions of the working-memory cache (SessionCache).                  *)

\* A session's lists are as long as the memories in it, the order lists each session once.
SessionsInv ==
    /\ order \in Seq(CachedSessions) /\ Once(order)
    /\ DOMAIN sessions \subseteq CachedSessions
    /\ sessions = [s \in DOMAIN sessions |-> sessions[s]]
    /\ \A s \in DOMAIN sessions : sessions[s] \in Seq(CachedMemories) /\ Len(sessions[s]) <= MaxMemories
    /\ Range(order) = DOMAIN sessions /\ Len(order) <= MaxSessions

\* The n-th of the places that are kept.
LEMMA Ranked ==
    ASSUME NEW l \in Nat, NEW kept \in SUBSET (1 .. l)
    PROVE  /\ IsFiniteSet(kept) /\ Cardinality(kept) \in Nat /\ Cardinality(kept) <= l
           /\ kept # 1 .. l => Cardinality(kept) < l
           /\ \A n \in 1 .. Cardinality(kept) : \E i \in kept : Cardinality({j \in kept : j <= i}) = n
           /\ \A i \in kept : Cardinality({j \in kept : j <= i}) \in 1 .. Cardinality(kept)
           /\ \A i, k \in kept :
                Cardinality({j \in kept : j <= i}) = Cardinality({j \in kept : j <= k}) => i = k
<1> DEFINE c == Cardinality(kept)
           below(i) == {j \in kept : j <= i}
           rank == [i \in kept |-> Cardinality(below(i))]
<1>1. IsFiniteSet(1 .. l) /\ Cardinality(1 .. l) = l
  BY FS_Interval
<1>2. IsFiniteSet(kept) /\ c \in Nat /\ c <= l /\ (kept # 1 .. l => c < l)
  <2>1. IsFiniteSet(kept) /\ c <= l /\ (l = c => 1 .. l = kept)
    BY <1>1, FS_Subset
  <2>2. c \in Nat
    BY <2>1, FS_CardinalityType
  <2>3. QED  BY <2>1, <2>2
<1>3. ASSUME NEW i \in kept
      PROVE  /\ IsFiniteSet(below(i)) /\ Cardinality(below(i)) \in 1 .. c
  <2>1. below(i) \subseteq kept /\ i \in below(i)
    OBVIOUS
  <2>2. IsFiniteSet(below(i)) /\ Cardinality(below(i)) \in Nat /\ Cardinality(below(i)) <= c
    BY <1>2, <2>1, FS_Subset, FS_CardinalityType
  <2>3. Cardinality(below(i)) # 0
    BY <2>1, <2>2, FS_EmptySet
  <2>4. QED  BY <1>2, <2>2, <2>3
<1>4. ASSUME NEW i \in kept, NEW k \in kept, i < k
      PROVE  Cardinality(below(i)) < Cardinality(below(k))
  <2>1. below(i) \subseteq below(k) /\ k \in below(k) /\ k \notin below(i)
    <3>1. i \in 1 .. l /\ k \in 1 .. l
      OBVIOUS
    <3>2. \A j \in 1 .. l : j <= i => j <= k
      BY <1>4, <3>1
    <3>3. ~(k <= i) /\ k <= k
      BY <1>4, <3>1
    <3>4. \A j \in kept : j \in 1 .. l
      OBVIOUS
    <3>5. \A j \in below(i) : j \in kept /\ j <= k
      BY <3>2, <3>4
    <3>6. QED  BY <3>3, <3>5
  <2>2. IsFiniteSet(below(k)) /\ Cardinality(below(k)) \in Nat /\ Cardinality(below(i)) \in Nat
    BY <1>3
  <2> HIDE DEF below
  <2>3. Cardinality(below(i)) <= Cardinality(below(k)) /\ Cardinality(below(i)) # Cardinality(below(k))
    BY <2>1, <2>2, FS_Subset
  <2>4. QED  BY <2>2, <2>3
<1>5. \A i, k \in kept : Cardinality(below(i)) = Cardinality(below(k)) => i = k
  <2> SUFFICES ASSUME NEW i \in kept, NEW k \in kept, i # k
               PROVE  Cardinality(below(i)) # Cardinality(below(k))
    OBVIOUS
  <2>1. i < k \/ k < i
    OBVIOUS
  <2>2. Cardinality(below(i)) \in Nat /\ Cardinality(below(k)) \in Nat
    BY <1>3
  <2> HIDE DEF below
  <2>3. QED  BY <1>4, <2>1, <2>2
<1>6. rank \in Injection(kept, 1 .. c)
  BY <1>3, <1>5 DEF Injection, IsInjective
<1>7. IsFiniteSet(1 .. c) /\ Cardinality(1 .. c) = c
  BY <1>2, FS_Interval
<1>8. rank \in Surjection(kept, 1 .. c)
  <2> HIDE DEF rank, c
  <2>1. QED  BY <1>6, <1>7, FS_Injection DEF c
<1>9. \A n \in 1 .. c : \E i \in kept : Cardinality(below(i)) = n
  BY <1>8 DEF Surjection
<1>10. QED  BY <1>2, <1>3, <1>5, <1>9

\* Removing members leaves a shorter list of the others.
LEMMA Thinning ==
    ASSUME NEW S, NEW q \in Seq(S), NEW X
    PROVE  /\ Ses!Rest(q, X) \in Seq(S) /\ Len(Ses!Rest(q, X)) <= Len(q)
           /\ Range(Ses!Rest(q, X)) = Range(q) \ X
           /\ Range(q) \cap X # {} => Len(Ses!Rest(q, X)) < Len(q)
           /\ Once(q) => Once(Ses!Rest(q, X))
<1> DEFINE kept == {i \in DOMAIN q : q[i] \notin X}
           below(i) == {j \in kept : j <= i}
           nth(n) == CHOOSE i \in kept : Cardinality(below(i)) = n
           r == Ses!Rest(q, X)
<1>1. DOMAIN q = 1 .. Len(q) /\ Len(q) \in Nat /\ \A i \in 1 .. Len(q) : q[i] \in S
  BY LenProperties, ElementOfSeq
<1>2. kept \in SUBSET (1 .. Len(q))
  BY <1>1
<1>3. r = [n \in 1 .. Cardinality(kept) |-> q[nth(n)]]
  BY DEF Ses!Rest, Ses!Cardinality, Cardinality
<1>4. PICK c \in Nat : c = Cardinality(kept) /\ c <= Len(q) /\ (kept # 1 .. Len(q) => c < Len(q))
  <2> HIDE DEF kept
  <2>1. QED  BY <1>1, <1>2, Ranked
<1>5. ASSUME NEW n \in 1 .. c
      PROVE  nth(n) \in kept /\ Cardinality(below(nth(n))) = n
  <2>1. \E i \in kept : Cardinality(below(i)) = n
    <3> HIDE DEF kept
    <3>1. \A k \in 1 .. Cardinality(kept) : \E i \in kept : Cardinality(below(i)) = k
      BY <1>1, <1>2, Ranked
    <3> HIDE DEF below
    <3>2. QED  BY <1>4, <3>1
  <2> HIDE DEF kept, below
  <2>2. QED  BY <2>1
<1>6. ASSUME NEW i \in kept
      PROVE  Cardinality(below(i)) \in 1 .. c /\ nth(Cardinality(below(i))) = i
  <2>1. Cardinality(below(i)) \in 1 .. c
    <3> HIDE DEF kept
    <3>1. QED  BY <1>1, <1>2, <1>4, Ranked
  <2>2. nth(Cardinality(below(i))) \in kept /\ Cardinality(below(nth(Cardinality(below(i))))) = Cardinality(below(i))
    <3> HIDE DEF kept, below, nth
    <3>1. QED  BY <1>5, <2>1
  <2>3. QED
    <3>1. \A a, b \in kept : Cardinality(below(a)) = Cardinality(below(b)) => a = b
      <4> HIDE DEF kept
      <4>1. QED  BY <1>1, <1>2, Ranked
    <3> HIDE DEF kept, below, nth
    <3>2. QED  BY <2>1, <2>2, <3>1
<1>7. /\ \A i \in kept : i \in 1 .. Len(q) /\ q[i] \in S /\ q[i] \notin X
      /\ \A i \in 1 .. Len(q) : q[i] \notin X => i \in kept
      /\ Range(q) \cap X # {} => kept # 1 .. Len(q)
  BY <1>1 DEF Range
<1>8. r = [n \in 1 .. c |-> q[nth(n)]]
  BY <1>3, <1>4
<1> HIDE DEF kept, below, nth, r
<1>9. r \in Seq(S) /\ Len(r) = c /\ DOMAIN r = 1 .. c /\ \A n \in 1 .. c : r[n] = q[nth(n)]
  <2>1. \A n \in 1 .. c : q[nth(n)] \in S
    BY <1>5, <1>7
  <2>2. QED  BY <1>8, <2>1
<1>10. Range(r) \subseteq Range(q) \ X
  <2> SUFFICES ASSUME NEW n \in 1 .. c PROVE r[n] \in Range(q) \ X
    BY <1>9 DEF Range
  <2>1. QED  BY <1>1, <1>5, <1>7, <1>9 DEF Range
<1>11. Range(q) \ X \subseteq Range(r)
  <2> SUFFICES ASSUME NEW i \in 1 .. Len(q), q[i] \notin X PROVE q[i] \in Range(r)
    BY <1>1 DEF Range
  <2>1. i \in kept
    BY <1>7
  <2>2. Cardinality(below(i)) \in 1 .. c /\ r[Cardinality(below(i))] = q[i]
    BY <1>6, <1>9, <2>1
  <2>3. QED  BY <1>9, <2>2 DEF Range
<1>12. ASSUME Once(q) PROVE Once(r)
  <2> SUFFICES ASSUME NEW m \in 1 .. c, NEW n \in 1 .. c, r[m] = r[n] PROVE m = n
    BY <1>9 DEF Once
  <2>1. nth(m) = nth(n)
    BY <1>1, <1>5, <1>7, <1>9, <1>12 DEF Once
  <2>2. QED  BY <1>5, <2>1
<1>13. QED  BY <1>4, <1>7, <1>9, <1>10, <1>11, <1>12 DEF r

\* What SessionCache counts and ranges over is what is counted and ranged over here.
LEMMA SameOperators == \A q : Ses!Range(q) = Range(q) /\ Ses!Cardinality(q) = Cardinality(q)
BY DEF Ses!Range, Range, Ses!Cardinality, Cardinality

\* Room for one more session is made at the head of the order.
LEMMA SessionAdds ==
    ASSUME MaxSessions \in Nat \ {0}, SessionsInv, NEW s \in CachedSessions, NEW out,
           out = IF s \in DOMAIN sessions THEN {} ELSE Ses!Room,
           NEW o, o = Append(Ses!Rest(order, out \cup {s}), s)
    PROVE  /\ o \in Seq(CachedSessions) /\ Once(o) /\ Len(o) <= MaxSessions
           /\ Range(o) = (DOMAIN sessions \ out) \cup {s}
<1>0. /\ order \in Seq(CachedSessions) /\ Once(order) /\ Range(order) = DOMAIN sessions
      /\ Len(order) <= MaxSessions /\ Len(order) \in Nat
  BY LenProperties DEF SessionsInv
<1>1. PICK r : r = Ses!Rest(order, out \cup {s})
  OBVIOUS
<1>2. /\ r \in Seq(CachedSessions) /\ Len(r) <= Len(order) /\ Range(r) = Range(order) \ (out \cup {s})
      /\ Range(order) \cap (out \cup {s}) # {} => Len(r) < Len(order)
      /\ Once(r)
  BY <1>0, <1>1, Thinning
<1>3. /\ o \in Seq(CachedSessions) /\ Len(o) = Len(r) + 1 /\ Len(r) \in Nat
      /\ Range(o) = Range(r) \cup {s} /\ Once(o)
  <2>1. s \notin Range(r)
    BY <1>2
  <2>2. o = Append(r, s)
    BY <1>1
  <2>3. /\ Append(r, s) \in Seq(CachedSessions) /\ Len(Append(r, s)) = Len(r) + 1 /\ Len(r) \in Nat
        /\ Range(Append(r, s)) = Range(r) \cup {s} /\ Once(Append(r, s))
    BY <1>2, <2>1, Listing
  <2>4. QED  BY <2>2, <2>3
<1>4. Range(o) = (DOMAIN sessions \ out) \cup {s}
  BY <1>0, <1>2, <1>3
<1>5. Len(r) < MaxSessions
  <2>1. CASE s \in DOMAIN sessions
    BY <1>0, <1>2, <1>3, <2>1
  <2>2. CASE s \notin DOMAIN sessions /\ Len(order) >= MaxSessions
    <3>1. Cardinality(DOMAIN sessions) = Len(order)
      BY <1>0, CountedOnce
    <3>2. out = {Head(order)}
      BY <1>0, <2>2, <3>1, SameOperators DEF Ses!Room
    <3>3. order # <<>>
      BY <1>0, <2>2, EmptySeq
    <3>4. Head(order) \in Range(order)
      <4>1. Head(order) = order[1] /\ 1 \in DOMAIN order
        BY <1>0, <3>3, LenProperties, EmptySeq, HeadTailProperties
      <4>2. QED  BY <4>1 DEF Range
    <3>5. QED  BY <1>0, <1>2, <1>3, <3>2, <3>4
  <2>3. CASE s \notin DOMAIN sessions /\ ~(Len(order) >= MaxSessions)
    BY <1>0, <1>2, <1>3, <2>3
  <2>4. QED  BY <2>1, <2>2, <2>3
<1>6. Len(o) <= MaxSessions
  BY <1>3, <1>5
<1>7. QED  BY <1>3, <1>4, <1>6

\* The list of a session after a memory is added to it.
LEMMA MemoryAdds ==
    ASSUME MaxMemories \in Nat \ {0}, NEW q \in Seq(CachedMemories), Len(q) <= MaxMemories,
           NEW m \in CachedMemories, NEW mine, mine = Ses!Rest(q, {m}),
           NEW room, room = IF m \notin Range(q) /\ Len(mine) >= MaxMemories THEN Tail(mine) ELSE mine
    PROVE  Append(room, m) \in Seq(CachedMemories) /\ Len(Append(room, m)) <= MaxMemories
<1>1. /\ mine \in Seq(CachedMemories) /\ Len(mine) <= Len(q) /\ Len(mine) \in Nat /\ Len(q) \in Nat
      /\ m \in Range(q) => Len(mine) < Len(q)
  <2>1. /\ mine \in Seq(CachedMemories) /\ Len(mine) <= Len(q)
        /\ Range(q) \cap {m} # {} => Len(mine) < Len(q)
    BY Thinning
  <2>2. QED  BY <2>1, LenProperties
<1>2. room \in Seq(CachedMemories) /\ Len(room) < MaxMemories /\ Len(room) \in Nat
  <2>1. CASE m \notin Range(q) /\ Len(mine) >= MaxMemories
    <3>1. mine # <<>>
      BY <1>1, <2>1, EmptySeq
    <3>2. Tail(mine) \in Seq(CachedMemories) /\ Len(Tail(mine)) = Len(mine) - 1
      BY <1>1, <3>1, HeadTailProperties
    <3>3. QED  BY <1>1, <2>1, <3>2
  <2>2. CASE m \in Range(q)
    BY <1>1, <2>2
  <2>3. CASE m \notin Range(q) /\ ~(Len(mine) >= MaxMemories)
    BY <1>1, <2>3
  <2>4. QED  BY <2>1, <2>2, <2>3
<1>3. QED  BY <1>2, Listing

LEMMA AddMemoryKeeps ==
    ASSUME MaxSessions \in Nat \ {0}, MaxMemories \in Nat \ {0}, SessionsInv,
           NEW s \in CachedSessions, NEW m \in CachedMemories, Ses!AddMemory(s, m)
    PROVE  SessionsInv'
<1>1. PICK out : out = IF s \in DOMAIN sessions THEN {} ELSE Ses!Room
  OBVIOUS
<1>2. PICK mine : mine = IF s \in DOMAIN sessions THEN Ses!Rest(sessions[s], {m}) ELSE <<>>
  OBVIOUS
<1>3. PICK room : room = IF s \in DOMAIN sessions /\ m \notin Range(sessions[s]) /\ Len(mine) >= MaxMemories
                         THEN Tail(mine) ELSE mine
  OBVIOUS
<1>4. /\ sessions' = [x \in (DOMAIN sessions \ out) \cup {s} |-> IF x = s THEN Append(room, m) ELSE sessions[x]]
      /\ order' = Append(Ses!Rest(order, out \cup {s}), s)
  BY <1>1, <1>2, <1>3, SameOperators DEF Ses!AddMemory
<1>5. /\ order' \in Seq(CachedSessions) /\ Once(order') /\ Len(order') <= MaxSessions
      /\ Range(order') = (DOMAIN sessions \ out) \cup {s}
  BY <1>1, <1>4, SessionAdds
<1>6. Append(room, m) \in Seq(CachedMemories) /\ Len(Append(room, m)) <= MaxMemories
  <2>1. CASE s \in DOMAIN sessions
    <3>1. /\ sessions[s] \in Seq(CachedMemories) /\ Len(sessions[s]) <= MaxMemories
          /\ mine = Ses!Rest(sessions[s], {m})
          /\ room = IF m \notin Range(sessions[s]) /\ Len(mine) >= MaxMemories THEN Tail(mine) ELSE mine
      BY <1>2, <1>3, <2>1 DEF SessionsInv
    <3>2. QED  BY <3>1, MemoryAdds
  <2>2. CASE s \notin DOMAIN sessions
    <3>1. room = <<>> /\ <<>> \in Seq(CachedMemories) /\ Len(<<>>) = 0
      BY <1>2, <1>3, <2>2, EmptySeq
    <3>2. Append(room, m) \in Seq(CachedMemories) /\ Len(Append(room, m)) = 1
      BY <3>1, Listing
    <3>3. QED  BY <3>2
  <2>3. QED  BY <2>1, <2>2
<1>7. DOMAIN sessions' = (DOMAIN sessions \ out) \cup {s}
  BY <1>4
<1>8. \A x \in DOMAIN sessions' : sessions'[x] \in Seq(CachedMemories) /\ Len(sessions'[x]) <= MaxMemories
  BY <1>4, <1>6, <1>7 DEF SessionsInv
<1>9. DOMAIN sessions' \subseteq CachedSessions
  BY <1>7 DEF SessionsInv
<1>10. QED  BY <1>4, <1>5, <1>7, <1>8, <1>9 DEF SessionsInv

LEMMA GetMemoryKeeps ==
    ASSUME MaxSessions \in Nat \ {0}, MaxMemories \in Nat \ {0}, SessionsInv,
           NEW s \in CachedSessions, NEW m \in CachedMemories, Ses!GetMemory(s, m) \/ Ses!GetExpired(s, m)
    PROVE  SessionsInv'
<1>1. s \in DOMAIN sessions /\ m \in Range(sessions[s])
  BY SameOperators DEF Ses!GetMemory, Ses!GetExpired
<1>2. PICK q : q = Ses!Rest(sessions[s], {m})
  OBVIOUS
<1>3. PICK room : room = IF m \notin Range(sessions[s]) /\ Len(q) >= MaxMemories THEN Tail(q) ELSE q
  OBVIOUS
<1>4. sessions[s] \in Seq(CachedMemories) /\ Len(sessions[s]) <= MaxMemories
  BY <1>1 DEF SessionsInv
<1>5. Append(q, m) \in Seq(CachedMemories) /\ Len(Append(q, m)) <= MaxMemories
  <2>1. Append(room, m) \in Seq(CachedMemories) /\ Len(Append(room, m)) <= MaxMemories
    BY <1>2, <1>3, <1>4, MemoryAdds
  <2>2. room = q
    BY <1>1, <1>3
  <2>3. QED  BY <2>1, <2>2
<1>6. q \in Seq(CachedMemories) /\ Len(q) <= MaxMemories
  <2>1. q \in Seq(CachedMemories) /\ Len(q) <= Len(sessions[s]) /\ Len(q) \in Nat /\ Len(sessions[s]) \in Nat
    BY <1>2, <1>4, Thinning, LenProperties
  <2>2. QED  BY <1>4, <2>1
<1>7. PICK l \in {q, Append(q, m)} : sessions' = [sessions EXCEPT ![s] = l]
  BY <1>2 DEF Ses!GetMemory, Ses!GetExpired
<1>8. /\ DOMAIN sessions' = DOMAIN sessions
      /\ sessions' = [x \in DOMAIN sessions' |-> sessions'[x]]
      /\ \A x \in DOMAIN sessions : sessions'[x] = IF x = s THEN l ELSE sessions[x]
  BY <1>7 DEF SessionsInv
<1>9. \A x \in DOMAIN sessions' : sessions'[x] \in Seq(CachedMemories) /\ Len(sessions'[x]) <= MaxMemories
  BY <1>5, <1>6, <1>7, <1>8 DEF SessionsInv
<1>10. /\ order' \in Seq(CachedSessions) /\ Once(order') /\ Len(order') <= MaxSessions
       /\ Range(order') = DOMAIN sessions
  <2>1. CASE Ses!GetMemory(s, m)
    <3>1. order' = Append(Ses!Rest(order, {} \cup {s}), s)
      <4>1. {} \cup {s} = {s}
        OBVIOUS
      <4>2. QED  BY <2>1, <4>1 DEF Ses!GetMemory
    <3>2. /\ order' \in Seq(CachedSessions) /\ Once(order') /\ Len(order') <= MaxSessions
          /\ Range(order') = (DOMAIN sessions \ {}) \cup {s}
      BY <1>1, <3>1, SessionAdds
    <3>3. QED  BY <1>1, <3>2
  <2>2. CASE Ses!GetExpired(s, m)
    BY <2>2 DEF Ses!GetExpired, SessionsInv
  <2>3. QED  BY <2>1, <2>2
<1>11. QED  BY <1>8, <1>9, <1>10 DEF SessionsInv

LEMMA ClearSessionsKeeps ==
    ASSUME MaxSessions \in Nat \ {0}, SessionsInv, NEW X, Ses!ClearSessions(X)
    PROVE  SessionsInv'
<1>1. /\ sessions' = [s \in DOMAIN sessions \ X |-> sessions[s]]
      /\ order' = Ses!Rest(order, X)
  BY DEF Ses!ClearSessions, Ses!Without
<1>2. order \in Seq(CachedSessions) /\ Len(order) \in Nat /\ Len(order) <= MaxSessions
  BY LenProperties DEF SessionsInv
<1>3. PICK o : o = Ses!Rest(order, X)
  OBVIOUS
<1>4. /\ o \in Seq(CachedSessions) /\ Len(o) <= Len(order) /\ Range(o) = Range(order) \ X /\ Once(o)
  BY <1>2, <1>3, Thinning DEF SessionsInv
<1>5. Len(o) <= MaxSessions
  BY <1>2, <1>4, LenProperties
<1>6. QED  BY <1>1, <1>3, <1>4, <1>5 DEF SessionsInv

\* For any numbers of sessions and memories above zero the order lists the sessions
\* that are there, each once, and neither grows past its limit.
THEOREM SessionsRight ==
    ASSUME MaxSessions \in Nat \ {0}, MaxMemories \in Nat \ {0}
    PROVE  Ses!Spec => []Ses!SessionsInOrder
<1>1. ASSUME Ses!Init PROVE SessionsInv
  <2>1. sessions = [s \in {} |-> <<>>] /\ order = <<>> /\ <<>> \in Seq(CachedSessions) /\ Len(<<>>) = 0
    BY <1>1, EmptySeq DEF Ses!Init
  <2>2. DOMAIN order = {} /\ DOMAIN sessions = {}
    BY <2>1, LenProperties
  <2>3. QED  BY <2>1, <2>2 DEF SessionsInv, Once, Range
<1>2. ASSUME SessionsInv, [Ses!Next]_(Ses!vars) PROVE SessionsInv'
  <2>1. CASE \E s \in CachedSessions, m \in CachedMemories : Ses!AddMemory(s, m)
    BY <1>2, <2>1, AddMemoryKeeps
  <2>2. CASE \E s \in CachedSessions, m \in CachedMemories : Ses!GetMemory(s, m) \/ Ses!GetExpired(s, m)
    BY <1>2, <2>2, GetMemoryKeeps
  <2>3. CASE \E X : Ses!ClearSessions(X)
    BY <1>2, <2>3, ClearSessionsKeeps
  <2>4. CASE UNCHANGED Ses!vars
    BY <1>2, <2>4 DEF Ses!vars, SessionsInv, Once
  <2>5. QED  BY <1>2, <2>1, <2>2, <2>3, <2>4 DEF Ses!Next
<1>3. SessionsInv => Ses!SessionsInOrder
  BY SameOperators, CountedOnce DEF SessionsInv, Ses!SessionsInOrder
<1>4. QED  BY <1>1, <1>2, <1>3, PTL DEF Ses!Spec

-----------------------------------------------------------------------------
(* The start and the stop of the plugin (Startup).                           *)

\* The step of the stop that takes a part.
StopRank(p) ==
    CASE p = "jobs" -> 1 [] p = "batch" -> 2 [] p \in {"persona_batch", "reinforcement"} -> 3
      [] p = "proactive" -> 4 [] p \in {"kg_scheduler", "kg"} -> 5 [] OTHER -> 6

StopParts == {"jobs", "batch", "persona_batch", "reinforcement", "proactive", "kg_scheduler", "kg",
          "lifecycle", "chroma"}

\* Until it stops everything runs that ever did, with the core once that is started; a
\* step of the stop leaves of its parts what is stuck, and of the later ones everything.
StartInv ==
    /\ reached \in {"chroma", "lifecycle", "kg", "kg_scheduler", "proactive", "reinforcement", "finalize",
               "services", "jobs", "ready", "failed", "stopping", "ended"}
    /\ up \subseteq started /\ started \subseteq StopParts /\ stops \in 0..6
    /\ reached \notin {"stopping", "ended"} => up = started /\ stops = 0
    /\ reached \notin {"chroma", "failed", "stopping", "ended"} => "chroma" \in up
    /\ reached \notin {"chroma", "lifecycle", "failed", "stopping", "ended"} => "lifecycle" \in up
    /\ reached \in {"jobs", "ready"} => services
    /\ ready => reached = "ready"
    /\ \A p \in started : StopRank(p) > stops => p \in up
    /\ \A p \in up : StopRank(p) <= stops => p \in stuck
    /\ reached = "ended" => stops = 6 \/ ~services

\* The steps of the start follow one another.
LEMMA StepsInOrder ==
    /\ \A p \in Start!Range(Start!Starts) :
         p \in {"chroma", "lifecycle", "kg", "kg_scheduler", "proactive", "reinforcement", "finalize",
                "services", "jobs"}
    /\ Start!StepAfter(Start!Place("chroma")) = "lifecycle"
    /\ Start!StepAfter(Start!Place("lifecycle")) = "kg"
    /\ Start!StepAfter(Start!Place("kg")) = "kg_scheduler"
    /\ Start!StepAfter(Start!Place("kg_scheduler")) = "proactive"
    /\ Start!StepAfter(Start!Place("proactive")) = "reinforcement"
    /\ Start!StepAfter(Start!Place("reinforcement")) = "finalize"
    /\ Start!StepAfter(Start!Place("finalize")) = "services"
    /\ Start!StepAfter(Start!Place("services")) = "jobs"
<1> DEFINE S == Start!Starts
<1>1. /\ S[1] = "chroma" /\ S[2] = "lifecycle" /\ S[3] = "kg" /\ S[4] = "kg_scheduler" /\ S[5] = "proactive"
      /\ S[6] = "reinforcement" /\ S[7] = "finalize" /\ S[8] = "services" /\ S[9] = "jobs"
      /\ DOMAIN S = 1..9 /\ Len(S) = 9
  BY DEF Start!Starts
<1> HIDE DEF S
<1>2. \A i \in 1..9 : i = 1 \/ i = 2 \/ i = 3 \/ i = 4 \/ i = 5 \/ i = 6 \/ i = 7 \/ i = 8 \/ i = 9
  OBVIOUS
<1>3. \A i, j \in DOMAIN S : S[i] = S[j] => i = j
  BY <1>1, <1>2
<1>4. \A i \in DOMAIN S : Start!Place(S[i]) = i
  BY <1>3 DEF Start!Place, S
<1>5. \A i \in 1..8 : Start!StepAfter(Start!Place(S[i])) = S[i + 1]
  BY <1>1, <1>4 DEF Start!StepAfter, S
<1>6. \A p \in Start!Range(S) : \E i \in 1..9 : p = S[i]
  BY <1>1 DEF Start!Range
<1>7. /\ Start!StepAfter(Start!Place(S[1])) = S[2] /\ Start!StepAfter(Start!Place(S[2])) = S[3]
      /\ Start!StepAfter(Start!Place(S[3])) = S[4] /\ Start!StepAfter(Start!Place(S[4])) = S[5]
      /\ Start!StepAfter(Start!Place(S[5])) = S[6] /\ Start!StepAfter(Start!Place(S[6])) = S[7]
      /\ Start!StepAfter(Start!Place(S[7])) = S[8] /\ Start!StepAfter(Start!Place(S[8])) = S[9]
  BY <1>5
<1>8. \A p \in Start!Range(S) :
         p \in {"chroma", "lifecycle", "kg", "kg_scheduler", "proactive", "reinforcement", "finalize",
                "services", "jobs"}
  BY <1>1, <1>2, <1>6
<1>9. QED  BY <1>1, <1>7, <1>8 DEF S

\* Each part stops in the step of its rank.
LEMMA StopsByRank ==
    /\ Len(Start!Stops) = 6 /\ DOMAIN Start!Stops = 1..6
    /\ \A s \in 1..6 : \A p \in StopParts : p \in Start!Stops[s] <=> StopRank(p) = s
    /\ \A p \in StopParts : StopRank(p) \in 1..6
<1> DEFINE S == Start!Stops
<1>1. /\ S[1] = {"jobs"} /\ S[2] = {"batch"} /\ S[3] = {"persona_batch", "reinforcement"}
      /\ S[4] = {"proactive"} /\ S[5] = {"kg_scheduler", "kg"} /\ S[6] = {"lifecycle", "chroma"}
      /\ DOMAIN S = 1..6 /\ Len(S) = 6
  BY DEF Start!Stops
<1> HIDE DEF S
<1>2. \A i \in 1..6 : i = 1 \/ i = 2 \/ i = 3 \/ i = 4 \/ i = 5 \/ i = 6
  OBVIOUS
<1>3. /\ StopRank("jobs") = 1 /\ StopRank("batch") = 2 /\ StopRank("persona_batch") = 3 /\ StopRank("reinforcement") = 3
      /\ StopRank("proactive") = 4 /\ StopRank("kg_scheduler") = 5 /\ StopRank("kg") = 5
      /\ StopRank("lifecycle") = 6 /\ StopRank("chroma") = 6
  BY DEF StopRank
<1>4. \A p \in StopParts : StopRank(p) \in 1..6
  BY <1>3 DEF StopParts
<1>5. \A s \in 1..6 : \A p \in StopParts : p \in S[s] <=> StopRank(p) = s
  BY <1>1, <1>2, <1>3 DEF StopParts
<1>6. QED  BY <1>1, <1>4, <1>5 DEF S

\* A step of the start: parts come up, and the next step has the core it wants.
LEMMA PartsComeUp ==
    ASSUME StartInv, reached \notin {"ready", "failed", "stopping", "ended"}, NEW ps \in SUBSET StopParts,
           up' = up \cup ps, started' = started \cup ps, stops' = stops, stuck' = stuck,
           reached' \in {"lifecycle", "kg", "kg_scheduler", "proactive", "reinforcement", "finalize",
                    "services", "jobs", "ready", "failed"},
           reached' # "failed" => "chroma" \in up',
           reached' \notin {"lifecycle", "failed"} => "lifecycle" \in up',
           reached' \in {"jobs", "ready"} => services', ready' => reached' = "ready"
    PROVE  StartInv'
<1>1. stops = 0 /\ up = started /\ up \subseteq StopParts
  BY DEF StartInv
<1>2. \A p \in started' : p \in up'
  BY <1>1
<1>3. \A p \in up' : StopRank(p) > 0
  BY <1>1, StopsByRank
<1>4. \A p \in up' : ~(StopRank(p) <= stops')
  <2>1. \A p \in up' : StopRank(p) \in 1..6
    BY <1>1, StopsByRank
  <2>2. QED  BY <1>1, <2>1
<1>5. QED  BY <1>1, <1>2, <1>4 DEF StartInv

LEMMA StartsKeep ==
    ASSUME StartInv, [Start!Next]_(Start!vars)
    PROVE  StartInv'
<1>1. ASSUME NEW p \in Start!Range(Start!Starts), Start!Start(p)
      PROVE  StartInv'
  <2>1. /\ reached = p /\ p \in {"chroma", "lifecycle", "kg", "kg_scheduler", "proactive", "reinforcement"}
        /\ stops' = stops /\ stuck' = stuck /\ services' = services /\ ready' = ready
    BY <1>1, StepsInOrder DEF Start!Start
  <2>2. ~ready
    BY <2>1 DEF StartInv
  <2>3. Start!StepAfter(Start!Place(p)) \in {"lifecycle", "kg", "kg_scheduler", "proactive", "reinforcement", "finalize"}
        /\ (p # "chroma" => Start!StepAfter(Start!Place(p)) # "lifecycle")
    BY <2>1, StepsInOrder
  <2>4. p \in StopParts
    BY <2>1 DEF StopParts
  <2>5. CASE Start!Up({p}) /\ reached' = Start!StepAfter(Start!Place(p))
    <3>1. up' = up \cup {p} /\ started' = started \cup {p}
      BY <2>5 DEF Start!Up
    <3>2. "chroma" \in up'
      BY <2>1, <3>1 DEF StartInv
    <3>3. reached' # "lifecycle" => "lifecycle" \in up'
      <4>1. reached' # "lifecycle" => p # "chroma"
        BY <2>5, StepsInOrder
      <4>2. QED  BY <2>1, <3>1, <4>1 DEF StartInv
    <3>4. QED  BY <2>1, <2>2, <2>3, <2>4, <2>5, <3>1, <3>2, <3>3, PartsComeUp
  <2>6. CASE /\ reached' = IF p \in Start!Core THEN "failed" ELSE Start!StepAfter(Start!Place(p))
             /\ UNCHANGED <<up, started>>
    <3>1. up' = up \cup {} /\ started' = started \cup {} /\ {} \in SUBSET StopParts
      BY <2>6
    <3>2. reached' # "failed" => p \notin {"chroma", "lifecycle"}
      BY <2>6 DEF Start!Core
    <3>3. reached' # "failed" => {"chroma", "lifecycle"} \subseteq up'
      BY <2>1, <3>1, <3>2 DEF StartInv
    <3>4. reached' \in {"lifecycle", "kg", "kg_scheduler", "proactive", "reinforcement", "finalize", "failed"}
      BY <2>3, <2>6
    <3>5. QED  BY <2>1, <2>2, <3>1, <3>3, <3>4, PartsComeUp
  <2>7. QED  BY <1>1, <2>5, <2>6 DEF Start!Start
<1>2. CASE Start!Finalize
  <2>1. /\ reached = "finalize" /\ reached' \in {"services", "failed"}
        /\ stops' = stops /\ stuck' = stuck /\ services' = services /\ ready' = ready
    BY <1>2, StepsInOrder DEF Start!Finalize
  <2>2. PICK ps \in SUBSET ({"batch", "persona_batch"} \ off) : up' = up \cup ps /\ started' = started \cup ps
    BY <1>2 DEF Start!Finalize, Start!Up
  <2>3. ps \in SUBSET StopParts
    BY DEF StopParts
  <2>4. ~ready /\ {"chroma", "lifecycle"} \subseteq up'
    BY <2>1, <2>2 DEF StartInv
  <2>5. QED  BY <2>1, <2>2, <2>3, <2>4, PartsComeUp
<1>3. CASE Start!CreateServices
  <2>1. /\ reached = "services" /\ reached' = "jobs" /\ services' = TRUE
        /\ stops' = stops /\ stuck' = stuck /\ ready' = ready /\ up' = up \cup {} /\ started' = started \cup {}
        /\ {} \in SUBSET StopParts
    BY <1>3, StepsInOrder DEF Start!CreateServices
  <2>2. ~ready /\ {"chroma", "lifecycle"} \subseteq up'
    BY <2>1 DEF StartInv
  <2>3. QED  BY <2>1, <2>2, PartsComeUp
<1>4. CASE Start!StartJobs
  <2>1. reached = "jobs" /\ stops' = stops /\ stuck' = stuck /\ services' = services
    BY <1>4 DEF Start!StartJobs
  <2>2. services /\ ~ready /\ {"chroma", "lifecycle"} \subseteq up
    BY <2>1 DEF StartInv
  <2>3. CASE Start!Up({"jobs"}) /\ ready' = TRUE /\ reached' = "ready"
    <3>1. up' = up \cup {"jobs"} /\ started' = started \cup {"jobs"} /\ {"jobs"} \in SUBSET StopParts
      BY <2>3 DEF Start!Up, StopParts
    <3>2. QED  BY <2>1, <2>2, <2>3, <3>1, PartsComeUp
  <2>4. CASE reached' = "failed" /\ UNCHANGED <<up, started, ready>>
    <3>1. up' = up \cup {} /\ started' = started \cup {} /\ {} \in SUBSET StopParts
      BY <2>4
    <3>2. QED  BY <2>1, <2>2, <2>4, <3>1, PartsComeUp
  <2>5. QED  BY <1>4, <2>3, <2>4 DEF Start!StartJobs
<1>5. CASE Start!Spawn \/ Start!TaskEnds
  BY <1>5 DEF Start!Spawn, Start!TaskEnds, StartInv
<1>6. CASE Start!Terminate
  BY <1>6 DEF Start!Terminate, StartInv
<1>7. ASSUME NEW s \in DOMAIN Start!Stops, Start!Stop(s)
      PROVE  StartInv'
  <2>1. /\ reached = "stopping" /\ s = stops + 1 /\ stops' = s /\ started' = started
        /\ services' = services /\ ready' = ready
        /\ reached' = (IF s = 6 \/ (s = 1 /\ ~services) THEN "ended" ELSE "stopping")
    BY <1>7, StopsByRank DEF Start!Stop
  <2>2. PICK rest \in SUBSET (Start!Stops[s] \cap up) :
          up' = up \ ((Start!Stops[s] \cap up) \ rest) /\ stuck' = stuck \cup rest
    BY <1>7 DEF Start!Stop
  <2>3. s \in 1..6 /\ stops \in 0..6 /\ ~ready
    BY <2>1, StopsByRank DEF StartInv
  <2>4. up' \subseteq up /\ up \subseteq started /\ started \subseteq StopParts
    BY <2>2 DEF StartInv
  <2>5. \A p \in StopParts : StopRank(p) \in 1..6 /\ (p \in Start!Stops[s] <=> StopRank(p) = s)
    BY <2>3, StopsByRank
  <2>6. \A p \in started' : StopRank(p) > stops' => p \in up'
    <3> SUFFICES ASSUME NEW p \in started, StopRank(p) > s
                 PROVE  p \in up'
      BY <2>1
    <3>1. StopRank(p) > stops /\ StopRank(p) # s
      BY <2>1, <2>3, <2>4, <2>5
    <3>2. p \in up /\ p \notin Start!Stops[s]
      BY <2>4, <2>5, <3>1 DEF StartInv
    <3>3. QED  BY <2>2, <3>2
  <2>7. \A p \in up' : StopRank(p) <= stops' => p \in stuck'
    <3> SUFFICES ASSUME NEW p \in up', StopRank(p) <= s
                 PROVE  p \in stuck'
      BY <2>1
    <3>1. CASE StopRank(p) = s
      BY <2>2, <2>4, <2>5, <3>1
    <3>2. CASE StopRank(p) # s
      <4>1. StopRank(p) <= stops
        BY <2>1, <2>3, <2>4, <2>5, <3>2
      <4>2. QED  BY <2>2, <2>4, <4>1 DEF StartInv
    <3>3. QED  BY <3>1, <3>2
  <2>8. reached' = "ended" => stops' = 6 \/ ~services'
    BY <2>1
  <2>9. QED  BY <2>1, <2>3, <2>4, <2>6, <2>7, <2>8 DEF StartInv
<1>8. CASE UNCHANGED Start!vars
  BY <1>8 DEF Start!vars, StartInv
<1>9. QED  BY <1>1, <1>2, <1>3, <1>4, <1>5, <1>6, <1>7, <1>8 DEF Start!Next

\* A stop leaves nothing but what is stuck, no part outlives what it works on, and who
\* is let in finds the core (main.py, memory_service.py, PersistenceService.terminate).
THEOREM StartsRight == Start!Spec => []Start!StartupSound
<1>1. Start!Init => StartInv
  <2> SUFFICES ASSUME Start!Init
               PROVE  StartInv
    OBVIOUS
  <2>1. reached = "chroma"
    BY DEF Start!Init, Start!Starts
  <2>2. QED  BY <2>1 DEF Start!Init, StartInv
<1>2. StartInv /\ [Start!Next]_(Start!vars) => StartInv'
  BY StartsKeep
<1>3. StartInv => Start!StartupSound
  <2> SUFFICES ASSUME StartInv
               PROVE  Start!StartupSound
    OBVIOUS
  <2>1. Start!NeededOutlives
    <3> SUFFICES ASSUME NEW p \in up \ stuck, NEW q \in Start!Needs(p) \cap started
                 PROVE  q \in up \cup stuck
      BY DEF Start!NeededOutlives
    <3>1. p \in StopParts /\ q \in StopParts /\ StopRank(p) \in 1..6 /\ StopRank(q) \in 1..6 /\ stops \in 0..6
      BY StopsByRank DEF StartInv
    <3>2. StopRank(p) > stops
      BY <3>1 DEF StartInv
    <3>3. StopRank(q) >= StopRank(p)
      BY <3>1 DEF Start!Needs, StopRank, StopParts
    <3>4. StopRank(q) > stops
      BY <3>1, <3>2, <3>3
    <3>5. QED  BY <3>4 DEF StartInv
  <2>2. Start!StopLeavesNothing
    <3> SUFFICES ASSUME reached = "ended", services, NEW p \in up
                 PROVE  p \in stuck
      BY DEF Start!StopLeavesNothing
    <3>1. p \in StopParts /\ stops = 6
      BY DEF StartInv
    <3>2. StopRank(p) <= stops
      BY <3>1, StopsByRank
    <3>3. QED  BY <3>2 DEF StartInv
  <2>3. Start!ReadyHasCore
    BY DEF StartInv, Start!ReadyHasCore, Start!Core
  <2>4. QED  BY <2>1, <2>2, <2>3 DEF Start!StartupSound
<1>4. QED  BY <1>1, <1>2, <1>3, PTL DEF Start!Spec

-----------------------------------------------------------------------------
(* The scheduled tasks (ScheduledTasks).                                     *)

Job == [id : Nat \ {0}, task : Tasks]

JobTypes ==
    /\ jobs \subseteq Job /\ handlers \subseteq Nat \ {0} /\ wanted \subseteq Tasks /\ left \subseteq Tasks
    /\ found \in [Tasks -> Nat] /\ remembered \in [Tasks -> Nat]
    /\ faults \in Nat /\ lastId \in Nat
    /\ registry \in {"down", "starting", "up", "broken", "stopping"}
    /\ \A j \in jobs : j.id <= lastId
    /\ lost \/ registry = "broken" => faults > 0

\* A job's identifier and its task are its own.
OneEach == \A j, k \in jobs : j.id = k.id \/ j.task = k.task => j = k

\* A task the start has yet to handle has the job that was found; one it has handled,
\* the one it knows.
Registering ==
    registry = "starting" =>
        /\ \A t \in left : \A j \in jobs : j.task = t => j.id = found[t]
        /\ \A t \in left : found[t] # 0 => \E j \in jobs : j.id = found[t] /\ j.task = t
Registered ==
    registry \in {"starting", "up"} =>
        \A j \in jobs : (registry = "starting" /\ j.task \in left)
                          \/ (remembered[j.task] = j.id /\ j.id \in handlers /\ j.task \in wanted)

\* Where nothing failed the stop has yet to delete what there is.
Cleaning == faults = 0 =>
    /\ registry = "stopping" => \A j \in jobs : remembered[j.task] = j.id /\ j.task \in left
    /\ registry = "down" => jobs = {}

TasksInv ==
    /\ JobTypes
    /\ lost \/ (OneEach /\ Registering /\ Registered)
    /\ Cleaning

\* The start handles a task: it has no job any more, or one that is known and run.
LEMMA TaskHandled ==
    ASSUME TasksInv, registry = "starting", NEW t \in left,
           left' = left \ {t}, wanted' = wanted, found' = found, registry' = registry, lost' = lost,
           NEW rest, rest \subseteq {j \in jobs : lost \/ j.task # t},
           lost \/ \A j \in jobs : j.task # t => j \in rest,
           faults' \in Nat, faults' >= faults,
           \/ /\ jobs' = rest /\ remembered' = remembered /\ lastId' = lastId
              /\ handlers \subseteq handlers' /\ handlers' \subseteq Nat \ {0}
           \/ \E j \in Job :
                /\ jobs' = rest \cup {j} /\ j.task = t /\ t \in wanted /\ remembered' = [remembered EXCEPT ![t] = j.id]
                /\ lastId' \in Nat /\ lastId' >= lastId /\ lastId' >= j.id
                /\ lost \/ \A k \in rest : k.id # j.id
                /\ handlers \cup {j.id} \subseteq handlers' /\ handlers' \subseteq Nat \ {0}
    PROVE  TasksInv'
<1>1. JobTypes /\ (lost \/ (OneEach /\ Registering /\ Registered)) /\ rest \subseteq jobs
  BY DEF TasksInv
<1>2. \A j \in jobs : j.id \in Nat /\ j.task \in Tasks /\ j.id <= lastId
  BY <1>1 DEF JobTypes, Job
<1>3. CASE jobs' = rest /\ remembered' = remembered /\ lastId' = lastId /\ handlers \subseteq handlers' /\ handlers' \subseteq Nat \ {0}
  <2>1. JobTypes'
    BY <1>1, <1>3 DEF JobTypes
  <2>2. lost' \/ (OneEach' /\ Registering' /\ Registered')
    BY <1>1, <1>3 DEF OneEach, Registering, Registered
  <2>3. QED  BY <2>1, <2>2 DEF TasksInv, Cleaning
<1>4. ASSUME NEW j \in Job, jobs' = rest \cup {j}, j.task = t, t \in wanted, remembered' = [remembered EXCEPT ![t] = j.id],
             lastId' \in Nat, lastId' >= lastId, lastId' >= j.id, lost \/ \A k \in rest : k.id # j.id,
             handlers \cup {j.id} \subseteq handlers', handlers' \subseteq Nat \ {0}
      PROVE  TasksInv'
  <2>1. j.id \in Nat /\ remembered \in [Tasks -> Nat] /\ t \in Tasks /\ remembered' \in [Tasks -> Nat]
        /\ remembered'[t] = j.id /\ \A u \in Tasks : u # t => remembered'[u] = remembered[u]
    BY <1>1, <1>4 DEF JobTypes, Job
  <2>2. \A k \in jobs' : k.id <= lastId'
    <3>1. lastId \in Nat
      BY <1>1 DEF JobTypes
    <3>2. QED  BY <1>1, <1>2, <1>4, <2>1, <3>1
  <2>3. JobTypes'
    BY <1>1, <1>4, <2>1, <2>2 DEF JobTypes
  <2>4. lost \/ OneEach'
    BY <1>1, <1>4 DEF OneEach
  <2>5. lost \/ Registering'
    BY <1>1, <1>4 DEF Registering
  <2>6. lost \/ Registered'
    BY <1>1, <1>2, <1>4, <2>1 DEF Registered
  <2>7. QED  BY <2>3, <2>4, <2>5, <2>6 DEF TasksInv, Cleaning
<1>5. QED  BY <1>3, <1>4

\* Without the job that was found a task has none, and the others keep theirs.
LEMMA FoundRemoved ==
    ASSUME TasksInv, registry = "starting", NEW t \in left
    PROVE  /\ {j \in jobs : j.id # found[t]} \subseteq {j \in jobs : lost \/ j.task # t}
           /\ lost \/ \A j \in jobs : j.task # t => j \in {k \in jobs : k.id # found[t]}
<1>1. CASE lost
  BY <1>1
<1>2. CASE ~lost
  <2>1. JobTypes /\ OneEach /\ Registering
    BY <1>2 DEF TasksInv
  <2>2. \A j \in jobs : j.task = t => j.id = found[t]
    BY <2>1 DEF Registering
  <2>3. \A j \in jobs : j.id # 0
    BY <2>1 DEF JobTypes, Job
  <2>4. \A j \in jobs : j.task # t => j.id # found[t]
    BY <2>1, <2>3 DEF Registering, OneEach
  <2>5. QED  BY <2>2, <2>4
<1>3. QED  BY <1>1, <1>2

\* A task gets a new job, or none when the cron manager fails.
LEMMA CreateKeeps ==
    ASSUME TasksInv, registry = "starting", NEW t \in left, t \in wanted, NEW rest, NEW n \in {0, 1},
           rest \subseteq {j \in jobs : lost \/ j.task # t},
           lost \/ \A j \in jobs : j.task # t => j \in rest,
           Jobs!Create(t, rest, n), Jobs!Handled(t), lost' = lost
    PROVE  TasksInv'
<1>1. JobTypes
  BY DEF TasksInv
<1>2. left' = left \ {t} /\ wanted' = wanted /\ found' = found /\ registry' = registry
  BY DEF Jobs!Handled
<1>3. found[t] \in Nat /\ lastId \in Nat /\ faults \in Nat /\ handlers \subseteq Nat \ {0} /\ t \in Tasks
  BY <1>1 DEF JobTypes
<1>4. faults' \in Nat /\ faults' >= faults
  BY <1>3 DEF Jobs!Create, Jobs!Faults
<1>5. CASE /\ lastId < MaxJobs /\ lastId' = lastId + 1
           /\ jobs' = rest \cup {[id |-> lastId + 1, task |-> t]}
           /\ remembered' = [remembered EXCEPT ![t] = lastId + 1]
           /\ handlers' = (handlers \cup {found[t], lastId + 1}) \ {Jobs!NoJob}
  <2> DEFINE j == [id |-> lastId + 1, task |-> t]
  <2>1. j \in Job /\ j.id = lastId + 1 /\ j.task = t
    BY <1>3 DEF Job
  <2>2. \A k \in rest : k.id # j.id
    BY <1>1, <1>3, <2>1 DEF JobTypes, Job
  <2>3. handlers' \subseteq Nat \ {0} /\ handlers \cup {j.id} \subseteq handlers'
    <3>1. lastId + 1 \in Nat \ {0}
      BY <1>3
    <3>2. QED  BY <1>3, <1>5, <2>1, <3>1 DEF Jobs!NoJob
  <2>4. lastId' \in Nat /\ lastId' >= lastId /\ lastId' >= j.id
    BY <1>3, <1>5, <2>1
  <2>5. jobs' = rest \cup {j} /\ remembered' = [remembered EXCEPT ![t] = j.id]
    BY <1>5, <2>1
  <2> HIDE DEF j
  <2>6. QED  BY <1>2, <1>4, <2>1, <2>2, <2>3, <2>4, <2>5, TaskHandled
<1>6. CASE jobs' = rest /\ handlers' = (handlers \cup {found[t]}) \ {Jobs!NoJob} /\ UNCHANGED <<remembered, lastId>>
  <2>1. handlers \subseteq handlers' /\ handlers' \subseteq Nat \ {0}
    BY <1>3, <1>6 DEF Jobs!NoJob
  <2>2. jobs' = rest /\ remembered' = remembered /\ lastId' = lastId
    BY <1>6
  <2>3. QED  BY <1>2, <1>4, <2>1, <2>2, TaskHandled
<1>7. QED  BY <1>5, <1>6 DEF Jobs!Create

\* What raises leaves the start broken, with one failure at least.
LEMMA RaisesKeeps ==
    ASSUME TasksInv, registry = "starting", Jobs!Raises, jobs' = jobs, remembered' = remembered, lastId' = lastId,
           lost' = lost, handlers' \subseteq Nat \ {0}, faults' \in Nat, faults' > 0
    PROVE  TasksInv'
BY DEF TasksInv, JobTypes, OneEach, Registering, Registered, Cleaning, Jobs!Raises

LEMMA TasksStep ==
    ASSUME TasksInv, [Jobs!Next]_(Jobs!vars)
    PROVE  TasksInv'
<1>1. JobTypes /\ (lost \/ (OneEach /\ Registering /\ Registered)) /\ Cleaning
  BY DEF TasksInv
<1>1a. faults \in Nat /\ handlers \subseteq Nat \ {0} /\ left \subseteq Tasks /\ found \in [Tasks -> Nat]
  BY <1>1 DEF JobTypes
<1>2. CASE Jobs!Start
  <2>1. /\ registry = "down" /\ registry' = "starting" /\ left' = Tasks /\ remembered' = [t \in Tasks |-> 0]
        /\ wanted' \in SUBSET Tasks /\ jobs' = jobs /\ handlers' = handlers /\ lastId' = lastId
    BY <1>2 DEF Jobs!Start, Jobs!Nowhere, Jobs!NoJob
  <2>2. \A j \in jobs : j.id \in Nat \ {0} /\ j.task \in Tasks
    BY <1>1 DEF JobTypes, Job
  <2>3. CASE /\ found' \in {f \in [Tasks -> {j.id : j \in jobs} \cup {0}] : \A t \in Tasks :
                          IF Jobs!Of(t) = {} THEN f[t] = 0 ELSE \E j \in Jobs!Of(t) : f[t] = j.id}
             /\ UNCHANGED <<faults, lost>>
    <3>1. found' \in [Tasks -> Nat]
      BY <2>2, <2>3
    <3>2. \A t \in Tasks : IF Jobs!Of(t) = {} THEN found'[t] = 0 ELSE \E j \in Jobs!Of(t) : found'[t] = j.id
      BY <2>3
    <3>3. JobTypes' /\ Cleaning'
      BY <1>1, <2>1, <2>3, <3>1 DEF JobTypes, Cleaning
    <3>4. OneEach => OneEach'
      BY <2>1 DEF OneEach
    <3>5. OneEach => Registering'
      <4> SUFFICES ASSUME OneEach, NEW t \in Tasks
                   PROVE  /\ \A j \in jobs : j.task = t => j.id = found'[t]
                          /\ found'[t] # 0 => \E j \in jobs : j.id = found'[t] /\ j.task = t
        BY <2>1 DEF Registering
      <4>1. ASSUME NEW j \in jobs, j.task = t
            PROVE  j.id = found'[t]
        <5>1. j \in Jobs!Of(t)
          BY <4>1 DEF Jobs!Of
        <5>2. PICK k \in Jobs!Of(t) : found'[t] = k.id
          BY <3>2, <5>1
        <5>3. QED  BY <4>1, <5>2 DEF Jobs!Of, OneEach
      <4>2. ASSUME found'[t] # 0
            PROVE  \E j \in jobs : j.id = found'[t] /\ j.task = t
        BY <3>2, <4>2 DEF Jobs!Of
      <4>3. QED  BY <4>1, <4>2
    <3>6. Registered'
      BY <2>1, <2>2 DEF Registered
    <3>7. QED  BY <1>1, <2>3, <3>3, <3>4, <3>5, <3>6 DEF TasksInv
  <2>4. CASE found' = Jobs!Nowhere /\ Jobs!Faults(1) /\ lost' = TRUE
    <3>1. found' \in [Tasks -> Nat] /\ faults' \in Nat /\ faults' > 0
      BY <1>1a, <2>4 DEF Jobs!Nowhere, Jobs!NoJob, Jobs!Faults
    <3>2. JobTypes' /\ Cleaning'
      BY <1>1, <2>1, <3>1 DEF JobTypes, Cleaning
    <3>3. QED  BY <2>4, <3>2 DEF TasksInv
  <2>5. QED  BY <1>2, <2>3, <2>4 DEF Jobs!Start, Jobs!NoJob
<1>3. CASE Jobs!Started
  <2>1. /\ registry = "starting" /\ left = {} /\ registry' = "up"
        /\ UNCHANGED <<wanted, jobs, handlers, found, remembered, left, faults, lastId, lost>>
    BY <1>3 DEF Jobs!Started
  <2>2. QED  BY <1>1, <2>1 DEF TasksInv, JobTypes, OneEach, Registering, Registered, Cleaning
<1>4. CASE Jobs!Stop
  <2>1. /\ registry \in {"up", "broken"} /\ registry' = "stopping" /\ left' = {t \in Tasks : remembered[t] # 0}
        /\ UNCHANGED <<wanted, jobs, handlers, found, remembered, faults, lastId, lost>>
    BY <1>4 DEF Jobs!Stop, Jobs!NoJob
  <2>2. Cleaning'
    <3> SUFFICES ASSUME faults = 0, NEW j \in jobs
                 PROVE  remembered[j.task] = j.id /\ j.task \in left'
      BY <2>1 DEF Cleaning
    <3>1. ~lost /\ registry = "up"
      BY <1>1, <2>1 DEF JobTypes
    <3>2. j.id # 0 /\ j.task \in Tasks
      BY <1>1 DEF JobTypes, Job
    <3>3. QED  BY <1>1, <2>1, <3>1, <3>2 DEF Registered
  <2>3. QED  BY <1>1, <2>1, <2>2 DEF TasksInv, JobTypes, OneEach, Registering, Registered
<1>5. CASE Jobs!Stopped
  <2>1. /\ registry = "stopping" /\ left = {} /\ registry' = "down" /\ remembered' = [t \in Tasks |-> 0]
        /\ UNCHANGED <<wanted, jobs, handlers, found, left, faults, lastId, lost>>
    BY <1>5 DEF Jobs!Stopped, Jobs!Nowhere, Jobs!NoJob
  <2>2. QED  BY <1>1, <2>1 DEF TasksInv, JobTypes, OneEach, Registering, Registered, Cleaning
<1>6. CASE Jobs!Crash
  <2>1. /\ registry' = "down" /\ remembered' = [t \in Tasks |-> 0] /\ left' = {} /\ handlers' = {}
        /\ UNCHANGED <<wanted, jobs, found, lastId, lost>>
        /\ faults' \in Nat /\ faults' > 0
    BY <1>1a, <1>6 DEF Jobs!Crash, Jobs!Nowhere, Jobs!NoJob, Jobs!Faults
  <2>2. QED  BY <1>1, <2>1 DEF TasksInv, JobTypes, OneEach, Registering, Registered, Cleaning
<1>7. ASSUME NEW t \in Tasks, Jobs!Disable(t)
      PROVE  TasksInv'
  <2>1. /\ registry = "starting" /\ t \in left /\ t \notin wanted
        /\ UNCHANGED <<handlers, remembered, lastId, lost>>
    BY <1>7 DEF Jobs!Disable
  <2>2. CASE jobs' = {j \in jobs : j.id # found[t]} /\ Jobs!Handled(t) /\ UNCHANGED faults
    <3>1. left' = left \ {t} /\ wanted' = wanted /\ found' = found /\ registry' = registry
      BY <2>2 DEF Jobs!Handled
    <3>2. PICK rest : rest = {j \in jobs : j.id # found[t]}
      OBVIOUS
    <3>3. /\ rest \subseteq {j \in jobs : lost \/ j.task # t}
          /\ lost \/ \A j \in jobs : j.task # t => j \in rest
      BY <2>1, <3>2, FoundRemoved
    <3>4. faults' \in Nat /\ faults' >= faults /\ jobs' = rest /\ remembered' = remembered /\ lastId' = lastId
          /\ handlers \subseteq handlers' /\ handlers' \subseteq Nat \ {0} /\ lost' = lost
      BY <1>1a, <2>1, <2>2, <3>2
    <3>5. QED  BY <2>1, <3>1, <3>3, <3>4, TaskHandled
  <2>3. CASE Jobs!Faults(1) /\ Jobs!Raises /\ UNCHANGED jobs
    <3>1. faults' \in Nat /\ faults' > 0
      BY <1>1a, <2>3 DEF Jobs!Faults
    <3>2. QED  BY <1>1a, <2>1, <2>3, <3>1, RaisesKeeps
  <2>4. QED  BY <1>7, <2>2, <2>3 DEF Jobs!Disable
<1>8. ASSUME NEW t \in Tasks, Jobs!Reuse(t)
      PROVE  TasksInv'
  <2>1. /\ registry = "starting" /\ t \in left /\ t \in wanted /\ found[t] # 0
        /\ handlers' = handlers \cup {found[t]} /\ remembered' = [remembered EXCEPT ![t] = found[t]]
        /\ UNCHANGED <<jobs, faults, lastId, lost>>
        /\ left' = left \ {t} /\ wanted' = wanted /\ found' = found /\ registry' = registry
    BY <1>8 DEF Jobs!Reuse, Jobs!Handled, Jobs!NoJob
  <2>2. found[t] \in Nat \ {0}
    BY <1>1a, <2>1
  <2>3. /\ remembered' \in [Tasks -> Nat] /\ remembered'[t] = found[t]
        /\ \A u \in Tasks : u # t => remembered'[u] = remembered[u]
    BY <1>1, <2>1, <2>2 DEF JobTypes
  <2>4. JobTypes' /\ Cleaning'
    BY <1>1, <2>1, <2>2, <2>3 DEF JobTypes, Cleaning
  <2>5. OneEach => OneEach'
    BY <2>1 DEF OneEach
  <2>6. Registering => Registering'
    BY <2>1 DEF Registering
  <2>7. Registering /\ Registered => Registered'
    <3>1. \A j \in jobs : j.task \in Tasks
      BY <1>1 DEF JobTypes, Job
    <3>2. QED  BY <2>1, <2>3, <3>1 DEF Registering, Registered
  <2>8. QED  BY <1>1, <2>1, <2>4, <2>5, <2>6, <2>7 DEF TasksInv
<1>9. ASSUME NEW t \in Tasks, Jobs!Recreate(t)
      PROVE  TasksInv'
  <2>1. /\ registry = "starting" /\ t \in left /\ t \in wanted /\ found[t] # 0 /\ lost' = lost
    BY <1>9 DEF Jobs!Recreate, Jobs!NoJob
  <2>2. CASE Jobs!Create(t, {j \in jobs : j.id # found[t]}, 1) /\ Jobs!Handled(t)
    <3>1. PICK rest : rest = {j \in jobs : j.id # found[t]}
      OBVIOUS
    <3>2. /\ rest \subseteq {j \in jobs : lost \/ j.task # t}
          /\ lost \/ \A j \in jobs : j.task # t => j \in rest
      BY <2>1, <3>1, FoundRemoved
    <3>3. Jobs!Create(t, rest, 1)
      BY <2>2, <3>1
    <3>4. QED  BY <2>1, <2>2, <3>2, <3>3, CreateKeeps
  <2>3. CASE /\ Jobs!Faults(2) /\ Jobs!Raises
             /\ handlers' = handlers \cup {found[t]} /\ UNCHANGED <<jobs, remembered, lastId>>
    <3>1. faults' \in Nat /\ faults' > 0
      BY <1>1a, <2>3 DEF Jobs!Faults
    <3>1a. found[t] \in Nat \ {0}
      BY <1>1a, <2>1
    <3>1b. handlers' \subseteq Nat \ {0}
      BY <1>1a, <2>3, <3>1a
    <3>2. QED  BY <2>1, <2>3, <3>1, <3>1b, RaisesKeeps
  <2>4. QED  BY <1>9, <2>2, <2>3 DEF Jobs!Recreate
<1>10. ASSUME NEW t \in Tasks, Jobs!Register(t)
       PROVE  TasksInv'
  <2>1. /\ registry = "starting" /\ t \in left /\ t \in wanted /\ found[t] = 0 /\ lost' = lost
        /\ Jobs!Create(t, jobs, 0) /\ Jobs!Handled(t)
    BY <1>10 DEF Jobs!Register, Jobs!NoJob
  <2>2. jobs \subseteq {j \in jobs : lost \/ j.task # t}
    <3>1. \A j \in jobs : j.id # 0
      BY <1>1 DEF JobTypes, Job
    <3>2. QED  BY <1>1, <2>1, <3>1 DEF Registering
  <2>3. QED  BY <2>1, <2>2, CreateKeeps
<1>11. ASSUME NEW t \in Tasks, Jobs!Delete(t)
       PROVE  TasksInv'
  <2>1. /\ registry = "stopping" /\ t \in left /\ left' = left \ {t} /\ registry' = registry
        /\ UNCHANGED <<wanted, found, remembered, lastId, lost>>
    BY <1>11 DEF Jobs!Delete
  <2>2. CASE jobs' = {j \in jobs : j.id # remembered[t]} /\ handlers' = handlers \ {remembered[t]} /\ UNCHANGED faults
    <3>1. JobTypes'
      BY <1>1, <2>1, <2>2 DEF JobTypes
    <3>2. OneEach => OneEach'
      BY <2>2 DEF OneEach
    <3>3. Cleaning'
      BY <1>1, <2>1, <2>2 DEF Cleaning
    <3>4. QED  BY <1>1, <2>1, <3>1, <3>2, <3>3 DEF TasksInv, Registering, Registered
  <2>3. CASE Jobs!Faults(1) /\ UNCHANGED <<jobs, handlers>>
    <3>1. faults' \in Nat /\ faults' > 0
      BY <1>1a, <2>3 DEF Jobs!Faults
    <3>2. QED  BY <1>1, <2>1, <2>3, <3>1 DEF TasksInv, JobTypes, OneEach, Registering, Registered, Cleaning
  <2>4. QED  BY <1>11, <2>2, <2>3 DEF Jobs!Delete
<1>12. CASE UNCHANGED Jobs!vars
  BY <1>12 DEF Jobs!vars, TasksInv, JobTypes, OneEach, Registering, Registered, Cleaning
<1>13. QED
  BY <1>2, <1>3, <1>4, <1>5, <1>6, <1>7, <1>8, <1>9, <1>10, <1>11, <1>12 DEF Jobs!Next

\* A task has one job, a running plugin knows and runs those there are, and a stop where
\* nothing failed leaves none (IrisCronManager, scheduled_tasks.py).
THEOREM TasksRight == Jobs!Spec => []Jobs!TasksSound
<1>1. Jobs!Init => TasksInv
  <2> SUFFICES ASSUME Jobs!Init
               PROVE  TasksInv
    OBVIOUS
  <2>1. /\ wanted = Tasks /\ jobs = {} /\ handlers = {} /\ found = [t \in Tasks |-> 0] /\ remembered = [t \in Tasks |-> 0]
        /\ left = {} /\ registry = "down" /\ faults = 0 /\ lastId = 0 /\ lost = FALSE
    BY DEF Jobs!Init, Jobs!Nowhere, Jobs!NoJob
  <2>2. QED  BY <2>1 DEF TasksInv, JobTypes, OneEach, Registering, Registered, Cleaning
<1>2. TasksInv /\ [Jobs!Next]_(Jobs!vars) => TasksInv'
  BY TasksStep
<1>3. TasksInv => Jobs!TasksSound
  <2> SUFFICES ASSUME TasksInv
               PROVE  Jobs!TasksSound
    OBVIOUS
  <2>1. ASSUME OneEach, NEW t \in Tasks
        PROVE  Jobs!Cardinality(Jobs!Of(t)) <= 1
    <3>1. Jobs!Cardinality(Jobs!Of(t)) = Cardinality(Jobs!Of(t))
      BY DEF Jobs!Cardinality, Cardinality
    <3>2. CASE Jobs!Of(t) = {}
      BY <3>1, <3>2, FS_EmptySet
    <3>3. CASE Jobs!Of(t) # {}
      <4>1. PICK j : j \in Jobs!Of(t)
        BY <3>3
      <4>2. Jobs!Of(t) = {j}
        BY <2>1, <4>1 DEF Jobs!Of, OneEach
      <4>3. Cardinality({j}) = 1
        BY FS_Singleton
      <4>4. QED  BY <3>1, <4>2, <4>3
    <3>4. QED  BY <3>2, <3>3
  <2>2. Jobs!OneJob
    BY <2>1 DEF TasksInv, Jobs!OneJob
  <2>3. Jobs!UpIsRegistered
    BY DEF TasksInv, Registered, Jobs!UpIsRegistered
  <2>4. Jobs!StopCleans
    BY DEF TasksInv, Cleaning, Jobs!StopCleans
  <2>5. QED  BY <2>2, <2>3, <2>4 DEF Jobs!TasksSound
<1>4. QED  BY <1>1, <1>2, <1>3, PTL DEF Jobs!Spec

-----------------------------------------------------------------------------
(* The reports on the graph (GraphChecks).                                   *)

\* The table holds finitely many nodes, and a search has a depth and a table to read.
Searchable == IsFiniteSet(Points) /\ MaxCycle \in Nat /\ MaxRead \in Nat

EdgeRow == [from : Points, to : Points, kind : Kinds]
Joined(a, b) == \E r \in Checks!Range(table) : r.from = a /\ r.to = b
Seen(a, b) == \E r \in Checks!Read : r.from = a /\ r.to = b

\* The node after i edges of a path.
Node(start, p, i) == IF i = 0 THEN start ELSE p[i].to

\* A path of d edges that are read, from a start, no node twice.
Simple(start, d) ==
    {p \in Seq(Checks!Read) :
        /\ Len(p) = d
        /\ \A i \in 1 .. d : p[i].from = Node(start, p, i - 1)
        /\ \A i, j \in 0 .. d : Node(start, p, i) = Node(start, p, j) => i = j}

\* What GraphChecks counts and ranges over is what is counted and ranged over here.
LEMMA CountsAlike == \A S : Checks!Cardinality(S) = Cardinality(S)
  BY DEF Checks!Cardinality, Cardinality

LEMMA PlacesOf ==
    ASSUME NEW S, NEW s \in Seq(S)
    PROVE  /\ DOMAIN s = 1 .. Len(s) /\ Len(s) \in Nat /\ \A i \in 1 .. Len(s) : s[i] \in S
           /\ Checks!Range(s) = {s[i] : i \in 1 .. Len(s)}
<1>1. DOMAIN s = 1 .. Len(s) /\ Len(s) \in Nat /\ \A i \in 1 .. Len(s) : s[i] \in S
  BY LenProperties, ElementOfSeq
<1>2. QED  BY <1>1 DEF Checks!Range

\* What is read is of the table, and all of it when the limit allows.
LEMMA ReadIs ==
    ASSUME Searchable, table \in Seq(EdgeRow)
    PROVE  /\ Checks!Read \subseteq Checks!Range(table) /\ Checks!Range(table) \subseteq EdgeRow
           /\ ~(Len(table) > MaxRead) => Checks!Read = Checks!Range(table)
<1>1. DOMAIN table = 1 .. Len(table) /\ Len(table) \in Nat /\ \A i \in 1 .. Len(table) : table[i] \in EdgeRow
  BY PlacesOf
<1>2. Checks!Range(table) = {table[i] : i \in 1 .. Len(table)}
  BY PlacesOf
<1>3. Checks!Read = {table[i] : i \in Checks!Places}
  BY DEF Checks!Read
<1>4. Checks!Places = (1 .. Len(table)) \cap (1 .. MaxRead)
  BY <1>1 DEF Checks!Places
<1>5. ~(Len(table) > MaxRead) => Checks!Places = 1 .. Len(table)
  BY <1>1, <1>4 DEF Searchable
<1>6. QED  BY <1>1, <1>2, <1>3, <1>4, <1>5

-----------------------------------------------------------------------------
(* The bounded search for cycles.                                            *)

\* Where a path stands and what it is through.
LEMMA PathNodes ==
    ASSUME NEW start \in Points, NEW d \in Nat, NEW p \in Simple(start, d)
    PROVE  /\ Checks!Reach(start, p) = Node(start, p, d)
           /\ Checks!Through(start, p) = {Node(start, p, i) : i \in 0 .. d}
<1>1. p \in Seq(Checks!Read) /\ Len(p) = d
  BY DEF Simple
<1>2. Checks!Reach(start, p) = Node(start, p, d)
  <2>1. p = <<>> <=> d = 0
    BY <1>1, EmptySeq
  <2>2. QED  BY <1>1, <2>1 DEF Checks!Reach, Node
<1>3. Checks!Range(p) = {p[i] : i \in 1 .. d}
  BY <1>1, PlacesOf
<1>4. \A n : n \in Checks!Through(start, p) <=> n = start \/ \E i \in 1 .. d : n = p[i].to
  BY <1>3 DEF Checks!Through
<1>5. \A n : (\E i \in 0 .. d : n = Node(start, p, i)) <=> n = start \/ \E i \in 1 .. d : n = p[i].to
  <2>1. \A i \in 0 .. d : i = 0 \/ i \in 1 .. d
    OBVIOUS
  <2>2. 0 \in 0 .. d /\ \A i \in 1 .. d : i \in 0 .. d /\ i # 0
    OBVIOUS
  <2>3. QED  BY <2>1, <2>2 DEF Node
<1>6. QED  BY <1>2, <1>4, <1>5

\* A path one step longer is a path that goes on along an edge to a node not on it.
LEMMA LongerPath ==
    ASSUME NEW start \in Points, NEW d \in Nat, NEW p \in Simple(start, d), NEW r \in Checks!Onward(start, p)
    PROVE  Append(p, r) \in Simple(start, d + 1)
<1>1. /\ p \in Seq(Checks!Read) /\ Len(p) = d
      /\ \A i \in 1 .. d : p[i].from = Node(start, p, i - 1)
      /\ \A i, j \in 0 .. d : Node(start, p, i) = Node(start, p, j) => i = j
  BY DEF Simple
<1>2. /\ r \in Checks!Read /\ r.from = Node(start, p, d)
      /\ \A i \in 0 .. d : r.to # Node(start, p, i)
  BY PathNodes DEF Checks!Onward
<1>3. PICK q : q = Append(p, r)
  OBVIOUS
<1>4. /\ q \in Seq(Checks!Read) /\ Len(q) = d + 1 /\ q[d + 1] = r
      /\ \A i \in 1 .. d : q[i] = p[i]
  BY <1>1, <1>2, <1>3, AppendProperties
<1>5. \A i \in 0 .. d : Node(start, q, i) = Node(start, p, i)
  <2>1. \A i \in 0 .. d : i = 0 \/ i \in 1 .. d
    OBVIOUS
  <2>2. QED  BY <1>4, <2>1 DEF Node
<1>6. Node(start, q, d + 1) = r.to
  <2>1. d + 1 # 0
    OBVIOUS
  <2>2. QED  BY <1>4, <2>1 DEF Node
<1>7. \A i \in 0 .. (d + 1) : i \in 0 .. d \/ i = d + 1
  OBVIOUS
<1>8. \A i, j \in 0 .. (d + 1) : Node(start, q, i) = Node(start, q, j) => i = j
  <2> HIDE DEF Node
  <2>1. QED  BY <1>1, <1>2, <1>5, <1>6, <1>7
<1>9. ASSUME NEW i \in 1 .. (d + 1) PROVE q[i].from = Node(start, q, i - 1)
  <2>1. i - 1 \in 0 .. d
    OBVIOUS
  <2>2. Node(start, q, i - 1) = Node(start, p, i - 1)
    BY <1>5, <2>1
  <2>3. CASE i \in 1 .. d
    BY <1>1, <1>4, <2>2, <2>3
  <2>4. CASE i = d + 1
    <3>1. i - 1 = d
      BY <2>4
    <3>2. QED  BY <1>2, <1>4, <2>2, <2>4, <3>1
  <2>5. i \in 1 .. d \/ i = d + 1
    OBVIOUS
  <2>6. QED  BY <2>3, <2>4, <2>5
<1>10. QED  BY <1>3, <1>4, <1>8, <1>9 DEF Simple

LEMMA ShorterPath ==
    ASSUME NEW start \in Points, NEW d \in Nat, NEW q \in Simple(start, d + 1)
    PROVE  \E p \in Simple(start, d) : \E r \in Checks!Onward(start, p) : q = Append(p, r)
<1>1. /\ q \in Seq(Checks!Read) /\ Len(q) = d + 1
      /\ \A i \in 1 .. (d + 1) : q[i].from = Node(start, q, i - 1)
      /\ \A i, j \in 0 .. (d + 1) : Node(start, q, i) = Node(start, q, j) => i = j
  BY DEF Simple
<1>2. \A i \in 1 .. (d + 1) : q[i] \in Checks!Read
  BY <1>1, PlacesOf
<1>3. PICK p : p = [i \in 1 .. d |-> q[i]]
  OBVIOUS
<1>4. /\ \A i \in 1 .. d : i \in 1 .. (d + 1) /\ i # 0 /\ i - 1 \in 0 .. d /\ i \in 0 .. d
      /\ \A i \in 0 .. d : i \in 0 .. (d + 1) /\ (i = 0 \/ i \in 1 .. d)
      /\ d + 1 \in 1 .. (d + 1) /\ d + 1 \in 0 .. (d + 1) /\ (d + 1) - 1 = d /\ d + 1 # 0
      /\ d \in 0 .. d /\ \A i \in 0 .. d : i # d + 1
  OBVIOUS
<1>5. \A i \in 1 .. d : p[i] = q[i]
  BY <1>3
<1>6. p \in Seq(Checks!Read) /\ Len(p) = d
  BY <1>2, <1>3, <1>4
<1>7. \A i \in 0 .. d : Node(start, p, i) = Node(start, q, i)
  BY <1>4, <1>5 DEF Node
<1>8. p \in Simple(start, d)
  <2>1. \A i \in 1 .. d : p[i].from = Node(start, p, i - 1)
    BY <1>1, <1>4, <1>5, <1>7
  <2>2. \A i, j \in 0 .. d : Node(start, p, i) = Node(start, p, j) => i = j
    BY <1>1, <1>4, <1>7
  <2>3. QED  BY <1>6, <2>1, <2>2 DEF Simple
<1>9. PICK r \in Checks!Read : r = q[d + 1]
  BY <1>2, <1>4
<1>10. r \in Checks!Onward(start, p)
  <2>1. r.from = Node(start, p, d)
    BY <1>1, <1>4, <1>7, <1>9
  <2>2. r.to = Node(start, q, d + 1)
    BY <1>4, <1>9 DEF Node
  <2>3. \A i \in 0 .. d : r.to # Node(start, p, i)
    BY <1>1, <1>4, <1>7, <2>2
  <2>4. QED  BY <1>8, <2>1, <2>3, PathNodes DEF Checks!Onward
<1>11. q = Append(p, r)
  <2>1. PICK a : a = Append(p, r)
    OBVIOUS
  <2>2. /\ a \in Seq(Checks!Read) /\ Len(a) = d + 1 /\ a[d + 1] = r
        /\ \A i \in 1 .. d : a[i] = p[i]
    BY <1>6, <2>1, AppendProperties
  <2>3. \A i \in 1 .. (d + 1) : a[i] = q[i]
    <3>1. \A i \in 1 .. (d + 1) : i \in 1 .. d \/ i = d + 1
      OBVIOUS
    <3>2. QED  BY <1>5, <1>9, <2>2, <3>1
  <2>4. a = q
    BY <1>1, <2>2, <2>3, SeqEqual
  <2>5. QED  BY <2>1, <2>4
<1>12. QED  BY <1>8, <1>10, <1>11

LEMMA LongerIs ==
    ASSUME NEW start \in Points, NEW d \in Nat
    PROVE  Checks!Longer(start, Simple(start, d)) = Simple(start, d + 1)
<1>1. PICK P : P = Simple(start, d)
  OBVIOUS
<1>2. \A q : q \in Checks!Longer(start, P) <=> \E p \in P : \E r \in Checks!Onward(start, p) : q = Append(p, r)
  <2> DEFINE Beyond(p) == {Append(p, r) : r \in Checks!Onward(start, p)}
  <2>1. Checks!Longer(start, P) = UNION {Beyond(p) : p \in P}
    BY Zenon DEF Checks!Longer
  <2>2. \A p, q : q \in Beyond(p) <=> \E r \in Checks!Onward(start, p) : q = Append(p, r)
    BY Zenon
  <2> HIDE DEF Beyond
  <2>3. \A q : q \in UNION {Beyond(p) : p \in P} <=> \E p \in P : q \in Beyond(p)
    OBVIOUS
  <2>4. ASSUME NEW q PROVE q \in Checks!Longer(start, P) <=> \E p \in P : \E r \in Checks!Onward(start, p) : q = Append(p, r)
    <3>1. q \in Checks!Longer(start, P) <=> \E p \in P : q \in Beyond(p)
      BY <2>1, <2>3, Zenon
    <3>2. QED  BY <2>2, <3>1, Zenon
  <2>5. QED  BY <2>4, Zenon
<1>3. ASSUME NEW q \in Checks!Longer(start, P) PROVE q \in Simple(start, d + 1)
  <2>1. PICK p \in P : \E r \in Checks!Onward(start, p) : q = Append(p, r)
    BY <1>2, Zenon
  <2>2. PICK r \in Checks!Onward(start, p) : q = Append(p, r)
    BY <2>1, Zenon
  <2>3. Append(p, r) \in Simple(start, d + 1)
    BY <1>1, LongerPath
  <2>4. QED  BY <2>2, <2>3
<1>4. ASSUME NEW q \in Simple(start, d + 1) PROVE q \in Checks!Longer(start, P)
  <2>1. \E p \in Simple(start, d) : \E r \in Checks!Onward(start, p) : q = Append(p, r)
    BY ShorterPath
  <2>2. QED  BY <1>1, <1>2, <2>1, Zenon
<1>5. QED  BY <1>1, <1>3, <1>4

\* Before it goes anywhere, a search has the path of no edge.
LEMMA StartIs == ASSUME NEW start \in Points PROVE Simple(start, 0) = {<<>>}
<1>1. <<>> \in Simple(start, 0)
  BY DEF Simple
<1>2. ASSUME NEW p \in Simple(start, 0) PROVE p = <<>>
  <2>1. p \in Seq(Checks!Read) /\ Len(p) = 0
    BY DEF Simple
  <2>2. QED  BY <2>1, EmptySeq
<1>3. QED  BY <1>1, <1>2

\* By induction over the depth: what the search keeps at depth d are the simple paths.
LEMMA SearchedOnce ==
    ASSUME Searchable, NEW start \in Points, NEW f,
           f = [d \in 0 .. (MaxCycle - 1) |-> IF d = 0 THEN {<<>>} ELSE Checks!Longer(start, f[d - 1])]
    PROVE  \A d \in 0 .. (MaxCycle - 1) : f[d] = Simple(start, d)
<1> DEFINE bad == {d \in 0 .. (MaxCycle - 1) : f[d] # Simple(start, d)}
<1>1. SUFFICES ASSUME bad # {} PROVE FALSE
  OBVIOUS
<1>2. MaxCycle \in Nat /\ bad \subseteq Nat
  BY DEF Searchable
<1>3. PICK d \in bad : \A e \in bad : ~(<<e, d>> \in OpToRel(<, Nat))
  <2> HIDE DEF bad
  <2>1. QED  BY <1>1, <1>2, NatLessThanWellFounded, WFMin
<1>4. d \in 0 .. (MaxCycle - 1) /\ d \in Nat /\ f[d] # Simple(start, d)
  BY <1>2
<1>5. CASE d = 0
  <2>1. f[d] = {<<>>}
    BY <1>4, <1>5
  <2>2. QED  BY <1>4, <1>5, <2>1, StartIs
<1>6. CASE d # 0
  <2>1. PICK e \in 0 .. (MaxCycle - 1) : e = d - 1 /\ e \in Nat /\ e < d /\ e + 1 = d
    BY <1>2, <1>4, <1>6
  <2>2. e \notin bad
    <3>1. <<e, d>> \in OpToRel(<, Nat)
      BY <1>4, <2>1 DEF OpToRel
    <3>2. QED  BY <1>3, <3>1
  <2>3. f[e] = Simple(start, e)
    BY <2>1, <2>2
  <2>4. f[d] = Checks!Longer(start, f[e])
    BY <1>4, <1>6, <2>1
  <2>5. Checks!Longer(start, Simple(start, e)) = Simple(start, d)
    BY <2>1, LongerIs
  <2>6. QED  BY <1>4, <2>3, <2>4, <2>5
<1>7. QED  BY <1>5, <1>6

LEMMA PathsAre ==
    ASSUME Searchable, NEW start \in Points
    PROVE  Checks!PathsFrom(start) = UNION {Simple(start, d) : d \in 0 .. (MaxCycle - 1)}
<1> DEFINE Spotted(f) == f = [d \in 0 .. (MaxCycle - 1) |-> IF d = 0 THEN {<<>>} ELSE Checks!Longer(start, f[d - 1])]
<1>1. PICK s : s = [d \in 0 .. (MaxCycle - 1) |-> Simple(start, d)]
  OBVIOUS
<1>2. Spotted(s)
  <2>1. ASSUME NEW d \in 0 .. (MaxCycle - 1)
        PROVE  s[d] = IF d = 0 THEN {<<>>} ELSE Checks!Longer(start, s[d - 1])
    <3>1. CASE d = 0
      BY <1>1, <3>1, StartIs
    <3>2. CASE d # 0
      <4>1. d - 1 \in 0 .. (MaxCycle - 1) /\ d - 1 \in Nat /\ (d - 1) + 1 = d
        BY <3>2 DEF Searchable
      <4>2. s[d - 1] = Simple(start, d - 1) /\ s[d] = Simple(start, d)
        BY <1>1, <4>1
      <4>3. Checks!Longer(start, Simple(start, d - 1)) = Simple(start, d)
        BY <4>1, LongerIs
      <4>4. QED  BY <3>2, <4>2, <4>3
    <3>3. QED  BY <3>1, <3>2
  <2>2. QED  BY <1>1, <2>1
<1>3. PICK f : f = CHOOSE g : Spotted(g)
  OBVIOUS
<1>4. Spotted(f)
  <2> HIDE DEF Spotted
  <2>1. QED  BY <1>2, <1>3
<1>5. \A d \in 0 .. (MaxCycle - 1) : f[d] = Simple(start, d)
  BY <1>4, SearchedOnce
<1>6. Checks!PathsFrom(start) = UNION {f[d] : d \in 0 .. (MaxCycle - 1)}
  BY <1>3 DEF Checks!PathsFrom
<1>7. QED  BY <1>5, <1>6

\* The rings of a set are the simple paths over it that close.
RingPath(p, n) ==
    /\ p \in Seq(Points) /\ Len(p) = n
    /\ \A i, j \in 1 .. n : p[i] = p[j] => i = j
    /\ \A i \in 1 .. (n - 1) : Joined(p[i], p[i + 1])
    /\ Joined(p[n], p[1])

\* A list of n members, none twice, lists n members.
LEMMA Counted ==
    ASSUME NEW n \in Nat, NEW p \in Seq(Points), Len(p) = n,
           \A i, j \in 1 .. n : p[i] = p[j] => i = j
    PROVE  LET S == {p[i] : i \in 1 .. n} IN IsFiniteSet(S) /\ Cardinality(S) = n
<1> DEFINE S == {p[i] : i \in 1 .. n}
<1>1. IsFiniteSet(1 .. n) /\ Cardinality(1 .. n) = n
  BY FS_Interval
<1>2. DOMAIN p = 1 .. n /\ p = [i \in 1 .. n |-> p[i]]
  BY PlacesOf
<1>3. p \in [1 .. n -> S]
  BY <1>2
<1>4. p \in Bijection(1 .. n, S)
  BY <1>3 DEF Bijection, Injection, Surjection, IsInjective
<1>5. ExistsBijection(1 .. n, S)
  BY <1>4 DEF ExistsBijection
<1>6. QED  BY <1>1, <1>5, FS_Bijection

\* A set has a ring when a closed simple path runs through all of it.
LEMMA RingIs ==
    ASSUME NEW S, IsFiniteSet(S), S \subseteq Points, NEW n \in Nat, n >= 2, Cardinality(S) = n
    PROVE  Checks!Ring(S) <=> \E p : RingPath(p, n) /\ S = {p[i] : i \in 1 .. n}
<1> DEFINE Orders == Checks!Injection(1 .. Checks!Cardinality(S), S)
<1>1. \A p : p \in Orders <=> /\ p \in [1 .. n -> S]
                          /\ \A i, j \in 1 .. n : i # j => p[i] # p[j]
  <2>1. Checks!Cardinality(S) = n
    BY CountsAlike
  <2>2. QED  BY <2>1 DEF Checks!Injection, Checks!IsInjective
<1>2. ASSUME NEW p \in Orders
      PROVE  /\ p \in [1 .. n -> S] /\ p \in Seq(Points) /\ Len(p) = n /\ DOMAIN p = 1 .. n
             /\ \A i, j \in 1 .. n : p[i] = p[j] => i = j
             /\ S = {p[i] : i \in 1 .. n}
  <2>1. p \in [1 .. n -> S] /\ \A i, j \in 1 .. n : p[i] = p[j] => i = j
    BY <1>1
  <2>2. p \in Seq(Points) /\ Len(p) = n /\ DOMAIN p = 1 .. n
    BY <2>1
  <2>3. p \in Injection(1 .. n, S)
    BY <2>1 DEF Injection, IsInjective
  <2>4. IsFiniteSet(1 .. n) /\ Cardinality(1 .. n) = n
    BY FS_Interval
  <2>5. p \in Surjection(1 .. n, S)
    BY <2>3, <2>4, FS_Injection
  <2>6. S = {p[i] : i \in 1 .. n}
    BY <2>1, <2>5 DEF Surjection
  <2>7. QED  BY <2>1, <2>2, <2>6
<1>3. ASSUME NEW p \in Orders
      PROVE  (\A i \in DOMAIN p : \E r \in Checks!Range(table) : r.from = p[i] /\ r.to = p[IF i = Len(p) THEN 1 ELSE i + 1])
             <=> RingPath(p, n)
  <2>1. /\ p \in Seq(Points) /\ Len(p) = n /\ DOMAIN p = 1 .. n
        /\ \A i, j \in 1 .. n : p[i] = p[j] => i = j
    BY <1>2
  <2>2. (\A i \in 1 .. n : Joined(p[i], p[IF i = n THEN 1 ELSE i + 1]))
        <=> (\A i \in 1 .. (n - 1) : Joined(p[i], p[i + 1])) /\ Joined(p[n], p[1])
    <3>1. \A i \in 1 .. n : i \in 1 .. (n - 1) \/ i = n
      OBVIOUS
    <3>2. n \in 1 .. n /\ \A i \in 1 .. (n - 1) : i \in 1 .. n /\ i # n
      OBVIOUS
    <3> HIDE DEF Joined
    <3>3. QED  BY <3>1, <3>2
  <2>3. (\A i \in DOMAIN p : \E r \in Checks!Range(table) : r.from = p[i] /\ r.to = p[IF i = Len(p) THEN 1 ELSE i + 1])
        <=> (\A i \in 1 .. n : Joined(p[i], p[IF i = n THEN 1 ELSE i + 1]))
    BY <2>1 DEF Joined
  <2>4. RingPath(p, n) <=> (\A i \in 1 .. (n - 1) : Joined(p[i], p[i + 1])) /\ Joined(p[n], p[1])
    BY <2>1 DEF RingPath
  <2>5. QED  BY <2>2, <2>3, <2>4
<1>4. Checks!Ring(S) <=> \E p \in Orders :
         \A i \in DOMAIN p : \E r \in Checks!Range(table) : r.from = p[i] /\ r.to = p[IF i = Len(p) THEN 1 ELSE i + 1]
  BY DEF Checks!Ring
<1>5. ASSUME NEW p, RingPath(p, n), S = {p[i] : i \in 1 .. n} PROVE p \in Orders
  <2>1. /\ p \in Seq(Points) /\ Len(p) = n
        /\ \A i, j \in 1 .. n : p[i] = p[j] => i = j
    BY <1>5 DEF RingPath
  <2>2. DOMAIN p = 1 .. n /\ p = [i \in 1 .. n |-> p[i]]
    BY <2>1, PlacesOf
  <2>3. p \in [1 .. n -> S]
    BY <1>5, <2>2
  <2>4. QED  BY <1>1, <2>1, <2>3
<1>6. QED  BY <1>2, <1>3, <1>4, <1>5

\* A closed path of so many nodes can start at any of them.
LEMMA Turned ==
    ASSUME NEW n \in Nat, n >= 2, NEW p, RingPath(p, n), NEW k \in 1 .. n
    PROVE  \E w : RingPath(w, n) /\ w[1] = p[k] /\ {w[i] : i \in 1 .. n} = {p[i] : i \in 1 .. n}
<1> DEFINE to(i) == IF i + k <= n + 1 THEN i + k - 1 ELSE i + k - 1 - n
<1>1. /\ p \in Seq(Points) /\ Len(p) = n
      /\ \A i, j \in 1 .. n : p[i] = p[j] => i = j
      /\ \A i \in 1 .. (n - 1) : Joined(p[i], p[i + 1])
      /\ Joined(p[n], p[1])
  BY DEF RingPath
<1>2. \A i \in 1 .. n : p[i] \in Points
  BY <1>1, PlacesOf
<1>3. PICK w : w = [i \in 1 .. n |-> p[to(i)]]
  OBVIOUS
<1>4. \A i \in 1 .. n : to(i) \in 1 .. n /\ w[i] = p[to(i)]
  BY <1>3
<1>5. \A i, j \in 1 .. n : to(i) = to(j) => i = j
  OBVIOUS
<1>6. /\ to(1) = k /\ 1 \in 1 .. n /\ n \in 1 .. n
      /\ \A j \in 1 .. n : \E i \in 1 .. n : to(i) = j
  <2>1. ASSUME NEW j \in 1 .. n PROVE \E i \in 1 .. n : to(i) = j
    <3>1. CASE j >= k
      <4>1. j - k + 1 \in 1 .. n /\ to(j - k + 1) = j
        BY <3>1
      <4>2. QED  BY <4>1
    <3>2. CASE j < k
      <4>1. j - k + 1 + n \in 1 .. n /\ to(j - k + 1 + n) = j
        BY <3>2
      <4>2. QED  BY <4>1
    <3>3. QED  BY <3>1, <3>2
  <2>2. QED  BY <2>1
<1>7. \A i \in 1 .. n : \/ to(i) \in 1 .. (n - 1) /\ i # n /\ to(i + 1) = to(i) + 1
                        \/ to(i) = n /\ i # n /\ to(i + 1) = 1
                        \/ i = n
  OBVIOUS
<1>8. \/ to(n) \in 1 .. (n - 1) /\ to(1) = to(n) + 1
      \/ to(n) = n /\ to(1) = 1
  OBVIOUS
<1>9. \A i \in 1 .. (n - 1) : i \in 1 .. n /\ i # n /\ i + 1 \in 1 .. n
  OBVIOUS
<1> HIDE DEF to, Joined
<1>10. w \in Seq(Points) /\ Len(w) = n
  BY <1>2, <1>3, <1>4
<1>11. ASSUME NEW i \in 1 .. n, NEW j \in 1 .. n, w[i] = w[j] PROVE i = j
  <2>1. to(i) \in 1 .. n /\ to(j) \in 1 .. n /\ p[to(i)] = p[to(j)]
    BY <1>4, <1>11
  <2>2. to(i) = to(j)
    BY <1>1, <2>1
  <2>3. QED  BY <1>5, <2>2
<1>12. ASSUME NEW i \in 1 .. (n - 1) PROVE Joined(w[i], w[i + 1])
  <2>1. i \in 1 .. n /\ i # n /\ i + 1 \in 1 .. n
    BY <1>9
  <2>2. w[i] = p[to(i)] /\ w[i + 1] = p[to(i + 1)]
    BY <1>4, <2>1
  <2>3. \/ to(i) \in 1 .. (n - 1) /\ to(i + 1) = to(i) + 1
        \/ to(i) = n /\ to(i + 1) = 1
    BY <1>7, <2>1
  <2>4. QED  BY <1>1, <2>2, <2>3
<1>13. Joined(w[n], w[1])
  <2>1. w[n] = p[to(n)] /\ w[1] = p[to(1)]
    BY <1>4, <1>6
  <2>2. QED  BY <1>1, <1>8, <2>1
<1>14. {w[i] : i \in 1 .. n} = {p[i] : i \in 1 .. n}
  BY <1>4, <1>6
<1>15. w[1] = p[k]
  BY <1>4, <1>6
<1>16. RingPath(w, n)
  BY <1>10, <1>11, <1>12, <1>13 DEF RingPath
<1>17. QED  BY <1>14, <1>15, <1>16

\* A path that comes back to its start is a ring.
LEMMA ClosedIsRing ==
    ASSUME Searchable, table \in Seq(EdgeRow), NEW start \in Points, NEW S \in Checks!Closed(start)
    PROVE  S \subseteq Points /\ Cardinality(S) \in 2 .. MaxCycle /\ Checks!Ring(S)
<1>0. MaxCycle \in Nat
  BY DEF Searchable
<1>1. PICK q \in Checks!PathsFrom(start) \ {<<>>} :
         S = Checks!Through(start, q) /\ \E r \in Checks!Read : r.from = Checks!Reach(start, q) /\ r.to = start
  BY DEF Checks!Closed
<1>2. PICK d \in 0 .. (MaxCycle - 1) : q \in Simple(start, d)
  BY <1>1, PathsAre
<1>3. /\ q \in Seq(Checks!Read) /\ Len(q) = d /\ d \in Nat
      /\ \A i \in 1 .. d : q[i].from = Node(start, q, i - 1)
      /\ \A i, j \in 0 .. d : Node(start, q, i) = Node(start, q, j) => i = j
  BY <1>2 DEF Simple
<1>4. d # 0
  BY <1>1, <1>3, EmptySeq
<1>5. PICK n \in 2 .. MaxCycle : n = d + 1 /\ n \in Nat /\ n - 1 = d /\ n >= 2
  BY <1>0, <1>3, <1>4
<1>6. S = {Node(start, q, i) : i \in 0 .. d} /\ Checks!Reach(start, q) = Node(start, q, d)
  BY <1>1, <1>2, <1>3, PathNodes
<1>7. /\ Checks!Read \subseteq Checks!Range(table) /\ Checks!Range(table) \subseteq EdgeRow
      /\ \A i \in 1 .. d : q[i] \in Checks!Read
  BY <1>3, ReadIs, PlacesOf
<1>8. \A i \in 0 .. d : Node(start, q, i) \in Points
  <2>1. \A i \in 0 .. d : i = 0 \/ i \in 1 .. d
    BY <1>3
  <2>2. QED  BY <1>7, <2>1 DEF Node, EdgeRow
<1>9. PICK v : v = [i \in 1 .. n |-> Node(start, q, i - 1)]
  OBVIOUS
<1>10. /\ \A i \in 1 .. n : i - 1 \in 0 .. d /\ v[i] = Node(start, q, i - 1)
       /\ \A i \in 1 .. d : i \in 1 .. n /\ i + 1 \in 1 .. n /\ (i + 1) - 1 = i /\ i # 0 /\ i \in 0 .. d
       /\ \A i \in 0 .. d : i + 1 \in 1 .. n /\ (i + 1) - 1 = i
       /\ 1 \in 1 .. n /\ n \in 1 .. n /\ 1 - 1 = 0
  BY <1>5, <1>9
<1>11. v \in Seq(Points) /\ Len(v) = n
  BY <1>5, <1>8, <1>9, <1>10
<1>12. \A i, j \in 1 .. n : v[i] = v[j] => i = j
  <2>1. SUFFICES ASSUME NEW i \in 1 .. n, NEW j \in 1 .. n, v[i] = v[j] PROVE i = j
    OBVIOUS
  <2>2. i - 1 = j - 1
    BY <1>3, <1>10, <2>1
  <2>3. QED  BY <2>2
<1>13. ASSUME NEW i \in 1 .. d PROVE Joined(v[i], v[i + 1])
  <2>1. q[i] \in Checks!Range(table) /\ q[i].from = Node(start, q, i - 1)
    BY <1>3, <1>7
  <2>2. q[i].to = Node(start, q, i)
    BY <1>10 DEF Node
  <2>3. v[i] = Node(start, q, i - 1) /\ v[i + 1] = Node(start, q, i)
    BY <1>10
  <2>4. QED  BY <2>1, <2>2, <2>3 DEF Joined
<1>14. Joined(v[n], v[1])
  <2>1. v[n] = Node(start, q, d) /\ v[1] = start
    BY <1>5, <1>10 DEF Node
  <2>2. QED  BY <1>1, <1>6, <1>7, <2>1 DEF Joined
<1>15. RingPath(v, n)
  BY <1>5, <1>11, <1>12, <1>13, <1>14 DEF RingPath
<1>16. S = {v[i] : i \in 1 .. n}
  <2> DEFINE A == {Node(start, q, i) : i \in 0 .. d}
             B == {v[i] : i \in 1 .. n}
  <2>1. ASSUME NEW i \in 0 .. d PROVE Node(start, q, i) \in B
    <3>1. i + 1 \in 1 .. n /\ v[i + 1] = Node(start, q, i)
      BY <1>10
    <3>2. QED  BY <3>1
  <2>2. \A i \in 1 .. n : v[i] \in A
    BY <1>10
  <2>3. A = B
    BY <2>1, <2>2
  <2>4. QED  BY <1>6, <2>3
<1>17. IsFiniteSet(S) /\ Cardinality(S) = n
  BY <1>5, <1>11, <1>12, <1>16, Counted
<1>18. S \subseteq Points
  BY <1>6, <1>8
<1>19. Checks!Ring(S)
  BY <1>5, <1>15, <1>16, <1>17, <1>18, RingIs
<1>20. QED  BY <1>5, <1>17, <1>18, <1>19

\* A ring of edges that are read closes from each of its nodes.
LEMMA RingCloses ==
    ASSUME Searchable, table \in Seq(EdgeRow), ~(Len(table) > MaxRead),
           NEW S \in SUBSET Points, Cardinality(S) \in 2 .. MaxCycle, Checks!Ring(S), NEW m \in S
    PROVE  S \in Checks!Closed(m)
<1>0. MaxCycle \in Nat /\ IsFiniteSet(S)
  BY FS_Subset DEF Searchable
<1>1. PICK n \in 2 .. MaxCycle : n = Cardinality(S) /\ n \in Nat /\ n >= 2 /\ n - 1 \in Nat /\ n - 1 \in 0 .. (MaxCycle - 1)
  BY <1>0
<1>2. PICK p : RingPath(p, n) /\ S = {p[i] : i \in 1 .. n}
  BY <1>0, <1>1, RingIs
<1>3. PICK k \in 1 .. n : m = p[k]
  BY <1>2
<1>4. PICK w : RingPath(w, n) /\ w[1] = m /\ {w[i] : i \in 1 .. n} = S
  <2>1. n \in Nat /\ n >= 2 /\ RingPath(p, n) /\ k \in 1 .. n
    BY <1>1, <1>2, <1>3
  <2>2. \A j \in 1 .. n : \E w : RingPath(w, n) /\ w[1] = p[j] /\ {w[i] : i \in 1 .. n} = {p[i] : i \in 1 .. n}
    BY <2>1, Turned
  <2>3. \E w : RingPath(w, n) /\ w[1] = m /\ {w[i] : i \in 1 .. n} = {p[i] : i \in 1 .. n}
    BY <1>3, <2>1, <2>2, Zenon
  <2>4. {p[i] : i \in 1 .. n} = S
    BY <1>2
  <2>5. QED  BY <2>3, <2>4, Zenon
<1>5. /\ \A i, j \in 1 .. n : w[i] = w[j] => i = j
      /\ \A i \in 1 .. (n - 1) : Seen(w[i], w[i + 1])
      /\ Seen(w[n], w[1])
  <2>1. Checks!Read = Checks!Range(table)
    BY ReadIs
  <2>2. QED  BY <1>4, <2>1 DEF RingPath, Joined, Seen
<1>6. PICK d \in Nat : d = n - 1 /\ d + 1 = n /\ d # 0
  BY <1>1
<1>7. PICK e : e = [i \in 1 .. d |-> CHOOSE r \in Checks!Read : r.from = w[i] /\ r.to = w[i + 1]]
  OBVIOUS
<1>8. \A i \in 1 .. d : e[i] \in Checks!Read /\ e[i].from = w[i] /\ e[i].to = w[i + 1]
  BY <1>5, <1>6, <1>7 DEF Seen
<1>9. e \in Seq(Checks!Read) /\ Len(e) = d
  BY <1>6, <1>7, <1>8
<1>10. ASSUME NEW i \in 0 .. d PROVE Node(m, e, i) = w[i + 1]
  <2>1. CASE i = 0
    BY <1>4, <2>1 DEF Node
  <2>2. CASE i # 0
    BY <1>8, <2>2 DEF Node
  <2>3. QED  BY <2>1, <2>2
<1>11. e \in Simple(m, d)
  <2>1. ASSUME NEW i \in 1 .. d PROVE e[i].from = Node(m, e, i - 1)
    <3>1. i - 1 \in 0 .. d /\ (i - 1) + 1 = i
      OBVIOUS
    <3>2. QED  BY <1>8, <1>10, <3>1
  <2>2. ASSUME NEW i \in 0 .. d, NEW j \in 0 .. d, Node(m, e, i) = Node(m, e, j) PROVE i = j
    <3>1. i + 1 \in 1 .. n /\ j + 1 \in 1 .. n /\ w[i + 1] = w[j + 1]
      BY <1>6, <1>10, <2>2
    <3>2. i + 1 = j + 1
      BY <1>5, <3>1
    <3>3. QED  BY <3>2
  <2>3. QED  BY <1>9, <2>1, <2>2 DEF Simple
<1>12. m \in Points
  OBVIOUS
<1>13. e \in Checks!PathsFrom(m) \ {<<>>}
  <2>1. e # <<>>
    BY <1>6, <1>9, EmptySeq
  <2>2. QED  BY <1>1, <1>6, <1>11, <1>12, <2>1, PathsAre
<1>14. Checks!Reach(m, e) = w[n]
  <2>1. d \in 0 .. d
    OBVIOUS
  <2>2. QED  BY <1>6, <1>10, <1>11, <1>12, <2>1, PathNodes
<1>15. Checks!Through(m, e) = S
  <2>1. Checks!Through(m, e) = {Node(m, e, i) : i \in 0 .. d}
    BY <1>11, <1>12, PathNodes
  <2> DEFINE A == {Node(m, e, i) : i \in 0 .. d}
             B == {w[i] : i \in 1 .. n}
  <2>2. ASSUME NEW i \in 0 .. d PROVE Node(m, e, i) \in B
    <3>1. i + 1 \in 1 .. n
      BY <1>6
    <3>2. QED  BY <1>10, <3>1
  <2>3. ASSUME NEW i \in 1 .. n PROVE w[i] \in A
    <3>1. i - 1 \in 0 .. d /\ (i - 1) + 1 = i
      BY <1>6
    <3>2. Node(m, e, i - 1) = w[i]
      BY <1>10, <3>1
    <3>3. QED  BY <3>1, <3>2
  <2>4. A = B
    BY <2>2, <2>3
  <2>5. QED  BY <1>4, <2>1, <2>4
<1>16. \E r \in Checks!Read : r.from = Checks!Reach(m, e) /\ r.to = m
  BY <1>4, <1>5, <1>14 DEF Seen
<1>17. QED  BY <1>13, <1>15, <1>16 DEF Checks!Closed

\* What is reported are rings, and a ring is missing only for one of the three caps.
LEMMA SearchIsRight ==
    ASSUME Searchable, table \in Seq(EdgeRow)
    PROVE  Checks!RingsReported
<1> DEFINE Sure == UNION {Checks!Closed(n) : n \in {m \in Points : ~Checks!Cut(m)}}
<1>1. SUFFICES ASSUME NEW R \in Checks!CycleReports, NEW S \in SUBSET Points
               PROVE  /\ S \in R => Cardinality(S) \in 2 .. MaxCycle /\ Checks!Ring(S)
                      /\ (Cardinality(S) \in 2 .. MaxCycle /\ Checks!Ring(S)) /\ S \notin R =>
                            Len(table) > MaxRead \/ Cardinality(R) = MaxIssues \/ \A n \in S : Checks!Cut(n)
  BY CountsAlike DEF Checks!RingsReported
<1>2. /\ R \subseteq UNION {Checks!Closed(n) : n \in Points}
      /\ Sure \subseteq R \/ Cardinality(R) = MaxIssues
  BY CountsAlike DEF Checks!CycleReports
<1>3. ASSUME S \in R PROVE Cardinality(S) \in 2 .. MaxCycle /\ Checks!Ring(S)
  <2>1. PICK start \in Points : S \in Checks!Closed(start)
    BY <1>2, <1>3
  <2>2. QED  BY <2>1, ClosedIsRing
<1>4. ASSUME Cardinality(S) \in 2 .. MaxCycle, Checks!Ring(S), S \notin R,
             ~(Len(table) > MaxRead), Cardinality(R) # MaxIssues, NEW n \in S, ~Checks!Cut(n)
      PROVE  FALSE
  <2>1. S \in Checks!Closed(n)
    BY <1>4, RingCloses
  <2>2. S \in Sure
    BY <1>4, <2>1
  <2>3. QED  BY <1>2, <1>4, <2>2
<1>5. QED  BY <1>3, <1>4

-----------------------------------------------------------------------------
(* The steps.                                                                *)

\* The stored edges have their nodes, and a check's first read still holds as long as
\* nothing it rests on was touched.
ReportsInv ==
    /\ present \subseteq Points /\ table \in Seq(EdgeRow)
    /\ \A r \in Checks!Range(table) : r.from \in present /\ r.to \in present
    /\ reading.check \in {"dangling", "quality"} \/ reading = Checks!Quiet
    /\ touched \in BOOLEAN
    /\ reading.check = "dangling" /\ ~touched => reading.ends \subseteq present
    /\ reading.total \in Nat
    /\ reading.check = "quality" /\ ~touched => Cardinality(present) <= reading.total
    /\ alarm # "false"

LEMMA ReportsRead ==
    ASSUME ReportsInv, Searchable, NEW check \in {"dangling", "quality"}, Checks!ReadFirst(check)
    PROVE  ReportsInv'
<1>1. /\ UNCHANGED <<present, table, alarm>> /\ touched' = FALSE
      /\ reading' = IF check = "dangling" THEN [Checks!Quiet EXCEPT !.check = check, !.ends = Checks!Ends(Checks!Read)]
                    ELSE [Checks!Quiet EXCEPT !.check = check, !.total = Cardinality(present)]
  BY CountsAlike DEF Checks!ReadFirst
<1>2. Checks!Ends(Checks!Read) \subseteq present
  <2>1. Checks!Read \subseteq Checks!Range(table)
    BY ReadIs DEF ReportsInv
  <2>2. QED  BY <2>1 DEF Checks!Ends, ReportsInv
<1>0. Cardinality(present) \in Nat
  BY FS_Subset, FS_CardinalityType DEF ReportsInv, Searchable
<1>3. CASE check = "dangling"
  <2>1. reading'.check = "dangling" /\ reading'.ends = Checks!Ends(Checks!Read) /\ reading'.total = 0
    BY <1>1, <1>3 DEF Checks!Quiet
  <2>2. reading'.check # "quality" /\ touched' \in BOOLEAN /\ alarm' # "false"
    BY <1>1, <2>1 DEF ReportsInv
  <2>3. /\ present' \subseteq Points /\ table' \in Seq(EdgeRow) /\ reading'.ends \subseteq present'
        /\ \A r \in Checks!Range(table)' : r.from \in present' /\ r.to \in present'
    BY <1>1, <1>2, <2>1 DEF ReportsInv, Checks!Range
  <2>4. QED  BY <2>1, <2>2, <2>3 DEF ReportsInv
<1>4. CASE check = "quality"
  <2>1. reading'.check = "quality" /\ reading'.total = Cardinality(present)
    BY <1>1, <1>4 DEF Checks!Quiet
  <2>2. reading'.check # "dangling" /\ touched' \in BOOLEAN /\ alarm' # "false"
    BY <1>1, <2>1 DEF ReportsInv
  <2>3. /\ present' \subseteq Points /\ table' \in Seq(EdgeRow)
        /\ \A r \in Checks!Range(table)' : r.from \in present' /\ r.to \in present'
    BY <1>1 DEF ReportsInv, Checks!Range
  <2>4. Cardinality(present') = Cardinality(present)
    BY <1>1
  <2>5. reading'.total \in Nat /\ Cardinality(present') <= reading'.total
    BY <1>0, <2>1, <2>4
  <2>6. QED  BY <2>1, <2>2, <2>3, <2>5 DEF ReportsInv
<1>5. QED  BY <1>3, <1>4

\* The share of orphans is of nodes that are there.
LEMMA ReportsEnd ==
    ASSUME ReportsInv, Searchable, Checks!ReadSecond
    PROVE  ReportsInv'
<1>1. /\ reading' = Checks!Quiet /\ touched' = FALSE /\ UNCHANGED <<present, table>>
      /\ reading # Checks!Quiet
      /\ alarm' = IF ~(IF reading.check = "dangling" THEN ~(reading.ends \subseteq present)
                       ELSE reading.total > 0 /\ Cardinality(Checks!Lone) > reading.total)
                  THEN "none" ELSE IF touched THEN "raced" ELSE "false"
  BY CountsAlike DEF Checks!ReadSecond
<1>2. IsFiniteSet(present)
  BY FS_Subset DEF ReportsInv, Searchable
<1>3. /\ Cardinality(Checks!Lone) \in Nat /\ Cardinality(present) \in Nat
      /\ Cardinality(Checks!Lone) <= Cardinality(present)
  <2>1. Checks!Lone \in SUBSET present
    BY DEF Checks!Lone
  <2>2. QED  BY <1>2, <2>1, FS_Subset, FS_CardinalityType
<1>4. ~touched /\ reading.check = "quality" => ~(Cardinality(Checks!Lone) > reading.total)
  BY <1>3 DEF ReportsInv
<1>5. reading.check \in {"dangling", "quality"}
  BY <1>1 DEF ReportsInv
<1>6. QED  BY <1>1, <1>4, <1>5 DEF ReportsInv, Checks!Quiet

\* What is left of the table has no rows of its own.
LEMMA ThinnedRows ==
    ASSUME table \in Seq(EdgeRow), NEW q \in Checks!Thinned
    PROVE  q \in Seq(EdgeRow)
<1>1. DOMAIN table = 1 .. Len(table) /\ Len(table) \in Nat /\ \A i \in 1 .. Len(table) : table[i] \in EdgeRow
  BY PlacesOf
<1>2. PICK n \in 0 .. Len(table) : \E f \in [1 .. n -> DOMAIN table] : q = [k \in 1 .. n |-> table[f[k]]]
  BY DEF Checks!Thinned
<1>3. PICK f \in [1 .. n -> DOMAIN table] : q = [k \in 1 .. n |-> table[f[k]]]
  BY <1>2
<1>4. n \in Nat /\ \A k \in 1 .. n : table[f[k]] \in EdgeRow
  BY <1>1, <1>3
<1>5. QED  BY <1>3, <1>4

LEMMA ReportsAdd ==
    ASSUME ReportsInv, NEW n \in Points, Checks!AddNode(n)
    PROVE  ReportsInv'
<1>1. /\ present' = present \cup {n} /\ touched' = (touched \/ reading.check = "quality")
      /\ UNCHANGED <<table, reading, alarm>>
  BY DEF Checks!AddNode
<1>2. touched' \in BOOLEAN /\ (~touched' => ~touched /\ reading.check # "quality")
  BY <1>1
<1>3. QED  BY <1>1, <1>2 DEF ReportsInv

LEMMA ReportsJoin ==
    ASSUME ReportsInv, NEW a \in Points, NEW b \in Points, NEW k \in Kinds, Checks!AddEdge(a, b, k)
    PROVE  ReportsInv'
<1>1. PICK row \in EdgeRow : row.from = a /\ row.to = b /\ table' = Append(table, row)
  BY DEF Checks!AddEdge, EdgeRow
<1>2. {a, b} \subseteq present /\ UNCHANGED <<present, reading, touched, alarm>>
  BY DEF Checks!AddEdge
<1>3. table \in Seq(EdgeRow)
  BY DEF ReportsInv
<1>4. /\ table' \in Seq(EdgeRow) /\ Len(table') = Len(table) + 1 /\ table'[Len(table) + 1] = row
      /\ \A i \in 1 .. Len(table) : table'[i] = table[i]
  BY <1>1, <1>3, AppendProperties
<1>5. \A i \in 1 .. (Len(table) + 1) : i \in 1 .. Len(table) \/ i = Len(table) + 1
  BY <1>3, PlacesOf
<1>6. \A r \in Checks!Range(table)' : r \in Checks!Range(table) \/ r = row
  <2>1. Checks!Range(table) = {table[i] : i \in 1 .. Len(table)}
    BY <1>3, PlacesOf
  <2>2. Checks!Range(table)' = {table'[i] : i \in 1 .. Len(table')}
    <3>1. DOMAIN table' = 1 .. Len(table')
      BY <1>4, LenProperties
    <3>2. QED  BY <3>1 DEF Checks!Range
  <2>3. QED  BY <1>4, <1>5, <2>1, <2>2
<1>7. \A r \in Checks!Range(table)' : r.from \in present /\ r.to \in present
  BY <1>1, <1>2, <1>6 DEF ReportsInv
<1>8. QED  BY <1>2, <1>4, <1>7 DEF ReportsInv

LEMMA ReportsDelete ==
    ASSUME ReportsInv, Searchable, NEW n \in Points, Checks!DeleteNode(n)
    PROVE  ReportsInv'
<1>1. /\ n \in present /\ present' = present \ {n}
      /\ touched' = (touched \/ reading.check = "dangling")
      /\ UNCHANGED <<reading, alarm>>
  BY DEF Checks!DeleteNode
<1>2. table' \in Checks!Thinned /\ Checks!Range(table)' = {r \in Checks!Range(table) : n \notin {r.from, r.to}}
  BY DEF Checks!DeleteNode, Checks!Range
<1>3. table' \in Seq(EdgeRow)
  BY <1>2, ThinnedRows DEF ReportsInv
<1>4. \A r \in Checks!Range(table)' : r.from \in present' /\ r.to \in present'
  BY <1>1, <1>2 DEF ReportsInv
<1>5. touched' \in BOOLEAN /\ (~touched' => ~touched /\ reading.check # "dangling")
  BY <1>1 DEF ReportsInv
<1>6. present' \subseteq Points /\ alarm' # "false"
  BY <1>1 DEF ReportsInv
<1>7. reading'.check \in {"dangling", "quality"} \/ reading' = Checks!Quiet
  BY <1>1 DEF ReportsInv
<1>8. reading'.check = "dangling" /\ ~touched' => reading'.ends \subseteq present'
  BY <1>1, <1>5
<1>9. reading'.total \in Nat
  BY <1>1 DEF ReportsInv
<1>10. reading'.check = "quality" /\ ~touched' => Cardinality(present') <= reading'.total
  <2>1. IsFiniteSet(present)
    BY FS_Subset DEF ReportsInv, Searchable
  <2>2. /\ Cardinality(present) \in Nat /\ Cardinality(present') \in Nat
        /\ Cardinality(present') <= Cardinality(present)
    BY <1>1, <2>1, FS_Subset, FS_CardinalityType
  <2>3. reading.check = "quality" /\ ~touched => Cardinality(present) <= reading.total
    BY DEF ReportsInv
  <2>4. QED  BY <1>1, <1>5, <1>9, <2>2, <2>3
<1>11. QED  BY <1>3, <1>4, <1>5, <1>6, <1>7, <1>8, <1>9, <1>10 DEF ReportsInv

LEMMA ReportsKeep ==
    ASSUME Searchable, ReportsInv, [Checks!Next]_(Checks!vars)
    PROVE  ReportsInv'
<1>1. CASE UNCHANGED Checks!vars
  BY <1>1 DEF ReportsInv, Checks!vars, Checks!Range
<1>2. ASSUME NEW n \in Points, Checks!AddNode(n) PROVE ReportsInv'
  BY <1>2, ReportsAdd
<1>3. ASSUME NEW n \in Points, Checks!DeleteNode(n) PROVE ReportsInv'
  BY <1>3, ReportsDelete
<1>4. ASSUME NEW a \in Points, NEW b \in Points, NEW k \in Kinds, Checks!AddEdge(a, b, k) PROVE ReportsInv'
  BY <1>4, ReportsJoin
<1>5. ASSUME NEW check \in {"dangling", "quality"}, Checks!ReadFirst(check) PROVE ReportsInv'
  BY <1>5, ReportsRead
<1>6. CASE Checks!ReadSecond
  BY <1>6, ReportsEnd
<1>7. QED  BY <1>1, <1>2, <1>3, <1>4, <1>5, <1>6 DEF Checks!Next

LEMMA ChecksHold ==
    ASSUME Searchable, ReportsInv
    PROVE  Checks!ChecksSound
<1>1. Checks!RingsReported
  BY SearchIsRight DEF ReportsInv
<1>2. Checks!AlarmsAreRaces
  BY DEF ReportsInv, Checks!AlarmsAreRaces
<1>3. Checks!MutualAlwaysFound
  <2>1. SUFFICES ASSUME NEW i \in Checks!Places, NEW j \in Checks!Places,
                        i < j, table[i].from = table[j].from, table[i].to = table[j].to,
                        table[j].kind \in Against[table[i].kind]
                 PROVE  <<i, j>> \in Checks!Contradictions
    BY DEF Checks!MutualAlwaysFound
  <2>2. Checks!Contradicts(i, j)
    BY <2>1 DEF Checks!Contradicts
  <2>3. <<i, j>> \in Checks!Places \X Checks!Places /\ <<i, j>>[1] = i /\ <<i, j>>[2] = j
    OBVIOUS
  <2>4. QED  BY <2>2, <2>3 DEF Checks!Contradictions
<1>4. QED  BY <1>1, <1>2, <1>3 DEF Checks!ChecksSound

THEOREM ReportsRight == ASSUME Searchable PROVE Checks!Spec => []Checks!ChecksSound
<1>1. Checks!Init => ReportsInv
  <2>1. SUFFICES ASSUME Checks!Init PROVE ReportsInv
    OBVIOUS
  <2>2. table = <<>> /\ present = {} /\ reading = Checks!Quiet /\ touched = FALSE /\ alarm = "none"
    BY <2>1 DEF Checks!Init
  <2>3. table \in Seq(EdgeRow) /\ Checks!Range(table) = {}
    BY <2>2 DEF Checks!Range
  <2>4. reading.check = "none" /\ reading.total = 0
    BY <2>2 DEF Checks!Quiet
  <2>5. touched \in BOOLEAN /\ alarm # "false" /\ present \subseteq Points
    BY <2>2
  <2>6. QED  BY <2>2, <2>3, <2>4, <2>5 DEF ReportsInv
<1>2. ReportsInv /\ [Checks!Next]_(Checks!vars) => ReportsInv'
  BY ReportsKeep
<1>3. ReportsInv => Checks!ChecksSound
  BY ChecksHold
<1>4. QED  BY <1>1, <1>2, <1>3, PTL DEF Checks!Spec

-----------------------------------------------------------------------------
(* The summaries of episodic memories (SemanticExtraction).                  *)

StoredRows == [layer : {"episodic", "semantic"}, done : BOOLEAN]
Summed == [from : Seq(Extracted), of : Seq(Extracted)]

\* A cluster is of one user, of enough memories and of no more than fit.
Cluster(c) ==
    /\ c \in Seq(Extracted) /\ \A k, l \in DOMAIN c : Said[c[k]] = Said[c[l]]
    /\ MinSize <= Len(c) /\ Len(c) <= MaxPerCluster

\* Clusters in a row, and texts about clusters, share no memory.
ClusterList(s) ==
    /\ s \in Seq(Seq(Extracted)) /\ \A k \in DOMAIN s : Cluster(s[k])
    /\ \A k, l \in DOMAIN s : k # l => Range(s[k]) \cap Range(s[l]) = {}
TextList(s) ==
    /\ s \in Seq(Summed) /\ \A k \in DOMAIN s : Cluster(s[k].from)
    /\ \A k, l \in DOMAIN s : k # l => Range(s[k].from) \cap Range(s[l].from) = {}

JobRight(x) ==
    /\ x = [at |-> x.at, clusters |-> x.clusters, results |-> x.results, left |-> x.left]
    /\ ClusterList(x.clusters) /\ TextList(x.results) /\ x.left \in Seq(Extracted)
    /\ x.at \in {"idle", "ask", "keep"}
    /\ x.at # "ask" => x.clusters = <<>>
    /\ x.at # "keep" => x.results = <<>> /\ x.left = <<>>
    /\ x.at = "keep" => x.results # <<>> \/ x.left # <<>>

\* What a job has yet to sum up, and what it holds without having marked it.
ToSumUp(x, m) ==
    \/ \E k \in DOMAIN x.clusters : m \in Range(x.clusters[k])
    \/ \E k \in DOMAIN x.results : m \in Range(x.results[k].from)
InJob(x, m) == ToSumUp(x, m) \/ m \in Range(x.left)

Summaries(m) == {i \in DOMAIN sums : m \in Range(sums[i].from)}
AheadOf(m) == {j \in Extractions : ToSumUp(extraction[j], m)}
HeldBy(m) == {j \in Extractions : InJob(extraction[j], m)}
Unmarked(m) == m \in DOMAIN stored /\ ~stored[m].done

\* A memory is summed up, or about to be, once more than it has excuses; and no more than
\* that while nobody holds it and it has no mark.
Accounted ==
    \A m \in Extracted :
        /\ Cardinality(Summaries(m)) + Cardinality(AheadOf(m)) <= 1 + excuses[m]
        /\ Unmarked(m) /\ HeldBy(m) = {} => Cardinality(Summaries(m)) <= excuses[m]

SemTypes ==
    /\ DOMAIN stored \subseteq Extracted /\ stored \in [DOMAIN stored -> StoredRows]
    /\ extraction = [j \in Extractions |-> extraction[j]] /\ \A j \in Extractions : JobRight(extraction[j])
    /\ sums \in Seq(Summed) /\ \A i \in DOMAIN sums : Cluster(sums[i].from)
    /\ excuses \in [Extracted -> Nat]

SemInv == SemTypes /\ Accounted

-----------------------------------------------------------------------------
(* The clusters a job reads.                                                 *)

\* What the model counts and ranges over is what is counted and ranged over here.
LEMMA SemOperators ==
    /\ \A q : Semantic!Range(q) = Range(q)
    /\ \A q : Semantic!Cardinality(q) = Cardinality(q)
    /\ \A S, T : Semantic!Injection(S, T) = {f \in [S -> T] : \A a, b \in S : f[a] = f[b] => a = b}
<1>1. \A q : Semantic!Range(q) = Range(q)
  BY DEF Semantic!Range, Range
<1>2. \A q : Semantic!Cardinality(q) = Cardinality(q)
  BY DEF Semantic!Cardinality, Cardinality
<1>3. ASSUME NEW S, NEW T
      PROVE  Semantic!Injection(S, T) = {f \in [S -> T] : \A a, b \in S : f[a] = f[b] => a = b}
  BY DEF Semantic!Injection, Semantic!IsInjective
<1>4. QED  BY <1>1, <1>2, <1>3

\* In whatever order a user's clusters are found, they are of its memories, of enough
\* of them, and share none.
LEMMA ClustersApart ==
    ASSUME Extractable, NEW ms \in SUBSET Extracted, NEW words \in Semantic!Orders(ms),
           NEW taken \in Semantic!Entities(ms, words)
    PROVE  /\ \A c \in Semantic!Clusters(ms, taken) : c \subseteq ms /\ MinSize <= Cardinality(c)
           /\ \A c, d \in Semantic!Clusters(ms, taken) : c # d => c \cap d = {}
<1> DEFINE n == Cardinality(UNION {WordsIn[m] : m \in ms})
           rest == ms \ UNION Range(taken)
<1>1. n \in Nat
  <2>1. IsFiniteSet(ms)
    BY FS_Subset DEF Extractable
  <2>2. IsFiniteSet({WordsIn[m] : m \in ms})
    <3>1. [m \in ms |-> WordsIn[m]] \in Surjection(ms, {WordsIn[m] : m \in ms})
      BY DEF Surjection
    <3>2. QED  BY <2>1, <3>1, FS_Surjection
  <2>3. \A w \in {WordsIn[m] : m \in ms} : IsFiniteSet(w)
    BY DEF Extractable
  <2>4. QED  BY <2>2, <2>3, FS_UNION, FS_CardinalityType
<1>2. DOMAIN words = 1 .. n
  BY SemOperators DEF Semantic!Orders
<1>3. /\ taken \in [1 .. n -> SUBSET ms]
      /\ \A i \in 1 .. n : taken[i] = IF Cardinality(Semantic!Free(ms, words, taken, i)) < MinSize THEN {}
                                      ELSE Semantic!Free(ms, words, taken, i)
  BY <1>2, SemOperators DEF Semantic!Entities
<1>4. \A i \in 1 .. n : taken[i] # {} => MinSize <= Cardinality(taken[i])
  <2> SUFFICES ASSUME NEW i \in 1 .. n, taken[i] # {} PROVE MinSize <= Cardinality(taken[i])
    OBVIOUS
  <2>1. taken[i] = Semantic!Free(ms, words, taken, i) /\ ~(Cardinality(taken[i]) < MinSize)
    BY <1>3
  <2>2. Cardinality(taken[i]) \in Nat
    <3>1. taken[i] \in SUBSET Extracted
      BY <1>3
    <3>2. QED  BY <3>1, FS_Subset, FS_CardinalityType DEF Extractable
  <2>3. QED  BY <2>1, <2>2 DEF Extractable
<1>5. \A i, k \in 1 .. n : i < k => taken[i] \cap taken[k] = {}
  <2> SUFFICES ASSUME NEW i \in 1 .. n, NEW k \in 1 .. n, i < k PROVE taken[i] \cap taken[k] = {}
    OBVIOUS
  <2>1. i \in 1 .. (k - 1)
    OBVIOUS
  <2>2. taken[i] \cap Semantic!Free(ms, words, taken, k) = {}
    BY <2>1 DEF Semantic!Free
  <2>3. QED  BY <1>3, <2>2
<1>6. \A i, k \in 1 .. n : taken[i] # taken[k] => taken[i] \cap taken[k] = {}
  <2> SUFFICES ASSUME NEW i \in 1 .. n, NEW k \in 1 .. n, taken[i] # taken[k] PROVE taken[i] \cap taken[k] = {}
    OBVIOUS
  <2>1. i < k \/ k < i
    OBVIOUS
  <2>2. QED  BY <1>5, <2>1
<1>7. /\ \A c \in Range(taken) : \E i \in 1 .. n : c = taken[i]
      /\ \A i \in 1 .. n : taken[i] \cap rest = {}
      /\ rest \subseteq ms
  BY <1>3 DEF Range
<1>8. \A c \in Semantic!Clusters(ms, taken) :
        \/ c # {} /\ \E i \in 1 .. n : c = taken[i]
        \/ c = rest /\ ~(Cardinality(rest) < MinSize)
  <2> HIDE DEF n
  <2>1. QED  BY <1>7, SemOperators DEF Semantic!Clusters
<1>9. Cardinality(rest) \in Nat
  <2>1. rest \in SUBSET Extracted
    OBVIOUS
  <2> HIDE DEF rest
  <2>2. QED  BY <2>1, FS_Subset, FS_CardinalityType DEF Extractable
<1>10. ASSUME NEW c \in Semantic!Clusters(ms, taken) PROVE c \subseteq ms /\ MinSize <= Cardinality(c)
  <2> HIDE DEF n, rest
  <2>1. QED  BY <1>3, <1>4, <1>7, <1>8, <1>9 DEF Extractable
<1>11. ASSUME NEW c \in Semantic!Clusters(ms, taken), NEW d \in Semantic!Clusters(ms, taken), c # d
       PROVE  c \cap d = {}
  <2> HIDE DEF n, rest
  <2>1. QED  BY <1>6, <1>7, <1>8, <1>11
<1>12. QED  BY <1>10, <1>11

\* So are the clusters of all users, each of one user.
LEMMA OwnApart ==
    ASSUME Extractable, SemTypes, NEW own \in Semantic!OfUsers
    PROVE  /\ IsFiniteSet(own)
           /\ \A c \in own : /\ c \subseteq Semantic!Eligible /\ c \subseteq Extracted /\ MinSize <= Cardinality(c)
                             /\ \A m, o \in c : Said[m] = Said[o]
           /\ \A c, d \in own : c # d => c \cap d = {}
<1> DEFINE us == {Said[m] : m \in Semantic!Eligible}
           of(u) == {m \in Semantic!Eligible : Said[m] = u}
<1>1. Semantic!Eligible \subseteq Extracted
  BY DEF Semantic!Eligible, Semantic!Stored, SemTypes
<1>2. PICK w : /\ own = UNION Range(w) /\ DOMAIN w = us
               /\ \A u \in us : w[u] \in Semantic!Ways(u)
  BY SemOperators DEF Semantic!OfUsers
<1>3. ASSUME NEW u \in us
      PROVE  /\ \A c \in w[u] : c \subseteq of(u) /\ MinSize <= Cardinality(c)
             /\ \A c, d \in w[u] : c # d => c \cap d = {}
  <2>1. w[u] \in Semantic!Ways(u)
    BY <1>2, <1>3
  <2>2. PICK words \in Semantic!Orders(of(u)) :
          \E taken \in Semantic!Entities(of(u), words) : w[u] = Semantic!Clusters(of(u), taken)
    BY <2>1 DEF Semantic!Ways
  <2>3. PICK taken \in Semantic!Entities(of(u), words) : w[u] = Semantic!Clusters(of(u), taken)
    BY <2>2
  <2>4. of(u) \in SUBSET Extracted
    BY <1>1
  <2> HIDE DEF of
  <2>5. QED  BY <2>3, <2>4, ClustersApart
<1>4. \A c \in own : \E u \in us : c \in w[u]
  BY <1>2 DEF Range
<1>5. ASSUME NEW c \in own
      PROVE  /\ c \subseteq Semantic!Eligible /\ c \subseteq Extracted /\ MinSize <= Cardinality(c)
             /\ \A m, o \in c : Said[m] = Said[o]
  <2>1. PICK u \in us : c \in w[u]
    BY <1>4
  <2>2. c \subseteq of(u) /\ MinSize <= Cardinality(c)
    BY <1>3, <2>1
  <2>3. QED  BY <1>1, <2>2
<1>6. ASSUME NEW c \in own, NEW d \in own, c # d PROVE c \cap d = {}
  <2>1. PICK u \in us : c \in w[u]
    BY <1>4
  <2>2. PICK v \in us : d \in w[v]
    BY <1>4
  <2>3. CASE u = v
    BY <1>3, <1>6, <2>1, <2>2, <2>3
  <2>4. CASE u # v
    <3>1. c \subseteq of(u) /\ d \subseteq of(v)
      BY <1>3, <2>1, <2>2
    <3>2. QED  BY <2>4, <3>1
  <2>5. QED  BY <2>3, <2>4
<1>7. IsFiniteSet(own)
  <2>1. IsFiniteSet(SUBSET Extracted)
    BY FS_SUBSET DEF Extractable
  <2>2. own \in SUBSET (SUBSET Extracted)
    BY <1>5
  <2>3. QED  BY <2>1, <2>2, FS_Subset
<1>8. QED  BY <1>5, <1>6, <1>7

\* What is cut of a cluster is a cluster of its memories.
LEMMA CutOf ==
    ASSUME Extractable, NEW c \in SUBSET Extracted, MinSize <= Cardinality(c),
           \A m, o \in c : Said[m] = Said[o], NEW t \in Semantic!Cut(c)
    PROVE  Cluster(t) /\ Range(t) \subseteq c
<1>1. PICK n \in Nat : n = Cardinality(c)
  BY FS_Subset, FS_CardinalityType DEF Extractable
<1>2. PICK s \in [1 .. n -> c] : t = SubSeq(s, 1, Semantic!Most(Len(s), MaxPerCluster))
  BY <1>1, SemOperators DEF Semantic!Cut
<1>3. s \in Seq(c) /\ Len(s) = n
  BY <1>2
<1>4. PICK k \in Nat : k = Semantic!Most(n, MaxPerCluster) /\ k <= n /\ MinSize <= k /\ k <= MaxPerCluster
  BY <1>1 DEF Semantic!Most, Extractable
<1>5. t \in Seq(c) /\ Len(t) = k
  <2>1. \A i \in 1 .. k : s[i] \in c
    BY <1>2, <1>4
  <2>2. t = SubSeq(s, 1, k) /\ k \in Int /\ 1 <= k
    BY <1>2, <1>3, <1>4 DEF Extractable
  <2>3. QED  BY <2>1, <2>2, SubSeqProperties
<1>6. DOMAIN t = 1 .. k /\ \A i \in 1 .. k : t[i] \in c
  BY <1>5, LenProperties, ElementOfSeq
<1>7. t \in Seq(Extracted)
  <2>1. \A i \in 1 .. Len(t) : t[i] \in Extracted
    BY <1>5, <1>6
  <2>2. QED  BY <1>5, <2>1
<1>8. QED  BY <1>4, <1>5, <1>6, <1>7 DEF Cluster, Range

\* A job takes clusters that share no memory, of eligible memories.
LEMMA TakenApart ==
    ASSUME Extractable, SemTypes, NEW own \in Semantic!OfUsers, NEW cs \in Semantic!Cuts(own),
           NEW pick \in [DOMAIN cs -> UNION {Semantic!Cut(c) : c \in Semantic!Range(cs)}],
           \A i \in DOMAIN cs : pick[i] \in Semantic!Cut(cs[i]), NEW taken,
           taken = SubSeq(pick, 1, Semantic!Most(Len(pick), MaxClusters))
    PROVE  ClusterList(taken) /\ \A k \in DOMAIN taken : Range(taken[k]) \subseteq Semantic!Eligible
<1>1. PICK n \in Nat : n = Cardinality(own)
  BY OwnApart, FS_CardinalityType
<1>2. cs \in [1 .. n -> own] /\ \A i, k \in 1 .. n : cs[i] = cs[k] => i = k
  BY <1>1, SemOperators DEF Semantic!Cuts
<1>3. \A i \in 1 .. n : Cluster(pick[i]) /\ Range(pick[i]) \subseteq cs[i] /\ cs[i] \subseteq Semantic!Eligible
  <2> SUFFICES ASSUME NEW i \in 1 .. n
               PROVE  Cluster(pick[i]) /\ Range(pick[i]) \subseteq cs[i] /\ cs[i] \subseteq Semantic!Eligible
    OBVIOUS
  <2>1. PICK c \in own : c = cs[i] /\ pick[i] \in Semantic!Cut(c)
    BY <1>2
  <2>2. c \in SUBSET Extracted /\ MinSize <= Cardinality(c) /\ (\A m, o \in c : Said[m] = Said[o])
        /\ c \subseteq Semantic!Eligible
    BY OwnApart
  <2>3. QED  BY <2>1, <2>2, CutOf
<1>4. \A i, k \in 1 .. n : i # k => Range(pick[i]) \cap Range(pick[k]) = {}
  <2> SUFFICES ASSUME NEW i \in 1 .. n, NEW k \in 1 .. n, i # k
               PROVE  Range(pick[i]) \cap Range(pick[k]) = {}
    OBVIOUS
  <2>1. cs[i] # cs[k] /\ cs[i] \in own /\ cs[k] \in own
    BY <1>2
  <2>2. cs[i] \cap cs[k] = {}
    BY <2>1, OwnApart
  <2>3. QED  BY <1>3, <2>2
<1>5. DOMAIN pick = 1 .. n /\ Len(pick) = n /\ \A i \in 1 .. n : pick[i] \in Seq(Extracted)
  BY <1>2, <1>3 DEF Cluster
<1>6. PICK k \in Nat : k = Semantic!Most(n, MaxClusters) /\ k <= n
  BY DEF Semantic!Most, Extractable
<1>7. /\ taken \in Seq(Seq(Extracted)) /\ Len(taken) = k
      /\ \A i \in 1 .. k : taken[i] = pick[i]
  <2>1. \A i \in 1 .. k : pick[i] \in Seq(Extracted)
    BY <1>5, <1>6
  <2>2. taken = SubSeq(pick, 1, k)
    BY <1>5, <1>6
  <2>3. /\ SubSeq(pick, 1, k) \in Seq(Seq(Extracted))
        /\ Len(SubSeq(pick, 1, k)) = (IF 1 <= k THEN k - 1 + 1 ELSE 0)
        /\ \A i \in 1 .. k - 1 + 1 : SubSeq(pick, 1, k)[i] = pick[1 + i - 1]
    <3>1. 1 \in Int /\ k \in Int
      OBVIOUS
    <3>2. QED  BY <2>1, <3>1, SubSeqProperties
  <2>4. Len(taken) = k
    <3>1. PICK n1 : n1 = Len(taken)
      OBVIOUS
    <3>2. n1 = IF 1 <= k THEN k - 1 + 1 ELSE 0
      BY <2>2, <2>3, <3>1, Zenon
    <3>3. k \in Nat
      BY <1>6
    <3>4. (IF 1 <= k THEN k - 1 + 1 ELSE 0) = k
      BY <3>3
    <3>5. QED  BY <3>1, <3>2, <3>4
  <2>5. \A i \in 1 .. k : i \in 1 .. k - 1 + 1 /\ 1 + i - 1 = i
    OBVIOUS
  <2>6. QED  BY <2>2, <2>3, <2>4, <2>5
<1>8. DOMAIN taken = 1 .. k /\ \A i \in 1 .. k : i \in 1 .. n
  BY <1>6, <1>7, LenProperties
<1>9. QED  BY <1>3, <1>4, <1>7, <1>8 DEF ClusterList

-----------------------------------------------------------------------------
(* A job's step.                                                             *)

\* What a job holds.
LEMMA HeldByJob ==
    ASSUME SemTypes, NEW j \in Extractions, NEW m
    PROVE  m \in Semantic!Holds(j) <=> InJob(extraction[j], m)
<1>1. JobRight(extraction[j])
  BY DEF SemTypes
<1>2. PICK x : x = extraction[j]
  OBVIOUS
<1>3. m \in UNION {Range(c) : c \in Range(x.clusters)} <=> \E k \in DOMAIN x.clusters : m \in Range(x.clusters[k])
  <2>1. \A c : c \in Range(x.clusters) <=> \E k \in DOMAIN x.clusters : c = x.clusters[k]
    BY DEF Range
  <2>2. QED  BY <2>1
<1>4. m \in UNION {Range(r.from) : r \in Range(x.results)} <=> \E k \in DOMAIN x.results : m \in Range(x.results[k].from)
  <2>1. \A r : r \in Range(x.results) <=> \E k \in DOMAIN x.results : r = x.results[k]
    BY DEF Range
  <2>2. QED  BY <2>1
<1>5. Semantic!Holds(j) = (UNION {Range(c) : c \in Range(x.clusters)}) \cup Range(x.left)
                          \cup (UNION {Range(r.from) : r \in Range(x.results)})
  BY <1>2, SemOperators DEF Semantic!Holds, Semantic!Sources
<1>6. QED  BY <1>2, <1>3, <1>4, <1>5 DEF InJob, ToSumUp

\* The jobs are finitely many.
LEMMA Counts ==
    ASSUME Extractable, SemTypes, NEW m
    PROVE  /\ IsFiniteSet(AheadOf(m)) /\ IsFiniteSet(HeldBy(m)) /\ IsFiniteSet(Summaries(m))
           /\ Cardinality(AheadOf(m)) \in Nat /\ Cardinality(HeldBy(m)) \in Nat /\ Cardinality(Summaries(m)) \in Nat
<1>1. IsFiniteSet(Extractions) /\ AheadOf(m) \in SUBSET Extractions /\ HeldBy(m) \in SUBSET Extractions
  BY DEF Extractable, AheadOf, HeldBy
<1>2. IsFiniteSet(1 .. Len(sums)) /\ Summaries(m) \in SUBSET (1 .. Len(sums))
  <2>1. Len(sums) \in Nat /\ DOMAIN sums = 1 .. Len(sums)
    BY LenProperties DEF SemTypes
  <2>2. QED  BY <2>1, FS_Interval DEF Summaries
<1>3. IsFiniteSet(AheadOf(m)) /\ IsFiniteSet(HeldBy(m)) /\ IsFiniteSet(Summaries(m))
  BY <1>1, <1>2, FS_Subset
<1>4. QED  BY <1>3, FS_CardinalityType

\* When a job becomes x, a memory's count of jobs changes by this job.
LEMMA OneJob ==
    ASSUME Extractable, SemTypes, NEW j \in Extractions, NEW x, extraction' = [extraction EXCEPT ![j] = x], NEW m
    PROVE  /\ \A i \in Extractions : extraction'[i] = IF i = j THEN x ELSE extraction[i]
           /\ Cardinality(AheadOf(m))' + (IF ToSumUp(extraction[j], m) THEN 1 ELSE 0)
                = Cardinality(AheadOf(m)) + (IF ToSumUp(x, m) THEN 1 ELSE 0)
           /\ HeldBy(m)' = IF InJob(x, m) THEN HeldBy(m) \cup {j} ELSE HeldBy(m) \ {j}
           /\ Cardinality(AheadOf(m))' \in Nat
<1>1. \A i \in Extractions : extraction'[i] = IF i = j THEN x ELSE extraction[i]
  BY DEF SemTypes
<1>2. AheadOf(m)' = IF ToSumUp(x, m) THEN AheadOf(m) \cup {j} ELSE AheadOf(m) \ {j}
  <2>1. AheadOf(m)' = {i \in Extractions : ToSumUp(extraction'[i], m)}
    BY DEF AheadOf, ToSumUp
  <2>2. AheadOf(m) = {i \in Extractions : ToSumUp(extraction[i], m)}
    BY DEF AheadOf
  <2>3. QED  BY <1>1, <2>1, <2>2
<1>3. HeldBy(m)' = IF InJob(x, m) THEN HeldBy(m) \cup {j} ELSE HeldBy(m) \ {j}
  <2>1. HeldBy(m)' = {i \in Extractions : InJob(extraction'[i], m)}
    BY DEF HeldBy, InJob, ToSumUp
  <2>2. HeldBy(m) = {i \in Extractions : InJob(extraction[i], m)}
    BY DEF HeldBy
  <2>3. QED  BY <1>1, <2>1, <2>2
<1>4. j \in AheadOf(m) <=> ToSumUp(extraction[j], m)
  BY DEF AheadOf
<1>5. PICK A : A = AheadOf(m) /\ IsFiniteSet(A) /\ Cardinality(A) \in Nat
  BY Counts
<1>6. PICK B : B = AheadOf(m)'
  OBVIOUS
<1>7. /\ Cardinality(A \cup {j}) = IF j \in A THEN Cardinality(A) ELSE Cardinality(A) + 1
      /\ Cardinality(A \ {j}) = IF j \in A THEN Cardinality(A) - 1 ELSE Cardinality(A)
      /\ IsFiniteSet(A \cup {j}) /\ IsFiniteSet(A \ {j})
  BY <1>5, FS_AddElement, FS_RemoveElement
<1>8. B = IF ToSumUp(x, m) THEN A \cup {j} ELSE A \ {j}
  BY <1>2, <1>5, <1>6
<1>9. Cardinality(B) + (IF j \in A THEN 1 ELSE 0) = Cardinality(A) + (IF ToSumUp(x, m) THEN 1 ELSE 0)
  BY <1>5, <1>7, <1>8
<1>10. Cardinality(B) \in Nat
  BY <1>7, <1>8, FS_CardinalityType
<1>11. Cardinality(AheadOf(m))' = Cardinality(B)
  BY <1>6
<1>12. QED  BY <1>1, <1>3, <1>4, <1>5, <1>9, <1>10, <1>11

\* A step of a job keeps the account of a memory that it settles rightly: (1) each time
\* it is summed up or read again has its excuse, (2) it is not let go of unmarked
\* without one.
LEMMA JobKeepsAccount ==
    ASSUME Extractable, SemInv, NEW j \in Extractions, NEW x, extraction' = [extraction EXCEPT ![j] = x],
           NEW m \in Extracted, Cardinality(Summaries(m))' \in Nat, excuses'[m] \in Nat,
           Unmarked(m)' => Unmarked(m),
           \/ Cardinality(Summaries(m))' + (IF ToSumUp(x, m) THEN 1 ELSE 0) + excuses[m]
                <= Cardinality(Summaries(m)) + (IF ToSumUp(extraction[j], m) THEN 1 ELSE 0) + excuses'[m]
           \/ Unmarked(m) /\ HeldBy(m) = {} /\ Cardinality(Summaries(m))' = Cardinality(Summaries(m)) /\ excuses'[m] = excuses[m],
           \/ ~Unmarked(m)'
           \/ InJob(x, m)
           \/ /\ ~InJob(extraction[j], m) /\ Cardinality(Summaries(m))' = Cardinality(Summaries(m)) /\ excuses'[m] = excuses[m]
           \/ Cardinality(Summaries(m))' + excuses[m] + 1
                <= Cardinality(Summaries(m)) + (IF ToSumUp(extraction[j], m) THEN 1 ELSE 0) + excuses'[m]
    PROVE  /\ Cardinality(Summaries(m))' + Cardinality(AheadOf(m))' <= 1 + excuses'[m]
           /\ Unmarked(m)' /\ HeldBy(m)' = {} => Cardinality(Summaries(m))' <= excuses'[m]
<1> DEFINE s == Cardinality(Summaries(m))
           t == Cardinality(Summaries(m))'
           a == Cardinality(AheadOf(m))
           b == Cardinality(AheadOf(m))'
           e == excuses[m]
           f == excuses'[m]
           p == IF ToSumUp(extraction[j], m) THEN 1 ELSE 0
           q == IF ToSumUp(x, m) THEN 1 ELSE 0
<1>1. SemTypes /\ Accounted
  BY DEF SemInv
<1>2. s \in Nat /\ t \in Nat /\ a \in Nat /\ b \in Nat /\ e \in Nat /\ f \in Nat /\ p \in 0 .. 1 /\ q \in 0 .. 1
  BY <1>1, Counts, OneJob DEF SemTypes
<1>3. b + p = a + q /\ HeldBy(m)' = (IF InJob(x, m) THEN HeldBy(m) \cup {j} ELSE HeldBy(m) \ {j})
  BY <1>1, OneJob
<1>4. s + a <= 1 + e /\ (Unmarked(m) /\ HeldBy(m) = {} => s <= e)
  BY <1>1 DEF Accounted
<1>5. HeldBy(m) = {} => a = 0 /\ p = 0
  <2> SUFFICES ASSUME HeldBy(m) = {} PROVE AheadOf(m) = {} /\ ~ToSumUp(extraction[j], m)
    BY FS_EmptySet
  <2>1. QED  BY DEF HeldBy, AheadOf, InJob
<1>6. j \in HeldBy(m) <=> InJob(extraction[j], m)
  BY DEF HeldBy
<1>7. \/ t + q + e <= s + p + f
      \/ Unmarked(m) /\ HeldBy(m) = {} /\ t = s /\ f = e
  OBVIOUS
<1>8. \/ ~Unmarked(m)'
      \/ InJob(x, m)
      \/ ~InJob(extraction[j], m) /\ t = s /\ f = e
      \/ t + e + 1 <= s + p + f
  OBVIOUS
<1>9. (HeldBy(m) \ {j} = {} /\ ~InJob(extraction[j], m)) => HeldBy(m) = {}
  BY <1>6
<1>10. (HeldBy(m)' = {}) => ~InJob(x, m) /\ HeldBy(m) \ {j} = {}
  BY <1>3
<1>11. HeldBy(m) \ {j} = {} => a = p
  <2> SUFFICES ASSUME HeldBy(m) \ {j} = {} PROVE a = p
    OBVIOUS
  <2>1. AheadOf(m) = IF ToSumUp(extraction[j], m) THEN {j} ELSE {}
    BY DEF HeldBy, AheadOf, InJob
  <2>2. QED  BY <2>1, FS_EmptySet, FS_Singleton
<1>12. Unmarked(m)' => Unmarked(m)
  OBVIOUS
<1> HIDE DEF s, t, a, b, e, f, p, q
<1>13. t + b <= 1 + f
  BY <1>2, <1>3, <1>4, <1>5, <1>7
<1>14. ASSUME Unmarked(m)', HeldBy(m)' = {} PROVE t <= f
  <2>1. ~InJob(x, m) /\ HeldBy(m) \ {j} = {} /\ a = p
    BY <1>10, <1>11, <1>14
  <2>2. CASE ~InJob(extraction[j], m) /\ t = s /\ f = e
    BY <1>2, <1>4, <1>9, <1>12, <1>14, <2>1, <2>2
  <2>3. CASE t + e + 1 <= s + p + f
    BY <1>2, <1>4, <2>1, <2>3
  <2>4. QED  BY <1>8, <1>14, <2>1, <2>2, <2>3
<1>15. QED  BY <1>13, <1>14 DEF t, b, f

\* A summary stored is counted for its sources.
LEMMA SummedUp ==
    ASSUME Extractable, SemTypes, NEW r \in Summed, Cluster(r.from), sums' = Append(sums, r), NEW m
    PROVE  /\ Cardinality(Summaries(m))' = Cardinality(Summaries(m)) + (IF m \in Range(r.from) THEN 1 ELSE 0)
           /\ sums' \in Seq(Summed) /\ \A i \in DOMAIN sums' : Cluster(sums'[i].from)
<1>1. /\ Append(sums, r) \in Seq(Summed) /\ Len(Append(sums, r)) = Len(sums) + 1 /\ Append(sums, r)[Len(sums) + 1] = r
      /\ \A i \in 1 .. Len(sums) : Append(sums, r)[i] = sums[i]
  BY AppendProperties DEF SemTypes
<1>2. PICK z : z = sums'
  OBVIOUS
<1>3. PICK n \in Nat : n = Len(sums) /\ DOMAIN sums = 1 .. n
  BY LenProperties DEF SemTypes
<1>4. z \in Seq(Summed) /\ DOMAIN z = 1 .. (n + 1) /\ z[n + 1] = r /\ \A i \in 1 .. n : z[i] = sums[i]
  BY <1>1, <1>2, <1>3, LenProperties
<1>5. \A i \in 1 .. (n + 1) : i \in 1 .. n \/ i = n + 1
  BY <1>3
<1>6. \A i \in DOMAIN z : Cluster(z[i].from)
  BY <1>3, <1>4, <1>5 DEF SemTypes
<1>7. {i \in DOMAIN z : m \in Range(z[i].from)}
        = IF m \in Range(r.from) THEN Summaries(m) \cup {n + 1} ELSE Summaries(m)
  BY <1>3, <1>4, <1>5 DEF Summaries
<1>8. Summaries(m)' = {i \in DOMAIN z : m \in Range(z[i].from)}
  BY <1>2 DEF Summaries
<1>9. n + 1 \notin Summaries(m)
  BY <1>3 DEF Summaries
<1>10. PICK S : S = Summaries(m) /\ IsFiniteSet(S) /\ Cardinality(S) \in Nat
  BY Counts
<1>11. Cardinality(S \cup {n + 1}) = Cardinality(S) + 1
  BY <1>9, <1>10, FS_AddElement
<1>12. PICK T : T = Summaries(m)'
  OBVIOUS
<1>13. Cardinality(T) = Cardinality(S) + (IF m \in Range(r.from) THEN 1 ELSE 0)
  <2>1. T = IF m \in Range(r.from) THEN S \cup {n + 1} ELSE S
    BY <1>7, <1>8, <1>10, <1>12
  <2>2. CASE m \in Range(r.from)
    BY <1>11, <2>1, <2>2
  <2>3. CASE m \notin Range(r.from)
    BY <1>10, <2>1, <2>3
  <2>4. QED  BY <2>2, <2>3
<1>14. QED  BY <1>2, <1>4, <1>6, <1>10, <1>12, <1>13

\* A job that has nothing left is idle again; that changes nothing of what it holds.
LEMMA SettledJob ==
    ASSUME NEW x, x = [at |-> "keep", clusters |-> <<>>, results |-> x.results, left |-> x.left],
           TextList(x.results), x.left \in Seq(Extracted)
    PROVE  /\ JobRight(Semantic!Settled(x))
           /\ \A m : ToSumUp(Semantic!Settled(x), m) <=> \E k \in DOMAIN x.results : m \in Range(x.results[k].from)
           /\ \A m : InJob(Semantic!Settled(x), m) <=>
                        \/ \E k \in DOMAIN x.results : m \in Range(x.results[k].from)
                        \/ m \in Range(x.left)
<1>1. ClusterList(<<>>) /\ TextList(<<>>) /\ <<>> \in Seq(Extracted) /\ DOMAIN <<>> = {} /\ Range(<<>>) = {}
  BY DEF ClusterList, TextList, Range
<1>2. x.at = "keep" /\ x.clusters = <<>>
  OBVIOUS
<1>3. CASE x.results = <<>> /\ x.left = <<>>
  <2>1. PICK y : y = Semantic!Settled(x)
    OBVIOUS
  <2>2. y = [at |-> "idle", clusters |-> <<>>, results |-> <<>>, left |-> <<>>]
    BY <1>3, <2>1 DEF Semantic!Settled, Semantic!NoJob
  <2>3. y.at = "idle" /\ y.clusters = <<>> /\ y.results = <<>> /\ y.left = <<>>
    BY <2>2
  <2>4. JobRight(y)
    BY <1>1, <2>2, <2>3 DEF JobRight
  <2>5. QED  BY <1>1, <1>3, <2>1, <2>3, <2>4 DEF ToSumUp, InJob
<1>4. CASE ~(x.results = <<>> /\ x.left = <<>>)
  <2>1. Semantic!Settled(x) = x
    BY <1>4 DEF Semantic!Settled
  <2>2. JobRight(x)
    BY <1>1, <1>2, <1>4 DEF JobRight
  <2>3. QED  BY <1>1, <1>2, <2>1, <2>2 DEF ToSumUp, InJob
<1>5. QED  BY <1>3, <1>4

-----------------------------------------------------------------------------
(* The steps.                                                                *)

LEMMA ReadKeeps == ASSUME Extractable, SemInv, NEW j \in Extractions, Semantic!Read(j) PROVE SemInv'
<1>1. SemTypes /\ Accounted /\ JobRight(extraction[j])
  BY DEF SemInv, SemTypes
<1>2. PICK own \in Semantic!OfUsers : \E cs \in Semantic!Cuts(own) :
        /\ cs # <<>>
        /\ \E pick \in [DOMAIN cs -> UNION {Semantic!Cut(c) : c \in Semantic!Range(cs)}] :
             /\ \A i \in DOMAIN cs : pick[i] \in Semantic!Cut(cs[i])
             /\ LET taken == SubSeq(pick, 1, Semantic!Most(Len(pick), MaxClusters)) IN
                  /\ extraction' = [extraction EXCEPT ![j] = [Semantic!NoJob EXCEPT !.at = "ask", !.clusters = taken]]
                  /\ excuses' = [m \in Extracted |-> excuses[m] +
                       IF m \in Semantic!Sources(taken)
                       THEN Semantic!Cardinality({k \in Extractions \ {j} : m \in Semantic!Holds(k)}) ELSE 0]
  BY DEF Semantic!Read
<1>3. PICK cs \in Semantic!Cuts(own) :
        \E pick \in [DOMAIN cs -> UNION {Semantic!Cut(c) : c \in Semantic!Range(cs)}] :
             /\ \A i \in DOMAIN cs : pick[i] \in Semantic!Cut(cs[i])
             /\ LET taken == SubSeq(pick, 1, Semantic!Most(Len(pick), MaxClusters)) IN
                  /\ extraction' = [extraction EXCEPT ![j] = [Semantic!NoJob EXCEPT !.at = "ask", !.clusters = taken]]
                  /\ excuses' = [m \in Extracted |-> excuses[m] +
                       IF m \in Semantic!Sources(taken)
                       THEN Semantic!Cardinality({k \in Extractions \ {j} : m \in Semantic!Holds(k)}) ELSE 0]
  BY <1>2
<1>4. PICK pick \in [DOMAIN cs -> UNION {Semantic!Cut(c) : c \in Semantic!Range(cs)}] :
             /\ \A i \in DOMAIN cs : pick[i] \in Semantic!Cut(cs[i])
             /\ LET taken == SubSeq(pick, 1, Semantic!Most(Len(pick), MaxClusters)) IN
                  /\ extraction' = [extraction EXCEPT ![j] = [Semantic!NoJob EXCEPT !.at = "ask", !.clusters = taken]]
                  /\ excuses' = [m \in Extracted |-> excuses[m] +
                       IF m \in Semantic!Sources(taken)
                       THEN Semantic!Cardinality({k \in Extractions \ {j} : m \in Semantic!Holds(k)}) ELSE 0]
  BY <1>3
<1>5. PICK taken : taken = SubSeq(pick, 1, Semantic!Most(Len(pick), MaxClusters))
  OBVIOUS
<1>6. ClusterList(taken) /\ \A k \in DOMAIN taken : Range(taken[k]) \subseteq Semantic!Eligible
  BY <1>1, <1>4, <1>5, TakenApart
<1>7. /\ extraction' = [extraction EXCEPT ![j] = [Semantic!NoJob EXCEPT !.at = "ask", !.clusters = taken]]
      /\ excuses' = [m \in Extracted |-> excuses[m] +
                       IF m \in Semantic!Sources(taken)
                       THEN Semantic!Cardinality({k \in Extractions \ {j} : m \in Semantic!Holds(k)}) ELSE 0]
  BY <1>4, <1>5, Zenon
<1>8. extraction[j].at = "idle" /\ stored' = stored /\ sums' = sums
  BY DEF Semantic!Read
<1>9. PICK x : x = [Semantic!NoJob EXCEPT !.at = "ask", !.clusters = taken]
  OBVIOUS
<1>10. /\ x = [at |-> "ask", clusters |-> taken, results |-> <<>>, left |-> <<>>]
       /\ x.at = "ask" /\ x.clusters = taken /\ x.results = <<>> /\ x.left = <<>>
  BY <1>9 DEF Semantic!NoJob
<1>11. JobRight(x)
  <2>1. TextList(<<>>)
    BY DEF TextList
  <2>2. QED  BY <1>6, <1>10, <2>1 DEF JobRight
<1>12. extraction' = [extraction EXCEPT ![j] = x]
  BY <1>7, <1>9
<1>13. \A m : ~InJob(extraction[j], m) /\ ~ToSumUp(extraction[j], m)
  <2>1. extraction[j].clusters = <<>> /\ extraction[j].results = <<>> /\ extraction[j].left = <<>>
    BY <1>1, <1>8 DEF JobRight
  <2>2. DOMAIN <<>> = {} /\ Range(<<>>) = {}
    BY DEF Range
  <2>3. QED  BY <2>1, <2>2 DEF InJob, ToSumUp
<1>14. \A m : ToSumUp(x, m) <=> \E k \in DOMAIN taken : m \in Range(taken[k])
  BY <1>10 DEF ToSumUp
<1>15. \A m : InJob(x, m) <=> ToSumUp(x, m)
  <2>1. Range(<<>>) = {}
    BY DEF Range
  <2>2. QED  BY <1>10, <2>1 DEF InJob
<1>16. \A m : m \in Semantic!Sources(taken) <=> ToSumUp(x, m)
  <2>1. \A c : c \in Range(taken) <=> \E k \in DOMAIN taken : c = taken[k]
    BY DEF Range
  <2>2. Semantic!Sources(taken) = UNION {Range(c) : c \in Range(taken)}
    BY SemOperators DEF Semantic!Sources
  <2>3. QED  BY <1>14, <2>1, <2>2
<1>17. \A m \in Extracted : {k \in Extractions \ {j} : m \in Semantic!Holds(k)} = HeldBy(m)
  BY <1>1, <1>13, HeldByJob DEF HeldBy
<1>18. \A m \in Extracted : excuses'[m] = excuses[m] + IF ToSumUp(x, m) THEN Cardinality(HeldBy(m)) ELSE 0
  <2> SUFFICES ASSUME NEW m \in Extracted
               PROVE  excuses'[m] = excuses[m] + IF ToSumUp(x, m) THEN Cardinality(HeldBy(m)) ELSE 0
    OBVIOUS
  <2>1. Semantic!Cardinality({k \in Extractions \ {j} : m \in Semantic!Holds(k)}) = Cardinality(HeldBy(m))
    BY <1>17, SemOperators, Zenon
  <2>2. QED  BY <1>7, <1>16, <2>1
<1>19. ASSUME NEW m \in Extracted PROVE excuses'[m] \in Nat /\ Unmarked(m)' = Unmarked(m)
  <2>1. Cardinality(HeldBy(m)) \in Nat /\ excuses[m] \in Nat
    BY <1>1, Counts DEF SemTypes
  <2>2. QED  BY <1>8, <1>18, <2>1 DEF Unmarked
<1>20. SemTypes'
  <2>1. excuses' \in [Extracted -> Nat]
    BY <1>7, <1>19
  <2>2. \A i \in Extractions : JobRight(extraction'[i])
    BY <1>1, <1>11, <1>12, OneJob DEF SemTypes
  <2>3. extraction' = [i \in Extractions |-> extraction'[i]]
    BY <1>1, <1>12 DEF SemTypes
  <2>4. (\A i \in Extractions : JobRight(extraction[i]))'
    BY <2>2 DEF JobRight, ClusterList, TextList, Cluster
  <2>5. (\A i \in DOMAIN sums : Cluster(sums[i].from))'
    BY <1>1, <1>8 DEF SemTypes, Cluster
  <2>6. QED  BY <1>1, <1>8, <2>1, <2>3, <2>4, <2>5 DEF SemTypes
<1>21. ASSUME NEW m \in Extracted
       PROVE  /\ Cardinality(Summaries(m))' + Cardinality(AheadOf(m))' <= 1 + excuses'[m]
              /\ Unmarked(m)' /\ HeldBy(m)' = {} => Cardinality(Summaries(m))' <= excuses'[m]
  <2>1. Cardinality(Summaries(m))' = Cardinality(Summaries(m)) /\ Cardinality(Summaries(m)) \in Nat
    BY <1>1, <1>8, Counts DEF Summaries
  <2>2. \/ Cardinality(Summaries(m)) + (IF ToSumUp(x, m) THEN 1 ELSE 0) + excuses[m]
             <= Cardinality(Summaries(m)) + (IF ToSumUp(extraction[j], m) THEN 1 ELSE 0) + excuses'[m]
        \/ Unmarked(m) /\ HeldBy(m) = {} /\ excuses'[m] = excuses[m]
    <3>0. excuses[m] \in Nat
      BY <1>1 DEF SemTypes
    <3>1. CASE ToSumUp(x, m)
      <4>1. Unmarked(m)
        BY <1>6, <1>14, <3>1 DEF Unmarked, Semantic!Eligible, Semantic!Stored
      <4>2. PICK h : h = Cardinality(HeldBy(m))
        OBVIOUS
      <4>3. h \in Nat /\ (h = 0 <=> HeldBy(m) = {})
        BY <1>1, <4>2, Counts, FS_EmptySet
      <4>4. excuses'[m] = excuses[m] + h
        BY <1>18, <3>1, <4>2
      <4>5. QED  BY <1>13, <2>1, <3>0, <3>1, <4>1, <4>3, <4>4
    <3>2. CASE ~ToSumUp(x, m)
      <4>1. excuses'[m] = excuses[m] + 0
        BY <1>18, <3>2
      <4>2. QED  BY <1>13, <2>1, <3>0, <3>2, <4>1
    <3>3. QED  BY <3>1, <3>2
  <2>3. InJob(x, m) \/ (~InJob(extraction[j], m) /\ excuses'[m] = excuses[m])
    <3>1. excuses[m] \in Nat
      BY <1>1 DEF SemTypes
    <3>2. QED  BY <1>13, <1>15, <1>18, <3>1
  <2>4. QED  BY <1>12, <1>19, <2>1, <2>2, <2>3, JobKeepsAccount
<1>22. Accounted'
  BY <1>21 DEF Accounted
<1>23. QED  BY <1>20, <1>22 DEF SemInv

\* What stays of the types when a job becomes x.
LEMMA TypesKept ==
    ASSUME SemTypes, NEW j \in Extractions, NEW x, JobRight(x), extraction' = [extraction EXCEPT ![j] = x],
           DOMAIN stored' \subseteq Extracted, stored' \in [DOMAIN stored' -> StoredRows],
           sums' \in Seq(Summed), \A i \in DOMAIN sums' : Cluster(sums'[i].from), excuses' \in [Extracted -> Nat]
    PROVE  SemTypes'
<1>1. \A i \in Extractions : JobRight(extraction'[i])
  BY DEF SemTypes
<1>2. extraction' = [i \in Extractions |-> extraction'[i]]
  BY DEF SemTypes
<1>3. (\A i \in Extractions : JobRight(extraction[i]))'
  BY <1>1 DEF JobRight, ClusterList, TextList, Cluster
<1>4. (\A i \in DOMAIN sums : Cluster(sums[i].from))'
  BY DEF Cluster
<1>5. QED  BY <1>2, <1>3, <1>4 DEF SemTypes

\* The same where the rows, summaries and excuses are left alone.
LEMMA JobTypesKept ==
    ASSUME SemTypes, NEW j \in Extractions, NEW x, JobRight(x), extraction' = [extraction EXCEPT ![j] = x],
           stored' = stored, sums' = sums, excuses' = excuses
    PROVE  SemTypes'
BY TypesKept DEF SemTypes

\* A job that lets clusters go, and takes no other.
LEMMA LessAhead ==
    ASSUME Extractable, SemInv, NEW j \in Extractions, NEW x, JobRight(x),
           extraction' = [extraction EXCEPT ![j] = x], stored' = stored, sums' = sums, excuses' = excuses,
           \A m : ToSumUp(x, m) => ToSumUp(extraction[j], m),
           \A m : InJob(extraction[j], m) => InJob(x, m) \/ (ToSumUp(extraction[j], m) /\ ~ToSumUp(x, m))
    PROVE  SemInv'
<1>1. SemTypes /\ Accounted
  BY DEF SemInv
<1>2. SemTypes'
  BY <1>1, JobTypesKept
<1>3. ASSUME NEW m \in Extracted
      PROVE  /\ Cardinality(Summaries(m))' + Cardinality(AheadOf(m))' <= 1 + excuses'[m]
             /\ Unmarked(m)' /\ HeldBy(m)' = {} => Cardinality(Summaries(m))' <= excuses'[m]
  <2>1. Cardinality(Summaries(m))' = Cardinality(Summaries(m)) /\ Cardinality(Summaries(m)) \in Nat
    BY <1>1, Counts DEF Summaries
  <2>2. excuses'[m] = excuses[m] /\ excuses[m] \in Nat
    BY <1>1 DEF SemTypes
  <2>3. Unmarked(m)' => Unmarked(m)
    BY DEF Unmarked
  <2>4. Cardinality(Summaries(m))' + (IF ToSumUp(x, m) THEN 1 ELSE 0) + excuses[m]
          <= Cardinality(Summaries(m)) + (IF ToSumUp(extraction[j], m) THEN 1 ELSE 0) + excuses'[m]
    BY <2>1, <2>2
  <2>5. \/ InJob(x, m) \/ ~InJob(extraction[j], m)
        \/ Cardinality(Summaries(m))' + excuses[m] + 1
             <= Cardinality(Summaries(m)) + (IF ToSumUp(extraction[j], m) THEN 1 ELSE 0) + excuses'[m]
    BY <2>1, <2>2
  <2>6. QED  BY <2>1, <2>2, <2>3, <2>4, <2>5, JobKeepsAccount
<1>4. QED  BY <1>2, <1>3 DEF SemInv, Accounted

\* The texts of an answer are for clusters the job asked about, each once.
LEMMA AnswerTexts ==
    ASSUME NEW cs, ClusterList(cs), NEW rs \in Semantic!Results(cs)
    PROVE  /\ TextList(rs)
           /\ \A k \in DOMAIN rs : \E i \in DOMAIN cs : rs[k].from = cs[i]
<1>1. PICK n \in Nat : n = Len(cs) /\ DOMAIN cs = 1 .. n
  BY LenProperties DEF ClusterList
<1>2. ASSUME NEW s \in Semantic!Batched(n)
      PROVE  \E k \in 0 .. n : s \in [1 .. k -> 1 .. n] /\ \A a, b \in 1 .. k : a < b => s[a] < s[b]
  BY DEF Semantic!Batched
<1>3. \E s \in Semantic!Batched(n) :
        \/ rs = [i \in DOMAIN s |-> Semantic!Result(cs, i, s[i])]
        \/ rs = [i \in DOMAIN s |-> Semantic!Result(cs, s[i], s[i])]
  BY <1>1 DEF Semantic!Results
<1>4. PICK s \in Semantic!Batched(n) :
        \/ rs = [i \in DOMAIN s |-> Semantic!Result(cs, i, s[i])]
        \/ rs = [i \in DOMAIN s |-> Semantic!Result(cs, s[i], s[i])]
  BY <1>3
<1>5. PICK k \in 0 .. n : s \in [1 .. k -> 1 .. n] /\ \A a, b \in 1 .. k : a < b => s[a] < s[b]
  BY <1>2
<1>6. PICK pos \in [1 .. k -> 1 .. n] :
        /\ \A a, b \in 1 .. k : a # b => pos[a] # pos[b]
        /\ rs = [i \in 1 .. k |-> [from |-> cs[pos[i]], of |-> cs[s[i]]]]
  <2>1. DOMAIN s = 1 .. k /\ k \in Nat /\ \A i \in 1 .. k : i \in 1 .. n
    BY <1>5
  <2>2. CASE rs = [i \in DOMAIN s |-> Semantic!Result(cs, i, s[i])]
    <3>1. [i \in 1 .. k |-> i] \in [1 .. k -> 1 .. n]
      BY <2>1
    <3>2. rs = [i \in 1 .. k |-> [from |-> cs[[l \in 1 .. k |-> l][i]], of |-> cs[s[i]]]]
      BY <2>1, <2>2 DEF Semantic!Result
    <3>3. \A a, b \in 1 .. k : a # b => [l \in 1 .. k |-> l][a] # [l \in 1 .. k |-> l][b]
      OBVIOUS
    <3>4. QED  BY <3>1, <3>2, <3>3
  <2>3. CASE rs = [i \in DOMAIN s |-> Semantic!Result(cs, s[i], s[i])]
    <3>1. rs = [i \in 1 .. k |-> [from |-> cs[s[i]], of |-> cs[s[i]]]]
      BY <2>1, <2>3 DEF Semantic!Result
    <3>2. ASSUME NEW a \in 1 .. k, NEW b \in 1 .. k, a # b PROVE s[a] # s[b]
      <4>1. a < b \/ b < a
        BY <2>1, <3>2
      <4>2. s[a] < s[b] \/ s[b] < s[a]
        BY <1>5, <4>1
      <4>3. s[a] \in 1 .. n /\ s[b] \in 1 .. n
        BY <1>5
      <4>4. QED  BY <4>2, <4>3
    <3>3. QED  BY <1>5, <3>1, <3>2
  <2>4. QED  BY <1>4, <2>2, <2>3
<1>7. \A i \in 1 .. n : cs[i] \in Seq(Extracted) /\ Cluster(cs[i])
  BY <1>1 DEF ClusterList, Cluster
<1>8. \A i \in 1 .. k : rs[i] \in Summed /\ Cluster(rs[i].from) /\ rs[i].from = cs[pos[i]] /\ pos[i] \in DOMAIN cs
  <2> SUFFICES ASSUME NEW i \in 1 .. k
               PROVE  rs[i] \in Summed /\ Cluster(rs[i].from) /\ rs[i].from = cs[pos[i]] /\ pos[i] \in DOMAIN cs
    OBVIOUS
  <2>1. rs[i] = [from |-> cs[pos[i]], of |-> cs[s[i]]] /\ pos[i] \in 1 .. n /\ s[i] \in 1 .. n
    BY <1>5, <1>6
  <2>2. QED  BY <1>1, <1>7, <2>1 DEF Summed
<1>9. rs \in Seq(Summed) /\ DOMAIN rs = 1 .. k
  <2>1. rs \in [1 .. k -> Summed] /\ k \in Nat
    BY <1>5, <1>6, <1>8
  <2>2. QED  BY <2>1
<1>10. \A a, b \in 1 .. k : a # b => Range(rs[a].from) \cap Range(rs[b].from) = {}
  <2> SUFFICES ASSUME NEW a \in 1 .. k, NEW b \in 1 .. k, a # b
               PROVE  Range(rs[a].from) \cap Range(rs[b].from) = {}
    OBVIOUS
  <2>1. pos[a] # pos[b] /\ pos[a] \in DOMAIN cs /\ pos[b] \in DOMAIN cs
    BY <1>6, <1>8
  <2>2. Range(cs[pos[a]]) \cap Range(cs[pos[b]]) = {}
    BY <2>1 DEF ClusterList
  <2>3. QED  BY <1>8, <2>2
<1>11. QED  BY <1>8, <1>9, <1>10 DEF TextList

LEMMA SemAnswerKeeps == ASSUME Extractable, SemInv, NEW j \in Extractions, Semantic!Answer(j) PROVE SemInv'
<1>1. SemTypes /\ JobRight(extraction[j]) /\ extraction[j].at = "ask"
  BY DEF SemInv, SemTypes, Semantic!Answer
<1>2. PICK rs \in Semantic!Results(extraction[j].clusters) :
        extraction' = [extraction EXCEPT ![j] = Semantic!Settled([Semantic!NoJob EXCEPT !.at = "keep", !.results = rs])]
  BY DEF Semantic!Answer
<1>3. PICK cs : cs = extraction[j].clusters /\ ClusterList(cs)
  BY <1>1 DEF JobRight
<1>4. TextList(rs) /\ \A k \in DOMAIN rs : \E i \in DOMAIN cs : rs[k].from = cs[i]
  BY <1>2, <1>3, AnswerTexts
<1>5. PICK x : x = [Semantic!NoJob EXCEPT !.at = "keep", !.results = rs]
  OBVIOUS
<1>6. /\ x = [at |-> "keep", clusters |-> <<>>, results |-> x.results, left |-> x.left]
      /\ x.results = rs /\ x.left = <<>> /\ <<>> \in Seq(Extracted) /\ Range(<<>>) = {}
  <2>1. x = [at |-> "keep", clusters |-> <<>>, results |-> rs, left |-> <<>>]
    BY <1>5 DEF Semantic!NoJob
  <2>2. Range(<<>>) = {} /\ <<>> \in Seq(Extracted)
    BY DEF Range
  <2>3. QED  BY <2>1, <2>2
<1>7. PICK y : y = Semantic!Settled(x)
  OBVIOUS
<1>8. /\ JobRight(y) /\ \A m : ToSumUp(y, m) <=> \E k \in DOMAIN rs : m \in Range(rs[k].from)
      /\ \A m : InJob(y, m) <=> ToSumUp(y, m)
  BY <1>4, <1>6, <1>7, SettledJob
<1>9. extraction' = [extraction EXCEPT ![j] = y]
  BY <1>2, <1>5, <1>7
<1>10. \A m : ToSumUp(y, m) => ToSumUp(extraction[j], m)
  BY <1>3, <1>4, <1>8 DEF ToSumUp
<1>11. \A m : InJob(extraction[j], m) => ToSumUp(extraction[j], m)
  <2>1. extraction[j].left = <<>> /\ Range(<<>>) = {}
    BY <1>1 DEF JobRight, Range
  <2>2. QED  BY <2>1 DEF InJob
<1>12. stored' = stored /\ sums' = sums /\ excuses' = excuses
  BY DEF Semantic!Answer
<1>13. QED  BY <1>8, <1>9, <1>10, <1>11, <1>12, LessAhead

\* The result a job keeps next, apart from the later ones.
LEMMA NextText ==
    ASSUME NEW rs, TextList(rs), rs # <<>>
    PROVE  /\ Head(rs) \in Summed /\ Cluster(Head(rs).from) /\ TextList(Tail(rs))
           /\ \A m : (\E k \in DOMAIN rs : m \in Range(rs[k].from)) <=>
                        \/ m \in Range(Head(rs).from)
                        \/ \E k \in DOMAIN Tail(rs) : m \in Range(Tail(rs)[k].from)
           /\ \A m : m \in Range(Head(rs).from) => ~ \E k \in DOMAIN Tail(rs) : m \in Range(Tail(rs)[k].from)
<1>1. /\ rs \in Seq(Summed) /\ Head(rs) = rs[1] /\ Head(rs) \in Summed /\ Tail(rs) \in Seq(Summed)
      /\ Len(Tail(rs)) = Len(rs) - 1 /\ \A i \in 1 .. Len(Tail(rs)) : Tail(rs)[i] = rs[i + 1]
  BY HeadTailProperties DEF TextList
<1>2. PICK n \in Nat : n = Len(rs) /\ n >= 1 /\ DOMAIN rs = 1 .. n
  <2>1. PICK n : n = Len(rs)
    OBVIOUS
  <2>2. n \in Nat \ {0} /\ DOMAIN rs = 1 .. n
    BY <1>1, <2>1, EmptySeq, LenProperties
  <2>3. n >= 1
    BY <2>2
  <2>4. QED  BY <2>1, <2>2, <2>3
<1>3. PICK z : z = Tail(rs)
  OBVIOUS
<1>4. z \in Seq(Summed) /\ DOMAIN z = 1 .. (n - 1) /\ \A i \in 1 .. (n - 1) : z[i] = rs[i + 1]
  BY <1>1, <1>2, <1>3, LenProperties
<1>5. /\ \A i \in 1 .. (n - 1) : i + 1 \in 1 .. n /\ i + 1 # 1
      /\ \A i \in 1 .. n : i = 1 \/ (i - 1 \in 1 .. (n - 1) /\ (i - 1) + 1 = i)
      /\ \A i, k \in 1 .. (n - 1) : i # k => i + 1 # k + 1
      /\ 1 \in 1 .. n
  BY <1>2
<1>6. \A k, l \in 1 .. n : k # l => Range(rs[k].from) \cap Range(rs[l].from) = {}
  BY <1>2 DEF TextList
<1>7. \A k \in 1 .. (n - 1) : Cluster(z[k].from)
  BY <1>2, <1>4, <1>5 DEF TextList
<1>8. ASSUME NEW k \in 1 .. (n - 1), NEW l \in 1 .. (n - 1), k # l
      PROVE  Range(z[k].from) \cap Range(z[l].from) = {}
  <2>1. z[k] = rs[k + 1] /\ z[l] = rs[l + 1] /\ k + 1 \in 1 .. n /\ l + 1 \in 1 .. n /\ k + 1 # l + 1
    BY <1>4, <1>5, <1>8
  <2>2. QED  BY <1>6, <2>1
<1>9. TextList(z)
  BY <1>4, <1>7, <1>8 DEF TextList
<1>10. Cluster(rs[1].from)
  BY <1>2, <1>5 DEF TextList
<1>11. ASSUME NEW m
       PROVE  (\E k \in 1 .. n : m \in Range(rs[k].from)) <=>
                 m \in Range(rs[1].from) \/ \E k \in 1 .. (n - 1) : m \in Range(z[k].from)
  <2>1. ASSUME NEW k \in 1 .. n, m \in Range(rs[k].from)
        PROVE  m \in Range(rs[1].from) \/ \E i \in 1 .. (n - 1) : m \in Range(z[i].from)
    <3>1. CASE k = 1
      BY <2>1, <3>1
    <3>2. CASE k # 1
      <4>1. k - 1 \in 1 .. (n - 1) /\ z[k - 1] = rs[k]
        BY <1>4, <1>5, <3>2
      <4>2. QED  BY <2>1, <4>1
    <3>3. QED  BY <3>1, <3>2
  <2>2. ASSUME NEW k \in 1 .. (n - 1), m \in Range(z[k].from) PROVE \E i \in 1 .. n : m \in Range(rs[i].from)
    <3>1. k + 1 \in 1 .. n /\ z[k] = rs[k + 1]
      BY <1>4, <1>5
    <3>2. QED  BY <2>2, <3>1
  <2>3. QED  BY <1>5, <2>1, <2>2
<1>12. ASSUME NEW m, m \in Range(rs[1].from), NEW k \in 1 .. (n - 1), m \in Range(z[k].from) PROVE FALSE
  <2>1. k + 1 \in 1 .. n /\ k + 1 # 1 /\ 1 \in 1 .. n /\ z[k] = rs[k + 1]
    BY <1>4, <1>5
  <2>2. Range(rs[1].from) \cap Range(rs[k + 1].from) = {}
    BY <1>6, <2>1
  <2>3. QED  BY <1>12, <2>1, <2>2
<1>13. QED  BY <1>1, <1>2, <1>3, <1>4, <1>9, <1>10, <1>11, <1>12

LEMMA KeepKeeps == ASSUME Extractable, SemInv, NEW j \in Extractions, Semantic!Keep(j) PROVE SemInv'
<1>1. SemTypes /\ Accounted /\ JobRight(extraction[j]) /\ extraction[j].at = "keep" /\ extraction[j].left = <<>>
  BY DEF SemInv, SemTypes, Semantic!Keep
<1>2. PICK rs : rs = extraction[j].results
  OBVIOUS
<1>3. TextList(rs) /\ rs # <<>> /\ extraction[j].clusters = <<>> /\ <<>> \in Seq(Extracted) /\ Range(<<>>) = {}
      /\ DOMAIN <<>> = {}
  <2>1. TextList(rs) /\ rs # <<>> /\ extraction[j].clusters = <<>>
    BY <1>1, <1>2 DEF JobRight
  <2>2. QED  BY <2>1 DEF Range
<1>4. PICK r : r = Head(rs)
  OBVIOUS
<1>5. PICK zs : zs = Tail(rs)
  OBVIOUS
<1>6. /\ r \in Summed /\ Cluster(r.from) /\ TextList(zs)
      /\ \A m : (\E k \in DOMAIN rs : m \in Range(rs[k].from)) <=>
                   m \in Range(r.from) \/ \E k \in DOMAIN zs : m \in Range(zs[k].from)
      /\ \A m : m \in Range(r.from) => ~ \E k \in DOMAIN zs : m \in Range(zs[k].from)
  BY <1>3, <1>4, <1>5, NextText
<1>7. PICK rest : rest = [extraction[j] EXCEPT !.results = zs]
  OBVIOUS
<1>8. rest = [at |-> "keep", clusters |-> <<>>, results |-> zs, left |-> <<>>]
  BY <1>1, <1>3, <1>7 DEF JobRight
<1>9. /\ stored' = stored /\ excuses' = excuses
      /\ \/ sums' = Append(sums, r) /\ extraction' = [extraction EXCEPT ![j] = [rest EXCEPT !.left = r.from]]
         \/ extraction' = [extraction EXCEPT ![j] = Semantic!Settled(rest)] /\ sums' = sums
  BY <1>2, <1>4, <1>5, <1>7 DEF Semantic!Keep
<1>10. /\ \A m : ToSumUp(extraction[j], m) <=> \E k \in DOMAIN rs : m \in Range(rs[k].from)
       /\ \A m : InJob(extraction[j], m) <=> ToSumUp(extraction[j], m)
  BY <1>1, <1>2, <1>3 DEF ToSumUp, InJob
<1>11. CASE extraction' = [extraction EXCEPT ![j] = Semantic!Settled(rest)] /\ sums' = sums
  <2>1. PICK y : y = Semantic!Settled(rest)
    OBVIOUS
  <2>2. rest = [at |-> "keep", clusters |-> <<>>, results |-> rest.results, left |-> rest.left]
        /\ rest.results = zs /\ rest.left = <<>>
    BY <1>8
  <2>3. /\ JobRight(y) /\ \A m : ToSumUp(y, m) <=> \E k \in DOMAIN zs : m \in Range(zs[k].from)
        /\ \A m : InJob(y, m) <=> ToSumUp(y, m)
    BY <1>3, <1>6, <2>1, <2>2, SettledJob
  <2>4. extraction' = [extraction EXCEPT ![j] = y]
    BY <1>11, <2>1
  <2>5. \A m : ToSumUp(y, m) => ToSumUp(extraction[j], m)
    BY <1>6, <1>10, <2>3
  <2>6. \A m : InJob(extraction[j], m) => InJob(y, m) \/ (ToSumUp(extraction[j], m) /\ ~ToSumUp(y, m))
    BY <1>10, <2>3
  <2>7. QED  BY <1>9, <1>11, <2>3, <2>4, <2>5, <2>6, LessAhead
<1>12. CASE sums' = Append(sums, r) /\ extraction' = [extraction EXCEPT ![j] = [rest EXCEPT !.left = r.from]]
  <2>1. PICK y : y = [rest EXCEPT !.left = r.from]
    OBVIOUS
  <2>2. y = [at |-> "keep", clusters |-> <<>>, results |-> zs, left |-> r.from]
    BY <1>8, <2>1
  <2>3. y.at = "keep" /\ y.clusters = <<>> /\ y.results = zs /\ y.left = r.from
    BY <2>2
  <2>4. r.from \in Seq(Extracted) /\ r.from # <<>>
    <3>1. r.from \in Seq(Extracted) /\ MinSize <= Len(r.from)
      BY <1>6 DEF Cluster
    <3>2. Len(r.from) # 0
      BY <3>1, LenProperties DEF Extractable
    <3>3. QED  BY <3>1, <3>2, EmptySeq
  <2>5. JobRight(y)
    <3>1. ClusterList(<<>>)
      BY <1>3 DEF ClusterList
    <3>2. QED  BY <1>6, <2>2, <2>3, <2>4, <3>1 DEF JobRight
  <2>6. /\ \A m : ToSumUp(y, m) <=> \E k \in DOMAIN zs : m \in Range(zs[k].from)
        /\ \A m : InJob(y, m) <=> ToSumUp(y, m) \/ m \in Range(r.from)
    BY <1>3, <2>3 DEF ToSumUp, InJob
  <2>7. extraction' = [extraction EXCEPT ![j] = y]
    BY <1>12, <2>1
  <2>8. /\ sums' \in Seq(Summed) /\ \A i \in DOMAIN sums' : Cluster(sums'[i].from)
        /\ \A m : Cardinality(Summaries(m))' = Cardinality(Summaries(m)) + (IF m \in Range(r.from) THEN 1 ELSE 0)
    BY <1>1, <1>6, <1>12, SummedUp
  <2>9. SemTypes'
    <3>1. DOMAIN stored' \subseteq Extracted /\ stored' \in [DOMAIN stored' -> StoredRows] /\ excuses' \in [Extracted -> Nat]
      BY <1>1, <1>9 DEF SemTypes
    <3>2. QED  BY <1>1, <2>5, <2>7, <2>8, <3>1, TypesKept
  <2>10. ASSUME NEW m \in Extracted
         PROVE  /\ Cardinality(Summaries(m))' + Cardinality(AheadOf(m))' <= 1 + excuses'[m]
                /\ Unmarked(m)' /\ HeldBy(m)' = {} => Cardinality(Summaries(m))' <= excuses'[m]
    <3>1. Cardinality(Summaries(m)) \in Nat /\ excuses'[m] = excuses[m] /\ excuses[m] \in Nat
      BY <1>1, <1>9, Counts DEF SemTypes
    <3>2. Cardinality(Summaries(m))' = Cardinality(Summaries(m)) + (IF m \in Range(r.from) THEN 1 ELSE 0)
      BY <2>8
    <3>3. Cardinality(Summaries(m))' \in Nat
      BY <3>1, <3>2
    <3>4. Unmarked(m)' => Unmarked(m)
      BY <1>9 DEF Unmarked
    <3>5. /\ m \in Range(r.from) => ToSumUp(extraction[j], m) /\ ~ToSumUp(y, m)
          /\ m \notin Range(r.from) => (ToSumUp(extraction[j], m) <=> ToSumUp(y, m))
      BY <1>6, <1>10, <2>6
    <3>6. Cardinality(Summaries(m))' + (IF ToSumUp(y, m) THEN 1 ELSE 0) + excuses[m]
            <= Cardinality(Summaries(m)) + (IF ToSumUp(extraction[j], m) THEN 1 ELSE 0) + excuses'[m]
      BY <3>1, <3>2, <3>5
    <3>7. InJob(y, m) \/ (~InJob(extraction[j], m) /\ Cardinality(Summaries(m))' = Cardinality(Summaries(m)))
      BY <1>10, <2>6, <3>1, <3>2, <3>5
    <3>8. QED  BY <2>7, <3>1, <3>3, <3>4, <3>6, <3>7, JobKeepsAccount
  <2>11. QED  BY <2>9, <2>10 DEF SemInv, Accounted
<1>13. QED  BY <1>9, <1>11, <1>12

LEMMA MarkKeeps == ASSUME Extractable, SemInv, NEW j \in Extractions, Semantic!Mark(j) PROVE SemInv'
<1>1. SemTypes /\ Accounted /\ JobRight(extraction[j]) /\ extraction[j].left # <<>>
  BY DEF SemInv, SemTypes, Semantic!Mark
<1>2. extraction[j].at = "keep" /\ extraction[j].clusters = <<>> /\ TextList(extraction[j].results)
      /\ extraction[j].left \in Seq(Extracted)
  BY <1>1 DEF JobRight
<1>3. PICK q : q = extraction[j].left /\ q \in Seq(Extracted) /\ q # <<>>
  BY <1>1, <1>2
<1>4. PICK o \in Extracted : o = Head(q)
  BY <1>3, HeadTailProperties
<1>5. PICK z \in Seq(Extracted) : z = Tail(q)
  BY <1>3, HeadTailProperties
<1>6. Range(q) = Range(z) \cup {o}
  <2>1. /\ Len(z) = Len(q) - 1 /\ o = q[1] /\ \A i \in 1 .. Len(z) : z[i] = q[i + 1]
    BY <1>3, <1>4, <1>5, HeadTailProperties
  <2>2. PICK n \in Nat : n = Len(q) /\ n # 0 /\ DOMAIN q = 1 .. n
    BY <1>3, EmptySeq, LenProperties
  <2>3. DOMAIN z = 1 .. (n - 1) /\ \A i \in 1 .. (n - 1) : z[i] = q[i + 1]
    BY <2>1, <2>2, LenProperties
  <2>4. /\ \A i \in 1 .. (n - 1) : i + 1 \in 1 .. n
        /\ \A i \in 1 .. n : i = 1 \/ (i - 1 \in 1 .. (n - 1) /\ (i - 1) + 1 = i)
        /\ 1 \in 1 .. n
    BY <2>2
  <2>5. Range(q) = {q[i] : i \in 1 .. n} /\ Range(z) = {z[i] : i \in 1 .. (n - 1)}
    BY <2>2, <2>3 DEF Range
  <2>6. ASSUME NEW v \in Range(q) PROVE v \in Range(z) \cup {o}
    <3>1. PICK i \in 1 .. n : v = q[i]
      BY <2>5
    <3>2. CASE i = 1
      BY <2>1, <3>1, <3>2
    <3>3. CASE i # 1
      <4>1. i - 1 \in 1 .. (n - 1) /\ z[i - 1] = q[i]
        BY <2>3, <2>4, <3>3
      <4>2. QED  BY <2>5, <3>1, <4>1
    <3>4. QED  BY <3>2, <3>3
  <2>7. ASSUME NEW v \in Range(z) \cup {o} PROVE v \in Range(q)
    <3>1. CASE v = o
      BY <2>1, <2>4, <2>5, <3>1
    <3>2. CASE v \in Range(z)
      <4>1. PICK i \in 1 .. (n - 1) : v = z[i]
        BY <2>5, <3>2
      <4>2. v = q[i + 1] /\ i + 1 \in 1 .. n
        BY <2>3, <2>4, <4>1
      <4>3. QED  BY <2>5, <4>2
    <3>3. QED  BY <3>1, <3>2, <2>7
  <2>8. QED  BY <2>6, <2>7
<1>7. PICK x : x = [extraction[j] EXCEPT !.left = z]
  OBVIOUS
<1>8. /\ x = [at |-> "keep", clusters |-> <<>>, results |-> x.results, left |-> x.left]
      /\ x.results = extraction[j].results /\ x.left = z
  <2>1. x = [at |-> "keep", clusters |-> <<>>, results |-> extraction[j].results, left |-> z]
    BY <1>1, <1>2, <1>7 DEF JobRight
  <2>2. QED  BY <2>1
<1>9. PICK y : y = Semantic!Settled(x)
  OBVIOUS
<1>10. /\ JobRight(y)
       /\ \A m : ToSumUp(y, m) <=> \E k \in DOMAIN extraction[j].results : m \in Range(extraction[j].results[k].from)
       /\ \A m : InJob(y, m) <=> ToSumUp(y, m) \/ m \in Range(z)
  BY <1>2, <1>8, <1>9, SettledJob
<1>11. /\ \A m : ToSumUp(extraction[j], m) <=> ToSumUp(y, m)
       /\ \A m : InJob(extraction[j], m) <=> InJob(y, m) \/ m = o
  <2>1. \A m : ToSumUp(extraction[j], m) <=>
             \E k \in DOMAIN extraction[j].results : m \in Range(extraction[j].results[k].from)
    <3>1. DOMAIN <<>> = {}
      OBVIOUS
    <3>2. QED  BY <1>2, <3>1 DEF ToSumUp
  <2>2. QED  BY <1>3, <1>6, <1>10, <2>1 DEF InJob
<1>12. /\ sums' = sums /\ extraction' = [extraction EXCEPT ![j] = y]
       /\ \/ /\ stored' = [n \in DOMAIN stored |-> IF n = o THEN [layer |-> "episodic", done |-> TRUE] ELSE stored[n]]
             /\ excuses' = excuses
          \/ excuses' = [excuses EXCEPT ![o] = @ + 1] /\ stored' = stored
  <2>1. /\ sums' = sums
        /\ \/ /\ stored' = [n \in DOMAIN stored |-> IF n = o THEN [layer |-> "episodic", done |-> TRUE] ELSE stored[n]]
              /\ excuses' = excuses
           \/ excuses' = [excuses EXCEPT ![o] = @ + 1] /\ stored' = stored
    BY <1>3, <1>4 DEF Semantic!Mark, Semantic!Stored
  <2>2. extraction' = [extraction EXCEPT ![j] = Semantic!Settled([extraction[j] EXCEPT !.left = Tail(extraction[j].left)])]
    BY DEF Semantic!Mark
  <2>3. Semantic!Settled([extraction[j] EXCEPT !.left = Tail(extraction[j].left)]) = y
    BY <1>3, <1>5, <1>7, <1>9
  <2>4. QED  BY <2>1, <2>2, <2>3
<1>13. /\ DOMAIN stored' \subseteq Extracted /\ stored' \in [DOMAIN stored' -> StoredRows]
       /\ excuses' \in [Extracted -> Nat]
       /\ \A m : Unmarked(m)' => Unmarked(m)
       /\ \A m \in Extracted : m # o => excuses'[m] = excuses[m]
       /\ (~Unmarked(o)' /\ excuses'[o] = excuses[o]) \/ excuses'[o] = excuses[o] + 1
  <2>1. CASE /\ stored' = [n \in DOMAIN stored |-> IF n = o THEN [layer |-> "episodic", done |-> TRUE] ELSE stored[n]]
             /\ excuses' = excuses
    BY <1>1, <2>1 DEF SemTypes, StoredRows, Unmarked
  <2>2. CASE excuses' = [excuses EXCEPT ![o] = @ + 1] /\ stored' = stored
    BY <1>1, <2>2 DEF SemTypes, Unmarked
  <2>3. QED  BY <1>12, <2>1, <2>2
<1>14. SemTypes'
  <2>1. sums' \in Seq(Summed) /\ \A i \in DOMAIN sums' : Cluster(sums'[i].from)
    BY <1>1, <1>12 DEF SemTypes
  <2>2. QED  BY <1>1, <1>10, <1>12, <1>13, <2>1, TypesKept
<1>15. ASSUME NEW m \in Extracted
       PROVE  /\ Cardinality(Summaries(m))' + Cardinality(AheadOf(m))' <= 1 + excuses'[m]
              /\ Unmarked(m)' /\ HeldBy(m)' = {} => Cardinality(Summaries(m))' <= excuses'[m]
  <2>1. /\ Cardinality(Summaries(m))' = Cardinality(Summaries(m)) /\ Cardinality(Summaries(m)) \in Nat
        /\ excuses[m] \in Nat /\ excuses'[m] \in Nat
    BY <1>1, <1>12, <1>13, Counts DEF Summaries, SemTypes
  <2>2. excuses[m] <= excuses'[m]
    BY <1>13, <2>1
  <2>3. Unmarked(m)' => Unmarked(m)
    BY <1>13
  <2>4. Cardinality(Summaries(m))' + (IF ToSumUp(y, m) THEN 1 ELSE 0) + excuses[m]
          <= Cardinality(Summaries(m)) + (IF ToSumUp(extraction[j], m) THEN 1 ELSE 0) + excuses'[m]
    BY <1>11, <2>1, <2>2
  <2>5. \/ ~Unmarked(m)' \/ InJob(y, m)
        \/ ~InJob(extraction[j], m) /\ excuses'[m] = excuses[m]
        \/ Cardinality(Summaries(m))' + excuses[m] + 1
             <= Cardinality(Summaries(m)) + (IF ToSumUp(extraction[j], m) THEN 1 ELSE 0) + excuses'[m]
    <3>1. CASE m = o
      BY <1>13, <2>1, <3>1
    <3>2. CASE m # o
      BY <1>11, <1>13, <3>2
    <3>3. QED  BY <3>1, <3>2
  <2>6. QED  BY <1>12, <2>1, <2>3, <2>4, <2>5, JobKeepsAccount
<1>16. QED  BY <1>14, <1>15 DEF SemInv, Accounted

\* Where no job, summary or excuse changes and no mark is lost, nothing does.
LEMMA RowsOnly ==
    ASSUME Extractable, SemInv, UNCHANGED <<extraction, sums, excuses>>,
           DOMAIN stored' \subseteq Extracted, stored' \in [DOMAIN stored' -> StoredRows],
           \A m : Unmarked(m)' => Unmarked(m)
    PROVE  SemInv'
<1>1. SemTypes /\ Accounted
  BY DEF SemInv
<1>2. SemTypes'
  <2>1. extraction' = extraction /\ \A i \in Extractions : JobRight(extraction'[i])
    BY <1>1 DEF SemTypes
  <2>2. (\A i \in Extractions : JobRight(extraction[i]))'
    BY <2>1 DEF JobRight, ClusterList, TextList, Cluster
  <2>3. (\A i \in DOMAIN sums : Cluster(sums[i].from))'
    BY <1>1 DEF SemTypes, Cluster
  <2>4. QED  BY <1>1, <2>1, <2>2, <2>3 DEF SemTypes
<1>3. \A m : Summaries(m)' = Summaries(m) /\ AheadOf(m)' = AheadOf(m) /\ HeldBy(m)' = HeldBy(m)
  BY DEF Summaries, AheadOf, HeldBy, InJob, ToSumUp
<1>4. \A m : Cardinality(Summaries(m))' = Cardinality(Summaries(m)) /\ Cardinality(AheadOf(m))' = Cardinality(AheadOf(m))
  BY <1>3
<1>5. Accounted'
  BY <1>1, <1>3, <1>4 DEF Accounted
<1>6. QED  BY <1>2, <1>5 DEF SemInv

LEMMA PromoteKeeps == ASSUME Extractable, SemInv, NEW m \in Extracted, Semantic!Promote(m) PROVE SemInv'
<1>1. SemTypes /\ m \in DOMAIN stored
  BY DEF SemInv, Semantic!Promote, Semantic!May, Semantic!Stored
<1>2. stored' = [stored EXCEPT ![m].layer = "semantic"] /\ UNCHANGED <<extraction, sums, excuses>>
  BY DEF Semantic!Promote
<1>3. stored[m] \in StoredRows
  BY <1>1 DEF SemTypes
<1>4. DOMAIN stored' = DOMAIN stored /\ stored' \in [DOMAIN stored -> StoredRows]
      /\ \A n \in DOMAIN stored : stored'[n].done = stored[n].done
  BY <1>1, <1>2, <1>3 DEF SemTypes, StoredRows
<1>5. \A n : Unmarked(n)' => Unmarked(n)
  BY <1>4 DEF Unmarked
<1>6. DOMAIN stored' \subseteq Extracted /\ stored' \in [DOMAIN stored' -> StoredRows]
  BY <1>1, <1>4 DEF SemTypes
<1>7. QED  BY <1>2, <1>5, <1>6, RowsOnly

LEMMA DeletedKeeps == ASSUME Extractable, SemInv, NEW m \in Extracted, Semantic!Delete(m) PROVE SemInv'
<1>1. SemTypes
  BY DEF SemInv
<1>2. stored' = [n \in DOMAIN stored \ {m} |-> stored[n]] /\ UNCHANGED <<extraction, sums, excuses>>
  BY DEF Semantic!Delete, Semantic!Stored
<1>3. DOMAIN stored' \subseteq Extracted /\ stored' \in [DOMAIN stored' -> StoredRows]
  BY <1>1, <1>2 DEF SemTypes
<1>4. \A n : Unmarked(n)' => Unmarked(n)
  BY <1>2 DEF Unmarked
<1>5. QED  BY <1>2, <1>3, <1>4, RowsOnly

\* The bot ends: what a job held without having marked it may be summed up again.
LEMMA SemCrashKeeps == ASSUME Extractable, SemInv, Semantic!Crash PROVE SemInv'
<1>1. SemTypes /\ Accounted
  BY DEF SemInv
<1>2. /\ stored' = stored /\ sums' = sums /\ extraction' = [j \in Extractions |-> Semantic!NoJob]
      /\ excuses' = [m \in Extracted |-> excuses[m] + Semantic!Cardinality({j \in Extractions : m \in Semantic!Holds(j)})]
  BY DEF Semantic!Crash
<1>3. \A m \in Extracted : {j \in Extractions : m \in Semantic!Holds(j)} = HeldBy(m)
  BY <1>1, HeldByJob DEF HeldBy
<1>4. ASSUME NEW m \in Extracted PROVE excuses'[m] = excuses[m] + Cardinality(HeldBy(m))
  <2>1. Semantic!Cardinality({j \in Extractions : m \in Semantic!Holds(j)}) = Cardinality(HeldBy(m))
    BY <1>3, SemOperators, Zenon
  <2>2. QED  BY <1>2, <2>1
<1>5. PICK x : x = Semantic!NoJob
  OBVIOUS
<1>6. JobRight(x) /\ \A m : ~ToSumUp(x, m)
  <2>1. x = [at |-> "idle", clusters |-> <<>>, results |-> <<>>, left |-> <<>>]
    BY <1>5 DEF Semantic!NoJob
  <2>2. x.at = "idle" /\ x.clusters = <<>> /\ x.results = <<>> /\ x.left = <<>> /\ DOMAIN <<>> = {}
    BY <2>1
  <2>3. ClusterList(<<>>) /\ TextList(<<>>) /\ <<>> \in Seq(Extracted)
    BY DEF ClusterList, TextList
  <2>4. QED  BY <2>1, <2>2, <2>3 DEF JobRight, ToSumUp
<1>7. \A j \in Extractions : extraction'[j] = x
  BY <1>2, <1>5
<1>8. SemTypes'
  <2>1. \A j \in Extractions : JobRight(extraction'[j])
    BY <1>6, <1>7
  <2>2. (\A j \in Extractions : JobRight(extraction[j]))'
    BY <2>1 DEF JobRight, ClusterList, TextList, Cluster
  <2>3. (\A i \in DOMAIN sums : Cluster(sums[i].from))'
    BY <1>1, <1>2 DEF SemTypes, Cluster
  <2>4. excuses' \in [Extracted -> Nat]
    <3>1. \A m \in Extracted : excuses'[m] \in Nat
      BY <1>1, <1>4, Counts DEF SemTypes
    <3>2. QED  BY <1>2, <3>1
  <2>5. extraction' = [j \in Extractions |-> extraction'[j]]
    BY <1>2
  <2>6. QED  BY <1>1, <1>2, <2>2, <2>3, <2>4, <2>5 DEF SemTypes
<1>9. ASSUME NEW m \in Extracted
      PROVE  /\ Cardinality(Summaries(m))' + Cardinality(AheadOf(m))' <= 1 + excuses'[m]
             /\ Unmarked(m)' /\ HeldBy(m)' = {} => Cardinality(Summaries(m))' <= excuses'[m]
  <2>1. PICK s \in Nat : s = Cardinality(Summaries(m)) /\ s = Cardinality(Summaries(m))'
    BY <1>1, <1>2, Counts DEF Summaries
  <2>2. PICK h \in Nat : h = Cardinality(HeldBy(m)) /\ (h = 0 => HeldBy(m) = {}) /\ excuses'[m] = excuses[m] + h
    BY <1>1, <1>4, Counts, FS_EmptySet
  <2>3. Cardinality(AheadOf(m))' = 0
    <3>1. AheadOf(m)' = {j \in Extractions : ToSumUp(extraction'[j], m)}
      BY DEF AheadOf, ToSumUp
    <3>2. AheadOf(m)' = {}
      BY <1>6, <1>7, <3>1
    <3>3. QED  BY <3>2, FS_EmptySet
  <2>4. PICK a \in Nat : a = Cardinality(AheadOf(m))
    BY <1>1, Counts
  <2>5. s + a <= 1 + excuses[m] /\ (Unmarked(m) /\ HeldBy(m) = {} => s <= excuses[m]) /\ excuses[m] \in Nat
    BY <1>1, <2>1, <2>4 DEF Accounted, SemTypes
  <2>6. Unmarked(m)' => Unmarked(m)
    BY <1>2 DEF Unmarked
  <2>7. s <= 1 + excuses'[m] /\ (Unmarked(m) => s <= excuses'[m])
    <3>1. CASE h = 0
      BY <2>1, <2>2, <2>4, <2>5, <3>1
    <3>2. CASE h # 0
      BY <2>1, <2>2, <2>4, <2>5, <3>2
    <3>3. QED  BY <3>1, <3>2
  <2>8. QED  BY <2>1, <2>2, <2>3, <2>5, <2>6, <2>7
<1>10. QED  BY <1>8, <1>9 DEF SemInv, Accounted

LEMMA SemInitInv == ASSUME Extractable, Semantic!Init PROVE SemInv
<1>1. /\ stored = [m \in Extracted |-> [layer |-> "episodic", done |-> FALSE]]
      /\ extraction = [j \in Extractions |-> Semantic!NoJob] /\ sums = <<>>
      /\ excuses = [m \in Extracted |-> 0]
  BY DEF Semantic!Init
<1>2. PICK x : x = Semantic!NoJob
  OBVIOUS
<1>3. JobRight(x) /\ \A m : ~ToSumUp(x, m)
  <2>1. x = [at |-> "idle", clusters |-> <<>>, results |-> <<>>, left |-> <<>>]
    BY <1>2 DEF Semantic!NoJob
  <2>2. x.at = "idle" /\ x.clusters = <<>> /\ x.results = <<>> /\ x.left = <<>> /\ DOMAIN <<>> = {}
    BY <2>1
  <2>3. ClusterList(<<>>) /\ TextList(<<>>) /\ <<>> \in Seq(Extracted)
    BY DEF ClusterList, TextList
  <2>4. QED  BY <2>1, <2>2, <2>3 DEF JobRight, ToSumUp
<1>4. \A j \in Extractions : extraction[j] = x
  BY <1>1, <1>2
<1>5. SemTypes
  <2>1. DOMAIN stored \subseteq Extracted /\ stored \in [DOMAIN stored -> StoredRows] /\ excuses \in [Extracted -> Nat]
    BY <1>1 DEF StoredRows
  <2>2. sums \in Seq(Summed) /\ \A i \in DOMAIN sums : Cluster(sums[i].from)
    BY <1>1
  <2>3. extraction = [j \in Extractions |-> extraction[j]]
    BY <1>1
  <2>4. QED  BY <1>3, <1>4, <2>1, <2>2, <2>3 DEF SemTypes
<1>6. \A m \in Extracted : Summaries(m) = {} /\ AheadOf(m) = {} /\ excuses[m] = 0
  BY <1>1, <1>3, <1>4 DEF Summaries, AheadOf
<1>7. ASSUME NEW m \in Extracted
      PROVE  /\ Cardinality(Summaries(m)) + Cardinality(AheadOf(m)) <= 1 + excuses[m]
             /\ Cardinality(Summaries(m)) <= excuses[m]
  <2>1. Cardinality(Summaries(m)) = 0 /\ Cardinality(AheadOf(m)) = 0 /\ excuses[m] = 0
    BY <1>6, FS_EmptySet
  <2>2. QED  BY <2>1
<1>8. QED  BY <1>5, <1>7 DEF SemInv, Accounted

LEMMA SemStepInv == ASSUME Extractable, SemInv, [Semantic!Next]_(Semantic!vars) PROVE SemInv'
<1>1. ASSUME NEW j \in Extractions, Semantic!Read(j) \/ Semantic!Answer(j) \/ Semantic!Keep(j) \/ Semantic!Mark(j)
      PROVE  SemInv'
  BY <1>1, ReadKeeps, SemAnswerKeeps, KeepKeeps, MarkKeeps
<1>2. ASSUME NEW m \in Extracted, Semantic!Promote(m) \/ Semantic!Delete(m) PROVE SemInv'
  BY <1>2, PromoteKeeps, DeletedKeeps
<1>3. CASE Semantic!Crash
  BY <1>3, SemCrashKeeps
<1>4. CASE UNCHANGED Semantic!vars
  <2>1. UNCHANGED <<extraction, sums, excuses>> /\ stored' = stored
    BY <1>4 DEF Semantic!vars
  <2>2. \A m : Unmarked(m)' => Unmarked(m)
    BY <2>1 DEF Unmarked
  <2>3. DOMAIN stored' \subseteq Extracted /\ stored' \in [DOMAIN stored' -> StoredRows]
    BY <2>1 DEF SemInv, SemTypes
  <2>4. QED  BY <2>1, <2>2, <2>3, RowsOnly
<1>5. QED  BY <1>1, <1>2, <1>3, <1>4 DEF Semantic!Next

\* The invariant says what the runs check.
LEMMA SemSound == ASSUME Extractable, SemInv PROVE Semantic!ExtractionSound
<1>1. SemTypes /\ Accounted
  BY DEF SemInv
<1>2. Semantic!SummedOnce
  <2> SUFFICES ASSUME NEW m \in Extracted
               PROVE  Semantic!Cardinality({i \in DOMAIN sums : m \in Semantic!Range(sums[i].from)}) <= 1 + excuses[m]
    BY DEF Semantic!SummedOnce
  <2>1. {i \in DOMAIN sums : m \in Semantic!Range(sums[i].from)} = Summaries(m)
    BY SemOperators DEF Summaries
  <2>2. Cardinality(Summaries(m)) <= 1 + excuses[m]
    <3>1. Cardinality(Summaries(m)) \in Nat /\ Cardinality(AheadOf(m)) \in Nat /\ excuses[m] \in Nat
      BY <1>1, Counts DEF SemTypes
    <3>2. Cardinality(Summaries(m)) + Cardinality(AheadOf(m)) <= 1 + excuses[m]
      BY <1>1 DEF Accounted
    <3>3. QED  BY <3>1, <3>2
  <2>3. QED  BY <2>1, <2>2, SemOperators
<1>3. Semantic!OneUser
  BY <1>1 DEF Semantic!OneUser, SemTypes, Cluster
<1>4. Semantic!Disjoint
  <2> SUFFICES ASSUME NEW j \in Extractions, NEW k \in DOMAIN extraction[j].clusters,
                      NEW l \in DOMAIN extraction[j].clusters, k # l
               PROVE  Semantic!Range(extraction[j].clusters[k]) \cap Semantic!Range(extraction[j].clusters[l]) = {}
    BY DEF Semantic!Disjoint
  <2>1. ClusterList(extraction[j].clusters)
    BY <1>1 DEF SemTypes, JobRight
  <2>2. QED  BY <2>1, SemOperators DEF ClusterList
<1>5. QED  BY <1>2, <1>3, <1>4 DEF Semantic!ExtractionSound

\* Unless a mark failed, a job overlapped another or the bot ended before it, a memory is
\* the source of one summary; a summary is of one user, of enough memories and of no
\* more than fit, and a job's clusters share no memory (semantic_clustering.py,
\* semantic_extractor.py).
THEOREM ExtractsRight == ASSUME Extractable PROVE Semantic!Spec => []Semantic!ExtractionSound
<1>1. Semantic!Init => SemInv
  BY SemInitInv
<1>2. SemInv /\ [Semantic!Next]_(Semantic!vars) => SemInv'
  BY SemStepInv
<1>3. SemInv => Semantic!ExtractionSound
  BY SemSound
<1>4. QED  BY <1>1, <1>2, <1>3, PTL DEF Semantic!Spec

-----------------------------------------------------------------------------
(* The bench and its components.                                           *)

\* A run of the bench is a run of each of its components.
LEMMA StorageRuns ==
    StorageSpec =>
      /\ Spec /\ GraphSpec /\ Mig!Spec /\ Vec!Spec
      /\ Hist!Spec /\ Conf!Spec /\ Activ!Spec /\ Cch!Spec
      /\ Ses!Spec /\ Checks!Spec /\ Persist!Spec /\ Jobs!Spec
      /\ Semantic!Spec /\ Upg!Spec /\ Start!Spec
<1>1. StorageInit =>
          /\ Init /\ GraphInit /\ Mig!Init /\ Vec!Init
          /\ Hist!Init /\ Conf!Init /\ Activ!Init /\ Cch!Init
          /\ Ses!Init /\ Checks!Init /\ Persist!Init /\ Jobs!Init
          /\ Semantic!Init /\ Upg!Init /\ Start!Init
  BY DEF StorageInit
<1>2. [StorageNext]_storageVars =>
          /\ [Next]_(vars) /\ [GraphNext]_(graphVars) /\ [Mig!Next]_(Mig!vars) /\ [Vec!Next]_(Vec!vars)
          /\ [Hist!Next]_(Hist!vars) /\ [Conf!Next]_(Conf!vars) /\ [Activ!Next]_(Activ!vars) /\ [Cch!Next]_(Cch!vars)
          /\ [Ses!Next]_(Ses!vars) /\ [Checks!Next]_(Checks!vars) /\ [Persist!Next]_(Persist!vars) /\ [Jobs!Next]_(Jobs!vars)
          /\ [Semantic!Next]_(Semantic!vars) /\ [Upg!Next]_(Upg!vars) /\ [Start!Next]_(Start!vars)
  <2>1. ASSUME StorageNext
        PROVE  /\ [Next]_(vars) /\ [GraphNext]_(graphVars) /\ [Mig!Next]_(Mig!vars) /\ [Vec!Next]_(Vec!vars)
               /\ [Hist!Next]_(Hist!vars) /\ [Conf!Next]_(Conf!vars) /\ [Activ!Next]_(Activ!vars) /\ [Cch!Next]_(Cch!vars)
               /\ [Ses!Next]_(Ses!vars) /\ [Checks!Next]_(Checks!vars) /\ [Persist!Next]_(Persist!vars) /\ [Jobs!Next]_(Jobs!vars)
               /\ [Semantic!Next]_(Semantic!vars) /\ [Upg!Next]_(Upg!vars) /\ [Start!Next]_(Start!vars)
    BY <2>1 DEF StorageNext, Others, vars, graphVars, Mig!vars, Vec!vars, Hist!vars,
      Conf!vars, Activ!vars, Cch!vars, Ses!vars, Checks!vars, Persist!vars,
      Jobs!vars, Semantic!vars, Upg!vars, Start!vars, KgStep, LifeStep, CchStep,
      HistStep, MigStep, ChecksStep, SemanticStep, SesStep, StartStep, UpgStep,
      ConfStep, ActivStep, JobsStep, PersistStep, VecStep
  <2>2. CASE UNCHANGED storageVars
    BY <2>2 DEF storageVars
  <2>3. QED  BY <2>1, <2>2
<1>3. QED  BY <1>1, <1>2, PTL DEF StorageSpec, Spec, GraphSpec, Mig!Spec, Vec!Spec,
  Hist!Spec, Conf!Spec, Activ!Spec, Cch!Spec, Ses!Spec, Checks!Spec, Persist!Spec,
  Jobs!Spec, Semantic!Spec, Upg!Spec, Start!Spec

-----------------------------------------------------------------------------
(* What the run of the bench checks, for every value of its constants.       *)

\* A life of a memory: the properties of LifecycleSound, in the bench.
THEOREM LifecycleIsSound == StorageSpec => []LifecycleSound
BY StorageRuns, Sound, PTL

\* An edge has its nodes, a person is one node and what is forgotten stays so but for
\* what was in flight; a private fact is nobody else's; what a report finds is there, and what
\* it misses was cut off by a cap or changed between its two reads.
THEOREM KnowledgeGraphIsSound == StorageSpec => []KnowledgeGraphSound
<1>1. Checks!Spec => []Checks!ChecksSound
  BY ReportsRight, StorageAssumption DEF Searchable
<1>2. GraphSound /\ PrivateFactsStayPrivate /\ Checks!ChecksSound => KnowledgeGraphSound
  BY DEF KnowledgeGraphSound
<1>3. QED  BY <1>1, <1>2, StorageRuns, GraphIsSound, PrivateStays, PTL

\* Caches answer with what was last set, keep the order of last use and a lower bound of
\* the counts, and sessions and histories keep their order and limits.
THEOREM CachesAreSound == StorageSpec => []CachesSound
<1>1. Ses!Spec => []Ses!SessionsInOrder
  BY SessionsRight, StorageAssumption
<1>2. Hist!Spec => []Hist!ChatHistorySound
  BY HistoriesRight, StorageAssumption
<1>3. Cch!CachesSound /\ Ses!SessionsInOrder /\ Hist!ChatHistorySound => CachesSound
  BY DEF CachesSound
<1>4. QED  BY <1>1, <1>2, <1>3, StorageRuns, CachesRight, PTL

\* A collection goes only after its backup, every loss is accounted for and dimensions
\* never mix, over any crashes and starts.
THEOREM MigrationIsSound == StorageSpec => MigrationSound
<1>1. Mig!Spec => Mig!MigrationSound
  BY Migrates, StorageAssumption
<1>2. QED  BY <1>1, StorageRuns, PTL DEF MigrationSound

\* What is deleted stays deleted, scopes are kept apart, a listing shows what a forgetting
\* deletes, and a statistics write keeps the layer.
THEOREM VectorStoreIsSound == StorageSpec => VectorStoreSound
<1>1. Vec!Spec => Vec!VectorStoreSound
  BY StoresRight, StorageAssumption
<1>2. QED  BY <1>1, StorageRuns, PTL DEF VectorStoreSound

\* A value that was set is read and loaded again, only a start brings in a bad one, and
\* a group's level settles and falls with silence.
THEOREM ConfigIsSound == StorageSpec => ConfigSound
<1>1. Activ!Spec => []Activ!ActivitySound
  BY ActivityRight, StorageAssumption
<1>2. QED
  BY <1>1, StorageRuns, CacheAnswers, SavedLoads, OnlyLoadsBad, PTL DEF ConfigSound

\* What keeps a store: an undisturbed stop keeps everything and nothing that was loaded
\* goes back but by a reset or an overtaken put, a task
\* has one job, a memory is summed up once and judged by one evaluation at a time, and no
\* part outlives what it works on.
THEOREM UpkeepIsSound == StorageSpec => UpkeepSound
<1>1. Semantic!Spec => []Semantic!ExtractionSound
  BY ExtractsRight, StorageAssumption
<1>2. Upg!Spec => []Upg!EvaluationSound
  BY EvaluatesRight, StorageAssumption
<1>3. QED
  BY <1>1, <1>2, StorageRuns, StopsKeep, NeverGoesBack, TasksRight, StartsRight, PTL DEF UpkeepSound

=============================================================================
