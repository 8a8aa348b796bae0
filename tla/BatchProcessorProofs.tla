------------------------ MODULE BatchProcessorProofs ------------------------
(* Proofs about BatchProcessor, for any sessions, messages and threshold. Each *)
(* operation is first reduced to a summary of what it does to the queues and *)
(* the fingerprint cache (Begun, Swept, Added, Drained, Ended); the invariants *)
(* are then proved from the summaries. What the deduplication of a whole queue *)
(* leaves is proved by induction over the queue's subsets.                   *)
EXTENDS BatchProcessor, Integers, FiniteSetTheorems, SequenceTheorems, SequencesExt, TLAPS

-----------------------------------------------------------------------------
(* Induction over the subsets of a finite set *)

\* A family of subsets that contains a set as soon as it contains the sets
\* strictly inside it contains them all.
LEMMA SubsetInduction ==
  ASSUME NEW Q, IsFiniteSet(Q), NEW G,
         \A R \in SUBSET Q : (\A T \in SUBSET R : T # R => T \in G) => R \in G
  PROVE  \A R \in SUBSET Q : R \in G
<1> DEFINE Bad == (SUBSET Q) \ G
<1>1. SUFFICES ASSUME Bad # {}
               PROVE  FALSE
  OBVIOUS
<1>2. Bad \subseteq FiniteSubsetsOf(Q)
  BY FS_Subset DEF FiniteSubsetsOf
<1>3. PICK R \in Bad : \A T \in Bad : ~ (<<T, R>> \in StrictSubsetOrdering(Q))
  <2> HIDE DEF Bad
  <2>1. QED
    BY <1>1, <1>2, FS_StrictSubsetOrderingWellFounded, WFMin
<1>4. \A T \in SUBSET R : T # R => T \in G
  BY <1>3 DEF StrictSubsetOrdering
<1>5. R \in SUBSET Q /\ R \notin G
  BY <1>3
<1>6. QED
  BY <1>4, <1>5

-----------------------------------------------------------------------------
(* What the deduplication of a queue leaves *)

\* One message or one batch: the batch comes from the messages; a text that
\* was in the cache is still there or has been dropped; the batch's texts are
\* in the cache or have been dropped, and one that was in the cache already
\* can only be in the batch because it has been dropped on the way.
Sound(Q, d) ==
  /\ d.batch \subseteq Q
  /\ forgotten \subseteq d.forgotten
  /\ seen \subseteq d.seen \cup d.forgotten
  /\ d.seen \cup d.forgotten \subseteq seen \cup forgotten \cup {TextOf[m] : m \in Q}
  /\ \A m \in d.batch : TextOf[m] \in d.seen \cup d.forgotten
  /\ \A m \in d.batch : TextOf[m] \in seen => TextOf[m] \in d.forgotten

\* A message that is added to a batch keeps it sound.
LEMMA RegisteredSound ==
  ASSUME NEW Q, NEW m, NEW d, Sound(Q, d), NEW e \in Registered(d, m)
  PROVE  Sound(Q \cup {m}, e)
<1>1. CASE TextOf[m] \in d.seen
  BY <1>1 DEF Registered, Sound
<1>2. CASE TextOf[m] \notin d.seen
  <2>1. PICK P \in Trimmed(d.seen \cup {TextOf[m]}) :
          e = [batch |-> d.batch \cup {m}, seen |-> P,
               forgotten |-> d.forgotten \cup ((d.seen \cup {TextOf[m]}) \ P)]
    BY <1>2 DEF Registered
  <2>2. P \subseteq d.seen \cup {TextOf[m]}
    BY <2>1 DEF Trimmed
  <2>3. QED
    BY <1>2, <2>1, <2>2 DEF Sound
<1>3. QED
  BY <1>1, <1>2

\* The body of the recursive function that deduplicates.
After(f, R) ==
  IF R = {} THEN {[batch |-> {}, seen |-> seen, forgotten |-> forgotten]}
  ELSE UNION {UNION {Registered(d, m) : d \in f[R \ {m}]} : m \in R}

\* The body looks at the function on sets that are smaller by one.
LEMMA AfterLocal ==
  ASSUME NEW f, NEW g, NEW R, \A m \in R : f[R \ {m}] = g[R \ {m}]
  PROVE  After(f, R) = After(g, R)
<1>1. \A m \in R : UNION {Registered(d, m) : d \in f[R \ {m}]}
                     = UNION {Registered(d, m) : d \in g[R \ {m}]}
  OBVIOUS
<1>2. {UNION {Registered(d, m) : d \in f[R \ {m}]} : m \in R}
        = {UNION {Registered(d, m) : d \in g[R \ {m}]} : m \in R}
  BY <1>1
<1>3. QED
  BY <1>2 DEF After

\* The recursion defines a function on the subsets of a finite queue.
LEMMA AfterExists ==
  ASSUME NEW Q, IsFiniteSet(Q)
  PROVE  \E f : f = [R \in SUBSET Q |-> After(f, R)]
<1> DEFINE UpTo(f, n) == /\ f = [S \in SUBSET Q |-> f[S]]
                         /\ \A S \in SUBSET Q : Cardinality(S) <= n => f[S] = After(f, S)
           G == {R \in SUBSET Q : \E f : UpTo(f, Cardinality(R))}
<1>1. \A S \in SUBSET Q : IsFiniteSet(S) /\ Cardinality(S) \in Nat
                            /\ Cardinality(S) <= Cardinality(Q)
  BY FS_Subset, FS_CardinalityType
<1>2. ASSUME NEW R \in SUBSET Q, \A T \in SUBSET R : T # R => T \in G
      PROVE  R \in G
  <2>1. CASE R = {}
    <3> DEFINE f == [S \in SUBSET Q |-> {[batch |-> {}, seen |-> seen, forgotten |-> forgotten]}]
    <3>1. ASSUME NEW S \in SUBSET Q, Cardinality(S) <= Cardinality(R)
          PROVE  f[S] = After(f, S)
      <4>1. S = {}
        BY <1>1, <2>1, <3>1, FS_EmptySet
      <4>2. QED
        BY <4>1 DEF After
    <3>2. UpTo(f, Cardinality(R))
      BY <3>1
    <3>3. QED
      BY <3>2
  <2>2. CASE R # {}
    <3>1. PICK m \in R : TRUE
      BY <2>2
    <3> DEFINE T == R \ {m}
               n == Cardinality(T)
    <3>2. T \in G /\ n \in Nat /\ Cardinality(R) = n + 1
      <4>1. T \in SUBSET R /\ T # R
        OBVIOUS
      <4>2. T \in G
        <5> HIDE DEF T, G
        <5>1. QED
          BY <1>2, <4>1
      <4>3. n = Cardinality(R) - 1 /\ n \in Nat /\ Cardinality(R) \in Nat
        BY <1>1, FS_RemoveElement
      <4>4. QED
        <5> HIDE DEF T, G, n
        <5>1. QED
          BY <4>2, <4>3
    <3>3. PICK f : UpTo(f, n)
      BY <3>2
    <3> DEFINE g == [S \in SUBSET Q |-> IF Cardinality(S) <= n THEN f[S] ELSE After(f, S)]
    <3> HIDE DEF n, G
    <3>4. ASSUME NEW S \in SUBSET Q, Cardinality(S) <= n + 1
          PROVE  g[S] = After(f, S) /\ After(f, S) = After(g, S)
      <4>1. g[S] = After(f, S)
        BY <3>3
      <4>2. ASSUME NEW k \in S
            PROVE  f[S \ {k}] = g[S \ {k}]
        <5>1. S \ {k} \in SUBSET Q /\ Cardinality(S \ {k}) <= n
          BY <1>1, <3>2, <3>4, FS_RemoveElement
        <5>2. QED
          BY <5>1
      <4>3. After(f, S) = After(g, S)
        <5> HIDE DEF g
        <5>1. QED
          BY <4>2, AfterLocal
      <4>4. QED
        BY <4>1, <4>3
    <3>5. UpTo(g, Cardinality(R))
      BY <3>2, <3>4
    <3>6. QED
      BY <3>5 DEF G
  <2>3. QED
    BY <2>1, <2>2
<1>3. Q \in G
  <2> HIDE DEF G
  <2>1. QED
    BY <1>2, SubsetInduction
<1>4. PICK f : UpTo(f, Cardinality(Q))
  BY <1>3
<1>5. f = [R \in SUBSET Q |-> After(f, R)]
  BY <1>1, <1>4
<1>6. QED
  BY <1>5

\* What a deduplication leaves of a finite queue is sound.
LEMMA DeduplicatedSound ==
  ASSUME NEW Q, IsFiniteSet(Q), NEW d \in Deduplicated(Q)
  PROVE  Sound(Q, d)
<1> DEFINE f == CHOOSE f : f = [R \in SUBSET Q |-> After(f, R)]
           G == {R \in SUBSET Q : \A e \in f[R] : Sound(R, e)}
<1>1. Deduplicated(Q) = f[Q]
  BY DEF Deduplicated, After
<1>2. f = [R \in SUBSET Q |-> After(f, R)]
  BY AfterExists
<1> HIDE DEF f
<1>3. ASSUME NEW R \in SUBSET Q, \A T \in SUBSET R : T # R => T \in G
      PROVE  R \in G
  <2> SUFFICES ASSUME NEW e \in f[R]
               PROVE  Sound(R, e)
    OBVIOUS
  <2>1. e \in After(f, R)
    BY <1>2
  <2>2. CASE R = {}
    BY <2>1, <2>2 DEF After, Sound
  <2>3. CASE R # {}
    <3>1. PICK m \in R : \E c \in f[R \ {m}] : e \in Registered(c, m)
      BY <2>1, <2>3 DEF After
    <3>2. PICK c \in f[R \ {m}] : e \in Registered(c, m)
      BY <3>1
    <3>3. Sound(R \ {m}, c)
      BY <1>3
    <3>4. Sound((R \ {m}) \cup {m}, e)
      BY <3>2, <3>3, RegisteredSound
    <3>5. (R \ {m}) \cup {m} = R
      OBVIOUS
    <3>6. QED
      BY <3>4, <3>5
  <2>4. QED
    BY <2>2, <2>3
<1>4. Q \in G
  <2> HIDE DEF G
  <2>1. QED
    BY <1>3, SubsetInduction
<1>5. QED
  BY <1>1, <1>4

-----------------------------------------------------------------------------
(* Types *)

\* A task that is on no session has nothing in hand.
RunInv == \A r \in Runner : run[r].on = NoSession => run[r] = Idle

\* Queues grow by one message at a time.
QueuesFinite == \A s \in Session : IsFiniteSet(queue[s])

Typed == TypeOK /\ RunInv /\ QueuesFinite

Queues == {q \in [Session -> SUBSET Msg] : \A s \in Session : IsFiniteSet(q[s])}

Ages3 == [Session -> {"fresh", "due", "stale"}]

Sweeps == [todo : SUBSET Session, due : SUBSET Session,
           expired : SUBSET Session, stale : SUBSET Session]

\* Emptying queues keeps them queues.
LEMMA EmptiedType ==
  ASSUME NEW q \in Queues, NEW S
  PROVE  /\ Emptied(q, S) \in Queues
         /\ \A t \in Session : Emptied(q, S)[t] = IF t \in S THEN {} ELSE q[t]
BY FS_EmptySet DEF Queues, Emptied

\* A session that was touched leaves the loop's marks of stale sessions alone.
LEMMA TouchedType ==
  ASSUME NEW w \in Sweeps, NEW s
  PROVE  Touched(w, s) \in Sweeps /\ Touched(w, s).stale = w.stale
BY DEF Touched, Sweeps

Runs == [on : Session \cup {NoSession}, batch : SUBSET Msg]

\* The batch x in hand and the cache come from a sound deduplication.
Cached(x) ==
  /\ seen' \in SUBSET {TextOf[m] : m \in Msg}
  /\ forgotten' \in SUBSET {TextOf[m] : m \in Msg}
  /\ forgotten \subseteq forgotten' /\ seen \subseteq seen' \cup forgotten'
  /\ \A m \in x.batch : /\ TextOf[m] \in seen' \cup forgotten'
                        /\ TextOf[m] \in seen => TextOf[m] \in forgotten'

\* The task r has begun a run on s and goes on with x: nothing, with the queue
\* already emptied, or a batch.
Begun(x, r, s, q, w) ==
  /\ run' = [run EXCEPT ![r] = x]
  /\ x.on = NoSession => x = Idle
  /\ x.on \in {NoSession, s}
  /\ queue' \in {q, Emptied(q, {s})}
  /\ queue' \in Queues /\ age' \in Ages3
  /\ sweep' \in Sweeps /\ sweep'.stale = w.stale
  /\ Cached(x)

\* The beginning of a run, as the invariants need it.
LEMMA ProcessEffect ==
  ASSUME TypeOK, NEW r \in Runner, NEW s \in Session, NEW q \in Queues,
         NEW a \in Ages3, NEW w \in Sweeps, Process(r, s, q, a, w)
  PROVE  \E x \in Runs : Begun(x, r, s, q, w)
<1>1. PICK d \in Deduplicated(q[s]) :
        /\ seen' = d.seen /\ forgotten' = d.forgotten
        /\ \/ /\ d.batch = {} /\ queue' = Emptied(q, {s})
              /\ age' = [a EXCEPT ![s] = "fresh"] /\ sweep' = Touched(w, s)
              /\ run' = [run EXCEPT ![r] = Idle]
           \/ /\ d.batch # {} /\ queue' = q /\ age' = a /\ sweep' = w
              /\ run' = [run EXCEPT ![r] = [on |-> s, batch |-> d.batch]]
  BY DEF Process
<1>2. IsFiniteSet(q[s]) /\ q[s] \subseteq Msg
  BY DEF Queues
<1>3. Sound(q[s], d)
  BY <1>2, DeduplicatedSound
<1>4. /\ seen' \in SUBSET {TextOf[m] : m \in Msg}
      /\ forgotten' \in SUBSET {TextOf[m] : m \in Msg}
      /\ forgotten \subseteq forgotten' /\ seen \subseteq seen' \cup forgotten'
  <2>1. seen \in SUBSET {TextOf[m] : m \in Msg} /\ forgotten \in SUBSET {TextOf[m] : m \in Msg}
    BY DEF TypeOK
  <2>2. {TextOf[m] : m \in q[s]} \subseteq {TextOf[m] : m \in Msg}
    BY <1>2
  <2>3. QED
    BY <1>1, <1>3, <2>1, <2>2 DEF Sound
<1>5. CASE /\ d.batch = {} /\ queue' = Emptied(q, {s})
           /\ age' = [a EXCEPT ![s] = "fresh"] /\ sweep' = Touched(w, s)
           /\ run' = [run EXCEPT ![r] = Idle]
  <2>1. Idle \in Runs
          /\ Idle.on = NoSession /\ Idle.batch = {}
    BY DEF Idle, Runs
  <2>2. age' \in Ages3
    BY <1>5 DEF Ages3
  <2>3. Cached(Idle)
    BY <1>4, <2>1 DEF Cached
  <2>4. Begun(Idle, r, s, q, w)
    BY <1>5, <2>1, <2>2, <2>3, EmptiedType, TouchedType DEF Begun
  <2>5. QED
    BY <2>1, <2>4 DEF Runs
<1>6. CASE /\ d.batch # {} /\ queue' = q /\ age' = a /\ sweep' = w
           /\ run' = [run EXCEPT ![r] = [on |-> s, batch |-> d.batch]]
  <2> DEFINE x == [on |-> s, batch |-> d.batch]
  <2>1. x \in Runs
          /\ x.on = s /\ x.batch = d.batch /\ s # NoSession
    BY <1>2, <1>3, ConstantsAssumption DEF Sound, Runs
  <2>2. \A m \in x.batch : /\ TextOf[m] \in seen' \cup forgotten'
                           /\ TextOf[m] \in seen => TextOf[m] \in forgotten'
    BY <1>1, <1>3 DEF Sound
  <2>3. Cached(x)
    BY <1>4, <2>2 DEF Cached
  <2>4. Begun(x, r, s, q, w)
    BY <1>6, <2>1, <2>3 DEF Begun
  <2>5. QED
    BY <2>1, <2>4 DEF Runs
<1>7. QED
  BY <1>1, <1>5, <1>6

\* The state the cleanup loop goes on from is a state of the queues, in which
\* every queue is as it was or empty.
Views == [tracked : SUBSET Session, queue : Queues, age : Ages3, lost : SUBSET Msg,
          captured : SUBSET Msg, sweep : Sweeps]

\* What the loop finds when its run on a session has ended: that session's
\* queue is empty, and what nobody had read of it is lost.
LEMMA ResumedType ==
  ASSUME Typed
  PROVE  /\ Resumed \in Views
         /\ Resumed.captured \in {captured, captured \cup run[Cleaner].batch}
         /\ \A t \in Session : Resumed.queue[t] = IF t = run[Cleaner].on THEN {} ELSE queue[t]
         /\ Resumed.lost = IF run[Cleaner].on = NoSession THEN lost
                           ELSE lost \cup (queue[run[Cleaner].on] \ read)
         /\ Resumed.sweep.stale \subseteq sweep.stale \cup {run[Cleaner].on}
<1> DEFINE s == run[Cleaner].on
<1>1. Cleaner \in Runner /\ s \in Session \cup {NoSession} /\ run[Cleaner].batch \subseteq Msg
  BY DEF Typed, TypeOK, Runner
<1>2. queue \in Queues /\ age \in Ages3 /\ sweep \in Sweeps
  BY DEF Typed, TypeOK, QueuesFinite, Queues, Ages3, Sweeps
<1>3. CASE s = NoSession
  <2>1. \A t \in Session : t # s
    BY <1>3, ConstantsAssumption
  <2>2. QED
    BY <1>1, <1>2, <1>3, <2>1 DEF Resumed, Views, Sweeps, Typed, TypeOK
<1>4. CASE s # NoSession
  <2>1. s \in Session
    BY <1>1, <1>4
  <2>2. [age EXCEPT ![s] = "fresh"] \in Ages3
    BY <1>2 DEF Ages3
  <2>3. Emptied(queue, {s}) \in Queues
          /\ \A t \in Session : Emptied(queue, {s})[t] = IF t = s THEN {} ELSE queue[t]
    BY <1>2, EmptiedType
  <2>4. [sweep EXCEPT !.stale = @ \cup ({s} \cap sweep.expired)] \in Sweeps
    BY <1>2, <2>1 DEF Sweeps
  <2>5. [sweep EXCEPT !.stale = @ \cup ({s} \cap sweep.expired)].stale
          \subseteq sweep.stale \cup {s}
    BY <1>2 DEF Sweeps
  <2>6. /\ tracked \cup {s} \in SUBSET Session
        /\ lost \cup (queue[s] \ read) \in SUBSET Msg
        /\ captured \cup run[Cleaner].batch \in SUBSET Msg
    BY <1>1, <2>1 DEF Typed, TypeOK
  <2>7. QED
    BY <1>4, <2>2, <2>3, <2>4, <2>5, <2>6 DEF Resumed, Views
<1>5. QED
  BY <1>3, <1>4

\* The sessions the loop passes without waiting: their overdue queues are
\* emptied, and a session is marked stale only with an empty queue.
LEMMA PassedType ==
  ASSUME NEW st \in Views, NEW V \in SUBSET Session
  PROVE  LET pt == Passed(st, V) IN
         /\ pt \in Views
         /\ pt.tracked = st.tracked /\ pt.lost = st.lost /\ pt.captured = st.captured
         /\ \A t \in Session : pt.queue[t] \in {{}, st.queue[t]}
         /\ \A t \in pt.sweep.stale : t \in st.sweep.stale \/ pt.queue[t] = {}
<1> DEFINE done == V \cap st.sweep.due
           q == Emptied(st.queue, done)
           a == [s \in Session |-> IF s \in done /\ st.queue[s] # {} THEN "fresh" ELSE st.age[s]]
           w == [st.sweep EXCEPT !.todo = @ \ V,
                   !.stale = @ \cup {s \in V \cap st.sweep.expired :
                                       s \in done \/ st.queue[s] = {}}]
<1>1. Passed(st, V) = [st EXCEPT !.queue = q, !.age = a, !.sweep = w]
  BY DEF Passed, Views, Sweeps
<1>2. q \in Queues /\ \A t \in Session : q[t] = IF t \in done THEN {} ELSE st.queue[t]
  BY EmptiedType DEF Views
<1>3. a \in Ages3
  BY DEF Views, Ages3
<1>4. /\ w \in Sweeps
      /\ w.stale = st.sweep.stale \cup {s \in V \cap st.sweep.expired :
                                          s \in done \/ st.queue[s] = {}}
  BY DEF Views, Sweeps
<1> HIDE DEF q, a, w
<1>5. [st EXCEPT !.queue = q, !.age = a, !.sweep = w] \in Views
  BY <1>2, <1>3, <1>4 DEF Views
<1>6. QED
  BY <1>1, <1>2, <1>4, <1>5 DEF Views

\* The loop lists and marks sessions only.
LEMMA SweepView ==
  ASSUME Typed, NEW V \in SUBSET Resumed.sweep.todo
  PROVE  /\ V \in SUBSET Session
         /\ Passed(Resumed, V) \in Views
         /\ ReadIn(Resumed, V) \in SUBSET Msg /\ read \subseteq ReadIn(Resumed, V)
<1>1. Resumed \in Views
  BY ResumedType
<1>2. V \in SUBSET Session
  BY <1>1 DEF Views, Sweeps
<1>3. \A s \in V : Resumed.queue[s] \subseteq Msg
  BY <1>1, <1>2 DEF Views, Queues
<1>4. ReadIn(Resumed, V) \in SUBSET Msg /\ read \subseteq ReadIn(Resumed, V)
  BY <1>3 DEF ReadIn, Typed, TypeOK
<1>5. QED
  BY <1>1, <1>2, <1>4, PassedType

Saves3 == [busy : BOOLEAN, queues : SUBSET Msg]

\* Every variable of the queues, and the history, keep their types when only
\* these change.
LEMMA TypedFrom ==
  ASSUME Typed, tracked' \in SUBSET Session, queue' \in Queues, age' \in Ages3,
         sweep' \in Sweeps, read' \in SUBSET Msg, lost' \in SUBSET Msg,
         captured' \in SUBSET Msg, late' \in SUBSET Msg,
         seen' \in SUBSET {TextOf[m] : m \in Msg},
         forgotten' \in SUBSET {TextOf[m] : m \in Msg},
         NEW r \in Runner, NEW x \in Runs,
         run' = [run EXCEPT ![r] = x], x.on = NoSession => x = Idle,
         life' \in {"running", "stopping", "draining", "stopped"},
         drain' \in SUBSET Session, dirty' \in BOOLEAN, putKnown' \in BOOLEAN,
         saving' \in [Saver -> Saves3], saved' \in SUBSET Msg,
         missed' \in SUBSET Msg
  PROVE  Typed'
<1>1. run' \in [Runner -> Runs]
  BY DEF Typed, TypeOK, Runs
<1>2. RunInv'
  BY DEF Typed, TypeOK, RunInv
<1>3. TypeOK'
  BY <1>1 DEF TypeOK, Queues, Ages3, Sweeps, Runs, Saves3
<1>4. QueuesFinite'
  BY DEF Queues, QueuesFinite
<1>5. QED
  BY <1>2, <1>3, <1>4 DEF Typed

\* The variables as the lemmas above have them.
LEMMA TypedVars ==
  ASSUME Typed
  PROVE  /\ queue \in Queues /\ age \in Ages3 /\ sweep \in Sweeps
         /\ tracked \in SUBSET Session /\ drain \in SUBSET Session
         /\ read \in SUBSET Msg /\ lost \in SUBSET Msg /\ captured \in SUBSET Msg
         /\ late \in SUBSET Msg /\ missed \in SUBSET Msg /\ saved \in SUBSET Msg
         /\ seen \in SUBSET {TextOf[m] : m \in Msg}
         /\ forgotten \in SUBSET {TextOf[m] : m \in Msg}
         /\ life \in {"running", "stopping", "draining", "stopped"}
         /\ dirty \in BOOLEAN /\ putKnown \in BOOLEAN
         /\ saving \in [Saver -> Saves3]
<1>1. queue \in Queues /\ age \in Ages3 /\ sweep \in Sweeps
  BY DEF Typed, TypeOK, QueuesFinite, Queues, Ages3, Sweeps
<1>2. QED
  BY <1>1 DEF Typed, TypeOK, Saves3

\* The tasks and their runs.
LEMMA TypedRuns ==
  /\ Typed => \A r \in Runner : run[r] \in Runs /\ (run[r].on = NoSession => run[r] = Idle)
  /\ Cleaner \in Runner /\ Stopper \in Runner /\ Handler \subseteq Runner
BY DEF Typed, TypeOK, RunInv, Runs, Runner

\* The empty values, and the messages in the queues.
LEMMA TypedValues ==
  /\ Idle \in Runs /\ Idle.on = NoSession /\ Idle.batch = {}
  /\ NoSweep \in Sweeps /\ NoSweep.stale = {}
  /\ NoSave \in [busy : BOOLEAN, queues : SUBSET Msg]
  /\ Typed => Queued \in SUBSET Msg
BY DEF Idle, NoSweep, NoSave, Queued, Runs, Sweeps, Typed, TypeOK

\* The end of a run keeps the types.
LEMMA EndRunType ==
  ASSUME Typed, NEW r \in Runner, run[r] # Idle, EndRun(run[r].on)
  PROVE  /\ run[r].on \in Session
         /\ tracked' \in SUBSET Session /\ queue' \in Queues /\ age' \in Ages3
         /\ lost' = lost \cup (queue[run[r].on] \ read) /\ lost' \in SUBSET Msg
         /\ UNCHANGED <<seen, forgotten, read>>
         /\ \A t \in Session : queue'[t] = IF t = run[r].on THEN {} ELSE queue[t]
<1> DEFINE s == run[r].on
<1>1. s \in Session
  BY TypedVars, TypedRuns, TypedValues DEF Runs
<1> HIDE DEF s
<1>2. /\ tracked' = tracked \cup {s} /\ queue' = Emptied(queue, {s})
      /\ age' = [age EXCEPT ![s] = "fresh"] /\ lost' = lost \cup (queue[s] \ read)
      /\ UNCHANGED <<seen, forgotten, read>>
  BY DEF EndRun, s
<1>3. queue' \in Queues /\ \A t \in Session : queue'[t] = IF t = s THEN {} ELSE queue[t]
  BY <1>2, EmptiedType, TypedVars, TypedRuns, TypedValues
<1>4. age' \in Ages3
  BY <1>2, TypedVars, TypedRuns, TypedValues DEF Ages3
<1>5. tracked' \in SUBSET Session /\ lost' \in SUBSET Msg
  <2>1. tracked \in SUBSET Session /\ lost \in SUBSET Msg /\ queue[s] \subseteq Msg
    BY <1>1 DEF Typed, TypeOK
  <2>2. QED
    BY <1>1, <1>2, <2>1
<1>6. QED
  BY <1>1, <1>2, <1>3, <1>4, <1>5 DEF s

\* The loop has st in view and goes on with x: nothing, its sweep over or
\* broken off, or a batch.
Swept(x, st) ==
  /\ x.on = NoSession => x = Idle
  /\ run' = [run EXCEPT ![Cleaner] = x]
  /\ tracked' \in SUBSET Session
  /\ queue' \in Queues /\ \A t \in Session : queue'[t] \in {{}, st.queue[t]}
  /\ age' \in Ages3
  /\ sweep' \in Sweeps /\ sweep'.stale \subseteq st.sweep.stale
  /\ read' \in SUBSET Msg /\ read \subseteq read'
  /\ x.on # NoSession => queue'[x.on] \subseteq read'
  /\ captured' = st.captured
  /\ lost' \in SUBSET Msg
  /\ lost' \subseteq st.lost \cup ((UNION {st.queue[t] : t \in st.sweep.stale}) \ read)
  /\ Cached(x)
  /\ UNCHANGED <<lifeVars, saveVars, late>>

\* The steps of the cleanup loop, as the invariants need them.
LEMMA SweepStep ==
  ASSUME Typed, CleanerStep
  PROVE  \E V \in SUBSET Session, x \in Runs : Swept(x, Passed(Resumed, V))
<1> USE TypedVars, TypedRuns, TypedValues
<1>1. PICK V \in SUBSET Resumed.sweep.todo :
        SweepEnds(V) \/ SweepAborts(V) \/ \E s \in Session : SweepAwaits(s, V)
  BY DEF CleanerStep
<1> DEFINE st == Passed(Resumed, V)
<1>2. /\ V \in SUBSET Session /\ st \in Views
      /\ ReadIn(Resumed, V) \in SUBSET Msg /\ read \subseteq ReadIn(Resumed, V)
  BY SweepView
<1>3. /\ st.tracked \in SUBSET Session /\ st.queue \in Queues /\ st.age \in Ages3
      /\ st.sweep \in Sweeps /\ st.lost \in SUBSET Msg /\ st.captured \in SUBSET Msg
  BY <1>2 DEF Views
<1>4. Idle.on = NoSession /\ Idle.batch = {} /\ NoSweep.stale = {} /\ Idle \in Runs
  BY DEF Idle, NoSweep, Runs
<1>5. ASSUME UNCHANGED <<seen, forgotten>>
      PROVE  Cached(Idle)
  BY <1>4, <1>5 DEF Cached
<1>6. CASE SweepEnds(V)
  <2>1. PICK E : tracked' = (st.tracked \ st.sweep.stale) \ E
    BY <1>6 DEF SweepEnds
  <2>2. /\ queue' = Emptied(st.queue, st.sweep.stale) /\ age' = st.age
        /\ sweep' = NoSweep /\ run' = [run EXCEPT ![Cleaner] = Idle]
        /\ read' = ReadIn(Resumed, V) /\ captured' = st.captured
        /\ lost' = st.lost \cup ((UNION {st.queue[s] : s \in st.sweep.stale}) \ read')
        /\ UNCHANGED <<seen, forgotten, lifeVars, saveVars, late>>
    BY <1>6 DEF SweepEnds
  <2> HIDE DEF st
  <2>3. queue' \in Queues /\ \A t \in Session : queue'[t] \in {{}, st.queue[t]}
    BY <1>3, <2>2, EmptiedType
  <2>4. lost' \in SUBSET Msg
    <3>1. \A s \in st.sweep.stale : st.queue[s] \subseteq Msg
      BY <1>3 DEF Queues, Sweeps
    <3>2. QED
      BY <1>3, <2>2, <3>1
  <2>5. lost' \subseteq st.lost \cup ((UNION {st.queue[s] : s \in st.sweep.stale}) \ read)
    BY <1>2, <2>2
  <2>6. Swept(Idle, st)
    BY <1>2, <1>3, <1>4, <1>5, <2>1, <2>2, <2>3, <2>4, <2>5 DEF Swept
  <2>7. QED
    BY <1>2, <1>4, <2>6 DEF st
<1>7. CASE SweepAborts(V)
  <2>1. /\ tracked' = st.tracked /\ queue' = st.queue /\ age' = st.age
        /\ sweep' = NoSweep /\ run' = [run EXCEPT ![Cleaner] = Idle]
        /\ read' = ReadIn(Resumed, V) /\ captured' = st.captured /\ lost' = st.lost
        /\ UNCHANGED <<seen, forgotten, lifeVars, saveVars, late>>
    BY <1>7 DEF SweepAborts, Continues
  <2> HIDE DEF st
  <2>2. Swept(Idle, st)
    BY <1>2, <1>3, <1>4, <1>5, <2>1 DEF Swept
  <2>3. QED
    BY <1>2, <1>4, <2>2 DEF st
<1>8. ASSUME NEW s \in Session, SweepAwaits(s, V)
      PROVE  \E x \in Runs : Swept(x, st)
  <2> DEFINE w == [st.sweep EXCEPT !.todo = @ \ {s}]
  <2>1. /\ Process(Cleaner, s, st.queue, st.age, w)
        /\ tracked' = st.tracked /\ read' = ReadIn(Resumed, V) \cup st.queue[s]
        /\ captured' = st.captured /\ lost' = st.lost
        /\ UNCHANGED <<lifeVars, saveVars, late>>
    BY <1>8 DEF SweepAwaits, Continues
  <2> HIDE DEF st
  <2>2. w \in Sweeps /\ w.stale = st.sweep.stale
    BY <1>3 DEF Sweeps
  <2> HIDE DEF w
  <2>3. PICK x \in Runs : Begun(x, Cleaner, s, st.queue, w)
    BY <1>3, <2>1, <2>2, ProcessEffect DEF Typed
  <2>4. \A t \in Session : queue'[t] \in {{}, st.queue[t]}
    BY <1>3, <2>3, EmptiedType DEF Begun
  <2>5. read' \in SUBSET Msg /\ read \subseteq read' /\ st.queue[s] \subseteq read'
    BY <1>2, <1>3, <2>1 DEF Queues
  <2>6. x.on # NoSession => queue'[x.on] \subseteq read'
    BY <2>3, <2>4, <2>5 DEF Begun
  <2>7. Swept(x, st)
    BY <1>3, <2>1, <2>2, <2>3, <2>4, <2>5, <2>6 DEF Swept, Begun
  <2>8. QED
    BY <2>7
<1>9. QED
  BY <1>1, <1>2, <1>6, <1>7, <1>8

\* The task h has queued m and goes on with x: nothing, or a batch of the
\* message's session.
Added(x, h, m) ==
  /\ run[h] = Idle /\ run' = [run EXCEPT ![h] = x]
  /\ x.on = NoSession => x = Idle
  /\ tracked' \in SUBSET Session
  /\ queue' \in Queues
  /\ \A t \in Session : queue'[t] \subseteq
       queue[t] \cup {n \in {m} : SessionOf[m] = t}
  /\ age' \in Ages3
  /\ sweep' \in Sweeps /\ sweep'.stale = sweep.stale
  /\ read' \in SUBSET Msg /\ read \subseteq read'
  /\ x.on # NoSession => queue'[x.on] \subseteq read'
  /\ Cached(x)

\* A message handler's step, as the invariants need it.
LEMMA AddStep ==
  ASSUME Typed, NEW h \in Handler, NEW m \in Msg, AddMessage(h, m)
  PROVE  \E x \in Runs : Added(x, h, m)
<1> USE TypedRuns, TypedValues
<1> DEFINE s == SessionOf[m]
           new == s \notin tracked
           q == [queue EXCEPT ![s] = @ \cup {m}]
           a == IF new THEN [age EXCEPT ![s] = "fresh"] ELSE age
           w == IF new THEN Touched(sweep, s) ELSE sweep
<1>1. s \in Session /\ queue \in Queues /\ age \in Ages3 /\ sweep \in Sweeps
        /\ read \in SUBSET Msg /\ tracked \in SUBSET Session /\ TypeOK /\ h \in Runner
  BY TypedVars, ConstantsAssumption DEF Typed
<1>2. run[h] = Idle
  BY DEF AddMessage
<1>3. PICK T \in IF new THEN MakeRoom ELSE {tracked} : tracked' = T \cup {s}
  BY DEF AddMessage
<1>4. \/ Process(h, s, q, a, w) /\ read' = read \cup q[s]
      \/ /\ queue' = q /\ age' = a /\ sweep' = w
         /\ UNCHANGED <<seen, forgotten, run, read>>
  BY DEF AddMessage
<1> HIDE DEF s
<1>5. tracked' \in SUBSET Session
  <2>1. \A E \in MakeRoom : E \subseteq tracked
    BY DEF MakeRoom
  <2>2. T \subseteq tracked
    BY <1>3, <2>1
  <2>3. QED
    BY <1>1, <1>3, <2>2
<1>6. /\ q \in Queues /\ q[s] \subseteq Msg
      /\ \A t \in Session : q[t] = queue[t] \cup {n \in {m} : s = t}
  <2>1. q \in [Session -> SUBSET Msg]
    BY <1>1 DEF Queues
  <2>2. \A t \in Session : q[t] = queue[t] \cup {n \in {m} : s = t}
    BY <1>1 DEF Queues
  <2>3. \A t \in Session : IsFiniteSet(q[t])
    BY <1>1, FS_AddElement DEF Queues
  <2>4. QED
    BY <1>1, <2>1, <2>2, <2>3 DEF Queues
<1>7. a \in Ages3
  BY <1>1 DEF Ages3
<1>8. w \in Sweeps /\ w.stale = sweep.stale
  BY <1>1, TouchedType
<1> HIDE DEF q, a, w, new
<1>9. CASE Process(h, s, q, a, w) /\ read' = read \cup q[s]
  <2>1. PICK x \in Runs : Begun(x, h, s, q, w)
    BY <1>1, <1>6, <1>7, <1>8, <1>9, ProcessEffect
  <2>2. \A t \in Session : queue'[t] \subseteq q[t]
    BY <1>6, <2>1, EmptiedType DEF Begun
  <2>3. \A t \in Session : queue'[t] \subseteq queue[t] \cup {n \in {m} : s = t}
    BY <1>6, <2>2
  <2>4. read' \in SUBSET Msg /\ read \subseteq read' /\ q[s] \subseteq read'
    BY <1>1, <1>6, <1>9
  <2>5. x.on # NoSession => queue'[x.on] \subseteq read'
    BY <1>1, <2>1, <2>2, <2>4 DEF Begun
  <2>6. Added(x, h, m)
    BY <1>2, <1>5, <1>8, <2>1, <2>3, <2>4, <2>5 DEF Added, Begun, s
  <2>7. QED
    BY <2>6
<1>10. CASE /\ queue' = q /\ age' = a /\ sweep' = w
            /\ UNCHANGED <<seen, forgotten, run, read>>
  <2>1. run' = [run EXCEPT ![h] = Idle]
    BY <1>1, <1>2, <1>10 DEF TypeOK
  <2>2. Cached(Idle)
    BY <1>10, TypedVars DEF Cached
  <2>3. Added(Idle, h, m)
    BY <1>1, <1>2, <1>5, <1>6, <1>7, <1>8, <1>10, <2>1, <2>2 DEF Added, s
  <2>4. QED
    BY <2>3
<1>11. QED
  BY <1>4, <1>9, <1>10

\* stop() has come to the session s and goes on with x.
Drained(x, s) ==
  /\ run[Stopper] = Idle /\ run' = [run EXCEPT ![Stopper] = x]
  /\ x.on = NoSession => x = Idle
  /\ queue' \in Queues /\ \A t \in Session : queue'[t] \subseteq queue[t]
  /\ age' \in Ages3
  /\ sweep' \in Sweeps /\ sweep'.stale = sweep.stale
  /\ read' \in SUBSET Msg /\ read \subseteq read'
  /\ x.on # NoSession => queue'[x.on] \subseteq read'
  /\ Cached(x)

\* A step of stop() through its sessions, as the invariants need it.
LEMMA DrainStep ==
  ASSUME Typed, NEW s \in Session, DrainQueue(s)
  PROVE  \E x \in Runs : Drained(x, s)
<1> USE TypedRuns, TypedValues
<1>1. /\ queue \in Queues /\ age \in Ages3 /\ sweep \in Sweeps
      /\ read \in SUBSET Msg /\ TypeOK
  BY TypedVars DEF Typed
<1>2. run[Stopper] = Idle
  BY DEF DrainQueue
<1>3. CASE Process(Stopper, s, queue, age, sweep) /\ read' = read \cup queue[s]
  <2>1. PICK x \in Runs : Begun(x, Stopper, s, queue, sweep)
    BY <1>1, <1>3, ProcessEffect
  <2>2. \A t \in Session : queue'[t] \subseteq queue[t]
    BY <1>1, <2>1, EmptiedType DEF Begun
  <2>3. read' \in SUBSET Msg /\ read \subseteq read' /\ queue[s] \subseteq read'
    BY <1>1, <1>3 DEF Queues
  <2>4. x.on # NoSession => queue'[x.on] \subseteq read'
    BY <2>1, <2>2, <2>3 DEF Begun
  <2>5. Drained(x, s)
    BY <1>2, <2>1, <2>2, <2>3, <2>4 DEF Drained, Begun
  <2>6. QED
    BY <2>5
<1>4. CASE UNCHANGED <<queue, age, seen, run, sweep, read, forgotten>>
  <2>1. run' = [run EXCEPT ![Stopper] = Idle]
    BY <1>1, <1>2, <1>4 DEF TypeOK
  <2>2. Cached(Idle)
    BY <1>4, TypedVars DEF Cached
  <2>3. Drained(Idle, s)
    BY <1>1, <1>2, <1>4, <2>1, <2>2 DEF Drained
  <2>4. QED
    BY <2>3
<1>5. QED
  BY <1>3, <1>4 DEF DrainQueue

\* The run of r has ended, or was cut off.
Ended(r) ==
  /\ run[r].on \in Session
  /\ run' = [run EXCEPT ![r] = Idle]
  /\ tracked' \in SUBSET Session
  /\ queue' \in Queues
  /\ \A t \in Session : queue'[t] = IF t = run[r].on THEN {} ELSE queue[t]
  /\ age' \in Ages3
  /\ sweep' \in Sweeps /\ sweep'.stale \subseteq sweep.stale
  /\ lost' = lost \cup (queue[run[r].on] \ read) /\ lost' \in SUBSET Msg
  /\ captured \subseteq captured' /\ captured' \subseteq captured \cup run[r].batch
  /\ captured' \in SUBSET Msg
  /\ UNCHANGED <<seen, forgotten, read>>

\* The steps that end a run: its own end, the cancelled loop, the time-out.
LEMMA EndStep ==
  ASSUME Typed, NEW r \in Runner, run[r] # Idle,
         \/ Finish(r)
         \/ LoopsCancelled /\ r = Cleaner
         \/ StopTimesOut /\ r = Stopper
  PROVE  Ended(r)
<1>1. EndRun(run[r].on) /\ run' = [run EXCEPT ![r] = Idle]
  BY DEF Finish, LoopsCancelled, StopTimesOut, CutRun
<1>2. captured \subseteq captured' /\ captured' \subseteq captured \cup run[r].batch
  BY DEF Finish, LoopsCancelled, StopTimesOut, CutRun
<1>3. captured' \in SUBSET Msg
  BY <1>2, TypedVars, TypedRuns DEF Runs
<1>4. sweep' = NoSweep \/ sweep' = Touched(sweep, run[r].on)
  BY DEF Finish, LoopsCancelled, StopTimesOut
<1>5. sweep' \in Sweeps /\ sweep'.stale \subseteq sweep.stale
  BY <1>4, TouchedType, TypedVars, TypedValues
<1>6. QED
  BY <1>1, <1>2, <1>3, <1>5, EndRunType DEF Ended

\* What beginning, ending or cutting a save leaves in the savers' variables.
LEMMA SavesTyped ==
  ASSUME Typed
  PROVE  /\ [busy |-> TRUE, queues |-> Queued] \in Saves3 /\ NoSave \in Saves3
         /\ \A x \in Saver : saving[x].queues \in SUBSET Msg
         /\ \A x \in Saver : CutSave(x) => saving' \in [Saver -> Saves3] /\ saved' \in SUBSET Msg
         /\ AutoSaver \in Saver /\ Stopper \in Saver
<1>1. /\ saving \in [Saver -> Saves3] /\ saved \in SUBSET Msg
      /\ [busy |-> TRUE, queues |-> Queued] \in Saves3 /\ NoSave \in Saves3
  BY TypedVars DEF Saves3, NoSave, Queued, Queues
<1>2. \A x \in Saver : saving[x].queues \in SUBSET Msg
  BY <1>1 DEF Saves3
<1>3. ASSUME NEW x \in Saver, CutSave(x)
      PROVE  saving' \in [Saver -> Saves3] /\ saved' \in SUBSET Msg
  BY <1>1, <1>2, <1>3 DEF CutSave
<1>4. QED
  BY <1>1, <1>2, <1>3 DEF Saver

\* Every step keeps every variable in its type.
LEMMA StepTyped ==
  ASSUME Typed, [Next]_vars
  PROVE  Typed'
<1> USE TypedVars, TypedRuns, TypedValues, SavesTyped
<1>1. ASSUME NEW h \in Handler, NEW m \in Msg, AddMessage(h, m)
      PROVE  Typed'
  <2>1. PICK x \in Runs : Added(x, h, m)
    BY <1>1, AddStep
  <2>2. /\ late' \in SUBSET Msg /\ missed' \in SUBSET Msg /\ dirty' = TRUE
        /\ UNCHANGED <<lifeVars, saving, putKnown, saved, captured, lost>>
    BY <1>1 DEF AddMessage
  <2>3. QED
    BY <2>1, <2>2, TypedFrom DEF Added, Cached, lifeVars
<1>2. ASSUME NEW r \in Runner, Finish(r)
      PROVE  Typed'
  <2>1. Ended(r) /\ UNCHANGED <<lifeVars, saveVars, late>>
    BY <1>2, EndStep DEF Finish
  <2>2. QED
    BY <2>1, TypedFrom DEF Ended, lifeVars, saveVars
<1>3. ASSUME NEW s \in Session, DrainQueue(s)
      PROVE  Typed'
  <2>1. PICK x \in Runs : Drained(x, s)
    BY <1>3, DrainStep
  <2>2. /\ drain' \in SUBSET Session
        /\ UNCHANGED <<tracked, lost, life, saveVars, captured, late>>
    BY <1>3 DEF DrainQueue
  <2>3. QED
    BY <2>1, <2>2, TypedFrom DEF Drained, Cached, saveVars
<1>4. CASE CleanerStep
  <2>1. PICK V \in SUBSET Session, x \in Runs : Swept(x, Passed(Resumed, V))
    BY <1>4, SweepStep
  <2>2. captured' \in SUBSET Msg
    BY <2>1, ResumedType, PassedType DEF Swept, Views
  <2>3. QED
    BY <2>1, <2>2, TypedFrom DEF Swept, Cached, lifeVars, saveVars
<1>5. ASSUME NEW r \in Runner, r = Cleaner, LoopsCancelled
      PROVE  Typed'
  <2>1. /\ life' = "draining" /\ drain' = tracked' /\ CutSave(AutoSaver)
        /\ UNCHANGED <<dirty, putKnown, missed, late>>
    BY <1>5 DEF LoopsCancelled
  <2>2. CASE run[r] = Idle
    <3>1. /\ UNCHANGED <<tracked, queue, age, seen, run, read, forgotten, lost, captured>>
          /\ sweep' = NoSweep
      BY <1>5, <2>2 DEF LoopsCancelled
    <3>2. run' = [run EXCEPT ![r] = Idle]
      BY <1>5, <2>2, <3>1 DEF Typed, TypeOK
    <3>3. QED
      BY <2>1, <3>1, <3>2, TypedFrom
  <2>3. CASE run[r] # Idle
    <3>1. Ended(r)
      BY <1>5, <2>3, EndStep
    <3>2. QED
      BY <2>1, <3>1, TypedFrom DEF Ended
  <2>4. QED
    BY <2>2, <2>3
<1>6. ASSUME NEW r \in Runner, r = Stopper, StopTimesOut
      PROVE  Typed'
  <2>1. /\ life' = "stopped" /\ drain' = {} /\ CutSave(Stopper)
        /\ UNCHANGED <<dirty, putKnown, missed, late>>
    BY <1>6 DEF StopTimesOut
  <2>2. CASE run[r] = Idle
    <3>1. UNCHANGED <<queueVars, captured>>
      BY <1>6, <2>2 DEF StopTimesOut
    <3>2. run' = [run EXCEPT ![r] = Idle]
      BY <1>6, <2>2, <3>1 DEF Typed, TypeOK, queueVars
    <3>3. QED
      BY <2>1, <3>1, <3>2, TypedFrom DEF queueVars
  <2>3. CASE run[r] # Idle
    <3>1. Ended(r)
      BY <1>6, <2>3, EndStep
    <3>2. QED
      BY <2>1, <3>1, TypedFrom DEF Ended
  <2>4. QED
    BY <2>2, <2>3
<1>7. CASE \/ StopBegins \/ DrainAborts \/ StopSaves \/ SaveToKv \/ AutoSaveBegins
           \/ \E ok \in BOOLEAN : AutoSaveEnds(ok)
           \/ \E k \in Commands : CommandSaves(k)
           \/ \E x \in Saver, ok \in BOOLEAN : PutEnds(x, ok)
           \/ \E s \in Session : Ages(s)
           \/ UNCHANGED vars
  <2>1. UNCHANGED <<tracked, queue, seen, run, sweep, read, forgotten, lost, captured, late>>
    BY <1>7 DEF StopBegins, DrainAborts, StopSaves, SaveToKv, AutoSaveBegins,
                AutoSaveEnds, CommandSaves, PutEnds, Ages, vars, queueVars
  <2>2. age' \in Ages3
    BY <1>7 DEF StopBegins, DrainAborts, StopSaves, SaveToKv, AutoSaveBegins,
                AutoSaveEnds, CommandSaves, PutEnds, Ages, vars, queueVars, Ages3
  <2>3. /\ life' \in {"running", "stopping", "draining", "stopped"}
        /\ drain' \in SUBSET Session /\ dirty' \in BOOLEAN /\ putKnown' \in BOOLEAN
    BY <1>7 DEF StopBegins, DrainAborts, StopSaves, SaveToKv, AutoSaveBegins,
                AutoSaveEnds, CommandSaves, PutEnds, Ages, vars, lifeVars, saveVars
  <2>4. saving' \in [Saver -> Saves3] /\ saved' \in SUBSET Msg /\ missed' \in SUBSET Msg
    <3>1. CASE \/ StopBegins \/ DrainAborts \/ SaveToKv \/ UNCHANGED vars
               \/ \E s \in Session : Ages(s)
      BY <3>1 DEF StopBegins, DrainAborts, SaveToKv, Ages, vars, saveVars
    <3>2. CASE StopSaves
      BY <3>2 DEF StopSaves
    <3>3. CASE AutoSaveBegins
      <4>1. Queued \in SUBSET Msg
        BY DEF Saves3
      <4>2. QED
        BY <3>3, <4>1 DEF AutoSaveBegins
    <3>4. CASE \E ok \in BOOLEAN : AutoSaveEnds(ok)
      BY <3>4 DEF AutoSaveEnds
    <3>5. CASE \E k \in Commands : CommandSaves(k)
      BY <3>5 DEF CommandSaves
    <3>6. CASE \E x \in Saver, ok \in BOOLEAN : PutEnds(x, ok)
      BY <3>6 DEF PutEnds
    <3>7. QED
      BY <1>7, <3>1, <3>2, <3>3, <3>4, <3>5, <3>6
  <2>5. run' = [run EXCEPT ![Stopper] = run[Stopper]]
    BY <2>1 DEF Typed, TypeOK
  <2>6. QED
    BY <2>1, <2>2, <2>3, <2>4, <2>5, TypedFrom
<1>8. QED
  BY <1>1, <1>2, <1>3, <1>4, <1>5, <1>6, <1>7 DEF Next

-----------------------------------------------------------------------------
(* No message twice *)

\* A message in hand or captured has left its text in the cache, unless the
\* cache has dropped it.
SeenInv ==
  /\ \A m \in captured : TextOf[m] \in seen \cup forgotten
  /\ \A r \in Runner : \A m \in run[r].batch : TextOf[m] \in seen \cup forgotten

OnceInv == SeenInv /\ ProcessedOnce

\* A step in which one task goes on with x, its batch perhaps captured.
LEMMA OnceKept ==
  ASSUME Typed, OnceInv, NEW r \in Runner, NEW x \in Runs,
         run' = [run EXCEPT ![r] = x], Cached(x),
         captured' \subseteq captured \cup run[r].batch
  PROVE  OnceInv'
<1>1. \A t \in Runner : run'[t] = IF t = r THEN x ELSE run[t]
  BY DEF Typed, TypeOK
<1>2. SeenInv'
  BY <1>1 DEF OnceInv, SeenInv, Cached
<1>3. \A m \in x.batch : TextOf[m] \in seen \cup forgotten => TextOf[m] \in forgotten'
  BY DEF Cached
<1>4. ASSUME NEW t \in Runner, NEW m \in run'[t].batch \cap captured'
      PROVE  TextOf[m] \in forgotten'
  <2>1. CASE t = r
    BY <1>1, <1>3, <1>4, <2>1 DEF OnceInv, SeenInv
  <2>2. CASE t # r
    BY <1>1, <1>4, <2>2 DEF OnceInv, ProcessedOnce, Cached
  <2>3. QED
    BY <2>1, <2>2
<1>5. ASSUME NEW t \in Runner, NEW u \in Runner, t # u,
             NEW m \in run'[t].batch \cap run'[u].batch
      PROVE  TextOf[m] \in forgotten'
  <2>1. CASE t = r \/ u = r
    BY <1>1, <1>3, <1>5, <2>1 DEF OnceInv, SeenInv
  <2>2. CASE t # r /\ u # r
    BY <1>1, <1>5, <2>2 DEF OnceInv, ProcessedOnce, Cached
  <2>3. QED
    BY <2>1, <2>2
<1>6. QED
  BY <1>2, <1>4, <1>5 DEF OnceInv, ProcessedOnce

\* A run that has ended leaves the cache as it is.
LEMMA EndedCached ==
  ASSUME Typed, UNCHANGED <<seen, forgotten>>
  PROVE  Cached(Idle)
BY TypedVars, TypedValues DEF Cached

\* Every step keeps apart what is captured and what each task has in hand.
LEMMA OnceStep ==
  ASSUME Typed, OnceInv, [Next]_vars
  PROVE  OnceInv'
<1> USE TypedRuns, TypedValues
<1>1. ASSUME NEW h \in Handler, NEW m \in Msg, AddMessage(h, m)
      PROVE  OnceInv'
  BY <1>1, AddStep, OnceKept DEF Added, AddMessage
<1>2. ASSUME NEW s \in Session, DrainQueue(s)
      PROVE  OnceInv'
  BY <1>2, DrainStep, OnceKept DEF Drained, DrainQueue
<1>3. CASE CleanerStep
  <2>1. PICK V \in SUBSET Session, x \in Runs : Swept(x, Passed(Resumed, V))
    BY <1>3, SweepStep
  <2>2. captured' \subseteq captured \cup run[Cleaner].batch
    BY <2>1, ResumedType, PassedType DEF Swept
  <2>3. QED
    BY <2>1, <2>2, OnceKept DEF Swept
<1>4. ASSUME NEW r \in Runner, Ended(r)
      PROVE  OnceInv'
  BY <1>4, EndedCached, OnceKept DEF Ended
<1>5. ASSUME UNCHANGED <<seen, forgotten, run, captured>>
      PROVE  OnceInv'
  BY <1>5 DEF OnceInv, SeenInv, ProcessedOnce
<1>6. ASSUME NEW r \in Runner, Finish(r)
      PROVE  OnceInv'
  BY <1>4, <1>6, EndStep DEF Finish
<1>7. CASE LoopsCancelled
  BY <1>4, <1>5, <1>7, EndStep DEF LoopsCancelled
<1>8. CASE StopTimesOut
  BY <1>4, <1>5, <1>8, EndStep DEF StopTimesOut, queueVars
<1>9. CASE \/ StopBegins \/ DrainAborts \/ StopSaves \/ SaveToKv \/ AutoSaveBegins
           \/ \E ok \in BOOLEAN : AutoSaveEnds(ok)
           \/ \E k \in Commands : CommandSaves(k)
           \/ \E x \in Saver, ok \in BOOLEAN : PutEnds(x, ok)
           \/ \E s \in Session : Ages(s)
           \/ UNCHANGED vars
  <2>1. UNCHANGED <<seen, forgotten, run, captured>>
    BY <1>9 DEF StopBegins, DrainAborts, StopSaves, SaveToKv, AutoSaveBegins,
                AutoSaveEnds, CommandSaves, PutEnds, Ages, vars, queueVars
  <2>2. QED
    BY <1>5, <2>1
<1>10. QED
  BY <1>1, <1>2, <1>3, <1>6, <1>7, <1>8, <1>9 DEF Next

\* The types and the state of the tasks before the first step.
LEMMA InitTyped == Init => Typed /\ OnceInv
<1> SUFFICES ASSUME Init PROVE Typed /\ OnceInv
  OBVIOUS
<1>1. TypeOK
  BY DEF Init, TypeOK, Idle, NoSweep, NoSave
<1>2. RunInv /\ QueuesFinite /\ OnceInv
  BY FS_EmptySet DEF Init, RunInv, QueuesFinite, OnceInv, SeenInv, ProcessedOnce, Idle
<1>3. QED
  BY <1>1, <1>2 DEF Typed

\* Every variable stays in its type, a task on no session has nothing in hand,
\* and the queues stay finite.
THEOREM BatchTypes == Spec => []TypeOK
<1>1. Typed => TypeOK
  BY DEF Typed
<1>2. QED
  BY <1>1, InitTyped, StepTyped, PTL DEF Spec

\* However many tasks process one session at once, no message is captured
\* twice, as long as the fingerprint cache has not dropped its text.
THEOREM Once == Spec => []ProcessedOnce
<1>1. Typed /\ OnceInv /\ [Next]_vars => Typed' /\ OnceInv'
  BY StepTyped, OnceStep
<1>2. OnceInv => ProcessedOnce
  BY DEF OnceInv
<1>3. QED
  BY <1>1, <1>2, InitTyped, PTL DEF Spec

-----------------------------------------------------------------------------
(* No message lost but by overlap *)

\* What a run in progress has not read of its queue was queued during it, and
\* so it is with the sessions the cleanup loop has marked stale.
OverlapInv ==
  /\ \A r \in Runner : run[r].on # NoSession => queue[run[r].on] \ read \subseteq late
  /\ \A t \in sweep.stale : queue[t] \ read \subseteq late
  /\ LossOnlyByOverlap

\* A step in which one task goes on with x and the queues do not grow.
LEMMA OverlapKept ==
  ASSUME Typed, OverlapInv, NEW r \in Runner, NEW x \in Runs,
         run' = [run EXCEPT ![r] = x],
         \A t \in Session : queue'[t] \subseteq queue[t],
         read \subseteq read', late' = late,
         x.on # NoSession => queue'[x.on] \subseteq read',
         \A t \in sweep'.stale : queue'[t] \ read' \subseteq late,
         lost' \subseteq late
  PROVE  OverlapInv'
<1>1. ASSUME NEW t \in Runner, run'[t].on # NoSession
      PROVE  queue'[run'[t].on] \ read' \subseteq late'
  <2>1. CASE t = r
    BY <1>1, <2>1 DEF Typed, TypeOK
  <2>2. CASE t # r
    <3>1. run'[t] = run[t] /\ run[t].on \in Session
      BY <1>1, <2>2, TypedRuns DEF Typed, TypeOK, Runs
    <3>2. QED
      BY <1>1, <3>1 DEF OverlapInv
  <2>3. QED
    BY <2>1, <2>2
<1>2. QED
  BY <1>1 DEF OverlapInv, LossOnlyByOverlap

\* Marks that stay are about sessions, whose queues have not grown.
LEMMA StaleKept ==
  ASSUME Typed, OverlapInv, sweep' \in Sweeps, sweep'.stale \subseteq sweep.stale,
         \A t \in Session : queue'[t] \subseteq queue[t], read \subseteq read'
  PROVE  \A t \in sweep'.stale : queue'[t] \ read' \subseteq late
BY DEF OverlapInv, Sweeps

\* A message that is queued during a run on its session, or after the session
\* was marked stale, is late.
LEMMA OverlapAdd ==
  ASSUME Typed, OverlapInv, NEW h \in Handler, NEW m \in Msg, AddMessage(h, m)
  PROVE  OverlapInv'
<1> USE TypedRuns
<1> DEFINE s == SessionOf[m]
<1>1. PICK x \in Runs : Added(x, h, m)
  BY AddStep
<1>2. /\ (s \in sweep.stale \/ \E r \in Runner : run[r].on = s) => late' = late \cup {m}
      /\ late \subseteq late' /\ lost' = lost
  BY DEF AddMessage
<1>3. \A t \in Session : queue'[t] \subseteq queue[t] \cup {n \in {m} : s = t}
  BY <1>1 DEF Added
<1>4. ASSUME NEW t \in Session, t \in sweep.stale \/ \E r \in Runner : run[r].on = t,
             queue[t] \ read \subseteq late
      PROVE  queue'[t] \ read' \subseteq late'
  BY <1>1, <1>2, <1>3, <1>4 DEF Added
<1>5. ASSUME NEW r \in Runner, run'[r].on # NoSession
      PROVE  queue'[run'[r].on] \ read' \subseteq late'
  <2>1. CASE r = h
    BY <1>1, <1>5, <2>1 DEF Added, Typed, TypeOK
  <2>2. CASE r # h
    <3>1. run'[r] = run[r] /\ run[r].on \in Session
      BY <1>1, <1>5, <2>2 DEF Added, Typed, TypeOK, Runs
    <3>2. QED
      BY <1>4, <1>5, <3>1 DEF OverlapInv
  <2>3. QED
    BY <2>1, <2>2
<1>6. ASSUME NEW t \in sweep'.stale
      PROVE  queue'[t] \ read' \subseteq late'
  <2>1. t \in sweep.stale /\ t \in Session
    BY <1>1, <1>6 DEF Added, Sweeps
  <2>2. QED
    BY <1>4, <2>1 DEF OverlapInv
<1>7. QED
  BY <1>2, <1>5, <1>6 DEF OverlapInv, LossOnlyByOverlap

\* The cleanup loop marks stale only sessions with an empty queue, and drops
\* of them what came afterwards.
LEMMA OverlapSweep ==
  ASSUME Typed, OverlapInv, CleanerStep
  PROVE  OverlapInv'
<1> USE TypedRuns
<1>1. PICK V \in SUBSET Session, x \in Runs : Swept(x, Passed(Resumed, V))
  BY SweepStep
<1> DEFINE st == Passed(Resumed, V)
<1>2. /\ Resumed \in Views /\ st \in Views
      /\ st.lost = Resumed.lost
      /\ \A t \in Session : st.queue[t] \in {{}, Resumed.queue[t]}
      /\ \A t \in st.sweep.stale : t \in Resumed.sweep.stale \/ st.queue[t] = {}
  BY ResumedType, PassedType
<1> HIDE DEF st
<1>3. \A t \in Session : st.queue[t] \subseteq queue[t]
  BY <1>2, ResumedType
<1>4. Resumed.lost \subseteq late
  BY ResumedType DEF OverlapInv, LossOnlyByOverlap
<1>5. ASSUME NEW t \in st.sweep.stale
      PROVE  t \in Session /\ st.queue[t] \ read \subseteq late
  <2>1. t \in Session
    BY <1>2 DEF Views, Sweeps
  <2>2. CASE t \in sweep.stale
    BY <1>3, <2>1, <2>2 DEF OverlapInv
  <2>3. CASE t \notin sweep.stale
    <3>1. st.queue[t] = {} \/ t = run[Cleaner].on
      BY <1>2, <2>3, ResumedType
    <3>2. st.queue[t] = {}
      BY <1>2, <2>1, <3>1, ResumedType
    <3>3. QED
      BY <2>1, <3>2
  <2>4. QED
    BY <2>2, <2>3
<1>6. \A t \in Session : queue'[t] \subseteq st.queue[t]
  BY <1>1 DEF Swept, st
<1>7. \A t \in sweep'.stale : queue'[t] \ read' \subseteq late
  BY <1>1, <1>5, <1>6 DEF Swept, st
<1>8. ASSUME NEW m \in lost'
      PROVE  m \in late
  <2>1. m \in st.lost \/ m \in (UNION {st.queue[t] : t \in st.sweep.stale}) \ read
    BY <1>1, <1>8 DEF Swept, st
  <2>2. CASE m \in st.lost
    BY <1>2, <1>4, <2>2
  <2>3. CASE m \notin st.lost
    <3>1. PICK t \in st.sweep.stale : m \in st.queue[t] \ read
      BY <2>1, <2>3
    <3>2. QED
      BY <1>5, <3>1
  <2>4. QED
    BY <2>2, <2>3
<1>9. QED
  BY <1>1, <1>3, <1>6, <1>7, <1>8, OverlapKept DEF Swept

\* The end of a run drops only what came during it.
LEMMA OverlapEnd ==
  ASSUME Typed, OverlapInv, NEW r \in Runner, Ended(r), late' = late
  PROVE  OverlapInv'
<1>1. \A t \in Session : queue'[t] \subseteq queue[t]
  BY DEF Ended
<1>2. lost' \subseteq late
  <2>1. run[r].on # NoSession
    BY ConstantsAssumption DEF Ended
  <2>2. QED
    BY <2>1 DEF Ended, OverlapInv, LossOnlyByOverlap
<1>3. QED
  BY <1>1, <1>2, StaleKept, OverlapKept, TypedValues DEF Ended

\* Every step loses a message that nobody has read only if it came late.
LEMMA OverlapStep ==
  ASSUME Typed, OverlapInv, [Next]_vars
  PROVE  OverlapInv'
<1> USE TypedRuns
<1>1. ASSUME NEW s \in Session, DrainQueue(s)
      PROVE  OverlapInv'
  <2>1. PICK x \in Runs : Drained(x, s)
    BY <1>1, DrainStep
  <2>2. late' = late /\ lost' \subseteq late
    BY <1>1 DEF DrainQueue, OverlapInv, LossOnlyByOverlap
  <2>3. QED
    BY <2>1, <2>2, StaleKept, OverlapKept DEF Drained
<1>2. ASSUME NEW r \in Runner, Finish(r)
      PROVE  OverlapInv'
  BY <1>2, EndStep, OverlapEnd DEF Finish
<1>3. ASSUME UNCHANGED <<queue, run, read, lost, late>>,
             sweep'.stale \subseteq sweep.stale
      PROVE  OverlapInv'
  BY <1>3 DEF OverlapInv, LossOnlyByOverlap
<1>4. CASE LoopsCancelled
  <2>1. CASE run[Cleaner] = Idle
    BY <1>3, <1>4, <2>1, TypedValues DEF LoopsCancelled
  <2>2. CASE run[Cleaner] # Idle
    BY <1>4, <2>2, EndStep, OverlapEnd DEF LoopsCancelled
  <2>3. QED
    BY <2>1, <2>2
<1>5. CASE StopTimesOut
  <2>1. CASE run[Stopper] = Idle
    BY <1>3, <1>5, <2>1 DEF StopTimesOut, queueVars
  <2>2. CASE run[Stopper] # Idle
    BY <1>5, <2>2, EndStep, OverlapEnd DEF StopTimesOut
  <2>3. QED
    BY <2>1, <2>2
<1>6. CASE \/ StopBegins \/ DrainAborts \/ StopSaves \/ SaveToKv \/ AutoSaveBegins
           \/ \E ok \in BOOLEAN : AutoSaveEnds(ok)
           \/ \E k \in Commands : CommandSaves(k)
           \/ \E x \in Saver, ok \in BOOLEAN : PutEnds(x, ok)
           \/ \E s \in Session : Ages(s)
           \/ UNCHANGED vars
  <2>1. UNCHANGED <<queue, run, read, lost, late>> /\ UNCHANGED sweep
    BY <1>6 DEF StopBegins, DrainAborts, StopSaves, SaveToKv, AutoSaveBegins,
                AutoSaveEnds, CommandSaves, PutEnds, Ages, vars, queueVars
  <2>2. QED
    BY <1>3, <2>1
<1>7. QED
  BY <1>1, <1>2, <1>4, <1>5, <1>6, OverlapAdd, OverlapSweep DEF Next

\* A message is dropped unread only if it was queued while a run on its own
\* session, or a cleanup that had marked it stale, was under way.
THEOREM Loss == Spec => []LossOnlyByOverlap
<1>1. Init => OverlapInv
  BY DEF Init, OverlapInv, LossOnlyByOverlap, NoSweep, Idle
<1>2. Typed /\ OverlapInv /\ [Next]_vars => Typed' /\ OverlapInv'
  BY StepTyped, OverlapStep
<1>3. OverlapInv => LossOnlyByOverlap
  BY DEF OverlapInv
<1>4. QED
  BY <1>1, <1>2, <1>3, InitTyped, PTL DEF Spec

-----------------------------------------------------------------------------
(* What the store holds *)

\* While a save awaits its put, every queued message is in what it serialised,
\* or came too late for it.
SaveInv ==
  /\ SavedUnlessMissed
  /\ \A x \in Saver : saving[x].busy => Queued \subseteq saving[x].queues \cup missed

\* Queues that do not grow leave the store as complete as it was.
LEMMA SaveKept ==
  ASSUME SaveInv, \A t \in Session : queue'[t] \subseteq queue[t], UNCHANGED saveVars
  PROVE  SaveInv'
<1>1. Queued' \subseteq Queued
  BY DEF Queued
<1>2. QED
  BY <1>1 DEF SaveInv, SavedUnlessMissed, saveVars

\* So does the end of a put, whether it took effect or not, while the dirty
\* flag stays as it is.
LEMMA PutKept ==
  ASSUME Typed, SaveInv, \A t \in Session : queue'[t] \subseteq queue[t],
         UNCHANGED <<dirty, missed>>, NEW x \in Saver,
         saving' = [saving EXCEPT ![x] = NoSave],
         saved' \in {saved, IF saving[x].busy THEN saving[x].queues ELSE saved}
  PROVE  SaveInv'
<1>1. Queued' \subseteq Queued
  BY DEF Queued
<1>2. saving \in [Saver -> Saves3]
  BY TypedVars
<1>3. ~dirty => Queued \subseteq saved' \cup missed
  BY DEF SaveInv, SavedUnlessMissed
<1>4. \A y \in Saver : saving'[y].busy => saving[y].busy /\ saving'[y].queues = saving[y].queues
  BY <1>2 DEF NoSave
<1>5. QED
  BY <1>1, <1>3, <1>4 DEF SaveInv, SavedUnlessMissed

\* And the beginning of a save, which serialises all that is queued.
LEMMA BeginKept ==
  ASSUME Typed, SaveInv, queue' = queue, NEW x \in Saver,
         saving' = [saving EXCEPT ![x] = [busy |-> TRUE, queues |-> Queued]],
         UNCHANGED <<dirty, saved>>,
         missed' = missed \/ (dirty /\ Quiet)
  PROVE  SaveInv'
<1>1. Queued' = Queued
  BY DEF Queued
<1>2. saving \in [Saver -> Saves3]
  BY TypedVars
<1>3. dirty' => SavedUnlessMissed'
  BY DEF SavedUnlessMissed
<1>4. \A y \in Saver : saving'[y] = IF y = x THEN [busy |-> TRUE, queues |-> Queued] ELSE saving[y]
  BY <1>2
<1>5. \A y \in Saver : saving'[y].busy => Queued' \subseteq saving'[y].queues \cup missed'
  BY <1>1, <1>4 DEF SaveInv, Quiet
<1>6. SavedUnlessMissed'
  BY <1>1, <1>3 DEF SaveInv, SavedUnlessMissed
<1>7. QED
  BY <1>5, <1>6 DEF SaveInv

\* Every step keeps the store complete but for what a save could not cover.
LEMMA SaveStep ==
  ASSUME Typed, SaveInv, [Next]_vars
  PROVE  SaveInv'
<1> USE TypedRuns
<1>1. ASSUME NEW h \in Handler, NEW m \in Msg, AddMessage(h, m)
      PROVE  SaveInv'
  <2>1. PICK x \in Runs : Added(x, h, m)
    BY <1>1, AddStep
  <2>2. Queued' \subseteq Queued \cup {m}
    BY <2>1 DEF Added, Queued
  <2>3. /\ dirty' = TRUE /\ saving' = saving
        /\ missed' = IF Quiet THEN missed ELSE missed \cup {m}
    BY <1>1 DEF AddMessage
  <2>4. QED
    BY <2>2, <2>3 DEF SaveInv, SavedUnlessMissed, Quiet
<1>2. ASSUME NEW r \in Runner, Finish(r)
      PROVE  SaveInv'
  <2>1. Ended(r) /\ UNCHANGED saveVars
    BY <1>2, EndStep DEF Finish
  <2>2. QED
    BY <2>1, SaveKept DEF Ended
<1>3. ASSUME NEW s \in Session, DrainQueue(s)
      PROVE  SaveInv'
  <2>1. PICK x \in Runs : Drained(x, s)
    BY <1>3, DrainStep
  <2>2. UNCHANGED saveVars
    BY <1>3 DEF DrainQueue
  <2>3. QED
    BY <2>1, <2>2, SaveKept DEF Drained
<1>4. CASE CleanerStep
  <2>1. PICK V \in SUBSET Session, x \in Runs : Swept(x, Passed(Resumed, V))
    BY <1>4, SweepStep
  <2>2. \A t \in Session : queue'[t] \subseteq queue[t]
    BY <2>1, ResumedType, PassedType DEF Swept
  <2>3. QED
    BY <2>1, <2>2, SaveKept DEF Swept
<1>5. CASE LoopsCancelled
  <2>1. \A t \in Session : queue'[t] \subseteq queue[t]
    <3>1. CASE run[Cleaner] = Idle
      BY <1>5, <3>1 DEF LoopsCancelled
    <3>2. CASE run[Cleaner] # Idle
      BY <1>5, <3>2, EndStep DEF Ended
    <3>3. QED
      BY <3>1, <3>2
  <2>2. CutSave(AutoSaver) /\ UNCHANGED <<dirty, missed>>
    BY <1>5 DEF LoopsCancelled
  <2>3. QED
    BY <2>1, <2>2, PutKept, SavesTyped DEF CutSave
<1>6. CASE StopTimesOut
  <2>1. \A t \in Session : queue'[t] \subseteq queue[t]
    <3>1. CASE run[Stopper] = Idle
      BY <1>6, <3>1 DEF StopTimesOut, queueVars
    <3>2. CASE run[Stopper] # Idle
      BY <1>6, <3>2, EndStep DEF StopTimesOut, Ended
    <3>3. QED
      BY <3>1, <3>2
  <2>2. CutSave(Stopper) /\ UNCHANGED <<dirty, missed>>
    BY <1>6 DEF StopTimesOut
  <2>3. QED
    BY <2>1, <2>2, PutKept, SavesTyped DEF CutSave
<1>7. CASE StopBegins \/ DrainAborts \/ (\E s \in Session : Ages(s)) \/ UNCHANGED vars
  BY <1>7, SaveKept DEF StopBegins, DrainAborts, Ages, vars, queueVars
<1>8. CASE StopSaves \/ SaveToKv
  <2>1. CASE saving' = saving
    BY <1>8, <2>1 DEF StopSaves, SaveToKv, SaveInv, SavedUnlessMissed, Queued, queueVars
  <2>2. CASE saving' # saving
    BY <1>8, <2>2, BeginKept, SavesTyped DEF StopSaves, SaveToKv, queueVars
  <2>3. QED
    BY <2>1, <2>2
<1>9. CASE AutoSaveBegins
  <2>1. queue' = queue /\ saved' = saved
    BY <1>9 DEF AutoSaveBegins, queueVars
  <2>2. CASE putKnown
    <3>1. /\ saving' = [saving EXCEPT ![AutoSaver] = [busy |-> TRUE, queues |-> Queued]]
          /\ missed' = missed \/ (dirty /\ Quiet)
          /\ UNCHANGED dirty
      BY <1>9, <2>2 DEF AutoSaveBegins
    <3>2. QED
      BY <2>1, <3>1, BeginKept, SavesTyped
  <2>3. CASE ~putKnown
    <3>1. missed' = missed \cup Queued /\ saving' = saving
      BY <1>9, <2>3 DEF AutoSaveBegins
    <3>2. Queued' = Queued
      BY <2>1 DEF Queued
    <3>3. QED
      BY <2>1, <3>1, <3>2 DEF SaveInv, SavedUnlessMissed
  <2>4. QED
    BY <2>2, <2>3
<1>10. ASSUME NEW ok \in BOOLEAN, AutoSaveEnds(ok)
       PROVE  SaveInv'
  <2>1. queue' = queue
    BY <1>10 DEF AutoSaveEnds, queueVars
  <2>2. Queued' = Queued
    BY <2>1 DEF Queued
  <2>3. saving \in [Saver -> Saves3] /\ AutoSaver \in Saver
    BY TypedVars, SavesTyped
  <2>4. /\ saving[AutoSaver].busy /\ missed \subseteq missed'
        /\ saving' = [saving EXCEPT ![AutoSaver] = NoSave]
        /\ saved' = saving[AutoSaver].queues \/ saving[AutoSaver].queues \subseteq missed'
    BY <1>10 DEF AutoSaveEnds
  <2>5. Queued \subseteq saved' \cup missed'
    BY <2>3, <2>4 DEF SaveInv
  <2>6. \A y \in Saver : saving'[y].busy => saving[y].busy /\ saving'[y].queues = saving[y].queues
    BY <2>3, <2>4 DEF NoSave
  <2>7. QED
    BY <2>2, <2>4, <2>5, <2>6 DEF SaveInv, SavedUnlessMissed
<1>11. ASSUME NEW k \in Commands, CommandSaves(k)
       PROVE  SaveInv'
  <2>1. /\ k \in Saver /\ queue' = queue /\ UNCHANGED <<dirty, saved, missed>>
        /\ saving' = [saving EXCEPT ![k] = [busy |-> TRUE, queues |-> Queued]]
    BY <1>11 DEF CommandSaves, Saver, queueVars
  <2>2. QED
    BY <2>1, BeginKept
<1>12. ASSUME NEW x \in Saver, NEW ok \in BOOLEAN, PutEnds(x, ok)
       PROVE  SaveInv'
  <2>1. /\ queue' = queue /\ UNCHANGED <<dirty, missed>>
        /\ saving' = [saving EXCEPT ![x] = NoSave]
        /\ saved' \in {saved, IF saving[x].busy THEN saving[x].queues ELSE saved}
    BY <1>12 DEF PutEnds, queueVars
  <2>2. QED
    BY <2>1, PutKept
<1>13. QED
  BY <1>1, <1>2, <1>3, <1>4, <1>5, <1>6, <1>7, <1>8, <1>9, <1>10, <1>11, <1>12 DEF Next

\* However saves overlap and puts end or fail: when the dirty flag of the queues
\* is down, the store holds every queued message but those queued while a save was
\* under way, or whose automatic put failed, since the last one that began alone.
THEOREM Saves == Spec => []SavedUnlessMissed
<1>1. Init => SaveInv
  BY DEF Init, SaveInv, SavedUnlessMissed, Queued, NoSave
<1>2. Typed /\ SaveInv /\ [Next]_vars => Typed' /\ SaveInv'
  BY StepTyped, SaveStep
<1>3. SaveInv => SavedUnlessMissed
  BY DEF SaveInv
<1>4. QED
  BY <1>1, <1>2, <1>3, InitTyped, PTL DEF Spec

=============================================================================
