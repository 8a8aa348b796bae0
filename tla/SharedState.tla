---------------------------- MODULE SharedState ----------------------------
(* services/shared_state.py: the per-user emotional states and personas, two *)
(* BoundedDicts (utils/bounded_dict.py), each of which forgets its least     *)
(* recently used key. A persona holds a reference to the emotional state of  *)
(* its user.                                                                 *)
EXTENDS Naturals, Sequences, FiniteSets, Functions

CONSTANTS
    Users,
    MaxUsers,    \* max_size of the dictionaries
    MaxObjects   \* bound on emotional states ever created

VARIABLES
    emotions,   \* _user_emotional_states, least recently used first: [user, ref]
    personas,   \* _user_personas: [user, ref], ref the bound emotional state
    made,       \* emotional states created so far: references are numbers
    evicted     \* history: emotional states the dictionary forgot

vars == <<emotions, personas, made, evicted>>

Has(d, u) == \E i \in DOMAIN d : d[i].user = u
Place(d, u) == CHOOSE i \in DOMAIN d : d[i].user = u
Entry(d, u) == d[Place(d, u)]
\* What is left when the i-th entry is taken out.
Popped(s, i) == SubSeq(s, 1, i - 1) \o SubSeq(s, i + 1, Len(s))
Others(d, u) == IF Has(d, u) THEN Popped(d, Place(d, u)) ELSE d

\* BoundedDict.__setitem__ and _evict.
Put(d, e) ==
    LET s == Append(Others(d, e.user), e) IN IF Len(s) > MaxUsers THEN Tail(s) ELSE s

\* __getitem__: a key that is read becomes the newest.
Touch(d, u) == Append(Others(d, u), Entry(d, u))

Init ==
    /\ emotions = <<>> /\ personas = <<>> /\ made = 0
    /\ evicted = {}

-----------------------------------------------------------------------------
\* get_or_create_emotional_state.
Emotion(u) ==
    IF Has(emotions, u) THEN emotions' = Touch(emotions, u) /\ UNCHANGED <<made, evicted>>
    ELSE /\ made < MaxObjects
         /\ made' = made + 1
         /\ emotions' = Put(emotions, [user |-> u, ref |-> made'])
         /\ evicted' = evicted \cup {e.ref : e \in Range(emotions) \ Range(emotions')}

GetEmotion(u) == Emotion(u) /\ UNCHANGED personas

\* Mutant: the persona gets a state of its own.
BoundTo_Own(u) == made + 1

BoundTo(u) == Entry(emotions', u).ref

\* get_or_create_user_persona: a new persona is bound to the user's state.
GetPersona(u) ==
    /\ IF Has(personas, u)
       THEN personas' = Touch(personas, u) /\ UNCHANGED <<emotions, made, evicted>>
       ELSE Emotion(u) /\ personas' = Put(personas, [user |-> u, ref |-> BoundTo(u)])

\* bind_persona_to_emotional_state, after the personas are loaded.
Bind(u) ==
    /\ Has(personas, u)
    /\ Emotion(u)
    /\ personas' = Append(Others(personas, u), [user |-> u, ref |-> BoundTo(u)])

DeletePersona(u) ==
    /\ Has(personas, u)
    /\ personas' = Others(personas, u)
    /\ UNCHANGED <<emotions, made, evicted>>

Next ==
    \/ \E u \in Users : GetEmotion(u) \/ GetPersona(u) \/ Bind(u) \/ DeletePersona(u)

Spec == Init /\ [][Next]_vars

-----------------------------------------------------------------------------
\* The dictionaries never outgrow their limit, and no key is twice in one.
SharedStateBounded ==
    \A d \in {emotions, personas} : Len(d) <= MaxUsers /\ IsInjective([i \in DOMAIN d |-> d[i].user])

\* A persona follows the emotional state its user has now, unless the
\* dictionary of emotional states forgot the one it was bound to: the two
\* dictionaries evict independently.
BindingLostByEviction ==
    \A i \in DOMAIN personas : LET p == personas[i] IN
        Has(emotions, p.user) /\ Entry(emotions, p.user).ref # p.ref => p.ref \in evicted

\* The shared dictionaries keep their limit, and what they hold of one user
\* belongs together unless an eviction took one of the two.
SharedStateSound == SharedStateBounded /\ BindingLostByEviction

\* (Does not hold: emotional states are evicted while their persona stays.)
\* A persona is bound to the current emotional state of its user.
BindingCurrent ==
    \A i \in DOMAIN personas : LET p == personas[i] IN
        Has(emotions, p.user) => Entry(emotions, p.user).ref = p.ref
=============================================================================
