---------------------------- MODULE ChatHistory ----------------------------
(* ChatHistoryBuffer (storage/chat_history_buffer.py): the last messages of  *)
(* each chat, the limit that apply_config and the context builder move, and  *)
(* the copy that persistence writes and a restart reads back. Messages are   *)
(* numbered by chat in the order they were said.                             *)
EXTENDS Naturals, Sequences

CONSTANTS
    Chats, MaxSaid,
    Limits,        \* values of chat_context_count
    ConfigLimit    \* the limit the buffer is created with

VARIABLES
    buffers,    \* _buffers: a chat that was never used or was cleared has none
    limit,      \* max_messages
    said,       \* history: number of the latest message each chat remembers
    saved       \* what the last save wrote: [limit, buffers], or nothing

vars == <<buffers, limit, said, saved>>

Nothing == [limit |-> 0, buffers |-> [c \in Chats |-> <<>>]]
Newest(s, n) == IF Len(s) > n THEN SubSeq(s, Len(s) - n + 1, Len(s)) ELSE s

Init ==
    /\ buffers = [c \in Chats |-> <<>>]
    /\ limit = ConfigLimit
    /\ said = [c \in Chats |-> 0]
    /\ saved = Nothing

-----------------------------------------------------------------------------
AddMessage(c) ==
    /\ said[c] < MaxSaid
    /\ said' = [said EXCEPT ![c] = @ + 1]
    /\ buffers' = [buffers EXCEPT ![c] = Newest(Append(@, said'[c]), limit)]
    /\ UNCHANGED <<limit, saved>>

Rebuilt(s, n) == Newest(s, n)

\* set_max_messages by apply_config, and by the context builder when a group
\* wants more than the buffer keeps.
SetMaxMessages(n) ==
    /\ n # limit
    /\ limit' = n
    /\ buffers' = [c \in Chats |-> Rebuilt(buffers[c], n)]
    /\ UNCHANGED <<said, saved>>

Clear(cs) ==
    /\ \E c \in cs : buffers[c] # <<>>
    /\ buffers' = [c \in Chats |-> IF c \in cs THEN <<>> ELSE buffers[c]]
    /\ UNCHANGED <<limit, said, saved>>

Save ==
    /\ saved' = [limit |-> limit, buffers |-> buffers]
    /\ UNCHANGED <<buffers, limit, said>>

Loaded == IF saved = Nothing THEN ConfigLimit ELSE saved.limit

\* The process ends, with or without a save, and a new one deserializes: the
\* saved limit replaces the configured one.
Restart ==
    /\ limit' = Loaded
    /\ buffers' = saved.buffers
    /\ said' = [c \in Chats |-> LET b == saved.buffers[c] IN IF b = <<>> THEN 0 ELSE b[Len(b)]]
    /\ UNCHANGED saved

Next ==
    \/ \E c \in Chats : AddMessage(c) \/ Clear({c})
    \/ \E n \in Limits : SetMaxMessages(n)
    \/ Clear(Chats) \/ Save \/ Restart

Spec == Init /\ [][Next]_vars

-----------------------------------------------------------------------------
\* What the model is shown of a chat is its recent past without a gap: the
\* latest messages, in order, whatever limits, clearings and restarts came between.
HistoryIsRecentTail ==
    \A c \in Chats : LET b == buffers[c] IN
        b # <<>> => b = [i \in 1..Len(b) |-> said[c] - Len(b) + i]

\* No buffer, saved or live, outgrows the limit that goes with it.
HistoryFits ==
    \A c \in Chats : Len(buffers[c]) <= limit /\ Len(saved.buffers[c]) <= saved.limit

\* Chat histories are gapless recent tails within their limits.
ChatHistorySound == HistoryIsRecentTail /\ HistoryFits
=============================================================================
