---------------------------- MODULE Persistence ----------------------------
(* What the plugin keeps in AstrBot's key-value store                         *)
(* (services/persistence_service.py): every key is loaded at the start, and   *)
(* saved by commands and at the end, one after the other; an exception ends   *)
(* the row. The batch processor saves its queues by itself, on a timer and    *)
(* when it stops. Commands clear and reset what is in memory                  *)
(* (commands/handlers.py). A content is the number of its last change.        *)
EXTENDS Naturals, Sequences, Functions

CONSTANTS
    Commands,     \* commands that save and may overlap
    MaxChanges    \* changes of all keys

VARIABLES
    phase,     \* "down", "loading", "up", "stopping"
    mem,       \* a key's content in memory; down, what it was
    kv,        \* its content in the store
    changes,   \* the changes so far
    at,        \* where the loading and the saves are in Order
    took,      \* what a save has serialized
    hold,      \* whether it still has it to put, and whether another put the key meanwhile
    putKnown,  \* _cached_put_kv_data: save_to_kv was called
    unread,    \* the keys this start did not load, or not all of
    quiet      \* since the last save_to_kv began nothing changed, failed or overlapped it

vars == <<phase, mem, kv, changes, at, took, hold, putKnown, unread, quiet>>

\* Three keys, as they are loaded and saved: one that a reset clears in memory, the
\* queues, which it does not (like the histories, the whitelist, the identities and the
\* activity), and the personas, which are not saved when there are none.
Order == <<"sessions", "queues", "personas">>
Keys == Range(Order)
Queues == 2
Saves == Commands \cup {"stop", "auto"}
Rows == Saves \cup {"load"}

Nothing == [change |-> 0, empty |-> TRUE]
Rest == [change |-> 0, empty |-> FALSE]
All(x) == [k \in Keys |-> x]

Init ==
    /\ phase = "down" /\ mem = All(Nothing) /\ kv = All(Nothing) /\ changes = 0
    /\ at = [r \in Rows |-> 0]
    /\ took = [s \in Saves |-> Nothing] /\ hold = [s \in Saves |-> "nothing"]
    /\ putKnown = FALSE /\ unread = {} /\ quiet = FALSE

Next1(r) == at' = [at EXCEPT ![r] = IF r = "auto" \/ @ = Len(Order) THEN 0 ELSE @ + 1]
Abort(r) == at' = [at EXCEPT ![r] = 0]

-----------------------------------------------------------------------------
(* initialize, load_from_kv.                                                 *)

Start ==
    /\ phase = "down"
    /\ phase' = "loading" /\ mem' = All(Nothing) /\ at' = [at EXCEPT !["load"] = 1]
    /\ putKnown' = FALSE /\ unread' = Keys
    /\ UNCHANGED <<kv, changes, took, hold, quiet>>

\* A persona that cannot be read is skipped, everything else raises.
Load ==
    /\ phase = "loading" /\ at["load"] # 0
    /\ LET k == Order[at["load"]] IN
         \/ /\ mem' = [mem EXCEPT ![k] = kv[k]] /\ unread' = unread \ {k}
            /\ Next1("load")
         \/ /\ k = "personas" /\ ~kv[k].empty
            /\ mem' = [mem EXCEPT ![k] = Rest]
            /\ Next1("load")
            /\ UNCHANGED unread
         \/ /\ Abort("load")
            /\ UNCHANGED <<mem, unread>>
    /\ UNCHANGED <<phase, kv, changes, took, hold, putKnown, quiet>>

Loaded ==
    /\ phase = "loading" /\ at["load"] = 0
    /\ phase' = "up"
    /\ UNCHANGED <<mem, kv, changes, at, took, hold, putKnown, unread, quiet>>

-----------------------------------------------------------------------------
(* save_to_kv, by a command and by terminate, and _save_batch_queues.        *)

BeginSave(s) ==
    /\ at' = [at EXCEPT ![s] = 1]
    /\ putKnown' = TRUE /\ quiet' = \A other \in Saves : at[other] = 0
    /\ UNCHANGED <<mem, kv, changes, took, hold, unread>>

CommandSaves(c) == phase = "up" /\ at[c] = 0 /\ BeginSave(c) /\ UNCHANGED phase
Stop == phase = "up" /\ phase' = "stopping" /\ BeginSave("stop")

\* The timer's save, and that of capture.stop: nothing before save_to_kv told it how.
AutoSaves ==
    /\ phase \in {"up", "stopping"} /\ at["auto"] = 0 /\ putKnown
    /\ at' = [at EXCEPT !["auto"] = Queues]
    /\ UNCHANGED <<phase, mem, kv, changes, took, hold, putKnown, unread, quiet>>

\* Mutant: no key is saved empty.
Skipped_AllEmpty(k) == mem[k].empty

Skipped(k) == k = "personas" /\ mem[k].empty

Serialize(s) ==
    /\ at[s] # 0 /\ hold[s] = "nothing"
    /\ LET k == Order[at[s]] IN
         IF Skipped(k) THEN Next1(s) /\ UNCHANGED <<took, hold>>
         ELSE /\ took' = [took EXCEPT ![s] = mem[k]]
              /\ hold' = [hold EXCEPT ![s] = "newest"]
              /\ UNCHANGED at
    /\ UNCHANGED <<phase, mem, kv, changes, putKnown, unread, quiet>>

\* What the others hold of this key is overtaken.
Put(s) ==
    /\ at[s] # 0 /\ hold[s] # "nothing"
    /\ took' = [took EXCEPT ![s] = Nothing]
    /\ \/ /\ kv' = [kv EXCEPT ![Order[at[s]]] = took[s]]
          /\ hold' = [o \in Saves |-> IF o = s THEN "nothing"
                        ELSE IF hold[o] # "nothing" /\ at[o] = at[s] THEN "overtaken" ELSE hold[o]]
          /\ Next1(s)
          /\ UNCHANGED quiet
       \/ /\ hold' = [hold EXCEPT ![s] = "nothing"]
          /\ Abort(s) /\ quiet' = (quiet /\ s = "auto")
          /\ UNCHANGED kv
    /\ UNCHANGED <<phase, mem, changes, putKnown, unread>>

\* capture.stop cancels the timer's save before its own, and is itself cut off.
CutAuto ==
    /\ phase = "stopping" /\ at["auto"] # 0
    /\ Abort("auto")
    /\ took' = [took EXCEPT !["auto"] = Nothing] /\ hold' = [hold EXCEPT !["auto"] = "nothing"]
    /\ UNCHANGED <<phase, mem, kv, changes, putKnown, unread, quiet>>

Ends ==
    /\ phase' = "down" /\ at' = [r \in Rows |-> 0]
    /\ took' = [s \in Saves |-> Nothing] /\ hold' = [s \in Saves |-> "nothing"]
    /\ UNCHANGED <<mem, kv, changes, putKnown, unread>>

\* The rest of terminate; what commands still save is lost with the process.
Stopped == phase = "stopping" /\ at["stop"] = 0 /\ Ends /\ UNCHANGED quiet

Crash == phase # "down" /\ Ends /\ quiet' = FALSE

-----------------------------------------------------------------------------
Become(K, empty) ==
    /\ changes < MaxChanges
    /\ changes' = changes + 1
    /\ mem' = [k \in Keys |-> IF k \in K THEN [change |-> changes + 1, empty |-> empty] ELSE mem[k]]
    /\ quiet' = FALSE
    /\ UNCHANGED <<phase, kv, at, took, hold, putKnown, unread>>

\* Messages go on while a save waits.
Change(k) == phase \in {"up", "stopping"} /\ Become({k}, FALSE)

\* /iris persona clear all, or reset of the last persona; a save follows.
ClearPersonas == phase = "up" /\ ~mem["personas"].empty /\ Become({"personas"}, TRUE)

\* /iris reset confirm: the keys are deleted one after the other, each unless it fails,
\* then the personas and the sessions are cleared in memory.
ResetKey(k) ==
    /\ phase = "up"
    /\ kv' = [kv EXCEPT ![k] = Nothing] /\ quiet' = FALSE
    /\ UNCHANGED <<phase, mem, changes, at, took, hold, putKnown, unread>>
ResetMemory == phase = "up" /\ Become({"sessions", "personas"}, TRUE)

Next ==
    \/ Start \/ Load \/ Loaded
    \/ \E c \in Commands : CommandSaves(c)
    \/ Stop \/ AutoSaves \/ CutAuto \/ Stopped \/ Crash
    \/ \E s \in Saves : Serialize(s) \/ Put(s)
    \/ \E k \in Keys : Change(k) \/ ResetKey(k)
    \/ ClearPersonas \/ ResetMemory

Spec == Init /\ [][Next]_vars

-----------------------------------------------------------------------------
\* After a stop whose save nothing disturbed, the store holds what was in memory, but
\* for personas that were cleared, however the queues were saved besides.
StopKeeps ==
    phase = "down" /\ quiet => \A k \in Keys : kv[k] = mem[k] \/ (k = "personas" /\ mem[k].empty)

\* A content in the store is replaced by an older one in three ways only: a reset
\* deletes it; a save puts what it serialized before another one put the key; or this
\* start did not load the key, save_to_kv was called, and what is put is the nothing,
\* or the rest, that memory was left with. A key that was loaded never goes back
\* otherwise, whatever crashes, fails and overlaps.
NoGoingBack ==
    [][\A k \in Keys : kv'[k].change < kv[k].change =>
          \/ ResetKey(k)
          \/ \E s \in Saves :
                /\ Put(s) /\ k = Order[at[s]] /\ putKnown
                /\ hold[s] = "overtaken" \/ (k \in unread /\ took[s].change = 0)]_vars

\* Do not hold: the same for keys that were not loaded (the stop after an aborted load
\* saves the empty rest over the store, persistence_service.py:250-255); personas that
\* were cleared and saved are gone after a restart (an empty dictionary is not saved,
\* :414); a reset and the restart it recommends leave nothing (handlers.py:443: the
\* stop saves what the reset left in memory).
LoadedOrKept ==
    [][\A k \in unread : kv'[k].change < kv[k].change => ResetKey(k)]_vars
ClearedStaysCleared ==
    [][quiet /\ phase = "down" /\ mem["personas"].empty /\ Start => kv["personas"].empty]_vars
ResetForgets == [][ResetMemory => \A k \in Keys : mem'[k].empty]_vars
=============================================================================
