---------------------------- MODULE ConfigStore ----------------------------
(* The configuration (config/): a value is the user's (Level 1), the plugin's *)
(* own file (Level 2) or the schema's default; it is loaded and validated     *)
(* once, read through a cache that looks at the user's configuration again,   *)
(* set from the web console, saved to the file after a backup, and announced  *)
(* to subscribers. Everything runs in one event loop; no section with a       *)
(* subscriber has a key that can be set, so announcements reach nobody.       *)
EXTENDS Naturals, FiniteSets

VARIABLES
    user,      \* the user's configuration, which AstrBot changes in place
    file,      \* iris_config.json: [state |-> "absent", "torn" or "whole", map |-> ...]
    backup,    \* what restore_latest would find: the newest copy that can be read
    data,      \* _data
    cache      \* _cache, the entries not expired

vars == <<user, file, backup, data, cache>>

\* One key of each kind: READONLY, WRITABLE but of the user's configuration too
\* (chat_history.enable_group), and WRITABLE.
Keys == {"ro", "both", "rw"}
Writable == {"both", "rw"}
Users == {"ro", "both"}

\* Default and 1 are valid; Text is 1 in another type, Bad out of its range.
Default == 0
Text == 2
Bad == 3
None == 4

Empty == [k \in Keys |-> None]
Absent == [state |-> "absent", map |-> Empty]

-----------------------------------------------------------------------------
(* validators.py, loader.py.                                                 *)

\* validate_field, for what it accepts.
Validated(v) == CASE v = None -> Default [] v = Text -> 1 [] OTHER -> v

Merged(u, f) ==
    [k \in Keys |-> IF k \in Users /\ u[k] # None THEN u[k]
                    ELSE IF f.state = "whole" /\ f.map[k] # None THEN f.map[k] ELSE Default]

\* load: validate_dict raises if any value is bad, and nothing is validated then.
\* A file that cannot be parsed is an empty one.
Loaded(u, f) ==
    LET m == Merged(u, f)
    IN IF \E k \in Keys : m[k] = Bad THEN m ELSE [k \in Keys |-> Validated(m[k])]

Init ==
    /\ user = [k \in Users |-> Default] /\ file = Absent /\ backup = Absent
    /\ data = [k \in Keys |-> Default] /\ cache = Empty

\* The plugin starts (again): init_store.
Start ==
    /\ data' = Loaded(user, file) /\ cache' = Empty
    /\ UNCHANGED <<user, file, backup>>

-----------------------------------------------------------------------------
(* store.py.                                                                 *)

\* get: a cached value, else the user's as it is now, unvalidated, else _data's.
Get(k) ==
    /\ cache[k] = None
    /\ LET v == IF k \in Users /\ user[k] # None THEN user[k] ELSE data[k] IN
         data' = [data EXCEPT ![k] = v] /\ cache' = [cache EXCEPT ![k] = v]
    /\ UNCHANGED <<user, file, backup>>

\* A cached value expires after DEFAULT_CACHE_TTL.
Expire(k) ==
    /\ cache[k] # None
    /\ cache' = [cache EXCEPT ![k] = None]
    /\ UNCHANGED <<user, file, backup, data>>

\* _persist: what differs from its default, after a copy of the file; the copy or
\* the writing may fail, which only the log tells, or leave half a file, as a crash may.
Persist ==
    /\ backup' \in IF file.state = "whole" THEN {file, backup} ELSE {backup}
    /\ file' \in {[state |-> "whole",
                   map |-> [k \in Keys |-> IF k \in Writable /\ data'[k] # Default THEN data'[k] ELSE None]],
                  file, [state |-> "torn", map |-> Empty]}

\* Mutant: the cached value stays.
Write_KeepsCache(new) ==
    /\ data' = [k \in Keys |-> IF k \in DOMAIN new THEN new[k] ELSE data[k]]
    /\ UNCHANGED cache
    /\ Persist /\ UNCHANGED user

Write(new) ==
    /\ data' = [k \in Keys |-> IF k \in DOMAIN new THEN new[k] ELSE data[k]]
    /\ cache' = [k \in Keys |-> IF k \in DOMAIN new THEN None ELSE cache[k]]
    /\ Persist /\ UNCHANGED user

\* set and set_batch: the keys that can be set, to values that can be validated and
\* are new; the others are errors of theirs alone.
Set(updates) ==
    LET changed == {k \in DOMAIN updates : /\ k \in Writable /\ updates[k] # Bad
                                           /\ Validated(updates[k]) # data[k]}
    IN /\ changed # {}
       /\ Write([k \in changed |-> Validated(updates[k])])

Sets ==
    \/ \E k \in Writable, v \in {Default, 1, Bad} : Set([x \in {k} |-> v])
    \/ \E v \in {Default, Text} : Set([k \in Keys |-> v])

-----------------------------------------------------------------------------
\* AstrBot's configuration page, and an edit of the plugin's file by hand.
UserEdits ==
    /\ \/ \E v \in {Default, Bad} : user' = [user EXCEPT !["ro"] = v]
       \/ \E v \in {Default, 1} : user' = [user EXCEPT !["both"] = v]
    /\ UNCHANGED <<file, backup, data, cache>>
FileEdited ==
    /\ \E v \in {Text, Bad} : file' = [state |-> "whole", map |-> [Empty EXCEPT !["rw"] = v]]
    /\ UNCHANGED <<user, backup, data, cache>>

Next ==
    \/ Start \/ Sets \/ UserEdits \/ FileEdited
    \/ \E k \in Keys : Get(k) \/ Expire(k)

Spec == Init /\ [][Next]_vars

-----------------------------------------------------------------------------
\* What the cache answers is what _data holds, so a value set is the value read
\* as long as the user has none.
CacheCoherent == \A k \in Keys : cache[k] # None => cache[k] = data[k]

\* What is written is what the next start loads, for each key the user has not.
SavedIsLoaded ==
    [][\A v \in {Default, 1} :
         data["rw"] # v /\ data'["rw"] = v /\ file' # file /\ file'.state = "whole" =>
           Loaded(user, file')["rw"] = v]_vars

\* Only a start brings in a value that is not valid for a key of the plugin's, and
\* only a start or a change of the user's alters a key that is not to be written.
BadOnlyLoaded ==
    [][/\ data'["rw"] \in {Text, Bad} /\ data'["rw"] # data["rw"] => data' = Loaded(user, file)
       /\ data'["ro"] # data["ro"] => data'["ro"] = user["ro"] \/ data' = Loaded(user, file)]_vars

\* Do not hold: "downgraded to its default" (loader.py:73), a value is valid once
\* loaded; and what the web console was told is set is set (chat_history.enable_group
\* is of the user's configuration, which get prefers).
LoadedIsValid == [][data' = Loaded(user, file) /\ cache' = Empty => \A k \in Keys : data'[k] \in {Default, 1}]_vars
SetCounts == [][\A k \in Writable : Get(k) => data'[k] = data[k]]_vars
=============================================================================
