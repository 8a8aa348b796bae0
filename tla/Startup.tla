------------------------------ MODULE Startup ------------------------------
(* The plugin's parts that run or hold something on their own, as they come   *)
(* up and go (main.py, services/memory_service.py, services/initializer.py,   *)
(* services/modules/, PersistenceService.terminate): what fails in the core   *)
(* ends the start, the rest is left out; a stop takes what there is in turn,  *)
(* each within so many seconds. Parts that are but objects, and the settings  *)
(* they are given, are left out.                                              *)
EXTENDS Naturals, Sequences, FiniteSets, Functions

CONSTANTS
    Off,      \* the sets of parts the configuration may turn off
    MaxTasks  \* message tasks at a time

VARIABLES
    off,      \* those turned off
    at,       \* the start's next step, "ready", "failed", "stopping" or "ended"
    stops,    \* steps of the stop that are done
    up,       \* parts that run
    begun,    \* parts that ever did
    services, \* _create_services has run, so there is a _persistence
    ready,    \* _is_initialized
    stuck,    \* parts whose stop failed or took too long
    tasks     \* message tasks nobody waits for

vars == <<off, at, stops, up, begun, services, ready, stuck, tasks>>

\* What starts, in order; finalize is config, batch and persona_batch in three tasks.
Starts == <<"chroma", "lifecycle", "kg", "kg_scheduler", "proactive", "reinforcement",
            "finalize", "services", "jobs">>
Core == {"chroma", "lifecycle"}

\* What works on what, where both run.
Needs(p) ==
    CASE p = "lifecycle"     -> {"chroma"}
      [] p = "kg_scheduler"  -> {"kg"}
      [] p = "reinforcement" -> {"chroma"}
      [] p = "batch"         -> {"chroma", "kg", "proactive", "persona_batch"}
      [] p = "jobs"          -> {"chroma", "lifecycle", "kg", "persona_batch"}
      [] OTHER               -> {}

\* Mutant: the storage is closed before those who write to it.
Stops_StorageFirst == <<{"jobs"}, {"lifecycle", "chroma"}, {"batch"}, {"persona_batch", "reinforcement"}, {"proactive"}, {"kg_scheduler", "kg"}>>

\* What stops together, within one timeout, in order.
Stops == <<{"jobs"}, {"batch"}, {"persona_batch", "reinforcement"}, {"proactive"},
           {"kg_scheduler", "kg"}, {"lifecycle", "chroma"}>>

StepAfter(s) == IF s = Len(Starts) THEN "ready" ELSE Starts[s + 1]
Place(name) == CHOOSE s \in DOMAIN Starts : Starts[s] = name

Init ==
    /\ off \in Off /\ at = Starts[1] /\ stops = 0
    /\ up = {} /\ begun = {} /\ services = FALSE /\ ready = FALSE /\ stuck = {} /\ tasks = 0

-----------------------------------------------------------------------------
(* initialize.                                                               *)

Up(ps) == up' = up \cup ps /\ begun' = begun \cup ps

\* initialize of StorageModule, KGModule, ProactiveModule and the reinforcement engine.
Start(p) ==
    /\ at = p /\ p \notin {"finalize", "services", "jobs"}
    /\ \/ \* It starts; the graph's scheduler only on a graph.
          /\ p \notin off /\ (p = "kg_scheduler" => "kg" \in up)
          /\ Up({p}) /\ at' = StepAfter(Place(p))
       \/ \* It fails or is turned off: without the core there is no plugin.
          /\ p \in off => p \notin Core
          /\ at' = IF p \in Core THEN "failed" ELSE StepAfter(Place(p))
          /\ UNCHANGED <<up, begun>>
    /\ UNCHANGED <<off, stops, services, ready, stuck, tasks>>

\* _init_phase_finalize: the tasks of the two processors are under way when that of the
\* configuration is waited for, and run to their end though it raised.
Finalize ==
    /\ at = "finalize"
    /\ \E ps \in SUBSET ({"batch", "persona_batch"} \ off) : Up(ps)
    /\ at' \in {StepAfter(Place("finalize")), "failed"}
    /\ UNCHANGED <<off, stops, services, ready, stuck, tasks>>

CreateServices ==
    /\ at = "services" /\ services' = TRUE
    /\ at' = StepAfter(Place("services"))
    /\ UNCHANGED <<off, stops, up, begun, ready, stuck, tasks>>

\* The scheduled tasks are last; what raises there ends the start as well.
StartJobs ==
    /\ at = "jobs"
    /\ \/ Up({"jobs"}) /\ ready' = TRUE /\ at' = "ready"
       \/ at' = "failed" /\ UNCHANGED <<up, begun, ready>>
    /\ UNCHANGED <<off, stops, services, stuck, tasks>>

-----------------------------------------------------------------------------
(* terminate.                                                                *)

\* While the service is ready a message starts a task of its own, which ends whenever
\* it does.
Spawn ==
    /\ ready /\ tasks < MaxTasks /\ tasks' = tasks + 1
    /\ UNCHANGED <<off, at, stops, up, begun, services, ready, stuck>>

TaskEnds ==
    /\ tasks > 0 /\ tasks' = tasks - 1
    /\ UNCHANGED <<off, at, stops, up, begun, services, ready, stuck>>

\* Everything was saved; from here on nobody gets in.
Terminate ==
    /\ at \in {"ready", "failed"}
    /\ ready' = FALSE /\ at' = "stopping"
    /\ UNCHANGED <<off, stops, up, begun, services, stuck, tasks>>

\* shutdown, then the stop of each module; those of the modules need the services.
Stop(s) ==
    /\ at = "stopping" /\ s = stops + 1 /\ stops' = s
    /\ LET ps == Stops[s] \cap up
           next == IF s = Len(Stops) \/ (s = 1 /\ ~services) THEN "ended" ELSE "stopping"
       IN \E rest \in SUBSET ps :
            /\ up' = up \ (ps \ rest)
            /\ stuck' = stuck \cup rest
            /\ at' = next
    /\ UNCHANGED <<off, begun, services, ready, tasks>>

Next ==
    \/ \E p \in Range(Starts) : Start(p)
    \/ Finalize \/ CreateServices \/ StartJobs
    \/ Spawn \/ TaskEnds \/ Terminate
    \/ \E s \in DOMAIN Stops : Stop(s)

Spec == Init /\ [][Next]_vars

-----------------------------------------------------------------------------
\* What works on a part that was started is gone or stuck before the part is.
NeededOutlives == \A p \in up \ stuck : Needs(p) \cap begun \subseteq up \cup stuck

\* A stop of a plugin that came so far leaves nothing but what did not stop.
StopLeavesNothing == at = "ended" /\ services => up \subseteq stuck

\* Who is let in finds storage and the rest of the core.
ReadyHasCore == ready => Core \subseteq up /\ services

\* The three of them.
StartupSound == NeededOutlives /\ StopLeavesNothing /\ ReadyHasCore

\* Do not hold: a failed start leaves nothing either (memory_service.py:705 stops the
\* modules only if there is a _persistence, so an open database and its cleanup loop
\* stay); a message's task finds the storage open (nobody waits for it at a stop).
FailureLeavesNothing == at = "ended" => up \subseteq stuck
TasksFindStorage == tasks > 0 => "chroma" \in up
=============================================================================
