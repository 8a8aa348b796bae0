--------------------------- MODULE ScheduledTasks ---------------------------
(* The plugin's jobs in AstrBot's cron manager (services/scheduled_tasks.py). *)
(* The jobs outlive the plugin and the bot; their handlers do not. A start    *)
(* registers the tasks one by one, reusing the jobs it finds by name; every   *)
(* call of the cron manager may fail. reload is reached by no key that can be *)
(* set (see ConfigStore) and is left out.                                     *)
EXTENDS Naturals, FiniteSets

CONSTANTS
    Tasks,      \* the tasks, registered in any order
    MaxFaults,  \* failures of the cron manager, and crashes
    MaxJobs     \* jobs ever added

VARIABLES
    wanted,     \* tasks enabled by the configuration
    jobs,       \* AstrBot's: [id, task], persistent
    handlers,   \* ids of jobs with a handler in this process
    found,      \* existing_jobs, a task's last job at the start, or 0
    known,      \* _task_name_to_job_id, or 0
    left,       \* tasks the start or the stop has yet to handle
    phase,      \* "down", "starting", "up", "broken" (initialize raised), "stopping"
    faults, lastId, lost   \* lost: list_jobs failed once

vars == <<wanted, jobs, handlers, found, known, left, phase, faults, lastId, lost>>

NoJob == 0
Of(t) == {j \in jobs : j.task = t}
Nowhere == [t \in Tasks |-> NoJob]

Init ==
    /\ wanted = Tasks /\ jobs = {} /\ handlers = {} /\ found = Nowhere /\ known = Nowhere
    /\ left = {} /\ phase = "down" /\ faults = 0 /\ lastId = 0 /\ lost = FALSE

Faults(n) == faults + n <= MaxFaults /\ faults' = faults + n

-----------------------------------------------------------------------------
\* The plugin starts, maybe with another configuration. _get_existing_jobs_by_name:
\* of several jobs with a name, the last listed; none if the call fails.
Start ==
    /\ phase = "down"
    /\ phase' = "starting" /\ left' = Tasks /\ known' = Nowhere
    /\ \/ found' \in {f \in [Tasks -> {j.id : j \in jobs} \cup {NoJob}] :
                        \A t \in Tasks : IF Of(t) = {} THEN f[t] = NoJob ELSE \E j \in Of(t) : f[t] = j.id}
          /\ UNCHANGED <<faults, lost>>
       \/ found' = Nowhere /\ Faults(1) /\ lost' = TRUE
    /\ wanted' \in SUBSET Tasks
    /\ UNCHANGED <<jobs, handlers, lastId>>

Handled(t) == left' = left \ {t} /\ UNCHANGED <<wanted, found, phase>>
Raises == phase' = "broken" /\ left' = {} /\ UNCHANGED <<wanted, found>>

\* _create_task after so many faults; its own failure is only logged.
Create(t, rest, before) ==
    \/ /\ Faults(before)
       /\ lastId < MaxJobs /\ lastId' = lastId + 1
       /\ jobs' = rest \cup {[id |-> lastId + 1, task |-> t]}
       /\ known' = [known EXCEPT ![t] = lastId + 1]
       /\ handlers' = (handlers \cup {found[t], lastId + 1}) \ {NoJob}
    \/ /\ Faults(before + 1) /\ jobs' = rest
       /\ handlers' = (handlers \cup {found[t]}) \ {NoJob}
       /\ UNCHANGED <<known, lastId>>

\* A task that is not enabled: the failure of its deletion ends the initialization.
Disable(t) ==
    /\ phase = "starting" /\ t \in left /\ t \notin wanted
    /\ \/ jobs' = {j \in jobs : j.id # found[t]} /\ Handled(t) /\ UNCHANGED faults
       \/ found[t] # NoJob /\ Faults(1) /\ Raises /\ UNCHANGED jobs
    /\ UNCHANGED <<handlers, known, lastId, lost>>

\* Mutant: a job that could be updated gets its handler but is not remembered.
Reuse_Forgets(t) ==
    /\ phase = "starting" /\ t \in left /\ t \in wanted /\ found[t] # NoJob
    /\ handlers' = handlers \cup {found[t]}
    /\ Handled(t) /\ UNCHANGED <<known, jobs, faults, lastId, lost>>

\* _update_or_reuse_task, where the job can be updated.
Reuse(t) ==
    /\ phase = "starting" /\ t \in left /\ t \in wanted /\ found[t] # NoJob
    /\ handlers' = handlers \cup {found[t]}
    /\ known' = [known EXCEPT ![t] = found[t]]
    /\ Handled(t) /\ UNCHANGED <<jobs, faults, lastId, lost>>

\* It cannot: it is deleted and created again; a deletion that fails too ends the
\* initialization.
Recreate(t) ==
    /\ phase = "starting" /\ t \in left /\ t \in wanted /\ found[t] # NoJob
    /\ \/ Create(t, {j \in jobs : j.id # found[t]}, 1) /\ Handled(t)
       \/ /\ Faults(2) /\ Raises
          /\ handlers' = handlers \cup {found[t]} /\ UNCHANGED <<jobs, known, lastId>>
    /\ UNCHANGED lost

Register(t) ==
    /\ phase = "starting" /\ t \in left /\ t \in wanted /\ found[t] = NoJob
    /\ Create(t, jobs, 0) /\ Handled(t)
    /\ UNCHANGED lost

Started ==
    /\ phase = "starting" /\ left = {}
    /\ phase' = "up"
    /\ UNCHANGED <<wanted, jobs, handlers, found, known, left, faults, lastId, lost>>

-----------------------------------------------------------------------------
\* terminate, shutdown: each known job is deleted, or its failure logged.
Stop ==
    /\ phase \in {"up", "broken"}
    /\ phase' = "stopping" /\ left' = {t \in Tasks : known[t] # NoJob}
    /\ UNCHANGED <<wanted, jobs, handlers, found, known, faults, lastId, lost>>

Delete(t) ==
    /\ phase = "stopping" /\ t \in left
    /\ left' = left \ {t}
    /\ \/ jobs' = {j \in jobs : j.id # known[t]} /\ handlers' = handlers \ {known[t]} /\ UNCHANGED faults
       \/ Faults(1) /\ UNCHANGED <<jobs, handlers>>
    /\ UNCHANGED <<wanted, found, known, phase, lastId, lost>>

\* A hot reload of the plugin: the handlers of jobs that are left stay, and run
\* methods of the service that is gone.
Stopped ==
    /\ phase = "stopping" /\ left = {}
    /\ phase' = "down" /\ known' = Nowhere
    /\ UNCHANGED <<wanted, jobs, handlers, found, left, faults, lastId, lost>>

\* The bot ends without a stop.
Crash ==
    /\ phase # "down" /\ Faults(1)
    /\ phase' = "down" /\ known' = Nowhere /\ left' = {} /\ handlers' = {}
    /\ UNCHANGED <<wanted, jobs, found, lastId, lost>>

Next ==
    \/ Start \/ Started \/ Stop \/ Stopped \/ Crash
    \/ \E t \in Tasks : Disable(t) \/ Reuse(t) \/ Recreate(t) \/ Register(t) \/ Delete(t)

Spec == Init /\ [][Next]_vars

-----------------------------------------------------------------------------
\* A task has one job, whatever failed and wherever it crashed, but for a list of
\* the jobs that failed.
OneJob == lost \/ \A t \in Tasks : Cardinality(Of(t)) <= 1

\* The jobs of a running plugin are those it knows, run by it, and of tasks that are
\* enabled.
UpIsRegistered ==
    phase = "up" /\ ~lost =>
        /\ \A j \in jobs : known[j.task] = j.id /\ j.id \in handlers
        /\ \A j \in jobs : j.task \in wanted

\* Where nothing failed, a stop leaves no job behind.
StopCleans == phase = "down" /\ faults = 0 => jobs = {}

\* The three of them.
TasksSound == OneJob /\ UpIsRegistered /\ StopCleans
=============================================================================
