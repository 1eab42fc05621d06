--------------------------- MODULE WorkerScheduler ---------------------------
(***************************************************************************)
(* The scheduler of the server (apps/server/src/scheduled.ts): getScheduler*)
(* creates the adapter at its first call, callers register jobs with it,   *)
(* and scheduled() dispatches cron events to them.  The adapter is the     *)
(* registry of packages/core/src/scheduler/cloudflare.ts, or the one of    *)
(* noop.ts, which finds no job, when SCHEDULER_ENABLED is false.           *)
(*                                                                         *)
(* getScheduler awaits an import between its look at _scheduler and the    *)
(* assignment, and its callers await getScheduler.                         *)
(***************************************************************************)
EXTENDS Naturals, Sequences, FiniteSetsExt

CONSTANTS
    Callers,        \* callers of getScheduler().then(s => s.register(job))
    Events,         \* cron events the runtime delivers
    Crons,          \* cron expressions
    JobNames,       \* names of jobs
    Overlap         \* may getScheduler be called while another call of it
                    \* awaits its import?

Null == "null"

ASSUME WorkerAssumption ==
    /\ Callers \cap Events = {}
    /\ Overlap \in BOOLEAN
    /\ Null \notin JobNames

Users == Callers \cup Events

VARIABLES
    enabled,        \* SCHEDULER_ENABLED
    current,        \* _scheduler: 0 is null, k the k-th adapter created
    registries,     \* per adapter, its jobs in the order of their registration
    at,             \* where a caller or an event is
    got,            \* the adapter getScheduler gave it
    cronOf,         \* the cron expression an event, or the job of a caller, has
    ranJob          \* the job an event started, or Null

workerVars == <<enabled, current, registries, at, got, cronOf, ranJob>>

Job == [name : JobNames, cron : Crons]

WorkerTypeOK ==
    /\ enabled \in BOOLEAN
    /\ registries \in Seq(Seq(Job))
    /\ current \in 0 .. Len(registries)
    /\ at \in [Users -> {"new", "importing", "resolved", "done", "threw"}]
    /\ got \in [Users -> 0 .. Len(registries)]
    /\ cronOf \in [Users -> Crons]
    /\ ranJob \in [Events -> JobNames \cup {Null}]

WorkerInit ==
    /\ enabled \in BOOLEAN
    /\ current = 0
    /\ registries = <<>>
    /\ at = [t \in Users |-> "new"]
    /\ got = [t \in Users |-> 0]
    /\ cronOf \in [Users -> Crons]
    /\ ranJob = [e \in Events |-> Null]

-----------------------------------------------------------------------------
(* getScheduler *)

GetScheduler(t) ==
    /\ at[t] = "new"
    /\ Overlap \/ \A u \in Users : at[u] # "importing"
    /\ IF current = 0
       THEN at' = [at EXCEPT ![t] = "importing"] /\ UNCHANGED got
       ELSE at' = [at EXCEPT ![t] = "resolved"] /\ got' = [got EXCEPT ![t] = current]
    /\ UNCHANGED <<enabled, current, registries, cronOf, ranJob>>

\* (Mutation) The adapter is returned and not kept.
CreateUnshared(t) ==
    /\ registries' = Append(registries, <<>>)
    /\ got' = [got EXCEPT ![t] = Len(registries')]
    /\ UNCHANGED current

\* initScheduler, and its result becomes _scheduler, whatever that is by now.
Create(t) ==
    /\ registries' = Append(registries, <<>>)
    /\ current' = Len(registries')
    /\ got' = [got EXCEPT ![t] = current']

Imported(t) ==
    /\ at[t] = "importing"
    /\ Create(t)
    /\ at' = [at EXCEPT ![t] = "resolved"]
    /\ UNCHANGED <<enabled, cronOf, ranJob>>

-----------------------------------------------------------------------------
(* register and scheduled *)

Has(registry, name) == \E i \in DOMAIN registry : registry[i].name = name

\* (Mutation) A new job is put before the others.
InsertFirst(registry, job) == <<job>> \o registry

Insert(registry, job) == Append(registry, job)

\* register: the no-op adapter only notes the name; a name that is taken throws.
Register(c, name) ==
    /\ at[c] = "resolved"
    /\ IF enabled /\ Has(registries[got[c]], name)
       THEN at' = [at EXCEPT ![c] = "threw"] /\ UNCHANGED registries
       ELSE /\ at' = [at EXCEPT ![c] = "done"]
            /\ registries' = [registries EXCEPT
                  ![got[c]] = Insert(@, [name |-> name, cron |-> cronOf[c]])]
    /\ UNCHANGED <<enabled, current, got, cronOf, ranJob>>

Matching(registry, cron) == {i \in DOMAIN registry : registry[i].cron = cron}

\* getJobByCron: the first job registered with this expression.
JobByCron(registry, cron) ==
    IF Matching(registry, cron) = {} THEN Null
    ELSE registry[Min(Matching(registry, cron))].name

\* scheduled: the no-op adapter has no getJobByCron, and calling it throws.  An
\* error of the handler is caught and logged.
Dispatch(e) ==
    /\ at[e] = "resolved"
    /\ IF enabled
       THEN /\ at' = [at EXCEPT ![e] = "done"]
            /\ ranJob' = [ranJob EXCEPT ![e] = JobByCron(registries[got[e]], cronOf[e])]
       ELSE at' = [at EXCEPT ![e] = "threw"] /\ UNCHANGED ranJob
    /\ UNCHANGED <<enabled, current, registries, got, cronOf>>

WorkerNext ==
    \/ \E t \in Users : GetScheduler(t) \/ Imported(t)
    \/ \E c \in Callers, n \in JobNames : Register(c, n)
    \/ \E e \in Events : Dispatch(e)

WorkerSpec == WorkerInit /\ [][WorkerNext]_workerVars

-----------------------------------------------------------------------------
\* A cron event finds a job if one with its expression was registered by the
\* time it is dispatched (docs/03_USER_MANUAL.md, 12.3: "The adapter finds the
\* matching job by event.cron").
RegisteredJobsRun ==
    [][\A e \in Events :
          at[e] = "resolved" /\ at'[e] = "done"
              /\ (\E c \in Callers : at[c] = "done" /\ cronOf[c] = cronOf[e])
          => ranJob'[e] # Null]_workerVars

\* All events of one expression start the same job, once one of them has
\* started one: a job registered later never takes its place.
DispatchIsStable ==
    \A e, f \in Events :
        cronOf[e] = cronOf[f] /\ ranJob[e] # Null /\ ranJob[f] # Null => ranJob[e] = ranJob[f]
=============================================================================
