------------------------------ MODULE Scheduler ------------------------------
(***************************************************************************)
(* The choice of an adapter (packages/core/src/scheduler/factory.ts): a    *)
(* process runs its jobs with node-cron, or is a Worker whose runtime      *)
(* delivers the cron events, or has the scheduler disabled.                *)
(***************************************************************************)
EXTENDS NodeScheduler, WorkerScheduler

VARIABLE mode       \* options.mode or APP_MODE: any value but cloudflare is node

schedulerVars == <<nodeVars, workerVars, mode>>

\* (Mutation) A mode that is neither of the two is kept as it is.
InitRawMode ==
    /\ NodeInit
    /\ WorkerInit
    /\ mode \in {"cloudflare", "node", "vps"}

SchedulerInit ==
    /\ NodeInit
    /\ WorkerInit
    /\ mode \in {"cloudflare", "node"}

\* initScheduler
Adapter == IF enabled THEN mode ELSE "noop"

\* register, start and stop of the no-op adapter run nothing, and its caller
\* cannot tell it from the others.
SchedulerNext ==
    \/ Adapter = "node" /\ NodeNext /\ UNCHANGED <<workerVars, mode>>
    \/ mode = "cloudflare" /\ WorkerNext /\ UNCHANGED <<nodeVars, mode>>

SchedulerSpec == SchedulerInit /\ [][SchedulerNext]_schedulerVars

SchedulerTypeOK ==
    /\ NodeTypeOK
    /\ WorkerTypeOK
    /\ mode \in {"cloudflare", "node"}
=============================================================================
