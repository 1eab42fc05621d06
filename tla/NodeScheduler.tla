---------------------------- MODULE NodeScheduler ----------------------------
(***************************************************************************)
(* NodeSchedulerAdapter (packages/core/src/scheduler/node.ts) and the      *)
(* node-cron tasks it creates.                                             *)
(*                                                                         *)
(* start awaits the import of node-cron only as long as it is not loaded,  *)
(* so several calls of start may wait for it together, and the rest of     *)
(* start, like register and stop, runs without interruption.               *)
(***************************************************************************)
EXTENDS Naturals, Sequences

CONSTANTS
    Names,          \* names of jobs
    ValidNames,     \* those whose cron expression node-cron accepts
    MaxStarts,      \* calls of start (a bound)
    MaxRuns         \* runs of one handler at once (a bound)

ASSUME NodeAssumption ==
    /\ ValidNames \subseteq Names
    /\ MaxStarts \in Nat
    /\ MaxRuns \in Nat

VARIABLES
    order,          \* the registered names, in the order of the Map
    tasks,          \* per name, the cron tasks made for it: is each still live?
                    \* The entry in the Map refers to the last one
    loaded,         \* is node-cron loaded?
    starting,       \* calls of start that await the import
    starts,         \* calls of start so far
    running,        \* per name, the runs of its handler in progress
    quiet,          \* history: stop was called, no call of start was waiting
                    \* then, and none has come since
    seen,           \* history: jobs registered when start last ran its loop
    silenced        \* history: the value of seen when stop was last called

nodeVars ==
    <<order, tasks, loaded, starting, starts, running, quiet, seen, silenced>>

Registered == {order[i] : i \in DOMAIN order}

NodeTypeOK ==
    /\ order \in Seq(Names)
    /\ tasks \in [Names -> Seq(BOOLEAN)]
    /\ loaded \in BOOLEAN
    /\ starting \in 0 .. MaxStarts
    /\ starts \in 0 .. MaxStarts
    /\ running \in [Names -> 0 .. MaxRuns]
    /\ quiet \in BOOLEAN
    /\ seen \in 0 .. Len(order)
    /\ silenced \in 0 .. seen

NodeInit ==
    /\ order = <<>>
    /\ tasks = [n \in Names |-> <<>>]
    /\ loaded = FALSE
    /\ starting = 0
    /\ starts = 0
    /\ running = [n \in Names |-> 0]
    /\ quiet = FALSE
    /\ seen = 0
    /\ silenced = 0

-----------------------------------------------------------------------------
\* register: a name that is taken throws and changes nothing.
RegisterJob(n) ==
    /\ n \notin Registered
    /\ order' = Append(order, n)
    /\ UNCHANGED <<tasks, loaded, starting, starts, running, quiet, seen, silenced>>

HasTask(n) == tasks[n] # <<>>

Live(n) == \E i \in DOMAIN tasks[n] : tasks[n][i]

\* (Mutation) A job with a bad expression is passed over.
ReachedInAnyCase == DOMAIN order

\* The positions the loop of start comes to before it throws: a job without a
\* task and with a bad expression ends it.
Reached == {i \in DOMAIN order :
              \A k \in 1 .. i : HasTask(order[k]) \/ order[k] \in ValidNames}

\* (Mutation) The check for a task is left out.
ScheduleAgain ==
    tasks' = [n \in Names |->
                IF \E i \in Reached : order[i] = n /\ n \in ValidNames
                THEN Append(tasks[n], TRUE) ELSE tasks[n]]

\* (Mutation) A task that stop ended counts as none and is made anew.
ScheduleStopped ==
    tasks' = [n \in Names |->
                IF \E i \in Reached : order[i] = n /\ ~Live(n) /\ n \in ValidNames
                THEN <<TRUE>> ELSE tasks[n]]

ScheduleAll ==
    tasks' = [n \in Names |->
                IF \E i \in Reached : order[i] = n /\ ~HasTask(n) /\ n \in ValidNames
                THEN <<TRUE>> ELSE tasks[n]]

\* start
StartCalled ==
    /\ starts < MaxStarts
    /\ starts' = starts + 1
    /\ quiet' = FALSE
    /\ IF loaded
       THEN ScheduleAll /\ seen' = Len(order) /\ UNCHANGED starting
       ELSE starting' = starting + 1 /\ UNCHANGED <<tasks, seen>>
    /\ UNCHANGED <<order, loaded, running, silenced>>

ImportEnds ==
    /\ starting > 0
    /\ starting' = starting - 1
    /\ \/ loaded' = TRUE /\ ScheduleAll /\ seen' = Len(order)
       \/ UNCHANGED <<loaded, tasks, seen>>    \* the import fails: start throws
    /\ UNCHANGED <<order, starts, running, quiet, silenced>>

\* (Mutation) The loop of stop ends with the first task.
StopFirstTask ==
    tasks' = [n \in Names |->
                IF order # <<>> /\ n = order[1] /\ HasTask(n)
                THEN [tasks[n] EXCEPT ![Len(tasks[n])] = FALSE] ELSE tasks[n]]

\* Every task in the Map is stopped, and stays in the Map.
StopTasks ==
    tasks' = [n \in Names |->
                IF n \in Registered /\ HasTask(n)
                THEN [tasks[n] EXCEPT ![Len(tasks[n])] = FALSE] ELSE tasks[n]]

\* stop.  Runs in progress go on.
StopCalled ==
    /\ StopTasks
    /\ quiet' = (starting = 0)
    /\ silenced' = seen
    /\ UNCHANGED <<order, loaded, starting, starts, running, seen>>

\* A cron task fires; nothing keeps the runs of one job apart.
Fires(n) ==
    /\ Live(n)
    /\ running[n] < MaxRuns
    /\ running' = [running EXCEPT ![n] = @ + 1]
    /\ UNCHANGED <<order, tasks, loaded, starting, starts, quiet, seen, silenced>>

\* The handler resolves or throws; an error is logged and goes no further.
RunEnds(n) ==
    /\ running[n] > 0
    /\ running' = [running EXCEPT ![n] = @ - 1]
    /\ UNCHANGED <<order, tasks, loaded, starting, starts, quiet, seen, silenced>>

NodeNext ==
    \/ \E n \in Names : RegisterJob(n) \/ Fires(n) \/ RunEnds(n)
    \/ StartCalled \/ ImportEnds \/ StopCalled

NodeSpec == NodeInit /\ [][NodeNext]_nodeVars

-----------------------------------------------------------------------------
\* However many calls of start wait for node-cron together, and however start
\* and stop alternate, no job is given to node-cron twice.
OneTaskPerJob == \A n \in Names : Len(tasks[n]) <= 1

\* A bad expression ends the loop of start, which throws: the jobs before the
\* first such job have their task, however start and stop overlap, and it and
\* all jobs after it have none and get none. A job registered since the loop
\* last ran waits for the next start.
BadJobBlocksExactlyLaterOnes ==
    \A i \in DOMAIN order :
        HasTask(order[i]) <=>
            i <= seen /\ \A k \in 1 .. i : order[k] \in ValidNames

\* A job that has a task keeps running until stop is called, also when start
\* threw at a later job. What stop ended stays ended: a start after it passes
\* over the jobs that have a task and brings to life those registered since.
LiveUntilStopped ==
    \A i \in DOMAIN order :
        Live(order[i]) <=> HasTask(order[i]) /\ i > silenced

\* After stop, and until start is called again, no handler starts, provided
\* that no call of start was still waiting for node-cron when stop came (such a
\* call goes on to schedule all jobs).
StopSilences ==
    [][quiet => \A n \in Names : running'[n] <= running[n]]_nodeVars
=============================================================================
