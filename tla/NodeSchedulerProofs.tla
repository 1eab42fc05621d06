------------------------- MODULE NodeSchedulerProofs -------------------------
(***************************************************************************)
(* Proofs about NodeScheduler, for any set of jobs and any number of calls *)
(* and runs: each job is given to node-cron at most once, a job with a bad *)
(* expression blocks exactly the jobs registered after it, a task is live  *)
(* until stop is called and not after it, and no handler starts once stop  *)
(* was called and no call of start is left.                                *)
(***************************************************************************)
EXTENDS NodeScheduler, TLAPS

\* Names occur once in the Map.
NamesAreUnique == \A i, k \in DOMAIN order : order[i] = order[k] => i = k

\* node-cron knows registered jobs only.
TasksAreRegistered == \A n \in Names : HasTask(n) => n \in Registered

NodeInv ==
    /\ NodeTypeOK
    /\ starting <= starts
    /\ OneTaskPerJob
    /\ NamesAreUnique
    /\ TasksAreRegistered
    /\ BadJobBlocksExactlyLaterOnes
    /\ LiveUntilStopped

-----------------------------------------------------------------------------
\* What is true of the Map and of node-cron's tasks once the loop of start has
\* run: the part of NodeInv that ScheduleAll changes.
LEMMA ScheduleAllKeeps ==
    ASSUME NodeInv, ScheduleAll, seen' = Len(order), UNCHANGED <<order, silenced>>
    PROVE  /\ tasks' \in [Names -> Seq(BOOLEAN)]
           /\ seen' \in 0 .. Len(order') /\ silenced' \in 0 .. seen'
           /\ OneTaskPerJob'
           /\ TasksAreRegistered'
           /\ BadJobBlocksExactlyLaterOnes'
           /\ LiveUntilStopped'
<1>0. /\ Len(order) \in Nat /\ DOMAIN order = 1 .. Len(order)
      /\ seen \in 0 .. Len(order) /\ silenced \in 0 .. seen
    BY DEF NodeInv, NodeTypeOK
<1>1. /\ order \in Seq(Names)
      /\ tasks \in [Names -> Seq(BOOLEAN)]
      /\ \A n \in Names : Len(tasks[n]) <= 1
    BY DEF NodeInv, NodeTypeOK, OneTaskPerJob
<1>2. \A n \in Names :
         \/ tasks'[n] = tasks[n]
         \/ /\ tasks'[n] = <<TRUE>>
            /\ ~HasTask(n)
            /\ \E i \in Reached : order[i] = n
    BY <1>1 DEF ScheduleAll
<1>3. tasks' \in [Names -> Seq(BOOLEAN)]
  <2>1. \A n \in Names : tasks[n] \in Seq(BOOLEAN) /\ <<TRUE>> \in Seq(BOOLEAN)
      BY <1>1
  <2> QED  BY <2>1 DEF ScheduleAll
<1>4. OneTaskPerJob'
  <2> SUFFICES ASSUME NEW n \in Names
               PROVE  Len(tasks'[n]) <= 1
      BY DEF OneTaskPerJob
  <2>1. CASE tasks'[n] = tasks[n]
      BY <1>1, <2>1
  <2>2. CASE tasks'[n] = <<TRUE>>
      BY <2>2
  <2> QED  BY <1>2, <2>1, <2>2
<1>5. TasksAreRegistered'
  <2> SUFFICES ASSUME NEW n \in Names, HasTask(n)'
               PROVE  n \in Registered
      BY DEF TasksAreRegistered, Registered
  <2>1. CASE tasks'[n] = tasks[n]
      BY <2>1 DEF NodeInv, TasksAreRegistered, HasTask
  <2>2. CASE \E i \in Reached : order[i] = n
      BY <2>2 DEF Reached, Registered
  <2> QED  BY <1>2, <2>1, <2>2
<1>6. ASSUME NEW i \in DOMAIN order, HasTask(order[i])
      PROVE  i <= seen /\ \A k \in 1 .. i : order[k] \in ValidNames
    BY <1>6 DEF NodeInv, BadJobBlocksExactlyLaterOnes
<1>7. ASSUME NEW i \in DOMAIN order
      PROVE  HasTask(order[i])' <=> \A k \in 1 .. i : order[k] \in ValidNames
  <2>1. order[i] \in Names /\ i \in 1 .. i /\ 1 .. i \subseteq DOMAIN order
      BY <1>0, <1>1, <1>7
  <2>2. ASSUME HasTask(order[i])', ~HasTask(order[i])
        PROVE  \A k \in 1 .. i : order[k] \in ValidNames
    <3>1. PICK m \in Reached : order[m] = order[i]
        BY <1>2, <2>1, <2>2 DEF HasTask
    <3>2. m = i
        BY <3>1 DEF NodeInv, NamesAreUnique, Reached
    <3> SUFFICES ASSUME NEW k \in 1 .. i
                 PROVE  order[k] \in ValidNames
        OBVIOUS
    <3>3. HasTask(order[k]) \/ order[k] \in ValidNames
        BY <3>1, <3>2 DEF Reached
    <3>4. k \in DOMAIN order /\ k \in 1 .. k
        BY <1>0, <2>1
    <3> QED  BY <1>6, <3>3, <3>4
  <2>3. ASSUME \A k \in 1 .. i : order[k] \in ValidNames
        PROVE  HasTask(order[i])'
    <3>1. i \in Reached
        BY <2>3 DEF Reached
    <3>2. CASE HasTask(order[i])
        BY <1>2, <2>1, <3>2 DEF HasTask
    <3>3. CASE ~HasTask(order[i])
      <4>1. order[i] \in ValidNames
          BY <2>1, <2>3
      <4>2. tasks'[order[i]] = <<TRUE>>
          BY <2>1, <3>1, <3>3, <4>1 DEF ScheduleAll
      <4> QED  BY <4>2 DEF HasTask
    <3> QED  BY <3>2, <3>3
  <2> QED  BY <1>6, <2>2, <2>3
<1>8. BadJobBlocksExactlyLaterOnes'
    BY <1>0, <1>7 DEF BadJobBlocksExactlyLaterOnes
<1>9. ASSUME NEW i \in DOMAIN order
      PROVE  Live(order[i])' <=> HasTask(order[i])' /\ i > silenced
  <2>1. order[i] \in Names
      BY <1>1
  <2>2. CASE tasks'[order[i]] = tasks[order[i]]
      BY <2>2 DEF NodeInv, LiveUntilStopped, Live, HasTask
  <2>3. CASE tasks'[order[i]] = <<TRUE>> /\ ~HasTask(order[i])
    <3>1. Live(order[i])' /\ HasTask(order[i])'
      <4>1. 1 \in DOMAIN <<TRUE>> /\ <<TRUE>>[1] /\ <<TRUE>> # <<>>
          OBVIOUS
      <4>2. tasks'[order'[i]] = <<TRUE>>
          BY <2>3
      <4> QED  BY <4>1, <4>2 DEF Live, HasTask
    <3>2. PICK m \in Reached : order[m] = order[i]
        BY <1>2, <2>1, <2>3, <3>1 DEF HasTask
    <3>3. \A k \in 1 .. i : order[k] \in ValidNames
        BY <1>7, <3>1
    <3>4. ~(i <= seen)
        BY <2>3, <3>3 DEF NodeInv, BadJobBlocksExactlyLaterOnes
    <3> QED  BY <1>0, <3>1, <3>4
  <2> QED  BY <1>2, <2>1, <2>2, <2>3
<1>10. LiveUntilStopped'
    BY <1>9 DEF LiveUntilStopped, Live, HasTask
<1>11. seen' \in 0 .. Len(order') /\ silenced' \in 0 .. seen'
    BY <1>0
<1> QED  BY <1>3, <1>4, <1>5, <1>8, <1>10, <1>11

-----------------------------------------------------------------------------
LEMMA NodeInitInv == NodeInit => NodeInv
<1> SUFFICES ASSUME NodeInit
             PROVE  NodeInv
    OBVIOUS
<1>1. order = <<>> /\ DOMAIN order = {} /\ order \in Seq(Names)
    BY DEF NodeInit
<1>2. \A n \in Names : tasks[n] = <<>>
    BY DEF NodeInit
<1>3. <<>> \in Seq(BOOLEAN) /\ Len(<<>>) = 0
    OBVIOUS
<1>4. tasks \in [Names -> Seq(BOOLEAN)]
  <2>1. tasks = [n \in Names |-> <<>>]
      BY DEF NodeInit
  <2> QED  BY <1>3, <2>1
<1>5. NodeTypeOK /\ starting <= starts
  <2>1. running \in [Names -> 0 .. MaxRuns]
      BY NodeAssumption DEF NodeAssumption, NodeInit
  <2>2. starting = 0 /\ starts = 0 /\ MaxStarts \in Nat
      BY NodeAssumption DEF NodeAssumption, NodeInit
  <2>3. loaded \in BOOLEAN /\ quiet \in BOOLEAN
      BY DEF NodeInit
  <2>4. seen \in 0 .. Len(order) /\ silenced \in 0 .. seen
      BY <1>1 DEF NodeInit
  <2> QED  BY <2>4, <1>1, <1>4, <2>1, <2>2, <2>3 DEF NodeTypeOK
<1>6. \A n \in Names : Len(tasks[n]) <= 1 /\ ~HasTask(n)
  <2> SUFFICES ASSUME NEW n \in Names
               PROVE  Len(tasks[n]) <= 1 /\ ~HasTask(n)
      OBVIOUS
  <2>1. tasks[n] = <<>>
      BY <1>2
  <2>2. Len(tasks[n]) <= 1
      BY <1>3, <2>1
  <2> QED  BY <2>1, <2>2 DEF HasTask
<1>7. OneTaskPerJob /\ TasksAreRegistered
    BY <1>6 DEF OneTaskPerJob, TasksAreRegistered
<1>8. NamesAreUnique /\ BadJobBlocksExactlyLaterOnes /\ LiveUntilStopped
    BY <1>1 DEF NamesAreUnique, BadJobBlocksExactlyLaterOnes, LiveUntilStopped
<1> QED  BY <1>5, <1>7, <1>8 DEF NodeInv

LEMMA RegisterKeeps ==
    ASSUME NodeInv, NEW n \in Names, RegisterJob(n)
    PROVE  NodeInv'
<1> DEFINE end == Len(order) + 1
<1>1. /\ order \in Seq(Names)
      /\ n \notin Registered
      /\ order' = Append(order, n)
      /\ UNCHANGED <<tasks, loaded, starting, starts, running, quiet, seen, silenced>>
    BY DEF NodeInv, NodeTypeOK, RegisterJob
<1>2. /\ order' \in Seq(Names)
      /\ DOMAIN order' = DOMAIN order \cup {end}
      /\ \A i \in DOMAIN order : order'[i] = order[i] /\ i < end /\ i \in Nat
      /\ order'[end] = n
      /\ Len(order') = end
      /\ end \in Nat /\ Len(order) \in Nat
    BY <1>1
<1>3. \A i \in DOMAIN order : order[i] # n
    BY <1>1 DEF Registered
<1>4. ~HasTask(n)
    BY <1>1 DEF NodeInv, TasksAreRegistered
<1>5. NodeTypeOK' /\ OneTaskPerJob' /\ (starting <= starts)'
  <2>1. (seen \in 0 .. Len(order))' /\ (silenced \in 0 .. seen)' /\ end > seen
      BY <1>1, <1>2 DEF NodeInv, NodeTypeOK
  <2> QED  BY <1>1, <1>2, <2>1 DEF NodeInv, NodeTypeOK, OneTaskPerJob
<1>6. NamesAreUnique'
    BY <1>2, <1>3 DEF NodeInv, NamesAreUnique
<1>7. TasksAreRegistered'
  <2>1. Registered \subseteq Registered'
      BY <1>2 DEF Registered
  <2> QED  BY <1>1, <2>1 DEF NodeInv, TasksAreRegistered, HasTask
<1>8. end > seen
    BY <1>2 DEF NodeInv, NodeTypeOK
<1>9. \A m \in Names : (HasTask(m)' <=> HasTask(m)) /\ (Live(m)' <=> Live(m))
    BY <1>1 DEF HasTask, Live
<1>10. ASSUME NEW i \in DOMAIN order
       PROVE  1 .. i \subseteq DOMAIN order
    BY <1>2
<1>11. BadJobBlocksExactlyLaterOnes'
  <2> SUFFICES ASSUME NEW i \in DOMAIN order'
               PROVE  HasTask(order[i])' <=>
                        i <= seen /\ \A k \in 1 .. i : order'[k] \in ValidNames
      BY <1>1 DEF BadJobBlocksExactlyLaterOnes, HasTask
  <2>1. CASE i = end
    <3>1. ~HasTask(order[i])'
        BY <1>1, <1>2, <1>4, <2>1 DEF HasTask
    <3>2. ~(i <= seen)
        BY <1>2, <1>8, <2>1 DEF NodeInv, NodeTypeOK
    <3> QED  BY <3>1, <3>2
  <2>2. CASE i \in DOMAIN order
    <3>1. \A k \in 1 .. i : order'[k] = order[k]
        BY <1>2, <1>10, <2>2
    <3>2. order'[i] = order[i] /\ tasks' = tasks
        BY <1>1, <1>2, <2>2
    <3> QED  BY <2>2, <3>1, <3>2 DEF NodeInv, BadJobBlocksExactlyLaterOnes, HasTask
  <2> QED  BY <1>2, <2>1, <2>2
<1>12. LiveUntilStopped'
  <2> SUFFICES ASSUME NEW i \in DOMAIN order'
               PROVE  Live(order[i])' <=> HasTask(order[i])' /\ i > silenced
      BY <1>1 DEF LiveUntilStopped, HasTask, Live
  <2>1. CASE i = end
    <3>1. tasks[n] = <<>>
        BY <1>4 DEF HasTask
    <3>2. tasks'[order'[i]] = <<>>
        BY <1>1, <1>2, <2>1, <3>1
    <3>3. DOMAIN <<>> = {}
        OBVIOUS
    <3> QED  BY <3>2, <3>3 DEF HasTask, Live
  <2>2. CASE i \in DOMAIN order
    <3>1. order'[i] = order[i] /\ tasks' = tasks
        BY <1>1, <1>2, <2>2
    <3> QED  BY <2>2, <3>1 DEF NodeInv, LiveUntilStopped, HasTask, Live
  <2> QED  BY <1>2, <2>1, <2>2
<1> QED  BY <1>5, <1>6, <1>7, <1>11, <1>12 DEF NodeInv

LEMMA OnlyElement ==
    ASSUME NEW t \in Seq(BOOLEAN), t # <<>>, Len(t) <= 1
    PROVE  Len(t) = 1 /\ DOMAIN t = {1}
<1>1. Len(t) \in Nat /\ Len(t) # 0 /\ DOMAIN t = 1 .. Len(t)
    OBVIOUS
<1>2. Len(t) = 1
    BY <1>1
<1> QED  BY <1>1, <1>2

\* stop ends the task of every job, as it has one at most.
LEMMA StopEndsTasks ==
    ASSUME NodeInv, StopCalled
    PROVE  \A n \in Names : ~Live(n)'
<1>1. tasks \in [Names -> Seq(BOOLEAN)]
    BY DEF NodeInv, NodeTypeOK
<1>2. ASSUME NEW n \in Names
      PROVE  \A i \in DOMAIN tasks'[n] : ~tasks'[n][i]
  <2> DEFINE t == tasks[n]
  <2>1. t \in Seq(BOOLEAN) /\ Len(t) <= 1
      BY <1>1 DEF NodeInv, OneTaskPerJob
  <2>2. CASE HasTask(n)
    <3>1. n \in Registered
        BY <2>2 DEF NodeInv, TasksAreRegistered
    <3>2. tasks'[n] = [t EXCEPT ![Len(t)] = FALSE]
        BY <2>2, <3>1 DEF StopCalled, StopTasks
    <3>3. Len(t) = 1 /\ DOMAIN t = {1}
      <4>1. t # <<>>
          BY <2>2 DEF HasTask
      <4> QED  BY <2>1, <4>1, OnlyElement
    <3> HIDE DEF t
    <3> QED  BY <3>2, <3>3
  <2>3. CASE ~HasTask(n)
    <3>1. tasks'[n] = <<>>
        BY <2>3 DEF StopCalled, StopTasks, HasTask
    <3> QED  BY <3>1
  <2> QED  BY <2>2, <2>3
<1> QED  BY <1>2 DEF Live

LEMMA StopKeeps ==
    ASSUME NodeInv, StopCalled
    PROVE  NodeInv'
<1>1. /\ tasks \in [Names -> Seq(BOOLEAN)]
      /\ StopTasks
      /\ quiet' = (starting = 0)
      /\ silenced' = seen
      /\ UNCHANGED <<order, loaded, starting, starts, running, seen>>
    BY DEF NodeInv, NodeTypeOK, StopCalled
<1>2. \A n \in Names : /\ tasks'[n] \in Seq(BOOLEAN)
                       /\ Len(tasks'[n]) = Len(tasks[n])
                       /\ tasks'[n] = <<>> <=> tasks[n] = <<>>
  <2> SUFFICES ASSUME NEW n \in Names
               PROVE  /\ tasks'[n] \in Seq(BOOLEAN)
                      /\ Len(tasks'[n]) = Len(tasks[n])
                      /\ tasks'[n] = <<>> <=> tasks[n] = <<>>
      OBVIOUS
  <2> DEFINE t == tasks[n]
  <2>1. t \in Seq(BOOLEAN)
      BY <1>1
  <2>2. \/ tasks'[n] = t
        \/ t # <<>> /\ tasks'[n] = [t EXCEPT ![Len(t)] = FALSE]
      BY <1>1 DEF StopTasks, HasTask
  <2>3. CASE tasks'[n] = t
      BY <2>1, <2>3
  <2>4. CASE t # <<>> /\ tasks'[n] = [t EXCEPT ![Len(t)] = FALSE]
    <3> DEFINE u == [t EXCEPT ![Len(t)] = FALSE]
    <3>1. Len(t) \in Nat /\ Len(t) # 0
        BY <2>1, <2>4
    <3> HIDE DEF t
    <3>2. u \in Seq(BOOLEAN) /\ Len(u) = Len(t)
        BY <2>1, <3>1
    <3> HIDE DEF u
    <3>3. u # <<>>
        BY <3>1, <3>2
    <3>4. tasks'[n] = u
        BY <2>4 DEF u
    <3> QED  BY <2>4, <3>2, <3>3, <3>4 DEF t
  <2> QED  BY <2>2, <2>3, <2>4
<1>3. tasks' \in [Names -> Seq(BOOLEAN)]
    BY <1>1, <1>2 DEF StopTasks
<1>4. \A n \in Names : HasTask(n)' <=> HasTask(n)
    BY <1>2 DEF HasTask
<1>5. NodeTypeOK' /\ (starting <= starts)'
  <2>1. (seen \in 0 .. Len(order))' /\ (silenced \in 0 .. seen)'
      BY <1>1 DEF NodeInv, NodeTypeOK
  <2> QED  BY <1>1, <1>3, <2>1 DEF NodeInv, NodeTypeOK
<1>6. OneTaskPerJob'
    BY <1>2 DEF NodeInv, OneTaskPerJob
<1>7. NamesAreUnique' /\ TasksAreRegistered'
    BY <1>1, <1>4 DEF NodeInv, NamesAreUnique, TasksAreRegistered, Registered
<1>8. \A i \in DOMAIN order : order[i] \in Names
    BY DEF NodeInv, NodeTypeOK
<1>9. BadJobBlocksExactlyLaterOnes'
    BY <1>1, <1>4, <1>8 DEF NodeInv, BadJobBlocksExactlyLaterOnes
<1>10. LiveUntilStopped'
  <2> SUFFICES ASSUME NEW i \in DOMAIN order
               PROVE  ~Live(order[i])' /\ ~(HasTask(order[i])' /\ i > seen)
      BY <1>1 DEF LiveUntilStopped, HasTask, Live
  <2>1. ~Live(order[i])'
    <3>1. order[i] \in Names /\ order' = order
        BY <1>1, <1>8
    <3>2. \A n \in Names : ~Live(n)'
        BY StopEndsTasks
    <3> QED  BY <3>1, <3>2 DEF Live
  <2>2. HasTask(order[i]) => i <= seen
      BY DEF NodeInv, BadJobBlocksExactlyLaterOnes
  <2>3. i \in Nat /\ seen \in Nat
      BY DEF NodeInv, NodeTypeOK
  <2>4. HasTask(order[i])' <=> HasTask(order[i])
      BY <1>1, <1>4, <1>8 DEF HasTask
  <2> QED  BY <2>1, <2>2, <2>3, <2>4
<1> QED  BY <1>5, <1>6, <1>7, <1>9, <1>10 DEF NodeInv

\* Steps that leave the Map and the tasks alone.
LEMMA SameTasksKeeps ==
    ASSUME NodeInv, UNCHANGED <<order, tasks, seen, silenced>>, NodeTypeOK',
           (starting <= starts)'
    PROVE  NodeInv'
BY DEF NodeInv, OneTaskPerJob, NamesAreUnique, TasksAreRegistered, Registered,
       BadJobBlocksExactlyLaterOnes, LiveUntilStopped, HasTask, Live

\* Steps that run the loop of start.
LEMMA LoopKeeps ==
    ASSUME NodeInv, ScheduleAll, seen' = Len(order),
           UNCHANGED <<order, running, silenced>>,
           starting' \in 0 .. MaxStarts, starts' \in 0 .. MaxStarts, starting' <= starts',
           loaded' \in BOOLEAN, quiet' \in BOOLEAN
    PROVE  NodeInv'
<1>1. NodeTypeOK'
    BY ScheduleAllKeeps DEF NodeInv, NodeTypeOK
<1>2. NamesAreUnique'
    BY DEF NodeInv, NamesAreUnique
<1> QED  BY <1>1, <1>2, ScheduleAllKeeps DEF NodeInv

LEMMA StartKeeps ==
    ASSUME NodeInv, StartCalled
    PROVE  NodeInv'
<1>1. /\ starts' \in 0 .. MaxStarts
      /\ starting \in 0 .. MaxStarts
      /\ starting + 1 <= starts'
      /\ quiet' = FALSE
      /\ loaded \in BOOLEAN
      /\ UNCHANGED <<order, loaded, running, silenced>>
    BY NodeAssumption DEF NodeAssumption, NodeInv, NodeTypeOK, StartCalled
<1>2. CASE ScheduleAll /\ seen' = Len(order) /\ UNCHANGED starting
  <2>1. starting' = starting /\ starting \in Nat /\ starts' \in Nat
      BY <1>1, <1>2, NodeAssumption DEF NodeAssumption
  <2>2. starting' \in 0 .. MaxStarts /\ starting' <= starts'
      BY <1>1, <2>1
  <2>3. loaded' \in BOOLEAN /\ quiet' \in BOOLEAN
      BY <1>1
  <2> QED  BY <1>1, <1>2, <2>2, <2>3, LoopKeeps
<1>3. CASE starting' = starting + 1 /\ UNCHANGED <<tasks, seen>>
  <2>1. starting' \in 0 .. MaxStarts /\ starting' <= starts'
      BY <1>1, <1>3, NodeAssumption DEF NodeAssumption
  <2>2. NodeTypeOK'
      BY <1>1, <1>3, <2>1 DEF NodeInv, NodeTypeOK
  <2> QED  BY <1>1, <1>3, <2>1, <2>2, SameTasksKeeps
<1> QED  BY <1>2, <1>3 DEF StartCalled

LEMMA ImportKeeps ==
    ASSUME NodeInv, ImportEnds
    PROVE  NodeInv'
<1>1. /\ starting' \in 0 .. MaxStarts
      /\ starts' \in 0 .. MaxStarts
      /\ starting' <= starts'
      /\ quiet' \in BOOLEAN
      /\ UNCHANGED <<order, starts, running, quiet, silenced>>
    BY NodeAssumption DEF NodeAssumption, NodeInv, NodeTypeOK, ImportEnds
<1>2. CASE loaded' = TRUE /\ ScheduleAll /\ seen' = Len(order)
    BY <1>1, <1>2, LoopKeeps
<1>3. CASE UNCHANGED <<loaded, tasks, seen>>
  <2>1. NodeTypeOK'
      BY <1>1, <1>3 DEF NodeInv, NodeTypeOK
  <2> QED  BY <1>1, <1>3, <2>1, SameTasksKeeps
<1> QED  BY <1>2, <1>3 DEF ImportEnds

LEMMA RunsKeep ==
    ASSUME NodeInv, NEW n \in Names, Fires(n) \/ RunEnds(n)
    PROVE  NodeInv'
<1>1. /\ running \in [Names -> 0 .. MaxRuns]
      /\ UNCHANGED <<order, tasks, loaded, starting, starts, quiet, seen, silenced>>
      /\ \E r \in 0 .. MaxRuns : running' = [running EXCEPT ![n] = r]
    BY NodeAssumption DEF NodeAssumption, NodeInv, NodeTypeOK, Fires, RunEnds
<1>2. running' \in [Names -> 0 .. MaxRuns]
    BY <1>1
<1>3. NodeTypeOK' /\ (starting <= starts)'
    BY <1>1, <1>2 DEF NodeInv, NodeTypeOK
<1> QED  BY <1>1, <1>3, SameTasksKeeps

LEMMA NodeStepKeeps == NodeInv /\ [NodeNext]_nodeVars => NodeInv'
<1> SUFFICES ASSUME NodeInv, [NodeNext]_nodeVars
             PROVE  NodeInv'
    OBVIOUS
<1>1. CASE UNCHANGED nodeVars
  <2>1. NodeTypeOK' /\ (starting <= starts)'
      BY <1>1 DEF NodeInv, NodeTypeOK, nodeVars
  <2> QED  BY <1>1, <2>1, SameTasksKeeps DEF nodeVars
<1>2. ASSUME NEW n \in Names, RegisterJob(n)
      PROVE  NodeInv'
    BY <1>2, RegisterKeeps
<1>3. ASSUME NEW n \in Names, Fires(n) \/ RunEnds(n)
      PROVE  NodeInv'
    BY <1>3, RunsKeep
<1> QED  BY <1>1, <1>2, <1>3, StartKeeps, ImportKeeps, StopKeeps DEF NodeNext

-----------------------------------------------------------------------------
\* Each job is given to node-cron at most once, whatever calls of start overlap.
THEOREM ScheduledOnce == NodeSpec => []OneTaskPerJob
<1>1. NodeInv => OneTaskPerJob
    BY DEF NodeInv
<1> QED  BY NodeInitInv, NodeStepKeeps, <1>1, PTL DEF NodeSpec

\* A bad cron expression blocks the jobs registered after it, and those only:
\* the jobs before it have their task from the first start on (node.ts:47-90).
THEOREM BadJobsBlock == NodeSpec => []BadJobBlocksExactlyLaterOnes
<1>1. NodeInv => BadJobBlocksExactlyLaterOnes
    BY DEF NodeInv
<1> QED  BY NodeInitInv, NodeStepKeeps, <1>1, PTL DEF NodeSpec

\* The tasks that are live are those made since the last stop; a start after a
\* stop brings none of the others back (node.ts:48).
THEOREM StopIsFinal == NodeSpec => []LiveUntilStopped
<1>1. NodeInv => LiveUntilStopped
    BY DEF NodeInv
<1> QED  BY NodeInitInv, NodeStepKeeps, <1>1, PTL DEF NodeSpec

-----------------------------------------------------------------------------
\* While the scheduler is quiet no call of start waits for node-cron, so none
\* will make a task, and no task made before is live.
QuietMeansStopped ==
    quiet => /\ starting = 0
             /\ \A n \in Names : \A i \in DOMAIN tasks[n] : ~tasks[n][i]

LEMMA StopQuiets ==
    ASSUME NodeInv, StopCalled
    PROVE  QuietMeansStopped'
<1>1. quiet' = (starting = 0) /\ starting' = starting
    BY DEF StopCalled
<1> QED  BY <1>1, StopEndsTasks DEF QuietMeansStopped, Live

LEMMA QuietStepKeeps ==
    ASSUME NodeInv, QuietMeansStopped, [NodeNext]_nodeVars
    PROVE  QuietMeansStopped'
<1>1. CASE UNCHANGED <<tasks, starting, quiet>>
    BY <1>1 DEF QuietMeansStopped
<1>2. CASE StartCalled
    BY <1>2 DEF StartCalled, QuietMeansStopped
<1>3. CASE ImportEnds
    BY <1>3 DEF ImportEnds, QuietMeansStopped
<1>4. CASE StopCalled
    BY <1>4, StopQuiets
<1>5. CASE \E n \in Names : RegisterJob(n) \/ Fires(n) \/ RunEnds(n)
    BY <1>1, <1>5 DEF RegisterJob, Fires, RunEnds
<1>6. CASE UNCHANGED nodeVars
    BY <1>1, <1>6 DEF nodeVars
<1> QED  BY <1>2, <1>3, <1>4, <1>5, <1>6 DEF NodeNext

\* After stop no handler starts until start is called again, whatever was
\* registered and scheduled before, provided that no call of start was still
\* waiting for node-cron (node.ts:98).
THEOREM StopIsSilent == NodeSpec => StopSilences
<1>1. NodeInit => QuietMeansStopped
    BY DEF NodeInit, QuietMeansStopped
<1>2. ASSUME NodeInv, QuietMeansStopped, [NodeNext]_nodeVars
      PROVE  [quiet => \A n \in Names : running'[n] <= running[n]]_nodeVars
  <2> SUFFICES ASSUME NodeNext, quiet, NEW n \in Names
               PROVE  running'[n] <= running[n]
      BY <1>2
  <2>1. running \in [Names -> 0 .. MaxRuns] /\ MaxRuns \in Nat
      BY <1>2, NodeAssumption DEF NodeAssumption, NodeInv, NodeTypeOK
  <2>2. CASE UNCHANGED running
      BY <2>1, <2>2
  <2>3. ASSUME NEW m \in Names, Fires(m)
        PROVE  FALSE
      BY <1>2, <2>3 DEF QuietMeansStopped, Fires, Live
  <2>4. ASSUME NEW m \in Names, RunEnds(m)
        PROVE  running'[n] <= running[n]
      BY <2>1, <2>4 DEF RunEnds
  <2> QED  BY <2>2, <2>3, <2>4
           DEF NodeNext, RegisterJob, StartCalled, ImportEnds, StopCalled
<1> QED  BY NodeInitInv, NodeStepKeeps, QuietStepKeeps, <1>1, <1>2, PTL
         DEF NodeSpec, StopSilences
=============================================================================
