--------------------------- MODULE SchedulerProofs ---------------------------
(***************************************************************************)
(* Proofs about WorkerScheduler and Scheduler, for any callers, events,    *)
(* jobs and cron expressions.  As long as calls of getScheduler do not     *)
(* overlap there is one adapter, cron events find the jobs registered with *)
(* it, and a job registered later never takes the place of another.        *)
(***************************************************************************)
EXTENDS Scheduler, NodeSchedulerProofs

\* Whoever has come past getScheduler has an adapter.
HasAdapter(t) == at[t] \in {"resolved", "done", "threw"}

AdaptersGiven == \A t \in Users : HasAdapter(t) => got[t] # 0

\* A set of positions is empty or has a least one, the one getJobByCron finds.
HasFirst(S) == S = {} \/ \E i \in S : \A k \in S : i <= k

FirstJobsExist ==
    \A k \in DOMAIN registries, cron \in Crons : HasFirst(Matching(registries[k], cron))

\* What register did stays done.
RegisteredJobsStay ==
    \A c \in Callers : at[c] = "done" => Matching(registries[got[c]], cronOf[c]) # {}

\* An event that started a job would start the same job now.
DispatchesStand ==
    \A e \in Events : ranJob[e] # Null =>
        /\ at[e] = "done"
        /\ Matching(registries[got[e]], cronOf[e]) # {}
        /\ ranJob[e] = JobByCron(registries[got[e]], cronOf[e])

WorkerInv ==
    /\ WorkerTypeOK
    /\ AdaptersGiven
    /\ FirstJobsExist
    /\ RegisteredJobsStay
    /\ DispatchesStand

\* Without overlapping calls of getScheduler one adapter is made, and everybody
\* has it.
OneAdapter ==
    /\ current = Len(registries)
    /\ current <= 1
    /\ \A t \in Users : at[t] = "importing" => current = 0
    /\ \A t, u \in Users : at[t] = "importing" /\ at[u] = "importing" => t = u
    /\ \A t \in Users : HasAdapter(t) => got[t] = 1

-----------------------------------------------------------------------------
(* Registries *)

LEMMA MinIs ==
    ASSUME NEW S \in SUBSET Nat, NEW i \in S, \A k \in S : i <= k
    PROVE  Min(S) = i
<1>1. \A x \in S : (\A y \in S : x <= y) => x = i
    OBVIOUS
<1> QED  BY <1>1 DEF Min

\* Appending a job keeps what is found where something was found.
LEMMA InsertFacts ==
    ASSUME NEW r \in Seq(Job), NEW job \in Job, NEW cron \in Crons,
           HasFirst(Matching(r, cron))
    PROVE  LET now == Insert(r, job) IN
           /\ now \in Seq(Job)
           /\ HasFirst(Matching(now, cron))
           /\ job.cron = cron => Matching(now, cron) # {}
           /\ Matching(r, cron) # {} =>
                 /\ Matching(now, cron) # {}
                 /\ JobByCron(now, cron) = JobByCron(r, cron)
<1> DEFINE now == Insert(r, job)
           end == Len(r) + 1
           M == Matching(r, cron)
           N == Matching(now, cron)
<1>1. /\ now \in Seq(Job)
      /\ DOMAIN r = 1 .. Len(r) /\ Len(r) \in Nat
      /\ DOMAIN now = 1 .. end
      /\ \A i \in 1 .. Len(r) : now[i] = r[i]
      /\ now[end] = job
    BY DEF Insert
<1>2. M \in SUBSET (1 .. Len(r))
    BY <1>1 DEF Matching
<1>3. N = IF job.cron = cron THEN M \cup {end} ELSE M
    BY <1>1 DEF Matching
<1> HIDE DEF now
<1>4. CASE M = {}
  <2>1. N = {} \/ N = {end}
      BY <1>3, <1>4
  <2>2. HasFirst(N)
      BY <1>1, <2>1 DEF HasFirst
  <2>3. job.cron = cron => N # {}
      BY <1>3
  <2> QED  BY <1>1, <1>4, <2>2, <2>3 DEF now
<1>5. CASE M # {}
  <2>1. PICK i \in M : \A k \in M : i <= k
      BY <1>5 DEF HasFirst
  <2>2. i \in N /\ \A k \in N : i <= k
      BY <1>1, <1>2, <1>3, <2>1
  <2>3. HasFirst(N) /\ N # {}
      BY <2>2 DEF HasFirst
  <2>4. N \in SUBSET Nat /\ M \in SUBSET Nat
      BY <1>1, <1>2, <1>3
  <2>5. Min(M) = i /\ Min(N) = i
      BY <2>1, <2>2, <2>4, MinIs
  <2>6. now[i] = r[i]
      BY <1>1, <1>2
  <2>7. JobByCron(now, cron) = JobByCron(r, cron)
      BY <1>5, <2>3, <2>5, <2>6 DEF JobByCron
  <2> QED  BY <1>1, <2>3, <2>7 DEF now
<1> QED  BY <1>4, <1>5

\* Where there is a job to be found, getJobByCron finds one.
LEMMA FoundJob ==
    ASSUME NEW r \in Seq(Job), NEW cron \in Crons, HasFirst(Matching(r, cron))
    PROVE  /\ JobByCron(r, cron) \in JobNames \cup {Null}
           /\ JobByCron(r, cron) # Null <=> Matching(r, cron) # {}
<1>1. CASE Matching(r, cron) = {}
    BY <1>1 DEF JobByCron
<1>2. CASE Matching(r, cron) # {}
  <2>1. PICK i \in Matching(r, cron) : \A k \in Matching(r, cron) : i <= k
      BY <1>2 DEF HasFirst
  <2>2. Matching(r, cron) \in SUBSET Nat /\ i \in DOMAIN r
      BY DEF Matching
  <2>3. Min(Matching(r, cron)) = i
      BY <2>1, <2>2, MinIs
  <2>4. r[i] \in Job
      BY <2>2
  <2>5. r[i].name \in JobNames
      BY <2>4 DEF Job
  <2> QED  BY <1>2, <2>3, <2>5, WorkerAssumption DEF JobByCron, WorkerAssumption
<1> QED  BY <1>1, <1>2

-----------------------------------------------------------------------------
(* The Worker's scheduler *)

\* The registry of whoever has an adapter.
LEMMA RegistryOf ==
    ASSUME WorkerInv, NEW t \in Users, HasAdapter(t)
    PROVE  /\ got[t] \in DOMAIN registries
           /\ registries[got[t]] \in Seq(Job)
           /\ cronOf[t] \in Crons
           /\ HasFirst(Matching(registries[got[t]], cronOf[t]))
<1>1. /\ registries \in Seq(Seq(Job))
      /\ got[t] \in 0 .. Len(registries) /\ got[t] # 0
      /\ cronOf[t] \in Crons
    BY DEF WorkerInv, WorkerTypeOK, AdaptersGiven
<1>2. got[t] \in DOMAIN registries
    BY <1>1
<1> QED  BY <1>1, <1>2 DEF WorkerInv, FirstJobsExist

LEMMA NothingMatches == ASSUME NEW cron PROVE Matching(<<>>, cron) = {}
BY DEF Matching

LEMMA WorkerInitInv == WorkerInit => WorkerInv
<1> SUFFICES ASSUME WorkerInit
             PROVE  WorkerInv
    OBVIOUS
<1>1. registries = <<>> /\ Len(registries) = 0 /\ DOMAIN registries = {}
    BY DEF WorkerInit
<1>2. WorkerTypeOK
  <2>1. registries \in Seq(Seq(Job))
      BY <1>1
  <2>2. got \in [Users -> 0 .. Len(registries)] /\ current \in 0 .. Len(registries)
      BY <1>1 DEF WorkerInit
  <2> QED  BY <2>1, <2>2 DEF WorkerInit, WorkerTypeOK
<1>3. AdaptersGiven /\ RegisteredJobsStay /\ DispatchesStand
    BY DEF WorkerInit, AdaptersGiven, HasAdapter, RegisteredJobsStay, DispatchesStand, Users
<1>4. FirstJobsExist
    BY <1>1 DEF FirstJobsExist
<1> QED  BY <1>2, <1>3, <1>4 DEF WorkerInv

LEMMA GetSchedulerKeeps ==
    ASSUME WorkerInv, NEW t \in Users, GetScheduler(t)
    PROVE  WorkerInv'
<1>1. /\ at[t] = "new"
      /\ at \in [Users -> {"new", "importing", "resolved", "done", "threw"}]
      /\ got \in [Users -> 0 .. Len(registries)]
      /\ current \in 0 .. Len(registries)
      /\ UNCHANGED <<enabled, current, registries, cronOf, ranJob>>
    BY DEF WorkerInv, WorkerTypeOK, GetScheduler
<1>2. /\ at' \in [Users -> {"new", "importing", "resolved", "done", "threw"}]
      /\ got' \in [Users -> 0 .. Len(registries)]
    BY <1>1 DEF GetScheduler
<1>3. \A u \in Users : /\ u # t => at'[u] = at[u] /\ got'[u] = got[u]
                       /\ HasAdapter(u)' => got'[u] # 0
                       /\ at'[u] = "done" => u # t
    BY <1>1 DEF GetScheduler, WorkerInv, AdaptersGiven, HasAdapter
<1>4. WorkerTypeOK'
    BY <1>1, <1>2 DEF WorkerInv, WorkerTypeOK
<1>5. AdaptersGiven' /\ FirstJobsExist'
    BY <1>1, <1>3 DEF WorkerInv, AdaptersGiven, FirstJobsExist
<1>6. RegisteredJobsStay' /\ DispatchesStand'
    BY <1>1, <1>3 DEF WorkerInv, RegisteredJobsStay, DispatchesStand, Users
<1> QED  BY <1>4, <1>5, <1>6 DEF WorkerInv

LEMMA ImportedKeeps ==
    ASSUME WorkerInv, NEW t \in Users, Imported(t)
    PROVE  WorkerInv'
<1> DEFINE new == Len(registries) + 1
<1>1. /\ at[t] = "importing"
      /\ at \in [Users -> {"new", "importing", "resolved", "done", "threw"}]
      /\ got \in [Users -> 0 .. Len(registries)]
      /\ registries \in Seq(Seq(Job))
      /\ registries' = Append(registries, <<>>)
      /\ current' = Len(registries')
      /\ got' = [got EXCEPT ![t] = current']
      /\ at' = [at EXCEPT ![t] = "resolved"]
      /\ UNCHANGED <<enabled, cronOf, ranJob>>
    BY DEF WorkerInv, WorkerTypeOK, Imported, Create
<1>2. /\ registries' \in Seq(Seq(Job))
      /\ Len(registries') = new /\ new \in Nat
      /\ DOMAIN registries' = DOMAIN registries \cup {new}
      /\ \A k \in DOMAIN registries : registries'[k] = registries[k]
      /\ registries'[new] = <<>>
      /\ \A k \in DOMAIN registries : k # new
    BY <1>1
<1>3. \A u \in Users : got'[u] \in 0 .. new
    BY <1>1, <1>2
<1>4. got' \in [Users -> 0 .. Len(registries')] /\ current' \in 0 .. Len(registries')
  <2>1. got' = [u \in Users |-> got'[u]]
      BY <1>1
  <2> QED  BY <1>1, <1>2, <1>3, <2>1
<1>5. WorkerTypeOK'
    BY <1>1, <1>2, <1>4 DEF WorkerInv, WorkerTypeOK
<1>6. \A u \in Users : u # t => at'[u] = at[u] /\ got'[u] = got[u]
    BY <1>1
<1>7. AdaptersGiven'
  <2>1. got'[t] # 0
      BY <1>1, <1>2
  <2> QED  BY <1>6, <2>1 DEF WorkerInv, AdaptersGiven, HasAdapter
<1>8. FirstJobsExist'
    BY <1>2, NothingMatches DEF WorkerInv, FirstJobsExist, HasFirst
<1>9. \A u \in Users : HasAdapter(u) => registries'[got'[u]] = registries[got[u]]
  <2>1. \A u \in Users : HasAdapter(u) => u # t
      BY <1>1 DEF HasAdapter
  <2> QED  BY <1>2, <1>6, <2>1, RegistryOf
<1>10. \A u \in Users : at'[u] = "done" <=> at[u] = "done"
    BY <1>1
<1>11. RegisteredJobsStay'
    BY <1>1, <1>9, <1>10 DEF WorkerInv, RegisteredJobsStay, HasAdapter, Users
<1>12. DispatchesStand'
    BY <1>1, <1>9, <1>10 DEF WorkerInv, DispatchesStand, HasAdapter, Users
<1> QED  BY <1>5, <1>7, <1>8, <1>11, <1>12 DEF WorkerInv

\* A caller whose job was refused is done with, and nothing else happens.
LEMMA RefusedKeeps ==
    ASSUME WorkerInv, NEW t \in Users, at[t] = "resolved",
           at' = [at EXCEPT ![t] = "threw"],
           UNCHANGED <<enabled, current, registries, got, cronOf, ranJob>>
    PROVE  WorkerInv'
<1>1. at' \in [Users -> {"new", "importing", "resolved", "done", "threw"}]
    BY DEF WorkerInv, WorkerTypeOK
<1>2. WorkerTypeOK'
    BY <1>1 DEF WorkerInv, WorkerTypeOK
<1>3. \A u \in Users : /\ at'[u] = "done" <=> at[u] = "done"
                       /\ HasAdapter(u)' <=> HasAdapter(u)
    BY DEF WorkerInv, WorkerTypeOK, HasAdapter
<1>4. AdaptersGiven' /\ FirstJobsExist'
    BY <1>3 DEF WorkerInv, AdaptersGiven, FirstJobsExist
<1>5. RegisteredJobsStay' /\ DispatchesStand'
    BY <1>3 DEF WorkerInv, RegisteredJobsStay, DispatchesStand, Users
<1> QED  BY <1>2, <1>4, <1>5 DEF WorkerInv

LEMMA AcceptedKeeps ==
    ASSUME WorkerInv, NEW c \in Callers, NEW name \in JobNames,
           at[c] = "resolved",
           at' = [at EXCEPT ![c] = "done"],
           registries' = [registries EXCEPT
               ![got[c]] = Insert(@, [name |-> name, cron |-> cronOf[c]])],
           UNCHANGED <<enabled, current, got, cronOf, ranJob>>
    PROVE  WorkerInv'
<1> DEFINE g == got[c]
           job == [name |-> name, cron |-> cronOf[c]]
<1>1. /\ at \in [Users -> {"new", "importing", "resolved", "done", "threw"}]
      /\ registries \in Seq(Seq(Job))
      /\ c \in Users /\ HasAdapter(c)
    BY DEF WorkerInv, WorkerTypeOK, Users, HasAdapter
<1>2. /\ g \in DOMAIN registries
      /\ registries[g] \in Seq(Job)
      /\ job \in Job
      /\ job.cron = cronOf[c]
    BY <1>1, RegistryOf DEF Job
<1>3. \A cron \in Crons : HasFirst(Matching(registries[g], cron))
    BY <1>2 DEF WorkerInv, FirstJobsExist
<1>4. /\ Insert(registries[g], job) \in Seq(Job)
      /\ registries'[g] = Insert(registries[g], job)
      /\ \A k \in DOMAIN registries : k # g => registries'[k] = registries[k]
      /\ DOMAIN registries' = DOMAIN registries
  <2>1. Insert(registries[g], job) \in Seq(Job)
      BY <1>2 DEF Insert
  <2> QED  BY <1>1, <1>2, <2>1
<1>5. registries' \in Seq(Seq(Job)) /\ Len(registries') = Len(registries)
    BY <1>1, <1>2, <1>4
<1>6. WorkerTypeOK'
  <2>1. at' \in [Users -> {"new", "importing", "resolved", "done", "threw"}]
      BY <1>1
  <2> QED  BY <1>5, <2>1 DEF WorkerInv, WorkerTypeOK
<1>7. \A u \in Users : u # c => at'[u] = at[u]
    BY <1>1
<1>8. AdaptersGiven'
    BY <1>1, <1>7 DEF WorkerInv, AdaptersGiven, HasAdapter
<1>9. \A k \in DOMAIN registries, cron \in Crons :
          /\ HasFirst(Matching(registries'[k], cron))
          /\ Matching(registries[k], cron) # {} =>
                /\ Matching(registries'[k], cron) # {}
                /\ JobByCron(registries'[k], cron) = JobByCron(registries[k], cron)
  <2> SUFFICES ASSUME NEW k \in DOMAIN registries, NEW cron \in Crons
               PROVE  /\ HasFirst(Matching(registries'[k], cron))
                      /\ Matching(registries[k], cron) # {} =>
                            /\ Matching(registries'[k], cron) # {}
                            /\ JobByCron(registries'[k], cron) = JobByCron(registries[k], cron)
      OBVIOUS
  <2>1. CASE k = g
      BY <1>2, <1>3, <1>4, <2>1, InsertFacts
  <2>2. CASE k # g
      BY <1>4, <2>2 DEF WorkerInv, FirstJobsExist
  <2> QED  BY <2>1, <2>2
<1>10. FirstJobsExist'
    BY <1>4, <1>9 DEF FirstJobsExist
<1>11. RegisteredJobsStay'
  <2> SUFFICES ASSUME NEW d \in Callers, at'[d] = "done"
               PROVE  Matching(registries'[got[d]], cronOf[d]) # {}
      BY DEF RegisteredJobsStay
  <2>1. CASE d = c
    <3>1. cronOf[c] \in Crons /\ HasFirst(Matching(registries[g], cronOf[c]))
        BY <1>1, <1>3, RegistryOf
    <3>2. Matching(Insert(registries[g], job), cronOf[c]) # {}
        BY <1>2, <3>1, InsertFacts
    <3> QED  BY <1>4, <2>1, <3>2
  <2>2. CASE d # c
    <3>1. d \in Users /\ at[d] = "done" /\ HasAdapter(d)
        BY <1>7, <2>2 DEF Users, HasAdapter
    <3>2. Matching(registries[got[d]], cronOf[d]) # {}
        BY <3>1 DEF WorkerInv, RegisteredJobsStay
    <3> QED  BY <1>9, <3>1, <3>2, RegistryOf
  <2> QED  BY <2>1, <2>2
<1>12. DispatchesStand'
  <2> SUFFICES ASSUME NEW e \in Events, ranJob[e] # Null
               PROVE  /\ at'[e] = "done"
                      /\ Matching(registries'[got[e]], cronOf[e]) # {}
                      /\ ranJob[e] = JobByCron(registries'[got[e]], cronOf[e])
      BY DEF DispatchesStand
  <2>1. /\ e \in Users /\ at[e] = "done" /\ HasAdapter(e)
        /\ Matching(registries[got[e]], cronOf[e]) # {}
        /\ ranJob[e] = JobByCron(registries[got[e]], cronOf[e])
      BY DEF WorkerInv, DispatchesStand, HasAdapter, Users
  <2>2. at'[e] = "done"
      BY <1>7, <2>1
  <2> QED  BY <1>9, <2>1, <2>2, RegistryOf
<1> QED  BY <1>6, <1>8, <1>10, <1>11, <1>12 DEF WorkerInv

LEMMA DispatchedKeeps ==
    ASSUME WorkerInv, NEW e \in Events, at[e] = "resolved",
           at' = [at EXCEPT ![e] = "done"],
           ranJob' = [ranJob EXCEPT ![e] = JobByCron(registries[got[e]], cronOf[e])],
           UNCHANGED <<enabled, current, registries, got, cronOf>>
    PROVE  WorkerInv'
<1>1. /\ at \in [Users -> {"new", "importing", "resolved", "done", "threw"}]
      /\ ranJob \in [Events -> JobNames \cup {Null}]
      /\ e \in Users /\ HasAdapter(e) /\ e \notin Callers
    BY WorkerAssumption DEF WorkerInv, WorkerTypeOK, HasAdapter, Users, WorkerAssumption
<1>2. /\ JobByCron(registries[got[e]], cronOf[e]) \in JobNames \cup {Null}
      /\ JobByCron(registries[got[e]], cronOf[e]) # Null
            => Matching(registries[got[e]], cronOf[e]) # {}
    BY <1>1, FoundJob, RegistryOf
<1>3. WorkerTypeOK'
  <2>1. at' \in [Users -> {"new", "importing", "resolved", "done", "threw"}]
      BY <1>1
  <2>2. ranJob' \in [Events -> JobNames \cup {Null}]
      BY <1>1, <1>2
  <2> QED  BY <2>1, <2>2 DEF WorkerInv, WorkerTypeOK
<1>4. \A u \in Users : u # e => at'[u] = at[u]
    BY <1>1
<1>5. AdaptersGiven' /\ FirstJobsExist'
    BY <1>1, <1>4 DEF WorkerInv, AdaptersGiven, FirstJobsExist, HasAdapter
<1>6. RegisteredJobsStay'
    BY <1>1, <1>4 DEF WorkerInv, RegisteredJobsStay, Users
<1>7. DispatchesStand'
    BY <1>1, <1>2, <1>4 DEF WorkerInv, DispatchesStand, Users
<1> QED  BY <1>3, <1>5, <1>6, <1>7 DEF WorkerInv

LEMMA WorkerStepKeeps == WorkerInv /\ [WorkerNext]_workerVars => WorkerInv'
<1> SUFFICES ASSUME WorkerInv, [WorkerNext]_workerVars
             PROVE  WorkerInv'
    OBVIOUS
<1>1. CASE UNCHANGED workerVars
    BY <1>1 DEF workerVars, WorkerInv, WorkerTypeOK, AdaptersGiven, HasAdapter,
                FirstJobsExist, RegisteredJobsStay, DispatchesStand
<1>2. ASSUME NEW t \in Users, GetScheduler(t) \/ Imported(t)
      PROVE  WorkerInv'
    BY <1>2, GetSchedulerKeeps, ImportedKeeps
<1>3. ASSUME NEW c \in Callers, NEW n \in JobNames, Register(c, n)
      PROVE  WorkerInv'
  <2>1. c \in Users
      BY DEF Users
  <2> QED  BY <1>3, <2>1, RefusedKeeps, AcceptedKeeps DEF Register
<1>4. ASSUME NEW e \in Events, Dispatch(e)
      PROVE  WorkerInv'
  <2>1. e \in Users
      BY DEF Users
  <2> QED  BY <1>4, <2>1, RefusedKeeps, DispatchedKeeps DEF Dispatch
<1> QED  BY <1>1, <1>2, <1>3, <1>4 DEF WorkerNext

-----------------------------------------------------------------------------
(* One adapter *)

LEMMA OneAdapterInit == WorkerInit => OneAdapter
BY DEF WorkerInit, OneAdapter, HasAdapter

LEMMA OneAdapterStep ==
    ASSUME ~Overlap, WorkerInv, OneAdapter, [WorkerNext]_workerVars
    PROVE  OneAdapter'
<1>1. /\ at \in [Users -> {"new", "importing", "resolved", "done", "threw"}]
      /\ got \in [Users -> 0 .. Len(registries)]
      /\ registries \in Seq(Seq(Job))
    BY DEF WorkerInv, WorkerTypeOK
<1>2. CASE UNCHANGED workerVars
    BY <1>2 DEF workerVars, OneAdapter, HasAdapter
<1>3. ASSUME NEW t \in Users, GetScheduler(t)
      PROVE  OneAdapter'
  <2>1. CASE current = 0
      BY <1>1, <1>3, <2>1 DEF GetScheduler, OneAdapter, HasAdapter
  <2>2. CASE current # 0
    <3>1. current = 1
        BY <1>1, <2>2 DEF OneAdapter
    <3> QED  BY <1>1, <1>3, <3>1 DEF GetScheduler, OneAdapter, HasAdapter
  <2> QED  BY <2>1, <2>2
<1>4. ASSUME NEW t \in Users, Imported(t)
      PROVE  OneAdapter'
  <2>1. current = 0 /\ Len(registries) = 0
      BY <1>4 DEF Imported, OneAdapter
  <2>2. Len(registries') = 1 /\ current' = 1 /\ got'[t] = 1 /\ at'[t] = "resolved"
      BY <1>1, <1>4, <2>1 DEF Imported, Create
  <2>3. \A u \in Users : u # t => at'[u] = at[u] /\ got'[u] = got[u] /\ at[u] # "importing"
      BY <1>1, <1>4 DEF Imported, Create, OneAdapter
  <2> QED  BY <2>2, <2>3 DEF OneAdapter, HasAdapter
<1>5. ASSUME UNCHANGED <<current, got>>, Len(registries') = Len(registries),
             NEW t \in Users, at[t] = "resolved",
             \E s \in {"done", "threw"} : at' = [at EXCEPT ![t] = s]
      PROVE  OneAdapter'
    BY <1>1, <1>5 DEF OneAdapter, HasAdapter
<1>6. ASSUME NEW c \in Callers, NEW n \in JobNames, Register(c, n)
      PROVE  OneAdapter'
  <2>1. Len(registries') = Len(registries)
      BY <1>1, <1>6 DEF Register
  <2>2. c \in Users /\ at[c] = "resolved" /\ UNCHANGED <<current, got>>
        /\ \E s \in {"done", "threw"} : at' = [at EXCEPT ![c] = s]
      BY <1>6 DEF Register, Users
  <2> QED  BY <1>5, <2>1, <2>2
<1>7. ASSUME NEW e \in Events, Dispatch(e)
      PROVE  OneAdapter'
  <2>1. e \in Users /\ at[e] = "resolved" /\ UNCHANGED <<current, got, registries>>
        /\ \E s \in {"done", "threw"} : at' = [at EXCEPT ![e] = s]
      BY <1>7 DEF Dispatch, Users
  <2> QED  BY <1>5, <2>1
<1> QED  BY <1>2, <1>3, <1>4, <1>6, <1>7 DEF WorkerNext

-----------------------------------------------------------------------------
(* What holds while there is one adapter *)

\* Events of one expression that started a job look it up in one registry.
LEMMA OneRegistry == WorkerInv /\ OneAdapter => DispatchIsStable
<1> SUFFICES ASSUME WorkerInv, OneAdapter,
                    NEW e \in Events, NEW f \in Events,
                    cronOf[e] = cronOf[f], ranJob[e] # Null, ranJob[f] # Null
             PROVE  ranJob[e] = ranJob[f]
    BY DEF DispatchIsStable
<1>1. /\ ranJob[e] = JobByCron(registries[got[e]], cronOf[e])
      /\ ranJob[f] = JobByCron(registries[got[f]], cronOf[f])
      /\ HasAdapter(e) /\ HasAdapter(f)
      /\ e \in Users /\ f \in Users
    BY DEF WorkerInv, DispatchesStand, HasAdapter, Users
<1>2. got[e] = got[f]
    BY <1>1 DEF OneAdapter
<1> QED  BY <1>1, <1>2

\* An event that is dispatched finds a job that was registered before.
LEMMA DispatchFinds ==
    ASSUME WorkerInv, OneAdapter, [WorkerNext]_workerVars,
           NEW e \in Events, at[e] = "resolved", at'[e] = "done",
           NEW c \in Callers, at[c] = "done", cronOf[c] = cronOf[e]
    PROVE  ranJob'[e] # Null
<1>1. /\ e \in Users /\ c \in Users /\ e \notin Callers
      /\ HasAdapter(e) /\ HasAdapter(c)
    BY WorkerAssumption DEF WorkerAssumption, Users, HasAdapter
<1>2. got[e] = got[c]
    BY <1>1 DEF OneAdapter
<1>3. Matching(registries[got[e]], cronOf[e]) # {}
    BY <1>2 DEF WorkerInv, RegisteredJobsStay
<1>4. JobByCron(registries[got[e]], cronOf[e]) # Null
    BY <1>1, <1>3, RegistryOf, FoundJob
<1>5. at \in [Users -> {"new", "importing", "resolved", "done", "threw"}]
      /\ ranJob \in [Events -> JobNames \cup {Null}]
    BY DEF WorkerInv, WorkerTypeOK
<1>6. Dispatch(e)
  <2>1. CASE UNCHANGED workerVars
      BY <2>1 DEF workerVars
  <2>2. ASSUME NEW t \in Users, GetScheduler(t) \/ Imported(t)
        PROVE  FALSE
      BY <1>1, <1>5, <2>2 DEF GetScheduler, Imported
  <2>3. ASSUME NEW d \in Callers, NEW n \in JobNames, Register(d, n)
        PROVE  FALSE
      BY <1>1, <1>5, <2>3 DEF Register
  <2>4. ASSUME NEW f \in Events, Dispatch(f)
        PROVE  f = e
      BY <1>1, <1>5, <2>4 DEF Dispatch
  <2> QED  BY <2>1, <2>2, <2>3, <2>4 DEF WorkerNext
<1>7. ranJob'[e] = JobByCron(registries[got[e]], cronOf[e])
    BY <1>1, <1>5, <1>6 DEF Dispatch
<1> QED  BY <1>4, <1>7

\* All events of one cron expression start the same job, as long as the calls
\* of getScheduler do not overlap (scheduled.ts:13, cloudflare.ts:54).
THEOREM DispatchStable ==
    ASSUME ~Overlap
    PROVE  WorkerSpec => []DispatchIsStable
<1>1. WorkerInv /\ OneAdapter /\ [WorkerNext]_workerVars => OneAdapter'
    BY OneAdapterStep
<1> QED  BY WorkerInitInv, WorkerStepKeeps, OneAdapterInit, OneRegistry, <1>1, PTL
         DEF WorkerSpec

\* A cron event finds a job if one with its expression was registered by then,
\* as long as the calls of getScheduler do not overlap.
THEOREM RegisteredJobsAreFound ==
    ASSUME ~Overlap
    PROVE  WorkerSpec => RegisteredJobsRun
<1>1. WorkerInv /\ OneAdapter /\ [WorkerNext]_workerVars => OneAdapter'
    BY OneAdapterStep
<1>2. WorkerInv /\ OneAdapter /\ [WorkerNext]_workerVars =>
        [\A e \in Events :
            at[e] = "resolved" /\ at'[e] = "done"
                /\ (\E c \in Callers : at[c] = "done" /\ cronOf[c] = cronOf[e])
            => ranJob'[e] # Null]_workerVars
    BY DispatchFinds
<1> QED  BY WorkerInitInv, WorkerStepKeeps, OneAdapterInit, <1>1, <1>2, PTL
         DEF WorkerSpec, RegisteredJobsRun

-----------------------------------------------------------------------------
(* The scheduler of a process *)

LEMMA SchedulerStepParts ==
    [SchedulerNext]_schedulerVars => [NodeNext]_nodeVars /\ [WorkerNext]_workerVars
BY DEF SchedulerNext, schedulerVars

\* The state of the scheduler keeps its shape: initScheduler, node-cron and the
\* registries never leave the values they are declared with.
THEOREM SchedulerTyped == SchedulerSpec => []SchedulerTypeOK
<1> DEFINE ModeOK == mode \in {"cloudflare", "node"}
<1>1. SchedulerInit => NodeInv /\ WorkerInv /\ ModeOK
    BY NodeInitInv, WorkerInitInv DEF SchedulerInit
<1>2. NodeInv /\ WorkerInv /\ ModeOK /\ [SchedulerNext]_schedulerVars
        => (NodeInv /\ WorkerInv /\ ModeOK)'
  <2>1. ModeOK /\ [SchedulerNext]_schedulerVars => ModeOK'
      BY DEF SchedulerNext, schedulerVars
  <2> QED  BY <2>1, SchedulerStepParts, NodeStepKeeps, WorkerStepKeeps
<1>3. NodeInv /\ WorkerInv /\ ModeOK => SchedulerTypeOK
    BY DEF NodeInv, WorkerInv, SchedulerTypeOK
<1> QED  BY <1>1, <1>2, <1>3, PTL DEF SchedulerSpec
=============================================================================
