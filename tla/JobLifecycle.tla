---------------------------- MODULE JobLifecycle ----------------------------
(***************************************************************************)
(* What the job queue promises its callers, with no database, clock or     *)
(* polling: a submitted job is held by at most one worker at a time, each  *)
(* failed try is counted once, a job that was given up is never touched    *)
(* again, and a completed one only by the worker that completed it, and    *)
(* only before it lets go of the job.  So a job is run to its end at least *)
(* once, not exactly once.  DbConsumer.tla shows which assumption on the   *)
(* handlers makes packages/core/src/job-queue keep it.                     *)
(***************************************************************************)
EXTENDS Integers

CONSTANTS
    Jobs,         \* identities of the jobs ever submitted
    Workers,      \* the consumers that run jobs
    Budgets       \* the numbers of tries a submitter may ask for

VARIABLES
    status,       \* where a job is in its life
    tries,        \* how many of its tries failed and were counted
    budget,       \* how many counted tries it is given
    holders       \* the workers that hold it (a set: that it has at most one
                  \* member is the promise, not the representation)

lifeVars == <<status, tries, budget, holders>>

Statuses == {"absent", "pending", "processing", "completed", "failed"}

LifeTypeOK ==
    /\ status \in [Jobs -> Statuses]
    /\ tries \in [Jobs -> Nat]
    /\ budget \in [Jobs -> Budgets \cup {0}]
    /\ holders \in [Jobs -> SUBSET Workers]

LifeInit ==
    /\ status = [j \in Jobs |-> "absent"]
    /\ tries = [j \in Jobs |-> 0]
    /\ budget = [j \in Jobs |-> 0]
    /\ holders = [j \in Jobs |-> {}]

-----------------------------------------------------------------------------
\* A caller submits the jobs of S, and says how many tries each has.
Submit(S, b) ==
    /\ \A j \in S : status[j] = "absent"
    /\ status' = [j \in Jobs |-> IF j \in S THEN "pending" ELSE status[j]]
    /\ budget' = [j \in Jobs |-> IF j \in S THEN b[j] ELSE budget[j]]
    /\ UNCHANGED <<tries, holders>>

\* Worker w takes pending jobs nobody holds.
Take(w, S) ==
    /\ \A j \in S : status[j] = "pending" /\ holders[j] = {}
    /\ status' = [j \in Jobs |-> IF j \in S THEN "processing" ELSE status[j]]
    /\ holders' = [j \in Jobs |-> IF j \in S THEN {w} ELSE holders[j]]
    /\ UNCHANGED <<tries, budget>>

\* Pending jobs nobody holds are taken, and no worker hears of it.
Strand(S) ==
    /\ \A j \in S : status[j] = "pending" /\ holders[j] = {}
    /\ status' = [j \in Jobs |-> IF j \in S THEN "processing" ELSE status[j]]
    /\ UNCHANGED <<tries, budget, holders>>

\* The job succeeded.  Its holder has yet to learn that this is on record.
Complete(j) ==
    /\ status[j] = "processing"
    /\ holders[j] # {}
    /\ status' = [status EXCEPT ![j] = "completed"]
    /\ UNCHANGED <<tries, budget, holders>>

\* The holder of j lets go of it as failed: nobody can run it, or, the try
\* counted, none is left.
GiveUp(j) ==
    /\ holders[j] # {}
    /\ \/ status[j] = "processing" /\ UNCHANGED tries
       \/ /\ status[j] \in {"processing", "completed"}
          /\ tries[j] + 1 >= budget[j]
          /\ tries' = [tries EXCEPT ![j] = @ + 1]
    /\ status' = [status EXCEPT ![j] = "failed"]
    /\ holders' = [holders EXCEPT ![j] = {}]
    /\ UNCHANGED budget

\* The holder of j failed, or completed the job and never learned that it did,
\* and tries are left.
Retry(j) ==
    /\ status[j] \in {"processing", "completed"}
    /\ holders[j] # {}
    /\ tries[j] + 1 < budget[j]
    /\ status' = [status EXCEPT ![j] = "pending"]
    /\ tries' = [tries EXCEPT ![j] = @ + 1]
    /\ holders' = [holders EXCEPT ![j] = {}]
    /\ UNCHANGED budget

\* The workers of S let go of their jobs: they learned that the job is completed,
\* or died, or could not say how it ended.
LetGo(S) ==
    /\ holders' = [j \in Jobs |-> IF j \in S THEN {} ELSE holders[j]]
    /\ UNCHANGED <<status, tries, budget>>

\* Jobs in processing that nobody holds are offered again; the try that was
\* lost is not counted.
Reoffer(S) ==
    /\ \A j \in S : status[j] = "processing" /\ holders[j] = {}
    /\ status' = [j \in Jobs |-> IF j \in S THEN "pending" ELSE status[j]]
    /\ UNCHANGED <<tries, budget, holders>>

LifeNext ==
    \/ \E S \in SUBSET Jobs : \E b \in [S -> Budgets] : Submit(S, b)
    \/ \E w \in Workers : \E S \in SUBSET Jobs : Take(w, S)
    \/ \E j \in Jobs : Complete(j) \/ GiveUp(j) \/ Retry(j)
    \/ \E S \in SUBSET Jobs : Strand(S) \/ LetGo(S) \/ Reoffer(S)

LifeSpec == LifeInit /\ [][LifeNext]_lifeVars
=============================================================================
