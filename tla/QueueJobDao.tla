---------------------------- MODULE QueueJobDao -----------------------------
(***************************************************************************)
(* The queue_jobs table and the statements QueueJobDao issues against it   *)
(* (packages/core/src/db/queue-job-dao.ts, entity-dao.ts).                 *)
(*                                                                         *)
(* Each statement is atomic: it is one SQLite statement, and its clock     *)
(* reading is taken as it is issued.  Timestamps are kept as distances to  *)
(* the present, which Passes moves: retryIn is next_retry_at - now (0 once *)
(* it has passed), claimAge is now - processing_at (counted up to          *)
(* VisibilityTimeout, NoTime for NULL).  created_at only orders rows, so   *)
(* it is a rank.                                                           *)
(***************************************************************************)
EXTENDS Integers, FiniteSets

CONSTANTS
    Jobs,               \* ids a caller may enqueue under
    Types,              \* job types
    RetryBudgets,       \* values of the maxRetries option
    Delays,             \* values of the delay option, in ticks
    VisibilityTimeout,  \* config.visibilityTimeout, in ticks
    BaseDelay,          \* config.baseDelay, in ticks
    MaxDelay,           \* config.maxDelay, in ticks
    BatchSize           \* config.batchSize

ASSUME DaoAssumption ==
    /\ Types # {}
    /\ RetryBudgets \subseteq Nat
    /\ Delays \subseteq Nat
    /\ VisibilityTimeout \in Nat \ {0}
    /\ BaseDelay \in Nat
    /\ MaxDelay \in Nat
    /\ BatchSize \in Int

VARIABLE jobs           \* the table: job id -> row

NoTime == -1

Ages == NoTime .. VisibilityTimeout

Errors == {"none", "no handler", "handler error"}

\* The columns of a row.  "absent" stands for no row with this id.
Row == [status      : {"absent", "pending", "processing", "completed", "failed"},
        type        : Types,
        attempts    : Nat,
        maxRetries  : RetryBudgets \cup {0},
        createdAt   : Nat,
        retryIn     : Nat,
        lastError   : Errors,
        claimAge    : Ages]

NoRow ==
    [status |-> "absent", type |-> CHOOSE t \in Types : TRUE, attempts |-> 0, maxRetries |-> 0,
     createdAt |-> 0, retryIn |-> 0, lastError |-> "none", claimAge |-> NoTime]

DaoInit == jobs = [j \in Jobs |-> NoRow]

WithStatus(st) == {j \in Jobs : jobs[j].status = st}

-----------------------------------------------------------------------------
(* enqueue, enqueueBatch *)

\* created_at of a row inserted now: not before that of any row in the table,
\* and the same as the latest if no millisecond has passed.
Ranks ==
    LET latest == {i \in Jobs : \A k \in Jobs : jobs[k].createdAt <= jobs[i].createdAt}
    IN  IF WithStatus("absent") = Jobs THEN {0}
        ELSE UNION {{jobs[i].createdAt, jobs[i].createdAt + 1} : i \in latest}

\* What a caller says of a job.
Options == [type : Types, maxRetries : RetryBudgets, delay : Delays]

NewRow(options, rank) ==
    [status |-> "pending", type |-> options.type, attempts |-> 0,
     maxRetries |-> options.maxRetries, createdAt |-> rank, retryIn |-> options.delay,
     lastError |-> "none", claimAge |-> NoTime]

\* The rows of S come into being, in one transaction.
Insert(S, options, rank) ==
    /\ S \subseteq WithStatus("absent")
    /\ jobs' = [j \in Jobs |-> IF j \in S THEN NewRow(options[j], rank[j]) ELSE jobs[j]]

-----------------------------------------------------------------------------
(* claimReady, resetStuckJobs *)

\* (Mutation) The status is left out of the claim's WHERE clause.
ReadyWhateverStatus ==
    {j \in Jobs : jobs[j].status \notin {"absent", "processing"} /\ jobs[j].retryIn = 0}

Ready == {j \in WithStatus("pending") : jobs[j].retryIn = 0}

\* The batches ORDER BY created_at LIMIT batchSize may pick: rows of the same
\* created_at come in any order, and a limit that is not positive picks none.
ClaimableBatches ==
    {S \in SUBSET Ready :
        /\ \A i \in S, k \in Ready \ S : jobs[i].createdAt <= jobs[k].createdAt
        /\ IF BatchSize <= 0 THEN S = {}
           ELSE \/ Cardinality(S) = BatchSize
                \/ S = Ready /\ Cardinality(S) < BatchSize}

\* (Mutation) processing_at is not set by the claim.
ClaimWithoutTime(S) ==
    jobs' = [j \in Jobs |-> IF j \in S THEN [jobs[j] EXCEPT !.status = "processing"] ELSE jobs[j]]

Claim(S) ==
    jobs' = [j \in Jobs |->
               IF j \in S THEN [jobs[j] EXCEPT !.status = "processing", !.claimAge = 0]
               ELSE jobs[j]]

\* (Mutation) Every row in processing counts as stuck.
StuckWhateverAge == WithStatus("processing")

\* (Mutation) IS NULL in place of IS NOT NULL.
StuckIfUnclaimed == {j \in WithStatus("processing") : jobs[j].claimAge = NoTime}

Stuck ==
    {j \in WithStatus("processing") :
        jobs[j].claimAge # NoTime /\ jobs[j].claimAge >= VisibilityTimeout}

\* The reset gives the row back as it was claimed: attempts and next_retry_at
\* keep their values.
ResetStuck ==
    jobs' = [j \in Jobs |->
               IF j \in Stuck
               THEN [jobs[j] EXCEPT !.status = "pending", !.claimAge = NoTime]
               ELSE jobs[j]]

-----------------------------------------------------------------------------
(* markCompleted, markFailed, markForRetry: updates by id, whatever the    *)
(* status of the row and whoever claimed it last.                          *)

\* (Mutation) A status that is not one of the four: the column is plain text.
MarkDone(j) ==
    jobs' = [jobs EXCEPT ![j].status = "done", ![j].claimAge = NoTime]

MarkCompleted(j) ==
    jobs' = [jobs EXCEPT ![j].status = "completed", ![j].claimAge = NoTime]

MarkFailed(j, attempts, error) ==
    jobs' = [jobs EXCEPT ![j].status = "failed", ![j].attempts = attempts,
                         ![j].lastError = error, ![j].claimAge = NoTime]

\* (Mutation) last_error is written only by markFailed.
MarkForRetrySilently(j, attempts, error, retryIn) ==
    jobs' = [jobs EXCEPT ![j].status = "pending", ![j].attempts = attempts,
                         ![j].retryIn = retryIn, ![j].claimAge = NoTime]

MarkForRetry(j, attempts, error, retryIn) ==
    jobs' = [jobs EXCEPT ![j].status = "pending", ![j].attempts = attempts,
                         ![j].lastError = error, ![j].retryIn = retryIn,
                         ![j].claimAge = NoTime]

-----------------------------------------------------------------------------
\* The clock moves by one tick.
Passes ==
    jobs' = [j \in Jobs |->
               [jobs[j] EXCEPT
                  !.retryIn  = IF @ > 0 THEN @ - 1 ELSE 0,
                  !.claimAge = IF @ # NoTime /\ @ < VisibilityTimeout THEN @ + 1 ELSE @]]
=============================================================================
