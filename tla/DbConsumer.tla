----------------------------- MODULE DbConsumer -----------------------------
(***************************************************************************)
(* DBQueueConsumer (packages/core/src/job-queue/db-consumer.ts): several   *)
(* consumer processes poll one queue_jobs table, run the handlers of the   *)
(* jobs they claim and write the outcome back.                             *)
(*                                                                         *)
(* An action is the code between two awaits.  The awaits that matter are   *)
(* the timer of a poll, the reset statement before the claim statement,    *)
(* the handler, the UPDATE that records the outcome, and the SELECT with   *)
(* which EntityDao.update reads the row back after it.                     *)
(***************************************************************************)
EXTENDS QueueJobDao

CONSTANTS
    Consumers,      \* consumer processes
    Loops,          \* poll loops a consumer can have at once (a bound)
    Slots,          \* executions of one job there can be at once (a bound)
    Faults,         \* what may go wrong: a subset of FaultKinds
    MaxFaults,      \* how often (a bound)
    MaxCalls,       \* calls of start and stop there may be (a bound)
    Timely          \* is every claimed job settled before its claim is
                    \* VisibilityTimeout old, as long as its process lives?

FaultKinds ==
    {"crash",       \* a consumer process dies
     "refuse",      \* a statement fails and has no effect
     "reply"}       \* a statement takes effect and its caller gets an error

NoLoop == "no loop"

ASSUME ConsumerAssumption ==
    /\ Faults \subseteq FaultKinds
    /\ MaxFaults \in Nat
    /\ MaxCalls \in Nat
    /\ Timely \in BOOLEAN
    /\ NoLoop \notin Loops

VARIABLES
    life,           \* new: not started; started and stopped give _stopped
    handlers,       \* the types a consumer has a handler for
    loop,           \* idle; timer: waits for the poll timer; claim: between the
                    \* reset and the claim of a poll
    timer,          \* _timer: the loop that armed a timer last
    drain,          \* stop(): none, waiting for jobs in flight, or returned
    execs,          \* the runs of processJob that have not ended
    faults,         \* faults so far
    calls           \* calls so far

procVars  == <<life, handlers, loop, timer, drain, calls>>
vars == <<jobs, life, handlers, loop, timer, drain, execs, faults, calls>>

\* One run of processJob on a claimed row: attempts is the row's value when it
\* was claimed.  pc is what the run does next.
Exec == [job      : Jobs,
         slot     : Slots,
         owner    : Consumers,
         attempts : Nat,
         pc       : {"run",       \* the handler runs
                     "complete",  \* it resolved: UPDATE to completed
                     "confirm",   \* the SELECT after that UPDATE
                     "fail",      \* retryOrFailJob
                     "reject"}]   \* failJob: no handler for the type

ConsumerTypeOK ==
    /\ jobs \in [Jobs -> Row]
    /\ life \in [Consumers -> {"new", "started", "stopped"}]
    /\ handlers \in [Consumers -> SUBSET Types]
    /\ loop \in [Consumers -> [Loops -> {"idle", "timer", "claim"}]]
    /\ timer \in [Consumers -> Loops \cup {NoLoop}]
    /\ drain \in [Consumers -> {"none", "waiting", "returned"}]
    /\ execs \subseteq Exec
    /\ faults \in 0 .. MaxFaults
    /\ calls \in 0 .. MaxCalls

Init ==
    /\ DaoInit
    /\ life = [c \in Consumers |-> "new"]
    /\ handlers = [c \in Consumers |-> {}]
    /\ loop = [c \in Consumers |-> [l \in Loops |-> "idle"]]
    /\ timer = [c \in Consumers |-> NoLoop]
    /\ drain = [c \in Consumers |-> "none"]
    /\ execs = {}
    /\ faults = 0
    /\ calls = 0

\* A fault of this kind happens in this step.
Fault(kind) ==
    /\ kind \in Faults
    /\ faults < MaxFaults
    /\ faults' = faults + 1

Call ==
    /\ calls < MaxCalls
    /\ calls' = calls + 1

InFlight(c) == {e \in execs : e.owner = c}

-----------------------------------------------------------------------------
(* Producers: DBJobQueue.enqueue and enqueueBatch *)

Enqueue(S) ==
    /\ \E options \in [S -> Options], rank \in [S -> Ranks] : Insert(S, options, rank)
    /\ UNCHANGED <<procVars, execs, faults>>

-----------------------------------------------------------------------------
(* register, start, stop *)

\* register: a second handler for a type throws and changes nothing.
Register(c, t) ==
    /\ t \notin handlers[c]
    /\ handlers' = [handlers EXCEPT ![c] = @ \cup {t}]
    /\ UNCHANGED <<jobs, life, loop, timer, drain, execs, faults, calls>>

\* start: nothing is asked about loops that are running already.
Start(c) ==
    /\ Call
    /\ life' = [life EXCEPT ![c] = "started"]
    /\ \E l \in Loops :
          /\ loop[c][l] = "idle"
          /\ loop' = [loop EXCEPT ![c][l] = "timer"]
          /\ timer' = [timer EXCEPT ![c] = l]
    /\ UNCHANGED <<jobs, handlers, drain, execs, faults>>

\* stop, up to its first await: the one timer it knows of is cleared, which
\* does nothing to a loop whose timer has fired.
Stop(c) ==
    /\ Call
    /\ life' = [life EXCEPT ![c] = "stopped"]
    /\ loop' = [loop EXCEPT ![c] = [l \in Loops |->
                   IF l = timer[c] /\ @[l] = "timer" THEN "idle" ELSE @[l]]]
    /\ timer' = [timer EXCEPT ![c] = NoLoop]
    /\ drain' = [drain EXCEPT ![c] = "waiting"]
    /\ UNCHANGED <<jobs, handlers, execs, faults>>

\* stop returns: nothing is in flight.  (The 30 s deadline of its wait is left
\* out: what follows it is the state in which stop is still waiting.)
StopReturns(c) ==
    /\ drain[c] = "waiting"
    /\ InFlight(c) = {}
    /\ drain' = [drain EXCEPT ![c] = "returned"]
    /\ UNCHANGED <<jobs, life, handlers, loop, timer, execs, faults, calls>>

-----------------------------------------------------------------------------
(* The poll loop *)

\* (Mutation) stop clears a timer and leaves no flag behind.
NeverStopped(c) == FALSE

Stopped(c) == life[c] = "stopped"

\* scheduleNextPoll, at the end of a poll.
ScheduleNextPoll(c, l) ==
    IF Stopped(c)
    THEN /\ loop' = [loop EXCEPT ![c][l] = "idle"]
         /\ UNCHANGED timer
    ELSE /\ loop' = [loop EXCEPT ![c][l] = "timer"]
         /\ timer' = [timer EXCEPT ![c] = l]

\* The timer fires after stop: poll returns at once.
PollEnds(c, l) ==
    /\ loop[c][l] = "timer"
    /\ Stopped(c)
    /\ loop' = [loop EXCEPT ![c][l] = "idle"]
    /\ UNCHANGED <<jobs, life, handlers, timer, drain, execs, faults, calls>>

\* The timer fires: poll resets stuck jobs.
PollResets(c, l) ==
    /\ loop[c][l] = "timer"
    /\ ~Stopped(c)
    /\ ResetStuck
    /\ loop' = [loop EXCEPT ![c][l] = "claim"]
    /\ UNCHANGED <<life, handlers, timer, drain, execs, faults, calls>>

\* The reset fails: poll logs it and skips the claim.
PollResetFails(c, l) ==
    /\ loop[c][l] = "timer"
    /\ ~Stopped(c)
    /\ \/ Fault("refuse") /\ UNCHANGED jobs
       \/ Fault("reply") /\ ResetStuck
    /\ ScheduleNextPoll(c, l)
    /\ UNCHANGED <<life, handlers, drain, execs, calls>>

\* processBatch: the claimed rows are handed to processJob, which looks up the
\* handler at once; nothing asks whether the consumer was stopped meanwhile.
PollClaims(c, l) ==
    /\ loop[c][l] = "claim"
    /\ \E S \in ClaimableBatches :
          /\ Claim(S)
          /\ \E slot \in [S -> Slots] :
                /\ \A e \in execs : e.job \in S => e.slot # slot[e.job]
                /\ execs' = execs \cup
                     {[job |-> j, slot |-> slot[j], owner |-> c,
                       attempts |-> jobs[j].attempts,
                       pc |-> IF jobs[j].type \in handlers[c] THEN "run" ELSE "reject"] : j \in S}
    /\ ScheduleNextPoll(c, l)
    /\ UNCHANGED <<life, handlers, drain, faults, calls>>

\* (Mutation) An error leaves poll before the next one is scheduled.
PollClaimThrows(c, l) ==
    /\ loop[c][l] = "claim"
    /\ \/ Fault("refuse") /\ UNCHANGED jobs
       \/ Fault("reply") /\ \E S \in ClaimableBatches : Claim(S)
    /\ loop' = [loop EXCEPT ![c][l] = "idle"]
    /\ UNCHANGED <<life, handlers, timer, drain, execs, calls>>

\* The claim fails, or its answer is lost: then the rows it claimed are in
\* processing and nobody runs them.
PollClaimFails(c, l) ==
    /\ loop[c][l] = "claim"
    /\ \/ Fault("refuse") /\ UNCHANGED jobs
       \/ Fault("reply") /\ \E S \in ClaimableBatches : Claim(S)
    /\ ScheduleNextPoll(c, l)
    /\ UNCHANGED <<life, handlers, drain, execs, calls>>

-----------------------------------------------------------------------------
(* processJob *)

Becomes(e, pc) == execs' = (execs \ {e}) \cup {[e EXCEPT !.pc = pc]}

Ends(e) == execs' = execs \ {e}

HandlerResolves(e) ==
    /\ e.pc = "run"
    /\ Becomes(e, "complete")
    /\ UNCHANGED <<jobs, procVars, faults>>

HandlerThrows(e) ==
    /\ e.pc = "run"
    /\ Becomes(e, "fail")
    /\ UNCHANGED <<jobs, procVars, faults>>

\* markCompleted is within the try: when its UPDATE fails, the job that was
\* done is retried or failed like one whose handler threw.
Complete(e) ==
    /\ e.pc = "complete"
    /\ \/ MarkCompleted(e.job) /\ Becomes(e, "confirm") /\ UNCHANGED faults
       \/ Fault("refuse") /\ Becomes(e, "fail") /\ UNCHANGED jobs
    /\ UNCHANGED procVars

\* The row is read back.  That SELECT is within the try as well: whether it is
\* refused or its answer is lost, retryOrFailJob follows, on a completed row.
Confirm(e) ==
    /\ e.pc = "confirm"
    /\ \/ Ends(e) /\ UNCHANGED faults
       \/ \E kind \in {"refuse", "reply"} : Fault(kind) /\ Becomes(e, "fail")
    /\ UNCHANGED <<jobs, procVars>>

\* calculateBackoff(attempt): round(delay +- 25%), for delay = min(base * 2^attempt,
\* max).  The lengths are the integers a random jitter can round to.
Backoff(attempt) ==
    LET exponential == BaseDelay * 2 ^ attempt
        delay == IF exponential < MaxDelay THEN exponential ELSE MaxDelay
    IN  {d \in 0 .. 2 * MaxDelay : (3 * delay + 2) \div 4 <= d /\ d <= (5 * delay + 1) \div 4}

\* (Mutation) The budget is compared with the wrong side of the increment.
RetryOnceTooOften(e) ==
    IF e.attempts >= jobs[e.job].maxRetries
    THEN MarkFailed(e.job, e.attempts + 1, "handler error")
    ELSE \E d \in Backoff(e.attempts + 1) :
            MarkForRetry(e.job, e.attempts + 1, "handler error", d)

RetryOrFailRow(e) ==
    LET attempts == e.attempts + 1
    IN  IF attempts >= jobs[e.job].maxRetries
        THEN MarkFailed(e.job, attempts, "handler error")
        ELSE \E d \in Backoff(attempts) :
                MarkForRetry(e.job, attempts, "handler error", d)

\* retryOrFailJob.  An error of its UPDATE ends processJob, and nobody hears.
RetryOrFail(e) ==
    /\ e.pc = "fail"
    /\ \/ RetryOrFailRow(e) /\ UNCHANGED faults
       \/ Fault("refuse") /\ UNCHANGED jobs
    /\ Ends(e)
    /\ UNCHANGED procVars

\* failJob, for a type without a handler: attempts keeps its value.
Reject(e) ==
    /\ e.pc = "reject"
    /\ \/ MarkFailed(e.job, e.attempts, "no handler") /\ UNCHANGED faults
       \/ Fault("refuse") /\ UNCHANGED jobs
    /\ Ends(e)
    /\ UNCHANGED procVars

-----------------------------------------------------------------------------
(* The environment *)

\* The process of c dies with all its memory, and a new one takes its place.
Crash(c) ==
    /\ life[c] # "new"
    /\ Fault("crash")
    /\ life' = [life EXCEPT ![c] = "new"]
    /\ handlers' = [handlers EXCEPT ![c] = {}]
    /\ loop' = [loop EXCEPT ![c] = [l \in Loops |-> "idle"]]
    /\ timer' = [timer EXCEPT ![c] = NoLoop]
    /\ drain' = [drain EXCEPT ![c] = "none"]
    /\ execs' = {e \in execs : e.owner # c}
    /\ UNCHANGED <<jobs, calls>>

\* Under Timely no claim that is being worked on reaches VisibilityTimeout.
Tick ==
    /\ Timely => \A e \in execs : jobs[e.job].claimAge < VisibilityTimeout - 1
    /\ Passes
    /\ UNCHANGED <<procVars, execs, faults>>

-----------------------------------------------------------------------------
Poll(c, l) ==
    \/ PollEnds(c, l) \/ PollResets(c, l) \/ PollResetFails(c, l)
    \/ PollClaims(c, l) \/ PollClaimFails(c, l)

ProcessJob(e) ==
    \/ HandlerResolves(e) \/ HandlerThrows(e) \/ Complete(e) \/ Confirm(e)
    \/ RetryOrFail(e) \/ Reject(e)

Next ==
    \/ \E S \in SUBSET Jobs \ {{}} : Enqueue(S)
    \/ \E c \in Consumers, t \in Types : Register(c, t)
    \/ \E c \in Consumers : Start(c) \/ Stop(c) \/ StopReturns(c) \/ Crash(c)
    \/ \E c \in Consumers, l \in Loops : Poll(c, l)
    \/ \E e \in execs : ProcessJob(e)
    \/ Tick

Spec == Init /\ [][Next]_vars

\* Timers fire, statements are answered and handlers end; nobody has to call
\* start, stop, register or enqueue, and nothing has to go wrong.
Fairness ==
    /\ WF_vars(Tick)
    /\ \A c \in Consumers, l \in Loops : WF_vars(Poll(c, l))
    /\ \A j \in Jobs, s \in Slots :
          WF_vars(\E e \in execs : e.job = j /\ e.slot = s /\ ProcessJob(e))

FairSpec == Spec /\ Fairness

-----------------------------------------------------------------------------
(* Safety *)

\* No two runs of processJob work on one job: neither two consumers nor two
\* polls of one consumer run its handler, or write its outcome, together.
ExclusiveExecution == \A e, f \in execs : e.job = f.job => e = f

\* The claim a run was started with is still that of its row.
HoldsClaim(e) ==
    /\ jobs[e.job].status = "processing"
    /\ jobs[e.job].claimAge # NoTime
    /\ jobs[e.job].claimAge < VisibilityTimeout

\* Until a run of processJob ends, its row is its own: claimed, with the
\* attempts the run read then, or completed by this run.  So its updates, which
\* check none of this, overwrite nobody else's claim or outcome; what a run can
\* overwrite is its own completion, when reading the row back failed.
RunsOwnTheirRow ==
    \A e \in execs :
        /\ jobs[e.job].attempts = e.attempts
        /\ \/ e.pc # "confirm" /\ HoldsClaim(e)
           \/ e.pc \in {"confirm", "fail"} /\ jobs[e.job].status = "completed"

Settled(j) == jobs[j].status \in {"completed", "failed"}

\* The run that completed j ends by writing its retry: its read-back failed.
RetriesCompleted(j) ==
    /\ jobs[j].status = "completed"
    /\ \E e \in execs : e.job = j /\ e.pc = "fail" /\ execs' = execs \ {e}
    /\ jobs'[j].status \in {"pending", "failed"}
    /\ jobs'[j].attempts = jobs[j].attempts + 1

\* A failed row is final, and so is a completed one but for one case: the run
\* that completed it takes that back, once, and counts a try for it.  No other
\* run, no reset and no claim moves a settled row or its attempts, although
\* the updates of the DAO ask neither for the row's status nor for its claimant.
OnlyOwnRunUnsettles ==
    [][\A j \in Jobs : Settled(j) =>
          \/ jobs'[j].status = jobs[j].status /\ jobs'[j].attempts = jobs[j].attempts
          \/ RetriesCompleted(j)]_vars

Waiting(j) == jobs[j].status \in {"pending", "processing"}

\* A job that is not settled has tries left, and so has every snapshot a run
\* carries, however old: writing a stale snapshot back (attempts + 1) never
\* puts a job with no tries left into the queue, nor counts beyond its budget.
AttemptsWithinBudget ==
    /\ \A j \in Jobs :
          \/ jobs[j].attempts = 0
          \/ Waiting(j) /\ jobs[j].attempts < jobs[j].maxRetries
          \/ Settled(j) /\ jobs[j].attempts <= jobs[j].maxRetries
          \/ Settled(j) /\ jobs[j].attempts = 1
    /\ \A e \in execs : e.attempts = 0 \/ e.attempts < jobs[e.job].maxRetries

\* Exactly the rows in processing carry a claim time: resetStuckJobs looks for
\* it, so a row in processing without one would never be offered again.
ClaimIsRecoverable ==
    \A j \in Jobs : jobs[j].status = "processing" <=> jobs[j].claimAge # NoTime

\* A failed row says why: its type had no handler, or its tries are used up.
\* A row with failed tries carries an error.
OutcomeIsExplained ==
    \A j \in Jobs :
        /\ jobs[j].status = "failed" =>
              \/ jobs[j].lastError = "no handler"
              \/ jobs[j].lastError = "handler error" /\ jobs[j].attempts >= jobs[j].maxRetries
        /\ jobs[j].attempts > 0 => jobs[j].lastError # "none"

\* A started consumer always has a poll under way or a timer for the next,
\* whatever failed in the polls before and whenever stop and start were called.
LoopAlive ==
    \A c \in Consumers : life[c] = "started" => \E l \in Loops : loop[c][l] # "idle"

\* The queue keeps the promise of JobLifecycle: a worker holds a job from the
\* claim of its row until its run of processJob ends.
Lifecycle == INSTANCE JobLifecycle WITH
    Workers <- Consumers,
    Budgets <- RetryBudgets,
    status  <- [j \in Jobs |-> jobs[j].status],
    tries   <- [j \in Jobs |-> jobs[j].attempts],
    budget  <- [j \in Jobs |-> jobs[j].maxRetries],
    holders <- [j \in Jobs |-> {e.owner : e \in {f \in execs : f.job = j}}]

KeepsLifecycle == Lifecycle!LifeSpec

\* A consumer whose stop() has returned takes no job until it is started again
\* (packages/core/tests/job-queue/db-consumer.test.ts, "stop cancels the
\* polling loop").
QuietAfterStop ==
    [][\A c \in Consumers :
          drain[c] = "returned" /\ life[c] = "stopped" => InFlight(c)' \subseteq InFlight(c)]_vars

-----------------------------------------------------------------------------
(* Liveness *)

\* Every job that is enqueued is settled in the end and stays so, as long as
\* some consumer is left running for good: claims that were lost with a crash
\* or an unanswered statement come back, and late writes die out.
EventuallySettled ==
    (\E c \in Consumers : <>[](life[c] = "started")) =>
        \A j \in Jobs : [](jobs[j].status # "absent" => <>[]Settled(j))

\* After stop all poll loops of a consumer come to an end, also those whose
\* timer it no longer knows of, unless it is started again.
StopEndsLoops ==
    \A c \in Consumers :
        life[c] = "stopped" ~> (life[c] # "stopped" \/ \A l \in Loops : loop[c][l] = "idle")
=============================================================================
