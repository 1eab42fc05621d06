-------------------------- MODULE DbConsumerProofs --------------------------
(***************************************************************************)
(* What DbConsumer keeps for every number of jobs, consumers, poll loops,  *)
(* faults and calls, and every timeout, delay and retry budget.            *)
(***************************************************************************)
EXTENDS DbConsumer, TLAPS

-----------------------------------------------------------------------------
(* The statements of the DAO keep the table a table *)

LEMMA AgeFacts == NoTime \in Ages /\ 0 \in Ages /\ NoTime # 0
  BY DaoAssumption DEF Ages, NoTime

LEMMA InsertType ==
    ASSUME jobs \in [Jobs -> Row], NEW S, NEW options \in [S -> Options],
           NEW rank \in [S -> Nat], Insert(S, options, rank)
    PROVE  jobs' \in [Jobs -> Row]
  <1>1. \A o \in Options, r \in Nat : NewRow(o, r) \in Row
    <2>1. Delays \subseteq Nat
      BY DaoAssumption
    <2>2. QED
      BY <2>1, AgeFacts DEF Row, Errors, Options, NewRow
  <1>2. QED
    BY <1>1 DEF Insert

LEMMA ClaimType ==
    ASSUME jobs \in [Jobs -> Row], NEW S, Claim(S)
    PROVE  jobs' \in [Jobs -> Row]
  <1>1. ASSUME NEW r \in Row
        PROVE  [r EXCEPT !.status = "processing", !.claimAge = 0] \in Row
    BY AgeFacts DEF Row
  <1>2. QED
    BY <1>1 DEF Claim

LEMMA ResetType ==
    ASSUME jobs \in [Jobs -> Row], ResetStuck
    PROVE  jobs' \in [Jobs -> Row]
  <1>1. ASSUME NEW r \in Row
        PROVE  [r EXCEPT !.status = "pending", !.claimAge = NoTime] \in Row
    BY AgeFacts DEF Row
  <1>2. QED
    BY <1>1 DEF ResetStuck

LEMMA CompletedType ==
    ASSUME jobs \in [Jobs -> Row], NEW j \in Jobs, MarkCompleted(j)
    PROVE  jobs' \in [Jobs -> Row]
  <1>1. ASSUME NEW r \in Row
        PROVE  [r EXCEPT !.status = "completed", !.claimAge = NoTime] \in Row
    BY AgeFacts DEF Row
  <1>2. jobs' = [jobs EXCEPT ![j] = [jobs[j] EXCEPT !.status = "completed",
                                                    !.claimAge = NoTime]]
    BY DEF MarkCompleted
  <1>3. QED
    BY <1>1, <1>2

LEMMA FailedType ==
    ASSUME jobs \in [Jobs -> Row], NEW j \in Jobs, NEW a \in Nat, NEW e \in Errors,
           MarkFailed(j, a, e)
    PROVE  jobs' \in [Jobs -> Row]
  <1>1. ASSUME NEW r \in Row
        PROVE  [r EXCEPT !.status = "failed", !.attempts = a, !.lastError = e,
                         !.claimAge = NoTime] \in Row
    BY AgeFacts DEF Row
  <1>2. jobs' = [jobs EXCEPT ![j] = [jobs[j] EXCEPT !.status = "failed", !.attempts = a,
                                                    !.lastError = e, !.claimAge = NoTime]]
    BY DEF MarkFailed
  <1>3. QED
    BY <1>1, <1>2

LEMMA RetryType ==
    ASSUME jobs \in [Jobs -> Row], NEW j \in Jobs, NEW a \in Nat, NEW e \in Errors,
           NEW d \in Nat, MarkForRetry(j, a, e, d)
    PROVE  jobs' \in [Jobs -> Row]
  <1>1. ASSUME NEW r \in Row
        PROVE  [r EXCEPT !.status = "pending", !.attempts = a, !.lastError = e,
                         !.retryIn = d, !.claimAge = NoTime] \in Row
    BY AgeFacts DEF Row
  <1>2. jobs' = [jobs EXCEPT ![j] = [jobs[j] EXCEPT !.status = "pending", !.attempts = a,
                                                    !.lastError = e, !.retryIn = d,
                                                    !.claimAge = NoTime]]
    BY DEF MarkForRetry
  <1>3. QED
    BY <1>1, <1>2

LEMMA PassesType ==
    ASSUME jobs \in [Jobs -> Row], Passes
    PROVE  jobs' \in [Jobs -> Row]
  <1>1. ASSUME NEW r \in Row
        PROVE  [r EXCEPT
                  !.retryIn  = IF @ > 0 THEN @ - 1 ELSE 0,
                  !.claimAge = IF @ # NoTime /\ @ < VisibilityTimeout THEN @ + 1 ELSE @] \in Row
    <2>1. (IF r.retryIn > 0 THEN r.retryIn - 1 ELSE 0) \in Nat
      BY DEF Row
    <2>2. (IF r.claimAge # NoTime /\ r.claimAge < VisibilityTimeout
           THEN r.claimAge + 1 ELSE r.claimAge) \in Ages
      BY DaoAssumption DEF Row, Ages, NoTime
    <2>3. QED
      BY <2>1, <2>2 DEF Row
  <1>2. QED
    BY <1>1 DEF Passes

LEMMA RanksType ==
    ASSUME jobs \in [Jobs -> Row]
    PROVE  Ranks \subseteq Nat
  BY DEF Ranks, Row
-----------------------------------------------------------------------------
(* Type correctness *)

LEMMA BecomesType ==
    ASSUME execs \subseteq Exec, NEW e \in execs,
           NEW pc \in {"run", "complete", "confirm", "fail", "reject"}, Becomes(e, pc)
    PROVE  execs' \subseteq Exec
  <1>1. [e EXCEPT !.pc = pc] \in Exec
    BY DEF Exec
  <1>2. QED
    BY <1>1 DEF Becomes

LEMMA ExecType ==
    ASSUME execs \subseteq Exec, NEW e \in execs
    PROVE  e.job \in Jobs /\ e.owner \in Consumers /\ e.attempts \in Nat
  BY DEF Exec

LEMMA BackoffType == \A a \in Nat : Backoff(a) \subseteq Nat
  BY DEF Backoff

\* The outcome of a failed run: the two rows retryOrFailJob can leave.
LEMMA RetryOrFailType ==
    ASSUME jobs \in [Jobs -> Row], execs \subseteq Exec, NEW e \in execs, RetryOrFailRow(e)
    PROVE  jobs' \in [Jobs -> Row]
  <1>1. e.job \in Jobs /\ e.attempts + 1 \in Nat /\ "handler error" \in Errors
    BY ExecType DEF Errors
  <1>2. CASE e.attempts + 1 >= jobs[e.job].maxRetries
    BY <1>1, <1>2, FailedType DEF RetryOrFailRow
  <1>3. CASE ~(e.attempts + 1 >= jobs[e.job].maxRetries)
    <2>1. PICK d \in Backoff(e.attempts + 1) :
               MarkForRetry(e.job, e.attempts + 1, "handler error", d)
      BY <1>3 DEF RetryOrFailRow
    <2>2. d \in Nat
      BY <1>1, BackoffType
    <2>3. QED
      BY <1>1, <2>1, <2>2, RetryType
  <1>4. QED
    BY <1>2, <1>3

LEMMA ScheduleType ==
    ASSUME ConsumerTypeOK, NEW c \in Consumers, NEW l \in Loops, ScheduleNextPoll(c, l)
    PROVE  /\ loop' \in [Consumers -> [Loops -> {"idle", "timer", "claim"}]]
           /\ timer' \in [Consumers -> Loops \cup {NoLoop}]
  BY DEF ConsumerTypeOK, ScheduleNextPoll

LEMMA FaultType ==
    ASSUME faults \in 0 .. MaxFaults, NEW kind, Fault(kind)
    PROVE  faults' \in 0 .. MaxFaults
  BY ConsumerAssumption DEF Fault

LEMMA TypeInit == Init => ConsumerTypeOK
  <1> SUFFICES ASSUME Init PROVE ConsumerTypeOK
    OBVIOUS
  <1>1. NoRow \in Row
    BY DaoAssumption, AgeFacts DEF NoRow, Row, Errors
  <1>2. jobs \in [Jobs -> Row]
    BY <1>1 DEF Init, DaoInit
  <1>3. QED
    BY <1>2, ConsumerAssumption DEF Init, ConsumerTypeOK

LEMMA TypeStep == ConsumerTypeOK /\ [Next]_vars => ConsumerTypeOK'
  <1> SUFFICES ASSUME ConsumerTypeOK, [Next]_vars PROVE ConsumerTypeOK'
    OBVIOUS
  <1> USE DEF ConsumerTypeOK
  <1>1. ASSUME NEW S \in SUBSET Jobs, Enqueue(S)
        PROVE  ConsumerTypeOK'
    <2>1. PICK options \in [S -> Options], rank \in [S -> Ranks] : Insert(S, options, rank)
      BY <1>1 DEF Enqueue
    <2>2. rank \in [S -> Nat]
      BY RanksType
    <2>3. jobs' \in [Jobs -> Row]
      BY <2>1, <2>2, InsertType
    <2>4. QED
      BY <1>1, <2>3 DEF Enqueue, procVars
  <1>2. ASSUME NEW c \in Consumers, NEW t \in Types, Register(c, t)
        PROVE  ConsumerTypeOK'
    BY <1>2 DEF Register
  <1>3. ASSUME NEW c \in Consumers, Start(c)
        PROVE  ConsumerTypeOK'
    BY <1>3, ConsumerAssumption DEF Start, Call
  <1>4. ASSUME NEW c \in Consumers, Stop(c)
        PROVE  ConsumerTypeOK'
    BY <1>4, ConsumerAssumption DEF Stop, Call
  <1>5. ASSUME NEW c \in Consumers, StopReturns(c)
        PROVE  ConsumerTypeOK'
    BY <1>5 DEF StopReturns
  <1>6. ASSUME NEW c \in Consumers, Crash(c)
        PROVE  ConsumerTypeOK'
    BY <1>6, FaultType DEF Crash
  <1>7. ASSUME NEW c \in Consumers, NEW l \in Loops, Poll(c, l)
        PROVE  ConsumerTypeOK'
    <2>1. CASE PollEnds(c, l)
      BY <2>1 DEF PollEnds
    <2>2. CASE PollResets(c, l)
      BY <2>2, ResetType DEF PollResets
    <2>3. CASE PollResetFails(c, l)
      BY <2>3, ResetType, FaultType, ScheduleType DEF PollResetFails
    <2>4. CASE PollClaims(c, l)
      <3>1. PICK S \in ClaimableBatches : PollClaims(c, l)!2!(S)
        BY <2>4 DEF PollClaims
      <3>2. S \subseteq Jobs
        BY DEF ClaimableBatches, Ready, WithStatus
      <3>3. PICK slot \in [S -> Slots] :
               execs' = execs \cup
                 {[job |-> j, slot |-> slot[j], owner |-> c, attempts |-> jobs[j].attempts,
                   pc |-> IF jobs[j].type \in handlers[c] THEN "run" ELSE "reject"] : j \in S}
        BY <3>1
      <3>4. execs' \subseteq Exec
        BY <3>2, <3>3 DEF Exec, Row
      <3>5. jobs' \in [Jobs -> Row]
        BY <3>1, ClaimType
      <3>6. QED
        BY <2>4, <3>4, <3>5, ScheduleType DEF PollClaims
    <2>5. CASE PollClaimFails(c, l)
      BY <2>5, ClaimType, FaultType, ScheduleType DEF PollClaimFails
    <2>6. QED
      BY <1>7, <2>1, <2>2, <2>3, <2>4, <2>5 DEF Poll
  <1>8. ASSUME NEW e \in execs, ProcessJob(e)
        PROVE  ConsumerTypeOK'
    <2> e.job \in Jobs /\ e.attempts \in Nat
      BY ExecType
    <2>1. CASE HandlerResolves(e)
      BY <2>1, BecomesType DEF HandlerResolves, procVars
    <2>2. CASE HandlerThrows(e)
      BY <2>2, BecomesType DEF HandlerThrows, procVars
    <2>3. CASE Complete(e)
      BY <2>3, BecomesType, CompletedType, FaultType DEF Complete, procVars
    <2>4. CASE Confirm(e)
      BY <2>4, BecomesType, FaultType DEF Confirm, Ends, procVars
    <2>5. CASE RetryOrFail(e)
      BY <2>5, RetryOrFailType, FaultType DEF RetryOrFail, Ends, procVars
    <2>6. CASE Reject(e)
      <3>1. "no handler" \in Errors
        BY DEF Errors
      <3>2. QED
        BY <2>6, <3>1, FailedType, FaultType DEF Reject, Ends, procVars
    <2>7. QED
      BY <1>8, <2>1, <2>2, <2>3, <2>4, <2>5, <2>6 DEF ProcessJob
  <1>9. CASE Tick
    BY <1>9, PassesType DEF Tick, procVars
  <1>10. CASE UNCHANGED vars
    BY <1>10 DEF vars
  <1>11. QED
    BY <1>1, <1>2, <1>3, <1>4, <1>5, <1>6, <1>7, <1>8, <1>9, <1>10 DEF Next

\* Every variable keeps its type: a row has one of the four statuses, a claim
\* time between now and the timeout or none, and so on.
THEOREM TypeCorrect == Spec => []ConsumerTypeOK
  <1>1. QED
    BY TypeInit, TypeStep, PTL DEF Spec
-----------------------------------------------------------------------------
(* The table invariants: they hold whatever fails and however late a run   *)
(* writes its outcome, since they ask of each update alone that it leave a *)
(* good row, given a snapshot of attempts that is good for that row.       *)

\* A count of failed tries after which a row may be offered again.
TriesLeft(attempts, maxRetries) == attempts = 0 \/ attempts < maxRetries

\* AttemptsWithinBudget and OutcomeIsExplained, of the columns of one row.
Budgeted(status, attempts, maxRetries) ==
    \/ attempts = 0
    \/ status \in {"pending", "processing"} /\ attempts < maxRetries
    \/ status \in {"completed", "failed"} /\ attempts <= maxRetries
    \/ status \in {"completed", "failed"} /\ attempts = 1

Explained(status, attempts, maxRetries, error) ==
    /\ status = "failed" =>
          \/ error = "no handler"
          \/ error = "handler error" /\ attempts >= maxRetries
    /\ attempts > 0 => error # "none"

GoodRow(r) ==
    /\ Budgeted(r.status, r.attempts, r.maxRetries)
    /\ Explained(r.status, r.attempts, r.maxRetries, r.lastError)
    /\ r.status = "processing" <=> r.claimAge # NoTime

\* A run's row exists (so no insert gives it another budget).
GoodExec(e) ==
    /\ TriesLeft(e.attempts, jobs[e.job].maxRetries)
    /\ jobs[e.job].status # "absent"

TableInv ==
    /\ ConsumerTypeOK
    /\ \A j \in Jobs : GoodRow(jobs[j])
    /\ \A e \in execs : GoodExec(e)

\* What every statement does to the rows that runs point to.
SameBudgets ==
    \A j \in Jobs : jobs[j].status # "absent" =>
        jobs'[j].maxRetries = jobs[j].maxRetries /\ jobs'[j].status # "absent"

LEMMA RowFacts ==
    \A r \in Row : r.attempts \in Nat /\ r.maxRetries \in Nat
  <1> SUFFICES ASSUME NEW r \in Row PROVE r.attempts \in Nat /\ r.maxRetries \in Nat
    OBVIOUS
  <1>1. r.attempts \in Nat /\ r.maxRetries \in RetryBudgets \cup {0}
    BY DEF Row
  <1>2. RetryBudgets \cup {0} \subseteq Nat
    BY DaoAssumption
  <1>3. QED
    BY <1>1, <1>2

\* Which counts and errors each new status allows.
LEMMA BudgetFacts ==
    ASSUME NEW a \in Nat, NEW m \in Nat
    PROVE  /\ Budgeted("absent", 0, m) /\ Budgeted("pending", 0, m)
           /\ Budgeted("pending", a, m) <=> Budgeted("processing", a, m)
           /\ \A st : Budgeted(st, a, m) => Budgeted("completed", a, m)
           /\ Budgeted("pending", a, m) => TriesLeft(a, m)
           /\ TriesLeft(a, m) => Budgeted("failed", a, m) /\ Budgeted("failed", a + 1, m)
           /\ a < m => Budgeted("pending", a, m)
  <1> USE DEF Budgeted, TriesLeft
  <1>1. Budgeted("absent", 0, m) /\ Budgeted("pending", 0, m)
    OBVIOUS
  <1>2. Budgeted("pending", a, m) <=> Budgeted("processing", a, m)
    OBVIOUS
  <1>3. \A st : Budgeted(st, a, m) => Budgeted("completed", a, m)
    OBVIOUS
  <1>4. /\ Budgeted("pending", a, m) => TriesLeft(a, m)
        /\ TriesLeft(a, m) => Budgeted("failed", a, m) /\ Budgeted("failed", a + 1, m)
        /\ a < m => Budgeted("pending", a, m)
    OBVIOUS
  <1>5. QED
    BY <1>1, <1>2, <1>3, <1>4

LEMMA ErrorFacts ==
    ASSUME NEW a \in Nat, NEW m \in Nat
    PROVE  /\ \A x : Explained("absent", 0, m, x) /\ Explained("pending", 0, m, x)
           /\ \A x : Explained("pending", a, m, x) <=> Explained("processing", a, m, x)
           /\ \A st, x : Explained(st, a, m, x) => Explained("completed", a, m, x)
           /\ Explained("failed", a, m, "no handler")
           /\ a >= m => Explained("failed", a, m, "handler error")
           /\ Explained("pending", a, m, "handler error")
  <1> USE DEF Explained
  <1>1. \A x : Explained("absent", 0, m, x) /\ Explained("pending", 0, m, x)
    OBVIOUS
  <1>2. \A x : Explained("pending", a, m, x) <=> Explained("processing", a, m, x)
    OBVIOUS
  <1>3. \A st, x : Explained(st, a, m, x) => Explained("completed", a, m, x)
    OBVIOUS
  <1>4. Explained("failed", a, m, "no handler")
    OBVIOUS
  <1>5. a >= m => Explained("failed", a, m, "handler error")
    OBVIOUS
  <1>6. Explained("pending", a, m, "handler error")
    OBVIOUS
  <1>7. QED
    BY <1>1, <1>2, <1>3, <1>4, <1>5, <1>6

LEMMA TableInit == Init => TableInv
  <1> SUFFICES ASSUME Init PROVE TableInv
    OBVIOUS
  <1>1. GoodRow(NoRow)
    BY BudgetFacts, ErrorFacts DEF GoodRow, NoRow
  <1>2. QED
    BY <1>1, TypeInit DEF Init, DaoInit, TableInv

\* A row that a statement turns into f stays good and keeps its budget.
Keeps(r, f) == GoodRow(f) /\ f.maxRetries = r.maxRetries /\ f.status # "absent"

LEMMA GivenRowKept ==
    ASSUME NEW r, NEW f, NEW status, status # "processing", status # "absent", NEW a, NEW x,
           f.status = status, f.claimAge = NoTime, f.attempts = a, f.lastError = x,
           f.maxRetries = r.maxRetries, Budgeted(status, a, r.maxRetries),
           Explained(status, a, r.maxRetries, x)
    PROVE  Keeps(r, f)
  BY DEF Keeps, GoodRow

ClaimedRow(r) == [r EXCEPT !.status = "processing", !.claimAge = 0]

GivenBackRow(r) == [r EXCEPT !.status = "pending", !.claimAge = NoTime]

CompletedRow(r) == [r EXCEPT !.status = "completed", !.claimAge = NoTime]

FailedRow(r, a, x) ==
    [r EXCEPT !.status = "failed", !.attempts = a, !.lastError = x, !.claimAge = NoTime]

RetriedRow(r, a, d) ==
    [r EXCEPT !.status = "pending", !.attempts = a, !.lastError = "handler error",
              !.retryIn = d, !.claimAge = NoTime]

LEMMA RejectedRowKept ==
    ASSUME NEW r \in Row, NEW a \in Nat, TriesLeft(a, r.maxRetries)
    PROVE  Keeps(r, FailedRow(r, a, "no handler"))
  <1> DEFINE f == FailedRow(r, a, "no handler")
  <1>1. /\ f.status = "failed" /\ f.claimAge = NoTime /\ f.attempts = a
        /\ f.maxRetries = r.maxRetries /\ f.lastError = "no handler"
    BY DEF Row, FailedRow
  <1>2. r.maxRetries \in Nat /\ a + 1 \in Nat
    BY RowFacts
  <1>3. Budgeted("failed", a, r.maxRetries)
    BY <1>2, BudgetFacts
  <1>4. Explained("failed", a, r.maxRetries, "no handler")
    BY <1>2, ErrorFacts
  <1> HIDE DEF f
  <1>5. Keeps(r, f)
    BY <1>1, <1>3, <1>4, GivenRowKept
  <1>6. QED
    BY <1>5 DEF f

LEMMA ExhaustedRowKept ==
    ASSUME NEW r \in Row, NEW a \in Nat, TriesLeft(a, r.maxRetries), a + 1 >= r.maxRetries
    PROVE  Keeps(r, FailedRow(r, a + 1, "handler error"))
  <1> DEFINE f == FailedRow(r, a + 1, "handler error")
  <1>1. /\ f.status = "failed" /\ f.claimAge = NoTime /\ f.attempts = a + 1
        /\ f.maxRetries = r.maxRetries /\ f.lastError = "handler error"
    BY DEF Row, FailedRow
  <1>2. r.maxRetries \in Nat /\ a + 1 \in Nat
    BY RowFacts
  <1>3. Budgeted("failed", a + 1, r.maxRetries)
    BY <1>2, BudgetFacts
  <1>4. Explained("failed", a + 1, r.maxRetries, "handler error")
    BY <1>2, ErrorFacts
  <1> HIDE DEF f
  <1>5. Keeps(r, f)
    BY <1>1, <1>3, <1>4, GivenRowKept
  <1>6. QED
    BY <1>5 DEF f

LEMMA RetriedRowKept ==
    ASSUME NEW r \in Row, NEW a \in Nat, NEW d, ~(a + 1 >= r.maxRetries)
    PROVE  Keeps(r, RetriedRow(r, a + 1, d))
  <1> DEFINE f == RetriedRow(r, a + 1, d)
  <1>1. /\ f.status = "pending" /\ f.claimAge = NoTime /\ f.attempts = a + 1
        /\ f.maxRetries = r.maxRetries /\ f.lastError = "handler error"
    BY DEF Row, RetriedRow
  <1>2. r.maxRetries \in Nat /\ a + 1 \in Nat
    BY RowFacts
  <1>3. Budgeted("pending", a + 1, r.maxRetries)
    BY <1>2, BudgetFacts
  <1>4. Explained("pending", a + 1, r.maxRetries, "handler error")
    BY <1>2, ErrorFacts
  <1> HIDE DEF f
  <1>5. Keeps(r, f)
    BY <1>1, <1>3, <1>4, GivenRowKept
  <1>6. QED
    BY <1>5 DEF f

LEMMA ClaimGood ==
    ASSUME TableInv, NEW S, S \subseteq Ready, Claim(S)
    PROVE  (\A j \in Jobs : GoodRow(jobs'[j])) /\ SameBudgets
  <1>1. \A r \in Row : GoodRow(r) /\ r.status = "pending" => Keeps(r, ClaimedRow(r))
    <2> SUFFICES ASSUME NEW r \in Row, GoodRow(r), r.status = "pending"
                 PROVE  Keeps(r, ClaimedRow(r))
      OBVIOUS
    <2>1. /\ ClaimedRow(r).status = "processing" /\ ClaimedRow(r).claimAge = 0
          /\ ClaimedRow(r).attempts = r.attempts /\ ClaimedRow(r).maxRetries = r.maxRetries
          /\ ClaimedRow(r).lastError = r.lastError
      BY DEF Row, ClaimedRow
    <2>2. QED
      BY <2>1, RowFacts, AgeFacts, BudgetFacts, ErrorFacts DEF GoodRow, Keeps
  <1>2. \A j \in Jobs : jobs'[j] = IF j \in S THEN ClaimedRow(jobs[j]) ELSE jobs[j]
    BY DEF Claim, ClaimedRow
  <1>3. \A j \in Jobs : jobs[j] \in Row /\ GoodRow(jobs[j])
    BY DEF TableInv, ConsumerTypeOK
  <1>4. \A j \in S : j \in Jobs /\ jobs[j].status = "pending"
    BY DEF Ready, WithStatus
  <1>5. \A j \in S : Keeps(jobs[j], jobs'[j])
    BY <1>1, <1>2, <1>3, <1>4
  <1>6. \A j \in S : GoodRow(jobs'[j]) /\ jobs'[j].maxRetries = jobs[j].maxRetries
                                      /\ jobs'[j].status # "absent"
    BY <1>5 DEF Keeps
  <1>7. QED
    BY <1>2, <1>3, <1>6 DEF SameBudgets

LEMMA ResetGood ==
    ASSUME TableInv, ResetStuck
    PROVE  (\A j \in Jobs : GoodRow(jobs'[j])) /\ SameBudgets
  <1>1. \A r \in Row : GoodRow(r) /\ r.status = "processing" => Keeps(r, GivenBackRow(r))
    <2> SUFFICES ASSUME NEW r \in Row, GoodRow(r), r.status = "processing"
                 PROVE  Keeps(r, GivenBackRow(r))
      OBVIOUS
    <2>1. /\ GivenBackRow(r).status = "pending" /\ GivenBackRow(r).claimAge = NoTime
          /\ GivenBackRow(r).attempts = r.attempts /\ GivenBackRow(r).maxRetries = r.maxRetries
          /\ GivenBackRow(r).lastError = r.lastError
      BY DEF Row, GivenBackRow
    <2>2. QED
      BY <2>1, RowFacts, AgeFacts, BudgetFacts, ErrorFacts DEF GoodRow, Keeps
  <1>2. \A j \in Jobs : jobs'[j] = IF j \in Stuck THEN GivenBackRow(jobs[j]) ELSE jobs[j]
    BY DEF ResetStuck, GivenBackRow
  <1>3. \A j \in Jobs : jobs[j] \in Row /\ GoodRow(jobs[j])
    BY DEF TableInv, ConsumerTypeOK
  <1>4. \A j \in Stuck : j \in Jobs /\ jobs[j].status = "processing"
    BY DEF Stuck, WithStatus
  <1>5. \A j \in Stuck : Keeps(jobs[j], jobs'[j])
    BY <1>1, <1>2, <1>3, <1>4
  <1>6. \A j \in Stuck : GoodRow(jobs'[j]) /\ jobs'[j].maxRetries = jobs[j].maxRetries
                                          /\ jobs'[j].status # "absent"
    BY <1>5 DEF Keeps
  <1>7. QED
    BY <1>2, <1>3, <1>6 DEF SameBudgets

\* One row is replaced by a good row of the same budget.
LEMMA UpdateGood ==
    ASSUME TableInv, NEW j \in Jobs, NEW r, jobs' = [jobs EXCEPT ![j] = r],
           Keeps(jobs[j], r)
    PROVE  (\A i \in Jobs : GoodRow(jobs'[i])) /\ SameBudgets
  BY DEF TableInv, ConsumerTypeOK, SameBudgets, Keeps

LEMMA CompletedGood ==
    ASSUME TableInv, NEW e \in execs, MarkCompleted(e.job)
    PROVE  (\A i \in Jobs : GoodRow(jobs'[i])) /\ SameBudgets
  <1>1. e.job \in Jobs /\ jobs[e.job] \in Row /\ GoodRow(jobs[e.job])
    BY ExecType DEF TableInv, ConsumerTypeOK
  <1>2. jobs[e.job].status # "absent"
    BY DEF TableInv, GoodExec
  <1>3. \A r \in Row : GoodRow(r) /\ r.status # "absent" => Keeps(r, CompletedRow(r))
    <2> SUFFICES ASSUME NEW r \in Row, GoodRow(r), r.status # "absent"
                 PROVE  Keeps(r, CompletedRow(r))
      OBVIOUS
    <2>1. /\ CompletedRow(r).status = "completed" /\ CompletedRow(r).claimAge = NoTime
          /\ CompletedRow(r).attempts = r.attempts /\ CompletedRow(r).maxRetries = r.maxRetries
          /\ CompletedRow(r).lastError = r.lastError
      BY DEF Row, CompletedRow
    <2>2. QED
      BY <2>1, RowFacts, BudgetFacts, ErrorFacts DEF GoodRow, Keeps
  <1>4. jobs' = [jobs EXCEPT ![e.job] = CompletedRow(jobs[e.job])]
    BY DEF MarkCompleted, CompletedRow
  <1>5. QED
    BY <1>1, <1>2, <1>3, <1>4, UpdateGood

LEMMA FailedGood ==
    ASSUME TableInv, NEW e \in execs,
           \/ MarkFailed(e.job, e.attempts, "no handler")
           \/ e.attempts + 1 >= jobs[e.job].maxRetries
                /\ MarkFailed(e.job, e.attempts + 1, "handler error")
    PROVE  (\A i \in Jobs : GoodRow(jobs'[i])) /\ SameBudgets
  <1>1. e.job \in Jobs /\ e.attempts \in Nat /\ jobs[e.job] \in Row
    BY ExecType DEF TableInv, ConsumerTypeOK
  <1>2. TriesLeft(e.attempts, jobs[e.job].maxRetries)
    BY DEF TableInv, GoodExec
  <1>3. \/ jobs' = [jobs EXCEPT ![e.job] = FailedRow(jobs[e.job], e.attempts, "no handler")]
        \/ /\ e.attempts + 1 >= jobs[e.job].maxRetries
           /\ jobs' = [jobs EXCEPT ![e.job] =
                          FailedRow(jobs[e.job], e.attempts + 1, "handler error")]
    BY DEF MarkFailed, FailedRow
  <1>4. Keeps(jobs[e.job], FailedRow(jobs[e.job], e.attempts, "no handler"))
    BY <1>1, <1>2, RejectedRowKept
  <1>5. e.attempts + 1 >= jobs[e.job].maxRetries =>
           Keeps(jobs[e.job], FailedRow(jobs[e.job], e.attempts + 1, "handler error"))
    BY <1>1, <1>2, ExhaustedRowKept
  <1>6. QED
    BY <1>1, <1>3, <1>4, <1>5, UpdateGood

LEMMA RetryGood ==
    ASSUME TableInv, NEW e \in execs, NEW d \in Nat,
           ~(e.attempts + 1 >= jobs[e.job].maxRetries),
           MarkForRetry(e.job, e.attempts + 1, "handler error", d)
    PROVE  (\A i \in Jobs : GoodRow(jobs'[i])) /\ SameBudgets
  <1>1. e.job \in Jobs /\ e.attempts \in Nat /\ jobs[e.job] \in Row
    BY ExecType DEF TableInv, ConsumerTypeOK
  <1>2. jobs' = [jobs EXCEPT ![e.job] = RetriedRow(jobs[e.job], e.attempts + 1, d)]
    BY DEF MarkForRetry, RetriedRow
  <1>3. Keeps(jobs[e.job], RetriedRow(jobs[e.job], e.attempts + 1, d))
    BY <1>1, RetriedRowKept
  <1>4. QED
    BY <1>1, <1>2, <1>3, UpdateGood

LEMMA RetryOrFailGood ==
    ASSUME TableInv, NEW e \in execs, RetryOrFailRow(e)
    PROVE  (\A i \in Jobs : GoodRow(jobs'[i])) /\ SameBudgets
  <1>1. CASE e.attempts + 1 >= jobs[e.job].maxRetries
    BY <1>1, FailedGood DEF RetryOrFailRow
  <1>2. CASE ~(e.attempts + 1 >= jobs[e.job].maxRetries)
    <2>1. PICK d \in Backoff(e.attempts + 1) :
               MarkForRetry(e.job, e.attempts + 1, "handler error", d)
      BY <1>2 DEF RetryOrFailRow
    <2>2. d \in Nat
      BY ExecType, BackoffType DEF TableInv, ConsumerTypeOK
    <2>3. QED
      BY <1>2, <2>1, <2>2, RetryGood
  <1>3. QED
    BY <1>1, <1>2

LEMMA InsertGood ==
    ASSUME TableInv, NEW S, NEW options \in [S -> Options], NEW rank, Insert(S, options, rank)
    PROVE  (\A j \in Jobs : GoodRow(jobs'[j])) /\ SameBudgets
  <1>1. ASSUME NEW o \in Options, NEW n PROVE GoodRow(NewRow(o, n))
    <2>1. o.maxRetries \in Nat
      BY DaoAssumption DEF Options
    <2>2. Budgeted("pending", 0, o.maxRetries) /\ Explained("pending", 0, o.maxRetries, "none")
      BY <2>1, BudgetFacts, ErrorFacts
    <2>3. QED
      BY <2>2 DEF GoodRow, NewRow
  <1>2. \A j \in Jobs : jobs'[j] = IF j \in S THEN NewRow(options[j], rank[j]) ELSE jobs[j]
    BY DEF Insert
  <1>3. \A j \in S : j \in Jobs /\ jobs[j].status = "absent" /\ options[j] \in Options
    BY DEF Insert, WithStatus
  <1>4. \A j \in S : GoodRow(jobs'[j])
    BY <1>1, <1>2, <1>3
  <1>5. QED
    BY <1>2, <1>3, <1>4 DEF TableInv, SameBudgets

LEMMA PassesGood ==
    ASSUME TableInv, Passes
    PROVE  (\A j \in Jobs : GoodRow(jobs'[j])) /\ SameBudgets
  <1>1. ASSUME NEW j \in Jobs
        PROVE  GoodRow(jobs'[j]) /\ jobs'[j].maxRetries = jobs[j].maxRetries
                                 /\ jobs'[j].status = jobs[j].status
    <2>1. jobs[j] \in Row /\ GoodRow(jobs[j])
      BY DEF TableInv, ConsumerTypeOK
    <2>2. /\ jobs'[j].status = jobs[j].status /\ jobs'[j].attempts = jobs[j].attempts
          /\ jobs'[j].maxRetries = jobs[j].maxRetries /\ jobs'[j].lastError = jobs[j].lastError
      BY <2>1 DEF Passes, Row
    <2>3. jobs'[j].claimAge = IF jobs[j].claimAge # NoTime /\ jobs[j].claimAge < VisibilityTimeout
                              THEN jobs[j].claimAge + 1 ELSE jobs[j].claimAge
      BY <2>1 DEF Passes, Row
    <2>4. \A a \in Ages : a # NoTime => a + 1 # NoTime
      BY DEF Ages, NoTime
    <2>5. jobs'[j].claimAge # NoTime <=> jobs[j].claimAge # NoTime
      BY <2>1, <2>3, <2>4 DEF Row
    <2>6. QED
      BY <2>1, <2>2, <2>5 DEF GoodRow
  <1>2. QED
    BY <1>1 DEF SameBudgets

\* Runs that were there before stay good: budgets do not change.
LEMMA SameExecsGood ==
    ASSUME TableInv, ConsumerTypeOK', \A j \in Jobs : GoodRow(jobs'[j]), SameBudgets,
           execs' \subseteq execs
    PROVE  TableInv'
  <1>1. ASSUME NEW e \in execs' PROVE GoodExec(e)'
    <2>1. e.job \in Jobs /\ GoodExec(e)
      BY ExecType DEF TableInv, ConsumerTypeOK
    <2>2. jobs'[e.job].maxRetries = jobs[e.job].maxRetries /\ jobs'[e.job].status # "absent"
      BY <2>1 DEF SameBudgets, GoodExec
    <2>3. QED
      BY <2>1, <2>2 DEF GoodExec
  <1>2. QED
    BY <1>1 DEF TableInv

LEMMA BecomesGood ==
    ASSUME TableInv, ConsumerTypeOK', \A j \in Jobs : GoodRow(jobs'[j]), SameBudgets,
           NEW e \in execs, NEW pc, Becomes(e, pc)
    PROVE  TableInv'
  <1>1. ASSUME NEW f \in execs' PROVE GoodExec(f)'
    <2>1. PICK g \in execs : f.job = g.job /\ f.attempts = g.attempts
      BY DEF Becomes, TableInv, ConsumerTypeOK, Exec
    <2>2. g.job \in Jobs /\ GoodExec(g)
      BY ExecType DEF TableInv, ConsumerTypeOK
    <2>3. jobs'[g.job].maxRetries = jobs[g.job].maxRetries /\ jobs'[g.job].status # "absent"
      BY <2>2 DEF SameBudgets, GoodExec
    <2>4. QED
      BY <2>1, <2>2, <2>3 DEF GoodExec
  <1>2. QED
    BY <1>1 DEF TableInv

LEMMA TableStep == TableInv /\ [Next]_vars => TableInv'
  <1> SUFFICES ASSUME TableInv, [Next]_vars PROVE TableInv'
    OBVIOUS
  <1>0. ConsumerTypeOK /\ ConsumerTypeOK'
    BY TypeStep DEF TableInv
  <1>a. ASSUME UNCHANGED jobs
        PROVE  (\A j \in Jobs : GoodRow(jobs'[j])) /\ SameBudgets
    BY <1>a DEF TableInv, SameBudgets
  <1>1. ASSUME NEW S \in SUBSET Jobs, Enqueue(S)
        PROVE  TableInv'
    BY <1>0, <1>1, InsertGood, SameExecsGood DEF Enqueue
  <1>2. ASSUME NEW c \in Consumers, NEW t \in Types, Register(c, t)
        PROVE  TableInv'
    BY <1>0, <1>a, <1>2, SameExecsGood DEF Register
  <1>3. ASSUME NEW c \in Consumers, Start(c) \/ Stop(c) \/ StopReturns(c) \/ Crash(c)
        PROVE  TableInv'
    <2>1. UNCHANGED jobs /\ execs' \subseteq execs
      BY <1>3 DEF Start, Stop, StopReturns, Crash
    <2>2. QED
      BY <1>0, <1>a, <2>1, SameExecsGood
  <1>4. ASSUME NEW c \in Consumers, NEW l \in Loops, Poll(c, l)
        PROVE  TableInv'
    <2>1. CASE PollEnds(c, l)
      BY <1>0, <1>a, <2>1, SameExecsGood DEF PollEnds
    <2>2. CASE PollResets(c, l)
      BY <1>0, <2>2, ResetGood, SameExecsGood DEF PollResets
    <2>3. CASE PollResetFails(c, l)
      BY <1>0, <1>a, <2>3, ResetGood, SameExecsGood DEF PollResetFails
    <2>4. CASE PollClaims(c, l)
      <3>1. PICK S \in ClaimableBatches : PollClaims(c, l)!2!(S)
        BY <2>4 DEF PollClaims
      <3>2. S \subseteq Ready
        BY DEF ClaimableBatches
      <3>3. (\A j \in Jobs : GoodRow(jobs'[j])) /\ SameBudgets
        BY <3>1, <3>2, ClaimGood
      <3>4. PICK slot \in [S -> Slots] :
               execs' = execs \cup
                 {[job |-> j, slot |-> slot[j], owner |-> c, attempts |-> jobs[j].attempts,
                   pc |-> IF jobs[j].type \in handlers[c] THEN "run" ELSE "reject"] : j \in S}
        BY <3>1
      <3>5. ASSUME NEW e \in execs' PROVE GoodExec(e)'
        <4>1. CASE e \in execs
          <5>1. e.job \in Jobs /\ GoodExec(e)
            BY <4>1, ExecType DEF TableInv, ConsumerTypeOK
          <5>2. QED
            BY <3>3, <5>1 DEF SameBudgets, GoodExec
        <4>2. CASE e \notin execs
          <5>1. PICK j \in S : e.job = j /\ e.attempts = jobs[j].attempts
            BY <3>4, <4>2
          <5>2. j \in Jobs /\ jobs[j].status = "pending"
            BY <3>2 DEF Ready, WithStatus
          <5>3. jobs[j] \in Row /\ GoodRow(jobs[j])
            BY <5>2 DEF TableInv, ConsumerTypeOK
          <5>4. TriesLeft(jobs[j].attempts, jobs[j].maxRetries)
            BY <5>2, <5>3, RowFacts, BudgetFacts DEF GoodRow
          <5>5. QED
            BY <3>3, <5>1, <5>2, <5>4 DEF SameBudgets, GoodExec
        <4>3. QED
          BY <4>1, <4>2
      <3>6. QED
        BY <1>0, <3>3, <3>5 DEF TableInv
    <2>5. CASE PollClaimFails(c, l)
      <3>1. execs' = execs
        BY <2>5 DEF PollClaimFails
      <3>2. \A S \in ClaimableBatches : S \subseteq Ready
        BY DEF ClaimableBatches
      <3>3. (\A j \in Jobs : GoodRow(jobs'[j])) /\ SameBudgets
        BY <1>a, <2>5, <3>2, ClaimGood DEF PollClaimFails
      <3>4. QED
        BY <1>0, <3>1, <3>3, SameExecsGood
    <2>6. QED
      BY <1>4, <2>1, <2>2, <2>3, <2>4, <2>5 DEF Poll
  <1>5. ASSUME NEW e \in execs, ProcessJob(e)
        PROVE  TableInv'
    <2>1. CASE HandlerResolves(e)
      BY <1>0, <1>a, <2>1, BecomesGood DEF HandlerResolves
    <2>2. CASE HandlerThrows(e)
      BY <1>0, <1>a, <2>2, BecomesGood DEF HandlerThrows
    <2>3. CASE Complete(e)
      BY <1>0, <1>a, <2>3, CompletedGood, BecomesGood DEF Complete
    <2>4. CASE Confirm(e)
      BY <1>0, <1>a, <2>4, SameExecsGood, BecomesGood DEF Confirm, Ends
    <2>5. CASE RetryOrFail(e)
      BY <1>0, <1>a, <2>5, RetryOrFailGood, SameExecsGood DEF RetryOrFail, Ends
    <2>6. CASE Reject(e)
      BY <1>0, <1>a, <2>6, FailedGood, SameExecsGood DEF Reject, Ends
    <2>7. QED
      BY <1>5, <2>1, <2>2, <2>3, <2>4, <2>5, <2>6 DEF ProcessJob
  <1>6. CASE Tick
    BY <1>0, <1>6, PassesGood, SameExecsGood DEF Tick
  <1>7. CASE UNCHANGED vars
    BY <1>0, <1>a, <1>7, SameExecsGood DEF vars
  <1>8. QED
    BY <1>1, <1>2, <1>3, <1>4, <1>5, <1>6, <1>7 DEF Next

LEMMA TableImplies == TableInv => AttemptsWithinBudget /\ ClaimIsRecoverable /\ OutcomeIsExplained
  <1> SUFFICES ASSUME TableInv
               PROVE  AttemptsWithinBudget /\ ClaimIsRecoverable /\ OutcomeIsExplained
    OBVIOUS
  <1>1. \A j \in Jobs : GoodRow(jobs[j])
    BY DEF TableInv
  <1>2. \A e \in execs : e.attempts = 0 \/ e.attempts < jobs[e.job].maxRetries
    BY DEF TableInv, GoodExec, TriesLeft
  <1>3. AttemptsWithinBudget
    BY <1>1, <1>2 DEF AttemptsWithinBudget, GoodRow, Budgeted, Waiting, Settled
  <1>4. ClaimIsRecoverable
    BY <1>1 DEF ClaimIsRecoverable, GoodRow
  <1>5. OutcomeIsExplained
    BY <1>1 DEF OutcomeIsExplained, GoodRow, Explained
  <1>6. QED
    BY <1>3, <1>4, <1>5

\* No count of failed tries goes beyond the budget of its job, however many
\* late runs of processJob write stale counts back.
THEOREM BudgetKept == Spec => []AttemptsWithinBudget
  BY TableInit, TableStep, TableImplies, PTL DEF Spec

\* Every row in processing has the claim time resetStuckJobs looks for, whatever
\* statement failed or lost its answer.
THEOREM ClaimsRecoverable == Spec => []ClaimIsRecoverable
  BY TableInit, TableStep, TableImplies, PTL DEF Spec

\* Every failed row says why, and a row that counts tries has an error.
THEOREM OutcomesExplained == Spec => []OutcomeIsExplained
  BY TableInit, TableStep, TableImplies, PTL DEF Spec

-----------------------------------------------------------------------------
(* The poll loop *)

LEMMA LoopStep == ConsumerTypeOK /\ LoopAlive /\ [Next]_vars => LoopAlive'
  <1> SUFFICES ASSUME ConsumerTypeOK, LoopAlive, [Next]_vars PROVE LoopAlive'
    OBVIOUS
  <1> USE DEF ConsumerTypeOK, LoopAlive
  <1>a. CASE UNCHANGED <<life, loop>>
    BY <1>a
  <1>1. ASSUME NEW c \in Consumers, Start(c) PROVE LoopAlive'
    BY <1>1 DEF Start
  <1>2. ASSUME NEW c \in Consumers, Stop(c) PROVE LoopAlive'
    BY <1>2 DEF Stop
  <1>3. ASSUME NEW c \in Consumers, Crash(c) PROVE LoopAlive'
    BY <1>3 DEF Crash
  <1>4. ASSUME NEW c \in Consumers, NEW l \in Loops, Poll(c, l) PROVE LoopAlive'
    <2>1. CASE PollEnds(c, l)
      BY <2>1 DEF PollEnds, Stopped
    <2>2. CASE PollResets(c, l)
      BY <2>2 DEF PollResets
    <2>3. CASE ScheduleNextPoll(c, l) /\ UNCHANGED life
      BY <2>3 DEF ScheduleNextPoll, Stopped
    <2>4. QED
      BY <1>4, <2>1, <2>2, <2>3 DEF Poll, PollResetFails, PollClaims, PollClaimFails
  <1>5. QED
    BY <1>a, <1>1, <1>2, <1>3, <1>4
    DEF Next, Enqueue, Register, StopReturns, ProcessJob, HandlerResolves, HandlerThrows,
        Complete, Confirm, RetryOrFail, Reject, Tick, procVars, vars

\* A started consumer has a poll under way or a timer for its next, whatever
\* failed before and in whatever order stop and start were called.
THEOREM LoopsLive == Spec => []LoopAlive
  <1>1. Init => LoopAlive
    BY DEF Init, LoopAlive
  <1>2. QED
    BY <1>1, TypeInit, TypeStep, LoopStep, PTL DEF Spec

-----------------------------------------------------------------------------
(* One run per job.  As long as no run outlives its claim, the row of a    *)
(* run is claimed or was completed by that run.  So the row is not         *)
(* pending, and no poll claims it; nor is its claim old, and no poll gives *)
(* it back.  A run whose row is completed waits for the row to be read     *)
(* back or, if that failed, is about to write a retry.                     *)

Owns(e) ==
    /\ jobs[e.job].attempts = e.attempts
    /\ \/ e.pc # "confirm" /\ HoldsClaim(e)
       \/ e.pc \in {"confirm", "fail"} /\ jobs[e.job].status = "completed"

HoldInv == ConsumerTypeOK /\ ExclusiveExecution /\ \A e \in execs : Owns(e)

\* A run still owns its row if its row keeps these columns.
SameClaim(j) ==
    /\ jobs'[j].status = jobs[j].status
    /\ jobs'[j].claimAge = jobs[j].claimAge
    /\ jobs'[j].attempts = jobs[j].attempts

LEMMA SameClaimOwns ==
    ASSUME NEW e, Owns(e), SameClaim(e.job)
    PROVE  Owns(e)'
  BY DEF Owns, HoldsClaim, SameClaim

\* The runs that are left, or all of them, keep their claims.
LEMMA SameExecsHold ==
    ASSUME HoldInv, ConsumerTypeOK', execs' \subseteq execs, \A e \in execs' : SameClaim(e.job)
    PROVE  HoldInv'
  <1>1. ExclusiveExecution'
    BY DEF HoldInv, ExclusiveExecution
  <1>2. \A e \in execs' : Owns(e)'
    BY SameClaimOwns DEF HoldInv
  <1>3. QED
    BY <1>1, <1>2 DEF HoldInv

\* The update of a run's own row leaves the claims of the other runs alone.
LEMMA UpdateHolds ==
    ASSUME HoldInv, NEW e \in execs, NEW r, jobs' = [jobs EXCEPT ![e.job] = r]
    PROVE  \A f \in execs \ {e} : SameClaim(f.job)
  <1>1. \A f \in execs \ {e} : f.job # e.job /\ f.job \in Jobs
    BY ExecType DEF HoldInv, ExclusiveExecution, ConsumerTypeOK
  <1>2. QED
    BY <1>1 DEF SameClaim, HoldInv, ConsumerTypeOK

\* The run e goes on as f, and the others keep their claims.
LEMMA BecomesHolds ==
    ASSUME HoldInv, ConsumerTypeOK', NEW e \in execs, NEW pc, Becomes(e, pc),
           \A f \in execs \ {e} : SameClaim(f.job), Owns([e EXCEPT !.pc = pc])'
    PROVE  HoldInv'
  <1> DEFINE f == [e EXCEPT !.pc = pc]
  <1>1. f.job = e.job
    BY DEF HoldInv, ConsumerTypeOK, Exec
  <1>2. execs' = (execs \ {e}) \cup {f}
    BY DEF Becomes
  <1> HIDE DEF f
  <1>3. ExclusiveExecution'
    BY <1>1, <1>2 DEF HoldInv, ExclusiveExecution
  <1>4. \A g \in execs \ {e} : Owns(g)'
    BY SameClaimOwns DEF HoldInv
  <1>5. Owns(f)'
    BY DEF f
  <1>6. \A g \in execs' : Owns(g)'
    BY <1>2, <1>4, <1>5
  <1>7. QED
    BY <1>3, <1>6 DEF HoldInv

LEMMA ResetHolds ==
    ASSUME HoldInv, ResetStuck
    PROVE  \A e \in execs : SameClaim(e.job)
  <1>1. ASSUME NEW e \in execs PROVE e.job \in Jobs /\ e.job \notin Stuck
    <2>1. e.job \in Jobs /\ jobs[e.job] \in Row /\ Owns(e)
      BY ExecType DEF HoldInv, ConsumerTypeOK
    <2>2. jobs[e.job].claimAge \in Ages
      BY <2>1 DEF Row
    <2>3. \A a \in Ages : a < VisibilityTimeout => ~(a >= VisibilityTimeout)
      BY DaoAssumption DEF Ages, NoTime
    <2>4. QED
      BY <2>1, <2>2, <2>3 DEF Owns, HoldsClaim, Stuck, WithStatus
  <1>2. QED
    BY <1>1 DEF ResetStuck, SameClaim

LEMMA ClaimHolds ==
    ASSUME HoldInv, NEW S, S \subseteq Ready, Claim(S)
    PROVE  \A e \in execs : e.job \notin S /\ SameClaim(e.job)
  <1>1. \A e \in execs : e.job \in Jobs /\ Owns(e)
    BY ExecType DEF HoldInv, ConsumerTypeOK
  <1>2. \A e \in execs : e.job \notin S
    BY <1>1 DEF Owns, HoldsClaim, Ready, WithStatus
  <1>3. QED
    BY <1>1, <1>2 DEF Claim, SameClaim

LEMMA InsertHolds ==
    ASSUME HoldInv, NEW S, NEW options, NEW rank, Insert(S, options, rank)
    PROVE  \A e \in execs : SameClaim(e.job)
  <1>1. \A e \in execs : e.job \in Jobs /\ Owns(e)
    BY ExecType DEF HoldInv, ConsumerTypeOK
  <1>2. \A e \in execs : e.job \notin S
    BY <1>1 DEF Owns, HoldsClaim, Insert, WithStatus
  <1>3. QED
    BY <1>1, <1>2 DEF Insert, SameClaim

\* A batch is claimed: each row gets one run, which holds its new claim.
LEMMA ClaimsHold ==
    ASSUME HoldInv, ConsumerTypeOK', NEW c \in Consumers, NEW l \in Loops, PollClaims(c, l)
    PROVE  HoldInv'
  <1>1. PICK S \in ClaimableBatches : PollClaims(c, l)!2!(S)
    BY DEF PollClaims
  <1>2. S \subseteq Ready /\ S \subseteq Jobs
    BY DEF ClaimableBatches, Ready, WithStatus
  <1>3. \A e \in execs : e.job \notin S /\ SameClaim(e.job)
    BY <1>1, <1>2, ClaimHolds
  <1>4. PICK slot \in [S -> Slots] :
           execs' = execs \cup
             {[job |-> j, slot |-> slot[j], owner |-> c, attempts |-> jobs[j].attempts,
               pc |-> IF jobs[j].type \in handlers[c] THEN "run" ELSE "reject"] : j \in S}
    BY <1>1
  <1>5. ASSUME NEW e \in execs', e \notin execs
        PROVE  e.job \in S /\ e = [job |-> e.job, slot |-> slot[e.job], owner |-> c,
                                   attempts |-> jobs[e.job].attempts,
                                   pc |-> IF jobs[e.job].type \in handlers[c]
                                          THEN "run" ELSE "reject"]
    BY <1>4, <1>5
  <1>6. ASSUME NEW e \in execs', NEW f \in execs', e.job = f.job
        PROVE  e = f
    <2>1. CASE e \in execs /\ f \in execs
      BY <1>6, <2>1 DEF HoldInv, ExclusiveExecution
    <2>2. CASE e \notin execs /\ f \notin execs
      BY <1>5, <1>6, <2>2
    <2>3. CASE e \in execs /\ f \notin execs
      BY <1>3, <1>5, <1>6, <2>3
    <2>4. CASE e \notin execs /\ f \in execs
      BY <1>3, <1>5, <1>6, <2>4
    <2>5. QED
      BY <2>1, <2>2, <2>3, <2>4
  <1>7. ExclusiveExecution'
    BY <1>6 DEF ExclusiveExecution
  <1>8. ASSUME NEW e \in execs' PROVE Owns(e)'
    <2>1. CASE e \in execs
      BY <2>1, <1>3, SameClaimOwns DEF HoldInv
    <2>2. CASE e \notin execs
      <3>1. e.job \in S /\ e.pc # "confirm" /\ e.attempts = jobs[e.job].attempts
        BY <1>5, <2>2
      <3>2. jobs[e.job] \in Row
        BY <1>2, <3>1 DEF HoldInv, ConsumerTypeOK
      <3>3. jobs'[e.job] = [jobs[e.job] EXCEPT !.status = "processing", !.claimAge = 0]
        BY <1>1, <1>2, <3>1 DEF Claim
      <3>4. /\ jobs'[e.job].status = "processing" /\ jobs'[e.job].claimAge = 0
            /\ jobs'[e.job].attempts = jobs[e.job].attempts
        BY <3>2, <3>3 DEF Row
      <3>5. 0 # NoTime /\ 0 < VisibilityTimeout
        BY AgeFacts, DaoAssumption
      <3>6. QED
        BY <3>1, <3>4, <3>5 DEF Owns, HoldsClaim
    <2>3. QED
      BY <2>1, <2>2
  <1>9. QED
    BY <1>7, <1>8 DEF HoldInv

\* Time passes, and no claim that a run holds grows too old.
LEMMA TickHolds ==
    ASSUME Timely, HoldInv, ConsumerTypeOK', Tick
    PROVE  HoldInv'
  <1>1. ASSUME NEW e \in execs PROVE Owns(e)'
    <2>1. e.job \in Jobs /\ jobs[e.job] \in Row /\ Owns(e)
      BY ExecType DEF HoldInv, ConsumerTypeOK
    <2>2. /\ jobs'[e.job].status = jobs[e.job].status
          /\ jobs'[e.job].attempts = jobs[e.job].attempts
          /\ jobs'[e.job].claimAge =
               IF jobs[e.job].claimAge # NoTime /\ jobs[e.job].claimAge < VisibilityTimeout
               THEN jobs[e.job].claimAge + 1 ELSE jobs[e.job].claimAge
      BY <2>1 DEF Tick, Passes, Row
    <2>3. jobs[e.job].claimAge \in Ages /\ jobs[e.job].claimAge < VisibilityTimeout - 1
      BY <2>1 DEF Row, Tick
    <2>4. \A a \in Ages : a # NoTime /\ a < VisibilityTimeout - 1 =>
             a + 1 # NoTime /\ a + 1 < VisibilityTimeout /\ a < VisibilityTimeout
      BY DaoAssumption DEF Ages, NoTime
    <2>5. QED
      BY <2>1, <2>2, <2>3, <2>4 DEF Owns, HoldsClaim
  <1>2. execs' = execs
    BY DEF Tick
  <1>3. ExclusiveExecution'
    BY <1>2 DEF HoldInv, ExclusiveExecution
  <1>4. QED
    BY <1>1, <1>2, <1>3 DEF HoldInv

LEMMA HoldStep ==
    ASSUME Timely
    PROVE  HoldInv /\ [Next]_vars => HoldInv'
  <1> SUFFICES ASSUME HoldInv, [Next]_vars PROVE HoldInv'
    OBVIOUS
  <1>0. ConsumerTypeOK /\ ConsumerTypeOK'
    BY TypeStep DEF HoldInv
  <1>a. ASSUME UNCHANGED jobs PROVE \A e : SameClaim(e.job)
    BY <1>a DEF SameClaim
  <1>1. ASSUME NEW S \in SUBSET Jobs, Enqueue(S)
        PROVE  HoldInv'
    BY <1>0, <1>1, InsertHolds, SameExecsHold DEF Enqueue
  <1>2. ASSUME NEW c \in Consumers, NEW t \in Types, Register(c, t)
        PROVE  HoldInv'
    BY <1>0, <1>a, <1>2, SameExecsHold DEF Register
  <1>3. ASSUME NEW c \in Consumers, Start(c) \/ Stop(c) \/ StopReturns(c) \/ Crash(c)
        PROVE  HoldInv'
    <2>1. UNCHANGED jobs /\ execs' \subseteq execs
      BY <1>3 DEF Start, Stop, StopReturns, Crash
    <2>2. QED
      BY <1>0, <1>a, <2>1, SameExecsHold
  <1>4. ASSUME NEW c \in Consumers, NEW l \in Loops, Poll(c, l)
        PROVE  HoldInv'
    <2>1. CASE PollEnds(c, l)
      BY <1>0, <1>a, <2>1, SameExecsHold DEF PollEnds
    <2>2. CASE PollResets(c, l)
      BY <1>0, <2>2, ResetHolds, SameExecsHold DEF PollResets
    <2>3. CASE PollResetFails(c, l)
      BY <1>0, <1>a, <2>3, ResetHolds, SameExecsHold DEF PollResetFails
    <2>4. CASE PollClaims(c, l)
      BY <1>0, <2>4, ClaimsHold
    <2>5. CASE PollClaimFails(c, l)
      <3>1. execs' = execs
        BY <2>5 DEF PollClaimFails
      <3>2. \A e \in execs : SameClaim(e.job)
        <4>1. CASE UNCHANGED jobs
          BY <1>a, <4>1
        <4>2. ASSUME NEW S \in ClaimableBatches, Claim(S)
              PROVE  \A e \in execs : SameClaim(e.job)
          BY <4>2, ClaimHolds DEF ClaimableBatches
        <4>3. QED
          BY <2>5, <4>1, <4>2 DEF PollClaimFails
      <3>3. QED
        BY <1>0, <3>1, <3>2, SameExecsHold
    <2>6. QED
      BY <1>4, <2>1, <2>2, <2>3, <2>4, <2>5 DEF Poll
  <1>5. ASSUME NEW e \in execs, ProcessJob(e)
        PROVE  HoldInv'
    <2>0. e \in Exec /\ e.job \in Jobs /\ jobs[e.job] \in Row /\ Owns(e)
      BY ExecType DEF HoldInv, ConsumerTypeOK
    <2>a. \A pc : /\ [e EXCEPT !.pc = pc].pc = pc
                  /\ [e EXCEPT !.pc = pc].job = e.job
                  /\ [e EXCEPT !.pc = pc].attempts = e.attempts
      BY <2>0 DEF Exec
    <2>b. ASSUME UNCHANGED jobs, NEW pc, pc # "confirm", e.pc \notin {"confirm", "fail"},
                 Becomes(e, pc)
          PROVE  HoldInv'
      <3>1. Owns([e EXCEPT !.pc = pc])'
        BY <2>0, <2>a, <2>b DEF Owns, HoldsClaim
      <3>2. QED
        BY <1>0, <1>a, <2>b, <3>1, BecomesHolds
    <2>1. CASE HandlerResolves(e)
      BY <2>1, <2>b DEF HandlerResolves
    <2>2. CASE HandlerThrows(e)
      BY <2>2, <2>b DEF HandlerThrows
    <2>3. CASE Complete(e)
      <3>1. CASE MarkCompleted(e.job) /\ Becomes(e, "confirm")
        <4>1. jobs' = [jobs EXCEPT ![e.job] = [jobs[e.job] EXCEPT !.status = "completed",
                                                                  !.claimAge = NoTime]]
          BY <3>1 DEF MarkCompleted
        <4>2. \A f \in execs \ {e} : SameClaim(f.job)
          BY <4>1, UpdateHolds
        <4>3. jobs'[e.job].status = "completed" /\ jobs'[e.job].attempts = jobs[e.job].attempts
          BY <2>0, <4>1, <1>0 DEF ConsumerTypeOK, Row
        <4>4. Owns([e EXCEPT !.pc = "confirm"])'
          BY <2>0, <2>a, <4>3 DEF Owns
        <4>5. QED
          BY <1>0, <3>1, <4>2, <4>4, BecomesHolds
      <3>2. CASE UNCHANGED jobs /\ Becomes(e, "fail")
        BY <2>3, <2>b, <3>2 DEF Complete
      <3>3. QED
        BY <2>3, <3>1, <3>2 DEF Complete
    <2>4. CASE Confirm(e)
      <3>1. /\ UNCHANGED jobs /\ jobs[e.job].status = "completed"
            /\ jobs[e.job].attempts = e.attempts
        BY <2>0, <2>4 DEF Confirm, Owns
      <3>2. CASE Ends(e)
        BY <1>0, <1>a, <3>1, <3>2, SameExecsHold DEF Ends
      <3>3. CASE Becomes(e, "fail")
        <4>1. Owns([e EXCEPT !.pc = "fail"])'
          BY <2>a, <3>1 DEF Owns
        <4>2. QED
          BY <1>0, <1>a, <3>1, <3>3, <4>1, BecomesHolds
      <3>4. QED
        BY <2>4, <3>2, <3>3 DEF Confirm
    <2>5. CASE RetryOrFail(e) \/ Reject(e)
      <3>1. execs' = execs \ {e}
        BY <2>5 DEF RetryOrFail, Reject, Ends
      <3>2. \/ UNCHANGED jobs
            \/ \E r : jobs' = [jobs EXCEPT ![e.job] = r]
        <4>1. ASSUME NEW a, NEW x, MarkFailed(e.job, a, x)
              PROVE  \E r : jobs' = [jobs EXCEPT ![e.job] = r]
          <5>1. jobs' = [jobs EXCEPT ![e.job] = FailedRow(jobs[e.job], a, x)]
            BY <4>1 DEF MarkFailed, FailedRow
          <5>2. QED
            BY <5>1
        <4>2. ASSUME NEW a, NEW d, MarkForRetry(e.job, a, "handler error", d)
              PROVE  \E r : jobs' = [jobs EXCEPT ![e.job] = r]
          <5>1. jobs' = [jobs EXCEPT ![e.job] = RetriedRow(jobs[e.job], a, d)]
            BY <4>2 DEF MarkForRetry, RetriedRow
          <5>2. QED
            BY <5>1
        <4>3. CASE Reject(e)
          BY <4>1, <4>3 DEF Reject
        <4>4. CASE RetryOrFail(e)
          <5>1. RetryOrFailRow(e) \/ UNCHANGED jobs
            BY <4>4 DEF RetryOrFail
          <5>2. QED
            BY <4>1, <4>2, <5>1 DEF RetryOrFailRow
        <4>5. QED
          BY <2>5, <4>3, <4>4
      <3>3. \A f \in execs \ {e} : SameClaim(f.job)
        BY <1>a, <3>2, UpdateHolds
      <3>4. QED
        BY <1>0, <3>1, <3>3, SameExecsHold
    <2>6. QED
      BY <1>5, <2>1, <2>2, <2>3, <2>4, <2>5 DEF ProcessJob
  <1>6. CASE Tick
    BY <1>0, <1>6, TickHolds
  <1>7. CASE UNCHANGED vars
    BY <1>0, <1>a, <1>7, SameExecsHold DEF vars
  <1>8. QED
    BY <1>1, <1>2, <1>3, <1>4, <1>5, <1>6, <1>7 DEF Next

LEMMA HoldInit == Init => HoldInv
  BY TypeInit DEF Init, HoldInv, ExclusiveExecution

\* As long as handlers settle their jobs within VisibilityTimeout, no two runs
\* of processJob work on one job: whatever crashes, whatever statement fails or
\* answer is lost, and however polls, resets and claims of several consumers
\* interleave.
THEOREM Exclusion ==
    ASSUME Timely
    PROVE  Spec => []ExclusiveExecution
  <1>1. HoldInv => ExclusiveExecution
    BY DEF HoldInv
  <1>2. QED
    BY <1>1, HoldInit, HoldStep, PTL DEF Spec

\* Under the same assumption the row of a run is its own until the run ends, so
\* the unconditional updates overwrite no claim and no outcome but the run's own
\* completion.
THEOREM RowsOwned ==
    ASSUME Timely
    PROVE  Spec => []RunsOwnTheirRow
  <1>1. HoldInv => RunsOwnTheirRow
    BY DEF HoldInv, Owns, RunsOwnTheirRow
  <1>2. QED
    BY <1>1, HoldInit, HoldStep, PTL DEF Spec

-----------------------------------------------------------------------------
(* The queue implements JobLifecycle                                       *)

Holders(j) == {e.owner : e \in {f \in execs : f.job = j}}

HoldersPrime(j) == {e.owner : e \in {f \in execs' : f.job = j}}

RefInv == HoldInv /\ TableInv

\* Nobody holds a row that is neither in processing nor completed.
LEMMA NobodyHolds ==
    ASSUME RefInv, NEW j \in Jobs,
           jobs[j].status \notin {"processing", "completed"} \/ j \in Stuck
    PROVE  Holders(j) = {}
  <1>1. ASSUME NEW e \in execs, e.job = j PROVE FALSE
    <2>1. Owns(e) /\ jobs[j] \in Row
      BY <1>1 DEF RefInv, HoldInv, ConsumerTypeOK
    <2>2. jobs[j].claimAge \in Ages
      BY <2>1 DEF Row
    <2>3. \A a \in Ages : a < VisibilityTimeout => ~(a >= VisibilityTimeout)
      BY DaoAssumption DEF Ages, NoTime
    <2>4. QED
      BY <1>1, <2>1, <2>2, <2>3 DEF Owns, HoldsClaim, Stuck, WithStatus
  <1>2. QED
    BY <1>1 DEF Holders

\* When a run ends, its job has no holder left; other jobs keep theirs.
LEMMA HolderLeaves ==
    ASSUME HoldInv, NEW e \in execs, Ends(e)
    PROVE  /\ Holders(e.job) = {e.owner}
           /\ \A j \in Jobs : HoldersPrime(j) = IF j = e.job THEN {} ELSE Holders(j)
  <1>1. \A f \in execs : f.job = e.job => f = e
    BY DEF HoldInv, ExclusiveExecution
  <1>2. Holders(e.job) = {e.owner}
    BY <1>1 DEF Holders
  <1>3. HoldersPrime(e.job) = {}
    BY <1>1 DEF HoldersPrime, Ends
  <1>4. ASSUME NEW j \in Jobs, j # e.job PROVE HoldersPrime(j) = Holders(j)
    <2>1. {f \in execs' : f.job = j} = {f \in execs : f.job = j}
      BY <1>4 DEF Ends
    <2>2. QED
      BY <2>1 DEF Holders, HoldersPrime
  <1>5. QED
    BY <1>2, <1>3, <1>4

LEMMA SameHolders ==
    ASSUME execs' = execs
    PROVE  \A j : HoldersPrime(j) = Holders(j)
  BY DEF Holders, HoldersPrime

LEMMA InsertMaps ==
    ASSUME RefInv, NEW S \in SUBSET Jobs, NEW options \in [S -> Options], NEW rank,
           Insert(S, options, rank), execs' = execs
    PROVE  \E b \in [S -> RetryBudgets] : Lifecycle!Submit(S, b)
  <1>1. \A j \in S : jobs[j].status = "absent"
    BY DEF Insert, WithStatus
  <1>2. \A j \in S : jobs[j].attempts = 0
    <2>1. \A j \in S : GoodRow(jobs[j])
      BY DEF RefInv, TableInv
    <2>2. QED
      BY <1>1, <2>1 DEF GoodRow, Budgeted
  <1>3. \A j \in Jobs :
           /\ jobs'[j].status = IF j \in S THEN "pending" ELSE jobs[j].status
           /\ jobs'[j].maxRetries = IF j \in S THEN options[j].maxRetries ELSE jobs[j].maxRetries
           /\ jobs'[j].attempts = jobs[j].attempts
    BY <1>2 DEF Insert, NewRow
  <1>4. PICK b \in [S -> RetryBudgets] : \A j \in S : b[j] = options[j].maxRetries
    <2>1. [j \in S |-> options[j].maxRetries] \in [S -> RetryBudgets]
      BY DEF Options
    <2>2. QED
      BY <2>1
  <1>5. Lifecycle!Submit(S, b)
    BY <1>1, <1>3, <1>4 DEF Lifecycle!Submit
  <1>6. QED
    BY <1>5

LEMMA ResetMaps ==
    ASSUME RefInv, ResetStuck, execs' = execs
    PROVE  \E S \in SUBSET Jobs : Lifecycle!Reoffer(S)
  <1>1. PICK S \in SUBSET Jobs : S = Stuck
    BY DEF Stuck, WithStatus
  <1>2. \A j \in S : jobs[j].status = "processing"
    BY <1>1 DEF Stuck, WithStatus
  <1>3. \A j \in S : Holders(j) = {}
    BY <1>1, NobodyHolds
  <1>4. \A j \in Jobs :
           /\ jobs'[j].status = IF j \in S THEN "pending" ELSE jobs[j].status
           /\ jobs'[j].maxRetries = jobs[j].maxRetries
           /\ jobs'[j].attempts = jobs[j].attempts
    <2>1. \A r \in Row : /\ GivenBackRow(r).status = "pending"
                         /\ GivenBackRow(r).maxRetries = r.maxRetries
                         /\ GivenBackRow(r).attempts = r.attempts
      BY DEF Row, GivenBackRow
    <2>2. \A j \in Jobs : jobs'[j] = IF j \in S THEN GivenBackRow(jobs[j]) ELSE jobs[j]
      BY <1>1 DEF ResetStuck, GivenBackRow
    <2>3. \A j \in Jobs : jobs[j] \in Row
      BY DEF RefInv, HoldInv, ConsumerTypeOK
    <2>4. QED
      BY <2>1, <2>2, <2>3
  <1>5. Lifecycle!Reoffer(S)
    BY <1>2, <1>3, <1>4 DEF Lifecycle!Reoffer, Holders
  <1>6. QED
    BY <1>5

\* What the claim of a batch does to the columns that JobLifecycle knows of.
LEMMA ClaimColumns ==
    ASSUME RefInv, NEW S \in ClaimableBatches, Claim(S)
    PROVE  /\ S \in SUBSET Jobs
           /\ \A j \in S : jobs[j].status = "pending" /\ Holders(j) = {}
           /\ \A j \in Jobs :
                 /\ jobs'[j].status = IF j \in S THEN "processing" ELSE jobs[j].status
                 /\ jobs'[j].maxRetries = jobs[j].maxRetries
                 /\ jobs'[j].attempts = jobs[j].attempts
  <1>1. S \subseteq Ready /\ S \in SUBSET Jobs
    BY DEF ClaimableBatches, Ready, WithStatus
  <1>2. \A j \in S : jobs[j].status = "pending"
    BY <1>1 DEF Ready, WithStatus
  <1>3. \A j \in S : Holders(j) = {}
    BY <1>1, <1>2, NobodyHolds
  <1>4. \A r \in Row : /\ ClaimedRow(r).status = "processing"
                       /\ ClaimedRow(r).maxRetries = r.maxRetries
                       /\ ClaimedRow(r).attempts = r.attempts
    BY DEF Row, ClaimedRow
  <1>5. \A j \in Jobs : jobs'[j] = IF j \in S THEN ClaimedRow(jobs[j]) ELSE jobs[j]
    BY DEF Claim, ClaimedRow
  <1>6. \A j \in Jobs : jobs[j] \in Row
    BY DEF RefInv, HoldInv, ConsumerTypeOK
  <1>7. QED
    BY <1>1, <1>2, <1>3, <1>4, <1>5, <1>6

\* The answer of a claim is lost: the rows are in processing and nobody runs them.
LEMMA StrandMaps ==
    ASSUME RefInv, NEW S \in ClaimableBatches, Claim(S), execs' = execs
    PROVE  \E T \in SUBSET Jobs : Lifecycle!Strand(T)
  <1>1. /\ S \in SUBSET Jobs
        /\ \A j \in S : jobs[j].status = "pending" /\ Holders(j) = {}
        /\ \A j \in Jobs :
              /\ jobs'[j].status = IF j \in S THEN "processing" ELSE jobs[j].status
              /\ jobs'[j].maxRetries = jobs[j].maxRetries
              /\ jobs'[j].attempts = jobs[j].attempts
    BY ClaimColumns
  <1>2. \A j \in Jobs : HoldersPrime(j) = Holders(j)
    BY SameHolders
  <1>3. Lifecycle!Strand(S)
    BY <1>1, <1>2 DEF Lifecycle!Strand, Holders, HoldersPrime
  <1>4. QED
    BY <1>1, <1>3

\* A claimed batch is taken by the consumer whose poll claimed it.
LEMMA TakeMaps ==
    ASSUME RefInv, NEW c \in Consumers, NEW l \in Loops, PollClaims(c, l)
    PROVE  \E S \in SUBSET Jobs : Lifecycle!Take(c, S)
  <1>1. PICK S \in ClaimableBatches : PollClaims(c, l)!2!(S)
    BY DEF PollClaims
  <1>2. S \in SUBSET Jobs
    BY <1>1, ClaimColumns
  <1>3. \A j \in S : jobs[j].status = "pending"
    BY <1>1, ClaimColumns
  <1>4. \A j \in S : Holders(j) = {}
    BY <1>1, ClaimColumns
  <1>5. \A j \in Jobs :
           /\ jobs'[j].status = IF j \in S THEN "processing" ELSE jobs[j].status
           /\ jobs'[j].maxRetries = jobs[j].maxRetries
           /\ jobs'[j].attempts = jobs[j].attempts
    BY <1>1, ClaimColumns
  <1>6. PICK slot \in [S -> Slots] :
           execs' = execs \cup
             {[job |-> j, slot |-> slot[j], owner |-> c, attempts |-> jobs[j].attempts,
               pc |-> IF jobs[j].type \in handlers[c] THEN "run" ELSE "reject"] : j \in S}
    BY <1>1
  <1>7. \A j \in Jobs : HoldersPrime(j) = IF j \in S THEN {c} ELSE Holders(j)
    <2> DEFINE run(j) ==
                 [job |-> j, slot |-> slot[j], owner |-> c, attempts |-> jobs[j].attempts,
                  pc |-> IF jobs[j].type \in handlers[c] THEN "run" ELSE "reject"]
               new == {run(j) : j \in S}
    <2>1. \A j : run(j).job = j /\ run(j).owner = c
      OBVIOUS
    <2>2. execs' = execs \cup new
      BY <1>6
    <2> HIDE DEF run
    <2>3. \A f \in new : f.job \in S /\ f.owner = c
      BY <2>1
    <2>4. \A j \in S : run(j) \in new /\ run(j).job = j
      BY <2>1
    <2> HIDE DEF new
    <2>5. ASSUME NEW j \in S PROVE HoldersPrime(j) = {c}
      <3>1. \A f \in execs : f.job # j
        BY <1>4, <2>5 DEF Holders
      <3>2. PICK g \in new : g.job = j
        BY <2>4, <2>5
      <3>3. \A f \in execs' : f.job = j => f.owner = c
        BY <2>3, <2>2, <3>1
      <3>4. g \in execs' /\ g.job = j /\ g.owner = c
        BY <2>3, <2>2, <3>2
      <3>5. QED
        BY <3>3, <3>4 DEF HoldersPrime
    <2>6. ASSUME NEW j \in Jobs, j \notin S PROVE HoldersPrime(j) = Holders(j)
      <3>1. {f \in execs' : f.job = j} = {f \in execs : f.job = j}
        BY <2>3, <2>2, <2>6
      <3>2. QED
        BY <3>1 DEF Holders, HoldersPrime
    <2>7. QED
      BY <2>5, <2>6
  <1>8. Lifecycle!Take(c, S)
    BY <1>2, <1>3, <1>4, <1>5, <1>7 DEF Lifecycle!Take, Holders, HoldersPrime
  <1>9. QED
    BY <1>2, <1>8

\* The run goes on: its job keeps its holder.
LEMMA SameHolderBecomes ==
    ASSUME RefInv, NEW e \in execs, NEW pc, Becomes(e, pc)
    PROVE  \A j \in Jobs : HoldersPrime(j) = Holders(j)
  <1> DEFINE f == [e EXCEPT !.pc = pc]
  <1>1. f.job = e.job /\ f.owner = e.owner
    BY DEF RefInv, HoldInv, ConsumerTypeOK, Exec
  <1>2. execs' = (execs \ {e}) \cup {f}
    BY DEF Becomes
  <1> HIDE DEF f
  <1>3. QED
    BY <1>1, <1>2 DEF Holders, HoldersPrime

\* The job is completed, and its run goes on to read the row back.
LEMMA CompleteMaps ==
    ASSUME RefInv, NEW e \in execs, e.pc = "complete",
           MarkCompleted(e.job), Becomes(e, "confirm")
    PROVE  Lifecycle!Complete(e.job)
  <1>1. e.job \in Jobs /\ jobs[e.job] \in Row /\ Owns(e)
    BY ExecType DEF RefInv, HoldInv, ConsumerTypeOK
  <1>2. jobs[e.job].status = "processing"
    BY <1>1 DEF Owns, HoldsClaim
  <1>3. Holders(e.job) # {}
    BY DEF Holders
  <1>4. \A j \in Jobs : HoldersPrime(j) = Holders(j)
    BY SameHolderBecomes
  <1>5. \A j \in Jobs :
           /\ jobs'[j].status = IF j = e.job THEN "completed" ELSE jobs[j].status
           /\ jobs'[j].maxRetries = jobs[j].maxRetries
           /\ jobs'[j].attempts = jobs[j].attempts
    <2>1. \A r \in Row : /\ CompletedRow(r).status = "completed"
                         /\ CompletedRow(r).maxRetries = r.maxRetries
                         /\ CompletedRow(r).attempts = r.attempts
      BY DEF Row, CompletedRow
    <2>2. jobs' = [jobs EXCEPT ![e.job] = CompletedRow(jobs[e.job])]
      BY DEF MarkCompleted, CompletedRow
    <2>3. jobs \in [Jobs -> Row]
      BY DEF RefInv, HoldInv, ConsumerTypeOK
    <2>4. QED
      BY <1>1, <2>1, <2>2, <2>3
  <1>6. QED
    BY <1>1, <1>2, <1>3, <1>4, <1>5 DEF Lifecycle!Complete, Holders, HoldersPrime

LEMMA UpdateColumns ==
    ASSUME jobs \in [Jobs -> Row], NEW j \in Jobs, NEW r, jobs' = [jobs EXCEPT ![j] = r],
           r.maxRetries = jobs[j].maxRetries
    PROVE  \A i \in Jobs :
              /\ jobs'[i].status = IF i = j THEN r.status ELSE jobs[i].status
              /\ jobs'[i].maxRetries = jobs[i].maxRetries
              /\ jobs'[i].attempts = IF i = j THEN r.attempts ELSE jobs[i].attempts
  OBVIOUS

\* The row of j gets these columns, and its holder leaves.
Writes(j, status, attempts) ==
    /\ \A i \in Jobs :
          /\ jobs'[i].status = IF i = j THEN status ELSE jobs[i].status
          /\ jobs'[i].maxRetries = jobs[i].maxRetries
          /\ jobs'[i].attempts = IF i = j THEN attempts ELSE jobs[i].attempts
    /\ Holders(j) # {}
    /\ \A i \in Jobs : HoldersPrime(i) = IF i = j THEN {} ELSE Holders(i)

LEMMA GivenUpMaps ==
    ASSUME NEW j \in Jobs, Writes(j, "failed", jobs[j].attempts), jobs[j].status = "processing"
    PROVE  Lifecycle!GiveUp(j)
  <1>1. \A i \in Jobs : jobs'[i].attempts = jobs[i].attempts
    BY DEF Writes
  <1>2. QED
    BY <1>1 DEF Writes, Lifecycle!GiveUp, Holders, HoldersPrime

LEMMA ExhaustedMaps ==
    ASSUME NEW j \in Jobs, NEW a, Writes(j, "failed", a), a = jobs[j].attempts + 1,
           a >= jobs[j].maxRetries, jobs[j].status \in {"processing", "completed"}
    PROVE  Lifecycle!GiveUp(j)
  <1>1. [i \in Jobs |-> jobs'[i].attempts] =
           [[i \in Jobs |-> jobs[i].attempts] EXCEPT ![j] = a]
    BY DEF Writes
  <1>2. /\ [i \in Jobs |-> jobs'[i].status] =
              [[i \in Jobs |-> jobs[i].status] EXCEPT ![j] = "failed"]
        /\ [i \in Jobs |-> jobs'[i].maxRetries] = [i \in Jobs |-> jobs[i].maxRetries]
        /\ [i \in Jobs |-> HoldersPrime(i)] = [[i \in Jobs |-> Holders(i)] EXCEPT ![j] = {}]
    BY DEF Writes
  <1>3. Holders(j) # {}
    BY DEF Writes
  <1>4. QED
    BY <1>1, <1>2, <1>3 DEF Lifecycle!GiveUp, Holders, HoldersPrime

LEMMA RetriedMaps ==
    ASSUME NEW j \in Jobs, NEW a, Writes(j, "pending", a), a = jobs[j].attempts + 1,
           a < jobs[j].maxRetries, jobs[j].status \in {"processing", "completed"}
    PROVE  Lifecycle!Retry(j)
  <1>1. [i \in Jobs |-> jobs'[i].attempts] =
           [[i \in Jobs |-> jobs[i].attempts] EXCEPT ![j] = a]
    BY DEF Writes
  <1>2. /\ [i \in Jobs |-> jobs'[i].status] =
              [[i \in Jobs |-> jobs[i].status] EXCEPT ![j] = "pending"]
        /\ [i \in Jobs |-> jobs'[i].maxRetries] = [i \in Jobs |-> jobs[i].maxRetries]
        /\ [i \in Jobs |-> HoldersPrime(i)] = [[i \in Jobs |-> Holders(i)] EXCEPT ![j] = {}]
    BY DEF Writes
  <1>3. Holders(j) # {}
    BY DEF Writes
  <1>4. QED
    BY <1>1, <1>2, <1>3 DEF Lifecycle!Retry, Holders, HoldersPrime

\* A run writes the row of its job and ends: what RetryOrFail and Reject have
\* in common.  The row is the run's own, so its attempts are those the run read.
LEMMA RunWrites ==
    ASSUME RefInv, NEW e \in execs, Ends(e), NEW r,
           jobs' = [jobs EXCEPT ![e.job] = r], r.maxRetries = jobs[e.job].maxRetries
    PROVE  Writes(e.job, r.status, r.attempts) /\ jobs[e.job].attempts = e.attempts
  <1>1. e.job \in Jobs /\ jobs \in [Jobs -> Row]
    BY ExecType DEF RefInv, HoldInv, ConsumerTypeOK
  <1>2. jobs[e.job].attempts = e.attempts
    BY DEF RefInv, HoldInv, Owns
  <1>3. /\ Holders(e.job) = {e.owner}
        /\ \A j \in Jobs : HoldersPrime(j) = IF j = e.job THEN {} ELSE Holders(j)
    BY HolderLeaves DEF RefInv
  <1>4. QED
    BY <1>1, <1>2, <1>3, UpdateColumns DEF Writes

LEMMA FailedWrites ==
    ASSUME RefInv, NEW e \in execs, Ends(e), NEW a, NEW x, MarkFailed(e.job, a, x)
    PROVE  Writes(e.job, "failed", a) /\ jobs[e.job].attempts = e.attempts
  <1> DEFINE r == FailedRow(jobs[e.job], a, x)
  <1>1. jobs[e.job] \in Row
    BY ExecType DEF RefInv, HoldInv, ConsumerTypeOK
  <1>2. r.status = "failed" /\ r.attempts = a /\ r.maxRetries = jobs[e.job].maxRetries
    BY <1>1 DEF Row, FailedRow
  <1>3. jobs' = [jobs EXCEPT ![e.job] = r]
    BY DEF MarkFailed, FailedRow
  <1> HIDE DEF r
  <1>4. Writes(e.job, r.status, r.attempts) /\ jobs[e.job].attempts = e.attempts
    BY <1>2, <1>3, RunWrites
  <1>5. QED
    BY <1>2, <1>4

\* A failed run, or one whose read-back failed, writes one try more than the row
\* had, and offers the job again exactly if the budget leaves one.
LEMMA RetryWrites ==
    ASSUME RefInv, NEW e \in execs, e.pc = "fail", Ends(e), RetryOrFailRow(e)
    PROVE  \E a : /\ a = jobs[e.job].attempts + 1
                  /\ \/ Writes(e.job, "failed", a) /\ a >= jobs[e.job].maxRetries
                     \/ Writes(e.job, "pending", a) /\ a < jobs[e.job].maxRetries
                  /\ jobs[e.job].status \in {"processing", "completed"}
  <1>1. e.job \in Jobs /\ jobs[e.job] \in Row /\ e.attempts \in Nat /\ Owns(e)
    BY ExecType DEF RefInv, HoldInv, ConsumerTypeOK
  <1>2. jobs[e.job].status \in {"processing", "completed"}
    BY <1>1 DEF Owns, HoldsClaim
  <1>3. PICK a : a = e.attempts + 1
    OBVIOUS
  <1>4. CASE e.attempts + 1 >= jobs[e.job].maxRetries
    <2>1. MarkFailed(e.job, e.attempts + 1, "handler error")
      BY <1>4 DEF RetryOrFailRow
    <2>2. Writes(e.job, "failed", a) /\ jobs[e.job].attempts = e.attempts
      BY <2>1, <1>3, FailedWrites
    <2>3. QED
      BY <1>2, <1>3, <1>4, <2>2
  <1>5. CASE ~(e.attempts + 1 >= jobs[e.job].maxRetries)
    <2>1. PICK d \in Backoff(e.attempts + 1) :
               MarkForRetry(e.job, e.attempts + 1, "handler error", d)
      BY <1>5 DEF RetryOrFailRow
    <2> DEFINE r == RetriedRow(jobs[e.job], a, d)
    <2>2. r.status = "pending" /\ r.attempts = a /\ r.maxRetries = jobs[e.job].maxRetries
      BY <1>1 DEF Row, RetriedRow
    <2>3. jobs' = [jobs EXCEPT ![e.job] = r]
      BY <1>3, <2>1 DEF MarkForRetry, RetriedRow
    <2> HIDE DEF r
    <2>4. Writes(e.job, r.status, r.attempts) /\ jobs[e.job].attempts = e.attempts
      BY <2>2, <2>3, RunWrites
    <2>5. jobs[e.job].maxRetries \in Nat
      BY <1>1, RowFacts
    <2>6. a < jobs[e.job].maxRetries
      BY <1>1, <1>3, <1>5, <2>5
    <2>7. QED
      BY <1>2, <1>3, <2>2, <2>4, <2>6
  <1>6. QED
    BY <1>4, <1>5

\* A job without a handler is given up with its attempts as they were.
LEMMA RejectWrites ==
    ASSUME RefInv, NEW e \in execs, e.pc = "reject", Ends(e),
           MarkFailed(e.job, e.attempts, "no handler")
    PROVE  Writes(e.job, "failed", jobs[e.job].attempts) /\ jobs[e.job].status = "processing"
  <1>1. Writes(e.job, "failed", e.attempts) /\ jobs[e.job].attempts = e.attempts
    BY FailedWrites
  <1>2. Owns(e)
    BY DEF RefInv, HoldInv
  <1>3. QED
    BY <1>1, <1>2 DEF Owns, HoldsClaim

LEMMA RetryMaps ==
    ASSUME RefInv, NEW e \in execs, e.pc = "fail", Ends(e), RetryOrFailRow(e)
    PROVE  Lifecycle!GiveUp(e.job) \/ Lifecycle!Retry(e.job)
  <1>1. e.job \in Jobs
    BY ExecType DEF RefInv, HoldInv, ConsumerTypeOK
  <1>2. QED
    BY <1>1, RetryWrites, ExhaustedMaps, RetriedMaps

LEMMA RejectMaps ==
    ASSUME RefInv, NEW e \in execs, e.pc = "reject", Ends(e),
           MarkFailed(e.job, e.attempts, "no handler")
    PROVE  Lifecycle!GiveUp(e.job)
  <1>1. e.job \in Jobs
    BY ExecType DEF RefInv, HoldInv, ConsumerTypeOK
  <1>2. QED
    BY <1>1, RejectWrites, GivenUpMaps

\* A run that ends without writing its row, or whose process died, lets go of it.
LEMMA LetGoMaps ==
    ASSUME RefInv, UNCHANGED jobs, execs' \subseteq execs
    PROVE  \E S \in SUBSET Jobs : Lifecycle!LetGo(S)
  <1>1. PICK S \in SUBSET Jobs : S = {j \in Jobs : \E e \in execs \ execs' : e.job = j}
    OBVIOUS
  <1>2. ASSUME NEW j \in Jobs, j \notin S
        PROVE  HoldersPrime(j) = Holders(j)
    <2>1. {f \in execs' : f.job = j} = {f \in execs : f.job = j}
      BY <1>1, <1>2
    <2>2. QED
      BY <2>1 DEF Holders, HoldersPrime
  <1>3. ASSUME NEW j \in S
        PROVE  HoldersPrime(j) = {}
    <2>1. PICK e \in execs \ execs' : e.job = j
      BY <1>1, <1>3
    <2>2. \A f \in execs' : f.job # j
      BY <2>1 DEF RefInv, HoldInv, ExclusiveExecution
    <2>3. QED
      BY <2>2 DEF HoldersPrime
  <1>4. Lifecycle!LetGo(S)
    BY <1>2, <1>3 DEF Lifecycle!LetGo, Holders, HoldersPrime
  <1>5. QED
    BY <1>4

\* A step that leaves the statuses, counts and budgets of rows and the holders
\* of jobs alone.
LEMMA StutterMaps ==
    ASSUME \A j \in Jobs : /\ jobs'[j].status = jobs[j].status
                           /\ jobs'[j].attempts = jobs[j].attempts
                           /\ jobs'[j].maxRetries = jobs[j].maxRetries,
           \A j \in Jobs : HoldersPrime(j) = Holders(j)
    PROVE  UNCHANGED Lifecycle!lifeVars
  BY DEF Lifecycle!lifeVars, Holders, HoldersPrime

LEMMA PassesColumns ==
    ASSUME RefInv, Passes
    PROVE  \A j \in Jobs : /\ jobs'[j].status = jobs[j].status
                           /\ jobs'[j].attempts = jobs[j].attempts
                           /\ jobs'[j].maxRetries = jobs[j].maxRetries
  <1>1. \A j \in Jobs : jobs[j] \in Row
    BY DEF RefInv, HoldInv, ConsumerTypeOK
  <1>2. QED
    BY <1>1 DEF Passes, Row

LEMMA PassesMaps ==
    ASSUME RefInv, Passes, execs' = execs
    PROVE  UNCHANGED Lifecycle!lifeVars
  BY PassesColumns, SameHolders, StutterMaps

LEMMA LifecycleInit == Init => Lifecycle!LifeInit
  <1> SUFFICES ASSUME Init PROVE Lifecycle!LifeInit
    OBVIOUS
  <1>1. \A j \in Jobs : jobs[j].status = "absent" /\ jobs[j].attempts = 0 /\ jobs[j].maxRetries = 0
    BY DEF Init, DaoInit, NoRow
  <1>2. \A j : Holders(j) = {}
    BY DEF Init, Holders
  <1>3. QED
    BY <1>1, <1>2 DEF Lifecycle!LifeInit, Holders

LEMMA LifecycleStep ==
    ASSUME RefInv, [Next]_vars
    PROVE  [Lifecycle!LifeNext]_(Lifecycle!lifeVars)
  <1> DEFINE Goal == [Lifecycle!LifeNext]_(Lifecycle!lifeVars)
  <1>a. ASSUME UNCHANGED jobs, \A j \in Jobs : HoldersPrime(j) = Holders(j) PROVE Goal
    BY <1>a, StutterMaps
  <1>b. ASSUME UNCHANGED jobs, execs' \subseteq execs PROVE Goal
    BY <1>b, LetGoMaps DEF Lifecycle!LifeNext
  <1>c. ASSUME ResetStuck, execs' = execs PROVE Goal
    BY <1>c, ResetMaps DEF Lifecycle!LifeNext
  <1>1. ASSUME NEW S \in SUBSET Jobs, Enqueue(S)
        PROVE  Goal
    BY <1>1, InsertMaps DEF Enqueue, Lifecycle!LifeNext
  <1>2. ASSUME NEW c \in Consumers, NEW t \in Types, Register(c, t) PROVE Goal
    BY <1>2, <1>b DEF Register
  <1>3. ASSUME NEW c \in Consumers, Start(c) \/ Stop(c) \/ StopReturns(c) \/ Crash(c)
        PROVE  Goal
    BY <1>3, <1>b DEF Start, Stop, StopReturns, Crash
  <1>4. ASSUME NEW c \in Consumers, NEW l \in Loops, Poll(c, l) PROVE Goal
    <2>1. CASE PollEnds(c, l)
      BY <1>b, <2>1 DEF PollEnds
    <2>2. CASE PollResets(c, l)
      BY <1>c, <2>2 DEF PollResets
    <2>3. CASE PollResetFails(c, l)
      BY <1>b, <1>c, <2>3 DEF PollResetFails
    <2>4. CASE PollClaims(c, l)
      BY <2>4, TakeMaps DEF Lifecycle!LifeNext
    <2>5. CASE PollClaimFails(c, l)
      <3>1. ASSUME NEW S \in ClaimableBatches, Claim(S), execs' = execs PROVE Goal
        BY <3>1, StrandMaps DEF Lifecycle!LifeNext
      <3>2. QED
        BY <1>b, <2>5, <3>1 DEF PollClaimFails
    <2>6. QED
      BY <1>4, <2>1, <2>2, <2>3, <2>4, <2>5 DEF Poll
  <1>5. ASSUME NEW e \in execs, ProcessJob(e) PROVE Goal
    <2>0. e.job \in Jobs
      BY ExecType DEF RefInv, HoldInv, ConsumerTypeOK
    <2>a. ASSUME \/ Lifecycle!Complete(e.job) \/ Lifecycle!GiveUp(e.job)
                 \/ Lifecycle!Retry(e.job)
          PROVE  Goal
      BY <2>0, <2>a DEF Lifecycle!LifeNext
    <2>b. ASSUME UNCHANGED jobs, NEW pc, Becomes(e, pc) PROVE Goal
      BY <1>a, <2>b, SameHolderBecomes
    <2>1. CASE HandlerResolves(e)
      BY <2>1, <2>b DEF HandlerResolves
    <2>2. CASE HandlerThrows(e)
      BY <2>2, <2>b DEF HandlerThrows
    <2>3. CASE Complete(e)
      BY <2>3, <2>a, <2>b, CompleteMaps DEF Complete
    <2>4. CASE Confirm(e)
      BY <1>b, <2>4, <2>b DEF Confirm, Ends
    <2>5. CASE RetryOrFail(e)
      BY <1>b, <2>5, <2>a, RetryMaps DEF RetryOrFail, Ends
    <2>6. CASE Reject(e)
      BY <1>b, <2>6, <2>a, RejectMaps DEF Reject, Ends
    <2>7. QED
      BY <1>5, <2>1, <2>2, <2>3, <2>4, <2>5, <2>6 DEF ProcessJob
  <1>6. CASE Tick
    BY <1>6, PassesMaps DEF Tick
  <1>7. CASE UNCHANGED vars
    BY <1>b, <1>7 DEF vars
  <1>8. QED
    BY <1>1, <1>2, <1>3, <1>4, <1>5, <1>6, <1>7 DEF Next

\* As long as handlers settle their jobs within VisibilityTimeout the queue is a
\* JobLifecycle, whatever crashes, fails or is not answered: each job is held by
\* one worker at a time, every failed try is counted once, a job is given up for
\* its count only when its budget is used up, and a settled job nobody holds
\* stays as it is.
THEOREM Implements ==
    ASSUME Timely
    PROVE  Spec => KeepsLifecycle
  <1>1. RefInv /\ [Next]_vars => [Lifecycle!LifeNext]_(Lifecycle!lifeVars)
    BY LifecycleStep
  <1>2. Init => HoldInv /\ TableInv
    BY HoldInit, TableInit
  <1>3. HoldInv /\ [Next]_vars => HoldInv'
    BY HoldStep
  <1>4. QED
    BY <1>1, <1>2, <1>3, LifecycleInit, TableStep, PTL
    DEF Spec, RefInv, KeepsLifecycle, Lifecycle!LifeSpec

\* What a step may do to a settled row.
Stays(j) == jobs'[j].status = jobs[j].status /\ jobs'[j].attempts = jobs[j].attempts

LEMMA SettledStep ==
    ASSUME RefInv, [Next]_vars
    PROVE  \A j \in Jobs : Settled(j) => Stays(j) \/ RetriesCompleted(j)
  <1> SUFFICES ASSUME NEW j \in Jobs, Settled(j)
               PROVE  Stays(j) \/ RetriesCompleted(j)
    OBVIOUS
  <1>0. jobs[j].status \notin {"absent", "pending", "processing"}
    BY DEF Settled
  <1>a. ASSUME UNCHANGED jobs PROVE Stays(j)
    BY <1>a DEF Stays
  <1>b. ASSUME ResetStuck PROVE Stays(j)
    BY <1>0, <1>b DEF ResetStuck, Stuck, WithStatus, Stays
  <1>c. ASSUME NEW S \in ClaimableBatches, Claim(S) PROVE Stays(j)
    BY <1>0, <1>c, ClaimColumns DEF Stays
  <1>1. ASSUME NEW S \in SUBSET Jobs, Enqueue(S) PROVE Stays(j)
    BY <1>0, <1>1 DEF Enqueue, Insert, WithStatus, Stays
  <1>2. ASSUME NEW c \in Consumers, NEW l \in Loops, Poll(c, l) PROVE Stays(j)
    BY <1>a, <1>b, <1>c, <1>2
    DEF Poll, PollEnds, PollResets, PollResetFails, PollClaims, PollClaimFails
  <1>3. ASSUME NEW e \in execs, ProcessJob(e) PROVE Stays(j) \/ RetriesCompleted(j)
    <2>0. e.job \in Jobs /\ jobs \in [Jobs -> Row] /\ Owns(e)
      BY ExecType DEF RefInv, HoldInv, ConsumerTypeOK
    <2>1. CASE HandlerResolves(e) \/ HandlerThrows(e) \/ Confirm(e)
      BY <1>a, <2>1 DEF HandlerResolves, HandlerThrows, Confirm
    <2>2. CASE Complete(e)
      <3>1. e.job # j
        BY <1>0, <2>0, <2>2 DEF Complete, Owns, HoldsClaim
      <3>2. QED
        BY <1>a, <2>0, <2>2, <3>1 DEF Complete, MarkCompleted, Stays
    <2>3. CASE RetryOrFail(e)
      <3>1. CASE UNCHANGED jobs
        BY <1>a, <3>1
      <3>2. CASE RetryOrFailRow(e)
        <4>1. e.pc = "fail" /\ Ends(e)
          BY <2>3 DEF RetryOrFail
        <4>2. PICK a, st : /\ a = jobs[e.job].attempts + 1
                           /\ st \in {"failed", "pending"} /\ Writes(e.job, st, a)
                           /\ jobs[e.job].status \in {"processing", "completed"}
          BY <3>2, <4>1, RetryWrites
        <4>3. CASE e.job = j
          <5>1. jobs[j].status = "completed"
            BY <1>0, <4>2, <4>3
          <5>2. jobs'[j].status \in {"pending", "failed"}
            BY <4>2, <4>3 DEF Writes
          <5>3. jobs'[j].attempts = jobs[j].attempts + 1
            BY <4>2, <4>3 DEF Writes
          <5>4. \E f \in execs : f.job = j /\ f.pc = "fail" /\ execs' = execs \ {f}
            BY <4>1, <4>3 DEF Ends
          <5>5. QED
            BY <5>1, <5>2, <5>3, <5>4 DEF RetriesCompleted
        <4>4. CASE e.job # j
          BY <4>2, <4>4 DEF Writes, Stays
        <4>5. QED
          BY <4>3, <4>4
      <3>3. QED
        BY <2>3, <3>1, <3>2 DEF RetryOrFail
    <2>4. CASE Reject(e)
      <3>1. e.job # j
        BY <1>0, <2>0, <2>4 DEF Reject, Owns, HoldsClaim
      <3>2. QED
        BY <1>a, <2>0, <2>4, <3>1 DEF Reject, MarkFailed, Stays
    <2>5. QED
      BY <1>3, <2>1, <2>2, <2>3, <2>4 DEF ProcessJob
  <1>4. CASE Tick
    BY <1>4, PassesColumns DEF Tick, Stays
  <1>5. QED
    BY <1>a, <1>1, <1>2, <1>3, <1>4
    DEF Next, Register, Start, Stop, StopReturns, Crash, vars

\* Under the same assumption a failed row is final, and a completed one but for
\* the run that completed it and could not read it back: no other run, no reset
\* and no claim moves a settled row, although no update asks for its status.
THEOREM OutcomesFinal ==
    ASSUME Timely
    PROVE  Spec => OnlyOwnRunUnsettles
  <1>1. RefInv /\ [Next]_vars =>
           \A j \in Jobs : Settled(j) =>
              \/ jobs'[j].status = jobs[j].status /\ jobs'[j].attempts = jobs[j].attempts
              \/ RetriesCompleted(j)
    BY SettledStep DEF Stays
  <1>2. HoldInv /\ [Next]_vars => HoldInv'
    BY HoldStep
  <1>3. QED
    BY <1>1, <1>2, HoldInit, TableInit, TableStep, PTL
    DEF Spec, RefInv, OnlyOwnRunUnsettles
=============================================================================
