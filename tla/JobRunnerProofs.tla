-------------------------- MODULE JobRunnerProofs --------------------------
(***************************************************************************)
(* Proofs about JobRunner, for any number of jobs, runners, worker         *)
(* identities, attempts and delays.                                        *)
(***************************************************************************)
EXTENDS JobRunner, FiniteSetTheorems, TLAPS

\* What the tables alone have to satisfy for the type invariant.
StoreTypeOK ==
  /\ jobs \in [JobIds -> Row]
  /\ jobIdempotency \in [IdempotencyKeys -> Inputs \cup {NoInput}]
  /\ jobEvents \in [JobIds -> Seq(JobEvent)]
  /\ eventCount \in Nat

-----------------------------------------------------------------------------
(* Typing *)

\* Appending well-typed events keeps the event table well-typed
\* (#appendJobEvent).
LEMMA AppendTyping ==
  ASSUME StoreTypeOK, NEW S \in SUBSET JobIds, NEW new \in [S -> JobEvent],
         AppendJobEvents(new)
  PROVE  jobEvents' \in [JobIds -> Seq(JobEvent)] /\ eventCount' \in Nat
<1>1. Cardinality(S) \in Nat
  BY StoreAssumption, FS_Subset, FS_CardinalityType
<1> QED
  BY <1>1 DEF StoreTypeOK, AppendJobEvents

\* Writing one well-typed row with its event keeps the tables well-typed.
LEMMA WriteTyping ==
  ASSUME StoreTypeOK, NEW j \in JobIds, NEW row \in Row, NEW e \in JobEvent,
         WriteJob(j, row, e)
  PROVE  /\ jobs' \in [JobIds -> Row]
         /\ jobEvents' \in [JobIds -> Seq(JobEvent)] /\ eventCount' \in Nat
<1>1. [i \in {j} |-> e] \in [{j} -> JobEvent]
  OBVIOUS
<1>2. jobEvents' \in [JobIds -> Seq(JobEvent)] /\ eventCount' \in Nat
  BY <1>1, AppendTyping DEF WriteJob
<1> QED
  BY <1>2 DEF StoreTypeOK, WriteJob

\* A released row is a row.
LEMMA ReleasedTyping ==
  ASSUME NEW row \in Row, NEW s \in Status
  PROVE  Released(row, s) \in Row
BY DEF Released, Row

\* A claimed row is a row.
LEMMA ClaimedTyping ==
  ASSUME NEW row \in Row, NEW w \in WorkerIds, NEW a \in Nat, NEW g \in Nat
  PROVE  Claimed(row, w, a, g) \in Row
<1>1. LeaseMs \in Nat /\ "RUNNING" \in Status
  BY StoreAssumption DEF Status, Active
<1> QED
  BY <1>1 DEF Claimed, Row

\* An event of a known type and status is an event.
LEMMA EventTyping ==
  ASSUME NEW t \in EventTypes, NEW s \in Status, NEW g \in Nat
  PROVE  Event(t, s, g) \in JobEvent
BY DEF Event, JobEvent

\* enqueueJob keeps the tables well-typed.
LEMMA EnqueueTyping ==
  ASSUME StoreTypeOK, NEW k \in IdempotencyKeys, NEW input \in Inputs, EnqueueJob(k, input)
  PROVE  StoreTypeOK'
<1> DEFINE j == input.jobId
           row == [AbsentRow EXCEPT !.status = "PENDING", !.input = input,
                                    !.availableIn = input.delay]
<1>0. j \in JobIds /\ input.delay \in Int
  <2>1. input \in [jobId : JobIds, priority : Nat, maxAttempts : Nat \ {0}, delay : Nat]
    BY StoreAssumption
  <2> QED BY <2>1
<1>1. row \in Row
  BY <1>0 DEF Row, AbsentRow, Status, Waiting
<1>2. Event("job.enqueued", "PENDING", 0) \in JobEvent
  BY EventTyping DEF EventTypes, Status, Waiting
<1>3. CASE UNCHANGED <<jobs, jobEvents, eventCount>>
  BY <1>3 DEF EnqueueJob, StoreTypeOK
<1>4. CASE WriteJob(j, row, Event("job.enqueued", "PENDING", 0))
  <2> HIDE DEF j, row
  <2> QED BY <1>0, <1>1, <1>2, <1>4, WriteTyping DEF EnqueueJob, StoreTypeOK
<1> QED
  BY <1>3, <1>4 DEF EnqueueJob

\* The rows and events of maintenance are well-typed (#maintainExpiredJobs).
LEMMA MaintenanceTyping ==
  ASSUME StoreTypeOK
  PROVE  /\ Maintained \in [JobIds -> Row]
         /\ MaintenanceEvents \in [ExhaustedJobs \cup AbandonedJobs -> JobEvent]
<1>1. ASSUME NEW j \in JobIds
      PROVE  /\ jobs[j] \in Row /\ jobs[j].generation \in Nat
             /\ Released(jobs[j], "BLOCKED") \in Row /\ Released(jobs[j], "CANCELLED") \in Row
             /\ Event("job.blocked", "BLOCKED", jobs[j].generation) \in JobEvent
             /\ Event("job.cancelled", "CANCELLED", jobs[j].generation) \in JobEvent
  <2>1. jobs[j] \in Row /\ jobs[j].generation \in Nat
    BY DEF StoreTypeOK, Row
  <2>2. "BLOCKED" \in Status /\ "CANCELLED" \in Status
    BY DEF Status, Terminal
  <2>3. "job.blocked" \in EventTypes /\ "job.cancelled" \in EventTypes
    BY DEF EventTypes
  <2> QED BY <2>1, <2>2, <2>3, ReleasedTyping, EventTyping
<1>2. ExhaustedJobs \cup AbandonedJobs \subseteq JobIds
  BY DEF ExhaustedJobs, AbandonedJobs
<1> QED
  BY <1>1, <1>2 DEF Maintained, MaintenanceEvents

\* claimJob keeps the tables well-typed.
LEMMA ClaimTyping ==
  ASSUME StoreTypeOK, NEW w \in WorkerIds, NEW j \in JobIds, ClaimJob(w, j)
  PROVE  StoreTypeOK'
<1> DEFINE generation == jobs[j].generation + 1
           claimed == Claimed(jobs[j], w, jobs[j].attempt + 1, generation)
           type == IF jobs[j].status = "RUNNING" THEN "job.reclaimed" ELSE "job.claimed"
           S == ExhaustedJobs \cup AbandonedJobs \cup {j}
           new == [i \in S |-> IF i = j THEN Event(type, "RUNNING", generation)
                               ELSE MaintenanceEvents[i]]
<1>1. claimed \in Row /\ generation \in Nat
  <2>1. jobs[j] \in Row /\ generation \in Nat /\ jobs[j].attempt + 1 \in Nat
    BY DEF StoreTypeOK, Row
  <2> HIDE DEF generation
  <2> QED BY <2>1, ClaimedTyping
<1>2. Event(type, "RUNNING", generation) \in JobEvent
  BY <1>1, EventTyping DEF EventTypes, Status, Active
<1>3. S \in SUBSET JobIds
  BY DEF ExhaustedJobs, AbandonedJobs
<1>4. new \in [S -> JobEvent]
  BY <1>2, MaintenanceTyping
<1>5. AppendJobEvents(new)
  BY DEF ClaimJob
<1>6. jobEvents' \in [JobIds -> Seq(JobEvent)] /\ eventCount' \in Nat
  <2> HIDE DEF S, new
  <2> QED BY <1>3, <1>4, <1>5, AppendTyping
<1>7. jobs' = [Maintained EXCEPT ![j] = claimed] /\ UNCHANGED jobIdempotency
  BY DEF ClaimJob
<1> QED
  <2> HIDE DEF claimed
  <2> QED BY <1>1, <1>6, <1>7, MaintenanceTyping DEF StoreTypeOK

\* claimJob that selects nothing keeps the tables well-typed.
LEMMA ClaimNothingTyping ==
  ASSUME StoreTypeOK, ClaimNothing
  PROVE  StoreTypeOK'
<1>1. ExhaustedJobs \cup AbandonedJobs \in SUBSET JobIds
  BY DEF ExhaustedJobs, AbandonedJobs
<1>2. jobEvents' \in [JobIds -> Seq(JobEvent)] /\ eventCount' \in Nat
  BY <1>1, MaintenanceTyping, AppendTyping DEF ClaimNothing
<1> QED
  BY <1>2, MaintenanceTyping DEF ClaimNothing, StoreTypeOK

\* Cancelling or blocking a job keeps the tables well-typed (#cancelRunningJob,
\* #blockRunningJob).
LEMMA LeaveTyping ==
  ASSUME StoreTypeOK, NEW j \in JobIds, UNCHANGED jobIdempotency,
         CancelRunningJob(j) \/ BlockRunningJob(j)
  PROVE  StoreTypeOK'
<1>1. jobs[j] \in Row /\ jobs[j].generation \in Nat
  BY DEF StoreTypeOK, Row
<1>2. "BLOCKED" \in Status /\ "CANCELLED" \in Status
  BY DEF Status, Terminal
<1>3. "job.blocked" \in EventTypes /\ "job.cancelled" \in EventTypes
  BY DEF EventTypes
<1>4. CASE CancelRunningJob(j)
  BY <1>1, <1>2, <1>3, <1>4, WriteTyping, ReleasedTyping, EventTyping
     DEF CancelRunningJob, StoreTypeOK
<1>5. CASE BlockRunningJob(j)
  BY <1>1, <1>2, <1>3, <1>5, WriteTyping, ReleasedTyping, EventTyping
     DEF BlockRunningJob, StoreTypeOK
<1> QED BY <1>4, <1>5

\* heartbeatJob keeps the tables well-typed.
LEMMA HeartbeatTyping ==
  ASSUME StoreTypeOK, NEW l \in Lease, HeartbeatJob(l)
  PROVE  StoreTypeOK'
<1>1. l.jobId \in JobIds /\ l.generation \in Nat /\ jobs[l.jobId] \in Row
  BY DEF StoreTypeOK, Lease
<1>2. [jobs[l.jobId] EXCEPT !.leaseIn = LeaseMs] \in Row
  BY <1>1, StoreAssumption DEF Row
<1>3. Event("job.heartbeat", "RUNNING", l.generation) \in JobEvent
  BY <1>1, EventTyping DEF EventTypes, Status, Active
<1> QED
  BY <1>1, <1>2, <1>3, WriteTyping DEF HeartbeatJob, StoreTypeOK

\* Every settlement keeps the tables well-typed.
LEMMA SettleTyping ==
  ASSUME StoreTypeOK, NEW l \in Lease,
         NEW result \in [outcome : {"SUCCEEDED", "RETRY", "BLOCKED", "CANCELLED"}, delay : Nat],
         Settle(l, result)
  PROVE  StoreTypeOK'
<1> DEFINE j == l.jobId
           succeeded == [Released(jobs[j], "SUCCEEDED") EXCEPT !.result = l.generation]
           retried == [Released(jobs[j], "RETRY_WAIT") EXCEPT !.availableIn = result.delay]
<1>1. j \in JobIds /\ l.generation \in Nat /\ jobs[j] \in Row /\ result.delay \in Int
  BY DEF StoreTypeOK, Lease
<1>2. "SUCCEEDED" \in Status /\ "RETRY_WAIT" \in Status
  BY DEF Status, Terminal, Waiting
<1>3. "job.succeeded" \in EventTypes /\ "job.retry_scheduled" \in EventTypes
  BY DEF EventTypes
<1>4. succeeded \in Row /\ retried \in Row
  <2>1. Released(jobs[j], "SUCCEEDED") \in Row /\ Released(jobs[j], "RETRY_WAIT") \in Row
    BY <1>1, <1>2, ReleasedTyping
  <2> HIDE DEF j
  <2> QED BY <1>1, <2>1 DEF Row
<1>5. UNCHANGED jobIdempotency
  BY DEF Settle, SettleJobSuccess, SettleJobRetry, SettleJobBlocked, SettleJobCancelled
<1>6. \/ CancelRunningJob(j) \/ BlockRunningJob(j)
      \/ WriteJob(j, succeeded, Event("job.succeeded", "SUCCEEDED", l.generation))
      \/ WriteJob(j, retried, Event("job.retry_scheduled", "RETRY_WAIT", l.generation))
  BY DEF Settle, SettleJobSuccess, SettleJobRetry, SettleJobBlocked, SettleJobCancelled
<1>7. CASE CancelRunningJob(j) \/ BlockRunningJob(j)
  BY <1>1, <1>5, <1>7, LeaveTyping
<1>8. CASE WriteJob(j, succeeded, Event("job.succeeded", "SUCCEEDED", l.generation))
  <2>1. Event("job.succeeded", "SUCCEEDED", l.generation) \in JobEvent
    BY <1>1, <1>2, <1>3, EventTyping
  <2> HIDE DEF j, succeeded
  <2> QED BY <1>1, <1>4, <1>5, <1>8, <2>1, WriteTyping DEF StoreTypeOK
<1>9. CASE WriteJob(j, retried, Event("job.retry_scheduled", "RETRY_WAIT", l.generation))
  <2>1. Event("job.retry_scheduled", "RETRY_WAIT", l.generation) \in JobEvent
    BY <1>1, <1>2, <1>3, EventTyping
  <2> HIDE DEF j, retried
  <2> QED BY <1>1, <1>4, <1>5, <1>9, <2>1, WriteTyping DEF StoreTypeOK
<1> QED BY <1>6, <1>7, <1>8, <1>9

\* cancelJob keeps the tables well-typed.
LEMMA CancelTyping ==
  ASSUME StoreTypeOK, NEW j \in JobIds, CancelJob(j)
  PROVE  StoreTypeOK'
<1>1. jobs[j] \in Row /\ jobs[j].generation \in Nat
  BY DEF StoreTypeOK, Row
<1>2. /\ [jobs[j] EXCEPT !.status = "CANCELLED"] \in Row
      /\ [jobs[j] EXCEPT !.status = "CANCELLING"] \in Row
  BY <1>1 DEF Row, Status, Terminal, Active
<1>3. /\ Event("job.cancelled", "CANCELLED", jobs[j].generation) \in JobEvent
      /\ Event("job.cancelling", "CANCELLING", jobs[j].generation) \in JobEvent
  BY <1>1, EventTyping DEF EventTypes, Status, Terminal, Active
<1> QED
  BY <1>1, <1>2, <1>3, WriteTyping DEF CancelJob, StoreTypeOK

\* The clock keeps the tables well-typed.
LEMMA AgeTyping ==
  ASSUME StoreTypeOK, AgeRows, UNCHANGED <<jobIdempotency, jobEvents, eventCount>>
  PROVE  StoreTypeOK'
<1>1. ASSUME NEW j \in JobIds, NEW a \in Int, NEW e \in Nat
      PROVE  [jobs[j] EXCEPT !.leaseIn = e, !.availableIn = a] \in Row
  <2>1. jobs[j] \in Row
    BY DEF StoreTypeOK
  <2> QED BY <2>1 DEF Row
<1>2. ASSUME NEW j \in JobIds
      PROVE  /\ (IF jobs[j].leaseIn > 0 THEN jobs[j].leaseIn - 1 ELSE 0) \in Nat
             /\ (IF j \in Stored /\ jobs[j].availableIn > -MaxOverdue
                 THEN jobs[j].availableIn - 1 ELSE jobs[j].availableIn) \in Int
  <2>1. jobs[j].leaseIn \in Nat /\ jobs[j].availableIn \in Int
    BY DEF StoreTypeOK, Row
  <2> QED BY <2>1
<1>3. jobs' \in [JobIds -> Row]
  BY <1>1, <1>2 DEF AgeRows
<1> QED BY <1>3 DEF StoreTypeOK

\* What a handler returns, or what #executeLease puts in its place, is a result
\* that settle accepts.
LEMMA SettledTyping ==
  ASSUME NEW r \in Runners, NEW result \in HandlerResults
  PROVE  Settled(r, result)
           \in [outcome : {"SUCCEEDED", "RETRY", "BLOCKED", "CANCELLED"}, delay : Nat]
BY StoreAssumption DEF Settled, HandlerResults

\* Every step keeps the tables well-typed, and leases in the runners' hands are
\* leases.
LEMMA StepTyping ==
  ASSUME TypeOK, Next
  PROVE  TypeOK'
<1> USE DEF TypeOK
<1>0. StoreTypeOK
  BY DEF StoreTypeOK
<1>1. ASSUME NEW k \in IdempotencyKeys, NEW input \in Inputs, Enqueue(k, input)
      PROVE  TypeOK'
  BY <1>0, <1>1, EnqueueTyping DEF Enqueue, StoreTypeOK
<1>2. ASSUME NEW j \in JobIds, Cancel(j)
      PROVE  TypeOK'
  BY <1>0, <1>2, CancelTyping DEF Cancel, StoreTypeOK
<1>3. ASSUME NEW r \in Runners, NEW j \in JobIds, RunNext(r, j)
      PROVE  TypeOK'
  <2>1. WorkerId[r] \in WorkerIds /\ TimeoutMs \in Nat
    BY RunnerAssumption
  <2>2. StoreTypeOK'
    BY <1>0, <1>3, <2>1, ClaimTyping DEF RunNext
  <2>3. jobs[j].generation + 1 \in Nat
    BY DEF Row
  <2> DEFINE l == [jobId |-> j, workerId |-> WorkerId[r], generation |-> jobs[j].generation + 1]
  <2>4. l \in Lease
    BY <2>1, <2>3 DEF Lease
  <2> HIDE DEF l
  <2>5. [Idle EXCEPT !.lease = l, !.timeoutIn = TimeoutMs] \in RunnerState
    BY <2>1, <2>4 DEF RunnerState, Idle, Beats
  <2>6. runner' = [runner EXCEPT ![r] = [Idle EXCEPT !.lease = l, !.timeoutIn = TimeoutMs]]
    BY <1>3 DEF RunNext, l
  <2> QED BY <2>2, <2>5, <2>6 DEF StoreTypeOK
<1>4. ASSUME NEW r \in Runners, PollEmpty(r)
      PROVE  TypeOK'
  BY <1>0, <1>4, ClaimNothingTyping DEF PollEmpty, StoreTypeOK
<1>5. ASSUME NEW r \in Runners, Heartbeat(r)
      PROVE  TypeOK'
  <2>1. runner[r].lease \in Lease
    BY <1>5 DEF Heartbeat, Executing, RunnerState
  <2>2. StoreTypeOK'
    BY <1>0, <1>5, <2>1, HeartbeatTyping DEF Heartbeat, StoreTypeOK, storeVars
  <2>3. ASSUME NEW b \in Beats
        PROVE  [runner EXCEPT ![r].beat = b] \in [Runners -> RunnerState]
    BY DEF RunnerState
  <2>4. runner' \in [Runners -> RunnerState]
    BY <1>5, <2>3 DEF Heartbeat, Beats
  <2> QED BY <2>2, <2>4 DEF StoreTypeOK
<1>6. ASSUME NEW r \in Runners, HeartbeatAnswered(r)
      PROVE  TypeOK'
  <2>1. ASSUME NEW c \in BOOLEAN, NEW f \in BOOLEAN
        PROVE  [runner[r] EXCEPT !.beat = "NONE", !.cancellationObserved = c,
                                 !.heartbeatFailure = f] \in RunnerState
    BY DEF RunnerState, Beats
  <2>2. /\ (runner[r].cancellationObserved \/ runner[r].beat = "CANCELLING") \in BOOLEAN
        /\ (runner[r].heartbeatFailure \/ runner[r].beat = "FAILED") \in BOOLEAN
    OBVIOUS
  <2>3. runner' \in [Runners -> RunnerState]
    BY <1>6, <2>1, <2>2 DEF HeartbeatAnswered
  <2> QED BY <1>6, <2>3 DEF HeartbeatAnswered, storeVars
<1>7. ASSUME NEW r \in Runners, Timeout(r)
      PROVE  TypeOK'
  BY <1>7 DEF Timeout, RunnerState, storeVars
<1>8. ASSUME NEW r \in Runners, NEW result \in HandlerResults, HandlerDone(r, result)
      PROVE  TypeOK'
  <2>1. runner[r].lease \in Lease
    BY <1>8 DEF HandlerDone, Executing, RunnerState
  <2>2. StoreTypeOK'
    BY <1>0, <1>8, <2>1, SettledTyping, SettleTyping DEF HandlerDone
  <2>3. Idle \in RunnerState
    BY DEF Idle, RunnerState, Beats
  <2> QED BY <1>8, <2>2, <2>3 DEF HandlerDone, StoreTypeOK
<1>9. ASSUME NEW r \in Runners, Abandon(r)
      PROVE  TypeOK'
  BY <1>9 DEF Abandon, Idle, RunnerState, Beats, storeVars
<1>10. CASE Tick
  <2>1. StoreTypeOK'
    BY <1>0, <1>10, AgeTyping DEF Tick
  <2>2. ASSUME NEW r \in Runners, NEW t \in Nat
        PROVE  [runner[r] EXCEPT !.timeoutIn = t] \in RunnerState
    BY DEF RunnerState
  <2>3. ASSUME NEW r \in Runners
        PROVE  (IF runner[r].timeoutIn > 0 THEN runner[r].timeoutIn - 1 ELSE 0) \in Nat
    BY DEF RunnerState
  <2> QED BY <1>10, <2>1, <2>2, <2>3 DEF Tick, StoreTypeOK
<1> QED
  BY <1>1, <1>2, <1>3, <1>4, <1>5, <1>6, <1>7, <1>8, <1>9, <1>10 DEF Next

\* The tables and the runners' locals keep their types in every behaviour of any
\* number of runners, producers and crashes (SqliteDurableStore and
\* DurableJobRunner).
THEOREM TypeCorrect == Spec => []TypeOK
<1>1. Init => TypeOK
  <2>1. AbsentRow \in Row /\ Idle \in RunnerState
    BY DEF AbsentRow, Row, Status, Idle, RunnerState, Beats
  <2> QED BY <2>1 DEF Init, StoreInit, TypeOK
<1>2. TypeOK /\ UNCHANGED vars => TypeOK'
  BY DEF TypeOK, vars
<1> QED
  BY <1>1, <1>2, StepTyping, PTL DEF Spec

-----------------------------------------------------------------------------
(* The inductive invariant *)

\* What every row satisfies: lease columns while active, one attempt per
\* generation, an attempt left while waiting, and the newest result.
GoodRow(row) ==
  /\ row.status \in Active <=> row.workerId # NoWorker
  /\ row.status \notin Active => row.leaseIn = 0
  /\ row.attempt = row.generation
  /\ IF row.status = "ABSENT" THEN row.input = NoInput ELSE row.input \in Inputs
  /\ row.status = "ABSENT" => row.generation = 0
  /\ row.status # "ABSENT" => row.attempt <= row.input.maxAttempts
  /\ row.status \in Waiting => row.attempt < row.input.maxAttempts
  /\ row.status = "SUCCEEDED" => row.result = row.generation

RowInv == \A j \in JobIds : GoodRow(jobs[j])

\* A lease in a runner's hands comes from an earlier claim of its job, and no two
\* runners hold the same claim.
LeaseInv ==
  /\ \A r \in Runners :
       Executing(r) => runner[r].lease.generation <= jobs[runner[r].lease.jobId].generation
  /\ \A r, s \in Runners :
       /\ Executing(r) /\ Executing(s) /\ r # s
       /\ runner[r].lease.jobId = runner[s].lease.jobId
       => runner[r].lease.generation # runner[s].lease.generation

IInv == TypeOK /\ RowInv /\ LeaseInv

\* An input has a positive attempt ceiling.
LEMMA InputFacts ==
  ASSUME NEW input \in Inputs
  PROVE  /\ input.jobId \in JobIds /\ input.delay \in Nat
         /\ input.maxAttempts \in Nat /\ input.maxAttempts > 0 /\ input # NoInput
<1>1. input \in [jobId : JobIds, priority : Nat, maxAttempts : Nat \ {0}, delay : Nat]
  BY StoreAssumption
<1> QED BY <1>1, StoreAssumption

\* Settling or blocking an active row gives a good row (#cancelRunningJob,
\* #blockRunningJob).
LEMMA GoodReleased ==
  ASSUME NEW row \in Row, GoodRow(row), row.status \in Active,
         NEW s \in {"BLOCKED", "CANCELLED"}
  PROVE  GoodRow(Released(row, s)) /\ Released(row, s).generation = row.generation
<1>1. /\ Released(row, s).status = s /\ Released(row, s).workerId = NoWorker
      /\ Released(row, s).leaseIn = 0 /\ Released(row, s).attempt = row.attempt
      /\ Released(row, s).generation = row.generation /\ Released(row, s).input = row.input
  BY DEF Released, Row
<1> QED
  BY <1>1 DEF GoodRow, Active, Waiting

\* A claim of a claimable row gives a good row.
LEMMA GoodClaimed ==
  ASSUME NEW row \in Row, GoodRow(row), row.status \in Waiting \cup {"RUNNING"},
         row.status = "RUNNING" => row.attempt < row.input.maxAttempts,
         NEW w \in WorkerIds
  PROVE  /\ GoodRow(Claimed(row, w, row.attempt + 1, row.generation + 1))
         /\ Claimed(row, w, row.attempt + 1, row.generation + 1).generation = row.generation + 1
<1> DEFINE new == Claimed(row, w, row.attempt + 1, row.generation + 1)
<1>1. /\ new.status = "RUNNING" /\ new.workerId = w /\ new.attempt = row.attempt + 1
      /\ new.generation = row.generation + 1 /\ new.input = row.input
  BY DEF Claimed, Row
<1>2. row.input \in Inputs /\ row.attempt < row.input.maxAttempts
  BY DEF GoodRow, Waiting
<1>3. row.input.maxAttempts \in Nat /\ row.attempt \in Nat /\ row.generation \in Nat
  BY <1>2, InputFacts DEF Row
<1> HIDE DEF new
<1>4. w # NoWorker
  BY StoreAssumption
<1> QED
  BY <1>1, <1>2, <1>3, <1>4 DEF GoodRow, Active, Waiting, new

\* Maintenance gives good rows and leaves the generations alone.
LEMMA GoodMaintained ==
  ASSUME TypeOK, RowInv, NEW j \in JobIds
  PROVE  GoodRow(Maintained[j]) /\ Maintained[j].generation = jobs[j].generation
<1>1. jobs[j] \in Row /\ GoodRow(jobs[j])
  BY DEF TypeOK, RowInv
<1>2. CASE j \in ExhaustedJobs
  BY <1>1, <1>2, GoodReleased DEF Maintained, ExhaustedJobs, Active
<1>3. CASE j \notin ExhaustedJobs /\ j \in AbandonedJobs
  BY <1>1, <1>3, GoodReleased DEF Maintained, AbandonedJobs, Active
<1>4. CASE j \notin ExhaustedJobs \cup AbandonedJobs
  BY <1>1, <1>4 DEF Maintained
<1> QED BY <1>2, <1>3, <1>4

\* Writing one good row keeps every row good, and its generation if the row does.
LEMMA GoodWrite ==
  ASSUME TypeOK, RowInv, NEW j \in JobIds, NEW row, NEW e, WriteJob(j, row, e),
         GoodRow(row), row.generation = jobs[j].generation
  PROVE  RowInv' /\ \A i \in JobIds : jobs'[i].generation = jobs[i].generation
BY DEF TypeOK, RowInv, WriteJob, GoodRow

SameGenerations == \A i \in JobIds : jobs'[i].generation = jobs[i].generation

\* enqueueJob writes a good row, and every other row keeps its generation.
LEMMA GoodEnqueue ==
  ASSUME TypeOK, RowInv, NEW k \in IdempotencyKeys, NEW input \in Inputs, EnqueueJob(k, input)
  PROVE  RowInv' /\ SameGenerations
<1> DEFINE j == input.jobId
           row == [AbsentRow EXCEPT !.status = "PENDING", !.input = input,
                                    !.availableIn = input.delay]
<1>1. j \in JobIds /\ input.maxAttempts \in Nat /\ input.maxAttempts > 0
  BY InputFacts
<1>2. row.status = "PENDING" /\ row.input = input /\ row.attempt = 0 /\ row.generation = 0
      /\ row.workerId = NoWorker /\ row.leaseIn = 0
  BY DEF AbsentRow
<1>3. GoodRow(row)
  <2> HIDE DEF row
  <2> QED BY <1>1, <1>2 DEF GoodRow, Active, Waiting
<1>4. CASE UNCHANGED <<jobs, jobEvents, eventCount>>
  BY <1>4 DEF RowInv, GoodRow, SameGenerations
<1>5. CASE j \notin Stored /\ WriteJob(j, row, Event("job.enqueued", "PENDING", 0))
  <2>1. row.generation = jobs[j].generation
    BY <1>1, <1>2, <1>5 DEF RowInv, GoodRow, Stored
  <2> HIDE DEF j, row
  <2> QED BY <1>1, <1>3, <1>5, <2>1, GoodWrite DEF SameGenerations
<1> QED BY <1>4, <1>5 DEF EnqueueJob

\* cancelJob keeps the rows good: a RUNNING job keeps its lease columns.
LEMMA GoodCancel ==
  ASSUME TypeOK, RowInv, NEW j \in JobIds, CancelJob(j)
  PROVE  RowInv' /\ SameGenerations
<1>1. jobs[j] \in Row /\ GoodRow(jobs[j])
  BY DEF TypeOK, RowInv
<1>2. CASE jobs[j].status \in Waiting
  <2> DEFINE row == [jobs[j] EXCEPT !.status = "CANCELLED"]
  <2>1. row.status = "CANCELLED" /\ row.input = jobs[j].input /\ row.attempt = jobs[j].attempt
        /\ row.generation = jobs[j].generation /\ row.workerId = jobs[j].workerId
        /\ row.leaseIn = jobs[j].leaseIn
    BY <1>1 DEF Row
  <2>2. WriteJob(j, row, Event("job.cancelled", "CANCELLED", jobs[j].generation))
    BY <1>2 DEF CancelJob, Waiting
  <2> HIDE DEF row
  <2>3. GoodRow(row)
    BY <1>1, <1>2, <2>1 DEF GoodRow, Active, Waiting
  <2> QED BY <2>1, <2>2, <2>3, GoodWrite DEF SameGenerations
<1>3. CASE jobs[j].status = "RUNNING"
  <2> DEFINE row == [jobs[j] EXCEPT !.status = "CANCELLING"]
  <2>1. row.status = "CANCELLING" /\ row.input = jobs[j].input /\ row.attempt = jobs[j].attempt
        /\ row.generation = jobs[j].generation /\ row.workerId = jobs[j].workerId
    BY <1>1 DEF Row
  <2>2. WriteJob(j, row, Event("job.cancelling", "CANCELLING", jobs[j].generation))
    BY <1>3 DEF CancelJob, Waiting
  <2> HIDE DEF row
  <2>3. GoodRow(row)
    BY <1>1, <1>3, <2>1 DEF GoodRow, Active, Waiting
  <2> QED BY <2>1, <2>2, <2>3, GoodWrite DEF SameGenerations
<1> QED BY <1>2, <1>3 DEF CancelJob

\* A heartbeat only moves the expiry of an active row.
LEMMA GoodHeartbeat ==
  ASSUME TypeOK, RowInv, NEW l \in Lease, HeartbeatJob(l)
  PROVE  RowInv' /\ SameGenerations
<1> DEFINE j == l.jobId
           row == [jobs[j] EXCEPT !.leaseIn = LeaseMs]
<1>1. j \in JobIds /\ jobs[j] \in Row /\ GoodRow(jobs[j]) /\ jobs[j].status = "RUNNING"
  BY DEF TypeOK, RowInv, Lease, HeartbeatJob
<1>2. row.status = "RUNNING" /\ row.input = jobs[j].input /\ row.attempt = jobs[j].attempt
      /\ row.generation = jobs[j].generation /\ row.workerId = jobs[j].workerId
  BY <1>1 DEF Row
<1>3. WriteJob(j, row, Event("job.heartbeat", "RUNNING", l.generation))
  BY DEF HeartbeatJob
<1> HIDE DEF j, row
<1>4. GoodRow(row)
  BY <1>1, <1>2 DEF GoodRow, Active, Waiting
<1> QED BY <1>1, <1>2, <1>3, <1>4, GoodWrite DEF SameGenerations

\* A settlement by a valid lease writes a good row; the result it stores is that
\* of the newest claim because the fencing generation matched.
LEMMA GoodSettle ==
  ASSUME TypeOK, RowInv, NEW l \in Lease, NEW result, Settle(l, result)
  PROVE  RowInv' /\ SameGenerations
<1> DEFINE j == l.jobId
           succeeded == [Released(jobs[j], "SUCCEEDED") EXCEPT !.result = l.generation]
           retried == [Released(jobs[j], "RETRY_WAIT") EXCEPT !.availableIn = result.delay]
<1>1. /\ j \in JobIds /\ jobs[j] \in Row /\ GoodRow(jobs[j])
      /\ jobs[j].status \in Active /\ jobs[j].generation = l.generation
  BY DEF TypeOK, RowInv, Lease, Settle, ValidLease,
         SettleJobSuccess, SettleJobRetry, SettleJobBlocked, SettleJobCancelled
<1>2. \/ CancelRunningJob(j) \/ BlockRunningJob(j)
      \/ WriteJob(j, succeeded, Event("job.succeeded", "SUCCEEDED", l.generation))
      \/ /\ ~Exhausted(j)
         /\ WriteJob(j, retried, Event("job.retry_scheduled", "RETRY_WAIT", l.generation))
  BY <1>1 DEF Settle, SettleJobSuccess, SettleJobRetry, SettleJobBlocked, SettleJobCancelled,
              Active
<1>3. CASE CancelRunningJob(j) \/ BlockRunningJob(j)
  <2> HIDE DEF j
  <2> QED BY <1>1, <1>3, GoodReleased, GoodWrite DEF CancelRunningJob, BlockRunningJob, SameGenerations
<1>4. CASE WriteJob(j, succeeded, Event("job.succeeded", "SUCCEEDED", l.generation))
  <2>1. /\ succeeded.status = "SUCCEEDED" /\ succeeded.input = jobs[j].input
        /\ succeeded.attempt = jobs[j].attempt /\ succeeded.generation = jobs[j].generation
        /\ succeeded.workerId = NoWorker /\ succeeded.leaseIn = 0
        /\ succeeded.result = l.generation
    BY <1>1 DEF Row, Released
  <2> HIDE DEF j, succeeded
  <2>2. GoodRow(succeeded)
    BY <1>1, <2>1 DEF GoodRow, Active, Waiting
  <2> QED BY <1>1, <1>4, <2>1, <2>2, GoodWrite DEF SameGenerations
<1>5. CASE /\ ~Exhausted(j)
           /\ WriteJob(j, retried, Event("job.retry_scheduled", "RETRY_WAIT", l.generation))
  <2>1. /\ retried.status = "RETRY_WAIT" /\ retried.input = jobs[j].input
        /\ retried.attempt = jobs[j].attempt /\ retried.generation = jobs[j].generation
        /\ retried.workerId = NoWorker /\ retried.leaseIn = 0
    BY <1>1 DEF Row, Released
  <2>2. jobs[j].attempt \in Nat /\ jobs[j].input.maxAttempts \in Nat
    BY <1>1, InputFacts DEF Row, GoodRow, Active
  <2> HIDE DEF j, retried
  <2>3. GoodRow(retried)
    BY <1>1, <1>5, <2>1, <2>2 DEF GoodRow, Active, Waiting, Exhausted
  <2> QED BY <1>1, <1>5, <2>1, <2>3, GoodWrite DEF SameGenerations
<1> QED BY <1>2, <1>3, <1>4, <1>5

\* The clock moves no column the invariant reads but the expiry, which is 0
\* already where it has to be.
LEMMA GoodAge ==
  ASSUME TypeOK, RowInv, AgeRows
  PROVE  RowInv' /\ SameGenerations
<1> SUFFICES ASSUME NEW j \in JobIds
             PROVE  GoodRow(jobs'[j]) /\ jobs'[j].generation = jobs[j].generation
  BY DEF RowInv, GoodRow, SameGenerations
<1>1. jobs[j] \in Row /\ GoodRow(jobs[j])
  BY DEF TypeOK, RowInv
<1>2. /\ jobs'[j].status = jobs[j].status /\ jobs'[j].input = jobs[j].input
      /\ jobs'[j].attempt = jobs[j].attempt /\ jobs'[j].generation = jobs[j].generation
      /\ jobs'[j].workerId = jobs[j].workerId /\ jobs'[j].result = jobs[j].result
      /\ jobs[j].leaseIn = 0 => jobs'[j].leaseIn = 0
  <2> DEFINE e == IF jobs[j].leaseIn > 0 THEN jobs[j].leaseIn - 1 ELSE 0
             a == IF j \in Stored /\ jobs[j].availableIn > -MaxOverdue
                  THEN jobs[j].availableIn - 1 ELSE jobs[j].availableIn
  <2>1. jobs'[j] = [jobs[j] EXCEPT !.leaseIn = e, !.availableIn = a]
    BY DEF AgeRows
  <2>2. jobs[j].leaseIn = 0 => e = 0
    OBVIOUS
  <2> HIDE DEF e, a
  <2> QED BY <1>1, <2>1, <2>2 DEF Row
<1> QED BY <1>1, <1>2 DEF GoodRow

\* claimJob leaves good rows, and opens a new generation of the claimed job only.
LEMMA GoodClaim ==
  ASSUME TypeOK, RowInv, NEW w \in WorkerIds, NEW j \in JobIds, ClaimJob(w, j)
  PROVE  /\ RowInv'
         /\ jobs'[j].generation = jobs[j].generation + 1
         /\ \A i \in JobIds \ {j} : jobs'[i].generation = jobs[i].generation
<1> DEFINE claimed == Claimed(jobs[j], w, jobs[j].attempt + 1, jobs[j].generation + 1)
<1>1. jobs[j] \in Row /\ GoodRow(jobs[j])
  BY DEF TypeOK, RowInv
<1>2. jobs[j].status \in Waiting \cup {"RUNNING"}
      /\ (jobs[j].status = "RUNNING" => ~Exhausted(j))
  BY DEF ClaimJob, Candidates, Claimable, Waiting
<1>3. jobs[j].status = "RUNNING" => jobs[j].attempt < jobs[j].input.maxAttempts
  <2>1. jobs[j].attempt \in Nat /\ (jobs[j].status = "RUNNING" => jobs[j].input.maxAttempts \in Nat)
    BY <1>1, InputFacts DEF Row, GoodRow
  <2> QED BY <1>2, <2>1 DEF Exhausted
<1>4. GoodRow(claimed) /\ claimed.generation = jobs[j].generation + 1
  BY <1>1, <1>2, <1>3, GoodClaimed
<1>5. jobs' = [Maintained EXCEPT ![j] = claimed]
  BY DEF ClaimJob
<1>6. Maintained = [i \in JobIds |-> Maintained[i]]
  BY DEF Maintained
<1>7. jobs'[j] = claimed /\ \A i \in JobIds \ {j} : jobs'[i] = Maintained[i]
  BY <1>5, <1>6
<1> HIDE DEF claimed
<1> QED
  BY <1>4, <1>7, GoodMaintained DEF RowInv, GoodRow

\* LeaseInv survives a step that keeps the generations and gives no lease away.
LEMMA LeasesKept ==
  ASSUME TypeOK, LeaseInv, SameGenerations,
         \A r \in Runners : runner'[r].lease \in {runner[r].lease, NoLease}
  PROVE  LeaseInv'
<1>1. ASSUME NEW r \in Runners, Executing(r)'
      PROVE  /\ Executing(r) /\ runner'[r].lease = runner[r].lease
             /\ runner[r].lease.jobId \in JobIds
  BY <1>1 DEF Executing, TypeOK, RunnerState, Lease
<1> QED
  BY <1>1 DEF LeaseInv, SameGenerations

\* The invariant is kept by every step.
LEMMA StepIInv ==
  ASSUME IInv, Next
  PROVE  IInv'
<1>0. TypeOK /\ RowInv /\ LeaseInv /\ TypeOK'
  BY StepTyping DEF IInv
<1>1. ASSUME NEW k \in IdempotencyKeys, NEW input \in Inputs, Enqueue(k, input)
      PROVE  RowInv' /\ LeaseInv'
  BY <1>0, <1>1, GoodEnqueue, LeasesKept DEF Enqueue
<1>2. ASSUME NEW j \in JobIds, Cancel(j)
      PROVE  RowInv' /\ LeaseInv'
  BY <1>0, <1>2, GoodCancel, LeasesKept DEF Cancel
<1>3. ASSUME NEW r \in Runners, NEW j \in JobIds, RunNext(r, j)
      PROVE  RowInv' /\ LeaseInv'
  <2>1. WorkerId[r] \in WorkerIds
    BY RunnerAssumption
  <2>2. /\ RowInv'
        /\ jobs'[j].generation = jobs[j].generation + 1
        /\ \A i \in JobIds \ {j} : jobs'[i].generation = jobs[i].generation
    BY <1>0, <1>3, <2>1, GoodClaim DEF RunNext
  <2>3. /\ runner'[r].lease.jobId = j
        /\ runner'[r].lease.generation = jobs[j].generation + 1
        /\ \A q \in Runners \ {r} : runner'[q].lease = runner[q].lease
    BY <1>0, <1>3 DEF RunNext, TypeOK, Idle
  <2>4. \A i \in JobIds : jobs[i].generation \in Nat
    BY <1>0 DEF TypeOK, Row
  <2>5. \A q \in Runners : runner[q].lease # NoLease =>
          runner[q].lease.jobId \in JobIds /\ runner[q].lease.generation \in Nat
    BY <1>0 DEF TypeOK, RunnerState, Lease
  <2>6. LeaseInv'
    BY <1>0, <2>2, <2>3, <2>4, <2>5 DEF LeaseInv, Executing
  <2> QED BY <2>2, <2>6
<1>4. ASSUME NEW r \in Runners, PollEmpty(r)
      PROVE  RowInv' /\ LeaseInv'
  <2>1. jobs' = Maintained /\ runner' = runner
    BY <1>4 DEF PollEmpty, ClaimNothing
  <2>2. RowInv' /\ SameGenerations
    BY <1>0, <2>1, GoodMaintained DEF RowInv, GoodRow, SameGenerations
  <2> QED BY <1>0, <2>1, <2>2, LeasesKept
<1>5. ASSUME NEW r \in Runners, Heartbeat(r)
      PROVE  RowInv' /\ LeaseInv'
  <2>1. runner[r].lease \in Lease
    BY <1>0, <1>5 DEF Heartbeat, Executing, TypeOK, RunnerState
  <2>2. RowInv' /\ SameGenerations
    <3>1. CASE HeartbeatJob(runner[r].lease)
      BY <1>0, <2>1, <3>1, GoodHeartbeat
    <3>2. CASE UNCHANGED storeVars
      BY <1>0, <3>2 DEF storeVars, RowInv, GoodRow, SameGenerations
    <3> QED BY <1>5, <3>1, <3>2 DEF Heartbeat
  <2>3. \A q \in Runners : runner'[q].lease = runner[q].lease
    <3>1. PICK b : runner' = [runner EXCEPT ![r].beat = b]
      BY <1>5 DEF Heartbeat
    <3> QED BY <1>0, <3>1 DEF TypeOK, RunnerState
  <2> QED BY <1>0, <2>2, <2>3, LeasesKept
<1>6. ASSUME NEW r \in Runners, HeartbeatAnswered(r) \/ Timeout(r) \/ Abandon(r)
      PROVE  RowInv' /\ LeaseInv'
  <2>1. RowInv' /\ SameGenerations
    BY <1>0, <1>6 DEF HeartbeatAnswered, Timeout, Abandon, storeVars, RowInv, GoodRow, SameGenerations
  <2>2. \A q \in Runners : runner'[q].lease \in {runner[q].lease, NoLease}
    <3>1. CASE HeartbeatAnswered(r)
      <4>1. PICK c, f : runner' = [runner EXCEPT ![r] = [runner[r] EXCEPT !.beat = "NONE",
                                     !.cancellationObserved = c, !.heartbeatFailure = f]]
        BY <3>1 DEF HeartbeatAnswered
      <4> QED BY <1>0, <4>1 DEF TypeOK, RunnerState
    <3>2. CASE Timeout(r)
      BY <1>0, <3>2 DEF Timeout, TypeOK, RunnerState
    <3>3. CASE Abandon(r)
      BY <1>0, <3>3 DEF Abandon, TypeOK, Idle
    <3> QED BY <1>6, <3>1, <3>2, <3>3
  <2> QED BY <1>0, <2>1, <2>2, LeasesKept
<1>7. ASSUME NEW r \in Runners, NEW result \in HandlerResults, HandlerDone(r, result)
      PROVE  RowInv' /\ LeaseInv'
  <2>1. runner[r].lease \in Lease
    BY <1>0, <1>7 DEF HandlerDone, Executing, TypeOK, RunnerState
  <2>2. RowInv' /\ SameGenerations
    BY <1>0, <1>7, <2>1, GoodSettle DEF HandlerDone
  <2>3. \A q \in Runners : runner'[q].lease \in {runner[q].lease, NoLease}
    BY <1>0, <1>7 DEF HandlerDone, TypeOK, Idle
  <2> QED BY <1>0, <2>2, <2>3, LeasesKept
<1>8. ASSUME Tick
      PROVE  RowInv' /\ LeaseInv'
  <2>1. RowInv' /\ SameGenerations
    BY <1>0, <1>8, GoodAge DEF Tick
  <2>2. \A q \in Runners : runner'[q].lease = runner[q].lease
    BY <1>0, <1>8 DEF Tick, TypeOK, RunnerState
  <2> QED BY <1>0, <2>1, <2>2, LeasesKept
<1>9. RowInv' /\ LeaseInv'
  BY <1>1, <1>2, <1>3, <1>4, <1>5, <1>6, <1>7, <1>8 DEF Next
<1> QED
  BY <1>0, <1>9 DEF IInv

\* The invariant holds in every state of every behaviour.
THEOREM Invariant == Spec => []IInv
<1>1. Init => IInv
  <2>1. AbsentRow \in Row /\ Idle \in RunnerState /\ GoodRow(AbsentRow)
    BY DEF AbsentRow, Row, Status, Idle, RunnerState, Beats, GoodRow, Active, Waiting
  <2> QED BY <2>1 DEF Init, StoreInit, IInv, TypeOK, RowInv, LeaseInv, Executing, Idle
<1>2. IInv /\ UNCHANGED vars => IInv'
  BY DEF IInv, TypeOK, RowInv, GoodRow, LeaseInv, Executing, vars
<1> QED
  BY <1>1, <1>2, StepIInv, PTL DEF Spec

\* Every row the store writes can be read back by decodeJobRow, for any number of
\* runners and attempts.
THEOREM RowsDecode == Spec => []RowDecodes
<1>1. IInv => RowDecodes
  BY DEF IInv, RowInv, GoodRow, RowDecodes
<1> QED BY <1>1, Invariant, PTL

\* Fencing: at most one runner holds a lease the store accepts, whatever worker
\* identities the runners share (#requireValidLease).
THEOREM Fencing == Spec => []OneValidLease
<1>1. IInv => OneValidLease
  BY DEF IInv, LeaseInv, OneValidLease, ValidLease
<1> QED BY <1>1, Invariant, PTL

\* A SUCCEEDED job carries the result of its newest claim (settleJobSuccess).
THEOREM NewestResult == Spec => []ResultOfNewestClaim
<1>1. IInv => ResultOfNewestClaim
  BY DEF IInv, RowInv, GoodRow, ResultOfNewestClaim
<1> QED BY <1>1, Invariant, PTL

-----------------------------------------------------------------------------
(* The event table *)

\* The newest event of a job agrees with a row.
Agrees(events, row) ==
  IF events = <<>> THEN row.status = "ABSENT"
  ELSE LET last == events[Len(events)]
       IN last.status = row.status /\ last.generation = row.generation

\* An event that is appended is the newest one.
LEMMA AppendedAgrees ==
  ASSUME NEW events \in Seq(JobEvent), NEW e \in JobEvent, NEW row,
         e.status = row.status, e.generation = row.generation
  PROVE  Agrees(Append(events, e), row)
<1>1. /\ Append(events, e) # <<>>
      /\ Append(events, e)[Len(Append(events, e))] = e
  OBVIOUS
<1> QED BY <1>1 DEF Agrees

\* A row that changes together with its event (WriteJob).
LEMMA WriteAgrees ==
  ASSUME TypeOK, LastEventAgrees, NEW j \in JobIds, NEW row, NEW e \in JobEvent,
         e.status = row.status, e.generation = row.generation, WriteJob(j, row, e)
  PROVE  LastEventAgrees'
<1>1. ASSUME NEW i \in JobIds
      PROVE  Agrees(jobEvents'[i], jobs'[i])
  <2>1. CASE i = j
    <3>1. jobEvents'[i] = Append(jobEvents[i], e) /\ jobs'[i] = row
      BY <2>1 DEF WriteJob, AppendJobEvents, TypeOK
    <3>2. jobEvents[i] \in Seq(JobEvent)
      BY DEF TypeOK
    <3> QED BY <3>1, <3>2, AppendedAgrees
  <2>2. CASE i # j
    <3>1. jobEvents'[i] = jobEvents[i] /\ jobs'[i] = jobs[i]
      BY <2>2 DEF WriteJob, AppendJobEvents, TypeOK
    <3> QED BY <3>1 DEF LastEventAgrees, Agrees
  <2> QED BY <2>1, <2>2
<1> QED BY <1>1 DEF LastEventAgrees, Agrees

\* A released row agrees with the event of its new status.
LEMMA ReleaseAgrees ==
  ASSUME TypeOK, LastEventAgrees, NEW j \in JobIds, NEW s \in Status, NEW t \in EventTypes,
         NEW row, row.status = s, row.generation = jobs[j].generation,
         WriteJob(j, row, Event(t, s, jobs[j].generation))
  PROVE  LastEventAgrees'
<1>1. jobs[j].generation \in Nat
  BY DEF TypeOK, Row
<1>2. Event(t, s, jobs[j].generation) \in JobEvent
  BY <1>1, EventTyping
<1>3. /\ Event(t, s, jobs[j].generation).status = s
      /\ Event(t, s, jobs[j].generation).generation = jobs[j].generation
  BY DEF Event
<1> QED BY <1>2, <1>3, WriteAgrees

\* Maintenance reports each row it touches with the status it gave it.
LEMMA MaintenanceAgrees ==
  ASSUME TypeOK, NEW j \in ExhaustedJobs \cup AbandonedJobs
  PROVE  /\ j \in JobIds
         /\ MaintenanceEvents[j] \in JobEvent
         /\ MaintenanceEvents[j].status = Maintained[j].status
         /\ MaintenanceEvents[j].generation = Maintained[j].generation
<1>1. j \in JobIds /\ jobs[j] \in Row
  BY DEF ExhaustedJobs, AbandonedJobs, TypeOK
<1>2. MaintenanceEvents[j] \in JobEvent
  BY MaintenanceTyping DEF TypeOK, StoreTypeOK
<1>3. CASE j \in ExhaustedJobs
  BY <1>1, <1>2, <1>3 DEF MaintenanceEvents, Maintained, Event, Released, Row
<1>4. CASE j \notin ExhaustedJobs
  BY <1>1, <1>2, <1>4 DEF MaintenanceEvents, Maintained, Event, Released, Row
<1> QED BY <1>1, <1>2, <1>3, <1>4

\* claimJob appends one event to each job it maintains and to the one it claims.
LEMMA ClaimAgrees ==
  ASSUME TypeOK, LastEventAgrees, NEW w \in WorkerIds, NEW j \in JobIds, ClaimJob(w, j)
  PROVE  LastEventAgrees'
<1> DEFINE generation == jobs[j].generation + 1
           type == IF jobs[j].status = "RUNNING" THEN "job.reclaimed" ELSE "job.claimed"
           claimed == Claimed(jobs[j], w, jobs[j].attempt + 1, generation)
           S == ExhaustedJobs \cup AbandonedJobs \cup {j}
           new == [i \in S |-> IF i = j THEN Event(type, "RUNNING", generation)
                               ELSE MaintenanceEvents[i]]
<1>1. jobs' = [Maintained EXCEPT ![j] = claimed] /\ AppendJobEvents(new)
  BY DEF ClaimJob
<1>2. jobEvents' = [i \in JobIds |-> IF i \in S THEN Append(jobEvents[i], new[i]) ELSE jobEvents[i]]
  BY <1>1 DEF AppendJobEvents
<1>3. Maintained = [i \in JobIds |-> Maintained[i]]
  BY DEF Maintained
<1>4. jobs'[j] = claimed /\ \A i \in JobIds \ {j} : jobs'[i] = Maintained[i]
  BY <1>1, <1>3
<1>5. jobs[j] \in Row /\ generation \in Nat
  BY DEF TypeOK, Row
<1>6. ASSUME NEW i \in JobIds
      PROVE  Agrees(jobEvents'[i], jobs'[i])
  <2>0. jobEvents[i] \in Seq(JobEvent)
    BY DEF TypeOK
  <2>1. CASE i = j
    <3>1. /\ Event(type, "RUNNING", generation) \in JobEvent
          /\ Event(type, "RUNNING", generation).status = "RUNNING"
          /\ Event(type, "RUNNING", generation).generation = generation
      BY <1>5, EventTyping DEF Event, EventTypes, Status, Active
    <3>2. claimed.status = "RUNNING" /\ claimed.generation = generation
      BY <1>5 DEF Claimed, Row
    <3>3. jobEvents'[i] = Append(jobEvents[i], Event(type, "RUNNING", generation))
          /\ jobs'[i] = claimed
      BY <1>2, <1>4, <2>1
    <3> HIDE DEF claimed, generation, type
    <3> QED BY <2>0, <3>1, <3>2, <3>3, AppendedAgrees
  <2>2. CASE i # j /\ i \in ExhaustedJobs \cup AbandonedJobs
    <3>1. jobEvents'[i] = Append(jobEvents[i], MaintenanceEvents[i]) /\ jobs'[i] = Maintained[i]
      BY <1>2, <1>4, <2>2
    <3> QED BY <2>0, <2>2, <3>1, MaintenanceAgrees, AppendedAgrees
  <2>3. CASE i \notin S
    <3>1. jobEvents'[i] = jobEvents[i] /\ jobs'[i] = jobs[i]
      BY <1>2, <1>4, <2>3 DEF Maintained
    <3> QED BY <3>1 DEF LastEventAgrees, Agrees
  <2> QED BY <2>1, <2>2, <2>3
<1> QED BY <1>6 DEF LastEventAgrees, Agrees

\* claimJob that finds nothing to claim.
LEMMA ClaimNothingAgrees ==
  ASSUME TypeOK, LastEventAgrees, ClaimNothing
  PROVE  LastEventAgrees'
<1> DEFINE S == ExhaustedJobs \cup AbandonedJobs
<1>1. DOMAIN MaintenanceEvents = S
  BY DEF MaintenanceEvents
<1>2. /\ jobs' = Maintained
      /\ jobEvents' = [i \in JobIds |-> IF i \in S THEN Append(jobEvents[i], MaintenanceEvents[i])
                                        ELSE jobEvents[i]]
  BY <1>1 DEF ClaimNothing, AppendJobEvents
<1>3. ASSUME NEW i \in JobIds
      PROVE  Agrees(jobEvents'[i], jobs'[i])
  <2>1. CASE i \in S
    <3>1. jobEvents'[i] = Append(jobEvents[i], MaintenanceEvents[i]) /\ jobs'[i] = Maintained[i]
          /\ jobEvents[i] \in Seq(JobEvent)
      BY <1>2, <2>1 DEF TypeOK
    <3> QED BY <2>1, <3>1, MaintenanceAgrees, AppendedAgrees
  <2>2. CASE i \notin S
    <3>1. jobEvents'[i] = jobEvents[i] /\ jobs'[i] = jobs[i]
      BY <1>2, <2>2 DEF Maintained
    <3> QED BY <3>1 DEF LastEventAgrees, Agrees
  <2> QED BY <2>1, <2>2
<1> QED BY <1>3 DEF LastEventAgrees, Agrees

\* The settlements and the cancellation.
LEMMA SettleAgrees ==
  ASSUME TypeOK, LastEventAgrees, NEW l \in Lease, NEW result, Settle(l, result)
  PROVE  LastEventAgrees'
<1> DEFINE j == l.jobId
<1>1. j \in JobIds /\ jobs[j] \in Row /\ l.generation = jobs[j].generation
  BY DEF TypeOK, Lease, Settle, SettleJobSuccess, SettleJobRetry, SettleJobBlocked,
         SettleJobCancelled, ValidLease
<1>2. ASSUME NEW s \in Status
      PROVE  Released(jobs[j], s).status = s /\ Released(jobs[j], s).generation = jobs[j].generation
  BY <1>1 DEF Released, Row
<1>3. {"SUCCEEDED", "BLOCKED", "CANCELLED", "RETRY_WAIT"} \subseteq Status
      /\ {"job.succeeded", "job.blocked", "job.cancelled", "job.retry_scheduled"} \subseteq EventTypes
  BY DEF Status, Terminal, Waiting, EventTypes
<1>4. ASSUME CancelRunningJob(j) \/ BlockRunningJob(j)
      PROVE  LastEventAgrees'
  BY <1>1, <1>2, <1>3, <1>4, ReleaseAgrees DEF CancelRunningJob, BlockRunningJob
<1>5. ASSUME WriteJob(j, [Released(jobs[j], "SUCCEEDED") EXCEPT !.result = l.generation],
                      Event("job.succeeded", "SUCCEEDED", l.generation))
      PROVE  LastEventAgrees'
  <2> DEFINE row == [Released(jobs[j], "SUCCEEDED") EXCEPT !.result = l.generation]
  <2>1. row.status = "SUCCEEDED" /\ row.generation = jobs[j].generation
    BY <1>1 DEF Released, Row
  <2>2. WriteJob(j, row, Event("job.succeeded", "SUCCEEDED", jobs[j].generation))
    BY <1>1, <1>5
  <2> HIDE DEF row
  <2> QED BY <1>1, <1>3, <2>1, <2>2, ReleaseAgrees
<1>6. ASSUME NEW delay,
             WriteJob(j, [Released(jobs[j], "RETRY_WAIT") EXCEPT !.availableIn = delay],
                      Event("job.retry_scheduled", "RETRY_WAIT", l.generation))
      PROVE  LastEventAgrees'
  <2> DEFINE row == [Released(jobs[j], "RETRY_WAIT") EXCEPT !.availableIn = delay]
  <2>1. row.status = "RETRY_WAIT" /\ row.generation = jobs[j].generation
    BY <1>1 DEF Released, Row
  <2>2. WriteJob(j, row, Event("job.retry_scheduled", "RETRY_WAIT", jobs[j].generation))
    BY <1>1, <1>6
  <2> HIDE DEF row
  <2> QED BY <1>1, <1>3, <2>1, <2>2, ReleaseAgrees
<1> QED
  BY <1>4, <1>5, <1>6 DEF Settle, SettleJobSuccess, SettleJobRetry, SettleJobBlocked, SettleJobCancelled

\* The operations on one row that producers and heartbeats make.
LEMMA CancelAgrees ==
  ASSUME TypeOK, LastEventAgrees, NEW j \in JobIds, CancelJob(j)
  PROVE  LastEventAgrees'
<1>1. jobs[j] \in Row
  BY DEF TypeOK
<1>2. ASSUME NEW s \in Status, NEW t \in EventTypes,
             WriteJob(j, [jobs[j] EXCEPT !.status = s], Event(t, s, jobs[j].generation))
      PROVE  LastEventAgrees'
  <2> DEFINE row == [jobs[j] EXCEPT !.status = s]
  <2>1. row.status = s /\ row.generation = jobs[j].generation
    BY <1>1 DEF Row
  <2> HIDE DEF row
  <2> QED BY <1>2, <2>1, ReleaseAgrees DEF row
<1> QED
  BY <1>2 DEF CancelJob, Status, Active, Terminal, EventTypes

\* A heartbeat is reported with the status the row keeps.
LEMMA HeartbeatAgrees ==
  ASSUME TypeOK, LastEventAgrees, NEW l \in Lease, HeartbeatJob(l)
  PROVE  LastEventAgrees'
<1> DEFINE j == l.jobId
           row == [jobs[j] EXCEPT !.leaseIn = LeaseMs]
<1>1. j \in JobIds /\ jobs[j] \in Row /\ l.generation = jobs[j].generation
      /\ jobs[j].status = "RUNNING"
  BY DEF TypeOK, Lease, HeartbeatJob, ValidLease
<1>2. row.status = "RUNNING" /\ row.generation = jobs[j].generation
  BY <1>1 DEF Row
<1>3. WriteJob(j, row, Event("job.heartbeat", "RUNNING", jobs[j].generation))
  BY <1>1 DEF HeartbeatJob
<1>4. "RUNNING" \in Status /\ "job.heartbeat" \in EventTypes
  BY DEF Status, Active, EventTypes
<1> HIDE DEF row
<1> QED BY <1>1, <1>2, <1>3, <1>4, ReleaseAgrees

\* An enqueued job starts with the event that reports it.
LEMMA EnqueueAgrees ==
  ASSUME TypeOK, LastEventAgrees, NEW k \in IdempotencyKeys, NEW input \in Inputs,
         EnqueueJob(k, input)
  PROVE  LastEventAgrees'
<1> DEFINE j == input.jobId
           row == [AbsentRow EXCEPT !.status = "PENDING", !.input = input,
                                    !.availableIn = input.delay]
           e == Event("job.enqueued", "PENDING", 0)
<1>1. CASE UNCHANGED <<jobs, jobEvents, eventCount>>
  BY <1>1 DEF LastEventAgrees
<1>2. CASE WriteJob(j, row, e)
  <2>1. row.status = "PENDING" /\ row.generation = 0
    BY DEF AbsentRow
  <2>2. e \in JobEvent /\ e.status = "PENDING" /\ e.generation = 0
    BY EventTyping DEF Event, EventTypes, Status, Waiting
  <2>3. j \in JobIds
    BY InputFacts
  <2> HIDE DEF row, e
  <2> QED BY <1>2, <2>1, <2>2, <2>3, WriteAgrees
<1> QED BY <1>1, <1>2 DEF EnqueueJob

\* Time changes no status and no generation.
LEMMA AgeAgrees ==
  ASSUME TypeOK, LastEventAgrees, AgeRows, UNCHANGED jobEvents
  PROVE  LastEventAgrees'
<1>1. ASSUME NEW i \in JobIds
      PROVE  jobs'[i].status = jobs[i].status /\ jobs'[i].generation = jobs[i].generation
  <2>1. jobs[i] \in Row
    BY DEF TypeOK
  <2>2. PICK a, b : jobs'[i] = [jobs[i] EXCEPT !.leaseIn = a, !.availableIn = b]
    BY DEF AgeRows
  <2> QED BY <2>1, <2>2 DEF Row
<1> QED BY <1>1 DEF LastEventAgrees

\* The job_events table tells the truth about the jobs table, for any number of
\* jobs, runners and events (#appendJobEvent in every operation).
THEOREM EventsTellTheTruth == Spec => []LastEventAgrees
<1>1. Init => LastEventAgrees
  BY DEF Init, StoreInit, LastEventAgrees, AbsentRow
<1>2. ASSUME TypeOK, LastEventAgrees, Next
      PROVE  LastEventAgrees'
  <2>1. ASSUME UNCHANGED storeVars
        PROVE  LastEventAgrees'
    BY <1>2, <2>1 DEF storeVars, LastEventAgrees
  <2>2. ASSUME NEW r \in Runners, NEW j \in JobIds, RunNext(r, j)
        PROVE  LastEventAgrees'
    BY <1>2, <2>2, ClaimAgrees, RunnerAssumption DEF RunNext
  <2>3. ASSUME NEW r \in Runners, Heartbeat(r)
        PROVE  LastEventAgrees'
    <3>1. runner[r].lease \in Lease
      BY <1>2, <2>3 DEF Heartbeat, Executing, TypeOK, RunnerState
    <3> QED BY <1>2, <2>1, <2>3, <3>1, HeartbeatAgrees DEF Heartbeat
  <2>4. ASSUME NEW r \in Runners, NEW result \in HandlerResults, HandlerDone(r, result)
        PROVE  LastEventAgrees'
    <3>1. runner[r].lease \in Lease
      BY <1>2, <2>4 DEF HandlerDone, Executing, TypeOK, RunnerState
    <3> QED BY <1>2, <2>4, <3>1, SettleAgrees DEF HandlerDone
  <2>5. ASSUME NEW r \in Runners,
               PollEmpty(r) \/ HeartbeatAnswered(r) \/ Timeout(r) \/ Abandon(r)
        PROVE  LastEventAgrees'
    BY <1>2, <2>1, <2>5, ClaimNothingAgrees DEF PollEmpty, HeartbeatAnswered, Timeout, Abandon
  <2>6. ASSUME NEW k \in IdempotencyKeys, NEW input \in Inputs, Enqueue(k, input)
        PROVE  LastEventAgrees'
    BY <1>2, <2>6, EnqueueAgrees DEF Enqueue
  <2>7. ASSUME NEW j \in JobIds, Cancel(j)
        PROVE  LastEventAgrees'
    BY <1>2, <2>7, CancelAgrees DEF Cancel
  <2>8. CASE Tick
    BY <1>2, <2>8, AgeAgrees DEF Tick
  <2> QED
    BY <1>2, <2>2, <2>3, <2>4, <2>5, <2>6, <2>7, <2>8 DEF Next
<1>3. LastEventAgrees /\ UNCHANGED vars => LastEventAgrees'
  BY DEF LastEventAgrees, vars
<1> QED
  BY <1>1, <1>2, <1>3, TypeCorrect, PTL DEF Spec

\* Rows decode, the event table agrees with them and all types are kept, for any
\* number of jobs, keys and runners (decodeJobRow, #appendJobEvent).
THEOREM RowsHold == Spec => []RowsSound
<1>1. TypeOK /\ RowDecodes /\ LastEventAgrees => RowsSound
  BY DEF RowsSound
<1> QED BY <1>1, TypeCorrect, RowsDecode, EventsTellTheTruth, PTL

\* At most one runner holds a lease the store accepts, and a succeeded job carries the
\* result of its newest claim (#requireValidLease, settleJobSuccess).
THEOREM FenceHolds == Spec => []Fenced
<1>1. OneValidLease /\ ResultOfNewestClaim => Fenced
  BY DEF Fenced
<1> QED BY <1>1, Fencing, NewestResult, PTL

-----------------------------------------------------------------------------
(* Idempotency keys *)

\* The input of a stored job never changes (enqueue_fingerprint, priority, max_attempts).
SameInputs == \A i \in JobIds : jobs'[i].input = jobs[i].input

\* Writing one row that keeps its input.
LEMMA WriteSameInputs ==
  ASSUME TypeOK, NEW j \in JobIds, NEW row, NEW e, WriteJob(j, row, e), row.input = jobs[j].input
  PROVE  SameInputs
BY DEF TypeOK, WriteJob, SameInputs

\* Releasing a row keeps its input.
LEMMA ReleasedInput ==
  ASSUME NEW row \in Row, NEW s PROVE Released(row, s).input = row.input
BY DEF Released, Row

\* Maintenance keeps every input.
LEMMA MaintainedInput ==
  ASSUME TypeOK, NEW j \in JobIds PROVE Maintained[j].input = jobs[j].input
<1>1. jobs[j] \in Row
  BY DEF TypeOK
<1> QED BY <1>1, ReleasedInput DEF Maintained

\* Settling, whatever the outcome, keeps every input.
LEMMA SettleInputs ==
  ASSUME TypeOK, NEW l \in Lease, NEW result, Settle(l, result)
  PROVE  SameInputs /\ UNCHANGED jobIdempotency
<1> DEFINE j == l.jobId
<1>1. j \in JobIds /\ jobs[j] \in Row
  BY DEF Lease, TypeOK
<1>2. UNCHANGED jobIdempotency
  BY DEF Settle, SettleJobSuccess, SettleJobRetry, SettleJobBlocked, SettleJobCancelled
<1>3. CASE CancelRunningJob(j)
  BY <1>1, <1>2, <1>3, ReleasedInput, WriteSameInputs DEF CancelRunningJob
<1>4. CASE BlockRunningJob(j)
  BY <1>1, <1>2, <1>4, ReleasedInput, WriteSameInputs DEF BlockRunningJob
<1>5. ASSUME NEW s, NEW g, NEW e, WriteJob(j, [Released(jobs[j], s) EXCEPT !.result = g], e)
      PROVE  SameInputs
  <2>1. [Released(jobs[j], s) EXCEPT !.result = g].input = jobs[j].input
    BY <1>1 DEF Released, Row
  <2> QED BY <1>1, <1>5, <2>1, WriteSameInputs
<1>6. ASSUME NEW s, NEW d, NEW e, WriteJob(j, [Released(jobs[j], s) EXCEPT !.availableIn = d], e)
      PROVE  SameInputs
  <2>1. [Released(jobs[j], s) EXCEPT !.availableIn = d].input = jobs[j].input
    BY <1>1 DEF Released, Row
  <2> QED BY <1>1, <1>6, <2>1, WriteSameInputs
<1>7. CASE SettleJobSuccess(l)
  <2>1. \/ CancelRunningJob(j)
        \/ WriteJob(j, [Released(jobs[j], "SUCCEEDED") EXCEPT !.result = l.generation],
                    Event("job.succeeded", "SUCCEEDED", l.generation))
    BY <1>7 DEF SettleJobSuccess
  <2> QED BY <1>2, <1>3, <1>5, <2>1
<1>8. CASE SettleJobRetry(l, result.delay)
  <2>1. \/ CancelRunningJob(j) \/ BlockRunningJob(j)
        \/ WriteJob(j, [Released(jobs[j], "RETRY_WAIT") EXCEPT !.availableIn = result.delay],
                    Event("job.retry_scheduled", "RETRY_WAIT", l.generation))
    BY <1>8 DEF SettleJobRetry
  <2> QED BY <1>2, <1>3, <1>4, <1>6, <2>1
<1>9. CASE SettleJobBlocked(l)
  BY <1>3, <1>4, <1>9 DEF SettleJobBlocked
<1>10. CASE SettleJobCancelled(l)
  BY <1>3, <1>10 DEF SettleJobCancelled
<1> QED BY <1>2, <1>7, <1>8, <1>9, <1>10 DEF Settle

\* No operation but enqueueJob touches an input or a key.
LEMMA InputsKept ==
  ASSUME IInv, Next, ~\E k \in IdempotencyKeys, input \in Inputs : Enqueue(k, input)
  PROVE  SameInputs /\ UNCHANGED jobIdempotency
<1>0. TypeOK
  BY DEF IInv
<1>1. ASSUME UNCHANGED storeVars PROVE SameInputs /\ UNCHANGED jobIdempotency
  BY <1>1 DEF storeVars, SameInputs
<1>2. ASSUME NEW j \in JobIds, Cancel(j) PROVE SameInputs /\ UNCHANGED jobIdempotency
  <2>1. jobs[j] \in Row
    BY <1>0 DEF TypeOK
  <2>2. \A s : [jobs[j] EXCEPT !.status = s].input = jobs[j].input
    BY <2>1 DEF Row
  <2> QED BY <1>0, <1>2, <2>2, WriteSameInputs DEF Cancel, CancelJob
<1>3. ASSUME NEW r \in Runners, NEW j \in JobIds, RunNext(r, j) PROVE SameInputs /\ UNCHANGED jobIdempotency
  <2> DEFINE new == Claimed(jobs[j], WorkerId[r], jobs[j].attempt + 1, jobs[j].generation + 1)
  <2>1. new.input = jobs[j].input
    BY <1>0 DEF Claimed, Row, TypeOK
  <2>2. jobs' = [Maintained EXCEPT ![j] = new] /\ UNCHANGED jobIdempotency
    BY <1>3 DEF RunNext, ClaimJob
  <2> HIDE DEF new
  <2>3. \A i \in JobIds : jobs'[i] = IF i = j THEN new ELSE Maintained[i]
    BY <2>2 DEF Maintained
  <2> QED BY <1>0, <2>1, <2>2, <2>3, MaintainedInput DEF SameInputs
<1>4. ASSUME NEW r \in Runners, PollEmpty(r) PROVE SameInputs /\ UNCHANGED jobIdempotency
  BY <1>0, <1>4, MaintainedInput DEF PollEmpty, ClaimNothing, SameInputs
<1>5. ASSUME NEW r \in Runners, Heartbeat(r) PROVE SameInputs /\ UNCHANGED jobIdempotency
  <2>1. runner[r].lease \in Lease
    BY <1>0, <1>5 DEF Heartbeat, Executing, TypeOK, RunnerState
  <2>2. CASE HeartbeatJob(runner[r].lease)
    <3> DEFINE j == runner[r].lease.jobId
    <3>1. j \in JobIds /\ jobs[j] \in Row
      BY <1>0, <2>1 DEF Lease, TypeOK
    <3>2. [jobs[j] EXCEPT !.leaseIn = LeaseMs].input = jobs[j].input
      BY <3>1 DEF Row
    <3> QED BY <1>0, <2>2, <3>1, <3>2, WriteSameInputs DEF HeartbeatJob
  <2> QED BY <1>1, <1>5, <2>2 DEF Heartbeat
<1>6. ASSUME NEW r \in Runners, NEW result \in HandlerResults, HandlerDone(r, result)
      PROVE  SameInputs /\ UNCHANGED jobIdempotency
  <2>1. runner[r].lease \in Lease
    BY <1>0, <1>6 DEF HandlerDone, Executing, TypeOK, RunnerState
  <2> QED BY <1>0, <1>6, <2>1, SettleInputs DEF HandlerDone
<1>7. ASSUME NEW r \in Runners, HeartbeatAnswered(r) \/ Timeout(r) \/ Abandon(r)
      PROVE  SameInputs /\ UNCHANGED jobIdempotency
  BY <1>1, <1>7 DEF HeartbeatAnswered, Timeout, Abandon
<1>8. CASE Tick
  <2>1. ASSUME NEW i \in JobIds PROVE jobs'[i].input = jobs[i].input
    <3>1. jobs[i] \in Row
      BY <1>0 DEF TypeOK
    <3>2. PICK a, b : jobs'[i] = [jobs[i] EXCEPT !.leaseIn = a, !.availableIn = b]
      BY <1>8 DEF Tick, AgeRows
    <3> QED BY <3>1, <3>2 DEF Row
  <2> QED BY <1>8, <2>1 DEF Tick, SameInputs
<1> QED BY <1>2, <1>3, <1>4, <1>5, <1>6, <1>7, <1>8 DEF Next

\* enqueueJob binds a fresh key to a row that has, or now gets, exactly its input.
LEMMA EnqueueBinds ==
  ASSUME IInv, KeysNameJobs, NEW k \in IdempotencyKeys, NEW input \in Inputs, Enqueue(k, input)
  PROVE  KeysNameJobs'
<1> DEFINE j == input.jobId
<1>0. j \in JobIds /\ input # NoInput /\ TypeOK /\ RowInv
  BY InputFacts DEF IInv
<1>1. /\ jobIdempotency' = [jobIdempotency EXCEPT ![k] = input] /\ jobIdempotency[k] = NoInput
  BY DEF Enqueue, EnqueueJob
<1>2. \A i \in IdempotencyKeys : jobIdempotency'[i] = IF i = k THEN input ELSE jobIdempotency[i]
  BY <1>0, <1>1 DEF TypeOK
<1>3. \A i \in IdempotencyKeys : jobIdempotency[i] # NoInput => jobIdempotency[i].jobId \in JobIds
  BY <1>0, InputFacts DEF TypeOK
<1>4. CASE jobs[j].input = input /\ UNCHANGED jobs
  <2>1. ASSUME NEW i \in Stored' PROVE \E l \in IdempotencyKeys : jobIdempotency'[l] = jobs'[i].input
    <3>1. i \in JobIds /\ i \in Stored
      BY <1>4 DEF Stored
    <3>2. jobs[i].input # NoInput
      BY <1>0, <3>1, StoreAssumption DEF RowInv, GoodRow, Stored
    <3>3. PICK l \in IdempotencyKeys : jobIdempotency[l] = jobs[i].input
      BY <3>1 DEF KeysNameJobs
    <3>4. l # k
      BY <1>1, <3>2, <3>3
    <3> QED BY <1>2, <1>4, <3>3, <3>4
  <2>2. \A i \in IdempotencyKeys : jobIdempotency'[i] # NoInput =>
          jobs'[jobIdempotency'[i].jobId].input = jobIdempotency'[i]
    BY <1>2, <1>4 DEF KeysNameJobs
  <2> QED BY <2>1, <2>2 DEF KeysNameJobs
<1>5. CASE j \notin Stored /\ jobs' = [jobs EXCEPT ![j] = [AbsentRow EXCEPT !.status = "PENDING", !.input = input,
                                                                            !.availableIn = input.delay]]
  <2>1. jobs[j].input = NoInput
    BY <1>0, <1>5 DEF RowInv, GoodRow, Stored
  <2>2. jobs'[j].input = input /\ \A i \in JobIds : i # j => jobs'[i] = jobs[i]
    BY <1>0, <1>5 DEF TypeOK, AbsentRow
  <2>3. ASSUME NEW i \in IdempotencyKeys, jobIdempotency'[i] # NoInput
        PROVE  jobs'[jobIdempotency'[i].jobId].input = jobIdempotency'[i]
    <3>1. CASE i = k
      BY <1>2, <2>2, <3>1
    <3>2. CASE i # k
      <4>1. jobIdempotency'[i] = jobIdempotency[i] /\ jobs[jobIdempotency[i].jobId].input = jobIdempotency[i]
        BY <1>2, <2>3, <3>2 DEF KeysNameJobs
      <4>2. jobIdempotency[i].jobId # j
        BY <2>1, <2>3, <4>1
      <4> QED BY <1>3, <2>2, <2>3, <4>1, <4>2
    <3> QED BY <3>1, <3>2
  <2>4. ASSUME NEW i \in Stored' PROVE \E l \in IdempotencyKeys : jobIdempotency'[l] = jobs'[i].input
    <3>1. CASE i = j
      BY <1>2, <2>2, <3>1
    <3>2. CASE i # j
      <4>1. i \in JobIds /\ i \in Stored /\ jobs'[i] = jobs[i]
        BY <2>2, <3>2 DEF Stored
      <4>2. jobs[i].input # NoInput
        BY <1>0, <4>1, StoreAssumption DEF RowInv, GoodRow, Stored
      <4>3. PICK l \in IdempotencyKeys : jobIdempotency[l] = jobs[i].input
        BY <4>1 DEF KeysNameJobs
      <4> QED BY <1>1, <1>2, <4>1, <4>2, <4>3
    <3> QED BY <3>1, <3>2
  <2> QED BY <2>3, <2>4 DEF KeysNameJobs
<1> QED BY <1>4, <1>5 DEF Enqueue, EnqueueJob, WriteJob

\* An accepted key names the stored job with exactly the input it was sent with, through every claim,
\* settlement, cancellation and retry of the enqueue, and every job has such a key (enqueueJob).
THEOREM KeysHold == Spec => []KeysNameJobs
<1>1. Init => KeysNameJobs
  BY DEF Init, StoreInit, KeysNameJobs, Stored, AbsentRow
<1>2. ASSUME IInv, IInv', KeysNameJobs, SameInputs, UNCHANGED jobIdempotency PROVE KeysNameJobs'
  <2>1. \A j \in JobIds : j \in Stored' => j \in Stored
    BY <1>2, StoreAssumption DEF IInv, RowInv, GoodRow, SameInputs, Stored
  <2>2. \A k \in IdempotencyKeys : jobIdempotency[k] # NoInput => jobIdempotency[k].jobId \in JobIds
    BY <1>2, InputFacts DEF IInv, TypeOK
  <2>3. ASSUME NEW k \in IdempotencyKeys, jobIdempotency'[k] # NoInput
        PROVE  jobs'[jobIdempotency'[k].jobId].input = jobIdempotency'[k]
    BY <1>2, <2>2, <2>3 DEF KeysNameJobs, SameInputs
  <2>4. ASSUME NEW j \in Stored' PROVE \E k \in IdempotencyKeys : jobIdempotency'[k] = jobs'[j].input
    <3>1. j \in JobIds /\ j \in Stored
      BY <2>1 DEF Stored
    <3>2. PICK k \in IdempotencyKeys : jobIdempotency[k] = jobs[j].input
      BY <1>2, <3>1 DEF KeysNameJobs
    <3> QED BY <1>2, <3>1, <3>2 DEF SameInputs
  <2> QED BY <2>3, <2>4 DEF KeysNameJobs
<1>3. IInv /\ KeysNameJobs /\ [Next]_vars => KeysNameJobs'
  <2>1. ASSUME IInv, KeysNameJobs, UNCHANGED vars PROVE KeysNameJobs'
    BY <2>1 DEF vars, KeysNameJobs, Stored
  <2> QED BY <1>2, <2>1, StepIInv, InputsKept, EnqueueBinds
<1> QED BY <1>1, <1>3, Invariant, PTL DEF Spec

-----------------------------------------------------------------------------
(* JobRunner implements JobLifecycle for every job: each step of a runner, *)
(* a producer or a clock is, for each job, a step of the lifecycle or      *)
(* changes nothing that the lifecycle shows.  IInv bounds the attempts and *)
(* gives lease columns to active rows only.                                *)

\* What a step does to job j, as JobLifecycle sees it.
LifecycleStep(j) == [Lifecycle(j)!Next]_(Lifecycle(j)!lifecycleVars)

\* What the lifecycle shows of a good row.
LEMMA RowFacts ==
  ASSUME IInv, NEW j \in JobIds
  PROVE  /\ jobs[j] \in Row /\ GoodRow(jobs[j])
         /\ jobs[j].generation \in Nat /\ jobs[j].leaseIn \in Nat
         /\ jobs[j].attempt = jobs[j].generation
         /\ jobs[j].status \notin Active => jobs[j].leaseIn = 0
         /\ jobs[j].status # "ABSENT" =>
              /\ jobs[j].input.maxAttempts \in Nat \ {0}
              /\ jobs[j].generation <= jobs[j].input.maxAttempts
         /\ jobs[j].status \in Waiting => jobs[j].generation < jobs[j].input.maxAttempts
<1>1. jobs[j] \in Row /\ GoodRow(jobs[j])
  BY DEF IInv, TypeOK, RowInv
<1>2. jobs[j].status # "ABSENT" => jobs[j].input \in Inputs
  BY <1>1 DEF GoodRow
<1>3. jobs[j].status # "ABSENT" => jobs[j].input.maxAttempts \in Nat \ {0}
  BY <1>2, InputFacts
<1>4. jobs[j].status \in Waiting => jobs[j].status # "ABSENT"
  BY DEF Waiting
<1> QED BY <1>1, <1>3, <1>4 DEF GoodRow, Row

\* A row that keeps status, input, generation and whether it is leased.
LEMMA Unseen ==
  ASSUME NEW j \in JobIds,
         jobs'[j].status = jobs[j].status, jobs'[j].input = jobs[j].input,
         jobs'[j].generation = jobs[j].generation,
         (jobs'[j].leaseIn > 0) <=> (jobs[j].leaseIn > 0)
  PROVE  LifecycleStep(j)
<1>1. UNCHANGED Lifecycle(j)!lifecycleVars
  BY DEF Lifecycle!lifecycleVars
<1> QED BY <1>1 DEF LifecycleStep

\* A row that is released from RUNNING or CANCELLING.
LEMMA ReleaseStep ==
  ASSUME IInv, NEW j \in JobIds, NEW s,
         jobs'[j].status = s, jobs'[j].input = jobs[j].input,
         jobs'[j].generation = jobs[j].generation, jobs'[j].leaseIn = 0,
         \/ jobs[j].status = "CANCELLING" /\ s = "CANCELLED"
         \/ jobs[j].status = "RUNNING" /\ jobs[j].leaseIn > 0
              /\ \/ s \in {"SUCCEEDED", "BLOCKED", "CANCELLED"}
                 \/ s = "RETRY_WAIT" /\ ~Exhausted(j)
         \/ jobs[j].status = "RUNNING" /\ Exhausted(j) /\ s = "BLOCKED"
  PROVE  LifecycleStep(j)
<1>1. jobs[j].generation \in Nat /\ jobs[j].attempt = jobs[j].generation
      /\ (jobs[j].status # "ABSENT" => /\ jobs[j].input.maxAttempts \in Nat
                                       /\ jobs[j].generation <= jobs[j].input.maxAttempts)
  BY RowFacts
<1>2. CASE jobs[j].status = "CANCELLING" /\ s = "CANCELLED"
  <2>1. Lifecycle(j)!FinishCancel
    BY <1>2 DEF Lifecycle!FinishCancel
  <2> QED BY <2>1 DEF LifecycleStep, Lifecycle!Next
<1>3. CASE jobs[j].status = "RUNNING" /\ jobs[j].leaseIn > 0 /\ s = "SUCCEEDED"
  <2>1. Lifecycle(j)!Succeed
    BY <1>3 DEF Lifecycle!Succeed, Lifecycle!Leave
  <2> QED BY <2>1 DEF LifecycleStep, Lifecycle!Next
<1>4. CASE jobs[j].status = "RUNNING" /\ jobs[j].leaseIn > 0 /\ s = "CANCELLED"
  <2>1. Lifecycle(j)!CancelHeld
    BY <1>4 DEF Lifecycle!CancelHeld, Lifecycle!Leave
  <2> QED BY <2>1 DEF LifecycleStep, Lifecycle!Next
<1>5. CASE jobs[j].status = "RUNNING" /\ (jobs[j].leaseIn > 0 \/ Exhausted(j)) /\ s = "BLOCKED"
  <2>1. Exhausted(j) => jobs[j].generation = jobs[j].input.maxAttempts
    BY <1>1, <1>5 DEF Exhausted
  <2>2. Lifecycle(j)!Block
    BY <1>5, <2>1 DEF Lifecycle!Block, Lifecycle!Leave
  <2> QED BY <2>2 DEF LifecycleStep, Lifecycle!Next
<1>6. CASE jobs[j].status = "RUNNING" /\ jobs[j].leaseIn > 0 /\ s = "RETRY_WAIT" /\ ~Exhausted(j)
  <2>1. jobs[j].generation < jobs[j].input.maxAttempts
    BY <1>1, <1>6 DEF Exhausted
  <2>2. Lifecycle(j)!Retry
    BY <1>6, <2>1 DEF Lifecycle!Retry, Lifecycle!Leave
  <2> QED BY <2>2 DEF LifecycleStep, Lifecycle!Next
<1> QED
  BY <1>2, <1>3, <1>4, <1>5, <1>6

\* Maintenance blocks exhausted rows and finishes cancellations.
LEMMA MaintenanceStep ==
  ASSUME IInv, NEW j \in JobIds, jobs'[j] = Maintained[j]
  PROVE  LifecycleStep(j)
<1>1. jobs[j] \in Row
  BY RowFacts
<1>2. ASSUME NEW s, jobs'[j] = Released(jobs[j], s)
      PROVE  /\ jobs'[j].status = s /\ jobs'[j].input = jobs[j].input
             /\ jobs'[j].generation = jobs[j].generation /\ jobs'[j].leaseIn = 0
  BY <1>1, <1>2 DEF Released, Row
<1>3. CASE j \in ExhaustedJobs
  <2>1. jobs'[j] = Released(jobs[j], "BLOCKED") /\ jobs[j].status = "RUNNING" /\ Exhausted(j)
    BY <1>3 DEF Maintained, ExhaustedJobs
  <2> QED BY <1>2, <2>1, ReleaseStep
<1>4. CASE j \notin ExhaustedJobs /\ j \in AbandonedJobs
  <2>1. jobs'[j] = Released(jobs[j], "CANCELLED") /\ jobs[j].status = "CANCELLING"
    BY <1>4 DEF Maintained, AbandonedJobs
  <2> QED BY <1>2, <2>1, ReleaseStep
<1>5. CASE j \notin ExhaustedJobs /\ j \notin AbandonedJobs
  <2>1. jobs'[j] = jobs[j]
    BY <1>5 DEF Maintained
  <2> QED BY <2>1, Unseen
<1> QED BY <1>3, <1>4, <1>5

\* claimJob: a new generation of the claimed job, maintenance of the others.
LEMMA ClaimStep ==
  ASSUME IInv, NEW w \in WorkerIds, NEW i \in JobIds, ClaimJob(w, i), NEW j \in JobIds
  PROVE  LifecycleStep(j)
<1> DEFINE claimed == Claimed(jobs[i], w, jobs[i].attempt + 1, jobs[i].generation + 1)
<1>1. jobs' = [Maintained EXCEPT ![i] = claimed]
  BY DEF ClaimJob
<1>2. Maintained = [q \in JobIds |-> Maintained[q]]
  BY DEF Maintained
<1>3. CASE j # i
  <2>1. jobs'[j] = Maintained[j]
    BY <1>1, <1>2, <1>3
  <2> QED BY <2>1, MaintenanceStep
<1>4. CASE j = i
  <2>1. jobs'[j] = claimed
    BY <1>1, <1>2, <1>4
  <2>2. /\ jobs[j].generation \in Nat /\ jobs[j].attempt = jobs[j].generation
        /\ (jobs[j].status # "ABSENT" => jobs[j].input.maxAttempts \in Nat)
        /\ (jobs[j].status \notin Active => jobs[j].leaseIn = 0)
        /\ (jobs[j].status \in Waiting => jobs[j].generation < jobs[j].input.maxAttempts)
        /\ jobs[j] \in Row
    BY RowFacts
  <2>3. /\ claimed.status = "RUNNING" /\ claimed.generation = jobs[j].generation + 1
        /\ claimed.leaseIn = LeaseMs /\ claimed.input = jobs[j].input
    BY <1>4, <2>2 DEF Claimed, Row
  <2>4. LeaseMs > 0
    BY StoreAssumption
  <2>5. j \in Claimable
    BY <1>4 DEF ClaimJob, Candidates
  <2>6. jobs[j].status \in {"PENDING", "RETRY_WAIT", "RUNNING"}
    BY <2>5 DEF Claimable, Waiting
  <2>7. jobs[j].leaseIn = 0 /\ jobs[j].generation < jobs[j].input.maxAttempts
    BY <2>2, <2>5, <2>6 DEF Claimable, Waiting, Active, Expired, Exhausted
  <2> HIDE DEF claimed
  <2>8. Lifecycle(j)!Claim
    BY <2>1, <2>3, <2>4, <2>6, <2>7 DEF Lifecycle!Claim
  <2> QED BY <2>8 DEF LifecycleStep, Lifecycle!Next
<1> QED BY <1>3, <1>4

\* The settlements of a valid lease.
LEMMA SettleStep ==
  ASSUME IInv, NEW l \in Lease, NEW result, Settle(l, result), NEW j \in JobIds
  PROVE  LifecycleStep(j)
<1> DEFINE i == l.jobId
<1>1. i \in JobIds /\ ValidLease(l) /\ jobs[i] \in Row
  BY RowFacts DEF Lease, Settle, SettleJobSuccess, SettleJobRetry, SettleJobBlocked,
                  SettleJobCancelled
<1>2. jobs[i].leaseIn > 0 /\ jobs[i].status \in {"RUNNING", "CANCELLING"}
  BY <1>1 DEF ValidLease, Active
<1>3. ASSUME NEW row, NEW e, WriteJob(i, row, e)
      PROVE  jobs'[i] = row /\ (j # i => jobs'[j] = jobs[j])
  BY <1>1, <1>3 DEF WriteJob, IInv, TypeOK
<1>4. ASSUME NEW s, NEW row, NEW e, WriteJob(i, row, e),
             row.status = s, row.input = jobs[i].input,
             row.generation = jobs[i].generation, row.leaseIn = 0,
             \/ jobs[i].status = "CANCELLING" /\ s = "CANCELLED"
             \/ jobs[i].status = "RUNNING"
                  /\ \/ s \in {"SUCCEEDED", "BLOCKED", "CANCELLED"}
                     \/ s = "RETRY_WAIT" /\ ~Exhausted(i)
      PROVE  LifecycleStep(j)
  <2>1. CASE j = i
    BY <1>1, <1>2, <1>3, <1>4, <2>1, ReleaseStep
  <2>2. CASE j # i
    BY <1>3, <1>4, <2>2, Unseen
  <2> QED BY <2>1, <2>2
<1>5. \A s : /\ Released(jobs[i], s).status = s /\ Released(jobs[i], s).input = jobs[i].input
             /\ Released(jobs[i], s).generation = jobs[i].generation
             /\ Released(jobs[i], s).leaseIn = 0
  BY <1>1 DEF Released, Row
<1>6. ASSUME CancelRunningJob(i)
      PROVE  LifecycleStep(j)
  BY <1>2, <1>4, <1>5, <1>6 DEF CancelRunningJob
<1>7. ASSUME BlockRunningJob(i), jobs[i].status = "RUNNING"
      PROVE  LifecycleStep(j)
  BY <1>4, <1>5, <1>7 DEF BlockRunningJob
<1>8. CASE SettleJobSuccess(l)
  <2> DEFINE row == [Released(jobs[i], "SUCCEEDED") EXCEPT !.result = l.generation]
  <2>1. /\ row.status = "SUCCEEDED" /\ row.input = jobs[i].input
        /\ row.generation = jobs[i].generation /\ row.leaseIn = 0
    BY <1>1 DEF Released, Row
  <2>2. CASE jobs[i].status = "CANCELLING"
    BY <1>6, <1>8, <2>2 DEF SettleJobSuccess
  <2>3. CASE jobs[i].status = "RUNNING"
    <3>1. WriteJob(i, row, Event("job.succeeded", "SUCCEEDED", l.generation))
      BY <1>8, <2>3 DEF SettleJobSuccess
    <3> HIDE DEF row
    <3> QED BY <1>4, <2>1, <2>3, <3>1
  <2> QED BY <1>2, <2>2, <2>3
<1>9. CASE SettleJobRetry(l, result.delay)
  <2> DEFINE row == [Released(jobs[i], "RETRY_WAIT") EXCEPT !.availableIn = result.delay]
  <2>1. /\ row.status = "RETRY_WAIT" /\ row.input = jobs[i].input
        /\ row.generation = jobs[i].generation /\ row.leaseIn = 0
    BY <1>1 DEF Released, Row
  <2>2. CASE jobs[i].status = "CANCELLING"
    BY <1>6, <1>9, <2>2 DEF SettleJobRetry
  <2>3. CASE jobs[i].status = "RUNNING" /\ Exhausted(i)
    BY <1>7, <1>9, <2>3 DEF SettleJobRetry
  <2>4. CASE jobs[i].status = "RUNNING" /\ ~Exhausted(i)
    <3>1. WriteJob(i, row, Event("job.retry_scheduled", "RETRY_WAIT", l.generation))
      BY <1>9, <2>4 DEF SettleJobRetry
    <3> HIDE DEF row
    <3> QED BY <1>4, <2>1, <2>4, <3>1
  <2> QED BY <1>2, <2>2, <2>3, <2>4
<1>10. CASE SettleJobBlocked(l)
  BY <1>2, <1>6, <1>7, <1>10 DEF SettleJobBlocked
<1>11. CASE SettleJobCancelled(l)
  BY <1>6, <1>11 DEF SettleJobCancelled
<1> QED
  BY <1>8, <1>9, <1>10, <1>11 DEF Settle

\* enqueueJob: the job is created, or stored already.
LEMMA EnqueueStep ==
  ASSUME IInv, NEW k \in IdempotencyKeys, NEW input \in Inputs, EnqueueJob(k, input),
         NEW j \in JobIds
  PROVE  LifecycleStep(j)
<1> DEFINE i == input.jobId
           row == [AbsentRow EXCEPT !.status = "PENDING", !.input = input,
                                    !.availableIn = input.delay]
<1>1. CASE jobs' = jobs
  BY <1>1, Unseen
<1>2. CASE i \notin Stored /\ jobs' = [jobs EXCEPT ![i] = row]
  <2>1. i \in JobIds /\ input.maxAttempts \in Nat \ {0}
    BY InputFacts
  <2>2. jobs[i].status = "ABSENT" /\ jobs[i].generation = 0 /\ jobs[i].leaseIn = 0
    BY <1>2, <2>1, RowFacts DEF Stored, GoodRow, Active
  <2>3. row.status = "PENDING" /\ row.input = input /\ row.generation = 0 /\ row.leaseIn = 0
    BY DEF AbsentRow
  <2>4. jobs'[i] = row /\ (j # i => jobs'[j] = jobs[j])
    BY <1>2, <2>1 DEF IInv, TypeOK
  <2>5. CASE j = i
    <3> HIDE DEF row
    <3>1. Lifecycle(j)!Enqueue
      BY <2>1, <2>2, <2>3, <2>4, <2>5 DEF Lifecycle!Enqueue
    <3> QED BY <3>1 DEF LifecycleStep, Lifecycle!Next
  <2>6. CASE j # i
    BY <2>4, <2>6, Unseen
  <2> QED BY <2>5, <2>6
<1> QED BY <1>1, <1>2 DEF EnqueueJob, WriteJob

\* cancelJob: a waiting job is cancelled, a running one is asked to stop.
LEMMA CancelStep ==
  ASSUME IInv, NEW i \in JobIds, CancelJob(i), NEW j \in JobIds
  PROVE  LifecycleStep(j)
<1>1. jobs[i] \in Row
  BY RowFacts
<1>2. PICK s : /\ jobs' = [jobs EXCEPT ![i] = [jobs[i] EXCEPT !.status = s]]
               /\ \/ jobs[i].status \in Waiting /\ s = "CANCELLED"
                  \/ jobs[i].status = "RUNNING" /\ s = "CANCELLING"
  BY DEF CancelJob, WriteJob
<1>3. j # i => jobs'[j] = jobs[j]
  BY <1>2 DEF IInv, TypeOK
<1>4. /\ jobs'[i].status = s /\ jobs'[i].input = jobs[i].input
      /\ jobs'[i].generation = jobs[i].generation /\ jobs'[i].leaseIn = jobs[i].leaseIn
  BY <1>1, <1>2 DEF IInv, TypeOK, Row
<1>5. CASE j = i /\ jobs[i].status \in Waiting /\ s = "CANCELLED"
  <2>1. Lifecycle(j)!CancelWaiting
    BY <1>4, <1>5 DEF Lifecycle!CancelWaiting, Waiting
  <2> QED BY <2>1 DEF LifecycleStep, Lifecycle!Next
<1>6. CASE j = i /\ jobs[i].status = "RUNNING" /\ s = "CANCELLING"
  <2>1. Lifecycle(j)!CancelRequest
    BY <1>4, <1>6 DEF Lifecycle!CancelRequest
  <2> QED BY <2>1 DEF LifecycleStep, Lifecycle!Next
<1>7. CASE j # i
  BY <1>3, <1>7, Unseen
<1> QED BY <1>2, <1>5, <1>6, <1>7

\* heartbeatJob extends a lease that has not run out, which nobody sees.
LEMMA HeartbeatStep ==
  ASSUME IInv, NEW l \in Lease, HeartbeatJob(l), NEW j \in JobIds
  PROVE  LifecycleStep(j)
<1> DEFINE i == l.jobId
<1>1. i \in JobIds /\ jobs[i] \in Row /\ jobs[i].leaseIn > 0
  BY RowFacts DEF Lease, HeartbeatJob, ValidLease
<1>2. jobs' = [jobs EXCEPT ![i] = [jobs[i] EXCEPT !.leaseIn = LeaseMs]]
  BY DEF HeartbeatJob, WriteJob
<1>3. j # i => jobs'[j] = jobs[j]
  BY <1>1, <1>2 DEF IInv, TypeOK
<1>4. /\ jobs'[i].status = jobs[i].status /\ jobs'[i].input = jobs[i].input
      /\ jobs'[i].generation = jobs[i].generation /\ jobs'[i].leaseIn = LeaseMs
  BY <1>1, <1>2 DEF IInv, TypeOK, Row
<1>5. LeaseMs > 0
  BY StoreAssumption
<1>6. CASE j = i
  BY <1>1, <1>4, <1>5, <1>6, Unseen
<1>7. CASE j # i
  BY <1>3, <1>7, Unseen
<1> QED BY <1>6, <1>7

\* The clock: a lease runs out, or nothing is seen.
LEMMA AgeStep ==
  ASSUME IInv, AgeRows, NEW j \in JobIds
  PROVE  LifecycleStep(j)
<1>1. jobs[j] \in Row /\ jobs[j].leaseIn \in Nat
  BY RowFacts
<1>2. PICK b : jobs'[j] = [jobs[j] EXCEPT
         !.leaseIn = IF jobs[j].leaseIn > 0 THEN jobs[j].leaseIn - 1 ELSE 0, !.availableIn = b]
  BY DEF AgeRows
<1>3. /\ jobs'[j].status = jobs[j].status /\ jobs'[j].input = jobs[j].input
      /\ jobs'[j].generation = jobs[j].generation
      /\ jobs'[j].leaseIn = IF jobs[j].leaseIn > 0 THEN jobs[j].leaseIn - 1 ELSE 0
  BY <1>1, <1>2 DEF Row
<1>4. CASE jobs[j].leaseIn = 1
  <2>1. Lifecycle(j)!Expire
    BY <1>3, <1>4 DEF Lifecycle!Expire
  <2> QED BY <2>1 DEF LifecycleStep, Lifecycle!Next
<1>5. CASE jobs[j].leaseIn # 1
  BY <1>1, <1>3, <1>5, Unseen
<1> QED BY <1>4, <1>5

\* Every job goes through the lifecycle the store promises, whatever the runners,
\* the producers and the clock do: for any number of jobs, runners, attempts and
\* delays, JobRunner implements JobLifecycle for each job.
THEOREM RefinesLifecycle == Spec => ImplementsLifecycle
<1> DEFINE Step == \A j \in JobIds : LifecycleStep(j)
<1>1. Init => \A j \in JobIds : Lifecycle(j)!Init
  BY DEF Init, StoreInit, AbsentRow, Lifecycle!Init
<1>2. ASSUME IInv, Next
      PROVE  Step
  <2>0. IInv
    BY <1>2
  <2>1. ASSUME jobs' = jobs
        PROVE  Step
    BY <2>1, Unseen
  <2>2. ASSUME NEW k \in IdempotencyKeys, NEW input \in Inputs, Enqueue(k, input)
        PROVE  Step
    BY <2>0, <2>2, EnqueueStep DEF Enqueue
  <2>3. ASSUME NEW i \in JobIds, Cancel(i)
        PROVE  Step
    BY <2>0, <2>3, CancelStep DEF Cancel
  <2>4. ASSUME NEW r \in Runners, NEW i \in JobIds, RunNext(r, i)
        PROVE  Step
    BY <2>0, <2>4, ClaimStep, RunnerAssumption DEF RunNext
  <2>5. ASSUME NEW r \in Runners, PollEmpty(r)
        PROVE  Step
    BY <2>0, <2>5, MaintenanceStep DEF PollEmpty, ClaimNothing
  <2>6. ASSUME NEW r \in Runners, Heartbeat(r)
        PROVE  Step
    <3>1. runner[r].lease \in Lease
      BY <2>0, <2>6 DEF Heartbeat, Executing, IInv, TypeOK, RunnerState
    <3> QED BY <2>0, <2>1, <2>6, <3>1, HeartbeatStep DEF Heartbeat, storeVars
  <2>7. ASSUME NEW r \in Runners, HeartbeatAnswered(r) \/ Timeout(r) \/ Abandon(r)
        PROVE  Step
    BY <2>1, <2>7 DEF HeartbeatAnswered, Timeout, Abandon, storeVars
  <2>8. ASSUME NEW r \in Runners, NEW result \in HandlerResults, HandlerDone(r, result)
        PROVE  Step
    <3>1. runner[r].lease \in Lease
      BY <2>0, <2>8 DEF HandlerDone, Executing, IInv, TypeOK, RunnerState
    <3> QED BY <2>0, <2>8, <3>1, SettleStep DEF HandlerDone
  <2>9. CASE Tick
    BY <2>0, <2>9, AgeStep DEF Tick
  <2> HIDE DEF Step
  <2> QED
    BY <1>2, <2>2, <2>3, <2>4, <2>5, <2>6, <2>7, <2>8, <2>9 DEF Next
<1>3. IInv /\ [Next]_vars
        => [\A j \in JobIds : [Lifecycle(j)!Next]_(Lifecycle(j)!lifecycleVars)]_vars
  BY <1>2 DEF LifecycleStep
<1> QED
  BY <1>1, <1>3, Invariant, PTL DEF Spec, ImplementsLifecycle
=============================================================================
