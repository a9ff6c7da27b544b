------------------------------ MODULE JobStore ------------------------------
(***************************************************************************)
(* The durable job queue of SqliteDurableStore (src/durable/store.ts): the *)
(* tables jobs, job_idempotency and job_events.  Every operation of the    *)
(* store runs in one BEGIN IMMEDIATE transaction that is rolled back when  *)
(* it throws, so an operation is one step, and a refused operation is no   *)
(* step at all.                                                            *)
(*                                                                         *)
(* A timestamp is kept as the time left until it (lease_expires_at, and    *)
(* available_at, which may lie up to MaxOverdue in the past), so that time *)
(* passes in Tick without an absolute clock.  The 32 random bytes of a     *)
(* lease token are drawn afresh with every claim and only compared for     *)
(* equality: the pair of job and generation names the claim that drew them.*)
(***************************************************************************)
EXTENDS Integers, FiniteSets, Sequences

CONSTANTS
  JobIds,           \* job identifiers of one mission
  IdempotencyKeys,  \* keys the producers send with an enqueue
  Inputs,           \* immutable enqueue inputs (JobEnqueueInput)
  WorkerIds,        \* identities the runners claim under
  LeaseMs,          \* length of a lease
  RetryDelays,      \* delays a handler may ask for
  MaxOverdue,       \* how far available_at is tracked into the past
  MaxJobs,          \* limits.maxJobs
  MaxJobEvents,     \* limits.maxJobEvents
  NoWorker, NoInput \* SQL NULL

VARIABLES jobs, jobIdempotency, jobEvents, eventCount

storeVars == <<jobs, jobIdempotency, jobEvents, eventCount>>

ASSUME StoreAssumption ==
  /\ IsFiniteSet(JobIds)
  /\ LeaseMs \in Nat \ {0} /\ MaxOverdue \in Nat
  /\ MaxJobs \in Nat /\ MaxJobEvents \in Nat
  /\ RetryDelays \subseteq Nat
  /\ Inputs \subseteq [jobId : JobIds, priority : Nat,
                       maxAttempts : Nat \ {0}, delay : Nat]
  /\ NoInput \notin Inputs
  /\ NoWorker \notin WorkerIds

Active   == {"RUNNING", "CANCELLING"}
Waiting  == {"PENDING", "RETRY_WAIT"}
Terminal == {"SUCCEEDED", "BLOCKED", "CANCELLED"}
Status   == Active \cup Waiting \cup Terminal \cup {"ABSENT"}

EventTypes == {"job.enqueued", "job.claimed", "job.reclaimed", "job.heartbeat",
               "job.succeeded", "job.retry_scheduled", "job.blocked",
               "job.cancelling", "job.cancelled"}

\* A row of the table jobs; the enqueue input stands for enqueue_fingerprint,
\* priority and max_attempts, and result for the claim that produced it.
Row == [status : Status, input : Inputs \cup {NoInput}, attempt : Nat,
        availableIn : Int, generation : Nat, workerId : WorkerIds \cup {NoWorker},
        leaseIn : Nat, result : Nat]

Lease == [jobId : JobIds, workerId : WorkerIds, generation : Nat]

JobEvent == [type : EventTypes, status : Status, generation : Nat]

AbsentRow == [status |-> "ABSENT", input |-> NoInput, attempt |-> 0,
              availableIn |-> 0, generation |-> 0, workerId |-> NoWorker,
              leaseIn |-> 0, result |-> 0]

StoreInit ==
  /\ jobs = [j \in JobIds |-> AbsentRow]
  /\ jobIdempotency = [k \in IdempotencyKeys |-> NoInput]
  /\ jobEvents = [j \in JobIds |-> <<>>]
  /\ eventCount = 0

-----------------------------------------------------------------------------
(* Row helpers *)

Stored == {j \in JobIds : jobs[j].status # "ABSENT"}

Expired(j) == jobs[j].leaseIn = 0

Exhausted(j) == jobs[j].attempt >= jobs[j].input.maxAttempts

\* Fault: a settlement that forgets to clear lease_worker_id.
ReleasedKeepsWorker(row, status) == [row EXCEPT !.status = status, !.leaseIn = 0]

\* The row once its lease columns are set to NULL.
Released(row, status) ==
  [row EXCEPT !.status = status, !.workerId = NoWorker, !.leaseIn = 0]

\* #appendJobEvent for every job in the domain of new.  The bound on the table
\* makes it throw, which rolls the whole operation back.
AppendJobEvents(new) ==
  /\ eventCount + Cardinality(DOMAIN new) <= MaxJobEvents
  /\ eventCount' = eventCount + Cardinality(DOMAIN new)
  /\ jobEvents' = [j \in JobIds |->
       IF j \in DOMAIN new THEN Append(jobEvents[j], new[j]) ELSE jobEvents[j]]

Event(type, status, generation) ==
  [type |-> type, status |-> status, generation |-> generation]

\* One job changes: its row becomes row and the event e is appended.
WriteJob(j, row, e) ==
  /\ jobs' = [jobs EXCEPT ![j] = row]
  /\ AppendJobEvents([i \in {j} |-> e])

\* Fault: the fencing generation and the token are not compared.
ValidLeaseUnfenced(l) ==
  /\ jobs[l.jobId].workerId = l.workerId
  /\ jobs[l.jobId].leaseIn > 0
  /\ jobs[l.jobId].status \in Active

\* #requireValidLease.
ValidLease(l) ==
  /\ jobs[l.jobId].workerId = l.workerId
  /\ jobs[l.jobId].generation = l.generation
  /\ jobs[l.jobId].leaseIn > 0
  /\ jobs[l.jobId].status \in Active

-----------------------------------------------------------------------------
(* Operations *)

\* Fault: the fingerprint of a job that exists already is not compared.
EnqueueJobUnchecked(k, input) ==
  LET j == input.jobId IN
  /\ jobIdempotency[k] = NoInput
  /\ jobIdempotency' = [jobIdempotency EXCEPT ![k] = input]
  /\ \/ j \in Stored /\ UNCHANGED <<jobs, jobEvents, eventCount>>
     \/ /\ j \notin Stored /\ Cardinality(Stored) < MaxJobs
        /\ WriteJob(j, [AbsentRow EXCEPT !.status = "PENDING", !.input = input],
                    Event("job.enqueued", "PENDING", 0))

\* enqueueJob.  A key that is already bound replays its job or is refused as a
\* conflict, and changes nothing either way.
EnqueueJob(k, input) ==
  LET j == input.jobId IN
  /\ jobIdempotency[k] = NoInput
  /\ jobIdempotency' = [jobIdempotency EXCEPT ![k] = input]
  /\ \/ /\ jobs[j].input = input
        /\ UNCHANGED <<jobs, jobEvents, eventCount>>
     \/ /\ j \notin Stored
        /\ Cardinality(Stored) < MaxJobs
        /\ WriteJob(j, [AbsentRow EXCEPT !.status = "PENDING", !.input = input,
                                         !.availableIn = input.delay],
                    Event("job.enqueued", "PENDING", 0))

\* The rows #maintainExpiredJobs changes, and the events it appends for them.
ExhaustedJobs == {j \in JobIds : jobs[j].status = "RUNNING" /\ Expired(j) /\ Exhausted(j)}
AbandonedJobs == {j \in JobIds : jobs[j].status = "CANCELLING" /\ Expired(j)}

Maintained ==
  [j \in JobIds |->
     IF j \in ExhaustedJobs THEN Released(jobs[j], "BLOCKED")
     ELSE IF j \in AbandonedJobs THEN Released(jobs[j], "CANCELLED")
     ELSE jobs[j]]

MaintenanceEvents ==
  [j \in ExhaustedJobs \cup AbandonedJobs |->
     IF j \in ExhaustedJobs
     THEN Event("job.blocked", "BLOCKED", jobs[j].generation)
     ELSE Event("job.cancelled", "CANCELLED", jobs[j].generation)]

\* The WHERE clause of the claim's SELECT.
Claimable ==
  {j \in JobIds :
     \/ jobs[j].status \in Waiting /\ jobs[j].availableIn <= 0
     \/ jobs[j].status = "RUNNING" /\ Expired(j) /\ ~Exhausted(j)}

\* ORDER BY available_at, priority DESC (created_at and job_id break the ties
\* that are left, any of which the model takes).  Rows that are MaxOverdue late
\* may have any order of available_at among themselves.
Precedes(i, j) ==
  \/ jobs[i].availableIn < jobs[j].availableIn
  \/ /\ jobs[i].availableIn = jobs[j].availableIn
     /\ jobs[i].availableIn > -MaxOverdue
     /\ jobs[i].input.priority > jobs[j].input.priority

Candidates == {j \in Claimable : \A i \in Claimable : ~Precedes(i, j)}

\* The UPDATE of a claim.
Claimed(row, w, attempt, generation) ==
  [row EXCEPT !.status = "RUNNING", !.attempt = attempt,
              !.generation = generation, !.workerId = w, !.leaseIn = LeaseMs]

\* claimJob when a row is selected: maintenance, then the claim of j.
ClaimJob(w, j) ==
  LET attempt == jobs[j].attempt + 1
      generation == jobs[j].generation + 1
      type == IF jobs[j].status = "RUNNING" THEN "job.reclaimed" ELSE "job.claimed"
  IN /\ j \in Candidates
     /\ jobs' = [Maintained EXCEPT ![j] = Claimed(jobs[j], w, attempt, generation)]
     /\ AppendJobEvents([i \in ExhaustedJobs \cup AbandonedJobs \cup {j} |->
          IF i = j THEN Event(type, "RUNNING", generation) ELSE MaintenanceEvents[i]])
     /\ UNCHANGED jobIdempotency

\* Fault: maintenance runs only when there is a job to claim.
ClaimNothingUnmaintained == Claimable = {} /\ UNCHANGED storeVars

\* claimJob when no row is selected: maintenance is all it does.
ClaimNothing ==
  /\ Claimable = {}
  /\ jobs' = Maintained
  /\ AppendJobEvents(MaintenanceEvents)
  /\ UNCHANGED jobIdempotency

\* heartbeatJob of a valid lease on a RUNNING job; on a CANCELLING job it only
\* reports the state.
HeartbeatJob(l) ==
  LET j == l.jobId IN
  /\ ValidLease(l) /\ jobs[j].status = "RUNNING"
  /\ WriteJob(j, [jobs[j] EXCEPT !.leaseIn = LeaseMs],
              Event("job.heartbeat", "RUNNING", l.generation))
  /\ UNCHANGED jobIdempotency

\* Fault: a status that is not one of DurableJobStatus.
CancelRunningJobMisspelt(j) ==
  WriteJob(j, Released(jobs[j], "CANCELED"),
           Event("job.cancelled", "CANCELED", jobs[j].generation))

\* #cancelRunningJob and #blockRunningJob.
CancelRunningJob(j) ==
  WriteJob(j, Released(jobs[j], "CANCELLED"),
           Event("job.cancelled", "CANCELLED", jobs[j].generation))

BlockRunningJob(j) ==
  WriteJob(j, Released(jobs[j], "BLOCKED"),
           Event("job.blocked", "BLOCKED", jobs[j].generation))

\* Fault: a success overrides a cancellation that was requested meanwhile.
SettleJobSuccessUncancelled(l) ==
  LET j == l.jobId IN
  /\ ValidLease(l)
  /\ WriteJob(j, [Released(jobs[j], "SUCCEEDED") EXCEPT !.result = l.generation],
              Event("job.succeeded", "SUCCEEDED", l.generation))
  /\ UNCHANGED jobIdempotency

\* settleJobSuccess.
SettleJobSuccess(l) ==
  LET j == l.jobId IN
  /\ ValidLease(l)
  /\ IF jobs[j].status = "CANCELLING"
     THEN CancelRunningJob(j)
     ELSE WriteJob(j, [Released(jobs[j], "SUCCEEDED") EXCEPT !.result = l.generation],
                   Event("job.succeeded", "SUCCEEDED", l.generation))
  /\ UNCHANGED jobIdempotency

\* settleJobRetry with the delay the handler asked for.
SettleJobRetry(l, delay) ==
  LET j == l.jobId IN
  /\ ValidLease(l)
  /\ CASE jobs[j].status = "CANCELLING" -> CancelRunningJob(j)
       [] jobs[j].status = "RUNNING" /\ Exhausted(j) -> BlockRunningJob(j)
       [] OTHER -> WriteJob(j, [Released(jobs[j], "RETRY_WAIT") EXCEPT !.availableIn = delay],
                            Event("job.retry_scheduled", "RETRY_WAIT", l.generation))
  /\ UNCHANGED jobIdempotency

\* settleJobBlocked.
SettleJobBlocked(l) ==
  LET j == l.jobId IN
  /\ ValidLease(l)
  /\ IF jobs[j].status = "CANCELLING" THEN CancelRunningJob(j) ELSE BlockRunningJob(j)
  /\ UNCHANGED jobIdempotency

\* settleJobCancelled.
SettleJobCancelled(l) ==
  /\ ValidLease(l)
  /\ CancelRunningJob(l.jobId)
  /\ UNCHANGED jobIdempotency

\* Fault: the request to cancel a RUNNING job is not recorded as an event.
CancelJobUnlogged(j) ==
  /\ \/ /\ jobs[j].status \in Waiting
        /\ WriteJob(j, [jobs[j] EXCEPT !.status = "CANCELLED"],
                    Event("job.cancelled", "CANCELLED", jobs[j].generation))
     \/ /\ jobs[j].status = "RUNNING"
        /\ jobs' = [jobs EXCEPT ![j].status = "CANCELLING"]
        /\ UNCHANGED <<jobEvents, eventCount>>
  /\ UNCHANGED jobIdempotency

\* cancelJob.  A RUNNING job keeps its lease and only learns of the request; a
\* job that is CANCELLING or settled is returned as it is.
CancelJob(j) ==
  /\ \/ /\ jobs[j].status \in Waiting
        /\ WriteJob(j, [jobs[j] EXCEPT !.status = "CANCELLED"],
                    Event("job.cancelled", "CANCELLED", jobs[j].generation))
     \/ /\ jobs[j].status = "RUNNING"
        /\ WriteJob(j, [jobs[j] EXCEPT !.status = "CANCELLING"],
                    Event("job.cancelling", "CANCELLING", jobs[j].generation))
  /\ UNCHANGED jobIdempotency

\* One unit of time passes for every timestamp of the tables.
AgeRows ==
  jobs' = [j \in JobIds |->
     [jobs[j] EXCEPT !.leaseIn = IF @ > 0 THEN @ - 1 ELSE 0,
                     !.availableIn = IF j \in Stored /\ @ > -MaxOverdue THEN @ - 1 ELSE @]]
=============================================================================
