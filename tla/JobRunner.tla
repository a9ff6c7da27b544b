----------------------------- MODULE JobRunner -----------------------------
(***************************************************************************)
(* Runners (DurableJobRunner, src/durable/runner.ts) that claim jobs from  *)
(* one store, execute a handler under a lease that a timer keeps alive,    *)
(* and settle the job with what the handler returned.  Producers enqueue   *)
(* and cancel jobs at any time, a runner's process may die and come back   *)
(* at any time, and several runners may share one worker identity.         *)
(***************************************************************************)
EXTENDS JobStore

CONSTANTS
  Runners,    \* runner processes
  WorkerId,   \* options.workerId of each
  TimeoutMs,  \* options.timeoutMs
  NoLease

ASSUME RunnerAssumption ==
  /\ WorkerId \in [Runners -> WorkerIds]
  /\ TimeoutMs \in Nat \ {0}
  /\ NoLease \notin Lease

\* An instance in which the runners were configured with one worker identity and
\* there is one request for each job, with two attempts.
SharedWorkerId == LET w == CHOOSE w \in WorkerIds : TRUE IN [r \in Runners |-> w]
OneInput == [jobId : JobIds, priority : {0}, maxAttempts : {2}, delay : {0}]

\* runner[r]: the locals of #executeLease.  beat is the answer of a heartbeat
\* whose promise callback has not run yet ("NONE": heartbeatActive is false).
VARIABLE runner

vars == <<jobs, jobIdempotency, jobEvents, eventCount, runner>>

Beats == {"NONE", "RUNNING", "CANCELLING", "FAILED"}

RunnerState == [lease : Lease \cup {NoLease}, timeoutIn : Nat,
                timeoutTriggered : BOOLEAN, cancellationObserved : BOOLEAN,
                heartbeatFailure : BOOLEAN, beat : Beats]

Idle == [lease |-> NoLease, timeoutIn |-> 0, timeoutTriggered |-> FALSE,
         cancellationObserved |-> FALSE, heartbeatFailure |-> FALSE, beat |-> "NONE"]

Executing(r) == runner[r].lease # NoLease

\* controller.signal.aborted
Aborted(r) == \/ runner[r].timeoutTriggered
              \/ runner[r].cancellationObserved
              \/ runner[r].heartbeatFailure

Init == StoreInit /\ runner = [r \in Runners |-> Idle]

-----------------------------------------------------------------------------
(* Producers *)

Enqueue(k, input) == EnqueueJob(k, input) /\ UNCHANGED runner

Cancel(j) == CancelJob(j) /\ UNCHANGED runner

-----------------------------------------------------------------------------
(* A runner *)

\* runNext: claim, then start the handler and both timers.
RunNext(r, j) ==
  /\ ~Executing(r)
  /\ ClaimJob(WorkerId[r], j)
  /\ runner' = [runner EXCEPT ![r] =
       [Idle EXCEPT !.lease = [jobId |-> j, workerId |-> WorkerId[r],
                               generation |-> jobs[j].generation + 1],
                    !.timeoutIn = TimeoutMs]]

\* runNext that finds nothing to claim.
PollEmpty(r) == ~Executing(r) /\ ClaimNothing /\ UNCHANGED runner

\* The heartbeat interval calls the store, unless an answer is still pending or
\* the handler was aborted.  The store refuses a stale lease, a full event
\* table, or any call while the database stays busy.
Heartbeat(r) ==
  LET l == runner[r].lease IN
  /\ Executing(r) /\ ~Aborted(r) /\ runner[r].beat = "NONE"
  /\ \/ /\ HeartbeatJob(l)
        /\ runner' = [runner EXCEPT ![r].beat = "RUNNING"]
     \/ /\ ValidLease(l) /\ jobs[l.jobId].status = "CANCELLING"
        /\ runner' = [runner EXCEPT ![r].beat = "CANCELLING"]
        /\ UNCHANGED storeVars
     \/ /\ runner' = [runner EXCEPT ![r].beat = "FAILED"]
        /\ UNCHANGED storeVars

\* The then/catch/finally callbacks of the heartbeat's promise.
HeartbeatAnswered(r) ==
  /\ Executing(r) /\ runner[r].beat # "NONE"
  /\ runner' = [runner EXCEPT ![r] = [runner[r] EXCEPT !.beat = "NONE",
       !.cancellationObserved = runner[r].cancellationObserved \/ runner[r].beat = "CANCELLING",
       !.heartbeatFailure = runner[r].heartbeatFailure \/ runner[r].beat = "FAILED"]]
  /\ UNCHANGED storeVars

\* The handler's timeout fires.
Timeout(r) ==
  /\ Executing(r) /\ runner[r].timeoutIn = 0 /\ ~runner[r].timeoutTriggered
  /\ runner' = [runner EXCEPT ![r].timeoutTriggered = TRUE]
  /\ UNCHANGED storeVars

\* What a handler may return; throwing counts as a retry without delay.
HandlerResults ==
  [outcome : {"SUCCEEDED", "BLOCKED", "CANCELLED"}, delay : {0}]
    \cup [outcome : {"RETRY"}, delay : RetryDelays \cup {0}]

\* The outcome #executeLease settles, given what the handler returned.
Settled(r, result) ==
  CASE runner[r].cancellationObserved \/ (Aborted(r) /\ ~runner[r].timeoutTriggered)
         -> [outcome |-> "CANCELLED", delay |-> 0]
    [] runner[r].timeoutTriggered /\ ~runner[r].cancellationObserved
         -> [outcome |-> "RETRY", delay |-> 0]
    [] OTHER -> result

\* settle
Settle(l, result) ==
  \/ result.outcome = "SUCCEEDED" /\ SettleJobSuccess(l)
  \/ result.outcome = "RETRY"     /\ SettleJobRetry(l, result.delay)
  \/ result.outcome = "BLOCKED"   /\ SettleJobBlocked(l)
  \/ result.outcome = "CANCELLED" /\ SettleJobCancelled(l)

\* The handler returns: a failed heartbeat is rethrown without a settlement,
\* and so is the store's refusal of the settlement.
HandlerDone(r, result) ==
  /\ Executing(r)
  /\ ~runner[r].heartbeatFailure
  /\ Settle(runner[r].lease, Settled(r, result))
  /\ runner' = [runner EXCEPT ![r] = Idle]

\* The runner gives its lease up without a settlement: a rethrown heartbeat
\* failure, a settlement the store refused, or the death of the process.
Abandon(r) ==
  /\ Executing(r)
  /\ runner' = [runner EXCEPT ![r] = Idle]
  /\ UNCHANGED storeVars

\* Time passes for the store's timestamps and the runners' timers.
Tick ==
  /\ AgeRows
  /\ runner' = [r \in Runners |->
       [runner[r] EXCEPT !.timeoutIn = IF @ > 0 THEN @ - 1 ELSE 0]]
  /\ UNCHANGED <<jobIdempotency, jobEvents, eventCount>>

Next ==
  \/ \E k \in IdempotencyKeys, input \in Inputs : Enqueue(k, input)
  \/ \E j \in JobIds : Cancel(j)
  \/ \E r \in Runners, j \in JobIds : RunNext(r, j)
  \/ \E r \in Runners : PollEmpty(r)
  \/ \E r \in Runners : Heartbeat(r)
  \/ \E r \in Runners : HeartbeatAnswered(r)
  \/ \E r \in Runners : Timeout(r)
  \/ \E r \in Runners, result \in HandlerResults : HandlerDone(r, result)
  \/ \E r \in Runners : Abandon(r)
  \/ Tick

Spec == Init /\ [][Next]_vars

\* Time passes; timers and promise callbacks run; a runner without a lease polls
\* again; a handler whose AbortSignal fired returns (or its process ends).  A
\* handler that was not aborted may run forever.
Fairness ==
  /\ WF_vars(Tick)
  /\ \A r \in Runners :
       /\ WF_vars(Timeout(r))
       /\ WF_vars(HeartbeatAnswered(r))
       /\ WF_vars(PollEmpty(r) \/ \E j \in JobIds : RunNext(r, j))
       /\ WF_vars(Aborted(r) /\ (Abandon(r) \/ \E result \in HandlerResults : HandlerDone(r, result)))

FairSpec == Spec /\ Fairness

-----------------------------------------------------------------------------
(* Properties *)

\* The tables and the runners' locals have their types.
TypeOK ==
  /\ jobs \in [JobIds -> Row]
  /\ jobIdempotency \in [IdempotencyKeys -> Inputs \cup {NoInput}]
  /\ jobEvents \in [JobIds -> Seq(JobEvent)]
  /\ eventCount \in Nat
  /\ runner \in [Runners -> RunnerState]

\* Every row the store writes passes the integrity checks that decodeJobRow
\* makes when the row is read back: a job has lease columns exactly while it is
\* RUNNING or CANCELLING, and its attempts stay within its ceiling.  A row that
\* failed them would make every later operation on the job throw.
RowDecodes ==
  \A j \in JobIds :
    /\ jobs[j].status \in Active <=> jobs[j].workerId # NoWorker
    /\ jobs[j].status # "ABSENT" => jobs[j].attempt <= jobs[j].input.maxAttempts

\* The job_events table tells the truth about the jobs table: the newest event
\* of a job carries the status and the generation of its row, and a job without
\* events does not exist.
LastEventAgrees ==
  \A j \in JobIds :
    IF jobEvents[j] = <<>>
    THEN jobs[j].status = "ABSENT"
    ELSE LET last == jobEvents[j][Len(jobEvents[j])]
         IN last.status = jobs[j].status /\ last.generation = jobs[j].generation

\* Fencing: of all the runners that still execute a claim of a job, whatever
\* worker identities they share, at most one holds a lease the store accepts,
\* and a lease the store accepts is the newest claim.
OneValidLease ==
  \A r, s \in Runners :
    /\ Executing(r) /\ Executing(s)
    /\ runner[r].lease.jobId = runner[s].lease.jobId
    /\ ValidLease(runner[r].lease) /\ ValidLease(runner[s].lease)
    => r = s

\* A job that SUCCEEDED keeps the result of its newest claim: a runner that lost
\* its lease and was overtaken never publishes its result.
ResultOfNewestClaim ==
  \A j \in JobIds :
    jobs[j].status = "SUCCEEDED" => jobs[j].result = jobs[j].generation

\* What the store holds about its jobs is sound after every operation, crash and
\* expiry: rows decode, the event table agrees with them, and types are kept.
RowsSound == TypeOK /\ RowDecodes /\ LastEventAgrees

\* The fence of #requireValidLease: one runner at most can write to a job, and what a
\* succeeded job holds was written by its newest claim.
Fenced == OneValidLease /\ ResultOfNewestClaim

\* A key that was accepted names the stored job with exactly the input it was
\* sent with, and every stored job can be reached by such a key.
KeysNameJobs ==
  /\ \A k \in IdempotencyKeys :
       jobIdempotency[k] # NoInput =>
         jobs[jobIdempotency[k].jobId].input = jobIdempotency[k]
  /\ \A j \in Stored : \E k \in IdempotencyKeys : jobIdempotency[k] = jobs[j].input

\* Every job goes through the lifecycle the store promises, and only through it.
Lifecycle(j) == INSTANCE JobLifecycle WITH
  status <- jobs[j].status,
  ceiling <- IF jobs[j].status = "ABSENT" THEN 0 ELSE jobs[j].input.maxAttempts,
  generation <- jobs[j].generation,
  leased <- jobs[j].leaseIn > 0

ImplementsLifecycle ==
  /\ \A j \in JobIds : Lifecycle(j)!Init
  /\ [][\A j \in JobIds : [Lifecycle(j)!Next]_(Lifecycle(j)!lifecycleVars)]_vars

\* Room for the events of one more claim is all that can run out.
LogExhausted == eventCount + Cardinality(JobIds) > MaxJobEvents

\* Whatever crashes, hangs past its timeout, loses its heartbeat or is cancelled,
\* every stored job is settled in the end, unless the event table fills up first
\* (nothing ever deletes from it, and a full table refuses every settlement).
EventuallySettled ==
  \A j \in JobIds :
    (j \in Stored) ~> (jobs[j].status \in Terminal \/ LogExhausted)
=============================================================================
