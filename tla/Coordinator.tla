---------------------------- MODULE Coordinator ----------------------------
(***************************************************************************)
(* SpecialistCoordinator of src/coordination/coordinator.ts with the       *)
(* ownership rules of ownership.ts and the reconciliation of result.ts.    *)
(*                                                                         *)
(* plan reserves leases on the claims of pending tasks, execute runs one   *)
(* specialist worker per lease, and everything that reads the clock first  *)
(* releases the plans that have expired.  Every action is a piece of       *)
(* JavaScript between two awaits.  Snapshots, specs and evidence are       *)
(* abstracted to what plan and reconcileProposal tell apart.               *)
(***************************************************************************)
EXTENDS Naturals, Sequences, SequencesExt, FiniteSets

CONSTANTS
  TaskOrder,        \* the tasks of the mission, by priority and then by id
  Claims,           \* task -> its ownership claims [namespace, key, access]
  SpecialistOrder,  \* the registered profiles, by id and version
  Serves,           \* task -> the specialists with its role and capabilities
  MaxConcurrency,   \* specialist -> profile.maxConcurrency
  MaxBatchSize, MaxActive, LeaseDuration,  \* the options
  RecordLimits,     \* values of the option maxPlanRecords to try
  MaxPlans,         \* bound: calls of plan that succeed
  MaxExecutions,    \* bound: calls of execute that start workers
  MaxTime           \* bound: the last reading of the clock

Tasks == ToSet(TaskOrder)
Specialists == ToSet(SpecialistOrder)
PlanIds == 1 .. MaxPlans

\* A repository key is a path; its segments are the elements of a sequence.
ClaimType == [namespace : {"repository", "resource", "state"}, key : Seq(STRING),
              access : {"read", "write"}]

ASSUME CoordinatorAssumption ==
  /\ \A t \in Tasks : \A c \in Claims[t] : c \in ClaimType
  /\ \A t \in Tasks : Serves[t] \subseteq Specialists
  /\ TaskOrder \in Seq(Tasks) /\ SpecialistOrder \in Seq(Specialists)
  /\ \A s \in Specialists : MaxConcurrency[s] \in Nat \ {0}
  /\ {MaxBatchSize, MaxActive, LeaseDuration} \cup RecordLimits \subseteq Nat \ {0}
  /\ {MaxPlans, MaxTime} \subseteq Nat

VARIABLES
  maxPlanRecords,  \* #maxPlanRecords, chosen when the coordinator is made
  wall,      \* what the injected clock returns; see ReadClock for clocks set back
  plans,     \* every plan made, by generation: [state, expires, staffing, called],
             \* staffing maps each assigned task to its specialist, called: execute began
  known,     \* the generations in #plans
  leases,    \* #leases: [plan, task, specialist]
  work,      \* <<plan, task>> -> [running, aborted]: its worker and its controller
  answer,    \* <<plan, task>> -> the reconciliation, "none" while it is awaited
  outcome    \* plan -> what execute came to: "none" yet, "thrown" or a "result"

coordinationVars == <<maxPlanRecords, wall, plans, known, leases, work, answer, outcome>>

Worker == PlanIds \X Tasks
NoWork == [running |-> FALSE, aborted |-> FALSE]

CoordinatorInit ==
  /\ maxPlanRecords \in RecordLimits
  /\ wall = 0
  /\ plans = <<>> /\ known = {} /\ leases = {}
  /\ work = [w \in Worker |-> NoWork]
  /\ answer = [w \in Worker |-> "none"]
  /\ outcome = [p \in PlanIds |-> "none"]

-----------------------------------------------------------------------------
(* Ownership *)

\* Fault: only equal paths intersect.
EqualKeysIntersect(left, right) == left = right

\* A path and a directory above it intersect.
RepositoryKeysIntersect(left, right) == IsPrefix(left, right) \/ IsPrefix(right, left)

ClaimsConflict(left, right) ==
  /\ left.namespace = right.namespace
  /\ "write" \in {left.access, right.access}
  /\ IF left.namespace = "repository" THEN RepositoryKeysIntersect(left.key, right.key)
     ELSE left.key = right.key

TasksConflict(t, u) == \E c \in Claims[t], d \in Claims[u] : ClaimsConflict(c, d)

-----------------------------------------------------------------------------
(* Releasing and expiring.  A book holds the maps that both change. *)

Book == [plans |-> plans, leases |-> leases, work |-> work]

\* #releaseRecord for a set of plans: controllers aborted, leases deleted.  A controller
\* of a settled assignment is no longer in the record.
ReleaseRecords(book, ps) ==
  LET open == {p \in ps : book.plans[p].state # "released"} IN
  [plans  |-> [p \in DOMAIN book.plans |->
                 IF p \in open THEN [book.plans[p] EXCEPT !.state = "released"]
                 ELSE book.plans[p]],
   leases |-> {l \in book.leases : l.plan \notin open},
   work   |-> [w \in Worker |->
                 IF w[1] \in open /\ answer[w] = "none" /\ book.work[w].running
                 THEN [book.work[w] EXCEPT !.aborted = TRUE] ELSE book.work[w]]]

\* #expirePlans.
ExpirePlans(book) == ReleaseRecords(book, {p \in known : book.plans[p].expires <= wall})

\* #readClock throws when the clock shows less than it did before.  A wall clock that was
\* set back can do that at any reading: plan, execute and activeLeases then change
\* nothing, a worker's answer counts as a failure, and a finished execute throws.

Commit(book) == plans' = book.plans /\ leases' = book.leases /\ work' = book.work

-----------------------------------------------------------------------------
(* plan *)

\* #prunePlanRecords: the oldest released records go until there is room.
Prunable(book) == {p \in known : book.plans[p].state = "released"}

Pruned(book) ==
  IF Cardinality(known) < maxPlanRecords THEN known
  ELSE LET excess == Cardinality(known) - maxPlanRecords + 1
           gone == {p \in Prunable(book) :
                      Cardinality({q \in Prunable(book) : q < p}) < excess}
       IN  known \ gone

HasRoom(book) == Cardinality(Pruned(book)) < maxPlanRecords

ActiveCount(ls, s) == Cardinality({l \in ls : l.specialist = s})

\* The places of the matching profiles with room, and the first of those profiles.
Available(ls, t) ==
  {i \in 1 .. Len(SpecialistOrder) :
     /\ SpecialistOrder[i] \in Serves[t]
     /\ ActiveCount(ls, SpecialistOrder[i]) < MaxConcurrency[SpecialistOrder[i]]}
Chosen(ls, t) == SpecialistOrder[Min(Available(ls, t))]

\* None of the deferrals of plan: the task is not leased, the batch and the runtime have
\* room, a matching specialist has room, and no active lease conflicts.
Assignable(ls, p, t) ==
  /\ \A l \in ls : l.task # t
  /\ Cardinality({l \in ls : l.plan = p}) < MaxBatchSize
  /\ Cardinality(ls) < MaxActive
  /\ Available(ls, t) # {}
  /\ \A l \in ls : ~TasksConflict(t, l.task)

\* One turn of the loop of plan.
Reserving(ls, p, t, runnable) ==
  IF t \in runnable /\ Assignable(ls, p, t)
  THEN ls \cup {[plan |-> p, task |-> t, specialist |-> Chosen(ls, t)]}
  ELSE ls

\* The loop over the pending tasks; the leases reserved so far count for the next task.
Reserve(ls, p, runnable) ==
  LET after[n \in 0 .. Len(TaskOrder)] ==
        IF n = 0 THEN ls ELSE Reserving(after[n - 1], p, TaskOrder[n], runnable)
  IN  after[Len(TaskOrder)]

\* plan: runnable holds the tasks that are pending, runnable and have a spec.
Plan(runnable) ==
  /\ Len(plans) < MaxPlans
  /\ LET book == ExpirePlans(Book)
         p == Len(plans) + 1
         ls == Reserve(book.leases, p, runnable)
         staff == [t \in {l.task : l \in {m \in ls : m.plan = p}} |->
                     (CHOOSE l \in ls : l.plan = p /\ l.task = t).specialist]
     IN  /\ HasRoom(book)
         /\ known' = Pruned(book) \cup {p}
         /\ Commit([book EXCEPT !.leases = ls,
                     !.plans = Append(@, [state |-> "reserved", expires |-> wall + LeaseDuration,
                                          staffing |-> staff, called |-> FALSE])])
  /\ UNCHANGED <<wall, answer, outcome>>

\* plan throws after pruning: the records of plans still held fill #plans.
PlanRefused ==
  /\ LET book == ExpirePlans(Book)
     IN  /\ ~HasRoom(book)
         /\ known' = Pruned(book)
         /\ Commit(book)
  /\ UNCHANGED <<wall, answer, outcome>>

-----------------------------------------------------------------------------
(* execute *)

Assigned(p) == DOMAIN plans[p].staffing

\* execute up to the first await.  A plan that was tampered with fails its hashes.
Execute(p, authentic) ==
  /\ Cardinality({q \in DOMAIN plans : plans[q].called}) < MaxExecutions
  /\ LET book == ExpirePlans(Book)
         startable == p \in known /\ book.plans[p].state = "reserved"
     IN  IF startable /\ authentic
         THEN Commit([book EXCEPT
                !.plans[p].state = "executing", !.plans[p].called = TRUE,
                !.work = [w \in Worker |-> IF w[1] = p /\ w[2] \in Assigned(p)
                                           THEN [NoWork EXCEPT !.running = TRUE] ELSE @[w]]])
         ELSE Commit(IF startable THEN ReleaseRecords(book, {p}) ELSE book)
  /\ UNCHANGED <<wall, known, answer, outcome>>

\* execute still waits for the answer of this worker.
Awaited(p, t) == outcome[p] = "none" /\ answer[<<p, t>>] = "none"

Proposals == {"verified", "unverified", "failed", "blocked", "invalid"}

\* reconcileProposal: is a proposal received now accepted?  The caller of execute tells
\* BLOCKED from RETRY_REQUIRED, the coordinator does not: both are "refused" here.
Reconcile(p, proposal) ==
  IF wall < plans[p].expires /\ proposal = "verified" THEN "accepted" ELSE "refused"

\* The worker's promise settles.  After the timeout nobody listens; before it, the clock
\* is read, and if that throws the assignment counts as failed.
WorkerSettles(p, t) ==
  /\ work[<<p, t>>].running
  /\ work' = [work EXCEPT ![<<p, t>>] = NoWork]
  /\ IF ~Awaited(p, t) THEN UNCHANGED answer
     ELSE \E verdict \in {Reconcile(p, proposal) : proposal \in Proposals} \cup {"refused"} :
            answer' = [answer EXCEPT ![<<p, t>>] = verdict]
  /\ UNCHANGED <<wall, plans, known, leases, outcome>>

\* Fault: the timeout gives up on the worker without telling it.
TimeoutSilent(p, t) ==
  /\ work[<<p, t>>].running /\ Awaited(p, t)
  /\ answer' = [answer EXCEPT ![<<p, t>>] = "refused"]
  /\ UNCHANGED <<wall, plans, known, leases, work, outcome>>

\* Fault: the timer only aborts the controller and leaves the race to the worker.
TimeoutOnlyAborts(p, t) ==
  /\ work[<<p, t>>].running /\ Awaited(p, t)
  /\ work' = [work EXCEPT ![<<p, t>>].aborted = TRUE]
  /\ UNCHANGED <<wall, plans, known, leases, answer, outcome>>

\* The timer of executionTimeoutMs: its clock is not the injected one.
Timeout(p, t) ==
  /\ work[<<p, t>>].running /\ Awaited(p, t)
  /\ answer' = [answer EXCEPT ![<<p, t>>] = "refused"]
  /\ work' = [work EXCEPT ![<<p, t>>].aborted = TRUE]
  /\ UNCHANGED <<wall, plans, known, leases, outcome>>

AllAnswered(p) == \A t \in Assigned(p) : answer[<<p, t>>] # "none"
Forget(p) == answer' = [w \in Worker |-> IF w[1] = p THEN "none" ELSE answer[w]]

\* Fault: the state of the record is not looked at again.
CompleteUnchecked(p) ==
  /\ plans[p].called /\ AllAnswered(p) /\ outcome[p] = "none"
  /\ outcome' = [outcome EXCEPT ![p] = "result"]
  /\ Commit(ReleaseRecords(Book, {p}))
  /\ Forget(p)
  /\ UNCHANGED <<wall, known>>

\* execute after Promise.all: the result, or an error if the plan was released meanwhile
\* or the clock moved backwards; the plan is released either way.  The answers go with it.
Complete(p) ==
  /\ plans[p].called /\ AllAnswered(p) /\ outcome[p] = "none"
  /\ \E ends \in IF plans[p].state = "executing" THEN {"result", "thrown"} ELSE {"thrown"} :
       outcome' = [outcome EXCEPT ![p] = ends]
  /\ Commit(ReleaseRecords(Book, {p}))
  /\ Forget(p)
  /\ UNCHANGED <<wall, known>>

-----------------------------------------------------------------------------
(* releasePlan, activeLeases and the clock *)

ReleasePlan(p) ==
  /\ p \in known /\ plans[p].state # "released"
  /\ Commit(ReleaseRecords(Book, {p}))
  /\ UNCHANGED <<wall, known, answer, outcome>>

ActiveLeases ==
  /\ Commit(ExpirePlans(Book))
  /\ UNCHANGED <<wall, known, answer, outcome>>

Tick ==
  /\ wall < MaxTime
  /\ wall' = wall + 1
  /\ UNCHANGED <<plans, known, leases, work, answer, outcome>>

CoordinatorNext ==
  /\ \/ \E runnable \in SUBSET Tasks : Plan(runnable)
     \/ PlanRefused \/ ActiveLeases \/ Tick
     \/ \E p \in DOMAIN plans :
          \/ \E authentic \in BOOLEAN : Execute(p, authentic)
          \/ \E t \in Assigned(p) : WorkerSettles(p, t) \/ Timeout(p, t)
          \/ Complete(p) \/ ReleasePlan(p)
  /\ UNCHANGED maxPlanRecords

\* The worker timers fire and the event loop runs execute to its end.
CoordinatorFairness ==
  \A p \in PlanIds :
    /\ WF_coordinationVars(p \in DOMAIN plans /\ Complete(p) /\ UNCHANGED maxPlanRecords)
    /\ \A t \in Tasks : WF_coordinationVars(/\ p \in DOMAIN plans /\ t \in Assigned(p)
                                           /\ Timeout(p, t) /\ UNCHANGED maxPlanRecords)

-----------------------------------------------------------------------------
(* Properties *)

\* Type invariant of the coordinator.
CoordinatorTypeOK ==
  /\ maxPlanRecords \in RecordLimits /\ wall \in 0 .. MaxTime
  /\ Len(plans) <= MaxPlans
  /\ \A p \in DOMAIN plans :
       /\ plans[p].state \in {"reserved", "executing", "released"}
       /\ plans[p].staffing \in [Assigned(p) -> Specialists]
  /\ known \subseteq DOMAIN plans /\ Cardinality(known) <= maxPlanRecords
  /\ leases \subseteq [plan : DOMAIN plans, task : Tasks, specialist : Specialists]
  /\ work \in [Worker -> [running : BOOLEAN, aborted : BOOLEAN]]
  /\ answer \in [Worker -> {"none", "accepted", "refused"}]
  /\ outcome \in [PlanIds -> {"none", "thrown", "result"}]

\* What two claims have in common, by the files and keys they stand for.
Paths == UNION {{c.key : c \in Claims[t]} : t \in Tasks}
Covers(c, path) == IF c.namespace = "repository" THEN IsPrefix(c.key, path) ELSE c.key = path
Shared(c, d) == {path \in Paths : c.namespace = d.namespace /\ Covers(c, path) /\ Covers(d, path)}

\* The parts of LeasesSound below.
LeasesExclusive ==
  \A l, m \in leases : l # m =>
    /\ l.task # m.task
    /\ \A c \in Claims[l.task], d \in Claims[m.task] : c.access = "write" => Shared(c, d) = {}

WithinCapacity ==
  /\ Cardinality(leases) <= MaxActive
  /\ \A p \in DOMAIN plans : Cardinality({l \in leases : l.plan = p}) <= MaxBatchSize
  /\ \A s \in Specialists : Cardinality({l \in leases : l.specialist = s}) <= MaxConcurrency[s]

NoLeakedLease == \A l \in leases : l.plan \in known /\ plans[l.plan].state # "released"

\* The leases over plans made from snapshots of any age, expired, released and pruned:
\* what one active lease may write no other one covers, and no task is leased twice; the
\* batch size, the runtime's capacity and every specialist's own limit hold over all plans
\* together; and no lease outlives the record that would release it, which would block its
\* task and its claims for ever.  (The coordinator's maps keep their types.)
LeasesSound == CoordinatorTypeOK /\ LeasesExclusive /\ WithinCapacity /\ NoLeakedLease

\* A worker that was not told to stop still holds its lease, so two such workers never
\* share what one of them writes: after timeouts, expiry, releasePlan and pruning.
LiveWorkersHoldLeases ==
  \A p \in DOMAIN plans : \A t \in Assigned(p) :
    work[<<p, t>>].running /\ ~work[<<p, t>>].aborted =>
      \E l \in leases : l.plan = p /\ l.task = t

\* Leases and the workers that hold them: sound leases, and no live worker without one.
CoordinationSound == LeasesSound /\ LiveWorkersHoldLeases

\* execute returns a result only while every assignment of the plan still holds its lease: a
\* plan whose leases were taken meanwhile, by releasePlan or by a later call that swept what had
\* expired, yields an error.  Past its time but not swept yet, it still returns its result
\* (coordinator.ts 217-224).
ResultUnderLease ==
  [][\A p \in PlanIds : outcome[p] = "none" /\ outcome'[p] = "result" =>
       \A t \in Assigned(p) : \E l \in leases : l.plan = p /\ l.task = t]_coordinationVars

\* Every execute comes to its end and gives its leases back, even when workers hang: again
\* and again none is open, and one that has ended stays so.
ExecutionEnds ==
  []<>(\A p \in DOMAIN plans :
         plans[p].called => outcome[p] # "none" /\ plans[p].state = "released")
=============================================================================
