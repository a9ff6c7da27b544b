----------------------------- MODULE MCServices -----------------------------
(***************************************************************************)
(* The services around the kernel: the hosted mission backend with its     *)
(* clients and its worker, the coding engine, the choice of a model, the   *)
(* skills that a hosted run is bound to, and the keys of the durable job   *)
(* queue.  They share no state: a behaviour exercises one part of one of   *)
(* them.                                                                   *)
(***************************************************************************)
EXTENDS TLC, ClientGateway, HostedWorker, Coding, RunSkills, Routing

CONSTANTS k1, k2, j1, j2, w1, w2, r1, NoWorker, NoInput, NoLease

VARIABLES
  part,                                                \* the part this behaviour exercises
  jobs, jobIdempotency, jobEvents, eventCount, runner  \* the job queue

-----------------------------------------------------------------------------
(* The job queue: two jobs, and a second immutable input for the first one. *)

JobInput(j, priority, attempts, delay) == [jobId |-> j, priority |-> priority, maxAttempts |-> attempts, delay |-> delay]
TwoJobs == {JobInput(j1, 0, 2, 0), JobInput(j1, 1, 1, 0), JobInput(j2, 1, 1, 1)}

Queue == INSTANCE JobRunner WITH
  JobIds <- {j1, j2}, IdempotencyKeys <- {k1, k2}, Inputs <- TwoJobs, WorkerIds <- {w1}, LeaseMs <- 1, RetryDelays <- {0},
  MaxOverdue <- 1, MaxJobs <- 2, MaxJobEvents <- 6, Runners <- {r1}, WorkerId <- [r \in {r1} |-> w1], TimeoutMs <- 1

\* SQL NULL is none of the values.
ASSUME QueueAssumption == NoWorker # w1 /\ NoInput \notin TwoJobs /\ NoLease \notin Queue!Lease

-----------------------------------------------------------------------------
(* The coding engine *)

Demand(id, m, task, after) ==
  [id |-> id, mission |-> m, task |-> task, kinds |-> {"quality_gate"}, after |-> after, wellFormed |-> TRUE]
Item(id, m, task, kind, status, observed, class) ==
  [id |-> id, mission |-> m, task |-> task, kind |-> kind, subject |-> "s", status |-> status,
   observed |-> observed, class |-> class, wellFormed |-> TRUE]
Bind(claim, ids) == [claim |-> claim, evidence |-> ids, wellFormed |-> TRUE]

\* One claim and one item that is right or wrong in one respect or several, and a second claim and a
\* second item that repeat, contradict or share.
Claims == {<<>>} \cup {<<Demand("c1", m, "t1", a)>> : m \in {"m", "n"}, a \in {0, 1, 3}} \cup
          {<<Demand("c1", "m", "t1", 1), Demand(i, "m", t, 1)>> : i \in {"c1", "c2"}, t \in {"t1", "t2"}}
Evidence == {<<Item("e1", m, t, k, "PASS", o, c)>> : m \in {"m", "n"}, t \in {"t1", "t2"}, k \in {"quality_gate", "changed_file"},
                                                     o \in 0 .. 3, c \in {"independent_tool", "external"}} \cup
            {<<Item("e1", "m", "t1", "quality_gate", "PASS", 2, "independent_tool"),
               Item(i, "m", t, "quality_gate", st, 2, c)>> : i \in {"e1", "e2"}, t \in {"t1", "t2"}, st \in {"PASS", "FAIL"},
                                                             c \in {"independent_tool", "runtime"}}
BindingSets == {<<>>, <<Bind("c1", {"e1"})>>, <<Bind("c1", {"e1"}), Bind("c2", {"e2"})>>, <<Bind("c1", {"e1"}), Bind("c2", {"e1"})>>,
                <<Bind("c1", {"e1"}), Bind("c1", {"e2"})>>, <<Bind("c1", {"e1", "e2"})>>, <<Bind("c1", {})>>}
MCRequests == [mission : {"m"}, at : {2}, claims : Claims, evidence : Evidence, bindings : BindingSets]

MCSignals ==
  [reason : {"cancelled", "denied", "context_overflow", "rate_limit", "quality_gate_failed", "stale_preimage", "other"},
   source : {"verification", "provider"}, contradictory : BOOLEAN, independent : {TRUE}, retryable : BOOLEAN,
   sideEffect : {"NONE", "REVERSIBLE", "IRREVERSIBLE_OR_UNKNOWN"}, rollback : BOOLEAN]
MCBudgets == {[a \in Budgeted |-> n] : n \in {1, 3}}

Change(path, op, pre, content, deps) ==
  [path |-> path, op |-> op, pre |-> pre, content |-> content, deps |-> deps, owner |-> "s", safe |-> TRUE]
Proposal(changes) == <<[specialist |-> "s", changes |-> changes]>>

\* Two sets that meet in file 1, a cycle, and a file below another.
MCProposals ==
  {Proposal({Change(1, "REPLACE", "old", "x", {2}), Change(2, "CREATE", Absent, "x", {})}),
   Proposal({Change(1, "REPLACE", "old", "y", {})}) \o
     <<[specialist |-> "t", changes |-> {[Change(3, "DELETE", "old", Absent, {1}) EXCEPT !.owner = "t"]}]>>,
   Proposal({Change(1, "REPLACE", "old", "y", {3}), Change(3, "DELETE", "old", Absent, {1})}),
   Proposal({Change(2, "CREATE", Absent, "x", {}), Change(3, "REPLACE", "old", "x", {})})}
MCTree == <<"old", Absent, "old">>
MCOverlapping == {<<2, 3>>, <<3, 2>>}

-----------------------------------------------------------------------------
(* The choice of a model *)

Profile(model, input, output, observed) ==
  [model |-> model, version |-> 1, offers |-> {"tools"}, context |-> 8, output |-> 0, inputPrice |-> input, outputPrice |-> output,
   currency |-> "usd", efforts |-> {1}, observed |-> observed]
MCProfiles == {Profile(1, 1, 0, 0), Profile(2, 1, 1, 0), Profile(3, 3, 3, 1)}

Evaluated(id, model, at, quality) ==
  [id |-> id, model |-> model, version |-> 1, effort |-> 0, class |-> "coding", at |-> at, quality |-> quality, pass |-> 1,
   latency |-> 1, producer |-> "project_eval"]

\* Three models, one of them found worse later and one tried at an effort; a self-evaluation, another
\* kind of task, and a profile version that is gone.
PlainEvaluations == {Evaluated(1, 1, 0, 7000), Evaluated(3, 2, 0, 8000), Evaluated(4, 3, 1, 9500)}
MCEvaluations ==
  PlainEvaluations \cup
  {Evaluated(2, 1, 1, 6000), [Evaluated(5, 2, 0, 9000) EXCEPT !.effort = 1], [Evaluated(6, 1, 0, 9000) EXCEPT !.producer = "model"],
   [Evaluated(7, 2, 0, 9900) EXCEPT !.class = "general"], [Evaluated(8, 1, 0, 7500) EXCEPT !.version = 0]}

FailureOf(id, model, category, at) ==
  [id |-> id, model |-> model, version |-> 1, effort |-> 0, class |-> "coding", category |-> category, signature |-> category, at |-> at]
MCFailures == {FailureOf(1, 1, "authentication", 0), FailureOf(2, 1, "network", 1), FailureOf(3, 1, "network", 1), FailureOf(3, 2, "timeout", 1)}

Task(risk, uncertainty, calls, cost, tokens, age, sensitive) ==
  [task |-> 1, class |-> "coding", risk |-> risk, uncertainty |-> uncertainty, floor |-> 6500, needs |-> {"tools"}, minContext |-> 1,
   minOutput |-> 0, input |-> 1, output |-> 2, currency |-> "usd",
   budget |-> [calls |-> calls, parallel |-> 1, branches |-> 2, critiques |-> 2, repairs |-> 1, cost |-> cost, tokens |-> tokens],
   cache |-> [read |-> TRUE, write |-> TRUE, maxAge |-> age, sensitive |-> sensitive, content |-> 1]]

\* A task that may be answered from the cache within one unit of time or two, one whose money excludes the
\* best model by a rounded price, and a sensitive one.
MCTasks == {Task("low", 0, 4, 24, 12, 1, FALSE), Task("low", 0, 4, 24, 12, 2, FALSE), Task("medium", 5000, 4, 16, 14, 2, FALSE),
            Task("critical", 0, 4, 24, 9, 1, TRUE)}
MCRouterConfig == [maxAge |-> 1, minimum |-> 6500, uplift |-> [low |-> 0, medium |-> 250, high |-> 750, critical |-> 1250],
                   step |-> 2500, perStep |-> 250]
MCFailurePolicy == [maxAge |-> 1, ceiling |-> 2]

-----------------------------------------------------------------------------
backVars == <<clientVars, controlVars, hostedVars>>
engineVars == <<gate, recoveryVars, multiFileVars, codingVars>>
queueVars == <<jobs, jobIdempotency, jobEvents, eventCount, runner>>

Parts == {"state", "commands", "worker", "gate", "recovery", "multi", "coding", "edited", "queue", "runs", "products", "routes", "tasks"}

ServicesInit ==
  /\ part \in Parts
  /\ ClientInit /\ ControlInit /\ HostedInit
  /\ part # "worker" => stateHash = CHOOSE h \in StateHashes : TRUE
  /\ IF part = "gate" THEN GateInit ELSE gate = [request |-> CodingRequest(0), outcome |-> "none", builtIn |-> FALSE]
  /\ IF part = "recovery" THEN RecoveryInit
     ELSE /\ recovery = [signal |-> RollbackSignal("other", "runtime"), capable |-> {}, budget |-> [a \in Budgeted |-> 0], attempts |-> <<>>]
          /\ decided = "none"
  /\ MultiFileInit /\ CodingInit
  /\ Queue!Init
  /\ RunSkillInit /\ build.revision = 1 /\ (connected \/ part = "runs")
  /\ RoutingInit

\* One change of the installations beside a run that changes hands and builds.
RunsBesideInstall ==
  /\ connected' = connected
  /\ skillRequest'["r"].pc = "idle"
  /\ LET q == skillRequest'["q"] IN q.pc = "started" =>
       \/ <<q.scope, q.op, q.expected>> \in {<<"project", "install", 1>>, <<"project", "update", 1>>, <<"project", "disable", 1>>}
       \/ <<q.scope, q.op, q.expected>> = <<"global", "install", 1>> /\ (\A w \in RunWorkers : runWorker'[w].pc = "new")
\* Two requests about one scope, without a run.
ProductsOnly ==
  /\ runWorker' = runWorker
  /\ \A q \in SkillRequests : skillRequest'[q].pc = "started" => skillRequest'[q].scope = "project"

ClientsStep ==
  /\ \/ part = "state" /\ ClientNext /\ UNCHANGED <<controlVars, hostedVars>>
     \/ part = "commands" /\ ControlNext /\ UNCHANGED <<clientVars, hostedVars>>
     \/ part = "worker" /\ HostedNext /\ UNCHANGED <<clientVars, controlVars>>
  /\ UNCHANGED <<part, engineVars, queueVars, runSkillVars, routingVars>>

\* Two calls drive the mission, or one does while somebody else edits the file.
CodingStep ==
  /\ \/ part = "gate" /\ GateNext /\ UNCHANGED <<recoveryVars, multiFileVars, codingVars>>
     \/ part = "recovery" /\ RecoveryNext /\ UNCHANGED <<gate, multiFileVars, codingVars>>
     \/ part = "multi" /\ MultiFileNext /\ UNCHANGED <<gate, recoveryVars, codingVars>>
     \/ /\ part \in {"coding", "edited"} /\ CodingNext /\ UNCHANGED <<gate, recoveryVars, multiFileVars>>
        /\ part = "coding" => outside' = 0
        /\ part = "edited" => driver'[w2] = driver[w2]
  /\ UNCHANGED <<part, backVars, queueVars, runSkillVars, routingVars>>

\* What may be decided after any evaluations and failures, and the work on a decision and its
\* results while the better models are still being evaluated.
RoutingStep ==
  /\ part \in {"routes", "tasks"}
  /\ RoutingNext
  /\ part = "routes" => work' = NoWork
  /\ part = "tasks" => (failures' = {} /\ evaluations' \subseteq PlainEvaluations)
  /\ UNCHANGED <<part, backVars, engineVars, queueVars, runSkillVars>>

ServicesNext ==
  \/ ClientsStep \/ CodingStep \/ RoutingStep
  \/ part = "queue" /\ Queue!Next /\ UNCHANGED <<part, backVars, engineVars, runSkillVars, routingVars>>
  \/ /\ part \in {"runs", "products"} /\ RunSkillNext /\ UNCHANGED <<part, backVars, engineVars, queueVars, routingVars>>
     /\ connected' => connected
     /\ build'.deployed = {1, 2} => build'.revision = 2
     /\ IF part = "runs" THEN RunsBesideInstall ELSE ProductsOnly

ServicesSpec == ServicesInit /\ [][ServicesNext]_<<part, backVars, engineVars, queueVars, runSkillVars, routingVars>>

-----------------------------------------------------------------------------
\* What is decided on evidence: what the gate accepts, recovery that does not repeat what
\* failed or cannot be undone, and the model a task goes to with what is spent on it
\* (verification/engine.ts, reliability/controller.ts, routing/router.ts, routing/reasoning.ts).
DecisionsSound == GateSound /\ RecoverySafe /\ RoutingSound

\* The two orchestrators: files change all together or not at all, and a mission
\* completes on a verified file (runtime/multi-file.ts, runtime/coding.ts).
OrchestratorsSound == AllOrNothing /\ CodingSound

\* Idempotency keys of the queue (durable/store.ts 334-420): an accepted key names
\* the stored job with the input it was sent with, and every job has such a key.
KeysNameJobs == Queue!KeysNameJobs
=============================================================================
