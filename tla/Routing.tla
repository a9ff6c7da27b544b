------------------------------ MODULE Routing ------------------------------
(***************************************************************************)
(* Which model a task goes to and what may be spent on it: the registry of *)
(* independent evaluations, the empirical router under the failure-aware   *)
(* one, the reasoning plan, the controller that reads evidence after each  *)
(* call, and the bounded cache of results.                                 *)
(*                                                                         *)
(* A malformed or contradictory input makes a call throw and changes       *)
(* nothing: Refused collects those cases.  A hash stands for the record it *)
(* is taken of, and the order of two keys is the order of the numbers that *)
(* stand for their parts.                                                  *)
(***************************************************************************)
EXTENDS Integers, FiniteSets, Sequences, FiniteSetsExt

CONSTANTS
  Profiles,        \* model profiles that every call supplies
  Evaluations,     \* evaluation records somebody may register
  RouteFailures,   \* failures of routes that somebody may report
  RouteRequests,   \* tasks to route
  RouterConfig,    \* EmpiricalRouterConfig: maxAge, minimum, uplift, step, perStep
  FailurePolicy,   \* FailureAwareRoutingPolicy: maxAge, ceiling
  PriceUnit,       \* prices are multiples of 1/PriceUnit per million tokens
  MaxEntries,      \* cached results
  Answers,         \* results that a task may have
  MaxRegistered, MaxReported, MaxNow,   \* bounds
  NoWork

\* Qualities, floors and thresholds are basis points; prices, amounts, times and limits are
\* numbers without a sign (the parsers of router.ts, multi-model.ts, reasoning.ts and cache.ts).
Risks == {"low", "medium", "high", "critical"}
RequestTyped(q) ==
  /\ q.risk \in Risks /\ q.floor \in 0 .. 10000
  /\ {q.uncertainty, q.input, q.output} \subseteq Nat
  /\ {q.budget.calls, q.budget.parallel, q.budget.branches, q.budget.critiques, q.budget.repairs,
      q.budget.cost, q.budget.tokens} \subseteq Nat
  /\ {q.cache.read, q.cache.write, q.cache.sensitive} \subseteq BOOLEAN /\ q.cache.maxAge \in Nat
EvaluationTyped(e) == {e.id, e.model, e.version, e.effort, e.at, e.quality, e.latency, e.pass} \subseteq Nat

ASSUME RoutingAssumption ==
  /\ PriceUnit \in Nat \ {0} /\ MaxEntries \in Nat
  /\ RouterConfig.minimum \in 0 .. 10000 /\ RouterConfig.uplift \in [Risks -> Nat]
  /\ RouterConfig.step \in Nat \ {0} /\ RouterConfig.perStep \in Nat
  /\ \A p \in Profiles : p.inputPrice \in Nat /\ p.outputPrice \in Nat
  /\ \A e \in Evaluations : EvaluationTyped(e)
  /\ \A q \in RouteRequests : RequestTyped(q)

VARIABLES
  evaluations,     \* ModelEvaluationRegistry.#records
  failures,        \* the failure history that the caller keeps
  now,
  work,            \* the routed task: its request, its decision, ReasoningAttemptState and what it cost
  results          \* BoundedRoutingResultCache.#entries

routingVars == <<evaluations, failures, now, work, results>>

-----------------------------------------------------------------------------
(* The reasoning plan (reasoning.ts) *)

desiredByRisk == [low |-> <<1, 0, 1>>, medium |-> <<2, 1, 1>>, high |-> <<3, 1, 2>>, critical |-> <<4, 2, 2>>]
AtLeast(q, bps) == IF q.uncertainty >= bps THEN 1 ELSE 0
TokensPerCall(q) == q.input + q.output
CallCeiling(q) ==
  IF TokensPerCall(q) = 0 THEN q.budget.calls ELSE Min({q.budget.calls, q.budget.tokens \div TokensPerCall(q)})

\* Fault: critiques take the call that a repair needs.
PlanWithoutReserve(q) ==
  LET desired == desiredByRisk[q.risk]
      calls == CallCeiling(q)
      branches == Min({desired[1] + AtLeast(q, 5000), q.budget.branches, calls})
      critiques == Min({desired[2] + AtLeast(q, 7500), q.budget.critiques, calls - branches})
  IN  [calls |-> calls, branches |-> branches, critiques |-> critiques,
       repairs |-> Min({desired[3], q.budget.repairs, calls - branches - critiques}),
       parallel |-> Min({q.budget.parallel, branches, calls}),
       perCall |-> TokensPerCall(q), tokens |-> q.budget.tokens]
createReasoningPlan(q) ==
  LET desired == desiredByRisk[q.risk]
      calls == CallCeiling(q)
      branches == Min({desired[1] + AtLeast(q, 5000), q.budget.branches, calls})
      left == calls - branches
      reserved == Min({desired[3], q.budget.repairs, IF left > 0 THEN 1 ELSE 0})
      critiques == Min({desired[2] + AtLeast(q, 7500), q.budget.critiques, Max({0, left - reserved})})
  IN  [calls |-> calls, branches |-> branches, critiques |-> critiques,
       repairs |-> Min({desired[3], q.budget.repairs, left - critiques}),
       parallel |-> Min({q.budget.parallel, branches, calls}),
       perCall |-> TokensPerCall(q), tokens |-> q.budget.tokens]

-----------------------------------------------------------------------------
(* Routes that failed lately (multi-model.ts) *)

exactRouteKey(x) == <<x.model, x.version, x.class, x.effort>>
ImmediateExclusions == {"authentication", "capability_mismatch", "policy_denied"}
CurrentFailures(q) == {f \in failures : f.class = q.class /\ now - f.at <= FailurePolicy.maxAge}

ExcludedRoutes(q) ==
  {exactRouteKey(f) : f \in {g \in CurrentFailures(q) :
     \/ g.category \in ImmediateExclusions
     \/ Cardinality({h \in CurrentFailures(q) : exactRouteKey(h) = exactRouteKey(g) /\ h.signature = g.signature})
          >= FailurePolicy.ceiling}}

OfferedEvaluations(q) ==
  LET excluded == ExcludedRoutes(q) IN {e \in evaluations : exactRouteKey(e) \notin excluded}
ProfilesFor(offered) == {p \in Profiles : \E e \in offered : e.model = p.model /\ e.version = p.version}

-----------------------------------------------------------------------------
(* The empirical router (router.ts) *)

effectiveQualityFloor(q) ==
  Min({10000, Max({q.floor, RouterConfig.minimum}) + RouterConfig.uplift[q.risk]
                  + (q.uncertainty \div RouterConfig.step) * RouterConfig.perStep})

evaluationRouteKey(e) == <<e.model, e.version, e.effort>>
MatchingEvaluations(q) == {e \in OfferedEvaluations(q) : e.class = q.class}
\* Fault: a bad evaluation is dropped before the newest one is looked for.
NewestGood(q) ==
  LET matching == {e \in MatchingEvaluations(q) : e.quality >= effectiveQualityFloor(q)}
  IN  {e \in matching : \A d \in matching : evaluationRouteKey(d) = evaluationRouteKey(e) => d.at <= e.at}
NewestEvaluations(q) ==
  LET matching == MatchingEvaluations(q)
  IN  {e \in matching : \A d \in matching : evaluationRouteKey(d) = evaluationRouteKey(e) => d.at <= e.at}
freshestEvaluations(q) == {e \in NewestEvaluations(q) : now - e.at <= RouterConfig.maxAge}

capabilityMismatch(p, q) ==
  \/ ~(q.needs \subseteq p.offers)
  \/ p.context < q.minContext
  \/ p.output < q.minOutput

PriceOfCall(p, q) == q.input * p.inputPrice + q.output * p.outputPrice     \* in units of 1/PriceUnit
\* Fault: the price of a call is rounded down.
Floor(x) == x \div PriceUnit
Ceil(x) == (x + PriceUnit - 1) \div PriceUnit
estimatedWorstCaseCost(p, q) == Ceil(PriceOfCall(p, q)) * CallCeiling(q)

ProfileOf(x) == CHOOSE p \in Profiles : p.model = x.model /\ p.version = x.version

RoutingCandidates(q) ==
  LET floor == effectiveQualityFloor(q)
  IN  {[evaluation |-> e, cost |-> estimatedWorstCaseCost(ProfileOf(e), q)] :
         e \in {d \in freshestEvaluations(q) :
                  /\ ~capabilityMismatch(ProfileOf(d), q)
                  /\ d.quality >= floor
                  /\ ProfileOf(d).currency = q.currency
                  /\ estimatedWorstCaseCost(ProfileOf(d), q) <= q.budget.cost}}

\* The first place in which two tuples of numbers differ decides.
Precedes(a, b) == \E i \in DOMAIN a : a[i] < b[i] /\ \A j \in 1 .. i - 1 : a[j] = b[j]
candidateKey(c) == Append(evaluationRouteKey(c.evaluation), c.evaluation.id)
comparePrimaryCandidates(c, d) ==
  LET Rank(x) == <<x.cost, x.evaluation.latency, -x.evaluation.quality, -x.evaluation.pass>> \o candidateKey(x)
  IN  Precedes(Rank(c), Rank(d))
compareEscalations(c, d) ==
  LET Rank(x) == <<x.evaluation.quality, x.cost, x.evaluation.latency>> \o candidateKey(x)
  IN  Precedes(Rank(c), Rank(d))

Primary(candidates) == CHOOSE c \in candidates : \A d \in candidates \ {c} : comparePrimaryCandidates(c, d)
\* Sorted: at every place the candidate that as many others come before.
Escalations(candidates, primary) ==
  LET better == {c \in candidates : c.evaluation.quality > primary.evaluation.quality}
  IN  [i \in 1 .. Cardinality(better) |->
         CHOOSE c \in better : Cardinality({d \in better : compareEscalations(d, c)}) = i - 1]

\* Strict output without structured output, more parallel calls than calls, no call at
\* all; a failure or an evaluation from the future or of two contents; an evaluation of a
\* profile version that is not supplied, of an effort the model lacks; two newest ones.
MalformedRequest(q) ==
  \/ "strict" \in q.needs /\ "structured" \notin q.needs
  \/ q.budget.parallel > q.budget.calls
  \/ createReasoningPlan(q).branches < 1
RefusedFailures(q) ==
  \/ \E f, g \in failures : f # g /\ f.id = g.id
  \/ \E f \in failures : f.class = q.class /\ f.at > now
RefusedProfiles(q) ==
  LET profiles == ProfilesFor(OfferedEvaluations(q))
  IN  \E p \in profiles : p.observed > now \/ \E r \in profiles : r # p /\ r.model = p.model
RefusedEvaluations(q) ==
  \E e \in OfferedEvaluations(q) :
    \/ e.at > now
    \/ ~\E p \in Profiles : p.model = e.model /\ p.version = e.version /\ e.effort \in p.efforts \cup {0}
ConflictingEvaluations(q) ==
  LET newest == NewestEvaluations(q)
  IN  \E d, e \in newest : d # e /\ evaluationRouteKey(d) = evaluationRouteKey(e)
Refused(q) ==
  \/ OfferedEvaluations(q) = {}
  \/ MalformedRequest(q)
  \/ RefusedFailures(q) \/ RefusedProfiles(q) \/ RefusedEvaluations(q) \/ ConflictingEvaluations(q)
  \/ RoutingCandidates(q) = {}

cacheDecision(q, primary) ==
  LET enabled == ~q.cache.sensitive /\ q.cache.maxAge > 0 /\ (q.cache.read \/ q.cache.write)
  IN  [read |-> enabled /\ q.cache.read, write |-> enabled /\ q.cache.write, maxAge |-> q.cache.maxAge,
       key |-> [content |-> q.cache.content, floor |-> effectiveQualityFloor(q), tokens |-> <<q.input, q.output>>,
                evaluation |-> primary.evaluation, plan |-> createReasoningPlan(q),
                needs |-> <<q.needs, q.minContext, q.minOutput>>, class |-> q.class, task |-> q.task]]

RoutingDecision(q) ==
  LET candidates == RoutingCandidates(q)
      primary == Primary(candidates)
  IN  [primary |-> primary, escalations |-> Escalations(candidates, primary), plan |-> createReasoningPlan(q),
       floor |-> effectiveQualityFloor(q), cache |-> cacheDecision(q, primary), class |-> q.class, task |-> q.task]

-----------------------------------------------------------------------------
(* Evaluations, failures, and a task that is routed and worked on *)

IndependentProducers == {"independent_eval", "project_eval"}

RegisterEvaluation(e) ==
  /\ e.producer \in IndependentProducers
  /\ \A d \in evaluations : d.id # e.id
  /\ Cardinality(evaluations) < MaxRegistered
  /\ evaluations' = evaluations \cup {e}
  /\ UNCHANGED <<failures, now, work, results>>

ReportFailure(f) ==
  /\ Cardinality(failures) < MaxReported
  /\ failures' = failures \cup {f}
  /\ UNCHANGED <<evaluations, now, work, results>>

\* One task at a time; nothing is spent until its branches run.
RouteTask(q) ==
  /\ work # NoWork => work.last \in {"ACCEPT", "BLOCK"}
  /\ ~Refused(q)
  /\ work' = [request |-> q, decision |-> RoutingDecision(q), calls |-> 0, critiques |-> 0, repairs |-> 0,
              escalation |-> 0, spent |-> 0, last |-> "routed"]
  /\ UNCHANGED <<evaluations, failures, now, results>>

Working == IF work.escalation = 0 THEN work.decision.primary ELSE work.decision.escalations[work.escalation]

\* n calls of the model that the task is at, after the step called last.
Called(w, c, n, last) ==
  [w EXCEPT !.calls = @ + n, !.spent = @ + n * PriceOfCall(ProfileOf(c.evaluation), w.request), !.last = last]

RunBranches ==
  /\ work # NoWork /\ work.last = "routed"
  /\ work' = Called(work, work.decision.primary, work.decision.plan.branches, "answered")
  /\ UNCHANGED <<evaluations, failures, now, results>>

Signals == [verdict : {"FAIL", "NONE", "PASS", "REPAIR_REQUIRED"}, independent : BOOLEAN, contradictory : BOOLEAN]

\* Fault: the next model is tried whether or not a call is left.
EscalateAnyway(w) ==
  IF w.escalation < Len(w.decision.escalations) THEN "ESCALATE" ELSE "BLOCK"
escalateOrBlock(w) ==
  IF w.escalation < Len(w.decision.escalations) /\ w.calls < w.decision.plan.calls THEN "ESCALATE" ELSE "BLOCK"

ControllerAction(w, s) ==
  LET plan == w.decision.plan
  IN  CASE s.independent /\ s.verdict = "PASS" /\ ~s.contradictory -> "ACCEPT"
        [] s.contradictory -> escalateOrBlock(w)
        [] ~s.contradictory /\ s.verdict \in {"FAIL", "REPAIR_REQUIRED"} ->
             IF w.repairs < plan.repairs /\ w.calls < plan.calls THEN "REPAIR" ELSE escalateOrBlock(w)
        [] OTHER -> IF w.critiques < plan.critiques /\ w.calls < plan.calls THEN "CRITIQUE" ELSE escalateOrBlock(w)

\* What the caller does with the controller's answer: at most one call.
Performed(w, action) ==
  CASE action = "REPAIR" -> [Called(w, Working, 1, action) EXCEPT !.repairs = @ + 1]
    [] action = "CRITIQUE" -> [Called(w, Working, 1, action) EXCEPT !.critiques = @ + 1]
    [] action = "ESCALATE" ->
         [Called(w, w.decision.escalations[w.escalation + 1], 1, action) EXCEPT !.escalation = @ + 1]
    [] OTHER -> [w EXCEPT !.last = action]

ControllerNext(s) ==
  /\ work # NoWork /\ work.last \notin {"routed", "ACCEPT", "BLOCK"}
  /\ work' = Performed(work, ControllerAction(work, s))
  /\ UNCHANGED <<evaluations, failures, now, results>>

-----------------------------------------------------------------------------
(* The result cache (cache.ts) *)

CachedUnder(key) == {r \in results : r.decision.cache.key = key}

\* With equal creation times the order of two hashes decides.
Oldest(S) == {r \in S : \A t \in S : r.created <= t.created}

\* A second write under a key is returned or denied: neither changes the cache.
CacheResult(answer) ==
  /\ work # NoWork /\ work.last = "ACCEPT"
  /\ work.decision.cache.write
  /\ CachedUnder(work.decision.cache.key) = {}
  /\ LET record == [decision |-> work.decision, answer |-> answer, created |-> now, expires |-> now + work.decision.cache.maxAge]
         grown == results \cup {record}
     IN  IF Cardinality(grown) <= MaxEntries THEN results' = grown ELSE \E r \in Oldest(grown) : results' = grown \ {r}
  /\ UNCHANGED <<evaluations, failures, now, work>>

\* Fault: the key alone identifies a result.
HitByKey(d) == {r \in results : d.cache.read /\ r.decision.cache.key = d.cache.key /\ now < r.expires}
\* The record that get returns, as a set of at most one.
Hit(d) ==
  {r \in results : d.cache.read /\ r.decision.cache.key = d.cache.key /\ r.decision = d /\ now < r.expires}

\* A read that finds its own record expired removes it.
ReadExpired ==
  /\ work # NoWork /\ work.decision.cache.read
  /\ \E r \in CachedUnder(work.decision.cache.key) :
       r.decision = work.decision /\ now >= r.expires /\ results' = results \ {r}
  /\ UNCHANGED <<evaluations, failures, now, work>>

RoutingTick ==
  /\ now < MaxNow
  /\ now' = now + 1
  /\ UNCHANGED <<evaluations, failures, work, results>>

RoutingInit == evaluations = {} /\ failures = {} /\ now = 0 /\ work = NoWork /\ results = {}

RoutingNext ==
  \/ \E e \in Evaluations : RegisterEvaluation(e)
  \/ \E f \in RouteFailures : ReportFailure(f)
  \/ \E q \in RouteRequests : RouteTask(q)
  \/ RunBranches
  \/ \E s \in Signals : ControllerNext(s)
  \/ \E a \in Answers : CacheResult(a)
  \/ ReadExpired
  \/ RoutingTick

-----------------------------------------------------------------------------
(* Properties *)

\* What a decision may rest on: the newest evaluation of its model and effort for this kind
\* of task, of an age and a quality the request asks for, of a route nobody was refused by.
RestsOn(q, e) ==
  /\ e \in evaluations /\ e.class = q.class /\ e.at <= now /\ now - e.at <= RouterConfig.maxAge
  /\ e.quality >= q.floor /\ e.quality >= RouterConfig.minimum
  /\ ~\E d \in evaluations \ {e} : exactRouteKey(d) = exactRouteKey(e) /\ d.at >= e.at
  /\ ~\E f \in failures : /\ exactRouteKey(f) = exactRouteKey(e) /\ f.category \in ImmediateExclusions
                          /\ now - f.at <= FailurePolicy.maxAge

\* Whatever was registered and reported before, and whatever is asked now, a decision
\* rests on evidence that nothing supersedes; nothing cheaper qualifies; every next model
\* is better than the first and no worse than the one before; and its plan keeps a call
\* for a repair whenever the budget has one beyond the branches (router.ts, multi-model.ts,
\* reasoning.ts).
DecisionsRest ==
  evaluations # {} => \A q \in RouteRequests : ~Refused(q) =>
    LET d == RoutingDecision(q)
        ladder == <<d.primary>> \o d.escalations
        plan == d.plan
    IN  /\ \A i \in DOMAIN ladder : RestsOn(q, ladder[i].evaluation)
        /\ \A c \in RoutingCandidates(q) : c.cost >= d.primary.cost
        /\ \A i \in 2 .. Len(ladder) : /\ ladder[i].evaluation.quality > d.primary.evaluation.quality
                                      /\ ladder[i].evaluation.quality >= ladder[i - 1].evaluation.quality
        /\ plan.branches + plan.critiques + plan.repairs <= plan.calls
        /\ (plan.branches < q.budget.calls /\ q.budget.repairs > 0
             /\ (plan.branches + 1) * TokensPerCall(q) <= q.budget.tokens) => plan.repairs > 0

\* Over every sequence of verdicts, and whichever models the task climbs to, its calls,
\* tokens and money stay within the request's budget, and it is given up only when no
\* call or no better model is left (reasoning.ts, estimatedWorstCaseCostMicros).
SpendingBounded ==
  work # NoWork =>
    LET q == work.request
    IN  /\ work.calls <= q.budget.calls
        /\ work.calls * TokensPerCall(q) <= q.budget.tokens
        /\ work.spent <= q.budget.cost * PriceUnit
        /\ work.last = "BLOCK" => work.calls = work.decision.plan.calls \/ work.escalation = Len(work.decision.escalations)

\* A task that is routed now is served a stored result only if that result came from the
\* evaluation that is still the newest and still good enough, within the age that the
\* task allows, and never for sensitive input (cache.ts, cacheDecision).
HitsCurrent ==
  results # {} => \A q \in RouteRequests : ~Refused(q) =>
    \A r \in Hit(RoutingDecision(q)) :
      /\ RestsOn(q, r.decision.primary.evaluation)
      /\ now - r.created < q.cache.maxAge
      /\ ~q.cache.sensitive

\* Tasks go to the cheapest model that current evidence supports, within their budget, and
\* are answered from the cache only with what a current decision would have produced.
RoutingSound == DecisionsRest /\ SpendingBounded /\ HitsCurrent /\ Cardinality(results) <= MaxEntries
=============================================================================
