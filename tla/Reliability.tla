----------------------------- MODULE Reliability -----------------------------
(***************************************************************************)
(* The reliability controller (src/reliability): a failure is classified,  *)
(* and a bounded, side-effect-aware recovery action is chosen.  The caller *)
(* carries the action out, counts it against the budget and records the    *)
(* attempt; it is modelled by what the controller requires of it.          *)
(***************************************************************************)
EXTENDS Integers, Sequences, FiniteSets

CONSTANTS FailureSignals, RecoveryBudgets, MaxRepeated, MaxFailures

VARIABLES recovery,   \* the failure at hand, what the caller can do, the budget, the attempts
          decided     \* the action last decided on, "none" while the caller carries it out
recoveryVars == <<recovery, decided>>

Budgeted == {"TARGETED_RETRY", "TARGETED_REPAIR", "ALTERNATIVE_PLAN", "ROLLBACK", "ESCALATE_VERIFIER", "ESCALATE_MODEL"}
Actions == Budgeted \cup {"CHECKPOINT_AND_BLOCK", "REDUCE_CONTEXT", "STOP_CANCELLED"}

ASSUME ReliabilityAssumption ==
  /\ MaxRepeated \in 1 .. 10 /\ MaxFailures \in Nat
  /\ RecoveryBudgets \subseteq [Budgeted -> Nat]

\* CATEGORY_BY_REASON, one reason for each category.
CategoryByReason ==
  [cancelled |-> "CANCELLED", denied |-> "POLICY", quota |-> "BUDGET", stale_preimage |-> "CONFLICT",
   context_overflow |-> "CONTEXT", malformed_response |-> "PLAN", rate_limit |-> "TRANSIENT",
   quality_gate_failed |-> "VERIFICATION"]

CategoryBySource ==
  [verification |-> "VERIFICATION", planner |-> "PLAN", tool |-> "EXECUTION", sandbox |-> "EXECUTION",
   persistence |-> "CONFLICT", provider |-> "UNKNOWN", runtime |-> "UNKNOWN"]

\* classifyCategory: a contradiction first, then the reason's entry, then the source.
Category(s) ==
  IF s.contradictory THEN "VERIFICATION"
  ELSE IF s.reason \in DOMAIN CategoryByReason THEN CategoryByReason[s.reason] ELSE CategoryBySource[s.source]

\* What classifyFailure accepts; classifyThrownFailure builds such signals from provider and tool errors.
SignalOk(s) == (s.contradictory => s.independent) /\ (s.rollback => s.sideEffect = "REVERSIBLE")

If(condition, actions) == IF condition THEN actions ELSE <<>>

\* candidatesFor
Candidates(s, capable) ==
  LET category == Category(s) IN
  CASE category = "CANCELLED" -> <<"STOP_CANCELLED">>
    [] category \in {"POLICY", "BUDGET"} \/ (category # "CANCELLED" /\ s.sideEffect = "IRREVERSIBLE_OR_UNKNOWN") -> <<"CHECKPOINT_AND_BLOCK">>
    [] OTHER ->
       CASE s.sideEffect = "REVERSIBLE" /\ s.rollback -> <<"ROLLBACK", "CHECKPOINT_AND_BLOCK">>
         [] category = "CONTEXT" /\ ~s.rollback ->
              If("context" \in capable, <<"REDUCE_CONTEXT">>) \o If(s.retryable, <<"TARGETED_RETRY">>) \o
              If("model" \in capable, <<"ESCALATE_MODEL">>)
         [] category = "TRANSIENT" /\ ~s.rollback ->
              IF ~s.retryable \/ s.sideEffect = "REVERSIBLE" THEN <<"CHECKPOINT_AND_BLOCK">>
              ELSE <<"TARGETED_RETRY">> \o If("model" \in capable, <<"ESCALATE_MODEL">>)
         [] category = "VERIFICATION" /\ ~s.rollback ->
              IF s.contradictory /\ "verifier" \in capable THEN <<"ESCALATE_VERIFIER", "CHECKPOINT_AND_BLOCK">>
              ELSE <<"TARGETED_REPAIR">> \o If("verifier" \in capable, <<"ESCALATE_VERIFIER">>) \o
                   If("model" \in capable, <<"ESCALATE_MODEL">>)
         [] category \in {"PLAN", "CONFLICT"} /\ ~s.rollback ->
              <<"ALTERNATIVE_PLAN">> \o If("model" \in capable, <<"ESCALATE_MODEL">>)
         [] OTHER -> If("model" \in capable, <<"ESCALATE_MODEL">>) \o <<"CHECKPOINT_AND_BLOCK">>

IsExhausted(action, budget) == action \in Budgeted /\ budget[action] = 0

\* Attempts as <<signal, action, outcome>>; they are distinct by their decision hash (normalizeRequest).
Repeats(action, s, attempts) ==
  Cardinality({i \in DOMAIN attempts : attempts[i][1] = s /\ attempts[i][2] = action /\ attempts[i][3] # "SUCCEEDED"}) >= MaxRepeated

\* The first candidate that is safe; without one the work is cancelled or blocked.
FirstOf(candidates, safe, s) ==
  IF safe # {} THEN candidates[CHOOSE i \in safe : \A j \in safe : i <= j]
  ELSE IF Category(s) = "CANCELLED" THEN "STOP_CANCELLED" ELSE "CHECKPOINT_AND_BLOCK"

\* Fault: an exhausted budget is noticed, a strategy that keeps failing is not.
DecidesAgain(s, attempts, budget, capable) ==
  LET candidates == Candidates(s, capable)
  IN  FirstOf(candidates, {i \in DOMAIN candidates : ~IsExhausted(candidates[i], budget)}, s)

\* decide: the first candidate that is neither exhausted nor a repeated failure.
Decide(s, attempts, budget, capable) ==
  LET candidates == Candidates(s, capable)
  IN  FirstOf(candidates, {i \in DOMAIN candidates : /\ ~IsExhausted(candidates[i], budget)
                                                    /\ ~Repeats(candidates[i], s, attempts)}, s)

RecoveryInit ==
  /\ recovery \in [signal : {s \in FailureSignals : SignalOk(s)}, capable : SUBSET {"context", "model", "verifier"},
                   budget : RecoveryBudgets, attempts : {<<>>}]
  /\ decided = "none"

DecideRecovery ==
  /\ decided = "none"
  /\ decided' = Decide(recovery.signal, recovery.attempts, recovery.budget, recovery.capable)
  /\ UNCHANGED recovery

\* The caller's attempt ends; the same failure comes back, or the work goes on.
AttemptEnds(outcome) ==
  /\ decided \in Actions \ {"CHECKPOINT_AND_BLOCK", "STOP_CANCELLED"}
  /\ Len(recovery.attempts) < MaxFailures
  /\ recovery' = [recovery EXCEPT !.attempts = Append(@, <<recovery.signal, decided, outcome>>),
                                  !.budget = [a \in Budgeted |-> IF a = decided THEN @[a] - 1 ELSE @[a]]]
  /\ decided' = IF outcome = "SUCCEEDED" THEN "recovered" ELSE "none"

RecoveryNext == DecideRecovery \/ \E o \in {"FAILED", "NO_PROGRESS", "SUCCEEDED"} : AttemptEnds(o)

(***************************************************************************)
(* A failure whose effects cannot be undone is never retried, repaired or  *)
(* replanned, a reversible one never retried before it is rolled back; no  *)
(* action is taken over its budget or after it has failed MaxRepeated      *)
(* times for the same failure (controller.ts 42-237).                      *)
(***************************************************************************)
RecoverySafe ==
  /\ \A a \in Budgeted : recovery.budget[a] >= 0
  /\ \A i \in DOMAIN recovery.attempts : ~Repeats(recovery.attempts[i][2], recovery.signal, SubSeq(recovery.attempts, 1, i - 1))
  /\ decided \in Actions =>
       /\ recovery.signal.sideEffect = "IRREVERSIBLE_OR_UNKNOWN" => decided \in {"CHECKPOINT_AND_BLOCK", "STOP_CANCELLED"}
       /\ Category(recovery.signal) \in {"POLICY", "BUDGET"} => decided = "CHECKPOINT_AND_BLOCK"
       /\ decided = "TARGETED_RETRY" => recovery.signal.retryable /\ ~recovery.signal.rollback
       /\ recovery.signal.rollback => decided \in {"ROLLBACK", "CHECKPOINT_AND_BLOCK", "STOP_CANCELLED"}
=============================================================================
