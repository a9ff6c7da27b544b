--------------------------- MODULE MissionRuntime ---------------------------
(***************************************************************************)
(* The mission aggregate of src/mission/runtime.ts and its concurrent      *)
(* callers.                                                                *)
(*                                                                         *)
(* First the aggregate as pure operators: the lifecycle table, what an     *)
(* event does to a snapshot, and which events the runtime builds for a     *)
(* request.  projectMission is a left fold of ApplyEvent; an event that    *)
(* applyEvent refuses makes every later load of the stream throw, which is *)
(* the state "POISONED".                                                   *)
(*                                                                         *)
(* Then the callers, on one mission over an event store:                   *)
(* InMemoryEventStore (src/events/store.ts) or SqliteDurableStore.append   *)
(* (src/durable/store.ts).  A method loads and projects the stream,        *)
(* compares the version, builds a batch, awaits, and appends the batch at  *)
(* the version it saw; other callers run during the await.  The stream is  *)
(* represented by its projection, snapshot.                                *)
(***************************************************************************)
EXTENDS Integers, Sequences

CONSTANTS
  Tasks,                  \* task identifiers of the mission
  Dimensions,             \* keys of BudgetCounters
  BudgetLimits,           \* budgetLimits of the mission
  Debits,                 \* the deltas callers debit
  Signatures,             \* failure signatures
  MaxEquivalentFailures   \* the anti-loop ceiling callers pass to recordFailure

ASSUME MissionAssumption ==
  /\ BudgetLimits \in [Dimensions -> Nat]
  /\ Debits \subseteq [Dimensions -> Nat]
  /\ MaxEquivalentFailures \in Nat \ {0}

NoState == "NONE"

TerminalStates == {"COMPLETED", "CANCELLED", "BLOCKED", "FAILED"}

InterruptibleStates ==
  {"CREATED", "UNDERSTANDING", "RETRIEVING", "PLANNING", "RISK_CHECK", "EXECUTING",
   "OBSERVING", "VERIFYING", "DIAGNOSING", "REPAIRING", "CHECKPOINTING", "FINAL_AUDIT"}

MissionStates ==
  TerminalStates \cup InterruptibleStates \cup {"PAUSING", "PAUSED", "RESUMING", "CANCELLING"}

NormalTransitions ==
  {<<"CREATED", "UNDERSTANDING">>, <<"UNDERSTANDING", "RETRIEVING">>,
   <<"RETRIEVING", "PLANNING">>, <<"PLANNING", "RISK_CHECK">>,
   <<"RISK_CHECK", "EXECUTING">>, <<"EXECUTING", "OBSERVING">>,
   <<"OBSERVING", "VERIFYING">>, <<"VERIFYING", "CHECKPOINTING">>,
   <<"VERIFYING", "DIAGNOSING">>, <<"DIAGNOSING", "REPAIRING">>,
   <<"REPAIRING", "VERIFYING">>, <<"CHECKPOINTING", "FINAL_AUDIT">>,
   <<"FINAL_AUDIT", "COMPLETED">>, <<"PAUSING", "PAUSED">>,
   <<"PAUSED", "RESUMING">>, <<"CANCELLING", "CANCELLED">>}

TaskStatuses == {"PENDING", "RUNNING", "VERIFIED", "FAILED", "CANCELLED"}

TaskTransitions ==
  {<<"PENDING", "RUNNING">>, <<"PENDING", "CANCELLED">>,
   <<"RUNNING", "VERIFIED">>, <<"RUNNING", "FAILED">>, <<"RUNNING", "CANCELLED">>,
   <<"FAILED", "PENDING">>, <<"FAILED", "CANCELLED">>}

\* MissionSnapshot; "ABSENT" before mission.created.
Snapshot ==
  [state : MissionStates \cup {"ABSENT", "POISONED"},
   resumeState : InterruptibleStates \cup {NoState},
   version : Nat,
   tasks : [Tasks -> TaskStatuses],
   usage : [Dimensions -> Nat],
   failures : [Signatures -> Nat]]

NoMission == [state |-> "ABSENT", resumeState |-> NoState, version |-> 0,
              tasks |-> [t \in Tasks |-> "PENDING"],
              usage |-> [d \in Dimensions |-> 0],
              failures |-> [f \in Signatures |-> 0]]

-----------------------------------------------------------------------------
(* Guards *)

\* Fault: a paused mission may resume into any active state.
TransitionAllowedAnyResume(s, to) ==
  /\ s.state \notin TerminalStates
  /\ CASE s.state = "RESUMING" -> to \in InterruptibleStates
       [] s.state \in InterruptibleStates /\ to \in {"PAUSING", "CANCELLING", "BLOCKED", "FAILED"} -> TRUE
       [] s.state \in {"PAUSING", "PAUSED"} /\ to = "CANCELLING" -> TRUE
       [] OTHER -> <<s.state, to>> \in NormalTransitions

\* assertTransition.
TransitionAllowed(s, to) ==
  /\ s.state \notin TerminalStates
  /\ IF s.state = "RESUMING"
     THEN s.resumeState # NoState /\ to = s.resumeState
     ELSE \/ s.state \in InterruptibleStates /\ to \in {"PAUSING", "CANCELLING", "BLOCKED", "FAILED"}
          \/ s.state \in {"PAUSING", "PAUSED"} /\ to = "CANCELLING"
          \/ <<s.state, to>> \in NormalTransitions

\* nextResumeState.
NextResumeState(s, to) ==
  CASE to = "PAUSING" -> s.state
    [] s.state = "RESUMING" /\ to = s.resumeState -> NoState
    [] to \in TerminalStates -> NoState
    [] OTHER -> s.resumeState

\* taskStatusEvent.
TaskStatusAllowed(s, task, status) ==
  /\ s.state \notin TerminalStates
  /\ <<s.tasks[task], status>> \in TaskTransitions

\* Fault: the debit itself is left out of the comparison.
DebitAllowedBefore(s, delta) ==
  /\ s.state \notin TerminalStates
  /\ \A d \in Dimensions : s.usage[d] <= BudgetLimits[d]

\* budgetDebitEvent.
DebitAllowed(s, delta) ==
  /\ s.state \notin TerminalStates
  /\ \A d \in Dimensions : s.usage[d] + delta[d] <= BudgetLimits[d]

-----------------------------------------------------------------------------
(* Events *)

CreatedEvents    == [type : {"mission.created"}]
TransitionEvents == [type : {"mission.transitioned"}, from : MissionStates, to : MissionStates]
TaskEvents       == [type : {"task.status_changed"}, task : Tasks, status : TaskStatuses]
DebitEvents      == [type : {"budget.debited"}, delta : Debits]
FailureEvents    == [type : {"failure.recorded"}, signature : Signatures]

Events == CreatedEvents \cup TransitionEvents \cup TaskEvents \cup DebitEvents \cup FailureEvents

\* applyEvent and the first step of projectMission: whether the event fits.
Applies(s, e) ==
  /\ e.type = "mission.created" <=> s.state = "ABSENT"
  /\ s.state # "POISONED"
  /\ e.type = "mission.transitioned" => e.from = s.state /\ TransitionAllowed(s, e.to)
  /\ e.type = "task.status_changed" => TaskStatusAllowed(s, e.task, e.status)
  /\ e.type = "budget.debited" => DebitAllowed(s, e.delta)

\* applyEvent and initialSnapshot: the next snapshot.
ApplyEvent(s, e) ==
  LET next == [s EXCEPT !.version = s.version + 1] IN
  IF ~Applies(s, e) THEN [next EXCEPT !.state = "POISONED"] ELSE
  CASE e.type = "mission.created" -> [next EXCEPT !.state = "CREATED"]
    [] e.type = "mission.transitioned" ->
         [next EXCEPT !.state = e.to, !.resumeState = NextResumeState(s, e.to)]
    [] e.type = "task.status_changed" -> [next EXCEPT !.tasks[e.task] = e.status]
    [] e.type = "budget.debited" ->
         [next EXCEPT !.usage = [d \in Dimensions |-> s.usage[d] + e.delta[d]]]
    [] OTHER -> [next EXCEPT !.failures[e.signature] = @ + 1]

\* A batch has one event, or the two of a failure that opens the breaker.
ApplyBatch(s, items) ==
  IF Len(items) = 1 THEN ApplyEvent(s, items[1])
  ELSE ApplyEvent(ApplyEvent(s, items[1]), items[2])

-----------------------------------------------------------------------------
(* Requests: the batch each method of MissionRuntime builds from the snapshot
   it loaded.  A request that a guard refuses builds none. *)

TransitionBatches(s) ==
  {<<[type |-> "mission.transitioned", from |-> s.state, to |-> to]>> :
     to \in {x \in MissionStates : TransitionAllowed(s, x)}}

TaskStatusBatches(s) ==
  {<<[type |-> "task.status_changed", task |-> ts[1], status |-> ts[2]]>> :
     ts \in {x \in Tasks \X TaskStatuses : TaskStatusAllowed(s, x[1], x[2])}}

DebitBatches(s) ==
  {<<[type |-> "budget.debited", delta |-> d]>> : d \in {x \in Debits : DebitAllowed(s, x)}}

\* Fault: the breaker opens one failure late.
RecordFailureBatchesLate(s) ==
  IF s.state \notin InterruptibleStates THEN {}
  ELSE {IF s.failures[f] >= MaxEquivalentFailures
        THEN <<[type |-> "failure.recorded", signature |-> f],
               [type |-> "mission.transitioned", from |-> s.state, to |-> "FAILED"]>>
        ELSE <<[type |-> "failure.recorded", signature |-> f]>> : f \in Signatures}

RecordFailureBatches(s) ==
  IF s.state \notin InterruptibleStates THEN {}
  ELSE {IF s.failures[f] + 1 >= MaxEquivalentFailures
        THEN <<[type |-> "failure.recorded", signature |-> f],
               [type |-> "mission.transitioned", from |-> s.state, to |-> "FAILED"]>>
        ELSE <<[type |-> "failure.recorded", signature |-> f]>> : f \in Signatures}

-----------------------------------------------------------------------------
(* Concurrent callers *)

CONSTANTS
  Callers,
  Keys,              \* idempotency keys that are sent more than once
  Fresh,             \* a key that is never sent again
  MaxMissionEvents,  \* limits.maxMissionEvents
  NoCall, NoBatch

ASSUME RuntimeAssumption ==
  /\ Fresh \notin Keys
  /\ MaxMissionEvents \in Nat

VARIABLES
  snapshot,     \* projection of the mission's event stream
  idempotency,  \* the batch recorded for each key
  call,         \* per caller: the append it is about to make
  lastActive    \* history: the newest interruptible state of the mission

vars == <<snapshot, idempotency, call, lastActive>>

Call  == [items : {x \in Seq(Events) : Len(x) \in {1, 2}}, expectedVersion : Nat,
          key : Keys \cup {Fresh}]

\* Fault: the fingerprint of a request says at which version it was sent, but not what it was.
FingerprintOfVersion(m) == [expectedVersion |-> m.expectedVersion]

\* fingerprint: the request without its key.
Fingerprint(m) == [items |-> m.items, expectedVersion |-> m.expectedVersion]

\* A row of event_idempotency: where the rows of the batch are, and the request they came from.
Batch == [first : Nat, count : {1, 2},
          fingerprint : [items : {x \in Seq(Events) : Len(x) \in {1, 2}}, expectedVersion : Nat]]

Init ==
  /\ snapshot = NoMission
  /\ idempotency = [k \in Keys |-> NoBatch]
  /\ call = [c \in Callers |-> NoCall]
  /\ lastActive = NoState

Invoke(c, k, items) ==
  /\ call[c] = NoCall
  /\ call' = [call EXCEPT ![c] =
       [items |-> items, expectedVersion |-> snapshot.version, key |-> k]]
  /\ UNCHANGED <<snapshot, idempotency, lastActive>>

\* Loading an empty or a poisoned stream throws.
Loads == snapshot.state \notin {"ABSENT", "POISONED"}

\* create: validates its input and appends at version 0.
Create(c, k) ==
  /\ call[c] = NoCall
  /\ call' = [call EXCEPT ![c] =
       [items |-> <<[type |-> "mission.created"]>>, expectedVersion |-> 0, key |-> k]]
  /\ UNCHANGED <<snapshot, idempotency, lastActive>>

\* transition, setTaskStatus, debitBudget and recordFailure up to the append.
Transition(c, k)    == Loads /\ \E b \in TransitionBatches(snapshot) : Invoke(c, k, b)
SetTaskStatus(c, k) == Loads /\ \E b \in TaskStatusBatches(snapshot) : Invoke(c, k, b)
DebitBudget(c, k)   == Loads /\ \E b \in DebitBatches(snapshot) : Invoke(c, k, b)
RecordFailure(c, k) == Loads /\ \E b \in RecordFailureBatches(snapshot) : Invoke(c, k, b)

\* Fault: the store does not compare the expected version.
AcceptsAnyVersion(m) ==
  /\ m.key \in Keys => idempotency[m.key] = NoBatch
  /\ snapshot.version + Len(m.items) <= MaxMissionEvents

\* append: a recorded key is a replay or a conflict, a stale version a conflict.
Accepts(m) ==
  /\ m.key \in Keys => idempotency[m.key] = NoBatch
  /\ snapshot.version = m.expectedVersion
  /\ snapshot.version + Len(m.items) <= MaxMissionEvents

\* append of a request that is recorded under its key: its rows are loaded again.
Replays(m) ==
  m.key \in Keys /\ idempotency[m.key] # NoBatch /\ idempotency[m.key].fingerprint = Fingerprint(m)

\* Fault: of a batch the first row alone is recorded.
RecordedFirst(m) == [first |-> m.expectedVersion + 1, count |-> 1, fingerprint |-> Fingerprint(m)]

\* The INSERT into event_idempotency.
Recorded(m) == [first |-> m.expectedVersion + 1, count |-> Len(m.items), fingerprint |-> Fingerprint(m)]

\* append of an accepted batch: all of it becomes visible at once.
AppendBatch(c) ==
  LET m == call[c]
      next == ApplyBatch(snapshot, m.items)
  IN /\ m # NoCall /\ Accepts(m)
     /\ snapshot' = next
     /\ idempotency' = [k \in Keys |-> IF k = m.key THEN Recorded(m) ELSE idempotency[k]]
     /\ lastActive' = IF next.state \in InterruptibleStates THEN next.state ELSE lastActive
     /\ call' = [call EXCEPT ![c] = NoCall]

\* append that replays or throws, and a caller whose process dies first.
GiveUp(c) ==
  /\ call[c] # NoCall
  /\ call' = [call EXCEPT ![c] = NoCall]
  /\ UNCHANGED <<snapshot, idempotency, lastActive>>

Next == \E c \in Callers :
  \/ \E k \in Keys \cup {Fresh} :
       \/ Create(c, k) \/ Transition(c, k) \/ SetTaskStatus(c, k)
       \/ DebitBudget(c, k) \/ RecordFailure(c, k)
  \/ AppendBatch(c)
  \/ GiveUp(c)

Spec == Init /\ [][Next]_vars

-----------------------------------------------------------------------------
(* Properties *)

\* The projection, the idempotency records and the calls in flight have their types.
TypeOK ==
  /\ snapshot \in Snapshot
  /\ idempotency \in [Keys -> Batch \cup {NoBatch}]
  /\ call \in [Callers -> Call \cup {NoCall}]
  /\ lastActive \in InterruptibleStates \cup {NoState}

\* The stream can always be replayed: no interleaving of callers makes the store
\* accept an event that projectMission refuses later, which would lock everyone
\* out of the mission for good.  (The projection, the idempotency records and the
\* calls in flight keep their types.)
NeverPoisoned ==
  /\ TypeOK
  /\ snapshot.state # "POISONED"

\* Pausing captures the exact state the mission worked in last, however the pause
\* races with other callers, and nothing else leaves a captured state behind.
PauseKeepsPlace ==
  /\ snapshot.state \in {"PAUSING", "PAUSED", "RESUMING"} => snapshot.resumeState = lastActive
  /\ snapshot.state \in InterruptibleStates \cup TerminalStates \cup {"ABSENT"}
       => snapshot.resumeState = NoState

\* Racing debits never overrun a ceiling of the budget.
WithinBudget == \A d \in Dimensions : snapshot.usage[d] <= BudgetLimits[d]

\* The breaker: once a signature has failed as often as callers allow, the
\* mission is FAILED, in the same append as the last failure.
BreakerOpens ==
  \A f \in Signatures :
    /\ snapshot.failures[f] <= MaxEquivalentFailures
    /\ snapshot.failures[f] = MaxEquivalentFailures => snapshot.state = "FAILED"

\* The two ledgers of a mission that callers race on, the budget and the failures,
\* are kept at once: a debit and a failure that cross never let either overrun.
LedgerSound == WithinBudget /\ BreakerOpens
=============================================================================
