--------------------------- MODULE MissionProofs ---------------------------
(***************************************************************************)
(* Theorems about MissionRuntime and its persisted stream, for every       *)
(* number of callers, tasks, keys and budget dimensions and every length   *)
(* of the stream.                                                          *)
(*                                                                         *)
(* The safety of a mission rests on the version that a caller sends with   *)
(* its batch.  The inductive invariant says what that version stands for:  *)
(* a call in flight was built from a snapshot that is either the current   *)
(* one, and then the batch still fits it, or older than it, and then the   *)
(* store refuses the batch.                                                *)
(***************************************************************************)
EXTENDS MissionStream, WellFoundedInduction, TLAPS

\* The batches that fit a snapshot: mission.created on an empty stream, and
\* afterwards what the methods of MissionRuntime build from it.
Fitting(s) ==
  IF s.state = "ABSENT" THEN {<<[type |-> "mission.created"]>>}
  ELSE TransitionBatches(s) \cup TaskStatusBatches(s) \cup DebitBatches(s)
         \cup RecordFailureBatches(s)

BudgetKept(s) == \A d \in Dimensions : s.usage[d] <= BudgetLimits[d]

BreakerKept(s) ==
  \A f \in Signatures :
    /\ s.failures[f] <= MaxEquivalentFailures
    /\ s.failures[f] = MaxEquivalentFailures => s.state = "FAILED"

PlaceKept(s) ==
  /\ s.state \in {"PAUSING", "PAUSED", "RESUMING"} => s.resumeState \in InterruptibleStates
  /\ s.state \in InterruptibleStates \cup TerminalStates \cup {"ABSENT"} => s.resumeState = NoState

\* A snapshot that replays and keeps its budget, its breaker and its place.
Sound(s) ==
  /\ s \in Snapshot
  /\ s.state # "POISONED"
  /\ s.state = "ABSENT" <=> s.version = 0
  /\ BudgetKept(s) /\ BreakerKept(s) /\ PlaceKept(s)

-----------------------------------------------------------------------------
(* One batch *)

\* A transition that assertTransition allows keeps a snapshot sound.
LEMMA TransitionSound ==
  ASSUME NEW s, Sound(s), s.state # "ABSENT",
         NEW to \in MissionStates, TransitionAllowed(s, to),
         NEW e, e = [type |-> "mission.transitioned", from |-> s.state, to |-> to]
  PROVE  /\ Sound(ApplyEvent(s, e))
         /\ ApplyEvent(s, e).version = s.version + 1
         /\ ApplyEvent(s, e).state = to
         /\ ApplyEvent(s, e).resumeState = NextResumeState(s, to)
         /\ ApplyEvent(s, e).failures = s.failures
<1>1. Applies(s, e)
  BY DEF Applies, Sound
<1>2. ApplyEvent(s, e) = [s EXCEPT !.version = s.version + 1, !.state = to,
                                   !.resumeState = NextResumeState(s, to)]
  BY <1>1 DEF ApplyEvent, Sound, Snapshot
<1>3. NextResumeState(s, to) \in InterruptibleStates \cup {NoState}
  BY DEF Sound, Snapshot, NextResumeState, TransitionAllowed, InterruptibleStates,
         TerminalStates, NormalTransitions
<1>4. ApplyEvent(s, e) \in Snapshot
  <2>1. s \in Snapshot /\ s.version + 1 \in Nat /\ to \in MissionStates \cup {"ABSENT", "POISONED"}
    BY DEF Sound, Snapshot
  <2> HIDE DEF Sound
  <2> QED
    BY <1>2, <1>3, <2>1 DEF Snapshot
<1>5. s.state \notin TerminalStates
  BY DEF TransitionAllowed
<1>6. PlaceKept(ApplyEvent(s, e))
  BY <1>2, <1>3, <1>5 DEF PlaceKept, Sound, Snapshot, NextResumeState, TransitionAllowed,
     InterruptibleStates, TerminalStates, NormalTransitions, MissionStates, NoState
<1>7. BreakerKept(ApplyEvent(s, e)) /\ BudgetKept(ApplyEvent(s, e))
  BY <1>2, <1>5 DEF BreakerKept, BudgetKept, Sound, Snapshot, TerminalStates
<1>8. to # "ABSENT" /\ to # "POISONED"
  BY DEF MissionStates, InterruptibleStates, TerminalStates
<1>9. /\ ApplyEvent(s, e).version = s.version + 1 /\ s.version \in Nat
      /\ ApplyEvent(s, e).state = to
      /\ ApplyEvent(s, e).resumeState = NextResumeState(s, to)
      /\ ApplyEvent(s, e).failures = s.failures
  BY <1>2 DEF Sound, Snapshot
<1> QED
  BY <1>4, <1>6, <1>7, <1>8, <1>9 DEF Sound

\* mission.created on an empty stream.
LEMMA CreatedSound ==
  ASSUME NEW s, Sound(s), s.state = "ABSENT",
         NEW e, e = [type |-> "mission.created"]
  PROVE  /\ Sound(ApplyEvent(s, e))
         /\ ApplyEvent(s, e).version = s.version + 1
         /\ ApplyEvent(s, e).state = "CREATED"
         /\ ApplyEvent(s, e).resumeState = s.resumeState
<1>1. Applies(s, e)
  BY DEF Applies
<1>2. ApplyEvent(s, e) = [s EXCEPT !.version = s.version + 1, !.state = "CREATED"]
  BY <1>1 DEF ApplyEvent, Sound, Snapshot
<1>3. ApplyEvent(s, e) \in Snapshot
  <2>1. s \in Snapshot /\ s.version + 1 \in Nat
    BY DEF Sound, Snapshot
  <2> QED
    BY <1>2, <2>1 DEF Snapshot, MissionStates, InterruptibleStates
<1>4. /\ ApplyEvent(s, e).version = s.version + 1 /\ s.version \in Nat
      /\ ApplyEvent(s, e).state = "CREATED"
      /\ ApplyEvent(s, e).resumeState = s.resumeState
      /\ ApplyEvent(s, e).failures = s.failures
      /\ ApplyEvent(s, e).usage = s.usage
  BY <1>2 DEF Sound, Snapshot
<1>5. PlaceKept(ApplyEvent(s, e)) /\ BreakerKept(ApplyEvent(s, e)) /\ BudgetKept(ApplyEvent(s, e))
  BY <1>4 DEF Sound, PlaceKept, BreakerKept, BudgetKept
<1> QED
  BY <1>3, <1>4, <1>5 DEF Sound

\* A task status that taskStatusEvent allows.
LEMMA TaskStatusSound ==
  ASSUME NEW s, Sound(s), s.state # "ABSENT",
         NEW t \in Tasks, NEW status \in TaskStatuses, TaskStatusAllowed(s, t, status),
         NEW e, e = [type |-> "task.status_changed", task |-> t, status |-> status]
  PROVE  /\ Sound(ApplyEvent(s, e))
         /\ ApplyEvent(s, e).version = s.version + 1
         /\ ApplyEvent(s, e).state = s.state
         /\ ApplyEvent(s, e).resumeState = s.resumeState
<1>1. Applies(s, e)
  BY DEF Applies, Sound
<1>2. ApplyEvent(s, e) = [s EXCEPT !.version = s.version + 1, !.tasks = [s.tasks EXCEPT ![t] = status]]
  BY <1>1 DEF ApplyEvent, Sound, Snapshot
<1>3. ApplyEvent(s, e) \in Snapshot
  <2>1. s \in Snapshot /\ s.version + 1 \in Nat /\ [s.tasks EXCEPT ![t] = status] \in [Tasks -> TaskStatuses]
    BY DEF Sound, Snapshot
  <2> QED
    BY <1>2, <2>1 DEF Snapshot
<1>4. /\ ApplyEvent(s, e).version = s.version + 1 /\ s.version \in Nat
      /\ ApplyEvent(s, e).state = s.state
      /\ ApplyEvent(s, e).resumeState = s.resumeState
      /\ ApplyEvent(s, e).failures = s.failures
      /\ ApplyEvent(s, e).usage = s.usage
  BY <1>2 DEF Sound, Snapshot
<1>5. PlaceKept(ApplyEvent(s, e)) /\ BreakerKept(ApplyEvent(s, e)) /\ BudgetKept(ApplyEvent(s, e))
  BY <1>4 DEF Sound, PlaceKept, BreakerKept, BudgetKept
<1> QED
  BY <1>3, <1>4, <1>5 DEF Sound

\* A debit that budgetDebitEvent allows stays within the budget.
LEMMA DebitSound ==
  ASSUME NEW s, Sound(s), s.state # "ABSENT",
         NEW delta \in Debits, DebitAllowed(s, delta),
         NEW e, e = [type |-> "budget.debited", delta |-> delta]
  PROVE  /\ Sound(ApplyEvent(s, e))
         /\ ApplyEvent(s, e).version = s.version + 1
         /\ ApplyEvent(s, e).state = s.state
         /\ ApplyEvent(s, e).resumeState = s.resumeState
<1> DEFINE usage == [d \in Dimensions |-> s.usage[d] + delta[d]]
<1>1. Applies(s, e)
  BY DEF Applies, Sound
<1>2. ApplyEvent(s, e) = [s EXCEPT !.version = s.version + 1, !.usage = usage]
  BY <1>1 DEF ApplyEvent, Sound, Snapshot
<1>3. usage \in [Dimensions -> Nat]
  <2>1. s.usage \in [Dimensions -> Nat] /\ delta \in [Dimensions -> Nat]
    BY MissionAssumption DEF Sound, Snapshot
  <2> QED
    BY <2>1
<1>4. ApplyEvent(s, e) \in Snapshot
  <2>1. s \in Snapshot /\ s.version + 1 \in Nat
    BY DEF Sound, Snapshot
  <2> HIDE DEF usage
  <2> QED
    BY <1>2, <1>3, <2>1 DEF Snapshot
<1>5. /\ ApplyEvent(s, e).version = s.version + 1 /\ s.version \in Nat
      /\ ApplyEvent(s, e).state = s.state
      /\ ApplyEvent(s, e).resumeState = s.resumeState
      /\ ApplyEvent(s, e).failures = s.failures
      /\ ApplyEvent(s, e).usage = usage
  BY <1>2 DEF Sound, Snapshot
<1>6. BudgetKept(ApplyEvent(s, e))
  BY <1>5 DEF BudgetKept, DebitAllowed
<1>7. PlaceKept(ApplyEvent(s, e)) /\ BreakerKept(ApplyEvent(s, e))
  BY <1>5 DEF Sound, PlaceKept, BreakerKept
<1> QED
  BY <1>4, <1>5, <1>6, <1>7 DEF Sound

\* A failure, with the transition to FAILED when it reaches the ceiling.
LEMMA FailureSound ==
  ASSUME NEW s, Sound(s), s.state # "ABSENT", NEW items \in RecordFailureBatches(s)
  PROVE  LET next == ApplyBatch(s, items) IN
         /\ Sound(next)
         /\ next.version > s.version
         /\ Len(items) \in {1, 2}
         /\ \/ next.state = s.state /\ next.resumeState = s.resumeState
            \/ next.state = "FAILED"
<1> DEFINE Ends(f) == s.failures[f] + 1 >= MaxEquivalentFailures
           failed(f) == [type |-> "failure.recorded", signature |-> f]
           moved == [type |-> "mission.transitioned", from |-> s.state, to |-> "FAILED"]
<1>1. s.state \in InterruptibleStates
  BY DEF RecordFailureBatches
<1>2. PICK f \in Signatures : items = IF Ends(f) THEN <<failed(f), moved>> ELSE <<failed(f)>>
  BY <1>1 DEF RecordFailureBatches
<1> DEFINE mid == ApplyEvent(s, failed(f))
           failures == [s.failures EXCEPT ![f] = s.failures[f] + 1]
<1>3. mid = [s EXCEPT !.version = s.version + 1, !.failures = failures]
  <2>1. Applies(s, failed(f))
    BY DEF Applies, Sound
  <2> QED
    BY <2>1 DEF ApplyEvent, Sound, Snapshot
<1>4. s.failures \in [Signatures -> Nat] /\ s.version \in Nat /\ s \in Snapshot
      /\ MaxEquivalentFailures \in Nat
  BY MissionAssumption DEF Sound, Snapshot
<1>5. failures \in [Signatures -> Nat]
  BY <1>4
<1>6. mid \in Snapshot
  <2>1. s.version + 1 \in Nat
    BY <1>4
  <2> HIDE DEF failures, mid
  <2> QED
    BY <1>3, <1>4, <1>5, <2>1 DEF Snapshot
<1>7. /\ mid.version = s.version + 1 /\ mid.state = s.state /\ mid.resumeState = s.resumeState
      /\ mid.failures = failures /\ mid.usage = s.usage /\ mid.tasks = s.tasks
  <2> HIDE DEF failures, mid
  <2> QED
    BY <1>3, <1>4 DEF Snapshot
<1>8. BudgetKept(mid) /\ PlaceKept(mid) /\ mid.state # "POISONED" /\ mid.state # "ABSENT"
  <2> HIDE DEF mid
  <2> QED
    BY <1>7 DEF Sound, BudgetKept, PlaceKept
<1>9. \A g \in Signatures : s.failures[g] < MaxEquivalentFailures
  <2>1. s.state # "FAILED"
    BY <1>1 DEF InterruptibleStates
  <2> QED
    BY <2>1, <1>4 DEF Sound, BreakerKept
<1>10. CASE ~Ends(f)
  <2>1. BreakerKept(mid)
    <3> HIDE DEF mid
    <3> QED
      BY <1>4, <1>7, <1>9, <1>10 DEF BreakerKept
  <2>2. ApplyBatch(s, items) = mid /\ Len(items) = 1
    BY <1>2, <1>10 DEF ApplyBatch
  <2> HIDE DEF mid
  <2> QED
    BY <2>1, <2>2, <1>4, <1>6, <1>7, <1>8 DEF Sound
<1>11. CASE Ends(f)
  <2> DEFINE last == ApplyEvent(mid, moved)
  <2>1. ApplyBatch(s, items) = last /\ Len(items) = 2
    BY <1>2, <1>11 DEF ApplyBatch
  <2> HIDE DEF mid
  <2>2. Applies(mid, moved)
    BY <1>1, <1>7, <1>8 DEF Applies, TransitionAllowed, InterruptibleStates, TerminalStates
  <2>3. last = [mid EXCEPT !.version = mid.version + 1, !.state = "FAILED",
                           !.resumeState = NoState]
    <3>1. NextResumeState(mid, "FAILED") = NoState
      BY <1>1, <1>7 DEF NextResumeState, InterruptibleStates, TerminalStates
    <3> QED
      BY <2>2, <3>1, <1>6 DEF ApplyEvent, Snapshot
  <2>4. last \in Snapshot
    <3>1. mid.version + 1 \in Nat
      BY <1>6 DEF Snapshot
    <3> HIDE DEF last
    <3> QED
      BY <2>3, <3>1, <1>6 DEF Snapshot, MissionStates, TerminalStates
  <2>5. /\ last.version = s.version + 2 /\ last.state = "FAILED" /\ last.resumeState = NoState
        /\ last.failures = failures /\ last.usage = s.usage
    <3> HIDE DEF last, failures
    <3> QED
      BY <2>3, <1>4, <1>6, <1>7 DEF Snapshot
  <2>6. BreakerKept(last)
    <3> HIDE DEF last
    <3> QED
      BY <2>5, <1>4, <1>9 DEF BreakerKept
  <2>7. BudgetKept(last) /\ PlaceKept(last)
    <3> HIDE DEF last
    <3> QED
      BY <2>5 DEF Sound, BudgetKept, PlaceKept, InterruptibleStates, TerminalStates
  <2> HIDE DEF last
  <2> QED
    BY <2>1, <2>4, <2>5, <2>6, <2>7, <1>4 DEF Sound
<1> QED
  BY <1>10, <1>11

\* l is the state the mission worked in last, as far as s depends on it.
LastKept(s, l) ==
  /\ s.state \in InterruptibleStates => l = s.state
  /\ s.state \in {"PAUSING", "PAUSED", "RESUMING"} => l = s.resumeState

\* What an accepted batch does to a sound snapshot.
LEMMA FittingSound ==
  ASSUME NEW s, Sound(s), NEW items \in Fitting(s), NEW l, LastKept(s, l)
  PROVE  LET next == ApplyBatch(s, items) IN
         /\ Sound(next)
         /\ next.version > s.version
         /\ Len(items) \in {1, 2}
         /\ LastKept(next, IF next.state \in InterruptibleStates THEN next.state ELSE l)
<1>0. s.version \in Nat
  BY DEF Sound, Snapshot
<1>1. CASE s.state = "ABSENT"
  <2> DEFINE e == [type |-> "mission.created"]
  <2>1. ApplyBatch(s, items) = ApplyEvent(s, e) /\ Len(items) = 1
    BY <1>1 DEF Fitting, ApplyBatch
  <2> QED
    BY <2>1, <1>0, <1>1, CreatedSound DEF LastKept, InterruptibleStates
<1>2. CASE s.state # "ABSENT" /\ items \in TransitionBatches(s)
  <2>1. PICK to \in MissionStates :
          /\ TransitionAllowed(s, to)
          /\ items = <<[type |-> "mission.transitioned", from |-> s.state, to |-> to]>>
    BY <1>2 DEF TransitionBatches
  <2> DEFINE e == [type |-> "mission.transitioned", from |-> s.state, to |-> to]
             next == ApplyEvent(s, e)
  <2>2. ApplyBatch(s, items) = next /\ Len(items) = 1
    BY <2>1 DEF ApplyBatch
  <2>3. Sound(next) /\ next.version = s.version + 1 /\ next.state = to
        /\ next.resumeState = NextResumeState(s, to)
    BY <1>2, <2>1, TransitionSound
  <2>4. to \in {"PAUSING", "PAUSED", "RESUMING"} => l = NextResumeState(s, to)
    BY <2>1 DEF LastKept, TransitionAllowed, NextResumeState, InterruptibleStates,
       TerminalStates, NormalTransitions, Sound, PlaceKept
  <2> HIDE DEF next
  <2>5. LastKept(next, IF next.state \in InterruptibleStates THEN next.state ELSE l)
    BY <2>3, <2>4 DEF LastKept, InterruptibleStates
  <2> QED
    BY <2>2, <2>3, <2>5, <1>0
<1>3. CASE s.state # "ABSENT" /\ items \in TaskStatusBatches(s)
  <2>1. PICK t \in Tasks, status \in TaskStatuses :
          /\ TaskStatusAllowed(s, t, status)
          /\ items = <<[type |-> "task.status_changed", task |-> t, status |-> status]>>
    BY <1>3 DEF TaskStatusBatches
  <2> DEFINE e == [type |-> "task.status_changed", task |-> t, status |-> status]
             next == ApplyEvent(s, e)
  <2>2. ApplyBatch(s, items) = next /\ Len(items) = 1
    BY <2>1 DEF ApplyBatch
  <2>3. Sound(next) /\ next.version = s.version + 1 /\ next.state = s.state
        /\ next.resumeState = s.resumeState
    BY <1>3, <2>1, TaskStatusSound
  <2> HIDE DEF next
  <2> QED
    BY <2>2, <2>3, <1>0 DEF LastKept
<1>4. CASE s.state # "ABSENT" /\ items \in DebitBatches(s)
  <2>1. PICK delta \in Debits :
          DebitAllowed(s, delta) /\ items = <<[type |-> "budget.debited", delta |-> delta]>>
    BY <1>4 DEF DebitBatches
  <2> DEFINE e == [type |-> "budget.debited", delta |-> delta]
             next == ApplyEvent(s, e)
  <2>2. ApplyBatch(s, items) = next /\ Len(items) = 1
    BY <2>1 DEF ApplyBatch
  <2>3. Sound(next) /\ next.version = s.version + 1 /\ next.state = s.state
        /\ next.resumeState = s.resumeState
    BY <1>4, <2>1, DebitSound
  <2> HIDE DEF next
  <2> QED
    BY <2>2, <2>3, <1>0 DEF LastKept
<1>5. CASE s.state # "ABSENT" /\ items \in RecordFailureBatches(s)
  <2>1. "FAILED" \notin InterruptibleStates \cup {"PAUSING", "PAUSED", "RESUMING"}
    BY DEF InterruptibleStates
  <2> QED
    BY <1>5, <2>1, FailureSound DEF LastKept
<1> QED
  BY <1>1, <1>2, <1>3, <1>4, <1>5 DEF Fitting

\* What fits a sound snapshot is a batch of events.
LEMMA FittingTyping ==
  ASSUME NEW s, Sound(s), NEW items \in Fitting(s)
  PROVE  items \in {x \in Seq(Events) : Len(x) \in {1, 2}}
<1>0. /\ \A e \in Events : <<e>> \in {x \in Seq(Events) : Len(x) \in {1, 2}}
      /\ \A e, f \in Events : <<e, f>> \in {x \in Seq(Events) : Len(x) \in {1, 2}}
  OBVIOUS
<1>1. CASE s.state = "ABSENT"
  <2>1. [type |-> "mission.created"] \in Events
    BY DEF Events, CreatedEvents
  <2> QED
    BY <1>0, <1>1, <2>1 DEF Fitting
<1>2. CASE s.state # "ABSENT"
  <2>1. s.state \in MissionStates
    BY <1>2 DEF Sound, Snapshot
  <2>2. CASE items \in TransitionBatches(s)
    <3>1. \A to \in MissionStates :
            [type |-> "mission.transitioned", from |-> s.state, to |-> to] \in Events
      BY <2>1 DEF Events, TransitionEvents
    <3> QED
      BY <1>0, <2>2, <3>1 DEF TransitionBatches
  <2>3. CASE items \in TaskStatusBatches(s)
    <3>1. \A t \in Tasks, status \in TaskStatuses :
            [type |-> "task.status_changed", task |-> t, status |-> status] \in Events
      BY DEF Events, TaskEvents
    <3>2. PICK t \in Tasks, status \in TaskStatuses :
            items = <<[type |-> "task.status_changed", task |-> t, status |-> status]>>
      BY <2>3 DEF TaskStatusBatches
    <3> QED
      BY <1>0, <3>1, <3>2
  <2>4. CASE items \in DebitBatches(s)
    <3>1. \A d \in Debits : [type |-> "budget.debited", delta |-> d] \in Events
      BY DEF Events, DebitEvents
    <3> QED
      BY <1>0, <2>4, <3>1 DEF DebitBatches
  <2>5. CASE items \in RecordFailureBatches(s)
    <3>1. \A f \in Signatures : [type |-> "failure.recorded", signature |-> f] \in Events
      BY DEF Events, FailureEvents
    <3>2. [type |-> "mission.transitioned", from |-> s.state, to |-> "FAILED"] \in Events
      BY <2>1 DEF Events, TransitionEvents, MissionStates, TerminalStates
    <3>3. PICK f \in Signatures :
            \/ items = <<[type |-> "failure.recorded", signature |-> f]>>
            \/ items = <<[type |-> "failure.recorded", signature |-> f],
                         [type |-> "mission.transitioned", from |-> s.state, to |-> "FAILED"]>>
      BY <2>5 DEF RecordFailureBatches
    <3> QED
      BY <1>0, <3>1, <3>2, <3>3
  <2> QED
    BY <1>2, <2>2, <2>3, <2>4, <2>5 DEF Fitting
<1> QED
  BY <1>1, <1>2

-----------------------------------------------------------------------------
(* The inductive invariant *)

\* A call in flight fits the snapshot it was built from, and that snapshot is
\* the current one or has been overtaken.
CallInv ==
  \A c \in Callers : call[c] # NoCall =>
    /\ call[c].expectedVersion <= snapshot.version
    /\ call[c].expectedVersion = snapshot.version => call[c].items \in Fitting(snapshot)

IInv == TypeOK /\ Sound(snapshot) /\ LastKept(snapshot, lastActive) /\ CallInv

\* An empty stream with no call in flight satisfies the invariant.
LEMMA InitIInv == Init => IInv
<1> SUFFICES ASSUME Init PROVE IInv
  OBVIOUS
<1>1. NoMission \in Snapshot
  BY DEF NoMission, Snapshot, NoState, TaskStatuses
<1>2. Sound(NoMission)
  BY <1>1, MissionAssumption DEF Sound, NoMission, BudgetKept, BreakerKept, PlaceKept
<1>3. TypeOK
  BY <1>1 DEF Init, TypeOK
<1>4. LastKept(snapshot, lastActive)
  BY DEF Init, LastKept, NoMission, InterruptibleStates
<1> QED
  BY <1>2, <1>3, <1>4 DEF Init, IInv, CallInv

\* A method up to its append: the new call fits the current snapshot.
LEMMA InvokeIInv ==
  ASSUME IInv, NEW c \in Callers, NEW k \in Keys \cup {Fresh},
         NEW items \in {x \in Seq(Events) : Len(x) \in {1, 2}}, NEW version \in Nat,
         version <= snapshot.version,
         version = snapshot.version => items \in Fitting(snapshot),
         call' = [call EXCEPT ![c] = [items |-> items, expectedVersion |-> version, key |-> k]],
         UNCHANGED <<snapshot, idempotency, lastActive>>
  PROVE  IInv'
<1>1. TypeOK'
  <2>1. [items |-> items, expectedVersion |-> version, key |-> k] \in Call
    BY DEF Call
  <2> QED
    BY <2>1 DEF IInv, TypeOK
<1>2. CallInv'
  BY DEF IInv, TypeOK, CallInv
<1> QED
  BY <1>1, <1>2 DEF IInv

\* append of an accepted batch: every other call in flight is overtaken.
LEMMA AppendIInv ==
  ASSUME IInv, NEW c \in Callers, AppendBatch(c)
  PROVE  IInv'
<1> DEFINE m == call[c]
           next == ApplyBatch(snapshot, m.items)
<1>1. m # NoCall /\ Accepts(m) /\ m \in Call
  BY DEF AppendBatch, IInv, TypeOK
<1>2. m.items \in Fitting(snapshot)
  BY <1>1 DEF Accepts, IInv, CallInv
<1>3. /\ Sound(next) /\ next.version > snapshot.version /\ Len(m.items) \in {1, 2}
      /\ LastKept(next, IF next.state \in InterruptibleStates THEN next.state ELSE lastActive)
  BY <1>2, FittingSound DEF IInv
<1>4. /\ snapshot' = next
      /\ lastActive' = IF next.state \in InterruptibleStates THEN next.state ELSE lastActive
      /\ idempotency' = [k \in Keys |-> IF k = m.key THEN Recorded(m) ELSE idempotency[k]]
      /\ call' = [call EXCEPT ![c] = NoCall]
  BY DEF AppendBatch
<1> HIDE DEF next
<1>5. Sound(snapshot') /\ LastKept(snapshot', lastActive')
  BY <1>3, <1>4
<1>6. TypeOK'
  <2>1. snapshot' \in Snapshot
    BY <1>3, <1>4 DEF Sound
  <2>2. Recorded(m) \in Batch
    <3>1. m.expectedVersion \in Nat /\ m.expectedVersion + 1 \in Nat /\ m.items \in {x \in Seq(Events) : Len(x) \in {1, 2}}
      BY <1>1 DEF Call
    <3> QED
      BY <1>3, <3>1 DEF Batch, Recorded, Fingerprint
  <2>3. idempotency' \in [Keys -> Batch \cup {NoBatch}]
    <3> HIDE DEF m
    <3> QED
      BY <1>4, <2>2 DEF IInv, TypeOK
  <2>4. call' \in [Callers -> Call \cup {NoCall}]
    BY <1>4 DEF IInv, TypeOK
  <2>5. lastActive' \in InterruptibleStates \cup {NoState}
    BY <1>4 DEF IInv, TypeOK
  <2> QED
    BY <2>1, <2>3, <2>4, <2>5 DEF TypeOK
<1>7. CallInv'
  <2> SUFFICES ASSUME NEW d \in Callers, call'[d] # NoCall
               PROVE  call'[d].expectedVersion < snapshot'.version
    <3>1. snapshot'.version \in Nat
      BY <1>6 DEF TypeOK, Snapshot
    <3>2. \A d \in Callers : call'[d] # NoCall => call'[d].expectedVersion \in Nat
      BY <1>6 DEF TypeOK, Call
    <3> QED
      BY <3>1, <3>2 DEF CallInv
  <2>1. call'[d] = call[d] /\ call[d] # NoCall
    BY <1>4 DEF IInv, TypeOK
  <2>2. call[d].expectedVersion <= snapshot.version /\ call[d].expectedVersion \in Nat
    BY <2>1 DEF IInv, CallInv, TypeOK, Call
  <2>3. snapshot.version \in Nat /\ next.version \in Nat
    BY <1>3 DEF IInv, Sound, Snapshot
  <2> QED
    BY <1>3, <1>4, <2>1, <2>2, <2>3
<1> QED
  BY <1>5, <1>6, <1>7 DEF IInv

\* Every step preserves the invariant.
LEMMA NextIInv == IInv /\ [Next]_vars => IInv'
<1> SUFFICES ASSUME IInv, [Next]_vars PROVE IInv'
  OBVIOUS
<1>0. snapshot.version \in Nat /\ Sound(snapshot)
  BY DEF IInv, Sound, Snapshot
<1>1. ASSUME NEW c \in Callers, NEW k \in Keys \cup {Fresh}, Create(c, k)
      PROVE  IInv'
  <2> DEFINE items == <<[type |-> "mission.created"]>>
  <2>1. 0 = snapshot.version => items \in Fitting(snapshot)
    BY <1>0 DEF Sound, Fitting
  <2>2. items \in {x \in Seq(Events) : Len(x) \in {1, 2}}
    <3>1. [type |-> "mission.created"] \in Events
      BY DEF Events, CreatedEvents
    <3> QED
      BY <3>1
  <2> HIDE DEF items
  <2>3. call' = [call EXCEPT ![c] = [items |-> items, expectedVersion |-> 0, key |-> k]]
        /\ UNCHANGED <<snapshot, idempotency, lastActive>>
    BY <1>1 DEF Create, items
  <2>4. 0 \in Nat /\ 0 <= snapshot.version
    BY <1>0
  <2> QED
    BY <2>1, <2>2, <2>3, <2>4, InvokeIInv, Zenon
<1>2. ASSUME NEW c \in Callers, NEW k \in Keys \cup {Fresh}, Loads,
             NEW items, items \in Fitting(snapshot), Invoke(c, k, items)
      PROVE  IInv'
  <2>1. items \in {x \in Seq(Events) : Len(x) \in {1, 2}}
    BY <1>0, <1>2, FittingTyping
  <2>2. call' = [call EXCEPT ![c] = [items |-> items, expectedVersion |-> snapshot.version, key |-> k]]
        /\ UNCHANGED <<snapshot, idempotency, lastActive>>
    BY <1>2 DEF Invoke
  <2>3. snapshot.version \in Nat /\ snapshot.version <= snapshot.version
    BY <1>0
  <2> QED
    BY <1>2, <2>1, <2>2, <2>3, InvokeIInv, Zenon
<1>3. ASSUME NEW c \in Callers, NEW k \in Keys \cup {Fresh},
             Transition(c, k) \/ SetTaskStatus(c, k) \/ DebitBudget(c, k) \/ RecordFailure(c, k)
      PROVE  IInv'
  <2>1. PICK items \in Fitting(snapshot) : Invoke(c, k, items) /\ Loads
    BY <1>3 DEF Transition, SetTaskStatus, DebitBudget, RecordFailure, Fitting, Loads
  <2> QED
    BY <1>2, <2>1
<1>4. ASSUME NEW c \in Callers, GiveUp(c)
      PROVE  IInv'
  BY <1>4 DEF GiveUp, IInv, TypeOK, CallInv
<1>5. CASE UNCHANGED vars
  BY <1>5 DEF vars, IInv, TypeOK, CallInv
<1> QED
  BY <1>1, <1>3, <1>4, <1>5, AppendIInv DEF Next

\* The inductive invariant of MissionRuntime: the projected snapshot is sound, the
\* last active state is kept, and every call in flight between its load and its
\* append (MissionRuntime's load, project, append) fits the snapshot it was built
\* from, which is the current one or one that the store's version check refuses.
THEOREM MissionInvariant == Spec => []IInv
BY InitIInv, NextIInv, PTL DEF Spec

\* However callers race, the store never accepts an event that projectMission
\* refuses later, and the projection, the records and the calls keep their types.
THEOREM AlwaysReplays == Spec => []NeverPoisoned
<1>1. IInv => NeverPoisoned
  BY DEF IInv, Sound, NeverPoisoned
<1> QED
  BY <1>1, MissionInvariant, PTL

\* Racing debits never overrun a ceiling of the budget, and the breaker opens with
\* the failure that reaches the ceiling (debitBudget, recordFailure).
THEOREM LedgersHold == Spec => []LedgerSound
<1>1. IInv => WithinBudget
  BY DEF IInv, Sound, BudgetKept, WithinBudget
<1>2. IInv => BreakerOpens
  BY DEF IInv, Sound, BreakerKept, BreakerOpens
<1>3. IInv => LedgerSound
  BY <1>1, <1>2 DEF LedgerSound
<1> QED
  BY <1>3, MissionInvariant, PTL

\* A pause keeps the exact state the mission worked in last.
THEOREM PlaceHolds == Spec => []PauseKeepsPlace
<1>1. IInv => PauseKeepsPlace
  BY DEF IInv, Sound, PlaceKept, LastKept, PauseKeepsPlace
<1> QED
  BY <1>1, MissionInvariant, PTL

-----------------------------------------------------------------------------
(* projectMission *)

\* A set of natural numbers has a least element: what induction over a stream rests on.
LEMMA LeastNat ==
  ASSUME NEW T, T \subseteq Nat, T # {}
  PROVE  \E x \in T : \A y \in T : x <= y
<1> DEFINE R == OpToRel(<, Nat)
<1>1. PICK x \in T : \A y \in T : ~(<<y, x>> \in R)
  <2> HIDE DEF R
  <2>1. IsWellFoundedOn(R, Nat)
    BY NatLessThanWellFounded DEF R
  <2> QED BY <2>1, WFMin
<1>2. \A y \in T : y < x => <<y, x>> \in R
  BY DEF OpToRel
<1> HIDE DEF R
<1>3. \A y \in T : ~(y < x)
  BY <1>1, <1>2
<1> QED BY <1>3

\* f holds the projections after each of the first n events.
FoldedTo(f, events, n) ==
  f = [m \in 0 .. n |-> IF m = 0 THEN NoMission ELSE ApplyEvent(f[m - 1], events[m])]

\* The fold of applyEvent exists: the projection after an event is built from the one before.
LEMMA FoldExists ==
  ASSUME NEW events, NEW n \in Nat
  PROVE  \E f : FoldedTo(f, events, n)
<1> DEFINE T == {m \in Nat : ~\E f : FoldedTo(f, events, m)}
<1> SUFFICES ASSUME T # {} PROVE FALSE
  OBVIOUS
<1>1. PICK m \in T : \A y \in T : m <= y
  BY LeastNat
<1>2. m # 0
  <2> DEFINE f == [i \in 0 .. 0 |-> NoMission]
  <2>1. FoldedTo(f, events, 0)
    BY DEF FoldedTo
  <2> QED BY <2>1
<1>3. PICK f : FoldedTo(f, events, m - 1)
  <2>1. m - 1 \in Nat /\ m - 1 \notin T
    BY <1>1, <1>2
  <2> QED BY <2>1
<1> DEFINE g == [i \in 0 .. m |-> IF i = m THEN ApplyEvent(f[m - 1], events[m]) ELSE f[i]]
<1>4. \A i \in 0 .. m : g[i] = IF i = 0 THEN NoMission ELSE ApplyEvent(g[i - 1], events[i])
  <2> SUFFICES ASSUME NEW i \in 0 .. m PROVE g[i] = IF i = 0 THEN NoMission ELSE ApplyEvent(g[i - 1], events[i])
    OBVIOUS
  <2>0. m \in Nat /\ i \in Nat
    OBVIOUS
  <2>1. CASE i = m
    <3>1. g[i - 1] = f[m - 1] /\ g[i] = ApplyEvent(f[m - 1], events[m])
      BY <1>2, <2>0, <2>1
    <3> QED BY <1>2, <2>1, <3>1
  <2>2. CASE i # m
    <3>1. i \in 0 .. m - 1 /\ g[i] = f[i]
      BY <2>0, <2>2
    <3>2. f[i] = IF i = 0 THEN NoMission ELSE ApplyEvent(f[i - 1], events[i])
      BY <1>3, <3>1 DEF FoldedTo
    <3>3. i # 0 => g[i - 1] = f[i - 1]
      BY <2>0, <3>1
    <3> QED BY <3>1, <3>2, <3>3
  <2> QED BY <2>1, <2>2
<1>5. FoldedTo(g, events, m)
  <2> DEFINE h == [i \in 0 .. m |-> IF i = 0 THEN NoMission ELSE ApplyEvent(g[i - 1], events[i])]
  <2>1. DOMAIN g = 0 .. m /\ DOMAIN h = 0 .. m /\ g = [i \in 0 .. m |-> g[i]]
    OBVIOUS
  <2>2. \A i \in 0 .. m : g[i] = h[i]
    BY <1>4
  <2> HIDE DEF g
  <2>3. g = h
    BY <2>1, <2>2
  <2> QED BY <2>3 DEF FoldedTo
<1> QED BY <1>1, <1>5

LEMMA ProjectionsFold ==
  ASSUME NEW events, Len(events) \in Nat
  PROVE  FoldedTo(Projections(events), events, Len(events))
<1>1. \E f : FoldedTo(f, events, Len(events))
  BY FoldExists
<1>2. Projections(events) = CHOOSE f : FoldedTo(f, events, Len(events))
  BY DEF Projections, FoldedTo
<1> QED BY <1>1, <1>2

\* Projections of one event after the other.
LEMMA ProjectionsStep ==
  ASSUME NEW events, Len(events) \in Nat
  PROVE  /\ Projections(events)[0] = NoMission
         /\ \A n \in 1 .. Len(events) : Projections(events)[n] = ApplyEvent(Projections(events)[n - 1], events[n])
  BY ProjectionsFold DEF FoldedTo

\* Streams that begin alike project alike.
LEMMA SamePrefix ==
  ASSUME NEW e, NEW f, Len(e) \in Nat, Len(f) \in Nat, NEW n \in Nat, n <= Len(e), n <= Len(f),
         \A i \in 1 .. n : e[i] = f[i]
  PROVE  \A m \in 0 .. n : Projections(e)[m] = Projections(f)[m]
<1> DEFINE T == {m \in 0 .. n : Projections(e)[m] # Projections(f)[m]}
<1> SUFFICES ASSUME T # {} PROVE FALSE
  OBVIOUS
<1>1. PICK m \in T : \A y \in T : m <= y
  <2>1. T \subseteq Nat
    OBVIOUS
  <2> HIDE DEF T
  <2> QED BY <2>1, LeastNat
<1>2. m # 0
  BY <1>1, ProjectionsStep
<1>3. m - 1 \in 0 .. n /\ m - 1 \notin T
  BY <1>1, <1>2
<1>4. Projections(e)[m - 1] = Projections(f)[m - 1]
  BY <1>3
<1>5. m \in 1 .. Len(e) /\ m \in 1 .. Len(f) /\ m \in 1 .. n
  BY <1>2
<1> QED BY <1>4, <1>5, ProjectionsStep

\* What applies an event counts it.
LEMMA ApplyCounts ==
  ASSUME NEW s \in Snapshot, NEW e \in Events
  PROVE  ApplyEvent(s, e) \in Snapshot /\ ApplyEvent(s, e).version = s.version + 1
<1> DEFINE next == [s EXCEPT !.version = s.version + 1]
<1>1. next \in Snapshot /\ next.version = s.version + 1
  BY DEF Snapshot
<1>2. CASE ~Applies(s, e)
  <2>1. ApplyEvent(s, e) = [next EXCEPT !.state = "POISONED"]
    BY <1>2 DEF ApplyEvent
  <2> HIDE DEF next
  <2> QED BY <1>1, <2>1 DEF Snapshot
<1>3. CASE Applies(s, e) /\ e.type = "mission.created"
  <2>1. ApplyEvent(s, e) = [next EXCEPT !.state = "CREATED"]
    BY <1>3 DEF ApplyEvent
  <2> HIDE DEF next
  <2> QED BY <1>1, <2>1 DEF Snapshot, MissionStates, InterruptibleStates
<1>4. CASE Applies(s, e) /\ e.type = "mission.transitioned"
  <2>1. ApplyEvent(s, e) = [next EXCEPT !.state = e.to, !.resumeState = NextResumeState(s, e.to)]
    BY <1>4 DEF ApplyEvent
  <2>2. e.to \in MissionStates /\ TransitionAllowed(s, e.to)
    BY <1>4 DEF Applies, Events, CreatedEvents, TransitionEvents, TaskEvents, DebitEvents, FailureEvents
  <2>3. NextResumeState(s, e.to) \in InterruptibleStates \cup {NoState}
    BY <2>2 DEF NextResumeState, TransitionAllowed, Snapshot, InterruptibleStates, TerminalStates, NormalTransitions
  <2> HIDE DEF next
  <2> QED BY <1>1, <2>1, <2>2, <2>3 DEF Snapshot
<1>5. CASE Applies(s, e) /\ e.type = "task.status_changed"
  <2>1. ApplyEvent(s, e) = [next EXCEPT !.tasks[e.task] = e.status]
    BY <1>5 DEF ApplyEvent
  <2>2. e.task \in Tasks /\ e.status \in TaskStatuses
    BY <1>5 DEF Events, CreatedEvents, TransitionEvents, TaskEvents, DebitEvents, FailureEvents
  <2> HIDE DEF next
  <2> QED BY <1>1, <2>1, <2>2 DEF Snapshot
<1>6. CASE Applies(s, e) /\ e.type = "budget.debited"
  <2> DEFINE used == [d \in Dimensions |-> s.usage[d] + e.delta[d]]
  <2>1. ApplyEvent(s, e) = [next EXCEPT !.usage = used]
    BY <1>6 DEF ApplyEvent
  <2>2. e.delta \in Debits
    BY <1>6 DEF Events, CreatedEvents, TransitionEvents, TaskEvents, DebitEvents, FailureEvents
  <2>3. used \in [Dimensions -> Nat]
    BY <2>2, MissionAssumption DEF Snapshot
  <2> HIDE DEF next, used
  <2> QED BY <1>1, <2>1, <2>3 DEF Snapshot
<1>7. CASE Applies(s, e) /\ e.type = "failure.recorded"
  <2>1. ApplyEvent(s, e) = [next EXCEPT !.failures[e.signature] = @ + 1]
    BY <1>7 DEF ApplyEvent
  <2>2. e.signature \in Signatures
    BY <1>7 DEF Events, CreatedEvents, TransitionEvents, TaskEvents, DebitEvents, FailureEvents
  <2> HIDE DEF next
  <2> QED BY <1>1, <2>1, <2>2 DEF Snapshot
<1> QED
  BY <1>2, <1>3, <1>4, <1>5, <1>6, <1>7 DEF Events, CreatedEvents, TransitionEvents, TaskEvents, DebitEvents, FailureEvents

\* Appending a batch and projecting is projecting and applying the batch.
LEMMA AppendProjects ==
  ASSUME NEW events \in Seq(Events), NEW items \in Seq(Events), Len(items) \in {1, 2}
  PROVE  /\ ProjectMission(events \o items) = ApplyBatch(ProjectMission(events), items)
         /\ \A m \in 0 .. Len(events) : Projections(events \o items)[m] = Projections(events)[m]
<1> DEFINE n == Len(events)
           all == events \o items
<1>1. /\ n \in Nat /\ Len(all) = n + Len(items) /\ Len(all) \in Nat
      /\ \A i \in 1 .. n : all[i] = events[i]
      /\ all[n + 1] = items[1] /\ (Len(items) = 2 => all[n + 2] = items[2])
  OBVIOUS
<1> HIDE DEF all
<1>2. \A m \in 0 .. n : Projections(all)[m] = Projections(events)[m]
  <2>1. n <= Len(all) /\ n <= Len(events) /\ Len(events) \in Nat
    BY <1>1
  <2>2. n \in Nat /\ Len(all) \in Nat /\ \A i \in 1 .. n : all[i] = events[i]
    BY <1>1
  <2> HIDE DEF n
  <2> QED BY ONLY <2>1, <2>2, SamePrefix
<1>3. Projections(all)[n + 1] = ApplyEvent(Projections(all)[n], items[1])
  <2>1. n + 1 \in 1 .. Len(all) /\ (n + 1) - 1 = n
    BY <1>1
  <2> QED BY <1>1, <2>1, ProjectionsStep
<1>4. Len(items) = 2 => Projections(all)[n + 2] = ApplyEvent(Projections(all)[n + 1], items[2])
  <2> SUFFICES ASSUME Len(items) = 2 PROVE Projections(all)[n + 2] = ApplyEvent(Projections(all)[n + 1], items[2])
    OBVIOUS
  <2>1. n + 2 \in 1 .. Len(all) /\ (n + 2) - 1 = n + 1
    BY <1>1
  <2> QED BY <1>1, <2>1, ProjectionsStep
<1>5. Projections(all)[n] = ProjectMission(events) /\ ProjectMission(all) = Projections(all)[n + Len(items)]
  BY <1>1, <1>2 DEF ProjectMission
<1> QED BY <1>1, <1>2, <1>3, <1>4, <1>5 DEF ApplyBatch, all

-----------------------------------------------------------------------------
(* The stream and the checkpoint *)

\* A recorded key names the rows of the batch that was recorded with it.
RowsRecorded(batches, events) ==
  \A k \in Keys : batches[k] # NoBatch =>
    /\ batches[k].first >= 1 /\ batches[k].count = Len(batches[k].fingerprint.items)
    /\ batches[k].first + batches[k].count <= Len(events) + 1
    /\ \A i \in 1 .. batches[k].count : events[batches[k].first + i - 1] = batches[k].fingerprint.items[i]

StreamInv ==
  /\ IInv
  /\ RowsRecorded(idempotency, stream)
  /\ stream \in Seq(Events) /\ Len(stream) = snapshot.version
  /\ ProjectMission(stream) = snapshot
  /\ checkpoint # NoCheckpoint =>
       /\ checkpoint.version \in 0 .. Len(stream)
       /\ Projections(stream)[checkpoint.version] = checkpoint
  /\ taken \in [Callers -> Snapshot \cup {NoCheckpoint}]

\* Projecting a prefix of the stream is stopping the projection there.
LEMMA PrefixProjects ==
  ASSUME NEW events \in Seq(Events), NEW v \in 0 .. Len(events)
  PROVE  ProjectMission(SubSeq(events, 1, v)) = Projections(events)[v]
<1> DEFINE p == SubSeq(events, 1, v)
<1>1. Len(p) = v /\ \A i \in 1 .. v : p[i] = events[i]
  OBVIOUS
<1> HIDE DEF p
<1>2. Projections(p)[v] = Projections(events)[v]
  BY <1>1, SamePrefix
<1> QED BY <1>1, <1>2 DEF ProjectMission, p

LEMMA StreamStarts == StreamInit => StreamInv
<1> SUFFICES ASSUME StreamInit PROVE StreamInv
  OBVIOUS
<1>1. IInv /\ snapshot = NoMission /\ stream = <<>>
  BY InitIInv DEF StreamInit, Init
<1>2. ProjectMission(<<>>) = NoMission
  BY ProjectionsStep DEF ProjectMission
<1>3. <<>> \in Seq(Events) /\ Len(<<>>) = NoMission.version
  BY DEF NoMission
<1>4. RowsRecorded(idempotency, stream)
  BY DEF StreamInit, Init, RowsRecorded
<1> QED BY <1>1, <1>2, <1>3, <1>4 DEF StreamInit, StreamInv

\* Appending a batch leaves the rows of the recorded ones in place, and its own follow.
LEMMA AppendRecords ==
  ASSUME NEW events \in Seq(Events), NEW m \in Call, m.expectedVersion = Len(events),
         NEW batches \in [Keys -> Batch \cup {NoBatch}], RowsRecorded(batches, events)
  PROVE  RowsRecorded([k \in Keys |-> IF k = m.key THEN Recorded(m) ELSE batches[k]], events \o m.items)
<1> DEFINE n == Len(events)
           items == m.items
           all == events \o items
           next == [k \in Keys |-> IF k = m.key THEN Recorded(m) ELSE batches[k]]
<1>1. /\ n \in Nat /\ items \in Seq(Events) /\ Len(items) \in Nat /\ Len(all) = n + Len(items)
      /\ \A i \in 1 .. n : all[i] = events[i]
      /\ \A i \in 1 .. Len(items) : all[n + i] = items[i]
  <2>1. items \in Seq(Events)
    BY DEF Call
  <2> HIDE DEF items
  <2> QED BY <2>1
<1>2. Recorded(m).first = n + 1 /\ Recorded(m).count = Len(items) /\ Recorded(m).fingerprint.items = items
  BY DEF Recorded, Fingerprint
<1> HIDE DEF all, items, n
<1>3. ASSUME NEW k \in Keys, next[k] # NoBatch
      PROVE  /\ next[k].first >= 1 /\ next[k].count = Len(next[k].fingerprint.items)
             /\ next[k].first + next[k].count <= Len(all) + 1
             /\ \A i \in 1 .. next[k].count : all[next[k].first + i - 1] = next[k].fingerprint.items[i]
  <2>1. CASE k = m.key
    <3>1. next[k].first = n + 1 /\ next[k].count = Len(items) /\ next[k].fingerprint.items = items
      BY <1>2, <2>1
    <3> HIDE DEF next
    <3> QED BY <1>1, <3>1
  <2>2. CASE k # m.key
    <3>1. next[k] = batches[k] /\ batches[k] # NoBatch /\ batches[k] \in Batch
      BY <1>3, <2>2
    <3>2. batches[k].first \in Nat /\ batches[k].count \in {1, 2}
      BY <3>1 DEF Batch
    <3>3. /\ batches[k].first >= 1 /\ batches[k].count = Len(batches[k].fingerprint.items)
          /\ batches[k].first + batches[k].count <= n + 1
          /\ \A i \in 1 .. batches[k].count : events[batches[k].first + i - 1] = batches[k].fingerprint.items[i]
      BY <3>1 DEF RowsRecorded, n
    <3>4. \A i \in 1 .. batches[k].count : batches[k].first + i - 1 \in 1 .. n
      BY <1>1, <3>2, <3>3
    <3>5. \A i \in 1 .. batches[k].count : all[batches[k].first + i - 1] = events[batches[k].first + i - 1]
      BY <1>1, <3>4
    <3>6. batches[k].first + batches[k].count <= Len(all) + 1
      <4>1. batches[k].first \in Nat /\ batches[k].count \in Nat
        BY <3>2
      <4> QED BY <1>1, <3>3, <4>1
    <3> HIDE DEF next
    <3> QED BY <3>1, <3>3, <3>5, <3>6
  <2> QED BY <2>1, <2>2
<1> QED BY <1>3 DEF RowsRecorded, next, all, items

LEMMA StreamStep == StreamInv /\ [StreamNext]_streamVars => StreamInv'
<1> SUFFICES ASSUME StreamInv, [StreamNext]_streamVars PROVE StreamInv'
  OBVIOUS
<1>0. stream \in Seq(Events) /\ Len(stream) = snapshot.version /\ snapshot \in Snapshot /\ IInv
  BY DEF StreamInv, IInv, Sound
<1>1. IInv'
  <2>1. [Next]_vars
    BY DEF StreamNext, RuntimeStep, CreateMissionCheckpoint, SaveCheckpoint, streamVars, Next, vars
  <2> QED BY <1>0, <2>1, NextIInv
<1>2. ASSUME NEW c \in Callers, AppendBatch(c), stream' = WithRows(call[c].items), UNCHANGED <<checkpoint, taken>>
      PROVE  StreamInv'
  <2> DEFINE items == call[c].items
  <2>1. items \in Seq(Events) /\ Len(items) \in {1, 2} /\ snapshot' = ApplyBatch(snapshot, items)
    BY <1>0, <1>2 DEF AppendBatch, IInv, TypeOK, Call
  <2>2. stream' = stream \o items
    BY <1>2 DEF WithRows
  <2>3. stream' \in Seq(Events) /\ Len(stream') = Len(stream) + Len(items)
    <3> HIDE DEF items
    <3> QED BY <1>0, <2>1, <2>2
  <2>4. ProjectMission(stream') = snapshot' /\ \A m \in 0 .. Len(stream) : Projections(stream')[m] = Projections(stream)[m]
    BY <1>0, <2>1, <2>2, AppendProjects DEF StreamInv
  <2>5. snapshot'.version = snapshot.version + Len(items)
    <3>1. items[1] \in Events /\ (Len(items) = 2 => items[2] \in Events)
      BY <2>1
    <3>2. ApplyEvent(snapshot, items[1]) \in Snapshot /\ ApplyEvent(snapshot, items[1]).version = snapshot.version + 1
      BY <1>0, <3>1, ApplyCounts
    <3>3. Len(items) = 2 => ApplyEvent(ApplyEvent(snapshot, items[1]), items[2]).version = ApplyEvent(snapshot, items[1]).version + 1
      BY <3>1, <3>2, ApplyCounts
    <3>4. snapshot.version \in Nat
      BY <1>0 DEF Snapshot
    <3> HIDE DEF items
    <3>5. CASE Len(items) = 1
      BY <2>1, <3>2, <3>5 DEF ApplyBatch
    <3>6. CASE Len(items) = 2
      BY <2>1, <3>2, <3>3, <3>4, <3>6 DEF ApplyBatch
    <3> QED BY <2>1, <3>5, <3>6
  <2>6. Len(stream) \in Nat /\ Len(stream') \in Nat /\ Len(stream) <= Len(stream')
    BY <1>0, <2>1, <2>3
  <2> HIDE DEF items
  <2>7. checkpoint' # NoCheckpoint => checkpoint'.version \in 0 .. Len(stream') /\ Projections(stream')[checkpoint'.version] = checkpoint'
    BY <1>2, <2>4, <2>6 DEF StreamInv
  <2>8. taken' \in [Callers -> Snapshot \cup {NoCheckpoint}]
    BY <1>2 DEF StreamInv
  <2>9. RowsRecorded(idempotency', stream')
    <3>1. call[c] \in Call /\ Accepts(call[c]) /\ idempotency \in [Keys -> Batch \cup {NoBatch}]
      BY <1>0, <1>2 DEF AppendBatch, IInv, TypeOK
    <3>2. call[c].expectedVersion = Len(stream)
      BY <1>0, <3>1 DEF Accepts
    <3>3. idempotency' = [k \in Keys |-> IF k = call[c].key THEN Recorded(call[c]) ELSE idempotency[k]]
      BY <1>2 DEF AppendBatch
    <3>4. stream' = stream \o call[c].items /\ RowsRecorded(idempotency, stream)
      BY <1>2 DEF WithRows, StreamInv
    <3> QED BY <1>0, <3>1, <3>2, <3>3, <3>4, AppendRecords
  <2> QED BY <1>0, <1>1, <2>3, <2>4, <2>5, <2>7, <2>8, <2>9 DEF StreamInv
<1>3. ASSUME UNCHANGED <<snapshot, idempotency, stream, checkpoint, taken>>
      PROVE  StreamInv'
  BY <1>1, <1>3 DEF StreamInv
<1>4. ASSUME NEW c \in Callers, CreateMissionCheckpoint(c)
      PROVE  StreamInv'
  <2>1. UNCHANGED <<snapshot, idempotency, stream, checkpoint>>
    BY <1>4 DEF CreateMissionCheckpoint
  <2>2. call[c] # NoCall /\ call[c].expectedVersion = snapshot.version => ApplyBatch(snapshot, call[c].items) \in Snapshot
    <3> SUFFICES ASSUME call[c] # NoCall, call[c].expectedVersion = snapshot.version
                 PROVE  ApplyBatch(snapshot, call[c].items) \in Snapshot
      OBVIOUS
    <3>1. call[c].items \in Fitting(snapshot) /\ Sound(snapshot) /\ LastKept(snapshot, lastActive)
      BY <1>0 DEF IInv, CallInv
    <3> QED BY <3>1, FittingSound DEF Sound
  <2>4. taken' \in [Callers -> Snapshot \cup {NoCheckpoint}]
    BY <1>0, <1>4, <2>2 DEF StreamInv, CreateMissionCheckpoint
  <2> QED BY <1>1, <2>1, <2>4 DEF StreamInv
<1>5. ASSUME NEW c \in Callers, SaveCheckpoint(c)
      PROVE  StreamInv'
  <2>1. UNCHANGED <<snapshot, idempotency, stream, taken>> /\ checkpoint' = taken[c] /\ taken[c] # NoCheckpoint /\ MatchesEvents(taken[c])
    BY <1>5 DEF SaveCheckpoint
  <2>2. taken[c].version \in 0 .. Len(stream)
    <3>1. taken[c].version \in Nat /\ Len(stream) \in Nat
      BY <1>0, <2>1 DEF StreamInv, Snapshot
    <3> QED BY <2>1, <3>1 DEF MatchesEvents
  <2>3. Projections(stream)[taken[c].version] = taken[c]
    BY <1>0, <2>1, <2>2, PrefixProjects DEF MatchesEvents
  <2> QED BY <1>1, <2>1, <2>2, <2>3 DEF StreamInv
<1> QED
  BY <1>2, <1>3, <1>4, <1>5 DEF StreamNext, RuntimeStep, streamVars, Create, Transition, SetTaskStatus, DebitBudget, RecordFailure, Invoke, GiveUp

\* What a repeated request is answered with is what it asked for.
LEMMA RepeatsHold == StreamInv => RepeatsAnswered
<1> SUFFICES ASSUME StreamInv, NEW c \in Callers, call[c] # NoCall, Replays(call[c])
             PROVE  LET r == idempotency[call[c].key]
                    IN  SubSeq(stream, r.first, r.first + r.count - 1) = call[c].items
  BY DEF RepeatsAnswered
<1> DEFINE r == idempotency[call[c].key]
           items == call[c].items
           first == r.first
           count == r.count
<1>1. stream \in Seq(Events) /\ items \in Seq(Events) /\ r \in Batch /\ r.fingerprint.items = items
  <2>1. call[c] \in Call /\ idempotency \in [Keys -> Batch \cup {NoBatch}] /\ stream \in Seq(Events)
    BY DEF StreamInv, IInv, TypeOK
  <2>2. r \in Batch
    BY <2>1 DEF Replays
  <2> QED BY <2>1, <2>2 DEF Replays, Fingerprint, Call
<1>2. /\ first \in Nat /\ count \in Nat /\ first >= 1 /\ count = Len(items) /\ first + count <= Len(stream) + 1
      /\ \A i \in 1 .. count : stream[first + i - 1] = items[i]
  <2>1. call[c].key \in Keys /\ r # NoBatch
    BY DEF Replays
  <2>2. /\ first >= 1 /\ count = Len(r.fingerprint.items) /\ first + count <= Len(stream) + 1
        /\ \A i \in 1 .. count : stream[first + i - 1] = r.fingerprint.items[i]
    BY <2>1 DEF StreamInv, RowsRecorded
  <2>3. first \in Nat /\ count \in Nat
    BY <1>1 DEF Batch
  <2> HIDE DEF r, items
  <2> QED BY <1>1, <2>2, <2>3
<1> HIDE DEF first, count, items
<1>3. SubSeq(stream, first, first + count - 1) = items
  <2> DEFINE s == SubSeq(stream, first, first + count - 1)
  <2>1. s \in Seq(Events) /\ Len(s) = count /\ \A i \in 1 .. count : s[i] = stream[first + i - 1]
    BY <1>1, <1>2
  <2> HIDE DEF s
  <2>2. Len(s) = Len(items) /\ \A i \in 1 .. Len(s) : s[i] = items[i]
    BY <1>2, <2>1
  <2>3. s = [i \in 1 .. Len(s) |-> s[i]] /\ items = [i \in 1 .. Len(items) |-> items[i]]
    BY <1>1, <2>1
  <2>4. s = items
    BY <2>2, <2>3
  <2> QED BY <2>4 DEF s
<1> QED BY <1>3 DEF first, count, items

\* All ways back lead to the mission the callers worked with: the whole stream projects to the
\* live snapshot, a stored checkpoint is the projection of the prefix it names, however late it
\* was saved, and a repeated request is answered with its own rows (projectMission,
\* loadCheckpoint, append of src/durable/store.ts).
THEOREM RecoveryHolds == StreamSpec => []RecoveryExact
<1>1. StreamInv => RecoveryExact
  BY PrefixProjects, RepeatsHold DEF StreamInv, RecoveryExact, ReplayEqualsLive, CheckpointLoads
<1> QED BY <1>1, StreamStarts, StreamStep, PTL DEF StreamSpec
=============================================================================
