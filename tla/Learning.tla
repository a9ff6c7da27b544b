------------------------------ MODULE Learning ------------------------------
(***************************************************************************)
(* EvidenceLearningCurator (src/learning/curator.ts) for one key of one    *)
(* project: lessons that contradict each other, the tasks that support     *)
(* them, and the memory that an established lesson enters.  A request      *)
(* awaits the evidence authority or the memory store; between two awaits   *)
(* it runs alone.  Time since the last observation is fresh, cold or old.  *)
(***************************************************************************)
EXTENDS Integers, FiniteSets

CONSTANTS
  Lessons,              \* contents proposed under the key; a lesson stands for its record
  Tasks,                \* the mission tasks that may support a lesson
  ProposalKeys,         \* idempotency keys of proposals
  LearningCalls,        \* concurrent requests
  EstablishmentSupport, \* ESTABLISHMENT_SUPPORT
  NoRecord

\* LearningRecord: what the group's rules read of it.
LearningRecord ==
  [status : {"CANDIDATE", "ESTABLISHED", "CONFLICTED", "ARCHIVED"}, tier : {"HOT", "WARM", "COLD"},
   supports : SUBSET Tasks, age : {"fresh", "cold", "old"}]

ASSUME LearningAssumption == EstablishmentSupport \in Nat \ {0, 1} /\ NoRecord \notin LearningRecord

VARIABLES
  lesson,    \* #records
  replay,    \* #replays: the proposals that were answered
  call,      \* per request: what it awaits
  learned,   \* the memory of each lesson in the store
  contested  \* history: lessons that were not ESTABLISHED when their memory was written

learningVars == <<lesson, replay, call, learned, contested>>

IdleCall == [pc |-> "idle"]

LearningInit ==
  /\ lesson = [l \in Lessons |-> NoRecord]
  /\ replay = {}
  /\ call = [c \in LearningCalls |-> IdleCall]
  /\ learned = [l \in Lessons |-> "absent"]
  /\ contested = {}

Recorded(f) == {l \in Lessons : f[l] # NoRecord}
Live(f) == {l \in Recorded(f) : f[l].status # "ARCHIVED"}
Established(f, l) == Cardinality(f[l].supports) >= EstablishmentSupport

\* Fault: a group conflicts only if two of its lessons are established.
RecomputeLoose(f) ==
  [l \in Lessons |-> IF l \notin Live(f) THEN f[l]
     ELSE [f[l] EXCEPT !.status = IF Established(f, l) /\ \A k \in Live(f) \ {l} : ~Established(f, k) THEN "ESTABLISHED" ELSE "CANDIDATE"]]

\* #recomputeGroup: several live contents conflict; archived records are left alone.
RecomputeGroup(f) ==
  LET conflicted == Cardinality(Live(f)) > 1
      status(l) == IF conflicted THEN "CONFLICTED" ELSE IF Established(f, l) THEN "ESTABLISHED" ELSE "CANDIDATE"
      tier(l) == IF conflicted THEN IF f[l].tier = "HOT" THEN "WARM" ELSE f[l].tier
                 ELSE IF f[l].tier = "COLD" THEN "COLD" ELSE IF Established(f, l) THEN "HOT" ELSE "WARM"
  IN [l \in Lessons |-> IF l \in Live(f) THEN [f[l] EXCEPT !.status = status(l), !.tier = tier(l)] ELSE f[l]]

-----------------------------------------------------------------------------
\* A key belongs to its task.
Answered(t, k) == \E r \in replay : r.task = t /\ r.key = k

\* recordVerifiedLesson up to the await: a known key is answered at once.
Propose(c, l, t, k) ==
  /\ call[c].pc = "idle"
  /\ ~Answered(t, k)
  /\ call' = [call EXCEPT ![c] = [pc |-> "attesting", lesson |-> l, task |-> t, key |-> k]]
  /\ UNCHANGED <<lesson, replay, learned, contested>>

\* validateAttestation: no evidence, a failing verdict or one of another lesson, task or time is refused.
Refused(c) ==
  /\ call[c].pc = "attesting"
  /\ call' = [call EXCEPT ![c] = IdleCall]
  /\ UNCHANGED <<lesson, replay, learned, contested>>

\* The record with one more support; `newer' tells whether the proposal was observed later.
Supported(l, t, newer) ==
  IF lesson[l] = NoRecord
  THEN [status |-> "CANDIDATE", tier |-> "WARM", supports |-> {t}, age |-> "fresh"]
  ELSE IF t \in lesson[l].supports THEN lesson[l]
  ELSE [lesson[l] EXCEPT !.supports = @ \cup {t}, !.age = IF newer THEN "fresh" ELSE @,
          !.tier = IF Cardinality(lesson[l].supports) + 1 >= EstablishmentSupport THEN "HOT" ELSE "WARM"]

\* recordVerifiedLesson after the await: the key is looked up again, and a task that supports the lesson
\* already must have the same verification result.
Attested(c, newer, sameResult) ==
  /\ call[c].pc = "attesting"
  /\ LET l == call[c].lesson  t == call[c].task  k == call[c].key
         refused == lesson[l] # NoRecord /\ t \in lesson[l].supports /\ ~sameResult
         f == RecomputeGroup([lesson EXCEPT ![l] = Supported(l, t, newer)]) IN
     IF Answered(t, k) \/ refused THEN UNCHANGED <<lesson, replay>>
     ELSE lesson' = f /\ replay' = replay \cup {[task |-> t, key |-> k, lesson |-> l]}
  /\ call' = [call EXCEPT ![c] = IdleCall]
  /\ UNCHANGED <<learned, contested>>

-----------------------------------------------------------------------------
\* Fault: any lesson that is recorded may enter memory.
CommitStartsAny(c, l) ==
  /\ call[c].pc = "idle" /\ lesson[l] # NoRecord
  /\ call' = [call EXCEPT ![c] = [pc |-> "getting", lesson |-> l]]
  /\ UNCHANGED <<lesson, replay, learned, contested>>

\* commitEstablishedToMemory up to the first await.
CommitStarts(c, l) ==
  LET f == RecomputeGroup(lesson) IN
  /\ call[c].pc = "idle" /\ lesson[l] # NoRecord
  /\ lesson' = f
  /\ call' = IF f[l].status = "ESTABLISHED" THEN [call EXCEPT ![c] = [pc |-> "getting", lesson |-> l]] ELSE call
  /\ UNCHANGED <<replay, learned, contested>>

\* The store answers: an active memory is kept, a cleared one is a conflict.
CommitGets(c) ==
  /\ call[c].pc = "getting"
  /\ call' = [call EXCEPT ![c] =
       IF learned[call[c].lesson] = "absent" THEN [pc |-> "writing", lesson |-> call[c].lesson] ELSE IdleCall]
  /\ UNCHANGED <<lesson, replay, learned, contested>>

\* The write expects version 0: a memory that came meanwhile is a conflict.  The record's status is
\* not looked at again.
CommitWrites(c) ==
  LET l == call[c].lesson IN
  /\ call[c].pc = "writing"
  /\ IF learned[l] # "absent" THEN UNCHANGED <<learned, contested>>
     ELSE /\ learned' = [learned EXCEPT ![l] = "active"]
          /\ contested' = IF lesson[l].status = "ESTABLISHED" THEN contested ELSE contested \cup {l}
  /\ call' = [call EXCEPT ![c] = IdleCall]
  /\ UNCHANGED <<lesson, replay>>

\* The user clears the memory.
ClearLearned(l) ==
  /\ learned[l] = "active"
  /\ learned' = [learned EXCEPT ![l] = "tombstoned"]
  /\ UNCHANGED <<lesson, replay, call, contested>>

-----------------------------------------------------------------------------
\* runMaintenance on some of the live lessons: weak ones that are old are archived, cold ones are cooled.
Archives(l) == lesson[l].status # "ESTABLISHED" /\ ~Established(lesson, l) /\ lesson[l].age = "old"

Maintained(some) ==
  [l \in Lessons |->
     IF l \notin some THEN lesson[l]
     ELSE IF Archives(l) THEN [lesson[l] EXCEPT !.status = "ARCHIVED", !.tier = "COLD"]
     ELSE IF lesson[l].age # "fresh" THEN [lesson[l] EXCEPT !.tier = "COLD"] ELSE lesson[l]]

\* The whole pass; the group of an archived lesson is recomputed.
RunMaintenance ==
  /\ lesson' = LET f == Maintained(Live(lesson)) IN IF \E l \in Live(lesson) : Archives(l) THEN RecomputeGroup(f) ELSE f
  /\ UNCHANGED <<replay, call, learned, contested>>

\* The pass throws at a record of the project, of this key or of another, that was observed after the
\* time it is given: the records it came to before stay as it made them, and no group is recomputed.
MaintenanceThrows(some) ==
  /\ lesson' = Maintained(some)
  /\ UNCHANGED <<replay, call, learned, contested>>

GrowsOlder(l) ==
  /\ lesson[l] # NoRecord /\ lesson[l].age # "old"
  /\ lesson' = [lesson EXCEPT ![l].age = IF @ = "fresh" THEN "cold" ELSE "old"]
  /\ UNCHANGED <<replay, call, learned, contested>>

\* compileNudges: what a task is told.
Nudges == {l \in Recorded(lesson) : lesson[l].status \notin {"ARCHIVED", "CONFLICTED"}}

LearningNext ==
  \/ \E c \in LearningCalls, l \in Lessons, t \in Tasks, k \in ProposalKeys : Propose(c, l, t, k)
  \/ \E c \in LearningCalls : Refused(c) \/ CommitGets(c) \/ CommitWrites(c)
  \/ \E c \in LearningCalls, newer, sameResult \in BOOLEAN : Attested(c, newer, sameResult)
  \/ \E c \in LearningCalls, l \in Lessons : CommitStarts(c, l)
  \/ \E l \in Lessons : ClearLearned(l) \/ GrowsOlder(l)
  \/ RunMaintenance
  \/ \E some \in SUBSET Live(lesson) : MaintenanceThrows(some)

LearningSpec == LearningInit /\ [][LearningNext]_learningVars

(***************************************************************************)
(* Tasks are never told two lessons of one key that disagree; a lesson is  *)
(* called established only with the support of that many distinct tasks,   *)
(* each of which proposed that very lesson; what is in memory has that     *)
(* support and is never archived behind its memory, whatever requests and  *)
(* maintenance, whole or cut short, run between the awaits of a proposal   *)
(* or of a commit (curator.ts 66-240, 322-383).                            *)
(***************************************************************************)
LearningSound ==
  /\ Cardinality(Nudges) <= 1
  /\ \A l \in Recorded(lesson) : lesson[l].status = "ESTABLISHED" => Established(lesson, l) /\ Nudges = {l}
  /\ \A l \in Recorded(lesson) : \A t \in lesson[l].supports :
       \E r \in replay : r.task = t /\ r.lesson = l
  /\ Cardinality(Live(lesson)) > 1 => \A l \in Live(lesson) : lesson[l].status = "CONFLICTED"
  /\ \A l \in Lessons : learned[l] # "absent" => l \in Live(lesson) /\ Established(lesson, l)

\* Only a lesson that is established and not contradicted when its memory is written enters memory:
\* what docs/milestones/M13_EVIDENCE_LEARNING.md:76 says of commitEstablishedToMemory.  The code asks
\* before two awaits (curator.ts:207) and writes after them (curator.ts:241).
OnlyClearEnters == contested = {}
=============================================================================
