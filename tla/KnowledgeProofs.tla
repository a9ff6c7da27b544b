--------------------------- MODULE KnowledgeProofs ---------------------------
(***************************************************************************)
(* Theorems about what the system keeps and reuses: the lessons of one     *)
(* key, the memories of one project and the skills with their packs, for   *)
(* any lessons, tasks, callers, memories, snapshots, packs and overlapping *)
(* requests.                                                               *)
(***************************************************************************)
EXTENDS MCKnowledge, SequenceTheorems, FiniteSetTheorems, WellFoundedInduction, TLAPS

\* Every non-empty set of numbers has a least element.
LEMMA LeastNumber ==
  ASSUME NEW S, S \subseteq Nat, S # {}
  PROVE  \E x \in S : \A y \in S : x <= y
<1> DEFINE R == OpToRel(<, Nat)
<1>1. PICK x \in S : \A y \in S : ~(<<y, x>> \in R)
  <2> HIDE DEF R
  <2>1. IsWellFoundedOn(R, Nat)
    BY NatLessThanWellFounded DEF R
  <2> QED BY <2>1, WFMin
<1>2. \A y \in S : y < x => <<y, x>> \in R
  BY DEF OpToRel
<1> HIDE DEF R
<1>3. \A y \in S : ~(y < x)
  BY <1>1, <1>2
<1> QED BY <1>3

-----------------------------------------------------------------------------
(* Lessons (learning/curator.ts) *)

AttestingCall == [pc : {"attesting"}, lesson : Lessons, task : Tasks, key : ProposalKeys]
CommittingCall == [pc : {"getting", "writing"}, lesson : Lessons]

\* The records of a group: several live lessons contradict each other and say so, and a live
\* one is called established with its support only.
GroupSound(f) ==
  /\ \A k, l \in Live(f) : k # l => f[k].status = "CONFLICTED"
  /\ \A l \in Live(f) : f[l].status = "ESTABLISHED" => Established(f, l)

GroupTyped(f) ==
  /\ f \in [Lessons -> LearningRecord \cup {NoRecord}] /\ IsFiniteSet(Recorded(f))
  /\ \A l \in Recorded(f) : IsFiniteSet(f[l].supports)

\* What supports a lesson was proposed as this lesson.
SupportsProposed(f, answered) ==
  \A l \in Recorded(f) : \A t \in f[l].supports : \E r \in answered : r.task = t /\ r.lesson = l

\* The lessons with the support of an established one that are not archived: they stay so,
\* although a contradiction may take their status.
Firm(f) == {l \in Live(f) : Established(f, l)}

\* What a commit is about to write, and what is in memory, is firm.
CommitsEstablished ==
  /\ \A c \in LearningCalls : call[c].pc \in {"getting", "writing"} => call[c].lesson \in Firm(lesson)
  /\ \A l \in Lessons : learned[l] # "absent" => l \in Firm(lesson)

LearningInv ==
  /\ GroupTyped(lesson) /\ GroupSound(lesson) /\ SupportsProposed(lesson, replay)
  /\ call \in [LearningCalls -> {IdleCall} \cup AttestingCall \cup CommittingCall]
  /\ learned \in [Lessons -> {"absent", "active", "tombstoned"}]
  /\ CommitsEstablished

-----------------------------------------------------------------------------
LEMMA AtMostOne ==
  ASSUME NEW S, IsFiniteSet(S)
  PROVE  /\ (\A x, y \in S : x = y) => Cardinality(S) <= 1
         /\ Cardinality(S) <= 1 => \A x, y \in S : x = y
<1>1. Cardinality(S) \in Nat
  BY FS_CardinalityType
<1>2. CASE S = {}
  <2>1. Cardinality(S) = 0
    BY <1>2, FS_EmptySet
  <2> QED BY <1>2, <2>1
<1>3. CASE S # {}
  <2>1. PICK x \in S : TRUE
    BY <1>3
  <2>2. IsFiniteSet(S \ {x}) /\ Cardinality(S \ {x}) = Cardinality(S) - 1 /\ Cardinality(S \ {x}) \in Nat
    BY <2>1, FS_RemoveElement, FS_CardinalityType
  <2>3. ASSUME \A y, z \in S : y = z PROVE Cardinality(S) <= 1
    <3>1. S \ {x} = {}
      BY <2>1, <2>3
    <3>2. Cardinality(S \ {x}) = 0
      BY <3>1, FS_EmptySet
    <3> QED BY <1>1, <2>2, <3>2
  <2>4. ASSUME Cardinality(S) <= 1 PROVE \A y, z \in S : y = z
    <3>1. Cardinality(S \ {x}) = 0
      BY <1>1, <2>2, <2>4
    <3>2. S \ {x} = {}
      BY <2>2, <3>1, FS_EmptySet
    <3> QED BY <3>2
  <2> QED BY <2>3, <2>4
<1> QED BY <1>2, <1>3

\* What is firm stays firm when its supports do and it is not archived.
LEMMA FirmKept ==
  ASSUME NEW f, NEW g, Recorded(g) = Recorded(f), \A l \in Recorded(f) : g[l].supports = f[l].supports,
         \A l \in Live(f) : Established(f, l) => g[l].status # "ARCHIVED"
  PROVE  Firm(f) \subseteq Firm(g)
BY DEF Firm, Live, Established

\* #recomputeGroup makes the group sound whatever the statuses were, and changes nothing else.
LEMMA RecomputeSound ==
  ASSUME NEW f, GroupTyped(f)
  PROVE  /\ GroupTyped(RecomputeGroup(f)) /\ GroupSound(RecomputeGroup(f))
         /\ Recorded(RecomputeGroup(f)) = Recorded(f)
         /\ \A l \in Recorded(f) : RecomputeGroup(f)[l].supports = f[l].supports
         /\ Firm(f) \subseteq Firm(RecomputeGroup(f))
<1> DEFINE conflicted == Cardinality(Live(f)) > 1
           status(l) == IF conflicted THEN "CONFLICTED" ELSE IF Established(f, l) THEN "ESTABLISHED" ELSE "CANDIDATE"
           tier(l) == IF conflicted THEN IF f[l].tier = "HOT" THEN "WARM" ELSE f[l].tier
                      ELSE IF f[l].tier = "COLD" THEN "COLD" ELSE IF Established(f, l) THEN "HOT" ELSE "WARM"
<1>1. PICK g : g = [l \in Lessons |-> IF l \in Live(f) THEN [f[l] EXCEPT !.status = status(l), !.tier = tier(l)] ELSE f[l]]
  OBVIOUS
<1>2. RecomputeGroup(f) = g
  BY <1>1 DEF RecomputeGroup
<1>3. Live(f) \subseteq Recorded(f) /\ Recorded(f) \subseteq Lessons /\ IsFiniteSet(Live(f))
  <2>1. Live(f) \subseteq Recorded(f) /\ Recorded(f) \subseteq Lessons
    BY DEF Live, Recorded
  <2>2. IsFiniteSet(Recorded(f))
    BY DEF GroupTyped
  <2> QED BY <2>1, <2>2, FS_Subset
<1>4. ASSUME NEW l \in Live(f)
      PROVE  g[l] \in LearningRecord /\ g[l].status = status(l) /\ g[l].supports = f[l].supports
  <2>1. f[l] \in LearningRecord /\ l \in Lessons
    BY <1>3 DEF GroupTyped, Live, Recorded
  <2>2. g[l] = [f[l] EXCEPT !.status = status(l), !.tier = tier(l)]
    BY <1>1, <2>1
  <2>3. status(l) \in {"CONFLICTED", "ESTABLISHED", "CANDIDATE"} /\ tier(l) \in {"HOT", "WARM", "COLD"}
    BY <2>1 DEF LearningRecord
  <2> HIDE DEF status, tier
  <2> QED BY <2>1, <2>2, <2>3 DEF LearningRecord
<1>5. \A l \in Lessons \ Live(f) : g[l] = f[l]
  BY <1>1
<1>6. DOMAIN g = Lessons /\ g = [l \in Lessons |-> g[l]]
  BY <1>1
<1>7. Recorded(g) = Recorded(f)
  BY <1>3, <1>4, <1>5, LearningAssumption DEF Recorded
<1>8. GroupTyped(g)
  <2>1. \A l \in Lessons : g[l] \in LearningRecord \cup {NoRecord}
    BY <1>4, <1>5 DEF GroupTyped
  <2>2. \A l \in Recorded(f) : g[l].supports = f[l].supports
    BY <1>3, <1>4, <1>5
  <2> QED BY <1>6, <1>7, <2>1, <2>2 DEF GroupTyped
<1>9. Live(g) = Live(f)
  <2>1. \A l \in Live(f) : g[l].status # "ARCHIVED"
    BY <1>4
  <2>2. \A l \in Recorded(f) : l \notin Live(f) => g[l] = f[l]
    BY <1>3, <1>5
  <2> QED BY <1>3, <1>7, <2>1, <2>2 DEF Live
<1>10. \A l \in Recorded(f) : g[l].supports = f[l].supports
  BY <1>3, <1>4, <1>5
<1>11. GroupSound(g)
  <2>1. ASSUME NEW k \in Live(f), NEW l \in Live(f), k # l PROVE g[k].status = "CONFLICTED"
    <3>1. ~(Cardinality(Live(f)) <= 1) /\ Cardinality(Live(f)) \in Nat
      BY <1>3, <2>1, AtMostOne, FS_CardinalityType
    <3>2. conflicted
      BY <3>1
    <3> QED BY <1>4, <3>2
  <2>2. ASSUME NEW l \in Live(f), g[l].status = "ESTABLISHED" PROVE Established(g, l)
    <3>1. Established(f, l) /\ g[l].supports = f[l].supports
      BY <1>4, <2>2
    <3> QED BY <3>1 DEF Established
  <2> QED BY <1>9, <2>1, <2>2 DEF GroupSound
<1>12. Firm(f) \subseteq Firm(g)
  <2>1. \A l \in Live(f) : g[l].status # "ARCHIVED"
    BY <1>4
  <2> QED BY <1>7, <1>10, <2>1, FirmKept
<1> QED BY <1>2, <1>7, <1>8, <1>10, <1>11, <1>12

-----------------------------------------------------------------------------
CallSet == {IdleCall} \cup AttestingCall \cup CommittingCall

LEMMA LearningTyped ==
  ASSUME LearningInv
  PROVE  /\ GroupTyped(lesson) /\ GroupSound(lesson) /\ SupportsProposed(lesson, replay) /\ CommitsEstablished
         /\ call \in [LearningCalls -> CallSet] /\ learned \in [Lessons -> {"absent", "active", "tombstoned"}]
BY DEF LearningInv, CallSet

\* A step that leaves the records alone and moves one request.
LEMMA CallMoves ==
  ASSUME LearningInv, NEW c \in LearningCalls, NEW b \in CallSet, call' = [call EXCEPT ![c] = b],
         lesson' = lesson, replay' = replay,
         learned' \in [Lessons -> {"absent", "active", "tombstoned"}],
         \A l \in Lessons : learned'[l] # "absent" => l \in Firm(lesson),
         b.pc \in {"getting", "writing"} => b.lesson \in Firm(lesson)
  PROVE  LearningInv'
<1>1. /\ call' \in [LearningCalls -> CallSet] /\ call'[c] = b
      /\ \A d \in LearningCalls \ {c} : call'[d] = call[d]
  BY LearningTyped
<1>2. CommitsEstablished'
  BY <1>1, LearningTyped DEF CommitsEstablished
<1> QED BY <1>1, <1>2, LearningTyped DEF LearningInv, CallSet

\* A step of the records: they stay sound, and what is firm stays firm.
LEMMA RecordsMove ==
  ASSUME LearningInv, GroupTyped(lesson'), GroupSound(lesson'), SupportsProposed(lesson', replay'),
         Firm(lesson) \subseteq Firm(lesson'), learned' = learned,
         call' \in [LearningCalls -> CallSet],
         \A c \in LearningCalls : call'[c] = call[c] \/ (call'[c].pc \in {"getting", "writing"} => call'[c].lesson \in Firm(lesson'))
  PROVE  LearningInv'
<1>1. CommitsEstablished'
  BY LearningTyped DEF CommitsEstablished
<1> QED BY <1>1, LearningTyped DEF LearningInv, CallSet

LEMMA CallKinds ==
  ASSUME LearningInv, NEW c \in LearningCalls
  PROVE  /\ call[c] \in CallSet /\ IdleCall \in CallSet /\ IdleCall.pc = "idle"
         /\ call[c].pc = "attesting" => call[c] \in AttestingCall
         /\ call[c].pc \in {"getting", "writing"} => call[c] \in CommittingCall /\ call[c].lesson \in Firm(lesson)
<1>1. call[c] \in CallSet
  BY LearningTyped
<1>2. IdleCall \in CallSet /\ IdleCall.pc = "idle"
  BY DEF CallSet, IdleCall
<1>3. \A b \in AttestingCall : b.pc = "attesting"
  BY DEF AttestingCall
<1>4. \A b \in CommittingCall : b.pc \in {"getting", "writing"}
  BY DEF CommittingCall
<1>5. call[c].pc \in {"getting", "writing"} => call[c].lesson \in Firm(lesson)
  BY LearningTyped DEF CommitsEstablished
<1> QED BY <1>1, <1>2, <1>3, <1>4, <1>5 DEF CallSet

LEMMA ProposeInv ==
  ASSUME LearningInv, NEW c \in LearningCalls, NEW l \in Lessons, NEW t \in Tasks, NEW k \in ProposalKeys, Propose(c, l, t, k)
  PROVE  LearningInv'
<1> DEFINE b == [pc |-> "attesting", lesson |-> l, task |-> t, key |-> k]
<1>1. b \in AttestingCall /\ b.pc = "attesting"
  BY DEF AttestingCall
<1>2. b \in CallSet
  BY <1>1 DEF CallSet
<1>3. /\ call' = [call EXCEPT ![c] = b]
      /\ lesson' = lesson /\ replay' = replay /\ learned' = learned
  BY DEF Propose
<1>4. learned \in [Lessons -> {"absent", "active", "tombstoned"}] /\ \A m \in Lessons : learned[m] # "absent" => m \in Firm(lesson)
  BY LearningTyped DEF CommitsEstablished
<1> HIDE DEF b
<1> QED BY <1>1, <1>2, <1>3, <1>4, CallMoves

LEMMA RefusedInv ==
  ASSUME LearningInv, NEW c \in LearningCalls, Refused(c)
  PROVE  LearningInv'
<1>1. /\ call' = [call EXCEPT ![c] = IdleCall]
      /\ lesson' = lesson /\ replay' = replay /\ learned' = learned
  BY DEF Refused
<1>2. IdleCall \in CallSet /\ IdleCall.pc = "idle"
  BY CallKinds
<1>3. learned \in [Lessons -> {"absent", "active", "tombstoned"}] /\ \A m \in Lessons : learned[m] # "absent" => m \in Firm(lesson)
  BY LearningTyped DEF CommitsEstablished
<1> HIDE DEF IdleCall
<1> QED BY <1>1, <1>2, <1>3, CallMoves

\* The group with one more support is typed, and each of its supports is on record.
LEMMA SupportedTyped ==
  ASSUME LearningInv, NEW l \in Lessons, NEW t \in Tasks, NEW newer \in BOOLEAN, NEW answered, replay \subseteq answered,
         \E r \in answered : r.task = t /\ r.lesson = l
  PROVE  LET f == [lesson EXCEPT ![l] = Supported(l, t, newer)] IN GroupTyped(f) /\ SupportsProposed(f, answered) /\ Firm(lesson) \subseteq Firm(f)
<1> DEFINE s == Supported(l, t, newer)
<1>1. PICK f : f = [lesson EXCEPT ![l] = s]
  OBVIOUS
<1>2. lesson \in [Lessons -> LearningRecord \cup {NoRecord}] /\ IsFiniteSet(Recorded(lesson))
  BY LearningTyped DEF GroupTyped
<1>3. s \in LearningRecord /\ s.supports \subseteq (IF lesson[l] = NoRecord THEN {} ELSE lesson[l].supports) \cup {t}
  <2>1. CASE lesson[l] = NoRecord
    BY <2>1 DEF Supported, LearningRecord
  <2>2. CASE lesson[l] # NoRecord
    <3>1. lesson[l] \in LearningRecord
      BY <1>2, <2>2
    <3>2. CASE t \in lesson[l].supports
      BY <2>2, <3>1, <3>2 DEF Supported
    <3>3. CASE t \notin lesson[l].supports
      <4>1. s = [lesson[l] EXCEPT !.supports = lesson[l].supports \cup {t}, !.age = IF newer THEN "fresh" ELSE lesson[l].age,
                   !.tier = IF Cardinality(lesson[l].supports) + 1 >= EstablishmentSupport THEN "HOT" ELSE "WARM"]
        BY <2>2, <3>3 DEF Supported
      <4>2. (IF newer THEN "fresh" ELSE lesson[l].age) \in {"fresh", "cold", "old"} /\ lesson[l].supports \cup {t} \in SUBSET Tasks
        BY <3>1 DEF LearningRecord
      <4>3. (IF Cardinality(lesson[l].supports) + 1 >= EstablishmentSupport THEN "HOT" ELSE "WARM") \in {"HOT", "WARM", "COLD"}
        OBVIOUS
      <4> HIDE DEF s
      <4> QED BY <2>2, <3>1, <4>1, <4>2, <4>3 DEF LearningRecord
    <3> QED BY <3>2, <3>3
  <2> QED BY <2>1, <2>2
<1> HIDE DEF s
<1>4. f \in [Lessons -> LearningRecord \cup {NoRecord}] /\ f[l] = s /\ \A k \in Lessons \ {l} : f[k] = lesson[k]
  BY <1>1, <1>2, <1>3
<1>5. Recorded(f) = Recorded(lesson) \cup {l}
  BY <1>3, <1>4, LearningAssumption DEF Recorded
<1>6. IsFiniteSet(Recorded(f))
  BY <1>2, <1>5, FS_AddElement
<1>7. SupportsProposed(f, answered)
  <2> SUFFICES ASSUME NEW k \in Recorded(f), NEW u \in f[k].supports PROVE \E r \in answered : r.task = u /\ r.lesson = k
    BY DEF SupportsProposed
  <2>0. k \in Lessons
    BY DEF Recorded
  <2>1. CASE k = l /\ u = t
    BY <2>1
  <2>2. CASE ~(k = l /\ u = t)
    <3>1. k \in Recorded(lesson) /\ u \in lesson[k].supports
      BY <1>3, <1>4, <2>0, <2>2 DEF Recorded
    <3> QED BY <3>1, LearningTyped DEF SupportsProposed
  <2> QED BY <2>1, <2>2
<1>8. lesson[l] # NoRecord => s.status = lesson[l].status /\ lesson[l].supports \subseteq s.supports
  <2> SUFFICES ASSUME lesson[l] # NoRecord PROVE s.status = lesson[l].status /\ lesson[l].supports \subseteq s.supports
    OBVIOUS
  <2>1. lesson[l] \in LearningRecord
    BY <1>2
  <2> QED BY <2>1 DEF s, Supported, LearningRecord
<1>9. \A k \in Recorded(f) : IsFiniteSet(f[k].supports)
  <2>1. \A k \in Recorded(lesson) : IsFiniteSet(lesson[k].supports)
    BY LearningTyped DEF GroupTyped
  <2>2. IsFiniteSet(s.supports)
    <3>1. CASE lesson[l] = NoRecord
      <4>1. s.supports \subseteq {} \cup {t} /\ IsFiniteSet({} \cup {t})
        BY <1>3, <3>1, FS_EmptySet, FS_AddElement
      <4> QED BY <4>1, FS_Subset
    <3>2. CASE lesson[l] # NoRecord
      <4>1. s.supports \subseteq lesson[l].supports \cup {t} /\ l \in Recorded(lesson)
        BY <1>3, <3>2 DEF Recorded
      <4>2. IsFiniteSet(lesson[l].supports \cup {t})
        BY <2>1, <4>1, FS_AddElement
      <4> QED BY <4>1, <4>2, FS_Subset
    <3> QED BY <3>1, <3>2
  <2>3. \A k \in Recorded(f) : k \in Lessons /\ (k # l => k \in Recorded(lesson))
    BY <1>5 DEF Recorded
  <2> QED BY <1>4, <2>1, <2>2, <2>3
<1>10. Firm(lesson) \subseteq Firm(f)
  <2> SUFFICES ASSUME NEW k \in Firm(lesson) PROVE k \in Firm(f)
    OBVIOUS
  <2>1. k \in Recorded(lesson) /\ k \in Lessons /\ lesson[k] # NoRecord /\ lesson[k].status # "ARCHIVED" /\ Established(lesson, k)
    BY DEF Firm, Live, Recorded
  <2>2. k \in Recorded(f)
    BY <1>5, <2>1
  <2>3. f[k].status = lesson[k].status /\ lesson[k].supports \subseteq f[k].supports
    BY <1>4, <1>8, <2>1
  <2>4. IsFiniteSet(f[k].supports)
    BY <1>9, <2>2
  <2>5. IsFiniteSet(lesson[k].supports)
    BY <2>3, <2>4, FS_Subset
  <2>6. /\ Cardinality(lesson[k].supports) <= Cardinality(f[k].supports)
        /\ Cardinality(lesson[k].supports) \in Nat /\ Cardinality(f[k].supports) \in Nat
    BY <2>3, <2>4, <2>5, FS_Subset, FS_CardinalityType
  <2>7. Established(f, k)
    BY <2>1, <2>6, LearningAssumption DEF Established
  <2> QED BY <2>1, <2>2, <2>3, <2>7 DEF Firm, Live
<1>11. GroupTyped(f) /\ SupportsProposed(f, answered) /\ Firm(lesson) \subseteq Firm(f)
  BY <1>4, <1>6, <1>7, <1>9, <1>10 DEF GroupTyped
<1> QED BY <1>1, <1>11 DEF s

LEMMA SupportsKept ==
  ASSUME NEW f, NEW g, NEW answered, SupportsProposed(f, answered), Recorded(g) = Recorded(f),
         \A l \in Recorded(f) : g[l].supports = f[l].supports
  PROVE  SupportsProposed(g, answered)
BY DEF SupportsProposed

LEMMA AttestedInv ==
  ASSUME LearningInv, NEW c \in LearningCalls, NEW newer \in BOOLEAN, NEW sameResult \in BOOLEAN, Attested(c, newer, sameResult)
  PROVE  LearningInv'
<1> DEFINE l == call[c].lesson
           t == call[c].task
           r == [task |-> t, key |-> call[c].key, lesson |-> l]
<1>1. call[c] \in AttestingCall /\ call' = [call EXCEPT ![c] = IdleCall] /\ learned' = learned
  BY CallKinds DEF Attested
<1>2. l \in Lessons /\ t \in Tasks
  BY <1>1 DEF AttestingCall
<1>3. CASE UNCHANGED <<lesson, replay>>
  <2>1. IdleCall \in CallSet /\ IdleCall.pc = "idle"
    BY CallKinds
  <2>2. learned \in [Lessons -> {"absent", "active", "tombstoned"}] /\ \A m \in Lessons : learned[m] # "absent" => m \in Firm(lesson)
    BY LearningTyped DEF CommitsEstablished
  <2> HIDE DEF IdleCall
  <2> QED BY <1>1, <1>3, <2>1, <2>2, CallMoves
<1>4. CASE /\ lesson' = RecomputeGroup([lesson EXCEPT ![l] = Supported(l, t, newer)])
           /\ replay' = replay \cup {r}
  <2>1. PICK f : f = [lesson EXCEPT ![l] = Supported(l, t, newer)]
    OBVIOUS
  <2>2. r.task = t /\ r.lesson = l /\ r \in replay' /\ replay \subseteq replay'
    BY <1>4
  <2> HIDE DEF r
  <2>3. GroupTyped(f) /\ SupportsProposed(f, replay') /\ Firm(lesson) \subseteq Firm(f)
    BY <1>2, <2>1, <2>2, SupportedTyped
  <2>4. lesson' = RecomputeGroup(f)
    BY <1>4, <2>1
  <2>5. GroupTyped(lesson') /\ GroupSound(lesson') /\ SupportsProposed(lesson', replay')
    <3>1. SupportsProposed(RecomputeGroup(f), replay')
      BY <2>3, RecomputeSound, SupportsKept
    <3> QED BY <2>3, <2>4, <3>1, RecomputeSound
  <2>6. Firm(lesson) \subseteq Firm(lesson')
    BY <2>3, <2>4, RecomputeSound
  <2>7. call' \in [LearningCalls -> CallSet] /\ \A d \in LearningCalls : call'[d] = call[d] \/ call'[d].pc = "idle"
    BY <1>1, CallKinds, LearningTyped
  <2> QED BY <1>1, <2>5, <2>6, <2>7, RecordsMove
<1> QED BY <1>3, <1>4 DEF Attested

LEMMA CommitStartsInv ==
  ASSUME LearningInv, NEW c \in LearningCalls, NEW l \in Lessons, CommitStarts(c, l)
  PROVE  LearningInv'
<1>1. PICK f : f = RecomputeGroup(lesson)
  OBVIOUS
<1>2. PICK b : b = [pc |-> "getting", lesson |-> l]
  OBVIOUS
<1>3. /\ lesson' = f /\ replay' = replay /\ learned' = learned /\ lesson[l] # NoRecord
      /\ call' = IF f[l].status = "ESTABLISHED" THEN [call EXCEPT ![c] = b] ELSE call
  BY <1>1, <1>2 DEF CommitStarts
<1>4. /\ GroupTyped(f) /\ GroupSound(f) /\ Recorded(f) = Recorded(lesson)
      /\ \A k \in Recorded(lesson) : f[k].supports = lesson[k].supports
      /\ Firm(lesson) \subseteq Firm(f)
  BY <1>1, LearningTyped, RecomputeSound
<1>5. SupportsProposed(f, replay)
  BY <1>4, LearningTyped, SupportsKept
<1>6. f[l].status = "ESTABLISHED" => l \in Firm(f)
  <2>1. l \in Recorded(f)
    BY <1>3, <1>4 DEF Recorded
  <2> QED BY <1>4, <2>1 DEF Firm, Live, GroupSound
<1>7. b \in CallSet /\ b.lesson = l
  BY <1>2 DEF CallSet, CommittingCall
<1>8. call' \in [LearningCalls -> CallSet]
  BY <1>3, <1>7, LearningTyped
<1>9. \A d \in LearningCalls : call'[d] = call[d] \/ call'[d].lesson \in Firm(lesson')
  BY <1>3, <1>6, <1>7, LearningTyped
<1> QED BY <1>3, <1>4, <1>5, <1>6, <1>8, <1>9, RecordsMove

LEMMA CommitGetsInv ==
  ASSUME LearningInv, NEW c \in LearningCalls, CommitGets(c)
  PROVE  LearningInv'
<1>1. call[c] \in CommittingCall /\ call[c].lesson \in Firm(lesson)
  BY CallKinds DEF CommitGets
<1>2. PICK b : b = IF learned[call[c].lesson] = "absent" THEN [pc |-> "writing", lesson |-> call[c].lesson] ELSE IdleCall
  OBVIOUS
<1>3. /\ call' = [call EXCEPT ![c] = b]
      /\ lesson' = lesson /\ replay' = replay /\ learned' = learned
  BY <1>2 DEF CommitGets
<1>4. b \in CallSet /\ (b.pc \in {"getting", "writing"} => b.lesson \in Firm(lesson))
  <2>1. CASE learned[call[c].lesson] = "absent"
    BY <1>1, <1>2, <2>1 DEF CallSet, CommittingCall
  <2>2. CASE learned[call[c].lesson] # "absent"
    BY <1>2, <2>2, CallKinds
  <2> QED BY <2>1, <2>2
<1>5. learned \in [Lessons -> {"absent", "active", "tombstoned"}] /\ \A m \in Lessons : learned[m] # "absent" => m \in Firm(lesson)
  BY LearningTyped DEF CommitsEstablished
<1> QED BY <1>3, <1>4, <1>5, CallMoves

LEMMA CommitWritesInv ==
  ASSUME LearningInv, NEW c \in LearningCalls, CommitWrites(c)
  PROVE  LearningInv'
<1>1. call[c] \in CommittingCall /\ call[c].lesson \in Firm(lesson)
  BY CallKinds DEF CommitWrites
<1>2. call[c].lesson \in Lessons
  BY <1>1 DEF CommittingCall
<1>3. /\ call' = [call EXCEPT ![c] = IdleCall] /\ lesson' = lesson /\ replay' = replay
      /\ learned' \in {learned, [learned EXCEPT ![call[c].lesson] = "active"]}
  BY DEF CommitWrites
<1>4. learned \in [Lessons -> {"absent", "active", "tombstoned"}] /\ \A m \in Lessons : learned[m] # "absent" => m \in Firm(lesson)
  BY LearningTyped DEF CommitsEstablished
<1>5. learned' \in [Lessons -> {"absent", "active", "tombstoned"}] /\ \A m \in Lessons : learned'[m] # "absent" => m \in Firm(lesson)
  BY <1>1, <1>2, <1>3, <1>4
<1>6. IdleCall \in CallSet /\ IdleCall.pc = "idle"
  BY CallKinds
<1> HIDE DEF IdleCall
<1> QED BY <1>3, <1>5, <1>6, CallMoves

LEMMA ClearLearnedInv ==
  ASSUME LearningInv, NEW l \in Lessons, ClearLearned(l)
  PROVE  LearningInv'
<1>1. /\ learned[l] = "active" /\ learned' = [learned EXCEPT ![l] = "tombstoned"]
      /\ lesson' = lesson /\ replay' = replay /\ call' = call
  BY DEF ClearLearned
<1>2. learned' \in [Lessons -> {"absent", "active", "tombstoned"}]
  BY <1>1, LearningTyped
<1>3. CommitsEstablished'
  BY <1>1, LearningTyped DEF CommitsEstablished
<1> QED BY <1>1, <1>2, <1>3, LearningTyped DEF LearningInv, CallSet

LEMMA GrowsOlderInv ==
  ASSUME LearningInv, NEW l \in Lessons, GrowsOlder(l)
  PROVE  LearningInv'
<1>1. PICK f : f = [lesson EXCEPT ![l].age = IF lesson[l].age = "fresh" THEN "cold" ELSE "old"]
  OBVIOUS
<1>2. /\ lesson' = f /\ lesson[l] # NoRecord
      /\ replay' = replay /\ call' = call /\ learned' = learned
  BY <1>1 DEF GrowsOlder
<1>3. lesson \in [Lessons -> LearningRecord \cup {NoRecord}] /\ IsFiniteSet(Recorded(lesson)) /\ lesson[l] \in LearningRecord
  BY <1>2, LearningTyped DEF GroupTyped
<1>4. /\ f \in [Lessons -> LearningRecord \cup {NoRecord}] /\ f[l] \in LearningRecord
      /\ f[l].status = lesson[l].status /\ f[l].supports = lesson[l].supports
      /\ \A k \in Lessons \ {l} : f[k] = lesson[k]
  BY <1>1, <1>3 DEF LearningRecord
<1>5. Recorded(f) = Recorded(lesson)
  BY <1>2, <1>4, LearningAssumption DEF Recorded
<1>6. Live(f) = Live(lesson)
  BY <1>4, <1>5 DEF Live, Recorded
<1>7. \A k \in Lessons : f[k].status = lesson[k].status /\ f[k].supports = lesson[k].supports
  BY <1>4
<1>8. GroupTyped(f) /\ GroupSound(f)
  <2>1. GroupTyped(f)
    <3>1. \A k \in Recorded(f) : IsFiniteSet(f[k].supports)
      BY <1>5, <1>7, LearningTyped DEF GroupTyped, Recorded
    <3> QED BY <1>3, <1>4, <1>5, <3>1 DEF GroupTyped
  <2>2. Live(lesson) \subseteq Lessons
    BY DEF Live, Recorded
  <2>3. \A k \in Lessons : Established(f, k) <=> Established(lesson, k)
    BY <1>7 DEF Established
  <2>4. GroupSound(f)
    BY <1>6, <1>7, <2>2, <2>3, LearningTyped DEF GroupSound
  <2> QED BY <2>1, <2>4
<1>9. SupportsProposed(f, replay)
  <2>1. \A k \in Recorded(lesson) : f[k].supports = lesson[k].supports
    BY <1>7 DEF Recorded
  <2> QED BY <1>5, <2>1, LearningTyped, SupportsKept
<1>10. Firm(lesson) \subseteq Firm(f)
  <2>1. \A k \in Recorded(lesson) : f[k].supports = lesson[k].supports
    BY <1>7 DEF Recorded
  <2>2. \A k \in Live(lesson) : f[k].status # "ARCHIVED"
    BY <1>7 DEF Live, Recorded
  <2> QED BY <1>5, <2>1, <2>2, FirmKept
<1> QED BY <1>2, <1>8, <1>9, <1>10, LearningTyped, RecordsMove

\* Maintenance archives, or cools, what it came to, and leaves a sound group.
LEMMA MaintainedTyped ==
  ASSUME LearningInv, NEW some \in SUBSET Live(lesson)
  PROVE  /\ GroupTyped(Maintained(some)) /\ GroupSound(Maintained(some)) /\ Recorded(Maintained(some)) = Recorded(lesson)
         /\ \A l \in Recorded(lesson) : Maintained(some)[l].supports = lesson[l].supports
         /\ Firm(lesson) \subseteq Firm(Maintained(some))
<1>1. lesson \in [Lessons -> LearningRecord \cup {NoRecord}] /\ IsFiniteSet(Recorded(lesson))
  BY LearningTyped DEF GroupTyped
<1>2. Live(lesson) \subseteq Recorded(lesson) /\ Recorded(lesson) \subseteq Lessons
  BY DEF Live, Recorded
<1>3. PICK g : g = Maintained(some)
  OBVIOUS
<1>4. DOMAIN g = Lessons /\ g = [l \in Lessons |-> g[l]]
  BY <1>3 DEF Maintained
<1>5. \A l \in Lessons \ some : g[l] = lesson[l]
  BY <1>3 DEF Maintained
<1>6. ASSUME NEW l \in some
      PROVE  /\ g[l] \in LearningRecord /\ g[l].supports = lesson[l].supports
             /\ g[l].status = lesson[l].status \/ (g[l].status = "ARCHIVED" /\ Archives(l))
  <2>1. lesson[l] \in LearningRecord /\ l \in Lessons
    BY <1>1, <1>2 DEF Recorded
  <2>2. CASE Archives(l)
    <3>1. g[l] = [lesson[l] EXCEPT !.status = "ARCHIVED", !.tier = "COLD"]
      BY <1>3, <2>1, <2>2 DEF Maintained
    <3> QED BY <2>1, <2>2, <3>1 DEF LearningRecord
  <2>3. CASE ~Archives(l) /\ lesson[l].age # "fresh"
    <3>1. g[l] = [lesson[l] EXCEPT !.tier = "COLD"]
      BY <1>3, <2>1, <2>3 DEF Maintained
    <3> QED BY <2>1, <2>3, <3>1 DEF LearningRecord
  <2>4. CASE ~Archives(l) /\ lesson[l].age = "fresh"
    <3>1. g[l] = lesson[l]
      BY <1>3, <2>1, <2>4 DEF Maintained
    <3> QED BY <2>1, <3>1
  <2> QED BY <2>2, <2>3, <2>4
<1>7. Recorded(g) = Recorded(lesson)
  BY <1>2, <1>5, <1>6, LearningAssumption DEF Recorded
<1>8. \A l \in Recorded(lesson) : g[l].supports = lesson[l].supports
  BY <1>2, <1>5, <1>6
<1>9. GroupTyped(g)
  <2>1. \A l \in Lessons : g[l] \in LearningRecord \cup {NoRecord}
    BY <1>1, <1>5, <1>6
  <2>2. \A l \in Recorded(lesson) : IsFiniteSet(g[l].supports)
    BY <1>8, LearningTyped DEF GroupTyped
  <2> QED BY <1>1, <1>4, <1>7, <2>1, <2>2 DEF GroupTyped
<1>10. \A l \in Recorded(lesson) : g[l].status = lesson[l].status \/ (g[l].status = "ARCHIVED" /\ Archives(l))
  BY <1>2, <1>5, <1>6
<1>11. GroupSound(g)
  <2>1. \A l \in Live(g) : l \in Live(lesson) /\ g[l].status = lesson[l].status
    BY <1>7, <1>10 DEF Live
  <2>2. \A l \in Live(g) : Established(lesson, l) => Established(g, l)
    BY <1>2, <1>8, <2>1 DEF Established
  <2> QED BY <2>1, <2>2, LearningTyped DEF GroupSound
<1>12. Firm(lesson) \subseteq Firm(g)
  <2>1. \A l \in Live(lesson) : Established(lesson, l) => g[l].status # "ARCHIVED"
    BY <1>2, <1>10 DEF Archives, Live
  <2> QED BY <1>7, <1>8, <2>1, FirmKept
<1> QED BY <1>3, <1>7, <1>8, <1>9, <1>11, <1>12

LEMMA RunMaintenanceInv ==
  ASSUME LearningInv, RunMaintenance
  PROVE  LearningInv'
<1>1. PICK g : g = Maintained(Live(lesson))
  OBVIOUS
<1>2. /\ lesson' = RecomputeGroup(g) \/ lesson' = g
      /\ replay' = replay /\ call' = call /\ learned' = learned
  BY <1>1 DEF RunMaintenance
<1>3. /\ GroupTyped(g) /\ GroupSound(g) /\ Recorded(g) = Recorded(lesson)
      /\ \A l \in Recorded(lesson) : g[l].supports = lesson[l].supports
      /\ Firm(lesson) \subseteq Firm(g)
  BY <1>1, MaintainedTyped
<1>4. SupportsProposed(g, replay)
  BY <1>3, LearningTyped, SupportsKept
<1>5. GroupTyped(lesson') /\ GroupSound(lesson') /\ SupportsProposed(lesson', replay) /\ Firm(lesson) \subseteq Firm(lesson')
  <2>1. CASE lesson' = RecomputeGroup(g)
    <3>1. SupportsProposed(RecomputeGroup(g), replay)
      BY <1>3, <1>4, RecomputeSound, SupportsKept
    <3> QED BY <1>3, <2>1, <3>1, RecomputeSound
  <2>2. CASE lesson' = g
    BY <1>3, <1>4, <2>2
  <2> QED BY <1>2, <2>1, <2>2
<1>6. call' \in [LearningCalls -> CallSet]
  BY <1>2, LearningTyped
<1> QED BY <1>2, <1>5, <1>6, RecordsMove

LEMMA MaintenanceThrowsInv ==
  ASSUME LearningInv, NEW some \in SUBSET Live(lesson), MaintenanceThrows(some)
  PROVE  LearningInv'
<1>1. PICK g : g = Maintained(some)
  OBVIOUS
<1>2. lesson' = g /\ replay' = replay /\ call' = call /\ learned' = learned
  BY <1>1 DEF MaintenanceThrows
<1>3. /\ GroupTyped(g) /\ GroupSound(g) /\ Recorded(g) = Recorded(lesson)
      /\ \A l \in Recorded(lesson) : g[l].supports = lesson[l].supports
      /\ Firm(lesson) \subseteq Firm(g)
  BY <1>1, MaintainedTyped
<1>4. SupportsProposed(g, replay)
  BY <1>3, LearningTyped, SupportsKept
<1>5. call' \in [LearningCalls -> CallSet]
  BY <1>2, LearningTyped
<1> QED BY <1>2, <1>3, <1>4, <1>5, RecordsMove

LEMMA LearningInvInit == LearningInit => LearningInv
<1> SUFFICES ASSUME LearningInit PROVE LearningInv
  OBVIOUS
<1>1. /\ lesson = [l \in Lessons |-> NoRecord] /\ replay = {} /\ call = [c \in LearningCalls |-> IdleCall]
      /\ learned = [l \in Lessons |-> "absent"]
  BY DEF LearningInit
<1>2. Recorded(lesson) = {} /\ Live(lesson) = {}
  BY <1>1 DEF Recorded, Live
<1>3. GroupTyped(lesson) /\ GroupSound(lesson) /\ SupportsProposed(lesson, replay)
  BY <1>1, <1>2, FS_EmptySet DEF GroupTyped, GroupSound, SupportsProposed
<1>4. CommitsEstablished
  BY <1>1 DEF CommitsEstablished, IdleCall
<1> QED BY <1>1, <1>3, <1>4 DEF LearningInv

LEMMA LearningInvNext == LearningInv /\ [LearningNext]_learningVars => LearningInv'
<1> SUFFICES ASSUME LearningInv, [LearningNext]_learningVars PROVE LearningInv'
  OBVIOUS
<1>1. CASE UNCHANGED learningVars
  BY <1>1 DEF learningVars, LearningInv, CommitsEstablished, GroupTyped, GroupSound, SupportsProposed, Firm, Recorded, Live, Established
<1>2. CASE LearningNext
  BY <1>2, ProposeInv, RefusedInv, AttestedInv, CommitStartsInv, CommitGetsInv, CommitWritesInv, ClearLearnedInv, GrowsOlderInv,
     RunMaintenanceInv, MaintenanceThrowsInv DEF LearningNext
<1> QED BY <1>1, <1>2

LEMMA LearningInvSound == LearningInv => LearningSound
<1> SUFFICES ASSUME LearningInv PROVE LearningSound
  OBVIOUS
<1>1. Nudges \subseteq Live(lesson) /\ Live(lesson) \subseteq Recorded(lesson) /\ Recorded(lesson) \subseteq Lessons
  BY DEF Nudges, Live, Recorded
<1>2. IsFiniteSet(Recorded(lesson))
  BY LearningTyped DEF GroupTyped
<1>3. IsFiniteSet(Live(lesson)) /\ IsFiniteSet(Nudges)
  <2>1. IsFiniteSet(Live(lesson))
    BY <1>1, <1>2, FS_Subset
  <2> QED BY <1>1, <2>1, FS_Subset
<1>4. \A k \in Nudges : lesson[k].status # "CONFLICTED"
  BY DEF Nudges
<1>5. \A k, l \in Nudges : k = l
  BY <1>1, <1>4, LearningTyped DEF GroupSound
<1>6. Cardinality(Nudges) <= 1
  BY <1>3, <1>5, AtMostOne
<1>7. ASSUME NEW l \in Recorded(lesson), lesson[l].status = "ESTABLISHED" PROVE Established(lesson, l) /\ Nudges = {l}
  <2>1. l \in Nudges /\ l \in Live(lesson)
    BY <1>7 DEF Nudges, Live
  <2>2. Established(lesson, l)
    BY <1>7, <2>1, LearningTyped DEF GroupSound
  <2> QED BY <1>5, <2>1, <2>2
<1>8. ASSUME Cardinality(Live(lesson)) > 1, NEW l \in Live(lesson) PROVE lesson[l].status = "CONFLICTED"
  <2>1. Cardinality(Live(lesson)) \in Nat
    BY <1>3, FS_CardinalityType
  <2>2. ~(Cardinality(Live(lesson)) <= 1)
    BY <1>8, <2>1
  <2>3. ~\A x, y \in Live(lesson) : x = y
    BY <1>3, <2>2, AtMostOne
  <2>4. \E k \in Live(lesson) : k # l
    BY <2>3
  <2> QED BY <2>4, LearningTyped DEF GroupSound
<1>9. \A l \in Recorded(lesson) : \A t \in lesson[l].supports : \E r \in replay : r.task = t /\ r.lesson = l
  BY LearningTyped DEF SupportsProposed
<1>10. \A l \in Lessons : learned[l] # "absent" => l \in Live(lesson) /\ Established(lesson, l)
  BY LearningTyped DEF CommitsEstablished, Firm
<1> QED BY <1>6, <1>7, <1>8, <1>9, <1>10 DEF LearningSound

(***************************************************************************)
(* Tasks are never told two lessons of one key that disagree, a lesson is  *)
(* established only by distinct tasks that proposed it, and what is in     *)
(* memory keeps that support and is never archived (curator.ts 66-240,     *)
(* 322-383), for any lessons, tasks and requests between whose awaits      *)
(* proposals, commits and maintenance, whole or cut short, run.            *)
(***************************************************************************)
THEOREM LearningHolds == LearningSpec => []LearningSound
<1>1. LearningSpec => []LearningInv
  BY LearningInvInit, LearningInvNext, PTL DEF LearningSpec
<1> QED BY <1>1, LearningInvSound, PTL

-----------------------------------------------------------------------------
(* Memories (memory/store.ts, memory/advanced.ts, chat/memory-brain-store.ts, memory/product.ts) *)

\* One record and the answers that are kept for its commands.
RecordOK(i) ==
  /\ records[i] \in MemoryRecord \cup {NoMemory}
  /\ records[i] # NoMemory => records[i].version >= 1 /\ records[i].updatedAt <= clock
  /\ \A r \in replays[i] : r.record \in MemoryRecord /\ r.record.version >= 1 /\ r.record.version <= Version(i)
  /\ \A r, s \in replays[i] : r.key = s.key \/ r.record.version = s.record.version => r = s
  /\ records[i] # NoMemory /\ records[i].status = "tombstoned" =>
       records[i].content = NoContent /\ \A r \in replays[i] : r.record.content = NoContent

StoreOK ==
  /\ clock \in Nat
  /\ DOMAIN records = MemIds /\ records = [i \in MemIds |-> records[i]]
  /\ DOMAIN replays = MemIds /\ replays = [i \in MemIds |-> replays[i]]
  /\ \A i \in MemIds : RecordOK(i)

Checking == {"checking", "checking1", "checked"}
Covers(sens) == \A n \in 1 .. Len(compressor.seen) : compressor.seen[n].sens <= sens

\* The summary covers its sources from the proposal on; it is written once, at the end.
CompressorOK ==
  /\ DOMAIN compressor = {"pc", "seen", "summary"}
  /\ compressor.pc \in Checking =>
       compressor.summary \in MemoryInput /\ compressor.summary.observedAt <= clock /\ Covers(compressor.summary.sens)
  /\ compressor.pc # "done" => records[SummaryId] = NoMemory
  /\ compressor.pc = "done" /\ records[SummaryId] # NoMemory => Covers(records[SummaryId].sens)

ItemRow == [content : ItemTexts, version : Nat, updatedAt : Nat]
PromoterState ==
  [pc : {"idle", "refused"}] \cup
  [pc : {"read"}, item : ItemRow, key : PromotionKeys, kind : PromotionKinds] \cup
  [pc : {"write"}, item : ItemRow, key : PromotionKeys, kind : PromotionKinds, expected : Nat]

\* A text of the item, with its version and time: of an older version, or what the item says.
OfItem(content, version, at) ==
  version <= item.version /\ at <= item.updatedAt /\ (version = item.version => content = item.content)

\* What a promotion has read, and the memory that a promotion wrote, are texts of the item.
ItemMemoryOK ==
  records[ItemMemory] # NoMemory =>
    LET m == records[ItemMemory] IN
    /\ m.source = "tool" /\ m.observedAt <= item.updatedAt
    /\ m.status = "active" => OfItem(m.content, m.sourceVersion, m.observedAt)
ItemOK ==
  /\ item \in ItemRow /\ item.updatedAt <= clock
  /\ promoter \in [Promoters -> PromoterState]
  /\ \A p \in Promoters : promoter[p].pc \in {"read", "write"} =>
       OfItem(promoter[p].item.content, promoter[p].item.version, promoter[p].item.updatedAt)
  /\ ItemMemoryOK

MemoryInv == StoreOK /\ CompressorOK /\ ItemOK

-----------------------------------------------------------------------------
\* A write adds one version and one command.
LEMMA WriteKeeps ==
  ASSUME StoreOK, NEW i \in MemIds, NEW key, NEW expected, NEW input \in MemoryInput, NEW at \in Nat,
         at <= clock, clock' = clock, Write(i, key, expected, input, at)
  PROVE  /\ StoreOK' /\ \A j \in MemIds \ {i} : records'[j] = records[j]
         /\ records'[i] \in MemoryRecord /\ records'[i].status = "active" /\ records'[i].sens = input.sens
         /\ records'[i].kind = input.kind /\ records'[i].source = input.source /\ records'[i].observedAt = input.observedAt
         /\ records'[i].sourceVersion = input.sourceVersion /\ records'[i].content = input.content
<1>1. PICK rec : rec = [status |-> "active", version |-> expected + 1, content |-> input.content, kind |-> input.kind,
                        key |-> input.key, sens |-> input.sens, source |-> input.source, sourceVersion |-> input.sourceVersion,
                        observedAt |-> input.observedAt, updatedAt |-> at]
  OBVIOUS
<1>2. PICK ans : ans = [key |-> key, command |-> input, record |-> rec]
  OBVIOUS
<1>3. /\ records' = [records EXCEPT ![i] = rec] /\ replays' = [replays EXCEPT ![i] = replays[i] \cup {ans}]
      /\ Replayed(i, key) = {} /\ Version(i) = expected /\ (records[i] # NoMemory => records[i].status = "active")
  BY <1>1, <1>2 DEF Write, Commit, Writable
<1>4. RecordOK(i) /\ DOMAIN records = MemIds /\ DOMAIN replays = MemIds /\ records = [j \in MemIds |-> records[j]]
      /\ replays = [j \in MemIds |-> replays[j]] /\ clock \in Nat
  BY DEF StoreOK
<1>5. Version(i) \in Nat
  BY <1>4 DEF RecordOK, Version, MemoryRecord
<1>6. rec \in MemoryRecord /\ rec.version = Version(i) + 1 /\ rec.version >= 1 /\ rec.updatedAt <= clock /\ rec.status = "active"
      /\ rec.sens = input.sens /\ rec.kind = input.kind /\ rec.source = input.source /\ rec.observedAt = input.observedAt
      /\ rec.sourceVersion = input.sourceVersion /\ rec.content = input.content
  BY <1>1, <1>3, <1>5 DEF MemoryRecord, MemoryInput
<1>7. /\ records'[i] = rec /\ replays'[i] = replays[i] \cup {ans}
      /\ \A j \in MemIds \ {i} : records'[j] = records[j] /\ replays'[j] = replays[j]
      /\ DOMAIN records' = MemIds /\ DOMAIN replays' = MemIds
      /\ records' = [j \in MemIds |-> records'[j]] /\ replays' = [j \in MemIds |-> replays'[j]]
  BY <1>3, <1>4
<1>8. rec # NoMemory
  BY <1>6, MemoryAssumption
<1>9. Version(i)' = Version(i) + 1
  BY <1>6, <1>7, <1>8 DEF Version
<1>10. ans.key = key /\ ans.record = rec
  BY <1>2
<1>11. RecordOK(i)'
  <2>1. ASSUME NEW r \in replays[i]
        PROVE  /\ r.record \in MemoryRecord /\ r.record.version >= 1 /\ r.record.version <= Version(i)
               /\ r.record.version \in Nat /\ r.key # key
    BY <1>3, <1>4 DEF RecordOK, Replayed, MemoryRecord
  <2>2. \A r \in replays'[i] : r.record \in MemoryRecord /\ r.record.version >= 1 /\ r.record.version <= Version(i)'
    BY <1>5, <1>6, <1>7, <1>9, <1>10, <2>1
  <2>3. ASSUME NEW r \in replays'[i], NEW s \in replays'[i], r.key = s.key \/ r.record.version = s.record.version
        PROVE  r = s
    <3>1. CASE r \in replays[i] /\ s \in replays[i]
      BY <1>4, <2>3, <3>1 DEF RecordOK
    <3>2. CASE r \in replays[i] /\ s = ans
      BY <1>5, <1>6, <1>10, <2>1, <2>3, <3>2
    <3>3. CASE r = ans /\ s \in replays[i]
      BY <1>5, <1>6, <1>10, <2>1, <2>3, <3>3
    <3> QED BY <1>7, <3>1, <3>2, <3>3
  <2>4. records'[i] \in MemoryRecord /\ records'[i].version >= 1 /\ records'[i].updatedAt <= clock' /\ records'[i].status # "tombstoned"
    BY <1>6, <1>7
  <2> QED BY <2>2, <2>3, <2>4 DEF RecordOK
<1>12. ASSUME NEW j \in MemIds, j # i PROVE RecordOK(j)'
  <2>1. RecordOK(j) /\ records'[j] = records[j] /\ replays'[j] = replays[j]
    BY <1>7, <1>12 DEF StoreOK
  <2> QED BY <2>1 DEF RecordOK, Version
<1>13. StoreOK'
  BY <1>4, <1>7, <1>11, <1>12 DEF StoreOK
<1> QED BY <1>6, <1>7, <1>13

\* A cleared memory keeps neither its content nor the answers that carry it.
LEMMA ClearKeeps ==
  ASSUME StoreOK, NEW i \in MemIds, NEW expected, Clear(i, expected)
  PROVE  /\ StoreOK' /\ \A j \in MemIds \ {i} : records'[j] = records[j]
         /\ records[i] \in MemoryRecord /\ records'[i] \in MemoryRecord /\ records'[i].sens = records[i].sens
         /\ records'[i].kind = records[i].kind /\ records'[i].source = records[i].source
         /\ records'[i].observedAt = records[i].observedAt /\ records'[i].sourceVersion = records[i].sourceVersion
         /\ records'[i].status = "tombstoned" /\ UNCHANGED <<clock, compressor>>
<1>1. PICK rec : rec = [records[i] EXCEPT !.status = "tombstoned", !.content = NoContent, !.version = records[i].version + 1, !.updatedAt = clock]
  OBVIOUS
<1>2. PICK ans : ans = [key |-> <<"clear", expected>>, command |-> "clear", record |-> rec]
  OBVIOUS
<1>3. /\ records' = [records EXCEPT ![i] = rec] /\ replays' = [replays EXCEPT ![i] = {ans}]
      /\ records[i] # NoMemory /\ UNCHANGED <<clock, compressor>>
  BY <1>1, <1>2 DEF Clear, Tombstone, Deletable, Active
<1>4. RecordOK(i) /\ DOMAIN records = MemIds /\ DOMAIN replays = MemIds /\ records = [j \in MemIds |-> records[j]]
      /\ replays = [j \in MemIds |-> replays[j]] /\ clock \in Nat
  BY DEF StoreOK
<1>5. records[i] \in MemoryRecord /\ records[i].version \in Nat /\ records[i].version >= 1
  BY <1>3, <1>4 DEF RecordOK, MemoryRecord
<1>6. rec \in MemoryRecord
  <2>1. records[i].version + 1 \in Nat /\ clock \in Nat
    BY <1>4, <1>5
  <2> QED BY <1>1, <1>5, <2>1 DEF MemoryRecord
<1>7. /\ rec.version = records[i].version + 1 /\ rec.updatedAt = clock /\ rec.status = "tombstoned" /\ rec.content = NoContent
      /\ rec.sens = records[i].sens /\ rec.kind = records[i].kind /\ rec.source = records[i].source /\ rec.observedAt = records[i].observedAt
      /\ rec.sourceVersion = records[i].sourceVersion
  BY <1>1, <1>5 DEF MemoryRecord
<1>8. /\ records'[i] = rec /\ replays'[i] = {ans}
      /\ \A j \in MemIds \ {i} : records'[j] = records[j] /\ replays'[j] = replays[j]
      /\ DOMAIN records' = MemIds /\ DOMAIN replays' = MemIds
      /\ records' = [j \in MemIds |-> records'[j]] /\ replays' = [j \in MemIds |-> replays'[j]]
  BY <1>3, <1>4
<1>9. rec # NoMemory
  BY <1>6, MemoryAssumption
<1>10. ans.record = rec
  BY <1>2
<1>11. RecordOK(i)'
  <2>1. Version(i)' = rec.version
    BY <1>8, <1>9 DEF Version
  <2>2. rec.version >= 1 /\ rec.version <= rec.version /\ rec.updatedAt <= clock'
    BY <1>3, <1>4, <1>5, <1>7
  <2>3. \A r \in replays'[i] : r = ans
    BY <1>8
  <2> QED BY <1>6, <1>7, <1>8, <1>10, <2>1, <2>2, <2>3 DEF RecordOK
<1>12. ASSUME NEW j \in MemIds, j # i PROVE RecordOK(j)'
  <2>1. RecordOK(j) /\ records'[j] = records[j] /\ replays'[j] = replays[j] /\ clock' = clock
    BY <1>3, <1>8, <1>12 DEF StoreOK
  <2> QED BY <2>1 DEF RecordOK, Version
<1>13. StoreOK'
  BY <1>3, <1>4, <1>8, <1>11, <1>12 DEF StoreOK
<1> QED BY <1>3, <1>5, <1>6, <1>7, <1>8, <1>13

-----------------------------------------------------------------------------
\* Time passes, or nothing that the store keeps changes.
LEMMA StoreStays ==
  ASSUME StoreOK, clock' \in Nat, clock <= clock', UNCHANGED <<records, replays>>
  PROVE  StoreOK'
<1>1. clock \in Nat
  BY DEF StoreOK
<1>2. ASSUME NEW i \in MemIds PROVE RecordOK(i)'
  <2>1. RecordOK(i)
    BY DEF StoreOK
  <2>2. records[i] # NoMemory => records[i].updatedAt \in Nat
    BY <2>1 DEF RecordOK, MemoryRecord
  <2>3. records'[i] # NoMemory => records'[i].version >= 1 /\ records'[i].updatedAt <= clock'
    BY <1>1, <2>1, <2>2 DEF RecordOK
  <2> QED BY <2>1, <2>3 DEF RecordOK, Version
<1> QED BY <1>2 DEF StoreOK

\* A memory is as before, or was cleared.
AsBefore(i) ==
  \/ records'[i] = records[i]
  \/ /\ records[i] # NoMemory /\ records'[i].sens = records[i].sens /\ records'[i].kind = records[i].kind
     /\ records'[i].source = records[i].source /\ records'[i].observedAt = records[i].observedAt
     /\ records'[i].sourceVersion = records[i].sourceVersion /\ records'[i].status = "tombstoned"

LEMMA CompressorStays ==
  ASSUME StoreOK, CompressorOK, clock' \in Nat, clock <= clock', compressor' = compressor, AsBefore(SummaryId)
  PROVE  CompressorOK'
<1>1. clock \in Nat
  BY DEF StoreOK
<1>2. compressor.pc \in Checking => compressor.summary.observedAt \in Nat
  BY DEF CompressorOK, MemoryInput
<1>3. compressor.pc \in Checking => Covers(compressor.summary.sens)'
  BY DEF CompressorOK, Covers
<1>4. compressor'.pc \in Checking =>
        compressor'.summary \in MemoryInput /\ compressor'.summary.observedAt <= clock' /\ Covers(compressor.summary.sens)'
  BY <1>1, <1>2, <1>3 DEF CompressorOK
<1>5. compressor'.pc # "done" => records'[SummaryId] = NoMemory
  BY DEF CompressorOK, AsBefore
<1>6. compressor'.pc = "done" /\ records'[SummaryId] # NoMemory => Covers(records[SummaryId].sens)'
  BY DEF CompressorOK, AsBefore, Covers
<1>7. DOMAIN compressor' = {"pc", "seen", "summary"}
  BY DEF CompressorOK
<1> QED BY <1>4, <1>5, <1>6, <1>7 DEF CompressorOK

LEMMA ItemStays ==
  ASSUME StoreOK, ItemOK, clock' \in Nat, clock <= clock', UNCHANGED <<item, promoter>>, AsBefore(ItemMemory)
  PROVE  ItemOK'
<1>1. clock \in Nat /\ item.updatedAt \in Nat /\ item.updatedAt <= clock
  BY DEF StoreOK, ItemOK, ItemRow
<1>2. item'.updatedAt <= clock'
  BY <1>1
<1>3. ItemMemoryOK'
  BY DEF ItemOK, ItemMemoryOK, OfItem, AsBefore
<1> QED BY <1>2, <1>3 DEF ItemOK, OfItem

-----------------------------------------------------------------------------
LEMMA DistinctIds == SummaryId # ItemMemory /\ \A i \in CallerIds : i \in MemIds /\ i # SummaryId /\ i # ItemMemory
  BY MemoryAssumption

\* The inputs of callers are what the store accepts.
LEMMA CallerInput ==
  ASSUME NEW input \in MemoryInputs, clock \in Nat
  PROVE  /\ [input EXCEPT !.observedAt = clock] \in MemoryInput
         /\ [input EXCEPT !.source = "explicit_user", !.observedAt = clock] \in MemoryInput
<1>1. input \in MemoryInput
  BY MemoryAssumption
<1> QED BY <1>1 DEF MemoryInput, SourceClasses

LEMMA CallerWritesInv ==
  ASSUME MemoryInv, NEW i \in CallerIds, NEW key, NEW expected, NEW input \in MemoryInput,
         Write(i, key, expected, input, clock), UNCHANGED <<clock, compressor, item, promoter>>
  PROVE  MemoryInv'
<1>1. StoreOK /\ CompressorOK /\ ItemOK /\ clock \in Nat
  BY DEF MemoryInv, StoreOK
<1>2. i \in MemIds /\ i # SummaryId /\ i # ItemMemory /\ SummaryId \in MemIds /\ ItemMemory \in MemIds
  BY DistinctIds, MemoryAssumption
<1>3. clock <= clock /\ clock' = clock /\ clock <= clock' /\ clock' \in Nat
  BY <1>1
<1>4. StoreOK' /\ \A j \in MemIds \ {i} : records'[j] = records[j]
  BY <1>1, <1>2, <1>3, WriteKeeps
<1>5. AsBefore(SummaryId) /\ AsBefore(ItemMemory)
  BY <1>2, <1>4 DEF AsBefore
<1>6. CompressorOK'
  BY <1>1, <1>3, <1>5, CompressorStays
<1>7. ItemOK'
  BY <1>1, <1>3, <1>5, ItemStays
<1> QED BY <1>4, <1>6, <1>7 DEF MemoryInv

LEMMA ClearInv ==
  ASSUME MemoryInv, NEW i \in MemIds, NEW expected, Clear(i, expected), UNCHANGED <<item, promoter>>
  PROVE  MemoryInv'
<1>1. StoreOK /\ CompressorOK /\ ItemOK /\ clock \in Nat
  BY DEF MemoryInv, StoreOK
<1>2. /\ StoreOK' /\ \A j \in MemIds \ {i} : records'[j] = records[j]
      /\ records[i] \in MemoryRecord /\ records'[i].sens = records[i].sens
      /\ records'[i].kind = records[i].kind /\ records'[i].source = records[i].source
      /\ records'[i].observedAt = records[i].observedAt /\ records'[i].sourceVersion = records[i].sourceVersion
      /\ records'[i].status = "tombstoned" /\ UNCHANGED <<clock, compressor>>
  BY <1>1, ClearKeeps
<1>3. SummaryId \in MemIds /\ ItemMemory \in MemIds /\ records[i] # NoMemory
  BY <1>2, MemoryAssumption
<1>4. clock <= clock' /\ clock' \in Nat /\ compressor' = compressor
  BY <1>1, <1>2
<1>5. AsBefore(SummaryId) /\ AsBefore(ItemMemory)
  BY <1>2, <1>3 DEF AsBefore
<1>6. CompressorOK'
  BY <1>1, <1>4, <1>5, CompressorStays
<1>7. ItemOK'
  BY <1>1, <1>4, <1>5, ItemStays
<1> QED BY <1>2, <1>6, <1>7 DEF MemoryInv

-----------------------------------------------------------------------------
(* The compressor *)

\* A step of the compressor that writes nothing.
LEMMA CompressorMoves ==
  ASSUME MemoryInv, UNCHANGED <<clock, records, replays, item, promoter>>,
         compressor.pc # "done", compressor'.pc # "done", DOMAIN compressor' = {"pc", "seen", "summary"},
         compressor'.pc \in Checking =>
           /\ compressor'.summary \in MemoryInput /\ compressor'.summary.observedAt <= clock
           /\ Covers(compressor.summary.sens)'
  PROVE  MemoryInv'
<1>1. StoreOK /\ CompressorOK /\ ItemOK /\ clock \in Nat
  BY DEF MemoryInv, StoreOK
<1>2. clock <= clock' /\ clock' \in Nat /\ UNCHANGED <<records, replays, item, promoter>>
  BY <1>1
<1>3. StoreOK'
  BY <1>1, <1>2, StoreStays
<1>4. AsBefore(ItemMemory)
  BY <1>2 DEF AsBefore
<1>5. ItemOK'
  BY <1>1, <1>2, <1>4, ItemStays
<1>6. CompressorOK'
  BY <1>1 DEF CompressorOK
<1> QED BY <1>3, <1>5, <1>6 DEF MemoryInv

LEMMA CompressionReadsInv ==
  ASSUME MemoryInv, StartCompression \/ ReadSource, UNCHANGED <<item, promoter>>
  PROVE  MemoryInv'
<1>1. CompressorOK
  BY DEF MemoryInv
<1>2. DOMAIN compressor' = DOMAIN compressor /\ compressor.pc \in {"idle", "reading"} /\ compressor'.pc \in {"idle", "reading"}
  <2>1. CASE StartCompression
    BY <1>1, <2>1 DEF StartCompression, CompressorOK
  <2>2. CASE ReadSource
    BY <1>1, <2>2 DEF ReadSource, CompressorOK
  <2> QED BY <2>1, <2>2
<1>3. UNCHANGED <<clock, records, replays, item, promoter>>
  BY DEF StartCompression, ReadSource
<1>4. DOMAIN compressor' = {"pc", "seen", "summary"} /\ compressor.pc # "done" /\ compressor'.pc # "done" /\ compressor'.pc \notin Checking
  BY <1>1, <1>2 DEF CompressorOK, Checking
<1> QED BY <1>3, <1>4, CompressorMoves

LEMMA IssueProposalInv ==
  ASSUME MemoryInv, NEW sens \in Sensitivities, IssueProposal(sens), UNCHANGED <<item, promoter>>
  PROVE  MemoryInv'
<1>1. CompressorOK /\ clock \in Nat
  BY DEF MemoryInv, StoreOK
<1>2. PICK sum : sum = [key |-> "s", content |-> "summary", kind |-> "project", sens |-> sens, source |-> "model_summary", sourceVersion |-> 0, observedAt |-> clock]
  OBVIOUS
<1>3. sum \in MemoryInput /\ sum.observedAt = clock /\ sum.sens = sens
  BY <1>1, <1>2 DEF MemoryInput, Kinds, SourceClasses
<1>4. compressor.pc = "reading" /\ UNCHANGED <<clock, records, replays, item, promoter>>
  BY DEF IssueProposal
<1>5. \/ Covers(sens) /\ compressor' = [compressor EXCEPT !.pc = "checking", !.summary = sum]
      \/ compressor' = [compressor EXCEPT !.pc = "idle", !.seen = <<>>]
  BY <1>2 DEF IssueProposal, Covers
<1>6. CASE Covers(sens) /\ compressor' = [compressor EXCEPT !.pc = "checking", !.summary = sum]
  <2>1. DOMAIN compressor' = {"pc", "seen", "summary"} /\ compressor'.pc = "checking" /\ compressor'.summary = sum
        /\ compressor'.seen = compressor.seen
    BY <1>1, <1>6 DEF CompressorOK
  <2>2. Covers(compressor.summary.sens)'
    BY <1>3, <1>6, <2>1 DEF Covers
  <2>3. compressor'.summary \in MemoryInput /\ compressor'.summary.observedAt <= clock
    BY <1>1, <1>3, <2>1
  <2>4. compressor.pc # "done" /\ compressor'.pc # "done"
    BY <1>4, <2>1
  <2> QED BY <1>4, <2>1, <2>2, <2>3, <2>4, CompressorMoves
<1>7. CASE compressor' = [compressor EXCEPT !.pc = "idle", !.seen = <<>>]
  <2>1. DOMAIN compressor' = {"pc", "seen", "summary"} /\ compressor'.pc = "idle"
    BY <1>1, <1>7 DEF CompressorOK
  <2>2. compressor.pc # "done" /\ compressor'.pc # "done" /\ compressor'.pc \notin Checking
    BY <1>4, <2>1 DEF Checking
  <2> QED BY <1>4, <2>1, <2>2, CompressorMoves
<1> QED BY <1>5, <1>6, <1>7

LEMMA CheckSourceInv ==
  ASSUME MemoryInv, NEW n \in {1, 2}, CheckSource(n), UNCHANGED <<item, promoter>>
  PROVE  MemoryInv'
<1>1. CompressorOK
  BY DEF MemoryInv
<1>2. compressor.pc \in Checking /\ compressor.pc # "done" /\ UNCHANGED <<clock, records, replays, item, promoter>>
  BY DEF CheckSource, Checking
<1>3. PICK pc \in {"checking1", "checked"} :
        \/ compressor' = [compressor EXCEPT !.pc = pc]
        \/ compressor' = [compressor EXCEPT !.pc = "idle", !.seen = <<>>, !.summary = NoMemory]
  BY DEF CheckSource
<1>4. CASE compressor' = [compressor EXCEPT !.pc = pc]
  <2>1. DOMAIN compressor' = {"pc", "seen", "summary"} /\ compressor'.pc = pc /\ compressor'.summary = compressor.summary
        /\ compressor'.seen = compressor.seen
    BY <1>1, <1>4 DEF CompressorOK
  <2>2. compressor.summary \in MemoryInput /\ compressor.summary.observedAt <= clock /\ Covers(compressor.summary.sens)
    BY <1>1, <1>2 DEF CompressorOK
  <2>3. Covers(compressor.summary.sens)'
    BY <2>1, <2>2 DEF Covers
  <2>4. compressor'.pc # "done"
    BY <2>1
  <2> QED BY <1>2, <2>1, <2>2, <2>3, <2>4, CompressorMoves
<1>5. CASE compressor' = [compressor EXCEPT !.pc = "idle", !.seen = <<>>, !.summary = NoMemory]
  <2>1. DOMAIN compressor' = {"pc", "seen", "summary"} /\ compressor'.pc = "idle"
    BY <1>1, <1>5 DEF CompressorOK
  <2>2. compressor'.pc # "done" /\ compressor'.pc \notin Checking
    BY <2>1 DEF Checking
  <2> QED BY <1>2, <2>1, <2>2, CompressorMoves
<1> QED BY <1>3, <1>4, <1>5

\* The summary that is written covers every source of the proposal.
LEMMA CommitCompressionInv ==
  ASSUME MemoryInv, NEW key, CommitCompression(key), UNCHANGED <<item, promoter>>
  PROVE  MemoryInv'
<1>1. StoreOK /\ CompressorOK /\ ItemOK /\ clock \in Nat
  BY DEF MemoryInv, StoreOK
<1>2. SummaryId \in MemIds /\ ItemMemory \in MemIds /\ ItemMemory # SummaryId
  BY MemoryAssumption
<1>3. /\ compressor.pc = "checked" /\ compressor' = [compressor EXCEPT !.pc = "done"] /\ clock' = clock
      /\ Write(SummaryId, key, 0, compressor.summary, compressor.summary.observedAt)
  BY DEF CommitCompression
<1>4. compressor.summary \in MemoryInput /\ compressor.summary.observedAt <= clock /\ Covers(compressor.summary.sens)
      /\ DOMAIN compressor = {"pc", "seen", "summary"}
  BY <1>1, <1>3 DEF CompressorOK, Checking
<1>5. compressor.summary.observedAt \in Nat
  BY <1>4 DEF MemoryInput
<1>6. PICK input : input = compressor.summary
  OBVIOUS
<1>7. /\ StoreOK' /\ \A j \in MemIds \ {SummaryId} : records'[j] = records[j]
      /\ records'[SummaryId].sens = input.sens
  BY <1>1, <1>2, <1>3, <1>4, <1>5, <1>6, WriteKeeps
<1>8. DOMAIN compressor' = {"pc", "seen", "summary"} /\ compressor'.pc = "done" /\ compressor'.seen = compressor.seen
  BY <1>3, <1>4
<1>9. Covers(records[SummaryId].sens)'
  BY <1>4, <1>6, <1>7, <1>8 DEF Covers
<1>10. CompressorOK'
  BY <1>8, <1>9 DEF CompressorOK, Checking
<1>11. AsBefore(ItemMemory) /\ clock <= clock' /\ clock' \in Nat
  BY <1>1, <1>2, <1>3, <1>7 DEF AsBefore
<1>12. ItemOK'
  BY <1>1, <1>11, ItemStays
<1> QED BY <1>7, <1>10, <1>12 DEF MemoryInv

LEMMA TimePassesInv ==
  ASSUME MemoryInv, clock' \in Nat, clock <= clock', UNCHANGED <<records, replays, compressor, item, promoter>>
  PROVE  MemoryInv'
<1>1. StoreOK /\ CompressorOK /\ ItemOK
  BY DEF MemoryInv
<1>2. AsBefore(ItemMemory) /\ AsBefore(SummaryId)
  BY DEF AsBefore
<1>3. StoreOK'
  BY <1>1, StoreStays
<1>4. CompressorOK'
  BY <1>1, <1>2, CompressorStays
<1>5. ItemOK'
  BY <1>1, <1>2, ItemStays
<1> QED BY <1>3, <1>4, <1>5 DEF MemoryInv

LEMMA StoreStepInv == ASSUME MemoryInv, StoreStep PROVE MemoryInv'
<1>1. clock \in Nat /\ UNCHANGED <<item, promoter>> /\ StoreNext
  BY DEF MemoryInv, StoreOK, StoreStep
<1>2. ASSUME NEW i \in CallerIds, NEW key, NEW v, NEW input \in MemoryInputs, CallerWrites(i, key, v, input) PROVE MemoryInv'
  <2>1. PICK in : in = [input EXCEPT !.observedAt = clock]
    OBVIOUS
  <2>2. in \in MemoryInput
    BY <1>1, <2>1, CallerInput
  <2>3. Write(i, key, v, in, clock) /\ UNCHANGED <<clock, compressor, item, promoter>>
    BY <1>1, <1>2, <2>1 DEF CallerWrites
  <2> QED BY <2>2, <2>3, CallerWritesInv
<1>3. ASSUME NEW i \in MemIds, NEW v, Clear(i, v) PROVE MemoryInv'
  BY <1>1, <1>3, ClearInv
<1>4. CASE StartCompression \/ ReadSource
  BY <1>1, <1>4, CompressionReadsInv
<1>5. ASSUME NEW sens \in Sensitivities, IssueProposal(sens) PROVE MemoryInv'
  BY <1>1, <1>5, IssueProposalInv
<1>6. ASSUME NEW n \in {1, 2}, CheckSource(n) PROVE MemoryInv'
  BY <1>1, <1>6, CheckSourceInv
<1>7. ASSUME NEW key, CommitCompression(key) PROVE MemoryInv'
  BY <1>1, <1>7, CommitCompressionInv
<1>8. CASE StoreTick
  <2>1. clock' \in Nat /\ clock <= clock' /\ UNCHANGED <<records, replays, compressor, item, promoter>>
    BY <1>1, <1>8 DEF StoreTick
  <2> QED BY <2>1, TimePassesInv
<1> QED BY <1>1, <1>2, <1>3, <1>4, <1>5, <1>6, <1>7, <1>8 DEF StoreNext

-----------------------------------------------------------------------------
(* The item and its promotions *)

\* A step that leaves the store as it is.
LEMMA ProductMoves ==
  ASSUME MemoryInv, UNCHANGED storeVars, ItemOK'
  PROVE  MemoryInv'
<1>1. StoreOK /\ CompressorOK /\ clock \in Nat
  BY DEF MemoryInv, StoreOK
<1>2. AsBefore(SummaryId) /\ clock <= clock' /\ clock' \in Nat /\ UNCHANGED <<records, replays, compressor>>
  BY <1>1 DEF AsBefore, storeVars
<1>3. StoreOK'
  BY <1>1, <1>2, StoreStays
<1>4. CompressorOK'
  BY <1>1, <1>2, CompressorStays
<1> QED BY <1>3, <1>4 DEF MemoryInv

LEMMA EditItemInv == ASSUME MemoryInv, NEW text \in ItemTexts, EditItem(text) PROVE MemoryInv'
<1>1. StoreOK /\ ItemOK /\ clock \in Nat
  BY DEF MemoryInv, StoreOK
<1>2. /\ item' = [content |-> text, version |-> item.version + 1, updatedAt |-> clock]
      /\ promoter' = promoter /\ UNCHANGED storeVars
  BY DEF EditItem
<1>3. records' = records /\ clock' = clock
  BY <1>2 DEF storeVars
<1>4. /\ item' \in ItemRow /\ item'.updatedAt = clock /\ item.updatedAt \in Nat /\ item.updatedAt <= clock
      /\ item'.version = item.version + 1 /\ item.version \in Nat
  BY <1>1, <1>2 DEF ItemOK, ItemRow
<1>a. ASSUME NEW content, NEW version \in Nat, NEW at \in Nat, OfItem(content, version, at)
      PROVE  version < item'.version /\ at <= item'.updatedAt
  BY <1>1, <1>4, <1>a DEF OfItem
<1>5. ASSUME NEW p \in Promoters, promoter[p].pc \in {"read", "write"}
      PROVE  promoter[p].item.version # item'.version /\ promoter[p].item.version <= item'.version
             /\ promoter[p].item.updatedAt <= item'.updatedAt
  <2>1. /\ promoter[p].item.updatedAt \in Nat /\ promoter[p].item.version \in Nat
        /\ OfItem(promoter[p].item.content, promoter[p].item.version, promoter[p].item.updatedAt)
    BY <1>1, <1>5 DEF ItemOK, PromoterState, ItemRow
  <2> QED BY <1>4, <1>a, <2>1
<1>6. ItemMemoryOK'
  <2>1. RecordOK(ItemMemory)
    BY <1>1, MemoryAssumption DEF StoreOK
  <2>2. records[ItemMemory] # NoMemory => records[ItemMemory].observedAt \in Nat /\ records[ItemMemory].sourceVersion \in Nat
    BY <2>1 DEF RecordOK, MemoryRecord
  <2>3. records[ItemMemory] # NoMemory /\ records[ItemMemory].status = "active" =>
          records[ItemMemory].sourceVersion < item'.version /\ records[ItemMemory].observedAt <= item'.updatedAt
    BY <1>1, <1>a, <2>2 DEF ItemOK, ItemMemoryOK
  <2>4. records[ItemMemory] # NoMemory => records[ItemMemory].source = "tool" /\ records[ItemMemory].observedAt <= item'.updatedAt
    BY <1>1, <1>4, <2>2 DEF ItemOK, ItemMemoryOK
  <2>5. records[ItemMemory] # NoMemory /\ records[ItemMemory].status = "active" =>
          records[ItemMemory].sourceVersion # item'.version /\ records[ItemMemory].sourceVersion <= item'.version
    BY <1>4, <2>2, <2>3
  <2> QED BY <1>3, <2>3, <2>4, <2>5 DEF ItemMemoryOK, OfItem
<1>8. item'.updatedAt <= clock'
  BY <1>1, <1>3, <1>4
<1>9. ItemOK'
  BY <1>1, <1>2, <1>4, <1>5, <1>6, <1>8 DEF ItemOK, OfItem
<1> QED BY <1>2, <1>9, ProductMoves

LEMMA PromoterMoves ==
  ASSUME MemoryInv, NEW p \in Promoters, NEW v \in PromoterState, promoter' = [promoter EXCEPT ![p] = v],
         v.pc \in {"read", "write"} => OfItem(v.item.content, v.item.version, v.item.updatedAt),
         UNCHANGED <<storeVars, item>>
  PROVE  MemoryInv'
<1>1. ItemOK /\ UNCHANGED <<clock, records, item>>
  BY DEF MemoryInv, storeVars
<1>2. promoter' \in [Promoters -> PromoterState] /\ promoter'[p] = v /\ \A q \in Promoters \ {p} : promoter'[q] = promoter[q]
  BY <1>1 DEF ItemOK
<1>3. ItemOK'
  BY <1>1, <1>2 DEF ItemOK, OfItem, ItemMemoryOK
<1> QED BY <1>3, ProductMoves

LEMMA PromoteReadsInv ==
  ASSUME MemoryInv, NEW p \in Promoters, NEW key \in PromotionKeys, NEW kind \in PromotionKinds,
         PromoteReadItem(p, key, kind) \/ PromoteGet(p)
  PROVE  MemoryInv'
<1>1. StoreOK /\ ItemOK
  BY DEF MemoryInv
<1>2. promoter[p] \in PromoterState /\ item \in ItemRow /\ item.updatedAt \in Nat /\ item.version \in Nat
      /\ UNCHANGED <<storeVars, item>>
  BY <1>1 DEF ItemOK, ItemRow, PromoteReadItem, PromoteGet
<1>3. CASE PromoteReadItem(p, key, kind)
  <2>1. PICK v : v = [pc |-> "read", item |-> item, key |-> key, kind |-> kind]
    OBVIOUS
  <2>2. v \in PromoterState /\ OfItem(v.item.content, v.item.version, v.item.updatedAt)
    BY <1>2, <2>1 DEF PromoterState, OfItem
  <2>3. promoter' = [promoter EXCEPT ![p] = v]
    BY <1>3, <2>1 DEF PromoteReadItem
  <2> QED BY <1>2, <2>2, <2>3, PromoterMoves
<1>4. CASE PromoteGet(p)
  <2>1. Version(ItemMemory) \in Nat
    <3>1. RecordOK(ItemMemory)
      BY <1>1, MemoryAssumption DEF StoreOK
    <3> QED BY <3>1 DEF RecordOK, Version, MemoryRecord
  <2>2. promoter[p].pc = "read"
    BY <1>4 DEF PromoteGet
  <2>3. /\ promoter[p].item \in ItemRow /\ promoter[p].key \in PromotionKeys /\ promoter[p].kind \in PromotionKinds
        /\ OfItem(promoter[p].item.content, promoter[p].item.version, promoter[p].item.updatedAt)
    BY <1>1, <1>2, <2>2 DEF ItemOK, PromoterState
  <2>4. PICK w : w = [pc |-> "write", item |-> promoter[p].item, key |-> promoter[p].key, kind |-> promoter[p].kind,
                      expected |-> Version(ItemMemory)]
    OBVIOUS
  <2>5. PICK r : r = [pc |-> "refused"]
    OBVIOUS
  <2>6. w \in PromoterState /\ w.item = promoter[p].item /\ r \in PromoterState /\ r.pc = "refused"
    BY <2>1, <2>3, <2>4, <2>5 DEF PromoterState
  <2>7. promoter' = [promoter EXCEPT ![p] = w] \/ promoter' = [promoter EXCEPT ![p] = r]
    BY <1>4, <2>4, <2>5 DEF PromoteGet
  <2>8. CASE promoter' = [promoter EXCEPT ![p] = w]
    BY <1>2, <2>3, <2>6, <2>8, PromoterMoves
  <2>9. CASE promoter' = [promoter EXCEPT ![p] = r]
    BY <1>2, <2>6, <2>9, PromoterMoves
  <2> QED BY <2>7, <2>8, <2>9
<1> QED BY <1>3, <1>4

\* What a promotion writes is not newer than the item.
LEMMA PromoteWriteInv == ASSUME MemoryInv, NEW p \in Promoters, PromoteWrite(p) PROVE MemoryInv'
<1>1. StoreOK /\ CompressorOK /\ ItemOK /\ clock \in Nat
  BY DEF MemoryInv, StoreOK
<1>2. promoter[p] \in PromoterState /\ promoter[p].pc = "write" /\ item \in ItemRow /\ item.updatedAt \in Nat
      /\ UNCHANGED <<clock, compressor, item>>
  BY <1>1 DEF ItemOK, ItemRow, PromoteWrite
<1>3. /\ promoter[p].item \in ItemRow /\ promoter[p].key \in PromotionKeys /\ promoter[p].kind \in PromotionKinds
      /\ OfItem(promoter[p].item.content, promoter[p].item.version, promoter[p].item.updatedAt)
  BY <1>1, <1>2 DEF ItemOK, PromoterState
<1>4. PICK v \in [pc : {"idle", "refused"}] : promoter' = [promoter EXCEPT ![p] = v]
  <2>1. [pc |-> "idle"] \in [pc : {"idle", "refused"}] /\ [pc |-> "refused"] \in [pc : {"idle", "refused"}]
    OBVIOUS
  <2> QED BY <2>1 DEF PromoteWrite
<1>5. v \in PromoterState /\ v.pc \notin {"read", "write"}
  BY DEF PromoterState
<1>6. CASE UNCHANGED <<records, replays>>
  BY <1>2, <1>4, <1>5, <1>6, PromoterMoves DEF storeVars
<1>7. CASE Write(ItemMemory, <<"promote", promoter[p].item.version>>, promoter[p].expected,
                 Promoted(promoter[p].item, promoter[p].key, promoter[p].kind), clock)
  <2>1. PICK input : input = Promoted(promoter[p].item, promoter[p].key, promoter[p].kind)
    OBVIOUS
  <2>2. /\ input \in MemoryInput /\ input.source = "tool" /\ input.observedAt = promoter[p].item.updatedAt
        /\ input.sourceVersion = promoter[p].item.version /\ input.content = promoter[p].item.content
    BY <1>3, <2>1 DEF Promoted, MemoryInput, ItemRow, Kinds, Sensitivities, SourceClasses, PromotionKeys, PromotionKinds
  <2>3. PICK key : key = <<"promote", promoter[p].item.version>>
    OBVIOUS
  <2>4. PICK expected : expected = promoter[p].expected
    OBVIOUS
  <2>5. Write(ItemMemory, key, expected, input, clock)
    BY <1>7, <2>1, <2>3, <2>4
  <2>6. ItemMemory \in MemIds /\ SummaryId \in MemIds /\ ItemMemory # SummaryId /\ clock <= clock /\ clock' = clock
    BY <1>1, <1>2, MemoryAssumption
  <2>7. /\ StoreOK' /\ \A j \in MemIds \ {ItemMemory} : records'[j] = records[j]
        /\ records'[ItemMemory].source = input.source /\ records'[ItemMemory].observedAt = input.observedAt
        /\ records'[ItemMemory].sourceVersion = input.sourceVersion /\ records'[ItemMemory].content = input.content
    BY <1>1, <2>2, <2>5, <2>6, WriteKeeps
  <2>8. AsBefore(SummaryId) /\ clock <= clock' /\ clock' \in Nat
    BY <1>1, <2>6, <2>7 DEF AsBefore
  <2>9. CompressorOK'
    BY <1>1, <1>2, <2>8, CompressorStays
  <2>10. promoter' \in [Promoters -> PromoterState] /\ promoter'[p] = v /\ \A q \in Promoters \ {p} : promoter'[q] = promoter[q]
    BY <1>1, <1>4, <1>5 DEF ItemOK
  <2>11. \A q \in Promoters : promoter'[q].pc \in {"read", "write"} =>
           OfItem(promoter'[q].item.content, promoter'[q].item.version, promoter'[q].item.updatedAt)
    BY <1>1, <1>5, <2>10 DEF ItemOK
  <2>12. item' \in ItemRow /\ item'.updatedAt <= clock'
    BY <1>1, <1>2 DEF ItemOK
  <2>13. ItemMemoryOK'
    BY <1>2, <1>3, <2>2, <2>7 DEF ItemMemoryOK, OfItem
  <2>14. ItemOK'
    BY <1>2, <2>10, <2>11, <2>12, <2>13 DEF ItemOK, OfItem
  <2> QED BY <2>7, <2>9, <2>14 DEF MemoryInv
<1> QED BY <1>6, <1>7 DEF PromoteWrite

LEMMA RememberExplicitInv ==
  ASSUME MemoryInv, NEW i \in CallerIds, NEW input \in MemoryInputs, RememberExplicit(i, input) PROVE MemoryInv'
<1>1. clock \in Nat
  BY DEF MemoryInv, StoreOK
<1>2. PICK in : in = [input EXCEPT !.source = "explicit_user", !.observedAt = clock]
  OBVIOUS
<1>3. in \in MemoryInput
  BY <1>1, <1>2, CallerInput
<1>4. PICK key : key = <<"explicit", i>>
  OBVIOUS
<1>5. Write(i, key, 0, in, clock) /\ UNCHANGED <<clock, compressor, item, promoter>>
  BY <1>2, <1>4 DEF RememberExplicit
<1> QED BY <1>3, <1>5, CallerWritesInv

-----------------------------------------------------------------------------
LEMMA MemoryInvInit == BrainInit => MemoryInv
<1> SUFFICES ASSUME BrainInit PROVE MemoryInv
  OBVIOUS
<1>1. /\ clock = 0 /\ records = [i \in MemIds |-> NoMemory] /\ replays = [i \in MemIds |-> {}]
      /\ compressor = [pc |-> "idle", seen |-> <<>>, summary |-> NoMemory]
      /\ item \in [content : ItemTexts, version : {1}, updatedAt : {0}]
      /\ promoter = [p \in Promoters |-> [pc |-> "idle"]]
  BY DEF BrainInit, StoreInit
<1>2. SummaryId \in MemIds /\ ItemMemory \in MemIds
  BY MemoryAssumption
<1>3. StoreOK
  BY <1>1 DEF StoreOK, RecordOK
<1>4. CompressorOK
  BY <1>1, <1>2 DEF CompressorOK, Checking
<1>5. ItemOK
  <2>1. [pc |-> "idle"] \in PromoterState /\ [pc |-> "idle"].pc = "idle"
    BY DEF PromoterState
  <2>2. item \in ItemRow /\ item.updatedAt <= clock /\ records[ItemMemory] = NoMemory
    BY <1>1, <1>2 DEF ItemRow
  <2>3. promoter \in [Promoters -> PromoterState] /\ \A p \in Promoters : promoter[p].pc = "idle"
    BY <1>1, <2>1
  <2> QED BY <2>2, <2>3 DEF ItemOK, ItemMemoryOK
<1> QED BY <1>3, <1>4, <1>5 DEF MemoryInv

LEMMA MemoryInvNext == MemoryInv /\ [BrainNext]_brainVars => MemoryInv'
<1> SUFFICES ASSUME MemoryInv, [BrainNext]_brainVars PROVE MemoryInv'
  OBVIOUS
<1>1. CASE StoreStep
  BY <1>1, StoreStepInv
<1>2. ASSUME NEW text \in ItemTexts, EditItem(text) PROVE MemoryInv'
  BY <1>2, EditItemInv
<1>3. ASSUME NEW i \in CallerIds, NEW input \in MemoryInputs, RememberExplicit(i, input) PROVE MemoryInv'
  BY <1>3, RememberExplicitInv
<1>4. ASSUME NEW p \in Promoters, NEW key \in PromotionKeys, NEW kind \in PromotionKinds, PromoteReadItem(p, key, kind)
      PROVE  MemoryInv'
  BY <1>4, PromoteReadsInv
<1>9. ASSUME NEW p \in Promoters, PromoteGet(p) PROVE MemoryInv'
  BY <1>9, PromoteReadsInv DEF PromotionKeys, PromotionKinds
<1>5. ASSUME NEW p \in Promoters, PromoteWrite(p) PROVE MemoryInv'
  BY <1>5, PromoteWriteInv
<1>6. CASE UNCHANGED <<storeVars, item, promoter>>
  <2>1. ItemOK /\ UNCHANGED <<clock, records, item, promoter>>
    BY <1>6 DEF MemoryInv, storeVars
  <2>2. ItemOK'
    BY <2>1 DEF ItemOK, OfItem, ItemMemoryOK
  <2> QED BY <1>6, <2>2, ProductMoves
<1>7. ASSUME NEW i, NEW f, NEW v, SetSignal(i, f, v) PROVE MemoryInv'
  BY <1>6, <1>7 DEF SetSignal
<1>8. CASE UNCHANGED brainVars
  BY <1>6, <1>8 DEF brainVars
<1> QED BY <1>1, <1>2, <1>3, <1>4, <1>5, <1>7, <1>8, <1>9 DEF BrainNext

-----------------------------------------------------------------------------
\* What retrieval selects for one key is the newest, and what disagrees among the newest is not selected.
LEMMA SelectedAgree == ASSUME NEW sources PROVE SelectionAgrees(sources)
<1>1. ASSUME NEW i \in Selected(sources), NEW j \in Selected(sources),
             records[i].kind = "project", records[j].kind = "project", records[i].key = records[j].key
      PROVE  records[i].content = records[j].content
  <2>1. ASSUME NEW k \in Selected(sources), records[k].kind = "project", records[k].key = records[i].key
        PROVE  k \in Recalled({"project"}) /\ k \notin Conflicted(sources) /\ k \in Newest(Group(sources, records[i].key))
    <3>1. k \in Recalled({"project"})
      BY <2>1 DEF Selected, Recalled
    <3>2. k \notin StaleBySource(sources) /\ k \notin StaleByMemory(sources) /\ k \notin Conflicted(sources)
      BY DEF Selected, Stale
    <3> QED BY <2>1, <3>1, <3>2 DEF StaleByMemory
  <2>2. i \in Recalled({"project"}) /\ i \notin Conflicted(sources) /\ i \in Newest(Group(sources, records[i].key))
    BY <1>1, <2>1
  <2>3. j \in Newest(Group(sources, records[i].key))
    BY <1>1, <2>1
  <2> QED BY <2>2, <2>3 DEF Conflicted
<1> QED BY <1>1 DEF SelectionAgrees

\* A memory of the item that says something else than the item names an older version, and a project memory is
\* contradicted by a newer source.
LEMMA OtherTextIsOlder ==
  ASSUME MemoryInv, Active(ItemMemory), records[ItemMemory].content # item.content
  PROVE  records[ItemMemory].sourceVersion < item.version
<1>1. RecordOK(ItemMemory) /\ item.version \in Nat
  BY MemoryAssumption DEF MemoryInv, StoreOK, ItemOK, ItemRow
<1>2. /\ records[ItemMemory].sourceVersion <= item.version
      /\ records[ItemMemory].sourceVersion = item.version => records[ItemMemory].content = item.content
  BY DEF MemoryInv, ItemOK, ItemMemoryOK, OfItem, Active
<1>3. records[ItemMemory].sourceVersion \in Nat
  BY <1>1 DEF RecordOK, MemoryRecord, Active
<1> QED BY <1>1, <1>2, <1>3

LEMMA OtherTextIsStale ==
  ASSUME MemoryInv, Active(ItemMemory), records[ItemMemory].content # item.content, records[ItemMemory].kind = "project"
  PROVE  ItemMemory \in Stale(CurrentSources)
<1>1. PICK s : s = [key |-> records[ItemMemory].key, content |-> item.content, sourceVersion |-> item.version, observedAt |-> item.updatedAt]
  OBVIOUS
<1>2. s \in CurrentSources
  BY <1>1 DEF CurrentSources
<1>3. s.key = records[ItemMemory].key /\ s.content # records[ItemMemory].content /\ s.observedAt = item.updatedAt
  BY <1>1
<1>4. RecordOK(ItemMemory) /\ item.updatedAt \in Nat /\ ItemMemory \in MemIds
  BY MemoryAssumption DEF MemoryInv, StoreOK, ItemOK, ItemRow
<1>5. /\ records[ItemMemory] # NoMemory /\ records[ItemMemory].kind = "project" /\ records[ItemMemory].source = "tool"
      /\ records[ItemMemory].observedAt <= item.updatedAt
  BY DEF MemoryInv, ItemOK, ItemMemoryOK, Active
<1>6. records[ItemMemory].observedAt \in Nat
  BY <1>4, <1>5 DEF RecordOK, MemoryRecord
<1>7. s.observedAt >= records[ItemMemory].observedAt
  BY <1>3, <1>4, <1>5, <1>6
<1>8. ItemMemory \in Recalled({"project"})
  BY <1>4, <1>5 DEF Recalled
<1> QED BY <1>2, <1>3, <1>7, <1>8 DEF Stale, StaleBySource

\* Of the copies of a memory the newest is not superseded, and of equally new ones the first.
LEMMA OneStands ==
  ASSUME MemoryInv, NEW i \in MemIds, Active(i)
  PROVE  \E j \in Duplicates(i) : ~Superseded(j)
<1>1. i \in Duplicates(i) /\ MemIds \subseteq Nat /\ clock \in Nat
  BY MemoryAssumption DEF Duplicates, MemoryInv, StoreOK
<1>2. ASSUME NEW j \in Duplicates(i)
      PROVE  j \in Nat /\ records[j].updatedAt \in Nat /\ records[j].updatedAt <= clock /\ Duplicates(j) = Duplicates(i)
  <2>1. j \in MemIds /\ records[j] # NoMemory /\ RecordOK(j)
    BY DEF Duplicates, Active, MemoryInv, StoreOK
  <2>2. records[j].updatedAt \in Nat /\ records[j].updatedAt <= clock
    BY <2>1 DEF RecordOK, MemoryRecord
  <2>3. records[j].key = records[i].key /\ records[j].content = records[i].content
    BY DEF Duplicates
  <2> QED BY <1>1, <2>1, <2>2, <2>3 DEF Duplicates
<1>3. PICK ages : ages = {clock - records[j].updatedAt : j \in Duplicates(i)}
  OBVIOUS
<1>4. ages \subseteq Nat /\ ages # {}
  BY <1>1, <1>2, <1>3
<1>5. PICK age \in ages : \A a \in ages : age <= a
  BY <1>4, LeastNumber
<1>6. PICK newest : newest = {j \in Duplicates(i) : clock - records[j].updatedAt = age}
  OBVIOUS
<1>7. newest \subseteq Nat /\ newest # {}
  BY <1>2, <1>3, <1>5, <1>6
<1>8. PICK first \in newest : \A j \in newest : first <= j
  BY <1>7, LeastNumber
<1>9. first \in Duplicates(i) /\ clock - records[first].updatedAt = age
  BY <1>6, <1>8
<1>10. ASSUME NEW j \in Duplicates(i)
       PROVE  ~(records[j].updatedAt > records[first].updatedAt)
              /\ ~(records[j].updatedAt = records[first].updatedAt /\ j < first)
  <2>1. clock - records[j].updatedAt \in ages
    BY <1>3
  <2>2. age <= clock - records[j].updatedAt
    BY <1>5, <2>1
  <2>3. records[j].updatedAt \in Nat /\ records[first].updatedAt \in Nat /\ j \in Nat /\ first \in Nat
    BY <1>2, <1>9
  <2>4. records[j].updatedAt = records[first].updatedAt => first <= j
    BY <1>6, <1>8, <1>9
  <2> QED BY <1>1, <1>9, <2>2, <2>3, <2>4
<1>11. ~Superseded(first)
  BY <1>2, <1>9, <1>10 DEF Superseded
<1> QED BY <1>9, <1>11

LEMMA StandingStatus == ASSUME NEW i, ~Superseded(i) PROVE StatusFor(i) # "SUPERSEDED"
  BY DEF StatusFor

LEMMA MemoryInvSound == MemoryInv => MemorySound
<1> SUFFICES ASSUME MemoryInv PROVE MemorySound
  OBVIOUS
<1>1. \A i \in MemIds : RecordOK(i)
  BY DEF MemoryInv, StoreOK
<1>2. ClearedIsGone
  BY <1>1 DEF RecordOK, ClearedIsGone
<1>3. OneCommandPerVersion
  BY <1>1 DEF RecordOK, OneCommandPerVersion
<1>4. SummaryKeepsSensitivity
  <2>1. ASSUME Active(SummaryId), NEW n \in 1 .. Len(compressor.seen)
        PROVE  records[SummaryId].sens >= compressor.seen[n].sens
    BY <2>1 DEF MemoryInv, CompressorOK, Active, Covers
  <2> QED BY <2>1 DEF SummaryKeepsSensitivity
<1>5. SelectionAgrees(CurrentSources) /\ SelectionAgrees({})
  BY SelectedAgree
<1>6. Active(ItemMemory) /\ records[ItemMemory].content # item.content =>
        /\ records[ItemMemory].sourceVersion < item.version
        /\ records[ItemMemory].kind = "project" => ItemMemory \in Stale(CurrentSources)
  BY OtherTextIsOlder, OtherTextIsStale
<1>7. \A i \in MemIds : Active(i) => \E j \in Duplicates(i) : StatusFor(j) # "SUPERSEDED"
  BY OneStands, StandingStatus
<1>8. \A i \in MemIds : ~Active(i) => ~ShowsContent(i) /\ i \notin Selected({})
  BY DEF ShowsContent, Selected, Recalled
<1> QED BY <1>2, <1>3, <1>4, <1>5, <1>6, <1>7, <1>8 DEF MemorySound

(***************************************************************************)
(* A cleared memory is gone from the store and from every kept answer,     *)
(* each version has one command, a summary is as sensitive as its sources, *)
(* retrieval never selects two answers for one key, an older text of an    *)
(* item names its version and, as a project memory, is reported as stale,  *)
(* and one of several copies stands                                        *)
(* (neon-memory.ts 78-262, memory-brain-store.ts 226-287, advanced.ts      *)
(* 102-199, product.ts 110-190), for any memories, inputs, clocks and      *)
(* promotions between whose awaits the store and the item change.          *)
(***************************************************************************)
THEOREM MemoryHolds == BrainSpec => []MemorySound
<1>1. BrainSpec => []MemoryInv
  BY MemoryInvInit, MemoryInvNext, PTL DEF BrainSpec
<1> QED BY <1>1, MemoryInvSound, PTL

-----------------------------------------------------------------------------
(* Skills: the registry, the intake and the packs (skills/registry.ts, skill-intake/firewall.ts, skill-os/runtime.ts) *)

Idling == [pc |-> "idle"]
Attesting == [pc : {"attesting"}, skill : SkillKeys, package : Packages, key : {1, 2}]
Resolving == [pc : {"resolving"}, skill : SkillKeys, at : SkillTimes]

\* What is loadable and came from outside was verified by others for this content, before its activation.
EvidenceStands(k) ==
  /\ skills[k].package.trust \in {"learned", "community"}
       => \E e \in lifecycle : /\ e.action = "VERIFIED" /\ e.key = k /\ e.package = skills[k].package
                               /\ e.producer \in IndependentProducers
                               /\ skills[k].package.observedAt <= e.at /\ e.at = skills[k].verifiedAt
  /\ skills[k].state = "ACTIVE" => skills[k].verifiedAt <= skills[k].activatedAt

RegistryInv ==
  /\ skills \in [SkillKeys -> SkillRecord \cup {NoSkill}]
  /\ OneActive
  /\ \A k \in SkillKeys : Loadable(k) => EvidenceStands(k)
  /\ \A e \in lifecycle : e.action = "VERIFIED" => e.producer \in IndependentProducers
  /\ \A e \in lifecycle : e.action = "REVOKED" =>
       e.key \in SkillKeys /\ Known(e.key) /\ skills[e.key].state = "REVOKED" /\ skills[e.key].package = e.package

CandidatesInv ==
  /\ synthesizer \in [Synthesizers -> {Idling} \cup Attesting]
  /\ \A c \in Synthesizers : synthesizer[c].pc = "attesting" => synthesizer[c].package.trust = "learned"
  /\ \A f \in candidates : f.skill \in SkillKeys
  /\ CandidatesRegistered

InspectedInv ==
  /\ intake \in [Intakes -> {Idling} \cup Resolving]
  /\ DOMAIN curation = Curators /\ \A c \in Curators : curation[c].pc = "evaluating" => curation[c].skill \in SkillKeys
  /\ \A r \in inspected : r.skill \in SkillKeys
  /\ InspectedRegistered /\ AcceptedWasScanned

\* A member was measured for the classes it is taken for.
MemberMeasured(m) == Measured(m.report) /\ m.classes \subseteq m.report.classes

PacksInv ==
  /\ DOMAIN packs = PackKeys /\ DOMAIN pins = TaskClasses /\ DOMAIN loaded = Loaders /\ osPacks \subseteq PackKeys
  /\ \A p \in PackKeys : packs[p] # NoPack => \A m \in packs[p] : MemberMeasured(m)
  /\ \A p \in osPacks : packs[p] # NoPack /\ ContextBytes(p) <= MaxPackContext
  /\ \A t \in TaskClasses : pins[t] # NoPack => <<t, pins[t]>> \in pinHistory /\ PinTarget(t, pins[t])
  /\ LoadedIsMeasured

-----------------------------------------------------------------------------
\* What a step keeps of the registry whichever operation it is: a registered skill and its
\* content stay, and so do the events.
SkillsKept == \A k \in SkillKeys : Known(k) => skills'[k] # NoSkill /\ skills'[k].package = skills[k].package
EventsKept == lifecycle \subseteq lifecycle'

LEMMA RecordIsKnown == \A r \in SkillRecord : r # NoSkill
  BY SkillAssumption

\* A step that leaves the registry alone.
LEMMA RegistryStays == RegistryInv /\ UNCHANGED <<skills, lifecycle>> => RegistryInv' /\ SkillsKept /\ EventsKept
  BY DEF RegistryInv, SkillsKept, EventsKept, OneActive, EvidenceStands, Known, Loadable

LEMMA InsertKeeps ==
  ASSUME RegistryInv, NEW k \in SkillKeys, NEW package \in SkillPackage, NEW state \in {"CANDIDATE", "VERIFIED"},
         state = "VERIFIED" => package.trust \notin {"learned", "community"},
         Insert(k, package, state), UNCHANGED lifecycle
  PROVE  RegistryInv' /\ SkillsKept /\ EventsKept /\ (\A j \in SkillKeys : j # k => skills'[j] = skills[j])
         /\ skills'[k].package = package /\ skills'[k] # NoSkill
<1> DEFINE new == [package |-> package, state |-> state, activatedAt |-> 0,
                   verifiedAt |-> IF state = "VERIFIED" THEN package.observedAt ELSE 0]
<1>1. new \in SkillRecord /\ new # NoSkill /\ new.package = package /\ new.state = state
  BY RecordIsKnown DEF SkillRecord, SkillPackage
<1>2. skills' = [skills EXCEPT ![k] = new] /\ ~Known(k)
  BY DEF Insert
<1> HIDE DEF new
<1>3. skills'[k] = new /\ \A j \in SkillKeys : j # k => skills'[j] = skills[j]
  BY <1>2 DEF RegistryInv
<1>4. skills' \in [SkillKeys -> SkillRecord \cup {NoSkill}]
  BY <1>1, <1>2 DEF RegistryInv
<1>5. OneActive'
  <2> SUFFICES ASSUME NEW i \in SkillKeys, NEW j \in SkillKeys, Known(i)', Known(j)', i[1] = j[1],
                      skills'[i].state = "ACTIVE", skills'[j].state = "ACTIVE"
               PROVE  i = j
    BY DEF OneActive
  <2>1. i # k /\ j # k
    BY <1>1, <1>3
  <2> QED BY <1>3, <2>1 DEF RegistryInv, OneActive, Known
<1>6. ASSUME NEW j \in SkillKeys, Loadable(j)' PROVE EvidenceStands(j)'
  <2>1. CASE j = k
    BY <1>1, <1>3, <1>6, <2>1 DEF EvidenceStands, Loadable
  <2>2. CASE j # k
    <3>1. skills'[j] = skills[j] /\ Loadable(j)
      BY <1>3, <1>6, <2>2 DEF Loadable, Known
    <3> QED BY <3>1 DEF RegistryInv, EvidenceStands
  <2> QED BY <2>1, <2>2
<1>7. ASSUME NEW e \in lifecycle', e.action = "REVOKED"
      PROVE  e.key \in SkillKeys /\ Known(e.key)' /\ skills'[e.key].state = "REVOKED" /\ skills'[e.key].package = e.package
  <2>1. e.key \in SkillKeys /\ Known(e.key) /\ skills[e.key].state = "REVOKED" /\ skills[e.key].package = e.package
    BY <1>7 DEF RegistryInv
  <2>2. e.key # k
    BY <1>2, <2>1
  <2> QED BY <1>3, <2>1, <2>2 DEF Known
<1>8. SkillsKept
  BY <1>2, <1>3 DEF SkillsKept, Known
<1>9. EventsKept /\ \A e \in lifecycle' : e.action = "VERIFIED" => e.producer \in IndependentProducers
  BY DEF EventsKept, RegistryInv
<1> QED BY <1>1, <1>3, <1>4, <1>5, <1>6, <1>7, <1>8, <1>9 DEF RegistryInv

LEMMA RegisterKeeps ==
  ASSUME RegistryInv, NEW k \in SkillKeys, NEW p \in Packages, RegisterTrusted(k, p)
  PROVE  RegistryInv' /\ SkillsKept /\ EventsKept
<1>1. p \in SkillPackage /\ p.trust \in {"builtin", "project"} /\ Insert(k, p, "VERIFIED") /\ UNCHANGED lifecycle
  BY SkillAssumption DEF RegisterTrusted
<1> QED BY <1>1, InsertKeeps

LEMMA CandidateKeeps ==
  ASSUME RegistryInv, NEW k \in SkillKeys, NEW p \in Packages, RegisterCandidate(k, p)
  PROVE  RegistryInv' /\ SkillsKept /\ EventsKept
<1>1. p \in SkillPackage /\ Insert(k, p, "CANDIDATE") /\ UNCHANGED lifecycle
  BY SkillAssumption DEF RegisterCandidate
<1> QED BY <1>1, InsertKeeps

LEMMA VerifyKeeps ==
  ASSUME RegistryInv, NEW k \in SkillKeys, NEW e, e.at \in Nat, Verify(k, e)
  PROVE  /\ RegistryInv' /\ SkillsKept /\ EventsKept
         /\ \E v \in lifecycle' : v.action = "VERIFIED" /\ v.key = k /\ v.package = e.package /\ v.at = e.at /\ v.refs = e.refs
         /\ \A j \in SkillKeys : Known(j)' => Known(j)
<1> DEFINE new == [skills[k] EXCEPT !.state = "VERIFIED", !.verifiedAt = e.at]
           event == [action |-> "VERIFIED", key |-> k, package |-> e.package, refs |-> e.refs, producer |-> e.producer, at |-> e.at]
<1>1. /\ Known(k) /\ e.package = skills[k].package /\ e.producer \in IndependentProducers
      /\ skills[k].package.observedAt <= e.at /\ skills[k].state = "CANDIDATE"
  BY DEF Verify, Accepted, RegistryInv, Known, SkillRecord, SkillPackage
<1>2. skills' = [skills EXCEPT ![k] = new] /\ lifecycle' = lifecycle \cup {event}
  BY DEF Verify
<1>3. skills[k] \in SkillRecord
  BY <1>1 DEF RegistryInv, Known
<1>4. new \in SkillRecord /\ new.package = skills[k].package /\ new.state = "VERIFIED" /\ new.verifiedAt = e.at
  BY <1>3 DEF SkillRecord
<1>5. event.action = "VERIFIED" /\ event.key = k /\ event.package = e.package /\ event.refs = e.refs
      /\ event.producer = e.producer /\ event.at = e.at
  OBVIOUS
<1> HIDE DEF new, event
<1>6. new # NoSkill
  BY <1>4, RecordIsKnown
<1>7. skills'[k] = new /\ \A j \in SkillKeys : j # k => skills'[j] = skills[j]
  BY <1>2 DEF RegistryInv
<1>8. skills' \in [SkillKeys -> SkillRecord \cup {NoSkill}]
  BY <1>2, <1>4 DEF RegistryInv
<1>9. OneActive'
  <2> SUFFICES ASSUME NEW i \in SkillKeys, NEW j \in SkillKeys, Known(i)', Known(j)', i[1] = j[1],
                      skills'[i].state = "ACTIVE", skills'[j].state = "ACTIVE"
               PROVE  i = j
    BY DEF OneActive
  <2>1. i # k /\ j # k
    BY <1>4, <1>7
  <2> QED BY <1>7, <2>1 DEF RegistryInv, OneActive, Known
<1>10. ASSUME NEW j \in SkillKeys, Loadable(j)' PROVE EvidenceStands(j)'
  <2>1. CASE j = k
    <3>1. event \in lifecycle' /\ skills'[k].state # "ACTIVE"
      BY <1>2, <1>4, <1>7
    <3>2. /\ event.action = "VERIFIED" /\ event.key = j /\ event.package = skills'[j].package /\ event.producer \in IndependentProducers
          /\ skills'[j].package.observedAt <= event.at /\ event.at = skills'[j].verifiedAt
      BY <1>1, <1>4, <1>5, <1>7, <2>1
    <3> QED BY <2>1, <3>1, <3>2 DEF EvidenceStands
  <2>2. CASE j # k
    <3>1. skills'[j] = skills[j] /\ Loadable(j)
      BY <1>7, <1>10, <2>2 DEF Loadable, Known
    <3>2. EvidenceStands(j) /\ lifecycle \subseteq lifecycle'
      BY <1>2, <3>1 DEF RegistryInv
    <3> QED BY <3>1, <3>2 DEF EvidenceStands
  <2> QED BY <2>1, <2>2
<1>11. ASSUME NEW v \in lifecycle', v.action = "REVOKED"
       PROVE  v.key \in SkillKeys /\ Known(v.key)' /\ skills'[v.key].state = "REVOKED" /\ skills'[v.key].package = v.package
  <2>1. v \in lifecycle
    BY <1>2, <1>5, <1>11
  <2>2. v.key \in SkillKeys /\ Known(v.key) /\ skills[v.key].state = "REVOKED" /\ skills[v.key].package = v.package
    BY <1>11, <2>1 DEF RegistryInv
  <2>3. v.key # k
    BY <1>1, <2>2
  <2> QED BY <1>7, <2>2, <2>3 DEF Known
<1>12. SkillsKept
  BY <1>4, <1>6, <1>7 DEF SkillsKept, Known
<1>13. EventsKept /\ \A v \in lifecycle' : v.action = "VERIFIED" => v.producer \in IndependentProducers
  BY <1>1, <1>2, <1>5 DEF EventsKept, RegistryInv
<1>14. \A j \in SkillKeys : Known(j)' => Known(j)
  BY <1>1, <1>7 DEF Known
<1>15. \E v \in lifecycle' : v.action = "VERIFIED" /\ v.key = k /\ v.package = e.package /\ v.at = e.at /\ v.refs = e.refs
  BY <1>2, <1>5
<1> QED BY <1>8, <1>9, <1>10, <1>11, <1>12, <1>13, <1>14, <1>15 DEF RegistryInv

LEMMA ActivateKeeps ==
  ASSUME RegistryInv, NEW k \in SkillKeys, NEW t \in SkillTimes, Activate(k, t)
  PROVE  RegistryInv' /\ SkillsKept /\ EventsKept /\ \A j \in SkillKeys : Known(j)' => Known(j)
<1> DEFINE Sibling(j) == j # k /\ j[1] = k[1] /\ Known(j) /\ skills[j].state = "ACTIVE"
<1>1. Loadable(k) /\ t \in Nat /\ skills[k].verifiedAt <= t /\ lifecycle' = lifecycle
  BY SkillAssumption DEF Activate, RegistryInv, Loadable, Known, SkillRecord
<1>2. skills' = [j \in SkillKeys |->
         CASE j = k -> [skills[j] EXCEPT !.state = "ACTIVE", !.activatedAt = t]
           [] j # k /\ j[1] = k[1] /\ Known(j) /\ skills[j].state = "ACTIVE" -> [skills[j] EXCEPT !.state = "VERIFIED"]
           [] OTHER -> skills[j]]
  BY DEF Activate
<1>3. skills'[k] = [skills[k] EXCEPT !.state = "ACTIVE", !.activatedAt = t]
  BY <1>2
<1>4. \A j \in SkillKeys : Sibling(j) => skills'[j] = [skills[j] EXCEPT !.state = "VERIFIED"]
  BY <1>2
<1>5. \A j \in SkillKeys : j # k /\ ~Sibling(j) => skills'[j] = skills[j]
  BY <1>2
<1>6. \A j \in SkillKeys : Known(j) => skills[j] \in SkillRecord
  BY DEF RegistryInv, Known
<1>7. /\ skills'[k] \in SkillRecord /\ skills'[k].package = skills[k].package /\ skills'[k].state = "ACTIVE"
      /\ skills'[k].verifiedAt = skills[k].verifiedAt /\ skills'[k].activatedAt = t
  BY <1>1, <1>3, <1>6 DEF SkillRecord, Loadable
<1>8. \A j \in SkillKeys : Sibling(j) =>
        /\ skills'[j] \in SkillRecord /\ skills'[j].package = skills[j].package /\ skills'[j].state = "VERIFIED"
        /\ skills'[j].verifiedAt = skills[j].verifiedAt
  BY <1>4, <1>6 DEF SkillRecord
<1>9. skills' \in [SkillKeys -> SkillRecord \cup {NoSkill}]
  <2>1. \A j \in SkillKeys : skills'[j] \in SkillRecord \cup {NoSkill}
    BY <1>5, <1>7, <1>8 DEF RegistryInv
  <2>2. skills' = [j \in SkillKeys |-> skills'[j]]
    BY <1>2
  <2> QED BY <2>1, <2>2
<1>10. OneActive'
  <2>1. ASSUME NEW i \in SkillKeys, Known(i)', skills'[i].state = "ACTIVE", i # k PROVE i[1] # k[1] /\ Known(i) /\ skills[i].state = "ACTIVE"
    <3>1. ~Sibling(i)
      BY <1>8, <2>1
    <3> QED BY <1>5, <2>1, <3>1 DEF Known
  <2> SUFFICES ASSUME NEW i \in SkillKeys, NEW j \in SkillKeys, Known(i)', Known(j)', i[1] = j[1],
                      skills'[i].state = "ACTIVE", skills'[j].state = "ACTIVE"
               PROVE  i = j
    BY DEF OneActive
  <2>2. CASE i = k \/ j = k
    BY <2>1, <2>2
  <2>3. CASE i # k /\ j # k
    BY <2>1, <2>3 DEF RegistryInv, OneActive
  <2> QED BY <2>2, <2>3
<1>11. ASSUME NEW j \in SkillKeys, Loadable(j)' PROVE EvidenceStands(j)'
  <2>1. Loadable(j) /\ skills'[j].package = skills[j].package /\ skills'[j].verifiedAt = skills[j].verifiedAt
        /\ (skills'[j].state = "ACTIVE" => (j = k \/ (skills[j].state = "ACTIVE" /\ skills'[j].activatedAt = skills[j].activatedAt)))
    BY <1>1, <1>5, <1>7, <1>8, <1>11 DEF Loadable, Known
  <2>2. EvidenceStands(j)
    BY <2>1 DEF RegistryInv
  <2>3. skills'[j].state = "ACTIVE" => skills'[j].verifiedAt <= skills'[j].activatedAt
    <3>1. CASE j = k
      BY <1>1, <1>7, <3>1
    <3>2. CASE j # k
      BY <2>1, <2>2, <3>2 DEF EvidenceStands
    <3> QED BY <3>1, <3>2
  <2> QED BY <1>1, <2>1, <2>2, <2>3 DEF EvidenceStands
<1>12. ASSUME NEW v \in lifecycle', v.action = "REVOKED"
       PROVE  v.key \in SkillKeys /\ Known(v.key)' /\ skills'[v.key].state = "REVOKED" /\ skills'[v.key].package = v.package
  <2>1. v.key \in SkillKeys /\ Known(v.key) /\ skills[v.key].state = "REVOKED" /\ skills[v.key].package = v.package
    BY <1>1, <1>12 DEF RegistryInv
  <2>2. v.key # k /\ ~Sibling(v.key)
    BY <1>1, <2>1 DEF Loadable
  <2> QED BY <1>5, <2>1, <2>2 DEF Known
<1>13. SkillsKept
  <2> SUFFICES ASSUME NEW j \in SkillKeys, Known(j) PROVE skills'[j] # NoSkill /\ skills'[j].package = skills[j].package
    BY DEF SkillsKept
  <2>1. CASE j = k \/ Sibling(j)
    BY <1>7, <1>8, <2>1, RecordIsKnown
  <2>2. CASE j # k /\ ~Sibling(j)
    BY <1>5, <2>2 DEF Known
  <2> QED BY <2>1, <2>2
<1>14. EventsKept /\ \A v \in lifecycle' : v.action = "VERIFIED" => v.producer \in IndependentProducers
  BY <1>1 DEF EventsKept, RegistryInv
<1>15. \A j \in SkillKeys : Known(j)' => Known(j)
  BY <1>1, <1>5 DEF Known, Loadable
<1> HIDE DEF Sibling
<1> QED BY <1>9, <1>10, <1>11, <1>12, <1>13, <1>14, <1>15 DEF RegistryInv

LEMMA RevokeKeeps ==
  ASSUME RegistryInv, NEW k \in SkillKeys, NEW t \in SkillTimes, Revoke(k, t)
  PROVE  RegistryInv' /\ SkillsKept /\ EventsKept /\ \A j \in SkillKeys : Known(j)' => Known(j)
<1> DEFINE new == [skills[k] EXCEPT !.state = "REVOKED"]
           event == [action |-> "REVOKED", key |-> k, package |-> skills[k].package]
<1>1. Known(k) /\ skills[k] \in SkillRecord /\ skills' = [skills EXCEPT ![k] = new] /\ lifecycle' = lifecycle \cup {event}
  BY DEF Revoke, RegistryInv, Known
<1>2. new \in SkillRecord /\ new.package = skills[k].package /\ new.state = "REVOKED" /\ new # NoSkill
  <2>1. new \in SkillRecord /\ new.package = skills[k].package /\ new.state = "REVOKED"
    BY <1>1 DEF SkillRecord
  <2> QED BY <2>1, RecordIsKnown
<1>3. event.action = "REVOKED" /\ event.key = k /\ event.package = skills[k].package
  OBVIOUS
<1> HIDE DEF new, event
<1>4. skills'[k] = new /\ \A j \in SkillKeys : j # k => skills'[j] = skills[j]
  BY <1>1 DEF RegistryInv
<1>5. skills' \in [SkillKeys -> SkillRecord \cup {NoSkill}]
  BY <1>1, <1>2 DEF RegistryInv
<1>6. OneActive'
  <2> SUFFICES ASSUME NEW i \in SkillKeys, NEW j \in SkillKeys, Known(i)', Known(j)', i[1] = j[1],
                      skills'[i].state = "ACTIVE", skills'[j].state = "ACTIVE"
               PROVE  i = j
    BY DEF OneActive
  <2>1. i # k /\ j # k
    BY <1>2, <1>4
  <2> QED BY <1>4, <2>1 DEF RegistryInv, OneActive, Known
<1>7. ASSUME NEW j \in SkillKeys, Loadable(j)' PROVE EvidenceStands(j)'
  <2>1. j # k
    BY <1>2, <1>4, <1>7 DEF Loadable
  <2>2. skills'[j] = skills[j] /\ Loadable(j)
    BY <1>4, <1>7, <2>1 DEF Loadable, Known
  <2>3. EvidenceStands(j) /\ lifecycle \subseteq lifecycle'
    BY <1>1, <2>2 DEF RegistryInv
  <2> QED BY <2>2, <2>3 DEF EvidenceStands
<1>8. ASSUME NEW v \in lifecycle', v.action = "REVOKED"
      PROVE  v.key \in SkillKeys /\ Known(v.key)' /\ skills'[v.key].state = "REVOKED" /\ skills'[v.key].package = v.package
  <2>1. CASE v = event
    BY <1>2, <1>3, <1>4, <2>1 DEF Known
  <2>2. CASE v \in lifecycle
    <3>1. v.key \in SkillKeys /\ Known(v.key) /\ skills[v.key].state = "REVOKED" /\ skills[v.key].package = v.package
      BY <1>8, <2>2 DEF RegistryInv
    <3> QED BY <1>2, <1>4, <3>1 DEF Known
  <2> QED BY <1>1, <2>1, <2>2
<1>9. SkillsKept
  BY <1>2, <1>4 DEF SkillsKept, Known
<1>10. EventsKept /\ \A v \in lifecycle' : v.action = "VERIFIED" => v.producer \in IndependentProducers
  BY <1>1, <1>3 DEF EventsKept, RegistryInv
<1>11. \A j \in SkillKeys : Known(j)' => Known(j)
  BY <1>1, <1>4 DEF Known
<1> QED BY <1>5, <1>6, <1>7, <1>8, <1>9, <1>10, <1>11 DEF RegistryInv
-----------------------------------------------------------------------------
\* The scan of a snapshot, file after file (firewall.ts 321-390).

FoldedScan(f, s, n) ==
  f = [m \in 0 .. n |-> IF m = 0 THEN ScanStart(s) ELSE ScanFile(f[m - 1], FilesOf(s)[m])]

\* The state after a file is built from the one before, so there is one after each.
LEMMA ScanExists ==
  ASSUME NEW s, NEW n \in Nat
  PROVE  \E f : FoldedScan(f, s, n)
<1> DEFINE T == {m \in Nat : ~\E f : FoldedScan(f, s, m)}
<1> SUFFICES ASSUME T # {} PROVE FALSE
  OBVIOUS
<1>1. PICK m \in T : \A y \in T : m <= y
  BY LeastNumber
<1>2. m # 0
  <2> DEFINE f == [i \in 0 .. 0 |-> ScanStart(s)]
  <2>1. FoldedScan(f, s, 0)
    BY DEF FoldedScan
  <2> QED BY <2>1
<1>3. PICK f : FoldedScan(f, s, m - 1)
  <2>1. m - 1 \in Nat /\ m - 1 \notin T
    BY <1>1, <1>2
  <2> QED BY <2>1
<1> DEFINE g == [i \in 0 .. m |-> IF i = m THEN ScanFile(f[m - 1], FilesOf(s)[m]) ELSE f[i]]
<1>4. \A i \in 0 .. m : g[i] = IF i = 0 THEN ScanStart(s) ELSE ScanFile(g[i - 1], FilesOf(s)[i])
  <2> SUFFICES ASSUME NEW i \in 0 .. m PROVE g[i] = IF i = 0 THEN ScanStart(s) ELSE ScanFile(g[i - 1], FilesOf(s)[i])
    OBVIOUS
  <2>0. m \in Nat /\ i \in Nat
    OBVIOUS
  <2>1. CASE i = m
    <3>1. g[i - 1] = f[m - 1] /\ g[i] = ScanFile(f[m - 1], FilesOf(s)[m])
      BY <1>2, <2>0, <2>1
    <3> QED BY <1>2, <2>1, <3>1
  <2>2. CASE i # m
    <3>1. i \in 0 .. m - 1 /\ g[i] = f[i]
      BY <2>0, <2>2
    <3>2. f[i] = IF i = 0 THEN ScanStart(s) ELSE ScanFile(f[i - 1], FilesOf(s)[i])
      BY <1>3, <3>1 DEF FoldedScan
    <3>3. i # 0 => g[i - 1] = f[i - 1]
      BY <2>0, <3>1
    <3> QED BY <3>1, <3>2, <3>3
  <2> QED BY <2>1, <2>2
<1>5. FoldedScan(g, s, m)
  <2> DEFINE h == [i \in 0 .. m |-> IF i = 0 THEN ScanStart(s) ELSE ScanFile(g[i - 1], FilesOf(s)[i])]
  <2>1. DOMAIN g = 0 .. m /\ DOMAIN h = 0 .. m /\ g = [i \in 0 .. m |-> g[i]]
    OBVIOUS
  <2>2. \A i \in 0 .. m : g[i] = h[i]
    BY <1>4
  <2> HIDE DEF g
  <2>3. g = h
    BY <2>1, <2>2
  <2> QED BY <2>3 DEF FoldedScan
<1> QED BY <1>1, <1>5

LEMMA ScanSteps ==
  ASSUME NEW s, Len(FilesOf(s)) \in Nat
  PROVE  /\ Scans(s)[0] = ScanStart(s)
         /\ \A n \in 1 .. Len(FilesOf(s)) : Scans(s)[n] = ScanFile(Scans(s)[n - 1], FilesOf(s)[n])
<1>1. \E f : FoldedScan(f, s, Len(FilesOf(s)))
  BY ScanExists
<1>2. Scans(s) = CHOOSE f : FoldedScan(f, s, Len(FilesOf(s)))
  BY DEF Scans, FoldedScan
<1>3. FoldedScan(Scans(s), s, Len(FilesOf(s)))
  BY <1>1, <1>2
<1> QED BY <1>3 DEF FoldedScan

ScanState == [bytes : Nat, findings : Seq(Severities), hitLimit : BOOLEAN, full : BOOLEAN,
              manifest : {"no", "valid", "invalid"}, partial : BOOLEAN]

\* Everything in the file is among the findings.
ReadToTheEnd(scan, f) ==
  /\ f.kind = "text" /\ ~f.nul /\ f.size <= MaxFileBytes
  /\ \A j \in DOMAIN f.risks : \E i \in DOMAIN scan.findings : scan.findings[i] = f.risks[j]

\* What the scan knows after the first n files.
ScannedTo(scan, files, n) ==
  /\ scan \in ScanState
  /\ scan.full => scan.partial
  /\ ~scan.partial /\ ~scan.hitLimit => \A i \in 1 .. n : ReadToTheEnd(scan, files[i])
  /\ scan.manifest = "valid" => \E i \in 1 .. n : files[i].manifest = "valid"

\* What a concatenation holds.
LEMMA Concatenated ==
  ASSUME NEW S, NEW p \in Seq(S), NEW q \in Seq(S)
  PROVE  /\ p \o q \in Seq(S) /\ Len(p \o q) \in Nat
         /\ \A j \in DOMAIN p : j \in DOMAIN (p \o q) /\ (p \o q)[j] = p[j]
         /\ \A j \in DOMAIN q : \E i \in DOMAIN (p \o q) : (p \o q)[i] = q[j]
<1>1. /\ p \o q \in Seq(S) /\ Len(p \o q) = Len(p) + Len(q)
      /\ \A i \in 1 .. Len(p) + Len(q) : (p \o q)[i] = IF i <= Len(p) THEN p[i] ELSE q[i - Len(p)]
  BY ConcatProperties
<1>2. /\ Len(p) \in Nat /\ Len(q) \in Nat /\ DOMAIN p = 1 .. Len(p) /\ DOMAIN q = 1 .. Len(q)
      /\ DOMAIN (p \o q) = 1 .. Len(p \o q)
  BY <1>1, LenProperties
<1> DEFINE m == Len(p)
           r == p \o q
<1>3. m \in Nat /\ r \in Seq(S) /\ Len(r) = m + Len(q)
      /\ \A i \in 1 .. m + Len(q) : r[i] = IF i <= m THEN p[i] ELSE q[i - m]
  BY <1>1, <1>2
<1>4. DOMAIN p = 1 .. m /\ DOMAIN r = 1 .. m + Len(q)
  BY <1>1, <1>2
<1> HIDE DEF m, r
<1>5. ASSUME NEW j \in DOMAIN p PROVE j \in DOMAIN r /\ r[j] = p[j]
  <2>1. j \in 1 .. m + Len(q) /\ j <= m
    BY <1>2, <1>3, <1>4
  <2> QED BY <1>3, <1>4, <2>1
<1>6. ASSUME NEW j \in DOMAIN q PROVE \E i \in DOMAIN r : r[i] = q[j]
  <2>1. m + j \in 1 .. m + Len(q) /\ ~(m + j <= m) /\ (m + j) - m = j
    BY <1>2, <1>3
  <2> QED BY <1>3, <1>4, <2>1
<1>7. Len(r) \in Nat
  BY <1>2, <1>3
<1> QED BY <1>3, <1>5, <1>6, <1>7 DEF r

\* The findings that fit.
LEMMA Bounded ==
  ASSUME NEW S, NEW s \in Seq(S), NEW n \in Nat, Len(s) > n
  PROVE  SubSeq(s, 1, n) \in Seq(S)
<1>1. Len(s) \in Nat
  BY LenProperties
<1>2. \A i \in 1 .. n : s[i] \in S
  <2> SUFFICES ASSUME NEW i \in 1 .. n PROVE s[i] \in S
    OBVIOUS
  <2>1. i \in 1 .. Len(s)
    BY <1>1
  <2> QED BY <2>1, ElementOfSeq
<1> QED BY <1>2, SubSeqProperties

\* One more file.
LEMMA OneMoreFile ==
  ASSUME NEW files \in Seq(SnapshotFile), NEW n \in 1 .. Len(files), NEW scan, ScannedTo(scan, files, n - 1)
  PROVE  ScannedTo(ScanFile(scan, files[n]), files, n) /\ (scan.partial => ScanFile(scan, files[n]).partial)
<1> DEFINE f == files[n]
<1>0. f \in SnapshotFile /\ scan \in ScanState /\ MaxFindings \in Nat /\ MaxFileBytes \in Nat /\ n \in Nat /\ n - 1 \in Nat
  BY IntakeAssumption DEF ScannedTo
<1>00. \A i \in 1 .. n : i = n \/ i \in 1 .. n - 1
  BY <1>0
<1>1. CASE scan.hitLimit \/ scan.full
  <2>1. ScanFile(scan, f) = scan
    BY <1>1 DEF ScanFile
  <2>2. scan.partial \/ scan.hitLimit
    BY <1>1 DEF ScannedTo
  <2>3. scan.manifest = "valid" => \E i \in 1 .. n : files[i].manifest = "valid"
    BY <1>0 DEF ScannedTo
  <2> QED BY <2>1, <2>2, <2>3 DEF ScannedTo
<1>2. ASSUME ~scan.hitLimit, ~scan.full,
             ScanFile(scan, f) = [scan EXCEPT !.partial = TRUE] \/ ScanFile(scan, f) = [scan EXCEPT !.partial = TRUE, !.full = TRUE]
      PROVE  ScannedTo(ScanFile(scan, f), files, n) /\ ScanFile(scan, f).partial
  <2> DEFINE next == ScanFile(scan, f)
  <2> HIDE DEF next
  <2>1. next \in ScanState /\ next.partial /\ next.manifest = scan.manifest
    BY <1>0, <1>2 DEF ScanState, next
  <2>2. scan.manifest = "valid" => \E i \in 1 .. n : files[i].manifest = "valid"
    BY <1>0 DEF ScannedTo
  <2>3. ScannedTo(next, files, n)
    BY <2>1, <2>2 DEF ScannedTo
  <2> QED BY <2>1, <2>3 DEF next
<1>3. CASE ~scan.hitLimit /\ ~scan.full /\ (Opaque(f) \/ f.size > MaxFileBytes)
  <2>1. ScanFile(scan, f) = [scan EXCEPT !.partial = TRUE]
    BY <1>3 DEF ScanFile
  <2> QED BY <1>2, <1>3, <2>1
<1>4. CASE ~scan.hitLimit /\ ~scan.full /\ ~Opaque(f) /\ ~(f.size > MaxFileBytes) /\ scan.bytes + f.size > MaxTotalBytes
  <2>1. ScanFile(scan, f) = [scan EXCEPT !.partial = TRUE, !.full = TRUE]
    <3>1. ~(scan.bytes + f.size <= MaxTotalBytes)
      BY <1>0, <1>4, IntakeAssumption DEF ScanState, SnapshotFile
    <3> QED BY <1>4, <3>1 DEF ScanFile
  <2> QED BY <1>2, <1>4, <2>1
<1>5. CASE ~scan.hitLimit /\ ~scan.full /\ ~Opaque(f) /\ ~(f.size > MaxFileBytes) /\ ~(scan.bytes + f.size > MaxTotalBytes) /\ f.nul
  <2>1. scan.bytes + f.size <= MaxTotalBytes
    BY <1>0, <1>5, IntakeAssumption DEF ScanState, SnapshotFile
  <2>2. ScanFile(scan, f) = [scan EXCEPT !.partial = TRUE]
    BY <1>5, <2>1 DEF ScanFile
  <2> QED BY <1>2, <1>5, <2>2
<1>6. CASE ~scan.hitLimit /\ ~scan.full /\ ~Opaque(f) /\ ~(f.size > MaxFileBytes) /\ ~(scan.bytes + f.size > MaxTotalBytes) /\ ~f.nul
  <2> DEFINE sized == [scan EXCEPT !.bytes = scan.bytes + f.size]
             read == ManifestOf(sized, f)
             found == read.findings \o f.risks
             next == AddFindings(read, f)
  <2>1. ScanFile(scan, f) = next
    BY <1>6 DEF ScanFile
  <2>2. sized \in ScanState /\ sized.findings = scan.findings /\ sized.partial = scan.partial /\ sized.full = scan.full
        /\ sized.hitLimit = scan.hitLimit /\ sized.manifest = scan.manifest
    <3>1. scan.bytes + f.size \in Nat
      BY <1>0 DEF ScanState, SnapshotFile
    <3> HIDE DEF f
    <3> QED BY <1>0, <3>1 DEF ScanState
  <2> HIDE DEF sized
  <2>3. /\ read \in ScanState /\ read.findings = scan.findings /\ read.partial = scan.partial /\ read.full = scan.full
        /\ read.hitLimit = scan.hitLimit /\ read.manifest = IF f.manifest = "no" THEN scan.manifest ELSE f.manifest
    BY <1>0, <2>2 DEF ScanState, SnapshotFile, ManifestOf
  <2> HIDE DEF read
  <2>4. /\ found \in Seq(Severities) /\ Len(found) \in Nat
        /\ \A j \in DOMAIN scan.findings : j \in DOMAIN found /\ found[j] = scan.findings[j]
        /\ \A j \in DOMAIN f.risks : \E i \in DOMAIN found : found[i] = f.risks[j]
    <3>1. scan.findings \in Seq(Severities) /\ f.risks \in Seq(Severities) /\ found = scan.findings \o f.risks
      BY <1>0, <2>3 DEF ScanState, SnapshotFile
    <3> DEFINE before == scan.findings
               more == f.risks
    <3> HIDE DEF before, more
    <3>2. before \in Seq(Severities) /\ more \in Seq(Severities) /\ found = before \o more
      BY <3>1 DEF before, more
    <3> HIDE DEF found
    <3>3. /\ found \in Seq(Severities) /\ Len(found) \in Nat
          /\ \A j \in DOMAIN before : j \in DOMAIN found /\ found[j] = before[j]
          /\ \A j \in DOMAIN more : \E i \in DOMAIN found : found[i] = more[j]
      BY <3>2, Concatenated
    <3> QED BY <3>3 DEF before, more
  <2>5. next = [read EXCEPT !.findings = IF Len(found) > MaxFindings THEN SubSeq(found, 1, MaxFindings) ELSE found,
                            !.hitLimit = Len(found) > MaxFindings]
    BY DEF AddFindings
  <2> HIDE DEF found, next
  <2>6. Len(found) > MaxFindings => SubSeq(found, 1, MaxFindings) \in Seq(Severities)
    BY <1>0, <2>4, Bounded
  <2>7. /\ next \in ScanState /\ next.partial = scan.partial /\ next.full = scan.full /\ next.hitLimit = (Len(found) > MaxFindings)
        /\ next.manifest = read.manifest /\ (~next.hitLimit => next.findings = found)
    <3> DEFINE kept == IF Len(found) > MaxFindings THEN SubSeq(found, 1, MaxFindings) ELSE found
               over == Len(found) > MaxFindings
    <3>1. kept \in Seq(Severities) /\ over \in BOOLEAN /\ (~over => kept = found)
      BY <2>4, <2>6
    <3>2. next = [read EXCEPT !.findings = kept, !.hitLimit = over]
      BY <2>5
    <3> HIDE DEF kept
    <3>3. next.hitLimit = (Len(found) > MaxFindings)
      BY <2>3, <3>2 DEF ScanState
    <3> HIDE DEF over
    <3> QED BY <2>3, <3>1, <3>2, <3>3 DEF ScanState
  <2>8. next.manifest = "valid" => \E i \in 1 .. n : files[i].manifest = "valid"
    <3>1. CASE f.manifest = "no"
      BY <1>0, <2>3, <2>7, <3>1 DEF ScannedTo
    <3>2. CASE f.manifest # "no"
      BY <1>0, <2>3, <2>7, <3>2
    <3> QED BY <3>1, <3>2
  <2>9. ASSUME ~next.partial, ~next.hitLimit, NEW i \in 1 .. n PROVE ReadToTheEnd(next, files[i])
    <3>1. next.findings = found /\ ~scan.partial
      BY <2>7, <2>9
    <3>2. CASE i = n
      <4>1. f.kind = "text" /\ f.size <= MaxFileBytes
        BY <1>0, <1>6 DEF Opaque, SnapshotFile, FileKinds
      <4> QED BY <1>6, <2>4, <3>1, <3>2, <4>1 DEF ReadToTheEnd
    <3>3. CASE i # n
      <4>1. ReadToTheEnd(scan, files[i])
        BY <1>00, <1>6, <3>1, <3>3 DEF ScannedTo
      <4> QED BY <2>4, <3>1, <4>1 DEF ReadToTheEnd
    <3> QED BY <3>2, <3>3
  <2>10. ScannedTo(next, files, n)
    BY <2>7, <2>8, <2>9 DEF ScannedTo
  <2> QED BY <2>1, <2>7, <2>10
<1>7. scan.partial => ScanFile(scan, f).partial
  BY <1>1, <1>2, <1>3, <1>4, <1>5, <1>6 DEF ScanFile
<1> QED BY <1>1, <1>2, <1>3, <1>4, <1>5, <1>6, <1>7

\* What the intake accepts was read to its end.
LEMMA AcceptedIsRead ==
  ASSUME NEW s \in Snapshots, Decision(Scan(s)) = "ACCEPT"
  PROVE  /\ s.complete /\ s.licensed
         /\ \E i \in DOMAIN s.files : s.files[i].manifest = "valid"
         /\ \A i \in DOMAIN s.files :
              LET file == s.files[i] IN
              /\ file.kind = "text" /\ ~file.nul /\ file.size <= MaxFileBytes
              /\ \A j \in DOMAIN file.risks : file.risks[j] \notin {"HIGH", "CRITICAL"}
<1> DEFINE files == FilesOf(s)
           N == Len(files)
           Good(m) == ScannedTo(Scans(s)[m], files, m) /\ (ScanStart(s).partial => Scans(s)[m].partial)
<1>1. /\ s.files \in Seq(SnapshotFile) /\ s.complete \in BOOLEAN /\ s.licensed \in BOOLEAN /\ MaxFiles \in Nat
      /\ <<>> \in Seq(SnapshotFile)
  BY IntakeAssumption, EmptySeq
<1>2. files \in Seq(SnapshotFile) /\ N \in Nat
  <2>1. files \in Seq(SnapshotFile)
    BY <1>1 DEF FilesOf
  <2> QED BY <2>1, LenProperties
<1>3. Scans(s)[0] = ScanStart(s) /\ \A n \in 1 .. N : Scans(s)[n] = ScanFile(Scans(s)[n - 1], files[n])
  BY <1>2, ScanSteps
<1>4. ScanStart(s).partial = (~s.complete \/ ~s.licensed \/ Len(s.files) > MaxFiles)
  BY DEF ScanStart
<1>5. Good(0)
  <2>1. ScanStart(s) \in ScanState /\ ScanStart(s).manifest = "no" /\ ScanStart(s).full = FALSE
    <3>1. Len(s.files) \in Nat /\ <<>> \in Seq(Severities)
      BY <1>1, LenProperties, EmptySeq
    <3>2. (~s.complete \/ ~s.licensed \/ Len(s.files) > MaxFiles) \in BOOLEAN
      OBVIOUS
    <3> QED BY <3>1, <3>2 DEF ScanStart, ScanState
  <2>2. 1 .. 0 = {}
    OBVIOUS
  <2> QED BY <1>3, <2>1, <2>2 DEF ScannedTo
<1> HIDE DEF files
<1>6. \A m \in 0 .. N : Good(m)
  <2> DEFINE T == {m \in 0 .. N : ~Good(m)}
  <2> HIDE DEF Good
  <2> SUFFICES ASSUME T # {} PROVE FALSE
    OBVIOUS
  <2>1. PICK m \in T : \A y \in T : m <= y
    <3>1. T \subseteq Nat
      BY <1>2
    <3> HIDE DEF T
    <3> QED BY <3>1, LeastNumber
  <2>2. m # 0
    BY <1>5, <2>1
  <2>3. m \in 1 .. N /\ m - 1 \in 0 .. N /\ m - 1 \notin T
    BY <1>2, <2>1, <2>2
  <2>4. Good(m - 1)
    BY <2>3
  <2>5. Good(m)
    BY <1>2, <1>3, <2>3, <2>4, OneMoreFile DEF Good
  <2> QED BY <2>1, <2>5
<1> DEFINE scan == Scan(s)
<1>7. scan = Scans(s)[N] /\ N \in 0 .. N
  BY <1>2 DEF Scan, files
<1>8. ScannedTo(scan, files, N) /\ (ScanStart(s).partial => scan.partial)
  BY <1>6, <1>7
<1> HIDE DEF scan
<1>9. Decision(scan) = "ACCEPT"
  BY DEF scan
<1> DEFINE severities == {scan.findings[i] : i \in DOMAIN scan.findings}
<1>10. Complete(scan) /\ "HIGH" \notin severities /\ "CRITICAL" \notin severities
  <2>1. "CRITICAL" \notin severities
    <3>1. "CRITICAL" \in severities => Decision(scan) = "REJECT"
      BY DEF Decision
    <3> QED BY <1>9, <3>1
  <2>2. ~(~Complete(scan) \/ "HIGH" \in severities)
    <3>1. (~Complete(scan) \/ "HIGH" \in severities) => Decision(scan) = "QUARANTINE"
      BY <2>1 DEF Decision
    <3> QED BY <1>9, <3>1
  <2> QED BY <2>1, <2>2
<1>11. ~scan.partial /\ ~scan.hitLimit /\ scan.manifest = "valid"
  BY <1>10 DEF Complete
<1>12. s.complete /\ s.licensed /\ files = s.files
  <2>1. ~(~s.complete \/ ~s.licensed \/ Len(s.files) > MaxFiles)
    BY <1>4, <1>8, <1>11
  <2> QED BY <2>1 DEF files, FilesOf
<1>13. DOMAIN s.files = 1 .. N
  BY <1>2, <1>12, LenProperties
<1>14. \E i \in DOMAIN s.files : s.files[i].manifest = "valid"
  BY <1>8, <1>11, <1>12, <1>13 DEF ScannedTo
<1>15. ASSUME NEW i \in DOMAIN s.files
       PROVE  /\ s.files[i].kind = "text" /\ ~s.files[i].nul /\ s.files[i].size <= MaxFileBytes
              /\ \A j \in DOMAIN s.files[i].risks : s.files[i].risks[j] \notin {"HIGH", "CRITICAL"}
  <2>1. ReadToTheEnd(scan, s.files[i])
    BY <1>8, <1>11, <1>12, <1>13, <1>15 DEF ScannedTo
  <2> QED BY <1>10, <2>1 DEF ReadToTheEnd
<1> QED BY <1>12, <1>14, <1>15

-----------------------------------------------------------------------------
\* The steps of the registry's callers.

\* Registered content stays, so the candidates and what the intake answered stand.
LEMMA CandidatesStay ==
  ASSUME CandidatesInv, RegistryInv, SkillsKept, UNCHANGED <<synthesizer, candidates>>
  PROVE  CandidatesInv'
  BY DEF CandidatesInv, CandidatesRegistered, SkillsKept, Known

LEMMA InspectedStays ==
  ASSUME InspectedInv, SkillsKept
  PROVE  \A r \in inspected : Known(r.skill)' /\ skills'[r.skill].package = r.package
  BY DEF InspectedInv, InspectedRegistered, SkillsKept, Known

RegistryPart == RegistryInv /\ CandidatesInv /\ InspectedInv

LEMMA SkillStepKeeps == RegistryPart /\ SkillStep => RegistryPart' /\ EventsKept
<1> SUFFICES ASSUME RegistryPart, SkillStep PROVE RegistryPart' /\ EventsKept
  OBVIOUS
<1>1. RegistryInv /\ CandidatesInv /\ InspectedInv /\ UNCHANGED <<intake, inspected, curation, reports>>
  BY DEF SkillStep, RegistryPart
<1>2. ASSUME RegistryInv', SkillsKept, EventsKept, UNCHANGED <<synthesizer, candidates>>
      PROVE  RegistryPart' /\ EventsKept
  <2>1. CandidatesInv'
    BY <1>1, <1>2, CandidatesStay
  <2>2. InspectedRegistered'
    BY <1>1, <1>2, InspectedStays DEF InspectedRegistered
  <2> QED BY <1>1, <1>2, <2>1, <2>2 DEF RegistryPart, InspectedInv, AcceptedWasScanned
<1>3. ASSUME NEW k \in SkillKeys, NEW p \in Packages, RegisterTrusted(k, p) PROVE RegistryPart' /\ EventsKept
  <2>1. UNCHANGED <<synthesizer, candidates>>
    BY <1>3 DEF RegisterTrusted
  <2> QED BY <1>1, <1>2, <1>3, <2>1, RegisterKeeps
<1>9. ASSUME NEW k \in SkillKeys, NEW p \in Packages, RegisterCandidate(k, p) PROVE RegistryPart' /\ EventsKept
  <2>1. UNCHANGED <<synthesizer, candidates>>
    BY <1>9 DEF RegisterCandidate
  <2> QED BY <1>1, <1>2, <1>9, <2>1, CandidateKeeps
<1>4. ASSUME NEW k \in SkillKeys, NEW e \in Evidence, Verify(k, e) PROVE RegistryPart' /\ EventsKept
  <2>1. UNCHANGED <<synthesizer, candidates>> /\ e.at \in Nat
    BY <1>4, SkillAssumption DEF Verify, Evidence
  <2> QED BY <1>1, <1>2, <1>4, <2>1, VerifyKeeps
<1>5. ASSUME NEW k \in SkillKeys, NEW t \in SkillTimes, Activate(k, t) PROVE RegistryPart' /\ EventsKept
  <2>1. UNCHANGED <<synthesizer, candidates>>
    BY <1>5 DEF Activate
  <2> QED BY <1>1, <1>2, <1>5, <2>1, ActivateKeeps
<1>6. ASSUME NEW k \in SkillKeys, NEW t \in SkillTimes, Revoke(k, t) PROVE RegistryPart' /\ EventsKept
  <2>1. UNCHANGED <<synthesizer, candidates>>
    BY <1>6 DEF Revoke
  <2> QED BY <1>1, <1>2, <1>6, <2>1, RevokeKeeps
<1>7. ASSUME NEW c \in Synthesizers, NEW k \in SkillKeys, NEW p \in Packages, NEW key \in {1, 2}, Synthesize(c, k, p, key)
      PROVE  RegistryPart' /\ EventsKept
  <2> DEFINE new == [pc |-> "attesting", skill |-> k, package |-> p, key |-> key]
  <2>1. new \in Attesting /\ new.pc = "attesting" /\ new.package = p
    BY DEF Attesting
  <2>2. p.trust = "learned" /\ synthesizer' = [synthesizer EXCEPT ![c] = new] /\ UNCHANGED <<skills, lifecycle, candidates>>
    BY <1>7 DEF Synthesize
  <2> HIDE DEF new
  <2>3. RegistryInv' /\ SkillsKept /\ EventsKept
    BY <1>1, <2>2, RegistryStays
  <2>4. synthesizer' \in [Synthesizers -> {Idling} \cup Attesting]
        /\ \A d \in Synthesizers : synthesizer'[d].pc = "attesting" => synthesizer'[d].package.trust = "learned"
    BY <1>1, <2>1, <2>2 DEF CandidatesInv
  <2>5. CandidatesInv'
    BY <1>1, <2>2, <2>4 DEF CandidatesInv, CandidatesRegistered, Known
  <2>6. InspectedInv'
    BY <1>1, <2>2 DEF InspectedInv, InspectedRegistered, AcceptedWasScanned, Known
  <2> QED BY <2>3, <2>5, <2>6 DEF RegistryPart
<1>8. ASSUME NEW c \in Synthesizers, NEW a \in Attestations, SynthesisAttested(c, a) PROVE RegistryPart' /\ EventsKept
  <2> DEFINE print == Fingerprint(c, a)
             used == \E f \in candidates : f.key = print.key
             same == print.skill \in SkillKeys /\ Known(print.skill) /\ skills[print.skill].state = "CANDIDATE"
                       /\ skills[print.skill].package = print.package
             stored == Attests(c, a) /\ ~used /\ (~Known(print.skill) \/ same)
  <2>1. /\ synthesizer[c].pc = "attesting" /\ synthesizer' = [synthesizer EXCEPT ![c] = Idling]
        /\ IF stored /\ ~same THEN Insert(print.skill, print.package, "CANDIDATE") ELSE UNCHANGED skills
        /\ candidates' = IF stored THEN candidates \cup {print} ELSE candidates
        /\ UNCHANGED lifecycle
    BY <1>8 DEF SynthesisAttested, Idling
  <2>2. synthesizer[c] \in Attesting /\ synthesizer[c].package.trust = "learned"
    BY <1>1, <2>1 DEF CandidatesInv, Idling
  <2>3. print.skill \in SkillKeys /\ print.package \in SkillPackage /\ print.package.trust = "learned"
    BY <2>2, SkillAssumption DEF Fingerprint, Attesting
  <2>4. synthesizer' \in [Synthesizers -> {Idling} \cup Attesting]
        /\ \A d \in Synthesizers : synthesizer'[d].pc = "attesting" => synthesizer'[d].package.trust = "learned"
    <3>1. Idling.pc # "attesting"
      BY DEF Idling
    <3> QED BY <1>1, <2>1, <3>1 DEF CandidatesInv
  <2> HIDE DEF print
  <2>5. /\ RegistryInv' /\ SkillsKept /\ EventsKept
        /\ stored => skills'[print.skill] # NoSkill /\ skills'[print.skill].package = print.package
    <3>1. CASE stored /\ ~same
      <4>1. Insert(print.skill, print.package, "CANDIDATE")
        BY <2>1, <3>1
      <4>2. /\ RegistryInv' /\ SkillsKept /\ EventsKept /\ (\A j \in SkillKeys : j # print.skill => skills'[j] = skills[j])
            /\ skills'[print.skill].package = print.package /\ skills'[print.skill] # NoSkill
        BY <1>1, <2>1, <2>3, <4>1, InsertKeeps
      <4> QED BY <2>3, <4>2 DEF Known
    <3>2. CASE ~(stored /\ ~same)
      <4>1. UNCHANGED <<skills, lifecycle>>
        BY <2>1, <3>2
      <4>2. stored => Known(print.skill) /\ skills[print.skill].package = print.package
        BY <3>2
      <4> QED BY <1>1, <4>1, <4>2, RegistryStays DEF Known
    <3> QED BY <3>1, <3>2
  <2>6. CandidatesRegistered' /\ \A f \in candidates' : f.skill \in SkillKeys
    <3>1. ASSUME NEW f \in candidates PROVE f.skill \in SkillKeys /\ Known(f.skill)' /\ skills'[f.skill].package = f.package
      BY <1>1, <2>5 DEF CandidatesInv, CandidatesRegistered, SkillsKept, Known
    <3>2. ASSUME NEW f \in candidates' PROVE f.skill \in SkillKeys /\ Known(f.skill)' /\ skills'[f.skill].package = f.package
      <4>1. CASE f \in candidates
        BY <3>1, <4>1
      <4>2. CASE stored /\ f = print
        BY <2>3, <2>5, <4>2 DEF Known
      <4> QED BY <2>1, <4>1, <4>2
    <3>3. ASSUME NEW f \in candidates', NEW g \in candidates', f.key = g.key PROVE f = g
      <4>1. f \in candidates /\ g \in candidates => f = g
        BY <1>1, <3>3 DEF CandidatesInv, CandidatesRegistered
      <4>2. stored => \A h \in candidates : h.key # print.key
        OBVIOUS
      <4> QED BY <2>1, <3>3, <4>1, <4>2
    <3> QED BY <3>2, <3>3 DEF CandidatesRegistered
  <2>7. CandidatesInv'
    BY <2>4, <2>6 DEF CandidatesInv
  <2>8. InspectedRegistered'
    BY <1>1, <2>5, InspectedStays DEF InspectedRegistered
  <2> QED BY <1>1, <2>5, <2>7, <2>8 DEF RegistryPart, InspectedInv, AcceptedWasScanned
<1> QED BY <1>3, <1>4, <1>5, <1>6, <1>7, <1>8, <1>9 DEF SkillStep, SkillNext

LEMMA ResolvedKeeps ==
  ASSUME RegistryPart, NEW i \in Intakes, NEW s \in Snapshots, SnapshotResolved(i, s)
  PROVE  RegistryPart' /\ EventsKept
<1> DEFINE k == intake[i].skill
           package == CommunityPackage(intake[i].at)
           report == [skill |-> k, package |-> package, snapshot |-> s]
<1>1. /\ intake[i].pc = "resolving" /\ intake' = [intake EXCEPT ![i] = Idling]
      /\ UNCHANGED <<lifecycle, synthesizer, candidates, curation>>
      /\ \/ /\ Decision(Scan(s)) = "ACCEPT" /\ ~Known(k) /\ Insert(k, package, "CANDIDATE")
            /\ inspected' = inspected \cup {report}
         \/ /\ Decision(Scan(s)) = "ACCEPT" /\ Registered(k, package, "CANDIDATE")
            /\ inspected' = inspected \cup {report} /\ UNCHANGED skills
         \/ UNCHANGED <<skills, inspected>>
  BY DEF SnapshotResolved, Idling
<1>2. RegistryInv /\ CandidatesInv /\ InspectedInv
  BY DEF RegistryPart
<1>3. intake[i] \in Resolving
  BY <1>1, <1>2 DEF InspectedInv, Idling
<1>4. k \in SkillKeys /\ package \in SkillPackage
  BY <1>3, SkillAssumption DEF Resolving, CommunityPackage, SkillPackage, TrustClasses
<1>5. intake' \in [Intakes -> {Idling} \cup Resolving]
  BY <1>1, <1>2 DEF InspectedInv
<1>6. report.skill = k /\ report.package = package /\ report.snapshot = s
  OBVIOUS
<1> HIDE DEF k, package, report
<1>7. ASSUME Decision(Scan(s)) = "ACCEPT", inspected' = inspected \cup {report},
             Insert(k, package, "CANDIDATE") \/ (Registered(k, package, "CANDIDATE") /\ UNCHANGED skills)
      PROVE  RegistryPart' /\ EventsKept
  <2>1. RegistryInv' /\ SkillsKept /\ EventsKept /\ skills'[k] # NoSkill /\ skills'[k].package = package
    <3>1. CASE Insert(k, package, "CANDIDATE")
      BY <1>1, <1>2, <1>4, <3>1, InsertKeeps DEF Known
    <3>2. CASE Registered(k, package, "CANDIDATE") /\ UNCHANGED skills
      BY <1>1, <1>2, <3>2, RegistryStays DEF Registered, Known
    <3> QED BY <1>7, <3>1, <3>2
  <2>2. CandidatesInv'
    BY <1>1, <1>2, <2>1, CandidatesStay
  <2>3. InspectedRegistered' /\ \A r \in inspected' : r.skill \in SkillKeys
    <3>1. ASSUME NEW r \in inspected' PROVE r.skill \in SkillKeys /\ Known(r.skill)' /\ skills'[r.skill].package = r.package
      <4>1. CASE r \in inspected
        BY <1>2, <2>1, <4>1, InspectedStays DEF InspectedInv
      <4>2. CASE r = report
        BY <1>4, <1>6, <2>1, <4>2 DEF Known
      <4> QED BY <1>7, <4>1, <4>2
    <3> QED BY <3>1 DEF InspectedRegistered
  <2>4. AcceptedWasScanned'
    <3> SUFFICES ASSUME NEW r \in inspected'
                 PROVE  /\ r.snapshot.complete /\ r.snapshot.licensed
                        /\ \E m \in DOMAIN r.snapshot.files : r.snapshot.files[m].manifest = "valid"
                        /\ \A m \in DOMAIN r.snapshot.files :
                             LET file == r.snapshot.files[m] IN
                             /\ file.kind = "text" /\ ~file.nul /\ file.size <= MaxFileBytes
                             /\ \A j \in DOMAIN file.risks : file.risks[j] \notin {"HIGH", "CRITICAL"}
      BY DEF AcceptedWasScanned
    <3>1. CASE r \in inspected
      BY <1>2, <3>1 DEF InspectedInv, AcceptedWasScanned
    <3>2. CASE r = report
      <4>1. r.snapshot = s
        BY <1>6, <3>2
      <4> QED BY <1>7, <4>1, AcceptedIsRead
    <3> QED BY <1>7, <3>1, <3>2
  <2> QED BY <1>1, <1>2, <1>5, <2>1, <2>2, <2>3, <2>4 DEF RegistryPart, InspectedInv
<1>8. CASE UNCHANGED <<skills, inspected>>
  <2>1. RegistryInv' /\ SkillsKept /\ EventsKept
    BY <1>1, <1>2, <1>8, RegistryStays
  <2>2. CandidatesInv'
    BY <1>1, <1>2, <2>1, CandidatesStay
  <2> QED BY <1>1, <1>2, <1>5, <1>8, <2>1, <2>2 DEF RegistryPart, InspectedInv, InspectedRegistered, AcceptedWasScanned, Known
<1> QED BY <1>1, <1>7, <1>8

LEMMA StartIntakeKeeps ==
  ASSUME RegistryPart, NEW i \in Intakes, NEW k \in SkillKeys, NEW t \in SkillTimes, StartIntake(i, k, t)
  PROVE  RegistryPart' /\ EventsKept
<1> DEFINE new == [pc |-> "resolving", skill |-> k, at |-> t]
<1>1. new \in Resolving
  BY DEF Resolving
<1>2. intake' = [intake EXCEPT ![i] = new] /\ UNCHANGED <<skills, lifecycle, synthesizer, candidates, inspected, curation>>
  BY DEF StartIntake, skillVars
<1> HIDE DEF new
<1>3. RegistryInv' /\ SkillsKept /\ EventsKept /\ CandidatesInv'
  BY <1>2, RegistryStays, CandidatesStay DEF RegistryPart
<1> QED BY <1>1, <1>2, <1>3 DEF RegistryPart, InspectedInv, InspectedRegistered, AcceptedWasScanned, Known

LEMMA StartCurationKeeps ==
  ASSUME RegistryPart, NEW c \in Curators, NEW k \in SkillKeys, NEW classes, NEW t, StartCuration(c, k, classes, t)
  PROVE  RegistryPart' /\ EventsKept
<1> DEFINE new == [pc |-> "evaluating", skill |-> k, package |-> skills[k].package, classes |-> classes, at |-> t]
<1>1. new.skill = k
  OBVIOUS
<1>2. curation' = [curation EXCEPT ![c] = new] /\ UNCHANGED <<skills, lifecycle, synthesizer, candidates, intake, inspected>>
  BY DEF StartCuration, skillVars
<1> HIDE DEF new
<1>3. RegistryInv' /\ SkillsKept /\ EventsKept /\ CandidatesInv'
  BY <1>2, RegistryStays, CandidatesStay DEF RegistryPart
<1>4. DOMAIN curation' = Curators /\ \A d \in Curators : curation'[d].pc = "evaluating" => curation'[d].skill \in SkillKeys
  BY <1>1, <1>2 DEF RegistryPart, InspectedInv
<1> QED BY <1>2, <1>3, <1>4 DEF RegistryPart, InspectedInv, InspectedRegistered, AcceptedWasScanned, Known

LEMMA EvaluatedKeeps ==
  ASSUME RegistryPart, NEW c \in Curators, NEW e \in Evaluations, Evaluated(c, e)
  PROVE  RegistryPart' /\ EventsKept
<1>1. RegistryInv /\ CandidatesInv /\ InspectedInv /\ UNCHANGED <<intake, inspected>>
      /\ curation[c].pc = "evaluating" /\ curation' = [curation EXCEPT ![c] = Idling]
  BY DEF RegistryPart, Evaluated, Idling
<1>10. DOMAIN curation' = Curators /\ \A d \in Curators : curation'[d].pc = "evaluating" => curation'[d].skill \in SkillKeys
  BY <1>1 DEF InspectedInv, Idling
<1>2. ASSUME RegistryInv', SkillsKept, EventsKept, UNCHANGED <<synthesizer, candidates>>,
             \A j \in SkillKeys : Known(j)' => Known(j)
      PROVE  RegistryPart' /\ EventsKept
  <2>1. CandidatesInv'
    BY <1>1, <1>2, CandidatesStay
  <2>2. InspectedRegistered'
    BY <1>1, <1>2, InspectedStays DEF InspectedRegistered
  <2> QED BY <1>1, <1>2, <1>10, <2>1, <2>2 DEF RegistryPart, InspectedInv, AcceptedWasScanned
<1>3. CASE UNCHANGED skillVars
  BY <1>1, <1>2, <1>3, RegistryStays DEF skillVars, Known
<1>4. CASE ~UNCHANGED skillVars
  <2> DEFINE r == curation[c]
             evidence == [package |-> r.package, status |-> "PASS", producer |-> e.producer, refs |-> e.refs, at |-> e.at]
  <2>1. Verify(r.skill, evidence) /\ r.skill \in SkillKeys
    BY <1>1, <1>4 DEF Evaluated, InspectedInv
  <2>2. evidence.at \in Nat
    BY IntakeAssumption
  <2> HIDE DEF r, evidence
  <2>3. UNCHANGED <<synthesizer, candidates>>
    BY <2>1 DEF Verify
  <2> QED BY <1>1, <1>2, <2>1, <2>2, <2>3, VerifyKeeps
<1> QED BY <1>3, <1>4

LEMMA IntakeNextKeeps == RegistryPart /\ IntakeNext => RegistryPart' /\ EventsKept
  BY SkillStepKeeps, StartIntakeKeeps, ResolvedKeeps, StartCurationKeeps, EvaluatedKeeps DEF IntakeNext

LEMMA RegistryPartStays == RegistryPart /\ UNCHANGED intakeVars => RegistryPart' /\ EventsKept
  BY DEF RegistryPart, RegistryInv, CandidatesInv, InspectedInv, EventsKept, OneActive, EvidenceStands, CandidatesRegistered,
         InspectedRegistered, AcceptedWasScanned, Known, Loadable, intakeVars, skillVars

-----------------------------------------------------------------------------
\* The packs (capability-packs/registry.ts, skill-os/runtime.ts).

\* A verification that was recorded stays recorded.
LEMMA LoadsStand ==
  ASSUME LoadedIsMeasured, EventsKept, UNCHANGED loaded
  PROVE  LoadedIsMeasured'
  BY DEF LoadedIsMeasured, EventsKept

LEMMA PacksStay ==
  ASSUME PacksInv, EventsKept, UNCHANGED <<packs, osPacks, pins, pinHistory, loaded>>
  PROVE  PacksInv'
<1>1. LoadedIsMeasured'
  BY LoadsStand DEF PacksInv
<1>2. \A p \in PackKeys : packs'[p] # NoPack => \A m \in packs'[p] : MemberMeasured(m)'
  BY DEF PacksInv, EventsKept, MemberMeasured, Measured
<1> QED BY <1>1, <1>2 DEF PacksInv, ContextBytes, PinTarget, ClassesOf

LEMMA PacksInvNext == RegistryPart /\ PacksInv /\ [OsNext]_osVars => RegistryPart' /\ PacksInv'
<1> SUFFICES ASSUME RegistryPart, PacksInv, [OsNext]_osVars PROVE RegistryPart' /\ PacksInv'
  OBVIOUS
<1>1. ASSUME UNCHANGED intakeVars PROVE RegistryPart' /\ EventsKept /\ UNCHANGED <<skills, lifecycle, reports>>
  BY <1>1, RegistryPartStays DEF intakeVars, skillVars
<1>2. CASE RegistryStep
  BY <1>2, IntakeNextKeeps, PacksStay DEF RegistryStep
<1>3. ASSUME NEW p \in PackKeys, NEW members \in SUBSET Members, RegisterMembers(p, members) PROVE RegistryPart' /\ PacksInv'
  <2>1. /\ packs[p] = NoPack /\ packs' = [packs EXCEPT ![p] = members] /\ \A m \in members : MemberMeasured(m)
        /\ UNCHANGED <<intakeVars, osPacks, pins, pinHistory, loaded>>
    BY <1>3 DEF RegisterMembers, Admissible, MemberMeasured
  <2>2. RegistryPart' /\ EventsKept /\ UNCHANGED <<skills, lifecycle, reports>>
    BY <1>1, <2>1
  <2>3. p \notin osPacks /\ \A q \in osPacks : packs'[q] = packs[q]
    BY <2>1 DEF PacksInv
  <2>4. DOMAIN packs' = PackKeys /\ \A q \in PackKeys : packs'[q] # NoPack => \A m \in packs'[q] : MemberMeasured(m)'
    BY <2>1, <2>2 DEF PacksInv, MemberMeasured, Measured
  <2>5. \A q \in osPacks' : packs'[q] # NoPack /\ ContextBytes(q)' <= MaxPackContext
    BY <2>1, <2>3 DEF PacksInv, ContextBytes
  <2>6. \A t \in TaskClasses : pins'[t] # NoPack => <<t, pins'[t]>> \in pinHistory' /\ PinTarget(t, pins[t])'
    BY <2>1, <2>3 DEF PacksInv, PinTarget, ClassesOf
  <2>7. LoadedIsMeasured'
    BY <2>1, <2>2, LoadsStand DEF PacksInv
  <2> QED BY <2>1, <2>2, <2>4, <2>5, <2>6, <2>7 DEF PacksInv, PinTarget
<1>4. ASSUME NEW p \in PackKeys, RegisterPack(p) PROVE RegistryPart' /\ PacksInv'
  <2>1. /\ packs[p] # NoPack /\ ContextBytes(p) \in 1 .. MaxPackContext /\ osPacks' = osPacks \cup {p}
        /\ UNCHANGED <<intakeVars, packs, pins, pinHistory, loaded>>
    BY <1>4 DEF RegisterPack, WellFormedSummary, Summary
  <2>2. RegistryPart' /\ EventsKept /\ UNCHANGED <<skills, lifecycle, reports>>
    BY <1>1, <2>1
  <2>3. \A q \in osPacks' : q \in PackKeys /\ packs'[q] # NoPack /\ ContextBytes(q)' <= MaxPackContext
    BY <2>1 DEF PacksInv, ContextBytes
  <2>4. LoadedIsMeasured'
    BY <2>1, <2>2, LoadsStand DEF PacksInv
  <2>5. \A q \in PackKeys : packs'[q] # NoPack => \A m \in packs'[q] : MemberMeasured(m)'
    BY <2>1, <2>2 DEF PacksInv, MemberMeasured, Measured
  <2>6. \A t \in TaskClasses : pins'[t] # NoPack => <<t, pins'[t]>> \in pinHistory' /\ PinTarget(t, pins[t])'
    BY <2>1 DEF PacksInv, PinTarget, ClassesOf
  <2> QED BY <2>1, <2>2, <2>3, <2>4, <2>5, <2>6 DEF PacksInv, PinTarget
<1>5. ASSUME NEW t \in TaskClasses, NEW p \in PackKeys, Pin(t, p) \/ RollbackPin(t, p) PROVE RegistryPart' /\ PacksInv'
  <2>1. /\ PinTarget(t, p) /\ pins' = [pins EXCEPT ![t] = p] /\ <<t, p>> \in pinHistory' /\ pinHistory \subseteq pinHistory'
        /\ UNCHANGED <<intakeVars, packs, osPacks, loaded>>
    BY <1>5 DEF Pin, RollbackPin
  <2>2. RegistryPart' /\ EventsKept /\ UNCHANGED <<skills, lifecycle, reports>>
    BY <1>1, <2>1
  <2>3. DOMAIN pins' = TaskClasses
        /\ \A u \in TaskClasses : pins'[u] # NoPack => <<u, pins'[u]>> \in pinHistory' /\ PinTarget(u, pins[u])'
    BY <2>1 DEF PacksInv, PinTarget, ClassesOf
  <2>4. LoadedIsMeasured'
    BY <2>1, <2>2, LoadsStand DEF PacksInv
  <2>5. \A q \in PackKeys : packs'[q] # NoPack => \A m \in packs'[q] : MemberMeasured(m)'
    BY <2>1, <2>2 DEF PacksInv, MemberMeasured, Measured
  <2> QED BY <2>1, <2>2, <2>3, <2>4, <2>5 DEF PacksInv, PinTarget, ContextBytes
<1>6. ASSUME NEW l \in Loaders, NEW t \in TaskClasses, NEW context \in 1 .. MaxPackContext, Select(l, t, context) PROVE RegistryPart' /\ PacksInv'
  <2>1. UNCHANGED intakeVars /\ UNCHANGED <<packs, osPacks, pins, pinHistory, loaded>>
    BY <1>6 DEF Select
  <2> QED BY <1>1, <2>1, PacksStay
<1>7. ASSUME NEW l \in Loaders, Load(l) PROVE RegistryPart' /\ PacksInv'
  <2> DEFINE s == selection[l]
             revoked == {e.key : e \in {f \in lifecycle : f.action = "REVOKED"}}
             load == [members |-> MembersFor(s), class |-> s.class, revoked |-> revoked]
  <2>1. /\ Matches(s) /\ MembersFor(s) # {} /\ (\A m \in MembersFor(s) : Resolves(m)) /\ loaded' = [loaded EXCEPT ![l] = load]
        /\ UNCHANGED <<intakeVars, packs, osPacks, pins, pinHistory>>
    BY <1>7 DEF Load
  <2>2. RegistryPart' /\ EventsKept /\ UNCHANGED <<skills, lifecycle, reports>>
    BY <1>1, <2>1
  <2>3. s.pack \in PackKeys /\ packs[s.pack] # NoPack
    BY <2>1 DEF Matches, PacksInv
  <2>4. ASSUME NEW m \in MembersFor(s)
        PROVE  /\ m.report.skill \notin revoked /\ s.class \in m.report.classes
               /\ \E e \in lifecycle' : /\ e.action = "VERIFIED" /\ e.key = m.report.skill /\ e.package = m.report.package
                                        /\ e.refs = m.report.refs /\ e.producer \in IndependentProducers
    <3>1. m \in packs[s.pack] /\ s.class \in m.classes /\ Loadable(m.report.skill)
      BY <2>1 DEF MembersFor, Resolves
    <3>2. m.report.skill \notin revoked
      BY <3>1 DEF RegistryPart, RegistryInv, Loadable
    <3>3. Measured(m.report) /\ m.classes \subseteq m.report.classes
      BY <2>3, <3>1 DEF PacksInv, MemberMeasured
    <3>4. \A e \in lifecycle : e.action = "VERIFIED" => e.producer \in IndependentProducers
      BY DEF RegistryPart, RegistryInv
    <3> QED BY <2>2, <3>1, <3>2, <3>3, <3>4 DEF Measured
  <2>5. load.members = MembersFor(s) /\ load.class = s.class /\ load.revoked = revoked
    OBVIOUS
  <2> HIDE DEF load, revoked, s
  <2>6. LoadedIsMeasured'
    <3> SUFFICES ASSUME NEW k \in Loaders, loaded'[k] # NoPack
                 PROVE  /\ loaded'[k].members # {}
                        /\ \A m \in loaded'[k].members :
                             /\ m.report.skill \notin loaded'[k].revoked /\ loaded'[k].class \in m.report.classes
                             /\ \E e \in lifecycle' : /\ e.action = "VERIFIED" /\ e.key = m.report.skill
                                                      /\ e.package = m.report.package
                                                      /\ e.refs = m.report.refs /\ e.producer \in IndependentProducers
      BY DEF LoadedIsMeasured
    <3>1. CASE k = l
      BY <2>1, <2>4, <2>5, <3>1 DEF PacksInv
    <3>2. CASE k # l
      BY <2>1, <2>2, <3>2 DEF PacksInv, LoadedIsMeasured
    <3> QED BY <3>1, <3>2
  <2>7. \A q \in PackKeys : packs'[q] # NoPack => \A m \in packs'[q] : MemberMeasured(m)'
    BY <2>1, <2>2 DEF PacksInv, MemberMeasured, Measured
  <2>8. DOMAIN loaded' = Loaders
    BY <2>1 DEF PacksInv
  <2> QED BY <2>1, <2>2, <2>6, <2>7, <2>8 DEF PacksInv, PinTarget, ContextBytes, ClassesOf
<1>8. CASE OsTick
  <2>1. UNCHANGED intakeVars /\ UNCHANGED <<packs, osPacks, pins, pinHistory, loaded>>
    BY <1>8 DEF OsTick
  <2> QED BY <1>1, <2>1, PacksStay
<1>9. CASE UNCHANGED osVars
  <2>1. UNCHANGED intakeVars /\ UNCHANGED <<packs, osPacks, pins, pinHistory, loaded>>
    BY <1>9 DEF osVars
  <2> QED BY <1>1, <2>1, PacksStay
<1> QED BY <1>2, <1>3, <1>4, <1>5, <1>6, <1>7, <1>8, <1>9 DEF OsNext

LEMMA SkillInvInit == OsInit => RegistryPart /\ PacksInv
<1> SUFFICES ASSUME OsInit PROVE RegistryPart /\ PacksInv
  OBVIOUS
<1> USE DEF OsInit, IntakeInit, SkillInit, NoPacks
<1>1. RegistryInv
  BY DEF RegistryInv, OneActive, Known, Loadable
<1>2. CandidatesInv
  BY DEF CandidatesInv, CandidatesRegistered, Idling
<1>3. InspectedInv
  BY DEF InspectedInv, InspectedRegistered, AcceptedWasScanned, Known, Idling
<1>4. PacksInv
  BY DEF PacksInv, LoadedIsMeasured
<1> QED BY <1>1, <1>2, <1>3, <1>4 DEF RegistryPart

LEMMA SkillInvSound == RegistryPart /\ PacksInv => SkillsSound
<1> SUFFICES ASSUME RegistryPart, PacksInv PROVE SkillsSound
  OBVIOUS
<1>1. VerifiedByOthers
  <2> SUFFICES ASSUME NEW k \in SkillKeys, Loadable(k), skills[k].package.trust \in {"learned", "community"}
               PROVE  \E e \in lifecycle :
                        /\ e.action = "VERIFIED" /\ e.key = k /\ e.package = skills[k].package
                        /\ e.producer \in IndependentProducers
                        /\ skills[k].package.observedAt <= e.at /\ (skills[k].state = "ACTIVE" => e.at <= skills[k].activatedAt)
    BY DEF VerifiedByOthers
  <2>1. EvidenceStands(k)
    BY DEF RegistryPart, RegistryInv
  <2> QED BY <2>1 DEF EvidenceStands
<1>2. RevokedForGood /\ OneActive
  BY DEF RevokedForGood, RegistryPart, RegistryInv
<1>3. PinsSelectable
  BY DEF PinsSelectable, Eligible, PinTarget, PacksInv
<1> QED BY <1>1, <1>2, <1>3 DEF SkillsSound, RegistryPart, CandidatesInv, InspectedInv, PacksInv

(***************************************************************************)
(* The chain of trust from a skill's source to what a task loads: what the *)
(* intake accepts is read to its end without a HIGH or CRITICAL match and  *)
(* is what the registry holds; what came from outside, through the intake  *)
(* or registered beside it, has independent verification of exactly this   *)
(* content before its activation; one active version, final revocations,   *)
(* one candidate per synthesis key, only measured members in a load, and   *)
(* pins that can be selected (firewall.ts 260-534, curator.ts 69-216,      *)
(* skills/registry.ts 50-329, synthesis.ts 37-103, capability-packs/       *)
(* registry.ts 115-300, skill-os/runtime.ts 60-312), for any skills,       *)
(* snapshots of any number and kind of files, limits, evaluations, packs,  *)
(* routes and overlapping calls.                                           *)
(***************************************************************************)
THEOREM SkillsHold == OsSpec => []SkillsSound
<1>1. OsSpec => [](RegistryPart /\ PacksInv)
  BY SkillInvInit, PacksInvNext, PTL DEF OsSpec
<1> QED BY <1>1, SkillInvSound, PTL
=============================================================================
