---------------------------- MODULE KernelProofs ----------------------------
(***************************************************************************)
(* Theorems about the in-memory services of the kernel: the coordinator,   *)
(* the tool runtime and the provider pool, for any tasks, plans, calls,    *)
(* grants and slots, as the instance of MCKernel puts them side by side.   *)
(***************************************************************************)
EXTENDS MCKernel, FiniteSetTheorems, SequenceTheorems, WellFoundedInduction, TLAPS

\* Every non-empty set of numbers has a least element.
LEMMA LeastNat ==
  ASSUME NEW S, S \subseteq Nat, S # {}
  PROVE  Min(S) \in S /\ \A y \in S : Min(S) <= y
<1> DEFINE R == OpToRel(<, Nat)
<1>1. PICK x \in S : \A y \in S : ~(<<y, x>> \in R)
  <2> HIDE DEF R
  <2>1. IsWellFoundedOn(R, Nat)
    BY NatLessThanWellFounded DEF R
  <2> QED BY <2>1, WFMin
<1>2. \A y \in S : y < x => <<y, x>> \in R
  BY DEF OpToRel
<1> HIDE DEF R
<1>3. \A y \in S : ~(y < x)
  BY <1>1, <1>2
<1>4. \A y \in S : x <= y
  BY <1>3
<1> QED BY <1>4 DEF Min

LEMMA UpToFinite ==
  ASSUME NEW n \in Nat
  PROVE  IsFiniteSet(1 .. n) /\ Cardinality(1 .. n) = n
<1>1. 1 \in Int /\ n \in Int
  OBVIOUS
<1>2. IsFiniteSet(1 .. n) /\ Cardinality(1 .. n) = IF 1 > n THEN 0 ELSE n - 1 + 1
  BY <1>1, FS_Interval
<1>3. (IF 1 > n THEN 0 ELSE n - 1 + 1) = n
  OBVIOUS
<1> QED BY <1>2, <1>3

-----------------------------------------------------------------------------
(* The tool runtime *)

OpenCall == {"waiting", "attempt", "handler", "audit"}

ToolLocals == [pc : {"new"} \cup OpenCall \cup Returned, attempt : 0 .. ReadAttempts,
               verdict : {"none", "retry"} \cup Returned, input : Inputs \cup {"none"}]

ToolTyping ==
  /\ call \in [ToolCalls -> ToolLocals]
  /\ replay \in Inputs \cup {"none"}
  /\ usedCalls \in [Grants -> Nat]
  /\ expired \subseteq Grants \cup {"approval"}
  /\ unaudited \subseteq [call : ToolCalls, attempt : Nat]

\* A call on its way knows which attempt this is, and a retry is within its limit.
AttemptsCounted == \A c \in ToolCalls :
  /\ call[c].pc \in {"attempt", "handler"} => call[c].attempt >= 1
  /\ call[c].pc = "audit" /\ call[c].verdict = "retry" =>
       c \notin SideEffecting /\ call[c].attempt < ReadAttempts
  /\ call[c].pc \in {"new", "waiting"} => call[c].attempt = 0
  /\ call[c].pc = "audit" => call[c].verdict # "none"

\* The chain of locks: side-effecting calls, each once; beyond the first only waiting ones.
Chain ==
  /\ locks \in Seq(SideEffecting)
  /\ \A i, j \in 1 .. Len(locks) : i # j => locks[i] # locks[j]
  /\ \A i \in 1 .. Len(locks) : call[locks[i]].pc \in OpenCall
  /\ \A c \in SideEffecting : call[c].pc \in OpenCall =>
       \E i \in 1 .. Len(locks) : locks[i] = c /\ (call[c].pc # "waiting" => i = 1)

\* What the replay record says of the calls that share it.
KeyTrue(c) ==
  /\ call[c].pc \in OpenCall => call[c].input \in Inputs
  /\ call[c].pc \in {"attempt", "handler"} => replay = "none"
  /\ call[c].pc = "audit" /\ call[c].verdict \notin {"replay", "conflict"} => replay = "none"
  /\ call[c].pc = "audit" /\ call[c].verdict = "replay" => replay = call[c].input
  /\ call[c].pc \in {"success", "replay"} => replay = call[c].input /\ replay # "none"
  /\ \A d \in SideEffecting : call[c].pc = "success" /\ call[d].pc = "success" => c = d

OneKey == \A c \in SideEffecting : KeyTrue(c)

\* A grant is charged for exactly what it was used for.
Ceilings ==
  /\ charged = usedCalls
  /\ \A g \in Grants : usedCalls[g] <= GrantCalls[g]

ToolInv == ToolTyping /\ AttemptsCounted /\ Chain /\ OneKey /\ Ceilings /\ AttemptsAudited

LEMMA ToolInitially ==
  ToolInit => ToolInv
<1> SUFFICES ASSUME ToolInit PROVE ToolInv
  OBVIOUS
<1> USE ToolAssumption DEF ToolInit
<1>1. ToolTyping
  BY DEF ToolTyping, ToolLocals
<1>2. AttemptsCounted /\ Chain /\ OneKey
  BY DEF AttemptsCounted, Chain, OneKey, KeyTrue, OpenCall, Returned
<1>3. Ceilings /\ AttemptsAudited
  BY DEF Ceilings, AttemptsAudited, Returned
<1> QED BY <1>1, <1>2, <1>3 DEF ToolInv

\* A call that may go on is paid for by a grant with calls left.
LEMMA PayingHasCalls ==
  ASSUME NEW c, Allowed(c)
  PROVE  Paying \in Grants /\ usedCalls[Paying] < GrantCalls[Paying]
<1>1. Usable \subseteq Nat /\ Usable # {}
  BY DEF Allowed, Usable
<1>2. Min(Usable) \in Usable
  BY <1>1, LeastNat
<1> QED BY <1>2 DEF Usable, Paying, Grants

\* The chain after the holder of the lock, or a call without a place in it, is over.
LEMMA ChainGoesOn ==
  ASSUME ToolTyping, Chain, NEW c \in ToolCalls, call[c].pc = "audit"
  PROVE  /\ After(c) \in Seq(SideEffecting)
         /\ \A i \in 1 .. Len(After(c)) : After(c)[i] # c
         /\ \A i, j \in 1 .. Len(After(c)) : i # j => After(c)[i] # After(c)[j]
         /\ \A i \in 1 .. Len(After(c)) : \E j \in 1 .. Len(locks) : After(c)[i] = locks[j]
         /\ \A d \in SideEffecting \ {c} : \A i \in 1 .. Len(locks) : locks[i] = d =>
              \E j \in 1 .. Len(After(c)) : After(c)[j] = d /\ (i = 1 => j = 1)
<1>1. CASE locks # <<>> /\ Head(locks) = c
  <2>1. After(c) = Tail(locks) /\ Len(locks) \in Nat \ {0} /\ Len(After(c)) = Len(locks) - 1
    BY <1>1 DEF After, Chain
  <2>2. \A i \in 1 .. Len(After(c)) : After(c)[i] = locks[i + 1] /\ i + 1 \in 1 .. Len(locks)
    BY <1>1, <2>1 DEF Chain
  <2>3. locks[1] = c
    BY <1>1 DEF Chain
  <2>4. \A i \in 2 .. Len(locks) : i - 1 \in 1 .. Len(After(c)) /\ After(c)[i - 1] = locks[i]
    BY <2>1, <2>2
  <2>5. After(c) \in Seq(SideEffecting)
    BY <1>1, <2>1 DEF Chain
  <2>6. \A d \in SideEffecting \ {c} : \A i \in 1 .. Len(locks) : locks[i] = d =>
              i # 1 /\ \E j \in 1 .. Len(After(c)) : After(c)[j] = d
    BY <2>1, <2>3, <2>4
  <2>7. \A i, j \in 1 .. Len(After(c)) : i # j => After(c)[i] # After(c)[j]
    BY <2>1, <2>2 DEF Chain
  <2>8. \A i \in 1 .. Len(After(c)) : After(c)[i] # c
    BY <2>1, <2>2, <2>3 DEF Chain
  <2> QED BY <2>2, <2>5, <2>6, <2>7, <2>8
<1>2. CASE ~(locks # <<>> /\ Head(locks) = c)
  <2>1. After(c) = locks
    BY <1>2 DEF After
  <2>2. \A i \in 1 .. Len(locks) : locks[i] # c
    BY <1>2 DEF Chain, OpenCall
  <2> QED BY <2>1, <2>2 DEF Chain
<1> QED BY <1>1, <1>2

\* The local state of one call after a step; the others keep theirs.
Becomes(after, c, pc, attempt, verdict, input) ==
  /\ after \in [ToolCalls -> ToolLocals]
  /\ after[c].pc = pc /\ after[c].attempt = attempt /\ after[c].verdict = verdict /\ after[c].input = input
  /\ \A d \in ToolCalls \ {c} : after[d] = call[d]

LEMMA AuditingOne ==
  ASSUME ToolTyping, NEW c \in ToolCalls, NEW verdict \in {"retry"} \cup Returned
  PROVE  Becomes(Auditing(c, verdict), c, "audit", call[c].attempt, verdict, call[c].input)
<1>1. call[c] \in ToolLocals /\ call \in [ToolCalls -> ToolLocals]
  BY DEF ToolTyping
<1>2. PICK r : r = [[call[c] EXCEPT !.pc = "audit"] EXCEPT !.verdict = verdict]
  OBVIOUS
<1>3. r \in ToolLocals
  BY <1>1, <1>2 DEF ToolLocals, OpenCall
<1>4. r.pc = "audit" /\ r.verdict = verdict /\ r.attempt = call[c].attempt /\ r.input = call[c].input
  BY <1>1, <1>2 DEF ToolLocals
<1>5. Auditing(c, verdict) = [call EXCEPT ![c] = r]
  BY <1>1, <1>2 DEF Auditing
<1> QED BY <1>1, <1>3, <1>4, <1>5 DEF Becomes

\* The first attempt of a call.
LEMMA AttemptOne ==
  ASSUME ToolTyping, NEW c \in ToolCalls
  PROVE  Becomes([call EXCEPT ![c].pc = "attempt", ![c].attempt = 1], c, "attempt", 1, call[c].verdict, call[c].input)
<1>0. 1 \in 0 .. ReadAttempts
  BY ToolAssumption
<1>1. call[c] \in ToolLocals /\ call \in [ToolCalls -> ToolLocals]
  BY DEF ToolTyping
<1>2. PICK r : r = [[call[c] EXCEPT !.pc = "attempt"] EXCEPT !.attempt = 1]
  OBVIOUS
<1>3. r \in ToolLocals
  BY <1>0, <1>1, <1>2 DEF ToolLocals, OpenCall
<1>4. r.pc = "attempt" /\ r.verdict = call[c].verdict /\ r.attempt = 1 /\ r.input = call[c].input
  BY <1>1, <1>2 DEF ToolLocals
<1>5. [call EXCEPT ![c].pc = "attempt", ![c].attempt = 1] = [call EXCEPT ![c] = r]
  BY <1>1, <1>2
<1> QED BY <1>1, <1>3, <1>4, <1>5 DEF Becomes

LEMMA EnterMoves ==
  ASSUME ToolTyping, AttemptsCounted, NEW c \in ToolCalls, Enter(c)
  PROVE  \/ /\ c \in SideEffecting /\ locks' = Append(locks, c)
            /\ \E i \in Inputs : Becomes(call', c, "waiting", 0, call[c].verdict, i)
         \/ /\ c \notin SideEffecting /\ locks' = locks
            /\ Becomes(call', c, "attempt", 1, call[c].verdict, call[c].input)
<1> USE ToolAssumption
<1>1. call[c] \in ToolLocals /\ call[c].attempt = 0 /\ call \in [ToolCalls -> ToolLocals]
  BY DEF ToolTyping, AttemptsCounted, Enter
<1>2. ASSUME NEW i \in Inputs, call' = [call EXCEPT ![c].pc = "waiting", ![c].input = i]
      PROVE  Becomes(call', c, "waiting", 0, call[c].verdict, i)
  <2>1. PICK r : r = [[call[c] EXCEPT !.pc = "waiting"] EXCEPT !.input = i]
    OBVIOUS
  <2>2. r \in ToolLocals
    BY <1>1, <2>1 DEF ToolLocals, OpenCall
  <2>3. r.pc = "waiting" /\ r.verdict = call[c].verdict /\ r.attempt = 0 /\ r.input = i
    BY <1>1, <2>1 DEF ToolLocals
  <2>4. call' = [call EXCEPT ![c] = r]
    BY <1>1, <1>2, <2>1
  <2> QED BY <1>1, <2>2, <2>3, <2>4 DEF Becomes
<1>3. ASSUME call' = [call EXCEPT ![c].pc = "attempt", ![c].attempt = 1]
      PROVE  Becomes(call', c, "attempt", 1, call[c].verdict, call[c].input)
  BY <1>1, <1>3, AttemptOne DEF Becomes
<1> QED BY <1>2, <1>3 DEF Enter

LEMMA AcquireMoves ==
  ASSUME ToolTyping, NEW c \in ToolCalls, Acquire(c)
  PROVE  \/ /\ replay # "none"
            /\ \E verdict \in {"replay", "conflict"} :
                 /\ verdict = "replay" => replay = call[c].input
                 /\ Becomes(call', c, "audit", call[c].attempt, verdict, call[c].input)
         \/ replay = "none" /\ Becomes(call', c, "attempt", 1, call[c].verdict, call[c].input)
<1>1. CASE replay = "none"
  BY <1>1, AttemptOne DEF Acquire
<1>2. CASE replay # "none" /\ replay = call[c].input
  <2>1. "replay" \in {"retry"} \cup Returned
    BY DEF Returned
  <2> QED BY <1>2, <2>1, AuditingOne DEF Acquire
<1>3. CASE replay # "none" /\ replay # call[c].input
  <2>1. "conflict" \in {"retry"} \cup Returned
    BY DEF Returned
  <2> QED BY <1>3, <2>1, AuditingOne DEF Acquire
<1> QED BY <1>1, <1>2, <1>3

LEMMA AttemptMoves ==
  ASSUME ToolTyping, NEW c \in ToolCalls, Attempt(c)
  PROVE  \/ /\ UNCHANGED <<usedCalls, charged, unaudited>>
            /\ \E verdict \in {"cancelled", "denied"} : Becomes(call', c, "audit", call[c].attempt, verdict, call[c].input)
         \/ /\ Allowed(c)
            /\ usedCalls' = [usedCalls EXCEPT ![Paying] = @ + 1]
            /\ charged' = [charged EXCEPT ![Paying] = @ + 1]
            /\ unaudited' = unaudited \cup {[call |-> c, attempt |-> call[c].attempt]}
            /\ Becomes(call', c, "handler", call[c].attempt, call[c].verdict, call[c].input)
<1>1. {"cancelled", "denied"} \subseteq {"retry"} \cup Returned
  BY DEF Returned
<1>2. CASE c \in signalled
  BY <1>1, <1>2, AuditingOne DEF Attempt
<1>3. CASE c \notin signalled /\ ~Allowed(c)
  BY <1>1, <1>3, AuditingOne DEF Attempt
<1>4. CASE c \notin signalled /\ Allowed(c)
  <2>1. call' = [call EXCEPT ![c].pc = "handler"]
    BY <1>4 DEF Attempt
  <2>2. Becomes(call', c, "handler", call[c].attempt, call[c].verdict, call[c].input)
    BY <2>1 DEF Becomes, ToolTyping, ToolLocals, OpenCall
  <2> QED BY <1>4, <2>2 DEF Attempt
<1> QED BY <1>2, <1>3, <1>4

LEMMA HandlerMoves ==
  ASSUME ToolTyping, NEW c \in ToolCalls, HandlerSettles(c)
  PROVE  \E verdict \in {"success", "failure", "retry"} :
           /\ verdict = "retry" => call[c].attempt < MaxAttempts(c)
           /\ Becomes(call', c, "audit", call[c].attempt, verdict, call[c].input)
<1>1. PICK verdict \in {"success", "failure", "retry"} :
        (verdict = "retry" => call[c].attempt < MaxAttempts(c)) /\ call' = Auditing(c, verdict)
  BY DEF HandlerSettles
<1>2. verdict \in {"retry"} \cup Returned
  BY DEF Returned
<1>3. Becomes(call', c, "audit", call[c].attempt, verdict, call[c].input)
  BY <1>1, <1>2, AuditingOne
<1> QED BY <1>1, <1>3

LEMMA SignalMoves ==
  ASSUME ToolTyping, NEW c \in ToolCalls, Signal(c)
  PROVE  \/ call' = call
         \/ call[c].pc = "handler" /\ Becomes(call', c, "audit", call[c].attempt, "cancelled", call[c].input)
<1>1. "cancelled" \in {"retry"} \cup Returned
  BY DEF Returned
<1> QED BY <1>1, AuditingOne DEF Signal

\* A call that is over.
LEMMA EndsMoves ==
  ASSUME ToolTyping, NEW c \in ToolCalls, NEW result \in Returned, Ends(c, result)
  PROVE  Becomes(call', c, result, 0, "none", call[c].input)
<1>0. 0 \in 0 .. ReadAttempts
  BY ToolAssumption
<1>1. call[c] \in ToolLocals /\ call \in [ToolCalls -> ToolLocals]
  BY DEF ToolTyping
<1>2. PICK r : r = [[[call[c] EXCEPT !.pc = result] EXCEPT !.attempt = 0] EXCEPT !.verdict = "none"]
  OBVIOUS
<1>3. r \in ToolLocals
  BY <1>0, <1>1, <1>2 DEF ToolLocals
<1>4. r.pc = result /\ r.verdict = "none" /\ r.attempt = 0 /\ r.input = call[c].input
  BY <1>1, <1>2 DEF ToolLocals
<1>5. call' = [call EXCEPT ![c] = r]
  BY <1>1, <1>2 DEF Ends
<1> QED BY <1>1, <1>3, <1>4, <1>5 DEF Becomes

LEMMA StoredMoves ==
  ASSUME ToolTyping, AttemptsCounted, NEW c \in ToolCalls, AuditStored(c)
  PROVE  \/ /\ call[c].verdict = "retry" /\ UNCHANGED <<locks, replay>>
            /\ Becomes(call', c, "attempt", call[c].attempt + 1, "none", call[c].input)
         \/ /\ call[c].verdict \in Returned /\ locks' = After(c)
            /\ replay' = IF call[c].verdict = "success" /\ c \in SideEffecting THEN call[c].input ELSE replay
            /\ Becomes(call', c, call[c].verdict, 0, "none", call[c].input)
<1>1. call[c] \in ToolLocals /\ call \in [ToolCalls -> ToolLocals] /\ call[c].pc = "audit" /\ call[c].verdict # "none"
  BY DEF ToolTyping, AuditStored, AttemptsCounted
<1>2. CASE call[c].verdict = "retry"
  <2>0. call[c].attempt + 1 \in 0 .. ReadAttempts
    BY <1>1, <1>2, ToolAssumption DEF AttemptsCounted, ToolLocals
  <2>1. PICK r : r = [[[call[c] EXCEPT !.pc = "attempt"] EXCEPT !.attempt = call[c].attempt + 1] EXCEPT !.verdict = "none"]
    OBVIOUS
  <2>2. r \in ToolLocals
    BY <1>1, <2>0, <2>1 DEF ToolLocals, OpenCall
  <2>3. r.pc = "attempt" /\ r.verdict = "none" /\ r.attempt = call[c].attempt + 1 /\ r.input = call[c].input
    BY <1>1, <2>1 DEF ToolLocals
  <2>4. call' = [call EXCEPT ![c] = r]
    BY <1>1, <1>2, <2>1 DEF AuditStored, ToolLocals
  <2>5. Becomes(call', c, "attempt", call[c].attempt + 1, "none", call[c].input)
    BY <1>1, <2>2, <2>3, <2>4 DEF Becomes
  <2> QED BY <1>2, <2>5 DEF AuditStored
<1>3. CASE call[c].verdict # "retry"
  <2>1. call[c].verdict \in Returned
    BY <1>1, <1>3 DEF ToolLocals
  <2>2. Becomes(call', c, call[c].verdict, 0, "none", call[c].input)
    BY <1>3, <2>1, EndsMoves DEF AuditStored
  <2> QED BY <1>3, <2>1, <2>2 DEF AuditStored, Unlock
<1> QED BY <1>2, <1>3

LEMMA FailsMoves ==
  ASSUME ToolTyping, NEW c \in ToolCalls, AuditFails(c)
  PROVE  \/ /\ call[c].verdict = "success" /\ locks' = locks
            /\ Becomes(call', c, "audit", call[c].attempt, "failure", call[c].input)
         \/ locks' = After(c) /\ Becomes(call', c, "failure", 0, "none", call[c].input)
<1>1. "failure" \in Returned
  BY DEF Returned
<1>2. CASE call[c].verdict = "success"
  BY <1>1, <1>2, AuditingOne DEF AuditFails
<1>3. CASE call[c].verdict # "success"
  BY <1>1, <1>3, EndsMoves DEF AuditFails, Unlock
<1> QED BY <1>2, <1>3

LEMMA ToolTypingKept ==
  ASSUME ToolInv, ToolNext
  PROVE  ToolTyping'
<1> USE DEF ToolInv
<1>0. ToolTyping /\ AttemptsCounted
  OBVIOUS
<1>1. ASSUME NEW c \in ToolCalls, Enter(c) PROVE ToolTyping'
  BY <1>1, EnterMoves DEF Enter, ToolTyping, Becomes
<1>2. ASSUME NEW c \in ToolCalls, Acquire(c) PROVE ToolTyping'
  BY <1>2, AcquireMoves DEF Acquire, ToolTyping, Becomes
<1>3. ASSUME NEW c \in ToolCalls, Attempt(c) PROVE ToolTyping'
  <2>1. call' \in [ToolCalls -> ToolLocals] /\ UNCHANGED <<replay, expired>>
    BY <1>3, AttemptMoves DEF Attempt, Becomes
  <2>2. usedCalls' \in [Grants -> Nat]
    BY <1>3, AttemptMoves, PayingHasCalls DEF ToolTyping
  <2>3. [call |-> c, attempt |-> call[c].attempt] \in [call : ToolCalls, attempt : Nat]
    BY ToolAssumption DEF ToolTyping, ToolLocals
  <2>4. unaudited' \subseteq [call : ToolCalls, attempt : Nat]
    BY <1>3, <2>3, AttemptMoves DEF ToolTyping
  <2> QED BY <2>1, <2>2, <2>4 DEF ToolTyping
<1>4. ASSUME NEW c \in ToolCalls, HandlerSettles(c) PROVE ToolTyping'
  BY <1>4, HandlerMoves DEF HandlerSettles, ToolTyping, Becomes
<1>5. ASSUME NEW c \in ToolCalls, AuditStored(c) PROVE ToolTyping'
  <2>1. call' \in [ToolCalls -> ToolLocals] /\ UNCHANGED <<usedCalls, expired>>
    BY <1>5, StoredMoves DEF AuditStored, Becomes
  <2>2. replay' \in Inputs \cup {"none"}
    BY <1>5, StoredMoves DEF ToolTyping, ToolLocals
  <2>3. unaudited' \subseteq unaudited
    BY <1>5 DEF AuditStored, Logged
  <2> QED BY <2>1, <2>2, <2>3 DEF ToolTyping
<1>6. ASSUME NEW c \in ToolCalls, AuditFails(c) PROVE ToolTyping'
  BY <1>6, FailsMoves DEF AuditFails, Logged, ToolTyping, Becomes
<1>7. ASSUME NEW c \in ToolCalls, Signal(c) PROVE ToolTyping'
  BY <1>7, SignalMoves DEF Signal, ToolTyping, Becomes
<1>8. ASSUME NEW x \in Grants \cup {"approval"}, Lapse(x) PROVE ToolTyping'
  BY <1>8 DEF Lapse, ToolTyping
<1> QED BY <1>1, <1>2, <1>3, <1>4, <1>5, <1>6, <1>7, <1>8 DEF ToolNext, CallStep

LEMMA AttemptsCountedKept ==
  ASSUME ToolInv, ToolNext
  PROVE  AttemptsCounted'
<1> USE DEF ToolInv
<1>0. ToolTyping /\ AttemptsCounted /\ ReadAttempts \in Nat
  BY ToolAssumption
<1>1. ASSUME NEW c \in ToolCalls, Enter(c) PROVE AttemptsCounted'
  BY <1>0, <1>1, EnterMoves DEF AttemptsCounted, Becomes
<1>2. ASSUME NEW c \in ToolCalls, Acquire(c) PROVE AttemptsCounted'
  BY <1>0, <1>2, AcquireMoves DEF AttemptsCounted, Becomes
<1>3. ASSUME NEW c \in ToolCalls, Attempt(c) PROVE AttemptsCounted'
  <2>1. call[c].pc = "attempt"
    BY <1>3 DEF Attempt
  <2> QED BY <1>0, <1>3, <2>1, AttemptMoves DEF AttemptsCounted, Becomes
<1>4. ASSUME NEW c \in ToolCalls, HandlerSettles(c) PROVE AttemptsCounted'
  <2>1. call[c].pc = "handler" /\ call[c].attempt \in Nat
    BY <1>4 DEF HandlerSettles, ToolTyping, ToolLocals
  <2> QED BY <1>0, <1>4, <2>1, HandlerMoves DEF AttemptsCounted, Becomes, MaxAttempts
<1>5. ASSUME NEW c \in ToolCalls, AuditStored(c) PROVE AttemptsCounted'
  <2>1. call[c].attempt \in Nat /\ \A r \in Returned : r \notin {"attempt", "handler", "audit", "new", "waiting"}
    BY <1>5 DEF ToolTyping, ToolLocals, Returned
  <2> QED BY <1>0, <1>5, <2>1, StoredMoves DEF AttemptsCounted, Becomes
<1>6. ASSUME NEW c \in ToolCalls, AuditFails(c) PROVE AttemptsCounted'
  BY <1>0, <1>6, FailsMoves DEF AttemptsCounted, Becomes
<1>7. ASSUME NEW c \in ToolCalls, Signal(c) PROVE AttemptsCounted'
  BY <1>0, <1>7, SignalMoves DEF AttemptsCounted, Becomes
<1>8. ASSUME NEW x \in Grants \cup {"approval"}, Lapse(x) PROVE AttemptsCounted'
  BY <1>0, <1>8 DEF Lapse, AttemptsCounted
<1> QED BY <1>1, <1>2, <1>3, <1>4, <1>5, <1>6, <1>7, <1>8 DEF ToolNext, CallStep

\* A step inside a call that keeps its place in the chain.
LEMMA ChainUndisturbed ==
  ASSUME ToolTyping, Chain, NEW c \in ToolCalls, NEW pc, NEW attempt, NEW verdict, NEW input,
         Becomes(call', c, pc, attempt, verdict, input), locks' = locks,
         pc \in OpenCall, call[c].pc \in OpenCall \/ c \notin SideEffecting,
         call[c].pc # "waiting" \/ locks[1] = c \/ c \notin SideEffecting
  PROVE  Chain'
<1>1. \A i \in 1 .. Len(locks) : call'[locks[i]].pc \in OpenCall
  BY ToolAssumption DEF Chain, Becomes
<1>2. ASSUME NEW d \in SideEffecting, call'[d].pc \in OpenCall
      PROVE  \E i \in 1 .. Len(locks) : locks[i] = d /\ (call'[d].pc # "waiting" => i = 1)
  <2>1. CASE d = c
    <3>1. PICK i \in 1 .. Len(locks) : locks[i] = d /\ (call[d].pc # "waiting" => i = 1)
      BY <2>1 DEF Chain
    <3>2. i = 1
      BY <2>1, <3>1 DEF Chain
    <3> QED BY <3>1, <3>2
  <2>2. CASE d # c
    BY <1>2, <2>2, ToolAssumption DEF Chain, Becomes
  <2> QED BY <2>1, <2>2
<1> QED BY <1>1, <1>2 DEF Chain

\* A call that is over leaves the chain.
LEMMA ChainLeft ==
  ASSUME ToolTyping, Chain, NEW c \in ToolCalls, call[c].pc = "audit", NEW pc \in Returned, NEW attempt, NEW verdict, NEW input,
         Becomes(call', c, pc, attempt, verdict, input), locks' = After(c)
  PROVE  Chain'
<1> DEFINE rest == After(c)
<1>0. pc \notin OpenCall
  BY DEF Returned, OpenCall
<1>1. /\ rest \in Seq(SideEffecting)
      /\ \A i \in 1 .. Len(rest) : rest[i] # c
      /\ \A i, j \in 1 .. Len(rest) : i # j => rest[i] # rest[j]
      /\ \A i \in 1 .. Len(rest) : \E j \in 1 .. Len(locks) : rest[i] = locks[j]
      /\ \A d \in SideEffecting \ {c} : \A i \in 1 .. Len(locks) : locks[i] = d =>
              \E j \in 1 .. Len(rest) : rest[j] = d /\ (i = 1 => j = 1)
  BY ChainGoesOn
<1> HIDE DEF rest
<1>2. ASSUME NEW i \in 1 .. Len(rest) PROVE call'[rest[i]].pc \in OpenCall
  <2>1. PICK j \in 1 .. Len(locks) : rest[i] = locks[j]
    BY <1>1
  <2>2. rest[i] \in ToolCalls \ {c} /\ call[rest[i]].pc \in OpenCall
    BY <1>1, <2>1, ToolAssumption DEF Chain
  <2> QED BY <2>2 DEF Becomes
<1>3. ASSUME NEW d \in SideEffecting, call'[d].pc \in OpenCall
      PROVE  \E i \in 1 .. Len(rest) : rest[i] = d /\ (call'[d].pc # "waiting" => i = 1)
  <2>1. d # c /\ call'[d] = call[d]
    BY <1>0, <1>3, ToolAssumption DEF Becomes
  <2>2. PICK i \in 1 .. Len(locks) : locks[i] = d /\ (call[d].pc # "waiting" => i = 1)
    BY <1>3, <2>1 DEF Chain
  <2> QED BY <1>1, <2>1, <2>2
<1>4. locks' = rest
  BY DEF rest
<1> QED BY <1>1, <1>2, <1>3, <1>4 DEF Chain

LEMMA ChainKept ==
  ASSUME ToolInv, ToolNext
  PROVE  Chain'
<1> USE DEF ToolInv
<1>0. ToolTyping /\ Chain /\ AttemptsCounted
  OBVIOUS
<1>1. ASSUME NEW c \in ToolCalls, Enter(c) PROVE Chain'
  <2>1. CASE c \notin SideEffecting
    BY <1>0, <1>1, <2>1, EnterMoves, ChainUndisturbed DEF OpenCall
  <2>2. CASE c \in SideEffecting
    <3>1. PICK i \in Inputs : locks' = Append(locks, c) /\ Becomes(call', c, "waiting", 0, call[c].verdict, i)
      BY <1>0, <1>1, <2>2, EnterMoves
    <3>2. /\ Len(locks) \in Nat /\ Len(locks') = Len(locks) + 1 /\ locks' \in Seq(SideEffecting)
          /\ locks'[Len(locks) + 1] = c /\ \A j \in 1 .. Len(locks) : locks'[j] = locks[j]
      BY <2>2, <3>1 DEF Chain
    <3>3. \A j \in 1 .. Len(locks) : locks[j] # c
      BY <1>1 DEF Chain, Enter, OpenCall
    <3>4. \A j, k \in 1 .. Len(locks') : j # k => locks'[j] # locks'[k]
      BY <3>2, <3>3 DEF Chain
    <3>5. \A j \in 1 .. Len(locks') : call'[locks'[j]].pc \in OpenCall
      BY <3>1, <3>2, <3>3, ToolAssumption DEF Chain, Becomes, OpenCall
    <3>6. ASSUME NEW d \in SideEffecting, call'[d].pc \in OpenCall
          PROVE  \E j \in 1 .. Len(locks') : locks'[j] = d /\ (call'[d].pc # "waiting" => j = 1)
      <4>1. CASE d = c
        BY <3>1, <3>2, <4>1 DEF Becomes
      <4>2. CASE d # c
        <5>1. call'[d] = call[d]
          BY <3>1, <4>2, ToolAssumption DEF Becomes
        <5>2. PICK j \in 1 .. Len(locks) : locks[j] = d /\ (call[d].pc # "waiting" => j = 1)
          BY <3>6, <5>1 DEF Chain
        <5> QED BY <3>2, <5>1, <5>2
      <4> QED BY <4>1, <4>2
    <3> QED BY <3>2, <3>4, <3>5, <3>6 DEF Chain
  <2> QED BY <2>1, <2>2
<1>2. ASSUME NEW c \in ToolCalls, Acquire(c) PROVE Chain'
  <2>1. call[c].pc = "waiting" /\ locks' = locks /\ Head(locks) = c
    BY <1>2 DEF Acquire
  <2>2. c \in SideEffecting => locks[1] = c
    <3>1. c \in SideEffecting => locks # <<>>
      BY <2>1 DEF Chain, OpenCall
    <3> QED BY <2>1, <3>1 DEF Chain
  <2>3. \E pc \in {"audit", "attempt"} : \E attempt, verdict, input : Becomes(call', c, pc, attempt, verdict, input)
    BY <1>0, <1>2, AcquireMoves
  <2> QED BY <1>0, <2>1, <2>2, <2>3, ChainUndisturbed DEF OpenCall
<1>3. ASSUME NEW c \in ToolCalls, Attempt(c) PROVE Chain'
  <2>1. call[c].pc = "attempt" /\ locks' = locks
    BY <1>3 DEF Attempt
  <2>2. \E pc \in {"audit", "handler"} : \E attempt, verdict, input : Becomes(call', c, pc, attempt, verdict, input)
    BY <1>0, <1>3, AttemptMoves
  <2> QED BY <1>0, <2>1, <2>2, ChainUndisturbed DEF OpenCall
<1>4. ASSUME NEW c \in ToolCalls, HandlerSettles(c) PROVE Chain'
  <2>1. call[c].pc = "handler" /\ locks' = locks
    BY <1>4 DEF HandlerSettles
  <2>2. \E attempt, verdict, input : Becomes(call', c, "audit", attempt, verdict, input)
    BY <1>0, <1>4, HandlerMoves
  <2> QED BY <1>0, <2>1, <2>2, ChainUndisturbed DEF OpenCall
<1>5. ASSUME NEW c \in ToolCalls, AuditStored(c) PROVE Chain'
  <2>1. call[c].pc = "audit"
    BY <1>5 DEF AuditStored
  <2>2. CASE locks' = locks /\ Becomes(call', c, "attempt", call[c].attempt + 1, "none", call[c].input)
    BY <1>0, <2>1, <2>2, ChainUndisturbed DEF OpenCall
  <2>3. CASE call[c].verdict \in Returned /\ locks' = After(c) /\ Becomes(call', c, call[c].verdict, 0, "none", call[c].input)
    BY <1>0, <2>1, <2>3, ChainLeft
  <2> QED BY <1>0, <1>5, <2>2, <2>3, StoredMoves
<1>6. ASSUME NEW c \in ToolCalls, AuditFails(c) PROVE Chain'
  <2>1. call[c].pc = "audit" /\ "failure" \in Returned
    BY <1>6 DEF AuditFails, Returned
  <2>2. CASE locks' = locks /\ Becomes(call', c, "audit", call[c].attempt, "failure", call[c].input)
    BY <1>0, <2>1, <2>2, ChainUndisturbed DEF OpenCall
  <2>3. CASE locks' = After(c) /\ Becomes(call', c, "failure", 0, "none", call[c].input)
    BY <1>0, <2>1, <2>3, ChainLeft
  <2> QED BY <1>0, <1>6, <2>2, <2>3, FailsMoves
<1>7. ASSUME NEW c \in ToolCalls, Signal(c) PROVE Chain'
  <2>1. locks' = locks
    BY <1>7 DEF Signal
  <2>2. CASE call' = call
    BY <2>1, <2>2 DEF Chain
  <2>3. CASE call[c].pc = "handler" /\ Becomes(call', c, "audit", call[c].attempt, "cancelled", call[c].input)
    BY <1>0, <2>1, <2>3, ChainUndisturbed DEF OpenCall
  <2> QED BY <1>0, <1>7, <2>2, <2>3, SignalMoves
<1>8. ASSUME NEW x \in Grants \cup {"approval"}, Lapse(x) PROVE Chain'
  BY <1>8 DEF Lapse, Chain
<1> QED BY <1>1, <1>2, <1>3, <1>4, <1>5, <1>6, <1>7, <1>8 DEF ToolNext, CallStep

LEMMA OneKeyKept ==
  ASSUME ToolInv, ToolNext
  PROVE  OneKey'
<1> USE DEF ToolInv
<1>0. /\ ToolTyping /\ Chain /\ AttemptsCounted /\ OneKey
      /\ SideEffecting \subseteq ToolCalls /\ "none" \notin Inputs
  BY ToolAssumption
<1>a. ASSUME NEW c \in SideEffecting, NEW d \in SideEffecting, call[c].pc \in OpenCall \ {"waiting"}, call[d].pc \in OpenCall \ {"waiting"}
      PROVE  c = d
  BY <1>0, <1>a DEF Chain
<1>1. ASSUME NEW c \in ToolCalls, Enter(c) PROVE OneKey'
  <2>1. replay' = replay
    BY <1>1 DEF Enter
  <2> QED BY <1>0, <1>1, <2>1, EnterMoves DEF OneKey, KeyTrue, Becomes, OpenCall
<1>2. ASSUME NEW c \in ToolCalls, Acquire(c) PROVE OneKey'
  <2>1. replay' = replay /\ call[c].pc = "waiting"
    BY <1>2 DEF Acquire
  <2> QED BY <1>0, <1>2, <2>1, AcquireMoves DEF OneKey, KeyTrue, Becomes, OpenCall
<1>3. ASSUME NEW c \in ToolCalls, Attempt(c) PROVE OneKey'
  <2>1. replay' = replay /\ call[c].pc = "attempt"
    BY <1>3 DEF Attempt
  <2> QED BY <1>0, <1>3, <2>1, AttemptMoves DEF OneKey, KeyTrue, Becomes, OpenCall
<1>4. ASSUME NEW c \in ToolCalls, HandlerSettles(c) PROVE OneKey'
  <2>1. replay' = replay /\ call[c].pc = "handler"
    BY <1>4 DEF HandlerSettles
  <2> QED BY <1>0, <1>4, <2>1, HandlerMoves DEF OneKey, KeyTrue, Becomes, OpenCall
<1>5. ASSUME NEW c \in ToolCalls, AuditStored(c) PROVE OneKey'
  <2>1. call[c].pc = "audit" /\ call[c].verdict # "none"
    BY <1>5 DEF AuditStored, AttemptsCounted
  <2>2. CASE call[c].verdict = "retry" /\ replay' = replay /\ Becomes(call', c, "attempt", call[c].attempt + 1, "none", call[c].input)
    <3>1. c \notin SideEffecting
      BY <2>1, <2>2 DEF AttemptsCounted
    <3> QED BY <1>0, <2>2, <3>1 DEF OneKey, KeyTrue, Becomes
  <2>3. CASE /\ call[c].verdict \in Returned
             /\ replay' = IF call[c].verdict = "success" /\ c \in SideEffecting THEN call[c].input ELSE replay
             /\ Becomes(call', c, call[c].verdict, 0, "none", call[c].input)
    <3>0. call'[c].pc \notin OpenCall
      BY <2>3 DEF Becomes, Returned, OpenCall
    <3>1. CASE c \notin SideEffecting
      BY <1>0, <2>3, <3>1 DEF OneKey, KeyTrue, Becomes
    <3>2. CASE c \in SideEffecting /\ call[c].verdict # "success"
      BY <1>0, <2>1, <2>3, <3>0, <3>2 DEF OneKey, KeyTrue, Becomes, OpenCall
    <3>3. CASE c \in SideEffecting /\ call[c].verdict = "success"
      <4>1. replay = "none" /\ call[c].input \in Inputs /\ replay' = call[c].input /\ replay' # "none"
        BY <1>0, <2>1, <2>3, <3>3 DEF OneKey, KeyTrue, OpenCall
      <4>2. \A d \in SideEffecting : call[d].pc \notin {"success", "replay"}
        BY <1>0, <4>1 DEF OneKey, KeyTrue
      <4>3. \A d \in SideEffecting \ {c} : call'[d] = call[d]
        BY <1>0, <2>3 DEF Becomes
      <4>4. \A d \in SideEffecting \ {c} : call[d].pc \notin OpenCall \ {"waiting"}
        BY <1>a, <2>1, <3>3 DEF OpenCall
      <4>5. call'[c].pc = "success" /\ call'[c].input = call[c].input
        BY <2>3, <3>3 DEF Becomes
      <4>6. \A e, d \in SideEffecting : call'[e].pc = "success" /\ call'[d].pc = "success" => e = d
        BY <4>2, <4>3
      <4>7. \A e \in SideEffecting \ {c} :
              /\ call'[e].pc \in OpenCall => call'[e].pc = "waiting" /\ call'[e].input \in Inputs
              /\ call'[e].pc \notin {"success", "replay"}
        BY <1>0, <4>2, <4>3, <4>4 DEF OneKey, KeyTrue
      <4>8. call'[c].pc \notin OpenCall /\ call'[c].pc = "success" /\ replay' = call'[c].input /\ replay' # "none"
        BY <3>0, <4>1, <4>5
      <4>9. {"attempt", "handler", "audit"} \subseteq OpenCall
        BY DEF OpenCall
      <4>10. KeyTrue(c)'
        BY <4>6, <4>8, <4>9, <3>3 DEF KeyTrue
      <4>11. ASSUME NEW e \in SideEffecting \ {c} PROVE KeyTrue(e)'
        <5>1. call'[e].pc \notin {"attempt", "handler", "audit", "success", "replay"}
          BY <4>7, <4>9
        <5>2. call'[e].pc \in OpenCall => call'[e].input \in Inputs
          BY <4>7
        <5> QED BY <5>1, <5>2 DEF KeyTrue
      <4> QED BY <4>10, <4>11 DEF OneKey
    <3> QED BY <3>1, <3>2, <3>3
  <2> QED BY <1>0, <1>5, <2>2, <2>3, StoredMoves
<1>6. ASSUME NEW c \in ToolCalls, AuditFails(c) PROVE OneKey'
  <2>1. replay' = replay /\ call[c].pc = "audit"
    BY <1>6 DEF AuditFails
  <2> QED BY <1>0, <1>6, <2>1, FailsMoves DEF OneKey, KeyTrue, Becomes, OpenCall
<1>7. ASSUME NEW c \in ToolCalls, Signal(c) PROVE OneKey'
  <2>1. replay' = replay
    BY <1>7 DEF Signal
  <2>2. CASE call' = call
    BY <1>0, <2>1, <2>2 DEF OneKey, KeyTrue
  <2>3. CASE call[c].pc = "handler" /\ Becomes(call', c, "audit", call[c].attempt, "cancelled", call[c].input)
    BY <1>0, <2>1, <2>3 DEF OneKey, KeyTrue, Becomes, OpenCall
  <2> QED BY <1>0, <1>7, <2>2, <2>3, SignalMoves
<1>8. ASSUME NEW x \in Grants \cup {"approval"}, Lapse(x) PROVE OneKey'
  BY <1>0, <1>8 DEF Lapse, OneKey, KeyTrue
<1> QED BY <1>1, <1>2, <1>3, <1>4, <1>5, <1>6, <1>7, <1>8 DEF ToolNext, CallStep

LEMMA CeilingsKept ==
  ASSUME ToolInv, ToolNext
  PROVE  Ceilings'
<1> USE DEF ToolInv
<1>0. ToolTyping /\ Ceilings
  OBVIOUS
<1>1. ASSUME NEW c \in ToolCalls, Attempt(c) PROVE Ceilings'
  <2>1. CASE UNCHANGED <<usedCalls, charged, unaudited>>
    BY <1>0, <2>1 DEF Ceilings
  <2>2. CASE /\ Allowed(c)
             /\ usedCalls' = [usedCalls EXCEPT ![Paying] = @ + 1]
             /\ charged' = [charged EXCEPT ![Paying] = @ + 1]
    <3>1. Paying \in Grants /\ usedCalls[Paying] < GrantCalls[Paying] /\ \A g \in Grants : GrantCalls[g] \in Nat /\ usedCalls[g] \in Nat
      BY <2>2, PayingHasCalls, ToolAssumption DEF ToolTyping
    <3> QED BY <1>0, <2>2, <3>1 DEF Ceilings, ToolTyping
  <2> QED BY <1>0, <1>1, <2>1, <2>2, AttemptMoves
<1>2. CASE UNCHANGED <<usedCalls, charged>>
  BY <1>0, <1>2 DEF Ceilings
<1> QED BY <1>1, <1>2 DEF ToolNext, CallStep, Enter, Acquire, HandlerSettles, AuditStored, AuditFails, Signal, Lapse

LEMMA AttemptsAuditedKept ==
  ASSUME ToolInv, ToolNext
  PROVE  AttemptsAudited'
<1> USE DEF ToolInv
<1>0. ToolTyping /\ AttemptsCounted /\ AttemptsAudited /\ SideEffecting \subseteq ToolCalls
  BY ToolAssumption
<1>t. \A u \in unaudited : u.call \in ToolCalls /\ u = [call |-> u.call, attempt |-> u.attempt]
  BY <1>0 DEF ToolTyping
<1>1. ASSUME NEW c \in ToolCalls, Enter(c) PROVE AttemptsAudited'
  <2>1. UNCHANGED <<unaudited, stored, replay>> /\ call[c].pc = "new"
    BY <1>1 DEF Enter
  <2> QED BY <1>0, <1>t, <1>1, <2>1, EnterMoves DEF AttemptsAudited, Becomes
<1>2. ASSUME NEW c \in ToolCalls, Acquire(c) PROVE AttemptsAudited'
  <2>1. UNCHANGED <<unaudited, stored, replay>> /\ call[c].pc = "waiting"
    BY <1>2 DEF Acquire
  <2> QED BY <1>0, <1>t, <1>2, <2>1, AcquireMoves DEF AttemptsAudited, Becomes
<1>3. ASSUME NEW c \in ToolCalls, Attempt(c) PROVE AttemptsAudited'
  <2>1. UNCHANGED <<stored, replay>> /\ call[c].pc = "attempt"
    BY <1>3 DEF Attempt
  <2>2. \A u \in unaudited : u.call # c
    BY <1>0, <2>1 DEF AttemptsAudited
  <2> QED BY <1>0, <1>t, <1>3, <2>1, <2>2, AttemptMoves DEF AttemptsAudited, Becomes
<1>4. ASSUME NEW c \in ToolCalls, HandlerSettles(c) PROVE AttemptsAudited'
  <2>1. UNCHANGED <<unaudited, stored, replay>> /\ call[c].pc = "handler"
    BY <1>4 DEF HandlerSettles
  <2> QED BY <1>0, <1>t, <1>4, <2>1, HandlerMoves DEF AttemptsAudited, Becomes
<1>5. ASSUME NEW c \in ToolCalls, Logged(c), stored \subseteq stored', call[c].pc = "audit"
      PROVE  \A u \in unaudited' : u.call # c /\ u \in unaudited
  BY <1>0, <1>t, <1>5 DEF Logged, AttemptsAudited
<1>6. ASSUME NEW c \in ToolCalls, AuditStored(c) PROVE AttemptsAudited'
  <2>1. /\ Logged(c) /\ call[c].pc = "audit"
        /\ stored' = IF call[c].verdict = "success" THEN stored \cup {c} ELSE stored
    BY <1>6 DEF AuditStored
  <2>2. \A u \in unaudited' : u.call # c /\ u \in unaudited
    BY <1>5, <2>1
  <2>3. \A d \in ToolCalls \ {c} : call'[d] = call[d]
    BY <1>0, <1>6, StoredMoves DEF Becomes
  <2>4. call'[c].pc = "success" => c \in stored'
    <3>1. call'[c].pc = "success" => call[c].verdict = "success"
      BY <1>0, <1>6, StoredMoves DEF Becomes
    <3> QED BY <2>1, <3>1
  <2>5. replay' # "none" => stored' \cap SideEffecting # {}
    <3>1. CASE replay' = replay
      BY <1>0, <2>1, <3>1 DEF AttemptsAudited
    <3>2. CASE replay' # replay
      BY <1>0, <1>6, <2>1, <3>2, StoredMoves
    <3> QED BY <3>1, <3>2
  <2> QED BY <1>0, <1>t, <2>1, <2>2, <2>3, <2>4, <2>5 DEF AttemptsAudited
<1>7. ASSUME NEW c \in ToolCalls, AuditFails(c) PROVE AttemptsAudited'
  <2>1. Logged(c) /\ call[c].pc = "audit" /\ stored' = stored /\ replay' = replay
    BY <1>7 DEF AuditFails
  <2>2. \A u \in unaudited' : u.call # c /\ u \in unaudited
    BY <1>5, <2>1
  <2>3. \A d \in ToolCalls \ {c} : call'[d] = call[d]
    BY <1>0, <1>7, FailsMoves DEF Becomes
  <2>4. call'[c].pc # "success"
    BY <1>0, <1>7, FailsMoves DEF Becomes
  <2> QED BY <1>0, <1>t, <2>1, <2>2, <2>3, <2>4 DEF AttemptsAudited
<1>8. ASSUME NEW c \in ToolCalls, Signal(c) PROVE AttemptsAudited'
  <2>1. UNCHANGED <<unaudited, stored, replay>>
    BY <1>8 DEF Signal
  <2> QED BY <1>0, <1>t, <1>8, <2>1, SignalMoves DEF AttemptsAudited, Becomes
<1>9. ASSUME NEW x \in Grants \cup {"approval"}, Lapse(x) PROVE AttemptsAudited'
  BY <1>0, <1>9 DEF Lapse, AttemptsAudited
<1> QED BY <1>1, <1>2, <1>3, <1>4, <1>6, <1>7, <1>8, <1>9 DEF ToolNext, CallStep

LEMMA ToolInvariant ==
  ASSUME ToolInv, ToolNext \/ UNCHANGED toolVars
  PROVE  ToolInv'
<1>1. CASE ToolNext
  <2>1. ToolTyping' /\ AttemptsCounted' /\ Chain'
    BY <1>1, ToolTypingKept, AttemptsCountedKept, ChainKept
  <2>2. OneKey' /\ Ceilings' /\ AttemptsAudited'
    BY <1>1, OneKeyKept, CeilingsKept, AttemptsAuditedKept
  <2> QED BY <2>1, <2>2 DEF ToolInv
<1>2. CASE UNCHANGED toolVars
  BY <1>2 DEF toolVars, ToolInv, ToolTyping, AttemptsCounted, Chain, OneKey, KeyTrue, Ceilings, AttemptsAudited
<1> QED BY <1>1, <1>2

\* The chain is no longer than there are side-effecting calls.
LEMMA ChainBounded ==
  ASSUME Chain
  PROVE  locks \in UNION {[1 .. n -> SideEffecting] : n \in 0 .. Cardinality(SideEffecting)}
<1>1. IsFiniteSet(SideEffecting)
  BY ToolAssumption, FS_Subset
<1>2. Len(locks) \in Nat /\ locks \in [1 .. Len(locks) -> SideEffecting]
  BY DEF Chain
<1>3. locks \in Injection(1 .. Len(locks), SideEffecting)
  BY <1>2 DEF Chain, Injection, IsInjective
<1>4. Cardinality(1 .. Len(locks)) <= Cardinality(SideEffecting)
  BY <1>1, <1>3, FS_Injection
<1>5. Cardinality(1 .. Len(locks)) = Len(locks)
  BY <1>2, UpToFinite
<1>6. Cardinality(SideEffecting) \in Nat
  BY <1>1, FS_CardinalityType
<1>7. Len(locks) \in 0 .. Cardinality(SideEffecting)
  BY <1>2, <1>4, <1>5, <1>6
<1> QED BY <1>2, <1>7

LEMMA ToolInvImplies ==
  ASSUME ToolInv
  PROVE  CallsAccounted
<1> USE DEF ToolInv
<1>1. ToolTypeOK
  <2>1. \A c \in ToolCalls : call[c] \in ToolLocals
    BY DEF ToolTyping
  <2> QED BY <2>1, ChainBounded DEF ToolTyping, ToolTypeOK, ToolLocals, OpenCall
<1>2. FreshOnce
  BY DEF OneKey, KeyTrue, FreshOnce
<1>3. CallCeiling
  BY DEF Ceilings, CallCeiling
<1> QED BY <1>1, <1>2, <1>3 DEF CallsAccounted

-----------------------------------------------------------------------------
(* The provider pool *)

SlotState == [failures : Nat, until : Nat, inFlight : Nat]
Parsed == [meta : BOOLEAN, texts : Nat, tools : SUBSET {0}, terminal : BOOLEAN]
ModelLocals == [pc : {"new", "returned", "thrown"} \cup InFlight, kind : RequestKinds, slot : ModelSlots,
                queue : Seq(ModelSlots), emitted : BOOLEAN, parsed : Parsed, events : Nat]

\* What a caller has been given.
ShownAnswer == [texts : Nat, tools : Nat, shown : Nat \X Nat]
Given == [from : SUBSET ModelSlots, texts : Nat, tools : Nat, answers : SUBSET ShownAnswer]

PoolTyping ==
  /\ pool \in [ModelSlots -> SlotState]
  /\ modelCall \in [ModelCalls -> ModelLocals]
  /\ received \in [ModelCalls -> Given]
  /\ hungUp \subseteq ModelCalls
  /\ poolTime \in Nat

\* What a caller was given, by its one slot, is what has been parsed; a call that has not
\* passed anything on has given nothing.
ShownIsParsed(m, r) ==
  /\ r.from \subseteq {m.slot}
  /\ r.texts = m.parsed.texts /\ r.tools = Cardinality(m.parsed.tools)
  /\ \A a \in r.answers : a.shown = <<a.texts, a.tools>>
  /\ ~m.emitted => r = Nothing

Streams == \A c \in ModelCalls :
  /\ ShownIsParsed(modelCall[c], received[c])
  /\ modelCall[c].pc # "stream" => ~modelCall[c].emitted

\* The calls under way on a slot, and the counts that agree with them.
BusyOn(mc, s) == {c \in ModelCalls : mc[c].pc \in InFlight /\ mc[c].slot = s}
Exact(p, mc) == \A s \in ModelSlots : p[s].inFlight = Cardinality(BusyOn(mc, s))

PoolInv == PoolTyping /\ Streams /\ Exact(pool, modelCall)

LEMMA SlotOneIsASlot == SlotOrder[1] \in ModelSlots
<1>1. SlotOrder \in Seq(ModelSlots) /\ SlotOrder # <<>>
  BY PoolAssumption
<1>2. 1 \in 1 .. Len(SlotOrder)
  BY <1>1
<1> QED BY <1>2 DEF ModelSlots

LEMMA SlotsFinite == IsFiniteSet(ModelSlots)
<1>1. Len(SlotOrder) \in Nat
  BY PoolAssumption
<1>2. SlotOrder \in Surjection(1 .. Len(SlotOrder), ModelSlots)
  BY PoolAssumption DEF Surjection, ModelSlots
<1>3. IsFiniteSet(1 .. Len(SlotOrder))
  BY <1>1, UpToFinite
<1> QED BY <1>2, <1>3, FS_Surjection

\* orderedSlots has at least one slot to try.
LEMMA OrderedSlotsAreSlots ==
  ASSUME NEW slots \in OrderedSlots
  PROVE  slots \in Seq(ModelSlots) /\ slots # <<>>
<1> DEFINE healthy == {s \in ModelSlots : pool[s].until <= poolTime}
<1>1. CASE healthy # {}
  <2>1. slots \in [1 .. Cardinality(healthy) -> healthy]
    BY <1>1 DEF OrderedSlots
  <2>2. IsFiniteSet(healthy)
    BY SlotsFinite, FS_Subset
  <2>3. Cardinality(healthy) \in Nat /\ Cardinality(healthy) # 0
    BY <1>1, <2>2, FS_CardinalityType, FS_EmptySet
  <2>4. slots \in [1 .. Cardinality(healthy) -> ModelSlots]
    BY <2>1
  <2> HIDE DEF healthy
  <2>5. slots \in Seq(ModelSlots) /\ Len(slots) = Cardinality(healthy)
    BY <2>3, <2>4
  <2> QED BY <2>3, <2>5
<1>2. CASE healthy = {}
  <2>1. \E s \in ModelSlots : slots = <<s>>
    BY <1>2 DEF OrderedSlots
  <2> QED BY <2>1
<1> QED BY <1>1, <1>2

LEMMA CooldownIsNat ==
  ASSUME NEW e, e.retryAfter \in Nat \cup {NoRetryAfter}
  PROVE  CooldownFor(e) \in Nat
<1>1. CASE e.retryAfter # NoRetryAfter
  <2>1. Clamped(e.retryAfter) \in Nat
    BY <1>1, PoolAssumption DEF Clamped
  <2> QED BY <1>1, <2>1 DEF CooldownFor
<1>2. CASE e.retryAfter = NoRetryAfter
  <2>1. 0 \in Nat /\ ShortCooldown \in Nat /\ LimitCooldown \in Nat /\ CredentialCooldown \in Nat
    BY PoolAssumption
  <2>2. CASE e.category \in {"authentication", "permission"}
    BY <1>2, <2>1, <2>2 DEF CooldownFor
  <2>3. CASE e.category \in {"rate_limit", "quota"}
    BY <1>2, <2>1, <2>3 DEF CooldownFor
  <2>4. CASE e.category \in {"network", "timeout", "unavailable"}
    BY <1>2, <2>1, <2>4 DEF CooldownFor
  <2>5. CASE e.category \notin {"authentication", "permission", "rate_limit", "quota", "network", "timeout", "unavailable"}
    BY <1>2, <2>1, <2>5 DEF CooldownFor
  <2> QED BY <2>2, <2>3, <2>4, <2>5
<1> QED BY <1>1, <1>2

\* Success and failure of an attempt leave the counts alone.
LEMMA BlamedCounts ==
  ASSUME NEW p \in [ModelSlots -> SlotState], NEW s \in ModelSlots, NEW e, e.retryAfter \in Nat \cup {NoRetryAfter}, poolTime \in Nat
  PROVE  /\ Blamed(p, s, e) \in [ModelSlots -> SlotState]
         /\ \A q \in ModelSlots : Blamed(p, s, e)[q].inFlight = p[q].inFlight
<1>1. CooldownFor(e) \in Nat
  BY CooldownIsNat
<1>2. PICK u : u = IF CooldownFor(e) > 0 /\ poolTime + CooldownFor(e) > p[s].until THEN poolTime + CooldownFor(e) ELSE p[s].until
  OBVIOUS
<1>3. u \in Nat
  BY <1>1, <1>2 DEF SlotState
<1>4. PICK r : r = [[p[s] EXCEPT !.failures = p[s].failures + 1] EXCEPT !.until = u]
  OBVIOUS
<1>0. p[s] \in SlotState /\ p[s].failures + 1 \in Nat
  BY DEF SlotState
<1>5. r \in SlotState /\ r.inFlight = p[s].inFlight
  BY <1>0, <1>3, <1>4 DEF SlotState
<1>6. Blamed(p, s, e) = [p EXCEPT ![s] = r]
  BY <1>2, <1>4 DEF Blamed, SlotState
<1> QED BY <1>5, <1>6

LEMMA CuredCounts ==
  ASSUME NEW p \in [ModelSlots -> SlotState], NEW s \in ModelSlots
  PROVE  /\ Cured(p, s) \in [ModelSlots -> SlotState]
         /\ \A q \in ModelSlots : Cured(p, s)[q].inFlight = p[q].inFlight
<1>1. PICK r : r = [[p[s] EXCEPT !.failures = 0] EXCEPT !.until = 0]
  OBVIOUS
<1>2. r \in SlotState /\ r.inFlight = p[s].inFlight
  BY <1>1 DEF SlotState
<1>3. Cured(p, s) = [p EXCEPT ![s] = r]
  BY <1>1 DEF Cured, SlotState
<1> QED BY <1>2, <1>3

LEMMA TakenCounts ==
  ASSUME NEW p \in [ModelSlots -> SlotState], NEW s \in ModelSlots
  PROVE  /\ Taken(p, s) \in [ModelSlots -> SlotState]
         /\ Taken(p, s)[s].inFlight = p[s].inFlight + 1
         /\ \A q \in ModelSlots \ {s} : Taken(p, s)[q].inFlight = p[q].inFlight
  BY DEF Taken, SlotState

LEMMA FreedCounts ==
  ASSUME NEW p \in [ModelSlots -> SlotState], NEW s \in ModelSlots, p[s].inFlight > 0
  PROVE  /\ Freed(p, s) \in [ModelSlots -> SlotState]
         /\ Freed(p, s)[s].inFlight = p[s].inFlight - 1
         /\ \A q \in ModelSlots \ {s} : Freed(p, s)[q].inFlight = p[q].inFlight
  BY DEF Freed, SlotState

\* What a call that comes to a slot, or leaves it, does to the sets of busy calls.
LEMMA BusyCounted ==
  ASSUME NEW mc, NEW s
  PROVE  IsFiniteSet(BusyOn(mc, s)) /\ Cardinality(BusyOn(mc, s)) \in Nat
<1>1. BusyOn(mc, s) \subseteq ModelCalls /\ IsFiniteSet(ModelCalls)
  BY PoolAssumption DEF BusyOn
<1> QED BY <1>1, FS_Subset, FS_CardinalityType

LEMMA Arrives ==
  ASSUME NEW mc, NEW c \in ModelCalls, mc[c].pc \notin InFlight, NEW after, NEW s \in ModelSlots,
         after[c].pc \in InFlight, after[c].slot = s, \A d \in ModelCalls \ {c} : after[d] = mc[d],
         NEW p \in [ModelSlots -> SlotState], Exact(p, mc)
  PROVE  Exact(Taken(p, s), after)
<1>1. BusyOn(after, s) = BusyOn(mc, s) \cup {c} /\ c \notin BusyOn(mc, s)
  BY DEF BusyOn
<1>2. Cardinality(BusyOn(after, s)) = Cardinality(BusyOn(mc, s)) + 1
  BY <1>1, BusyCounted, FS_AddElement
<1>3. \A q \in ModelSlots \ {s} : BusyOn(after, q) = BusyOn(mc, q)
  BY DEF BusyOn
<1> QED BY <1>2, <1>3, TakenCounts DEF Exact

LEMMA Leaves ==
  ASSUME NEW mc, NEW c \in ModelCalls, NEW s \in ModelSlots, mc[c].pc \in InFlight, mc[c].slot = s, NEW after,
         after[c].pc \notin InFlight, \A d \in ModelCalls \ {c} : after[d] = mc[d],
         NEW p \in [ModelSlots -> SlotState], Exact(p, mc)
  PROVE  p[s].inFlight > 0 /\ Exact(Freed(p, s), after)
<1>1. BusyOn(after, s) = BusyOn(mc, s) \ {c} /\ c \in BusyOn(mc, s)
  BY DEF BusyOn
<1>2. Cardinality(BusyOn(after, s)) = Cardinality(BusyOn(mc, s)) - 1
  <2>1. IsFiniteSet(BusyOn(mc, s))
    BY BusyCounted
  <2>2. Cardinality(BusyOn(mc, s) \ {c}) = Cardinality(BusyOn(mc, s)) - 1
    BY <1>1, <2>1, FS_RemoveElement
  <2> QED BY <1>1, <2>2
<1>3. \A q \in ModelSlots \ {s} : BusyOn(after, q) = BusyOn(mc, q)
  BY DEF BusyOn
<1>4. p[s].inFlight > 0
  BY <1>2, BusyCounted DEF Exact
<1> QED BY <1>2, <1>3, <1>4, FreedCounts DEF Exact

\* A call that rests has shown nothing.
LEMMA RestingTyped ==
  ASSUME NEW pc \in {"new", "returned", "thrown"}
  PROVE  Resting(pc) \in ModelLocals /\ ShownIsParsed(Resting(pc), Nothing) /\ ~Resting(pc).emitted /\ Resting(pc).pc = pc
<1>1. SlotOrder[1] \in ModelSlots /\ <<>> \in Seq(ModelSlots) /\ "stream" \in RequestKinds
  BY SlotOneIsASlot DEF RequestKinds
<1>2. Unparsed \in Parsed /\ Unparsed.texts = 0 /\ Unparsed.tools = {}
  BY DEF Unparsed, Parsed
<1>3. Cardinality({}) = 0
  BY FS_EmptySet
<1> QED BY <1>1, <1>2, <1>3 DEF Resting, ModelLocals, ShownIsParsed, Nothing

LEMMA NothingGiven == Nothing \in Given
  BY DEF Nothing, Given

LEMMA PoolInitially ==
  PoolInit => PoolInv
<1> SUFFICES ASSUME PoolInit PROVE PoolInv
  OBVIOUS
<1>1. PoolTyping
  BY RestingTyped, NothingGiven DEF PoolInit, PoolTyping, SlotState
<1>2. Streams
  BY RestingTyped DEF PoolInit, Streams
<1>3. ASSUME NEW s \in ModelSlots PROVE pool[s].inFlight = Cardinality(BusyOn(modelCall, s))
  <2>1. BusyOn(modelCall, s) = {}
    BY RestingTyped DEF PoolInit, BusyOn, InFlight
  <2> QED BY <2>1, FS_EmptySet DEF PoolInit
<1> QED BY <1>1, <1>2, <1>3 DEF PoolInv, Exact

\* The end of an attempt that is the end of its call.
LEMMA OverKept ==
  ASSUME PoolInv, NEW c \in ModelCalls, modelCall[c].pc \in InFlight, NEW pc \in {"returned", "thrown"},
         NEW p \in [ModelSlots -> SlotState], \A q \in ModelSlots : p[q].inFlight = pool[q].inFlight,
         pool' = Freed(p, modelCall[c].slot), CallOver(c, pc)
  PROVE  PoolInv'
<1>1. modelCall[c].slot \in ModelSlots
  BY DEF PoolInv, PoolTyping, ModelLocals
<1>2. Exact(p, modelCall)
  BY DEF PoolInv, Exact
<1>3. /\ modelCall' \in [ModelCalls -> ModelLocals]
      /\ modelCall'[c] = Resting(pc) /\ \A d \in ModelCalls \ {c} : modelCall'[d] = modelCall[d]
      /\ received' \in [ModelCalls -> Given]
      /\ received'[c] = Nothing /\ \A d \in ModelCalls \ {c} : received'[d] = received[d]
      /\ hungUp' \subseteq ModelCalls /\ poolTime' \in Nat
  BY RestingTyped, NothingGiven DEF PoolInv, PoolTyping, CallOver
<1>4. modelCall'[c].pc \notin InFlight
  BY <1>3, RestingTyped DEF InFlight
<1>5. p[modelCall[c].slot].inFlight > 0 /\ Exact(pool', modelCall')
  BY <1>1, <1>2, <1>3, <1>4, Leaves
<1>6. pool' \in [ModelSlots -> SlotState]
  BY <1>1, <1>5, FreedCounts
<1>7. ASSUME NEW d \in ModelCalls
      PROVE  ShownIsParsed(modelCall'[d], received'[d]) /\ (modelCall'[d].pc # "stream" => ~modelCall'[d].emitted)
  <2>1. CASE d = c
    BY <1>3, <2>1, RestingTyped
  <2>2. CASE d # c
    BY <1>3, <2>2 DEF PoolInv, Streams
  <2> QED BY <2>1, <2>2
<1> QED BY <1>3, <1>5, <1>6, <1>7 DEF PoolInv, PoolTyping, Streams

\* What the loop over the slots makes of a call.
LEMMA AttemptingTyped ==
  ASSUME NEW kind \in RequestKinds, NEW slots \in Seq(ModelSlots), slots # <<>>,
         NEW m, m = [pc |-> "request", kind |-> kind, slot |-> Head(slots), queue |-> Tail(slots), emitted |-> FALSE,
                     parsed |-> Unparsed, events |-> 0]
  PROVE  /\ m \in ModelLocals /\ m.pc = "request" /\ m.slot = Head(slots) /\ ~m.emitted
         /\ ShownIsParsed(m, Nothing)
<1>1. Head(slots) \in ModelSlots /\ Tail(slots) \in Seq(ModelSlots)
  BY HeadTailProperties
<1>2. Unparsed \in Parsed /\ Unparsed.texts = 0 /\ Unparsed.tools = {}
  BY DEF Unparsed, Parsed
<1>3. Cardinality({}) = 0
  BY FS_EmptySet
<1> QED BY <1>1, <1>2, <1>3 DEF ModelLocals, ShownIsParsed, Nothing, InFlight

\* The next slot is tried after an attempt that is over.
LEMMA NextSlotKept ==
  ASSUME PoolInv, NEW c \in ModelCalls, modelCall[c].pc \in InFlight, ~modelCall[c].emitted, modelCall[c].queue # <<>>,
         NEW p \in [ModelSlots -> SlotState], \A q \in ModelSlots : p[q].inFlight = pool[q].inFlight,
         Attempting(c, modelCall[c].kind, Freed(p, modelCall[c].slot), modelCall[c].queue), UNCHANGED <<hungUp, received, poolTime>>
  PROVE  PoolInv'
<1> DEFINE s == modelCall[c].slot
           rest == Resting("thrown")
<1>1. s \in ModelSlots /\ modelCall[c].queue \in Seq(ModelSlots) /\ modelCall[c].kind \in RequestKinds /\ modelCall \in [ModelCalls -> ModelLocals]
  BY DEF PoolInv, PoolTyping, ModelLocals
<1>2. Exact(p, modelCall)
  BY DEF PoolInv, Exact
<1>3. PICK between : between = [modelCall EXCEPT ![c] = rest]
  OBVIOUS
<1>4. between[c].pc \notin InFlight /\ \A d \in ModelCalls \ {c} : between[d] = modelCall[d]
  BY <1>1, <1>3, RestingTyped DEF InFlight
<1>5. p[s].inFlight > 0 /\ Exact(Freed(p, s), between)
  BY <1>1, <1>2, <1>4, Leaves
<1>6. Freed(p, s) \in [ModelSlots -> SlotState]
  BY <1>1, <1>5, FreedCounts
<1>7. PICK m : m = [pc |-> "request", kind |-> modelCall[c].kind, slot |-> Head(modelCall[c].queue), queue |-> Tail(modelCall[c].queue),
                    emitted |-> FALSE, parsed |-> Unparsed, events |-> 0]
  OBVIOUS
<1>8. m \in ModelLocals /\ m.pc = "request" /\ m.slot = Head(modelCall[c].queue) /\ ~m.emitted /\ ShownIsParsed(m, Nothing)
  BY <1>1, <1>7, AttemptingTyped
<1>9. /\ modelCall' \in [ModelCalls -> ModelLocals] /\ modelCall'[c] = m
      /\ \A d \in ModelCalls \ {c} : modelCall'[d] = modelCall[d] /\ modelCall'[d] = between[d]
      /\ pool' = Taken(Freed(p, s), m.slot)
  BY <1>1, <1>4, <1>7, <1>8 DEF Attempting
<1>10. m.slot \in ModelSlots /\ m.pc \in InFlight
  BY <1>8 DEF ModelLocals, InFlight
<1>11. Exact(pool', modelCall')
  BY <1>4, <1>5, <1>6, <1>9, <1>10, Arrives
<1>12. pool' \in [ModelSlots -> SlotState]
  BY <1>6, <1>9, <1>10, TakenCounts
<1>13. received[c] = Nothing
  BY DEF PoolInv, Streams, ShownIsParsed
<1>14. ASSUME NEW d \in ModelCalls
       PROVE  ShownIsParsed(modelCall'[d], received'[d]) /\ (modelCall'[d].pc # "stream" => ~modelCall'[d].emitted)
  <2>1. CASE d = c
    BY <1>8, <1>9, <1>13, <2>1
  <2>2. CASE d # c
    BY <1>9, <2>2 DEF PoolInv, Streams
  <2> QED BY <2>1, <2>2
<1> QED BY <1>9, <1>11, <1>12, <1>14 DEF PoolInv, PoolTyping, Streams

\* An attempt fails: the call ends, or goes on to the next slot if nothing was shown.
LEMMA FailureKept ==
  ASSUME PoolInv, NEW c \in ModelCalls, modelCall[c].pc \in InFlight,
         NEW e, e.retryAfter \in Nat \cup {NoRetryAfter}, AttemptFails(c, e)
  PROVE  PoolInv'
<1>1. PICK p : p = Blamed(pool, modelCall[c].slot, e)
  OBVIOUS
<1>t. pool \in [ModelSlots -> SlotState] /\ modelCall[c].slot \in ModelSlots /\ poolTime \in Nat
  BY DEF PoolInv, PoolTyping, ModelLocals
<1>2. p \in [ModelSlots -> SlotState] /\ \A q \in ModelSlots : p[q].inFlight = pool[q].inFlight
  BY <1>1, <1>t, BlamedCounts
<1>3. CASE GivesUp(c, e) /\ pool' = Freed(p, modelCall[c].slot) /\ CallOver(c, "thrown")
  BY <1>2, <1>3, OverKept
<1>4. CASE /\ ~GivesUp(c, e) /\ Attempting(c, modelCall[c].kind, Freed(p, modelCall[c].slot), modelCall[c].queue)
           /\ UNCHANGED <<hungUp, received, poolTime>>
  <2>1. ~modelCall[c].emitted /\ modelCall[c].queue # <<>>
    BY <1>4 DEF GivesUp
  <2> QED BY <1>2, <1>4, <2>1, NextSlotKept
<1> QED BY <1>1, <1>3, <1>4 DEF AttemptFails

LEMMA SuccessKept ==
  ASSUME PoolInv, NEW c \in ModelCalls, modelCall[c].pc \in InFlight, AttemptSucceeds(c)
  PROVE  PoolInv'
<1>1. PICK p : p = Cured(pool, modelCall[c].slot)
  OBVIOUS
<1>2. p \in [ModelSlots -> SlotState] /\ \A q \in ModelSlots : p[q].inFlight = pool[q].inFlight
  BY <1>1, CuredCounts DEF PoolInv, PoolTyping, ModelLocals
<1> QED BY <1>1, <1>2, OverKept DEF AttemptSucceeds

LEMMA StartKept ==
  ASSUME PoolInv, NEW c \in ModelCalls, StartModelCall(c)
  PROVE  PoolInv'
<1>1. PICK kind \in RequestKinds, slots \in OrderedSlots : Attempting(c, kind, pool, slots)
  BY DEF StartModelCall
<1>2. slots \in Seq(ModelSlots) /\ slots # <<>> /\ modelCall \in [ModelCalls -> ModelLocals] /\ pool \in [ModelSlots -> SlotState]
  BY OrderedSlotsAreSlots DEF PoolInv, PoolTyping
<1>3. PICK m : m = [pc |-> "request", kind |-> kind, slot |-> Head(slots), queue |-> Tail(slots),
                    emitted |-> FALSE, parsed |-> Unparsed, events |-> 0]
  OBVIOUS
<1>4. m \in ModelLocals /\ m.pc = "request" /\ m.slot = Head(slots) /\ ~m.emitted /\ ShownIsParsed(m, Nothing)
  BY <1>2, <1>3, AttemptingTyped
<1>5. /\ modelCall' \in [ModelCalls -> ModelLocals] /\ modelCall'[c] = m
      /\ \A d \in ModelCalls \ {c} : modelCall'[d] = modelCall[d]
      /\ pool' = Taken(pool, m.slot)
  BY <1>1, <1>2, <1>3, <1>4 DEF Attempting
<1>6. m.slot \in ModelSlots /\ m.pc \in InFlight /\ modelCall[c].pc \notin InFlight
  BY <1>4 DEF ModelLocals, InFlight, StartModelCall
<1>7. Exact(pool', modelCall')
  BY <1>2, <1>5, <1>6, Arrives DEF PoolInv
<1>8. pool' \in [ModelSlots -> SlotState]
  BY <1>2, <1>5, <1>6, TakenCounts
<1>9. received[c] = Nothing /\ UNCHANGED <<hungUp, received, poolTime>>
  <2>1. ~modelCall[c].emitted
    BY DEF PoolInv, Streams, StartModelCall
  <2> QED BY <2>1 DEF PoolInv, Streams, ShownIsParsed, StartModelCall
<1>10. ASSUME NEW d \in ModelCalls
       PROVE  ShownIsParsed(modelCall'[d], received'[d]) /\ (modelCall'[d].pc # "stream" => ~modelCall'[d].emitted)
  <2>1. CASE d = c
    BY <1>4, <1>5, <1>9, <2>1
  <2>2. CASE d # c
    BY <1>5, <1>9, <2>2 DEF PoolInv, Streams
  <2> QED BY <2>1, <2>2
<1> QED BY <1>5, <1>7, <1>8, <1>9, <1>10 DEF PoolInv, PoolTyping, Streams

\* A step of an attempt that goes on: the slot is kept, and what is shown is what is parsed.
LEMMA GoesOnKept ==
  ASSUME PoolInv, NEW c \in ModelCalls, modelCall[c].pc \in InFlight,
         NEW m \in ModelLocals, m.pc \in InFlight, m.slot = modelCall[c].slot, m.pc # "stream" => ~m.emitted,
         NEW r \in Given, ShownIsParsed(m, r),
         modelCall' = [modelCall EXCEPT ![c] = m], received' = [received EXCEPT ![c] = r], UNCHANGED <<pool, hungUp, poolTime>>
  PROVE  PoolInv'
<1>1. /\ modelCall' \in [ModelCalls -> ModelLocals] /\ modelCall'[c] = m /\ \A d \in ModelCalls \ {c} : modelCall'[d] = modelCall[d]
      /\ received' \in [ModelCalls -> Given] /\ received'[c] = r /\ \A d \in ModelCalls \ {c} : received'[d] = received[d]
  BY DEF PoolInv, PoolTyping
<1>2. \A s \in ModelSlots : BusyOn(modelCall', s) = BusyOn(modelCall, s)
  BY <1>1 DEF BusyOn
<1>3. Exact(pool', modelCall')
  BY <1>2 DEF PoolInv, Exact
<1>4. ASSUME NEW d \in ModelCalls
      PROVE  ShownIsParsed(modelCall'[d], received'[d]) /\ (modelCall'[d].pc # "stream" => ~modelCall'[d].emitted)
  <2>1. CASE d = c
    BY <1>1, <2>1
  <2>2. CASE d # c
    BY <1>1, <2>2 DEF PoolInv, Streams
  <2> QED BY <2>1, <2>2
<1> QED BY <1>1, <1>3, <1>4 DEF PoolInv, PoolTyping, Streams

\* An event is passed on.
LEMMA PassedKept ==
  ASSUME PoolInv, NEW c \in ModelCalls, modelCall[c].pc = "stream",
         NEW parsed \in Parsed, NEW given \in Given, given.from = received[c].from,
         given.texts = parsed.texts, given.tools = Cardinality(parsed.tools),
         \A a \in given.answers : a.shown = <<a.texts, a.tools>>, Passed(c, parsed, given)
  PROVE  PoolInv'
<1>1. modelCall[c] \in ModelLocals /\ modelCall[c].slot \in ModelSlots /\ modelCall[c].events + 1 \in Nat
  BY DEF PoolInv, PoolTyping, ModelLocals
<1>2. PICK m : m = [[[modelCall[c] EXCEPT !.parsed = parsed] EXCEPT !.emitted = TRUE] EXCEPT !.events = modelCall[c].events + 1]
  OBVIOUS
<1>3. m \in ModelLocals /\ m.slot = modelCall[c].slot /\ m.pc = "stream" /\ m.parsed = parsed /\ m.emitted
  BY <1>1, <1>2 DEF ModelLocals
<1>4. PICK r : r = [given EXCEPT !.from = given.from \cup {modelCall[c].slot}]
  OBVIOUS
<1>5. r \in Given /\ r.from = given.from \cup {modelCall[c].slot} /\ r.texts = given.texts /\ r.tools = given.tools /\ r.answers = given.answers
  BY <1>1, <1>4 DEF Given
<1>6. r.from \subseteq {m.slot}
  BY <1>3, <1>5 DEF PoolInv, Streams, ShownIsParsed
<1>7. ShownIsParsed(m, r)
  BY <1>3, <1>5, <1>6 DEF ShownIsParsed
<1>8. modelCall' = [modelCall EXCEPT ![c] = m] /\ UNCHANGED <<pool, hungUp, poolTime>>
  BY <1>1, <1>2 DEF Passed, ModelLocals, PoolInv, PoolTyping
<1>9. received' = [received EXCEPT ![c] = r]
  BY <1>4 DEF Passed
<1>10. modelCall[c].pc \in InFlight /\ m.pc \in InFlight
  BY <1>3 DEF InFlight
<1> QED BY <1>3, <1>5, <1>7, <1>8, <1>9, <1>10, GoesOnKept

LEMMA PayloadKept ==
  ASSUME PoolInv, NEW c \in ModelCalls, StreamPayload(c)
  PROVE  PoolInv'
<1>1. PICK m : m = modelCall[c].parsed
  OBVIOUS
<1>2. PICK r : r = received[c]
  OBVIOUS
<1>3. modelCall[c].pc = "stream" /\ m \in Parsed /\ r \in Given
  BY <1>1, <1>2 DEF StreamPayload, PoolInv, PoolTyping, ModelLocals
<1>4. r.texts = m.texts /\ r.tools = Cardinality(m.tools) /\ \A a \in r.answers : a.shown = <<a.texts, a.tools>>
  BY <1>1, <1>2 DEF PoolInv, Streams, ShownIsParsed
<1>5. CASE Passed(c, [m EXCEPT !.meta = TRUE], r)
  <2>1. PICK n : n = [m EXCEPT !.meta = TRUE]
    OBVIOUS
  <2>2. n \in Parsed /\ n.texts = m.texts /\ n.tools = m.tools
    BY <1>3, <2>1 DEF Parsed
  <2> QED BY <1>2, <1>3, <1>4, <1>5, <2>1, <2>2, PassedKept
<1>6. CASE Passed(c, [m EXCEPT !.texts = @ + 1], [r EXCEPT !.texts = @ + 1])
  <2>1. PICK n : n = [m EXCEPT !.texts = m.texts + 1]
    OBVIOUS
  <2>2. n \in Parsed /\ n.texts = m.texts + 1 /\ n.tools = m.tools
    BY <1>3, <2>1 DEF Parsed
  <2>3. PICK g : g = [r EXCEPT !.texts = r.texts + 1]
    OBVIOUS
  <2>4. g \in Given /\ g.texts = r.texts + 1 /\ g.tools = r.tools /\ g.answers = r.answers /\ g.from = r.from
    BY <1>3, <2>3 DEF Given
  <2>5. Passed(c, n, g)
    BY <1>6, <2>1, <2>3
  <2> QED BY <1>2, <1>3, <1>4, <2>2, <2>4, <2>5, PassedKept
<1>7. CASE 0 \notin m.tools /\ Passed(c, [m EXCEPT !.tools = @ \cup {0}], [r EXCEPT !.tools = @ + 1])
  <2>1. PICK n : n = [m EXCEPT !.tools = m.tools \cup {0}]
    OBVIOUS
  <2>2. n \in Parsed /\ n.texts = m.texts /\ n.tools = m.tools \cup {0}
    BY <1>3, <2>1 DEF Parsed
  <2>3. PICK g : g = [r EXCEPT !.tools = r.tools + 1]
    OBVIOUS
  <2>4. g \in Given /\ g.texts = r.texts /\ g.tools = r.tools + 1 /\ g.answers = r.answers /\ g.from = r.from
    BY <1>3, <2>3 DEF Given
  <2>5. Cardinality(n.tools) = r.tools + 1
    <3>1. m.tools = {} /\ n.tools = {0}
      BY <1>3, <1>7, <2>2 DEF Parsed
    <3> QED BY <1>4, <3>1, FS_EmptySet, FS_Singleton
  <2>6. Passed(c, n, g)
    BY <1>7, <2>1, <2>3
  <2> QED BY <1>2, <1>3, <1>4, <2>2, <2>4, <2>5, <2>6, PassedKept
<1> QED BY <1>1, <1>2, <1>5, <1>6, <1>7 DEF StreamPayload

LEMMA DoneKept ==
  ASSUME PoolInv, NEW c \in ModelCalls, StreamDone(c)
  PROVE  PoolInv'
<1>1. PICK m : m = modelCall[c].parsed
  OBVIOUS
<1>2. PICK r : r = received[c]
  OBVIOUS
<1>3. modelCall[c].pc = "stream" /\ m \in Parsed /\ r \in Given
  BY <1>1, <1>2 DEF StreamDone, PoolInv, PoolTyping, ModelLocals
<1>4. r.texts = m.texts /\ r.tools = Cardinality(m.tools) /\ \A a \in r.answers : a.shown = <<a.texts, a.tools>>
  BY <1>1, <1>2 DEF PoolInv, Streams, ShownIsParsed
<1>5. PICK n : n = [m EXCEPT !.terminal = TRUE]
  OBVIOUS
<1>6. n \in Parsed /\ n.texts = m.texts /\ n.tools = m.tools
  BY <1>3, <1>5 DEF Parsed
<1>7. PICK a : a = [texts |-> m.texts, tools |-> Cardinality(m.tools), shown |-> <<r.texts, r.tools>>]
  OBVIOUS
<1>8. a \in ShownAnswer /\ a.shown = <<a.texts, a.tools>>
  BY <1>3, <1>4, <1>7 DEF ShownAnswer, Given, Parsed
<1>9. PICK g : g = [r EXCEPT !.answers = r.answers \cup {a}]
  OBVIOUS
<1>10. g \in Given /\ g.texts = r.texts /\ g.tools = r.tools /\ g.answers = r.answers \cup {a} /\ g.from = r.from
  BY <1>3, <1>8, <1>9 DEF Given
<1>11. Passed(c, n, g)
  BY <1>1, <1>2, <1>5, <1>7, <1>9 DEF StreamDone
<1> QED BY <1>2, <1>3, <1>4, <1>6, <1>8, <1>10, <1>11, PassedKept

\* The answer to a request arrives.
LEMMA RespondsKept ==
  ASSUME PoolInv, NEW c \in ModelCalls, Responds(c)
  PROVE  PoolInv'
<1>1. modelCall[c].pc = "request" /\ modelCall[c].pc \in InFlight /\ modelCall[c] \in ModelLocals /\ ~modelCall[c].emitted
  BY DEF Responds, InFlight, PoolInv, PoolTyping, Streams
<1>2. CASE \E a \in HttpAnswers : AttemptFails(c, HttpError(a))
  <2>1. \A a \in HttpAnswers : HttpError(a).retryAfter \in Nat \cup {NoRetryAfter}
    BY PoolAssumption DEF HttpError
  <2> QED BY <1>1, <1>2, <2>1, FailureKept
<1>3. CASE /\ modelCall' = [modelCall EXCEPT ![c].pc = IF modelCall[c].kind = "stream" THEN "stream" ELSE "body"]
           /\ UNCHANGED <<pool, hungUp, received, poolTime>>
  <2>1. PICK pc \in {"stream", "body"} : modelCall' = [modelCall EXCEPT ![c].pc = pc]
    BY <1>3
  <2>2. PICK m : m = [modelCall[c] EXCEPT !.pc = pc]
    OBVIOUS
  <2>3. m \in ModelLocals /\ m.pc \in InFlight /\ m.slot = modelCall[c].slot /\ m.parsed = modelCall[c].parsed /\ ~m.emitted
    BY <1>1, <2>2 DEF ModelLocals, InFlight
  <2>4. ShownIsParsed(m, received[c]) /\ received[c] \in Given
    BY <1>1, <2>3 DEF PoolInv, PoolTyping, Streams, ShownIsParsed
  <2>5. modelCall' = [modelCall EXCEPT ![c] = m] /\ received' = [received EXCEPT ![c] = received[c]]
    BY <1>3, <2>1, <2>2 DEF PoolInv, PoolTyping
  <2> QED BY <1>1, <1>3, <2>3, <2>4, <2>5, GoesOnKept
<1> QED BY <1>2, <1>3 DEF Responds

LEMMA LeavingKept ==
  ASSUME PoolInv, NEW c \in ModelCalls, LeavesStream(c)
  PROVE  PoolInv'
<1>1. pool \in [ModelSlots -> SlotState] /\ modelCall[c].pc \in InFlight
  BY DEF LeavesStream, InFlight, PoolInv, PoolTyping
<1> QED BY <1>1, OverKept DEF LeavesStream

LEMMA PoolInvariant ==
  ASSUME PoolInv, PoolNext \/ UNCHANGED poolVars
  PROVE  PoolInv'
<1>f. \A category : Failure(category).retryAfter \in Nat \cup {NoRetryAfter}
  BY DEF Failure
<1>1. ASSUME NEW c \in ModelCalls, RequestRefused(c) PROVE PoolInv'
  BY <1>f, <1>1, FailureKept DEF RequestRefused, InFlight
<1>2. ASSUME NEW c \in ModelCalls, RequestFails(c) PROVE PoolInv'
  BY <1>f, <1>2, FailureKept DEF RequestFails, InFlight
<1>3. ASSUME NEW c \in ModelCalls, BodyRead(c) PROVE PoolInv'
  BY <1>f, <1>3, FailureKept, SuccessKept DEF BodyRead, InFlight
<1>4. ASSUME NEW c \in ModelCalls, StreamCloses(c) PROVE PoolInv'
  BY <1>f, <1>4, FailureKept, SuccessKept DEF StreamCloses, InFlight
<1>5. ASSUME NEW c \in ModelCalls, StreamBreaks(c) PROVE PoolInv'
  BY <1>f, <1>5, FailureKept DEF StreamBreaks, InFlight
<1>6. ASSUME NEW c \in ModelCalls, HangsUp(c) PROVE PoolInv'
  BY <1>6 DEF HangsUp, PoolInv, PoolTyping, Streams, Exact, BusyOn
<1>7. ASSUME PoolTick PROVE PoolInv'
  BY <1>7 DEF PoolTick, PoolInv, PoolTyping, Streams, Exact, BusyOn
<1>8. ASSUME UNCHANGED poolVars PROVE PoolInv'
  BY <1>8 DEF poolVars, PoolInv, PoolTyping, Streams, Exact, BusyOn
<1> QED
  BY <1>1, <1>2, <1>3, <1>4, <1>5, <1>6, <1>7, <1>8, StartKept, RespondsKept, PayloadKept, DoneKept, LeavingKept
     DEF PoolNext, AttemptStep

LEMMA PoolInvImplies ==
  ASSUME PoolInv
  PROVE  PoolSound
<1>1. PoolTypeOK
  BY DEF PoolInv, PoolTyping, PoolTypeOK, SlotState, ModelLocals
<1>2. InFlightExact
  BY DEF PoolInv, Exact, BusyOn, InFlightExact
<1>3. OneSource
  <2>1. ASSUME NEW c \in ModelCalls
        PROVE  Cardinality(received[c].from) <= 1 /\ \A a \in received[c].answers : a.shown = <<a.texts, a.tools>>
    <3>1. received[c].from \subseteq {modelCall[c].slot} /\ \A a \in received[c].answers : a.shown = <<a.texts, a.tools>>
      BY DEF PoolInv, Streams, ShownIsParsed
    <3>2. received[c].from = {} \/ received[c].from = {modelCall[c].slot}
      BY <3>1
    <3>3. Cardinality(received[c].from) <= 1
      <4>1. CASE received[c].from = {}
        BY <4>1, FS_EmptySet
      <4>2. CASE received[c].from = {modelCall[c].slot}
        <5>1. Cardinality({modelCall[c].slot}) = 1
          BY FS_Singleton
        <5> QED BY <4>2, <5>1
      <4> QED BY <3>2, <4>1, <4>2
    <3> QED BY <3>1, <3>3
  <2> QED BY <2>1 DEF OneSource
<1> QED BY <1>1, <1>2, <1>3 DEF PoolSound

-----------------------------------------------------------------------------
(* The coordinator *)

Staffings == UNION {[ts -> Specialists] : ts \in SUBSET Tasks}
PlanRecords == [state : {"reserved", "executing", "released"}, expires : Nat, staffing : Staffings, called : BOOLEAN]
LeaseRecords == [plan : Nat, task : Tasks, specialist : Specialists]

\* The leases of one specialist, and of one plan.
OfSpecialist(ls, s) == {l \in ls : l.specialist = s}
OfPlan(ls, p) == {l \in ls : l.plan = p}

\* Leases that may be held together.
Ledger(ls) ==
  /\ ls \subseteq LeaseRecords /\ IsFiniteSet(ls)
  /\ \A l, m \in ls : l # m => l.task # m.task /\ ~TasksConflict(l.task, m.task)
  /\ Cardinality(ls) <= MaxActive
  /\ \A p \in Nat : Cardinality(OfPlan(ls, p)) <= MaxBatchSize
  /\ \A s \in Specialists : Cardinality(OfSpecialist(ls, s)) <= MaxConcurrency[s]

\* A plan holds its leases until it is released, and nothing else holds one.
PlansHeld(ps, ls, kn) ==
  /\ \A l \in ls : l.plan \in DOMAIN ps /\ ps[l.plan].state # "released"
  /\ \A p \in DOMAIN ps : ps[p].state # "released" =>
       p \in kn /\ \A t \in DOMAIN ps[p].staffing : \E l \in ls : l.plan = p /\ l.task = t

\* Only an execute that began has workers and answers; a worker that was not told to stop
\* works on an open plan and is awaited.
Workers(ps, wk, ans) ==
  /\ \A w \in Worker : wk[w].running \/ ans[w] # "none" => w[1] \in DOMAIN ps /\ ps[w[1]].called
  /\ \A p \in DOMAIN ps : ps[p].called => ps[p].state # "reserved"
  /\ \A w \in Worker : wk[w].running /\ ~wk[w].aborted =>
       w[2] \in DOMAIN ps[w[1]].staffing /\ ps[w[1]].state # "released" /\ ans[w] = "none"

BookTyping(b) ==
  /\ b.plans \in Seq(PlanRecords) /\ Len(b.plans) <= MaxPlans
  /\ b.work \in [Worker -> [running : BOOLEAN, aborted : BOOLEAN]]

BookOK(b, kn, ans) == BookTyping(b) /\ Ledger(b.leases) /\ PlansHeld(b.plans, b.leases, kn) /\ Workers(b.plans, b.work, ans)

CoordinatorTyping ==
  /\ maxPlanRecords \in RecordLimits /\ wall \in 0 .. MaxTime
  /\ known \subseteq DOMAIN plans /\ Cardinality(known) <= maxPlanRecords
  /\ answer \in [Worker -> {"none", "accepted", "refused"}]
  /\ outcome \in [PlanIds -> {"none", "thrown", "result"}]

CoordinatorInv == CoordinatorTyping /\ BookOK(Book, known, answer)

LEMMA CoordinatorInitially ==
  CoordinatorInit => CoordinatorInv
<1> SUFFICES ASSUME CoordinatorInit PROVE CoordinatorInv
  OBVIOUS
<1>1. IsFiniteSet({}) /\ Cardinality({}) = 0
  BY FS_EmptySet
<1>2. CoordinatorTyping
  <2>1. 0 \in 0 .. MaxTime /\ maxPlanRecords \in Nat
    BY CoordinatorAssumption DEF CoordinatorInit
  <2> QED BY <1>1, <2>1 DEF CoordinatorInit, CoordinatorTyping
<1>3. BookTyping(Book)
  BY CoordinatorAssumption DEF CoordinatorInit, Book, BookTyping, NoWork
<1>4. Ledger({})
  <2>1. \A p : OfPlan({}, p) = {}
    BY DEF OfPlan
  <2>2. \A s : OfSpecialist({}, s) = {}
    BY DEF OfSpecialist
  <2>3. MaxActive \in Nat /\ MaxBatchSize \in Nat /\ \A s \in Specialists : MaxConcurrency[s] \in Nat
    BY CoordinatorAssumption
  <2> QED BY <1>1, <2>1, <2>2, <2>3 DEF Ledger
<1>5. PlansHeld(plans, leases, known) /\ Workers(plans, work, answer)
  BY DEF CoordinatorInit, PlansHeld, Workers, NoWork
<1> QED BY <1>2, <1>3, <1>4, <1>5 DEF CoordinatorInit, CoordinatorInv, BookOK, Book

-----------------------------------------------------------------------------
(* Reserving leases *)

LEMMA ConflictsAreMutual ==
  ASSUME NEW t, NEW u, TasksConflict(t, u)
  PROVE  TasksConflict(u, t)
<1>1. PICK c \in Claims[t], d \in Claims[u] : ClaimsConflict(c, d)
  BY DEF TasksConflict
<1>2. ClaimsConflict(d, c)
  BY <1>1 DEF ClaimsConflict, RepositoryKeysIntersect
<1> QED BY <1>2 DEF TasksConflict

\* What may be held together may be held in part.
LEMMA FewerLeases ==
  ASSUME NEW ls, Ledger(ls), NEW some \in SUBSET ls
  PROVE  Ledger(some)
<1>1. IsFiniteSet(ls) /\ IsFiniteSet(some) /\ Cardinality(some) <= Cardinality(ls)
  BY FS_Subset DEF Ledger
<1>2. ASSUME NEW p PROVE Cardinality(OfPlan(some, p)) <= Cardinality(OfPlan(ls, p))
  BY <1>1, FS_Subset DEF OfPlan
<1>3. ASSUME NEW s PROVE Cardinality(OfSpecialist(some, s)) <= Cardinality(OfSpecialist(ls, s))
  BY <1>1, FS_Subset DEF OfSpecialist
<1>4. Cardinality(some) \in Nat /\ Cardinality(ls) \in Nat
  BY <1>1, FS_CardinalityType
<1>5. \A p : Cardinality(OfPlan(some, p)) \in Nat /\ Cardinality(OfPlan(ls, p)) \in Nat
  BY <1>1, FS_Subset, FS_CardinalityType DEF OfPlan
<1>6. \A s : Cardinality(OfSpecialist(some, s)) \in Nat /\ Cardinality(OfSpecialist(ls, s)) \in Nat
  BY <1>1, FS_Subset, FS_CardinalityType DEF OfSpecialist
<1>7. MaxActive \in Nat /\ MaxBatchSize \in Nat /\ \A s \in Specialists : MaxConcurrency[s] \in Nat
  BY CoordinatorAssumption
<1>8. Cardinality(some) <= MaxActive
  BY <1>1, <1>4, <1>7 DEF Ledger
<1>9. \A p \in Nat : Cardinality(OfPlan(some, p)) <= MaxBatchSize
  BY <1>2, <1>5, <1>7 DEF Ledger
<1>10. \A s \in Specialists : Cardinality(OfSpecialist(some, s)) <= MaxConcurrency[s]
  BY <1>3, <1>6, <1>7 DEF Ledger
<1> QED BY <1>1, <1>8, <1>9, <1>10 DEF Ledger

\* The specialist that plan chooses has room.
LEMMA ChosenHasRoom ==
  ASSUME NEW ls, NEW t, Available(ls, t) # {}
  PROVE  Chosen(ls, t) \in Specialists /\ ActiveCount(ls, Chosen(ls, t)) < MaxConcurrency[Chosen(ls, t)]
<1>1. Available(ls, t) \subseteq Nat
  BY DEF Available
<1>2. Min(Available(ls, t)) \in Available(ls, t)
  BY <1>1, LeastNat
<1>3. Min(Available(ls, t)) \in 1 .. Len(SpecialistOrder) /\ SpecialistOrder \in Seq(Specialists)
  BY <1>2, CoordinatorAssumption DEF Available
<1> QED BY <1>2, <1>3 DEF Chosen, Available

\* A task that is assignable gets a lease beside the others.
LEMMA OneMoreLease ==
  ASSUME NEW ls, Ledger(ls), NEW p \in Nat, NEW t \in Tasks, Assignable(ls, p, t),
         NEW l, l = [plan |-> p, task |-> t, specialist |-> Chosen(ls, t)]
  PROVE  Ledger(ls \cup {l})
<1>1. l \in LeaseRecords /\ l.plan = p /\ l.task = t /\ l.specialist = Chosen(ls, t)
  BY ChosenHasRoom DEF Assignable, LeaseRecords
<1>2. IsFiniteSet(ls)
  BY DEF Ledger
<1>3. \A m \in ls : m.task # t /\ ~TasksConflict(t, m.task) /\ ~TasksConflict(m.task, t)
  BY ConflictsAreMutual DEF Assignable
<1>4. l \notin ls
  BY <1>1, <1>3
<1>5. ASSUME NEW S \in SUBSET ls PROVE Cardinality(S) \in Nat /\ Cardinality(S \cup {l}) = Cardinality(S) + 1
  <2>1. IsFiniteSet(S) /\ l \notin S
    BY <1>2, <1>4, FS_Subset
  <2> QED BY <2>1, FS_CardinalityType, FS_AddElement
<1>6. IsFiniteSet(ls \cup {l})
  BY <1>2, FS_AddElement
<1>7. Cardinality(ls \cup {l}) <= MaxActive
  <2>1. Cardinality(ls) < MaxActive
    BY DEF Assignable
  <2>2. MaxActive \in Nat
    BY CoordinatorAssumption
  <2>3. Cardinality(ls) \in Nat /\ Cardinality(ls \cup {l}) = Cardinality(ls) + 1
    BY <1>5
  <2> QED BY <2>1, <2>2, <2>3
<1>8. ASSUME NEW q \in Nat PROVE Cardinality(OfPlan(ls \cup {l}, q)) <= MaxBatchSize
  <2>1. CASE q = p
    <3>1. OfPlan(ls \cup {l}, q) = OfPlan(ls, p) \cup {l} /\ OfPlan(ls, p) \in SUBSET ls
      BY <1>1, <2>1 DEF OfPlan
    <3>2. Cardinality(OfPlan(ls, p)) < MaxBatchSize
      BY DEF Assignable, OfPlan
    <3>3. MaxBatchSize \in Nat
      BY CoordinatorAssumption
    <3>4. Cardinality(OfPlan(ls, p)) \in Nat /\ Cardinality(OfPlan(ls, p) \cup {l}) = Cardinality(OfPlan(ls, p)) + 1
      BY <1>5, <3>1
    <3> QED BY <3>1, <3>2, <3>3, <3>4
  <2>2. CASE q # p
    <3>1. OfPlan(ls \cup {l}, q) = OfPlan(ls, q)
      BY <1>1, <2>2 DEF OfPlan
    <3> QED BY <3>1 DEF Ledger
  <2> QED BY <2>1, <2>2
<1>9. ASSUME NEW s \in Specialists PROVE Cardinality(OfSpecialist(ls \cup {l}, s)) <= MaxConcurrency[s]
  <2>1. CASE s = Chosen(ls, t)
    <3>1. OfSpecialist(ls \cup {l}, s) = OfSpecialist(ls, s) \cup {l} /\ OfSpecialist(ls, s) \in SUBSET ls
      BY <1>1, <2>1 DEF OfSpecialist
    <3>2. Cardinality(OfSpecialist(ls, s)) < MaxConcurrency[s]
      BY <2>1, ChosenHasRoom DEF Assignable, ActiveCount, OfSpecialist
    <3>3. MaxConcurrency[s] \in Nat
      BY CoordinatorAssumption
    <3> QED BY <1>5, <3>1, <3>2, <3>3
  <2>2. CASE s # Chosen(ls, t)
    <3>1. OfSpecialist(ls \cup {l}, s) = OfSpecialist(ls, s)
      BY <1>1, <2>2 DEF OfSpecialist
    <3> QED BY <3>1 DEF Ledger
  <2> QED BY <2>1, <2>2
<1>10. \A k, m \in ls \cup {l} : k # m => k.task # m.task /\ ~TasksConflict(k.task, m.task)
  BY <1>1, <1>3 DEF Ledger
<1> QED BY <1>1, <1>6, <1>7, <1>8, <1>9, <1>10 DEF Ledger

\* Leases that plan p may have added to those of base.
GrownBy(ls, base, p) == Ledger(ls) /\ base \subseteq ls /\ \A l \in ls \ base : l.plan = p

LEMMA ReservingGrows ==
  ASSUME NEW ls, NEW base, NEW p \in Nat, NEW t \in Tasks, NEW runnable, GrownBy(ls, base, p)
  PROVE  GrownBy(Reserving(ls, p, t, runnable), base, p)
<1>1. CASE t \in runnable /\ Assignable(ls, p, t)
  <2>1. PICK l : l = [plan |-> p, task |-> t, specialist |-> Chosen(ls, t)]
    OBVIOUS
  <2>2. Reserving(ls, p, t, runnable) = ls \cup {l} /\ l.plan = p
    BY <1>1, <2>1 DEF Reserving
  <2>3. Ledger(ls \cup {l})
    BY <1>1, <2>1, OneMoreLease DEF GrownBy
  <2> QED BY <2>2, <2>3 DEF GrownBy
<1>2. CASE ~(t \in runnable /\ Assignable(ls, p, t))
  BY <1>2 DEF Reserving
<1> QED BY <1>1, <1>2

\* The loop of plan, turn after turn.
Turns(f, ls, p, runnable, n) ==
  f = [i \in 0 .. n |-> IF i = 0 THEN ls ELSE Reserving(f[i - 1], p, TaskOrder[i], runnable)]

LEMMA TurnsExist ==
  ASSUME NEW ls, NEW p, NEW runnable, NEW n \in Nat
  PROVE  \E f : Turns(f, ls, p, runnable, n)
<1> DEFINE T == {m \in Nat : ~\E f : Turns(f, ls, p, runnable, m)}
<1> SUFFICES ASSUME T # {} PROVE FALSE
  OBVIOUS
<1>1. PICK m \in T : \A y \in T : m <= y
  BY LeastNat
<1>2. m # 0
  <2> DEFINE f == [i \in 0 .. 0 |-> ls]
  <2>1. Turns(f, ls, p, runnable, 0)
    BY DEF Turns
  <2> QED BY <2>1
<1>3. PICK f : Turns(f, ls, p, runnable, m - 1)
  <2>1. m - 1 \in Nat /\ m - 1 \notin T
    BY <1>1, <1>2
  <2> QED BY <2>1
<1> DEFINE g == [i \in 0 .. m |-> IF i = m THEN Reserving(f[m - 1], p, TaskOrder[m], runnable) ELSE f[i]]
<1>4. ASSUME NEW i \in 0 .. m
      PROVE  g[i] = IF i = 0 THEN ls ELSE Reserving(g[i - 1], p, TaskOrder[i], runnable)
  <2>0. m \in Nat /\ i \in Nat
    OBVIOUS
  <2>1. CASE i = m
    <3>1. g[i - 1] = f[m - 1] /\ g[i] = Reserving(f[m - 1], p, TaskOrder[m], runnable)
      BY <1>2, <2>0, <2>1
    <3> QED BY <1>2, <2>1, <3>1
  <2>2. CASE i # m
    <3>1. i \in 0 .. m - 1 /\ g[i] = f[i]
      BY <2>0, <2>2
    <3>2. f[i] = IF i = 0 THEN ls ELSE Reserving(f[i - 1], p, TaskOrder[i], runnable)
      BY <1>3, <3>1 DEF Turns
    <3>3. i # 0 => g[i - 1] = f[i - 1]
      BY <2>0, <3>1
    <3> QED BY <3>1, <3>2, <3>3
  <2> QED BY <2>1, <2>2
<1>5. Turns(g, ls, p, runnable, m)
  <2> DEFINE h == [i \in 0 .. m |-> IF i = 0 THEN ls ELSE Reserving(g[i - 1], p, TaskOrder[i], runnable)]
  <2>1. DOMAIN g = 0 .. m /\ DOMAIN h = 0 .. m /\ g = [i \in 0 .. m |-> g[i]]
    OBVIOUS
  <2>2. \A i \in 0 .. m : g[i] = h[i]
    BY <1>4
  <2> HIDE DEF g
  <2>3. g = h
    BY <2>1, <2>2
  <2> QED BY <2>3 DEF Turns
<1> QED BY <1>1, <1>5

\* What plan reserves may be held with what was held before, and is its own.
LEMMA ReserveGrows ==
  ASSUME NEW ls, Ledger(ls), NEW p \in Nat, NEW runnable
  PROVE  GrownBy(Reserve(ls, p, runnable), ls, p)
<1> DEFINE N == Len(TaskOrder)
<1>1. N \in Nat /\ \A n \in 1 .. N : TaskOrder[n] \in Tasks
  BY CoordinatorAssumption
<1>2. PICK f : f = CHOOSE g : Turns(g, ls, p, runnable, N)
  OBVIOUS
<1>3. Turns(f, ls, p, runnable, N)
  BY <1>1, <1>2, TurnsExist
<1>4. Reserve(ls, p, runnable) = f[N]
  BY <1>2 DEF Reserve, Turns
<1>5. f[0] = ls /\ \A n \in 1 .. N : f[n] = Reserving(f[n - 1], p, TaskOrder[n], runnable)
  BY <1>1, <1>3 DEF Turns
<1> DEFINE T == {n \in 0 .. N : ~GrownBy(f[n], ls, p)}
<1>6. T = {}
  <2> SUFFICES ASSUME T # {} PROVE FALSE
    OBVIOUS
  <2>1. PICK m \in T : \A y \in T : m <= y
    <3>1. T \subseteq Nat
      OBVIOUS
    <3> HIDE DEF T
    <3> QED BY <3>1, LeastNat
  <2>2. m # 0
    BY <1>5 DEF GrownBy
  <2>3. m \in 1 .. N /\ m - 1 \in 0 .. N /\ m - 1 \notin T
    BY <1>1, <2>1, <2>2
  <2>4. GrownBy(f[m - 1], ls, p)
    BY <2>3
  <2>5. GrownBy(f[m], ls, p)
    BY <1>1, <1>5, <2>3, <2>4, ReservingGrows
  <2> QED BY <2>5
<1>7. N \in 0 .. N
  BY <1>1
<1> QED BY <1>4, <1>6, <1>7

-----------------------------------------------------------------------------
(* Releasing plans *)

LEMMA Committed ==
  ASSUME NEW b, NEW kn, NEW ans, BookOK(b, kn, ans), Commit(b)
  PROVE  BookOK(Book', kn, ans)
BY DEF Commit, Book, BookOK, BookTyping

LEMMA BookIsRecord ==
  ASSUME NEW b, NEW ps, NEW r, r = ReleaseRecords(b, ps)
  PROVE  r = [plans |-> r.plans, leases |-> r.leases, work |-> r.work]
BY DEF ReleaseRecords

\* What a release changes: records become released, their leases go, their workers stop.
LEMMA ReleaseKept ==
  ASSUME NEW b, NEW kn, BookOK(b, kn, answer), NEW ps \in SUBSET DOMAIN b.plans, NEW r, r = ReleaseRecords(b, ps)
  PROVE  /\ BookOK(r, kn, answer)
         /\ Len(r.plans) = Len(b.plans) /\ DOMAIN r.plans = DOMAIN b.plans
         /\ \A p \in ps : r.plans[p].state = "released"
         /\ \A p \in DOMAIN b.plans : r.plans[p].state # "released" => r.plans[p] = b.plans[p] /\ p \notin ps
<1> DEFINE open == {p \in ps : b.plans[p].state # "released"}
           N == Len(b.plans)
<1>1. N \in Nat /\ DOMAIN b.plans = 1 .. N /\ \A p \in 1 .. N : b.plans[p] \in PlanRecords
  BY DEF BookOK, BookTyping
<1>2. /\ r.plans = [p \in 1 .. N |-> IF p \in open THEN [b.plans[p] EXCEPT !.state = "released"] ELSE b.plans[p]]
      /\ r.leases = {l \in b.leases : l.plan \notin open}
      /\ r.work = [w \in Worker |-> IF w[1] \in open /\ answer[w] = "none" /\ b.work[w].running
                                    THEN [b.work[w] EXCEPT !.aborted = TRUE] ELSE b.work[w]]
  BY <1>1 DEF ReleaseRecords
<1>3. ASSUME NEW p \in 1 .. N
      PROVE  /\ r.plans[p] \in PlanRecords /\ r.plans[p].staffing = b.plans[p].staffing /\ r.plans[p].called = b.plans[p].called
             /\ p \in open => r.plans[p].state = "released"
             /\ p \notin open => r.plans[p] = b.plans[p]
  BY <1>1, <1>2 DEF PlanRecords
<1>4. r.plans \in Seq(PlanRecords) /\ Len(r.plans) = N /\ DOMAIN r.plans = 1 .. N
  <2>1. r.plans \in [1 .. N -> PlanRecords]
    BY <1>2, <1>3
  <2> QED BY <1>1, <2>1
<1>5. ASSUME NEW w \in Worker
      PROVE  /\ r.work[w] \in [running : BOOLEAN, aborted : BOOLEAN] /\ r.work[w].running = b.work[w].running
             /\ ~r.work[w].aborted => ~b.work[w].aborted /\ (w[1] \notin open \/ answer[w] # "none" \/ ~b.work[w].running)
  <2>1. b.work[w] \in [running : BOOLEAN, aborted : BOOLEAN]
    BY DEF BookOK, BookTyping
  <2>2. CASE w[1] \in open /\ answer[w] = "none" /\ b.work[w].running
    <3>1. r.work[w] = [b.work[w] EXCEPT !.aborted = TRUE]
      BY <1>2, <2>2
    <3> QED BY <2>1, <3>1
  <2>3. CASE ~(w[1] \in open /\ answer[w] = "none" /\ b.work[w].running)
    <3>1. r.work[w] = b.work[w]
      BY <1>2, <2>3
    <3> QED BY <2>1, <2>3, <3>1
  <2> QED BY <2>2, <2>3
<1>6. BookTyping(r)
  <2>1. r.work \in [Worker -> [running : BOOLEAN, aborted : BOOLEAN]]
    BY <1>2, <1>5
  <2> QED BY <1>4, <2>1 DEF BookOK, BookTyping
<1>7. Ledger(r.leases)
  BY <1>2, FewerLeases DEF BookOK
<1>8. PlansHeld(r.plans, r.leases, kn)
  <2>1. ASSUME NEW l \in r.leases PROVE l.plan \in DOMAIN r.plans /\ r.plans[l.plan].state # "released"
    <3>1. l \in b.leases /\ l.plan \in 1 .. N /\ b.plans[l.plan].state # "released" /\ l.plan \notin open
      BY <1>1, <1>2 DEF BookOK, PlansHeld
    <3> QED BY <1>3, <1>4, <3>1
  <2>2. ASSUME NEW p \in DOMAIN r.plans, r.plans[p].state # "released"
        PROVE  p \in kn /\ \A t \in DOMAIN r.plans[p].staffing : \E l \in r.leases : l.plan = p /\ l.task = t
    <3>1. p \notin open /\ r.plans[p] = b.plans[p]
      BY <1>3, <1>4, <2>2
    <3>2. p \in kn /\ \A t \in DOMAIN b.plans[p].staffing : \E l \in b.leases : l.plan = p /\ l.task = t
      BY <1>1, <1>4, <2>2, <3>1 DEF BookOK, PlansHeld
    <3>3. \A l \in b.leases : l.plan = p => l \in r.leases
      BY <1>2, <3>1
    <3> QED BY <3>1, <3>2, <3>3
  <2> QED BY <2>1, <2>2 DEF PlansHeld
<1>9. Workers(r.plans, r.work, answer)
  <2>1. ASSUME NEW w \in Worker, r.work[w].running \/ answer[w] # "none" PROVE w[1] \in DOMAIN r.plans /\ r.plans[w[1]].called
    <3>1. w[1] \in 1 .. N /\ b.plans[w[1]].called
      BY <1>1, <1>5, <2>1 DEF BookOK, Workers
    <3> QED BY <1>3, <1>4, <3>1
  <2>2. ASSUME NEW p \in DOMAIN r.plans, r.plans[p].called PROVE r.plans[p].state # "reserved"
    <3>1. b.plans[p].state # "reserved"
      BY <1>1, <1>3, <1>4, <2>2 DEF BookOK, Workers
    <3> QED BY <1>3, <1>4, <3>1
  <2>3. ASSUME NEW w \in Worker, r.work[w].running, ~r.work[w].aborted
        PROVE  w[2] \in DOMAIN r.plans[w[1]].staffing /\ r.plans[w[1]].state # "released" /\ answer[w] = "none"
    <3>1. /\ b.work[w].running /\ ~b.work[w].aborted /\ w[1] \in 1 .. N
          /\ w[2] \in DOMAIN b.plans[w[1]].staffing /\ b.plans[w[1]].state # "released" /\ answer[w] = "none"
      BY <1>1, <1>5, <2>3 DEF BookOK, Workers
    <3>2. w[1] \notin open
      BY <1>5, <2>3, <3>1
    <3> QED BY <1>3, <3>1, <3>2
  <2> QED BY <2>1, <2>2, <2>3 DEF Workers
<1>10. \A p \in ps : r.plans[p].state = "released"
  BY <1>1, <1>3
<1>11. \A p \in DOMAIN b.plans : r.plans[p].state # "released" => r.plans[p] = b.plans[p] /\ p \notin ps
  BY <1>1, <1>3, <1>10
<1> QED BY <1>1, <1>4, <1>6, <1>7, <1>8, <1>9, <1>10, <1>11 DEF BookOK

\* What the operations that read the clock begin with.
LEMMA ExpiryKept ==
  ASSUME CoordinatorInv, NEW r, r = ExpirePlans(Book)
  PROVE  /\ BookOK(r, known, answer) /\ r = [plans |-> r.plans, leases |-> r.leases, work |-> r.work]
         /\ Len(plans) \in Nat /\ DOMAIN plans = 1 .. Len(plans) /\ Len(r.plans) = Len(plans) /\ DOMAIN r.plans = DOMAIN plans
         /\ \A p \in DOMAIN plans : r.plans[p].state # "released" => r.plans[p] = plans[p]
<1>1. PICK ps : ps = {p \in known : Book.plans[p].expires <= wall}
  OBVIOUS
<1>2. Book.plans = plans /\ plans \in Seq(PlanRecords)
  BY DEF CoordinatorInv, BookOK, BookTyping, Book
<1>3. ps \in SUBSET DOMAIN Book.plans
  BY <1>1, <1>2 DEF CoordinatorInv, CoordinatorTyping
<1>4. r = ReleaseRecords(Book, ps)
  BY <1>1 DEF ExpirePlans
<1>5. BookOK(Book, known, answer)
  BY DEF CoordinatorInv
<1>6. /\ BookOK(r, known, answer) /\ Len(r.plans) = Len(plans) /\ DOMAIN r.plans = DOMAIN plans
      /\ \A p \in DOMAIN plans : r.plans[p].state # "released" => r.plans[p] = plans[p]
  BY <1>2, <1>3, <1>4, <1>5, ReleaseKept
<1>7. r = [plans |-> r.plans, leases |-> r.leases, work |-> r.work]
  BY <1>4, BookIsRecord
<1>8. Len(plans) \in Nat /\ DOMAIN plans = 1 .. Len(plans)
  BY <1>2
<1> QED BY <1>6, <1>7, <1>8

\* A release of its own: the end of an execution, releasePlan and activeLeases.
LEMMA ReleasesKept ==
  ASSUME CoordinatorInv, NEW ps \in SUBSET DOMAIN plans, Commit(ReleaseRecords(Book, ps)), UNCHANGED <<maxPlanRecords, wall, known, answer, outcome>>
  PROVE  CoordinatorInv'
<1>1. PICK r : r = ReleaseRecords(Book, ps)
  OBVIOUS
<1>2. Book.plans = plans
  BY DEF Book
<1>3. BookOK(r, known, answer) /\ DOMAIN r.plans = DOMAIN plans
  BY <1>1, <1>2, ReleaseKept DEF CoordinatorInv
<1>4. BookOK(Book', known, answer) /\ plans' = r.plans
  BY <1>1, <1>3, Committed DEF Commit
<1> QED BY <1>3, <1>4 DEF CoordinatorInv, CoordinatorTyping

-----------------------------------------------------------------------------
(* The operations *)

\* Pruning drops records of released plans only.
LEMMA PrunedKeepsOpen ==
  ASSUME NEW b
  PROVE  Pruned(b) \subseteq known /\ \A p \in known : b.plans[p].state # "released" => p \in Pruned(b)
<1>1. CASE Cardinality(known) < maxPlanRecords
  BY <1>1 DEF Pruned
<1>2. CASE ~(Cardinality(known) < maxPlanRecords)
  BY <1>2 DEF Pruned, Prunable
<1> QED BY <1>1, <1>2

LEMMA PlanKept ==
  ASSUME CoordinatorInv, NEW runnable \in SUBSET Tasks, Plan(runnable), UNCHANGED maxPlanRecords
  PROVE  CoordinatorInv'
<1>1. PICK r : r = ExpirePlans(Book)
  OBVIOUS
<1> DEFINE N == Len(plans)
           p == N + 1
<1>2. /\ BookOK(r, known, answer) /\ r = [plans |-> r.plans, leases |-> r.leases, work |-> r.work]
      /\ N \in Nat /\ DOMAIN plans = 1 .. N /\ Len(r.plans) = N /\ DOMAIN r.plans = 1 .. N
  BY <1>1, ExpiryKept
<1>3. PICK ls : ls = Reserve(r.leases, p, runnable)
  OBVIOUS
<1> DEFINE D == {l.task : l \in {m \in ls : m.plan = p}}
<1>4. PICK staff : staff = [t \in D |-> (CHOOSE l \in ls : l.plan = p /\ l.task = t).specialist]
  OBVIOUS
<1>5. PICK rec : rec = [state |-> "reserved", expires |-> wall + LeaseDuration, staffing |-> staff, called |-> FALSE]
  OBVIOUS
<1>6. /\ N < MaxPlans /\ HasRoom(r) /\ known' = Pruned(r) \cup {p}
      /\ plans' = Append(r.plans, rec) /\ leases' = ls /\ work' = r.work
      /\ UNCHANGED <<wall, answer, outcome>>
  <2>1. Commit([r EXCEPT !.leases = ls, !.plans = Append(@, rec)])
    BY <1>1, <1>3, <1>4, <1>5 DEF Plan
  <2>2. [r EXCEPT !.leases = ls, !.plans = Append(@, rec)].plans = Append(r.plans, rec)
        /\ [r EXCEPT !.leases = ls, !.plans = Append(@, rec)].leases = ls
        /\ [r EXCEPT !.leases = ls, !.plans = Append(@, rec)].work = r.work
    BY <1>2
  <2>3. N < MaxPlans /\ HasRoom(r) /\ known' = Pruned(r) \cup {p} /\ UNCHANGED <<wall, answer, outcome>>
    BY <1>1 DEF Plan
  <2> QED BY <2>1, <2>2, <2>3 DEF Commit
<1>7. GrownBy(ls, r.leases, p) /\ ls \subseteq LeaseRecords
  <2>1. p \in Nat /\ Ledger(r.leases)
    BY <1>2 DEF BookOK
  <2>2. GrownBy(ls, r.leases, p)
    BY <1>3, <2>1, ReserveGrows
  <2> QED BY <2>2 DEF GrownBy, Ledger
<1>8. staff \in [D -> Specialists] /\ D \subseteq Tasks
  <2>1. D \subseteq Tasks
    BY <1>7 DEF LeaseRecords
  <2>2. ASSUME NEW t \in D PROVE (CHOOSE l \in ls : l.plan = p /\ l.task = t).specialist \in Specialists
    <3>1. \E l \in ls : l.plan = p /\ l.task = t
      OBVIOUS
    <3>2. (CHOOSE l \in ls : l.plan = p /\ l.task = t) \in ls
      BY <3>1
    <3> QED BY <1>7, <3>2 DEF LeaseRecords
  <2> QED BY <1>4, <2>1, <2>2
<1>9. rec \in PlanRecords /\ rec.state = "reserved" /\ rec.staffing = staff /\ ~rec.called
  <2>1. staff \in Staffings
    BY <1>8 DEF Staffings
  <2>2. wall + LeaseDuration \in Nat
    <3>1. LeaseDuration \in Nat /\ MaxTime \in Nat
      BY CoordinatorAssumption
    <3>2. wall \in 0 .. MaxTime
      BY DEF CoordinatorInv, CoordinatorTyping
    <3> QED BY <3>1, <3>2
  <2> QED BY <1>5, <2>1, <2>2 DEF PlanRecords
<1>10. /\ plans' \in Seq(PlanRecords) /\ Len(plans') = p /\ DOMAIN plans' = 1 .. p
       /\ plans'[p] = rec /\ \A q \in 1 .. N : plans'[q] = r.plans[q]
  BY <1>2, <1>6, <1>9 DEF BookOK, BookTyping
<1>11. BookTyping(Book')
  <2>1. Len(plans') <= MaxPlans
    BY <1>2, <1>6, <1>10, CoordinatorAssumption
  <2> QED BY <1>2, <1>6, <1>10, <2>1 DEF BookTyping, BookOK, Book
<1>12. PlansHeld(plans', leases', known')
  <2>1. ASSUME NEW l \in leases' PROVE l.plan \in DOMAIN plans' /\ plans'[l.plan].state # "released"
    <3>1. CASE l \in r.leases
      <4>1. l.plan \in 1 .. N /\ r.plans[l.plan].state # "released"
        BY <1>2, <3>1 DEF BookOK, PlansHeld
      <4> QED BY <1>2, <1>10, <4>1
    <3>2. CASE l \notin r.leases
      <4>1. l.plan = p
        BY <1>6, <1>7, <3>2 DEF GrownBy
      <4> QED BY <1>2, <1>9, <1>10, <4>1
    <3> QED BY <3>1, <3>2
  <2>2. ASSUME NEW q \in DOMAIN plans', plans'[q].state # "released"
        PROVE  q \in known' /\ \A t \in DOMAIN plans'[q].staffing : \E l \in leases' : l.plan = q /\ l.task = t
    <3>1. CASE q = p
      <4>1. DOMAIN plans'[q].staffing = D
        BY <1>8, <1>9, <1>10, <3>1
      <4> QED BY <1>6, <3>1, <4>1
    <3>2. CASE q # p
      <4>1. q \in 1 .. N /\ r.plans[q].state # "released" /\ plans'[q] = r.plans[q]
        BY <1>2, <1>10, <2>2, <3>2
      <4>2. q \in known /\ \A t \in DOMAIN r.plans[q].staffing : \E l \in r.leases : l.plan = q /\ l.task = t
        BY <1>2, <4>1 DEF BookOK, PlansHeld
      <4>3. q \in Pruned(r) /\ r.leases \subseteq leases'
        BY <1>6, <1>7, <4>1, <4>2, PrunedKeepsOpen DEF GrownBy
      <4> QED BY <1>6, <4>1, <4>2, <4>3
    <3> QED BY <3>1, <3>2
  <2> QED BY <2>1, <2>2 DEF PlansHeld
<1>13. Workers(plans', work', answer')
  <2>1. Workers(r.plans, r.work, answer)
    BY <1>2 DEF BookOK
  <2>2. ASSUME NEW w \in Worker, r.work[w].running \/ answer[w] # "none"
        PROVE  w[1] \in 1 .. N /\ plans'[w[1]] = r.plans[w[1]] /\ r.plans[w[1]].called
    <3>1. w[1] \in 1 .. N /\ r.plans[w[1]].called
      BY <1>2, <2>1, <2>2 DEF Workers
    <3> QED BY <1>10, <3>1
  <2>3. ASSUME NEW q \in DOMAIN plans', plans'[q].called PROVE plans'[q].state # "reserved"
    <3>1. q \in 1 .. N /\ plans'[q] = r.plans[q]
      BY <1>2, <1>9, <1>10, <2>3
    <3> QED BY <1>2, <2>1, <2>3, <3>1 DEF Workers
  <2>4. \A w \in Worker : work'[w].running \/ answer'[w] # "none" => w[1] \in DOMAIN plans' /\ plans'[w[1]].called
    BY <1>2, <1>6, <1>10, <2>2
  <2>5. \A w \in Worker : work'[w].running /\ ~work'[w].aborted =>
          w[2] \in DOMAIN plans'[w[1]].staffing /\ plans'[w[1]].state # "released" /\ answer'[w] = "none"
    BY <1>6, <2>1, <2>2 DEF Workers
  <2> QED BY <2>3, <2>4, <2>5 DEF Workers
<1>14. CoordinatorTyping'
  <2>1. IsFiniteSet(known) /\ known \subseteq 1 .. N
    <3>1. known \subseteq 1 .. N
      BY <1>2 DEF CoordinatorInv, CoordinatorTyping
    <3>2. N \in Nat
      BY <1>2
    <3> HIDE DEF N
    <3>3. IsFiniteSet(1 .. N)
      BY <3>2, UpToFinite
    <3> QED BY <3>1, <3>3, FS_Subset
  <2>2. Pruned(r) \subseteq 1 .. N /\ IsFiniteSet(Pruned(r)) /\ p \notin Pruned(r)
    BY <1>2, <2>1, PrunedKeepsOpen, FS_Subset
  <2>3. Cardinality(known') = Cardinality(Pruned(r)) + 1 /\ Cardinality(Pruned(r)) \in Nat
    BY <1>6, <2>2, FS_AddElement, FS_CardinalityType
  <2>4. maxPlanRecords \in Nat /\ Cardinality(Pruned(r)) < maxPlanRecords
    BY <1>6, CoordinatorAssumption DEF HasRoom, CoordinatorInv, CoordinatorTyping
  <2>5. Cardinality(known') <= maxPlanRecords
    BY <2>3, <2>4
  <2>6. known' \subseteq DOMAIN plans'
    BY <1>2, <1>6, <1>10, <2>2
  <2> QED BY <1>6, <2>5, <2>6 DEF CoordinatorInv, CoordinatorTyping
<1>15. Ledger(leases')
  BY <1>6, <1>7 DEF GrownBy
<1> QED BY <1>11, <1>12, <1>13, <1>14, <1>15 DEF CoordinatorInv, BookOK, Book

LEMMA PlanRefusedKept ==
  ASSUME CoordinatorInv, PlanRefused, UNCHANGED maxPlanRecords
  PROVE  CoordinatorInv'
<1>1. PICK r : r = ExpirePlans(Book)
  OBVIOUS
<1>2. /\ BookOK(r, known, answer) /\ DOMAIN r.plans = DOMAIN plans
      /\ Len(plans) \in Nat /\ DOMAIN plans = 1 .. Len(plans)
  BY <1>1, ExpiryKept
<1>3. known' = Pruned(r) /\ Commit(r) /\ UNCHANGED <<wall, answer, outcome>>
  BY <1>1 DEF PlanRefused
<1>4. BookOK(r, known', answer)
  <2>1. PlansHeld(r.plans, r.leases, known')
    BY <1>2, <1>3, PrunedKeepsOpen DEF BookOK, PlansHeld
  <2> QED BY <1>2, <2>1 DEF BookOK
<1>5. BookOK(Book', known', answer') /\ plans' = r.plans
  BY <1>3, <1>4, Committed DEF Commit
<1>6. CoordinatorTyping'
  <2>1. IsFiniteSet(known)
    <3>1. known \subseteq 1 .. Len(plans)
      BY <1>2 DEF CoordinatorInv, CoordinatorTyping
    <3>2. IsFiniteSet(1 .. Len(plans))
      BY <1>2, UpToFinite
    <3> QED BY <3>1, <3>2, FS_Subset
  <2>2. known' \subseteq known
    BY <1>3, PrunedKeepsOpen
  <2>3. Cardinality(known') \in Nat /\ Cardinality(known) \in Nat /\ Cardinality(known') <= Cardinality(known) /\ maxPlanRecords \in Nat
    BY <2>1, <2>2, FS_Subset, FS_CardinalityType, CoordinatorAssumption DEF CoordinatorInv, CoordinatorTyping
  <2>4. Cardinality(known') <= maxPlanRecords
    BY <2>3 DEF CoordinatorInv, CoordinatorTyping
  <2> QED BY <1>2, <1>3, <1>5, <2>2, <2>4 DEF CoordinatorInv, CoordinatorTyping
<1> QED BY <1>5, <1>6 DEF CoordinatorInv

LEMMA PlanTyped ==
  ASSUME CoordinatorInv, NEW p \in DOMAIN plans
  PROVE  plans[p] \in PlanRecords /\ p \in PlanIds /\ Assigned(p) \subseteq Tasks /\ \A t \in Assigned(p) : <<p, t>> \in Worker
<1>1. plans \in Seq(PlanRecords) /\ Len(plans) <= MaxPlans /\ MaxPlans \in Nat
  BY CoordinatorAssumption DEF CoordinatorInv, BookOK, BookTyping, Book
<1>2. plans[p] \in PlanRecords /\ p \in PlanIds
  BY <1>1 DEF PlanIds
<1>3. plans[p].staffing \in Staffings
  BY <1>2 DEF PlanRecords
<1>4. Assigned(p) \subseteq Tasks
  BY <1>3 DEF Staffings, Assigned
<1> QED BY <1>2, <1>4 DEF Worker

\* execute begins: the plan's workers start, or the plan is refused.
LEMMA ExecuteKept ==
  ASSUME CoordinatorInv, NEW p \in DOMAIN plans, NEW authentic \in BOOLEAN, Execute(p, authentic), UNCHANGED maxPlanRecords
  PROVE  CoordinatorInv'
<1>1. PICK r : r = ExpirePlans(Book)
  OBVIOUS
<1>2. /\ BookOK(r, known, answer) /\ r = [plans |-> r.plans, leases |-> r.leases, work |-> r.work]
      /\ DOMAIN r.plans = DOMAIN plans /\ Len(plans) \in Nat /\ DOMAIN plans = 1 .. Len(plans)
      /\ Len(r.plans) = Len(plans) /\ \A q \in DOMAIN plans : r.plans[q].state # "released" => r.plans[q] = plans[q]
  BY <1>1, ExpiryKept
<1>3. UNCHANGED <<maxPlanRecords, wall, known, answer, outcome>>
  BY DEF Execute
<1>4. ASSUME NEW b, Commit(b), BookOK(b, known, answer), DOMAIN b.plans = DOMAIN plans PROVE CoordinatorInv'
  <2>1. BookOK(Book', known', answer') /\ plans' = b.plans
    BY <1>3, <1>4, Committed DEF Commit
  <2> QED BY <1>3, <1>4, <2>1 DEF CoordinatorInv, CoordinatorTyping
<1>5. CASE p \in known /\ r.plans[p].state = "reserved" /\ authentic
  <2>1. PICK rec : rec = [[r.plans[p] EXCEPT !.state = "executing"] EXCEPT !.called = TRUE]
    OBVIOUS
  <2>2. PICK ps : ps = [r.plans EXCEPT ![p] = rec]
    OBVIOUS
  <2>3. PICK wk : wk = [w \in Worker |-> IF w[1] = p /\ w[2] \in Assigned(p) THEN [NoWork EXCEPT !.running = TRUE] ELSE r.work[w]]
    OBVIOUS
  <2>4. PICK b : b = [plans |-> ps, leases |-> r.leases, work |-> wk]
    OBVIOUS
  <2>5. r.plans \in Seq(PlanRecords) /\ r.plans[p] \in PlanRecords /\ r.plans[p] = plans[p] /\ p \in DOMAIN r.plans
    BY <1>2, <1>5 DEF BookOK, BookTyping
  <2>6. Commit(b)
    <3>1. Commit([r EXCEPT !.plans[p].state = "executing", !.plans[p].called = TRUE,
                    !.work = [w \in Worker |-> IF w[1] = p /\ w[2] \in Assigned(p)
                                               THEN [NoWork EXCEPT !.running = TRUE] ELSE @[w]]])
      BY <1>1, <1>5 DEF Execute
    <3>2. PICK c : c = [r EXCEPT !.plans[p].state = "executing", !.plans[p].called = TRUE,
                          !.work = [w \in Worker |-> IF w[1] = p /\ w[2] \in Assigned(p)
                                                     THEN [NoWork EXCEPT !.running = TRUE] ELSE @[w]]]
      OBVIOUS
    <3>3. PICK first : first = [r EXCEPT !.plans = [r.plans EXCEPT ![p] = [r.plans[p] EXCEPT !.state = "executing"]]]
      OBVIOUS
    <3>4. first = [plans |-> first.plans, leases |-> r.leases, work |-> r.work]
          /\ first.plans = [r.plans EXCEPT ![p] = [r.plans[p] EXCEPT !.state = "executing"]]
      BY <1>2, <3>3
    <3>5. first.plans[p] = [r.plans[p] EXCEPT !.state = "executing"]
      BY <2>5, <3>4
    <3>6. PICK second : second = [first EXCEPT !.plans = [first.plans EXCEPT ![p] = [first.plans[p] EXCEPT !.called = TRUE]]]
      OBVIOUS
    <3>7. second = [plans |-> second.plans, leases |-> r.leases, work |-> r.work] /\ second.plans = [first.plans EXCEPT ![p] = rec]
      BY <2>1, <3>4, <3>5, <3>6
    <3>8. second.plans = ps
      BY <2>2, <3>4, <3>7
    <3>9. c = [second EXCEPT !.work = wk]
      BY <2>3, <3>2, <3>3, <3>6, <3>7
    <3>10. c.plans = ps /\ c.leases = r.leases /\ c.work = wk
      BY <3>7, <3>8, <3>9
    <3> QED BY <2>4, <3>1, <3>2, <3>10 DEF Commit
  <2>7. rec \in PlanRecords /\ rec.state = "executing" /\ rec.called /\ rec.staffing = plans[p].staffing
    BY <2>1, <2>5 DEF PlanRecords
  <2>8. /\ ps \in Seq(PlanRecords) /\ Len(ps) = Len(plans) /\ DOMAIN ps = DOMAIN plans /\ ps[p] = rec
        /\ \A q \in DOMAIN plans \ {p} : ps[q] = r.plans[q]
    BY <1>2, <2>2, <2>5, <2>7
  <2>9. ASSUME NEW w \in Worker
        PROVE  /\ wk[w] \in [running : BOOLEAN, aborted : BOOLEAN]
               /\ w[1] = p /\ w[2] \in Assigned(p) => wk[w].running /\ ~wk[w].aborted
               /\ ~(w[1] = p /\ w[2] \in Assigned(p)) => wk[w] = r.work[w]
    <3>1. r.work[w] \in [running : BOOLEAN, aborted : BOOLEAN]
      BY <1>2 DEF BookOK, BookTyping
    <3> QED BY <2>3, <3>1 DEF NoWork
  <2>10. BookTyping(b)
    <3>1. wk \in [Worker -> [running : BOOLEAN, aborted : BOOLEAN]]
      BY <2>3, <2>9
    <3> QED BY <1>2, <2>4, <2>8, <3>1 DEF BookTyping, BookOK
  <2>11. Ledger(b.leases)
    BY <1>2, <2>4 DEF BookOK
  <2>12. PlansHeld(b.plans, b.leases, known)
    <3>1. ASSUME NEW l \in b.leases PROVE l.plan \in DOMAIN ps /\ ps[l.plan].state # "released"
      <4>1. l.plan \in DOMAIN plans /\ r.plans[l.plan].state # "released"
        BY <1>2, <2>4 DEF BookOK, PlansHeld
      <4> QED BY <2>7, <2>8, <4>1
    <3>2. ASSUME NEW q \in DOMAIN ps, ps[q].state # "released"
          PROVE  q \in known /\ \A t \in DOMAIN ps[q].staffing : \E l \in b.leases : l.plan = q /\ l.task = t
      <4>1. r.plans[q].state # "released" /\ ps[q].staffing = r.plans[q].staffing /\ q \in DOMAIN r.plans
        BY <1>2, <1>5, <2>5, <2>7, <2>8, <3>2
      <4> QED BY <1>2, <2>4, <4>1 DEF BookOK, PlansHeld
    <3> QED BY <2>4, <3>1, <3>2 DEF PlansHeld
  <2>13. Workers(b.plans, b.work, answer)
    <3>0. ~r.plans[p].called /\ Workers(r.plans, r.work, answer)
      BY <1>2, <1>5, <2>5 DEF BookOK, Workers
    <3>1. ASSUME NEW w \in Worker, w[1] = p PROVE ~r.work[w].running /\ answer[w] = "none"
      BY <3>0, <3>1 DEF Workers
    <3>2. ASSUME NEW w \in Worker, wk[w].running \/ answer[w] # "none" PROVE w[1] \in DOMAIN ps /\ ps[w[1]].called
      <4>1. CASE w[1] = p
        BY <2>7, <2>8, <4>1
      <4>2. CASE w[1] # p
        <5>1. w[1] \in DOMAIN r.plans /\ r.plans[w[1]].called
          BY <2>9, <3>0, <3>2, <4>2 DEF Workers
        <5> QED BY <1>2, <2>8, <4>2, <5>1
      <4> QED BY <4>1, <4>2
    <3>3. ASSUME NEW q \in DOMAIN ps, ps[q].called PROVE ps[q].state # "reserved"
      BY <1>2, <2>7, <2>8, <3>0, <3>3 DEF Workers
    <3>4. ASSUME NEW w \in Worker, wk[w].running, ~wk[w].aborted
          PROVE  w[2] \in DOMAIN ps[w[1]].staffing /\ ps[w[1]].state # "released" /\ answer[w] = "none"
      <4>1. CASE w[1] = p
        <5>1. w[2] \in Assigned(p)
          BY <2>9, <3>1, <3>4, <4>1
        <5> QED BY <2>7, <2>8, <3>1, <4>1, <5>1 DEF Assigned
      <4>2. CASE w[1] # p
        <5>1. /\ w[1] \in DOMAIN r.plans /\ w[2] \in DOMAIN r.plans[w[1]].staffing
              /\ r.plans[w[1]].state # "released" /\ answer[w] = "none"
          BY <2>9, <3>0, <3>4, <4>2 DEF Workers
        <5> QED BY <1>2, <2>8, <4>2, <5>1
      <4> QED BY <4>1, <4>2
    <3> QED BY <2>4, <3>2, <3>3, <3>4 DEF Workers
  <2> QED BY <1>4, <2>4, <2>6, <2>8, <2>10, <2>11, <2>12, <2>13 DEF BookOK
<1>6. CASE p \in known /\ r.plans[p].state = "reserved" /\ ~authentic
  <2>1. PICK b : b = ReleaseRecords(r, {p})
    OBVIOUS
  <2>2. Commit(b)
    BY <1>1, <1>6, <2>1 DEF Execute
  <2>3. BookOK(b, known, answer) /\ DOMAIN b.plans = DOMAIN plans
    BY <1>2, <2>1, ReleaseKept
  <2> QED BY <1>4, <2>2, <2>3
<1>7. CASE ~(p \in known /\ r.plans[p].state = "reserved")
  <2>1. Commit(r)
    BY <1>1, <1>7 DEF Execute
  <2> QED BY <1>2, <1>4, <2>1
<1> QED BY <1>5, <1>6, <1>7

\* A worker is over, with an answer or too late for one.
LEMMA AnsweredKept ==
  ASSUME CoordinatorInv, NEW p \in DOMAIN plans, NEW t \in Assigned(p), work[<<p, t>>].running,
         NEW v, v \in [running : BOOLEAN, aborted : BOOLEAN], ~v.running \/ v.aborted,
         work' = [work EXCEPT ![<<p, t>>] = v],
         NEW verdict \in {"none", "accepted", "refused"},
         answer' = [answer EXCEPT ![<<p, t>>] = verdict],
         UNCHANGED <<maxPlanRecords, wall, plans, known, leases, outcome>>
  PROVE  CoordinatorInv'
<1> DEFINE x == <<p, t>>
<1>1. /\ plans \in Seq(PlanRecords) /\ Len(plans) <= MaxPlans /\ MaxPlans \in Nat
      /\ work \in [Worker -> [running : BOOLEAN, aborted : BOOLEAN]] /\ answer \in [Worker -> {"none", "accepted", "refused"}]
      /\ Workers(plans, work, answer)
  BY CoordinatorAssumption DEF CoordinatorInv, CoordinatorTyping, BookOK, BookTyping, Book
<1>2. x \in Worker
  BY PlanTyped
<1>3. /\ work' \in [Worker -> [running : BOOLEAN, aborted : BOOLEAN]] /\ work'[x] = v
      /\ answer' \in [Worker -> {"none", "accepted", "refused"}]
      /\ \A w \in Worker \ {x} : work'[w] = work[w] /\ answer'[w] = answer[w]
  BY <1>1, <1>2
<1>4. x[1] \in DOMAIN plans /\ plans[x[1]].called
  BY <1>1, <1>2 DEF Workers
<1>5. Workers(plans', work', answer')
  BY <1>1, <1>3, <1>4 DEF Workers
<1> QED BY <1>3, <1>5 DEF CoordinatorInv, CoordinatorTyping, BookOK, BookTyping, Book

LEMMA WorkerSettlesKept ==
  ASSUME CoordinatorInv, NEW p \in DOMAIN plans, NEW t \in Assigned(p), WorkerSettles(p, t), UNCHANGED maxPlanRecords
  PROVE  CoordinatorInv'
<1> DEFINE x == <<p, t>>
<1>1. /\ work[x].running /\ work' = [work EXCEPT ![x] = NoWork]
      /\ UNCHANGED <<maxPlanRecords, wall, plans, known, leases, outcome>>
  BY DEF WorkerSettles
<1>2. NoWork \in [running : BOOLEAN, aborted : BOOLEAN] /\ ~NoWork.running
  BY DEF NoWork
<1>3. PICK verdict \in {"none", "accepted", "refused"} : answer' = [answer EXCEPT ![x] = verdict]
  <2>1. CASE ~Awaited(p, t)
    <3>1. answer \in [Worker -> {"none", "accepted", "refused"}] /\ answer' = answer
      BY <2>1 DEF WorkerSettles, CoordinatorInv, CoordinatorTyping
    <3>2. x \in Worker
      BY PlanTyped
    <3>3. answer[x] \in {"none", "accepted", "refused"} /\ answer' = [answer EXCEPT ![x] = answer[x]]
      BY <3>1, <3>2
    <3> QED BY <3>3
  <2>2. CASE Awaited(p, t)
    <3>1. PICK verdict \in {Reconcile(p, proposal) : proposal \in Proposals} \cup {"refused"} : answer' = [answer EXCEPT ![x] = verdict]
      BY <2>2 DEF WorkerSettles
    <3>2. verdict \in {"accepted", "refused"}
      BY <3>1 DEF Reconcile
    <3> QED BY <3>1, <3>2
  <2> QED BY <2>1, <2>2
<1> QED BY <1>1, <1>2, <1>3, AnsweredKept

LEMMA TimeoutKept ==
  ASSUME CoordinatorInv, NEW p \in DOMAIN plans, NEW t \in Assigned(p), Timeout(p, t), UNCHANGED maxPlanRecords
  PROVE  CoordinatorInv'
<1> DEFINE x == <<p, t>>
<1>1. work \in [Worker -> [running : BOOLEAN, aborted : BOOLEAN]]
  BY DEF CoordinatorInv, BookOK, BookTyping, Book
<1>3. x \in Worker
  BY PlanTyped
<1>4. PICK v : v = [work[x] EXCEPT !.aborted = TRUE]
  OBVIOUS
<1>5. v \in [running : BOOLEAN, aborted : BOOLEAN] /\ v.aborted
  BY <1>1, <1>3, <1>4
<1>6. /\ work[x].running /\ work' = [work EXCEPT ![x] = v] /\ answer' = [answer EXCEPT ![x] = "refused"]
      /\ UNCHANGED <<maxPlanRecords, wall, plans, known, leases, outcome>>
  BY <1>4 DEF Timeout
<1> QED BY <1>5, <1>6, AnsweredKept

\* The end of an execution: the plan is released, its answers are forgotten.
LEMMA CompleteKept ==
  ASSUME CoordinatorInv, NEW p \in DOMAIN plans, Complete(p), UNCHANGED maxPlanRecords
  PROVE  CoordinatorInv'
<1>1. PICK r : r = ReleaseRecords(Book, {p})
  OBVIOUS
<1>2. PICK ends \in {"result", "thrown"} : outcome' = [outcome EXCEPT ![p] = ends]
  BY DEF Complete
<1>3. Commit(r) /\ answer' = [w \in Worker |-> IF w[1] = p THEN "none" ELSE answer[w]] /\ UNCHANGED <<maxPlanRecords, wall, known>>
  BY <1>1 DEF Complete, Forget
<1>4. Book.plans = plans /\ BookOK(Book, known, answer)
  BY DEF Book, CoordinatorInv
<1>5. /\ BookOK(r, known, answer) /\ DOMAIN r.plans = DOMAIN plans /\ r.plans[p].state = "released"
  BY <1>1, <1>4, ReleaseKept
<1>6. answer' \in [Worker -> {"none", "accepted", "refused"}] /\ \A w \in Worker : answer'[w] # "none" => answer[w] # "none"
  BY <1>3 DEF CoordinatorInv, CoordinatorTyping
<1>7. Workers(r.plans, r.work, answer')
  <2>1. ASSUME NEW w \in Worker, r.work[w].running, ~r.work[w].aborted
        PROVE  w[2] \in DOMAIN r.plans[w[1]].staffing /\ r.plans[w[1]].state # "released" /\ answer'[w] = "none"
    <3>1. w[2] \in DOMAIN r.plans[w[1]].staffing /\ r.plans[w[1]].state # "released" /\ answer[w] = "none"
      BY <1>5, <2>1 DEF BookOK, Workers
    <3> QED BY <1>6, <3>1
  <2> QED BY <1>5, <1>6, <2>1 DEF BookOK, Workers
<1>8. BookOK(r, known', answer')
  BY <1>3, <1>5, <1>7 DEF BookOK
<1>9. BookOK(Book', known', answer') /\ plans' = r.plans
  BY <1>3, <1>8, Committed DEF Commit
<1>10. outcome' \in [PlanIds -> {"none", "thrown", "result"}]
  BY <1>2 DEF CoordinatorInv, CoordinatorTyping
<1> QED BY <1>3, <1>5, <1>6, <1>9, <1>10 DEF CoordinatorInv, CoordinatorTyping

LEMMA CoordinatorInvariant ==
  ASSUME CoordinatorInv, CoordinatorNext \/ UNCHANGED coordinationVars
  PROVE  CoordinatorInv'
<1>1. ASSUME ActiveLeases, UNCHANGED maxPlanRecords PROVE CoordinatorInv'
  <2>1. PICK ps : ps = {p \in known : Book.plans[p].expires <= wall}
    OBVIOUS
  <2>2. ps \in SUBSET DOMAIN plans
    BY <2>1 DEF CoordinatorInv, CoordinatorTyping
  <2>3. Commit(ReleaseRecords(Book, ps)) /\ UNCHANGED <<maxPlanRecords, wall, known, answer, outcome>>
    BY <1>1, <2>1 DEF ActiveLeases, ExpirePlans
  <2> QED BY <2>2, <2>3, ReleasesKept
<1>2. ASSUME NEW p \in DOMAIN plans, ReleasePlan(p), UNCHANGED maxPlanRecords PROVE CoordinatorInv'
  <2>1. {p} \in SUBSET DOMAIN plans /\ Commit(ReleaseRecords(Book, {p})) /\ UNCHANGED <<maxPlanRecords, wall, known, answer, outcome>>
    BY <1>2 DEF ReleasePlan
  <2> QED BY <2>1, ReleasesKept
<1>3. ASSUME Tick, UNCHANGED maxPlanRecords PROVE CoordinatorInv'
  <2>1. wall' \in 0 .. MaxTime
    <3>1. MaxTime \in Nat /\ wall \in 0 .. MaxTime /\ wall < MaxTime /\ wall' = wall + 1
      BY <1>3, CoordinatorAssumption DEF Tick, CoordinatorInv, CoordinatorTyping
    <3> QED BY <3>1
  <2>2. UNCHANGED <<maxPlanRecords, plans, known, leases, work, answer, outcome>>
    BY <1>3 DEF Tick
  <2> QED BY <2>1, <2>2 DEF CoordinatorInv, CoordinatorTyping, Book
<1>4. ASSUME UNCHANGED coordinationVars PROVE CoordinatorInv'
  BY <1>4 DEF coordinationVars, CoordinatorInv, CoordinatorTyping, Book
<1> QED
  BY <1>1, <1>2, <1>3, <1>4, PlanKept, PlanRefusedKept, ExecuteKept, WorkerSettlesKept, TimeoutKept, CompleteKept
     DEF CoordinatorNext

-----------------------------------------------------------------------------
(* What the invariant implies *)

LEMMA PrefixesMeet ==
  ASSUME NEW S, NEW r \in Seq(S), NEW s \in Seq(S), NEW path \in Seq(S), IsPrefix(r, path), IsPrefix(s, path)
  PROVE  RepositoryKeysIntersect(r, s)
<1>1. \A x, y \in Seq(S) : IsPrefix(x, y) <=> Len(x) <= Len(y) /\ \A i \in 1 .. Len(x) : x[i] = y[i]
  <2> SUFFICES ASSUME NEW x \in Seq(S), NEW y \in Seq(S)
               PROVE  IsPrefix(x, y) <=> Len(x) <= Len(y) /\ \A i \in 1 .. Len(x) : x[i] = y[i]
    OBVIOUS
  <2>1. Len(x) \in Nat /\ Len(y) \in Nat
    OBVIOUS
  <2>2. SubSeq(x, 1, Len(x)) = [i \in 1 .. Len(x) |-> x[i]]
    BY <2>1
  <2>3. SubSeq(y, 1, Len(x)) = [i \in 1 .. Len(x) |-> y[i]]
    BY <2>1
  <2> QED BY <2>1, <2>2, <2>3 DEF IsPrefix
<1>2. Len(r) \in Nat /\ Len(s) \in Nat /\ Len(path) \in Nat
  OBVIOUS
<1>3. CASE Len(r) <= Len(s)
  BY <1>1, <1>2, <1>3 DEF RepositoryKeysIntersect
<1>4. CASE Len(s) <= Len(r)
  BY <1>1, <1>2, <1>4 DEF RepositoryKeysIntersect
<1> QED BY <1>2, <1>3, <1>4

\* Tasks that do not conflict share nothing that one of them writes.
LEMMA NothingShared ==
  ASSUME NEW t \in Tasks, NEW u \in Tasks, ~TasksConflict(t, u),
         NEW c \in Claims[t], NEW d \in Claims[u], c.access = "write"
  PROVE  Shared(c, d) = {}
<1> SUFFICES ASSUME NEW path \in Paths, c.namespace = d.namespace, Covers(c, path), Covers(d, path) PROVE FALSE
  BY DEF Shared
<1>1. c \in ClaimType /\ d \in ClaimType
  BY CoordinatorAssumption
<1>2. path \in Seq(STRING)
  <2>1. PICK v \in Tasks : path \in {e.key : e \in Claims[v]}
    BY DEF Paths
  <2>2. PICK e \in Claims[v] : path = e.key
    BY <2>1
  <2>3. e \in ClaimType
    BY CoordinatorAssumption
  <2> QED BY <2>2, <2>3 DEF ClaimType
<1>3. c.key \in Seq(STRING) /\ d.key \in Seq(STRING)
  BY <1>1 DEF ClaimType
<1>4. ~ClaimsConflict(c, d)
  BY DEF TasksConflict
<1>5. CASE c.namespace = "repository"
  <2>1. RepositoryKeysIntersect(c.key, d.key)
    BY <1>2, <1>3, <1>5, PrefixesMeet DEF Covers
  <2> QED BY <1>4, <1>5, <2>1 DEF ClaimsConflict
<1>6. CASE c.namespace # "repository"
  BY <1>4, <1>6 DEF ClaimsConflict, Covers
<1> QED BY <1>5, <1>6

LEMMA CoordinatorInvImplies ==
  ASSUME CoordinatorInv
  PROVE  CoordinationSound
<1>1. /\ plans \in Seq(PlanRecords) /\ Len(plans) <= MaxPlans
      /\ work \in [Worker -> [running : BOOLEAN, aborted : BOOLEAN]]
      /\ Ledger(leases) /\ PlansHeld(plans, leases, known) /\ Workers(plans, work, answer)
  BY DEF CoordinatorInv, BookOK, BookTyping, Book
<1>2. CoordinatorTypeOK
  <2>1. ASSUME NEW p \in DOMAIN plans
        PROVE  plans[p].state \in {"reserved", "executing", "released"} /\ plans[p].staffing \in [Assigned(p) -> Specialists]
    <3>1. plans[p] \in PlanRecords
      BY PlanTyped
    <3>2. plans[p].staffing \in Staffings /\ plans[p].state \in {"reserved", "executing", "released"}
      BY <3>1 DEF PlanRecords
    <3> QED BY <3>2 DEF Staffings, Assigned
  <2>2. leases \subseteq [plan : DOMAIN plans, task : Tasks, specialist : Specialists]
    BY <1>1 DEF Ledger, PlansHeld, LeaseRecords
  <2> QED BY <1>1, <2>1, <2>2 DEF CoordinatorTypeOK, CoordinatorInv, CoordinatorTyping
<1>3. LeasesExclusive
  <2>1. ASSUME NEW l \in leases, NEW m \in leases, l # m
        PROVE  /\ l.task # m.task
               /\ \A c \in Claims[l.task], d \in Claims[m.task] : c.access = "write" => Shared(c, d) = {}
    <3>1. l.task # m.task /\ ~TasksConflict(l.task, m.task) /\ l.task \in Tasks /\ m.task \in Tasks
      BY <1>1, <2>1 DEF Ledger, LeaseRecords
    <3> QED BY <3>1, NothingShared
  <2> QED BY <2>1 DEF LeasesExclusive
<1>4. WithinCapacity
  <2>1. DOMAIN plans \subseteq Nat
    BY <1>1
  <2> QED BY <1>1, <2>1 DEF WithinCapacity, Ledger, OfPlan, OfSpecialist
<1>5. NoLeakedLease
  BY <1>1 DEF NoLeakedLease, PlansHeld
<1>6. LiveWorkersHoldLeases
  <2>1. ASSUME NEW p \in DOMAIN plans, NEW t \in Assigned(p), work[<<p, t>>].running, ~work[<<p, t>>].aborted
        PROVE  \E l \in leases : l.plan = p /\ l.task = t
    <3>1. <<p, t>> \in Worker
      BY PlanTyped
    <3>2. plans[p].state # "released"
      BY <1>1, <2>1, <3>1 DEF Workers
    <3> QED BY <1>1, <3>2 DEF PlansHeld, Assigned
  <2> QED BY <2>1 DEF LiveWorkersHoldLeases
<1> QED BY <1>2, <1>3, <1>4, <1>5, <1>6 DEF CoordinationSound, LeasesSound

\* A result is only ever given by the end of an execution whose plan is still open.
LEMMA ResultStep ==
  ASSUME CoordinatorInv, CoordinatorNext, NEW p \in PlanIds, outcome[p] = "none", outcome'[p] = "result"
  PROVE  \A t \in Assigned(p) : \E l \in leases : l.plan = p /\ l.task = t
<1>1. outcome' # outcome
  OBVIOUS
<1>2. PICK q \in DOMAIN plans : Complete(q)
  BY <1>1 DEF CoordinatorNext, Plan, PlanRefused, ActiveLeases, Tick, Execute, WorkerSettles, Timeout, ReleasePlan
<1>3. PICK ends \in IF plans[q].state = "executing" THEN {"result", "thrown"} ELSE {"thrown"} :
        outcome' = [outcome EXCEPT ![q] = ends]
  BY <1>2 DEF Complete
<1>4. p = q /\ ends = "result"
  BY <1>3 DEF CoordinatorInv, CoordinatorTyping
<1>5. p \in DOMAIN plans /\ plans[p].state # "released"
  BY <1>3, <1>4
<1>6. PlansHeld(plans, leases, known)
  BY DEF CoordinatorInv, BookOK, Book
<1> QED BY <1>5, <1>6 DEF PlansHeld, Assigned

-----------------------------------------------------------------------------
(* The services side by side *)

KernelInv == CoordinatorInv /\ ToolInv /\ PoolInv

LEMMA KernelInitially ==
  KernelInit => KernelInv
BY CoordinatorInitially, ToolInitially, PoolInitially DEF KernelInit, KernelInv

LEMMA KernelSteps ==
  ASSUME [KernelNext]_kernelVars
  PROVE  /\ CoordinatorNext \/ UNCHANGED coordinationVars
         /\ ToolNext \/ UNCHANGED toolVars
         /\ PoolNext \/ UNCHANGED poolVars
BY DEF KernelNext, kernelVars

LEMMA KernelInvariant ==
  KernelInv /\ [KernelNext]_kernelVars => KernelInv'
BY KernelSteps, CoordinatorInvariant, ToolInvariant, PoolInvariant DEF KernelInv

\* The tool runtime and the provider pool, however calls interleave: of the calls with one
\* idempotency key at most one is a fresh success, no grant pays for more invocations of a
\* handler than it allows, every invocation that is over was put to the audit; and a slot
\* counts exactly the attempts under way on it, no caller being shown the events of two.
THEOREM CallsHold == KernelSpec => []CallsSound
<1>1. KernelInv => CallsSound
  BY ToolInvImplies, PoolInvImplies DEF KernelInv, CallsSound
<1> QED BY KernelInitially, KernelInvariant, <1>1, PTL DEF KernelSpec

\* The leases of plan, for any tasks, claims, specialists and limits: nothing that one
\* active lease may write is covered by another, the limits hold over all plans together,
\* no lease outlives its plan, and a worker that was not told to stop holds its lease.
THEOREM CoordinationHolds == KernelSpec => []CoordinationSound
<1>1. KernelInv => CoordinationSound
  BY CoordinatorInvImplies DEF KernelInv
<1> QED BY KernelInitially, KernelInvariant, <1>1, PTL DEF KernelSpec

\* execute returns a result only while its plan still holds the leases of its tasks, which a
\* release or the sweep of expired plans by any other call takes away (coordinator.ts 217-224).
THEOREM ResultsHold == KernelSpec => ResultUnderLease
<1>1. KernelInv /\ [KernelNext]_kernelVars =>
        [\A p \in PlanIds : outcome[p] = "none" /\ outcome'[p] = "result" =>
           \A t \in Assigned(p) : \E l \in leases : l.plan = p /\ l.task = t]_coordinationVars
  BY KernelSteps, ResultStep DEF KernelInv
<1> QED BY KernelInitially, KernelInvariant, <1>1, PTL DEF KernelSpec, ResultUnderLease
=============================================================================
