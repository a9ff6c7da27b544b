----------------------------- MODULE ChatProofs -----------------------------
(***************************************************************************)
(* Theorems about one chat turn, for any number of workers, instructions   *)
(* and runs and for all budgets: ChatInv is what the steps of a worker     *)
(* preserve in either deployment, HostedInv and LocalInv add what leases,  *)
(* controls and restarts rely on.                                          *)
(***************************************************************************)
EXTENDS HostedChat, LocalChat, WellFoundedInduction, TLAPS

Pcs == Working \cup {"idle", "start", "catch", "end"}

\* The types, field by field.
CheckpointType ==
  [calls : 0 .. MaxCalls, tools : 0 .. MaxTools, pending : SUBSET CallIds,
   changes : SUBSET CallIds, reviewed : BOOLEAN, cursor : Nat, seen : SUBSET Instructions, by : Nat]
EventsType ==
  [next : Nat, top : Nat, at : [Instructions -> Nat], visible : SUBSET Instructions]
WorkspaceType == [applied : [CallIds -> Nat], unchecked : SUBSET CallIds]
WorkerType ==
  [pc : Pcs, token : Nat, uncertain : BOOLEAN, aborted : BOOLEAN, reviewing : BOOLEAN,
   tool : CallIds \cup {0}, ok : BOOLEAN]
LeaseType == [token : Nat, live : BOOLEAN]
Shapes ==
  /\ mission \in MissionType /\ ck \in CheckpointType /\ events \in EventsType
  /\ ws \in WorkspaceType /\ run \in [Workers -> WorkerType]
  /\ lease \in LeaseType

\* Cursors are handed out in order, and the checkpoint has read no further than the stream.
EventsInOrder ==
  /\ 1 <= events.top /\ events.top < events.next /\ ck.cursor <= events.top
  /\ \A i \in Instructions : events.at[i] < events.next

\* The fence lets one worker through.
OneWriter == \A v, w \in Workers : CanWrite(v) /\ CanWrite(w) => v = w

\* A worker between the count of a tool call and the saving of its result.
Held(v) == run[v].pc \in {"exec", "result"}

\* A tool call nobody executes, has executed or has recorded.
Fresh(c) ==
  /\ ws.applied[c] = 0 /\ c \notin ck.changes
  /\ \A v \in Workers : Held(v) => run[v].tool # c

\* Every tool call is held by one worker at most, before it takes effect and before it
\* is recorded.
HeldOnce ==
  \A v \in Workers : Held(v) =>
    /\ run[v].tool \in CallIds /\ run[v].tool \notin ck.changes
    /\ run[v].pc = "exec" => ws.applied[run[v].tool] = 0
    /\ \A w \in Workers : Held(w) /\ run[w].tool = run[v].tool => w = v

\* The calls later responses will propose.
FreshFrom(n) == \A c \in CallIds : c > n * MaxBatch => Fresh(c)

\* A call that was proposed and still awaits its turn.
Awaiting(c) == Fresh(c) /\ c <= ck.calls * MaxBatch

\* What the worker that may write can rely on, by its place.
BetweenBatches == {"steer", "reserve", "count", "model", "quality", "qcount", "check", "late", "commit"}
Proposing == {"recheck", "refuse", "tool", "toolcount"}
Place(w) ==
  /\ run[w].pc = "count" => ck.calls < MaxCalls
  /\ run[w].pc \in {"toolcount", "qcount"} => ck.tools < MaxTools
  /\ run[w].pc \in {"count", "toolcount", "qcount"} => ck.calls + ck.tools < mission.spent
  /\ run[w].pc \in BetweenBatches => ck.pending = {}
  /\ run[w].pc = "model" => ck.calls >= 1 /\ FreshFrom(ck.calls - 1)
  /\ run[w].pc \in Proposing => \A c \in ck.pending : Awaiting(c)
  /\ run[w].pc \in {"tool", "toolcount"} => ck.pending # {}
  /\ Held(w) => run[w].tool \in ck.pending /\ \A c \in ck.pending \ {run[w].tool} : Awaiting(c)
  /\ run[w].pc \in {"late", "commit"} /\ run[w].ok => ck.changes \cap ws.unchecked = {}
  /\ run[w].pc \in Working => mission.state \notin {"COMPLETED", "BLOCKED", "FAILED"}

\* The inductive part common to both deployments.
ChatInv ==
  /\ Shapes
  /\ EventsInOrder
  /\ EffectOnce /\ DebitedFirst /\ RecordedChangesChecked
  /\ HeldOnce
  /\ FreshFrom(ck.calls)
  /\ mission.state = "PAUSED" => mission.resume # "NONE"
  /\ \A w \in Workers : CanWrite(w) => Place(w)

\* Hosted: tokens tell the invocations apart, the row of the lease names the newest one,
\* and whoever stops a turn has taken the lease away.
TokensDiffer ==
  /\ runs \in Nat /\ lease.token <= runs /\ ck.by <= runs
  /\ \A w \in Workers : run[w].token <= runs
  /\ \A v, w \in Workers : run[v].token = run[w].token /\ run[v].token # 0 => v = w
  /\ lease.live => lease.token > 0 /\ lease.token >= ck.by

HostedStates == {"CREATED", "EXECUTING", "NONE"} \cup Stopped
WriterWorks ==
  \A w \in Workers : CanWrite(w) =>
    /\ run[w].pc \in Working => mission.state \notin Stopped
    /\ run[w].pc \in InAgent \cup {"commit"} => mission.state = "EXECUTING"

HostedInv ==
  /\ ChatInv /\ TokensDiffer /\ WriterWorks
  /\ {mission.state, mission.resume} \subseteq HostedStates

\* Local: SQLite shows an instruction at once, and what lies below the checkpoint's
\* cursor has been read.
ReadInOrder ==
  \A i \in Instructions :
    /\ events.at[i] # 0 => i \in events.visible
    /\ i \in events.visible /\ events.at[i] <= ck.cursor => i \in ck.seen

\* Someone is on a turn that is neither finished nor paused.
Attended ==
  mission.state \notin Stopped => resuming \/ \E w \in Workers : run[w].pc \notin {"idle", "end"}

LocalTurnInv == ChatInv /\ ReadInOrder /\ NoStaleDraft /\ Attended

-----------------------------------------------------------------------------
(* Operators of the model *)

\* Every non-empty set of numbers has a least element.
LEMMA LeastNat ==
  ASSUME NEW S, S \subseteq Nat, S # {}
  PROVE  Min(S) \in S /\ \A y \in S : Min(S) <= y
<1> DEFINE R == OpToRel(<, Nat)
<1>1. PICK x \in S : \A y \in S : ~(<<y, x>> \in R)
  <2> HIDE DEF R
  <2>1. IsWellFoundedOn(R, Nat)
    BY NatLessThanWellFounded DEF R
  <2> QED BY <2>1, WFMin
<1>2. \A y \in S : y < x => <<y, x>> \in R
  BY DEF OpToRel
<1> HIDE DEF R
<1>3. \A y \in S : ~(y < x)
  BY <1>1, <1>2
<1>4. \A y \in S : x <= y
  BY <1>3
<1> QED BY <1>4 DEF Min

\* The calls of a response are new ones, and there is room for them.
LEMMA CallIdRange ==
  ASSUME NEW n \in 1 .. MaxCalls, NEW j \in 1 .. MaxBatch
  PROVE  CallId(n, j) \in CallIds /\ CallId(n, j) > (n - 1) * MaxBatch
<1>1. MaxBatch \in Nat /\ MaxCalls \in Nat
  BY ChatAssumption
<1> DEFINE a == (n - 1) * MaxBatch
           b == (MaxCalls - n) * MaxBatch
<1>2. a \in Nat /\ b \in Nat
  BY <1>1
<1>3. MaxCalls * MaxBatch = a + MaxBatch + b
  BY <1>1
<1> HIDE DEF a, b
<1>4. CallId(n, j) = a + j
  BY DEF CallId, a
<1>5. a + j \in 1 .. a + MaxBatch + b /\ a + j > a
  BY <1>1, <1>2
<1> QED BY <1>3, <1>4, <1>5 DEF CallIds, a

LEMMA CallIdsAreNumbers == CallIds \subseteq Nat \ {0}
<1>1. MaxBatch \in Nat /\ MaxCalls \in Nat
  BY ChatAssumption
<1>2. MaxCalls * MaxBatch \in Nat
  BY <1>1
<1> QED BY <1>2 DEF CallIds

\* emit: the stream only grows.
LEMMA EmitFacts ==
  ASSUME events \in EventsType, EventsInOrder
  PROVE  /\ Emit(events) \in EventsType
         /\ events.top <= Emit(events).top /\ Emit(events).top < Emit(events).next
         /\ events.next <= Emit(events).next
         /\ Emit(events).at = events.at /\ Emit(events).visible = events.visible
<1>1. CASE SectionFree
  BY <1>1 DEF Emit, EventsInOrder, EventsType
<1>2. CASE ~SectionFree
  <2>1. Emit(events) = [events EXCEPT !.next = events.next + 1, !.top = events.next]
    BY <1>2 DEF Emit
  <2>2. /\ Emit(events).next = events.next + 1 /\ Emit(events).top = events.next
        /\ Emit(events).at = events.at /\ Emit(events).visible = events.visible
    BY <2>1 DEF EventsType
  <2>3. Emit(events) \in EventsType
    <3>1. events.next \in Nat /\ events.next + 1 \in Nat
      BY DEF EventsType
    <3> QED BY <2>1, <3>1 DEF EventsType
  <2> QED BY <2>2, <2>3 DEF EventsInOrder, EventsType
<1> QED BY <1>1, <1>2

-----------------------------------------------------------------------------
(* What a step of one worker leaves alone *)

\* Only worker w moved.
Moved(w) ==
  /\ run' \in [Workers -> WorkerType]
  /\ \A v \in Workers : v # w => run'[v] = run[v]

LEMMA GotoMoves ==
  ASSUME Shapes, NEW w \in Workers, NEW pc \in Pcs, Goto(w, pc)
  PROVE  /\ Moved(w)
         /\ run'[w].pc = pc /\ run'[w].token = run[w].token
         /\ run'[w].tool = run[w].tool /\ run'[w].ok = run[w].ok
BY DEF Goto, Shapes, Moved, WorkerType

LEMMA RecordMoves ==
  ASSUME Shapes, NEW w \in Workers, NEW r \in WorkerType, run' = [run EXCEPT ![w] = r]
  PROVE  Moved(w) /\ run'[w] = r
BY DEF Shapes, Moved

LEMMA LeaveMoves ==
  ASSUME Shapes, NEW w \in Workers, NEW pc \in {"catch", "end"}, Leave(w, pc)
  PROVE  Moved(w) /\ run'[w].pc = pc /\ run'[w].token = run[w].token
<1>1. pc \in Pcs
  BY DEF Pcs
<1>2. run[w] \in WorkerType
  BY DEF Shapes
<1> DEFINE a == run[w].aborted /\ pc = "catch"
           r == [Idle EXCEPT !.pc = pc, !.token = run[w].token, !.aborted = a]
<1>0. a \in BOOLEAN
  OBVIOUS
<1> HIDE DEF a
<1>3. Idle \in WorkerType
  BY DEF Idle, WorkerType, Pcs
<1>4. r \in WorkerType
  BY <1>0, <1>1, <1>2, <1>3 DEF WorkerType
<1>5. run' = [run EXCEPT ![w] = r]
  BY DEF Leave, a
<1>6. r.pc = pc /\ r.token = run[w].token
  BY <1>3 DEF WorkerType
<1> HIDE DEF r
<1> QED BY <1>4, <1>5, <1>6 DEF Moved, Shapes

\* The others keep their rights, and lose none.
LEMMA SameWriters ==
  ASSUME NEW w \in Workers, Moved(w), run'[w].token = run[w].token, lease' = lease
  PROVE  /\ \A v \in Workers : CanWrite(v)' <=> CanWrite(v)
         /\ OneWriter <=> OneWriter'
<1>1. \A v \in Workers : run'[v].token = run[v].token
  BY DEF Moved
<1>2. \A v \in Workers : CanWrite(v)' <=> CanWrite(v)
  BY <1>1 DEF CanWrite
<1> QED BY <1>2 DEF OneWriter

\* A worker that is not left with a tool call disturbs no call.
LEMMA CallsUndisturbed ==
  ASSUME Shapes, NEW w \in Workers, Moved(w), ~Held(w)', ws'.applied = ws.applied,
         ck'.changes = ck.changes
  PROVE  /\ \A c : Fresh(c) => Fresh(c)'
         /\ \A n : FreshFrom(n) => FreshFrom(n)'
         /\ HeldOnce => HeldOnce'
<1>1. \A v \in Workers : Held(v)' => Held(v) /\ run'[v] = run[v]
  BY DEF Held, Moved
<1>2. \A c : Fresh(c) => Fresh(c)'
  BY <1>1 DEF Fresh
<1>3. \A n : FreshFrom(n) => FreshFrom(n)'
  BY <1>2 DEF FreshFrom
<1>4. HeldOnce => HeldOnce'
  BY <1>1 DEF HeldOnce
<1> QED BY <1>2, <1>3, <1>4

\* Fewer calls are left when more were made.
LEMMA FreshBeyond ==
  ASSUME NEW n \in Nat, NEW m \in Nat, n <= m, FreshFrom(n)
  PROVE  FreshFrom(m)
<1>1. MaxBatch \in Nat
  BY ChatAssumption
<1>2. n * MaxBatch <= m * MaxBatch
  BY <1>1
<1>3. n * MaxBatch \in Nat /\ m * MaxBatch \in Nat
  BY <1>1
<1>4. \A c \in CallIds : c > m * MaxBatch => c > n * MaxBatch
  BY <1>2, <1>3, CallIdsAreNumbers
<1> QED BY <1>4 DEF FreshFrom

\* A step that touches no tool call and leaves the other writers alone: what is left to
\* show is about the worker's own place, the budget and the events.
LEMMA QuietStep ==
  ASSUME ChatInv, NEW w \in Workers, Moved(w), ~Held(w)', ws' \in WorkspaceType,
         ws'.applied = ws.applied, ws'.unchecked \subseteq ws.unchecked,
         mission' \in MissionType, ck' \in CheckpointType, events' \in EventsType,
         lease' \in LeaseType, ck'.changes = ck.changes, ck'.calls >= ck.calls,
         EventsInOrder', DebitedFirst', RecordedChangesChecked',
         mission'.state = "PAUSED" => mission'.resume # "NONE",
         \A v \in Workers :
           v # w /\ CanWrite(v)' => CanWrite(v) /\ mission' = mission /\ ck' = ck,
         CanWrite(w)' => Place(w)'
  PROVE  ChatInv'
<1>1. Shapes'
  BY DEF ChatInv, Shapes, Moved
<1>2. HeldOnce' /\ \A c : Fresh(c) => Fresh(c)'
  BY CallsUndisturbed DEF ChatInv
<1>3. FreshFrom(ck.calls)'
  <2>1. ck.calls \in Nat /\ ck'.calls \in Nat
    BY ChatAssumption DEF ChatInv, Shapes, CheckpointType
  <2>2. FreshFrom(ck'.calls)
    BY <2>1, FreshBeyond DEF ChatInv
  <2> QED BY <1>2, <2>2 DEF FreshFrom
<1>4. EffectOnce'
  BY DEF ChatInv, EffectOnce
<1>5. ASSUME NEW v \in Workers, v # w, CanWrite(v)' PROVE Place(v)'
  <2>1. Place(v) /\ mission' = mission /\ ck' = ck /\ run'[v] = run[v]
    BY <1>5 DEF ChatInv, Moved
  <2>2. \A n : FreshFrom(n) => FreshFrom(n)'
    BY CallsUndisturbed DEF ChatInv
  <2>3. /\ Held(v)' <=> Held(v)
        /\ \A c : Awaiting(c) => Awaiting(c)'
    BY <1>2, <2>1 DEF Held, Awaiting
  <2>4. run'[v].pc = "model" => ck'.calls >= 1 /\ FreshFrom(ck.calls - 1)'
    BY <2>1, <2>2 DEF Place, FreshFrom
  <2>5. ck.changes \cap ws.unchecked = {} => ck'.changes \cap ws'.unchecked = {}
    BY <2>1
  <2> QED BY <2>1, <2>3, <2>4, <2>5 DEF Place
<1>6. \A v \in Workers : CanWrite(v)' => Place(v)'
  BY <1>5
<1> QED BY <1>1, <1>2, <1>3, <1>4, <1>6 DEF ChatInv

\* The same for the worker the fence lets through.
LEMMA WriterStep ==
  ASSUME ChatInv, OneWriter, NEW w \in Workers, CanWrite(w), Moved(w),
         run'[w].token = run[w].token, ~Held(w)', lease' = lease, ws' = ws,
         mission' \in MissionType, ck' \in CheckpointType, events' \in EventsType,
         ck'.changes = ck.changes, ck'.calls >= ck.calls,
         EventsInOrder', DebitedFirst', RecordedChangesChecked',
         mission'.state = "PAUSED" => mission'.resume # "NONE",
         Place(w)'
  PROVE  ChatInv'
<1>1. \A v \in Workers : v # w => ~CanWrite(v)'
  BY SameWriters DEF OneWriter
<1>2. lease' \in LeaseType /\ ws' \in WorkspaceType
  BY DEF ChatInv, Shapes
<1> QED BY <1>1, <1>2, QuietStep

\* A worker that moves without touching the database.
LEMMA RunStep ==
  ASSUME ChatInv, NEW w \in Workers, Moved(w), ~Held(w)', lease' \in LeaseType,
         UNCHANGED <<mission, ck, events, ws>>,
         \A v \in Workers : v # w /\ CanWrite(v)' => CanWrite(v),
         CanWrite(w)' => Place(w)'
  PROVE  ChatInv'
<1>1. mission' = mission /\ ck' = ck /\ events' = events /\ ws' = ws
  OBVIOUS
<1>2. EventsInOrder' /\ DebitedFirst' /\ RecordedChangesChecked'
  BY <1>1 DEF ChatInv, EventsInOrder, DebitedFirst, RecordedChangesChecked
<1>3. /\ mission' \in MissionType /\ ck' \in CheckpointType /\ events' \in EventsType
      /\ ws' \in WorkspaceType
  BY <1>1 DEF ChatInv, Shapes
<1>4. ck'.changes = ck.changes /\ ck'.calls >= ck.calls
  BY <1>1, <1>3, ChatAssumption DEF CheckpointType
<1>5. mission'.state = "PAUSED" => mission'.resume # "NONE"
  BY <1>1 DEF ChatInv
<1> QED BY <1>1, <1>2, <1>3, <1>4, <1>5, QuietStep

\* A control, a steer or an abort: the workers stay where they are, and no one gains
\* the right to write.
LEMMA ControlStep ==
  ASSUME ChatInv, run' \in [Workers -> WorkerType], ck' = ck, ws' = ws,
         \A v \in Workers : /\ run'[v].pc = run[v].pc /\ run'[v].tool = run[v].tool
                            /\ run'[v].ok = run[v].ok,
         mission' \in MissionType, mission'.spent = mission.spent,
         mission'.state \in {"COMPLETED", "BLOCKED", "FAILED"} => mission'.state = mission.state,
         mission'.state = "PAUSED" => mission'.resume # "NONE",
         events' \in EventsType, EventsInOrder', lease' \in LeaseType,
         \A v \in Workers : CanWrite(v)' => CanWrite(v)
  PROVE  ChatInv'
<1>1. Shapes'
  BY DEF ChatInv, Shapes
<1>2. \A v \in Workers : Held(v)' <=> Held(v)
  BY DEF Held
<1>3. \A c : (Fresh(c)' <=> Fresh(c)) /\ (Awaiting(c)' <=> Awaiting(c))
  BY <1>2 DEF Fresh, Awaiting
<1>4. \A n : FreshFrom(n)' <=> FreshFrom(n)
  BY <1>3 DEF FreshFrom
<1>5. FreshFrom(ck.calls)' /\ (FreshFrom(ck.calls - 1)' <=> FreshFrom(ck.calls - 1))
  BY <1>4 DEF ChatInv, FreshFrom
<1>6. HeldOnce'
  BY <1>2 DEF ChatInv, HeldOnce
<1>7. EffectOnce' /\ DebitedFirst' /\ RecordedChangesChecked'
  BY DEF ChatInv, EffectOnce, DebitedFirst, RecordedChangesChecked
<1>8. ASSUME NEW v \in Workers, CanWrite(v)' PROVE Place(v)'
  <2>1. Place(v)
    BY <1>8 DEF ChatInv
  <2> QED BY <1>2, <1>3, <1>5, <2>1 DEF Place
<1> QED BY <1>1, <1>5, <1>6, <1>7, <1>8 DEF ChatInv

\* save: the checkpoint given, under the token of the worker.
LEMMA SaveFacts ==
  ASSUME Shapes, NEW w \in Workers, NEW new \in CheckpointType, Save(w, new)
  PROVE  /\ ck' \in CheckpointType
         /\ ck'.calls = new.calls /\ ck'.tools = new.tools /\ ck'.pending = new.pending
         /\ ck'.changes = new.changes /\ ck'.cursor = new.cursor /\ ck'.seen = new.seen
         /\ ck'.by = run[w].token
<1>1. run[w].token \in Nat
  BY DEF Shapes, WorkerType
<1> QED BY <1>1 DEF Save, CheckpointType

LEMMA StreamGrows ==
  ASSUME ChatInv, events' = events \/ events' = Emit(events), ck' \in CheckpointType,
         ck'.cursor = ck.cursor \/ ck'.cursor = events.top \/ ck'.cursor = events'.top
  PROVE  events' \in EventsType /\ EventsInOrder'
<1>1. /\ events' \in EventsType
      /\ events.top <= events'.top /\ events'.top < events'.next
      /\ events.next <= events'.next
      /\ events'.at = events.at
  BY EmitFacts DEF ChatInv, Shapes, EventsInOrder, EventsType
<1>2. /\ events.top \in Nat /\ events.next \in Nat /\ events'.top \in Nat /\ events'.next \in Nat
      /\ ck.cursor \in Nat
  BY <1>1 DEF ChatInv, Shapes, EventsType, CheckpointType
<1>3. 1 <= events'.top /\ ck'.cursor <= events'.top
  BY <1>1, <1>2 DEF ChatInv, EventsInOrder
<1>4. \A i \in Instructions : events'.at[i] < events'.next
  BY <1>1, <1>2 DEF ChatInv, Shapes, EventsInOrder, EventsType
<1> QED BY <1>1, <1>3, <1>4 DEF EventsInOrder

LEMMA SameMission ==
  ASSUME ChatInv, mission' = mission, ck'.changes = ck.changes, ws' = ws
  PROVE  /\ mission' \in MissionType /\ RecordedChangesChecked'
         /\ mission'.state = "PAUSED" => mission'.resume # "NONE"
BY DEF ChatInv, Shapes, RecordedChangesChecked

\* Numbers of the model.
LEMMA Counts ==
  ASSUME Shapes
  PROVE  /\ ck.calls \in Nat /\ ck.tools \in Nat /\ mission.spent \in Nat
         /\ MaxCalls \in Nat /\ MaxTools \in Nat /\ MaxAttempts \in Nat /\ MaxBatch \in Nat
         /\ ck.calls <= MaxCalls /\ ck.tools <= MaxTools /\ mission.spent <= MaxAttempts
BY ChatAssumption DEF Shapes, CheckpointType, MissionType

-----------------------------------------------------------------------------
(* The steps of the worker that may write *)

\* A writer that only saves a checkpoint.
LEMMA SavingStep ==
  ASSUME ChatInv, OneWriter, NEW w \in Workers, CanWrite(w),
         Moved(w), run'[w].token = run[w].token, ~Held(w)',
         mission' = mission, ws' = ws, lease' = lease,
         NEW new \in CheckpointType, Save(w, new),
         new.changes = ck.changes, new.calls >= ck.calls,
         events' = events \/ events' = Emit(events),
         new.cursor = ck.cursor \/ new.cursor = events.top \/ new.cursor = events'.top,
         new.calls + new.tools <= mission.spent,
         Place(w)'
  PROVE  ChatInv'
<1>1. /\ ck' \in CheckpointType /\ ck'.changes = ck.changes /\ ck'.calls >= ck.calls
      /\ ck'.calls = new.calls /\ ck'.tools = new.tools /\ ck'.cursor = new.cursor
  BY SaveFacts DEF ChatInv
<1>2. events' \in EventsType /\ EventsInOrder'
  BY <1>1, StreamGrows
<1>3. /\ mission' \in MissionType /\ RecordedChangesChecked'
      /\ mission'.state = "PAUSED" => mission'.resume # "NONE"
  BY <1>1, SameMission
<1>4. DebitedFirst'
  BY <1>1 DEF DebitedFirst
<1> QED BY <1>1, <1>2, <1>3, <1>4, WriterStep

LEMMA ScheduleKeeps ==
  ASSUME ChatInv, OneWriter, NEW w \in Workers, Schedule(w)
  PROVE  ChatInv'
<1> DEFINE pc == IF mission.state \in Stopped THEN "end" ELSE "begin"
<1>1. pc \in Pcs /\ pc \in {"end", "begin"}
  BY DEF Pcs, Working
<1>2. Goto(w, pc) /\ UNCHANGED <<mission, ck, events, ws, lease>>
  BY DEF Schedule
<1>3. pc = "begin" => mission.state \notin Stopped
  OBVIOUS
<1> HIDE DEF pc
<1>4. Moved(w)
  BY <1>1, <1>2, GotoMoves DEF ChatInv
<1>5. run'[w].pc = pc /\ run'[w].token = run[w].token
  BY <1>1, <1>2, GotoMoves DEF ChatInv
<1>6. Place(w)'
  BY <1>1, <1>2, <1>3, <1>5 DEF Place, Held, BetweenBatches, Proposing, Stopped, Terminal,
          Working, InAgent, External
<1>7. \A v \in Workers : CanWrite(v)' => CanWrite(v)
  BY <1>2, <1>4, <1>5, SameWriters
<1>8. ~Held(w)' /\ lease' \in LeaseType
  BY <1>1, <1>2, <1>5 DEF Held, ChatInv, Shapes
<1> QED BY <1>2, <1>4, <1>6, <1>7, <1>8, RunStep

LEMMA BeginKeeps ==
  ASSUME ChatInv, OneWriter, NEW w \in Workers, Begin(w)
  PROVE  ChatInv'
<1>1. Moved(w) /\ run'[w].pc = "enter" /\ run'[w].token = run[w].token
  <2> DEFINE r == [run[w] EXCEPT !.pc = "enter", !.uncertain = FALSE]
  <2>1. run \in [Workers -> WorkerType] /\ run[w] \in WorkerType
    BY DEF ChatInv, Shapes
  <2>2. r \in WorkerType
    BY <2>1 DEF WorkerType, Pcs, Working, InAgent
  <2>3. r.pc = "enter" /\ r.token = run[w].token
    BY <2>1 DEF WorkerType
  <2>4. run' = [run EXCEPT ![w] = r]
    BY <2>1 DEF Begin
  <2> HIDE DEF r
  <2> QED BY <2>1, <2>2, <2>3, <2>4 DEF Moved
<1>2. ck' = ck /\ ws' = ws /\ lease' = lease /\ events' = Emit(events) /\ CanWrite(w)
      /\ run[w].pc = "begin"
  BY DEF Begin, At
<1>3. /\ mission' \in MissionType /\ mission'.spent = mission.spent
      /\ mission'.resume = mission.resume
      /\ mission'.state = mission.state \/ mission'.state = "EXECUTING"
  BY DEF Begin, ChatInv, Shapes, MissionType, Active
<1>4. ck' \in CheckpointType /\ ck'.changes = ck.changes /\ ck'.calls >= ck.calls
  BY <1>2, Counts DEF ChatInv, Shapes
<1>5. events' \in EventsType /\ EventsInOrder'
  BY <1>2, <1>4, StreamGrows
<1>6. DebitedFirst' /\ RecordedChangesChecked'
  BY <1>2, <1>3 DEF ChatInv, DebitedFirst, RecordedChangesChecked
<1>7. mission'.state = "PAUSED" => mission'.resume # "NONE"
  BY <1>3 DEF ChatInv
<1>8. Place(w)'
  <2>1. mission.state \notin {"COMPLETED", "BLOCKED", "FAILED"}
    BY <1>2 DEF ChatInv, Place, Working
  <2> QED BY <1>1, <1>3, <2>1 DEF Place, Held, BetweenBatches, Proposing
<1>9. ~Held(w)'
  BY <1>1 DEF Held
<1> QED BY <1>1, <1>2, <1>3, <1>4, <1>5, <1>6, <1>7, <1>8, <1>9, WriterStep

LEMMA MarkUnknownKeeps ==
  ASSUME ChatInv, OneWriter, NEW w \in Workers, MarkUnknown(w)
  PROVE  ChatInv'
<1> DEFINE new == [ck EXCEPT !.pending = @ \ {Min(ck.pending)}]
           r == [run[w] EXCEPT !.uncertain = TRUE]
<1>1. CanWrite(w) /\ Place(w) /\ run[w].pc = "enter" /\ run[w] \in WorkerType
  BY DEF MarkUnknown, At, ChatInv, Shapes
<1>2. r \in WorkerType /\ r.pc = "enter" /\ r.token = run[w].token
  BY <1>1 DEF WorkerType
<1>3. run' = [run EXCEPT ![w] = r]
  BY DEF MarkUnknown
<1>4. new \in CheckpointType /\ new.calls = ck.calls /\ new.tools = ck.tools
      /\ new.changes = ck.changes /\ new.cursor = ck.cursor
  BY DEF ChatInv, Shapes, CheckpointType
<1>5. Save(w, new) /\ UNCHANGED <<mission, events, ws, lease>>
  BY DEF MarkUnknown
<1> HIDE DEF new, r
<1>6. Moved(w) /\ run'[w] = r
  BY <1>2, <1>3, RecordMoves DEF ChatInv
<1>7. Place(w)'
  BY <1>1, <1>2, <1>5, <1>6
     DEF Place, Held, BetweenBatches, Proposing, Working, InAgent, External
<1>8. ~Held(w)'
  BY <1>2, <1>6 DEF Held
<1>9. new.calls >= ck.calls /\ new.calls + new.tools <= mission.spent
  BY <1>4, Counts DEF ChatInv, DebitedFirst
<1> QED BY <1>1, <1>2, <1>4, <1>5, <1>6, <1>7, <1>8, <1>9, SavingStep

LEMMA EnterKeeps ==
  ASSUME ChatInv, OneWriter, NEW w \in Workers, Enter(w)
  PROVE  ChatInv'
<1>1. CanWrite(w) /\ Place(w) /\ run[w].pc = "enter" /\ ck.pending = {}
  BY DEF Enter, At, ChatInv
<1>2. Goto(w, "steer") /\ Save(w, ck) /\ events' = Emit(events) /\ UNCHANGED <<mission, ws, lease>>
  BY DEF Enter
<1>3. "steer" \in Pcs
  BY DEF Pcs, Working, InAgent
<1>4. Moved(w) /\ run'[w].pc = "steer" /\ run'[w].token = run[w].token
  BY <1>2, <1>3, GotoMoves DEF ChatInv
<1>5. ck \in CheckpointType /\ ck'.pending = {}
  BY <1>1, <1>2, SaveFacts DEF ChatInv, Shapes
<1>6. Place(w)'
  BY <1>1, <1>2, <1>4, <1>5
     DEF Place, Held, BetweenBatches, Proposing, Working, InAgent, External
<1>7. ~Held(w)'
  BY <1>4 DEF Held
<1>8. ck.calls >= ck.calls /\ ck.calls + ck.tools <= mission.spent
  BY Counts DEF ChatInv, DebitedFirst
<1> QED BY <1>1, <1>2, <1>4, <1>5, <1>6, <1>7, <1>8, SavingStep

\* Absorbing keeps the counts and reaches the end of the stream.
LEMMA AbsorbFacts ==
  ASSUME ChatInv
  PROVE  /\ Absorb \in CheckpointType
         /\ Absorb.calls = ck.calls /\ Absorb.tools = ck.tools /\ Absorb.pending = ck.pending
         /\ Absorb.changes = ck.changes /\ Absorb.cursor = events.top
         /\ Absorb.seen = ck.seen \cup NewSteering
<1> DEFINE b == ck.reviewed /\ NewSteering = {}
<1>1. b \in BOOLEAN
  OBVIOUS
<1>2. Absorb = [ck EXCEPT !.seen = @ \cup NewSteering, !.reviewed = b, !.cursor = events.top]
  BY DEF Absorb
<1> HIDE DEF b
<1>3. NewSteering \subseteq Instructions /\ events.top \in Nat /\ ck \in CheckpointType
  BY DEF NewSteering, ChatInv, Shapes, EventsType
<1> QED BY <1>1, <1>2, <1>3 DEF CheckpointType

LEMMA TakeSteeringKeeps ==
  ASSUME ChatInv, OneWriter, NEW w \in Workers, TakeSteering(w)
  PROVE  ChatInv'
<1> DEFINE r == [run[w] EXCEPT !.pc = "reserve", !.reviewing = FALSE]
<1>1. CanWrite(w) /\ Place(w) /\ run[w].pc = "steer" /\ run[w] \in WorkerType
  BY DEF TakeSteering, At, ChatInv, Shapes
<1>2. r \in WorkerType /\ r.pc = "reserve" /\ r.token = run[w].token
  BY <1>1 DEF WorkerType, Pcs, Working, InAgent
<1>3. run' = [run EXCEPT ![w] = r]
  BY DEF TakeSteering
<1> HIDE DEF r
<1>4. Save(w, Absorb) /\ UNCHANGED <<mission, events, ws, lease>>
  BY DEF TakeSteering
<1>5. Moved(w) /\ run'[w] = r
  BY <1>2, <1>3, RecordMoves DEF ChatInv
<1>6. ck'.pending = {}
  <2>1. ck.pending = {}
    BY <1>1 DEF Place, BetweenBatches
  <2> QED BY <1>4, <2>1, AbsorbFacts, SaveFacts DEF ChatInv
<1>7. Place(w)'
  BY <1>1, <1>2, <1>4, <1>5, <1>6
     DEF Place, Held, BetweenBatches, Proposing, Working, InAgent, External
<1>8. ~Held(w)'
  BY <1>2, <1>5 DEF Held
<1>9. Absorb.calls >= ck.calls /\ Absorb.calls + Absorb.tools <= mission.spent
  BY AbsorbFacts, Counts DEF ChatInv, DebitedFirst
<1> QED BY <1>1, <1>2, <1>4, <1>5, <1>7, <1>8, <1>9, AbsorbFacts, SavingStep

\* reserve: one attempt more, on a mission that is executing.
LEMMA DebitFacts ==
  ASSUME ChatInv, NEW w \in Workers, Debit(w), ck' = ck, ws' = ws
  PROVE  /\ mission' \in MissionType /\ mission'.spent = mission.spent + 1
         /\ mission'.state = "EXECUTING" /\ mission'.state = mission.state
         /\ ck.calls + ck.tools < mission'.spent
         /\ DebitedFirst' /\ RecordedChangesChecked'
<1>1. mission \in MissionType /\ mission.spent + 1 \in 0 .. MaxAttempts
  BY Counts DEF ChatInv, Shapes, Debit
<1>2. /\ mission' \in MissionType /\ mission'.spent = mission.spent + 1
      /\ mission'.state = mission.state
  BY <1>1 DEF Debit, MissionType
<1>3. mission.state = "EXECUTING"
  BY DEF Debit
<1>4. ck.calls + ck.tools < mission'.spent
  BY <1>2, Counts DEF ChatInv, DebitedFirst
<1> QED BY <1>2, <1>3, <1>4, Counts DEF DebitedFirst, RecordedChangesChecked, ChatInv

\* A debit that sends the worker to count what it has reserved.
LEMMA ReserveStep ==
  ASSUME ChatInv, OneWriter, NEW w \in Workers, CanWrite(w), Debit(w),
         NEW pc \in {"count", "toolcount", "qcount"}, Goto(w, pc),
         UNCHANGED <<ck, events, ws, lease>>,
         pc = "count" => ck.calls < MaxCalls,
         pc \in {"toolcount", "qcount"} => ck.tools < MaxTools,
         pc \in {"count", "qcount"} => ck.pending = {},
         pc = "toolcount" => ck.pending # {} /\ \A c \in ck.pending : Awaiting(c)
  PROVE  ChatInv'
<1>1. ck' = ck /\ events' = events /\ ws' = ws /\ lease' = lease
  OBVIOUS
<1>2. pc \in Pcs
  BY DEF Pcs, Working, InAgent
<1>3. Moved(w) /\ run'[w].pc = pc /\ run'[w].token = run[w].token
  BY <1>2, GotoMoves DEF ChatInv
<1>4. ~Held(w)'
  BY <1>3 DEF Held
<1>5. /\ mission' \in MissionType /\ mission'.state = "EXECUTING"
      /\ ck.calls + ck.tools < mission'.spent
      /\ DebitedFirst' /\ RecordedChangesChecked'
  BY <1>1, DebitFacts
<1>6. ck' \in CheckpointType /\ ck'.changes = ck.changes /\ ck'.calls >= ck.calls
  BY <1>1, Counts DEF ChatInv, Shapes
<1>7. events' \in EventsType /\ EventsInOrder'
  BY <1>1, <1>6, StreamGrows
<1>8. \A c : Awaiting(c) => Awaiting(c)'
  BY <1>1, <1>3, <1>4, <1>6, CallsUndisturbed DEF ChatInv, Awaiting
<1>9. Place(w)'
  BY <1>1, <1>3, <1>4, <1>5, <1>8 DEF Place, BetweenBatches, Proposing
<1> QED BY <1>1, <1>3, <1>4, <1>5, <1>6, <1>7, <1>9, WriterStep

LEMMA ReserveCallKeeps ==
  ASSUME ChatInv, OneWriter, NEW w \in Workers, ReserveCall(w)
  PROVE  ChatInv'
<1>1. CanWrite(w) /\ ck.pending = {}
  BY DEF ReserveCall, At, ChatInv, Place, BetweenBatches
<1> QED BY <1>1, ReserveStep DEF ReserveCall

LEMMA ReserveToolKeeps ==
  ASSUME ChatInv, OneWriter, NEW w \in Workers, ReserveTool(w)
  PROVE  ChatInv'
<1>1. CanWrite(w) /\ ck.pending # {} /\ \A c \in ck.pending : Awaiting(c)
  BY DEF ReserveTool, At, ChatInv, Place, Proposing
<1> QED BY <1>1, ReserveStep DEF ReserveTool

LEMMA ReserveQualityKeeps ==
  ASSUME ChatInv, OneWriter, NEW w \in Workers, ReserveQuality(w)
  PROVE  ChatInv'
<1>1. CanWrite(w) /\ ck.pending = {} /\ Place(w) /\ run[w].pc = "quality" /\ run[w] \in WorkerType
  BY DEF ReserveQuality, At, ChatInv, Place, BetweenBatches, Shapes
<1>2. CASE ck.tools < MaxTools /\ Debit(w) /\ Goto(w, "qcount")
  BY <1>1, <1>2, ReserveStep DEF ReserveQuality
<1>3. CASE run' = [run EXCEPT ![w].pc = "late", ![w].ok = FALSE] /\ UNCHANGED mission
  <2> DEFINE r == [run[w] EXCEPT !.pc = "late", !.ok = FALSE]
  <2>1. r \in WorkerType /\ r.pc = "late" /\ r.token = run[w].token /\ ~r.ok
    BY <1>1 DEF WorkerType, Pcs, Working, InAgent
  <2>2. run' = [run EXCEPT ![w] = r]
    BY <1>3
  <2>3. UNCHANGED <<mission, ck, events, ws, lease>>
    BY <1>3 DEF ReserveQuality
  <2> HIDE DEF r
  <2>4. Moved(w) /\ run'[w] = r
    BY <2>1, <2>2, RecordMoves DEF ChatInv
  <2>5. ~Held(w)'
    BY <2>1, <2>4 DEF Held
  <2>6. Place(w)'
    BY <1>1, <2>1, <2>3, <2>4, <2>5
       DEF Place, BetweenBatches, Proposing, Working, InAgent, External
  <2>7. \A v \in Workers : CanWrite(v)' => CanWrite(v)
    BY <2>1, <2>3, <2>4, SameWriters
  <2>8. lease' \in LeaseType
    BY <2>3 DEF ChatInv, Shapes
  <2> QED BY <2>3, <2>4, <2>5, <2>6, <2>7, <2>8, RunStep
<1> QED BY <1>2, <1>3 DEF ReserveQuality

\* The count of a model call opens the range of the calls its answer may propose.
LEMMA CountCallKeeps ==
  ASSUME ChatInv, OneWriter, NEW w \in Workers, CountCall(w)
  PROVE  ChatInv'
<1> DEFINE new == [ck EXCEPT !.calls = @ + 1]
<1>1. CanWrite(w) /\ Place(w) /\ run[w].pc = "count" /\ ck.pending = {}
  BY DEF CountCall, At, ChatInv, Place, BetweenBatches
<1>2. ck.calls + 1 \in 0 .. MaxCalls /\ ck.calls + 1 + ck.tools <= mission.spent
  BY <1>1, Counts DEF ChatInv, Place
<1>3. /\ new \in CheckpointType /\ new.calls = ck.calls + 1 /\ new.tools = ck.tools
      /\ new.pending = {} /\ new.changes = ck.changes /\ new.cursor = ck.cursor
  BY <1>1, <1>2 DEF ChatInv, Shapes, CheckpointType
<1>4. Save(w, new) /\ Goto(w, "model") /\ events' = Emit(events) /\ UNCHANGED <<mission, ws, lease>>
  BY DEF CountCall
<1> HIDE DEF new
<1>5. "model" \in Pcs
  BY DEF Pcs, Working, InAgent, External
<1>6. Moved(w) /\ run'[w].pc = "model" /\ run'[w].token = run[w].token
  BY <1>4, <1>5, GotoMoves DEF ChatInv
<1>7. ck'.calls = ck.calls + 1 /\ ck'.pending = {} /\ ck'.changes = ck.changes
  BY <1>3, <1>4, SaveFacts DEF ChatInv
<1>8. ~Held(w)'
  BY <1>6 DEF Held
<1>9. FreshFrom(ck.calls - 1)'
  <2>1. \A c : Fresh(c) => Fresh(c)'
    BY <1>4, <1>6, <1>7, <1>8, CallsUndisturbed DEF ChatInv
  <2>2. ck'.calls - 1 = ck.calls
    BY <1>7, Counts DEF ChatInv
  <2>3. FreshFrom(ck.calls)
    BY DEF ChatInv
  <2> QED BY <2>1, <2>2, <2>3 DEF FreshFrom
<1>10. Place(w)'
  <2>1. ck'.calls >= 1
    BY <1>7, Counts DEF ChatInv
  <2> QED BY <1>1, <1>4, <1>6, <1>7, <1>8, <1>9, <2>1
          DEF Place, BetweenBatches, Proposing, Working, InAgent, External
<1>11. new.calls >= ck.calls /\ new.calls + new.tools <= mission.spent
  BY <1>2, <1>3, Counts DEF ChatInv
<1> QED BY <1>1, <1>3, <1>4, <1>6, <1>8, <1>10, <1>11, SavingStep

LEMMA RespondReviewKeeps ==
  ASSUME ChatInv, OneWriter, NEW w \in Workers, RespondReview(w)
  PROVE  ChatInv'
<1> DEFINE new == [ck EXCEPT !.reviewed = TRUE]
<1>1. CanWrite(w) /\ Place(w) /\ run[w].pc = "model" /\ ck.pending = {}
  BY DEF RespondReview, At, ChatInv, Place, BetweenBatches
<1>2. /\ new \in CheckpointType /\ new.calls = ck.calls /\ new.tools = ck.tools
      /\ new.pending = {} /\ new.changes = ck.changes /\ new.cursor = ck.cursor
  BY <1>1 DEF ChatInv, Shapes, CheckpointType
<1>3. Save(w, new) /\ Goto(w, "steer") /\ events' = Emit(events) /\ UNCHANGED <<mission, ws, lease>>
  BY DEF RespondReview
<1> HIDE DEF new
<1>4. "steer" \in Pcs
  BY DEF Pcs, Working, InAgent
<1>5. Moved(w) /\ run'[w].pc = "steer" /\ run'[w].token = run[w].token
  BY <1>3, <1>4, GotoMoves DEF ChatInv
<1>6. ck'.pending = {}
  BY <1>2, <1>3, SaveFacts DEF ChatInv
<1>7. ~Held(w)'
  BY <1>5 DEF Held
<1>8. Place(w)'
  BY <1>1, <1>3, <1>5, <1>6, <1>7 DEF Place, BetweenBatches, Proposing, Working, InAgent, External
<1>9. new.calls >= ck.calls /\ new.calls + new.tools <= mission.spent
  BY <1>2, Counts DEF ChatInv, DebitedFirst
<1> QED BY <1>1, <1>2, <1>3, <1>5, <1>7, <1>8, <1>9, SavingStep

\* The proposed calls are new ones.
LEMMA RespondKeeps ==
  ASSUME ChatInv, OneWriter, NEW w \in Workers, Respond(w)
  PROVE  ChatInv'
<1>1. CanWrite(w) /\ Place(w) /\ run[w].pc = "model"
  BY DEF Respond, At, ChatInv
<1>2. PICK k \in 0 .. MaxBatch : Save(w, [ck EXCEPT !.pending = {CallId(ck.calls, j) : j \in 1 .. k}])
  BY DEF Respond
<1> DEFINE p == {CallId(ck.calls, j) : j \in 1 .. k}
           new == [ck EXCEPT !.pending = p]
<1>3. \A c \in p : c \in CallIds /\ Fresh(c) /\ c <= ck.calls * MaxBatch
  <2> SUFFICES ASSUME NEW j \in 1 .. k
               PROVE  /\ CallId(ck.calls, j) \in CallIds /\ Fresh(CallId(ck.calls, j))
                      /\ CallId(ck.calls, j) <= ck.calls * MaxBatch
    OBVIOUS
  <2>1. ck.calls \in 1 .. MaxCalls /\ FreshFrom(ck.calls - 1)
    BY <1>1, Counts DEF ChatInv, Place
  <2>2. j \in 1 .. MaxBatch
    BY Counts DEF ChatInv
  <2>3. CallId(ck.calls, j) \in CallIds /\ CallId(ck.calls, j) > (ck.calls - 1) * MaxBatch
    BY <2>1, <2>2, CallIdRange
  <2>4. CallId(ck.calls, j) <= ck.calls * MaxBatch
    <3> DEFINE a == (ck.calls - 1) * MaxBatch
    <3>1. a \in Int /\ ck.calls * MaxBatch = a + MaxBatch
      BY Counts DEF ChatInv
    <3>2. CallId(ck.calls, j) = a + j
      BY DEF CallId
    <3> HIDE DEF a
    <3> QED BY <2>2, <3>1, <3>2, Counts DEF ChatInv
  <2> QED BY <2>1, <2>3, <2>4 DEF FreshFrom
<1> HIDE DEF p
<1>4. /\ new \in CheckpointType /\ new.calls = ck.calls /\ new.tools = ck.tools
      /\ new.pending = p /\ new.changes = ck.changes /\ new.cursor = ck.cursor
  BY <1>3 DEF ChatInv, Shapes, CheckpointType
<1>5. Save(w, new) /\ Goto(w, "recheck") /\ events' = Emit(events) /\ UNCHANGED <<mission, ws, lease>>
  BY <1>2 DEF Respond, p
<1> HIDE DEF new
<1>6. "recheck" \in Pcs
  BY DEF Pcs, Working, InAgent
<1>7. Moved(w) /\ run'[w].pc = "recheck" /\ run'[w].token = run[w].token
  BY <1>5, <1>6, GotoMoves DEF ChatInv
<1>8. ck'.pending = p /\ ck'.changes = ck.changes /\ ck'.calls = ck.calls
  BY <1>4, <1>5, SaveFacts DEF ChatInv
<1>9. ~Held(w)'
  BY <1>7 DEF Held
<1>10. \A c \in p : Awaiting(c)'
  <2>1. \A c : Fresh(c) => Fresh(c)'
    BY <1>5, <1>7, <1>8, <1>9, CallsUndisturbed DEF ChatInv
  <2> QED BY <1>3, <1>8, <2>1 DEF Awaiting
<1>11. Place(w)'
  BY <1>1, <1>5, <1>7, <1>8, <1>9, <1>10 DEF Place, BetweenBatches, Working, InAgent, External
<1>12. new.calls >= ck.calls /\ new.calls + new.tools <= mission.spent
  BY <1>4, Counts DEF ChatInv, DebitedFirst
<1> QED BY <1>1, <1>4, <1>5, <1>7, <1>9, <1>11, <1>12, SavingStep

LEMMA RecheckKeeps ==
  ASSUME ChatInv, OneWriter, NEW w \in Workers, Recheck(w)
  PROVE  ChatInv'
<1>1. CanWrite(w) /\ Place(w) /\ run[w].pc = "recheck" /\ run[w] \in WorkerType
  BY DEF Recheck, At, ChatInv, Shapes
<1>2. \A c \in ck.pending : Awaiting(c)
  BY <1>1 DEF Place, Proposing
<1>3. UNCHANGED <<mission, ck, events, ws, lease>>
  BY DEF Recheck
<1>4. \E r \in WorkerType :
        /\ run' = [run EXCEPT ![w] = r] /\ r.token = run[w].token
        /\ \/ r.pc = "refuse"
           \/ r.pc = "tool" /\ ck.pending # {}
           \/ r.pc \in {"reserve", "quality"} /\ ck.pending = {}
           \/ r.pc = "late" /\ ck.pending = {} /\ ck.changes = {}
  <2>1. CASE Goto(w, "refuse")
    <3> DEFINE r == [run[w] EXCEPT !.pc = "refuse"]
    <3>1. r \in WorkerType /\ r.pc = "refuse" /\ r.token = run[w].token
      BY <1>1 DEF WorkerType, Pcs, Working, InAgent
    <3>2. run' = [run EXCEPT ![w] = r]
      BY <2>1 DEF Goto
    <3> QED BY <3>1, <3>2
  <2>2. CASE ck.pending # {} /\ Goto(w, "tool")
    <3> DEFINE r == [run[w] EXCEPT !.pc = "tool"]
    <3>1. r \in WorkerType /\ r.pc = "tool" /\ r.token = run[w].token
      BY <1>1 DEF WorkerType, Pcs, Working, InAgent
    <3>2. run' = [run EXCEPT ![w] = r]
      BY <2>2 DEF Goto
    <3> QED BY <2>2, <3>1, <3>2
  <2>3. CASE ck.pending = {} /\ run' = [run EXCEPT ![w].pc = "reserve", ![w].reviewing = TRUE]
    <3> DEFINE r == [run[w] EXCEPT !.pc = "reserve", !.reviewing = TRUE]
    <3>1. r \in WorkerType /\ r.pc = "reserve" /\ r.token = run[w].token
      BY <1>1 DEF WorkerType, Pcs, Working, InAgent
    <3>2. run' = [run EXCEPT ![w] = r]
      BY <2>3
    <3> QED BY <2>3, <3>1, <3>2
  <2>4. ASSUME ck.pending = {}, NEW citationsHold \in BOOLEAN,
               run' = [run EXCEPT ![w].pc = IF NeedsQuality(w) THEN "quality" ELSE "late",
                                  ![w].ok = citationsHold]
        PROVE  \E r \in WorkerType :
                 /\ run' = [run EXCEPT ![w] = r] /\ r.token = run[w].token
                 /\ r.pc = "quality" \/ (r.pc = "late" /\ ck.changes = {})
    <3> DEFINE pc == IF NeedsQuality(w) THEN "quality" ELSE "late"
               r == [run[w] EXCEPT !.pc = pc, !.ok = citationsHold]
    <3>1. pc = "quality" \/ (pc = "late" /\ ck.changes = {})
      BY DEF NeedsQuality
    <3>2. pc \in Pcs
      BY <3>1 DEF Pcs, Working, InAgent
    <3>3. run' = [run EXCEPT ![w] = r]
      BY <2>4
    <3> HIDE DEF pc
    <3>4. r \in WorkerType /\ r.pc = pc /\ r.token = run[w].token
      BY <1>1, <3>2 DEF WorkerType
    <3> QED BY <3>1, <3>3, <3>4
  <2> QED BY <2>1, <2>2, <2>3, <2>4 DEF Recheck
<1>5. PICK r \in WorkerType :
        /\ run' = [run EXCEPT ![w] = r] /\ r.token = run[w].token
        /\ \/ r.pc = "refuse"
           \/ r.pc = "tool" /\ ck.pending # {}
           \/ r.pc \in {"reserve", "quality"} /\ ck.pending = {}
           \/ r.pc = "late" /\ ck.pending = {} /\ ck.changes = {}
  BY <1>4
<1>6. Moved(w) /\ run'[w] = r
  BY <1>5, RecordMoves DEF ChatInv
<1>7. ~Held(w)'
  BY <1>5, <1>6 DEF Held
<1>8. \A c : Awaiting(c) => Awaiting(c)'
  BY <1>3, <1>6, <1>7, CallsUndisturbed DEF ChatInv, Awaiting
<1>9. Place(w)'
  <2>1. mission.state \notin {"COMPLETED", "BLOCKED", "FAILED"}
    BY <1>1 DEF Place, Working, InAgent
  <2> QED BY <1>2, <1>3, <1>5, <1>6, <1>7, <1>8, <2>1 DEF Place, BetweenBatches, Proposing
<1>10. \A v \in Workers : CanWrite(v)' => CanWrite(v)
  BY <1>3, <1>5, <1>6, SameWriters
<1>11. lease' \in LeaseType
  BY <1>3 DEF ChatInv, Shapes
<1> QED BY <1>3, <1>6, <1>7, <1>9, <1>10, <1>11, RunStep

LEMMA RefuseKeeps ==
  ASSUME ChatInv, OneWriter, NEW w \in Workers, Refuse(w)
  PROVE  ChatInv'
<1>1. CanWrite(w) /\ Place(w) /\ run[w].pc = "refuse"
  BY DEF Refuse, At, ChatInv
<1>2. UNCHANGED <<mission, events, ws, lease>>
  BY DEF Refuse
<1>3. CASE ck.pending = {}
  <2>1. Goto(w, "steer") /\ ck' = ck
    BY <1>3 DEF Refuse
  <2>2. "steer" \in Pcs
    BY DEF Pcs, Working, InAgent
  <2>3. Moved(w) /\ run'[w].pc = "steer" /\ run'[w].token = run[w].token
    BY <2>1, <2>2, GotoMoves DEF ChatInv
  <2>4. ~Held(w)'
    BY <2>3 DEF Held
  <2>5. Place(w)'
    BY <1>1, <1>2, <1>3, <2>1, <2>3, <2>4
       DEF Place, BetweenBatches, Proposing, Working, InAgent, External
  <2>6. \A v \in Workers : CanWrite(v)' => CanWrite(v)
    BY <1>2, <2>3, SameWriters
  <2>7. lease' \in LeaseType
    BY <1>2 DEF ChatInv, Shapes
  <2> QED BY <1>2, <2>1, <2>3, <2>4, <2>5, <2>6, <2>7, RunStep
<1>4. CASE ck.pending # {}
  <2> DEFINE new == [ck EXCEPT !.pending = @ \ {Min(ck.pending)}]
  <2>1. Save(w, new) /\ run' = run
    BY <1>4 DEF Refuse
  <2>2. /\ new \in CheckpointType /\ new.calls = ck.calls /\ new.tools = ck.tools
        /\ new.pending \subseteq ck.pending /\ new.changes = ck.changes /\ new.cursor = ck.cursor
    BY DEF ChatInv, Shapes, CheckpointType
  <2> HIDE DEF new
  <2>3. Moved(w) /\ run'[w].pc = "refuse" /\ run'[w].token = run[w].token
    BY <1>1, <2>1 DEF ChatInv, Shapes, Moved
  <2>4. ~Held(w)'
    BY <2>3 DEF Held
  <2>5. ck'.pending \subseteq ck.pending /\ ck'.changes = ck.changes /\ ck'.calls = ck.calls
    BY <2>1, <2>2, SaveFacts DEF ChatInv
  <2>6. \A c : Awaiting(c) => Awaiting(c)'
    BY <1>2, <2>3, <2>4, <2>5, CallsUndisturbed DEF ChatInv, Awaiting
  <2>7. Place(w)'
    BY <1>1, <1>2, <2>3, <2>4, <2>5, <2>6
       DEF Place, BetweenBatches, Proposing, Working, InAgent, External
  <2>8. new.calls >= ck.calls /\ new.calls + new.tools <= mission.spent
    BY <2>2, Counts DEF ChatInv, DebitedFirst
  <2> QED BY <1>1, <1>2, <2>1, <2>2, <2>3, <2>4, <2>7, <2>8, SavingStep
<1> QED BY <1>3, <1>4

LEMMA CountQualityKeeps ==
  ASSUME ChatInv, OneWriter, NEW w \in Workers, CountQuality(w)
  PROVE  ChatInv'
<1> DEFINE new == [ck EXCEPT !.tools = @ + 1]
<1>1. CanWrite(w) /\ Place(w) /\ run[w].pc = "qcount" /\ ck.pending = {}
  BY DEF CountQuality, At, ChatInv, Place, BetweenBatches
<1>2. ck.tools + 1 \in 0 .. MaxTools /\ ck.calls + (ck.tools + 1) <= mission.spent
  BY <1>1, Counts DEF ChatInv, Place
<1>3. /\ new \in CheckpointType /\ new.calls = ck.calls /\ new.tools = ck.tools + 1
      /\ new.pending = {} /\ new.changes = ck.changes /\ new.cursor = ck.cursor
  BY <1>1, <1>2 DEF ChatInv, Shapes, CheckpointType
<1>4. Save(w, new) /\ Goto(w, "check") /\ UNCHANGED <<mission, events, ws, lease>>
  BY DEF CountQuality
<1> HIDE DEF new
<1>5. "check" \in Pcs
  BY DEF Pcs, Working, InAgent, External
<1>6. Moved(w) /\ run'[w].pc = "check" /\ run'[w].token = run[w].token
  BY <1>4, <1>5, GotoMoves DEF ChatInv
<1>7. ck'.pending = {}
  BY <1>3, <1>4, SaveFacts DEF ChatInv
<1>8. ~Held(w)'
  BY <1>6 DEF Held
<1>9. Place(w)'
  BY <1>1, <1>4, <1>6, <1>7, <1>8 DEF Place, BetweenBatches, Proposing, Working, InAgent, External
<1>10. new.calls >= ck.calls /\ new.calls + new.tools <= mission.spent
  BY <1>2, <1>3, Counts DEF ChatInv
<1> QED BY <1>1, <1>3, <1>4, <1>6, <1>8, <1>9, <1>10, SavingStep

\* The quality command is not fenced: a worker that lost its lease may still pass it.
LEMMA CheckQualityKeeps ==
  ASSUME ChatInv, NEW w \in Workers, CheckQuality(w)
  PROVE  ChatInv'
<1>1. run[w].pc = "check" /\ run[w] \in WorkerType
  BY DEF CheckQuality, ChatInv, Shapes
<1>2. mission' = mission /\ ck' = ck /\ events' = events /\ lease' = lease
  BY DEF CheckQuality
<1>3. PICK passed \in BOOLEAN :
        /\ run' = [run EXCEPT ![w].pc = "late", ![w].ok = @ /\ passed]
        /\ ws' = IF passed THEN [ws EXCEPT !.unchecked = {}] ELSE ws
  BY DEF CheckQuality
<1> DEFINE ok == run[w].ok /\ passed
           r == [run[w] EXCEPT !.pc = "late", !.ok = ok]
<1>4. run' = [run EXCEPT ![w] = r]
  BY <1>3
<1>5. ok \in BOOLEAN /\ (ok => passed)
  OBVIOUS
<1> HIDE DEF ok
<1>6. r \in WorkerType /\ r.pc = "late" /\ r.token = run[w].token /\ r.ok = ok
  BY <1>1, <1>5 DEF WorkerType, Pcs, Working, InAgent
<1> HIDE DEF r
<1>7. Moved(w) /\ run'[w] = r
  BY <1>4, <1>6, RecordMoves DEF ChatInv
<1>8. /\ ws' \in WorkspaceType /\ ws'.applied = ws.applied
      /\ ws'.unchecked \subseteq ws.unchecked
      /\ passed => ws'.unchecked = {}
  BY <1>3 DEF ChatInv, Shapes, WorkspaceType
<1>9. ~Held(w)'
  BY <1>6, <1>7 DEF Held
<1>10. \A v \in Workers : CanWrite(v)' => CanWrite(v)
  BY <1>2, <1>6, <1>7, SameWriters
<1>11. ASSUME CanWrite(w)' PROVE Place(w)'
  <2>1. Place(w)
    BY <1>10, <1>11 DEF ChatInv
  <2>2. ok => ck'.changes \cap ws'.unchecked = {}
    BY <1>5, <1>8
  <2> QED BY <1>1, <1>2, <1>6, <1>7, <1>9, <2>1, <2>2
          DEF Place, BetweenBatches, Proposing, Working, InAgent, External
<1>12. EventsInOrder' /\ DebitedFirst' /\ RecordedChangesChecked'
  BY <1>2, <1>8 DEF ChatInv, EventsInOrder, DebitedFirst, RecordedChangesChecked
<1>13. /\ mission' \in MissionType /\ ck' \in CheckpointType /\ events' \in EventsType
       /\ lease' \in LeaseType
       /\ mission'.state = "PAUSED" => mission'.resume # "NONE"
  BY <1>2 DEF ChatInv, Shapes
<1>14. ck'.changes = ck.changes /\ ck'.calls >= ck.calls
  BY <1>2, Counts DEF ChatInv
<1> QED BY <1>2, <1>7, <1>8, <1>9, <1>10, <1>11, <1>12, <1>13, <1>14, QuietStep

LEMMA LateSteeringKeeps ==
  ASSUME ChatInv, OneWriter, NEW w \in Workers, LateSteering(w)
  PROVE  ChatInv'
<1>1. CanWrite(w) /\ Place(w) /\ run[w].pc = "late" /\ run[w] \in WorkerType
  BY DEF LateSteering, At, ChatInv, Shapes
<1> DEFINE new == [Absorb EXCEPT !.cursor = events'.top]
           pc == IF NewSteering # {} THEN "steer" ELSE "commit"
           ok == run[w].ok /\ NewSteering = {}
           r == [run[w] EXCEPT !.pc = pc, !.ok = ok]
<1>2. Save(w, new) /\ events' = Emit(events) /\ UNCHANGED <<mission, ws, lease>>
  BY DEF LateSteering
<1>3. run' = [run EXCEPT ![w] = r]
  BY DEF LateSteering
<1>4. ok \in BOOLEAN /\ (ok => run[w].ok) /\ pc \in {"steer", "commit"}
  OBVIOUS
<1> HIDE DEF ok, pc
<1>5. r \in WorkerType /\ r.pc = pc /\ r.token = run[w].token /\ r.ok = ok
  BY <1>1, <1>4 DEF WorkerType, Pcs, Working, InAgent
<1> HIDE DEF r
<1>6. Moved(w) /\ run'[w] = r
  BY <1>3, <1>5, RecordMoves DEF ChatInv
<1>7. events'.top \in Nat
  BY <1>2, EmitFacts DEF ChatInv, Shapes, EventsType
<1>8. /\ new \in CheckpointType /\ new.calls = ck.calls /\ new.tools = ck.tools
      /\ new.pending = {} /\ new.changes = ck.changes /\ new.cursor = events'.top
  <2>1. ck.pending = {}
    BY <1>1 DEF Place, BetweenBatches
  <2> HIDE DEF Absorb
  <2> QED BY <1>7, <2>1, AbsorbFacts DEF CheckpointType
<1> HIDE DEF new
<1>9. ck'.pending = {} /\ ck'.changes = ck.changes
  BY <1>2, <1>8, SaveFacts DEF ChatInv
<1>10. ~Held(w)'
  BY <1>4, <1>5, <1>6 DEF Held
<1>11. Place(w)'
  <2>1. ok => ck'.changes \cap ws'.unchecked = {}
    BY <1>1, <1>2, <1>4, <1>9 DEF Place
  <2> QED BY <1>1, <1>2, <1>4, <1>5, <1>6, <1>9, <1>10, <2>1
          DEF Place, BetweenBatches, Proposing, Working, InAgent, External
<1>12. new.calls >= ck.calls /\ new.calls + new.tools <= mission.spent
  BY <1>8, Counts DEF ChatInv, DebitedFirst
<1> QED BY <1>1, <1>2, <1>5, <1>6, <1>8, <1>10, <1>11, <1>12, SavingStep

LEMMA CommitKeeps ==
  ASSUME ChatInv, OneWriter, NEW w \in Workers, Commit(w)
  PROVE  ChatInv'
<1>1. CanWrite(w) /\ Place(w) /\ run[w].pc = "commit" /\ run[w] \in WorkerType
  BY DEF Commit, At, ChatInv, Shapes
<1>2. ck' = ck /\ ws' = ws /\ lease' = lease
  BY DEF Commit
<1>3. CASE /\ run' = [run EXCEPT ![w].pc = "enter", ![w].uncertain = FALSE]
           /\ UNCHANGED <<mission, events>>
  <2> DEFINE r == [run[w] EXCEPT !.pc = "enter", !.uncertain = FALSE]
  <2>1. run' = [run EXCEPT ![w] = r]
    BY <1>3
  <2>2. r \in WorkerType /\ r.pc = "enter" /\ r.token = run[w].token
    BY <1>1 DEF WorkerType, Pcs, Working, InAgent
  <2> HIDE DEF r
  <2>3. Moved(w) /\ run'[w] = r
    BY <2>1, <2>2, RecordMoves DEF ChatInv
  <2>4. ~Held(w)'
    BY <2>2, <2>3 DEF Held
  <2>5. mission' = mission
    BY <1>3
  <2>6. Place(w)'
    BY <1>1, <1>2, <2>2, <2>3, <2>4, <2>5
       DEF Place, BetweenBatches, Proposing, Working, InAgent, External
  <2>7. \A v \in Workers : CanWrite(v)' => CanWrite(v)
    BY <1>2, <2>2, <2>3, SameWriters
  <2>8. lease' \in LeaseType /\ UNCHANGED <<mission, ck, events, ws>>
    BY <1>2, <1>3 DEF ChatInv, Shapes
  <2> QED BY <2>3, <2>4, <2>6, <2>7, <2>8, RunStep
<1>4. CASE /\ mission' = [mission EXCEPT !.state = IF run[w].ok THEN "COMPLETED" ELSE "BLOCKED"]
           /\ events' = Emit(events) /\ Leave(w, "end")
  <2>1. Moved(w) /\ run'[w].pc = "end" /\ run'[w].token = run[w].token
    BY <1>4, LeaveMoves DEF ChatInv
  <2>2. /\ mission' \in MissionType /\ mission'.spent = mission.spent
        /\ mission'.state \in {"COMPLETED", "BLOCKED"}
        /\ mission'.state = "COMPLETED" => run[w].ok
    BY <1>4 DEF ChatInv, Shapes, MissionType, Stopped, Terminal
  <2>3. ck' \in CheckpointType /\ ck'.changes = ck.changes /\ ck'.calls >= ck.calls
    BY <1>2, Counts DEF ChatInv, Shapes
  <2>4. events' \in EventsType /\ EventsInOrder'
    BY <1>2, <1>4, <2>3, StreamGrows
  <2>5. RecordedChangesChecked'
    BY <1>1, <1>2, <2>2 DEF Place, RecordedChangesChecked
  <2>6. DebitedFirst' /\ ~Held(w)'
    BY <1>2, <2>1, <2>2 DEF ChatInv, DebitedFirst, Held
  <2>7. Place(w)'
    BY <2>1 DEF Place, Held, BetweenBatches, Proposing, Working, InAgent, External
  <2> QED BY <1>1, <1>2, <2>1, <2>2, <2>3, <2>4, <2>5, <2>6, <2>7, WriterStep
<1> QED BY <1>3, <1>4 DEF Commit

\* Whoever leaves the agent leaves the database as it is.
LEMMA LeavingKeeps ==
  ASSUME ChatInv, NEW w \in Workers, NEW pc \in {"catch", "end"}, Leave(w, pc),
         UNCHANGED <<mission, ck, events, ws, lease>>
  PROVE  ChatInv'
<1>1. Moved(w) /\ run'[w].pc = pc /\ run'[w].token = run[w].token
  BY LeaveMoves DEF ChatInv
<1>2. ~Held(w)' /\ Place(w)'
  BY <1>1 DEF Place, Held, BetweenBatches, Proposing, Working, InAgent, External
<1>3. \A v \in Workers : CanWrite(v)' => CanWrite(v)
  BY <1>1, SameWriters
<1>4. lease' \in LeaseType
  BY DEF ChatInv, Shapes
<1> QED BY <1>1, <1>2, <1>3, <1>4, RunStep

LEMMA PausedFacts ==
  ASSUME Shapes, mission.state \notin Stopped
  PROVE  /\ Paused(mission) \in MissionType /\ Paused(mission).state = "PAUSED"
         /\ Paused(mission).resume = mission.state /\ mission.state # "NONE"
         /\ Paused(mission).spent = mission.spent
BY DEF Paused, Shapes, MissionType, Active, StartStates, CommitStates, Stopped

LEMMA CatchKeeps ==
  ASSUME ChatInv, OneWriter, NEW w \in Workers, Catch(w)
  PROVE  ChatInv'
<1>1. CanWrite(w) /\ ck' = ck /\ ws' = ws /\ lease' = lease /\ Leave(w, "end")
  BY DEF Catch, At
<1>2. Moved(w) /\ run'[w].pc = "end" /\ run'[w].token = run[w].token
  BY <1>1, LeaveMoves DEF ChatInv
<1>3. events' = events \/ events' = Emit(events)
  BY DEF Catch
<1>4. \/ mission' = mission
      \/ mission.state \notin Stopped /\ mission' = Paused(mission)
      \/ mission.state \notin Stopped /\ mission' = [mission EXCEPT !.state = "BLOCKED"]
  BY DEF Catch
<1>5. /\ mission' \in MissionType /\ mission'.spent = mission.spent
      /\ mission'.state = mission.state \/ mission'.state \in {"PAUSED", "BLOCKED"}
      /\ mission'.state = "PAUSED" => mission'.resume # "NONE"
  BY <1>4, PausedFacts DEF ChatInv, Shapes, MissionType, Stopped, Terminal
<1>6. ck' \in CheckpointType /\ ck'.changes = ck.changes /\ ck'.calls >= ck.calls
  BY <1>1, Counts DEF ChatInv, Shapes
<1>7. events' \in EventsType /\ EventsInOrder'
  BY <1>1, <1>3, <1>6, StreamGrows
<1>8. RecordedChangesChecked' /\ DebitedFirst'
  BY <1>1, <1>5 DEF ChatInv, RecordedChangesChecked, DebitedFirst
<1>9. ~Held(w)' /\ Place(w)'
  BY <1>2 DEF Place, Held, BetweenBatches, Proposing, Working, InAgent, External
<1> QED BY <1>1, <1>2, <1>5, <1>6, <1>7, <1>8, <1>9, WriterStep

-----------------------------------------------------------------------------
(* The life of one tool call: counted, executed, recorded *)

LEMMA CountToolKeeps ==
  ASSUME ChatInv, OneWriter, NEW w \in Workers, CountTool(w)
  PROVE  ChatInv'
<1> DEFINE t == Min(ck.pending)
           new == [ck EXCEPT !.tools = @ + 1]
           r == [run[w] EXCEPT !.pc = "exec", !.tool = t]
<1>1. CanWrite(w) /\ Place(w) /\ run[w].pc = "toolcount" /\ run[w] \in WorkerType
  BY DEF CountTool, At, ChatInv, Shapes
<1>2. t \in ck.pending /\ ck.pending \subseteq CallIds
  <2>1. ck.pending \subseteq CallIds /\ ck.pending # {}
    BY <1>1 DEF Place, ChatInv, Shapes, CheckpointType
  <2>2. ck.pending \subseteq Nat
    BY <2>1, CallIdsAreNumbers
  <2> QED BY <2>1, <2>2, LeastNat
<1>3. run' = [run EXCEPT ![w] = r] /\ Save(w, new) /\ events' = Emit(events)
      /\ mission' = mission /\ ws' = ws /\ lease' = lease
  BY DEF CountTool
<1> HIDE DEF t
<1>4. r \in WorkerType /\ r.pc = "exec" /\ r.token = run[w].token /\ r.tool = t
  BY <1>1, <1>2 DEF WorkerType, Pcs, Working, InAgent, External
<1> HIDE DEF r
<1>5. Moved(w) /\ run'[w] = r
  BY <1>3, <1>4, RecordMoves DEF ChatInv
<1>6. ck.tools + 1 \in 0 .. MaxTools /\ ck.calls + (ck.tools + 1) <= mission.spent
  BY <1>1, Counts DEF ChatInv, Place
<1>7. /\ new \in CheckpointType /\ new.calls = ck.calls /\ new.tools = ck.tools + 1
      /\ new.pending = ck.pending /\ new.changes = ck.changes /\ new.cursor = ck.cursor
  BY <1>6 DEF ChatInv, Shapes, CheckpointType
<1> HIDE DEF new
<1>8. /\ ck' \in CheckpointType /\ ck'.calls = ck.calls /\ ck'.tools = ck.tools + 1
      /\ ck'.pending = ck.pending /\ ck'.changes = ck.changes /\ ck'.cursor = ck.cursor
  BY <1>3, <1>7, SaveFacts DEF ChatInv
<1>9. \A c \in ck.pending : Awaiting(c)
  BY <1>1 DEF Place, Proposing
<1>10. \A v \in Workers : v # w /\ Held(v)' => Held(v) /\ run'[v] = run[v] /\ run[v].tool # t
  BY <1>2, <1>5, <1>9 DEF Held, Moved, Awaiting, Fresh
<1>11. \A c : c # t /\ Fresh(c) => Fresh(c)'
  BY <1>3, <1>4, <1>5, <1>8, <1>10 DEF Fresh
<1>12. HeldOnce'
  <2> SUFFICES ASSUME NEW v \in Workers, Held(v)'
               PROVE  /\ run'[v].tool \in CallIds /\ run'[v].tool \notin ck'.changes
                      /\ run'[v].pc = "exec" => ws'.applied[run'[v].tool] = 0
                      /\ \A x \in Workers : Held(x)' /\ run'[x].tool = run'[v].tool => x = v
    BY DEF HeldOnce
  <2>1. CASE v = w
    BY <1>2, <1>3, <1>4, <1>5, <1>8, <1>9, <1>10, <2>1 DEF Awaiting, Fresh
  <2>2. CASE v # w
    BY <1>3, <1>4, <1>5, <1>8, <1>10, <2>2 DEF ChatInv, HeldOnce
  <2> QED BY <2>1, <2>2
<1>13. FreshFrom(ck.calls)'
  <2>1. t <= ck.calls * MaxBatch
    BY <1>2, <1>9 DEF Awaiting
  <2>2. \A c \in CallIds : c > ck.calls * MaxBatch => c # t
    <3>1. ck.calls * MaxBatch \in Nat
      BY Counts DEF ChatInv
    <3> QED BY <1>2, <2>1, <3>1, CallIdsAreNumbers
  <2> QED BY <1>8, <1>11, <2>2 DEF FreshFrom, ChatInv
<1>14. Place(w)'
  <2>1. \A c \in ck.pending \ {t} : Awaiting(c)'
    BY <1>8, <1>9, <1>11 DEF Awaiting
  <2> QED BY <1>1, <1>2, <1>3, <1>4, <1>5, <1>8, <2>1
          DEF Place, BetweenBatches, Proposing, Working, InAgent, External
<1>15. \A v \in Workers : CanWrite(v)' => Place(v)'
  BY <1>1, <1>3, <1>4, <1>5, <1>14, SameWriters DEF OneWriter
<1>16. events' \in EventsType /\ EventsInOrder'
  BY <1>3, <1>8, StreamGrows
<1>17. Shapes'
  BY <1>3, <1>5, <1>8, <1>16 DEF ChatInv, Shapes, Moved
<1>18. EffectOnce' /\ DebitedFirst' /\ RecordedChangesChecked'
       /\ (mission'.state = "PAUSED" => mission'.resume # "NONE")
  BY <1>3, <1>6, <1>8, Counts DEF ChatInv, EffectOnce, DebitedFirst, RecordedChangesChecked
<1> QED BY <1>12, <1>13, <1>15, <1>16, <1>17, <1>18 DEF ChatInv

\* The effect itself is not fenced: a worker that lost its lease may still cause it, but
\* no one else holds the call, and nobody has recorded it.
LEMMA ExecuteKeeps ==
  ASSUME ChatInv, NEW w \in Workers, Execute(w)
  PROVE  ChatInv'
<1> DEFINE t == run[w].tool
<1>1. run[w].pc = "exec" /\ run[w] \in WorkerType /\ Held(w)
  BY DEF Execute, ChatInv, Shapes, Held
<1>2. PICK succeeds \in BOOLEAN :
        /\ run' = [run EXCEPT ![w].pc = "result", ![w].ok = succeeds]
        /\ ws' = IF succeeds
                 THEN [ws EXCEPT !.applied[t] = @ + 1, !.unchecked = @ \cup {t}]
                 ELSE ws
  BY DEF Execute
<1>3. mission' = mission /\ ck' = ck /\ events' = events /\ lease' = lease
  BY DEF Execute
<1> DEFINE r == [run[w] EXCEPT !.pc = "result", !.ok = succeeds]
<1>4. run' = [run EXCEPT ![w] = r]
  BY <1>2
<1>5. r \in WorkerType /\ r.pc = "result" /\ r.token = run[w].token /\ r.tool = t
  BY <1>1 DEF WorkerType, Pcs, Working, InAgent
<1> HIDE DEF r
<1>6. Moved(w) /\ run'[w] = r
  BY <1>4, <1>5, RecordMoves DEF ChatInv
<1>7. t \in CallIds /\ t \notin ck.changes /\ ws.applied[t] = 0
  BY <1>1 DEF ChatInv, HeldOnce
<1>8. /\ ws' \in WorkspaceType
      /\ \A c \in CallIds : c # t => ws'.applied[c] = ws.applied[c]
      /\ ws'.applied[t] \in {0, 1}
      /\ ws'.unchecked \subseteq ws.unchecked \cup {t}
  <2>1. ws \in WorkspaceType /\ ws.applied \in [CallIds -> Nat] /\ ws.unchecked \subseteq CallIds
    BY DEF ChatInv, Shapes, WorkspaceType
  <2>2. CASE ~succeeds
    BY <1>2, <1>7, <2>1, <2>2
  <2>3. CASE succeeds
    <3> DEFINE a == [ws.applied EXCEPT ![t] = @ + 1]
    <3>1. a \in [CallIds -> Nat] /\ a[t] = 1 /\ \A c \in CallIds : c # t => a[c] = ws.applied[c]
      BY <1>7, <2>1
    <3>2. ws' = [ws EXCEPT !.applied = a, !.unchecked = @ \cup {t}]
      BY <1>2, <2>3
    <3> HIDE DEF a
    <3>3. ws'.applied = a /\ ws'.unchecked = ws.unchecked \cup {t} /\ ws' \in WorkspaceType
      BY <1>7, <2>1, <3>1, <3>2 DEF WorkspaceType
    <3> QED BY <3>1, <3>3
  <2> QED BY <2>2, <2>3
<1>9. \A v \in Workers : /\ Held(v)' <=> Held(v)
                         /\ run'[v].tool = run[v].tool /\ run'[v].token = run[v].token
                         /\ v # w => run'[v] = run[v]
  BY <1>1, <1>5, <1>6 DEF Held, Moved
<1> HIDE DEF t
<1>10. \A c \in CallIds : Fresh(c) => Fresh(c)'
  <2> SUFFICES ASSUME NEW c \in CallIds, Fresh(c) PROVE Fresh(c)'
    OBVIOUS
  <2>1. c # t
    BY <1>1 DEF Fresh, t
  <2> QED BY <1>3, <1>8, <1>9, <2>1 DEF Fresh
<1>11. ck'.changes \cap ws'.unchecked \subseteq ck.changes \cap ws.unchecked
  BY <1>3, <1>7, <1>8
<1>12. HeldOnce'
  <2> SUFFICES ASSUME NEW v \in Workers, Held(v)'
               PROVE  /\ run'[v].tool \in CallIds /\ run'[v].tool \notin ck'.changes
                      /\ run'[v].pc = "exec" => ws'.applied[run'[v].tool] = 0
                      /\ \A x \in Workers : Held(x)' /\ run'[x].tool = run'[v].tool => x = v
    BY DEF HeldOnce
  <2>1. /\ Held(v) /\ run[v].tool \in CallIds /\ run[v].tool \notin ck.changes
        /\ \A x \in Workers : Held(x) /\ run[x].tool = run[v].tool => x = v
    BY <1>9 DEF ChatInv, HeldOnce
  <2>2. run'[v].pc = "exec" => ws'.applied[run'[v].tool] = 0
    <3>1. SUFFICES ASSUME run'[v].pc = "exec" PROVE ws'.applied[run'[v].tool] = 0
      OBVIOUS
    <3>2. v # w
      BY <1>5, <1>6, <3>1
    <3>3. run[v].tool # t
      BY <1>1, <2>1, <3>2 DEF t
    <3>4. ws.applied[run[v].tool] = 0
      BY <1>9, <2>1, <3>1, <3>2 DEF ChatInv, HeldOnce
    <3> QED BY <1>8, <1>9, <2>1, <3>3, <3>4
  <2> QED BY <1>3, <1>9, <2>1, <2>2
<1>13. FreshFrom(ck.calls)'
  BY <1>3, <1>10 DEF ChatInv, FreshFrom
<1>14. EffectOnce'
  BY <1>7, <1>8 DEF ChatInv, EffectOnce
<1>15. ASSUME NEW v \in Workers, CanWrite(v)' PROVE Place(v)'
  <2>1. Place(v)
    BY <1>3, <1>5, <1>6, <1>15, SameWriters DEF ChatInv
  <2>2. /\ FreshFrom(ck.calls - 1) => FreshFrom(ck.calls - 1)'
        /\ \A c \in CallIds : Awaiting(c) => Awaiting(c)'
    BY <1>3, <1>10 DEF FreshFrom, Awaiting
  <2>3. ck.pending \subseteq CallIds
    BY DEF ChatInv, Shapes, CheckpointType
  <2>4. CASE v = w
    BY <1>1, <1>3, <1>5, <1>6, <1>9, <2>1, <2>2, <2>3, <2>4
       DEF Place, BetweenBatches, Proposing, Working, InAgent, External
  <2>5. CASE v # w
    <3>1. run'[v] = run[v] /\ (Held(v)' <=> Held(v))
      BY <1>9, <2>5
    <3>2. ck.changes \cap ws.unchecked = {} => ck'.changes \cap ws'.unchecked = {}
      BY <1>11
    <3> QED BY <1>3, <2>1, <2>2, <2>3, <3>1, <3>2 DEF Place
  <2> QED BY <2>4, <2>5
<1>16. Shapes' /\ EventsInOrder' /\ DebitedFirst'
       /\ (mission'.state = "PAUSED" => mission'.resume # "NONE")
  BY <1>3, <1>6, <1>8 DEF ChatInv, Shapes, Moved, EventsInOrder, DebitedFirst
<1>17. RecordedChangesChecked'
  BY <1>3, <1>11 DEF ChatInv, RecordedChangesChecked
<1> QED BY <1>12, <1>13, <1>14, <1>15, <1>16, <1>17 DEF ChatInv

LEMMA SaveResultKeeps ==
  ASSUME ChatInv, OneWriter, NEW w \in Workers, SaveResult(w)
  PROVE  ChatInv'
<1> DEFINE t == run[w].tool
           p == ck.pending \ {t}
           changes == IF run[w].ok THEN ck.changes \cup {t} ELSE ck.changes
           pc == IF p = {} THEN "steer" ELSE "tool"
           new == [ck EXCEPT !.pending = p, !.changes = changes]
           r == [run[w] EXCEPT !.pc = pc, !.tool = 0, !.ok = FALSE]
<1>1. CanWrite(w) /\ Place(w) /\ run[w].pc = "result" /\ run[w] \in WorkerType /\ Held(w)
  BY DEF SaveResult, At, ChatInv, Shapes, Held
<1>2. run' = [run EXCEPT ![w] = r] /\ Save(w, new) /\ events' = Emit(events)
      /\ mission' = mission /\ ws' = ws /\ lease' = lease
  BY DEF SaveResult
<1>3. t \in CallIds /\ changes \subseteq ck.changes \cup {t}
  BY <1>1 DEF ChatInv, HeldOnce
<1>4. pc \in {"steer", "tool"} /\ (pc = "steer" => p = {}) /\ (pc = "tool" => p # {})
  OBVIOUS
<1>5. \A c \in p : Awaiting(c)
  BY <1>1 DEF Place
<1>6. p \subseteq CallIds /\ changes \subseteq CallIds
  BY <1>3 DEF ChatInv, Shapes, CheckpointType
<1> HIDE DEF pc, changes, p
<1>7. r \in WorkerType /\ r.pc = pc /\ r.token = run[w].token
  BY <1>1, <1>4 DEF WorkerType, Pcs, Working, InAgent
<1> HIDE DEF r
<1>8. Moved(w) /\ run'[w] = r
  BY <1>2, <1>7, RecordMoves DEF ChatInv
<1>9. /\ new \in CheckpointType /\ new.calls = ck.calls /\ new.tools = ck.tools
      /\ new.pending = p /\ new.changes = changes /\ new.cursor = ck.cursor
  BY <1>6 DEF ChatInv, Shapes, CheckpointType
<1> HIDE DEF new
<1>10. /\ ck' \in CheckpointType /\ ck'.calls = ck.calls /\ ck'.tools = ck.tools
       /\ ck'.pending = p /\ ck'.changes = changes /\ ck'.cursor = ck.cursor
  BY <1>2, <1>9, SaveFacts DEF ChatInv
<1>11. ~Held(w)'
  BY <1>4, <1>7, <1>8 DEF Held
<1>12. \A v \in Workers : Held(v)' => v # w /\ Held(v) /\ run'[v] = run[v] /\ run[v].tool # t
  BY <1>1, <1>8, <1>11 DEF Held, Moved, ChatInv, HeldOnce
<1>13. \A c : Fresh(c) => c # t
  BY <1>1 DEF Fresh
<1> HIDE DEF t
<1>14. \A c : Fresh(c) => Fresh(c)'
  BY <1>2, <1>3, <1>10, <1>12, <1>13 DEF Fresh
<1>15. HeldOnce'
  <2> SUFFICES ASSUME NEW v \in Workers, Held(v)'
               PROVE  /\ run'[v].tool \in CallIds /\ run'[v].tool \notin ck'.changes
                      /\ run'[v].pc = "exec" => ws'.applied[run'[v].tool] = 0
                      /\ \A x \in Workers : Held(x)' /\ run'[x].tool = run'[v].tool => x = v
    BY DEF HeldOnce
  <2> QED BY <1>2, <1>3, <1>10, <1>12 DEF ChatInv, HeldOnce
<1>16. FreshFrom(ck.calls)'
  BY <1>10, <1>14 DEF ChatInv, FreshFrom
<1>17. Place(w)'
  <2>1. \A c \in p : Awaiting(c)'
    BY <1>5, <1>10, <1>14 DEF Awaiting
  <2> QED BY <1>1, <1>2, <1>4, <1>7, <1>8, <1>10, <1>11, <2>1
          DEF Place, BetweenBatches, Proposing, Working, InAgent, External
<1>18. \A v \in Workers : CanWrite(v)' => Place(v)'
  BY <1>1, <1>2, <1>7, <1>8, <1>17, SameWriters DEF OneWriter
<1>19. events' \in EventsType /\ EventsInOrder'
  BY <1>2, <1>10, StreamGrows
<1>20. Shapes'
  BY <1>2, <1>8, <1>10, <1>19 DEF ChatInv, Shapes, Moved
<1>21. RecordedChangesChecked'
  BY <1>1, <1>2 DEF Place, Working, InAgent, RecordedChangesChecked
<1>22. EffectOnce' /\ DebitedFirst' /\ (mission'.state = "PAUSED" => mission'.resume # "NONE")
  BY <1>2, <1>10 DEF ChatInv, EffectOnce, DebitedFirst
<1> QED BY <1>15, <1>16, <1>18, <1>19, <1>20, <1>21, <1>22 DEF ChatInv

LEMMA WorkerKeeps ==
  ASSUME ChatInv, OneWriter, NEW w \in Workers, WorkerStep(w) \/ FencedOut(w)
  PROVE  ChatInv'
<1>1. CASE Execute(w)
  BY <1>1, ExecuteKeeps
<1>2. CASE CheckQuality(w)
  BY <1>2, CheckQualityKeeps
<1>3. CASE Fail(w) \/ FencedOut(w)
  BY <1>3, LeavingKeeps DEF Fail, FencedOut
<1> QED
  BY <1>1, <1>2, <1>3, ScheduleKeeps, BeginKeeps, MarkUnknownKeeps, EnterKeeps,
     TakeSteeringKeeps, ReserveCallKeeps, CountCallKeeps, RespondReviewKeeps, RespondKeeps,
     RecheckKeeps, RefuseKeeps, ReserveToolKeeps, CountToolKeeps, SaveResultKeeps,
     ReserveQualityKeeps, CountQualityKeeps, LateSteeringKeeps, CommitKeeps, CatchKeeps
  DEF WorkerStep

\* The time limit and the signal only raise a flag.
LEMMA AbortKeeps ==
  ASSUME ChatInv, NEW w \in Workers, Abort(w)
  PROVE  ChatInv' /\ Moved(w) /\ run'[w].token = run[w].token /\ run'[w].pc = run[w].pc
<1> DEFINE r == [run[w] EXCEPT !.aborted = TRUE]
<1>1. run[w] \in WorkerType
  BY DEF ChatInv, Shapes
<1>2. /\ r \in WorkerType /\ r.pc = run[w].pc /\ r.tool = run[w].tool
      /\ r.ok = run[w].ok /\ r.token = run[w].token
  BY <1>1 DEF WorkerType
<1>3. run' = [run EXCEPT ![w] = r]
  BY DEF Abort
<1> HIDE DEF r
<1>4. mission' = mission /\ ck' = ck /\ events' = events /\ ws' = ws /\ lease' = lease
  BY DEF Abort
<1>5. Moved(w) /\ run'[w] = r
  BY <1>2, <1>3, RecordMoves DEF ChatInv
<1>6. run' \in [Workers -> WorkerType]
  BY <1>5 DEF Moved
<1>7. \A v \in Workers : /\ run'[v].pc = run[v].pc /\ run'[v].tool = run[v].tool
                         /\ run'[v].ok = run[v].ok
  BY <1>2, <1>5 DEF Moved
<1>8. \A v \in Workers : CanWrite(v)' => CanWrite(v)
  BY <1>2, <1>4, <1>5, SameWriters
<1>9. /\ mission' \in MissionType /\ events' \in EventsType /\ lease' \in LeaseType
      /\ EventsInOrder' /\ (mission'.state = "PAUSED" => mission'.resume # "NONE")
  BY <1>4 DEF ChatInv, Shapes, EventsInOrder
<1> QED BY <1>2, <1>4, <1>5, <1>6, <1>7, <1>8, <1>9, ControlStep

\* The turn as submit leaves it.
LEMMA ChatStarts ==
  ASSUME NEW pc \in {"idle", "start"}, ChatInit(pc)
  PROVE  /\ ChatInv
         /\ \A w \in Workers : run[w].pc = pc /\ run[w].token = 0
         /\ mission.state = "CREATED" /\ mission.resume = "NONE" /\ ck.by = 0
         /\ lease.token = 0 /\ ~lease.live
         /\ ck.cursor = 0 /\ \A i \in Instructions : events.at[i] = 0 /\ events.visible = {}
<1>1. MaxCalls \in Nat /\ MaxTools \in Nat /\ MaxAttempts \in Nat /\ MaxBatch \in Nat
  BY ChatAssumption
<1>2. Idle \in WorkerType
  BY DEF Idle, WorkerType, Pcs
<1>3. pc \in Pcs
  BY DEF Pcs
<1> DEFINE r == [Idle EXCEPT !.pc = pc]
<1>4. r \in WorkerType /\ r.pc = pc /\ r.token = 0
  BY <1>2, <1>3 DEF WorkerType, Idle
<1>5. run = [w \in Workers |-> r]
  BY DEF ChatInit
<1> HIDE DEF r
<1>6. run \in [Workers -> WorkerType] /\ \A w \in Workers : run[w].pc = pc /\ run[w].token = 0
  BY <1>4, <1>5
<1>7. /\ mission \in MissionType /\ mission.state = "CREATED" /\ mission.resume = "NONE"
      /\ mission.spent = 0
  BY <1>1 DEF ChatInit, MissionType, Active
<1>8. /\ ck \in CheckpointType /\ ck.calls = 0 /\ ck.tools = 0 /\ ck.by = 0 /\ ck.cursor = 0
      /\ ck.changes = {} /\ ck.pending = {}
  BY <1>1 DEF ChatInit, CheckpointType
<1>9. /\ events \in EventsType /\ events.next = 2 /\ events.top = 1 /\ events.visible = {}
      /\ \A i \in Instructions : events.at[i] = 0
  BY DEF ChatInit, EventsType
<1>10. ws \in WorkspaceType /\ \A c \in CallIds : ws.applied[c] = 0
  BY DEF ChatInit, WorkspaceType
<1>11. lease \in LeaseType /\ lease.token = 0 /\ ~lease.live
  BY DEF ChatInit, LeaseType
<1>12. Shapes
  BY <1>6, <1>7, <1>8, <1>9, <1>10, <1>11 DEF Shapes
<1>13. EventsInOrder /\ EffectOnce /\ DebitedFirst /\ RecordedChangesChecked
  BY <1>7, <1>8, <1>9, <1>10 DEF EventsInOrder, EffectOnce, DebitedFirst, RecordedChangesChecked
<1>14. \A w \in Workers : ~Held(w)
  BY <1>6 DEF Held
<1>15. \A c \in CallIds : Fresh(c)
  BY <1>8, <1>10, <1>14 DEF Fresh
<1>16. HeldOnce /\ FreshFrom(ck.calls)
  BY <1>14, <1>15 DEF HeldOnce, FreshFrom
<1>17. \A w \in Workers : Place(w)
  BY <1>6, <1>14 DEF Place, BetweenBatches, Proposing, Working, InAgent, External
<1> QED BY <1>6, <1>7, <1>8, <1>9, <1>11, <1>12, <1>13, <1>16, <1>17 DEF ChatInv

-----------------------------------------------------------------------------
(* What a step of a worker does to the rows others see *)

\* The others stay, the token stays, and only a worker the fence lets through saves a
\* checkpoint, under its token, or touches the mission.
WorkerEffect(w) ==
  /\ \A v \in Workers : v # w => run'[v] = run[v]
  /\ run'[w].token = run[w].token
  /\ lease' = lease
  /\ ck' = ck \/ (CanWrite(w) /\ run[w].pc \in Working /\ ck'.by = run[w].token)
  /\ \/ mission' = mission
     \/ CanWrite(w) /\ run[w].pc \in Working \cup {"catch"}
  /\ mission'.spent = mission.spent \/ (CanWrite(w) /\ run[w].pc \in Working)
  /\ \/ mission'.state = mission.state /\ mission'.resume = mission.resume
     \/ /\ mission'.state \in {"EXECUTING", "COMPLETED", "BLOCKED"}
        /\ mission'.resume = mission.resume
     \/ mission'.state = "PAUSED" /\ mission'.resume = mission.state
  /\ run'[w].pc \in Working =>
       \/ run'[w].pc = "begin" /\ run[w].pc = "start" /\ mission' = mission
          /\ mission.state \notin Stopped
       \/ run'[w].pc = "enter" /\ run[w].pc = "begin"
          /\ mission'.state = (IF mission.state = "CREATED" THEN "EXECUTING" ELSE mission.state)
       \/ run[w].pc \in InAgent \cup {"commit"} /\ mission'.state = mission.state
  /\ run'[w].pc \in {"idle", "end"} => mission'.state \in Stopped \/ ~CanWrite(w)

LEMMA WorkerEffects ==
  ASSUME ChatInv, NEW w \in Workers, WorkerStep(w) \/ FencedOut(w)
  PROVE  WorkerEffect(w)
<1> USE DEF WorkerEffect, Working, InAgent, External
<1>a. {"PAUSED", "BLOCKED", "COMPLETED"} \subseteq Stopped
  BY DEF Stopped, Terminal
<1>0. /\ run \in [Workers -> WorkerType] /\ run[w] \in WorkerType
      /\ mission \in MissionType /\ ck \in CheckpointType
  BY DEF ChatInv, Shapes
<1>1. CASE Schedule(w)
  <2> DEFINE pc == IF mission.state \in Stopped THEN "end" ELSE "begin"
  <2>1. run' = [run EXCEPT ![w].pc = pc] /\ run[w].pc = "start"
    BY <1>1 DEF Schedule, At, Goto
  <2>2. (pc = "end" /\ mission.state \in Stopped) \/ (pc = "begin" /\ mission.state \notin Stopped)
    OBVIOUS
  <2> HIDE DEF pc
  <2>3. mission' = mission /\ ck' = ck /\ lease' = lease
    BY <1>1 DEF Schedule
  <2>4. run'[w].pc = pc /\ run'[w].token = run[w].token
        /\ \A v \in Workers : v # w => run'[v] = run[v]
    BY <1>0, <2>1 DEF WorkerType
  <2> QED BY <2>1, <2>2, <2>3, <2>4
<1>2. CASE Begin(w)
  BY <1>0, <1>2 DEF Begin, At, WorkerType, MissionType
<1>3. CASE MarkUnknown(w)
  BY <1>0, <1>3 DEF MarkUnknown, At, Save, WorkerType, CheckpointType
<1>4. CASE Enter(w)
  BY <1>0, <1>4 DEF Enter, At, Save, Goto, WorkerType, CheckpointType
<1>5. CASE TakeSteering(w)
  <2>1. Absorb \in CheckpointType
    BY AbsorbFacts
  <2> QED BY <1>0, <1>5, <2>1 DEF TakeSteering, At, Save, WorkerType, CheckpointType
<1>6. CASE ReserveCall(w)
  BY <1>0, <1>6 DEF ReserveCall, At, Debit, Goto, WorkerType, MissionType
<1>7. CASE CountCall(w)
  BY <1>0, <1>7 DEF CountCall, At, Save, Goto, WorkerType, CheckpointType
<1>8. CASE RespondReview(w)
  BY <1>0, <1>8 DEF RespondReview, At, Save, Goto, WorkerType, CheckpointType
<1>9. CASE Respond(w)
  BY <1>0, <1>9 DEF Respond, At, Save, Goto, WorkerType, CheckpointType
<1>10. CASE Recheck(w)
  BY <1>0, <1>10 DEF Recheck, At, Goto, WorkerType
<1>11. CASE Refuse(w)
  <2>1. CASE ck.pending = {}
    BY <1>0, <1>11, <2>1 DEF Refuse, At, Goto, WorkerType
  <2>2. CASE ck.pending # {}
    BY <1>0, <1>11, <2>2 DEF Refuse, At, Save, CheckpointType
  <2> QED BY <2>1, <2>2
<1>12. CASE ReserveTool(w)
  BY <1>0, <1>12 DEF ReserveTool, At, Debit, Goto, WorkerType, MissionType
<1>13. CASE CountTool(w)
  BY <1>0, <1>13 DEF CountTool, At, Save, WorkerType, CheckpointType
<1>14. CASE Execute(w)
  BY <1>0, <1>14 DEF Execute, WorkerType
<1>15. CASE SaveResult(w)
  BY <1>0, <1>15 DEF SaveResult, At, Save, WorkerType, CheckpointType
<1>16. CASE ReserveQuality(w)
  BY <1>0, <1>16 DEF ReserveQuality, At, Debit, Goto, WorkerType, MissionType
<1>17. CASE CountQuality(w)
  BY <1>0, <1>17 DEF CountQuality, At, Save, Goto, WorkerType, CheckpointType
<1>18. CASE CheckQuality(w)
  BY <1>0, <1>18 DEF CheckQuality, WorkerType
<1>19. CASE LateSteering(w)
  <2>1. Absorb \in CheckpointType
    BY AbsorbFacts
  <2> QED BY <1>0, <1>19, <2>1 DEF LateSteering, At, Save, WorkerType, CheckpointType
<1>20. CASE Commit(w)
  <2>1. CASE /\ run' = [run EXCEPT ![w].pc = "enter", ![w].uncertain = FALSE]
             /\ UNCHANGED <<mission, events>>
    BY <1>0, <1>20, <2>1 DEF Commit, At, WorkerType
  <2>2. CASE /\ mission' = [mission EXCEPT !.state = IF run[w].ok THEN "COMPLETED" ELSE "BLOCKED"]
             /\ Leave(w, "end")
    <3>1. Moved(w) /\ run'[w].pc = "end" /\ run'[w].token = run[w].token
      BY <2>2, LeaveMoves DEF ChatInv
    <3> QED BY <1>0, <1>a, <1>20, <2>2, <3>1 DEF Commit, At, Moved, MissionType
  <2> QED BY <1>20, <2>1, <2>2 DEF Commit
<1>21. CASE Fail(w) \/ FencedOut(w)
  <2>1. PICK pc \in {"catch", "end"} :
          /\ Leave(w, pc) /\ UNCHANGED <<mission, ck, events, ws, lease>>
          /\ pc = "end" => ~CanWrite(w)
    BY <1>21 DEF Fail, FencedOut
  <2>2. Moved(w) /\ run'[w].pc = pc /\ run'[w].token = run[w].token
    BY <2>1, LeaveMoves DEF ChatInv
  <2> QED BY <2>1, <2>2 DEF Moved
<1>22. CASE Catch(w)
  <2>1. Moved(w) /\ run'[w].pc = "end" /\ run'[w].token = run[w].token
    BY <1>22, LeaveMoves DEF Catch, ChatInv
  <2>2. ck' = ck /\ lease' = lease /\ CanWrite(w) /\ run[w].pc = "catch"
    BY <1>22 DEF Catch, At
  <2>3. \/ mission.state \in Stopped /\ mission' = mission
        \/ mission.state \notin Stopped /\ mission' = Paused(mission)
        \/ mission.state \notin Stopped /\ mission' = [mission EXCEPT !.state = "BLOCKED"]
    BY <1>22 DEF Catch
  <2> QED BY <1>0, <1>a, <2>1, <2>2, <2>3, PausedFacts DEF Moved, MissionType, ChatInv
<1> QED BY <1>1, <1>2, <1>3, <1>4, <1>5, <1>6, <1>7, <1>8, <1>9, <1>10, <1>11, <1>12, <1>13,
           <1>14, <1>15, <1>16, <1>17, <1>18, <1>19, <1>20, <1>21, <1>22 DEF WorkerStep

-----------------------------------------------------------------------------
(* The hosted deployment *)

LEMMA HostedOneWriter ==
  ASSUME Hosted, TokensDiffer
  PROVE  OneWriter
BY DEF TokensDiffer, OneWriter, CanWrite

LEMMA HostedStarts ==
  ASSUME HostedInit
  PROVE  HostedInv
<1>1. /\ ChatInv /\ runs = 0
      /\ \A w \in Workers : run[w].pc = "idle" /\ run[w].token = 0
      /\ mission.state = "CREATED" /\ mission.resume = "NONE" /\ ck.by = 0
      /\ lease.token = 0 /\ ~lease.live
  BY ChatStarts DEF HostedInit
<1> QED BY <1>1 DEF HostedInv, TokensDiffer, WriterWorks, HostedStates, Working, InAgent, External

LEMMA HostedWorkerKeeps ==
  ASSUME Hosted, HostedInv, NEW w \in Workers, WorkerStep(w) \/ FencedOut(w), runs' = runs
  PROVE  HostedInv'
<1>1. OneWriter
  BY HostedOneWriter DEF HostedInv
<1>2. ChatInv' /\ WorkerEffect(w)
  BY <1>1, WorkerKeeps, WorkerEffects DEF HostedInv
<1>3. \A v \in Workers : run'[v].token = run[v].token
  BY <1>2 DEF WorkerEffect
<1>4. lease' = lease /\ \A v \in Workers : CanWrite(v)' <=> CanWrite(v)
  BY <1>2, <1>3 DEF WorkerEffect, CanWrite
<1>5. TokensDiffer'
  <2>1. ck'.by = ck.by \/ (lease.live /\ ck'.by = lease.token)
    BY <1>2 DEF WorkerEffect, CanWrite
  <2>2. lease.token \in Nat /\ ck.by \in Nat
    BY DEF HostedInv, ChatInv, Shapes, LeaseType, CheckpointType
  <2> QED BY <1>3, <1>4, <2>1, <2>2 DEF HostedInv, TokensDiffer
<1>6. {mission'.state, mission'.resume} \subseteq HostedStates
  BY <1>2 DEF WorkerEffect, HostedInv, HostedStates, Stopped, Terminal
<1>7. WriterWorks'
  <2> SUFFICES ASSUME NEW v \in Workers, CanWrite(v)'
               PROVE  /\ run'[v].pc \in Working => mission'.state \notin Stopped
                      /\ run'[v].pc \in InAgent \cup {"commit"} => mission'.state = "EXECUTING"
    BY DEF WriterWorks
  <2>1. /\ run[v].pc \in Working => mission.state \notin Stopped
        /\ run[v].pc \in InAgent \cup {"commit"} => mission.state = "EXECUTING"
    BY <1>4 DEF HostedInv, WriterWorks
  <2>2. CASE v # w
    BY <1>1, <1>2, <1>4, <2>1, <2>2 DEF WorkerEffect, OneWriter
  <2>3. CASE v = w
    <3>1. mission.state \in {"CREATED", "EXECUTING"} \cup Stopped
      BY DEF HostedInv, HostedStates, ChatInv, Shapes, MissionType, Active, StartStates, CommitStates, Stopped, Terminal
    <3> QED BY <1>2, <2>1, <2>3, <3>1
            DEF WorkerEffect, Working, InAgent, External, Stopped, Terminal
  <2> QED BY <2>2, <2>3
<1> QED BY <1>2, <1>5, <1>6, <1>7 DEF HostedInv

\* The steps that leave the workers where they are.
LEMMA HostedControlKeeps ==
  ASSUME Hosted, HostedInv, Expire \/ Pause \/ Cancel \/ Resume
                            \/ \E i \in Instructions : SteerInsert(i) \/ SteerCommit(i)
  PROVE  HostedInv'
<1>1. run' = run /\ ck' = ck /\ ws' = ws /\ runs' = runs
  BY DEF Expire, Pause, Cancel, Resume, SteerInsert, SteerCommit
<1>2. /\ lease' \in LeaseType
      /\ lease'.live => lease' = lease
      /\ lease'.token = lease.token \/ lease'.token = 0
  <2>1. lease \in LeaseType
    BY DEF HostedInv, ChatInv, Shapes
  <2>2. CASE lease' = lease
    BY <2>1, <2>2
  <2>3. CASE lease' = NoLease
    BY <2>3 DEF NoLease, LeaseType
  <2>4. CASE lease' = [lease EXCEPT !.live = FALSE]
    BY <2>1, <2>4 DEF LeaseType
  <2> QED BY <2>2, <2>3, <2>4 DEF Expire, Pause, Cancel, Resume, SteerInsert, SteerCommit
<1>3. /\ mission' \in MissionType /\ mission'.spent = mission.spent
      /\ mission'.state = "PAUSED" => mission'.resume # "NONE"
      /\ {mission'.state, mission'.resume} \subseteq HostedStates
      /\ \/ mission' = mission
         \/ Pause /\ mission'.state = "PAUSED"
         \/ Cancel /\ mission'.state = "CANCELLED"
         \/ Resume /\ mission.state = "PAUSED" /\ mission'.state \notin Stopped
  <2>1. /\ mission \in MissionType
        /\ mission.state = "PAUSED" => mission.resume # "NONE"
        /\ {mission.state, mission.resume} \subseteq HostedStates
    BY DEF HostedInv, ChatInv, Shapes
  <2>2. CASE mission' = mission
    BY <2>1, <2>2
  <2>3. CASE Pause
    <3>1. mission.state \notin Stopped /\ mission' = Paused(mission)
      BY <2>3 DEF Pause
    <3> QED BY <2>1, <2>3, <3>1, PausedFacts DEF HostedStates, Stopped, HostedInv, ChatInv
  <2>4. CASE Cancel
    BY <2>1, <2>4 DEF Cancel, MissionType, HostedStates, Stopped, Terminal
  <2>5. CASE Resume
    <3>1. mission.state = "PAUSED" /\ mission.resume \in Active
          /\ mission' = [mission EXCEPT !.state = mission.resume, !.resume = "NONE"]
      BY <2>1, <2>5 DEF Resume, MissionType
    <3>2. /\ mission'.state = mission.resume /\ mission'.resume = "NONE"
          /\ mission' \in MissionType /\ mission'.spent = mission.spent
      BY <2>1, <3>1 DEF MissionType
    <3>3. Active \cap Stopped = {} /\ "PAUSED" \notin Active
      BY DEF Active, StartStates, CommitStates, Stopped, Terminal
    <3> QED BY <2>1, <2>5, <3>1, <3>2, <3>3 DEF HostedStates
  <2> QED BY <2>2, <2>3, <2>4, <2>5 DEF Expire, SteerInsert, SteerCommit
<1>4. events' \in EventsType /\ EventsInOrder'
  <2>1. events \in EventsType /\ EventsInOrder
    BY DEF HostedInv, ChatInv, Shapes
  <2>2. CASE events' = events \/ events' = Emit(events)
    BY <1>1, <2>2, StreamGrows DEF HostedInv, ChatInv, Shapes
  <2>3. ASSUME NEW i \in Instructions, SteerInsert(i) PROVE events' \in EventsType /\ EventsInOrder'
    <3> DEFINE at == [events.at EXCEPT ![i] = events.next]
    <3>1. at \in [Instructions -> Nat] /\ events.next + 1 \in Nat
          /\ \A j \in Instructions : at[j] = events.at[j] \/ at[j] = events.next
      BY <2>1 DEF EventsType
    <3>2. events' = [events EXCEPT !.at = at, !.next = events.next + 1]
      BY <2>3 DEF SteerInsert
    <3> HIDE DEF at
    <3>3. /\ events' \in EventsType /\ events'.at = at /\ events'.next = events.next + 1
          /\ events'.top = events.top
      BY <2>1, <3>1, <3>2 DEF EventsType
    <3> QED BY <1>1, <2>1, <3>1, <3>3 DEF EventsInOrder, EventsType
  <2>4. ASSUME NEW i \in Instructions, SteerCommit(i) PROVE events' \in EventsType /\ EventsInOrder'
    <3> DEFINE top == Max({events.top, events.at[i]})
    <3>1. events.top \in Nat /\ events.at[i] \in Nat /\ events.next \in Nat
      BY <2>1 DEF EventsType
    <3>2. top \in {events.top, events.at[i]} /\ events.top <= top
      BY <3>1 DEF Max
    <3>3. events' = [events EXCEPT !.visible = @ \cup {i}, !.top = top]
      BY <2>4 DEF SteerCommit
    <3> HIDE DEF top
    <3>4. top \in Nat /\ top < events.next
      BY <2>1, <3>1, <3>2 DEF EventsInOrder
    <3>5. /\ events' \in EventsType /\ events'.at = events.at /\ events'.next = events.next
          /\ events'.top = top
      BY <2>1, <3>3, <3>4 DEF EventsType
    <3>6. ck'.cursor \in Nat
      BY <1>1 DEF HostedInv, ChatInv, Shapes, CheckpointType
    <3> QED BY <1>1, <2>1, <3>1, <3>2, <3>4, <3>5, <3>6 DEF EventsInOrder
  <2> QED BY <2>2, <2>3, <2>4 DEF Expire, Pause, Cancel, Resume
<1>5. \A v \in Workers : CanWrite(v)' => CanWrite(v)
  BY <1>1, <1>2 DEF CanWrite
<1>6. ChatInv'
  <2>1. run' \in [Workers -> WorkerType]
    BY <1>1 DEF HostedInv, ChatInv, Shapes
  <2>2. mission'.state \in {"COMPLETED", "BLOCKED", "FAILED"} => mission'.state = mission.state
    BY <1>3 DEF Stopped, Terminal
  <2> QED BY <1>1, <1>2, <1>3, <1>4, <1>5, <2>1, <2>2, ControlStep DEF HostedInv
<1>7. TokensDiffer'
  BY <1>1, <1>2 DEF HostedInv, TokensDiffer
<1>8. WriterWorks'
  <2>1. Pause \/ Cancel => ~lease'.live
    BY DEF Pause, Cancel, NoLease
  <2>2. \A v \in Workers : ~CanWrite(v)' \/ mission' = mission \/ (Resume /\ mission.state = "PAUSED" /\ mission'.state \notin Stopped)
    BY <1>3, <2>1 DEF CanWrite
  <2>3. \A v \in Workers : CanWrite(v) /\ mission.state = "PAUSED" => run[v].pc \notin Working
    BY DEF HostedInv, WriterWorks, Stopped
  <2> QED BY <1>1, <1>5, <2>2, <2>3 DEF HostedInv, WriterWorks, Working
<1> QED BY <1>3, <1>6, <1>7, <1>8 DEF HostedInv

LEMMA IdleMoves ==
  ASSUME Shapes, NEW w \in Workers, run' = [run EXCEPT ![w] = Idle]
  PROVE  Moved(w) /\ run'[w].pc = "idle" /\ run'[w].token = 0
<1>1. Idle \in WorkerType
  BY DEF Idle, WorkerType, Pcs
<1>2. Idle.pc = "idle" /\ Idle.token = 0
  BY DEF Idle
<1> QED BY <1>1, <1>2, RecordMoves

\* A worker that goes, by its own release or by a crash, takes no one else's lease.
LEMMA HostedGone ==
  ASSUME Hosted, HostedInv, NEW w \in Workers, Release(w) \/ Crash(w)
  PROVE  HostedInv'
<1>1. run' = [run EXCEPT ![w] = Idle] /\ UNCHANGED <<mission, ck, events, ws, runs>>
  BY DEF Release, Crash
<1>2. Moved(w) /\ run'[w].pc = "idle" /\ run'[w].token = 0
  BY <1>1, IdleMoves DEF HostedInv, ChatInv
<1>3. /\ lease' = lease \/ lease' = NoLease
      /\ lease' \in LeaseType
  <2>1. NoLease \in LeaseType
    BY DEF NoLease, LeaseType
  <2> QED BY <2>1 DEF Release, Crash, HostedInv, ChatInv, Shapes
<1>4. \A v \in Workers : CanWrite(v)' => v # w /\ CanWrite(v) /\ run'[v] = run[v]
  BY <1>2, <1>3 DEF CanWrite, NoLease, HostedInv, TokensDiffer, Moved
<1>5. ~Held(w)'
  BY <1>2 DEF Held
<1>6. ChatInv'
  BY <1>1, <1>2, <1>3, <1>4, <1>5, RunStep DEF HostedInv
<1>7. TokensDiffer'
  BY <1>1, <1>2, <1>3 DEF HostedInv, TokensDiffer, Moved, NoLease
<1>8. WriterWorks'
  BY <1>1, <1>4 DEF HostedInv, WriterWorks
<1> QED BY <1>1, <1>6, <1>7, <1>8 DEF HostedInv

\* A new invocation gets a token no one had.
LEMMA ClaimKeeps ==
  ASSUME Hosted, HostedInv, NEW w \in Workers, Claim(w)
  PROVE  HostedInv'
<1> DEFINE r == [Idle EXCEPT !.pc = "start", !.token = runs + 1]
<1>1. /\ run' = [run EXCEPT ![w] = r] /\ UNCHANGED <<mission, ck, events, ws>>
      /\ runs' = runs + 1 /\ lease' = [token |-> runs + 1, live |-> TRUE] /\ ~lease.live
  BY DEF Claim
<1>2. runs + 1 \in Nat
  BY DEF HostedInv, TokensDiffer
<1>3. r \in WorkerType /\ r.pc = "start" /\ r.token = runs + 1
  <2>1. Idle \in WorkerType
    BY DEF Idle, WorkerType, Pcs
  <2> QED BY <1>2, <2>1 DEF WorkerType, Pcs
<1> HIDE DEF r
<1>4. Moved(w) /\ run'[w] = r
  BY <1>1, <1>3, RecordMoves DEF HostedInv, ChatInv
<1>5. \A v \in Workers : v # w => run'[v] = run[v] /\ run[v].token <= runs
  BY <1>4 DEF Moved, HostedInv, TokensDiffer
<1>6. \A v \in Workers : run[v].token \in Nat
  BY DEF HostedInv, ChatInv, Shapes, WorkerType
<1>7. \A v \in Workers : v # w => ~CanWrite(v)'
  BY <1>1, <1>2, <1>5, <1>6 DEF CanWrite, HostedInv, TokensDiffer
<1>8. lease' \in LeaseType
  BY <1>1, <1>2 DEF LeaseType
<1>9. ~Held(w)' /\ Place(w)'
  BY <1>3, <1>4 DEF Place, Held, BetweenBatches, Proposing, Working, InAgent, External
<1>10. ChatInv'
  BY <1>1, <1>4, <1>7, <1>8, <1>9, RunStep DEF HostedInv
<1>11. TokensDiffer'
  <2>1. runs \in Nat /\ ck.by \in Nat /\ ck.by <= runs
    BY DEF HostedInv, TokensDiffer, ChatInv, Shapes, CheckpointType
  <2>2. \A v \in Workers : v # w => run'[v].token < runs + 1
    BY <1>5, <1>6, <2>1
  <2>3. \A v, x \in Workers : v # w /\ x # w /\ run'[v].token = run'[x].token /\ run'[v].token # 0 => v = x
    BY <1>5 DEF HostedInv, TokensDiffer
  <2>4. \A v \in Workers : run'[v].token <= runs + 1
    BY <1>3, <1>4, <1>6, <2>1, <2>2, <1>5
  <2>5. \A v, x \in Workers : run'[v].token = run'[x].token /\ run'[v].token # 0 => v = x
    BY <1>3, <1>4, <1>5, <1>6, <2>1, <2>2, <2>3
  <2> QED BY <1>1, <1>2, <2>1, <2>4, <2>5 DEF TokensDiffer
<1>12. WriterWorks'
  BY <1>3, <1>4, <1>7 DEF WriterWorks, Working, InAgent, External
<1> QED BY <1>1, <1>10, <1>11, <1>12 DEF HostedInv

LEMMA HostedStep ==
  ASSUME Hosted, HostedInv, [HostedNext]_hostedVars
  PROVE  HostedInv'
<1>1. ASSUME NEW w \in Workers, Abort(w), runs' = runs PROVE HostedInv'
  <2>1. /\ ChatInv' /\ run'[w].token = run[w].token /\ run'[w].pc = run[w].pc
        /\ \A v \in Workers : v # w => run'[v] = run[v]
    BY <1>1, AbortKeeps DEF HostedInv, Moved
  <2>2. mission' = mission /\ ck' = ck /\ lease' = lease
    BY <1>1 DEF Abort
  <2>3. \A v \in Workers : run'[v].token = run[v].token /\ run'[v].pc = run[v].pc
    BY <2>1
  <2> QED BY <1>1, <2>1, <2>2, <2>3 DEF HostedInv, TokensDiffer, WriterWorks, CanWrite
<1>2. CASE UNCHANGED hostedVars
  <2>1. UNCHANGED <<mission, ck, events, ws, run, lease, runs>>
    BY <1>2 DEF hostedVars, chatVars
  <2>2. run' \in [Workers -> WorkerType] /\ lease' \in LeaseType /\ events' \in EventsType
        /\ mission' \in MissionType /\ EventsInOrder'
    BY <2>1 DEF HostedInv, ChatInv, Shapes, EventsInOrder
  <2>3. ChatInv'
    BY <2>1, <2>2, ControlStep DEF HostedInv, ChatInv, CanWrite
  <2> QED BY <2>1, <2>3 DEF HostedInv, TokensDiffer, WriterWorks, CanWrite
<1> QED
  BY <1>1, <1>2, HostedWorkerKeeps, HostedControlKeeps, HostedGone, ClaimKeeps DEF HostedNext

\* What the inductive part says of the turn.
LEMMA ChatInvSound ==
  ASSUME ChatInv
  PROVE  EffectsAccounted /\ RecordedChangesChecked
<1>1. mission \in MissionType
  BY DEF ChatInv, Shapes
<1>2. /\ ck.calls \in 0 .. MaxCalls /\ ck.tools \in 0 .. MaxTools
      /\ ck.pending \subseteq CallIds /\ ck.changes \subseteq CallIds
      /\ ck.seen \subseteq Instructions /\ ck.cursor \in Nat
  BY DEF ChatInv, Shapes, CheckpointType
<1>3. /\ events.top \in Nat /\ events.next \in Nat /\ events.visible \subseteq Instructions
      /\ events.top \in 1 .. events.next - 1
  BY DEF ChatInv, Shapes, EventsType, EventsInOrder
<1>4. ck.cursor \in 0 .. events.next
  BY <1>2, <1>3 DEF ChatInv, EventsInOrder
<1>5. ws.applied \in [CallIds -> Nat] /\ ws.unchecked \subseteq CallIds
  BY DEF ChatInv, Shapes, WorkspaceType
<1>6. \A w \in Workers : run[w].pc \in Working \cup {"idle", "start", "catch", "end"}
  BY DEF ChatInv, Shapes, WorkerType, Pcs
<1>7. ChatTypeOK
  BY <1>1, <1>2, <1>3, <1>4, <1>5, <1>6 DEF ChatTypeOK
<1> QED BY <1>7 DEF ChatInv, EffectsAccounted

\* The hosted turn keeps its invariant.
THEOREM HostedInvariant ==
  ASSUME Hosted
  PROVE  HostedSpec => []HostedInv
BY HostedStarts, HostedStep, PTL DEF HostedSpec

\* Whatever crashes, expires, is paused or resumed: no tool call takes effect twice, and
\* every counted call was debited first.
THEOREM HostedEffectsAccounted ==
  ASSUME Hosted
  PROVE  HostedSpec => []EffectsAccounted
<1>1. HostedInv => EffectsAccounted
  BY ChatInvSound DEF HostedInv
<1> QED BY <1>1, HostedInvariant, PTL

\* A completed turn has passed a quality check on every change its checkpoint records.
THEOREM HostedChangesChecked ==
  ASSUME Hosted
  PROVE  HostedSpec => []RecordedChangesChecked
<1>1. HostedInv => RecordedChangesChecked
  BY ChatInvSound DEF HostedInv
<1> QED BY <1>1, HostedInvariant, PTL

\* Whoever may write works on a mission that is executing.
THEOREM HostedWorksOnExecuting ==
  ASSUME Hosted
  PROVE  HostedSpec => []WorksOnExecuting
<1>1. HostedInv => WorksOnExecuting
  BY DEF HostedInv, WriterWorks, WorksOnExecuting
<1> QED BY <1>1, HostedInvariant, PTL

\* After a pause or a cancel nothing reaches the checkpoint or the budget, and only the
\* newest run advances the checkpoint.
THEOREM HostedWritesFenced ==
  ASSUME Hosted
  PROVE  HostedSpec => WritesFenced
<1>1. ASSUME HostedInv, [HostedNext]_hostedVars
      PROVE  [Quiescent /\ NewestRunWrites]_hostedVars
  <2>1. ck.by \in Nat /\ mission.spent \in Nat
    BY <1>1, Counts DEF HostedInv, ChatInv, Shapes, CheckpointType
  <2>2. ASSUME ck' = ck, mission'.spent = mission.spent PROVE Quiescent /\ NewestRunWrites
    BY <2>1, <2>2 DEF Quiescent, NewestRunWrites
  <2>3. ASSUME NEW w \in Workers, WorkerStep(w) \/ FencedOut(w)
        PROVE  Quiescent /\ NewestRunWrites
    <3>1. WorkerEffect(w)
      BY <1>1, <2>3, WorkerEffects DEF HostedInv
    <3>2. CanWrite(w) /\ run[w].pc \in Working => mission.state \notin {"PAUSED", "CANCELLED"}
      BY <1>1 DEF HostedInv, WriterWorks, Stopped, Terminal
    <3>3. CanWrite(w) => run[w].token >= ck.by
      BY <1>1 DEF HostedInv, TokensDiffer, CanWrite
    <3>4. ck'.by >= ck.by
      BY <2>1, <3>1, <3>3 DEF WorkerEffect
    <3> QED BY <3>1, <3>2, <3>4 DEF WorkerEffect, Quiescent, NewestRunWrites
  <2>4. ASSUME NEW w \in Workers, Abort(w) \/ Claim(w) \/ Release(w) \/ Crash(w)
        PROVE  Quiescent /\ NewestRunWrites
    BY <2>2, <2>4 DEF Abort, Claim, Release, Crash
  <2>5. ASSUME Expire \/ Pause \/ Cancel \/ Resume
                      \/ \E i \in Instructions : SteerInsert(i) \/ SteerCommit(i)
        PROVE  Quiescent /\ NewestRunWrites
    <3>1. ck' = ck
      BY <2>5 DEF Expire, Pause, Cancel, Resume, SteerInsert, SteerCommit
    <3>2. mission \in MissionType
      BY <1>1 DEF HostedInv, ChatInv, Shapes
    <3>3. mission'.spent = mission.spent
      BY <2>5, <3>2 DEF Expire, Pause, Paused, Cancel, Resume, SteerInsert, SteerCommit, MissionType
    <3> QED BY <2>2, <3>1, <3>3
  <2> QED BY <1>1, <2>3, <2>4, <2>5 DEF HostedNext
<1> QED BY <1>1, HostedInvariant, PTL DEF HostedSpec, WritesFenced

-----------------------------------------------------------------------------
(* The local deployment: one process, hence one worker *)

\* What a step of the worker reads: nothing, or everything new.
ReadEffect ==
  /\ events' = events \/ events' = Emit(events)
  /\ \/ ck'.cursor = ck.cursor /\ ck'.seen = ck.seen
     \/ /\ ck'.cursor = events.top \/ ck'.cursor = events'.top
        /\ ck'.seen = ck.seen \cup NewSteering
  /\ mission'.state = "COMPLETED" => mission.state = "COMPLETED" \/ NewSteering = {}

LEMMA ReadEffects ==
  ASSUME ChatInv, NEW w \in Workers, WorkerStep(w)
  PROVE  ReadEffect
<1> USE DEF ReadEffect
<1>0. mission \in MissionType /\ ck \in CheckpointType
  BY DEF ChatInv, Shapes
<1>1. ASSUME mission' = mission, ck' = ck, events' = events \/ events' = Emit(events)
      PROVE  ReadEffect
  BY <1>1
<1>2. CASE Schedule(w) \/ Recheck(w) \/ Execute(w) \/ CheckQuality(w) \/ Fail(w)
  BY <1>1, <1>2 DEF Schedule, Recheck, Execute, CheckQuality, Fail
<1>3. CASE Begin(w)
  BY <1>0, <1>3 DEF Begin, MissionType
<1>4. CASE MarkUnknown(w) \/ Enter(w) \/ CountCall(w) \/ RespondReview(w) \/ Respond(w)
           \/ CountTool(w) \/ CountQuality(w)
  BY <1>0, <1>4 DEF MarkUnknown, Enter, CountCall, RespondReview, Respond, CountTool,
                    CountQuality, Save, CheckpointType
<1>5. CASE Refuse(w)
  BY <1>0, <1>5 DEF Refuse, Save, CheckpointType
<1>6. CASE SaveResult(w)
  BY <1>0, <1>6 DEF SaveResult, Save, CheckpointType
<1>7. CASE ReserveCall(w) \/ ReserveTool(w) \/ ReserveQuality(w)
  BY <1>0, <1>7 DEF ReserveCall, ReserveTool, ReserveQuality, Debit, MissionType
<1>8. CASE TakeSteering(w)
  BY <1>8, AbsorbFacts, SaveFacts DEF TakeSteering, ChatInv
<1>9. CASE LateSteering(w)
  <2> DEFINE new == [Absorb EXCEPT !.cursor = events'.top]
  <2>1. Save(w, new) /\ events' = Emit(events) /\ mission' = mission
    BY <1>9 DEF LateSteering
  <2>2. events'.top \in Nat
    BY <2>1, EmitFacts DEF ChatInv, Shapes, EventsType
  <2> HIDE DEF Absorb
  <2>3. new \in CheckpointType /\ new.cursor = events'.top /\ new.seen = ck.seen \cup NewSteering
    BY <2>2, AbsorbFacts DEF CheckpointType
  <2> HIDE DEF new
  <2>4. ck'.cursor = events'.top /\ ck'.seen = ck.seen \cup NewSteering
    BY <2>1, <2>3, SaveFacts DEF ChatInv
  <2> QED BY <2>1, <2>4
<1>10. CASE Commit(w)
  BY <1>0, <1>10 DEF Commit, MissionType
<1>11. CASE Catch(w)
  <2>1. \/ mission' = mission
        \/ mission.state \notin Stopped /\ mission' = Paused(mission)
        \/ mission' = [mission EXCEPT !.state = "BLOCKED"]
    BY <1>11 DEF Catch
  <2> QED BY <1>0, <1>11, <2>1 DEF Catch, Paused, MissionType
<1> QED BY <1>2, <1>3, <1>4, <1>5, <1>6, <1>7, <1>8, <1>9, <1>10, <1>11 DEF WorkerStep

\* The fence of SQLite is that there is one process.
OneProcess == ~Hosted /\ \E w \in Workers : Workers = {w}

LEMMA LocalStarts ==
  ASSUME OneProcess, LocalInit
  PROVE  LocalTurnInv
<1>1. /\ ChatInv /\ mission.state = "CREATED" /\ ck.cursor = 0
      /\ \A w \in Workers : run[w].pc = "start"
      /\ \A i \in Instructions : events.at[i] = 0 /\ events.visible = {}
  BY ChatStarts DEF LocalInit
<1>2. ReadInOrder /\ NoStaleDraft
  BY <1>1 DEF ReadInOrder, NoStaleDraft
<1>3. Attended
  BY <1>1 DEF OneProcess, Attended
<1> QED BY <1>1, <1>2, <1>3 DEF LocalTurnInv

LEMMA LocalRights ==
  ASSUME OneProcess
  PROVE  OneWriter /\ \A w \in Workers : CanWrite(w) /\ CanWrite(w)'
BY DEF OneProcess, OneWriter, CanWrite

LEMMA LocalWorkerKeeps ==
  ASSUME OneProcess, LocalTurnInv, NEW w \in Workers, WorkerStep(w), resuming' = resuming
  PROVE  LocalTurnInv'
<1>1. ChatInv' /\ WorkerEffect(w) /\ ReadEffect
  BY LocalRights, WorkerKeeps, WorkerEffects, ReadEffects DEF LocalTurnInv
<1>2. events' = events
  <2>1. SectionFree
    BY DEF LocalTurnInv, ReadInOrder, SectionFree
  <2> QED BY <1>1, <2>1 DEF ReadEffect, Emit
<1>3. /\ \A i \in Instructions : events.at[i] \in Nat
      /\ events.top \in Nat /\ ck.cursor \in Nat
      /\ events.visible \subseteq Instructions
  BY DEF LocalTurnInv, ChatInv, Shapes, EventsType, CheckpointType
<1>4. \A i \in events.visible : events.at[i] > ck.cursor => i \in NewSteering
  BY DEF NewSteering
<1>5. ReadInOrder'
  BY <1>1, <1>2, <1>3, <1>4 DEF ReadEffect, LocalTurnInv, ReadInOrder
<1>6. NoStaleDraft'
  <2> SUFFICES ASSUME mission'.state = "COMPLETED" PROVE events.visible \subseteq ck'.seen
    BY <1>2 DEF NoStaleDraft
  <2>1. ck.seen \subseteq ck'.seen
    BY <1>1 DEF ReadEffect
  <2>2. CASE mission.state = "COMPLETED"
    BY <2>1, <2>2 DEF LocalTurnInv, NoStaleDraft
  <2>3. CASE NewSteering = {}
    <3>1. \A i \in events.visible : events.at[i] <= ck.cursor
      BY <1>3, <1>4, <2>3
    <3> QED BY <1>3, <2>1, <3>1 DEF LocalTurnInv, ReadInOrder
  <2> QED BY <1>1, <2>2, <2>3 DEF ReadEffect
<1>7. Attended'
  <2>1. run'[w].pc \in {"idle", "end"} => mission'.state \in Stopped
    BY <1>1, LocalRights DEF WorkerEffect
  <2> QED BY <2>1 DEF Attended
<1> QED BY <1>1, <1>5, <1>6, <1>7 DEF LocalTurnInv

\* The worker is replaced or gone; a restart may also leave the mission paused.
LEMMA LocalRunKeeps ==
  ASSUME OneProcess, LocalTurnInv, NEW w \in Workers,
         Settle(w) \/ ResumeSchedules(w) \/ Restart(w)
  PROVE  LocalTurnInv'
<1>1. ck' = ck /\ events' = events /\ ws' = ws /\ lease' = lease
  BY DEF Settle, ResumeSchedules, Restart
<1>2. Moved(w) /\ run'[w].pc \in {"idle", "start"}
  <2>1. CASE run' = [run EXCEPT ![w] = Idle]
    BY <2>1, IdleMoves DEF LocalTurnInv, ChatInv
  <2>2. CASE run' = Scheduled(w)
    <3> DEFINE r == [Idle EXCEPT !.pc = "start"]
    <3>1. r \in WorkerType /\ r.pc = "start"
      <4>1. Idle \in WorkerType
        BY DEF Idle, WorkerType, Pcs
      <4> QED BY <4>1 DEF WorkerType, Pcs
    <3>2. run' = [run EXCEPT ![w] = r]
      BY <2>2 DEF Scheduled
    <3> HIDE DEF r
    <3> QED BY <3>1, <3>2, RecordMoves DEF LocalTurnInv, ChatInv
  <2> QED BY <2>1, <2>2 DEF Settle, ResumeSchedules, Restart
<1>3. /\ mission' \in MissionType /\ mission'.spent = mission.spent
      /\ \/ mission' = mission
         \/ mission'.state = "PAUSED" /\ mission'.resume # "NONE"
      /\ Restart(w) => mission'.state \in Stopped
  <2>1. CASE mission' = mission /\ ~Restart(w)
    BY <2>1 DEF LocalTurnInv, ChatInv, Shapes
  <2>2. CASE Restart(w)
    <3>1. PICK s \in CutShort(w) :
            mission' = IF s \in Stopped THEN mission ELSE Paused([mission EXCEPT !.state = s])
      BY <2>2 DEF Restart
    <3>2. mission \in MissionType
      BY DEF LocalTurnInv, ChatInv, Shapes
    <3>3. s = mission.state \/ s \in StartStates \cup CommitStates \cup {"EXECUTING"}
      BY DEF CutShort
    <3>4. CASE s \in Stopped
      <4>1. s = mission.state
        BY <3>3, <3>4 DEF StartStates, CommitStates, Stopped, Terminal
      <4> QED BY <3>1, <3>2, <3>4, <4>1
    <3>5. CASE s \notin Stopped
      <4>1. s \in Active /\ s # "NONE"
        BY <3>2, <3>3, <3>5 DEF MissionType, Active, StartStates, CommitStates
      <4>2. mission' = [[mission EXCEPT !.state = s] EXCEPT !.state = "PAUSED", !.resume = s]
        BY <3>1, <3>2, <3>5 DEF Paused, MissionType
      <4> QED BY <3>2, <4>1, <4>2 DEF MissionType, Stopped
    <3> QED BY <3>4, <3>5
  <2> QED BY <2>1, <2>2 DEF Settle, ResumeSchedules
<1>4. ~Held(w)' /\ Place(w)'
  BY <1>2 DEF Place, Held, BetweenBatches, Proposing, Working, InAgent, External
<1>5. \A v \in Workers : v = w
  BY DEF OneProcess
<1>6. /\ ck' \in CheckpointType /\ events' \in EventsType /\ lease' \in LeaseType
      /\ ws' \in WorkspaceType /\ EventsInOrder'
  BY <1>1 DEF LocalTurnInv, ChatInv, Shapes, EventsInOrder
<1>7. ck'.changes = ck.changes /\ ck'.calls >= ck.calls
  BY <1>1, Counts DEF LocalTurnInv, ChatInv
<1>8. DebitedFirst' /\ RecordedChangesChecked' /\ (mission'.state = "PAUSED" => mission'.resume # "NONE")
  BY <1>1, <1>3 DEF LocalTurnInv, ChatInv, DebitedFirst, RecordedChangesChecked
<1>9. ChatInv'
  BY <1>1, <1>2, <1>3, <1>4, <1>5, <1>6, <1>7, <1>8, QuietStep DEF LocalTurnInv
<1>10. ReadInOrder' /\ NoStaleDraft'
  BY <1>1, <1>3 DEF LocalTurnInv, ReadInOrder, NoStaleDraft
<1>11. Attended'
  <2>1. CASE Settle(w)
    BY <1>2, <1>5, <2>1 DEF Settle, LocalTurnInv, Attended
  <2>2. CASE ResumeSchedules(w)
    <3>1. run'[w].pc = "start"
      BY <2>2 DEF ResumeSchedules, Scheduled, Idle, LocalTurnInv, ChatInv, Shapes
    <3> QED BY <3>1 DEF Attended
  <2>3. CASE Restart(w)
    BY <1>3, <2>3 DEF Attended
  <2> QED BY <2>1, <2>2, <2>3
<1> QED BY <1>9, <1>10, <1>11 DEF LocalTurnInv

LEMMA LocalControlKeeps ==
  ASSUME OneProcess, LocalTurnInv,
         PauseTurn \/ CancelTurn \/ ResumeTurn \/ \E i \in Instructions : Steer(i)
  PROVE  LocalTurnInv'
<1>1. ck' = ck /\ ws' = ws /\ lease' = lease
  BY DEF PauseTurn, CancelTurn, ResumeTurn, Steer
<1>2. /\ run' \in [Workers -> WorkerType]
      /\ \A v \in Workers : /\ run'[v].pc = run[v].pc /\ run'[v].tool = run[v].tool
                            /\ run'[v].ok = run[v].ok
  <2>1. run \in [Workers -> WorkerType]
    BY DEF LocalTurnInv, ChatInv, Shapes
  <2>2. CASE run' = run
    BY <2>1, <2>2
  <2>3. CASE AbortActive
    <3> SUFFICES ASSUME NEW v \in Workers
                 PROVE  /\ run'[v] \in WorkerType /\ run'[v].pc = run[v].pc
                        /\ run'[v].tool = run[v].tool /\ run'[v].ok = run[v].ok
      BY <2>3 DEF AbortActive
    <3> DEFINE a == run[v].aborted \/ run[v].pc \notin {"idle", "end"}
    <3>1. a \in BOOLEAN
      OBVIOUS
    <3>2. run'[v] = [run[v] EXCEPT !.aborted = a]
      BY <2>3 DEF AbortActive
    <3> HIDE DEF a
    <3> QED BY <2>1, <3>1, <3>2 DEF WorkerType
  <2> QED BY <2>2, <2>3 DEF PauseTurn, CancelTurn, ResumeTurn, Steer
<1>3. /\ mission' \in MissionType /\ mission'.spent = mission.spent
      /\ mission'.state = "PAUSED" => mission'.resume # "NONE"
      /\ mission'.state \in {"COMPLETED", "BLOCKED", "FAILED"} => mission'.state = mission.state
      /\ (PauseTurn \/ CancelTurn) => mission'.state \in Stopped
  <2>1. /\ mission \in MissionType
        /\ mission.state = "PAUSED" => mission.resume # "NONE"
    BY DEF LocalTurnInv, ChatInv, Shapes
  <2>2. CASE PauseTurn
    <3>1. mission.state \notin Stopped /\ mission' = Paused(mission)
      BY <2>2 DEF PauseTurn
    <3> QED BY <3>1, PausedFacts DEF Stopped, LocalTurnInv, ChatInv
  <2>3. CASE CancelTurn
    BY <2>1, <2>3 DEF CancelTurn, MissionType, Stopped, Terminal
  <2>4. CASE ResumeTurn
    <3>1. mission.state = "PAUSED" /\ mission.resume \in Active
          /\ mission' = [mission EXCEPT !.state = mission.resume, !.resume = "NONE"]
      BY <2>1, <2>4 DEF ResumeTurn, MissionType
    <3>2. /\ mission'.state = mission.resume /\ mission' \in MissionType
          /\ mission'.spent = mission.spent
      BY <2>1, <3>1 DEF MissionType
    <3>3. ~PauseTurn /\ ~CancelTurn
      BY <2>4, <3>1, <3>2 DEF PauseTurn, CancelTurn, MissionType, Active, StartStates,
         CommitStates, Stopped, Terminal
    <3> QED BY <3>1, <3>2, <3>3 DEF Active, StartStates, CommitStates
  <2>5. CASE \E i \in Instructions : Steer(i)
    <3>1. mission' = mission
      BY <2>5 DEF Steer
    <3>2. ~PauseTurn
      BY <2>1, <3>1, PausedFacts DEF PauseTurn, Stopped, LocalTurnInv, ChatInv
    <3>3. ~CancelTurn
      BY <2>1, <3>1 DEF CancelTurn, MissionType, Terminal
    <3> QED BY <2>1, <3>1, <3>2, <3>3
  <2> QED BY <2>2, <2>3, <2>4, <2>5
<1>4. /\ events' \in EventsType /\ EventsInOrder'
      /\ \A i \in Instructions :
           \/ events'.at[i] = events.at[i] /\ (i \in events'.visible <=> i \in events.visible)
           \/ i \in events'.visible /\ events'.at[i] > ck.cursor
  <2>1. events \in EventsType /\ EventsInOrder /\ ck.cursor \in Nat
    BY DEF LocalTurnInv, ChatInv, Shapes, CheckpointType
  <2>2. CASE events' = events
    BY <1>1, <2>1, <2>2 DEF EventsInOrder
  <2>3. ASSUME NEW i \in Instructions, Steer(i)
        PROVE  /\ events' \in EventsType /\ EventsInOrder'
               /\ \A j \in Instructions :
                    \/ events'.at[j] = events.at[j] /\ (j \in events'.visible <=> j \in events.visible)
                    \/ j \in events'.visible /\ events'.at[j] > ck.cursor
    <3> DEFINE at == [events.at EXCEPT ![i] = events.next]
    <3>1. events.next \in Nat /\ events.top \in Nat /\ events.at \in [Instructions -> Nat]
      BY <2>1 DEF EventsType
    <3>2. /\ at \in [Instructions -> Nat] /\ at[i] = events.next
          /\ \A j \in Instructions : j # i => at[j] = events.at[j]
      BY <3>1
    <3>3. events' = [events EXCEPT !.at = at, !.next = events.next + 1, !.top = events.next,
                                   !.visible = @ \cup {i}]
      BY <2>3 DEF Steer
    <3> HIDE DEF at
    <3>4. events.next + 1 \in Nat
      BY <3>1
    <3>5. /\ events' \in EventsType /\ events'.at = at /\ events'.next = events.next + 1
          /\ events'.top = events.next /\ events'.visible = events.visible \cup {i}
      BY <2>1, <3>1, <3>2, <3>3, <3>4 DEF EventsType
    <3>6. EventsInOrder'
      BY <1>1, <2>1, <3>1, <3>2, <3>5 DEF EventsInOrder
    <3> QED BY <2>1, <3>1, <3>2, <3>5, <3>6 DEF EventsInOrder
  <2> QED BY <2>2, <2>3 DEF PauseTurn, CancelTurn, ResumeTurn
<1>5. ChatInv'
  <2>1. lease' \in LeaseType /\ \A v \in Workers : CanWrite(v)' => CanWrite(v)
    BY <1>1, LocalRights DEF LocalTurnInv, ChatInv, Shapes
  <2> QED BY <1>1, <1>2, <1>3, <1>4, <2>1, ControlStep DEF LocalTurnInv
<1>6. ReadInOrder'
  <2> SUFFICES ASSUME NEW i \in Instructions
               PROVE  /\ events'.at[i] # 0 => i \in events'.visible
                      /\ i \in events'.visible /\ events'.at[i] <= ck.cursor => i \in ck.seen
    BY <1>1 DEF ReadInOrder
  <2>1. events'.at[i] \in Nat /\ ck.cursor \in Nat
    BY <1>1, <1>4 DEF EventsType, LocalTurnInv, ChatInv, Shapes, CheckpointType
  <2> QED BY <1>4, <2>1 DEF LocalTurnInv, ReadInOrder
<1>7. NoStaleDraft'
  <2>1. mission'.state = "COMPLETED" => mission.state = "COMPLETED"
    BY <1>3
  <2>2. mission'.state = "COMPLETED" => events' = events
    BY <1>3, <2>1 DEF PauseTurn, CancelTurn, ResumeTurn, Steer, Terminal
  <2> QED BY <1>1, <2>1, <2>2 DEF LocalTurnInv, NoStaleDraft
<1>8. Attended'
  BY <1>2, <1>3 DEF LocalTurnInv, Attended, ResumeTurn, Steer
<1> QED BY <1>5, <1>6, <1>7, <1>8 DEF LocalTurnInv

LEMMA LocalStep ==
  ASSUME OneProcess, LocalTurnInv, [LocalNext]_localVars
  PROVE  LocalTurnInv'
<1>1. ASSUME NEW w \in Workers, Abort(w), resuming' = resuming PROVE LocalTurnInv'
  <2>1. /\ ChatInv' /\ run'[w].pc = run[w].pc
        /\ \A v \in Workers : v # w => run'[v] = run[v]
    BY <1>1, AbortKeeps DEF LocalTurnInv, Moved
  <2>2. mission' = mission /\ ck' = ck /\ events' = events
    BY <1>1 DEF Abort
  <2>3. \A v \in Workers : run'[v].pc = run[v].pc
    BY <2>1
  <2> QED BY <1>1, <2>1, <2>2, <2>3 DEF LocalTurnInv, ReadInOrder, NoStaleDraft, Attended
<1>2. CASE UNCHANGED localVars
  <2>1. UNCHANGED <<mission, ck, events, ws, run, lease, resuming>>
    BY <1>2 DEF localVars, chatVars
  <2>2. run' \in [Workers -> WorkerType] /\ lease' \in LeaseType /\ events' \in EventsType
        /\ mission' \in MissionType /\ EventsInOrder'
    BY <2>1 DEF LocalTurnInv, ChatInv, Shapes, EventsInOrder
  <2>3. ChatInv'
    BY <2>1, <2>2, ControlStep DEF LocalTurnInv, ChatInv, CanWrite
  <2> QED BY <2>1, <2>3 DEF LocalTurnInv, ReadInOrder, NoStaleDraft, Attended
<1> QED
  BY <1>1, <1>2, LocalWorkerKeeps, LocalRunKeeps, LocalControlKeeps DEF LocalNext

\* The local turn keeps its invariant.
THEOREM LocalInvariant ==
  ASSUME OneProcess
  PROVE  LocalSpec => []LocalTurnInv
BY LocalStarts, LocalStep, PTL DEF LocalSpec

\* A turn is never completed on a draft older than an accepted instruction: SQLite
\* shows an instruction before the next section begins.
THEOREM LocalDraftsFresh ==
  ASSUME OneProcess
  PROVE  LocalSpec => []NoStaleDraft
<1>1. LocalTurnInv => NoStaleDraft
  BY DEF LocalTurnInv
<1> QED BY <1>1, LocalInvariant, PTL

\* A turn that is neither finished nor paused has a worker or a resume that waits,
\* whatever was aborted or crashed before.
THEOREM LocalAttended ==
  ASSUME OneProcess
  PROVE  LocalSpec => []NoStrandedTurn
<1>1. LocalTurnInv => NoStrandedTurn
  BY ChatInvSound DEF LocalTurnInv, Attended, NoStrandedTurn, EffectsAccounted
<1> QED BY <1>1, LocalInvariant, PTL

\* The accounts of calls and effects hold in the local deployment, too.
THEOREM LocalEffectsAccounted ==
  ASSUME OneProcess
  PROVE  LocalSpec => [](EffectsAccounted /\ RecordedChangesChecked)
<1>1. LocalTurnInv => EffectsAccounted /\ RecordedChangesChecked
  BY ChatInvSound DEF LocalTurnInv
<1> QED BY <1>1, LocalInvariant, PTL
=============================================================================
