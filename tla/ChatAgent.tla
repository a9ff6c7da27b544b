----------------------------- MODULE ChatAgent -----------------------------
(***************************************************************************)
(* One chat turn and the workers that execute it: ChatEngine.#run of       *)
(* src/chat/engine.ts around the loop of runChatAgent in src/chat/agent.ts.*)
(* HostedChat and LocalChat add what starts, stops and interrupts workers. *)
(*                                                                         *)
(* An action is one database transaction, or one call that leaves the      *)
(* process (the model, a tool, the quality command).  Texts, token counts  *)
(* and tool results are abstracted; tool calls and steering instructions   *)
(* keep their identity.                                                    *)
(***************************************************************************)
EXTENDS Naturals, FiniteSetsExt

CONSTANTS
  Hosted,         \* TRUE: Postgres, leases and fencing; FALSE: one process over SQLite
  Workers,        \* invocations that may execute the turn
  Instructions,   \* steering instructions the user sends
  MaxCalls,       \* policy.calls
  MaxTools,       \* policy.tools
  MaxAttempts,    \* budgetLimits.attempts of the mission
  MaxBatch,       \* bound: tool calls of one response (8 in the code)
  Review          \* policy.review

ASSUME ChatAssumption ==
  /\ Hosted \in BOOLEAN /\ Review \in BOOLEAN
  /\ {MaxCalls, MaxTools, MaxAttempts, MaxBatch} \subseteq Nat

VARIABLES
  mission,   \* [state, resume, spent]: the turn's mission, spent = budgetUsage.attempts
  ck,        \* the AgentCheckpoint saved last, and the token of the run that saved it (by)
  events,    \* the conversation's event stream: next cursor, highest cursor that can
             \* be read, and for each instruction its cursor (0: none) and visibility
  ws,        \* the workspace: how often each tool call took effect, and the effects
             \* no passing quality check has covered
  run,       \* the memory of each worker
  lease      \* the row run:<turn> of odin_api.leases; token 0: no row

chatVars == <<mission, ck, events, ws, run, lease>>

Terminal == {"COMPLETED", "CANCELLED", "FAILED", "BLOCKED"}
Stopped  == Terminal \cup {"PAUSED"}
StartStates  == {"UNDERSTANDING", "RETRIEVING", "PLANNING", "RISK_CHECK"}
CommitStates == {"OBSERVING", "VERIFYING", "CHECKPOINTING", "FINAL_AUDIT"}
Active == {"CREATED", "EXECUTING"} \cup StartStates \cup CommitStates

\* A tool call is known by the model call that proposed it and its place in the batch.
CallIds == 1 .. MaxCalls * MaxBatch
CallId(call, place) == (call - 1) * MaxBatch + place

External == {"model", "exec", "check"}
InAgent  == External \cup {"enter", "steer", "reserve", "count", "recheck", "refuse", "tool",
                           "toolcount", "result", "quality", "qcount", "late"}
Working  == InAgent \cup {"begin", "commit"}

Idle == [pc |-> "idle", token |-> 0, uncertain |-> FALSE, aborted |-> FALSE,
         reviewing |-> FALSE, tool |-> 0, ok |-> FALSE]

\* submit has created the mission, the turn and its first event; the workers are at pc.
ChatInit(pc) ==
  /\ mission = [state |-> "CREATED", resume |-> "NONE", spent |-> 0]
  /\ ck = [calls |-> 0, tools |-> 0, pending |-> {}, changes |-> {}, reviewed |-> FALSE,
           cursor |-> 0, seen |-> {}, by |-> 0]
  /\ events = [next |-> 2, top |-> 1, at |-> [i \in Instructions |-> 0], visible |-> {}]
  /\ ws = [applied |-> [c \in CallIds |-> 0], unchecked |-> {}]
  /\ run = [w \in Workers |-> [Idle EXCEPT !.pc = pc]]
  /\ lease = [token |-> 0, live |-> FALSE]

-----------------------------------------------------------------------------
(* The database *)

\* Fault: only the expiry is checked, not the token.
CanWriteAnyToken(w) == Hosted => lease.live

\* The fence of NeonActorDatabase.transaction; SQLite has none.
CanWrite(w) == Hosted => lease.live /\ lease.token = run[w].token

\* #atomic sections of one conversation exclude each other: the advisory lock in
\* hosted mode, #mutationQueue locally.  Only steer keeps its section open for
\* longer than a step of this model.
SectionFree == \A i \in Instructions : events.at[i] # 0 => i \in events.visible

\* emit: the cursor is an identity column, taken at INSERT.  Cursors are only compared
\* with those of instructions, so an event is counted when a steer transaction is open,
\* the one time it can overtake an instruction.
Emit(ev) == IF SectionFree THEN ev ELSE [ev EXCEPT !.next = ev.next + 1, !.top = ev.next]

\* store.events(conversation, ck.cursor): the steering instructions among them.
NewSteering == {i \in events.visible : events.at[i] > ck.cursor}

\* save.
Save(w, new) == ck' = [new EXCEPT !.by = run[w].token]

Goto(w, pc) == run' = [run EXCEPT ![w].pc = pc]

\* The worker leaves runChatAgent; what it kept in memory is no longer used.
Leave(w, pc) ==
  run' = [run EXCEPT ![w] = [Idle EXCEPT !.pc = pc, !.token = run[w].token,
                                         !.aborted = run[w].aborted /\ pc = "catch"]]

\* A step of worker w at pc that the database accepts.
At(w, pc) == run[w].pc = pc /\ CanWrite(w)

-----------------------------------------------------------------------------
(* Starting *)

\* #schedule: the turn is loaded before the run starts.
Schedule(w) ==
  /\ At(w, "start")
  /\ Goto(w, IF mission.state \in Stopped THEN "end" ELSE "begin")
  /\ UNCHANGED <<mission, ck, events, ws, lease>>

\* Fault: the section ends before the last transition.
BeginStopsEarly(w) ==
  /\ At(w, "begin") /\ SectionFree
  /\ mission' = IF mission.state = "CREATED" THEN [mission EXCEPT !.state = "RISK_CHECK"]
                ELSE mission
  /\ run' = [run EXCEPT ![w].pc = "enter", ![w].uncertain = FALSE]
  /\ events' = Emit(events)
  /\ UNCHANGED <<ck, ws, lease>>

\* The first section of #run.
Begin(w) ==
  /\ At(w, "begin") /\ SectionFree
  /\ mission' = IF mission.state = "CREATED" THEN [mission EXCEPT !.state = "EXECUTING"]
                ELSE mission
  /\ run' = [run EXCEPT ![w].pc = "enter", ![w].uncertain = FALSE]
  /\ events' = Emit(events)
  /\ UNCHANGED <<ck, ws, lease>>

\* Fault: a call without a result is executed again.
MarkUnknownReplays(w) ==
  /\ At(w, "enter") /\ ck.pending # {}
  /\ run' = [run EXCEPT ![w].pc = "tool"]
  /\ UNCHANGED <<mission, ck, events, ws, lease>>

\* runChatAgent: a proposed call without a result is never replayed.
MarkUnknown(w) ==
  /\ At(w, "enter") /\ ck.pending # {}
  /\ Save(w, [ck EXCEPT !.pending = @ \ {Min(ck.pending)}])
  /\ run' = [run EXCEPT ![w].uncertain = TRUE]
  /\ UNCHANGED <<mission, events, ws, lease>>

Enter(w) ==
  /\ At(w, "enter") /\ ck.pending = {}
  /\ Save(w, ck)
  /\ events' = Emit(events)
  /\ Goto(w, "steer")
  /\ UNCHANGED <<mission, ws, lease>>

-----------------------------------------------------------------------------
(* The loop of runChatAgent *)

\* Reading the instructions: the new ones join the messages, and the cursor moves
\* to the last event read.
Absorb ==
  [ck EXCEPT !.seen = @ \cup NewSteering,
             !.reviewed = @ /\ NewSteering = {},
             !.cursor = events.top]

TakeSteering(w) ==
  /\ At(w, "steer") /\ ~run[w].aborted
  /\ ck.calls < MaxCalls
  /\ Save(w, Absorb)
  /\ run' = [run EXCEPT ![w].pc = "reserve", ![w].reviewing = FALSE]
  /\ UNCHANGED <<mission, events, ws, lease>>

\* Fault: the debit is left for later.
DebitNothing(w) ==
  /\ SectionFree /\ ~run[w].aborted
  /\ mission.state = "EXECUTING"
  /\ UNCHANGED mission

\* reserve: one section of the engine.
Debit(w) ==
  /\ SectionFree /\ ~run[w].aborted
  /\ mission.state = "EXECUTING" /\ mission.spent < MaxAttempts
  /\ mission' = [mission EXCEPT !.spent = @ + 1]

\* call: budget, then count, then the provider.
ReserveCall(w) ==
  /\ At(w, "reserve") /\ ck.calls < MaxCalls
  /\ Debit(w)
  /\ Goto(w, "count")
  /\ UNCHANGED <<ck, events, ws, lease>>

CountCall(w) ==
  /\ At(w, "count")
  /\ Save(w, [ck EXCEPT !.calls = @ + 1])
  /\ events' = Emit(events)
  /\ Goto(w, "model")
  /\ UNCHANGED <<mission, ws, lease>>

\* The reviewer's answer only makes the draft reviewed.
RespondReview(w) ==
  /\ At(w, "model") /\ run[w].reviewing /\ ~run[w].aborted
  /\ Save(w, [ck EXCEPT !.reviewed = TRUE])
  /\ events' = Emit(events)
  /\ Goto(w, "steer")
  /\ UNCHANGED <<mission, ws, lease>>

\* The assistant's message is saved with the tool calls it proposes.
Respond(w) ==
  /\ At(w, "model") /\ ~run[w].reviewing /\ ~run[w].aborted
  /\ \E k \in 0 .. MaxBatch :
       Save(w, [ck EXCEPT !.pending = {CallId(ck.calls, j) : j \in 1 .. k}])
  /\ events' = Emit(events)
  /\ Goto(w, "recheck")
  /\ UNCHANGED <<mission, ws, lease>>

\* Fault: only the calls of unknown outcome are checked.
NeedsQualityNow(w) == run[w].uncertain

\* Recorded changes and effects of unknown outcome call for the quality commands.
NeedsQuality(w) == ck.changes # {} \/ run[w].uncertain

\* After the response: newer steering, tool calls, the review, or the delivery checks.
Recheck(w) ==
  /\ At(w, "recheck")
  /\ \/ /\ NewSteering # {}
        /\ Goto(w, "refuse")
     \/ /\ NewSteering = {} /\ ck.pending # {}
        /\ Goto(w, "tool")
     \/ /\ NewSteering = {} /\ ck.pending = {} /\ Review /\ ~ck.reviewed
        /\ run' = [run EXCEPT ![w].pc = "reserve", ![w].reviewing = TRUE]
     \/ /\ NewSteering = {} /\ ck.pending = {} /\ (Review => ck.reviewed)
        /\ \E citationsHold \in BOOLEAN :
             run' = [run EXCEPT ![w].pc = IF NeedsQuality(w) THEN "quality" ELSE "late",
                                ![w].ok = citationsHold]
  /\ UNCHANGED <<mission, ck, events, ws, lease>>

\* Proposals overtaken by an instruction are answered "Not executed", one by one.
Refuse(w) ==
  /\ At(w, "refuse")
  /\ IF ck.pending = {} THEN ck' = ck /\ Goto(w, "steer")
     ELSE Save(w, [ck EXCEPT !.pending = @ \ {Min(ck.pending)}]) /\ UNCHANGED run
  /\ UNCHANGED <<mission, events, ws, lease>>

ReserveTool(w) ==
  /\ At(w, "tool") /\ ck.tools < MaxTools
  /\ Debit(w)
  /\ Goto(w, "toolcount")
  /\ UNCHANGED <<ck, events, ws, lease>>

CountTool(w) ==
  /\ At(w, "toolcount")
  /\ Save(w, [ck EXCEPT !.tools = @ + 1])
  /\ events' = Emit(events)
  /\ run' = [run EXCEPT ![w].pc = "exec", ![w].tool = Min(ck.pending)]
  /\ UNCHANGED <<mission, ws, lease>>

\* runtime.execute: outside the database, hence not fenced.
Execute(w) ==
  /\ run[w].pc = "exec" /\ ~run[w].aborted
  /\ \E succeeds \in BOOLEAN :
       /\ run' = [run EXCEPT ![w].pc = "result", ![w].ok = succeeds]
       /\ ws' = IF succeeds
                THEN [ws EXCEPT !.applied[run[w].tool] = @ + 1, !.unchecked = @ \cup {run[w].tool}]
                ELSE ws
  /\ UNCHANGED <<mission, ck, events, lease>>

\* The result message and the list of changes are saved together.
SaveResult(w) ==
  /\ At(w, "result") /\ ~run[w].aborted
  /\ LET pending == ck.pending \ {run[w].tool} IN
       /\ Save(w, [ck EXCEPT !.pending = pending,
                             !.changes = IF run[w].ok THEN @ \cup {run[w].tool} ELSE @])
       /\ run' = [run EXCEPT ![w].pc = IF pending = {} THEN "steer" ELSE "tool",
                              ![w].tool = 0, ![w].ok = FALSE]
  /\ events' = Emit(events)
  /\ UNCHANGED <<mission, ws, lease>>

-----------------------------------------------------------------------------
(* Delivery *)

\* The registered quality commands; without any the check fails.
ReserveQuality(w) ==
  /\ At(w, "quality")
  /\ \/ /\ ck.tools < MaxTools
        /\ Debit(w)
        /\ Goto(w, "qcount")
     \/ /\ run' = [run EXCEPT ![w].pc = "late", ![w].ok = FALSE]
        /\ UNCHANGED mission
  /\ UNCHANGED <<ck, events, ws, lease>>

CountQuality(w) ==
  /\ At(w, "qcount")
  /\ Save(w, [ck EXCEPT !.tools = @ + 1])
  /\ Goto(w, "check")
  /\ UNCHANGED <<mission, events, ws, lease>>

CheckQuality(w) ==
  /\ run[w].pc = "check"
  /\ \E passed \in IF run[w].aborted THEN {FALSE} ELSE BOOLEAN :
       /\ run' = [run EXCEPT ![w].pc = "late", ![w].ok = @ /\ passed]
       /\ ws' = IF passed THEN [ws EXCEPT !.unchecked = {}] ELSE ws
  /\ UNCHANGED <<mission, ck, events, lease>>

\* "Recheck the durable event stream before completion."
LateSteering(w) ==
  /\ At(w, "late")
  /\ events' = Emit(events)
  /\ Save(w, [Absorb EXCEPT !.cursor = events'.top])
  /\ run' = [run EXCEPT ![w].pc = IF NewSteering # {} THEN "steer" ELSE "commit",
                        ![w].ok = @ /\ NewSteering = {}]
  /\ UNCHANGED <<mission, ws, lease>>

\* Fault: the last section trusts the agent's own recheck.
CommitWithoutRecheck(w) ==
  /\ At(w, "commit") /\ SectionFree /\ ~run[w].aborted
  /\ mission.state = "EXECUTING"
  /\ mission' = [mission EXCEPT !.state = IF run[w].ok THEN "COMPLETED" ELSE "BLOCKED"]
  /\ Leave(w, "end")
  /\ events' = Emit(events)
  /\ UNCHANGED <<ck, ws, lease>>

\* The last section of #run: late instructions send the agent back to work.
Commit(w) ==
  /\ At(w, "commit") /\ SectionFree /\ ~run[w].aborted
  /\ \/ /\ NewSteering # {}
        /\ run' = [run EXCEPT ![w].pc = "enter", ![w].uncertain = FALSE]
        /\ UNCHANGED <<mission, events>>
     \/ /\ NewSteering = {} /\ mission.state = "EXECUTING"
        /\ mission' = [mission EXCEPT !.state = IF run[w].ok THEN "COMPLETED" ELSE "BLOCKED"]
        /\ events' = Emit(events)
        /\ Leave(w, "end")
  /\ UNCHANGED <<ck, ws, lease>>

-----------------------------------------------------------------------------
(* Stopping *)

\* Whatever is thrown inside #run: an abort, an exhausted budget, a state that is no
\* longer EXECUTING, a provider or tool error, three equal failures in a row.
Fail(w) ==
  /\ run[w].pc \in Working
  /\ Leave(w, "catch")
  /\ UNCHANGED <<mission, ck, events, ws, lease>>

\* The time limit of the turn, or the caller's signal.
Abort(w) ==
  /\ run[w].pc \in Working /\ ~run[w].aborted
  /\ run' = [run EXCEPT ![w].aborted = TRUE]
  /\ UNCHANGED <<mission, ck, events, ws, lease>>

\* Pausing remembers where to resume.
Paused(m) == [m EXCEPT !.state = "PAUSED", !.resume = m.state]

\* The catch block of #run.
Catch(w) ==
  /\ At(w, "catch") /\ SectionFree
  /\ mission' = IF mission.state \in Stopped THEN mission
                ELSE IF run[w].aborted THEN Paused(mission)
                ELSE [mission EXCEPT !.state = "BLOCKED"]
  /\ events' = IF mission.state \in Stopped THEN events ELSE Emit(events)
  /\ Leave(w, "end")
  /\ UNCHANGED <<ck, ws, lease>>

\* Every transaction of a worker that lost its lease throws, the one in catch too.
FencedOut(w) ==
  /\ run[w].pc \in (Working \ External) \cup {"start", "catch"}
  /\ ~CanWrite(w)
  /\ Leave(w, "end")
  /\ UNCHANGED <<mission, ck, events, ws, lease>>

WorkerStep(w) ==
  \/ Schedule(w) \/ Begin(w) \/ MarkUnknown(w) \/ Enter(w)
  \/ TakeSteering(w) \/ ReserveCall(w) \/ CountCall(w) \/ RespondReview(w) \/ Respond(w)
  \/ Recheck(w) \/ Refuse(w) \/ ReserveTool(w) \/ CountTool(w) \/ Execute(w) \/ SaveResult(w)
  \/ ReserveQuality(w) \/ CountQuality(w) \/ CheckQuality(w) \/ LateSteering(w) \/ Commit(w)
  \/ Fail(w) \/ Catch(w)

-----------------------------------------------------------------------------
(* Properties of the turn, whoever runs it *)

MissionType == [state : Active \cup Stopped, resume : Active \cup {"NONE"}, spent : 0 .. MaxAttempts]

\* Type invariant of the turn, its checkpoint, its events and its workers.
ChatTypeOK ==
  /\ mission \in MissionType
  /\ ck.calls \in 0 .. MaxCalls /\ ck.tools \in 0 .. MaxTools
  /\ ck.pending \subseteq CallIds /\ ck.changes \subseteq CallIds
  /\ ck.seen \subseteq Instructions /\ ck.cursor \in 0 .. events.next
  /\ events.top \in 1 .. events.next - 1 /\ events.visible \subseteq Instructions
  /\ ws.applied \in [CallIds -> Nat] /\ ws.unchecked \subseteq CallIds
  /\ \A w \in Workers : run[w].pc \in Working \cup {"idle", "start", "catch", "end"}

\* The parts of EffectsAccounted below.
EffectOnce == \A c \in CallIds : ws.applied[c] <= 1

DebitedFirst == ck.calls + ck.tools <= mission.spent

\* No tool call takes effect twice, however often workers die, lose the lease or are
\* resumed ("This call was not replayed"), and every model call and every tool call that
\* was counted had been debited from the mission's budget first, across crashes between
\* the two.  (The turn, its checkpoint and its workers keep their types.)
EffectsAccounted == ChatTypeOK /\ EffectOnce /\ DebitedFirst

\* A completed turn has passed a quality check on every change its checkpoint records.
RecordedChangesChecked == mission.state = "COMPLETED" => ck.changes \cap ws.unchecked = {}

\* A turn is never completed on a draft older than an instruction the user was told
\* had been accepted.
NoStaleDraft == mission.state = "COMPLETED" => events.visible \subseteq ck.seen

\* For changes, completion needs a passing quality check on the final revision of the
\* workspace (the definition of done of the delivery claim).
DeliveryChecked == mission.state = "COMPLETED" => ws.unchecked = {}

\* The agent works on a mission that is EXECUTING unless a control or another run has
\* stopped it: a resumed turn can go on.
WorksOnExecuting ==
  \A w \in Workers :
    run[w].pc \in InAgent /\ CanWrite(w) => mission.state \in Stopped \cup {"EXECUTING"}
=============================================================================
