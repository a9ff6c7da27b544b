----------------------------- MODULE LocalChat -----------------------------
(***************************************************************************)
(* The local deployment of a turn: one process (src/chat/main.ts) whose    *)
(* ChatEngine schedules the runs itself and whose sections are ordered by  *)
(* #mutationQueue but are no database transactions: a crash may cut one    *)
(* short.                                                                  *)
(***************************************************************************)
EXTENDS ChatAgent

CONSTANT MaxRestarts   \* bound: times the process is restarted

VARIABLES
  resuming,   \* a resume is committed and waits for the interrupted worker
  restarts

localVars == <<chatVars, resuming, restarts>>

\* submit has scheduled the turn.
LocalInit ==
  /\ ChatInit("start")
  /\ resuming = FALSE /\ restarts = 0

-----------------------------------------------------------------------------

\* #schedule: the turn is in #active from here to the end of the run.
Scheduled(w) == [run EXCEPT ![w] = [Idle EXCEPT !.pc = "start"]]

\* Fault: the entry stays in #active.
SettleForgets(w) ==
  /\ run[w].pc = "end"
  /\ UNCHANGED localVars

\* The finally handler of #schedule.
Settle(w) ==
  /\ run[w].pc = "end"
  /\ run' = [run EXCEPT ![w] = Idle]
  /\ UNCHANGED <<mission, ck, events, ws, lease, resuming, restarts>>

\* The controller of the active run, if there is one, is aborted.
AbortActive == run' = [w \in Workers |-> [run[w] EXCEPT !.aborted = @ \/ run[w].pc \notin {"idle", "end"}]]

\* control pause and cancel.
PauseTurn ==
  /\ mission.state \notin Stopped
  /\ mission' = Paused(mission)
  /\ AbortActive
  /\ UNCHANGED <<ck, events, ws, lease, resuming, restarts>>

CancelTurn ==
  /\ mission.state \notin Terminal
  /\ mission' = [mission EXCEPT !.state = "CANCELLED", !.resume = "NONE"]
  /\ AbortActive
  /\ UNCHANGED <<ck, events, ws, lease, resuming, restarts>>

\* control resume: the section, then the wait for #active's promise.
ResumeTurn ==
  /\ mission.state = "PAUSED" /\ ~resuming
  /\ mission' = [mission EXCEPT !.state = mission.resume, !.resume = "NONE"]
  /\ resuming' = TRUE
  /\ UNCHANGED <<ck, events, ws, run, lease, restarts>>

ResumeSchedules(w) ==
  /\ resuming /\ run[w].pc = "idle"
  /\ resuming' = FALSE
  /\ run' = Scheduled(w)
  /\ UNCHANGED <<mission, ck, events, ws, lease, restarts>>

\* steer: SQLite makes the event readable at once.
Steer(i) ==
  /\ events.at[i] = 0 /\ mission.state \notin Terminal
  /\ events' = [events EXCEPT !.at[i] = events.next, !.next = @ + 1,
                              !.top = events.next, !.visible = @ \cup {i}]
  /\ UNCHANGED <<mission, ck, ws, run, lease, resuming, restarts>>

\* The states in which a crash may leave the mission: those a section passes through.
CutShort(w) ==
  {mission.state} \cup
  (IF run[w].pc = "begin" /\ mission.state = "CREATED" THEN StartStates \cup {"EXECUTING"} ELSE {})
  \cup (IF run[w].pc = "commit" /\ mission.state = "EXECUTING" THEN CommitStates ELSE {})

\* Fault: the start of the process leaves the turns as the crash left them.
RestartLeavesTurns(w) ==
  /\ restarts < MaxRestarts
  /\ restarts' = restarts + 1
  /\ run' = [run EXCEPT ![w] = Idle]
  /\ resuming' = FALSE
  /\ UNCHANGED <<mission, ck, events, ws, lease>>

\* The process dies and starts again; initialize pauses what was not stopped.
Restart(w) ==
  /\ restarts < MaxRestarts
  /\ restarts' = restarts + 1
  /\ \E s \in CutShort(w) :
       mission' = IF s \in Stopped THEN mission ELSE Paused([mission EXCEPT !.state = s])
  /\ run' = [run EXCEPT ![w] = Idle]
  /\ resuming' = FALSE
  /\ UNCHANGED <<ck, events, ws, lease>>

LocalNext ==
  \/ \E w \in Workers :
       \/ (WorkerStep(w) \/ Abort(w)) /\ UNCHANGED <<resuming, restarts>>
       \/ Settle(w) \/ ResumeSchedules(w) \/ Restart(w)
  \/ PauseTurn \/ CancelTurn \/ ResumeTurn
  \/ \E i \in Instructions : Steer(i)

\* The event loop runs every continuation, and the provider and tool timeouts bound the
\* calls that leave the process; users need not act.
LocalSpec ==
  /\ LocalInit /\ [][LocalNext]_localVars
  /\ \A w \in Workers :
       /\ WF_localVars(WorkerStep(w) /\ UNCHANGED <<resuming, restarts>>)
       /\ WF_localVars(Settle(w))
       /\ WF_localVars(ResumeSchedules(w))

-----------------------------------------------------------------------------
(* Properties *)

\* No turn is stranded: one that is neither finished nor paused has a worker, or a
\* resume that is about to schedule one, whatever crashed or was aborted before.
\* (The turn, its checkpoint and its workers keep their types.)
NoStrandedTurn ==
  /\ ChatTypeOK
  /\ mission.state \notin Stopped =>
       resuming \/ \E w \in Workers : run[w].pc \notin {"idle", "end"}

\* A resume that waits for the interrupted worker gets its turn: the wait is outside
\* the mutation lock that the worker's last section needs.
ResumeReturns == resuming ~> ~resuming
=============================================================================
