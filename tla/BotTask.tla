------------------------------- MODULE BotTask -------------------------------
(***************************************************************************)
(* One task of Odin Bot (src/bot/store.ts) and the workers that run it     *)
(* (runTask and runBatch of src/bot/executor.ts): gates, team, the linked  *)
(* chat turn, review, delivery by pull request, and the retry of the       *)
(* wake-up.  Every transaction is a step, a worker may die or a call may   *)
(* throw between any two of them, its lease may lapse while it goes on,    *)
(* and the user may cancel.  What the account, the chat engine and the     *)
(* models answer is a choice.                                              *)
(***************************************************************************)
EXTENDS Integers, FiniteSets

CONSTANTS TaskWorkers,
          MaxTaskClaims,     \* bound: claims of the wake-up
          TaskAttempts,      \* attempts after which a failure is permanent (5 in runBatch)
          TaskTeams,         \* the teams that the goals of this instance get, a subset of Teams
          NoTask

\* planBotTeam: a team has a primary, and preflight specialists or a reviewer if it is large enough.
Teams == [preflight : BOOLEAN, review : BOOLEAN]

ASSUME BotTaskAssumption == /\ MaxTaskClaims \in Nat /\ TaskAttempts \in Nat \ {0} /\ TaskTeams \subseteq Teams
                            /\ NoTask \notin 1 .. MaxTaskClaims

VARIABLES
  botTask,     \* row of bot_tasks: status, turn, the work branch of its checkpoint, whether it may ask to write;
               \* ghosts: a checkpoint has named a branch (kept), and how the task was reported done (doneBy)
  botWake,     \* its row of bot_wakeups: lease token, whether the lease has lapsed, attempts
  botWorker,   \* the workers: where, lease token, attempt, the turn and the plan they work with
  turns,       \* per turn (named after the claim that made it) the state of its mission
  claims,      \* lease tokens drawn
  cancelling,  \* a cancel request that has read the task and not written it yet
  outlived     \* ghost: some worker has gone on after its wake-up went to another one or was gone

botTaskVars == <<botTask, botWake, botWorker, turns, claims, cancelling, outlived>>

Finished == {"done", "cancelled", "failed", "blocked"}
TurnStates == {"COMPLETED", "BLOCKED", "FAILED", "PAUSED"}

WorkerIdle == [at |-> "idle", token |-> 0, attempt |-> 0, turn |-> NoTask, branch |-> "none", writes |-> FALSE,
               reviewed |-> FALSE, delivered |-> FALSE]

\* createTask: the row, its queued event and its wake-up in one transaction.
BotTaskInit ==
  /\ \E team \in TaskTeams, writes \in BOOLEAN :
       botTask = [status |-> "queued", turn |-> NoTask, branch |-> "none", kept |-> FALSE,
                  team |-> team, writes |-> writes, doneBy |-> NoTask]
  /\ botWake = [present |-> TRUE, token |-> 0, lapsed |-> FALSE, attempts |-> 0]
  /\ botWorker = [w \in TaskWorkers |-> WorkerIdle]
  /\ turns = [n \in 1 .. MaxTaskClaims |-> "NONE"]
  /\ claims = 0 /\ cancelling = FALSE /\ outlived = FALSE

Holds(w) == botWake.present /\ botWake.token = botWorker[w].token

\* Worker w takes its next step with the record r; a step after the lease went to somebody else is noted.
Steps(w, r) ==
  /\ botWorker' = [botWorker EXCEPT ![w] = r]
  /\ outlived' = (outlived \/ ~Holds(w))

Goes(w, at) == Steps(w, [botWorker[w] EXCEPT !.at = at])

\* The run of the task is over for w, only the wake-up is left to settle.
Leaves(w, at) == Steps(w, [WorkerIdle EXCEPT !.at = at, !.token = botWorker[w].token, !.attempt = botWorker[w].attempt])

\* updateTask: whatever the status was.
UpdateTask(status) == botTask' = [botTask EXCEPT !.status = status]

-----------------------------------------------------------------------------
(* The wake-up queue *)

ClaimTask(w) ==
  /\ botWorker[w].at = "idle" /\ claims < MaxTaskClaims
  /\ botWake.present /\ (botWake.token = 0 \/ botWake.lapsed)
  /\ claims' = claims + 1
  /\ botWake' = [botWake EXCEPT !.token = claims', !.lapsed = FALSE, !.attempts = @ + 1]
  /\ botWorker' = [botWorker EXCEPT ![w] = [WorkerIdle EXCEPT !.at = "claimed", !.token = claims', !.attempt = botWake.attempts + 1]]
  /\ UNCHANGED <<botTask, turns, cancelling, outlived>>

LeaseRunsOut ==
  /\ botWake.present /\ botWake.token # 0 /\ ~botWake.lapsed
  /\ botWake' = [botWake EXCEPT !.lapsed = TRUE]
  /\ UNCHANGED <<botTask, botWorker, turns, claims, cancelling, outlived>>

\* ack deletes the row, if the token is still the worker's; an answer that is lost is an error of the task.
AckTask(w, answered) ==
  /\ botWorker[w].at = "ack"
  /\ botWake' = IF Holds(w) THEN [botWake EXCEPT !.present = FALSE] ELSE botWake
  /\ botWorker' = [botWorker EXCEPT ![w] = IF answered THEN WorkerIdle ELSE [@ EXCEPT !.at = "error"]]
  /\ UNCHANGED <<botTask, turns, claims, cancelling, outlived>>

\* retry frees the row; after BOT_RESUME_REQUIRED a second statement resets the attempts of a free row.
RetryTask(w) ==
  /\ botWorker[w].at \in {"retry", "resume"}
  /\ botWake' = IF Holds(w) THEN [botWake EXCEPT !.token = 0, !.lapsed = FALSE] ELSE botWake
  /\ botWorker' = [botWorker EXCEPT ![w] = IF botWorker[w].at = "resume" THEN [@ EXCEPT !.at = "reset"] ELSE WorkerIdle]
  /\ UNCHANGED <<botTask, turns, claims, cancelling, outlived>>

ResetAttempts(w) ==
  /\ botWorker[w].at = "reset"
  /\ botWake' = IF botWake.present /\ botWake.token = 0 THEN [botWake EXCEPT !.attempts = 0] ELSE botWake
  /\ botWorker' = [botWorker EXCEPT ![w] = WorkerIdle]
  /\ UNCHANGED <<botTask, turns, claims, cancelling, outlived>>

-----------------------------------------------------------------------------
(* runTask *)

\* Fault: what the checkpoint knows of the work branch is not read again.
ForgetsBranch(w, entitled, mayWrite) ==
  /\ botWorker[w].at = "claimed"
  /\ Steps(w, [botWorker[w] EXCEPT !.turn = botTask.turn, !.writes = botTask.writes /\ mayWrite,
       !.at = IF botTask.status \in Finished THEN "ack" ELSE IF ~entitled THEN "block"
              ELSE IF botTask.turn = NoTask /\ botTask.team.preflight THEN "preflight" ELSE "link"])
  /\ UNCHANGED <<botTask, botWake, turns, claims, cancelling>>

\* A finished task is only acknowledged; without a plan, a model or a workspace for it, it is blocked.  All that,
\* and whether the bot's autonomy level lets it write, is read anew by every claim.
EnterTask(w, entitled, mayWrite) ==
  /\ botWorker[w].at = "claimed"
  /\ Steps(w, [botWorker[w] EXCEPT !.turn = botTask.turn, !.branch = botTask.branch, !.writes = botTask.writes /\ mayWrite,
       !.at = IF botTask.status \in Finished THEN "ack" ELSE IF ~entitled THEN "block"
              ELSE IF botTask.turn = NoTask /\ botTask.team.preflight THEN "preflight" ELSE "link"])
  /\ UNCHANGED <<botTask, botWake, turns, claims, cancelling>>

BlockTask(w) ==
  /\ botWorker[w].at = "block"
  /\ UpdateTask("blocked") /\ Leaves(w, "ack")
  /\ UNCHANGED <<botWake, turns, claims, cancelling>>

\* Read-only specialists are consulted; an engine that throws ends the attempt.
Preflight(w, ok) ==
  /\ botWorker[w].at = "preflight"
  /\ UpdateTask("working") /\ Goes(w, IF ok THEN "link" ELSE "error")
  /\ UNCHANGED <<botWake, turns, claims, cancelling>>

\* A task without a turn gets a conversation and a turn of its own (submit, linkMission).
LinkMission(w) ==
  /\ botWorker[w].at = "link"
  /\ IF botWorker[w].turn # NoTask
     THEN Goes(w, "start") /\ UNCHANGED <<botTask, turns>>
     ELSE LET turn == botWorker[w].token IN
          /\ botTask' = [botTask EXCEPT !.turn = turn]
          /\ turns' = [turns EXCEPT ![turn] = "PAUSED"]
          /\ Steps(w, [botWorker[w] EXCEPT !.turn = turn, !.at = "start"])
  /\ UNCHANGED <<botWake, claims, cancelling>>

StartPrimary(w) ==
  /\ botWorker[w].at = "start"
  /\ UpdateTask("working") /\ Goes(w, "execute")
  /\ UNCHANGED <<botWake, turns, claims, cancelling>>

\* makeEngine restores the branch, and refuses one without provenance rather than making another.
EngineRefuses(w) ==
  /\ botWorker[w].at = "execute" /\ botWorker[w].branch = "incomplete"
  /\ Leaves(w, "error")
  /\ UNCHANGED <<botTask, botWake, turns, claims, cancelling>>

\* engine.execute: an ended mission stays as it is, any other is driven on and may put changes on a work
\* branch, which at first only the session in memory knows; "incomplete" is a branch without a recorded change.
ExecuteTurn(w, state, branch) ==
  /\ botWorker[w].at = "execute" /\ botWorker[w].branch # "incomplete"
  /\ LET turn == botWorker[w].turn
         ended == turns[turn] \in {"COMPLETED", "BLOCKED", "FAILED"}
     IN  /\ ended => state = turns[turn]
         /\ ended \/ ~botWorker[w].writes \/ botWorker[w].branch = "complete" => branch = botWorker[w].branch
         /\ turns' = [turns EXCEPT ![turn] = state]
  /\ Steps(w, [botWorker[w] EXCEPT !.at = "checkpoint", !.branch = branch])
  /\ UNCHANGED <<botTask, botWake, claims, cancelling>>

\* checkpointFocus and saveCheckpoint: the work branch is stored; focus drift asks for a fresh plan.
SaveTaskCheckpoint(w, drift) ==
  /\ botWorker[w].at = "checkpoint"
  /\ botTask' = [botTask EXCEPT !.branch = botWorker[w].branch, !.kept = @ \/ botWorker[w].branch # "none"]
  /\ Goes(w, IF drift THEN "error" ELSE "outcome")
  /\ UNCHANGED <<botWake, turns, claims, cancelling>>

\* What the mission's state means for the task.
TaskOutcome(w) ==
  /\ botWorker[w].at = "outcome"
  /\ LET state == turns[botWorker[w].turn] IN
     \/ state = "COMPLETED" /\ Goes(w, IF botTask.team.review THEN "review" ELSE "deliver") /\ UNCHANGED botTask
     \/ state = "BLOCKED" /\ UpdateTask("blocked") /\ Leaves(w, "ack")
     \/ state = "FAILED" /\ Leaves(w, "error") /\ UNCHANGED botTask
     \/ state = "PAUSED" /\ UpdateTask("waiting") /\ Leaves(w, "resume")
  /\ UNCHANGED <<botWake, turns, claims, cancelling>>

\* runReadOnlySpecialist for the reviewer: the status first, then its turn.
ReviewStarts(w) ==
  /\ botWorker[w].at = "review"
  /\ UpdateTask("working") /\ Goes(w, "verdict")
  /\ UNCHANGED <<botWake, turns, claims, cancelling>>

\* Fault: a reviewer that did not finish counts as a pass.
UnfinishedReviewPasses(w, verdict) ==
  /\ botWorker[w].at = "verdict"
  /\ IF verdict = "BLOCK" THEN UpdateTask("blocked") ELSE UNCHANGED botTask
  /\ Steps(w, [botWorker[w] EXCEPT !.reviewed = verdict = "PASS", !.at = IF verdict = "BLOCK" THEN "ack" ELSE "deliver"])
  /\ UNCHANGED <<botWake, turns, claims, cancelling>>

\* reviewVerdict: only the exact PASS line passes; an incomplete review is an error.
ReviewEnds(w, verdict) ==
  /\ botWorker[w].at = "verdict"
  /\ IF verdict = "BLOCK" THEN UpdateTask("blocked") ELSE UNCHANGED botTask
  /\ Steps(w, [botWorker[w] EXCEPT !.reviewed = verdict = "PASS",
       !.at = CASE verdict = "PASS" -> "deliver" [] verdict = "BLOCK" -> "ack" [] OTHER -> "error"])
  /\ UNCHANGED <<botWake, turns, claims, cancelling>>

\* ensurePullRequest is idempotent; then mergeCheckpoint records the delivery.
DeliverTask(w, ok) ==
  /\ botWorker[w].at = "deliver"
  /\ IF botWorker[w].writes /\ botWorker[w].branch # "none"
     THEN Steps(w, [botWorker[w] EXCEPT !.delivered = ok, !.at = IF ok THEN "finish" ELSE "error"])
     ELSE Goes(w, "finish")
  /\ UNCHANGED <<botTask, botWake, turns, claims, cancelling>>

FinishTask(w) ==
  /\ botWorker[w].at = "finish"
  /\ botTask' = [botTask EXCEPT !.status = "done",
       !.doneBy = [turn |-> botWorker[w].turn, writes |-> botWorker[w].writes, reviewed |-> botWorker[w].reviewed,
                   delivered |-> botWorker[w].delivered, kept |-> botTask.kept]]
  /\ Leaves(w, "ack")
  /\ UNCHANGED <<botWake, turns, claims, cancelling>>

\* Any call of runTask, or ack itself, may throw, and what the worker only had in memory is gone: after
\* engine.execute the work branch, if saveCheckpoint is not reached.  (In the catch block it is as if it died.)
StepThrows(w) ==
  /\ botWorker[w].at \notin {"idle", "error", "retry", "resume", "reset"}
  /\ Leaves(w, "error")
  /\ UNCHANGED <<botTask, botWake, turns, claims, cancelling>>

\* runBatch's catch: markRetry, or markPermanentFailure after the last attempt.
TaskError(w) ==
  /\ botWorker[w].at = "error"
  /\ IF botWorker[w].attempt >= TaskAttempts THEN UpdateTask("failed") /\ Leaves(w, "ack")
     ELSE UpdateTask("waiting") /\ Leaves(w, "retry")
  /\ UNCHANGED <<botWake, turns, claims, cancelling>>

-----------------------------------------------------------------------------
(* Deaths, plan changes and the user *)

WorkerDies(w) ==
  /\ botWorker[w].at # "idle"
  /\ botWorker' = [botWorker EXCEPT ![w] = WorkerIdle]
  /\ UNCHANGED <<botTask, botWake, turns, claims, cancelling, outlived>>

\* cancel reads the task in one transaction and writes it in another.
CancelReads ==
  /\ ~cancelling /\ botTask.status \notin Finished
  /\ cancelling' = TRUE
  /\ UNCHANGED <<botTask, botWake, botWorker, turns, claims, outlived>>

CancelWrites ==
  /\ cancelling
  /\ UpdateTask("cancelled") /\ cancelling' = FALSE
  /\ UNCHANGED <<botWake, botWorker, turns, claims, outlived>>

BotTaskNext ==
  \/ \E w \in TaskWorkers :
       \/ ClaimTask(w) \/ RetryTask(w) \/ ResetAttempts(w) \/ BlockTask(w) \/ StepThrows(w)
       \/ LinkMission(w) \/ StartPrimary(w) \/ TaskOutcome(w) \/ ReviewStarts(w) \/ FinishTask(w)
       \/ TaskError(w) \/ WorkerDies(w)
       \/ EngineRefuses(w)
       \/ \E entitled, mayWrite \in BOOLEAN : EnterTask(w, entitled, mayWrite)
       \/ \E ok \in BOOLEAN : AckTask(w, ok) \/ Preflight(w, ok) \/ DeliverTask(w, ok) \/ SaveTaskCheckpoint(w, ok)
       \/ \E state \in TurnStates, branch \in {"none", "complete", "incomplete"} : ExecuteTurn(w, state, branch)
       \/ \E verdict \in {"PASS", "BLOCK", "INCOMPLETE"} : ReviewEnds(w, verdict)
  \/ LeaseRunsOut \/ CancelReads \/ CancelWrites

BotTaskSpec == BotTaskInit /\ [][BotTaskNext]_botTaskVars

-----------------------------------------------------------------------------
\* A task that was reported done had a completed mission, the review its plan asks for and, if a checkpoint had
\* named its work branch and the worker that reports it may write, a pull request for the branch.
DoneIsChecked ==
  botTask.doneBy # NoTask =>
    /\ turns[botTask.doneBy.turn] = "COMPLETED"
    /\ botTask.team.review => botTask.doneBy.reviewed
    /\ ~outlived /\ botTask.doneBy.kept /\ botTask.doneBy.writes => botTask.doneBy.delivered

\* An unfinished task still has the wake-up that will drive it on.
TaskKeepsWake == ~outlived /\ botTask.status \notin Finished => botWake.present

(***************************************************************************)
(* What runTask and runBatch promise whatever dies, lapses, fails or is    *)
(* cancelled in between (executor.ts 94-141, 432-590, store.ts 232-296):   *)
(* "done" means completed, reviewed and, for a branch that was recorded,   *)
(* delivered, and an unfinished task keeps its wake-up.  Two things are    *)
(* not promised.  updateTask and saveCheckpoint are not fenced, so a       *)
(* worker that goes on after losing its wake-up can strand the task or     *)
(* forget the branch (outlived).  And what no checkpoint has named yet is  *)
(* lost with its worker: a later one finds the mission completed and no    *)
(* branch, and reports the task done.                                      *)
(***************************************************************************)
BotTaskSound == DoneIsChecked /\ TaskKeepsWake
=============================================================================
