----------------------------- MODULE HostedChat -----------------------------
(***************************************************************************)
(* The hosted deployment of a turn: the handlers steer, control and run of *)
(* src/chat/hosted.ts over NeonActorDatabase (src/chat/neon-database.ts).  *)
(* Every POST run is a serverless invocation with a lease token of its own.*)
(***************************************************************************)
EXTENDS ChatAgent, TLC

CONSTANT MaxRuns   \* bound: POST run requests that obtain the lease

VARIABLE runs      \* tokens handed out

hostedVars == <<chatVars, runs>>

\* Invocations differ only in their tokens.
Symmetry == Permutations(Workers)

HostedInit == ChatInit("idle") /\ runs = 0

-----------------------------------------------------------------------------

\* claimBounded: an expired row is deleted, a live one refuses.
Claim(w) ==
  /\ run[w].pc = "idle" /\ runs < MaxRuns
  /\ ~lease.live
  /\ runs' = runs + 1
  /\ lease' = [token |-> runs + 1, live |-> TRUE]
  /\ run' = [run EXCEPT ![w] = [Idle EXCEPT !.pc = "start", !.token = runs + 1]]
  /\ UNCHANGED <<mission, ck, events, ws>>

\* 280 s have passed since the claim.
Expire ==
  /\ lease.live
  /\ lease' = [lease EXCEPT !.live = FALSE]
  /\ UNCHANGED <<mission, ck, events, ws, run, runs>>

NoLease == [token |-> 0, live |-> FALSE]

\* The finally block of POST run: only the own token's row is deleted.
Release(w) ==
  /\ run[w].pc = "end"
  /\ lease' = IF lease.token = run[w].token THEN NoLease ELSE lease
  /\ run' = [run EXCEPT ![w] = Idle]
  /\ UNCHANGED <<mission, ck, events, ws, runs>>

\* The invocation is killed: its memory is gone, its lease stays.
Crash(w) ==
  /\ run[w].pc # "idle"
  /\ run' = [run EXCEPT ![w] = Idle]
  /\ UNCHANGED <<mission, ck, events, ws, lease, runs>>

\* Fault: the lease is left to the worker's own release.
PauseKeepsLease ==
  /\ SectionFree /\ mission.state \notin Stopped
  /\ mission' = Paused(mission)
  /\ events' = Emit(events)
  /\ UNCHANGED <<ck, ws, run, lease, runs>>

\* POST control pause: the state and the deletion of the lease are one transaction.
Pause ==
  /\ SectionFree /\ mission.state \notin Stopped
  /\ mission' = Paused(mission)
  /\ lease' = NoLease
  /\ events' = Emit(events)
  /\ UNCHANGED <<ck, ws, run, runs>>

\* POST control cancel.
Cancel ==
  /\ SectionFree /\ mission.state \notin Terminal
  /\ mission' = [mission EXCEPT !.state = "CANCELLED", !.resume = "NONE"]
  /\ lease' = NoLease
  /\ events' = Emit(events)
  /\ UNCHANGED <<ck, ws, run, runs>>

\* POST control resume; a worker comes with the next POST run.
Resume ==
  /\ SectionFree /\ mission.state = "PAUSED"
  /\ mission' = [mission EXCEPT !.state = mission.resume, !.resume = "NONE"]
  /\ events' = Emit(events)
  /\ UNCHANGED <<ck, ws, run, lease, runs>>

\* POST steer, first part: the section is entered and the event inserted.
SteerInsert(i) ==
  /\ SectionFree /\ events.at[i] = 0
  /\ mission.state \notin Terminal
  /\ events' = [events EXCEPT !.at[i] = events.next, !.next = @ + 1]
  /\ UNCHANGED <<mission, ck, ws, run, lease, runs>>

\* Second part: COMMIT makes the event readable and answers ok.
SteerCommit(i) ==
  /\ events.at[i] # 0 /\ i \notin events.visible
  /\ events' = [events EXCEPT !.visible = @ \cup {i}, !.top = Max({events.top, events.at[i]})]
  /\ UNCHANGED <<mission, ck, ws, run, lease, runs>>

HostedNext ==
  \/ \E w \in Workers :
       \/ (WorkerStep(w) \/ FencedOut(w) \/ Abort(w)) /\ UNCHANGED runs
       \/ Claim(w) \/ Release(w) \/ Crash(w)
  \/ Expire \/ Pause \/ Cancel \/ Resume
  \/ \E i \in Instructions : SteerInsert(i) \/ SteerCommit(i)

HostedSpec == HostedInit /\ [][HostedNext]_hostedVars

-----------------------------------------------------------------------------
(* Properties *)

\* The parts of WritesFenced below.
Quiescent ==
  mission.state \in {"PAUSED", "CANCELLED"} => ck' = ck /\ mission'.spent = mission.spent

NewestRunWrites == ck'.by >= ck.by

\* Once pause or cancel has committed, nothing a worker still does reaches the
\* checkpoint or the budget ("subsequent worker writes fail fencing"), and the
\* checkpoint is only ever advanced by the newest run that wrote to it: a worker
\* whose lease expired never overwrites its successor's progress.
WritesFenced == [][Quiescent /\ NewestRunWrites]_hostedVars
=============================================================================
