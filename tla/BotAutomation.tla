--------------------------- MODULE BotAutomation ---------------------------
(***************************************************************************)
(* One automation of Odin Bot (src/bot/store.ts), its wake-ups in the      *)
(* queue, and the workers that fire it (src/bot/executor.ts).              *)
(*                                                                         *)
(* A wake-up row is keyed by the occurrence it stands for, which is also   *)
(* the idempotency key of the task it creates.  Every transaction is one   *)
(* step.  fireAutomation reads the automation in a transaction of its own; *)
(* the rest of it, the nested createTask included, is one transaction      *)
(* under the owner's advisory lock.                                        *)
(***************************************************************************)
EXTENDS Integers, FiniteSets

CONSTANTS
  Workers,       \* invocations of runBatch or of the webhook
  Deliveries,    \* identifiers of GitHub deliveries
  Cadences,      \* kinds of trigger the automation may have
  Every,         \* everyMinutes of an interval
  TicksPerDay, Hour,
  Lease,         \* leaseSeconds of claim
  RetryDelay,    \* backoff of retry
  MaxAttempts,   \* 5 in runBatch
  MaxDailyWakeups,
  MaxNow,        \* bound on time
  MaxClaims,     \* bound on the number of claims
  NoTime           \* no time, no lease token

ASSUME BotAutomationAssumption ==
  /\ Cadences \subseteq {"interval", "daily", "event"}
  /\ Every \in Nat \ {0} /\ TicksPerDay \in Nat \ {0} /\ Hour \in 0 .. TicksPerDay - 1
  /\ Lease \in Nat /\ RetryDelay \in Nat /\ MaxAttempts \in Nat /\ MaxDailyWakeups \in Nat
  /\ MaxNow \in Nat /\ MaxClaims \in Nat
  /\ NoTime \notin Int \cup Workers
  /\ IsFiniteSet(Deliveries) /\ \A d \in Deliveries : d \notin Int

VARIABLES
  now,
  automation,  \* row of bot_automations
  wakes,       \* rows of bot_wakeups, by occurrence
  tasks,       \* creation time of the task of an occurrence or a delivery
  worker,      \* what each invocation is doing
  tokens,      \* lease tokens drawn so far
  anchors,     \* times from which the schedule was computed
  lapsed       \* whether a wake was dropped because the plan has no bot

automationVars == <<now, automation, wakes, tasks, worker, tokens, anchors, lapsed>>

Times  == 0 .. MaxNow + Every + TicksPerDay
Keys   == Times \cup Deliveries
NoWake == [available |-> NoTime, token |-> NoTime, expires |-> NoTime, attempts |-> 0]
Idle   == [pc |-> "idle", row |-> NoTime, occurrence |-> NoTime, token |-> NoTime, attempt |-> 0]

AutomationInit ==
  /\ now = 0
  /\ automation = [exists |-> FALSE, enabled |-> FALSE, cadence |-> "none", next |-> NoTime]
  /\ wakes = [o \in Times |-> NoWake]
  /\ tasks = [k \in Keys |-> NoTime]
  /\ worker = [w \in Workers |-> Idle]
  /\ tokens = 0
  /\ anchors = {}
  /\ lapsed = FALSE

-----------------------------------------------------------------------------
(* Schedule and queue *)

DayOf(t) == t \div TicksPerDay

\* nextAutomationWake, nextDailyWake: the next occurrence after a time; daily it is
\* the hour of the same day, or of the next one if that has passed.
NextWake(cadence, from) ==
  LET today == DayOf(from) * TicksPerDay + Hour IN
  CASE cadence = "interval" -> from + Every
    [] cadence = "daily"    -> IF today <= from THEN today + TicksPerDay ELSE today
    [] cadence = "event"    -> NoTime

\* enqueue_bot_wakeup: a row of the same key is kept, and at most made earlier.
Enqueue(rows, o) ==
  IF o = NoTime THEN rows
  ELSE LET row == rows[o] IN
       [rows EXCEPT ![o].available = IF row = NoWake \/ o < row.available THEN o ELSE row.available]

Cleared == [o \in Times |-> NoWake]

Claimable(o) ==
  /\ wakes[o] # NoWake
  /\ wakes[o].available <= now
  /\ wakes[o].token # NoTime => wakes[o].expires < now

\* Fault: the occurrence is the time of the retry.
ClaimAvailable(w) ==
  /\ worker[w].pc = "idle" /\ tokens < MaxClaims
  /\ \E o \in Times :
       /\ Claimable(o)
       /\ worker' = [worker EXCEPT ![w] = [pc |-> "claimed", row |-> o,
            occurrence |-> wakes[o].available, token |-> tokens, attempt |-> wakes[o].attempts + 1]]
       /\ wakes' = [wakes EXCEPT
            ![o].token = tokens, ![o].expires = now + Lease, ![o].attempts = @ + 1]
  /\ tokens' = tokens + 1
  /\ UNCHANGED <<now, automation, tasks, anchors, lapsed>>

\* claim: the row that has been due for the longest.
Claim(w) ==
  /\ worker[w].pc = "idle" /\ tokens < MaxClaims
  /\ \E o \in Times :
       /\ Claimable(o)
       /\ \A p \in Times : Claimable(p) => wakes[o].available <= wakes[p].available
       /\ worker' = [worker EXCEPT ![w] = [pc |-> "claimed", row |-> o,
            occurrence |-> o, token |-> tokens, attempt |-> wakes[o].attempts + 1]]
       /\ wakes' = [wakes EXCEPT
            ![o].token = tokens, ![o].expires = now + Lease, ![o].attempts = @ + 1]
  /\ tokens' = tokens + 1
  /\ UNCHANGED <<now, automation, tasks, anchors, lapsed>>

Goto(w, pc) == worker' = [worker EXCEPT ![w].pc = pc]
Stop(w)     == worker' = [worker EXCEPT ![w] = Idle]

\* ack: only under the token of this claim.
Ack(w) ==
  /\ worker[w].pc = "done"
  /\ wakes' = IF wakes[worker[w].row].token = worker[w].token
              THEN [wakes EXCEPT ![worker[w].row] = NoWake] ELSE wakes
  /\ Stop(w)
  /\ UNCHANGED <<now, automation, tasks, tokens, anchors, lapsed>>

-----------------------------------------------------------------------------
(* Firing *)

\* runAutomation and the first read of fireAutomation.
RunAutomation(w) ==
  /\ worker[w].pc = "claimed"
  /\ \/ lapsed' = TRUE /\ Goto(w, "done")                      \* "entitlement-paused"
     \/ /\ UNCHANGED lapsed
        /\ \/ ~automation.exists /\ Goto(w, "failed")
           \/ automation.exists /\ ~automation.enabled /\ Goto(w, "done")
           \/ automation.enabled /\ Goto(w, "firing")
           \/ Goto(w, "failed")                                \* the database fails
  /\ UNCHANGED <<now, automation, wakes, tasks, tokens, anchors>>

\* processGitHubEvent up to the first read of fireEventAutomation; GitHub may
\* deliver again what was not marked as processed.
Deliver(w, d) ==
  /\ worker[w].pc = "idle"
  /\ automation.enabled /\ automation.cadence = "event"
  /\ worker' = [worker EXCEPT ![w] = [Idle EXCEPT !.pc = "firing", !.occurrence = d]]
  /\ UNCHANGED <<now, automation, wakes, tasks, tokens, anchors, lapsed>>

Used == Cardinality({k \in Keys : tasks[k] # NoTime /\ DayOf(tasks[k]) = DayOf(now)})

\* Fault: the daily count is taken in one transaction, the insert in another.
FireUnlocked(w) ==
  LET k == worker[w].occurrence IN
  /\ \/ worker[w].pc = "firing" /\ Used < MaxDailyWakeups /\ Goto(w, "inserting") /\ UNCHANGED tasks
     \/ /\ worker[w].pc = "inserting"
        /\ tasks' = [tasks EXCEPT ![k] = IF @ = NoTime THEN now ELSE @] /\ Stop(w)
  /\ UNCHANGED <<now, automation, wakes, tokens, anchors, lapsed>>

\* The transaction of fireAutomation and of fireEventAutomation: a task of the
\* same key is returned again, a new one is created within the daily limit, and
\* the next occurrence is queued.  Without the automation's row,
\* enqueue_bot_wakeup raises; createTask and the database may fail too.  An
\* error rolls everything back.
Fire(w) ==
  LET k == worker[w].occurrence
      next == NextWake(automation.cadence, k) IN
  /\ worker[w].pc = "firing"
  /\ \/ /\ tasks[k] # NoTime \/ Used < MaxDailyWakeups
        /\ next # NoTime => automation.exists
        /\ tasks' = [tasks EXCEPT ![k] = IF @ = NoTime THEN now ELSE @]
        /\ IF next = NoTime THEN Stop(w) /\ UNCHANGED <<automation, wakes>>
           ELSE /\ automation' = [automation EXCEPT !.next = next]
                /\ wakes' = Enqueue(wakes, next)
                /\ Goto(w, "done")
     \/ /\ tasks[k] = NoTime /\ Used >= MaxDailyWakeups
        /\ Goto(w, "limit") /\ UNCHANGED <<automation, wakes, tasks>>
     \/ Goto(w, "failed") /\ UNCHANGED <<automation, wakes, tasks>>
  /\ UNCHANGED <<now, tokens, anchors, lapsed>>

\* pauseAutomation; clear_bot_automation_wakeups raises when the row is gone, and
\* the error leaves runBatch.
PauseAutomation(w) ==
  IF automation.exists
  THEN /\ automation' = [automation EXCEPT !.enabled = FALSE, !.next = NoTime]
       /\ wakes' = Cleared
       /\ Goto(w, "done")
  ELSE Stop(w) /\ UNCHANGED <<automation, wakes>>

\* retry, under the token of this claim.
Retry(w) ==
  /\ wakes' = IF wakes[worker[w].row].token = worker[w].token
              THEN [wakes EXCEPT ![worker[w].row] = [@ EXCEPT
                     !.available = now + RetryDelay, !.token = NoTime, !.expires = NoTime]]
              ELSE wakes
  /\ Stop(w)
  /\ UNCHANGED automation

\* The error paths of runBatch; an error under a webhook is answered to GitHub.
HandleError(w) ==
  /\ worker[w].pc \in {"failed", "limit"}
  /\ \/ worker[w].row = NoTime /\ Stop(w) /\ UNCHANGED <<automation, wakes>>
     \/ /\ worker[w].row # NoTime
        /\ worker[w].pc = "limit" \/ worker[w].attempt >= MaxAttempts
        /\ PauseAutomation(w)
     \/ /\ worker[w].row # NoTime
        /\ worker[w].pc = "failed" /\ worker[w].attempt < MaxAttempts
        /\ Retry(w)
  /\ UNCHANGED <<now, tasks, tokens, anchors, lapsed>>

\* The invocation is killed; its connections close.
Crash(w) ==
  /\ worker[w].pc # "idle"
  /\ Stop(w)
  /\ UNCHANGED <<now, automation, wakes, tasks, tokens, anchors, lapsed>>

-----------------------------------------------------------------------------
(* The user *)

\* createAutomation.
Create(cadence) ==
  /\ automation.cadence = "none"
  /\ automation' = [exists |-> TRUE, enabled |-> TRUE, cadence |-> cadence,
                    next |-> NextWake(cadence, now)]
  /\ wakes' = Enqueue(wakes, NextWake(cadence, now))
  /\ anchors' = {now}
  /\ UNCHANGED <<now, tasks, worker, tokens, lapsed>>

\* Fault: the wake-ups are cleared after the new one was queued.
SetEnabledClearsLast(enabled) ==
  /\ automation.exists
  /\ automation' = [automation EXCEPT !.enabled = enabled]
  /\ wakes' = Cleared
  /\ lapsed' = FALSE
  /\ UNCHANGED <<now, tasks, worker, tokens, anchors>>

\* setAutomationEnabled: the schedule starts again from now.
SetEnabled(enabled) ==
  LET next == IF enabled THEN NextWake(automation.cadence, now) ELSE NoTime IN
  /\ automation.exists
  /\ automation' = [automation EXCEPT !.enabled = enabled, !.next = next]
  /\ wakes' = Enqueue(Cleared, next)
  /\ anchors' = IF enabled THEN anchors \cup {now} ELSE anchors
  /\ lapsed' = FALSE
  /\ UNCHANGED <<now, tasks, worker, tokens>>

\* deleteAutomation, and the trigger that deletes its wake-ups.
Delete ==
  /\ automation.exists
  /\ automation' = [automation EXCEPT !.exists = FALSE, !.enabled = FALSE]
  /\ wakes' = Cleared
  /\ UNCHANGED <<now, tasks, worker, tokens, anchors, lapsed>>

Tick == now < MaxNow /\ now' = now + 1
        /\ UNCHANGED <<automation, wakes, tasks, worker, tokens, anchors, lapsed>>

AutomationNext ==
  \/ \E w \in Workers :
       \/ Claim(w) \/ RunAutomation(w) \/ Fire(w)
       \/ Ack(w) \/ HandleError(w) \/ Crash(w)
       \/ \E d \in Deliveries : Deliver(w, d)
  \/ \E cadence \in Cadences : Create(cadence)
  \/ \E enabled \in BOOLEAN : SetEnabled(enabled)
  \/ Delete
  \/ Tick

AutomationSpec == AutomationInit /\ [][AutomationNext]_automationVars

-----------------------------------------------------------------------------
(* Properties *)

\* Types, and a wake-up has a lease token exactly when it has a lease expiry.
AutomationTypeOK ==
  /\ now \in 0 .. MaxNow
  /\ automation \in [exists : BOOLEAN, enabled : BOOLEAN,
                     cadence : Cadences \cup {"none"}, next : Times \cup {NoTime}]
  /\ wakes \in [Times -> [available : Nat \cup {NoTime}, token : Nat \cup {NoTime},
                          expires : Nat \cup {NoTime}, attempts : Nat]]
  /\ tasks \in [Keys -> 0 .. MaxNow \cup {NoTime}]
  /\ \A o \in Times : wakes[o].token = NoTime <=> wakes[o].expires = NoTime

\* The parts of AutomationsSound below.
KeepsGoing ==
  automation.enabled /\ automation.cadence # "event" /\ ~lapsed
    => \E o \in Times : wakes[o] # NoWake

OnGrid(o) ==
  /\ automation.cadence = "interval" => \E a \in anchors, n \in 1 .. o : o = a + n * Every
  /\ automation.cadence = "daily" => \E day \in 0 .. o : o = day * TicksPerDay + Hour

OnSchedule == \A o \in Times : tasks[o] # NoTime => tasks[o] >= o /\ OnGrid(o)

DailyWithinLimit ==
  \A day \in 0 .. DayOf(MaxNow) :
    Cardinality({k \in Keys : tasks[k] # NoTime /\ DayOf(tasks[k]) = day}) <= MaxDailyWakeups

\* An enabled schedule never dies: whatever fails, is retried, crashes, is paused or
\* resumed around it, a wake-up of it is in the queue (the exception is a wake-up met
\* while the plan had no bot, which is acknowledged and not replaced).  Tasks come from
\* the schedule: each occurrence lies on the grid of a time at which the automation was
\* created or resumed, or on the daily hour, and is not executed before it is due,
\* however often its wake-up was postponed.  The tasks that automations create in a day
\* stay within the plan, also when several invocations fire at once.  (The rows keep
\* their types.)
AutomationsSound == AutomationTypeOK /\ KeepsGoing /\ OnSchedule /\ DailyWithinLimit
=============================================================================
