----------------------------- MODULE GitHubHooks -----------------------------
(***************************************************************************)
(* GitHubEventBridge (src/bot/github-events.ts): the one webhook an owner  *)
(* has at GitHub and its row, and the deliveries that come in through it.  *)
(* GitHub and the database are separate: every request to either is a      *)
(* step, either may refuse one or do it and lose the answer, and           *)
(* deliveries are repeated.                                                *)
(***************************************************************************)
EXTENDS Integers, FiniteSets

CONSTANTS HookCalls,      \* ensureHook and disconnectHook requests, each once
          Repositories,
          EventHandlers,  \* webhook requests, each handles one delivery
          GitHubDeliveries,
          DeliveryEvent,  \* per delivery the event it carries, all about one pull request of a task
          Selectors,      \* per automation that waits for GitHub events, the events it is for
          NoHook

VARIABLES
  hookRow,     \* bot_github_hooks: the repository and the hook (named after the call that made it)
  remote,      \* hooks that exist at GitHub
  hookCall,    \* the calls
  receipt,     \* bot_event_receipts: none, received, and two kinds of processed_at: processed, and skipped
               \* (for an owner whose plan has no bot), which the code does not tell apart
  handler,     \* the webhook requests
  fired,       \* tasks: the automation and the delivery in their idempotency key
  signalled,   \* inbox items, with the delivery in their key
  pull,        \* the delivery record in the checkpoint of the task of the pull request
  raced        \* ghost: two requests have read and written that record at the same time

hookVars == <<hookRow, remote, hookCall, receipt, handler, fired, signalled, pull, raced>>

\* normalizeGitHubEvent: the predicates an event of each name can have.
Predicates ==
  [pull_request        |-> {"opened", "closed", "merged", "any"},
   pull_request_review |-> {"changes_requested", "any"},
   check_run           |-> {"checks_failed", "checks_passed", "any"},
   workflow_run        |-> {"checks_failed", "checks_passed", "any"},
   push                |-> {"pushed"},
   ping                |-> {"any"}]

ASSUME DeliveryAssumption ==
  \A d \in GitHubDeliveries : DeliveryEvent[d].predicate \in Predicates[DeliveryEvent[d].name]

\* githubTriggerForInstruction: what a selector made of an instruction can be.
InstructionSelectors ==
  {[event |-> "pull_request", predicate |-> p] : p \in {"opened", "closed", "merged"}}
  \cup {[event |-> "checks", predicate |-> p] : p \in {"checks_failed", "checks_passed"}}
  \cup {[event |-> "pull_request_review", predicate |-> "changes_requested"],
        [event |-> "push", predicate |-> "pushed"], [event |-> "*", predicate |-> "any"]}

ASSUME SelectorsAssumption == \A a \in DOMAIN Selectors : Selectors[a] \in InstructionSelectors

EventMatches(selector, event) ==
  /\ event.name # "ping"
  /\ \/ selector.event \in {"*", event.name}
     \/ selector.event = "checks" /\ event.name \in {"check_run", "workflow_run"}
  /\ selector.predicate \in {"any", event.predicate}

\* Rows of bot_github_hooks; the hook of an earlier session is nobody's here.
HookRows == [repository : Repositories \cup {NoHook}, hook : HookCalls \cup {"earlier"}]

ASSUME HookAssumption == NoHook \notin HookRows /\ "earlier" \notin HookCalls

\* proactiveGitHubSignal: the predicates the user is told about.
Signals == {"checks_failed", "changes_requested", "merged", "closed"}

HookInit ==
  /\ \/ hookRow = NoHook /\ remote = {}
     \/ \E r \in Repositories : hookRow = [repository |-> r, hook |-> "earlier"] /\ remote = {"earlier"}
  /\ hookCall = [c \in HookCalls |-> [at |-> "idle", repository |-> NoHook, old |-> NoHook, op |-> "none"]]
  /\ receipt = [d \in GitHubDeliveries |-> "none"]
  /\ handler = [h \in EventHandlers |-> [at |-> "idle", delivery |-> NoHook, prior |-> NoHook]]
  /\ fired = {} /\ signalled = {} /\ raced = FALSE
  /\ pull = [state |-> "open", checks |-> "none"]

effectVars == <<fired, signalled, pull, raced>>
deliveryVars == <<receipt, handler, effectVars>>

Moves(c, at) == hookCall' = [hookCall EXCEPT ![c].at = at]

-----------------------------------------------------------------------------
(* ensureHook and disconnectHook *)

\* ensureHook reads the row: already there for this repository, to be replaced, or to be created.
EnsureHook(c, repository) ==
  /\ hookCall[c].at = "idle"
  /\ hookCall' = [hookCall EXCEPT ![c] = [op |-> "ensure", repository |-> repository, old |-> hookRow,
       at |-> IF hookRow = NoHook THEN "create" ELSE IF hookRow.repository = repository THEN "connected" ELSE "drop"]]
  /\ UNCHANGED <<hookRow, remote, deliveryVars>>

DisconnectHook(c) ==
  /\ hookCall[c].at = "idle"
  /\ hookCall' = [hookCall EXCEPT ![c] = [op |-> "disconnect", repository |-> NoHook, old |-> hookRow,
       at |-> IF hookRow = NoHook THEN "clear" ELSE "drop"]]
  /\ UNCHANGED <<hookRow, remote, deliveryVars>>

\* #deleteRemoteHook of the hook that was read; a failure is ignored.
DropRemote(c, ok) ==
  /\ hookCall[c].at = "drop"
  /\ remote' = IF ok THEN remote \ {hookCall[c].old.hook} ELSE remote
  /\ Moves(c, "clear")
  /\ UNCHANGED <<hookRow, deliveryVars>>

\* DELETE ... WHERE owner_id: whatever row is there now.
ClearRow(c) ==
  /\ hookCall[c].at = "clear"
  /\ hookRow' = NoHook
  /\ Moves(c, IF hookCall[c].op = "ensure" THEN "create" ELSE "disconnected")
  /\ UNCHANGED <<remote, deliveryVars>>

\* POST /hooks, and an id that is checked; the hook may be there without the answer.
CreateRemote(c, made, ok) ==
  /\ hookCall[c].at = "create" /\ (ok => made)
  /\ remote' = IF made THEN remote \cup {c} ELSE remote
  /\ Moves(c, IF ok THEN "insert" ELSE "failed")
  /\ UNCHANGED <<hookRow, deliveryVars>>

\* INSERT ... ON CONFLICT DO NOTHING: the loser takes its own hook back.
InsertRow(c) ==
  /\ hookCall[c].at = "insert"
  /\ IF hookRow = NoHook
     THEN hookRow' = [repository |-> hookCall[c].repository, hook |-> c] /\ Moves(c, "connected")
     ELSE UNCHANGED hookRow /\ Moves(c, "takeBack")
  /\ UNCHANGED <<remote, deliveryVars>>

\* The INSERT throws, before or after it has taken effect.
InsertThrows(c, effective) ==
  /\ hookCall[c].at = "insert"
  /\ hookRow' = IF effective /\ hookRow = NoHook THEN [repository |-> hookCall[c].repository, hook |-> c] ELSE hookRow
  /\ Moves(c, "undo")
  /\ UNCHANGED <<remote, deliveryVars>>

\* Fault: the loser deletes the winner's hook instead of its own.
TakesTheWinners(c, ok) ==
  /\ hookCall[c].at = "takeBack"
  /\ remote' = IF ok /\ hookRow # NoHook THEN remote \ {hookRow.hook} ELSE remote
  /\ Moves(c, "winner")
  /\ UNCHANGED <<hookRow, deliveryVars>>

\* The loser's own hook is deleted; a failure is ignored.
TakeBack(c, ok) ==
  /\ hookCall[c].at = "takeBack"
  /\ remote' = IF ok THEN remote \ {c} ELSE remote
  /\ Moves(c, "winner")
  /\ UNCHANGED <<hookRow, deliveryVars>>

\* The winner must be for the same repository; the read may throw as well.
CheckWinner(c, ok) ==
  /\ hookCall[c].at = "winner"
  /\ LET agrees == ok /\ hookRow # NoHook /\ hookRow.repository = hookCall[c].repository IN
     Moves(c, IF agrees THEN "connected" ELSE "undo")
  /\ UNCHANGED <<hookRow, remote, deliveryVars>>

\* The catch of ensureHook: whatever was thrown, its own hook is deleted (a failure is ignored) and the request fails.
UndoHook(c, ok) ==
  /\ hookCall[c].at = "undo"
  /\ remote' = IF ok THEN remote \ {c} ELSE remote
  /\ Moves(c, "failed")
  /\ UNCHANGED <<hookRow, deliveryVars>>

-----------------------------------------------------------------------------
(* Deliveries *)

Handles(h, at) == handler' = [handler EXCEPT ![h].at = at]
EventOf(h) == DeliveryEvent[handler[h].delivery]

\* authenticateDelivery: the token's row, the signature and the payload check; the receipt is inserted,
\* and a delivery whose processing is recorded is a duplicate.
Authenticated(h, d) ==
  /\ handler[h].at = "idle" /\ hookRow # NoHook
  /\ receipt' = [receipt EXCEPT ![d] = IF @ = "none" THEN "received" ELSE @]
  /\ handler' = [handler EXCEPT ![h] = [at |-> IF receipt[d] \in {"processed", "skipped"} THEN "done" ELSE "plan",
                                       delivery |-> d, prior |-> NoHook]]
  /\ UNCHANGED <<hookRow, remote, hookCall, effectVars>>

\* The request ends anywhere; GitHub delivers again.
HandlerDies(h) ==
  /\ handler[h].at \notin {"idle", "done"}
  /\ Handles(h, "done")
  /\ UNCHANGED <<hookRow, remote, hookCall, receipt, effectVars>>

\* The plan of the owner is read; without a bot the delivery goes straight to markProcessed.
CheckPlan(h, enabled) ==
  /\ handler[h].at = "plan"
  /\ Handles(h, IF enabled THEN "fire" ELSE "skip")
  /\ UNCHANGED <<hookRow, remote, hookCall, receipt, effectVars>>

\* fireEventAutomation of every automation that matches: the delivery is in the task's idempotency key.
FireMatching(h) ==
  /\ handler[h].at = "fire"
  /\ fired' = fired \cup {<<a, handler[h].delivery>> : a \in {b \in DOMAIN Selectors : EventMatches(Selectors[b], EventOf(h))}}
  /\ Handles(h, "read")
  /\ UNCHANGED <<hookRow, remote, hookCall, receipt, signalled, pull, raced>>

\* taskForPullRequest: the task with its delivery record.
ReadLinked(h) ==
  /\ handler[h].at = "read"
  /\ handler' = [handler EXCEPT ![h].prior = pull, ![h].at = "merge"]
  /\ raced' = (raced \/ \E o \in EventHandlers \ {h} : handler[o].at = "merge")
  /\ UNCHANGED <<hookRow, remote, hookCall, receipt, fired, signalled, pull>>

\* mergeCheckpoint writes the whole record: what was read, and what the event says.
MergeDelivery(h) ==
  /\ handler[h].at = "merge"
  /\ LET predicate == EventOf(h).predicate IN
     pull' = CASE predicate \in {"merged", "closed"} -> [handler[h].prior EXCEPT !.state = predicate]
               [] predicate \in {"checks_failed", "checks_passed"} -> [handler[h].prior EXCEPT !.checks = predicate]
               [] OTHER -> pull
  /\ Handles(h, "signal")
  /\ UNCHANGED <<hookRow, remote, hookCall, receipt, fired, signalled, raced>>

AddSignal(h) ==
  /\ handler[h].at = "signal"
  /\ signalled' = IF EventOf(h).predicate \in Signals THEN signalled \cup {handler[h].delivery} ELSE signalled
  /\ Handles(h, "mark")
  /\ UNCHANGED <<hookRow, remote, hookCall, receipt, fired, pull, raced>>

\* markProcessed, at the end of the effects or instead of them.
MarkProcessed(h) ==
  /\ handler[h].at \in {"mark", "skip"}
  /\ receipt' = [receipt EXCEPT ![handler[h].delivery] = IF handler[h].at = "mark" \/ @ = "processed" THEN "processed" ELSE "skipped"]
  /\ Handles(h, "done")
  /\ UNCHANGED <<hookRow, remote, hookCall, effectVars>>

HookCallNext ==
  \E c \in HookCalls :
    \/ \E r \in Repositories : EnsureHook(c, r)
    \/ DisconnectHook(c) \/ ClearRow(c) \/ InsertRow(c)
    \/ \E ok \in BOOLEAN :
         \/ DropRemote(c, ok) \/ TakeBack(c, ok) \/ CheckWinner(c, ok) \/ UndoHook(c, ok) \/ InsertThrows(c, ok)
         \/ \E made \in BOOLEAN : CreateRemote(c, made, ok)

DeliveryNext ==
  \E h \in EventHandlers :
    \/ \E d \in GitHubDeliveries : Authenticated(h, d)
    \/ \E enabled \in BOOLEAN : CheckPlan(h, enabled)
    \/ HandlerDies(h) \/ FireMatching(h) \/ ReadLinked(h) \/ MergeDelivery(h) \/ AddSignal(h) \/ MarkProcessed(h)

HookSpec == HookInit /\ [][HookCallNext \/ DeliveryNext]_hookVars

-----------------------------------------------------------------------------
\* The row names a hook that exists, unless a request that is about to clear the row has removed it, or the
\* request that made it was never told that its row was written, has taken the hook back and reported failure.
RowNamesHook ==
  hookRow # NoHook => \/ hookRow.hook \in remote
                      \/ \E c \in HookCalls : hookCall[c].at = "clear" /\ hookCall[c].old = hookRow
                      \/ hookRow.hook \in HookCalls /\ hookCall[hookRow.hook].at = "failed"

\* A delivery that was processed under a plan with a bot has fired, signalled and, unless two requests raced, left its trace in the record.
ProcessedIsApplied ==
  \A d \in GitHubDeliveries : receipt[d] = "processed" =>
    LET event == DeliveryEvent[d] IN
    /\ \A a \in DOMAIN Selectors : EventMatches(Selectors[a], event) <=> <<a, d>> \in fired
    /\ event.predicate \in Signals => d \in signalled
    /\ ~raced => /\ event.predicate \in {"merged", "closed"} => pull.state # "open"
                 /\ event.predicate \in {"checks_failed", "checks_passed"} => pull.checks # "none"

(***************************************************************************)
(* Under any overlap of connecting, replacing and disconnecting, and with  *)
(* deliveries repeated, interrupted and handled side by side: the row      *)
(* never names a hook that another request took away, and a delivery       *)
(* recorded as processed had all its effects, whichever of its requests    *)
(* brought them about.  Three things are not promised: a row whose INSERT  *)
(* answer was lost stays behind without its hook, a delivery met while the *)
(* plan has no bot is recorded as processed and never handled again, and   *)
(* two requests at once may lose an entry of the delivery record, which is *)
(* read and written back whole (github-events.ts 118-346, hosted.ts        *)
(* 163-190).                                                               *)
(***************************************************************************)
HooksSound == RowNamesHook /\ ProcessedIsApplied
=============================================================================
