-------------------------------- MODULE MCBot --------------------------------
(***************************************************************************)
(* Odin Bot of one owner: an automation and its wake-ups, a task and the   *)
(* workers that run it, the GitHub hook, and the deliveries through it.    *)
(* They meet only in rows that each of them names by a key, so a behaviour *)
(* exercises one of them: their state spaces add up, not multiply.         *)
(***************************************************************************)
EXTENDS TLC, BotAutomation, BotTask, GitHubHooks

CONSTANTS w1, w2, w3, d1, d2, e1, e2

VARIABLE part   \* the part this behaviour exercises

botVars == <<part, automationVars, botTaskVars, hookVars>>

\* A failed and a passed check, about the pull request of the task.
MCDeliveryEvent ==
  (e1 :> [name |-> "check_run", predicate |-> "checks_failed"]) @@
  (e2 :> [name |-> "pull_request", predicate |-> "merged"])
MCSelectors == [a1 |-> [event |-> "checks", predicate |-> "checks_failed"],
                a2 |-> [event |-> "push", predicate |-> "pushed"]]
MCTaskTeams == {[preflight |-> TRUE, review |-> TRUE]}

\* Workers are interchangeable; w1 and w2 are also the names of the hook and webhook requests.
BotSymmetry == Permutations({w1, w2})

BotInit ==
  /\ part \in {"automation", "task", "hook", "deliveries"}
  /\ AutomationInit /\ BotTaskInit /\ HookInit
  /\ part # "task" => botTask.writes
  /\ part # "hook" => hookRow # NoHook /\ hookRow.repository = "r1"

BotNext ==
  \/ part = "automation" /\ AutomationNext /\ UNCHANGED <<part, botTaskVars, hookVars>>
  \/ part = "task" /\ BotTaskNext /\ UNCHANGED <<part, automationVars, hookVars>>
  \/ part = "hook" /\ HookCallNext /\ UNCHANGED <<part, automationVars, botTaskVars>>
  \/ part = "deliveries" /\ DeliveryNext /\ UNCHANGED <<part, automationVars, botTaskVars>>

BotSpec == BotInit /\ [][BotNext]_botVars
=============================================================================
