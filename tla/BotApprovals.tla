---------------------------- MODULE BotApprovals ----------------------------
(***************************************************************************)
(* Approvals of Odin Bot: what an action needs at an autonomy level        *)
(* (src/bot/autonomy.ts) and the rows that grant it                        *)
(* (src/bot/control-store.ts).  Every transaction is a step; expiry is an  *)
(* event of its own.                                                       *)
(***************************************************************************)
EXTENDS Integers, FiniteSets

CONSTANTS ApprovalIds,    \* ids of approval rows
          BotActions,     \* the actions a bot asks for; an action stands for its hash
          NoApproval

ASSUME BotActionsAssumption ==
  \A a \in BotActions : a \in [type : {"gated", "forbidden", "other"}, risk : {"low", "high", "critical"},
                               reversible : BOOLEAN, externalSideEffect : BOOLEAN]

Levels == 0 .. 4

VARIABLES
  autonomy,    \* autonomy_level of the bot
  approval,    \* rows of bot_approvals
  asked,       \* unread inbox items: the approvals the user is asked for
  approvedFor, \* ghost: per action how often the user approved it
  performed    \* ghost: per action how often an approval was consumed

approvalVars == <<autonomy, approval, asked, approvedFor, performed>>

-----------------------------------------------------------------------------
\* assessBotAction: the first rule that applies.
AssessBotAction(level, a) ==
  CASE a.type = "forbidden" -> "deny"
    [] a.type # "forbidden" /\ (a.type = "gated" \/ a.risk = "critical") -> "approval_required"
    [] OTHER ->
         CASE level = 0 -> "deny"
           [] level = 1 -> IF a.externalSideEffect THEN "deny" ELSE "allow"
           [] level = 2 -> IF a.externalSideEffect THEN "prepare" ELSE "allow"
           [] level = 3 -> IF a.externalSideEffect /\ (~a.reversible \/ a.risk = "high")
                           THEN "approval_required" ELSE "allow"
           [] OTHER -> IF ~a.reversible /\ a.externalSideEffect THEN "approval_required" ELSE "allow"

\* botRuntimeAccess: what the level opens for a run.
RuntimeAccess(level) == [readTools |-> level >= 1, workspaceWrites |-> level >= 3]

ApprovalInit ==
  /\ autonomy \in Levels
  /\ approval = [i \in ApprovalIds |-> NoApproval]
  /\ asked = {}
  /\ approvedFor = [a \in BotActions |-> 0] /\ performed = [a \in BotActions |-> 0]

SetBotAutonomy(level) ==
  /\ autonomy' = level
  /\ UNCHANGED <<approval, asked, approvedFor, performed>>

\* Rows of the action that the partial unique index keeps apart.
OpenFor(a) == {i \in ApprovalIds : approval[i] # NoApproval /\ approval[i].action = a
                                   /\ approval[i].status \in {"pending", "approved"}}

\* requestApproval: an open row of the same action is returned as it is, expired or not.
RequestApproval(a) ==
  /\ AssessBotAction(autonomy, a) = "approval_required"
  /\ IF OpenFor(a) # {}
     THEN asked' = asked \cup OpenFor(a) /\ UNCHANGED approval
     ELSE \E i \in ApprovalIds :
            /\ approval[i] = NoApproval
            /\ approval' = [approval EXCEPT ![i] = [action |-> a, status |-> "pending", live |-> TRUE]]
            /\ asked' = asked \cup {i}
  /\ UNCHANGED <<autonomy, approvedFor, performed>>

ApprovalExpires(i) ==
  /\ approval[i] # NoApproval /\ approval[i].live
  /\ approval' = [approval EXCEPT ![i].live = FALSE]
  /\ UNCHANGED <<autonomy, asked, approvedFor, performed>>

\* approvals: listing sweeps the pending rows that expired; approved ones stay.
ListApprovals ==
  /\ approval' = [i \in ApprovalIds |->
       IF approval[i] # NoApproval /\ approval[i].status = "pending" /\ ~approval[i].live
       THEN [approval[i] EXCEPT !.status = "expired"] ELSE approval[i]]
  /\ UNCHANGED <<autonomy, asked, approvedFor, performed>>

\* Fault: a decision is taken whatever the row's status is.
DecidesTwice(i, decision) ==
  /\ approval[i] # NoApproval /\ approval[i].live
  /\ approval' = [approval EXCEPT ![i].status = IF decision = "approve" THEN "approved" ELSE "rejected"]
  /\ asked' = asked \ {i}
  /\ UNCHANGED <<autonomy, approvedFor, performed>>

\* decideApproval: pending and live, or refused; the error also rolls back the write of "expired".
DecideApproval(i, decision) ==
  /\ approval[i] # NoApproval /\ approval[i].status = "pending" /\ approval[i].live
  /\ approval' = [approval EXCEPT ![i].status = IF decision = "approve" THEN "approved" ELSE "rejected"]
  /\ asked' = asked \ {i}
  /\ approvedFor' = IF decision = "approve" THEN [approvedFor EXCEPT ![approval[i].action] = @ + 1] ELSE approvedFor
  /\ UNCHANGED <<autonomy, performed>>

\* consumeApproval: one live approved row of exactly this action is used up.
ConsumeApproval(a) ==
  \E i \in OpenFor(a) :
    /\ approval[i].status = "approved" /\ approval[i].live
    /\ approval' = [approval EXCEPT ![i].status = "consumed"]
    /\ performed' = [performed EXCEPT ![a] = @ + 1]
    /\ UNCHANGED <<autonomy, asked, approvedFor>>

ApprovalNext ==
  \/ \E level \in Levels : SetBotAutonomy(level)
  \/ \E a \in BotActions : RequestApproval(a) \/ ConsumeApproval(a)
  \/ \E i \in ApprovalIds : ApprovalExpires(i) \/ \E d \in {"approve", "reject"} : DecideApproval(i, d)
  \/ ListApprovals

ApprovalSpec == ApprovalInit /\ [][ApprovalNext]_approvalVars

(***************************************************************************)
(* A gated action is performed at most as often as the user approved that  *)
(* very action, while levels change, requests repeat and rows expire; one  *)
(* row is open per action; no level lets an irreversible external action   *)
(* or a forbidden one through on its own (autonomy.ts 35-120,              *)
(* control-store.ts 67-195).                                               *)
(***************************************************************************)
ApprovalsExact ==
  /\ \A a \in BotActions : performed[a] <= approvedFor[a] /\ Cardinality(OpenFor(a)) <= 1
  /\ \A a \in BotActions : AssessBotAction(autonomy, a) = "allow" =>
       a.type = "other" /\ a.risk # "critical" /\ (a.externalSideEffect => a.reversible /\ autonomy >= 3)
  /\ RuntimeAccess(autonomy).workspaceWrites => RuntimeAccess(autonomy).readTools
=============================================================================
