----------------------------- MODULE MCAccounts -----------------------------
(***************************************************************************)
(* What one user of the hosted product is answerable for: the compute that *)
(* is charged, the approvals given to the bot, the browser's external      *)
(* actions, the items of a project, and the sandboxes in which commands    *)
(* run on the user's behalf.  They meet only in rows named by a key, so a  *)
(* behaviour exercises one of them.                                        *)
(***************************************************************************)
EXTENDS TLC, Quota, BotApprovals, BrowserSession, ProjectWorkspace,
        ProductionSandbox, SandboxProcess

CONSTANTS q1, q2, q3

VARIABLE part   \* the part this behaviour exercises

executionVars == <<sandboxVars, backendVars, processVars>>
accountVars == <<part, quotaVars, approvalVars, browserVars, workspaceVars, executionVars>>

\* q1, q2 and q3 name the calls of every part.
CallSymmetry == Permutations({q1, q2, q3})

\* One and two compute units at weight 1; nothing and just over one unit.
TwoEstimates == {[inputTokens |-> 1000, outputTokens |-> 0],
                 [inputTokens |-> 1000, outputTokens |-> 500]}
TwoUsages == {[inputTokens |-> 0, outputTokens |-> 0],
              [inputTokens |-> 1000, outputTokens |-> 1]}

Action(type, risk, reversible, external) ==
  [type |-> type, risk |-> risk, reversible |-> reversible, externalSideEffect |-> external]
MCBotActions == {Action("gated", "low", TRUE, FALSE), Action("other", "high", FALSE, TRUE), Action("forbidden", "low", TRUE, FALSE)}

Request(operation) == [operation |-> operation, target |-> 1]
MCBrowserRequests == {Request(o) : o \in {"submit", "click", "fill", "read"}}

\* Two submissions that were asked for and granted.
Granted2 == LET event(type, a) == [type |-> type, action |-> a, request |-> Request("submit")] IN
  <<event("approval.required", 1), event("approval.granted", 1), event("approval.required", 2), event("approval.granted", 2)>>

\* A document, an import, a page and another file of the agent's; all but the import are context.
Row(origin) == [origin |-> origin, version |-> 1, text |-> 1, by |-> IF origin = "runtime" THEN "agent" ELSE "user"]
Doc == <<NoCall, 1>>
FourItems == (Doc :> Row("user")) @@ (<<NoCall, 2>> :> Row("import")) @@ (Page :> Row("runtime")) @@ (<<NoCall, 3>> :> Row("runtime"))

Parts == {"quota", "approvals", "session", "granted", "documents", "builds",
          "production", "registry", "process"}

AccountInit ==
  /\ part \in Parts
  /\ QuotaInit /\ ApprovalInit /\ autonomy = 3
  /\ browserLog = (IF part = "granted" THEN Granted2 ELSE <<>>)
  /\ browserCall = [c \in BrowserCalls |-> NewCall]
  /\ sessionLive = TRUE /\ actionLive = [a \in BrowserActions |-> TRUE] /\ posts = {}
  /\ items = (IF part = "documents" THEN FourItems ELSE <<>>)
  /\ contextItems = {i \in DOMAIN items : items[i].origin # "import"}
  /\ layout = [version |-> 0, open |-> {}, by |-> NoCall]
  /\ buildLog = <<>> /\ memories = {} /\ conversation = NoCall /\ lost = {}
  /\ request = [c \in WorkspaceCalls |-> [pc |-> "new"]]
  /\ SandboxInit /\ BackendInit /\ ProcessInit
  /\ part # "production" => allocation = NoSandbox

\* The requests that a part of the browser's behaviour is about.
Starts(c) == browserCall[c].pc = "new" /\ browserCall'[c].pc \notin {"new", "done"}
SessionOps == \A c \in BrowserCalls : Starts(c) =>
  /\ browserCall'[c].action \in {1, NoAction} /\ browserCall'[c].pc \notin {"pause", "reconcile"}
  /\ browserCall'[c].pc \in {"prepare", "execute"} => browserCall'[c].request.operation # "read"
GrantedOps == \A c \in BrowserCalls : Starts(c) =>
  /\ browserCall'[c].pc \in {"execute", "reconcile", "resume", "pause"}
  /\ browserCall'[c].pc = "execute" => browserCall'[c].request.operation = "submit"

\* The requests that a part of the workspace's behaviour is about.
BuildPcs == {"document", "target", "announce"}
Begins(c) == request[c].pc = "new" /\ request'[c].pc \notin {"new", "done"}
DocumentOps == \A c \in WorkspaceCalls : Begins(c) => request'[c].pc \notin BuildPcs
BuildOps ==
  /\ \A c \in WorkspaceCalls : Begins(c) =>
       request'[c].pc \in BuildPcs \/ (request'[c].pc = "agent" /\ Initials # {})
  /\ \A i \in DOMAIN items' : items'[i].text = 1

AccountNext ==
  \/ /\ part = "quota" /\ QuotaNext
     /\ UNCHANGED <<part, approvalVars, browserVars, workspaceVars, executionVars>>
  \/ /\ part = "approvals" /\ ApprovalNext
     /\ UNCHANGED <<part, quotaVars, browserVars, workspaceVars, executionVars>>
  \/ /\ part \in {"session", "granted"} /\ BrowserNext
     /\ IF part = "session" THEN SessionOps /\ actionLive'[2] ELSE GrantedOps /\ sessionLive' /\ actionLive' = actionLive
     /\ UNCHANGED <<part, quotaVars, approvalVars, workspaceVars, executionVars>>
  \/ /\ part \in {"documents", "builds"} /\ WorkspaceNext
     /\ IF part = "documents" THEN DocumentOps ELSE BuildOps
     /\ UNCHANGED <<part, quotaVars, approvalVars, browserVars, executionVars>>
  \/ /\ \/ part = "production" /\ SandboxNext /\ UNCHANGED <<backendVars, processVars>>
        \/ part = "registry" /\ BackendNext /\ UNCHANGED <<sandboxVars, processVars>>
        \/ part = "process" /\ ProcessNext /\ UNCHANGED <<sandboxVars, backendVars>>
     /\ UNCHANGED <<part, quotaVars, approvalVars, browserVars, workspaceVars>>

AccountSpec == AccountInit /\ [][AccountNext]_accountVars

-----------------------------------------------------------------------------
\* Commands outside the kernel: sandbox sessions end and answer as they must
\* (production.ts 380-720), and slots of the local runner are neither lost nor
\* handed out twice (sandbox/process.ts).
ExecutionSound == SandboxSound /\ SlotsAccounted
=============================================================================
