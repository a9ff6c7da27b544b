-------------------------- MODULE ProjectWorkspace --------------------------
(***************************************************************************)
(* The items of one project and its builds (workspace-os.ts,               *)
(* neon-workspace.ts, build-mode.ts and their APIs).  The user edits items *)
(* under a version, the agent patches them under a hash of their text, and *)
(* a build is a chain of transactions whose last one announces it.  Rows   *)
(* are never deleted.  A text stands for its hash and, in the page, for    *)
(* the visual target it carries; bytes are not counted.                    *)
(***************************************************************************)
EXTENDS Integers, Sequences, FiniteSets

CONSTANTS
  WorkspaceCalls,  \* requests of the user and of the agent, each served once
  Texts,           \* contents
  ProjectRuns,     \* turns of the project
  AnsweredRuns,    \* those with a completed answer
  ItemLimit,       \* 200 items
  ContextLimit,    \* 16 context items
  Repository,      \* a GitHub repository is connected
  Page,            \* the previewed file, at a path of the agent's choosing
  NoCall,
  NoText

ASSUME WorkspaceAssumption ==
  /\ AnsweredRuns \subseteq ProjectRuns
  /\ NoCall \notin WorkspaceCalls
  /\ Page \notin WorkspaceCalls \X (1..3)   \* new items get random identities

VARIABLES
  items,         \* odin_api.workspace_files: by identity
  contextItems,  \* odin_api.workspace_context_items
  layout,        \* odin_api.workspace_layouts
  buildLog,      \* the events build.requested and build.run.bound
  memories,      \* memory records written by builds
  conversation,  \* the call whose transaction has the conversation row locked
  request,       \* per call: how far it is and what it has read
  lost           \* ghost: texts that were replaced unseen

workspaceVars == <<items, contextItems, layout, buildLog, memories, conversation, request, lost>>

Origins == {"user", "import", "runtime"}
BuildTargets == {"greenfield", "existing"}
Documents(c) == {<<c, n>> : n \in 1..3}

WorkspaceInit ==
  /\ items = <<>> /\ contextItems = {}
  /\ layout = [version |-> 0, open |-> {}, by |-> NoCall]
  /\ buildLog = <<>> /\ memories = {}
  /\ conversation = NoCall
  /\ request = [c \in WorkspaceCalls |-> [pc |-> "new"]]
  /\ lost = {}

At(c, pc) == request[c].pc = pc
Goes(c, state) == request' = [request EXCEPT ![c] = state]
Ended == [pc |-> "done"]
\* The foreign key of a new row needs the conversation row, which a patch locks.
RowFree == conversation = NoCall

-----------------------------------------------------------------------------
\* #checkLimit of a new item: counted, not locked.
CheckLimit == Cardinality(DOMAIN items) < ItemLimit

\* createDocument
CreateDocument(c, text) ==
  /\ At(c, "new")
  /\ Goes(c, IF CheckLimit THEN [pc |-> "insert", origin |-> "user", text |-> text, n |-> 1, then |-> "done"] ELSE Ended)
  /\ UNCHANGED <<items, contextItems, layout, buildLog, memories, conversation, lost>>

\* importText: a type that is not supported is refused.
ImportText(c, text, supported) ==
  /\ At(c, "new")
  /\ Goes(c, IF supported /\ CheckLimit
             THEN [pc |-> "insert", origin |-> "import", text |-> text, n |-> 1, then |-> "done"] ELSE Ended)
  /\ UNCHANGED <<items, contextItems, layout, buildLog, memories, conversation, lost>>

\* createArtifactFromRun: the answer of a run of this project.
CreateArtifactFromRun(c, run, text) ==
  /\ At(c, "new")
  /\ Goes(c, IF run \in AnsweredRuns /\ CheckLimit
             THEN [pc |-> "insert", origin |-> "runtime", text |-> text, n |-> 1, then |-> "done"] ELSE Ended)
  /\ UNCHANGED <<items, contextItems, layout, buildLog, memories, conversation, lost>>

WithRow(i, row) == [j \in DOMAIN items \cup {i} |-> IF j = i THEN row ELSE items[j]]

\* The INSERT of a new item, and what comes after it.
InsertItem(c) ==
  /\ At(c, "insert") /\ RowFree
  /\ items' = WithRow(<<c, request[c].n>>,
                [origin |-> request[c].origin, version |-> 1, text |-> request[c].text,
                 by |-> IF request[c].origin = "runtime" THEN "agent" ELSE "user"])
  /\ Goes(c, [request[c] EXCEPT !.pc = request[c].then])
  /\ UNCHANGED <<contextItems, layout, buildLog, memories, conversation, lost>>

\* item: the client or the agent has loaded it.
LoadItem(c, i, who) ==
  /\ At(c, "new") /\ i \in DOMAIN items
  /\ Goes(c, [pc |-> who, item |-> i, seen |-> [version |-> items[i].version, text |-> items[i].text]])
  /\ UNCHANGED <<items, contextItems, layout, buildLog, memories, conversation, lost>>

\* A text is replaced; the ghost notes a text that its writer has not seen.
Replaces(i, text, by, seen, racing) ==
  /\ items' = [items EXCEPT ![i].text = text, ![i].version = @ + 1, ![i].by = by]
  /\ lost' = IF items[i].text = seen THEN lost ELSE lost \cup {[by |-> by, of |-> items[i].by, racing |-> racing]}

\* Fault: the version is not compared.
UpdateAnyVersion(c, text) ==
  /\ At(c, "user")
  /\ LET i == request[c].item IN
     \/ items[i].origin # "runtime" /\ Replaces(i, text, "user", request[c].seen.text, FALSE)
     \/ UNCHANGED <<items, lost>>
  /\ Goes(c, Ended)
  /\ UNCHANGED <<contextItems, layout, buildLog, memories, conversation>>

\* updateDocument, on the locked row; it may be refused for its size.
UpdateDocument(c, text) ==
  /\ At(c, "user")
  /\ LET i == request[c].item IN
     \/ /\ items[i].origin # "runtime" /\ items[i].version = request[c].seen.version
        /\ Replaces(i, text, "user", request[c].seen.text, FALSE)
     \/ UNCHANGED <<items, lost>>
  /\ Goes(c, Ended)
  /\ UNCHANGED <<contextItems, layout, buildLog, memories, conversation>>

\* read of a path that has no file: "absent".
ReadAbsent(c) ==
  /\ At(c, "new") /\ Page \notin DOMAIN items
  /\ Goes(c, [pc |-> "agent", item |-> Page, seen |-> [version |-> 0, text |-> NoText]])
  /\ UNCHANGED <<items, contextItems, layout, buildLog, memories, conversation, lost>>

TextOf(i) == IF i \in DOMAIN items THEN items[i].text ELSE NoText

\* patch: the conversation is locked, the hash and the bounds are checked ...
PatchBegin(c) ==
  /\ At(c, "agent") /\ RowFree
  /\ LET i == request[c].item IN
     IF TextOf(i) = request[c].seen.text /\ (i \in DOMAIN items \/ CheckLimit)
     THEN conversation' = c /\ Goes(c, [request[c] EXCEPT !.pc = "patch"])
     ELSE Goes(c, Ended) /\ UNCHANGED conversation
  /\ UNCHANGED <<items, contextItems, layout, buildLog, memories, lost>>

\* ... and the row is written whatever it holds by then: the user's saves do not wait for the conversation.
PatchCommit(c, text) ==
  /\ At(c, "patch")
  /\ LET i == request[c].item IN
     IF i \in DOMAIN items THEN Replaces(i, text, "agent", request[c].seen.text, TRUE)
     ELSE /\ items' = WithRow(i, [origin |-> "runtime", version |-> 1, text |-> text, by |-> "agent"])
          /\ UNCHANGED lost
  /\ conversation' = NoCall /\ Goes(c, Ended)
  /\ UNCHANGED <<contextItems, layout, buildLog, memories>>

-----------------------------------------------------------------------------
\* setContext: the count ...
SetContext(c, i, selected) ==
  /\ At(c, "new")
  /\ Goes(c, IF i \in DOMAIN items /\ (selected => Cardinality(contextItems) < ContextLimit)
             THEN [pc |-> "context", item |-> i, selected |-> selected, then |-> "done"] ELSE Ended)
  /\ UNCHANGED <<items, contextItems, layout, buildLog, memories, conversation, lost>>

\* ... and the row.
ContextRow(c) ==
  /\ At(c, "context") /\ RowFree
  /\ contextItems' = IF request[c].selected THEN contextItems \cup {request[c].item} ELSE contextItems \ {request[c].item}
  /\ Goes(c, [request[c] EXCEPT !.pc = request[c].then])
  /\ UNCHANGED <<items, layout, buildLog, memories, conversation, lost>>

\* layout, read by a client, ...
LoadLayout(c) ==
  /\ At(c, "new")
  /\ Goes(c, [pc |-> "layout", version |-> layout.version, by |-> layout.by])
  /\ UNCHANGED <<items, contextItems, layout, buildLog, memories, conversation, lost>>

\* ... and saveLayout: two first rows conflict on the key, later ones on the version.
SaveLayout(c, open) ==
  /\ At(c, "layout")
  /\ IF open \subseteq DOMAIN items /\ layout.version = request[c].version
     THEN /\ layout' = [version |-> layout.version + 1, open |-> open, by |-> c]
          /\ lost' = IF layout.by = request[c].by THEN lost ELSE lost \cup {[by |-> "layout", of |-> "layout", racing |-> FALSE]}
     ELSE UNCHANGED <<layout, lost>>
  /\ Goes(c, Ended)
  /\ UNCHANGED <<items, contextItems, buildLog, memories, conversation>>

-----------------------------------------------------------------------------
\* Fault: the last event only.
LastInitials == {k \in DOMAIN buildLog : k = Len(buildLog) /\ buildLog[k].kind = "initial"}

\* #initial
Initials == {k \in DOMAIN buildLog : buildLog[k].kind = "initial"}
\* summary: the first of them is the project's build.
FirstInitial == buildLog[CHOOSE k \in Initials : \A j \in Initials : k <= j]

\* #requireExistingRepository
RepositoryThere(target) == target = "existing" => Repository

\* start: the checks ...
StartBuild(c, target) ==
  /\ At(c, "new")
  /\ Goes(c, IF Initials = {} /\ RepositoryThere(target)
             THEN [pc |-> "document", kind |-> "initial", target |-> target, readAt |-> Len(buildLog), n |-> 1,
                   origin |-> "user", text |-> NoText, item |-> <<c, 1>>, selected |-> TRUE, then |-> "next"] ELSE Ended)
  /\ UNCHANGED <<items, contextItems, layout, buildLog, memories, conversation, lost>>

\* ... the three documents, one createDocument each ...
BuildDocument(c, text) ==
  /\ At(c, "document")
  /\ Goes(c, IF CheckLimit
             THEN [request[c] EXCEPT !.pc = "insert", !.text = text, !.then = IF request[c].n = 3 THEN "select" ELSE "next"]
             ELSE Ended)
  /\ UNCHANGED <<items, contextItems, layout, buildLog, memories, conversation, lost>>

NextDocument(c) ==
  /\ At(c, "next")
  /\ Goes(c, [request[c] EXCEPT !.pc = "document", !.n = @ + 1])
  /\ UNCHANGED <<items, contextItems, layout, buildLog, memories, conversation, lost>>

\* ... which are selected as context in the same order, n of them still to come, ...
BuildContext(c) ==
  /\ At(c, "select")
  /\ LET n == request[c].n IN
     Goes(c, IF n = 0 THEN [request[c] EXCEPT !.pc = "remember"]
             ELSE IF Cardinality(contextItems) < ContextLimit
             THEN [request[c] EXCEPT !.pc = "context", !.item = <<c, 4 - n>>, !.then = "select", !.n = n - 1]
             ELSE Ended)
  /\ UNCHANGED <<items, contextItems, layout, buildLog, memories, conversation, lost>>

\* ... and the specification becomes a memory record.
PromoteSpec(c) ==
  /\ At(c, "remember") /\ RowFree
  /\ memories' = memories \cup {c}
  /\ Goes(c, [request[c] EXCEPT !.pc = "announce"])
  /\ UNCHANGED <<items, contextItems, layout, buildLog, conversation, lost>>

\* buildPreview: there is a page, and not a document of the user's.
Previewed == Page \in DOMAIN items
\* extractVisualTargets of the previewed file
VisualTargets == IF Previewed THEN {items[Page].text} ELSE {}

\* requestIteration: the summary, ...
RequestIteration(c, ref) ==
  /\ At(c, "new")
  /\ Goes(c, IF Initials = {} THEN Ended
             ELSE [pc |-> "target", kind |-> "iteration", target |-> FirstInitial.target, ref |-> ref, readAt |-> Len(buildLog)])
  /\ UNCHANGED <<items, contextItems, layout, buildLog, memories, conversation, lost>>

\* ... the visual target, if one is named, and a decision to remember.
CheckTarget(c, rememberDecision) ==
  /\ At(c, "target")
  /\ IF request[c].ref = NoText \/ request[c].ref \in VisualTargets
     THEN Goes(c, [request[c] EXCEPT !.pc = IF rememberDecision THEN "remember" ELSE "announce"]) ELSE Goes(c, Ended)
  /\ UNCHANGED <<items, contextItems, layout, buildLog, memories, conversation, lost>>

\* bindRun: a run of the project, a request on record and no such binding yet.
BindRun(c, run, k) ==
  /\ At(c, "new") /\ k \in DOMAIN buildLog /\ buildLog[k].kind # "bound" /\ run \in ProjectRuns
  /\ Goes(c, IF \E j \in DOMAIN buildLog : buildLog[j].kind = "bound" /\ buildLog[j].run = run /\ buildLog[j].request = buildLog[k].request
             THEN Ended
             ELSE [pc |-> "announce", kind |-> "bound", run |-> run, request |-> buildLog[k].request, readAt |-> Len(buildLog)])
  /\ UNCHANGED <<items, contextItems, layout, buildLog, memories, conversation, lost>>

\* #emit: the event, with a new identity for a request.
EmitBuild(c) ==
  /\ At(c, "announce") /\ RowFree
  /\ LET r == request[c] IN
     buildLog' = Append(buildLog,
       IF r.kind = "bound" THEN [kind |-> "bound", run |-> r.run, request |-> r.request, readAt |-> r.readAt]
       ELSE [kind |-> r.kind, request |-> c, target |-> r.target, readAt |-> r.readAt,
             documents |-> IF r.kind = "initial" THEN Documents(c) ELSE {},
             memory |-> IF r.kind = "initial" \/ c \in memories THEN c ELSE NoCall])
  /\ Goes(c, Ended)
  /\ UNCHANGED <<items, contextItems, layout, memories, conversation, lost>>

\* The invocation ends between two transactions, or within one, which rolls back.
WorkspaceCallDies(c) ==
  /\ request[c].pc \notin {"new", "done"}
  /\ Goes(c, Ended)
  /\ conversation' = IF conversation = c THEN NoCall ELSE conversation
  /\ UNCHANGED <<items, contextItems, layout, buildLog, memories, lost>>

\* build-api: the requests about builds.
BuildNext ==
  \/ \E c \in WorkspaceCalls : NextDocument(c) \/ BuildContext(c) \/ PromoteSpec(c) \/ EmitBuild(c)
  \/ \E c \in WorkspaceCalls, text \in Texts : BuildDocument(c, text)
  \/ \E c \in WorkspaceCalls, target \in BuildTargets : StartBuild(c, target)
  \/ \E c \in WorkspaceCalls, ref \in Texts \cup {NoText} : RequestIteration(c, ref)
  \/ \E c \in WorkspaceCalls, rememberDecision \in BOOLEAN : CheckTarget(c, rememberDecision)
  \/ \E c \in WorkspaceCalls, run \in ProjectRuns, k \in DOMAIN buildLog : BindRun(c, run, k)

\* workspace-api, the agent's tools and the builds.
WorkspaceNext ==
  \/ \E c \in WorkspaceCalls :
       InsertItem(c) \/ ContextRow(c) \/ ReadAbsent(c) \/ PatchBegin(c) \/ LoadLayout(c) \/ WorkspaceCallDies(c)
  \/ \E c \in WorkspaceCalls, text \in Texts :
       \/ CreateDocument(c, text) \/ UpdateDocument(c, text) \/ PatchCommit(c, text)
       \/ \E supported \in BOOLEAN : ImportText(c, text, supported)
       \/ \E run \in ProjectRuns : CreateArtifactFromRun(c, run, text)
  \/ \E c \in WorkspaceCalls, i \in DOMAIN items :
       \/ \E who \in {"user", "agent"} : LoadItem(c, i, who)
       \/ \E selected \in BOOLEAN : SetContext(c, i, selected)
  \/ \E c \in WorkspaceCalls, open \in {{}, DOMAIN items} : SaveLayout(c, open)
  \/ BuildNext

WorkspaceSpec == WorkspaceInit /\ [][WorkspaceNext]_workspaceVars

-----------------------------------------------------------------------------
\* A text or a layout is replaced by someone who has seen it; the one exception is a
\* save of the user's that commits within the transaction of a patch of the agent's.
NoLostSave == \A l \in lost : l.by = "agent" /\ l.of = "user" /\ l.racing

\* What is announced is complete: its documents and its memory are there, and no build shares them.
AnnouncedComplete == \A k \in Initials :
  /\ buildLog[k].documents \subseteq DOMAIN items /\ buildLog[k].memory \in memories
  /\ \A j \in Initials \ {k} : buildLog[j].documents \cap buildLog[k].documents = {}

\* A second build, or a second binding of the same run, had looked before the first one was on record.
RepeatedOnlyByRace == \A j, k \in DOMAIN buildLog :
  /\ j < k /\ buildLog[j].kind = buildLog[k].kind
  /\ \/ buildLog[j].kind = "initial"
     \/ buildLog[j].kind = "bound" /\ buildLog[j].run = buildLog[k].run /\ buildLog[j].request = buildLog[k].request
  => buildLog[k].readAt < j

\* Iterations work on the target of the first build, also when two have started.
IterationsFollow == \A k \in DOMAIN buildLog :
  buildLog[k].kind = "iteration" =>
    Initials # {} /\ buildLog[k].target = FirstInitial.target /\ FirstInitial.request # buildLog[k].request

\* Nobody edits what a run has produced.
ArtifactsByRuns == \A i \in DOMAIN items : items[i].origin = "runtime" => items[i].by = "agent"

(***************************************************************************)
(* The user, the agent and two builds at work on one project, each of them *)
(* able to stop anywhere: no save is lost but in a patch's transaction,    *)
(* builds are announced complete, once unless they race, and iterations    *)
(* follow the first (workspace-os.ts 141-491, neon-workspace.ts 58-100,    *)
(* build-mode.ts 64-229).                                                  *)
(***************************************************************************)
WorkspaceSound == NoLostSave /\ AnnouncedComplete /\ RepeatedOnlyByRace /\ IterationsFollow /\ ArtifactsByRuns
=============================================================================
