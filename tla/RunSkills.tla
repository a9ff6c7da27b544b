----------------------------- MODULE RunSkills -----------------------------
(***************************************************************************)
(* Product skills: the installations of one skill (skills-api.ts,          *)
(* skill-product-store.ts, skills-product.ts) and the skill of one hosted  *)
(* run (run-skills.ts, neon-store.ts resolveRunSkill, recordSkillResult).  *)
(* A revision of the catalog is part of a build; an invocation keeps the   *)
(* build it was started with.  Every transaction of a worker is fenced by  *)
(* its lease.                                                              *)
(***************************************************************************)
EXTENDS Integers, Sequences

CONSTANTS
  Revisions,       \* builds of the catalog's skill: version and content hash
  NeedsConnection, \* the skill requires the GitHub connection
  SkillRequests,   \* invocations of skills-api
  RunWorkers,      \* invocations of the run, each with a lease token of its own
  NotInstalled

ASSUME RevisionsAreNumbers == Revisions \subseteq Nat \ {0}
ASSUME ZeroIsNoWorker == 0 \notin RunWorkers
ASSUME NeedsConnectionIsBoolean == NeedsConnection \in BOOLEAN

VARIABLES
  build,         \* the revision in the deployed build, and those of earlier builds
  connected,     \* a GitHub repository is connected
  installs,      \* odin_api.skill_installations, by scope
  skillRequest,  \* per invocation: what it has read so far
  runEvents,     \* the skill events and the answers of the run
  runCheckpoint, \* odin_api.checkpoints: is one saved, and the revision in its messages; 0: no skill
  runLease,      \* the worker that holds the lease; 0: none
  runWorker      \* per invocation of the run

runSkillVars == <<build, connected, installs, skillRequest, runEvents, runCheckpoint, runLease, runWorker>>

Scopes == {"global", "project"}

RunSkillInit ==
  /\ build \in {[revision |-> r, deployed |-> {r}] : r \in Revisions}
  /\ connected \in BOOLEAN
  /\ installs = [s \in Scopes |-> NotInstalled]
  /\ skillRequest = [q \in SkillRequests |-> [pc |-> "idle"]]
  /\ runEvents = <<>>
  /\ runCheckpoint = [saved |-> FALSE, revision |-> 0]
  /\ runLease = 0
  /\ runWorker = [w \in RunWorkers |-> [pc |-> "new"]]

Deploy(r) ==
  /\ r # build.revision
  /\ build' = [revision |-> r, deployed |-> build.deployed \cup {r}]
  /\ UNCHANGED <<connected, installs, skillRequest, runEvents, runCheckpoint, runLease, runWorker>>

ToggleConnection ==
  /\ connected' = ~connected
  /\ UNCHANGED <<build, installs, skillRequest, runEvents, runCheckpoint, runLease, runWorker>>

-----------------------------------------------------------------------------
(* Requests of the product.  connections() is the first read of each. *)

StartRequest(q, op, scope, expected) ==
  /\ skillRequest[q].pc = "idle"
  /\ skillRequest' = [skillRequest EXCEPT ![q] =
       [pc |-> "started", op |-> op, scope |-> scope, expected |-> expected,
        build |-> build.revision, connected |-> connected]]
  /\ UNCHANGED <<build, connected, installs, runEvents, runCheckpoint, runLease, runWorker>>

\* requiredConnections
ConnectionsThere(snapshot) == NeedsConnection => snapshot.connected

Asked(q, op) == skillRequest[q].pc = "started" /\ skillRequest[q].op = op
RequestDone(q) == skillRequest' = [skillRequest EXCEPT ![q] = [pc |-> "idle"]]

\* assertInstallRequest and install: another revision is a conflict, the same a replay.
InstallSkill(q) ==
  /\ Asked(q, "install")
  /\ LET r == skillRequest[q] IN
     installs' = IF r.expected = r.build /\ ConnectionsThere(r) /\ installs[r.scope] = NotInstalled
                 THEN [installs EXCEPT ![r.scope] = [revision |-> r.build, enabled |-> TRUE, previous |-> 0]]
                 ELSE installs
  /\ RequestDone(q)
  /\ UNCHANGED <<build, connected, runEvents, runCheckpoint, runLease, runWorker>>

\* update: one statement that names the revision it replaces.
UpdateSkill(q) ==
  /\ Asked(q, "update")
  /\ LET r == skillRequest[q] now == installs[r.scope] IN
     installs' = IF ConnectionsThere(r) /\ now # NotInstalled /\ now.revision = r.expected
                 THEN [installs EXCEPT ![r.scope].revision = r.build, ![r.scope].previous = now.revision]
                 ELSE installs
  /\ RequestDone(q)
  /\ UNCHANGED <<build, connected, runEvents, runCheckpoint, runLease, runWorker>>

\* rollback: under the row's lock, the two revisions change places.
RollbackSkill(q) ==
  /\ Asked(q, "rollback")
  /\ LET r == skillRequest[q] now == installs[r.scope] IN
     installs' = IF now # NotInstalled /\ now.revision = r.expected /\ now.previous # 0
                 THEN [installs EXCEPT ![r.scope].revision = now.previous, ![r.scope].previous = now.revision]
                 ELSE installs
  /\ RequestDone(q)
  /\ UNCHANGED <<build, connected, runEvents, runCheckpoint, runLease, runWorker>>

\* The state and the removal compare the revision in a transaction of its own ...
CheckInstallation(q) ==
  /\ \E op \in {"enable", "disable", "remove"} : Asked(q, op)
  /\ LET r == skillRequest[q] now == installs[r.scope] IN
     skillRequest' = [skillRequest EXCEPT ![q] =
       IF now = NotInstalled \/ now.revision # r.expected \/ (r.op = "enable" /\ ~ConnectionsThere(r))
       THEN [pc |-> "idle"] ELSE [r EXCEPT !.pc = "checked"]]
  /\ UNCHANGED <<build, connected, installs, runEvents, runCheckpoint, runLease, runWorker>>

\* ... and change whatever is installed in the next one.
SetEnabled(q) ==
  /\ skillRequest[q].pc = "checked" /\ skillRequest[q].op \in {"enable", "disable"}
  /\ LET r == skillRequest[q] IN
     installs' = IF installs[r.scope] = NotInstalled THEN installs
                 ELSE [installs EXCEPT ![r.scope].enabled = (r.op = "enable")]
  /\ RequestDone(q)
  /\ UNCHANGED <<build, connected, runEvents, runCheckpoint, runLease, runWorker>>

RemoveSkill(q) ==
  /\ skillRequest[q].pc = "checked" /\ skillRequest[q].op = "remove"
  /\ installs' = [installs EXCEPT ![skillRequest[q].scope] = NotInstalled]
  /\ RequestDone(q)
  /\ UNCHANGED <<build, connected, runEvents, runCheckpoint, runLease, runWorker>>

-----------------------------------------------------------------------------
(* The run *)

ClaimRun(w) ==
  /\ runLease = 0 /\ runWorker[w].pc = "new"
  /\ runLease' = w
  /\ runWorker' = [runWorker EXCEPT ![w] = [pc |-> "claimed", build |-> build.revision]]
  /\ UNCHANGED <<build, connected, installs, skillRequest, runEvents, runCheckpoint>>

\* The lease expires or is released, its worker alive or not.
LeaseExpires ==
  /\ runLease # 0
  /\ runLease' = 0
  /\ UNCHANGED <<build, connected, installs, skillRequest, runEvents, runCheckpoint, runWorker>>

HoldsRun(w) == runLease = w
WorkerAt(w, pc) == HoldsRun(w) /\ runWorker[w].pc = pc
Emitted(type, revision) == runEvents' = Append(runEvents, [type |-> type, revision |-> revision])
WorkerFails(w) == runWorker' = [runWorker EXCEPT ![w] = [pc |-> "failed", build |-> @.build]]

\* The newest event of some types.
EventsOf(types) == {i \in DOMAIN runEvents : runEvents[i].type \in types}
NewestEvent(types) ==
  IF EventsOf(types) = {} THEN [type |-> "none", revision |-> 0]
  ELSE runEvents[CHOOSE i \in EventsOf(types) : \A j \in EventsOf(types) : j <= i]

\* runChatAgent: with a checkpoint the run goes on from its messages, whatever build this is;
\* only without one is the history, and with it the skill, put together.
ReadRunCheckpoint(w) ==
  /\ WorkerAt(w, "claimed")
  /\ runWorker' = [runWorker EXCEPT ![w] =
       IF runCheckpoint.saved THEN [pc |-> "saved", build |-> @.build, revision |-> runCheckpoint.revision]
       ELSE [pc |-> "resolve", build |-> @.build]]
  /\ UNCHANGED <<build, connected, installs, skillRequest, runEvents, runCheckpoint, runLease>>

\* restoreRunSkill: the build still has the pinned revision.
Restorable(w, pinned) == pinned.revision = runWorker[w].build

\* Fault: only a load pins the revision.
ResolveLoaded(w) ==
  /\ WorkerAt(w, "resolve")
  /\ LET pinned == NewestEvent({"skill.loaded"}) IN
     runWorker' = [runWorker EXCEPT ![w] =
       CASE pinned.type = "none" -> [pc |-> "installations", build |-> @.build]
         [] pinned.type # "none" /\ ~Restorable(w, pinned) -> [pc |-> "failed", build |-> @.build]
         [] OTHER -> [pc |-> "working", build |-> @.build, revision |-> pinned.revision]]
  /\ UNCHANGED <<build, connected, installs, skillRequest, runEvents, runCheckpoint, runLease>>

\* resolveRunSkill: a selection or a load of this run pins the revision;
\* restoreRunSkill refuses it when the build has another.
ResolvePinned(w) ==
  /\ WorkerAt(w, "resolve")
  /\ LET pinned == NewestEvent({"skill.selected", "skill.loaded"}) IN
     runWorker' = [runWorker EXCEPT ![w] =
       CASE pinned.type = "none" -> [pc |-> "installations", build |-> @.build]
         [] pinned.type # "none" /\ ~Restorable(w, pinned) -> [pc |-> "failed", build |-> @.build]
         [] OTHER -> [pc |-> IF pinned.type = "skill.selected" THEN "load" ELSE "working",
                      build |-> @.build, revision |-> pinned.revision]]
  /\ UNCHANGED <<build, connected, installs, skillRequest, runEvents, runCheckpoint, runLease>>

\* installationFor: the project's before the global one.
InstallationFor == IF installs["project"] # NotInstalled THEN installs["project"] ELSE installs["global"]

\* selectRunSkill reads the installations and the connections in two transactions.
ReadInstallations(w) ==
  /\ WorkerAt(w, "installations")
  /\ runWorker' = [runWorker EXCEPT ![w] = [pc |-> "connections", build |-> @.build, installed |-> InstallationFor]]
  /\ UNCHANGED <<build, connected, installs, skillRequest, runEvents, runCheckpoint, runLease>>

\* projectSkillCatalog: the status that the worker's build gives the installation.
CatalogStatus(revision, installed, snapshot) ==
  CASE installed = NotInstalled -> IF ConnectionsThere(snapshot) THEN "AVAILABLE" ELSE "REQUIRES_CONNECTION"
    [] OTHER ->
         CASE installed.revision # revision -> "UPDATE_AVAILABLE"
           [] installed.revision = revision /\ ~installed.enabled -> "DISABLED"
           [] OTHER -> IF ConnectionsThere(snapshot) THEN "INSTALLED" ELSE "REQUIRES_CONNECTION"

\* The rest of selectRunSkill: blocked, selected or none.
SelectRunSkill(w) ==
  /\ WorkerAt(w, "connections")
  /\ LET r == runWorker[w]
         status == CatalogStatus(r.build, r.installed, [connected |-> connected])
         enabled == r.installed # NotInstalled /\ r.installed.enabled IN
     runWorker' = [runWorker EXCEPT ![w] =
       CASE enabled /\ status \in {"REQUIRES_CONNECTION", "UPDATE_AVAILABLE"} ->
              [pc |-> "blocked", build |-> r.build, status |-> status, revision |-> r.installed.revision]
         [] enabled /\ status = "INSTALLED" -> [pc |-> "select", build |-> r.build, revision |-> r.build]
         [] OTHER -> [pc |-> "working", build |-> r.build, revision |-> 0]]
  /\ UNCHANGED <<build, connected, installs, skillRequest, runEvents, runCheckpoint, runLease>>

\* The event, then the error that ends the run's attempt.
EmitBlocked(w) ==
  /\ WorkerAt(w, "blocked")
  /\ Emitted(IF runWorker[w].status = "REQUIRES_CONNECTION" THEN "skill.connection_required" ELSE "skill.verification_failed",
             runWorker[w].revision)
  /\ WorkerFails(w)
  /\ UNCHANGED <<build, connected, installs, skillRequest, runCheckpoint, runLease>>

EmitSelected(w) ==
  /\ WorkerAt(w, "select")
  /\ Emitted("skill.selected", runWorker[w].revision)
  /\ runWorker' = [runWorker EXCEPT ![w].pc = "load"]
  /\ UNCHANGED <<build, connected, installs, skillRequest, runCheckpoint, runLease>>

EmitLoaded(w) ==
  /\ WorkerAt(w, "load")
  /\ Emitted("skill.loaded", runWorker[w].revision)
  /\ runWorker' = [runWorker EXCEPT ![w].pc = "working"]
  /\ UNCHANGED <<build, connected, installs, skillRequest, runCheckpoint, runLease>>

\* The first save of the agent; the later ones keep the same messages of the skill.
SaveRunCheckpoint(w) ==
  /\ WorkerAt(w, "working")
  /\ runCheckpoint' = [saved |-> TRUE, revision |-> runWorker[w].revision]
  /\ runWorker' = [runWorker EXCEPT ![w].pc = "saved"]
  /\ UNCHANGED <<build, connected, installs, skillRequest, runEvents, runLease>>

\* emit("answer") and recordSkillResult in one transaction: a pinned revision
\* that the build lacks takes the answer with it.
EmitAnswer(w) ==
  /\ WorkerAt(w, "saved")
  /\ LET pinned == NewestEvent({"skill.loaded"}) IN
     \/ /\ pinned.type # "none" /\ ~Restorable(w, pinned)
        /\ WorkerFails(w) /\ UNCHANGED runEvents
     \/ /\ pinned.type = "none" \/ Restorable(w, pinned)
        /\ runEvents' = runEvents \o <<[type |-> "answer", revision |-> runWorker[w].revision]>>
             \o (IF pinned.type = "none" THEN <<>> ELSE <<[type |-> "skill.result", revision |-> pinned.revision]>>)
        /\ runWorker' = [runWorker EXCEPT ![w].pc = "done"]
  /\ UNCHANGED <<build, connected, installs, skillRequest, runCheckpoint, runLease>>

RunSkillNext ==
  \/ \E r \in Revisions : Deploy(r)
  \/ ToggleConnection
  \/ \E q \in SkillRequests, op \in {"install", "enable", "disable", "update", "rollback", "remove"},
        s \in Scopes, e \in Revisions : StartRequest(q, op, s, e)
  \/ \E q \in SkillRequests : InstallSkill(q) \/ UpdateSkill(q) \/ RollbackSkill(q) \/ CheckInstallation(q)
                                \/ SetEnabled(q) \/ RemoveSkill(q)
  \/ \E w \in RunWorkers :
       \/ ClaimRun(w) \/ ReadRunCheckpoint(w) \/ ResolvePinned(w) \/ ReadInstallations(w) \/ SelectRunSkill(w)
       \/ EmitBlocked(w) \/ EmitSelected(w) \/ EmitLoaded(w) \/ SaveRunCheckpoint(w) \/ EmitAnswer(w)
  \/ LeaseExpires

RunSkillSpec == RunSkillInit /\ [][RunSkillNext]_runSkillVars

-----------------------------------------------------------------------------
(***************************************************************************)
(* A run follows one revision of a skill, whatever is deployed, installed, *)
(* updated or removed meanwhile and however often its lease changes hands: *)
(* every selection, load and result of the run names the same revision,    *)
(* and so does the checkpoint from which another worker resumes; every     *)
(* answer given after a load comes with a result, and the worker that      *)
(* wrote it had exactly that revision in its context.                      *)
(* An installation never names a revision that no build had (agent.ts      *)
(* 47-102, neon-store.ts 261-362, run-skills.ts 140-246,                   *)
(* skill-product-store.ts 109-261).                                        *)
(***************************************************************************)
OneRevisionPerRun ==
  /\ \A i, j \in DOMAIN runEvents :
       {runEvents[i].type, runEvents[j].type} \subseteq {"skill.selected", "skill.loaded", "skill.result"}
         => runEvents[i].revision = runEvents[j].revision
  /\ \A i \in DOMAIN runEvents : runCheckpoint.saved /\ runEvents[i].type \in {"skill.selected", "skill.loaded", "skill.result"}
       => runEvents[i].revision = runCheckpoint.revision
  /\ \A i \in DOMAIN runEvents : runEvents[i].type = "skill.result"
       => i > 1 /\ runEvents[i - 1].type = "answer" /\ runEvents[i - 1].revision = runEvents[i].revision
  /\ \A i, j \in DOMAIN runEvents : i < j /\ runEvents[i].type = "skill.loaded" /\ runEvents[j].type = "answer"
       => j < Len(runEvents) /\ runEvents[j + 1].type = "skill.result"
  /\ \A s \in Scopes : installs[s] # NotInstalled
       => {installs[s].revision, installs[s].previous} \subseteq build.deployed \cup {0}
=============================================================================
