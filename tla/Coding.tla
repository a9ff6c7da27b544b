------------------------------- MODULE Coding -------------------------------
(***************************************************************************)
(* The two coding orchestrators.                                           *)
(*                                                                         *)
(* CodingOrchestrator (src/runtime/coding.ts) with its contract, its       *)
(* verification request and the grounded provider: one mission changes one *)
(* file, checks it, repairs it once and completes through the gate.        *)
(* Several start and resume calls may drive the same mission: each of      *)
(* their mission operations loads, appends at the version it expects and   *)
(* loads again, and each tool call carries an idempotency key.  The        *)
(* workspace, the quality command and the model are external.              *)
(*                                                                         *)
(* A file is its text, as a number, and whether it has a tail beyond what  *)
(* the prompts show; the quality command accepts the texts in GoodTexts.   *)
(***************************************************************************)
EXTENDS VerificationGate, Reliability

CONSTANTS Drivers, Texts, GoodTexts, LongFile, MaxOutsideEdits

VARIABLES
  file,       \* the target file
  mission,    \* its state, and the plan it was created with
  driver,     \* the start and resume calls
  keyed,      \* #records of the tool runtime: answers under an idempotency key
  outside     \* edits of the file by somebody else
codingVars == <<file, mission, driver, keyed, outside>>

\* A step of a script; "stays" is a step that keeps the state of the mission.
Op(label, to) == [do |-> "op", label |-> label, to |-> to]
Do(what, label) == [do |-> what, label |-> label, to |-> "stays"]

\* start, up to the first quality run.
StartScript ==
  <<Do("plan", "plan"), Op("create", "CREATED"), Op("bootstrap-usage", "stays"), Op("state-understanding", "UNDERSTANDING"),
    Op("state-retrieving", "RETRIEVING"), Op("state-planning", "PLANNING"), Op("state-risk_check", "RISK_CHECK"),
    Op("state-executing", "EXECUTING"), Op("change-running", "stays"), Op("initial-patch-reserve", "stays"), Do("patch", "initial-patch"),
    Op("quality-running", "stays"), Op("state-observing", "OBSERVING"), Op("state-verifying", "VERIFYING"),
    Op("quality-first-reserve", "stays"), Do("quality", "quality-first")>>

\* After a failed first run.
DiagnoseScript == <<Op("quality-failure", "stays"), Op("diagnosing", "DIAGNOSING"), Do("decide", "decide")>>

\* #repairAndComplete
RepairScript ==
  <<Op("repair-read-reserve", "stays"), Do("read", "repair-read"), Op("repair-model-attempt", "stays"), Do("model", "repair-model"),
    Op("repair-model-usage", "stays"), Op("repairing", "REPAIRING"), Op("repair-reserve", "stays"), Do("patch", "repair"),
    Op("verify-repair", "VERIFYING"), Op("quality-repair-reserve", "stays"), Do("quality", "quality-repair")>>

FailScript == <<Op("repair-failed", "FAILED"), Do("throw", "still-failing")>>

\* #complete
CompleteScript ==
  <<Op("verification-read-reserve", "stays"), Do("read", "verification-read"), Do("gate", "gate"), Op("change-verified", "stays"),
    Op("quality-verified", "stays"), Op("checkpointing", "CHECKPOINTING"), Op("final-audit", "FINAL_AUDIT"),
    Op("completed", "COMPLETED"), Do("return", "completed")>>

\* #denyCompletion
DenyScript == <<Op("verification-block", "BLOCKED"), Do("throw", "denied")>>

Scripts == [start |-> StartScript, diagnose |-> DiagnoseScript, repair |-> RepairScript, fail |-> FailScript,
            complete |-> CompleteScript, deny |-> DenyScript]

\* NORMAL_TRANSITIONS of the mission, and the interruptions this orchestrator asks for.
Allowed(from, to) ==
  <<from, to>> \in {<<"CREATED", "UNDERSTANDING">>, <<"UNDERSTANDING", "RETRIEVING">>, <<"RETRIEVING", "PLANNING">>, <<"PLANNING", "RISK_CHECK">>,
    <<"RISK_CHECK", "EXECUTING">>, <<"EXECUTING", "OBSERVING">>, <<"OBSERVING", "VERIFYING">>, <<"VERIFYING", "DIAGNOSING">>,
    <<"DIAGNOSING", "REPAIRING">>, <<"REPAIRING", "VERIFYING">>, <<"VERIFYING", "CHECKPOINTING">>,
    <<"CHECKPOINTING", "FINAL_AUDIT">>, <<"FINAL_AUDIT", "COMPLETED">>}

Terminal == {"COMPLETED", "BLOCKED", "FAILED"}

\* script, step: where the call is; fresh: the version it goes by is the mission's; same: the event it is about to append was appended by another call.
Driver0 == [script |-> "none", step |-> 0, at |-> "idle", fresh |-> FALSE, same |-> FALSE, seen |-> 0, proposal |-> 0, exit |-> 0]

CodingInit ==
  /\ file = [text |-> 0, tail |-> LongFile]
  /\ mission = [state |-> "none", plan |-> 0]
  /\ driver = [d \in Drivers |-> Driver0]
  /\ keyed = <<>>
  /\ outside = 0

\* start validates its input, discovers the repository and asks for a plan.
Start(d) ==
  /\ driver[d].at = "idle"
  /\ driver' = [driver EXCEPT ![d] = [Driver0 EXCEPT !.script = "start", !.step = 1, !.at = "step", !.seen = file.text]]
  /\ UNCHANGED <<file, mission, keyed, outside>>

\* resume: only a mission in DIAGNOSING, which has a recorded failure.
Resume(d) ==
  /\ driver[d].at = "idle" /\ mission.state = "DIAGNOSING"
  /\ driver' = [driver EXCEPT ![d] = [Driver0 EXCEPT !.script = "repair", !.step = 1, !.at = "step", !.fresh = TRUE]]
  /\ UNCHANGED <<file, mission, keyed, outside>>

Step(d) == Scripts[driver[d].script][driver[d].step]
Past(d) == [driver[d] EXCEPT !.step = @ + 1, !.at = "step"]
Enter(d, script) == [driver[d] EXCEPT !.script = script, !.step = 1, !.at = "step"]
Threw(d) == [Driver0 EXCEPT !.at = "threw"]
Set(d, next) == driver' = [driver EXCEPT ![d] = next]
At(d, do) == driver[d].at = "step" /\ Step(d).do = do

\* planPrompt and repairPrompt show the head of a long file.
Bounded(f) == [f EXCEPT !.tail = FALSE]

\* parsePlanBinding and parseRepairBinding: the grounded provider takes the file from the prompt.
Binding(f) == Bounded(f)

\* applyExactEdit on the bound text, which becomes the complete content (expandPlanResponse, expandRepairResponse).
Expanded(f, text) == [Binding(f) EXCEPT !.text = text]

\* The model's answer: the text after an edit; validatePlanAgainstDiscovery and validateRepair want a change of what was read.
Proposes(d, text) ==
  /\ At(d, "plan") \/ At(d, "model")
  /\ Set(d, IF text = driver[d].seen THEN Threw(d) ELSE [Past(d) EXCEPT !.proposal = text])
  /\ UNCHANGED <<file, mission, keyed, outside>>

\* load, assertExpectedVersion and the guard of the operation; create expects a mission without events.
OpLoads(d) ==
  /\ At(d, "op")
  /\ LET s == Step(d) IN
     Set(d, IF s.label = "create" THEN [driver[d] EXCEPT !.at = "append", !.fresh = mission.state = "none", !.same = mission.plan = driver[d].proposal]
            ELSE IF /\ driver[d].fresh /\ mission.state \notin Terminal
                    /\ s.to \in {"stays", "BLOCKED", "FAILED"} \/ Allowed(mission.state, s.to)
            THEN [driver[d] EXCEPT !.at = "append", !.same = FALSE] ELSE Threw(d))
  /\ UNCHANGED <<file, mission, keyed, outside>>

\* What an event says under its key; the model's usage differs with its answer.
Event(d) == <<Step(d).label, IF Step(d).label \in {"create", "repair-model-usage"} THEN driver[d].proposal ELSE 0>>

\* append at the version expected: everybody else's is behind now.  Otherwise the key must be a replay of the same
\* event, at the same instant (the time is part of the fingerprint).
OpAppends(d, sameInstant) ==
  /\ driver[d].at = "append"
  /\ IF driver[d].fresh
     THEN /\ mission' = [state |-> IF Step(d).to = "stays" THEN mission.state ELSE Step(d).to,
                         plan |-> IF Step(d).to = "CREATED" THEN driver[d].proposal ELSE mission.plan]
          /\ driver' = [e \in Drivers |->
               IF e = d THEN [driver[d] EXCEPT !.at = "reload"]
               ELSE [driver[e] EXCEPT !.fresh = FALSE, !.same = @ \/ (driver[e].at = "append" /\ driver[e].fresh /\ Event(e) = Event(d))]]
     ELSE Set(d, IF sameInstant /\ driver[d].same THEN [driver[d] EXCEPT !.at = "reload"] ELSE Threw(d)) /\ UNCHANGED mission
  /\ UNCHANGED <<file, keyed, outside>>

\* The operation answers with the mission as it is by then.
OpReloads(d) ==
  /\ driver[d].at = "reload"
  /\ Set(d, [Past(d) EXCEPT !.fresh = TRUE, !.same = FALSE])
  /\ UNCHANGED <<file, mission, keyed, outside>>

Keyed(label) == {i \in DOMAIN keyed : keyed[i].label = label}
Answer(label) == keyed[CHOOSE i \in Keyed(label) : TRUE]

\* #patch: replayed under its key, refused for another input, refused when the file is not what was read.
Patch(d) ==
  /\ At(d, "patch")
  /\ LET label == Step(d).label
         input == <<driver[d].seen, driver[d].proposal>>
     IN  IF Keyed(label) # {}
         THEN Set(d, IF Answer(label).input = input THEN Past(d) ELSE Threw(d)) /\ UNCHANGED <<file, keyed>>
         ELSE IF file.text # driver[d].seen THEN Set(d, Threw(d)) /\ UNCHANGED <<file, keyed>>
         ELSE /\ file' = Expanded(file, driver[d].proposal)
              /\ keyed' = Append(keyed, [label |-> label, input |-> input, exit |-> 0, on |-> driver[d].proposal])
              /\ Set(d, Past(d))
  /\ UNCHANGED <<mission, outside>>

\* The registered command's exit code on a text.
ExitCode(text) == IF text \in GoodTexts THEN 0 ELSE 1

\* Fault: the exit code of a command that ran is not looked at.
AnyExitPasses(d, exit) == [Enter(d, "complete") EXCEPT !.exit = 0]

\* Where start and #repairAndComplete go from a quality run.
AfterQuality(d, exit) ==
  [Enter(d, IF exit = 0 THEN "complete" ELSE IF Step(d).label = "quality-first" THEN "diagnose" ELSE "fail") EXCEPT !.exit = exit]

\* #runQuality
Quality(d) ==
  /\ At(d, "quality")
  /\ LET label == Step(d).label IN
     IF Keyed(label) # {} THEN Set(d, AfterQuality(d, Answer(label).exit)) /\ UNCHANGED keyed
     ELSE /\ keyed' = Append(keyed, [label |-> label, input |-> <<>>, exit |-> ExitCode(file.text), on |-> file.text])
          /\ Set(d, AfterQuality(d, ExitCode(file.text)))
  /\ UNCHANGED <<file, mission, outside>>

\* #readMissionFile
Read(d) ==
  /\ At(d, "read") /\ Set(d, [Past(d) EXCEPT !.seen = file.text])
  /\ UNCHANGED <<file, mission, keyed, outside>>

\* The reliability controller's answer to a failed quality gate, one repair left; then interrupted or on.
RepairDecision ==
  Decide([reason |-> "quality_gate_failed", source |-> "verification", contradictory |-> FALSE, independent |-> FALSE,
          retryable |-> FALSE, sideEffect |-> "REVERSIBLE", rollback |-> FALSE],
         <<>>, [a \in Budgeted |-> IF a = "TARGETED_REPAIR" THEN 1 ELSE 0], {})

AfterFailure(d, interrupt) ==
  /\ At(d, "decide")
  /\ Set(d, IF RepairDecision # "TARGETED_REPAIR" THEN Enter(d, "deny")
            ELSE IF interrupt THEN [Driver0 EXCEPT !.at = "interrupted"]
            ELSE Enter(d, "repair"))
  /\ UNCHANGED <<file, mission, keyed, outside>>

\* createCodingVerificationRequest: all evidence is dated at the evaluation.
CodingRequest(exit) ==
  [mission |-> "m", at |-> 1,
   claims |-> [i \in 1 .. 2 |-> [id |-> <<"c1", "c2">>[i], mission |-> "m", task |-> <<"change", "quality">>[i], after |-> 1,
                                 kinds |-> {<<"changed_file", "quality_gate">>[i]}, wellFormed |-> TRUE]],
   evidence |-> [i \in 1 .. 2 |-> [id |-> <<"e1", "e2">>[i], mission |-> "m", task |-> <<"change", "quality">>[i], observed |-> 1,
                                   kind |-> <<"changed_file", "quality_gate">>[i], subject |-> "s", class |-> "independent_tool",
                                   status |-> IF i = 2 /\ exit # 0 THEN "FAIL" ELSE "PASS", wellFormed |-> TRUE]],
   bindings |-> [i \in 1 .. 2 |-> [claim |-> <<"c1", "c2">>[i], evidence |-> {<<"e1", "e2">>[i]}, wellFormed |-> TRUE]]]

\* verify, and isPassingVerificationGate; an injected authority may throw, which denies completion too.
Gate(d, throws) ==
  /\ At(d, "gate")
  /\ LET r == CodingRequest(driver[d].exit) IN
     Set(d, IF ~throws /\ Outcome(r, BuiltInReview(r, Findings(r))) = "PASS" THEN Past(d) ELSE Enter(d, "deny"))
  /\ UNCHANGED <<file, mission, keyed, outside>>

Ends(d) ==
  /\ \/ At(d, "return") /\ Set(d, [Driver0 EXCEPT !.at = "completed"])
     \/ At(d, "throw") /\ Set(d, Threw(d))
  /\ UNCHANGED <<file, mission, keyed, outside>>

\* The process of a call ends anywhere.
DriverDies(d) ==
  /\ driver[d].at \in {"step", "append", "reload"} /\ Set(d, Threw(d))
  /\ UNCHANGED <<file, mission, keyed, outside>>

OutsideEdit(text) ==
  /\ outside < MaxOutsideEdits /\ text # file.text
  /\ file' = [file EXCEPT !.text = text] /\ outside' = outside + 1
  /\ UNCHANGED <<mission, driver, keyed>>

CodingNext ==
  \/ \E d \in Drivers :
       \/ Start(d) \/ Resume(d) \/ OpLoads(d) \/ OpReloads(d) \/ Patch(d) \/ Quality(d) \/ Read(d) \/ Ends(d) \/ DriverDies(d)
       \/ \E text \in Texts : Proposes(d, text)
       \/ \E b \in BOOLEAN : OpAppends(d, b) \/ AfterFailure(d, b) \/ Gate(d, b)
  \/ \E text \in Texts : OutsideEdit(text)

(***************************************************************************)
(* However many calls drive a mission, its file is patched at most once    *)
(* for the plan and once for the repair; it is COMPLETED only after a      *)
(* quality run that passed, on what the last patch wrote unless somebody   *)
(* else edited the file, and reported completed only then (coding.ts).     *)
(***************************************************************************)
CodingSound ==
  /\ \A i, j \in DOMAIN keyed : i # j => keyed[i].label # keyed[j].label
  /\ mission.state \in {"CHECKPOINTING", "FINAL_AUDIT", "COMPLETED"} =>
       /\ \E i \in DOMAIN keyed : keyed[i].label \in {"quality-first", "quality-repair"} /\ keyed[i].on \in GoodTexts
       /\ outside = 0 => file.text \in GoodTexts
  /\ (\E d \in Drivers : driver[d].at = "completed") => mission.state = "COMPLETED"

-----------------------------------------------------------------------------
(***************************************************************************)
(* MultiFileCodingCoordinator (src/runtime/multi-file.ts): a set of file   *)
(* changes proposed by specialists is ordered by its dependencies, staged  *)
(* against exact preimages, committed, verified through the gate and, on   *)
(* any failure, rolled back from the preimages.  The workspace, which      *)
(* writes file by file, the quality runner and the restoration verifier    *)
(* are external.  Files are numbered in the order of their paths.          *)
(***************************************************************************)
CONSTANTS Coders, Files, Overlapping, Tree0, Proposals, Absent

Targets(changes) == {ch.path : ch \in changes}

\* A file is numbered, and a call is given finitely many changes.
ASSUME CodersAssumption ==
  /\ Files \subseteq Nat /\ Tree0 = [f \in Files |-> Tree0[f]]
  /\ \A proposals \in Proposals :
       LET changes == UNION {proposals[i].changes : i \in DOMAIN proposals} IN IsFiniteSet(changes) /\ Targets(changes) \subseteq Files

VARIABLES tree,    \* the workspace
          coder    \* one execute call each
multiFileVars == <<tree, coder>>

Idle == [at |-> "idle", changes |-> {}, order |-> <<>>, done |-> 0, pre |-> <<>>, aborted |-> FALSE,
         committedAt |-> 0, quality |-> "none", left |-> <<>>, disturbed |-> FALSE, outcome |-> "none"]

MultiFileInit == tree = Tree0 /\ coder = [c \in Coders |-> Idle]

Disjoint(changes) == \A x, y \in changes : x # y => <<x.path, y.path>> \notin Overlapping /\ x.path # y.path

\* reconcileMultiFileProposals: one proposal per specialist, none in another's name, no overlap.
Reconciled(proposals) ==
  /\ proposals # <<>>
  /\ \A i, j \in DOMAIN proposals : i # j => proposals[i].specialist # proposals[j].specialist
  /\ \A i \in DOMAIN proposals : proposals[i].changes # {} /\ \A ch \in proposals[i].changes : ch.owner = proposals[i].specialist
  /\ Disjoint(UNION {proposals[i].changes : i \in DOMAIN proposals})

\* validateOperationShape
ShapeOk(ch) ==
  /\ ch.op = "CREATE" => ch.pre = Absent /\ ch.content # Absent
  /\ ch.op = "DELETE" => ch.pre # Absent /\ ch.content = Absent
  /\ ch.op = "REPLACE" => ch.pre # Absent /\ ch.content # Absent

\* topologicalOrder: again and again the first path all of whose dependencies are done; a cycle leaves some out.
Ready(changes, done) == {ch.path : ch \in {x \in changes : x.path \notin ToSet(done) /\ x.deps \subseteq ToSet(done)}}
NextReady(changes, done) ==
  IF Ready(changes, done) = {} THEN done
  ELSE Append(done, CHOOSE p \in Ready(changes, done) : \A q \in Ready(changes, done) : p <= q)

TopologicalOrder(changes) ==
  LET order[n \in 0 .. Cardinality(changes)] == IF n = 0 THEN <<>> ELSE NextReady(changes, order[n - 1])
  IN  order[Cardinality(changes)]

\* normalizeChangeSet
Normal(changes) ==
  /\ Disjoint(changes) /\ \A ch \in changes : ShapeOk(ch) /\ ch.safe /\ ch.deps \subseteq Targets(changes) \ {ch.path}
  /\ Len(TopologicalOrder(changes)) = Cardinality(changes)

ChangeOf(c, path) == CHOOSE ch \in coder[c].changes : ch.path = path

\* The call returns or throws; left is what it leaves in its files.
Ended(c, outcome) ==
  [coder EXCEPT ![c].at = "ended", ![c].outcome = outcome, ![c].left = [p \in Targets(coder[c].changes) |-> tree[p]]]
Finish(c, outcome) == coder' = Ended(c, outcome)

\* execute: cancelled at once, the context's binding (bound), and the change set's normal form.
ExecuteProposals(c, proposals, bound) ==
  /\ coder[c].at = "idle" /\ Reconciled(proposals)
  /\ LET changes == UNION {proposals[i].changes : i \in DOMAIN proposals} IN
     IF coder[c].aborted THEN Finish(c, "CANCELLED")
     ELSE IF ~bound \/ ~Normal(changes) THEN Finish(c, "INVALID_CHANGE_SET")
     ELSE coder' = [coder EXCEPT ![c].at = "reading", ![c].changes = changes, ![c].order = TopologicalOrder(changes)]
  /\ UNCHANGED tree

\* Fault: files that do not exist yet are not part of the snapshot.
ExistingOnly(path, content) == IF content = Absent THEN <<>> ELSE <<[path |-> path, content |-> content]>>

Preimage(path, content) == <<[path |-> path, content |-> content]>>

\* readAndValidatePreimages, one file after the other.
ReadPreimage(c) ==
  /\ coder[c].at = "reading" /\ coder[c].done < Len(coder[c].order)
  /\ LET path == coder[c].order[coder[c].done + 1] IN
     IF tree[path] # ChangeOf(c, path).pre THEN Finish(c, "STALE_PREIMAGE")
     ELSE coder' = [coder EXCEPT ![c].done = @ + 1, ![c].pre = @ \o Preimage(path, tree[path])]
  /\ UNCHANGED tree

\* validateStaged accepts, and the signal is looked at for the last time before the commit.
Stage(c, accepts) ==
  /\ coder[c].at = "reading" /\ coder[c].done = Len(coder[c].order)
  /\ IF ~accepts THEN Finish(c, "INVALID_CHANGE_SET")
     ELSE IF coder[c].aborted THEN Finish(c, "CANCELLED")
     ELSE coder' = [coder EXCEPT ![c].at = "committing", ![c].done = 0]
  /\ UNCHANGED tree

\* A write by c is a disturbance to every other call that is working on the same file.
Writes(c, path, next) ==
  [d \in Coders |-> IF d = c THEN next
     ELSE [coder[d] EXCEPT !.disturbed = @ \/ (coder[d].at \notin {"idle", "ended"} /\ path \in Targets(coder[d].changes))]]

CommitFile(c) ==
  /\ coder[c].at = "committing" /\ coder[c].done < Len(coder[c].order)
  /\ LET path == coder[c].order[coder[c].done + 1] IN
     /\ tree' = [tree EXCEPT ![path] = ChangeOf(c, path).content]
     /\ coder' = Writes(c, path, [coder[c] EXCEPT !.done = @ + 1])

\* #rollbackAfterFailure classifies a reversible failure that has its preimages, with one rollback to spend.
RollbackSignal(reason, source) ==
  [reason |-> reason, source |-> source, contradictory |-> FALSE, independent |-> FALSE, retryable |-> FALSE,
   sideEffect |-> "REVERSIBLE", rollback |-> TRUE]
Authorized(reason, source) ==
  Decide(RollbackSignal(reason, source), <<>>, [a \in Budgeted |-> IF a = "ROLLBACK" THEN 1 ELSE 0], {}) = "ROLLBACK"

ToRollback(c, reason, source) ==
  [coder EXCEPT ![c].at = "restoring", ![c].done = 0, 
    ![c].outcome = IF ~Authorized(reason, source) THEN "unattested" ELSE IF reason = "partial_apply" THEN "threw" ELSE "none"]

\* commit throws part-way, or answers; then the signal may have been aborted meanwhile.
CommitEnds(c, fails, now) ==
  /\ coder[c].at = "committing" /\ (fails \/ coder[c].done = Len(coder[c].order))
  /\ coder' = IF fails THEN ToRollback(c, "partial_apply", "runtime")
              ELSE IF coder[c].aborted THEN ToRollback(c, "cancelled_after_commit", "runtime")
              ELSE [coder EXCEPT ![c].at = "committed", ![c].committedAt = now]
  /\ UNCHANGED tree

\* verificationRequest: one claim that asks for a quality run after the commit.
QualityRequest(after, status, observed, at) ==
  [mission |-> "m", at |-> at,
   claims |-> <<[id |-> "c1", mission |-> "m", task |-> "t", kinds |-> {"quality_gate"}, after |-> after, wellFormed |-> TRUE]>>,
   evidence |-> <<[id |-> "e1", mission |-> "m", task |-> "t", kind |-> "quality_gate", subject |-> "m19", status |-> status,
                   observed |-> observed, class |-> "independent_tool", wellFormed |-> TRUE]>>,
   bindings |-> <<[claim |-> "c1", evidence |-> {"e1"}, wellFormed |-> TRUE]>>]

\* The quality runner answers with a status and the time at which it looked, or throws.
QualityAnswers(c, answer, observed, at) ==
  /\ coder[c].at = "committed"
  /\ LET request == QualityRequest(coder[c].committedAt, answer, observed, at)
         passed  == answer = "PASS" /\ Outcome(request, BuiltInReview(request, Findings(request))) = "PASS"
         next    == IF answer = "throws" THEN ToRollback(c, "post_commit_verification_error", "verification")
                    ELSE IF passed THEN Ended(c, "COMPLETED")
                    ELSE ToRollback(c, IF answer = "FAIL" THEN "quality_gate_failed" ELSE "verification_failed", "verification")
     IN  coder' = [next EXCEPT ![c].quality = IF passed THEN <<answer, observed>> ELSE @]
  /\ UNCHANGED tree

\* restore writes the preimages back, without the aborted signal; verify compares them with the workspace.
RestoreFile(c) ==
  /\ coder[c].at = "restoring" /\ coder[c].done < Len(coder[c].pre)
  /\ LET image == coder[c].pre[coder[c].done + 1] IN
     /\ tree' = [tree EXCEPT ![image.path] = image.content]
     /\ coder' = Writes(c, image.path, [coder[c] EXCEPT !.done = @ + 1])

RestoreFails(c) == coder[c].at = "restoring" /\ Finish(c, "ROLLBACK_FAILED") /\ UNCHANGED tree

Restored(c) == \A i \in DOMAIN coder[c].pre : tree[coder[c].pre[i].path] = coder[c].pre[i].content

\* After a commit that threw the caller gets its error, where that is one of the coordinator's own kind.
VerifyRestoration(c) ==
  /\ coder[c].at = "restoring" /\ coder[c].done = Len(coder[c].pre)
  /\ \/ (~Restored(c) \/ coder[c].outcome = "unattested") /\ Finish(c, "ROLLBACK_FAILED")
     \/ Restored(c) /\ coder[c].outcome # "unattested" /\ Finish(c, "ROLLED_BACK")
     \/ Restored(c) /\ coder[c].outcome = "threw" /\ Finish(c, "RETHROWN")
  /\ UNCHANGED tree

AbortCoder(c) ==
  /\ ~coder[c].aborted /\ coder[c].at # "ended"
  /\ coder' = [coder EXCEPT ![c].aborted = TRUE] /\ UNCHANGED tree

MultiFileNext ==
  \E c \in Coders :
    \/ \E p \in Proposals, b \in BOOLEAN : ExecuteProposals(c, p, b)
    \/ ReadPreimage(c) \/ CommitFile(c) \/ RestoreFile(c) \/ RestoreFails(c) \/ VerifyRestoration(c) \/ AbortCoder(c)
    \/ \E b \in BOOLEAN : Stage(c, b) \/ CommitEnds(c, b, 1)
    \/ \E answer \in {"PASS", "FAIL", "throws"}, observed \in 0 .. 2, at \in 1 .. 2 : QualityAnswers(c, answer, observed, at)

Left(c, pre) == \A ch \in coder[c].changes : coder[c].left[ch.path] = IF pre THEN ch.pre ELSE ch.content

(***************************************************************************)
(* Unless another call wrote its files meanwhile, a call that has ended    *)
(* left all of its files changed or all of them as they were, or reported  *)
(* ROLLBACK_FAILED; COMPLETED stands for a passing quality run on the      *)
(* whole set, observed after the commit; a file is committed only after    *)
(* the files it depends on (multi-file.ts 157-361, 602-638).               *)
(***************************************************************************)
AllOrNothing ==
  \A c \in Coders :
    /\ coder[c].at = "ended" /\ ~coder[c].disturbed =>
         /\ coder[c].outcome = "COMPLETED" => Left(c, FALSE)
         /\ coder[c].outcome \in {"ROLLED_BACK", "RETHROWN", "CANCELLED"} => Left(c, TRUE)
    /\ coder[c].outcome = "COMPLETED" => coder[c].quality[1] = "PASS" /\ coder[c].quality[2] >= coder[c].committedAt
    /\ \A i \in DOMAIN coder[c].order : ChangeOf(c, coder[c].order[i]).deps \subseteq {coder[c].order[j] : j \in 1 .. i - 1}
=============================================================================
