---------------------------- MODULE SkillIntake ----------------------------
(***************************************************************************)
(* How a community skill enters the registry: the intake firewall          *)
(* (src/skill-intake/firewall.ts) scans a resolved snapshot and registers  *)
(* a candidate; the curator (src/capability-packs/curator.ts) has it       *)
(* evaluated and verifies it.  Both await an outside party in the middle.  *)
(* A file is what the scan can tell of it: its kind, size, the severities  *)
(* of the lines that match a rule, and whether it is the manifest.         *)
(***************************************************************************)
EXTENDS Skills, Sequences

CONSTANTS
  Snapshots,        \* what the source resolver answers: [files, complete, licensed]
  Intakes, Curators,
  CurationClasses,  \* sets of task classes a curation is asked for
  Evaluations,      \* answers of the authority: [producer, at, refs, classes, passed]
  MaxFiles, MaxFileBytes, MaxTotalBytes, MaxFindings,
  MaxEvidenceAge

\* LINE_RULES and the file surfaces: what a match is worth.
Severities == {"MEDIUM", "HIGH", "CRITICAL"}
FileKinds == {"text", "binary", "symlink"}
SnapshotFile == [kind : FileKinds, size : Nat, nul : BOOLEAN, risks : Seq(Severities), manifest : {"no", "valid", "invalid"}]

ASSUME IntakeAssumption ==
  /\ \A s \in Snapshots : s \in [files : Seq(SnapshotFile), complete : BOOLEAN, licensed : BOOLEAN]
  /\ \A e \in Evaluations : e.at \in Nat
  /\ {MaxFiles, MaxFileBytes, MaxTotalBytes, MaxFindings, MaxEvidenceAge} \subseteq Nat

VARIABLES
  intake,     \* per call: the request under resolution
  inspected,  \* the intake reports returned with a candidate
  curation,   \* per call: the candidate under evaluation
  reports     \* the passing curation reports returned

intakeVars == <<skillVars, intake, inspected, curation, reports>>

IntakeInit ==
  /\ SkillInit
  /\ intake = [i \in Intakes |-> [pc |-> "idle"]]
  /\ inspected = {}
  /\ curation = [c \in Curators |-> [pc |-> "idle"]]
  /\ reports = {}

-----------------------------------------------------------------------------
(* analyzeSnapshot *)

\* normalizeFile: binaries and links are opaque.
Opaque(file) == file.kind \in {"binary", "symlink"}

\* scanFile and addFinding: findings up to the output limit; the one after it
\* stops the scan.
AddFindings(scan, file) ==
  LET found == scan.findings \o file.risks IN
  [scan EXCEPT !.findings = IF Len(found) > MaxFindings THEN SubSeq(found, 1, MaxFindings) ELSE found,
               !.hitLimit = Len(found) > MaxFindings]

\* safeParseManifest: a SKILL.md that does not parse, or whose body is too large, is none.
ManifestOf(scan, file) == [scan EXCEPT !.manifest = IF file.manifest = "no" THEN @ ELSE file.manifest]

\* Fault: a file over the size limit is passed over in silence.
ScanSmall(scan, file) ==
  CASE scan.hitLimit \/ scan.full \/ file.size > MaxFileBytes -> scan
    [] ~(scan.hitLimit \/ scan.full \/ file.size > MaxFileBytes) /\ (Opaque(file) \/ file.nul) -> [scan EXCEPT !.partial = TRUE]
    [] OTHER -> AddFindings(ManifestOf([scan EXCEPT !.bytes = @ + file.size], file), file)

\* One file: opaque, too large, over the total or with a NUL it is a
\* limitation; nothing is scanned once the total or the output limit is hit.
ScanFile(scan, file) ==
  CASE scan.hitLimit \/ scan.full -> scan
    [] ~(scan.hitLimit \/ scan.full) /\ (Opaque(file) \/ file.size > MaxFileBytes) -> [scan EXCEPT !.partial = TRUE]
    [] OTHER ->
       CASE scan.bytes + file.size > MaxTotalBytes -> [scan EXCEPT !.partial = TRUE, !.full = TRUE]
         [] scan.bytes + file.size <= MaxTotalBytes /\ file.nul -> [scan EXCEPT !.partial = TRUE]
         [] OTHER -> AddFindings(ManifestOf([scan EXCEPT !.bytes = @ + file.size], file), file)

\* normalizeSnapshot: too many files are an incomplete inventory of none.
FilesOf(snapshot) == IF Len(snapshot.files) > MaxFiles THEN <<>> ELSE snapshot.files

\* What is known before the first file.
ScanStart(snapshot) ==
  [bytes |-> 0, findings |-> <<>>, hitLimit |-> FALSE, full |-> FALSE, manifest |-> "no",
   partial |-> ~snapshot.complete \/ ~snapshot.licensed \/ Len(snapshot.files) > MaxFiles]

\* What is known after each of the files.
Scans(snapshot) ==
  LET after[n \in 0 .. Len(FilesOf(snapshot))] ==
        IF n = 0 THEN ScanStart(snapshot) ELSE ScanFile(after[n - 1], FilesOf(snapshot)[n])
  IN  after

Scan(snapshot) == Scans(snapshot)[Len(FilesOf(snapshot))]

Complete(scan) == ~scan.partial /\ ~scan.hitLimit /\ scan.manifest = "valid"

\* decisionFor
Decision(scan) ==
  LET severities == {scan.findings[i] : i \in DOMAIN scan.findings} IN
  CASE "CRITICAL" \in severities -> "REJECT"
    [] "CRITICAL" \notin severities /\ (~Complete(scan) \/ "HIGH" \in severities) -> "QUARANTINE"
    [] OTHER -> "ACCEPT"

\* What is registered of an accepted snapshot: its commit is the version, its
\* repository and path are the name.
CommunityPackage(at) == [trust |-> "community", observedAt |-> at]

\* normalizeRequest, then the resolver is asked.
StartIntake(i, k, at) ==
  /\ intake[i].pc = "idle"
  /\ intake' = [intake EXCEPT ![i] = [pc |-> "resolving", skill |-> k, at |-> at]]
  /\ UNCHANGED <<skillVars, inspected, curation, reports>>

\* The snapshot arrives; the rest of intake() is one turn.  What is there already
\* is a replay or a conflict: of a package equal here the instructions may differ.
SnapshotResolved(i, snapshot) ==
  /\ intake[i].pc = "resolving"
  /\ LET k == intake[i].skill
         package == CommunityPackage(intake[i].at)
         accepted == Decision(Scan(snapshot)) = "ACCEPT" IN
     \/ /\ accepted /\ ~Known(k)
        /\ Insert(k, package, "CANDIDATE")
        /\ inspected' = inspected \cup {[skill |-> k, package |-> package, snapshot |-> snapshot]}
     \/ /\ accepted /\ Registered(k, package, "CANDIDATE")
        /\ inspected' = inspected \cup {[skill |-> k, package |-> package, snapshot |-> snapshot]}
        /\ UNCHANGED skills
     \/ /\ ~accepted \/ Known(k)
        /\ UNCHANGED <<skills, inspected>>
  /\ intake' = [intake EXCEPT ![i] = [pc |-> "idle"]]
  /\ UNCHANGED <<lifecycle, synthesizer, candidates, curation, reports>>

-----------------------------------------------------------------------------
(* curate *)

\* Only a community candidate, with instructions within the context limit and a
\* novel procedure; otherwise the report fails and nothing is evaluated.
Curatable(k) == Known(k) /\ skills[k].package.trust = "community" /\ skills[k].state = "CANDIDATE"

\* The candidate as it is now; the classes and the time go to the authority.
StartCuration(c, k, classes, at) ==
  /\ curation[c].pc = "idle"
  /\ Curatable(k)
  /\ curation' = [curation EXCEPT ![c] = [pc |-> "evaluating", skill |-> k, package |-> skills[k].package, classes |-> classes, at |-> at]]
  /\ UNCHANGED <<skillVars, intake, inspected, reports>>

\* caseFailures and the average lift over the floor.
Passes(evaluation) == evaluation.passed

\* validateAttestation
Valid(request, evaluation) ==
  /\ evaluation.producer \in IndependentProducers
  /\ evaluation.at <= request.at /\ request.at - evaluation.at <= MaxEvidenceAge
  /\ evaluation.at >= request.package.observedAt
  /\ evaluation.classes = request.classes

\* makeReport, of a passing evaluation.
MakeReport(request, evaluation) ==
  [skill |-> request.skill, package |-> request.package, classes |-> request.classes, refs |-> evaluation.refs, at |-> evaluation.at]

\* A passing evaluation verifies the skill as it is by now; where verify throws there is no report.
Evaluated(c, evaluation) ==
  /\ curation[c].pc = "evaluating"
  /\ LET r == curation[c]
         evidence == [package |-> r.package, status |-> "PASS", producer |-> evaluation.producer, refs |-> evaluation.refs, at |-> evaluation.at]
         passes == Valid(r, evaluation) /\ Passes(evaluation) /\ Accepted(r.skill, evidence) IN
     /\ IF passes /\ skills[r.skill].state = "CANDIDATE" THEN Verify(r.skill, evidence)
        ELSE UNCHANGED skillVars
     /\ reports' = IF passes THEN reports \cup {MakeReport(r, evaluation)} ELSE reports
  /\ curation' = [curation EXCEPT ![c] = [pc |-> "idle"]]
  /\ UNCHANGED <<intake, inspected>>

SkillStep == SkillNext /\ UNCHANGED <<intake, inspected, curation, reports>>

IntakeNext ==
  \/ SkillStep
  \/ \E i \in Intakes, k \in SkillKeys, t \in SkillTimes : StartIntake(i, k, t)
  \/ \E i \in Intakes, s \in Snapshots : SnapshotResolved(i, s)
  \/ \E c \in Curators, k \in SkillKeys, classes \in CurationClasses, t \in SkillTimes : StartCuration(c, k, classes, t)
  \/ \E c \in Curators, e \in Evaluations : Evaluated(c, e)

-----------------------------------------------------------------------------
\* What the intake accepts was read to the end: every file is text that was
\* scanned, and no line of any of them matches a HIGH or CRITICAL rule.
AcceptedWasScanned ==
  \A r \in inspected :
    /\ r.snapshot.complete /\ r.snapshot.licensed
    /\ \E i \in DOMAIN r.snapshot.files : r.snapshot.files[i].manifest = "valid"
    /\ \A i \in DOMAIN r.snapshot.files :
         LET file == r.snapshot.files[i] IN
         /\ file.kind = "text" /\ ~file.nul /\ file.size <= MaxFileBytes
         /\ \A j \in DOMAIN file.risks : file.risks[j] \notin {"HIGH", "CRITICAL"}

\* What the intake answered as its candidate is what the registry holds, whoever else registers.
InspectedRegistered ==
  \A r \in inspected : Known(r.skill) /\ skills[r.skill].package = r.package
=============================================================================
