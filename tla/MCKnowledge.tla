---------------------------- MODULE MCKnowledge ----------------------------
(***************************************************************************)
(* What the system keeps and reuses: the memory product, the learned       *)
(* lessons, and the skills with their packs.  A behaviour exercises one.   *)
(***************************************************************************)
EXTENDS TLC, MemoryBrain, Learning, SkillOs

CONSTANTS pa, pb, l1, l2

VARIABLE part   \* the part this behaviour exercises

knowledgeVars == <<part, brainVars, learningVars, osVars>>

LessonSymmetry == Permutations({l1, l2})

Input(content, kind, sens) ==
  [key |-> "p", content |-> content, kind |-> kind, sens |-> sens, source |-> "tool", sourceVersion |-> 0, observedAt |-> 0]
MCInputs == {Input("x", "project", 2), Input("y", "episodic", 1)}

Community == [trust |-> "community", observedAt |-> 0]
MCPackages == {[trust |-> "learned", observedAt |-> 1], [trust |-> "project", observedAt |-> 0], Community}
MCRefs == {{"r"}, {"s"}}
MCClasses == {{"t"}, {"t", "u"}}
MCEvaluations == [producer : {"independent_test", "model"}, at : {1}, refs : MCRefs, classes : MCClasses, passed : BOOLEAN]

File(kind, size, nul, risks, manifest) == [kind |-> kind, size |-> size, nul |-> nul, risks |-> risks, manifest |-> manifest]
Manifest == File("text", 1, FALSE, <<>>, "valid")
Risky == File("text", 1, FALSE, <<"HIGH">>, "no")
OtherFiles == {File("text", 3, FALSE, <<>>, "no"), File("binary", 0, FALSE, <<>>, "no"), File("text", 2, TRUE, <<>>, "no"),
               File("text", 1, FALSE, <<"MEDIUM", "CRITICAL">>, "no"), Risky, File("text", 2, FALSE, <<"MEDIUM">>, "no")}
Snapshot(files, complete) == [files |-> files, complete |-> complete, licensed |-> TRUE]
MCSnapshots ==
  {Snapshot(f, TRUE) : f \in {<<Manifest>>, <<Manifest, Manifest, Manifest, Manifest>>} \cup {<<Manifest, x>> : x \in OtherFiles}
                             \cup {<<x, Risky, Manifest>> : x \in OtherFiles}} \cup {Snapshot(<<Manifest>>, FALSE)}

\* Two community skills after their intake and curation; of the second there
\* is also a report of a curation that another one overtook.
Report(v, classes, refs) == [skill |-> <<"n", v>>, package |-> Community, classes |-> classes, refs |-> refs, at |-> 1]
Curated ==
  /\ skills = [k \in SkillKeys |-> [package |-> Community, state |-> "VERIFIED", activatedAt |-> 0, verifiedAt |-> 1]]
  /\ lifecycle = {[action |-> "VERIFIED", key |-> k, package |-> Community, refs |-> {"r"}, producer |-> "independent_test", at |-> 1]
                    : k \in SkillKeys}
  /\ synthesizer = [c \in Synthesizers |-> [pc |-> "idle"]]
  /\ candidates = {}
  /\ intake = [i \in Intakes |-> [pc |-> "idle"]]
  /\ inspected = {[skill |-> k, package |-> Community, snapshot |-> Snapshot(<<Manifest>>, TRUE)] : k \in SkillKeys}
  /\ curation = [c \in Curators |-> [pc |-> "idle"]]
  /\ reports = {Report(1, {"t", "u"}, {"r"}), Report(2, {"t"}, {"r"}), Report(2, {"t"}, {"s"})}
  /\ NoPacks

KnowledgeInit ==
  /\ part \in {"compress", "promote", "signals", "lessons", "synthesis", "intake", "packs"}
  /\ BrainInit /\ item.content = "x"   \* the texts are alike
  /\ LearningInit
  /\ IF part = "packs" THEN Curated ELSE OsInit

\* Skill 1, a community skill, goes through the intake and a race of two curations, and may
\* be registered beside them; a second version and other packages are left to the synthesis.
IntakeOfOne ==
  /\ skills'[<<"n", 2>>] = NoSkill
  /\ skills'[<<"n", 1>>] # NoSkill => skills'[<<"n", 1>>].package.trust = "community"
  /\ \A i \in Intakes : intake'[i].pc # "idle" => intake'[i].skill[2] = 1
  /\ \A c \in Curators : curation'[c].pc # "idle" => curation'[c].skill[2] = 1

\* The second promotion leaves key and kind to their defaults.
Defaults(request) == request.pc \in {"read", "write"} => request.key = "p" /\ request.kind = "project"

KnowledgeNext ==
  \/ /\ part \in {"compress", "promote", "signals"} /\ BrainNext /\ UNCHANGED <<part, learningVars, osVars>>
     /\ part # "compress" => compressor' = compressor
     /\ part # "signals" => signals' = signals
     /\ part # "promote" => item' = item /\ promoter'[pb] = promoter[pb]
     /\ part = "promote" => Version(2)' = 0 /\ Defaults(promoter'[pb])
  \/ part = "lessons" /\ LearningNext /\ UNCHANGED <<part, brainVars, osVars>>
  \/ /\ part \in {"synthesis", "intake", "packs"} /\ OsNext /\ UNCHANGED <<part, brainVars, learningVars>>
     /\ part # "packs" => packs' = packs /\ osClock' = 0
     /\ part # "synthesis" => synthesizer' = synthesizer
     /\ part = "synthesis" => \A k \in SkillKeys : skills'[k] # NoSkill => skills'[k].package.trust # "community"
     /\ part # "intake" => UNCHANGED <<intake, curation>>
     /\ part = "intake" => IntakeOfOne
     /\ part = "packs" => /\ \A k \in SkillKeys : skills'[k].activatedAt = 0
                          /\ packs'[2] # NoPack => \A m \in packs'[2] : m.classes = {"t"}

KnowledgeSpec == KnowledgeInit /\ [][KnowledgeNext]_knowledgeVars
=============================================================================
