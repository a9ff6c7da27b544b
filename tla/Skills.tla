------------------------------ MODULE Skills ------------------------------
(***************************************************************************)
(* The skill registry (src/skills/registry.ts) and the synthesis of        *)
(* learned skills (src/skills/synthesis.ts).  A package is hashed whole,   *)
(* so two packages have one hash when they are equal.  Of the history of   *)
(* lifecycle events the VERIFIED and the REVOKED ones are kept.            *)
(***************************************************************************)
EXTENDS Integers, FiniteSets

CONSTANTS
  SkillNames, SkillVersions,
  Packages,          \* [trust, observedAt]: what may be registered
  EvidenceRefs,      \* evidence reference lists, none of them empty
  SkillTimes,        \* timestamps of requests
  Submitters,        \* producer classes that submit evidence
  Synthesizers,      \* concurrent createCandidate calls
  NoSkill

TrustClasses == {"builtin", "project", "learned", "community"}
SkillPackage == [trust : TrustClasses, observedAt : Nat]
SkillRecord == [package : SkillPackage, state : {"CANDIDATE", "VERIFIED", "ACTIVE", "REVOKED"}, activatedAt : Nat, verifiedAt : Nat]

ASSUME SkillAssumption == SkillTimes \subseteq Nat /\ Packages \subseteq SkillPackage /\ NoSkill \notin SkillRecord

VARIABLES
  skills,       \* #records, by name and version
  lifecycle,    \* #events
  synthesizer,  \* per call: the proposal under attestation
  candidates    \* #replays of the synthesis, by idempotency key

skillVars == <<skills, lifecycle, synthesizer, candidates>>

SkillKeys == SkillNames \X SkillVersions
Producers == {"independent_test", "independent_verifier", "model", "runtime", "trusted_user", "worker"}
IndependentProducers == {"independent_test", "independent_verifier", "trusted_user"}

\* normalizePackage, normalizeProvenance
WellFormedPackage(package) == package.trust \in TrustClasses /\ package.observedAt \in Nat

\* normalizeVerificationEvidence
WellFormedEvidence(evidence) ==
  evidence.producer \in Producers /\ evidence.status \in {"PASS", "FAIL"} /\ evidence.refs # {}

SkillInit ==
  /\ skills = [k \in SkillKeys |-> NoSkill]
  /\ lifecycle = {}
  /\ synthesizer = [c \in Synthesizers |-> [pc |-> "idle"]]
  /\ candidates = {}

Known(k) == skills[k] # NoSkill
\* resolve
Loadable(k) == Known(k) /\ skills[k].state \in {"ACTIVE", "VERIFIED"}

\* Fault: a registration overwrites what is there.
InsertOver(k, package, state) ==
  skills' = [skills EXCEPT ![k] =
    [package |-> package, state |-> state, activatedAt |-> 0,
     verifiedAt |-> IF state = "VERIFIED" THEN package.observedAt ELSE 0]]

\* What #insert answers as a replay.
Registered(k, package, state) == Known(k) /\ skills[k].state = state /\ skills[k].package = package

\* #insert, for registerTrusted and registerCandidate: what is there is replayed or in conflict, and stays.
Insert(k, package, state) ==
  /\ ~Known(k)
  /\ skills' = [skills EXCEPT ![k] =
       [package |-> package, state |-> state, activatedAt |-> 0,
        verifiedAt |-> IF state = "VERIFIED" THEN package.observedAt ELSE 0]]

RegisterTrusted(k, package) ==
  /\ WellFormedPackage(package)
  /\ package.trust \in {"builtin", "project"}
  /\ Insert(k, package, "VERIFIED")
  /\ UNCHANGED <<lifecycle, synthesizer, candidates>>

\* Open to every holder of the registry: synthesis and intake call it, and so do others with skills of their own.
RegisterCandidate(k, package) ==
  /\ WellFormedPackage(package)
  /\ package.trust \in {"learned", "community"}
  /\ Insert(k, package, "CANDIDATE")
  /\ UNCHANGED <<lifecycle, synthesizer, candidates>>

\* Evidence that verify() accepts for what is registered.
Accepted(k, evidence) ==
  /\ WellFormedEvidence(evidence)
  /\ Known(k) /\ skills[k].state # "REVOKED"
  /\ evidence.package = skills[k].package
  /\ evidence.status = "PASS"
  /\ evidence.producer \in IndependentProducers
  /\ evidence.at >= skills[k].package.observedAt

\* verify: what is verified already stays as it is, without a second event.
Verify(k, evidence) ==
  /\ Accepted(k, evidence) /\ skills[k].state = "CANDIDATE"
  /\ skills' = [skills EXCEPT ![k].state = "VERIFIED", ![k].verifiedAt = evidence.at]
  /\ lifecycle' = lifecycle \cup
       {[action |-> "VERIFIED", key |-> k, package |-> evidence.package, refs |-> evidence.refs,
         producer |-> evidence.producer, at |-> evidence.at]}
  /\ UNCHANGED <<synthesizer, candidates>>

\* Fault: the version that was active stays active.
ActivateBeside(k, at) ==
  /\ Loadable(k) /\ at >= skills[k].verifiedAt
  /\ skills' = [skills EXCEPT ![k].state = "ACTIVE", ![k].activatedAt = at]
  /\ UNCHANGED <<lifecycle, synthesizer, candidates>>

\* #activate, for activate and for rollback: the other active version of the
\* name goes back to VERIFIED.
Activate(k, at) ==
  /\ Loadable(k) /\ at >= skills[k].verifiedAt
  /\ skills' = [j \in SkillKeys |->
       CASE j = k -> [skills[j] EXCEPT !.state = "ACTIVE", !.activatedAt = at]
         [] j # k /\ j[1] = k[1] /\ Known(j) /\ skills[j].state = "ACTIVE" -> [skills[j] EXCEPT !.state = "VERIFIED"]
         [] OTHER -> skills[j]]
  /\ UNCHANGED <<lifecycle, synthesizer, candidates>>

Revoke(k, at) ==
  /\ Known(k) /\ skills[k].state # "REVOKED" /\ at >= skills[k].package.observedAt
  /\ skills' = [skills EXCEPT ![k].state = "REVOKED"]
  /\ lifecycle' = lifecycle \cup {[action |-> "REVOKED", key |-> k, package |-> skills[k].package]}
  /\ UNCHANGED <<synthesizer, candidates>>

-----------------------------------------------------------------------------
(* createCandidate *)

\* The proposal, up to the call of the authority.
Synthesize(c, k, package, key) ==
  /\ synthesizer[c].pc = "idle" /\ package.trust = "learned"
  /\ synthesizer' = [synthesizer EXCEPT ![c] = [pc |-> "attesting", skill |-> k, package |-> package, key |-> key]]
  /\ UNCHANGED <<skills, lifecycle, candidates>>

\* The attestation covers the proposal.
Attests(c, attestation) == attestation.refs # {} /\ attestation.at >= synthesizer[c].package.observedAt

Fingerprint(c, attestation) ==
  [key |-> synthesizer[c].key, skill |-> synthesizer[c].skill, package |-> synthesizer[c].package, attestation |-> attestation]

\* The answer of the authority, and everything after it in one turn: a key that
\* was used answers the replay or a conflict; a registration that throws leaves no replay.
SynthesisAttested(c, attestation) ==
  /\ synthesizer[c].pc = "attesting"
  /\ LET print == Fingerprint(c, attestation)
         used == \E f \in candidates : f.key = print.key
         same == print.skill \in SkillKeys /\ Known(print.skill) /\ skills[print.skill].state = "CANDIDATE"
                   /\ skills[print.skill].package = print.package
         stored == Attests(c, attestation) /\ ~used /\ (~Known(print.skill) \/ same) IN
     /\ IF stored /\ ~same THEN Insert(print.skill, print.package, "CANDIDATE") ELSE UNCHANGED skills
     /\ candidates' = IF stored THEN candidates \cup {print} ELSE candidates
  /\ synthesizer' = [synthesizer EXCEPT ![c] = [pc |-> "idle"]]
  /\ UNCHANGED lifecycle

Evidence == [package : Packages, status : {"PASS", "FAIL"}, producer : Submitters, refs : EvidenceRefs, at : SkillTimes]
Attestations == [refs : EvidenceRefs \cup {{}}, at : SkillTimes]

SkillNext ==
  \/ \E k \in SkillKeys, p \in Packages : RegisterTrusted(k, p) \/ RegisterCandidate(k, p)
  \/ \E k \in SkillKeys, e \in Evidence : Verify(k, e)
  \/ \E k \in SkillKeys, t \in SkillTimes : Activate(k, t) \/ Revoke(k, t)
  \/ \E c \in Synthesizers, k \in SkillKeys, p \in Packages, key \in {1, 2} : Synthesize(c, k, p, key)
  \/ \E c \in Synthesizers, a \in Attestations : SynthesisAttested(c, a)

-----------------------------------------------------------------------------
\* Of each name one version is active, the one that resolveActive answers.
OneActive == \A j, k \in SkillKeys :
  Known(j) /\ Known(k) /\ j[1] = k[1] /\ skills[j].state = "ACTIVE" /\ skills[k].state = "ACTIVE" => j = k

\* What came from outside is loadable only on independent evidence for exactly
\* this content, and was activated after it.
VerifiedByOthers == \A k \in SkillKeys :
  Loadable(k) /\ skills[k].package.trust \in {"learned", "community"}
    => \E e \in lifecycle :
         /\ e.action = "VERIFIED" /\ e.key = k /\ e.package = skills[k].package
         /\ e.producer \in IndependentProducers
         /\ skills[k].package.observedAt <= e.at /\ (skills[k].state = "ACTIVE" => e.at <= skills[k].activatedAt)

\* A revocation is final.
RevokedForGood == \A e \in lifecycle : e.action = "REVOKED" => skills[e.key].state = "REVOKED" /\ skills[e.key].package = e.package

\* A synthesised key names one candidate, which is registered as proposed.
CandidatesRegistered == \A f, g \in candidates :
  /\ Known(f.skill) /\ skills[f.skill].package = f.package
  /\ f.key = g.key => f = g
=============================================================================
