-------------------------- MODULE VerificationGate --------------------------
(***************************************************************************)
(* The independent verification gate (src/verification): the claims of a   *)
(* mission's definition of done, the evidence, the bindings between them,  *)
(* the deterministic verification and the adversarial review.  Times are   *)
(* small numbers; text, hashes and messages are left out: wellFormed says  *)
(* whether an item passes the checks on them.                              *)
(***************************************************************************)
EXTENDS Integers, FiniteSets, SequencesExt

CONSTANTS MaxEvidenceAge, GateRequests

VARIABLE gate   \* the request at hand and the gate's answer

EvidenceClasses == {"independent_tool", "external", "planner", "runtime"}

\* What a request has to be for the times and classes to be compared; a value that does not parse
\* is what wellFormed FALSE stands for.
GateTyped(r) ==
  /\ r.at \in Int /\ IsFiniteSet(DOMAIN r.claims)
  /\ \A c \in ToSet(r.claims) : c.after \in Int
  /\ \A e \in ToSet(r.evidence) : e.observed \in Int /\ e.class \in EvidenceClasses

ASSUME GateAssumption == MaxEvidenceAge \in Nat /\ \A r \in GateRequests : GateTyped(r)

Ids(items) == {items[i].id : i \in DOMAIN items}

\* indexUnique: ids that occur twice, and the item of every other id.
Duplicated(items) == {items[i].id : i \in {j \in DOMAIN items : \E k \in DOMAIN items \ {j} : items[k].id = items[j].id}}

Uniquely(items) == {item \in ToSet(items) : item.id \notin Duplicated(items)}

SameScope(e, f) == e.mission = f.mission /\ e.task = f.task /\ e.kind = f.kind /\ e.subject = f.subject

\* contradictoryEvidence: the ids of both sides of a disagreement about one subject.
Contradictory(r) ==
  {e.id : e \in {x \in ToSet(r.evidence) : x.wellFormed /\ \E y \in ToSet(r.evidence) :
                   y.wellFormed /\ SameScope(x, y) /\ x.status # y.status}}

\* #validateClaim
ClaimFindings(r, c) ==
  (IF ~c.wellFormed \/ c.kinds = {} \/ c.after > r.at THEN {"claim_invalid"} ELSE {}) \cup
  (IF c.mission # r.mission THEN {"claim_foreign_scope"} ELSE {})

\* Fault: old evidence is as good as fresh evidence.
NoFreshness(r, e) ==
  (IF ~e.wellFormed THEN {"evidence_invalid"} ELSE {}) \cup
  (IF e.mission # r.mission THEN {"evidence_foreign_scope"} ELSE {}) \cup
  (IF e.status # "PASS" THEN {"evidence_failed"} ELSE {}) \cup
  (IF e.observed > r.at THEN {"evidence_future"} ELSE {})

\* #validateEvidenceEnvelope
EnvelopeFindings(r, e) ==
  (IF ~e.wellFormed THEN {"evidence_invalid"} ELSE {}) \cup
  (IF e.mission # r.mission THEN {"evidence_foreign_scope"} ELSE {}) \cup
  (IF e.status # "PASS" THEN {"evidence_failed"} ELSE {}) \cup
  (IF e.observed > r.at THEN {"evidence_future"} ELSE {}) \cup
  (IF r.at - e.observed > MaxEvidenceAge THEN {"evidence_stale"} ELSE {})

ValidEvidence(r) ==
  {e.id : e \in {x \in ToSet(r.evidence) : EnvelopeFindings(r, x) = {}}} \ (Duplicated(r.evidence) \cup Contradictory(r))

\* indexBindings: a second binding of a claim takes the first one away; an empty one never counts.
BindingsOf(r, c) == {i \in DOMAIN r.bindings : r.bindings[i].claim = c}
WellBound(b) == b.wellFormed /\ b.evidence # {}
Bound(r, c) ==
  IF Cardinality(BindingsOf(r, c)) = 1 /\ \A i \in BindingsOf(r, c) : WellBound(r.bindings[i])
  THEN UNION {r.bindings[i].evidence : i \in BindingsOf(r, c)}
  ELSE {}

\* #validateEvidenceForClaim
AcceptFindings(c, e) ==
  (IF e.task # c.task \/ e.mission # c.mission THEN {"evidence_foreign_scope"} ELSE {}) \cup
  (IF e.kind \notin c.kinds THEN {"evidence_kind_mismatch"} ELSE {}) \cup
  (IF e.observed < c.after THEN {"evidence_too_early"} ELSE {})

Accepted(r, c) ==
  {e \in Uniquely(r.evidence) : e.id \in Bound(r, c.id) \cap ValidEvidence(r) /\ AcceptFindings(c, e) = {}}

AcceptedKinds(r, c) == {e.kind : e \in Accepted(r, c)}

\* What the loop over one claim adds: its own faults, what is bound to it, and the kinds still missing.
BoundFindings(r, c) ==
  ClaimFindings(r, c) \cup
  (IF Bound(r, c.id) = {} THEN {"claim_missing_evidence"} ELSE
     (IF Bound(r, c.id) \subseteq {e.id : e \in Uniquely(r.evidence)} THEN {} ELSE {"evidence_missing"}) \cup
     (UNION {AcceptFindings(c, e) : e \in {x \in Uniquely(r.evidence) : x.id \in Bound(r, c.id) \cap ValidEvidence(r)}}) \cup
     (IF c.kinds \subseteq AcceptedKinds(r, c) THEN {} ELSE {"evidence_kind_mismatch"}))

Satisfied(r) ==
  {c.id : c \in {x \in Uniquely(r.claims) :
     /\ ClaimFindings(r, x) = {} /\ Bound(r, x.id) # {}
     /\ Bound(r, x.id) = {e.id : e \in Accepted(r, x)}
     /\ x.kinds = AcceptedKinds(r, x)}}

ClaimsFindings(r) == UNION {BoundFindings(r, c) : c \in ToSet(r.claims)}

\* #verifyClaims: every finding of the deterministic pass is BLOCKING.
Findings(r) ==
  (IF r.claims = <<>> \/ Duplicated(r.claims) # {} THEN {"claim_invalid"} ELSE {}) \cup
  (IF Duplicated(r.evidence) # {} THEN {"evidence_duplicate"} ELSE {}) \cup
  (IF Contradictory(r) # {} THEN {"evidence_conflict"} ELSE {}) \cup
  (UNION {EnvelopeFindings(r, e) : e \in ToSet(r.evidence)}) \cup
  (IF \E i \in DOMAIN r.bindings : ~WellBound(r.bindings[i]) \/ Cardinality(BindingsOf(r, r.bindings[i].claim)) > 1
   THEN {"claim_duplicate_binding"} ELSE {}) \cup
  ClaimsFindings(r) \cup
  (IF \E i \in DOMAIN r.bindings : r.bindings[i].claim \notin {c.id : c \in Uniquely(r.claims)} THEN {"claim_invalid"} ELSE {})

ClaimsOn(r, id) == {r.bindings[i].claim : i \in {j \in DOMAIN r.bindings : id \in r.bindings[j].evidence}}
TasksOn(r, id) == {c.task : c \in {x \in ToSet(r.claims) : x.id \in ClaimsOn(r, id)}}

\* BuiltInAdversarialReviewer.review: warnings as <<code, claims that the warning names>>.
Warnings(r) ==
  {<<"evidence_reused", ClaimsOn(r, id)>> : id \in {x \in UNION {r.bindings[i].evidence : i \in DOMAIN r.bindings} : Cardinality(TasksOn(r, x)) > 1}} \cup
  {<<"evidence_self_authored", ClaimsOn(r, e.id)>> : e \in {x \in ToSet(r.evidence) : x.class \in {"planner", "runtime"}}} \cup
  {<<"evidence_weak_provenance", ClaimsOn(r, e.id)>> : e \in {x \in ToSet(r.evidence) : x.class = "external"}} \cup
  {<<"evidence_stale", ClaimsOn(r, e.id)>> : e \in {x \in ToSet(r.evidence) : r.at - x.observed > MaxEvidenceAge}}

\* buildRepairRequest names the claims of the warnings.
BuiltInReview(r, findings) ==
  LET blocked == findings # {} \/ \E e, f \in ToSet(r.evidence) : SameScope(e, f) /\ e.status # f.status
      verdict == IF blocked THEN "BLOCK" ELSE IF Warnings(r) # {} THEN "REPAIR_REQUIRED" ELSE "ACCEPT"
  IN  [bound |-> TRUE, verdict |-> verdict,
       severities |-> (IF blocked /\ findings = {} THEN {"BLOCKING"} ELSE {}) \cup (IF Warnings(r) # {} THEN {"WARNING"} ELSE {}),
       repair |-> IF verdict = "REPAIR_REQUIRED" THEN <<UNION {w[2] : w \in Warnings(r)}>> ELSE <<>>]

\* What an injected reviewer may answer: bound says that mission, hashes and findings have their form.
Reviews == [bound : BOOLEAN, verdict : {"ACCEPT", "BLOCK", "REPAIR_REQUIRED"},
            severities : SUBSET {"BLOCKING", "WARNING"}, repair : {<<>>, <<{"c1"}>>}]

\* normalizeRepairRequest: a repair names at least one claim of the request.
RepairNamesClaims(r, review) == \A ids \in ToSet(review.repair) : ids # {} /\ ids \subseteq Ids(r.claims)

\* normalizeReview: a verdict that its findings and repair request do not bear out is not used (invalidReview).
NormalizeReview(r, review) ==
  IF /\ review.bound /\ RepairNamesClaims(r, review)
     /\ review.verdict = "ACCEPT" => review.severities = {} /\ review.repair = <<>>
     /\ review.verdict = "REPAIR_REQUIRED" => review.severities = {"WARNING"} /\ review.repair # <<>>
     /\ review.verdict = "BLOCK" => review.repair = <<>>
  THEN review
  ELSE [bound |-> TRUE, verdict |-> "BLOCK", severities |-> {"BLOCKING"}, repair |-> <<>>]

\* verify
Outcome(r, review) ==
  LET normal == NormalizeReview(r, review)
  IN  IF Findings(r) # {} \/ normal.verdict = "BLOCK" THEN "BLOCK"
      ELSE IF normal.verdict = "REPAIR_REQUIRED" THEN "REPAIR_REQUIRED" ELSE "PASS"

GateInit == gate \in [request : GateRequests, outcome : {"none"}, builtIn : {FALSE}]

Verify ==
  /\ gate.outcome = "none"
  /\ \/ gate' = [gate EXCEPT !.outcome = Outcome(gate.request, BuiltInReview(gate.request, Findings(gate.request))),
                             !.builtIn = TRUE]
     \/ \E review \in Reviews : gate' = [gate EXCEPT !.outcome = Outcome(gate.request, review)]

GateNext == Verify

(***************************************************************************)
(* What a passed gate stands for, said without the algorithm: every claim  *)
(* is of this mission and, for every kind it asks for, has an item of its  *)
(* own task that passed, lies between the claim's boundary and the time of *)
(* verification, is no older than the bound and that nothing contradicts.  *)
(***************************************************************************)
Supported(r) ==
  /\ r.claims # <<>>
  /\ \A c \in ToSet(r.claims) : c.mission = r.mission /\ c.kinds # {} /\ \A kind \in c.kinds :
       \E e \in ToSet(r.evidence) :
         /\ e.id \in UNION {r.bindings[i].evidence : i \in BindingsOf(r, c.id)}
         /\ e.mission = r.mission /\ e.task = c.task /\ e.kind = kind /\ e.status = "PASS"
         /\ c.after <= e.observed /\ e.observed <= r.at /\ r.at - e.observed <= MaxEvidenceAge
         /\ \A f \in ToSet(r.evidence) : SameScope(e, f) => f.status = "PASS"

(***************************************************************************)
(* A gate that passes is supported, whatever the reviewer answered, and    *)
(* with the built-in reviewer all of its evidence is independent and used  *)
(* for one task only; a verification without findings satisfies all of its *)
(* claims, and a repair is asked for only where there is one (engine.ts).  *)
(***************************************************************************)
GateSound ==
  LET r == gate.request IN
  /\ gate.outcome = "PASS" =>
       /\ Supported(r)
       /\ Satisfied(r) = Ids(r.claims)
       /\ gate.builtIn => \A e \in ToSet(r.evidence) : e.class = "independent_tool" /\ Cardinality(TasksOn(r, e.id)) <= 1
  /\ gate.outcome = "REPAIR_REQUIRED" => Supported(r) /\ Satisfied(r) = Ids(r.claims)
=============================================================================
