------------------------------ MODULE SkillOs ------------------------------
(***************************************************************************)
(* Measured capability packs (src/capability-packs/registry.ts) and their  *)
(* selection and loading for a task (src/skill-os/runtime.ts), over the    *)
(* skill registry and the curation reports there are.  All packs are of    *)
(* one domain, so a route is a task class; a skill's instructions take one *)
(* unit of context.                                                        *)
(***************************************************************************)
EXTENDS SkillIntake

CONSTANTS
  PackKeys,       \* identities of packs, in their order
  TaskClasses,
  MaxPackContext, MaxPacks, MaxSelectionAge, MaxOsClock,
  Loaders,        \* callers that hold a selection
  NoPack

VARIABLES
  packs,       \* CapabilityPackRegistry #packs: sets of members
  osPacks,     \* SkillOsRuntime #packs
  pins,        \* #pins, by task class
  pinHistory,  \* #history: what was pinned on which route
  osClock,
  selection,   \* per caller: the selection it was issued
  loaded       \* per caller: what its last load answered

osVars == <<intakeVars, packs, osPacks, pins, pinHistory, osClock, selection, loaded>>

NoPacks ==
  /\ packs = [p \in PackKeys |-> NoPack]
  /\ osPacks = {}
  /\ pins = [t \in TaskClasses |-> NoPack]
  /\ pinHistory = {}
  /\ osClock = 0
  /\ selection = [l \in Loaders |-> NoPack]
  /\ loaded = [l \in Loaders |-> NoPack]

OsInit == IntakeInit /\ NoPacks

\* Fault: any verification of the content will do.
VerifiedSomehow(report) ==
  \E e \in lifecycle : e.action = "VERIFIED" /\ e.key = report.skill /\ e.package = report.package

\* hasMatchingMeasuredVerification
Measured(report) ==
  \E e \in lifecycle :
    /\ e.action = "VERIFIED" /\ e.key = report.skill /\ e.package = report.package
    /\ e.at = report.at /\ e.refs = report.refs

\* isSemanticallyValidPassingReport: what the constructor takes.
PassingReports == {r \in reports : r.classes # {} /\ r.refs # {}}

\* Members are a report and the task classes the pack takes it for.
Admissible(member) ==
  /\ member.report \in PassingReports
  /\ member.classes # {} /\ member.classes \subseteq member.report.classes
  /\ Loadable(member.report.skill)
  /\ skills[member.report.skill].package = member.report.package
  /\ member.report.package.trust = "community"
  /\ Measured(member.report)

\* normalizePackInput: members, none of them twice.
DistinctMembers(members) ==
  /\ members # {}
  /\ \A m, n \in members : m.report.skill = n.report.skill => m = n

ContextBytes(p) == Cardinality(packs[p])
ClassesOf(p) == UNION {m.classes : m \in packs[p]}

\* What the registry tells of a pack.
Summary(p) == [classes |-> ClassesOf(p), bytes |-> ContextBytes(p), count |-> Cardinality(packs[p])]

\* CapabilityPackRegistry.register
RegisterMembers(p, members) ==
  /\ DistinctMembers(members) /\ \A m \in members : Admissible(m)
  /\ Cardinality(members) <= MaxPackContext
  /\ packs[p] = NoPack
  /\ packs' = [packs EXCEPT ![p] = members]
  /\ UNCHANGED <<intakeVars, osPacks, pins, pinHistory, osClock, selection, loaded>>

\* resolveMember
Resolves(member) == Loadable(member.report.skill) /\ skills[member.report.skill].package = member.report.package

\* normalizeSummary: an empty pack or one over the context limit is none.
WellFormedSummary(summary) == summary.classes # {} /\ summary.bytes \in 1..MaxPackContext /\ summary.count > 0

\* SkillOsRuntime.registerPack: the ceiling comes first, each member is resolved.
RegisterPack(p) ==
  /\ Cardinality(osPacks) < MaxPacks
  /\ packs[p] # NoPack /\ WellFormedSummary(Summary(p))
  /\ \A m \in packs[p] : Resolves(m)
  /\ osPacks' = osPacks \cup {p}
  /\ UNCHANGED <<intakeVars, packs, pins, pinHistory, osClock, selection, loaded>>

\* #requirePinTarget
PinTarget(t, p) == p \in osPacks /\ t \in ClassesOf(p)

Pin(t, p) ==
  /\ PinTarget(t, p)
  /\ pins' = [pins EXCEPT ![t] = p]
  /\ pinHistory' = pinHistory \cup {<<t, p>>}
  /\ UNCHANGED <<intakeVars, packs, osPacks, osClock, selection, loaded>>

\* rollback: to what was pinned on this route before.
RollbackPin(t, p) ==
  /\ PinTarget(t, p) /\ <<t, p>> \in pinHistory
  /\ pins' = [pins EXCEPT ![t] = p]
  /\ UNCHANGED <<intakeVars, packs, osPacks, pinHistory, osClock, selection, loaded>>

\* discover: the packs of a class within the request's context, in order.
Eligible(t, context) == {p \in osPacks : t \in ClassesOf(p) /\ ContextBytes(p) <= context}
Before(p, q) == ContextBytes(p) < ContextBytes(q) \/ (ContextBytes(p) = ContextBytes(q) /\ p <= q)
First(found) == CHOOSE p \in found : \A q \in found : Before(p, q)

\* normalizeDiscovery, normalizeSelection
WellFormedRequest(t, context) == t \in TaskClasses /\ context \in 1..MaxPackContext

\* select: the pinned pack or an error, otherwise the first one.
Select(l, t, context) ==
  LET found == Eligible(t, context) IN
  /\ WellFormedRequest(t, context) /\ found # {}
  /\ pins[t] = NoPack \/ pins[t] \in found
  /\ selection' = [selection EXCEPT ![l] =
       LET p == IF pins[t] # NoPack THEN pins[t] ELSE First(found) IN
       [pack |-> p, class |-> t, issuedAt |-> osClock, summary |-> Summary(p)]]
  /\ UNCHANGED <<intakeVars, packs, osPacks, pins, pinHistory, osClock, loaded>>

\* normalizeIssuedSelection
WellFormedSelection(s) == s.class \in TaskClasses /\ s.summary.bytes > 0 /\ s.summary.count > 0

\* The selection still tells what is registered.
Matches(s) == s.pack \in osPacks /\ s.summary = Summary(s.pack)

MembersFor(s) == {m \in packs[s.pack] : s.class \in m.classes}

\* load: the members of the class, each resolved anew; one that fails fails all.
Load(l) ==
  /\ selection[l] # NoPack
  /\ osClock - selection[l].issuedAt <= MaxSelectionAge
  /\ WellFormedSelection(selection[l]) /\ Matches(selection[l])
  /\ MembersFor(selection[l]) # {} /\ \A m \in MembersFor(selection[l]) : Resolves(m)
  /\ loaded' = [loaded EXCEPT ![l] =
       [members |-> MembersFor(selection[l]), class |-> selection[l].class,
        revoked |-> {e.key : e \in {f \in lifecycle : f.action = "REVOKED"}}]]
  /\ UNCHANGED <<intakeVars, packs, osPacks, pins, pinHistory, osClock, selection>>

OsTick == osClock < MaxOsClock /\ osClock' = osClock + 1
          /\ UNCHANGED <<intakeVars, packs, osPacks, pins, pinHistory, selection, loaded>>

RegistryStep == IntakeNext /\ UNCHANGED <<packs, osPacks, pins, pinHistory, osClock, selection, loaded>>

Members == UNION {{[report |-> r, classes |-> c] : c \in SUBSET r.classes \ {{}}} : r \in reports}

OsNext ==
  \/ RegistryStep
  \/ \E p \in PackKeys, members \in SUBSET Members : RegisterMembers(p, members)
  \/ \E p \in PackKeys : RegisterPack(p)
  \/ \E t \in TaskClasses, p \in PackKeys : Pin(t, p) \/ RollbackPin(t, p)
  \/ \E l \in Loaders, t \in TaskClasses, context \in 1..MaxPackContext : Select(l, t, context)
  \/ \E l \in Loaders : Load(l)
  \/ OsTick

OsSpec == OsInit /\ [][OsNext]_osVars

-----------------------------------------------------------------------------
\* Whatever is loaded was measured for its class: its verification in the
\* registry carries the evidence of a trusted report about this content, and
\* nothing revoked by then is among it.
LoadedIsMeasured ==
  \A l \in Loaders : loaded[l] # NoPack =>
    /\ loaded[l].members # {}
    /\ \A m \in loaded[l].members :
         /\ m.report.skill \notin loaded[l].revoked
         /\ loaded[l].class \in m.report.classes
         /\ \E e \in lifecycle : /\ e.action = "VERIFIED" /\ e.key = m.report.skill
                                 /\ e.package = m.report.package
                                 /\ e.refs = m.report.refs /\ e.producer \in IndependentProducers

\* A pin stays a pack of its route that the runtime can select.
PinsSelectable == \A t \in TaskClasses :
  pins[t] # NoPack => <<t, pins[t]>> \in pinHistory /\ pins[t] \in Eligible(t, MaxPackContext)

(***************************************************************************)
(* The chain of trust from a skill's source to what a task loads: a        *)
(* snapshot the intake accepts was scanned to the end and is what is       *)
(* registered; independent verification of exactly this content, also of   *)
(* a candidate registered without the intake; one active version, final    *)
(* revocations, one candidate per synthesis key, and only measured members *)
(* of a pack in a load, over any order of intakes, curations, direct       *)
(* registrations, activations, revocations, pins, selections and loads     *)
(* (firewall.ts 260-534, curator.ts 69-216, skills/registry.ts 50-329,     *)
(* synthesis.ts 37-103, capability-packs/registry.ts 115-300,              *)
(* skill-os/runtime.ts 60-312).                                            *)
(***************************************************************************)
SkillsSound ==
  /\ OneActive /\ VerifiedByOthers /\ RevokedForGood /\ CandidatesRegistered
  /\ AcceptedWasScanned /\ InspectedRegistered
  /\ LoadedIsMeasured /\ PinsSelectable
=============================================================================
