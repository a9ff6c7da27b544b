-------------------------- MODULE ProductionSandbox --------------------------
(***************************************************************************)
(* ProductionSandboxRuntime (src/sandbox/production.ts): one allocation    *)
(* key (backend, mission, task, policy version) and the calls that open,   *)
(* execute in and clean up its session.  JavaScript runs a call up to its  *)
(* next await in one step; when a promise that several calls await settles *)
(* they all resume before anything else happens.  The attestation          *)
(* verifier, the secret broker and the backend adapter are external: what  *)
(* they answer is a choice.  Below it the registry of backends that the    *)
(* router allocates from (src/sandbox/backend.ts, routing.ts).             *)
(***************************************************************************)
EXTENDS Integers, FiniteSets

CONSTANTS SandboxCalls,    \* calls made to the runtime, each once
          ExecutionKeys,   \* idempotency keys of execute
          Policies,        \* policies an open request may carry
          BackendPolicies, \* those that are well formed and match the backend's isolation and version
          Commands,        \* command ids
          CleanupReasons,  \* reasons a caller may give to cleanup
          NoSandbox        \* "nothing there"


\* What verifier, adapter and clients may present.
Attestations == {"fresh", "stale or foreign"}
AllocateAnswers == {"session", "malformed or expired", "rejects"}
ExecuteAnswers == {"SUCCEEDED", "FAILED", "CANCELLED", "TIMED_OUT", "malformed", "over quota", "rejects"}
Sessions == {"genuine", "forged", "late"}

\* normalizeCleanupReason: a reason the runtime knows.
KnownReasons == {"cancelled", "completed", "failed", "expired", "quota_exceeded"}

ASSUME SandboxAssumption ==
  /\ BackendPolicies \subseteq Policies
  /\ NoSandbox \notin SandboxCalls \cup KnownReasons
  /\ NoSandbox \notin [reason : KnownReasons, by : SandboxCalls]
  /\ NoSandbox \notin [command : Commands, outcome : ExecuteAnswers, run : Nat]

VARIABLES
  allocation,   \* #allocations: the policy the session was opened with
  opener,       \* #inflightAllocations: the call whose promise is awaited
  executions,   \* #executions: per key the command, its outcome and the adapter run it came from
  executors,    \* #inflightExecutions: per key the call that owns the execution
  releasedFor,  \* #released: the reason of the successful cleanup
  cleaner,      \* #inflightCleanup: the owning call and its reason
  auditFull,    \* #audit holds MAX_AUDIT_RECORDS
  sandboxCall,  \* the calls
  adapterRuns   \* how often the adapter was asked to execute, per key

sandboxVars == <<allocation, opener, executions, executors, releasedFor, cleaner, auditFull,
                 sandboxCall, adapterRuns>>

SandboxIdle == [op |-> "none", key |-> NoSandbox, arg |-> NoSandbox, at |-> "idle",
                then |-> NoSandbox, cancelled |-> FALSE]

SandboxFailed == [SandboxIdle EXCEPT !.at = "failed"]

SandboxInit ==
  /\ allocation \in {NoSandbox} \cup BackendPolicies   \* not opened yet, or opened by an earlier call
  /\ opener = NoSandbox /\ releasedFor = NoSandbox
  /\ executions = [k \in ExecutionKeys |-> NoSandbox]
  /\ executors = [k \in ExecutionKeys |-> NoSandbox]
  /\ cleaner = NoSandbox /\ auditFull = FALSE
  /\ sandboxCall = [c \in SandboxCalls |-> SandboxIdle]
  /\ adapterRuns = [k \in ExecutionKeys |-> 0]

-----------------------------------------------------------------------------
(* Checks of what comes in. *)

\* normalizePolicy and the comparison with the backend's descriptor
NormalizePolicy(p) == p \in BackendPolicies

\* normalizeAttestation: in time, for this backend, with the hash of its content
NormalizeAttestation(a) == a = "fresh"

\* normalizeAllocationResult, and a session that is not expired at once
NormalizeAllocationResult(a) == a = "session"

\* normalizeExecutionResult with normalizeUsage
NormalizeExecutionResult(a) == a # "malformed"

AssertUsageWithinQuota(a) == a # "over quota"

\* normalizeSession: every field well formed; its hash is compared with the stored one's.
NormalizeSession(session) == session # "forged"

\* #requireKnownSession: the stored session, hash for hash; "late" is past its expiry.
RequireKnownSession(session) == allocation # NoSandbox /\ NormalizeSession(session)

RequireSession(session) == RequireKnownSession(session) /\ releasedFor = NoSandbox /\ session # "late"

-----------------------------------------------------------------------------
(* What settling a promise does to the calls. *)

\* #auditEvent throws once MAX_AUDIT_RECORDS are kept.
Audited == ~auditFull

\* A replay or a joiner: cancelled or unauditable, it throws; otherwise it returns what the owner got.
Replayed(c, result) == IF ~c.cancelled /\ Audited THEN [c EXCEPT !.at = "returned", !.then = result]
                       ELSE SandboxFailed

\* The calls after the in-flight executions of the keys in DOMAIN ended settle: "throw" or an outcome.
ExecutionsSettle(calls, ended) ==
  [c \in SandboxCalls |->
    LET s == calls[c] IN
    IF s.op # "execute" \/ s.at \in {"idle", "returned", "failed"} \/ s.key \notin DOMAIN ended THEN s
    ELSE IF ended[s.key] = "throw" THEN SandboxFailed
    ELSE IF executors[s.key] = c THEN [s EXCEPT !.at = "returned", !.then = ended[s.key]]
    ELSE IF s.at = "joining" THEN Replayed(s, ended[s.key])
    ELSE s]

\* The owner records a result (execute 434) and drops the in-flight entry (finally).
RecordExecutions(ended) ==
  /\ executions' = [k \in ExecutionKeys |->
       IF k \in DOMAIN ended /\ ended[k] # "throw"
       THEN [command |-> sandboxCall[executors[k]].arg, outcome |-> ended[k], run |-> adapterRuns[k]]
       ELSE executions[k]]
  /\ executors' = [k \in ExecutionKeys |-> IF k \in DOMAIN ended THEN NoSandbox ELSE executors[k]]

-----------------------------------------------------------------------------
(* open *)

\* The session is stored: replay it, unless the policy differs or it was released.
OpenReplay(c, p) ==
  LET s == [SandboxIdle EXCEPT !.op = "open", !.arg = p] IN
  /\ allocation # NoSandbox
  /\ sandboxCall' = [sandboxCall EXCEPT ![c] =
       IF p = allocation /\ releasedFor = NoSandbox THEN Replayed(s, p) ELSE SandboxFailed]
  /\ UNCHANGED opener

\* Another call is opening: await its promise, or own one.
OpenJoin(c, p) ==
  LET s == [SandboxIdle EXCEPT !.op = "open", !.arg = p] IN
  /\ allocation = NoSandbox /\ opener # NoSandbox
  /\ sandboxCall' = [sandboxCall EXCEPT ![c] =
       IF p = sandboxCall[opener].arg THEN [s EXCEPT !.at = "joining"] ELSE SandboxFailed]
  /\ UNCHANGED opener

OpenOwn(c, p) ==
  /\ allocation = NoSandbox /\ opener = NoSandbox
  /\ sandboxCall' = [sandboxCall EXCEPT ![c] = [SandboxIdle EXCEPT !.op = "open", !.arg = p, !.at = "verifying"]]
  /\ opener' = c

Open(c, p) ==
  /\ sandboxCall[c].at = "idle"
  /\ IF NormalizePolicy(p) THEN OpenReplay(c, p) \/ OpenJoin(c, p) \/ OpenOwn(c, p)
     ELSE sandboxCall' = [sandboxCall EXCEPT ![c] = SandboxFailed] /\ UNCHANGED opener
  /\ UNCHANGED <<allocation, executions, executors, releasedFor, cleaner, auditFull, adapterRuns>>

\* The opener's promise rejects: the opener and everyone who joined it throw.
OpeningFails ==
  /\ sandboxCall' = [c \in SandboxCalls |->
       IF sandboxCall[c].op = "open" /\ sandboxCall[c].at \in {"verifying", "allocating", "joining"}
       THEN SandboxFailed ELSE sandboxCall[c]]
  /\ opener' = NoSandbox

\* verifier.verify answers: an attestation that is refused or late, or a cancelled opener, ends it.
Attested(c, attestation) ==
  /\ opener = c /\ sandboxCall[c].at = "verifying"
  /\ IF NormalizeAttestation(attestation) /\ ~sandboxCall[c].cancelled
     THEN sandboxCall' = [sandboxCall EXCEPT ![c].at = "allocating"] /\ UNCHANGED opener
     ELSE OpeningFails
  /\ UNCHANGED <<allocation, executions, executors, releasedFor, cleaner, auditFull, adapterRuns>>

\* adapter.allocate answers.  The session is stored before the audit record that may throw.
Allocated(c, answer) ==
  /\ opener = c /\ sandboxCall[c].at = "allocating"
  /\ IF NormalizeAllocationResult(answer) /\ ~sandboxCall[c].cancelled
     THEN /\ allocation' = sandboxCall[c].arg
          /\ IF Audited
             THEN /\ sandboxCall' = [d \in SandboxCalls |->
                       IF d = c THEN [sandboxCall[d] EXCEPT !.at = "returned", !.then = allocation']
                       ELSE IF sandboxCall[d].op = "open" /\ sandboxCall[d].at = "joining"
                            THEN Replayed(sandboxCall[d], allocation')
                       ELSE sandboxCall[d]]
                  /\ opener' = NoSandbox
             ELSE OpeningFails
     ELSE OpeningFails /\ UNCHANGED allocation
  /\ UNCHANGED <<executions, executors, releasedFor, cleaner, auditFull, adapterRuns>>

-----------------------------------------------------------------------------
(* cleanup, called by a client and by an execution that ends badly *)

\* What the cleanup of `calls[c]` for `reason` does at once.  `direct` is a client's call.
CleanupStarts(calls, c, reason, direct) ==
  LET replay == /\ reason = releasedFor /\ Audited
      ended  == [k \in (IF direct THEN {} ELSE {calls[c].key}) |-> IF replay THEN calls[c].then ELSE "throw"]
  IN  IF releasedFor # NoSandbox
      THEN /\ sandboxCall' = IF direct THEN [calls EXCEPT ![c] = IF replay THEN [@ EXCEPT !.at = "returned"] ELSE SandboxFailed]
                             ELSE ExecutionsSettle(calls, ended)
           /\ RecordExecutions(ended)
           /\ UNCHANGED cleaner
      ELSE IF cleaner # NoSandbox /\ cleaner.reason # reason
      THEN LET thrown == [k \in DOMAIN ended |-> "throw"] IN
           /\ sandboxCall' = IF direct THEN [calls EXCEPT ![c] = SandboxFailed] ELSE ExecutionsSettle(calls, thrown)
           /\ RecordExecutions(thrown)
           /\ UNCHANGED cleaner
      ELSE /\ sandboxCall' = [calls EXCEPT ![c].at = "cleaning"]
           /\ cleaner' = IF cleaner = NoSandbox THEN [reason |-> reason, by |-> c] ELSE cleaner
           /\ UNCHANGED <<executions, executors>>

Cleanup(c, reason, session) ==
  /\ sandboxCall[c].at = "idle"
  /\ IF RequireKnownSession(session) /\ reason \in KnownReasons
     THEN CleanupStarts([sandboxCall EXCEPT ![c] = [SandboxIdle EXCEPT !.op = "cleanup", !.arg = reason]],
                        c, reason, TRUE)
     ELSE sandboxCall' = [sandboxCall EXCEPT ![c] = SandboxFailed] /\ UNCHANGED <<executions, executors, cleaner>>
  /\ UNCHANGED <<allocation, opener, releasedFor, auditFull, adapterRuns>>

\* adapter.cleanup settles: the owner marks the key released, then audits; joiners resume with it.
Cleaned(ok) ==
  /\ cleaner # NoSandbox
  /\ LET waiting == {c \in SandboxCalls : sandboxCall[c].at = "cleaning"}
         fine(c) == ok /\ Audited /\ (sandboxCall[c].op = "cleanup" /\ c # cleaner.by => ~sandboxCall[c].cancelled)
         ended   == [k \in {sandboxCall[c].key : c \in {d \in waiting : sandboxCall[d].op = "execute"}} |->
                       IF fine(executors[k]) THEN sandboxCall[executors[k]].then ELSE "throw"]
         calls   == [c \in SandboxCalls |->
                       IF c \in waiting /\ sandboxCall[c].op = "cleanup"
                       THEN IF fine(c) THEN [sandboxCall[c] EXCEPT !.at = "returned"] ELSE SandboxFailed
                       ELSE sandboxCall[c]]
     IN  /\ sandboxCall' = ExecutionsSettle(calls, ended)
         /\ RecordExecutions(ended)
  /\ releasedFor' = IF ok THEN cleaner.reason ELSE releasedFor
  /\ cleaner' = NoSandbox
  /\ UNCHANGED <<allocation, opener, auditFull, adapterRuns>>

-----------------------------------------------------------------------------
(* execute *)

ExecuteReplay(c, s) ==
  /\ executions[s.key] # NoSandbox
  /\ sandboxCall' = [sandboxCall EXCEPT ![c] =
       IF executions[s.key].command = s.arg THEN Replayed(s, executions[s.key].outcome)
       ELSE SandboxFailed]
  /\ UNCHANGED executors

ExecuteJoin(c, s) ==
  /\ executions[s.key] = NoSandbox /\ executors[s.key] # NoSandbox
  /\ sandboxCall' = [sandboxCall EXCEPT ![c] =
       IF sandboxCall[executors[s.key]].arg = s.arg THEN [s EXCEPT !.at = "joining"] ELSE SandboxFailed]
  /\ UNCHANGED executors

\* #requireSession: neither released nor expired; then the secrets are brokered before the adapter runs.
ExecuteOwn(c, s, session) ==
  /\ executions[s.key] = NoSandbox /\ executors[s.key] = NoSandbox
  /\ IF RequireSession(session)
     THEN /\ sandboxCall' = [sandboxCall EXCEPT ![c] = [s EXCEPT !.at = "secrets"]]
          /\ executors' = [executors EXCEPT ![s.key] = c]
     ELSE sandboxCall' = [sandboxCall EXCEPT ![c] = SandboxFailed] /\ UNCHANGED executors

Execute(c, k, command, session) ==
  /\ sandboxCall[c].at = "idle"
  /\ LET s == [SandboxIdle EXCEPT !.op = "execute", !.key = k, !.arg = command] IN
     IF RequireKnownSession(session)
     THEN ExecuteReplay(c, s) \/ ExecuteJoin(c, s) \/ ExecuteOwn(c, s, session)
     ELSE sandboxCall' = [sandboxCall EXCEPT ![c] = SandboxFailed] /\ UNCHANGED executors
  /\ UNCHANGED <<allocation, opener, executions, releasedFor, cleaner, auditFull, adapterRuns>>

\* The broker answers: a refusal or unusable material ends the execution, otherwise the adapter runs it.
SecretsResolved(c, granted) ==
  /\ sandboxCall[c].at = "secrets"
  /\ IF granted
     THEN /\ adapterRuns' = [adapterRuns EXCEPT ![sandboxCall[c].key] = @ + 1]
          /\ sandboxCall' = [sandboxCall EXCEPT ![c].at = "running"]
          /\ UNCHANGED <<executions, executors>>
     ELSE LET ended == [k \in {sandboxCall[c].key} |-> "throw"] IN
          /\ sandboxCall' = ExecutionsSettle(sandboxCall, ended) /\ RecordExecutions(ended)
          /\ UNCHANGED adapterRuns
  /\ UNCHANGED <<allocation, opener, releasedFor, cleaner, auditFull>>

\* Fault: a run that timed out leaves its session open.
TimedOutKeepsSession(outcome) ==
  CASE outcome \in {"SUCCEEDED", "TIMED_OUT"} -> NoSandbox [] outcome = "CANCELLED" -> "cancelled" [] OTHER -> "failed"

\* executionCleanupReason
ExecutionCleanupReason(outcome) ==
  CASE outcome = "SUCCEEDED" -> NoSandbox [] outcome = "CANCELLED" -> "cancelled" [] OTHER -> "failed"

\* adapter.execute settles.  Everything but a success cleans the session up before the caller hears of it.
AdapterAnswers(c, answer) ==
  /\ sandboxCall[c].at = "running"
  /\ LET k == sandboxCall[c].key
         settle(result) == LET ended == [j \in {k} |-> result] IN
           /\ sandboxCall' = ExecutionsSettle(sandboxCall, ended) /\ RecordExecutions(ended)
           /\ UNCHANGED cleaner
         cleanFor(reason, then) == CleanupStarts([sandboxCall EXCEPT ![c].then = then], c, reason, FALSE)
     IN  CASE answer = "rejects" -> cleanFor(IF sandboxCall[c].cancelled THEN "cancelled" ELSE "failed", "throw")
           [] answer # "rejects" /\ sandboxCall[c].cancelled -> cleanFor("cancelled", "throw")
           [] ~NormalizeExecutionResult(answer) /\ ~sandboxCall[c].cancelled -> settle("throw")
           [] ~AssertUsageWithinQuota(answer) /\ ~sandboxCall[c].cancelled -> cleanFor("quota_exceeded", "throw")
           [] OTHER -> IF ~Audited THEN settle("throw")
                       ELSE IF ExecutionCleanupReason(answer) = NoSandbox THEN settle(answer)
                       ELSE cleanFor(ExecutionCleanupReason(answer), answer)
  /\ UNCHANGED <<allocation, opener, releasedFor, auditFull, adapterRuns>>

-----------------------------------------------------------------------------
(* The environment: callers cancel, the audit log fills up. *)

CancelSandboxCall(c) ==
  /\ sandboxCall[c].at \notin {"idle", "returned", "failed"} /\ ~sandboxCall[c].cancelled
  /\ sandboxCall' = [sandboxCall EXCEPT ![c].cancelled = TRUE]
  /\ UNCHANGED <<allocation, opener, executions, executors, releasedFor, cleaner, auditFull, adapterRuns>>

AuditFills ==
  /\ ~auditFull
  /\ auditFull' = TRUE
  /\ UNCHANGED <<allocation, opener, executions, executors, releasedFor, cleaner, sandboxCall, adapterRuns>>

SandboxAnswers(c) ==
  \/ \E a \in Attestations : Attested(c, a)
  \/ \E a \in AllocateAnswers : Allocated(c, a)
  \/ \E granted \in BOOLEAN : SecretsResolved(c, granted)
  \/ \E a \in ExecuteAnswers : AdapterAnswers(c, a)

SandboxNext ==
  \/ \E c \in SandboxCalls :
       \/ \E p \in Policies : Open(c, p)
       \/ \E k \in ExecutionKeys, command \in Commands, s \in Sessions : Execute(c, k, command, s)
       \/ \E r \in CleanupReasons, s \in Sessions : Cleanup(c, r, s)
       \/ SandboxAnswers(c)
       \/ CancelSandboxCall(c)
  \/ \E ok \in BOOLEAN : Cleaned(ok)
  \/ AuditFills

-----------------------------------------------------------------------------
(* Properties *)

\* The in-flight maps name calls that are really in flight, so a settled promise always has its waiters.
InflightNamesOwners ==
  /\ \A k \in ExecutionKeys : executors[k] # NoSandbox =>
       sandboxCall[executors[k]].key = k /\ sandboxCall[executors[k]].at \in {"secrets", "running", "cleaning"}
  /\ opener # NoSandbox => sandboxCall[opener].at \in {"verifying", "allocating"}
  /\ \A c \in SandboxCalls : sandboxCall[c].at = "joining" =>
       IF sandboxCall[c].op = "open" THEN opener # NoSandbox ELSE executors[sandboxCall[c].key] # NoSandbox
  /\ \A c \in SandboxCalls : sandboxCall[c].at = "cleaning" => cleaner # NoSandbox

\* Exactly-once results: a recorded key is not run again, and whoever got a result got the recorded one.
OneResultPerKey ==
  /\ \A k \in ExecutionKeys : executions[k] # NoSandbox =>
       executions[k].run = adapterRuns[k] /\ executors[k] = NoSandbox
  /\ \A c \in SandboxCalls : sandboxCall[c].op = "execute" /\ sandboxCall[c].at = "returned" =>
       LET e == executions[sandboxCall[c].key] IN
       e # NoSandbox /\ e.outcome = sandboxCall[c].then /\ e.command = sandboxCall[c].arg

\* A result other than success is only ever reported once the session is released.
BadEndReleases ==
  \A k \in ExecutionKeys : executions[k] # NoSandbox /\ executions[k].outcome # "SUCCEEDED" =>
    releasedFor # NoSandbox

(***************************************************************************)
(* The single-flight maps of production.ts (inflight*, #executions,        *)
(* #released) under any interleaving of open, execute and cleanup, with    *)
(* cancellations, refusals and a full audit log: every waiter has an       *)
(* owner, results are exactly-once per idempotency key, and a failed,      *)
(* timed-out or cancelled run is reported only after its session was       *)
(* released.                                                               *)
(***************************************************************************)
SandboxSound == InflightNamesOwners /\ OneResultPerKey /\ BadEndReleases
-----------------------------------------------------------------------------
(***************************************************************************)
(* SandboxBackendRegistry (src/sandbox/backend.ts) and the router in front *)
(* of it (routing.ts): per model profile one allocation key, allocated and *)
(* released at most once by calls that may overlap, cancel and fail.  The  *)
(* credential resolver and the backend adapters are external.              *)
(***************************************************************************)
CONSTANTS BackendCalls,     \* calls made to the registry, each once
          Profiles,         \* model profiles a routing decision offers
          BoundProfiles,    \* profiles with a binding to a backend
          CredentialBound,  \* profiles whose backend requires a credential
          Timeouts,         \* timeoutMs values: the rest of the fingerprint
          ReleaseReasons,
          NoSession

ASSUME ProfilesAssumption ==
  /\ BoundProfiles \subseteq Profiles /\ CredentialBound \subseteq BoundProfiles
  /\ NoSession \notin BackendCalls /\ NoSession \notin Timeouts /\ NoSession \notin ReleaseReasons

VARIABLES
  session,        \* #allocations: per profile the timeout it was allocated with
  creating,       \* #inflight: the call that owns the creation
  releaseReason,  \* #released
  destroying,     \* #releaseInflight: the call that owns the destruction
  backendCall,    \* the calls
  destroyed       \* ghost: how often a backend destroyed the session

backendVars == <<session, creating, releaseReason, destroying, backendCall, destroyed>>

BackendIdle == [op |-> "none", profile |-> NoSession, arg |-> NoSession, at |-> "idle", cancelled |-> FALSE]

BackendInit ==
  /\ session = [p \in Profiles |-> NoSession]
  /\ creating = [p \in Profiles |-> NoSession]
  /\ releaseReason = [p \in Profiles |-> NoSession]
  /\ destroying = [p \in Profiles |-> NoSession]
  /\ backendCall = [c \in BackendCalls |-> BackendIdle]
  /\ destroyed = [p \in Profiles |-> 0]

\* normalizeBinding, normalizeDescriptor and resolve: the profile is bound to a registered backend.
Resolves(p) == p \in BoundProfiles

\* Fault: the fingerprint of a replay is not compared.
AnyFingerprint(stored, requested) == TRUE

\* assertAllocationFingerprint and assertReleaseReason: a replay must ask for what was asked first.
SameFingerprint(stored, requested) == stored = requested

\* Where a creation or a destruction starts: a backend that needs a credential awaits it first.
FirstAwait(p, next) == IF p \in CredentialBound THEN "credential" ELSE next

\* A call as it enters the registry.
StartedCall(op, p, arg, at) == [op |-> op, profile |-> p, arg |-> arg, at |-> at, cancelled |-> FALSE]

\* selectedCandidate + allocate: the binding, the stored session, the in-flight promise, or a new one.
Allocate(c, p, timeout) ==
  /\ backendCall[c].at = "idle"
  /\ LET at == IF ~Resolves(p) THEN "failed"
               ELSE IF session[p] # NoSession
               THEN IF SameFingerprint(session[p], timeout) /\ releaseReason[p] = NoSession THEN "returned" ELSE "failed"
               ELSE IF creating[p] # NoSession
               THEN IF SameFingerprint(backendCall[creating[p]].arg, timeout) THEN "joining" ELSE "failed"
               ELSE FirstAwait(p, "creating")
     IN  /\ backendCall' = [backendCall EXCEPT ![c] = StartedCall("allocate", p, timeout, at)]
         /\ creating' = IF at \in {"credential", "creating"} THEN [creating EXCEPT ![p] = c] ELSE creating
  /\ UNCHANGED <<session, releaseReason, destroying, destroyed>>

\* release: only a known session; replayed, joined, or destroyed by this call.
ReleaseBackend(c, p, reason) ==
  /\ backendCall[c].at = "idle" /\ session[p] # NoSession
  /\ LET at == IF releaseReason[p] # NoSession
               THEN IF SameFingerprint(releaseReason[p], reason) THEN "returned" ELSE "failed"
               ELSE IF destroying[p] # NoSession
               THEN IF SameFingerprint(backendCall[destroying[p]].arg, reason) THEN "joining" ELSE "failed"
               ELSE FirstAwait(p, "destroying")
     IN  /\ backendCall' = [backendCall EXCEPT ![c] = StartedCall("release", p, reason, at)]
         /\ destroying' = IF at \in {"credential", "destroying"} THEN [destroying EXCEPT ![p] = c] ELSE destroying
  /\ UNCHANGED <<session, creating, releaseReason, destroyed>>

\* The promise call c owns settles; those who joined it resume in the same step.  A joiner of a release
\* looks at its own signal afterwards, a joiner of an allocation does not.
SettleBackend(c, ok) ==
  backendCall' = [d \in BackendCalls |->
    LET s == backendCall[d] IN
    IF d # c /\ (s.at # "joining" \/ s.op # backendCall[c].op \/ s.profile # backendCall[c].profile) THEN s
    ELSE [s EXCEPT !.at = IF ok /\ (d # c /\ s.op = "release" => ~s.cancelled) THEN "returned" ELSE "failed"]]

\* #resolveCredential answers; a refusal, unusable material or a cancelled caller rejects the promise.
CredentialResolved(c, granted) ==
  /\ backendCall[c].at = "credential"
  /\ LET p == backendCall[c].profile IN
     IF granted /\ ~backendCall[c].cancelled
     THEN /\ backendCall' = [backendCall EXCEPT ![c].at = IF creating[p] = c THEN "creating" ELSE "destroying"]
          /\ UNCHANGED <<creating, destroying>>
     ELSE /\ SettleBackend(c, FALSE)
          /\ creating' = IF creating[p] = c THEN [creating EXCEPT ![p] = NoSession] ELSE creating
          /\ destroying' = IF destroying[p] = c THEN [destroying EXCEPT ![p] = NoSession] ELSE destroying
  /\ UNCHANGED <<session, releaseReason, destroyed>>

\* adapter.create answers; the stored session is what every later request of the key gets.
Created(c, ok) ==
  /\ backendCall[c].at = "creating"
  /\ LET p == backendCall[c].profile IN
     /\ session' = IF ok THEN [session EXCEPT ![p] = backendCall[c].arg] ELSE session
     /\ creating' = [creating EXCEPT ![p] = NoSession]
  /\ SettleBackend(c, ok)
  /\ UNCHANGED <<releaseReason, destroying, destroyed>>

\* adapter.destroy answers.
Destroyed(c, ok) ==
  /\ backendCall[c].at = "destroying"
  /\ LET p == backendCall[c].profile IN
     /\ releaseReason' = IF ok THEN [releaseReason EXCEPT ![p] = backendCall[c].arg] ELSE releaseReason
     /\ destroyed' = IF ok THEN [destroyed EXCEPT ![p] = @ + 1] ELSE destroyed
     /\ destroying' = [destroying EXCEPT ![p] = NoSession]
  /\ SettleBackend(c, ok)
  /\ UNCHANGED <<session, creating>>

CancelBackendCall(c) ==
  /\ backendCall[c].at \in {"credential", "creating", "destroying", "joining"} /\ ~backendCall[c].cancelled
  /\ backendCall' = [backendCall EXCEPT ![c].cancelled = TRUE]
  /\ UNCHANGED <<session, creating, releaseReason, destroying, destroyed>>

BackendAnswers(c) == \E ok \in BOOLEAN : CredentialResolved(c, ok) \/ Created(c, ok) \/ Destroyed(c, ok)

BackendNext ==
  \E c \in BackendCalls :
    \/ \E p \in Profiles, t \in Timeouts : Allocate(c, p, t)
    \/ \E p \in Profiles, r \in ReleaseReasons : ReleaseBackend(c, p, r)
    \/ BackendAnswers(c)
    \/ CancelBackendCall(c)

BackendSpec == BackendInit /\ [][BackendNext]_backendVars

(***************************************************************************)
(* A session of the registry is handed out only while it lives, with the   *)
(* fingerprint it was created for, and is destroyed once: whoever joins an *)
(* allocation, retries after a failed creation or releases concurrently    *)
(* with others (backend.ts 282-313, 326-364), a released key never comes   *)
(* back and no second destruction succeeds.                                *)
(***************************************************************************)
SessionsHandedOutAlive ==
  [][ /\ \A c \in BackendCalls :
           backendCall[c].at # "returned" /\ backendCall'[c].at = "returned" /\ backendCall'[c].op = "allocate" =>
             LET p == backendCall'[c].profile IN
             session'[p] = backendCall'[c].arg /\ releaseReason'[p] = NoSession
      /\ \A p \in Profiles : destroyed'[p] <= 1 /\ (releaseReason[p] # NoSession =>
           session'[p] = session[p] /\ releaseReason'[p] = releaseReason[p])
    ]_backendVars
=============================================================================
