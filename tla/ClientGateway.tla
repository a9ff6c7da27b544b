--------------------------- MODULE ClientGateway ---------------------------
(***************************************************************************)
(* The client of one mission and its two channels, which share no state:   *)
(* what it is shown and what it commands.                                  *)
(*                                                                         *)
(* State pages: the protocol gateway (src/client/control.ts, protocol.ts)  *)
(* behind the hosted service's request handlers (src/hosted/service.ts),   *)
(* the client's reducer (reducer.ts) and the mobile cache                  *)
(* (src/mobile/experience.ts).  Responses travel over a transport that may *)
(* delay, reorder, repeat and lose them.  The mission's event stream and   *)
(* the job lifecycle log are counted; what they hold is modelled in        *)
(* MissionRuntime and JobStore.                                            *)
(*                                                                         *)
(* Commands: HostedMissionBackend.command, ClientProtocolGateway.command   *)
(* and EventStoreMissionCommandAuthority, and the mobile approval          *)
(* challenges.  The mission's states are those a command tells apart.      *)
(***************************************************************************)
EXTENDS Integers, FiniteSets, Sequences, SequencesExt

CONSTANTS MaxMissionVersion,  \* bound: mission events
          MaxLifecycle,       \* bound: job lifecycle events
          MaxInFlight,        \* bound: state requests and responses under way
          PageLimit,          \* `limit` of a state request
          NoClient

ASSUME ClientAssumption == MaxMissionVersion \in Nat /\ MaxLifecycle \in Nat /\ PageLimit \in Nat \ {0}

VARIABLES
  missionVersion,  \* the mission stream's length
  lifecycle,    \* number of job lifecycle events; their cursors are 1 .. lifecycle
  reading,      \* state requests whose mission events are loaded: [after, version]
  wire,         \* state responses sent and not known to be lost
  client,       \* ClientReducerState: cursor, projection version, job counts, recentEventHashes;
                \* ghosts: the lifecycle events its user has been shown, and where the first page started (base)
  offline       \* MobileOfflineSnapshot

clientVars == <<missionVersion, lifecycle, reading, wire, client, offline>>

ClientInit ==
  /\ missionVersion = 1
  /\ lifecycle = 0 /\ reading = {} /\ wire = {}
  /\ client = NoClient /\ offline = NoClient

-----------------------------------------------------------------------------
(* The runtime behind the gateway moves on: external to this module. *)

MissionAdvances ==
  /\ missionVersion < MaxMissionVersion
  /\ missionVersion' = missionVersion + 1
  /\ UNCHANGED <<lifecycle, reading, wire, client, offline>>

JobEvent ==
  /\ lifecycle < MaxLifecycle
  /\ lifecycle' = lifecycle + 1
  /\ UNCHANGED <<missionVersion, reading, wire, client, offline>>

-----------------------------------------------------------------------------
(* gateway.state behind bootstrap and reconnect *)

\* Whom the bearer token resolves to (normalizeContext, normalizeIdentity); #authorize lets one through.
Identities == {"in scope", "unresolved", "expired or foreign"}
Authorize(identity) == identity = "in scope"

\* The cursors a client asks from: decodeClientStateRequest accepts any natural number.
RequestCursors == {0} \cup (IF client = NoClient THEN {} ELSE {client.cursor})
                      \cup (IF offline = NoClient THEN {} ELSE {offline.cursor})

\* reconnect: the realtime adapter has observed everything up to the cursor (bootstrap starts at 0).
Contiguous(after) == after <= lifecycle

\* The request is let through (a refused one only leaves an audit record), the mission's events are loaded.
StateRequested(after, identity) ==
  /\ after \in RequestCursors /\ Authorize(identity) /\ Contiguous(after)
  /\ Cardinality(reading) + Cardinality(wire) < MaxInFlight
  /\ reading' = reading \cup {[after |-> after, version |-> missionVersion]}
  /\ UNCHANGED <<missionVersion, lifecycle, wire, client, offline>>

\* normalizeLifecycleEvent over one page after the cursor.
Page(after) == {e \in 1 .. lifecycle : e > after /\ e <= after + PageLimit}

\* buildClientProjection: the version of the events loaded before, the job counts of now.
Projection(r) == [version |-> r.version, jobs |-> lifecycle]

\* decodeClientStateResponse: the events of a page follow its cursor, the last one is the next cursor.
Decodes(m) == m.next = (IF m.page = {} THEN m.from ELSE CHOOSE e \in m.page : \A f \in m.page : f <= e)

\* The activity reads answer later; the client takes a response only if it decodes.
StateAnswered(r) ==
  /\ r \in reading
  /\ \E next \in r.after .. lifecycle :
       /\ Decodes([from |-> r.after, next |-> next, page |-> Page(r.after)])
       /\ wire' = wire \cup {[from |-> r.after, next |-> next, version |-> Projection(r).version,
                               jobs |-> Projection(r).jobs]}
  /\ reading' = reading \ {r}
  /\ UNCHANGED <<missionVersion, lifecycle, client, offline>>

\* The transport drops a response (or stops repeating one).
LoseResponse(m) ==
  /\ m \in wire
  /\ wire' = wire \ {m}
  /\ UNCHANGED <<missionVersion, lifecycle, reading, client, offline>>

-----------------------------------------------------------------------------
(* reduceClientState *)

\* Fault: a page from beyond the cursor is taken.
GapTaken(m) == \/ m.version < client.version
               \/ m.from < client.cursor /\ \E e \in m.from + 1 .. m.next : e > client.cursor \/ e \notin client.hashes

\* A response the reducer refuses (RESYNC_REQUIRED): older, from beyond the cursor, or with unseen events.
Resync(m) == \/ m.version < client.version
             \/ m.from > client.cursor
             \/ m.from < client.cursor /\ \E e \in m.from + 1 .. m.next : e > client.cursor \/ e \notin client.hashes

\* The state that holds page m on top of the events known before, which go back to base.
Shows(m, hashes, shown, base) ==
  [cursor |-> m.next, version |-> m.version, jobs |-> m.jobs, base |-> base,
   hashes |-> hashes \cup (m.from + 1 .. m.next), shown |-> shown \cup (m.from + 1 .. m.next)]

\* A replayed page only refreshes the projection; the page after the cursor moves it.
Reduced(m) == IF m.from < client.cursor THEN [client EXCEPT !.version = m.version, !.jobs = m.jobs]
              ELSE Shows(m, client.hashes, client.shown, client.base)

\* A client without state takes whatever page comes first; its pages chain afterwards.
Bootstrap(m) ==
  /\ m \in wire /\ client = NoClient
  /\ client' = Shows(m, {}, {}, m.from)
  /\ UNCHANGED <<missionVersion, lifecycle, reading, wire, offline>>

Receive(m) ==
  /\ m \in wire /\ client # NoClient /\ ~Resync(m)
  /\ client' = Reduced(m)
  /\ UNCHANGED <<missionVersion, lifecycle, reading, wire, offline>>

\* RESYNC_REQUIRED: the client gives its state up for a fresh bootstrap.
ReceiveResync(m) ==
  /\ m \in wire /\ client # NoClient /\ Resync(m)
  /\ client' = NoClient
  /\ UNCHANGED <<missionVersion, lifecycle, reading, wire, offline>>

-----------------------------------------------------------------------------
(* The mobile cache *)

\* readMobileOfflineSnapshot: the hash of the cached content and its binding to this session check.
Readable(cached) == cached # NoClient

\* createMobileOfflineSnapshot; the app is suspended and its state gone.
Suspend ==
  /\ client # NoClient
  /\ offline' = client /\ client' = NoClient
  /\ UNCHANGED <<missionVersion, lifecycle, reading, wire>>

\* resumeMobileExperience: continued from the cached cursor, or bootstrapped; never older than the cache.
ResumeMobile(m) ==
  /\ m \in wire /\ client = NoClient /\ Readable(offline)
  /\ m.version >= offline.version /\ m.next >= offline.cursor
  /\ m.from \in {0, offline.cursor}
  /\ client' = IF m.from = 0 THEN Shows(m, {}, {}, 0) ELSE Shows(m, {}, offline.shown, offline.base)
  /\ offline' = NoClient
  /\ UNCHANGED <<missionVersion, lifecycle, reading, wire>>

ClientNext ==
  \/ MissionAdvances \/ JobEvent \/ Suspend
  \/ \E n \in 0 .. MaxLifecycle, identity \in Identities : StateRequested(n, identity)
  \/ \E r \in reading : StateAnswered(r)
  \/ \E m \in wire : LoseResponse(m) \/ Bootstrap(m) \/ Receive(m) \/ ReceiveResync(m) \/ ResumeMobile(m)

-----------------------------------------------------------------------------
(***************************************************************************)
(* Whatever order pages arrive in, repeated or late, through suspensions   *)
(* and resumes: from the first page it took to its cursor the client has   *)
(* been shown every lifecycle event, and nothing the server does not have  *)
(* (reducer.ts 19-60, experience.ts 213-255).  A client without state      *)
(* takes a page from anywhere (reducer.ts 11-18), a late one it had asked  *)
(* for before a resync too; what it misses then is only what lies before   *)
(* that page.                                                              *)
(***************************************************************************)
ClientSeesAll ==
  client # NoClient =>
    /\ client.shown = client.base + 1 .. client.cursor
    /\ client.base <= client.cursor
    /\ client.cursor <= lifecycle /\ client.jobs <= lifecycle
    /\ client.version <= missionVersion

-----------------------------------------------------------------------------
(* Commands *)

CONSTANTS CommandCalls,       \* command requests, each handled once; a retry is another call
          CommandKeys,        \* idempotency keys of the client's session
          MaxStreamVersion,   \* bound: mission events, before a command that still fits
          IssueTimes,         \* issuedAt of a request; a retry may keep it
          ComparesVersion,    \* the store's fingerprint of a batch holds the expected version: TRUE for
                              \* SqliteDurableStore (durable/store.ts), FALSE for InMemoryEventStore (events/store.ts)
          Challenges,         \* approval challenge ids
          NoCommand

ASSUME CommandAssumption == NoCommand \notin CommandKeys /\ ComparesVersion \in BOOLEAN

ClientCommands == {"mission.pause", "mission.resume", "mission.cancel"}

\* Two of the states that can be interrupted: a pause captures the one it meets.
ActiveStates == {"EXECUTING", "VERIFYING"}

VARIABLES
  stream,       \* the mission's event stream: after each batch its state, the captured state, the version;
                \* and for a command's batch its key, its items and the version it was written for
  commandCall,  \* the requests
  challenge     \* MobileApprovalAuthority: per id its state, the version it binds and the receipts given

controlVars == <<stream, commandCall, challenge>>

ControlInit ==
  /\ stream = <<[state |-> "EXECUTING", resume |-> NoCommand, key |-> NoCommand, items |-> NoCommand, expected |-> 0,
                  version |-> 1]>>
  /\ commandCall = [c \in CommandCalls |-> [at |-> "idle", key |-> NoCommand, command |-> NoCommand, expected |-> 0,
                                            issued |-> NoCommand, items |-> NoCommand, answer |-> NoCommand]]
  /\ challenge = [i \in Challenges |-> [at |-> "none", version |-> 0, receipts |-> 0]]

StreamVersion == Last(stream).version

\* Where the batch appended under key k is, if there is one (the event store's idempotency index).
Batch(k) == {n \in DOMAIN stream : stream[n].key = k}

\* The runtime appends an event of its own, which may be a transition.
RuntimeAppends(state) ==
  /\ Last(stream).state \in ActiveStates /\ StreamVersion < MaxStreamVersion
  /\ stream' = Append(stream, [state |-> state, resume |-> NoCommand, key |-> NoCommand, items |-> NoCommand,
                               expected |-> 0, version |-> StreamVersion + 1])
  /\ UNCHANGED <<commandCall, challenge>>

\* commandTargets and transitionEvent: the states a command starts from, and where it leads.
CommandFrom(command) == CASE command = "mission.pause" -> ActiveStates [] command = "mission.resume" -> {"PAUSED"}
                          [] OTHER -> ActiveStates \cup {"PAUSED"}
CommandTo(command, batch) == CASE command = "mission.pause" -> "PAUSED" [] command = "mission.resume" -> batch.resume
                               [] OTHER -> "CANCELLED"

\* The items of a command in the state after a batch: two transitions with the request's issuedAt.
Items(command, batch, issued) == [from |-> batch.state, to |-> CommandTo(command, batch), issued |-> issued]

\* A request that is authorized, in time and in scope; the others change nothing.
SendCommand(c, k, command, expected, issued) ==
  /\ commandCall[c].at = "idle"
  /\ commandCall' = [commandCall EXCEPT ![c] = [at |-> "sent", key |-> k, command |-> command, expected |-> expected,
                                                issued |-> issued, items |-> NoCommand, answer |-> NoCommand]]
  /\ UNCHANGED <<stream, challenge>>

\* The stream is loaded.  The items are built from the state at the expected version, which the stream must have
\* and from which the command must lead on (half-way through a batch none does); REPLAYED or APPLIED is decided here.
CommandLoaded(c) ==
  /\ commandCall[c].at = "sent"
  /\ LET s == commandCall[c]
         starts == {n \in DOMAIN stream : stream[n].version = s.expected /\ stream[n].state \in CommandFrom(s.command)}
     IN \/ /\ starts = {}
           /\ commandCall' = [commandCall EXCEPT ![c].at = "done", ![c].answer = "error"]
        \/ \E n \in starts :
             commandCall' = [commandCall EXCEPT ![c] = [s EXCEPT !.at = "loaded", !.items = Items(s.command, stream[n], s.issued),
                                                        !.answer = IF Batch(s.key) # {} THEN "REPLAYED" ELSE "APPLIED"]]
  /\ UNCHANGED <<stream, challenge>>

\* The batch of a loaded request at the end of the stream; a pause captures the state it leaves.
CommandBatch(s) == [state |-> s.items.to, resume |-> IF s.items.to = "PAUSED" THEN s.items.from ELSE NoCommand, key |-> s.key,
                    items |-> s.items, expected |-> s.expected, version |-> StreamVersion + 2]

\* The key has a batch with the fingerprint of this one.
Replays(s) == \E n \in Batch(s.key) : stream[n].items = s.items /\ (ComparesVersion => stream[n].expected = s.expected)

\* Fault: the append does not compare the version.
AppendsAnywhere(c, audited) ==
  /\ commandCall[c].at = "loaded"
  /\ LET s == commandCall[c]
         fits == Batch(s.key) = {}
     IN  /\ stream' = IF fits THEN Append(stream, CommandBatch(s)) ELSE stream
         /\ commandCall' = [commandCall EXCEPT ![c].at = "done", ![c].answer = IF (fits \/ Replays(s)) /\ audited THEN @ ELSE "error"]
  /\ UNCHANGED challenge

\* append: the key replays its own batch, or the batch meets exactly the version it was written for.
\* The hosted service then writes its audit record; if that fails the caller hears an error.
CommandAppended(c, audited) ==
  /\ commandCall[c].at = "loaded"
  /\ LET s == commandCall[c]
         fits == Batch(s.key) = {} /\ StreamVersion = s.expected
     IN  /\ stream' = IF fits THEN Append(stream, CommandBatch(s)) ELSE stream
         /\ commandCall' = [commandCall EXCEPT ![c].at = "done", ![c].answer = IF (fits \/ Replays(s)) /\ audited THEN @ ELSE "error"]
  /\ UNCHANGED challenge

\* issue: an id is never issued twice.
IssueChallenge(i) ==
  /\ challenge[i].at = "none"
  /\ challenge' = [challenge EXCEPT ![i] = [at |-> "open", version |-> StreamVersion, receipts |-> 0]]
  /\ UNCHANGED <<stream, commandCall>>

\* decide: expired or decided, the challenge is consumed; only the exact version it binds gets a receipt.
DecideChallenge(i, version, late) ==
  /\ challenge[i].at = "open"
  /\ late \/ version = challenge[i].version
  /\ challenge' = [challenge EXCEPT ![i] = [at |-> "consumed", version |-> @.version,
                                            receipts |-> IF late THEN @.receipts ELSE @.receipts + 1]]
  /\ UNCHANGED <<stream, commandCall>>

ControlNext ==
  \/ \E state \in ActiveStates : RuntimeAppends(state)
  \/ \E c \in CommandCalls :
       \/ \E k \in CommandKeys, command \in ClientCommands, v \in 1 .. StreamVersion + 1, issued \in IssueTimes :
            SendCommand(c, k, command, v, issued)
       \/ CommandLoaded(c)
       \/ \E audited \in BOOLEAN : CommandAppended(c, audited)
  \/ \E i \in Challenges :
       IssueChallenge(i) \/ \E v \in 1 .. StreamVersion, late \in BOOLEAN : DecideChallenge(i, v, late)

\* A batch of the stream is a legal continuation of the one before it, a resume one to the captured state.
Continues(batch, before) ==
  /\ batch.expected = before.version /\ batch.items.from = before.state
  /\ batch.state = batch.items.to
  /\ \/ before.state \in ActiveStates /\ batch.state = "PAUSED" /\ batch.resume = before.state
     \/ before.state = "PAUSED" /\ batch.state = before.resume
     \/ before.state \in ActiveStates \cup {"PAUSED"} /\ batch.state = "CANCELLED"

(***************************************************************************)
(* However requests, retries and the runtime's own events interleave       *)
(* between the load and the append: a key has one batch, every command     *)
(* took effect in the state and at the version it was written for, a       *)
(* resume returns to the state its pause had captured, and whoever was     *)
(* told that a command was applied or replayed finds the transition he     *)
(* asked for, with his time of issue, in the stream (control.ts 97-161).   *)
(* That it was written for the version he sent too is only so over a store *)
(* that compares it.                                                       *)
(***************************************************************************)
CommandsTakenOnce ==
  /\ \A k \in CommandKeys : \A m, n \in Batch(k) : m = n
  /\ \A n \in 2 .. Len(stream) : stream[n].key # NoCommand => Continues(stream[n], stream[n - 1])
  /\ \A c \in CommandCalls : LET s == commandCall[c] IN
       s.at = "done" /\ s.answer # "error" =>
         \E n \in 2 .. Len(stream) : /\ stream[n].key = s.key /\ stream[n].items = s.items /\ s.items.issued = s.issued
                                     /\ ComparesVersion => stream[n].expected = s.expected
  /\ \A i \in Challenges : challenge[i].receipts <= 1

-----------------------------------------------------------------------------
GatewayNext ==
  \/ ClientNext /\ UNCHANGED controlVars
  \/ ControlNext /\ UNCHANGED clientVars

GatewaySpec == ClientInit /\ ControlInit /\ [][GatewayNext]_<<clientVars, controlVars>>

\* What a client shows and what its commands do, under repeated, delayed and
\* reordered pages and retried commands (client/reducer.ts, client/control.ts).
ClientsSound == ClientSeesAll /\ CommandsTakenOnce
=============================================================================
