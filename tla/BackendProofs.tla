--------------------------- MODULE BackendProofs ---------------------------
(***************************************************************************)
(* Proofs about the hosted services, for any number of workers, leases,    *)
(* clients, versions, pages, commands, requests and builds; about what is  *)
(* decided on evidence, the two orchestrators, and the queue beside them.  *)
(***************************************************************************)
EXTENDS MCServices, FiniteSetTheorems, SequenceTheorems, WellFoundedInduction, TLAPS

-----------------------------------------------------------------------------
(* The worker of the hosted backend (hosted/service.ts runWorkerOnce) *)

WorkerSteps == {"idle", "claimed", "executing", "settling", "settled", "returned", "abandoning", "failed"}

HostedTypeOK ==
  /\ queueRow \in [status : {"PENDING", "RUNNING", "SUCCEEDED"}, generation : Nat, lapsed : BOOLEAN]
  /\ hostedWorker \in [HostedWorkers -> [at : WorkerSteps, generation : Nat]]
  /\ abortSignal \in [HostedWorkers -> BOOLEAN]
  /\ stateHash \in StateHashes
  /\ snapshot \in StateHashes \cup {NoHosted} /\ restoreDone \in StateHashes \cup {NoHosted}

\* The queue never hands a generation out twice: whatever a worker remembers is at most the
\* generation of the row, so the next claim is newer than all of them.
GenerationsBehind == \A w \in HostedWorkers : hostedWorker[w].generation <= queueRow.generation

HostedInv == HostedTypeOK /\ GenerationsBehind /\ SettledByItsLease

\* The steps of one worker that leave the row alone change where that worker is, and nothing of its lease.
LEMMA WorkerMoves ==
  ASSUME HostedInv, NEW w \in HostedWorkers, NEW at \in WorkerSteps,
         hostedWorker' = [hostedWorker EXCEPT ![w].at = at],
         UNCHANGED <<queueRow, backupVars>>, abortSignal' \in [HostedWorkers -> BOOLEAN],
         at \in {"executing", "settling"} => hostedWorker[w].at \in {"claimed", "executing", "settling"},
         at \in {"settled", "returned"} => hostedWorker[w].at \in {"settled", "returned"},
         at # "claimed"
  PROVE  HostedInv'
<1>1. HostedTypeOK'
  BY DEF HostedInv, HostedTypeOK, backupVars
<1>2. \A v \in HostedWorkers : /\ hostedWorker'[v].generation = hostedWorker[v].generation
                               /\ hostedWorker'[v].at = IF v = w THEN at ELSE hostedWorker[v].at
  BY DEF HostedInv, HostedTypeOK
<1>3. GenerationsBehind'
  BY <1>2 DEF HostedInv, GenerationsBehind
<1>4. SettledByItsLease'
  BY <1>2 DEF HostedInv, SettledByItsLease, backupVars
<1> QED BY <1>1, <1>3, <1>4 DEF HostedInv

\* queue.claim: the new generation is one that no other worker holds.
LEMMA ClaimKeeps ==
  ASSUME HostedInv, NEW w \in HostedWorkers, NEW lease \in Leases, ClaimHosted(w, lease)
  PROVE  HostedInv'
<1> DEFINE g == queueRow.generation + 1
           at == IF ValidLease(lease) THEN "claimed" ELSE "abandoning"
<1>1. g \in Nat /\ g > queueRow.generation /\ at \in WorkerSteps
  BY DEF HostedInv, HostedTypeOK, WorkerSteps
<1>2. /\ queueRow' = [status |-> "RUNNING", generation |-> g, lapsed |-> FALSE]
      /\ hostedWorker' = [hostedWorker EXCEPT ![w] = [at |-> at, generation |-> g]]
      /\ UNCHANGED <<abortSignal, backupVars>>
      /\ queueRow.status \in {"PENDING", "RUNNING"}
  BY DEF ClaimHosted
<1>a. at \in {"claimed", "abandoning"}
  OBVIOUS
<1> HIDE DEF g, at
<1>3. HostedTypeOK'
  BY <1>1, <1>2 DEF HostedInv, HostedTypeOK, backupVars
<1>4. \A v \in HostedWorkers : /\ hostedWorker'[v].generation = IF v = w THEN g ELSE hostedWorker[v].generation
                               /\ hostedWorker'[v].at = IF v = w THEN at ELSE hostedWorker[v].at
                               /\ hostedWorker[v].generation \in Nat
  BY <1>2 DEF HostedInv, HostedTypeOK
<1>5. \A v \in HostedWorkers : hostedWorker[v].generation < g
  BY <1>1, <1>4 DEF HostedInv, HostedTypeOK, GenerationsBehind
<1>6. GenerationsBehind'
  BY <1>1, <1>2, <1>4, <1>5 DEF GenerationsBehind
<1>7. \A v \in HostedWorkers : hostedWorker'[v].at \notin {"settled", "returned"}
  BY <1>2, <1>4, <1>a DEF HostedInv, SettledByItsLease
<1>8. SettledByItsLease'
  <2>1. queueRow'.generation > 0
    BY <1>1, <1>2 DEF HostedInv, HostedTypeOK
  <2>2. \A v \in HostedWorkers : v # w => hostedWorker'[v].generation # hostedWorker'[w].generation
    BY <1>1, <1>4, <1>5
  <2>3. \A u, v \in HostedWorkers :
          u # v /\ hostedWorker'[u].at \in {"claimed", "executing", "settling"}
                /\ hostedWorker'[v].at \in {"claimed", "executing", "settling"} =>
          hostedWorker'[u].generation # hostedWorker'[v].generation
    BY <1>4, <2>2 DEF HostedInv, SettledByItsLease
  <2>4. (restoreDone # NoHosted => stateHash = restoreDone)'
    BY <1>2 DEF HostedInv, SettledByItsLease, backupVars
  <2> QED BY <1>7, <2>1, <2>3, <2>4 DEF SettledByItsLease
<1> QED BY <1>3, <1>6, <1>8 DEF HostedInv

\* queue.settle: only the lease of the running generation settles, so no other call was told of it before.
LEMMA SettleKeeps ==
  ASSUME HostedInv, NEW w \in HostedWorkers, SettleHosted(w)
  PROVE  HostedInv'
<1>1. CASE queueRow.status = "RUNNING" /\ queueRow.generation = hostedWorker[w].generation
  <2>1. /\ queueRow' = [queueRow EXCEPT !.status = "SUCCEEDED"]
        /\ hostedWorker' = [hostedWorker EXCEPT ![w].at = "settled"]
        /\ UNCHANGED <<abortSignal, backupVars>>
    BY <1>1 DEF SettleHosted
  <2>2. HostedTypeOK'
    BY <2>1 DEF HostedInv, HostedTypeOK, WorkerSteps, backupVars
  <2>3. \A v \in HostedWorkers : /\ hostedWorker'[v].generation = hostedWorker[v].generation
                                 /\ hostedWorker'[v].at = IF v = w THEN "settled" ELSE hostedWorker[v].at
    BY <2>1 DEF HostedInv, HostedTypeOK
  <2>4. queueRow'.status = "SUCCEEDED" /\ queueRow'.generation = queueRow.generation
    BY <2>1 DEF HostedInv, HostedTypeOK
  <2>5. GenerationsBehind'
    BY <2>3, <2>4 DEF HostedInv, GenerationsBehind
  <2>6. \A v \in HostedWorkers : hostedWorker[v].at \notin {"settled", "returned"}
    BY <1>1 DEF HostedInv, SettledByItsLease
  <2>7. SettledByItsLease'
    BY <1>1, <2>1, <2>3, <2>4, <2>6 DEF HostedInv, SettledByItsLease, backupVars
  <2> QED BY <2>2, <2>5, <2>7 DEF HostedInv
<1>2. CASE ~(queueRow.status = "RUNNING" /\ queueRow.generation = hostedWorker[w].generation)
  BY <1>2, WorkerMoves DEF SettleHosted, HostedInv, HostedTypeOK, WorkerSteps
<1> QED BY <1>1, <1>2

\* queue.abandon: a current lease gives the job back, a stale one changes nothing.
LEMMA AbandonKeeps ==
  ASSUME HostedInv, NEW w \in HostedWorkers, AbandonHosted(w)
  PROVE  HostedInv'
<1>1. CASE queueRow.status = "RUNNING" /\ queueRow.generation = hostedWorker[w].generation
  <2>1. /\ queueRow' = [queueRow EXCEPT !.status = "PENDING"]
        /\ hostedWorker' = [hostedWorker EXCEPT ![w].at = "failed"]
        /\ UNCHANGED <<abortSignal, backupVars>>
    BY <1>1 DEF AbandonHosted
  <2>2. HostedTypeOK'
    BY <2>1 DEF HostedInv, HostedTypeOK, WorkerSteps, backupVars
  <2>3. \A v \in HostedWorkers : /\ hostedWorker'[v].generation = hostedWorker[v].generation
                                 /\ hostedWorker'[v].at = IF v = w THEN "failed" ELSE hostedWorker[v].at
    BY <2>1 DEF HostedInv, HostedTypeOK
  <2>4. queueRow'.status = "PENDING" /\ queueRow'.generation = queueRow.generation
    BY <2>1 DEF HostedInv, HostedTypeOK
  <2>5. GenerationsBehind'
    BY <2>3, <2>4 DEF HostedInv, GenerationsBehind
  <2>6. SettledByItsLease'
    BY <1>1, <2>1, <2>3, <2>4 DEF HostedInv, SettledByItsLease, backupVars
  <2> QED BY <2>2, <2>5, <2>6 DEF HostedInv
<1>2. CASE ~(queueRow.status = "RUNNING" /\ queueRow.generation = hostedWorker[w].generation)
  BY <1>2, WorkerMoves DEF AbandonHosted, HostedInv, HostedTypeOK, WorkerSteps
<1> QED BY <1>1, <1>2

\* Every step of the backend's worker, of its queue and of its backups keeps the invariant.
LEMMA HostedStep == HostedInv /\ [HostedNext]_hostedVars => HostedInv'
<1> SUFFICES ASSUME HostedInv, [HostedNext]_hostedVars PROVE HostedInv'
  OBVIOUS
<1>1. ASSUME NEW w \in HostedWorkers, NEW b \in BOOLEAN, ClaimAudited(w, b) PROVE HostedInv'
  BY <1>1, WorkerMoves DEF ClaimAudited, HostedInv, HostedTypeOK, WorkerSteps
<1>2. ASSUME NEW w \in HostedWorkers, NEW b \in BOOLEAN, HandlerEnds(w, b) PROVE HostedInv'
  BY <1>2, WorkerMoves DEF HandlerEnds, HostedInv, HostedTypeOK, WorkerSteps
<1>3. ASSUME NEW w \in HostedWorkers, NEW b \in BOOLEAN, SettlementAudited(w, b) PROVE HostedInv'
  BY <1>3, WorkerMoves DEF SettlementAudited, HostedInv, HostedTypeOK, WorkerSteps
<1>4. ASSUME NEW w \in HostedWorkers, CallAgain(w) PROVE HostedInv'
  BY <1>4, WorkerMoves DEF CallAgain, HostedInv, HostedTypeOK, WorkerSteps
<1>5. ASSUME NEW w \in HostedWorkers, AbortWorker(w) PROVE HostedInv'
  BY <1>5 DEF AbortWorker, HostedInv, HostedTypeOK, GenerationsBehind, SettledByItsLease, backupVars
<1>6. CASE LeaseLapses
  BY <1>6 DEF LeaseLapses, HostedInv, HostedTypeOK, GenerationsBehind, SettledByItsLease, backupVars
<1>7. CASE CreateBackup
  BY <1>7 DEF CreateBackup, HostedInv, HostedTypeOK, GenerationsBehind, SettledByItsLease
<1>8. ASSUME NEW h \in StateHashes, MissionMoves(h) PROVE HostedInv'
  BY <1>8 DEF MissionMoves, HostedInv, HostedTypeOK, GenerationsBehind, SettledByItsLease
<1>9. ASSUME NEW h \in StateHashes, RestoreBackup(h) PROVE HostedInv'
  BY <1>9 DEF RestoreBackup, RestoreMatches, HostedInv, HostedTypeOK, GenerationsBehind, SettledByItsLease
<1>10. CASE UNCHANGED hostedVars
  BY <1>10 DEF hostedVars, HostedInv, HostedTypeOK, GenerationsBehind, SettledByItsLease
<1> QED
  BY <1>1, <1>2, <1>3, <1>4, <1>5, <1>6, <1>7, <1>8, <1>9, <1>10, ClaimKeeps, SettleKeeps, AbandonKeeps DEF HostedNext

\* Whatever lapses, is reclaimed, aborted or unauditable, one call settles the job and is told of its own
\* settlement only, and a restore that is reported as accepted is the backup (hosted/service.ts runWorkerOnce,
\* restoreBackup).
THEOREM OneCallSettles == HostedSpec => []SettledByItsLease
<1>1. HostedInit => HostedInv
  BY DEF HostedInit, HostedInv, HostedTypeOK, WorkerSteps, GenerationsBehind, SettledByItsLease
<1>2. HostedInv => SettledByItsLease
  BY DEF HostedInv
<1> QED BY <1>1, <1>2, HostedStep, PTL DEF HostedSpec

-----------------------------------------------------------------------------
(* What a client is shown (client/reducer.ts, mobile/experience.ts) *)

ClientState == [cursor : Nat, version : Nat, jobs : Nat, base : Nat, hashes : SUBSET Nat, shown : SUBSET Nat]

ClientTypeOK ==
  /\ missionVersion \in Nat /\ lifecycle \in Nat
  /\ reading \subseteq [after : Nat, version : Nat]
  /\ wire \subseteq [from : Nat, next : Nat, version : Nat, jobs : Nat]
  /\ client # NoClient => client \in ClientState
  /\ offline # NoClient => offline \in ClientState

\* What a client, or the cache of one, may hold while the server is at `lifecycle` and `missionVersion`.
Faithful(state) ==
  /\ state.shown = state.base + 1 .. state.cursor /\ state.base <= state.cursor
  /\ state.cursor <= lifecycle /\ state.jobs <= lifecycle
  /\ state.version <= missionVersion

\* What a response may claim, however long it has been under way: the server only moves on.
Truthful(m) == m.from <= m.next /\ m.next <= lifecycle /\ m.jobs <= lifecycle /\ m.version <= missionVersion

ClientInv ==
  /\ ClientTypeOK
  /\ \A r \in reading : r.version <= missionVersion
  /\ \A m \in wire : Truthful(m)
  /\ client # NoClient => Faithful(client)
  /\ offline # NoClient => Faithful(offline)

\* A page that starts where the state ends, or at nothing, extends what has been shown without a gap.
LEMMA ShowsFaithful ==
  ASSUME ClientInv, NEW m \in wire, NEW hashes \in SUBSET Nat, NEW base \in Nat, base <= m.from,
         NEW shown, shown = base + 1 .. m.from
  PROVE  Shows(m, hashes, shown, base) \in ClientState /\ Faithful(Shows(m, hashes, shown, base))
<1>1. m.from \in Nat /\ m.next \in Nat /\ m.version \in Nat /\ m.jobs \in Nat /\ Truthful(m)
  BY DEF ClientInv, ClientTypeOK
<1>2. shown \cup (m.from + 1 .. m.next) = base + 1 .. m.next /\ base <= m.next
  BY <1>1 DEF Truthful
<1>3. base + 1 .. m.next \in SUBSET Nat
  BY <1>1
<1>4. hashes \cup (m.from + 1 .. m.next) \in SUBSET Nat
  <2>1. \A e \in m.from + 1 .. m.next : e \in Nat
    BY <1>1
  <2> QED BY <2>1
<1> QED BY <1>1, <1>2, <1>3, <1>4 DEF Shows, Faithful, Truthful, ClientState

\* reduceClientState: a replayed page refreshes the projection, the page at the cursor extends it.
LEMMA ReducedFaithful ==
  ASSUME ClientInv, NEW m \in wire, client # NoClient, ~Resync(m)
  PROVE  Reduced(m) \in ClientState /\ Faithful(Reduced(m))
<1>1. client \in ClientState /\ Faithful(client) /\ Truthful(m)
      /\ m.from \in Nat /\ m.next \in Nat /\ m.version \in Nat /\ m.jobs \in Nat
  BY DEF ClientInv, ClientTypeOK
<1>2. client.hashes \in SUBSET Nat /\ client.cursor \in Nat /\ client.base \in Nat
  BY <1>1 DEF ClientState
<1>3. CASE m.from < client.cursor
  BY <1>1, <1>3 DEF Reduced, ClientState, Faithful, Truthful
<1>4. CASE ~(m.from < client.cursor)
  <2>1. m.from = client.cursor
    BY <1>1, <1>2, <1>4 DEF Resync
  <2>2. client.shown = client.base + 1 .. m.from /\ client.base <= m.from
    BY <1>1, <2>1 DEF Faithful
  <2> QED BY <1>2, <1>4, <2>2, ShowsFaithful DEF Reduced
<1> QED BY <1>3, <1>4

\* The server moving on keeps what is held and under way true.
LEMMA ServerAdvances ==
  ASSUME ClientInv, UNCHANGED <<reading, wire, client, offline>>,
         missionVersion' \in Nat, lifecycle' \in Nat,
         missionVersion <= missionVersion', lifecycle <= lifecycle'
  PROVE  ClientInv'
<1>1. ClientTypeOK'
  BY DEF ClientInv, ClientTypeOK
<1>2. \A r \in reading' : r.version <= missionVersion'
  BY DEF ClientInv, ClientTypeOK
<1>3. \A m \in wire' : Truthful(m)'
  BY DEF ClientInv, ClientTypeOK, Truthful
<1>4. client' # NoClient => Faithful(client)'
  BY DEF ClientInv, ClientTypeOK, Faithful, ClientState
<1>5. offline' # NoClient => Faithful(offline)'
  BY DEF ClientInv, ClientTypeOK, Faithful, ClientState
<1> QED BY <1>1, <1>2, <1>3, <1>4, <1>5 DEF ClientInv

\* A step of the client: what it holds afterwards is faithful.
LEMMA ClientMoves ==
  ASSUME ClientInv, UNCHANGED <<missionVersion, lifecycle, reading, wire>>,
         client' # NoClient => client' \in ClientState /\ Faithful(client'),
         offline' # NoClient => offline' \in ClientState /\ Faithful(offline')
  PROVE  ClientInv'
BY DEF ClientInv, ClientTypeOK, Truthful, Faithful

\* Every step of the gateway, the transport, the client and its cache keeps the invariant.
LEMMA ClientStep == ClientInv /\ [ClientNext]_clientVars => ClientInv'
<1> SUFFICES ASSUME ClientInv, [ClientNext]_clientVars PROVE ClientInv'
  OBVIOUS
<1>1. CASE MissionAdvances
  BY <1>1, ServerAdvances DEF MissionAdvances, ClientInv, ClientTypeOK
<1>2. CASE JobEvent
  BY <1>2, ServerAdvances DEF JobEvent, ClientInv, ClientTypeOK
<1>3. CASE Suspend
  BY <1>3, ClientMoves DEF Suspend, ClientInv, ClientTypeOK
<1>4. ASSUME NEW n \in 0 .. MaxLifecycle, NEW identity \in Identities, StateRequested(n, identity) PROVE ClientInv'
  BY <1>4 DEF StateRequested, ClientInv, ClientTypeOK, Truthful, Faithful
<1>5. ASSUME NEW r \in reading, StateAnswered(r) PROVE ClientInv'
  <2>1. r.after \in Nat /\ r.version \in Nat /\ r.version <= missionVersion
    BY DEF ClientInv, ClientTypeOK
  <2>2. PICK next \in r.after .. lifecycle :
          wire' = wire \cup {[from |-> r.after, next |-> next, version |-> r.version, jobs |-> lifecycle]}
    BY <1>5 DEF StateAnswered, Projection
  <2>3. /\ UNCHANGED <<missionVersion, lifecycle, client, offline>> /\ reading' \subseteq reading
        /\ lifecycle \in Nat /\ next \in Nat
    BY <1>5, <2>1 DEF StateAnswered, ClientInv, ClientTypeOK
  <2>4. \A m \in wire' : m \in [from : Nat, next : Nat, version : Nat, jobs : Nat] /\ Truthful(m)
    BY <2>1, <2>2, <2>3 DEF ClientInv, ClientTypeOK, Truthful
  <2> QED BY <2>3, <2>4 DEF ClientInv, ClientTypeOK, Truthful, Faithful
<1>6. ASSUME NEW m \in wire, LoseResponse(m) PROVE ClientInv'
  BY <1>6 DEF LoseResponse, ClientInv, ClientTypeOK, Truthful, Faithful
<1>7. ASSUME NEW m \in wire, Bootstrap(m) PROVE ClientInv'
  <2>1. m.from \in Nat /\ m.from <= m.from /\ {} = m.from + 1 .. m.from /\ {} \in SUBSET Nat
    BY DEF ClientInv, ClientTypeOK
  <2>2. Shows(m, {}, {}, m.from) \in ClientState /\ Faithful(Shows(m, {}, {}, m.from))
    BY ONLY ClientInv, <2>1, ShowsFaithful, m \in wire
  <2> QED BY <1>7, <2>2, ClientMoves DEF Bootstrap, ClientInv, ClientTypeOK
<1>8. ASSUME NEW m \in wire, Receive(m) PROVE ClientInv'
  BY <1>8, ReducedFaithful, ClientMoves DEF Receive, ClientInv, ClientTypeOK
<1>9. ASSUME NEW m \in wire, ReceiveResync(m) PROVE ClientInv'
  BY <1>9, ClientMoves DEF ReceiveResync, ClientInv, ClientTypeOK
<1>10. ASSUME NEW m \in wire, ResumeMobile(m) PROVE ClientInv'
  <2> DEFINE before == IF m.from = 0 THEN {} ELSE offline.shown
             base == IF m.from = 0 THEN 0 ELSE offline.base
  <2>1. offline # NoClient /\ m.from \in {0, offline.cursor}
        /\ client' = Shows(m, {}, before, base) /\ offline' = NoClient
        /\ UNCHANGED <<missionVersion, lifecycle, reading, wire>>
    BY <1>10 DEF ResumeMobile, Readable
  <2>2. before = base + 1 .. m.from /\ base \in Nat /\ base <= m.from
    BY <2>1 DEF ClientInv, ClientTypeOK, ClientState, Faithful
  <2>3. {} \in SUBSET Nat
    OBVIOUS
  <2> HIDE DEF before, base
  <2>4. Shows(m, {}, before, base) \in ClientState /\ Faithful(Shows(m, {}, before, base))
    BY <2>2, <2>3, ShowsFaithful
  <2> QED BY <2>1, <2>4, ClientMoves
<1>11. CASE UNCHANGED clientVars
  BY <1>11, ServerAdvances DEF clientVars, ClientInv, ClientTypeOK
<1> QED
  BY <1>1, <1>2, <1>3, <1>4, <1>5, <1>6, <1>7, <1>8, <1>9, <1>10, <1>11 DEF ClientNext

-----------------------------------------------------------------------------
(* What a client commands (client/control.ts, mobile/experience.ts) *)

StreamStates == ActiveStates \cup {"PAUSED", "CANCELLED"}
ItemPairs == [from : StreamStates, to : StreamStates, issued : IssueTimes]
StreamBatch == [state : StreamStates, resume : ActiveStates \cup {NoCommand}, key : CommandKeys \cup {NoCommand},
                items : ItemPairs \cup {NoCommand}, expected : Nat, version : Nat]
Call == [at : {"idle", "sent", "loaded", "done"}, key : CommandKeys \cup {NoCommand},
         command : ClientCommands \cup {NoCommand}, expected : Nat, issued : IssueTimes \cup {NoCommand},
         items : ItemPairs \cup {NoCommand}, answer : {"APPLIED", "REPLAYED", "error", NoCommand}]

ControlTypeOK ==
  /\ stream \in Seq(StreamBatch) /\ Len(stream) > 0
  /\ commandCall \in [CommandCalls -> Call]
  /\ challenge \in [Challenges -> [at : {"none", "open", "consumed"}, version : Nat, receipts : Nat]]

\* Versions grow, and a paused mission has a state to resume to.
StreamOrdered ==
  /\ \A m, n \in 1 .. Len(stream) : m < n => stream[m].version < stream[n].version
  /\ \A n \in 1 .. Len(stream) : stream[n].state = "PAUSED" => stream[n].resume \in ActiveStates

\* What a loaded request will append was built from the state at the version it expects.
Built(s) == \E n \in 1 .. Len(stream) : /\ stream[n].version = s.expected /\ stream[n].state \in CommandFrom(s.command)
                                        /\ s.items = Items(s.command, stream[n], s.issued)

\* The first batch is the mission's own, a call under way has a key, and only a consumed challenge has given
\* a receipt.
ControlInv ==
  /\ ControlTypeOK /\ StreamOrdered
  /\ stream[1].key = NoCommand
  /\ \A c \in CommandCalls : commandCall[c].at # "idle" => /\ commandCall[c].key \in CommandKeys
                                                          /\ commandCall[c].command \in ClientCommands
                                                          /\ commandCall[c].issued \in IssueTimes
  /\ \A c \in CommandCalls : commandCall[c].at = "loaded" => Built(commandCall[c])
  /\ \A i \in Challenges : challenge[i].at # "consumed" => challenge[i].receipts = 0
  /\ CommandsTakenOnce

\* The stream's version is that of its last batch.
LEMMA VersionTyped ==
  ASSUME ControlTypeOK PROVE StreamVersion \in Nat
<1>1. Len(stream) \in 1 .. Len(stream) /\ stream[Len(stream)] \in StreamBatch
  BY DEF ControlTypeOK
<1> QED BY <1>1 DEF StreamVersion, Last, StreamBatch

\* One batch more: everything before it keeps its place.
LEMMA StreamGrows ==
  ASSUME ControlTypeOK, NEW batch \in StreamBatch, stream' = Append(stream, batch)
  PROVE  /\ stream' \in Seq(StreamBatch) /\ Len(stream') = Len(stream) + 1 /\ Len(stream) \in Nat
         /\ \A n \in 1 .. Len(stream) : stream'[n] = stream[n]
         /\ stream'[Len(stream) + 1] = batch
BY DEF ControlTypeOK

\* A batch that is either the runtime's own, or the first under its key and written for the version and the
\* state it meets, keeps every key with one batch and every command on what its sender saw.
LEMMA AppendKeeps ==
  ASSUME ControlInv, NEW batch \in StreamBatch, stream' = Append(stream, batch), batch.version > StreamVersion,
         batch.state = "PAUSED" => batch.resume \in ActiveStates,
         batch.key # NoCommand => Batch(batch.key) = {} /\ Continues(batch, stream[Len(stream)])
  PROVE  /\ \A k \in CommandKeys : \A m, n \in Batch(k)' : m = n
         /\ \A n \in 2 .. Len(stream') : stream'[n].key # NoCommand => Continues(stream'[n], stream'[n - 1])
         /\ StreamOrdered'
<1> DEFINE last == Len(stream)
<1>1. /\ stream' \in Seq(StreamBatch) /\ Len(stream') = last + 1 /\ last \in Nat /\ last > 0
      /\ \A n \in 1 .. last : stream'[n] = stream[n]
      /\ stream'[last + 1] = batch
  BY StreamGrows DEF ControlInv, ControlTypeOK
<1>2. DOMAIN stream = 1 .. last /\ DOMAIN stream' = 1 .. last + 1
  BY <1>1 DEF ControlInv, ControlTypeOK
<1>3. ASSUME NEW k \in CommandKeys, NEW m \in Batch(k)', NEW n \in Batch(k)' PROVE m = n
  <2>1. m \in 1 .. last + 1 /\ n \in 1 .. last + 1 /\ stream'[m].key = k /\ stream'[n].key = k
    BY <1>2 DEF Batch
  <2>2. CASE m \in 1 .. last /\ n \in 1 .. last
    <3>1. m \in Batch(k) /\ n \in Batch(k)
      BY <1>1, <1>2, <2>1, <2>2 DEF Batch
    <3> QED BY <3>1 DEF ControlInv, CommandsTakenOnce
  <2>3. CASE batch.key # k
    BY <1>1, <2>1, <2>2, <2>3
  <2>4. CASE batch.key = k
    <3>1. Batch(k) = {}
      BY <2>4, CommandAssumption
    <3>2. \A i \in 1 .. last : stream'[i].key # k
      BY <1>1, <1>2, <3>1 DEF Batch
    <3> QED BY <1>1, <2>1, <3>2
  <2> QED BY <2>3, <2>4
<1>4. ASSUME NEW n \in 2 .. Len(stream'), stream'[n].key # NoCommand
      PROVE  Continues(stream'[n], stream'[n - 1])
  <2>1. n - 1 \in 1 .. last /\ stream'[n - 1] = stream[n - 1]
    BY <1>1
  <2>2. CASE n \in 2 .. last
    <3>1. stream'[n] = stream[n]
      BY <1>1, <2>2
    <3>2. Continues(stream[n], stream[n - 1])
      BY <1>4, <2>2, <3>1 DEF ControlInv, CommandsTakenOnce
    <3> QED BY <2>1, <3>1, <3>2
  <2>3. CASE n = last + 1
    <3>1. stream'[n] = batch /\ stream'[n - 1] = stream[last]
      BY <1>1, <2>1, <2>3
    <3> QED BY <1>4, <3>1
  <2> QED BY <1>1, <2>2, <2>3
<1>5. StreamOrdered'
  <2>1. \A n \in 1 .. last : stream[n] \in StreamBatch
    BY DEF ControlInv, ControlTypeOK
  <2>2. \A n \in 1 .. last : stream[n].version <= stream[last].version
    BY <1>1, <2>1 DEF ControlInv, StreamOrdered, StreamBatch
  <2>3. batch.version \in Nat /\ \A n \in 1 .. last : stream[n].version \in Nat /\ stream[n].version < batch.version
    <3>1. batch.version \in Nat /\ \A n \in 1 .. last : stream[n].version \in Nat
      BY <2>1 DEF StreamBatch
    <3>2. StreamVersion = stream[last].version
      BY DEF StreamVersion, Last
    <3>3. last \in 1 .. last /\ batch.version > stream[last].version
      BY <1>1, <3>2
    <3> HIDE DEF last
    <3> QED BY ONLY <2>2, <3>1, <3>3
  <2>4. \A m, n \in 1 .. Len(stream') : m < n => stream'[m].version < stream'[n].version
    BY <1>1, <2>3 DEF ControlInv, StreamOrdered
  <2>5. \A n \in 1 .. Len(stream') : stream'[n].state = "PAUSED" => stream'[n].resume \in ActiveStates
    BY <1>1 DEF ControlInv, StreamOrdered
  <2> QED BY <2>4, <2>5 DEF StreamOrdered
<1> QED BY <1>3, <1>4, <1>5

\* A longer stream still has what a loaded request was built from, and what a caller was told.
LEMMA AnswersKept ==
  ASSUME ControlInv, NEW batch \in StreamBatch, stream' = Append(stream, batch), NEW c \in CommandCalls
  PROVE  /\ commandCall[c].at = "loaded" =>
              \E n \in 1 .. Len(stream') : /\ stream'[n].version = commandCall[c].expected
                                           /\ stream'[n].state \in CommandFrom(commandCall[c].command)
                                           /\ commandCall[c].items = Items(commandCall[c].command, stream'[n], commandCall[c].issued)
         /\ commandCall[c].at = "done" /\ commandCall[c].answer # "error" =>
              \E n \in 2 .. Len(stream') : /\ stream'[n].key = commandCall[c].key
                                           /\ stream'[n].items = commandCall[c].items
                                           /\ commandCall[c].items.issued = commandCall[c].issued
                                           /\ ComparesVersion => stream'[n].expected = commandCall[c].expected
<1>1. Len(stream') = Len(stream) + 1 /\ Len(stream) \in Nat /\ \A n \in 1 .. Len(stream) : stream'[n] = stream[n]
  BY StreamGrows DEF ControlInv
<1>2. ASSUME commandCall[c].at = "loaded"
      PROVE  \E n \in 1 .. Len(stream') : /\ stream'[n].version = commandCall[c].expected
                                          /\ stream'[n].state \in CommandFrom(commandCall[c].command)
                                          /\ commandCall[c].items = Items(commandCall[c].command, stream'[n], commandCall[c].issued)
  <2>1. PICK n \in 1 .. Len(stream) : /\ stream[n].version = commandCall[c].expected
                                      /\ stream[n].state \in CommandFrom(commandCall[c].command)
                                      /\ commandCall[c].items = Items(commandCall[c].command, stream[n], commandCall[c].issued)
    BY <1>2 DEF ControlInv, Built
  <2>2. n \in 1 .. Len(stream') /\ stream'[n] = stream[n]
    BY <1>1
  <2> QED BY <2>1, <2>2
<1>3. ASSUME commandCall[c].at = "done", commandCall[c].answer # "error"
      PROVE  \E n \in 2 .. Len(stream') : /\ stream'[n].key = commandCall[c].key
                                          /\ stream'[n].items = commandCall[c].items
                                          /\ commandCall[c].items.issued = commandCall[c].issued
                                          /\ ComparesVersion => stream'[n].expected = commandCall[c].expected
  <2>1. PICK n \in 2 .. Len(stream) : /\ stream[n].key = commandCall[c].key
                                      /\ stream[n].items = commandCall[c].items
                                      /\ commandCall[c].items.issued = commandCall[c].issued
                                      /\ ComparesVersion => stream[n].expected = commandCall[c].expected
    BY <1>3 DEF ControlInv, CommandsTakenOnce
  <2>2. n \in 2 .. Len(stream') /\ stream'[n] = stream[n]
    BY <1>1
  <2> QED BY <2>1, <2>2
<1> QED BY <1>2, <1>3

\* The runtime's own append.
LEMMA RuntimeKeeps == ASSUME ControlInv, NEW state \in ActiveStates, RuntimeAppends(state) PROVE ControlInv'
<1> DEFINE batch == [state |-> state, resume |-> NoCommand, key |-> NoCommand, items |-> NoCommand, expected |-> 0,
                     version |-> StreamVersion + 1]
<1>1. StreamVersion \in Nat
  BY VersionTyped DEF ControlInv
<1>2. batch \in StreamBatch /\ batch.key = NoCommand /\ batch.version > StreamVersion /\ batch.state # "PAUSED"
      /\ stream' = Append(stream, batch) /\ UNCHANGED <<commandCall, challenge>>
  BY <1>1 DEF StreamBatch, StreamStates, ActiveStates, RuntimeAppends
<1> HIDE DEF batch
<1>3. ControlTypeOK' /\ stream'[1] = stream[1]
  BY <1>2, StreamGrows DEF ControlInv, ControlTypeOK
<1>4. CommandsTakenOnce' /\ StreamOrdered'
  <2>1. \A c \in CommandCalls : commandCall'[c].at = "done" /\ commandCall'[c].answer # "error" =>
          \E n \in 2 .. Len(stream') : /\ stream'[n].key = commandCall'[c].key
                                       /\ stream'[n].items = commandCall'[c].items
                                       /\ commandCall'[c].items.issued = commandCall'[c].issued
                                       /\ ComparesVersion => stream'[n].expected = commandCall'[c].expected
    BY <1>2, AnswersKept
  <2>2. \A i \in Challenges : challenge'[i].receipts <= 1
    BY <1>2 DEF ControlInv, CommandsTakenOnce
  <2> QED BY <1>2, <2>1, <2>2, AppendKeeps DEF CommandsTakenOnce
<1>5. \A c \in CommandCalls : commandCall'[c].at = "loaded" => Built(commandCall[c])'
  BY <1>2, AnswersKept DEF Built
<1> QED BY <1>2, <1>3, <1>4, <1>5 DEF ControlInv

\* What a request that meets its version appends continues the stream.
LEMMA BatchContinues ==
  ASSUME ControlInv, NEW c \in CommandCalls, commandCall[c].at = "loaded", StreamVersion = commandCall[c].expected
  PROVE  /\ CommandBatch(commandCall[c]) \in StreamBatch
         /\ Continues(CommandBatch(commandCall[c]), stream[Len(stream)])
         /\ CommandBatch(commandCall[c]).state = "PAUSED" => CommandBatch(commandCall[c]).resume \in ActiveStates
         /\ CommandBatch(commandCall[c]).version > StreamVersion
<1> DEFINE s == commandCall[c]
           before == stream[Len(stream)]
<1>1. /\ s \in Call /\ s.key \in CommandKeys /\ s.command \in ClientCommands /\ s.expected \in Nat /\ s.issued \in IssueTimes
      /\ StreamVersion \in Nat
  BY VersionTyped DEF ControlInv, ControlTypeOK, Call
<1>2. PICK n \in 1 .. Len(stream) : /\ stream[n].version = s.expected /\ stream[n].state \in CommandFrom(s.command)
                                   /\ s.items = Items(s.command, stream[n], s.issued)
  BY DEF ControlInv, Built
<1>3. Len(stream) \in 1 .. Len(stream) /\ before.version = s.expected /\ before \in StreamBatch
  BY DEF ControlInv, ControlTypeOK, StreamVersion, Last
<1>4. n = Len(stream)
  BY <1>2, <1>3 DEF ControlInv, StreamOrdered, StreamBatch
<1>5. before.state \in CommandFrom(s.command) /\ s.items = Items(s.command, before, s.issued)
      /\ (before.state = "PAUSED" => before.resume \in ActiveStates)
  BY <1>2, <1>3, <1>4 DEF ControlInv, StreamOrdered
<1> HIDE DEF s, before
<1>6. /\ s.items.from = before.state /\ s.items.to = CommandTo(s.command, before) /\ s.items.issued = s.issued
      /\ s.items = [from |-> before.state, to |-> CommandTo(s.command, before), issued |-> s.issued]
  BY <1>5 DEF Items
<1>7. /\ CommandBatch(s).state = s.items.to /\ CommandBatch(s).expected = s.expected /\ CommandBatch(s).items = s.items
      /\ CommandBatch(s).key = s.key /\ CommandBatch(s).version = StreamVersion + 2
      /\ CommandBatch(s).resume = IF s.items.to = "PAUSED" THEN s.items.from ELSE NoCommand
  BY DEF CommandBatch
<1>8. CASE s.command = "mission.pause"
  <2>1. before.state \in ActiveStates /\ s.items.to = "PAUSED"
    BY <1>5, <1>6, <1>8 DEF CommandFrom, CommandTo
  <2>2. s.items \in ItemPairs
    BY <1>1, <1>6, <2>1 DEF ItemPairs, StreamStates
  <2>3. CommandBatch(s) \in StreamBatch
    BY <1>1, <1>6, <2>1, <2>2 DEF CommandBatch, StreamBatch, StreamStates
  <2> QED BY <1>1, <1>3, <1>6, <1>7, <2>1, <2>3 DEF Continues, s, before
<1>9. CASE s.command = "mission.resume"
  <2>1. before.state = "PAUSED" /\ s.items.to = before.resume /\ before.resume \in ActiveStates /\ before.resume # "PAUSED"
    BY <1>5, <1>6, <1>9 DEF CommandFrom, CommandTo, ActiveStates
  <2>2. s.items \in ItemPairs
    BY <1>1, <1>6, <2>1 DEF ItemPairs, StreamStates
  <2>3. CommandBatch(s) \in StreamBatch
    BY <1>1, <2>1, <2>2 DEF CommandBatch, StreamBatch, StreamStates
  <2> QED BY <1>1, <1>3, <1>6, <1>7, <2>1, <2>3 DEF Continues, s, before
<1>10. CASE s.command = "mission.cancel"
  <2>1. before.state \in ActiveStates \cup {"PAUSED"} /\ s.items.to = "CANCELLED"
    BY <1>5, <1>6, <1>10 DEF CommandFrom, CommandTo
  <2>2. s.items \in ItemPairs
    BY <1>1, <1>6, <2>1 DEF ItemPairs, StreamStates
  <2>3. CommandBatch(s) \in StreamBatch
    BY <1>1, <2>1, <2>2 DEF CommandBatch, StreamBatch, StreamStates
  <2> QED BY <1>1, <1>3, <1>6, <1>7, <2>1, <2>3 DEF Continues, s, before
<1> QED BY <1>1, <1>8, <1>9, <1>10 DEF ClientCommands

\* append: the batch of a call that fits goes to the end; one whose key has a batch is answered by that batch.
LEMMA CommandKeeps ==
  ASSUME ControlInv, NEW c \in CommandCalls, NEW audited \in BOOLEAN, CommandAppended(c, audited)
  PROVE  ControlInv'
<1> DEFINE s == commandCall[c]
           batch == CommandBatch(s)
           fits == Batch(s.key) = {} /\ StreamVersion = s.expected
           answer == IF (fits \/ Replays(s)) /\ audited THEN s.answer ELSE "error"
           Told(call) == \E n \in 2 .. Len(stream') : /\ stream'[n].key = call.key /\ stream'[n].items = call.items
                                                      /\ call.items.issued = call.issued
                                                      /\ ComparesVersion => stream'[n].expected = call.expected
<1>1. s \in Call /\ s.at = "loaded" /\ s.key \in CommandKeys /\ s.command \in ClientCommands /\ s.expected \in Nat
  BY DEF CommandAppended, ControlInv, ControlTypeOK, Call
<1>2. batch.key = s.key /\ batch.expected = s.expected /\ batch.items = s.items
  BY DEF CommandBatch
<1>3. s.items.issued = s.issued
  <2>1. Built(s)
    BY <1>1 DEF ControlInv
  <2>2. PICK n \in 1 .. Len(stream) : s.items = Items(s.command, stream[n], s.issued)
    BY ONLY <2>1 DEF Built
  <2> QED BY ONLY <2>2 DEF Items
<1>4. /\ stream' = IF fits THEN Append(stream, batch) ELSE stream
      /\ commandCall' = [commandCall EXCEPT ![c] = [s EXCEPT !.at = "done", !.answer = answer]]
      /\ UNCHANGED challenge
  BY DEF CommandAppended, ControlInv, ControlTypeOK, Call
<1>5. answer \in {"APPLIED", "REPLAYED", "error", NoCommand}
  BY <1>1 DEF Call
<1>6. fits => /\ batch \in StreamBatch /\ Batch(batch.key) = {} /\ Continues(batch, stream[Len(stream)])
              /\ batch.version > StreamVersion /\ (batch.state = "PAUSED" => batch.resume \in ActiveStates)
  BY <1>1, <1>2, BatchContinues
<1>7. answer # "error" => fits \/ Replays(s)
  OBVIOUS
<1>8. Replays(s) => \E n \in 2 .. Len(stream) : /\ stream[n].key = s.key /\ stream[n].items = s.items
                                                /\ ComparesVersion => stream[n].expected = s.expected
  BY <1>1, CommandAssumption DEF Replays, Batch, ControlInv, ControlTypeOK
<1> HIDE DEF s, batch, fits, answer
<1>9. /\ commandCall' \in [CommandCalls -> Call]
      /\ \A d \in CommandCalls : d # c => commandCall'[d] = commandCall[d]
      /\ commandCall'[c].at = "done" /\ commandCall'[c].answer = answer /\ commandCall'[c].key = s.key
      /\ commandCall'[c].command = s.command /\ commandCall'[c].expected = s.expected
      /\ commandCall'[c].items = s.items /\ commandCall'[c].issued = s.issued
  BY <1>1, <1>4, <1>5 DEF ControlInv, ControlTypeOK, Call
<1>10. ControlTypeOK' /\ stream'[1] = stream[1]
  BY <1>4, <1>6, <1>9, StreamGrows DEF ControlInv, ControlTypeOK
<1>11. /\ \A k \in CommandKeys : \A m, n \in Batch(k)' : m = n
       /\ \A n \in 2 .. Len(stream') : stream'[n].key # NoCommand => Continues(stream'[n], stream'[n - 1])
       /\ StreamOrdered'
  <2>1. CASE fits
    BY <1>4, <1>6, <2>1, AppendKeeps
  <2>2. CASE ~fits
    BY <1>4, <2>2 DEF ControlInv, CommandsTakenOnce, Batch, StreamOrdered
  <2> QED BY <2>1, <2>2
<1>12. ASSUME NEW d \in CommandCalls, commandCall'[d].at = "done", commandCall'[d].answer # "error"
       PROVE  Told(commandCall'[d])
  <2>1. CASE d # c
    <3>1. commandCall'[d] = commandCall[d]
      BY <1>9, <2>1
    <3>2. CASE fits
      <4>1. stream' = Append(stream, batch)
        BY <1>4, <3>2
      <4> QED BY <1>6, <1>12, <3>1, <3>2, <4>1, AnswersKept
    <3>3. CASE ~fits
      <4>1. stream' = stream /\ commandCall[d].at = "done" /\ commandCall[d].answer # "error"
        BY <1>4, <1>12, <3>1, <3>3
      <4>2. \E n \in 2 .. Len(stream) : /\ stream[n].key = commandCall[d].key /\ stream[n].items = commandCall[d].items
                                        /\ commandCall[d].items.issued = commandCall[d].issued
                                        /\ ComparesVersion => stream[n].expected = commandCall[d].expected
        BY <4>1 DEF ControlInv, CommandsTakenOnce
      <4> QED BY <3>1, <4>1, <4>2
    <3> QED BY <3>2, <3>3
  <2>2. CASE d = c /\ fits
    <3>1. Len(stream) \in Nat /\ Len(stream) > 0 /\ Len(stream') = Len(stream) + 1 /\ stream'[Len(stream) + 1] = batch
      BY <1>4, <1>6, <2>2, StreamGrows DEF ControlInv, ControlTypeOK
    <3>2. Len(stream) + 1 \in 2 .. Len(stream')
      BY <3>1
    <3> QED BY <1>2, <1>3, <1>9, <2>2, <3>1, <3>2
  <2>3. CASE d = c /\ ~fits
    <3>1. Replays(s) /\ stream' = stream
      BY <1>4, <1>7, <1>9, <1>12, <2>3
    <3>2. PICK n \in 2 .. Len(stream) : /\ stream[n].key = s.key /\ stream[n].items = s.items
                                        /\ ComparesVersion => stream[n].expected = s.expected
      BY <1>8, <3>1
    <3> QED BY <1>3, <1>9, <2>3, <3>1, <3>2
  <2> QED BY <2>1, <2>2, <2>3
<1>13. CommandsTakenOnce' /\ StreamOrdered'
  BY <1>4, <1>11, <1>12 DEF CommandsTakenOnce, ControlInv
<1>14. ASSUME NEW d \in CommandCalls, commandCall'[d].at = "loaded" PROVE Built(commandCall[d])'
  <2>1. d # c /\ commandCall'[d] = commandCall[d]
    BY <1>9, <1>14
  <2>2. CASE fits
    <3>1. stream' = Append(stream, batch)
      BY <1>4, <2>2
    <3> QED BY <1>6, <1>14, <2>1, <2>2, <3>1, AnswersKept DEF Built
  <2>3. CASE ~fits
    <3>1. stream' = stream
      BY <1>4, <2>3
    <3> QED BY <1>14, <2>1, <3>1 DEF ControlInv, Built
  <2> QED BY <2>2, <2>3
<1>15. \A d \in CommandCalls : commandCall'[d].at # "idle" =>
         commandCall'[d].key \in CommandKeys /\ commandCall'[d].command \in ClientCommands /\ commandCall'[d].issued \in IssueTimes
  BY <1>1, <1>9 DEF ControlInv, s
<1> QED BY <1>4, <1>10, <1>13, <1>14, <1>15 DEF ControlInv

\* A step that leaves the stream alone and does not answer anybody anew.
LEMMA StreamSame ==
  ASSUME ControlInv, UNCHANGED stream, ControlTypeOK', \A i \in Challenges : challenge'[i].receipts <= 1,
         \A i \in Challenges : challenge'[i].at # "consumed" => challenge'[i].receipts = 0,
         \A d \in CommandCalls : commandCall'[d].at # "idle" => /\ commandCall'[d].key \in CommandKeys
                                                               /\ commandCall'[d].command \in ClientCommands
                                                               /\ commandCall'[d].issued \in IssueTimes,
         \A d \in CommandCalls : \/ commandCall'[d] = commandCall[d]
                                 \/ commandCall'[d].at \in {"sent", "done"} /\ commandCall'[d].answer \in {NoCommand, "error"}
                                    /\ (commandCall'[d].at = "done" => commandCall'[d].answer = "error")
                                 \/ commandCall'[d].at = "loaded" /\ Built(commandCall[d])'
  PROVE  ControlInv'
<1>1. StreamOrdered' /\ stream'[1].key = NoCommand
  BY DEF ControlInv, StreamOrdered
<1>2. \A d \in CommandCalls : commandCall'[d].at = "loaded" => Built(commandCall[d])'
  BY DEF ControlInv, Built
<1>3. \A k \in CommandKeys : \A m, n \in Batch(k)' : m = n
  BY DEF ControlInv, CommandsTakenOnce, Batch
<1>4. ASSUME NEW d \in CommandCalls, commandCall'[d].at = "done", commandCall'[d].answer # "error"
      PROVE  \E n \in 2 .. Len(stream') : /\ stream'[n].key = commandCall'[d].key /\ stream'[n].items = commandCall'[d].items
                                          /\ commandCall'[d].items.issued = commandCall'[d].issued
                                          /\ ComparesVersion => stream'[n].expected = commandCall'[d].expected
  <2>1. commandCall'[d] = commandCall[d]
    BY <1>4
  <2> QED BY <1>4, <2>1 DEF ControlInv, CommandsTakenOnce
<1>5. \A n \in 2 .. Len(stream') : stream'[n].key # NoCommand => Continues(stream'[n], stream'[n - 1])
  BY DEF ControlInv, CommandsTakenOnce
<1>6. CommandsTakenOnce'
  BY <1>3, <1>4, <1>5 DEF CommandsTakenOnce
<1> QED BY <1>1, <1>2, <1>6 DEF ControlInv

\* A step of a challenge alone.
LEMMA ChallengeMoves ==
  ASSUME ControlInv, UNCHANGED <<stream, commandCall>>, ControlTypeOK',
         \A i \in Challenges : challenge'[i].receipts <= 1 /\ (challenge'[i].at # "consumed" => challenge'[i].receipts = 0)
  PROVE  ControlInv'
<1>1. StreamOrdered' /\ stream'[1].key = NoCommand
  BY DEF ControlInv, StreamOrdered
<1>2. \A d \in CommandCalls : commandCall'[d].at # "idle" => /\ commandCall'[d].key \in CommandKeys
                                                              /\ commandCall'[d].command \in ClientCommands
                                                              /\ commandCall'[d].issued \in IssueTimes
  BY DEF ControlInv
<1>3. \A d \in CommandCalls : commandCall'[d].at = "loaded" => Built(commandCall[d])'
  BY DEF ControlInv, Built
<1>4. CommandsTakenOnce'
  BY DEF ControlInv, CommandsTakenOnce, Batch
<1> QED BY <1>1, <1>2, <1>3, <1>4 DEF ControlInv

\* Every step of the command authority and of the approval challenges keeps the invariant.
LEMMA ControlStep == ControlInv /\ [ControlNext]_controlVars => ControlInv'
<1> SUFFICES ASSUME ControlInv, [ControlNext]_controlVars PROVE ControlInv'
  OBVIOUS
<1>1. ASSUME NEW c \in CommandCalls, NEW k \in CommandKeys, NEW command \in ClientCommands,
             NEW v \in 1 .. StreamVersion + 1, NEW issued \in IssueTimes, SendCommand(c, k, command, v, issued)
      PROVE  ControlInv'
  <2> DEFINE call == [at |-> "sent", key |-> k, command |-> command, expected |-> v, issued |-> issued, items |-> NoCommand,
                      answer |-> NoCommand]
  <2>1. v \in Nat
    BY VersionTyped DEF ControlInv
  <2>2. commandCall' = [commandCall EXCEPT ![c] = call] /\ UNCHANGED <<stream, challenge>>
    BY <1>1 DEF SendCommand
  <2>3. call \in Call /\ call.at = "sent" /\ call.key = k /\ call.command = command /\ call.issued = issued /\ call.answer = NoCommand
    BY <2>1 DEF Call
  <2> HIDE DEF call
  <2>4. ControlTypeOK' /\ \A d \in CommandCalls : commandCall'[d] = IF d = c THEN call ELSE commandCall[d]
    BY <2>2, <2>3 DEF ControlInv, ControlTypeOK
  <2>5. \A i \in Challenges : challenge'[i] = challenge[i]
    BY <2>2
  <2> QED BY <2>2, <2>3, <2>4, <2>5, StreamSame DEF ControlInv, CommandsTakenOnce
<1>2. ASSUME NEW c \in CommandCalls, CommandLoaded(c) PROVE ControlInv'
  <2> DEFINE s == commandCall[c]
             starts == {n \in DOMAIN stream : stream[n].version = s.expected /\ stream[n].state \in CommandFrom(s.command)}
  <2>1. /\ s \in Call /\ s.at = "sent" /\ s.key \in CommandKeys /\ s.command \in ClientCommands /\ s.issued \in IssueTimes
        /\ UNCHANGED <<stream, challenge>> /\ DOMAIN stream = 1 .. Len(stream)
        /\ \A n \in 1 .. Len(stream) : stream[n] \in StreamBatch
    <3>1. s.at = "sent" /\ UNCHANGED <<stream, challenge>>
      BY <1>2 DEF CommandLoaded
    <3>2. s \in Call /\ stream \in Seq(StreamBatch)
      BY DEF ControlInv, ControlTypeOK
    <3>3. s.key \in CommandKeys /\ s.command \in ClientCommands /\ s.issued \in IssueTimes
      BY <3>1 DEF ControlInv
    <3> QED BY ONLY <3>1, <3>2, <3>3
  <2>2. \A i \in Challenges : challenge'[i] = challenge[i]
    BY <2>1
  <2>3. CASE starts = {} /\ commandCall' = [commandCall EXCEPT ![c].at = "done", ![c].answer = "error"]
    <3>1. \A d \in CommandCalls : d # c => commandCall'[d] = commandCall[d]
      BY <2>3 DEF ControlInv, ControlTypeOK
    <3>2. /\ commandCall'[c].at = "done" /\ commandCall'[c].answer = "error" /\ commandCall'[c].key = s.key
          /\ commandCall'[c].command = s.command /\ commandCall'[c].issued = s.issued
      BY <2>1, <2>3 DEF ControlInv, ControlTypeOK, Call
    <3>3. ControlTypeOK'
      BY <2>1, <2>3 DEF ControlInv, ControlTypeOK, Call
    <3> QED BY <2>1, <2>2, <3>1, <3>2, <3>3, StreamSame DEF ControlInv, CommandsTakenOnce
  <2>4. ASSUME NEW n \in starts, NEW answer \in {"REPLAYED", "APPLIED"},
               commandCall' = [commandCall EXCEPT ![c] = [s EXCEPT !.at = "loaded", !.items = Items(s.command, stream[n], s.issued),
                                                          !.answer = answer]]
        PROVE  ControlInv'
    <3> DEFINE items == Items(s.command, stream[n], s.issued)
    <3>1. /\ n \in 1 .. Len(stream) /\ stream[n].version = s.expected /\ stream[n].state \in CommandFrom(s.command)
          /\ stream[n] \in StreamBatch
      BY <2>1
    <3>2. stream[n].state = "PAUSED" => stream[n].resume \in ActiveStates
      BY <3>1 DEF ControlInv, StreamOrdered
    <3>3. items \in ItemPairs
      <4>1. CommandTo(s.command, stream[n]) \in StreamStates
        BY <2>1, <3>1, <3>2 DEF CommandTo, CommandFrom, StreamStates, ClientCommands
      <4> QED BY <2>1, <3>1, <4>1 DEF Items, ItemPairs, StreamBatch
    <3> HIDE DEF items
    <3>4. \A d \in CommandCalls : d # c => commandCall'[d] = commandCall[d]
      BY <2>4 DEF ControlInv, ControlTypeOK
    <3>5. /\ commandCall'[c].at = "loaded" /\ commandCall'[c].answer = answer /\ commandCall'[c].key = s.key
          /\ commandCall'[c].command = s.command /\ commandCall'[c].issued = s.issued /\ commandCall'[c].expected = s.expected
          /\ commandCall'[c].items = items
      BY <2>1, <2>4 DEF ControlInv, ControlTypeOK, Call, items
    <3>6. ControlTypeOK'
      <4>1. [s EXCEPT !.at = "loaded", !.items = items, !.answer = answer] \in Call
        BY <2>1, <3>3 DEF Call
      <4> QED BY <2>1, <2>4, <4>1 DEF ControlInv, ControlTypeOK, items
    <3>7. Built(commandCall[c])'
      BY <2>1, <3>1, <3>5 DEF Built, items
    <3> QED BY <2>1, <2>2, <3>4, <3>5, <3>6, <3>7, StreamSame DEF ControlInv, CommandsTakenOnce
  <2> QED BY <1>2, <2>3, <2>4 DEF CommandLoaded
<1>3. ASSUME NEW i \in Challenges, IssueChallenge(i) PROVE ControlInv'
  <2>1. StreamVersion \in Nat
    BY VersionTyped DEF ControlInv
  <2>2. /\ challenge' = [challenge EXCEPT ![i] = [at |-> "open", version |-> StreamVersion, receipts |-> 0]]
        /\ UNCHANGED <<stream, commandCall>>
    BY <1>3 DEF IssueChallenge
  <2> HIDE DEF StreamVersion
  <2>3. ControlTypeOK'
    BY <2>1, <2>2 DEF ControlInv, ControlTypeOK
  <2>4. \A d \in Challenges : challenge'[d].receipts <= 1 /\ (challenge'[d].at # "consumed" => challenge'[d].receipts = 0)
    BY <2>1, <2>2 DEF ControlInv, ControlTypeOK, CommandsTakenOnce
  <2>5. UNCHANGED <<stream, commandCall>>
    BY <2>2
  <2> QED BY <2>3, <2>4, <2>5, ChallengeMoves
<1>4. ASSUME NEW i \in Challenges, NEW v \in 1 .. StreamVersion, NEW late \in BOOLEAN, DecideChallenge(i, v, late)
      PROVE  ControlInv'
  <2> DEFINE n == IF late THEN 0 ELSE 1
             settledAs == [at |-> "consumed", version |-> challenge[i].version, receipts |-> n]
  <2>1. challenge[i] \in [at : {"none", "open", "consumed"}, version : Nat, receipts : Nat] /\ challenge[i].receipts = 0
    BY <1>4 DEF DecideChallenge, ControlInv, ControlTypeOK
  <2>2. challenge' = [challenge EXCEPT ![i] = settledAs]
    BY <1>4, <2>1 DEF DecideChallenge
  <2>3. UNCHANGED stream /\ UNCHANGED commandCall
    BY <1>4 DEF DecideChallenge
  <2>4. settledAs \in [at : {"none", "open", "consumed"}, version : Nat, receipts : Nat]
        /\ settledAs.receipts <= 1 /\ settledAs.at = "consumed"
    BY <2>1
  <2> HIDE DEF settledAs
  <2>5. ControlTypeOK' /\ \A d \in Challenges : challenge'[d] = IF d = i THEN settledAs ELSE challenge[d]
    BY <2>2, <2>3, <2>4 DEF ControlInv, ControlTypeOK
  <2>6. \A d \in Challenges : challenge'[d].receipts <= 1 /\ (challenge'[d].at # "consumed" => challenge'[d].receipts = 0)
    BY <2>4, <2>5 DEF ControlInv, CommandsTakenOnce
  <2> QED BY <2>3, <2>5, <2>6, ChallengeMoves
<1>5. CASE UNCHANGED controlVars
  <2>1. stream' = stream /\ commandCall' = commandCall /\ challenge' = challenge
    BY <1>5 DEF controlVars
  <2>2. ControlTypeOK'
    BY <2>1 DEF ControlInv, ControlTypeOK
  <2> QED BY <2>1, <2>2, StreamSame DEF ControlInv, CommandsTakenOnce
<1> QED
  BY <1>1, <1>2, <1>3, <1>4, <1>5, RuntimeKeeps, CommandKeeps DEF ControlNext

\* Whatever order pages, requests, retries and the runtime's own events come in: from the first page it took a
\* client has been shown every event up to its cursor and no others, a command takes effect once, in the state and
\* at the version it was written for, and whoever is told so finds it in the stream (client/reducer.ts 11-60,
\* client/control.ts 97-161).
THEOREM ClientsHold == GatewaySpec => []ClientsSound
<1>1. ClientInit => ClientInv
  BY DEF ClientInit, ClientInv, ClientTypeOK
<1>2. ControlInit => ControlInv
  <2> SUFFICES ASSUME ControlInit PROVE ControlInv
    OBVIOUS
  <2>1. ControlTypeOK
    BY DEF ControlInit, ControlTypeOK, StreamBatch, StreamStates, ActiveStates, Call
  <2>2. Len(stream) = 1 /\ stream[1].key = NoCommand /\ stream[1].state # "PAUSED" /\ stream[1].version = 1
    BY DEF ControlInit
  <2>3. \A k \in CommandKeys : Batch(k) = {}
    BY <2>2, CommandAssumption DEF Batch, ControlInit
  <2>4. CommandsTakenOnce /\ StreamOrdered
    BY <2>2, <2>3 DEF ControlInit, CommandsTakenOnce, StreamOrdered
  <2> QED BY <2>1, <2>2, <2>4 DEF ControlInit, ControlInv
<1>3. ClientInv /\ ControlInv /\ [GatewayNext]_<<clientVars, controlVars>> => (ClientInv /\ ControlInv)'
  BY ClientStep, ControlStep DEF GatewayNext
<1>4. ClientInv /\ ControlInv => ClientsSound
  BY DEF ClientInv, Faithful, ControlInv, ClientsSound, ClientSeesAll
<1> QED BY <1>1, <1>2, <1>3, <1>4, PTL DEF GatewaySpec

-----------------------------------------------------------------------------
(* The skill of a run, beside requests about its installations             *)
(* (run-skills.ts, skills-api.ts, skill-product-store.ts)                  *)

Installation == [revision : Revisions, enabled : BOOLEAN, previous : Revisions \cup {0}]
SkillOps == {"install", "enable", "disable", "update", "rollback", "remove"}
SkillRequest == [pc : {"idle"}] \cup
                [pc : {"started", "checked"}, op : SkillOps, scope : Scopes, expected : Revisions,
                 build : Revisions, connected : BOOLEAN]
RunSteps == [pc : {"new"}] \cup
            [pc : {"claimed", "resolve", "installations", "failed"}, build : Revisions] \cup
            [pc : {"connections"}, build : Revisions, installed : Installation \cup {NotInstalled}] \cup
            [pc : {"blocked"}, build : Revisions, status : {"REQUIRES_CONNECTION", "UPDATE_AVAILABLE"}, revision : Revisions] \cup
            [pc : {"select", "load", "working", "saved", "done"}, build : Revisions, revision : Revisions \cup {0}]

ProductTypeOK ==
  /\ build \in [revision : Revisions, deployed : SUBSET Revisions]
  /\ connected \in BOOLEAN
  /\ installs \in [Scopes -> Installation \cup {NotInstalled}]
  /\ skillRequest \in [SkillRequests -> SkillRequest]

\* What is installed, or about to be, comes from a build that was deployed.
InstalledWasDeployed ==
  /\ build.revision \in build.deployed
  /\ \A q \in SkillRequests : skillRequest[q].pc # "idle" => skillRequest[q].build \in build.deployed
  /\ \A s \in Scopes : installs[s] # NotInstalled
       => {installs[s].revision, installs[s].previous} \subseteq build.deployed \cup {0}

ProductInv == ProductTypeOK /\ InstalledWasDeployed

EventTypes ==
  {"skill.selected", "skill.loaded", "skill.result", "answer", "skill.connection_required", "skill.verification_failed"}
RunTypeOK ==
  /\ runEvents \in Seq([type : EventTypes, revision : Revisions \cup {0}])
  /\ runCheckpoint \in [saved : BOOLEAN, revision : Revisions \cup {0}]
  /\ runLease \in RunWorkers \cup {0}
  /\ runWorker \in [RunWorkers -> RunSteps]

PinTypes == {"skill.selected", "skill.loaded", "skill.result"}
Pins == EventsOf(PinTypes)
Loads == EventsOf({"skill.loaded"})

\* What binds the run to one revision: every selection, load and result names it, ...
OnePin == \A i, j \in Pins : runEvents[i].revision = runEvents[j].revision
ResultsFollowAnswers ==
  \A i \in EventsOf({"skill.result"}) :
    i > 1 /\ runEvents[i - 1].type = "answer" /\ runEvents[i - 1].revision = runEvents[i].revision
ResultsFollowLoads == EventsOf({"skill.result"}) # {} => Loads # {}

AnswersHaveResults ==
  \A i \in Loads, j \in EventsOf({"answer"}) : i < j => j < Len(runEvents) /\ runEvents[j + 1].type = "skill.result"

\* ... the messages of a checkpoint, and of a worker under the lease that has put them together, name
\* what is pinned, and the others under the lease found no checkpoint and nothing pinned.
PinnedTo(revision) == Pins = {} \/ (Loads # {} /\ \A i \in Pins : runEvents[i].revision = revision)
CheckpointBound == runCheckpoint.saved => PinnedTo(runCheckpoint.revision)
Fits(r) ==
  /\ r.pc \in {"resolve", "installations", "connections", "blocked", "select", "load", "working"} => ~runCheckpoint.saved
  /\ r.pc \in {"installations", "connections", "blocked", "select"} => Pins = {}
  /\ r.pc = "load" => \A i \in Pins : runEvents[i].revision = r.revision
  /\ r.pc = "working" => PinnedTo(r.revision)
  /\ r.pc = "saved" => runCheckpoint.saved /\ r.revision = runCheckpoint.revision
WorkerBound == \A w \in RunWorkers : HoldsRun(w) => Fits(runWorker[w])

EventsBound == OnePin /\ ResultsFollowAnswers /\ ResultsFollowLoads /\ AnswersHaveResults
RunInv == RunTypeOK /\ EventsBound /\ CheckpointBound /\ WorkerBound

LEMMA ProductStart == RunSkillInit => ProductInv
<1> SUFFICES ASSUME RunSkillInit PROVE ProductInv
  OBVIOUS
<1>1. PICK r \in Revisions : build = [revision |-> r, deployed |-> {r}]
  BY DEF RunSkillInit
<1>2. ProductTypeOK
  BY <1>1 DEF RunSkillInit, ProductTypeOK, SkillRequest
<1>3. InstalledWasDeployed
  BY <1>1 DEF RunSkillInit, InstalledWasDeployed
<1> QED BY <1>2, <1>3 DEF ProductInv

\* A request that has started is one that the product accepts, and names a build that was deployed.
LEMMA StartedRequest ==
  ASSUME ProductInv, NEW q \in SkillRequests, skillRequest[q].pc # "idle"
  PROVE  /\ skillRequest[q] \in [pc : {"started", "checked"}, op : SkillOps, scope : Scopes, expected : Revisions,
                                 build : Revisions, connected : BOOLEAN]
         /\ skillRequest[q].build \in build.deployed
BY DEF ProductInv, ProductTypeOK, InstalledWasDeployed, SkillRequest

\* A request that ends and writes one installation, of deployed builds.
LEMMA InstallationWritten ==
  ASSUME ProductInv, NEW q \in SkillRequests, NEW s \in Scopes, NEW x \in Installation \cup {NotInstalled},
         x # NotInstalled => {x.revision, x.previous} \subseteq build.deployed \cup {0},
         installs' = [installs EXCEPT ![s] = x], RequestDone(q), UNCHANGED <<build, connected>>
  PROVE  ProductInv'
<1> USE DEF ProductInv, ProductTypeOK
<1>1. skillRequest' = [skillRequest EXCEPT ![q] = [pc |-> "idle"]] /\ [pc |-> "idle"] \in SkillRequest
  BY DEF RequestDone, SkillRequest
<1>2. ProductTypeOK'
  BY <1>1
<1>3. \A p \in SkillRequests : skillRequest'[p].pc # "idle" => skillRequest'[p] = skillRequest[p]
  BY <1>1
<1>4. \A t \in Scopes : installs'[t] = IF t = s THEN x ELSE installs[t]
  OBVIOUS
<1>5. InstalledWasDeployed'
  BY <1>3, <1>4 DEF InstalledWasDeployed
<1> QED BY <1>2, <1>5

\* A request that ends and changes nothing.
LEMMA NothingWritten ==
  ASSUME ProductInv, NEW q \in SkillRequests, installs' = installs, RequestDone(q), UNCHANGED <<build, connected>>
  PROVE  ProductInv'
<1> USE DEF ProductInv, ProductTypeOK
<1>1. skillRequest' = [skillRequest EXCEPT ![q] = [pc |-> "idle"]] /\ [pc |-> "idle"] \in SkillRequest
  BY DEF RequestDone, SkillRequest
<1>2. ProductTypeOK'
  BY <1>1
<1>3. \A p \in SkillRequests : skillRequest'[p].pc # "idle" => skillRequest'[p] = skillRequest[p]
  BY <1>1
<1>5. InstalledWasDeployed'
  BY <1>3 DEF InstalledWasDeployed
<1> QED BY <1>2, <1>5

\* Deploying, connecting and the steps of a request.
LEMMA ProductStep ==
  ASSUME ProductInv, [RunSkillNext]_runSkillVars
  PROVE  ProductInv'
<1>1. ASSUME NEW r \in Revisions, Deploy(r) PROVE ProductInv'
  <2>1. build' = [revision |-> r, deployed |-> build.deployed \cup {r}]
        /\ UNCHANGED <<connected, installs, skillRequest>>
    BY <1>1 DEF Deploy
  <2>2. ProductTypeOK'
    BY <2>1 DEF ProductInv, ProductTypeOK
  <2>3. InstalledWasDeployed'
    BY <2>1 DEF ProductInv, InstalledWasDeployed
  <2> QED BY <2>2, <2>3 DEF ProductInv
<1>2. CASE ToggleConnection
  BY <1>2 DEF ToggleConnection, ProductInv, ProductTypeOK, InstalledWasDeployed
<1>3. ASSUME NEW q \in SkillRequests, NEW op \in SkillOps, NEW s \in Scopes, NEW e \in Revisions, StartRequest(q, op, s, e)
      PROVE  ProductInv'
  <2> DEFINE r == [pc |-> "started", op |-> op, scope |-> s, expected |-> e, build |-> build.revision, connected |-> connected]
  <2>1. r \in SkillRequest /\ r.build \in build.deployed
    BY DEF ProductInv, ProductTypeOK, InstalledWasDeployed, SkillRequest
  <2>2. skillRequest' = [skillRequest EXCEPT ![q] = r] /\ UNCHANGED <<build, connected, installs>>
    BY <1>3 DEF StartRequest
  <2> HIDE DEF r
  <2>3. ProductTypeOK'
    BY <2>1, <2>2 DEF ProductInv, ProductTypeOK
  <2>4. \A p \in SkillRequests : skillRequest'[p] = IF p = q THEN r ELSE skillRequest[p]
    BY <2>2 DEF ProductInv, ProductTypeOK
  <2>5. InstalledWasDeployed'
    BY <2>1, <2>2, <2>4 DEF ProductInv, InstalledWasDeployed
  <2> QED BY <2>3, <2>5 DEF ProductInv
<1>4. ASSUME NEW q \in SkillRequests, InstallSkill(q) PROVE ProductInv'
  <2> DEFINE r == skillRequest[q]
             x == [revision |-> r.build, enabled |-> TRUE, previous |-> 0]
  <2>1. r.pc = "started" /\ RequestDone(q) /\ UNCHANGED <<build, connected>>
    BY <1>4 DEF InstallSkill, Asked
  <2>2. x \in Installation /\ r.build \in build.deployed /\ r.scope \in Scopes
    BY <2>1, StartedRequest DEF Installation
  <2>3. {x.revision, x.previous} \subseteq build.deployed \cup {0}
    BY <2>2
  <2>4. installs' = [installs EXCEPT ![r.scope] = x] \/ installs' = installs
    BY <1>4 DEF InstallSkill
  <2> HIDE DEF r, x
  <2> QED BY <2>1, <2>2, <2>3, <2>4, NothingWritten, InstallationWritten
<1>5. ASSUME NEW q \in SkillRequests, UpdateSkill(q) PROVE ProductInv'
  <2> DEFINE r == skillRequest[q]
             held == installs[r.scope]
             x == [held EXCEPT !.revision = r.build, !.previous = held.revision]
  <2>1. r.pc = "started" /\ RequestDone(q) /\ UNCHANGED <<build, connected>>
    BY <1>5 DEF UpdateSkill, Asked
  <2>2. r.build \in Revisions /\ r.build \in build.deployed /\ r.scope \in Scopes
    BY <2>1, StartedRequest
  <2>3. installs' = installs \/ (held # NotInstalled /\ installs' = [installs EXCEPT ![r.scope] = x])
    <3>1. [installs EXCEPT ![r.scope].revision = r.build, ![r.scope].previous = held.revision]
            = [installs EXCEPT ![r.scope] = x]
      BY <2>2 DEF ProductInv, ProductTypeOK
    <3> QED BY <1>5, <3>1 DEF UpdateSkill
  <2>4. held # NotInstalled => /\ held \in Installation
                              /\ held.revision \in build.deployed \cup {0}
    BY <2>2 DEF ProductInv, ProductTypeOK, InstalledWasDeployed
  <2>5. held # NotInstalled => x \in Installation /\ {x.revision, x.previous} \subseteq build.deployed \cup {0}
    BY <2>2, <2>4 DEF Installation
  <2> HIDE DEF r, x, held
  <2> QED BY <2>1, <2>2, <2>3, <2>5, NothingWritten, InstallationWritten
<1>6. ASSUME NEW q \in SkillRequests, RollbackSkill(q) PROVE ProductInv'
  <2> DEFINE r == skillRequest[q]
             held == installs[r.scope]
             x == [held EXCEPT !.revision = held.previous, !.previous = held.revision]
  <2>1. r.pc = "started" /\ RequestDone(q) /\ UNCHANGED <<build, connected>>
    BY <1>6 DEF RollbackSkill, Asked
  <2>2. r.scope \in Scopes
    BY <2>1, StartedRequest
  <2>3. installs' = installs \/ (held # NotInstalled /\ held.previous # 0 /\ installs' = [installs EXCEPT ![r.scope] = x])
    <3>1. [installs EXCEPT ![r.scope].revision = held.previous, ![r.scope].previous = held.revision]
            = [installs EXCEPT ![r.scope] = x]
      BY <2>2 DEF ProductInv, ProductTypeOK
    <3> QED BY <1>6, <3>1 DEF RollbackSkill
  <2>4. held # NotInstalled => /\ held \in Installation
                              /\ {held.revision, held.previous} \subseteq build.deployed \cup {0}
    BY <2>2 DEF ProductInv, ProductTypeOK, InstalledWasDeployed
  <2>5. held # NotInstalled /\ held.previous # 0 => x \in Installation /\ {x.revision, x.previous} \subseteq build.deployed \cup {0}
    BY <2>2, <2>4 DEF Installation
  <2> HIDE DEF r, x, held
  <2> QED BY <2>1, <2>2, <2>3, <2>5, NothingWritten, InstallationWritten
<1>7. ASSUME NEW q \in SkillRequests, CheckInstallation(q) PROVE ProductInv'
  <2> DEFINE r == skillRequest[q]
             held == installs[r.scope]
             x == [r EXCEPT !.pc = "checked"]
  <2>1. r.pc = "started" /\ UNCHANGED <<build, connected, installs>>
    BY <1>7 DEF CheckInstallation, Asked
  <2>2. x \in SkillRequest /\ x.build \in build.deployed /\ [pc |-> "idle"] \in SkillRequest
    BY <2>1, StartedRequest DEF SkillRequest
  <2>3. PICK y \in {x, [pc |-> "idle"]} : skillRequest' = [skillRequest EXCEPT ![q] = y]
    BY <1>7 DEF CheckInstallation
  <2> HIDE DEF r, x, held
  <2>4. y \in SkillRequest /\ (y.pc # "idle" => y.build \in build.deployed)
    BY <2>2
  <2>5. \A p \in SkillRequests : skillRequest'[p] = IF p = q THEN y ELSE skillRequest[p]
    BY <2>3 DEF ProductInv, ProductTypeOK
  <2>6. ProductTypeOK'
    BY <2>1, <2>3, <2>4 DEF ProductInv, ProductTypeOK
  <2>7. InstalledWasDeployed'
    BY <2>1, <2>4, <2>5 DEF ProductInv, InstalledWasDeployed
  <2> QED BY <2>6, <2>7 DEF ProductInv
<1>8. ASSUME NEW q \in SkillRequests, SetEnabled(q) PROVE ProductInv'
  <2> DEFINE r == skillRequest[q]
             held == installs[r.scope]
             b == (r.op = "enable")
             x == [held EXCEPT !.enabled = b]
  <2>1. r.pc = "checked" /\ RequestDone(q) /\ UNCHANGED <<build, connected>>
    BY <1>8 DEF SetEnabled
  <2>2. r.scope \in Scopes /\ b \in BOOLEAN
    BY <2>1, StartedRequest
  <2>3. installs' = installs \/ (held # NotInstalled /\ installs' = [installs EXCEPT ![r.scope] = x])
    <3>1. [installs EXCEPT ![r.scope].enabled = b] = [installs EXCEPT ![r.scope] = x]
      BY <2>2 DEF ProductInv, ProductTypeOK
    <3> QED BY <1>8, <3>1 DEF SetEnabled
  <2> HIDE DEF b
  <2>4. held # NotInstalled => /\ held \in Installation
                              /\ {held.revision, held.previous} \subseteq build.deployed \cup {0}
    BY <2>2 DEF ProductInv, ProductTypeOK, InstalledWasDeployed
  <2>5. held # NotInstalled => x \in Installation /\ {x.revision, x.previous} \subseteq build.deployed \cup {0}
    BY <2>2, <2>4 DEF Installation
  <2> HIDE DEF r, x, held
  <2> QED BY <2>1, <2>2, <2>3, <2>5, NothingWritten, InstallationWritten
<1>9. ASSUME NEW q \in SkillRequests, RemoveSkill(q) PROVE ProductInv'
  <2> DEFINE s == skillRequest[q].scope
  <2>1. skillRequest[q].pc = "checked" /\ RequestDone(q) /\ UNCHANGED <<build, connected>>
        /\ installs' = [installs EXCEPT ![s] = NotInstalled]
    BY <1>9 DEF RemoveSkill
  <2>2. s \in Scopes
    BY <2>1, StartedRequest
  <2> HIDE DEF s
  <2> QED BY <2>1, <2>2, InstallationWritten
<1>10. CASE UNCHANGED <<build, connected, installs, skillRequest>>
  BY <1>10 DEF ProductInv, ProductTypeOK, InstalledWasDeployed
<1>11. ASSUME NEW w \in RunWorkers,
              \/ ClaimRun(w) \/ ReadRunCheckpoint(w) \/ ResolvePinned(w) \/ ReadInstallations(w) \/ SelectRunSkill(w)
              \/ EmitBlocked(w) \/ EmitSelected(w) \/ EmitLoaded(w) \/ SaveRunCheckpoint(w) \/ EmitAnswer(w)
       PROVE  UNCHANGED <<build, connected, installs, skillRequest>>
  BY <1>11 DEF ClaimRun, ReadRunCheckpoint, ResolvePinned, ReadInstallations, SelectRunSkill, EmitBlocked, EmitSelected,
     EmitLoaded, SaveRunCheckpoint, EmitAnswer
<1>12. CASE LeaseExpires \/ UNCHANGED runSkillVars
  BY <1>12, <1>10 DEF LeaseExpires, runSkillVars
<1> QED
  BY <1>1, <1>2, <1>3, <1>4, <1>5, <1>6, <1>7, <1>8, <1>9, <1>10, <1>11, <1>12 DEF RunSkillNext, SkillOps

-----------------------------------------------------------------------------
\* A nonempty set of indices has a greatest one.
LEMMA GreatestIndex ==
  ASSUME NEW n \in Nat, NEW S, S \subseteq 1 .. n, S # {}
  PROVE  \E i \in S : \A j \in S : j <= i
<1> DEFINE R == OpToRel(<, Nat)
           T == {n - i : i \in S}
<1>1. T \subseteq Nat /\ T # {}
  <2>1. \A i \in S : n - i \in Nat
    OBVIOUS
  <2> QED BY <2>1
<1>2. IsWellFoundedOn(R, Nat)
  BY NatLessThanWellFounded
<1>3. \E x \in T : \A y \in T : ~(<<y, x>> \in R)
  <2> HIDE DEF R, T
  <2> QED BY <1>1, <1>2, WFMin
<1>4. PICK i \in S : \A j \in S : ~(<<n - j, n - i>> \in R)
  <2> HIDE DEF R
  <2> QED BY <1>3
<1>5. \A j \in S : ~(n - j < n - i)
  <2> SUFFICES ASSUME NEW j \in S, n - j < n - i PROVE FALSE
    OBVIOUS
  <2>1. n - j \in Nat /\ n - i \in Nat
    OBVIOUS
  <2>2. <<n - j, n - i>> \in R
    BY <2>1 DEF OpToRel
  <2> HIDE DEF R
  <2> QED BY <2>2, <1>4
<1>6. \A j \in S : j <= i
  BY <1>5
<1> QED BY <1>6

\* The newest event of some types is an event of these types, if there is one.
LEMMA NewestIsOne ==
  ASSUME RunTypeOK, NEW types, EventsOf(types) # {}
  PROVE  \E i \in EventsOf(types) : NewestEvent(types) = runEvents[i]
<1>1. Len(runEvents) \in Nat /\ EventsOf(types) \subseteq 1 .. Len(runEvents)
  BY DEF RunTypeOK, EventsOf
<1>2. \E i \in EventsOf(types) : \A j \in EventsOf(types) : j <= i
  BY <1>1, GreatestIndex
<1> DEFINE i == CHOOSE k \in EventsOf(types) : \A j \in EventsOf(types) : j <= k
<1>3. i \in EventsOf(types)
  BY <1>2
<1> QED BY <1>3 DEF NewestEvent

\* An event that is appended comes after those there were.
LEMMA EventAppended ==
  ASSUME RunTypeOK, NEW type \in EventTypes, NEW revision \in Revisions \cup {0}, Emitted(type, revision)
  PROVE  /\ runEvents' \in Seq([type : EventTypes, revision : Revisions \cup {0}])
         /\ Len(runEvents') = Len(runEvents) + 1
         /\ \A i \in 1 .. Len(runEvents) : runEvents'[i] = runEvents[i]
         /\ runEvents'[Len(runEvents) + 1] = [type |-> type, revision |-> revision]
BY DEF Emitted, RunTypeOK

\* The events stay as they are.
LEMMA EventsStay ==
  ASSUME EventsBound, CheckpointBound, UNCHANGED <<runEvents, runCheckpoint>>
  PROVE  EventsBound' /\ CheckpointBound'
<1>1. Pins' = Pins /\ Loads' = Loads /\ EventsOf({"skill.result"})' = EventsOf({"skill.result"})
      /\ EventsOf({"answer"})' = EventsOf({"answer"})
  BY DEF Pins, Loads, EventsOf
<1> QED
  BY <1>1 DEF EventsBound, CheckpointBound, PinnedTo, OnePin, ResultsFollowAnswers, ResultsFollowLoads, AnswersHaveResults

\* The worker under the lease moves, and writes nothing.
LEMMA WorkerRestates ==
  ASSUME RunInv, NEW w \in RunWorkers, NEW r \in RunSteps, HoldsRun(w), Fits(r),
         runWorker' = [runWorker EXCEPT ![w] = r], UNCHANGED <<runEvents, runCheckpoint, runLease>>
  PROVE  RunInv'
<1>1. RunTypeOK'
  BY DEF RunInv, RunTypeOK
<1>3. Pins' = Pins /\ Loads' = Loads
  BY DEF Pins, Loads, EventsOf
<1>4. EventsBound' /\ CheckpointBound'
  BY EventsStay DEF RunInv
<1>5. \A v \in RunWorkers : HoldsRun(v)' => v = w
  BY DEF HoldsRun
<1>6. runWorker'[w] = r
  BY DEF RunInv, RunTypeOK
<1>7. WorkerBound'
  BY <1>3, <1>5, <1>6 DEF WorkerBound, Fits, PinnedTo
<1> QED BY <1>1, <1>4, <1>7 DEF RunInv

LEMMA CheckpointReadKeeps ==
  ASSUME RunInv, NEW w \in RunWorkers, ReadRunCheckpoint(w)
  PROVE  RunInv'
<1> DEFINE b == runWorker[w].build
           r == IF runCheckpoint.saved THEN [pc |-> "saved", build |-> b, revision |-> runCheckpoint.revision]
                ELSE [pc |-> "resolve", build |-> b]
<1>1. HoldsRun(w) /\ runWorker[w].pc = "claimed" /\ UNCHANGED <<runEvents, runCheckpoint, runLease>>
      /\ runWorker' = [runWorker EXCEPT ![w] = r]
  BY DEF ReadRunCheckpoint, WorkerAt
<1>2. b \in Revisions /\ runCheckpoint.revision \in Revisions \cup {0}
  BY <1>1 DEF RunInv, RunTypeOK, RunSteps
<1> HIDE DEF b
<1>3. r \in RunSteps /\ Fits(r)
  BY <1>2 DEF RunSteps, Fits
<1> HIDE DEF r
<1> QED BY <1>1, <1>3, WorkerRestates

\* What a worker under the lease writes.
LEMMA ResolveKeeps ==
  ASSUME RunInv, NEW w \in RunWorkers, ResolvePinned(w)
  PROVE  RunInv'
<1> DEFINE types == {"skill.selected", "skill.loaded"}
           pinned == NewestEvent(types)
           b == runWorker[w].build
           r == CASE pinned.type = "none" -> [pc |-> "installations", build |-> b]
                  [] pinned.type # "none" /\ ~Restorable(w, pinned) -> [pc |-> "failed", build |-> b]
                  [] OTHER -> [pc |-> IF pinned.type = "skill.selected" THEN "load" ELSE "working",
                               build |-> b, revision |-> pinned.revision]
<1>1. HoldsRun(w) /\ runWorker[w].pc = "resolve" /\ UNCHANGED <<runEvents, runCheckpoint, runLease>>
      /\ runWorker' = [runWorker EXCEPT ![w] = r]
  BY DEF ResolvePinned, WorkerAt
<1>2. b \in Revisions
  BY <1>1 DEF RunInv, RunTypeOK, RunSteps
<1>3. EventsOf(types) = {} => pinned.type = "none" /\ Pins = {}
  <2>1. EventsOf(types) = {} => Loads = {} /\ EventsOf({"skill.result"}) = {}
    BY DEF EventsOf, Loads, RunInv, EventsBound, ResultsFollowLoads
  <2> QED BY <2>1 DEF NewestEvent, EventsOf, Pins, PinTypes, Loads
<1>4. ASSUME EventsOf(types) # {}
      PROVE  /\ pinned.type \in types /\ pinned.revision \in Revisions \cup {0}
             /\ \A i \in Pins : runEvents[i].revision = pinned.revision
             /\ pinned.type # "skill.selected" => Loads # {}
  <2>1. PICK i \in EventsOf(types) : pinned = runEvents[i]
    BY <1>4, NewestIsOne DEF RunInv
  <2>a. i \in DOMAIN runEvents /\ runEvents[i].type \in types
    BY <2>1 DEF EventsOf
  <2>b. runEvents[i] \in [type : EventTypes, revision : Revisions \cup {0}]
    <3> DEFINE R == [type : EventTypes, revision : Revisions \cup {0}]
    <3>1. runEvents \in Seq(R)
      BY DEF RunInv, RunTypeOK
    <3> HIDE DEF R
    <3>2. runEvents[i] \in R
      BY <2>a, <3>1
    <3> QED BY <3>2 DEF R
  <2>2. i \in Pins /\ runEvents[i] \in [type : EventTypes, revision : Revisions \cup {0}] /\ runEvents[i].type \in types
    BY <2>a, <2>b DEF EventsOf, Pins, PinTypes
  <2>3. \A j \in Pins : runEvents[j].revision = runEvents[i].revision
    BY <2>2 DEF RunInv, EventsBound, OnePin
  <2>4. runEvents[i].type = "skill.loaded" => i \in Loads
    BY <2>1 DEF EventsOf, Loads
  <2> QED BY <2>1, <2>2, <2>3, <2>4
<1> HIDE DEF pinned, b
<1>5. r \in RunSteps
  BY <1>2, <1>3, <1>4 DEF RunSteps
<1>a. ~runCheckpoint.saved
  BY <1>1 DEF RunInv, WorkerBound, Fits
<1>6. Fits(r)
  BY <1>3, <1>4, <1>a DEF Fits, PinnedTo
<1> HIDE DEF r, types
<1> QED BY <1>1, <1>5, <1>6, WorkerRestates

LEMMA ReadsKeep ==
  ASSUME ProductInv, RunInv, NEW w \in RunWorkers, ReadInstallations(w)
  PROVE  RunInv'
<1> DEFINE r == [pc |-> "connections", build |-> runWorker[w].build, installed |-> InstallationFor]
<1>1. HoldsRun(w) /\ runWorker[w].pc = "installations" /\ UNCHANGED <<runEvents, runCheckpoint, runLease>>
      /\ runWorker' = [runWorker EXCEPT ![w] = r]
  BY DEF ReadInstallations, WorkerAt
<1>2. InstallationFor \in Installation \cup {NotInstalled}
  BY DEF InstallationFor, ProductInv, ProductTypeOK, Scopes
<1>3. r \in RunSteps
  BY <1>1, <1>2 DEF RunInv, RunTypeOK, RunSteps
<1>4. Pins = {} /\ ~runCheckpoint.saved
  BY <1>1 DEF RunInv, WorkerBound, Fits
<1>5. Fits(r)
  BY <1>4 DEF Fits
<1> HIDE DEF r
<1> QED BY <1>1, <1>3, <1>4, <1>5, WorkerRestates

LEMMA SelectKeeps ==
  ASSUME RunInv, NEW w \in RunWorkers, SelectRunSkill(w)
  PROVE  RunInv'
<1> DEFINE o == runWorker[w]
           status == CatalogStatus(o.build, o.installed, [connected |-> connected])
           enabled == o.installed # NotInstalled /\ o.installed.enabled
           r == CASE enabled /\ status \in {"REQUIRES_CONNECTION", "UPDATE_AVAILABLE"} ->
                       [pc |-> "blocked", build |-> o.build, status |-> status, revision |-> o.installed.revision]
                  [] enabled /\ status = "INSTALLED" -> [pc |-> "select", build |-> o.build, revision |-> o.build]
                  [] OTHER -> [pc |-> "working", build |-> o.build, revision |-> 0]
<1>1. HoldsRun(w) /\ runWorker[w].pc = "connections" /\ UNCHANGED <<runEvents, runCheckpoint, runLease>>
      /\ runWorker' = [runWorker EXCEPT ![w] = r]
  BY DEF SelectRunSkill, WorkerAt
<1>2. o.build \in Revisions /\ o.installed \in Installation \cup {NotInstalled}
  BY <1>1 DEF RunInv, RunTypeOK, RunSteps
<1>3. enabled => o.installed.revision \in Revisions
  BY <1>2 DEF Installation
<1>4. Pins = {} /\ ~runCheckpoint.saved
  BY <1>1 DEF RunInv, WorkerBound, Fits
<1> HIDE DEF o, status, enabled
<1>5. r \in RunSteps
  <2>1. CASE enabled /\ status \in {"REQUIRES_CONNECTION", "UPDATE_AVAILABLE"}
    BY <2>1, <1>2, <1>3 DEF RunSteps
  <2>2. CASE enabled /\ status = "INSTALLED"
    BY <2>2, <1>2 DEF RunSteps
  <2>3. CASE ~(enabled /\ status \in {"REQUIRES_CONNECTION", "UPDATE_AVAILABLE"}) /\ ~(enabled /\ status = "INSTALLED")
    BY <2>3, <1>2 DEF RunSteps
  <2> QED BY <2>1, <2>2, <2>3
<1>6. Fits(r)
  BY <1>4 DEF Fits, PinnedTo
<1> HIDE DEF r
<1> QED BY <1>1, <1>5, <1>6, WorkerRestates

\* The first save: the checkpoint has the messages of a worker that fits what is pinned.
LEMMA CheckpointSavedKeeps ==
  ASSUME RunInv, NEW w \in RunWorkers, SaveRunCheckpoint(w)
  PROVE  RunInv'
<1> DEFINE o == runWorker[w]
           r == [o EXCEPT !.pc = "saved"]
<1>1. HoldsRun(w) /\ o.pc = "working" /\ UNCHANGED <<runEvents, runLease>>
      /\ runCheckpoint' = [saved |-> TRUE, revision |-> o.revision]
      /\ runWorker' = [runWorker EXCEPT ![w] = r]
  BY DEF SaveRunCheckpoint, WorkerAt, RunInv, RunTypeOK
<1>2. o \in [pc : {"select", "load", "working", "saved", "done"}, build : Revisions, revision : Revisions \cup {0}]
  BY <1>1 DEF RunInv, RunTypeOK, RunSteps
<1>3. r \in RunSteps /\ r.pc = "saved" /\ r.revision = o.revision /\ o.revision \in Revisions \cup {0}
  BY <1>2 DEF RunSteps
<1>4. PinnedTo(o.revision)
  BY <1>1 DEF RunInv, WorkerBound, Fits
<1> HIDE DEF o, r
<1>5. RunTypeOK'
  BY <1>1, <1>3 DEF RunInv, RunTypeOK
<1>6. Pins' = Pins /\ Loads' = Loads /\ EventsOf({"skill.result"})' = EventsOf({"skill.result"})
      /\ EventsOf({"answer"})' = EventsOf({"answer"})
  BY <1>1 DEF Pins, Loads, EventsOf
<1>7. EventsBound'
  BY <1>1, <1>6 DEF RunInv, EventsBound, OnePin, ResultsFollowAnswers, ResultsFollowLoads, AnswersHaveResults
<1>8. CheckpointBound'
  BY <1>1, <1>4, <1>6 DEF CheckpointBound, PinnedTo
<1>9. \A v \in RunWorkers : HoldsRun(v)' => v = w
  BY <1>1 DEF HoldsRun
<1>10. runWorker'[w] = r
  BY <1>1 DEF RunInv, RunTypeOK
<1>11. WorkerBound'
  BY <1>1, <1>3, <1>9, <1>10 DEF WorkerBound, Fits
<1> QED BY <1>5, <1>7, <1>8, <1>11 DEF RunInv

\* The event of a worker under the lease, and where it goes with it.
LEMMA EmitKeeps ==
  ASSUME RunInv, NEW w \in RunWorkers, NEW r \in RunSteps, HoldsRun(w), NEW type \in EventTypes, NEW revision \in Revisions \cup {0},
         Emitted(type, revision), type # "skill.result",
         runWorker' = [runWorker EXCEPT ![w] = r], UNCHANGED <<runCheckpoint, runLease>>,
         r.pc \in {"failed", "done", "load", "working"},
         type \in PinTypes => ~runCheckpoint.saved /\ \A i \in Pins : runEvents[i].revision = revision,
         type = "answer" => Loads = {},
         r.pc = "load" => type = "skill.selected" /\ r.revision = revision,
         r.pc = "working" => type = "skill.loaded" /\ r.revision = revision
  PROVE  RunInv'
<1> DEFINE n == Len(runEvents)
<1>a. [type |-> type, revision |-> revision].type = type /\ [type |-> type, revision |-> revision].revision = revision
  OBVIOUS
<1>1. /\ runEvents' \in Seq([type : EventTypes, revision : Revisions \cup {0}])
      /\ Len(runEvents') = n + 1 /\ n \in Nat
      /\ \A i \in 1 .. n : runEvents'[i] = runEvents[i]
      /\ runEvents'[n + 1].type = type /\ runEvents'[n + 1].revision = revision
  <2>1. RunTypeOK
    BY DEF RunInv
  <2>2. n \in Nat
    BY <2>1 DEF RunTypeOK
  <2> QED BY <2>1, <2>2, <1>a, EventAppended
<1> HIDE DEF n
<1>2. DOMAIN runEvents = 1 .. n /\ DOMAIN runEvents' = 1 .. n + 1
  BY <1>1 DEF n, RunInv, RunTypeOK
<1>3. RunTypeOK'
  BY <1>1 DEF RunInv, RunTypeOK
<1>4. Pins' = Pins \cup (IF type \in PinTypes THEN {n + 1} ELSE {})
  BY <1>1, <1>2 DEF Pins, EventsOf
<1>5. Loads' = Loads \cup (IF type = "skill.loaded" THEN {n + 1} ELSE {})
  BY <1>1, <1>2 DEF Loads, EventsOf
<1>6. EventsOf({"skill.result"})' = EventsOf({"skill.result"})
  BY <1>1, <1>2 DEF EventsOf
<1>7. Pins \subseteq 1 .. n /\ EventsOf({"skill.result"}) \subseteq 1 .. n
  BY <1>2 DEF Pins, EventsOf
<1>8. \A i \in Pins' : IF i = n + 1 THEN runEvents'[i].revision = revision
                       ELSE i \in Pins /\ runEvents'[i].revision = runEvents[i].revision
  BY <1>1, <1>4, <1>7
<1>9. OnePin'
  <2>1. type \in PinTypes => \A i \in Pins' : runEvents'[i].revision = revision
    BY <1>8
  <2>2. type \notin PinTypes => Pins' = Pins /\ n + 1 \notin Pins
    BY <1>1, <1>4, <1>7
  <2> QED BY <1>8, <2>1, <2>2 DEF RunInv, EventsBound, OnePin
<1>10. ResultsFollowAnswers'
  <2> SUFFICES ASSUME NEW i \in EventsOf({"skill.result"})'
               PROVE  i > 1 /\ runEvents'[i - 1].type = "answer" /\ runEvents'[i - 1].revision = runEvents'[i].revision
    BY DEF ResultsFollowAnswers
  <2>1. i \in EventsOf({"skill.result"}) /\ i \in 1 .. n
    BY <1>6, <1>7
  <2>2. i > 1 /\ runEvents[i - 1].type = "answer" /\ runEvents[i - 1].revision = runEvents[i].revision
    BY <2>1 DEF RunInv, EventsBound, ResultsFollowAnswers
  <2>3. i - 1 \in 1 .. n
    BY <1>1, <2>1, <2>2
  <2> QED BY <1>1, <2>1, <2>2, <2>3
<1>11. ResultsFollowLoads'
  BY <1>5, <1>6 DEF RunInv, EventsBound, ResultsFollowLoads
<1>b. AnswersHaveResults'
  <2> SUFFICES ASSUME NEW i \in Loads', NEW j \in EventsOf({"answer"})', i < j
               PROVE  j < n + 1 /\ runEvents'[j + 1].type = "skill.result"
    BY <1>1 DEF AnswersHaveResults
  <2>1. j \in 1 .. n + 1 /\ runEvents'[j].type = "answer" /\ i \in 1 .. n + 1
    BY <1>2 DEF EventsOf, Loads
  <2>2. i \in Loads /\ i \in 1 .. n
    BY <1>1, <1>5, <2>1
  <2>3. j # n + 1
    BY <1>1, <2>1, <2>2
  <2>4. j \in 1 .. n /\ j \in EventsOf({"answer"})
    BY <1>1, <1>2, <2>1, <2>3 DEF EventsOf
  <2>5. j < n /\ runEvents[j + 1].type = "skill.result"
    BY <2>2, <2>4 DEF RunInv, EventsBound, AnswersHaveResults, n
  <2> QED BY <1>1, <2>4, <2>5
<1>c. CheckpointBound'
  <2>1. ASSUME runCheckpoint.saved PROVE Pins' = Pins /\ Pins \subseteq 1 .. n /\ Loads \subseteq Loads'
    BY <2>1, <1>4, <1>5, <1>7
  <2> QED BY <1>1, <2>1 DEF RunInv, CheckpointBound, PinnedTo
<1>12. \A v \in RunWorkers : HoldsRun(v)' => v = w
  BY DEF HoldsRun
<1>13. runWorker'[w] = r
  BY DEF RunInv, RunTypeOK
<1>14. type \in PinTypes => \A i \in Pins' : runEvents'[i].revision = revision
  BY <1>8
<1>15. WorkerBound'
  BY <1>5, <1>12, <1>13, <1>14 DEF WorkerBound, Fits, PinnedTo, PinTypes
<1> QED BY <1>3, <1>9, <1>10, <1>11, <1>b, <1>c, <1>15 DEF RunInv, EventsBound

LEMMA BlockedKeeps ==
  ASSUME RunInv, NEW w \in RunWorkers, EmitBlocked(w)
  PROVE  RunInv'
<1> DEFINE r == [pc |-> "failed", build |-> runWorker[w].build]
           type == IF runWorker[w].status = "REQUIRES_CONNECTION" THEN "skill.connection_required" ELSE "skill.verification_failed"
           revision == runWorker[w].revision
<1>1. HoldsRun(w) /\ runWorker[w].pc = "blocked" /\ UNCHANGED <<runCheckpoint, runLease>> /\ Emitted(type, revision)
      /\ runWorker' = [runWorker EXCEPT ![w] = r]
  BY DEF EmitBlocked, WorkerAt, WorkerFails
<1>2. r \in RunSteps /\ revision \in Revisions /\ r.pc = "failed"
  BY <1>1 DEF RunInv, RunTypeOK, RunSteps
<1>3. type \in EventTypes /\ type \notin PinTypes /\ type # "skill.result" /\ type # "answer"
  BY DEF PinTypes, EventTypes
<1> HIDE DEF r, type, revision
<1> QED BY <1>1, <1>2, <1>3, EmitKeeps

LEMMA SelectedKeeps ==
  ASSUME RunInv, NEW w \in RunWorkers, EmitSelected(w)
  PROVE  RunInv'
<1> DEFINE r == [runWorker[w] EXCEPT !.pc = "load"]
           revision == runWorker[w].revision
<1>1. HoldsRun(w) /\ runWorker[w].pc = "select" /\ UNCHANGED <<runCheckpoint, runLease>> /\ Emitted("skill.selected", revision)
      /\ runWorker' = [runWorker EXCEPT ![w] = r]
  BY DEF EmitSelected, WorkerAt, RunInv, RunTypeOK
<1>2. runWorker[w] \in [pc : {"select", "load", "working", "saved", "done"}, build : Revisions, revision : Revisions \cup {0}]
  BY <1>1 DEF RunInv, RunTypeOK, RunSteps
<1>3. r \in RunSteps /\ revision \in Revisions \cup {0} /\ r.pc = "load" /\ r.revision = revision
  BY <1>2 DEF RunSteps
<1>4. Pins = {} /\ ~runCheckpoint.saved
  BY <1>1 DEF RunInv, WorkerBound, Fits
<1>5. "skill.selected" \in EventTypes /\ "skill.selected" # "skill.result"
  BY DEF EventTypes
<1> HIDE DEF r, revision
<1> QED BY <1>1, <1>3, <1>4, <1>5, EmitKeeps

LEMMA LoadedKeeps ==
  ASSUME RunInv, NEW w \in RunWorkers, EmitLoaded(w)
  PROVE  RunInv'
<1> DEFINE r == [runWorker[w] EXCEPT !.pc = "working"]
           revision == runWorker[w].revision
<1>1. HoldsRun(w) /\ runWorker[w].pc = "load" /\ UNCHANGED <<runCheckpoint, runLease>> /\ Emitted("skill.loaded", revision)
      /\ runWorker' = [runWorker EXCEPT ![w] = r]
  BY DEF EmitLoaded, WorkerAt, RunInv, RunTypeOK
<1>2. runWorker[w] \in [pc : {"select", "load", "working", "saved", "done"}, build : Revisions, revision : Revisions \cup {0}]
  BY <1>1 DEF RunInv, RunTypeOK, RunSteps
<1>3. r \in RunSteps /\ revision \in Revisions \cup {0} /\ r.pc = "working" /\ r.revision = revision
  BY <1>2 DEF RunSteps
<1>4. ~runCheckpoint.saved /\ \A i \in Pins : runEvents[i].revision = revision
  BY <1>1 DEF RunInv, WorkerBound, Fits
<1>5. "skill.loaded" \in EventTypes /\ "skill.loaded" # "skill.result"
  BY DEF EventTypes
<1> HIDE DEF r, revision
<1> QED BY <1>1, <1>3, <1>4, <1>5, EmitKeeps

\* The answer and the result of the skill, in one transaction.
LEMMA AnswerKeeps ==
  ASSUME RunInv, NEW w \in RunWorkers, EmitAnswer(w)
  PROVE  RunInv'
<1> DEFINE pinned == NewestEvent({"skill.loaded"})
           o == runWorker[w]
           revision == o.revision
           failed == [pc |-> "failed", build |-> o.build]
           done == [o EXCEPT !.pc = "done"]
           R == [type : EventTypes, revision : Revisions \cup {0}]
           n == Len(runEvents)
<1>1. HoldsRun(w) /\ o.pc = "saved" /\ UNCHANGED <<runCheckpoint, runLease>>
  BY DEF EmitAnswer, WorkerAt
<1>2. o \in [pc : {"select", "load", "working", "saved", "done"}, build : Revisions, revision : Revisions \cup {0}]
  BY <1>1 DEF RunInv, RunTypeOK, RunSteps
<1>3. failed \in RunSteps /\ done \in RunSteps /\ revision \in Revisions \cup {0} /\ failed.pc = "failed" /\ done.pc = "done"
  BY <1>2 DEF RunSteps
<1>4. runEvents \in Seq(R) /\ n \in Nat
  BY DEF RunInv, RunTypeOK
<1>5. Pins = {} \/ (Loads # {} /\ \A i \in Pins : runEvents[i].revision = revision)
  BY <1>1 DEF RunInv, WorkerBound, Fits, CheckpointBound, PinnedTo
<1>6. CASE Loads = {}
  <2>1. pinned = [type |-> "none", revision |-> 0]
    BY <1>6 DEF NewestEvent, Loads
  <2>2. /\ runEvents' = runEvents \o <<[type |-> "answer", revision |-> revision]>> \o <<>>
        /\ runWorker' = [runWorker EXCEPT ![w] = done]
    <3> HIDE DEF R, n, failed
    <3>1. pinned.type = "none"
      BY <2>1
    <3> HIDE DEF pinned
    <3>2. /\ runEvents' = runEvents \o <<[type |-> "answer", revision |-> runWorker[w].revision]>> \o <<>>
          /\ runWorker' = [runWorker EXCEPT ![w].pc = "done"]
      BY <3>1 DEF EmitAnswer, pinned
    <3> QED BY <3>2 DEF RunInv, RunTypeOK
  <2>3. "answer" \in EventTypes /\ "answer" \notin PinTypes /\ "answer" # "skill.result"
    BY DEF EventTypes, PinTypes
  <2>4. Emitted("answer", revision)
    <3>1. [type |-> "answer", revision |-> revision] \in R
      BY <1>3, <2>3
    <3> HIDE DEF R, revision
    <3> QED BY <2>2, <3>1, <1>4 DEF Emitted
  <2> HIDE DEF done, revision
  <2> QED BY <1>1, <1>3, <1>6, <2>2, <2>3, <2>4, EmitKeeps
<1>7. CASE Loads # {}
  <2>1. PICK k \in Loads : pinned = runEvents[k]
    BY <1>7, NewestIsOne DEF RunInv, Loads
  <2>2. k \in Pins /\ pinned.type = "skill.loaded"
    BY <2>1 DEF Pins, Loads, EventsOf, PinTypes
  <2>3. pinned.revision = revision /\ \A i \in Pins : runEvents[i].revision = revision
    BY <1>5, <2>1, <2>2
  <2>4. CASE ~Restorable(w, pinned)
    <3>1. runWorker' = [runWorker EXCEPT ![w] = failed] /\ runEvents' = runEvents
      BY <2>2, <2>4 DEF EmitAnswer, WorkerFails
    <3>2. Fits(failed)
      BY DEF Fits
    <3> HIDE DEF failed
    <3> QED BY <1>1, <1>3, <3>1, <3>2, WorkerRestates
  <2>5. CASE Restorable(w, pinned)
    <3> DEFINE answer == [type |-> "answer", revision |-> revision]
               result == [type |-> "skill.result", revision |-> revision]
    <3>1. runEvents' = runEvents \o <<answer>> \o <<result>> /\ runWorker' = [runWorker EXCEPT ![w] = done]
      BY <2>2, <2>3, <2>5 DEF EmitAnswer, RunInv, RunTypeOK
    <3>2. answer \in R /\ result \in R /\ answer.type = "answer" /\ result.type = "skill.result"
          /\ answer.revision = revision /\ result.revision = revision
      BY <1>3 DEF EventTypes
    <3> HIDE DEF answer, result, R, done, revision, n, pinned
    <3>3. /\ runEvents' \in Seq(R) /\ Len(runEvents') = n + 2
          /\ \A i \in 1 .. n : runEvents'[i] = runEvents[i]
          /\ runEvents'[n + 1] = answer /\ runEvents'[n + 2] = result
      BY <3>1, <3>2, <1>4 DEF n
    <3>4. DOMAIN runEvents = 1 .. n /\ DOMAIN runEvents' = 1 .. n + 2
      BY <1>4, <3>3 DEF n
    <3>5. RunTypeOK'
      BY <1>1, <1>3, <3>1, <3>3 DEF RunInv, RunTypeOK, R
    <3>6. Pins' = Pins \cup {n + 2} /\ Loads' = Loads
          /\ EventsOf({"skill.result"})' = EventsOf({"skill.result"}) \cup {n + 2}
      BY <1>4, <3>2, <3>3, <3>4 DEF Pins, Loads, EventsOf, PinTypes
    <3>7. Pins \subseteq 1 .. n /\ EventsOf({"skill.result"}) \subseteq 1 .. n
      BY <3>4 DEF Pins, EventsOf
    <3>8. \A i \in Pins' : runEvents'[i].revision = revision
      BY <2>3, <3>2, <3>3, <3>6, <3>7
    <3>9. OnePin'
      BY <3>8 DEF OnePin
    <3>10. ResultsFollowAnswers'
      <4> SUFFICES ASSUME NEW i \in EventsOf({"skill.result"})'
                   PROVE  i > 1 /\ runEvents'[i - 1].type = "answer" /\ runEvents'[i - 1].revision = runEvents'[i].revision
        BY DEF ResultsFollowAnswers
      <4>1. CASE i = n + 2
        BY <4>1, <1>4, <3>2, <3>3
      <4>2. CASE i # n + 2
        <5>1. i \in EventsOf({"skill.result"}) /\ i \in 1 .. n
          BY <3>6, <3>7, <4>2
        <5>2. i > 1 /\ runEvents[i - 1].type = "answer" /\ runEvents[i - 1].revision = runEvents[i].revision
          BY <5>1 DEF RunInv, EventsBound, ResultsFollowAnswers
        <5>3. i - 1 \in 1 .. n
          BY <1>4, <5>1, <5>2
        <5> QED BY <3>3, <5>1, <5>2, <5>3
      <4> QED BY <4>1, <4>2
    <3>11. ResultsFollowLoads'
      BY <1>7, <3>6 DEF ResultsFollowLoads
    <3>12. \A v \in RunWorkers : HoldsRun(v)' => v = w
      BY <1>1 DEF HoldsRun
    <3>13. runWorker'[w].pc = "done"
      BY <1>3, <3>1 DEF RunInv, RunTypeOK
    <3>14. WorkerBound'
      BY <3>12, <3>13 DEF WorkerBound, Fits
    <3>15. AnswersHaveResults'
      <4> SUFFICES ASSUME NEW i \in Loads', NEW j \in EventsOf({"answer"})', i < j
                   PROVE  j < n + 2 /\ runEvents'[j + 1].type = "skill.result"
        BY <3>3 DEF AnswersHaveResults
      <4>1. j \in 1 .. n + 2 /\ runEvents'[j].type = "answer" /\ i \in Loads
        BY <3>4, <3>6 DEF EventsOf
      <4>2. j # n + 2
        BY <3>2, <3>3, <4>1
      <4>3. CASE j = n + 1
        BY <4>3, <1>4, <3>2, <3>3
      <4>4. CASE j # n + 1
        <5>1. j \in 1 .. n /\ j \in EventsOf({"answer"})
          BY <1>4, <3>3, <3>4, <4>1, <4>2, <4>4 DEF EventsOf
        <5>2. j < n /\ runEvents[j + 1].type = "skill.result"
          BY <4>1, <5>1 DEF RunInv, EventsBound, AnswersHaveResults, n
        <5> QED BY <1>4, <3>3, <5>1, <5>2
      <4> QED BY <4>3, <4>4
    <3>16. CheckpointBound'
      <4>1. runCheckpoint.saved /\ revision = runCheckpoint.revision
        BY <1>1 DEF RunInv, WorkerBound, Fits, revision
      <4> QED BY <1>1, <1>7, <3>6, <3>8, <4>1 DEF CheckpointBound, PinnedTo
    <3> QED BY <3>5, <3>9, <3>10, <3>11, <3>14, <3>15, <3>16 DEF RunInv, EventsBound
  <2> QED BY <2>4, <2>5
<1> QED BY <1>6, <1>7

\* The lease comes and goes, and requests leave the run alone.
LEMMA RunStep ==
  ASSUME ProductInv, RunInv, [RunSkillNext]_runSkillVars
  PROVE  RunInv'
<1>1. ASSUME NEW w \in RunWorkers, ClaimRun(w) PROVE RunInv'
  <2> DEFINE r == [pc |-> "claimed", build |-> build.revision]
  <2>1. runWorker' = [runWorker EXCEPT ![w] = r] /\ runLease' = w /\ UNCHANGED <<runEvents, runCheckpoint>>
    BY <1>1 DEF ClaimRun
  <2>2. r \in RunSteps /\ r.pc = "claimed"
    BY DEF ProductInv, ProductTypeOK, RunSteps
  <2> HIDE DEF r
  <2>3. RunTypeOK'
    BY <2>1, <2>2 DEF RunInv, RunTypeOK
  <2>4. EventsBound' /\ CheckpointBound'
    BY <2>1, EventsStay DEF RunInv
  <2>5. \A v \in RunWorkers : HoldsRun(v)' => v = w
    BY <2>1 DEF HoldsRun
  <2>6. runWorker'[w].pc = "claimed"
    BY <2>1, <2>2 DEF RunInv, RunTypeOK
  <2>7. WorkerBound'
    BY <2>5, <2>6 DEF WorkerBound, Fits
  <2> QED BY <2>3, <2>4, <2>7 DEF RunInv
<1>2. CASE LeaseExpires
  <2>1. runLease' = 0 /\ UNCHANGED <<runEvents, runCheckpoint, runWorker>>
    BY <1>2 DEF LeaseExpires
  <2>2. RunTypeOK'
    BY <2>1 DEF RunInv, RunTypeOK
  <2>3. EventsBound' /\ CheckpointBound'
    BY <2>1, EventsStay DEF RunInv
  <2>4. \A v \in RunWorkers : ~HoldsRun(v)'
    BY <2>1, ZeroIsNoWorker DEF HoldsRun
  <2>5. WorkerBound'
    BY <2>4 DEF WorkerBound
  <2> QED BY <2>2, <2>3, <2>5 DEF RunInv
<1>3. CASE UNCHANGED <<runEvents, runCheckpoint, runLease, runWorker>>
  <2>1. EventsBound' /\ CheckpointBound'
    BY <1>3, EventsStay DEF RunInv
  <2>2. Pins' = Pins /\ Loads' = Loads
    BY <1>3 DEF Pins, Loads, EventsOf
  <2> QED BY <1>3, <2>1, <2>2 DEF RunInv, RunTypeOK, WorkerBound, Fits, PinnedTo, HoldsRun
<1>4. (\E r \in Revisions : Deploy(r)) \/ ToggleConnection => UNCHANGED <<runEvents, runCheckpoint, runLease, runWorker>>
  BY DEF Deploy, ToggleConnection
<1>5. ASSUME NEW q \in SkillRequests,
             \/ \E op \in {"install", "enable", "disable", "update", "rollback", "remove"}, s \in Scopes, e \in Revisions :
                  StartRequest(q, op, s, e)
             \/ InstallSkill(q) \/ UpdateSkill(q) \/ RollbackSkill(q) \/ CheckInstallation(q) \/ SetEnabled(q) \/ RemoveSkill(q)
      PROVE  UNCHANGED <<runEvents, runCheckpoint, runLease, runWorker>>
  BY <1>5 DEF StartRequest, InstallSkill, UpdateSkill, RollbackSkill, CheckInstallation, SetEnabled, RemoveSkill
<1>6. UNCHANGED runSkillVars => UNCHANGED <<runEvents, runCheckpoint, runLease, runWorker>>
  BY DEF runSkillVars
<1> QED
  BY <1>1, <1>2, <1>3, <1>4, <1>5, <1>6, CheckpointReadKeeps, ResolveKeeps, ReadsKeep, SelectKeeps, BlockedKeeps, SelectedKeeps, LoadedKeeps,
     CheckpointSavedKeeps, AnswerKeeps DEF RunSkillNext

\* Whatever is deployed, installed, updated or removed meanwhile, and however often the lease of a run changes
\* hands, the run follows one revision of its skill, from a checkpoint or without one, and every answer given
\* after a load has a result that names the revision in the context that wrote it (agent.ts 47-102,
\* run-skills.ts 140-246, neon-store.ts 261-362, skill-product-store.ts 109-261).
THEOREM RevisionHolds == RunSkillSpec => []OneRevisionPerRun
<1>1. RunSkillInit => RunInv
  <2> SUFFICES ASSUME RunSkillInit PROVE RunInv
    OBVIOUS
  <2>1. /\ runEvents = <<>> /\ runLease = 0 /\ runWorker = [w \in RunWorkers |-> [pc |-> "new"]]
        /\ runCheckpoint = [saved |-> FALSE, revision |-> 0]
    BY DEF RunSkillInit
  <2>2. RunTypeOK
    BY <2>1 DEF RunTypeOK, RunSteps
  <2>3. \A types : EventsOf(types) = {}
    BY <2>1 DEF EventsOf
  <2>4. EventsBound /\ CheckpointBound
    BY <2>1, <2>3 DEF EventsBound, CheckpointBound, OnePin, ResultsFollowAnswers, ResultsFollowLoads, AnswersHaveResults, Pins, Loads
  <2>5. WorkerBound
    BY <2>1, ZeroIsNoWorker DEF WorkerBound, HoldsRun
  <2> QED BY <2>2, <2>4, <2>5 DEF RunInv
<1>2. ProductInv /\ RunInv /\ [RunSkillNext]_runSkillVars => (ProductInv /\ RunInv)'
  BY ProductStep, RunStep
<1>3. ProductInv /\ RunInv => OneRevisionPerRun
  <2> SUFFICES ASSUME ProductInv, RunInv PROVE OneRevisionPerRun
    OBVIOUS
  <2>1. \A i \in DOMAIN runEvents : runEvents[i].type \in PinTypes => i \in Pins
    BY DEF Pins, EventsOf
  <2>2. \A i \in DOMAIN runEvents : runEvents[i].type = "skill.result" => i \in EventsOf({"skill.result"})
    BY DEF EventsOf
  <2>3. \A i, j \in DOMAIN runEvents :
          {runEvents[i].type, runEvents[j].type} \subseteq {"skill.selected", "skill.loaded", "skill.result"}
            => runEvents[i].revision = runEvents[j].revision
    BY <2>1 DEF RunInv, EventsBound, OnePin, PinTypes
  <2>4. \A i \in DOMAIN runEvents : runCheckpoint.saved /\ runEvents[i].type \in {"skill.selected", "skill.loaded", "skill.result"}
          => runEvents[i].revision = runCheckpoint.revision
    BY <2>1 DEF RunInv, CheckpointBound, PinnedTo, PinTypes
  <2>5. \A i \in DOMAIN runEvents : runEvents[i].type = "skill.result"
          => i > 1 /\ runEvents[i - 1].type = "answer" /\ runEvents[i - 1].revision = runEvents[i].revision
    BY <2>2 DEF RunInv, EventsBound, ResultsFollowAnswers
  <2>6. \A i, j \in DOMAIN runEvents : i < j /\ runEvents[i].type = "skill.loaded" /\ runEvents[j].type = "answer"
          => j < Len(runEvents) /\ runEvents[j + 1].type = "skill.result"
    BY DEF RunInv, EventsBound, AnswersHaveResults, Loads, EventsOf
  <2>7. \A s \in Scopes : installs[s] # NotInstalled
          => {installs[s].revision, installs[s].previous} \subseteq build.deployed \cup {0}
    BY DEF ProductInv, InstalledWasDeployed
  <2> QED BY <2>3, <2>4, <2>5, <2>6, <2>7 DEF OneRevisionPerRun
<1> QED BY <1>1, <1>2, <1>3, ProductStart, PTL DEF RunSkillSpec

-----------------------------------------------------------------------------
(* The verification gate (verification/engine.ts, verification/reviewer.ts) *)

\* What a function makes of a finite set is finite.
LEMMA FiniteRange ==
  ASSUME NEW S, IsFiniteSet(S), NEW f, DOMAIN f = S, f = [x \in S |-> f[x]]
  PROVE  IsFiniteSet({f[x] : x \in S})
<1> DEFINE T == {f[x] : x \in S}
<1>1. f \in [S -> T]
  OBVIOUS
<1>2. f \in Surjection(S, T)
  BY <1>1 DEF Surjection
<1> QED BY <1>2, FS_Surjection

\* What a verification without findings has found out about one claim.
LEMMA NoFindings ==
  ASSUME NEW r, GateTyped(r), Findings(r) = {}
  PROVE  /\ r.claims # <<>> /\ Duplicated(r.claims) = {} /\ Duplicated(r.evidence) = {} /\ Contradictory(r) = {}
         /\ \A e \in ToSet(r.evidence) : EnvelopeFindings(r, e) = {}
         /\ \A c \in ToSet(r.claims) : BoundFindings(r, c) = {}
<1>1. /\ ~(r.claims = <<>> \/ Duplicated(r.claims) # {})
      /\ ~(Duplicated(r.evidence) # {}) /\ ~(Contradictory(r) # {})
  BY DEF Findings
<1>2. UNION {EnvelopeFindings(r, e) : e \in ToSet(r.evidence)} \subseteq Findings(r)
  BY DEF Findings
<1>3. ASSUME NEW c \in ToSet(r.claims), NEW x \in BoundFindings(r, c) PROVE x \in Findings(r)
  <2>1. x \in ClaimsFindings(r)
    BY <1>3 DEF ClaimsFindings
  <2> QED BY <2>1 DEF Findings
<1> QED BY <1>1, <1>2, <1>3

LEMMA FreshEvidence ==
  ASSUME NEW r, GateTyped(r), NEW e \in ToSet(r.evidence), EnvelopeFindings(r, e) = {}
  PROVE  e.mission = r.mission /\ e.status = "PASS" /\ e.observed <= r.at /\ r.at - e.observed <= MaxEvidenceAge
<1>1. e.observed \in Int /\ r.at \in Int
  BY DEF GateTyped
<1>2. e.mission = r.mission /\ e.status = "PASS" /\ ~(e.observed > r.at) /\ ~(r.at - e.observed > MaxEvidenceAge)
  BY DEF EnvelopeFindings
<1> QED BY <1>1, <1>2, GateAssumption

LEMMA AllValid ==
  ASSUME NEW r, GateTyped(r), Findings(r) = {}
  PROVE  /\ Uniquely(r.evidence) = ToSet(r.evidence)
         /\ \A e \in ToSet(r.evidence) : e.id \in ValidEvidence(r)
<1>1. Uniquely(r.evidence) = ToSet(r.evidence)
  BY NoFindings DEF Uniquely
<1>2. \A e \in ToSet(r.evidence) : EnvelopeFindings(r, e) = {}
  BY NoFindings
<1>3. Duplicated(r.evidence) \cup Contradictory(r) = {}
  BY NoFindings
<1> QED BY <1>1, <1>2, <1>3 DEF ValidEvidence

LEMMA ClaimFound ==
  ASSUME NEW r, GateTyped(r), Findings(r) = {}, NEW c \in ToSet(r.claims)
  PROVE  /\ c.mission = r.mission /\ c.kinds # {} /\ ClaimFindings(r, c) = {}
         /\ Bound(r, c.id) # {} /\ Bound(r, c.id) \subseteq {e.id : e \in ToSet(r.evidence)}
         /\ \A e \in ToSet(r.evidence) : e.id \in Bound(r, c.id) => AcceptFindings(c, e) = {}
         /\ c.kinds \subseteq AcceptedKinds(r, c)
<1>1. BoundFindings(r, c) = {}
  BY NoFindings
<1>2. ClaimFindings(r, c) = {} /\ Bound(r, c.id) # {}
  BY <1>1 DEF BoundFindings
<1>3. c.mission = r.mission /\ c.kinds # {}
  BY <1>2 DEF ClaimFindings
<1>4. Uniquely(r.evidence) = ToSet(r.evidence) /\ \A e \in ToSet(r.evidence) : e.id \in ValidEvidence(r)
  BY AllValid
<1>5. /\ Bound(r, c.id) \subseteq {e.id : e \in Uniquely(r.evidence)}
      /\ UNION {AcceptFindings(c, e) : e \in {x \in Uniquely(r.evidence) : x.id \in Bound(r, c.id) \cap ValidEvidence(r)}} = {}
      /\ c.kinds \subseteq AcceptedKinds(r, c)
  <2>1. Bound(r, c.id) \subseteq {e.id : e \in Uniquely(r.evidence)}
    BY <1>1, <1>2 DEF BoundFindings
  <2>2. UNION {AcceptFindings(c, e) : e \in {x \in Uniquely(r.evidence) : x.id \in Bound(r, c.id) \cap ValidEvidence(r)}} = {}
    BY <1>1, <1>2 DEF BoundFindings
  <2>3. c.kinds \subseteq AcceptedKinds(r, c)
    <3>1. ~(c.kinds \subseteq AcceptedKinds(r, c)) => "evidence_kind_mismatch" \in BoundFindings(r, c)
      BY <1>2 DEF BoundFindings
    <3> QED BY <1>1, <3>1
  <2> QED BY <2>1, <2>2, <2>3
<1>6. \A e \in ToSet(r.evidence) : e.id \in Bound(r, c.id) => AcceptFindings(c, e) = {}
  BY <1>4, <1>5
<1> QED BY <1>2, <1>3, <1>4, <1>5, <1>6

LEMMA AcceptedFacts ==
  ASSUME NEW r, GateTyped(r), NEW c \in ToSet(r.claims), NEW e \in ToSet(r.evidence), AcceptFindings(c, e) = {}
  PROVE  e.task = c.task /\ e.kind \in c.kinds /\ c.after <= e.observed
<1>1. e.observed \in Int /\ c.after \in Int
  BY DEF GateTyped
<1>2. e.task = c.task /\ e.kind \in c.kinds /\ ~(e.observed < c.after)
  BY DEF AcceptFindings
<1> QED BY <1>1, <1>2

\* What no finding speaks against is supported.
LEMMA FoundSupported ==
  ASSUME NEW r, GateTyped(r), Findings(r) = {}
  PROVE  Supported(r)
<1>1. r.claims # <<>>
  BY NoFindings
<1>2. ASSUME NEW c \in ToSet(r.claims), NEW kind \in c.kinds
      PROVE  \E e \in ToSet(r.evidence) :
               /\ e.id \in UNION {r.bindings[i].evidence : i \in BindingsOf(r, c.id)}
               /\ e.mission = r.mission /\ e.task = c.task /\ e.kind = kind /\ e.status = "PASS"
               /\ c.after <= e.observed /\ e.observed <= r.at /\ r.at - e.observed <= MaxEvidenceAge
               /\ \A f \in ToSet(r.evidence) : SameScope(e, f) => f.status = "PASS"
  <2>1. PICK e \in Accepted(r, c) : e.kind = kind
    BY <1>2, ClaimFound DEF AcceptedKinds
  <2>2. e \in ToSet(r.evidence) /\ e.id \in Bound(r, c.id) /\ AcceptFindings(c, e) = {}
    BY <2>1 DEF Accepted, Uniquely
  <2>3. e.id \in UNION {r.bindings[i].evidence : i \in BindingsOf(r, c.id)}
    BY <2>2 DEF Bound
  <2>4. \A f \in ToSet(r.evidence) : EnvelopeFindings(r, f) = {}
    BY NoFindings
  <2>5. e.mission = r.mission /\ e.status = "PASS" /\ e.observed <= r.at /\ r.at - e.observed <= MaxEvidenceAge
    BY <2>2, <2>4, FreshEvidence
  <2>6. \A f \in ToSet(r.evidence) : f.status = "PASS"
    BY <2>4, FreshEvidence
  <2>7. e.task = c.task /\ c.after <= e.observed
    BY <2>2, AcceptedFacts
  <2> QED BY <2>1, <2>2, <2>3, <2>5, <2>6, <2>7
<1>3. \A c \in ToSet(r.claims) : c.mission = r.mission /\ c.kinds # {}
  BY ClaimFound
<1> QED BY <1>1, <1>2, <1>3 DEF Supported

\* ... and every claim is satisfied.
LEMMA FoundSatisfied ==
  ASSUME NEW r, GateTyped(r), Findings(r) = {}
  PROVE  Satisfied(r) = Ids(r.claims)
<1>1. Uniquely(r.claims) = ToSet(r.claims)
  BY NoFindings DEF Uniquely
<1>2. ASSUME NEW c \in ToSet(r.claims)
      PROVE  /\ ClaimFindings(r, c) = {} /\ Bound(r, c.id) # {}
             /\ Bound(r, c.id) = {e.id : e \in Accepted(r, c)}
             /\ c.kinds = AcceptedKinds(r, c)
  <2>1. \A e \in Accepted(r, c) : e \in ToSet(r.evidence) /\ e.id \in Bound(r, c.id) /\ AcceptFindings(c, e) = {}
    BY DEF Accepted, Uniquely
  <2>2. \A e \in ToSet(r.evidence) : e.id \in Bound(r, c.id) => e \in Accepted(r, c)
    <3>1. \A e \in ToSet(r.evidence) : e.id \in Bound(r, c.id) => AcceptFindings(c, e) = {}
      BY ClaimFound
    <3>2. \A e \in ToSet(r.evidence) : e \in Uniquely(r.evidence) /\ e.id \in ValidEvidence(r)
      BY AllValid
    <3> QED BY <3>1, <3>2 DEF Accepted
  <2>3. Bound(r, c.id) \subseteq {e.id : e \in ToSet(r.evidence)} /\ c.kinds \subseteq AcceptedKinds(r, c)
    BY ClaimFound
  <2>4. \A e \in Accepted(r, c) : e.kind \in c.kinds
    BY <2>1, AcceptedFacts
  <2>5. ClaimFindings(r, c) = {} /\ Bound(r, c.id) # {}
    BY ClaimFound
  <2> QED BY <2>1, <2>2, <2>3, <2>4, <2>5 DEF AcceptedKinds
<1>3. Ids(r.claims) = {c.id : c \in ToSet(r.claims)}
  BY DEF Ids, ToSet
<1> QED BY <1>1, <1>2, <1>3 DEF Satisfied

\* With the built-in reviewer a pass has no warning.
LEMMA NoWarnings ==
  ASSUME NEW r, GateTyped(r), Warnings(r) = {}
  PROVE  \A e \in ToSet(r.evidence) : e.class = "independent_tool" /\ Cardinality(TasksOn(r, e.id)) <= 1
<1> SUFFICES ASSUME NEW e \in ToSet(r.evidence) PROVE e.class = "independent_tool" /\ Cardinality(TasksOn(r, e.id)) <= 1
  OBVIOUS
<1>1. e.class \in EvidenceClasses
  BY DEF GateTyped
<1>2. e.class \notin {"planner", "runtime", "external"}
  BY DEF Warnings
<1>3. Cardinality(TasksOn(r, e.id)) <= 1
  <2>1. IsFiniteSet(TasksOn(r, e.id))
    <3>1. IsFiniteSet(ToSet(r.claims))
      <4>1. IsFiniteSet(DOMAIN r.claims)
        BY DEF GateTyped
      <4>0. PICK f : f = [i \in DOMAIN r.claims |-> r.claims[i]]
        OBVIOUS
      <4>4. DOMAIN f = DOMAIN r.claims /\ f = [i \in DOMAIN r.claims |-> f[i]]
        BY <4>0
      <4>2. IsFiniteSet({f[i] : i \in DOMAIN r.claims})
        BY <4>1, <4>4, FiniteRange
      <4>3. {f[i] : i \in DOMAIN r.claims} = ToSet(r.claims)
        BY <4>0 DEF ToSet
      <4> QED BY <4>2, <4>3
    <3>2. IsFiniteSet({x \in ToSet(r.claims) : x.id \in ClaimsOn(r, e.id)})
      BY <3>1, FS_Subset
    <3> DEFINE C == {x \in ToSet(r.claims) : x.id \in ClaimsOn(r, e.id)}
    <3>0. PICK f : f = [c \in C |-> c.task]
      OBVIOUS
    <3>5. DOMAIN f = C /\ f = [c \in C |-> f[c]]
      BY <3>0
    <3> HIDE DEF C
    <3>3. IsFiniteSet({f[c] : c \in C})
      BY <3>5, <3>2, FiniteRange DEF C
    <3>4. {f[c] : c \in C} = TasksOn(r, e.id)
      BY <3>0 DEF TasksOn, C
    <3> QED BY <3>3, <3>4
  <2>2. Cardinality(TasksOn(r, e.id)) \in Nat
    BY <2>1, FS_CardinalityType
  <2>3. CASE e.id \in UNION {r.bindings[i].evidence : i \in DOMAIN r.bindings}
    <3>1. {<<"evidence_reused", ClaimsOn(r, id)>> : id \in {x \in UNION {r.bindings[i].evidence : i \in DOMAIN r.bindings} : Cardinality(TasksOn(r, x)) > 1}} = {}
      BY DEF Warnings
    <3>2. ~(Cardinality(TasksOn(r, e.id)) > 1)
      BY <2>3, <3>1
    <3> QED BY <2>2, <3>2
  <2>4. CASE e.id \notin UNION {r.bindings[i].evidence : i \in DOMAIN r.bindings}
    <3>1. ClaimsOn(r, e.id) = {}
      BY <2>4 DEF ClaimsOn
    <3>2. TasksOn(r, e.id) = {}
      BY <3>1 DEF TasksOn
    <3> QED BY <3>2, FS_EmptySet
  <2> QED BY <2>3, <2>4
<1> QED BY <1>1, <1>2, <1>3 DEF EvidenceClasses

\* Nothing but a verification without findings leads to a pass or to a repair.
LEMMA OutcomeFound ==
  ASSUME NEW r, NEW review, Outcome(r, review) \in {"PASS", "REPAIR_REQUIRED"}
  PROVE  Findings(r) = {} /\ NormalizeReview(r, review).verdict # "BLOCK"
<1> QED BY DEF Outcome

LEMMA BuiltInPasses ==
  ASSUME NEW r, GateTyped(r), Outcome(r, BuiltInReview(r, Findings(r))) = "PASS"
  PROVE  Warnings(r) = {}
<1>1. Findings(r) = {} /\ NormalizeReview(r, BuiltInReview(r, Findings(r))).verdict \notin {"BLOCK", "REPAIR_REQUIRED"}
  BY DEF Outcome
<1>2. BuiltInReview(r, Findings(r)).verdict = "ACCEPT"
  <2>1. NormalizeReview(r, BuiltInReview(r, Findings(r))) = BuiltInReview(r, Findings(r))
    BY <1>1 DEF NormalizeReview
  <2>2. BuiltInReview(r, Findings(r)).verdict \in {"BLOCK", "REPAIR_REQUIRED", "ACCEPT"}
    BY DEF BuiltInReview
  <2> QED BY <1>1, <2>1, <2>2
<1> QED BY <1>2 DEF BuiltInReview

\* A gate that has not answered has used no reviewer.
GateInv ==
  /\ \E r : GateTyped(r) /\ gate.request = r
  /\ gate = [request |-> gate.request, outcome |-> gate.outcome, builtIn |-> gate.builtIn]
  /\ gate.outcome = "none" => gate.builtIn = FALSE
  /\ GateSound

LEMMA GateInitially ==
  ASSUME GateInit PROVE GateInv
<1>1. gate.request \in GateRequests /\ gate.outcome = "none" /\ gate.builtIn = FALSE
      /\ gate = [request |-> gate.request, outcome |-> gate.outcome, builtIn |-> gate.builtIn]
  BY DEF GateInit
<1> QED BY <1>1, GateAssumption DEF GateInv, GateSound

\* One verification.
LEMMA VerifySound ==
  ASSUME GateInv, GateNext PROVE GateInv'
<1> DEFINE r == gate.request
<1>0. GateTyped(r) /\ gate.builtIn = FALSE /\ gate = [request |-> r, outcome |-> gate.outcome, builtIn |-> gate.builtIn]
  BY DEF GateInv, GateNext, Verify
<1>1. \E review : \/ gate' = [gate EXCEPT !.outcome = Outcome(r, review), !.builtIn = TRUE] /\ review = BuiltInReview(r, Findings(r))
                  \/ gate' = [gate EXCEPT !.outcome = Outcome(r, review)]
  BY DEF GateNext, Verify
<1>2. PICK review : \/ gate' = [gate EXCEPT !.outcome = Outcome(r, review), !.builtIn = TRUE] /\ review = BuiltInReview(r, Findings(r))
                    \/ gate' = [gate EXCEPT !.outcome = Outcome(r, review)]
  BY <1>1
<1>3. PICK o : o = Outcome(r, review)
  OBVIOUS
<1>4. /\ gate'.request = r /\ gate'.outcome = o
      /\ gate'.builtIn = FALSE \/ (gate'.builtIn = TRUE /\ review = BuiltInReview(r, Findings(r)))
      /\ gate' = [request |-> gate'.request, outcome |-> gate'.outcome, builtIn |-> gate'.builtIn]
  BY <1>0, <1>2, <1>3
<1>5. o \in {"PASS", "REPAIR_REQUIRED"} => Supported(r) /\ Satisfied(r) = Ids(r.claims)
  BY <1>0, <1>3, OutcomeFound, FoundSupported, FoundSatisfied
<1>6. o = "PASS" /\ gate'.builtIn => \A e \in ToSet(r.evidence) : e.class = "independent_tool" /\ Cardinality(TasksOn(r, e.id)) <= 1
  BY <1>0, <1>3, <1>4, BuiltInPasses, NoWarnings
<1>7. GateSound'
  BY <1>4, <1>5, <1>6 DEF GateSound
<1>8. o # "none"
  BY <1>3 DEF Outcome
<1> QED BY <1>0, <1>4, <1>7, <1>8 DEF GateInv

-----------------------------------------------------------------------------
(* The reliability controller (reliability/controller.ts) *)

\* A set of positions that is not empty has a least one.
LEMMA LeastPosition ==
  ASSUME NEW S, S \subseteq Nat, S # {}
  PROVE  \E x \in S : \A y \in S : x <= y
<1> DEFINE R == OpToRel(<, Nat)
<1>1. PICK x \in S : \A y \in S : ~(<<y, x>> \in R)
  <2> HIDE DEF R
  <2>1. IsWellFoundedOn(R, Nat)
    BY NatLessThanWellFounded DEF R
  <2> QED BY <2>1, WFMin
<1>2. \A y \in S : y < x => <<y, x>> \in R
  BY DEF OpToRel
<1> HIDE DEF R
<1>3. \A y \in S : ~(y < x)
  BY <1>1, <1>2
<1> QED BY <1>3

\* What may be decided about a failure, by its category and its side effects.
AllowedFor(s) ==
  {a \in Actions :
     /\ s.sideEffect = "IRREVERSIBLE_OR_UNKNOWN" => a \in {"CHECKPOINT_AND_BLOCK", "STOP_CANCELLED"}
     /\ Category(s) \in {"POLICY", "BUDGET"} => a = "CHECKPOINT_AND_BLOCK"
     /\ a = "TARGETED_RETRY" => s.retryable /\ ~s.rollback
     /\ s.rollback => a \in {"ROLLBACK", "CHECKPOINT_AND_BLOCK", "STOP_CANCELLED"}}

LEMMA OneCandidate ==
  ASSUME NEW S, NEW a \in S PROVE <<a>> \in Seq(S)
OBVIOUS

LEMMA MaybeCandidate ==
  ASSUME NEW S, NEW a, NEW condition, condition => a \in S PROVE If(condition, <<a>>) \in Seq(S)
<1>1. CASE condition
  BY <1>1 DEF If
<1>2. CASE ~condition
  BY <1>2 DEF If
<1> QED BY <1>1, <1>2

LEMMA BothCandidates ==
  ASSUME NEW S, NEW p \in Seq(S), NEW q \in Seq(S) PROVE p \o q \in Seq(S)
OBVIOUS

\* candidatesFor never offers what must not be done.
LEMMA CandidatesAllowed ==
  ASSUME NEW s, SignalOk(s), NEW capable
  PROVE  Candidates(s, capable) \in Seq(AllowedFor(s))
<1> DEFINE category == Category(s)
           blocked == category \in {"POLICY", "BUDGET"} \/ (category # "CANCELLED" /\ s.sideEffect = "IRREVERSIBLE_OR_UNKNOWN")
<1>1. CASE category = "CANCELLED"
  <2>1. "STOP_CANCELLED" \in AllowedFor(s)
    BY <1>1 DEF AllowedFor, Actions
  <2>2. Candidates(s, capable) = <<"STOP_CANCELLED">>
    BY <1>1 DEF Candidates
  <2> QED BY <2>1, <2>2, OneCandidate
<1>2. CASE category # "CANCELLED" /\ blocked
  <2>1. "CHECKPOINT_AND_BLOCK" \in AllowedFor(s)
    BY DEF AllowedFor, Actions
  <2>2. Candidates(s, capable) = <<"CHECKPOINT_AND_BLOCK">>
    BY <1>2 DEF Candidates
  <2> QED BY <2>1, <2>2, OneCandidate
<1>3. CASE category # "CANCELLED" /\ ~blocked
  <2>0. /\ s.sideEffect # "IRREVERSIBLE_OR_UNKNOWN" /\ category \notin {"POLICY", "BUDGET"}
        /\ \A a \in Actions \ {"TARGETED_RETRY"} : ~s.rollback => a \in AllowedFor(s)
        /\ "CHECKPOINT_AND_BLOCK" \in AllowedFor(s)
        /\ s.retryable /\ ~s.rollback => "TARGETED_RETRY" \in AllowedFor(s)
    BY <1>3 DEF AllowedFor, Actions, Budgeted
  <2>a. ~s.rollback => {"ROLLBACK", "REDUCE_CONTEXT", "ESCALATE_MODEL", "ESCALATE_VERIFIER", "TARGETED_REPAIR", "ALTERNATIVE_PLAN"} \subseteq AllowedFor(s)
    BY <2>0 DEF Actions, Budgeted
  <2>1. CASE s.sideEffect = "REVERSIBLE" /\ s.rollback
    <3>1. "ROLLBACK" \in AllowedFor(s)
      BY <1>3, <2>1 DEF AllowedFor, Actions, Budgeted
    <3>2. Candidates(s, capable) = <<"ROLLBACK", "CHECKPOINT_AND_BLOCK">>
      BY <1>3, <2>1 DEF Candidates
    <3>3. <<"ROLLBACK", "CHECKPOINT_AND_BLOCK">> \in Seq(AllowedFor(s))
      BY <2>0, <3>1
    <3> QED BY <3>2, <3>3
  <2>2. CASE ~s.rollback
    <3> DEFINE model == If("model" \in capable, <<"ESCALATE_MODEL">>)
               verifier == If("verifier" \in capable, <<"ESCALATE_VERIFIER">>)
    <3>1. model \in Seq(AllowedFor(s)) /\ verifier \in Seq(AllowedFor(s))
      <4> QED BY <2>2, <2>a, MaybeCandidate
    <3>2. CASE category = "CONTEXT"
      <4>1. Candidates(s, capable) = If("context" \in capable, <<"REDUCE_CONTEXT">>) \o If(s.retryable, <<"TARGETED_RETRY">>) \o model
        BY <1>3, <2>2, <3>2 DEF Candidates
      <4> HIDE DEF model
      <4>2. If("context" \in capable, <<"REDUCE_CONTEXT">>) \in Seq(AllowedFor(s)) /\ If(s.retryable, <<"TARGETED_RETRY">>) \in Seq(AllowedFor(s))
        BY <2>0, <2>2, <2>a, MaybeCandidate
      <4> QED BY <3>1, <4>1, <4>2, BothCandidates
    <3>3. CASE category = "TRANSIENT"
      <4>1. Candidates(s, capable) = IF ~s.retryable \/ s.sideEffect = "REVERSIBLE" THEN <<"CHECKPOINT_AND_BLOCK">>
                                     ELSE <<"TARGETED_RETRY">> \o model
        BY <1>3, <2>2, <3>3 DEF Candidates
      <4> HIDE DEF model
      <4>2. CASE ~s.retryable \/ s.sideEffect = "REVERSIBLE"
        BY <2>0, <4>1, <4>2, OneCandidate
      <4>3. CASE ~(~s.retryable \/ s.sideEffect = "REVERSIBLE")
        <5>1. <<"TARGETED_RETRY">> \in Seq(AllowedFor(s))
          BY <2>0, <2>2, <4>3
        <5> QED BY <3>1, <4>1, <4>3, <5>1, BothCandidates
      <4> QED BY <4>2, <4>3
    <3>4. CASE category = "VERIFICATION"
      <4>1. Candidates(s, capable) =
              IF s.contradictory /\ "verifier" \in capable THEN <<"ESCALATE_VERIFIER", "CHECKPOINT_AND_BLOCK">>
              ELSE <<"TARGETED_REPAIR">> \o verifier \o model
        BY <1>3, <2>2, <3>4 DEF Candidates
      <4> HIDE DEF model, verifier
      <4>2. <<"ESCALATE_VERIFIER", "CHECKPOINT_AND_BLOCK">> \in Seq(AllowedFor(s)) /\ <<"TARGETED_REPAIR">> \in Seq(AllowedFor(s))
        BY <2>0, <2>2, <2>a
      <4> QED BY <3>1, <4>1, <4>2, BothCandidates
    <3>5. CASE category \in {"PLAN", "CONFLICT"}
      <4>1. Candidates(s, capable) = <<"ALTERNATIVE_PLAN">> \o model
        BY <1>3, <2>2, <3>5 DEF Candidates
      <4> HIDE DEF model
      <4>2. <<"ALTERNATIVE_PLAN">> \in Seq(AllowedFor(s))
        BY <2>2, <2>a
      <4> QED BY <3>1, <4>1, <4>2, BothCandidates
    <3>6. CASE category \notin {"CONTEXT", "TRANSIENT", "VERIFICATION", "PLAN", "CONFLICT"}
      <4>1. Candidates(s, capable) = model \o <<"CHECKPOINT_AND_BLOCK">>
        BY <1>3, <2>2, <3>6 DEF Candidates
      <4> HIDE DEF model
      <4>2. <<"CHECKPOINT_AND_BLOCK">> \in Seq(AllowedFor(s))
        BY <2>0
      <4> QED BY <3>1, <4>1, <4>2, BothCandidates
    <3> QED BY <3>2, <3>3, <3>4, <3>5, <3>6
  <2> QED BY <2>1, <2>2 DEF SignalOk
<1> QED BY <1>1, <1>2, <1>3

Blocking == {"CHECKPOINT_AND_BLOCK", "STOP_CANCELLED"}

\* decide: what may be done, is within its budget and has not failed too often; or the work is blocked.
LEMMA DecideSafe ==
  ASSUME NEW s, SignalOk(s), NEW attempts, NEW budget, NEW capable, NEW a, a = Decide(s, attempts, budget, capable)
  PROVE  a \in AllowedFor(s) /\ (a \notin Blocking => ~IsExhausted(a, budget) /\ ~Repeats(a, s, attempts))
<1>0. PICK candidates : candidates = Candidates(s, capable)
  OBVIOUS
<1>1. candidates \in Seq(AllowedFor(s))
  BY <1>0, CandidatesAllowed
<1> DEFINE safe == {i \in DOMAIN candidates : ~IsExhausted(candidates[i], budget) /\ ~Repeats(candidates[i], s, attempts)}
<1>2. a = FirstOf(candidates, safe, s)
  BY <1>0 DEF Decide
<1>3. CASE safe = {}
  <2>1. a = IF Category(s) = "CANCELLED" THEN "STOP_CANCELLED" ELSE "CHECKPOINT_AND_BLOCK"
    BY <1>2, <1>3 DEF FirstOf
  <2> QED BY <2>1 DEF AllowedFor, Actions, Blocking
<1>4. CASE safe # {}
  <2>1. safe \subseteq Nat
    BY <1>1
  <2>2. \E i \in safe : \A j \in safe : i <= j
    BY <1>4, <2>1, LeastPosition
  <2>3. PICK i \in safe : a = candidates[i]
    BY <1>2, <1>4, <2>2 DEF FirstOf
  <2>4. candidates[i] \in AllowedFor(s)
    BY <1>1, <2>3
  <2> QED BY <2>3, <2>4
<1> QED BY <1>3, <1>4

-----------------------------------------------------------------------------
\* What is decided and not yet carried out is allowed, within its budget and not a repetition.
RecoveryInv ==
  /\ \E S : recovery.attempts \in Seq(S)
  /\ SignalOk(recovery.signal) /\ recovery.budget \in [Budgeted -> Nat]
  /\ recovery = [signal |-> recovery.signal, capable |-> recovery.capable, budget |-> recovery.budget, attempts |-> recovery.attempts]
  /\ decided \in Actions =>
       /\ decided \in AllowedFor(recovery.signal)
       /\ decided \notin Blocking => ~IsExhausted(decided, recovery.budget) /\ ~Repeats(decided, recovery.signal, recovery.attempts)
  /\ \A i \in DOMAIN recovery.attempts : ~Repeats(recovery.attempts[i][2], recovery.signal, SubSeq(recovery.attempts, 1, i - 1))

LEMMA RecoveryInitially ==
  ASSUME RecoveryInit PROVE RecoveryInv
<1>1. /\ recovery.attempts = <<>> /\ SignalOk(recovery.signal) /\ recovery.budget \in RecoveryBudgets /\ decided = "none"
      /\ recovery = [signal |-> recovery.signal, capable |-> recovery.capable, budget |-> recovery.budget, attempts |-> recovery.attempts]
  BY DEF RecoveryInit
<1>2. decided \notin Actions
  BY <1>1 DEF Actions, Budgeted
<1>3. recovery.attempts \in Seq(STRING) /\ DOMAIN recovery.attempts = {}
  BY <1>1
<1> QED BY <1>1, <1>2, <1>3, ReliabilityAssumption DEF RecoveryInv

LEMMA DecideRecoveryInv ==
  ASSUME RecoveryInv, DecideRecovery PROVE RecoveryInv'
<1>1. decided' = Decide(recovery.signal, recovery.attempts, recovery.budget, recovery.capable) /\ UNCHANGED recovery
  BY DEF DecideRecovery
<1>2. SignalOk(recovery.signal)
  BY DEF RecoveryInv
<1>3. PICK a : a = Decide(recovery.signal, recovery.attempts, recovery.budget, recovery.capable)
  OBVIOUS
<1>4. a \in AllowedFor(recovery.signal) /\ (a \notin Blocking => ~IsExhausted(a, recovery.budget) /\ ~Repeats(a, recovery.signal, recovery.attempts))
  BY <1>2, <1>3, DecideSafe
<1>5. decided' = a
  BY <1>1, <1>3
<1>6. AllowedFor(recovery.signal)' = AllowedFor(recovery.signal)
  BY <1>1
<1> QED BY <1>1, <1>4, <1>5, <1>6 DEF RecoveryInv

LEMMA AttemptEndsInv ==
  ASSUME RecoveryInv, NEW outcome, AttemptEnds(outcome) PROVE RecoveryInv'
<1> DEFINE s == recovery.signal
           old == recovery.attempts
           e == <<s, decided, outcome>>
<1>0. PICK b : b = [a \in Budgeted |-> IF a = decided THEN recovery.budget[a] - 1 ELSE recovery.budget[a]]
  OBVIOUS
<1>1. /\ decided \in Actions /\ decided \notin Blocking
      /\ recovery' = [recovery EXCEPT !.attempts = Append(old, e), !.budget = b]
      /\ decided' \notin Actions
  BY <1>0 DEF AttemptEnds, Blocking, Actions, Budgeted
<1>2. recovery'.signal = s /\ recovery'.attempts = Append(old, e) /\ recovery'.budget = b
      /\ recovery' = [signal |-> recovery'.signal, capable |-> recovery'.capable, budget |-> recovery'.budget, attempts |-> recovery'.attempts]
  BY <1>1 DEF RecoveryInv
<1>3. SignalOk(s) /\ recovery.budget \in [Budgeted -> Nat] /\ ~IsExhausted(decided, recovery.budget) /\ ~Repeats(decided, s, old)
  BY <1>1 DEF RecoveryInv
<1>4. b \in [Budgeted -> Nat]
  BY <1>0, <1>3 DEF IsExhausted
<1>5. PICK S : old \in Seq(S)
  BY DEF RecoveryInv
<1>6. PICK T : T = S \cup {e}
  OBVIOUS
<1>7. old \in Seq(T) /\ e \in T
  BY <1>5, <1>6
<1>8. PICK new : new = Append(old, e)
  OBVIOUS
<1> HIDE DEF old, e
<1>9. new \in Seq(T) /\ Len(new) = Len(old) + 1 /\ new[Len(old) + 1] = e /\ \A i \in 1 .. Len(old) : new[i] = old[i]
  BY <1>7, <1>8
<1>10. \A i \in 1 .. Len(new) : SubSeq(new, 1, i - 1) = SubSeq(old, 1, i - 1)
  BY <1>7, <1>9
<1>11. SubSeq(old, 1, Len(old)) = old
  BY <1>7
<1>12. ASSUME NEW i \in 1 .. Len(new) PROVE ~Repeats(new[i][2], s, SubSeq(new, 1, i - 1))
  <2>1. CASE i \in 1 .. Len(old)
    <3>1. ~Repeats(old[i][2], s, SubSeq(old, 1, i - 1))
      BY <1>7, <2>1 DEF RecoveryInv, old
    <3> QED BY <1>9, <1>10, <2>1, <3>1
  <2>2. CASE i = Len(old) + 1
    <3>1. new[i][2] = decided /\ SubSeq(new, 1, i - 1) = old
      <4>1. new[i][2] = decided
        BY <1>9, <2>2 DEF e
      <4>2. i - 1 = Len(old)
        BY <1>7, <2>2
      <4> QED BY <1>10, <1>11, <4>1, <4>2
    <3> QED BY <1>3, <3>1
  <2> QED BY <1>7, <1>9, <2>1, <2>2
<1>13. DOMAIN new = 1 .. Len(new)
  BY <1>9
<1>14. recovery'.attempts = new
  BY <1>2, <1>8 DEF old, e
<1> QED BY <1>1, <1>2, <1>3, <1>4, <1>9, <1>12, <1>13, <1>14 DEF RecoveryInv

LEMMA RecoveryInvSafe == RecoveryInv => RecoverySafe
<1> SUFFICES ASSUME RecoveryInv PROVE RecoverySafe
  OBVIOUS
<1>1. \A a \in Budgeted : recovery.budget[a] >= 0
  BY DEF RecoveryInv
<1>2. decided \in Actions => decided \in AllowedFor(recovery.signal)
  BY DEF RecoveryInv
<1> QED BY <1>1, <1>2 DEF RecoverySafe, RecoveryInv, AllowedFor

-----------------------------------------------------------------------------
(* The choice of a model (routing/router.ts, routing/multi-model.ts, routing/reasoning.ts, routing/cache.ts) *)

\* The first place where two tuples of numbers differ puts them in one order or the other.
LEMMA PrecedesOrders ==
  ASSUME NEW n \in Nat
  PROVE  /\ \A a \in [1 .. n -> Int] : ~Precedes(a, a)
         /\ \A a, b, c \in [1 .. n -> Int] : Precedes(a, b) /\ Precedes(b, c) => Precedes(a, c)
         /\ \A a, b \in [1 .. n -> Int] : a # b => Precedes(a, b) \/ Precedes(b, a)
<1>1. ASSUME NEW a \in [1 .. n -> Int] PROVE ~Precedes(a, a)
  BY DEF Precedes
<1>2. ASSUME NEW a \in [1 .. n -> Int], NEW b \in [1 .. n -> Int], NEW c \in [1 .. n -> Int], Precedes(a, b), Precedes(b, c)
      PROVE  Precedes(a, c)
  <2>1. PICK i \in 1 .. n : a[i] < b[i] /\ \A j \in 1 .. i - 1 : a[j] = b[j]
    BY <1>2 DEF Precedes
  <2>2. PICK k \in 1 .. n : b[k] < c[k] /\ \A j \in 1 .. k - 1 : b[j] = c[j]
    BY <1>2 DEF Precedes
  <2>3. PICK m : m = IF i <= k THEN i ELSE k
    OBVIOUS
  <2>a. m \in 1 .. n /\ m <= i /\ m <= k /\ (m = i \/ m = k)
    BY <2>3
  <2>4. a[m] < c[m]
    <3>1. /\ i < m + 1 \/ m \in 1 .. i - 1
          /\ k < m + 1 \/ m \in 1 .. k - 1
      BY <2>a
    <3>2. a[m] <= b[m] /\ b[m] <= c[m] /\ (a[m] < b[m] \/ b[m] < c[m])
      BY <2>1, <2>2, <2>a, <3>1
    <3>3. {a[m], b[m], c[m]} \subseteq Int
      BY <2>a
    <3> QED BY <3>2, <3>3
  <2>5. ASSUME NEW j \in 1 .. m - 1 PROVE a[j] = c[j]
    <3>1. j \in 1 .. i - 1 /\ j \in 1 .. k - 1
      BY <2>a
    <3> QED BY <2>1, <2>2, <3>1
  <2>6. m \in DOMAIN a
    BY <2>a
  <2> QED BY <2>a, <2>4, <2>5, <2>6 DEF Precedes
<1>3. ASSUME NEW a \in [1 .. n -> Int], NEW b \in [1 .. n -> Int], a # b PROVE Precedes(a, b) \/ Precedes(b, a)
  <2> DEFINE S == {i \in 1 .. n : a[i] # b[i]}
  <2>1. S # {} /\ S \subseteq Nat
    BY <1>3
  <2>2. PICK i \in S : \A j \in S : i <= j
    <3> HIDE DEF S
    <3> QED BY <2>1, LeastPosition
  <2>3. \A j \in 1 .. i - 1 : a[j] = b[j]
    <3> TAKE j \in 1 .. i - 1
    <3>1. j \in 1 .. n /\ j < i
      OBVIOUS
    <3> QED BY <2>2, <3>1
  <2>4. a[i] < b[i] \/ b[i] < a[i]
    OBVIOUS
  <2> QED BY <2>3, <2>4 DEF Precedes
<1> QED BY <1>1, <1>2, <1>3

Below(S, R, c) == {d \in S : <<d, c>> \in R}

\* In a strict order of a finite set every place is taken: some element has as many before it.
LEMMA EveryPlaceTaken ==
  ASSUME NEW S, IsFiniteSet(S), NEW R,
         \A c \in S : <<c, c>> \notin R,
         \A c, d, e \in S : <<c, d>> \in R /\ <<d, e>> \in R => <<c, e>> \in R,
         \A c, d \in S : c # d => <<c, d>> \in R \/ <<d, c>> \in R
  PROVE  \A k \in 0 .. Cardinality(S) - 1 : \E c \in S : Cardinality(Below(S, R, c)) = k
<1> TAKE k \in 0 .. Cardinality(S) - 1
<1>0. PICK n : n = Cardinality(S)
  OBVIOUS
<1>1. n \in Nat
  BY <1>0, FS_CardinalityType
<1>2. ASSUME NEW c \in S PROVE IsFiniteSet(Below(S, R, c)) /\ Cardinality(Below(S, R, c)) \in 0 .. n - 1
  <2>1. Below(S, R, c) \in SUBSET S /\ Below(S, R, c) # S
    BY DEF Below
  <2>2. IsFiniteSet(Below(S, R, c)) /\ Cardinality(Below(S, R, c)) <= Cardinality(S) /\ Cardinality(Below(S, R, c)) # Cardinality(S)
    BY <2>1, FS_Subset
  <2>3. Cardinality(Below(S, R, c)) \in Nat
    BY <2>2, FS_CardinalityType
  <2> QED BY <1>0, <1>1, <2>2, <2>3
<1>3. ASSUME NEW c \in S, NEW d \in S, <<c, d>> \in R PROVE Cardinality(Below(S, R, c)) # Cardinality(Below(S, R, d))
  <2>1. Below(S, R, c) \in SUBSET Below(S, R, d) /\ c \in Below(S, R, d) /\ c \notin Below(S, R, c)
    BY <1>3 DEF Below
  <2> QED BY <1>2, <2>1, FS_Subset
<1>4. PICK f : f = [c \in S |-> Cardinality(Below(S, R, c))]
  OBVIOUS
<1>5. f \in [S -> 0 .. n - 1] /\ \A c \in S : f[c] = Cardinality(Below(S, R, c))
  BY <1>2, <1>4
<1>6. \A c, d \in S : f[c] = f[d] => c = d
  BY <1>3, <1>5
<1>7. f \in Injection(S, 0 .. n - 1)
  BY <1>5, <1>6 DEF Injection, IsInjective
<1>8. IsFiniteSet(0 .. n - 1) /\ Cardinality(0 .. n - 1) = n
  BY <1>1, FS_Interval
<1>9. f \in Surjection(S, 0 .. n - 1)
  BY <1>0, <1>7, <1>8, FS_Injection
<1>10. PICK c \in S : f[c] = k
  BY <1>0, <1>9 DEF Surjection
<1>11. Cardinality(Below(S, R, c)) = k
  BY <1>5, <1>10
<1> QED BY <1>11

\* Two tuples one after the other, place by place.
LEMMA Joined ==
  ASSUME NEW S, NEW s \in Seq(S), NEW v \in Seq(S)
  PROVE  /\ s \o v \in Seq(S) /\ Len(s \o v) = Len(s) + Len(v)
         /\ \A i \in 1 .. Len(s) : (s \o v)[i] = s[i]
         /\ \A i \in 1 .. Len(v) : (s \o v)[Len(s) + i] = v[i]
OBVIOUS
LEMMA EightPlaces ==
  ASSUME NEW a, NEW b, NEW c, NEW d, NEW e, NEW f, NEW g, NEW h
  PROVE  <<a, b, c, d>> \o Append(<<e, f, g>>, h) = <<a, b, c, d, e, f, g, h>>
<1>1. PICK S : S = {a, b, c, d, e, f, g, h}
  OBVIOUS
<1>2. PICK s : s = <<a, b, c, d>>
  OBVIOUS
<1>3. s \in Seq(S) /\ Len(s) = 4 /\ s[1] = a /\ s[2] = b /\ s[3] = c /\ s[4] = d
  BY <1>1, <1>2
<1>4. PICK v : v = <<e, f, g, h>>
  OBVIOUS
<1>5. v \in Seq(S) /\ Len(v) = 4 /\ v[1] = e /\ v[2] = f /\ v[3] = g /\ v[4] = h
  BY <1>1, <1>4
<1>6. v = Append(<<e, f, g>>, h)
  BY <1>4
<1>7. PICK w : w = s \o v
  OBVIOUS
<1>8. /\ w \in Seq(S) /\ Len(w) = Len(s) + Len(v)
      /\ \A i \in 1 .. Len(s) : w[i] = s[i]
      /\ \A i \in 1 .. Len(v) : w[Len(s) + i] = v[i]
  <2>1. /\ s \o v \in Seq(S) /\ Len(s \o v) = Len(s) + Len(v)
        /\ \A i \in 1 .. Len(s) : (s \o v)[i] = s[i]
        /\ \A i \in 1 .. Len(v) : (s \o v)[Len(s) + i] = v[i]
    <3>1. s \in Seq(S) /\ v \in Seq(S)
      BY <1>3, <1>5
    <3> QED BY <3>1, Joined
  <2> QED BY <1>7, <2>1
<1>9. w \in Seq(S) /\ Len(w) = 8 /\ w[1] = a /\ w[2] = b /\ w[3] = c /\ w[4] = d /\ w[5] = e /\ w[6] = f /\ w[7] = g /\ w[8] = h
  BY <1>3, <1>5, <1>8
<1>10. w = <<a, b, c, d, e, f, g, h>>
  BY <1>9
<1> QED BY <1>2, <1>6, <1>7, <1>10
LEMMA SevenPlaces ==
  ASSUME NEW a, NEW b, NEW c, NEW e, NEW f, NEW g, NEW h
  PROVE  <<a, b, c>> \o Append(<<e, f, g>>, h) = <<a, b, c, e, f, g, h>>
<1>1. PICK S : S = {a, b, c, e, f, g, h}
  OBVIOUS
<1>2. PICK s : s = <<a, b, c>>
  OBVIOUS
<1>3. s \in Seq(S) /\ Len(s) = 3 /\ s[1] = a /\ s[2] = b /\ s[3] = c
  BY <1>1, <1>2
<1>4. PICK v : v = <<e, f, g, h>>
  OBVIOUS
<1>5. v \in Seq(S) /\ Len(v) = 4 /\ v[1] = e /\ v[2] = f /\ v[3] = g /\ v[4] = h
  BY <1>1, <1>4
<1>6. v = Append(<<e, f, g>>, h)
  BY <1>4
<1>7. PICK w : w = s \o v
  OBVIOUS
<1>8. /\ w \in Seq(S) /\ Len(w) = Len(s) + Len(v)
      /\ \A i \in 1 .. Len(s) : w[i] = s[i]
      /\ \A i \in 1 .. Len(v) : w[Len(s) + i] = v[i]
  <2>1. /\ s \o v \in Seq(S) /\ Len(s \o v) = Len(s) + Len(v)
        /\ \A i \in 1 .. Len(s) : (s \o v)[i] = s[i]
        /\ \A i \in 1 .. Len(v) : (s \o v)[Len(s) + i] = v[i]
    <3>1. s \in Seq(S) /\ v \in Seq(S)
      BY <1>3, <1>5
    <3> QED BY <3>1, Joined
  <2> QED BY <1>7, <2>1
<1>9. w \in Seq(S) /\ Len(w) = 7 /\ w[1] = a /\ w[2] = b /\ w[3] = c /\ w[4] = e /\ w[5] = f /\ w[6] = g /\ w[7] = h
  BY <1>3, <1>5, <1>8
<1>10. w = <<a, b, c, e, f, g, h>>
  BY <1>9
<1> QED BY <1>2, <1>6, <1>7, <1>10

-----------------------------------------------------------------------------
\* Candidates and how they are ordered (router.ts comparePrimaryCandidates, compareEscalations)
CandidateTyped(c) == EvaluationTyped(c.evaluation) /\ c.cost \in Nat
KnownById(S) == \A c, d \in S : c.evaluation.id = d.evaluation.id => c = d

PrimaryRank(x) ==
  <<x.cost, x.evaluation.latency, -x.evaluation.quality, -x.evaluation.pass,
    x.evaluation.model, x.evaluation.version, x.evaluation.effort, x.evaluation.id>>
EscalationRank(x) ==
  <<x.evaluation.quality, x.cost, x.evaluation.latency,
    x.evaluation.model, x.evaluation.version, x.evaluation.effort, x.evaluation.id>>

LEMMA Ranked ==
  ASSUME NEW c, NEW d
  PROVE  /\ comparePrimaryCandidates(c, d) = Precedes(PrimaryRank(c), PrimaryRank(d))
         /\ compareEscalations(c, d) = Precedes(EscalationRank(c), EscalationRank(d))
<1>1. \A x : /\ <<x.cost, x.evaluation.latency, -x.evaluation.quality, -x.evaluation.pass>> \o candidateKey(x) = PrimaryRank(x)
             /\ <<x.evaluation.quality, x.cost, x.evaluation.latency>> \o candidateKey(x) = EscalationRank(x)
  BY EightPlaces, SevenPlaces DEF PrimaryRank, EscalationRank, candidateKey, evaluationRouteKey
<1> QED BY <1>1 DEF comparePrimaryCandidates, compareEscalations

LEMMA RanksTyped ==
  ASSUME NEW c, CandidateTyped(c)
  PROVE  /\ PrimaryRank(c) \in [1 .. 8 -> Int] /\ EscalationRank(c) \in [1 .. 7 -> Int]
         /\ PrimaryRank(c)[1] = c.cost /\ PrimaryRank(c)[8] = c.evaluation.id
         /\ EscalationRank(c)[1] = c.evaluation.quality /\ EscalationRank(c)[7] = c.evaluation.id
<1>1. {c.cost, c.evaluation.latency, -c.evaluation.quality, -c.evaluation.pass, c.evaluation.model, c.evaluation.version,
       c.evaluation.effort, c.evaluation.id, c.evaluation.quality} \subseteq Int
  BY DEF CandidateTyped, EvaluationTyped
<1> QED BY <1>1 DEF PrimaryRank, EscalationRank

\* A tuple that comes before another does not start with a greater number.
LEMMA FirstPlace ==
  ASSUME NEW n \in Nat \ {0}, NEW a \in [1 .. n -> Int], NEW b \in [1 .. n -> Int]
  PROVE  /\ Precedes(a, b) => a[1] <= b[1]
         /\ a[1] < b[1] => Precedes(a, b)
<1>1. ASSUME Precedes(a, b) PROVE a[1] <= b[1]
  <2>1. PICK i \in 1 .. n : a[i] < b[i] /\ \A j \in 1 .. i - 1 : a[j] = b[j]
    BY <1>1 DEF Precedes
  <2>2. CASE i = 1
    BY <2>1, <2>2
  <2>3. CASE i # 1
    <3>1. 1 \in 1 .. i - 1
      BY <2>3
    <3>2. a[1] = b[1] /\ a[1] \in Int
      BY <2>1, <3>1
    <3> QED BY <3>2
  <2> QED BY <2>2, <2>3
<1>2. ASSUME a[1] < b[1] PROVE Precedes(a, b)
  BY <1>2 DEF Precedes
<1> QED BY <1>1, <1>2

LEMMA CandidatesOrdered ==
  ASSUME NEW S, \A c \in S : CandidateTyped(c), KnownById(S)
  PROVE  /\ \A c \in S : ~comparePrimaryCandidates(c, c) /\ ~compareEscalations(c, c)
         /\ \A c, d, e \in S : /\ comparePrimaryCandidates(c, d) /\ comparePrimaryCandidates(d, e) => comparePrimaryCandidates(c, e)
                               /\ compareEscalations(c, d) /\ compareEscalations(d, e) => compareEscalations(c, e)
         /\ \A c, d \in S : c # d => /\ comparePrimaryCandidates(c, d) \/ comparePrimaryCandidates(d, c)
                                     /\ compareEscalations(c, d) \/ compareEscalations(d, c)
         /\ \A c, d \in S : /\ comparePrimaryCandidates(c, d) => c.cost <= d.cost
                            /\ c.evaluation.quality < d.evaluation.quality => compareEscalations(c, d)
<1> DEFINE P == [1 .. 8 -> Int]
           E == [1 .. 7 -> Int]
<1>1. \A c \in S : PrimaryRank(c) \in P /\ EscalationRank(c) \in E
  BY RanksTyped
<1>2. \A c, d \in S : c # d => PrimaryRank(c) # PrimaryRank(d) /\ EscalationRank(c) # EscalationRank(d)
  <2> SUFFICES ASSUME NEW c \in S, NEW d \in S, c # d PROVE PrimaryRank(c) # PrimaryRank(d) /\ EscalationRank(c) # EscalationRank(d)
    OBVIOUS
  <2>1. c.evaluation.id # d.evaluation.id
    BY DEF KnownById
  <2> QED BY <2>1, RanksTyped
<1>3. /\ \A a \in P : ~Precedes(a, a)
      /\ \A a, b, c \in P : Precedes(a, b) /\ Precedes(b, c) => Precedes(a, c)
      /\ \A a, b \in P : a # b => Precedes(a, b) \/ Precedes(b, a)
  <2>1. 8 \in Nat
    OBVIOUS
  <2> QED BY <2>1, PrecedesOrders
<1>4. /\ \A a \in E : ~Precedes(a, a)
      /\ \A a, b, c \in E : Precedes(a, b) /\ Precedes(b, c) => Precedes(a, c)
      /\ \A a, b \in E : a # b => Precedes(a, b) \/ Precedes(b, a)
  <2>1. 7 \in Nat
    OBVIOUS
  <2> QED BY <2>1, PrecedesOrders
<1>5. \A a, b \in P : Precedes(a, b) => a[1] <= b[1]
  <2>1. 8 \in Nat \ {0}
    OBVIOUS
  <2> QED BY <2>1, FirstPlace
<1>6. \A a, b \in E : a[1] < b[1] => Precedes(a, b)
  <2>1. 7 \in Nat \ {0}
    OBVIOUS
  <2> QED BY <2>1, FirstPlace
<1> HIDE DEF P, E
<1>7. \A c \in S : ~comparePrimaryCandidates(c, c) /\ ~compareEscalations(c, c)
  BY <1>1, <1>3, <1>4, Ranked
<1>8. \A c, d, e \in S : /\ comparePrimaryCandidates(c, d) /\ comparePrimaryCandidates(d, e) => comparePrimaryCandidates(c, e)
                         /\ compareEscalations(c, d) /\ compareEscalations(d, e) => compareEscalations(c, e)
  <2> TAKE c, d, e \in S
  <2>1. {PrimaryRank(c), PrimaryRank(d), PrimaryRank(e)} \subseteq P /\ {EscalationRank(c), EscalationRank(d), EscalationRank(e)} \subseteq E
    BY <1>1
  <2> QED BY <2>1, <1>3, <1>4, Ranked
<1>9. \A c, d \in S : c # d => /\ comparePrimaryCandidates(c, d) \/ comparePrimaryCandidates(d, c)
                               /\ compareEscalations(c, d) \/ compareEscalations(d, c)
  BY <1>1, <1>2, <1>3, <1>4, Ranked
<1>10. \A c, d \in S : /\ comparePrimaryCandidates(c, d) => c.cost <= d.cost
                       /\ c.evaluation.quality < d.evaluation.quality => compareEscalations(c, d)
  BY <1>1, <1>5, <1>6, Ranked, RanksTyped
<1> QED BY <1>7, <1>8, <1>9, <1>10

\* The chosen candidate exists, and nothing is cheaper.
LEMMA PrimaryCheapest ==
  ASSUME NEW S, IsFiniteSet(S), S # {}, \A c \in S : CandidateTyped(c), KnownById(S)
  PROVE  Primary(S) \in S /\ \A d \in S : d.cost >= Primary(S).cost
<1> DEFINE R == {p \in S \X S : comparePrimaryCandidates(p[1], p[2])}
<1>1. \A c, d \in S : <<c, d>> \in R <=> comparePrimaryCandidates(c, d)
  OBVIOUS
<1>2. 0 \in 0 .. Cardinality(S) - 1
  <2>1. Cardinality(S) \in Nat /\ Cardinality(S) # 0
    BY FS_CardinalityType, FS_EmptySet
  <2> QED BY <2>1
<1> HIDE DEF R
<1>3. PICK c \in S : Cardinality(Below(S, R, c)) = 0
  <2>1. /\ \A a \in S : <<a, a>> \notin R
        /\ \A a, d, e \in S : <<a, d>> \in R /\ <<d, e>> \in R => <<a, e>> \in R
        /\ \A a, d \in S : a # d => <<a, d>> \in R \/ <<d, a>> \in R
    BY <1>1, CandidatesOrdered
  <2> QED BY <1>2, <2>1, EveryPlaceTaken
<1>4. Below(S, R, c) = {}
  <2>1. Below(S, R, c) \in SUBSET S
    BY DEF Below
  <2>2. IsFiniteSet(Below(S, R, c))
    BY <2>1, FS_Subset
  <2> QED BY <1>3, <2>2, FS_EmptySet
<1>5. \A d \in S \ {c} : comparePrimaryCandidates(c, d)
  BY <1>1, <1>4, CandidatesOrdered DEF Below
<1>6. Primary(S) \in S /\ \A d \in S \ {Primary(S)} : comparePrimaryCandidates(Primary(S), d)
  BY <1>5 DEF Primary
<1>7. \A d \in S \ {Primary(S)} : Primary(S).cost <= d.cost
  BY <1>6, CandidatesOrdered
<1> QED BY <1>6, <1>7 DEF CandidateTyped

\* The ladder: the better candidates, none worse than the one before.
LEMMA LadderClimbs ==
  ASSUME NEW S, IsFiniteSet(S), \A c \in S : CandidateTyped(c), KnownById(S), NEW primary, NEW ladder, ladder = Escalations(S, primary)
  PROVE  /\ ladder \in Seq({c \in S : c.evaluation.quality > primary.evaluation.quality})
         /\ \A i \in 2 .. Len(ladder) : ladder[i].evaluation.quality >= ladder[i - 1].evaluation.quality
<1> DEFINE B == {c \in S : c.evaluation.quality > primary.evaluation.quality}
           R == {p \in B \X B : compareEscalations(p[1], p[2])}
           Before(c) == {d \in B : compareEscalations(d, c)}
<1>0. PICK n : n = Cardinality(B)
  OBVIOUS
<1>1. \A c, d \in B : <<c, d>> \in R <=> compareEscalations(c, d)
  OBVIOUS
<1>2. \A c \in B : Below(B, R, c) = Before(c)
  BY <1>1 DEF Below
<1>3. IsFiniteSet(B) /\ n \in Nat /\ (\A c \in B : CandidateTyped(c)) /\ KnownById(B)
  <2>1. B \in SUBSET S
    OBVIOUS
  <2>2. IsFiniteSet(B)
    BY <2>1, FS_Subset
  <2> QED BY <1>0, <2>1, <2>2, FS_CardinalityType DEF KnownById
<1>4. ladder = [i \in 1 .. n |-> CHOOSE c \in B : Cardinality(Before(c)) = i - 1]
  BY <1>0 DEF Escalations
<1> HIDE DEF B, R, Before
<1>5. \A k \in 0 .. n - 1 : \E c \in B : Cardinality(Before(c)) = k
  <2>1. /\ \A a \in B : <<a, a>> \notin R
        /\ \A a, d, e \in B : <<a, d>> \in R /\ <<d, e>> \in R => <<a, e>> \in R
        /\ \A a, d \in B : a # d => <<a, d>> \in R \/ <<d, a>> \in R
    BY <1>1, <1>3, CandidatesOrdered
  <2>2. \A k \in 0 .. n - 1 : \E c \in B : Cardinality(Below(B, R, c)) = k
    BY <1>0, <1>3, <2>1, EveryPlaceTaken
  <2> QED BY <1>2, <2>2
<1>6. \A i \in 1 .. n : ladder[i] \in B /\ Cardinality(Before(ladder[i])) = i - 1
  <2> TAKE i \in 1 .. n
  <2>1. i - 1 \in 0 .. n - 1
    BY <1>3
  <2>2. \E c \in B : Cardinality(Before(c)) = i - 1
    BY <1>5, <2>1
  <2>3. ladder[i] = CHOOSE c \in B : Cardinality(Before(c)) = i - 1
    BY <1>4
  <2> QED BY <2>2, <2>3
<1>7. ladder \in Seq(B) /\ Len(ladder) = n
  BY <1>3, <1>4, <1>6
<1>8. ASSUME NEW i \in 2 .. n PROVE ladder[i].evaluation.quality >= ladder[i - 1].evaluation.quality
  <2>1. PICK c \in B : c = ladder[i] /\ Cardinality(Before(c)) = i - 1
    BY <1>3, <1>6
  <2>2. PICK d \in B : d = ladder[i - 1] /\ Cardinality(Before(d)) = i - 2
    BY <1>3, <1>6
  <2>3. ~compareEscalations(c, d)
    <3> SUFFICES ASSUME compareEscalations(c, d) PROVE FALSE
      OBVIOUS
    <3>1. Before(c) \subseteq Before(d) /\ Before(d) \subseteq B
      BY <1>3, CandidatesOrdered DEF Before
    <3>2. IsFiniteSet(Before(d))
      BY <1>3, <3>1, FS_Subset
    <3>3. Cardinality(Before(c)) <= Cardinality(Before(d))
      BY <3>1, <3>2, FS_Subset
    <3> QED BY <1>3, <2>1, <2>2, <3>3
  <2>4. ~(c.evaluation.quality < d.evaluation.quality)
    BY <1>3, <2>3, CandidatesOrdered
  <2>5. c.evaluation.quality \in Nat /\ d.evaluation.quality \in Nat
    BY <1>3 DEF CandidateTyped, EvaluationTyped
  <2> QED BY <2>1, <2>2, <2>4, <2>5
<1> QED BY <1>3, <1>7, <1>8 DEF B

-----------------------------------------------------------------------------
\* The least and the greatest of a few numbers.
LEMMA LeastOf ==
  ASSUME NEW S, S \subseteq Int, NEW m \in S, \A x \in S : m <= x
  PROVE  Min(S) = m
<1>1. Min(S) \in S /\ \A x \in S : Min(S) <= x
  BY DEF Min
<1>2. m <= Min(S) /\ Min(S) <= m /\ m \in Int /\ Min(S) \in Int
  BY <1>1
<1> QED BY <1>2
LEMMA GreatestOf ==
  ASSUME NEW S, S \subseteq Int, NEW m \in S, \A x \in S : m >= x
  PROVE  Max(S) = m
<1>1. Max(S) \in S /\ \A x \in S : Max(S) >= x
  BY DEF Max
<1>2. m >= Max(S) /\ Max(S) >= m /\ m \in Int /\ Max(S) \in Int
  BY <1>1
<1> QED BY <1>2

LEMMA LeastOfTwo ==
  ASSUME NEW a \in Int, NEW b \in Int
  PROVE  Min({a, b}) \in {a, b} /\ Min({a, b}) <= a /\ Min({a, b}) <= b
<1>1. CASE a <= b
  BY <1>1, LeastOf
<1>2. CASE b <= a
  BY <1>2, LeastOf
<1> QED BY <1>1, <1>2
LEMMA LeastOfThree ==
  ASSUME NEW a \in Int, NEW b \in Int, NEW c \in Int
  PROVE  Min({a, b, c}) \in {a, b, c} /\ Min({a, b, c}) <= a /\ Min({a, b, c}) <= b /\ Min({a, b, c}) <= c
<1>1. PICK m \in {a, b, c} : m <= a /\ m <= b /\ m <= c
  <2>1. PICK k \in {a, b} : k <= a /\ k <= b
    <3>1. CASE a <= b
      BY <3>1
    <3>2. CASE b <= a
      BY <3>2
    <3> QED BY <3>1, <3>2
  <2>2. CASE k <= c
    BY <2>1, <2>2
  <2>3. CASE c <= k
    <3>1. c <= a /\ c <= b /\ c <= c
      BY <2>1, <2>3
    <3> QED BY <3>1
  <2> QED BY <2>1, <2>2, <2>3
<1>2. Min({a, b, c}) = m
  <2>1. {a, b, c} \subseteq Int /\ \A x \in {a, b, c} : m <= x
    BY <1>1
  <2> QED BY <2>1, LeastOf
<1> QED BY <1>1, <1>2
LEMMA GreatestOfTwo ==
  ASSUME NEW a \in Int, NEW b \in Int
  PROVE  Max({a, b}) \in {a, b} /\ Max({a, b}) >= a /\ Max({a, b}) >= b
<1>1. CASE a <= b
  BY <1>1, GreatestOf
<1>2. CASE b <= a
  BY <1>2, GreatestOf
<1> QED BY <1>1, <1>2

\* As many calls as tokens pay for.
LEMMA AsManyAsPaid ==
  ASSUME NEW t \in Nat, NEW d \in Nat \ {0}, NEW c \in Nat
  PROVE  t \div d \in Nat /\ (c <= t \div d <=> c * d <= t)
<1>1. PICK k : k = t \div d
  OBVIOUS
<1>2. k \in Nat /\ k * d <= t /\ t < (k + 1) * d
  BY <1>1
<1>3. c <= k => c * d <= k * d
  BY <1>2
<1>4. k + 1 <= c => (k + 1) * d <= c * d
  BY <1>2
<1>5. {c * d, k * d, (k + 1) * d} \subseteq Nat
  BY <1>2
<1>6. c <= k \/ k + 1 <= c
  BY <1>2
<1> QED BY <1>1, <1>2, <1>3, <1>4, <1>5, <1>6

-----------------------------------------------------------------------------
\* The plan of a request stays within its budget and keeps a call for a repair (reasoning.ts)
LEMMA CeilingPaid ==
  ASSUME NEW q, RequestTyped(q)
  PROVE  /\ CallCeiling(q) \in Nat /\ TokensPerCall(q) \in Nat
         /\ CallCeiling(q) <= q.budget.calls /\ CallCeiling(q) * TokensPerCall(q) <= q.budget.tokens
         /\ \A n \in Nat : n <= q.budget.calls /\ n * TokensPerCall(q) <= q.budget.tokens => n <= CallCeiling(q)
<1> DEFINE t == TokensPerCall(q)
           paid == q.budget.tokens \div t
<1>1. t \in Nat /\ q.budget.calls \in Nat /\ q.budget.tokens \in Nat
  BY DEF RequestTyped, TokensPerCall
<1>2. CASE t = 0
  <2>1. CallCeiling(q) = q.budget.calls
    BY <1>2 DEF CallCeiling
  <2>2. CallCeiling(q) * t = 0
    BY <1>1, <1>2, <2>1
  <2> QED BY <1>1, <2>1, <2>2
<1>3. CASE t # 0
  <2>1. CallCeiling(q) = Min({q.budget.calls, paid})
    BY <1>3 DEF CallCeiling
  <2>2. t \in Nat \ {0}
    BY <1>1, <1>3
  <2>3. paid \in Nat /\ \A n \in Nat : n <= paid <=> n * t <= q.budget.tokens
    BY <1>1, <2>2, AsManyAsPaid
  <2> HIDE DEF paid, t
  <2>4. CallCeiling(q) \in {q.budget.calls, paid} /\ CallCeiling(q) <= q.budget.calls /\ CallCeiling(q) <= paid
    <3> DEFINE m == Min({q.budget.calls, paid})
    <3>1. q.budget.calls \in Int /\ paid \in Int
      BY <1>1, <2>3
    <3>2. m \in {q.budget.calls, paid} /\ m <= q.budget.calls /\ m <= paid
      BY <3>1, LeastOfTwo
    <3> QED BY <2>1, <3>2
  <2>5. CallCeiling(q) \in Nat
    BY <1>1, <2>3, <2>4
  <2>6. CallCeiling(q) * t <= q.budget.tokens
    BY <2>3, <2>4, <2>5
  <2>7. \A n \in Nat : n <= q.budget.calls /\ n * t <= q.budget.tokens => n <= CallCeiling(q)
    BY <2>3, <2>4
  <2> QED BY <1>1, <2>4, <2>5, <2>6, <2>7 DEF t
<1> QED BY <1>2, <1>3

LEMMA Desired ==
  ASSUME NEW q, RequestTyped(q)
  PROVE  \A i \in 1 .. 3 : desiredByRisk[q.risk][i] \in Nat /\ (i = 3 => desiredByRisk[q.risk][i] > 0)
BY DEF RequestTyped, Risks, desiredByRisk

LEMMA PlanBounded ==
  ASSUME NEW q, RequestTyped(q), NEW plan, plan = createReasoningPlan(q)
  PROVE  /\ plan.calls = CallCeiling(q)
         /\ {plan.branches, plan.critiques, plan.repairs} \subseteq Nat
         /\ plan.branches + plan.critiques + plan.repairs <= plan.calls
         /\ plan.branches < plan.calls /\ q.budget.repairs > 0 => plan.repairs > 0
<1>1. PICK calls, d1, d2, d3, b, c, r :
        /\ calls = CallCeiling(q) /\ d1 = desiredByRisk[q.risk][1] + AtLeast(q, 5000)
        /\ d2 = desiredByRisk[q.risk][2] + AtLeast(q, 7500) /\ d3 = desiredByRisk[q.risk][3]
        /\ b = q.budget.branches /\ c = q.budget.critiques /\ r = q.budget.repairs
  OBVIOUS
<1>2. calls \in Nat /\ d1 \in Nat /\ d2 \in Nat /\ d3 \in Nat /\ d3 > 0 /\ b \in Nat /\ c \in Nat /\ r \in Nat
  <2>1. calls \in Nat
    BY <1>1, CeilingPaid
  <2>2. AtLeast(q, 5000) \in Nat /\ AtLeast(q, 7500) \in Nat
    BY DEF AtLeast
  <2>3. d1 \in Nat /\ d2 \in Nat /\ d3 \in Nat /\ d3 > 0
    BY <1>1, <2>2, Desired
  <2> QED BY <1>1, <2>1, <2>3 DEF RequestTyped
<1>3. PICK branches : branches = Min({d1, b, calls})
  OBVIOUS
<1>4. branches \in Nat /\ branches <= calls
  <2>1. branches \in {d1, b, calls} /\ branches <= calls
    <3>1. Min({d1, b, calls}) \in {d1, b, calls} /\ Min({d1, b, calls}) <= calls
      BY <1>2, LeastOfThree
    <3> QED BY <1>3, <3>1
  <2> QED BY <1>2, <2>1
<1>5. PICK left : left = calls - branches
  OBVIOUS
<1>6. left \in Nat
  BY <1>2, <1>4, <1>5
<1>7. PICK one \in {0, 1} : one = IF left > 0 THEN 1 ELSE 0
  OBVIOUS
<1>8. PICK reserved : reserved = Min({d3, r, one})
  OBVIOUS
<1>9. reserved \in Nat /\ reserved <= left /\ (left > 0 /\ r > 0 => reserved = 1)
  <2>1. reserved \in {d3, r, one} /\ reserved <= one /\ reserved <= d3 /\ reserved <= r
    <3> DEFINE m == Min({d3, r, one})
    <3>1. d3 \in Int /\ r \in Int /\ one \in Int
      BY <1>2
    <3>2. m \in {d3, r, one} /\ m <= one /\ m <= d3 /\ m <= r
      BY <3>1, LeastOfThree, Zenon
    <3> QED BY <1>8, <3>2
  <2> QED BY <1>2, <1>6, <1>7, <2>1
<1>10. PICK room : room = Max({0, left - reserved})
  OBVIOUS
<1>11. room = left - reserved /\ room \in Nat
  <2>1. room \in {0, left - reserved} /\ room >= left - reserved /\ room >= 0
    BY <1>6, <1>9, <1>10, GreatestOfTwo
  <2> QED BY <1>6, <1>9, <2>1
<1>12. PICK critiques : critiques = Min({d2, c, room})
  OBVIOUS
<1>13. critiques \in Nat /\ critiques <= room
  <2>1. critiques \in {d2, c, room} /\ critiques <= room
    <3>1. d2 \in Int /\ c \in Int /\ room \in Int
      BY <1>2, <1>11
    <3>2. Min({d2, c, room}) \in {d2, c, room} /\ Min({d2, c, room}) <= room
      BY <3>1, LeastOfThree
    <3> QED BY <1>12, <3>2
  <2> QED BY <1>2, <1>11, <2>1
<1>14. PICK repairs : repairs = Min({d3, r, left - critiques})
  OBVIOUS
<1>15. repairs \in Nat /\ repairs <= left - critiques /\ (left > 0 /\ r > 0 => repairs > 0)
  <2>1. left - critiques \in Nat /\ (left > 0 /\ r > 0 => left - critiques > 0)
    BY <1>6, <1>9, <1>11, <1>13
  <2>2. repairs \in {d3, r, left - critiques} /\ repairs <= left - critiques
    BY <1>2, <1>14, <2>1, LeastOfThree
  <2> QED BY <1>2, <2>1, <2>2
<1>16. plan.calls = calls /\ plan.branches = branches /\ plan.critiques = critiques /\ plan.repairs = repairs
  BY <1>1, <1>3, <1>5, <1>7, <1>8, <1>10, <1>12, <1>14 DEF createReasoningPlan
<1>17. branches + critiques + repairs <= calls
  BY <1>2, <1>4, <1>5, <1>13, <1>15
<1>18. branches < calls => left > 0
  BY <1>2, <1>4, <1>5
<1> QED BY <1>1, <1>4, <1>13, <1>15, <1>16, <1>17, <1>18

-----------------------------------------------------------------------------
\* What a call may cost so that all calls of the plan stay within the budget (router.ts estimatedWorstCaseCostMicros)
CallBudget(q) == (q.budget.cost \div CallCeiling(q)) * PriceUnit
Affordable(q, c) == PriceOfCall(ProfileOf(c.evaluation), q) \in 0 .. CallBudget(q)

LEMMA RoundedUp ==
  ASSUME NEW x \in Nat, NEW d \in Nat \ {0}
  PROVE  (x + d - 1) \div d \in Nat /\ x <= ((x + d - 1) \div d) * d
<1>1. PICK k : k = (x + d - 1) \div d
  OBVIOUS
<1>2. k \in Nat /\ x + d - 1 < (k + 1) * d
  BY <1>1
<1>3. (k + 1) * d = k * d + d /\ k * d \in Nat
  BY <1>2
<1>4. x <= k * d
  BY <1>2, <1>3
<1> QED BY <1>1, <1>2, <1>4

LEMMA WorstCaseTyped ==
  ASSUME NEW q, RequestTyped(q), NEW p \in Profiles
  PROVE  /\ PriceOfCall(p, q) \in Nat /\ estimatedWorstCaseCost(p, q) \in Nat
         /\ CallCeiling(q) > 0 /\ estimatedWorstCaseCost(p, q) <= q.budget.cost => PriceOfCall(p, q) \in 0 .. CallBudget(q)
<1>1. PICK price : price = PriceOfCall(p, q)
  OBVIOUS
<1>2. PICK calls : calls = CallCeiling(q)
  OBVIOUS
<1>3. PICK cost : cost = q.budget.cost
  OBVIOUS
<1>4. PICK unit : unit = PriceUnit
  OBVIOUS
<1>5. price \in Nat
  <2>1. p.inputPrice \in Nat /\ p.outputPrice \in Nat /\ q.input \in Nat /\ q.output \in Nat
    <3>1. q.input \in Nat /\ q.output \in Nat
      BY DEF RequestTyped
    <3>2. p.inputPrice \in Nat /\ p.outputPrice \in Nat
      BY RoutingAssumption
    <3> QED BY <3>1, <3>2
  <2> QED BY <1>1, <2>1 DEF PriceOfCall
<1>6. calls \in Nat /\ cost \in Nat /\ unit \in Nat \ {0}
  <2>1. calls \in Nat
    BY <1>2, CeilingPaid
  <2>2. cost \in Nat
    BY <1>3 DEF RequestTyped
  <2> QED BY <1>4, <2>1, <2>2, RoutingAssumption
<1>7. PICK up : up = Ceil(price)
  OBVIOUS
<1>8. up \in Nat /\ price <= up * unit
  BY <1>4, <1>5, <1>6, <1>7, RoundedUp DEF Ceil
<1>9. estimatedWorstCaseCost(p, q) = up * calls
  BY <1>1, <1>2, <1>7 DEF estimatedWorstCaseCost
<1>10. up * calls \in Nat
  BY <1>6, <1>8
<1>11. ASSUME calls > 0, up * calls <= cost PROVE price <= CallBudget(q)
  <2>1. calls \in Nat \ {0}
    BY <1>6, <1>11
  <2>2. PICK each : each = cost \div calls
    OBVIOUS
  <2>3. each \in Nat /\ up <= each
    BY <1>6, <1>8, <1>11, <2>1, <2>2, AsManyAsPaid
  <2>4. up * unit <= each * unit
    BY <1>6, <1>8, <2>3
  <2>5. up * unit \in Nat /\ each * unit \in Nat
    BY <1>6, <1>8, <2>3
  <2>6. CallBudget(q) = each * unit
    BY <1>2, <1>3, <1>4, <2>2 DEF CallBudget
  <2> QED BY <1>5, <1>8, <2>4, <2>5, <2>6
<1>12. calls > 0 => CallBudget(q) \in Nat
  <2> SUFFICES ASSUME calls > 0 PROVE CallBudget(q) \in Nat
    OBVIOUS
  <2>1. calls \in Nat \ {0}
    BY <1>6
  <2>2. PICK each : each = cost \div calls
    OBVIOUS
  <2>3. each \in Nat
    BY <1>6, <2>1, <2>2, AsManyAsPaid
  <2>4. each * unit \in Nat
    BY <1>6, <2>3
  <2> QED BY <1>2, <1>3, <1>4, <2>2, <2>4 DEF CallBudget
<1> QED BY <1>1, <1>2, <1>3, <1>5, <1>9, <1>10, <1>11, <1>12

LEMMA BudgetHolds ==
  ASSUME NEW q, RequestTyped(q), NEW n \in 0 .. CallCeiling(q), CallCeiling(q) > 0
  PROVE  CallBudget(q) \in Nat /\ n * CallBudget(q) <= q.budget.cost * PriceUnit /\ n * TokensPerCall(q) <= q.budget.tokens
<1>1. PICK calls : calls = CallCeiling(q)
  OBVIOUS
<1>2. PICK cost : cost = q.budget.cost
  OBVIOUS
<1>3. PICK unit : unit = PriceUnit
  OBVIOUS
<1>4. PICK tokens : tokens = TokensPerCall(q)
  OBVIOUS
<1>5. calls \in Nat \ {0} /\ cost \in Nat /\ unit \in Nat \ {0} /\ tokens \in Nat /\ n \in Nat /\ n <= calls
      /\ calls * tokens <= q.budget.tokens
  <2>1. calls \in Nat /\ calls > 0 /\ tokens \in Nat /\ calls * tokens <= q.budget.tokens
    BY <1>1, <1>4, CeilingPaid
  <2>2. cost \in Nat
    BY <1>2 DEF RequestTyped
  <2>3. n \in Nat /\ n <= calls
    BY <1>1, <2>1
  <2> QED BY <1>3, <2>1, <2>2, <2>3, RoutingAssumption
<1>6. PICK each : each = cost \div calls
  OBVIOUS
<1>7. each \in Nat /\ each * calls <= cost
  <2>1. cost \div calls \in Nat
    BY <1>5, AsManyAsPaid
  <2> QED BY <1>5, <1>6, <2>1, AsManyAsPaid
<1>8. CallBudget(q) = each * unit
  BY <1>1, <1>2, <1>3, <1>6 DEF CallBudget
<1>9. each * unit \in Nat
  BY <1>5, <1>7
<1>10. n * (each * unit) <= cost * unit
  <2>1. n * each <= calls * each
    BY <1>5, <1>7
  <2>2. calls * each = each * calls /\ n * each \in Nat /\ each * calls \in Nat
    BY <1>5, <1>7
  <2>3. n * each <= cost
    BY <1>5, <1>7, <2>1, <2>2
  <2>4. (n * each) * unit <= cost * unit
    BY <1>5, <2>2, <2>3
  <2>5. n * (each * unit) = (n * each) * unit
    BY <1>5, <1>7
  <2> QED BY <2>4, <2>5
<1>11. n * tokens <= q.budget.tokens
  <2>1. n * tokens <= calls * tokens /\ n * tokens \in Nat /\ calls * tokens \in Nat
    BY <1>5
  <2>2. q.budget.tokens \in Nat
    BY DEF RequestTyped
  <2> QED BY <1>5, <2>1, <2>2
<1> QED BY <1>2, <1>3, <1>4, <1>8, <1>9, <1>10, <1>11

-----------------------------------------------------------------------------
\* What is known of the evaluations: no id twice (router.ts ModelEvaluationRegistry.register).
RoutingTypeOK ==
  /\ evaluations \subseteq Evaluations /\ IsFiniteSet(evaluations)
  /\ \A d, e \in evaluations : d.id = e.id => d = e
  /\ now \in Nat

LEMMA FloorAbove ==
  ASSUME NEW q, RequestTyped(q), NEW x \in Int, x >= effectiveQualityFloor(q)
  PROVE  x >= q.floor /\ x >= RouterConfig.minimum
<1>1. PICK floor, minimum, uplift, more :
        /\ floor = q.floor /\ minimum = RouterConfig.minimum /\ uplift = RouterConfig.uplift[q.risk]
        /\ more = (q.uncertainty \div RouterConfig.step) * RouterConfig.perStep
  OBVIOUS
<1>2. floor \in 0 .. 10000 /\ minimum \in 0 .. 10000 /\ uplift \in Nat /\ more \in Nat
  <2>1. floor \in 0 .. 10000 /\ q.uncertainty \in Nat /\ q.risk \in Risks
    BY <1>1 DEF RequestTyped
  <2>2. minimum \in 0 .. 10000 /\ uplift \in Nat /\ RouterConfig.step \in Nat \ {0} /\ RouterConfig.perStep \in Nat
    <3>1. RouterConfig.minimum \in 0 .. 10000 /\ RouterConfig.uplift \in [Risks -> Nat]
      BY RoutingAssumption
    <3>2. RouterConfig.step \in Nat \ {0} /\ RouterConfig.perStep \in Nat
      BY RoutingAssumption
    <3>3. RouterConfig.uplift[q.risk] \in Nat
      BY <2>1, <3>1
    <3> QED BY <1>1, <3>1, <3>2, <3>3
  <2>3. PICK k : k = q.uncertainty \div RouterConfig.step
    OBVIOUS
  <2>4. k \in Nat
    BY <2>1, <2>2, <2>3, AsManyAsPaid
  <2>5. k * RouterConfig.perStep \in Nat
    BY <2>2, <2>4
  <2>6. more \in Nat
    BY <1>1, <2>3, <2>5
  <2> QED BY <2>1, <2>2, <2>6
<1>3. PICK higher : higher = Max({floor, minimum})
  OBVIOUS
<1>4. higher \in {floor, minimum} /\ higher >= floor /\ higher >= minimum
  <2>1. floor \in Int /\ minimum \in Int
    BY <1>2
  <2>2. Max({floor, minimum}) \in {floor, minimum} /\ Max({floor, minimum}) >= floor /\ Max({floor, minimum}) >= minimum
    BY <2>1, GreatestOfTwo
  <2> QED BY <1>3, <2>2
<1>5. PICK sum : sum = higher + uplift + more
  OBVIOUS
<1>6. sum \in Int /\ sum >= floor /\ sum >= minimum
  BY <1>2, <1>4, <1>5
<1>7. PICK least : least = Min({10000, sum})
  OBVIOUS
<1>8. least \in {10000, sum}
  <2>1. PICK ten : ten = 10000
    OBVIOUS
  <2>2. ten \in Int /\ sum \in Int
    BY <1>6, <2>1
  <2>3. Min({ten, sum}) \in {ten, sum}
    BY <2>2, LeastOfTwo, Zenon
  <2> QED BY <1>7, <2>1, <2>3
<1>9. effectiveQualityFloor(q) = least
  BY <1>1, <1>3, <1>5, <1>7 DEF effectiveQualityFloor
<1>10. x >= least /\ least \in Int /\ least >= floor /\ least >= minimum
  BY <1>2, <1>6, <1>8, <1>9
<1>11. floor \in Int /\ minimum \in Int
  BY <1>2
<1> QED BY <1>1, <1>10, <1>11

\* The newest evaluation of a route that is offered is the only one of its route that new.
LEMMA NewestRests ==
  ASSUME RoutingTypeOK, NEW q \in RouteRequests, ~Refused(q), NEW e \in freshestEvaluations(q), e.quality >= effectiveQualityFloor(q)
  PROVE  RestsOn(q, e) /\ EvaluationTyped(e)
<1>0. RequestTyped(q)
  BY RoutingAssumption
<1>1. ~RefusedEvaluations(q) /\ ~ConflictingEvaluations(q)
  BY DEF Refused
<1>2. /\ e \in NewestEvaluations(q) /\ now - e.at <= RouterConfig.maxAge
  BY DEF freshestEvaluations
<1>3. /\ e \in MatchingEvaluations(q)
      /\ \A d \in MatchingEvaluations(q) : evaluationRouteKey(d) = evaluationRouteKey(e) => d.at <= e.at
  BY <1>2 DEF NewestEvaluations
<1>4. e \in OfferedEvaluations(q) /\ e.class = q.class
  BY <1>3 DEF MatchingEvaluations
<1>5. e \in evaluations /\ exactRouteKey(e) \notin ExcludedRoutes(q)
  BY <1>4 DEF OfferedEvaluations
<1>6. \A d \in evaluations : EvaluationTyped(d)
  BY RoutingAssumption DEF RoutingTypeOK
<1>7. \A d \in evaluations : {d.at, d.quality} \subseteq Nat
  BY <1>6 DEF EvaluationTyped
<1>8. e.at <= now
  BY <1>1, <1>4, <1>5, <1>7 DEF RefusedEvaluations, RoutingTypeOK
<1>9. e.quality >= q.floor /\ e.quality >= RouterConfig.minimum
  BY <1>0, <1>5, <1>7, FloorAbove
<1>10. ASSUME NEW d \in evaluations \ {e}, exactRouteKey(d) = exactRouteKey(e), d.at >= e.at PROVE FALSE
  <2>1. d \in OfferedEvaluations(q) /\ d.class = q.class /\ evaluationRouteKey(d) = evaluationRouteKey(e)
    BY <1>4, <1>5, <1>10 DEF OfferedEvaluations, exactRouteKey, evaluationRouteKey
  <2>2. d \in MatchingEvaluations(q)
    BY <2>1 DEF MatchingEvaluations
  <2>3. d.at = e.at
    BY <1>3, <1>5, <1>7, <1>10, <2>1, <2>2
  <2>4. d \in NewestEvaluations(q)
    BY <1>3, <2>1, <2>2, <2>3 DEF NewestEvaluations
  <2> QED BY <1>1, <1>2, <2>1, <2>4 DEF ConflictingEvaluations
<1>11. ASSUME NEW f \in failures, exactRouteKey(f) = exactRouteKey(e), f.category \in ImmediateExclusions,
              now - f.at <= FailurePolicy.maxAge
       PROVE  FALSE
  <2>1. f.class = q.class
    BY <1>4, <1>11 DEF exactRouteKey
  <2>2. f \in CurrentFailures(q)
    BY <1>11, <2>1 DEF CurrentFailures
  <2>3. exactRouteKey(f) \in ExcludedRoutes(q)
    BY <1>11, <2>2 DEF ExcludedRoutes
  <2> QED BY <1>5, <1>11, <2>3
<1> QED BY <1>2, <1>4, <1>5, <1>6, <1>8, <1>9, <1>10, <1>11 DEF RestsOn

LEMMA CandidateFacts ==
  ASSUME RoutingTypeOK, NEW q \in RouteRequests, ~Refused(q), NEW C, C = RoutingCandidates(q)
  PROVE  /\ IsFiniteSet(C) /\ C # {} /\ KnownById(C) /\ CallCeiling(q) > 0
         /\ \A c \in C : CandidateTyped(c) /\ RestsOn(q, c.evaluation) /\ Affordable(q, c)
<1>0. RequestTyped(q)
  BY RoutingAssumption
<1>1. C # {} /\ ~MalformedRequest(q) /\ ~RefusedEvaluations(q)
  BY DEF Refused
<1>2. CallCeiling(q) > 0
  <2>1. PICK plan : plan = createReasoningPlan(q)
    OBVIOUS
  <2>2. plan.branches >= 1 /\ plan.branches \in Nat
    BY <1>0, <1>1, <2>1, PlanBounded DEF MalformedRequest
  <2>3. plan.branches <= plan.calls /\ plan.calls \in Nat
    <3>1. /\ plan.calls = CallCeiling(q)
          /\ {plan.branches, plan.critiques, plan.repairs} \subseteq Nat
          /\ plan.branches + plan.critiques + plan.repairs <= plan.calls
      BY <1>0, <2>1, PlanBounded
    <3>2. CallCeiling(q) \in Nat
      BY <1>0, CeilingPaid
    <3> QED BY <3>1, <3>2
  <2> QED BY <1>0, <2>1, <2>2, <2>3, PlanBounded
<1>3. PICK D : D = {d \in freshestEvaluations(q) :
                      /\ ~capabilityMismatch(ProfileOf(d), q)
                      /\ d.quality >= effectiveQualityFloor(q)
                      /\ ProfileOf(d).currency = q.currency
                      /\ estimatedWorstCaseCost(ProfileOf(d), q) <= q.budget.cost}
  OBVIOUS
<1>4. PICK f : f = [e \in D |-> [evaluation |-> e, cost |-> estimatedWorstCaseCost(ProfileOf(e), q)]]
  OBVIOUS
<1>5. C = {f[e] : e \in D}
  BY <1>3, <1>4 DEF RoutingCandidates
<1>6. IsFiniteSet(D) /\ D \subseteq evaluations
  <2>1. D \in SUBSET evaluations
    BY <1>3 DEF freshestEvaluations, NewestEvaluations, MatchingEvaluations, OfferedEvaluations
  <2> QED BY <2>1, FS_Subset DEF RoutingTypeOK
<1>7. IsFiniteSet(C)
  <2>1. f \in Surjection(D, C)
    BY <1>4, <1>5 DEF Surjection
  <2> QED BY <1>6, <2>1, FS_Surjection
<1>8. \A c \in C : c.evaluation \in D /\ c = [evaluation |-> c.evaluation, cost |-> estimatedWorstCaseCost(ProfileOf(c.evaluation), q)]
  BY <1>4, <1>5
<1>9. KnownById(C)
  <2> SUFFICES ASSUME NEW c \in C, NEW d \in C, c.evaluation.id = d.evaluation.id PROVE c = d
    BY DEF KnownById
  <2>1. c.evaluation = d.evaluation
    BY <1>6, <1>8 DEF RoutingTypeOK
  <2> QED BY <1>8, <2>1
<1>10. ASSUME NEW c \in C PROVE CandidateTyped(c) /\ RestsOn(q, c.evaluation) /\ Affordable(q, c)
  <2>1. PICK e : e = c.evaluation
    OBVIOUS
  <2>2. /\ e \in freshestEvaluations(q) /\ e \in evaluations /\ e.quality >= effectiveQualityFloor(q)
        /\ estimatedWorstCaseCost(ProfileOf(e), q) <= q.budget.cost
        /\ c.cost = estimatedWorstCaseCost(ProfileOf(e), q)
    BY <1>3, <1>6, <1>8, <2>1
  <2>3. RestsOn(q, e) /\ EvaluationTyped(e)
    BY <2>2, NewestRests
  <2>4. e \in OfferedEvaluations(q)
    BY <2>2 DEF freshestEvaluations, NewestEvaluations, MatchingEvaluations
  <2>5. \E p \in Profiles : p.model = e.model /\ p.version = e.version
    BY <1>1, <2>4 DEF RefusedEvaluations
  <2>6. ProfileOf(e) \in Profiles
    BY <2>5 DEF ProfileOf
  <2>7. c.cost \in Nat /\ PriceOfCall(ProfileOf(e), q) \in 0 .. CallBudget(q)
    BY <1>0, <1>2, <2>2, <2>6, WorstCaseTyped
  <2> QED BY <2>1, <2>3, <2>7 DEF CandidateTyped, Affordable
<1> QED BY <1>1, <1>2, <1>7, <1>9, <1>10

\* A decision by its parts.
LEMMA DecisionParts ==
  ASSUME RoutingTypeOK, NEW q \in RouteRequests, ~Refused(q), NEW d, d = RoutingDecision(q)
  PROVE  /\ d.plan = createReasoningPlan(q) /\ d.cache = cacheDecision(q, d.primary)
         /\ d.primary \in RoutingCandidates(q)
         /\ \A c \in RoutingCandidates(q) : c.cost >= d.primary.cost
         /\ d.escalations \in Seq({c \in RoutingCandidates(q) : c.evaluation.quality > d.primary.evaluation.quality})
         /\ \A i \in 2 .. Len(d.escalations) : d.escalations[i].evaluation.quality >= d.escalations[i - 1].evaluation.quality
<1>1. PICK C : C = RoutingCandidates(q)
  OBVIOUS
<1>2. PICK primary : primary = Primary(C)
  OBVIOUS
<1>3. PICK ladder : ladder = Escalations(C, primary)
  OBVIOUS
<1>4. d.primary = primary /\ d.escalations = ladder /\ d.plan = createReasoningPlan(q) /\ d.cache = cacheDecision(q, primary)
  BY <1>1, <1>2, <1>3 DEF RoutingDecision
<1>5. IsFiniteSet(C) /\ C # {} /\ KnownById(C) /\ \A c \in C : CandidateTyped(c)
  BY <1>1, CandidateFacts
<1>6. primary \in C /\ \A c \in C : c.cost >= primary.cost
  BY <1>2, <1>5, PrimaryCheapest
<1>7. /\ ladder \in Seq({c \in C : c.evaluation.quality > primary.evaluation.quality})
      /\ \A i \in 2 .. Len(ladder) : ladder[i].evaluation.quality >= ladder[i - 1].evaluation.quality
  BY <1>3, <1>5, LadderClimbs
<1> QED BY <1>1, <1>4, <1>6, <1>7

LEMMA DecisionsRestOn ==
  ASSUME RoutingTypeOK
  PROVE  DecisionsRest
<1> SUFFICES ASSUME NEW q \in RouteRequests, ~Refused(q), NEW d, d = RoutingDecision(q), NEW ladder, ladder = <<d.primary>> \o d.escalations,
                    NEW plan, plan = d.plan
             PROVE  /\ \A i \in DOMAIN ladder : RestsOn(q, ladder[i].evaluation)
                    /\ \A c \in RoutingCandidates(q) : c.cost >= d.primary.cost
                    /\ \A i \in 2 .. Len(ladder) : /\ ladder[i].evaluation.quality > d.primary.evaluation.quality
                                                  /\ ladder[i].evaluation.quality >= ladder[i - 1].evaluation.quality
                    /\ plan.branches + plan.critiques + plan.repairs <= plan.calls
                    /\ (plan.branches < q.budget.calls /\ q.budget.repairs > 0
                         /\ (plan.branches + 1) * TokensPerCall(q) <= q.budget.tokens) => plan.repairs > 0
  BY DEF DecisionsRest
<1>0. RequestTyped(q)
  BY RoutingAssumption
<1>1. PICK C : C = RoutingCandidates(q)
  OBVIOUS
<1>2. PICK p, up : p = d.primary /\ up = d.escalations
  OBVIOUS
<1>3. \A c \in C : CandidateTyped(c) /\ RestsOn(q, c.evaluation)
  BY <1>1, CandidateFacts
<1>4. /\ p \in C /\ (\A c \in C : c.cost >= p.cost)
      /\ up \in Seq({c \in C : c.evaluation.quality > p.evaluation.quality})
      /\ \A i \in 2 .. Len(up) : up[i].evaluation.quality >= up[i - 1].evaluation.quality
      /\ plan = createReasoningPlan(q)
  BY <1>1, <1>2, DecisionParts
<1>5. up \in Seq(C) /\ \A i \in 1 .. Len(up) : up[i] \in C /\ up[i].evaluation.quality > p.evaluation.quality
  <2>1. PICK B : B = {c \in C : c.evaluation.quality > p.evaluation.quality}
    OBVIOUS
  <2>2. up \in Seq(B) /\ B \subseteq C
    BY <1>4, <2>1
  <2>3. up \in Seq(C) /\ \A i \in 1 .. Len(up) : up[i] \in B
    BY <2>2
  <2> QED BY <2>1, <2>3
<1>6. /\ ladder \in Seq(C) /\ Len(ladder) = Len(up) + 1 /\ ladder[1] = p
      /\ \A i \in 2 .. Len(ladder) : ladder[i] = up[i - 1]
  <2>1. PICK one : one = <<p>>
    OBVIOUS
  <2>2. one \in Seq(C) /\ Len(one) = 1 /\ one[1] = p
    BY <1>4, <2>1
  <2>3. ladder = one \o up
    BY <1>2, <2>1
  <2>4. one \in Seq(C) /\ up \in Seq(C)
    BY <1>5, <2>2
  <2>5. /\ one \o up \in Seq(C) /\ Len(one \o up) = Len(one) + Len(up)
        /\ \A i \in 1 .. Len(one) : (one \o up)[i] = one[i]
        /\ \A i \in 1 .. Len(up) : (one \o up)[Len(one) + i] = up[i]
    BY <2>4, Joined
  <2>6. Len(up) \in Nat
    BY <2>4
  <2>7. ladder \in Seq(C) /\ Len(ladder) = Len(up) + 1 /\ ladder[1] = p /\ \A i \in 1 .. Len(up) : ladder[1 + i] = up[i]
    <3>1. ladder \in Seq(C) /\ Len(ladder) = 1 + Len(up)
      BY <2>2, <2>3, <2>5
    <3>2. 1 \in 1 .. Len(one)
      BY <2>2
    <3>3. ladder[1] = p
      BY <2>2, <2>3, <2>5, <3>2
    <3>4. \A i \in 1 .. Len(up) : ladder[1 + i] = up[i]
      BY <2>2, <2>3, <2>5
    <3> QED BY <2>6, <3>1, <3>3, <3>4
  <2>8. ASSUME NEW i \in 2 .. Len(ladder) PROVE ladder[i] = up[i - 1]
    <3>1. i - 1 \in 1 .. Len(up) /\ 1 + (i - 1) = i
      BY <2>6, <2>7
    <3> QED BY <2>7, <3>1
  <2> QED BY <2>7, <2>8
<1>7. Len(up) \in Nat /\ DOMAIN ladder = 1 .. Len(ladder)
  BY <1>5, <1>6
<1>8. \A i \in DOMAIN ladder : RestsOn(q, ladder[i].evaluation)
  <2> TAKE i \in DOMAIN ladder
  <2>1. ladder[i] \in C
    BY <1>6, <1>7
  <2> QED BY <1>3, <2>1
<1>9. \A i \in 2 .. Len(ladder) : /\ ladder[i].evaluation.quality > p.evaluation.quality
                                 /\ ladder[i].evaluation.quality >= ladder[i - 1].evaluation.quality
  <2> TAKE i \in 2 .. Len(ladder)
  <2>1. ladder[i] = up[i - 1] /\ i - 1 \in 1 .. Len(up)
    BY <1>6, <1>7
  <2>2. ladder[i].evaluation.quality > p.evaluation.quality
    BY <1>5, <2>1
  <2>3. ladder[i].evaluation.quality >= ladder[i - 1].evaluation.quality
    <3>1. CASE i = 2
      <4>1. ladder[i - 1] = p
        BY <1>6, <3>1
      <4>2. p.evaluation.quality \in Nat /\ ladder[i].evaluation.quality \in Nat
        BY <1>3, <1>4, <1>5, <2>1 DEF CandidateTyped, EvaluationTyped
      <4> QED BY <2>2, <4>1, <4>2
    <3>2. CASE i # 2
      <4>1. i - 1 \in 2 .. Len(ladder) /\ i - 1 \in 2 .. Len(up)
        BY <1>6, <1>7, <2>1, <3>2
      <4>2. ladder[i - 1] = up[(i - 1) - 1]
        BY <1>6, <4>1
      <4>3. up[i - 1].evaluation.quality >= up[(i - 1) - 1].evaluation.quality
        BY <1>4, <4>1
      <4> QED BY <2>1, <4>2, <4>3
    <3> QED BY <3>1, <3>2
  <2> QED BY <2>2, <2>3
<1>10. /\ plan.calls = CallCeiling(q)
       /\ {plan.branches, plan.critiques, plan.repairs} \subseteq Nat
       /\ plan.branches + plan.critiques + plan.repairs <= plan.calls
       /\ plan.branches < plan.calls /\ q.budget.repairs > 0 => plan.repairs > 0
  BY <1>0, <1>4, PlanBounded
<1>11. ASSUME plan.branches < q.budget.calls, q.budget.repairs > 0, (plan.branches + 1) * TokensPerCall(q) <= q.budget.tokens
       PROVE  plan.repairs > 0
  <2>1. plan.branches \in Nat
    BY <1>10
  <2>2. plan.branches + 1 \in Nat /\ plan.branches + 1 <= q.budget.calls
    <3>1. q.budget.calls \in Nat
      BY <1>0 DEF RequestTyped
    <3> QED BY <1>11, <2>1, <3>1
  <2>3. plan.branches + 1 <= CallCeiling(q) /\ CallCeiling(q) \in Nat
    BY <1>0, <1>11, <2>2, CeilingPaid
  <2> QED BY <1>10, <1>11, <2>1, <2>3
<1> QED BY <1>1, <1>2, <1>4, <1>8, <1>9, <1>10, <1>11

-----------------------------------------------------------------------------
\* The work on a decision never runs ahead of its plan and its money.
DecisionOk(q, d) ==
  /\ d.plan.calls = CallCeiling(q) /\ d.plan.calls \in Nat \ {0} /\ d.plan.branches \in 0 .. d.plan.calls
  /\ Affordable(q, d.primary)
  /\ Len(d.escalations) \in Nat /\ \A i \in 1 .. Len(d.escalations) : Affordable(q, d.escalations[i])

WorkFields == {"request", "decision", "calls", "critiques", "repairs", "escalation", "spent", "last"}
WorkInv(w) ==
  /\ DOMAIN w = WorkFields /\ w = [x \in WorkFields |-> w[x]]
  /\ w.request \in RouteRequests /\ DecisionOk(w.request, w.decision)
  /\ w.calls \in 0 .. w.decision.plan.calls /\ w.escalation \in 0 .. Len(w.decision.escalations)
  /\ w.spent \in Nat /\ w.spent <= w.calls * CallBudget(w.request)
  /\ w.last = "routed" => w.calls = 0
  /\ w.last = "BLOCK" => w.calls = w.decision.plan.calls \/ w.escalation = Len(w.decision.escalations)

LEMMA RoutedOk ==
  ASSUME RoutingTypeOK, NEW q \in RouteRequests, ~Refused(q)
  PROVE  DecisionOk(q, RoutingDecision(q))
<1>0. RequestTyped(q)
  BY RoutingAssumption
<1>1. PICK d : d = RoutingDecision(q)
  OBVIOUS
<1>2. PICK C : C = RoutingCandidates(q)
  OBVIOUS
<1>3. CallCeiling(q) > 0 /\ \A c \in C : Affordable(q, c)
  BY <1>2, CandidateFacts
<1>4. PICK B : B = {c \in C : c.evaluation.quality > d.primary.evaluation.quality}
  OBVIOUS
<1>5. d.primary \in C /\ d.escalations \in Seq(B) /\ d.plan = createReasoningPlan(q)
  BY <1>1, <1>2, <1>4, DecisionParts
<1>6. PICK plan : plan = d.plan
  OBVIOUS
<1>7. /\ plan.calls = CallCeiling(q)
      /\ {plan.branches, plan.critiques, plan.repairs} \subseteq Nat
      /\ plan.branches + plan.critiques + plan.repairs <= plan.calls
  BY <1>0, <1>5, <1>6, PlanBounded
<1>8. CallCeiling(q) \in Nat \ {0}
  <2>1. CallCeiling(q) \in Nat
    BY <1>0, CeilingPaid
  <2> QED BY <1>3, <2>1
<1>9. plan.branches \in 0 .. plan.calls /\ plan.calls \in Nat \ {0}
  BY <1>7, <1>8
<1>10. Len(d.escalations) \in Nat /\ \A i \in 1 .. Len(d.escalations) : d.escalations[i] \in B
  BY <1>5
<1>11. \A i \in 1 .. Len(d.escalations) : Affordable(q, d.escalations[i])
  BY <1>3, <1>4, <1>10
<1>12. DecisionOk(q, d)
  BY <1>3, <1>5, <1>6, <1>7, <1>9, <1>10, <1>11 DEF DecisionOk
<1> QED BY <1>1, <1>12

LEMMA CalledKeeps ==
  ASSUME NEW w, WorkInv(w), NEW c, Affordable(w.request, c), NEW n \in Nat, w.calls + n <= w.decision.plan.calls, NEW last,
         last \notin {"routed", "BLOCK"}
  PROVE  WorkInv(Called(w, c, n, last)) /\ Called(w, c, n, last).decision = w.decision /\ Called(w, c, n, last).last = last
         /\ Called(w, c, n, last).escalation = w.escalation
<1>1. PICK price, each, calls, spent : /\ price = PriceOfCall(ProfileOf(c.evaluation), w.request) /\ each = CallBudget(w.request)
                                       /\ calls = w.calls /\ spent = w.spent
  OBVIOUS
<1>2. PICK x : x = Called(w, c, n, last)
  OBVIOUS
<1>3. x = [w EXCEPT !.calls = calls + n, !.spent = spent + n * price, !.last = last]
  BY <1>1, <1>2 DEF Called
<1>4. DOMAIN w = WorkFields /\ w = [y \in WorkFields |-> w[y]]
  BY DEF WorkInv
<1>5. /\ x.request = w.request /\ x.decision = w.decision /\ x.escalation = w.escalation
      /\ x.calls = calls + n /\ x.spent = spent + n * price /\ x.last = last
  BY <1>3, <1>4 DEF WorkFields
<1>6. DOMAIN x = WorkFields /\ x = [y \in WorkFields |-> x[y]]
  BY <1>3, <1>4
<1>7. /\ w.request \in RouteRequests /\ DecisionOk(w.request, w.decision)
      /\ calls \in 0 .. w.decision.plan.calls /\ w.escalation \in 0 .. Len(w.decision.escalations)
      /\ spent \in Nat /\ spent <= calls * each
  BY <1>1 DEF WorkInv
<1>8. w.decision.plan.calls \in Nat /\ calls + n <= w.decision.plan.calls
  BY <1>1, <1>7 DEF DecisionOk
<1>9. price \in 0 .. each /\ each \in Nat
  <2>1. price \in 0 .. each
    BY <1>1 DEF Affordable
  <2>2. RequestTyped(w.request) /\ CallCeiling(w.request) \in Nat \ {0}
    BY <1>7, RoutingAssumption DEF DecisionOk
  <2>3. 0 \in 0 .. CallCeiling(w.request) /\ CallCeiling(w.request) > 0
    BY <2>2
  <2>4. each \in Nat
    BY <1>1, <2>2, <2>3, BudgetHolds
  <2> QED BY <2>1, <2>4
<1>10. spent + n * price \in Nat /\ spent + n * price <= (calls + n) * each
  <2>1. calls \in Nat
    BY <1>7, <1>8
  <2>2. n * price \in Nat /\ n * each \in Nat /\ calls * each \in Nat /\ n * price <= n * each
    BY <1>9, <2>1
  <2>3. (calls + n) * each = calls * each + n * each
    BY <1>9, <2>1
  <2> QED BY <1>7, <2>2, <2>3
<1>11. calls + n \in 0 .. w.decision.plan.calls
  BY <1>7, <1>8
<1>12. WorkInv(x)
  BY <1>1, <1>5, <1>6, <1>7, <1>10, <1>11 DEF WorkInv
<1> QED BY <1>2, <1>5, <1>12

\* Counting a repair or a critique changes nothing that is bounded; the next model is one further up.
LEMMA CountedKeeps ==
  ASSUME NEW w, WorkInv(w), NEW n
  PROVE  /\ WorkInv([w EXCEPT !.repairs = n]) /\ WorkInv([w EXCEPT !.critiques = n])
         /\ n \in 0 .. Len(w.decision.escalations) /\ w.last # "BLOCK" => WorkInv([w EXCEPT !.escalation = n])
         /\ n \notin {"routed", "BLOCK"} => WorkInv([w EXCEPT !.last = n])
         /\ n = "BLOCK" /\ (w.calls = w.decision.plan.calls \/ w.escalation = Len(w.decision.escalations)) => WorkInv([w EXCEPT !.last = n])
<1>1. DOMAIN w = WorkFields /\ w = [y \in WorkFields |-> w[y]]
  BY DEF WorkInv
<1>3. WorkInv([w EXCEPT !.repairs = n])
  BY <1>1 DEF WorkInv, WorkFields
<1>4. WorkInv([w EXCEPT !.critiques = n])
  BY <1>1 DEF WorkInv, WorkFields
<1>5. n \in 0 .. Len(w.decision.escalations) /\ w.last # "BLOCK" => WorkInv([w EXCEPT !.escalation = n])
  BY <1>1 DEF WorkInv, WorkFields
<1>6. n \notin {"routed", "BLOCK"} => WorkInv([w EXCEPT !.last = n])
  BY <1>1 DEF WorkInv, WorkFields
<1>7. n = "BLOCK" /\ (w.calls = w.decision.plan.calls \/ w.escalation = Len(w.decision.escalations)) => WorkInv([w EXCEPT !.last = n])
  BY <1>1 DEF WorkInv, WorkFields
<1> QED BY <1>3, <1>4, <1>5, <1>6, <1>7

-----------------------------------------------------------------------------
\* The controller's answers (reasoning.ts nextReasoningAction) keep the work within its plan.
LEMMA ControllerKeeps ==
  ASSUME work # NoWork, WorkInv(work), NEW s, ControllerNext(s)
  PROVE  WorkInv(work')
<1>1. PICK action : action = ControllerAction(work, s)
  OBVIOUS
<1>2. work' = Performed(work, action) /\ work.last \notin {"routed", "ACCEPT", "BLOCK"}
  BY <1>1 DEF ControllerNext
<1>3. PICK plan, up, calls : plan = work.decision.plan /\ up = work.decision.escalations /\ calls = work.calls
  OBVIOUS
<1>4. /\ plan.calls \in Nat \ {0} /\ calls \in 0 .. plan.calls /\ Len(up) \in Nat /\ work.escalation \in 0 .. Len(up)
      /\ Affordable(work.request, work.decision.primary) /\ \A i \in 1 .. Len(up) : Affordable(work.request, up[i])
  BY <1>3 DEF WorkInv, DecisionOk
<1>5. PICK e : e = escalateOrBlock(work)
  OBVIOUS
<1>6. /\ e = IF work.escalation < Len(up) /\ calls < plan.calls THEN "ESCALATE" ELSE "BLOCK"
  BY <1>3, <1>5 DEF escalateOrBlock
<1>7. \/ action = "ACCEPT" \/ action = e
      \/ action \in {"REPAIR", "CRITIQUE"} /\ calls < plan.calls
  BY <1>1, <1>3, <1>5 DEF ControllerAction
<1>8. calls < plan.calls => calls + 1 <= plan.calls
  BY <1>4
<1>9. Affordable(work.request, Working)
  <2>1. CASE work.escalation = 0
    BY <1>4, <2>1 DEF Working
  <2>2. CASE work.escalation # 0
    <3>1. Working = up[work.escalation] /\ work.escalation \in 1 .. Len(up)
      BY <1>3, <1>4, <2>2 DEF Working
    <3> QED BY <1>4, <3>1
  <2> QED BY <2>1, <2>2
<1>10. CASE action \in {"REPAIR", "CRITIQUE"} /\ calls < plan.calls
  <2>1. PICK x : x = Called(work, Working, 1, action)
    OBVIOUS
  <2>2. WorkInv(x)
    BY <1>3, <1>8, <1>9, <1>10, <2>1, CalledKeeps
  <2>3. PICK r, c : r = x.repairs + 1 /\ c = x.critiques + 1
    OBVIOUS
  <2>4. work' = [x EXCEPT !.repairs = r] \/ work' = [x EXCEPT !.critiques = c]
    BY <1>2, <1>10, <2>1, <2>3 DEF Performed
  <2>5. WorkInv([x EXCEPT !.repairs = r]) /\ WorkInv([x EXCEPT !.critiques = c])
    BY <2>2, CountedKeeps
  <2> QED BY <2>4, <2>5
<1>11. CASE action = e /\ e = "ESCALATE"
  <2>1. work.escalation + 1 \in 1 .. Len(up) /\ work.escalation + 1 \in 0 .. Len(up) /\ calls < plan.calls
    BY <1>4, <1>6, <1>11
  <2>2. PICK c : c = up[work.escalation + 1]
    OBVIOUS
  <2>3. PICK x : x = Called(work, c, 1, action)
    OBVIOUS
  <2>4. WorkInv(x) /\ x.decision = work.decision /\ x.last = action /\ x.escalation = work.escalation
    <3>1. Affordable(work.request, c) /\ work.calls + 1 <= work.decision.plan.calls /\ action \notin {"routed", "BLOCK"}
      BY <1>3, <1>4, <1>8, <1>11, <2>1, <2>2
    <3> QED BY <2>3, <3>1, CalledKeeps
  <2>5. work' = [x EXCEPT !.escalation = x.escalation + 1]
    BY <1>2, <1>3, <1>11, <2>2, <2>3 DEF Performed
  <2>6. PICK n : n = x.escalation + 1
    OBVIOUS
  <2>7. n \in 0 .. Len(x.decision.escalations) /\ x.last # "BLOCK"
    BY <1>3, <1>11, <2>1, <2>4, <2>6
  <2>8. WorkInv([x EXCEPT !.escalation = n])
    BY <2>4, <2>7, CountedKeeps
  <2> QED BY <2>5, <2>6, <2>8
<1>12. CASE action = "ACCEPT" \/ (action = e /\ e = "BLOCK")
  <2>1. work' = [work EXCEPT !.last = action]
    BY <1>2, <1>12 DEF Performed
  <2>2. CASE action = "ACCEPT"
    <3>1. action \notin {"routed", "BLOCK"}
      BY <2>2
    <3> QED BY <2>1, <3>1, CountedKeeps
  <2>3. CASE action = e /\ e = "BLOCK"
    <3>1. work.calls = work.decision.plan.calls \/ work.escalation = Len(work.decision.escalations)
      BY <1>3, <1>4, <1>6, <2>3
    <3> QED BY <2>1, <2>3, <3>1, CountedKeeps
  <2> QED BY <1>12, <2>2, <2>3
<1> QED BY <1>6, <1>7, <1>10, <1>11, <1>12

-----------------------------------------------------------------------------
RoutingInv ==
  /\ RoutingTypeOK
  /\ work # NoWork => WorkInv(work)
  /\ IsFiniteSet(results) /\ Cardinality(results) <= MaxEntries
  /\ \A r \in results : r.created \in Nat /\ r.expires = r.created + r.decision.cache.maxAge

LEMMA RoutingInitially == RoutingInit => RoutingInv
<1> SUFFICES ASSUME RoutingInit PROVE RoutingInv
  OBVIOUS
<1>1. evaluations = {} /\ now = 0 /\ work = NoWork /\ results = {}
  BY DEF RoutingInit
<1>2. RoutingTypeOK
  BY <1>1, FS_EmptySet DEF RoutingTypeOK
<1>3. IsFiniteSet(results) /\ Cardinality(results) <= MaxEntries
  BY <1>1, FS_EmptySet, RoutingAssumption
<1> QED BY <1>1, <1>2, <1>3 DEF RoutingInv

LEMMA RoutingKeeps ==
  ASSUME RoutingInv, [RoutingNext]_routingVars
  PROVE  RoutingInv'
<1>0. RoutingTypeOK /\ now \in Nat /\ (work # NoWork => WorkInv(work))
  BY DEF RoutingInv, RoutingTypeOK
<1>1. ASSUME UNCHANGED <<evaluations, now>> PROVE RoutingTypeOK'
  BY <1>0, <1>1 DEF RoutingTypeOK
<1>2. ASSUME UNCHANGED results
      PROVE  /\ IsFiniteSet(results') /\ Cardinality(results') <= MaxEntries
             /\ \A r \in results' : r.created \in Nat /\ r.expires = r.created + r.decision.cache.maxAge
  BY <1>2 DEF RoutingInv
<1>3. ASSUME NEW e \in Evaluations, RegisterEvaluation(e) PROVE RoutingInv'
  <2>1. /\ \A d \in evaluations : d.id # e.id
        /\ evaluations' = evaluations \cup {e} /\ UNCHANGED <<now, work, results>>
    BY <1>3 DEF RegisterEvaluation
  <2>2. evaluations' \subseteq Evaluations /\ \A d, f \in evaluations' : d.id = f.id => d = f
    BY <1>0, <2>1 DEF RoutingTypeOK
  <2>3. IsFiniteSet(evaluations')
    BY <1>0, <2>1, FS_AddElement DEF RoutingTypeOK
  <2>4. RoutingTypeOK'
    BY <1>0, <2>1, <2>2, <2>3 DEF RoutingTypeOK
  <2>5. work' # NoWork => WorkInv(work')
    BY <1>0, <2>1
  <2> QED BY <1>2, <2>1, <2>4, <2>5 DEF RoutingInv
<1>4. ASSUME UNCHANGED <<evaluations, now, work, results>> PROVE RoutingInv'
  <2>1. work' # NoWork => WorkInv(work')
    BY <1>0, <1>4
  <2> QED BY <1>1, <1>2, <1>4, <2>1 DEF RoutingInv
<1>5. ASSUME NEW q \in RouteRequests, RouteTask(q) PROVE RoutingInv'
  <2>1. PICK d : d = RoutingDecision(q)
    OBVIOUS
  <2>2. PICK w : w = [request |-> q, decision |-> d, calls |-> 0, critiques |-> 0, repairs |-> 0,
                      escalation |-> 0, spent |-> 0, last |-> "routed"]
    OBVIOUS
  <2>3. work' = w /\ ~Refused(q) /\ UNCHANGED <<evaluations, now, results>>
    BY <1>5, <2>1, <2>2 DEF RouteTask
  <2>4. DecisionOk(q, d)
    BY <1>0, <2>1, <2>3, RoutedOk
  <2>5. /\ DOMAIN w = WorkFields /\ w = [x \in WorkFields |-> w[x]]
        /\ w.request = q /\ w.decision = d /\ w.calls = 0 /\ w.escalation = 0 /\ w.spent = 0 /\ w.last = "routed"
    BY <2>2 DEF WorkFields
  <2>6. 0 \in 0 .. d.plan.calls /\ 0 \in 0 .. Len(d.escalations) /\ 0 <= 0 * CallBudget(q)
    <3>1. d.plan.calls \in Nat /\ Len(d.escalations) \in Nat /\ CallCeiling(q) > 0 /\ CallCeiling(q) \in Nat
      BY <2>4 DEF DecisionOk
    <3>2. 0 \in 0 .. CallCeiling(q) /\ RequestTyped(q)
      BY <3>1, RoutingAssumption
    <3>3. CallBudget(q) \in Nat
      BY <3>1, <3>2, BudgetHolds
    <3> QED BY <3>1, <3>3
  <2>7. WorkInv(w)
    BY <2>4, <2>5, <2>6 DEF WorkInv
  <2> QED BY <1>1, <1>2, <2>3, <2>7 DEF RoutingInv
<1>6. ASSUME RunBranches PROVE RoutingInv'
  <2>1. PICK n : n = work.decision.plan.branches
    OBVIOUS
  <2>2. work # NoWork /\ work.last = "routed" /\ work' = Called(work, work.decision.primary, n, "answered")
        /\ UNCHANGED <<evaluations, now, results>>
    BY <1>6, <2>1 DEF RunBranches
  <2>3. WorkInv(work)
    BY <1>0, <2>2
  <2>4. work.calls = 0 /\ n \in 0 .. work.decision.plan.calls /\ work.decision.plan.calls \in Nat
        /\ Affordable(work.request, work.decision.primary)
    BY <2>1, <2>2, <2>3 DEF WorkInv, DecisionOk
  <2>5. n \in Nat /\ work.calls + n <= work.decision.plan.calls
    BY <2>4
  <2>6. WorkInv(work')
    BY <2>2, <2>3, <2>4, <2>5, CalledKeeps
  <2> QED BY <1>1, <1>2, <2>2, <2>6 DEF RoutingInv
<1>7. ASSUME NEW s, ControllerNext(s) PROVE RoutingInv'
  <2>1. work # NoWork /\ UNCHANGED <<evaluations, now, results>>
    BY <1>7 DEF ControllerNext
  <2>2. WorkInv(work')
    BY <1>0, <1>7, <2>1, ControllerKeeps
  <2> QED BY <1>1, <1>2, <2>1, <2>2 DEF RoutingInv
<1>8. ASSUME NEW a, CacheResult(a) PROVE RoutingInv'
  <2>1. PICK r : r = [decision |-> work.decision, answer |-> a, created |-> now, expires |-> now + work.decision.cache.maxAge]
    OBVIOUS
  <2>2. PICK grown : grown = results \cup {r}
    OBVIOUS
  <2>3. /\ UNCHANGED <<evaluations, now, work>>
        /\ IF Cardinality(grown) <= MaxEntries THEN results' = grown ELSE \E t \in Oldest(grown) : results' = grown \ {t}
    BY <1>8, <2>1, <2>2 DEF CacheResult
  <2>4. IsFiniteSet(results) /\ Cardinality(results) <= MaxEntries /\ MaxEntries \in Nat /\ Cardinality(results) \in Nat
    BY FS_CardinalityType, RoutingAssumption DEF RoutingInv
  <2>5. IsFiniteSet(grown) /\ Cardinality(grown) <= Cardinality(results) + 1 /\ Cardinality(grown) \in Nat
    <3>1. IsFiniteSet(results \cup {r}) /\ Cardinality(results \cup {r}) = IF r \in results THEN Cardinality(results) ELSE Cardinality(results) + 1
      BY <2>4, FS_AddElement
    <3> QED BY <2>2, <2>4, <3>1
  <2>6. IsFiniteSet(results') /\ Cardinality(results') <= MaxEntries /\ results' \subseteq grown
    <3>1. CASE Cardinality(grown) <= MaxEntries
      BY <2>3, <2>5, <3>1
    <3>2. CASE ~(Cardinality(grown) <= MaxEntries)
      <4>1. PICK t \in grown : results' = grown \ {t}
        BY <2>3, <3>2 DEF Oldest
      <4>2. IsFiniteSet(grown \ {t}) /\ Cardinality(grown \ {t}) = Cardinality(grown) - 1
        BY <2>5, FS_RemoveElement
      <4> QED BY <2>4, <2>5, <4>1, <4>2
    <3> QED BY <3>1, <3>2
  <2>7. \A t \in grown : t.created \in Nat /\ t.expires = t.created + t.decision.cache.maxAge
    BY <1>0, <2>1, <2>2 DEF RoutingInv
  <2>8. work' # NoWork => WorkInv(work')
    BY <1>0, <2>3
  <2> QED BY <1>1, <2>3, <2>6, <2>7, <2>8 DEF RoutingInv
<1>9. ASSUME ReadExpired PROVE RoutingInv'
  <2>1. PICK r : results' = results \ {r} /\ r \in results
    BY <1>9 DEF ReadExpired, CachedUnder
  <2>2. UNCHANGED <<evaluations, now, work>>
    BY <1>9 DEF ReadExpired
  <2>3. IsFiniteSet(results) /\ Cardinality(results) <= MaxEntries /\ MaxEntries \in Nat /\ Cardinality(results) \in Nat
    BY FS_CardinalityType, RoutingAssumption DEF RoutingInv
  <2>4. IsFiniteSet(results \ {r}) /\ Cardinality(results \ {r}) = Cardinality(results) - 1
    BY <2>1, <2>3, FS_RemoveElement
  <2>5. work' # NoWork => WorkInv(work')
    BY <1>0, <2>2
  <2>6. IsFiniteSet(results') /\ Cardinality(results') <= MaxEntries
    BY <2>1, <2>3, <2>4
  <2> QED BY <1>1, <2>1, <2>2, <2>5, <2>6 DEF RoutingInv
<1>10. ASSUME RoutingTick PROVE RoutingInv'
  <2>1. now' = now + 1 /\ UNCHANGED <<evaluations, work, results>>
    BY <1>10 DEF RoutingTick
  <2>2. RoutingTypeOK'
    BY <1>0, <2>1 DEF RoutingTypeOK
  <2>3. work' # NoWork => WorkInv(work')
    BY <1>0, <2>1
  <2> QED BY <1>2, <2>1, <2>2, <2>3 DEF RoutingInv
<1>11. \A f : ReportFailure(f) => UNCHANGED <<evaluations, now, work, results>>
  BY DEF ReportFailure
<1>12. UNCHANGED routingVars => UNCHANGED <<evaluations, now, work, results>>
  BY DEF routingVars
<1> QED BY <1>3, <1>4, <1>5, <1>6, <1>7, <1>8, <1>9, <1>10, <1>11, <1>12 DEF RoutingNext

LEMMA RoutingInvSound ==
  ASSUME RoutingInv
  PROVE  RoutingSound
<1>1. DecisionsRest
  BY DecisionsRestOn DEF RoutingInv
<1>2. SpendingBounded
  <2> SUFFICES ASSUME work # NoWork, NEW q, q = work.request
               PROVE  /\ work.calls <= q.budget.calls
                      /\ work.calls * TokensPerCall(q) <= q.budget.tokens
                      /\ work.spent <= q.budget.cost * PriceUnit
                      /\ work.last = "BLOCK" => work.calls = work.decision.plan.calls \/ work.escalation = Len(work.decision.escalations)
    BY DEF SpendingBounded
  <2>1. /\ q \in RouteRequests /\ DecisionOk(q, work.decision) /\ work.calls \in 0 .. work.decision.plan.calls
        /\ work.spent \in Nat /\ work.spent <= work.calls * CallBudget(q)
        /\ work.last = "BLOCK" => work.calls = work.decision.plan.calls \/ work.escalation = Len(work.decision.escalations)
    BY DEF RoutingInv, WorkInv
  <2>2. RequestTyped(q) /\ CallCeiling(q) > 0 /\ work.calls \in 0 .. CallCeiling(q) /\ CallCeiling(q) \in Nat
    BY <2>1, RoutingAssumption DEF DecisionOk
  <2>3. CallBudget(q) \in Nat /\ work.calls * CallBudget(q) <= q.budget.cost * PriceUnit
        /\ work.calls * TokensPerCall(q) <= q.budget.tokens
    BY <2>2, BudgetHolds
  <2>4. CallCeiling(q) <= q.budget.calls /\ q.budget.calls \in Nat
    <3>1. CallCeiling(q) <= q.budget.calls
      BY <2>2, CeilingPaid
    <3>2. RequestTyped(q)
      BY <2>2
    <3>3. q.budget.calls \in Nat
      BY <3>2 DEF RequestTyped
    <3> QED BY <3>1, <3>3
  <2>5. work.calls <= q.budget.calls
    BY <2>2, <2>4
  <2>6. work.spent <= q.budget.cost * PriceUnit
    <3>1. q.budget.cost \in Nat
      BY <2>2 DEF RequestTyped
    <3>2. PICK x, y, z : x = work.spent /\ y = work.calls * CallBudget(q) /\ z = q.budget.cost * PriceUnit
      OBVIOUS
    <3>3. x \in Nat /\ x <= y /\ y <= z
      BY <2>1, <2>3, <3>2
    <3>4. y \in Nat /\ z \in Nat
      BY <2>2, <2>3, <3>1, <3>2, RoutingAssumption
    <3>5. x <= z
      BY <3>3, <3>4
    <3> QED BY <3>2, <3>5
  <2> QED BY <2>1, <2>3, <2>5, <2>6
<1>3. HitsCurrent
  <2> SUFFICES ASSUME NEW q \in RouteRequests, ~Refused(q), NEW d, d = RoutingDecision(q), NEW r \in Hit(d)
               PROVE  RestsOn(q, r.decision.primary.evaluation) /\ now - r.created < q.cache.maxAge /\ ~q.cache.sensitive
    BY DEF HitsCurrent
  <2>1. r \in results /\ d.cache.read /\ r.decision = d /\ now < r.expires
    BY DEF Hit
  <2>2. d.cache = cacheDecision(q, d.primary) /\ d.primary \in RoutingCandidates(q)
    BY DecisionParts DEF RoutingInv
  <2>3. d.cache.maxAge = q.cache.maxAge /\ (d.cache.read => ~q.cache.sensitive)
    <3>1. PICK c : c = cacheDecision(q, d.primary)
      OBVIOUS
    <3>2. c.maxAge = q.cache.maxAge /\ (c.read => ~q.cache.sensitive)
      BY <3>1 DEF cacheDecision
    <3> QED BY <2>2, <3>1, <3>2
  <2>4. RestsOn(q, d.primary.evaluation)
    BY <2>2, CandidateFacts DEF RoutingInv
  <2>5. r.created \in Nat /\ r.expires = r.created + q.cache.maxAge /\ now \in Nat
    BY <2>1, <2>3 DEF RoutingInv, RoutingTypeOK
  <2>6. q.cache.maxAge \in Nat
    BY RoutingAssumption DEF RequestTyped
  <2>7. now - r.created < q.cache.maxAge
    BY <2>1, <2>5, <2>6
  <2> QED BY <2>1, <2>3, <2>4, <2>7
<1> QED BY <1>1, <1>2, <1>3 DEF RoutingSound, RoutingInv

-----------------------------------------------------------------------------
(* What is decided on evidence, together *)

DecisionsInv == GateInv /\ RecoveryInv /\ RoutingInv

\* The parts of a behaviour that decide nothing keep a request and a failure that are well-formed.
LEMMA DecisionsInitially ==
  ASSUME ServicesInit PROVE DecisionsInv
<1>1. GateInv
  <2>1. CASE part = "gate"
    BY <2>1, GateInitially DEF ServicesInit
  <2>2. CASE part # "gate"
    <3>1. PICK r : r = CodingRequest(0)
      OBVIOUS
    <3>2. gate = [request |-> r, outcome |-> "none", builtIn |-> FALSE]
      BY <2>2, <3>1 DEF ServicesInit
    <3>3. GateTyped(r)
      <4>1. r.at = 1 /\ DOMAIN r.claims = 1 .. 2 /\ DOMAIN r.evidence = 1 .. 2
        BY <3>1 DEF CodingRequest
      <4>2. \A i \in 1 .. 2 : r.claims[i].after = 1 /\ r.evidence[i].observed = 1 /\ r.evidence[i].class = "independent_tool"
        BY <3>1 DEF CodingRequest
      <4>3. IsFiniteSet(1 .. 2)
        <5>1. 1 \in Int /\ 2 \in Int
          OBVIOUS
        <5> QED BY <5>1, FS_Interval
      <4>4. \A c \in ToSet(r.claims) : c.after \in Int
        BY <4>1, <4>2 DEF ToSet
      <4>5. \A e \in ToSet(r.evidence) : e.observed \in Int /\ e.class \in EvidenceClasses
        BY <4>1, <4>2 DEF ToSet, EvidenceClasses
      <4> QED BY <4>1, <4>3, <4>4, <4>5 DEF GateTyped
    <3>4. gate.request = r /\ gate.outcome = "none" /\ gate.builtIn = FALSE
          /\ gate = [request |-> gate.request, outcome |-> gate.outcome, builtIn |-> gate.builtIn]
      BY <3>2
    <3> QED BY <3>3, <3>4 DEF GateInv, GateSound
  <2> QED BY <2>1, <2>2
<1>2. RecoveryInv
  <2>1. CASE part = "recovery"
    BY <2>1, RecoveryInitially DEF ServicesInit
  <2>2. CASE part # "recovery"
    <3>1. PICK s, b : s = RollbackSignal("other", "runtime") /\ b = [a \in Budgeted |-> 0]
      OBVIOUS
    <3>2. recovery = [signal |-> s, capable |-> {}, budget |-> b, attempts |-> <<>>] /\ decided = "none"
      BY <2>2, <3>1 DEF ServicesInit
    <3>3. SignalOk(s) /\ b \in [Budgeted -> Nat]
      BY <3>1 DEF RollbackSignal, SignalOk
    <3>4. /\ recovery.signal = s /\ recovery.budget = b /\ recovery.attempts = <<>>
          /\ recovery = [signal |-> recovery.signal, capable |-> recovery.capable, budget |-> recovery.budget, attempts |-> recovery.attempts]
      BY <3>2
    <3>5. decided \notin Actions
      BY <3>2 DEF Actions, Budgeted
    <3>6. recovery.attempts \in Seq(STRING) /\ DOMAIN recovery.attempts = {}
      BY <3>4
    <3> QED BY <3>3, <3>4, <3>5, <3>6 DEF RecoveryInv
  <2> QED BY <2>1, <2>2
<1>3. RoutingInv
  BY RoutingInitially DEF ServicesInit
<1> QED BY <1>1, <1>2, <1>3 DEF DecisionsInv

LEMMA DecisionsStep ==
  ASSUME DecisionsInv, [ServicesNext]_<<part, backVars, engineVars, queueVars, runSkillVars, routingVars>>
  PROVE  DecisionsInv'
<1>1. \/ UNCHANGED gate
      \/ GateNext
  BY DEF ServicesNext, ClientsStep, CodingStep, RoutingStep, engineVars
<1>2. \/ UNCHANGED recoveryVars
      \/ RecoveryNext
  BY DEF ServicesNext, ClientsStep, CodingStep, RoutingStep, engineVars
<1>3. [RoutingNext]_routingVars
  BY DEF ServicesNext, ClientsStep, CodingStep, RoutingStep
<1>4. GateInv'
  <2>1. CASE UNCHANGED gate
    BY <2>1 DEF DecisionsInv, GateInv, GateSound
  <2>2. CASE GateNext
    BY <2>2, VerifySound DEF DecisionsInv
  <2> QED BY <1>1, <2>1, <2>2
<1>5. RecoveryInv'
  <2>1. CASE UNCHANGED recoveryVars
    BY <2>1 DEF DecisionsInv, RecoveryInv, recoveryVars
  <2>2. CASE RecoveryNext
    BY <2>2, DecideRecoveryInv, AttemptEndsInv DEF DecisionsInv, RecoveryNext
  <2> QED BY <1>2, <2>1, <2>2
<1>6. RoutingInv'
  BY <1>3, RoutingKeeps DEF DecisionsInv
<1> QED BY <1>4, <1>5, <1>6 DEF DecisionsInv

\* Whatever evidence, evaluations and failures there are: the gate passes only what is supported, an action is
\* neither unsafe nor over its budget nor a repetition, and a task goes to the cheapest model that current
\* evidence supports, within its budget (verification/engine.ts 65-331, reliability/controller.ts 42-237,
\* routing/router.ts, routing/multi-model.ts, routing/reasoning.ts, routing/cache.ts).
THEOREM DecisionsHold == ServicesSpec => []DecisionsSound
<1>1. ServicesInit => DecisionsInv
  BY DecisionsInitially
<1>2. DecisionsInv /\ [ServicesNext]_<<part, backVars, engineVars, queueVars, runSkillVars, routingVars>> => DecisionsInv'
  BY DecisionsStep
<1>3. DecisionsInv => DecisionsSound
  BY RecoveryInvSafe, RoutingInvSound DEF DecisionsInv, DecisionsSound, GateInv
<1> QED BY <1>1, <1>2, <1>3, PTL DEF ServicesSpec

-----------------------------------------------------------------------------
(* The orchestrator of one file (runtime/coding.ts)                         *)

CallActive == {"step", "append", "reload"}
SomeText == Texts \cup {0}

CallState == [script : {"none", "start", "diagnose", "repair", "fail", "complete", "deny"}, step : Nat,
              at : CallActive \cup {"idle", "threw", "interrupted", "completed"},
              fresh : BOOLEAN, same : BOOLEAN, seen : SomeText, proposal : SomeText, exit : {0, 1}]
AnswerRecord == [label : {"initial-patch", "quality-first", "repair", "quality-repair"},
                 input : (SomeText \X SomeText) \cup {<<>>}, exit : {0, 1}, on : SomeText]

CodingTypeOK ==
  /\ file \in [text : SomeText, tail : {LongFile, FALSE}]
  /\ mission = [state |-> mission.state, plan |-> mission.plan]
  /\ driver \in [Drivers -> CallState]
  /\ keyed \in Seq(AnswerRecord)
  /\ outside \in Nat

Answered(k, label) == \E i \in DOMAIN k : k[i].label = label
FirstFailed(k) == \E i \in DOMAIN k : k[i].label = "quality-first" /\ k[i].exit = 1
QualityPassed(k) == \E i \in DOMAIN k : k[i].label \in {"quality-first", "quality-repair"} /\ k[i].exit = 0

\* The keys are used once and in their order, and a quality run answers for the text it saw.
KeyedOk(k) ==
  /\ \A i, j \in DOMAIN k : i # j => k[i].label # k[j].label
  /\ Answered(k, "quality-first") => Answered(k, "initial-patch")
  /\ Answered(k, "repair") => FirstFailed(k)
  /\ Answered(k, "quality-repair") => Answered(k, "repair")
  /\ \A i \in DOMAIN k : k[i].label \in {"quality-first", "quality-repair"} => k[i].exit = ExitCode(k[i].on)

\* What the newest quality run saw is still there.
Newest(k, i) == k[i].label = "quality-repair" \/ (k[i].label = "quality-first" /\ ~Answered(k, "repair"))
FileInv == outside = 0 => \A i \in DOMAIN keyed : Newest(keyed, i) => file.text = keyed[i].on

\* Where a call is, and what was done before it got there.
CallOk(r, k, m) ==
  /\ r.at \in CallActive =>
       /\ r.script \in DOMAIN Scripts /\ r.step \in 1 .. Len(Scripts[r.script])
       /\ r.at # "step" => Scripts[r.script][r.step].do = "op"
  /\ r.script = "start" /\ r.step > 11 => Answered(k, "initial-patch")
  /\ r.script \in {"diagnose", "repair"} => FirstFailed(k)
  /\ r.script = "repair" /\ r.step > 8 => Answered(k, "repair")
  /\ r.script = "complete" => QualityPassed(k)
  /\ r.at = "append" /\ r.fresh => m.state # "COMPLETED"
  /\ r.script = "complete" /\ (r.step = 9 \/ (r.step = 8 /\ (r.at = "reload" \/ (r.at = "append" /\ r.same)))) => m.state = "COMPLETED"
  /\ r.at = "completed" => m.state = "COMPLETED"

\* What was done before the mission got where it is.
MissionOk(k, m) ==
  /\ m.state \in {"CHECKPOINTING", "FINAL_AUDIT", "COMPLETED"} => QualityPassed(k)
  /\ m.state = "DIAGNOSING" => FirstFailed(k)

CodingInv == CodingTypeOK /\ KeyedOk(keyed) /\ FileInv /\ MissionOk(keyed, mission) /\ \A d \in Drivers : CallOk(driver[d], keyed, mission)

\* The scripts, position by position: what every step does, what it asks of the mission, and where a call may go on.
ScriptFact(s, n) ==
  LET x == Scripts[s][n] IN
  /\ x.do \notin {"quality", "decide", "throw", "return"} => n < Len(Scripts[s])
  /\ x.do = "patch" => (s = "start" /\ n = 11 /\ x.label = "initial-patch") \/ (s = "repair" /\ n = 8 /\ x.label = "repair")
  /\ x.do = "quality" => (s = "start" /\ n = 16 /\ x.label = "quality-first") \/ (s = "repair" /\ n = 11 /\ x.label = "quality-repair")
  /\ x.do = "return" => s = "complete" /\ n = 9
  /\ x.do = "decide" => s = "diagnose"
  /\ s = "start" /\ n = 11 => x.do = "patch"
  /\ s = "repair" /\ n = 8 => x.do = "patch"
  /\ s = "complete" /\ n = 8 => x.do = "op" /\ x.label = "completed" /\ x.to = "COMPLETED"
  /\ x.do = "op" /\ x.label = "completed" => s = "complete" /\ n = 8
  /\ x.to \in {"CHECKPOINTING", "FINAL_AUDIT", "COMPLETED"} => s = "complete"
  /\ x.to = "DIAGNOSING" => s = "diagnose"
  /\ x.label = "create" => s = "start"

LEMMA StartFacts == Len(Scripts["start"]) = 16 /\ \A n \in 1 .. 16 : ScriptFact("start", n)
<1>1. Scripts["start"] = StartScript /\ Len(StartScript) = 16
  BY DEF Scripts, StartScript
<1>2.
  /\ StartScript[1] = Do("plan", "plan") /\ StartScript[2] = Op("create", "CREATED") /\ StartScript[3] = Op("bootstrap-usage", "stays")
  /\ StartScript[4] = Op("state-understanding", "UNDERSTANDING") /\ StartScript[5] = Op("state-retrieving", "RETRIEVING") /\ StartScript[6] = Op("state-planning", "PLANNING")
  /\ StartScript[7] = Op("state-risk_check", "RISK_CHECK") /\ StartScript[8] = Op("state-executing", "EXECUTING") /\ StartScript[9] = Op("change-running", "stays")
  /\ StartScript[10] = Op("initial-patch-reserve", "stays") /\ StartScript[11] = Do("patch", "initial-patch") /\ StartScript[12] = Op("quality-running", "stays")
  /\ StartScript[13] = Op("state-observing", "OBSERVING") /\ StartScript[14] = Op("state-verifying", "VERIFYING") /\ StartScript[15] = Op("quality-first-reserve", "stays")
  /\ StartScript[16] = Do("quality", "quality-first")
  BY DEF StartScript
<1>3. \A n \in 1 .. 16 : n = 1 \/ n = 2 \/ n = 3 \/ n = 4 \/ n = 5 \/ n = 6 \/ n = 7 \/ n = 8 \/ n = 9 \/ n = 10 \/ n = 11 \/ n = 12 \/ n = 13 \/ n = 14 \/ n = 15 \/ n = 16
  OBVIOUS
<1>4. SUFFICES ASSUME NEW n \in 1 .. 16 PROVE ScriptFact("start", n)
  BY <1>1
<1> QED BY <1>1, <1>2, <1>3 DEF ScriptFact, Op, Do

LEMMA DiagnoseFacts == Len(Scripts["diagnose"]) = 3 /\ \A n \in 1 .. 3 : ScriptFact("diagnose", n)
<1>1. Scripts["diagnose"] = DiagnoseScript /\ Len(DiagnoseScript) = 3
  BY DEF Scripts, DiagnoseScript
<1>2.
  /\ DiagnoseScript[1] = Op("quality-failure", "stays") /\ DiagnoseScript[2] = Op("diagnosing", "DIAGNOSING") /\ DiagnoseScript[3] = Do("decide", "decide")
  BY DEF DiagnoseScript
<1>3. \A n \in 1 .. 3 : n = 1 \/ n = 2 \/ n = 3
  OBVIOUS
<1>4. SUFFICES ASSUME NEW n \in 1 .. 3 PROVE ScriptFact("diagnose", n)
  BY <1>1
<1> QED BY <1>1, <1>2, <1>3 DEF ScriptFact, Op, Do

LEMMA RepairFacts == Len(Scripts["repair"]) = 11 /\ \A n \in 1 .. 11 : ScriptFact("repair", n)
<1>1. Scripts["repair"] = RepairScript /\ Len(RepairScript) = 11
  BY DEF Scripts, RepairScript
<1>2.
  /\ RepairScript[1] = Op("repair-read-reserve", "stays") /\ RepairScript[2] = Do("read", "repair-read") /\ RepairScript[3] = Op("repair-model-attempt", "stays")
  /\ RepairScript[4] = Do("model", "repair-model") /\ RepairScript[5] = Op("repair-model-usage", "stays") /\ RepairScript[6] = Op("repairing", "REPAIRING")
  /\ RepairScript[7] = Op("repair-reserve", "stays") /\ RepairScript[8] = Do("patch", "repair") /\ RepairScript[9] = Op("verify-repair", "VERIFYING")
  /\ RepairScript[10] = Op("quality-repair-reserve", "stays") /\ RepairScript[11] = Do("quality", "quality-repair")
  BY DEF RepairScript
<1>3. \A n \in 1 .. 11 : n = 1 \/ n = 2 \/ n = 3 \/ n = 4 \/ n = 5 \/ n = 6 \/ n = 7 \/ n = 8 \/ n = 9 \/ n = 10 \/ n = 11
  OBVIOUS
<1>4. SUFFICES ASSUME NEW n \in 1 .. 11 PROVE ScriptFact("repair", n)
  BY <1>1
<1> QED BY <1>1, <1>2, <1>3 DEF ScriptFact, Op, Do

LEMMA FailFacts == Len(Scripts["fail"]) = 2 /\ \A n \in 1 .. 2 : ScriptFact("fail", n)
<1>1. Scripts["fail"] = FailScript /\ Len(FailScript) = 2
  BY DEF Scripts, FailScript
<1>2.
  /\ FailScript[1] = Op("repair-failed", "FAILED") /\ FailScript[2] = Do("throw", "still-failing")
  BY DEF FailScript
<1>3. \A n \in 1 .. 2 : n = 1 \/ n = 2
  OBVIOUS
<1>4. SUFFICES ASSUME NEW n \in 1 .. 2 PROVE ScriptFact("fail", n)
  BY <1>1
<1> QED BY <1>1, <1>2, <1>3 DEF ScriptFact, Op, Do

LEMMA CompleteFacts == Len(Scripts["complete"]) = 9 /\ \A n \in 1 .. 9 : ScriptFact("complete", n)
<1>1. Scripts["complete"] = CompleteScript /\ Len(CompleteScript) = 9
  BY DEF Scripts, CompleteScript
<1>2.
  /\ CompleteScript[1] = Op("verification-read-reserve", "stays") /\ CompleteScript[2] = Do("read", "verification-read") /\ CompleteScript[3] = Do("gate", "gate")
  /\ CompleteScript[4] = Op("change-verified", "stays") /\ CompleteScript[5] = Op("quality-verified", "stays") /\ CompleteScript[6] = Op("checkpointing", "CHECKPOINTING")
  /\ CompleteScript[7] = Op("final-audit", "FINAL_AUDIT") /\ CompleteScript[8] = Op("completed", "COMPLETED") /\ CompleteScript[9] = Do("return", "completed")
  BY DEF CompleteScript
<1>3. \A n \in 1 .. 9 : n = 1 \/ n = 2 \/ n = 3 \/ n = 4 \/ n = 5 \/ n = 6 \/ n = 7 \/ n = 8 \/ n = 9
  OBVIOUS
<1>4. SUFFICES ASSUME NEW n \in 1 .. 9 PROVE ScriptFact("complete", n)
  BY <1>1
<1> QED BY <1>1, <1>2, <1>3 DEF ScriptFact, Op, Do

LEMMA DenyFacts == Len(Scripts["deny"]) = 2 /\ \A n \in 1 .. 2 : ScriptFact("deny", n)
<1>1. Scripts["deny"] = DenyScript /\ Len(DenyScript) = 2
  BY DEF Scripts, DenyScript
<1>2.
  /\ DenyScript[1] = Op("verification-block", "BLOCKED") /\ DenyScript[2] = Do("throw", "denied")
  BY DEF DenyScript
<1>3. \A n \in 1 .. 2 : n = 1 \/ n = 2
  OBVIOUS
<1>4. SUFFICES ASSUME NEW n \in 1 .. 2 PROVE ScriptFact("deny", n)
  BY <1>1
<1> QED BY <1>1, <1>2, <1>3 DEF ScriptFact, Op, Do

LEMMA ScriptFacts ==
  /\ DOMAIN Scripts = {"start", "diagnose", "repair", "fail", "complete", "deny"}
  /\ \A s \in DOMAIN Scripts : Len(Scripts[s]) \in Nat \ {0} /\ \A n \in 1 .. Len(Scripts[s]) : ScriptFact(s, n)
<1>1. DOMAIN Scripts = {"start", "diagnose", "repair", "fail", "complete", "deny"}
  BY DEF Scripts
<1>2. ASSUME NEW s \in DOMAIN Scripts PROVE Len(Scripts[s]) \in Nat \ {0} /\ \A n \in 1 .. Len(Scripts[s]) : ScriptFact(s, n)
  <2>1. CASE s = "start"
    BY <2>1, StartFacts
  <2>2. CASE s = "diagnose"
    BY <2>2, DiagnoseFacts
  <2>3. CASE s = "repair"
    BY <2>3, RepairFacts
  <2>4. CASE s = "fail"
    BY <2>4, FailFacts
  <2>5. CASE s = "complete"
    BY <2>5, CompleteFacts
  <2>6. CASE s = "deny"
    BY <2>6, DenyFacts
  <2> QED BY <1>1, <1>2, <2>1, <2>2, <2>3, <2>4, <2>5, <2>6
<1> QED BY <1>1, <1>2

\* What has been answered stays answered, so a call that does not move keeps what it relies on.
Grows(k, l) ==
  /\ \A label \in {"initial-patch", "repair"} : Answered(k, label) => Answered(l, label)
  /\ FirstFailed(k) => FirstFailed(l)
  /\ QualityPassed(k) => QualityPassed(l)

LEMMA CallStays ==
  ASSUME NEW r, NEW k, NEW l, NEW m, CallOk(r, k, m), Grows(k, l)
  PROVE  CallOk(r, l, m)
<1> QED BY DEF CallOk, Grows

\* A call that moves on its own.
LEMMA CallMoves ==
  ASSUME CodingInv, NEW d \in Drivers, NEW next \in CallState, CallOk(next, keyed, mission), Set(d, next),
         UNCHANGED <<file, mission, keyed, outside>>
  PROVE  CodingInv'
<1>1. driver' = [driver EXCEPT ![d] = next] /\ driver \in [Drivers -> CallState]
  BY DEF Set, CodingInv, CodingTypeOK
<1>2. driver' \in [Drivers -> CallState]
  BY <1>1
<1>3. \A e \in Drivers : driver'[e] = IF e = d THEN next ELSE driver[e]
  BY <1>1
<1>4. CodingTypeOK'
  BY <1>2 DEF CodingInv, CodingTypeOK
<1>5. KeyedOk(keyed)' /\ FileInv' /\ MissionOk(keyed, mission)'
  BY DEF CodingInv, FileInv
<1>6. \A e \in Drivers : CallOk(driver'[e], keyed, mission)
  BY <1>3 DEF CodingInv
<1> QED BY <1>4, <1>5, <1>6 DEF CodingInv

\* What Past and Enter make of a record.
LEMMA PastTyped ==
  ASSUME NEW r \in CallState, NEW n \in Nat
  PROVE  /\ [r EXCEPT !.step = n, !.at = "step"] \in CallState
         /\ [r EXCEPT !.step = n, !.at = "step"].script = r.script
         /\ [r EXCEPT !.step = n, !.at = "step"].step = n /\ [r EXCEPT !.step = n, !.at = "step"].at = "step"
BY DEF CallState, CallActive

LEMMA EnterTyped ==
  ASSUME NEW r \in CallState, NEW s \in {"none", "start", "diagnose", "repair", "fail", "complete", "deny"}
  PROVE  /\ [r EXCEPT !.script = s, !.step = 1, !.at = "step"] \in CallState
         /\ [r EXCEPT !.script = s, !.step = 1, !.at = "step"].script = s
         /\ [r EXCEPT !.script = s, !.step = 1, !.at = "step"].step = 1
         /\ [r EXCEPT !.script = s, !.step = 1, !.at = "step"].at = "step"
BY DEF CallState, CallActive

\* Where a call goes: the next step of its script, or the first one of another.
LEMMA GoesOn ==
  ASSUME NEW r \in CallState, NEW k, NEW m, r.at \in {"step", "reload"}, CallOk(r, k, m),
         Scripts[r.script][r.step].do \notin {"quality", "decide", "throw", "return"},
         r.at = "step" => Scripts[r.script][r.step].do # "op",
         Scripts[r.script][r.step].do = "patch" => Answered(k, Scripts[r.script][r.step].label),
         NEW next, next.script = r.script, next.step = r.step + 1, next.at = "step"
  PROVE  CallOk(next, k, m) /\ r.step + 1 \in Nat
<1> DEFINE s == r.script
           n == r.step
           x == Scripts[s][n]
<1>1. s \in DOMAIN Scripts /\ n \in 1 .. Len(Scripts[s]) /\ (r.at = "reload" => x.do = "op") /\ n \in Nat
  BY DEF CallOk, CallActive, CallState
<1>2. Len(Scripts[s]) \in Nat \ {0} /\ ScriptFact(s, n)
  BY <1>1, ScriptFacts
<1>3. n < Len(Scripts[s])
  BY <1>1, <1>2 DEF ScriptFact
<1>4. /\ s = "start" /\ n > 11 => Answered(k, "initial-patch")
      /\ s = "repair" /\ n > 8 => Answered(k, "repair")
      /\ s = "complete" /\ n = 8 /\ r.at = "reload" => m.state = "COMPLETED"
      /\ s \in {"diagnose", "repair"} => FirstFailed(k)
      /\ s = "complete" => QualityPassed(k)
      /\ r.at = "step" => x.do # "op"
      /\ x.do = "patch" => Answered(k, x.label)
  BY DEF CallOk
<1>5. /\ s = "start" /\ n = 11 => x.do = "patch" /\ x.label = "initial-patch"
      /\ s = "repair" /\ n = 8 => x.do = "patch" /\ x.label = "repair"
      /\ s = "complete" /\ n = 8 => x.do = "op"
  BY <1>2 DEF ScriptFact
<1> HIDE DEF s, n, x
<1>6. n + 1 \in 1 .. Len(Scripts[s]) /\ n + 1 \in Nat
  BY <1>1, <1>2, <1>3
<1>7. s = "start" /\ n + 1 > 11 => Answered(k, "initial-patch")
  BY <1>1, <1>4, <1>5
<1>8. s = "repair" /\ n + 1 > 8 => Answered(k, "repair")
  BY <1>1, <1>4, <1>5
<1>9. s = "complete" /\ n + 1 = 9 => m.state = "COMPLETED"
  BY <1>1, <1>4, <1>5 DEF s, n
<1>a. next.script = s /\ next.step = n + 1 /\ next.at = "step"
  BY DEF s, n
<1> QED BY <1>1, <1>4, <1>6, <1>7, <1>8, <1>9, <1>a DEF CallOk, CallActive

LEMMA Enters ==
  ASSUME NEW k, NEW m, NEW next, next.script \in DOMAIN Scripts, next.step = 1, next.at = "step",
         next.script \in {"diagnose", "repair"} => FirstFailed(k), next.script = "complete" => QualityPassed(k)
  PROVE  CallOk(next, k, m)
<1>1. 1 \in 1 .. Len(Scripts[next.script])
  BY ScriptFacts
<1> QED BY <1>1 DEF CallOk, CallActive

\* A call that is over.
LEMMA CallEnds ==
  ASSUME NEW k, NEW m, NEW at \in {"idle", "threw", "interrupted", "completed"}, at = "completed" => m.state = "COMPLETED"
  PROVE  [Driver0 EXCEPT !.at = at] \in CallState /\ CallOk([Driver0 EXCEPT !.at = at], k, m)
BY DEF Driver0, CallState, CallOk, CallActive, SomeText

\* The record and the script of a call that is under way.
LEMMA CallFacts ==
  ASSUME CodingInv, NEW d \in Drivers
  PROVE  /\ driver[d] \in CallState /\ CallOk(driver[d], keyed, mission)
         /\ driver[d].at \in CallActive =>
              /\ driver[d].script \in DOMAIN Scripts /\ driver[d].step \in Nat
              /\ ScriptFact(driver[d].script, driver[d].step)
              /\ driver[d].at # "step" => Step(d).do = "op"
<1>1. driver[d] \in CallState /\ CallOk(driver[d], keyed, mission)
  BY DEF CodingInv, CodingTypeOK
<1>2. ASSUME driver[d].at \in CallActive
      PROVE  /\ driver[d].script \in DOMAIN Scripts /\ driver[d].step \in Nat
             /\ ScriptFact(driver[d].script, driver[d].step)
             /\ driver[d].at # "step" => Step(d).do = "op"
  <2>1. driver[d].script \in DOMAIN Scripts /\ driver[d].step \in 1 .. Len(Scripts[driver[d].script]) /\ (driver[d].at # "step" => Step(d).do = "op")
    BY <1>1, <1>2 DEF CallOk, Step
  <2>2. driver[d].step \in Nat
    BY <1>1 DEF CallState
  <2> QED BY <2>1, <2>2, ScriptFacts
<1> QED BY <1>1, <1>2

LEMMA StartsCoding ==
  ASSUME CodingInv, NEW d \in Drivers, Start(d) \/ Resume(d) PROVE CodingInv'
<1>1. CASE Start(d)
  <2> DEFINE next == [Driver0 EXCEPT !.script = "start", !.step = 1, !.at = "step", !.seen = file.text]
  <2>1. next \in CallState /\ next.script = "start" /\ next.step = 1 /\ next.at = "step"
    BY DEF CodingInv, CodingTypeOK, Driver0, CallState, CallActive, SomeText
  <2>2. Set(d, next) /\ UNCHANGED <<file, mission, keyed, outside>>
    BY <1>1 DEF Start, Set
  <2> HIDE DEF next
  <2>3. CallOk(next, keyed, mission)
    BY <2>1, Enters, ScriptFacts
  <2> QED BY <2>1, <2>2, <2>3, CallMoves
<1>2. CASE Resume(d)
  <2> DEFINE next == [Driver0 EXCEPT !.script = "repair", !.step = 1, !.at = "step", !.fresh = TRUE]
  <2>1. next \in CallState /\ next.script = "repair" /\ next.step = 1 /\ next.at = "step"
    BY DEF Driver0, CallState, CallActive, SomeText
  <2>2. Set(d, next) /\ UNCHANGED <<file, mission, keyed, outside>> /\ FirstFailed(keyed)
    BY <1>2 DEF Resume, Set, CodingInv, MissionOk
  <2> HIDE DEF next
  <2>3. CallOk(next, keyed, mission)
    BY <2>1, <2>2, Enters, ScriptFacts
  <2> QED BY <2>1, <2>2, <2>3, CallMoves
<1> QED BY <1>1, <1>2

LEMMA ProposesCoding ==
  ASSUME CodingInv, NEW d \in Drivers, NEW text \in Texts, Proposes(d, text) PROVE CodingInv'
<1> DEFINE past == [driver[d] EXCEPT !.step = driver[d].step + 1, !.at = "step"]
           next == [past EXCEPT !.proposal = text]
<1>1. driver[d] \in CallState /\ CallOk(driver[d], keyed, mission) /\ driver[d].step \in Nat
  BY CallFacts DEF CallState
<1>2. driver[d].at = "step" /\ Step(d).do \in {"plan", "model"}
  BY DEF Proposes, At
<1>3. past \in CallState /\ past.script = driver[d].script /\ past.step = driver[d].step + 1 /\ past.at = "step" /\ past = Past(d)
  <2>1. driver[d].step + 1 \in Nat
    BY <1>1
  <2>2. past = Past(d)
    BY DEF Past
  <2> QED BY <1>1, <2>1, <2>2, PastTyped
<1>4. Set(d, Threw(d)) \/ Set(d, next)
  BY <1>3 DEF Proposes
<1>5. CASE Set(d, Threw(d))
  BY <1>5, CallEnds, CallMoves DEF Threw, Proposes
<1>6. CASE Set(d, next)
  <2> HIDE DEF past
  <2>1. next \in CallState /\ next.script = driver[d].script /\ next.step = driver[d].step + 1 /\ next.at = "step"
    BY <1>3 DEF CallState, SomeText
  <2> HIDE DEF next
  <2>2. CallOk(next, keyed, mission)
    BY <1>1, <1>2, <2>1, GoesOn DEF Step
  <2> QED BY <1>6, <2>1, <2>2, CallMoves DEF Proposes
<1> QED BY <1>4, <1>5, <1>6

LEMMA OpLoadsCoding ==
  ASSUME CodingInv, NEW d \in Drivers, OpLoads(d) PROVE CodingInv'
<1> DEFINE s == Step(d)
           created == [driver[d] EXCEPT !.at = "append", !.fresh = mission.state = "none", !.same = mission.plan = driver[d].proposal]
           loaded == [driver[d] EXCEPT !.at = "append", !.same = FALSE]
<1>1. driver[d] \in CallState /\ CallOk(driver[d], keyed, mission)
  BY CallFacts
<1>2. driver[d].at = "step" /\ s.do = "op" /\ UNCHANGED <<file, mission, keyed, outside>>
  BY DEF OpLoads, At
<1>3. ScriptFact(driver[d].script, driver[d].step)
  BY <1>2, CallFacts DEF CallActive
<1>4. \/ Set(d, created) /\ s.label = "create"
      \/ Set(d, loaded) /\ driver[d].fresh /\ mission.state \notin Terminal
      \/ Set(d, Threw(d))
  BY DEF OpLoads
<1>5. CASE Set(d, created) /\ s.label = "create"
  <2>1. /\ created \in CallState /\ created.script = driver[d].script /\ created.step = driver[d].step
        /\ created.at = "append" /\ (created.fresh => mission.state = "none")
    BY <1>1 DEF CallState, CallActive
  <2>2. driver[d].script = "start"
    BY <1>3, <1>5 DEF ScriptFact, Step
  <2> HIDE DEF created
  <2>3. CallOk(created, keyed, mission)
    BY <1>1, <1>2, <2>1, <2>2 DEF CallOk, CallActive, Step
  <2> QED BY <1>2, <1>5, <2>1, <2>3, CallMoves
<1>6. CASE Set(d, loaded) /\ driver[d].fresh /\ mission.state \notin Terminal
  <2>1. /\ loaded \in CallState /\ loaded.script = driver[d].script /\ loaded.step = driver[d].step
        /\ loaded.at = "append" /\ loaded.same = FALSE
    BY <1>1 DEF CallState, CallActive
  <2> HIDE DEF loaded
  <2>3. CallOk(loaded, keyed, mission)
    BY <1>1, <1>2, <1>6, <2>1 DEF CallOk, CallActive, Step, Terminal
  <2> QED BY <1>2, <1>6, <2>1, <2>3, CallMoves
<1>7. CASE Set(d, Threw(d))
  BY <1>2, <1>7, CallEnds, CallMoves DEF Threw
<1> QED BY <1>4, <1>5, <1>6, <1>7

LEMMA OpReloadsCoding ==
  ASSUME CodingInv, NEW d \in Drivers, OpReloads(d) PROVE CodingInv'
<1> DEFINE past == [driver[d] EXCEPT !.step = driver[d].step + 1, !.at = "step"]
           next == [past EXCEPT !.fresh = TRUE, !.same = FALSE]
<1>1. driver[d] \in CallState /\ CallOk(driver[d], keyed, mission) /\ driver[d].step \in Nat
  BY CallFacts DEF CallState
<1>2. driver[d].at = "reload" /\ Step(d).do = "op"
  BY CallFacts DEF OpReloads, CallActive
<1>3. past \in CallState /\ past.script = driver[d].script /\ past.step = driver[d].step + 1 /\ past.at = "step" /\ past = Past(d)
  <2>1. driver[d].step + 1 \in Nat
    BY <1>1
  <2>2. past = Past(d)
    BY DEF Past
  <2> QED BY <1>1, <2>1, <2>2, PastTyped
<1>4. Set(d, next) /\ UNCHANGED <<file, mission, keyed, outside>>
  BY <1>3 DEF OpReloads
<1> HIDE DEF past
<1>5. next \in CallState /\ next.script = driver[d].script /\ next.step = driver[d].step + 1 /\ next.at = "step"
  BY <1>3 DEF CallState
<1> HIDE DEF next
<1>6. CallOk(next, keyed, mission)
  BY <1>1, <1>2, <1>5, GoesOn DEF Step
<1> QED BY <1>4, <1>5, <1>6, CallMoves

LEMMA ReadsCoding ==
  ASSUME CodingInv, NEW d \in Drivers, Read(d) PROVE CodingInv'
<1> DEFINE past == [driver[d] EXCEPT !.step = driver[d].step + 1, !.at = "step"]
           next == [past EXCEPT !.seen = file.text]
<1>1. driver[d] \in CallState /\ CallOk(driver[d], keyed, mission) /\ driver[d].step + 1 \in Nat
  BY CallFacts DEF CallState
<1>2. driver[d].at = "step" /\ Step(d).do = "read"
  BY DEF Read, At
<1>3. past \in CallState /\ past.script = driver[d].script /\ past.step = driver[d].step + 1 /\ past.at = "step"
  BY <1>1, PastTyped
<1>4. past = Past(d)
  BY DEF Past
<1>5. Set(d, next) /\ UNCHANGED <<file, mission, keyed, outside>>
  BY <1>4 DEF Read
<1>6. file.text \in SomeText
  BY DEF CodingInv, CodingTypeOK
<1> HIDE DEF past
<1>7. next \in CallState /\ next.script = driver[d].script /\ next.step = driver[d].step + 1 /\ next.at = "step"
  BY <1>3, <1>6 DEF CallState
<1> HIDE DEF next
<1>8. CallOk(next, keyed, mission)
  BY <1>1, <1>2, <1>7, GoesOn DEF Step
<1> QED BY <1>5, <1>7, <1>8, CallMoves

LEMMA DecidesCoding ==
  ASSUME CodingInv, NEW d \in Drivers, NEW b \in BOOLEAN, AfterFailure(d, b) PROVE CodingInv'
<1>1. driver[d] \in CallState /\ CallOk(driver[d], keyed, mission)
  BY CallFacts
<1>2. driver[d].at = "step" /\ Step(d).do = "decide" /\ UNCHANGED <<file, mission, keyed, outside>>
  BY DEF AfterFailure, At
<1>3. FirstFailed(keyed)
  BY <1>1, <1>2, CallFacts DEF CallActive, ScriptFact, Step, CallOk
<1>4. \/ Set(d, Enter(d, "deny")) \/ Set(d, Enter(d, "repair")) \/ Set(d, [Driver0 EXCEPT !.at = "interrupted"])
  BY DEF AfterFailure
<1>5. CASE Set(d, Enter(d, "deny"))
  <2>1. Enter(d, "deny") \in CallState /\ Enter(d, "deny").script = "deny" /\ Enter(d, "deny").step = 1 /\ Enter(d, "deny").at = "step"
    BY <1>1, EnterTyped DEF Enter
  <2>2. CallOk(Enter(d, "deny"), keyed, mission)
    BY <1>3, <2>1, Enters, ScriptFacts
  <2> QED BY <1>2, <1>5, <2>1, <2>2, CallMoves
<1>6. CASE Set(d, Enter(d, "repair"))
  <2>1. Enter(d, "repair") \in CallState /\ Enter(d, "repair").script = "repair" /\ Enter(d, "repair").step = 1 /\ Enter(d, "repair").at = "step"
    BY <1>1, EnterTyped DEF Enter
  <2>2. CallOk(Enter(d, "repair"), keyed, mission)
    BY <1>3, <2>1, Enters, ScriptFacts
  <2> QED BY <1>2, <1>6, <2>1, <2>2, CallMoves
<1>7. CASE Set(d, [Driver0 EXCEPT !.at = "interrupted"])
  BY <1>2, <1>7, CallEnds, CallMoves
<1> QED BY <1>4, <1>5, <1>6, <1>7

LEMMA GatesCoding ==
  ASSUME CodingInv, NEW d \in Drivers, NEW b \in BOOLEAN, Gate(d, b) PROVE CodingInv'
<1>1. driver[d] \in CallState /\ CallOk(driver[d], keyed, mission) /\ driver[d].step + 1 \in Nat
  BY CallFacts DEF CallState
<1>2. driver[d].at = "step" /\ Step(d).do = "gate" /\ UNCHANGED <<file, mission, keyed, outside>>
  BY DEF Gate, At
<1>3. Set(d, Past(d)) \/ Set(d, Enter(d, "deny"))
  BY DEF Gate
<1>4. CASE Set(d, Past(d))
  <2>1. Past(d) \in CallState /\ Past(d).script = driver[d].script /\ Past(d).step = driver[d].step + 1 /\ Past(d).at = "step"
    BY <1>1, PastTyped DEF Past
  <2>2. CallOk(Past(d), keyed, mission)
    BY <1>1, <1>2, <2>1, GoesOn DEF Step
  <2> QED BY <1>2, <1>4, <2>1, <2>2, CallMoves
<1>5. CASE Set(d, Enter(d, "deny"))
  <2>1. Enter(d, "deny") \in CallState /\ Enter(d, "deny").script = "deny" /\ Enter(d, "deny").step = 1 /\ Enter(d, "deny").at = "step"
    BY <1>1, EnterTyped DEF Enter
  <2>2. CallOk(Enter(d, "deny"), keyed, mission)
    BY <2>1, Enters, ScriptFacts
  <2> QED BY <1>2, <1>5, <2>1, <2>2, CallMoves
<1> QED BY <1>3, <1>4, <1>5

\* Only the last step of #complete reports a completion, after the mission was brought to COMPLETED.
LEMMA EndsCoding ==
  ASSUME CodingInv, NEW d \in Drivers, Ends(d) \/ DriverDies(d) PROVE CodingInv'
<1>1. driver[d] \in CallState /\ CallOk(driver[d], keyed, mission)
  BY CallFacts
<1>2. UNCHANGED <<file, mission, keyed, outside>>
  BY DEF Ends, DriverDies
<1>3. (At(d, "return") /\ Set(d, [Driver0 EXCEPT !.at = "completed"])) \/ Set(d, [Driver0 EXCEPT !.at = "threw"])
  BY DEF Ends, DriverDies, Threw
<1>4. CASE At(d, "return") /\ Set(d, [Driver0 EXCEPT !.at = "completed"])
  <2>1. driver[d].script = "complete" /\ driver[d].step = 9
    BY <1>1, <1>4, CallFacts DEF CallActive, ScriptFact, Step, At
  <2>2. mission.state = "COMPLETED"
    BY <1>1, <2>1 DEF CallOk
  <2> QED BY <1>2, <1>4, <2>2, CallEnds, CallMoves
<1>5. CASE Set(d, [Driver0 EXCEPT !.at = "threw"])
  BY <1>2, <1>5, CallEnds, CallMoves
<1> QED BY <1>3, <1>4, <1>5

\* One more answer under a new key.
LEMMA OneMoreAnswer ==
  ASSUME NEW k \in Seq(AnswerRecord), NEW a \in AnswerRecord
  PROVE  /\ Append(k, a) \in Seq(AnswerRecord) /\ Grows(k, Append(k, a)) /\ DOMAIN k \subseteq DOMAIN Append(k, a)
         /\ \A i \in DOMAIN Append(k, a) : (i \in DOMAIN k /\ Append(k, a)[i] = k[i]) \/ (i \notin DOMAIN k /\ Append(k, a)[i] = a)
         /\ \E i \in DOMAIN Append(k, a) : Append(k, a)[i] = a
         /\ \A i, j \in DOMAIN Append(k, a) : i \in DOMAIN k \/ j \in DOMAIN k \/ i = j
<1> DEFINE l == Append(k, a)
<1>1. Len(k) \in Nat /\ DOMAIN k = 1 .. Len(k) /\ l \in Seq(AnswerRecord) /\ DOMAIN l = 1 .. Len(k) + 1
  BY AppendProperties, LenProperties
<1>2. l[Len(k) + 1] = a /\ \A i \in 1 .. Len(k) : l[i] = k[i]
  BY AppendProperties
<1> HIDE DEF l
<1>3. DOMAIN k \subseteq DOMAIN l /\ \A i \in DOMAIN l : (i \in DOMAIN k /\ l[i] = k[i]) \/ (i \notin DOMAIN k /\ l[i] = a)
  BY <1>1, <1>2
<1>4. \A i \in DOMAIN k : i \in DOMAIN l /\ l[i] = k[i]
  BY <1>1, <1>2
<1>5. Grows(k, l)
  BY <1>4 DEF Grows, Answered, FirstFailed, QualityPassed
<1>6. \A i, j \in DOMAIN l : i \in DOMAIN k \/ j \in DOMAIN k \/ i = j
  BY <1>1
<1>7. Len(k) + 1 \in DOMAIN l
  BY <1>1
<1> QED BY <1>1, <1>2, <1>3, <1>5, <1>6, <1>7 DEF l

\* A call that moves with a new answer, of which the others know no more than before.
LEMMA CallAnswers ==
  ASSUME CodingInv, NEW d \in Drivers, NEW a \in AnswerRecord, NEW next \in CallState,
         keyed' = Append(keyed, a), ~Answered(keyed, a.label), Set(d, next),
         CallOk(next, keyed', mission), KeyedOk(keyed'), FileInv',
         file' \in [text : SomeText, tail : {LongFile, FALSE}], UNCHANGED <<mission, outside>>
  PROVE  CodingInv'
<1>1. driver' = [driver EXCEPT ![d] = next] /\ driver \in [Drivers -> CallState] /\ keyed \in Seq(AnswerRecord)
  BY DEF Set, CodingInv, CodingTypeOK
<1>2. driver' \in [Drivers -> CallState]
  BY <1>1
<1>3. \A e \in Drivers : driver'[e] = IF e = d THEN next ELSE driver[e]
  BY <1>1
<1>4. keyed' \in Seq(AnswerRecord) /\ Grows(keyed, keyed')
  BY <1>1, OneMoreAnswer
<1>5. CodingTypeOK'
  BY <1>2, <1>4 DEF CodingInv, CodingTypeOK
<1>6. MissionOk(keyed', mission')
  BY <1>4 DEF CodingInv, MissionOk, Grows
<1>7. \A e \in Drivers : CallOk(driver'[e], keyed', mission)
  BY <1>3, <1>4, CallStays DEF CodingInv
<1> QED BY <1>5, <1>6, <1>7 DEF CodingInv

\* #patch: a replay goes on, a second input or a file that is not what was read ends the call, and the file is written under a key of its own.
LEMMA PatchesCoding ==
  ASSUME CodingInv, NEW d \in Drivers, Patch(d) PROVE CodingInv'
<1> DEFINE label == Step(d).label
           r == driver[d]
           a == [label |-> label, input |-> <<driver[d].seen, driver[d].proposal>>, exit |-> 0, on |-> driver[d].proposal]
<1>1. r \in CallState /\ CallOk(r, keyed, mission) /\ r.step + 1 \in Nat /\ r.proposal \in SomeText /\ r.seen \in SomeText
  BY CallFacts DEF CallState
<1>2. r.at = "step" /\ Step(d).do = "patch"
  BY DEF Patch, At
<1>3. (r.script = "start" /\ r.step = 11 /\ label = "initial-patch") \/ (r.script = "repair" /\ r.step = 8 /\ label = "repair")
  BY <1>2, CallFacts DEF CallActive, ScriptFact, Step
<1>4. Past(d) \in CallState /\ Past(d).script = r.script /\ Past(d).step = r.step + 1 /\ Past(d).at = "step"
  BY <1>1, PastTyped DEF Past
<1>5. \/ Set(d, Threw(d)) /\ UNCHANGED <<file, keyed>>
      \/ Set(d, Past(d)) /\ Answered(keyed, label) /\ UNCHANGED <<file, keyed>>
      \/ /\ Set(d, Past(d)) /\ ~Answered(keyed, label) /\ keyed' = Append(keyed, a)
         /\ file' = Expanded(file, driver[d].proposal)
  BY DEF Patch, Keyed, Answered
<1>6. UNCHANGED <<mission, outside>>
  BY DEF Patch
<1>7. CASE Set(d, Threw(d)) /\ UNCHANGED <<file, keyed>>
  BY <1>6, <1>7, CallEnds, CallMoves DEF Threw
<1>8. CASE Set(d, Past(d)) /\ Answered(keyed, label) /\ UNCHANGED <<file, keyed>>
  <2>1. CallOk(Past(d), keyed, mission)
    BY <1>1, <1>2, <1>4, <1>8, GoesOn DEF Step
  <2> QED BY <1>4, <1>6, <1>8, <2>1, CallMoves
<1>9. CASE Set(d, Past(d)) /\ ~Answered(keyed, label) /\ keyed' = Append(keyed, a) /\ file' = Expanded(file, driver[d].proposal)
  <2>1. a \in AnswerRecord /\ a.label = label /\ a.exit = 0
    BY <1>1, <1>3 DEF AnswerRecord
  <2>2. file' \in [text : SomeText, tail : {LongFile, FALSE}]
    <3>1. file \in [text : SomeText, tail : {LongFile, FALSE}]
      BY DEF CodingInv, CodingTypeOK
    <3> QED BY <1>1, <1>9, <3>1 DEF Expanded, Binding, Bounded
  <2>3. keyed \in Seq(AnswerRecord) /\ KeyedOk(keyed)
    BY DEF CodingInv, CodingTypeOK
  <2> HIDE DEF a
  <2>4. /\ Grows(keyed, keyed') /\ DOMAIN keyed \subseteq DOMAIN keyed'
        /\ \A i \in DOMAIN keyed' : (i \in DOMAIN keyed /\ keyed'[i] = keyed[i]) \/ (i \notin DOMAIN keyed /\ keyed'[i] = a)
        /\ \E i \in DOMAIN keyed' : keyed'[i] = a
        /\ \A i, j \in DOMAIN keyed' : i \in DOMAIN keyed \/ j \in DOMAIN keyed \/ i = j
    BY <1>9, <2>1, <2>3, OneMoreAnswer
  <2>5. \A x : Answered(keyed', x) <=> Answered(keyed, x) \/ x = label
    BY <2>1, <2>4 DEF Answered
  <2>6. CallOk(r, keyed', mission)
    BY <1>1, <2>4, CallStays
  <2>7. CallOk(Past(d), keyed', mission)
    BY <1>1, <1>2, <1>4, <2>5, <2>6, GoesOn DEF Step
  <2>8. label = "repair" => FirstFailed(keyed)
    BY <1>1, <1>3 DEF CallOk
  <2>9. KeyedOk(keyed')
    <3>1. \A i, j \in DOMAIN keyed' : i # j => keyed'[i].label # keyed'[j].label
      BY <1>9, <2>1, <2>3, <2>4 DEF KeyedOk, Answered
    <3>2. /\ Answered(keyed', "quality-first") => Answered(keyed', "initial-patch")
          /\ Answered(keyed', "repair") => FirstFailed(keyed')
          /\ Answered(keyed', "quality-repair") => Answered(keyed', "repair")
      BY <1>3, <2>3, <2>4, <2>5, <2>8 DEF KeyedOk, Grows
    <3>3. \A i \in DOMAIN keyed' : keyed'[i].label \in {"quality-first", "quality-repair"} => keyed'[i].exit = ExitCode(keyed'[i].on)
      BY <1>3, <2>1, <2>3, <2>4 DEF KeyedOk
    <3> QED BY <3>1, <3>2, <3>3 DEF KeyedOk
  <2>a. \A i \in DOMAIN keyed' : ~Newest(keyed', i)
    <3>1. FirstFailed(keyed) => Answered(keyed, "quality-first")
      BY DEF FirstFailed, Answered
    <3>2. ~Answered(keyed', "quality-repair") /\ (Answered(keyed', "quality-first") => Answered(keyed', "repair"))
      BY <1>3, <1>9, <2>3, <2>5, <3>1 DEF KeyedOk
    <3> QED BY <3>2 DEF Newest, Answered
  <2>b. FileInv'
    BY <2>a DEF FileInv
  <2> QED BY <1>4, <1>6, <1>9, <2>1, <2>2, <2>7, <2>9, <2>b, CallAnswers
<1> QED BY <1>5, <1>7, <1>8, <1>9

\* A quality run that passes is on what the last patch wrote, unless somebody else edited the file.
LEMMA QualityCoding ==
  ASSUME CodingInv, NEW d \in Drivers, Quality(d) PROVE CodingInv'
<1> DEFINE label == Step(d).label
           r == driver[d]
           a == [label |-> label, input |-> <<>>, exit |-> ExitCode(file.text), on |-> file.text]
           to(exit) == IF exit = 0 THEN "complete" ELSE IF label = "quality-first" THEN "diagnose" ELSE "fail"
           next(exit) == AfterQuality(d, exit)
<1>1. r \in CallState /\ CallOk(r, keyed, mission) /\ keyed \in Seq(AnswerRecord) /\ KeyedOk(keyed) /\ FileInv
      /\ file \in [text : SomeText, tail : {LongFile, FALSE}]
  BY CallFacts DEF CodingInv, CodingTypeOK
<1>2. r.at = "step" /\ Step(d).do = "quality" /\ UNCHANGED <<file, mission, outside>>
  BY DEF Quality, At
<1>3. (r.script = "start" /\ r.step = 16 /\ label = "quality-first") \/ (r.script = "repair" /\ r.step = 11 /\ label = "quality-repair")
  BY <1>2, CallFacts DEF CallActive, ScriptFact, Step
<1>4. ASSUME NEW exit \in {0, 1}
      PROVE  /\ next(exit) \in CallState /\ next(exit).script = to(exit)
             /\ next(exit).step = 1 /\ next(exit).at = "step"
  <2> DEFINE e == Enter(d, to(exit))
  <2>1. PICK t \in {"none", "start", "diagnose", "repair", "fail", "complete", "deny"} : t = to(exit)
    OBVIOUS
  <2>2. e = [driver[d] EXCEPT !.script = t, !.step = 1, !.at = "step"]
    BY <2>1 DEF Enter
  <2>3. next(exit) = [e EXCEPT !.exit = exit]
    BY DEF AfterQuality
  <2> HIDE DEF e, to, next
  <2>4. e \in CallState /\ e.script = t /\ e.step = 1 /\ e.at = "step"
    BY <1>1, <2>2 DEF CallState, CallActive
  <2> QED BY <2>1, <2>3, <2>4 DEF CallState
<1>5. ASSUME NEW exit \in {0, 1}, NEW k, exit = 0 => QualityPassed(k), label = "quality-first" /\ exit = 1 => FirstFailed(k)
      PROVE  CallOk(next(exit), k, mission)
  <2>1. to(exit) \in {"complete", "diagnose", "fail"} /\ (to(exit) = "complete" => exit = 0) /\ (to(exit) = "diagnose" => label = "quality-first" /\ exit = 1)
    OBVIOUS
  <2> HIDE DEF to, next
  <2>2. next(exit).script = to(exit) /\ next(exit).step = 1 /\ next(exit).at = "step"
    BY <1>4
  <2> QED BY <1>5, <2>1, <2>2, Enters, ScriptFacts
<1>6. CASE Answered(keyed, label)
  <2>1. PICK i \in DOMAIN keyed : keyed[i].label = label /\ Answer(label) = keyed[i]
    BY <1>6 DEF Answered, Answer, Keyed
  <2>2. keyed[i] \in AnswerRecord /\ keyed[i].exit \in {0, 1}
    <3>1. i \in 1 .. Len(keyed)
      BY <1>1, LenProperties
    <3>2. keyed[i] \in AnswerRecord
      BY <1>1, <3>1, ElementOfSeq
    <3> QED BY <3>2 DEF AnswerRecord
  <2>3. Set(d, next(keyed[i].exit)) /\ UNCHANGED keyed
    BY <1>6, <2>1 DEF Quality, Keyed, Answered
  <2>4. (keyed[i].exit = 0 => QualityPassed(keyed)) /\ (label = "quality-first" /\ keyed[i].exit = 1 => FirstFailed(keyed))
    BY <1>3, <2>1 DEF QualityPassed, FirstFailed
  <2> HIDE DEF next
  <2>5. next(keyed[i].exit) \in CallState /\ CallOk(next(keyed[i].exit), keyed, mission)
    BY <1>4, <1>5, <2>2, <2>4
  <2> QED BY <1>2, <2>3, <2>5, CallMoves
<1>7. CASE ~Answered(keyed, label)
  <2>0. ExitCode(file.text) \in {0, 1}
    BY DEF ExitCode
  <2>1. a \in AnswerRecord /\ a.label = label /\ a.exit = ExitCode(file.text) /\ a.on = file.text
    BY <1>1, <1>3, <2>0 DEF AnswerRecord
  <2>2. Set(d, next(ExitCode(file.text))) /\ keyed' = Append(keyed, a)
    BY <1>7 DEF Quality, Keyed, Answered
  <2> HIDE DEF a, next
  <2>4. /\ Grows(keyed, keyed') /\ DOMAIN keyed \subseteq DOMAIN keyed'
        /\ \A i \in DOMAIN keyed' : (i \in DOMAIN keyed /\ keyed'[i] = keyed[i]) \/ (i \notin DOMAIN keyed /\ keyed'[i] = a)
        /\ \E i \in DOMAIN keyed' : keyed'[i] = a
        /\ \A i, j \in DOMAIN keyed' : i \in DOMAIN keyed \/ j \in DOMAIN keyed \/ i = j
    BY <1>1, <2>1, <2>2, OneMoreAnswer
  <2>5. \A x : Answered(keyed', x) <=> Answered(keyed, x) \/ x = label
    BY <2>1, <2>4 DEF Answered
  <2>6. (ExitCode(file.text) = 0 => QualityPassed(keyed')) /\ (label = "quality-first" /\ ExitCode(file.text) = 1 => FirstFailed(keyed'))
    BY <1>3, <2>1, <2>4 DEF QualityPassed, FirstFailed
  <2>7. next(ExitCode(file.text)) \in CallState /\ CallOk(next(ExitCode(file.text)), keyed', mission)
    BY <1>4, <1>5, <2>0, <2>6
  <2>8. (label = "quality-first" => Answered(keyed, "initial-patch")) /\ (label = "quality-repair" => Answered(keyed, "repair"))
    BY <1>1, <1>3 DEF CallOk
  <2>9. KeyedOk(keyed')
    <3>1. \A i, j \in DOMAIN keyed' : i # j => keyed'[i].label # keyed'[j].label
      BY <1>1, <1>7, <2>1, <2>4 DEF KeyedOk, Answered
    <3>2. /\ Answered(keyed', "quality-first") => Answered(keyed', "initial-patch")
          /\ Answered(keyed', "repair") => FirstFailed(keyed')
          /\ Answered(keyed', "quality-repair") => Answered(keyed', "repair")
      BY <1>1, <1>3, <2>4, <2>5, <2>8 DEF KeyedOk, Grows
    <3>3. \A i \in DOMAIN keyed' : keyed'[i].label \in {"quality-first", "quality-repair"} => keyed'[i].exit = ExitCode(keyed'[i].on)
      BY <1>1, <2>1, <2>4 DEF KeyedOk
    <3> QED BY <3>1, <3>2, <3>3 DEF KeyedOk
  <2>a. FileInv'
    <3>1. SUFFICES ASSUME outside = 0, NEW i \in DOMAIN keyed', Newest(keyed', i) PROVE file.text = keyed'[i].on
      BY <1>2 DEF FileInv
    <3>2. CASE i \notin DOMAIN keyed
      BY <2>1, <2>4, <3>2
    <3>3. CASE i \in DOMAIN keyed
      <4>1. keyed'[i] = keyed[i]
        BY <2>4, <3>3
      <4>2. Newest(keyed, i)
        BY <2>5, <3>1, <4>1 DEF Newest
      <4> QED BY <1>1, <3>1, <3>3, <4>1, <4>2 DEF FileInv
    <3> QED BY <3>2, <3>3
  <2> QED BY <1>1, <1>2, <1>7, <2>1, <2>2, <2>7, <2>9, <2>a, CallAnswers
<1> QED BY <1>6, <1>7

\* An edit from outside changes nothing that is promised once there was one.
LEMMA EditsCoding ==
  ASSUME CodingInv, NEW text \in Texts, OutsideEdit(text) PROVE CodingInv'
<1>1. outside' = outside + 1 /\ outside \in Nat /\ file \in [text : SomeText, tail : {LongFile, FALSE}]
      /\ file' = [file EXCEPT !.text = text] /\ UNCHANGED <<mission, driver, keyed>>
  BY DEF OutsideEdit, CodingInv, CodingTypeOK
<1>2. outside' # 0 /\ outside' \in Nat /\ file' \in [text : SomeText, tail : {LongFile, FALSE}]
  <2>1. text \in SomeText
    BY DEF SomeText
  <2>2. file' \in [text : SomeText, tail : {LongFile, FALSE}]
    BY <1>1, <2>1
  <2>3. outside' # 0 /\ outside' \in Nat
    BY <1>1
  <2> QED BY <2>2, <2>3
<1>3. CodingTypeOK'
  BY <1>1, <1>2 DEF CodingInv, CodingTypeOK
<1>4. FileInv'
  BY <1>2 DEF FileInv
<1> QED BY <1>1, <1>3, <1>4 DEF CodingInv

\* An event that another call appended is the same only at the same place of the same script, so COMPLETED is never left and a
\* call that replays "completed" finds the mission there.
LEMMA OpAppendsCoding ==
  ASSUME CodingInv, NEW d \in Drivers, NEW b \in BOOLEAN, OpAppends(d, b) PROVE CodingInv'
<1> DEFINE r == driver[d]
           s == Step(d)
           reload == [driver[d] EXCEPT !.at = "reload"]
<1>1. r \in CallState /\ CallOk(r, keyed, mission) /\ mission = [state |-> mission.state, plan |-> mission.plan]
      /\ driver \in [Drivers -> CallState] /\ UNCHANGED <<file, keyed, outside>>
  BY CallFacts DEF CodingInv, CodingTypeOK, OpAppends
<1>2. r.at = "append" /\ s.do = "op" /\ r.script \in DOMAIN Scripts /\ ScriptFact(r.script, r.step) /\ s = Scripts[r.script][r.step]
  BY CallFacts DEF CallActive, OpAppends, Step
<1>3. reload \in CallState /\ reload.script = r.script /\ reload.step = r.step /\ reload.at = "reload"
  BY <1>1 DEF CallState, CallActive
<1>4. CASE r.fresh
  <2> DEFINE told(e) == driver[e].at = "append" /\ driver[e].fresh /\ Event(e) = Event(d)
             moved(e) == IF e = d THEN reload ELSE [driver[e] EXCEPT !.fresh = FALSE, !.same = @ \/ told(e)]
  <2>1. driver' = [e \in Drivers |-> moved(e)]
    BY <1>4 DEF OpAppends
  <2>2. mission' = [state |-> IF s.to = "stays" THEN mission.state ELSE s.to, plan |-> IF s.to = "CREATED" THEN r.proposal ELSE mission.plan]
    BY <1>4 DEF OpAppends
  <2>3. mission'.state = (IF s.to = "stays" THEN mission.state ELSE s.to) /\ mission' = [state |-> mission'.state, plan |-> mission'.plan]
    BY <2>2
  <2>4. mission.state # "COMPLETED"
    BY <1>1, <1>2, <1>4 DEF CallOk
  <2>5. r.script = "complete" /\ r.step = 8 => mission'.state = "COMPLETED"
    BY <1>2, <2>3 DEF ScriptFact
  <2>6. MissionOk(keyed, mission')
    <3>1. s.to \in {"CHECKPOINTING", "FINAL_AUDIT", "COMPLETED"} => QualityPassed(keyed)
      BY <1>1, <1>2 DEF ScriptFact, CallOk
    <3>2. s.to = "DIAGNOSING" => FirstFailed(keyed)
      BY <1>1, <1>2 DEF ScriptFact, CallOk
    <3>3. MissionOk(keyed, mission)
      BY DEF CodingInv
    <3> QED BY <2>3, <3>1, <3>2, <3>3 DEF MissionOk
  <2>7. ASSUME NEW e \in Drivers PROVE moved(e) \in CallState /\ CallOk(moved(e), keyed, mission')
    <3>1. CASE e = d
      <4>1. CallOk(reload, keyed, mission')
        BY <1>1, <1>2, <1>3, <2>4, <2>5 DEF CallOk, CallActive, Step
      <4> QED BY <1>3, <3>1, <4>1
    <3>2. CASE e # d
      <4> DEFINE q == driver[e]
                 t == q.same \/ told(e)
                 m == [driver[e] EXCEPT !.fresh = FALSE, !.same = t]
      <4>1. q \in CallState /\ CallOk(q, keyed, mission) /\ moved(e) = m
        BY <3>2, CallFacts
      <4>2. t \in BOOLEAN
        BY <4>1 DEF CallState
      <4>3. told(e) => Step(e).label = s.label /\ q.at = "append"
        BY DEF Event
      <4> HIDE DEF told, moved
      <4>4. t => q.same \/ (Step(e).label = s.label /\ q.at = "append")
        BY <4>3
      <4> HIDE DEF t
      <4>5. m \in CallState /\ m.script = q.script /\ m.step = q.step /\ m.at = q.at /\ m.fresh = FALSE /\ m.same = t
        BY <4>1, <4>2 DEF CallState, CallActive
      <4>6. q.script = "complete" /\ q.step = 8 /\ q.at = "append" /\ Step(e).label = s.label => mission'.state = "COMPLETED"
        <5>1. SUFFICES ASSUME q.script = "complete", q.step = 8, q.at = "append", Step(e).label = s.label PROVE mission'.state = "COMPLETED"
          OBVIOUS
        <5>2. Step(e).label = "completed"
          BY <5>1, CallFacts DEF CallActive, ScriptFact, Step
        <5>3. r.script = "complete" /\ r.step = 8
          BY <1>2, <5>1, <5>2 DEF ScriptFact
        <5> QED BY <2>5, <5>3
      <4> HIDE DEF m
      <4>7. CallOk(m, keyed, mission')
        BY <2>4, <4>1, <4>4, <4>5, <4>6 DEF CallOk, CallActive
      <4> QED BY <4>1, <4>5, <4>7
    <3> QED BY <3>1, <3>2
  <2>8. driver' \in [Drivers -> CallState] /\ \A e \in Drivers : CallOk(driver'[e], keyed, mission')
    <3> HIDE DEF moved
    <3> QED BY <2>1, <2>7
  <2> QED BY <1>1, <2>3, <2>6, <2>8 DEF CodingInv, CodingTypeOK, FileInv
<1>5. CASE ~r.fresh
  <2>1. UNCHANGED mission /\ ((Set(d, reload) /\ r.same) \/ Set(d, Threw(d)))
    BY <1>5 DEF OpAppends
  <2>2. CASE Set(d, reload) /\ r.same
    <3>1. CallOk(reload, keyed, mission)
      BY <1>1, <1>2, <1>3, <2>2 DEF CallOk, CallActive, Step
    <3> QED BY <1>1, <1>3, <2>1, <2>2, <3>1, CallMoves
  <2>3. CASE Set(d, Threw(d))
    BY <1>1, <2>1, <2>3, CallEnds, CallMoves DEF Threw
  <2> QED BY <2>1, <2>2, <2>3
<1> QED BY <1>4, <1>5

LEMMA CodingStarts ==
  ASSUME CodingInit PROVE CodingInv
<1>1. CodingTypeOK
  BY DEF CodingInit, CodingTypeOK, SomeText, CallState, Driver0, CallActive
<1>2. keyed = <<>> /\ DOMAIN keyed = {} /\ mission.state = "none"
  BY DEF CodingInit
<1>3. KeyedOk(keyed) /\ FileInv /\ MissionOk(keyed, mission)
  BY <1>2 DEF KeyedOk, FileInv, MissionOk, Answered, Newest
<1>4. \A d \in Drivers : CallOk(driver[d], keyed, mission)
  BY DEF CodingInit, Driver0, CallOk, CallActive
<1> QED BY <1>1, <1>3, <1>4 DEF CodingInv

LEMMA CodingKeeps ==
  ASSUME CodingInv, [CodingNext]_codingVars PROVE CodingInv'
<1>1. CASE UNCHANGED codingVars
  BY <1>1 DEF codingVars, CodingInv, CodingTypeOK, FileInv
<1>2. ASSUME NEW d \in Drivers,
             Start(d) \/ Resume(d) \/ OpLoads(d) \/ OpReloads(d) \/ Patch(d) \/ Quality(d) \/ Read(d) \/ Ends(d) \/ DriverDies(d)
      PROVE  CodingInv'
  BY <1>2, StartsCoding, OpLoadsCoding, OpReloadsCoding, PatchesCoding, QualityCoding, ReadsCoding, EndsCoding
<1>3. ASSUME NEW d \in Drivers, NEW text \in Texts, Proposes(d, text) PROVE CodingInv'
  BY <1>3, ProposesCoding
<1>4. ASSUME NEW d \in Drivers, NEW b \in BOOLEAN, OpAppends(d, b) \/ AfterFailure(d, b) \/ Gate(d, b) PROVE CodingInv'
  BY <1>4, OpAppendsCoding, DecidesCoding, GatesCoding
<1>5. ASSUME NEW text \in Texts, OutsideEdit(text) PROVE CodingInv'
  BY <1>5, EditsCoding
<1> QED BY <1>1, <1>2, <1>3, <1>4, <1>5 DEF CodingNext

\* The quality run that let the mission pass is the newest one: a failed first run is followed by one repair only, and a
\* passed one by none.
LEMMA CodingInvSound ==
  ASSUME CodingInv PROVE CodingSound
<1>1. KeyedOk(keyed) /\ FileInv /\ MissionOk(keyed, mission) /\ \A d \in Drivers : CallOk(driver[d], keyed, mission)
  BY DEF CodingInv
<1>2. ASSUME QualityPassed(keyed)
      PROVE  /\ \E i \in DOMAIN keyed : keyed[i].label \in {"quality-first", "quality-repair"} /\ keyed[i].on \in GoodTexts
             /\ outside = 0 => file.text \in GoodTexts
  <2>1. PICK i \in DOMAIN keyed : keyed[i].label \in {"quality-first", "quality-repair"} /\ keyed[i].exit = 0
    BY <1>2 DEF QualityPassed
  <2>2. keyed[i].on \in GoodTexts
    BY <1>1, <2>1 DEF KeyedOk, ExitCode
  <2>3. ~Answered(keyed, "repair") \/ keyed[i].label = "quality-repair"
    <3>1. SUFFICES ASSUME Answered(keyed, "repair"), keyed[i].label = "quality-first" PROVE FALSE
      BY <2>1
    <3>2. PICK j \in DOMAIN keyed : keyed[j].label = "quality-first" /\ keyed[j].exit = 1
      BY <1>1, <3>1 DEF KeyedOk, FirstFailed
    <3> QED BY <1>1, <2>1, <3>1, <3>2 DEF KeyedOk
  <2>4. Newest(keyed, i)
    BY <2>1, <2>3 DEF Newest
  <2> QED BY <1>1, <2>1, <2>2, <2>4 DEF FileInv
<1> QED BY <1>1, <1>2 DEF CodingSound, KeyedOk, MissionOk, CallOk

-----------------------------------------------------------------------------
(* The orchestrator of many files (runtime/multi-file.ts)                   *)

ChangeIn(changes, path) == CHOOSE ch \in changes : ch.path = path

\* An order of a change set: every file once, after the files it depends on.
Plan(changes, order) ==
  /\ order \in Seq(Files)
  /\ \A i, j \in DOMAIN order : i # j => order[i] # order[j]
  /\ {order[i] : i \in DOMAIN order} = Targets(changes)
  /\ \A x, y \in changes : x # y => x.path # y.path
  /\ \A i \in DOMAIN order : ChangeIn(changes, order[i]).deps \subseteq {order[j] : j \in 1 .. i - 1}

\* The preimages that were read are those that the changes were made for.
Preimages(r, n) ==
  \A i \in 1 .. n : r.pre[i].path = r.order[i] /\ r.pre[i].content = ChangeIn(r.changes, r.order[i]).pre

CoderFields == {"at", "changes", "order", "done", "pre", "aborted", "committedAt", "quality", "left", "disturbed", "outcome"}

CoderRecord(r) ==
  /\ r = [f \in CoderFields |-> r[f]] /\ r.done \in Nat /\ r.committedAt \in Int /\ r.disturbed \in BOOLEAN
  /\ r.pre \in Seq(ToSet(r.pre))

\* How far a call has come, and what it finds in its files while nobody else writes them.
CoderOk(r, t) ==
  /\ CoderRecord(r)
  /\ \/ r.changes = {} /\ r.order = <<>> /\ r.at \in {"idle", "ended"}
     \/ Plan(r.changes, r.order) /\ r.at \in {"reading", "committing", "committed", "restoring", "ended"}
  /\ r.at = "idle" => r.done = 0 /\ r.pre = <<>>
  /\ r.at = "reading" =>
       /\ r.done <= Len(r.order) /\ Len(r.pre) = r.done /\ Preimages(r, r.done)
       /\ ~r.disturbed => \A i \in 1 .. r.done : t[r.order[i]] = r.pre[i].content
  /\ r.at \in {"committing", "committed", "restoring"} =>
       /\ Len(r.pre) = Len(r.order) /\ Preimages(r, Len(r.order))
       /\ r.at = "committing" => r.done <= Len(r.order)
  /\ r.at = "committing" /\ ~r.disturbed => \A i \in 1 .. r.done : t[r.order[i]] = ChangeIn(r.changes, r.order[i]).content
  /\ r.at = "committed" /\ ~r.disturbed => \A i \in DOMAIN r.order : t[r.order[i]] = ChangeIn(r.changes, r.order[i]).content
  /\ r.outcome \in {"COMPLETED", "ROLLED_BACK", "RETHROWN", "CANCELLED"} => r.at = "ended"
  /\ r.at = "ended" /\ ~r.disturbed =>
       /\ r.outcome = "COMPLETED" => \A ch \in r.changes : r.left[ch.path] = ch.content
       /\ r.outcome \in {"ROLLED_BACK", "RETHROWN", "CANCELLED"} => \A ch \in r.changes : r.left[ch.path] = ch.pre
  /\ r.outcome = "COMPLETED" => r.quality[1] = "PASS" /\ r.quality[2] >= r.committedAt

MultiFileInv ==
  /\ tree = [f \in Files |-> tree[f]]
  /\ coder = [c \in Coders |-> coder[c]]
  /\ \A c \in Coders : CoderOk(coder[c], tree)

\* The order is built file after file; each file comes after those it depends on.
OrderPart(changes, order) ==
  /\ order \in Seq(Files)
  /\ \A i, j \in DOMAIN order : i # j => order[i] # order[j]
  /\ \A i \in DOMAIN order : \E ch \in changes : ch.path = order[i] /\ ch.deps \subseteq {order[j] : j \in 1 .. i - 1}

Orders(changes, n, f) == f = [m \in 0 .. n |-> IF m = 0 THEN <<>> ELSE NextReady(changes, f[m - 1])]

LEMMA OrderExists ==
  ASSUME NEW changes, NEW n \in Nat
  PROVE  \E f : Orders(changes, n, f)
<1> DEFINE T == {m \in Nat : ~\E f : Orders(changes, m, f)}
<1> SUFFICES ASSUME T # {} PROVE FALSE
  OBVIOUS
<1>1. PICK m \in T : \A y \in T : m <= y
  BY LeastPosition
<1>2. m # 0
  <2> DEFINE f == [i \in 0 .. 0 |-> <<>>]
  <2>1. Orders(changes, 0, f)
    BY DEF Orders
  <2> QED BY <2>1
<1>3. PICK f : Orders(changes, m - 1, f)
  <2>1. m - 1 \in Nat /\ m - 1 \notin T
    BY <1>1, <1>2
  <2> QED BY <2>1
<1> DEFINE g == [i \in 0 .. m |-> IF i = m THEN NextReady(changes, f[m - 1]) ELSE f[i]]
<1>4. \A i \in 0 .. m : g[i] = IF i = 0 THEN <<>> ELSE NextReady(changes, g[i - 1])
  <2> SUFFICES ASSUME NEW i \in 0 .. m PROVE g[i] = IF i = 0 THEN <<>> ELSE NextReady(changes, g[i - 1])
    OBVIOUS
  <2>0. m \in Nat /\ i \in Nat
    OBVIOUS
  <2>1. CASE i = m
    <3>1. g[i - 1] = f[m - 1] /\ g[i] = NextReady(changes, f[m - 1])
      BY <1>2, <2>0, <2>1
    <3> QED BY <1>2, <2>1, <3>1
  <2>2. CASE i # m
    <3>1. i \in 0 .. m - 1 /\ g[i] = f[i]
      BY <2>0, <2>2
    <3>2. f[i] = IF i = 0 THEN <<>> ELSE NextReady(changes, f[i - 1])
      BY <1>3, <3>1 DEF Orders
    <3>3. i # 0 => g[i - 1] = f[i - 1]
      BY <2>0, <3>1
    <3> QED BY <3>1, <3>2, <3>3
  <2> QED BY <2>1, <2>2
<1>5. Orders(changes, m, g)
  <2> DEFINE h == [i \in 0 .. m |-> IF i = 0 THEN <<>> ELSE NextReady(changes, g[i - 1])]
  <2>1. DOMAIN g = 0 .. m /\ DOMAIN h = 0 .. m /\ g = [i \in 0 .. m |-> g[i]]
    OBVIOUS
  <2>2. \A i \in 0 .. m : g[i] = h[i]
    BY <1>4
  <2> HIDE DEF g
  <2>3. g = h
    BY <2>1, <2>2
  <2> QED BY <2>3 DEF Orders
<1> QED BY <1>1, <1>5

\* One file more: it is not there yet, and what it depends on is.
LEMMA OrderGrows ==
  ASSUME NEW changes, Targets(changes) \subseteq Files, NEW order, OrderPart(changes, order)
  PROVE  OrderPart(changes, NextReady(changes, order))
<1>1. CASE Ready(changes, order) = {}
  BY <1>1 DEF NextReady
<1>2. CASE Ready(changes, order) # {}
  <2> DEFINE ready == Ready(changes, order)
  <2>1. ready \subseteq Files /\ Files \subseteq Nat
    BY CodersAssumption DEF Ready, Targets
  <2>2. \E p \in ready : \A q \in ready : p <= q
    BY <1>2, <2>1, LeastPosition
  <2>3. PICK p \in ready : NextReady(changes, order) = Append(order, p)
    BY <1>2, <2>2 DEF NextReady
  <2>4. PICK ch \in changes : ch.path = p /\ p \notin ToSet(order) /\ ch.deps \subseteq ToSet(order)
    BY <2>3 DEF Ready
  <2> HIDE DEF ready
  <2>5. p \in Files
    BY <2>1, <2>3
  <2>6. order \in Seq(Files)
    BY DEF OrderPart
  <2>7. \E l : l = Append(order, p)
    OBVIOUS
  <2>8. PICK l : l = Append(order, p)
    BY <2>7
  <2>9. /\ l \in Seq(Files) /\ Len(order) \in Nat /\ DOMAIN order = 1 .. Len(order) /\ DOMAIN l = 1 .. Len(order) + 1
        /\ l[Len(order) + 1] = p /\ \A i \in 1 .. Len(order) : l[i] = order[i]
    BY <2>5, <2>6, <2>8, AppendProperties, LenProperties
  <2>a. ToSet(order) = {order[i] : i \in DOMAIN order}
    BY DEF ToSet
  <2>b. \A i, j \in DOMAIN l : i # j => l[i] # l[j]
    <3>1. SUFFICES ASSUME NEW i \in DOMAIN l, NEW j \in DOMAIN l, i # j PROVE l[i] # l[j]
      OBVIOUS
    <3>2. \A k \in DOMAIN order : order[k] # p
      BY <2>4, <2>a
    <3>3. (i \in DOMAIN order \/ i = Len(order) + 1) /\ (j \in DOMAIN order \/ j = Len(order) + 1)
      BY <2>9
    <3> QED BY <2>9, <3>1, <3>2, <3>3 DEF OrderPart
  <2>c. ASSUME NEW i \in DOMAIN l PROVE \E x \in changes : x.path = l[i] /\ x.deps \subseteq {l[j] : j \in 1 .. i - 1}
    <3>1. CASE i \in DOMAIN order
      <4>1. PICK x \in changes : x.path = order[i] /\ x.deps \subseteq {order[j] : j \in 1 .. i - 1}
        BY <3>1 DEF OrderPart
      <4>2. \A j \in 1 .. i - 1 : l[j] = order[j]
        BY <2>9, <3>1
      <4>3. {order[j] : j \in 1 .. i - 1} \subseteq {l[j] : j \in 1 .. i - 1}
        BY <4>2
      <4> QED BY <2>9, <3>1, <4>1, <4>3
    <3>2. CASE i = Len(order) + 1
      <4>1. i - 1 = Len(order)
        BY <2>9, <3>2
      <4>2. {order[j] : j \in DOMAIN order} \subseteq {l[j] : j \in 1 .. i - 1}
        BY <2>9, <4>1
      <4> QED BY <2>4, <2>9, <2>a, <3>2, <4>2
    <3> QED BY <2>9, <3>1, <3>2
  <2>d. OrderPart(changes, l)
    BY <2>9, <2>b, <2>c DEF OrderPart
  <2> QED BY <2>3, <2>8, <2>d
<1> QED BY <1>1, <1>2

LEMMA OrderBuilt ==
  ASSUME NEW changes, IsFiniteSet(changes), Targets(changes) \subseteq Files
  PROVE  OrderPart(changes, TopologicalOrder(changes))
<1> DEFINE N == Cardinality(changes)
           order == CHOOSE f : Orders(changes, N, f)
           T == {m \in 0 .. N : ~OrderPart(changes, order[m])}
<1>1. N \in Nat
  BY FS_CardinalityType
<1>2. Orders(changes, N, order)
  BY <1>1, OrderExists
<1>3. TopologicalOrder(changes) = order[N]
  BY DEF TopologicalOrder, Orders
<1> HIDE DEF N, order
<1>4. order[0] = <<>> /\ \A m \in 1 .. N : order[m] = NextReady(changes, order[m - 1])
  BY <1>1, <1>2 DEF Orders
<1>5. T = {}
  <2> SUFFICES ASSUME T # {} PROVE FALSE
    OBVIOUS
  <2>0. T \subseteq Nat
    BY <1>1
  <2>1. PICK m \in T : \A y \in T : m <= y
    BY <2>0, LeastPosition
  <2>2. m # 0
    <3>1. OrderPart(changes, <<>>)
      BY DEF OrderPart
    <3> QED BY <1>4, <3>1
  <2>3. m - 1 \in 0 .. N /\ m \in 1 .. N
    BY <1>1, <2>2
  <2>4. OrderPart(changes, order[m - 1])
    BY <1>1, <2>1, <2>3
  <2> QED BY <1>4, <2>3, <2>4, OrderGrows
<1> QED BY <1>1, <1>3, <1>5

LEMMA ChangeUnique ==
  ASSUME NEW changes, \A x, y \in changes : x # y => x.path # y.path, NEW ch \in changes
  PROVE  ChangeIn(changes, ch.path) = ch
BY DEF ChangeIn

\* An order that is as long as the change set leaves nothing out.
LEMMA OrderPlans ==
  ASSUME NEW changes, IsFiniteSet(changes), Targets(changes) \subseteq Files,
         \A x, y \in changes : x # y => x.path # y.path,
         Len(TopologicalOrder(changes)) = Cardinality(changes)
  PROVE  Plan(changes, TopologicalOrder(changes))
<1> DEFINE order == TopologicalOrder(changes)
           N == Cardinality(changes)
           T == Targets(changes)
<1>1. OrderPart(changes, order) /\ Len(order) = N
  BY OrderBuilt
<1> HIDE DEF order
<1>2. N \in Nat /\ IsFiniteSet(1 .. N) /\ Cardinality(1 .. N) = N /\ DOMAIN order = 1 .. N
  <2>1. N \in Nat
    BY FS_CardinalityType
  <2>2. IsFiniteSet(1 .. N) /\ Cardinality(1 .. N) = IF 1 > N THEN 0 ELSE N - 1 + 1
    BY <2>1, FS_Interval
  <2>3. DOMAIN order = 1 .. N
    BY <1>1, LenProperties DEF OrderPart
  <2> QED BY <2>1, <2>2, <2>3
<1>3. IsFiniteSet(T) /\ Cardinality(T) = N
  <2> DEFINE f == [ch \in changes |-> ch.path]
  <2>1. f \in Surjection(changes, T) /\ f \in Injection(changes, T)
    <3>1. f \in [changes -> T] /\ (\A t \in T : \E ch \in changes : f[ch] = t)
      BY DEF Targets
    <3>2. \A x, y \in changes : f[x] = f[y] => x = y
      OBVIOUS
    <3> QED BY <3>1, <3>2 DEF Surjection, Injection, IsInjective
  <2> HIDE DEF f
  <2> QED BY <2>1, FS_Surjection
<1>4. \A i \in DOMAIN order : order[i] \in T
  BY <1>1 DEF OrderPart, Targets
<1>5. {order[i] : i \in DOMAIN order} = T
  <2> DEFINE h == [i \in 1 .. N |-> order[i]]
  <2>1. h \in Injection(1 .. N, T)
    <3>1. h \in [1 .. N -> T]
      BY <1>2, <1>4
    <3>2. \A i, j \in 1 .. N : h[i] = h[j] => i = j
      BY <1>1, <1>2 DEF OrderPart
    <3> QED BY <3>1, <3>2 DEF Injection, IsInjective
  <2>2. h \in Surjection(1 .. N, T)
    <3> HIDE DEF h
    <3> QED BY <1>2, <1>3, <2>1, FS_Injection
  <2>3. \A t \in T : \E i \in 1 .. N : order[i] = t
    BY <2>2 DEF Surjection
  <2> QED BY <1>2, <1>4, <2>3
<1>6. ASSUME NEW i \in DOMAIN order PROVE ChangeIn(changes, order[i]).deps \subseteq {order[j] : j \in 1 .. i - 1}
  <2>1. PICK ch \in changes : ch.path = order[i] /\ ch.deps \subseteq {order[j] : j \in 1 .. i - 1}
    BY <1>1 DEF OrderPart
  <2>2. ChangeIn(changes, order[i]) = ch
    BY <2>1, ChangeUnique
  <2> QED BY <2>1, <2>2
<1>7. Plan(changes, order)
  BY <1>1, <1>5, <1>6 DEF Plan, OrderPart
<1> QED BY <1>7 DEF order

\* What a plan says of a file and its change.
LEMMA PlanFacts ==
  ASSUME NEW changes, NEW order, Plan(changes, order)
  PROVE  /\ Len(order) \in Nat /\ DOMAIN order = 1 .. Len(order)
         /\ \A i \in 1 .. Len(order) : order[i] \in Files /\ order[i] \in Targets(changes) /\ ChangeIn(changes, order[i]) \in changes
         /\ \A ch \in changes : ChangeIn(changes, ch.path) = ch /\ \E i \in 1 .. Len(order) : order[i] = ch.path
<1>1. order \in Seq(Files) /\ Len(order) \in Nat /\ DOMAIN order = 1 .. Len(order)
  BY LenProperties DEF Plan
<1>2. \A i \in 1 .. Len(order) : order[i] \in Files
  BY <1>1, ElementOfSeq
<1>3. \A i \in 1 .. Len(order) : order[i] \in Targets(changes)
  BY <1>1 DEF Plan
<1>4. \A ch \in changes : ChangeIn(changes, ch.path) = ch /\ ch.path \in {order[i] : i \in DOMAIN order}
  BY ChangeUnique DEF Plan, Targets
<1>5. \A i \in 1 .. Len(order) : ChangeIn(changes, order[i]) \in changes
  BY <1>3, <1>4 DEF Targets
<1> QED BY <1>1, <1>2, <1>3, <1>4, <1>5

\* A call as it ends, with what it leaves in its files.
EndRecord(r, t, outcome) ==
  [r EXCEPT !.at = "ended", !.outcome = outcome, !.left = [p \in Targets(r.changes) |-> t[p]]]

LEMMA EndedRecord ==
  ASSUME NEW c \in Coders, NEW outcome, coder = [e \in Coders |-> coder[e]], CoderRecord(coder[c])
  PROVE  Ended(c, outcome) = [coder EXCEPT ![c] = EndRecord(coder[c], tree, outcome)]
<1> DEFINE left == [p \in Targets(coder[c].changes) |-> tree[p]]
<1>1. Ended(c, outcome) = [coder EXCEPT ![c].at = "ended", ![c].outcome = outcome, ![c].left = left]
  BY DEF Ended
<1>2. EndRecord(coder[c], tree, outcome) = [coder[c] EXCEPT !.at = "ended", !.outcome = outcome, !.left = left]
  BY DEF EndRecord
<1> HIDE DEF left
<1> QED BY <1>1, <1>2

LEMMA EndFields ==
  ASSUME NEW r, NEW t, NEW outcome, CoderRecord(r)
  PROVE  LET q == EndRecord(r, t, outcome) IN
         /\ CoderRecord(q) /\ q.at = "ended" /\ q.outcome = outcome /\ q.changes = r.changes /\ q.order = r.order
         /\ q.disturbed = r.disturbed /\ q.quality = r.quality /\ q.committedAt = r.committedAt
         /\ \A p \in Targets(r.changes) : q.left[p] = t[p]
<1> DEFINE left == [p \in Targets(r.changes) |-> t[p]]
           q == [r EXCEPT !.at = "ended", !.outcome = outcome, !.left = left]
<1>1. EndRecord(r, t, outcome) = q
  BY DEF EndRecord
<1>2. \A p \in Targets(r.changes) : left[p] = t[p]
  OBVIOUS
<1> HIDE DEF left
<1>3. CoderRecord(r)
  OBVIOUS
<1> SUFFICES ASSUME NEW u, u = q
             PROVE  /\ CoderRecord(u) /\ u.at = "ended" /\ u.outcome = outcome /\ u.changes = r.changes /\ u.order = r.order
                    /\ u.done = r.done /\ u.disturbed = r.disturbed /\ u.quality = r.quality /\ u.committedAt = r.committedAt /\ u.left = left
                    /\ u.pre = r.pre
  BY <1>1, <1>2
<1>4. /\ u = [f \in CoderFields |-> u[f]] /\ u.at = "ended" /\ u.outcome = outcome /\ u.changes = r.changes /\ u.order = r.order
      /\ u.done = r.done /\ u.disturbed = r.disturbed /\ u.quality = r.quality /\ u.committedAt = r.committedAt /\ u.left = left
      /\ u.pre = r.pre
  BY <1>3 DEF CoderRecord, CoderFields
<1> QED BY <1>3, <1>4 DEF CoderRecord

\* A call that moves without writing.
LEMMA CoderMoves ==
  ASSUME MultiFileInv, NEW c \in Coders, NEW next, coder' = [coder EXCEPT ![c] = next], CoderOk(next, tree), UNCHANGED tree
  PROVE  MultiFileInv'
<1>1. coder' = [e \in Coders |-> IF e = c THEN next ELSE coder[e]] /\ tree = [f \in Files |-> tree[f]]
  BY DEF MultiFileInv
<1>2. coder' = [e \in Coders |-> coder'[e]] /\ \A e \in Coders : coder'[e] = IF e = c THEN next ELSE coder[e]
  BY <1>1
<1>3. tree' = [f \in Files |-> tree'[f]]
  BY <1>1
<1>4. \A e \in Coders : CoderOk(coder'[e], tree')
  BY <1>2 DEF MultiFileInv
<1> QED BY <1>2, <1>3, <1>4 DEF MultiFileInv

\* A write of another call disturbs a call that works on the file, and leaves the files of every other one alone.
LEMMA OthersWrite ==
  ASSUME NEW r, NEW t, CoderOk(r, t), t = [f \in Files |-> t[f]], NEW path, NEW content,
         NEW flag \in BOOLEAN, r.at \notin {"idle", "ended"} /\ path \in Targets(r.changes) => flag
  PROVE  CoderOk([r EXCEPT !.disturbed = r.disturbed \/ flag], [t EXCEPT ![path] = content])
<1> DEFINE q == [r EXCEPT !.disturbed = r.disturbed \/ flag]
           u == [t EXCEPT ![path] = content]
<1>1. CoderRecord(r)
  BY DEF CoderOk
<1> DEFINE d == r.disturbed \/ flag
<1>3. d \in BOOLEAN /\ (d = FALSE => r.disturbed = FALSE /\ flag = FALSE)
  BY <1>1 DEF CoderRecord
<1>4. q = [r EXCEPT !.disturbed = d]
  OBVIOUS
<1> HIDE DEF d, q
<1>6. /\ q.at = r.at /\ q.outcome = r.outcome /\ q.changes = r.changes /\ q.order = r.order /\ q.done = r.done
      /\ q.disturbed = d /\ q.quality = r.quality /\ q.committedAt = r.committedAt /\ q.left = r.left
      /\ q.pre = r.pre /\ q.aborted = r.aborted
  BY <1>1, <1>4 DEF CoderRecord, CoderFields
<1>7. CoderRecord(q)
  <2>1. q = [f \in CoderFields |-> q[f]]
    BY <1>1, <1>4 DEF CoderRecord, CoderFields
  <2> QED BY <1>1, <1>3, <1>6, <2>1 DEF CoderRecord
<1>8. ASSUME ~d, r.at \in {"reading", "committing", "committed", "restoring"}, NEW i \in 1 .. Len(r.order)
      PROVE  u[r.order[i]] = t[r.order[i]]
  <2>1. r.order[i] \in Targets(r.changes) /\ r.order[i] \in Files
    BY <1>8, PlanFacts DEF CoderOk
  <2>2. path \notin Targets(r.changes)
    BY <1>3, <1>8
  <2> QED BY <2>1, <2>2
<1>9. r.at \in {"reading", "committing", "committed", "restoring"} => Len(r.order) \in Nat /\ DOMAIN r.order = 1 .. Len(r.order)
  BY PlanFacts DEF CoderOk
<1>a. r.done \in Nat
  BY <1>1 DEF CoderRecord
<1> HIDE DEF u
<1>b. q.at = "reading" /\ ~q.disturbed => \A i \in 1 .. q.done : u[q.order[i]] = q.pre[i].content
  <2> SUFFICES ASSUME q.at = "reading", ~q.disturbed, NEW i \in 1 .. r.done PROVE u[r.order[i]] = r.pre[i].content
    BY <1>6
  <2>1. r.at = "reading" /\ ~d /\ ~r.disturbed
    BY <1>3, <1>6
  <2>2. r.done <= Len(r.order) /\ t[r.order[i]] = r.pre[i].content
    BY <2>1 DEF CoderOk
  <2>3. i \in 1 .. Len(r.order)
    BY <1>9, <1>a, <2>1, <2>2
  <2> QED BY <1>8, <2>1, <2>2, <2>3
<1>c. q.at = "committing" /\ ~q.disturbed => \A i \in 1 .. q.done : u[q.order[i]] = ChangeIn(q.changes, q.order[i]).content
  <2> SUFFICES ASSUME q.at = "committing", ~q.disturbed, NEW i \in 1 .. r.done
               PROVE  u[r.order[i]] = ChangeIn(r.changes, r.order[i]).content
    BY <1>6
  <2>1. r.at = "committing" /\ ~d /\ ~r.disturbed
    BY <1>3, <1>6
  <2>2. r.done <= Len(r.order) /\ t[r.order[i]] = ChangeIn(r.changes, r.order[i]).content
    BY <2>1 DEF CoderOk
  <2>3. i \in 1 .. Len(r.order)
    BY <1>9, <1>a, <2>1, <2>2
  <2>4. u[r.order[i]] = t[r.order[i]]
    BY <1>8, <2>1, <2>3
  <2> QED BY <2>2, <2>4
<1>d. q.at = "committed" /\ ~q.disturbed => \A i \in DOMAIN q.order : u[q.order[i]] = ChangeIn(q.changes, q.order[i]).content
  <2> SUFFICES ASSUME q.at = "committed", ~q.disturbed, NEW i \in DOMAIN r.order
               PROVE  u[r.order[i]] = ChangeIn(r.changes, r.order[i]).content
    BY <1>6
  <2>1. r.at = "committed" /\ ~d /\ ~r.disturbed
    BY <1>3, <1>6
  <2>2. t[r.order[i]] = ChangeIn(r.changes, r.order[i]).content
    BY <2>1 DEF CoderOk
  <2>3. u[r.order[i]] = t[r.order[i]]
    BY <1>8, <1>9, <2>1
  <2> QED BY <2>2, <2>3
<1>e. CoderOk(q, u)
  <2>1. \/ q.changes = {} /\ q.order = <<>> /\ q.at \in {"idle", "ended"}
        \/ Plan(q.changes, q.order) /\ q.at \in {"reading", "committing", "committed", "restoring", "ended"}
    BY <1>6 DEF CoderOk
  <2>2. q.at = "idle" => q.done = 0 /\ q.pre = <<>>
    BY <1>6 DEF CoderOk
  <2>3. q.at = "reading" => q.done <= Len(q.order) /\ Len(q.pre) = q.done /\ Preimages(q, q.done)
    BY <1>6 DEF CoderOk, Preimages
  <2>4. q.at \in {"committing", "committed", "restoring"} =>
           /\ Len(q.pre) = Len(q.order) /\ Preimages(q, Len(q.order))
           /\ q.at = "committing" => q.done <= Len(q.order)
    BY <1>6 DEF CoderOk, Preimages
  <2>5. q.outcome \in {"COMPLETED", "ROLLED_BACK", "RETHROWN", "CANCELLED"} => q.at = "ended"
    BY <1>6 DEF CoderOk
  <2>6. q.at = "ended" /\ ~q.disturbed =>
       /\ q.outcome = "COMPLETED" => \A ch \in q.changes : q.left[ch.path] = ch.content
       /\ q.outcome \in {"ROLLED_BACK", "RETHROWN", "CANCELLED"} => \A ch \in q.changes : q.left[ch.path] = ch.pre
    BY <1>3, <1>6 DEF CoderOk
  <2>7. q.outcome = "COMPLETED" => q.quality[1] = "PASS" /\ q.quality[2] >= q.committedAt
    BY <1>6 DEF CoderOk
  <2> QED BY <1>7, <1>b, <1>c, <1>d, <2>1, <2>2, <2>3, <2>4, <2>5, <2>6, <2>7 DEF CoderOk
<1> QED BY <1>e DEF q, u

LEMMA CoderWrites ==
  ASSUME MultiFileInv, NEW c \in Coders, NEW path, NEW content, NEW next,
         tree' = [tree EXCEPT ![path] = content], coder' = Writes(c, path, next), CoderOk(next, tree')
  PROVE  MultiFileInv'
<1> DEFINE flag(e) == coder[e].at \notin {"idle", "ended"} /\ path \in Targets(coder[e].changes)
           q(e) == [coder[e] EXCEPT !.disturbed = coder[e].disturbed \/ flag(e)]
<1>1. coder' = [e \in Coders |-> IF e = c THEN next ELSE q(e)]
  BY DEF Writes
<1>2. tree = [f \in Files |-> tree[f]] /\ \A e \in Coders : CoderOk(coder[e], tree)
  BY DEF MultiFileInv
<1>3. tree' = [f \in Files |-> tree'[f]]
  BY <1>2
<1>4. ASSUME NEW e \in Coders, e # c PROVE CoderOk(q(e), tree')
  <2>1. flag(e) \in BOOLEAN /\ (coder[e].at \notin {"idle", "ended"} /\ path \in Targets(coder[e].changes) => flag(e))
    OBVIOUS
  <2> HIDE DEF flag
  <2> QED BY <1>2, <2>1, OthersWrite
<1> HIDE DEF q
<1>5. coder' = [e \in Coders |-> coder'[e]] /\ \A e \in Coders : CoderOk(coder'[e], tree')
  BY <1>1, <1>4
<1> QED BY <1>3, <1>5 DEF MultiFileInv
\* A call that ends with anything but COMPLETED.
LEMMA EndOk ==
  ASSUME NEW r, NEW t, CoderOk(r, t), NEW outcome, outcome # "COMPLETED",
         outcome \in {"ROLLED_BACK", "RETHROWN", "CANCELLED"} /\ ~r.disturbed => \A ch \in r.changes : t[ch.path] = ch.pre
  PROVE  CoderOk(EndRecord(r, t, outcome), t)
<1> DEFINE q == EndRecord(r, t, outcome)
<1>1. /\ CoderRecord(q) /\ q.at = "ended" /\ q.outcome = outcome /\ q.changes = r.changes /\ q.order = r.order
      /\ q.disturbed = r.disturbed /\ \A p \in Targets(r.changes) : q.left[p] = t[p]
  BY EndFields DEF CoderOk
<1> HIDE DEF q
<1>2. \A ch \in r.changes : q.left[ch.path] = t[ch.path]
  BY <1>1 DEF Targets
<1>3. (r.changes = {} /\ r.order = <<>>) \/ Plan(r.changes, r.order)
  BY DEF CoderOk
<1>4. CoderOk(q, t)
  BY <1>1, <1>2, <1>3 DEF CoderOk
<1> QED BY <1>4 DEF q

LEMMA CoderEnds ==
  ASSUME MultiFileInv, NEW c \in Coders, NEW outcome, Finish(c, outcome), UNCHANGED tree, outcome # "COMPLETED",
         outcome \in {"ROLLED_BACK", "RETHROWN", "CANCELLED"} /\ ~coder[c].disturbed => \A ch \in coder[c].changes : tree[ch.path] = ch.pre
  PROVE  MultiFileInv'
<1>1. CoderOk(coder[c], tree) /\ coder = [e \in Coders |-> coder[e]]
  BY DEF MultiFileInv
<1>2. coder' = [coder EXCEPT ![c] = EndRecord(coder[c], tree, outcome)]
  BY <1>1, EndedRecord DEF Finish, CoderOk
<1>3. CoderOk(EndRecord(coder[c], tree, outcome), tree)
  BY <1>1, EndOk
<1> QED BY <1>2, <1>3, CoderMoves

\* execute: a change set that is in order becomes a plan; nothing else has started.
LEMMA ExecuteKeeps ==
  ASSUME MultiFileInv, NEW c \in Coders, NEW p \in Proposals, NEW b \in BOOLEAN, ExecuteProposals(c, p, b)
  PROVE  MultiFileInv'
<1> DEFINE changes == UNION {p[i].changes : i \in DOMAIN p}
           r == coder[c]
           q == [coder[c] EXCEPT !.at = "reading", !.changes = changes, !.order = TopologicalOrder(changes)]
<1>1. CoderOk(r, tree) /\ CoderRecord(r) /\ coder = [e \in Coders |-> coder[e]] /\ r.at = "idle"
  BY DEF MultiFileInv, CoderOk, ExecuteProposals
<1>2. r.changes = {} /\ r.order = <<>> /\ r.done = 0 /\ r.pre = <<>> /\ r.outcome \notin {"COMPLETED", "ROLLED_BACK", "RETHROWN", "CANCELLED"}
  BY <1>1 DEF CoderOk
<1>3. UNCHANGED tree
  BY DEF ExecuteProposals
<1>4. CASE \E outcome \in {"CANCELLED", "INVALID_CHANGE_SET"} : Finish(c, outcome)
  BY <1>2, <1>3, <1>4, CoderEnds
<1>5. CASE coder' = [coder EXCEPT ![c].at = "reading", ![c].changes = changes, ![c].order = TopologicalOrder(changes)] /\ Normal(changes)
  <2>1. Plan(changes, TopologicalOrder(changes))
    <3>1. IsFiniteSet(changes) /\ Targets(changes) \subseteq Files
      BY CodersAssumption
    <3>2. Len(TopologicalOrder(changes)) = Cardinality(changes) /\ \A x, y \in changes : x # y => x.path # y.path
      BY <1>5 DEF Normal, Disjoint
    <3> HIDE DEF changes
    <3> QED BY <3>1, <3>2, OrderPlans
  <2>2. PICK order : order = TopologicalOrder(changes)
    OBVIOUS
  <2> HIDE DEF changes
  <2>3. coder' = [coder EXCEPT ![c] = q]
    BY <1>1, <1>5
  <2>4. /\ q = [f \in CoderFields |-> q[f]] /\ q.at = "reading" /\ q.changes = changes /\ q.order = order /\ q.done = r.done /\ q.pre = r.pre
        /\ q.committedAt = r.committedAt /\ q.disturbed = r.disturbed /\ q.outcome = r.outcome
    BY <1>1, <2>2 DEF CoderRecord, CoderFields
  <2> HIDE DEF q
  <2>5. CoderRecord(q)
    BY <1>1, <2>4 DEF CoderRecord
  <2>6. Len(order) \in Nat /\ Len(q.pre) = 0
    BY <1>2, <2>1, <2>2, <2>4, PlanFacts
  <2>7. CoderOk(q, tree)
    <3>1. q.done <= Len(q.order) /\ Len(q.pre) = q.done /\ Preimages(q, q.done) /\ \A i \in 1 .. q.done : tree[q.order[i]] = q.pre[i].content
      BY <1>2, <2>4, <2>6 DEF Preimages
    <3> QED BY <1>2, <2>1, <2>2, <2>4, <2>5, <3>1 DEF CoderOk
  <2> QED BY <1>3, <2>3, <2>7, CoderMoves
<1>6. \/ \E outcome \in {"CANCELLED", "INVALID_CHANGE_SET"} : Finish(c, outcome)
      \/ coder' = [coder EXCEPT ![c].at = "reading", ![c].changes = changes, ![c].order = TopologicalOrder(changes)] /\ Normal(changes)
  BY DEF ExecuteProposals
<1> QED BY <1>4, <1>5, <1>6

\* One preimage more at the end of the sequence.
LEMMA PreGrows ==
  ASSUME NEW pre, pre \in Seq(ToSet(pre)), NEW x
  PROVE  LET q == pre \o <<x>> IN
         /\ q \in Seq(ToSet(q)) /\ Len(q) = Len(pre) + 1 /\ Len(pre) \in Nat
         /\ q[Len(pre) + 1] = x /\ \A i \in 1 .. Len(pre) : q[i] = pre[i]
<1> DEFINE S == ToSet(pre) \cup {x}
           q == pre \o <<x>>
<1>1. pre \in Seq(S) /\ <<x>> \in Seq(S) /\ Len(<<x>>) = 1 /\ Len(pre) \in Nat /\ <<x>>[1] = x
  OBVIOUS
<1>2. q \in Seq(S) /\ Len(q) = Len(pre) + 1 /\ q[Len(pre) + 1] = x /\ \A i \in 1 .. Len(pre) : q[i] = pre[i]
  <2> HIDE DEF S
  <2> QED BY <1>1, ConcatProperties
<1> HIDE DEF q
<1>3. q = [i \in 1 .. Len(q) |-> q[i]] /\ DOMAIN q = 1 .. Len(q) /\ Len(q) \in Nat
  BY <1>2, LenProperties
<1>4. q \in [1 .. Len(q) -> ToSet(q)]
  BY <1>3 DEF ToSet
<1>5. q \in Seq(ToSet(q))
  BY <1>3, <1>4, SeqDef
<1> QED BY <1>1, <1>2, <1>5 DEF q

LEMMA ReadKeeps ==
  ASSUME MultiFileInv, NEW c \in Coders, ReadPreimage(c)
  PROVE  MultiFileInv'
<1> DEFINE r == coder[c]
           path == r.order[r.done + 1]
           pre == r.pre \o <<[path |-> path, content |-> tree[path]]>>
           q == [coder[c] EXCEPT !.done = r.done + 1, !.pre = pre]
<1>1. CoderOk(r, tree) /\ CoderRecord(r) /\ coder = [e \in Coders |-> coder[e]]
  BY DEF MultiFileInv, CoderOk
<1>2. r.at = "reading" /\ r.done < Len(r.order) /\ UNCHANGED tree
  BY DEF ReadPreimage
<1>3. CASE Finish(c, "STALE_PREIMAGE")
  BY <1>2, <1>3, CoderEnds
<1>4. CASE coder' = [coder EXCEPT ![c].done = @ + 1, ![c].pre = @ \o Preimage(path, tree[path])] /\ tree[path] = ChangeOf(c, path).pre
  <2>1. Preimage(path, tree[path]) = <<[path |-> path, content |-> tree[path]]>>
    BY DEF Preimage
  <2>2. coder' = [coder EXCEPT ![c].done = r.done + 1, ![c].pre = pre]
    BY <1>4, <2>1
  <2> DEFINE x == [path |-> path, content |-> tree[path]]
  <2>3. x.path = path /\ x.content = tree[path]
    OBVIOUS
  <2>4. r.pre \in Seq(ToSet(r.pre)) /\ pre = r.pre \o <<x>>
    BY <1>1 DEF CoderRecord
  <2> HIDE DEF x
  <2>5. /\ pre \in Seq(ToSet(pre)) /\ Len(pre) = Len(r.pre) + 1 /\ Len(r.pre) \in Nat
        /\ pre[Len(r.pre) + 1] = x /\ \A i \in 1 .. Len(r.pre) : pre[i] = r.pre[i]
    BY <2>4, PreGrows
  <2>6. /\ Len(r.pre) = r.done /\ Preimages(r, r.done) /\ Plan(r.changes, r.order) /\ r.done \in Nat
        /\ ~r.disturbed => \A i \in 1 .. r.done : tree[r.order[i]] = r.pre[i].content
    BY <1>1, <1>2 DEF CoderOk, CoderRecord
  <2>7. tree[path] = ChangeIn(r.changes, path).pre
    BY <1>4 DEF ChangeOf, ChangeIn
  <2> HIDE DEF pre
  <2>8. coder' = [coder EXCEPT ![c] = q]
    BY <1>1, <2>2
  <2>9. /\ q = [f \in CoderFields |-> q[f]] /\ q.at = "reading" /\ q.changes = r.changes /\ q.order = r.order /\ q.done = r.done + 1 /\ q.pre = pre
        /\ q.committedAt = r.committedAt /\ q.disturbed = r.disturbed /\ q.outcome = r.outcome
    BY <1>1, <1>2 DEF CoderRecord, CoderFields
  <2> HIDE DEF q
  <2>a. CoderRecord(q)
    BY <1>1, <2>5, <2>6, <2>9 DEF CoderRecord
  <2>b. Preimages(q, q.done)
    <3> SUFFICES ASSUME NEW i \in 1 .. r.done + 1
                 PROVE  pre[i].path = r.order[i] /\ pre[i].content = ChangeIn(r.changes, r.order[i]).pre
      BY <2>9 DEF Preimages
    <3>1. CASE i \in 1 .. r.done
      BY <2>5, <2>6, <3>1 DEF Preimages
    <3>2. CASE i = r.done + 1
      BY <2>3, <2>5, <2>6, <2>7, <3>2
    <3> QED BY <2>6, <3>1, <3>2
  <2>c. ~q.disturbed => \A i \in 1 .. q.done : tree[q.order[i]] = q.pre[i].content
    <3> SUFFICES ASSUME ~r.disturbed, NEW i \in 1 .. r.done + 1 PROVE tree[r.order[i]] = pre[i].content
      BY <2>9
    <3>1. CASE i \in 1 .. r.done
      BY <2>5, <2>6, <3>1
    <3>2. CASE i = r.done + 1
      BY <2>3, <2>5, <2>6, <3>2
    <3> QED BY <2>6, <3>1, <3>2
  <2>d. q.done <= Len(q.order) /\ Len(q.pre) = q.done
    <3>1. Len(r.order) \in Nat
      BY <2>6, PlanFacts
    <3> QED BY <1>2, <2>5, <2>6, <2>9, <3>1
  <2>e. q.outcome \notin {"COMPLETED", "ROLLED_BACK", "RETHROWN", "CANCELLED"}
    BY <1>1, <1>2, <2>9 DEF CoderOk
  <2>f. CoderOk(q, tree)
    BY <2>6, <2>9, <2>a, <2>b, <2>c, <2>d, <2>e DEF CoderOk
  <2> QED BY <1>2, <2>8, <2>f, CoderMoves
<1>5. \/ Finish(c, "STALE_PREIMAGE")
      \/ coder' = [coder EXCEPT ![c].done = @ + 1, ![c].pre = @ \o Preimage(path, tree[path])] /\ tree[path] = ChangeOf(c, path).pre
  BY DEF ReadPreimage
<1> QED BY <1>3, <1>4, <1>5

\* Each file holds what it held before the call.
LEMMA PreimagesCover ==
  ASSUME NEW r, NEW t, Plan(r.changes, r.order), Preimages(r, Len(r.order)),
         \A i \in 1 .. Len(r.order) : t[r.order[i]] = r.pre[i].content
  PROVE  \A ch \in r.changes : t[ch.path] = ch.pre
<1> SUFFICES ASSUME NEW ch \in r.changes PROVE t[ch.path] = ch.pre
  OBVIOUS
<1>1. ChangeIn(r.changes, ch.path) = ch /\ \E i \in 1 .. Len(r.order) : r.order[i] = ch.path
  BY PlanFacts
<1>2. PICK i \in 1 .. Len(r.order) : r.order[i] = ch.path
  BY <1>1
<1>3. r.pre[i].content = ChangeIn(r.changes, r.order[i]).pre
  BY DEF Preimages
<1> QED BY <1>1, <1>2, <1>3

LEMMA StageKeeps ==
  ASSUME MultiFileInv, NEW c \in Coders, NEW b \in BOOLEAN, Stage(c, b)
  PROVE  MultiFileInv'
<1> DEFINE r == coder[c]
           q == [coder[c] EXCEPT !.at = "committing", !.done = 0]
<1>1. CoderOk(r, tree) /\ CoderRecord(r) /\ coder = [e \in Coders |-> coder[e]]
  BY DEF MultiFileInv, CoderOk
<1>2. r.at = "reading" /\ r.done = Len(r.order) /\ UNCHANGED tree
  BY DEF Stage
<1>3. /\ Plan(r.changes, r.order) /\ Len(r.pre) = Len(r.order) /\ Preimages(r, Len(r.order))
      /\ r.outcome \notin {"COMPLETED", "ROLLED_BACK", "RETHROWN", "CANCELLED"}
      /\ ~r.disturbed => \A i \in 1 .. Len(r.order) : tree[r.order[i]] = r.pre[i].content
  BY <1>1, <1>2 DEF CoderOk
<1>4. ~r.disturbed => \A ch \in r.changes : tree[ch.path] = ch.pre
  BY <1>3, PreimagesCover
<1>5. CASE \E outcome \in {"CANCELLED", "INVALID_CHANGE_SET"} : Finish(c, outcome)
  BY <1>2, <1>4, <1>5, CoderEnds
<1>6. CASE coder' = [coder EXCEPT ![c].at = "committing", ![c].done = 0]
  <2>1. coder' = [coder EXCEPT ![c] = q]
    BY <1>1, <1>6
  <2>2. /\ q = [f \in CoderFields |-> q[f]] /\ q.at = "committing" /\ q.changes = r.changes /\ q.order = r.order /\ q.done = 0 /\ q.pre = r.pre
        /\ q.committedAt = r.committedAt /\ q.disturbed = r.disturbed /\ q.outcome = r.outcome
    BY <1>1 DEF CoderRecord, CoderFields
  <2> HIDE DEF q
  <2>3. CoderRecord(q)
    BY <1>1, <2>2 DEF CoderRecord
  <2>4. Len(r.order) \in Nat
    BY <1>3, PlanFacts
  <2>5. Preimages(q, Len(q.order)) /\ q.done <= Len(q.order) /\ \A i \in 1 .. q.done : tree[q.order[i]] = ChangeIn(q.changes, q.order[i]).content
    BY <1>3, <2>2, <2>4 DEF Preimages
  <2>6. CoderOk(q, tree)
    BY <1>3, <2>2, <2>3, <2>5 DEF CoderOk
  <2> QED BY <1>2, <2>1, <2>6, CoderMoves
<1>7. \/ \E outcome \in {"CANCELLED", "INVALID_CHANGE_SET"} : Finish(c, outcome)
      \/ coder' = [coder EXCEPT ![c].at = "committing", ![c].done = 0]
  BY DEF Stage
<1> QED BY <1>5, <1>6, <1>7

\* A file is committed once, and the ones before it stay as they were committed.
LEMMA CommitFileKeeps ==
  ASSUME MultiFileInv, NEW c \in Coders, CommitFile(c)
  PROVE  MultiFileInv'
<1> DEFINE r == coder[c]
           path == r.order[r.done + 1]
           content == ChangeIn(r.changes, path).content
           q == [coder[c] EXCEPT !.done = r.done + 1]
<1>1. CoderOk(r, tree) /\ CoderRecord(r) /\ tree = [f \in Files |-> tree[f]]
  BY DEF MultiFileInv, CoderOk
<1>2. /\ r.at = "committing" /\ r.done < Len(r.order) /\ tree' = [tree EXCEPT ![path] = content]
      /\ coder' = Writes(c, path, q)
  BY DEF CommitFile, ChangeOf, ChangeIn
<1>3. /\ Plan(r.changes, r.order) /\ Len(r.pre) = Len(r.order) /\ Preimages(r, Len(r.order))
      /\ r.outcome \notin {"COMPLETED", "ROLLED_BACK", "RETHROWN", "CANCELLED"} /\ r.done \in Nat
      /\ ~r.disturbed => \A i \in 1 .. r.done : tree[r.order[i]] = ChangeIn(r.changes, r.order[i]).content
  BY <1>1, <1>2 DEF CoderOk, CoderRecord
<1>4. Len(r.order) \in Nat /\ DOMAIN r.order = 1 .. Len(r.order) /\ \A i \in 1 .. Len(r.order) : r.order[i] \in Files
  BY <1>3, PlanFacts
<1>5. r.done + 1 \in 1 .. Len(r.order) /\ path \in Files
  BY <1>2, <1>3, <1>4
<1>6. /\ q = [f \in CoderFields |-> q[f]] /\ q.at = "committing" /\ q.changes = r.changes /\ q.order = r.order /\ q.done = r.done + 1 /\ q.pre = r.pre
      /\ q.committedAt = r.committedAt /\ q.disturbed = r.disturbed /\ q.outcome = r.outcome
  BY <1>1, <1>2 DEF CoderRecord, CoderFields
<1> HIDE DEF q
<1>7. CoderRecord(q)
  BY <1>1, <1>3, <1>6 DEF CoderRecord
<1>8. ~q.disturbed => \A i \in 1 .. q.done : tree'[q.order[i]] = ChangeIn(q.changes, q.order[i]).content
  <2> SUFFICES ASSUME ~r.disturbed, NEW i \in 1 .. r.done + 1 PROVE tree'[r.order[i]] = ChangeIn(r.changes, r.order[i]).content
    BY <1>6
  <2>1. CASE i \in 1 .. r.done
    <3>1. i \in DOMAIN r.order /\ r.done + 1 \in DOMAIN r.order /\ i # r.done + 1
      BY <1>3, <1>4, <1>5, <2>1
    <3>2. r.order[i] # path /\ r.order[i] \in Files
      BY <1>3, <1>4, <3>1 DEF Plan
    <3>3. tree'[r.order[i]] = tree[r.order[i]]
      BY <1>1, <1>2, <3>2
    <3> QED BY <1>3, <2>1, <3>3
  <2>2. CASE i = r.done + 1
    BY <1>1, <1>2, <1>5, <2>2
  <2> QED BY <1>3, <2>1, <2>2
<1>9. q.done <= Len(q.order) /\ Preimages(q, Len(q.order)) /\ Len(q.pre) = Len(q.order)
  BY <1>2, <1>3, <1>4, <1>6 DEF Preimages
<1>a. CoderOk(q, tree')
  <2>1. PICK u : u = tree'
    OBVIOUS
  <2>2. CoderOk(q, u)
    BY <1>3, <1>6, <1>7, <1>8, <1>9, <2>1 DEF CoderOk
  <2> QED BY <2>1, <2>2
<1> HIDE DEF path, content
<1> QED BY <1>2, <1>a, CoderWrites

\* A call that turns to its preimages has all of them, and says nothing yet of how it ends.
LEMMA RollbackOk ==
  ASSUME NEW r, NEW t, CoderOk(r, t), r.at \in {"committing", "committed"}, NEW q, CoderRecord(q),
         q.at = "restoring", q.done = 0, q.changes = r.changes, q.order = r.order, q.pre = r.pre, q.outcome \in {"none", "threw", "unattested"}
  PROVE  CoderOk(q, t)
<1>1. Plan(r.changes, r.order) /\ Len(r.pre) = Len(r.order) /\ Preimages(r, Len(r.order))
  BY DEF CoderOk
<1>2. Preimages(q, Len(q.order))
  BY <1>1 DEF Preimages
<1> QED BY <1>1, <1>2 DEF CoderOk

LEMMA CommitEndsKeeps ==
  ASSUME MultiFileInv, NEW c \in Coders, NEW b \in BOOLEAN, CommitEnds(c, b, 1)
  PROVE  MultiFileInv'
<1> DEFINE r == coder[c]
<1>1. CoderOk(r, tree) /\ CoderRecord(r) /\ coder = [e \in Coders |-> coder[e]]
  BY DEF MultiFileInv, CoderOk
<1>2. r.at = "committing" /\ UNCHANGED tree
  BY DEF CommitEnds
<1>3. /\ Plan(r.changes, r.order) /\ Len(r.pre) = Len(r.order) /\ Preimages(r, Len(r.order))
      /\ r.outcome \notin {"COMPLETED", "ROLLED_BACK", "RETHROWN", "CANCELLED"} /\ r.done \in Nat
      /\ ~r.disturbed => \A i \in 1 .. r.done : tree[r.order[i]] = ChangeIn(r.changes, r.order[i]).content
  BY <1>1, <1>2 DEF CoderOk, CoderRecord
<1>4. CASE \E outcome \in {"none", "threw", "unattested"} : coder' = [coder EXCEPT ![c].at = "restoring", ![c].done = 0, ![c].outcome = outcome]
  <2>1. PICK outcome \in {"none", "threw", "unattested"} : coder' = [coder EXCEPT ![c].at = "restoring", ![c].done = 0, ![c].outcome = outcome]
    BY <1>4
  <2> DEFINE q == [coder[c] EXCEPT !.at = "restoring", !.done = 0, !.outcome = outcome]
  <2>2. coder' = [coder EXCEPT ![c] = q]
    BY <1>1, <2>1
  <2>3. /\ q = [f \in CoderFields |-> q[f]] /\ q.at = "restoring" /\ q.changes = r.changes /\ q.order = r.order /\ q.done = 0 /\ q.pre = r.pre
        /\ q.committedAt = r.committedAt /\ q.disturbed = r.disturbed /\ q.outcome = outcome
    BY <1>1 DEF CoderRecord, CoderFields
  <2> HIDE DEF q
  <2>4. CoderRecord(q)
    BY <1>1, <2>3 DEF CoderRecord
  <2>5. CoderOk(q, tree)
    BY <1>1, <1>2, <2>3, <2>4, RollbackOk
  <2> QED BY <1>2, <2>2, <2>5, CoderMoves
<1>5. CASE coder' = [coder EXCEPT ![c].at = "committed", ![c].committedAt = 1] /\ r.done = Len(r.order)
  <2> DEFINE q == [coder[c] EXCEPT !.at = "committed", !.committedAt = 1]
  <2>2. coder' = [coder EXCEPT ![c] = q]
    BY <1>1, <1>5
  <2>3. /\ q = [f \in CoderFields |-> q[f]] /\ q.at = "committed" /\ q.changes = r.changes /\ q.order = r.order /\ q.done = r.done /\ q.pre = r.pre
        /\ q.committedAt = 1 /\ q.disturbed = r.disturbed /\ q.outcome = r.outcome
    BY <1>1 DEF CoderRecord, CoderFields
  <2> HIDE DEF q
  <2>4. CoderRecord(q)
    BY <1>1, <2>3 DEF CoderRecord
  <2>5. DOMAIN r.order = 1 .. Len(r.order)
    BY <1>3, PlanFacts
  <2>6. Preimages(q, Len(q.order)) /\ (~q.disturbed => \A i \in DOMAIN q.order : tree[q.order[i]] = ChangeIn(q.changes, q.order[i]).content)
    BY <1>3, <1>5, <2>3, <2>5 DEF Preimages
  <2>7. CoderOk(q, tree)
    BY <1>3, <2>3, <2>4, <2>6 DEF CoderOk
  <2> QED BY <1>2, <2>2, <2>7, CoderMoves
<1>6. \/ \E reason, source : coder' = ToRollback(c, reason, source)
      \/ coder' = [coder EXCEPT ![c].at = "committed", ![c].committedAt = 1] /\ r.done = Len(r.order)
  BY DEF CommitEnds
<1>7. \A reason, source : \E outcome \in {"none", "threw", "unattested"} :
        ToRollback(c, reason, source) = [coder EXCEPT ![c].at = "restoring", ![c].done = 0, ![c].outcome = outcome]
  BY DEF ToRollback
<1> QED BY <1>4, <1>5, <1>6, <1>7

\* A preimage is written back.
LEMMA RestoreFileKeeps ==
  ASSUME MultiFileInv, NEW c \in Coders, RestoreFile(c)
  PROVE  MultiFileInv'
<1> DEFINE r == coder[c]
           image == r.pre[r.done + 1]
           q == [coder[c] EXCEPT !.done = r.done + 1]
<1>1. CoderOk(r, tree) /\ CoderRecord(r)
  BY DEF MultiFileInv, CoderOk
<1>2. r.at = "restoring" /\ tree' = [tree EXCEPT ![image.path] = image.content] /\ coder' = Writes(c, image.path, q)
  BY DEF RestoreFile
<1>3. /\ q = [f \in CoderFields |-> q[f]] /\ q.at = "restoring" /\ q.changes = r.changes /\ q.order = r.order /\ q.done = r.done + 1 /\ q.pre = r.pre
      /\ q.committedAt = r.committedAt /\ q.disturbed = r.disturbed /\ q.outcome = r.outcome
  BY <1>1, <1>2 DEF CoderRecord, CoderFields
<1> HIDE DEF q
<1>4. CoderRecord(q)
  BY <1>1, <1>3 DEF CoderRecord
<1>5. /\ Plan(r.changes, r.order) /\ Len(r.pre) = Len(r.order) /\ Preimages(r, Len(r.order))
      /\ r.outcome \notin {"COMPLETED", "ROLLED_BACK", "RETHROWN", "CANCELLED"}
  BY <1>1, <1>2 DEF CoderOk
<1>6. Preimages(q, Len(q.order))
  BY <1>3, <1>5 DEF Preimages
<1>7. CoderOk(q, tree')
  <2>1. PICK u : u = tree'
    OBVIOUS
  <2>2. CoderOk(q, u)
    BY <1>3, <1>4, <1>5, <1>6 DEF CoderOk
  <2> QED BY <2>1, <2>2
<1> HIDE DEF image
<1> QED BY <1>2, <1>7, CoderWrites

LEMMA RestoreFailsKeeps ==
  ASSUME MultiFileInv, NEW c \in Coders, RestoreFails(c)
  PROVE  MultiFileInv'
BY CoderEnds DEF RestoreFails

\* The verifier reads every file that it restored.
LEMMA VerifyRestorationKeeps ==
  ASSUME MultiFileInv, NEW c \in Coders, VerifyRestoration(c)
  PROVE  MultiFileInv'
<1> DEFINE r == coder[c]
<1>1. CoderOk(r, tree) /\ CoderRecord(r) /\ r.at = "restoring" /\ UNCHANGED tree
  BY DEF MultiFileInv, CoderOk, VerifyRestoration
<1>2. /\ Plan(r.changes, r.order) /\ Len(r.pre) = Len(r.order) /\ Preimages(r, Len(r.order))
  BY <1>1 DEF CoderOk
<1>3. ASSUME Restored(c) PROVE \A ch \in r.changes : tree[ch.path] = ch.pre
  <2>1. DOMAIN r.pre = 1 .. Len(r.order)
    BY <1>1, <1>2, LenProperties DEF CoderRecord
  <2>2. \A i \in 1 .. Len(r.order) : tree[r.order[i]] = r.pre[i].content
    BY <1>2, <1>3, <2>1 DEF Restored, Preimages
  <2> QED BY <1>2, <2>2, PreimagesCover
<1>4. \/ (Finish(c, "ROLLED_BACK") \/ Finish(c, "RETHROWN")) /\ Restored(c)
      \/ Finish(c, "ROLLBACK_FAILED")
  BY DEF VerifyRestoration
<1> QED BY <1>1, <1>3, <1>4, CoderEnds

LEMMA AbortCoderKeeps ==
  ASSUME MultiFileInv, NEW c \in Coders, AbortCoder(c)
  PROVE  MultiFileInv'
<1> DEFINE r == coder[c]
           q == [coder[c] EXCEPT !.aborted = TRUE]
<1>1. CoderOk(r, tree) /\ CoderRecord(r) /\ coder = [e \in Coders |-> coder[e]]
  BY DEF MultiFileInv, CoderOk
<1>2. coder' = [coder EXCEPT ![c] = q] /\ UNCHANGED tree
  BY <1>1 DEF AbortCoder
<1>3. /\ q = [f \in CoderFields |-> q[f]] /\ q.at = r.at /\ q.changes = r.changes /\ q.order = r.order /\ q.done = r.done /\ q.pre = r.pre
      /\ q.committedAt = r.committedAt /\ q.disturbed = r.disturbed /\ q.outcome = r.outcome /\ q.quality = r.quality /\ q.left = r.left
  BY <1>1 DEF CoderRecord, CoderFields
<1> HIDE DEF q
<1>4. CoderRecord(q)
  BY <1>1, <1>3 DEF CoderRecord
<1>5. \A n : Preimages(q, n) <=> Preimages(r, n)
  BY <1>3 DEF Preimages
<1>6. CoderOk(q, tree)
  BY <1>1, <1>3, <1>4, <1>5 DEF CoderOk
<1> QED BY <1>2, <1>6, CoderMoves

LEMMA MultiFileStarts ==
  ASSUME MultiFileInit PROVE MultiFileInv
<1>1. tree = [f \in Files |-> tree[f]] /\ coder = [c \in Coders |-> coder[c]] /\ \A c \in Coders : coder[c] = Idle
  BY CodersAssumption DEF MultiFileInit
<1>2. CoderRecord(Idle)
  <2>1. Idle = [f \in CoderFields |-> Idle[f]]
    BY DEF Idle, CoderFields
  <2>2. Idle.done = 0 /\ Idle.committedAt = 0 /\ Idle.disturbed = FALSE /\ Idle.pre = <<>>
    BY DEF Idle
  <2>3. Idle.pre \in Seq(ToSet(Idle.pre))
    BY <2>2
  <2>4. Idle.done \in Nat /\ Idle.committedAt \in Int
    BY <2>2
  <2>5. Idle.disturbed \in BOOLEAN
    BY <2>2
  <2> QED BY <2>1, <2>3, <2>4, <2>5 DEF CoderRecord
<1>3. CoderOk(Idle, tree)
  <2>1. Idle.at = "idle" /\ Idle.changes = {} /\ Idle.order = <<>> /\ Idle.done = 0 /\ Idle.pre = <<>> /\ Idle.outcome = "none"
    BY DEF Idle
  <2> QED BY <1>2, <2>1 DEF CoderOk
<1> QED BY <1>1, <1>3 DEF MultiFileInv

\* A quality run that lets the gate pass looked after the commit.
LEMMA QualityAfter ==
  ASSUME NEW after \in Int, NEW status, NEW observed \in Int, NEW at \in Int,
         Outcome(QualityRequest(after, status, observed, at),
                 BuiltInReview(QualityRequest(after, status, observed, at), Findings(QualityRequest(after, status, observed, at)))) = "PASS"
  PROVE  observed >= after
<1>1. PICK r : r = QualityRequest(after, status, observed, at)
  OBVIOUS
<1>2. /\ r.at = at /\ DOMAIN r.claims = 1 .. 1 /\ DOMAIN r.evidence = 1 .. 1
      /\ r.claims[1].after = after /\ r.claims[1].kinds = {"quality_gate"}
      /\ r.evidence[1].observed = observed /\ r.evidence[1].class = "independent_tool"
  BY <1>1 DEF QualityRequest
<1>3. ToSet(r.claims) = {r.claims[1]} /\ ToSet(r.evidence) = {r.evidence[1]}
  BY <1>2 DEF ToSet
<1>4. GateTyped(r)
  <2>1. IsFiniteSet(1 .. 1)
    <3>1. 1 \in Int
      OBVIOUS
    <3> QED BY <3>1, FS_Interval
  <2>2. r.at \in Int /\ \A c \in ToSet(r.claims) : c.after \in Int
    BY <1>2, <1>3
  <2>3. \A e \in ToSet(r.evidence) : e.observed \in Int /\ e.class \in EvidenceClasses
    BY <1>2, <1>3 DEF EvidenceClasses
  <2> QED BY <1>2, <2>1, <2>2, <2>3 DEF GateTyped
<1>5. Findings(r) = {}
  <2>1. PICK review : review = BuiltInReview(r, Findings(r))
    OBVIOUS
  <2>2. Outcome(r, review) = "PASS"
    BY <1>1, <2>1
  <2> QED BY <2>2, OutcomeFound
<1>6. Supported(r)
  BY <1>4, <1>5, FoundSupported
<1>7. r.claims[1] \in ToSet(r.claims) /\ "quality_gate" \in r.claims[1].kinds
  BY <1>2, <1>3
<1>8. \E e \in ToSet(r.evidence) : r.claims[1].after <= e.observed
  BY <1>6, <1>7 DEF Supported
<1>9. after <= observed
  BY <1>2, <1>3, <1>8
<1> QED BY <1>9

LEMMA QualityKeeps ==
  ASSUME MultiFileInv, NEW c \in Coders, NEW answer, NEW observed \in 0 .. 2, NEW at \in 1 .. 2,
         QualityAnswers(c, answer, observed, at)
  PROVE  MultiFileInv'
<1> DEFINE r == coder[c]
           request == QualityRequest(r.committedAt, answer, observed, at)
           passed == answer = "PASS" /\ Outcome(request, BuiltInReview(request, Findings(request))) = "PASS"
<1>1. CoderOk(r, tree) /\ CoderRecord(r) /\ coder = [e \in Coders |-> coder[e]]
  BY DEF MultiFileInv, CoderOk
<1>2. r.at = "committed" /\ UNCHANGED tree
  BY DEF QualityAnswers
<1>3. /\ Plan(r.changes, r.order) /\ Len(r.pre) = Len(r.order) /\ Preimages(r, Len(r.order)) /\ r.committedAt \in Int
      /\ ~r.disturbed => \A i \in DOMAIN r.order : tree[r.order[i]] = ChangeIn(r.changes, r.order[i]).content
  BY <1>1, <1>2 DEF CoderOk, CoderRecord
<1>4. CASE passed /\ coder' = [Ended(c, "COMPLETED") EXCEPT ![c].quality = <<"PASS", observed>>]
  <2>1. PICK e : e = EndRecord(r, tree, "COMPLETED")
    OBVIOUS
  <2>2. Ended(c, "COMPLETED") = [coder EXCEPT ![c] = e]
    BY <1>1, <2>1, EndedRecord
  <2>3. /\ CoderRecord(e) /\ e.at = "ended" /\ e.outcome = "COMPLETED" /\ e.changes = r.changes /\ e.order = r.order
        /\ e.disturbed = r.disturbed /\ e.committedAt = r.committedAt /\ \A p \in Targets(r.changes) : e.left[p] = tree[p]
    BY <1>1, <2>1, EndFields
  <2> DEFINE q == [e EXCEPT !.quality = <<"PASS", observed>>]
  <2>4. coder' = [coder EXCEPT ![c] = q]
    <3>1. coder' = [[coder EXCEPT ![c] = e] EXCEPT ![c].quality = <<"PASS", observed>>]
      BY <1>4, <2>2
    <3> QED BY <1>1, <3>1
  <2>5. /\ q = [f \in CoderFields |-> q[f]] /\ q.at = "ended" /\ q.changes = r.changes /\ q.order = r.order /\ q.disturbed = r.disturbed
        /\ q.committedAt = r.committedAt /\ q.outcome = "COMPLETED" /\ q.quality = <<"PASS", observed>> /\ q.left = e.left
        /\ q.pre = e.pre /\ q.done = e.done
    BY <2>3 DEF CoderRecord, CoderFields
  <2> HIDE DEF q
  <2>6. CoderRecord(q)
    BY <2>3, <2>5 DEF CoderRecord
  <2>7. observed >= r.committedAt
    <3>1. observed \in Int /\ at \in Int
      OBVIOUS
    <3> QED BY <1>3, <1>4, <3>1, QualityAfter
  <2>8. q.quality[1] = "PASS" /\ q.quality[2] >= q.committedAt
    BY <2>5, <2>7
  <2>9. ~q.disturbed => \A ch \in q.changes : q.left[ch.path] = ch.content
    <3> SUFFICES ASSUME ~r.disturbed, NEW ch \in r.changes PROVE e.left[ch.path] = ch.content
      BY <2>5
    <3>1. DOMAIN r.order = 1 .. Len(r.order) /\ ChangeIn(r.changes, ch.path) = ch /\ \E i \in 1 .. Len(r.order) : r.order[i] = ch.path
      BY <1>3, PlanFacts
    <3>2. PICK i \in DOMAIN r.order : r.order[i] = ch.path
      BY <3>1
    <3>3. tree[ch.path] = ch.content
      BY <1>3, <3>1, <3>2
    <3> QED BY <2>3, <3>3 DEF Targets
  <2>a. CoderOk(q, tree)
    BY <1>3, <2>5, <2>6, <2>8, <2>9 DEF CoderOk
  <2> QED BY <1>2, <2>4, <2>a, CoderMoves
<1>5. ASSUME NEW k, NEW outcome \in {"none", "threw", "unattested"},
             k = [coder EXCEPT ![c].at = "restoring", ![c].done = 0, ![c].outcome = outcome], coder' = [k EXCEPT ![c].quality = @]
      PROVE  MultiFileInv'
  <2> DEFINE q == [coder[c] EXCEPT !.at = "restoring", !.done = 0, !.outcome = outcome]
             s == [q EXCEPT !.quality = @]
  <2>2. coder' = [coder EXCEPT ![c] = s]
    <3>1. [coder EXCEPT ![c].at = "restoring", ![c].done = 0, ![c].outcome = outcome] = [coder EXCEPT ![c] = q]
      BY <1>1
    <3>2. k = [coder EXCEPT ![c] = q]
      BY <1>5, <3>1
    <3> HIDE DEF q
    <3> QED BY <1>1, <1>5, <3>2
  <2>3. /\ q = [f \in CoderFields |-> q[f]] /\ q.at = "restoring" /\ q.changes = r.changes /\ q.order = r.order /\ q.done = 0 /\ q.pre = r.pre
        /\ q.committedAt = r.committedAt /\ q.disturbed = r.disturbed /\ q.outcome = outcome
    BY <1>1 DEF CoderRecord, CoderFields
  <2> HIDE DEF q
  <2>4. s = q
    BY <2>3 DEF CoderFields
  <2>5. CoderRecord(q)
    BY <1>1, <2>3 DEF CoderRecord
  <2> HIDE DEF s
  <2>6. CoderOk(q, tree)
    BY <1>1, <1>2, <2>3, <2>5, RollbackOk
  <2> QED BY <1>2, <2>2, <2>4, <2>6, CoderMoves
<1>6. \A reason, source : \E outcome \in {"none", "threw", "unattested"} :
        ToRollback(c, reason, source) = [coder EXCEPT ![c].at = "restoring", ![c].done = 0, ![c].outcome = outcome]
  BY DEF ToRollback
<1>7. \/ passed /\ coder' = [Ended(c, "COMPLETED") EXCEPT ![c].quality = <<"PASS", observed>>]
      \/ \E reason, source : coder' = [ToRollback(c, reason, source) EXCEPT ![c].quality = @]
  BY DEF QualityAnswers
<1> HIDE DEF passed
<1>8. ASSUME NEW reason, NEW source, coder' = [ToRollback(c, reason, source) EXCEPT ![c].quality = @]
      PROVE  MultiFileInv'
  <2>1. PICK k : k = ToRollback(c, reason, source)
    OBVIOUS
  <2>2. coder' = [k EXCEPT ![c].quality = @]
    BY <1>8, <2>1
  <2> QED BY <1>5, <1>6, <2>1, <2>2
<1> QED BY <1>4, <1>7, <1>8

LEMMA MultiFileKeeps ==
  ASSUME MultiFileInv, [MultiFileNext]_multiFileVars PROVE MultiFileInv'
<1>1. CASE UNCHANGED multiFileVars
  BY <1>1 DEF multiFileVars, MultiFileInv
<1>2. ASSUME NEW c \in Coders,
             \/ \E p \in Proposals, b \in BOOLEAN : ExecuteProposals(c, p, b)
             \/ ReadPreimage(c) \/ CommitFile(c) \/ RestoreFile(c) \/ RestoreFails(c) \/ VerifyRestoration(c) \/ AbortCoder(c)
             \/ \E b \in BOOLEAN : Stage(c, b) \/ CommitEnds(c, b, 1)
             \/ \E answer \in {"PASS", "FAIL", "throws"}, observed \in 0 .. 2, at \in 1 .. 2 : QualityAnswers(c, answer, observed, at)
      PROVE  MultiFileInv'
  BY <1>2, ExecuteKeeps, ReadKeeps, CommitFileKeeps, RestoreFileKeeps, RestoreFailsKeeps, VerifyRestorationKeeps, AbortCoderKeeps,
     StageKeeps, CommitEndsKeeps, QualityKeeps
<1> QED BY <1>1, <1>2 DEF MultiFileNext

\* What the invariant says of a call that has ended is what AllOrNothing asks for.
LEMMA MultiFileSound ==
  ASSUME MultiFileInv PROVE AllOrNothing
<1> SUFFICES ASSUME NEW c \in Coders
             PROVE  /\ coder[c].at = "ended" /\ ~coder[c].disturbed =>
                         /\ coder[c].outcome = "COMPLETED" => Left(c, FALSE)
                         /\ coder[c].outcome \in {"ROLLED_BACK", "RETHROWN", "CANCELLED"} => Left(c, TRUE)
                    /\ coder[c].outcome = "COMPLETED" => coder[c].quality[1] = "PASS" /\ coder[c].quality[2] >= coder[c].committedAt
                    /\ \A i \in DOMAIN coder[c].order : ChangeOf(c, coder[c].order[i]).deps \subseteq {coder[c].order[j] : j \in 1 .. i - 1}
  BY DEF AllOrNothing
<1>1. CoderOk(coder[c], tree)
  BY DEF MultiFileInv
<1>2. \A path : ChangeOf(c, path) = ChangeIn(coder[c].changes, path)
  BY DEF ChangeOf, ChangeIn
<1>3. \A i \in DOMAIN coder[c].order : ChangeIn(coder[c].changes, coder[c].order[i]).deps \subseteq {coder[c].order[j] : j \in 1 .. i - 1}
  <2>1. CASE coder[c].order = <<>>
    BY <2>1
  <2>2. CASE Plan(coder[c].changes, coder[c].order)
    BY <2>2 DEF Plan
  <2> QED BY <1>1, <2>1, <2>2 DEF CoderOk
<1>4. coder[c].at = "ended" /\ ~coder[c].disturbed =>
        /\ coder[c].outcome = "COMPLETED" => Left(c, FALSE)
        /\ coder[c].outcome \in {"ROLLED_BACK", "RETHROWN", "CANCELLED"} => Left(c, TRUE)
  BY <1>1 DEF CoderOk, Left
<1>5. coder[c].outcome = "COMPLETED" => coder[c].quality[1] = "PASS" /\ coder[c].quality[2] >= coder[c].committedAt
  BY <1>1 DEF CoderOk
<1> QED BY <1>2, <1>3, <1>4, <1>5

-----------------------------------------------------------------------------
(* The two orchestrators, together *)

OrchestratorsInv == CodingInv /\ MultiFileInv

LEMMA OrchestratorsStep ==
  ASSUME OrchestratorsInv, [ServicesNext]_<<part, backVars, engineVars, queueVars, runSkillVars, routingVars>>
  PROVE  OrchestratorsInv'
<1>1. [MultiFileNext]_multiFileVars
  BY DEF ServicesNext, ClientsStep, CodingStep, RoutingStep, engineVars
<1>2. [CodingNext]_codingVars
  BY DEF ServicesNext, ClientsStep, CodingStep, RoutingStep, engineVars
<1> QED BY <1>1, <1>2, MultiFileKeeps, CodingKeeps DEF OrchestratorsInv

\* However many calls drive a mission, and whatever its tools answer, it completes on a file that passed its checks;
\* and however many calls change a set of files, with whatever failures, each one changes all of its files or none
\* unless it says otherwise or was disturbed (runtime/coding.ts 116-640, runtime/multi-file.ts 157-361, 602-638).
THEOREM OrchestratorsHold == ServicesSpec => []OrchestratorsSound
<1>1. ServicesInit => OrchestratorsInv
  BY CodingStarts, MultiFileStarts DEF ServicesInit, OrchestratorsInv
<1>2. OrchestratorsInv /\ [ServicesNext]_<<part, backVars, engineVars, queueVars, runSkillVars, routingVars>> => OrchestratorsInv'
  BY OrchestratorsStep
<1>3. OrchestratorsInv => OrchestratorsSound
  BY CodingInvSound, MultiFileSound DEF OrchestratorsInv, OrchestratorsSound
<1> QED BY <1>1, <1>2, <1>3, PTL DEF ServicesSpec

-----------------------------------------------------------------------------
(* The keys of the job queue: the runs of this instance are behaviours of   *)
(* JobRunner, about which KeysHold is proved for all values of its         *)
(* constants.                                                              *)

QueueRuns == INSTANCE JobRunnerProofs WITH
  JobIds <- {j1, j2}, IdempotencyKeys <- {k1, k2}, Inputs <- TwoJobs, WorkerIds <- {w1}, LeaseMs <- 1, RetryDelays <- {0},
  MaxOverdue <- 1, MaxJobs <- 2, MaxJobEvents <- 6, Runners <- {r1}, WorkerId <- [r \in {r1} |-> w1], TimeoutMs <- 1

\* A step of the queue is a step of the instance that the theorems are about: the two differ in name only.
LEMMA QueueSteps == Queue!Next => QueueRuns!Next
<1>1. \A k \in {k1, k2}, input \in TwoJobs : Queue!Enqueue(k, input) => QueueRuns!Enqueue(k, input)
  BY DEF Queue!AbsentRow, QueueRuns!AbsentRow, Queue!AppendJobEvents, QueueRuns!AppendJobEvents, Queue!Cardinality,
         QueueRuns!Cardinality, Queue!Enqueue, QueueRuns!Enqueue, Queue!EnqueueJob, QueueRuns!EnqueueJob, Queue!Event,
         QueueRuns!Event, Queue!Stored, QueueRuns!Stored, Queue!WriteJob, QueueRuns!WriteJob
<1>2. \A j \in {j1, j2} : Queue!Cancel(j) => QueueRuns!Cancel(j)
  BY DEF Queue!AppendJobEvents, QueueRuns!AppendJobEvents, Queue!Cancel, QueueRuns!Cancel, Queue!CancelJob, QueueRuns!CancelJob,
         Queue!Cardinality, QueueRuns!Cardinality, Queue!Event, QueueRuns!Event, Queue!Waiting, QueueRuns!Waiting, Queue!WriteJob,
         QueueRuns!WriteJob
<1>3. \A r \in {r1}, j \in {j1, j2} : Queue!RunNext(r, j) => QueueRuns!RunNext(r, j)
  BY DEF Queue!AbandonedJobs, QueueRuns!AbandonedJobs, Queue!AppendJobEvents, QueueRuns!AppendJobEvents, Queue!Candidates,
         QueueRuns!Candidates, Queue!Cardinality, QueueRuns!Cardinality, Queue!ClaimJob, QueueRuns!ClaimJob, Queue!Claimable,
         QueueRuns!Claimable, Queue!Claimed, QueueRuns!Claimed, Queue!Event, QueueRuns!Event, Queue!Executing, QueueRuns!Executing,
         Queue!Exhausted, QueueRuns!Exhausted, Queue!ExhaustedJobs, QueueRuns!ExhaustedJobs, Queue!Expired, QueueRuns!Expired,
         Queue!Idle, QueueRuns!Idle, Queue!Maintained, QueueRuns!Maintained, Queue!MaintenanceEvents, QueueRuns!MaintenanceEvents,
         Queue!Precedes, QueueRuns!Precedes, Queue!Released, QueueRuns!Released, Queue!RunNext, QueueRuns!RunNext, Queue!Waiting,
         QueueRuns!Waiting
<1>4. \A r \in {r1} : Queue!PollEmpty(r) => QueueRuns!PollEmpty(r)
  BY DEF Queue!AbandonedJobs, QueueRuns!AbandonedJobs, Queue!AppendJobEvents, QueueRuns!AppendJobEvents, Queue!Cardinality,
         QueueRuns!Cardinality, Queue!ClaimNothing, QueueRuns!ClaimNothing, Queue!Claimable, QueueRuns!Claimable, Queue!Event,
         QueueRuns!Event, Queue!Executing, QueueRuns!Executing, Queue!Exhausted, QueueRuns!Exhausted, Queue!ExhaustedJobs,
         QueueRuns!ExhaustedJobs, Queue!Expired, QueueRuns!Expired, Queue!Maintained, QueueRuns!Maintained, Queue!MaintenanceEvents,
         QueueRuns!MaintenanceEvents, Queue!PollEmpty, QueueRuns!PollEmpty, Queue!Released, QueueRuns!Released, Queue!Waiting,
         QueueRuns!Waiting
<1>5. \A r \in {r1} : Queue!Heartbeat(r) => QueueRuns!Heartbeat(r)
  BY DEF Queue!Aborted, QueueRuns!Aborted, Queue!Active, QueueRuns!Active, Queue!AppendJobEvents, QueueRuns!AppendJobEvents,
         Queue!Cardinality, QueueRuns!Cardinality, Queue!Event, QueueRuns!Event, Queue!Executing, QueueRuns!Executing,
         Queue!Heartbeat, QueueRuns!Heartbeat, Queue!HeartbeatJob, QueueRuns!HeartbeatJob, Queue!ValidLease, QueueRuns!ValidLease,
         Queue!WriteJob, QueueRuns!WriteJob, Queue!storeVars, QueueRuns!storeVars
<1>6. \A r \in {r1} : Queue!HeartbeatAnswered(r) => QueueRuns!HeartbeatAnswered(r)
  BY DEF Queue!Executing, QueueRuns!Executing, Queue!HeartbeatAnswered, QueueRuns!HeartbeatAnswered, Queue!storeVars,
         QueueRuns!storeVars
<1>7. \A r \in {r1} : Queue!Timeout(r) => QueueRuns!Timeout(r)
  BY DEF Queue!Executing, QueueRuns!Executing, Queue!Timeout, QueueRuns!Timeout, Queue!storeVars, QueueRuns!storeVars
<1>8. \A r \in {r1}, result \in Queue!HandlerResults : Queue!HandlerDone(r, result) => QueueRuns!HandlerDone(r, result)
  <2>1. ASSUME NEW l, Queue!SettleJobSuccess(l) PROVE QueueRuns!SettleJobSuccess(l)
    BY <2>1 DEF Queue!Active, QueueRuns!Active, Queue!AppendJobEvents, QueueRuns!AppendJobEvents, Queue!CancelRunningJob,
           QueueRuns!CancelRunningJob, Queue!Cardinality, QueueRuns!Cardinality, Queue!Event, QueueRuns!Event, Queue!Released,
           QueueRuns!Released, Queue!SettleJobSuccess, QueueRuns!SettleJobSuccess, Queue!ValidLease, QueueRuns!ValidLease,
           Queue!WriteJob, QueueRuns!WriteJob
  <2>2. ASSUME NEW l, NEW delay, Queue!SettleJobRetry(l, delay) PROVE QueueRuns!SettleJobRetry(l, delay)
    BY <2>2 DEF Queue!Active, QueueRuns!Active, Queue!AppendJobEvents, QueueRuns!AppendJobEvents, Queue!BlockRunningJob,
           QueueRuns!BlockRunningJob, Queue!CancelRunningJob, QueueRuns!CancelRunningJob, Queue!Cardinality, QueueRuns!Cardinality,
           Queue!Event, QueueRuns!Event, Queue!Exhausted, QueueRuns!Exhausted, Queue!Released, QueueRuns!Released,
           Queue!SettleJobRetry, QueueRuns!SettleJobRetry, Queue!ValidLease, QueueRuns!ValidLease, Queue!WriteJob, QueueRuns!WriteJob
  <2>3. ASSUME NEW l, Queue!SettleJobBlocked(l) PROVE QueueRuns!SettleJobBlocked(l)
    BY <2>3 DEF Queue!Active, QueueRuns!Active, Queue!AppendJobEvents, QueueRuns!AppendJobEvents, Queue!BlockRunningJob,
           QueueRuns!BlockRunningJob, Queue!CancelRunningJob, QueueRuns!CancelRunningJob, Queue!Cardinality, QueueRuns!Cardinality,
           Queue!Event, QueueRuns!Event, Queue!Released, QueueRuns!Released, Queue!SettleJobBlocked, QueueRuns!SettleJobBlocked,
           Queue!ValidLease, QueueRuns!ValidLease, Queue!WriteJob, QueueRuns!WriteJob
  <2>4. ASSUME NEW l, Queue!SettleJobCancelled(l) PROVE QueueRuns!SettleJobCancelled(l)
    BY <2>4 DEF Queue!Active, QueueRuns!Active, Queue!AppendJobEvents, QueueRuns!AppendJobEvents, Queue!CancelRunningJob,
           QueueRuns!CancelRunningJob, Queue!Cardinality, QueueRuns!Cardinality, Queue!Event, QueueRuns!Event, Queue!Released,
           QueueRuns!Released, Queue!SettleJobCancelled, QueueRuns!SettleJobCancelled, Queue!ValidLease, QueueRuns!ValidLease,
           Queue!WriteJob, QueueRuns!WriteJob
  <2>5. ASSUME NEW l, NEW result, Queue!Settle(l, result) PROVE QueueRuns!Settle(l, result)
    BY <2>1, <2>2, <2>3, <2>4, <2>5 DEF Queue!Settle, QueueRuns!Settle
  <2>6. ASSUME NEW r, NEW result PROVE Queue!Settled(r, result) = QueueRuns!Settled(r, result)
    BY DEF Queue!Settled, QueueRuns!Settled, Queue!Aborted, QueueRuns!Aborted
  <2> QED BY <2>5, <2>6 DEF Queue!HandlerDone, QueueRuns!HandlerDone, Queue!Executing, QueueRuns!Executing,
                             Queue!Idle, QueueRuns!Idle
<1>9. \A r \in {r1} : Queue!Abandon(r) => QueueRuns!Abandon(r)
  BY DEF Queue!Abandon, QueueRuns!Abandon, Queue!Executing, QueueRuns!Executing, Queue!Idle, QueueRuns!Idle, Queue!storeVars,
         QueueRuns!storeVars
<1>10. Queue!Tick => QueueRuns!Tick
  BY DEF Queue!AgeRows, QueueRuns!AgeRows, Queue!Stored, QueueRuns!Stored, Queue!Tick, QueueRuns!Tick
<1> QED BY <1>1, <1>2, <1>3, <1>4, <1>5, <1>6, <1>7, <1>8, <1>9, <1>10 DEF Queue!Next, QueueRuns!Next, Queue!HandlerResults, QueueRuns!HandlerResults

LEMMA QueueStarts == Queue!Init => QueueRuns!Init
BY DEF Queue!AbsentRow, QueueRuns!AbsentRow, Queue!Idle, QueueRuns!Idle, Queue!Init, QueueRuns!Init, Queue!StoreInit,
       QueueRuns!StoreInit

\* Whatever producers, runners and clocks do, an accepted key names the stored job with the input that it was
\* sent with, and every stored job has such a key (durable/store.ts 334-420).
THEOREM QueueKeysHold == ServicesSpec => []KeysNameJobs
<1>1. ServicesInit => QueueRuns!Init
  BY QueueStarts DEF ServicesInit
<1>2. [ServicesNext]_<<part, backVars, engineVars, queueVars, runSkillVars, routingVars>> => [QueueRuns!Next]_(QueueRuns!vars)
  <2>1. [ServicesNext]_<<part, backVars, engineVars, queueVars, runSkillVars, routingVars>> => [Queue!Next]_queueVars
    BY DEF ServicesNext, ClientsStep, CodingStep, RoutingStep, queueVars
  <2> QED BY <2>1, QueueSteps DEF queueVars, QueueRuns!vars
<1>3. QueueRuns!Spec => []QueueRuns!KeysNameJobs
  <2>1. QueueRuns!IsFiniteSet({j1, j2})
    <3>1. <<j1, j2>> \in Seq({j1, j2}) /\ Len(<<j1, j2>>) = 2
      OBVIOUS
    <3>2. \A s \in {j1, j2} : \E n \in 1 .. Len(<<j1, j2>>) : <<j1, j2>>[n] = s
      OBVIOUS
    <3> QED BY <3>1, <3>2 DEF QueueRuns!IsFiniteSet
  <2>2. TwoJobs \subseteq [jobId : {j1, j2}, priority : Nat, maxAttempts : Nat \ {0}, delay : Nat]
    BY DEF TwoJobs, JobInput
  <2> QED BY <2>1, <2>2, QueueRuns!KeysHold, QueueAssumption DEF QueueRuns!Lease, Queue!Lease
<1>4. QueueRuns!KeysNameJobs => KeysNameJobs
  BY DEF KeysNameJobs, Queue!KeysNameJobs, QueueRuns!KeysNameJobs, Queue!Stored, QueueRuns!Stored
<1> QED BY <1>1, <1>2, <1>3, <1>4, PTL DEF ServicesSpec, QueueRuns!Spec
=============================================================================
