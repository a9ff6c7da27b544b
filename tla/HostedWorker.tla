---------------------------- MODULE HostedWorker ----------------------------
(***************************************************************************)
(* HostedMissionBackend.runWorkerOnce, createBackup and restoreBackup      *)
(* (src/hosted/service.ts) for one job and one mission.  The queue, the    *)
(* audit log and the backup service are adapters: external, they do what   *)
(* the durable store does (fencing by generation), and may fail.           *)
(***************************************************************************)
EXTENDS Integers, FiniteSets

CONSTANTS HostedWorkers, MaxGeneration, StateHashes, NoHosted

ASSUME HostedAssumption == MaxGeneration \in Nat

VARIABLES
  queueRow,      \* the queue's row: status, lease generation, whether the lease lapsed
  hostedWorker,  \* each runWorkerOnce: where it is, its lease's generation
  abortSignal,   \* the workers' signals
  stateHash,     \* the mission's state
  snapshot,      \* the last backup handed out: the hash it was taken of
  restoreDone    \* ghost: [hash] of the last restore reported as accepted

hostedVars == <<queueRow, hostedWorker, abortSignal, stateHash, snapshot, restoreDone>>

HostedInit ==
  /\ queueRow = [status |-> "PENDING", generation |-> 0, lapsed |-> FALSE]
  /\ hostedWorker = [w \in HostedWorkers |-> [at |-> "idle", generation |-> 0]]
  /\ abortSignal = [w \in HostedWorkers |-> FALSE]
  /\ stateHash \in StateHashes /\ snapshot = NoHosted /\ restoreDone = NoHosted

\* validateLease and normalizeWorkerScope: this job's lease, not expired, of this mission.
ValidLease(lease) == lease = "own"
Leases == {"own", "foreign or expired"}

backupVars == <<stateHash, snapshot, restoreDone>>

\* queue.claim answers with nothing to do, a lease, or a lease validateLease refuses (foreign, expired).
ClaimHosted(w, lease) ==
  /\ hostedWorker[w].at = "idle" /\ ~abortSignal[w]
  /\ queueRow.status = "PENDING" \/ (queueRow.status = "RUNNING" /\ queueRow.lapsed)
  /\ queueRow.generation < MaxGeneration
  /\ queueRow' = [status |-> "RUNNING", generation |-> queueRow.generation + 1, lapsed |-> FALSE]
  /\ hostedWorker' = [hostedWorker EXCEPT ![w] = [at |-> IF ValidLease(lease) THEN "claimed" ELSE "abandoning",
                                                  generation |-> queueRow.generation + 1]]
  /\ UNCHANGED <<abortSignal, backupVars>>

\* The audit record of the claim; when it cannot be written the call ends and the lease is left to lapse.
ClaimAudited(w, written) ==
  /\ hostedWorker[w].at = "claimed"
  /\ hostedWorker' = [hostedWorker EXCEPT ![w].at = IF written THEN "executing" ELSE "failed"]
  /\ UNCHANGED <<queueRow, abortSignal, backupVars>>

\* handler.execute ends: a throw or a signal that was aborted meanwhile abandons the lease.
HandlerEnds(w, ok) ==
  /\ hostedWorker[w].at = "executing"
  /\ hostedWorker' = [hostedWorker EXCEPT ![w].at = IF ok /\ ~abortSignal[w] THEN "settling" ELSE "abandoning"]
  /\ UNCHANGED <<queueRow, abortSignal, backupVars>>

\* Fault: settlements are not fenced by the lease's generation.
UnfencedSettle(w) ==
  /\ hostedWorker[w].at = "settling"
  /\ LET current == queueRow.status = "RUNNING" IN
     /\ queueRow' = IF current THEN [queueRow EXCEPT !.status = "SUCCEEDED"] ELSE queueRow
     /\ hostedWorker' = [hostedWorker EXCEPT ![w].at = IF current THEN "settled" ELSE "failed"]
  /\ UNCHANGED <<abortSignal, backupVars>>

\* queue.settle: a current lease settles the job; a stale one is refused, or answered with the row as it is,
\* whose generation then differs.
SettleHosted(w) ==
  /\ hostedWorker[w].at = "settling"
  /\ LET current == queueRow.status = "RUNNING" /\ queueRow.generation = hostedWorker[w].generation IN
     /\ queueRow' = IF current THEN [queueRow EXCEPT !.status = "SUCCEEDED"] ELSE queueRow
     /\ hostedWorker' = [hostedWorker EXCEPT ![w].at = IF current THEN "settled" ELSE "failed"]
  /\ UNCHANGED <<abortSignal, backupVars>>

\* The audit record of the settlement, then the caller has it; or an error although the job is settled.
SettlementAudited(w, written) ==
  /\ hostedWorker[w].at = "settled"
  /\ hostedWorker' = [hostedWorker EXCEPT ![w].at = IF written THEN "returned" ELSE "failed"]
  /\ UNCHANGED <<queueRow, abortSignal, backupVars>>

\* queue.abandon gives a current lease back; a stale one changes nothing.
AbandonHosted(w) ==
  /\ hostedWorker[w].at = "abandoning"
  /\ queueRow' = IF queueRow.status = "RUNNING" /\ queueRow.generation = hostedWorker[w].generation
                 THEN [queueRow EXCEPT !.status = "PENDING"] ELSE queueRow
  /\ hostedWorker' = [hostedWorker EXCEPT ![w].at = "failed"]
  /\ UNCHANGED <<abortSignal, backupVars>>

LeaseLapses ==
  /\ queueRow.status = "RUNNING" /\ ~queueRow.lapsed
  /\ queueRow' = [queueRow EXCEPT !.lapsed = TRUE]
  /\ UNCHANGED <<hostedWorker, abortSignal, backupVars>>

AbortWorker(w) ==
  /\ ~abortSignal[w] /\ hostedWorker[w].at \in {"claimed", "executing"}
  /\ abortSignal' = [abortSignal EXCEPT ![w] = TRUE]
  /\ UNCHANGED <<queueRow, hostedWorker, backupVars>>

\* The worker process is called again.
CallAgain(w) ==
  /\ hostedWorker[w].at \in {"failed", "returned"}
  /\ hostedWorker' = [hostedWorker EXCEPT ![w].at = "idle"]
  /\ abortSignal' = [abortSignal EXCEPT ![w] = FALSE]
  /\ UNCHANGED <<queueRow, backupVars>>

-----------------------------------------------------------------------------
MissionMoves(h) ==
  /\ h # stateHash /\ stateHash' = h
  /\ restoreDone' = NoHosted
  /\ UNCHANGED <<queueRow, hostedWorker, abortSignal, snapshot>>

\* createBackup: the snapshot is handed out if its own hash and scope check.
CreateBackup ==
  /\ snapshot' = stateHash
  /\ UNCHANGED <<queueRow, hostedWorker, abortSignal, stateHash, restoreDone>>

\* normalizeRestoreResult and the comparison with the backup's own hash.
RestoreMatches(h) == h = snapshot

\* restoreBackup: the adapter restores first, its evidence is compared afterwards.
RestoreBackup(h) ==
  /\ snapshot # NoHosted
  /\ stateHash' = h
  /\ restoreDone' = IF RestoreMatches(h) THEN snapshot ELSE NoHosted
  /\ UNCHANGED <<queueRow, hostedWorker, abortSignal, snapshot>>

HostedNext ==
  \/ \E w \in HostedWorkers :
       \/ \E lease \in Leases : ClaimHosted(w, lease)
       \/ \E b \in BOOLEAN : ClaimAudited(w, b) \/ HandlerEnds(w, b) \/ SettlementAudited(w, b)
       \/ SettleHosted(w) \/ AbandonHosted(w) \/ AbortWorker(w) \/ CallAgain(w)
  \/ LeaseLapses
  \/ CreateBackup \/ \E h \in StateHashes : MissionMoves(h) \/ RestoreBackup(h)

HostedSpec == HostedInit /\ [][HostedNext]_hostedVars

(***************************************************************************)
(* A worker is told of a settlement only for the job its own lease         *)
(* settled: whatever lapses, is reclaimed, aborted or unauditable between  *)
(* the claim and the settlement, one call settles the job, a settled job   *)
(* is never handed out again, and an accepted restore is the backup.       *)
(***************************************************************************)
SettledByItsLease ==
  /\ \A w \in HostedWorkers : hostedWorker[w].at \in {"settled", "returned"} =>
       queueRow.status = "SUCCEEDED" /\ queueRow.generation = hostedWorker[w].generation
  /\ \A v, w \in HostedWorkers : v # w /\ hostedWorker[v].at \in {"claimed", "executing", "settling"}
       /\ hostedWorker[w].at \in {"claimed", "executing", "settling"} =>
       hostedWorker[v].generation # hostedWorker[w].generation
  /\ queueRow.status = "RUNNING" => queueRow.generation > 0
  /\ restoreDone # NoHosted => stateHash = restoreDone
=============================================================================
