--------------------------- MODULE MissionStream ---------------------------
(***************************************************************************)
(* MissionRuntime together with the stream it persists and the mission     *)
(* checkpoints of SqliteDurableStore (src/durable/store.ts,                *)
(* src/mission/checkpoint.ts).  A caller takes a snapshot, turns it into a *)
(* checkpoint, and saves it later, when the stream may have grown and      *)
(* another caller may have saved a newer one.                              *)
(***************************************************************************)
EXTENDS MissionRuntime

CONSTANT NoCheckpoint

\* The limits of a mission without budget dimensions.
NoLimits == [d \in {} |-> 0]

VARIABLES
  stream,      \* rows of mission_events
  checkpoint,  \* row of mission_checkpoints
  taken        \* per caller: the snapshot it wants to save

streamVars == <<snapshot, idempotency, call, lastActive, stream, checkpoint, taken>>

\* projectMission after each event: applyEvent folded from the left.
Projections(events) ==
  LET after[n \in 0 .. Len(events)] == IF n = 0 THEN NoMission ELSE ApplyEvent(after[n - 1], events[n])
  IN  after

ProjectMission(events) == Projections(events)[Len(events)]

StreamInit ==
  /\ Init
  /\ stream = <<>>
  /\ checkpoint = NoCheckpoint
  /\ taken = [c \in Callers |-> NoCheckpoint]

\* Fault: only the first row of a batch is inserted.
WithRowsPartial(items) == Append(stream, items[1])

\* The INSERTs of append.
WithRows(items) == stream \o items

\* A step of the runtime; an accepted append adds its batch to the stream.
RuntimeStep ==
  /\ \/ \E c \in Callers : AppendBatch(c) /\ stream' = WithRows(call[c].items)
     \/ /\ \E c \in Callers, k \in Keys \cup {Fresh} :
             \/ Create(c, k) \/ Transition(c, k) \/ SetTaskStatus(c, k)
             \/ DebitBudget(c, k) \/ RecordFailure(c, k)
        /\ UNCHANGED stream
     \/ (\E c \in Callers : GiveUp(c)) /\ UNCHANGED stream
  /\ UNCHANGED <<checkpoint, taken>>

\* createMissionCheckpoint of the snapshot a caller loaded, or of the one it
\* expects its pending append to produce.
CreateMissionCheckpoint(c) ==
  /\ Loads
  /\ \/ taken' = [taken EXCEPT ![c] = snapshot]
     \/ /\ call[c] # NoCall /\ call[c].expectedVersion = snapshot.version
        /\ taken' = [taken EXCEPT ![c] = ApplyBatch(snapshot, call[c].items)]
  /\ UNCHANGED <<snapshot, idempotency, call, lastActive, stream, checkpoint>>

\* Fault: a checkpoint that is not ahead of the stream is taken for granted.
MatchesEventsByVersion(s) == s.version <= Len(stream)

\* #assertCheckpointMatchesEvents.
MatchesEvents(s) ==
  /\ s.version <= Len(stream)
  /\ ProjectMission(SubSeq(stream, 1, s.version)) = s

\* The version comparison of saveCheckpoint with the row that is stored.  Saving
\* the stored version again changes nothing.
Supersedes(s) == checkpoint # NoCheckpoint => checkpoint.version < s.version

\* saveCheckpoint.
SaveCheckpoint(c) ==
  /\ taken[c] # NoCheckpoint
  /\ MatchesEvents(taken[c])
  /\ Supersedes(taken[c])
  /\ checkpoint' = taken[c]
  /\ UNCHANGED <<snapshot, idempotency, call, lastActive, stream, taken>>

StreamNext ==
  \/ RuntimeStep
  \/ \E c \in Callers : CreateMissionCheckpoint(c)
  \/ \E c \in Callers : SaveCheckpoint(c)

StreamSpec == StreamInit /\ [][StreamNext]_streamVars

\* loadCheckpoint accepts what is stored: it is the projection of the prefix of
\* the stream it claims to be, whatever was appended and saved since.
CheckpointLoads ==
  checkpoint # NoCheckpoint =>
    checkpoint = ProjectMission(SubSeq(stream, 1, checkpoint.version))

\* Replaying the whole stream from nothing gives the snapshot that the callers
\* worked with step by step.
ReplayEqualsLive == ProjectMission(stream) = snapshot

\* A request that is repeated under its key, by a caller that loaded before the first one
\* was appended, is answered with the rows of that very request, whatever followed them.
RepeatsAnswered ==
  \A c \in Callers : call[c] # NoCall /\ Replays(call[c]) =>
    LET r == idempotency[call[c].key] IN SubSeq(stream, r.first, r.first + r.count - 1) = call[c].items

\* All ways back to a mission lead to the mission the callers worked with: replay, a checkpoint,
\* and the answer to a request whose first answer was lost.
RecoveryExact == ReplayEqualsLive /\ CheckpointLoads /\ RepeatsAnswered
=============================================================================
