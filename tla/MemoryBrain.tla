---------------------------- MODULE MemoryBrain ----------------------------
(***************************************************************************)
(* The memories of one project: the store's contract, which                *)
(* InMemoryMemoryStore (src/memory/store.ts) and NeonMemoryStore           *)
(* (src/chat/neon-memory.ts) both implement, the compression of            *)
(* AdvancedMemoryEngine (src/memory/advanced.ts), and the product over     *)
(* them: the requests of memory-api.ts, the promotion of a workspace item  *)
(* (memory-brain-store.ts), the user's signals and the status that the     *)
(* projection gives a memory (src/memory/product.ts).  A command of the    *)
(* store is one step; between two reads of a request others run.  A record *)
(* stands for its hash, a command for its fingerprint.                     *)
(***************************************************************************)
EXTENDS Integers, FiniteSets, Sequences

CONSTANTS
  MemIds,        \* a set of numbers: identifiers sort
  SummaryId,     \* the identifier derived from the proposal's hash
  CallerIds,     \* identifiers that callers choose
  ItemMemory,    \* the identifier workspace-<item> of the memory of a workspace item
  ItemTexts,     \* what the item may contain
  IdemKeys,      \* idempotency keys of callers
  MemoryInputs,  \* what callers write: key, content, kind, sensitivity
  NoMemory, NoContent,
  MaxClock, MaxVersion, \* bounds
  EpisodicMaxAge, ProjectMaxAge

Kinds == {"episodic", "project", "semantic", "user_preference", "working"}
Sensitivities == 0 .. 2
SourceClasses == {"explicit_user", "import", "model_summary", "repository", "tool", "verified_learning"}

\* MemoryRecordInput
MemoryInput ==
  [key : {m.key : m \in MemoryInputs} \cup {"p", "s"}, content : {m.content : m \in MemoryInputs} \cup ItemTexts \cup {"summary"},
   kind : Kinds, sens : Sensitivities, source : SourceClasses, sourceVersion : Nat, observedAt : Nat]

\* StoredMemoryRecord: active, or tombstoned without a content.
MemoryRecord ==
  [status : {"active", "tombstoned"}, version : Nat, updatedAt : Nat,
   key : {m.key : m \in MemoryInputs} \cup {"p", "s"},
   content : {m.content : m \in MemoryInputs} \cup ItemTexts \cup {"summary", NoContent},
   kind : Kinds, sens : Sensitivities, source : SourceClasses, sourceVersion : Nat, observedAt : Nat]

ASSUME MemoryAssumption ==
  /\ MemIds \subseteq Nat /\ SummaryId \in MemIds /\ ItemMemory \in MemIds \ {SummaryId}
  /\ CallerIds \subseteq MemIds \ {SummaryId, ItemMemory}   \* these two are derived, from a hash and from an item
  /\ MaxClock \in Nat
  /\ MemoryInputs \subseteq MemoryInput
  /\ NoMemory \notin MemoryRecord

VARIABLES
  clock,
  records,    \* memory_records
  replays,    \* memory_idempotency: per record, the answered commands
  compressor  \* the request that compresses two memories

storeVars == <<clock, records, replays, compressor>>

\* validateWriteCommand: what concerns more than the form of a single field.
WellFormed(input, at) ==
  /\ input.kind \in Kinds /\ input.sens \in Sensitivities
  /\ input.kind = "user_preference" => input.source = "explicit_user"
  /\ input.observedAt <= at

StoreInit ==
  /\ clock = 0
  /\ records = [i \in MemIds |-> NoMemory]
  /\ replays = [i \in MemIds |-> {}]
  /\ compressor = [pc |-> "idle", seen |-> <<>>, summary |-> NoMemory]

Version(i) == IF records[i] = NoMemory THEN 0 ELSE records[i].version
Active(i)  == records[i] # NoMemory /\ records[i].status = "active"

\* #findReplay: the answer of a key, if the key is known.
Replayed(i, key) == {r \in replays[i] : r.key = key}

\* The guards of write: a known key answers or conflicts, and nothing else happens.
Writable(i, key, expected, at) ==
  /\ Replayed(i, key) = {}
  /\ Version(i) = expected
  /\ records[i] # NoMemory => records[i].status = "active" /\ at >= records[i].updatedAt

\* #commit and #rememberIdempotency.
Commit(i, key, command, record) ==
  /\ records' = [records EXCEPT ![i] = record]
  /\ replays' = [replays EXCEPT ![i] = @ \cup {[key |-> key, command |-> command, record |-> record]}]

\* write of NeonMemoryStore: one transaction.
Write(i, key, expected, input, at) ==
  /\ WellFormed(input, at)
  /\ Writable(i, key, expected, at)
  /\ expected < MaxVersion
  /\ Commit(i, key, input,
       [status |-> "active", version |-> expected + 1, content |-> input.content, kind |-> input.kind,
        key |-> input.key, sens |-> input.sens, source |-> input.source, sourceVersion |-> input.sourceVersion,
        observedAt |-> input.observedAt, updatedAt |-> at])

Tombstone(i, at) ==
  [records[i] EXCEPT !.status = "tombstoned", !.content = NoContent, !.version = @ + 1, !.updatedAt = at]

\* The guards of tombstone.
Deletable(i, key, expected, at) ==
  Replayed(i, key) = {} /\ Active(i) /\ records[i].version = expected /\ at >= records[i].updatedAt

\* Fault: the answers of earlier commands, with their content, are kept.
ClearKeepsReplays(i, expected) ==
  /\ Deletable(i, <<"clear", expected>>, expected, clock)
  /\ Commit(i, <<"clear", expected>>, "clear", Tombstone(i, clock))
  /\ UNCHANGED <<clock, compressor>>

\* tombstone: #forgetIdempotency drops the answers of all earlier commands.
Clear(i, expected) ==
  /\ Deletable(i, <<"clear", expected>>, expected, clock)
  /\ records' = [records EXCEPT ![i] = Tombstone(i, clock)]
  /\ replays' = [replays EXCEPT ![i] =
       {[key |-> <<"clear", expected>>, command |-> "clear", record |-> Tombstone(i, clock)]}]
  /\ UNCHANGED <<clock, compressor>>

\* A caller of the runtime writes with the version it has seen, which may be old.
CallerWrites(i, key, expected, input) ==
  /\ Write(i, key, expected, [input EXCEPT !.observedAt = clock], clock)
  /\ UNCHANGED <<clock, compressor>>

-----------------------------------------------------------------------------
(* Retrieval *)

\* retrieve, for an empty text: active records of the kinds, learnings only on demand.
Recalled(kinds) == {i \in MemIds : Active(i) /\ records[i].kind \in kinds /\ records[i].source # "verified_learning"}

\* AdvancedMemoryEngine.retrieve: `sources' are the current observations, at most one per key.
StaleBySource(sources) ==
  {i \in Recalled({"project"}) : \E s \in sources :
     /\ s.key = records[i].key /\ s.observedAt >= records[i].observedAt
     /\ s.content # records[i].content \/ s.sourceVersion # records[i].sourceVersion}

Group(sources, key) == {i \in Recalled({"project"}) \ StaleBySource(sources) : records[i].key = key}
Newest(S) == {i \in S : \A j \in S : records[i].observedAt >= records[j].observedAt}

StaleByMemory(sources) ==
  {i \in Recalled({"project"}) \ StaleBySource(sources) : i \notin Newest(Group(sources, records[i].key))}

Conflicted(sources) ==
  {i \in Recalled({"project"}) : LET top == Newest(Group(sources, records[i].key)) IN
     i \in top /\ \E j \in top : records[j].content # records[i].content}

Stale(sources) == StaleBySource(sources) \cup StaleByMemory(sources)
Selected(sources) == Recalled({"episodic", "project"}) \ (Stale(sources) \cup Conflicted(sources))

\* planRetention: what is too old, with the version that was.
RetentionPlan ==
  {[id |-> i, version |-> records[i].version] : i \in {j \in Recalled({"episodic", "project"}) :
     clock - records[j].updatedAt > (IF records[j].kind = "episodic" THEN EpisodicMaxAge ELSE ProjectMaxAge)}}

-----------------------------------------------------------------------------
(* Compression: two sources are read, a proposal is issued, the sources are read again, the summary is written. *)

Sources == MemIds \ {SummaryId}
SourceAt(n) == CHOOSE i \in Sources : Cardinality({j \in Sources : j < i}) = n - 1
Compressible(i) == Active(i) /\ records[i].kind \in {"episodic", "project"}

StartCompression ==
  /\ compressor.pc = "idle"
  /\ compressor' = [compressor EXCEPT !.pc = "reading", !.seen = <<>>]
  /\ UNCHANGED <<clock, records, replays>>

\* proposeCompression: one `get' per source; a source that cannot be used ends the request.
ReadSource ==
  /\ compressor.pc = "reading" /\ Len(compressor.seen) < Cardinality(Sources)
  /\ LET i == SourceAt(Len(compressor.seen) + 1) IN
     compressor' = IF Compressible(i) THEN [compressor EXCEPT !.seen = Append(@, records[i])]
                   ELSE [compressor EXCEPT !.pc = "idle", !.seen = <<>>]
  /\ UNCHANGED <<clock, records, replays>>

\* The proposal; a sensitivity below that of a source is denied.
IssueProposal(sens) ==
  /\ compressor.pc = "reading" /\ Len(compressor.seen) = Cardinality(Sources)
  /\ compressor' = IF \A n \in 1 .. Len(compressor.seen) : compressor.seen[n].sens <= sens
       THEN [compressor EXCEPT !.pc = "checking", !.summary =
              [key |-> "s", content |-> "summary", kind |-> "project", sens |-> sens, source |-> "model_summary", sourceVersion |-> 0, observedAt |-> clock]]
       ELSE [compressor EXCEPT !.pc = "idle", !.seen = <<>>]
  /\ UNCHANGED <<clock, records, replays>>

\* commitCompression: every source is read again and must be the record of the proposal.
CheckSource(n) ==
  /\ compressor.pc = IF n = 1 THEN "checking" ELSE "checking1"
  /\ compressor' = IF records[SourceAt(n)] = compressor.seen[n]
                   THEN [compressor EXCEPT !.pc = IF n = 1 THEN "checking1" ELSE "checked"]
                   ELSE [compressor EXCEPT !.pc = "idle", !.seen = <<>>, !.summary = NoMemory]
  /\ UNCHANGED <<clock, records, replays>>

CommitCompression(key) ==
  /\ compressor.pc = "checked"
  /\ Write(SummaryId, key, 0, compressor.summary, compressor.summary.observedAt)
  /\ compressor' = [compressor EXCEPT !.pc = "done"]
  /\ UNCHANGED clock

StoreTick == clock < MaxClock /\ clock' = clock + 1 /\ UNCHANGED <<records, replays, compressor>>

StoreNext ==
  \/ \E i \in CallerIds, key \in IdemKeys, v \in 0 .. MaxVersion, input \in MemoryInputs : CallerWrites(i, key, v, input)
  \/ \E i \in MemIds, v \in 1 .. MaxVersion : Clear(i, v)
  \/ StartCompression \/ ReadSource
  \/ \E s \in Sensitivities : IssueProposal(s)
  \/ \E n \in {1, 2} : CheckSource(n)
  \/ \E key \in IdemKeys : CommitCompression(key)
  \/ StoreTick

-----------------------------------------------------------------------------
(* Properties of the store: parts of MemorySound *)

\* A cleared memory is gone everywhere: no late retry of a command that wrote it is answered with its content.
ClearedIsGone ==
  \A i \in MemIds : records[i] # NoMemory /\ records[i].status = "tombstoned" =>
    records[i].content = NoContent /\ \A r \in replays[i] : r.record.content = NoContent

\* A version was committed by one command, and a key answers with one version.
OneCommandPerVersion ==
  \A i \in MemIds : \A r, s \in replays[i] : r.key = s.key \/ r.record.version = s.record.version => r = s

\* A summary is at least as sensitive as each of the records that it was made of.
SummaryKeepsSensitivity ==
  Active(SummaryId) => \A n \in 1 .. Len(compressor.seen) : records[SummaryId].sens >= compressor.seen[n].sens

\* What retrieval selects for one key of the project agrees, and no newer source contradicts it.
SelectionAgrees(sources) ==
  \A i, j \in Selected(sources) :
    records[i].kind = "project" /\ records[j].kind = "project" /\ records[i].key = records[j].key =>
      records[i].content = records[j].content

-----------------------------------------------------------------------------
(* The memory product *)

CONSTANTS
  Promoters,    \* requests that promote the item
  MaxEdits

VARIABLES
  item,       \* the row of workspace_files
  promoter,   \* per request: what it has read so far
  signals     \* memory_product_signals

brainVars == <<storeVars, item, promoter, signals>>

NoSignal == [pinned |-> FALSE, archived |-> FALSE]

BrainInit ==
  /\ StoreInit
  /\ item \in [content : ItemTexts, version : {1}, updatedAt : {0}]
  /\ promoter = [p \in Promoters |-> [pc |-> "idle"]]
  /\ signals = [i \in MemIds |-> NoSignal]

\* A step of the store; nothing of the product changes.
StoreStep == StoreNext /\ UNCHANGED <<item, promoter, signals>>

EditItem(text) ==
  /\ item.version <= MaxEdits
  /\ item' = [content |-> text, version |-> item.version + 1, updatedAt |-> clock]
  /\ UNCHANGED <<storeVars, promoter, signals>>

\* rememberExplicit: a new identifier, version 0 and a key of its own.
RememberExplicit(i, input) ==
  /\ i \in CallerIds /\ records[i] = NoMemory
  /\ Write(i, <<"explicit", i>>, 0, [input EXCEPT !.source = "explicit_user", !.observedAt = clock], clock)
  /\ UNCHANGED <<clock, compressor, item, promoter, signals>>

\* What the caller chooses: the key, by default the item's title, and the kind.
PromotionKeys == {"p", "s"}
PromotionKinds == {"project", "semantic"}

\* promoteWorkspaceItem: first the item ...
PromoteReadItem(p, key, kind) ==
  /\ promoter[p].pc = "idle"
  /\ promoter' = [promoter EXCEPT ![p] = [pc |-> "read", item |-> item, key |-> key, kind |-> kind]]
  /\ UNCHANGED <<storeVars, item, signals>>

\* ... then the memory it has, unless that was cleared ...
PromoteGet(p) ==
  /\ promoter[p].pc = "read"
  /\ promoter' = [promoter EXCEPT ![p] =
       IF records[ItemMemory] # NoMemory /\ records[ItemMemory].status = "tombstoned" THEN [pc |-> "refused"]
       ELSE [pc |-> "write", item |-> @.item, key |-> @.key, kind |-> @.kind, expected |-> Version(ItemMemory)]]
  /\ UNCHANGED <<storeVars, item, signals>>

\* Fault: the provenance is that of the moment of the write.
PromotedNow(read, key, kind) ==
  [key |-> key, content |-> read.content, kind |-> kind, sens |-> 1, source |-> "tool",
   sourceVersion |-> item.version, observedAt |-> clock]

Promoted(read, key, kind) ==
  [key |-> key, content |-> read.content, kind |-> kind, sens |-> 1, source |-> "tool",
   sourceVersion |-> read.version, observedAt |-> read.updatedAt]

\* ... and the write, under a key of the item's version.  A conflict ends the request.
PromoteWrite(p) ==
  /\ promoter[p].pc = "write"
  /\ LET r == promoter[p]
         key == <<"promote", r.item.version>>
         can == Writable(ItemMemory, key, r.expected, clock) /\ r.expected < MaxVersion IN
     /\ IF can THEN Write(ItemMemory, key, r.expected, Promoted(r.item, r.key, r.kind), clock)
        ELSE UNCHANGED <<records, replays>>
     /\ promoter' = [promoter EXCEPT ![p] = [pc |-> IF can THEN "idle" ELSE "refused"]]
  /\ UNCHANGED <<clock, compressor, item, signals>>

\* setSignal: only the given field changes.
SetSignal(i, field, value) ==
  /\ records[i] # NoMemory
  /\ signals' = [signals EXCEPT ![i] = IF field = "pinned" THEN [@ EXCEPT !.pinned = value] ELSE [@ EXCEPT !.archived = value]]
  /\ UNCHANGED <<storeVars, item, promoter>>

BrainNext ==
  \/ StoreStep
  \/ \E text \in ItemTexts : EditItem(text)
  \/ \E i \in CallerIds, input \in MemoryInputs : RememberExplicit(i, input)
  \/ \E p \in Promoters, key \in PromotionKeys, kind \in PromotionKinds : PromoteReadItem(p, key, kind)
  \/ \E p \in Promoters : PromoteGet(p) \/ PromoteWrite(p)
  \/ \E i \in MemIds, f \in {"pinned", "archived"}, v \in BOOLEAN : SetSignal(i, f, v)

BrainSpec == BrainInit /\ [][BrainNext]_brainVars

-----------------------------------------------------------------------------
(* The projection *)

\* currentSourceObservations: the item, under the key of its active memory.
CurrentSources ==
  IF Active(ItemMemory)
  THEN {[key |-> records[ItemMemory].key, content |-> item.content, sourceVersion |-> item.version, observedAt |-> item.updatedAt]}
  ELSE {}

\* duplicateGroups: active records with one key and one content; the newest stands for them.
Duplicates(i) == {j \in MemIds : Active(j) /\ records[j].key = records[i].key /\ records[j].content = records[i].content}
Superseded(i) == \E j \in Duplicates(i) :
  \/ records[j].updatedAt > records[i].updatedAt
  \/ records[j].updatedAt = records[i].updatedAt /\ j < i

\* isMemoryNoiseCandidate, for a memory that was never used.
NoiseCandidate(i) == ~signals[i].pinned /\ records[i].kind = "episodic" /\ clock - records[i].updatedAt > EpisodicMaxAge

\* statusFor: the first that applies.  projection() asks the engine without sources.
StatusFor(i) ==
  CASE ~Active(i) \/ signals[i].archived -> "ARCHIVED"
    [] OTHER ->
         CASE i \in Conflicted({}) -> "CONFLICTED"
           [] i \in Stale({}) -> "STALE"
           [] i \notin Conflicted({}) \cup Stale({}) /\ Superseded(i) -> "SUPERSEDED"
           [] i \notin Conflicted({}) \cup Stale({}) /\ ~Superseded(i) /\ NoiseCandidate(i) -> "NOISE_CANDIDATE"
           [] OTHER -> IF records[i].kind = "working" THEN "TEMPORARY" ELSE "ACTIVE"

\* activeNode, tombstoneNode: what the graph shows of a memory.
ShowsContent(i) == Active(i) /\ records[i].sens < 2

-----------------------------------------------------------------------------
(***************************************************************************)
(* Cleared memories stay cleared and their content is answered to nobody;  *)
(* each version has one command; a summary is as sensitive as its sources; *)
(* retrieval never selects two answers for one key.  A promotion that      *)
(* races an edit and another promotion may put an older text of the item   *)
(* back, whatever key and kind its caller chose: then the provenance of    *)
(* the memory names an older version of the item, and the analysis, which  *)
(* looks at project memories only, reports such a one as stale.  Of        *)
(* several copies of one memory that are not archived, the projection      *)
(* shows one as standing (neon-memory.ts 78-262, memory-brain-store.ts     *)
(* 226-287, advanced.ts 102-199, product.ts 110-190).                      *)
(***************************************************************************)
MemorySound ==
  /\ ClearedIsGone
  /\ OneCommandPerVersion
  /\ SummaryKeepsSensitivity
  /\ SelectionAgrees(CurrentSources) /\ SelectionAgrees({})
  /\ Active(ItemMemory) /\ records[ItemMemory].content # item.content
       => /\ records[ItemMemory].sourceVersion < item.version
          /\ records[ItemMemory].kind = "project" => ItemMemory \in Stale(CurrentSources)
  /\ \A i \in MemIds : Active(i) => \E j \in Duplicates(i) : StatusFor(j) # "SUPERSEDED"
  /\ \A i \in MemIds : ~Active(i) => ~ShowsContent(i) /\ i \notin Selected({})
=============================================================================
