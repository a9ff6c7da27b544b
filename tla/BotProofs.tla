------------------------------ MODULE BotProofs ------------------------------
(***************************************************************************)
(* Proofs about Odin Bot, for any number of requests, deliveries,          *)
(* selectors, workers and claims.                                          *)
(***************************************************************************)
EXTENDS BotAutomation, BotTask, GitHubHooks, FiniteSetTheorems, TLAPS

-----------------------------------------------------------------------------
(* The hook and its row (github-events.ts ensureHook, disconnectHook)      *)

HookStages == {"idle", "create", "connected", "drop", "clear", "disconnected", "insert", "failed", "takeBack", "winner", "undo"}

HookTypeOK ==
  /\ hookRow \in HookRows \cup {NoHook}
  /\ hookCall \in [HookCalls -> [at : HookStages, repository : Repositories \cup {NoHook}, old : HookRows \cup {NoHook},
                                 op : {"none", "ensure", "disconnect"}]]

\* A row that is stored, or was read, was inserted by a request that has ended since, or was not told so, or by
\* an earlier session; and one hook is named by one row only.
Inserted == {"connected", "undo", "failed"}
RowOf(row) == row # NoHook => row.hook = "earlier" \/ hookCall[row.hook].at \in Inserted
RowsKnown ==
  /\ RowOf(hookRow)
  /\ \A c \in HookCalls : RowOf(hookCall[c].old)
  /\ \A c \in HookCalls : hookRow # NoHook /\ hookCall[c].old # NoHook /\ hookCall[c].old.hook = hookRow.hook
       => hookCall[c].old = hookRow

\* A request that deletes has read a row, one that inserts has created its hook.
StagesKept ==
  \A c \in HookCalls : /\ hookCall[c].at = "drop" => hookCall[c].old # NoHook
                       /\ hookCall[c].at = "insert" => c \in remote

HookInv == HookTypeOK /\ RowsKnown /\ StagesKept /\ RowNamesHook

\* A request goes from one stage to the next, and the row stays.
LEMMA HookCallMoves ==
  ASSUME HookInv, NEW c \in HookCalls, NEW at \in HookStages, Moves(c, at), hookRow' = hookRow,
         hookCall[c].at \in Inserted => at \in Inserted, at # "drop", at = "insert" => c \in remote',
         \A b \in HookCalls \ {c} : hookCall[b].at = "insert" => b \in remote',
         RowNamesHook'
  PROVE  HookInv'
<1>1. hookCall' = [hookCall EXCEPT ![c].at = at]
  BY DEF Moves
<1>2. HookTypeOK'
  BY <1>1 DEF HookInv, HookTypeOK
<1>3. \A b \in HookCalls : /\ hookCall'[b].old = hookCall[b].old
                           /\ hookCall'[b].at = IF b = c THEN at ELSE hookCall[b].at
  BY <1>1 DEF HookInv, HookTypeOK
<1>4. \A row \in HookRows : RowOf(row) => RowOf(row)'
  <2> SUFFICES ASSUME NEW row \in HookRows, RowOf(row), row # NoHook, row.hook # "earlier"
               PROVE  hookCall'[row.hook].at \in Inserted
    BY DEF RowOf
  <2>1. row.hook \in HookCalls /\ hookCall[row.hook].at \in Inserted
    BY DEF RowOf, HookRows
  <2> QED BY <1>3, <2>1
<1>5. RowOf(NoHook)'
  BY DEF RowOf
<1>6. RowOf(hookRow)'
  BY <1>4, <1>5 DEF HookInv, HookTypeOK, RowsKnown, RowOf
<1>7. \A b \in HookCalls : RowOf(hookCall[b].old)'
  <2> SUFFICES ASSUME NEW b \in HookCalls PROVE RowOf(hookCall[b].old)'
    OBVIOUS
  <2>1. hookCall'[b].old \in HookRows \cup {NoHook} /\ hookCall'[b].old = hookCall[b].old /\ RowOf(hookCall[b].old)
    BY <1>3 DEF HookInv, HookTypeOK, RowsKnown
  <2> QED BY <1>3, <1>4, <2>1 DEF RowOf
<1>8. RowsKnown'
  BY <1>3, <1>6, <1>7 DEF HookInv, RowsKnown
<1>9. StagesKept'
  BY <1>3 DEF HookInv, StagesKept
<1> QED BY <1>2, <1>8, <1>9 DEF HookInv

\* A request starts and reads the row.
LEMMA HookCallStarts ==
  ASSUME HookInv, NEW c \in HookCalls, NEW r, r.at \in HookStages, r.at # "insert", r.at = "drop" => hookRow # NoHook,
         r \in [at : HookStages, repository : Repositories \cup {NoHook}, old : {hookRow}, op : {"ensure", "disconnect"}],
         hookCall[c].at = "idle", hookCall' = [hookCall EXCEPT ![c] = r], UNCHANGED <<hookRow, remote>>
  PROVE  HookInv'
<1>1. HookTypeOK'
  BY DEF HookInv, HookTypeOK
<1>2. \A b \in HookCalls : hookCall'[b] = IF b = c THEN r ELSE hookCall[b]
  BY DEF HookInv, HookTypeOK
<1>3. r.old = hookRow
  OBVIOUS
<1>4. \A row \in HookRows \cup {NoHook} : RowOf(row) =>
        (row # NoHook => row.hook = "earlier" \/ hookCall'[row.hook].at \in Inserted)
  <2> SUFFICES ASSUME NEW row \in HookRows, RowOf(row), row # NoHook, row.hook # "earlier"
               PROVE  hookCall'[row.hook].at \in Inserted
    OBVIOUS
  <2>1. row.hook \in HookCalls /\ hookCall[row.hook].at \in Inserted
    BY DEF RowOf, HookRows
  <2> QED BY <1>2, <2>1 DEF Inserted
<1>5. \A b \in HookCalls : hookCall[b].old \in HookRows \cup {NoHook} /\ RowOf(hookCall[b].old)
  BY DEF HookInv, HookTypeOK, RowsKnown
<1>6. hookRow \in HookRows \cup {NoHook} /\ RowOf(hookRow)
  BY DEF HookInv, HookTypeOK, RowsKnown
<1>7. RowsKnown'
  BY <1>2, <1>3, <1>4, <1>5, <1>6 DEF HookInv, RowsKnown, RowOf
<1>8. StagesKept'
  BY <1>2, <1>3 DEF HookInv, StagesKept
<1>9. RowNamesHook'
  BY <1>2 DEF HookInv, RowNamesHook
<1> QED BY <1>1, <1>7, <1>8, <1>9 DEF HookInv

LEMMA HookCallStep ==
  ASSUME HookInv, HookCallNext
  PROVE  HookInv'
<1> SUFFICES ASSUME NEW c \in HookCalls,
                    \/ \E r \in Repositories : EnsureHook(c, r)
                    \/ DisconnectHook(c) \/ ClearRow(c) \/ InsertRow(c)
                    \/ \E ok \in BOOLEAN :
                         \/ DropRemote(c, ok) \/ TakeBack(c, ok) \/ CheckWinner(c, ok) \/ UndoHook(c, ok) \/ InsertThrows(c, ok)
                         \/ \E made \in BOOLEAN : CreateRemote(c, made, ok)
             PROVE  HookInv'
  BY DEF HookCallNext
<1> USE DEF HookStages, Inserted
<1>1. ASSUME NEW repository \in Repositories, EnsureHook(c, repository) PROVE HookInv'
  <2> DEFINE at == IF hookRow = NoHook THEN "create" ELSE IF hookRow.repository = repository THEN "connected" ELSE "drop"
             r == [op |-> "ensure", repository |-> repository, old |-> hookRow, at |-> at]
  <2>1. hookCall[c].at = "idle" /\ hookCall' = [hookCall EXCEPT ![c] = r] /\ UNCHANGED <<hookRow, remote>>
    BY <1>1 DEF EnsureHook
  <2>2. r \in [at : HookStages, repository : Repositories \cup {NoHook}, old : {hookRow}, op : {"ensure", "disconnect"}]
    OBVIOUS
  <2>3. r.at \in HookStages /\ r.at # "insert" /\ (r.at = "drop" => hookRow # NoHook)
    OBVIOUS
  <2> HIDE DEF r, HookStages
  <2> QED BY <2>1, <2>2, <2>3, HookCallStarts
<1>2. CASE DisconnectHook(c)
  <2> DEFINE at == IF hookRow = NoHook THEN "clear" ELSE "drop"
             r == [op |-> "disconnect", repository |-> NoHook, old |-> hookRow, at |-> at]
  <2>1. hookCall[c].at = "idle" /\ hookCall' = [hookCall EXCEPT ![c] = r] /\ UNCHANGED <<hookRow, remote>>
    BY <1>2 DEF DisconnectHook
  <2>2. r \in [at : HookStages, repository : Repositories \cup {NoHook}, old : {hookRow}, op : {"ensure", "disconnect"}]
    OBVIOUS
  <2>3. r.at \in HookStages /\ r.at # "insert" /\ (r.at = "drop" => hookRow # NoHook)
    OBVIOUS
  <2> HIDE DEF r, HookStages
  <2> QED BY <2>1, <2>2, <2>3, HookCallStarts
<1>3. ASSUME NEW ok \in BOOLEAN, DropRemote(c, ok) PROVE HookInv'
  <2> DEFINE old == hookCall[c].old
  <2>1. /\ hookCall[c].at = "drop" /\ Moves(c, "clear") /\ hookRow' = hookRow
        /\ remote' = remote \/ remote' = remote \ {old.hook}
    BY <1>3 DEF DropRemote
  <2>2. old \in HookRows /\ old # NoHook /\ RowOf(old)
    BY <2>1 DEF HookInv, HookTypeOK, StagesKept, RowsKnown
  <2>3. \A b \in HookCalls : hookCall[b].at = "insert" => b # old.hook
    BY <2>2, HookAssumption DEF RowOf
  <2>4. \A b \in HookCalls : hookCall[b].at = "insert" => b \in remote'
    BY <2>1, <2>3 DEF HookInv, StagesKept
  <2>5. \A b \in HookCalls : /\ hookCall'[b].old = hookCall[b].old
                             /\ hookCall'[b].at = IF b = c THEN "clear" ELSE hookCall[b].at
    BY <2>1 DEF Moves, HookInv, HookTypeOK
  <2>6. RowNamesHook'
    <3> SUFFICES ASSUME hookRow # NoHook, hookRow.hook \notin remote'
                 PROVE  \/ \E b \in HookCalls : hookCall'[b].at = "clear" /\ hookCall'[b].old = hookRow
                        \/ hookRow.hook \in HookCalls /\ hookCall'[hookRow.hook].at = "failed"
      BY <2>1 DEF RowNamesHook
    <3>1. CASE hookRow.hook = old.hook
      <4>1. old = hookRow
        BY <2>2, <3>1 DEF HookInv, RowsKnown
      <4> QED BY <2>5, <4>1
    <3>2. CASE hookRow.hook # old.hook
      <4>1. hookRow.hook \notin remote
        BY <2>1, <3>2
      <4>2. CASE hookRow.hook \in HookCalls /\ hookCall[hookRow.hook].at = "failed"
        <5>1. hookRow.hook # c
          BY <2>1, <4>2
        <5> QED BY <2>5, <4>2, <5>1
      <4>3. CASE \E b \in HookCalls : hookCall[b].at = "clear" /\ hookCall[b].old = hookRow
        BY <2>1, <2>5, <4>3
      <4> QED BY <4>1, <4>2, <4>3 DEF HookInv, RowNamesHook
    <3> QED BY <3>1, <3>2
  <2>7. "clear" \in HookStages
    OBVIOUS
  <2> QED BY <2>1, <2>4, <2>6, <2>7, HookCallMoves
<1>4. CASE ClearRow(c)
  <2> DEFINE at == IF hookCall[c].op = "ensure" THEN "create" ELSE "disconnected"
  <2>1. hookCall[c].at = "clear" /\ hookCall' = [hookCall EXCEPT ![c].at = at] /\ hookRow' = NoHook /\ remote' = remote
        /\ at \in {"create", "disconnected"}
    BY <1>4 DEF ClearRow, Moves
  <2> HIDE DEF at
  <2>2. HookTypeOK'
    BY <2>1 DEF HookInv, HookTypeOK
  <2>3. \A b \in HookCalls : /\ hookCall'[b].old = hookCall[b].old
                             /\ hookCall'[b].at = IF b = c THEN at ELSE hookCall[b].at
    BY <2>1 DEF HookInv, HookTypeOK
  <2>4. \A b \in HookCalls : RowOf(hookCall[b].old)'
    <3> SUFFICES ASSUME NEW b \in HookCalls, hookCall[b].old # NoHook, hookCall[b].old.hook # "earlier"
                 PROVE  hookCall'[hookCall[b].old.hook].at \in Inserted
      BY <2>3 DEF RowOf
    <3>1. hookCall[b].old.hook \in HookCalls /\ hookCall[hookCall[b].old.hook].at \in Inserted
      BY DEF HookInv, HookTypeOK, RowsKnown, RowOf, HookRows
    <3> QED BY <2>1, <2>3, <3>1
  <2>5. RowsKnown'
    BY <2>1, <2>4 DEF RowsKnown, RowOf
  <2>6. StagesKept'
    BY <2>1, <2>3 DEF HookInv, StagesKept
  <2>7. RowNamesHook'
    BY <2>1 DEF RowNamesHook
  <2> QED BY <2>2, <2>5, <2>6, <2>7 DEF HookInv
<1>5. ASSUME NEW ok \in BOOLEAN, NEW made \in BOOLEAN, CreateRemote(c, made, ok) PROVE HookInv'
  <2> DEFINE at == IF ok THEN "insert" ELSE "failed"
  <2>1. /\ hookCall[c].at = "create" /\ Moves(c, at) /\ hookRow' = hookRow /\ at \in {"insert", "failed"}
        /\ remote' = (IF made THEN remote \cup {c} ELSE remote) /\ (ok => made)
    BY <1>5 DEF CreateRemote
  <2>2. remote \subseteq remote' /\ (at = "insert" => c \in remote')
    BY <2>1
  <2> HIDE DEF at
  <2>3. \A b \in HookCalls : /\ hookCall'[b].old = hookCall[b].old
                             /\ hookCall'[b].at = IF b = c THEN at ELSE hookCall[b].at
    BY <2>1 DEF Moves, HookInv, HookTypeOK
  <2>4. RowNamesHook'
    BY <2>1, <2>2, <2>3 DEF HookInv, RowNamesHook
  <2>5. \A b \in HookCalls : hookCall[b].at = "insert" => b \in remote'
    BY <2>2 DEF HookInv, StagesKept
  <2> QED BY <2>1, <2>2, <2>4, <2>5, HookCallMoves
<1>6. ASSUME NEW at \in {"connected", "undo"}, NEW row, row = [repository |-> hookCall[c].repository, hook |-> c],
             hookCall[c].at = "insert", hookRow = NoHook, hookRow' = row, Moves(c, at), remote' = remote
      PROVE  HookInv'
  <2>1. hookCall' = [hookCall EXCEPT ![c].at = at] /\ at \in HookStages /\ at \in Inserted
    BY <1>6 DEF Moves
  <2>2. row \in HookRows /\ row # NoHook /\ row.hook = c
    BY <1>6, HookAssumption DEF HookInv, HookTypeOK, HookRows
  <2>3. HookTypeOK'
    BY <1>6, <2>1, <2>2 DEF HookInv, HookTypeOK
  <2>4. \A b \in HookCalls : /\ hookCall'[b].old = hookCall[b].old
                             /\ hookCall'[b].at = IF b = c THEN at ELSE hookCall[b].at
    BY <2>1 DEF HookInv, HookTypeOK
  <2>5. \A b \in HookCalls : hookCall[b].old # NoHook =>
          /\ hookCall[b].old.hook # c
          /\ hookCall[b].old.hook = "earlier" \/ hookCall'[hookCall[b].old.hook].at \in Inserted
    <3> SUFFICES ASSUME NEW b \in HookCalls, hookCall[b].old # NoHook
                 PROVE  /\ hookCall[b].old.hook # c
                        /\ hookCall[b].old.hook = "earlier" \/ hookCall'[hookCall[b].old.hook].at \in Inserted
      OBVIOUS
    <3>1. /\ hookCall[b].old.hook \in HookCalls \cup {"earlier"}
          /\ hookCall[b].old.hook = "earlier" \/ hookCall[hookCall[b].old.hook].at \in Inserted
      BY DEF HookInv, HookTypeOK, RowsKnown, RowOf, HookRows
    <3> QED BY <1>6, <2>1, <2>4, <3>1, HookAssumption
  <2>6. RowsKnown'
    BY <1>6, <2>1, <2>2, <2>4, <2>5 DEF RowsKnown, RowOf
  <2>7. StagesKept'
    BY <1>6, <2>4 DEF HookInv, StagesKept
  <2>8. RowNamesHook'
    BY <1>6, <2>2 DEF HookInv, StagesKept, RowNamesHook
  <2> QED BY <2>3, <2>6, <2>7, <2>8 DEF HookInv
<1>10. ASSUME NEW at \in {"takeBack", "undo"}, hookCall[c].at = "insert", Moves(c, at), hookRow' = hookRow, remote' = remote
       PROVE  HookInv'
  <2>1. \A b \in HookCalls : /\ hookCall'[b].old = hookCall[b].old
                             /\ hookCall'[b].at = IF b = c THEN at ELSE hookCall[b].at
    BY <1>10 DEF Moves, HookInv, HookTypeOK
  <2>2. hookRow # NoHook => hookRow.hook # c
    BY <1>10, HookAssumption DEF HookInv, RowsKnown, RowOf
  <2>3. RowNamesHook'
    BY <1>10, <2>1, <2>2 DEF HookInv, RowNamesHook
  <2>4. at \in HookStages /\ at # "drop" /\ at # "insert" /\ \A b \in HookCalls : hookCall[b].at = "insert" => b \in remote'
    BY <1>10 DEF HookInv, StagesKept
  <2> QED BY <1>10, <2>3, <2>4, HookCallMoves
<1>11. CASE InsertRow(c)
  <2>1. CASE hookRow = NoHook
    BY <1>6, <1>11, <2>1 DEF InsertRow
  <2>2. CASE hookRow # NoHook
    BY <1>10, <1>11, <2>2 DEF InsertRow
  <2> QED BY <2>1, <2>2
<1>12. ASSUME NEW ok \in BOOLEAN, InsertThrows(c, ok) PROVE HookInv'
  <2>1. CASE ok /\ hookRow = NoHook
    BY <1>6, <1>12, <2>1 DEF InsertThrows
  <2>2. CASE ~(ok /\ hookRow = NoHook)
    BY <1>10, <1>12, <2>2 DEF InsertThrows
  <2> QED BY <2>1, <2>2
<1>7. ASSUME NEW at \in {"winner", "connected", "undo"}, hookCall[c].at \in {"takeBack", "winner"}, Moves(c, at), hookRow' = hookRow,
             remote' \in {remote, remote \ {c}}
      PROVE  HookInv'
  <2>1. \A b \in HookCalls : /\ hookCall'[b].old = hookCall[b].old
                             /\ hookCall'[b].at = IF b = c THEN at ELSE hookCall[b].at
    BY <1>7 DEF Moves, HookInv, HookTypeOK
  <2>2. hookRow # NoHook => hookRow.hook # c
    BY <1>7, HookAssumption DEF HookInv, RowsKnown, RowOf
  <2>3. RowNamesHook'
    BY <1>7, <2>1, <2>2 DEF HookInv, RowNamesHook
  <2>4. \A b \in HookCalls \ {c} : hookCall[b].at = "insert" => b \in remote'
    BY <1>7 DEF HookInv, StagesKept
  <2>5. at \in HookStages /\ at # "drop" /\ at # "insert" /\ hookCall[c].at \notin Inserted
    BY <1>7
  <2> QED BY <1>7, <2>3, <2>4, <2>5, HookCallMoves
<1>8. ASSUME NEW ok \in BOOLEAN, TakeBack(c, ok) PROVE HookInv'
  BY <1>7, <1>8 DEF TakeBack
<1>9. ASSUME NEW ok \in BOOLEAN, CheckWinner(c, ok) PROVE HookInv'
  BY <1>7, <1>9 DEF CheckWinner
<1>13. ASSUME NEW ok \in BOOLEAN, UndoHook(c, ok) PROVE HookInv'
  <2>1. hookCall[c].at = "undo" /\ Moves(c, "failed") /\ hookRow' = hookRow /\ remote' \in {remote, remote \ {c}}
    BY <1>13 DEF UndoHook
  <2>2. \A b \in HookCalls : /\ hookCall'[b].old = hookCall[b].old
                             /\ hookCall'[b].at = IF b = c THEN "failed" ELSE hookCall[b].at
    BY <2>1 DEF Moves, HookInv, HookTypeOK
  <2>3. RowNamesHook'
    BY <2>1, <2>2 DEF HookInv, RowNamesHook
  <2>4. \A b \in HookCalls \ {c} : hookCall[b].at = "insert" => b \in remote'
    BY <2>1 DEF HookInv, StagesKept
  <2>5. "failed" \in HookStages /\ "failed" \in Inserted
    OBVIOUS
  <2> QED BY <2>1, <2>3, <2>4, <2>5, HookCallMoves
<1> QED BY <1>1, <1>2, <1>3, <1>4, <1>5, <1>8, <1>9, <1>11, <1>12, <1>13

-----------------------------------------------------------------------------
(* Deliveries (github-events.ts authenticateDelivery, processGitHubEvent)  *)

HandlerStages == {"idle", "done", "plan", "skip", "fire", "read", "merge", "signal", "mark"}
PullRecords == [state : {"open", "merged", "closed"}, checks : {"none", "checks_failed", "checks_passed"}]
Receipts == {"none", "received", "processed", "skipped"}
DeliveryTypeOK ==
  /\ receipt \in [GitHubDeliveries -> Receipts]
  /\ handler \in [EventHandlers -> [at : HandlerStages, delivery : GitHubDeliveries \cup {NoHook}, prior : PullRecords \cup {NoHook}]]
  /\ pull \in PullRecords
  /\ raced \in BOOLEAN

Matches(a, d) == EventMatches(Selectors[a], DeliveryEvent[d])

\* The parts of ProcessedIsApplied, for a delivery that is still in hand.
HasFired(d) == \A a \in DOMAIN Selectors : Matches(a, d) => <<a, d>> \in fired
HasSignalled(d) == DeliveryEvent[d].predicate \in Signals => d \in signalled
HasRecorded(d) ==
  /\ DeliveryEvent[d].predicate \in {"merged", "closed"} => pull.state # "open"
  /\ DeliveryEvent[d].predicate \in {"checks_failed", "checks_passed"} => pull.checks # "none"
FiredMatch == \A a \in DOMAIN Selectors, d \in GitHubDeliveries : <<a, d>> \in fired => Matches(a, d)

\* How far a request has come with its delivery; and, unless two raced, nobody else is between
\* reading the delivery record and writing it back.
HandlerStep(h) ==
  LET d == handler[h].delivery at == handler[h].at IN
  /\ at \notin {"idle", "done"} => d \in GitHubDeliveries
  /\ at \in {"read", "merge", "signal", "mark"} => HasFired(d)
  /\ at = "mark" => HasSignalled(d)
  /\ at = "merge" => handler[h].prior \in PullRecords
  /\ ~raced /\ at = "merge" => handler[h].prior = pull /\ \A o \in EventHandlers \ {h} : handler[o].at # "merge"
  /\ ~raced /\ at \in {"signal", "mark"} => HasRecorded(d)
HandlerSteps == \A h \in EventHandlers : HandlerStep(h)

Applied == \A d \in GitHubDeliveries : receipt[d] = "processed" => HasFired(d) /\ HasSignalled(d) /\ (~raced => HasRecorded(d))

DeliveryInv == DeliveryTypeOK /\ FiredMatch /\ HandlerSteps /\ Applied

\* What a delivery has reached is kept as long as effects are only added.
LEMMA EffectsKeep ==
  ASSUME NEW d, fired \subseteq fired', signalled \subseteq signalled',
         pull.state # "open" => pull'.state # "open", pull.checks # "none" => pull'.checks # "none"
  PROVE  /\ HasFired(d) => HasFired(d)'
         /\ HasSignalled(d) => HasSignalled(d)'
         /\ HasRecorded(d) => HasRecorded(d)'
BY DEF HasFired, HasSignalled, HasRecorded

\* A request moves on with its delivery, and writes none of the record.
LEMMA HandlerMoves ==
  ASSUME DeliveryInv, NEW h \in EventHandlers, NEW at \in HandlerStages, Handles(h, at), NEW delivery, handler[h].delivery = delivery,
         UNCHANGED <<pull, raced>>, fired \subseteq fired', signalled \subseteq signalled',
         FiredMatch', receipt' \in [GitHubDeliveries -> Receipts],
         at \notin {"idle", "merge"},
         at # "done" => handler[h].at \notin {"idle", "done"},
         at \in {"read", "signal", "mark"} => HasFired(delivery)',
         at = "mark" => HasSignalled(delivery)',
         ~raced /\ at \in {"signal", "mark"} => HasRecorded(delivery)',
         \A d \in GitHubDeliveries : receipt'[d] = "processed" /\ receipt[d] # "processed" =>
           HasFired(d)' /\ HasSignalled(d)' /\ (~raced => HasRecorded(d)')
  PROVE  DeliveryInv'
<1>1. handler' = [handler EXCEPT ![h].at = at]
  BY DEF Handles
<1>2. DeliveryTypeOK'
  BY <1>1 DEF DeliveryInv, DeliveryTypeOK
<1>3. \A o \in EventHandlers : /\ handler'[o].delivery = handler[o].delivery /\ handler'[o].prior = handler[o].prior
                               /\ handler'[o].at = IF o = h THEN at ELSE handler[o].at
  BY <1>1 DEF DeliveryInv, DeliveryTypeOK
<1>4. \A d : /\ HasFired(d) => HasFired(d)'
             /\ HasSignalled(d) => HasSignalled(d)'
             /\ HasRecorded(d) => HasRecorded(d)'
  BY EffectsKeep
<1>5. HandlerSteps'
  <2> SUFFICES ASSUME NEW o \in EventHandlers PROVE HandlerStep(o)'
    BY DEF HandlerSteps
  <2>a. HandlerStep(h) /\ HandlerStep(o)
    BY DEF DeliveryInv, HandlerSteps
  <2>1. CASE o = h
    <3>1. handler'[o].delivery = delivery /\ handler'[o].at = at
      BY <1>3, <2>1
    <3>2. at # "done" => delivery \in GitHubDeliveries
      BY <2>a DEF HandlerStep
    <3>3. (HasFired(handler[o].delivery) <=> HasFired(delivery))' /\ (HasSignalled(handler[o].delivery) <=> HasSignalled(delivery))'
          /\ (HasRecorded(handler[o].delivery) <=> HasRecorded(delivery))'
      BY <3>1
    <3> QED BY <3>1, <3>2, <3>3 DEF HandlerStep
  <2>2. CASE o # h
    <3> DEFINE d == handler[o].delivery
    <3>1. handler'[o].delivery = d /\ handler'[o].at = handler[o].at /\ handler'[o].prior = handler[o].prior
      BY <1>3, <2>2
    <3>2. \A p \in EventHandlers : handler[p].at # "merge" => handler'[p].at # "merge"
      BY <1>3
    <3>3. /\ HasFired(d) => HasFired(handler[o].delivery)'
          /\ HasSignalled(d) => HasSignalled(handler[o].delivery)'
          /\ HasRecorded(d) => HasRecorded(handler[o].delivery)'
      <4>1. \E x : x = d
        OBVIOUS
      <4>2. PICK x : x = d
        BY <4>1
      <4>3. /\ HasFired(x) => HasFired(x)'
            /\ HasSignalled(x) => HasSignalled(x)'
            /\ HasRecorded(x) => HasRecorded(x)'
        BY <1>4
      <4>4. (handler[o].delivery)' = x
        BY <3>1, <4>2
      <4> QED BY <4>2, <4>3, <4>4 DEF HasFired, HasSignalled, HasRecorded
    <3> HIDE DEF d
    <3> QED BY <2>a, <3>1, <3>2, <3>3 DEF HandlerStep, d
  <2> QED BY <2>1, <2>2
<1>6. Applied'
  <2> SUFFICES ASSUME NEW d \in GitHubDeliveries, receipt'[d] = "processed"
               PROVE  HasFired(d)' /\ HasSignalled(d)' /\ (~raced => HasRecorded(d)')
    BY DEF Applied, HasFired, HasSignalled, HasRecorded
  <2>1. CASE receipt[d] = "processed"
    BY <1>4, <2>1 DEF DeliveryInv, Applied
  <2> QED BY <2>1
<1> QED BY <1>2, <1>5, <1>6 DEF DeliveryInv

LEMMA AuthenticatedKeeps ==
  ASSUME DeliveryInv, NEW h \in EventHandlers, NEW d \in GitHubDeliveries, Authenticated(h, d)
  PROVE  DeliveryInv'
<1> DEFINE r == [at |-> IF receipt[d] \in {"processed", "skipped"} THEN "done" ELSE "plan", delivery |-> d, prior |-> NoHook]
           x == IF receipt[d] = "none" THEN "received" ELSE receipt[d]
<1>1. /\ receipt' = [receipt EXCEPT ![d] = x] /\ handler' = [handler EXCEPT ![h] = r]
      /\ UNCHANGED <<fired, signalled, pull, raced>>
  BY DEF Authenticated, effectVars
<1>2. x \in Receipts /\ (x = "processed" => receipt[d] = "processed")
  BY DEF DeliveryInv, DeliveryTypeOK, Receipts
<1>3. /\ r \in [at : {"done", "plan"}, delivery : GitHubDeliveries, prior : {NoHook}]
      /\ r \in [at : HandlerStages, delivery : GitHubDeliveries \cup {NoHook}, prior : PullRecords \cup {NoHook}]
  BY DEF HandlerStages
<1> HIDE DEF r, x
<1>4. DeliveryTypeOK'
  BY <1>1, <1>2, <1>3 DEF DeliveryInv, DeliveryTypeOK
<1>5. \A o \in EventHandlers : handler'[o] = IF o = h THEN r ELSE handler[o]
  BY <1>1 DEF DeliveryInv, DeliveryTypeOK
<1>6. \A e \in GitHubDeliveries : receipt'[e] = "processed" => receipt[e] = "processed"
  BY <1>1, <1>2 DEF DeliveryInv, DeliveryTypeOK
<1>7. FiredMatch'
  BY <1>1 DEF DeliveryInv, FiredMatch
<1>8. Applied'
  BY <1>1, <1>6 DEF DeliveryInv, Applied, HasFired, HasSignalled, HasRecorded
<1>9. HandlerSteps'
  <2> SUFFICES ASSUME NEW o \in EventHandlers PROVE HandlerStep(o)'
    BY DEF HandlerSteps
  <2>1. CASE o = h
    BY <1>3, <1>5, <2>1 DEF HandlerStep
  <2>2. CASE o # h
    <3>1. handler'[o] = handler[o] /\ \A p \in EventHandlers : handler[p].at # "merge" => handler'[p].at # "merge"
      BY <1>3, <1>5, <2>2
    <3>2. HandlerStep(o)
      BY DEF DeliveryInv, HandlerSteps
    <3> QED BY <1>1, <3>1, <3>2 DEF HandlerStep, HasFired, HasSignalled, HasRecorded
  <2> QED BY <2>1, <2>2
<1> QED BY <1>4, <1>7, <1>8, <1>9 DEF DeliveryInv

LEMMA FireKeeps ==
  ASSUME DeliveryInv, NEW h \in EventHandlers, FireMatching(h)
  PROVE  DeliveryInv'
<1>1. PICK d \in GitHubDeliveries : handler[h].delivery = d
  BY DEF FireMatching, DeliveryInv, HandlerSteps, HandlerStep
<1>2. /\ fired' = fired \cup {<<a, d>> : a \in {b \in DOMAIN Selectors : Matches(b, d)}}
      /\ Handles(h, "read") /\ handler[h].at = "fire" /\ UNCHANGED <<receipt, signalled, pull, raced>>
  BY <1>1 DEF FireMatching, Matches, EventOf
<1>3. HasFired(d)'
  BY <1>2 DEF HasFired
<1>4. FiredMatch'
  <2> SUFFICES ASSUME NEW a \in DOMAIN Selectors, NEW e \in GitHubDeliveries, <<a, e>> \in fired' PROVE Matches(a, e)
    BY DEF FiredMatch
  <2>1. CASE <<a, e>> \in fired
    BY <2>1 DEF DeliveryInv, FiredMatch
  <2>2. CASE <<a, e>> \notin fired
    <3>1. PICK b \in DOMAIN Selectors : Matches(b, d) /\ <<a, e>> = <<b, d>>
      BY <1>2, <2>2
    <3>2. a = b /\ e = d
      BY <3>1
    <3> QED BY <3>1, <3>2
  <2> QED BY <2>1, <2>2
<1>5. receipt' \in [GitHubDeliveries -> Receipts] /\ "read" \in HandlerStages
  BY <1>2 DEF DeliveryInv, DeliveryTypeOK, HandlerStages
<1> QED BY <1>1, <1>2, <1>3, <1>4, <1>5, HandlerMoves

LEMMA SignalKeeps ==
  ASSUME DeliveryInv, NEW h \in EventHandlers, AddSignal(h)
  PROVE  DeliveryInv'
<1>1. PICK d \in GitHubDeliveries : handler[h].delivery = d
  BY DEF AddSignal, DeliveryInv, HandlerSteps, HandlerStep
<1>2. /\ signalled' = IF DeliveryEvent[d].predicate \in Signals THEN signalled \cup {d} ELSE signalled
      /\ Handles(h, "mark") /\ handler[h].at = "signal" /\ UNCHANGED <<receipt, fired, pull, raced>>
  BY <1>1 DEF AddSignal, EventOf
<1>3. HasFired(d) /\ (~raced => HasRecorded(d))
  BY <1>1, <1>2 DEF DeliveryInv, HandlerSteps, HandlerStep
<1>4. HasFired(d)' /\ HasSignalled(d)' /\ (~raced => HasRecorded(d)')
  BY <1>2, <1>3 DEF HasFired, HasSignalled, HasRecorded
<1>5. FiredMatch' /\ receipt' \in [GitHubDeliveries -> Receipts] /\ "mark" \in HandlerStages
      /\ signalled \subseteq signalled' /\ fired \subseteq fired'
  BY <1>2 DEF DeliveryInv, DeliveryTypeOK, HandlerStages, FiredMatch
<1> QED BY <1>1, <1>2, <1>4, <1>5, HandlerMoves

LEMMA MarkKeeps ==
  ASSUME DeliveryInv, NEW h \in EventHandlers, MarkProcessed(h)
  PROVE  DeliveryInv'
<1>1. PICK d \in GitHubDeliveries : handler[h].delivery = d
  BY DEF MarkProcessed, DeliveryInv, HandlerSteps, HandlerStep
<1> DEFINE x == IF handler[h].at = "mark" \/ receipt[d] = "processed" THEN "processed" ELSE "skipped"
<1>2. /\ receipt' = [receipt EXCEPT ![d] = x]
      /\ Handles(h, "done") /\ handler[h].at \in {"mark", "skip"} /\ UNCHANGED <<fired, signalled, pull, raced>>
  BY <1>1 DEF MarkProcessed, effectVars
<1>3. handler[h].at = "mark" => HasFired(d) /\ HasSignalled(d) /\ (~raced => HasRecorded(d))
  BY <1>1 DEF DeliveryInv, HandlerSteps, HandlerStep
<1>4. handler[h].at = "mark" => HasFired(d)' /\ HasSignalled(d)' /\ (~raced => HasRecorded(d)')
  BY <1>2, <1>3 DEF HasFired, HasSignalled, HasRecorded
<1>5. FiredMatch' /\ receipt' \in [GitHubDeliveries -> Receipts] /\ "done" \in HandlerStages
      /\ signalled \subseteq signalled' /\ fired \subseteq fired'
  BY <1>2 DEF DeliveryInv, DeliveryTypeOK, HandlerStages, FiredMatch, Receipts
<1>6. \A e \in GitHubDeliveries : receipt'[e] = "processed" /\ receipt[e] # "processed" => e = d /\ handler[h].at = "mark"
  BY <1>2 DEF DeliveryInv, DeliveryTypeOK
<1> QED BY <1>1, <1>2, <1>4, <1>5, <1>6, HandlerMoves

LEMMA PlanKeeps ==
  ASSUME DeliveryInv, NEW h \in EventHandlers, NEW enabled \in BOOLEAN, CheckPlan(h, enabled)
  PROVE  DeliveryInv'
<1> DEFINE at == IF enabled THEN "fire" ELSE "skip"
<1>1. Handles(h, at) /\ handler[h].at = "plan" /\ UNCHANGED <<receipt, fired, signalled, pull, raced>>
  BY DEF CheckPlan, effectVars
<1>2. FiredMatch' /\ receipt' \in [GitHubDeliveries -> Receipts] /\ at \in HandlerStages /\ at \in {"fire", "skip"}
      /\ signalled \subseteq signalled' /\ fired \subseteq fired'
  BY <1>1 DEF DeliveryInv, DeliveryTypeOK, HandlerStages, FiredMatch
<1> HIDE DEF at
<1> QED BY <1>1, <1>2, HandlerMoves

LEMMA DiesKeeps ==
  ASSUME DeliveryInv, NEW h \in EventHandlers, HandlerDies(h)
  PROVE  DeliveryInv'
<1>1. Handles(h, "done") /\ UNCHANGED <<receipt, fired, signalled, pull, raced>>
  BY DEF HandlerDies, effectVars
<1>2. FiredMatch' /\ receipt' \in [GitHubDeliveries -> Receipts] /\ "done" \in HandlerStages
      /\ signalled \subseteq signalled' /\ fired \subseteq fired'
  BY <1>1 DEF DeliveryInv, DeliveryTypeOK, HandlerStages, FiredMatch
<1> QED BY <1>1, <1>2, HandlerMoves

\* Two requests that read the record one behind the other have raced.
LEMMA ReadKeeps ==
  ASSUME DeliveryInv, NEW h \in EventHandlers, ReadLinked(h)
  PROVE  DeliveryInv'
<1> DEFINE b == \E o \in EventHandlers \ {h} : handler[o].at = "merge"
           racedNow == raced \/ b
<1>1. /\ handler[h].at = "read" /\ handler' = [handler EXCEPT ![h].prior = pull, ![h].at = "merge"]
      /\ raced' = racedNow /\ UNCHANGED <<receipt, fired, signalled, pull>>
  BY DEF ReadLinked
<1>2. racedNow \in BOOLEAN /\ (~racedNow => ~raced /\ \A o \in EventHandlers \ {h} : handler[o].at # "merge")
  BY DEF DeliveryInv, DeliveryTypeOK
<1> HIDE DEF racedNow
<1>3. DeliveryTypeOK'
  <2>1. pull \in PullRecords /\ "merge" \in HandlerStages
    BY DEF DeliveryInv, DeliveryTypeOK, HandlerStages
  <2> QED BY <1>1, <1>2, <2>1 DEF DeliveryInv, DeliveryTypeOK
<1>4. /\ \A o \in EventHandlers \ {h} : handler'[o] = handler[o]
      /\ handler'[h].delivery = handler[h].delivery /\ handler'[h].prior = pull /\ handler'[h].at = "merge"
  BY <1>1 DEF DeliveryInv, DeliveryTypeOK
<1>5. FiredMatch' /\ Applied'
  BY <1>1, <1>2 DEF DeliveryInv, FiredMatch, Applied, HasFired, HasSignalled, HasRecorded
<1>6. HandlerSteps'
  <2> SUFFICES ASSUME NEW o \in EventHandlers PROVE HandlerStep(o)'
    BY DEF HandlerSteps
  <2>1. \E x : x = handler[o].delivery
    OBVIOUS
  <2>2. PICK x : x = handler[o].delivery
    BY <2>1
  <2>3. (handler[o].delivery)' = x /\ HandlerStep(o)
    BY <1>4, <2>2 DEF DeliveryInv, HandlerSteps
  <2>4. HasFired(x)' = HasFired(x) /\ HasSignalled(x)' = HasSignalled(x) /\ HasRecorded(x)' = HasRecorded(x)
    BY <1>1 DEF HasFired, HasSignalled, HasRecorded
  <2>5. CASE o = h
    <3>1. ~racedNow => \A p \in EventHandlers \ {o} : handler'[p].at # "merge"
      BY <1>2, <1>4, <2>5
    <3>2. handler'[o].at = "merge" /\ handler'[o].prior = pull' /\ pull' \in PullRecords /\ HasFired(x)' /\ x \in GitHubDeliveries
      BY <1>1, <1>4, <2>2, <2>3, <2>4, <2>5 DEF DeliveryInv, DeliveryTypeOK, HandlerStep
    <3> QED BY <1>1, <2>3, <3>1, <3>2 DEF HandlerStep, HasFired, HasSignalled, HasRecorded
  <2>6. CASE o # h
    <3>1. handler'[o] = handler[o] /\ (~racedNow => handler[o].at # "merge" /\ ~raced)
      BY <1>2, <1>4, <2>6
    <3>2. pull' = pull /\ raced' = racedNow
      BY <1>1
    <3> QED BY <2>2, <2>3, <2>4, <3>1, <3>2 DEF HandlerStep, HasFired, HasSignalled, HasRecorded
  <2> QED BY <2>5, <2>6
<1> QED BY <1>3, <1>5, <1>6 DEF DeliveryInv

\* Unless two raced, the record that is written back is the one that is stored, with the event added.
LEMMA MergeKeeps ==
  ASSUME DeliveryInv, NEW h \in EventHandlers, MergeDelivery(h)
  PROVE  DeliveryInv'
<1> DEFINE prior == handler[h].prior
<1>1. PICK d \in GitHubDeliveries : handler[h].delivery = d
  BY DEF MergeDelivery, DeliveryInv, HandlerSteps, HandlerStep
<1> DEFINE predicate == DeliveryEvent[d].predicate
           ends == predicate \in {"merged", "closed"}
           checks == predicate \in {"checks_failed", "checks_passed"}
<1>2. /\ handler[h].at = "merge" /\ handler' = [handler EXCEPT ![h].at = "signal"] /\ UNCHANGED <<receipt, fired, signalled, raced>>
      /\ ends => pull' = [prior EXCEPT !.state = predicate]
      /\ ~ends /\ checks => pull' = [prior EXCEPT !.checks = predicate]
      /\ ~ends /\ ~checks => pull' = pull
  BY <1>1 DEF MergeDelivery, EventOf, Handles
<1>3. /\ prior \in PullRecords /\ pull \in PullRecords /\ HasFired(d)
      /\ ~raced => prior = pull /\ \A o \in EventHandlers \ {h} : handler[o].at # "merge"
  BY <1>1, <1>2 DEF DeliveryInv, DeliveryTypeOK, HandlerSteps, HandlerStep
<1>4. ends /\ checks => FALSE
  OBVIOUS
<1>5. /\ pull' \in PullRecords
      /\ ends => pull'.state = predicate /\ pull'.checks = prior.checks
      /\ checks => pull'.checks = predicate /\ pull'.state = prior.state
  BY <1>2, <1>3, <1>4 DEF PullRecords
<1>6. ~raced => /\ pull.state # "open" => pull'.state # "open"
                /\ pull.checks # "none" => pull'.checks # "none"
                /\ ends => pull'.state # "open"
                /\ checks => pull'.checks # "none"
  BY <1>2, <1>3, <1>5
<1>7. ~raced => HasRecorded(d)'
  BY <1>6 DEF HasRecorded
<1> HIDE DEF prior, predicate, ends, checks
<1>8. \A e : HasFired(e)' = HasFired(e) /\ HasSignalled(e)' = HasSignalled(e) /\ (~raced /\ HasRecorded(e) => HasRecorded(e)')
  BY <1>2, <1>6 DEF HasFired, HasSignalled, HasRecorded
<1>9. DeliveryTypeOK'
  BY <1>2, <1>5 DEF DeliveryInv, DeliveryTypeOK, HandlerStages
<1>10. FiredMatch' /\ Applied'
  <2>1. FiredMatch'
    BY <1>2 DEF DeliveryInv, FiredMatch
  <2>2. ASSUME NEW e \in GitHubDeliveries, receipt'[e] = "processed"
        PROVE  HasFired(e)' /\ HasSignalled(e)' /\ (~raced => HasRecorded(e)')
    BY <1>2, <1>8, <2>2 DEF DeliveryInv, Applied
  <2>3. Applied'
    BY <1>2, <2>2 DEF Applied, HasFired, HasSignalled, HasRecorded
  <2> QED BY <2>1, <2>3
<1>11. \A o \in EventHandlers : /\ handler'[o].delivery = handler[o].delivery /\ handler'[o].prior = handler[o].prior
                                /\ handler'[o].at = IF o = h THEN "signal" ELSE handler[o].at
  BY <1>2 DEF DeliveryInv, DeliveryTypeOK
<1>12. HandlerSteps'
  <2> SUFFICES ASSUME NEW o \in EventHandlers PROVE HandlerStep(o)'
    BY DEF HandlerSteps
  <2>1. \E x : x = handler[o].delivery
    OBVIOUS
  <2>2. PICK x : x = handler[o].delivery
    BY <2>1
  <2>3. (handler[o].delivery)' = x /\ HandlerStep(o)
    BY <1>11, <2>2 DEF DeliveryInv, HandlerSteps
  <2>4. CASE o = h
    <3>1. x = d /\ handler'[o].at = "signal"
      BY <1>1, <1>11, <2>2, <2>4
    <3>2. HasFired(d)' /\ (~raced => HasRecorded(d)')
      BY <1>3, <1>7, <1>8
    <3> QED BY <1>2, <2>3, <3>1, <3>2 DEF HandlerStep, HasFired, HasSignalled, HasRecorded
  <2>5. CASE o # h
    <3>1. handler'[o].at = handler[o].at /\ handler'[o].prior = handler[o].prior /\ (~raced => handler[o].at # "merge")
      BY <1>3, <1>11, <2>5
    <3>2. HasFired(x)' = HasFired(x) /\ HasSignalled(x)' = HasSignalled(x) /\ (~raced /\ HasRecorded(x) => HasRecorded(x)')
      BY <1>8
    <3> QED BY <1>2, <2>2, <2>3, <3>1, <3>2 DEF HandlerStep, HasFired, HasSignalled, HasRecorded
  <2> QED BY <2>4, <2>5
<1> QED BY <1>9, <1>10, <1>12 DEF DeliveryInv

\* Under any overlap of connecting, replacing and disconnecting, and with deliveries repeated, interrupted and
\* handled side by side, the row never names a hook that another request took away (a row whose INSERT answer was
\* lost stays behind without its hook), and a delivery that is recorded as processed under a plan with a bot had its
\* effects (github-events.ts 118-346, hosted.ts 163-190).
THEOREM HooksHold == HookSpec => []HooksSound
<1>1. HookInit => HookInv
  <2> SUFFICES ASSUME HookInit PROVE HookInv
    OBVIOUS
  <2>1. HookTypeOK
    BY DEF HookInit, HookTypeOK, HookRows, HookStages
  <2>2. hookRow # NoHook => hookRow.hook = "earlier" /\ "earlier" \in remote
    BY DEF HookInit
  <2>3. \A c \in HookCalls : hookCall[c].at = "idle" /\ hookCall[c].old = NoHook
    BY DEF HookInit
  <2>4. RowsKnown /\ StagesKept /\ RowNamesHook
    BY <2>2, <2>3 DEF RowsKnown, RowOf, StagesKept, RowNamesHook
  <2> QED BY <2>1, <2>4 DEF HookInv
<1>2. HookInit => DeliveryInv
  <2> SUFFICES ASSUME HookInit PROVE DeliveryInv
    OBVIOUS
  <2>1. DeliveryTypeOK
    BY DEF HookInit, DeliveryTypeOK, HandlerStages, PullRecords, Receipts
  <2>2. \A h \in EventHandlers : handler[h].at = "idle"
    BY DEF HookInit
  <2>3. FiredMatch /\ HandlerSteps /\ Applied
    BY <2>2 DEF HookInit, FiredMatch, HandlerSteps, HandlerStep, Applied
  <2> QED BY <2>1, <2>3 DEF DeliveryInv
<1>3. HookInv /\ DeliveryInv /\ [HookCallNext \/ DeliveryNext]_hookVars => (HookInv /\ DeliveryInv)'
  <2> SUFFICES ASSUME HookInv, DeliveryInv, [HookCallNext \/ DeliveryNext]_hookVars PROVE HookInv' /\ DeliveryInv'
    OBVIOUS
  <2>1. UNCHANGED <<hookRow, remote, hookCall>> => HookInv'
    BY DEF HookInv, HookTypeOK, RowsKnown, RowOf, StagesKept, RowNamesHook
  <2>2. UNCHANGED deliveryVars => DeliveryInv'
    BY DEF deliveryVars, effectVars, DeliveryInv, DeliveryTypeOK, FiredMatch, HandlerSteps, HandlerStep, Applied, HasFired,
           HasSignalled, HasRecorded
  <2>3. HookCallNext => HookInv' /\ UNCHANGED deliveryVars
    BY HookCallStep DEF HookCallNext, EnsureHook, DisconnectHook, ClearRow, InsertRow, DropRemote, CreateRemote, TakeBack, CheckWinner,
       UndoHook, InsertThrows
  <2>4. DeliveryNext => DeliveryInv' /\ UNCHANGED <<hookRow, remote, hookCall>>
    <3> SUFFICES ASSUME NEW h \in EventHandlers,
                        \/ \E d \in GitHubDeliveries : Authenticated(h, d)
                        \/ \E enabled \in BOOLEAN : CheckPlan(h, enabled)
                        \/ HandlerDies(h) \/ FireMatching(h) \/ ReadLinked(h) \/ MergeDelivery(h) \/ AddSignal(h) \/ MarkProcessed(h)
                 PROVE  DeliveryInv' /\ UNCHANGED <<hookRow, remote, hookCall>>
      BY DEF DeliveryNext
    <3>1. DeliveryInv'
      BY AuthenticatedKeeps, PlanKeeps, DiesKeeps, FireKeeps, ReadKeeps, MergeKeeps, SignalKeeps, MarkKeeps
    <3>2. UNCHANGED <<hookRow, remote, hookCall>>
      BY DEF Authenticated, CheckPlan, HandlerDies, FireMatching, ReadLinked, MergeDelivery, AddSignal, MarkProcessed
    <3> QED BY <3>1, <3>2
  <2>5. UNCHANGED hookVars => UNCHANGED <<hookRow, remote, hookCall>> /\ UNCHANGED deliveryVars
    BY DEF hookVars, deliveryVars, effectVars
  <2> QED BY <2>1, <2>2, <2>3, <2>4, <2>5
<1>4. HookInv /\ DeliveryInv => HooksSound
  <2> SUFFICES ASSUME HookInv, DeliveryInv PROVE HooksSound
    OBVIOUS
  <2>1. \A d \in GitHubDeliveries, a \in DOMAIN Selectors : <<a, d>> \in fired => EventMatches(Selectors[a], DeliveryEvent[d])
    BY DEF DeliveryInv, FiredMatch, Matches
  <2>2. ProcessedIsApplied
    BY <2>1 DEF DeliveryInv, Applied, HasFired, HasSignalled, HasRecorded, Matches, ProcessedIsApplied
  <2> QED BY <2>2 DEF HookInv, HooksSound
<1> QED BY <1>1, <1>2, <1>3, <1>4, PTL DEF HookSpec

-----------------------------------------------------------------------------
(* Tasks (executor.ts runBatch, runTask, store.ts)                         *)

Turns == 1 .. MaxTaskClaims
Branches == {"none", "complete", "incomplete"}
WorkStages == {"preflight", "link", "start", "execute", "checkpoint", "outcome", "review", "verdict", "deliver"}
TaskStages == WorkStages \cup {"idle", "claimed", "block", "finish", "error", "ack", "retry", "resume", "reset"}
TaskStatuses == Finished \cup {"queued", "working", "waiting"}
Reports == [turn : Turns, writes : BOOLEAN, reviewed : BOOLEAN, delivered : BOOLEAN, kept : BOOLEAN]
TaskRows == [status : TaskStatuses, turn : Turns \cup {NoTask}, branch : Branches, kept : BOOLEAN,
             team : Teams, writes : BOOLEAN,
             doneBy : Reports \cup {NoTask}]
WorkerRows == [at : TaskStages, token : 0 .. MaxTaskClaims, attempt : Nat, turn : Turns \cup {NoTask}, branch : Branches,
               writes : BOOLEAN, reviewed : BOOLEAN, delivered : BOOLEAN]

TaskTypeOK ==
  /\ botTask \in TaskRows
  /\ botWake \in [present : BOOLEAN, token : 0 .. MaxTaskClaims, lapsed : BOOLEAN, attempts : Nat]
  /\ botWorker \in [TaskWorkers -> WorkerRows]
  /\ turns \in [Turns -> TurnStates \cup {"NONE"}]
  /\ claims \in 0 .. MaxTaskClaims
  /\ outlived \in BOOLEAN

\* Every claim draws a token of its own; a turn is made once, under the token of the claim that makes it.
TokensDistinct ==
  /\ botWake.token <= claims
  /\ \A w \in TaskWorkers : IF botWorker[w].at = "idle" THEN botWorker[w] = WorkerIdle ELSE botWorker[w].token \in 1 .. claims
  /\ \A v, w \in TaskWorkers : v # w /\ botWorker[v].at # "idle" => botWorker[v].token # botWorker[w].token
  /\ \A n \in Turns : n > claims => turns[n] = "NONE"
  /\ botTask.turn # NoTask => turns[botTask.turn] # "NONE"

\* What a worker in the state r can rely on; the one that holds the lease knows the branch that is stored.
TaskWorkerOK(r) ==
  /\ r.turn # NoTask => turns[r.turn] # "NONE"
  /\ r.at = "claimed" => r.turn = NoTask
  /\ r.at \in {"claimed", "preflight", "link"} /\ r.turn = NoTask => turns[r.token] = "NONE"
  /\ r.at \in {"start", "execute", "checkpoint", "outcome", "review", "verdict", "deliver", "finish"} => r.turn \in Turns
  /\ r.at \in {"review", "verdict", "deliver", "finish"} => turns[r.turn] = "COMPLETED"
  /\ r.at \in {"deliver", "finish"} /\ botTask.team.review => r.reviewed
  /\ ~outlived /\ botTask.kept /\ botWake.present /\ botWake.token = r.token =>
       /\ r.at \in WorkStages => r.branch # "none"
       /\ r.at = "finish" /\ r.writes => r.delivered
WorkersOK == \A w \in TaskWorkers : TaskWorkerOK(botWorker[w])

Busy(w) == botWorker[w].at \notin {"idle", "reset"}

\* As long as only holders of the lease step, the branch of the checkpoint is never forgotten again.
BranchStored == ~outlived /\ botTask.kept => botTask.branch # "none"

\* The holder of the lease acknowledges a wake-up only of a finished task.
AckIsFinal ==
  ~outlived => \A w \in TaskWorkers : botWorker[w].at = "ack" /\ Holds(w) => botTask.status \in Finished

TaskInv == TaskTypeOK /\ TokensDistinct /\ WorkersOK /\ BranchStored /\ DoneIsChecked /\ AckIsFinal /\ TaskKeepsWake

\* Under distinct tokens one worker at most holds the lease.
LEMMA OneHolder ==
  ASSUME TaskTypeOK, TokensDistinct, NEW v \in TaskWorkers, NEW w \in TaskWorkers,
         botWorker[v].at # "idle", Holds(v), Holds(w)
  PROVE  v = w
BY DEF TokensDistinct, Holds

\* Fields of a worker's record when its stage changes.
LEMMA StageChanges ==
  ASSUME NEW o \in WorkerRows, NEW at \in TaskStages, NEW r, r = [o EXCEPT !.at = at]
  PROVE  /\ r \in WorkerRows /\ r.at = at /\ r.token = o.token /\ r.turn = o.turn
         /\ r.branch = o.branch /\ r.reviewed = o.reviewed /\ r.delivered = o.delivered /\ r.writes = o.writes
BY DEF WorkerRows

LEMMA IdleRow == /\ WorkerIdle \in WorkerRows /\ WorkerIdle.at = "idle" /\ WorkerIdle.token = 0
                 /\ WorkerIdle.turn = NoTask /\ WorkerIdle.branch = "none"
BY BotTaskAssumption DEF WorkerRows, WorkerIdle, Branches, TaskStages

\* A busy worker goes on with the record r, and may write the task and its own turn.
LEMMA TaskStepKeeps ==
  ASSUME TaskInv, NEW w \in TaskWorkers, NEW r \in WorkerRows, Steps(w, r), UNCHANGED <<botWake, claims>>,
         r.token = botWorker[w].token, Busy(w), r.at \notin {"idle", "reset"},
         botTask' \in TaskRows, botTask'.team = botTask.team,
         turns' \in [Turns -> TurnStates \cup {"NONE"}],
         \A n \in Turns : /\ turns[n] # "NONE" => turns'[n] # "NONE"
                          /\ turns[n] = "COMPLETED" => turns'[n] = "COMPLETED"
                          /\ turns[n] = "NONE" /\ turns'[n] # "NONE" => n = r.token,
         botTask'.turn # NoTask => turns'[botTask'.turn] # "NONE",
         TaskWorkerOK(r)',
         botTask'.doneBy # botTask.doneBy => /\ turns'[botTask'.doneBy.turn] = "COMPLETED"
                                             /\ botTask.team.review => botTask'.doneBy.reviewed
                                             /\ ~outlived /\ Holds(w) /\ botTask'.doneBy.kept /\ botTask'.doneBy.writes
                                                  => botTask'.doneBy.delivered,
         ~outlived /\ Holds(w) /\ botTask'.kept => botTask'.branch # "none",
         r.at = "ack" => botTask'.status \in Finished
  PROVE  TaskInv'
<1>1. botWorker' = [botWorker EXCEPT ![w] = r] /\ outlived' = (outlived \/ ~Holds(w))
  BY DEF Steps
<1>2. \A v \in TaskWorkers : botWorker'[v] = IF v = w THEN r ELSE botWorker[v]
  BY <1>1 DEF TaskInv, TaskTypeOK
<1>3. TaskTypeOK'
  <2>1. (outlived \/ ~Holds(w)) \in BOOLEAN
    BY DEF TaskInv, TaskTypeOK, Holds
  <2> QED BY <1>1, <2>1 DEF TaskInv, TaskTypeOK
<1>4. r.token \in 1 .. claims /\ r.token \in Turns /\ botWorker[w].at # "idle"
  <2>1. botWorker[w].at # "idle"
    BY DEF Busy
  <2>2. r.token \in 1 .. claims
    BY <2>1 DEF TaskInv, TokensDistinct
  <2>3. claims \in 0 .. MaxTaskClaims /\ MaxTaskClaims \in Nat
    BY BotTaskAssumption DEF TaskInv, TaskTypeOK
  <2> QED BY <2>1, <2>2, <2>3 DEF Turns
<1>5. TokensDistinct'
  <2>1. \A n \in Turns : n > claims => turns'[n] = "NONE"
    BY <1>4 DEF TaskInv, TaskTypeOK, TokensDistinct, Turns
  <2>2. \A v \in TaskWorkers : IF botWorker'[v].at = "idle" THEN botWorker'[v] = WorkerIdle ELSE botWorker'[v].token \in 1 .. claims
    BY <1>2, <1>4 DEF TaskInv, TokensDistinct
  <2>3. \A u, v \in TaskWorkers : u # v /\ botWorker'[u].at # "idle" => botWorker'[u].token # botWorker'[v].token
    BY <1>2, <1>4 DEF TaskInv, TokensDistinct
  <2> QED BY <2>1, <2>2, <2>3 DEF TaskInv, TokensDistinct
<1>7. WorkersOK'
  <2> SUFFICES ASSUME NEW v \in TaskWorkers PROVE TaskWorkerOK(botWorker[v])'
    BY DEF WorkersOK
  <2>1. CASE v = w
    <3>1. botWorker'[v] = r
      BY <1>2, <2>1
    <3> QED BY <3>1 DEF TaskWorkerOK
  <2>2. CASE v # w
    <3>1. \E x : x = botWorker[v]
      OBVIOUS
    <3>2. PICK x : x = botWorker[v]
      BY <3>1
    <3>3. botWorker'[v] = x /\ x \in WorkerRows /\ TaskWorkerOK(x)
      BY <1>2, <2>2, <3>2 DEF TaskInv, TaskTypeOK, WorkersOK
    <3>4. x.at # "idle" => x.token # r.token /\ x.token \in Turns
      <4>1. claims \in 0 .. MaxTaskClaims /\ MaxTaskClaims \in Nat
        BY BotTaskAssumption DEF TaskInv, TaskTypeOK
      <4>2. x.at # "idle" => x.token # r.token /\ x.token \in 1 .. claims
        BY <2>2, <3>2 DEF TaskInv, TokensDistinct
      <4> QED BY <4>1, <4>2 DEF Turns
    <3>5. ~outlived' => botWake.token = r.token
      BY <1>1, <1>4 DEF Holds
    <3>6. x.turn # NoTask => x.turn \in Turns
      BY <3>3 DEF WorkerRows
    <3>7. TaskWorkerOK(x)'
      BY <3>3, <3>4, <3>5, <3>6 DEF TaskWorkerOK, WorkStages
    <3> QED BY <3>3, <3>7 DEF TaskWorkerOK
  <2> QED BY <2>1, <2>2
<1>9. \A v \in TaskWorkers : Holds(v)' <=> Holds(v)
  BY <1>2 DEF Holds
<1>10. BranchStored'
  BY <1>1 DEF BranchStored
<1>11. DoneIsChecked'
  <2> DEFINE d == botTask'.doneBy
  <2> SUFFICES ASSUME d # NoTask
               PROVE  /\ turns'[d.turn] = "COMPLETED" /\ (botTask.team.review => d.reviewed)
                      /\ ~outlived' /\ d.kept /\ d.writes => d.delivered
    BY DEF DoneIsChecked
  <2>1. CASE d = botTask.doneBy
    <3>1. d.turn \in Turns
      BY <2>1 DEF TaskInv, TaskTypeOK, TaskRows, Reports
    <3> QED BY <1>1, <2>1, <3>1 DEF TaskInv, DoneIsChecked
  <2>2. CASE d # botTask.doneBy
    BY <1>1, <2>2
  <2> QED BY <2>1, <2>2
<1>12. AckIsFinal' /\ TaskKeepsWake'
  <2> SUFFICES ASSUME ~outlived' PROVE AckIsFinal' /\ TaskKeepsWake'
    BY DEF AckIsFinal, TaskKeepsWake
  <2>1. ~outlived /\ Holds(w)
    BY <1>1
  <2>2. \A v \in TaskWorkers : Holds(v) => v = w
    BY <1>4, <2>1, OneHolder DEF TaskInv
  <2>3. AckIsFinal'
    BY <1>2, <1>9, <2>2 DEF AckIsFinal
  <2>4. TaskKeepsWake'
    BY <2>1 DEF Holds, TaskKeepsWake
  <2> QED BY <2>3, <2>4
<1> QED BY <1>3, <1>5, <1>7, <1>10, <1>11, <1>12 DEF TaskInv

\* updateTask changes the status only.
LEMMA StatusChanges ==
  ASSUME TaskInv, botTask' = botTask \/ \E status \in TaskStatuses : UpdateTask(status)
  PROVE  /\ botTask' \in TaskRows /\ botTask'.turn = botTask.turn /\ botTask'.branch = botTask.branch /\ botTask'.kept = botTask.kept
         /\ botTask'.team = botTask.team /\ botTask'.writes = botTask.writes /\ botTask'.doneBy = botTask.doneBy
<1>1. botTask \in TaskRows
  BY DEF TaskInv, TaskTypeOK
<1> QED BY <1>1 DEF UpdateTask, TaskRows

\* The record with which a worker goes on, as far as it does not depend on the stage.
LEMMA RecordGoesOn ==
  ASSUME TaskInv, NEW w \in TaskWorkers
  PROVE  /\ botWorker[w] \in WorkerRows /\ TaskWorkerOK(botWorker[w])
BY DEF TaskInv, TaskTypeOK, WorkersOK

\* Steps that change the stage, and of the task at most its status.
LEMMA TaskGoes ==
  ASSUME TaskInv, NEW w \in TaskWorkers, NEW at \in TaskStages, Goes(w, at), UNCHANGED <<botWake, claims, turns>>,
         Busy(w), botWorker[w].at # "claimed", at \notin {"idle", "reset", "claimed", "ack"},
         botTask' = botTask \/ \E status \in TaskStatuses : UpdateTask(status),
         at \in {"preflight", "link"} => botWorker[w].at \in {"preflight", "link"},
         at \in {"start", "execute", "checkpoint", "outcome", "review", "verdict", "deliver", "finish"} => botWorker[w].turn \in Turns,
         at \in {"review", "verdict", "deliver", "finish"} => turns[botWorker[w].turn] = "COMPLETED",
         at \in {"deliver", "finish"} /\ botTask.team.review => botWorker[w].reviewed,
         at \in WorkStages => botWorker[w].at \in WorkStages,
         ~outlived /\ Holds(w) /\ botTask.kept /\ at = "finish" /\ botWorker[w].writes => botWorker[w].delivered
  PROVE  TaskInv'
<1>1. \E o, x : o = botWorker[w] /\ x = [o EXCEPT !.at = at]
  OBVIOUS
<1>2. PICK o, x : o = botWorker[w] /\ x = [o EXCEPT !.at = at]
  BY <1>1
<1>3. o \in WorkerRows /\ TaskWorkerOK(o)
  BY <1>2, RecordGoesOn
<1>4. Steps(w, x)
  BY <1>2 DEF Goes
<1>6. /\ x \in WorkerRows /\ x.at = at /\ x.token = o.token /\ x.turn = o.turn /\ Steps(w, x)
      /\ x.branch = o.branch /\ x.reviewed = o.reviewed /\ x.delivered = o.delivered /\ x.writes = o.writes
  BY <1>2, <1>3, <1>4, StageChanges
<1>7. /\ botTask' \in TaskRows /\ botTask'.turn = botTask.turn /\ botTask'.branch = botTask.branch /\ botTask'.kept = botTask.kept
      /\ botTask'.team = botTask.team /\ botTask'.writes = botTask.writes /\ botTask'.doneBy = botTask.doneBy
  BY StatusChanges
<1>8. TaskWorkerOK(x)'
  <2>1. /\ x.at = "claimed" => x.turn = NoTask
        /\ x.at \in {"claimed", "preflight", "link"} /\ x.turn = NoTask => turns'[x.token] = "NONE"
        /\ x.turn # NoTask => turns'[x.turn] # "NONE"
    BY <1>2, <1>3, <1>6 DEF TaskWorkerOK
  <2>2. outlived' = (outlived \/ ~Holds(w)) /\ UNCHANGED <<botWake, turns>>
    BY <1>4 DEF Steps
  <2>3. ~outlived' /\ botTask'.kept => /\ x.at \in WorkStages => x.branch # "none"
                                       /\ x.at = "finish" /\ x.writes => x.delivered
    BY <1>2, <1>3, <1>6, <1>7, <2>2 DEF TaskWorkerOK, Holds
  <2> QED BY <1>2, <1>6, <1>7, <2>1, <2>2, <2>3 DEF TaskWorkerOK
<1>9. /\ ~outlived /\ botTask'.kept => botTask'.branch # "none"
      /\ botTask'.turn # NoTask => turns'[botTask'.turn] # "NONE"
      /\ turns' \in [Turns -> TurnStates \cup {"NONE"}]
  BY <1>7 DEF TaskInv, BranchStored, TokensDistinct, TaskTypeOK
<1> QED BY <1>2, <1>6, <1>7, <1>8, <1>9, TaskStepKeeps

\* Steps that end the run of the task and change of it at most the status.
LEMMA TaskLeaves ==
  ASSUME TaskInv, NEW w \in TaskWorkers, NEW at \in {"ack", "error", "retry", "resume"}, Leaves(w, at),
         UNCHANGED <<botWake, claims, turns>>,
         Busy(w),
         botTask' = botTask \/ \E status \in TaskStatuses : UpdateTask(status),
         at = "ack" => botTask'.status \in Finished
  PROVE  TaskInv'
<1>1. \E o, i, x : o = botWorker[w] /\ i = WorkerIdle /\ x = [i EXCEPT !.at = at, !.token = o.token, !.attempt = o.attempt]
  OBVIOUS
<1>2. PICK o, i, x : o = botWorker[w] /\ i = WorkerIdle /\ x = [i EXCEPT !.at = at, !.token = o.token, !.attempt = o.attempt]
  BY <1>1
<1>3. /\ o \in WorkerRows /\ at \in TaskStages
      /\ i \in WorkerRows /\ i.turn = NoTask /\ i.branch = "none"
  BY <1>2, RecordGoesOn, IdleRow DEF TaskStages
<1>4. Steps(w, x)
  BY <1>2 DEF Leaves
<1>5. x \in WorkerRows /\ x.at = at /\ x.token = o.token /\ x.turn = NoTask /\ x.branch = "none"
  BY <1>2, <1>3 DEF WorkerRows
<1>6. x \in WorkerRows /\ x.at = at /\ x.token = o.token /\ x.turn = NoTask /\ x.branch = "none" /\ Steps(w, x)
  BY <1>4, <1>5
<1>7. /\ botTask' \in TaskRows /\ botTask'.turn = botTask.turn /\ botTask'.branch = botTask.branch /\ botTask'.kept = botTask.kept
      /\ botTask'.team = botTask.team /\ botTask'.writes = botTask.writes /\ botTask'.doneBy = botTask.doneBy
  BY StatusChanges
<1>8. TaskWorkerOK(x)'
  BY <1>6 DEF TaskWorkerOK, WorkStages
<1>9. /\ ~outlived /\ botTask'.kept => botTask'.branch # "none"
      /\ botTask'.turn # NoTask => turns'[botTask'.turn] # "NONE"
      /\ turns' \in [Turns -> TurnStates \cup {"NONE"}]
  BY <1>7 DEF TaskInv, BranchStored, TokensDistinct, TaskTypeOK
<1> QED BY <1>2, <1>6, <1>7, <1>8, <1>9, TaskStepKeeps

LEMMA RunTaskSteps ==
  ASSUME TaskInv, NEW w \in TaskWorkers,
         \/ BlockTask(w) \/ StartPrimary(w) \/ TaskOutcome(w) \/ ReviewStarts(w) \/ TaskError(w) \/ EngineRefuses(w) \/ StepThrows(w)
         \/ \E ok \in BOOLEAN : Preflight(w, ok)
  PROVE  TaskInv'
<1> USE DEF TaskStages, WorkStages, TaskStatuses, Finished, Busy
<1>o. TaskWorkerOK(botWorker[w])
  BY RecordGoesOn
<1>1. CASE BlockTask(w)
  <2>1. botTask'.status \in Finished
    BY <1>1 DEF BlockTask, UpdateTask, TaskInv, TaskTypeOK, TaskRows
  <2> QED BY <1>1, <2>1, TaskLeaves DEF BlockTask
<1>2. CASE StartPrimary(w)
  BY <1>2, <1>o, TaskGoes DEF StartPrimary, TaskWorkerOK
<1>3. CASE TaskOutcome(w)
  <2> DEFINE turn == botWorker[w].turn
  <2>1. botWorker[w].at = "outcome" /\ turn \in Turns /\ UNCHANGED <<botWake, turns, claims>>
    BY <1>3, <1>o DEF TaskOutcome, TaskWorkerOK
  <2>2. CASE turns[turn] = "COMPLETED" /\ Goes(w, IF botTask.team.review THEN "review" ELSE "deliver") /\ UNCHANGED botTask
    BY <2>1, <2>2, TaskGoes
  <2>3. CASE turns[turn] = "BLOCKED" /\ UpdateTask("blocked") /\ Leaves(w, "ack")
    <3>1. botTask'.status \in Finished
      BY <2>3 DEF UpdateTask, TaskInv, TaskTypeOK, TaskRows
    <3> QED BY <2>1, <2>3, <3>1, TaskLeaves
  <2>4. CASE turns[turn] = "FAILED" /\ Leaves(w, "error") /\ UNCHANGED botTask
    BY <2>1, <2>4, TaskLeaves
  <2>5. CASE turns[turn] = "PAUSED" /\ UpdateTask("waiting") /\ Leaves(w, "resume")
    BY <2>1, <2>5, TaskLeaves
  <2> QED BY <1>3, <2>2, <2>3, <2>4, <2>5 DEF TaskOutcome
<1>4. CASE ReviewStarts(w)
  BY <1>4, <1>o, TaskGoes DEF ReviewStarts, TaskWorkerOK
<1>5. CASE TaskError(w)
  <2>1. botWorker[w].at = "error" /\ UNCHANGED <<botWake, turns, claims>>
    BY <1>5 DEF TaskError
  <2>2. CASE UpdateTask("failed") /\ Leaves(w, "ack")
    <3>1. botTask'.status \in Finished
      BY <2>2 DEF UpdateTask, TaskInv, TaskTypeOK, TaskRows
    <3> QED BY <2>1, <2>2, <3>1, TaskLeaves
  <2>3. CASE UpdateTask("waiting") /\ Leaves(w, "retry")
    BY <2>1, <2>3, TaskLeaves
  <2> QED BY <1>5, <2>2, <2>3 DEF TaskError
<1>6. CASE EngineRefuses(w)
  BY <1>6, TaskLeaves DEF EngineRefuses
<1>7. ASSUME NEW ok \in BOOLEAN, Preflight(w, ok) PROVE TaskInv'
  <2> DEFINE at == IF ok THEN "link" ELSE "error"
  <2>1. /\ botWorker[w].at = "preflight" /\ UpdateTask("working") /\ Goes(w, at) /\ UNCHANGED <<botWake, turns, claims>>
        /\ at \in {"link", "error"}
    BY <1>7 DEF Preflight
  <2> HIDE DEF at
  <2> QED BY <2>1, TaskGoes
<1>8. CASE StepThrows(w)
  BY <1>8, TaskLeaves DEF StepThrows
<1> QED BY <1>1, <1>2, <1>3, <1>4, <1>5, <1>6, <1>7, <1>8

\* What a step that leaves the task's plan, its branch and the turns alone has to say for TaskStepKeeps.
LEMMA TaskAsBefore ==
  ASSUME TaskInv, botTask' = botTask \/ \E status \in TaskStatuses : UpdateTask(status), UNCHANGED turns
  PROVE  /\ botTask' \in TaskRows /\ botTask'.team = botTask.team
         /\ botTask'.kept = botTask.kept /\ botTask'.doneBy = botTask.doneBy
         /\ ~outlived /\ botTask'.kept => botTask'.branch # "none"
         /\ botTask'.turn # NoTask => turns'[botTask'.turn] # "NONE"
         /\ turns' \in [Turns -> TurnStates \cup {"NONE"}]
BY StatusChanges DEF TaskInv, BranchStored, TokensDistinct, TaskTypeOK

LEMMA EnterKeeps ==
  ASSUME TaskInv, NEW w \in TaskWorkers, NEW entitled \in BOOLEAN, NEW mayWrite \in BOOLEAN, EnterTask(w, entitled, mayWrite)
  PROVE  TaskInv'
<1> DEFINE at == IF botTask.status \in Finished THEN "ack" ELSE IF ~entitled THEN "block"
                 ELSE IF botTask.turn = NoTask /\ botTask.team.preflight THEN "preflight" ELSE "link"
           writes == botTask.writes /\ mayWrite
<1>1. \E o, x : o = botWorker[w] /\ x = [o EXCEPT !.turn = botTask.turn, !.branch = botTask.branch, !.writes = writes, !.at = at]
  OBVIOUS
<1>2. PICK o, x : o = botWorker[w] /\ x = [o EXCEPT !.turn = botTask.turn, !.branch = botTask.branch, !.writes = writes, !.at = at]
  BY <1>1
<1>3. o \in WorkerRows /\ TaskWorkerOK(o) /\ botTask \in TaskRows
  BY <1>2, RecordGoesOn DEF TaskInv, TaskTypeOK
<1>4. o.at = "claimed" /\ UNCHANGED <<botTask, botWake, turns, claims>> /\ Steps(w, x)
  BY <1>2 DEF EnterTask
<1>5. at \in {"ack", "block", "preflight", "link"} /\ (at = "ack" => botTask.status \in Finished) /\ writes \in BOOLEAN
  BY <1>3 DEF TaskRows
<1> HIDE DEF at, writes
<1>6. /\ x \in WorkerRows /\ x.at = at /\ x.turn = botTask.turn /\ x.branch = botTask.branch /\ x.token = o.token
  <2>1. at \in TaskStages
    BY <1>5 DEF TaskStages, WorkStages
  <2> QED BY <1>2, <1>3, <1>5, <2>1 DEF WorkerRows, TaskRows
<1>7. Busy(w) /\ botWorker[w].at = "claimed"
  BY <1>2, <1>4 DEF Busy
<1>8. turns[x.token] = "NONE"
  BY <1>3, <1>4, <1>6 DEF TaskWorkerOK
<1>9. /\ botTask' \in TaskRows /\ botTask'.kept = botTask.kept
      /\ ~outlived /\ botTask'.kept => botTask'.branch # "none"
      /\ botTask'.turn # NoTask => turns'[botTask'.turn] # "NONE"
      /\ turns' \in [Turns -> TurnStates \cup {"NONE"}]
  BY <1>4, <1>7, TaskAsBefore
<1>10. TaskWorkerOK(x)'
  <2>1. ~outlived' => ~outlived
    BY <1>4 DEF Steps
  <2> QED BY <1>4, <1>5, <1>6, <1>8, <1>9, <2>1 DEF TaskWorkerOK, TaskInv, TokensDistinct
<1> QED BY <1>2, <1>4, <1>5, <1>6, <1>7, <1>9, <1>10, TaskStepKeeps

LEMMA LinkKeeps ==
  ASSUME TaskInv, NEW w \in TaskWorkers, LinkMission(w)
  PROVE  TaskInv'
<1>1. \E o, x : o = botWorker[w] /\ x = [o EXCEPT !.turn = o.token, !.at = "start"]
  OBVIOUS
<1>2. PICK o, x : o = botWorker[w] /\ x = [o EXCEPT !.turn = o.token, !.at = "start"]
  BY <1>1
<1>3. o \in WorkerRows /\ TaskWorkerOK(o) /\ botTask \in TaskRows
  BY <1>2, RecordGoesOn DEF TaskInv, TaskTypeOK
<1>4. Busy(w) /\ botWorker[w].at = "link" /\ UNCHANGED <<botWake, claims>>
  BY DEF LinkMission, Busy
<1>5. CASE o.turn # NoTask
  <2>1. Goes(w, "start") /\ UNCHANGED <<botTask, turns>>
    BY <1>2, <1>5 DEF LinkMission
  <2>2. botWorker[w].turn \in Turns
    BY <1>2, <1>3, <1>5 DEF WorkerRows
  <2>3. "start" \in TaskStages /\ botWorker[w].at \in WorkStages
    BY <1>4 DEF TaskStages, WorkStages
  <2> QED BY <1>4, <2>1, <2>2, <2>3, TaskGoes
<1>6. CASE o.turn = NoTask
  <2>1. /\ botTask' = [botTask EXCEPT !.turn = o.token] /\ turns' = [turns EXCEPT ![o.token] = "PAUSED"] /\ Steps(w, x)
    BY <1>2, <1>6 DEF LinkMission
  <2>2. o.token \in Turns /\ turns[o.token] = "NONE"
    <3>1. o.token \in 1 .. claims /\ claims \in 0 .. MaxTaskClaims /\ MaxTaskClaims \in Nat
      BY <1>2, <1>4, BotTaskAssumption DEF TaskInv, TaskTypeOK, TokensDistinct
    <3> QED BY <1>2, <1>3, <1>4, <1>6, <3>1 DEF TaskWorkerOK, Turns
  <2>3. /\ x \in WorkerRows /\ x.at = "start" /\ x.turn = o.token /\ x.token = o.token /\ x.branch = o.branch
    BY <1>2, <1>3, <2>2 DEF WorkerRows, TaskStages, WorkStages
  <2>4. turns \in [Turns -> TurnStates \cup {"NONE"}]
    BY DEF TaskInv, TaskTypeOK
  <2>5. /\ turns' \in [Turns -> TurnStates \cup {"NONE"}] /\ turns'[o.token] = "PAUSED"
        /\ \A n \in Turns : n # o.token => turns'[n] = turns[n]
    BY <2>1, <2>2, <2>4 DEF TurnStates
  <2>6. /\ botTask' \in TaskRows /\ botTask'.turn = o.token /\ botTask'.team = botTask.team
        /\ botTask'.kept = botTask.kept /\ botTask'.branch = botTask.branch /\ botTask'.doneBy = botTask.doneBy
    BY <1>3, <2>1, <2>2 DEF TaskRows
  <2>7. ~outlived /\ botTask.kept => botTask.branch # "none"
    BY DEF TaskInv, BranchStored
  <2>8. ~outlived' /\ botTask.kept => o.branch # "none"
    BY <1>2, <1>3, <1>4, <2>1 DEF TaskWorkerOK, WorkStages, Steps, Holds
  <2>9. TaskWorkerOK(x)'
    BY <1>4, <2>2, <2>3, <2>5, <2>6, <2>8 DEF TaskWorkerOK
  <2>10. \A n \in Turns : /\ turns[n] # "NONE" => turns'[n] # "NONE"
                          /\ turns[n] = "COMPLETED" => turns'[n] = "COMPLETED"
                          /\ turns[n] = "NONE" /\ turns'[n] # "NONE" => n = x.token
    BY <2>2, <2>3, <2>5
  <2>11. /\ x.token = botWorker[w].token
         /\ botTask'.turn # NoTask => turns'[botTask'.turn] # "NONE"
    BY <1>2, <2>3, <2>5, <2>6
  <2> QED BY <1>4, <2>1, <2>3, <2>5, <2>6, <2>7, <2>9, <2>10, <2>11, TaskStepKeeps
<1> QED BY <1>5, <1>6

LEMMA ExecuteKeeps ==
  ASSUME TaskInv, NEW w \in TaskWorkers, NEW state \in TurnStates, NEW branch \in Branches, ExecuteTurn(w, state, branch)
  PROVE  TaskInv'
<1>1. \E o, x : o = botWorker[w] /\ x = [o EXCEPT !.at = "checkpoint", !.branch = branch]
  OBVIOUS
<1>2. PICK o, x : o = botWorker[w] /\ x = [o EXCEPT !.at = "checkpoint", !.branch = branch]
  BY <1>1
<1>3. o \in WorkerRows /\ TaskWorkerOK(o) /\ botTask \in TaskRows
  BY <1>2, RecordGoesOn DEF TaskInv, TaskTypeOK
<1>4. /\ Busy(w) /\ o.at = "execute" /\ o.branch # "incomplete" /\ UNCHANGED <<botWake, claims>> /\ Steps(w, x)
      /\ turns[o.turn] \in {"COMPLETED", "BLOCKED", "FAILED"} => state = turns[o.turn]
      /\ o.branch = "complete" => branch = o.branch
      /\ turns' = [turns EXCEPT ![o.turn] = state]
      /\ botTask' = botTask
  BY <1>2 DEF ExecuteTurn, Busy
<1>5. /\ x \in WorkerRows /\ x.at = "checkpoint" /\ x.branch = branch /\ x.turn = o.turn /\ x.token = o.token
  BY <1>2, <1>3 DEF WorkerRows, TaskStages, WorkStages
<1>6. o.turn \in Turns /\ turns[o.turn] # "NONE" /\ turns \in [Turns -> TurnStates \cup {"NONE"}]
  BY <1>3, <1>4, BotTaskAssumption DEF TaskWorkerOK, TaskInv, TaskTypeOK, Turns
<1>7. /\ turns' \in [Turns -> TurnStates \cup {"NONE"}] /\ turns'[o.turn] = state /\ state # "NONE"
      /\ \A n \in Turns : n # o.turn => turns'[n] = turns[n]
  BY <1>4, <1>6 DEF TurnStates
<1>8. ~outlived' /\ botTask.kept => branch # "none"
  <2>1. ~outlived' /\ botTask.kept => o.branch # "none"
    BY <1>2, <1>3, <1>4 DEF TaskWorkerOK, WorkStages, Steps, Holds
  <2> QED BY <1>3, <1>4, <2>1 DEF WorkerRows, Branches
<1>9. ~outlived /\ botTask.kept => botTask.branch # "none"
  BY DEF TaskInv, BranchStored
<1>13. TaskWorkerOK(x)'
  BY <1>4, <1>5, <1>6, <1>7, <1>8 DEF TaskWorkerOK
<1>14. \A n \in Turns : /\ turns[n] # "NONE" => turns'[n] # "NONE"
                        /\ turns[n] = "COMPLETED" => turns'[n] = "COMPLETED"
                        /\ turns[n] = "NONE" /\ turns'[n] # "NONE" => n = x.token
  BY <1>4, <1>6, <1>7
<1>15. botTask'.turn # NoTask => turns'[botTask'.turn] # "NONE"
  <2>1. botTask.turn # NoTask => botTask.turn \in Turns /\ turns[botTask.turn] # "NONE"
    BY <1>3 DEF TaskRows, TaskInv, TokensDistinct
  <2> QED BY <1>4, <1>14, <2>1
<1>16. x.token = botWorker[w].token
  BY <1>2, <1>5
<1> QED BY <1>3, <1>4, <1>5, <1>7, <1>9, <1>13, <1>14, <1>15, <1>16, TaskStepKeeps

LEMMA SaveKeeps ==
  ASSUME TaskInv, NEW w \in TaskWorkers, NEW drift \in BOOLEAN, SaveTaskCheckpoint(w, drift)
  PROVE  TaskInv'
<1> DEFINE at == IF drift THEN "error" ELSE "outcome"
<1>1. \E o, x : o = botWorker[w] /\ x = [o EXCEPT !.at = at]
  OBVIOUS
<1>2. PICK o, x : o = botWorker[w] /\ x = [o EXCEPT !.at = at]
  BY <1>1
<1>3. o \in WorkerRows /\ TaskWorkerOK(o) /\ botTask \in TaskRows
  BY <1>2, RecordGoesOn DEF TaskInv, TaskTypeOK
<1>4. /\ Busy(w) /\ o.at = "checkpoint" /\ UNCHANGED <<botWake, claims, turns>> /\ Steps(w, x)
      /\ botTask' = [botTask EXCEPT !.branch = o.branch, !.kept = botTask.kept \/ o.branch # "none"]
  BY <1>2 DEF SaveTaskCheckpoint, Goes, Busy
<1>5. at \in {"error", "outcome"}
  OBVIOUS
<1> HIDE DEF at
<1>6. /\ x \in WorkerRows /\ x.at = at /\ x.branch = o.branch /\ x.turn = o.turn /\ x.token = o.token
  BY <1>2, <1>3, <1>5 DEF WorkerRows, TaskStages, WorkStages
<1> DEFINE kept == botTask.kept \/ o.branch # "none"
<1>7. kept \in BOOLEAN /\ botTask' = [botTask EXCEPT !.branch = o.branch, !.kept = kept]
  BY <1>3, <1>4 DEF TaskRows
<1>12. ~outlived' /\ kept => o.branch # "none"
  BY <1>2, <1>3, <1>4 DEF TaskWorkerOK, WorkStages, Steps, Holds
<1> HIDE DEF kept
<1>13. /\ botTask' \in TaskRows /\ botTask'.turn = botTask.turn /\ botTask'.team = botTask.team
       /\ botTask'.kept = kept /\ botTask'.branch = o.branch /\ botTask'.doneBy = botTask.doneBy
  BY <1>3, <1>7 DEF TaskRows, WorkerRows
<1>8. /\ o.turn \in Turns /\ turns[o.turn] # "NONE"
      /\ ~outlived /\ Holds(w) /\ kept => o.branch # "none"
  <2>1. o.turn \in Turns
    BY <1>3, <1>4 DEF TaskWorkerOK
  <2>2. turns[o.turn] # "NONE"
    BY <1>3, <2>1, BotTaskAssumption DEF TaskWorkerOK, Turns
  <2> QED BY <1>4, <1>12, <2>1, <2>2 DEF Steps
<1>9. TaskWorkerOK(x)'
  BY <1>4, <1>5, <1>6, <1>8, <1>12, <1>13 DEF TaskWorkerOK
<1>10. /\ turns' \in [Turns -> TurnStates \cup {"NONE"}]
       /\ botTask'.turn # NoTask => turns'[botTask'.turn] # "NONE"
  BY <1>4, <1>13 DEF TaskInv, TokensDistinct, TaskTypeOK
<1>11. x.token = botWorker[w].token /\ x.at \notin {"idle", "reset", "ack"}
  BY <1>2, <1>4, <1>5, <1>6
<1> QED BY <1>4, <1>6, <1>8, <1>9, <1>10, <1>11, <1>13, TaskStepKeeps

LEMMA ReviewKeeps ==
  ASSUME TaskInv, NEW w \in TaskWorkers, NEW verdict \in {"PASS", "BLOCK", "INCOMPLETE"}, ReviewEnds(w, verdict)
  PROVE  TaskInv'
<1> DEFINE at == CASE verdict = "PASS" -> "deliver" [] verdict = "BLOCK" -> "ack" [] OTHER -> "error"
           passed == verdict = "PASS"
<1>1. \E o, x : o = botWorker[w] /\ x = [o EXCEPT !.reviewed = passed, !.at = at]
  OBVIOUS
<1>2. PICK o, x : o = botWorker[w] /\ x = [o EXCEPT !.reviewed = passed, !.at = at]
  BY <1>1
<1>3. o \in WorkerRows /\ TaskWorkerOK(o) /\ botTask \in TaskRows
  BY <1>2, RecordGoesOn DEF TaskInv, TaskTypeOK
<1>4. /\ Busy(w) /\ o.at = "verdict" /\ UNCHANGED <<botWake, claims, turns>> /\ Steps(w, x)
      /\ IF verdict = "BLOCK" THEN UpdateTask("blocked") ELSE UNCHANGED botTask
  BY <1>2 DEF ReviewEnds, Busy
<1>5. at \in {"deliver", "ack", "error"} /\ passed \in BOOLEAN /\ (at = "deliver" => passed) /\ (at = "ack" => verdict = "BLOCK")
  OBVIOUS
<1> HIDE DEF at, passed
<1>6. /\ x \in WorkerRows /\ x.at = at /\ x.branch = o.branch /\ x.turn = o.turn /\ x.token = o.token /\ x.reviewed = passed
  BY <1>2, <1>3, <1>5 DEF WorkerRows, TaskStages, WorkStages
<1>7. botTask' = botTask \/ \E status \in TaskStatuses : UpdateTask(status)
  BY <1>4 DEF TaskStatuses, Finished
<1>8. /\ botTask' \in TaskRows /\ botTask'.team = botTask.team
      /\ botTask'.kept = botTask.kept /\ botTask'.doneBy = botTask.doneBy
      /\ ~outlived /\ botTask'.kept => botTask'.branch # "none"
      /\ botTask'.turn # NoTask => turns'[botTask'.turn] # "NONE"
      /\ turns' \in [Turns -> TurnStates \cup {"NONE"}]
  BY <1>2, <1>4, <1>7, TaskAsBefore
<1>9. at = "ack" => botTask'.status \in Finished
  BY <1>3, <1>4, <1>5 DEF UpdateTask, TaskRows, Finished
<1>10. TaskWorkerOK(x)'
  <2>1. /\ o.turn \in Turns /\ turns[o.turn] = "COMPLETED"
        /\ ~outlived' /\ botTask.kept => o.branch # "none"
    BY <1>2, <1>3, <1>4 DEF TaskWorkerOK, WorkStages, Steps, Holds
  <2> QED BY <1>4, <1>5, <1>6, <1>8, <2>1 DEF TaskWorkerOK
<1>11. x.token = botWorker[w].token /\ x.at \notin {"idle", "reset"}
  BY <1>2, <1>4, <1>5, <1>6
<1> QED BY <1>4, <1>6, <1>8, <1>9, <1>10, <1>11, TaskStepKeeps

LEMMA DeliverKeeps ==
  ASSUME TaskInv, NEW w \in TaskWorkers, NEW ok \in BOOLEAN, DeliverTask(w, ok)
  PROVE  TaskInv'
<1> DEFINE at == IF ok THEN "finish" ELSE "error"
<1>1. \E o, x : o = botWorker[w] /\ x = [o EXCEPT !.delivered = ok, !.at = at]
  OBVIOUS
<1>2. PICK o, x : o = botWorker[w] /\ x = [o EXCEPT !.delivered = ok, !.at = at]
  BY <1>1
<1>3. o \in WorkerRows /\ TaskWorkerOK(o) /\ botTask \in TaskRows
  BY <1>2, RecordGoesOn DEF TaskInv, TaskTypeOK
<1>4. /\ Busy(w) /\ o.at = "deliver" /\ botWorker[w].at = "deliver" /\ UNCHANGED <<botTask, botWake, claims, turns>>
  BY <1>2 DEF DeliverTask, Busy
<1>5. /\ o.turn \in Turns /\ turns[o.turn] = "COMPLETED"
      /\ botTask.team.review => o.reviewed
      /\ ~outlived /\ Holds(w) /\ botTask.kept => o.branch # "none"
  BY <1>2, <1>3, <1>4 DEF TaskWorkerOK, WorkStages, Holds
<1>6. CASE o.writes /\ o.branch # "none"
  <2>1. Steps(w, x)
    BY <1>2, <1>6 DEF DeliverTask
  <2>2. at \in {"finish", "error"} /\ (at = "finish" => ok = TRUE)
    OBVIOUS
  <2> HIDE DEF at
  <2>3. /\ x \in WorkerRows /\ x.at = at /\ x.branch = o.branch /\ x.turn = o.turn /\ x.token = o.token
        /\ x.reviewed = o.reviewed /\ x.delivered = ok
    BY <1>2, <1>3, <2>2 DEF WorkerRows, TaskStages, WorkStages
  <2>4. /\ botTask' \in TaskRows /\ botTask'.kept = botTask.kept
        /\ ~outlived /\ botTask'.kept => botTask'.branch # "none"
        /\ botTask'.turn # NoTask => turns'[botTask'.turn] # "NONE"
        /\ turns' \in [Turns -> TurnStates \cup {"NONE"}]
    BY <1>4, TaskAsBefore
  <2>5. TaskWorkerOK(x)'
    BY <1>4, <1>5, <2>2, <2>3 DEF TaskWorkerOK, WorkStages
  <2>6. x.token = botWorker[w].token /\ x.at \notin {"idle", "reset", "ack"}
    BY <1>2, <2>2, <2>3
  <2> QED BY <1>4, <2>1, <2>3, <2>4, <2>5, <2>6, TaskStepKeeps
<1>7. CASE ~(o.writes /\ o.branch # "none")
  <2>1. Goes(w, "finish")
    BY <1>2, <1>7 DEF DeliverTask
  <2>2. ~outlived /\ Holds(w) /\ botTask.kept => ~o.writes
    BY <1>5, <1>7
  <2>3. "finish" \in TaskStages
    BY DEF TaskStages
  <2> QED BY <1>2, <1>4, <1>5, <2>1, <2>2, <2>3, TaskGoes DEF WorkStages
<1> QED BY <1>6, <1>7

LEMMA FinishKeeps ==
  ASSUME TaskInv, NEW w \in TaskWorkers, FinishTask(w)
  PROVE  TaskInv'
<1>1. \E o, i, x : /\ o = botWorker[w] /\ i = WorkerIdle
                   /\ x = [i EXCEPT !.at = "ack", !.token = o.token, !.attempt = o.attempt]
  OBVIOUS
<1>2. PICK o, i, x : /\ o = botWorker[w] /\ i = WorkerIdle
                     /\ x = [i EXCEPT !.at = "ack", !.token = o.token, !.attempt = o.attempt]
  BY <1>1
<1>3. /\ o \in WorkerRows /\ TaskWorkerOK(o) /\ botTask \in TaskRows
      /\ i \in WorkerRows /\ i.turn = NoTask /\ i.branch = "none"
  BY <1>2, RecordGoesOn, IdleRow DEF TaskInv, TaskTypeOK
<1>4. /\ Busy(w) /\ o.at = "finish" /\ UNCHANGED <<botWake, claims, turns>> /\ Steps(w, x)
  BY <1>2 DEF FinishTask, Leaves, Busy
<1>5. /\ x \in WorkerRows /\ x.at = "ack" /\ x.turn = NoTask /\ x.branch = "none" /\ x.token = o.token
  BY <1>2, <1>3 DEF WorkerRows, TaskStages
<1>6. /\ o.turn \in Turns /\ turns[o.turn] = "COMPLETED"
      /\ botTask.team.review => o.reviewed
      /\ ~outlived /\ Holds(w) /\ botTask.kept /\ o.writes => o.delivered
      /\ ~outlived /\ botTask.kept => botTask.branch # "none"
  BY <1>2, <1>3, <1>4 DEF TaskWorkerOK, Holds, TaskInv, BranchStored
<1>7. \E done : done = [turn |-> o.turn, writes |-> o.writes, reviewed |-> o.reviewed, delivered |-> o.delivered, kept |-> botTask.kept]
  OBVIOUS
<1>8. PICK done : done = [turn |-> o.turn, writes |-> o.writes, reviewed |-> o.reviewed, delivered |-> o.delivered, kept |-> botTask.kept]
  BY <1>7
<1>9. /\ done \in Reports
      /\ done.turn = o.turn /\ done.reviewed = o.reviewed /\ done.delivered = o.delivered
      /\ done.writes = o.writes /\ done.kept = botTask.kept
  BY <1>3, <1>6, <1>8 DEF WorkerRows, TaskRows, Reports
<1>10. botTask' = [botTask EXCEPT !.status = "done", !.doneBy = done]
  BY <1>2, <1>8 DEF FinishTask
<1>11. /\ botTask' \in TaskRows /\ botTask'.turn = botTask.turn /\ botTask'.team = botTask.team
       /\ botTask'.kept = botTask.kept /\ botTask'.branch = botTask.branch /\ botTask'.doneBy = done /\ botTask'.status = "done"
  BY <1>3, <1>9, <1>10 DEF TaskRows, TaskStatuses, Finished
<1>12. /\ botTask.turn # NoTask => turns[botTask.turn] # "NONE"
       /\ turns \in [Turns -> TurnStates \cup {"NONE"}]
  BY DEF TaskInv, TokensDistinct, TaskTypeOK
<1>13. TaskWorkerOK(x)'
  BY <1>5 DEF TaskWorkerOK, WorkStages
<1>14. x.token = botWorker[w].token /\ botTask'.status \in Finished
  BY <1>2, <1>4, <1>5, <1>11 DEF Finished
<1> QED BY <1>4, <1>5, <1>6, <1>9, <1>11, <1>12, <1>13, <1>14, TaskStepKeeps

\* A worker settles its wake-up or is gone: the row is freed or deleted by its holder only.
LEMMA QueueStepKeeps ==
  ASSUME TaskInv, NEW w \in TaskWorkers, NEW r \in WorkerRows, botWorker' = [botWorker EXCEPT ![w] = r],
         UNCHANGED <<botTask, turns, claims, outlived>>, botWorker[w].at # "idle",
         r = WorkerIdle \/ (r.at \in {"reset", "error"} /\ r.token = botWorker[w].token),
         TaskWorkerOK(r),
         botWake' \in [present : BOOLEAN, token : 0 .. MaxTaskClaims, lapsed : BOOLEAN, attempts : Nat],
         botWake'.token # botWake.token => botWake'.token = 0 /\ Holds(w) /\ botWorker[w].at \in {"retry", "resume"},
         botWake'.present # botWake.present => ~botWake'.present /\ Holds(w) /\ botWorker[w].at = "ack"
  PROVE  TaskInv'
<1>1. \A v \in TaskWorkers : botWorker'[v] = IF v = w THEN r ELSE botWorker[v]
  BY DEF TaskInv, TaskTypeOK
<1>2. TaskTypeOK'
  BY DEF TaskInv, TaskTypeOK
<1>3. r.at \in {"idle", "reset", "error"} /\ (r.at = "idle" => r = WorkerIdle)
  BY IdleRow
<1>4. TokensDistinct'
  <2>1. claims \in Nat /\ botWake.token <= claims /\ botWorker[w].token \in 1 .. claims
    BY BotTaskAssumption DEF TaskInv, TaskTypeOK, TokensDistinct
  <2>2. \A v \in TaskWorkers : IF botWorker'[v].at = "idle" THEN botWorker'[v] = WorkerIdle ELSE botWorker'[v].token \in 1 .. claims
    BY <1>1, <1>3, <2>1, IdleRow DEF TaskInv, TokensDistinct
  <2>3. \A u, v \in TaskWorkers : u # v /\ botWorker'[u].at # "idle" => botWorker'[u].token # botWorker'[v].token
    <3> SUFFICES ASSUME NEW u \in TaskWorkers, NEW v \in TaskWorkers, u # v, botWorker'[u].at # "idle"
                 PROVE  botWorker'[u].token # botWorker'[v].token
      OBVIOUS
    <3>1. botWorker'[u].token \in 1 .. claims
      BY <2>2
    <3>2. /\ u = w => r.at # "idle" /\ r.token = botWorker[w].token
          /\ u # w => botWorker[u].at # "idle"
          /\ botWorker'[u].token = botWorker[u].token
      BY <1>1, <1>3, IdleRow
    <3>3. botWorker'[v].token = botWorker[v].token \/ botWorker'[v] = WorkerIdle
      BY <1>1
    <3>4. WorkerIdle.token = 0
      BY DEF WorkerIdle
    <3>5. botWorker[u].token # botWorker[v].token
      BY <3>2 DEF TaskInv, TokensDistinct
    <3> QED BY <3>1, <3>2, <3>3, <3>4, <3>5
  <2> QED BY <2>1, <2>2, <2>3 DEF TaskInv, TokensDistinct
<1>5. WorkersOK'
  <2> SUFFICES ASSUME NEW v \in TaskWorkers PROVE TaskWorkerOK(botWorker[v])'
    BY DEF WorkersOK
  <2>1. \E x : x = botWorker'[v]
    OBVIOUS
  <2>2. PICK x : x = botWorker'[v]
    BY <2>1
  <2>3. TaskWorkerOK(x)
    BY <1>1, <2>2 DEF TaskInv, WorkersOK
  <2>4. botWake'.present /\ botWake'.token = x.token /\ x.at # "idle" => botWake.present /\ botWake.token = x.token
    <3>1. x.at # "idle" => x.token # 0
      BY <1>4, <2>2 DEF TokensDistinct
    <3> QED BY <3>1
  <2> QED BY <2>2, <2>3, <2>4 DEF TaskWorkerOK, WorkStages
<1>8. BranchStored'
  BY DEF TaskInv, BranchStored
<1>9. DoneIsChecked'
  BY DEF TaskInv, DoneIsChecked
<1>10. AckIsFinal'
  <2> SUFFICES ASSUME ~outlived, NEW v \in TaskWorkers, botWorker'[v].at = "ack", Holds(v)' PROVE botTask.status \in Finished
    BY DEF AckIsFinal
  <2>1. v # w /\ botWorker'[v] = botWorker[v] /\ botWorker[v].at = "ack"
    BY <1>1, <1>3
  <2>2. botWake'.present /\ botWake'.token = botWorker[v].token /\ botWorker[v].token # 0
    BY <2>1 DEF Holds, TaskInv, TokensDistinct
  <2>3. botWake.present
    <3>1. botWake'.present = botWake.present \/ ~botWake'.present
      OBVIOUS
    <3> QED BY <2>2, <3>1
  <2>4. botWake.token = botWorker[v].token
    BY <2>2
  <2> QED BY <2>1, <2>3, <2>4 DEF Holds, TaskInv, AckIsFinal
<1>11. TaskKeepsWake'
  <2> SUFFICES ASSUME ~outlived, botTask.status \notin Finished PROVE botWake'.present
    BY DEF TaskKeepsWake
  <2>1. botWake.present
    BY DEF TaskInv, TaskKeepsWake
  <2>2. ~(botWorker[w].at = "ack" /\ Holds(w))
    BY DEF TaskInv, AckIsFinal
  <2> QED BY <2>1, <2>2
<1> QED BY <1>2, <1>4, <1>5, <1>8, <1>9, <1>10, <1>11 DEF TaskInv

LEMMA SettleKeeps ==
  ASSUME TaskInv, NEW w \in TaskWorkers, \/ \E answered \in BOOLEAN : AckTask(w, answered)
                                   \/ RetryTask(w) \/ ResetAttempts(w) \/ WorkerDies(w)
  PROVE  TaskInv'
<1>1. \E o, i, x, y : o = botWorker[w] /\ i = WorkerIdle /\ x = [o EXCEPT !.at = "reset"] /\ y = [o EXCEPT !.at = "error"]
  OBVIOUS
<1>2. PICK o, i, x, y : o = botWorker[w] /\ i = WorkerIdle /\ x = [o EXCEPT !.at = "reset"] /\ y = [o EXCEPT !.at = "error"]
  BY <1>1
<1>3. /\ o \in WorkerRows /\ TaskWorkerOK(o) /\ i \in WorkerRows /\ i.turn = NoTask /\ i.branch = "none" /\ i.at = "idle"
      /\ botWake \in [present : BOOLEAN, token : 0 .. MaxTaskClaims, lapsed : BOOLEAN, attempts : Nat]
  BY <1>2, RecordGoesOn, IdleRow DEF TaskInv, TaskTypeOK
<1>4. TaskWorkerOK(i)
  BY <1>3 DEF TaskWorkerOK, WorkStages
<1>5. /\ x \in WorkerRows /\ x.at = "reset" /\ x.token = o.token /\ TaskWorkerOK(x)
      /\ y \in WorkerRows /\ y.at = "error" /\ y.token = o.token /\ TaskWorkerOK(y)
  <2>1. /\ x \in WorkerRows /\ x.at = "reset" /\ x.token = o.token /\ x.turn = o.turn /\ x.branch = o.branch
        /\ y \in WorkerRows /\ y.at = "error" /\ y.token = o.token /\ y.turn = o.turn /\ y.branch = o.branch
    BY <1>2, <1>3 DEF WorkerRows, TaskStages
  <2> QED BY <1>3, <2>1 DEF TaskWorkerOK, WorkStages
<1>6. ASSUME NEW answered \in BOOLEAN, AckTask(w, answered) PROVE TaskInv'
  <2>1. /\ botWorker' = [botWorker EXCEPT ![w] = i] \/ botWorker' = [botWorker EXCEPT ![w] = y]
        /\ UNCHANGED <<botTask, turns, claims, outlived>>
        /\ botWorker[w].at = "ack" /\ botWake' = IF Holds(w) THEN [botWake EXCEPT !.present = FALSE] ELSE botWake
    BY <1>2, <1>6 DEF AckTask, TaskInv, TaskTypeOK
  <2>2. /\ botWake' \in [present : BOOLEAN, token : 0 .. MaxTaskClaims, lapsed : BOOLEAN, attempts : Nat]
        /\ botWake'.token = botWake.token /\ (botWake'.present # botWake.present => ~botWake'.present /\ Holds(w))
    BY <1>3, <2>1
  <2> QED BY <1>2, <1>3, <1>4, <1>5, <2>1, <2>2, QueueStepKeeps
<1>7. CASE RetryTask(w)
  <2>1. /\ UNCHANGED <<botTask, turns, claims, outlived>> /\ botWorker[w].at \in {"retry", "resume"}
        /\ botWake' = IF Holds(w) THEN [botWake EXCEPT !.token = 0, !.lapsed = FALSE] ELSE botWake
        /\ botWorker' = [botWorker EXCEPT ![w] = i] \/ botWorker' = [botWorker EXCEPT ![w] = x]
    BY <1>2, <1>7 DEF RetryTask, TaskInv, TaskTypeOK
  <2>2. /\ botWake' \in [present : BOOLEAN, token : 0 .. MaxTaskClaims, lapsed : BOOLEAN, attempts : Nat]
        /\ botWake'.present = botWake.present /\ (botWake'.token # botWake.token => botWake'.token = 0 /\ Holds(w))
    <3>1. 0 \in 0 .. MaxTaskClaims /\ (botWake' = botWake \/ (Holds(w) /\ botWake' = [botWake EXCEPT !.token = 0, !.lapsed = FALSE]))
      BY <2>1, BotTaskAssumption
    <3> QED BY <1>3, <3>1
  <2> QED BY <1>2, <1>3, <1>4, <1>5, <2>1, <2>2, QueueStepKeeps
<1>8. CASE ResetAttempts(w)
  <2>1. /\ botWorker' = [botWorker EXCEPT ![w] = i] /\ UNCHANGED <<botTask, turns, claims, outlived>>
        /\ botWorker[w].at = "reset"
        /\ botWake' = IF botWake.present /\ botWake.token = 0 THEN [botWake EXCEPT !.attempts = 0] ELSE botWake
    BY <1>2, <1>8 DEF ResetAttempts
  <2>2. /\ botWake' \in [present : BOOLEAN, token : 0 .. MaxTaskClaims, lapsed : BOOLEAN, attempts : Nat]
        /\ botWake'.token = botWake.token /\ botWake'.present = botWake.present
    BY <1>3, <2>1
  <2> QED BY <1>2, <1>3, <1>4, <2>1, <2>2, QueueStepKeeps
<1>9. CASE WorkerDies(w)
  <2>1. /\ botWorker' = [botWorker EXCEPT ![w] = i] /\ UNCHANGED <<botTask, botWake, turns, claims, outlived>>
        /\ botWorker[w].at # "idle"
    BY <1>2, <1>9 DEF WorkerDies
  <2> QED BY <1>2, <1>3, <1>4, <2>1, QueueStepKeeps
<1> QED BY <1>6, <1>7, <1>8, <1>9

LEMMA ClaimKeeps ==
  ASSUME TaskInv, NEW w \in TaskWorkers, ClaimTask(w)
  PROVE  TaskInv'
<1>1. \E i, n, k, x : /\ i = WorkerIdle /\ n = claims + 1 /\ k = botWake.attempts + 1
                      /\ x = [i EXCEPT !.at = "claimed", !.token = n, !.attempt = k]
  OBVIOUS
<1>2. PICK i, n, k, x : /\ i = WorkerIdle /\ n = claims + 1 /\ k = botWake.attempts + 1
                        /\ x = [i EXCEPT !.at = "claimed", !.token = n, !.attempt = k]
  BY <1>1
<1>3. /\ claims \in Nat /\ claims < MaxTaskClaims /\ MaxTaskClaims \in Nat /\ n \in 1 .. MaxTaskClaims /\ n \in Turns
      /\ k \in Nat /\ n \in 0 .. MaxTaskClaims
      /\ botWake \in [present : BOOLEAN, token : 0 .. MaxTaskClaims, lapsed : BOOLEAN, attempts : Nat]
      /\ i \in WorkerRows /\ i.turn = NoTask /\ i.branch = "none" /\ i.at = "idle"
  BY <1>2, IdleRow, BotTaskAssumption DEF ClaimTask, TaskInv, TaskTypeOK, Turns
<1>4. x \in WorkerRows /\ x.at = "claimed" /\ x.token = n /\ x.turn = NoTask /\ x.branch = "none"
  <2>1. "claimed" \in TaskStages
    BY DEF TaskStages
  <2> QED BY <1>2, <1>3, <2>1 DEF WorkerRows
<1>5. /\ claims' = n /\ botWake.present /\ UNCHANGED <<botTask, turns, outlived>> /\ botWorker[w].at = "idle"
      /\ botWake' = [botWake EXCEPT !.token = n, !.lapsed = FALSE, !.attempts = k]
      /\ botWorker' = [botWorker EXCEPT ![w] = x]
  BY <1>2 DEF ClaimTask
<1>6. \A v \in TaskWorkers : botWorker'[v] = IF v = w THEN x ELSE botWorker[v]
  BY <1>5 DEF TaskInv, TaskTypeOK
<1>7. botWake' \in [present : BOOLEAN, token : 0 .. MaxTaskClaims, lapsed : BOOLEAN, attempts : Nat] /\ botWake'.token = n /\ botWake'.present
  BY <1>3, <1>5
<1>8. TaskTypeOK'
  <2>2. n \in 0 .. MaxTaskClaims
    BY <1>3
  <2> QED BY <1>4, <1>5, <1>7, <2>2 DEF TaskInv, TaskTypeOK
<1>9. TokensDistinct'
  <2>1. \A v \in TaskWorkers : v # w => IF botWorker[v].at = "idle" THEN botWorker[v] = WorkerIdle /\ botWorker[v].token = 0
                                                                    ELSE botWorker[v].token \in 1 .. claims
    BY IdleRow DEF TaskInv, TokensDistinct
  <2>2. \A v \in TaskWorkers : IF botWorker'[v].at = "idle" THEN botWorker'[v] = WorkerIdle ELSE botWorker'[v].token \in 1 .. n
    <3>1. n \in 1 .. n /\ 1 .. claims \subseteq 1 .. n
      BY <1>2, <1>3
    <3>2. botWorker'[w].at # "idle" /\ botWorker'[w].token = n
      BY <1>4, <1>6
    <3> QED BY <1>6, <2>1, <3>1, <3>2
  <2>3. \A u, v \in TaskWorkers : u # v /\ botWorker'[u].at # "idle" => botWorker'[u].token # botWorker'[v].token
    <3> SUFFICES ASSUME NEW u \in TaskWorkers, NEW v \in TaskWorkers, u # v, botWorker'[u].at # "idle"
                 PROVE  botWorker'[u].token # botWorker'[v].token
      OBVIOUS
    <3>1. \A y \in TaskWorkers : y # w => botWorker'[y] = botWorker[y] /\ botWorker[y].token # n
      <4>1. n \notin 1 .. claims /\ n # 0
        BY <1>2, <1>3
      <4> QED BY <1>6, <2>1, <4>1
    <3>2. botWorker'[w].token = n
      BY <1>4, <1>6
    <3> QED BY <3>1, <3>2 DEF TaskInv, TokensDistinct
  <2>4. \A m \in Turns : m > n => turns[m] = "NONE"
    BY <1>2, <1>3 DEF TaskInv, TokensDistinct, Turns
  <2>5. n <= n
    BY <1>3
  <2> QED BY <1>5, <1>7, <2>2, <2>3, <2>4, <2>5 DEF TaskInv, TokensDistinct
<1>10. WorkersOK'
  <2> SUFFICES ASSUME NEW v \in TaskWorkers PROVE TaskWorkerOK(botWorker[v])'
    BY DEF WorkersOK
  <2>1. \E y : y = botWorker'[v]
    OBVIOUS
  <2>2. PICK y : y = botWorker'[v]
    BY <2>1
  <2>3. turns[n] = "NONE"
    BY <1>2, <1>3 DEF TaskInv, TokensDistinct
  <2>4. CASE v = w
    BY <1>4, <1>5, <1>6, <2>2, <2>3, <2>4 DEF TaskWorkerOK, WorkStages
  <2>5. CASE v # w
    <3>1. TaskWorkerOK(y) /\ (y.at # "idle" => y.token \in 1 .. claims)
      BY <1>6, <2>2, <2>5 DEF TaskInv, WorkersOK, TokensDistinct
    <3>2. y.at # "idle" => y.token # n
      BY <1>2, <1>3, <3>1
    <3> QED BY <1>5, <1>7, <2>2, <3>1, <3>2 DEF TaskWorkerOK, WorkStages
  <2> QED BY <2>4, <2>5
<1>11. BranchStored'
  BY <1>5 DEF TaskInv, BranchStored
<1>12. DoneIsChecked'
  BY <1>5 DEF TaskInv, DoneIsChecked
<1>13. AckIsFinal'
  <2> SUFFICES ASSUME NEW v \in TaskWorkers, botWorker'[v].at = "ack", Holds(v)' PROVE FALSE
    BY DEF AckIsFinal
  <2>1. v # w /\ botWorker[v].token = n /\ botWorker[v].at = "ack"
    BY <1>4, <1>6, <1>7 DEF Holds
  <2>2. botWorker[v].token \in 1 .. claims
    BY <2>1 DEF TaskInv, TokensDistinct
  <2> QED BY <1>2, <1>3, <2>1, <2>2
<1>14. TaskKeepsWake'
  BY <1>7 DEF TaskKeepsWake
<1> QED BY <1>8, <1>9, <1>10, <1>11, <1>12, <1>13, <1>14 DEF TaskInv

LEMMA OutsideKeeps ==
  ASSUME TaskInv, LeaseRunsOut \/ CancelReads \/ CancelWrites
  PROVE  TaskInv'
<1>1. botTask \in TaskRows /\ botWake \in [present : BOOLEAN, token : 0 .. MaxTaskClaims, lapsed : BOOLEAN, attempts : Nat]
  BY DEF TaskInv, TaskTypeOK
<1>2. /\ UNCHANGED <<botWorker, turns, claims, outlived>>
      /\ botTask' = botTask \/ botTask' = [botTask EXCEPT !.status = "cancelled"]
      /\ botWake' = botWake \/ botWake' = [botWake EXCEPT !.lapsed = TRUE]
  BY DEF LeaseRunsOut, CancelReads, CancelWrites, UpdateTask
<1>3. /\ botTask' \in TaskRows /\ botTask'.turn = botTask.turn /\ botTask'.branch = botTask.branch /\ botTask'.kept = botTask.kept
      /\ botTask'.team = botTask.team /\ botTask'.writes = botTask.writes /\ botTask'.doneBy = botTask.doneBy
      /\ botTask'.status = botTask.status \/ botTask'.status \in Finished
  BY <1>1, <1>2 DEF TaskRows, TaskStatuses, Finished
<1>4. /\ botWake' \in [present : BOOLEAN, token : 0 .. MaxTaskClaims, lapsed : BOOLEAN, attempts : Nat]
      /\ botWake'.present = botWake.present /\ botWake'.token = botWake.token
  BY <1>1, <1>2
<1>5. TaskTypeOK'
  BY <1>2, <1>3, <1>4 DEF TaskInv, TaskTypeOK
<1>6. TokensDistinct'
  BY <1>2, <1>3, <1>4 DEF TaskInv, TokensDistinct
<1>7. WorkersOK'
  <2> SUFFICES ASSUME NEW v \in TaskWorkers PROVE TaskWorkerOK(botWorker[v])'
    BY DEF WorkersOK
  <2>1. \E y : y = botWorker[v]
    OBVIOUS
  <2>2. PICK y : y = botWorker[v]
    BY <2>1
  <2>3. TaskWorkerOK(y) /\ botWorker'[v] = y
    BY <1>2, <2>2 DEF TaskInv, WorkersOK
  <2> QED BY <1>2, <1>3, <1>4, <2>3 DEF TaskWorkerOK
<1>8. \A v \in TaskWorkers : Busy(v)' = Busy(v) /\ Holds(v)' = Holds(v) /\ botWorker'[v] = botWorker[v]
  BY <1>2, <1>4 DEF Busy, Holds
<1>9. BranchStored'
  BY <1>2, <1>3 DEF TaskInv, BranchStored
<1>10. DoneIsChecked'
  BY <1>2, <1>3 DEF TaskInv, DoneIsChecked
<1>11. AckIsFinal' /\ TaskKeepsWake'
  BY <1>2, <1>3, <1>4, <1>8 DEF TaskInv, AckIsFinal, TaskKeepsWake
<1> QED BY <1>5, <1>6, <1>7, <1>9, <1>10, <1>11 DEF TaskInv

LEMMA TaskInitOK ==
  ASSUME BotTaskInit
  PROVE  TaskInv
<1>1. \A w \in TaskWorkers : botWorker[w] = WorkerIdle
  BY DEF BotTaskInit
<1>2. botTask \in TaskRows /\ botTask.turn = NoTask /\ botTask.doneBy = NoTask /\ ~botTask.kept
  <2>1. PICK team \in TaskTeams, writes \in BOOLEAN :
          botTask = [status |-> "queued", turn |-> NoTask, branch |-> "none", kept |-> FALSE,
                     team |-> team, writes |-> writes, doneBy |-> NoTask]
    BY DEF BotTaskInit
  <2>2. team \in Teams
    BY BotTaskAssumption
  <2> QED BY <2>1, <2>2 DEF TaskRows, TaskStatuses, Branches
<1>3. TaskTypeOK
  <2>1. 0 \in 0 .. MaxTaskClaims
    BY BotTaskAssumption
  <2>2. botWake \in [present : BOOLEAN, token : 0 .. MaxTaskClaims, lapsed : BOOLEAN, attempts : Nat]
    BY <2>1 DEF BotTaskInit
  <2>3. botWorker \in [TaskWorkers -> WorkerRows]
    BY IdleRow DEF BotTaskInit
  <2> QED BY <1>2, <2>1, <2>2, <2>3 DEF BotTaskInit, TaskTypeOK, Turns
<1>4. TokensDistinct
  BY <1>1, <1>2, IdleRow, BotTaskAssumption DEF BotTaskInit, TokensDistinct, Turns
<1>5. WorkersOK
  <2>1. TaskWorkerOK(WorkerIdle)
    BY IdleRow DEF TaskWorkerOK, WorkStages
  <2> QED BY <1>1, <2>1 DEF WorkersOK
<1>6. BranchStored /\ DoneIsChecked
  BY <1>2 DEF BranchStored, DoneIsChecked
<1>7. AckIsFinal /\ TaskKeepsWake
  BY <1>1, IdleRow DEF BotTaskInit, AckIsFinal, TaskKeepsWake
<1> QED BY <1>3, <1>4, <1>5, <1>6, <1>7 DEF TaskInv

\* Whatever dies, throws, lapses or is cancelled in between, with any number of workers and claims: a task that is
\* done has a completed turn, the review its plan asks for and, if a checkpoint had named its work branch and the
\* worker that reports it may write, a pull request; and an unfinished task keeps its wake-up.  The last two hold as
\* long as no worker goes on after its wake-up went to another one (executor.ts 94-141, 384-590, store.ts 232-296).
THEOREM TasksHold == BotTaskSpec => []BotTaskSound
<1>1. TaskInv /\ [BotTaskNext]_botTaskVars => TaskInv'
  <2> SUFFICES ASSUME TaskInv, [BotTaskNext]_botTaskVars PROVE TaskInv'
    OBVIOUS
  <2>1. ASSUME NEW w \in TaskWorkers,
               \/ ClaimTask(w) \/ RetryTask(w) \/ ResetAttempts(w) \/ BlockTask(w) \/ StepThrows(w)
               \/ LinkMission(w) \/ StartPrimary(w) \/ TaskOutcome(w) \/ ReviewStarts(w) \/ FinishTask(w)
               \/ TaskError(w) \/ WorkerDies(w) \/ EngineRefuses(w)
        PROVE  TaskInv'
    BY <2>1, ClaimKeeps, SettleKeeps, LinkKeeps, RunTaskSteps, FinishKeeps
  <2>6. ASSUME NEW w \in TaskWorkers, NEW entitled \in BOOLEAN, NEW mayWrite \in BOOLEAN, EnterTask(w, entitled, mayWrite)
        PROVE  TaskInv'
    BY <2>6, EnterKeeps
  <2>2. ASSUME NEW w \in TaskWorkers, NEW ok \in BOOLEAN, AckTask(w, ok) \/ Preflight(w, ok) \/ DeliverTask(w, ok) \/ SaveTaskCheckpoint(w, ok)
        PROVE  TaskInv'
    BY <2>2, SettleKeeps, RunTaskSteps, DeliverKeeps, SaveKeeps
  <2>3. ASSUME NEW w \in TaskWorkers, NEW state \in TurnStates, NEW branch \in Branches, ExecuteTurn(w, state, branch)
        PROVE  TaskInv'
    BY <2>3, ExecuteKeeps
  <2>4. ASSUME NEW w \in TaskWorkers, NEW verdict \in {"PASS", "BLOCK", "INCOMPLETE"}, ReviewEnds(w, verdict)
        PROVE  TaskInv'
    BY <2>4, ReviewKeeps
  <2>5. CASE UNCHANGED botTaskVars
    <3>1. /\ TaskTypeOK' /\ TokensDistinct' /\ DoneIsChecked' /\ AckIsFinal' /\ TaskKeepsWake'
      BY <2>5 DEF botTaskVars, TaskInv, TaskTypeOK, TokensDistinct, DoneIsChecked, AckIsFinal, TaskKeepsWake, Holds
    <3>2. WorkersOK' /\ BranchStored'
      BY <2>5 DEF botTaskVars, TaskInv, WorkersOK, TaskWorkerOK, BranchStored
    <3> QED BY <3>1, <3>2 DEF TaskInv
  <2> QED BY <2>1, <2>2, <2>3, <2>4, <2>5, <2>6, OutsideKeeps DEF BotTaskNext, Branches
<1>2. TaskInv => BotTaskSound
  BY DEF TaskInv, BotTaskSound
<1> QED BY <1>1, <1>2, TaskInitOK, PTL DEF BotTaskSpec

-----------------------------------------------------------------------------
(* Automations (store.ts, executor.ts, wakeup.ts)                          *)

Scheduled == automation.cadence \in {"interval", "daily"}
AutomationStages == {"idle", "claimed", "firing", "done", "failed", "limit"}

FirerStates == [pc : AutomationStages, row : Nat \cup {NoTime}, occurrence : Nat \cup Deliveries \cup {NoTime},
                token : Nat \cup {NoTime}, attempt : Nat]

\* AutomationTypeOK, and the state that the code keeps apart from the rows.
AutomationTypes ==
  /\ AutomationTypeOK /\ worker \in [Workers -> FirerStates]
  /\ anchors \subseteq Nat /\ tokens \in Nat /\ lapsed \in BOOLEAN
  /\ automation.enabled => automation.exists
  /\ automation.exists => automation.cadence # "none"

\* A row stands for an occurrence of the schedule, and is due no earlier.
RowOnSchedule(o) ==
  wakes[o] # NoWake => /\ Scheduled /\ OnGrid(o)
                       /\ wakes[o].available \in Nat /\ wakes[o].available >= o
                       /\ wakes[o].token # NoTime => wakes[o].token < tokens

\* A worker is idle, or it has claimed the row of an occurrence that was due, or it handles a delivery.
FirerOK(r) ==
  \/ r = Idle
  \/ /\ r.row = NoTime /\ r.occurrence \in Deliveries /\ r.pc \in {"firing", "failed", "limit"}
     /\ automation.cadence = "event"
  \/ /\ r.row \in 0 .. now /\ r.occurrence = r.row /\ r.token \in Nat /\ r.token < tokens
     /\ r.pc \in AutomationStages \ {"idle"} /\ r.attempt \in Nat
     /\ Scheduled /\ OnGrid(r.row)

\* What is acknowledged has a successor in the queue, later than itself: so two
\* acknowledgements can not take each other's successor away.
HasSuccessor(r) ==
  r.pc = "done" /\ wakes[r.row].token = r.token /\ automation.enabled /\ ~lapsed
    => \E o \in Times : o > r.row /\ wakes[o] # NoWake

Unborn ==
  automation.cadence = "none" =>
    /\ anchors = {} /\ \A o \in Times : wakes[o] = NoWake /\ tasks[o] = NoTime
    /\ \A w \in Workers : worker[w] = Idle

AutomationInv ==
  /\ AutomationTypes
  /\ \A o \in Times : RowOnSchedule(o)
  /\ \A w \in Workers : FirerOK(worker[w]) /\ HasSuccessor(worker[w])
  /\ Unborn
  /\ KeepsGoing /\ OnSchedule /\ DailyWithinLimit

WakeRows == [available : Nat \cup {NoTime}, token : Nat \cup {NoTime}, expires : Nat \cup {NoTime}, attempts : Nat]

LEMMA AutomationConstants ==
  /\ Every \in Nat /\ Every >= 1 /\ TicksPerDay \in Nat /\ TicksPerDay >= 1 /\ Hour \in Nat /\ Hour < TicksPerDay
  /\ MaxNow \in Nat /\ Lease \in Nat /\ RetryDelay \in Nat /\ MaxDailyWakeups \in Nat
  /\ NoTime \notin Int /\ NoTime \notin Nat /\ 0 .. MaxNow \subseteq Times /\ Times \subseteq Nat
  /\ NoWake \in WakeRows /\ NoWake.available = NoTime /\ NoWake.token = NoTime /\ NoWake.expires = NoTime
BY BotAutomationAssumption DEF Times, NoWake, WakeRows

LEMMA DayBounds ==
  ASSUME NEW t \in Nat
  PROVE  DayOf(t) \in Nat /\ DayOf(t) * TicksPerDay <= t /\ t < DayOf(t) * TicksPerDay + TicksPerDay
BY AutomationConstants DEF DayOf

\* The next occurrence is later, within the horizon, and on the schedule.
LEMMA NextIsLater ==
  ASSUME NEW c \in {"interval", "daily"}, NEW from \in 0 .. MaxNow, NEW next, next = NextWake(c, from)
  PROVE  /\ next \in Times /\ next > from /\ next # NoTime
         /\ c = "interval" => next = from + Every
         /\ c = "daily" => \E day \in 0 .. next : next = day * TicksPerDay + Hour
<1>1. CASE c = "interval"
  BY <1>1, AutomationConstants DEF NextWake, Times
<1>2. CASE c = "daily"
  <2> DEFINE d == DayOf(from)
  <2>1. d \in Nat /\ d * TicksPerDay <= from /\ from < d * TicksPerDay + TicksPerDay
    BY DayBounds
  <2>2. next = IF d * TicksPerDay + Hour <= from THEN d * TicksPerDay + Hour + TicksPerDay ELSE d * TicksPerDay + Hour
    BY <1>2 DEF NextWake
  <2> HIDE DEF d
  <2>3. \E p : p = d * TicksPerDay
    OBVIOUS
  <2>4. PICK p : p = d * TicksPerDay
    BY <2>3
  <2>5. p \in Nat /\ p >= d /\ (d + 1) * TicksPerDay = p + TicksPerDay
    BY <2>1, <2>4, AutomationConstants
  <2>6. next \in Times /\ next > from /\ next # NoTime
    BY <2>1, <2>2, <2>4, <2>5, AutomationConstants DEF Times
  <2>7. \E day \in 0 .. next : next = day * TicksPerDay + Hour
    <3>1. CASE p + Hour <= from
      <4>1. next = (d + 1) * TicksPerDay + Hour /\ d + 1 \in 0 .. next
        BY <2>1, <2>2, <2>4, <2>5, <3>1, AutomationConstants
      <4> QED BY <4>1
    <3>2. CASE ~(p + Hour <= from)
      <4>1. next = d * TicksPerDay + Hour /\ d \in 0 .. next
        BY <2>1, <2>2, <2>4, <2>5, <3>2, AutomationConstants
      <4> QED BY <4>1
    <3> QED BY <3>1, <3>2
  <2> QED BY <1>2, <2>6, <2>7
<1> QED BY <1>1, <1>2

\* ... also when it is computed from an occurrence.
LEMMA NextOnGrid ==
  ASSUME AutomationTypes, Scheduled, NEW from \in 0 .. MaxNow, NEW next, next = NextWake(automation.cadence, from),
         OnGrid(from) \/ from \in anchors
  PROVE  next \in Times /\ next > from /\ next # NoTime /\ OnGrid(next)
<1>1. /\ next \in Times /\ next > from /\ next # NoTime
      /\ automation.cadence = "interval" => next = from + Every
      /\ automation.cadence = "daily" => \E day \in 0 .. next : next = day * TicksPerDay + Hour
  BY NextIsLater DEF Scheduled
<1>2. ASSUME automation.cadence = "interval" PROVE \E a \in anchors, n \in 1 .. next : next = a + n * Every
  <2>1. CASE from \in anchors
    <3>1. 1 \in 1 .. next /\ next = from + 1 * Every
      BY <1>1, <1>2, AutomationConstants
    <3> QED BY <2>1, <3>1
  <2>2. CASE OnGrid(from)
    <3>1. PICK a \in anchors, n \in 1 .. from : from = a + n * Every
      BY <1>2, <2>2 DEF OnGrid
    <3>2. a \in Nat
      BY DEF AutomationTypes
    <3>3. (n + 1) * Every = n * Every + Every
      BY AutomationConstants
    <3>4. \E p : p = n * Every
      OBVIOUS
    <3>5. PICK p : p = n * Every
      BY <3>4
    <3>6. p \in Nat
      BY <3>5, AutomationConstants
    <3>7. next = a + (n + 1) * Every /\ n + 1 \in 1 .. next
      BY <1>1, <1>2, <3>1, <3>2, <3>3, <3>5, <3>6, AutomationConstants
    <3> QED BY <3>7
  <2> QED BY <2>1, <2>2
<1> QED BY <1>1, <1>2 DEF OnGrid

LEMMA GridKept ==
  ASSUME NEW o, OnGrid(o), automation'.cadence = automation.cadence, anchors \subseteq anchors'
  PROVE  OnGrid(o)'
BY DEF OnGrid

\* enqueue_bot_wakeup touches one row, and leaves its lease alone.
LEMMA EnqueueFacts ==
  ASSUME NEW rows \in [Times -> WakeRows], NEW o \in Times, NEW q, q = Enqueue(rows, o),
         rows[o] # NoWake => rows[o].available \in Nat /\ rows[o].available >= o
  PROVE  /\ q \in [Times -> WakeRows] /\ \A p \in Times : p # o => q[p] = rows[p]
         /\ q[o] # NoWake /\ q[o].available \in Nat /\ q[o].available >= o
         /\ q[o].token = rows[o].token /\ q[o].expires = rows[o].expires
<1>1. o # NoTime /\ o \in Nat
  BY AutomationConstants
<1>2. \E a, r : a = (IF rows[o] = NoWake \/ o < rows[o].available THEN o ELSE rows[o].available)
                /\ r = [rows[o] EXCEPT !.available = a]
  OBVIOUS
<1>3. PICK a, r : a = (IF rows[o] = NoWake \/ o < rows[o].available THEN o ELSE rows[o].available)
                  /\ r = [rows[o] EXCEPT !.available = a]
  BY <1>2
<1>4. a \in Nat /\ a >= o
  BY <1>1, <1>3
<1>5. r \in WakeRows /\ r.available = a /\ r.token = rows[o].token /\ r.expires = rows[o].expires
  BY <1>3, <1>4 DEF WakeRows
<1>6. q = [rows EXCEPT ![o].available = a]
  BY <1>1, <1>3 DEF Enqueue
<1>7. q = [rows EXCEPT ![o] = r]
  BY <1>3, <1>6
<1> QED BY <1>4, <1>5, <1>7, AutomationConstants

LEMMA FirerKept ==
  ASSUME AutomationTypes, NEW r, FirerOK(r), now <= now', now' \in 0 .. MaxNow,
         automation'.cadence = automation.cadence, anchors \subseteq anchors', tokens' \in Nat, tokens <= tokens'
  PROVE  FirerOK(r)'
<1>1. now \in Nat /\ tokens \in Nat /\ now' \in Nat
  BY AutomationConstants DEF AutomationTypes, AutomationTypeOK
<1>2. OnGrid(r.row) => OnGrid(r.row)'
  BY GridKept
<1>3. Scheduled' = Scheduled
  BY DEF Scheduled
<1>4. r.token \in Nat /\ r.token < tokens => r.token < tokens'
  BY <1>1
<1>5. r.row \in 0 .. now => r.row \in 0 .. now'
  BY <1>1
<1> QED BY <1>2, <1>3, <1>4, <1>5 DEF FirerOK

\* One worker goes on.
LEMMA FirersKept ==
  ASSUME AutomationInv, NEW w \in Workers, NEW r \in FirerStates, worker' = [worker EXCEPT ![w] = r], now' = now,
         automation'.cadence = automation.cadence, anchors \subseteq anchors', tokens' \in Nat, tokens <= tokens', FirerOK(r)'
  PROVE  /\ worker' \in [Workers -> FirerStates]
         /\ \A v \in Workers : FirerOK(worker[v])' /\ worker'[v] = IF v = w THEN r ELSE worker[v]
<1>1. worker \in [Workers -> FirerStates] /\ now \in 0 .. MaxNow /\ now' \in 0 .. MaxNow /\ now <= now'
  BY AutomationConstants DEF AutomationInv, AutomationTypes, AutomationTypeOK
<1>2. worker' \in [Workers -> FirerStates] /\ \A v \in Workers : worker'[v] = IF v = w THEN r ELSE worker[v]
  BY <1>1
<1>3. ASSUME NEW v \in Workers, v # w PROVE FirerOK(worker[v])'
  <2>1. \E x : x = worker[v]
    OBVIOUS
  <2>2. PICK x : x = worker[v]
    BY <2>1
  <2>3. FirerOK(x) /\ worker'[v] = x
    BY <1>2, <1>3, <2>2 DEF AutomationInv
  <2>4. FirerOK(x)'
    BY <1>1, <2>3, FirerKept DEF AutomationInv
  <2> QED BY <2>3, <2>4 DEF FirerOK
<1>4. FirerOK(worker[w])'
  BY <1>2 DEF FirerOK
<1> QED BY <1>2, <1>3, <1>4

\* Nothing that was acknowledged loses its successor where no row is taken away.
LEMMA SuccessorsKept ==
  ASSUME AutomationInv, NEW w \in Workers, NEW r, \A v \in Workers : worker'[v] = IF v = w THEN r ELSE worker[v],
         automation'.enabled => automation.enabled, automation'.cadence = automation.cadence, ~lapsed' => ~lapsed,
         \A o \in Times : wakes[o] # NoWake => wakes'[o] # NoWake,
         \A o \in Times : wakes'[o].token \in {wakes[o].token, NoTime, tokens},
         HasSuccessor(r)'
  PROVE  (\A v \in Workers : HasSuccessor(worker[v])') /\ KeepsGoing'
<1>1. ASSUME NEW v \in Workers, v # w PROVE HasSuccessor(worker[v])'
  <2>1. worker'[v] = worker[v]
    BY <1>1
  <2> SUFFICES ASSUME worker[v].pc = "done", wakes'[worker[v].row].token = worker[v].token, automation.enabled, ~lapsed
               PROVE  \E o \in Times : o > worker[v].row /\ wakes'[o] # NoWake
    BY <2>1 DEF HasSuccessor
  <2>2. worker[v].row \in 0 .. now /\ worker[v].token \in Nat /\ worker[v].token < tokens
    BY DEF AutomationInv, FirerOK, Idle
  <2>3. worker[v].row \in Times /\ NoTime \notin Nat /\ tokens \in Nat
    BY <2>2, AutomationConstants DEF AutomationInv, AutomationTypes, AutomationTypeOK
  <2>4. wakes[worker[v].row].token = worker[v].token
    BY <2>2, <2>3
  <2>5. PICK o \in Times : o > worker[v].row /\ wakes[o] # NoWake
    BY <2>4 DEF AutomationInv, HasSuccessor
  <2> QED BY <2>5
<1>2. HasSuccessor(worker[w])'
  BY DEF HasSuccessor
<1>3. KeepsGoing'
  BY DEF AutomationInv, KeepsGoing
<1> QED BY <1>1, <1>2, <1>3

\* Where the queue was emptied, or was filled anew, no lease is left to acknowledge with.
LEMMA NoLeaseLeft ==
  ASSUME now' \in 0 .. MaxNow, \A o \in Times : wakes'[o].token = NoTime, \A v \in Workers : FirerOK(worker[v])'
  PROVE  \A v \in Workers : HasSuccessor(worker[v])'
<1> SUFFICES ASSUME NEW v \in Workers, worker'[v].pc = "done" PROVE wakes'[worker'[v].row].token # worker'[v].token
  BY DEF HasSuccessor
<1>1. worker'[v].row \in 0 .. now' /\ worker'[v].token \in Nat
  BY DEF FirerOK, Idle
<1> QED BY <1>1, AutomationConstants

\* Steps that create no task.
LEMMA TasksKept ==
  ASSUME AutomationInv, tasks' = tasks, automation'.cadence = automation.cadence, anchors \subseteq anchors'
  PROVE  OnSchedule' /\ DailyWithinLimit'
<1>1. OnSchedule'
  BY GridKept DEF AutomationInv, OnSchedule
<1>2. DailyWithinLimit'
  BY DEF AutomationInv, DailyWithinLimit, DayOf
<1> QED BY <1>1, <1>2

\* A step of one worker that leaves the queue alone.
LEMMA WorkerKeeps ==
  ASSUME AutomationInv, NEW w \in Workers, NEW r \in FirerStates, worker' = [worker EXCEPT ![w] = r],
         UNCHANGED <<now, automation, wakes, tasks, tokens, anchors>>, lapsed' \in {lapsed, TRUE},
         automation.cadence # "none", FirerOK(r)', HasSuccessor(r)'
  PROVE  AutomationInv'
<1>1. lapsed \in BOOLEAN /\ tokens \in Nat
  BY DEF AutomationInv, AutomationTypes
<1>2. /\ worker' \in [Workers -> FirerStates]
      /\ \A v \in Workers : FirerOK(worker[v])' /\ worker'[v] = IF v = w THEN r ELSE worker[v]
  <2>1. now' = now /\ automation'.cadence = automation.cadence /\ anchors \subseteq anchors' /\ tokens' \in Nat /\ tokens <= tokens'
    BY <1>1
  <2> QED BY <2>1, FirersKept
<1>3. AutomationTypes'
  BY <1>1, <1>2 DEF AutomationInv, AutomationTypes, AutomationTypeOK
<1>4. \A o \in Times : RowOnSchedule(o)'
  BY DEF AutomationInv, RowOnSchedule, Scheduled, OnGrid
<1>5. (\A v \in Workers : HasSuccessor(worker[v])') /\ KeepsGoing'
  BY <1>1, <1>2, SuccessorsKept
<1>6. OnSchedule' /\ DailyWithinLimit'
  BY TasksKept
<1>7. Unborn'
  BY DEF Unborn
<1> QED BY <1>2, <1>3, <1>4, <1>5, <1>6, <1>7 DEF AutomationInv

\* Whoever works on something works on an automation that was created.
LEMMA Born ==
  ASSUME AutomationInv, NEW w \in Workers, worker[w] # Idle
  PROVE  automation.cadence # "none"
BY DEF AutomationInv, Unborn

LEMMA WorkerFacts ==
  ASSUME AutomationInv, NEW w \in Workers
  PROVE  /\ worker[w] \in FirerStates /\ FirerOK(worker[w]) /\ HasSuccessor(worker[w])
         /\ Idle \in FirerStates /\ FirerOK(Idle) /\ FirerOK(Idle)' /\ HasSuccessor(Idle)' /\ Idle.pc = "idle"
BY DEF AutomationInv, AutomationTypes, FirerOK, HasSuccessor, Idle, FirerStates, AutomationStages

LEMMA FirerCrashes ==
  ASSUME AutomationInv, NEW w \in Workers, Crash(w)
  PROVE  AutomationInv'
<1>1. worker[w] # Idle
  BY WorkerFacts DEF Crash
<1>2. automation.cadence # "none"
  BY <1>1, Born
<1>3. worker' = [worker EXCEPT ![w] = Idle] /\ UNCHANGED <<now, automation, wakes, tasks, tokens, anchors>> /\ lapsed' = lapsed
  BY DEF Crash, Stop
<1> QED BY <1>2, <1>3, WorkerFacts, WorkerKeeps

LEMMA FirerDelivers ==
  ASSUME AutomationInv, NEW w \in Workers, NEW d \in Deliveries, Deliver(w, d)
  PROVE  AutomationInv'
<1>1. \E r : r = [Idle EXCEPT !.pc = "firing", !.occurrence = d]
  OBVIOUS
<1>2. PICK r : r = [Idle EXCEPT !.pc = "firing", !.occurrence = d]
  BY <1>1
<1>3. r \in FirerStates /\ r.pc = "firing" /\ r.occurrence = d /\ r.row = NoTime
  BY <1>2 DEF Idle, FirerStates, AutomationStages
<1>4. worker' = [worker EXCEPT ![w] = r] /\ UNCHANGED <<now, automation, wakes, tasks, tokens, anchors>> /\ lapsed' = lapsed
      /\ automation.cadence = "event"
  BY <1>2 DEF Deliver
<1>5. FirerOK(r)' /\ HasSuccessor(r)'
  BY <1>3, <1>4 DEF FirerOK, HasSuccessor
<1> QED BY <1>3, <1>4, <1>5, WorkerKeeps

\* The worker goes on with what it claimed.
LEMMA GotoFacts ==
  ASSUME AutomationInv, NEW w \in Workers, NEW pc \in AutomationStages \ {"idle"}, Goto(w, pc),
         worker[w].pc # "idle", pc = "done" => worker[w].row # NoTime,
         now' = now, automation'.cadence = automation.cadence, tokens' = tokens, anchors' = anchors, 
         worker[w].row = NoTime => pc \in {"failed", "limit"}
  PROVE  \E r \in FirerStates : /\ worker' = [worker EXCEPT ![w] = r] /\ r = [worker[w] EXCEPT !.pc = pc]
                                /\ r.pc = pc /\ r.row = worker[w].row /\ r.token = worker[w].token /\ FirerOK(r)'
<1>1. PICK q, r : q = worker[w] /\ r = [q EXCEPT !.pc = pc]
  OBVIOUS
<1>2. q \in FirerStates /\ FirerOK(q) /\ q # Idle
  BY <1>1, WorkerFacts DEF Idle
<1>3. r \in FirerStates /\ r.pc = pc /\ r.row = q.row /\ r.token = q.token /\ r.occurrence = q.occurrence /\ r.attempt = q.attempt
  BY <1>1, <1>2 DEF FirerStates
<1>4. worker' = [worker EXCEPT ![w] = r]
  BY <1>1 DEF Goto
<1>5. Scheduled' = Scheduled /\ OnGrid(q.row)' = OnGrid(q.row)
  BY DEF Scheduled, OnGrid
<1>6. NoTime \notin Nat
  BY AutomationConstants
<1>7. FirerOK(r)'
  BY <1>1, <1>2, <1>3, <1>5, <1>6 DEF FirerOK
<1> QED BY <1>1, <1>3, <1>4, <1>7

LEMMA FirerRuns ==
  ASSUME AutomationInv, NEW w \in Workers, RunAutomation(w)
  PROVE  AutomationInv'
<1>1. worker[w].pc = "claimed" /\ worker[w].row # NoTime /\ worker[w] # Idle
  BY WorkerFacts, AutomationConstants DEF RunAutomation, FirerOK
<1>2. automation.cadence # "none"
  BY <1>1, Born
<1>3. UNCHANGED <<now, automation, wakes, tasks, tokens, anchors>> /\ lapsed' \in {lapsed, TRUE}
  BY DEF RunAutomation
<1>4. PICK pc \in {"done", "failed", "firing"} : Goto(w, pc) /\ (pc = "done" => lapsed' \/ ~automation.enabled)
  BY DEF RunAutomation
<1>5. PICK r \in FirerStates : worker' = [worker EXCEPT ![w] = r] /\ r.pc = pc /\ FirerOK(r)'
  <2>1. pc \in AutomationStages \ {"idle"}
    BY DEF AutomationStages
  <2> QED BY <1>1, <1>3, <1>4, <2>1, GotoFacts
<1>6. HasSuccessor(r)'
  BY <1>3, <1>4, <1>5 DEF HasSuccessor
<1> QED BY <1>2, <1>3, <1>5, <1>6, WorkerKeeps

LEMMA FirerClaims ==
  ASSUME AutomationInv, NEW w \in Workers, Claim(w)
  PROVE  AutomationInv'
<1>1. PICK o \in Times :
        /\ Claimable(o)
        /\ worker' = [worker EXCEPT ![w] = [pc |-> "claimed", row |-> o,
             occurrence |-> o, token |-> tokens, attempt |-> wakes[o].attempts + 1]]
        /\ wakes' = [wakes EXCEPT ![o].token = tokens, ![o].expires = now + Lease, ![o].attempts = @ + 1]
  BY DEF Claim
<1>2. /\ tokens' = tokens + 1 /\ UNCHANGED <<now, automation, tasks, anchors, lapsed>>
      /\ tokens \in Nat /\ now \in 0 .. MaxNow /\ now + Lease \in Nat /\ wakes \in [Times -> WakeRows]
  BY AutomationConstants DEF Claim, AutomationInv, AutomationTypes, AutomationTypeOK, WakeRows
<1>3. PICK r, row : /\ r = [pc |-> "claimed", row |-> o, occurrence |-> o, token |-> tokens, attempt |-> wakes[o].attempts + 1]
                    /\ row = [wakes[o] EXCEPT !.token = tokens, !.expires = now + Lease, !.attempts = wakes[o].attempts + 1]
  OBVIOUS
<1>4. /\ r \in FirerStates /\ r.pc = "claimed" /\ r.row = o /\ r.occurrence = o /\ r.token = tokens /\ r.attempt \in Nat
  BY <1>2, <1>3, AutomationConstants DEF FirerStates, AutomationStages, WakeRows
<1>5. row \in WakeRows /\ row.available = wakes[o].available /\ row.token = tokens /\ row.expires = now + Lease
  <2>1. wakes[o] \in WakeRows /\ wakes[o].attempts + 1 \in Nat
    BY <1>2 DEF WakeRows
  <2> QED BY <1>2, <1>3, <2>1 DEF WakeRows
<1>6. worker' = [worker EXCEPT ![w] = r] /\ wakes' = [wakes EXCEPT ![o] = row]
  BY <1>1, <1>3
<1>7. wakes' \in [Times -> WakeRows] /\ \A p \in Times : wakes'[p] = IF p = o THEN row ELSE wakes[p]
  BY <1>2, <1>5, <1>6
<1>8. NoTime \notin Int /\ NoWake.token = NoTime /\ row # NoWake
  BY <1>2, <1>5, AutomationConstants
<1>9. wakes[o] # NoWake /\ wakes[o].available <= now /\ Scheduled /\ OnGrid(o) /\ wakes[o].available \in Nat /\ wakes[o].available >= o
  BY <1>1 DEF Claimable, AutomationInv, RowOnSchedule
<1>10. o \in 0 .. now
  BY <1>2, <1>9, AutomationConstants
<1>11. Scheduled' = Scheduled /\ \A p \in Times : OnGrid(p)' = OnGrid(p)
  BY <1>2 DEF Scheduled, OnGrid
<1>12. FirerOK(r)'
  BY <1>2, <1>4, <1>9, <1>10, <1>11 DEF FirerOK, AutomationStages
<1>13. /\ worker' \in [Workers -> FirerStates]
       /\ \A v \in Workers : FirerOK(worker[v])' /\ worker'[v] = IF v = w THEN r ELSE worker[v]
  <2>1. now' = now /\ automation'.cadence = automation.cadence /\ anchors \subseteq anchors' /\ tokens' \in Nat /\ tokens <= tokens'
    BY <1>2
  <2> QED BY <1>4, <1>6, <1>12, <2>1, FirersKept
<1>14. \A p \in Times : wakes'[p].token = NoTime <=> wakes'[p].expires = NoTime
  BY <1>2, <1>5, <1>7, <1>8 DEF AutomationInv, AutomationTypes, AutomationTypeOK
<1>15. AutomationTypes'
  BY <1>2, <1>7, <1>13, <1>14 DEF AutomationInv, AutomationTypes, AutomationTypeOK, WakeRows
<1>16. ASSUME NEW p \in Times PROVE RowOnSchedule(p)'
  <2>1. CASE p = o
    BY <1>2, <1>5, <1>7, <1>9, <1>11, <2>1 DEF RowOnSchedule
  <2>2. CASE p # o
    <3>1. wakes'[p] = wakes[p] /\ RowOnSchedule(p)
      BY <1>7, <2>2 DEF AutomationInv
    <3>2. wakes[p].token \in Nat \cup {NoTime}
      BY <1>2 DEF WakeRows
    <3> QED BY <1>2, <1>11, <3>1, <3>2 DEF RowOnSchedule
  <2> QED BY <2>1, <2>2
<1>17. (\A v \in Workers : HasSuccessor(worker[v])') /\ KeepsGoing'
  <2>1. \A p \in Times : /\ wakes[p] # NoWake => wakes'[p] # NoWake
                         /\ wakes'[p].token \in {wakes[p].token, NoTime, tokens}
    BY <1>5, <1>7, <1>8
  <2>2. HasSuccessor(r)'
    BY <1>4 DEF HasSuccessor
  <2> QED BY <1>2, <1>13, <2>1, <2>2, SuccessorsKept
<1>18. OnSchedule' /\ DailyWithinLimit'
  BY <1>2, TasksKept
<1>19. Unborn'
  BY <1>2, <1>9 DEF Unborn, Scheduled
<1> QED BY <1>13, <1>15, <1>16, <1>17, <1>18, <1>19 DEF AutomationInv

\* The worker that acknowledges knows of a later row; whoever counted on the row
\* that goes away may count on that one.
LEMMA FirerAcks ==
  ASSUME AutomationInv, NEW w \in Workers, Ack(w)
  PROVE  AutomationInv'
<1>1. /\ worker[w].pc = "done" /\ worker' = [worker EXCEPT ![w] = Idle]
      /\ UNCHANGED <<now, automation, tasks, tokens, anchors, lapsed>>
  BY DEF Ack, Stop
<1>2. PICK q, t : q = worker[w].row /\ t = worker[w].token
  OBVIOUS
<1>3. q \in 0 .. now /\ t \in Nat /\ worker[w] # Idle /\ now \in 0 .. MaxNow
  BY <1>1, <1>2, WorkerFacts DEF FirerOK, AutomationInv, AutomationTypes, AutomationTypeOK
<1>4. automation.cadence # "none" /\ q \in Times
  BY <1>3, Born, AutomationConstants
<1>5. CASE wakes[q].token # t
  <2>1. wakes' = wakes
    BY <1>2, <1>5 DEF Ack
  <2> QED BY <1>1, <1>4, <2>1, WorkerFacts, WorkerKeeps
<1>6. CASE wakes[q].token = t
  <2>1. wakes' = [wakes EXCEPT ![q] = NoWake] /\ wakes \in [Times -> WakeRows]
    BY <1>2, <1>6 DEF Ack, AutomationInv, AutomationTypes, AutomationTypeOK, WakeRows
  <2>2. wakes' \in [Times -> WakeRows] /\ \A p \in Times : wakes'[p] = IF p = q THEN NoWake ELSE wakes[p]
    BY <2>1, AutomationConstants
  <2>3. tokens \in Nat
    BY DEF AutomationInv, AutomationTypes
  <2>4. /\ worker' \in [Workers -> FirerStates]
        /\ \A v \in Workers : FirerOK(worker[v])' /\ worker'[v] = IF v = w THEN Idle ELSE worker[v]
    <3>1. now' = now /\ automation'.cadence = automation.cadence /\ anchors \subseteq anchors' /\ tokens' \in Nat /\ tokens <= tokens'
      BY <1>1, <2>3
    <3>2. Idle \in FirerStates /\ FirerOK(Idle)'
      BY WorkerFacts
    <3> QED BY <1>1, <3>1, <3>2, FirersKept
  <2>5. AutomationTypes'
    <3>1. \A p \in Times : wakes'[p].token = NoTime <=> wakes'[p].expires = NoTime
      BY <2>2, AutomationConstants DEF AutomationInv, AutomationTypes, AutomationTypeOK
    <3> QED BY <1>1, <2>2, <2>4, <3>1 DEF AutomationInv, AutomationTypes, AutomationTypeOK, WakeRows
  <2>6. \A p \in Times : RowOnSchedule(p)'
    BY <1>1, <2>2 DEF AutomationInv, RowOnSchedule, Scheduled, OnGrid
  <2>7. automation.enabled /\ ~lapsed => \E o \in Times : o > q /\ wakes'[o] # NoWake
    <3>1. HasSuccessor(worker[w])
      BY WorkerFacts
    <3> SUFFICES ASSUME automation.enabled, ~lapsed PROVE \E o \in Times : o > q /\ wakes'[o] # NoWake
      OBVIOUS
    <3>2. PICK o \in Times : o > q /\ wakes[o] # NoWake
      BY <1>1, <1>2, <1>6, <3>1 DEF HasSuccessor
    <3>3. o # q
      BY <1>4, <3>2, AutomationConstants
    <3> QED BY <2>2, <3>2, <3>3
  <2>8. ASSUME NEW v \in Workers PROVE HasSuccessor(worker[v])'
    <3>1. CASE v = w
      BY <2>4, <3>1, WorkerFacts DEF HasSuccessor
    <3>2. CASE v # w
      <4> SUFFICES ASSUME worker[v].pc = "done", wakes'[worker[v].row].token = worker[v].token, automation.enabled, ~lapsed
                   PROVE  \E o \in Times : o > worker[v].row /\ wakes'[o] # NoWake
        BY <1>1, <2>4, <3>2 DEF HasSuccessor
      <4>1. worker[v].row \in 0 .. now /\ worker[v].token \in Nat
        BY WorkerFacts DEF FirerOK
      <4>2. worker[v].row \in Times /\ worker[v].row # q
        BY <1>3, <2>2, <4>1, AutomationConstants
      <4>3. wakes[worker[v].row].token = worker[v].token /\ HasSuccessor(worker[v])
        BY <2>2, <4>2, WorkerFacts
      <4>4. PICK o \in Times : o > worker[v].row /\ wakes[o] # NoWake
        BY <4>3 DEF HasSuccessor
      <4>5. PICK later \in Times : later > q /\ wakes'[later] # NoWake
        BY <2>7
      <4>6. CASE o = q
        <5>1. later > worker[v].row
          <6>1. later \in Nat /\ q \in Nat /\ worker[v].row \in Nat
            BY <1>3, <4>1, AutomationConstants
          <6> QED BY <4>4, <4>5, <4>6, <6>1
        <5> QED BY <4>5, <5>1
      <4>7. CASE o # q
        BY <2>2, <4>4, <4>7
      <4> QED BY <4>6, <4>7
    <3> QED BY <3>1, <3>2
  <2>9. KeepsGoing'
    BY <1>1, <2>7 DEF KeepsGoing
  <2>10. OnSchedule' /\ DailyWithinLimit'
    BY <1>1, TasksKept
  <2>11. Unborn'
    BY <1>1, <1>4 DEF Unborn
  <2> QED BY <2>4, <2>5, <2>6, <2>8, <2>9, <2>10, <2>11 DEF AutomationInv
<1> QED BY <1>5, <1>6

\* What the queue is after a row was asked for, on what it was before or on an empty one.
LEMMA QueueFacts ==
  ASSUME NEW rows \in [Times -> WakeRows], NEW o \in Times, wakes' = Enqueue(rows, o), tokens' = tokens, Scheduled', OnGrid(o)',
         \A p \in Times : rows[p].token = NoTime <=> rows[p].expires = NoTime,
         \A p \in Times : rows[p] # NoWake =>
           OnGrid(p)' /\ rows[p].available \in Nat /\ rows[p].available >= p /\ (rows[p].token # NoTime => rows[p].token < tokens)
  PROVE  /\ wakes' \in [Times -> WakeRows] /\ wakes'[o] # NoWake
         /\ \A p \in Times : wakes'[p].token = NoTime <=> wakes'[p].expires = NoTime
         /\ \A p \in Times : RowOnSchedule(p)'
         /\ \A p \in Times : wakes'[p].token = rows[p].token /\ (rows[p] # NoWake => wakes'[p] # NoWake)
<1>1. PICK q : q = wakes'
  OBVIOUS
<1>2. /\ q \in [Times -> WakeRows] /\ \A p \in Times : p # o => q[p] = rows[p]
      /\ q[o] # NoWake /\ q[o].available \in Nat /\ q[o].available >= o
      /\ q[o].token = rows[o].token /\ q[o].expires = rows[o].expires
  BY <1>1, EnqueueFacts
<1>3. ASSUME NEW p \in Times PROVE RowOnSchedule(p)'
  <2>1. CASE p = o
    <3>1. q[o].token # NoTime => rows[o] # NoWake
      BY <1>2, AutomationConstants
    <3>2. q[o].token # NoTime => q[o].token < tokens
      BY <1>2, <3>1
    <3> QED BY <1>1, <1>2, <2>1, <3>2 DEF RowOnSchedule
  <2>2. CASE p # o
    <3>1. q[p] = rows[p]
      BY <1>2, <2>2
    <3> QED BY <1>1, <3>1 DEF RowOnSchedule
  <2> QED BY <2>1, <2>2
<1>4. ASSUME NEW p \in Times PROVE q[p].token = rows[p].token /\ q[p].expires = rows[p].expires /\ (rows[p] # NoWake => q[p] # NoWake)
  BY <1>2
<1> QED BY <1>1, <1>2, <1>3, <1>4

\* The first occurrence, from the time at which the schedule starts.
LEMMA NextFromNow ==
  ASSUME AutomationTypes, now' = now, now \in anchors', automation'.cadence \in {"interval", "daily"},
         NEW next, next = NextWake(automation'.cadence, now)
  PROVE  next \in Times /\ next > now /\ next # NoTime /\ OnGrid(next)'
<1>1. PICK c : c = automation'.cadence
  OBVIOUS
<1>2. now \in 0 .. MaxNow
  BY DEF AutomationTypes, AutomationTypeOK
<1>3. /\ next \in Times /\ next > now /\ next # NoTime
      /\ c = "interval" => next = now + Every
      /\ c = "daily" => \E day \in 0 .. next : next = day * TicksPerDay + Hour
  BY <1>1, <1>2, NextIsLater
<1>4. c = "interval" => \E a \in anchors', n \in 1 .. next : next = a + n * Every
  <2>1. next = now + Every => next = now + 1 * Every /\ 1 \in 1 .. next
    BY <1>2, AutomationConstants
  <2> QED BY <1>3, <2>1
<1> QED BY <1>1, <1>3, <1>4 DEF OnGrid

LEMMA KeysFinite ==
  ASSUME NEW P, P \subseteq Keys
  PROVE  IsFiniteSet(P)
<1>1. IsFiniteSet(Times)
  BY FS_Interval, AutomationConstants DEF Times
<1>2. IsFiniteSet(Keys)
  BY <1>1, FS_Union, BotAutomationAssumption DEF Keys
<1> QED BY <1>2, FS_Subset

\* One more task within the daily limit.
LEMMA LimitKept ==
  ASSUME AutomationInv, NEW k \in Keys, tasks' = [tasks EXCEPT ![k] = IF @ = NoTime THEN now ELSE @],
         tasks[k] # NoTime \/ Used < MaxDailyWakeups
  PROVE  DailyWithinLimit'
<1> DEFINE On(day)  == {x \in Keys : tasks[x] # NoTime /\ DayOf(tasks[x]) = day}
           Then(day) == {x \in Keys : tasks'[x] # NoTime /\ DayOf(tasks'[x]) = day}
<1>1. now \in 0 .. MaxNow /\ tasks \in [Keys -> 0 .. MaxNow \cup {NoTime}] /\ now # NoTime
  BY AutomationConstants DEF AutomationInv, AutomationTypes, AutomationTypeOK
<1>2. CASE tasks[k] # NoTime
  <2>1. tasks' = tasks
    BY <1>1, <1>2
  <2> QED BY <2>1 DEF AutomationInv, DailyWithinLimit, DayOf
<1>3. CASE tasks[k] = NoTime
  <2>1. \A x \in Keys : tasks'[x] = IF x = k THEN now ELSE tasks[x]
    BY <1>1, <1>3
  <2>2. Cardinality(On(DayOf(now))) < MaxDailyWakeups
    BY <1>3 DEF Used
  <2>3. ASSUME NEW day \in 0 .. DayOf(MaxNow) PROVE Cardinality(Then(day)) <= MaxDailyWakeups
    <3>1. CASE day # DayOf(now)
      <4>1. Then(day) = On(day)
        BY <1>3, <2>1, <3>1
      <4> QED BY <4>1 DEF AutomationInv, DailyWithinLimit
    <3>2. CASE day = DayOf(now)
      <4>1. Then(day) = On(day) \cup {k} /\ k \notin On(day)
        BY <1>1, <1>3, <2>1, <3>2
      <4>2. IsFiniteSet(On(day))
        BY KeysFinite
      <4> HIDE DEF On
      <4>3. Cardinality(On(day) \cup {k}) = Cardinality(On(day)) + 1 /\ Cardinality(On(day)) \in Nat
        BY <4>1, <4>2, FS_AddElement, FS_CardinalityType
      <4> QED BY <2>2, <3>2, <4>1, <4>3, AutomationConstants
    <3> QED BY <3>1, <3>2
  <2> QED BY <2>3 DEF DailyWithinLimit, DayOf
<1> QED BY <1>2, <1>3

LEMMA FirerFires ==
  ASSUME AutomationInv, NEW w \in Workers, Fire(w)
  PROVE  AutomationInv'
<1>1. PICK k, next : k = worker[w].occurrence /\ next = NextWake(automation.cadence, k)
  OBVIOUS
<1>2. worker[w].pc = "firing" /\ UNCHANGED <<now, tokens, anchors, lapsed>> /\ worker[w] # Idle
  BY WorkerFacts DEF Fire
<1>3. automation.cadence # "none" /\ now \in 0 .. MaxNow /\ tokens \in Nat
  BY <1>2, Born DEF AutomationInv, AutomationTypes, AutomationTypeOK
<1>4. CASE UNCHANGED <<automation, wakes, tasks>> /\ \E pc \in {"limit", "failed"} : Goto(w, pc)
  <2>1. PICK pc \in {"limit", "failed"} : Goto(w, pc)
    BY <1>4
  <2>2. PICK r \in FirerStates : worker' = [worker EXCEPT ![w] = r] /\ r.pc = pc /\ FirerOK(r)'
    <3>1. pc \in AutomationStages \ {"idle"}
      BY DEF AutomationStages
    <3> QED BY <1>2, <1>4, <2>1, <3>1, GotoFacts
  <2>3. HasSuccessor(r)'
    BY <2>1, <2>2 DEF HasSuccessor
  <2> QED BY <1>2, <1>3, <1>4, <2>2, <2>3, WorkerKeeps
<1>5. CASE /\ tasks[k] # NoTime \/ Used < MaxDailyWakeups
           /\ tasks' = [tasks EXCEPT ![k] = IF @ = NoTime THEN now ELSE @]
           /\ IF next = NoTime THEN Stop(w) /\ UNCHANGED <<automation, wakes>>
              ELSE /\ automation' = [automation EXCEPT !.next = next]
                   /\ wakes' = Enqueue(wakes, next)
                   /\ Goto(w, "done")
  <2>1. CASE worker[w].row = NoTime
    <3>1. k \in Deliveries /\ automation.cadence = "event"
      BY <1>1, <1>2, <2>1, WorkerFacts, AutomationConstants DEF FirerOK
    <3>2. next = NoTime /\ k \in Keys /\ k \notin Times
      BY <1>1, <3>1, AutomationConstants, BotAutomationAssumption DEF NextWake, Keys
    <3>3. worker' = [worker EXCEPT ![w] = Idle] /\ UNCHANGED <<automation, wakes>>
      BY <1>5, <3>2 DEF Stop
    <3>4. /\ worker' \in [Workers -> FirerStates]
          /\ \A v \in Workers : FirerOK(worker[v])' /\ worker'[v] = IF v = w THEN Idle ELSE worker[v]
      <4>1. now' = now /\ automation'.cadence = automation.cadence /\ anchors \subseteq anchors' /\ tokens' \in Nat /\ tokens <= tokens'
        BY <1>2, <1>3, <3>3
      <4>2. Idle \in FirerStates /\ FirerOK(Idle)'
        BY WorkerFacts
      <4> QED BY <3>3, <4>1, <4>2, FirersKept
    <3>5. tasks' \in [Keys -> 0 .. MaxNow \cup {NoTime}] /\ \A o \in Times : tasks'[o] = tasks[o]
      BY <1>3, <1>5, <3>2 DEF Keys, AutomationInv, AutomationTypes, AutomationTypeOK
    <3>6. AutomationTypes'
      BY <1>2, <3>3, <3>4, <3>5 DEF AutomationInv, AutomationTypes, AutomationTypeOK
    <3>7. \A o \in Times : RowOnSchedule(o)'
      BY <1>2, <3>3 DEF AutomationInv, RowOnSchedule, Scheduled, OnGrid
    <3>8. (\A v \in Workers : HasSuccessor(worker[v])') /\ KeepsGoing'
      <4>1. HasSuccessor(Idle)'
        BY WorkerFacts
      <4> QED BY <1>2, <3>3, <3>4, <4>1, SuccessorsKept
    <3>9. OnSchedule'
      BY <1>2, <3>3, <3>5 DEF AutomationInv, OnSchedule, OnGrid
    <3>10. DailyWithinLimit'
      BY <1>5, <3>2, LimitKept
    <3>11. Unborn'
      BY <1>3, <3>3 DEF Unborn
    <3> QED BY <3>4, <3>6, <3>7, <3>8, <3>9, <3>10, <3>11 DEF AutomationInv
  <2>2. CASE worker[w].row # NoTime
    <3>1. k = worker[w].row /\ k \in 0 .. now /\ Scheduled /\ OnGrid(k)
      BY <1>1, <1>2, <2>2, WorkerFacts DEF FirerOK, Idle
    <3>2. k \in 0 .. MaxNow /\ k \in Times /\ k \in Keys
      BY <1>3, <3>1, AutomationConstants DEF Keys
    <3>3. next \in Times /\ next > k /\ next # NoTime /\ OnGrid(next)
      BY <1>1, <3>1, <3>2, NextOnGrid DEF AutomationInv
    <3>4. automation' = [automation EXCEPT !.next = next] /\ wakes' = Enqueue(wakes, next) /\ Goto(w, "done")
      BY <1>5, <3>3
    <3>5. /\ automation' \in [exists : BOOLEAN, enabled : BOOLEAN, cadence : Cadences \cup {"none"}, next : Times \cup {NoTime}]
          /\ automation'.cadence = automation.cadence /\ automation'.enabled = automation.enabled /\ automation'.exists = automation.exists
      BY <3>3, <3>4 DEF AutomationInv, AutomationTypes, AutomationTypeOK
    <3>6. PICK r \in FirerStates : worker' = [worker EXCEPT ![w] = r] /\ r.pc = "done" /\ r.row = k /\ FirerOK(r)'
      <4>1. "done" \in AutomationStages \ {"idle"}
        BY DEF AutomationStages
      <4> QED BY <1>2, <2>2, <3>1, <3>4, <3>5, <4>1, GotoFacts
    <3>7. Scheduled' /\ OnGrid(next)' /\ \A p \in Times : OnGrid(p)' = OnGrid(p)
      BY <1>2, <3>1, <3>3, <3>5 DEF Scheduled, OnGrid
    <3>8. /\ wakes' \in [Times -> WakeRows] /\ wakes'[next] # NoWake
          /\ \A p \in Times : wakes'[p].token = NoTime <=> wakes'[p].expires = NoTime
          /\ \A p \in Times : RowOnSchedule(p)'
          /\ \A p \in Times : wakes'[p].token = wakes[p].token /\ (wakes[p] # NoWake => wakes'[p] # NoWake)
      <4>1. wakes \in [Times -> WakeRows] /\ \A p \in Times : wakes[p].token = NoTime <=> wakes[p].expires = NoTime
        BY DEF AutomationInv, AutomationTypes, AutomationTypeOK, WakeRows
      <4>2. \A p \in Times : wakes[p] # NoWake =>
              OnGrid(p)' /\ wakes[p].available \in Nat /\ wakes[p].available >= p /\ (wakes[p].token # NoTime => wakes[p].token < tokens)
        BY <3>7 DEF AutomationInv, RowOnSchedule
      <4>3. tokens' = tokens
        BY <1>2
      <4> QED BY <3>3, <3>4, <3>7, <4>1, <4>2, <4>3, QueueFacts
    <3>9. /\ worker' \in [Workers -> FirerStates]
          /\ \A v \in Workers : FirerOK(worker[v])' /\ worker'[v] = IF v = w THEN r ELSE worker[v]
      <4>1. now' = now /\ automation'.cadence = automation.cadence /\ anchors \subseteq anchors' /\ tokens' \in Nat /\ tokens <= tokens'
        BY <1>2, <1>3, <3>5
      <4> QED BY <3>6, <4>1, FirersKept
    <3>10. tasks' \in [Keys -> 0 .. MaxNow \cup {NoTime}] /\ \A o \in Times : tasks'[o] \in {tasks[o]} \/ (o = k /\ tasks'[o] = now)
      BY <1>3, <1>5, <3>2 DEF Keys, AutomationInv, AutomationTypes, AutomationTypeOK
    <3>11. AutomationTypes'
      BY <1>2, <3>5, <3>8, <3>9, <3>10 DEF AutomationInv, AutomationTypes, AutomationTypeOK, WakeRows
    <3>12. (\A v \in Workers : HasSuccessor(worker[v])') /\ KeepsGoing'
      <4>1. HasSuccessor(r)'
        BY <3>3, <3>6, <3>8 DEF HasSuccessor
      <4> QED BY <1>2, <3>5, <3>8, <3>9, <4>1, SuccessorsKept
    <3>13. OnSchedule'
      <4>1. now >= k
        BY <1>3, <3>1
      <4> QED BY <3>1, <3>7, <3>10, <4>1 DEF AutomationInv, OnSchedule
    <3>14. DailyWithinLimit'
      BY <1>5, <3>2, LimitKept
    <3>15. Unborn'
      BY <1>3, <3>5 DEF Unborn
    <3> QED BY <3>8, <3>9, <3>11, <3>12, <3>13, <3>14, <3>15 DEF AutomationInv
  <2> QED BY <2>1, <2>2
<1> QED BY <1>1, <1>4, <1>5 DEF Fire

\* The queue is emptied, and perhaps filled anew: SetEnabled, Delete and the pause of an automation.
LEMMA QueueReplaced ==
  ASSUME AutomationInv, automation'.cadence = automation.cadence, automation.cadence # "none", anchors \subseteq anchors',
         anchors' \subseteq Nat, UNCHANGED <<now, tasks, tokens>>, lapsed' \in BOOLEAN, 
         automation' \in [exists : BOOLEAN, enabled : BOOLEAN, cadence : Cadences \cup {"none"}, next : Times \cup {NoTime}],
         automation'.enabled => automation'.exists,
         worker' \in [Workers -> FirerStates], \A w \in Workers : FirerOK(worker[w])',
         wakes' \in [Times -> WakeRows], \A p \in Times : wakes'[p].token = NoTime /\ wakes'[p].expires = NoTime,
         \A p \in Times : RowOnSchedule(p)', KeepsGoing'
  PROVE  AutomationInv'
<1>1. AutomationTypes'
  BY DEF AutomationInv, AutomationTypes, AutomationTypeOK, WakeRows
<1>2. \A w \in Workers : HasSuccessor(worker[w])'
  <2>1. now' \in 0 .. MaxNow
    BY <1>1 DEF AutomationTypes, AutomationTypeOK
  <2> QED BY <2>1, NoLeaseLeft
<1>3. OnSchedule' /\ DailyWithinLimit'
  BY TasksKept
<1>4. Unborn'
  BY DEF Unborn
<1> QED BY <1>1, <1>2, <1>3, <1>4 DEF AutomationInv

LEMMA ClearedFacts ==
  /\ Cleared \in [Times -> WakeRows] /\ \A p \in Times : Cleared[p] = NoWake
  /\ NoWake.token = NoTime /\ NoWake.expires = NoTime
BY AutomationConstants DEF Cleared

LEMMA StopKeeps ==
  ASSUME AutomationInv, NEW w \in Workers, Stop(w), worker[w].pc # "idle",
         UNCHANGED <<now, automation, wakes, tasks, tokens, anchors, lapsed>>
  PROVE  AutomationInv'
<1>1. worker[w] # Idle
  BY WorkerFacts
<1>2. automation.cadence # "none"
  BY <1>1, Born
<1> QED BY <1>2, WorkerFacts, WorkerKeeps DEF Stop

\* A postponed row stays in the queue.
LEMMA RetryKeeps ==
  ASSUME AutomationInv, NEW w \in Workers, Retry(w), worker[w].pc = "failed", worker[w].row # NoTime,
         UNCHANGED <<now, tasks, tokens, anchors, lapsed>>
  PROVE  AutomationInv'
<1>1. PICK q, t : q = worker[w].row /\ t = worker[w].token
  OBVIOUS
<1>2. q \in 0 .. now /\ t \in Nat /\ Scheduled /\ OnGrid(q) /\ now \in 0 .. MaxNow
  BY <1>1, WorkerFacts DEF FirerOK, Idle, AutomationInv, AutomationTypes, AutomationTypeOK
<1>3. q \in Times /\ NoTime \notin Nat /\ now + RetryDelay \in Nat /\ now + RetryDelay >= q
  BY <1>2, AutomationConstants
<1>4. CASE wakes[q].token # t
  <2>1. wakes' = wakes /\ automation' = automation /\ Stop(w)
    BY <1>1, <1>4 DEF Retry
  <2> QED BY <2>1, StopKeeps
<1>5. CASE wakes[q].token = t
  <2>1. wakes \in [Times -> WakeRows] /\ wakes[q] \in WakeRows
    BY <1>3 DEF AutomationInv, AutomationTypes, AutomationTypeOK, WakeRows
  <2>2. PICK row : row = [wakes[q] EXCEPT !.available = now + RetryDelay, !.token = NoTime, !.expires = NoTime]
    OBVIOUS
  <2>3. row \in WakeRows /\ row.available = now + RetryDelay /\ row.token = NoTime /\ row.expires = NoTime
    BY <1>3, <2>1, <2>2 DEF WakeRows
  <2>4. wakes' = [wakes EXCEPT ![q] = row] /\ automation' = automation /\ worker' = [worker EXCEPT ![w] = Idle]
    BY <1>1, <1>5, <2>2 DEF Retry, Stop
  <2>5. wakes' \in [Times -> WakeRows] /\ \A p \in Times : wakes'[p] = IF p = q THEN row ELSE wakes[p]
    BY <2>1, <2>3, <2>4
  <2>6. row # NoWake /\ tokens \in Nat
    BY <1>3, <2>3, AutomationConstants DEF AutomationInv, AutomationTypes
  <2>7. /\ worker' \in [Workers -> FirerStates]
        /\ \A v \in Workers : FirerOK(worker[v])' /\ worker'[v] = IF v = w THEN Idle ELSE worker[v]
    <3>1. now' = now /\ automation'.cadence = automation.cadence /\ anchors \subseteq anchors' /\ tokens' \in Nat /\ tokens <= tokens'
      BY <2>4, <2>6
    <3>2. Idle \in FirerStates /\ FirerOK(Idle)'
      BY WorkerFacts
    <3> QED BY <2>4, <3>1, <3>2, FirersKept
  <2>8. AutomationTypes'
    <3>1. \A p \in Times : wakes'[p].token = NoTime <=> wakes'[p].expires = NoTime
      BY <2>3, <2>5 DEF AutomationInv, AutomationTypes, AutomationTypeOK
    <3> QED BY <2>4, <2>5, <2>7, <3>1 DEF AutomationInv, AutomationTypes, AutomationTypeOK, WakeRows
  <2>9. ASSUME NEW p \in Times PROVE RowOnSchedule(p)'
    <3>1. Scheduled' = Scheduled /\ OnGrid(p)' = OnGrid(p) /\ tokens' = tokens /\ RowOnSchedule(p)
      BY <2>4 DEF Scheduled, OnGrid, AutomationInv
    <3>2. CASE p = q
      BY <1>2, <1>3, <2>3, <2>5, <3>1, <3>2 DEF RowOnSchedule
    <3>3. CASE p # q
      <4>1. wakes'[p] = wakes[p]
        BY <2>5, <3>3
      <4> QED BY <3>1, <4>1 DEF RowOnSchedule
    <3> QED BY <3>2, <3>3
  <2>10. (\A v \in Workers : HasSuccessor(worker[v])') /\ KeepsGoing'
    <3>1. \A p \in Times : /\ wakes[p] # NoWake => wakes'[p] # NoWake
                           /\ wakes'[p].token \in {wakes[p].token, NoTime, tokens}
      BY <2>3, <2>5, <2>6
    <3>2. HasSuccessor(Idle)'
      BY WorkerFacts
    <3> QED BY <2>4, <2>7, <3>1, <3>2, SuccessorsKept
  <2>11. OnSchedule' /\ DailyWithinLimit'
    BY <2>4, TasksKept
  <2>12. Unborn'
    BY <1>2, <2>4 DEF Unborn, Scheduled
  <2> QED BY <2>7, <2>8, <2>9, <2>10, <2>11, <2>12 DEF AutomationInv
<1> QED BY <1>4, <1>5

LEMMA FirerFails ==
  ASSUME AutomationInv, NEW w \in Workers, HandleError(w)
  PROVE  AutomationInv'
<1>1. /\ worker[w].pc \in {"failed", "limit"} /\ worker[w] # Idle /\ worker[w].pc # "idle"
      /\ UNCHANGED <<now, tasks, tokens, anchors, lapsed>>
  BY WorkerFacts DEF HandleError
<1>2. automation.cadence # "none"
  BY <1>1, Born
<1>3. CASE Stop(w) /\ UNCHANGED <<automation, wakes>>
  BY <1>1, <1>3, StopKeeps
<1>4. CASE Retry(w) /\ worker[w].row # NoTime /\ worker[w].pc = "failed"
  BY <1>1, <1>4, RetryKeeps
<1>5. CASE /\ worker[w].row # NoTime /\ Goto(w, "done") /\ wakes' = Cleared
           /\ automation' = [automation EXCEPT !.enabled = FALSE, !.next = NoTime]
  <2>1. /\ automation' \in [exists : BOOLEAN, enabled : BOOLEAN, cadence : Cadences \cup {"none"}, next : Times \cup {NoTime}]
        /\ automation'.cadence = automation.cadence /\ automation'.enabled = FALSE
    BY <1>5 DEF AutomationInv, AutomationTypes, AutomationTypeOK
  <2>2. PICK r \in FirerStates : worker' = [worker EXCEPT ![w] = r] /\ FirerOK(r)'
    <3>1. "done" \in AutomationStages \ {"idle"}
      BY DEF AutomationStages
    <3> QED BY <1>1, <1>5, <2>1, <3>1, GotoFacts
  <2>3. tokens \in Nat /\ anchors' \subseteq Nat /\ lapsed' \in BOOLEAN
    BY <1>1 DEF AutomationInv, AutomationTypes
  <2>4. worker' \in [Workers -> FirerStates] /\ \A v \in Workers : FirerOK(worker[v])'
    <3>1. now' = now /\ automation'.cadence = automation.cadence /\ anchors \subseteq anchors' /\ tokens' \in Nat /\ tokens <= tokens'
      BY <1>1, <2>1, <2>3
    <3> QED BY <2>2, <3>1, FirersKept
  <2>5. wakes' \in [Times -> WakeRows] /\ \A p \in Times : wakes'[p] = NoWake /\ wakes'[p].token = NoTime /\ wakes'[p].expires = NoTime
    BY <1>5, ClearedFacts
  <2>6. (\A p \in Times : RowOnSchedule(p)') /\ KeepsGoing'
    BY <2>1, <2>5 DEF RowOnSchedule, KeepsGoing
  <2> QED BY <1>1, <1>2, <2>1, <2>3, <2>4, <2>5, <2>6, QueueReplaced
<1> QED BY <1>1, <1>3, <1>4, <1>5 DEF HandleError, PauseAutomation

\* What the user does leaves the workers where they are.
LEMMA OthersKept ==
  ASSUME AutomationInv, worker' = worker, now <= now', now' \in 0 .. MaxNow, automation'.cadence = automation.cadence,
         anchors \subseteq anchors', tokens' = tokens
  PROVE  worker' \in [Workers -> FirerStates] /\ \A w \in Workers : FirerOK(worker[w])'
<1>1. tokens \in Nat /\ tokens <= tokens' /\ worker' \in [Workers -> FirerStates]
  BY DEF AutomationInv, AutomationTypes
<1>2. ASSUME NEW w \in Workers PROVE FirerOK(worker[w])'
  <2>1. PICK x : x = worker[w]
    OBVIOUS
  <2>2. FirerOK(x)
    BY <2>1 DEF AutomationInv
  <2>3. FirerOK(x)'
    BY <1>1, <2>2, FirerKept DEF AutomationInv
  <2> QED BY <2>1, <2>3 DEF FirerOK
<1> QED BY <1>1, <1>2

LEMMA SetEnabledKeeps ==
  ASSUME AutomationInv, NEW enabled \in BOOLEAN, SetEnabled(enabled)
  PROVE  AutomationInv'
<1>1. PICK next : next = IF enabled THEN NextWake(automation.cadence, now) ELSE NoTime
  OBVIOUS
<1>2. /\ automation.exists /\ automation' = [automation EXCEPT !.enabled = enabled, !.next = next]
      /\ wakes' = Enqueue(Cleared, next) /\ anchors' = IF enabled THEN anchors \cup {now} ELSE anchors
      /\ lapsed' = FALSE /\ UNCHANGED <<now, tasks, worker, tokens>>
  BY <1>1 DEF SetEnabled
<1>3. automation.cadence # "none" /\ now \in 0 .. MaxNow /\ now \in Nat /\ now <= now' /\ anchors' \subseteq Nat /\ anchors \subseteq anchors'
  BY <1>2, AutomationConstants DEF AutomationInv, AutomationTypes, AutomationTypeOK
<1>4. automation.cadence \in {"interval", "daily", "event"}
  BY <1>3, BotAutomationAssumption DEF AutomationInv, AutomationTypes, AutomationTypeOK
<1>5. enabled /\ automation.cadence # "event" => next \in Times /\ next # NoTime /\ Scheduled' /\ OnGrid(next)'
  <2> SUFFICES ASSUME enabled, automation.cadence # "event" PROVE next \in Times /\ next # NoTime /\ Scheduled' /\ OnGrid(next)'
    OBVIOUS
  <2>1. automation'.cadence = automation.cadence
    BY <1>2 DEF AutomationInv, AutomationTypes, AutomationTypeOK
  <2>2. now \in anchors' /\ now' = now /\ next = NextWake(automation'.cadence, now) /\ automation'.cadence \in {"interval", "daily"}
    BY <1>1, <1>2, <1>4, <2>1
  <2> QED BY <2>2, NextFromNow DEF AutomationInv, Scheduled
<1>6. ~enabled \/ automation.cadence = "event" => next = NoTime
  BY <1>1 DEF NextWake
<1>7. /\ automation' \in [exists : BOOLEAN, enabled : BOOLEAN, cadence : Cadences \cup {"none"}, next : Times \cup {NoTime}]
      /\ automation'.cadence = automation.cadence /\ automation'.exists /\ automation'.enabled = enabled
  BY <1>2, <1>5, <1>6 DEF AutomationInv, AutomationTypes, AutomationTypeOK
<1>8. /\ wakes' \in [Times -> WakeRows] /\ \A p \in Times : wakes'[p].token = NoTime /\ wakes'[p].expires = NoTime
      /\ \A p \in Times : RowOnSchedule(p)'
      /\ KeepsGoing'
  <2>1. CASE next = NoTime
    <3>1. wakes' = Cleared /\ ~(enabled /\ automation.cadence # "event")
      BY <1>2, <1>5, <2>1 DEF Enqueue
    <3> QED BY <1>7, <3>1, ClearedFacts DEF RowOnSchedule, KeepsGoing
  <2>2. CASE next # NoTime
    <3>1. next \in Times /\ Scheduled' /\ OnGrid(next)'
      BY <1>5, <1>6, <2>2
    <3>2. PICK rows : rows = Cleared
      OBVIOUS
    <3>3. rows \in [Times -> WakeRows] /\ \A p \in Times : rows[p] = NoWake /\ rows[p].token = NoTime /\ rows[p].expires = NoTime
      BY <3>2, ClearedFacts
    <3>4. /\ wakes' \in [Times -> WakeRows] /\ wakes'[next] # NoWake
          /\ \A p \in Times : wakes'[p].token = NoTime <=> wakes'[p].expires = NoTime
          /\ \A p \in Times : RowOnSchedule(p)'
          /\ \A p \in Times : wakes'[p].token = rows[p].token /\ (rows[p] # NoWake => wakes'[p] # NoWake)
      BY <1>2, <3>1, <3>2, <3>3, QueueFacts
    <3> QED BY <3>1, <3>3, <3>4 DEF KeepsGoing
  <2> QED BY <2>1, <2>2
<1>9. worker' \in [Workers -> FirerStates] /\ \A w \in Workers : FirerOK(worker[w])'
  BY <1>2, <1>3, <1>7, OthersKept
<1> QED BY <1>2, <1>3, <1>7, <1>8, <1>9, QueueReplaced

LEMMA DeleteKeeps ==
  ASSUME AutomationInv, Delete
  PROVE  AutomationInv'
<1>1. /\ automation.exists /\ automation' = [automation EXCEPT !.exists = FALSE, !.enabled = FALSE] /\ wakes' = Cleared
      /\ UNCHANGED <<now, tasks, worker, tokens, anchors, lapsed>>
  BY DEF Delete
<1>2. /\ automation.cadence # "none" /\ now \in 0 .. MaxNow /\ now \in Nat /\ now <= now' /\ anchors' \subseteq Nat /\ lapsed' \in BOOLEAN
      /\ automation' \in [exists : BOOLEAN, enabled : BOOLEAN, cadence : Cadences \cup {"none"}, next : Times \cup {NoTime}]
      /\ automation'.cadence = automation.cadence /\ automation'.enabled = FALSE
  <2>1. /\ automation.cadence # "none" /\ now \in 0 .. MaxNow /\ now' = now /\ anchors' = anchors /\ anchors \subseteq Nat
        /\ lapsed' = lapsed /\ lapsed \in BOOLEAN
    BY <1>1 DEF AutomationInv, AutomationTypes, AutomationTypeOK
  <2>2. /\ automation' \in [exists : BOOLEAN, enabled : BOOLEAN, cadence : Cadences \cup {"none"}, next : Times \cup {NoTime}]
        /\ automation'.cadence = automation.cadence /\ automation'.enabled = FALSE
    BY <1>1 DEF AutomationInv, AutomationTypes, AutomationTypeOK
  <2>3. now \in Nat /\ now <= now'
    BY <2>1, AutomationConstants
  <2> QED BY <2>1, <2>2, <2>3
<1>3. \A p \in Times : wakes'[p] = NoWake /\ wakes'[p].token = NoTime /\ wakes'[p].expires = NoTime
  BY <1>1, ClearedFacts
<1>4. (\A p \in Times : RowOnSchedule(p)') /\ KeepsGoing' /\ wakes' \in [Times -> WakeRows]
  BY <1>1, <1>2, <1>3, ClearedFacts DEF RowOnSchedule, KeepsGoing
<1>5. worker' \in [Workers -> FirerStates] /\ \A w \in Workers : FirerOK(worker[w])'
  BY <1>1, <1>2, OthersKept
<1> QED BY <1>1, <1>2, <1>3, <1>4, <1>5, QueueReplaced

LEMMA CreateKeeps ==
  ASSUME AutomationInv, NEW cadence \in Cadences, Create(cadence)
  PROVE  AutomationInv'
<1>1. PICK next : next = NextWake(cadence, now)
  OBVIOUS
<1>2. /\ automation.cadence = "none" /\ wakes' = Enqueue(wakes, next) /\ anchors' = {now}
      /\ automation' = [exists |-> TRUE, enabled |-> TRUE, cadence |-> cadence, next |-> next]
      /\ UNCHANGED <<now, tasks, worker, tokens, lapsed>>
  BY <1>1 DEF Create
<1>3. /\ anchors = {} /\ \A w \in Workers : worker[w] = Idle
      /\ \A o \in Times : wakes[o] = NoWake /\ tasks[o] = NoTime
      /\ now \in 0 .. MaxNow /\ now \in Nat /\ wakes \in [Times -> WakeRows]
  BY <1>2, AutomationConstants DEF AutomationInv, Unborn, AutomationTypes, AutomationTypeOK, WakeRows
<1>4. cadence \in {"interval", "daily", "event"}
  BY BotAutomationAssumption
<1>5. cadence # "event" => next \in Times /\ next # NoTime /\ Scheduled' /\ OnGrid(next)'
  <2> SUFFICES ASSUME cadence # "event" PROVE next \in Times /\ next # NoTime /\ Scheduled' /\ OnGrid(next)'
    OBVIOUS
  <2>1. now \in anchors' /\ now' = now /\ next = NextWake(automation'.cadence, now) /\ automation'.cadence \in {"interval", "daily"}
    BY <1>1, <1>2, <1>4
  <2> QED BY <2>1, NextFromNow DEF AutomationInv, Scheduled
<1>6. cadence = "event" => next = NoTime
  BY <1>1 DEF NextWake
<1>7. /\ automation' \in [exists : BOOLEAN, enabled : BOOLEAN, cadence : Cadences \cup {"none"}, next : Times \cup {NoTime}]
      /\ automation'.cadence = cadence /\ automation'.exists /\ automation'.enabled /\ cadence # "none"
  BY <1>2, <1>4, <1>5, <1>6
<1>8. /\ wakes' \in [Times -> WakeRows] /\ \A p \in Times : wakes'[p].token = NoTime <=> wakes'[p].expires = NoTime
      /\ \A p \in Times : RowOnSchedule(p)'
      /\ KeepsGoing'
  <2>1. CASE next = NoTime
    <3>1. wakes' = wakes /\ cadence = "event"
      BY <1>2, <1>5, <2>1 DEF Enqueue
    <3> QED BY <1>3, <1>7, <3>1, AutomationConstants DEF RowOnSchedule, KeepsGoing
  <2>2. CASE next # NoTime
    <3>1. next \in Times /\ Scheduled' /\ OnGrid(next)'
      BY <1>4, <1>5, <1>6, <2>2
    <3>2. \A p \in Times : wakes[p] = NoWake /\ wakes[p].token = NoTime /\ wakes[p].expires = NoTime
      BY <1>3, AutomationConstants
    <3>3. /\ wakes' \in [Times -> WakeRows] /\ wakes'[next] # NoWake
          /\ \A p \in Times : wakes'[p].token = NoTime <=> wakes'[p].expires = NoTime
          /\ \A p \in Times : RowOnSchedule(p)'
      BY <1>2, <1>3, <3>1, <3>2, QueueFacts
    <3> QED BY <3>1, <3>3 DEF KeepsGoing
  <2> QED BY <2>1, <2>2
<1>9. AutomationTypes'
  BY <1>2, <1>3, <1>7, <1>8 DEF AutomationInv, AutomationTypes, AutomationTypeOK, WakeRows
<1>10. \A w \in Workers : FirerOK(worker[w])' /\ HasSuccessor(worker[w])'
  BY <1>2, <1>3 DEF FirerOK, HasSuccessor, Idle
<1>11. OnSchedule'
  BY <1>2, <1>3 DEF OnSchedule
<1>12. DailyWithinLimit'
  BY <1>2 DEF AutomationInv, DailyWithinLimit, DayOf
<1>13. Unborn'
  BY <1>7 DEF Unborn
<1> QED BY <1>8, <1>9, <1>10, <1>11, <1>12, <1>13 DEF AutomationInv

LEMMA AutomationTickKeeps ==
  ASSUME AutomationInv, Tick
  PROVE  AutomationInv'
<1>1. now < MaxNow /\ now' = now + 1 /\ UNCHANGED <<automation, wakes, tasks, worker, tokens, anchors, lapsed>>
  BY DEF Tick
<1>2. now \in 0 .. MaxNow /\ now' \in 0 .. MaxNow /\ now <= now'
  BY <1>1, AutomationConstants DEF AutomationInv, AutomationTypes, AutomationTypeOK
<1>3. AutomationTypes'
  BY <1>1, <1>2 DEF AutomationInv, AutomationTypes, AutomationTypeOK
<1>4. \A w \in Workers : FirerOK(worker[w])' /\ HasSuccessor(worker[w])'
  BY <1>1, <1>2, OthersKept DEF AutomationInv, HasSuccessor
<1>5. (\A o \in Times : RowOnSchedule(o)') /\ KeepsGoing' /\ Unborn'
  BY <1>1 DEF AutomationInv, RowOnSchedule, Scheduled, OnGrid, KeepsGoing, Unborn
<1>6. OnSchedule' /\ DailyWithinLimit'
  BY <1>1, TasksKept
<1> QED BY <1>3, <1>4, <1>5, <1>6 DEF AutomationInv

LEMMA AutomationStarts ==
  ASSUME AutomationInit
  PROVE  AutomationInv
<1>1. /\ automation = [exists |-> FALSE, enabled |-> FALSE, cadence |-> "none", next |-> NoTime]
      /\ now = 0 /\ tokens = 0 /\ anchors = {} /\ lapsed = FALSE
      /\ wakes \in [Times -> WakeRows] /\ \A o \in Times : wakes[o] = NoWake
      /\ tasks \in [Keys -> 0 .. MaxNow \cup {NoTime}] /\ \A k \in Keys : tasks[k] = NoTime
      /\ worker = [w \in Workers |-> Idle]
  BY AutomationConstants DEF AutomationInit
<1>2. worker \in [Workers -> FirerStates] /\ \A w \in Workers : FirerOK(worker[w]) /\ HasSuccessor(worker[w]) /\ worker[w] = Idle
  BY <1>1 DEF FirerStates, AutomationStages, Idle, FirerOK, HasSuccessor
<1>3. AutomationTypes
  <2>1. automation \in [exists : BOOLEAN, enabled : BOOLEAN, cadence : Cadences \cup {"none"}, next : Times \cup {NoTime}]
        /\ ~automation.enabled /\ ~automation.exists
    BY <1>1
  <2>2. \A o \in Times : wakes[o].token = NoTime <=> wakes[o].expires = NoTime
    BY <1>1, AutomationConstants
  <2>3. now \in 0 .. MaxNow /\ tokens \in Nat /\ anchors \subseteq Nat
    BY <1>1, AutomationConstants
  <2>4. lapsed \in BOOLEAN
    BY <1>1
  <2> QED BY <1>1, <1>2, <2>1, <2>2, <2>3, <2>4 DEF AutomationTypes, AutomationTypeOK, WakeRows
<1>4. (\A o \in Times : RowOnSchedule(o)) /\ KeepsGoing
  BY <1>1 DEF RowOnSchedule, KeepsGoing
<1>5. Unborn /\ OnSchedule
  BY <1>1, <1>2 DEF Unborn, OnSchedule, Keys
<1>6. DailyWithinLimit
  <2>1. \A day : {k \in Keys : tasks[k] # NoTime /\ DayOf(tasks[k]) = day} = {}
    BY <1>1
  <2> QED BY <2>1, FS_EmptySet, AutomationConstants DEF DailyWithinLimit
<1> QED BY <1>2, <1>3, <1>4, <1>5, <1>6 DEF AutomationInv

LEMMA AutomationMoves ==
  ASSUME AutomationInv, [AutomationNext]_automationVars
  PROVE  AutomationInv'
<1>1. CASE UNCHANGED automationVars
  <2>1. AutomationTypes' /\ \A w \in Workers : FirerOK(worker[w])' /\ HasSuccessor(worker[w])'
    BY <1>1 DEF automationVars, AutomationInv, AutomationTypes, AutomationTypeOK, FirerOK, HasSuccessor, Scheduled, OnGrid
  <2>2. (\A o \in Times : RowOnSchedule(o)') /\ KeepsGoing' /\ Unborn'
    BY <1>1 DEF automationVars, AutomationInv, RowOnSchedule, Scheduled, OnGrid, KeepsGoing, Unborn
  <2>3. OnSchedule' /\ DailyWithinLimit'
    BY <1>1, TasksKept DEF automationVars
  <2> QED BY <2>1, <2>2, <2>3 DEF AutomationInv
<1>2. CASE AutomationNext
  BY <1>2, FirerClaims, FirerRuns, FirerFires, FirerAcks, FirerFails, FirerCrashes, FirerDelivers,
     CreateKeeps, SetEnabledKeeps, DeleteKeeps, AutomationTickKeeps DEF AutomationNext
<1> QED BY <1>1, <1>2

\* An enabled schedule never dies, tasks come from the schedule and not before they are
\* due, and the tasks of a day stay within the plan, for any number of workers, any
\* period and any number of claims: claim, ack and retry against fireAutomation,
\* pauseAutomation and the user's own transactions.
THEOREM AutomationsHold == AutomationSpec => []AutomationsSound
<1>1. AutomationInit => AutomationInv
  BY AutomationStarts
<1>2. AutomationInv /\ [AutomationNext]_automationVars => AutomationInv'
  BY AutomationMoves
<1>3. AutomationInv => AutomationsSound
  BY DEF AutomationInv, AutomationTypes, AutomationsSound
<1> QED BY <1>1, <1>2, <1>3, PTL DEF AutomationSpec
=============================================================================
