--------------------------- MODULE AccountsProofs ---------------------------
(***************************************************************************)
(* Proofs about what one user is answerable for: the approvals given to    *)
(* the bot, the sandbox sessions of the backend registry, the single-flight *)
(* maps of the sandbox runtime, the slots of the local runner, the compute *)
(* that is charged, the external actions of a browser session and the      *)
(* items, builds and layout of a project, for any number of actions, rows, *)
(* profiles, keys, model calls and overlapping requests.                   *)
(***************************************************************************)
EXTENDS MCAccounts, FiniteSetTheorems, WellFoundedInduction, TLAPS

-----------------------------------------------------------------------------
(* Approvals (bot/control-store.ts, bot/autonomy.ts) *)

ApprovalRow == [action : BotActions, status : {"pending", "approved", "rejected", "expired", "consumed"}, live : BOOLEAN]

ApprovalTypeOK ==
  /\ autonomy \in Levels
  /\ DOMAIN approval = ApprovalIds
  /\ \A i \in ApprovalIds : approval[i] # NoApproval => approval[i] \in ApprovalRow
  /\ approvedFor \in [BotActions -> Nat] /\ performed \in [BotActions -> Nat]

\* The partial unique index of bot_approvals: one row of an action is pending or approved.
OneOpen == \A a \in BotActions : \A i, j \in OpenFor(a) : i = j

\* An approved row that is not consumed yet is one approval more than was used.
ApprovalLeft ==
  \A a \in BotActions :
    /\ performed[a] <= approvedFor[a]
    /\ \A i \in OpenFor(a) : approval[i].status = "approved" => performed[a] < approvedFor[a]

ApprovalInv == ApprovalTypeOK /\ OneOpen /\ ApprovalLeft

\* Changing rows without opening or approving any, and without counting, keeps the invariant.
LEMMA RowsClose ==
  ASSUME ApprovalInv, autonomy' \in Levels, UNCHANGED <<approvedFor, performed>>, DOMAIN approval' = ApprovalIds,
         \A i \in ApprovalIds :
           \/ approval'[i] = approval[i]
           \/ /\ approval[i] # NoApproval /\ approval'[i] \in ApprovalRow
              /\ approval'[i].action = approval[i].action
              /\ approval'[i].status \in {approval[i].status, "rejected", "expired", "consumed"}
  PROVE  ApprovalInv'
<1>1. ApprovalTypeOK'
  BY DEF ApprovalInv, ApprovalTypeOK
<1>2. \A a \in BotActions : \A i \in OpenFor(a)' : i \in OpenFor(a) /\ approval'[i].status = approval[i].status
  BY DEF OpenFor
<1>3. OneOpen' /\ ApprovalLeft'
  BY <1>2 DEF ApprovalInv, OneOpen, ApprovalLeft
<1> QED BY <1>1, <1>3 DEF ApprovalInv

\* requestApproval inserts a row only where no row of the action is open.
LEMMA RequestKeeps ==
  ASSUME ApprovalInv, NEW a \in BotActions, RequestApproval(a)
  PROVE  ApprovalInv'
<1>1. CASE OpenFor(a) # {}
  BY <1>1, RowsClose DEF RequestApproval, ApprovalInv, ApprovalTypeOK
<1>2. CASE OpenFor(a) = {}
  <2> DEFINE row == [action |-> a, status |-> "pending", live |-> TRUE]
  <2>1. PICK i \in ApprovalIds : approval[i] = NoApproval /\ approval' = [approval EXCEPT ![i] = row]
    BY <1>2 DEF RequestApproval
  <2>2. UNCHANGED <<autonomy, approvedFor, performed>>
    BY DEF RequestApproval
  <2>3. row \in ApprovalRow /\ row.action = a /\ row.status = "pending"
    BY DEF ApprovalRow
  <2> HIDE DEF row
  <2>4. \A j \in ApprovalIds : approval'[j] = IF j = i THEN row ELSE approval[j]
    BY <2>1 DEF ApprovalInv, ApprovalTypeOK
  <2>5. ApprovalTypeOK'
    BY <2>1, <2>2, <2>3, <2>4 DEF ApprovalInv, ApprovalTypeOK
  <2>6. \A b \in BotActions : \A j \in OpenFor(b)' : IF j = i THEN b = a ELSE j \in OpenFor(b) /\ approval'[j] = approval[j]
    BY <2>3, <2>4 DEF OpenFor
  <2>7. OneOpen'
    BY <1>2, <2>6 DEF ApprovalInv, OneOpen
  <2>8. ApprovalLeft'
    <3>1. approval'[i].status # "approved"
      BY <2>3, <2>4
    <3> QED BY <2>2, <2>6, <3>1 DEF ApprovalInv, ApprovalLeft
  <2> QED BY <2>5, <2>7, <2>8 DEF ApprovalInv
<1> QED BY <1>1, <1>2

\* decideApproval turns the one open row of its action into an approval that is counted.
LEMMA DecideKeeps ==
  ASSUME ApprovalInv, NEW i \in ApprovalIds, NEW d \in {"approve", "reject"}, DecideApproval(i, d)
  PROVE  ApprovalInv'
<1>1. approval[i] # NoApproval /\ approval[i] \in ApprovalRow /\ approval[i].status = "pending" /\ approval[i].action \in BotActions
  BY DEF DecideApproval, ApprovalInv, ApprovalTypeOK, ApprovalRow
<1> DEFINE a == approval[i].action
           row == [approval[i] EXCEPT !.status = IF d = "approve" THEN "approved" ELSE "rejected"]
<1>2. row \in ApprovalRow /\ row.action = a /\ row.status = (IF d = "approve" THEN "approved" ELSE "rejected")
  BY <1>1 DEF ApprovalRow
<1>3. approval' = [approval EXCEPT ![i] = row] /\ UNCHANGED <<autonomy, performed>>
      /\ approvedFor' = IF d = "approve" THEN [approvedFor EXCEPT ![a] = @ + 1] ELSE approvedFor
  BY DEF DecideApproval
<1> HIDE DEF row
<1>4. \A j \in ApprovalIds : approval'[j] = IF j = i THEN row ELSE approval[j]
  BY <1>3 DEF ApprovalInv, ApprovalTypeOK
<1>5. i \in OpenFor(a)
  BY <1>1 DEF OpenFor
<1>6. /\ approvedFor' \in [BotActions -> Nat]
      /\ \A b \in BotActions : approvedFor'[b] = IF b = a /\ d = "approve" THEN approvedFor[b] + 1 ELSE approvedFor[b]
  BY <1>1, <1>3 DEF ApprovalInv, ApprovalTypeOK
<1>7. ApprovalTypeOK'
  BY <1>2, <1>3, <1>4, <1>6 DEF ApprovalInv, ApprovalTypeOK
<1>8. \A b \in BotActions : \A j \in OpenFor(b)' :
        j \in OpenFor(b) /\ (j # i => approval'[j] = approval[j]) /\ (j = i => b = a /\ d = "approve")
  BY <1>1, <1>2, <1>4 DEF OpenFor
<1>9. OneOpen'
  BY <1>8 DEF ApprovalInv, OneOpen
<1>10. ApprovalLeft'
  <2>1. \A b \in BotActions : performed[b] \in Nat /\ approvedFor[b] \in Nat
    BY DEF ApprovalInv, ApprovalTypeOK
  <2>2. \A b \in BotActions : performed'[b] <= approvedFor'[b]
    BY <1>3, <1>6, <2>1 DEF ApprovalInv, ApprovalLeft
  <2>3. ASSUME NEW b \in BotActions, NEW j \in OpenFor(b)', approval'[j].status = "approved"
        PROVE  performed'[b] < approvedFor'[b]
    <3>1. CASE j = i
      BY <1>3, <1>6, <1>8, <2>1, <3>1 DEF ApprovalInv, ApprovalLeft
    <3>2. CASE j # i
      <4>1. j \in OpenFor(b) /\ approval[j].status = "approved"
        BY <1>8, <2>3, <3>2
      <4>2. performed[b] < approvedFor[b]
        BY <4>1 DEF ApprovalInv, ApprovalLeft
      <4> QED BY <1>3, <1>6, <2>1, <4>2
    <3> QED BY <3>1, <3>2
  <2> QED BY <2>2, <2>3 DEF ApprovalLeft
<1> QED BY <1>7, <1>9, <1>10 DEF ApprovalInv

\* consumeApproval: the approval it uses is the action's only open row, and was counted when it was given.
LEMMA ConsumeKeeps ==
  ASSUME ApprovalInv, NEW a \in BotActions, ConsumeApproval(a)
  PROVE  ApprovalInv'
<1>1. PICK i \in OpenFor(a) :
        /\ approval[i].status = "approved"
        /\ approval' = [approval EXCEPT ![i].status = "consumed"]
        /\ performed' = [performed EXCEPT ![a] = @ + 1]
        /\ UNCHANGED <<autonomy, asked, approvedFor>>
  BY DEF ConsumeApproval
<1>2. i \in ApprovalIds /\ approval[i] # NoApproval /\ approval[i] \in ApprovalRow
  BY DEF OpenFor, ApprovalInv, ApprovalTypeOK
<1> DEFINE row == [approval[i] EXCEPT !.status = "consumed"]
<1>3. row \in ApprovalRow /\ row.status = "consumed"
  BY <1>2 DEF ApprovalRow
<1>4. \A j \in ApprovalIds : approval'[j] = IF j = i THEN row ELSE approval[j]
  BY <1>1 DEF ApprovalInv, ApprovalTypeOK
<1> HIDE DEF row
<1>5. \A b \in BotActions : performed'[b] = (IF b = a THEN performed[b] + 1 ELSE performed[b]) /\ performed[b] \in Nat
                            /\ approvedFor[b] \in Nat
  BY <1>1 DEF ApprovalInv, ApprovalTypeOK
<1>6. ApprovalTypeOK'
  BY <1>1, <1>3, <1>4 DEF ApprovalInv, ApprovalTypeOK
<1>7. \A b \in BotActions : \A j \in OpenFor(b)' : j \in OpenFor(b) /\ j # i /\ approval'[j] = approval[j]
  BY <1>3, <1>4 DEF OpenFor
<1>8. OpenFor(a)' = {}
  BY <1>7 DEF ApprovalInv, OneOpen
<1>9. performed[a] < approvedFor[a]
  BY <1>1 DEF ApprovalInv, ApprovalLeft
<1>10. OneOpen'
  BY <1>7 DEF ApprovalInv, OneOpen
<1>11. ApprovalLeft'
  BY <1>1, <1>5, <1>7, <1>8, <1>9 DEF ApprovalInv, ApprovalLeft
<1> QED BY <1>6, <1>10, <1>11 DEF ApprovalInv

\* Every transaction on the approvals, and every expiry, keeps the invariant.
LEMMA ApprovalStep == ApprovalInv /\ [ApprovalNext]_approvalVars => ApprovalInv'
<1> SUFFICES ASSUME ApprovalInv, [ApprovalNext]_approvalVars PROVE ApprovalInv'
  OBVIOUS
<1>0. DOMAIN approval = ApprovalIds /\ \A i \in ApprovalIds : approval[i] # NoApproval => approval[i] \in ApprovalRow
  BY DEF ApprovalInv, ApprovalTypeOK
<1>1. ASSUME NEW level \in Levels, SetBotAutonomy(level) PROVE ApprovalInv'
  BY <1>0, <1>1, RowsClose DEF SetBotAutonomy
<1>2. ASSUME NEW i \in ApprovalIds, ApprovalExpires(i) PROVE ApprovalInv'
  <2>1. approval[i] \in ApprovalRow /\ approval[i] # NoApproval /\ approval' = [approval EXCEPT ![i] = [approval[i] EXCEPT !.live = FALSE]]
    BY <1>0, <1>2 DEF ApprovalExpires
  <2>2. /\ [approval[i] EXCEPT !.live = FALSE] \in ApprovalRow
        /\ [approval[i] EXCEPT !.live = FALSE].action = approval[i].action
        /\ [approval[i] EXCEPT !.live = FALSE].status = approval[i].status
    BY <2>1 DEF ApprovalRow
  <2>3. /\ DOMAIN approval' = ApprovalIds
        /\ \A j \in ApprovalIds : approval'[j] = IF j = i THEN [approval[i] EXCEPT !.live = FALSE] ELSE approval[j]
    BY <1>0, <2>1
  <2>4. autonomy' \in Levels /\ UNCHANGED <<approvedFor, performed>>
    BY <1>2 DEF ApprovalExpires, ApprovalInv, ApprovalTypeOK
  <2> QED BY <2>1, <2>2, <2>3, <2>4, RowsClose
<1>3. CASE ListApprovals
  <2>1. ASSUME NEW i \in ApprovalIds, approval[i] # NoApproval
        PROVE  /\ [approval[i] EXCEPT !.status = "expired"] \in ApprovalRow
               /\ [approval[i] EXCEPT !.status = "expired"].action = approval[i].action
               /\ [approval[i] EXCEPT !.status = "expired"].status = "expired"
    BY <1>0, <2>1 DEF ApprovalRow
  <2> QED BY <1>0, <1>3, <2>1, RowsClose DEF ListApprovals, ApprovalInv, ApprovalTypeOK
<1>4. CASE UNCHANGED approvalVars
  BY <1>0, <1>4, RowsClose DEF approvalVars, ApprovalInv, ApprovalTypeOK
<1> QED
  BY <1>1, <1>2, <1>3, <1>4, RequestKeeps, DecideKeeps, ConsumeKeeps DEF ApprovalNext

\* A set without two members has at most one element.
LEMMA AtMostOne ==
  ASSUME NEW S, \A i, j \in S : i = j PROVE Cardinality(S) <= 1
<1>1. CASE S = {}
  BY <1>1, FS_EmptySet
<1>2. ASSUME NEW i \in S PROVE Cardinality(S) <= 1
  <2>1. S = {i}
    OBVIOUS
  <2>2. Cardinality({i}) = 1
    BY FS_Singleton
  <2> QED BY <2>1, <2>2
<1> QED BY <1>1, <1>2

\* What assessBotAction allows without asking: at every level, nothing forbidden, gated or critical, and
\* nothing external that is irreversible or comes before level 3.
LEMMA AllowedAlone ==
  ASSUME NEW level \in Levels, NEW a \in BotActions, AssessBotAction(level, a) = "allow"
  PROVE  a.type = "other" /\ a.risk # "critical" /\ (a.externalSideEffect => a.reversible /\ level >= 3)
<1>1. a \in [type : {"gated", "forbidden", "other"}, risk : {"low", "high", "critical"},
             reversible : BOOLEAN, externalSideEffect : BOOLEAN]
  BY BotActionsAssumption
<1>2. a.type \in {"gated", "forbidden", "other"} /\ a.reversible \in BOOLEAN /\ a.externalSideEffect \in BOOLEAN
  BY <1>1
<1>3. a.type = "other" /\ a.risk # "critical"
  BY <1>2 DEF AssessBotAction
<1>4. level \in {0, 1, 2, 3, 4}
  BY DEF Levels
<1>5. ASSUME a.externalSideEffect PROVE a.reversible /\ level >= 3
  BY <1>3, <1>4, <1>5 DEF AssessBotAction
<1> QED BY <1>3, <1>5

\* However levels change, requests repeat and rows expire, an action is performed at most as often as the user
\* approved it, and no level lets a forbidden, gated or irreversible external action through on its own
\* (control-store.ts 67-195, autonomy.ts 35-120).
THEOREM ApprovalsHold == ApprovalSpec => []ApprovalsExact
<1>1. ApprovalInit => ApprovalInv
  BY DEF ApprovalInit, ApprovalInv, ApprovalTypeOK, OneOpen, ApprovalLeft, OpenFor
<1>2. ApprovalInv => ApprovalsExact
  <2> SUFFICES ASSUME ApprovalInv PROVE ApprovalsExact
    OBVIOUS
  <2>1. \A a \in BotActions : performed[a] <= approvedFor[a] /\ Cardinality(OpenFor(a)) <= 1
    BY AtMostOne DEF ApprovalInv, OneOpen, ApprovalLeft
  <2>2. autonomy \in Levels
    BY DEF ApprovalInv, ApprovalTypeOK
  <2>3. RuntimeAccess(autonomy).workspaceWrites => RuntimeAccess(autonomy).readTools
    <3>1. autonomy >= 3 => autonomy >= 1
      BY <2>2 DEF Levels
    <3>2. /\ RuntimeAccess(autonomy).workspaceWrites = (autonomy >= 3)
          /\ RuntimeAccess(autonomy).readTools = (autonomy >= 1)
      BY Zenon DEF RuntimeAccess
    <3> QED BY <3>1, <3>2
  <2> QED BY <2>1, <2>2, <2>3, AllowedAlone DEF ApprovalsExact
<1> QED BY <1>1, <1>2, ApprovalStep, PTL DEF ApprovalSpec

-----------------------------------------------------------------------------
(* The registry of sandbox backends (sandbox/backend.ts) *)

BackendCall == [op : {"none", "allocate", "release"}, profile : Profiles \cup {NoSession},
                arg : Timeouts \cup ReleaseReasons \cup {NoSession}, cancelled : BOOLEAN,
                at : {"idle", "credential", "creating", "destroying", "joining", "returned", "failed"}]

BackendTypeOK ==
  /\ session \in [Profiles -> Timeouts \cup {NoSession}]
  /\ creating \in [Profiles -> BackendCalls \cup {NoSession}]
  /\ releaseReason \in [Profiles -> ReleaseReasons \cup {NoSession}]
  /\ destroying \in [Profiles -> BackendCalls \cup {NoSession}]
  /\ backendCall \in [BackendCalls -> BackendCall]
  /\ destroyed \in [Profiles -> Nat]

\* Call c owns the creation, or the destruction, of profile p's session: it is in #inflight, or in #releaseInflight.
Creates(c, p) ==
  /\ backendCall[c].op = "allocate" /\ backendCall[c].profile = p /\ backendCall[c].arg \in Timeouts
  /\ backendCall[c].at \in {"credential", "creating"}
Destroys(c, p) ==
  /\ backendCall[c].op = "release" /\ backendCall[c].profile = p /\ backendCall[c].arg \in ReleaseReasons
  /\ backendCall[c].at \in {"credential", "destroying"}

\* The in-flight tables name exactly the calls that are creating or destroying.
OwnersExact ==
  /\ \A p \in Profiles : creating[p] # NoSession => Creates(creating[p], p) /\ session[p] = NoSession
  /\ \A p \in Profiles : destroying[p] # NoSession => /\ Destroys(destroying[p], p)
                                                      /\ session[p] # NoSession /\ releaseReason[p] = NoSession
  /\ \A c \in BackendCalls : backendCall[c].at \in {"credential", "creating", "destroying"} =>
       \E p \in Profiles : \/ Creates(c, p) /\ creating[p] = c
                           \/ Destroys(c, p) /\ destroying[p] = c

\* A call that joined waits for an owner that was asked for the same.
JoinersMatch ==
  \A c \in BackendCalls : backendCall[c].at = "joining" =>
    \E p \in Profiles :
      /\ backendCall[c].profile = p
      /\ \/ /\ backendCall[c].op = "allocate" /\ creating[p] # NoSession
            /\ backendCall[creating[p]].arg = backendCall[c].arg
         \/ backendCall[c].op = "release" /\ destroying[p] # NoSession

\* A session that was destroyed existed, and was destroyed once.
DestroyedOnce ==
  \A p \in Profiles : /\ releaseReason[p] # NoSession => session[p] # NoSession
                      /\ destroyed[p] = IF releaseReason[p] = NoSession THEN 0 ELSE 1

BackendInv == BackendTypeOK /\ OwnersExact /\ JoinersMatch /\ DestroyedOnce

\* What one step may do to the sessions: the body of SessionsHandedOutAlive.
AliveStep ==
  /\ \A c \in BackendCalls :
       backendCall[c].at # "returned" /\ backendCall'[c].at = "returned" /\ backendCall'[c].op = "allocate" =>
         session'[backendCall'[c].profile] = backendCall'[c].arg /\ releaseReason'[backendCall'[c].profile] = NoSession
  /\ \A p \in Profiles : destroyed'[p] <= 1 /\ (releaseReason[p] # NoSession =>
       session'[p] = session[p] /\ releaseReason'[p] = releaseReason[p])

\* allocate: a stored session, the in-flight promise of the same fingerprint, or a creation of its own.
LEMMA AllocateKeeps ==
  ASSUME BackendInv, NEW c \in BackendCalls, NEW p \in Profiles, NEW timeout \in Timeouts, Allocate(c, p, timeout)
  PROVE  BackendInv' /\ AliveStep
<1> DEFINE at == IF ~Resolves(p) THEN "failed"
               ELSE IF session[p] # NoSession
               THEN IF SameFingerprint(session[p], timeout) /\ releaseReason[p] = NoSession THEN "returned" ELSE "failed"
               ELSE IF creating[p] # NoSession
               THEN IF SameFingerprint(backendCall[creating[p]].arg, timeout) THEN "joining" ELSE "failed"
               ELSE FirstAwait(p, "creating")
           new == StartedCall("allocate", p, timeout, at)
           own == at \in {"credential", "creating"}
<1>1. /\ backendCall[c].at = "idle"
      /\ backendCall' = [backendCall EXCEPT ![c] = new]
      /\ creating' = IF own THEN [creating EXCEPT ![p] = c] ELSE creating
      /\ UNCHANGED session /\ UNCHANGED releaseReason /\ UNCHANGED destroying /\ UNCHANGED destroyed
  BY DEF Allocate
<1>2. /\ at \in {"failed", "returned", "joining", "credential", "creating"}
      /\ at = "returned" => session[p] = timeout /\ releaseReason[p] = NoSession
      /\ at = "joining" => creating[p] # NoSession /\ backendCall[creating[p]].arg = timeout
      /\ own => session[p] = NoSession /\ creating[p] = NoSession
  BY DEF SameFingerprint, FirstAwait
<1>3. /\ new \in BackendCall /\ new.at = at /\ new.op = "allocate" /\ new.profile = p /\ new.arg = timeout
  BY <1>2 DEF BackendCall, StartedCall
<1> HIDE DEF at, new, own
<1>4. \A d \in BackendCalls : backendCall'[d] = IF d = c THEN new ELSE backendCall[d]
  BY <1>1 DEF BackendInv, BackendTypeOK
<1>5. \A q \in Profiles : creating'[q] = IF q = p /\ own THEN c ELSE creating[q]
  BY <1>1 DEF BackendInv, BackendTypeOK
<1>6. BackendTypeOK'
  BY <1>1, <1>3 DEF BackendInv, BackendTypeOK
<1>7. \A q \in Profiles : creating[q] # c /\ destroying[q] # c
  BY <1>1, ProfilesAssumption DEF BackendInv, OwnersExact, Creates, Destroys
<1>8. OwnersExact'
  <2>1. ASSUME NEW q \in Profiles, creating'[q] # NoSession PROVE Creates(creating[q], q)' /\ session'[q] = NoSession
    BY <1>1, <1>2, <1>3, <1>4, <1>5, <1>7, <2>1 DEF BackendInv, BackendTypeOK, OwnersExact, Creates, own
  <2>2. ASSUME NEW q \in Profiles, destroying'[q] # NoSession
        PROVE  Destroys(destroying[q], q)' /\ session'[q] # NoSession /\ releaseReason'[q] = NoSession
    BY <1>1, <1>4, <1>7, <2>2 DEF BackendInv, BackendTypeOK, OwnersExact, Destroys
  <2>3. ASSUME NEW d \in BackendCalls, backendCall'[d].at \in {"credential", "creating", "destroying"}
        PROVE  \E q \in Profiles : (Creates(d, q)' /\ creating'[q] = d) \/ (Destroys(d, q)' /\ destroying'[q] = d)
    <3>1. CASE d = c
      BY <1>2, <1>3, <1>4, <1>5, <2>3, <3>1 DEF Creates, own
    <3>2. CASE d # c
      <4>1. PICK q \in Profiles : (Creates(d, q) /\ creating[q] = d) \/ (Destroys(d, q) /\ destroying[q] = d)
        BY <1>4, <2>3, <3>2 DEF BackendInv, OwnersExact
      <4>2. creating[q] = d => creating'[q] = d
        BY <1>2, <1>5, <3>2, ProfilesAssumption
      <4> QED BY <1>1, <1>4, <3>2, <4>1, <4>2 DEF Creates, Destroys
    <3> QED BY <3>1, <3>2
  <2> QED BY <2>1, <2>2, <2>3 DEF OwnersExact
<1>9. JoinersMatch'
  <2>1. ASSUME NEW d \in BackendCalls, backendCall'[d].at = "joining"
        PROVE  \E q \in Profiles :
                 /\ backendCall'[d].profile = q
                 /\ \/ /\ backendCall'[d].op = "allocate" /\ creating'[q] # NoSession
                       /\ backendCall'[creating'[q]].arg = backendCall'[d].arg
                    \/ backendCall'[d].op = "release" /\ destroying'[q] # NoSession
    <3>1. CASE d = c
      <4>1. creating'[p] = creating[p] /\ creating[p] \in BackendCalls /\ creating[p] # c
        BY <1>2, <1>3, <1>4, <1>5, <1>7, <2>1, <3>1 DEF own, BackendInv, BackendTypeOK
      <4> QED BY <1>2, <1>3, <1>4, <2>1, <3>1, <4>1
    <3>2. CASE d # c
      <4>1. PICK q \in Profiles :
                 /\ backendCall[d].profile = q
                 /\ \/ /\ backendCall[d].op = "allocate" /\ creating[q] # NoSession
                       /\ backendCall[creating[q]].arg = backendCall[d].arg
                    \/ backendCall[d].op = "release" /\ destroying[q] # NoSession
        BY <1>4, <2>1, <3>2 DEF BackendInv, JoinersMatch
      <4>2. creating[q] # NoSession => creating'[q] = creating[q] /\ creating[q] \in BackendCalls /\ creating[q] # c
        BY <1>2, <1>5, <1>7 DEF BackendInv, BackendTypeOK
      <4> QED BY <1>1, <1>4, <3>2, <4>1, <4>2
    <3> QED BY <3>1, <3>2
  <2> QED BY <2>1 DEF JoinersMatch
<1>10. DestroyedOnce'
  BY <1>1 DEF BackendInv, DestroyedOnce
<1>11. AliveStep
  <2>1. \A q \in Profiles : destroyed'[q] <= 1
    BY <1>1 DEF BackendInv, DestroyedOnce
  <2> QED BY <1>1, <1>2, <1>3, <1>4, <2>1 DEF AliveStep
<1> QED BY <1>6, <1>8, <1>9, <1>10, <1>11 DEF BackendInv

\* release: the reason given before, the in-flight promise of the same reason, or a destruction of its own.
LEMMA ReleaseKeeps ==
  ASSUME BackendInv, NEW c \in BackendCalls, NEW p \in Profiles, NEW reason \in ReleaseReasons, ReleaseBackend(c, p, reason)
  PROVE  BackendInv' /\ AliveStep
<1> DEFINE at == IF releaseReason[p] # NoSession
               THEN IF SameFingerprint(releaseReason[p], reason) THEN "returned" ELSE "failed"
               ELSE IF destroying[p] # NoSession
               THEN IF SameFingerprint(backendCall[destroying[p]].arg, reason) THEN "joining" ELSE "failed"
               ELSE FirstAwait(p, "destroying")
           new == StartedCall("release", p, reason, at)
           own == at \in {"credential", "destroying"}
<1>1. /\ backendCall[c].at = "idle" /\ session[p] # NoSession
      /\ backendCall' = [backendCall EXCEPT ![c] = new]
      /\ destroying' = IF own THEN [destroying EXCEPT ![p] = c] ELSE destroying
      /\ UNCHANGED session /\ UNCHANGED releaseReason /\ UNCHANGED creating /\ UNCHANGED destroyed
  BY DEF ReleaseBackend
<1>2. /\ at \in {"failed", "returned", "joining", "credential", "destroying"}
      /\ at = "joining" => destroying[p] # NoSession
      /\ own => releaseReason[p] = NoSession /\ destroying[p] = NoSession
  BY DEF SameFingerprint, FirstAwait
<1>3. /\ new \in BackendCall /\ new.at = at /\ new.op = "release" /\ new.profile = p /\ new.arg = reason
  BY <1>2 DEF BackendCall, StartedCall
<1> HIDE DEF at, new, own
<1>4. \A d \in BackendCalls : backendCall'[d] = IF d = c THEN new ELSE backendCall[d]
  BY <1>1 DEF BackendInv, BackendTypeOK
<1>5. \A q \in Profiles : destroying'[q] = IF q = p /\ own THEN c ELSE destroying[q]
  BY <1>1 DEF BackendInv, BackendTypeOK
<1>6. BackendTypeOK'
  BY <1>1, <1>3 DEF BackendInv, BackendTypeOK
<1>7. \A q \in Profiles : creating[q] # c /\ destroying[q] # c
  BY <1>1, ProfilesAssumption DEF BackendInv, OwnersExact, Creates, Destroys
<1>8. OwnersExact'
  <2>1. ASSUME NEW q \in Profiles, creating'[q] # NoSession PROVE Creates(creating[q], q)' /\ session'[q] = NoSession
    BY <1>1, <1>4, <1>7, <2>1 DEF BackendInv, BackendTypeOK, OwnersExact, Creates
  <2>2. ASSUME NEW q \in Profiles, destroying'[q] # NoSession
        PROVE  Destroys(destroying[q], q)' /\ session'[q] # NoSession /\ releaseReason'[q] = NoSession
    BY <1>1, <1>2, <1>3, <1>4, <1>5, <1>7, <2>2 DEF BackendInv, BackendTypeOK, OwnersExact, Destroys, own
  <2>3. ASSUME NEW d \in BackendCalls, backendCall'[d].at \in {"credential", "creating", "destroying"}
        PROVE  \E q \in Profiles : (Creates(d, q)' /\ creating'[q] = d) \/ (Destroys(d, q)' /\ destroying'[q] = d)
    <3>1. CASE d = c
      BY <1>2, <1>3, <1>4, <1>5, <2>3, <3>1 DEF Destroys, own
    <3>2. CASE d # c
      <4>1. PICK q \in Profiles : (Creates(d, q) /\ creating[q] = d) \/ (Destroys(d, q) /\ destroying[q] = d)
        BY <1>4, <2>3, <3>2 DEF BackendInv, OwnersExact
      <4>2. destroying[q] = d => destroying'[q] = d
        BY <1>2, <1>5, <3>2, ProfilesAssumption
      <4> QED BY <1>1, <1>4, <3>2, <4>1, <4>2 DEF Creates, Destroys
    <3> QED BY <3>1, <3>2
  <2> QED BY <2>1, <2>2, <2>3 DEF OwnersExact
<1>9. JoinersMatch'
  <2>1. ASSUME NEW d \in BackendCalls, backendCall'[d].at = "joining"
        PROVE  \E q \in Profiles :
                 /\ backendCall'[d].profile = q
                 /\ \/ /\ backendCall'[d].op = "allocate" /\ creating'[q] # NoSession
                       /\ backendCall'[creating'[q]].arg = backendCall'[d].arg
                    \/ backendCall'[d].op = "release" /\ destroying'[q] # NoSession
    <3>1. CASE d = c
      BY <1>2, <1>3, <1>4, <1>5, <2>1, <3>1, ProfilesAssumption DEF own
    <3>2. CASE d # c
      <4>1. PICK q \in Profiles :
                 /\ backendCall[d].profile = q
                 /\ \/ /\ backendCall[d].op = "allocate" /\ creating[q] # NoSession
                       /\ backendCall[creating[q]].arg = backendCall[d].arg
                    \/ backendCall[d].op = "release" /\ destroying[q] # NoSession
        BY <1>4, <2>1, <3>2 DEF BackendInv, JoinersMatch
      <4>2. creating[q] # NoSession => creating'[q] = creating[q] /\ creating[q] \in BackendCalls /\ creating[q] # c
        BY <1>1, <1>7 DEF BackendInv, BackendTypeOK
      <4>3. destroying[q] # NoSession => destroying'[q] # NoSession
        BY <1>2, <1>5
      <4> QED BY <1>1, <1>4, <3>2, <4>1, <4>2, <4>3
    <3> QED BY <3>1, <3>2
  <2> QED BY <2>1 DEF JoinersMatch
<1>10. DestroyedOnce'
  BY <1>1 DEF BackendInv, DestroyedOnce
<1>11. AliveStep
  <2>1. \A q \in Profiles : destroyed'[q] <= 1
    BY <1>1 DEF BackendInv, DestroyedOnce
  <2> QED BY <1>1, <1>3, <1>4, <2>1 DEF AliveStep
<1> QED BY <1>6, <1>8, <1>9, <1>10, <1>11 DEF BackendInv

\* Who resumes when the promise of call c settles.
Resumes(c, d) == d = c \/ (backendCall[d].at = "joining" /\ backendCall[d].op = backendCall[c].op
                                                        /\ backendCall[d].profile = backendCall[c].profile)

\* A settled promise resumes its owner and those who joined it, and nobody else.
LEMMA SettleFacts ==
  ASSUME BackendTypeOK, NEW c \in BackendCalls, NEW ok \in BOOLEAN, SettleBackend(c, ok)
  PROVE  /\ backendCall' \in [BackendCalls -> BackendCall]
         /\ \A d \in BackendCalls :
              /\ backendCall'[d].op = backendCall[d].op /\ backendCall'[d].profile = backendCall[d].profile
              /\ backendCall'[d].arg = backendCall[d].arg
              /\ IF Resumes(c, d) THEN backendCall'[d].at \in {"returned", "failed"} /\ (backendCall'[d].at = "returned" => ok)
                 ELSE backendCall'[d] = backendCall[d]
<1>1. ASSUME NEW d \in BackendCalls
      PROVE  /\ backendCall'[d] \in BackendCall
             /\ backendCall'[d].op = backendCall[d].op /\ backendCall'[d].profile = backendCall[d].profile
             /\ backendCall'[d].arg = backendCall[d].arg
             /\ IF Resumes(c, d) THEN backendCall'[d].at \in {"returned", "failed"} /\ (backendCall'[d].at = "returned" => ok)
                ELSE backendCall'[d] = backendCall[d]
  <2> DEFINE at == IF ok /\ (d # c /\ backendCall[d].op = "release" => ~backendCall[d].cancelled) THEN "returned" ELSE "failed"
  <2>1. backendCall'[d] = IF Resumes(c, d) THEN [backendCall[d] EXCEPT !.at = at] ELSE backendCall[d]
    BY DEF SettleBackend, Resumes
  <2>2. backendCall[d] \in BackendCall
    BY DEF BackendTypeOK
  <2>3. at \in {"returned", "failed"} /\ (at = "returned" => ok)
    OBVIOUS
  <2> HIDE DEF at
  <2> QED BY <2>1, <2>2, <2>3 DEF BackendCall
<1>2. backendCall' = [d \in BackendCalls |-> backendCall'[d]]
  BY DEF SettleBackend
<1> QED BY <1>1, <1>2

\* The owner of a creation ends: the key is free again, or it has its session.
LEMMA CreationEnds ==
  ASSUME BackendInv, NEW c \in BackendCalls, NEW p \in Profiles, NEW ok \in BOOLEAN,
         Creates(c, p), creating[p] = c, SettleBackend(c, ok),
         session' = IF ok THEN [session EXCEPT ![p] = backendCall[c].arg] ELSE session,
         creating' = [creating EXCEPT ![p] = NoSession],
         UNCHANGED destroying, UNCHANGED releaseReason, UNCHANGED destroyed
  PROVE  BackendInv' /\ AliveStep
<1>0. /\ backendCall[c].op = "allocate" /\ backendCall[c].profile = p /\ backendCall[c].arg \in Timeouts
      /\ backendCall[c].at \in {"credential", "creating"} /\ c # NoSession /\ session[p] = NoSession
      /\ releaseReason[p] = NoSession /\ destroying[p] = NoSession /\ BackendTypeOK
  BY ProfilesAssumption DEF Creates, BackendInv, OwnersExact, DestroyedOnce
<1>1. /\ backendCall' \in [BackendCalls -> BackendCall]
      /\ \A d \in BackendCalls :
           /\ backendCall'[d].op = backendCall[d].op /\ backendCall'[d].profile = backendCall[d].profile
           /\ backendCall'[d].arg = backendCall[d].arg
           /\ IF Resumes(c, d) THEN backendCall'[d].at \in {"returned", "failed"} /\ (backendCall'[d].at = "returned" => ok)
              ELSE backendCall'[d] = backendCall[d]
  BY <1>0, SettleFacts
<1>2. \A q \in Profiles : creating'[q] = IF q = p THEN NoSession ELSE creating[q]
  BY <1>0 DEF BackendTypeOK
<1>3. \A q \in Profiles : session'[q] = IF q = p /\ ok THEN backendCall[c].arg ELSE session[q]
  BY <1>0 DEF BackendTypeOK
<1>4. BackendTypeOK'
  BY <1>0, <1>1 DEF BackendTypeOK
<1>5. \A q \in Profiles : /\ creating[q] # NoSession /\ q # p => creating[q] \in BackendCalls /\ ~Resumes(c, creating[q])
                          /\ destroying[q] # NoSession => destroying[q] \in BackendCalls /\ ~Resumes(c, destroying[q])
  <2>1. ASSUME NEW q \in Profiles, creating[q] # NoSession, q # p PROVE creating[q] \in BackendCalls /\ ~Resumes(c, creating[q])
    BY <1>0, <2>1 DEF BackendInv, BackendTypeOK, OwnersExact, Creates, Resumes
  <2>2. ASSUME NEW q \in Profiles, destroying[q] # NoSession PROVE destroying[q] \in BackendCalls /\ ~Resumes(c, destroying[q])
    BY <1>0, <2>2 DEF BackendInv, BackendTypeOK, OwnersExact, Destroys, Resumes
  <2> QED BY <2>1, <2>2
<1>6. OwnersExact'
  <2>1. ASSUME NEW q \in Profiles, creating'[q] # NoSession PROVE Creates(creating[q], q)' /\ session'[q] = NoSession
    BY <1>1, <1>2, <1>3, <1>5, <2>1 DEF BackendInv, OwnersExact, Creates
  <2>2. ASSUME NEW q \in Profiles, destroying'[q] # NoSession
        PROVE  Destroys(destroying[q], q)' /\ session'[q] # NoSession /\ releaseReason'[q] = NoSession
    BY <1>0, <1>1, <1>3, <1>5, <2>2 DEF BackendInv, OwnersExact, Destroys
  <2>3. ASSUME NEW d \in BackendCalls, backendCall'[d].at \in {"credential", "creating", "destroying"}
        PROVE  \E q \in Profiles : (Creates(d, q)' /\ creating'[q] = d) \/ (Destroys(d, q)' /\ destroying'[q] = d)
    <3>1. backendCall'[d] = backendCall[d] /\ d # c
      BY <1>1, <2>3 DEF Resumes
    <3>2. PICK q \in Profiles : (Creates(d, q) /\ creating[q] = d) \/ (Destroys(d, q) /\ destroying[q] = d)
      BY <2>3, <3>1 DEF BackendInv, OwnersExact
    <3>3. creating[q] = d => creating'[q] = d
      BY <1>2, <3>1
    <3> QED BY <3>1, <3>2, <3>3 DEF Creates, Destroys
  <2> QED BY <2>1, <2>2, <2>3 DEF OwnersExact
<1>7. JoinersMatch'
  <2>1. ASSUME NEW d \in BackendCalls, backendCall'[d].at = "joining"
        PROVE  \E q \in Profiles :
                 /\ backendCall'[d].profile = q
                 /\ \/ /\ backendCall'[d].op = "allocate" /\ creating'[q] # NoSession
                       /\ backendCall'[creating'[q]].arg = backendCall'[d].arg
                    \/ backendCall'[d].op = "release" /\ destroying'[q] # NoSession
    <3>1. backendCall'[d] = backendCall[d] /\ ~Resumes(c, d)
      BY <1>1, <2>1
    <3>2. PICK q \in Profiles :
            /\ backendCall[d].profile = q
            /\ \/ /\ backendCall[d].op = "allocate" /\ creating[q] # NoSession
                  /\ backendCall[creating[q]].arg = backendCall[d].arg
               \/ backendCall[d].op = "release" /\ destroying[q] # NoSession
      BY <2>1, <3>1 DEF BackendInv, JoinersMatch
    <3>3. backendCall[d].op = "allocate" => q # p
      BY <1>0, <2>1, <3>1, <3>2 DEF Resumes
    <3>4. backendCall[d].op = "allocate" => creating'[q] = creating[q] /\ backendCall'[creating[q]].arg = backendCall[creating[q]].arg
      BY <1>1, <1>2, <1>5, <3>2, <3>3
    <3> QED BY <3>1, <3>2, <3>4
  <2> QED BY <2>1 DEF JoinersMatch
<1>8. DestroyedOnce'
  BY <1>0, <1>3 DEF BackendInv, DestroyedOnce
<1>9. AliveStep
  <2>1. \A q \in Profiles : destroyed'[q] <= 1
    BY DEF BackendInv, DestroyedOnce
  <2>2. ASSUME NEW d \in BackendCalls, backendCall[d].at # "returned", backendCall'[d].at = "returned"
        PROVE  /\ session'[backendCall'[d].profile] = backendCall'[d].arg
               /\ releaseReason'[backendCall'[d].profile] = NoSession
    <3>1. Resumes(c, d) /\ ok /\ backendCall'[d].profile = backendCall[d].profile /\ backendCall'[d].arg = backendCall[d].arg
      BY <1>1, <2>2
    <3>2. backendCall[d].profile = p
      BY <1>0, <3>1 DEF Resumes
    <3>3. backendCall[d].arg = backendCall[c].arg
      BY <1>0, <3>1, <3>2 DEF Resumes, BackendInv, JoinersMatch
    <3> QED BY <1>0, <1>3, <3>1, <3>2, <3>3
  <2>3. \A q \in Profiles : releaseReason[q] # NoSession => session'[q] = session[q] /\ releaseReason'[q] = releaseReason[q]
    BY <1>0, <1>3
  <2> QED BY <2>1, <2>2, <2>3 DEF AliveStep
<1> QED BY <1>4, <1>6, <1>7, <1>8, <1>9 DEF BackendInv

\* The owner of a destruction ends: the session may be released again, or it is gone.
LEMMA DestructionEnds ==
  ASSUME BackendInv, NEW c \in BackendCalls, NEW p \in Profiles, NEW ok \in BOOLEAN,
         Destroys(c, p), destroying[p] = c, SettleBackend(c, ok),
         releaseReason' = IF ok THEN [releaseReason EXCEPT ![p] = backendCall[c].arg] ELSE releaseReason,
         destroyed' = IF ok THEN [destroyed EXCEPT ![p] = @ + 1] ELSE destroyed,
         destroying' = [destroying EXCEPT ![p] = NoSession],
         UNCHANGED session, UNCHANGED creating
  PROVE  BackendInv' /\ AliveStep
<1>0. /\ backendCall[c].op = "release" /\ backendCall[c].profile = p /\ backendCall[c].arg \in ReleaseReasons
      /\ backendCall[c].at \in {"credential", "destroying"} /\ c # NoSession /\ session[p] # NoSession
      /\ releaseReason[p] = NoSession /\ destroyed[p] = 0 /\ BackendTypeOK
  BY ProfilesAssumption DEF Destroys, BackendInv, OwnersExact, DestroyedOnce
<1>1. /\ backendCall' \in [BackendCalls -> BackendCall]
      /\ \A d \in BackendCalls :
           /\ backendCall'[d].op = backendCall[d].op /\ backendCall'[d].profile = backendCall[d].profile
           /\ backendCall'[d].arg = backendCall[d].arg
           /\ IF Resumes(c, d) THEN backendCall'[d].at \in {"returned", "failed"} /\ (backendCall'[d].at = "returned" => ok)
              ELSE backendCall'[d] = backendCall[d]
  BY <1>0, SettleFacts
<1>2. \A q \in Profiles : destroying'[q] = IF q = p THEN NoSession ELSE destroying[q]
  BY <1>0 DEF BackendTypeOK
<1>3. \A q \in Profiles : /\ releaseReason'[q] = IF q = p /\ ok THEN backendCall[c].arg ELSE releaseReason[q]
                          /\ destroyed'[q] = IF q = p /\ ok THEN 1 ELSE destroyed[q]
  BY <1>0 DEF BackendTypeOK
<1>4. BackendTypeOK'
  BY <1>0, <1>1 DEF BackendTypeOK
<1>5. \A q \in Profiles : /\ creating[q] # NoSession => creating[q] \in BackendCalls /\ ~Resumes(c, creating[q])
                          /\ destroying[q] # NoSession /\ q # p => destroying[q] \in BackendCalls /\ ~Resumes(c, destroying[q])
  <2>1. ASSUME NEW q \in Profiles, creating[q] # NoSession PROVE creating[q] \in BackendCalls /\ ~Resumes(c, creating[q])
    BY <1>0, <2>1 DEF BackendInv, BackendTypeOK, OwnersExact, Creates, Resumes
  <2>2. ASSUME NEW q \in Profiles, destroying[q] # NoSession, q # p
        PROVE  destroying[q] \in BackendCalls /\ ~Resumes(c, destroying[q])
    BY <1>0, <2>2 DEF BackendInv, BackendTypeOK, OwnersExact, Destroys, Resumes
  <2> QED BY <2>1, <2>2
<1>6. OwnersExact'
  <2>1. ASSUME NEW q \in Profiles, creating'[q] # NoSession PROVE Creates(creating[q], q)' /\ session'[q] = NoSession
    BY <1>1, <1>5, <2>1 DEF BackendInv, OwnersExact, Creates
  <2>2. ASSUME NEW q \in Profiles, destroying'[q] # NoSession
        PROVE  Destroys(destroying[q], q)' /\ session'[q] # NoSession /\ releaseReason'[q] = NoSession
    BY <1>1, <1>2, <1>3, <1>5, <2>2 DEF BackendInv, OwnersExact, Destroys
  <2>3. ASSUME NEW d \in BackendCalls, backendCall'[d].at \in {"credential", "creating", "destroying"}
        PROVE  \E q \in Profiles : (Creates(d, q)' /\ creating'[q] = d) \/ (Destroys(d, q)' /\ destroying'[q] = d)
    <3>1. backendCall'[d] = backendCall[d] /\ d # c
      BY <1>1, <2>3 DEF Resumes
    <3>2. PICK q \in Profiles : (Creates(d, q) /\ creating[q] = d) \/ (Destroys(d, q) /\ destroying[q] = d)
      BY <2>3, <3>1 DEF BackendInv, OwnersExact
    <3>3. destroying[q] = d => destroying'[q] = d
      BY <1>2, <3>1
    <3> QED BY <3>1, <3>2, <3>3 DEF Creates, Destroys
  <2> QED BY <2>1, <2>2, <2>3 DEF OwnersExact
<1>7. JoinersMatch'
  <2>1. ASSUME NEW d \in BackendCalls, backendCall'[d].at = "joining"
        PROVE  \E q \in Profiles :
                 /\ backendCall'[d].profile = q
                 /\ \/ /\ backendCall'[d].op = "allocate" /\ creating'[q] # NoSession
                       /\ backendCall'[creating'[q]].arg = backendCall'[d].arg
                    \/ backendCall'[d].op = "release" /\ destroying'[q] # NoSession
    <3>1. backendCall'[d] = backendCall[d] /\ ~Resumes(c, d)
      BY <1>1, <2>1
    <3>2. PICK q \in Profiles :
            /\ backendCall[d].profile = q
            /\ \/ /\ backendCall[d].op = "allocate" /\ creating[q] # NoSession
                  /\ backendCall[creating[q]].arg = backendCall[d].arg
               \/ backendCall[d].op = "release" /\ destroying[q] # NoSession
      BY <2>1, <3>1 DEF BackendInv, JoinersMatch
    <3>3. backendCall[d].op = "release" => q # p
      BY <1>0, <2>1, <3>1, <3>2 DEF Resumes
    <3>4. backendCall[d].op = "allocate" => backendCall'[creating[q]].arg = backendCall[creating[q]].arg
      BY <1>1, <1>5, <3>2
    <3> QED BY <1>2, <3>1, <3>2, <3>3, <3>4
  <2> QED BY <2>1 DEF JoinersMatch
<1>8. DestroyedOnce'
  BY <1>0, <1>3, ProfilesAssumption DEF BackendInv, DestroyedOnce
<1>9. AliveStep
  <2>1. \A q \in Profiles : destroyed'[q] <= 1
    BY <1>8 DEF DestroyedOnce
  <2>2. ASSUME NEW d \in BackendCalls, backendCall[d].at # "returned", backendCall'[d].at = "returned"
        PROVE  backendCall'[d].op # "allocate"
    BY <1>0, <1>1, <2>2 DEF Resumes
  <2>3. \A q \in Profiles : releaseReason[q] # NoSession => session'[q] = session[q] /\ releaseReason'[q] = releaseReason[q]
    BY <1>0, <1>3
  <2> QED BY <2>1, <2>2, <2>3 DEF AliveStep
<1> QED BY <1>4, <1>6, <1>7, <1>8, <1>9 DEF BackendInv

\* A step in which one call only moves on, or learns that it is cancelled, keeps the invariant.
LEMMA CallMoves ==
  ASSUME BackendInv, NEW c \in BackendCalls, NEW row \in BackendCall, backendCall' = [backendCall EXCEPT ![c] = row],
         row.op = backendCall[c].op, row.profile = backendCall[c].profile, row.arg = backendCall[c].arg,
         \/ row.at = backendCall[c].at
         \/ backendCall[c].at = "credential" /\ row.at = IF row.op = "allocate" THEN "creating" ELSE "destroying",
         UNCHANGED session, UNCHANGED creating, UNCHANGED releaseReason, UNCHANGED destroying, UNCHANGED destroyed
  PROVE  BackendInv' /\ AliveStep
<1>1. \A d \in BackendCalls : /\ backendCall'[d].op = backendCall[d].op /\ backendCall'[d].profile = backendCall[d].profile
                              /\ backendCall'[d].arg = backendCall[d].arg
                              /\ backendCall'[d].at = IF d = c THEN row.at ELSE backendCall[d].at
  BY DEF BackendInv, BackendTypeOK
<1>2. BackendTypeOK'
  BY DEF BackendInv, BackendTypeOK
<1>3. \A d \in BackendCalls, p \in Profiles : (Creates(d, p) => Creates(d, p)') /\ (Destroys(d, p) => Destroys(d, p)')
  BY <1>1 DEF Creates, Destroys
<1>4. \A p \in Profiles : creating[p] \in BackendCalls \cup {NoSession} /\ destroying[p] \in BackendCalls \cup {NoSession}
  BY DEF BackendInv, BackendTypeOK
<1>5. \A p \in Profiles : creating'[p] # NoSession => Creates(creating[p], p)' /\ session'[p] = NoSession
  BY <1>3, <1>4 DEF BackendInv, OwnersExact
<1>6. \A p \in Profiles : destroying'[p] # NoSession => /\ Destroys(destroying[p], p)'
                                                        /\ session'[p] # NoSession /\ releaseReason'[p] = NoSession
  BY <1>3, <1>4 DEF BackendInv, OwnersExact
<1>7. ASSUME NEW d \in BackendCalls, backendCall'[d].at \in {"credential", "creating", "destroying"}
      PROVE  \E p \in Profiles : (Creates(d, p)' /\ creating'[p] = d) \/ (Destroys(d, p)' /\ destroying'[p] = d)
  <2>1. backendCall[d].at \in {"credential", "creating", "destroying"}
    BY <1>1, <1>7
  <2> QED BY <1>3, <2>1 DEF BackendInv, OwnersExact
<1>8. OwnersExact'
  BY <1>5, <1>6, <1>7 DEF OwnersExact
<1>9. JoinersMatch'
  <2>1. \A d \in BackendCalls : backendCall'[d].at = "joining" => backendCall[d].at = "joining"
    BY <1>1
  <2> QED BY <1>1, <1>4, <2>1 DEF BackendInv, JoinersMatch
<1>10. DestroyedOnce' /\ \A p \in Profiles : destroyed'[p] <= 1
  BY DEF BackendInv, DestroyedOnce
<1>11. AliveStep
  BY <1>1, <1>10 DEF AliveStep
<1> QED BY <1>2, <1>8, <1>9, <1>10, <1>11 DEF BackendInv

\* Every step of the registry keeps the invariant and hands out only sessions that live.
LEMMA BackendStep == BackendInv /\ BackendNext => BackendInv' /\ AliveStep
<1> SUFFICES ASSUME BackendInv, NEW c \in BackendCalls,
                    \/ \E p \in Profiles, t \in Timeouts : Allocate(c, p, t)
                    \/ \E p \in Profiles, r \in ReleaseReasons : ReleaseBackend(c, p, r)
                    \/ BackendAnswers(c)
                    \/ CancelBackendCall(c)
             PROVE  BackendInv' /\ AliveStep
  BY DEF BackendNext
<1>1. backendCall[c] \in BackendCall
  BY DEF BackendInv, BackendTypeOK
<1>2. ASSUME NEW p \in Profiles, Creates(c, p) PROVE creating[p] = c
  BY <1>2 DEF BackendInv, OwnersExact, Creates, Destroys
<1>3. ASSUME NEW p \in Profiles, Destroys(c, p) PROVE destroying[p] = c
  BY <1>3 DEF BackendInv, OwnersExact, Creates, Destroys
<1>4. ASSUME NEW ok \in BOOLEAN, CredentialResolved(c, ok) PROVE BackendInv' /\ AliveStep
  <2>1. PICK p \in Profiles : (Creates(c, p) /\ creating[p] = c) \/ (Destroys(c, p) /\ destroying[p] = c)
    BY <1>4 DEF CredentialResolved, BackendInv, OwnersExact
  <2>2. backendCall[c].profile = p /\ backendCall[c].at = "credential"
    BY <1>4, <2>1 DEF CredentialResolved, Creates, Destroys
  <2>3. creating[p] = c <=> backendCall[c].op = "allocate"
    BY <2>1, ProfilesAssumption DEF BackendInv, OwnersExact, Creates, Destroys
  <2>4. destroying[p] = c <=> backendCall[c].op = "release"
    BY <2>1, ProfilesAssumption DEF BackendInv, OwnersExact, Creates, Destroys
  <2>5. UNCHANGED session /\ UNCHANGED releaseReason /\ UNCHANGED destroyed
    BY <1>4 DEF CredentialResolved
  <2>6. CASE ok /\ ~backendCall[c].cancelled
    <3> DEFINE row == [backendCall[c] EXCEPT !.at = IF creating[p] = c THEN "creating" ELSE "destroying"]
    <3>1. backendCall' = [backendCall EXCEPT ![c] = row] /\ UNCHANGED creating /\ UNCHANGED destroying
      BY <1>4, <2>2, <2>6 DEF CredentialResolved
    <3>2. /\ row \in BackendCall /\ row.op = backendCall[c].op /\ row.profile = backendCall[c].profile
          /\ row.arg = backendCall[c].arg /\ row.at = IF row.op = "allocate" THEN "creating" ELSE "destroying"
      BY <1>1, <2>3 DEF BackendCall
    <3> HIDE DEF row
    <3> QED BY <2>2, <2>5, <3>1, <3>2, CallMoves
  <2>7. CASE ~(ok /\ ~backendCall[c].cancelled)
    <3>1. /\ SettleBackend(c, FALSE)
          /\ creating' = IF creating[p] = c THEN [creating EXCEPT ![p] = NoSession] ELSE creating
          /\ destroying' = IF destroying[p] = c THEN [destroying EXCEPT ![p] = NoSession] ELSE destroying
      BY <1>4, <2>2, <2>7 DEF CredentialResolved
    <3>2. CASE backendCall[c].op = "allocate"
      BY <2>1, <2>3, <2>4, <2>5, <3>1, <3>2, CreationEnds DEF Destroys
    <3>3. CASE backendCall[c].op # "allocate"
      BY <2>1, <2>3, <2>4, <2>5, <3>1, <3>3, DestructionEnds DEF Creates, Destroys
    <3> QED BY <3>2, <3>3
  <2> QED BY <2>6, <2>7
<1>5. ASSUME NEW ok \in BOOLEAN, Created(c, ok) PROVE BackendInv' /\ AliveStep
  <2>1. PICK p \in Profiles : Creates(c, p) /\ creating[p] = c
    BY <1>5 DEF Created, BackendInv, OwnersExact, Destroys
  <2>2. backendCall[c].profile = p
    BY <2>1 DEF Creates
  <2> QED BY <1>5, <2>1, <2>2, CreationEnds DEF Created
<1>6. ASSUME NEW ok \in BOOLEAN, Destroyed(c, ok) PROVE BackendInv' /\ AliveStep
  <2>1. PICK p \in Profiles : Destroys(c, p) /\ destroying[p] = c
    BY <1>6 DEF Destroyed, BackendInv, OwnersExact, Creates
  <2>2. backendCall[c].profile = p
    BY <2>1 DEF Destroys
  <2> QED BY <1>6, <2>1, <2>2, DestructionEnds DEF Destroyed
<1>7. CASE CancelBackendCall(c)
  <2>1. [backendCall[c] EXCEPT !.cancelled = TRUE] \in BackendCall
    BY <1>1 DEF BackendCall
  <2>2. /\ backendCall' = [backendCall EXCEPT ![c] = [backendCall[c] EXCEPT !.cancelled = TRUE]]
        /\ UNCHANGED session /\ UNCHANGED creating /\ UNCHANGED releaseReason /\ UNCHANGED destroying /\ UNCHANGED destroyed
    BY <1>7 DEF CancelBackendCall
  <2> QED BY <1>1, <2>1, <2>2, CallMoves DEF BackendCall
<1> QED BY <1>4, <1>5, <1>6, <1>7, AllocateKeeps, ReleaseKeeps DEF BackendAnswers

\* Whoever joins an allocation, retries after a failed creation or releases concurrently, a session is handed
\* out only while it lives and with the fingerprint it was created for, and is destroyed once
\* (backend.ts 282-313, 326-364).
THEOREM SessionsHold == BackendSpec => SessionsHandedOutAlive
<1>1. BackendInit => BackendInv
  <2> SUFFICES ASSUME BackendInit PROVE BackendInv
    OBVIOUS
  <2>1. BackendTypeOK
    BY DEF BackendInit, BackendTypeOK, BackendCall, BackendIdle
  <2>2. \A c \in BackendCalls : backendCall[c].at = "idle"
    BY DEF BackendInit, BackendIdle
  <2> QED BY <2>1, <2>2 DEF BackendInit, BackendInv, OwnersExact, JoinersMatch, DestroyedOnce
<1>2. BackendInv /\ UNCHANGED backendVars => BackendInv'
  <2> SUFFICES ASSUME BackendInv, UNCHANGED backendVars PROVE BackendInv'
    OBVIOUS
  <2>1. /\ session' = session /\ creating' = creating /\ releaseReason' = releaseReason
        /\ destroying' = destroying /\ backendCall' = backendCall /\ destroyed' = destroyed
    BY DEF backendVars
  <2>2. BackendTypeOK' /\ JoinersMatch' /\ DestroyedOnce'
    BY <2>1 DEF BackendInv, BackendTypeOK, JoinersMatch, DestroyedOnce
  <2>3. OwnersExact'
    BY <2>1 DEF BackendInv, OwnersExact, Creates, Destroys
  <2> QED BY <2>2, <2>3 DEF BackendInv
<1>3. BackendInv /\ [BackendNext]_backendVars => BackendInv' /\ [AliveStep]_backendVars
  BY <1>2, BackendStep
<1> QED BY <1>1, <1>3, PTL DEF BackendSpec, SessionsHandedOutAlive, AliveStep

-----------------------------------------------------------------------------
(* Child processes and their slots (sandbox/process.ts) *)

ProcessRow ==
  [at : {"idle", "resolving", "child", "resolved", "rejected"},
   override : {"none", "TIMED_OUT", "CANCELLED", "OUTPUT_LIMIT"}, killed : BOOLEAN,
   kept : [Streams -> 0 .. MaxOutput], truncated : BOOLEAN,
   outcome : {"none", "TIMED_OUT", "CANCELLED", "OUTPUT_LIMIT", "EXITED", "SIGNALED"}]

\* A child is killed for a reason, output is only cut off by killing the child, and
\* a result that no override explains is that of a child nobody killed.
RowSound(p) ==
  /\ p.killed => p.override # "none"
  /\ p.truncated => p.killed
  /\ p.outcome \in {"EXITED", "SIGNALED"} => ~p.killed
  /\ p.at \in {"idle", "resolving", "child"} => p.outcome = "none"

Holds(p) == p.at \in {"resolving", "child"}

ProcessInv ==
  /\ process \in [ProcessCalls -> ProcessRow]
  /\ runCancelled \in [ProcessCalls -> BOOLEAN]
  /\ \A c \in ProcessCalls : RowSound(process[c])
  /\ active = Cardinality({c \in ProcessCalls : Holds(process[c])})
  /\ active <= MaxConcurrent

\* One call moves on: its slot is taken, kept or given back, and counted so.
LEMMA SlotMoves ==
  ASSUME ProcessInv, NEW c \in ProcessCalls, NEW r \in ProcessRow, RowSound(r),
         process' = [process EXCEPT ![c] = r], runCancelled' \in [ProcessCalls -> BOOLEAN],
         \/ (Holds(r) <=> Holds(process[c])) /\ active' = active
         \/ Holds(r) /\ ~Holds(process[c]) /\ active < MaxConcurrent /\ active' = active + 1
         \/ ~Holds(r) /\ Holds(process[c]) /\ active' = active - 1
  PROVE  ProcessInv'
<1> DEFINE H == {d \in ProcessCalls : Holds(process[d])}
           G == {d \in ProcessCalls : Holds(process'[d])}
<1>1. process' \in [ProcessCalls -> ProcessRow] /\ \A d \in ProcessCalls : RowSound(process'[d])
  BY DEF ProcessInv
<1>2. IsFiniteSet(H) /\ active = Cardinality(H) /\ Cardinality(H) \in Nat
  BY ProcessAssumption, FS_Subset, FS_CardinalityType DEF ProcessInv
<1>3. process'[c] = r /\ \A d \in ProcessCalls \ {c} : process'[d] = process[d]
  BY DEF ProcessInv
<1>4. CASE (Holds(r) <=> Holds(process[c])) /\ active' = active
  <2>1. G = H
    BY <1>3, <1>4
  <2> QED BY <1>1, <1>2, <1>4, <2>1 DEF ProcessInv
<1>5. CASE Holds(r) /\ ~Holds(process[c]) /\ active < MaxConcurrent /\ active' = active + 1
  <2>1. G = H \cup {c} /\ c \notin H
    BY <1>3, <1>5
  <2> HIDE DEF H, G
  <2>2. Cardinality(G) = Cardinality(H) + 1
    BY <1>2, <2>1, FS_AddElement
  <2>3. active' = Cardinality(G) /\ active' <= MaxConcurrent
    BY <1>2, <1>5, <2>2, ProcessAssumption
  <2> QED BY <1>1, <2>3 DEF ProcessInv, G
<1>6. CASE ~Holds(r) /\ Holds(process[c]) /\ active' = active - 1
  <2>1. G = H \ {c} /\ c \in H
    BY <1>3, <1>6
  <2> HIDE DEF H, G
  <2>2. Cardinality(G) = Cardinality(H) - 1
    BY <1>2, <2>1, FS_RemoveElement
  <2>3. active' = Cardinality(G) /\ active' <= MaxConcurrent
    BY <1>2, <1>6, <2>2, ProcessAssumption DEF ProcessInv
  <2> QED BY <1>1, <2>3 DEF ProcessInv, G
<1> QED BY <1>4, <1>5, <1>6

\* terminate keeps a row well formed and says why the child was killed.
LEMMA Terminated ==
  ASSUME NEW p \in ProcessRow, NEW reason \in {"TIMED_OUT", "CANCELLED", "OUTPUT_LIMIT"},
         RowSound(p), p.at = "child"
  PROVE  /\ Terminate(p, reason) \in ProcessRow /\ RowSound(Terminate(p, reason))
         /\ Terminate(p, reason).at = p.at
  BY DEF Terminate, ProcessRow, RowSound

LEMMA ProcessStep == ProcessInv /\ ProcessNext => ProcessInv'
<1> SUFFICES ASSUME ProcessInv, NEW c \in ProcessCalls,
                    \/ \E command \in ProcessCommands : Run(c, command)
                    \/ CancelRun(c) \/ ProcessTimeout(c) \/ ChildFails(c)
                    \/ \E b \in BOOLEAN : Spawn(c, b) \/ ChildCloses(c, b)
                    \/ \E stream \in Streams, n \in 1 .. MaxOutput + 1 : Output(c, stream, n)
             PROVE  ProcessInv'
  BY DEF ProcessNext
<1> DEFINE p == process[c]
           moved(at, outcome) == [p EXCEPT !.at = at, !.outcome = outcome]
<1>0. process \in [ProcessCalls -> ProcessRow] /\ p \in ProcessRow /\ RowSound(p) /\ runCancelled \in [ProcessCalls -> BOOLEAN]
      /\ active \in Nat
  BY ProcessAssumption, FS_Subset, FS_CardinalityType DEF ProcessInv
<1>1. ASSUME NEW at \in {"resolved", "rejected"},
             NEW outcome \in {"none", "TIMED_OUT", "CANCELLED", "OUTPUT_LIMIT", "EXITED", "SIGNALED"},
             ProcessEnds(c, at, outcome), Holds(p), outcome \in {"EXITED", "SIGNALED"} => ~p.killed
      PROVE  ProcessInv'
  <2>1. process' = [process EXCEPT ![c] = moved(at, outcome)]
    BY <1>0, <1>1 DEF ProcessEnds
  <2>2. moved(at, outcome) \in ProcessRow /\ RowSound(moved(at, outcome)) /\ ~Holds(moved(at, outcome))
    BY <1>0, <1>1 DEF ProcessRow, RowSound, Holds
  <2>3. active' = active - 1 /\ runCancelled' = runCancelled
    BY <1>1 DEF ProcessEnds
  <2> QED BY <1>0, <1>1, <2>1, <2>2, <2>3, SlotMoves
<1>2. ASSUME NEW command \in ProcessCommands, Run(c, command)
      PROVE  ProcessInv'
  <2> DEFINE at == IF ~Runnable(command) THEN "rejected" ELSE IF runCancelled[c] THEN "resolved"
                   ELSE IF active >= MaxConcurrent THEN "rejected" ELSE "resolving"
             r == moved(at, IF at = "resolved" THEN "CANCELLED" ELSE p.outcome)
  <2>1. p.at = "idle" /\ runCancelled' = runCancelled
    BY <1>2 DEF Run
  <2>2. process' = [process EXCEPT ![c] = r] /\ active' = IF at = "resolving" THEN active + 1 ELSE active
    BY <1>0, <1>2 DEF Run
  <2>3. r \in ProcessRow /\ RowSound(r) /\ r.at = at
    BY <1>0, <2>1 DEF ProcessRow, RowSound
  <2>4. at = "resolving" => active < MaxConcurrent
    BY <1>0, ProcessAssumption
  <2>5. at \in {"rejected", "resolved", "resolving"}
    OBVIOUS
  <2> HIDE DEF at, r
  <2> QED BY <1>0, <2>1, <2>2, <2>3, <2>4, <2>5, SlotMoves DEF Holds
<1>3. ASSUME CancelRun(c)
      PROVE  ProcessInv'
  <2>1. runCancelled' \in [ProcessCalls -> BOOLEAN] /\ active' = active
    BY <1>0, <1>3 DEF CancelRun
  <2>2. CASE p.at = "child"
    BY <1>0, <1>3, <2>1, <2>2, Terminated, SlotMoves DEF CancelRun, Holds
  <2>3. CASE p.at # "child"
    <3>1. process' = [process EXCEPT ![c] = p]
      BY <1>0, <1>3, <2>3 DEF CancelRun
    <3> QED BY <1>0, <2>1, <3>1, SlotMoves
  <2> QED BY <2>2, <2>3
<1>4. ASSUME ProcessTimeout(c)
      PROVE  ProcessInv'
  <2>1. process' = [process EXCEPT ![c] = Terminate(p, "TIMED_OUT")] /\ p.at = "child" /\ active' = active /\ runCancelled' = runCancelled
    BY <1>0, <1>4 DEF ProcessTimeout
  <2> QED BY <1>0, <2>1, Terminated, SlotMoves DEF Holds
<1>5. ASSUME ChildFails(c)
      PROVE  ProcessInv'
  BY <1>1, <1>5 DEF ChildFails, Holds
<1>6. ASSUME NEW b \in BOOLEAN, Spawn(c, b)
      PROVE  ProcessInv'
  <2>1. CASE ProcessEnds(c, "rejected", "none") \/ ProcessEnds(c, "resolved", "CANCELLED")
    BY <1>1, <1>6, <2>1 DEF Spawn, Holds
  <2>2. CASE process' = [process EXCEPT ![c].at = "child"] /\ UNCHANGED <<active, runCancelled>>
    <3> DEFINE r == [p EXCEPT !.at = "child"]
    <3>1. p.at = "resolving" /\ process' = [process EXCEPT ![c] = r]
      BY <1>0, <1>6, <2>2 DEF Spawn
    <3>2. r \in ProcessRow /\ RowSound(r) /\ r.at = "child"
      BY <1>0, <3>1 DEF ProcessRow, RowSound
    <3> QED BY <1>0, <2>2, <3>1, <3>2, SlotMoves DEF Holds
  <2> QED BY <1>6, <2>1, <2>2 DEF Spawn
<1>7. ASSUME NEW b \in BOOLEAN, ChildCloses(c, b)
      PROVE  ProcessInv'
  <2> DEFINE outcome == IF p.override # "none" THEN p.override ELSE IF b THEN "SIGNALED" ELSE "EXITED"
  <2>1. ProcessEnds(c, "resolved", outcome) /\ Holds(p)
    BY <1>7 DEF ChildCloses, Holds
  <2>2. outcome \in {"TIMED_OUT", "CANCELLED", "OUTPUT_LIMIT", "EXITED", "SIGNALED"}
    BY <1>0 DEF ProcessRow
  <2>3. outcome \in {"EXITED", "SIGNALED"} => ~p.killed
    BY <1>0 DEF ProcessRow, RowSound
  <2> HIDE DEF outcome
  <2> QED BY <1>1, <2>1, <2>2, <2>3
<1>8. ASSUME NEW stream \in Streams, NEW n \in 1 .. MaxOutput + 1, Output(c, stream, n)
      PROVE  ProcessInv'
  <2> DEFINE keeps(m) == [p.kept EXCEPT ![stream] = m]
             cut == [p EXCEPT !.kept = keeps(MaxOutput), !.truncated = TRUE]
             more == [p EXCEPT !.kept = keeps(p.kept[stream] + n)]
  <2>1. p.at = "child" /\ active' = active /\ runCancelled' = runCancelled
    BY <1>8 DEF Output
  <2>2. CASE n > MaxOutput - p.kept[stream]
    <3>1. process' = [process EXCEPT ![c] = Terminate(cut, "OUTPUT_LIMIT")]
      BY <1>0, <1>8, <2>2 DEF Output
    <3>2. p.kept \in [Streams -> 0 .. MaxOutput] /\ MaxOutput \in 0 .. MaxOutput
      BY <1>0, ProcessAssumption DEF ProcessRow
    <3>3. keeps(MaxOutput) \in [Streams -> 0 .. MaxOutput]
      BY <3>2
    <3> DEFINE r == Terminate(cut, "OUTPUT_LIMIT")
    <3>4. r \in ProcessRow /\ r.at = "child" /\ r.killed = TRUE /\ r.override # "none" /\ r.outcome = "none"
      <4> HIDE DEF keeps
      <4> QED BY <1>0, <2>1, <3>3 DEF ProcessRow, RowSound, Terminate
    <3>5. RowSound(r)
      BY <3>4 DEF RowSound
    <3> QED BY <1>0, <2>1, <3>1, <3>4, <3>5, SlotMoves DEF Holds
  <2>3. CASE ~(n > MaxOutput - p.kept[stream])
    <3>1. process' = [process EXCEPT ![c] = more]
      BY <1>0, <1>8, <2>3 DEF Output
    <3>2. p.kept \in [Streams -> 0 .. MaxOutput] /\ p.kept[stream] + n \in 0 .. MaxOutput
      BY <1>0, <2>3, ProcessAssumption DEF ProcessRow
    <3>3. more \in ProcessRow /\ RowSound(more) /\ more.at = "child"
      BY <1>0, <2>1, <3>2 DEF ProcessRow, RowSound
    <3> QED BY <1>0, <2>1, <3>1, <3>3, SlotMoves DEF Holds
  <2> QED BY <2>2, <2>3
<1> QED BY <1>2, <1>3, <1>4, <1>5, <1>6, <1>7, <1>8

LEMMA ProcessStarts == ProcessInit => ProcessInv
<1> SUFFICES ASSUME ProcessInit PROVE ProcessInv
  OBVIOUS
<1>1. \A c \in ProcessCalls : process[c] \in ProcessRow /\ RowSound(process[c]) /\ ~Holds(process[c])
  BY ProcessAssumption DEF ProcessInit, ProcessRow, RowSound, Holds, Streams
<1>2. process \in [ProcessCalls -> ProcessRow] /\ runCancelled \in [ProcessCalls -> BOOLEAN] /\ active = 0
  BY <1>1 DEF ProcessInit
<1>3. {c \in ProcessCalls : Holds(process[c])} = {}
  BY <1>1
<1> QED BY <1>1, <1>2, <1>3, FS_EmptySet, ProcessAssumption DEF ProcessInv

LEMMA ProcessStays == ProcessInv /\ UNCHANGED processVars => ProcessInv'
  BY DEF ProcessInv, processVars

LEMMA ProcessInvSound == ProcessInv => SlotsAccounted
  BY DEF ProcessInv, SlotsAccounted, ProcessRow, RowSound, Holds
-----------------------------------------------------------------------------
(* The runtime's single-flight maps (sandbox/production.ts) *)

SandboxRow ==
  [op : {"none", "open", "execute", "cleanup"}, key : ExecutionKeys \cup {NoSandbox},
   arg : Policies \cup Commands \cup KnownReasons \cup {NoSandbox},
   at : {"idle", "verifying", "allocating", "joining", "secrets", "running", "cleaning", "returned", "failed"},
   then : Policies \cup ExecuteAnswers \cup {"throw", NoSandbox}, cancelled : BOOLEAN]

ExecutionRow == [command : Commands, outcome : ExecuteAnswers, run : Nat]

SandboxTypeOK ==
  /\ sandboxCall \in [SandboxCalls -> SandboxRow]
  /\ executors \in [ExecutionKeys -> SandboxCalls \cup {NoSandbox}]
  /\ executions \in [ExecutionKeys -> ExecutionRow \cup {NoSandbox}]
  /\ adapterRuns \in [ExecutionKeys -> Nat]
  /\ opener \in SandboxCalls \cup {NoSandbox}
  /\ cleaner \in [reason : KnownReasons, by : SandboxCalls] \cup {NoSandbox}

\* Where a call may be, given what it was asked to do.
RowShape(s) ==
  /\ s.at \in {"secrets", "running"} => s.op = "execute"
  /\ s.at \in {"verifying", "allocating"} => s.op = "open"
  /\ s.at = "joining" => s.op \in {"open", "execute"}
  /\ s.at = "cleaning" => s.op \in {"execute", "cleanup"}
  /\ s.op = "open" => s.arg \in Policies
  /\ s.op = "execute" => s.key \in ExecutionKeys /\ s.arg \in Commands
  /\ s.op = "execute" /\ s.at = "cleaning" => s.then \in ExecuteAnswers \cup {"throw"}

\* The call owns an execution that has not settled.
Executes(s) == s.op = "execute" /\ s.at \in {"secrets", "running", "cleaning"}

\* #inflightExecutions names exactly the executing calls, and no key that has its result.
ExecutorsExact ==
  /\ \A k \in ExecutionKeys : executors[k] # NoSandbox =>
       Executes(sandboxCall[executors[k]]) /\ sandboxCall[executors[k]].key = k /\ executions[k] = NoSandbox
  /\ \A c \in SandboxCalls : Executes(sandboxCall[c]) => executors[sandboxCall[c].key] = c

\* A joiner waits for an execution of its own command; a waiting opener waits for somebody.
JoinersOwned ==
  /\ \A c \in SandboxCalls : sandboxCall[c].op = "execute" /\ sandboxCall[c].at = "joining" =>
       executors[sandboxCall[c].key] # NoSandbox /\ sandboxCall[executors[sandboxCall[c].key]].arg = sandboxCall[c].arg
  /\ \A c \in SandboxCalls : sandboxCall[c].op = "open" /\ sandboxCall[c].at = "joining" => opener # NoSandbox
  /\ opener # NoSandbox => sandboxCall[opener].at \in {"verifying", "allocating"}

\* What an executing call returned is what is recorded under its key.
Returns(s, e) ==
  s.op = "execute" /\ s.at = "returned" => e # NoSandbox /\ e.outcome = s.then /\ e.command = s.arg

ResultsRecorded ==
  /\ \A c \in SandboxCalls : Returns(sandboxCall[c], executions[sandboxCall[c].key])
  /\ \A k \in ExecutionKeys : executions[k] # NoSandbox => executions[k].run = adapterRuns[k]

CleaningOwned == \A c \in SandboxCalls : sandboxCall[c].at = "cleaning" => cleaner # NoSandbox

SandboxInv ==
  /\ SandboxTypeOK /\ \A c \in SandboxCalls : RowShape(sandboxCall[c])
  /\ ExecutorsExact /\ JoinersOwned /\ ResultsRecorded /\ CleaningOwned /\ BadEndReleases

\* Calls move without starting or ending an execution.
LEMMA CallsMove ==
  ASSUME SandboxInv, UNCHANGED executions, UNCHANGED executors, UNCHANGED releasedFor,
         UNCHANGED adapterRuns \/ \E k \in ExecutionKeys : executors[k] # NoSandbox /\ adapterRuns' = [adapterRuns EXCEPT ![k] = @ + 1],
         cleaner' \in [reason : KnownReasons, by : SandboxCalls] \cup {NoSandbox},
         sandboxCall' \in [SandboxCalls -> SandboxRow], opener' \in SandboxCalls \cup {NoSandbox},
         \A c \in SandboxCalls :
           \/ sandboxCall'[c] = sandboxCall[c]
           \/ /\ RowShape(sandboxCall'[c])
              /\ Executes(sandboxCall'[c]) <=> Executes(sandboxCall[c])
              /\ Executes(sandboxCall[c]) => sandboxCall'[c].key = sandboxCall[c].key /\ sandboxCall'[c].arg = sandboxCall[c].arg
              /\ sandboxCall'[c].op = "execute" /\ sandboxCall'[c].at = "joining" =>
                   /\ executors[sandboxCall'[c].key] # NoSandbox
                   /\ sandboxCall[executors[sandboxCall'[c].key]].arg = sandboxCall'[c].arg
              /\ Returns(sandboxCall'[c], executions[sandboxCall'[c].key]),
         \A c \in SandboxCalls : sandboxCall'[c].op = "open" /\ sandboxCall'[c].at = "joining" => opener' # NoSandbox,
         opener' # NoSandbox => sandboxCall'[opener'].at \in {"verifying", "allocating"},
         \A c \in SandboxCalls : sandboxCall'[c].at = "cleaning" => cleaner' # NoSandbox
  PROVE  SandboxInv'
<1>0. /\ adapterRuns' \in [ExecutionKeys -> Nat]
      /\ \A k \in ExecutionKeys : adapterRuns'[k] = adapterRuns[k] \/ executors[k] # NoSandbox
  BY DEF SandboxInv, SandboxTypeOK
<1>1. SandboxTypeOK' /\ \A c \in SandboxCalls : RowShape(sandboxCall'[c])
  BY <1>0 DEF SandboxInv, SandboxTypeOK
<1>2. \A c \in SandboxCalls :
        /\ Executes(sandboxCall'[c]) <=> Executes(sandboxCall[c])
        /\ Executes(sandboxCall[c]) => sandboxCall'[c].key = sandboxCall[c].key /\ sandboxCall'[c].arg = sandboxCall[c].arg
  OBVIOUS
<1>3. ExecutorsExact'
  BY <1>2 DEF SandboxInv, SandboxTypeOK, ExecutorsExact
<1>4. \A k \in ExecutionKeys : executors[k] # NoSandbox => sandboxCall'[executors[k]].arg = sandboxCall[executors[k]].arg
  BY <1>2 DEF SandboxInv, SandboxTypeOK, ExecutorsExact
<1>5. JoinersOwned'
  BY <1>1, <1>4 DEF SandboxInv, JoinersOwned, RowShape
<1>6. ResultsRecorded'
  BY <1>0 DEF SandboxInv, ResultsRecorded, ExecutorsExact
<1>7. CleaningOwned' /\ BadEndReleases'
  BY DEF SandboxInv, CleaningOwned, BadEndReleases
<1> QED BY <1>1, <1>3, <1>5, <1>6, <1>7 DEF SandboxInv

\* Executions end: their owners and joiners return the recorded result or throw, and
\* nothing but a success is recorded before the session is released.
LEMMA ExecutionsEnd ==
  ASSUME SandboxInv, UNCHANGED opener, UNCHANGED adapterRuns,
         NEW calls \in [SandboxCalls -> SandboxRow], NEW ended,
         \A c \in SandboxCalls :
           \/ sandboxCall[c].op = "execute" /\ calls[c] = sandboxCall[c]
           \/ /\ sandboxCall[c].op = "execute" /\ calls[c].op = "execute" /\ calls[c].at = "running" /\ sandboxCall[c].at = "running"
              /\ calls[c].key = sandboxCall[c].key /\ calls[c].arg = sandboxCall[c].arg
           \/ sandboxCall[c].op # "execute" /\ calls[c] = sandboxCall[c]
           \/ sandboxCall[c].op = "cleanup" /\ calls[c].op \in {"none", "cleanup"} /\ calls[c].at \in {"returned", "failed"},
         \A k \in DOMAIN ended : k \in ExecutionKeys /\ executors[k] # NoSandbox /\ ended[k] \in ExecuteAnswers \cup {"throw"},
         sandboxCall' = ExecutionsSettle(calls, ended), RecordExecutions(ended),
         cleaner' \in [reason : KnownReasons, by : SandboxCalls] \cup {NoSandbox},
         \A c \in SandboxCalls : sandboxCall'[c].at = "cleaning" => cleaner' # NoSandbox,
         releasedFor # NoSandbox => releasedFor' # NoSandbox,
         \A k \in DOMAIN ended : ended[k] \in {"throw", "SUCCEEDED"} \/ releasedFor' # NoSandbox
  PROVE  SandboxInv'
<1> DEFINE settled(c) == calls[c].op = "execute" /\ calls[c].at \notin {"idle", "returned", "failed"} /\ calls[c].key \in DOMAIN ended
<1>1. SandboxTypeOK
  BY DEF SandboxInv
<1>2. \A c \in SandboxCalls :
        /\ RowShape(calls[c])
        /\ calls[c].op = "execute" <=> sandboxCall[c].op = "execute"
        /\ calls[c].op = "execute" => calls[c].at = sandboxCall[c].at /\ calls[c].key = sandboxCall[c].key /\ calls[c].arg = sandboxCall[c].arg
        /\ Executes(calls[c]) <=> Executes(sandboxCall[c])
  BY DEF SandboxInv, RowShape, Executes
<1>3. \A c \in SandboxCalls : settled(c) => \/ executors[calls[c].key] = c
                                            \/ calls[c].at = "joining"
  BY <1>2 DEF SandboxInv, ExecutorsExact, Executes, RowShape, SandboxTypeOK, SandboxRow
<1>4. \A c \in SandboxCalls :
        /\ ~settled(c) => sandboxCall'[c] = calls[c]
        /\ settled(c) => \/ sandboxCall'[c] = SandboxFailed
                         \/ /\ ended[calls[c].key] # "throw"
                            /\ sandboxCall'[c] = [calls[c] EXCEPT !.at = "returned", !.then = ended[calls[c].key]]
  BY <1>3 DEF ExecutionsSettle, Replayed
<1>5. \A c \in SandboxCalls : settled(c) => sandboxCall'[c] \in SandboxRow /\ RowShape(sandboxCall'[c]) /\ ~Executes(sandboxCall'[c])
  <2> SUFFICES ASSUME NEW c \in SandboxCalls, settled(c)
               PROVE  sandboxCall'[c] \in SandboxRow /\ RowShape(sandboxCall'[c]) /\ ~Executes(sandboxCall'[c])
    OBVIOUS
  <2>1. CASE sandboxCall'[c] = SandboxFailed
    BY <2>1 DEF SandboxFailed, SandboxIdle, SandboxRow, RowShape, Executes
  <2>2. CASE sandboxCall'[c] = [calls[c] EXCEPT !.at = "returned", !.then = ended[calls[c].key]]
    <3>1. ended[calls[c].key] \in Policies \cup ExecuteAnswers \cup {"throw", NoSandbox} /\ calls[c] \in SandboxRow /\ RowShape(calls[c])
      BY <1>2
    <3> QED BY <2>2, <3>1 DEF SandboxRow, RowShape, Executes
  <2> QED BY <1>4, <2>1, <2>2
<1>6. /\ DOMAIN sandboxCall' = SandboxCalls /\ sandboxCall' \in [SandboxCalls -> SandboxRow]
      /\ \A c \in SandboxCalls : RowShape(sandboxCall'[c])
  BY <1>2, <1>4, <1>5 DEF ExecutionsSettle
<1>7. \A k \in ExecutionKeys :
        /\ executors'[k] = IF k \in DOMAIN ended THEN NoSandbox ELSE executors[k]
        /\ ~(k \in DOMAIN ended /\ ended[k] # "throw") => executions'[k] = executions[k]
        /\ k \in DOMAIN ended /\ ended[k] # "throw" =>
             executions'[k] = [command |-> sandboxCall[executors[k]].arg, outcome |-> ended[k], run |-> adapterRuns[k]]
  BY DEF RecordExecutions
<1>8. \A k \in DOMAIN ended : ended[k] # "throw" =>
        /\ executions'[k] \in ExecutionRow /\ executions'[k] # NoSandbox /\ executions'[k].outcome = ended[k]
        /\ executions'[k].command = sandboxCall[executors[k]].arg /\ executions'[k].run = adapterRuns[k]
  <2> SUFFICES ASSUME NEW k \in DOMAIN ended, ended[k] # "throw"
               PROVE  /\ executions'[k] \in ExecutionRow /\ executions'[k] # NoSandbox /\ executions'[k].outcome = ended[k]
                      /\ executions'[k].command = sandboxCall[executors[k]].arg /\ executions'[k].run = adapterRuns[k]
    OBVIOUS
  <2>1. executors[k] \in SandboxCalls /\ sandboxCall[executors[k]].op = "execute" /\ k \in ExecutionKeys
    BY <1>1 DEF SandboxInv, ExecutorsExact, Executes, SandboxTypeOK
  <2>2. sandboxCall[executors[k]].arg \in Commands /\ ended[k] \in ExecuteAnswers /\ adapterRuns[k] \in Nat
    BY <1>1, <2>1 DEF SandboxInv, RowShape, SandboxTypeOK
  <2>3. executions'[k] = [command |-> sandboxCall[executors[k]].arg, outcome |-> ended[k], run |-> adapterRuns[k]]
    BY <1>7, <2>1
  <2> HIDE DEF settled
  <2>4. executions'[k] \in ExecutionRow
    BY <2>2, <2>3 DEF ExecutionRow
  <2> QED BY <2>3, <2>4, SandboxAssumption DEF ExecutionRow
<1>9. SandboxTypeOK'
  <2>1. executors' \in [ExecutionKeys -> SandboxCalls \cup {NoSandbox}]
    BY <1>1, <1>7 DEF RecordExecutions, SandboxTypeOK
  <2>2. executions' \in [ExecutionKeys -> ExecutionRow \cup {NoSandbox}]
    BY <1>1, <1>7, <1>8 DEF RecordExecutions, SandboxTypeOK
  <2> QED BY <1>1, <1>6, <2>1, <2>2 DEF SandboxTypeOK
<1>10. ExecutorsExact'
  <2>1. ASSUME NEW k \in ExecutionKeys, executors'[k] # NoSandbox
        PROVE  Executes(sandboxCall'[executors'[k]]) /\ sandboxCall'[executors'[k]].key = k /\ executions'[k] = NoSandbox
    <3>1. k \notin DOMAIN ended /\ executors'[k] = executors[k] /\ executions'[k] = executions[k] /\ executors[k] \in SandboxCalls
      BY <1>1, <1>7, <2>1 DEF SandboxTypeOK
    <3>2. Executes(sandboxCall[executors[k]]) /\ sandboxCall[executors[k]].key = k /\ executions[k] = NoSandbox
      BY <2>1, <3>1 DEF SandboxInv, ExecutorsExact
    <3>3. ~settled(executors[k]) /\ Executes(calls[executors[k]]) /\ calls[executors[k]].key = k
      BY <1>2, <3>1, <3>2 DEF Executes
    <3>4. sandboxCall'[executors[k]] = calls[executors[k]]
      BY <1>4, <3>1, <3>3
    <3> HIDE DEF settled
    <3> QED BY <3>1, <3>2, <3>3, <3>4
  <2>2. ASSUME NEW c \in SandboxCalls, Executes(sandboxCall'[c])
        PROVE  executors'[sandboxCall'[c].key] = c
    <3>1. ~settled(c) /\ sandboxCall'[c] = calls[c]
      BY <1>4, <1>5, <2>2
    <3>2. Executes(sandboxCall[c]) /\ calls[c].key = sandboxCall[c].key /\ calls[c].key \in ExecutionKeys /\ calls[c].key \notin DOMAIN ended
      BY <1>2, <2>2, <3>1 DEF Executes, RowShape
    <3>3. executors[sandboxCall[c].key] = c
      BY <3>2 DEF SandboxInv, ExecutorsExact
    <3>4. executors'[calls[c].key] = executors[calls[c].key]
      BY <1>7, <3>2
    <3> QED BY <3>1, <3>2, <3>3, <3>4
  <2> QED BY <2>1, <2>2 DEF ExecutorsExact
<1>11. JoinersOwned'
  <2>1. ASSUME NEW c \in SandboxCalls, sandboxCall'[c].op = "execute", sandboxCall'[c].at = "joining"
        PROVE  executors'[sandboxCall'[c].key] # NoSandbox /\ sandboxCall'[executors'[sandboxCall'[c].key]].arg = sandboxCall'[c].arg
    <3>1. ~settled(c) /\ sandboxCall'[c] = calls[c]
      <4>1. CASE settled(c)
        BY <1>4, <2>1, <4>1 DEF SandboxFailed, SandboxIdle, SandboxRow
      <4> QED BY <1>4, <4>1
    <3> DEFINE k == calls[c].key
               o == executors[k]
    <3>2. k = sandboxCall[c].key /\ k \in ExecutionKeys /\ k \notin DOMAIN ended /\ sandboxCall[c].op = "execute" /\ sandboxCall[c].at = "joining"
          /\ calls[c].arg = sandboxCall[c].arg
      BY <1>2, <2>1, <3>1 DEF RowShape
    <3>6. executors'[k] = o
      BY <1>7, <3>2
    <3>7. o # NoSandbox /\ sandboxCall[o].arg = calls[c].arg
      BY <3>2 DEF SandboxInv, JoinersOwned
    <3>3. o \in SandboxCalls
      BY <1>1, <3>2, <3>7 DEF SandboxTypeOK
    <3>4. Executes(sandboxCall[o]) /\ sandboxCall[o].key = k
      BY <3>2, <3>7 DEF SandboxInv, ExecutorsExact
    <3>5. calls[o].arg = sandboxCall[o].arg /\ ~settled(o)
      BY <1>2, <3>2, <3>3, <3>4 DEF Executes
    <3>8. sandboxCall'[o] = calls[o]
      BY <1>4, <3>3, <3>5
    <3> QED BY <3>1, <3>5, <3>6, <3>7, <3>8
  <2>2. ASSUME NEW c \in SandboxCalls, sandboxCall'[c].op = "open", sandboxCall'[c].at = "joining"
        PROVE  opener' # NoSandbox
    <3>1. ~settled(c) /\ sandboxCall'[c] = calls[c]
      <4>1. CASE settled(c)
        BY <1>4, <2>2, <4>1 DEF SandboxFailed, SandboxIdle, SandboxRow
      <4> QED BY <1>4, <4>1
    <3>2. calls[c] = sandboxCall[c]
      BY <2>2, <3>1
    <3> QED BY <2>2, <3>1, <3>2 DEF SandboxInv, JoinersOwned
  <2>3. opener' # NoSandbox => sandboxCall'[opener'].at \in {"verifying", "allocating"}
    <3> SUFFICES ASSUME opener # NoSandbox PROVE sandboxCall'[opener].at \in {"verifying", "allocating"}
      OBVIOUS
    <3>1. opener \in SandboxCalls /\ sandboxCall[opener].at \in {"verifying", "allocating"} /\ sandboxCall[opener].op = "open"
      BY <1>1 DEF SandboxInv, JoinersOwned, RowShape, SandboxTypeOK
    <3>2. calls[opener] = sandboxCall[opener]
      BY <3>1
    <3> QED BY <1>4, <3>1, <3>2
  <2> QED BY <2>1, <2>2, <2>3 DEF JoinersOwned
<1>12. ResultsRecorded'
  <2>1. ASSUME NEW c \in SandboxCalls
        PROVE  Returns(sandboxCall'[c], executions'[sandboxCall'[c].key])
    <3>1. CASE settled(c) /\ sandboxCall'[c] = SandboxFailed
      BY <3>1 DEF SandboxFailed, SandboxIdle, Returns
    <3>2. CASE settled(c) /\ ended[calls[c].key] # "throw" /\ sandboxCall'[c] = [calls[c] EXCEPT !.at = "returned", !.then = ended[calls[c].key]]
      <4> DEFINE k == calls[c].key
      <4>1. sandboxCall'[c].key = k /\ sandboxCall'[c].then = ended[k] /\ sandboxCall'[c].arg = calls[c].arg /\ k \in DOMAIN ended
        BY <3>2 DEF SandboxRow
      <4>2. sandboxCall[executors[k]].arg = calls[c].arg
        BY <1>2, <1>3, <3>2 DEF SandboxInv, JoinersOwned
      <4> QED BY <1>8, <3>2, <4>1, <4>2 DEF Returns
    <3>3. CASE ~settled(c)
      <4> SUFFICES ASSUME sandboxCall'[c].op = "execute", sandboxCall'[c].at = "returned"
                   PROVE  Returns(sandboxCall'[c], executions'[sandboxCall'[c].key])
        BY DEF Returns
      <4>1. sandboxCall'[c] = calls[c] /\ calls[c] = sandboxCall[c]
        BY <1>2, <1>4, <3>3
      <4> DEFINE k == sandboxCall[c].key
      <4>2. k \in ExecutionKeys /\ executions[k] # NoSandbox
        BY <4>1 DEF SandboxInv, RowShape, ResultsRecorded, Returns
      <4>3. executors[k] = NoSandbox
        BY <4>2 DEF SandboxInv, ExecutorsExact
      <4>4. executions'[k] = executions[k]
        BY <1>7, <4>2, <4>3
      <4> QED BY <4>1, <4>4 DEF SandboxInv, ResultsRecorded
    <3> QED BY <1>4, <3>1, <3>2, <3>3
  <2>2. ASSUME NEW k \in ExecutionKeys, executions'[k] # NoSandbox
        PROVE  executions'[k].run = adapterRuns'[k]
    <3>1. CASE k \in DOMAIN ended /\ ended[k] # "throw"
      BY <1>8, <3>1
    <3>2. CASE ~(k \in DOMAIN ended /\ ended[k] # "throw")
      <4>1. executions'[k] = executions[k]
        BY <1>7, <3>2
      <4> QED BY <2>2, <4>1 DEF SandboxInv, ResultsRecorded
    <3> QED BY <3>1, <3>2
  <2> QED BY <2>1, <2>2 DEF ResultsRecorded
<1>13. BadEndReleases'
  <2> SUFFICES ASSUME NEW k \in ExecutionKeys, executions'[k] # NoSandbox, executions'[k].outcome # "SUCCEEDED"
               PROVE  releasedFor' # NoSandbox
    BY DEF BadEndReleases
  <2>1. CASE k \in DOMAIN ended /\ ended[k] # "throw"
    BY <1>8, <2>1
  <2>2. CASE ~(k \in DOMAIN ended /\ ended[k] # "throw")
    <3>1. executions'[k] = executions[k]
      BY <1>7, <2>2
    <3> QED BY <3>1 DEF SandboxInv, BadEndReleases
  <2> QED BY <2>1, <2>2
<1> QED BY <1>6, <1>9, <1>10, <1>11, <1>12, <1>13 DEF SandboxInv, CleaningOwned

\* An execution that ends badly cleans up: it waits, or it ends at once.
LEMMA ExecutionCleans ==
  ASSUME SandboxInv, NEW c \in SandboxCalls, sandboxCall[c].at = "running", NEW reason \in KnownReasons,
         NEW then \in ExecuteAnswers \cup {"throw"},
         CleanupStarts([sandboxCall EXCEPT ![c].then = then], c, reason, FALSE),
         UNCHANGED opener, UNCHANGED releasedFor, UNCHANGED adapterRuns
  PROVE  SandboxInv'
<1> DEFINE s == sandboxCall[c]
           r == [s EXCEPT !.then = then]
           calls == [sandboxCall EXCEPT ![c].then = then]
           ended == [j \in {s.key} |-> IF reason = releasedFor /\ Audited THEN then ELSE "throw"]
           thrown == [j \in {s.key} |-> "throw"]
<1>1. s \in SandboxRow /\ RowShape(s) /\ s.op = "execute" /\ s.key \in ExecutionKeys /\ executors[s.key] = c
  BY DEF SandboxInv, SandboxTypeOK, RowShape, ExecutorsExact, Executes
<1>2. r \in SandboxRow /\ r.op = s.op /\ r.key = s.key /\ r.arg = s.arg /\ r.at = s.at /\ r.then = then
  BY <1>1 DEF SandboxRow
<1>3. calls \in [SandboxCalls -> SandboxRow] /\ calls[c] = r /\ \A d \in SandboxCalls \ {c} : calls[d] = sandboxCall[d]
  BY <1>1, <1>2 DEF SandboxInv, SandboxTypeOK
<1>4. /\ cleaner \in [reason : KnownReasons, by : SandboxCalls] \cup {NoSandbox}
      /\ \A d \in SandboxCalls : sandboxCall[d].at = "cleaning" => cleaner # NoSandbox
  BY DEF SandboxInv, SandboxTypeOK, CleaningOwned
<1> HIDE DEF r, calls
<1>5. ASSUME NEW result \in ExecuteAnswers \cup {"throw"}, result = "throw" \/ releasedFor # NoSandbox,
             sandboxCall' = ExecutionsSettle(calls, [j \in {s.key} |-> result]),
             RecordExecutions([j \in {s.key} |-> result]), UNCHANGED cleaner
      PROVE  SandboxInv'
  <2> DEFINE e == [j \in {s.key} |-> result]
  <2>1. DOMAIN e = {s.key} /\ e[s.key] = result
    OBVIOUS
  <2> HIDE DEF e
  <2>2. \A d \in SandboxCalls : sandboxCall'[d].at = "cleaning" => sandboxCall[d].at = "cleaning"
    BY <1>1, <1>2, <1>3, <1>5 DEF ExecutionsSettle, Replayed, SandboxFailed, SandboxIdle, SandboxRow, e
  <2>4. \A k \in DOMAIN e : k \in ExecutionKeys /\ executors[k] # NoSandbox /\ e[k] \in ExecuteAnswers \cup {"throw"}
    BY <1>1, <2>1, SandboxAssumption
  <2>5. \A d \in SandboxCalls :
           \/ sandboxCall[d].op = "execute" /\ calls[d] = sandboxCall[d]
           \/ /\ sandboxCall[d].op = "execute" /\ calls[d].op = "execute" /\ calls[d].at = "running" /\ sandboxCall[d].at = "running"
              /\ calls[d].key = sandboxCall[d].key /\ calls[d].arg = sandboxCall[d].arg
           \/ sandboxCall[d].op # "execute" /\ calls[d] = sandboxCall[d]
           \/ sandboxCall[d].op = "cleanup" /\ calls[d].op \in {"none", "cleanup"} /\ calls[d].at \in {"returned", "failed"}
    BY <1>1, <1>2, <1>3
  <2>6. sandboxCall' = ExecutionsSettle(calls, e) /\ RecordExecutions(e)
    BY <1>5 DEF e
  <2> QED BY <1>3, <1>4, <1>5, <2>1, <2>2, <2>4, <2>5, <2>6, ExecutionsEnd
<1>6. CASE releasedFor # NoSandbox
  <2> DEFINE result == IF reason = releasedFor /\ Audited THEN then ELSE "throw"
             e == [j \in (IF FALSE THEN {} ELSE {calls[c].key}) |-> IF reason = releasedFor /\ Audited THEN calls[c].then ELSE "throw"]
  <2>1. sandboxCall' = ExecutionsSettle(calls, e) /\ RecordExecutions(e) /\ UNCHANGED cleaner
    BY <1>6 DEF CleanupStarts, calls
  <2>2. e = [j \in {s.key} |-> result]
    BY <1>2, <1>3
  <2>3. result \in ExecuteAnswers \cup {"throw"}
    OBVIOUS
  <2> HIDE DEF result, e
  <2> QED BY <1>5, <1>6, <2>1, <2>2, <2>3
<1>7. CASE releasedFor = NoSandbox /\ cleaner # NoSandbox /\ cleaner.reason # reason
  BY <1>2, <1>3, <1>5, <1>7 DEF CleanupStarts, calls
<1>8. CASE releasedFor = NoSandbox /\ ~(cleaner # NoSandbox /\ cleaner.reason # reason)
  <2> DEFINE q == [r EXCEPT !.at = "cleaning"]
  <2>1. /\ sandboxCall' = [calls EXCEPT ![c].at = "cleaning"] /\ UNCHANGED executions /\ UNCHANGED executors
        /\ cleaner' = IF cleaner = NoSandbox THEN [reason |-> reason, by |-> c] ELSE cleaner
    BY <1>8 DEF CleanupStarts, calls
  <2>2. q \in SandboxRow /\ q.op = "execute" /\ q.key = s.key /\ q.arg = s.arg /\ q.then = then /\ q.at = "cleaning"
    BY <1>1, <1>2 DEF SandboxRow
  <2>3. sandboxCall'[c] = q /\ \A d \in SandboxCalls \ {c} : sandboxCall'[d] = sandboxCall[d]
    BY <1>3, <2>1
  <2>4. sandboxCall' \in [SandboxCalls -> SandboxRow]
    BY <1>3, <2>1, <2>2, <2>3
  <2>5. cleaner' \in [reason : KnownReasons, by : SandboxCalls] /\ cleaner' # NoSandbox
    BY <1>4, <2>1, SandboxAssumption
  <2>6. RowShape(q) /\ Executes(q) /\ Executes(s) /\ Returns(q, executions[q.key])
    BY <1>1, <2>2 DEF RowShape, Executes, Returns
  <2>7. opener' # NoSandbox => sandboxCall'[opener'].at \in {"verifying", "allocating"}
    BY <2>3 DEF SandboxInv, JoinersOwned, SandboxTypeOK
  <2>8. \A d \in SandboxCalls : sandboxCall'[d].op = "open" /\ sandboxCall'[d].at = "joining" => opener' # NoSandbox
    BY <2>2, <2>3 DEF SandboxInv, JoinersOwned
  <2>9. opener' \in SandboxCalls \cup {NoSandbox}
    BY DEF SandboxInv, SandboxTypeOK
  <2> HIDE DEF q, s
  <2>10. \A d \in SandboxCalls :
           \/ sandboxCall'[d] = sandboxCall[d]
           \/ /\ RowShape(sandboxCall'[d])
              /\ Executes(sandboxCall'[d]) <=> Executes(sandboxCall[d])
              /\ Executes(sandboxCall[d]) => sandboxCall'[d].key = sandboxCall[d].key /\ sandboxCall'[d].arg = sandboxCall[d].arg
              /\ sandboxCall'[d].op = "execute" /\ sandboxCall'[d].at = "joining" =>
                   /\ executors[sandboxCall'[d].key] # NoSandbox
                   /\ sandboxCall[executors[sandboxCall'[d].key]].arg = sandboxCall'[d].arg
              /\ Returns(sandboxCall'[d], executions[sandboxCall'[d].key])
    BY <2>2, <2>3, <2>6 DEF s
  <2> QED BY <2>1, <2>4, <2>5, <2>7, <2>8, <2>9, <2>10, CallsMove
<1> QED BY <1>6, <1>7, <1>8

\* A client's cleanup: refused, replayed, joined or started.
LEMMA CleanupKeeps ==
  ASSUME SandboxInv, NEW c \in SandboxCalls, NEW reason, NEW latest, Cleanup(c, reason, latest)
  PROVE  SandboxInv'
<1> DEFINE s == [SandboxIdle EXCEPT !.op = "cleanup", !.arg = reason]
           calls == [sandboxCall EXCEPT ![c] = s]
<1>1. sandboxCall[c].at = "idle" /\ sandboxCall \in [SandboxCalls -> SandboxRow] /\ opener' = opener /\ releasedFor' = releasedFor /\ adapterRuns' = adapterRuns
  BY DEF Cleanup, SandboxInv, SandboxTypeOK
<1>2. /\ cleaner \in [reason : KnownReasons, by : SandboxCalls] \cup {NoSandbox} /\ opener \in SandboxCalls \cup {NoSandbox}
      /\ executors \in [ExecutionKeys -> SandboxCalls \cup {NoSandbox}]
      /\ executions \in [ExecutionKeys -> ExecutionRow \cup {NoSandbox}]
  BY DEF SandboxInv, SandboxTypeOK
<1>3. ASSUME NEW q \in SandboxRow, q.op # "execute", q.at \in {"returned", "failed", "cleaning"}, RowShape(q),
             sandboxCall' = [sandboxCall EXCEPT ![c] = q], UNCHANGED executions, UNCHANGED executors,
             cleaner' \in [reason : KnownReasons, by : SandboxCalls] \cup {NoSandbox},
             cleaner # NoSandbox \/ q.at = "cleaning" => cleaner' # NoSandbox
      PROVE  SandboxInv'
  <2>1. /\ sandboxCall'[c] = q /\ \A d \in SandboxCalls \ {c} : sandboxCall'[d] = sandboxCall[d]
        /\ sandboxCall' \in [SandboxCalls -> SandboxRow]
    BY <1>1, <1>3
  <2>2. ~Executes(q) /\ ~Executes(sandboxCall[c]) /\ Returns(q, executions[q.key])
    BY <1>1, <1>3 DEF Executes, Returns
  <2>3. opener' # NoSandbox => sandboxCall'[opener'].at \in {"verifying", "allocating"}
    BY <1>1, <2>1 DEF SandboxInv, JoinersOwned, SandboxTypeOK
  <2>4. \A d \in SandboxCalls : sandboxCall'[d].op = "open" /\ sandboxCall'[d].at = "joining" => opener' # NoSandbox
    BY <1>1, <1>3, <2>1 DEF SandboxInv, JoinersOwned
  <2>5. \A d \in SandboxCalls : sandboxCall'[d].at = "cleaning" => cleaner' # NoSandbox
    BY <1>3, <2>1 DEF SandboxInv, CleaningOwned
  <2> QED BY <1>1, <1>2, <1>3, <2>1, <2>2, <2>3, <2>4, <2>5, CallsMove
<1>4. SandboxFailed \in SandboxRow /\ RowShape(SandboxFailed) /\ SandboxFailed.op = "none" /\ SandboxFailed.at = "failed"
  BY DEF SandboxFailed, SandboxIdle, SandboxRow, RowShape
<1>5. CASE ~(RequireKnownSession(latest) /\ reason \in KnownReasons)
  BY <1>2, <1>3, <1>4, <1>5 DEF Cleanup
<1>6. CASE RequireKnownSession(latest) /\ reason \in KnownReasons
  <2>1. CleanupStarts(calls, c, reason, TRUE)
    BY <1>6 DEF Cleanup
  <2>2. /\ s \in SandboxRow /\ s.op = "cleanup" /\ calls[c] = s
        /\ [calls EXCEPT ![c] = SandboxFailed] = [sandboxCall EXCEPT ![c] = SandboxFailed]
        /\ [calls EXCEPT ![c] = [@ EXCEPT !.at = "returned"]] = [sandboxCall EXCEPT ![c] = [s EXCEPT !.at = "returned"]]
        /\ [calls EXCEPT ![c].at = "cleaning"] = [sandboxCall EXCEPT ![c] = [s EXCEPT !.at = "cleaning"]]
    BY <1>1, <1>6 DEF SandboxIdle, SandboxRow
  <2> HIDE DEF s
  <2>3. \A at \in {"returned", "cleaning"} :
           /\ [s EXCEPT !.at = at] \in SandboxRow /\ [s EXCEPT !.at = at].op = "cleanup" /\ [s EXCEPT !.at = at].at = at
           /\ RowShape([s EXCEPT !.at = at])
    BY <2>2 DEF SandboxRow, RowShape
  <2>4. ASSUME NEW e, DOMAIN e = {}, RecordExecutions(e)
        PROVE  executions' = executions /\ executors' = executors
    BY <1>2, <2>4 DEF RecordExecutions
  <2> HIDE DEF calls
  <2>5. CASE releasedFor # NoSandbox
    <3> DEFINE replay == reason = releasedFor /\ Audited
               e == [k \in (IF TRUE THEN {} ELSE {calls[c].key}) |-> IF replay THEN calls[c].then ELSE "throw"]
    <3>1. DOMAIN e = {}
      OBVIOUS
    <3>2. /\ sandboxCall' = [calls EXCEPT ![c] = IF replay THEN [@ EXCEPT !.at = "returned"] ELSE SandboxFailed]
          /\ RecordExecutions(e) /\ UNCHANGED cleaner
      BY <2>1, <2>5 DEF CleanupStarts
    <3>3. sandboxCall' = [sandboxCall EXCEPT ![c] = IF replay THEN [s EXCEPT !.at = "returned"] ELSE SandboxFailed]
      BY <2>2, <3>2
    <3> HIDE DEF e
    <3>4. UNCHANGED executions /\ UNCHANGED executors
      BY <2>4, <3>1, <3>2
    <3>5. CASE replay
      BY <1>2, <1>3, <2>3, <3>2, <3>3, <3>4, <3>5
    <3>6. CASE ~replay
      BY <1>2, <1>3, <1>4, <3>2, <3>3, <3>4, <3>6
    <3> QED BY <3>5, <3>6
  <2>6. CASE releasedFor = NoSandbox /\ cleaner # NoSandbox /\ cleaner.reason # reason
    <3> DEFINE replay == reason = releasedFor /\ Audited
               e == [k \in (IF TRUE THEN {} ELSE {calls[c].key}) |-> IF replay THEN calls[c].then ELSE "throw"]
               thrown == [k \in DOMAIN e |-> "throw"]
    <3>1. DOMAIN thrown = {}
      OBVIOUS
    <3>2. sandboxCall' = [calls EXCEPT ![c] = SandboxFailed] /\ RecordExecutions(thrown) /\ UNCHANGED cleaner
      BY <2>1, <2>6 DEF CleanupStarts
    <3> HIDE DEF thrown
    <3>4. UNCHANGED executions /\ UNCHANGED executors
      BY <2>4, <3>1, <3>2
    <3> QED BY <1>2, <1>3, <1>4, <2>2, <3>2, <3>4
  <2>7. CASE releasedFor = NoSandbox /\ ~(cleaner # NoSandbox /\ cleaner.reason # reason)
    <3>1. /\ sandboxCall' = [calls EXCEPT ![c].at = "cleaning"]
          /\ cleaner' = IF cleaner = NoSandbox THEN [reason |-> reason, by |-> c] ELSE cleaner
          /\ UNCHANGED executions /\ UNCHANGED executors
      BY <2>1, <2>7 DEF CleanupStarts
    <3>2. cleaner' \in [reason : KnownReasons, by : SandboxCalls] \cup {NoSandbox} /\ cleaner' # NoSandbox
      BY <1>2, <1>6, <3>1, SandboxAssumption
    <3> QED BY <1>3, <2>2, <2>3, <3>1, <3>2
  <2> QED BY <2>5, <2>6, <2>7
<1> QED BY <1>5, <1>6

\* One call changes its place without executing: the in-flight maps hold.
LEMMA OneCallMoves ==
  ASSUME SandboxInv, NEW c \in SandboxCalls, NEW q \in SandboxRow, RowShape(q),
         sandboxCall' = [sandboxCall EXCEPT ![c] = q],
         UNCHANGED executions, UNCHANGED executors, UNCHANGED releasedFor, UNCHANGED cleaner,
         UNCHANGED adapterRuns \/ \E k \in ExecutionKeys : executors[k] # NoSandbox /\ adapterRuns' = [adapterRuns EXCEPT ![k] = @ + 1],
         \/ q.op # "execute" /\ ~Executes(sandboxCall[c])
         \/ Executes(q) /\ Executes(sandboxCall[c]) /\ q.key = sandboxCall[c].key /\ q.arg = sandboxCall[c].arg
         \/ /\ q.op = "execute" /\ ~Executes(sandboxCall[c]) /\ ~Executes(q)
            /\ q.at = "joining" => executors[q.key] # NoSandbox /\ sandboxCall[executors[q.key]].arg = q.arg
            /\ Returns(q, executions[q.key]),
         q.at = "cleaning" => sandboxCall[c].at = "cleaning",
         opener' \in SandboxCalls \cup {NoSandbox},
         opener # NoSandbox => opener' = opener,
         q.op = "open" /\ q.at = "joining" => opener # NoSandbox,
         opener' = c => q.at \in {"verifying", "allocating"},
         opener' \in {opener, c}
  PROVE  SandboxInv'
<1>1. /\ sandboxCall'[c] = q /\ \A d \in SandboxCalls \ {c} : sandboxCall'[d] = sandboxCall[d]
      /\ sandboxCall' \in [SandboxCalls -> SandboxRow]
  BY DEF SandboxInv, SandboxTypeOK
<1>2. cleaner' \in [reason : KnownReasons, by : SandboxCalls] \cup {NoSandbox}
  BY DEF SandboxInv, SandboxTypeOK
<1>3. opener' # NoSandbox => sandboxCall'[opener'].at \in {"verifying", "allocating"}
  BY <1>1 DEF SandboxInv, JoinersOwned, SandboxTypeOK
<1>4. \A d \in SandboxCalls : sandboxCall'[d].op = "open" /\ sandboxCall'[d].at = "joining" => opener' # NoSandbox
  BY <1>1 DEF SandboxInv, JoinersOwned
<1>5. \A d \in SandboxCalls : sandboxCall'[d].at = "cleaning" => cleaner' # NoSandbox
  BY <1>1 DEF SandboxInv, CleaningOwned
<1>6. /\ Executes(q) <=> Executes(sandboxCall[c])
      /\ Executes(sandboxCall[c]) => q.key = sandboxCall[c].key /\ q.arg = sandboxCall[c].arg
      /\ Returns(q, executions[q.key])
      /\ q.op = "execute" /\ q.at = "joining" => executors[q.key] # NoSandbox /\ sandboxCall[executors[q.key]].arg = q.arg
  BY DEF Executes, Returns
<1> QED BY <1>1, <1>2, <1>3, <1>4, <1>5, <1>6, CallsMove

LEMMA FailedRow ==
  SandboxFailed \in SandboxRow /\ RowShape(SandboxFailed) /\ SandboxFailed.op = "none" /\ SandboxFailed.at = "failed"
  BY DEF SandboxFailed, SandboxIdle, SandboxRow, RowShape

\* A replay returns the stored answer or fails.
LEMMA ReplayedRow ==
  ASSUME NEW s \in SandboxRow, RowShape(s), NEW result \in Policies \cup ExecuteAnswers
  PROVE  \/ Replayed(s, result) = SandboxFailed
         \/ /\ Replayed(s, result) \in SandboxRow /\ RowShape(Replayed(s, result))
            /\ Replayed(s, result).op = s.op /\ Replayed(s, result).key = s.key /\ Replayed(s, result).arg = s.arg
            /\ Replayed(s, result).at = "returned" /\ Replayed(s, result).then = result
  BY DEF Replayed, SandboxRow, RowShape

LEMMA OpenKeeps ==
  ASSUME SandboxInv, NEW c \in SandboxCalls, NEW p \in Policies, Open(c, p)
  PROVE  SandboxInv'
<1> DEFINE s == [SandboxIdle EXCEPT !.op = "open", !.arg = p]
           r(at) == [s EXCEPT !.at = at]
<1>1. /\ sandboxCall[c].at = "idle" /\ ~Executes(sandboxCall[c])
      /\ UNCHANGED executions /\ UNCHANGED executors /\ UNCHANGED releasedFor /\ UNCHANGED adapterRuns /\ UNCHANGED cleaner
  BY DEF Open, Executes
<1>2. s \in SandboxRow /\ RowShape(s) /\ s.op = "open"
  BY DEF SandboxIdle, SandboxRow, RowShape
<1>3. opener \in SandboxCalls \cup {NoSandbox} /\ opener # c
  BY <1>1, SandboxAssumption DEF SandboxInv, SandboxTypeOK, JoinersOwned
<1>4. \A at \in {"joining", "verifying"} : r(at) \in SandboxRow /\ RowShape(r(at)) /\ r(at).op = "open" /\ r(at).at = at
  BY <1>2 DEF SandboxRow, RowShape
<1>5. ASSUME sandboxCall' = [sandboxCall EXCEPT ![c] = SandboxFailed], UNCHANGED opener
      PROVE  SandboxInv'
  BY <1>1, <1>3, <1>5, FailedRow, OneCallMoves
<1>6. CASE OpenReplay(c, p)
  <2>1. CASE p = allocation /\ releasedFor = NoSandbox
    <3>1. sandboxCall' = [sandboxCall EXCEPT ![c] = Replayed(s, p)] /\ UNCHANGED opener
      BY <1>6, <2>1 DEF OpenReplay
    <3> HIDE DEF s
    <3>2. CASE Replayed(s, p) = SandboxFailed
      BY <1>5, <3>1, <3>2
    <3>3. CASE Replayed(s, p) # SandboxFailed
      <4>1. Replayed(s, p) \in SandboxRow /\ RowShape(Replayed(s, p)) /\ Replayed(s, p).op = "open" /\ Replayed(s, p).at = "returned"
        BY <1>2, <3>3, ReplayedRow
      <4> QED BY <1>1, <1>3, <3>1, <4>1, OneCallMoves
    <3> QED BY <3>2, <3>3
  <2>2. CASE ~(p = allocation /\ releasedFor = NoSandbox)
    BY <1>5, <1>6, <2>2 DEF OpenReplay
  <2> QED BY <2>1, <2>2
<1>7. CASE OpenJoin(c, p)
  <2>1. CASE p = sandboxCall[opener].arg
    <3>1. sandboxCall' = [sandboxCall EXCEPT ![c] = r("joining")] /\ UNCHANGED opener /\ opener # NoSandbox
      BY <1>7, <2>1 DEF OpenJoin
    <3> HIDE DEF r
    <3> QED BY <1>1, <1>3, <1>4, <3>1, OneCallMoves
  <2>2. CASE p # sandboxCall[opener].arg
    BY <1>5, <1>7, <2>2 DEF OpenJoin
  <2> QED BY <2>1, <2>2
<1>8. CASE OpenOwn(c, p)
  <2>1. r("verifying") = [SandboxIdle EXCEPT !.op = "open", !.arg = p, !.at = "verifying"]
    BY DEF SandboxIdle
  <2>2. sandboxCall' = [sandboxCall EXCEPT ![c] = r("verifying")] /\ opener' = c /\ opener = NoSandbox
    BY <1>8, <2>1 DEF OpenOwn
  <2> HIDE DEF r
  <2> QED BY <1>1, <1>3, <1>4, <2>2, OneCallMoves
<1> QED BY <1>5, <1>6, <1>7, <1>8 DEF Open

LEMMA OpeningFailsKeeps ==
  ASSUME SandboxInv, OpeningFails, UNCHANGED executions, UNCHANGED executors, UNCHANGED releasedFor, UNCHANGED adapterRuns, UNCHANGED cleaner
  PROVE  SandboxInv'
<1> DEFINE opens(c) == sandboxCall[c].op = "open" /\ sandboxCall[c].at \in {"verifying", "allocating", "joining"}
<1>1. \A c \in SandboxCalls : sandboxCall'[c] = IF opens(c) THEN SandboxFailed ELSE sandboxCall[c]
  BY DEF OpeningFails
<1>2. sandboxCall' \in [SandboxCalls -> SandboxRow] /\ opener' = NoSandbox
  BY FailedRow DEF OpeningFails, SandboxInv, SandboxTypeOK
<1>3. \A c \in SandboxCalls : opens(c) => ~Executes(sandboxCall[c]) /\ ~Executes(SandboxFailed)
                                          /\ Returns(SandboxFailed, executions[SandboxFailed.key])
  BY FailedRow DEF Executes, Returns
<1>4. cleaner' \in [reason : KnownReasons, by : SandboxCalls] \cup {NoSandbox}
  BY DEF SandboxInv, SandboxTypeOK
<1>5. \A c \in SandboxCalls : sandboxCall'[c].at = "cleaning" => cleaner' # NoSandbox
  BY <1>1, FailedRow DEF SandboxInv, CleaningOwned
<1>6. \A c \in SandboxCalls : ~(sandboxCall'[c].op = "open" /\ sandboxCall'[c].at = "joining")
  BY <1>1, FailedRow
<1> HIDE DEF opens
<1> QED BY <1>1, <1>2, <1>3, <1>4, <1>5, <1>6, FailedRow, CallsMove

LEMMA AttestedKeeps ==
  ASSUME SandboxInv, NEW c \in SandboxCalls, NEW a, Attested(c, a)
  PROVE  SandboxInv'
<1> DEFINE s == sandboxCall[c]
           r == [s EXCEPT !.at = "allocating"]
<1>1. /\ UNCHANGED executions /\ UNCHANGED executors /\ UNCHANGED releasedFor /\ UNCHANGED adapterRuns /\ UNCHANGED cleaner
      /\ s.at = "verifying" /\ opener = c
  BY DEF Attested
<1>2. CASE OpeningFails
  BY <1>1, <1>2, OpeningFailsKeeps
<1>3. CASE sandboxCall' = [sandboxCall EXCEPT ![c].at = "allocating"] /\ UNCHANGED opener
  <2>1. s \in SandboxRow /\ RowShape(s) /\ s.op = "open"
    BY <1>1 DEF SandboxInv, SandboxTypeOK, RowShape
  <2>2. r \in SandboxRow /\ RowShape(r) /\ r.op = "open" /\ r.at = "allocating"
    BY <2>1 DEF SandboxRow, RowShape
  <2>3. sandboxCall' = [sandboxCall EXCEPT ![c] = r]
    BY <1>3 DEF SandboxInv, SandboxTypeOK
  <2>4. ~Executes(s)
    BY <2>1 DEF Executes
  <2> HIDE DEF r
  <2> QED BY <1>1, <1>3, <2>2, <2>3, <2>4, OneCallMoves
<1> QED BY <1>2, <1>3 DEF Attested

LEMMA AllocatedKeeps ==
  ASSUME SandboxInv, NEW c \in SandboxCalls, NEW a, Allocated(c, a)
  PROVE  SandboxInv'
<1>1. /\ UNCHANGED executions /\ UNCHANGED executors /\ UNCHANGED releasedFor /\ UNCHANGED adapterRuns /\ UNCHANGED cleaner
      /\ sandboxCall[c].at = "allocating" /\ opener = c
  BY DEF Allocated
<1>2. CASE OpeningFails
  BY <1>1, <1>2, OpeningFailsKeeps
<1>3. CASE ~OpeningFails
  <2> DEFINE p == sandboxCall[c].arg
             joins(d) == sandboxCall[d].op = "open" /\ sandboxCall[d].at = "joining"
             r == [sandboxCall[c] EXCEPT !.at = "returned", !.then = p]
  <2>1. /\ sandboxCall' = [d \in SandboxCalls |-> IF d = c THEN r ELSE IF joins(d) THEN Replayed(sandboxCall[d], p) ELSE sandboxCall[d]]
        /\ opener' = NoSandbox
    BY <1>3 DEF Allocated
  <2>2. sandboxCall[c] \in SandboxRow /\ sandboxCall[c].op = "open" /\ p \in Policies
    BY <1>1 DEF SandboxInv, SandboxTypeOK, RowShape
  <2>3. r \in SandboxRow /\ RowShape(r) /\ r.op = "open" /\ r.at = "returned"
    BY <2>2 DEF SandboxRow, RowShape
  <2>4. \A d \in SandboxCalls : sandboxCall[d] \in SandboxRow /\ RowShape(sandboxCall[d])
    BY DEF SandboxInv, SandboxTypeOK
  <2>5. \A d \in SandboxCalls : joins(d) =>
          /\ Replayed(sandboxCall[d], p) \in SandboxRow /\ RowShape(Replayed(sandboxCall[d], p))
          /\ Replayed(sandboxCall[d], p).op \in {"open", "none"} /\ Replayed(sandboxCall[d], p).at \in {"returned", "failed"}
    BY <2>2, <2>4, ReplayedRow, FailedRow
  <2>6. /\ sandboxCall' \in [SandboxCalls -> SandboxRow]
        /\ \A d \in SandboxCalls :
             \/ sandboxCall'[d] = sandboxCall[d] /\ d # c /\ ~joins(d)
             \/ /\ RowShape(sandboxCall'[d]) /\ sandboxCall'[d].op \in {"open", "none"} /\ sandboxCall'[d].at \in {"returned", "failed"}
                /\ sandboxCall[d].op = "open"
    <3> HIDE DEF r
    <3> QED BY <2>1, <2>2, <2>3, <2>4, <2>5
  <2>7. \A d \in SandboxCalls :
          \/ sandboxCall'[d] = sandboxCall[d]
          \/ /\ RowShape(sandboxCall'[d]) /\ ~Executes(sandboxCall'[d]) /\ ~Executes(sandboxCall[d])
             /\ sandboxCall'[d].op # "execute" /\ Returns(sandboxCall'[d], executions[sandboxCall'[d].key])
    BY <2>6 DEF Executes, Returns
  <2>8. \A d \in SandboxCalls : ~(sandboxCall'[d].op = "open" /\ sandboxCall'[d].at = "joining")
    BY <2>6
  <2>9. cleaner' \in [reason : KnownReasons, by : SandboxCalls] \cup {NoSandbox}
    BY <1>1 DEF SandboxInv, SandboxTypeOK
  <2>10. \A d \in SandboxCalls : sandboxCall'[d].at = "cleaning" => cleaner' # NoSandbox
    BY <1>1, <2>6 DEF SandboxInv, CleaningOwned
  <2> QED BY <1>1, <2>1, <2>6, <2>7, <2>8, <2>9, <2>10, CallsMove
<1> QED BY <1>2, <1>3

\* An execution starts: its key has neither a result nor an owner, and gets this one.
LEMMA ExecutionStarts ==
  ASSUME SandboxInv, NEW c \in SandboxCalls, NEW k \in ExecutionKeys, ~Executes(sandboxCall[c]), opener # c,
         NEW q \in SandboxRow, q.op = "execute", q.key = k, q.at = "secrets", RowShape(q),
         executions[k] = NoSandbox, executors[k] = NoSandbox,
         sandboxCall' = [sandboxCall EXCEPT ![c] = q], executors' = [executors EXCEPT ![k] = c],
         UNCHANGED executions, UNCHANGED adapterRuns, UNCHANGED cleaner, UNCHANGED releasedFor, UNCHANGED opener
  PROVE  SandboxInv'
<1>1. /\ sandboxCall'[c] = q /\ \A d \in SandboxCalls \ {c} : sandboxCall'[d] = sandboxCall[d]
      /\ sandboxCall' \in [SandboxCalls -> SandboxRow]
  BY DEF SandboxInv, SandboxTypeOK
<1>2. /\ executors'[k] = c /\ \A j \in ExecutionKeys \ {k} : executors'[j] = executors[j]
      /\ executors' \in [ExecutionKeys -> SandboxCalls \cup {NoSandbox}]
  BY DEF SandboxInv, SandboxTypeOK
<1>3. SandboxTypeOK' /\ \A d \in SandboxCalls : RowShape(sandboxCall'[d])
  BY <1>1, <1>2 DEF SandboxInv, SandboxTypeOK
<1>4. Executes(q) /\ q.at # "returned" /\ q.at # "cleaning" /\ q.at # "joining"
  BY DEF Executes
<1>5. \A j \in ExecutionKeys : executors[j] # c
  BY SandboxAssumption DEF SandboxInv, ExecutorsExact
<1>6. ExecutorsExact'
  <2>1. ASSUME NEW j \in ExecutionKeys, executors'[j] # NoSandbox
        PROVE  Executes(sandboxCall'[executors'[j]]) /\ sandboxCall'[executors'[j]].key = j /\ executions'[j] = NoSandbox
    <3>1. CASE j = k
      BY <1>1, <1>2, <1>4, <3>1
    <3>2. CASE j # k
      <4>1. executors'[j] = executors[j] /\ executors[j] \in SandboxCalls \ {c}
        BY <1>2, <1>5, <2>1, <3>2 DEF SandboxInv, SandboxTypeOK
      <4> QED BY <1>1, <2>1, <4>1 DEF SandboxInv, ExecutorsExact
    <3> QED BY <3>1, <3>2
  <2>2. ASSUME NEW d \in SandboxCalls, Executes(sandboxCall'[d])
        PROVE  executors'[sandboxCall'[d].key] = d
    <3>1. CASE d = c
      BY <1>1, <1>2, <3>1
    <3>2. CASE d # c
      <4>1. sandboxCall'[d] = sandboxCall[d] /\ executors[sandboxCall[d].key] = d /\ sandboxCall[d].key \in ExecutionKeys
        BY <1>1, <2>2, <3>2 DEF SandboxInv, ExecutorsExact, Executes, RowShape
      <4>2. sandboxCall[d].key # k
        BY <4>1, SandboxAssumption
      <4> QED BY <1>2, <4>1, <4>2
    <3> QED BY <3>1, <3>2
  <2> QED BY <2>1, <2>2 DEF ExecutorsExact
<1>7. JoinersOwned'
  <2>1. ASSUME NEW d \in SandboxCalls, sandboxCall'[d].op = "execute", sandboxCall'[d].at = "joining"
        PROVE  executors'[sandboxCall'[d].key] # NoSandbox /\ sandboxCall'[executors'[sandboxCall'[d].key]].arg = sandboxCall'[d].arg
    <3> DEFINE j == sandboxCall[d].key
    <3>1. d # c /\ sandboxCall'[d] = sandboxCall[d]
      BY <1>1, <1>4, <2>1
    <3>2. j \in ExecutionKeys /\ executors[j] # NoSandbox /\ sandboxCall[executors[j]].arg = sandboxCall[d].arg
      BY <2>1, <3>1 DEF SandboxInv, JoinersOwned, RowShape
    <3>3. j # k /\ executors'[j] = executors[j] /\ executors[j] \in SandboxCalls \ {c}
      BY <1>2, <1>5, <3>2 DEF SandboxInv, SandboxTypeOK
    <3> QED BY <1>1, <3>1, <3>2, <3>3
  <2>2. \A d \in SandboxCalls : sandboxCall'[d].op = "open" /\ sandboxCall'[d].at = "joining" => opener' # NoSandbox
    BY <1>1, <1>4 DEF SandboxInv, JoinersOwned
  <2>3. opener' # NoSandbox => sandboxCall'[opener'].at \in {"verifying", "allocating"}
    BY <1>1 DEF SandboxInv, SandboxTypeOK, JoinersOwned
  <2> QED BY <2>1, <2>2, <2>3 DEF JoinersOwned
<1>8. ResultsRecorded' /\ CleaningOwned' /\ BadEndReleases'
  BY <1>1, <1>4 DEF SandboxInv, ResultsRecorded, Returns, CleaningOwned, BadEndReleases
<1> QED BY <1>3, <1>6, <1>7, <1>8 DEF SandboxInv

LEMMA ExecuteKeeps ==
  ASSUME SandboxInv, NEW c \in SandboxCalls, NEW k \in ExecutionKeys, NEW command \in Commands, NEW latest,
         Execute(c, k, command, latest)
  PROVE  SandboxInv'
<1> DEFINE s == [SandboxIdle EXCEPT !.op = "execute", !.key = k, !.arg = command]
           r(at) == [s EXCEPT !.at = at]
<1>1. /\ sandboxCall[c].at = "idle" /\ ~Executes(sandboxCall[c])
      /\ UNCHANGED opener /\ UNCHANGED executions /\ UNCHANGED releasedFor /\ UNCHANGED adapterRuns /\ UNCHANGED cleaner
  BY DEF Execute, Executes
<1>2. s \in SandboxRow /\ RowShape(s) /\ s.op = "execute" /\ s.key = k /\ s.arg = command
  BY DEF SandboxIdle, SandboxRow, RowShape
<1>3. opener \in SandboxCalls \cup {NoSandbox} /\ opener # c
  BY <1>1, SandboxAssumption DEF SandboxInv, SandboxTypeOK, JoinersOwned
<1>4. \A at \in {"joining", "secrets"} :
        r(at) \in SandboxRow /\ RowShape(r(at)) /\ r(at).op = "execute" /\ r(at).at = at /\ r(at).key = k /\ r(at).arg = command
  BY <1>2 DEF SandboxRow, RowShape
<1>5. ASSUME sandboxCall' = [sandboxCall EXCEPT ![c] = SandboxFailed], UNCHANGED executors
      PROVE  SandboxInv'
  BY <1>1, <1>3, <1>5, FailedRow, OneCallMoves
<1>6. CASE ExecuteReplay(c, s)
  <2>1. CASE executions[k].command = command
    <3> DEFINE result == executions[k].outcome
    <3>1. sandboxCall' = [sandboxCall EXCEPT ![c] = Replayed(s, result)] /\ UNCHANGED executors /\ executions[k] # NoSandbox
      BY <1>2, <1>6, <2>1 DEF ExecuteReplay
    <3>2. result \in ExecuteAnswers
      BY <3>1 DEF SandboxInv, SandboxTypeOK, ExecutionRow
    <3> HIDE DEF s
    <3>3. CASE Replayed(s, result) = SandboxFailed
      BY <1>5, <3>1, <3>3
    <3>4. CASE Replayed(s, result) # SandboxFailed
      <4> DEFINE q == Replayed(s, result)
      <4>1. q \in SandboxRow /\ RowShape(q) /\ q.op = "execute" /\ q.key = k /\ q.arg = command /\ q.at = "returned" /\ q.then = result
        BY <1>2, <3>2, <3>4, ReplayedRow
      <4>2. Returns(q, executions[q.key]) /\ ~Executes(q)
        BY <2>1, <3>1, <4>1 DEF Returns, Executes
      <4> HIDE DEF q, result
      <4> QED BY <1>1, <1>3, <3>1, <4>1, <4>2, OneCallMoves DEF q
    <3> QED BY <3>3, <3>4
  <2>2. CASE executions[k].command # command
    BY <1>2, <1>5, <1>6, <2>2 DEF ExecuteReplay
  <2> QED BY <2>1, <2>2
<1>7. CASE ExecuteJoin(c, s)
  <2>1. CASE sandboxCall[executors[k]].arg = command
    <3>1. sandboxCall' = [sandboxCall EXCEPT ![c] = r("joining")] /\ UNCHANGED executors /\ executors[k] # NoSandbox
      BY <1>2, <1>7, <2>1 DEF ExecuteJoin
    <3>2. ~Executes(r("joining")) /\ Returns(r("joining"), executions[k])
      BY <1>4 DEF Executes, Returns
    <3> HIDE DEF r
    <3> QED BY <1>1, <1>3, <1>4, <2>1, <3>1, <3>2, OneCallMoves
  <2>2. CASE sandboxCall[executors[k]].arg # command
    BY <1>2, <1>5, <1>7, <2>2 DEF ExecuteJoin
  <2> QED BY <2>1, <2>2
<1>8. CASE ExecuteOwn(c, s, latest)
  <2>1. CASE RequireSession(latest)
    <3>1. /\ sandboxCall' = [sandboxCall EXCEPT ![c] = r("secrets")] /\ executors' = [executors EXCEPT ![k] = c]
          /\ executions[k] = NoSandbox /\ executors[k] = NoSandbox
      BY <1>2, <1>8, <2>1 DEF ExecuteOwn
    <3> HIDE DEF r
    <3> QED BY <1>1, <1>3, <1>4, <3>1, ExecutionStarts
  <2>2. CASE ~RequireSession(latest)
    BY <1>5, <1>8, <2>2 DEF ExecuteOwn
  <2> QED BY <2>1, <2>2
<1> QED BY <1>5, <1>6, <1>7, <1>8 DEF Execute

\* Nobody is asked to clean: an execution of the call's key ends with what was answered.
LEMMA ExecutionSettles ==
  ASSUME SandboxInv, NEW c \in SandboxCalls, sandboxCall[c].at \in {"secrets", "running"},
         NEW result \in {"throw", "SUCCEEDED"},
         sandboxCall' = ExecutionsSettle(sandboxCall, [j \in {sandboxCall[c].key} |-> result]),
         RecordExecutions([j \in {sandboxCall[c].key} |-> result]),
         UNCHANGED opener, UNCHANGED adapterRuns, UNCHANGED cleaner, UNCHANGED releasedFor
  PROVE  SandboxInv'
<1> DEFINE k == sandboxCall[c].key
           e == [j \in {k} |-> result]
<1>1. k \in ExecutionKeys /\ executors[k] = c
  BY DEF SandboxInv, RowShape, ExecutorsExact, Executes
<1>2. DOMAIN e = {k} /\ e[k] = result
  OBVIOUS
<1>3. sandboxCall \in [SandboxCalls -> SandboxRow]
  BY DEF SandboxInv, SandboxTypeOK
<1>4. \A d \in SandboxCalls : sandboxCall'[d].at = "cleaning" => sandboxCall[d].at = "cleaning"
  BY <1>1, <1>3 DEF ExecutionsSettle, Replayed, SandboxFailed, SandboxIdle, SandboxRow
<1>5. /\ cleaner' \in [reason : KnownReasons, by : SandboxCalls] \cup {NoSandbox}
      /\ \A d \in SandboxCalls : sandboxCall'[d].at = "cleaning" => cleaner' # NoSandbox
  BY <1>4 DEF SandboxInv, SandboxTypeOK, CleaningOwned
<1>6. \A j \in DOMAIN e : j \in ExecutionKeys /\ executors[j] # NoSandbox /\ e[j] \in ExecuteAnswers \cup {"throw"} /\ e[j] \in {"throw", "SUCCEEDED"}
  BY <1>1, <1>2, SandboxAssumption DEF ExecuteAnswers
<1>7. sandboxCall' = ExecutionsSettle(sandboxCall, e) /\ RecordExecutions(e)
  OBVIOUS
<1> HIDE DEF e
<1> QED BY <1>3, <1>5, <1>6, <1>7, ExecutionsEnd

LEMMA SecretsKeep ==
  ASSUME SandboxInv, NEW c \in SandboxCalls, NEW granted \in BOOLEAN, SecretsResolved(c, granted)
  PROVE  SandboxInv'
<1> DEFINE s == sandboxCall[c]
           r == [s EXCEPT !.at = "running"]
<1>1. s.at = "secrets" /\ UNCHANGED opener /\ UNCHANGED releasedFor /\ UNCHANGED cleaner
  BY DEF SecretsResolved
<1>2. s \in SandboxRow /\ RowShape(s) /\ s.op = "execute" /\ s.key \in ExecutionKeys /\ executors[s.key] = c /\ Executes(s)
  BY <1>1 DEF SandboxInv, SandboxTypeOK, RowShape, ExecutorsExact, Executes
<1>3. CASE granted
  <2>1. /\ UNCHANGED executions /\ UNCHANGED executors /\ adapterRuns' = [adapterRuns EXCEPT ![s.key] = @ + 1]
        /\ sandboxCall' = [sandboxCall EXCEPT ![c].at = "running"]
    BY <1>3 DEF SecretsResolved
  <2>2. r \in SandboxRow /\ RowShape(r) /\ Executes(r) /\ r.key = s.key /\ r.arg = s.arg /\ r.at = "running" /\ r.op = "execute"
    BY <1>2 DEF SandboxRow, RowShape, Executes
  <2>3. sandboxCall' = [sandboxCall EXCEPT ![c] = r]
    BY <2>1 DEF SandboxInv, SandboxTypeOK
  <2>4. opener # c /\ opener \in SandboxCalls \cup {NoSandbox} /\ executors[s.key] # NoSandbox
    BY <1>1, <1>2, SandboxAssumption DEF SandboxInv, SandboxTypeOK, JoinersOwned
  <2> HIDE DEF r
  <2> QED BY <1>1, <1>2, <2>1, <2>2, <2>3, <2>4, OneCallMoves
<1>4. CASE ~granted
  BY <1>1, <1>4, ExecutionSettles DEF SecretsResolved
<1> QED BY <1>3, <1>4

LEMMA AdapterKeeps ==
  ASSUME SandboxInv, NEW c \in SandboxCalls, NEW answer \in ExecuteAnswers, AdapterAnswers(c, answer)
  PROVE  SandboxInv'
<1> DEFINE cleans(reason, then) == CleanupStarts([sandboxCall EXCEPT ![c].then = then], c, reason, FALSE)
           settles(result) == /\ sandboxCall' = ExecutionsSettle(sandboxCall, [j \in {sandboxCall[c].key} |-> result])
                              /\ RecordExecutions([j \in {sandboxCall[c].key} |-> result])
                              /\ UNCHANGED cleaner
<1>1. sandboxCall[c].at = "running" /\ UNCHANGED opener /\ UNCHANGED releasedFor /\ UNCHANGED adapterRuns
  BY DEF AdapterAnswers
<1>2. \/ cleans("cancelled", "throw") \/ cleans("failed", "throw") \/ cleans("quota_exceeded", "throw")
      \/ settles("throw")
      \/ ExecutionCleanupReason(answer) = NoSandbox /\ settles(answer)
      \/ ExecutionCleanupReason(answer) # NoSandbox /\ cleans(ExecutionCleanupReason(answer), answer)
  <2> HIDE DEF cleans, settles
  <2> QED BY DEF AdapterAnswers, cleans, settles
<1>3. /\ ExecutionCleanupReason(answer) = NoSandbox => answer = "SUCCEEDED"
      /\ ExecutionCleanupReason(answer) # NoSandbox => ExecutionCleanupReason(answer) \in KnownReasons
  BY SandboxAssumption DEF ExecutionCleanupReason, KnownReasons
<1>4. ASSUME NEW reason \in KnownReasons, NEW then \in ExecuteAnswers \cup {"throw"}, cleans(reason, then)
      PROVE  SandboxInv'
  BY <1>1, <1>4, ExecutionCleans
<1>5. ASSUME NEW result \in {"throw", "SUCCEEDED"}, settles(result)
      PROVE  SandboxInv'
  BY <1>1, <1>5, ExecutionSettles
<1> HIDE DEF cleans, settles
<1> QED BY <1>2, <1>3, <1>4, <1>5 DEF KnownReasons

LEMMA CancelKeeps ==
  ASSUME SandboxInv, NEW c \in SandboxCalls, CancelSandboxCall(c)
  PROVE  SandboxInv'
<1> DEFINE s == sandboxCall[c]
           r == [s EXCEPT !.cancelled = TRUE]
<1>1. /\ UNCHANGED opener /\ UNCHANGED executions /\ UNCHANGED executors /\ UNCHANGED releasedFor /\ UNCHANGED adapterRuns /\ UNCHANGED cleaner
      /\ s.at \notin {"idle", "returned", "failed"} /\ s \in SandboxRow /\ RowShape(s)
  BY DEF CancelSandboxCall, SandboxInv, SandboxTypeOK
<1>2. /\ r \in SandboxRow /\ RowShape(r) /\ r.op = s.op /\ r.key = s.key /\ r.arg = s.arg /\ r.at = s.at
      /\ Executes(r) <=> Executes(s)
  BY <1>1 DEF SandboxRow, RowShape, Executes
<1>3. sandboxCall' = [sandboxCall EXCEPT ![c] = r]
  BY DEF CancelSandboxCall, SandboxInv, SandboxTypeOK
<1>4. opener \in SandboxCalls \cup {NoSandbox} /\ (opener = c => s.at \in {"verifying", "allocating"})
  BY SandboxAssumption DEF SandboxInv, SandboxTypeOK, JoinersOwned
<1>5. /\ s.op = "execute" /\ s.at = "joining" => executors[s.key] # NoSandbox /\ sandboxCall[executors[s.key]].arg = s.arg
      /\ s.op = "open" /\ s.at = "joining" => opener # NoSandbox
  BY DEF SandboxInv, JoinersOwned
<1>6. Returns(r, executions[r.key])
  BY <1>1, <1>2 DEF Returns
<1> HIDE DEF r
<1> QED BY <1>1, <1>2, <1>3, <1>4, <1>5, <1>6, OneCallMoves DEF Executes

\* adapter.cleanup settles: every waiting call resumes, and an execution that ended badly
\* is recorded only if the session is now released.
LEMMA CleanedKeeps ==
  ASSUME SandboxInv, NEW ok \in BOOLEAN, Cleaned(ok)
  PROVE  SandboxInv'
<1> DEFINE waiting == {c \in SandboxCalls : sandboxCall[c].at = "cleaning"}
           fine(c) == ok /\ Audited /\ (sandboxCall[c].op = "cleanup" /\ c # cleaner.by => ~sandboxCall[c].cancelled)
           keys == {sandboxCall[c].key : c \in {d \in waiting : sandboxCall[d].op = "execute"}}
           ended == [k \in keys |-> IF fine(executors[k]) THEN sandboxCall[executors[k]].then ELSE "throw"]
           calls == [c \in SandboxCalls |->
                       IF c \in waiting /\ sandboxCall[c].op = "cleanup"
                       THEN IF fine(c) THEN [sandboxCall[c] EXCEPT !.at = "returned"] ELSE SandboxFailed
                       ELSE sandboxCall[c]]
<1>1. sandboxCall' = ExecutionsSettle(calls, ended) /\ RecordExecutions(ended)
  BY DEF Cleaned
<1>2. /\ cleaner' = NoSandbox /\ UNCHANGED opener /\ UNCHANGED adapterRuns
      /\ releasedFor' = IF ok THEN cleaner.reason ELSE releasedFor
      /\ cleaner \in [reason : KnownReasons, by : SandboxCalls] /\ cleaner.reason # NoSandbox
  BY SandboxAssumption DEF Cleaned, SandboxInv, SandboxTypeOK
<1>3. \A c \in SandboxCalls : sandboxCall[c] \in SandboxRow /\ RowShape(sandboxCall[c])
  BY DEF SandboxInv, SandboxTypeOK
<1>4. DOMAIN ended = keys
  OBVIOUS
<1>5. \A k \in keys : /\ k \in ExecutionKeys /\ executors[k] # NoSandbox
                      /\ ended[k] = "throw" \/ (ended[k] \in ExecuteAnswers \cup {"throw"} /\ ok)
  <2> SUFFICES ASSUME NEW c \in SandboxCalls, sandboxCall[c].at = "cleaning", sandboxCall[c].op = "execute"
               PROVE  LET k == sandboxCall[c].key IN
                      /\ k \in ExecutionKeys /\ executors[k] # NoSandbox
                      /\ ended[k] = "throw" \/ (ended[k] \in ExecuteAnswers \cup {"throw"} /\ ok)
    OBVIOUS
  <2>1. sandboxCall[c].key \in ExecutionKeys /\ executors[sandboxCall[c].key] = c /\ sandboxCall[c].then \in ExecuteAnswers \cup {"throw"}
    BY <1>3 DEF SandboxInv, RowShape, ExecutorsExact, Executes
  <2>2. sandboxCall[c].key \in keys
    OBVIOUS
  <2>3. ended[sandboxCall[c].key] = IF fine(c) THEN sandboxCall[c].then ELSE "throw"
    BY <2>1, <2>2
  <2> QED BY <2>1, <2>3, SandboxAssumption
<1>6. \A c \in SandboxCalls :
        \/ calls[c] = sandboxCall[c] /\ ~(sandboxCall[c].at = "cleaning" /\ sandboxCall[c].op = "cleanup")
        \/ /\ sandboxCall[c].op = "cleanup" /\ calls[c] \in SandboxRow
           /\ calls[c].op \in {"none", "cleanup"} /\ calls[c].at \in {"returned", "failed"}
  BY <1>3, FailedRow DEF SandboxRow
<1>7. calls \in [SandboxCalls -> SandboxRow]
  BY <1>3, <1>6
<1>8. \A c \in SandboxCalls : sandboxCall'[c].at # "cleaning"
  <2> SUFFICES ASSUME NEW c \in SandboxCalls PROVE sandboxCall'[c].at # "cleaning"
    OBVIOUS
  <2>1. CASE calls[c] = sandboxCall[c] /\ sandboxCall[c].at = "cleaning" /\ sandboxCall[c].op = "execute"
    <3>1. sandboxCall[c].key \in keys /\ executors[sandboxCall[c].key] = c
      BY <2>1 DEF SandboxInv, ExecutorsExact, Executes
    <3>2. \/ sandboxCall'[c] = SandboxFailed
          \/ sandboxCall'[c] = [sandboxCall[c] EXCEPT !.at = "returned", !.then = ended[sandboxCall[c].key]]
      <4> HIDE DEF calls, keys, ended
      <4> QED BY <1>1, <1>4, <2>1, <3>1 DEF ExecutionsSettle
    <3> QED BY <1>3, <3>2, FailedRow DEF SandboxRow
  <2>2. CASE calls[c].at # "cleaning"
    <3> HIDE DEF calls, keys, ended
    <3>1. calls[c] \in SandboxRow
      BY <1>7
    <3>2. \/ sandboxCall'[c] = SandboxFailed \/ sandboxCall'[c] = calls[c]
          \/ \E v : sandboxCall'[c] = [calls[c] EXCEPT !.at = "returned", !.then = v]
      BY <1>1 DEF ExecutionsSettle, Replayed
    <3> QED BY <2>2, <3>1, <3>2, FailedRow DEF SandboxRow
  <2> QED BY <1>3, <1>6, <2>1, <2>2 DEF RowShape
<1> HIDE DEF calls, keys, ended
<1>9. /\ \A c \in SandboxCalls :
           \/ sandboxCall[c].op = "execute" /\ calls[c] = sandboxCall[c]
           \/ sandboxCall[c].op # "execute" /\ calls[c] = sandboxCall[c]
           \/ sandboxCall[c].op = "cleanup" /\ calls[c].op \in {"none", "cleanup"} /\ calls[c].at \in {"returned", "failed"}
      /\ \A k \in DOMAIN ended : k \in ExecutionKeys /\ executors[k] # NoSandbox /\ ended[k] \in ExecuteAnswers \cup {"throw"}
      /\ \A k \in DOMAIN ended : ended[k] \in {"throw", "SUCCEEDED"} \/ releasedFor' # NoSandbox
      /\ releasedFor # NoSandbox => releasedFor' # NoSandbox
  BY <1>2, <1>4, <1>5, <1>6
<1> QED BY <1>1, <1>2, <1>7, <1>8, <1>9, ExecutionsEnd

LEMMA SandboxStep == SandboxInv /\ SandboxNext => SandboxInv'
<1> SUFFICES ASSUME SandboxInv, SandboxNext PROVE SandboxInv'
  OBVIOUS
<1>1. ASSUME NEW c \in SandboxCalls, NEW p \in Policies, Open(c, p) PROVE SandboxInv'
  BY <1>1, OpenKeeps
<1>2. ASSUME NEW c \in SandboxCalls, NEW k \in ExecutionKeys, NEW command \in Commands, NEW s \in Sessions, Execute(c, k, command, s)
      PROVE  SandboxInv'
  BY <1>2, ExecuteKeeps
<1>3. ASSUME NEW c \in SandboxCalls, NEW r \in CleanupReasons, NEW s \in Sessions, Cleanup(c, r, s) PROVE SandboxInv'
  BY <1>3, CleanupKeeps
<1>4. ASSUME NEW c \in SandboxCalls, SandboxAnswers(c) PROVE SandboxInv'
  BY <1>4, AttestedKeeps, AllocatedKeeps, SecretsKeep, AdapterKeeps DEF SandboxAnswers
<1>5. ASSUME NEW c \in SandboxCalls, CancelSandboxCall(c) PROVE SandboxInv'
  BY <1>5, CancelKeeps
<1>6. ASSUME NEW ok \in BOOLEAN, Cleaned(ok) PROVE SandboxInv'
  BY <1>6, CleanedKeeps
<1>7. ASSUME AuditFills PROVE SandboxInv'
  BY <1>7 DEF AuditFills, SandboxInv, SandboxTypeOK, ExecutorsExact, JoinersOwned, ResultsRecorded, CleaningOwned, BadEndReleases
<1> QED BY <1>1, <1>2, <1>3, <1>4, <1>5, <1>6, <1>7 DEF SandboxNext

LEMMA SandboxStarts == SandboxInit => SandboxInv
<1> SUFFICES ASSUME SandboxInit PROVE SandboxInv
  OBVIOUS
<1>1. SandboxIdle \in SandboxRow /\ RowShape(SandboxIdle) /\ SandboxIdle.op = "none" /\ SandboxIdle.at = "idle"
  BY DEF SandboxIdle, SandboxRow, RowShape
<1>2. \A c \in SandboxCalls : sandboxCall[c] = SandboxIdle
  BY DEF SandboxInit
<1>3. SandboxTypeOK
  BY <1>1 DEF SandboxInit, SandboxTypeOK
<1>4. ExecutorsExact /\ JoinersOwned /\ ResultsRecorded /\ CleaningOwned /\ BadEndReleases
  BY <1>1, <1>2 DEF SandboxInit, ExecutorsExact, JoinersOwned, ResultsRecorded, CleaningOwned, BadEndReleases, Executes, Returns
<1> QED BY <1>1, <1>2, <1>3, <1>4 DEF SandboxInv

LEMMA SandboxStays == SandboxInv /\ UNCHANGED sandboxVars => SandboxInv'
  BY DEF sandboxVars, SandboxInv, SandboxTypeOK, ExecutorsExact, JoinersOwned, ResultsRecorded, CleaningOwned, BadEndReleases

LEMMA SandboxInvSound == SandboxInv => SandboxSound
<1> SUFFICES ASSUME SandboxInv PROVE SandboxSound
  OBVIOUS
<1>1. InflightNamesOwners
  <2>1. \A c \in SandboxCalls : sandboxCall[c].at = "joining" /\ sandboxCall[c].op # "open" => sandboxCall[c].op = "execute"
    BY DEF SandboxInv, RowShape
  <2> QED BY <2>1 DEF SandboxInv, InflightNamesOwners, ExecutorsExact, JoinersOwned, CleaningOwned, Executes
<1>2. OneResultPerKey
  BY DEF SandboxInv, OneResultPerKey, ExecutorsExact, ResultsRecorded, Returns
<1> QED BY <1>1, <1>2 DEF SandboxInv, SandboxSound

\* The run's specification of one user's account takes the steps of both parts: sandbox sessions
\* end and answer as they must (production.ts 380-720), and slots of the local runner are neither
\* lost nor handed out twice (process.ts 77-92).
THEOREM ExecutionHolds == AccountSpec => []ExecutionSound
<1>1. AccountInit => SandboxInv /\ ProcessInv
  BY SandboxStarts, ProcessStarts DEF AccountInit
<1>2. SandboxInv /\ ProcessInv /\ [AccountNext]_accountVars => (SandboxInv /\ ProcessInv)'
  <2> SUFFICES ASSUME SandboxInv, ProcessInv, [AccountNext]_accountVars PROVE (SandboxInv /\ ProcessInv)'
    OBVIOUS
  <2>1. /\ SandboxNext \/ UNCHANGED sandboxVars
        /\ ProcessNext \/ UNCHANGED processVars
    BY DEF AccountNext, accountVars, executionVars
  <2>2. SandboxInv'
    BY <2>1, SandboxStep, SandboxStays
  <2>3. ProcessInv'
    BY <2>1, ProcessStep, ProcessStays
  <2> QED BY <2>2, <2>3
<1>3. SandboxInv /\ ProcessInv => ExecutionSound
  BY SandboxInvSound, ProcessInvSound DEF ExecutionSound
<1> QED BY <1>1, <1>2, <1>3, PTL DEF AccountSpec

-----------------------------------------------------------------------------
(* Sums over rows, and the larger of two numbers                           *)

Pairs(units, S) == UNION {{q} \X (1 .. units[q]) : q \in S}

LEMMA IntervalFacts ==
  ASSUME NEW n \in Nat
  PROVE  IsFiniteSet(1 .. n) /\ Cardinality(1 .. n) = n
<1>1. IsFiniteSet(1 .. n) /\ Cardinality(1 .. n) = IF 1 > n THEN 0 ELSE n - 1 + 1
  BY FS_Interval
<1> QED BY <1>1

LEMMA PairsFinite ==
  ASSUME NEW S, IsFiniteSet(S), NEW units, \A q \in S : units[q] \in Nat
  PROVE  IsFiniteSet(Pairs(units, S))
<1> DEFINE f == [q \in S |-> {q} \X (1 .. units[q])]
           T == {{q} \X (1 .. units[q]) : q \in S}
<1>1. f \in Surjection(S, T)
  BY DEF Surjection
<1>2. IsFiniteSet(T)
  <2> HIDE DEF f, T
  <2> QED BY <1>1, FS_Surjection
<1>3. ASSUME NEW q \in S PROVE IsFiniteSet({q} \X (1 .. units[q]))
  <2>1. IsFiniteSet({q}) /\ IsFiniteSet(1 .. units[q])
    BY FS_Singleton, IntervalFacts
  <2> QED BY <2>1, FS_Product
<1>4. IsFiniteSet(UNION T)
  <2>1. \A R \in T : IsFiniteSet(R)
    BY <1>3
  <2> HIDE DEF T
  <2> QED BY <1>2, <2>1, FS_UNION
<1> QED BY <1>4 DEF Pairs

LEMMA TotalOfTwo ==
  ASSUME NEW S, NEW R, IsFiniteSet(S), IsFiniteSet(R), S \cap R = {},
         NEW units, \A q \in S \cup R : units[q] \in Nat
  PROVE  /\ Total(units, S) \in Nat /\ Total(units, R) \in Nat
         /\ Total(units, S \cup R) = Total(units, S) + Total(units, R)
<1>1. IsFiniteSet(Pairs(units, S)) /\ IsFiniteSet(Pairs(units, R))
  BY PairsFinite
<1>2. Pairs(units, S \cup R) = Pairs(units, S) \cup Pairs(units, R)
  BY DEF Pairs
<1>3. Pairs(units, S) \cap Pairs(units, R) = {}
  BY DEF Pairs
<1>4. Cardinality({}) = 0
  BY FS_EmptySet
<1>5. PICK A, B, C : A = Pairs(units, S) /\ B = Pairs(units, R) /\ C = Pairs(units, S \cup R)
  OBVIOUS
<1>6. Total(units, S) = Cardinality(A) /\ Total(units, R) = Cardinality(B) /\ Total(units, S \cup R) = Cardinality(C)
  BY <1>5 DEF Total, Pairs
<1>7. Cardinality(A) \in Nat /\ Cardinality(B) \in Nat
  BY <1>1, <1>5, FS_CardinalityType
<1>8. Cardinality(A \cup B) = Cardinality(A) + Cardinality(B) - Cardinality(A \cap B)
  BY <1>1, <1>5, FS_Union
<1>9. Cardinality(A \cap B) = 0 /\ C = A \cup B
  BY <1>2, <1>3, <1>4, <1>5
<1> QED BY <1>6, <1>7, <1>8, <1>9

LEMMA TotalOfOne ==
  ASSUME NEW q, NEW units, units[q] \in Nat
  PROVE  Total(units, {q}) = units[q]
<1>1. UNION {{p} \X (1 .. units[p]) : p \in {q}} = {q} \X (1 .. units[q])
  BY Zenon
<1>2. IsFiniteSet({q}) /\ Cardinality({q}) = 1
  BY FS_Singleton
<1>3. IsFiniteSet(1 .. units[q]) /\ Cardinality(1 .. units[q]) = units[q]
  BY IntervalFacts
<1>4. PICK A, B : A = {q} /\ B = 1 .. units[q]
  OBVIOUS
<1>5. Cardinality(A \X B) = Cardinality(A) * Cardinality(B)
  BY <1>2, <1>3, <1>4, FS_Product
<1>6. Cardinality(A) = 1 /\ Cardinality(B) = units[q]
  BY <1>2, <1>3, <1>4
<1>7. Total(units, {q}) = Cardinality(A \X B)
  BY <1>1, <1>4 DEF Total
<1> QED BY <1>5, <1>6, <1>7

LEMMA TotalOfSame ==
  ASSUME NEW S, NEW units, NEW others, \A q \in S : units[q] = others[q]
  PROVE  Total(units, S) = Total(others, S)
<1>1. {{q} \X (1 .. units[q]) : q \in S} = {{q} \X (1 .. others[q]) : q \in S}
  OBVIOUS
<1> QED BY <1>1 DEF Total

\* One row more, or some rows fewer.
LEMMA TotalAdds ==
  ASSUME NEW S, IsFiniteSet(S), NEW q, q \notin S, NEW units, \A p \in S \cup {q} : units[p] \in Nat
  PROVE  Total(units, S \cup {q}) = Total(units, S) + units[q] /\ Total(units, S) \in Nat
<1>1. PICK R : R = {q}
  OBVIOUS
<1>2. IsFiniteSet(R) /\ S \cap R = {} /\ \A p \in S \cup R : units[p] \in Nat
  BY <1>1, FS_Singleton
<1>3. Total(units, S \cup R) = Total(units, S) + Total(units, R) /\ Total(units, S) \in Nat
  BY <1>2, TotalOfTwo
<1>4. Total(units, R) = units[q]
  BY <1>1, TotalOfOne
<1> QED BY <1>1, <1>3, <1>4

LEMMA TotalDrops ==
  ASSUME NEW S, IsFiniteSet(S), NEW R, R \subseteq S, NEW units, \A q \in S : units[q] \in Nat
  PROVE  /\ Total(units, S \ R) = Total(units, S) - Total(units, R)
         /\ Total(units, S) \in Nat /\ Total(units, R) \in Nat /\ Total(units, S \ R) \in Nat
<1>1. IsFiniteSet(R) /\ IsFiniteSet(S \ R) /\ S = (S \ R) \cup R /\ (S \ R) \cap R = {}
  BY FS_Subset
<1>2. Total(units, S) = Total(units, S \ R) + Total(units, R) /\ Total(units, R) \in Nat /\ Total(units, S \ R) \in Nat
  BY <1>1, TotalOfTwo
<1> QED BY <1>2

LEMMA NonNegativeFacts ==
  ASSUME NEW n \in Int
  PROVE  NonNegative(n) \in Nat /\ NonNegative(n) >= n
<1>1. \E x \in {0, n} : \A y \in {0, n} : x >= y
  OBVIOUS
<1>2. NonNegative(n) \in {0, n} /\ \A y \in {0, n} : NonNegative(n) >= y
  BY <1>1 DEF NonNegative, Max
<1> QED BY <1>2

LEMMA UnitsAtLeastOne ==
  ASSUME NEW t \in Tokens
  PROVE  ComputeUnits(t) \in Nat /\ ComputeUnits(t) >= 1
<1>1. PICK k : k = ((t.inputTokens + 2 * t.outputTokens) * HalfWeight + 1999) \div 2000
  OBVIOUS
<1>2. t.inputTokens + 2 * t.outputTokens \in Nat /\ HalfWeight \in Nat
  BY QuotaAssumption DEF Tokens
<1>3. (t.inputTokens + 2 * t.outputTokens) * HalfWeight \in Nat
  BY <1>2
<1>4. k \in Int
  BY <1>1, <1>3
<1>5. \E x \in {1, k} : \A y \in {1, k} : x >= y
  BY <1>4
<1>6. ComputeUnits(t) \in {1, k} /\ \A y \in {1, k} : ComputeUnits(t) >= y
  BY <1>1, <1>5 DEF ComputeUnits, Max
<1> QED BY <1>4, <1>6

LEMMA QuotientsGrow ==
  ASSUME NEW a \in Nat, NEW b \in Nat, a <= b, NEW n \in Nat \ {0}
  PROVE  a \div n \in Nat /\ a \div n <= b \div n
<1>1. PICK x, y : x = a \div n /\ y = b \div n
  OBVIOUS
<1>2. x \in Nat /\ y \in Nat /\ x * n <= a /\ b < y * n + n
  BY <1>1
<1>3. ASSUME x > y PROVE FALSE
  <2>1. x - (y + 1) \in Nat
    BY <1>2, <1>3
  <2>2. PICK k \in Nat : k = x - (y + 1)
    BY <2>1
  <2>3. x * n = (y + 1 + k) * n
    BY <1>2, <2>2
  <2>4. (y + 1 + k) * n = y * n + n + k * n
    BY <1>2
  <2>5. k * n \in Nat /\ y * n \in Nat
    BY <1>2
  <2> QED BY <1>2, <2>3, <2>4, <2>5
<1> QED BY <1>1, <1>2, <1>3

LEMMA MonthIsKnown ==
  ASSUME time \in 0 .. MaxTime
  PROVE  MonthOf(time) \in Months
<1>1. DayOf(time) \in Nat /\ DayOf(MaxTime) \in Nat /\ DayOf(time) <= DayOf(MaxTime)
  BY QuotaAssumption, QuotientsGrow DEF DayOf
<1> QED BY <1>1, QuotaAssumption, QuotientsGrow DEF MonthOf, Months

-----------------------------------------------------------------------------
(* Shared-compute accounting (chat/quota.ts)                               *)

QuotaInv ==
  /\ ConsumedIsLedger /\ ReservedCovers
  /\ \A q \in Holding("settled") : ledger[q].units >= 1

HeldIn(m)    == {q \in Holding("reserved") : reservation[q].month = m}
SettledIn(m) == {q \in Holding("settled") : reservation[q].month = m}
Estimate     == [q \in Requests |-> reservation[q].estimate]
Units        == [q \in Requests |-> ledger[q].units]

LEMMA QuotaFacts ==
  ASSUME QuotaInv
  PROVE  /\ Estimate \in [Requests -> Nat] /\ Units \in [Requests -> Nat]
         /\ \A q \in Requests : Estimate[q] = reservation[q].estimate /\ Units[q] = ledger[q].units
         /\ \A S : Estimated(S) = Total(Estimate, S) /\ Charged(S) = Total(Units, S)
         /\ MonthOf(time) \in Months /\ time \in Nat
         /\ \A m \in Months : /\ period[m].consumed = Total(Units, SettledIn(m)) /\ period[m].consumed \in Nat
                              /\ period[m].reserved >= Total(Estimate, HeldIn(m)) /\ period[m].reserved \in Nat
<1>1. QuotaTypeOK
  BY DEF QuotaInv, ConsumedIsLedger
<1>2. reservation \in [Requests -> Reservation] /\ ledger \in [Requests -> LedgerRow] /\ period \in [Months -> Period]
  BY <1>1 DEF QuotaTypeOK
<1>3. Estimate \in [Requests -> Nat] /\ Units \in [Requests -> Nat]
      /\ \A q \in Requests : Estimate[q] = reservation[q].estimate /\ Units[q] = ledger[q].units
  BY <1>2 DEF Reservation, LedgerRow, Estimate, Units
<1>4. \A S : Estimated(S) = Total(Estimate, S) /\ Charged(S) = Total(Units, S)
  BY DEF Estimated, Charged, Estimate, Units
<1>5. MonthOf(time) \in Months /\ time \in Nat
  BY <1>1, MonthIsKnown, QuotaAssumption DEF QuotaTypeOK
<1>6. ASSUME NEW m \in Months
      PROVE  /\ period[m].consumed = Total(Units, SettledIn(m)) /\ period[m].consumed \in Nat
             /\ period[m].reserved >= Total(Estimate, HeldIn(m)) /\ period[m].reserved \in Nat
  <2>1. period[m].consumed \in Nat /\ period[m].reserved \in Nat
    BY <1>2 DEF Period
  <2>2. period[m].consumed = Charged(SettledIn(m)) /\ period[m].reserved >= Estimated(HeldIn(m))
    BY DEF QuotaInv, ConsumedIsLedger, ReservedCovers, SettledIn, HeldIn
  <2> QED BY <1>4, <2>1, <2>2
<1> QED BY <1>3, <1>4, <1>5, <1>6

LEMMA RequestsFinite ==
  ASSUME NEW S, S \subseteq Requests
  PROVE  IsFiniteSet(S)
BY QuotaAssumption, FS_Subset

\* expireReservations keeps what is held covered: it gives back no more than it expires.
LEMMA ExpiryFacts ==
  ASSUME QuotaInv
  PROVE  /\ Expired \in [Requests -> Reservation]
         /\ \A q \in Requests :
              /\ Expired[q].month = reservation[q].month /\ Expired[q].estimate = reservation[q].estimate
              /\ Expired[q].createdAt = reservation[q].createdAt
              /\ Expired[q].status = IF q \in Overdue THEN "expired" ELSE reservation[q].status
              /\ q \notin Overdue => Expired[q] = reservation[q]
         /\ AfterExpiry \in [Months -> Period]
         /\ \A m \in Months : /\ AfterExpiry[m].consumed = period[m].consumed
                              /\ AfterExpiry[m].reserved >= Total(Estimate, HeldIn(m) \ Overdue)
<1>1. reservation \in [Requests -> Reservation] /\ period \in [Months -> Period]
  BY DEF QuotaInv, ConsumedIsLedger, QuotaTypeOK
<1>2. \A q \in Requests : Expired[q] = IF q \in Overdue THEN [reservation[q] EXCEPT !.status = "expired"] ELSE reservation[q]
  BY DEF Expired
<1>3. ASSUME NEW q \in Requests
      PROVE  /\ Expired[q] \in Reservation
             /\ Expired[q].month = reservation[q].month /\ Expired[q].estimate = reservation[q].estimate
             /\ Expired[q].createdAt = reservation[q].createdAt
             /\ Expired[q].status = IF q \in Overdue THEN "expired" ELSE reservation[q].status
             /\ q \notin Overdue => Expired[q] = reservation[q]
  <2>1. PICK r, x : r = reservation[q] /\ x = Expired[q]
    OBVIOUS
  <2>2. r \in Reservation /\ x = IF q \in Overdue THEN [r EXCEPT !.status = "expired"] ELSE r
    BY <1>1, <1>2, <2>1
  <2>3. /\ x \in Reservation /\ x.month = r.month /\ x.estimate = r.estimate /\ x.createdAt = r.createdAt
        /\ x.status = IF q \in Overdue THEN "expired" ELSE r.status
    BY <2>2 DEF Reservation
  <2> QED BY <2>1, <2>2, <2>3
<1>4. Expired \in [Requests -> Reservation]
  <2>1. Expired = [q \in Requests |-> Expired[q]]
    BY DEF Expired
  <2> QED BY <1>3, <2>1
<1>5. PICK n, back : n = MonthOf(time) /\ back = GivenBack
  OBVIOUS
<1>6. n \in Months
  BY <1>5, QuotaFacts
<1>7. back \in Nat /\ back <= Total(Estimate, HeldIn(n) \cap Overdue)
  <2>1. HeldIn(n) \cap Overdue = {q \in Overdue : reservation[q].month = MonthOf(time)}
    BY <1>5 DEF HeldIn, Overdue, Holding
  <2>2. HeldIn(n) \cap Overdue \subseteq Requests
    BY DEF HeldIn, Holding
  <2>3. Total(Estimate, HeldIn(n) \cap Overdue) \in Nat
    BY <2>2, RequestsFinite, QuotaFacts, TotalDrops
  <2>4. back = Total(Estimate, HeldIn(n) \cap Overdue) \/ back = 0
    BY <1>5, <2>1, QuotaFacts DEF GivenBack
  <2> QED BY <2>3, <2>4
<1>8. PICK left : left = NonNegative(period[n].reserved - back)
  OBVIOUS
<1>9. left \in Nat /\ left >= period[n].reserved - back
  <2>1. period[n].reserved - back \in Int
    BY <1>6, <1>7, QuotaFacts
  <2> QED BY <1>8, <2>1, NonNegativeFacts
<1>10. AfterExpiry = [period EXCEPT ![n].reserved = left]
  BY <1>5, <1>8 DEF AfterExpiry
<1>11. AfterExpiry \in [Months -> Period]
  BY <1>1, <1>6, <1>9, <1>10 DEF Period
<1>12. ASSUME NEW m \in Months
       PROVE  /\ AfterExpiry[m].consumed = period[m].consumed
              /\ AfterExpiry[m].reserved >= Total(Estimate, HeldIn(m) \ Overdue)
  <2>1. PICK S, R : S = HeldIn(m) /\ R = HeldIn(m) \cap Overdue
    OBVIOUS
  <2>2. S \subseteq Requests /\ R \subseteq S /\ S \ R = HeldIn(m) \ Overdue
    BY <2>1 DEF HeldIn, Holding
  <2>3. IsFiniteSet(S) /\ \A q \in S : Estimate[q] \in Nat
    BY <2>2, RequestsFinite, QuotaFacts
  <2>4. PICK all \in Nat, gone \in Nat, kept \in Nat :
          all = Total(Estimate, S) /\ gone = Total(Estimate, R) /\ kept = Total(Estimate, S \ R) /\ kept = all - gone
    BY <2>2, <2>3, TotalDrops
  <2>5. period[m].reserved >= Total(Estimate, S) /\ period[m].reserved \in Nat /\ period[m] \in Period
    BY <1>1, <2>1, QuotaFacts
  <2> SUFFICES AfterExpiry[m].consumed = period[m].consumed /\ AfterExpiry[m].reserved >= kept
    BY <2>2, <2>4
  <2>6. CASE m = n
    <3>1. AfterExpiry[m].reserved = left /\ AfterExpiry[m].consumed = period[m].consumed
      BY <1>1, <1>6, <1>10, <2>6 DEF Period
    <3>2. back <= gone /\ left >= period[m].reserved - back /\ period[m].reserved >= all
      BY <1>7, <1>9, <2>1, <2>4, <2>5, <2>6
    <3>3. left >= all - gone
      BY <1>7, <1>9, <2>5, <3>2
    <3> QED BY <2>4, <3>1, <3>3
  <2>7. CASE m # n
    <3>1. AfterExpiry[m] = period[m]
      BY <1>1, <1>6, <1>10, <2>7
    <3>2. period[m].reserved >= all
      BY <2>4, <2>5
    <3> QED BY <2>4, <2>5, <3>1, <3>2
  <2> QED BY <2>6, <2>7
<1> QED BY <1>3, <1>4, <1>11, <1>12

\* What a step has to show.
LEMMA QuotaMoves ==
  ASSUME QuotaTypeOK', 
         \A m \in Months : /\ period'[m].consumed = Total(Units', SettledIn(m)')
                          /\ period'[m].reserved >= Total(Estimate', HeldIn(m)'),
         \A q \in Requests : reservation'[q].status = "settled" => ledger'[q].units >= 1
  PROVE  QuotaInv'
<1>1. ConsumedIsLedger'
  BY DEF ConsumedIsLedger, Charged, Units, SettledIn
<1>2. ReservedCovers'
  BY DEF ReservedCovers, Estimated, Estimate, HeldIn
<1> QED BY <1>1, <1>2 DEF QuotaInv, Holding

\* snapshot, and a reserve that finds its reservation.
LEMMA ExpiryKeeps ==
  ASSUME QuotaInv, reservation' = Expired, period' = AfterExpiry, UNCHANGED <<time, ledger>>,
         call' \in [Requests -> {"idle", "calling", "done"}]
  PROVE  QuotaInv'
<1>1. QuotaTypeOK'
  BY ExpiryFacts DEF QuotaInv, ConsumedIsLedger, QuotaTypeOK
<1>2. \A q \in Requests : /\ reservation'[q].month = reservation[q].month /\ reservation'[q].estimate = reservation[q].estimate
                          /\ reservation'[q].status = IF q \in Overdue THEN "expired" ELSE reservation[q].status
  BY ExpiryFacts
<1>3. Estimate' = Estimate /\ Units' = Units
  BY <1>2 DEF Estimate, Units
<1>4. \A q \in Overdue : reservation[q].status = "reserved"
  BY DEF Overdue, Holding
<1>5. ASSUME NEW m \in Months PROVE SettledIn(m)' = SettledIn(m) /\ HeldIn(m)' = HeldIn(m) \ Overdue
  BY <1>2, <1>4 DEF SettledIn, HeldIn, Holding
<1>6. \A m \in Months : /\ period'[m].consumed = Total(Units', SettledIn(m)')
                        /\ period'[m].reserved >= Total(Estimate', HeldIn(m)')
  BY <1>3, <1>5, ExpiryFacts, QuotaFacts
<1>7. \A q \in Requests : reservation'[q].status = "settled" => ledger'[q].units >= 1
  BY <1>2 DEF QuotaInv, Holding
<1> QED BY <1>1, <1>6, <1>7, QuotaMoves

\* A new reservation: its request, and what is held after it.
LEMMA ReserveFacts ==
  ASSUME QuotaInv, NEW q \in Requests, NEW units \in Nat, NEW r,
         r = [status |-> "reserved", month |-> MonthOf(time), estimate |-> units, createdAt |-> time],
         reservation[q].status = "none", reservation' = [Expired EXCEPT ![q] = r], UNCHANGED <<time, ledger>>
  PROVE  /\ reservation' \in [Requests -> Reservation] /\ q \notin Overdue
         /\ \A p \in Requests : reservation'[p] = IF p = q THEN r ELSE Expired[p]
         /\ Estimate' \in [Requests -> Nat] /\ Estimate'[q] = units /\ \A p \in Requests : p # q => Estimate'[p] = Estimate[p]
         /\ Units' = Units
         /\ \A m \in Months :
              /\ SettledIn(m)' = SettledIn(m)
              /\ HeldIn(m)' = IF m = MonthOf(time) THEN (HeldIn(m) \ Overdue) \cup {q} ELSE HeldIn(m) \ Overdue
              /\ HeldIn(m) \subseteq Requests /\ q \notin HeldIn(m) /\ IsFiniteSet(HeldIn(m) \ Overdue)
         /\ r.status = "reserved" /\ r.createdAt = time
<1>1. MonthOf(time) \in Months /\ time \in Nat
  BY QuotaFacts
<1>2. r \in Reservation /\ r.status = "reserved" /\ r.month = MonthOf(time) /\ r.estimate = units /\ r.createdAt = time
  BY <1>1 DEF Reservation
<1>3. reservation' \in [Requests -> Reservation] /\ \A p \in Requests : reservation'[p] = IF p = q THEN r ELSE Expired[p]
  <2>1. PICK rows : rows = Expired
    OBVIOUS
  <2>2. rows \in [Requests -> Reservation] /\ reservation' = [rows EXCEPT ![q] = r]
    BY <2>1, ExpiryFacts
  <2> QED BY <1>2, <2>1, <2>2
<1>4. q \notin Overdue /\ \A p \in Overdue : reservation[p].status = "reserved"
  BY DEF Overdue, Holding
<1>5. \A p \in Requests \ {q} :
        /\ reservation'[p].month = reservation[p].month /\ reservation'[p].estimate = reservation[p].estimate
        /\ reservation'[p].status = IF p \in Overdue THEN "expired" ELSE reservation[p].status
  BY <1>3, ExpiryFacts
<1>6. reservation'[q] = r
  BY <1>3
<1>7. Estimate' \in [Requests -> Nat] /\ Estimate'[q] = units /\ \A p \in Requests : p # q => Estimate'[p] = Estimate[p]
  <2>1. Estimate' = [p \in Requests |-> reservation'[p].estimate]
    BY DEF Estimate
  <2>2. \A p \in Requests : reservation'[p].estimate = IF p = q THEN units ELSE Estimate[p]
    BY <1>2, <1>5, <1>6, QuotaFacts
  <2> QED BY <2>1, <2>2, QuotaFacts
<1>8. Units' = Units
  BY DEF Units
<1>9. ASSUME NEW m \in Months
      PROVE  /\ SettledIn(m)' = SettledIn(m)
             /\ HeldIn(m)' = IF m = MonthOf(time) THEN (HeldIn(m) \ Overdue) \cup {q} ELSE HeldIn(m) \ Overdue
             /\ HeldIn(m) \subseteq Requests /\ q \notin HeldIn(m) /\ IsFiniteSet(HeldIn(m) \ Overdue)
  <2>1. SettledIn(m)' = SettledIn(m)
    BY <1>2, <1>4, <1>5, <1>6 DEF SettledIn, Holding
  <2>2. HeldIn(m)' = IF m = MonthOf(time) THEN (HeldIn(m) \ Overdue) \cup {q} ELSE HeldIn(m) \ Overdue
    BY <1>2, <1>4, <1>5, <1>6 DEF HeldIn, Holding
  <2>3. HeldIn(m) \subseteq Requests /\ q \notin HeldIn(m)
    BY DEF HeldIn, Holding
  <2> QED BY <2>1, <2>2, <2>3, RequestsFinite
<1> QED BY <1>2, <1>3, <1>4, <1>7, <1>8, <1>9

\* Adding to the sum of an unchanged rest.
LEMMA OneMore ==
  ASSUME NEW S, S \subseteq Requests, NEW q \in Requests, q \notin S, NEW old \in [Requests -> Nat], NEW new \in [Requests -> Nat],
         \A p \in Requests : p # q => new[p] = old[p]
  PROVE  Total(new, S) = Total(old, S) /\ Total(new, S \cup {q}) = Total(old, S) + new[q] /\ Total(old, S) \in Nat
<1>1. IsFiniteSet(S)
  BY RequestsFinite
<1>2. Total(new, S) = Total(old, S)
  BY TotalOfSame
<1>3. Total(new, S \cup {q}) = Total(new, S) + new[q] /\ Total(new, S) \in Nat
  BY <1>1, TotalAdds
<1> QED BY <1>2, <1>3

Reserves(q, units) ==
  /\ reservation[q].status = "none"
  /\ reservation' = [Expired EXCEPT ![q] =
       [status |-> "reserved", month |-> MonthOf(time), estimate |-> units, createdAt |-> time]]
  /\ period' = [AfterExpiry EXCEPT ![MonthOf(time)].reserved = @ + units]
  /\ UNCHANGED <<time, ledger>>

LEMMA NewReservation ==
  ASSUME QuotaInv, NEW q \in Requests, NEW units \in Nat, Reserves(q, units), call' \in [Requests -> {"idle", "calling", "done"}]
  PROVE  QuotaInv'
<1>1. PICK r, n : r = [status |-> "reserved", month |-> MonthOf(time), estimate |-> units, createdAt |-> time] /\ n = MonthOf(time)
  OBVIOUS
<1>2. n \in Months
  BY <1>1, QuotaFacts
<1>3. /\ reservation' \in [Requests -> Reservation] /\ q \notin Overdue
      /\ \A p \in Requests : reservation'[p] = IF p = q THEN r ELSE Expired[p]
      /\ Estimate' \in [Requests -> Nat] /\ Estimate'[q] = units /\ \A p \in Requests : p # q => Estimate'[p] = Estimate[p]
      /\ Units' = Units
      /\ \A m \in Months :
           /\ SettledIn(m)' = SettledIn(m)
           /\ HeldIn(m)' = IF m = MonthOf(time) THEN (HeldIn(m) \ Overdue) \cup {q} ELSE HeldIn(m) \ Overdue
           /\ HeldIn(m) \subseteq Requests /\ q \notin HeldIn(m) /\ IsFiniteSet(HeldIn(m) \ Overdue)
      /\ r.status = "reserved" /\ r.createdAt = time
  <2>1. /\ r = [status |-> "reserved", month |-> MonthOf(time), estimate |-> units, createdAt |-> time]
        /\ reservation' = [Expired EXCEPT ![q] = r] /\ UNCHANGED <<time, ledger>>
        /\ reservation[q].status = "none"
    BY <1>1 DEF Reserves
  <2>2. reservation' \in [Requests -> Reservation] /\ q \notin Overdue
    BY <2>1, ReserveFacts
  <2>3. \A p \in Requests : reservation'[p] = IF p = q THEN r ELSE Expired[p]
    BY <2>1, ReserveFacts
  <2>4. Estimate' \in [Requests -> Nat] /\ Estimate'[q] = units /\ \A p \in Requests : p # q => Estimate'[p] = Estimate[p]
    <3>1. Estimate' \in [Requests -> Nat] /\ Estimate' = [p \in Requests |-> reservation'[p].estimate]
      BY <2>1, ReserveFacts DEF Estimate
    <3>2. reservation'[q].estimate = units
      BY <2>1, <2>3
    <3>3. \A p \in Requests : p # q => reservation'[p].estimate = Estimate[p]
      BY <2>3, ExpiryFacts, QuotaFacts
    <3> QED BY <3>1, <3>2, <3>3
  <2>5. Units' = Units /\ r.status = "reserved" /\ r.createdAt = time
    BY <2>1, ReserveFacts
  <2>6. ASSUME NEW m \in Months
        PROVE  /\ SettledIn(m)' = SettledIn(m)
               /\ HeldIn(m)' = IF m = MonthOf(time) THEN (HeldIn(m) \ Overdue) \cup {q} ELSE HeldIn(m) \ Overdue
               /\ HeldIn(m) \subseteq Requests /\ q \notin HeldIn(m) /\ IsFiniteSet(HeldIn(m) \ Overdue)
    BY <2>1, ReserveFacts
  <2> QED BY <2>2, <2>3, <2>4, <2>5, <2>6
<1>4. PICK totals : totals = AfterExpiry
  OBVIOUS
<1>5. /\ totals \in [Months -> Period]
      /\ \A m \in Months : totals[m].consumed = period[m].consumed /\ totals[m].reserved >= Total(Estimate, HeldIn(m) \ Overdue)
  BY <1>4, ExpiryFacts
<1>6. period' = [totals EXCEPT ![n].reserved = totals[n].reserved + units]
  BY <1>1, <1>4 DEF Reserves
<1>7. /\ period' \in [Months -> Period]
      /\ \A m \in Months : /\ period'[m].consumed = totals[m].consumed
                           /\ period'[m].reserved = IF m = n THEN totals[m].reserved + units ELSE totals[m].reserved
  <2>1. totals[n] \in Period
    BY <1>2, <1>5
  <2>2. PICK row : row = [totals[n] EXCEPT !.reserved = totals[n].reserved + units]
    OBVIOUS
  <2>3. row \in Period /\ row.consumed = totals[n].consumed /\ row.reserved = totals[n].reserved + units
    BY <2>1, <2>2 DEF Period
  <2>4. period' = [totals EXCEPT ![n] = row]
    BY <1>6, <2>2
  <2>5. period' \in [Months -> Period] /\ \A m \in Months : period'[m] = IF m = n THEN row ELSE totals[m]
    BY <1>5, <2>3, <2>4
  <2>6. ASSUME NEW m \in Months
        PROVE  /\ period'[m].consumed = totals[m].consumed
               /\ period'[m].reserved = IF m = n THEN totals[m].reserved + units ELSE totals[m].reserved
    <3>1. CASE m = n
      BY <2>3, <2>5, <3>1
    <3>2. CASE m # n
      BY <2>5, <3>2
    <3> QED BY <3>1, <3>2
  <2> QED BY <2>5, <2>6
<1>8. ASSUME NEW m \in Months
      PROVE  /\ period'[m].consumed = Total(Units', SettledIn(m)')
             /\ period'[m].reserved >= Total(Estimate', HeldIn(m)')
  <2>1. period'[m].consumed = Total(Units', SettledIn(m)')
    <3>1. Units' = Units /\ SettledIn(m)' = SettledIn(m)
      BY <1>3
    <3>2. period'[m].consumed = period[m].consumed
      BY <1>5, <1>7
    <3>3. period[m].consumed = Total(Units, SettledIn(m))
      BY QuotaFacts
    <3> QED BY <3>1, <3>2, <3>3
  <2>2. PICK S : S = HeldIn(m) \ Overdue
    OBVIOUS
  <2>3. S \subseteq Requests /\ q \notin S
    BY <1>3, <2>2
  <2>4. Total(Estimate', S) = Total(Estimate, S) /\ Total(Estimate', S \cup {q}) = Total(Estimate, S) + units /\ Total(Estimate, S) \in Nat
    <3>1. PICK new : new = Estimate'
      OBVIOUS
    <3>2. new \in [Requests -> Nat] /\ new[q] = units /\ \A p \in Requests : p # q => new[p] = Estimate[p]
      BY <1>3, <3>1
    <3>3. PICK old : old = Estimate
      OBVIOUS
    <3>4. old \in [Requests -> Nat] /\ \A p \in Requests : p # q => new[p] = old[p]
      BY <3>2, <3>3, QuotaFacts
    <3>5. Total(new, S) = Total(old, S)
      <4>1. \A p \in S : new[p] = old[p]
        BY <2>3, <3>4
      <4> QED BY <4>1, TotalOfSame
    <3>6. Total(new, S \cup {q}) = Total(old, S) + new[q]
      BY <2>3, <3>2, <3>4, OneMore
    <3>7. Total(old, S) \in Nat
      BY <2>3, <3>2, <3>4, OneMore
    <3> QED BY <3>1, <3>2, <3>3, <3>5, <3>6, <3>7
  <2>5. totals[m].reserved \in Nat /\ totals[m].reserved >= Total(Estimate, S)
    BY <1>5, <2>2 DEF Period
  <2>6. CASE m = n
    <3>1. HeldIn(m)' = S \cup {q} /\ period'[m].reserved = totals[m].reserved + units
      BY <1>1, <1>3, <1>7, <2>2, <2>6
    <3>2. period'[m].reserved >= Total(Estimate, S) + units
      BY <2>4, <2>5, <3>1
    <3> QED BY <2>1, <2>4, <3>1, <3>2
  <2>7. CASE m # n
    <3>1. HeldIn(m)' = S /\ period'[m].reserved = totals[m].reserved
      BY <1>1, <1>3, <1>7, <2>2, <2>7
    <3> QED BY <2>1, <2>4, <2>5, <3>1
  <2> QED BY <2>6, <2>7
<1>9. QuotaTypeOK'
  BY <1>3, <1>7 DEF Reserves, QuotaInv, ConsumedIsLedger, QuotaTypeOK
<1>10. \A p \in Requests : reservation'[p].status = "settled" => ledger'[p].units >= 1
  <2>1. \A p \in Requests : reservation'[p].status = "settled" => reservation[p].status = "settled"
    BY <1>3, ExpiryFacts
  <2>2. ledger' = ledger
    BY DEF Reserves
  <2> QED BY <2>1, <2>2 DEF QuotaInv, Holding
<1> QED BY <1>8, <1>9, <1>10, QuotaMoves

\* What settle and release give back covers what they end.
LEMMA UnreservedFacts ==
  ASSUME QuotaInv, NEW q \in Requests, reservation[q].status = "reserved"
  PROVE  /\ Unreserved(q) \in [Months -> Period]
         /\ \A m \in Months : /\ Unreserved(q)[m].consumed = period[m].consumed
                              /\ Unreserved(q)[m].reserved >= Total(Estimate, HeldIn(m) \ {q})
<1>1. PICK n, e : n = reservation[q].month /\ e = reservation[q].estimate
  OBVIOUS
<1>2. reservation[q] \in Reservation /\ period \in [Months -> Period]
  BY DEF QuotaInv, ConsumedIsLedger, QuotaTypeOK
<1>3. n \in Months /\ e \in Nat /\ Estimate[q] = e
  BY <1>1, <1>2, QuotaFacts DEF Reservation
<1>4. PICK left : left = NonNegative(period[n].reserved - e)
  OBVIOUS
<1>5. left \in Nat /\ left >= period[n].reserved - e
  <2>1. period[n].reserved - e \in Int
    BY <1>3, QuotaFacts
  <2> QED BY <1>4, <2>1, NonNegativeFacts
<1>6. Unreserved(q) = [period EXCEPT ![n].reserved = left]
  BY <1>1, <1>4 DEF Unreserved
<1>7. Unreserved(q) \in [Months -> Period]
  BY <1>2, <1>3, <1>5, <1>6 DEF Period
<1>8. ASSUME NEW m \in Months
      PROVE  /\ Unreserved(q)[m].consumed = period[m].consumed
             /\ Unreserved(q)[m].reserved >= Total(Estimate, HeldIn(m) \ {q})
  <2>1. PICK S : S = HeldIn(m)
    OBVIOUS
  <2>2. IsFiniteSet(S) /\ (\A p \in S : Estimate[p] \in Nat) /\ (q \in S <=> m = n)
    <3>1. S \subseteq Requests /\ (q \in S <=> m = n)
      BY <1>1, <2>1 DEF HeldIn, Holding
    <3> QED BY <3>1, RequestsFinite, QuotaFacts
  <2>3. period[m].reserved \in Nat /\ period[m].reserved >= Total(Estimate, S) /\ period[m] \in Period
    BY <1>2, <2>1, QuotaFacts
  <2>4. CASE m = n
    <3>1. PICK R : R = {q}
      OBVIOUS
    <3>2. R \subseteq S
      BY <2>2, <2>4, <3>1
    <3>3. PICK all \in Nat, kept \in Nat : all = Total(Estimate, S) /\ kept = Total(Estimate, S \ R) /\ kept = all - Total(Estimate, R)
      BY <2>2, <3>2, TotalDrops
    <3>4. Total(Estimate, R) = e
      BY <1>3, <3>1, TotalOfOne
    <3>5. Unreserved(q)[m].reserved = left /\ Unreserved(q)[m].consumed = period[m].consumed
      BY <1>2, <1>3, <1>6, <2>4 DEF Period
    <3>6. left >= kept
      <4>1. left >= period[m].reserved - e /\ period[m].reserved >= all /\ kept = all - e
        BY <1>5, <2>3, <2>4, <3>3, <3>4
      <4> QED BY <1>3, <1>5, <2>3, <4>1
    <3> QED BY <2>1, <3>1, <3>3, <3>5, <3>6
  <2>5. CASE m # n
    <3>1. Unreserved(q)[m] = period[m]
      BY <1>2, <1>3, <1>6, <2>5
    <3>2. S \ {q} = S
      BY <2>2, <2>5
    <3> QED BY <2>1, <2>3, <3>1, <3>2
  <2> QED BY <2>4, <2>5
<1> QED BY <1>7, <1>8

\* A reservation ends as settled or released.
LEMMA EndFacts ==
  ASSUME QuotaInv, NEW q \in Requests, reservation[q].status = "reserved", NEW end \in {"settled", "released"},
         reservation' = [reservation EXCEPT ![q].status = end]
  PROVE  /\ reservation' \in [Requests -> Reservation] /\ reservation'[q].status = end /\ reservation'[q].month = reservation[q].month
         /\ \A p \in Requests : p # q => reservation'[p] = reservation[p]
         /\ Estimate' = Estimate
         /\ \A m \in Months : HeldIn(m)' = HeldIn(m) \ {q}
<1>1. reservation \in [Requests -> Reservation]
  BY DEF QuotaInv, ConsumedIsLedger, QuotaTypeOK
<1>2. PICK old, row : old = reservation[q] /\ row = [old EXCEPT !.status = end]
  OBVIOUS
<1>3. row \in Reservation /\ row.status = end /\ row.month = old.month /\ row.estimate = old.estimate
  <2>1. old \in Reservation
    BY <1>1, <1>2
  <2> QED BY <1>2, <2>1 DEF Reservation
<1>4. reservation' = [reservation EXCEPT ![q] = row]
  BY <1>2
<1>5. reservation' \in [Requests -> Reservation] /\ \A p \in Requests : reservation'[p] = IF p = q THEN row ELSE reservation[p]
  BY <1>1, <1>3, <1>4
<1>6. Estimate' = Estimate
  BY <1>2, <1>3, <1>5 DEF Estimate
<1>7. \A m \in Months : HeldIn(m)' = HeldIn(m) \ {q}
  BY <1>3, <1>5 DEF HeldIn, Holding
<1> QED BY <1>2, <1>3, <1>5, <1>6, <1>7

LEMMA ReleaseCallKeeps ==
  ASSUME QuotaInv, NEW q \in Requests, Release(q), reservation[q].status = "reserved"
  PROVE  QuotaInv'
<1>1. /\ reservation' = [reservation EXCEPT ![q].status = "released"] /\ period' = Unreserved(q)
      /\ UNCHANGED <<time, ledger>> /\ call' = [call EXCEPT ![q] = "done"]
  BY DEF Release
<1>2. /\ reservation' \in [Requests -> Reservation] /\ reservation'[q].status = "released"
      /\ \A p \in Requests : p # q => reservation'[p] = reservation[p]
      /\ Estimate' = Estimate
      /\ \A m \in Months : HeldIn(m)' = HeldIn(m) \ {q}
  BY <1>1, EndFacts
<1>3. QuotaTypeOK'
  BY <1>1, <1>2, UnreservedFacts DEF QuotaInv, ConsumedIsLedger, QuotaTypeOK
<1>4. Units' = Units /\ \A m \in Months : SettledIn(m)' = SettledIn(m)
  BY <1>1, <1>2 DEF Units, SettledIn, Holding
<1>5. \A m \in Months : /\ period'[m].consumed = Total(Units', SettledIn(m)')
                        /\ period'[m].reserved >= Total(Estimate', HeldIn(m)')
  BY <1>1, <1>2, <1>4, UnreservedFacts, QuotaFacts
<1>6. \A p \in Requests : reservation'[p].status = "settled" => ledger'[p].units >= 1
  BY <1>1, <1>2 DEF QuotaInv, Holding
<1> QED BY <1>3, <1>5, <1>6, QuotaMoves

\* The charge is made to the month of the reservation, by settle.
LEMMA SettleKeeps ==
  ASSUME QuotaInv, NEW q \in Requests, NEW t \in Usages, Settle(q, t), reservation[q].status = "reserved"
  PROVE  QuotaInv'
<1>1. PICK units, n : units = ComputeUnits(t) /\ n = reservation[q].month
  OBVIOUS
<1>2. units \in Nat /\ units >= 1
  <2>1. t \in Tokens
    BY QuotaAssumption
  <2> QED BY <1>1, <2>1, UnitsAtLeastOne
<1>3. PICK row, totals : row = [units |-> units, createdAt |-> time] /\ totals = Unreserved(q)
  OBVIOUS
<1>4. /\ reservation' = [reservation EXCEPT ![q].status = "settled"] /\ ledger' = [ledger EXCEPT ![q] = row]
      /\ period' = [totals EXCEPT ![n].consumed = totals[n].consumed + units]
      /\ time' = time /\ call' = [call EXCEPT ![q] = "done"]
  BY <1>1, <1>3 DEF Settle
<1>5. /\ reservation' \in [Requests -> Reservation] /\ reservation'[q].status = "settled" /\ reservation'[q].month = n
      /\ \A p \in Requests : p # q => reservation'[p] = reservation[p]
      /\ Estimate' = Estimate
      /\ \A m \in Months : HeldIn(m)' = HeldIn(m) \ {q}
  BY <1>1, <1>4, EndFacts
<1>6. ledger \in [Requests -> LedgerRow] /\ row \in LedgerRow /\ row.units = units
  BY <1>2, <1>3, QuotaFacts DEF QuotaInv, ConsumedIsLedger, QuotaTypeOK, LedgerRow
<1>7. ledger' \in [Requests -> LedgerRow] /\ \A p \in Requests : ledger'[p] = IF p = q THEN row ELSE ledger[p]
  BY <1>4, <1>6
<1>8. n \in Months
  BY <1>1 DEF QuotaInv, ConsumedIsLedger, QuotaTypeOK, Reservation
<1>9. /\ totals \in [Months -> Period]
      /\ \A m \in Months : totals[m].consumed = period[m].consumed /\ totals[m].reserved >= Total(Estimate, HeldIn(m) \ {q})
  BY <1>3, UnreservedFacts
<1>10. PICK charged : charged = [totals[n] EXCEPT !.consumed = totals[n].consumed + units]
  OBVIOUS
<1>11. charged \in Period /\ charged.consumed = totals[n].consumed + units /\ charged.reserved = totals[n].reserved
  <2>1. totals[n] \in Period
    BY <1>8, <1>9
  <2> QED BY <1>2, <1>10, <2>1 DEF Period
<1>12. period' \in [Months -> Period] /\ \A m \in Months : period'[m] = IF m = n THEN charged ELSE totals[m]
  BY <1>4, <1>9, <1>10, <1>11
<1>13. QuotaTypeOK'
  BY <1>4, <1>5, <1>7, <1>12 DEF QuotaInv, ConsumedIsLedger, QuotaTypeOK
<1>14. PICK new : new = Units'
  OBVIOUS
<1>15. new \in [Requests -> Nat] /\ new[q] = units /\ \A p \in Requests : p # q => new[p] = Units[p]
  <2>1. new = [p \in Requests |-> ledger'[p].units]
    BY <1>14 DEF Units
  <2>2. ledger'[q].units = units
    BY <1>6, <1>7
  <2>3. \A p \in Requests : p # q => ledger'[p].units = Units[p]
    BY <1>7, QuotaFacts
  <2>4. \A p \in Requests : ledger'[p].units \in Nat
    BY <1>7 DEF LedgerRow
  <2> QED BY <2>1, <2>2, <2>3, <2>4
<1>16. ASSUME NEW m \in Months
       PROVE  /\ period'[m].consumed = Total(Units', SettledIn(m)')
              /\ period'[m].reserved >= Total(Estimate', HeldIn(m)')
  <2>1. PICK S, old : S = SettledIn(m) /\ old = Units
    OBVIOUS
  <2>2. S \subseteq Requests /\ q \notin S
    BY <2>1 DEF SettledIn, Holding
  <2>3. old \in [Requests -> Nat] /\ \A p \in Requests : p # q => new[p] = old[p]
    BY <1>15, <2>1, QuotaFacts
  <2>4. Total(new, S) = Total(old, S)
    <3>1. \A p \in S : new[p] = old[p]
      BY <2>2, <2>3
    <3> QED BY <3>1, TotalOfSame
  <2>5. Total(new, S \cup {q}) = Total(old, S) + new[q]
    BY <1>15, <2>2, <2>3, OneMore
  <2>6. period'[m].reserved >= Total(Estimate', HeldIn(m)')
    <3>1. period'[m].reserved = totals[m].reserved
      BY <1>11, <1>12
    <3> QED BY <1>5, <1>9, <3>1
  <2>7. totals[m].consumed = Total(old, S)
    BY <1>9, <2>1, QuotaFacts
  <2>8. CASE m = n
    <3>1. SettledIn(m)' = S \cup {q}
      BY <1>5, <2>1, <2>8 DEF SettledIn, Holding
    <3>2. period'[m].consumed = totals[m].consumed + units
      BY <1>11, <1>12, <2>8
    <3> QED BY <1>14, <1>15, <2>5, <2>6, <2>7, <3>1, <3>2
  <2>9. CASE m # n
    <3>1. SettledIn(m)' = S
      BY <1>5, <2>1, <2>9 DEF SettledIn, Holding
    <3>2. period'[m].consumed = totals[m].consumed
      BY <1>12, <2>9
    <3> QED BY <1>14, <2>4, <2>6, <2>7, <3>1, <3>2
  <2> QED BY <2>8, <2>9
<1>17. \A p \in Requests : reservation'[p].status = "settled" => ledger'[p].units >= 1
  BY <1>2, <1>5, <1>6, <1>7 DEF QuotaInv, Holding
<1> QED BY <1>13, <1>16, <1>17, QuotaMoves

LEMMA CallsOnly ==
  ASSUME QuotaInv, UNCHANGED <<reservation, ledger, period>>, time' \in 0 .. MaxTime,
         call' \in [Requests -> {"idle", "calling", "done"}]
  PROVE  QuotaInv'
<1>1. QuotaTypeOK'
  BY DEF QuotaInv, ConsumedIsLedger, QuotaTypeOK
<1>2. ConsumedIsLedger' /\ ReservedCovers'
  BY <1>1 DEF QuotaInv, ConsumedIsLedger, ReservedCovers, Charged, Estimated, Holding
<1> QED BY <1>2 DEF QuotaInv, Holding

\* What a step admits is within the plan; what has ended stays as it ended.
AdmitStep ==
  \A q \in Requests :
    reservation[q].status = "none" /\ reservation'[q].status = "reserved"
      => Outstanding(MonthOf(time))' <= MonthlyOcu /\ Today' <= DailyOcu
EndStep ==
  \A q \in Requests : reservation[q].status # "reserved" /\ reservation[q].status # "none"
    => UNCHANGED <<reservation[q], ledger[q]>>

LEMMA NewIsWithinPlan ==
  ASSUME QuotaInv, NEW q \in Requests, NEW units \in Nat, Reserves(q, units), Admits(units)
  PROVE  Outstanding(MonthOf(time))' <= MonthlyOcu /\ Today' <= DailyOcu
<1>1. PICK r, n : r = [status |-> "reserved", month |-> MonthOf(time), estimate |-> units, createdAt |-> time] /\ n = MonthOf(time)
  OBVIOUS
<1>2. /\ r = [status |-> "reserved", month |-> MonthOf(time), estimate |-> units, createdAt |-> time]
      /\ reservation' = [Expired EXCEPT ![q] = r] /\ UNCHANGED <<time, ledger>> /\ reservation[q].status = "none"
  BY <1>1 DEF Reserves
<1>3. n \in Months
  BY <1>1, QuotaFacts
<1>4. reservation' \in [Requests -> Reservation] /\ q \notin Overdue
  BY <1>2, ReserveFacts
<1>5. \A p \in Requests : reservation'[p] = IF p = q THEN r ELSE Expired[p]
  BY <1>2, ReserveFacts
<1>6. PICK new, old : new = Estimate' /\ old = Estimate
  OBVIOUS
<1>7. new \in [Requests -> Nat] /\ old \in [Requests -> Nat] /\ new[q] = units /\ \A p \in Requests : p # q => new[p] = old[p]
  <2>1. new = [p \in Requests |-> reservation'[p].estimate] /\ new \in [Requests -> Nat]
    BY <1>2, <1>6, ReserveFacts DEF Estimate
  <2>2. reservation'[q].estimate = units
    BY <1>2, <1>5
  <2>3. \A p \in Requests : p # q => reservation'[p].estimate = Estimate[p]
    BY <1>5, ExpiryFacts, QuotaFacts
  <2> QED BY <1>6, <2>1, <2>2, <2>3, QuotaFacts
<1>8. Units' = Units
  BY <1>2, ReserveFacts
<1>9. \A S : Charged(S) = Total(Units, S)
  BY QuotaFacts
<1>10. Outstanding(MonthOf(time))' <= MonthlyOcu
  <2>1. PICK S, H : S = SettledIn(n) /\ H = HeldIn(n) \ Overdue
    OBVIOUS
  <2>2. SettledIn(n)' = S /\ HeldIn(n)' = H \cup {q} /\ H \subseteq Requests /\ q \notin H
    BY <1>1, <1>2, <1>3, <2>1, ReserveFacts
  <2>3. Outstanding(MonthOf(time))' = Total(Units, S) + Total(new, H \cup {q})
    <3>1. MonthOf(time)' = n
      BY <1>1, <1>2 DEF MonthOf, DayOf
    <3>2. Outstanding(MonthOf(time))' = Charged(SettledIn(n))' + Estimated(HeldIn(n))'
      BY <3>1 DEF Outstanding, SettledIn, HeldIn
    <3>3. Charged(SettledIn(n))' = Total(Units', SettledIn(n)') /\ Estimated(HeldIn(n))' = Total(Estimate', HeldIn(n)')
      BY DEF Charged, Estimated, Units, Estimate
    <3> QED BY <1>6, <1>8, <2>2, <3>2, <3>3
  <2>4. Total(new, H \cup {q}) = Total(old, H) + units /\ Total(old, H) \in Nat
    BY <1>7, <2>2, OneMore
  <2>5. PICK totals : totals = AfterExpiry
    OBVIOUS
  <2>6. totals[n].consumed = Total(Units, S) /\ totals[n].reserved >= Total(old, H) /\ totals[n] \in Period
    BY <1>3, <1>6, <2>1, <2>5, ExpiryFacts, QuotaFacts
  <2>7. totals[n].consumed + totals[n].reserved + units <= MonthlyOcu
    BY <1>1, <2>5 DEF Admits
  <2>8. totals[n].consumed \in Nat /\ totals[n].reserved \in Nat
    BY <2>6 DEF Period
  <2>9. PICK a, b, c, d : a = totals[n].consumed /\ b = totals[n].reserved /\ c = Total(old, H) /\ d = Outstanding(MonthOf(time))'
    OBVIOUS
  <2>10. a \in Nat /\ b \in Nat /\ c \in Nat /\ b >= c /\ a + b + units <= MonthlyOcu /\ d = a + (c + units)
    BY <2>3, <2>4, <2>6, <2>7, <2>8, <2>9
  <2> QED BY <2>9, <2>10, QuotaAssumption
<1>11. Today' <= DailyOcu
  <2>1. PICK S, H : /\ S = {p \in Holding("settled") : DayOf(ledger[p].createdAt) = DayOf(time)}
                    /\ H = {p \in Holding("reserved") \ Overdue : DayOf(reservation[p].createdAt) = DayOf(time)}
    OBVIOUS
  <2>2. H \subseteq Requests /\ q \notin H
    BY <1>2, <2>1 DEF Holding
  <2>3. \A p \in Overdue : reservation[p].status = "reserved"
    BY DEF Overdue, Holding
  <2>4. \A p \in Requests \ {q} : /\ reservation'[p].createdAt = reservation[p].createdAt
                                 /\ reservation'[p].status = IF p \in Overdue THEN "expired" ELSE reservation[p].status
    BY <1>5, ExpiryFacts
  <2>5. reservation'[q].status = "reserved" /\ reservation'[q].createdAt = time
    BY <1>2, <1>5
  <2>6. {p \in Holding("settled") : DayOf(ledger[p].createdAt) = DayOf(time)}' = S
    BY <1>2, <2>1, <2>3, <2>4, <2>5 DEF Holding, DayOf
  <2>7. {p \in Holding("reserved") : DayOf(reservation[p].createdAt) = DayOf(time)}' = H \cup {q}
    BY <1>2, <2>1, <2>3, <2>4, <2>5 DEF Holding, DayOf
  <2>8. Today' = Total(Units, S) + Total(new, H \cup {q})
    <3>1. Today' = Charged({p \in Holding("settled") : DayOf(ledger[p].createdAt) = DayOf(time)})'
                    + Estimated({p \in Holding("reserved") : DayOf(reservation[p].createdAt) = DayOf(time)})'
      BY DEF Today
    <3>2. \A T : Total(Units', T) = Total([p \in Requests |-> ledger'[p].units], T)
      BY DEF Units
    <3>3. \A T : Total(new, T) = Total([p \in Requests |-> reservation'[p].estimate], T)
      BY <1>6 DEF Estimate
    <3>4. Charged({p \in Holding("settled") : DayOf(ledger[p].createdAt) = DayOf(time)})' = Total(Units, S)
      BY <1>8, <2>6, <3>2 DEF Charged
    <3>5. Estimated({p \in Holding("reserved") : DayOf(reservation[p].createdAt) = DayOf(time)})' = Total(new, H \cup {q})
      BY <2>7, <3>3 DEF Estimated
    <3> QED BY <3>1, <3>4, <3>5
  <2>9. Total(new, H \cup {q}) = Total(old, H) + units /\ Total(old, H) \in Nat
    BY <1>7, <2>2, OneMore
  <2>10. DailyConsumed = Total(Units, S) /\ DailyReserved = Total(old, H)
    BY <1>6, <2>1, QuotaFacts DEF DailyConsumed, DailyReserved
  <2>11. Total(Units, S) \in Nat
    <3>1. IsFiniteSet(S) /\ \A p \in S : Units[p] \in Nat
      <4>1. S \subseteq Requests
        BY <2>1 DEF Holding
      <4> QED BY <4>1, RequestsFinite, QuotaFacts
    <3> QED BY <3>1, TotalDrops
  <2>12. DailyConsumed + DailyReserved + units <= DailyOcu
    BY DEF Admits
  <2>13. PICK a, b, d : a = Total(Units, S) /\ b = Total(old, H) /\ d = Today'
    OBVIOUS
  <2>14. a \in Nat /\ b \in Nat /\ a + b + units <= DailyOcu /\ d = a + (b + units)
    BY <2>8, <2>9, <2>10, <2>11, <2>12, <2>13
  <2> QED BY <2>13, <2>14, QuotaAssumption
<1> QED BY <1>10, <1>11

\* The rows after an expiry: nothing is admitted by it, and what has ended is not touched.
LEMMA ExpirySteps ==
  ASSUME QuotaInv, reservation' = Expired, ledger' = ledger
  PROVE  AdmitStep /\ EndStep
<1>1. \A q \in Overdue : reservation[q].status = "reserved"
  BY DEF Overdue, Holding
<1>2. AdmitStep
  BY <1>1, ExpiryFacts DEF AdmitStep
<1> QED BY <1>1, <1>2, ExpiryFacts DEF EndStep

LEMMA ReserveStep ==
  ASSUME QuotaInv, NEW q \in Requests, NEW t \in Estimates, Reserve(q, t)
  PROVE  QuotaInv' /\ AdmitStep /\ EndStep
<1>1. call' \in [Requests -> {"idle", "calling", "done"}] /\ UNCHANGED <<time, ledger>>
  BY DEF Reserve, QuotaInv, ConsumedIsLedger, QuotaTypeOK
<1>2. PICK units : units = ComputeUnits(t)
  OBVIOUS
<1>3. units \in Nat
  <2>1. t \in Tokens
    BY QuotaAssumption
  <2> QED BY <1>2, <2>1, UnitsAtLeastOne
<1>4. CASE reservation' = Expired /\ period' = AfterExpiry
  BY <1>1, <1>4, ExpiryKeeps, ExpirySteps
<1>5. CASE Reserves(q, units) /\ Admits(units)
  <2>1. QuotaInv'
    BY <1>1, <1>3, <1>5, NewReservation
  <2>2. Outstanding(MonthOf(time))' <= MonthlyOcu /\ Today' <= DailyOcu
    BY <1>3, <1>5, NewIsWithinPlan
  <2>3. PICK r : r = [status |-> "reserved", month |-> MonthOf(time), estimate |-> units, createdAt |-> time]
    OBVIOUS
  <2>4. reservation' = [Expired EXCEPT ![q] = r] /\ reservation[q].status = "none"
    BY <1>5, <2>3 DEF Reserves
  <2>5. \A p \in Requests : reservation'[p] = IF p = q THEN r ELSE Expired[p]
    BY <1>1, <1>3, <2>3, <2>4, ReserveFacts
  <2>6. \A p \in Overdue : reservation[p].status = "reserved"
    BY DEF Overdue, Holding
  <2>7. EndStep
    BY <1>1, <2>4, <2>5, <2>6, ExpiryFacts DEF EndStep
  <2> QED BY <2>1, <2>2, <2>7 DEF AdmitStep
<1>6. (reservation' = Expired /\ period' = AfterExpiry) \/ (Reserves(q, units) /\ Admits(units))
  BY <1>2 DEF Reserve, Reserves
<1> QED BY <1>4, <1>5, <1>6

LEMMA QuotaStep == QuotaInv /\ [QuotaNext]_quotaVars => QuotaInv' /\ AdmitStep /\ EndStep
<1> SUFFICES ASSUME QuotaInv, [QuotaNext]_quotaVars PROVE QuotaInv' /\ AdmitStep /\ EndStep
  OBVIOUS
<1>1. call \in [Requests -> {"idle", "calling", "done"}] /\ time \in 0 .. MaxTime
  BY DEF QuotaInv, ConsumedIsLedger, QuotaTypeOK
<1>2. CASE Snapshot
  BY <1>1, <1>2, ExpiryKeeps, ExpirySteps DEF Snapshot
<1>3. ASSUME NEW q \in Requests, NEW t \in Estimates, Reserve(q, t) PROVE QuotaInv' /\ AdmitStep /\ EndStep
  BY <1>3, ReserveStep
<1>4. ASSUME UNCHANGED <<reservation, ledger, period>>, time' \in 0 .. MaxTime, call' \in [Requests -> {"idle", "calling", "done"}]
      PROVE  QuotaInv' /\ AdmitStep /\ EndStep
  BY <1>4, CallsOnly DEF AdmitStep, EndStep
<1>5. ASSUME NEW q \in Requests, NEW end \in {"settled", "released"}, reservation[q].status = "reserved",
             reservation' = [reservation EXCEPT ![q].status = end], \A p \in Requests : p # q => ledger'[p] = ledger[p]
      PROVE  AdmitStep /\ EndStep
  <2>1. reservation'[q].status = end /\ \A p \in Requests : p # q => reservation'[p] = reservation[p]
    BY <1>5, EndFacts
  <2> QED BY <1>5, <2>1 DEF AdmitStep, EndStep
<1>6. ASSUME NEW q \in Requests, NEW t \in Usages, Settle(q, t) PROVE QuotaInv' /\ AdmitStep /\ EndStep
  <2>1. CASE reservation[q].status = "reserved"
    <3>1. reservation' = [reservation EXCEPT ![q].status = "settled"] /\ \A p \in Requests : p # q => ledger'[p] = ledger[p]
      BY <1>6, <2>1 DEF Settle, QuotaInv, ConsumedIsLedger, QuotaTypeOK
    <3> QED BY <1>5, <1>6, <2>1, <3>1, SettleKeeps
  <2>2. CASE reservation[q].status # "reserved"
    <3>1. UNCHANGED <<time, reservation, ledger, period>> /\ call' \in [Requests -> {"idle", "calling", "done"}]
      BY <1>1, <1>6, <2>2 DEF Settle
    <3> QED BY <1>1, <1>4, <3>1
  <2> QED BY <2>1, <2>2
<1>7. ASSUME NEW q \in Requests, Release(q) PROVE QuotaInv' /\ AdmitStep /\ EndStep
  <2>1. CASE reservation[q].status = "reserved"
    <3>1. reservation' = [reservation EXCEPT ![q].status = "released"] /\ ledger' = ledger
      BY <1>7, <2>1 DEF Release
    <3> QED BY <1>5, <1>7, <2>1, <3>1, ReleaseCallKeeps
  <2>2. CASE reservation[q].status # "reserved"
    <3>1. UNCHANGED <<time, reservation, ledger, period>> /\ call' \in [Requests -> {"idle", "calling", "done"}]
      BY <1>1, <1>7, <2>2 DEF Release
    <3> QED BY <1>1, <1>4, <3>1
  <2> QED BY <2>1, <2>2
<1>8. ASSUME NEW q \in Requests, Drop(q) PROVE QuotaInv' /\ AdmitStep /\ EndStep
  <2>1. UNCHANGED <<time, reservation, ledger, period>> /\ call' \in [Requests -> {"idle", "calling", "done"}]
    BY <1>1, <1>8 DEF Drop
  <2> QED BY <1>1, <1>4, <2>1
<1>9. CASE QuotaTick
  <2>1. time' \in 0 .. MaxTime /\ UNCHANGED <<reservation, ledger, period, call>>
    BY <1>1, <1>9, QuotaAssumption DEF QuotaTick
  <2> QED BY <1>1, <1>4, <2>1
<1>10. CASE UNCHANGED quotaVars
  BY <1>1, <1>4, <1>10 DEF quotaVars
<1> QED BY <1>2, <1>3, <1>6, <1>7, <1>8, <1>9, <1>10 DEF QuotaNext

LEMMA QuotaStarts == QuotaInit => QuotaInv
<1> SUFFICES ASSUME QuotaInit PROVE QuotaInv
  OBVIOUS
<1>1. 0 \in Months
  <2>1. DayOf(MaxTime) \in Nat
    BY QuotaAssumption, QuotientsGrow DEF DayOf
  <2>2. MonthOf(MaxTime) \in Nat
    BY <2>1, QuotaAssumption, QuotientsGrow DEF MonthOf
  <2> QED BY <2>2 DEF Months
<1>2. QuotaTypeOK
  BY <1>1, QuotaAssumption DEF QuotaInit, QuotaTypeOK, Reservation, LedgerRow, Period
<1>3. Holding("settled") = {} /\ Holding("reserved") = {}
  BY DEF QuotaInit, Holding
<1>4. \A units : Total(units, {}) = 0
  <2>1. \A units : UNION {{q} \X (1 .. units[q]) : q \in {}} = {}
    OBVIOUS
  <2> QED BY <2>1, FS_EmptySet DEF Total
<1>5. \A m \in Months : period[m].consumed = 0 /\ period[m].reserved = 0
  BY DEF QuotaInit
<1>6. ConsumedIsLedger /\ ReservedCovers
  BY <1>2, <1>3, <1>4, <1>5 DEF ConsumedIsLedger, ReservedCovers, Charged, Estimated
<1> QED BY <1>3, <1>6 DEF QuotaInv

\* The month's totals agree with the rows under reserve, settle, release and the expiry
\* that each of them runs, for any number of calls, plans, prices and months.
THEOREM BalanceHolds == QuotaSpec => []AccountsBalance
<1>1. QuotaInv => AccountsBalance
  BY DEF QuotaInv, AccountsBalance
<1> QED BY <1>1, QuotaStarts, QuotaStep, PTL DEF QuotaSpec

\* A reservation is only made within the month's and the day's plan, everything held and
\* charged by other calls included; what has ended is not charged again (quota.ts 189-313).
THEOREM ChargesHold == QuotaSpec => ChargedWithinPlan
<1>1. QuotaInv => \A q \in Holding("settled") : ledger[q].units >= 1
  BY DEF QuotaInv
<1>2. QuotaInv /\ [QuotaNext]_quotaVars => QuotaInv' /\ [AdmitStep]_quotaVars /\ [EndStep]_quotaVars
  BY QuotaStep
<1>3. QuotaSpec => [][AdmitStep]_quotaVars /\ [][EndStep]_quotaVars /\ [](\A q \in Holding("settled") : ledger[q].units >= 1)
  BY <1>1, <1>2, QuotaStarts, PTL DEF QuotaSpec
<1> QED BY <1>3 DEF ChargedWithinPlan, AdmittedWithinPlan, ChargedOnce, AdmitStep, EndStep

-----------------------------------------------------------------------------
(* The browser session (browser-store.ts, browser-mode.ts) *)

BrowserTargets == BrowserRequests \cup {Navigate}
ActionsOrNone == BrowserActions \cup {NoAction}
SessionType == [state : {"ACTIVE", "PAUSED", "COMPLETED", "OUTCOME_UNKNOWN"}, pending : ActionsOrNone, count : Nat, broken : BOOLEAN]
EventTypes == {"approval.required", "approval.granted", "form.prepared", "page.opened", "action.reconciled"} \cup Attempts \cup Controls
BrowserEvents == [type : EventTypes, action : ActionsOrNone, request : BrowserTargets]
CallPcs == {"new", "prepare", "approve", "execute", "approved", "submit", "click", "record", "observe", "page", "reconcile", "done"} \cup Controls
CallType == [pc : CallPcs, request : BrowserTargets, action : ActionsOrNone, session : SessionType, readAt : Nat, checkedAt : Nat,
             result : Attempts \cup {"none"}]
PostType == [call : BrowserCalls, action : ActionsOrNone, request : BrowserTargets, readAt : Nat, checkedAt : Nat, recordedAt : Nat]

BrowserTypeOK ==
  /\ browserLog \in Seq(BrowserEvents)
  /\ browserCall \in [BrowserCalls -> CallType]
  /\ \A c \in BrowserCalls : browserCall[c].pc = "record" => browserCall[c].result \in Attempts
  /\ sessionLive \in BOOLEAN
  /\ posts \subseteq PostType

\* Up to n every unknown outcome was followed by what lets the session go on.
ClearedBy(log, n) ==
  \A u \in 1 .. n : log[u].type = "action.outcome_unknown" =>
    \E i \in (u + 1) .. n : log[i].type \in {"action.reconciled", "resume", "action.executed"}

\* Up to n there is no attempt of the action on record.
NotAttempted(log, a, n) == \A i \in 1 .. n : log[i].action = a => log[i].type \notin Attempts

\* The action and its request were asked for and then granted, by position n.
GrantedBy(log, a, r, n) ==
  \E i, j \in 1 .. n :
    /\ i < j /\ log[i].type = "approval.required" /\ log[j].type = "approval.granted"
    /\ log[i].action = a /\ log[j].action = a /\ log[i].request = r

GrantsAsked(log) ==
  \A j \in 1 .. Len(log) : log[j].type = "approval.granted" =>
    \E i \in 1 .. (j - 1) : log[i].type = "approval.required" /\ log[i].action = log[j].action /\ log[i].request = log[j].request

\* What a request in the middle of its work has seen.
CallTrue(b, log) ==
  /\ b.readAt <= Len(log) /\ b.checkedAt <= Len(log)
  /\ b.session.state = "ACTIVE" => ClearedBy(log, b.readAt)
  /\ b.pc \in {"approved", "submit", "click", "record"} /\ BrowserRisk(b.request.operation) = "high" =>
       NotAttempted(log, b.action, b.checkedAt)
  /\ b.pc \in {"submit", "click", "record"} =>
       /\ BrowserRisk(b.request.operation) = "high" /\ b.session.state = "ACTIVE"
       /\ GrantedBy(log, b.action, b.request, Len(log))

\* A request that has sent something goes on to record it, ...
PostCall(p, b) == b.pc \in {"record", "page", "done"} /\ (b.pc = "record" => b.action = p.action)
\* ... and this is what it had seen.
PostSeen(p, log) ==
  /\ p.readAt <= Len(log) /\ p.checkedAt <= Len(log)
  /\ ClearedBy(log, p.readAt) /\ NotAttempted(log, p.action, p.checkedAt)
  /\ p.recordedAt = 0 => GrantedBy(log, p.action, p.request, Len(log))
  /\ p.recordedAt # 0 =>
       /\ p.recordedAt <= Len(log) /\ log[p.recordedAt].type \in Attempts /\ log[p.recordedAt].action = p.action
       /\ GrantedBy(log, p.action, p.request, p.recordedAt - 1)

BrowserFacts ==
  /\ GrantsAsked(browserLog)
  /\ \A c \in BrowserCalls : CallTrue(browserCall[c], browserLog)
  /\ \A p \in posts : PostCall(p, browserCall[p.call]) /\ PostSeen(p, browserLog)

\* The facts hold as long as one read covers the log.
BrowserInv == BrowserTypeOK /\ (Len(browserLog) <= ReadLimit => BrowserFacts)

-----------------------------------------------------------------------------
\* The projection of a log, event after event.
FoldOf(f, log, n) == f = [i \in 0 .. n |-> IF i = 0 THEN NewSession ELSE ApplyBrowserEvent(f[i - 1], log[i])]

LEMMA LeastPosition ==
  ASSUME NEW S, S \subseteq Nat, S # {}
  PROVE  \E x \in S : \A y \in S : x <= y
<1> DEFINE R == OpToRel(<, Nat)
<1>1. PICK x \in S : \A y \in S : ~(<<y, x>> \in R)
  <2> HIDE DEF R
  <2>1. IsWellFoundedOn(R, Nat)
    BY NatLessThanWellFounded DEF R
  <2> QED BY <2>1, WFMin
<1>2. \A y \in S : y < x => <<y, x>> \in R
  BY DEF OpToRel
<1> HIDE DEF R
<1>3. \A y \in S : ~(y < x)
  BY <1>1, <1>2
<1> QED BY <1>3

LEMMA FoldOfExists ==
  ASSUME NEW log, NEW n \in Nat
  PROVE  \E f : FoldOf(f, log, n)
<1> DEFINE T == {m \in Nat : ~\E f : FoldOf(f, log, m)}
<1> SUFFICES ASSUME T # {} PROVE FALSE
  OBVIOUS
<1>1. PICK m \in T : \A y \in T : m <= y
  BY LeastPosition
<1>2. m # 0
  <2> DEFINE f == [i \in 0 .. 0 |-> NewSession]
  <2>1. FoldOf(f, log, 0)
    BY DEF FoldOf
  <2> QED BY <2>1
<1>3. PICK f : FoldOf(f, log, m - 1)
  <2>1. m - 1 \in Nat /\ m - 1 \notin T
    BY <1>1, <1>2
  <2> QED BY <2>1
<1> DEFINE g == [i \in 0 .. m |-> IF i = m THEN ApplyBrowserEvent(f[m - 1], log[m]) ELSE f[i]]
<1>4. ASSUME NEW i \in 0 .. m
      PROVE  g[i] = IF i = 0 THEN NewSession ELSE ApplyBrowserEvent(g[i - 1], log[i])
  <2>0. m \in Nat /\ i \in Nat
    OBVIOUS
  <2>1. CASE i = m
    <3>1. g[i - 1] = f[m - 1] /\ g[i] = ApplyBrowserEvent(f[m - 1], log[m])
      BY <1>2, <2>0, <2>1
    <3> QED BY <1>2, <2>1, <3>1
  <2>2. CASE i # m
    <3>1. i \in 0 .. m - 1 /\ g[i] = f[i]
      BY <2>0, <2>2
    <3>2. f[i] = IF i = 0 THEN NewSession ELSE ApplyBrowserEvent(f[i - 1], log[i])
      BY <1>3, <3>1 DEF FoldOf
    <3>3. i # 0 => g[i - 1] = f[i - 1]
      BY <2>0, <3>1
    <3> QED BY <3>1, <3>2, <3>3
  <2> QED BY <2>1, <2>2
<1>5. FoldOf(g, log, m)
  <2> DEFINE h == [i \in 0 .. m |-> IF i = 0 THEN NewSession ELSE ApplyBrowserEvent(g[i - 1], log[i])]
  <2>1. DOMAIN g = 0 .. m /\ DOMAIN h = 0 .. m /\ g = [i \in 0 .. m |-> g[i]]
    OBVIOUS
  <2>2. \A i \in 0 .. m : g[i] = h[i]
    BY <1>4
  <2> HIDE DEF g
  <2>3. g = h
    BY <2>1, <2>2
  <2> QED BY <2>3 DEF FoldOf
<1> QED BY <1>1, <1>5

LEMMA ProjectedSteps ==
  ASSUME NEW log, Len(log) \in Nat
  PROVE  /\ Projected(log)[0] = NewSession
         /\ \A n \in 1 .. Len(log) : Projected(log)[n] = ApplyBrowserEvent(Projected(log)[n - 1], log[n])
<1>1. \E f : FoldOf(f, log, Len(log))
  BY FoldOfExists
<1>2. Projected(log) = CHOOSE f : FoldOf(f, log, Len(log))
  BY DEF Projected, FoldOf
<1>3. FoldOf(Projected(log), log, Len(log))
  BY <1>1, <1>2
<1> QED BY <1>3 DEF FoldOf

\* One event: a session that is active after it was active before it and the event is no
\* unknown outcome, or the event lets it go on.
LEMMA SessionStep ==
  ASSUME NEW s \in SessionType, NEW e \in BrowserEvents, sessionLive \in BOOLEAN
  PROVE  /\ ApplyBrowserEvent(s, e) \in SessionType
         /\ ApplyBrowserEvent(s, e).state = "ACTIVE" =>
              \/ e.type \in {"action.reconciled", "resume", "action.executed"}
              \/ s.state = "ACTIVE" /\ e.type # "action.outcome_unknown"
<1>0. e.action \in ActionsOrNone /\ NoAction \in ActionsOrNone /\ s.count + 1 \in Nat /\ (s.broken \/ ~Usable(s)) \in BOOLEAN
  BY DEF BrowserEvents, SessionType, ActionsOrNone, Usable
<1>1. CASE e.type = "page.opened"
  <2>1. ApplyBrowserEvent(s, e) = [s EXCEPT !.broken = @ \/ ~Usable(s)]
    BY <1>1 DEF ApplyBrowserEvent
  <2> QED BY <1>0, <1>1, <2>1 DEF SessionType
<1>2. CASE e.type \in Attempts
  BY <1>0, <1>2 DEF ApplyBrowserEvent, SessionType, Attempts
<1>3. CASE e.type \in Controls \cup {"action.reconciled"}
  BY <1>0, <1>3 DEF ApplyBrowserEvent, SessionType, Controls
<1>4. CASE e.type \notin {"page.opened", "action.reconciled"} \cup Attempts \cup Controls
  <2>1. ApplyBrowserEvent(s, e) = s
    BY <1>4 DEF ApplyBrowserEvent, Attempts, Controls
  <2> QED BY <1>4, <2>1 DEF Attempts, Controls
<1> QED BY <1>1, <1>2, <1>3, <1>4

\* A session that reads as active has no unknown outcome left.
LEMMA ActiveIsCleared ==
  ASSUME NEW log \in Seq(BrowserEvents), sessionLive \in BOOLEAN
  PROVE  /\ Projected(log)[Len(log)] \in SessionType
         /\ Projected(log)[Len(log)].state = "ACTIVE" => ClearedBy(log, Len(log))
<1> DEFINE F == Projected(log)
           Good(n) == F[n] \in SessionType /\ (F[n].state = "ACTIVE" => ClearedBy(log, n))
           T == {n \in 0 .. Len(log) : ~Good(n)}
<1>1. Len(log) \in Nat /\ \A n \in 1 .. Len(log) : log[n] \in BrowserEvents
  OBVIOUS
<1>2. F[0] = NewSession /\ \A n \in 1 .. Len(log) : F[n] = ApplyBrowserEvent(F[n - 1], log[n])
  BY <1>1, ProjectedSteps
<1> HIDE DEF F
<1>3. T = {}
  <2> SUFFICES ASSUME T # {} PROVE FALSE
    OBVIOUS
  <2>1. PICK m \in T : \A y \in T : m <= y
    <3>1. T \subseteq Nat
      OBVIOUS
    <3> HIDE DEF T
    <3> QED BY <3>1, LeastPosition
  <2>2. Good(0)
    BY <1>2 DEF NewSession, SessionType, ActionsOrNone, ClearedBy
  <2>3. m \in 1 .. Len(log) /\ m - 1 \in 0 .. Len(log) /\ m - 1 \notin T
    BY <1>1, <2>1, <2>2
  <2>4. Good(m - 1)
    BY <2>3
  <2>5. F[m] = ApplyBrowserEvent(F[m - 1], log[m]) /\ log[m] \in BrowserEvents
    BY <1>1, <1>2, <2>3
  <2>6. F[m] \in SessionType
    BY <2>4, <2>5, SessionStep
  <2>7. ASSUME F[m].state = "ACTIVE" PROVE ClearedBy(log, m)
    <3>1. \/ log[m].type \in {"action.reconciled", "resume", "action.executed"}
          \/ F[m - 1].state = "ACTIVE" /\ log[m].type # "action.outcome_unknown"
      BY <2>4, <2>5, <2>7, SessionStep
    <3>2. CASE log[m].type \in {"action.reconciled", "resume", "action.executed"}
      BY <2>3, <3>2 DEF ClearedBy
    <3>3. CASE F[m - 1].state = "ACTIVE" /\ log[m].type # "action.outcome_unknown"
      <4>1. ClearedBy(log, m - 1)
        BY <2>4, <3>3
      <4> QED BY <2>3, <3>3, <4>1 DEF ClearedBy
    <3> QED BY <3>1, <3>2, <3>3
  <2>8. Good(m)
    BY <2>6, <2>7
  <2> QED BY <2>1, <2>8
<1>4. Len(log) \in 0 .. Len(log)
  BY <1>1
<1>5. Good(Len(log))
  BY <1>3, <1>4
<1> QED BY <1>5 DEF F

-----------------------------------------------------------------------------
\* What was seen of a log stays true of a longer one.
LEMMA LogGrows ==
  ASSUME NEW log \in Seq(BrowserEvents), NEW e \in BrowserEvents
  PROVE  /\ Append(log, e) \in Seq(BrowserEvents) /\ Len(Append(log, e)) = Len(log) + 1 /\ Len(log) \in Nat
         /\ Append(log, e)[Len(log) + 1] = e
         /\ \A i \in 1 .. Len(log) : Append(log, e)[i] = log[i]
OBVIOUS

LEMMA SeenStaysTrue ==
  ASSUME NEW log \in Seq(BrowserEvents), NEW e \in BrowserEvents, NEW log2, log2 = Append(log, e)
  PROVE  /\ \A n \in 0 .. Len(log) : ClearedBy(log, n) => ClearedBy(log2, n)
         /\ \A a : \A n \in 0 .. Len(log) : NotAttempted(log, a, n) => NotAttempted(log2, a, n)
         /\ \A a, r : \A n \in 0 .. Len(log) : GrantedBy(log, a, r, n) => GrantedBy(log2, a, r, n)
         /\ \A a, r : GrantedBy(log, a, r, Len(log)) => GrantedBy(log2, a, r, Len(log2))
<1>1. /\ Len(log) \in Nat /\ Len(log2) = Len(log) + 1
      /\ \A i \in 1 .. Len(log) : log2[i] = log[i]
  BY LogGrows
<1>2. ASSUME NEW n \in 0 .. Len(log) PROVE \A i \in 1 .. n : log2[i] = log[i]
  BY <1>1
<1>3. \A n \in 0 .. Len(log) : ClearedBy(log, n) => ClearedBy(log2, n)
  <2> SUFFICES ASSUME NEW n \in 0 .. Len(log), ClearedBy(log, n), NEW u \in 1 .. n, log2[u].type = "action.outcome_unknown"
               PROVE  \E i \in (u + 1) .. n : log2[i].type \in {"action.reconciled", "resume", "action.executed"}
    BY DEF ClearedBy
  <2>1. PICK i \in (u + 1) .. n : log[i].type \in {"action.reconciled", "resume", "action.executed"}
    BY <1>2 DEF ClearedBy
  <2>2. i \in 1 .. n
    BY <1>1
  <2> QED BY <1>2, <2>1, <2>2
<1>4. \A a : \A n \in 0 .. Len(log) : NotAttempted(log, a, n) => NotAttempted(log2, a, n)
  BY <1>2 DEF NotAttempted
<1>5. \A a, r : \A n \in 0 .. Len(log) : GrantedBy(log, a, r, n) => GrantedBy(log2, a, r, n)
  BY <1>2 DEF GrantedBy
<1>6. ASSUME NEW a, NEW r, GrantedBy(log, a, r, Len(log)) PROVE GrantedBy(log2, a, r, Len(log2))
  <2>1. Len(log) \in 0 .. Len(log)
    BY <1>1
  <2>2. GrantedBy(log2, a, r, Len(log))
    BY <1>5, <1>6, <2>1
  <2>3. \A i \in 1 .. Len(log) : i \in 1 .. Len(log2)
    BY <1>1
  <2> QED BY <2>2, <2>3 DEF GrantedBy
<1> QED BY <1>3, <1>4, <1>5, <1>6

LEMMA CallStaysTrue ==
  ASSUME NEW log \in Seq(BrowserEvents), NEW e \in BrowserEvents, NEW log2, log2 = Append(log, e),
         NEW b \in CallType, CallTrue(b, log)
  PROVE  CallTrue(b, log2)
<1>1. Len(log) \in Nat /\ Len(log2) = Len(log) + 1
  BY LogGrows
<1>2. b.readAt \in 0 .. Len(log) /\ b.checkedAt \in 0 .. Len(log) /\ b.readAt <= Len(log2) /\ b.checkedAt <= Len(log2)
  BY <1>1 DEF CallTrue, CallType
<1>3. /\ ClearedBy(log, b.readAt) => ClearedBy(log2, b.readAt)
      /\ NotAttempted(log, b.action, b.checkedAt) => NotAttempted(log2, b.action, b.checkedAt)
      /\ GrantedBy(log, b.action, b.request, Len(log)) => GrantedBy(log2, b.action, b.request, Len(log2))
  BY <1>2, SeenStaysTrue
<1> QED BY <1>2, <1>3 DEF CallTrue

LEMMA PostStaysTrue ==
  ASSUME NEW log \in Seq(BrowserEvents), NEW e \in BrowserEvents, NEW log2, log2 = Append(log, e),
         NEW p \in PostType, PostSeen(p, log)
  PROVE  PostSeen(p, log2)
<1>1. Len(log) \in Nat /\ Len(log2) = Len(log) + 1 /\ \A i \in 1 .. Len(log) : log2[i] = log[i]
  BY LogGrows
<1>2. p.readAt \in 0 .. Len(log) /\ p.checkedAt \in 0 .. Len(log) /\ p.readAt <= Len(log2) /\ p.checkedAt <= Len(log2)
  BY <1>1 DEF PostSeen, PostType
<1>3. ClearedBy(log2, p.readAt) /\ NotAttempted(log2, p.action, p.checkedAt)
  BY <1>2, SeenStaysTrue DEF PostSeen
<1>4. p.recordedAt = 0 => GrantedBy(log2, p.action, p.request, Len(log2))
  BY SeenStaysTrue DEF PostSeen
<1>5. ASSUME p.recordedAt # 0
      PROVE  /\ p.recordedAt <= Len(log2) /\ log2[p.recordedAt].type \in Attempts /\ log2[p.recordedAt].action = p.action
             /\ GrantedBy(log2, p.action, p.request, p.recordedAt - 1)
  <2>1. p.recordedAt \in 1 .. Len(log) /\ p.recordedAt - 1 \in 0 .. Len(log)
    BY <1>1, <1>5 DEF PostSeen, PostType
  <2>2. GrantedBy(log, p.action, p.request, p.recordedAt - 1)
    BY <1>5 DEF PostSeen
  <2>3. GrantedBy(log2, p.action, p.request, p.recordedAt - 1)
    <3>1. ASSUME NEW n \in 0 .. Len(log), GrantedBy(log, p.action, p.request, n) PROVE GrantedBy(log2, p.action, p.request, n)
      BY <3>1, SeenStaysTrue
    <3> QED BY <2>1, <2>2, <3>1
  <2>4. log[p.recordedAt].type \in Attempts /\ log[p.recordedAt].action = p.action
    BY <1>5 DEF PostSeen
  <2> QED BY <1>1, <2>1, <2>3, <2>4
<1> QED BY <1>2, <1>3, <1>4, <1>5 DEF PostSeen

\* A grant is only written for what was asked for.
GrantFollows(log, e) == e.type = "approval.granted" =>
  \E i \in 1 .. Len(log) : log[i].type = "approval.required" /\ log[i].action = e.action /\ log[i].request = e.request

LEMMA GrantsStayAsked ==
  ASSUME NEW log \in Seq(BrowserEvents), NEW e \in BrowserEvents, NEW log2, log2 = Append(log, e),
         GrantsAsked(log), GrantFollows(log, e)
  PROVE  GrantsAsked(log2)
<1>1. /\ Len(log) \in Nat /\ Len(log2) = Len(log) + 1 /\ log2[Len(log) + 1] = e
      /\ \A i \in 1 .. Len(log) : log2[i] = log[i]
  BY LogGrows
<1> SUFFICES ASSUME NEW j \in 1 .. Len(log2), log2[j].type = "approval.granted"
             PROVE  \E i \in 1 .. (j - 1) : log2[i].type = "approval.required" /\ log2[i].action = log2[j].action /\ log2[i].request = log2[j].request
  BY DEF GrantsAsked
<1>2. CASE j = Len(log) + 1
  <2>1. PICK i \in 1 .. Len(log) : log[i].type = "approval.required" /\ log[i].action = e.action /\ log[i].request = e.request
    BY <1>1, <1>2 DEF GrantFollows
  <2>2. i \in 1 .. (j - 1)
    BY <1>1, <1>2
  <2> QED BY <1>1, <1>2, <2>1, <2>2
<1>3. CASE j # Len(log) + 1
  <2>1. j \in 1 .. Len(log) /\ log2[j] = log[j]
    BY <1>1, <1>3
  <2>2. PICK i \in 1 .. (j - 1) : log[i].type = "approval.required" /\ log[i].action = log[j].action /\ log[i].request = log[j].request
    BY <2>1 DEF GrantsAsked
  <2>3. log2[i] = log[i]
    BY <1>1, <2>1
  <2> QED BY <2>1, <2>2, <2>3
<1> QED BY <1>2, <1>3

\* The log of the step: the one before it, or with one event more.
LogStep ==
  \/ browserLog' = browserLog
  \/ \E e \in BrowserEvents : browserLog' = Append(browserLog, e) /\ (Len(browserLog) <= ReadLimit => GrantFollows(browserLog, e))

LEMMA FactsCarried ==
  ASSUME BrowserInv, LogStep
  PROVE  /\ browserLog' \in Seq(BrowserEvents)
         /\ Len(browserLog') <= ReadLimit =>
              /\ Len(browserLog) <= ReadLimit
              /\ GrantsAsked(browserLog')
              /\ \A c \in BrowserCalls : CallTrue(browserCall[c], browserLog')
              /\ \A p \in posts : PostCall(p, browserCall[p.call]) /\ PostSeen(p, browserLog')
<1>1. browserLog \in Seq(BrowserEvents) /\ (\A c \in BrowserCalls : browserCall[c] \in CallType) /\ (\A p \in posts : p \in PostType)
  BY DEF BrowserInv, BrowserTypeOK
<1>2. CASE browserLog' = browserLog
  BY <1>1, <1>2 DEF BrowserInv, BrowserFacts
<1>3. CASE \E e \in BrowserEvents : browserLog' = Append(browserLog, e) /\ (Len(browserLog) <= ReadLimit => GrantFollows(browserLog, e))
  <2>1. PICK e \in BrowserEvents : browserLog' = Append(browserLog, e) /\ (Len(browserLog) <= ReadLimit => GrantFollows(browserLog, e))
    BY <1>3
  <2>2. browserLog' \in Seq(BrowserEvents) /\ Len(browserLog') = Len(browserLog) + 1 /\ Len(browserLog) \in Nat
    BY <1>1, <2>1, LogGrows
  <2>3. ASSUME Len(browserLog') <= ReadLimit
        PROVE  /\ Len(browserLog) <= ReadLimit
               /\ GrantsAsked(browserLog')
               /\ \A c \in BrowserCalls : CallTrue(browserCall[c], browserLog')
               /\ \A p \in posts : PostCall(p, browserCall[p.call]) /\ PostSeen(p, browserLog')
    <3>1. Len(browserLog) <= ReadLimit
      BY <2>2, <2>3, BrowserLimits
    <3>2. BrowserFacts
      BY <3>1 DEF BrowserInv
    <3>3. GrantsAsked(browserLog')
      BY <1>1, <2>1, <3>1, <3>2, GrantsStayAsked DEF BrowserFacts
    <3>4. \A c \in BrowserCalls : CallTrue(browserCall[c], browserLog')
      BY <1>1, <2>1, <3>2, CallStaysTrue DEF BrowserFacts
    <3>5. \A p \in posts : PostCall(p, browserCall[p.call]) /\ PostSeen(p, browserLog')
      BY <1>1, <2>1, <3>2, PostStaysTrue DEF BrowserFacts
    <3> QED BY <3>1, <3>3, <3>4, <3>5
  <2> QED BY <2>2, <2>3
<1> QED BY <1>2, <1>3 DEF LogStep

\* One request moves; what the others sent stays.
LEMMA RequestMoves ==
  ASSUME BrowserInv, LogStep, NEW c \in BrowserCalls, NEW b \in CallType, Moves(c, b), b.pc = "record" => b.result \in Attempts,
         sessionLive' \in BOOLEAN, posts' \subseteq PostType,
         \A p \in posts' : p.call # c => p \in posts,
         Len(browserLog') <= ReadLimit =>
           CallTrue(b, browserLog') /\ \A p \in posts' : p.call = c => PostCall(p, b) /\ PostSeen(p, browserLog')
  PROVE  BrowserInv'
<1>1. browserCall \in [BrowserCalls -> CallType] /\ browserCall' = [browserCall EXCEPT ![c] = b]
  BY DEF BrowserInv, BrowserTypeOK, Moves
<1>2. /\ browserCall' \in [BrowserCalls -> CallType] /\ browserCall'[c] = b
      /\ \A d \in BrowserCalls \ {c} : browserCall'[d] = browserCall[d]
  BY <1>1
<1>3. BrowserTypeOK'
  <2>1. \A d \in BrowserCalls : browserCall'[d].pc = "record" => browserCall'[d].result \in Attempts
    BY <1>2 DEF BrowserInv, BrowserTypeOK
  <2> QED BY <1>2, <2>1, FactsCarried DEF BrowserInv, BrowserTypeOK
<1>4. ASSUME Len(browserLog') <= ReadLimit PROVE BrowserFacts'
  <2>1. GrantsAsked(browserLog')
    BY <1>4, FactsCarried
  <2>2. ASSUME NEW d \in BrowserCalls PROVE CallTrue(browserCall'[d], browserLog')
    <3>1. CASE d = c
      BY <1>2, <1>4, <3>1
    <3>2. CASE d # c
      BY <1>2, <1>4, <3>2, FactsCarried
    <3> QED BY <3>1, <3>2
  <2>3. ASSUME NEW p \in posts' PROVE PostCall(p, browserCall'[p.call]) /\ PostSeen(p, browserLog')
    <3>1. p.call \in BrowserCalls
      BY DEF PostType
    <3>2. CASE p.call = c
      BY <1>2, <1>4, <3>2
    <3>3. CASE p.call # c
      <4>1. p \in posts /\ browserCall'[p.call] = browserCall[p.call]
        BY <1>2, <3>1, <3>3
      <4> QED BY <1>4, <4>1, FactsCarried
    <3> QED BY <3>2, <3>3
  <2> QED BY <2>1, <2>2, <2>3 DEF BrowserFacts
<1> QED BY <1>3, <1>4 DEF BrowserInv

\* One request moves and sends nothing.
LEMMA OneMoves ==
  ASSUME BrowserInv, LogStep, NEW c \in BrowserCalls, NEW b \in CallType, Moves(c, b), b.pc = "record" => b.result \in Attempts,
         sessionLive' \in BOOLEAN, posts' = posts,
         b.pc \in {"page", "done"} \/ browserCall[c].pc \notin {"record", "page", "done"},
         Len(browserLog') <= ReadLimit => CallTrue(b, browserLog')
  PROVE  BrowserInv'
<1>1. posts' \subseteq PostType /\ \A p \in posts' : p.call # c => p \in posts
  BY DEF BrowserInv, BrowserTypeOK
<1>2. ASSUME Len(browserLog') <= ReadLimit, NEW p \in posts', p.call = c
      PROVE  PostCall(p, b) /\ PostSeen(p, browserLog')
  <2>1. PostCall(p, browserCall[c]) /\ PostSeen(p, browserLog')
    BY <1>2, FactsCarried
  <2>2. b.pc \in {"page", "done"}
    BY <2>1 DEF PostCall
  <2> QED BY <2>1, <2>2 DEF PostCall
<1> QED BY <1>1, <1>2, RequestMoves

-----------------------------------------------------------------------------
\* What one read of the log returns.
LEMMA ReadIsLog ==
  ASSUME BrowserInv
  PROVE  /\ Readable \in Seq(BrowserEvents)
         /\ Len(browserLog) <= ReadLimit => Readable = browserLog
         /\ Session \in SessionType
         /\ Len(browserLog) <= ReadLimit /\ Session.state = "ACTIVE" => ClearedBy(browserLog, Len(browserLog))
<1>1. browserLog \in Seq(BrowserEvents) /\ sessionLive \in BOOLEAN /\ ReadLimit \in Nat
  BY BrowserLimits DEF BrowserInv, BrowserTypeOK
<1>2. Readable \in Seq(BrowserEvents)
  BY <1>1 DEF Readable
<1>3. Len(browserLog) <= ReadLimit => Readable = browserLog
  BY DEF Readable
<1>4. Session \in SessionType /\ (Session.state = "ACTIVE" => ClearedBy(Readable, Len(Readable)))
  BY <1>1, <1>2, ActiveIsCleared DEF Session
<1> QED BY <1>2, <1>3, <1>4

LEMMA ServedTrue ==
  /\ NewCall \in CallType /\ Served \in CallType /\ Served.pc = "done"
  /\ \A log \in Seq(BrowserEvents) : CallTrue(Served, log) /\ CallTrue(NewCall, log)
<1>1. NewCall \in CallType /\ Served \in CallType
  <2>1. NewSession \in SessionType
    BY DEF NewSession, SessionType, ActionsOrNone
  <2>2. NoAction \in ActionsOrNone /\ Navigate \in BrowserTargets
    BY DEF ActionsOrNone, BrowserTargets
  <2>3. "new" \in CallPcs /\ "done" \in CallPcs /\ "none" \in Attempts \cup {"none"} /\ 0 \in Nat
    BY DEF CallPcs
  <2>4. NewCall \in CallType
    BY <2>1, <2>2, <2>3 DEF NewCall, CallType
  <2>5. Served \in CallType
    BY <2>3, <2>4 DEF Served, CallType
  <2> QED BY <2>4, <2>5
<1>2. Served.pc = "done" /\ Served.readAt = 0 /\ Served.checkedAt = 0 /\ NewCall.pc = "new" /\ NewCall.readAt = 0 /\ NewCall.checkedAt = 0
  BY DEF NewCall, Served
<1>3. ASSUME NEW log \in Seq(BrowserEvents) PROVE CallTrue(Served, log) /\ CallTrue(NewCall, log)
  <2>1. Len(log) \in Nat /\ ClearedBy(log, 0)
    BY DEF ClearedBy
  <2> QED BY <1>2, <2>1 DEF CallTrue
<1> QED BY <1>1, <1>2, <1>3

\* A request is served, with or without one more event.
LEMMA OneServed ==
  ASSUME BrowserInv, LogStep, NEW c \in BrowserCalls, Fails(c), sessionLive' \in BOOLEAN, posts' = posts
  PROVE  BrowserInv'
<1>1. Served \in CallType /\ Served.pc = "done" /\ Moves(c, Served)
  BY ServedTrue DEF Fails
<1>2. browserLog' \in Seq(BrowserEvents)
  BY FactsCarried
<1>3. CallTrue(Served, browserLog')
  BY <1>2, ServedTrue
<1> HIDE DEF Served
<1> QED BY <1>1, <1>3, OneMoves

LEMMA CallTyped ==
  ASSUME BrowserInv, NEW c \in BrowserCalls
  PROVE  /\ browserCall[c] \in CallType /\ browserCall[c].pc \in CallPcs /\ browserCall[c].request \in BrowserTargets
         /\ browserCall[c].action \in ActionsOrNone /\ browserCall[c].session \in SessionType
         /\ browserLog \in Seq(BrowserEvents) /\ Len(browserLog) \in Nat /\ sessionLive \in BOOLEAN
         /\ Len(browserLog) <= ReadLimit => CallTrue(browserCall[c], browserLog)
BY DEF BrowserInv, BrowserTypeOK, BrowserFacts, CallType

LEMMA EmittedStep ==
  ASSUME BrowserInv, NEW type \in EventTypes, NEW a \in ActionsOrNone, NEW r \in BrowserTargets, Emits(type, a, r),
         type # "approval.granted"
  PROVE  LogStep
<1> DEFINE e == [type |-> type, action |-> a, request |-> r]
<1>1. e \in BrowserEvents /\ e.type # "approval.granted" /\ browserLog' = Append(browserLog, e)
  BY DEF BrowserEvents, Emits
<1> HIDE DEF e
<1> QED BY <1>1 DEF LogStep, GrantFollows

LEMMA ReadSessionInv ==
  ASSUME BrowserInv, NEW c \in BrowserCalls, NEW op \in CallPcs, NEW r \in BrowserTargets, NEW a \in ActionsOrNone,
         op \notin {"approved", "submit", "click", "record"}, ReadSession(c, op, r, a)
  PROVE  BrowserInv'
<1>1. browserLog' = browserLog /\ LogStep /\ posts' = posts /\ sessionLive' \in BOOLEAN /\ browserCall[c].pc = "new"
  BY DEF ReadSession, LogStep, BrowserInv, BrowserTypeOK
<1>2. CASE Session.broken
  <2>1. Fails(c)
    BY <1>2 DEF ReadSession, Fails
  <2> QED BY <1>1, <2>1, OneServed
<1>3. CASE ~Session.broken
  <2>1. PICK b : b = [NewCall EXCEPT !.pc = op, !.request = r, !.action = a, !.session = Session, !.readAt = Len(browserLog)]
    OBVIOUS
  <2>2. Moves(c, b)
    BY <1>3, <2>1 DEF ReadSession
  <2>3. Session \in SessionType /\ Len(browserLog) \in Nat /\ NewCall \in CallType
    BY ReadIsLog, CallTyped, ServedTrue
  <2>4. b \in CallType
    BY <2>1, <2>3 DEF CallType
  <2>5. b.pc = op /\ b.session = Session /\ b.readAt = Len(browserLog) /\ b.checkedAt = 0
    BY <2>1 DEF NewCall
  <2>6. Len(browserLog) <= ReadLimit => CallTrue(b, browserLog)
    BY <2>3, <2>5, ReadIsLog DEF CallTrue
  <2>7. browserCall[c].pc \notin {"record", "page", "done"}
    BY <1>1
  <2>8. b.pc # "record"
    BY <2>5
  <2> QED BY <1>1, <2>2, <2>4, <2>6, <2>7, <2>8, OneMoves
<1> QED BY <1>2, <1>3

LEMMA PrepareInv ==
  ASSUME BrowserInv, NEW c \in BrowserCalls, Prepare(c)
  PROVE  BrowserInv'
<1>1. Fails(c) /\ posts' = posts /\ sessionLive' \in BOOLEAN
  BY DEF Prepare, BrowserInv, BrowserTypeOK
<1>2. browserLog' = browserLog \/ Emits("approval.required", browserCall[c].action, browserCall[c].request)
  BY DEF Prepare
<1>3. LogStep
  <2>1. browserCall[c].action \in ActionsOrNone /\ browserCall[c].request \in BrowserTargets
    BY CallTyped
  <2>2. Emits("approval.required", browserCall[c].action, browserCall[c].request) => LogStep
    <3>1. "approval.required" \in EventTypes
      BY DEF EventTypes
    <3> QED BY <2>1, <3>1, EmittedStep
  <2>3. browserLog' = browserLog => LogStep
    BY DEF LogStep
  <2> QED BY <1>2, <2>2, <2>3
<1> QED BY <1>1, <1>3, OneServed

LEMMA ApproveInv ==
  ASSUME BrowserInv, NEW c \in BrowserCalls, Approve(c)
  PROVE  BrowserInv'
<1> DEFINE a == browserCall[c].action
<1>1. Fails(c) /\ posts' = posts /\ sessionLive' \in BOOLEAN
  BY DEF Approve, BrowserInv, BrowserTypeOK
<1>2. ASSUME browserLog' # browserLog
      PROVE  \E i \in Recorded("approval.required", a) : Emits("approval.granted", a, browserLog[i].request)
  BY <1>2 DEF Approve
<1>3. ASSUME browserLog' # browserLog PROVE LogStep
  <2>1. PICK i \in Recorded("approval.required", a) : Emits("approval.granted", a, browserLog[i].request)
    BY <1>2, <1>3
  <2>2. i \in DOMAIN Readable /\ Readable[i].type = "approval.required" /\ Readable[i].action = a
    BY DEF Recorded
  <2>3. i \in 1 .. Len(browserLog) /\ Readable[i] = browserLog[i]
    BY <2>2, CallTyped, BrowserLimits DEF Readable
  <2> DEFINE e == [type |-> "approval.granted", action |-> a, request |-> browserLog[i].request]
  <2>4. browserLog[i] \in BrowserEvents /\ a \in ActionsOrNone
    BY <2>3, CallTyped
  <2>5. e \in BrowserEvents /\ browserLog' = Append(browserLog, e)
    <3>1. browserLog[i].request \in BrowserTargets /\ "approval.granted" \in EventTypes
      BY <2>4 DEF BrowserEvents, EventTypes
    <3>2. e \in BrowserEvents
      BY <2>4, <3>1 DEF BrowserEvents
    <3> QED BY <2>1, <3>2 DEF Emits
  <2>6. GrantFollows(browserLog, e)
    BY <2>2, <2>3 DEF GrantFollows
  <2> HIDE DEF e
  <2> QED BY <2>5, <2>6 DEF LogStep
<1>4. LogStep
  BY <1>3 DEF LogStep
<1> QED BY <1>1, <1>4, OneServed

LEMMA CheckAttemptsInv ==
  ASSUME BrowserInv, NEW c \in BrowserCalls, CheckAttempts(c)
  PROVE  BrowserInv'
<1>1. browserLog' = browserLog /\ LogStep /\ posts' = posts /\ sessionLive' \in BOOLEAN /\ browserCall[c].pc = "execute"
  BY DEF CheckAttempts, LogStep, BrowserInv, BrowserTypeOK
<1>2. PICK b : b = [browserCall[c] EXCEPT !.pc = "approved", !.checkedAt = Len(browserLog)]
  OBVIOUS
<1>3. CASE Fails(c)
  BY <1>1, <1>3, OneServed
<1>4. CASE /\ Moves(c, b)
           /\ BrowserRisk(browserCall[c].request.operation) = "high" => Unattempted(browserCall[c].action)
  <2>1. b \in CallType
    <3>1. browserCall[c] \in CallType /\ Len(browserLog) \in Nat
      BY CallTyped
    <3>2. "approved" \in CallPcs
      BY DEF CallPcs
    <3> QED BY <1>2, <3>1, <3>2 DEF CallType
  <2>2. /\ b.pc = "approved" /\ b.checkedAt = Len(browserLog) /\ b.request = browserCall[c].request
        /\ b.action = browserCall[c].action /\ b.session = browserCall[c].session /\ b.readAt = browserCall[c].readAt
    BY <1>2, CallTyped DEF CallType
  <2>3. ASSUME Len(browserLog) <= ReadLimit, Unattempted(browserCall[c].action)
        PROVE  NotAttempted(browserLog, browserCall[c].action, Len(browserLog))
    <3>1. Readable = browserLog /\ DOMAIN browserLog = 1 .. Len(browserLog)
      BY <2>3, ReadIsLog, CallTyped
    <3> QED BY <2>3, <3>1 DEF Unattempted, Recorded, NotAttempted
  <2>4. ASSUME Len(browserLog) <= ReadLimit PROVE CallTrue(b, browserLog)
    <3>1. CallTrue(browserCall[c], browserLog) /\ Len(browserLog) \in Nat
      BY <2>4, CallTyped
    <3>2. BrowserRisk(b.request.operation) = "high" => NotAttempted(browserLog, b.action, b.checkedAt)
      BY <1>4, <2>2, <2>3, <2>4
    <3> QED BY <2>2, <3>1, <3>2 DEF CallTrue
  <2>5. browserCall[c].pc \notin {"record", "page", "done"}
    BY <1>1
  <2>6. b.pc # "record"
    BY <2>2
  <2> QED BY <1>1, <1>4, <2>1, <2>4, <2>5, <2>6, OneMoves
<1> QED BY <1>2, <1>3, <1>4 DEF CheckAttempts

LEMMA CheckGrantInv ==
  ASSUME BrowserInv, NEW c \in BrowserCalls, CheckGrant(c)
  PROVE  BrowserInv'
<1> DEFINE op == browserCall[c].request.operation
<1>1. posts' = posts /\ sessionLive' \in BOOLEAN /\ browserCall[c].pc = "approved"
  BY DEF CheckGrant, BrowserInv, BrowserTypeOK
<1>2. LogStep
  <2>1. browserLog' = browserLog \/ Emits("form.prepared", browserCall[c].action, browserCall[c].request)
    BY DEF CheckGrant
  <2>2. browserCall[c].action \in ActionsOrNone /\ browserCall[c].request \in BrowserTargets
    BY CallTyped
  <2>3. Emits("form.prepared", browserCall[c].action, browserCall[c].request) => LogStep
    <3>1. "form.prepared" \in EventTypes
      BY DEF EventTypes
    <3> QED BY <2>2, <3>1, EmittedStep
  <2>4. browserLog' = browserLog => LogStep
    BY DEF LogStep
  <2> QED BY <2>1, <2>3, <2>4
<1>3. PICK b : b = [browserCall[c] EXCEPT !.pc = op]
  OBVIOUS
<1>4. CASE Fails(c)
  BY <1>1, <1>2, <1>4, OneServed
<1>5. CASE /\ Moves(c, b) /\ op \in {"click", "submit"} /\ Authorized(browserCall[c].session, op) /\ browserLog' = browserLog
           /\ BrowserRisk(op) = "high" => Granted(browserCall[c].action, browserCall[c].request)
  <2>1. b \in CallType
    <3>1. browserCall[c] \in CallType
      BY CallTyped
    <3>2. op \in CallPcs
      BY <1>5 DEF CallPcs
    <3> HIDE DEF op
    <3> QED BY <1>3, <3>1, <3>2 DEF CallType
  <2>2. /\ b.pc = op /\ b.checkedAt = browserCall[c].checkedAt /\ b.request = browserCall[c].request
        /\ b.action = browserCall[c].action /\ b.session = browserCall[c].session /\ b.readAt = browserCall[c].readAt
    BY <1>3, CallTyped DEF CallType
  <2>3. BrowserRisk(op) = "high"
    BY <1>5 DEF BrowserRisk, HighRisk
  <2>4. browserCall[c].session.state = "ACTIVE"
    BY <1>5, CallTyped DEF Authorized, Usable, SessionType
  <2>5. ASSUME Len(browserLog) <= ReadLimit
        PROVE  GrantedBy(browserLog, browserCall[c].action, browserCall[c].request, Len(browserLog))
    <3>1. Readable = browserLog /\ DOMAIN browserLog = 1 .. Len(browserLog) /\ Len(browserLog) \in Nat /\ GrantsAsked(browserLog)
      BY <2>5, ReadIsLog, CallTyped DEF BrowserInv, BrowserFacts
    <3>2. PICK j \in 1 .. Len(browserLog) : /\ browserLog[j].type = "approval.granted" /\ browserLog[j].action = browserCall[c].action
                                            /\ browserLog[j].request = browserCall[c].request
      BY <1>5, <2>3, <3>1 DEF Granted, Recorded
    <3>3. PICK i \in 1 .. (j - 1) : /\ browserLog[i].type = "approval.required" /\ browserLog[i].action = browserLog[j].action
                                    /\ browserLog[i].request = browserLog[j].request
      BY <3>1, <3>2 DEF GrantsAsked
    <3>4. i \in 1 .. Len(browserLog) /\ i < j
      BY <3>1
    <3> QED BY <3>2, <3>3, <3>4 DEF GrantedBy
  <2>6. ASSUME Len(browserLog) <= ReadLimit PROVE CallTrue(b, browserLog)
    <3>1. CallTrue(browserCall[c], browserLog)
      BY <2>6, CallTyped
    <3>2. NotAttempted(browserLog, b.action, b.checkedAt)
      BY <1>1, <2>2, <2>3, <3>1 DEF CallTrue
    <3>3. b.pc # "record"
      BY <1>5, <2>2
    <3> QED BY <2>2, <2>3, <2>4, <2>5, <2>6, <3>1, <3>2, <3>3 DEF CallTrue
  <2>7. browserCall[c].pc \notin {"record", "page", "done"}
    BY <1>1
  <2>8. b.pc # "record"
    BY <1>5, <2>2
  <2> QED BY <1>1, <1>2, <1>5, <2>1, <2>6, <2>7, <2>8, OneMoves
<1>6. op \in {"click", "submit"} => browserLog' = browserLog
  BY DEF CheckGrant
<1> QED BY <1>3, <1>4, <1>5, <1>6 DEF CheckGrant, Fails

LEMMA SubmitFormInv ==
  ASSUME BrowserInv, NEW c \in BrowserCalls, NEW result \in Attempts, NEW reached \in BOOLEAN, SubmitForm(c, result, reached)
  PROVE  BrowserInv'
<1>1. browserLog' = browserLog /\ LogStep /\ sessionLive' \in BOOLEAN /\ browserCall[c].pc = "submit"
  BY DEF SubmitForm, LogStep, BrowserInv, BrowserTypeOK
<1>2. PICK b : b = [browserCall[c] EXCEPT !.pc = "record", !.result = result]
  OBVIOUS
<1>3. PICK q : q = [call |-> c, action |-> browserCall[c].action, request |-> browserCall[c].request,
                    readAt |-> browserCall[c].readAt, checkedAt |-> browserCall[c].checkedAt, recordedAt |-> 0]
  OBVIOUS
<1>4. Moves(c, b) /\ posts' \subseteq posts \cup {q}
  BY <1>2, <1>3 DEF SubmitForm
<1>5. browserCall[c] \in CallType
  BY CallTyped
<1>6. b \in CallType
  BY <1>2, <1>5 DEF CallType, CallPcs
<1>7. /\ b.pc = "record" /\ b.result = result /\ b.checkedAt = browserCall[c].checkedAt /\ b.request = browserCall[c].request
      /\ b.action = browserCall[c].action /\ b.session = browserCall[c].session /\ b.readAt = browserCall[c].readAt
  BY <1>2, <1>5 DEF CallType
<1>8. q \in PostType
  BY <1>3, <1>5 DEF CallType, PostType
<1>9. posts' \subseteq PostType /\ \A p \in posts' : p.call # c => p \in posts
  <2>1. q.call = c
    BY <1>3
  <2> QED BY <1>4, <1>8, <2>1 DEF BrowserInv, BrowserTypeOK
<1>10. ASSUME Len(browserLog) <= ReadLimit
       PROVE  CallTrue(b, browserLog) /\ \A p \in posts' : p.call = c => PostCall(p, b) /\ PostSeen(p, browserLog)
  <2>1. CallTrue(browserCall[c], browserLog) /\ Len(browserLog) \in Nat
    BY <1>10, CallTyped
  <2>2. /\ b.readAt <= Len(browserLog) /\ b.checkedAt <= Len(browserLog) /\ ClearedBy(browserLog, b.readAt)
        /\ BrowserRisk(b.request.operation) = "high" /\ b.session.state = "ACTIVE"
        /\ NotAttempted(browserLog, b.action, b.checkedAt) /\ GrantedBy(browserLog, b.action, b.request, Len(browserLog))
    BY <1>1, <1>7, <2>1 DEF CallTrue
  <2>3. CallTrue(b, browserLog)
    BY <1>7, <2>2 DEF CallTrue
  <2>4. PostCall(q, b) /\ PostSeen(q, browserLog)
    <3>1. /\ q.action = b.action /\ q.request = b.request /\ q.readAt = b.readAt /\ q.checkedAt = b.checkedAt /\ q.recordedAt = 0
      BY <1>3, <1>7
    <3> QED BY <1>7, <2>2, <3>1 DEF PostCall, PostSeen
  <2>5. ASSUME NEW p \in posts, p.call = c PROVE FALSE
    <3>1. PostCall(p, browserCall[p.call])
      BY <1>10 DEF BrowserInv, BrowserFacts
    <3> QED BY <1>1, <2>5, <3>1 DEF PostCall
  <2> QED BY <1>4, <2>3, <2>4, <2>5
<1>11. b.pc = "record" => b.result \in Attempts
  BY <1>7
<1> QED BY <1>1, <1>4, <1>6, <1>9, <1>10, <1>11, RequestMoves

LEMMA FollowLinkInv ==
  ASSUME BrowserInv, NEW c \in BrowserCalls, NEW result \in Attempts, FollowLink(c, result)
  PROVE  BrowserInv'
<1>1. browserLog' = browserLog /\ LogStep /\ posts' = posts /\ sessionLive' \in BOOLEAN /\ browserCall[c].pc = "click"
  BY DEF FollowLink, LogStep, BrowserInv, BrowserTypeOK
<1>2. PICK b : b = [browserCall[c] EXCEPT !.pc = "record", !.result = result]
  OBVIOUS
<1>3. Moves(c, b)
  BY <1>2 DEF FollowLink
<1>4. browserCall[c] \in CallType
  BY CallTyped
<1>5. b \in CallType
  BY <1>2, <1>4 DEF CallType, CallPcs
<1>6. /\ b.pc = "record" /\ b.result = result /\ b.checkedAt = browserCall[c].checkedAt /\ b.request = browserCall[c].request
      /\ b.action = browserCall[c].action /\ b.session = browserCall[c].session /\ b.readAt = browserCall[c].readAt
  BY <1>2, <1>4 DEF CallType
<1>7. Len(browserLog) <= ReadLimit => CallTrue(b, browserLog)
  BY <1>1, <1>6, CallTyped DEF CallTrue
<1>8. browserCall[c].pc \notin {"record", "page", "done"}
  BY <1>1
<1>9. b.pc = "record" => b.result \in Attempts
  BY <1>6
<1> QED BY <1>1, <1>3, <1>5, <1>7, <1>8, <1>9, OneMoves

LEMMA RecordAttemptInv ==
  ASSUME BrowserInv, NEW c \in BrowserCalls, RecordAttempt(c)
  PROVE  BrowserInv'
<1> DEFINE Dated(p) == [p EXCEPT !.recordedAt = Len(browserLog) + 1]
           e == [type |-> browserCall[c].result, action |-> browserCall[c].action, request |-> browserCall[c].request]
<1>1. /\ browserCall[c].pc = "record" /\ sessionLive' \in BOOLEAN /\ browserLog' = Append(browserLog, e)
      /\ posts' = {IF p.call = c THEN Dated(p) ELSE p : p \in posts}
  BY DEF RecordAttempt, Emits, BrowserInv, BrowserTypeOK
<1>2. PICK b : /\ b \in {Served, [browserCall[c] EXCEPT !.pc = "page"]}
               /\ Moves(c, b)
  BY DEF RecordAttempt
<1>3. browserCall[c] \in CallType /\ Len(browserLog) \in Nat /\ browserLog \in Seq(BrowserEvents)
  BY CallTyped
<1>4. b \in CallType /\ b.pc \in {"page", "done"}
  <2>1. Served \in CallType /\ Served.pc = "done"
    BY ServedTrue
  <2>2. CASE b = Served
    BY <2>1, <2>2
  <2>3. CASE b = [browserCall[c] EXCEPT !.pc = "page"]
    BY <1>3, <2>3 DEF CallType, CallPcs
  <2> QED BY <1>2, <2>2, <2>3
<1>5. ASSUME NEW p \in posts
      PROVE  /\ p \in PostType /\ Dated(p) \in PostType
             /\ Dated(p).recordedAt = Len(browserLog) + 1 /\ Dated(p).call = p.call /\ Dated(p).action = p.action
             /\ Dated(p).request = p.request /\ Dated(p).readAt = p.readAt /\ Dated(p).checkedAt = p.checkedAt
  <2>1. p \in PostType /\ Len(browserLog) + 1 \in Nat
    BY <1>3 DEF BrowserInv, BrowserTypeOK
  <2> QED BY <2>1 DEF PostType
<1>6. ASSUME NEW q \in posts'
      PROVE  \E p \in posts : p.call = q.call /\ q = (IF p.call = c THEN Dated(p) ELSE p)
  <2>1. PICK p \in posts : q = (IF p.call = c THEN Dated(p) ELSE p)
    BY <1>1
  <2>2. p.call = q.call
    BY <1>5, <2>1
  <2> QED BY <2>1, <2>2
<1> HIDE DEF Dated
<1>7. posts' \subseteq PostType /\ \A q \in posts' : q.call # c => q \in posts
  BY <1>5, <1>6
<1>8. e.action = browserCall[c].action /\ e.type = browserCall[c].result
  OBVIOUS
<1>9. e \in BrowserEvents /\ e.type \in Attempts /\ LogStep
  <2>1. browserCall[c].result \in Attempts
    BY <1>1 DEF BrowserInv, BrowserTypeOK
  <2>2. e \in BrowserEvents /\ e.type \in Attempts /\ e.type # "approval.granted"
    BY <1>3, <2>1 DEF CallType, BrowserEvents, EventTypes, Attempts
  <2> HIDE DEF e
  <2> QED BY <1>1, <2>2 DEF LogStep, GrantFollows
<1> HIDE DEF e
<1>10. ASSUME Len(browserLog') <= ReadLimit
       PROVE  CallTrue(b, browserLog') /\ \A q \in posts' : q.call = c => PostCall(q, b) /\ PostSeen(q, browserLog')
  <2>1. /\ browserLog'[Len(browserLog) + 1] = e /\ Len(browserLog') = Len(browserLog) + 1
        /\ browserLog' \in Seq(BrowserEvents) /\ Len(browserLog) <= ReadLimit
    BY <1>1, <1>3, <1>9, <1>10, LogGrows, FactsCarried
  <2>2. CallTrue(browserCall[c], browserLog')
    BY <1>9, <1>10, FactsCarried
  <2>3. CallTrue(b, browserLog')
    <3>1. CASE b = Served
      BY <2>1, <3>1, ServedTrue
    <3>2. CASE b = [browserCall[c] EXCEPT !.pc = "page"]
      <4>1. b.pc = "page" /\ b.session = browserCall[c].session /\ b.readAt = browserCall[c].readAt /\ b.checkedAt = browserCall[c].checkedAt
        BY <1>3, <3>2 DEF CallType
      <4> QED BY <2>2, <4>1 DEF CallTrue
    <3> QED BY <1>2, <3>1, <3>2
  <2>4. ASSUME NEW q \in posts', q.call = c PROVE PostCall(q, b) /\ PostSeen(q, browserLog')
    <3>1. PICK p \in posts : p.call = q.call /\ q = (IF p.call = c THEN Dated(p) ELSE p)
      BY <1>6
    <3>2. q = Dated(p) /\ p.call = c
      BY <2>4, <3>1
    <3>3. PostCall(p, browserCall[c]) /\ PostSeen(p, browserLog)
      BY <2>1, <3>2 DEF BrowserInv, BrowserFacts
    <3>4. PostSeen(p, browserLog')
      BY <1>9, <1>10, FactsCarried
    <3>5. /\ q.recordedAt = Len(browserLog) + 1 /\ q.action = p.action /\ q.request = p.request
          /\ q.readAt = p.readAt /\ q.checkedAt = p.checkedAt /\ p \in PostType
      BY <1>5, <3>2
    <3>6. p.action = browserCall[c].action
      BY <1>1, <3>3 DEF PostCall
    <3>7. GrantedBy(browserLog', p.action, p.request, Len(browserLog))
      <4>1. GrantedBy(browserLog, p.action, p.request, Len(browserLog))
        <5>1. CASE p.recordedAt = 0
          BY <3>3, <5>1 DEF PostSeen
        <5>2. CASE p.recordedAt # 0
          <6>1. p.recordedAt \in 1 .. Len(browserLog) /\ GrantedBy(browserLog, p.action, p.request, p.recordedAt - 1)
            BY <1>3, <3>3, <3>5, <5>2 DEF PostSeen, PostType
          <6>2. \A i \in 1 .. (p.recordedAt - 1) : i \in 1 .. Len(browserLog)
            BY <1>3, <6>1
          <6> QED BY <6>1, <6>2 DEF GrantedBy
        <5> QED BY <5>1, <5>2
      <4>2. Len(browserLog) \in 0 .. Len(browserLog)
        BY <1>3
      <4>3. ASSUME NEW n \in 0 .. Len(browserLog), GrantedBy(browserLog, p.action, p.request, n)
            PROVE  GrantedBy(browserLog', p.action, p.request, n)
        BY <1>1, <1>3, <1>9, <4>3, SeenStaysTrue
      <4> QED BY <4>1, <4>2, <4>3
    <3>8. PostSeen(q, browserLog')
      <4>1. q.recordedAt # 0 /\ q.recordedAt <= Len(browserLog') /\ q.recordedAt - 1 = Len(browserLog)
        BY <1>3, <2>1, <3>5
      <4>2. browserLog'[q.recordedAt].type \in Attempts /\ browserLog'[q.recordedAt].action = q.action
        BY <1>8, <1>9, <2>1, <3>5, <3>6
      <4> QED BY <3>4, <3>5, <3>7, <4>1, <4>2 DEF PostSeen
    <3> QED BY <1>4, <3>8 DEF PostCall
  <2> QED BY <2>3, <2>4
<1>11. b.pc # "record"
  BY <1>4
<1> QED BY <1>2, <1>4, <1>7, <1>9, <1>10, <1>11, <1>1, RequestMoves

LEMMA ObserveInv ==
  ASSUME BrowserInv, NEW c \in BrowserCalls, Observe(c)
  PROVE  BrowserInv'
<1>1. browserLog' = browserLog /\ LogStep /\ posts' = posts /\ sessionLive' \in BOOLEAN
  BY DEF Observe, LogStep, BrowserInv, BrowserTypeOK
<1>2. PICK b : b = [browserCall[c] EXCEPT !.pc = "page"]
  OBVIOUS
<1>3. CASE Fails(c)
  BY <1>1, <1>3, OneServed
<1>4. CASE Moves(c, b)
  <2>1. browserCall[c] \in CallType
    BY CallTyped
  <2>2. b \in CallType
    BY <1>2, <2>1 DEF CallType, CallPcs
  <2>3. b.pc = "page" /\ b.session = browserCall[c].session /\ b.readAt = browserCall[c].readAt /\ b.checkedAt = browserCall[c].checkedAt
    BY <1>2, <2>1 DEF CallType
  <2>4. Len(browserLog) <= ReadLimit => CallTrue(b, browserLog)
    BY <2>3, CallTyped DEF CallTrue
  <2>5. b.pc # "record" /\ b.pc \in {"page", "done"}
    BY <2>3
  <2> QED BY <1>1, <1>4, <2>2, <2>4, <2>5, OneMoves
<1> QED BY <1>2, <1>3, <1>4 DEF Observe, Fails

\* The requests that end, whatever they have written.
LEMMA EndingsInv ==
  ASSUME BrowserInv, NEW c \in BrowserCalls, PageOpened(c) \/ Reconcile(c) \/ Control(c) \/ BrowserCallDies(c)
  PROVE  BrowserInv'
<1>1. Fails(c) /\ posts' = posts /\ sessionLive' \in BOOLEAN
  BY DEF PageOpened, Reconcile, Control, BrowserCallDies, BrowserInv, BrowserTypeOK
<1> DEFINE r == browserCall[c].request
<1>2. \/ browserLog' = browserLog
      \/ Emits("page.opened", NoAction, r)
      \/ Emits("action.reconciled", browserCall[c].session.pending, r)
      \/ browserCall[c].pc \in Controls /\ Emits(browserCall[c].pc, NoAction, r)
  BY DEF PageOpened, Reconcile, Control, BrowserCallDies
<1>3. r \in BrowserTargets /\ NoAction \in ActionsOrNone /\ browserCall[c].session.pending \in ActionsOrNone
  BY CallTyped DEF ActionsOrNone, SessionType
<1>4. "page.opened" \in EventTypes /\ "action.reconciled" \in EventTypes /\ Controls \subseteq EventTypes /\ "approval.granted" \notin Controls
  BY DEF EventTypes, Controls
<1> HIDE DEF r
<1>5. browserLog' = browserLog => LogStep
  BY DEF LogStep
<1>6. Emits("page.opened", NoAction, r) => LogStep
  BY <1>3, <1>4, EmittedStep
<1>7. Emits("action.reconciled", browserCall[c].session.pending, r) => LogStep
  BY <1>3, <1>4, EmittedStep
<1>8. browserCall[c].pc \in Controls /\ Emits(browserCall[c].pc, NoAction, r) => LogStep
  BY <1>3, <1>4, EmittedStep
<1>9. LogStep
  BY <1>2, <1>5, <1>6, <1>7, <1>8
<1> QED BY <1>1, <1>9, OneServed

LEMMA BrowserStutters ==
  ASSUME BrowserInv, UNCHANGED <<browserLog, browserCall, posts>>, sessionLive' \in BOOLEAN
  PROVE  BrowserInv'
BY DEF BrowserInv, BrowserTypeOK, BrowserFacts

LEMMA BrowserInvInit == BrowserInit => BrowserInv
<1> SUFFICES ASSUME BrowserInit PROVE BrowserInv
  OBVIOUS
<1>1. browserLog = <<>> /\ browserCall = [c \in BrowserCalls |-> NewCall] /\ sessionLive = TRUE /\ posts = {}
  BY DEF BrowserInit
<1>2. browserLog \in Seq(BrowserEvents) /\ Len(browserLog) = 0
  BY <1>1
<1>3. NewCall \in CallType /\ CallTrue(NewCall, browserLog) /\ NewCall.pc # "record"
  BY <1>2, ServedTrue DEF NewCall
<1>4. BrowserTypeOK
  BY <1>1, <1>2, <1>3 DEF BrowserTypeOK
<1>5. BrowserFacts
  BY <1>1, <1>2, <1>3 DEF BrowserFacts, GrantsAsked
<1> QED BY <1>4, <1>5 DEF BrowserInv

LEMMA BrowserInvNext == BrowserInv /\ [BrowserNext]_browserVars => BrowserInv'
<1> SUFFICES ASSUME BrowserInv, [BrowserNext]_browserVars PROVE BrowserInv'
  OBVIOUS
<1>1. ASSUME NEW c \in BrowserCalls, NEW a \in BrowserActions, NEW op \in {"approve", "prepare", "execute"},
             NEW r \in BrowserTargets, ReadSession(c, op, r, a)
      PROVE  BrowserInv'
  BY <1>1, ReadSessionInv DEF ActionsOrNone, CallPcs
<1>2. ASSUME NEW c \in BrowserCalls, NEW op \in {"observe", "reconcile"} \cup Controls, ReadSession(c, op, Navigate, NoAction)
      PROVE  BrowserInv'
  <2>1. op \in CallPcs /\ op \notin {"approved", "submit", "click", "record"}
    BY DEF CallPcs, Controls
  <2>2. Navigate \in BrowserTargets /\ NoAction \in ActionsOrNone
    BY DEF BrowserTargets, ActionsOrNone
  <2> QED BY <1>2, <2>1, <2>2, ReadSessionInv
<1>3. ASSUME NEW c \in BrowserCalls,
             \/ Prepare(c) \/ Approve(c) \/ CheckAttempts(c) \/ CheckGrant(c) \/ RecordAttempt(c)
             \/ Observe(c) \/ PageOpened(c) \/ Reconcile(c) \/ Control(c) \/ BrowserCallDies(c)
      PROVE  BrowserInv'
  BY <1>3, PrepareInv, ApproveInv, CheckAttemptsInv, CheckGrantInv, RecordAttemptInv, ObserveInv, EndingsInv
<1>4. ASSUME NEW c \in BrowserCalls, NEW result \in Attempts,
             FollowLink(c, result) \/ \E reached \in BOOLEAN : SubmitForm(c, result, reached)
      PROVE  BrowserInv'
  BY <1>4, FollowLinkInv, SubmitFormInv
<1>5. CASE SessionExpires
  BY <1>5, BrowserStutters DEF SessionExpires
<1>6. ASSUME NEW a \in BrowserActions, ApprovalLapses(a) PROVE BrowserInv'
  <2>1. UNCHANGED <<browserLog, browserCall, posts, sessionLive>> /\ sessionLive \in BOOLEAN
    BY <1>6 DEF ApprovalLapses, BrowserInv, BrowserTypeOK
  <2> QED BY <2>1, BrowserStutters
<1>7. CASE UNCHANGED browserVars
  <2>1. UNCHANGED <<browserLog, browserCall, posts, sessionLive>> /\ sessionLive \in BOOLEAN
    BY <1>7 DEF browserVars, BrowserInv, BrowserTypeOK
  <2> QED BY <2>1, BrowserStutters
<1>8. CASE BrowserNext
  <2>1. CASE \E c \in BrowserCalls, a \in BrowserActions :
               \/ ReadSession(c, "approve", Navigate, a)
               \/ \E op \in {"prepare", "execute"}, r \in BrowserRequests : ReadSession(c, op, r, a)
    BY <1>1, <2>1 DEF BrowserTargets
  <2> QED BY <1>2, <1>3, <1>4, <1>5, <1>6, <1>8, <2>1 DEF BrowserNext
<1> QED BY <1>7, <1>8

LEMMA BrowserInvSound == BrowserInv => BrowserSound
<1> SUFFICES ASSUME BrowserInv, Len(browserLog) <= ReadLimit
             PROVE  SentAsApproved /\ SentAgainOnlyBeforeRecord /\ BlockedWhileUnknown
  BY DEF BrowserSound
<1>1. /\ Len(browserLog) \in Nat
      /\ \A p \in posts : p \in PostType /\ PostSeen(p, browserLog)
  BY DEF BrowserInv, BrowserTypeOK, BrowserFacts
<1>2. SentAsApproved
  <2> SUFFICES ASSUME NEW p \in posts
               PROVE  \E i, j \in 1..Len(browserLog) :
                        /\ i < j /\ EventAt(i, {"approval.required"}) /\ EventAt(j, {"approval.granted"})
                        /\ browserLog[i].action = p.action /\ browserLog[j].action = p.action
                        /\ browserLog[i].request = p.request /\ (p.recordedAt # 0 => j < p.recordedAt)
    BY DEF SentAsApproved
  <2>1. PostSeen(p, browserLog) /\ p.recordedAt \in Nat
    BY <1>1 DEF PostType
  <2>2. CASE p.recordedAt = 0
    BY <2>1, <2>2 DEF PostSeen, GrantedBy, EventAt
  <2>3. CASE p.recordedAt # 0
    <3>1. p.recordedAt <= Len(browserLog) /\ GrantedBy(browserLog, p.action, p.request, p.recordedAt - 1)
      BY <2>1, <2>3 DEF PostSeen
    <3>2. PICK i, j \in 1 .. (p.recordedAt - 1) :
            /\ i < j /\ browserLog[i].type = "approval.required" /\ browserLog[j].type = "approval.granted"
            /\ browserLog[i].action = p.action /\ browserLog[j].action = p.action /\ browserLog[i].request = p.request
      BY <3>1 DEF GrantedBy
    <3>3. i \in 1 .. Len(browserLog) /\ j \in 1 .. Len(browserLog) /\ j < p.recordedAt
      BY <1>1, <2>1, <3>1
    <3> QED BY <3>2, <3>3 DEF EventAt
  <2> QED BY <2>2, <2>3
<1>3. SentAgainOnlyBeforeRecord
  <2> SUFFICES ASSUME NEW p \in posts, NEW q \in posts, p.action = q.action, p.recordedAt # 0
               PROVE  q.checkedAt < p.recordedAt
    BY DEF SentAgainOnlyBeforeRecord
  <2>1. p.recordedAt \in Nat /\ q.checkedAt \in Nat /\ PostSeen(p, browserLog) /\ PostSeen(q, browserLog)
    BY <1>1 DEF PostType
  <2>2. browserLog[p.recordedAt].type \in Attempts /\ browserLog[p.recordedAt].action = p.action
    BY <2>1 DEF PostSeen
  <2>3. NotAttempted(browserLog, p.action, q.checkedAt)
    BY <2>1 DEF PostSeen
  <2>4. p.recordedAt \notin 1 .. q.checkedAt
    BY <2>2, <2>3 DEF NotAttempted
  <2> QED BY <2>1, <2>4
<1>4. BlockedWhileUnknown
  BY <1>1 DEF PostSeen, ClearedBy, BlockedWhileUnknown, EventAt
<1> QED BY <1>2, <1>3, <1>4

(***************************************************************************)
(* What a browser session sends is what was asked for and approved before, *)
(* not again once its outcome is on record, and not while an outcome is    *)
(* unknown (browser-store.ts 132-394), for any requests, actions, risk     *)
(* profile and limits and as long as one read covers the log.              *)
(***************************************************************************)
THEOREM BrowserHolds == BrowserSpec => []BrowserSound
<1>1. BrowserSpec => []BrowserInv
  BY BrowserInvInit, BrowserInvNext, PTL DEF BrowserSpec
<1> QED BY <1>1, BrowserInvSound, PTL

-----------------------------------------------------------------------------
(* The workspace (chat/workspace-os.ts, chat/neon-workspace.ts, chat/build-mode.ts) *)

TextItem == [origin : Origins, version : Nat \ {0}, text : Texts, by : {"agent", "user"}]

BoundEvent == [kind : {"bound"}, run : ProjectRuns, request : WorkspaceCalls, readAt : Nat]
RequestEvent ==
  [kind : {"initial", "iteration"}, request : WorkspaceCalls, target : BuildTargets, readAt : Nat,
   documents : SUBSET (WorkspaceCalls \X (1..3)), memory : WorkspaceCalls \cup {NoCall}]
BuildEvent == BoundEvent \cup RequestEvent

WorkspaceTypeOK ==
  /\ items \in [DOMAIN items -> TextItem]
  /\ buildLog \in Seq(BuildEvent)
  /\ DOMAIN request = WorkspaceCalls
  /\ layout.version \in Nat

\* Of the documents of a build the first n are there.
HasDocuments(c, n) == \A m \in 1..3 : <<c, m>> \in DOMAIN items <=> m <= n

\* What a request has read is what is there, or something newer is there.
SeenState(s) ==
  /\ {"item", "seen"} \subseteq DOMAIN s /\ s.seen.version \in Nat
  /\ s.item \notin DOMAIN items => s.item = Page /\ s.seen.version = 0
  /\ s.item \in DOMAIN items =>
       /\ s.seen.version <= items[s.item].version
       /\ s.seen.version = items[s.item].version => s.seen.text = items[s.item].text

LayoutState(s) ==
  /\ {"version", "by"} \subseteq DOMAIN s /\ s.version \in Nat
  /\ s.version <= layout.version /\ (s.version = layout.version => s.by = layout.by)

\* A build that starts saw no other; an iteration follows the first; a binding saw none of its run.
ReadAt(s) == s.readAt \in Nat /\ s.readAt <= Len(buildLog)
InitialState(s) ==
  /\ {"kind", "target", "readAt", "n", "origin", "text", "item", "then"} \subseteq DOMAIN s
  /\ s.origin = "user" /\ s.kind = "initial" /\ s.target \in BuildTargets /\ ReadAt(s)
  /\ \A j \in 1 .. s.readAt : buildLog[j].kind # "initial"
FirstTarget(target) == \E f \in Initials : (\A j \in Initials : f <= j) /\ buildLog[f].target = target
IterationState(s) ==
  /\ {"kind", "target", "readAt"} \subseteq DOMAIN s /\ s.kind = "iteration" /\ s.target \in BuildTargets /\ ReadAt(s)
  /\ FirstTarget(s.target)
SameBinding(e, s) == e.kind = "bound" /\ e.run = s.run /\ e.request = s.request
BindingState(s) ==
  /\ {"kind", "run", "request", "readAt"} \subseteq DOMAIN s /\ s.kind = "bound"
  /\ s.run \in ProjectRuns /\ s.request \in WorkspaceCalls /\ ReadAt(s)
  /\ \A j \in 1 .. s.readAt : ~SameBinding(buildLog[j], s)

InsertState(c, s) ==
  /\ {"origin", "text", "n", "then"} \subseteq DOMAIN s /\ s.origin \in Origins /\ s.text \in Texts
  /\ s.n \in 1..3 /\ HasDocuments(c, s.n - 1)
  /\ \/ s.then = "done"
     \/ InitialState(s) /\ ((s.then = "next" /\ s.n < 3) \/ (s.then = "select" /\ s.n = 3))

RequestOK(c, s) ==
  /\ "pc" \in DOMAIN s
  /\ s.pc = "new" => HasDocuments(c, 0)
  /\ s.pc = "insert" => InsertState(c, s)
  /\ s.pc \in {"user", "agent", "patch"} => SeenState(s)
  /\ s.pc = "user" => s.item \in DOMAIN items
  /\ s.pc = "layout" => LayoutState(s)
  /\ s.pc = "context" => /\ "then" \in DOMAIN s
                         /\ s.then = "done" \/ (s.then = "select" /\ "n" \in DOMAIN s /\ InitialState(s) /\ HasDocuments(c, 3))
  /\ s.pc = "document" => "n" \in DOMAIN s /\ InitialState(s) /\ s.n \in 1..3 /\ HasDocuments(c, s.n - 1)
  /\ s.pc = "next" => {"n", "then"} \subseteq DOMAIN s /\ InitialState(s) /\ s.n \in 1..2 /\ HasDocuments(c, s.n)
  /\ s.pc = "select" => {"n", "then"} \subseteq DOMAIN s /\ InitialState(s) /\ HasDocuments(c, 3)
  /\ s.pc = "remember" => (InitialState(s) /\ HasDocuments(c, 3)) \/ IterationState(s)
  /\ s.pc = "target" => IterationState(s)
  /\ s.pc = "announce" => \/ InitialState(s) /\ HasDocuments(c, 3) /\ c \in memories
                          \/ IterationState(s) \/ BindingState(s)

\* The transaction of a patch has the conversation; only the user may have changed its item since the check.
PatchState(c, s) ==
  s.pc = "patch" => conversation = c /\ (TextOf(s.item) = s.seen.text \/ (s.item \in DOMAIN items /\ items[s.item].by = "user"))

\* The requests that are on record are over, each of them once, and what they announced is there.
LogOK ==
  /\ \A k \in DOMAIN buildLog : buildLog[k].kind # "bound" => request[buildLog[k].request].pc = "done"
  /\ \A j, k \in DOMAIN buildLog : buildLog[j].kind # "bound" /\ buildLog[k].kind # "bound" /\ j # k
       => buildLog[j].request # buildLog[k].request
  /\ \A k \in Initials : /\ buildLog[k].documents = Documents(buildLog[k].request)
                         /\ buildLog[k].documents \subseteq DOMAIN items /\ buildLog[k].memory \in memories
  /\ \A k \in DOMAIN buildLog : buildLog[k].kind = "iteration" => FirstTarget(buildLog[k].target)

WorkspaceInv ==
  /\ WorkspaceTypeOK
  /\ \A c \in WorkspaceCalls : RequestOK(c, request[c])
  /\ \A c \in WorkspaceCalls : PatchState(c, request[c])
  /\ LogOK /\ RepeatedOnlyByRace /\ NoLostSave /\ ArtifactsByRuns

-----------------------------------------------------------------------------
\* Rows are added and replaced, never deleted.
ItemsGrow ==
  /\ DOMAIN items \subseteq DOMAIN items'
  /\ \A i \in DOMAIN items : items'[i] = items[i] \/ items'[i].version = items[i].version + 1
  /\ \A i \in DOMAIN items' : i \notin DOMAIN items => items'[i].version = 1

BuildLogGrows == buildLog' = buildLog \/ \E e \in BuildEvent : buildLog' = Append(buildLog, e)

LayoutGrows == UNCHANGED layout \/ layout'.version = layout.version + 1

LEMMA BuildLogFacts ==
  ASSUME buildLog \in Seq(BuildEvent), BuildLogGrows
  PROVE  /\ Len(buildLog) \in Nat /\ DOMAIN buildLog = 1 .. Len(buildLog)
         /\ buildLog' \in Seq(BuildEvent) /\ DOMAIN buildLog' = 1 .. Len(buildLog)' /\ Len(buildLog)' \in Nat
         /\ Len(buildLog) <= Len(buildLog)' /\ Len(buildLog)' <= Len(buildLog) + 1
         /\ \A j \in 1 .. Len(buildLog) : buildLog'[j] = buildLog[j]
  BY DEF BuildLogGrows

LEMMA FirstTargetStays ==
  ASSUME buildLog \in Seq(BuildEvent), BuildLogGrows, NEW target, FirstTarget(target)
  PROVE  FirstTarget(target)'
<1>1. PICK f \in Initials : (\A j \in Initials : f <= j) /\ buildLog[f].target = target
  BY DEF FirstTarget
<1>2. f \in 1 .. Len(buildLog) /\ buildLog[f].kind = "initial" /\ Len(buildLog) \in Nat
  BY BuildLogFacts DEF Initials
<1>3. f \in Initials' /\ buildLog'[f].target = target
  BY <1>1, <1>2, BuildLogFacts DEF Initials
<1>4. ASSUME NEW j \in Initials' PROVE f <= j
  <2>1. j \in 1 .. Len(buildLog)' /\ buildLog'[j].kind = "initial"
    BY BuildLogFacts DEF Initials
  <2>2. CASE j \in 1 .. Len(buildLog)
    BY <1>1, <2>1, <2>2, BuildLogFacts DEF Initials
  <2>3. CASE j \notin 1 .. Len(buildLog)
    BY <1>2, <2>1, <2>3, BuildLogFacts
  <2> QED BY <2>2, <2>3
<1> QED BY <1>3, <1>4 DEF FirstTarget

LEMMA BuildStatesStay ==
  ASSUME buildLog \in Seq(BuildEvent), BuildLogGrows, NEW s
  PROVE  /\ InitialState(s) => InitialState(s)'
         /\ IterationState(s) => IterationState(s)'
         /\ BindingState(s) => BindingState(s)'
<1>1. ReadAt(s) => ReadAt(s)'
  BY BuildLogFacts DEF ReadAt
<1>2. ReadAt(s) => \A j \in 1 .. s.readAt : j \in 1 .. Len(buildLog) /\ buildLog'[j] = buildLog[j]
  BY BuildLogFacts DEF ReadAt
<1>3. InitialState(s) => InitialState(s)'
  BY <1>1, <1>2 DEF InitialState
<1>4. IterationState(s) => IterationState(s)'
  BY <1>1, FirstTargetStays DEF IterationState
<1>5. BindingState(s) => BindingState(s)'
  BY <1>1, <1>2 DEF BindingState
<1> QED BY <1>3, <1>4, <1>5

\* What is true of a request stays true while others work.
LEMMA RequestStays ==
  ASSUME WorkspaceTypeOK, ItemsGrow, BuildLogGrows, LayoutGrows, memories \subseteq memories',
         NEW c, NEW s, RequestOK(c, s), \A m \in 1..3 : <<c, m>> \in DOMAIN items' <=> <<c, m>> \in DOMAIN items
  PROVE  RequestOK(c, s)'
<1>1. \A n : HasDocuments(c, n) <=> HasDocuments(c, n)'
  BY DEF HasDocuments
<1>2. buildLog \in Seq(BuildEvent) /\ layout.version \in Nat
  BY DEF WorkspaceTypeOK
<1>3. /\ InitialState(s) => InitialState(s)'
      /\ IterationState(s) => IterationState(s)'
      /\ BindingState(s) => BindingState(s)'
  BY <1>2, BuildStatesStay
<1>4. SeenState(s) => SeenState(s)'
  <2>1. ASSUME SeenState(s), s.item \in DOMAIN items PROVE SeenState(s)'
    <3>1. items[s.item].version \in Nat /\ s.seen.version \in Nat /\ s.item \in DOMAIN items'
      BY <2>1 DEF WorkspaceTypeOK, TextItem, SeenState, ItemsGrow
    <3>2. items'[s.item] = items[s.item] \/ items'[s.item].version = items[s.item].version + 1
      BY <2>1 DEF ItemsGrow
    <3> QED BY <2>1, <3>1, <3>2 DEF SeenState
  <2>2. ASSUME SeenState(s), s.item \notin DOMAIN items PROVE SeenState(s)'
    BY <2>2 DEF SeenState, ItemsGrow
  <2> QED BY <2>1, <2>2
<1>5. LayoutState(s) => LayoutState(s)'
  BY <1>2 DEF LayoutState, LayoutGrows
<1>6. InsertState(c, s) => InsertState(c, s)'
  BY <1>1, <1>3 DEF InsertState
<1>7. DOMAIN items \subseteq DOMAIN items'
  BY DEF ItemsGrow
<1> QED BY <1>1, <1>3, <1>4, <1>5, <1>6, <1>7 DEF RequestOK

-----------------------------------------------------------------------------
\* A request goes on and nothing else changes that the others depend on.
LEMMA RequestGoes ==
  ASSUME WorkspaceInv, NEW c \in WorkspaceCalls, NEW s, request[c].pc # "done", request' = [request EXCEPT ![c] = s],
         RequestOK(c, s)', PatchState(c, s)', \A d \in WorkspaceCalls \ {c} : conversation = d => conversation' = d,
         UNCHANGED <<items, layout, buildLog, lost>>, memories \subseteq memories'
  PROVE  WorkspaceInv'
<1>1. WorkspaceTypeOK /\ request'[c] = s /\ (\A d \in WorkspaceCalls \ {c} : request'[d] = request[d])
      /\ DOMAIN request' = WorkspaceCalls
  BY DEF WorkspaceInv, WorkspaceTypeOK
<1>2. ItemsGrow /\ BuildLogGrows /\ LayoutGrows
  BY DEF ItemsGrow, BuildLogGrows, LayoutGrows
<1>3. WorkspaceTypeOK'
  BY <1>1 DEF WorkspaceTypeOK
<1>4. ASSUME NEW d \in WorkspaceCalls PROVE RequestOK(d, request[d])'
  <2>1. PICK t : t = request'[d]
    OBVIOUS
  <2>2. CASE d = c
    BY <1>1, <2>2 DEF RequestOK, InsertState, SeenState, LayoutState, InitialState, IterationState, BindingState, ReadAt, SameBinding
  <2>3. \A m \in 1..3 : <<d, m>> \in DOMAIN items' <=> <<d, m>> \in DOMAIN items
    OBVIOUS
  <2>4. CASE d # c
    <3>1. RequestOK(d, t)
      BY <1>1, <2>1, <2>4 DEF WorkspaceInv
    <3>2. RequestOK(d, t)'
      BY <1>1, <1>2, <2>3, <3>1, RequestStays
    <3> QED BY <2>1, <3>2 DEF RequestOK, InsertState, SeenState, LayoutState, InitialState, IterationState, BindingState, ReadAt, SameBinding
  <2> QED BY <2>2, <2>4
<1>5. ASSUME NEW d \in WorkspaceCalls PROVE PatchState(d, request[d])'
  <2>1. CASE d = c
    BY <1>1, <2>1 DEF PatchState, TextOf
  <2>2. CASE d # c
    <3>1. PatchState(d, request[d]) /\ request'[d] = request[d] /\ items' = items
      BY <1>1, <2>2 DEF WorkspaceInv
    <3> QED BY <2>2, <3>1 DEF PatchState, TextOf
  <2> QED BY <2>1, <2>2
<1>6. LogOK'
  <2>1. LogOK
    BY DEF WorkspaceInv
  <2>2. \A t : FirstTarget(t) => FirstTarget(t)'
    BY DEF FirstTarget, Initials
  <2>3. ASSUME NEW k \in DOMAIN buildLog, buildLog[k].kind # "bound" PROVE request'[buildLog[k].request].pc = "done"
    <3>1. buildLog[k] \in BuildEvent
      BY <1>1 DEF WorkspaceTypeOK
    <3>2. request[buildLog[k].request].pc = "done" /\ buildLog[k].request \in WorkspaceCalls
      BY <2>1, <2>3, <3>1 DEF LogOK, BuildEvent, BoundEvent, RequestEvent
    <3> QED BY <1>1, <3>2
  <2>4. Initials' = Initials
    BY DEF Initials
  <2> QED BY <2>1, <2>2, <2>3, <2>4 DEF LogOK
<1>7. RepeatedOnlyByRace' /\ NoLostSave' /\ ArtifactsByRuns'
  BY DEF WorkspaceInv, RepeatedOnlyByRace, NoLostSave, ArtifactsByRuns
<1> QED BY <1>3, <1>4, <1>5, <1>6, <1>7 DEF WorkspaceInv

LEMMA RequestGoesOn ==
  ASSUME WorkspaceInv, NEW c \in WorkspaceCalls, NEW s, request[c].pc # "done", Goes(c, s), RequestOK(c, s), s.pc # "patch",
         UNCHANGED <<items, layout, buildLog, lost, conversation>>, memories \subseteq memories'
  PROVE  WorkspaceInv'
<1>1. PatchState(c, s)'
  BY DEF PatchState
<1>2. request' = [request EXCEPT ![c] = s] /\ \A d \in WorkspaceCalls \ {c} : conversation = d => conversation' = d
  BY DEF Goes
<1>3. WorkspaceTypeOK /\ ItemsGrow /\ BuildLogGrows /\ LayoutGrows
      /\ \A m \in 1..3 : <<c, m>> \in DOMAIN items' <=> <<c, m>> \in DOMAIN items
  BY DEF WorkspaceInv, ItemsGrow, BuildLogGrows, LayoutGrows
<1>4. RequestOK(c, s)'
  BY <1>3, RequestStays
<1> QED BY <1>1, <1>2, <1>4, RequestGoes

LEMMA RequestEnds ==
  ASSUME WorkspaceInv, NEW c \in WorkspaceCalls, request[c].pc # "done", Goes(c, Ended),
         \A d \in WorkspaceCalls \ {c} : conversation = d => conversation' = d,
         UNCHANGED <<items, layout, buildLog, lost, memories>>
  PROVE  WorkspaceInv'
<1>1. PICK s : s = Ended
  OBVIOUS
<1>2. "pc" \in DOMAIN s /\ s.pc = "done"
  BY <1>1 DEF Ended
<1>3. RequestOK(c, s)' /\ PatchState(c, s)'
  BY <1>2 DEF RequestOK, PatchState
<1>4. request' = [request EXCEPT ![c] = s] /\ memories \subseteq memories'
  BY <1>1 DEF Goes
<1> QED BY <1>3, <1>4, RequestGoes

LEMMA RequestOf == ASSUME WorkspaceInv, NEW c \in WorkspaceCalls PROVE RequestOK(c, request[c]) /\ PatchState(c, request[c])
  BY DEF WorkspaceInv

LEMMA NewItemInv ==
  ASSUME WorkspaceInv, NEW c \in WorkspaceCalls, NEW text \in Texts, NEW supported, NEW run,
         CreateDocument(c, text) \/ ImportText(c, text, supported) \/ CreateArtifactFromRun(c, run, text)
  PROVE  WorkspaceInv'
<1>1. request[c].pc = "new" /\ UNCHANGED <<items, layout, buildLog, lost, conversation, memories>>
  BY DEF CreateDocument, ImportText, CreateArtifactFromRun, At
<1>2. PICK origin \in Origins : Goes(c, Ended) \/ Goes(c, [pc |-> "insert", origin |-> origin, text |-> text, n |-> 1, then |-> "done"])
  BY DEF CreateDocument, ImportText, CreateArtifactFromRun, Origins
<1>3. CASE Goes(c, Ended)
  BY <1>1, <1>3, RequestEnds
<1>4. CASE Goes(c, [pc |-> "insert", origin |-> origin, text |-> text, n |-> 1, then |-> "done"])
  <2>1. PICK s : s = [pc |-> "insert", origin |-> origin, text |-> text, n |-> 1, then |-> "done"]
    OBVIOUS
  <2>2. /\ DOMAIN s = {"pc", "origin", "text", "n", "then"}
        /\ s.pc = "insert" /\ s.origin = origin /\ s.text = text /\ s.n = 1 /\ s.then = "done"
    BY <2>1
  <2>3. HasDocuments(c, 0)
    BY <1>1, RequestOf DEF RequestOK
  <2>4. HasDocuments(c, s.n - 1) /\ s.n \in 1..3
    BY <2>2, <2>3
  <2>5. RequestOK(c, s)
    BY <2>2, <2>4 DEF RequestOK, InsertState
  <2> QED BY <1>1, <1>4, <2>1, <2>2, <2>5, RequestGoesOn
<1> QED BY <1>2, <1>3, <1>4

LEMMA LoadsInv ==
  ASSUME WorkspaceInv, NEW c \in WorkspaceCalls,
         \/ \E i \in DOMAIN items, who \in {"user", "agent"} : LoadItem(c, i, who)
         \/ ReadAbsent(c) \/ LoadLayout(c)
         \/ \E i \in DOMAIN items, selected \in BOOLEAN : SetContext(c, i, selected)
  PROVE  WorkspaceInv'
<1>1. request[c].pc = "new" /\ UNCHANGED <<items, layout, buildLog, lost, conversation, memories>>
  BY DEF LoadItem, ReadAbsent, LoadLayout, SetContext, At
<1>2. WorkspaceTypeOK
  BY DEF WorkspaceInv
<1>3. ASSUME NEW i \in DOMAIN items, NEW who \in {"user", "agent"}, LoadItem(c, i, who) PROVE WorkspaceInv'
  <2>1. PICK seen : seen = [version |-> items[i].version, text |-> items[i].text]
    OBVIOUS
  <2>2. PICK s : s = [pc |-> who, item |-> i, seen |-> seen]
    OBVIOUS
  <2>3. seen.version = items[i].version /\ seen.text = items[i].text /\ items[i].version \in Nat
    BY <1>2, <2>1 DEF WorkspaceTypeOK, TextItem
  <2>4. DOMAIN s = {"pc", "item", "seen"} /\ s.pc = who /\ s.item = i /\ s.seen = seen
    BY <2>2
  <2>5. SeenState(s)
    BY <2>3, <2>4 DEF SeenState
  <2>6. RequestOK(c, s)
    BY <2>4, <2>5 DEF RequestOK
  <2>7. Goes(c, s)
    BY <1>3, <2>1, <2>2 DEF LoadItem
  <2> QED BY <1>1, <2>4, <2>6, <2>7, RequestGoesOn
<1>4. CASE ReadAbsent(c)
  <2>1. PICK seen : seen = [version |-> 0, text |-> NoText]
    OBVIOUS
  <2>2. PICK s : s = [pc |-> "agent", item |-> Page, seen |-> seen]
    OBVIOUS
  <2>3. seen.version = 0 /\ Page \notin DOMAIN items
    BY <1>4, <2>1 DEF ReadAbsent
  <2>4. DOMAIN s = {"pc", "item", "seen"} /\ s.pc = "agent" /\ s.item = Page /\ s.seen = seen
    BY <2>2
  <2>5. SeenState(s)
    BY <2>3, <2>4 DEF SeenState
  <2>6. RequestOK(c, s)
    BY <2>4, <2>5 DEF RequestOK
  <2>7. Goes(c, s)
    BY <1>4, <2>1, <2>2 DEF ReadAbsent
  <2> QED BY <1>1, <2>4, <2>6, <2>7, RequestGoesOn
<1>5. CASE LoadLayout(c)
  <2>1. PICK s : s = [pc |-> "layout", version |-> layout.version, by |-> layout.by]
    OBVIOUS
  <2>2. DOMAIN s = {"pc", "version", "by"} /\ s.pc = "layout" /\ s.version = layout.version /\ s.by = layout.by /\ layout.version \in Nat
    BY <1>2, <2>1 DEF WorkspaceTypeOK
  <2>3. RequestOK(c, s)
    BY <2>2 DEF RequestOK, LayoutState
  <2>4. Goes(c, s)
    BY <1>5, <2>1 DEF LoadLayout
  <2> QED BY <1>1, <2>2, <2>3, <2>4, RequestGoesOn
<1>6. ASSUME NEW i, NEW selected, SetContext(c, i, selected) PROVE WorkspaceInv'
  <2>1. PICK s : s = [pc |-> "context", item |-> i, selected |-> selected, then |-> "done"]
    OBVIOUS
  <2>2. DOMAIN s = {"pc", "item", "selected", "then"} /\ s.pc = "context" /\ s.then = "done"
    BY <2>1
  <2>3. RequestOK(c, s)
    BY <2>2 DEF RequestOK
  <2>4. Goes(c, s) \/ Goes(c, Ended)
    BY <1>6, <2>1 DEF SetContext
  <2>5. CASE Goes(c, s)
    BY <1>1, <2>2, <2>3, <2>5, RequestGoesOn
  <2>6. CASE Goes(c, Ended)
    BY <1>1, <2>6, RequestEnds
  <2> QED BY <2>4, <2>5, <2>6
<1> QED BY <1>3, <1>4, <1>5, <1>6

\* The row of the context, which no other request reads.
LEMMA ContextRowInv ==
  ASSUME WorkspaceInv, NEW c \in WorkspaceCalls, ContextRow(c)
  PROVE  WorkspaceInv'
<1>1. request[c].pc = "context" /\ UNCHANGED <<items, layout, buildLog, lost, conversation, memories>>
      /\ Goes(c, [request[c] EXCEPT !.pc = request[c].then])
  BY DEF ContextRow, At
<1>2. PICK r : r = request[c]
  OBVIOUS
<1>3. PICK s : s = [r EXCEPT !.pc = r.then]
  OBVIOUS
<1>4. RequestOK(c, r) /\ r.pc = "context"
  BY <1>1, <1>2, RequestOf
<1>5. DOMAIN s = DOMAIN r /\ s.pc = r.then /\ \A x \in DOMAIN r : x # "pc" => s[x] = r[x]
  BY <1>3, <1>4 DEF RequestOK
<1>6. CASE r.then = "done"
  <2>1. RequestOK(c, s)
    BY <1>4, <1>5, <1>6 DEF RequestOK
  <2> QED BY <1>1, <1>2, <1>3, <1>5, <1>6, <2>1, RequestGoesOn
<1>7. CASE r.then = "select"
  <2>1. InitialState(r) /\ HasDocuments(c, 3) /\ {"n", "then", "pc"} \subseteq DOMAIN r
    BY <1>4, <1>7 DEF RequestOK
  <2>2. InitialState(s)
    BY <1>5, <2>1 DEF InitialState, ReadAt
  <2>3. RequestOK(c, s)
    BY <1>5, <1>7, <2>1, <2>2 DEF RequestOK
  <2> QED BY <1>1, <1>2, <1>3, <1>5, <1>7, <2>3, RequestGoesOn
<1> QED BY <1>4, <1>6, <1>7 DEF RequestOK

-----------------------------------------------------------------------------
\* A request writes a row of the items or the layout.
LEMMA RowsMove ==
  ASSUME WorkspaceInv, NEW c \in WorkspaceCalls, NEW s, request[c].pc # "done", Goes(c, s), RequestOK(c, s)', s.pc # "patch",
         items' \in [DOMAIN items' -> TextItem], ItemsGrow,
         \A d \in WorkspaceCalls \ {c}, m \in 1..3 : <<d, m>> \in DOMAIN items' <=> <<d, m>> \in DOMAIN items,
         LayoutGrows, layout'.version \in Nat,
         \A d \in WorkspaceCalls \ {c} : PatchState(d, request[d])',
         NoLostSave', ArtifactsByRuns', UNCHANGED <<buildLog, memories>>
  PROVE  WorkspaceInv'
<1>1. WorkspaceTypeOK /\ request'[c] = s /\ (\A d \in WorkspaceCalls \ {c} : request'[d] = request[d])
      /\ DOMAIN request' = WorkspaceCalls
  BY DEF WorkspaceInv, WorkspaceTypeOK, Goes
<1>2. BuildLogGrows /\ memories \subseteq memories'
  BY DEF BuildLogGrows
<1>3. WorkspaceTypeOK'
  BY <1>1 DEF WorkspaceTypeOK
<1>4. ASSUME NEW d \in WorkspaceCalls PROVE RequestOK(d, request[d])'
  <2>1. PICK t : t = request'[d]
    OBVIOUS
  <2>2. CASE d = c
    BY <1>1, <2>2 DEF RequestOK, InsertState, SeenState, LayoutState, InitialState, IterationState, BindingState, ReadAt, SameBinding
  <2>3. CASE d # c
    <3>1. RequestOK(d, t)
      BY <1>1, <2>1, <2>3 DEF WorkspaceInv
    <3>2. \A m \in 1..3 : <<d, m>> \in DOMAIN items' <=> <<d, m>> \in DOMAIN items
      BY <2>3
    <3>3. RequestOK(d, t)'
      BY <1>1, <1>2, <3>1, <3>2, RequestStays
    <3> QED BY <2>1, <3>3 DEF RequestOK, InsertState, SeenState, LayoutState, InitialState, IterationState, BindingState, ReadAt, SameBinding
  <2> QED BY <2>2, <2>3
<1>5. ASSUME NEW d \in WorkspaceCalls PROVE PatchState(d, request[d])'
  BY <1>1 DEF PatchState
<1>6. LogOK'
  <2>1. LogOK
    BY DEF WorkspaceInv
  <2>2. \A t : FirstTarget(t) => FirstTarget(t)'
    BY DEF FirstTarget, Initials
  <2>3. ASSUME NEW k \in DOMAIN buildLog, buildLog[k].kind # "bound" PROVE request'[buildLog[k].request].pc = "done"
    <3>1. buildLog[k] \in BuildEvent
      BY <1>1 DEF WorkspaceTypeOK
    <3>2. request[buildLog[k].request].pc = "done" /\ buildLog[k].request \in WorkspaceCalls
      BY <2>1, <2>3, <3>1 DEF LogOK, BuildEvent, BoundEvent, RequestEvent
    <3> QED BY <1>1, <3>2
  <2>4. Initials' = Initials /\ DOMAIN items \subseteq DOMAIN items'
    BY DEF Initials, ItemsGrow
  <2> QED BY <2>1, <2>2, <2>3, <2>4 DEF LogOK
<1>7. RepeatedOnlyByRace'
  BY DEF WorkspaceInv, RepeatedOnlyByRace
<1> QED BY <1>3, <1>4, <1>5, <1>6, <1>7 DEF WorkspaceInv

LEMMA RowAdded ==
  ASSUME NEW i, NEW row, i \notin DOMAIN items, items' = WithRow(i, row), items \in [DOMAIN items -> TextItem], row \in TextItem
  PROVE  /\ DOMAIN items' = DOMAIN items \cup {i} /\ items'[i] = row /\ (\A j \in DOMAIN items : items'[j] = items[j])
         /\ items' \in [DOMAIN items' -> TextItem]
<1>1. DOMAIN items' = DOMAIN items \cup {i} /\ items'[i] = row /\ (\A j \in DOMAIN items : items'[j] = items[j])
  BY DEF WithRow
<1>2. items' = [j \in DOMAIN items' |-> items'[j]]
  BY DEF WithRow
<1>3. \A j \in DOMAIN items' : items'[j] \in TextItem
  BY <1>1
<1> QED BY <1>1, <1>2, <1>3

LEMMA InsertItemInv ==
  ASSUME WorkspaceInv, NEW c \in WorkspaceCalls, InsertItem(c)
  PROVE  WorkspaceInv'
<1>1. PICK r : r = request[c]
  OBVIOUS
<1>2. /\ r.pc = "insert" /\ RequestOK(c, r) /\ InsertState(c, r) /\ conversation = NoCall /\ WorkspaceTypeOK
  BY <1>1, RequestOf DEF InsertItem, At, RowFree, RequestOK, WorkspaceInv
<1>3. PICK row : row = [origin |-> r.origin, version |-> 1, text |-> r.text, by |-> IF r.origin = "runtime" THEN "agent" ELSE "user"]
  OBVIOUS
<1>4. PICK i : i = <<c, r.n>>
  OBVIOUS
<1>5. /\ items' = WithRow(i, row) /\ Goes(c, [r EXCEPT !.pc = r.then])
      /\ UNCHANGED <<contextItems, layout, buildLog, memories, conversation, lost>>
  BY <1>1, <1>3, <1>4 DEF InsertItem
<1>6. row \in TextItem /\ row.version = 1 /\ (row.origin = "runtime" => row.by = "agent")
  BY <1>2, <1>3 DEF InsertState, TextItem
<1>7. r.n \in 1..3 /\ HasDocuments(c, r.n - 1) /\ i \notin DOMAIN items
  BY <1>2, <1>4 DEF InsertState, HasDocuments
<1>8. /\ DOMAIN items' = DOMAIN items \cup {i} /\ items'[i] = row /\ (\A j \in DOMAIN items : items'[j] = items[j])
      /\ items' \in [DOMAIN items' -> TextItem]
  BY <1>2, <1>5, <1>6, <1>7, RowAdded DEF WorkspaceTypeOK
<1>9. ItemsGrow
  BY <1>6, <1>8 DEF ItemsGrow
<1>10. \A d \in WorkspaceCalls \ {c}, m \in 1..3 : <<d, m>> \in DOMAIN items' <=> <<d, m>> \in DOMAIN items
  BY <1>4, <1>8
<1>11. HasDocuments(c, r.n)'
  <2>1. ASSUME NEW m \in 1..3 PROVE <<c, m>> \in DOMAIN items' <=> m <= r.n
    BY <1>4, <1>7, <1>8 DEF HasDocuments
  <2> QED BY <2>1 DEF HasDocuments
<1>12. PICK s : s = [r EXCEPT !.pc = r.then]
  OBVIOUS
<1>13. DOMAIN s = DOMAIN r /\ s.pc = r.then /\ \A x \in DOMAIN r : x # "pc" => s[x] = r[x]
  BY <1>2, <1>12 DEF RequestOK
<1>14. RequestOK(c, s)' /\ s.pc # "patch"
  <2>1. CASE r.then = "done"
    BY <1>2, <1>13, <2>1 DEF RequestOK
  <2>2. CASE r.then # "done"
    <3>1. /\ InitialState(r) /\ ((r.then = "next" /\ r.n < 3) \/ (r.then = "select" /\ r.n = 3))
          /\ {"pc", "n", "then"} \subseteq DOMAIN r /\ buildLog' = buildLog
      BY <1>2, <1>5, <2>2 DEF InsertState, RequestOK
    <3>2. InitialState(s)'
      BY <1>13, <3>1 DEF InitialState, ReadAt
    <3>3. HasDocuments(c, s.n)' /\ s.n = r.n
      BY <1>11, <1>13, <3>1
    <3>4. s.pc = "select" => HasDocuments(c, 3)'
      BY <1>11, <1>13, <3>1
    <3>5. s.pc = "next" => s.n \in 1..2
      BY <1>7, <1>13, <3>1, <3>3
    <3> QED BY <1>13, <3>1, <3>2, <3>3, <3>4, <3>5 DEF RequestOK
  <2> QED BY <2>1, <2>2
<1>15. \A d \in WorkspaceCalls \ {c} : PatchState(d, request[d])'
  <2>1. ASSUME NEW d \in WorkspaceCalls \ {c} PROVE request'[d].pc # "patch"
    <3>1. request[d].pc # "patch"
      BY <1>2, WorkspaceAssumption DEF WorkspaceInv, PatchState
    <3> QED BY <1>2, <1>5, <3>1 DEF Goes, WorkspaceTypeOK
  <2> QED BY <2>1 DEF PatchState
<1>16. NoLostSave' /\ ArtifactsByRuns'
  BY <1>5, <1>6, <1>8 DEF WorkspaceInv, NoLostSave, ArtifactsByRuns
<1>17. LayoutGrows /\ layout'.version \in Nat /\ request[c].pc # "done" /\ Goes(c, s) /\ UNCHANGED <<buildLog, memories>>
  BY <1>1, <1>2, <1>5, <1>12 DEF LayoutGrows, WorkspaceTypeOK
<1> QED BY <1>8, <1>9, <1>10, <1>14, <1>15, <1>16, <1>17, RowsMove

\* A text is replaced under the next version.
LEMMA RowReplaced ==
  ASSUME WorkspaceTypeOK, NEW i \in DOMAIN items, NEW text \in Texts, NEW by \in {"agent", "user"}, NEW seen, NEW racing,
         Replaces(i, text, by, seen, racing)
  PROVE  /\ DOMAIN items' = DOMAIN items /\ items' \in [DOMAIN items' -> TextItem] /\ ItemsGrow
         /\ items'[i].text = text /\ items'[i].by = by /\ items'[i].origin = items[i].origin
         /\ \A j \in DOMAIN items \ {i} : items'[j] = items[j]
         /\ lost' = IF items[i].text = seen THEN lost ELSE lost \cup {[by |-> by, of |-> items[i].by, racing |-> racing]}
<1>1. PICK row : row = [items[i] EXCEPT !.text = text, !.version = items[i].version + 1, !.by = by]
  OBVIOUS
<1>2. items[i] \in TextItem
  BY DEF WorkspaceTypeOK
<1>3. items' = [items EXCEPT ![i] = row]
  BY <1>1, <1>2 DEF Replaces, TextItem
<1>4. row \in TextItem /\ row.version = items[i].version + 1 /\ row.text = text /\ row.by = by /\ row.origin = items[i].origin
  <2>1. PICK v : v = items[i].version + 1
    OBVIOUS
  <2>2. v \in Nat \ {0} /\ row = [items[i] EXCEPT !.text = text, !.version = v, !.by = by]
    BY <1>1, <1>2, <2>1 DEF TextItem
  <2>3. row \in TextItem
    BY <1>2, <2>2 DEF TextItem
  <2>4. row.version = v /\ row.text = text /\ row.by = by /\ row.origin = items[i].origin
    BY <1>2, <2>2 DEF TextItem
  <2> QED BY <2>1, <2>3, <2>4
<1>5. DOMAIN items' = DOMAIN items /\ items'[i] = row /\ \A j \in DOMAIN items \ {i} : items'[j] = items[j]
  BY <1>3
<1>6. items' \in [DOMAIN items' -> TextItem]
  BY <1>3, <1>4, <1>5 DEF WorkspaceTypeOK
<1>7. ItemsGrow
  BY <1>4, <1>5 DEF ItemsGrow
<1>8. lost' = IF items[i].text = seen THEN lost ELSE lost \cup {[by |-> by, of |-> items[i].by, racing |-> racing]}
  BY DEF Replaces
<1> QED BY <1>4, <1>5, <1>6, <1>7, <1>8

LEMMA EndedState == ASSUME NEW c PROVE RequestOK(c, Ended)' /\ Ended.pc = "done"
  BY DEF RequestOK, Ended

\* The version was seen, so the text was: the user replaces nothing unseen.
LEMMA UpdateDocumentInv ==
  ASSUME WorkspaceInv, NEW c \in WorkspaceCalls, NEW text \in Texts, UpdateDocument(c, text)
  PROVE  WorkspaceInv'
<1>1. PICK r : r = request[c]
  OBVIOUS
<1>2. PICK i : i = r.item
  OBVIOUS
<1>3. r.pc = "user" /\ RequestOK(c, r) /\ WorkspaceTypeOK /\ Goes(c, Ended) /\ UNCHANGED <<layout, buildLog, memories, conversation>>
  BY <1>1, RequestOf DEF UpdateDocument, At, WorkspaceInv
<1>4. SeenState(r) /\ i \in DOMAIN items
  BY <1>2, <1>3 DEF RequestOK
<1>5. CASE UNCHANGED <<items, lost>>
  <2>1. \A d \in WorkspaceCalls \ {c} : conversation = d => conversation' = d
    BY <1>3
  <2> QED BY <1>1, <1>3, <1>5, <2>1, RequestEnds
<1>6. CASE items[i].origin # "runtime" /\ items[i].version = r.seen.version /\ Replaces(i, text, "user", r.seen.text, FALSE)
  <2>1. /\ DOMAIN items' = DOMAIN items /\ items' \in [DOMAIN items' -> TextItem] /\ ItemsGrow
        /\ items'[i].text = text /\ items'[i].by = "user" /\ items'[i].origin = items[i].origin
        /\ \A j \in DOMAIN items \ {i} : items'[j] = items[j]
        /\ lost' = IF items[i].text = r.seen.text THEN lost ELSE lost \cup {[by |-> "user", of |-> items[i].by, racing |-> FALSE]}
    <3>1. PICK by, seen, racing : by = "user" /\ seen = r.seen.text /\ racing = FALSE
      OBVIOUS
    <3>2. i \in DOMAIN items /\ by \in {"agent", "user"} /\ Replaces(i, text, by, seen, racing) /\ WorkspaceTypeOK
      BY <1>3, <1>4, <1>6, <3>1
    <3>3. /\ DOMAIN items' = DOMAIN items /\ items' \in [DOMAIN items' -> TextItem] /\ ItemsGrow
          /\ items'[i].text = text /\ items'[i].by = by /\ items'[i].origin = items[i].origin
          /\ \A j \in DOMAIN items \ {i} : items'[j] = items[j]
          /\ lost' = IF items[i].text = seen THEN lost ELSE lost \cup {[by |-> by, of |-> items[i].by, racing |-> racing]}
      BY <3>2, RowReplaced
    <3> QED BY <3>1, <3>3
  <2>2. lost' = lost
    BY <1>2, <1>4, <1>6, <2>1 DEF SeenState
  <2>3. NoLostSave' /\ ArtifactsByRuns'
    BY <1>6, <2>1, <2>2 DEF WorkspaceInv, NoLostSave, ArtifactsByRuns
  <2>4. ASSUME NEW d \in WorkspaceCalls \ {c} PROVE PatchState(d, request[d])'
    <3>1. PatchState(d, request[d]) /\ request'[d] = request[d]
      BY <1>3 DEF WorkspaceInv, WorkspaceTypeOK, Goes
    <3> QED BY <1>3, <2>1, <3>1 DEF PatchState, TextOf
  <2>5. LayoutGrows /\ layout'.version \in Nat /\ request[c].pc # "done"
    BY <1>1, <1>3 DEF LayoutGrows, WorkspaceTypeOK
  <2>6. \A d \in WorkspaceCalls \ {c}, m \in 1..3 : <<d, m>> \in DOMAIN items' <=> <<d, m>> \in DOMAIN items
    BY <2>1
  <2>7. PICK s : s = Ended
    OBVIOUS
  <2>8. RequestOK(c, s)' /\ s.pc # "patch" /\ Goes(c, s)
    BY <1>3, <2>7, EndedState DEF RequestOK, Ended
  <2> QED BY <1>3, <2>1, <2>3, <2>4, <2>5, <2>6, <2>8, RowsMove
<1> QED BY <1>1, <1>2, <1>5, <1>6 DEF UpdateDocument

LEMMA PatchBeginInv ==
  ASSUME WorkspaceInv, NEW c \in WorkspaceCalls, PatchBegin(c)
  PROVE  WorkspaceInv'
<1>1. PICK r : r = request[c]
  OBVIOUS
<1>2. /\ r.pc = "agent" /\ RequestOK(c, r) /\ conversation = NoCall
      /\ UNCHANGED <<items, layout, buildLog, lost, memories>>
  BY <1>1, RequestOf DEF PatchBegin, At, RowFree
<1>3. \A d \in WorkspaceCalls : conversation # d
  BY <1>2, WorkspaceAssumption
<1>4. CASE Goes(c, Ended)
  BY <1>1, <1>2, <1>3, <1>4, RequestEnds
<1>5. CASE TextOf(r.item) = r.seen.text /\ conversation' = c /\ Goes(c, [r EXCEPT !.pc = "patch"])
  <2>1. PICK s : s = [r EXCEPT !.pc = "patch"]
    OBVIOUS
  <2>2. SeenState(r) /\ "pc" \in DOMAIN r
    BY <1>2 DEF RequestOK
  <2>3. DOMAIN s = DOMAIN r /\ s.pc = "patch" /\ s.item = r.item /\ s.seen = r.seen
    BY <2>1, <2>2 DEF SeenState
  <2>4. SeenState(s)
    BY <2>2, <2>3 DEF SeenState
  <2>a. SeenState(s)'
    BY <1>2, <2>4 DEF SeenState
  <2>5. RequestOK(c, s)'
    BY <2>2, <2>3, <2>a DEF RequestOK
  <2>6. PatchState(c, s)'
    BY <1>2, <1>5, <2>3 DEF PatchState, TextOf
  <2>7. request' = [request EXCEPT ![c] = s] /\ request[c].pc # "done" /\ memories \subseteq memories'
    BY <1>1, <1>2, <1>5, <2>1 DEF Goes
  <2>8. \A d \in WorkspaceCalls \ {c} : conversation = d => conversation' = d
    BY <1>3
  <2> QED BY <1>2, <2>5, <2>6, <2>7, <2>8, RequestGoes
<1> QED BY <1>1, <1>4, <1>5 DEF PatchBegin

\* What a patch replaces unseen was saved by the user since the check.
LEMMA PatchCommitInv ==
  ASSUME WorkspaceInv, NEW c \in WorkspaceCalls, NEW text \in Texts, PatchCommit(c, text)
  PROVE  WorkspaceInv'
<1>1. PICK r : r = request[c]
  OBVIOUS
<1>2. PICK i : i = r.item
  OBVIOUS
<1>3. /\ r.pc = "patch" /\ RequestOK(c, r) /\ PatchState(c, r) /\ WorkspaceTypeOK /\ Goes(c, Ended)
      /\ UNCHANGED <<layout, buildLog, memories>>
  BY <1>1, RequestOf DEF PatchCommit, At, WorkspaceInv
<1>4. SeenState(r) /\ conversation = c /\ (TextOf(i) = r.seen.text \/ (i \in DOMAIN items /\ items[i].by = "user"))
  BY <1>2, <1>3 DEF RequestOK, PatchState
<1>5. ASSUME NEW d \in WorkspaceCalls \ {c} PROVE PatchState(d, request[d])'
  <2>1. request[d].pc # "patch" /\ request'[d] = request[d]
    BY <1>3, <1>4 DEF WorkspaceInv, PatchState, Goes, WorkspaceTypeOK
  <2> QED BY <2>1 DEF PatchState
<1>6. LayoutGrows /\ layout'.version \in Nat /\ request[c].pc # "done"
  BY <1>1, <1>3 DEF LayoutGrows, WorkspaceTypeOK
<1>7. PICK s : s = Ended
  OBVIOUS
<1>8. RequestOK(c, s)' /\ s.pc # "patch" /\ Goes(c, s)
  BY <1>3, <1>7, EndedState DEF RequestOK, Ended
<1>9. CASE i \in DOMAIN items /\ Replaces(i, text, "agent", r.seen.text, TRUE)
  <2>1. /\ DOMAIN items' = DOMAIN items /\ items' \in [DOMAIN items' -> TextItem] /\ ItemsGrow
        /\ items'[i].by = "agent" /\ (\A j \in DOMAIN items \ {i} : items'[j] = items[j])
        /\ lost' = IF items[i].text = r.seen.text THEN lost ELSE lost \cup {[by |-> "agent", of |-> items[i].by, racing |-> TRUE]}
    <3>1. PICK by, seen, racing : by = "agent" /\ seen = r.seen.text /\ racing = TRUE
      OBVIOUS
    <3>2. i \in DOMAIN items /\ by \in {"agent", "user"} /\ Replaces(i, text, by, seen, racing) /\ WorkspaceTypeOK
      BY <1>3, <1>4, <1>9, <3>1
    <3>3. /\ DOMAIN items' = DOMAIN items /\ items' \in [DOMAIN items' -> TextItem] /\ ItemsGrow
          /\ items'[i].text = text /\ items'[i].by = by /\ items'[i].origin = items[i].origin
          /\ \A j \in DOMAIN items \ {i} : items'[j] = items[j]
          /\ lost' = IF items[i].text = seen THEN lost ELSE lost \cup {[by |-> by, of |-> items[i].by, racing |-> racing]}
      BY <3>2, RowReplaced
    <3> QED BY <3>1, <3>3
  <2>2. items[i].text # r.seen.text => items[i].by = "user"
    BY <1>4, <1>9 DEF TextOf
  <2>3. NoLostSave'
    BY <2>1, <2>2 DEF WorkspaceInv, NoLostSave
  <2>4. ArtifactsByRuns'
    BY <2>1 DEF WorkspaceInv, ArtifactsByRuns
  <2>5. \A d \in WorkspaceCalls \ {c}, m \in 1..3 : <<d, m>> \in DOMAIN items' <=> <<d, m>> \in DOMAIN items
    BY <2>1
  <2> QED BY <1>3, <1>5, <1>6, <1>8, <2>1, <2>3, <2>4, <2>5, RowsMove
<1>10. CASE i \notin DOMAIN items
  <2>1. PICK row : row = [origin |-> "runtime", version |-> 1, text |-> text, by |-> "agent"]
    OBVIOUS
  <2>2. items' = WithRow(i, row) /\ lost' = lost
    BY <1>1, <1>2, <1>10, <2>1 DEF PatchCommit
  <2>3. row \in TextItem /\ row.version = 1 /\ row.by = "agent"
    BY <2>1 DEF TextItem, Origins
  <2>4. /\ DOMAIN items' = DOMAIN items \cup {i} /\ items'[i] = row /\ (\A j \in DOMAIN items : items'[j] = items[j])
        /\ items' \in [DOMAIN items' -> TextItem]
    BY <1>3, <1>10, <2>2, <2>3, RowAdded DEF WorkspaceTypeOK
  <2>5. ItemsGrow
    BY <2>3, <2>4 DEF ItemsGrow
  <2>6. i = Page
    BY <1>2, <1>4, <1>10 DEF SeenState
  <2>7. \A d \in WorkspaceCalls \ {c}, m \in 1..3 : <<d, m>> \in DOMAIN items' <=> <<d, m>> \in DOMAIN items
    BY <2>4, <2>6, WorkspaceAssumption
  <2>8. NoLostSave' /\ ArtifactsByRuns'
    BY <2>2, <2>3, <2>4 DEF WorkspaceInv, NoLostSave, ArtifactsByRuns
  <2> QED BY <1>3, <1>5, <1>6, <1>8, <2>4, <2>5, <2>7, <2>8, RowsMove
<1> QED BY <1>1, <1>2, <1>9, <1>10 DEF PatchCommit

LEMMA SaveLayoutInv ==
  ASSUME WorkspaceInv, NEW c \in WorkspaceCalls, NEW open, SaveLayout(c, open)
  PROVE  WorkspaceInv'
<1>1. PICK r : r = request[c]
  OBVIOUS
<1>2. /\ r.pc = "layout" /\ RequestOK(c, r) /\ WorkspaceTypeOK /\ Goes(c, Ended)
      /\ UNCHANGED <<items, buildLog, memories, conversation>>
  BY <1>1, RequestOf DEF SaveLayout, At, WorkspaceInv
<1>3. LayoutState(r)
  BY <1>2 DEF RequestOK
<1>4. CASE UNCHANGED <<layout, lost>>
  <2>1. \A d \in WorkspaceCalls \ {c} : conversation = d => conversation' = d
    BY <1>2
  <2> QED BY <1>1, <1>2, <1>4, <2>1, RequestEnds
<1>5. CASE /\ layout.version = r.version /\ layout' = [version |-> layout.version + 1, open |-> open, by |-> c]
           /\ lost' = IF layout.by = r.by THEN lost ELSE lost \cup {[by |-> "layout", of |-> "layout", racing |-> FALSE]}
  <2>1. LayoutGrows /\ layout'.version \in Nat /\ lost' = lost /\ request[c].pc # "done"
    BY <1>1, <1>2, <1>3, <1>5 DEF LayoutGrows, LayoutState, WorkspaceTypeOK
  <2>2. ItemsGrow /\ items' \in [DOMAIN items' -> TextItem]
    BY <1>2 DEF ItemsGrow, WorkspaceTypeOK
  <2>3. NoLostSave' /\ ArtifactsByRuns'
    BY <1>2, <2>1 DEF WorkspaceInv, NoLostSave, ArtifactsByRuns
  <2>4. ASSUME NEW d \in WorkspaceCalls \ {c} PROVE PatchState(d, request[d])'
    <3>1. PatchState(d, request[d]) /\ request'[d] = request[d]
      BY <1>2 DEF WorkspaceInv, WorkspaceTypeOK, Goes
    <3> QED BY <1>2, <3>1 DEF PatchState, TextOf
  <2>5. PICK s : s = Ended
    OBVIOUS
  <2>6. RequestOK(c, s)' /\ s.pc # "patch" /\ Goes(c, s)
    BY <1>2, <2>5, EndedState DEF RequestOK, Ended
  <2>7. \A d \in WorkspaceCalls \ {c}, m \in 1..3 : <<d, m>> \in DOMAIN items' <=> <<d, m>> \in DOMAIN items
    BY <1>2
  <2> QED BY <1>2, <2>1, <2>2, <2>3, <2>4, <2>6, <2>7, RowsMove
<1> QED BY <1>1, <1>4, <1>5 DEF SaveLayout

LEMMA CallDiesInv ==
  ASSUME WorkspaceInv, NEW c \in WorkspaceCalls, WorkspaceCallDies(c)
  PROVE  WorkspaceInv'
<1>1. /\ request[c].pc # "done" /\ Goes(c, Ended) /\ UNCHANGED <<items, layout, buildLog, lost, memories>>
      /\ \A d \in WorkspaceCalls \ {c} : conversation = d => conversation' = d
  BY DEF WorkspaceCallDies
<1> QED BY <1>1, RequestEnds

-----------------------------------------------------------------------------
(* Builds *)

LEMMA FirstInitialIs ==
  ASSUME WorkspaceTypeOK, Initials # {}
  PROVE  \E k \in Initials : FirstInitial = buildLog[k] /\ (\A j \in Initials : k <= j) /\ buildLog[k] \in RequestEvent
<1>1. buildLog \in Seq(BuildEvent)
  BY DEF WorkspaceTypeOK
<1>2. Initials \subseteq Nat
  BY <1>1 DEF Initials
<1>3. \E k \in Initials : \A j \in Initials : k <= j
  BY <1>2, LeastPosition
<1>4. PICK k : k = CHOOSE f \in Initials : \A j \in Initials : f <= j
  OBVIOUS
<1>5. k \in Initials /\ \A j \in Initials : k <= j
  BY <1>3, <1>4
<1>6. buildLog[k] \in BuildEvent /\ buildLog[k].kind = "initial"
  BY <1>1, <1>5 DEF Initials
<1>7. buildLog[k] \in RequestEvent
  BY <1>6 DEF BuildEvent, BoundEvent
<1> QED BY <1>4, <1>5, <1>7 DEF FirstInitial

LEMMA StartBuildInv ==
  ASSUME WorkspaceInv, NEW c \in WorkspaceCalls, NEW target \in BuildTargets, StartBuild(c, target)
  PROVE  WorkspaceInv'
<1>1. request[c].pc = "new" /\ UNCHANGED <<items, layout, buildLog, lost, conversation, memories>> /\ buildLog \in Seq(BuildEvent)
  BY DEF StartBuild, At, WorkspaceInv, WorkspaceTypeOK
<1>2. PICK s : s = [pc |-> "document", kind |-> "initial", target |-> target, readAt |-> Len(buildLog), n |-> 1,
                    origin |-> "user", text |-> NoText, item |-> <<c, 1>>, selected |-> TRUE, then |-> "next"]
  OBVIOUS
<1>3. CASE Goes(c, Ended)
  BY <1>1, <1>3, RequestEnds
<1>4. CASE Initials = {} /\ Goes(c, s)
  <2>1. /\ DOMAIN s = {"pc", "kind", "target", "readAt", "n", "origin", "text", "item", "selected", "then"}
        /\ s.pc = "document" /\ s.kind = "initial" /\ s.target = target /\ s.readAt = Len(buildLog) /\ s.n = 1 /\ s.origin = "user"
    BY <1>2
  <2>2. Len(buildLog) \in Nat /\ \A j \in 1 .. Len(buildLog) : buildLog[j].kind # "initial"
    BY <1>1, <1>4 DEF Initials
  <2>3. InitialState(s)
    BY <2>1, <2>2 DEF InitialState, ReadAt
  <2>4. HasDocuments(c, 0)
    BY <1>1, RequestOf DEF RequestOK
  <2>5. HasDocuments(c, s.n - 1) /\ s.n \in 1..3
    BY <2>1, <2>4
  <2>6. RequestOK(c, s)
    BY <2>1, <2>3, <2>5 DEF RequestOK
  <2> QED BY <1>1, <1>4, <2>1, <2>6, RequestGoesOn
<1> QED BY <1>2, <1>3, <1>4 DEF StartBuild

\* A build that goes on keeps what it has read of the log.
LEMMA InitialCarried ==
  ASSUME NEW r, NEW s, InitialState(r), DOMAIN s = DOMAIN r, s.kind = r.kind, s.target = r.target, s.readAt = r.readAt, s.origin = r.origin
  PROVE  InitialState(s)
  BY DEF InitialState, ReadAt

LEMMA BuildDocumentInv ==
  ASSUME WorkspaceInv, NEW c \in WorkspaceCalls, NEW text \in Texts, BuildDocument(c, text)
  PROVE  WorkspaceInv'
<1>1. PICK r : r = request[c]
  OBVIOUS
<1>2. /\ r.pc = "document" /\ RequestOK(c, r) /\ UNCHANGED <<items, layout, buildLog, lost, conversation, memories>>
  BY <1>1, RequestOf DEF BuildDocument, At
<1>3. "pc" \in DOMAIN r /\ InitialState(r) /\ r.n \in 1..3 /\ HasDocuments(c, r.n - 1)
  BY <1>2 DEF RequestOK
<1>4. PICK then : then = IF r.n = 3 THEN "select" ELSE "next"
  OBVIOUS
<1>5. PICK s : s = [r EXCEPT !.pc = "insert", !.text = text, !.then = then]
  OBVIOUS
<1>6. CASE Goes(c, Ended)
  BY <1>1, <1>2, <1>6, RequestEnds
<1>7. CASE Goes(c, s)
  <2>1. /\ DOMAIN s = DOMAIN r /\ s.pc = "insert" /\ s.text = text /\ s.then = then /\ s.n = r.n
        /\ s.kind = r.kind /\ s.target = r.target /\ s.readAt = r.readAt /\ s.origin = r.origin
    BY <1>3, <1>5 DEF InitialState
  <2>2. InitialState(s)
    BY <1>3, <2>1, InitialCarried
  <2>3. (then = "next" /\ r.n < 3) \/ (then = "select" /\ r.n = 3)
    BY <1>3, <1>4
  <2>4. InsertState(c, s)
    BY <1>3, <2>1, <2>2, <2>3 DEF InsertState, InitialState, Origins
  <2>5. RequestOK(c, s)
    BY <1>3, <2>1, <2>4 DEF RequestOK
  <2> QED BY <1>1, <1>2, <1>7, <2>1, <2>5, RequestGoesOn
<1> QED BY <1>1, <1>4, <1>5, <1>6, <1>7 DEF BuildDocument

LEMMA NextDocumentInv ==
  ASSUME WorkspaceInv, NEW c \in WorkspaceCalls, NextDocument(c)
  PROVE  WorkspaceInv'
<1>1. PICK r : r = request[c]
  OBVIOUS
<1>2. /\ r.pc = "next" /\ RequestOK(c, r) /\ UNCHANGED <<items, layout, buildLog, lost, conversation, memories>>
  BY <1>1, RequestOf DEF NextDocument, At
<1>3. "pc" \in DOMAIN r /\ InitialState(r) /\ r.n \in 1..2 /\ HasDocuments(c, r.n)
  BY <1>2 DEF RequestOK
<1>4. PICK s : s = [r EXCEPT !.pc = "document", !.n = r.n + 1]
  OBVIOUS
<1>5. Goes(c, s)
  BY <1>1, <1>3, <1>4 DEF NextDocument, InitialState
<1>6. /\ DOMAIN s = DOMAIN r /\ s.pc = "document" /\ s.n = r.n + 1
      /\ s.kind = r.kind /\ s.target = r.target /\ s.readAt = r.readAt /\ s.origin = r.origin
  BY <1>3, <1>4 DEF InitialState
<1>7. InitialState(s)
  BY <1>3, <1>6, InitialCarried
<1>8. s.n - 1 = r.n /\ s.n \in 1..3
  BY <1>3, <1>6
<1>9. HasDocuments(c, s.n - 1) /\ "n" \in DOMAIN s
  BY <1>3, <1>6, <1>8 DEF InitialState
<1>10. RequestOK(c, s)
  BY <1>3, <1>6, <1>7, <1>8, <1>9 DEF RequestOK
<1> QED BY <1>1, <1>2, <1>5, <1>6, <1>10, RequestGoesOn

LEMMA BuildContextInv ==
  ASSUME WorkspaceInv, NEW c \in WorkspaceCalls, BuildContext(c)
  PROVE  WorkspaceInv'
<1>1. PICK r : r = request[c]
  OBVIOUS
<1>2. /\ r.pc = "select" /\ RequestOK(c, r) /\ UNCHANGED <<items, layout, buildLog, lost, conversation, memories>>
  BY <1>1, RequestOf DEF BuildContext, At
<1>3. "pc" \in DOMAIN r /\ InitialState(r) /\ HasDocuments(c, 3)
  BY <1>2 DEF RequestOK
<1>4. PICK s : s = [r EXCEPT !.pc = "remember"]
  OBVIOUS
<1>5. PICK t : t = [r EXCEPT !.pc = "context", !.item = <<c, 4 - r.n>>, !.then = "select", !.n = r.n - 1]
  OBVIOUS
<1>6. CASE Goes(c, Ended)
  BY <1>1, <1>2, <1>6, RequestEnds
<1>7. CASE Goes(c, s)
  <2>1. /\ DOMAIN s = DOMAIN r /\ s.pc = "remember"
        /\ s.kind = r.kind /\ s.target = r.target /\ s.readAt = r.readAt /\ s.origin = r.origin
    BY <1>3, <1>4 DEF InitialState
  <2>2. InitialState(s)
    BY <1>3, <2>1, InitialCarried
  <2>3. RequestOK(c, s)
    BY <1>3, <2>1, <2>2 DEF RequestOK
  <2> QED BY <1>1, <1>2, <1>7, <2>1, <2>3, RequestGoesOn
<1>8. CASE Goes(c, t)
  <2>1. /\ DOMAIN t = DOMAIN r /\ t.pc = "context" /\ t.then = "select"
        /\ t.kind = r.kind /\ t.target = r.target /\ t.readAt = r.readAt /\ t.origin = r.origin
    BY <1>3, <1>5 DEF InitialState
  <2>2. InitialState(t)
    BY <1>3, <2>1, InitialCarried
  <2>3. "then" \in DOMAIN t /\ "n" \in DOMAIN t
    BY <2>2 DEF InitialState
  <2>4. RequestOK(c, t)
    BY <1>3, <2>1, <2>2, <2>3 DEF RequestOK
  <2> QED BY <1>1, <1>2, <1>8, <2>1, <2>4, RequestGoesOn
<1> QED BY <1>1, <1>4, <1>5, <1>6, <1>7, <1>8 DEF BuildContext

LEMMA PromoteSpecInv ==
  ASSUME WorkspaceInv, NEW c \in WorkspaceCalls, PromoteSpec(c)
  PROVE  WorkspaceInv'
<1>1. PICK r : r = request[c]
  OBVIOUS
<1>2. /\ r.pc = "remember" /\ RequestOK(c, r) /\ UNCHANGED <<items, layout, buildLog, lost, conversation>>
      /\ memories' = memories \cup {c} /\ Goes(c, [r EXCEPT !.pc = "announce"])
  BY <1>1, RequestOf DEF PromoteSpec, At
<1>3. PICK s : s = [r EXCEPT !.pc = "announce"]
  OBVIOUS
<1>4. "pc" \in DOMAIN r /\ ((InitialState(r) /\ HasDocuments(c, 3)) \/ IterationState(r))
  BY <1>2 DEF RequestOK
<1>5. DOMAIN s = DOMAIN r /\ s.pc = "announce" /\ \A x \in DOMAIN r : x # "pc" => s[x] = r[x]
  BY <1>3, <1>4
<1>6. InitialState(r) => InitialState(s)'
  BY <1>2, <1>5 DEF InitialState, ReadAt
<1>7. IterationState(r) => IterationState(s)'
  <2>1. IterationState(r) => FirstTarget(r.target)'
    BY <1>2 DEF IterationState, FirstTarget, Initials
  <2> QED BY <1>2, <1>5, <2>1 DEF IterationState, ReadAt
<1>8. HasDocuments(c, 3) => HasDocuments(c, 3)'
  BY <1>2 DEF HasDocuments
<1>9. RequestOK(c, s)'
  BY <1>2, <1>4, <1>5, <1>6, <1>7, <1>8 DEF RequestOK
<1>10. PatchState(c, s)'
  BY <1>5 DEF PatchState
<1>11. request[c].pc # "done" /\ request' = [request EXCEPT ![c] = s] /\ memories \subseteq memories'
       /\ \A d \in WorkspaceCalls \ {c} : conversation = d => conversation' = d
  BY <1>1, <1>2, <1>3 DEF Goes
<1> QED BY <1>2, <1>9, <1>10, <1>11, RequestGoes

LEMMA RequestIterationInv ==
  ASSUME WorkspaceInv, NEW c \in WorkspaceCalls, NEW ref, RequestIteration(c, ref)
  PROVE  WorkspaceInv'
<1>1. request[c].pc = "new" /\ UNCHANGED <<items, layout, buildLog, lost, conversation, memories>> /\ WorkspaceTypeOK
  BY DEF RequestIteration, At, WorkspaceInv
<1>2. PICK s : s = [pc |-> "target", kind |-> "iteration", target |-> FirstInitial.target, ref |-> ref, readAt |-> Len(buildLog)]
  OBVIOUS
<1>3. CASE Goes(c, Ended)
  BY <1>1, <1>3, RequestEnds
<1>4. CASE Initials # {} /\ Goes(c, s)
  <2>1. /\ DOMAIN s = {"pc", "kind", "target", "ref", "readAt"}
        /\ s.pc = "target" /\ s.kind = "iteration" /\ s.target = FirstInitial.target /\ s.readAt = Len(buildLog)
    BY <1>2
  <2>2. PICK k \in Initials : FirstInitial = buildLog[k] /\ (\A j \in Initials : k <= j) /\ buildLog[k] \in RequestEvent
    BY <1>1, <1>4, FirstInitialIs
  <2>3. s.target \in BuildTargets /\ FirstTarget(s.target)
    BY <2>1, <2>2 DEF RequestEvent, FirstTarget
  <2>4. Len(buildLog) \in Nat
    BY <1>1 DEF WorkspaceTypeOK
  <2>5. IterationState(s)
    BY <2>1, <2>3, <2>4 DEF IterationState, ReadAt
  <2>6. RequestOK(c, s)
    BY <2>1, <2>5 DEF RequestOK
  <2> QED BY <1>1, <1>4, <2>1, <2>6, RequestGoesOn
<1> QED BY <1>2, <1>3, <1>4 DEF RequestIteration

LEMMA CheckTargetInv ==
  ASSUME WorkspaceInv, NEW c \in WorkspaceCalls, NEW rememberDecision, CheckTarget(c, rememberDecision)
  PROVE  WorkspaceInv'
<1>1. PICK r : r = request[c]
  OBVIOUS
<1>2. /\ r.pc = "target" /\ RequestOK(c, r) /\ UNCHANGED <<items, layout, buildLog, lost, conversation, memories>>
  BY <1>1, RequestOf DEF CheckTarget, At
<1>3. "pc" \in DOMAIN r /\ IterationState(r)
  BY <1>2 DEF RequestOK
<1>4. CASE Goes(c, Ended)
  BY <1>1, <1>2, <1>4, RequestEnds
<1>5. ASSUME NEW pc \in {"remember", "announce"}, Goes(c, [r EXCEPT !.pc = pc]) PROVE WorkspaceInv'
  <2>1. PICK s : s = [r EXCEPT !.pc = pc]
    OBVIOUS
  <2>2. DOMAIN s = DOMAIN r /\ s.pc = pc /\ \A x \in DOMAIN r : x # "pc" => s[x] = r[x]
    BY <1>3, <2>1
  <2>3. IterationState(s)
    BY <1>3, <2>2 DEF IterationState, ReadAt
  <2>4. RequestOK(c, s) /\ s.pc # "patch"
    BY <1>3, <2>2, <2>3 DEF RequestOK
  <2> QED BY <1>1, <1>2, <1>5, <2>1, <2>4, RequestGoesOn
<1>6. Goes(c, Ended) \/ \E pc \in {"remember", "announce"} : Goes(c, [r EXCEPT !.pc = pc])
  BY <1>1 DEF CheckTarget
<1> QED BY <1>4, <1>5, <1>6

LEMMA BindRunInv ==
  ASSUME WorkspaceInv, NEW c \in WorkspaceCalls, NEW run \in ProjectRuns, NEW k \in DOMAIN buildLog, BindRun(c, run, k)
  PROVE  WorkspaceInv'
<1>1. request[c].pc = "new" /\ UNCHANGED <<items, layout, buildLog, lost, conversation, memories>> /\ buildLog \in Seq(BuildEvent)
  BY DEF BindRun, At, WorkspaceInv, WorkspaceTypeOK
<1>2. PICK s : s = [pc |-> "announce", kind |-> "bound", run |-> run, request |-> buildLog[k].request, readAt |-> Len(buildLog)]
  OBVIOUS
<1>3. CASE Goes(c, Ended)
  BY <1>1, <1>3, RequestEnds
<1>4. CASE /\ \A j \in DOMAIN buildLog : ~(buildLog[j].kind = "bound" /\ buildLog[j].run = run /\ buildLog[j].request = buildLog[k].request)
           /\ Goes(c, s)
  <2>1. /\ DOMAIN s = {"pc", "kind", "run", "request", "readAt"}
        /\ s.pc = "announce" /\ s.kind = "bound" /\ s.run = run /\ s.request = buildLog[k].request /\ s.readAt = Len(buildLog)
    BY <1>2
  <2>2. buildLog[k] \in BuildEvent /\ DOMAIN buildLog = 1 .. Len(buildLog) /\ Len(buildLog) \in Nat
    BY <1>1
  <2>3. s.request \in WorkspaceCalls
    BY <2>1, <2>2 DEF BuildEvent, BoundEvent, RequestEvent
  <2>4. \A j \in 1 .. s.readAt : ~SameBinding(buildLog[j], s)
    BY <1>4, <2>1, <2>2 DEF SameBinding
  <2>5. BindingState(s)
    BY <2>1, <2>2, <2>3, <2>4 DEF BindingState, ReadAt
  <2>6. RequestOK(c, s)
    BY <2>1, <2>5 DEF RequestOK
  <2> QED BY <1>1, <1>4, <2>1, <2>6, RequestGoesOn
<1> QED BY <1>2, <1>3, <1>4 DEF BindRun

\* What an event says follows from what its request has read.
Announces(c, r, e) ==
  \/ /\ r.kind = "bound" /\ BindingState(r)
     /\ e = [kind |-> "bound", run |-> r.run, request |-> r.request, readAt |-> r.readAt]
  \/ /\ r.kind = "initial" /\ InitialState(r) /\ HasDocuments(c, 3) /\ c \in memories
     /\ e = [kind |-> "initial", request |-> c, target |-> r.target, readAt |-> r.readAt, documents |-> Documents(c), memory |-> c]
  \/ /\ r.kind = "iteration" /\ IterationState(r)
     /\ \E memory \in {c, NoCall} :
          e = [kind |-> "iteration", request |-> c, target |-> r.target, readAt |-> r.readAt, documents |-> {}, memory |-> memory]

LEMMA AnnouncedEvent ==
  ASSUME NEW c \in WorkspaceCalls, NEW r, NEW e, Announces(c, r, e)
  PROVE  /\ e \in BuildEvent /\ e.kind = r.kind /\ e.readAt = r.readAt /\ ReadAt(r)
         /\ e.kind # "bound" => e.request = c
         /\ e.kind = "initial" => InitialState(r) /\ e.documents = Documents(c) /\ e.documents \subseteq DOMAIN items /\ e.memory \in memories
         /\ e.kind = "iteration" => FirstTarget(e.target)
         /\ e.kind = "bound" => BindingState(r) /\ e.run = r.run /\ e.request = r.request
<1>1. CASE r.kind = "bound" /\ BindingState(r) /\ e = [kind |-> "bound", run |-> r.run, request |-> r.request, readAt |-> r.readAt]
  <2>1. e.kind = "bound" /\ e.run = r.run /\ e.request = r.request /\ e.readAt = r.readAt
    BY <1>1
  <2>2. ReadAt(r) /\ r.run \in ProjectRuns /\ r.request \in WorkspaceCalls
    BY <1>1 DEF BindingState
  <2>3. e \in BuildEvent
    BY <1>1, <2>2 DEF BuildEvent, BoundEvent, ReadAt
  <2> QED BY <1>1, <2>1, <2>2, <2>3
<1>2. CASE /\ r.kind = "initial" /\ InitialState(r) /\ HasDocuments(c, 3) /\ c \in memories
           /\ e = [kind |-> "initial", request |-> c, target |-> r.target, readAt |-> r.readAt, documents |-> Documents(c), memory |-> c]
  <2>1. e.kind = "initial" /\ e.request = c /\ e.readAt = r.readAt /\ e.documents = Documents(c) /\ e.memory = c
    BY <1>2
  <2>2. ReadAt(r) /\ r.target \in BuildTargets
    BY <1>2 DEF InitialState
  <2>3. Documents(c) \in SUBSET (WorkspaceCalls \X (1..3))
    BY DEF Documents
  <2>4. e \in RequestEvent
    BY <1>2, <2>2, <2>3 DEF RequestEvent, ReadAt
  <2>5. Documents(c) \subseteq DOMAIN items
    BY <1>2 DEF Documents, HasDocuments
  <2> QED BY <1>2, <2>1, <2>2, <2>4, <2>5 DEF BuildEvent
<1>3. CASE r.kind = "iteration" /\ IterationState(r)
  <2>1. PICK memory \in {c, NoCall} :
          e = [kind |-> "iteration", request |-> c, target |-> r.target, readAt |-> r.readAt, documents |-> {}, memory |-> memory]
    BY <1>3 DEF Announces
  <2>2. e.kind = "iteration" /\ e.request = c /\ e.readAt = r.readAt /\ e.target = r.target
    BY <2>1
  <2>3. ReadAt(r) /\ r.target \in BuildTargets /\ FirstTarget(r.target)
    BY <1>3 DEF IterationState
  <2>4. e \in RequestEvent
    BY <2>1, <2>3 DEF RequestEvent, ReadAt
  <2> QED BY <1>3, <2>2, <2>3, <2>4 DEF BuildEvent
<1> QED BY <1>1, <1>2, <1>3 DEF Announces

LEMMA EmitBuildInv ==
  ASSUME WorkspaceInv, NEW c \in WorkspaceCalls, EmitBuild(c)
  PROVE  WorkspaceInv'
<1>1. PICK r : r = request[c]
  OBVIOUS
<1>2. /\ r.pc = "announce" /\ RequestOK(c, r) /\ WorkspaceTypeOK /\ Goes(c, Ended)
      /\ UNCHANGED <<items, layout, lost, conversation, memories>>
  BY <1>1, RequestOf DEF EmitBuild, At, WorkspaceInv
<1>3. PICK e : e = IF r.kind = "bound" THEN [kind |-> "bound", run |-> r.run, request |-> r.request, readAt |-> r.readAt]
                   ELSE [kind |-> r.kind, request |-> c, target |-> r.target, readAt |-> r.readAt,
                         documents |-> IF r.kind = "initial" THEN Documents(c) ELSE {},
                         memory |-> IF r.kind = "initial" \/ c \in memories THEN c ELSE NoCall]
  OBVIOUS
<1>4. buildLog' = Append(buildLog, e)
  BY <1>1, <1>3 DEF EmitBuild
<1>5. Announces(c, r, e)
  <2>1. \/ InitialState(r) /\ HasDocuments(c, 3) /\ c \in memories
        \/ IterationState(r) \/ BindingState(r)
    BY <1>2 DEF RequestOK
  <2>2. CASE InitialState(r) /\ HasDocuments(c, 3) /\ c \in memories
    BY <1>3, <2>2 DEF Announces, InitialState
  <2>3. CASE IterationState(r)
    BY <1>3, <2>3 DEF Announces, IterationState
  <2>4. CASE BindingState(r)
    BY <1>3, <2>4 DEF Announces, BindingState
  <2> QED BY <2>1, <2>2, <2>3, <2>4
<1>6. /\ e \in BuildEvent /\ e.kind = r.kind /\ e.readAt = r.readAt /\ ReadAt(r)
      /\ e.kind # "bound" => e.request = c
      /\ e.kind = "initial" => InitialState(r) /\ e.documents = Documents(c) /\ e.documents \subseteq DOMAIN items /\ e.memory \in memories
      /\ e.kind = "iteration" => FirstTarget(e.target)
      /\ e.kind = "bound" => BindingState(r) /\ e.run = r.run /\ e.request = r.request
  BY <1>5, AnnouncedEvent
<1>7. buildLog \in Seq(BuildEvent) /\ BuildLogGrows
  BY <1>2, <1>4, <1>6 DEF WorkspaceTypeOK, BuildLogGrows
<1>8. PICK n : n = Len(buildLog)
  OBVIOUS
<1>9. /\ n \in Nat /\ DOMAIN buildLog = 1 .. n /\ DOMAIN buildLog' = 1 .. (n + 1) /\ buildLog'[n + 1] = e
      /\ \A j \in 1 .. n : buildLog'[j] = buildLog[j] /\ buildLog[j] \in BuildEvent
      /\ buildLog' \in Seq(BuildEvent)
  BY <1>4, <1>6, <1>7, <1>8
<1>10. request'[c].pc = "done" /\ (\A d \in WorkspaceCalls \ {c} : request'[d] = request[d]) /\ DOMAIN request' = WorkspaceCalls
  BY <1>2 DEF Goes, Ended, WorkspaceTypeOK
<1>11. WorkspaceTypeOK'
  BY <1>2, <1>9, <1>10 DEF WorkspaceTypeOK
<1>12. ASSUME NEW d \in WorkspaceCalls PROVE RequestOK(d, request[d])'
  <2>1. CASE d = c
    <3>1. request'[c] = Ended
      BY <1>2 DEF Goes, WorkspaceTypeOK
    <3> QED BY <2>1, <3>1 DEF RequestOK, Ended
  <2>2. CASE d # c
    <3>1. PICK t : t = request'[d]
      OBVIOUS
    <3>2. RequestOK(d, t)
      BY <1>10, <2>2, <3>1 DEF WorkspaceInv
    <3>3. ItemsGrow /\ LayoutGrows /\ memories \subseteq memories'
          /\ \A m \in 1..3 : <<d, m>> \in DOMAIN items' <=> <<d, m>> \in DOMAIN items
      BY <1>2 DEF ItemsGrow, LayoutGrows
    <3>4. RequestOK(d, t)'
      BY <1>2, <1>7, <3>2, <3>3, RequestStays
    <3> QED BY <3>1, <3>4 DEF RequestOK, InsertState, SeenState, LayoutState, InitialState, IterationState, BindingState, ReadAt, SameBinding
  <2> QED BY <2>1, <2>2
<1>13. ASSUME NEW d \in WorkspaceCalls PROVE PatchState(d, request[d])'
  <2>1. PatchState(d, request[d])
    BY DEF WorkspaceInv
  <2> QED BY <1>2, <1>10, <2>1 DEF PatchState, TextOf
<1>14. LogOK'
  <2>1. LogOK
    BY DEF WorkspaceInv
  <2>2. \A t : FirstTarget(t) => FirstTarget(t)'
    BY <1>7, FirstTargetStays
  <2>3. ASSUME NEW k \in 1 .. n, buildLog[k].kind # "bound"
        PROVE  buildLog[k].request # c /\ request'[buildLog[k].request].pc = "done"
    <3>1. request[buildLog[k].request].pc = "done" /\ buildLog[k].request \in WorkspaceCalls
      BY <1>9, <2>1, <2>3 DEF LogOK, BuildEvent, BoundEvent, RequestEvent
    <3> QED BY <1>1, <1>2, <1>10, <3>1
  <2>4. \A k \in DOMAIN buildLog' : k \in 1 .. n \/ (k = n + 1 /\ k \notin 1 .. n)
    BY <1>9
  <2>5. \A k \in DOMAIN buildLog' : buildLog'[k].kind # "bound" => request'[buildLog'[k].request].pc = "done"
    BY <1>6, <1>9, <1>10, <2>3, <2>4
  <2>6. \A j, k \in DOMAIN buildLog' : buildLog'[j].kind # "bound" /\ buildLog'[k].kind # "bound" /\ j # k
          => buildLog'[j].request # buildLog'[k].request
    BY <1>6, <1>9, <2>1, <2>3, <2>4 DEF LogOK
  <2>7. ASSUME NEW k \in Initials'
        PROVE  /\ buildLog'[k].documents = Documents(buildLog'[k].request)
               /\ buildLog'[k].documents \subseteq DOMAIN items' /\ buildLog'[k].memory \in memories'
    <3>1. k \in DOMAIN buildLog' /\ buildLog'[k].kind = "initial"
      BY DEF Initials
    <3>2. CASE k \in 1 .. n
      BY <1>2, <1>9, <2>1, <3>1, <3>2 DEF LogOK, Initials
    <3>3. CASE k = n + 1
      BY <1>2, <1>6, <1>9, <3>1, <3>3
    <3> QED BY <2>4, <3>1, <3>2, <3>3
  <2>8. ASSUME NEW k \in DOMAIN buildLog', buildLog'[k].kind = "iteration" PROVE FirstTarget(buildLog[k].target)'
    <3>1. PICK t : t = buildLog'[k].target
      OBVIOUS
    <3>2. FirstTarget(t)
      BY <1>6, <1>9, <2>1, <2>4, <2>8, <3>1 DEF LogOK
    <3> QED BY <2>2, <3>1, <3>2 DEF FirstTarget
  <2> QED BY <2>5, <2>6, <2>7, <2>8 DEF LogOK
<1>15. RepeatedOnlyByRace'
  <2>1. ASSUME NEW j \in DOMAIN buildLog', NEW k \in DOMAIN buildLog', j < k, buildLog'[j].kind = buildLog'[k].kind,
               \/ buildLog'[j].kind = "initial"
               \/ buildLog'[j].kind = "bound" /\ buildLog'[j].run = buildLog'[k].run /\ buildLog'[j].request = buildLog'[k].request
        PROVE  buildLog'[k].readAt < j
    <3>1. j \in 1 .. n
      BY <1>9, <2>1
    <3>2. CASE k \in 1 .. n
      BY <1>9, <2>1, <3>1, <3>2 DEF WorkspaceInv, RepeatedOnlyByRace
    <3>3. CASE k = n + 1
      <4>1. buildLog'[k] = e /\ buildLog'[j] = buildLog[j] /\ e.readAt = r.readAt /\ r.readAt \in Nat
        BY <1>6, <1>9, <3>1, <3>3 DEF ReadAt
      <4>2. ~(j \in 1 .. r.readAt)
        BY <1>6, <2>1, <4>1 DEF InitialState, BindingState, SameBinding
      <4> QED BY <3>1, <4>1, <4>2
    <3> QED BY <1>9, <3>2, <3>3
  <2> QED BY <2>1 DEF RepeatedOnlyByRace
<1>16. NoLostSave' /\ ArtifactsByRuns'
  BY <1>2 DEF WorkspaceInv, NoLostSave, ArtifactsByRuns
<1> QED BY <1>11, <1>12, <1>13, <1>14, <1>15, <1>16 DEF WorkspaceInv

-----------------------------------------------------------------------------
LEMMA WorkspaceInvInit == WorkspaceInit => WorkspaceInv
<1> SUFFICES ASSUME WorkspaceInit PROVE WorkspaceInv
  OBVIOUS
<1>1. /\ items = <<>> /\ buildLog = <<>> /\ lost = {} /\ layout.version = 0
      /\ request = [c \in WorkspaceCalls |-> [pc |-> "new"]]
  BY DEF WorkspaceInit
<1>2. DOMAIN items = {} /\ DOMAIN buildLog = {} /\ buildLog \in Seq(BuildEvent) /\ items \in [DOMAIN items -> TextItem]
  BY <1>1
<1>3. WorkspaceTypeOK
  BY <1>1, <1>2 DEF WorkspaceTypeOK
<1>4. ASSUME NEW c \in WorkspaceCalls PROVE RequestOK(c, request[c]) /\ PatchState(c, request[c])
  <2>1. request[c] = [pc |-> "new"]
    BY <1>1
  <2>2. DOMAIN request[c] = {"pc"} /\ request[c].pc = "new"
    BY <2>1
  <2>3. HasDocuments(c, 0)
    BY <1>2 DEF HasDocuments
  <2> QED BY <2>2, <2>3 DEF RequestOK, PatchState
<1>5. LogOK /\ RepeatedOnlyByRace /\ NoLostSave /\ ArtifactsByRuns
  BY <1>1, <1>2 DEF LogOK, RepeatedOnlyByRace, NoLostSave, ArtifactsByRuns, Initials
<1> QED BY <1>3, <1>4, <1>5 DEF WorkspaceInv

LEMMA WorkspaceStutters == ASSUME WorkspaceInv, UNCHANGED workspaceVars PROVE WorkspaceInv'
<1>1. UNCHANGED <<items, layout, buildLog, memories, conversation, request, lost>>
  BY DEF workspaceVars
<1> QED BY <1>1 DEF WorkspaceInv, WorkspaceTypeOK, RequestOK, InsertState, SeenState, LayoutState, InitialState, IterationState,
       BindingState, ReadAt, SameBinding, HasDocuments, FirstTarget, Initials, PatchState, TextOf, LogOK, RepeatedOnlyByRace, NoLostSave, ArtifactsByRuns

LEMMA WorkspaceInvNext == WorkspaceInv /\ [WorkspaceNext]_workspaceVars => WorkspaceInv'
<1> SUFFICES ASSUME WorkspaceInv, [WorkspaceNext]_workspaceVars PROVE WorkspaceInv'
  OBVIOUS
<1>1. ASSUME NEW c \in WorkspaceCalls,
             InsertItem(c) \/ ContextRow(c) \/ ReadAbsent(c) \/ PatchBegin(c) \/ LoadLayout(c) \/ WorkspaceCallDies(c)
      PROVE  WorkspaceInv'
  BY <1>1, InsertItemInv, ContextRowInv, LoadsInv, PatchBeginInv, CallDiesInv
<1>2. ASSUME NEW c \in WorkspaceCalls, NEW text \in Texts,
             \/ CreateDocument(c, text) \/ UpdateDocument(c, text) \/ PatchCommit(c, text)
             \/ \E supported \in BOOLEAN : ImportText(c, text, supported)
             \/ \E run \in ProjectRuns : CreateArtifactFromRun(c, run, text)
      PROVE  WorkspaceInv'
  BY <1>2, NewItemInv, UpdateDocumentInv, PatchCommitInv
<1>3. ASSUME NEW c \in WorkspaceCalls, NEW i \in DOMAIN items,
             \/ \E who \in {"user", "agent"} : LoadItem(c, i, who)
             \/ \E selected \in BOOLEAN : SetContext(c, i, selected)
      PROVE  WorkspaceInv'
  BY <1>3, LoadsInv
<1>4. ASSUME NEW c \in WorkspaceCalls, NEW open, SaveLayout(c, open) PROVE WorkspaceInv'
  BY <1>4, SaveLayoutInv
<1>5. CASE BuildNext
  <2>1. ASSUME NEW c \in WorkspaceCalls, NextDocument(c) \/ BuildContext(c) \/ PromoteSpec(c) \/ EmitBuild(c) PROVE WorkspaceInv'
    BY <2>1, NextDocumentInv, BuildContextInv, PromoteSpecInv, EmitBuildInv
  <2>2. ASSUME NEW c \in WorkspaceCalls, NEW text \in Texts, BuildDocument(c, text) PROVE WorkspaceInv'
    BY <2>2, BuildDocumentInv
  <2>3. ASSUME NEW c \in WorkspaceCalls, NEW target \in BuildTargets, StartBuild(c, target) PROVE WorkspaceInv'
    BY <2>3, StartBuildInv
  <2>4. ASSUME NEW c \in WorkspaceCalls, NEW ref, RequestIteration(c, ref) PROVE WorkspaceInv'
    BY <2>4, RequestIterationInv
  <2>5. ASSUME NEW c \in WorkspaceCalls, NEW rememberDecision, CheckTarget(c, rememberDecision) PROVE WorkspaceInv'
    BY <2>5, CheckTargetInv
  <2>6. ASSUME NEW c \in WorkspaceCalls, NEW run \in ProjectRuns, NEW k \in DOMAIN buildLog, BindRun(c, run, k) PROVE WorkspaceInv'
    BY <2>6, BindRunInv
  <2> QED BY <1>5, <2>1, <2>2, <2>3, <2>4, <2>5, <2>6 DEF BuildNext
<1>6. CASE UNCHANGED workspaceVars
  BY <1>6, WorkspaceStutters
<1> QED BY <1>1, <1>2, <1>3, <1>4, <1>5, <1>6 DEF WorkspaceNext

LEMMA WorkspaceInvSound == WorkspaceInv => WorkspaceSound
<1> SUFFICES ASSUME WorkspaceInv PROVE WorkspaceSound
  OBVIOUS
<1>1. LogOK /\ WorkspaceTypeOK /\ NoLostSave /\ RepeatedOnlyByRace /\ ArtifactsByRuns
  BY DEF WorkspaceInv
<1>2. AnnouncedComplete
  <2>1. ASSUME NEW k \in Initials, NEW j \in Initials \ {k} PROVE buildLog[j].documents \cap buildLog[k].documents = {}
    <3>1. buildLog[j].request # buildLog[k].request
      BY <1>1, <2>1 DEF LogOK, Initials
    <3>2. buildLog[j].documents = Documents(buildLog[j].request) /\ buildLog[k].documents = Documents(buildLog[k].request)
      BY <1>1, <2>1 DEF LogOK
    <3> QED BY <3>1, <3>2 DEF Documents
  <2> QED BY <1>1, <2>1 DEF AnnouncedComplete, LogOK
<1>3. IterationsFollow
  <2>1. ASSUME NEW k \in DOMAIN buildLog, buildLog[k].kind = "iteration"
        PROVE  Initials # {} /\ buildLog[k].target = FirstInitial.target /\ FirstInitial.request # buildLog[k].request
    <3>1. PICK f \in Initials : (\A j \in Initials : f <= j) /\ buildLog[f].target = buildLog[k].target
      BY <1>1, <2>1 DEF LogOK, FirstTarget
    <3>2. PICK g \in Initials : FirstInitial = buildLog[g] /\ (\A j \in Initials : g <= j)
      BY <1>1, <3>1, FirstInitialIs
    <3>3. f = g
      BY <1>1, <3>1, <3>2 DEF WorkspaceTypeOK, Initials
    <3>4. buildLog[g].kind = "initial" /\ g \in DOMAIN buildLog
      BY DEF Initials
    <3>5. buildLog[g].request # buildLog[k].request
      BY <1>1, <2>1, <3>4 DEF LogOK
    <3> QED BY <3>1, <3>2, <3>3, <3>5
  <2> QED BY <2>1 DEF IterationsFollow
<1> QED BY <1>1, <1>2, <1>3 DEF WorkspaceSound

(***************************************************************************)
(* No save is lost but in the transaction of a patch, builds are announced *)
(* complete and once unless they race, iterations follow the first build,  *)
(* and nobody edits what a run produced (workspace-os.ts 141-491,          *)
(* neon-workspace.ts 58-100, build-mode.ts 64-229), for any requests of    *)
(* the user, the agent and the builds, each able to stop anywhere.         *)
(***************************************************************************)
THEOREM WorkspaceHolds == WorkspaceSpec => []WorkspaceSound
<1>1. WorkspaceSpec => []WorkspaceInv
  BY WorkspaceInvInit, WorkspaceInvNext, PTL DEF WorkspaceSpec
<1> QED BY <1>1, WorkspaceInvSound, PTL
=============================================================================
