--------------------------- MODULE BrowserSession ---------------------------
(***************************************************************************)
(* One browser session of a project (browser-store.ts, browser-mode.ts,    *)
(* browser-http.ts, browser-api.ts).  The session is the projection of the *)
(* project's event log; every request reads it, checks, calls the outside  *)
(* and appends, each in a transaction of its own.  Targets are within the  *)
(* session's origins; of a page nothing is kept.                           *)
(***************************************************************************)
EXTENDS Integers, Sequences

CONSTANTS
  BrowserCalls,     \* requests to the API, each served once
  BrowserRequests,  \* [operation, target]: what is hashed
  BrowserActions,   \* identities of prepared actions
  RiskProfile,
  MaxActions,       \* MAX_ACTIONS
  ReadLimit,        \* events that a read of the log returns
  NoAction

ASSUME BrowserLimits == MaxActions \in Nat /\ ReadLimit \in Nat
ASSUME KnownProfile == RiskProfile \in {"READ_ONLY", "ASSISTED", "CONTROLLED"}

VARIABLES
  browserLog,    \* odin_api.events of the session
  browserCall,   \* per request: what it has read so far
  sessionLive,   \* the session has not expired
  actionLive,    \* per action: its approval has not expired
  posts          \* forms that reached the outside, with when their request had read what

browserVars == <<browserLog, browserCall, sessionLive, actionLive, posts>>

HighRisk == {"click", "submit", "upload", "send", "publish", "delete", "purchase"}
\* browserRisk
BrowserRisk(operation) ==
  CASE operation \in {"navigate", "read", "search", "extract", "download"} -> "low"
    [] operation = "fill" -> "medium"
    [] operation \in HighRisk -> "high"

Controls == {"pause", "resume", "complete"}
Attempts == {"action.executed", "action.outcome_unknown", "action.failed"}

Navigate == [operation |-> "navigate", target |-> 0]

\* createBrowserSession
NewSession == [state |-> "ACTIVE", pending |-> NoAction, count |-> 0, broken |-> FALSE]

\* A request that has read nothing yet.
NewCall == [pc |-> "new", request |-> Navigate, action |-> NoAction, session |-> NewSession,
            readAt |-> 0, checkedAt |-> 0, result |-> "none"]

BrowserInit ==
  /\ browserLog = <<>>
  /\ browserCall = [c \in BrowserCalls |-> NewCall]
  /\ sessionLive = TRUE
  /\ actionLive = [a \in BrowserActions |-> TRUE]
  /\ posts = {}

\* assertSessionUsable
Usable(s) == sessionLive /\ s.state \notin {"COMPLETED", "PAUSED"}

\* applyBrowserEvent.  A page is checked against the session as it is read
\* today: one that was opened by the time of a pause breaks the projection.
ApplyBrowserEvent(s, e) ==
  CASE e.type = "page.opened" -> [s EXCEPT !.broken = @ \/ ~Usable(s)]
    [] e.type = "action.executed" -> [s EXCEPT !.state = "ACTIVE", !.pending = NoAction, !.count = @ + 1]
    [] e.type = "action.failed" -> [s EXCEPT !.pending = NoAction, !.count = @ + 1]
    [] e.type = "action.outcome_unknown" -> [s EXCEPT !.state = "OUTCOME_UNKNOWN", !.pending = e.action, !.count = @ + 1]
    [] e.type = "action.reconciled" -> [s EXCEPT !.state = "ACTIVE", !.pending = NoAction]
    [] e.type = "pause" -> [s EXCEPT !.state = "PAUSED"]
    [] e.type = "resume" -> [s EXCEPT !.state = "ACTIVE"]
    [] e.type = "complete" -> [s EXCEPT !.state = "COMPLETED"]
    [] OTHER -> s

\* events(project, 0, 1000): the oldest ones.
Readable == IF Len(browserLog) <= ReadLimit THEN browserLog ELSE SubSeq(browserLog, 1, ReadLimit)
\* The session after each of the events.
Projected(log) ==
  LET after[n \in 0 .. Len(log)] == IF n = 0 THEN NewSession ELSE ApplyBrowserEvent(after[n - 1], log[n])
  IN  after
\* list, session
Session == Projected(Readable)[Len(Readable)]

Recorded(type, a) == {i \in DOMAIN Readable : Readable[i].type = type /\ Readable[i].action = a}

Moves(c, state) == browserCall' = [browserCall EXCEPT ![c] = state]
Served == [NewCall EXCEPT !.pc = "done"]
Fails(c) == Moves(c, Served)
\* emit: one more row.
Emits(type, a, r) == browserLog' = Append(browserLog, [type |-> type, action |-> a, request |-> r])

-----------------------------------------------------------------------------
\* The first transaction of every request; a broken projection is an error.
ReadSession(c, op, r, a) ==
  /\ browserCall[c].pc = "new"
  /\ Moves(c, IF Session.broken THEN Served
              ELSE [NewCall EXCEPT !.pc = op, !.request = r, !.action = a, !.session = Session, !.readAt = Len(browserLog)])
  /\ UNCHANGED <<browserLog, sessionLive, actionLive, posts>>

\* authorizeBrowserAction without the approval: on the session as it was read.
Authorized(s, operation) ==
  /\ Usable(s) /\ s.state # "OUTCOME_UNKNOWN" /\ s.count < MaxActions
  /\ RiskProfile = "READ_ONLY" => BrowserRisk(operation) = "low"
  /\ RiskProfile = "ASSISTED" => operation # "purchase"

\* prepareAction: an approval is asked for under a new identity.
Prepare(c) ==
  /\ browserCall[c].pc = "prepare"
  /\ LET call == browserCall[c] IN
     \/ /\ Authorized(call.session, call.request.operation) /\ BrowserRisk(call.request.operation) = "high"
        /\ \A i \in DOMAIN browserLog : browserLog[i].action # call.action
        /\ Emits("approval.required", call.action, call.request)
     \/ /\ ~Authorized(call.session, call.request.operation) \/ BrowserRisk(call.request.operation) # "high"
        /\ UNCHANGED browserLog
  /\ Fails(c)
  /\ UNCHANGED <<sessionLive, actionLive, posts>>

\* approve: whatever the session's state is.
Approve(c) ==
  /\ browserCall[c].pc = "approve"
  /\ LET a == browserCall[c].action
         asked == Recorded("approval.required", a) IN
     \/ /\ asked # {} /\ actionLive[a]
        /\ \E i \in asked : Emits("approval.granted", a, browserLog[i].request)
     \/ /\ asked = {} \/ ~actionLive[a]
        /\ UNCHANGED browserLog
  /\ Fails(c)
  /\ UNCHANGED <<sessionLive, actionLive, posts>>

\* Fault: a failed attempt is not an attempt.
UnattemptedUnlessFailed(a) == Recorded("action.executed", a) \cup Recorded("action.outcome_unknown", a) = {}

\* execute: the attempts that are on record.
Unattempted(a) == \A type \in Attempts : Recorded(type, a) = {}

\* normalizeActionRequest, actionHash: the prepared request and the one to execute are the same.
SameRequest(a, r) == \E i \in Recorded("approval.required", a) : Readable[i].request = r

\* execute, preparedAction and the attempts; what is not high risk goes on without an approval.
CheckAttempts(c) ==
  /\ browserCall[c].pc = "execute"
  /\ LET call == browserCall[c] IN
     IF /\ Usable(call.session)
        /\ BrowserRisk(call.request.operation) = "high" => Unattempted(call.action) /\ SameRequest(call.action, call.request)
     THEN Moves(c, [call EXCEPT !.pc = "approved", !.checkedAt = Len(browserLog)]) ELSE Fails(c)
  /\ UNCHANGED <<browserLog, sessionLive, actionLive, posts>>

\* grantedApproval, approvalForBrowserAction
Granted(a, r) == actionLive[a] /\ \E i \in Recorded("approval.granted", a) : Readable[i].request = r

\* Then the policy, with the approval; only clicks and submissions are carried out, and a fill is noted.
CheckGrant(c) ==
  /\ browserCall[c].pc = "approved"
  /\ LET call == browserCall[c] op == call.request.operation IN
     /\ Moves(c, IF /\ Authorized(call.session, op) /\ (BrowserRisk(op) = "high" => Granted(call.action, call.request))
                    /\ op \in {"click", "submit"}
                 THEN [call EXCEPT !.pc = op] ELSE Served)
     /\ IF op = "fill" /\ Authorized(call.session, op) THEN Emits("form.prepared", call.action, call.request) ELSE UNCHANGED browserLog
  /\ UNCHANGED <<sessionLive, actionLive, posts>>

\* submitForm and requestOnce: an answer, an answer that is refused (too large, a
\* redirect out of scope), or none; the form may have arrived all the same.
SubmitForm(c, result, reached) ==
  /\ browserCall[c].pc = "submit"
  /\ result = "action.executed" => reached
  /\ Moves(c, [browserCall[c] EXCEPT !.pc = "record", !.result = result])
  /\ posts' = IF reached
              THEN posts \cup {[call |-> c, action |-> browserCall[c].action, request |-> browserCall[c].request,
                                readAt |-> browserCall[c].readAt, checkedAt |-> browserCall[c].checkedAt,
                                recordedAt |-> 0]}
              ELSE posts
  /\ UNCHANGED <<browserLog, sessionLive, actionLive>>

\* A click follows a link: #http.observe.
FollowLink(c, result) ==
  /\ browserCall[c].pc = "click" /\ result # "action.outcome_unknown"
  /\ Moves(c, [browserCall[c] EXCEPT !.pc = "record", !.result = result])
  /\ UNCHANGED <<browserLog, sessionLive, actionLive, posts>>

\* The outcome of the attempt is recorded, after a click the page as well.
RecordAttempt(c) ==
  /\ browserCall[c].pc = "record"
  /\ LET call == browserCall[c] IN
     /\ Emits(call.result, call.action, call.request)
     /\ Moves(c, IF call.request.operation = "click" /\ call.result = "action.executed" THEN [call EXCEPT !.pc = "page"] ELSE Served)
     /\ posts' = {IF p.call = c THEN [p EXCEPT !.recordedAt = Len(browserLog) + 1] ELSE p : p \in posts}
  /\ UNCHANGED <<sessionLive, actionLive>>

\* observe: the page is fetched, in the session that was read, ...
Observe(c) ==
  /\ browserCall[c].pc = "observe"
  /\ Moves(c, IF Authorized(browserCall[c].session, "navigate") THEN [browserCall[c] EXCEPT !.pc = "page"] ELSE Served)
  /\ UNCHANGED <<browserLog, sessionLive, actionLive, posts>>

\* ... and noted when it has come; the session may have expired meanwhile.
PageOpened(c) ==
  /\ browserCall[c].pc = "page"
  /\ browserCall[c].request.operation # "click" => sessionLive
  /\ Emits("page.opened", NoAction, browserCall[c].request)
  /\ Fails(c)
  /\ UNCHANGED <<sessionLive, actionLive, posts>>

\* reconcile: of the action that the session had pending when it was read.
Reconcile(c) ==
  /\ browserCall[c].pc = "reconcile"
  /\ LET s == browserCall[c].session IN
     IF s.state = "OUTCOME_UNKNOWN" /\ s.pending # NoAction
     THEN Emits("action.reconciled", s.pending, browserCall[c].request) ELSE UNCHANGED browserLog
  /\ Fails(c)
  /\ UNCHANGED <<sessionLive, actionLive, posts>>

\* control
Control(c) ==
  /\ browserCall[c].pc \in Controls
  /\ Emits(browserCall[c].pc, NoAction, browserCall[c].request)
  /\ Fails(c)
  /\ UNCHANGED <<sessionLive, actionLive, posts>>

\* The invocation ends at an await: the client is gone, the function times out.
BrowserCallDies(c) ==
  /\ browserCall[c].pc \notin {"new", "done"}
  /\ Fails(c)
  /\ UNCHANGED <<browserLog, sessionLive, actionLive, posts>>

SessionExpires ==
  /\ sessionLive /\ sessionLive' = FALSE
  /\ UNCHANGED <<browserLog, browserCall, actionLive, posts>>

ApprovalLapses(a) ==
  /\ actionLive[a] /\ actionLive' = [actionLive EXCEPT ![a] = FALSE]
  /\ UNCHANGED <<browserLog, browserCall, sessionLive, posts>>

BrowserNext ==
  \/ \E c \in BrowserCalls, a \in BrowserActions :
       \/ ReadSession(c, "approve", Navigate, a)
       \/ \E op \in {"prepare", "execute"}, r \in BrowserRequests : ReadSession(c, op, r, a)
  \/ \E c \in BrowserCalls, op \in {"observe", "reconcile"} \cup Controls : ReadSession(c, op, Navigate, NoAction)
  \/ \E c \in BrowserCalls :
       \/ Prepare(c) \/ Approve(c) \/ CheckAttempts(c) \/ CheckGrant(c) \/ RecordAttempt(c)
       \/ Observe(c) \/ PageOpened(c) \/ Reconcile(c) \/ Control(c) \/ BrowserCallDies(c)
  \/ \E c \in BrowserCalls, result \in Attempts :
       \/ FollowLink(c, result)
       \/ \E reached \in BOOLEAN : SubmitForm(c, result, reached)
  \/ SessionExpires
  \/ \E a \in BrowserActions : ApprovalLapses(a)

BrowserSpec == BrowserInit /\ [][BrowserNext]_browserVars

-----------------------------------------------------------------------------
EventAt(i, types) == browserLog[i].type \in types

\* What was sent is what the user had been shown and had approved, before it was sent.
SentAsApproved == \A p \in posts :
  \E i, j \in 1..Len(browserLog) :
    /\ i < j /\ EventAt(i, {"approval.required"}) /\ EventAt(j, {"approval.granted"})
    /\ browserLog[i].action = p.action /\ browserLog[j].action = p.action
    /\ browserLog[i].request = p.request /\ (p.recordedAt # 0 => j < p.recordedAt)

\* A second request sends the same action only if it had looked before the first
\* one's outcome was on record, whatever that outcome is.
SentAgainOnlyBeforeRecord == \A p, q \in posts :
  p # q /\ p.action = q.action /\ p.recordedAt # 0 => q.checkedAt < p.recordedAt

\* After an unknown outcome the session sends nothing until it is reconciled,
\* the user resumes it, or another action that was under way is on record as executed.
BlockedWhileUnknown == \A p \in posts : \A u \in 1..p.readAt :
  EventAt(u, {"action.outcome_unknown"}) =>
    \E i \in (u + 1)..p.readAt : EventAt(i, {"action.reconciled", "resume", "action.executed"})

(***************************************************************************)
(* External effects of a browser session under concurrent, repeated and    *)
(* dying requests, pauses, late answers and expiry: exactly what was       *)
(* approved, not again once its outcome is on record, and nothing while an *)
(* outcome is unknown (browser-store.ts 132-394, browser-mode.ts 171-331), *)
(* for a log that one read covers.                                         *)
(***************************************************************************)
BrowserSound == Len(browserLog) <= ReadLimit => SentAsApproved /\ SentAgainOnlyBeforeRecord /\ BlockedWhileUnknown
=============================================================================
