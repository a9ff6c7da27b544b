---------------------------- MODULE ToolRuntime ----------------------------
(***************************************************************************)
(* ToolRuntime.execute of src/tools/runtime.ts with the grants of          *)
(* InMemoryCapabilityPolicy (src/tools/policy.ts) and the audit sink.      *)
(*                                                                         *)
(* Calls run concurrently.  The side-effecting ones share one idempotency  *)
(* scope (mission, task, tool, version, key), hence one lock and one       *)
(* replay record; the others are only bound by the grants.  An action is   *)
(* what happens between two awaits.                                        *)
(***************************************************************************)
EXTENDS Naturals, Sequences, FiniteSets, FiniteSetsExt

CONSTANTS
  ToolCalls,      \* calls of execute
  SideEffecting,  \* those of a side-effecting tool
  HighRisk,       \* those of a tool of risk class high
  Cancellable,    \* those made with an AbortSignal
  Inputs,         \* hashes of inputs
  ReadAttempts,   \* retryPolicy.maxAttempts of the other tools
  GrantOrder,     \* the grants that match the calls, by grantId
  GrantCalls      \* grant -> maxCalls

Grants == {GrantOrder[i] : i \in 1 .. Len(GrantOrder)}

ASSUME ToolAssumption ==
  /\ IsFiniteSet(ToolCalls) /\ "none" \notin Inputs
  /\ SideEffecting \subseteq ToolCalls /\ HighRisk \subseteq ToolCalls /\ Cancellable \subseteq ToolCalls
  /\ GrantOrder \in Seq(Grants)
  /\ ReadAttempts \in Nat \ {0}
  /\ \A g \in Grants : GrantCalls[g] \in Nat \ {0}

VARIABLES
  call,      \* call -> [pc, attempt, verdict, input]
  signalled, \* the calls whose AbortSignal is aborted
  locks,     \* the chain of #locks for the scope: its holder, then the waiting calls
  replay,    \* #replays for the scope: the input of the success, or "none"
  usedCalls, \* #usedCalls
  expired,   \* the grants, and "approval", that are past their expiresAt
  charged,   \* history: grant -> the handler invocations it allowed
  unaudited, \* history: handler invocations not yet put to the sink [call, attempt]
  stored     \* history: the calls whose success the sink has stored

toolVars == <<call, signalled, locks, replay, usedCalls, expired, charged, unaudited, stored>>

Returned == {"success", "replay", "conflict", "denied", "cancelled", "failure"}

ToolInit ==
  /\ call = [c \in ToolCalls |-> [pc |-> "new", attempt |-> 0, verdict |-> "none", input |-> "none"]]
  /\ signalled = {} /\ locks = <<>> /\ replay = "none"
  /\ usedCalls = [g \in Grants |-> 0]
  /\ expired = {} /\ unaudited = {} /\ stored = {}
  /\ charged = [g \in Grants |-> 0]

-----------------------------------------------------------------------------

MaxAttempts(c) == IF c \in SideEffecting THEN 1 ELSE ReadAttempts

\* The call awaits appendAudit; verdict is what it will do then.
Auditing(c, verdict) == [call EXCEPT ![c].pc = "audit", ![c].verdict = verdict]

\* Fault: the replay map is consulted before the lock is held, and not again.
EnterUnlocked(c) ==
  /\ call[c].pc = "new"
  /\ \E i \in Inputs :
       call' = [call EXCEPT ![c].input = i, ![c].attempt = 1,
                  ![c].pc = IF c \in SideEffecting /\ replay # "none" THEN "audit" ELSE "attempt",
                  ![c].verdict = IF c \in SideEffecting /\ replay # "none" THEN "replay" ELSE "none"]
  /\ UNCHANGED <<signalled, locks, replay, usedCalls, expired, charged, unaudited, stored>>

\* execute: a request that passed validation; the others leave no trace.  Side-effecting ones join the lock chain (#withLock).
Enter(c) ==
  /\ call[c].pc = "new"
  /\ \/ /\ c \in SideEffecting
        /\ \E i \in Inputs : call' = [call EXCEPT ![c].pc = "waiting", ![c].input = i]
        /\ locks' = Append(locks, c)
     \/ /\ c \notin SideEffecting
        /\ call' = [call EXCEPT ![c].pc = "attempt", ![c].attempt = 1]
        /\ UNCHANGED locks
  /\ UNCHANGED <<signalled, replay, usedCalls, expired, charged, unaudited, stored>>

\* The lock is ours: a recorded success is replayed, or refused for another input.
Acquire(c) ==
  /\ call[c].pc = "waiting" /\ Head(locks) = c
  /\ call' = IF replay # "none" THEN Auditing(c, IF replay = call[c].input THEN "replay" ELSE "conflict")
             ELSE [call EXCEPT ![c].pc = "attempt", ![c].attempt = 1]
  /\ UNCHANGED <<signalled, locks, replay, usedCalls, expired, charged, unaudited, stored>>

\* authorizeAndConsume: the places of the grants that are neither expired nor used up,
\* and the first of those grants.
Usable == {i \in 1 .. Len(GrantOrder) : GrantOrder[i] \notin expired /\ usedCalls[GrantOrder[i]] < GrantCalls[GrantOrder[i]]}
Paying == GrantOrder[Min(Usable)]

Allowed(c) == Usable # {} /\ (c \in HighRisk => "approval" \notin expired)

\* Fault: a retry runs under the authorization of the first attempt.
AttemptAuthorizedOnce(c) ==
  /\ call[c].pc = "attempt"
  /\ IF c \in signalled \/ ~Allowed(c)
     THEN /\ call' = Auditing(c, IF c \in signalled THEN "cancelled" ELSE "denied")
          /\ UNCHANGED <<usedCalls, charged, unaudited>>
     ELSE /\ call' = [call EXCEPT ![c].pc = "handler"]
          /\ usedCalls' = IF call[c].attempt = 1 THEN [usedCalls EXCEPT ![Paying] = @ + 1]
                          ELSE usedCalls
          /\ charged' = [charged EXCEPT ![Paying] = @ + 1]
          /\ unaudited' = unaudited \cup {[call |-> c, attempt |-> call[c].attempt]}
  /\ UNCHANGED <<signalled, locks, replay, expired, stored>>

\* One turn of the loop of #executeFresh up to the handler's first await.
Attempt(c) ==
  /\ call[c].pc = "attempt"
  /\ IF c \in signalled \/ ~Allowed(c)
     THEN /\ call' = Auditing(c, IF c \in signalled THEN "cancelled" ELSE "denied")
          /\ UNCHANGED <<usedCalls, charged, unaudited>>
     ELSE /\ call' = [call EXCEPT ![c].pc = "handler"]
          /\ usedCalls' = [usedCalls EXCEPT ![Paying] = @ + 1]
          /\ charged' = [charged EXCEPT ![Paying] = @ + 1]
          /\ unaudited' = unaudited \cup {[call |-> c, attempt |-> call[c].attempt]}
  /\ UNCHANGED <<signalled, locks, replay, expired, stored>>

\* runHandlerWithTimeout settles: the handler returns or throws, or the timer fires; a
\* category of retryableCategories is tried again while attempts are left.
HandlerSettles(c) ==
  /\ call[c].pc = "handler"
  /\ \E verdict \in {"success", "failure"} \cup
                    (IF call[c].attempt < MaxAttempts(c) THEN {"retry"} ELSE {}) :
       call' = Auditing(c, verdict)
  /\ UNCHANGED <<signalled, locks, replay, usedCalls, expired, charged, unaudited, stored>>

\* The caller aborts: a running handler is given up (onAbort), others see it at the
\* start of their next attempt.
Signal(c) ==
  /\ c \in Cancellable \ signalled /\ call[c].pc \notin {"new"} \cup Returned
  /\ signalled' = signalled \cup {c}
  /\ call' = IF call[c].pc = "handler" THEN Auditing(c, "cancelled") ELSE call
  /\ UNCHANGED <<locks, replay, usedCalls, expired, charged, unaudited, stored>>

\* The chain without a call that is over: a call of the chain ends as its holder.
After(c) == IF locks # <<>> /\ Head(locks) = c THEN Tail(locks) ELSE locks

\* Fault: the lock is given up on success only.
UnlockOnSuccess(c) ==
  locks' = IF call[c].verdict \in {"success", "replay"} THEN After(c)
           ELSE locks

\* The finally of #withLock, for whichever call returns or throws.
Unlock(c) == locks' = After(c)

\* The call is over: c returns or throws.
Ends(c, result) ==
  /\ call' = [call EXCEPT ![c].pc = result, ![c].attempt = 0, ![c].verdict = "none"]
  /\ signalled' = signalled \ {c}

Logged(c) == unaudited' = unaudited \ {[call |-> c, attempt |-> call[c].attempt]}

\* append succeeds: the next attempt, or the end of the call.
AuditStored(c) ==
  /\ call[c].pc = "audit"
  /\ Logged(c)
  /\ stored' = IF call[c].verdict = "success" THEN stored \cup {c} ELSE stored
  /\ IF call[c].verdict = "retry"
     THEN /\ call' = [call EXCEPT ![c].pc = "attempt", ![c].attempt = @ + 1, ![c].verdict = "none"]
          /\ UNCHANGED <<signalled, locks, replay>>
     ELSE /\ Ends(c, call[c].verdict)
          /\ replay' = IF call[c].verdict = "success" /\ c \in SideEffecting THEN call[c].input ELSE replay
          /\ Unlock(c)
  /\ UNCHANGED <<usedCalls, expired, charged>>

\* append throws: after a success that is inside the try block, so the attempt is
\* recorded again as a failure; otherwise the error leaves execute.
AuditFails(c) ==
  /\ call[c].pc = "audit"
  /\ Logged(c) /\ UNCHANGED stored
  /\ IF call[c].verdict = "success"
     THEN call' = Auditing(c, "failure") /\ UNCHANGED <<signalled, locks>>
     ELSE Ends(c, "failure") /\ Unlock(c)
  /\ UNCHANGED <<replay, usedCalls, expired, charged>>

\* Time passes the expiresAt of a grant, or of the approval.
Lapse(x) ==
  /\ x \in (Grants \cup {"approval"}) \ expired
  /\ expired' = expired \cup {x}
  /\ UNCHANGED <<call, signalled, locks, replay, usedCalls, charged, unaudited, stored>>

CallStep(c) ==
  Acquire(c) \/ Attempt(c) \/ HandlerSettles(c) \/ AuditStored(c) \/ AuditFails(c)

ToolNext ==
  \/ \E c \in ToolCalls : Enter(c) \/ CallStep(c) \/ Signal(c)
  \/ \E x \in Grants \cup {"approval"} : Lapse(x)

\* The event loop goes on, the timer ends every handler and the sink answers.
ToolFairness == \A c \in ToolCalls : WF_toolVars(CallStep(c))

-----------------------------------------------------------------------------
(* Properties *)

\* Type invariant of the tool runtime.
ToolTypeOK ==
  /\ \A c \in ToolCalls :
       /\ call[c].pc \in {"new", "waiting", "attempt", "handler", "audit"} \cup Returned
       /\ call[c].attempt \in 0 .. ReadAttempts
       /\ call[c].verdict \in {"none", "retry"} \cup Returned
       /\ call[c].input \in Inputs \cup {"none"}
  /\ locks \in UNION {[1 .. n -> SideEffecting] : n \in 0 .. Cardinality(SideEffecting)}
  /\ replay \in Inputs \cup {"none"}
  /\ usedCalls \in [Grants -> Nat]
  /\ expired \subseteq Grants \cup {"approval"}

\* The parts of CallsAccounted below.
FreshOnce ==
  \A c, d \in SideEffecting :
    c # d /\ call[c].pc = "success" /\ call[d].pc \in {"success", "replay"} =>
      call[d].pc = "replay" /\ call[d].input = call[c].input

CallCeiling == \A g \in Grants : charged[g] <= GrantCalls[g]

AttemptsAudited ==
  /\ \A u \in unaudited : call[u.call].pc \in {"handler", "audit"} /\ call[u.call].attempt = u.attempt
  /\ \A c \in ToolCalls : call[c].pc = "success" => c \in stored
  /\ replay # "none" => stored \cap SideEffecting # {}

\* Of the calls with one idempotency key at most one reports a fresh success, and every
\* replayed answer went to a call with the input of that success.  No grant pays for more handler invocations than it allows, counting retries and
\* concurrent calls ("Retryable failures cannot bypass policy, call ceilings"); every
\* invocation that is over has been put to the audit sink, and no success is reported, or
\* replayed later, that the sink has not stored.  (The runtime's maps keep their types.)
CallsAccounted == ToolTypeOK /\ FreshOnce /\ CallCeiling /\ AttemptsAudited

\* Every call returns, whatever the calls before it in the lock chain came to: again and
\* again no call is open, and a call that has returned stays so.
CallsReturn == []<>(\A c \in ToolCalls : call[c].pc \in {"new"} \cup Returned)
=============================================================================
