---------------------------- MODULE ProviderPool ----------------------------
(***************************************************************************)
(* Model calls through PooledNvidiaProvider (src/providers/nvidia-pool.ts) *)
(* over the adapters of its credentials: BaseProvider.post, the transport  *)
(* and the chat-completions stream (base.ts, transport.ts, sse.ts,         *)
(* openai-compatible.ts).  Calls run concurrently; an action is what       *)
(* happens between two awaits of one of them.  A call orders the slots     *)
(* once and walks down that list; what it finds there may be old by then.  *)
(***************************************************************************)
EXTENDS Naturals, Sequences, FiniteSets, SequencesExt

CONSTANTS
  SlotOrder,           \* the slots with a credential, in the order of the options
  ModelCalls,          \* calls of generate and stream
  HttpAnswers,         \* what the provider answers: [status, code, retryAfter]
  ShortCooldown, LimitCooldown, CredentialCooldown,  \* of cooldownFor, in ticks
  MinRetry, MaxRetry,  \* the range a Retry-After is put into
  MaxEvents,           \* events of one stream
  MaxPoolTime,
  NoRetryAfter

ModelSlots == {SlotOrder[i] : i \in 1 .. Len(SlotOrder)}

ASSUME PoolAssumption ==
  /\ SlotOrder \in Seq(ModelSlots) /\ SlotOrder # <<>> /\ IsFiniteSet(ModelCalls)
  /\ {ShortCooldown, LimitCooldown, CredentialCooldown, MinRetry, MaxRetry, MaxPoolTime} \subseteq Nat
  /\ MinRetry <= MaxRetry
  /\ \A a \in HttpAnswers : a.retryAfter \in Nat \cup {NoRetryAfter}

VARIABLES
  pool,        \* slot -> [failures, until, inFlight]
  modelCall,   \* call -> [pc, kind, slot, queue, emitted, parsed, events]
  hungUp,      \* the calls whose AbortSignal is aborted
  received,    \* history: call -> what its caller has been given while it is under way
  poolTime

poolVars == <<pool, modelCall, hungUp, received, poolTime>>

\* The locals of parseStream: metadata, text, tool parts and terminal.
Unparsed == [meta |-> FALSE, texts |-> 0, tools |-> {}, terminal |-> FALSE]

\* A call that has no attempt under way, and what its caller was given by it.
Resting(pc) == [pc |-> pc, kind |-> "stream", slot |-> SlotOrder[1], queue |-> <<>>,
                emitted |-> FALSE, parsed |-> Unparsed, events |-> 0]
Nothing == [from |-> {}, texts |-> 0, tools |-> 0, answers |-> {}]

PoolInit ==
  /\ pool = [s \in ModelSlots |-> [failures |-> 0, until |-> 0, inFlight |-> 0]]
  /\ modelCall = [c \in ModelCalls |-> Resting("new")]
  /\ received = [c \in ModelCalls |-> Nothing]
  /\ hungUp = {} /\ poolTime = 0

-----------------------------------------------------------------------------
(* Errors *)

Failure(category) == [category |-> category, retryAfter |-> NoRetryAfter]

\* categoryFor.
CategoryFor(status, code) ==
  CASE status = 413 \/ code = "context_length_exceeded" -> "context_overflow"
    [] status # 413 /\ code = "insufficient_quota" -> "quota"
    [] OTHER -> CASE status = 401 -> "authentication"
                  [] status = 403 -> "permission"
                  [] status = 408 -> "timeout"
                  [] status = 429 -> "rate_limit"
                  [] status >= 500 -> "unavailable"
                  [] OTHER -> "invalid_request"

\* throwHttpError, with retryAfterMs.
HttpError(a) == [category |-> CategoryFor(a.status, a.code), retryAfter |-> a.retryAfter]

Clamped(r) == IF r < MinRetry THEN MinRetry ELSE IF r > MaxRetry THEN MaxRetry ELSE r

\* cooldownFor.
CooldownFor(e) ==
  CASE e.retryAfter # NoRetryAfter -> Clamped(e.retryAfter)
    [] e.retryAfter = NoRetryAfter ->
         CASE e.category \in {"authentication", "permission"} -> CredentialCooldown
           [] e.category \in {"rate_limit", "quota"} -> LimitCooldown
           [] e.category \in {"network", "timeout", "unavailable"} -> ShortCooldown
           [] OTHER -> 0

\* mayFailOver.
MayFailOver(e) ==
  e.category \in {"authentication", "permission", "quota", "rate_limit", "network", "timeout", "unavailable"}

-----------------------------------------------------------------------------
(* The pool *)

\* #orderedSlots: the slots that are not cooling down, the least busy first; when all of
\* them are, the one that is ready first.  There is one such list.
OrderedSlots ==
  LET place(s) == CHOOSE i \in 1 .. Len(SlotOrder) : SlotOrder[i] = s
      healthy == {s \in ModelSlots : pool[s].until <= poolTime}
      readier(a, b) == pool[a].until < pool[b].until \/ (pool[a].until = pool[b].until /\ place(a) < place(b))
      better(a, b) == \/ pool[a].inFlight < pool[b].inFlight
                      \/ /\ pool[a].inFlight = pool[b].inFlight
                         /\ \/ pool[a].failures < pool[b].failures
                            \/ pool[a].failures = pool[b].failures /\ place(a) < place(b)
  IN IF healthy # {}
     THEN {q \in [1 .. Cardinality(healthy) -> healthy] : \A i, j \in DOMAIN q : i < j => better(q[i], q[j])}
     ELSE {<<s>> : s \in {r \in ModelSlots : \A q \in ModelSlots \ {r} : readier(r, q)}}

\* #failed.
Blamed(p, s, e) ==
  LET until == poolTime + CooldownFor(e)
  IN [p EXCEPT ![s].failures = @ + 1,
               ![s].until = IF CooldownFor(e) > 0 /\ until > @ THEN until ELSE @]

\* #healthy.
Cured(p, s) == [p EXCEPT ![s].failures = 0, ![s].until = 0]

\* state.inFlight around an attempt.
Taken(p, s) == [p EXCEPT ![s].inFlight = @ + 1]
Freed(p, s) == [p EXCEPT ![s].inFlight = IF @ > 0 THEN @ - 1 ELSE 0]

\* What is asked for: an answer, a stream, or what the model's capabilities or the shape of
\* a request do not allow.
RequestKinds == {"generate", "stream", "invalid"}

\* The next turn of the loop over the slots.
Attempting(c, kind, p, slots) ==
  /\ pool' = Taken(p, Head(slots))
  /\ modelCall' = [modelCall EXCEPT ![c] =
       [pc |-> "request", kind |-> kind, slot |-> Head(slots), queue |-> Tail(slots), emitted |-> FALSE,
        parsed |-> Unparsed, events |-> 0]]

\* generate and stream: order the slots and try the first one.  Some requests are invalid.
StartModelCall(c) ==
  /\ modelCall[c].pc = "new"
  /\ \E kind \in RequestKinds, slots \in OrderedSlots : Attempting(c, kind, pool, slots)
  /\ UNCHANGED <<hungUp, received, poolTime>>

\* The call is over, with its locals.
CallOver(c, pc) ==
  /\ modelCall' = [modelCall EXCEPT ![c] = Resting(pc)]
  /\ received' = [received EXCEPT ![c] = Nothing]
  /\ hungUp' = hungUp \ {c}
  /\ UNCHANGED poolTime

\* Fault: a stream that has already been passed on is started again elsewhere.
GivesUpLate(c, e) == ~MayFailOver(e) \/ modelCall[c].queue = <<>>

\* The error ends the call: not one to fail over, no slot left, or events passed on.
GivesUp(c, e) == modelCall[c].emitted \/ ~MayFailOver(e) \/ modelCall[c].queue = <<>>

\* Fault: the slot is given back on success only.
AttemptFailsHeld(c, e) ==
  LET p == Blamed(pool, modelCall[c].slot, e)
  IN \/ GivesUp(c, e) /\ pool' = p /\ CallOver(c, "thrown")
     \/ /\ ~GivesUp(c, e) /\ Attempting(c, modelCall[c].kind, p, modelCall[c].queue)
        /\ UNCHANGED <<hungUp, received, poolTime>>

\* catch and finally of an attempt.
AttemptFails(c, e) ==
  LET p == Freed(Blamed(pool, modelCall[c].slot, e), modelCall[c].slot)
  IN \/ GivesUp(c, e) /\ pool' = p /\ CallOver(c, "thrown")
     \/ /\ ~GivesUp(c, e) /\ Attempting(c, modelCall[c].kind, p, modelCall[c].queue)
        /\ UNCHANGED <<hungUp, received, poolTime>>

\* The return and finally of an attempt.
AttemptSucceeds(c) ==
  /\ pool' = Freed(Cured(pool, modelCall[c].slot), modelCall[c].slot)
  /\ CallOver(c, "returned")

-----------------------------------------------------------------------------
(* The adapter of a slot *)

\* post: validateRequestShape and validateRequestCapabilities throw.
RequestRefused(c) ==
  /\ modelCall[c].pc = "request" /\ modelCall[c].kind = "invalid"
  /\ \E category \in {"invalid_request", "unsupported"} : AttemptFails(c, Failure(category))

\* resolveCredential refuses the slot's credential, or the transport rejects.
RequestFails(c) ==
  /\ modelCall[c].pc = "request" /\ modelCall[c].kind # "invalid"
  /\ \E category \in {"authentication"} \cup (IF c \in hungUp THEN {"aborted"} ELSE {"timeout", "network"}) :
       AttemptFails(c, Failure(category))

\* The response arrives, with its headers; the body of an error is read before it is thrown.
Responds(c) ==
  /\ modelCall[c].pc = "request" /\ modelCall[c].kind # "invalid" /\ c \notin hungUp
  /\ \/ /\ modelCall' = [modelCall EXCEPT ![c].pc = IF modelCall[c].kind = "stream" THEN "stream" ELSE "body"]
        /\ UNCHANGED <<pool, hungUp, received, poolTime>>
     \/ \E a \in HttpAnswers : AttemptFails(c, HttpError(a))

\* readLimitedBody and parseResponse of generate.  An abort is not told from a lost connection here.
BodyRead(c) ==
  /\ modelCall[c].pc = "body"
  /\ \/ c \notin hungUp /\ AttemptSucceeds(c)
     \/ c \notin hungUp /\ \E category \in {"malformed_response", "timeout"} : AttemptFails(c, Failure(category))
     \/ AttemptFails(c, Failure("network"))

\* parseStream passes an event on, and stream passes it to the caller.
Passed(c, parsed, given) ==
  /\ modelCall' = [modelCall EXCEPT ![c].parsed = parsed, ![c].emitted = TRUE, ![c].events = @ + 1]
  /\ received' = [received EXCEPT ![c] = [given EXCEPT !.from = @ \cup {modelCall[c].slot}]]
  /\ UNCHANGED <<pool, hungUp, poolTime>>

\* A payload of parseStream: metadata (or usage), a text delta, the start of a tool call.
StreamPayload(c) ==
  LET m == modelCall[c].parsed
      r == received[c]
  IN /\ modelCall[c].pc = "stream" /\ modelCall[c].events < MaxEvents
     /\ \/ Passed(c, [m EXCEPT !.meta = TRUE], r)
        \/ Passed(c, [m EXCEPT !.texts = @ + 1], [r EXCEPT !.texts = @ + 1])
        \/ /\ 0 \notin m.tools
           /\ Passed(c, [m EXCEPT !.tools = @ \cup {0}], [r EXCEPT !.tools = @ + 1])

\* parseStream on [DONE]: the response of what was parsed.  Reading goes on after it.
StreamDone(c) ==
  LET m == modelCall[c].parsed
      r == received[c]
  IN /\ modelCall[c].pc = "stream" /\ modelCall[c].events < MaxEvents /\ m.meta
     /\ Passed(c, [m EXCEPT !.terminal = TRUE],
               [r EXCEPT !.answers = @ \cup {[texts |-> m.texts, tools |-> Cardinality(m.tools),
                                              shown |-> <<r.texts, r.tools>>]}])

\* The body ends, after [DONE] or too early.
StreamCloses(c) ==
  /\ modelCall[c].pc = "stream"
  /\ \/ modelCall[c].parsed.terminal /\ AttemptSucceeds(c)
     \/ ~modelCall[c].parsed.terminal /\ AttemptFails(c, Failure("malformed_response"))

\* An error payload, an event that is malformed or too large, [DONE] before any metadata or
\* over arguments that do not parse; the reader fails, also because the caller aborted.
StreamBreaks(c) ==
  /\ modelCall[c].pc = "stream"
  /\ \E category \in {"unavailable", "malformed_response", "timeout", "network"} :
       AttemptFails(c, Failure(category))

\* The caller's loop throws on an event that was under way when it aborted (agent.ts); the
\* generator's finally runs, nothing else.
LeavesStream(c) ==
  /\ modelCall[c].pc = "stream" /\ c \in hungUp
  /\ pool' = Freed(pool, modelCall[c].slot)
  /\ CallOver(c, "thrown")

InFlight == {"request", "body", "stream"}

HangsUp(c) ==
  /\ modelCall[c].pc \in InFlight /\ hungUp' = hungUp \cup {c}
  /\ UNCHANGED <<pool, modelCall, received, poolTime>>

PoolTick ==
  /\ poolTime < MaxPoolTime /\ poolTime' = poolTime + 1
  /\ UNCHANGED <<pool, modelCall, hungUp, received>>

AttemptStep(c) ==
  \/ RequestRefused(c) \/ RequestFails(c) \/ Responds(c) \/ BodyRead(c)
  \/ StreamPayload(c) \/ StreamDone(c) \/ StreamCloses(c) \/ StreamBreaks(c) \/ LeavesStream(c)

PoolNext ==
  \/ \E c \in ModelCalls : StartModelCall(c) \/ AttemptStep(c) \/ HangsUp(c)
  \/ PoolTick

\* The transport's time-out covers the request and its body.
PoolFairness == \A c \in ModelCalls : WF_poolVars(AttemptStep(c))

-----------------------------------------------------------------------------
(* Properties *)

\* Type invariant of the pool.
PoolTypeOK ==
  /\ \A s \in ModelSlots : pool[s].failures \in Nat /\ pool[s].until \in Nat /\ pool[s].inFlight \in Nat
  /\ \A c \in ModelCalls :
       /\ modelCall[c].pc \in {"new", "returned", "thrown"} \cup InFlight
       /\ modelCall[c].slot \in ModelSlots /\ modelCall[c].queue \in Seq(ModelSlots)
  /\ hungUp \subseteq ModelCalls

\* The parts of PoolSound below.
InFlightExact ==
  \A s \in ModelSlots :
    pool[s].inFlight = Cardinality({c \in ModelCalls : modelCall[c].pc \in InFlight /\ modelCall[c].slot = s})

OneSource ==
  \A c \in ModelCalls :
    /\ Cardinality(received[c].from) <= 1
    /\ \A a \in received[c].answers : a.shown = <<a.texts, a.tools>>

\* A slot counts exactly the attempts under way on it, through failures, fail-over, aborts
\* and callers that leave; and a caller is never given the events of two slots, so that a
\* completed response says what was streamed before it.  (The pool's maps keep their types.)
PoolSound == PoolTypeOK /\ InFlightExact /\ OneSource

\* Every model call comes to its end, whatever its slots answer.
ModelCallsEnd == []<>(\A c \in ModelCalls : modelCall[c].pc \notin InFlight)
=============================================================================
