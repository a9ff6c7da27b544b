--------------------------- MODULE SandboxProcess ---------------------------
(***************************************************************************)
(* SandboxProcessRunner and NodeProcessAdapter (src/sandbox/process.ts):   *)
(* registered commands run as child processes, at most MaxConcurrent at a  *)
(* time.  A child ends by itself, or is killed by the first of a timeout,  *)
(* a cancellation and an output limit.  The operating system is external.  *)
(***************************************************************************)
EXTENDS Integers, FiniteSets

CONSTANTS ProcessCalls, MaxConcurrent, MaxOutput

ASSUME ProcessAssumption == IsFiniteSet(ProcessCalls) /\ MaxConcurrent \in Nat \ {0} /\ MaxOutput \in Nat

Streams == {"stdout", "stderr"}

\* What a caller may ask for: a registered command by its network mode, or an id nobody registered.
ProcessCommands == {"deny", "policy_required", "unregistered"}

\* normalizeCommand lets well formed definitions into the registry; of those only "deny" may run.
Runnable(command) == command = "deny"

VARIABLES
  active,        \* #active: reserved slots
  process,       \* per call: where it is, the override, killed, output kept, truncated, the result
  runCancelled   \* the callers' abort signals

processVars == <<active, process, runCancelled>>

ProcessInit ==
  /\ active = 0
  /\ process = [c \in ProcessCalls |-> [at |-> "idle", override |-> "none", killed |-> FALSE,
                                        kept |-> [s \in Streams |-> 0], truncated |-> FALSE,
                                        outcome |-> "none"]]
  /\ runCancelled = [c \in ProcessCalls |-> FALSE]

\* Fault: the slot is not reserved until the child is spawned.
LateReservation(c, command) ==
  /\ process[c].at = "idle"
  /\ LET at == IF ~Runnable(command) THEN "rejected" ELSE IF runCancelled[c] THEN "resolved" ELSE IF active >= MaxConcurrent THEN "rejected" ELSE "resolving"
     IN  process' = [process EXCEPT ![c].at = at, ![c].outcome = IF at = "resolved" THEN "CANCELLED" ELSE @]
  /\ UNCHANGED <<active, runCancelled>>

\* run: not runnable, cancelled before it starts, over the ceiling, or a slot reserved before the first await.
Run(c, command) ==
  /\ process[c].at = "idle"
  /\ LET at == IF ~Runnable(command) THEN "rejected" ELSE IF runCancelled[c] THEN "resolved" ELSE IF active >= MaxConcurrent THEN "rejected" ELSE "resolving"
     IN  /\ process' = [process EXCEPT ![c].at = at, ![c].outcome = IF at = "resolved" THEN "CANCELLED" ELSE @]
         /\ active' = IF at = "resolving" THEN active + 1 ELSE active
  /\ UNCHANGED runCancelled

\* The slot is given back when the promise of the adapter settles, whichever way (finally).
ProcessEnds(c, at, outcome) ==
  /\ process' = [process EXCEPT ![c].at = at, ![c].outcome = outcome]
  /\ active' = active - 1
  /\ UNCHANGED runCancelled

\* resolveDirectory answers and the child is spawned; the signal is looked at once more before it.
Spawn(c, found) ==
  /\ process[c].at = "resolving"
  /\ \/ ~found /\ ProcessEnds(c, "rejected", "none")
     \/ found /\ runCancelled[c] /\ ProcessEnds(c, "resolved", "CANCELLED")
     \/ found /\ ~runCancelled[c] /\ process' = [process EXCEPT ![c].at = "child"] /\ UNCHANGED <<active, runCancelled>>

\* terminate: the first reason stays, the child is killed once.
Terminate(p, reason) == [p EXCEPT !.override = IF @ = "none" THEN reason ELSE @, !.killed = TRUE]

\* A chunk arrives: what is over the stream's limit is cut off, and the child is killed.
Output(c, stream, size) ==
  /\ process[c].at = "child"
  /\ LET p == process[c]
         keeps(n) == [p.kept EXCEPT ![stream] = n] IN
     process' = [process EXCEPT ![c] =
       IF size > MaxOutput - p.kept[stream]
       THEN Terminate([p EXCEPT !.kept = keeps(MaxOutput), !.truncated = TRUE], "OUTPUT_LIMIT")
       ELSE [p EXCEPT !.kept = keeps(p.kept[stream] + size)]]
  /\ UNCHANGED <<active, runCancelled>>

ProcessTimeout(c) ==
  /\ process[c].at = "child"
  /\ process' = [process EXCEPT ![c] = Terminate(@, "TIMED_OUT")]
  /\ UNCHANGED <<active, runCancelled>>

\* The abort event: the listener of a running child terminates it.
CancelRun(c) ==
  /\ ~runCancelled[c] /\ process[c].at \in {"idle", "resolving", "child"}
  /\ runCancelled' = [runCancelled EXCEPT ![c] = TRUE]
  /\ process' = IF process[c].at = "child" THEN [process EXCEPT ![c] = Terminate(@, "CANCELLED")] ELSE process
  /\ UNCHANGED active

\* close: the override, or how the child ended by itself.
ChildCloses(c, signalled) ==
  /\ process[c].at = "child"
  /\ ProcessEnds(c, "resolved",
       IF process[c].override # "none" THEN process[c].override ELSE IF signalled THEN "SIGNALED" ELSE "EXITED")

\* error before the child started.
ChildFails(c) == process[c].at = "child" /\ process[c].kept = [s \in Streams |-> 0] /\ ProcessEnds(c, "rejected", "none")

ProcessNext ==
  \E c \in ProcessCalls :
    \/ \E command \in ProcessCommands : Run(c, command)
    \/ CancelRun(c) \/ ProcessTimeout(c) \/ ChildFails(c)
    \/ \E b \in BOOLEAN : Spawn(c, b) \/ ChildCloses(c, b)
    \/ \E stream \in Streams, n \in 1 .. MaxOutput + 1 : Output(c, stream, n)

\* The file system answers, timers fire, and a killed child closes; a child need not end by itself.
ProcessFairness ==
  \A c \in ProcessCalls :
    /\ WF_processVars(\E b \in BOOLEAN : Spawn(c, b))
    /\ WF_processVars(ProcessTimeout(c))
    /\ WF_processVars(process[c].killed /\ ChildCloses(c, TRUE))

(***************************************************************************)
(* Slots are counted exactly and never exceed the ceiling, whatever fails  *)
(* between reserving and returning (process.ts 77-92); a run reported as   *)
(* EXITED kept its whole output, and one cut off is never reported as it.  *)
(***************************************************************************)
SlotsAccounted ==
  /\ active = Cardinality({c \in ProcessCalls : process[c].at \in {"resolving", "child"}})
  /\ active <= MaxConcurrent
  /\ \A c \in ProcessCalls, s \in Streams : process[c].kept[s] <= MaxOutput
  /\ \A c \in ProcessCalls : process[c].outcome \in {"EXITED", "SIGNALED"} =>
       ~process[c].truncated /\ ~process[c].killed
=============================================================================
