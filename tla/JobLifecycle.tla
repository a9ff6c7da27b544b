---------------------------- MODULE JobLifecycle ----------------------------
(***************************************************************************)
(* What the durable store promises about one job, whatever the runners,    *)
(* producers and timers do: the statuses it goes through, and when its     *)
(* fencing generation moves.  JobRunner implements this specification for  *)
(* every job.                                                              *)
(***************************************************************************)
EXTENDS Naturals

VARIABLES
  status,      \* status column, "ABSENT" before the enqueue
  ceiling,     \* max_attempts, 0 before the enqueue
  generation,  \* lease_generation
  leased       \* some lease on the job has not expired

lifecycleVars == <<status, ceiling, generation, leased>>

Init == status = "ABSENT" /\ ceiling = 0 /\ generation = 0 /\ leased = FALSE

Enqueue == /\ status = "ABSENT" /\ status' = "PENDING"
           /\ ceiling' \in Nat \ {0}
           /\ UNCHANGED <<generation, leased>>

\* A claim opens a new generation.  It never takes a job away from a lease that
\* is still running, and happens at most ceiling times.
Claim == /\ status \in {"PENDING", "RETRY_WAIT", "RUNNING"}
         /\ ~leased /\ generation < ceiling
         /\ status' = "RUNNING" /\ generation' = generation + 1 /\ leased' = TRUE
         /\ UNCHANGED ceiling

\* A lease runs out.  (Extending one changes nothing that is visible here.)
Expire == leased /\ leased' = FALSE /\ UNCHANGED <<status, ceiling, generation>>

\* A step from RUNNING to next that ends the lease.
Leave(next) == /\ status = "RUNNING" /\ status' = next /\ leased' = FALSE
               /\ UNCHANGED <<ceiling, generation>>

\* Only the holder of an unexpired lease settles a job with a result or a retry.
Succeed == leased /\ Leave("SUCCEEDED")
Retry   == leased /\ generation < ceiling /\ Leave("RETRY_WAIT")

\* A running job is blocked by its holder, or by maintenance when its last
\* attempt has lost its lease.
Block == (leased \/ generation = ceiling) /\ Leave("BLOCKED")

\* A waiting job is cancelled at once, a running one by its holder; a request
\* to cancel a running job makes it CANCELLING, which only CANCELLED follows.
CancelWaiting == /\ status \in {"PENDING", "RETRY_WAIT"} /\ status' = "CANCELLED"
                 /\ UNCHANGED <<ceiling, generation, leased>>
CancelHeld    == leased /\ Leave("CANCELLED")
CancelRequest == /\ status = "RUNNING" /\ status' = "CANCELLING"
                 /\ UNCHANGED <<ceiling, generation, leased>>
FinishCancel  == /\ status = "CANCELLING" /\ status' = "CANCELLED" /\ leased' = FALSE
                 /\ UNCHANGED <<ceiling, generation>>

Next == \/ Enqueue \/ Claim \/ Expire \/ Succeed \/ Retry \/ Block
        \/ CancelWaiting \/ CancelHeld \/ CancelRequest \/ FinishCancel

Spec == Init /\ [][Next]_lifecycleVars
=============================================================================
