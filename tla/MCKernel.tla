------------------------------ MODULE MCKernel ------------------------------
(***************************************************************************)
(* The in-memory services of the kernel, side by side.  They share no      *)
(* state, so a behaviour exercises one of them: their state spaces add up  *)
(* instead of multiplying.                                                 *)
(***************************************************************************)
EXTENDS Coordinator, ToolRuntime, ProviderPool

VARIABLE service   \* the service this behaviour exercises

kernelVars == <<service, coordinationVars, toolVars, poolVars>>

\* t2 reads below the directory that t1 writes; t3 is served by the same specialist as t1.
MCTaskOrder == <<"t1", "t2", "t3">>
MCClaims == [t1 |-> {[namespace |-> "repository", key |-> <<"src">>, access |-> "write"]},
             t2 |-> {[namespace |-> "repository", key |-> <<"src", "a">>, access |-> "read"]},
             t3 |-> {[namespace |-> "resource", key |-> <<"db">>, access |-> "write"]}]
MCSpecialistOrder == <<"s1", "s2">>
MCServes == [t1 |-> {"s1"}, t2 |-> {"s2"}, t3 |-> {"s1"}]
MCMaxConcurrency == [s1 |-> 1, s2 |-> 1]

MCGrantOrder == <<"g1">>
MCGrantCalls == [g1 |-> 2]

MCSlotOrder == <<"s1", "s2">>
Answer(status, code, retryAfter) == [status |-> status, code |-> code, retryAfter |-> retryAfter]
MCHttpAnswers == {Answer(401, "", NoRetryAfter), Answer(429, "insufficient_quota", 9), Answer(413, "", NoRetryAfter)}

KernelInit ==
  /\ service \in {"coordination", "tools", "models"}
  /\ CoordinatorInit /\ ToolInit /\ PoolInit
  /\ service # "coordination" => maxPlanRecords = 1

KernelNext ==
  \/ service = "coordination" /\ CoordinatorNext /\ UNCHANGED <<service, toolVars, poolVars>>
  \/ service = "tools" /\ ToolNext /\ UNCHANGED <<service, coordinationVars, poolVars>>
  \/ service = "models" /\ PoolNext /\ UNCHANGED <<service, coordinationVars, toolVars>>

KernelSpec == KernelInit /\ [][KernelNext]_kernelVars /\ CoordinatorFairness /\ ToolFairness /\ PoolFairness

\* Calls of tools and of models are accounted for: keys, grants and audit of the tool
\* runtime, and the slots and streams of the provider pool.
CallsSound == CallsAccounted /\ PoolSound

\* Whoever calls the kernel is served: every execute of the coordinator comes to its end and
\* gives its leases back, and every tool call and every model call returns, whatever hangs or
\* fails before it.
CallersServed == ExecutionEnds /\ CallsReturn /\ ModelCallsEnd
=============================================================================
