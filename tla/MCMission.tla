----------------------------- MODULE MCMission -----------------------------
(***************************************************************************)
(* MissionStream on a small instance.  A behaviour follows one kind of     *)
(* callers: transitions over the whole lifecycle of a mission; every       *)
(* method, repeated under a key, on a stream of a few events; or appends   *)
(* whose snapshots are saved late as checkpoints.                          *)
(***************************************************************************)
EXTENDS MissionStream, TLC

CONSTANTS c1, c2, k1, t1, cost, sig,
          MaxLedgerEvents,  \* events of the second kind of behaviour
          MaxSavedEvents    \* events of the third

VARIABLE part   \* the kind of callers

UnitLimit == [d \in {cost} |-> 1]
UnitDebit == {[d \in {cost} |-> 1]}

InFlight == {call'[c] : c \in Callers} \ {NoCall}

\* Every request in flight is one of these, and sent once.
OnlyTypes(types) == \A m \in InFlight : m.items[1].type \in types /\ m.key = Fresh

\* Transitions go on, pause or end.
FewTransitions == \A m \in InFlight :
  m.items[1].type = "mission.transitioned" => m.items[1].to \in {"UNDERSTANDING", "PAUSING", "BLOCKED"}

Lifecycle == {"mission.created", "mission.transitioned"}

PartInit == StreamInit /\ part \in {"lifecycle", "ledger", "saved"}

PartNext ==
  /\ UNCHANGED part
  /\ \/ part = "lifecycle" /\ RuntimeStep /\ OnlyTypes(Lifecycle)
     \/ part = "ledger" /\ RuntimeStep /\ snapshot'.version <= MaxLedgerEvents /\ FewTransitions
     \/ /\ part = "saved" /\ StreamNext /\ snapshot'.version <= MaxSavedEvents
        /\ OnlyTypes(Lifecycle \cup {"failure.recorded"}) /\ FewTransitions

MissionSpec == PartInit /\ [][PartNext]_<<streamVars, part>>

Symmetry == Permutations({c1, c2})
=============================================================================
