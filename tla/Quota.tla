------------------------------- MODULE Quota -------------------------------
(***************************************************************************)
(* Shared-compute accounting of one user (QuotaStore, src/chat/quota.ts)   *)
(* under the model calls of the agent (src/chat/agent.ts).  Every method   *)
(* is one database transaction: a reservation holds the quota's advisory   *)
(* lock, and the others change the rows they have locked.  A method that   *)
(* throws is rolled back and is no step.                                   *)
(*                                                                         *)
(* Time is counted in units of which a day has TicksPerDay; a reservation  *)
(* expires Expiry units after it was made.                                 *)
(***************************************************************************)
EXTENDS Integers, FiniteSets, FiniteSetsExt

CONSTANTS
  Requests,      \* request identifiers of model calls
  HalfWeight,    \* twice MODEL_WEIGHTS of the model, which may be a half
  Estimates,     \* estimated token counts a call may reserve for
  Usages,        \* token counts a provider may report
  MonthlyOcu, DailyOcu,
  Expiry, TicksPerDay, DaysPerMonth,
  MaxTime,        \* bound on time
  DatesAreText   \* whether the driver returns a DATE column as YYYY-MM-DD text

Tokens == [inputTokens : Nat, outputTokens : Nat]

ASSUME QuotaAssumption ==
  /\ IsFiniteSet(Requests)
  /\ HalfWeight \in Nat \ {0}
  /\ Estimates \subseteq Tokens /\ Usages \subseteq Tokens
  /\ MonthlyOcu \in Nat /\ DailyOcu \in Nat
  /\ Expiry \in Nat /\ TicksPerDay \in Nat \ {0} /\ DaysPerMonth \in Nat \ {0}
  /\ MaxTime \in Nat
  /\ DatesAreText \in BOOLEAN

VARIABLES
  time,
  reservation,  \* rows of quota_reservations
  ledger,       \* rows of usage_ledger
  period,       \* rows of usage_periods
  call          \* per request: what the agent that made it is doing

quotaVars == <<time, reservation, ledger, period, call>>

DayOf(t)   == t \div TicksPerDay
MonthOf(t) == DayOf(t) \div DaysPerMonth
Months     == 0 .. MonthOf(MaxTime)

Reservation == [status : {"none", "reserved", "settled", "released", "expired"},
                month : Months, estimate : Nat, createdAt : Nat]
LedgerRow   == [units : Nat, createdAt : Nat]
Period      == [consumed : Nat, reserved : Nat]

QuotaInit ==
  /\ time = 0
  /\ reservation = [q \in Requests |->
       [status |-> "none", month |-> 0, estimate |-> 0, createdAt |-> 0]]
  /\ ledger = [q \in Requests |-> [units |-> 0, createdAt |-> 0]]
  /\ period = [m \in Months |-> [consumed |-> 0, reserved |-> 0]]
  /\ call = [q \in Requests |-> "idle"]

-----------------------------------------------------------------------------

\* Fault: the quotient is rounded down.
ComputeUnitsFloor(t) == ((t.inputTokens + 2 * t.outputTokens) * HalfWeight) \div 2000

\* computeUnitsForUsage: (input / 1000 + output / 500) * weight, rounded up.
ComputeUnits(t) ==
  Max({1, ((t.inputTokens + 2 * t.outputTokens) * HalfWeight + 1999) \div 2000})

NonNegative(n) == Max({0, n})

Holding(status) == {q \in Requests : reservation[q].status = status}

\* SUM over some rows: the number of pairs of a row and one of its units.
Total(units, S) == Cardinality(UNION {{q} \X (1 .. units[q]) : q \in S})
Estimated(S)    == Total([q \in Requests |-> reservation[q].estimate], S)
Charged(S)      == Total([q \in Requests |-> ledger[q].units], S)

\* expireReservations: the rows it expires, and what it gives back to the month.
Overdue == {q \in Holding("reserved") : reservation[q].createdAt + Expiry < time}

\* Fault: rows of an earlier month are given back to this one.
GivenBackUnfiltered == Estimated(Overdue)

\* A DATE that the driver returns as a Date object does not print as its ISO
\* text, so that no row passes the filter on period_start.
GivenBack ==
  IF DatesAreText THEN Estimated({q \in Overdue : reservation[q].month = MonthOf(time)}) ELSE 0

Expired == [q \in Requests |->
  IF q \in Overdue THEN [reservation[q] EXCEPT !.status = "expired"] ELSE reservation[q]]

AfterExpiry ==
  [period EXCEPT ![MonthOf(time)].reserved = NonNegative(@ - GivenBack)]

\* snapshot.
Snapshot ==
  /\ reservation' = Expired
  /\ period' = AfterExpiry
  /\ UNCHANGED <<time, ledger, call>>

\* Today's part of the ledger and of the reservations.
DailyConsumed == Charged({q \in Holding("settled") : DayOf(ledger[q].createdAt) = DayOf(time)})
DailyReserved ==
  Estimated({q \in Holding("reserved") \ Overdue : DayOf(reservation[q].createdAt) = DayOf(time)})

\* Fault: what is reserved but not settled yet is left out.
AdmitsConsumedOnly(units) ==
  /\ period[MonthOf(time)].consumed + units <= MonthlyOcu
  /\ DailyConsumed + units <= DailyOcu

Admits(units) ==
  /\ AfterExpiry[MonthOf(time)].consumed + AfterExpiry[MonthOf(time)].reserved + units <= MonthlyOcu
  /\ DailyConsumed + DailyReserved + units <= DailyOcu

\* reserve: a request that holds a reservation gets it again, a finished one is
\* refused, and a new one is admitted within both limits.
Reserve(q, t) ==
  LET units == ComputeUnits(t) IN
  /\ call[q] = "idle"
  /\ call' = [call EXCEPT ![q] = "calling"]
  /\ \/ /\ Expired[q].status = "reserved"
        /\ reservation' = Expired
        /\ period' = AfterExpiry
     \/ /\ reservation[q].status = "none"
        /\ Admits(units)
        /\ reservation' = [Expired EXCEPT ![q] =
             [status |-> "reserved", month |-> MonthOf(time), estimate |-> units, createdAt |-> time]]
        /\ period' = [AfterExpiry EXCEPT ![MonthOf(time)].reserved = @ + units]
  /\ UNCHANGED <<time, ledger>>

\* The decrement of reserved_ocus that settle and release make.
Unreserved(q) ==
  [period EXCEPT ![reservation[q].month].reserved = NonNegative(@ - reservation[q].estimate)]

\* Fault: the month in which the answer came is charged.
SettleNow(q, t) ==
  /\ call[q] = "calling" /\ reservation[q].status = "reserved"
  /\ call' = [call EXCEPT ![q] = "done"]
  /\ reservation' = [reservation EXCEPT ![q].status = "settled"]
  /\ ledger' = [ledger EXCEPT ![q] = [units |-> ComputeUnits(t), createdAt |-> time]]
  /\ period' = [Unreserved(q) EXCEPT ![MonthOf(time)].consumed = @ + ComputeUnits(t)]
  /\ UNCHANGED time

\* settle: charges the month of the reservation, whatever month it is by time.
\* A reservation that is no longer held is left alone.
Settle(q, t) ==
  /\ call[q] = "calling"
  /\ call' = [call EXCEPT ![q] = "done"]
  /\ IF reservation[q].status = "reserved"
     THEN /\ reservation' = [reservation EXCEPT ![q].status = "settled"]
          /\ ledger' = [ledger EXCEPT ![q] = [units |-> ComputeUnits(t), createdAt |-> time]]
          /\ period' = [Unreserved(q) EXCEPT
               ![reservation[q].month].consumed = @ + ComputeUnits(t)]
     ELSE UNCHANGED <<reservation, ledger, period>>
  /\ UNCHANGED time

\* release: the provider failed or answered for another model.
Release(q) ==
  /\ call[q] = "calling"
  /\ call' = [call EXCEPT ![q] = "done"]
  /\ IF reservation[q].status = "reserved"
     THEN /\ reservation' = [reservation EXCEPT ![q].status = "released"]
          /\ period' = Unreserved(q)
     ELSE UNCHANGED <<reservation, period>>
  /\ UNCHANGED <<time, ledger>>

\* The agent's process dies and the call is made again under its identifier, or
\* the reported usage is invalid, which neither settles nor releases.
Drop(q) ==
  /\ call[q] = "calling"
  /\ \E next \in {"idle", "done"} : call' = [call EXCEPT ![q] = next]
  /\ UNCHANGED <<time, reservation, ledger, period>>

QuotaTick == time < MaxTime /\ time' = time + 1 /\ UNCHANGED <<reservation, ledger, period, call>>

QuotaNext ==
  \/ Snapshot
  \/ \E q \in Requests, t \in Estimates : Reserve(q, t)
  \/ \E q \in Requests, t \in Usages : Settle(q, t)
  \/ \E q \in Requests : Release(q)
  \/ \E q \in Requests : Drop(q)
  \/ QuotaTick

QuotaSpec == QuotaInit /\ [][QuotaNext]_quotaVars

-----------------------------------------------------------------------------
(* Properties *)

\* The rows of the four tables have their types.
QuotaTypeOK ==
  /\ time \in 0 .. MaxTime
  /\ reservation \in [Requests -> Reservation]
  /\ ledger \in [Requests -> LedgerRow]
  /\ period \in [Months -> Period]
  /\ call \in [Requests -> {"idle", "calling", "done"}]

\* What a month has consumed is the sum of the ledger rows of the reservations
\* made in it, also when they were settled after the month had ended.  (The rows of
\* the four tables keep their types.)
ConsumedIsLedger ==
  /\ QuotaTypeOK
  /\ \A m \in Months :
       period[m].consumed = Charged({q \in Holding("settled") : reservation[q].month = m})

\* reserved_ocus never falls below what is really held, so that concurrent calls
\* cannot be admitted against capacity that is promised to another one: no
\* reservation is given back twice by expiry, settlement and release together.
ReservedCovers ==
  \A m \in Months :
    period[m].reserved >= Estimated({q \in Holding("reserved") : reservation[q].month = m})

\* Whenever a call is admitted, everything charged and held of its month and of
\* its day, the call included, is within the plan.
Outstanding(m) ==
  Charged({q \in Holding("settled") : reservation[q].month = m})
    + Estimated({q \in Holding("reserved") : reservation[q].month = m})

Today ==
  Charged({q \in Holding("settled") : DayOf(ledger[q].createdAt) = DayOf(time)})
    + Estimated({q \in Holding("reserved") : DayOf(reservation[q].createdAt) = DayOf(time)})

AdmittedWithinPlan ==
  [][\A q \in Requests :
       reservation[q].status = "none" /\ reservation'[q].status = "reserved"
         => Outstanding(MonthOf(time))' <= MonthlyOcu /\ Today' <= DailyOcu]_quotaVars

\* Every charge is at least one unit and is never made twice or taken back, and
\* a call that reported its usage while it held its reservation was charged.
ChargedOnce ==
  /\ [][\A q \in Requests : reservation[q].status # "reserved" /\ reservation[q].status # "none"
          => UNCHANGED <<reservation[q], ledger[q]>>]_quotaVars
  /\ [](\A q \in Holding("settled") : ledger[q].units >= 1)

\* The month's totals under concurrent calls, late answers and expiry: what is
\* consumed is the ledger, and what is held is reserved (quota.ts 160-371).
AccountsBalance == ConsumedIsLedger /\ ReservedCovers

\* A call is admitted within the plan, and charged once (quota.ts 189-313).
ChargedWithinPlan == AdmittedWithinPlan /\ ChargedOnce
=============================================================================
