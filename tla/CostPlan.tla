------------------------------- MODULE CostPlan -------------------------------
(***************************************************************************)
(* The arithmetic of a download plan: Databento's per-bucket estimates are *)
(* rounded to cents, spread over the missing partitions of the bucket, and *)
(* compared with the planning cap before anything is streamed              *)
(* (_runner/cost.py, pricing.py, the cost checks of _runner/lifecycle.py). *)
(*                                                                         *)
(* A bucket (a "work key") is a (symbol, schema) pair.  An estimate is a   *)
(* Decimal number of dollars in the code; here it is a natural number of   *)
(* mills, tenths of a cent, the coarsest unit in which rounding to cents   *)
(* still rounds.                                                           *)
(***************************************************************************)
EXTENDS Totals, Sequences, FiniteSetsExt

CONSTANTS Key,          \* the (symbol, schema) buckets
          Work,         \* the missing partitions in download order: their buckets
          MaxWorkers,   \* config.max_workers
          BucketCap,    \* config.max_cost_cents_per_bucket; None is a cap nothing reaches
          AllowBurst    \* config.allow_burst_exposure

ASSUME PlanAssumption ==
    /\ IsFiniteSet(Key)
    /\ Work \in Seq(Key)
    /\ MaxWorkers \in Nat \ {0}
    /\ BucketCap \in Nat
    /\ AllowBurst \in BOOLEAN

Positions == 1..Len(Work)

PositionsOf(k) == {p \in Positions : Work[p] = k}

\* The buckets something is missing in: only those are estimated.
BusyKeys == {k \in Key : PositionsOf(k) # {}}

-----------------------------------------------------------------------------
\* decimal_dollars_to_cents: ROUND_HALF_UP.
HalfUpCents(m) == (m + 5) \div 10

\* One CostEstimate per bucket, rounded on its own ...
KeyCents(mills, k) == HalfUpCents(mills[k])

SumKeyCents(mills) == Total([k \in BusyKeys |-> KeyCents(mills, k)], BusyKeys)

\* ... while the total the user confirms is rounded once.
TotalCents(mills) == HalfUpCents(Total(mills, BusyKeys))

\* The share of the index-th partition of a bucket: the first (total % count)
\* partitions carry the odd cents.
Share_Mutant(mills, k, index) ==
    LET count == Cardinality(PositionsOf(k))
        total == KeyCents(mills, k)
    IN  total \div count + (IF index <= total % count THEN 1 ELSE 0)

Share(mills, k, index) ==
    LET count == Cardinality(PositionsOf(k))
        total == KeyCents(mills, k)
    IN  total \div count + (IF index < total % count THEN 1 ELSE 0)

\* The rank of a partition inside its bucket, counted from 0.
RankOf(p) == Cardinality({q \in 1..(p - 1) : Work[q] = Work[p]})

\* The n most expensive partitions, summed (heapq.nlargest).
LargestWindow(mills, n) ==
    LET price == [p \in Positions |-> Share(mills, Work[p], RankOf(p))]
    IN  Max({Total(price, S) : S \in {T \in SUBSET Positions : Cardinality(T) = n}})

-----------------------------------------------------------------------------
CheckCostCap(cap, mills) == TotalCents(mills) <= cap

CheckBucketCaps(cap, mills) ==
    \A k \in BusyKeys : /\ KeyCents(mills, k) <= BucketCap
                        /\ cap = 0 => KeyCents(mills, k) = 0

CheckBurst(cap, mills) ==
    LET workers == Min({MaxWorkers, Len(Work)})
    IN  workers > 1 /\ ~AllowBurst => LargestWindow(mills, workers) <= cap

\* Everything _run_download_locked requires of the estimate before it streams.
Admitted(cap, mills) ==
    /\ CheckCostCap(cap, mills)
    /\ CheckBucketCaps(cap, mills)
    /\ CheckBurst(cap, mills)
=============================================================================
