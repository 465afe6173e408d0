----------------------------- MODULE StreamMissing -----------------------------
(***************************************************************************)
(* The download scheduler: _stream_missing of _runner/stream.py, the main  *)
(* thread that feeds a ThreadPoolExecutor from the lazy iterator of        *)
(* missing partitions, together with the workers of the pool, seen as      *)
(* futures.  What a worker does to the archive is module ArchiveRuns.      *)
(*                                                                         *)
(* The main thread's statements between two waits are one action each, so  *)
(* a worker may finish, and a signal may arrive, between any two of them.  *)
(***************************************************************************)
EXTENDS CostPlan

CONSTANTS ExpectedWeekdays,     \* [Key -> Nat], of the missing-work summary
          SuspiciousWeekdays,   \* config.suspicious_no_data_weekdays
          Caps,                 \* the planning caps (max_cost_cents) a run may have
          Mills                 \* the per-bucket estimates a run may get

ASSUME StreamAssumption ==
    /\ ExpectedWeekdays \in [Key -> Nat]
    /\ SuspiciousWeekdays \in Nat
    /\ Caps \subseteq Nat
    /\ Mills \subseteq Nat

VARIABLES
    cap, mills,     \* this run's planning cap and estimates: chosen once
    pc,             \* where the main thread is
    cursor,         \* partitions the lazy iterator has gone past
    skipped,        \* ... and those among them it no longer found missing
    pending,        \* pending_work: a partition held back, 0 for None
    alloc,          \* allocation_indexes_by_key
    cost,           \* future_costs, by partition
    fut,            \* each partition's future
    active,         \* active_futures
    batch,          \* the rest of `done`, what wait() returned
    committed,      \* committed_estimated_cents
    outstanding,    \* outstanding_estimated_cents
    landed,         \* landed_estimated_cents
    counts,         \* placed, no_data, failed and completed_work
    noDataByKey,    \* no_data_counts_by_key
    stop,           \* why the try block was left: fatal, a signal, ...
    result          \* what the call returned or raised

plan == <<cap, mills>>
feed == <<cursor, skipped, pending, alloc, cost>>
books == <<committed, outstanding, landed, counts, noDataByKey>>
vars == <<plan, pc, feed, fut, active, batch, books, stop, result>>

\* How a finished worker's future can look: the four outcomes of _stream_one,
\* or an exception of any kind.
Outcome == {"placed", "cached", "no_data", "failed"}
Finished == Outcome \cup {"raised"}
FutState == Finished \cup {"none", "queued", "running", "cancelled", "lost"}

InState(S) == {p \in Positions : fut[p] \in S}
Running == InState({"running"})

Init ==
    /\ cap \in Caps
    /\ mills \in [Key -> Mills]
    /\ pc = "admission"
    /\ cursor = 0 /\ skipped = {} /\ pending = 0
    /\ alloc = [k \in Key |-> 0]
    /\ cost = [p \in Positions |-> 0]
    /\ fut = [p \in Positions |-> "none"]
    /\ active = {} /\ batch = {}
    /\ committed = 0 /\ outstanding = 0 /\ landed = 0
    /\ counts = [placed |-> 0, no_data |-> 0, failed |-> 0, completed |-> 0]
    /\ noDataByKey = [k \in Key |-> 0]
    /\ stop = "none" /\ result = "running"

-----------------------------------------------------------------------------
\* The cost checks of _run_download_locked, exit code 2 when one refuses.
Admit ==
    /\ pc = "admission"
    /\ IF Admitted(cap, mills)
       THEN pc' = "submit" /\ UNCHANGED result
       ELSE pc' = "done" /\ result' = "refused"
    /\ UNCHANGED <<plan, feed, fut, active, batch, books, stop>>

-----------------------------------------------------------------------------
\* _submit_admissible, one iteration of its loop per action.
Fits_Mutant(c) == committed + c <= cap

Fits_StrictMutant(c) == committed + outstanding + c < cap

Fits(c) == committed + outstanding + c <= cap

HasRoom == Cardinality(active) < MaxWorkers

CanPull == pc = "submit" /\ HasRoom /\ pending = 0 /\ cursor < Len(Work)

\* next(work_iter) looks at the archive again: a partition that appeared since
\* the summary was taken is passed over and never yielded.
PassOver ==
    /\ CanPull
    /\ cursor' = cursor + 1
    /\ skipped' = skipped \cup {cursor + 1}
    /\ UNCHANGED <<plan, pc, pending, alloc, cost, fut, active, batch, books, stop, result>>

Pull ==
    LET p == cursor + 1
        k == Work[p]
    IN  /\ CanPull
        /\ cursor' = p
        /\ pending' = p
        /\ cost' = [cost EXCEPT ![p] = Share(mills, k, alloc[k])]
        /\ alloc' = [alloc EXCEPT ![k] = @ + 1]
        /\ UNCHANGED <<plan, pc, skipped, fut, active, batch, books, stop, result>>

Submit ==
    /\ pc = "submit" /\ HasRoom /\ pending # 0
    /\ Fits(cost[pending])
    /\ fut' = [fut EXCEPT ![pending] = "queued"]
    /\ active' = active \cup {pending}
    /\ outstanding' = outstanding + cost[pending]
    /\ pending' = 0
    /\ UNCHANGED <<plan, pc, cursor, skipped, alloc, cost, batch, committed, landed, counts,
                   noDataByKey, stop, result>>

\* Nothing is running that could free budget: the planning cap error.
CapAbort_Mutant ==
    /\ pc = "submit" /\ HasRoom /\ pending # 0
    /\ ~Fits(cost[pending]) /\ active = {}
    /\ UNCHANGED vars

CapAbort ==
    /\ pc = "submit" /\ HasRoom /\ pending # 0
    /\ ~Fits(cost[pending]) /\ active = {}
    /\ stop' = "planning_cap"
    /\ pc' = "unwind"
    /\ UNCHANGED <<plan, feed, fut, active, batch, books, result>>

\* The call returns into the for loop over `done`, or to the while loop's test.
NothingToSubmit_Mutant ==
    \/ ~HasRoom
    \/ pending = 0
    \/ pending # 0 /\ ~Fits(cost[pending]) /\ active # {}

NothingToSubmit ==
    \/ ~HasRoom
    \/ pending = 0 /\ cursor = Len(Work)
    \/ pending # 0 /\ ~Fits(cost[pending]) /\ active # {}

SubmitReturns ==
    /\ pc = "submit"
    /\ NothingToSubmit
    /\ pc' = IF batch # {} THEN "collect" ELSE IF active # {} THEN "wait" ELSE "unwind"
    /\ UNCHANGED <<plan, feed, fut, active, batch, books, stop, result>>

-----------------------------------------------------------------------------
\* wait(active_futures, return_when=FIRST_COMPLETED)
WaitReturns ==
    LET done == {p \in active : fut[p] \in Finished}
    IN  /\ pc = "wait"
        /\ done # {}
        /\ batch' = done
        /\ pc' = "collect"
        /\ UNCHANGED <<plan, feed, fut, active, books, stop, result>>

\* The outcomes charged against the cap: a failed stream may have been billed.
Charged_Mutant == {"placed", "no_data"}

Charged == Outcome \ {"cached"}

Landed_Mutant == Outcome

Landed == {"placed", "no_data"}

Tallied_Mutant(o) ==
    [c \in DOMAIN counts \cup {o} |->
        IF c \notin DOMAIN counts THEN 1
        ELSE IF c \in {o, "completed"} THEN counts[c] + 1 ELSE counts[c]]

Tallied(o) ==
    [c \in DOMAIN counts |-> IF c \in {o, "completed"} THEN counts[c] + 1 ELSE counts[c]]

CountedNoData(o, k) == [noDataByKey EXCEPT ![k] = IF o = "no_data" THEN @ + 1 ELSE @]

\* One iteration of `for future in done`, the future's result being an outcome:
\* it is booked, and _submit_admissible() runs before the next one is looked at.
Collect(p) ==
    /\ pc = "collect"
    /\ p \in batch
    /\ fut[p] \in Outcome
    /\ active' = active \ {p}
    /\ batch' = batch \ {p}
    /\ outstanding' = outstanding - cost[p]
    /\ counts' = Tallied(fut[p])
    /\ noDataByKey' = CountedNoData(fut[p], Work[p])
    /\ committed' = IF fut[p] \in Charged THEN committed + cost[p] ELSE committed
    /\ landed' = IF fut[p] \in Landed THEN landed + cost[p] ELSE landed
    /\ pc' = "submit"
    /\ UNCHANGED <<plan, feed, fut, stop, result>>

\* ... or an exception, which abandons the rest of the batch.
CollectRaised(p) ==
    /\ pc = "collect"
    /\ p \in batch
    /\ fut[p] = "raised"
    /\ active' = active \ {p}
    /\ batch' = {}
    /\ outstanding' = outstanding - cost[p]
    /\ stop' = "fatal"
    /\ pc' = "unwind"
    /\ UNCHANGED <<plan, feed, fut, committed, landed, counts, noDataByKey, result>>

\* SIGINT or SIGTERM: the handler's exception surfaces in the main thread.
Interrupt ==
    /\ pc \in {"submit", "wait", "collect"}
    /\ stop' \in {"sigint", "sigterm"}
    /\ pc' = "unwind"
    /\ batch' = {}
    /\ UNCHANGED <<plan, feed, fut, active, books, result>>

-----------------------------------------------------------------------------
\* The except and finally clauses: futures no worker has begun are cancelled ...
WithoutQueued == [p \in Positions |-> IF fut[p] = "queued" THEN "cancelled" ELSE fut[p]]

Unwind ==
    /\ pc = "unwind"
    /\ fut' = WithoutQueued
    /\ pc' = "shutdown"
    /\ UNCHANGED <<plan, feed, active, batch, books, stop, result>>

\* ... and the pool is shut down; a fatal error does not wait for the workers.
ShutdownWaits_Mutant == stop = "none"

ShutdownWaits == stop \in {"none", "sigint", "sigterm"}

AllNoData_Mutant(k) ==
    /\ noDataByKey[k] = Cardinality(PositionsOf(k))
    /\ ExpectedWeekdays[k] > SuspiciousWeekdays

\* _raise_on_suspicious_all_no_data_counts
AllNoData(k) ==
    /\ noDataByKey[k] = Cardinality(PositionsOf(k))
    /\ ExpectedWeekdays[k] >= SuspiciousWeekdays

Verdict ==
    IF stop # "none" THEN stop
    ELSE IF counts.completed # Len(Work) THEN "accounting"
    ELSE IF \E k \in BusyKeys : AllNoData(k) THEN "suspicious"
    ELSE "ok"

Finish ==
    /\ pc = "shutdown"
    /\ ShutdownWaits => Running = {}
    /\ result' = Verdict
    /\ pc' = "done"
    /\ UNCHANGED <<plan, feed, fut, active, batch, books, stop>>

\* A second SIGINT while the first one waits for the workers: os._exit(130).
SecondInterrupt ==
    /\ pc = "shutdown" /\ stop = "sigint"
    /\ fut' = [p \in Positions |-> IF fut[p] = "running" THEN "lost" ELSE fut[p]]
    /\ result' = "killed"
    /\ pc' = "done"
    /\ UNCHANGED <<plan, feed, active, batch, books, stop>>

\* Any other signal while it waits raises in the finally clause and breaks the
\* wait off: SIGTERM, or a SIGINT that is the first one.
BreakOff ==
    /\ pc = "shutdown" /\ ShutdownWaits
    /\ result' = "broken_off"
    /\ pc' = "done"
    /\ UNCHANGED <<plan, feed, fut, active, batch, books, stop>>

-----------------------------------------------------------------------------
\* The pool's threads.  At most MaxWorkers futures are queued or running, so a
\* queued one always has a thread.
Begin(p) ==
    /\ fut[p] = "queued"
    /\ fut' = [fut EXCEPT ![p] = "running"]
    /\ UNCHANGED <<plan, pc, feed, active, batch, books, stop, result>>

End(p) ==
    /\ fut[p] = "running"
    /\ \E o \in Finished : fut' = [fut EXCEPT ![p] = o]
    /\ UNCHANGED <<plan, pc, feed, active, batch, books, stop, result>>

\* Nothing is left to happen.
Quiet ==
    /\ pc = "done"
    /\ InState({"queued", "running"}) = {}
    /\ UNCHANGED vars

Main ==
    \/ Admit \/ PassOver \/ Pull \/ Submit \/ CapAbort \/ SubmitReturns \/ WaitReturns
    \/ \E p \in Positions : Collect(p) \/ CollectRaised(p)
    \/ Unwind \/ Finish

Next ==
    \/ Main
    \/ Interrupt \/ SecondInterrupt \/ BreakOff
    \/ \E p \in Positions : Begin(p) \/ End(p)
    \/ Quiet

Spec == Init /\ [][Next]_vars

\* The main thread runs, and every Databento call returns or raises (the client
\* bounds its attempts: RetryOrFail of module ArchiveRuns).
FairSpec ==
    /\ Spec
    /\ WF_vars(Main)
    /\ \A p \in Positions : WF_vars(Begin(p)) /\ WF_vars(End(p))

-----------------------------------------------------------------------------
(* Properties *)

\* Types of the scheduler's variables.
TypeOK ==
    /\ cap \in Nat
    /\ mills \in [Key -> Nat]
    /\ pc \in {"admission", "submit", "wait", "collect", "unwind", "shutdown", "done"}
    /\ cursor \in 0..Len(Work)
    /\ skipped \in SUBSET Positions
    /\ pending \in 0..Len(Work)
    /\ alloc \in [Key -> Nat]
    /\ cost \in [Positions -> Nat]
    /\ fut \in [Positions -> FutState]
    /\ active \in SUBSET Positions
    /\ batch \in SUBSET Positions
    /\ committed \in Nat /\ outstanding \in Int /\ landed \in Nat
    /\ counts \in [{"placed", "no_data", "failed", "completed"} -> Nat]
    /\ noDataByKey \in [Key -> Nat]
    /\ stop \in {"none", "planning_cap", "fatal", "sigint", "sigterm"}
    /\ result \in {"running", "refused", "ok", "accounting", "suspicious", "planning_cap", "fatal",
                   "sigint", "sigterm", "killed", "broken_off"}

CostOf(S) == Total(cost, S)

\* The admission guard's claim (the cap test of _submit_admissible): what is
\* committed and what is in flight together never exceed the planning cap.
InFlightWithinCap == committed + outstanding <= cap

\* The money behind it: everything Databento may have been asked for - streams
\* that landed, failed or raised, that still run, or that a second SIGINT killed
\* - costs at most the cap by the plan's estimates, also while workers outlive
\* a fatal error that has already reached the caller.
SpendWithinCap ==
    CostOf(InState({"running", "lost", "raised", "placed", "no_data", "failed"})) <= cap

\* The running totals mean what their names say: `outstanding` is the estimate
\* of the active futures, `committed` of the collected ones that were charged,
\* `landed` of the collected ones that left a file.
TotalsMatchFutures ==
    LET collected == InState(Outcome) \ active
    IN  /\ outstanding = CostOf(active)
        /\ committed = CostOf({p \in collected : fut[p] # "cached"})
        /\ landed = CostOf({p \in collected : fut[p] \in {"placed", "no_data"}})

\* A bucket's estimate is spread over its partitions without gain or loss: what
\* has been allocated so far is at most the bucket's cents, and all of it once
\* every partition of the bucket was pulled (_allocated_estimate_for_item).
AllocationConserves ==
    \A k \in BusyKeys :
        /\ CostOf(PositionsOf(k)) <= KeyCents(mills, k)
        /\ alloc[k] = Cardinality(PositionsOf(k)) => CostOf(PositionsOf(k)) = KeyCents(mills, k)

\* The planning cap error stops a run only when the buckets' separately rounded
\* cents add up to more than the cap; a plan whose rounded cents fit is never
\* throttled nor aborted, whatever the order of the results.
AbortOnlyByRounding ==
    SumKeyCents(mills) <= cap =>
        /\ result # "planning_cap"
        /\ pending # 0 => Fits(cost[pending])

\* "download work accounting failed" is raised only if the archive changed
\* between the summary and the download, and a run that returns a result has
\* settled every partition of the summary, each with one outcome.
AccountingExact ==
    /\ result = "accounting" => skipped # {}
    /\ result \in {"ok", "suspicious"} =>
            /\ skipped = {}
            /\ InState(Outcome) = Positions
            /\ counts.placed = Cardinality(InState({"placed"}))
            /\ counts.no_data = Cardinality(InState({"no_data"}))
            /\ counts.failed = Cardinality(InState({"failed"}))

\* A result is never returned for a bucket all of whose partitions came back
\* without data although it covers enough weekdays to be suspicious.
NoSilentEmptyBucket ==
    result = "ok" =>
        \A k \in BusyKeys :
            ExpectedWeekdays[k] >= SuspiciousWeekdays =>
                \E p \in PositionsOf(k) : fut[p] # "no_data"

\* Workers outlive the call only after a fatal error, which took one of them, so
\* fewer than MaxWorkers are left, or after a signal that broke off the wait for
\* them.  A single interrupt waits for all of them.
OrphansExplained ==
    pc = "done" /\ Running # {} =>
        \/ result = "fatal" /\ Cardinality(Running) < MaxWorkers
        \/ result = "broken_off"

\* Every download comes to an end, with no worker left, however results,
\* errors, cap waits and interrupts interleave.
DownloadEnds == <>[](pc = "done" /\ InState({"queued", "running"}) = {})

\* The claim of docs/performance-audit.md on the cap guard: a partition that
\* does not fit makes the scheduler wait, never stop (in an untouched archive).
ThrottlingOnlyWaits == skipped = {} => result # "planning_cap"
=============================================================================
