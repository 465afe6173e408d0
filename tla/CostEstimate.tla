----------------------------- MODULE CostEstimate -----------------------------
(***************************************************************************)
(* The estimate of a download: _estimate_costs of _runner/cost.py asks     *)
(* Databento what the missing days cost and how many bytes they are, one   *)
(* contiguous range of days per request, on a pool of metadata workers and *)
(* once more one by one if that fails.  A range whose attempts are used up *)
(* is split in two; the attempts are those of DatabentoClient._with_retry. *)
(*                                                                         *)
(* What a range costs is left out: `sum` and `estimate` count how often    *)
(* the answer for each day was added, whatever the answer was.             *)
(***************************************************************************)
EXTENDS Totals, Sequences, SequencesExt

CONSTANTS Key,          \* the (symbol, schema) buckets, numbered in the order of their names
          LastDay,      \* the configured days are 1..LastDay
          Missing,      \* the missing days a run may find: a set of [Key -> SUBSET Day]
          MaxWorkers,   \* min(config.max_workers, _MAX_COST_WORKERS)
          MaxAttempts   \* _MAX_METADATA_RETRIES

Day == 1..LastDay

ASSUME EstimateAssumption ==
    /\ IsFiniteSet(Key) /\ Key = 1..Cardinality(Key)
    /\ LastDay \in Nat
    /\ Missing \subseteq [Key -> SUBSET Day]
    /\ \A days \in Missing : \E k \in Key : days[k] # {}
    /\ MaxWorkers \in Nat \ {0}
    /\ MaxAttempts \in Nat \ {0}

\* get_cost and get_billable_size, asked in this order.
Op == {"cost", "size"}

\* The days start..(end - 1) of a bucket.
Span == [key : Key, start : Day, end : 2..(LastDay + 1)]
Days(span) == span.start..(span.end - 1)

\* _cost_ranges: the missing days of a bucket in order, each one appended to the
\* last range if it follows it and else the start of a range of its own.
Follows_Mutant(spans, day) == spans # << >> /\ day = Last(spans).end - 1

Follows(spans, day) == spans # << >> /\ day = Last(spans).end

WithDay(k, spans, day) ==
    IF Follows(spans, day)
    THEN Front(spans) \o <<[Last(spans) EXCEPT !.end = day + 1]>>
    ELSE Append(spans, [key |-> k, start |-> day, end |-> day + 1])

RangesOf(k, days) ==
    LET upTo[day \in 0..LastDay] ==
            IF day = 0 THEN << >>
            ELSE IF day \in days THEN WithDay(k, upTo[day - 1], day)
            ELSE upTo[day - 1]
    IN  upTo[LastDay]

CostRanges(missing) == FlattenSeq([k \in Key |-> RangesOf(k, missing[k])])

VARIABLES
    missing,    \* the days found missing
    ranges,     \* ... and their ranges
    pc, why,    \* the main thread, and what will end the estimate after its pool
    result,     \* what the call returned or raised
    next,       \* the next range of ranges_iter, or of the serial loop
    job,        \* the pool's futures, by range
    turn,       \* the range the serial loop is working on
    batch,      \* the rest of `done`, what wait() returned
    estimate,   \* estimates_by_key
    retries     \* retry_counts_by_operation

vars == <<missing, ranges, pc, why, result, next, job, turn, batch, estimate, retries>>

found == <<missing, ranges>>
Index == 1..Len(ranges)
Workers == IF Len(ranges) < MaxWorkers THEN Len(ranges) ELSE MaxWorkers

Zero == [op \in Op |-> [d \in Day |-> 0]]

-----------------------------------------------------------------------------
(* _estimate_range: what has been asked and answered, and what is to ask *)

Fresh(span) == [state |-> "running", span |-> span, op |-> "cost", todo |-> <<span>>,
                tries |-> 0, sum |-> Zero]

NoJob == [state |-> "none", sum |-> Zero]

Unbegun(span) == [Fresh(span) EXCEPT !.state = "queued"]

\* The range is done with: on to the next one, to the sizes, or to the end.
Advanced(j) ==
    IF Len(j.todo) > 1 THEN [j EXCEPT !.todo = Tail(@), !.tries = 0]
    ELSE IF j.op = "cost" THEN [j EXCEPT !.op = "size", !.todo = <<j.span>>, !.tries = 0]
    ELSE [j EXCEPT !.state = "quoted", !.todo = << >>, !.tries = 0]

Answered(j) ==
    Advanced([j EXCEPT !.sum[j.op] =
                 [d \in Day |-> IF d \in Days(Head(j.todo)) THEN @[d] + 1 ELSE @[d]]])

\* _split_or_raise_cost_range and _split_or_raise_size_range.
Midpoint_Mutant(span) == span.start + (span.end - span.start) \div 2 + 1

Midpoint(span) == span.start + (span.end - span.start) \div 2

Halves(span) ==
    <<[span EXCEPT !.end = Midpoint(span)], [span EXCEPT !.start = Midpoint(span)]>>

SplitOrRaise(j) ==
    IF Cardinality(Days(Head(j.todo))) <= 1
    THEN [j EXCEPT !.state = "retryable", !.tries = 0]
    ELSE [j EXCEPT !.todo = Halves(Head(@)) \o Tail(@), !.tries = 0]

MayRetry_Mutant(j) == j.tries <= MaxAttempts

MayRetry(j) == j.tries + 1 < MaxAttempts

\* One request and its outcome: a new state of the range, and whether it was
\* followed by the sleep before a retry.
Ask(j) ==
    {<<Answered(j), FALSE>>, <<[j EXCEPT !.state = "fatal"], FALSE>>}
    \cup (IF MayRetry(j) THEN {<<[j EXCEPT !.tries = @ + 1], TRUE>>}
          ELSE {<<SplitOrRaise(j), FALSE>>})

\* _record_retry
Recorded(j, slept) == retries' = IF slept THEN [retries EXCEPT ![j.op] = @ + 1] ELSE retries

-----------------------------------------------------------------------------
(* The main thread *)

JobsIn(S) == {i \in DOMAIN job : job[i].state \in S}
Ended == {"quoted", "retryable", "fatal"}
Active == JobsIn(Ended \cup {"queued", "running"})

Nobody == [k \in Key |-> Zero]

Init ==
    /\ missing \in Missing
    /\ ranges = CostRanges(missing)
    /\ pc = "ready" /\ why = "none" /\ result = "none"
    /\ next = 1
    /\ job = [i \in Index |-> NoJob]
    /\ turn = NoJob
    /\ batch = {}
    /\ estimate = Nobody
    /\ retries = [op \in Op |-> 0]

Start ==
    /\ pc = "ready"
    /\ pc' = IF Workers = 1 THEN "serial" ELSE "pool"
    /\ UNCHANGED <<found, why, result, next, job, turn, batch, estimate, retries>>

\* _submit_next
CanSubmit == Cardinality(Active) < Workers /\ next <= Len(ranges)

Submit ==
    /\ pc = "pool" /\ CanSubmit
    /\ job' = [job EXCEPT ![next] = Unbegun(ranges[next])]
    /\ next' = next + 1
    /\ UNCHANGED <<found, pc, why, result, turn, batch, estimate, retries>>

WaitReturns ==
    /\ pc = "pool" /\ ~CanSubmit /\ batch = {}
    /\ JobsIn(Ended) # {}
    /\ batch' = JobsIn(Ended)
    /\ UNCHANGED <<found, pc, why, result, next, job, turn, estimate, retries>>

\* _add_estimate
Added(span, sum) ==
    [estimate EXCEPT ![span.key] =
        [op \in Op |-> [d \in Day |-> @[op][d] + sum[op][d]]]]

Collected(i) == job' = [job EXCEPT ![i] = NoJob]

\* The others that no worker has begun are cancelled with it.
WithoutQueued(jobs) ==
    [i \in DOMAIN jobs |-> IF jobs[i].state = "queued" THEN NoJob ELSE jobs[i]]

Collect(i) ==
    /\ pc = "pool" /\ ~CanSubmit /\ i \in batch
    /\ batch' = batch \ {i}
    /\ IF job[i].state = "quoted"
       THEN /\ estimate' = Added(job[i].span, job[i].sum)
            /\ Collected(i)
            /\ UNCHANGED <<pc, why>>
       ELSE /\ pc' = "drain"
            /\ why' = job[i].state
            /\ job' = WithoutQueued([job EXCEPT ![i] = NoJob])
            /\ UNCHANGED estimate
    /\ UNCHANGED <<found, result, next, turn, retries>>

Done(how) == pc' = "done" /\ result' = how

PoolReturns ==
    /\ pc = "pool" /\ ~CanSubmit /\ batch = {} /\ Active = {}
    /\ Done("ok")
    /\ UNCHANGED <<found, why, next, job, turn, batch, estimate, retries>>

\* pool.shutdown(wait=True).  A fatal error is raised then; after a retryable one
\* everything quoted is thrown away and the ranges are asked again one by one.

PoolDown_StuckMutant == JobsIn(Ended \cup {"queued", "running"}) = {}

PoolDown == JobsIn({"queued", "running"}) = {}

Cleared_Mutant == estimate

Cleared == Nobody

Drained ==
    /\ pc = "drain" /\ PoolDown
    /\ IF why = "retryable"
       THEN /\ pc' = "serial" /\ next' = 1 /\ batch' = {} /\ estimate' = Cleared
            /\ UNCHANGED result
       ELSE Done(why) /\ UNCHANGED <<next, batch, estimate>>
    /\ UNCHANGED <<found, why, job, turn, retries>>

-----------------------------------------------------------------------------
(* _estimate_ranges_serial *)

SerialNext ==
    /\ pc = "serial" /\ turn.state = "none" /\ next <= Len(ranges)
    /\ turn' = Fresh(ranges[next])
    /\ next' = next + 1
    /\ UNCHANGED <<found, pc, why, result, job, batch, estimate, retries>>

SerialAsk ==
    /\ pc = "serial" /\ turn.state = "running"
    /\ \E answer \in Ask(turn) :
           turn' = answer[1] /\ Recorded(turn, answer[2])
    /\ UNCHANGED <<found, pc, why, result, next, job, batch, estimate>>

SerialAdd ==
    /\ pc = "serial" /\ turn.state = "quoted"
    /\ estimate' = Added(turn.span, turn.sum)
    /\ turn' = NoJob
    /\ UNCHANGED <<found, pc, why, result, next, job, batch, retries>>

\* The loop is over, or an error leaves it.
SerialReturns ==
    /\ pc = "serial"
    /\ \/ turn.state = "none" /\ next > Len(ranges) /\ Done("ok")
       \/ turn.state \in {"retryable", "fatal"} /\ Done(turn.state)
    /\ UNCHANGED <<found, why, next, job, turn, batch, estimate, retries>>

-----------------------------------------------------------------------------
(* Signals, which raise in the main thread *)

\* While the pool is at work the `finally` waits for what has been submitted, whether
\* begun or not.  A SIGTERM that arrives in future.result() is taken for a failure
\* of the future.
InterruptPool ==
    /\ pc = "pool"
    /\ why' = "interrupted"
    /\ \/ pc' = "settle" /\ UNCHANGED <<job, batch>>
       \/ \E i \in batch : /\ pc' = "drain" /\ ~CanSubmit
                           /\ job' = WithoutQueued([job EXCEPT ![i] = NoJob])
                           /\ batch' = batch \ {i}
    /\ UNCHANGED <<found, result, next, turn, estimate, retries>>

Settled ==
    /\ pc = "settle" /\ PoolDown
    /\ Done("interrupted")
    /\ UNCHANGED <<found, why, next, job, turn, batch, estimate, retries>>

\* A signal while the main thread waits for the pool, or works alone: nobody waits.
Interrupt ==
    /\ pc \in {"ready", "drain", "settle", "serial"}
    /\ Done("interrupted")
    /\ job' = IF pc = "drain" THEN WithoutQueued(job) ELSE job
    /\ UNCHANGED <<found, why, next, turn, batch, estimate, retries>>

\* The second Ctrl+C: os._exit.
Exit ==
    /\ pc = "settle"
    /\ Done("exit")
    /\ job' = [i \in DOMAIN job |-> NoJob]
    /\ UNCHANGED <<found, why, next, turn, batch, estimate, retries>>

-----------------------------------------------------------------------------
(* The pool's threads *)

Begin(i) ==
    /\ job[i].state = "queued"
    /\ job' = [job EXCEPT ![i].state = "running"]
    /\ UNCHANGED <<found, pc, why, result, next, turn, batch, estimate, retries>>

PoolAsk(i) ==
    /\ job[i].state = "running"
    /\ \E answer \in Ask(job[i]) :
           job' = [job EXCEPT ![i] = answer[1]] /\ Recorded(job[i], answer[2])
    /\ UNCHANGED <<found, pc, why, result, next, turn, batch, estimate>>

Quiet == pc = "done" /\ PoolDown /\ UNCHANGED vars

Main == \/ Start \/ Submit \/ WaitReturns \/ PoolReturns \/ Drained \/ Settled
        \/ SerialNext \/ SerialAsk \/ SerialAdd \/ SerialReturns
        \/ \E i \in Index : Collect(i)

Signal == InterruptPool \/ Interrupt \/ Exit

Next == Main \/ Signal \/ (\E i \in Index : Begin(i) \/ PoolAsk(i)) \/ Quiet

Spec == Init /\ [][Next]_vars

\* The main thread goes on unless it waits for the pool, a request is answered or
\* times out, and the pool has a thread for every submitted future.  No signal need
\* ever arrive.
FairSpec ==
    /\ Spec
    /\ WF_vars(Main)
    /\ \A i \in 1..(LastDay * Cardinality(Key)) :
           WF_vars(i \in Index /\ (Begin(i) \/ PoolAsk(i)))

-----------------------------------------------------------------------------
(* Properties *)

Jobs == {job[i] : i \in DOMAIN job} \cup {turn}

\* Types of the variables.
TypeOK ==
    /\ missing \in Missing /\ ranges \in Seq(Span)
    /\ pc \in {"ready", "pool", "drain", "settle", "serial", "done"}
    /\ why \in {"none", "retryable", "fatal", "interrupted"}
    /\ result \in {"none", "ok", "retryable", "fatal", "interrupted", "exit"}
    /\ next \in 1..(Len(ranges) + 1)
    /\ DOMAIN job = Index
    /\ \A j \in Jobs :
          /\ j.state \in Ended \cup {"none", "queued", "running"}
          /\ j.sum \in [Op -> [Day -> Nat]]
          /\ j.state # "none" => /\ j.span \in Span /\ j.op \in Op
                                 /\ j.todo \in Seq(Span) /\ j.tries \in 0..(MaxAttempts - 1)
    /\ batch \subseteq Index
    /\ estimate \in [Key -> [Op -> [Day -> Nat]]]
    /\ retries \in [Op -> Nat]

\* An estimate that is returned has the price and the size of every missing day in
\* it exactly once, and of no other day: whatever was split, retried, answered out
\* of order, or answered in the pool before everything was asked again.
EveryDayOnce ==
    result = "ok" =>
        \A k \in Key, op \in Op, d \in Day :
            estimate[k][op][d] = IF d \in missing[k] THEN 1 ELSE 0

\* README: "one account-aware Databento get_cost request per missing span": a range
\* is all of a gap and nothing of what the archive has, and every gap has one.
OneRangePerGap ==
    /\ \A i \in Index :
          LET span == ranges[i]
          IN  /\ Days(span) \subseteq missing[span.key]
              /\ span.start - 1 \notin missing[span.key]
              /\ span.end \notin missing[span.key]
    /\ \A k \in Key : \A d \in missing[k] :
          Cardinality({i \in Index : ranges[i].key = k /\ d \in Days(ranges[i])}) = 1

\* Splitting and retrying cannot run away: a range of n days has 2n - 1 parts, each
\* part MaxAttempts - 1 retries, and everything is asked at most twice.
RetriesBounded ==
    LET parts == Total([i \in Index |-> 2 * Cardinality(Days(ranges[i])) - 1], Index)
        passes == IF why = "retryable" THEN 2 ELSE 1
    IN  \A op \in Op : retries[op] <= passes * parts * (MaxAttempts - 1)

\* The estimate ends, and with it its workers, however often Databento fails.
EstimateEnds == <>(pc = "done" /\ PoolDown)
=============================================================================
