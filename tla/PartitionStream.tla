---------------------------- MODULE PartitionStream ----------------------------
(***************************************************************************)
(* The calls of _stream_one on the pool's threads and the DatabentoClient  *)
(* they share: the request, its retries and what becomes of each error     *)
(* (databento_client.py), the validation of what was received (dbn.py),    *)
(* the zero-record file for a day without data, and the attempts the run   *)
(* ledger reports.  Bytes are counted in small units.                      *)
(***************************************************************************)
EXTENDS DbnValidation, FiniteSets, Totals

CONSTANTS Partition,     \* the submitted partitions, each on a thread of its own
          Options,       \* the write-time validations a run may be given
          Streams,       \* what Databento may stream for each partition
          Error,         \* what it may answer instead
          Allotted,      \* estimated_billable_bytes of each partition
          MaxAttempts,   \* _MAX_STREAM_RETRIES
          Cutoff,        \* _STREAM_PARTIAL_RETRY_CUTOFF_BYTES
          MaxBytes       \* bound on what a stream that breaks off leaves behind

\* An error of the SDK has a status or a text, one of the operating system a class.
ErrorShape ==
    [kind : {"http"}, status : 400..599, text : {"other", "no_records", "smart_symbol", "invalid"}]
    \cup [kind : {"bento", "os"}, transient : BOOLEAN]

ASSUME PartitionStreamAssumption ==
    /\ IsFiniteSet(Partition)
    /\ Options \subseteq [validate : BOOLEAN, deep : BOOLEAN, strict : BOOLEAN]
    /\ \A o \in Options : o.deep \/ o.strict => o.validate
    /\ Streams \in [Partition -> SUBSET DbnFile]
    /\ Error \subseteq ErrorShape
    /\ Allotted \in [Partition -> Nat]
    /\ MaxAttempts \in Nat \ {0}
    /\ Cutoff \in Nat \ {0}
    /\ MaxBytes \in Nat

VARIABLES
    opt,                   \* the run's options
    call, outcome,         \* the locals of each call, and what it returned
    requests, lost,        \* history: requests made, and bytes of those that broke off
    retries,               \* the client's count of retries of stream_to_file
    fatal,                 \* an exception reached the main thread
    ledger                 \* stream_attempt_count_estimated, once written

history == <<requests, lost>>
run == <<retries, fatal, ledger>>
vars == <<opt, call, outcome, history, run>>

\* Of a call: the loop variable of _with_retry; the bytes under the temporary name; the
\* file that is written there and whether it is the empty one; and of
\* _validate_records the records read, last_ts_recv_by_instrument and seen_ids.
NoCall(pc, bytes) ==
    [pc |-> pc, attempt |-> 0, tmp |-> bytes, file |-> EmptyFile, degraded |-> FALSE,
     done |-> 0, last |-> [id \in Instrument |-> 0], seen |-> {}]

\* A run that was killed may have left anything there, less than five minutes ago.
Init ==
    /\ opt \in Options
    /\ \E bytes \in {0, MaxBytes} : call = [p \in Partition |-> NoCall("queued", bytes)]
    /\ outcome = [p \in Partition |-> "none"]
    /\ requests = [p \in Partition |-> 0] /\ lost = [p \in Partition |-> 0]
    /\ retries = 0 /\ fatal = FALSE /\ ledger = {}

-----------------------------------------------------------------------------
(* What the client makes of an error *)

\* _with_retry.  Of an error of the SDK without a status, and of some of the
\* operating system, the text decides.
Retryable(e) ==
    IF e.kind = "http" THEN e.status \in {408, 429} \/ e.status >= 500 ELSE e.transient

\* stream_to_file: DegradedError.
MeansNoData(e) == e.kind = "http" /\ e.status = 422 /\ e.text \in {"no_records", "smart_symbol"}

-----------------------------------------------------------------------------
(* _stream_one *)

At(p, pc) == call[p].pc = pc /\ UNCHANGED <<opt, fatal, ledger>>

Becomes(p, locals) == call' = [call EXCEPT ![p] = locals] /\ UNCHANGED outcome

Go(p, to) == Becomes(p, [call[p] EXCEPT !.pc = to])

\* The call ends and leaves nothing under the temporary name.
Settle(p, how) ==
    /\ call' = [call EXCEPT ![p] = NoCall("ended", 0)]
    /\ outcome' = [outcome EXCEPT ![p] = how]

Start(p) ==
    /\ At(p, "queued") /\ ~fatal
    /\ \/ Settle(p, "cached")
       \/ Becomes(p, NoCall("request", 0))
    /\ UNCHANGED <<history, retries>>

\* _stream: a clean temporary name, then the request.
Request(p) ==
    /\ At(p, "request")
    /\ Becomes(p, [call[p] EXCEPT !.pc = "stream", !.tmp = 0])
    /\ requests' = [requests EXCEPT ![p] = @ + 1]
    /\ UNCHANGED <<lost, retries>>

\* The whole stream arrives.
Received(p) ==
    /\ At(p, "stream")
    /\ \E f \in Streams[p] :
          Becomes(p, [call[p] EXCEPT !.pc = "validate", !.tmp = DecompressedSize(f), !.file = f])
    /\ UNCHANGED <<history, retries>>

\* _should_retry with _stream_retry_allowed, which looks at what the failed attempt
\* has left under the temporary name.
MayRetry_Mutant(p, bytes) == call[p].attempt < MaxAttempts - 1
MayRetry_OffByOne_Mutant(p, bytes) == call[p].attempt < MaxAttempts /\ bytes < Cutoff

MayRetry(p, bytes) == call[p].attempt < MaxAttempts - 1 /\ bytes < Cutoff

\* _record_retry, under the client's lock.
Recorded_Mutant(p) == IF call[p].attempt = 0 THEN retries + 1 ELSE retries

Recorded(p) == retries + 1

Fails(p, e, bytes) ==
    /\ At(p, "stream")
    /\ e.kind = "http" => bytes = 0
    /\ lost' = [lost EXCEPT ![p] = @ + bytes]
    /\ retries' = IF Retryable(e) /\ MayRetry(p, bytes) THEN Recorded(p) ELSE retries
    /\ \/ /\ Retryable(e) /\ MayRetry(p, bytes)
          /\ Becomes(p, [call[p] EXCEPT !.pc = "request", !.tmp = bytes, !.attempt = @ + 1])
       \/ Retryable(e) /\ ~MayRetry(p, bytes) /\ Settle(p, "failed")
       \/ ~Retryable(e) /\ MeansNoData(e) /\ Go(p, "blank")
       \/ ~Retryable(e) /\ ~MeansNoData(e) /\ Settle(p, "raised")
    /\ UNCHANGED requests

\* write_empty_file
Blank(p) ==
    /\ At(p, "blank")
    /\ Becomes(p, [call[p] EXCEPT !.pc = "validate", !.tmp = DecompressedSize(EmptyFile),
                                  !.file = EmptyFile, !.degraded = TRUE])
    /\ UNCHANGED <<history, retries>>

\* An error of the file system where the file is written or put in place.
IoError(p) ==
    /\ At(p, "blank") \/ At(p, "place")
    /\ Settle(p, "raised")
    /\ UNCHANGED <<history, retries>>

\* A file that does not pass is removed.
Passes(p, holds, to) ==
    /\ IF holds THEN Go(p, to) ELSE Settle(p, "failed")
    /\ UNCHANGED <<history, retries>>

Validate(p) ==
    /\ At(p, "validate")
    /\ Passes(p, opt.validate => MetadataPasses(call[p].file, opt.deep \/ opt.strict, Allotted[p]),
              IF opt.strict THEN "records" ELSE "place")

\* One turn of the loop over store.to_ndarray.
Chunk(p) == ChunkAfter(call[p].file, call[p].done)

ValidateChunk(p) ==
    /\ At(p, "records") /\ Chunk(p) # {}
    /\ IF ChunkPasses(call[p].file, Chunk(p), call[p].last)
       THEN Becomes(p, [call[p] EXCEPT !.done = @ + Cardinality(Chunk(p)),
                                       !.last = LastAfter(call[p].file, Chunk(p), @),
                                       !.seen = SeenAfter(call[p].file, Chunk(p), @)])
       ELSE Settle(p, "failed")
    /\ UNCHANGED <<history, retries>>

ValidateEnd(p) ==
    /\ At(p, "records") /\ Chunk(p) = {}
    /\ Passes(p, SymbologyPasses(call[p].file, call[p].seen), "place")

\* _place_tmp and the sidecar, step by step in module ArchiveRuns.
Place(p) ==
    /\ At(p, "place")
    /\ Settle(p, IF call[p].degraded THEN "no_data" ELSE "placed")
    /\ UNCHANGED <<history, retries>>

-----------------------------------------------------------------------------
(* The main thread *)

In(S) == {p \in Partition : outcome[p] \in S}

\* _stream_missing collects an exception, and nothing new is begun; the ledger is
\* written when every call has returned.
Collect ==
    /\ ~fatal /\ In({"raised"}) # {}
    /\ fatal' = TRUE
    /\ UNCHANGED <<opt, call, outcome, history, retries, ledger>>

\* _stream_attempt_count_estimated
Settled == {"placed", "no_data", "failed"}

AttemptsEstimated == Cardinality(In(Settled)) + retries

Returned_Mutant == In(Settled) = Partition
Returned == In(Settled \cup {"cached"}) = Partition

WriteLedger ==
    /\ ledger = {} /\ Returned
    /\ ledger' = {AttemptsEstimated}
    /\ UNCHANGED <<opt, call, outcome, history, retries, fatal>>

Over == ledger # {} \/ (fatal /\ \A p \in Partition : call[p].pc \in {"queued", "ended"})

Quiet == Over /\ UNCHANGED vars

Call(p) ==
    \/ Start(p) \/ Request(p) \/ Received(p) \/ Blank(p) \/ IoError(p)
    \/ \E e \in Error, bytes \in 0..MaxBytes : Fails(p, e, bytes)
    \/ Validate(p) \/ ValidateChunk(p) \/ ValidateEnd(p) \/ Place(p)

Main == Collect \/ WriteLedger

Step == (\E p \in Partition : Call(p)) \/ Main

Next == Step \/ Quiet

Spec == Init /\ [][Next]_vars

\* Every request is answered or times out, and some thread goes on.
FairSpec == Spec /\ WF_vars(Step)

-----------------------------------------------------------------------------
(* Properties *)

Locals ==
    [pc : {"queued", "request", "stream", "blank", "validate", "records", "place", "ended"},
     attempt : 0..(MaxAttempts - 1), tmp : Nat, file : DbnFile, degraded : BOOLEAN,
     done : Nat, last : [Instrument -> Timestamp \cup {0}], seen : SUBSET Instrument]

\* Types of the variables.
TypeOK ==
    /\ opt \in Options
    /\ call \in [Partition -> Locals]
    /\ outcome \in [Partition -> Settled \cup {"none", "cached", "raised"}]
    /\ requests \in [Partition -> 0..MaxAttempts]
    /\ lost \in [Partition -> Nat]
    /\ retries \in Nat /\ fatal \in BOOLEAN /\ ledger \in SUBSET Nat

\* README: "once a failed stream has already written a large temporary file,
\* in-process retries for that partition are suppressed to avoid repeated multi-GiB
\* restarts": when a stream is asked for again, the attempts before have lost less
\* than the cut-off each, whatever a run before has left under the temporary name.
RestartsSmall ==
    \A p \in Partition :
        call[p].pc = "request" => lost[p] <= call[p].attempt * (Cutoff - 1)

\* The ledger's stream_attempt_count_estimated is no estimate: a run that writes a
\* record has made exactly that many stream requests.
AttemptsReported ==
    \A n \in ledger : n = Total(requests, Partition)

\* Strict validation decides a file as a whole, wherever its chunks begin and end: it
\* accepts none where an instrument's timestamps go back or leave the day, and none it
\* refuses was in order, fully mapped, in the day and of the size that was estimated.
\* A record of instrument 0 outside the day is left out: the code refuses the file for
\* it, README.md:298-301 exempts it, and nothing is said of what ought to happen.
\* (Zeros among timestamps count in some chunks and not in others, hence two readings
\* of "in order".)
StrictExact ==
    [][opt.strict => \A p \in Partition :
          LET file == call[p].file
              ends(how) == outcome[p] = "none" /\ outcome'[p] = how
          IN  /\ ends("placed") => Sound(file, Timed(file, DOMAIN file.records))
              /\ ends("failed") /\ call[p].pc \in {"validate", "records"} /\ SystemInDay(file) =>
                     ~(MetadataPasses(file, TRUE, Allotted[p]) /\ Sound(file, DOMAIN file.records))]_vars

\* Every call returns, however Databento answers, and then the run is over.
CallsEnd == <>Over
=============================================================================
