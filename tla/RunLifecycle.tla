----------------------------- MODULE RunLifecycle -----------------------------
(***************************************************************************)
(* The life of one archive: downloader runs and sync runs one after the    *)
(* other on the same directory, each stopped at any point, and what they   *)
(* leave behind besides the partitions: the exit code, the coverage        *)
(* manifest, the run ledger and their copies in the bucket.                *)
(*                                                                         *)
(* A run is followed through every return of _run_download_locked.  The    *)
(* run lock keeps runs apart (ArchiveRuns proves it), so they do not       *)
(* interleave here.  Estimating, streaming and syncing are their outcomes  *)
(* only: CostEstimate, StreamMissing and SyncRun have their steps.  Runs   *)
(* are made without sidecars, and syncs without --delete.                  *)
(***************************************************************************)
EXTENDS Invocation, Totals, Sequences, SequencesExt, FiniteSetsExt

CONSTANTS Key,                 \* (symbol, schema) buckets
          LastDay,             \* days are 0..LastDay
          FirstDay,            \* [Key -> Days], the universe's first data day
          Weekdays,            \* the days on which data is expected
          SuspiciousWeekdays,  \* config.suspicious_no_data_weekdays
          HighVolume,          \* buckets of the schemas mbo and mbp-10
          Mills,               \* what a bucket may be estimated at, in tenths of a cent
          RotateOver,          \* records that fill ledger_rotate_mb
          Job,                 \* what the archive's owner runs, ...
          Invocations,         \* ... [Job -> command line and environment]
          Archives,            \* what the directory may hold at first
          Buckets,             \* and the S3 prefix
          MaxRuns              \* bound of the model: runs in one history

Days == 0..LastDay
Part == Key \X Days

Valid == {"data", "empty"}
\* "bad" fails the metadata check; "torn" only a deep or strict one.
Content == Valid \cup {"absent", "bad", "torn"}
Outcome == {"placed", "no_data", "failed"}

ASSUME LifecycleAssumption ==
    /\ LastDay \in Nat /\ MaxRuns \in Nat /\ RotateOver \in Nat
    /\ SuspiciousWeekdays \in Nat
    /\ Mills \subseteq Nat /\ HighVolume \subseteq Key
    /\ FirstDay \in [Key -> Days]
    /\ Weekdays \subseteq Days
    /\ IsFiniteSet(Key)
    /\ Invocations \in [Job -> Invocation(Key, Days)] /\ Job # {}
    /\ Archives \subseteq [Part -> Content]
    /\ Buckets \subseteq [Part -> Content]

VARIABLES
    archive,    \* the canonical files: [Part -> Content]
    manifest,   \* databento-coverage-manifest.json: day sets, by partition
    ledger,     \* download-ledger.jsonl: a sequence of run records
    rotated,    \* the records in rotated ledger files
    bucket,     \* the S3 prefix: partitions, ledger and rotated ledgers
    published,  \* and the coverage manifest uploaded there
    runs,       \* how many runs have begun; also the run id
    cmd,        \* the latest command: "none", "download", "push", "pull"
    job,        \* the job the latest downloader run is of
    pc,         \* where that run is; "idle" between runs
    work,       \* its missing partitions
    quote,      \* what they are estimated at by bucket, until the run has decided
    outcome,    \* what the stream of each has come to
    result,     \* the DownloadResult, once streaming has returned
    issues,     \* validation issues found
    exit        \* the exit code of the latest run, -1 while it has none

files == <<archive, manifest, ledger, rotated, bucket, published>>
run == <<runs, cmd, job>>
vars == <<files, run, pc, work, quote, outcome, result, issues, exit>>

(***************************************************************************)
(* The scope of a run and what of it is on disk.                           *)
(***************************************************************************)
Effective(c) ==
    {p \in c.keys \X (c.start..c.end) : p[2] >= FirstDay[p[1]]}
Configs == [j \in Job |-> BuildConfig(Invocations[j])]
config == Configs[job]
Scope == Effective(config)
Present(a) == {p \in Part : a[p] # "absent"}
Existing == Scope \cap Present(archive)
Missing == Scope \ Present(archive)

DaysOf(parts, k) == {p[2] : p \in {q \in parts : q[1] = k}}

NoManifest == [run |-> 0, expected |-> {}, local |-> {}, s3 |-> {}]
NoQuote == [k \in Key |-> 0]
NoOutcome == [p \in Part |-> "none"]
NoResult == [placed |-> 0, no_data |-> 0, failed |-> 0, cached |-> 0]

Init ==
    /\ archive \in Archives
    /\ manifest = NoManifest
    /\ ledger = <<>> /\ rotated = {}
    /\ \E b \in Buckets : bucket = [parts |-> b, ledger |-> <<>>, rotated |-> {}]
    /\ published = NoManifest
    /\ runs = 0 /\ cmd = "none" /\ job = CHOOSE j \in Job : TRUE
    /\ pc = "idle" /\ work = {} /\ quote = NoQuote /\ outcome = NoOutcome
    /\ result = NoResult /\ issues = 0 /\ exit = -1

(***************************************************************************)
(* A downloader run, up to the stream.                                     *)
(***************************************************************************)
Goto(label) == pc' = label /\ UNCHANGED <<work, issues, exit>>
End(code) == pc' = "idle" /\ exit' = code /\ work' = {} /\ issues' = 0

Begin ==
    /\ pc = "idle" /\ runs < MaxRuns
    /\ job' \in Job
    /\ \/ ~Starts(Invocations[job'], HighVolume) /\ End(2)
       \/ /\ Starts(Invocations[job'], HighVolume)
          /\ pc' = IF config'.validate_only \/ config'.validate_cached THEN "preflight" ELSE "survey"
          /\ exit' = -1 /\ UNCHANGED <<work, issues>>
    /\ runs' = runs + 1 /\ cmd' = "download"
    /\ outcome' = NoOutcome /\ result' = NoResult
    /\ UNCHANGED <<files, quote>>

\* Every existing file of the scope has its DBN metadata read.
MetadataIssues == {p \in Existing : archive[p] = "bad"}

Preflight ==
    /\ pc = "preflight"
    /\ IF MetadataIssues # {} THEN End(5)
       ELSE Goto(IF config.validate_only THEN "validate" ELSE "survey")
    /\ UNCHANGED <<files, run, quote, outcome, result>>

\* _summarize_missing_items: with nothing missing the run is over, and only
\* --validate-cached makes it go on to validate and to write a manifest.
Survey ==
    /\ pc = "survey"
    /\ \/ /\ Missing # {}
          /\ pc' = "estimate" /\ work' = Missing /\ UNCHANGED <<issues, exit>>
       \/ Missing = {} /\ config.validate_cached /\ Goto("validate")
       \/ Missing = {} /\ ~config.validate_cached /\ End(0)
    /\ UNCHANGED <<files, run, quote, outcome, result>>

BusyKeys == {p[1] : p \in work}

\* The estimate fails, or prices every bucket something is missing in.
Estimate ==
    /\ pc = "estimate"
    /\ \/ (\E code \in {1, 2, 4} : End(code)) /\ UNCHANGED quote
       \/ /\ \E price \in [BusyKeys -> Mills] :
                quote' = [k \in Key |-> IF k \in BusyKeys THEN price[k] ELSE 0]
          /\ Goto("decide")
    /\ UNCHANGED <<files, run, outcome, result>>

\* A cap that is not given, where CostPlan wants a number.
Unlimited == 1000000

\* The buckets of the missing partitions; no check depends on their order.
InOrder == LET parts == SetToSeq(work) IN [i \in 1..Len(parts) |-> parts[i][1]]

Plan == INSTANCE CostPlan WITH
    Work <- InOrder,
    MaxWorkers <- config.max_workers,
    BucketCap <- IF config.max_cost_cents_per_bucket = None THEN Unlimited
                 ELSE config.max_cost_cents_per_bucket,
    AllowBurst <- config.allow_burst_exposure

\* _check_cost_cap, _check_bucket_cost_caps, and for a run that is to stream the burst.
Affordable ==
    /\ config.max_cost_cents # None
    /\ Plan!CheckCostCap(config.max_cost_cents, quote)
    /\ Plan!CheckBucketCaps(config.max_cost_cents, quote)
    /\ ~config.dry_run => Plan!CheckBurst(config.max_cost_cents, quote)

\* The disk may be too small; a dry run ends here; without --yes the run is
\* refused, declined or confirmed.
Decide ==
    /\ pc = "decide" /\ quote' = NoQuote
    /\ \/ ~Affordable /\ End(2)
       \/ Affordable /\ \E code \in {2, 4} : End(code)
       \/ Affordable /\ config.dry_run /\ End(0)
       \/ Affordable /\ ~config.dry_run /\ ~config.yes /\ End(0)
       \/ Affordable /\ ~config.dry_run /\ Goto("stream")
    /\ UNCHANGED <<files, run, outcome, result>>

(***************************************************************************)
(* Streaming, in outcomes: a partition lands or fails.  A torn file lands  *)
(* if what is placed is not read to its end first, one of the wrong        *)
(* metadata if it is not read at all.                                      *)
(***************************************************************************)
Unsettled == {p \in work : outcome[p] = "none"}

Landing ==
    {"data"} \cup (IF config.deep_validate THEN {} ELSE {"torn"})
             \cup (IF config.validate_on_write THEN {} ELSE {"bad"})

Land(p) ==
    /\ pc = "stream" /\ p \in Unsettled
    /\ \/ /\ \E c \in Landing : archive' = [archive EXCEPT ![p] = c]
          /\ outcome' = [outcome EXCEPT ![p] = "placed"]
       \/ /\ archive' = [archive EXCEPT ![p] = "empty"]
          /\ outcome' = [outcome EXCEPT ![p] = "no_data"]
       \/ /\ outcome' = [outcome EXCEPT ![p] = "failed"]
          /\ UNCHANGED archive
    /\ UNCHANGED <<manifest, ledger, rotated, bucket, published, run, pc, work, quote, result, issues, exit>>

\* A fatal error, Ctrl+C or SIGTERM: what is in flight may still land before
\* the process is gone, uncounted; nothing more is written.
StopStream ==
    /\ pc = "stream"
    /\ \E late \in SUBSET Unsettled : \E landed \in [late -> Landing \cup {"empty"}] :
         /\ Cardinality(late) <= config.max_workers
         /\ archive' = [p \in Part |-> IF p \in late THEN landed[p] ELSE archive[p]]
    /\ \E code \in {1, 2, 4, 130, 143} : End(code)
    /\ outcome' = NoOutcome
    /\ UNCHANGED <<manifest, ledger, rotated, bucket, published, run, quote, result>>

Count(o) == Cardinality({p \in work : outcome[p] = o})

CachedCount_Mutant == Cardinality(Existing)
CachedCount == Cardinality(Scope) - Count("placed") - Count("no_data") - Count("failed")

\* A bucket of which every missing day came back empty, with enough weekdays.
SuspiciousBucket(k) ==
    LET days == {p \in work : p[1] = k} IN
    /\ days # {}
    /\ \A p \in days : outcome[p] = "no_data"
    /\ Cardinality({p \in days : p[2] \in Weekdays}) >= SuspiciousWeekdays

\* The accounting at the end of _stream_missing, and its all-no-data guard,
\* which raises when the empty files are already in the archive.
StreamReturns ==
    /\ pc = "stream" /\ Unsettled = {}
    /\ IF \E k \in Key : SuspiciousBucket(k)
       THEN End(2) /\ UNCHANGED result
       ELSE /\ result' = [placed |-> Count("placed"), no_data |-> Count("no_data"),
                          failed |-> Count("failed"), cached |-> CachedCount]
            /\ Goto(IF config.validate_cached THEN "validate" ELSE "manifest")
    /\ outcome' = NoOutcome
    /\ UNCHANGED <<files, run, quote>>

(***************************************************************************)
(* After the stream, or in place of it: validation, the manifest, the      *)
(* ledger and the exit code.                                               *)
(***************************************************************************)
Invalid ==
    {p \in Existing : archive[p] = "bad" \/ (archive[p] = "torn" /\ config.deep_validate)}

\* Issues end a run that has streamed nothing; after a stream they only
\* decide the exit code, and the manifest and the ledger are still written.
Validate ==
    /\ pc = "validate"
    /\ IF Invalid # {} /\ work = {} THEN End(5)
       ELSE pc' = "manifest" /\ issues' = Cardinality(Invalid) /\ UNCHANGED <<work, exit>>
    /\ UNCHANGED <<files, run, quote, outcome, result>>

\* _collect_download_scope_files looks at the disk again.
Collected_Mutant == Scope \ work
Collected == Existing

\* Anything that raises here leaves the old file, and no record of the run.
WriteManifest ==
    /\ pc = "manifest"
    /\ \/ /\ manifest' = [run |-> runs, expected |-> Scope, local |-> Collected, s3 |-> {}]
          /\ IF work = {} THEN End(0) ELSE Goto("rotate")
       \/ UNCHANGED manifest /\ End(4)
    /\ UNCHANGED <<archive, ledger, rotated, bucket, published, run, quote, outcome, result>>

\* _rotate_ledger_if_needed: each rotation makes a file of its own.
Rotate ==
    /\ pc = "rotate" /\ Goto("append")
    /\ IF Len(ledger) > RotateOver
       THEN rotated' = rotated \cup Range(ledger) /\ ledger' = <<>>
       ELSE UNCHANGED <<ledger, rotated>>
    /\ UNCHANGED <<archive, manifest, bucket, published, run, quote, outcome, result>>

ExitCode_Mutant == IF issues > 0 THEN 5 ELSE 0
ExitCode_OneMutant == IF result.failed > 0 THEN 1 ELSE IF issues > 0 THEN 5 ELSE 0
ExitCode == IF result.failed > 0 THEN 3 ELSE IF issues > 0 THEN 5 ELSE 0

Record == [run |-> runs, exit_code |-> ExitCode, validation_issues |-> issues,
           counts |-> result]

Appended_Mutant == <<Record>>
Appended == Append(ledger, Record)

WriteLedger ==
    /\ pc = "append"
    /\ \/ ledger' = Appended /\ End(ExitCode)
       \/ UNCHANGED ledger /\ End(4)
    /\ UNCHANGED <<archive, manifest, rotated, bucket, published, run, quote, outcome, result>>

\* Ctrl+C and SIGTERM outside the stream, and a process that is killed.
Interrupt == pc # "stream" /\ End(143)
Kill == End(137)

Cut ==
    /\ pc # "idle"
    /\ Interrupt \/ Kill
    /\ outcome' = NoOutcome /\ quote' = NoQuote
    /\ UNCHANGED <<files, run, result>>

(***************************************************************************)
(* A whole sync run.  A file is planned when the other side has not got it *)
(* or has a different size of it, so of two contents that differ some are  *)
(* planned; of the planned transfers any may fail.                         *)
(***************************************************************************)
Here == [parts |-> archive, ledger |-> ledger, rotated |-> rotated]

\* The contents the receiving side may have when every planned file has come.
\* The ledger files are files like any other, the manifest is skipped.
Planned(from, to) ==
    LET differing == {p \in Present(from.parts) : from.parts[p] # to.parts[p]}
        unseen == {p \in differing : to.parts[p] # "absent"}
        records == IF from.ledger = <<>> THEN {to.ledger}
                   ELSE IF Len(from.ledger) = Len(to.ledger) THEN {from.ledger, to.ledger}
                   ELSE {from.ledger}
    IN {[parts |-> [p \in Part |-> IF p \in differing \ same THEN from.parts[p] ELSE to.parts[p]],
         ledger |-> l,
         rotated |-> to.rotated \cup from.rotated] : same \in SUBSET unseen, l \in records}

\* Those it may have when some of them have not.
PartOf(to, full) ==
    {[parts |-> [p \in Part |-> IF p \in late THEN to.parts[p] ELSE full.parts[p]],
      ledger |-> l, rotated |-> r] :
        late \in SUBSET {p \in Part : to.parts[p] # full.parts[p]},
        l \in {to.ledger, full.ledger}, r \in {to.rotated, full.rotated}}

Hull(days) == IF days = {} THEN {} ELSE Min(days)..Max(days)

\* _read_previous_manifest_scope: of each group only the first and last date.
PreviousSpan_Mutant(k) == {}
PreviousSpan(k) == Hull(DaysOf(manifest.expected \cup manifest.local \cup manifest.s3, k))

\* write_sync_coverage_manifest: the whole span of what the last manifest told
\* of a bucket, and the span of what is now on either side.
SyncManifest(local, s3) ==
    [run |-> runs + 1, local |-> local, s3 |-> s3,
     expected |-> UNION {{k} \X (PreviousSpan(k) \cup Hull(DaysOf(local \cup s3, k))) : k \in Key}]

SyncBegins(direction) ==
    /\ pc = "idle" /\ runs < MaxRuns
    /\ runs' = runs + 1 /\ cmd' = direction
    /\ UNCHANGED <<job, pc, work, quote, outcome, result, issues>>

\* With an empty plan the run is over and the manifest as it was.  A run that
\* is broken off, or whose last listing fails, leaves the manifest too.
Push ==
    /\ SyncBegins("push")
    /\ \E full \in Planned(Here, bucket) :
         \/ full = bucket /\ exit' = 0 /\ UNCHANGED <<manifest, bucket, published>>
         \/ /\ full # bucket
            /\ bucket' \in PartOf(bucket, full)
            /\ \/ /\ manifest' = SyncManifest(Present(archive), Present(bucket'.parts))
                  /\ \/ bucket' = full /\ published' = manifest' /\ exit' = 0
                     \/ bucket' = full /\ UNCHANGED published /\ exit' \in {1, 4}
                     \/ bucket' # full /\ UNCHANGED published /\ exit' = 1
               \/ UNCHANGED <<manifest, published>> /\ exit' \in {1, 4, 130, 143}
    /\ UNCHANGED <<archive, ledger, rotated>>

Pull ==
    /\ SyncBegins("pull")
    /\ \E full \in Planned(bucket, Here) :
         \/ full = Here /\ exit' = 0 /\ UNCHANGED <<archive, ledger, rotated, manifest>>
         \/ /\ full # Here
            /\ \E got \in PartOf(Here, full) :
                 /\ archive' = got.parts /\ ledger' = got.ledger /\ rotated' = got.rotated
                 /\ \/ /\ manifest' = SyncManifest(Present(archive'), Present(bucket.parts))
                       /\ exit' = IF got = full THEN 0 ELSE 1
                    \/ UNCHANGED manifest /\ exit' \in {1, 4, 130, 143}
    /\ UNCHANGED <<bucket, published>>

Next ==
    \/ Begin \/ Preflight \/ Survey \/ Estimate \/ Decide
    \/ \E p \in Part : Land(p)
    \/ StopStream \/ StreamReturns
    \/ Validate \/ WriteManifest \/ Rotate \/ WriteLedger \/ Cut
    \/ Push \/ Pull

Spec == Init /\ [][Next]_vars

-----------------------------------------------------------------------------
(***************************************************************************)
(* Properties                                                              *)
(***************************************************************************)
Counts == [placed : Nat, no_data : Nat, failed : Nat, cached : Nat]
Records == [run : 1..MaxRuns, exit_code : {0, 3, 5}, validation_issues : Nat, counts : Counts]
Manifests == [run : 0..MaxRuns, expected : SUBSET Part, local : SUBSET Part, s3 : SUBSET Part]

\* Every variable has the shape the code gives it.
TypeOK ==
    /\ archive \in [Part -> Content]
    /\ {manifest, published} \subseteq Manifests
    /\ ledger \in Seq(Records) /\ rotated \subseteq Records
    /\ bucket.parts \in [Part -> Content] /\ bucket.ledger \in Seq(Records)
    /\ bucket.rotated \subseteq Records
    /\ runs \in 0..MaxRuns /\ cmd \in {"none", "download", "push", "pull"}
    /\ job \in Job /\ quote \in [Key -> Mills \cup {0}]
    /\ pc \in {"idle", "preflight", "survey", "estimate", "decide", "stream", "validate",
               "manifest", "rotate", "append"}
    /\ work \subseteq Part /\ outcome \in [Part -> Outcome \cup {"none"}]
    /\ result \in Counts /\ issues \in Nat
    /\ exit \in {-1, 0, 1, 2, 3, 4, 5, 130, 137, 143}

Downloaded == pc = "idle" /\ cmd = "download"

\* Exit code 0 means what a caller takes it to mean.  A confirmed run that was
\* to download has every partition of its scope on disk; a run that was to
\* validate leaves no file of the scope that its validation would refuse, those
\* included that it placed itself, unvalidated, or that a sync brought
\* (lifecycle.py's returns and _run_exit_code).
ZeroMeansCovered ==
    Downloaded /\ exit = 0 =>
        /\ (config.yes /\ ~config.dry_run /\ ~config.validate_only) => Missing = {}
        /\ (config.validate_only \/ (config.validate_cached /\ config.yes /\ ~config.dry_run))
             => Invalid = {}

\* The run that has just ended streamed, and came to its end.
StreamedToTheEnd ==
    Downloaded /\ result # NoResult /\ exit \in {0, 3, 5}

\* A run that streams to its end leaves as the last ledger record its own: with
\* the exit code it ended with, counts that add up to the scope, as failed just
\* the partitions that are still missing (_write_run_ledger is called before
\* the exit and from counts kept apart from the files).
LedgerTells ==
    StreamedToTheEnd =>
        /\ ledger # <<>>
        /\ LET r == Last(ledger) IN
             /\ r.run = runs /\ r.exit_code = exit
             /\ r.counts.failed = Cardinality(Missing)
             /\ r.counts.placed + r.counts.no_data + r.counts.failed + r.counts.cached
                  = Cardinality(Scope)
             /\ (exit = 3) = (Missing # {})

\* The manifest that a run leaves agrees with the files: after a download that
\* wrote one, local and missing days of its scope; after a sync that ended well
\* and moved something, both sides.  What was published is what was written.
ManifestAgrees ==
    /\ (StreamedToTheEnd \/ (Downloaded /\ exit = 0 /\ manifest.run = runs)) =>
         /\ manifest.run = runs
         /\ manifest.expected = Scope /\ manifest.local = Existing
    /\ (cmd \in {"push", "pull"} /\ exit = 0 /\ manifest.run = runs) =>
         /\ manifest.local = Present(archive)
         /\ manifest.s3 = Present(bucket.parts)
         /\ cmd = "push" => published = manifest /\ manifest.local \subseteq manifest.s3
         /\ cmd = "pull" => manifest.s3 \subseteq manifest.local

Named(flag, variable) == CHOOSE cap \in {flag, variable} : cap # None /\ (flag # None => cap = flag)

\* Nothing is asked of Databento by --validate-only or without a key, and nothing is
\* streamed that was not asked for: there is a cap, named on the command line or, failing
\* that, in the environment; the estimate as a whole is within it, rounded once, and each
\* bucket's within the cap per bucket; a cap of 0 was confirmed as free-only and every bucket
\* comes to $0.00 (README.md:199-206; build_config, the validators of config.py and the
\* checks of _runner/cost.py together).
SpendsOnlyAsked ==
    [][LET i == Invocations[job]
           cap == Named(i.max_cost_cents, i.env.max_cost_cents)
           bucketCap == Named(i.max_cost_cents_per_bucket, i.env.max_cost_cents_per_bucket)
           total == Total(quote, Key)
       IN  /\ pc # pc' /\ pc' \in {"decide", "stream"} =>
                  "validate_only" \notin i.flags /\ i.env.api_key
           /\ pc # pc' /\ pc' = "stream" =>
                  /\ "dry_run" \notin i.flags
                  /\ {i.max_cost_cents, i.env.max_cost_cents} # {None}
                  /\ total < 10 * cap + 5
                  /\ {i.max_cost_cents_per_bucket, i.env.max_cost_cents_per_bucket} # {None} =>
                         \A k \in Key : quote[k] < 10 * bucketCap + 5
                  /\ cap = 0 => /\ "allow_free_only" \in i.flags \/ i.env.allow_free_only
                                /\ \A k \in Key : quote[k] < 5]_vars

Holes(m) == m.expected \ m.local

\* A sync rewrites the manifest from inventories that cannot tell what was asked
\* for; a day reported missing is missing in the new manifest too, unless the
\* sync brought it (_read_previous_manifest_scope).
HolesStay ==
    [][cmd' \in {"push", "pull"} => Holes(manifest) \ Present(archive') \subseteq Holes(manifest')]_vars

Kept == Range(ledger) \cup rotated

\* The active ledger is moved aside before the new record is appended; stopped
\* at any point between the two, the runner has lost no record, nor has a push.
\* A pull may (_rotate_ledger_if_needed and _write_run_ledger).
RunsKeepRecords == [][cmd' # "pull" => Kept \subseteq Kept']_vars

\* The ledger is append-only (CHANGELOG.md:179): no step of any run loses a
\* record.
AppendOnly == [][Kept \subseteq Kept']_vars
=============================================================================
