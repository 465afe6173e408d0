# TLA+ models of databento-stream-downloader

Specifications, model-checking configurations and machine-checked proofs for the
downloader and the S3 sync tool. Paths below are relative to
`src/databento_stream_downloader/` unless they start with `docs/` or `README.md`,
which are the repository's own.

## 1. The system

| Component | Code | State it keeps | Operations |
|---|---|---|---|
| Missing-work iterator | `_runner/work.py` | none; looks at the archive each time it is advanced | summary, lazy iteration |
| Cost estimate | `_runner/cost.py` `_estimate_costs` | ranges in flight, sums per bucket | split into ranges, ask, retry, halve, ask again serially |
| Cost plan | `_runner/cost.py`, `pricing.py` | estimates per (symbol, schema) bucket | round, cap checks, burst check, spread over partitions |
| Download scheduler | `_runner/stream.py` `_stream_missing`, `_runner/concurrency.py` | pending partition, active futures, committed / outstanding / landed cents, counts | feed, wait, collect, abort, cancel, shut down |
| Partition writer | `_runner/stream.py` `_stream_one`, `_runner/fsio.py`, `dbn.py` | one `.<day>.tmp`, the canonical file, its sidecar | stream, validate, hash, fsync, rename, seal, clean |
| Run lock | `_runner/fsio.py` | `flock` on `.run.lock` | acquire or refuse, release |
| Sidecar repair | `_runner/validation.py` | sidecars | repair before the summary |
| Databento client | `databento_client.py` | retry counters, shared by the threads | bounded retries, classification of errors, no retry after a large partial stream |
| DBN validation | `dbn.py` | per file: the last timestamp of each instrument, the instruments seen | metadata, deep and strict validation in chunks, the zero-record file |
| Command line | `cli.py`, `settings.py`, `config.py` | none | from options and environment to a configuration, refusals |
| Run lifecycle | `_runner/lifecycle.py`, `cli.py`, `_runner/ledger.py` | exit code, ledger, manifest | the order of everything above |
| Sync planning | `_sync/inventory.py` | two inventories | match, pair sidecars, plan deletes |
| Sync runs | `_sync/lifecycle.py`, `_sync/stream.py`, `_sync/transfer.py`, `s3_client.py` | archive, bucket, object metadata | upload, download, delete, publish the manifest |
| Coverage manifest | `coverage_manifest.py` | one JSON file, locally and in the bucket | build from a configuration or from inventories and the old manifest, write |

How they interact. A run takes the lock, sweeps old temporary files, repairs
sidecars, summarises what is missing, estimates and checks costs, and then
`_stream_missing` feeds a thread pool from the lazy iterator; each worker runs
`_stream_one`, whose outcome the main thread books. A sync run takes the same lock,
takes two inventories, and feeds a pool with transfers and then deletes. Threads
share the archive's files and nothing else; processes share the archive under the
lock; machines share the bucket without one.

What is hard: the order of results, signals and errors in the main thread; a lock
released while threads still write; files half written, renamed and not yet forced
to disk; the rounding of money; a plan made from what was true earlier; one file of
a pair that arrives while the other does not. `PROJECT.json` lists each such
hazard at its line with the property that covers it.

What makes the components correct:

- *cost plan and scheduler*: the estimates of what is committed and in flight stay within the
  cap; every partition is settled once; a download ends;
- *cost estimate*: every missing day is asked for once, requests are bounded, the estimate ends;
- *writer, lock*: one writer; the canonical name only shows finished files; what was
  reported is there; failures leave nothing behind; a partition is written once;
- *sync*: exit code 0 means mirrored; deletes remove what the source lacks; pairs stay pairs;
- *client, validation*: retries never repeat a large loss, the ledger's attempts are those made,
  validating in chunks decides as validating the whole, every call returns;
- *command line*: no combination of caps, consents and modes streams what was not allowed;
- *lifecycle*: exit code, manifest and ledger agree with the files and with each other, whatever
  the runs before did and wherever they were stopped.

## 2. Modules

| Module | Models | Extends |
|---|---|---|
| `Totals` | the sum of a function over a finite set | |
| `CostPlan` | rounding, allocation and the cost checks as operators | `Totals` |
| `CostEstimate` | `_estimate_costs` with its pool, retries, splits and serial second attempt | `Totals` |
| `StreamMissing` | `_stream_missing` and its pool | `CostPlan` |
| `PartitionStore` | abstract: a partition is written once, as a whole | |
| `ArchiveRuns` | several runs and one partition, system call by system call; implements `PartitionStore` | |
| `DbnValidation` | what `dbn.py` checks of one file, in chunks and at once, as operators | |
| `PartitionStream` | the calls of `_stream_one`, the client they share, the main thread that books them | `DbnValidation`, `Totals` |
| `Invocation` | command line and environment to configuration, as operators | |
| `Mirror` | abstract: what a push or a pull promises | |
| `SyncPlan` | inventories, matching, transfers and deletes as operators | |
| `SyncRun` | push and pull runs of several machines on one bucket; implements `Mirror` | `SyncPlan` |
| `RunLifecycle` | downloads and syncs one after the other: every exit, manifest, ledger | `Invocation`, `Totals`, instance of `CostPlan` |
| `MCStreamMissing`, `MCCostEstimate`, `MCArchiveRuns`, `MCPartitionStream`, `MCSyncRun`, `MCRunLifecycle` | constants of the instances | |
| `TotalProofs` | lemmas on sums, and induction over numbers and finite sets | `Totals`, `TLAPS` |
| `DbnProofs` | lemmas on the chunked validation | `DbnValidation`, `TLAPS` |
| `StreamMissingProofs`, `EstimateProofs`, `ArchiveProofs`, `PartitionProofs`, `SyncProofs`, `LifecycleProofs` | theorems | their component, `TLAPS` (and `TotalProofs`, `DbnProofs`) |

An operator named `X_Mutant` is a seeded bug: `X` as it would read with a plausible
mistake. No action uses one; each shows that a property notices that mistake.

### StreamMissing

The locals of `_stream_missing` are the variables of the same names (`pending`,
`committed`, `outstanding`, `landed`, `counts`, `active`, ...); `fut` is the state
of each partition's future and `batch` what is left of `done`. One action stands for the
main thread's statements between two points where another thread can be noticed:
`PassOver`, `Pull`, `Submit`, `CapAbort` and `SubmitReturns` are one iteration of
`_submit_admissible`; `WaitReturns` the `wait`; `Collect` and `CollectRaised` one
iteration over `done`; `Interrupt`, `Unwind` and `Finish` the except and finally
clauses and the checks at the end. `Begin` and `End` are the pool's threads.

Cents and mills are small numbers: an estimate is a number of tenths of a cent, the
coarsest unit in which rounding to cents rounds. `max_cost_cents = None` is refused by the
configuration of a download, so a cap always exists. A partition that appears
between the summary and the download is passed over; one that *disappears* is not
modelled. A second signal during the shutdown wait either ends the process (SIGINT
after SIGINT) or breaks the wait off.

### CostEstimate

`ranges` are the contiguous ranges of missing days, `job` what each future is doing: the
range it was given, the halves it has still to ask, the attempts it has used. The main
thread feeds the pool, collects batches and, when a range failed for good in the pool, waits for
the others and asks once more by itself (`turn`). What a range costs is left out: `estimate` counts
how often each day's answer was added. `retries` is the client's counter. Back-off is left out.

### ArchiveRuns

A file is an inode, a name (`tmp`, `dest`) a set of at most one, and so is a sidecar's name
(`sidetmp`, `side`), which has a digest in place of an inode; the validation, the digest and the
rename go by name, as in the code, so a file another process has put there is what they see. `data`
is the content of an inode, `hard` and `sideHard` what is forced to disk, `diskDest` and `diskSide`
the names as of the last directory fsync. That fsync may fail and the run go on (`SyncDirectory`);
`skipped` is its tracker, which makes it warn at the end. A sidecar is written under its own
temporary name, renamed and synced in three steps (`Seal`, `SealPlace`, `SealSync`; for the repair
`Reseal`, `ResealPlace`, `ResealSync`), and the first two may fail: the temporary file, whole or cut
off, then stays. `MainStep` is the way through `_run_download_locked` that touches this partition,
`WorkerStep` is `_stream_one` with one action per system call, `Kill` and `PowerLoss` strike
anywhere. After a fatal error or a second signal the process lives on in its workers while the lock
is free (`Abandon`, switched by `WorkersOutlive`).

Abstractions: of the write options, sidecars, validation and fsync; a validation
reads the header only, so a cut-off file may pass (`MayPass`); deep validation is not
modelled. That a worker of an earlier run has a sidecar's temporary file open while another run writes it is
left out; the only run about such workers asks who leaves which name. A signal before the stream is a
kill. A run
whose partition is already there ends at the summary, although in the code it may go on with
other partitions: it does not touch this one again. `--validate-cached` and
`--validate-only` read and set the exit code; they are left out.

### PartitionStream

The counterpart of `ArchiveRuns`: many partitions and one run, data and money in place of system
calls. `call[p]` holds the locals of one `_stream_one` and what it has called: the loop variable of
`_with_retry`, the bytes under the temporary name, the file received, and of
`_validate_records` the records read, `last_ts_recv_by_instrument` and `seen_ids`. `Request`,
`Received` and `Fails` are one attempt and what the client makes of its end: `Retryable`,
`MeansNoData` and `MayRetry` are the classification, `Recorded` the counter under the client's
lock. `Blank` is the zero-record file, `Validate`, `ValidateChunk`, `ValidateEnd` are the validation, one
action per chunk, `Place` and `Settle` the end. `Collect` and `WriteLedger` are the main thread.

Abstractions: a byte is a unit in which a header and a record have size one; an error without a status is
`transient` or not, which the code reads off its class or text; of a file it matters whether its
metadata decodes and answers the query, whether it decompresses to the end, and the records'
instrument and timestamp. Estimates are always there, so the 32 GiB default cap never applies. The
instruments 1 and 2 stand for any, 0 for system records. How long a back-off sleeps is left out.

### SyncRun

A store maps a data key and a sidecar key per partition to a content; a sidecar's
content is the content whose digest it states. `Acquire`, `WalkLocal`, `ListRemote`,
`ComputePlan`, `Refresh` and `Publish` are the stretches of `run_sync` between two
requests to the outside; the digests of the remote inventory are read after the
listing, from the bucket as it is by then. A worker moves an item in as many steps
as others can come between: an upload or a delete takes effect at a moment between
its beginning and its end and may take effect although it is reported as failed; a
download is fetched, checked and renamed. Each sync process runs once; repeating a
sync is a second process. The collection of results only counts them, so an item
that has ended counts as collected; only an exception waits to be noticed (`Fatal`). A signal
waits for the busy workers (`Interrupt`, `Drained`), a second one breaks that wait off (`BreakOff`) and
releases the lock under them, as a fatal error does at once.

Abstractions: the local copy of the manifest, fsync, progress and the order of keys
inside the plan are left out. Archives start with honest sidecars.

`Mirror` is the abstract specification: runs that copy a key from where it is, remove a key the
source has not got, and report success when the destination mirrors the source. `SyncRun`'s
stores are its stores, `result` is its `verdict`, and `Undisturbed` its `alone`: once runs of two
machines use the bucket, a fatal error or a second signal has left workers behind, or a file cannot be
read, the mirror promises nothing. It compares names and sizes, not contents.

### RunLifecycle

One action per step of `_run_download_locked` between two places where the run can end: `Preflight`,
`Survey`, `Estimate`, `Decide`, the stream, `Validate`, `WriteManifest`, `Rotate`, `WriteLedger`. A
run is of a `job`, whose invocation (`Invocation`: options passed and environment) gives its
configuration; one that `build_config`, the validators or `main` refuse ends with 2 before it
begins. `Estimate` quotes a price for each bucket something is missing in, and `Decide` is
everything between the quote and the stream: the checks of `CostPlan`, instantiated with the run's
work, the disk, the dry run, the confirmation. `End(code)` is a return or an exception with the exit
code `cli.py` turns it into; `Cut` is a signal or a kill between two steps, `StopStream` one during
the stream, when up to `max_workers` partitions may still land. `Push` and `Pull` are whole sync
runs: the plan, any part of its transfers, and the manifest rebuilt from both inventories. The
ledger and its rotated files are synced like data, the manifest is not. `archive` holds per
partition what a validation can tell apart: `bad` fails the metadata check, `torn` only a deep one.
What may land depends on the options (`Landing`): a torn file unless the run reads what it is about
to place to its end, a bad one unless it reads it at all (`validate_on_write`).

The run lock makes runs sequential (`Exclusive` in `ArchiveProofs`); a worker that outlives its run
is `ArchiveRuns`' subject. The estimate and the stream are their outcomes. Sidecars (`repair`),
`--delete` and a torn ledger line after a power loss are left out. A size is only known to differ
when contents do, so of differing files any may be planned.

## 3. Runs

| Run | Instance | Shows |
|---|---|---|
| `scheduler` | two buckets, 3 + 1 partitions, 2 workers, caps of 2 and 4 cents, estimates of 0.5 and 1.5 cents | budget, accounting, empty-bucket guard, shutdown, termination for all orders |
| `planning_cap` | the same, cap 2 | **violated**: an admitted plan is aborted by the planning cap |
| `estimate` | two buckets with ranges of 1-3 missing days, 2 workers, 2 attempts | every day once, ranges minimal, retries bounded, termination |
| `archive` | two runs, three option sets, 2 attempts, one kill or power loss anywhere, I/O errors, directory fsyncs that fail, workers end with their run | exclusion, whole files, truthful sidecars, durable reports, refinement of `PartitionStore` |
| `partition` | two partitions, default and `--strict-validate`, 3 attempts, about 110 files of up to four records in chunks of two, every class of error | bounded retries and losses, exact attempts, chunked validation as on the whole file (files with a record of instrument 0 outside the day excepted), termination |
| `archive_orphans` | two runs, default and paranoid options, workers that outlive their run, no crash | what still holds: no temporary file of a partition left, one of a sidecar only by a run that failed to seal |
| `atomic_place` | two default runs, workers that outlive their run | **violated**: an unfinished file gets the canonical name |
| `sync` | two runs on one or two machines, one partition, push / mirroring push / verified mirroring pull, fatal errors, one or two signals, kills | refinement of `Mirror`, pairs, verification, manifest |
| `sync_scan` | one machine, `push --delete`, unreadable files | **violated**: a file the archive has is deleted from the bucket |
| `sync_proof` | one machine, two default pushes | **violated**: a stale sidecar stays after exit code 0 |
| `lifecycle` | three runs, two buckets of 2 + 1 days, eight command lines, push and pull, stopped anywhere | nothing spent that was not asked for, exit code 0 means covered and valid, ledger record and manifest agree with the files, holes stay reported, no record is lost |
| `ledger_pull` | four runs of one daily command line | **violated**: a pull drops ledger records |

Why the bounds are enough. *Scheduler*: two workers and four partitions make the
pool fill, wait and refill; three partitions in a bucket make the odd cents uneven;
15 and 5 mills are the smallest estimates whose cents (2 + 1) exceed the cap their
rounded total (2) meets. *Estimate*: three days are split on two levels, three ranges
make the pool of two refill, two attempts are one retry. *Archive*: the properties relate at most two processes and
one partition, whose files no other partition shares; two attempts give one retry;
one crash reaches every intermediate state, and the second run starts from it. Runs are
interchangeable and only safety is checked, so both archive runs use symmetry; `archive_orphans` has the two option
sets that differ most, and no crash, as its property promises nothing after one.
*Partition*: three attempts are a first, a middle and a last one; a stream that breaks off leaves none, one
or two units, on both sides of the cut-off; three records span a chunk border, and one zero, early,
late or foreign record in any place of them is every way the carried state can differ from the whole; the
second partition has a good file only, since what two calls share is the counter.
*Sync*: two processes are a run and its repetition, or a run and a stranger; matching
only distinguishes equal, same-size and different-size contents: an archive starts with nothing or `old`, the
bucket with `large`, and their sidecars differ within one size; equal they become when the first transfer has
arrived, and the bucket becomes empty by a mirroring push of an empty archive. Data files that differ within
one size are left to the proofs, which take any sizes. Runs and machines are
interchangeable, so `sync` uses symmetry; it checks no liveness.

*Lifecycle*: three runs are a run, what another made of its traces, and one that finds both; two
days make a span with a hole, two weekdays meet the threshold in one bucket and miss it in the other;
the third streamed run finds a ledger of two records, which `RotateOver = 1` makes one too many.
Prices of 0.4 and 1.5 cents are one that is rounded away and one whose double is rounded otherwise than its
parts; the command lines have a cap on either side, on both, of 0 with and without consent,
per bucket, and none; a file is validated before it is placed, before and after, or only after
(`ledger_pull` has a run that never validates).
`ledger_pull` needs four runs and takes one bucket and one command line.

Deadlock is checked in the other runs, where `Quiet` is enabled only when everything has
ended; `RunLifecycle` has no such step and stops when `MaxRuns` are over, so its runs do not check it.

**Fairness.** In `partition` some thread goes on (`WF_vars(Step)`): each request is answered or times
out, each error is followed by a retry or an end, and no call waits for another. `scheduler` and
`estimate` need more (`FairSpec`): weak fairness of the main thread, which
blocks only in `wait` (and in the pool's shutdown), and of each future's beginning and end. The
pool has as many threads as there can be active futures, so a queued one begins; a
worker ends because the client bounds its attempts and every request has a timeout.
Signals are not fair: they need not come.

## 4. Findings

1. `_runner/stream.py:381`: the total is rounded once, the buckets one by one; a plan that
   passed `_check_cost_cap` can be aborted by the planning-cap error after part of it
   was paid for, where `docs/performance-audit.md:77-79` says the scheduler waits.
2. `_runner/stream.py:487`: a fatal error releases the run lock under busy workers; with a
   second run an unfinished temporary file is renamed into place (`README.md:280`).
3. `_sync/inventory.py:131`: a file that cannot be read in the scan is taken for deleted;
   `push --delete` removes it from the bucket (`README.md:352`).
4. `_sync/inventory.py:363`: sidecars are compared by size, which is constant; a pair whose
   sidecar failed to arrive is never repaired by repeating the push
   (`_sync/inventory.py:93-95`).
5. `_sync/inventory.py:29`: the ledger is not among the files a sync skips; after push, download,
   pull the bucket's older copy has replaced it and the records since are gone
   (`CHANGELOG.md:178-179` calls it append-only).

Seen while reading, without a run:

- A push with nothing to transfer returns 0 before the manifest is uploaded, so a repeated push never
  makes good for an upload that failed (`_sync/lifecycle.py:109-111`, `README.md:410-411`).
- A dry run without a cap is refused with exit code 2 (`_runner/cost.py:48`, called before the dry run
  returns), where `README.md:199` and `:247` require a cap of execute runs.
- An HTTP 422 that says "could not resolve smart symbols" or "symbology_invalid_request" becomes an empty
  file (`databento_client.py:213`), where `README.md:151-154` and `CHANGELOG.md:162-164` admit
  only the known no-records messages.
- Strict validation includes instrument 0 in its bounds check (`dbn.py:242-251`), where
  `README.md:298-301` treats it as a sentinel there too. `InDay` is as the code; `StrictExact` says
  nothing of files with such a record outside the day (`SystemInDay`), so it vouches for neither
  reading. And the default cap of a deep validation is 32 GiB (`dbn.py:30`), where
  `CHANGELOG.md:171` says 16.
- An error of the SDK that has no status and is not retryable ends the run with 4, not 1: only
  errors with a status become `FatalAPIError` (`databento_client.py:296-303`).
- `--verify-sha256` has no effect on a push, and on a pull only on items whose digest the plan
  knows: `download_one` checks those in every planning mode (`_sync/transfer.py:110`), but the option makes
  the plan ask for S3 metadata only in the mode `size` (`_sync/lifecycle.py:174-181`, `README.md:351`).
- A run that fails to write a sidecar leaves `.<name>.sha256.tmp` behind (`_runner/fsio.py:335-347`): the
  except clauses of `_stream_one` unlink the partition's temporary file only, where `README.md:446-447` says
  that normal failure paths clean their own. `FailuresClean` says exactly who may leave one; the next run
  sweeps it when it is old enough.
- A directory fsync that fails is passed over (`_runner/fsio.py:399-407`) and the partition reported as
  placed; the run warns at its end that "crash durability was best-effort"
  (`_runner/lifecycle.py:359-364`). `ReportedHolds` and `SidecarTruthful` promise nothing of such a run. Nor
  need any run have skipped one: if a run is killed between the rename and its directory fsync, the next one
  finds the file and seals it, and a power loss before *its* fsync may keep the sidecar's name and lose the
  file's. TLC finds this with two crashes, in 17 steps; hence `kills = 0` in `Forcing`.
- A second signal during a sync's shutdown releases the lock under busy workers
  (`_sync/stream.py:388-391`, `_cli_shared.py:82-93`), as a fatal error does.
- Ctrl+C during the estimate leaves the submitted ranges to be asked (`_runner/cost.py:302-307`
  does not cancel), and Ctrl+C anywhere but in the stream ends with 143, not 130
  (`cli.py:428-431`, `README.md:488`).
- The all-no-data guard raises when the empty files are already placed
  (`_runner/stream.py:501`); the same command run again finds nothing missing and returns 0.
- A run that ends after files have landed but not regularly leaves no ledger record; the record's
  `interrupted` is always false (`_runner/lifecycle.py:336`).

## 5. Proofs

TLAPS checks these for every value of the constants: one theorem or more for each invariant and action
property that a passing run checks, and two refinements.

`TotalProofs` has no theorem of its own; it is what the others count with. Sums of cents, retries and requests
are all `Total(f, S)`, a fold over a finite set, so what they need is induction. The library's induction
theorems take an operator as a parameter, which the provers cannot instantiate, so a statement is given
as the *set* of the numbers (`OnNumbers`) or of the finite sets (`OnFiniteSets`) it is true of; both follow
from the well-foundedness of `<` on the naturals. `Recursion` says in the same way that a function defined by
recursion exists. From these: a sum changes by what one summand changes by (`TotalChanged`), a
sum over classes is the sum of their sums (`TotalByClass`), sums of equal summands, of a union, bounds.

`StreamMissingProofs` assumes what `CostPlan` and `StreamMissing` assume of their constants.

- `TypeCorrect`: the variables keep their types.
- `WithinCap`: committed plus outstanding cents never exceed the cap. Inductive because the
  only step that adds to the sum is guarded by `Fits`, and a collected partition
  moves its cost from one summand to the other or drops it, a cost being a natural number.
- `AccountingIsExact`: a returned result settles every partition once. The invariant counts
  what the feed has gone past as skipped, pending, active, or collected with an
  outcome, and relates each of `counts` to the futures collected with that outcome; when the loop
  is left normally the first two are settled and nothing is active.
- `NoBucketSilentlyEmpty`: until the loop is stopped, the no-data count of a bucket is the
  number of its collected no-data futures (`NoDataInv`); when all were collected, a bucket where the count
  equals the partitions is one the guard has refused (`OkInv`).
- `OrphansAreExplained`: unfinished futures are active, of which there are at most as many as workers
  and, once one has raised, fewer (`PoolInv`); the shutdown waits for the rest unless the
  error was fatal or a signal broke it off (`LeftInv`).
- `TotalsMatch`: each step of the main thread changes a running total by the cost of the one future it
  submits or collects; the pool's steps change neither. `AccountingIsExact`'s invariant is what says that
  a future is submitted and collected once.
- `SpentWithinCap`: while the main thread runs, what may have been billed is a part of what is committed
  and in flight (`TotalsMatch`, `WithinCap`), a future that raised excepted: `SpentInv` keeps those in the sum
  from then on.
- `SharesConserve`: the partitions of a bucket are numbered as they are pulled, and the first ones get
  the odd cents, so after `n` of them the shares are `n` quotients and the smaller of `n` and the rest
  (`AllocInv`); at the last this is the whole by the division (`DivMod`).
- `OnlyRoundingAborts`: when the buckets' cents fit the cap, what is committed, in flight and pending is a
  part of the shares of all partitions, which are those cents (`SharesConserve` summed over the buckets by
  `TotalByClass`), so the guard passes (`NoAbortInv`).

`ArchiveProofs`: `TypesCorrect` and `FailuresLeaveNothing` hold for any constants; the other
theorems assume `WorkersOutlive = FALSE`, which is exactly the assumption the violated run drops.

- `Exclusive`, `NoCollision`, `DestIsSound`, and `StoreImplemented`: `Spec` implements
  `PartitionStore`.
- The inductive invariant is `TypeOK /\ AttemptInv /\ LockInv /\ WriteInv /\ DiskInv /\ DestSound /\
  OneFile`. `LockInv` says that only the lock's single holder is past acquiring it;
  `WriteInv` what the temporary name, the open file and its content are at each point of the
  worker; `DiskInv` what the disk holds and that forced files are not torn. They are needed because
  `DestSound` is not inductive: that a rename places a finished, validated file follows from
  what happened at the earlier program points, and from nobody else having touched
  the name since. `OneFile` (a name has one inode) carries the refinement.
- The refinement is proved step by step: `Place` maps to the store's `Place`, directory
  syncs to `Persist`, a power loss to `PowerLoss` or a stutter, everything else to a stutter.
- `FailuresLeaveNothing`: while nobody is killed, a temporary file has a worker on its way to rename
  it or to clean up (`TmpInv`), perhaps another run's; one of a sidecar has somebody about to
  rename it, or a run that failed to seal (`SideTmpInv`).
- `SidecarsTruthful`: the digest a worker has computed is that of the file it renames and later
  seals (`SealInv`), because one worker at a time has the names (`OneWorker`). `ForceInv` adds what a
  power loss needs: if every run forces its writes, none skips a directory fsync and none was killed, no sidecar
  gets its name before its file's is on disk.
- `ReportsHold`: a result is its worker's outcome (`ResultInv`), and two invariants say what it promises: that
  the file, and where asked for its sidecar, is there (`PresentInv`), and, for a run that forced its
  writes and skipped nothing, that both are as they are on disk (`FixedInv`). A file that is there is not
  written again, and a repair does not replace a promised sidecar: it would have to be missing or malformed
  (`ResealInv`), and a promised one is whole.

`PartitionProofs`, from the constants' assumptions alone (`MaxAttempts`, `Cutoff` and
`ChunkLength` are any positive numbers, the files of `Streams` any files):

- `CallTypesCorrect`: no more than `_MAX_STREAM_RETRIES` requests, each with locals of their types.
- `RestartsStaySmall`: from `AttemptsCounted`, which ties the requests and the bytes lost to the
  loop variable of `_with_retry` at each point of a call.
- `StrictDecides`: `StrictReads` says that while the records are read, `last` and `seen`
  describe those read so far (`Carried`). The lemmas of `DbnProofs` carry it on: `CarryOn` over one chunk
  that passes, with the induction hypothesis that `last[id]` bounds the records of `id` from above
  and occurs among them; the first half makes what is accepted ordered (`CarriedSound`), the second
  that no chunk of a sound file is refused (`SoundPasses`), whose records of instrument 0 lie in the day.
- `AttemptsAreRequests`: the client's counter is a sum over the partitions (`RetriesCounted`): of each one's
  requests all that another followed or is about to follow, so all but the last once its call has ended. When the
  ledger record is written every call has ended, and the record adds one for each partition
  that was asked for.

`EstimateProofs`, from `EstimateAssumption`, for any buckets, missing days, workers and attempts. What
`_cost_ranges` computes is a recursion over the days and a concatenation over the buckets; the lemma
`RangesCover` says of every outcome that its ranges are not empty, lie among the days, and hold each
missing day in one of them. It is by induction over the days (`GapsStep`: the ranges up to a day are
the gaps up to that day, and the last one ends there if the day is missing) and then over the buckets
(`BucketsStep`).

- `RangePerGap`: every range is a whole gap, which is `RangesCover`, the ranges not changing afterwards.
- `TypesCorrect`, for every range at work, split or counted.
- `DaysOnce`: a job that is at work has added up exactly the days before the rest it has still to ask
  for, and that rest goes on to the end of its range without a hole (`Quoted`); `SplitQuotes` and
  `AnswerQuotes` keep this over a split and an answer. `TallyInv` adds that the estimate has the days
  of the ranges counted so far, once, and of no other.
- `RetriesOfParts`: a range of `n` days is split into `2n - 1` parts at most, and each part has
  `MaxAttempts - 1` retries of a kind. The invariant (`RetryInv`) bounds the count by what the ranges begun so far
  are allowed (`Allow`): a job at work all the retries of its parts that are done with, and those that the
  part at hand has had; any other begun range all of its parts'. A retry raises both sides by one, a split or
  an answer finishes a part (`AskAllow`), and the serial second attempt adds its own on top of
  what the pool may have used (`Before`).

`SyncProofs`, from the constants' assumptions; `DeletesSpare` also assumes `~Unreadable` (every scan reads
every file), and `PairsAreKept` that the stores start as pairs.

- `Mirrored`: `SyncRun` implements `Mirror`. The inductive invariant is `TypeOK /\ OrderInv /\
  TurnInv`. `OrderInv`: a machine's lock has one holder, who plans and transfers under it; only a
  fatal error or a broken wait leaves items behind without it. `TurnInv`: while runs take turns (and
  leave nobody behind), an inventory is still that of its store (`ListInv`), and, if every file can
  be read, each item of the plan that is not done still finds on both sides what it was planned from
  (`PlanInv`, `KeyInv`). So a transfer maps to the mirror's copy, a removal to one of a file the
  source has not got, exit code 0 to sides that agree.
- `DeletesSpare`: the property that `sync_scan` violates holds without unreadable files, of runs that take
  turns. Beside workers that were left behind nothing is claimed.
- `ManifestIsCurrent`, from `ListInv`, of pushes that had something to do; `PullsVerified`, from `VerifyInv`:
  what was checked is what is renamed, whatever other machines do to the bucket meanwhile, of items whose
  digest the plan knew (from the object's metadata or its sidecar, by mode).
- `PairsAreKept`: stores that start as pairs, and whose partitions travel with their sidecars, stay pairs
  when no run fails (`PairInv`).

`LifecycleProofs`, from `LifecycleAssumption`, for any jobs, days, buckets and number of runs:

- `TypesCorrect` carries `StageInv`, which work each stage of a run has in hand.
- `ZeroCovers`, the files included that a run placed without validating them, and `LedgerIsTrue`
  rest on `CoverInv`, what a run has established when it is at a stage: that the counts of a stream
  tell of the files (`Told`), and that a validation has refused nothing.
- `ManifestIsTrue`: until a run writes its own, the manifest is one of an earlier run (`ManifestInv`);
  from then on it tells of the files (`OwnTold`, `SyncsTold`).
- `OnlyAskedIsSpent`: a run that has begun was admitted by the validators, and prices no bucket without
  missing days (`AskedInv`). So when `Decide` goes on to stream, the total of the checks, half-up rounded, is
  that of the quote over all buckets, and the caps are those that were named.
- `RecordsKept` and `HolesKept` are about single steps: rotating and appending, however cut short, and the
  scope a sync reads from the manifest before (`HullCovers`: the hull of what was expected covers it).

Only model-checked: liveness (`DownloadEnds`, `EstimateEnds`, `CallsEnd`), since TLAPS cannot reason
about fairness and `ENABLED`; and the properties of the violated runs, which TLC refutes.

## 6. Not modelled

Rendering, logging, the parsing of arguments, the sync command line, universe loading, the trading
calendar, the bytes of DBN and zstd, the length of back-offs, detection of network filesystems, the
Windows lock. They hold no state the properties depend on, or are pure input checking.

## 7. Plan

The invariants and action properties of the passing runs are all proved. What is left:

- assumptions that theorems make beyond their constants': `WorkersOutlive = FALSE` in `ArchiveProofs` and
  `~Unreadable` in `DeletesSpare` are what the violated runs drop, and cannot go; for workers that outlive their
  run, what holds beside `FailuresLeaveNothing` could be stated and proved;
- safety that liveness rests on: that some step is always possible until a call has returned (a main thread
  that waits has a future to wait for, a queued future a free worker), as invariants without `ENABLED`;
- the hazards that `PROJECT.json` lists without a property, with the reason.
