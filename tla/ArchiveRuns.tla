------------------------------ MODULE ArchiveRuns ------------------------------
(***************************************************************************)
(* Several downloader runs and one partition of the archive they share:    *)
(* the run lock and the run's way through _run_download_locked, and what   *)
(* _stream_one does to the partition's files, system call by system call,  *)
(* with processes killed and power lost between any two of them.           *)
(*                                                                         *)
(* A file is an inode; a name is a set of at most one inode.  The inode of *)
(* the n-th attempt of run r is <<r, n>>, that of its empty file <<r, 0>>. *)
(***************************************************************************)
EXTENDS Naturals

CONSTANTS Run,           \* the processes: each runs the program once
          Options,       \* the write options a run may be given
          MaxAttempts,   \* _MAX_STREAM_RETRIES
          WorkersOutlive, \* a run may end before its worker does
          MaxCrashes     \* bound on kills and power losses

ASSUME ArchiveAssumption ==
    /\ Options \subseteq [sidecars : BOOLEAN, validate : BOOLEAN, fsync : BOOLEAN]
    /\ MaxAttempts \in Nat \ {0}
    /\ WorkersOutlive \in BOOLEAN
    /\ MaxCrashes \in Nat

VARIABLES
    opt,                     \* each run's options
    lock,                    \* who holds .run.lock
    main, result,            \* each run's main thread, and how the run ended
    wpc, out,                \* each run's worker on the partition, its outcome
    attempt, fd, digest,     \* its retry count, open file, computed SHA256
    tmp, dest,               \* the names .<day>.tmp, <day>.dbn.zst,
    sidetmp, side,           \* .<day>.dbn.zst.sha256.tmp, <day>.dbn.zst.sha256
    data,                    \* the content of each inode
    hard, sideHard,          \* the inodes forced to disk; whether the sidecar is
    diskDest, diskSide,      \* the names as of the last directory fsync
    skipped,                 \* each run's fsync tracker: a directory fsync failed
    kills, losses            \* how often a process was killed, power was lost

process == <<main, result>>
worker == <<wpc, out, attempt, fd, digest>>
names == <<tmp, dest, sidetmp, side>>
synced == <<sideHard, diskDest, diskSide, skipped>>
disk == <<data, hard, synced>>
crashes == <<kills, losses>>
vars == <<opt, lock, process, worker, names, disk, crashes>>

Inode == Run \X (0..MaxAttempts)

\* "partial" while it is written; "wrong": a stream whose metadata does not answer
\* the query; "torn" by a power loss.
Complete == {"whole", "empty", "wrong"}
Content == Complete \cup {"none", "partial", "torn"}

\* A sidecar names a content by its digest; "garbled" is a malformed sidecar, such
\* as one cut off in the middle.
Digest == Inode \X (Content \cup {"garbled"})

DigestOf(name) == {<<i, data[i]>> : i \in name}
CutOff(s) == {<<d[1], "garbled">> : d \in s}
Garbled(s) == \E d \in s : d[2] = "garbled"

Working == {"attempt", "request", "stream", "blank", "fill", "validate", "hash", "place",
            "dirsync", "seal", "sealplace", "sealsync", "cleanup"}

MainState == {"idle", "repair", "reseal", "resealplace", "resealsync", "survey", "download",
              "done"}
\* "raised": an error leaves the run; "unsealed": one that _write_sha256_sidecar raised.
WorkerOutcome == {"none", "cached", "placed", "no_data", "failed", "raised", "unsealed"}
Outcome == WorkerOutcome \cup {"refused", "invalid", "declined", "interrupted", "fatal", "killed"}

Init ==
    /\ opt \in [Run -> Options]
    /\ lock = {}
    /\ main = [r \in Run |-> "idle"] /\ result = [r \in Run |-> "none"]
    /\ wpc = [r \in Run |-> "idle"] /\ out = [r \in Run |-> "none"]
    /\ attempt = [r \in Run |-> 0]
    /\ fd = [r \in Run |-> {}] /\ digest = [r \in Run |-> {}]
    /\ tmp = {} /\ dest = {} /\ sidetmp = {} /\ side = {}
    /\ data = [i \in Inode |-> "none"] /\ hard = {} /\ sideHard = FALSE
    /\ diskDest = {} /\ diskSide = {}
    /\ skipped = [r \in Run |-> FALSE]
    /\ kills = 0 /\ losses = 0

-----------------------------------------------------------------------------
(* The main thread *)

MainTo(r, state) == main' = [main EXCEPT ![r] = state]

\* Leaving the `with _exclusive_run_lock` block.
Leave(r, how) ==
    /\ MainTo(r, "done")
    /\ result' = [result EXCEPT ![r] = how]
    /\ lock' = lock \ {r}

LockFree_Mutant(r) == TRUE

LockFree(r) == lock = {}

\* A non-blocking exclusive flock: exit code 2 when another run holds it.
Refuse(r) ==
    /\ main[r] = "idle" /\ ~LockFree(r)
    /\ Leave(r, "refused")
    /\ UNCHANGED <<opt, worker, names, disk, crashes>>

\* Under the lock temporary files older than five minutes are swept.  How old
\* one is depends on the time since its last write: any is young or old.
Acquire(r) ==
    /\ main[r] = "idle" /\ LockFree(r)
    /\ lock' = lock \cup {r}
    /\ MainTo(r, "repair")
    /\ tmp' \in {tmp, {}} /\ sidetmp' \in {sidetmp, {}}
    /\ UNCHANGED <<opt, result, worker, dest, side, disk, crashes>>

\* validate_dbn_metadata decodes the header and compares it with the query: of a
\* file that is cut off somewhere it may see nothing amiss.
MayPass(name) == \A i \in name : data[i] # "wrong"
MayFail(name) == \E i \in name : data[i] \notin {"whole", "empty"}

\* _sidecar_repair_state: a sidecar that is well-formed but does not match is
\* never repaired, exit code 5.
RepairState ==
    IF dest = {} THEN "ok"
    ELSE IF side = {} \/ Garbled(side) THEN "missing"
    ELSE IF side = DigestOf(dest) THEN "ok" ELSE "mismatch"

Repair(r) ==
    /\ main[r] = "repair"
    /\ UNCHANGED <<opt, worker, names, disk, crashes>>
    /\ \/ /\ opt[r].sidecars => RepairState = "ok"
          /\ MainTo(r, "survey")
          /\ UNCHANGED <<lock, result>>
       \/ /\ opt[r].sidecars /\ RepairState = "missing"
          /\ MainTo(r, "reseal")
          /\ UNCHANGED <<lock, result>>
       \/ /\ opt[r].sidecars /\ RepairState = "mismatch"
          /\ Leave(r, "invalid")

\* _fsync_directory covers every name in the directory.  An OSError is recorded in
\* the run's tracker and swallowed: the run goes on as if it had worked.
SyncDirectory(r) ==
    /\ \/ /\ opt[r].fsync
          /\ diskDest' = dest /\ diskSide' = side
          /\ UNCHANGED skipped
       \/ /\ skipped' = [skipped EXCEPT ![r] = @ \/ opt[r].fsync]
          /\ UNCHANGED <<diskDest, diskSide>>
    /\ UNCHANGED <<names, data, hard, sideHard>>

\* _write_sha256_sidecar: a temporary file of its own is written, forced to disk
\* where asked for, and renamed; then the directory is synced.  A step that fails
\* raises, and nothing in it removes the temporary file.
WriteSidecar(content) == sidetmp' = content /\ UNCHANGED <<tmp, dest, side, disk>>

WriteBreaks(content) ==
    /\ sidetmp' \in {sidetmp, CutOff(content)}
    /\ UNCHANGED <<tmp, dest, side, disk>>

PlaceSidecar(r) ==
    /\ sidetmp # {}
    /\ side' = sidetmp /\ sidetmp' = {}
    /\ sideHard' = opt[r].fsync
    /\ UNCHANGED <<tmp, dest, data, hard, diskDest, diskSide, skipped>>

\* _repair_one_sidecar, in a pool thread the main thread waits for: an OSError
\* leaves the run through it.
Reseal(r) ==
    /\ main[r] = "reseal"
    /\ UNCHANGED <<opt, worker, crashes>>
    /\ \/ /\ MayPass(dest)
          /\ WriteSidecar(DigestOf(dest))
          /\ MainTo(r, "resealplace")
          /\ UNCHANGED <<lock, result>>
       \/ /\ MayPass(dest)
          /\ WriteBreaks(DigestOf(dest))
          /\ Leave(r, "unsealed")
       \/ /\ MayFail(dest)
          /\ Leave(r, "invalid")
          /\ UNCHANGED <<names, disk>>

ResealPlace(r) ==
    /\ main[r] = "resealplace"
    /\ UNCHANGED <<opt, worker, crashes>>
    /\ \/ /\ PlaceSidecar(r)
          /\ MainTo(r, "resealsync")
          /\ UNCHANGED <<lock, result>>
       \/ Leave(r, "unsealed") /\ UNCHANGED <<names, disk>>

ResealSync(r) ==
    /\ main[r] = "resealsync"
    /\ SyncDirectory(r)
    /\ MainTo(r, "survey")
    /\ UNCHANGED <<opt, lock, result, worker, crashes>>

\* The missing-work summary; the cost checks may refuse, the user decline, a
\* dry run end here: nothing was written.
Survey(r) ==
    /\ main[r] = "survey"
    /\ UNCHANGED <<opt, attempt, fd, digest, out, names, disk, crashes>>
    /\ \/ /\ Leave(r, IF dest # {} THEN "cached" ELSE "declined")
          /\ UNCHANGED wpc
       \/ /\ dest = {}
          /\ MainTo(r, "download")
          /\ wpc' = [wpc EXCEPT ![r] = "start"]
          /\ UNCHANGED <<lock, result>>

\* The worker's future is collected; an interrupt waits for it as well.
Collect(r) ==
    /\ main[r] = "download" /\ wpc[r] = "ended"
    /\ \E how \in {out[r], "interrupted"} : Leave(r, how)
    /\ UNCHANGED <<opt, worker, names, disk, crashes>>

\* _stream_missing cancels what was not begun: on an interrupt, or ...
CancelQueued(r) ==
    /\ main[r] = "download" /\ wpc[r] = "start"
    /\ wpc' = [wpc EXCEPT ![r] = "idle"]
    /\ Leave(r, "interrupted")
    /\ UNCHANGED <<opt, out, attempt, fd, digest, names, disk, crashes>>

\* ... on another worker's fatal error, which waits for nobody, or a second signal
\* that breaks off the wait: the lock is released while this worker is busy.
Abandon(r) ==
    /\ WorkersOutlive
    /\ main[r] = "download"
    /\ wpc' = [wpc EXCEPT ![r] = IF @ = "start" THEN "idle" ELSE @]
    /\ \E how \in {"fatal", "interrupted"} : Leave(r, how)
    /\ UNCHANGED <<opt, out, attempt, fd, digest, names, disk, crashes>>

-----------------------------------------------------------------------------
(* _stream_one *)

WorkerAt(r, from) == wpc[r] = from /\ UNCHANGED <<opt, lock, process, crashes>>
Go(r, to) == wpc' = [wpc EXCEPT ![r] = to] /\ UNCHANGED out
Settle(r, to, o) == wpc' = [wpc EXCEPT ![r] = to] /\ out' = [out EXCEPT ![r] = o]

Start(r) ==
    /\ WorkerAt(r, "start")
    /\ IF dest # {} THEN Settle(r, "ended", "cached") ELSE Go(r, "attempt")
    /\ UNCHANGED <<attempt, fd, digest, names, disk>>

\* Every attempt starts from byte zero: whatever the temporary name holds is
\* unlinked first.
Unlinked_Mutant == tmp

Unlinked == {}

Attempt(r) ==
    /\ WorkerAt(r, "attempt")
    /\ tmp' = Unlinked
    /\ attempt' = [attempt EXCEPT ![r] = @ + 1]
    /\ Go(r, "request")
    /\ UNCHANGED <<fd, digest, dest, sidetmp, side, disk>>

\* What a failed attempt leads to: another one, or the end of the partition.
RetryOrFail_Mutant(r) ==
    \/ attempt[r] <= MaxAttempts /\ Go(r, "attempt")
    \/ Settle(r, "cleanup", "failed")
    \/ Settle(r, "cleanup", "raised")

RetryOrFail(r) ==
    \/ attempt[r] < MaxAttempts /\ Go(r, "attempt")
    \/ Settle(r, "cleanup", "failed")
    \/ Settle(r, "cleanup", "raised")

\* The request is refused before a file exists: no data, an error of any kind.
Rejected(r) ==
    /\ WorkerAt(r, "request")
    /\ Go(r, "blank") \/ RetryOrFail(r)
    /\ UNCHANGED <<attempt, fd, digest, names, disk>>

\* The SDK opens the path "x+b": an existing file is a FileExistsError, which
\* _with_retry turns into a FatalConfigError.
Opened(r) ==
    /\ WorkerAt(r, "request")
    /\ IF tmp # {}
       THEN Settle(r, "cleanup", "raised") /\ UNCHANGED <<fd, tmp, data>>
       ELSE /\ tmp' = {<<r, attempt[r]>>}
            /\ fd' = [fd EXCEPT ![r] = tmp']
            /\ data' = [data EXCEPT ![<<r, attempt[r]>>] = "partial"]
            /\ Go(r, "stream")
    /\ UNCHANGED <<attempt, digest, dest, sidetmp, side, hard, synced>>

\* Writing ends: content c is in the file the worker has open.
Written(r, c) ==
    /\ data' = [i \in Inode |-> IF i \in fd[r] THEN c ELSE data[i]]
    /\ hard' = hard \ fd[r]

Streamed(r) ==
    /\ WorkerAt(r, "stream")
    /\ \E c \in {"whole", "wrong"} : Written(r, c)
    /\ Go(r, "validate")
    /\ UNCHANGED <<attempt, fd, digest, names, synced>>

Broken(r) ==
    /\ WorkerAt(r, "stream")
    /\ RetryOrFail(r)
    /\ UNCHANGED <<attempt, fd, digest, names, disk>>

\* write_empty_dbn_file after a DegradedError: write_bytes creates the file, or
\* truncates the one that has the name.
Blank(r) ==
    /\ WorkerAt(r, "blank")
    /\ tmp' = IF tmp = {} THEN {<<r, 0>>} ELSE tmp
    /\ fd' = [fd EXCEPT ![r] = tmp']
    /\ data' = [i \in Inode |-> IF i \in tmp' THEN "partial" ELSE data[i]]
    /\ Go(r, "fill")
    /\ UNCHANGED <<attempt, digest, dest, sidetmp, side, hard, synced>>

Fill(r) ==
    /\ WorkerAt(r, "fill")
    /\ Written(r, "empty")
    /\ Go(r, "validate")
    /\ UNCHANGED <<attempt, fd, digest, names, synced>>

\* The validation, the digest and the rename go by path, not by open file.
Validates_Mutant(r) == FALSE

Validates(r) == opt[r].validate

Validate(r) ==
    /\ WorkerAt(r, "validate")
    /\ \/ /\ Validates(r) => tmp # {} /\ MayPass(tmp)
          /\ Go(r, "hash")
       \/ /\ Validates(r) /\ (tmp = {} \/ MayFail(tmp))
          /\ Settle(r, "cleanup", "failed")
    /\ UNCHANGED <<attempt, fd, digest, names, disk>>

\* _place_tmp: digest and fsync, rename, fsync of the directory.
Forced_Mutant(r) == {}

Forced(r) == IF opt[r].fsync THEN tmp ELSE {}

Hash(r) ==
    /\ WorkerAt(r, "hash")
    /\ IF tmp = {} /\ (opt[r].sidecars \/ opt[r].fsync)
       THEN Settle(r, "cleanup", "raised") /\ UNCHANGED <<digest, hard>>
       ELSE /\ digest' = [digest EXCEPT ![r] = IF opt[r].sidecars THEN DigestOf(tmp) ELSE {}]
            /\ hard' = hard \cup Forced(r)
            /\ Go(r, "place")
    /\ UNCHANGED <<attempt, fd, names, data, synced>>

Place(r) ==
    /\ WorkerAt(r, "place")
    /\ IF tmp = {}
       THEN Settle(r, "cleanup", "raised") /\ UNCHANGED <<tmp, dest>>
       ELSE dest' = tmp /\ tmp' = {} /\ Go(r, "dirsync")
    /\ UNCHANGED <<attempt, fd, digest, sidetmp, side, disk>>

\* What the call returns: (placed, ...) or, from the DegradedError branch, ...
Verdict(r) == IF fd[r] = {<<r, 0>>} THEN "no_data" ELSE "placed"

SealOrEnd_Mutant(r) == Settle(r, "ended", Verdict(r))

SealOrEnd(r) ==
    IF opt[r].sidecars THEN Go(r, "seal") ELSE Settle(r, "ended", Verdict(r))

DirSync(r) ==
    /\ WorkerAt(r, "dirsync")
    /\ SyncDirectory(r)
    /\ SealOrEnd(r)
    /\ UNCHANGED <<attempt, fd, digest>>

\* When the sidecar cannot be written the file stays in place, unsealed.
Seal(r) ==
    /\ WorkerAt(r, "seal")
    /\ \/ WriteSidecar(digest[r]) /\ Go(r, "sealplace")
       \/ WriteBreaks(digest[r]) /\ Settle(r, "cleanup", "unsealed")
    /\ UNCHANGED <<attempt, fd, digest>>

SealPlace(r) ==
    /\ WorkerAt(r, "sealplace")
    /\ \/ PlaceSidecar(r) /\ Go(r, "sealsync")
       \/ Settle(r, "cleanup", "unsealed") /\ UNCHANGED <<names, disk>>
    /\ UNCHANGED <<attempt, fd, digest>>

SealSync(r) ==
    /\ WorkerAt(r, "sealsync")
    /\ SyncDirectory(r)
    /\ Settle(r, "ended", Verdict(r))
    /\ UNCHANGED <<attempt, fd, digest>>

\* A full disk, an I/O error: writing the empty file, reading it back for the
\* digest, or the rename raises an OSError.
IoError(r) ==
    /\ wpc[r] \in {"blank", "fill", "hash", "place"}
    /\ wpc[r] = "hash" => opt[r].sidecars \/ opt[r].fsync
    /\ Settle(r, "cleanup", "raised")
    /\ UNCHANGED <<opt, lock, process, crashes, attempt, fd, digest, names, disk>>

\* The except clauses: tmp.unlink(missing_ok=True), for the partition's own only.
CleanTmp_Mutant == tmp

CleanTmp == {}

Cleanup(r) ==
    /\ WorkerAt(r, "cleanup")
    /\ tmp' = CleanTmp
    /\ Go(r, "ended")
    /\ UNCHANGED <<attempt, fd, digest, dest, sidetmp, side, disk>>

-----------------------------------------------------------------------------
(* The environment *)

Alive(r) == main[r] \notin {"idle", "done"} \/ wpc[r] \in Working \cup {"start"}

Dead(S) ==
    /\ main' = [r \in Run |-> IF r \in S THEN "done" ELSE main[r]]
    /\ result' = [r \in Run |-> IF r \in S /\ result[r] = "none" THEN "killed" ELSE result[r]]
    /\ wpc' = [r \in Run |-> IF r \in S /\ wpc[r] # "ended" THEN "dead" ELSE wpc[r]]
    /\ lock' = lock \ S
    /\ UNCHANGED <<opt, out, attempt, fd, digest>>

\* SIGKILL, or os._exit on a second SIGINT.  The kernel releases the lock.
Kill(r) ==
    /\ kills + losses < MaxCrashes
    /\ Alive(r)
    /\ Dead({r})
    /\ kills' = kills + 1
    /\ UNCHANGED <<losses, names, disk>>

\* Everything dies; names revert to what a directory fsync fixed, or not; files
\* that were not forced may be torn.
PowerLoss ==
    /\ kills + losses < MaxCrashes
    /\ Dead({r \in Run : Alive(r)})
    /\ losses' = losses + 1
    /\ \E torn \in SUBSET ((tmp \cup dest) \ hard) :
           data' = [i \in Inode |-> IF i \in torn THEN "torn" ELSE data[i]]
    /\ dest' \in {dest, diskDest}
    /\ tmp' \in {tmp, {}, dest \ dest'}
    /\ \E s \in {side, diskSide} :
           /\ side' \in {s} \cup (IF sideHard THEN {} ELSE {CutOff(s)})
           /\ sidetmp' \in {sidetmp, {}, side \ s}
    /\ diskDest' = dest' /\ diskSide' = side'
    /\ hard' = hard \cup tmp' \cup dest' /\ sideHard' = TRUE
    /\ UNCHANGED <<skipped, kills>>

Quiet ==
    /\ \A r \in Run : main[r] = "done" /\ ~Alive(r)
    /\ UNCHANGED vars

MainStep(r) ==
    \/ Refuse(r) \/ Acquire(r) \/ Repair(r)
    \/ Reseal(r) \/ ResealPlace(r) \/ ResealSync(r)
    \/ Survey(r) \/ Collect(r) \/ CancelQueued(r) \/ Abandon(r)

WorkerStep(r) ==
    \/ Start(r) \/ Attempt(r) \/ Rejected(r) \/ Opened(r) \/ Streamed(r) \/ Broken(r)
    \/ Blank(r) \/ Fill(r) \/ Validate(r) \/ Hash(r) \/ Place(r) \/ DirSync(r)
    \/ Seal(r) \/ SealPlace(r) \/ SealSync(r) \/ IoError(r) \/ Cleanup(r)

Next ==
    \/ \E r \in Run : MainStep(r) \/ WorkerStep(r) \/ Kill(r)
    \/ PowerLoss
    \/ Quiet

Spec == Init /\ [][Next]_vars

-----------------------------------------------------------------------------
(* Properties *)

\* Types of the variables.
TypeOK ==
    /\ opt \in [Run -> Options]
    /\ lock \in SUBSET Run
    /\ main \in [Run -> MainState]
    /\ result \in [Run -> Outcome]
    /\ wpc \in [Run -> Working \cup {"idle", "start", "ended", "dead"}]
    /\ out \in [Run -> WorkerOutcome]
    /\ attempt \in [Run -> 0..MaxAttempts]
    /\ fd \in [Run -> SUBSET Inode]
    /\ digest \in [Run -> SUBSET Digest]
    /\ tmp \in SUBSET Inode /\ dest \in SUBSET Inode
    /\ sidetmp \in SUBSET Digest /\ side \in SUBSET Digest
    /\ data \in [Inode -> Content]
    /\ hard \in SUBSET Inode /\ sideHard \in BOOLEAN
    /\ diskDest \in SUBSET Inode /\ diskSide \in SUBSET Digest
    /\ skipped \in [Run -> BOOLEAN]
    /\ kills \in Nat /\ losses \in Nat

\* A worker touches the partition only while its run holds the lock, and only
\* one run holds it.
WritersExclusive ==
    /\ \A r, s \in lock : r = s
    /\ \A r \in Run : wpc[r] \in Working => r \in lock

\* The canonical name never shows a file in the making: it holds a finished
\* stream that passed whatever validation its run asked for, torn only by a
\* power loss its run did not force it to disk against.
DestSound ==
    \A i \in dest :
        \/ data[i] \in {"whole", "empty"}
        \/ data[i] = "wrong" /\ ~opt[i[1]].validate
        \/ data[i] = "torn" /\ ~opt[i[1]].fsync

\* The exclusive open of the SDK never meets a file (the unlink before every
\* attempt), so no download fails for what an earlier one left behind.
OpenNeverCollides == \A r \in Run : wpc[r] = "request" => tmp = {}

\* A sidecar states the digest of the file beside it, whoever is killed when.  Only
\* a power loss can leave one that does not, and only when a run does without fsync,
\* its fsync of the directory failed, or it was killed between the rename and that
\* fsync: the next run then seals a file whose name is not on disk yet.
Forcing == kills = 0 /\ \A r \in Run : opt[r].fsync /\ ~skipped[r]

SidecarTruthful == losses = 0 \/ Forcing => side = {} \/ side = DigestOf(dest)

\* What a run has reported is there: placed and no_data partitions exist, and with
\* --write-sidecars they, and those the run found in place, have their sidecar,
\* even one that a kill between the rename and the sidecar had left without.
\* Placed ones survive a power loss when fsync was asked for and the run did not
\* warn that a directory fsync was skipped.
ReportedHolds ==
    \A r \in Run :
        /\ result[r] \in {"placed", "no_data"} /\ opt[r].fsync /\ ~skipped[r] =>
               /\ dest # {} /\ dest = diskDest /\ dest \subseteq hard
               /\ opt[r].sidecars => side # {} /\ side = diskSide
        /\ result[r] \in {"placed", "no_data", "cached"} /\ losses = 0 =>
               /\ dest # {}
               /\ opt[r].sidecars => side # {}

\* Failure paths clean the partition's temporary file, even if runs interfered: once
\* everyone is gone none is left, unless a process was killed.  README says so of
\* all temporary files; the sidecar's stays when a run failed to seal.
FailuresClean ==
    kills = 0 /\ losses = 0 /\ (\A r \in Run : ~Alive(r)) =>
        /\ tmp = {}
        /\ sidetmp # {} => \E r \in Run : "unsealed" \in {out[r], result[r]}

\* The partition is written once: the abstract store is implemented.
FileOf(name) == IF name = {} THEN "absent" ELSE data[CHOOSE i \in name : TRUE]

Store == INSTANCE PartitionStore
            WITH file <- FileOf(dest), kept <- dest = diskDest /\ dest \subseteq hard

WrittenOnce == Store!Spec

\* README: "New downloads stream to temporary files and are atomically renamed into
\* place": the canonical name never shows a file that is still being written.
AtomicallyPlaced == \A i \in dest : data[i] # "partial"
=============================================================================
