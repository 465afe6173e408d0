----------------------------- MODULE ArchiveProofs -----------------------------
(***************************************************************************)
(* For any number of runs, any options, any number of attempts, kills and  *)
(* power losses: as long as no worker outlives its run's lock, one run at  *)
(* a time writes, and the canonical name only ever shows finished files.   *)
(***************************************************************************)
EXTENDS ArchiveRuns, TLAPS

-----------------------------------------------------------------------------
(* The inductive invariant *)

\* What the main thread does before it has work.
Before == {"idle", "repair", "reseal", "resealplace", "resealsync", "survey"}

\* A run starts its worker once, and the worker's attempts are counted.
AttemptInv ==
    \A r \in Run :
        /\ wpc[r] # "idle" => main[r] \in {"download", "done"}
        /\ main[r] \in Before => attempt[r] = 0
        /\ wpc[r] = "start" => attempt[r] = 0
        /\ wpc[r] = "attempt" => attempt[r] < MaxAttempts

\* The lock has one holder, whose main thread is under way, and only under a main
\* thread that waits for it does a worker run.
LockInv ==
    /\ \A r, s \in lock : r = s
    /\ \A r \in Run : main[r] \notin {"idle", "done"} => r \in lock
    /\ \A r \in Run : wpc[r] \in Working \cup {"start"} => main[r] = "download"

\* The steps of _stream_one up to the rename.
Early == {"attempt", "request", "stream", "blank", "fill", "validate", "hash", "place"}

\* What a worker knows of the temporary name at each of its steps.
WriteInv ==
    \A r \in Run :
        /\ wpc[r] \in Early => dest = {}
        /\ wpc[r] \in {"request", "blank"} => tmp = {}
        /\ wpc[r] \in {"stream", "fill"} => tmp = fd[r]
        /\ wpc[r] \in {"stream", "fill", "validate", "hash", "place"} => \A i \in tmp : i[1] = r
        /\ wpc[r] \in {"validate", "hash", "place"} =>
               \A i \in tmp : data[i] \in Complete
        /\ wpc[r] \in {"hash", "place"} /\ opt[r].validate => \A i \in tmp : data[i] # "wrong"
        /\ wpc[r] = "place" /\ opt[r].fsync => tmp \subseteq hard

\* What a power loss can reach.
DiskInv ==
    /\ diskDest \subseteq dest
    /\ \A i \in dest : opt[i[1]].fsync => i \in hard

\* A name is one file.
OneFile == (\A i, j \in tmp : i = j) /\ (\A i, j \in dest : i = j)

IInv == TypeOK /\ AttemptInv /\ LockInv /\ WriteInv /\ DiskInv /\ DestSound /\ OneFile

-----------------------------------------------------------------------------
\* The digest of a typed name is typed.
LEMMA DigestType == TypeOK => \A S \in SUBSET Inode : DigestOf(S) \in SUBSET Digest
BY DEF TypeOK, DigestOf, Digest

\* So is that of one cut off.
LEMMA CutOffType == \A S \in SUBSET Digest : CutOff(S) \in SUBSET Digest
BY DEF CutOff, Digest

\* A step keeps the types.
LEMMA TypeStep == TypeOK /\ AttemptInv /\ [Next]_vars => TypeOK'
<1> SUFFICES ASSUME TypeOK, AttemptInv, [Next]_vars PROVE TypeOK'
  OBVIOUS
<1> USE DEF disk, synced, crashes, MainState, Outcome, WorkerOutcome
<1> USE ArchiveAssumption
<1>1. ASSUME NEW r \in Run, Refuse(r) PROVE TypeOK'
    BY <1>1 DEF Refuse, Leave, MainTo, LockFree, TypeOK, process, worker, names, disk, Working,
      Complete, Content, Inode
<1>2. ASSUME NEW r \in Run, Acquire(r) PROVE TypeOK'
    BY <1>2 DEF Acquire, MainTo, LockFree, TypeOK, process, worker, names, disk, Working,
      Complete, Content, Inode
<1>3. ASSUME NEW r \in Run, Repair(r) PROVE TypeOK'
    BY <1>3 DEF Repair, Leave, MainTo, TypeOK, process, worker, names, disk, Working, Complete,
      Content, Inode
<1>4. ASSUME NEW r \in Run, Reseal(r) PROVE TypeOK'
  <2>1. DigestOf(dest) \in SUBSET Digest /\ CutOff(DigestOf(dest)) \in SUBSET Digest
    BY DigestType, CutOffType DEF TypeOK
  <2>2. sidetmp' \in SUBSET Digest
    BY <1>4, <2>1 DEF Reseal, WriteSidecar, WriteBreaks, names, TypeOK
  <2>. QED BY <1>4, <2>2 DEF Reseal, Leave, MainTo, WriteSidecar, WriteBreaks, TypeOK, process,
             worker, names
<1>5. ASSUME NEW r \in Run, ResealPlace(r) PROVE TypeOK'
    BY <1>5 DEF ResealPlace, PlaceSidecar, Leave, MainTo, TypeOK, process, worker, names
<1>6. ASSUME NEW r \in Run, ResealSync(r) PROVE TypeOK'
    BY <1>6 DEF ResealSync, SyncDirectory, MainTo, TypeOK, process, worker, names
<1>7. ASSUME NEW r \in Run, Survey(r) PROVE TypeOK'
    BY <1>7 DEF Survey, Leave, MainTo, TypeOK, process, worker, names, disk, Working, Complete,
      Content, Inode
<1>8. ASSUME NEW r \in Run, Collect(r) PROVE TypeOK'
  <2>1. result' \in [Run -> Outcome]
    <3>1. out[r] \in Outcome /\ "interrupted" \in Outcome
      BY DEF TypeOK
    <3>. QED BY <1>8, <3>1 DEF Collect, Leave, TypeOK
  <2>. QED BY <1>8, <2>1 DEF Collect, Leave, MainTo, TypeOK, worker, names
<1>9. ASSUME NEW r \in Run, CancelQueued(r) PROVE TypeOK'
    BY <1>9 DEF CancelQueued, Leave, MainTo, TypeOK, process, worker, names, disk, Working,
      Complete, Content, Inode
<1>10. ASSUME NEW r \in Run, Abandon(r) PROVE TypeOK'
    BY <1>10 DEF Abandon, Leave, MainTo, TypeOK, process, worker, names, disk, Working, Complete,
      Content, Inode
<1>11. ASSUME NEW r \in Run, Start(r) PROVE TypeOK'
    BY <1>11 DEF Start, WorkerAt, Settle, Go, TypeOK, process, worker, names, disk, Working,
      Complete, Content, Inode
<1>12. ASSUME NEW r \in Run, Attempt(r) PROVE TypeOK'
  <2>1. attempt' \in [Run -> 0..MaxAttempts]
    BY <1>12 DEF Attempt, WorkerAt, AttemptInv, TypeOK
  <2>. QED BY <1>12, <2>1 DEF Attempt, WorkerAt, Unlinked, Go, TypeOK, process, worker, names,
    disk, Working
<1>13. ASSUME NEW r \in Run, Rejected(r) PROVE TypeOK'
    BY <1>13 DEF Rejected, WorkerAt, RetryOrFail, Settle, Go, TypeOK, process, worker, names,
      disk, Working, Complete, Content, Inode
<1>14. ASSUME NEW r \in Run, Opened(r) PROVE TypeOK'
  <2>1. <<r, attempt[r]>> \in Inode
    BY <1>14 DEF TypeOK, Inode
  <2>2. tmp' = tmp \/ tmp' = {<<r, attempt[r]>>}
    BY <1>14 DEF Opened
  <2>3. tmp' \in SUBSET Inode
    BY <1>14, <2>1, <2>2 DEF TypeOK
  <2>4. fd' \in [Run -> SUBSET Inode]
    BY <1>14, <2>1, <2>3 DEF Opened, TypeOK
  <2>5. data' \in [Inode -> Content]
    BY <1>14, <2>1 DEF Opened, TypeOK, Content
  <2>. QED BY <1>14, <2>1, <2>2, <2>3, <2>4, <2>5 DEF Opened, WorkerAt, Settle, Go, TypeOK,
    process, worker, names, disk, Working
<1>15. ASSUME NEW r \in Run, Streamed(r) PROVE TypeOK'
    BY <1>15 DEF Streamed, WorkerAt, Written, Go, TypeOK, process, worker, names, disk, Working,
      Complete, Content, Inode
<1>16. ASSUME NEW r \in Run, Broken(r) PROVE TypeOK'
    BY <1>16 DEF Broken, WorkerAt, RetryOrFail, Settle, Go, TypeOK, process, worker, names,
      disk, Working, Complete, Content, Inode
<1>17. ASSUME NEW r \in Run, Blank(r) PROVE TypeOK'
    BY <1>17 DEF Blank, WorkerAt, Go, TypeOK, process, worker, names, disk, Working, Complete,
      Content, Inode
<1>18. ASSUME NEW r \in Run, Fill(r) PROVE TypeOK'
    BY <1>18 DEF Fill, WorkerAt, Written, Go, TypeOK, process, worker, names, disk, Working,
      Complete, Content, Inode
<1>19. ASSUME NEW r \in Run, Validate(r) PROVE TypeOK'
    BY <1>19 DEF Validate, WorkerAt, Settle, Go, TypeOK, process, worker, names, disk, Working,
      Complete, Content, Inode
<1>20. ASSUME NEW r \in Run, Hash(r) PROVE TypeOK'
  <2>1. digest' \in [Run -> SUBSET Digest]
    BY <1>20, DigestType DEF Hash, TypeOK
  <2>2. hard' \in SUBSET Inode
    BY <1>20 DEF Hash, Forced, TypeOK
  <2>. QED BY <1>20, <2>1, <2>2 DEF Hash, WorkerAt, Forced, Settle, Go, TypeOK, process, worker,
    names, disk, Working
<1>21. ASSUME NEW r \in Run, Place(r) PROVE TypeOK'
    BY <1>21 DEF Place, WorkerAt, Settle, Go, TypeOK, process, worker, names, disk, Working,
      Complete, Content, Inode
<1>22. ASSUME NEW r \in Run, DirSync(r) PROVE TypeOK'
  <2>1. skipped' \in [Run -> BOOLEAN]
    BY <1>22, ArchiveAssumption DEF DirSync, SyncDirectory, TypeOK
  <2>2. wpc' \in [Run -> Working \cup {"idle", "start", "ended", "dead"}] /\ out' \in [Run -> WorkerOutcome]
    BY <1>22 DEF DirSync, SealOrEnd, Verdict, Settle, Go, TypeOK, Working
  <2>. QED BY <1>22, <2>1, <2>2 DEF DirSync, WorkerAt, SyncDirectory, TypeOK, process, names
<1>23. ASSUME NEW r \in Run, Seal(r) PROVE TypeOK'
  <2>1. sidetmp' \in SUBSET Digest
    BY <1>23, CutOffType DEF Seal, WriteSidecar, WriteBreaks, names, TypeOK
  <2>. QED BY <1>23, <2>1 DEF Seal, WorkerAt, WriteSidecar, WriteBreaks, Settle, Go, TypeOK,
    process, worker, names, Working
<1>24. ASSUME NEW r \in Run, SealPlace(r) PROVE TypeOK'
  <2>1. sideHard' \in BOOLEAN
    BY <1>24, ArchiveAssumption DEF SealPlace, PlaceSidecar, names, TypeOK
  <2>. QED BY <1>24, <2>1 DEF SealPlace, WorkerAt, PlaceSidecar, Settle, Go, TypeOK, process,
             worker, names, Working
<1>25. ASSUME NEW r \in Run, SealSync(r) PROVE TypeOK'
    BY <1>25 DEF SealSync, WorkerAt, SyncDirectory, Verdict, Settle, TypeOK, process, worker,
      names, Working
<1>26. ASSUME NEW r \in Run, IoError(r) PROVE TypeOK'
    BY <1>26 DEF IoError, Settle, TypeOK, process, worker, names, Working
<1>27. ASSUME NEW r \in Run, Cleanup(r) PROVE TypeOK'
    BY <1>27 DEF Cleanup, WorkerAt, CleanTmp, Go, TypeOK, process, worker, names, disk, Working,
      Complete, Content, Inode
<1>28. ASSUME NEW r \in Run, Kill(r) PROVE TypeOK'
    BY <1>28 DEF Kill, Dead, TypeOK, process, worker, names, disk, Working, Complete, Content,
      Inode
<1>29. CASE PowerLoss
  <2>1. CutOff(side) \in SUBSET Digest /\ CutOff(diskSide) \in SUBSET Digest
    BY CutOffType DEF TypeOK
  <2>2. side' \in SUBSET Digest /\ dest' \in SUBSET Inode /\ sidetmp' \in SUBSET Digest
    BY <1>29, <2>1 DEF PowerLoss, TypeOK
  <2>3. data' \in [Inode -> Content]
    BY <1>29 DEF PowerLoss, TypeOK, Content
  <2>4. /\ main' \in [Run -> MainState]
        /\ result' \in [Run -> Outcome]
        /\ wpc' \in [Run -> Working \cup {"idle", "start", "ended", "dead"}]
    BY <1>29 DEF PowerLoss, Dead, TypeOK
  <2>. QED BY <1>29, <2>2, <2>3, <2>4 DEF PowerLoss, Dead, TypeOK
<1>30. CASE Quiet \/ UNCHANGED vars
    BY <1>30 DEF Quiet, vars, TypeOK, process, worker, names, disk, Working, Complete, Content,
      Inode
<1>. QED BY <1>1, <1>2, <1>3, <1>4, <1>5, <1>6, <1>7, <1>8, <1>9, <1>10, <1>11, <1>12, <1>13,
      <1>14, <1>15, <1>16, <1>17, <1>18, <1>19, <1>20, <1>21, <1>22, <1>23, <1>24, <1>25, <1>26,
      <1>27, <1>28, <1>29, <1>30 DEF Next, MainStep, WorkerStep

\* A step keeps the count of attempts.
LEMMA AttemptStep == TypeOK /\ AttemptInv /\ [Next]_vars => AttemptInv'
<1> SUFFICES ASSUME TypeOK, AttemptInv, [Next]_vars PROVE AttemptInv'
  OBVIOUS
<1> USE DEF disk, synced, crashes
<1> USE ArchiveAssumption
<1>1. ASSUME NEW r \in Run, Refuse(r) PROVE AttemptInv'
    BY <1>1 DEF Refuse, Leave, MainTo, LockFree, TypeOK, AttemptInv, Before, process, worker
<1>2. ASSUME NEW r \in Run, Acquire(r) PROVE AttemptInv'
    BY <1>2 DEF Acquire, MainTo, LockFree, TypeOK, AttemptInv, Before, process, worker
<1>3. ASSUME NEW r \in Run, Repair(r) PROVE AttemptInv'
    BY <1>3 DEF Repair, Leave, MainTo, TypeOK, AttemptInv, Before, process, worker
<1>4. ASSUME NEW r \in Run, Reseal(r) PROVE AttemptInv'
    BY <1>4 DEF Reseal, Leave, MainTo, WriteSidecar, WriteBreaks, TypeOK, AttemptInv, Before,
      process, worker
<1>5. ASSUME NEW r \in Run, ResealPlace(r) PROVE AttemptInv'
    BY <1>5 DEF ResealPlace, Leave, MainTo, PlaceSidecar, TypeOK, AttemptInv, Before, process,
      worker
<1>6. ASSUME NEW r \in Run, ResealSync(r) PROVE AttemptInv'
    BY <1>6 DEF ResealSync, Leave, MainTo, SyncDirectory, TypeOK, AttemptInv, Before, process,
      worker
<1>7. ASSUME NEW r \in Run, Survey(r) PROVE AttemptInv'
    BY <1>7 DEF Survey, Leave, MainTo, TypeOK, AttemptInv, Before, process, worker
<1>8. ASSUME NEW r \in Run, Collect(r) PROVE AttemptInv'
    BY <1>8 DEF Collect, Leave, MainTo, TypeOK, AttemptInv, Before, process, worker
<1>9. ASSUME NEW r \in Run, CancelQueued(r) PROVE AttemptInv'
    BY <1>9 DEF CancelQueued, Leave, MainTo, TypeOK, AttemptInv, Before, process, worker
<1>10. ASSUME NEW r \in Run, Abandon(r) PROVE AttemptInv'
    BY <1>10 DEF Abandon, Leave, MainTo, TypeOK, AttemptInv, Before, process, worker
<1>11. ASSUME NEW r \in Run, Start(r) PROVE AttemptInv'
    BY <1>11 DEF Start, WorkerAt, Settle, Go, TypeOK, AttemptInv, Before, process, worker
<1>12. ASSUME NEW r \in Run, Attempt(r) PROVE AttemptInv'
    BY <1>12 DEF Attempt, WorkerAt, Unlinked, Go, TypeOK, AttemptInv, Before, process, worker
<1>13. ASSUME NEW r \in Run, Rejected(r) PROVE AttemptInv'
    BY <1>13 DEF Rejected, WorkerAt, RetryOrFail, Settle, Go, TypeOK, AttemptInv, Before, process,
      worker
<1>14. ASSUME NEW r \in Run, Opened(r) PROVE AttemptInv'
    BY <1>14 DEF Opened, WorkerAt, Settle, Go, TypeOK, AttemptInv, Before, process, worker
<1>15. ASSUME NEW r \in Run, Streamed(r) PROVE AttemptInv'
    BY <1>15 DEF Streamed, WorkerAt, Written, Go, TypeOK, AttemptInv, Before, process, worker
<1>16. ASSUME NEW r \in Run, Broken(r) PROVE AttemptInv'
    BY <1>16 DEF Broken, WorkerAt, RetryOrFail, Settle, Go, TypeOK, AttemptInv, Before, process,
      worker
<1>17. ASSUME NEW r \in Run, Blank(r) PROVE AttemptInv'
    BY <1>17 DEF Blank, WorkerAt, Go, TypeOK, AttemptInv, Before, process, worker
<1>18. ASSUME NEW r \in Run, Fill(r) PROVE AttemptInv'
    BY <1>18 DEF Fill, WorkerAt, Written, Go, TypeOK, AttemptInv, Before, process, worker
<1>19. ASSUME NEW r \in Run, Validate(r) PROVE AttemptInv'
    BY <1>19 DEF Validate, WorkerAt, Settle, Go, TypeOK, AttemptInv, Before, process, worker
<1>20. ASSUME NEW r \in Run, Hash(r) PROVE AttemptInv'
    BY <1>20 DEF Hash, WorkerAt, Forced, Settle, Go, TypeOK, AttemptInv, Before, process, worker
<1>21. ASSUME NEW r \in Run, Place(r) PROVE AttemptInv'
    BY <1>21 DEF Place, WorkerAt, Settle, Go, TypeOK, AttemptInv, Before, process, worker
<1>22. ASSUME NEW r \in Run, DirSync(r) PROVE AttemptInv'
    BY <1>22 DEF DirSync, WorkerAt, SyncDirectory, SealOrEnd, Verdict, Settle, Go, TypeOK,
      AttemptInv, Before, process,
      worker
<1>23. ASSUME NEW r \in Run, Seal(r) PROVE AttemptInv'
    BY <1>23 DEF Seal, WorkerAt, WriteSidecar, WriteBreaks, Settle, Go, TypeOK, AttemptInv,
      Before, process,
      worker
<1>24. ASSUME NEW r \in Run, SealPlace(r) PROVE AttemptInv'
    BY <1>24 DEF SealPlace, WorkerAt, PlaceSidecar, Settle, Go, TypeOK, AttemptInv, Before,
      process,
      worker
<1>25. ASSUME NEW r \in Run, SealSync(r) PROVE AttemptInv'
    BY <1>25 DEF SealSync, WorkerAt, SyncDirectory, Verdict, Settle, TypeOK, AttemptInv, Before,
      process,
      worker
<1>26. ASSUME NEW r \in Run, IoError(r) PROVE AttemptInv'
    BY <1>26 DEF IoError, WorkerAt, Settle, TypeOK, AttemptInv, Before, process,
      worker
<1>27. ASSUME NEW r \in Run, Cleanup(r) PROVE AttemptInv'
    BY <1>27 DEF Cleanup, WorkerAt, CleanTmp, Go, TypeOK, AttemptInv, Before, process, worker
<1>28. ASSUME NEW r \in Run, Kill(r) PROVE AttemptInv'
    BY <1>28 DEF Kill, Dead, TypeOK, AttemptInv, Before, process, worker
<1>29. CASE PowerLoss
    BY <1>29 DEF PowerLoss, Dead, vars, TypeOK, AttemptInv, Before, process, worker
<1>30. CASE Quiet \/ UNCHANGED vars
    BY <1>30 DEF Quiet, vars, TypeOK, AttemptInv, Before, process, worker
<1>. QED BY <1>1, <1>2, <1>3, <1>4, <1>5, <1>6, <1>7, <1>8, <1>9, <1>10, <1>11, <1>12, <1>13,
      <1>14, <1>15, <1>16, <1>17, <1>18, <1>19, <1>20, <1>21, <1>22, <1>23, <1>24, <1>25, <1>26,
      <1>27, <1>28, <1>29, <1>30 DEF Next, MainStep, WorkerStep

\* A step keeps the lock exclusive.
LEMMA LockStep == WorkersOutlive = FALSE /\ TypeOK /\ LockInv /\ [Next]_vars => LockInv'
<1> SUFFICES ASSUME WorkersOutlive = FALSE, TypeOK, LockInv, [Next]_vars PROVE LockInv'
  OBVIOUS
<1> USE DEF disk, synced, crashes
<1>1. ASSUME NEW r \in Run, Refuse(r) PROVE LockInv'
    BY <1>1 DEF Refuse, Leave, MainTo, LockFree, TypeOK, LockInv, process, worker, Working
<1>2. ASSUME NEW r \in Run, Acquire(r) PROVE LockInv'
    BY <1>2 DEF Acquire, MainTo, LockFree, TypeOK, LockInv, process, worker, Working
<1>3. ASSUME NEW r \in Run, Repair(r) PROVE LockInv'
    BY <1>3 DEF Repair, Leave, MainTo, TypeOK, LockInv, process, worker, Working
<1>4. ASSUME NEW r \in Run, Reseal(r) PROVE LockInv'
    BY <1>4 DEF Reseal, Leave, MainTo, WriteSidecar, WriteBreaks, TypeOK, LockInv, process,
      worker, Working
<1>5. ASSUME NEW r \in Run, ResealPlace(r) PROVE LockInv'
    BY <1>5 DEF ResealPlace, Leave, MainTo, PlaceSidecar, TypeOK, LockInv, process, worker,
      Working
<1>6. ASSUME NEW r \in Run, ResealSync(r) PROVE LockInv'
    BY <1>6 DEF ResealSync, Leave, MainTo, SyncDirectory, TypeOK, LockInv, process, worker,
      Working
<1>7. ASSUME NEW r \in Run, Survey(r) PROVE LockInv'
    BY <1>7 DEF Survey, Leave, MainTo, TypeOK, LockInv, process, worker, Working
<1>8. ASSUME NEW r \in Run, Collect(r) PROVE LockInv'
    BY <1>8 DEF Collect, Leave, MainTo, TypeOK, LockInv, process, worker, Working
<1>9. ASSUME NEW r \in Run, CancelQueued(r) PROVE LockInv'
    BY <1>9 DEF CancelQueued, Leave, MainTo, TypeOK, LockInv, process, worker, Working
<1>10. ASSUME NEW r \in Run, Abandon(r) PROVE LockInv'
    BY <1>10 DEF Abandon, Leave, MainTo, TypeOK, LockInv, process, worker, Working
<1>11. ASSUME NEW r \in Run, Start(r) PROVE LockInv'
    BY <1>11 DEF Start, WorkerAt, Settle, Go, TypeOK, LockInv, process, worker, Working
<1>12. ASSUME NEW r \in Run, Attempt(r) PROVE LockInv'
    BY <1>12 DEF Attempt, WorkerAt, Unlinked, Go, TypeOK, LockInv, process, worker, Working
<1>13. ASSUME NEW r \in Run, Rejected(r) PROVE LockInv'
    BY <1>13 DEF Rejected, WorkerAt, RetryOrFail, Settle, Go, TypeOK, LockInv, process, worker,
      Working
<1>14. ASSUME NEW r \in Run, Opened(r) PROVE LockInv'
    BY <1>14 DEF Opened, WorkerAt, Settle, Go, TypeOK, LockInv, process, worker, Working
<1>15. ASSUME NEW r \in Run, Streamed(r) PROVE LockInv'
    BY <1>15 DEF Streamed, WorkerAt, Written, Go, TypeOK, LockInv, process, worker, Working
<1>16. ASSUME NEW r \in Run, Broken(r) PROVE LockInv'
    BY <1>16 DEF Broken, WorkerAt, RetryOrFail, Settle, Go, TypeOK, LockInv, process, worker,
      Working
<1>17. ASSUME NEW r \in Run, Blank(r) PROVE LockInv'
    BY <1>17 DEF Blank, WorkerAt, Go, TypeOK, LockInv, process, worker, Working
<1>18. ASSUME NEW r \in Run, Fill(r) PROVE LockInv'
    BY <1>18 DEF Fill, WorkerAt, Written, Go, TypeOK, LockInv, process, worker, Working
<1>19. ASSUME NEW r \in Run, Validate(r) PROVE LockInv'
    BY <1>19 DEF Validate, WorkerAt, Settle, Go, TypeOK, LockInv, process, worker, Working
<1>20. ASSUME NEW r \in Run, Hash(r) PROVE LockInv'
    BY <1>20 DEF Hash, WorkerAt, Forced, Settle, Go, TypeOK, LockInv, process, worker, Working
<1>21. ASSUME NEW r \in Run, Place(r) PROVE LockInv'
    BY <1>21 DEF Place, WorkerAt, Settle, Go, TypeOK, LockInv, process, worker, Working
<1>22. ASSUME NEW r \in Run, DirSync(r) PROVE LockInv'
    BY <1>22 DEF DirSync, WorkerAt, SyncDirectory, SealOrEnd, Verdict, Settle, Go, TypeOK,
      LockInv, process,
      worker, Working
<1>23. ASSUME NEW r \in Run, Seal(r) PROVE LockInv'
    BY <1>23 DEF Seal, WorkerAt, WriteSidecar, WriteBreaks, Settle, Go, TypeOK, LockInv, process,
      worker,
      Working
<1>24. ASSUME NEW r \in Run, SealPlace(r) PROVE LockInv'
    BY <1>24 DEF SealPlace, WorkerAt, PlaceSidecar, Settle, Go, TypeOK, LockInv, process, worker,
      Working
<1>25. ASSUME NEW r \in Run, SealSync(r) PROVE LockInv'
    BY <1>25 DEF SealSync, WorkerAt, SyncDirectory, Verdict, Settle, TypeOK, LockInv, process,
      worker,
      Working
<1>26. ASSUME NEW r \in Run, IoError(r) PROVE LockInv'
    BY <1>26 DEF IoError, WorkerAt, Settle, TypeOK, LockInv, process, worker,
      Working
<1>27. ASSUME NEW r \in Run, Cleanup(r) PROVE LockInv'
    BY <1>27 DEF Cleanup, WorkerAt, CleanTmp, Go, TypeOK, LockInv, process, worker, Working
<1>28. ASSUME NEW r \in Run, Kill(r) PROVE LockInv'
    BY <1>28 DEF Kill, Dead, TypeOK, LockInv, process, worker, Working
<1>29. CASE PowerLoss
    BY <1>29 DEF PowerLoss, Dead, vars, TypeOK, LockInv, process, worker, Working
<1>30. CASE Quiet \/ UNCHANGED vars
    BY <1>30 DEF Quiet, vars, TypeOK, LockInv, process, worker, Working
<1>. QED BY <1>1, <1>2, <1>3, <1>4, <1>5, <1>6, <1>7, <1>8, <1>9, <1>10, <1>11, <1>12, <1>13,
      <1>14, <1>15, <1>16, <1>17, <1>18, <1>19, <1>20, <1>21, <1>22, <1>23, <1>24, <1>25, <1>26,
      <1>27, <1>28, <1>29, <1>30 DEF Next, MainStep, WorkerStep

\* Two workers are never at work together, nor is one while a run gets the lock.
LEMMA Alone ==
    ASSUME LockInv
    PROVE  /\ \A r, s \in Run : wpc[r] \in Working \cup {"start"} /\ wpc[s] \in Working \cup {"start"}
                                => r = s
           /\ \A r, s \in Run : main[r] \in Before \ {"idle"}
                                => wpc[s] \notin Working \cup {"start"}
           /\ lock = {} => \A s \in Run : wpc[s] \notin Working \cup {"start"}
BY DEF LockInv, Before

\* A step keeps what the worker knows of the temporary file.
LEMMA WriteStep ==
    WorkersOutlive = FALSE /\ TypeOK /\ LockInv /\ WriteInv /\ [Next]_vars => WriteInv'
<1> SUFFICES ASSUME WorkersOutlive = FALSE, TypeOK, LockInv, WriteInv, [Next]_vars PROVE WriteInv'
  OBVIOUS
<1> USE DEF disk, synced, crashes
<1>1. ASSUME NEW r \in Run, Refuse(r) PROVE WriteInv'
    BY <1>1, Alone DEF Refuse, Leave, MainTo, LockFree, TypeOK, WriteInv, process, worker,
      names, disk, Working, Early
<1>2. ASSUME NEW r \in Run, Acquire(r) PROVE WriteInv'
    BY <1>2, Alone DEF Acquire, MainTo, LockFree, TypeOK, WriteInv, process, worker, names,
      disk, Working, Early
<1>3. ASSUME NEW r \in Run, Repair(r) PROVE WriteInv'
    BY <1>3, Alone DEF Repair, Leave, MainTo, TypeOK, WriteInv, process, worker, names, disk,
      Working, Early
<1>4. ASSUME NEW r \in Run, Reseal(r) PROVE WriteInv'
    BY <1>4, Alone DEF Reseal, Leave, MainTo, WriteSidecar, WriteBreaks, TypeOK, WriteInv,
      process, worker,
      names, disk, Working, Early
<1>5. ASSUME NEW r \in Run, ResealPlace(r) PROVE WriteInv'
    BY <1>5, Alone DEF ResealPlace, Leave, MainTo, PlaceSidecar, TypeOK, WriteInv, process,
      worker,
      names, disk, Working, Early
<1>6. ASSUME NEW r \in Run, ResealSync(r) PROVE WriteInv'
    BY <1>6, Alone DEF ResealSync, Leave, MainTo, SyncDirectory, TypeOK, WriteInv, process,
      worker,
      names, disk, Working, Early
<1>7. ASSUME NEW r \in Run, Survey(r) PROVE WriteInv'
    BY <1>7, Alone DEF Survey, Leave, MainTo, TypeOK, WriteInv, process, worker, names, disk,
      Working, Early
<1>8. ASSUME NEW r \in Run, Collect(r) PROVE WriteInv'
    BY <1>8, Alone DEF Collect, Leave, MainTo, TypeOK, WriteInv, process, worker, names, disk,
      Working, Early
<1>9. ASSUME NEW r \in Run, CancelQueued(r) PROVE WriteInv'
    BY <1>9, Alone DEF CancelQueued, Leave, MainTo, TypeOK, WriteInv, process, worker, names,
      disk, Working, Early
<1>10. ASSUME NEW r \in Run, Abandon(r) PROVE WriteInv'
    BY <1>10, Alone DEF Abandon, Leave, MainTo, TypeOK, WriteInv, process, worker, names, disk,
      Working, Early
<1>11. ASSUME NEW r \in Run, Start(r) PROVE WriteInv'
    BY <1>11, Alone DEF Start, WorkerAt, Settle, Go, TypeOK, WriteInv, process, worker, names,
      disk, Working, Early
<1>12. ASSUME NEW r \in Run, Attempt(r) PROVE WriteInv'
    BY <1>12, Alone DEF Attempt, WorkerAt, Unlinked, Go, TypeOK, WriteInv, process, worker,
      names, disk, Working, Early
<1>13. ASSUME NEW r \in Run, Rejected(r) PROVE WriteInv'
    BY <1>13, Alone DEF Rejected, WorkerAt, RetryOrFail, Settle, Go, TypeOK, WriteInv, process,
      worker, names, disk, Working, Early
<1>14. ASSUME NEW r \in Run, Opened(r) PROVE WriteInv'
    BY <1>14, Alone DEF Opened, WorkerAt, Settle, Go, TypeOK, WriteInv, process, worker, names,
      disk, Working, Early
<1>15. ASSUME NEW r \in Run, Streamed(r) PROVE WriteInv'
  <2>1. \A s \in Run \ {r} : wpc'[s] \notin Early
    BY <1>15, Alone DEF Streamed, WorkerAt, Go, TypeOK, Working, Early
  <2>2. tmp = fd[r] /\ tmp \subseteq Inode /\ tmp' = tmp /\ dest' = dest /\ dest = {}
    BY <1>15 DEF Streamed, WorkerAt, WriteInv, TypeOK, names, Early
  <2>3. \A i \in tmp : i[1] = r
    BY <1>15 DEF Streamed, WorkerAt, WriteInv
  <2>4. \A i \in tmp : data'[i] \in Complete
    BY <1>15, <2>2 DEF Streamed, Written, Complete
  <2>5. wpc'[r] = "validate"
    BY <1>15 DEF Streamed, WorkerAt, Go, TypeOK
  <2>. QED BY <2>1, <2>2, <2>3, <2>4, <2>5 DEF WriteInv, Early
<1>16. ASSUME NEW r \in Run, Broken(r) PROVE WriteInv'
    BY <1>16, Alone DEF Broken, WorkerAt, RetryOrFail, Settle, Go, TypeOK, WriteInv, process,
      worker, names, disk, Working, Early
<1>17. ASSUME NEW r \in Run, Blank(r) PROVE WriteInv'
    BY <1>17, Alone DEF Blank, WorkerAt, Go, TypeOK, WriteInv, process, worker, names, disk,
      Working, Early
<1>18. ASSUME NEW r \in Run, Fill(r) PROVE WriteInv'
  <2>1. \A s \in Run \ {r} : wpc'[s] \notin Early
    BY <1>18, Alone DEF Fill, WorkerAt, Go, TypeOK, Working, Early
  <2>2. tmp = fd[r] /\ tmp \subseteq Inode /\ tmp' = tmp /\ dest' = dest /\ dest = {}
    BY <1>18 DEF Fill, WorkerAt, WriteInv, TypeOK, names, Early
  <2>3. \A i \in tmp : i[1] = r
    BY <1>18 DEF Fill, WorkerAt, WriteInv
  <2>4. \A i \in tmp : data'[i] \in Complete
    BY <1>18, <2>2 DEF Fill, Written, Complete
  <2>5. wpc'[r] = "validate"
    BY <1>18 DEF Fill, WorkerAt, Go, TypeOK
  <2>. QED BY <2>1, <2>2, <2>3, <2>4, <2>5 DEF WriteInv, Early
<1>19. ASSUME NEW r \in Run, Validate(r) PROVE WriteInv'
  <2>1. \A s \in Run \ {r} : wpc'[s] \notin Early
    BY <1>19, Alone DEF Validate, WorkerAt, Settle, Go, TypeOK, Working, Early
  <2>2. wpc'[r] = "hash" /\ opt[r].validate => \A i \in tmp : data[i] # "wrong"
    BY <1>19 DEF Validate, Validates, WorkerAt, Settle, Go, MayPass, TypeOK
  <2>3. wpc[r] = "validate" /\ wpc'[r] \in {"hash", "cleanup"} /\ UNCHANGED <<tmp, dest, data,
    opt>>
    BY <1>19 DEF Validate, WorkerAt, Settle, Go, TypeOK, names, disk
  <2>. QED BY <2>1, <2>2, <2>3 DEF WriteInv, Early
<1>20. ASSUME NEW r \in Run, Hash(r) PROVE WriteInv'
    BY <1>20, Alone DEF Hash, WorkerAt, Forced, Settle, Go, TypeOK, WriteInv, process, worker,
      names, disk, Working, Early
<1>21. ASSUME NEW r \in Run, Place(r) PROVE WriteInv'
    BY <1>21, Alone DEF Place, WorkerAt, Settle, Go, TypeOK, WriteInv, process, worker, names,
      disk, Working, Early
<1>22. ASSUME NEW r \in Run, DirSync(r) PROVE WriteInv'
    BY <1>22, Alone DEF DirSync, WorkerAt, SyncDirectory, SealOrEnd, Verdict, Settle, Go, TypeOK,
      WriteInv,
      process, worker, names, disk, Working, Early
<1>23. ASSUME NEW r \in Run, Seal(r) PROVE WriteInv'
    BY <1>23, Alone DEF Seal, WorkerAt, WriteSidecar, WriteBreaks, Settle, Go, TypeOK, WriteInv,
      process,
      worker, names, disk, Working, Early
<1>24. ASSUME NEW r \in Run, SealPlace(r) PROVE WriteInv'
    BY <1>24, Alone DEF SealPlace, WorkerAt, PlaceSidecar, Settle, Go, TypeOK, WriteInv, process,
      worker, names, disk, Working, Early
<1>25. ASSUME NEW r \in Run, SealSync(r) PROVE WriteInv'
    BY <1>25, Alone DEF SealSync, WorkerAt, SyncDirectory, Verdict, Settle, TypeOK, WriteInv,
      process,
      worker, names, disk, Working, Early
<1>26. ASSUME NEW r \in Run, IoError(r) PROVE WriteInv'
    BY <1>26, Alone DEF IoError, WorkerAt, Settle, TypeOK, WriteInv, process,
      worker, names, disk, Working, Early
<1>27. ASSUME NEW r \in Run, Cleanup(r) PROVE WriteInv'
    BY <1>27, Alone DEF Cleanup, WorkerAt, CleanTmp, Go, TypeOK, WriteInv, process, worker,
      names, disk, Working, Early
<1>28. ASSUME NEW r \in Run, Kill(r) PROVE WriteInv'
    BY <1>28, Alone DEF Kill, Dead, TypeOK, WriteInv, process, worker, names, disk, Working,
      Early
<1>29. CASE PowerLoss
  <2>1. \A r \in Run : wpc'[r] \notin Early
    BY <1>29 DEF PowerLoss, Dead, Alive, TypeOK, Working, Early
  <2>. QED BY <2>1 DEF WriteInv, Early
<1>30. CASE Quiet \/ UNCHANGED vars
    BY <1>30, Alone DEF Quiet, vars, TypeOK, WriteInv, process, worker, names, disk, Working,
      Early
<1>. QED BY <1>1, <1>2, <1>3, <1>4, <1>5, <1>6, <1>7, <1>8, <1>9, <1>10, <1>11, <1>12, <1>13,
      <1>14, <1>15, <1>16, <1>17, <1>18, <1>19, <1>20, <1>21, <1>22, <1>23, <1>24, <1>25, <1>26,
      <1>27, <1>28, <1>29, <1>30 DEF Next, MainStep, WorkerStep

\* A step keeps the archive sound, also across a power loss.
LEMMA DiskStep ==
    TypeOK /\ WriteInv /\ DiskInv /\ DestSound /\ [Next]_vars => DiskInv' /\ DestSound'
<1> SUFFICES ASSUME TypeOK, WriteInv, DiskInv, DestSound, [Next]_vars PROVE DiskInv' /\ DestSound'
  OBVIOUS
<1> USE DEF disk, synced, crashes
<1>1. ASSUME NEW r \in Run, Refuse(r) PROVE DiskInv' /\ DestSound'
    BY <1>1 DEF Refuse, Leave, MainTo, LockFree, TypeOK, WriteInv, DiskInv, DestSound, names,
      disk, Early
<1>2. ASSUME NEW r \in Run, Acquire(r) PROVE DiskInv' /\ DestSound'
    BY <1>2 DEF Acquire, MainTo, LockFree, TypeOK, WriteInv, DiskInv, DestSound, names, disk,
      Early
<1>3. ASSUME NEW r \in Run, Repair(r) PROVE DiskInv' /\ DestSound'
    BY <1>3 DEF Repair, Leave, MainTo, TypeOK, WriteInv, DiskInv, DestSound, names, disk, Early
<1>4. ASSUME NEW r \in Run, Reseal(r) PROVE DiskInv' /\ DestSound'
    BY <1>4 DEF Reseal, Leave, MainTo, WriteSidecar, WriteBreaks, TypeOK, WriteInv, DiskInv,
      DestSound, names,
      disk, Early
<1>5. ASSUME NEW r \in Run, ResealPlace(r) PROVE DiskInv' /\ DestSound'
    BY <1>5 DEF ResealPlace, Leave, MainTo, PlaceSidecar, TypeOK, WriteInv, DiskInv, DestSound,
      names,
      disk, Early
<1>6. ASSUME NEW r \in Run, ResealSync(r) PROVE DiskInv' /\ DestSound'
    BY <1>6 DEF ResealSync, Leave, MainTo, SyncDirectory, TypeOK, WriteInv, DiskInv, DestSound,
      names,
      disk, Early
<1>7. ASSUME NEW r \in Run, Survey(r) PROVE DiskInv' /\ DestSound'
    BY <1>7 DEF Survey, Leave, MainTo, TypeOK, WriteInv, DiskInv, DestSound, names, disk, Early
<1>8. ASSUME NEW r \in Run, Collect(r) PROVE DiskInv' /\ DestSound'
    BY <1>8 DEF Collect, Leave, MainTo, TypeOK, WriteInv, DiskInv, DestSound, names, disk, Early
<1>9. ASSUME NEW r \in Run, CancelQueued(r) PROVE DiskInv' /\ DestSound'
    BY <1>9 DEF CancelQueued, Leave, MainTo, TypeOK, WriteInv, DiskInv, DestSound, names, disk,
      Early
<1>10. ASSUME NEW r \in Run, Abandon(r) PROVE DiskInv' /\ DestSound'
    BY <1>10 DEF Abandon, Leave, MainTo, TypeOK, WriteInv, DiskInv, DestSound, names, disk, Early
<1>11. ASSUME NEW r \in Run, Start(r) PROVE DiskInv' /\ DestSound'
    BY <1>11 DEF Start, WorkerAt, Settle, Go, TypeOK, WriteInv, DiskInv, DestSound, names, disk,
      Early
<1>12. ASSUME NEW r \in Run, Attempt(r) PROVE DiskInv' /\ DestSound'
    BY <1>12 DEF Attempt, WorkerAt, Unlinked, Go, TypeOK, WriteInv, DiskInv, DestSound, names,
      disk, Early
<1>13. ASSUME NEW r \in Run, Rejected(r) PROVE DiskInv' /\ DestSound'
    BY <1>13 DEF Rejected, WorkerAt, RetryOrFail, Settle, Go, TypeOK, WriteInv, DiskInv,
      DestSound, names, disk, Early
<1>14. ASSUME NEW r \in Run, Opened(r) PROVE DiskInv' /\ DestSound'
    BY <1>14 DEF Opened, WorkerAt, Settle, Go, TypeOK, WriteInv, DiskInv, DestSound, names,
      disk, Early
<1>15. ASSUME NEW r \in Run, Streamed(r) PROVE DiskInv' /\ DestSound'
    BY <1>15 DEF Streamed, WorkerAt, Written, Go, TypeOK, WriteInv, DiskInv, DestSound, names,
      disk, Early
<1>16. ASSUME NEW r \in Run, Broken(r) PROVE DiskInv' /\ DestSound'
    BY <1>16 DEF Broken, WorkerAt, RetryOrFail, Settle, Go, TypeOK, WriteInv, DiskInv,
      DestSound, names, disk, Early
<1>17. ASSUME NEW r \in Run, Blank(r) PROVE DiskInv' /\ DestSound'
    BY <1>17 DEF Blank, WorkerAt, Go, TypeOK, WriteInv, DiskInv, DestSound, names, disk, Early
<1>18. ASSUME NEW r \in Run, Fill(r) PROVE DiskInv' /\ DestSound'
    BY <1>18 DEF Fill, WorkerAt, Written, Go, TypeOK, WriteInv, DiskInv, DestSound, names, disk,
      Early
<1>19. ASSUME NEW r \in Run, Validate(r) PROVE DiskInv' /\ DestSound'
    BY <1>19 DEF Validate, WorkerAt, Settle, Go, TypeOK, WriteInv, DiskInv, DestSound, names,
      disk, Early
<1>20. ASSUME NEW r \in Run, Hash(r) PROVE DiskInv' /\ DestSound'
    BY <1>20 DEF Hash, WorkerAt, Forced, Settle, Go, TypeOK, WriteInv, DiskInv, DestSound,
      names, disk, Early
<1>21. ASSUME NEW r \in Run, Place(r) PROVE DiskInv' /\ DestSound'
  <2>1. CASE tmp = {}
    BY <1>21, <2>1 DEF Place, Settle, names, disk, WorkerAt, DiskInv, DestSound
  <2>2. CASE tmp # {}
    <3>1. dest = {} /\ dest' = tmp /\ UNCHANGED <<opt, data, hard, diskDest>>
      BY <1>21, <2>2 DEF Place, WorkerAt, WriteInv, Early, disk
    <3>2. \A i \in tmp : /\ data[i] \in Complete /\ i[1] = r
                         /\ opt[r].validate => data[i] # "wrong"
                         /\ opt[r].fsync => i \in hard
      BY <1>21 DEF Place, WorkerAt, WriteInv
    <3>3. DestSound'
      <4> SUFFICES ASSUME NEW i \in tmp
                   PROVE  \/ data[i] \in {"whole", "empty"}
                          \/ data[i] = "wrong" /\ ~opt[i[1]].validate
        BY <3>1 DEF DestSound
      <4>1. opt[i[1]] = opt[r]
        BY <3>2
      <4>. QED BY <3>2, <4>1 DEF Complete
    <3>4. DiskInv'
      <4> SUFFICES ASSUME NEW i \in tmp, opt[i[1]].fsync PROVE i \in hard
        BY <3>1 DEF DiskInv
      <4>1. opt[i[1]] = opt[r]
        BY <3>2
      <4>. QED BY <3>2, <4>1
    <3>. QED BY <3>3, <3>4
  <2>. QED BY <2>1, <2>2
<1>22. ASSUME NEW r \in Run, DirSync(r) PROVE DiskInv' /\ DestSound'
    BY <1>22 DEF DirSync, WorkerAt, SyncDirectory, SealOrEnd, Verdict, Settle, Go, TypeOK,
      WriteInv, DiskInv,
      DestSound, names, disk, Early
<1>23. ASSUME NEW r \in Run, Seal(r) PROVE DiskInv' /\ DestSound'
    BY <1>23 DEF Seal, WorkerAt, WriteSidecar, WriteBreaks, Settle, Go, TypeOK, WriteInv, DiskInv,
      DestSound, names, disk, Early
<1>24. ASSUME NEW r \in Run, SealPlace(r) PROVE DiskInv' /\ DestSound'
    BY <1>24 DEF SealPlace, WorkerAt, PlaceSidecar, Settle, Go, TypeOK, WriteInv, DiskInv,
      DestSound, names, disk, Early
<1>25. ASSUME NEW r \in Run, SealSync(r) PROVE DiskInv' /\ DestSound'
    BY <1>25 DEF SealSync, WorkerAt, SyncDirectory, Verdict, Settle, TypeOK, WriteInv, DiskInv,
      DestSound, names, disk, Early
<1>26. ASSUME NEW r \in Run, IoError(r) PROVE DiskInv' /\ DestSound'
    BY <1>26 DEF IoError, WorkerAt, Settle, TypeOK, WriteInv, DiskInv,
      DestSound, names, disk, Early
<1>27. ASSUME NEW r \in Run, Cleanup(r) PROVE DiskInv' /\ DestSound'
    BY <1>27 DEF Cleanup, WorkerAt, CleanTmp, Go, TypeOK, WriteInv, DiskInv, DestSound, names,
      disk, Early
<1>28. ASSUME NEW r \in Run, Kill(r) PROVE DiskInv' /\ DestSound'
    BY <1>28 DEF Kill, Dead, TypeOK, WriteInv, DiskInv, DestSound, names, disk, Early
<1>29. CASE PowerLoss
    BY <1>29 DEF PowerLoss, Dead, vars, TypeOK, WriteInv, DiskInv, DestSound, names, disk, Early
<1>30. CASE Quiet \/ UNCHANGED vars
    BY <1>30 DEF Quiet, vars, TypeOK, WriteInv, DiskInv, DestSound, names, disk, Early
<1>. QED BY <1>1, <1>2, <1>3, <1>4, <1>5, <1>6, <1>7, <1>8, <1>9, <1>10, <1>11, <1>12, <1>13,
      <1>14, <1>15, <1>16, <1>17, <1>18, <1>19, <1>20, <1>21, <1>22, <1>23, <1>24, <1>25, <1>26,
      <1>27, <1>28, <1>29, <1>30 DEF Next, MainStep, WorkerStep

\* A step leaves every name with one file.
LEMMA OneFileStep == DiskInv /\ OneFile /\ [Next]_vars => OneFile'
<1> SUFFICES ASSUME DiskInv, OneFile, [Next]_vars PROVE OneFile'
  OBVIOUS
<1> USE DEF disk, synced, crashes
<1>1. ASSUME NEW r \in Run, Refuse(r) PROVE OneFile'
    BY <1>1 DEF Refuse, Leave, MainTo, LockFree, OneFile, names
<1>2. ASSUME NEW r \in Run, Acquire(r) PROVE OneFile'
    BY <1>2 DEF Acquire, MainTo, LockFree, OneFile, names
<1>3. ASSUME NEW r \in Run, Repair(r) PROVE OneFile'
    BY <1>3 DEF Repair, Leave, MainTo, OneFile, names
<1>4. ASSUME NEW r \in Run, Reseal(r) PROVE OneFile'
    BY <1>4 DEF Reseal, Leave, MainTo, WriteSidecar, WriteBreaks, OneFile, names
<1>5. ASSUME NEW r \in Run, ResealPlace(r) PROVE OneFile'
    BY <1>5 DEF ResealPlace, Leave, MainTo, PlaceSidecar, OneFile, names
<1>6. ASSUME NEW r \in Run, ResealSync(r) PROVE OneFile'
    BY <1>6 DEF ResealSync, Leave, MainTo, SyncDirectory, OneFile, names
<1>7. ASSUME NEW r \in Run, Survey(r) PROVE OneFile'
    BY <1>7 DEF Survey, Leave, MainTo, OneFile, names
<1>8. ASSUME NEW r \in Run, Collect(r) PROVE OneFile'
    BY <1>8 DEF Collect, Leave, MainTo, OneFile, names
<1>9. ASSUME NEW r \in Run, CancelQueued(r) PROVE OneFile'
    BY <1>9 DEF CancelQueued, Leave, MainTo, OneFile, names
<1>10. ASSUME NEW r \in Run, Abandon(r) PROVE OneFile'
    BY <1>10 DEF Abandon, Leave, MainTo, OneFile, names
<1>11. ASSUME NEW r \in Run, Start(r) PROVE OneFile'
    BY <1>11 DEF Start, WorkerAt, Settle, Go, OneFile, names
<1>12. ASSUME NEW r \in Run, Attempt(r) PROVE OneFile'
    BY <1>12 DEF Attempt, WorkerAt, Unlinked, Go, OneFile, names
<1>13. ASSUME NEW r \in Run, Rejected(r) PROVE OneFile'
    BY <1>13 DEF Rejected, WorkerAt, RetryOrFail, Settle, Go, OneFile, names
<1>14. ASSUME NEW r \in Run, Opened(r) PROVE OneFile'
    BY <1>14 DEF Opened, WorkerAt, Settle, Go, OneFile, names
<1>15. ASSUME NEW r \in Run, Streamed(r) PROVE OneFile'
    BY <1>15 DEF Streamed, WorkerAt, Written, Go, OneFile, names
<1>16. ASSUME NEW r \in Run, Broken(r) PROVE OneFile'
    BY <1>16 DEF Broken, WorkerAt, RetryOrFail, Settle, Go, OneFile, names
<1>17. ASSUME NEW r \in Run, Blank(r) PROVE OneFile'
    BY <1>17 DEF Blank, WorkerAt, Go, OneFile, names
<1>18. ASSUME NEW r \in Run, Fill(r) PROVE OneFile'
    BY <1>18 DEF Fill, WorkerAt, Written, Go, OneFile, names
<1>19. ASSUME NEW r \in Run, Validate(r) PROVE OneFile'
    BY <1>19 DEF Validate, WorkerAt, Settle, Go, OneFile, names
<1>20. ASSUME NEW r \in Run, Hash(r) PROVE OneFile'
    BY <1>20 DEF Hash, WorkerAt, Forced, Settle, Go, OneFile, names
<1>21. ASSUME NEW r \in Run, Place(r) PROVE OneFile'
    BY <1>21 DEF Place, WorkerAt, Settle, Go, OneFile, names
<1>22. ASSUME NEW r \in Run, DirSync(r) PROVE OneFile'
    BY <1>22 DEF DirSync, WorkerAt, SyncDirectory, SealOrEnd, Verdict, Settle, Go, OneFile, names
<1>23. ASSUME NEW r \in Run, Seal(r) PROVE OneFile'
    BY <1>23 DEF Seal, WorkerAt, WriteSidecar, WriteBreaks, Settle, Go, OneFile, names
<1>24. ASSUME NEW r \in Run, SealPlace(r) PROVE OneFile'
    BY <1>24 DEF SealPlace, WorkerAt, PlaceSidecar, Settle, Go, OneFile, names
<1>25. ASSUME NEW r \in Run, SealSync(r) PROVE OneFile'
    BY <1>25 DEF SealSync, WorkerAt, SyncDirectory, Verdict, Settle, OneFile, names
<1>26. ASSUME NEW r \in Run, IoError(r) PROVE OneFile'
    BY <1>26 DEF IoError, WorkerAt, Settle, OneFile, names
<1>27. ASSUME NEW r \in Run, Cleanup(r) PROVE OneFile'
    BY <1>27 DEF Cleanup, WorkerAt, CleanTmp, Go, OneFile, names
<1>28. ASSUME NEW r \in Run, Kill(r) PROVE OneFile'
    BY <1>28 DEF Kill, Dead, OneFile, names
<1>29. CASE PowerLoss
  BY <1>29 DEF PowerLoss, DiskInv, OneFile
<1>30. CASE Quiet \/ UNCHANGED vars
    BY <1>30 DEF Quiet, vars, OneFile, names
<1>. QED BY <1>1, <1>2, <1>3, <1>4, <1>5, <1>6, <1>7, <1>8, <1>9, <1>10, <1>11, <1>12, <1>13,
      <1>14, <1>15, <1>16, <1>17, <1>18, <1>19, <1>20, <1>21, <1>22, <1>23, <1>24, <1>25, <1>26,
      <1>27, <1>28, <1>29, <1>30 DEF Next, MainStep, WorkerStep

-----------------------------------------------------------------------------
(* The abstract store *)

Kept == dest = diskDest /\ dest \subseteq hard

\* A name that is one file has that file's content.
LEMMA FileOfOne == \A i : FileOf({i}) = data[i]
<1> SUFFICES ASSUME NEW i PROVE (CHOOSE j \in {i} : TRUE) = i
  BY DEF FileOf
<1>. QED OBVIOUS

\* A step that leaves the name and its file's content leaves the store's file.
LEMMA FileKept ==
    ASSUME dest' = dest, \A i \in dest : data'[i] = data[i], OneFile
    PROVE  FileOf(dest)' = FileOf(dest)
<1>1. CASE dest = {}
  BY <1>1 DEF FileOf
<1>2. CASE dest # {}
  <2>1. PICK i \in dest : TRUE
    BY <1>2
  <2>2. dest = {i}
    BY <2>1 DEF OneFile
  <2>3. (CHOOSE j \in dest : TRUE) \in dest
    BY <1>2
  <2>. QED BY <1>2, <2>3 DEF FileOf
<1>. QED BY <1>1, <1>2

\* Every step is a step of the store, or none of its business.
LEMMA StoreStep == IInv /\ WorkersOutlive = FALSE /\ [Next]_vars => [Store!Next]_(Store!store)
<1> SUFFICES ASSUME IInv, WorkersOutlive = FALSE, [Next]_vars PROVE [Store!Next]_(Store!store)
  OBVIOUS
<1> USE DEF disk, synced, crashes
<1>a. ASSUME dest' = dest, \A i \in dest : data'[i] = data[i],
             (Kept <=> Kept') \/ Kept' PROVE [Store!Next]_(Store!store)
  <2>1. FileOf(dest)' = FileOf(dest)
    BY <1>a, FileKept DEF IInv
  <2>. QED BY <1>a, <2>1 DEF Store!Next, Store!store, Store!Persist, Kept
<1>1. ASSUME NEW r \in Run, Refuse(r) PROVE [Store!Next]_(Store!store)
  <2>1. dest' = dest /\ (\A i \in dest : data'[i] = data[i]) /\ ((Kept <=> Kept') \/ Kept')
    BY <1>1 DEF Refuse, Leave, MainTo, LockFree, IInv, WriteInv, names, disk, Early, Kept
  <2>. QED BY <2>1, <1>a
<1>2. ASSUME NEW r \in Run, Acquire(r) PROVE [Store!Next]_(Store!store)
  <2>1. dest' = dest /\ (\A i \in dest : data'[i] = data[i]) /\ ((Kept <=> Kept') \/ Kept')
    BY <1>2 DEF Acquire, MainTo, LockFree, IInv, WriteInv, names, disk, Early, Kept
  <2>. QED BY <2>1, <1>a
<1>3. ASSUME NEW r \in Run, Repair(r) PROVE [Store!Next]_(Store!store)
  <2>1. dest' = dest /\ (\A i \in dest : data'[i] = data[i]) /\ ((Kept <=> Kept') \/ Kept')
    BY <1>3 DEF Repair, Leave, MainTo, IInv, WriteInv, names, disk, Early, Kept
  <2>. QED BY <2>1, <1>a
<1>4. ASSUME NEW r \in Run, Reseal(r) PROVE [Store!Next]_(Store!store)
  <2>1. dest' = dest /\ (\A i \in dest : data'[i] = data[i]) /\ ((Kept <=> Kept') \/ Kept')
    BY <1>4 DEF Reseal, Leave, MainTo, WriteSidecar, WriteBreaks, IInv, WriteInv, names, disk,
      Early, Kept
  <2>. QED BY <2>1, <1>a
<1>5. ASSUME NEW r \in Run, ResealPlace(r) PROVE [Store!Next]_(Store!store)
  <2>1. dest' = dest /\ (\A i \in dest : data'[i] = data[i]) /\ ((Kept <=> Kept') \/ Kept')
    BY <1>5 DEF ResealPlace, Leave, MainTo, PlaceSidecar, IInv, WriteInv, names, disk, Early, Kept
  <2>. QED BY <2>1, <1>a
<1>6. ASSUME NEW r \in Run, ResealSync(r) PROVE [Store!Next]_(Store!store)
  <2>1. dest' = dest /\ (\A i \in dest : data'[i] = data[i]) /\ ((Kept <=> Kept') \/ Kept')
    BY <1>6 DEF ResealSync, Leave, MainTo, SyncDirectory, IInv, WriteInv, names, disk, Early, Kept
  <2>. QED BY <2>1, <1>a
<1>7. ASSUME NEW r \in Run, Survey(r) PROVE [Store!Next]_(Store!store)
  <2>1. dest' = dest /\ (\A i \in dest : data'[i] = data[i]) /\ ((Kept <=> Kept') \/ Kept')
    BY <1>7 DEF Survey, Leave, MainTo, IInv, WriteInv, names, disk, Early, Kept
  <2>. QED BY <2>1, <1>a
<1>8. ASSUME NEW r \in Run, Collect(r) PROVE [Store!Next]_(Store!store)
  <2>1. dest' = dest /\ (\A i \in dest : data'[i] = data[i]) /\ ((Kept <=> Kept') \/ Kept')
    BY <1>8 DEF Collect, Leave, MainTo, IInv, WriteInv, names, disk, Early, Kept
  <2>. QED BY <2>1, <1>a
<1>9. ASSUME NEW r \in Run, CancelQueued(r) PROVE [Store!Next]_(Store!store)
  <2>1. dest' = dest /\ (\A i \in dest : data'[i] = data[i]) /\ ((Kept <=> Kept') \/ Kept')
    BY <1>9 DEF CancelQueued, Leave, MainTo, IInv, WriteInv, names, disk, Early, Kept
  <2>. QED BY <2>1, <1>a
<1>10. ASSUME NEW r \in Run, Abandon(r) PROVE [Store!Next]_(Store!store)
  <2>1. dest' = dest /\ (\A i \in dest : data'[i] = data[i]) /\ ((Kept <=> Kept') \/ Kept')
    BY <1>10 DEF Abandon, Leave, MainTo, IInv, WriteInv, names, disk, Early, Kept
  <2>. QED BY <2>1, <1>a
<1>11. ASSUME NEW r \in Run, Start(r) PROVE [Store!Next]_(Store!store)
  <2>1. dest' = dest /\ (\A i \in dest : data'[i] = data[i]) /\ ((Kept <=> Kept') \/ Kept')
    BY <1>11 DEF Start, WorkerAt, Settle, Go, IInv, WriteInv, names, disk, Early, Kept
  <2>. QED BY <2>1, <1>a
<1>12. ASSUME NEW r \in Run, Attempt(r) PROVE [Store!Next]_(Store!store)
  <2>1. dest' = dest /\ (\A i \in dest : data'[i] = data[i]) /\ ((Kept <=> Kept') \/ Kept')
    BY <1>12 DEF Attempt, WorkerAt, Unlinked, Go, IInv, WriteInv, names, disk, Early, Kept
  <2>. QED BY <2>1, <1>a
<1>13. ASSUME NEW r \in Run, Rejected(r) PROVE [Store!Next]_(Store!store)
  <2>1. dest' = dest /\ (\A i \in dest : data'[i] = data[i]) /\ ((Kept <=> Kept') \/ Kept')
    BY <1>13 DEF Rejected, WorkerAt, RetryOrFail, Settle, Go, IInv, WriteInv, names, disk, Early,
      Kept
  <2>. QED BY <2>1, <1>a
<1>14. ASSUME NEW r \in Run, Opened(r) PROVE [Store!Next]_(Store!store)
  <2>1. dest' = dest /\ (\A i \in dest : data'[i] = data[i]) /\ ((Kept <=> Kept') \/ Kept')
    BY <1>14 DEF Opened, WorkerAt, Settle, Go, IInv, WriteInv, names, disk, Early, Kept
  <2>. QED BY <2>1, <1>a
<1>15. ASSUME NEW r \in Run, Streamed(r) PROVE [Store!Next]_(Store!store)
  <2>1. dest' = dest /\ (\A i \in dest : data'[i] = data[i]) /\ ((Kept <=> Kept') \/ Kept')
    BY <1>15 DEF Streamed, WorkerAt, Written, Go, IInv, WriteInv, names, disk, Early, Kept
  <2>. QED BY <2>1, <1>a
<1>16. ASSUME NEW r \in Run, Broken(r) PROVE [Store!Next]_(Store!store)
  <2>1. dest' = dest /\ (\A i \in dest : data'[i] = data[i]) /\ ((Kept <=> Kept') \/ Kept')
    BY <1>16 DEF Broken, WorkerAt, RetryOrFail, Settle, Go, IInv, WriteInv, names, disk, Early,
      Kept
  <2>. QED BY <2>1, <1>a
<1>17. ASSUME NEW r \in Run, Blank(r) PROVE [Store!Next]_(Store!store)
  <2>1. dest' = dest /\ (\A i \in dest : data'[i] = data[i]) /\ ((Kept <=> Kept') \/ Kept')
    BY <1>17 DEF Blank, WorkerAt, Go, IInv, WriteInv, names, disk, Early, Kept
  <2>. QED BY <2>1, <1>a
<1>18. ASSUME NEW r \in Run, Fill(r) PROVE [Store!Next]_(Store!store)
  <2>1. dest' = dest /\ (\A i \in dest : data'[i] = data[i]) /\ ((Kept <=> Kept') \/ Kept')
    BY <1>18 DEF Fill, WorkerAt, Written, Go, IInv, WriteInv, names, disk, Early, Kept
  <2>. QED BY <2>1, <1>a
<1>19. ASSUME NEW r \in Run, Validate(r) PROVE [Store!Next]_(Store!store)
  <2>1. dest' = dest /\ (\A i \in dest : data'[i] = data[i]) /\ ((Kept <=> Kept') \/ Kept')
    BY <1>19 DEF Validate, WorkerAt, Settle, Go, IInv, WriteInv, names, disk, Early, Kept
  <2>. QED BY <2>1, <1>a
<1>20. ASSUME NEW r \in Run, Hash(r) PROVE [Store!Next]_(Store!store)
  <2>1. dest' = dest /\ (\A i \in dest : data'[i] = data[i]) /\ ((Kept <=> Kept') \/ Kept')
    BY <1>20 DEF Hash, WorkerAt, Forced, Settle, Go, IInv, WriteInv, names, disk, Early, Kept
  <2>. QED BY <2>1, <1>a
<1>21. ASSUME NEW r \in Run, Place(r) PROVE [Store!Next]_(Store!store)
  <2>1. CASE tmp = {}
    BY <1>21, <2>1, <1>a DEF Place, Settle, WorkerAt, disk, Kept
  <2>2. CASE tmp # {}
    <3>1. dest = {} /\ dest' = tmp /\ data' = data
      BY <1>21, <2>2 DEF Place, WorkerAt, IInv, WriteInv, Early, disk
    <3>2. PICK i \in tmp : tmp = {i}
      BY <2>2 DEF IInv, OneFile
    <3>3. data[i] \in Complete
      BY <1>21 DEF Place, WorkerAt, IInv, WriteInv
    <3>4. FileOf(dest) = "absent" /\ FileOf(dest)' = data[i]
      BY <3>1, <3>2 DEF FileOf
    <3>. QED BY <3>3, <3>4 DEF Store!Next, Store!Place
  <2>. QED BY <2>1, <2>2
<1>22. ASSUME NEW r \in Run, DirSync(r) PROVE [Store!Next]_(Store!store)
  <2>1. dest' = dest /\ (\A i \in dest : data'[i] = data[i]) /\ ((Kept <=> Kept') \/ Kept')
    BY <1>22 DEF DirSync, WorkerAt, SyncDirectory, SealOrEnd, Verdict, Settle, Go, IInv, WriteInv,
      names, disk,
      Early, Kept
  <2>. QED BY <2>1, <1>a
<1>23. ASSUME NEW r \in Run, Seal(r) PROVE [Store!Next]_(Store!store)
  <2>1. dest' = dest /\ (\A i \in dest : data'[i] = data[i]) /\ ((Kept <=> Kept') \/ Kept')
    BY <1>23 DEF Seal, WorkerAt, WriteSidecar, WriteBreaks, Settle, Go, IInv, WriteInv, names,
      disk, Early,
      Kept
  <2>. QED BY <2>1, <1>a
<1>24. ASSUME NEW r \in Run, SealPlace(r) PROVE [Store!Next]_(Store!store)
  <2>1. dest' = dest /\ (\A i \in dest : data'[i] = data[i]) /\ ((Kept <=> Kept') \/ Kept')
    BY <1>24 DEF SealPlace, WorkerAt, PlaceSidecar, Settle, Go, IInv, WriteInv, names, disk,
      Early,
      Kept
  <2>. QED BY <2>1, <1>a
<1>25. ASSUME NEW r \in Run, SealSync(r) PROVE [Store!Next]_(Store!store)
  <2>1. dest' = dest /\ (\A i \in dest : data'[i] = data[i]) /\ ((Kept <=> Kept') \/ Kept')
    BY <1>25 DEF SealSync, WorkerAt, SyncDirectory, Verdict, Settle, IInv, WriteInv, names, disk,
      Early,
      Kept
  <2>. QED BY <2>1, <1>a
<1>26. ASSUME NEW r \in Run, IoError(r) PROVE [Store!Next]_(Store!store)
  <2>1. dest' = dest /\ (\A i \in dest : data'[i] = data[i]) /\ ((Kept <=> Kept') \/ Kept')
    BY <1>26 DEF IoError, WorkerAt, Settle, IInv, WriteInv, names, disk, Early,
      Kept
  <2>. QED BY <2>1, <1>a
<1>27. ASSUME NEW r \in Run, Cleanup(r) PROVE [Store!Next]_(Store!store)
  <2>1. dest' = dest /\ (\A i \in dest : data'[i] = data[i]) /\ ((Kept <=> Kept') \/ Kept')
    BY <1>27 DEF Cleanup, WorkerAt, CleanTmp, Go, IInv, WriteInv, names, disk, Early, Kept
  <2>. QED BY <2>1, <1>a
<1>28. ASSUME NEW r \in Run, Kill(r) PROVE [Store!Next]_(Store!store)
  <2>1. dest' = dest /\ (\A i \in dest : data'[i] = data[i]) /\ ((Kept <=> Kept') \/ Kept')
    BY <1>28 DEF Kill, Dead, IInv, WriteInv, names, disk, Early, Kept
  <2>. QED BY <2>1, <1>a
<1>29. CASE PowerLoss
  <2>1. Kept' /\ dest' \in {dest, diskDest} /\ diskDest \subseteq dest
    BY <1>29 DEF PowerLoss, IInv, DiskInv, Kept
  <2>2. \A i \in dest : data'[i] = data[i] \/ (data'[i] = "torn" /\ i \notin hard)
    BY <1>29 DEF PowerLoss, IInv, TypeOK
  <2>3. CASE Kept
    BY <2>1, <2>2, <2>3, <1>a DEF Kept
  <2>4. CASE ~Kept
    <3>1. dest' = {} \/ dest' = dest
      BY <2>1 DEF IInv, OneFile
    <3>2. CASE dest' = {}
      BY <2>1, <2>4, <3>2 DEF FileOf, Kept, Store!Next, Store!PowerLoss
    <3>3. CASE dest' = dest /\ dest # {}
      <4>1. PICK i \in dest : dest = {i}
        BY <3>3 DEF IInv, OneFile
      <4>2. FileOf(dest)' \in {FileOf(dest), "torn"}
        BY <2>2, <3>3, <4>1 DEF FileOf
      <4>. QED BY <2>1, <2>4, <4>2 DEF Kept, Store!Next, Store!PowerLoss
    <3>. QED BY <3>1, <3>2, <3>3
  <2>. QED BY <2>3, <2>4
<1>30. CASE Quiet \/ UNCHANGED vars
  <2>1. dest' = dest /\ (\A i \in dest : data'[i] = data[i]) /\ ((Kept <=> Kept') \/ Kept')
    BY <1>30 DEF Quiet, vars, names, disk, Kept
  <2>. QED BY <2>1, <1>a
<1>. QED BY <1>1, <1>2, <1>3, <1>4, <1>5, <1>6, <1>7, <1>8, <1>9, <1>10, <1>11, <1>12, <1>13,
      <1>14, <1>15, <1>16, <1>17, <1>18, <1>19, <1>20, <1>21, <1>22, <1>23, <1>24, <1>25, <1>26,
      <1>27, <1>28, <1>29, <1>30 DEF Next, MainStep, WorkerStep

-----------------------------------------------------------------------------
(* The theorems *)

\* The runs start in the invariant.
LEMMA InvInit == Init => IInv
<1> SUFFICES ASSUME Init PROVE IInv
  OBVIOUS
<1>1. TypeOK
  <2>1. 0 \in 0..MaxAttempts
    BY ArchiveAssumption
  <2>. QED BY <2>1 DEF Init, TypeOK, Content, Working, MainState, Outcome, WorkerOutcome
<1>2. AttemptInv /\ LockInv /\ WriteInv
  BY DEF Init, AttemptInv, LockInv, WriteInv, Working, Early, Before
<1>3. DiskInv /\ DestSound /\ OneFile
  BY DEF Init, DiskInv, DestSound, OneFile
<1>. QED BY <1>1, <1>2, <1>3 DEF IInv

\* While no worker outlives the lock, every step keeps the invariant.
LEMMA InvStep == WorkersOutlive = FALSE /\ IInv /\ [Next]_vars => IInv'
BY TypeStep, AttemptStep, LockStep, WriteStep, DiskStep, OneFileStep DEF IInv

\* The variables keep their types, whatever outlives what.
THEOREM TypesCorrect == Spec => []TypeOK
<1>1. Init => TypeOK /\ AttemptInv
  BY InvInit DEF IInv
<1>2. TypeOK /\ AttemptInv /\ [Next]_vars => TypeOK' /\ AttemptInv'
  BY TypeStep, AttemptStep
<1>. QED BY <1>1, <1>2, PTL DEF Spec

\* The invariant holds.
LEMMA Invariant == ASSUME WorkersOutlive = FALSE PROVE Spec => []IInv
<1>1. IInv /\ [Next]_vars => IInv'
  BY InvStep
<1>. QED BY InvInit, <1>1, PTL DEF Spec

\* Only the holder of the run lock touches the partition, and there is but one.
THEOREM Exclusive == ASSUME WorkersOutlive = FALSE PROVE Spec => []WritersExclusive
<1>1. IInv => WritersExclusive
  BY DEF IInv, LockInv, WritersExclusive, Working
<1>. QED BY Invariant, <1>1, PTL

\* The SDK's exclusive open never meets a left-over file.
THEOREM NoCollision == ASSUME WorkersOutlive = FALSE PROVE Spec => []OpenNeverCollides
<1>1. IInv => OpenNeverCollides
  BY DEF IInv, WriteInv, OpenNeverCollides
<1>. QED BY Invariant, <1>1, PTL

\* The canonical name shows finished, validated files, torn only without fsync.
THEOREM DestIsSound == ASSUME WorkersOutlive = FALSE PROVE Spec => []DestSound
<1>1. IInv => DestSound
  BY DEF IInv
<1>. QED BY Invariant, <1>1, PTL

\* The partition is written once and stays, but for what a power loss takes.
THEOREM StoreImplemented == ASSUME WorkersOutlive = FALSE PROVE Spec => WrittenOnce
<1>1. Init => Store!Init
  BY DEF Init, Store!Init, FileOf
<1>2. IInv /\ [Next]_vars => [Store!Next]_(Store!store)
  BY StoreStep
<1>. QED BY Invariant, <1>1, <1>2, PTL DEF Spec, WrittenOnce, Store!Spec

-----------------------------------------------------------------------------
(* Nothing is left behind *)

Uncrashed == kills = 0 /\ losses = 0

\* A temporary file belongs to somebody who will rename or unlink it, even where workers
\* outlive their runs and take each other's files.
TmpInv == Uncrashed /\ tmp # {} => \E r \in Run : wpc[r] \in Early \cup {"cleanup"}

\* Somebody is about to rename a sidecar's, or has failed to.
Unsealed(r) == "unsealed" \in {out[r], result[r]}

SideTmpInv ==
    Uncrashed /\ sidetmp # {} =>
        \E r \in Run : wpc[r] = "sealplace" \/ main[r] = "resealplace" \/ Unsealed(r)

\* Results and outcomes are given once.
EndInv ==
    \A r \in Run :
        /\ main[r] # "done" => result[r] = "none"
        /\ wpc[r] \in (Working \ {"cleanup"}) \cup {"idle", "start"} => out[r] = "none"

\* A step that writes no temporary file and lets no worker go keeps it.
LEMMA TmpKept ==
    ASSUME TmpInv, tmp' \in {tmp, {}}, kills' = kills, losses' = losses,
           \A r \in Run : wpc[r] \in Early \cup {"cleanup"} => wpc'[r] \in Early \cup {"cleanup"}
    PROVE  TmpInv'
BY DEF TmpInv, Uncrashed

\* A crash ends what is claimed.
LEMMA CrashCounts ==
    TypeOK /\ ((\E r \in Run : Kill(r)) \/ PowerLoss) => ~Uncrashed'
<1> SUFFICES ASSUME TypeOK, (\E r \in Run : Kill(r)) \/ PowerLoss PROVE ~Uncrashed'
  OBVIOUS
<1>1. kills' = kills + 1 \/ losses' = losses + 1
  BY DEF Kill, PowerLoss
<1>. QED
  BY <1>1 DEF TypeOK, Uncrashed

\* Every step keeps it.
LEMMA TmpStep == TypeOK /\ AttemptInv /\ TmpInv /\ [Next]_vars => TmpInv'
<1> SUFFICES ASSUME TypeOK, AttemptInv, TmpInv, [Next]_vars PROVE TmpInv'
  OBVIOUS
<1> USE DEF crashes
<1>0. wpc \in [Run -> Working \cup {"idle", "start", "ended", "dead"}]
  BY DEF TypeOK
<1>1. ASSUME NEW r \in Run,
             \/ Refuse(r) \/ Acquire(r) \/ Repair(r) \/ Collect(r)
             \/ Reseal(r) \/ ResealPlace(r) \/ ResealSync(r)
      PROVE  TmpInv'
  BY <1>1, TmpKept DEF Refuse, Acquire, Repair, Collect, Reseal, ResealPlace, ResealSync, WriteSidecar,
     WriteBreaks, PlaceSidecar, SyncDirectory, worker, names
<1>2. ASSUME NEW r \in Run, Survey(r) \/ CancelQueued(r) \/ Abandon(r)
      PROVE  TmpInv'
  <2>1. Survey(r) => wpc[r] = "idle"
    BY DEF Survey, AttemptInv
  <2>2. /\ tmp' = tmp /\ kills' = kills /\ losses' = losses
        /\ wpc' = wpc \/ (wpc[r] \in {"idle", "start"} /\ \E to : wpc' = [wpc EXCEPT ![r] = to])
    <3>1. CASE Survey(r)
      BY <2>1, <3>1 DEF Survey, names
    <3>2. CASE CancelQueued(r)
      BY <3>2 DEF CancelQueued, names
    <3>3. CASE Abandon(r)
      <4>1. CASE wpc[r] = "start"
        BY <3>3, <4>1 DEF Abandon, names
      <4>2. CASE wpc[r] # "start"
        BY <1>0, <3>3, <4>2 DEF Abandon, names
      <4>. QED
        BY <4>1, <4>2
    <3>. QED
      BY <1>2, <3>1, <3>2, <3>3
  <2>. QED
    BY <1>0, <2>2, TmpKept DEF Early
<1>3. ASSUME NEW r \in Run, Start(r) \/ Attempt(r) \/ Rejected(r) \/ Streamed(r) \/ Broken(r)
      PROVE  TmpInv'
  BY <1>0, <1>3, TmpKept DEF Start, Attempt, Rejected, Streamed, Broken, RetryOrFail, WorkerAt, Go, Settle,
     Unlinked, names, Early
<1>4. ASSUME NEW r \in Run, Fill(r) \/ Validate(r) \/ Hash(r) \/ IoError(r)
      PROVE  TmpInv'
  BY <1>0, <1>4, TmpKept DEF Fill, Validate, Hash, IoError, WorkerAt, Go, Settle, names, Early
<1>5. ASSUME NEW r \in Run, DirSync(r) \/ Seal(r) \/ SealPlace(r) \/ SealSync(r)
      PROVE  TmpInv'
  BY <1>0, <1>5, TmpKept DEF DirSync, Seal, SealPlace, SealSync, SealOrEnd, SyncDirectory, WriteSidecar,
     WriteBreaks, PlaceSidecar, WorkerAt, Go, Settle, names, Early
<1>6. ASSUME NEW r \in Run, Opened(r) \/ Blank(r) \/ Place(r) \/ Cleanup(r)
      PROVE  TmpInv'
  <2>1. tmp' = {} \/ wpc'[r] \in Early \cup {"cleanup"}
    BY <1>0, <1>6 DEF Opened, Blank, Place, Cleanup, CleanTmp, WorkerAt, Go, Settle, Early
  <2>. QED
    BY <2>1 DEF TmpInv
<1>7. ASSUME (\E r \in Run : Kill(r)) \/ PowerLoss
      PROVE  TmpInv'
  BY <1>7, CrashCounts DEF TmpInv
<1>8. CASE Quiet \/ UNCHANGED vars
  BY <1>8, TmpKept DEF Quiet, vars, worker, names
<1>. QED
  BY <1>1, <1>2, <1>3, <1>4, <1>5, <1>6, <1>7, <1>8 DEF Next, MainStep, WorkerStep

\* A step gives results and outcomes once.
LEMMA EndStep == TypeOK /\ AttemptInv /\ EndInv /\ [Next]_vars => EndInv'
<1> SUFFICES ASSUME TypeOK, AttemptInv, EndInv, [Next]_vars PROVE EndInv'
  OBVIOUS
<1>0. /\ wpc \in [Run -> Working \cup {"idle", "start", "ended", "dead"}]
      /\ main \in [Run -> MainState] /\ result \in [Run -> Outcome] /\ out \in [Run -> WorkerOutcome]
  BY DEF TypeOK
<1>1. ASSUME NEW r \in Run, Refuse(r) \/ Acquire(r) \/ Repair(r) \/ Collect(r)
      PROVE  EndInv'
  BY <1>0, <1>1 DEF Refuse, Acquire, Repair, Collect, Leave, MainTo, worker, EndInv
<1>2. ASSUME NEW r \in Run, Reseal(r) \/ ResealPlace(r) \/ ResealSync(r)
      PROVE  EndInv'
  BY <1>0, <1>2 DEF Reseal, ResealPlace, ResealSync, Leave, MainTo, worker, EndInv
<1>3. ASSUME NEW r \in Run, Survey(r) \/ CancelQueued(r) \/ Abandon(r)
      PROVE  EndInv'
  <2>1. Survey(r) => wpc[r] = "idle"
    BY DEF Survey, AttemptInv
  <2>2. /\ out' = out /\ \A s \in Run : main'[s] # "done" => main[s] # "done" /\ result'[s] = result[s]
        /\ \A s \in Run : wpc'[s] = wpc[s] \/ wpc[s] \in {"idle", "start"}
    BY <1>0, <1>3, <2>1 DEF Survey, CancelQueued, Abandon, Leave, MainTo
  <2>. QED
    BY <2>2 DEF EndInv
<1>4. ASSUME NEW r \in Run, WorkerStep(r)
      PROVE  EndInv'
  <2>1. main' = main /\ result' = result /\ wpc[r] \in Working \cup {"start"}
    BY <1>4 DEF WorkerStep, Start, Attempt, Rejected, Opened, Streamed, Broken, Blank, Fill,
                Validate, Hash, Place, DirSync, Seal, SealPlace, SealSync, IoError, Cleanup,
                WorkerAt, Working, process
  <2>2. \/ \E to \in Working : Go(r, to) /\ (wpc[r] # "cleanup" \/ to = "cleanup")
        \/ Go(r, "ended")
        \/ \E to \in {"cleanup", "ended"}, o \in WorkerOutcome : Settle(r, to, o)
    BY <1>4 DEF WorkerStep, Start, Attempt, Rejected, Opened, Streamed, Broken, Blank, Fill,
                Validate, Hash, Place, DirSync, Seal, SealPlace, SealSync, IoError, Cleanup,
                RetryOrFail, SealOrEnd, Verdict, WorkerAt, Working, WorkerOutcome
  <2>3. \A s \in Run \ {r} : wpc'[s] = wpc[s] /\ out'[s] = out[s]
    BY <1>0, <2>2 DEF Go, Settle
  <2>4. wpc'[r] \in {"cleanup", "ended"} \/ (wpc[r] # "cleanup" /\ out'[r] = out[r])
    BY <1>0, <2>2 DEF Go, Settle
  <2>. QED
    BY <2>1, <2>3, <2>4 DEF EndInv, Working
<1>5. ASSUME NEW S \in SUBSET Run, Dead(S)
      PROVE  EndInv'
  BY <1>0, <1>5 DEF Dead, EndInv, Working
<1>6. CASE (\E r \in Run : Kill(r)) \/ PowerLoss
  BY <1>5, <1>6 DEF Kill, PowerLoss
<1>7. CASE Quiet \/ UNCHANGED vars
  BY <1>7 DEF Quiet, vars, process, worker, EndInv
<1>. QED
  BY <1>1, <1>2, <1>3, <1>4, <1>6, <1>7 DEF Next, MainStep

\* A step that leaves the sidecar's temporary file alone, or removes it, keeps what is known of
\* it unless somebody about to rename it goes on.
LEMMA SideTmpKept ==
    ASSUME SideTmpInv, sidetmp' \in {sidetmp, {}}, kills' = kills, losses' = losses,
           \A r \in Run : /\ wpc[r] = "sealplace" => wpc'[r] = "sealplace"
                          /\ main[r] = "resealplace" => main'[r] = "resealplace"
                          /\ Unsealed(r) => Unsealed(r)'
    PROVE  SideTmpInv'
BY DEF SideTmpInv, Uncrashed

\* Every step keeps it.
LEMMA SideTmpStep == TypeOK /\ AttemptInv /\ EndInv /\ SideTmpInv /\ [Next]_vars => SideTmpInv'
<1> SUFFICES ASSUME TypeOK, AttemptInv, EndInv, SideTmpInv, [Next]_vars PROVE SideTmpInv'
  OBVIOUS
<1> USE DEF crashes
<1>0. /\ wpc \in [Run -> Working \cup {"idle", "start", "ended", "dead"}]
      /\ main \in [Run -> MainState] /\ result \in [Run -> Outcome] /\ out \in [Run -> WorkerOutcome]
  BY DEF TypeOK
<1>1. ASSUME NEW r \in Run, Refuse(r) \/ Acquire(r) \/ Repair(r) \/ Collect(r) \/ ResealSync(r)
      PROVE  SideTmpInv'
  <2>1. main[r] # "done" /\ main[r] # "resealplace" /\ wpc' = wpc /\ out' = out
        /\ \A s \in Run \ {r} : main'[s] = main[s] /\ result'[s] = result[s]
    BY <1>0, <1>1 DEF Refuse, Acquire, Repair, Collect, ResealSync, Leave, MainTo, worker
  <2>2. sidetmp' \in {sidetmp, {}} /\ kills' = kills /\ losses' = losses
    BY <1>1 DEF Refuse, Acquire, Repair, Collect, ResealSync, SyncDirectory, names
  <2>3. \A s \in Run : Unsealed(s) => Unsealed(s)'
    BY <2>1 DEF Unsealed, EndInv
  <2>. QED
    BY <2>1, <2>2, <2>3, SideTmpKept
<1>2. ASSUME NEW r \in Run, Survey(r) \/ CancelQueued(r) \/ Abandon(r)
      PROVE  SideTmpInv'
  <2>0. Survey(r) => wpc[r] = "idle"
    BY DEF Survey, AttemptInv
  <2>1. /\ main[r] # "done" /\ main[r] # "resealplace" /\ out' = out
        /\ \A s \in Run \ {r} : main'[s] = main[s] /\ result'[s] = result[s]
        /\ \A s \in Run : wpc[s] = "sealplace" => wpc'[s] = "sealplace"
    BY <1>0, <1>2, <2>0 DEF Survey, CancelQueued, Abandon, Leave, MainTo
  <2>2. sidetmp' = sidetmp /\ kills' = kills /\ losses' = losses
    BY <1>2 DEF Survey, CancelQueued, Abandon, names
  <2>3. \A s \in Run : Unsealed(s) => Unsealed(s)'
    BY <2>1 DEF Unsealed, EndInv
  <2>. QED
    BY <2>1, <2>2, <2>3, SideTmpKept
<1>3. ASSUME NEW r \in Run, Reseal(r) \/ ResealPlace(r)
      PROVE  SideTmpInv'
  <2>1. \/ sidetmp' = {} \/ main'[r] = "resealplace" \/ result'[r] = "unsealed"
        \/ (Reseal(r) /\ Leave(r, "invalid") /\ UNCHANGED <<names, worker, kills, losses>>)
    BY <1>0, <1>3 DEF Reseal, ResealPlace, Leave, MainTo, PlaceSidecar
  <2>2. CASE Reseal(r) /\ Leave(r, "invalid") /\ UNCHANGED <<names, worker, kills, losses>>
    <3>1. /\ main[r] = "reseal" /\ \A s \in Run \ {r} : main'[s] = main[s] /\ result'[s] = result[s]
          /\ UNCHANGED <<sidetmp, wpc, out, kills, losses>>
      BY <1>0, <2>2 DEF Reseal, Leave, MainTo, names, worker
    <3>2. \A s \in Run : Unsealed(s) => Unsealed(s)'
      BY <3>1 DEF Unsealed, EndInv
    <3>. QED
      BY <3>1, <3>2, SideTmpKept
  <2>. QED
    BY <2>1, <2>2 DEF SideTmpInv, Unsealed
<1>4. ASSUME NEW r \in Run, Seal(r) \/ SealPlace(r)
      PROVE  SideTmpInv'
  <2>1. sidetmp' = {} \/ wpc'[r] = "sealplace" \/ out'[r] = "unsealed"
    BY <1>0, <1>4 DEF Seal, SealPlace, PlaceSidecar, Go, Settle
  <2>. QED
    BY <2>1 DEF SideTmpInv, Unsealed
<1>5. ASSUME NEW r \in Run,
             \/ Start(r) \/ Attempt(r) \/ Rejected(r) \/ Opened(r) \/ Streamed(r) \/ Broken(r)
             \/ Blank(r) \/ Fill(r) \/ Validate(r) \/ Hash(r) \/ Place(r) \/ DirSync(r)
             \/ SealSync(r) \/ IoError(r) \/ Cleanup(r)
      PROVE  SideTmpInv'
  <2>1. /\ main' = main /\ result' = result /\ kills' = kills /\ losses' = losses
        /\ sidetmp' = sidetmp
        /\ wpc[r] \in (Working \ {"sealplace"}) \cup {"start"}
    BY <1>5 DEF Start, Attempt, Rejected, Opened, Streamed, Broken, Blank, Fill,
                Validate, Hash, Place, DirSync, SyncDirectory, SealSync, IoError, Cleanup,
                WorkerAt, Working, process, names
  <2>2. /\ \A s \in Run \ {r} : wpc'[s] = wpc[s] /\ out'[s] = out[s]
        /\ out'[r] = out[r] \/ wpc[r] # "cleanup"
    BY <1>0, <1>5 DEF Start, Attempt, Rejected, Opened, Streamed, Broken, Blank, Fill,
                Validate, Hash, Place, DirSync, SealSync, IoError, Cleanup,
                RetryOrFail, SealOrEnd, WorkerAt, Go, Settle
  <2>3. \A s \in Run : Unsealed(s) => Unsealed(s)'
    BY <2>1, <2>2 DEF Unsealed, EndInv
  <2>. QED
    BY <2>1, <2>2, <2>3, SideTmpKept
<1>6. ASSUME (\E r \in Run : Kill(r)) \/ PowerLoss
      PROVE  SideTmpInv'
  BY <1>6, CrashCounts DEF SideTmpInv
<1>7. CASE Quiet \/ UNCHANGED vars
  BY <1>7, SideTmpKept DEF Quiet, vars, process, worker, names, Unsealed
<1>. QED
  BY <1>1, <1>2, <1>3, <1>4, <1>5, <1>6, <1>7 DEF Next, MainStep, WorkerStep

\* When everyone is gone and nobody was killed the partition's temporary file is gone, even
\* where workers outlive the lock, and a sidecar's is left only by a run that failed to seal.
THEOREM FailuresLeaveNothing == Spec => []FailuresClean
<1> DEFINE J == TypeOK /\ AttemptInv /\ TmpInv /\ EndInv /\ SideTmpInv
<1>1. Init => J
  BY InvInit DEF IInv, Init, TmpInv, EndInv, SideTmpInv
<1>2. J /\ [Next]_vars => J'
  BY TypeStep, AttemptStep, TmpStep, EndStep, SideTmpStep
<1>3. J => FailuresClean
  BY DEF TmpInv, SideTmpInv, Unsealed, Uncrashed, FailuresClean, Alive, Early, Working, AttemptInv
<1>. QED
  BY <1>1, <1>2, <1>3, PTL DEF Spec

-----------------------------------------------------------------------------
(* Sidecars *)

\* The steps of _stream_one after the rename, and what the main thread does to seal.
Late == {"dirsync", "seal", "sealplace", "sealsync"}
Resealing == {"resealplace", "resealsync"}

\* What a worker has computed is the digest of what it renames and then seals; a sidecar about
\* to be renamed, and one that was, state the digest of the file in place.
SealInv ==
    \A r \in Run :
        /\ wpc[r] = "place" /\ opt[r].sidecars => digest[r] = DigestOf(tmp)
        /\ wpc[r] \in Late =>
               /\ dest # {}
               /\ opt[r].sidecars => digest[r] = DigestOf(dest)
               /\ opt[r].fsync => dest \subseteq hard
        /\ wpc[r] \in Late \ {"dirsync"} => opt[r].sidecars
        /\ wpc[r] = "sealplace" \/ main[r] = "resealplace" => sidetmp = DigestOf(dest)
        /\ wpc[r] = "sealsync" \/ main[r] = "resealsync" => side = DigestOf(dest)
        /\ wpc[r] = "sealsync" /\ opt[r].fsync => sideHard

\* While every run forces what it writes and is let finish, a sidecar is on disk only when
\* its file is, and the file's name waits for the disk only while its worker is about to sync.
ForceInv ==
    Forcing => /\ side # {} => sideHard /\ dest = diskDest
               /\ diskSide = {} \/ diskSide = side
               /\ dest # diskDest => \E r \in Run : wpc[r] = "dirsync"

\* One worker at a time, and none while the main thread of another run is under way.
LEMMA OneWorker ==
    ASSUME IInv
    PROVE  /\ \A r, s \in Run : wpc[r] \in Working /\ wpc[s] \in Working => r = s
           /\ \A r, s \in Run : main[r] \in Before \ {"idle"} => wpc[s] \notin Working \cup {"start"}
           /\ \A r, s \in Run : main[r] \in Before \ {"idle"} /\ main[s] \in Before \ {"idle"} => r = s
           /\ lock = {} => \A s \in Run : wpc[s] \notin Working /\ main[s] \in {"idle", "done"}
<1>1. \A s \in Run : wpc[s] \in Working \cup {"start"} => s \in lock /\ main[s] = "download"
  BY DEF IInv, LockInv
<1>2. \A r \in Run : main[r] \notin {"idle", "done"} => r \in lock
  BY DEF IInv, LockInv
<1>3. \A r, s \in lock : r = s
  BY DEF IInv, LockInv
<1>. QED
  BY <1>1, <1>2, <1>3 DEF Before

\* A step that leaves the partition's files alone keeps what is known of its sidecar.
LEMMA SealKept ==
    ASSUME SealInv, SidecarTruthful, ForceInv,
           UNCHANGED <<opt, dest, side, data, digest, hard, synced, kills, losses>>,
           \A r \in Run : wpc'[r] \in Late \cup {"place"} => wpc'[r] = wpc[r] /\ tmp' = tmp,
           \A r \in Run : main'[r] \in Resealing => main'[r] = main[r],
           \A r \in Run : wpc'[r] = "sealplace" \/ main'[r] = "resealplace" => sidetmp' = sidetmp,
           \A r \in Run : wpc[r] = "dirsync" => wpc'[r] = "dirsync"
    PROVE  SealInv' /\ SidecarTruthful' /\ ForceInv'
<1>1. DigestOf(dest)' = DigestOf(dest) /\ (tmp' = tmp => DigestOf(tmp)' = DigestOf(tmp))
  BY DEF DigestOf
<1>2. /\ diskDest' = diskDest /\ diskSide' = diskSide /\ skipped' = skipped
      /\ sideHard' = sideHard
  BY DEF synced
<1>3. SealInv'
  BY <1>1, <1>2 DEF SealInv, Late, Resealing
<1>4. Forcing' <=> Forcing
  BY <1>2 DEF Forcing
<1>5. SidecarTruthful'
  BY <1>1, <1>4 DEF SidecarTruthful
<1>6. ForceInv'
  BY <1>2, <1>4 DEF ForceInv
<1>. QED
  BY <1>3, <1>5, <1>6

\* While a file is written there is none under the canonical name and no sidecar to lie.
LEMMA SealWritten ==
    ASSUME IInv, SealInv, SidecarTruthful, ForceInv,
           UNCHANGED <<opt, dest, side, synced, kills, losses>>, dest = {},
           \A r \in Run : wpc'[r] \notin Late \cup {"place"} /\ main'[r] \notin Resealing
    PROVE  SealInv' /\ SidecarTruthful' /\ ForceInv'
<1>1. DigestOf(dest) = {} /\ DigestOf(dest)' = {}
  BY DEF DigestOf
<1>2. SealInv'
  BY DEF SealInv, Late, Resealing
<1>3. /\ diskDest' = diskDest /\ diskSide' = diskSide /\ skipped' = skipped
      /\ sideHard' = sideHard /\ dest = diskDest
  BY DEF synced, IInv, DiskInv
<1>4. Forcing' <=> Forcing
  BY <1>3 DEF Forcing
<1>5. SidecarTruthful'
  BY <1>1, <1>4 DEF SidecarTruthful
<1>6. ForceInv'
  BY <1>3, <1>4 DEF ForceInv
<1>. QED
  BY <1>2, <1>5, <1>6

\* A sync of the directory fixes its names, or the run has skipped one.
LEMMA ForceSynced ==
    ASSUME TypeOK, ForceInv, NEW r \in Run, SyncDirectory(r), opt' = opt, kills' = kills
    PROVE  ForceInv'
<1>1. CASE ~Forcing'
  BY <1>1 DEF ForceInv
<1>2. CASE Forcing'
  <2>1. opt[r].fsync /\ ~skipped'[r]
    BY <1>2 DEF Forcing
  <2>2. diskDest' = dest /\ diskSide' = side /\ skipped' = skipped
    BY <2>1 DEF SyncDirectory, TypeOK
  <2>3. Forcing /\ dest' = dest /\ side' = side /\ sideHard' = sideHard
    BY <1>2, <2>2 DEF Forcing, SyncDirectory, names
  <2>. QED
    BY <2>2, <2>3 DEF ForceInv
<1>. QED
  BY <1>1, <1>2

\* A sidecar is renamed into place beside the file whose digest it states.
LEMMA ForcePlaced ==
    ASSUME IInv, SidecarTruthful, ForceInv, NEW r \in Run, PlaceSidecar(r), opt' = opt,
           kills' = kills, losses' = losses, sidetmp = DigestOf(dest),
           \A s \in Run : wpc[s] # "dirsync"
    PROVE  SidecarTruthful' /\ ForceInv'
<1>1. /\ side' = DigestOf(dest) /\ (sideHard' <=> opt[r].fsync)
      /\ UNCHANGED <<dest, data, diskDest, diskSide, skipped>>
  BY DEF PlaceSidecar
<1>2. DigestOf(dest)' = DigestOf(dest)
  BY <1>1 DEF DigestOf
<1>3. Forcing' <=> Forcing
  BY <1>1 DEF Forcing
<1>4. SidecarTruthful'
  BY <1>1, <1>2 DEF SidecarTruthful
<1>5. ASSUME Forcing
      PROVE  sideHard' /\ dest = diskDest /\ (diskSide = {} \/ diskSide = side')
  <2>1. dest = diskDest
    BY <1>5 DEF ForceInv
  <2>2. side = {} \/ side = DigestOf(dest)
    BY <1>5 DEF SidecarTruthful
  <2>3. diskSide = {} \/ diskSide = side
    BY <1>5 DEF ForceInv
  <2>4. opt[r].fsync
    BY <1>5 DEF Forcing
  <2>. QED
    BY <1>1, <2>1, <2>2, <2>3, <2>4
<1>6. ForceInv'
  BY <1>1, <1>3, <1>5 DEF ForceInv
<1>. QED
  BY <1>4, <1>6

\* Every step keeps sidecars truthful.
LEMMA SealStep ==
    WorkersOutlive = FALSE /\ IInv /\ SealInv /\ SidecarTruthful /\ ForceInv /\ [Next]_vars
        => SealInv' /\ SidecarTruthful' /\ ForceInv'
<1> DEFINE Goal == SealInv' /\ SidecarTruthful' /\ ForceInv'
<1> SUFFICES ASSUME WorkersOutlive = FALSE, IInv, SealInv, SidecarTruthful, ForceInv, [Next]_vars
             PROVE  Goal
  OBVIOUS
<1> USE DEF crashes
<1>0. /\ wpc \in [Run -> Working \cup {"idle", "start", "ended", "dead"}]
      /\ main \in [Run -> MainState] /\ digest \in [Run -> SUBSET Digest]
      /\ kills \in Nat /\ losses \in Nat
      /\ data \in [Inode -> Content] /\ dest \in SUBSET Inode /\ tmp \in SUBSET Inode
  BY DEF IInv, TypeOK
<1>1. ASSUME NEW r \in Run, Refuse(r) \/ Repair(r) \/ Collect(r)
      PROVE  Goal
  <2>1. \A s \in Run : main'[s] \in Resealing => main'[s] = main[s]
    BY <1>0, <1>1 DEF Refuse, Repair, Collect, Leave, MainTo, Resealing
  <2>. QED
    BY <1>1, <2>1, SealKept DEF Refuse, Repair, Collect, worker, names, disk
<1>2. ASSUME NEW r \in Run, Acquire(r)
      PROVE  Goal
  <2>1. \A s \in Run : wpc'[s] \notin Late \cup {"place"} /\ main[s] \notin Resealing
    BY <1>2, OneWorker DEF Acquire, LockFree, worker, Working, Late, Resealing
  <2>2. \A s \in Run : main'[s] \notin Resealing /\ wpc'[s] = wpc[s]
    BY <1>0, <1>2, <2>1 DEF Acquire, MainTo, worker, Resealing
  <2>3. \A s \in Run : wpc'[s] # "sealplace" /\ main'[s] # "resealplace"
    BY <2>1, <2>2 DEF Late, Resealing
  <2>. QED
    BY <1>2, <2>1, <2>2, <2>3, SealKept DEF Acquire, worker, disk
<1>3. ASSUME NEW r \in Run, Survey(r) \/ CancelQueued(r) \/ Abandon(r)
      PROVE  Goal
  <2>0. Survey(r) => wpc[r] # "dirsync"
    BY OneWorker DEF Survey, Before, Working
  <2>1. /\ \A s \in Run : wpc'[s] \in Late \cup {"place"} => wpc'[s] = wpc[s]
        /\ \A s \in Run : wpc[s] = "dirsync" => wpc'[s] = "dirsync"
    BY <1>0, <1>3, <2>0 DEF Survey, CancelQueued, Abandon, Late
  <2>2. \A s \in Run : main'[s] \in Resealing => main'[s] = main[s]
    BY <1>0, <1>3 DEF Survey, CancelQueued, Abandon, Leave, MainTo, Resealing
  <2>. QED
    BY <1>3, <2>1, <2>2, SealKept DEF Survey, CancelQueued, Abandon, names, disk
<1>4. ASSUME NEW r \in Run, Start(r) \/ Rejected(r) \/ Broken(r) \/ Validate(r)
      PROVE  Goal
  <2>1. /\ \A s \in Run : wpc'[s] \in Late \cup {"place"} => wpc'[s] = wpc[s]
        /\ \A s \in Run : wpc[s] = "dirsync" => wpc'[s] = "dirsync"
    BY <1>0, <1>4 DEF Start, Rejected, Broken, Validate, RetryOrFail, Go, Settle, WorkerAt, Late
  <2>. QED
    BY <1>4, <2>1, SealKept DEF Start, Rejected, Broken, Validate, WorkerAt, names, disk, process
<1>5. ASSUME NEW r \in Run, Attempt(r) \/ Cleanup(r) \/ IoError(r)
      PROVE  Goal
  <2>1. wpc[r] \in Working \ Late
    BY <1>5 DEF Attempt, Cleanup, IoError, WorkerAt, Working, Late
  <2>2. \A s \in Run : s # r => wpc[s] \notin Late \cup {"place"}
    BY <2>1, OneWorker DEF Working, Late
  <2>3. \A s \in Run : wpc'[s] \notin Late \cup {"place"} /\ wpc[s] # "dirsync"
    BY <1>0, <1>5, <2>1, <2>2 DEF Attempt, Cleanup, IoError, Go, Settle, Late
  <2>. QED
    BY <1>5, <2>3, SealKept DEF Attempt, Cleanup, IoError, WorkerAt, names, disk, process
<1>6. ASSUME NEW r \in Run, Opened(r) \/ Streamed(r) \/ Blank(r) \/ Fill(r)
      PROVE  Goal
  <2>1. wpc[r] \in {"request", "stream", "blank", "fill"}
    BY <1>6 DEF Opened, Streamed, Blank, Fill, WorkerAt
  <2>2. \A s \in Run : wpc[s] \notin Late \cup {"place"} /\ main[s] \notin Resealing
    BY <2>1, OneWorker DEF Working, Late, Resealing, Before
  <2>3. \A s \in Run : wpc'[s] \notin Late \cup {"place"} /\ main'[s] \notin Resealing
    BY <1>0, <1>6, <2>2 DEF Opened, Streamed, Blank, Fill, Go, Settle, WorkerAt, process, Late
  <2>4. dest = {}
    BY <2>1 DEF IInv, WriteInv, Early
  <2>5. UNCHANGED <<opt, dest, side, synced, kills, losses>>
    BY <1>6 DEF Opened, Streamed, Blank, Fill, WorkerAt, names
  <2>. QED
    BY <2>3, <2>4, <2>5, SealWritten
<1>7. ASSUME NEW r \in Run, Hash(r)
      PROVE  Goal
  <2>1. wpc[r] = "hash" /\ dest = {}
    BY <1>7 DEF Hash, WorkerAt, IInv, WriteInv, Early
  <2>2. \A s \in Run : wpc[s] \notin Late \cup {"place"} /\ main[s] \notin Resealing
    BY <2>1, OneWorker DEF Working, Late, Resealing, Before
  <2>3. ASSUME NEW s \in Run
        PROVE  wpc'[s] \notin Late /\ (wpc'[s] = "place" => s = r)
    BY <1>0, <1>7, <2>2 DEF Hash, Go, Settle, Late
  <2>4. /\ UNCHANGED <<opt, main, tmp, dest, side, data, synced, kills, losses>>
        /\ wpc'[r] = "place" /\ opt[r].sidecars => digest'[r] = DigestOf(tmp)
    BY <1>0, <1>7 DEF Hash, WorkerAt, Go, Settle, names, process
  <2>5. DigestOf(tmp)' = DigestOf(tmp) /\ DigestOf(dest)' = {} /\ DigestOf(dest) = {}
    BY <2>1, <2>4 DEF DigestOf
  <2>6. SealInv'
    <3>1. \A s \in Run : wpc'[s] \notin Late /\ main'[s] \notin Resealing
      BY <2>2, <2>3, <2>4
    <3>2. ASSUME NEW s \in Run, wpc'[s] = "place", opt'[s].sidecars
          PROVE  digest'[s] = DigestOf(tmp)'
      BY ONLY <2>3, <2>4, <2>5, <3>2
    <3>. QED
      BY ONLY <3>1, <3>2 DEF SealInv, Late, Resealing
  <2>7. /\ diskDest' = diskDest /\ diskSide' = diskSide /\ skipped' = skipped
        /\ sideHard' = sideHard /\ dest = diskDest
    BY <2>1, <2>4 DEF synced, IInv, DiskInv
  <2>8. Forcing' <=> Forcing
    BY <2>4, <2>7 DEF Forcing
  <2>9. SidecarTruthful' /\ ForceInv'
    BY <2>4, <2>5, <2>7, <2>8 DEF SidecarTruthful, ForceInv
  <2>. QED
    BY <2>6, <2>9
<1>8. ASSUME NEW r \in Run, Place(r)
      PROVE  Goal
  <2>1. /\ wpc[r] = "place" /\ dest = {} /\ \A i \in tmp : i[1] = r
        /\ opt[r].fsync => tmp \subseteq hard
    BY <1>8 DEF Place, WorkerAt, IInv, WriteInv, Early
  <2>2. /\ \A s \in Run : wpc[s] \in Late \cup {"place"} => s = r
        /\ \A s \in Run : main[s] \notin Resealing
    BY <2>1, OneWorker DEF Working, Late, Resealing, Before
  <2>3. DigestOf(dest) = {}
    BY <2>1 DEF DigestOf
  <2>4. CASE tmp = {}
    <3>1. \A s \in Run : wpc'[s] \notin Late \cup {"place"} /\ wpc[s] # "dirsync"
      BY <1>0, <1>8, <2>1, <2>2, <2>4 DEF Place, Settle, Late
    <3>. QED
      BY <1>8, <2>4, <3>1, SealKept DEF Place, WorkerAt, disk, process, Late
  <2>5. CASE tmp # {}
    <3>1. /\ dest' = tmp /\ \A s \in Run : wpc'[s] \in Late \cup {"place"} => s = r /\ wpc'[s] = "dirsync"
          /\ UNCHANGED <<opt, main, side, sidetmp, data, digest, hard, synced, kills, losses>>
          /\ wpc'[r] = "dirsync"
      BY <1>0, <1>8, <2>2, <2>5 DEF Place, WorkerAt, Go, disk, process
    <3>2. DigestOf(dest)' = DigestOf(tmp)
      BY <3>1 DEF DigestOf
    <3>3. SealInv'
      BY <2>1, <2>2, <2>5, <3>1, <3>2 DEF SealInv, Late, Resealing
    <3>4. Forcing \/ losses = 0 => side = {}
      BY <2>3 DEF SidecarTruthful
    <3>5. /\ diskDest' = diskDest /\ diskSide' = diskSide /\ skipped' = skipped
      BY <3>1 DEF synced
    <3>6. Forcing' <=> Forcing
      BY <3>1, <3>5 DEF Forcing
    <3>7. SidecarTruthful'
      BY <3>1, <3>4, <3>6 DEF SidecarTruthful
    <3>8. ForceInv'
      BY <3>1, <3>4, <3>5, <3>6 DEF ForceInv
    <3>. QED
      BY <3>3, <3>7, <3>8
  <2>. QED
    BY <2>4, <2>5
<1>9. ASSUME NEW r \in Run, DirSync(r) \/ SealSync(r)
      PROVE  Goal
  <2>1. /\ wpc[r] \in Late /\ SyncDirectory(r)
        /\ UNCHANGED <<opt, main, dest, side, sidetmp, data, digest, hard, sideHard, tmp, kills, losses>>
    BY <1>9 DEF DirSync, SealSync, SyncDirectory, WorkerAt, names, process, Late
  <2>2. /\ \A s \in Run : wpc[s] \in Late \cup {"place"} => s = r
        /\ \A s \in Run : main[s] \notin Resealing
    BY <2>1, OneWorker DEF Working, Late, Resealing, Before
  <2>3. \A s \in Run : wpc'[s] \in Late \cup {"place"} => s = r /\ wpc'[s] = "seal" /\ opt[r].sidecars
    BY <1>0, <1>9, <2>2 DEF DirSync, SealSync, SealOrEnd, Go, Settle, Late
  <2>4. DigestOf(dest)' = DigestOf(dest)
    BY <2>1 DEF DigestOf
  <2>5. SealInv'
    BY <2>1, <2>2, <2>3, <2>4 DEF SealInv, Late, Resealing
  <2>6. Forcing' => Forcing
    BY <1>0, <2>1 DEF Forcing, SyncDirectory, IInv, TypeOK
  <2>7. SidecarTruthful'
    BY <2>1, <2>4, <2>6 DEF SidecarTruthful
  <2>8. ForceInv'
    BY <2>1, ForceSynced DEF IInv
  <2>. QED
    BY <2>5, <2>7, <2>8
<1>10. ASSUME NEW r \in Run, Seal(r) \/ SealPlace(r)
      PROVE  Goal
  <2>1. wpc[r] \in {"seal", "sealplace"} /\ UNCHANGED <<opt, main, tmp, dest, data, hard, digest, kills, losses>>
    BY <1>10 DEF Seal, SealPlace, WriteSidecar, WriteBreaks, PlaceSidecar, WorkerAt, names, disk, process
  <2>2. /\ \A s \in Run : wpc[s] \in Late \cup {"place"} => s = r
        /\ \A s \in Run : main[s] \notin Resealing
    BY <2>1, OneWorker DEF Working, Late, Resealing, Before
  <2>3. opt[r].sidecars /\ digest[r] = DigestOf(dest) /\ dest # {} /\ (opt[r].fsync => dest \subseteq hard)
    BY <2>1 DEF SealInv, Late
  <2>4. DigestOf(dest)' = DigestOf(dest)
    BY <2>1 DEF DigestOf
  <2>5. CASE Seal(r) /\ WriteSidecar(digest[r]) /\ Go(r, "sealplace")
    <3>1. /\ sidetmp' = DigestOf(dest) /\ side' = side /\ synced' = synced
          /\ \A s \in Run : wpc'[s] \in Late \cup {"place"} => s = r /\ wpc'[s] = "sealplace"
      BY <1>0, <2>2, <2>3, <2>5 DEF WriteSidecar, Go, disk
    <3>2. SealInv'
      BY <2>1, <2>2, <2>3, <2>4, <3>1 DEF SealInv, Late, Resealing
    <3>3. /\ diskDest' = diskDest /\ diskSide' = diskSide /\ skipped' = skipped /\ sideHard' = sideHard
          /\ \A s \in Run : wpc[s] # "dirsync"
      BY <2>1, <2>2, <2>5, <3>1 DEF synced, Late, Seal, WorkerAt
    <3>4. Forcing' <=> Forcing
      BY <2>1, <3>3 DEF Forcing
    <3>5. SidecarTruthful' /\ ForceInv'
      BY <2>1, <2>4, <3>1, <3>3, <3>4 DEF SidecarTruthful, ForceInv
    <3>. QED
      BY <3>2, <3>5
  <2>6. CASE SealPlace(r) /\ PlaceSidecar(r) /\ Go(r, "sealsync")
    <3>1. sidetmp = DigestOf(dest) /\ \A s \in Run : wpc[s] # "dirsync"
      BY <2>2, <2>6 DEF SealPlace, WorkerAt, SealInv, Late
    <3>2. SidecarTruthful' /\ ForceInv'
      BY <2>1, <3>1, <2>6, ForcePlaced
    <3>3. /\ side' = DigestOf(dest) /\ (opt[r].fsync => sideHard')
          /\ \A s \in Run : wpc'[s] \in Late \cup {"place"} => s = r /\ wpc'[s] = "sealsync"
      BY <1>0, <2>2, <2>6, <3>1 DEF PlaceSidecar, Go
    <3>4. SealInv'
      BY <2>1, <2>2, <2>3, <2>4, <3>3 DEF SealInv, Late, Resealing
    <3>. QED
      BY <3>2, <3>4
  <2>7. CASE Settle(r, "cleanup", "unsealed") /\ UNCHANGED <<tmp, dest, side, disk>>
    <3>1. \A s \in Run : wpc'[s] \notin Late \cup {"place"} /\ wpc[s] # "dirsync"
      BY <1>0, <2>1, <2>2, <2>7 DEF Settle, Late
    <3>. QED
      BY <2>1, <2>2, <2>7, <3>1, SealKept DEF disk, Late, Resealing
  <2>. QED
    BY <1>10, <2>5, <2>6, <2>7 DEF Seal, SealPlace, WriteBreaks, names
<1>11. ASSUME NEW r \in Run, Reseal(r) \/ ResealPlace(r) \/ ResealSync(r)
      PROVE  Goal
  <2>1. /\ main[r] \in {"reseal", "resealplace", "resealsync"}
        /\ UNCHANGED <<opt, wpc, tmp, dest, data, hard, digest, kills, losses>>
    BY <1>11 DEF Reseal, ResealPlace, ResealSync, WriteSidecar, WriteBreaks, PlaceSidecar, SyncDirectory,
                 worker, names, disk
  <2>2. /\ \A s \in Run : wpc'[s] \notin Late \cup {"place"} /\ wpc[s] # "dirsync"
        /\ \A s \in Run : main[s] \in Resealing => s = r
    BY <2>1, OneWorker DEF Working, Late, Resealing, Before
  <2>3. DigestOf(dest)' = DigestOf(dest)
    BY <2>1 DEF DigestOf
  <2>4. CASE Reseal(r) /\ WriteSidecar(DigestOf(dest)) /\ MainTo(r, "resealplace")
    <3>1. /\ sidetmp' = DigestOf(dest) /\ side' = side /\ synced' = synced
          /\ \A s \in Run : main'[s] \in Resealing => main'[s] = "resealplace"
      BY <1>0, <2>1, <2>2, <2>4 DEF WriteSidecar, MainTo, disk
    <3>2. SealInv'
      BY <2>1, <2>2, <2>3, <3>1 DEF SealInv, Late, Resealing
    <3>3. /\ diskDest' = diskDest /\ diskSide' = diskSide /\ skipped' = skipped /\ sideHard' = sideHard
      BY <3>1 DEF synced
    <3>4. Forcing' <=> Forcing
      BY <2>1, <3>3 DEF Forcing
    <3>5. SidecarTruthful' /\ ForceInv'
      BY <2>1, <2>2, <2>3, <3>1, <3>3, <3>4 DEF SidecarTruthful, ForceInv
    <3>. QED
      BY <3>2, <3>5
  <2>5. CASE ResealPlace(r) /\ PlaceSidecar(r) /\ MainTo(r, "resealsync")
    <3>1. sidetmp = DigestOf(dest)
      BY <2>5 DEF ResealPlace, SealInv
    <3>2. SidecarTruthful' /\ ForceInv'
      BY <2>1, <2>2, <2>5, <3>1, ForcePlaced
    <3>3. /\ side' = DigestOf(dest)
          /\ \A s \in Run : main'[s] \in Resealing => main'[s] = "resealsync"
      BY <1>0, <2>2, <2>5, <3>1 DEF PlaceSidecar, MainTo
    <3>4. SealInv'
      BY <2>1, <2>2, <2>3, <3>3 DEF SealInv, Late, Resealing
    <3>. QED
      BY <3>2, <3>4
  <2>6. CASE ResealSync(r)
    <3>1. /\ SyncDirectory(r) /\ side' = side /\ sidetmp' = sidetmp
          /\ \A s \in Run : main'[s] \notin Resealing
      BY <1>0, <2>2, <2>6 DEF ResealSync, SyncDirectory, MainTo, names, Resealing
    <3>2. SealInv'
      BY <2>1, <2>2, <3>1 DEF SealInv, Late, Resealing
    <3>3. Forcing' => Forcing
      BY <1>0, <2>1, <3>1 DEF Forcing, SyncDirectory, IInv, TypeOK
    <3>4. SidecarTruthful'
      BY <2>1, <2>3, <3>1, <3>3 DEF SidecarTruthful
    <3>5. ForceInv'
      BY <2>1, <3>1, ForceSynced DEF IInv
    <3>. QED
      BY <3>2, <3>4, <3>5
  <2>7. CASE (\E how \in {"unsealed", "invalid"} : Leave(r, how)) /\ UNCHANGED <<tmp, dest, side, disk>>
    <3>1. \A s \in Run : main'[s] \notin Resealing
      BY <1>0, <2>2, <2>7 DEF Leave, MainTo, Resealing
    <3>2. \A s \in Run : wpc'[s] # "sealplace" /\ main'[s] # "resealplace"
      BY <2>2, <3>1 DEF Late, Resealing
    <3>. QED
      BY <2>1, <2>2, <2>7, <3>1, <3>2, SealKept DEF disk
  <2>. QED
    BY <1>11, <2>4, <2>5, <2>6, <2>7 DEF Reseal, ResealPlace, WriteBreaks, names
<1>12. ASSUME NEW r \in Run, Kill(r)
      PROVE  Goal
  <2>1. /\ UNCHANGED <<opt, digest, tmp, dest, sidetmp, side, data, hard, sideHard, losses>>
        /\ kills' = kills + 1
        /\ \A s \in Run : wpc'[s] \in Late \cup {"place"} => wpc'[s] = wpc[s]
        /\ \A s \in Run : main'[s] \in Resealing => main'[s] = main[s]
    BY <1>0, <1>12 DEF Kill, Dead, names, disk, synced, Late, Resealing
  <2>2. DigestOf(dest)' = DigestOf(dest) /\ DigestOf(tmp)' = DigestOf(tmp) /\ kills' # 0
    BY <1>0, <2>1 DEF DigestOf
  <2>3. SealInv'
    BY <2>1, <2>2 DEF SealInv, Late, Resealing
  <2>4. ~Forcing'
    BY <2>2 DEF Forcing
  <2>5. SidecarTruthful' /\ ForceInv'
    BY <2>1, <2>2, <2>4 DEF SidecarTruthful, ForceInv
  <2>. QED
    BY <2>3, <2>5
<1>13. CASE PowerLoss
  <2>1. /\ opt' = opt /\ kills' = kills /\ losses' # 0 /\ skipped' = skipped /\ sideHard'
        /\ dest' \in {dest, diskDest} /\ diskDest' = dest' /\ diskSide' = side'
    BY <1>0, <1>13 DEF PowerLoss, Dead
  <2>2. \A s \in Run : wpc'[s] \notin Late \cup {"place"} /\ main'[s] \notin Resealing
    BY <1>0, <1>13 DEF PowerLoss, Dead, Alive, Working, Late, Resealing
  <2>3. SealInv'
    BY <2>2 DEF SealInv, Late, Resealing
  <2>4. ForceInv'
    BY <2>1 DEF ForceInv
  <2>5. Forcing' <=> Forcing
    BY <2>1 DEF Forcing
  <2>6. ASSUME Forcing
        PROVE  side' = {} \/ side' = DigestOf(dest)'
    <3>1. side' = {} \/ (side' = side /\ side # {})
      <4>1. CASE side = {}
        <5>1. diskSide = {}
          BY <2>6, <4>1 DEF ForceInv
        <5>2. CutOff({}) = {}
          BY DEF CutOff
        <5>. QED
          BY <1>13, <4>1, <5>1, <5>2 DEF PowerLoss
      <4>2. CASE side # {}
        <5>1. sideHard /\ (diskSide = {} \/ diskSide = side)
          BY <2>6, <4>2 DEF ForceInv
        <5>. QED
          BY <1>13, <4>2, <5>1 DEF PowerLoss
      <4>. QED
        BY <4>1, <4>2
    <3>2. side # {} => dest' = dest
      BY <2>1, <2>6 DEF ForceInv
    <3>3. \A i \in dest : i \in hard
      <4>1. \A i \in dest : i[1] \in Run
        BY <1>0 DEF Inode
      <4>. QED
        BY <2>6, <4>1 DEF IInv, DiskInv, Forcing
    <3>4. \A i \in dest : data'[i] = data[i]
      BY <1>0, <1>13, <3>3 DEF PowerLoss
    <3>5. dest' = dest => DigestOf(dest)' = DigestOf(dest)
      BY <3>4 DEF DigestOf
    <3>6. side = {} \/ side = DigestOf(dest)
      BY <2>6 DEF SidecarTruthful
    <3>. QED
      BY <3>1, <3>2, <3>5, <3>6
  <2>7. SidecarTruthful'
    BY <2>1, <2>5, <2>6 DEF SidecarTruthful
  <2>. QED
    BY <2>3, <2>4, <2>7
<1>14. CASE Quiet \/ UNCHANGED vars
  BY <1>14, SealKept DEF Quiet, vars, process, worker, names, disk
<1>. QED
  BY <1>1, <1>2, <1>3, <1>4, <1>5, <1>6, <1>7, <1>8, <1>9, <1>10, <1>11, <1>12, <1>13, <1>14
     DEF Next, MainStep, WorkerStep

\* A sidecar states the digest of the file beside it, whoever is killed; and whatever a power
\* loss takes, if every run forces what it writes, skips no fsync of the directory and is not
\* killed before it.
THEOREM SidecarsTruthful == ASSUME WorkersOutlive = FALSE PROVE Spec => []SidecarTruthful
<1>1. Init => SealInv /\ SidecarTruthful /\ ForceInv
  BY DEF Init, SealInv, SidecarTruthful, ForceInv, Late
<1>2. IInv /\ SealInv /\ SidecarTruthful /\ ForceInv /\ [Next]_vars
          => SealInv' /\ SidecarTruthful' /\ ForceInv'
  BY SealStep
<1>. QED
  BY Invariant, <1>1, <1>2, PTL DEF Spec


-----------------------------------------------------------------------------
(* What was reported *)

Won == {"placed", "no_data"}

\* A run's result is its worker's outcome, and is given once.
ResultInv ==
    \A r \in Run :
        /\ main[r] # "done" => result[r] = "none"
        /\ result[r] \in Won => out[r] = result[r]

\* Only a missing or malformed sidecar is written anew.
ResealInv == \A r \in Run : main[r] \in {"reseal", "resealplace"} => side = {} \/ Garbled(side)

\* The file, and with --write-sidecars its sidecar, are there, ...
Present(r) == dest # {} /\ (opt[r].sidecars => side # {})

\* ... and nothing can take them away: no file is written again beside them.
Fixed(r) ==
    /\ dest # {} /\ dest = diskDest /\ dest \subseteq hard
    /\ opt[r].sidecars => side # {} /\ side = diskSide /\ ~Garbled(side) /\ sideHard
    /\ \A s \in Run : wpc[s] \notin Late

FixedInv == \A r \in Run : out[r] \in Won /\ opt[r].fsync /\ ~skipped[r] => Fixed(r)

\* Only a power loss takes what a worker placed or a run found; the summary looks after the
\* sidecars were repaired, and a worker begins only where it found nothing.
PresentInv ==
    \A r \in Run :
        /\ losses = 0 /\ (out[r] \in Won \/ result[r] = "cached") => Present(r)
        /\ main[r] = "survey" /\ opt[r].sidecars => dest = {} \/ side # {}
        /\ wpc[r] = "start" => dest = {}
        /\ out[r] # "cached"

\* Every step keeps results and outcomes together.
LEMMA ResultStep == IInv /\ ResultInv /\ [Next]_vars => ResultInv'
<1> SUFFICES ASSUME IInv, ResultInv, [Next]_vars PROVE ResultInv'
  OBVIOUS
<1>0. main \in [Run -> MainState] /\ result \in [Run -> Outcome] /\ out \in [Run -> WorkerOutcome]
  BY DEF IInv, TypeOK
<1>1. ASSUME NEW r \in Run, MainStep(r)
      PROVE  ResultInv'
  <2>1. out' = out
    BY <1>1 DEF MainStep, Refuse, Acquire, Repair, Reseal, ResealPlace, ResealSync, Survey, Collect,
                CancelQueued, Abandon, worker
  <2>2. ASSUME NEW how \in {"refused", "invalid", "unsealed", "cached", "declined", "interrupted",
                            "fatal", out[r]}, Leave(r, how)
        PROVE  ResultInv'
    BY <1>0, <2>1, <2>2 DEF Leave, MainTo, ResultInv, Won
  <2>3. CASE /\ result' = result
             /\ main[r] # "done"
             /\ \E to \in MainState : MainTo(r, to)
    BY <1>0, <2>1, <2>3 DEF MainTo, ResultInv
  <2>. QED
    BY <1>1, <2>2, <2>3 DEF MainStep, Refuse, Acquire, Repair, Reseal, ResealPlace, ResealSync,
                            Survey, Collect, CancelQueued, Abandon, MainState
<1>2. ASSUME NEW r \in Run, WorkerStep(r)
      PROVE  ResultInv'
  <2>1. wpc[r] \in Working \cup {"start"} /\ UNCHANGED <<main, result>>
    BY <1>2 DEF WorkerStep, Start, Attempt, Rejected, Opened, Streamed, Broken, Blank, Fill,
                Validate, Hash, Place, DirSync, Seal, SealPlace, SealSync, IoError, Cleanup,
                WorkerAt, Working, process
  <2>2. ASSUME NEW s \in Run, s # r
        PROVE  out'[s] = out[s]
    BY <1>0, <1>2, <2>2
       DEF WorkerStep, Start, Attempt, Rejected, Opened, Streamed, Broken, Blank, Fill, Validate,
           Hash, Place, DirSync, Seal, SealPlace, SealSync, IoError, Cleanup, RetryOrFail,
           SealOrEnd, Go, Settle
  <2>3. result[r] = "none"
    BY <2>1 DEF IInv, LockInv, ResultInv
  <2>. QED
    BY <2>1, <2>2, <2>3 DEF ResultInv, Won
<1>3. ASSUME NEW S \in SUBSET Run, Dead(S)
      PROVE  ResultInv'
  BY <1>0, <1>3 DEF Dead, ResultInv, Won
<1>4. CASE (\E r \in Run : Kill(r)) \/ PowerLoss
  BY <1>3, <1>4 DEF Kill, PowerLoss
<1>5. CASE Quiet \/ UNCHANGED vars
  BY <1>5 DEF Quiet, vars, process, worker, ResultInv
<1>. QED
  BY <1>1, <1>2, <1>4, <1>5 DEF Next

\* While a run seals a file anew no other run changes its sidecar.
LEMMA ResealStep == IInv /\ ResealInv /\ [Next]_vars => ResealInv'
<1> SUFFICES ASSUME IInv, ResealInv, [Next]_vars PROVE ResealInv'
  OBVIOUS
<1> DEFINE Anew == {"reseal", "resealplace"}
<1>0. main \in [Run -> MainState]
  BY DEF IInv, TypeOK
<1>1. ASSUME side' = side, \A s \in Run : main'[s] \in Anew => main[s] \in Anew
      PROVE  ResealInv'
  BY <1>1 DEF ResealInv, Garbled
<1>2. ASSUME \A s \in Run : main'[s] \notin Anew
      PROVE  ResealInv'
  BY <1>2 DEF ResealInv
<1>3. ASSUME NEW r \in Run, Repair(r)
      PROVE  ResealInv'
  <2>1. side' = side /\ \A s \in Run \ {r} : main'[s] = main[s]
    BY <1>0, <1>3 DEF Repair, Leave, MainTo, names
  <2>2. main'[r] \in Anew => side = {} \/ Garbled(side)
    BY <1>0, <1>3 DEF Repair, Leave, MainTo, RepairState
  <2>. QED
    BY <2>1, <2>2 DEF ResealInv, Garbled
<1>4. ASSUME NEW r \in Run, Reseal(r) \/ ResealSync(r)
      PROVE  ResealInv'
  <2>1. side' = side
    BY <1>4 DEF Reseal, ResealSync, WriteSidecar, WriteBreaks, SyncDirectory, names
  <2>2. \A s \in Run : main'[s] \in Anew => main[s] \in Anew
    BY <1>0, <1>4 DEF Reseal, ResealSync, Leave, MainTo
  <2>. QED
    BY <1>1, <2>1, <2>2
<1>5. ASSUME NEW r \in Run, ResealPlace(r)
      PROVE  ResealInv'
  <2>1. \A s \in Run : main[s] \in Anew => s = r
    BY <1>5, OneWorker DEF ResealPlace, Before
  <2>2. \A s \in Run : main'[s] \notin Anew
    BY <1>0, <1>5, <2>1 DEF ResealPlace, Leave, MainTo
  <2>. QED
    BY <1>2, <2>2
<1>6. ASSUME NEW r \in Run,
             \/ Refuse(r) \/ Acquire(r) \/ Survey(r) \/ Collect(r) \/ CancelQueued(r)
             \/ Abandon(r)
      PROVE  ResealInv'
  <2>1. side' = side
    BY <1>6 DEF Refuse, Acquire, Survey, Collect, CancelQueued, Abandon, names
  <2>2. \A s \in Run : main'[s] \in Anew => main[s] \in Anew
    BY <1>0, <1>6 DEF Refuse, Acquire, Survey, Collect, CancelQueued, Abandon, Leave, MainTo
  <2>. QED
    BY <1>1, <2>1, <2>2
<1>7. ASSUME NEW r \in Run, SealPlace(r)
      PROVE  ResealInv'
  <2>1. wpc[r] \in Working /\ main' = main
    BY <1>7 DEF SealPlace, WorkerAt, Working, process
  <2>2. \A s \in Run : main'[s] \notin Anew
    BY <2>1, OneWorker DEF Before
  <2>. QED
    BY <1>2, <2>2
<1>8. ASSUME NEW r \in Run, WorkerStep(r), ~SealPlace(r)
      PROVE  ResealInv'
  <2>1. side' = side /\ main' = main
    BY <1>8 DEF WorkerStep, Start, Attempt, Rejected, Opened, Streamed, Broken, Blank, Fill,
                Validate, Hash, Place, DirSync, Seal, SealSync, IoError, Cleanup, SyncDirectory,
                WriteSidecar, WriteBreaks, WorkerAt, process, names
  <2>. QED
    BY <1>1, <2>1
<1>9. ASSUME NEW r \in Run, Kill(r)
      PROVE  ResealInv'
  <2>1. side' = side /\ \A s \in Run : main'[s] \in Anew => main[s] \in Anew
    BY <1>9 DEF Kill, Dead, names
  <2>. QED
    BY <1>1, <2>1
<1>10. CASE PowerLoss
  <2>1. \A s \in Run : main'[s] \notin Anew
    BY <1>10 DEF PowerLoss, Dead, Alive
  <2>. QED
    BY <1>2, <2>1
<1>11. CASE Quiet \/ UNCHANGED vars
  BY <1>1, <1>11 DEF Quiet, vars, process, names
<1>. QED
  BY <1>3, <1>4, <1>5, <1>6, <1>7, <1>8, <1>9, <1>10, <1>11 DEF Next, MainStep

\* Only a power loss takes a name away.
LEMMA NamesStay ==
    IInv /\ [Next]_vars /\ losses' = losses
        => (dest # {} => dest' # {}) /\ (side # {} => side' # {})
<1> SUFFICES ASSUME IInv, [Next]_vars, losses' = losses
             PROVE  (dest # {} => dest' # {}) /\ (side # {} => side' # {})
  OBVIOUS
<1> USE DEF crashes
<1>1. CASE \E r \in Run : MainStep(r)
  BY <1>1 DEF MainStep, Refuse, Acquire, Repair, Reseal, ResealPlace, ResealSync, Survey, Collect,
              CancelQueued, Abandon, WriteSidecar, WriteBreaks, PlaceSidecar, SyncDirectory, names
<1>2. CASE \E r \in Run : WorkerStep(r)
  BY <1>2 DEF WorkerStep, Start, Attempt, Rejected, Opened, Streamed, Broken, Blank, Fill,
              Validate, Hash, Place, DirSync, Seal, SealPlace, SealSync, IoError, Cleanup,
              WriteSidecar, WriteBreaks, PlaceSidecar, SyncDirectory, names
<1>3. CASE \E r \in Run : Kill(r)
  BY <1>3 DEF Kill, names
<1>4. ~PowerLoss
  BY DEF PowerLoss, IInv, TypeOK
<1>5. CASE Quiet \/ UNCHANGED vars
  BY <1>5 DEF Quiet, vars, names
<1>. QED
  BY <1>1, <1>2, <1>3, <1>4, <1>5 DEF Next

\* The digest of a file is there and well-formed.
LEMMA WholeDigest ==
    ASSUME data \in [Inode -> Content], NEW S \in SUBSET Inode
    PROVE  (S # {} => DigestOf(S) # {}) /\ ~Garbled(DigestOf(S))
<1>1. \A i \in S : data[i] # "garbled"
  BY DEF Content, Complete
<1>2. ASSUME NEW d \in DigestOf(S)
      PROVE  d[2] # "garbled"
  <2>1. PICK i \in S : d = <<i, data[i]>>
    BY DEF DigestOf
  <2>. QED
    BY <1>1, <2>1
<1>3. S # {} => DigestOf(S) # {}
  BY DEF DigestOf
<1>. QED
  BY <1>2, <1>3 DEF Garbled

\* A step that leaves the names alone keeps what is there.
LEMMA PresentKept ==
    ASSUME IInv, PresentInv, [Next]_vars, opt' = opt, losses' = losses,
           \A r \in Run : main'[r] = "survey" => main[r] = "survey",
           \A r \in Run : wpc'[r] = "start" => wpc[r] = "start" /\ dest' = dest,
           \A r \in Run : out'[r] # "cached",
           \A r \in Run : out'[r] \in Won => out[r] \in Won \/ Present(r)',
           \A r \in Run : result'[r] = "cached" => result[r] = "cached" \/ Present(r)',
           \A r \in Run : main[r] = "survey" => dest' = dest
    PROVE  PresentInv'
<1>1. (dest # {} => dest' # {}) /\ (side # {} => side' # {})
  BY NamesStay
<1>2. \A r \in Run : Present(r) => Present(r)'
  BY <1>1 DEF Present
<1>. QED
  BY <1>1, <1>2 DEF PresentInv

\* Every step keeps what is there.
LEMMA PresentStep ==
    /\ WorkersOutlive = FALSE /\ IInv /\ SealInv /\ ResultInv /\ PresentInv /\ [Next]_vars
    => PresentInv'
<1> SUFFICES ASSUME WorkersOutlive = FALSE, IInv, SealInv, ResultInv, PresentInv, [Next]_vars
             PROVE  PresentInv'
  OBVIOUS
<1> USE DEF crashes
<1>0. /\ wpc \in [Run -> Working \cup {"idle", "start", "ended", "dead"}]
      /\ main \in [Run -> MainState] /\ result \in [Run -> Outcome]
      /\ out \in [Run -> WorkerOutcome]
      /\ losses \in Nat /\ data \in [Inode -> Content] /\ dest \in SUBSET Inode
  BY DEF IInv, TypeOK
<1>a. \A r \in Run : out[r] # "cached" /\ (wpc[r] = "start" => dest = {})
  BY DEF PresentInv
<1>1. ASSUME NEW r \in Run, Refuse(r) \/ Acquire(r) \/ Collect(r) \/ CancelQueued(r) \/ Abandon(r)
      PROVE  PresentInv'
  <2>1. UNCHANGED <<opt, losses, dest, out>>
    BY <1>1 DEF Refuse, Acquire, Collect, CancelQueued, Abandon, worker, names
  <2>2. \A s \in Run : main'[s] = "survey" => main[s] = "survey"
    BY <1>0, <1>1 DEF Refuse, Acquire, Collect, CancelQueued, Abandon, Leave, MainTo
  <2>3. \A s \in Run : wpc'[s] = "start" => wpc[s] = "start"
    BY <1>0, <1>1 DEF Refuse, Acquire, Collect, CancelQueued, Abandon, worker
  <2>4. \A s \in Run : result'[s] = "cached" => result[s] = "cached"
    BY <1>0, <1>1, <1>a DEF Refuse, Acquire, Collect, CancelQueued, Abandon, Leave
  <2>. QED
    BY <1>a, <2>1, <2>2, <2>3, <2>4, PresentKept
<1>2. ASSUME NEW r \in Run, Repair(r)
      PROVE  PresentInv'
  <2>1. /\ UNCHANGED <<opt, losses, dest, side, out, wpc>>
        /\ \A s \in Run : result'[s] = "cached" => result[s] = "cached"
    BY <1>0, <1>2 DEF Repair, Leave, worker, names
  <2>2. ASSUME NEW s \in Run, main'[s] = "survey", main[s] # "survey", opt[s].sidecars
        PROVE  dest = {} \/ side # {}
    <3>1. s = r /\ RepairState = "ok"
      BY <1>0, <1>2, <2>2 DEF Repair, Leave, MainTo
    <3>2. dest # {} => DigestOf(dest) # {}
      BY <1>0, WholeDigest
    <3>. QED
      BY <3>1, <3>2 DEF RepairState
  <2>. QED
    BY <2>1, <2>2 DEF PresentInv, Present
<1>3. ASSUME NEW r \in Run, Reseal(r) \/ ResealPlace(r)
      PROVE  PresentInv'
  <2>1. UNCHANGED <<opt, losses, dest, out, wpc>>
    BY <1>3 DEF Reseal, ResealPlace, WriteSidecar, WriteBreaks, PlaceSidecar, worker, names
  <2>2. /\ \A s \in Run : main'[s] = "survey" => main[s] = "survey"
        /\ \A s \in Run : result'[s] = "cached" => result[s] = "cached"
    BY <1>0, <1>3 DEF Reseal, ResealPlace, Leave, MainTo
  <2>. QED
    BY <1>a, <2>1, <2>2, PresentKept
<1>4. ASSUME NEW r \in Run, ResealSync(r)
      PROVE  PresentInv'
  <2>1. UNCHANGED <<opt, losses, dest, side, out, wpc, result>>
    BY <1>4 DEF ResealSync, SyncDirectory, worker, names
  <2>2. dest = {} \/ side # {}
    <3>1. side = DigestOf(dest)
      BY <1>4 DEF ResealSync, SealInv
    <3>. QED
      BY <1>0, <3>1, WholeDigest
  <2>. QED
    BY <2>1, <2>2 DEF PresentInv, Present
<1>5. ASSUME NEW r \in Run, Survey(r)
      PROVE  PresentInv'
  <2>1. UNCHANGED <<opt, losses, dest, side, out>>
    BY <1>5 DEF Survey, names
  <2>2. \A s \in Run : main'[s] = "survey" => main[s] = "survey"
    BY <1>0, <1>5 DEF Survey, Leave, MainTo
  <2>3. \A s \in Run : wpc'[s] = "start" => wpc[s] = "start" \/ dest = {}
    BY <1>0, <1>5 DEF Survey
  <2>4. ASSUME NEW s \in Run, result'[s] = "cached", result[s] # "cached"
        PROVE  Present(s)
    <3>1. s = r /\ dest # {} /\ main[r] = "survey"
      BY <1>0, <1>5, <2>4 DEF Survey, Leave, MainTo
    <3>. QED
      BY <3>1 DEF PresentInv, Present
  <2>. QED
    BY <2>1, <2>2, <2>3, <2>4 DEF PresentInv, Present
<1>6. ASSUME NEW r \in Run,
             \/ Start(r) \/ Attempt(r) \/ Rejected(r) \/ Opened(r) \/ Streamed(r) \/ Broken(r)
             \/ Blank(r) \/ Fill(r) \/ Validate(r) \/ Hash(r) \/ Place(r) \/ Seal(r)
             \/ SealPlace(r) \/ IoError(r) \/ Cleanup(r)
      PROVE  PresentInv'
  <2>1. UNCHANGED <<opt, losses, main, result>> /\ wpc[r] \in Working \cup {"start"}
    BY <1>6
       DEF Start, Attempt, Rejected, Opened, Streamed, Broken, Blank, Fill, Validate, Hash, Place,
           Seal, SealPlace, IoError, Cleanup, WorkerAt, process, Working
  <2>2. \A s \in Run : /\ wpc'[s] = "start" => wpc[s] = "start" /\ s # r
                       /\ out'[s] \in Won => out[s] = out'[s]
                       /\ out'[s] # "cached"
    BY <1>0, <1>6, <1>a
       DEF Start, Attempt, Rejected, Opened, Streamed, Broken, Blank, Fill, Validate, Hash, Place,
           Seal, SealPlace, IoError, Cleanup, WorkerAt, RetryOrFail, Go, Settle, Won, Working
  <2>3. \A s \in Run : main[s] # "survey" /\ (wpc[s] = "start" => s = r)
    BY <2>1, OneWorker DEF Before, IInv, LockInv
  <2>. QED
    BY <2>1, <2>2, <2>3, PresentKept
<1>7. ASSUME NEW r \in Run, DirSync(r) \/ SealSync(r)
      PROVE  PresentInv'
  <2>1. UNCHANGED <<opt, losses, main, result, dest, side>> /\ wpc[r] \in Late
    BY <1>7 DEF DirSync, SealSync, SyncDirectory, WorkerAt, process, names, Late
  <2>2. \A s \in Run : /\ wpc'[s] = "start" => wpc[s] = "start"
                       /\ s # r => out'[s] = out[s]
                       /\ out'[s] # "cached"
    BY <1>0, <1>7, <1>a DEF DirSync, SealSync, SealOrEnd, WorkerAt, Go, Settle, Verdict, Working
  <2>3. ASSUME out'[r] \in Won, out[r] \notin Won
        PROVE  Present(r)
    <3>1. dest # {}
      BY <2>1 DEF SealInv
    <3>2. opt[r].sidecars => wpc[r] = "sealsync"
      BY <1>0, <1>7, <2>3 DEF DirSync, SealSync, SealOrEnd, WorkerAt, Go
    <3>3. wpc[r] = "sealsync" => side = DigestOf(dest)
      BY DEF SealInv
    <3>4. DigestOf(dest) # {}
      BY <1>0, <3>1, WholeDigest
    <3>. QED
      BY <3>1, <3>2, <3>3, <3>4 DEF Present
  <2>. QED
    BY <2>1, <2>2, <2>3 DEF PresentInv, Present
<1>8. ASSUME NEW r \in Run, Kill(r)
      PROVE  PresentInv'
  <2>1. /\ UNCHANGED <<opt, losses, dest, side, out>>
        /\ \A s \in Run : /\ main'[s] = "survey" => main[s] = "survey"
                          /\ wpc'[s] = "start" => wpc[s] = "start"
                          /\ result'[s] = "cached" => result[s] = "cached"
    BY <1>0, <1>8 DEF Kill, Dead, names
  <2>. QED
    BY <2>1 DEF PresentInv, Present
<1>9. CASE PowerLoss
  <2>1. /\ losses' # 0 /\ out' = out
        /\ \A s \in Run : main'[s] # "survey" /\ wpc'[s] # "start"
    BY <1>0, <1>9 DEF PowerLoss, Dead, Alive
  <2>. QED
    BY <1>a, <2>1 DEF PresentInv
<1>10. CASE Quiet \/ UNCHANGED vars
  BY <1>10 DEF Quiet, vars, process, worker, names, PresentInv, Present
<1>. QED
  BY <1>1, <1>2, <1>3, <1>4, <1>5, <1>6, <1>7, <1>8, <1>9, <1>10 DEF Next, MainStep, WorkerStep

\* A step that leaves the partition's files alone keeps what is fixed.
LEMMA FixedKept ==
    ASSUME FixedInv, UNCHANGED <<opt, dest, side, hard, synced>>,
           \A r \in Run : out'[r] \in Won => out'[r] = out[r],
           \A r \in Run : wpc'[r] \in Late => wpc'[r] = wpc[r]
    PROVE  FixedInv'
<1>1. UNCHANGED <<sideHard, diskDest, diskSide, skipped>>
  BY DEF synced
<1>2. \A r \in Run : Fixed(r) => Fixed(r)'
  BY <1>1 DEF Fixed, Garbled
<1>. QED
  BY <1>1, <1>2 DEF FixedInv

\* While there is no file, or one being placed, nothing is fixed.
LEMMA FixedVoid ==
    ASSUME FixedInv, opt' = opt, skipped' = skipped, dest = {} \/ \E r \in Run : wpc[r] \in Late,
           \A r \in Run : out'[r] \in Won => out'[r] = out[r]
    PROVE  FixedInv'
<1>1. \A r \in Run : ~Fixed(r)
  BY DEF Fixed
<1>. QED
  BY <1>1 DEF FixedInv

\* Every step keeps what is fixed.
LEMMA FixedStep ==
    /\ WorkersOutlive = FALSE /\ IInv /\ SealInv /\ ResealInv /\ FixedInv /\ [Next]_vars
    => FixedInv'
<1> SUFFICES ASSUME WorkersOutlive = FALSE, IInv, SealInv, ResealInv, FixedInv, [Next]_vars
             PROVE  FixedInv'
  OBVIOUS
<1>0. /\ wpc \in [Run -> Working \cup {"idle", "start", "ended", "dead"}]
      /\ main \in [Run -> MainState] /\ out \in [Run -> WorkerOutcome]
      /\ data \in [Inode -> Content] /\ dest \in SUBSET Inode /\ skipped \in [Run -> BOOLEAN]
  BY DEF IInv, TypeOK
<1>1. ASSUME NEW r \in Run,
             \/ Refuse(r) \/ Acquire(r) \/ Repair(r) \/ Reseal(r) \/ Survey(r) \/ Collect(r)
             \/ CancelQueued(r) \/ Abandon(r)
      PROVE  FixedInv'
  <2>1. UNCHANGED <<opt, dest, side, hard, synced, out>>
    BY <1>1 DEF Refuse, Acquire, Repair, Reseal, Survey, Collect, CancelQueued, Abandon,
                WriteSidecar, WriteBreaks, worker, names, disk
  <2>2. \A s \in Run : wpc'[s] \in Late => wpc'[s] = wpc[s]
    BY <1>0, <1>1 DEF Refuse, Acquire, Repair, Reseal, Survey, Collect, CancelQueued, Abandon,
                      worker, Late
  <2>. QED
    BY <2>1, <2>2, FixedKept
<1>2. ASSUME NEW r \in Run, Start(r) \/ Attempt(r) \/ Rejected(r) \/ Broken(r) \/ Validate(r)
                              \/ Cleanup(r) \/ IoError(r)
      PROVE  FixedInv'
  <2>1. UNCHANGED <<opt, dest, side, hard, synced>>
    BY <1>2 DEF Start, Attempt, Rejected, Broken, Validate, Cleanup, IoError, WorkerAt, names, disk
  <2>2. \A s \in Run : /\ wpc'[s] \in Late => wpc'[s] = wpc[s]
                       /\ out'[s] \in Won => out'[s] = out[s]
    BY <1>0, <1>2 DEF Start, Attempt, Rejected, Broken, Validate, Cleanup, IoError, RetryOrFail,
                      Go, Settle, Won, Late
  <2>. QED
    BY <2>1, <2>2, FixedKept
<1>3. ASSUME NEW r \in Run, Opened(r) \/ Streamed(r) \/ Blank(r) \/ Fill(r) \/ Hash(r) \/ Place(r)
      PROVE  FixedInv'
  <2>1. wpc[r] \in Early
    BY <1>3 DEF Opened, Streamed, Blank, Fill, Hash, Place, WorkerAt, Early
  <2>2. dest = {} /\ opt' = opt /\ skipped' = skipped
    BY <1>3, <2>1 DEF Opened, Streamed, Blank, Fill, Hash, Place, WorkerAt, IInv, WriteInv, synced,
                      disk
  <2>3. \A s \in Run : out'[s] \in Won => out'[s] = out[s]
    BY <1>0, <1>3 DEF Opened, Streamed, Blank, Fill, Hash, Place, Go, Settle, Won
  <2>. QED
    BY <2>2, <2>3, FixedVoid
<1>4. ASSUME NEW r \in Run, Seal(r) \/ SealPlace(r)
      PROVE  FixedInv'
  <2>1. wpc[r] \in Late /\ opt' = opt /\ skipped' = skipped
    BY <1>4 DEF Seal, SealPlace, WriteSidecar, WriteBreaks, PlaceSidecar, WorkerAt, synced, disk,
                Late
  <2>2. \A s \in Run : out'[s] \in Won => out'[s] = out[s]
    BY <1>0, <1>4 DEF Seal, SealPlace, Go, Settle, Won
  <2>. QED
    BY <2>1, <2>2, FixedVoid
<1>5. ASSUME NEW r \in Run, DirSync(r) \/ SealSync(r)
      PROVE  FixedInv'
  <2>1. /\ wpc[r] \in Late /\ SyncDirectory(r)
        /\ UNCHANGED <<opt, dest, side, hard, data, sideHard>>
    BY <1>5 DEF DirSync, SealSync, SyncDirectory, WorkerAt, names, Late
  <2>2. \A s \in Run : ~Fixed(s)
    BY <2>1 DEF Fixed
  <2>3. \A s \in Run \ {r} : out'[s] = out[s] /\ skipped'[s] = skipped[s] /\ wpc'[s] = wpc[s]
    BY <1>0, <1>5, <2>1 DEF DirSync, SealSync, SealOrEnd, SyncDirectory, Go, Settle
  <2>4. ASSUME out'[r] \in Won, opt[r].fsync, ~skipped'[r]
        PROVE  Fixed(r)'
    <3>1. diskDest' = dest /\ diskSide' = side /\ skipped' = skipped
      BY <1>0, <2>1, <2>4 DEF SyncDirectory
    <3>2. out[r] \notin Won
      BY <2>2, <2>4, <3>1 DEF FixedInv
    <3>3. dest # {} /\ dest \subseteq hard
      BY <2>1, <2>4 DEF SealInv
    <3>4. opt[r].sidecars => wpc[r] = "sealsync"
      BY <1>0, <1>5, <2>4, <3>2 DEF DirSync, SealSync, SealOrEnd, WorkerAt, Go
    <3>5. wpc[r] = "sealsync" => side = DigestOf(dest) /\ sideHard
      BY <2>4 DEF SealInv
    <3>6. DigestOf(dest) # {} /\ ~Garbled(DigestOf(dest))
      BY <1>0, <3>3, WholeDigest
    <3>7. opt[r].sidecars => side # {} /\ sideHard /\ ~Garbled(side)
      BY <3>4, <3>5, <3>6
    <3>8. Garbled(side)' <=> Garbled(side)
      BY <2>1 DEF Garbled
    <3>9. wpc'[r] \notin Late
      BY <1>0, <1>5, <2>4, <3>2 DEF DirSync, SealSync, SealOrEnd, Go, Settle, Late
    <3>10. \A s \in Run : wpc'[s] \notin Late
      BY <2>1, <2>3, <3>9, OneWorker DEF Working, Late
    <3>. QED
      BY <2>1, <3>1, <3>3, <3>7, <3>8, <3>10 DEF Fixed
  <2>. QED
    BY <2>1, <2>2, <2>3, <2>4 DEF FixedInv
<1>6. ASSUME NEW r \in Run, ResealPlace(r)
      PROVE  FixedInv'
  <2>1. CASE UNCHANGED <<names, disk>>
    BY <1>6, <2>1, FixedKept DEF ResealPlace, worker, names, disk
  <2>2. CASE PlaceSidecar(r)
    <3>1. /\ UNCHANGED <<opt, dest, hard, diskDest, skipped, out, wpc>>
          /\ side = {} \/ Garbled(side)
      BY <1>6, <2>2 DEF ResealPlace, PlaceSidecar, worker, ResealInv
    <3>2. \A s \in Run : Fixed(s) => Fixed(s)'
      BY <3>1 DEF Fixed
    <3>. QED
      BY <3>1, <3>2 DEF FixedInv
  <2>. QED
    BY <1>6, <2>1, <2>2 DEF ResealPlace
<1>7. ASSUME NEW r \in Run, ResealSync(r)
      PROVE  FixedInv'
  <2>1. /\ UNCHANGED <<opt, dest, side, hard, sideHard, out, wpc>>
        /\ \A s \in Run : skipped[s] => skipped'[s]
        /\ diskDest' \in {dest, diskDest} /\ diskSide' \in {side, diskSide}
    BY <1>0, <1>7 DEF ResealSync, SyncDirectory, worker, names
  <2>2. \A s \in Run : Fixed(s) => Fixed(s)'
    BY <2>1 DEF Fixed, Garbled
  <2>. QED
    BY <2>1, <2>2 DEF FixedInv
<1>8. ASSUME NEW r \in Run, Kill(r)
      PROVE  FixedInv'
  <2>1. /\ UNCHANGED <<opt, dest, side, hard, synced, out>>
        /\ \A s \in Run : wpc'[s] \in Late => wpc'[s] = wpc[s]
    BY <1>0, <1>8 DEF Kill, Dead, names, disk, Late
  <2>. QED
    BY <2>1, FixedKept
<1>9. CASE PowerLoss
  <2>1. /\ UNCHANGED <<opt, out, skipped>> /\ sideHard'
        /\ dest' \in {dest, diskDest} /\ diskDest' = dest' /\ dest' \subseteq hard'
        /\ diskSide' = side' /\ (side = diskSide /\ sideHard => side' = side)
    BY <1>0, <1>9 DEF PowerLoss, Dead
  <2>2. \A s \in Run : wpc'[s] \notin Late
    BY <1>0, <1>9 DEF PowerLoss, Dead, Alive, Working, Late
  <2>3. side' = side => (Garbled(side)' <=> Garbled(side))
    BY DEF Garbled
  <2>4. \A s \in Run : Fixed(s) => Fixed(s)'
    BY <2>1, <2>2, <2>3 DEF Fixed
  <2>. QED
    BY <2>1, <2>4 DEF FixedInv
<1>10. CASE Quiet \/ UNCHANGED vars
  BY <1>10, FixedKept DEF Quiet, vars, worker, names, disk
<1>. QED
  BY <1>1, <1>2, <1>3, <1>4, <1>5, <1>6, <1>7, <1>8, <1>9, <1>10 DEF Next, MainStep, WorkerStep

\* What a run has reported is there, whoever is killed; and whatever a power loss takes, if the
\* run forces what it writes and skips no fsync of the directory.
THEOREM ReportsHold == ASSUME WorkersOutlive = FALSE PROVE Spec => []ReportedHolds
<1> DEFINE J == /\ SealInv /\ SidecarTruthful /\ ForceInv
                /\ ResultInv /\ ResealInv /\ PresentInv /\ FixedInv
<1>1. Init => J
  BY DEF Init, SealInv, SidecarTruthful, ForceInv, ResultInv, ResealInv, PresentInv, FixedInv,
         Won, Late
<1>2. IInv /\ J /\ [Next]_vars => J'
  BY SealStep, ResultStep, ResealStep, PresentStep, FixedStep
<1>3. J => ReportedHolds
  BY DEF ResultInv, PresentInv, Present, FixedInv, Fixed, ReportedHolds, Won
<1>. QED
  BY Invariant, <1>1, <1>2, <1>3, PTL DEF Spec
=============================================================================
