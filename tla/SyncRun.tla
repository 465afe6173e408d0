-------------------------------- MODULE SyncRun --------------------------------
(***************************************************************************)
(* `push` and `pull` runs of several machines against one S3 bucket: the   *)
(* run lock of each archive, the inventories, the plan, the transfers and  *)
(* deletes on a pool of workers, and the coverage manifest (_sync/).  The  *)
(* lock guards a machine's archive only; the bucket has none.              *)
(***************************************************************************)
EXTENDS SyncPlan, FiniteSets

CONSTANTS Run,              \* the sync processes
          Machine,          \* the local archives
          Configs,          \* the command lines a run may be given
          Archives,         \* what a machine's archive may start as
          Buckets,          \* what the bucket may start as
          MaxWorkers,       \* config.max_workers
          Unreadable        \* files of the archive may be unreadable in a scan

ASSUME SyncAssumption ==
    /\ Configs \subseteq [push : BOOLEAN, mode : {"size", "sidecar", "head"},
                          verify : BOOLEAN, delete : BOOLEAN]
    /\ Archives \cup Buckets \subseteq {s \in Store : Honest(s)}
    /\ MaxWorkers \in Nat \ {0}
    /\ Unreadable \in BOOLEAN

VARIABLES
    cfg, home,       \* each run's command line and machine
    lock,            \* the runs that hold their machine's .run.lock
    pc, result,      \* each run's main thread, and how the run ended
    here, there,     \* its local and its remote inventory
    item, digest,    \* the state of each of its items, and their SyncItem.sha256
    local, tmp,      \* each machine's archive, and the temporary files in it
    remote, meta,    \* the bucket, and its data objects' Metadata.sha256
    manifest         \* the partitions the coverage manifest in the bucket lists

setup == <<cfg, home>>
control == <<lock, pc, result>>
plan == <<here, there>>
items == <<item, digest>>
archive == <<local, tmp>>
bucket == <<remote, meta, manifest>>
vars == <<setup, control, plan, items, archive, bucket>>

Nothing == [files |-> [k \in Key |-> Absent], digest |-> [p \in Part |-> Absent]]
NoItems == [k \in Key |-> "none"]

\* An item is planned, then in a worker's hands, then settled.  A download is
\* fetched into a temporary file and checked before it replaces the file.
Planned == {"transfer", "delete"}
Busy == {"moving", "fetched", "checked", "deleting"}
ItemState == Planned \cup Busy \cup {"none", "moved", "deleted", "failed", "raised"}

ItemsIn(r, S) == {k \in Key : item[r][k] \in S}

Init ==
    /\ cfg \in [Run -> Configs]
    /\ home \in [Run -> Machine]
    /\ lock = {}
    /\ pc = [r \in Run |-> "idle"] /\ result = [r \in Run |-> "none"]
    /\ here = [r \in Run |-> Nothing] /\ there = [r \in Run |-> Nothing]
    /\ item = [r \in Run |-> NoItems]
    /\ digest = [r \in Run |-> Nothing.digest]
    /\ local \in [Machine -> Archives]
    \* an archive no run works on is left out of account
    /\ \A m \in Machine : (\A r \in Run : home[r] # m) => local[m] = Nothing.files
    /\ tmp = [m \in Machine |-> Nothing.files]
    /\ remote \in Buckets
    \* an object uploaded before its sidecar was written carries no metadata
    /\ meta \in {[p \in Part |-> remote[Side(p)]], Nothing.digest}
    /\ manifest = {p \in Part : remote[Data(p)] # Absent}

-----------------------------------------------------------------------------
(* run_sync *)

At(r, state) == pc[r] = state
To(r, state) == pc' = [pc EXCEPT ![r] = state] /\ UNCHANGED <<lock, result>>

Leave(r, how) ==
    /\ pc' = [pc EXCEPT ![r] = "done"]
    /\ result' = [result EXCEPT ![r] = how]
    /\ lock' = lock \ {r}

LockFree(r) == \A s \in lock : home[s] # home[r]

Refuse(r) ==
    /\ At(r, "idle") /\ ~LockFree(r)
    /\ Leave(r, "refused")
    /\ UNCHANGED <<setup, plan, items, archive, bucket>>

Acquire(r) ==
    /\ At(r, "idle") /\ LockFree(r)
    /\ lock' = lock \cup {r}
    /\ pc' = [pc EXCEPT ![r] = "walk"]
    /\ UNCHANGED <<setup, result, plan, items, archive, bucket>>

\* walk_local: an OSError of scandir or stat is logged and the files passed over.
Readable(files) ==
    {s \in Store : \A k \in Key : s[k] = files[k] \/ (Unreadable /\ s[k] = Absent)}

WalkLocal(r) ==
    /\ At(r, "walk")
    /\ \E files \in Readable(local[home[r]]) :
           here' = [here EXCEPT ![r] =
               [files |-> files, digest |-> [p \in Part |-> KnownDigest(files, p)]]]
    /\ To(r, "list")
    /\ UNCHANGED <<setup, there, items, archive, bucket>>

\* list_remote: the listing first, ...
ListRemote(r) ==
    /\ At(r, "list")
    /\ there' = [there EXCEPT ![r].files = remote]
    /\ To(r, "digests")
    /\ UNCHANGED <<setup, here, items, archive, bucket>>

\* _effective_planning_mode
PlanningMode(c) == IF ~c.push /\ c.verify /\ c.mode = "size" THEN "head" ELSE c.mode

\* ... then one request per listed key for its digest, answered as the bucket is
\* by then.  A sidecar that is gone is an error, an object that is gone is not.
RemoteDigest(r, p) ==
    CASE PlanningMode(cfg[r]) = "size" -> Absent
      [] PlanningMode(cfg[r]) = "head" ->
             IF there[r].files[Data(p)] # Absent /\ remote[Data(p)] # Absent THEN meta[p] ELSE Absent
      [] OTHER ->
             IF there[r].files[Data(p)] # Absent /\ there[r].files[Side(p)] # Absent
             THEN remote[Side(p)] ELSE Absent

SidecarGone(r) ==
    /\ PlanningMode(cfg[r]) = "sidecar"
    /\ \E p \in Part : /\ there[r].files[Data(p)] # Absent
                       /\ there[r].files[Side(p)] # Absent
                       /\ remote[Side(p)] = Absent

\* S3 refuses or fails a request of the inventory: the error leaves run_sync.
InventoryFails(r) ==
    /\ pc[r] \in {"list", "digests"}
    /\ Leave(r, "error")
    /\ here' = [here EXCEPT ![r] = Nothing] /\ there' = [there EXCEPT ![r] = Nothing]
    /\ UNCHANGED <<setup, items, archive, bucket>>

\* compute_plan, and the dry run or the user who says no.
RemoteInventory(r) == [there[r] EXCEPT !.digest = [p \in Part |-> RemoteDigest(r, p)]]

Source(r) == IF cfg[r].push THEN here[r] ELSE RemoteInventory(r)
Target(r) == IF cfg[r].push THEN RemoteInventory(r) ELSE here[r]

Deletes(r) == IF cfg[r].delete THEN Extraneous(Source(r), Target(r)) ELSE {}

ComputePlan(r) ==
    LET transfers == Transfers(PlanningMode(cfg[r]), Source(r), Target(r))
    IN  /\ At(r, "digests") /\ ~SidecarGone(r)
        /\ here' = [here EXCEPT ![r] = Nothing] /\ there' = [there EXCEPT ![r] = Nothing]
        /\ \/ /\ Leave(r, IF transfers \cup Deletes(r) = {} THEN "noop" ELSE "declined")
              /\ UNCHANGED items
           \/ /\ transfers \cup Deletes(r) # {}
              /\ item' = [item EXCEPT ![r] =
                     [k \in Key |-> IF k \in transfers THEN "transfer"
                                    ELSE IF k \in Deletes(r) THEN "delete" ELSE "none"]]
              /\ digest' = [digest EXCEPT ![r] = Source(r).digest]
              /\ To(r, "run")
        /\ UNCHANGED <<setup, archive, bucket>>

-----------------------------------------------------------------------------
(* _sync_run: the pool *)

Settle(r, k, state) == item' = [item EXCEPT ![r][k] = state]

Cancelled(r) == [k \in Key |-> IF item[r][k] \in Planned THEN "none" ELSE item[r][k]]

\* The plan ends with the process.
Forget(r) ==
    /\ item' = [item EXCEPT ![r] = NoItems]
    /\ digest' = [digest EXCEPT ![r] = Nothing.digest]

HasRoom(r) == Cardinality(ItemsIn(r, Busy \cup {"raised"})) < MaxWorkers

\* Transfers are submitted before deletes, which do not wait for their success.
\* A raised error holds its worker until it is collected.
Begin(r, k) ==
    /\ At(r, "run") /\ HasRoom(r)
    /\ \/ item[r][k] = "transfer" /\ Settle(r, k, "moving")
       \/ /\ item[r][k] = "delete" /\ ItemsIn(r, {"transfer"}) = {}
          /\ Settle(r, k, "deleting")
    /\ UNCHANGED <<setup, control, plan, digest, archive, bucket>>

\* A retryable error or a local one fails the item, any other error is fatal.
Fail_Mutant(r, k) ==
    \/ Settle(r, k, "error")
    \/ Settle(r, k, "raised")

Fail(r, k) ==
    \/ Settle(r, k, "failed")
    \/ Settle(r, k, "raised")

Put(r, k) ==
    /\ remote' = [remote EXCEPT ![k] = local[home[r]][k]]
    /\ meta' = IF IsData(k) THEN [meta EXCEPT ![k[1]] = digest[r][k[1]]] ELSE meta

\* upload_one.  A request that timed out may have been carried out.
Upload(r, k) ==
    /\ cfg[r].push /\ item[r][k] = "moving"
    /\ \/ /\ local[home[r]][k] # Absent
          /\ Put(r, k)
          /\ Settle(r, k, "moved") \/ Fail(r, k)
       \/ Fail(r, k) /\ UNCHANGED <<remote, meta>>
    /\ UNCHANGED <<setup, control, plan, digest, archive, manifest>>

\* download_one: into the temporary file, ...
Fetch(r, k) ==
    /\ ~cfg[r].push /\ item[r][k] = "moving"
    /\ \/ /\ remote[k] # Absent
          /\ tmp' = [tmp EXCEPT ![home[r]][k] = remote[k]]
          /\ Settle(r, k, "fetched")
       \/ /\ tmp' = [tmp EXCEPT ![home[r]][k] = Absent]
          /\ Fail(r, k)
    /\ UNCHANGED <<setup, control, plan, digest, local, bucket>>

\* ... compared with the digest of the plan if there is one, ...
Verifies_Mutant(r, k) == FALSE

Verifies(r, k) == cfg[r].verify /\ IsData(k) /\ digest[r][k[1]] # Absent

Check(r, k) ==
    /\ item[r][k] = "fetched"
    /\ IF Verifies(r, k) => tmp[home[r]][k] = digest[r][k[1]]
       THEN Settle(r, k, "checked") /\ UNCHANGED tmp
       ELSE /\ tmp' = [tmp EXCEPT ![home[r]][k] = Absent]
            /\ Settle(r, k, "failed")
    /\ UNCHANGED <<setup, control, plan, digest, local, bucket>>

\* ... and renamed over the file.
Replace(r, k) ==
    /\ item[r][k] = "checked"
    /\ IF tmp[home[r]][k] # Absent
       THEN /\ local' = [local EXCEPT ![home[r]][k] = tmp[home[r]][k]]
            /\ tmp' = [tmp EXCEPT ![home[r]][k] = Absent]
            /\ Settle(r, k, "moved")
       ELSE Settle(r, k, "raised") /\ UNCHANGED archive
    /\ UNCHANGED <<setup, control, plan, digest, bucket>>

\* delete_one
DeleteRemote(r, k) ==
    /\ cfg[r].push /\ item[r][k] = "deleting"
    /\ \/ /\ remote' = [remote EXCEPT ![k] = Absent]
          /\ meta' = IF IsData(k) THEN [meta EXCEPT ![k[1]] = Absent] ELSE meta
          /\ Settle(r, k, "deleted") \/ Fail(r, k)
       \/ Fail(r, k) /\ UNCHANGED <<remote, meta>>
    /\ UNCHANGED <<setup, control, plan, digest, archive, manifest>>

DeleteLocal(r, k) ==
    /\ ~cfg[r].push /\ item[r][k] = "deleting"
    /\ \/ /\ local' = [local EXCEPT ![home[r]][k] = Absent]
          /\ Settle(r, k, "deleted")
       \/ Settle(r, k, "failed") /\ UNCHANGED local
    /\ UNCHANGED <<setup, control, plan, digest, tmp, bucket>>

-----------------------------------------------------------------------------
(* ... and the end of the run *)

\* A fatal error cancels what no worker has begun and waits for nobody: the busy
\* workers go on after the lock is released.
Fatal(r) ==
    /\ At(r, "run") /\ ItemsIn(r, {"raised"}) # {}
    /\ IF ItemsIn(r, Busy) = {} THEN Forget(r)
       ELSE item' = [item EXCEPT ![r] = Cancelled(r)] /\ UNCHANGED digest
    /\ Leave(r, "fatal")
    /\ UNCHANGED <<setup, plan, archive, bucket>>

\* A signal cancels it too, and waits for the busy workers.
Interrupt(r) ==
    /\ At(r, "run")
    /\ item' = [item EXCEPT ![r] = Cancelled(r)]
    /\ To(r, "drain")
    /\ UNCHANGED <<setup, plan, digest, archive, bucket>>

Drained(r) ==
    /\ At(r, "drain") /\ ItemsIn(r, Busy) = {}
    /\ Leave(r, "interrupted")
    /\ Forget(r)
    /\ UNCHANGED <<setup, plan, archive, bucket>>

\* A second signal breaks the wait off: the lock is released, the busy workers go on.
BreakOff(r) ==
    /\ At(r, "drain") /\ ItemsIn(r, Busy) # {}
    /\ Leave(r, "broken_off")
    /\ UNCHANGED <<setup, plan, items, archive, bucket>>

\* When all is settled _refresh_coverage_manifest lists the bucket again; after a push without a
\* failure it uploads what it saw.
Failed_Mutant(r) == FALSE

Failed(r) == ItemsIn(r, {"failed"}) # {}

Uploads_Mutant(r) == cfg[r].push /\ Failed(r)

Uploads(r) == cfg[r].push /\ ~Failed(r)

Refresh(r) ==
    /\ At(r, "run") /\ ItemsIn(r, Planned \cup Busy \cup {"raised"}) = {}
    /\ UNCHANGED <<setup, here, archive, bucket>>
    /\ \/ Leave(r, "error") /\ Forget(r) /\ UNCHANGED there
       \/ /\ Uploads(r)
          /\ there' = [there EXCEPT ![r].files = remote]
          /\ To(r, "publish")
          /\ UNCHANGED items
       \/ /\ ~Uploads(r)
          /\ Leave(r, IF Failed(r) THEN "failed" ELSE "ok")
          /\ Forget(r)
          /\ UNCHANGED there

Publish(r) ==
    /\ At(r, "publish")
    /\ there' = [there EXCEPT ![r] = Nothing]
    /\ \/ /\ manifest' = {p \in Part : there[r].files[Data(p)] # Absent}
          /\ \E how \in {"ok", "error"} : Leave(r, how)
       \/ Leave(r, "error") /\ UNCHANGED manifest
    /\ Forget(r)
    /\ UNCHANGED <<setup, here, archive, remote, meta>>

Alive(r) == pc[r] \notin {"idle", "done"} \/ ItemsIn(r, Busy) # {}

\* The process is killed; its temporary files stay.
Kill(r) ==
    /\ Alive(r)
    /\ IF At(r, "done") THEN UNCHANGED control ELSE Leave(r, "killed")
    /\ Forget(r)
    /\ here' = [here EXCEPT ![r] = Nothing] /\ there' = [there EXCEPT ![r] = Nothing]
    /\ UNCHANGED <<setup, archive, bucket>>

Quiet ==
    /\ \A r \in Run : At(r, "done") /\ ~Alive(r)
    /\ UNCHANGED vars

MainStep(r) ==
    \/ Refuse(r) \/ Acquire(r) \/ WalkLocal(r) \/ ListRemote(r) \/ InventoryFails(r)
    \/ ComputePlan(r) \/ Fatal(r) \/ Interrupt(r) \/ Drained(r) \/ BreakOff(r)
    \/ Refresh(r) \/ Publish(r)

WorkerStep(r) ==
    \E k \in Key : \/ Begin(r, k) \/ Upload(r, k) \/ Fetch(r, k) \/ Check(r, k)
                   \/ Replace(r, k) \/ DeleteRemote(r, k) \/ DeleteLocal(r, k)

Next == (\E r \in Run : MainStep(r) \/ WorkerStep(r) \/ Kill(r)) \/ Quiet

Spec == Init /\ [][Next]_vars

-----------------------------------------------------------------------------
(* Properties *)

\* Types of the variables.
TypeOK ==
    /\ cfg \in [Run -> Configs] /\ home \in [Run -> Machine]
    /\ lock \in SUBSET Run
    /\ pc \in [Run -> {"idle", "walk", "list", "digests", "run", "drain", "publish", "done"}]
    /\ result \in [Run -> {"none", "refused", "error", "noop", "declined", "ok", "failed",
                           "fatal", "interrupted", "broken_off", "killed"}]
    /\ here \in [Run -> Inventory] /\ there \in [Run -> Inventory]
    /\ item \in [Run -> [Key -> ItemState]]
    /\ digest \in [Run -> [Part -> Value]]
    /\ local \in [Machine -> Store] /\ tmp \in [Machine -> Store]
    /\ remote \in Store /\ meta \in [Part -> Value]
    /\ manifest \in SUBSET Part

\* How a run ends that does not wait for its workers.
Unwaited == {"fatal", "broken_off"}

\* The runs take turns: one machine uses the bucket, its lock keeps them apart and
\* none has left workers behind without it.
TakingTurns ==
    /\ \A r, s \in Run : home[r] = home[s]
    /\ \A r \in Run : result[r] \notin Unwaited

\* ... and a scan of the archive sees every file.
Undisturbed == TakingTurns /\ ~Unreadable

\* How a run ended, if it ended in this step.
Ends(r, how) == result[r] = "none" /\ result'[r] \in how

\* What has become of a run, as its caller sees it.
Verdict(how) ==
    CASE how = "none" -> how [] how \in {"ok", "noop"} -> "mirrored" [] OTHER -> "other"

M == INSTANCE Mirror WITH
    order <- cfg, archive <- local, bucket <- remote,
    verdict <- [r \in Run |-> Verdict(result[r])],
    alone <- Undisturbed

\* The runs implement the mirror: as long as they take turns and can read every file,
\* a file that arrives is what the source has under that name by then, nothing is
\* removed that the source has, and exit code 0 means mirrored, whatever failed, was
\* cut short or was killed before: every file of the source is then at the destination
\* with the same size, and after --delete there is nothing else.  Of contents of the
\* same size nothing is said.
MirrorImplemented == M!Spec

\* Archives that keep a sidecar beside every file stay so, and truthful, on both
\* sides, as long as every file can be read and no run failed, was cut short or was
\* killed: a plan never moves a data file without its sidecar.
PairsKept ==
    /\ Undisturbed
    /\ \A r \in Run : pc[r] \in {"idle", "done"}
    /\ \A r \in Run : result[r] \in {"none", "refused", "noop", "declined", "ok"}
    => Honest(remote) /\ \A m \in Machine : Honest(local[m])

\* A pull with --verify-sha256 whose plan knows a file's digest puts no other file in
\* place, even if another machine replaces the object after the listing, as long as no
\* run at the archive left workers behind, which write to the same temporary files.
VerifiedPull ==
    [][\A r \in Run, p \in Part :
          /\ \A s \in Run : home[s] = home[r] => result[s] \notin Unwaited
          /\ cfg[r].verify /\ digest[r][p] # Absent
          /\ item[r][Data(p)] = "checked" /\ item'[r][Data(p)] = "moved"
          => local'[home[r]][Data(p)] = digest[r][p]]_vars

\* README: "--delete removes destination-only files": nothing is removed on one side
\* that the other side has at that moment.
DeletesOnlyExtraneous ==
    [][TakingTurns => \A m \in Machine, k \in Key :
          /\ (\E r \in Run : home[r] = m) /\ local[m][k] # Absent
          /\ remote[k] # Absent
          => local'[m][k] # Absent /\ remote'[k] # Absent]_vars

\* A push that had something to do and returns 0 leaves a manifest in the bucket that
\* lists what is there.  (One that had nothing to do returns 0 too, and leaves the
\* manifest as it found it.)
ManifestCurrent ==
    [][TakingTurns => \A r \in Run :
          cfg[r].push /\ Ends(r, {"ok"}) =>
              manifest' = {p \in Part : remote[Data(p)] # Absent}]_vars

\* walk_local's docstring: sidecars are synced themselves "so a fresh pull restores
\* the integrity proof": after a push that returned 0 the bucket's pairs match.
ProofRestorable ==
    [][TakingTurns => \A r \in Run :
          cfg[r].push /\ Ends(r, {"ok", "noop"}) /\ Honest(local[home[r]]) =>
              Honest(remote)]_vars
=============================================================================
