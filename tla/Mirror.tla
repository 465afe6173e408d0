-------------------------------- MODULE Mirror --------------------------------
(***************************************************************************)
(* What `push` and `pull` promise, without locks, inventories, plans or    *)
(* workers.  A run has a source and a destination, its machine's archive   *)
(* and the bucket or the other way round.  It copies files from where they *)
(* are, removes what the source has not got when it may, and reports       *)
(* success when the destination mirrors the source.                        *)
(*                                                                         *)
(* That much is promised to runs that have the bucket to themselves, one   *)
(* at a time, and can read every file.  Once they cannot, nothing is.      *)
(***************************************************************************)
CONSTANTS Key, Run, Absent,
          SizeOf(_, _)         \* how long a key's content is

VARIABLES
    order,       \* what each run was told: push or pull, with deletes or without
    home,        \* each run's machine
    archive,     \* each machine's files
    bucket,      \* the bucket's
    verdict,     \* "none", then "mirrored" or "other", for each run
    alone        \* the runs have the bucket to themselves, take turns, see all files

given == <<order, home>>
vars == <<given, archive, bucket, verdict, alone>>

Source(r) == IF order[r].push THEN archive[home[r]] ELSE bucket
Target(r) == IF order[r].push THEN bucket ELSE archive[home[r]]

\* Sizes are what a mirror compares.
Mirrors(r) ==
    \A k \in Key :
        /\ Source(r)[k] # Absent =>
               Target(r)[k] # Absent /\ SizeOf(k, Source(r)[k]) = SizeOf(k, Target(r)[k])
        /\ order[r].delete /\ Source(r)[k] = Absent => Target(r)[k] = Absent

Init == verdict = [r \in Run |-> "none"]

\* The destination gets what the source has under one key.
Write(r, k) ==
    IF order[r].push
    THEN bucket' = [bucket EXCEPT ![k] = Source(r)[k]] /\ UNCHANGED archive
    ELSE archive' = [archive EXCEPT ![home[r]][k] = Source(r)[k]] /\ UNCHANGED bucket

Copy(r, k) == Source(r)[k] # Absent /\ Write(r, k)

Remove(r, k) == order[r].delete /\ Source(r)[k] = Absent /\ Write(r, k)

Move(r) ==
    /\ verdict[r] = "none"
    /\ UNCHANGED <<given, verdict, alone>>
    /\ \E k \in Key : Copy(r, k) \/ Remove(r, k)

Report(r) ==
    /\ verdict[r] = "none"
    /\ \/ verdict' = [verdict EXCEPT ![r] = "other"]
       \/ Mirrors(r) /\ verdict' = [verdict EXCEPT ![r] = "mirrored"]
    /\ alone' => alone
    /\ UNCHANGED <<given, archive, bucket>>

Disturbed == ~alone /\ ~alone' /\ UNCHANGED given

Next == Disturbed \/ \E r \in Run : Move(r) \/ Report(r)

Spec == Init /\ [][Next]_vars
=============================================================================
