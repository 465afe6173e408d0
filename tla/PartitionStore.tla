---------------------------- MODULE PartitionStore ----------------------------
(***************************************************************************)
(* What the archive promises of one partition: it is written once and as a *)
(* whole, nothing ever overwrites or removes it, and only a power loss may *)
(* take or tear a file that was not forced to disk.  Module ArchiveRuns is *)
(* shown to implement it.                                                  *)
(***************************************************************************)
CONSTANT Complete           \* the contents a finished stream can have

VARIABLES file,             \* "absent", a complete content, or "torn"
          kept              \* what `file` says would survive a power loss

store == <<file, kept>>

Init == file = "absent" /\ kept = TRUE

Place(c) ==
    /\ file = "absent"
    /\ file' = c
    /\ kept' \in BOOLEAN

Persist == kept' = TRUE /\ UNCHANGED file

PowerLoss ==
    /\ kept = FALSE
    /\ file' \in {file, "absent", "torn"}
    /\ kept' = TRUE

Next == Persist \/ PowerLoss \/ \E c \in Complete : Place(c)

Spec == Init /\ [][Next]_store
=============================================================================
