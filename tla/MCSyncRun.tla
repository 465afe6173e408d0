------------------------------ MODULE MCSyncRun ------------------------------
(***************************************************************************)
(* Two runs, on one machine or on two, and one partition with its sidecar: *)
(* an archive has it or nothing, the bucket a larger file of that name.    *)
(***************************************************************************)
EXTENDS SyncRun, TLC

CONSTANTS r1, r2, m1, m2, p1, old, large

MCSize == (old :> 1) @@ (large :> 2)

\* The partition with its sidecar.
Sealed(content) == [k \in Key |-> content]

\* Files of different sizes have sidecars of one size.  A mirroring run makes the other
\* side empty, or equal.
MCArchives == {Sealed(Absent), Sealed(old)}
MCBuckets == {Sealed(large)}

Command(push, mode, verify, delete) ==
    [push |-> push, mode |-> mode, verify |-> verify, delete |-> delete]

Push == Command(TRUE, "size", FALSE, FALSE)
PushMirror == Command(TRUE, "sidecar", FALSE, TRUE)
PullMirror == Command(FALSE, "size", TRUE, TRUE)

MCConfigs == {Push, PushMirror, PullMirror}
MCPush == {Push}
MCPushMirror == {PushMirror}

MCSymmetry == Permutations({r1, r2}) \cup Permutations({m1, m2})
=============================================================================
