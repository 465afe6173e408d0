---------------------------- MODULE MCArchiveRuns ----------------------------
(***************************************************************************)
(* Two runs one after, or beside, the other, with all write options on or  *)
(* off (--paranoid and the default) or sidecars without fsync.             *)
(***************************************************************************)
EXTENDS ArchiveRuns, TLC

CONSTANTS r1, r2

Default == [sidecars |-> FALSE, validate |-> FALSE, fsync |-> FALSE]
Sidecars == [sidecars |-> TRUE, validate |-> FALSE, fsync |-> FALSE]
Paranoid == [sidecars |-> TRUE, validate |-> TRUE, fsync |-> TRUE]

MCDefault == {Default}

MCExtremes == {Default, Paranoid}

MCOptions == {Default, Sidecars, Paranoid}

MCSymmetry == Permutations(Run)
=============================================================================
