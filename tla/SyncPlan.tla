------------------------------- MODULE SyncPlan -------------------------------
(***************************************************************************)
(* What `push` and `pull` decide to move and to delete, from an inventory  *)
(* of the source and one of the destination (_sync/inventory.py).          *)
(*                                                                         *)
(* A key is a partition's data file or its SHA256 sidecar.  A store maps   *)
(* each key to a content; a sidecar's content is the content whose digest  *)
(* it states.  All sidecars of a partition have the same size.             *)
(***************************************************************************)
EXTENDS Naturals

CONSTANTS Part,         \* the partitions
          Content,      \* what their data files may hold
          Size          \* [Content -> Nat]

ASSUME SyncPlanAssumption ==
    /\ "absent" \notin Content
    /\ Size \in [Content -> Nat]

Absent == "absent"
Value == Content \cup {Absent}

Key == Part \X {"data", "side"}
Data(p) == <<p, "data">>
Side(p) == <<p, "side">>
IsData(k) == k[2] = "data"

Store == [Key -> Value]

\* A sidecar tells the truth about the data file beside it.
Honest(store) == \A p \in Part : store[Side(p)] \in {Absent, store[Data(p)]}

SizeOf(k, v) == IF IsData(k) THEN Size[v] ELSE 0

\* The digest an inventory attaches to a data file: what its sidecar states.
KnownDigest(files, p) == IF files[Data(p)] = Absent THEN Absent ELSE files[Side(p)]

\* An inventory: the files seen, and the digests known of the data files.
Inventory == [files : Store, digest : [Part -> Value]]

SameDigest(k, one, other) ==
    LET d == one.digest[k[1]]
        e == other.digest[k[1]]
    IN  IsData(k) /\ d # Absent /\ e # Absent => d = e

EntriesMatch(mode, k, one, other) ==
    /\ SizeOf(k, one.files[k]) = SizeOf(k, other.files[k])
    /\ mode # "size" => SameDigest(k, one, other)

Differs(mode, source, target, k) ==
    /\ source.files[k] # Absent
    /\ target.files[k] = Absent \/ ~EntriesMatch(mode, k, source, target)

\* A data file that is transferred takes its sidecar along.
Transfers_Mutant(mode, source, target) ==
    {k \in Key : Differs(mode, source, target, k)}

Transfers(mode, source, target) ==
    {k \in Key : \/ Differs(mode, source, target, k)
                 \/ /\ ~IsData(k) /\ source.files[k] # Absent
                    /\ Differs(mode, source, target, Data(k[1]))}

\* The destination-only keys.
Extraneous(source, target) ==
    {k \in Key : source.files[k] = Absent /\ target.files[k] # Absent}
=============================================================================
