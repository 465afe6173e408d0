--------------------------- MODULE MCStreamMissing ---------------------------
(***************************************************************************)
(* Two buckets, three partitions in one and one in the other, two workers. *)
(***************************************************************************)
EXTENDS StreamMissing, TLC

CONSTANTS k1, k2

MCWork == <<k1, k1, k1, k2>>
MCWeekdays == (k1 :> 3) @@ (k2 :> 1)
=============================================================================
