--------------------------- MODULE MCCostEstimate ---------------------------
(***************************************************************************)
(* Two buckets: a gap of three days or two gaps around a present day in    *)
(* one, nothing or a day in the other.                                     *)
(***************************************************************************)
EXTENDS CostEstimate

MCMissing == {<<a, b>> : a \in {{1, 2, 3}, {1, 3}}, b \in {{}, {2}}}
=============================================================================
