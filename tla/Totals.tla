-------------------------------- MODULE Totals --------------------------------
(***************************************************************************)
(* The sum of a function over a finite set, for cents, days and attempts.  *)
(***************************************************************************)
EXTENDS Integers, FiniteSets, Functions

Total(f, S) == FoldFunctionOnSet(+, 0, f, S)
=============================================================================
