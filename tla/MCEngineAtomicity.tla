--------------------------- MODULE MCEngineAtomicity ---------------------------
(***************************************************************************)
(* A stepwise engine with two levels, and prices on both sides of them.    *)
(***************************************************************************)
EXTENDS EngineAtomicity

SmallVolumes == {1, 2}
PricesAround == StartOfPrice - 1 .. StartOfPrice + NumOfLevels

(* Id 1 has a table entry to itself until id 3 is given out; ids 2 and 4   *)
(* share theirs with id 6, which never is.                                 *)
NamedIds == {1, 2, 4, 6}
=============================================================================
