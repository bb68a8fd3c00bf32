---------------------------- MODULE MCCancelHistory ----------------------------
(***************************************************************************)
(* A small engine with its history: three price levels in words of two     *)
(* bits, so that the levels span two words and the last is not full; ints  *)
(* of 3 bits and 64-bit integers of 5 bits; and clients that cancel ids    *)
(* before they are given out, and one that never is.                       *)
(***************************************************************************)
EXTENDS CancelHistory

SmallVolumes == {1, 2}

(* The last price of the first word and the first price of the second, and *)
(* a price beyond int that priceToIndex takes for the latter.              *)
BoundaryPrices == {StartOfPrice + CHUNK - 1, StartOfPrice + CHUNK,
                   StartOfPrice + CHUNK + 2 * INT_LIMIT}

NamedIds == 1 .. MaxOrders + 1
=============================================================================
