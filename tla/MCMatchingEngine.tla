--------------------------- MODULE MCMatchingEngine ---------------------------
(***************************************************************************)
(* Small instances of the matching engine, with volumes of every kind,     *)
(* prices inside and outside the book, and ids given out or not.           *)
(***************************************************************************)
EXTENDS MatchingEngine

(* Volumes that an int holds and prices of the book.                       *)
SmallVolumes == {1, 2}
BookPrices == StartOfPrice .. StartOfPrice + NumOfLevels - 1

(* Volumes that are zero, that fit an int, that read as a negative int and *)
(* that read as zero.                                                      *)
AllVolumes == {0, 1, INT_LIMIT, 2 * INT_LIMIT, U64_LIMIT - 1}

(* The prices next to the book's as well.                                  *)
PricesAround == StartOfPrice - 1 .. StartOfPrice + NumOfLevels

(* The ids that are given out, without and with one that is not.           *)
GivenIds == 1 .. MaxOrders
NamedIds == GivenIds \union {MaxOrders + 1}

(* A volume that does not fit an int.                                      *)
VolumesBeyondInt == {1, INT_LIMIT}
=============================================================================
