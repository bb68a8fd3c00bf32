----------------------------- MODULE MCOrderEntry -----------------------------
(***************************************************************************)
(* Two traders that trade at the only price of the book, and other clients *)
(* who try a price next to it as well and cancel ids that are not yet, or  *)
(* never, given out.                                                       *)
(***************************************************************************)
EXTENDS OrderEntry

CONSTANTS t1, t2

TwoTraders == {t1, t2}
OneUnit == {1}
SmallVolumes == {1, 2}
BookPrices == StartOfPrice .. StartOfPrice + NumOfLevels - 1
PricesAround == BookPrices \union {StartOfPrice + NumOfLevels}
NamedIds == 0 .. MaxOrders
=============================================================================
