-------------------------- MODULE MCTerminalSessions --------------------------
(***************************************************************************)
(* Two users, who try a price that reads as a price of the book when its   *)
(* last digit is missing, in base 2.                                       *)
(***************************************************************************)
EXTENDS TerminalSessions

CONSTANTS u1, u2

TwoUsers == {u1, u2}
OneUnit == {1}
PowersOfTwo == {2, 4}
TypedPrices == {StartOfPrice, 2 * StartOfPrice}

(* The ids that are given out and 0, which is not and shares an entry.     *)
NamedIds == 0 .. MaxOrders
=============================================================================
