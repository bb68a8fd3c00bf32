--------------------------- MODULE MachineIntegers ---------------------------
(***************************************************************************)
(* The two C++ integer types that the order path mixes: u_int64_t, in      *)
(* which volumes, prices and ids are stored, and int, through which        *)
(* Order::GetVolume, Price::getPriceInTicks, Order::reduceVolume and       *)
(* OrderBook::priceToIndex pass them.  A conversion to a type keeps the    *)
(* value modulo the size of the type (C++20), so a 64-bit value outside    *)
(* the range of int comes back as a different number.                      *)
(***************************************************************************)
EXTENDS Integers, FiniteSetsExt

CONSTANTS
  INT_LIMIT,     (* 2^31: an int lies in -INT_LIMIT .. INT_LIMIT - 1.      *)
  U64_LIMIT      (* 2^64: a u_int64_t lies in 0 .. U64_LIMIT - 1.          *)

(* An int is narrower than a u_int64_t and both hold a power of two of     *)
(* values, so that the size of the one divides the size of the other.      *)
ASSUME MachineIntegersAssumption ==
  /\ INT_LIMIT \in Nat \ {0}
  /\ U64_LIMIT \in Nat \ {0}
  /\ 2 * INT_LIMIT < U64_LIMIT
  /\ U64_LIMIT % (2 * INT_LIMIT) = 0

U64 == 0 .. U64_LIMIT - 1
Int32 == -INT_LIMIT .. INT_LIMIT - 1

(* Implicit conversion of an integer to u_int64_t.                         *)
ToU64(n) == n % U64_LIMIT

(* Implicit conversion of an integer to int.                               *)
ToInt(n) ==
  LET residue == n % (2 * INT_LIMIT)
  IN  IF residue < INT_LIMIT THEN residue ELSE residue - 2 * INT_LIMIT

-----------------------------------------------------------------------------
(* Faulty variants of the operators below, for mutation testing.           *)
TradeVolume_Larger(ask, bid) == ToU64(Max({ToInt(ask), ToInt(bid)}))

-----------------------------------------------------------------------------
(* Order::GetVolume returns the 64-bit mVolume as an int.                  *)
GetVolume(volume) == ToInt(volume)

(* Price::getPriceInTicks returns the 64-bit price as an int.              *)
GetPriceInTicks(price) == ToInt(price)

(* Order::reduceVolume: what it leaves in mVolume.  The reduction is       *)
(* capped to the volume and then stored in an int; subtracting a negative  *)
(* int from the u_int64_t volume increases it.                             *)
ReduceVolume(volume, reduction) ==
  IF volume = 0
  THEN 0
  ELSE ToU64(volume - ToInt(Min({volume, reduction})))

(* matchLimitOrders: the smaller of two ints, kept in a u_int64_t.         *)
TradeVolume(ask, bid) == ToU64(Min({GetVolume(ask), GetVolume(bid)}))
=============================================================================
