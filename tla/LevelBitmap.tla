----------------------------- MODULE LevelBitmap -----------------------------
(***************************************************************************)
(* The bitmap of one side of the book (OrderBook::mBidBitmap and           *)
(* mAskBitmap): a vector of 64-bit words with one bit per price level,     *)
(* read from the top word down for the best bid and from the bottom word   *)
(* up for the best ask.  A word is the set of the positions of its 1 bits. *)
(***************************************************************************)
EXTENDS Integers, FiniteSetsExt

CONSTANTS
  NumOfLevels,   (* Price levels of the book: 101.                         *)
  CHUNK          (* Bits of a word: 64.                                    *)

ASSUME LevelBitmapAssumption ==
  /\ NumOfLevels \in Nat \ {0}
  /\ CHUNK \in Nat \ {0}

Level == 0 .. NumOfLevels - 1
Bit == 0 .. CHUNK - 1
NumOfWords == (NumOfLevels + CHUNK - 1) \div CHUNK
Word == 0 .. NumOfWords - 1
Bitmap == [Word -> SUBSET Bit]

NoLevel == -1    (* What the searches return for a side without a level.   *)

EmptyBitmap == [word \in Word |-> {}]

-----------------------------------------------------------------------------
(* Faulty variants of the operators below, for mutation testing.           *)
BitOf_NoModulo(level) == level

-----------------------------------------------------------------------------
(* OrderBook::indexToBitmapIndex                                           *)
WordOf(level) == level \div CHUNK
BitOf(level) == level % CHUNK

IsMarked(bitmap, level) == BitOf(level) \in bitmap[WordOf(level)]

(* setBidBitTo1 and setAskBitTo1; setBidBitTo0 and setAskBitTo0.           *)
SetBitTo1(bitmap, level) ==
  [bitmap EXCEPT ![WordOf(level)] = @ \union {BitOf(level)}]

SetBitTo0(bitmap, level) ==
  [bitmap EXCEPT ![WordOf(level)] = @ \ {BitOf(level)}]

(* findBestBidLevel: the highest 1 bit of the highest non-zero word.       *)
HighestLevel(bitmap) ==
  LET words == {w \in Word : bitmap[w] # {}}
  IN  IF words = {} THEN NoLevel
      ELSE Max(words) * CHUNK + Max(bitmap[Max(words)])

(* findBestAskLevel: the lowest 1 bit of the lowest non-zero word.         *)
LowestLevel(bitmap) ==
  LET words == {w \in Word : bitmap[w] # {}}
  IN  IF words = {} THEN NoLevel
      ELSE Min(words) * CHUNK + Min(bitmap[Min(words)])

-----------------------------------------------------------------------------
(* No bit beyond the last level is set.                                    *)
WithinLevels(bitmap) ==
  \A word \in Word : \A bit \in bitmap[word] : word * CHUNK + bit \in Level
=============================================================================
