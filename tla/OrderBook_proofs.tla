--------------------------- MODULE OrderBook_proofs ---------------------------
(***************************************************************************)
(* Lemmas about what the order book is made of, for every number of        *)
(* levels, word size, integer width and pool size: the conversions between *)
(* integer types, the bitmap of a side, and the sequences of slots.        *)
(***************************************************************************)
EXTENDS OrderBook, WellFoundedInduction, SequenceTheorems, TLAPS

-----------------------------------------------------------------------------
(* Integer types.  Both conversions keep the residue modulo the size of    *)
(* int, and nothing else of them is needed to tell what a match does with  *)
(* wide volumes.                                                           *)
IntSize == 2 * INT_LIMIT

Residue(n) == n % IntSize

-----------------------------------------------------------------------------
(* Quotient and remainder are unique.                                      *)
LEMMA RemainderIsUnique ==
  ASSUME NEW m \in Nat \ {0}, NEW q \in Int, NEW r \in 0 .. m - 1
  PROVE  (m * q + r) % m = r
<1> DEFINE n == m * q + r
           p == n \div m
           s == n % m
<1>1. n \in Int /\ p \in Int /\ s \in 0 .. m - 1 /\ n = m * p + s
  OBVIOUS
<1>2. m * (q - p) = s - r
  BY <1>1
<1> HIDE DEF n, p, s
<1>3. CASE q - p >= 1
  BY <1>1, <1>2, <1>3
<1>4. CASE q - p <= -1
  BY <1>1, <1>2, <1>4
<1>5. CASE q = p
  BY <1>1, <1>5 DEF n, s
<1>6. QED
  BY <1>1, <1>3, <1>4, <1>5

(* An integer is a multiple of IntSize and its residue.                    *)
LEMMA ResidueProperties ==
  ASSUME NEW n \in Int
  PROVE  /\ IntSize \in Nat \ {0}
         /\ Residue(n) \in 0 .. IntSize - 1
         /\ \E q \in Int : n = IntSize * q + Residue(n)
<1>1. IntSize \in Nat \ {0}
  BY MachineIntegersAssumption DEF IntSize
<1>2. n = IntSize * (n \div IntSize) + Residue(n) /\ n \div IntSize \in Int
  BY <1>1 DEF Residue
<1>3. Residue(n) \in 0 .. IntSize - 1
  BY <1>1 DEF Residue
<1>4. \E q \in Int : n = IntSize * q + Residue(n)
  BY <1>2
<1>5. QED
  BY <1>1, <1>3, <1>4

(* Integers that differ by a multiple of IntSize have the same residue.    *)
LEMMA ResidueOfShifted ==
  ASSUME NEW n \in Int, NEW k \in Int
  PROVE  Residue(n + IntSize * k) = Residue(n)
<1>1. PICK q \in Int : n = IntSize * q + Residue(n)
  BY ResidueProperties
<1>2. IntSize \in Nat \ {0} /\ Residue(n) \in 0 .. IntSize - 1
  BY ResidueProperties
<1>3. n + IntSize * k = IntSize * (q + k) + Residue(n)
  BY <1>1, <1>2
<1>4. (IntSize * (q + k) + Residue(n)) % IntSize = Residue(n)
  BY <1>2, RemainderIsUnique
<1>5. QED
  BY <1>3, <1>4 DEF Residue

(* Residues of differences and sums.                                       *)
LEMMA ResidueOfSameResidues ==
  ASSUME NEW a \in Int, NEW b \in Int, NEW c \in Int, Residue(a) = Residue(b)
  PROVE  /\ Residue(a - b) = 0
         /\ Residue(a + c) = Residue(b + c)
<1>1. PICK p \in Int : a = IntSize * p + Residue(a)
  BY ResidueProperties
<1>2. PICK q \in Int : b = IntSize * q + Residue(b)
  BY ResidueProperties
<1>3. IntSize \in Nat \ {0} /\ Residue(a) \in Int
  BY ResidueProperties
<1>4. a - b = 0 + IntSize * (p - q) /\ a + c = b + c + IntSize * (p - q)
  <2> DEFINE r == Residue(a)
  <2>1. r \in Int /\ a = IntSize * p + r /\ b = IntSize * q + r
    BY <1>1, <1>2, <1>3
  <2> HIDE DEF r
  <2>2. IntSize * (p - q) = IntSize * p - IntSize * q
    BY <1>3
  <2>3. IntSize * p \in Int /\ IntSize * q \in Int
    BY <1>3
  <2>4. QED
    BY <2>1, <2>2, <2>3
<1>5. Residue(0 + IntSize * (p - q)) = Residue(0)
  BY ResidueOfShifted
<1>6. Residue(b + c + IntSize * (p - q)) = Residue(b + c)
  BY ResidueOfShifted
<1>7. Residue(0) = 0
  BY <1>3 DEF Residue
<1>8. QED
  BY <1>4, <1>5, <1>6, <1>7

-----------------------------------------------------------------------------
(* A conversion to u_int64_t keeps the residue.                            *)
LEMMA ToU64KeepsResidue ==
  ASSUME NEW n \in Int
  PROVE  ToU64(n) \in U64 /\ Residue(ToU64(n)) = Residue(n)
<1>1. PICK q \in Int : n = U64_LIMIT * q + ToU64(n)
  <2>1. n = U64_LIMIT * (n \div U64_LIMIT) + ToU64(n) /\ n \div U64_LIMIT \in Int
    BY MachineIntegersAssumption DEF ToU64
  <2>2. QED
    BY <2>1
<1>2. PICK k \in Int : U64_LIMIT = IntSize * k
  <2>1. U64_LIMIT \in Int /\ Residue(U64_LIMIT) = 0
    BY MachineIntegersAssumption DEF Residue, IntSize
  <2>2. QED
    BY <2>1, ResidueProperties
<1>3. ToU64(n) \in U64 /\ ToU64(n) \in Int /\ IntSize \in Nat
  BY MachineIntegersAssumption DEF ToU64, U64, IntSize
<1>4. n = ToU64(n) + IntSize * (k * q) /\ k * q \in Int
  BY <1>1, <1>2, <1>3
<1>5. QED
  BY <1>3, <1>4, ResidueOfShifted

(* A conversion to int keeps the residue and depends on nothing else.      *)
LEMMA ToIntKeepsResidue ==
  ASSUME NEW n \in Int
  PROVE  /\ ToInt(n) \in Int32
         /\ Residue(ToInt(n)) = Residue(n)
         /\ \A m \in Int : Residue(m) = Residue(n) => ToInt(m) = ToInt(n)
         /\ n \in 0 .. INT_LIMIT - 1 => ToInt(n) = n
<1>1. ToInt(n) = IF Residue(n) < INT_LIMIT THEN Residue(n) ELSE Residue(n) - IntSize
  BY DEF ToInt, Residue, IntSize
<1>2. IntSize \in Nat \ {0} /\ Residue(n) \in 0 .. IntSize - 1
  BY ResidueProperties
<1>3. ToInt(n) \in Int32
  BY <1>1, <1>2, MachineIntegersAssumption DEF IntSize, Int32
<1>4. \A r \in 0 .. IntSize - 1 : Residue(r) = r
  BY <1>2 DEF Residue
<1>5. Residue(ToInt(n)) = Residue(n)
  <2>1. CASE Residue(n) < INT_LIMIT
    BY <1>1, <1>2, <1>4, <2>1
  <2>2. CASE ~(Residue(n) < INT_LIMIT)
    <3>1. ToInt(n) = Residue(n) + IntSize * (-1)
      BY <1>1, <1>2, <2>2
    <3>2. Residue(Residue(n) + IntSize * (-1)) = Residue(Residue(n))
      <4>1. Residue(n) \in Int /\ -1 \in Int
        BY <1>2
      <4>2. QED
        BY <4>1, ResidueOfShifted
    <3>3. QED
      BY <1>2, <1>4, <3>1, <3>2
  <2>3. QED
    BY <2>1, <2>2
<1>6. \A m \in Int : Residue(m) = Residue(n) => ToInt(m) = ToInt(n)
  BY DEF ToInt, Residue, IntSize
<1>7. n \in 0 .. INT_LIMIT - 1 => ToInt(n) = n
  BY <1>1, <1>4, MachineIntegersAssumption DEF IntSize
<1>8. QED
  BY <1>3, <1>5, <1>6, <1>7

-----------------------------------------------------------------------------
(* Min of two integers.                                                    *)
LEMMA MinOfTwo ==
  ASSUME NEW a \in Int, NEW b \in Int
  PROVE  Min({a, b}) = IF a <= b THEN a ELSE b
BY DEF Min

(* An order whose volume, read as an int, is the smaller one reads as zero *)
(* after the trade, whether it read as negative, as zero or as positive.   *)
LEMMA SmallerReadsZero ==
  ASSUME NEW volume \in U64
  PROVE  GetVolume(ReduceVolume(volume, ToU64(GetVolume(volume)))) = 0
<1>1. volume \in Int /\ U64 \subseteq Int /\ Int32 \subseteq Int
  BY MachineIntegersAssumption DEF U64, Int32
<1> DEFINE read == ToInt(volume)
           reduction == ToU64(read)
           feasible == Min({volume, reduction})
<1>2. read \in Int /\ Residue(read) = Residue(volume)
  BY <1>1, ToIntKeepsResidue
<1> HIDE DEF read
<1>3. reduction \in Int /\ Residue(reduction) = Residue(volume)
  BY <1>1, <1>2, ToU64KeepsResidue
<1> HIDE DEF reduction
<1>4. feasible \in Int /\ Residue(feasible) = Residue(volume)
  BY <1>1, <1>3, MinOfTwo
<1> HIDE DEF feasible
<1>5. ToInt(feasible) \in Int /\ Residue(ToInt(feasible)) = Residue(volume)
  BY <1>1, <1>4, ToIntKeepsResidue
<1>6. Residue(volume - ToInt(feasible)) = 0 /\ volume - ToInt(feasible) \in Int
  BY <1>1, <1>5, ResidueOfSameResidues
<1>7. /\ ToU64(volume - ToInt(feasible)) \in Int
      /\ Residue(ToU64(volume - ToInt(feasible))) = 0
  BY <1>1, <1>6, ToU64KeepsResidue
<1>8. \A n \in Int : Residue(n) = 0 => ToInt(n) = 0
  BY MachineIntegersAssumption DEF ToInt, Residue, IntSize
<1>9. ToInt(0) = 0
  BY MachineIntegersAssumption DEF ToInt
<1>10. QED
  BY <1>7, <1>8, <1>9 DEF GetVolume, ReduceVolume, read, reduction, feasible

(* In every trade at least one of the two orders reads as filled.          *)
THEOREM TradeFillsOne ==
  ASSUME NEW ask \in U64, NEW bid \in U64
  PROVE  LET volume == TradeVolume(ask, bid)
         IN  \/ GetVolume(ReduceVolume(ask, volume)) = 0
             \/ GetVolume(ReduceVolume(bid, volume)) = 0
<1>1. GetVolume(ask) \in Int /\ GetVolume(bid) \in Int
  BY ToIntKeepsResidue, MachineIntegersAssumption DEF GetVolume, U64, Int32
<1>2. TradeVolume(ask, bid) \in {ToU64(GetVolume(ask)), ToU64(GetVolume(bid))}
  BY <1>1, MinOfTwo DEF TradeVolume
<1>3. QED
  BY <1>2, SmallerReadsZero

-----------------------------------------------------------------------------
(* The bitmap of one side.                                                 *)

(* The library's well-foundedness of < on the naturals, with the relation  *)
(* written as a set of pairs.                                              *)
LessThan == {pair \in Nat \X Nat : pair[1] < pair[2]}

LEMMA LessThanWellFounded == IsWellFoundedOn(LessThan, Nat)
BY NatLessThanWellFounded DEF OpToRel, LessThan

(* Min of a non-empty set of naturals is its least element.                *)
LEMMA MinOfNaturals ==
  ASSUME NEW S \in SUBSET Nat, S # {}
  PROVE  Min(S) \in S /\ \A n \in S : Min(S) <= n
<1>1. PICK least \in S : \A n \in S : ~(<<n, least>> \in LessThan)
  BY LessThanWellFounded, WFMin
<1>2. ASSUME NEW n \in S
      PROVE  least <= n
  <2>1. <<n, least>> \in Nat \X Nat /\ <<n, least>>[1] = n /\ <<n, least>>[2] = least
    OBVIOUS
  <2>2. ~(n < least)
    BY <1>1, <2>1 DEF LessThan
  <2>3. QED
    BY <2>2
<1>3. QED
  BY <1>2 DEF Min

(* Max of a non-empty set of naturals with an upper bound is its greatest  *)
(* element.                                                                *)
LEMMA MaxOfBounded ==
  ASSUME NEW S \in SUBSET Nat, S # {}, NEW bound \in Nat, \A n \in S : n <= bound
  PROVE  Max(S) \in S /\ \A n \in S : n <= Max(S)
<1> DEFINE gaps == {bound - n : n \in S}
<1>1. gaps \in SUBSET Nat /\ gaps # {}
  <2>1. \A n \in S : bound - n \in Nat
    OBVIOUS
  <2>2. PICK n \in S : TRUE
    OBVIOUS
  <2>3. bound - n \in gaps
    OBVIOUS
  <2>4. gaps \in SUBSET Nat
    BY <2>1
  <2>5. QED
    BY <2>3, <2>4
<1> HIDE DEF gaps
<1>2. Min(gaps) \in gaps /\ \A gap \in gaps : Min(gaps) <= gap
  BY <1>1, MinOfNaturals
<1>3. PICK greatest \in S : Min(gaps) = bound - greatest
  BY <1>2 DEF gaps
<1>4. ASSUME NEW n \in S
      PROVE  n <= greatest
  <2>1. bound - n \in gaps
    BY DEF gaps
  <2>2. bound - greatest <= bound - n
    BY <1>2, <1>3, <2>1
  <2>3. QED
    BY <2>2
<1>5. QED
  BY <1>4 DEF Max

-----------------------------------------------------------------------------
(* A level has a word and a bit, and is told apart by them.                *)
LEMMA LevelPosition ==
  ASSUME NEW level \in Level
  PROVE  /\ WordOf(level) \in Word
         /\ BitOf(level) \in Bit
         /\ level = WordOf(level) * CHUNK + BitOf(level)
BY LevelBitmapAssumption DEF Level, Word, NumOfWords, Bit, WordOf, BitOf

(* A position of the bitmap stands for one number only.                    *)
LEMMA PositionIsUnique ==
  ASSUME NEW v \in Nat, NEW w \in Nat, NEW a \in Bit, NEW b \in Bit,
         v * CHUNK + a = w * CHUNK + b
  PROVE  v = w /\ a = b
BY LevelBitmapAssumption DEF Bit

(* The bit of a level that is set at its position.                         *)
LEMMA MarkedAtPosition ==
  ASSUME NEW marks \in Bitmap, NEW word \in Word, NEW bit \in marks[word],
         word * CHUNK + bit \in Level
  PROVE  IsMarked(marks, word * CHUNK + bit)
<1> DEFINE level == word * CHUNK + bit
<1>1. bit \in Bit /\ word \in Nat
  BY DEF Bitmap, Word
<1>2. WordOf(level) = word /\ BitOf(level) = bit
  BY <1>1, LevelPosition, PositionIsUnique DEF Word, Level
<1>3. QED
  BY <1>2 DEF IsMarked

(* Setting the bit of a level marks this level and no other.               *)
LEMMA SetBitTo1Marks ==
  ASSUME NEW marks \in Bitmap, NEW level \in Level
  PROVE  /\ SetBitTo1(marks, level) \in Bitmap
         /\ \A other \in Level :
              IsMarked(SetBitTo1(marks, level), other)
                <=> other = level \/ IsMarked(marks, other)
BY LevelPosition DEF SetBitTo1, IsMarked, Bitmap

(* Clearing the bit of a level unmarks this level and no other.            *)
LEMMA SetBitTo0Unmarks ==
  ASSUME NEW marks \in Bitmap, NEW level \in Level
  PROVE  /\ SetBitTo0(marks, level) \in Bitmap
         /\ \A other \in Level :
              IsMarked(SetBitTo0(marks, level), other)
                <=> other # level /\ IsMarked(marks, other)
BY LevelPosition DEF SetBitTo0, IsMarked, Bitmap

(* Neither sets a bit beyond the last level.                               *)
LEMMA SetBitStaysWithin ==
  ASSUME NEW marks \in Bitmap, NEW level \in Level, WithinLevels(marks)
  PROVE  /\ WithinLevels(SetBitTo1(marks, level))
         /\ WithinLevels(SetBitTo0(marks, level))
BY LevelPosition DEF WithinLevels, SetBitTo1, SetBitTo0, Bitmap

-----------------------------------------------------------------------------
(* findBestBidLevel returns the highest marked level, or -1 when no level  *)
(* is marked, in whichever words the marks are.                            *)
THEOREM HighestLevelIsBest ==
  ASSUME NEW marks \in Bitmap, WithinLevels(marks)
  PROVE  \/ /\ HighestLevel(marks) \in Level
            /\ IsMarked(marks, HighestLevel(marks))
            /\ \A level \in Level : IsMarked(marks, level) => level <= HighestLevel(marks)
         \/ /\ HighestLevel(marks) = NoLevel
            /\ \A level \in Level : ~IsMarked(marks, level)
<1> DEFINE words == {w \in Word : marks[w] # {}}
<1>1. CASE words = {}
  BY <1>1, LevelPosition DEF HighestLevel, IsMarked
<1>2. CASE words # {}
  <2> DEFINE top == Max(words)
  <2>1. NumOfWords \in Nat /\ words \in SUBSET Nat /\ \A w \in words : w <= NumOfWords
    BY LevelBitmapAssumption DEF NumOfWords, Word
  <2>2. top \in words /\ \A w \in words : w <= top
    BY <1>2, <2>1, MaxOfBounded
  <2> HIDE DEF top
  <2>3. marks[top] \in SUBSET Nat /\ marks[top] # {} /\ \A bit \in marks[top] : bit <= CHUNK
    BY <2>2, LevelBitmapAssumption DEF Bitmap, Bit
  <2> DEFINE high == Max(marks[top])
  <2>4. high \in marks[top] /\ \A bit \in marks[top] : bit <= high
    BY <2>3, MaxOfBounded, LevelBitmapAssumption
  <2>5. HighestLevel(marks) = top * CHUNK + high
    BY <1>2 DEF HighestLevel, top
  <2> HIDE DEF high
  <2>6. top \in Word /\ top * CHUNK + high \in Level
    BY <2>2, <2>4 DEF WithinLevels
  <2>7. IsMarked(marks, top * CHUNK + high)
    BY <2>4, <2>6, MarkedAtPosition
  <2>8. ASSUME NEW level \in Level, IsMarked(marks, level)
        PROVE  level <= top * CHUNK + high
    <3>1. WordOf(level) \in words /\ BitOf(level) \in marks[WordOf(level)]
      BY <2>8, LevelPosition DEF IsMarked
    <3>2. WordOf(level) <= top
      BY <2>2, <3>1
    <3>3. /\ level = WordOf(level) * CHUNK + BitOf(level)
          /\ WordOf(level) \in Nat /\ top \in Nat
          /\ BitOf(level) \in 0 .. CHUNK - 1 /\ high \in 0 .. CHUNK - 1
      BY <2>4, <2>6, LevelPosition DEF Bitmap, Bit, Word
    <3>4. CASE WordOf(level) = top
      BY <2>4, <3>1, <3>3, <3>4, LevelBitmapAssumption
    <3>5. CASE WordOf(level) + 1 <= top
      <4> DEFINE word == WordOf(level)
      <4>1. (word + 1) * CHUNK <= top * CHUNK
        BY <3>3, <3>5, LevelBitmapAssumption
      <4>2. (word + 1) * CHUNK = word * CHUNK + CHUNK
        BY <3>3, LevelBitmapAssumption
      <4>3. QED
        BY <3>3, <4>1, <4>2, LevelBitmapAssumption
    <3>6. QED
      BY <3>2, <3>3, <3>4, <3>5
  <2>9. QED
    BY <2>5, <2>6, <2>7, <2>8
<1>3. QED
  BY <1>1, <1>2

(* findBestAskLevel returns the lowest marked level, or -1 when no level   *)
(* is marked.                                                              *)
THEOREM LowestLevelIsBest ==
  ASSUME NEW marks \in Bitmap, WithinLevels(marks)
  PROVE  \/ /\ LowestLevel(marks) \in Level
            /\ IsMarked(marks, LowestLevel(marks))
            /\ \A level \in Level : IsMarked(marks, level) => LowestLevel(marks) <= level
         \/ /\ LowestLevel(marks) = NoLevel
            /\ \A level \in Level : ~IsMarked(marks, level)
<1> DEFINE words == {w \in Word : marks[w] # {}}
<1>1. CASE words = {}
  BY <1>1, LevelPosition DEF LowestLevel, IsMarked
<1>2. CASE words # {}
  <2> DEFINE bottom == Min(words)
  <2>1. words \in SUBSET Nat
    BY LevelBitmapAssumption DEF Word
  <2>2. bottom \in words /\ \A w \in words : bottom <= w
    BY <1>2, <2>1, MinOfNaturals
  <2> HIDE DEF bottom
  <2>3. marks[bottom] \in SUBSET Nat /\ marks[bottom] # {}
    BY <2>2 DEF Bitmap, Bit
  <2> DEFINE low == Min(marks[bottom])
  <2>4. low \in marks[bottom] /\ \A bit \in marks[bottom] : low <= bit
    BY <2>3, MinOfNaturals
  <2>5. LowestLevel(marks) = bottom * CHUNK + low
    BY <1>2 DEF LowestLevel, bottom
  <2> HIDE DEF low
  <2>6. bottom \in Word /\ bottom * CHUNK + low \in Level
    BY <2>2, <2>4 DEF WithinLevels
  <2>7. IsMarked(marks, bottom * CHUNK + low)
    BY <2>4, <2>6, MarkedAtPosition
  <2>8. ASSUME NEW level \in Level, IsMarked(marks, level)
        PROVE  bottom * CHUNK + low <= level
    <3>1. WordOf(level) \in words /\ BitOf(level) \in marks[WordOf(level)]
      BY <2>8, LevelPosition DEF IsMarked
    <3>2. bottom <= WordOf(level)
      BY <2>2, <3>1
    <3>3. /\ level = WordOf(level) * CHUNK + BitOf(level)
          /\ WordOf(level) \in Nat /\ bottom \in Nat
          /\ BitOf(level) \in 0 .. CHUNK - 1 /\ low \in 0 .. CHUNK - 1
      BY <2>4, <2>6, LevelPosition DEF Bitmap, Bit, Word
    <3>4. CASE WordOf(level) = bottom
      BY <2>4, <3>1, <3>3, <3>4, LevelBitmapAssumption
    <3>5. CASE bottom + 1 <= WordOf(level)
      <4> DEFINE word == WordOf(level)
      <4>1. (bottom + 1) * CHUNK <= word * CHUNK
        BY <3>3, <3>5, LevelBitmapAssumption
      <4>2. (bottom + 1) * CHUNK = bottom * CHUNK + CHUNK
        BY <3>3, LevelBitmapAssumption
      <4>3. QED
        BY <3>3, <4>1, <4>2, LevelBitmapAssumption
    <3>6. QED
      BY <3>2, <3>3, <3>4, <3>5
  <2>9. QED
    BY <2>5, <2>6, <2>7, <2>8
<1>3. QED
  BY <1>1, <1>2

-----------------------------------------------------------------------------
(* Append, Front with Last, Tail with Head, and RemoveAt, on the sequences *)
(* of slots that the free stack and the queues are.                        *)
LEMMA RemoveAtProperties ==
  ASSUME NEW S, NEW queue \in Seq(S), NEW i \in 1 .. Len(queue)
  PROVE  /\ RemoveAt(queue, i) \in Seq(S)
         /\ Len(RemoveAt(queue, i)) = Len(queue) - 1
         /\ \A j \in 1 .. Len(queue) - 1 :
              RemoveAt(queue, i)[j] = IF j < i THEN queue[j] ELSE queue[j + 1]
<1> DEFINE before == SubSeq(queue, 1, i - 1)
           after == SubSeq(queue, i + 1, Len(queue))
<1>1. Len(queue) \in Nat
  BY LenProperties
<1>2. /\ before \in Seq(S)
      /\ Len(before) = i - 1
      /\ \A j \in 1 .. i - 1 : before[j] = queue[j]
  <2>1. \A j \in 1 .. i - 1 : queue[j] \in S
    BY <1>1, ElementOfSeq
  <2>2. /\ before \in Seq(S)
        /\ Len(before) = IF 1 <= i - 1 THEN i - 1 - 1 + 1 ELSE 0
        /\ \A j \in 1 .. i - 1 - 1 + 1 : before[j] = queue[1 + j - 1]
    BY <1>1, <2>1, SubSeqProperties
  <2> HIDE DEF before
  <2>3. QED
    BY <1>1, <2>2
<1>3. /\ after \in Seq(S)
      /\ Len(after) = Len(queue) - i
      /\ \A j \in 1 .. Len(queue) - i : after[j] = queue[i + j]
  <2>1. \A j \in i + 1 .. Len(queue) : queue[j] \in S
    BY <1>1, ElementOfSeq
  <2>2. /\ after \in Seq(S)
        /\ Len(after) = IF i + 1 <= Len(queue) THEN Len(queue) - (i + 1) + 1 ELSE 0
        /\ \A j \in 1 .. Len(queue) - (i + 1) + 1 : after[j] = queue[i + 1 + j - 1]
    BY <1>1, <2>1, SubSeqProperties
  <2> HIDE DEF after
  <2>3. Len(after) = Len(queue) - i
    BY <1>1, <2>2
  <2>4. ASSUME NEW j \in 1 .. Len(queue) - i
        PROVE  after[j] = queue[i + j]
    <3>1. j \in 1 .. Len(queue) - (i + 1) + 1 /\ i + 1 + j - 1 = i + j
      BY <1>1
    <3>2. QED
      BY <2>2, <3>1
  <2>5. QED
    BY <2>2, <2>3, <2>4
<1>4. RemoveAt(queue, i) = before \o after
  BY DEF RemoveAt
<1> HIDE DEF before, after
<1>5. /\ before \o after \in Seq(S)
      /\ Len(before \o after) = Len(before) + Len(after)
      /\ \A j \in 1 .. Len(before) + Len(after) : (before \o after)[j] =
           IF j <= Len(before) THEN before[j] ELSE after[j - Len(before)]
  BY <1>2, <1>3, ConcatProperties
<1>6. ASSUME NEW j \in 1 .. Len(queue) - 1
      PROVE  (before \o after)[j] = IF j < i THEN queue[j] ELSE queue[j + 1]
  <2>1. CASE j < i
    BY <1>1, <1>2, <1>3, <1>5, <2>1
  <2>2. CASE ~(j < i)
    <3>1. j - (i - 1) \in 1 .. Len(queue) - i
      BY <1>1, <2>2
    <3>2. after[j - (i - 1)] = queue[i + (j - (i - 1))]
      BY <1>3, <3>1
    <3>3. QED
      BY <1>1, <1>2, <1>3, <1>5, <2>2, <3>2
  <2>3. QED
    BY <2>1, <2>2
<1>7. QED
  BY <1>1, <1>2, <1>3, <1>4, <1>5, <1>6

LEMMA FrontLastProperties ==
  ASSUME NEW S, NEW stack \in Seq(S), stack # <<>>
  PROVE  /\ Len(stack) \in Nat \ {0}
         /\ Front(stack) \in Seq(S)
         /\ Len(Front(stack)) = Len(stack) - 1
         /\ \A i \in 1 .. Len(stack) - 1 : Front(stack)[i] = stack[i]
         /\ Last(stack) = stack[Len(stack)]
         /\ Last(stack) \in S
<1>1. Len(stack) \in Nat \ {0}
  BY EmptySeq
<1>2. \A i \in 1 .. Len(stack) : stack[i] \in S
  BY ElementOfSeq
<1> DEFINE front == SubSeq(stack, 1, Len(stack) - 1)
<1>3. /\ front \in Seq(S)
      /\ Len(front) = IF 1 <= Len(stack) - 1 THEN Len(stack) - 1 - 1 + 1 ELSE 0
      /\ \A i \in 1 .. Len(stack) - 1 - 1 + 1 : front[i] = stack[1 + i - 1]
  BY <1>1, <1>2, SubSeqProperties
<1>4. Front(stack) = front /\ Last(stack) = stack[Len(stack)]
  BY DEF Front, Last
<1> HIDE DEF front
<1>5. QED
  BY <1>1, <1>2, <1>3, <1>4

-----------------------------------------------------------------------------
(* The arithmetic of the integer types stays within them.                  *)
LEMMA ConversionsTyped ==
  ASSUME NEW n \in Int
  PROVE  ToU64(n) \in U64 /\ ToInt(n) \in Int32
BY MachineIntegersAssumption DEF ToU64, ToInt, U64, Int32

LEMMA ReduceVolumeTyped ==
  ASSUME NEW volume \in U64, NEW reduction \in U64
  PROVE  ReduceVolume(volume, reduction) \in U64
<1>1. Min({volume, reduction}) \in U64
  BY MinOfTwo, MachineIntegersAssumption DEF U64
<1>2. volume - ToInt(Min({volume, reduction})) \in Int
  BY <1>1, ConversionsTyped, MachineIntegersAssumption DEF U64, Int32
<1>3. QED
  BY <1>2, ConversionsTyped, MachineIntegersAssumption DEF ReduceVolume, U64

LEMMA TradeVolumeTyped ==
  ASSUME NEW ask \in U64, NEW bid \in U64
  PROVE  TradeVolume(ask, bid) \in U64
<1>1. GetVolume(ask) \in Int32 /\ GetVolume(bid) \in Int32
  BY ConversionsTyped DEF GetVolume, U64
<1>2. Min({GetVolume(ask), GetVolume(bid)}) \in Int
  BY <1>1, MinOfTwo DEF Int32
<1>3. QED
  BY <1>2, ConversionsTyped DEF TradeVolume

-----------------------------------------------------------------------------
(* One side of the book: the bits that are set are those of the levels     *)
(* whose queues hold orders.                                               *)
Marks(marks, queues) ==
  /\ \A level \in Level : IsMarked(marks, level) <=> queues[level] # <<>>
  /\ WithinLevels(marks)

(* An order joins a queue and the bit of its level is set.                 *)
LEMMA MarksAfterInsert ==
  ASSUME NEW marks \in Bitmap, NEW queues \in [Level -> Seq(Slot)], Marks(marks, queues),
         NEW level \in Level, NEW slot \in Slot
  PROVE  /\ [queues EXCEPT ![level] = Enqueued(@, slot)] \in [Level -> Seq(Slot)]
         /\ SetBitTo1(marks, level) \in Bitmap
         /\ Marks(SetBitTo1(marks, level), [queues EXCEPT ![level] = Enqueued(@, slot)])
<1>1. /\ Enqueued(queues[level], slot) \in Seq(Slot)
      /\ Enqueued(queues[level], slot) # <<>>
  BY AppendProperties DEF Enqueued
<1>2. QED
  BY <1>1, SetBitTo1Marks, SetBitStaysWithin DEF Marks

(* A queue with orders becomes `rest', and the bit of its level is cleared *)
(* when that is empty.                                                     *)
LEMMA MarksAfterRemove ==
  ASSUME NEW marks \in Bitmap, NEW queues \in [Level -> Seq(Slot)], Marks(marks, queues),
         NEW level \in Level, queues[level] # <<>>, NEW rest \in Seq(Slot)
  PROVE  LET left == IF rest = <<>> THEN SetBitTo0(marks, level) ELSE marks
         IN  /\ [queues EXCEPT ![level] = rest] \in [Level -> Seq(Slot)]
             /\ left \in Bitmap
             /\ Marks(left, [queues EXCEPT ![level] = rest])
<1>1. [queues EXCEPT ![level] = rest] \in [Level -> Seq(Slot)]
  OBVIOUS
<1>2. CASE rest = <<>>
  BY <1>1, <1>2, SetBitTo0Unmarks, SetBitStaysWithin DEF Marks
<1>3. CASE rest # <<>>
  BY <1>1, <1>3 DEF Marks
<1>4. QED
  BY <1>2, <1>3

(* An id of any size has an entry in the table.                            *)
LEMMA KeyInTable ==
  ASSUME NEW orderId \in Nat
  PROVE  Key(orderId) \in Slot
BY OrderBookAssumption DEF Key, Slot

-----------------------------------------------------------------------------
(* Each slot in one place of the queues at most, and none also on a stack. *)
OwnedOnce(queues) ==
  \A s, t \in Side, l, m \in Level :
    \A i \in DOMAIN queues[s][l], j \in DOMAIN queues[t][m] :
      queues[s][l][i] = queues[t][m][j] => s = t /\ l = m /\ i = j

FreeApart(stack, queues) ==
  \A s \in Side, l \in Level : \A i \in DOMAIN queues[s][l] :
    queues[s][l][i] \notin ToSet(stack)

(* A slot that is put on a stack it is not on.                             *)
LEMMA PushedOnce ==
  ASSUME NEW stack \in Seq(Slot), IsInjective(stack), NEW slot \in Slot, slot \notin ToSet(stack)
  PROVE  /\ stack \o <<slot>> \in Seq(Slot)
         /\ IsInjective(stack \o <<slot>>)
         /\ ToSet(stack \o <<slot>>) = ToSet(stack) \union {slot}
<1> DEFINE pushed == Append(stack, slot)
<1>1. stack \o <<slot>> = pushed
  BY AppendIsConcat
<1>2. /\ Len(stack) \in Nat
      /\ DOMAIN stack = 1 .. Len(stack)
      /\ pushed \in Seq(Slot)
      /\ DOMAIN pushed = 1 .. Len(stack) + 1
      /\ \A i \in 1 .. Len(stack) : pushed[i] = stack[i]
      /\ pushed[Len(stack) + 1] = slot
  BY AppendProperties, LenProperties
<1> HIDE DEF pushed
<1>3. ToSet(pushed) = ToSet(stack) \union {slot}
  <2>1. ToSet(pushed) \subseteq ToSet(stack) \union {slot}
    BY <1>2 DEF ToSet
  <2>2. ToSet(stack) \union {slot} \subseteq ToSet(pushed)
    BY <1>2 DEF ToSet
  <2>3. QED
    BY <2>1, <2>2
<1>4. IsInjective(pushed)
  <2>1. \A i \in DOMAIN stack : stack[i] # slot
    BY DEF ToSet
  <2>2. QED
    BY <1>2, <2>1 DEF IsInjective
<1>5. QED
  BY <1>1, <1>2, <1>3, <1>4

(* The top of a stack without duplicates is not on the stack below it.     *)
LEMMA PoppedOnce ==
  ASSUME NEW stack \in Seq(Slot), stack # <<>>, IsInjective(stack)
  PROVE  /\ IsInjective(Front(stack))
         /\ ToSet(Front(stack)) \subseteq ToSet(stack) \ {Last(stack)}
         /\ Last(stack) \in ToSet(stack)
<1>1. /\ DOMAIN stack = 1 .. Len(stack)
      /\ DOMAIN Front(stack) = 1 .. Len(stack) - 1
      /\ Len(stack) \in Nat \ {0}
      /\ \A i \in 1 .. Len(stack) - 1 : Front(stack)[i] = stack[i]
      /\ Last(stack) = stack[Len(stack)]
  BY FrontLastProperties, LenProperties
<1>2. QED
  BY <1>1 DEF IsInjective, ToSet

(* pop_front is the erasure of the first order.                            *)
LEMMA TailIsRemoveAt ==
  ASSUME NEW queue \in Seq(Slot), queue # <<>>
  PROVE  /\ 1 \in 1 .. Len(queue)
         /\ Head(queue) = queue[1]
         /\ Tail(queue) = RemoveAt(queue, 1)
<1>1. Len(queue) \in Nat \ {0}
  BY EmptySeq
<1>2. /\ Tail(queue) \in Seq(Slot)
      /\ Len(Tail(queue)) = Len(queue) - 1
      /\ \A i \in 1 .. Len(queue) - 1 : Tail(queue)[i] = queue[i + 1]
  BY HeadTailProperties
<1>3. /\ RemoveAt(queue, 1) \in Seq(Slot)
      /\ Len(RemoveAt(queue, 1)) = Len(queue) - 1
      /\ \A i \in 1 .. Len(queue) - 1 : RemoveAt(queue, 1)[i] = queue[i + 1]
  BY <1>1, RemoveAtProperties
<1>4. Tail(queue) = RemoveAt(queue, 1)
  BY <1>1, <1>2, <1>3, SeqEqual
<1>5. QED
  BY <1>1, <1>4

(* From every queue of `old', `gone' erases the order at an index, or none *)
(* where the index is 0.                                                   *)
Erases(old, gone, new) ==
  \A s \in Side, l \in Level :
    /\ gone[s][l] \in 0 .. Len(old[s][l])
    /\ new[s][l] = IF gone[s][l] = 0 THEN old[s][l] ELSE RemoveAt(old[s][l], gone[s][l])

(* `origin' says where the orders of `rest' stood in `queue' before the    *)
(* order at `index' left: their order has not changed.                     *)
IsOrigin(origin, rest, queue, index) ==
  /\ origin \in [DOMAIN rest -> DOMAIN queue]
  /\ \A i \in DOMAIN rest : rest[i] = queue[origin[i]] /\ origin[i] # index
  /\ \A i, j \in DOMAIN rest : i < j => origin[i] < origin[j]

(* Every order that is left stood in the same queue before.                *)
LEMMA ErasedFrom ==
  ASSUME NEW old \in [Side -> [Level -> Seq(Slot)]], NEW gone, NEW new, Erases(old, gone, new),
         NEW s \in Side, NEW l \in Level
  PROVE  /\ new[s][l] \in Seq(Slot)
         /\ \E origin : IsOrigin(origin, new[s][l], old[s][l], gone[s][l])
<1> DEFINE queue == old[s][l]
           rest == new[s][l]
           index == gone[s][l]
<1>1. /\ queue \in Seq(Slot)
      /\ Len(queue) \in Nat
      /\ DOMAIN queue = 1 .. Len(queue)
      /\ index \in 0 .. Len(queue)
      /\ rest = IF index = 0 THEN queue ELSE RemoveAt(queue, index)
  BY LenProperties DEF Erases
<1> HIDE DEF queue, rest, index
<1>2. CASE index = 0
  <2>1. IsOrigin([i \in DOMAIN rest |-> i], rest, queue, index)
    BY <1>1, <1>2 DEF IsOrigin
  <2>2. QED
    BY <1>1, <1>2, <2>1 DEF queue, rest, index
<1>3. CASE index # 0
  <2> DEFINE origin == [i \in DOMAIN rest |-> IF i < index THEN i ELSE i + 1]
  <2>1. /\ rest \in Seq(Slot)
        /\ DOMAIN rest = 1 .. Len(queue) - 1
        /\ \A i \in 1 .. Len(queue) - 1 :
             rest[i] = IF i < index THEN queue[i] ELSE queue[i + 1]
    <3>1. index \in 1 .. Len(queue)
      BY <1>1, <1>3
    <3>2. QED
      BY <1>1, <1>3, <3>1, RemoveAtProperties, LenProperties
  <2>2. origin \in [DOMAIN rest -> DOMAIN queue]
    BY <1>1, <1>3, <2>1
  <2>3. \A i \in DOMAIN rest : rest[i] = queue[origin[i]] /\ origin[i] # index
    BY <1>1, <2>1
  <2>4. \A i, j \in DOMAIN rest : i < j => origin[i] < origin[j]
    BY <1>1, <2>1
  <2> HIDE DEF origin
  <2>5. IsOrigin(origin, rest, queue, index)
    BY <2>2, <2>3, <2>4 DEF IsOrigin
  <2>6. QED
    BY <2>1, <2>5 DEF queue, rest, index
<1>4. QED
  BY <1>2, <1>3

(* Orders that leave the queues leave no duplicates and no trace of        *)
(* themselves.                                                             *)
LEMMA OwnedOnceAfterErase ==
  ASSUME NEW old \in [Side -> [Level -> Seq(Slot)]], NEW gone, NEW new, Erases(old, gone, new),
         OwnedOnce(old)
  PROVE  /\ OwnedOnce(new)
         /\ \A stack : FreeApart(stack, old) => FreeApart(stack, new)
         /\ \A s, t \in Side, l, m \in Level : \A i \in DOMAIN new[s][l] :
              gone[t][m] # 0 => new[s][l][i] # old[t][m][gone[t][m]]
<1>1. ASSUME NEW s \in Side, NEW t \in Side, NEW l \in Level, NEW m \in Level,
             NEW i \in DOMAIN new[s][l], NEW j \in DOMAIN new[t][m],
             new[s][l][i] = new[t][m][j]
      PROVE  s = t /\ l = m /\ i = j
  <2>1. PICK f : IsOrigin(f, new[s][l], old[s][l], gone[s][l])
    BY ErasedFrom
  <2>2. PICK g : IsOrigin(g, new[t][m], old[t][m], gone[t][m])
    BY ErasedFrom
  <2>3. /\ f[i] \in DOMAIN old[s][l] /\ g[j] \in DOMAIN old[t][m]
        /\ old[s][l][f[i]] = old[t][m][g[j]]
    BY <1>1, <2>1, <2>2 DEF IsOrigin
  <2>4. s = t /\ l = m /\ f[i] = g[j]
    BY <2>3 DEF OwnedOnce
  <2>5. f[j] \in DOMAIN old[s][l] /\ old[s][l][f[i]] = old[s][l][f[j]]
    BY <1>1, <2>1, <2>4 DEF IsOrigin
  <2>6. f[i] = f[j]
    BY <2>3, <2>5 DEF OwnedOnce
  <2>7. i \in Nat /\ j \in Nat
    <3>1. new[s][l] \in Seq(Slot)
      BY ErasedFrom
    <3>2. DOMAIN new[s][l] = 1 .. Len(new[s][l])
      BY <3>1, LenProperties
    <3>3. QED
      BY <2>4, <3>2
  <2>8. f[i] \in Nat /\ f[j] \in Nat
    BY <2>3, <2>5, LenProperties
  <2>9. ~(i < j) /\ ~(j < i)
    BY <2>1, <2>4, <2>6, <2>8 DEF IsOrigin
  <2>10. QED
    BY <2>4, <2>7, <2>9
<1>2. ASSUME NEW stack, FreeApart(stack, old), NEW s \in Side, NEW l \in Level,
             NEW i \in DOMAIN new[s][l]
      PROVE  new[s][l][i] \notin ToSet(stack)
  <2>1. PICK f : IsOrigin(f, new[s][l], old[s][l], gone[s][l])
    BY ErasedFrom
  <2>2. QED
    BY <1>2, <2>1 DEF FreeApart, IsOrigin
<1>3. ASSUME NEW s \in Side, NEW t \in Side, NEW l \in Level, NEW m \in Level,
             NEW i \in DOMAIN new[s][l], gone[t][m] # 0
      PROVE  new[s][l][i] # old[t][m][gone[t][m]]
  <2>1. PICK f : IsOrigin(f, new[s][l], old[s][l], gone[s][l])
    BY ErasedFrom
  <2>2. f[i] \in DOMAIN old[s][l] /\ new[s][l][i] = old[s][l][f[i]] /\ f[i] # gone[s][l]
    BY <2>1 DEF IsOrigin
  <2>3. gone[t][m] \in DOMAIN old[t][m]
    BY <1>3, LenProperties DEF Erases
  <2>4. QED
    BY <2>2, <2>3 DEF OwnedOnce
<1>4. QED
  BY <1>1, <1>2, <1>3 DEF OwnedOnce, FreeApart
=============================================================================
