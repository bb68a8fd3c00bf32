----------------------- MODULE MarketDataServer_proofs -----------------------
(***************************************************************************)
(* Proof that the reading thread, which takes no mutex, works with levels, *)
(* words and slots that exist: its reads fall between any two writes of    *)
(* the engine, so that the types of the book are proved for each write.    *)
(***************************************************************************)
EXTENDS MarketDataServer, MatchingEngine_proofs, FiniteSetTheorems

-----------------------------------------------------------------------------
(* The volume of some orders is a number.  The sum is the fixed point of   *)
(* SumStep, and there is one: a function that agrees with SumStep on the   *)
(* sets of up to n orders leads to one for n + 1.                          *)
Chosen(s) == CHOOSE slot \in s : TRUE
SumStep(sum, s) == IF s = {} THEN 0 ELSE pool[Chosen(s)].volume + sum[s \ {Chosen(s)}]

SumsUpTo(slots, n) ==
  \E sum \in [SUBSET slots -> Nat] :
    \A s \in SUBSET slots : Cardinality(s) <= n => sum[s] = SumStep(sum, s)

LEMMA SlotsFinite ==
  ASSUME NEW slots \in SUBSET Slot
  PROVE  IsFiniteSet(slots) /\ Cardinality(slots) \in Nat
<1>1. IsFiniteSet(Slot)
  BY OrderBookAssumption, FS_Interval DEF Slot
<1>2. QED
  BY <1>1, FS_Subset, FS_CardinalityType

LEMMA ChosenLeaves ==
  ASSUME NEW slots \in SUBSET Slot, slots # {}
  PROVE  /\ Chosen(slots) \in slots
         /\ slots \ {Chosen(slots)} \in SUBSET slots
         /\ Cardinality(slots \ {Chosen(slots)}) = Cardinality(slots) - 1
<1>1. Chosen(slots) \in slots
  BY DEF Chosen
<1>2. QED
  BY <1>1, SlotsFinite, FS_RemoveElement

LEMMA NothingSumsUp ==
  ASSUME NEW slots \in SUBSET Slot
  PROVE  SumsUpTo(slots, 0)
<1> DEFINE sum == [s \in SUBSET slots |-> 0]
<1>1. sum \in [SUBSET slots -> Nat]
  OBVIOUS
<1>2. ASSUME NEW s \in SUBSET slots, Cardinality(s) <= 0
      PROVE  sum[s] = SumStep(sum, s)
  <2>1. s = {}
    BY <1>2, SlotsFinite, FS_EmptySet
  <2>2. QED
    BY <2>1 DEF SumStep
<1>3. QED
  BY <1>1, <1>2 DEF SumsUpTo

LEMMA OneMoreSumsUp ==
  ASSUME pool \in [Slot -> Order], NEW slots \in SUBSET Slot, NEW n \in Nat, SumsUpTo(slots, n)
  PROVE  SumsUpTo(slots, n + 1)
<1>1. PICK sum \in [SUBSET slots -> Nat] :
        \A s \in SUBSET slots : Cardinality(s) <= n => sum[s] = SumStep(sum, s)
  BY DEF SumsUpTo
<1> DEFINE next == [s \in SUBSET slots |-> SumStep(sum, s)]
<1>2. ASSUME NEW s \in SUBSET slots
      PROVE  SumStep(sum, s) \in Nat
  <2>1. CASE s = {}
    BY <2>1 DEF SumStep
  <2>2. CASE s # {}
    <3>1. Chosen(s) \in Slot /\ s \ {Chosen(s)} \in SUBSET slots
      BY <2>2, ChosenLeaves
    <3>2. pool[Chosen(s)].volume \in Nat /\ sum[s \ {Chosen(s)}] \in Nat
      BY <3>1 DEF Order, U64
    <3>3. QED
      BY <2>2, <3>2 DEF SumStep
  <2>3. QED
    BY <2>1, <2>2
<1>3. next \in [SUBSET slots -> Nat]
  BY <1>2
<1>4. ASSUME NEW s \in SUBSET slots, Cardinality(s) <= n + 1
      PROVE  next[s] = SumStep(next, s)
  <2>1. CASE s = {}
    BY <2>1 DEF SumStep
  <2>2. CASE s # {}
    <3> DEFINE less == s \ {Chosen(s)}
    <3>1. less \in SUBSET slots /\ Cardinality(less) = Cardinality(s) - 1
      BY <2>2, ChosenLeaves
    <3>2. Cardinality(less) <= n
      BY <1>4, <3>1, SlotsFinite
    <3>3. next[less] = sum[less]
      BY <1>1, <3>1, <3>2
    <3>4. QED
      BY <2>2, <3>3 DEF SumStep
  <2>3. QED
    BY <2>1, <2>2
<1>5. QED
  BY <1>3, <1>4 DEF SumsUpTo

LEMMA AllSumsUp ==
  ASSUME pool \in [Slot -> Order], NEW slots \in SUBSET Slot, NEW n \in Nat
  PROVE  SumsUpTo(slots, n)
<1> DEFINE bad == {m \in Nat : ~SumsUpTo(slots, m)}
<1>1. SUFFICES ASSUME bad # {} PROVE FALSE
  OBVIOUS
<1>2. Min(bad) \in bad /\ \A m \in bad : Min(bad) <= m
  BY <1>1, MinOfNaturals
<1>3. PICK m \in Nat : ~SumsUpTo(slots, m) /\ \A k \in Nat : ~SumsUpTo(slots, k) => m <= k
  BY <1>2
<1>4. m # 0
  BY <1>3, NothingSumsUp
<1>5. m - 1 \in Nat /\ ~(m <= m - 1)
  BY <1>3, <1>4
<1>6. SumsUpTo(slots, m - 1)
  BY <1>3, <1>5
<1>7. SumsUpTo(slots, (m - 1) + 1)
  BY <1>5, <1>6, OneMoreSumsUp
<1>8. (m - 1) + 1 = m
  BY <1>3
<1>9. QED
  BY <1>3, <1>7, <1>8

LEMMA TotalVolumeTyped ==
  ASSUME pool \in [Slot -> Order], NEW slots \in SUBSET Slot
  PROVE  TotalVolume(slots) \in Nat
<1> DEFINE iter == CHOOSE sum : sum = [s \in SUBSET slots |-> SumStep(sum, s)]
<1>1. \E sum : sum = [s \in SUBSET slots |-> SumStep(sum, s)]
  <2>1. PICK sum \in [SUBSET slots -> Nat] :
          \A s \in SUBSET slots :
            Cardinality(s) <= Cardinality(slots) => sum[s] = SumStep(sum, s)
    BY AllSumsUp, SlotsFinite DEF SumsUpTo
  <2>2. \A s \in SUBSET slots : Cardinality(s) <= Cardinality(slots)
    BY SlotsFinite, FS_Subset
  <2>3. sum = [s \in SUBSET slots |-> SumStep(sum, s)]
    BY <2>1, <2>2
  <2>4. QED
    BY <2>3
<1>2. iter = [s \in SUBSET slots |-> SumStep(iter, s)]
  BY <1>1
<1>3. TotalVolume(slots) = iter[slots]
  BY DEF TotalVolume, MapThenSumSet, MapThenFoldSet, SumStep, Chosen
<1> HIDE DEF iter
<1> DEFINE bad == {m \in Nat : \E s \in SUBSET slots : Cardinality(s) = m /\ iter[s] \notin Nat}
<1>4. bad = {}
  <2>1. SUFFICES ASSUME bad # {} PROVE FALSE
    OBVIOUS
  <2>2. Min(bad) \in bad /\ \A m \in bad : Min(bad) <= m
    BY <2>1, MinOfNaturals
  <2>3. PICK s \in SUBSET slots :
          iter[s] \notin Nat /\ \A t \in SUBSET slots :
            iter[t] \notin Nat => Cardinality(s) <= Cardinality(t)
    BY <2>2, SlotsFinite
  <2>4. iter[s] = SumStep(iter, s)
    BY <1>2
  <2>5. s # {}
    BY <2>3, <2>4 DEF SumStep
  <2>6. /\ Chosen(s) \in Slot
        /\ s \ {Chosen(s)} \in SUBSET slots
        /\ Cardinality(s \ {Chosen(s)}) = Cardinality(s) - 1
    BY <2>5, ChosenLeaves
  <2>7. iter[s \ {Chosen(s)}] \in Nat
    BY <2>3, <2>6, SlotsFinite
  <2>8. pool[Chosen(s)].volume \in Nat
    BY <2>6 DEF Order, U64
  <2>9. QED
    BY <2>3, <2>4, <2>5, <2>7, <2>8 DEF SumStep
<1>5. QED
  BY <1>3, <1>4, SlotsFinite

-----------------------------------------------------------------------------
(* The book between two writes of a handler.  Its bits and queues disagree *)
(* there; what remains is that no bit is set beyond the last level and     *)
(* that the id table holds prices of the book.                             *)
BookBetweenWrites ==
  /\ BookTypeOK
  /\ \A side \in Side : WithinLevels(bitmap[side])
  /\ LocationsTradable
  /\ atomicOrderID \in Nat

(* The handler under way has stored the order that it adds, has found the  *)
(* order that it erases, or has yet to take the best orders that it        *)
(* matched off sides that have one.                                        *)
AddUnderWay ==
  /\ call \in [step : {"enqueue", "mark"}, slot : Slot, side : Side, level : Int]
  /\ call.side = pool[call.slot].side
  /\ call.level = PriceToIndex(pool[call.slot].price)
  /\ call.step = "mark" => call.level \in Level

CancelUnderWay ==
  /\ call \in [step : {"erase", "forget"}, id : OrderIds, side : Side, level : Level]
  /\ call.step = "erase" => FoundAt(call.id, call.side, call.level) # {}

MatchUnderWay ==
  /\ call \in [step : {"reduceBid", "remove", "unmark"}, side : Side, order : [Side -> Slot],
               volume : U64, price : U64]
  /\ IF call.step = "unmark" THEN FindBestLevel(call.side) # NoLevel ELSE HasBest(call.side)
  /\ call.side = Ask => HasBest(Bid)

EngineTyped ==
  BookBetweenWrites /\ (call = Idle \/ AddUnderWay \/ CancelUnderWay \/ MatchUnderWay)

LEMMA BookParts ==
  ASSUME BookBetweenWrites
  PROVE  /\ freeStack \in Seq(Slot)
         /\ pool \in [Slot -> Order]
         /\ priceLevel \in [Side -> [Level -> Seq(Slot)]]
         /\ bitmap \in [Side -> Bitmap]
         /\ orderIdtoPriceMapping \in [Slot -> OrderLocation]
         /\ atomicOrderID \in Nat
         /\ \A side \in Side : bitmap[side] \in Bitmap /\ WithinLevels(bitmap[side])
         /\ LocationsTradable
BY DEF BookBetweenWrites, BookTypeOK

(* The searches find a level, and a side with an order a slot.             *)
LEMMA LevelFound ==
  ASSUME BookBetweenWrites, NEW side \in Side, FindBestLevel(side) # NoLevel
  PROVE  FindBestLevel(side) \in Level
BY BookParts, HighestLevelIsBest, LowestLevelIsBest DEF FindBestLevel, Side

LEMMA BestFound ==
  ASSUME BookBetweenWrites, NEW side \in Side, HasBest(side)
  PROVE  /\ FindBestLevel(side) \in Level
         /\ BestOrder(side) \in Slot
         /\ Tail(priceLevel[side][FindBestLevel(side)]) \in Seq(Slot)
<1>1. FindBestLevel(side) \in Level
  BY LevelFound DEF HasBest
<1>2. /\ priceLevel[side][FindBestLevel(side)] \in Seq(Slot)
      /\ priceLevel[side][FindBestLevel(side)] # <<>>
  BY <1>1, BookParts DEF HasBest
<1>3. QED
  BY <1>1, <1>2, HeadTailProperties DEF BestOrder

LEMMA UnmarkedWithin ==
  ASSUME BookBetweenWrites, NEW side \in Side, NEW level \in Level, NEW queue
  PROVE  /\ [bitmap EXCEPT ![side] = Unmarked(side, level, queue)] \in [Side -> Bitmap]
         /\ \A s \in Side :
              WithinLevels([bitmap EXCEPT ![side] = Unmarked(side, level, queue)][s])
<1>1. Unmarked(side, level, queue) \in Bitmap /\ WithinLevels(Unmarked(side, level, queue))
  BY BookParts, SetBitTo0Unmarks, SetBitStaysWithin DEF Unmarked
<1>2. QED
  BY <1>1, BookParts

LEMMA ForgottenTyped ==
  ASSUME BookBetweenWrites, NEW keys
  PROVE  /\ Forgotten(keys) \in [Slot -> OrderLocation]
         /\ \A key \in Slot : Forgotten(keys)[key].isValid => IsTradable(Forgotten(keys)[key].price)
<1>1. NoLocation \in OrderLocation /\ ~NoLocation.isValid
  BY MachineIntegersAssumption DEF NoLocation, OrderLocation, Side, U64
<1>2. QED
  BY <1>1, BookParts DEF Forgotten, LocationsTradable

LEMMA ReleasedTyped ==
  ASSUME BookBetweenWrites, NEW slot \in Slot, Released(<<slot>>)
  PROVE  freeStack' \in Seq(Slot)
BY BookParts DEF Released

LEMMA BookStays ==
  ASSUME BookBetweenWrites, UNCHANGED <<bookVars, atomicOrderID>>
  PROVE  BookBetweenWrites'
BY DEF BookBetweenWrites, BookTypeOK, LocationsTradable, bookVars

-----------------------------------------------------------------------------
(* addOrder.                                                               *)
LEMMA StartAddTyped ==
  ASSUME BookBetweenWrites, NEW side \in Side, NEW volume \in Volumes, NEW price \in Prices,
         StartAdd(NewOrder(side, volume, price))
  PROVE  BookBetweenWrites' /\ AddUnderWay'
<1> DEFINE order == NewOrder(side, volume, price)
<1>1. PICK slot \in Slot :
        /\ Acquire(slot)
        /\ pool' = [pool EXCEPT ![slot] = order]
        /\ atomicOrderID' = atomicOrderID + 1
        /\ call' = [step |-> "enqueue", slot |-> slot, side |-> order.side,
                    level |-> PriceToIndex(order.price)]
        /\ UNCHANGED <<priceLevel, bitmap, orderIdtoPriceMapping>>
  BY DEF StartAdd
<1>2. order \in Order /\ order.side = side /\ order.price = price /\ price \in Nat
  BY BookParts, MatchingEngineAssumption DEF NewOrder, Order, U64
<1>3. PriceToIndex(price) \in Int
  BY <1>2, ConversionsTyped, OrderBookAssumption DEF PriceToIndex, U64, Int32
<1> HIDE DEF order
<1>4. freeStack' \in Seq(Slot)
  BY <1>1, BookParts, FrontLastProperties DEF Acquire
<1>5. pool' \in [Slot -> Order] /\ pool'[slot] = order
  BY <1>1, <1>2, BookParts
<1>6. BookBetweenWrites'
  BY <1>1, <1>4, <1>5, BookParts DEF BookBetweenWrites, BookTypeOK, LocationsTradable
<1>7. AddUnderWay'
  BY <1>1, <1>2, <1>3, <1>5 DEF AddUnderWay
<1>8. QED
  BY <1>6, <1>7

LEMMA EnqueueTyped ==
  ASSUME BookBetweenWrites, AddUnderWay, Enqueue
  PROVE  BookBetweenWrites' /\ (call' = Idle \/ AddUnderWay')
<1>1. UNCHANGED <<freeStack, pool, bitmap, orderIdtoPriceMapping, atomicOrderID>>
  BY DEF Enqueue
<1>2. CASE call.level \in Level
  <2>1. /\ priceLevel' = [priceLevel EXCEPT ![call.side][call.level] = Enqueued(@, call.slot)]
        /\ call' = [call EXCEPT !.step = "mark"]
    BY <1>2 DEF Enqueue
  <2>2. call.side \in Side /\ call.slot \in Slot
    BY DEF AddUnderWay
  <2>3. priceLevel' \in [Side -> [Level -> Seq(Slot)]]
    <3>1. Enqueued(priceLevel[call.side][call.level], call.slot) \in Seq(Slot)
      BY <1>2, <2>2, BookParts DEF Enqueued
    <3>2. QED
      BY <1>2, <2>1, <2>2, <3>1, BookParts
  <2>4. BookBetweenWrites'
    BY <1>1, <2>3, BookParts DEF BookBetweenWrites, BookTypeOK, LocationsTradable
  <2>5. AddUnderWay'
    BY <1>1, <1>2, <2>1 DEF AddUnderWay
  <2>6. QED
    BY <2>4, <2>5
<1>3. CASE call.level \notin Level
  <2>1. call' = Idle /\ priceLevel' = priceLevel
    BY <1>3 DEF Enqueue, Return
  <2>2. QED
    BY <1>1, <2>1, BookStays DEF bookVars
<1>4. QED
  BY <1>2, <1>3

LEMMA MarkTyped ==
  ASSUME BookBetweenWrites, AddUnderWay, Mark
  PROVE  BookBetweenWrites' /\ call' = Idle
<1> DEFINE order == pool[call.slot]
           location == [isValid |-> TRUE, side |-> order.side, price |-> order.price]
<1>1. /\ bitmap' = [bitmap EXCEPT ![order.side] = SetBitTo1(@, call.level)]
      /\ orderIdtoPriceMapping' = [orderIdtoPriceMapping EXCEPT ![Key(order.id)] = location]
      /\ UNCHANGED <<freeStack, pool, priceLevel, atomicOrderID>>
      /\ call' = Idle
  BY DEF Mark, Return
<1>2. call.slot \in Slot /\ call.level \in Level /\ call.level = PriceToIndex(order.price)
  BY DEF AddUnderWay, Mark
<1>3. order \in Order
  BY <1>2, BookParts
<1>4. location \in OrderLocation /\ location.isValid /\ IsTradable(location.price)
  BY <1>2, <1>3 DEF Order, OrderLocation, IsTradable
<1>5. order.side \in Side
  BY <1>3 DEF Order
<1> HIDE DEF order, location
<1>6. bitmap' \in [Side -> Bitmap] /\ \A side \in Side : WithinLevels(bitmap'[side])
  <2>1. /\ SetBitTo1(bitmap[order.side], call.level) \in Bitmap
        /\ WithinLevels(SetBitTo1(bitmap[order.side], call.level))
    BY <1>2, <1>5, BookParts, SetBitTo1Marks, SetBitStaysWithin
  <2>2. QED
    BY <1>1, <1>5, <2>1, BookParts
<1>7. orderIdtoPriceMapping' \in [Slot -> OrderLocation] /\ LocationsTradable'
  BY <1>1, <1>4, BookParts DEF LocationsTradable
<1>8. BookBetweenWrites'
  BY <1>1, <1>6, <1>7, BookParts DEF BookBetweenWrites, BookTypeOK
<1>9. QED
  BY <1>1, <1>8

-----------------------------------------------------------------------------
(* cancelOrder.                                                            *)
LEMMA LocationFound ==
  ASSUME BookBetweenWrites, NEW orderId \in OrderIds,
         orderIdtoPriceMapping[Key(orderId)].isValid
  PROVE  /\ orderIdtoPriceMapping[Key(orderId)].side \in Side
         /\ PriceToIndex(orderIdtoPriceMapping[Key(orderId)].price) \in Level
<1>1. Key(orderId) \in Slot
  BY KeyInTable, MachineIntegersAssumption, MatchingEngineAssumption DEF U64
<1>2. QED
  BY <1>1, BookParts DEF LocationsTradable, IsTradable, OrderLocation

(* The order that is erased, the first one found, is in the queue.         *)
LEMMA FirstFound ==
  ASSUME BookBetweenWrites, NEW side \in Side, NEW level \in Level, NEW orderId,
         FoundAt(orderId, side, level) # {}
  PROVE  LET queue == priceLevel[side][level]
             i == Min(FoundAt(orderId, side, level))
         IN  queue[i] \in Slot /\ RemoveAt(queue, i) \in Seq(Slot)
<1> DEFINE queue == priceLevel[side][level]
           found == FoundAt(orderId, side, level)
<1>1. queue \in Seq(Slot)
  BY BookParts
<1>2. found \in SUBSET DOMAIN queue /\ found \in SUBSET Nat /\ found # {}
  BY <1>1 DEF FoundAt
<1>3. Min(found) \in DOMAIN queue
  BY <1>2, MinOfNaturals
<1>4. Min(found) \in 1 .. Len(queue) /\ queue[Min(found)] \in Slot
  BY <1>1, <1>3
<1>5. RemoveAt(queue, Min(found)) \in Seq(Slot)
  BY <1>1, <1>4, RemoveAtProperties
<1>6. QED
  BY <1>4, <1>5

LEMMA CancelNothingTyped ==
  ASSUME BookBetweenWrites, call = Idle, NEW orderId \in OrderIds, CancelNothing(orderId)
  PROVE  BookBetweenWrites' /\ call' = Idle
<1> DEFINE location == orderIdtoPriceMapping[Key(orderId)]
           level == PriceToIndex(location.price)
           queue == priceLevel[location.side][level]
           found == FoundAt(orderId, location.side, level)
<1>1. /\ RemoveOrderFromOrderId(orderId)
      /\ call' = Idle
      /\ UNCHANGED <<priceLevel, atomicOrderID>>
  BY DEF CancelNothing, CancelOrder
<1>2. CASE ~location.isValid
  BY <1>1, <1>2, BookStays DEF RemoveOrderFromOrderId
<1>3. CASE location.isValid
  <2>1. location.side \in Side /\ level \in Level
    BY <1>3, LocationFound
  <2>2. /\ orderIdtoPriceMapping' = Forgotten({Key(orderId)})
        /\ UNCHANGED pool
        /\ \/ UNCHANGED <<freeStack, bitmap>>
           \/ /\ found # {}
              /\ Released(<<queue[Min(found)]>>)
              /\ bitmap' = [bitmap EXCEPT ![location.side] =
                   Unmarked(location.side, level, RemoveAt(queue, Min(found)))]
    BY <1>1, <1>3 DEF RemoveOrderFromOrderId, FoundAt
  <2>3. orderIdtoPriceMapping' \in [Slot -> OrderLocation] /\ LocationsTradable'
    BY <2>2, ForgottenTyped DEF LocationsTradable
  <2>4. /\ freeStack' \in Seq(Slot)
        /\ bitmap' \in [Side -> Bitmap]
        /\ \A side \in Side : WithinLevels(bitmap'[side])
    <3>1. CASE UNCHANGED <<freeStack, bitmap>>
      BY <3>1, BookParts
    <3>2. CASE /\ found # {}
               /\ Released(<<queue[Min(found)]>>)
               /\ bitmap' = [bitmap EXCEPT ![location.side] =
                    Unmarked(location.side, level, RemoveAt(queue, Min(found)))]
      <4>1. queue[Min(found)] \in Slot
        BY <2>1, <3>2, FirstFound
      <4>2. freeStack' \in Seq(Slot)
        BY <3>2, <4>1, ReleasedTyped
      <4>3. QED
        BY <2>1, <3>2, <4>2, UnmarkedWithin
    <3>3. QED
      BY <2>2, <3>1, <3>2
  <2>5. BookBetweenWrites'
    BY <1>1, <2>2, <2>3, <2>4, BookParts DEF BookBetweenWrites, BookTypeOK
  <2>6. QED
    BY <1>1, <2>5
<1>4. QED
  BY <1>2, <1>3, <1>1

LEMMA StartCancelTyped ==
  ASSUME BookBetweenWrites, NEW orderId \in OrderIds, StartCancel(orderId)
  PROVE  BookBetweenWrites' /\ CancelUnderWay'
<1> DEFINE location == orderIdtoPriceMapping[Key(orderId)]
           level == PriceToIndex(location.price)
<1>1. /\ location.isValid
      /\ FoundAt(orderId, location.side, level) # {}
      /\ call' = [step |-> "erase", id |-> orderId, side |-> location.side, level |-> level]
      /\ UNCHANGED <<bookVars, atomicOrderID>>
  BY DEF StartCancel, vars
<1>2. location.side \in Side /\ level \in Level
  BY <1>1, LocationFound
<1> HIDE DEF location, level
<1>3. (FoundAt(call.id, call.side, call.level) # {})'
  BY <1>1 DEF FoundAt, bookVars
<1>4. CancelUnderWay'
  BY <1>1, <1>2, <1>3 DEF CancelUnderWay
<1>5. QED
  BY <1>1, <1>4, BookStays

LEMMA EraseTyped ==
  ASSUME BookBetweenWrites, CancelUnderWay, Erase
  PROVE  BookBetweenWrites' /\ CancelUnderWay'
<1> DEFINE queue == priceLevel[call.side][call.level]
           i == Min(FoundAt(call.id, call.side, call.level))
<1>1. /\ Released(<<queue[i]>>)
      /\ priceLevel' = [priceLevel EXCEPT ![call.side][call.level] = RemoveAt(queue, i)]
      /\ call' = [call EXCEPT !.step = "forget"]
      /\ UNCHANGED <<pool, bitmap, orderIdtoPriceMapping, atomicOrderID>>
  BY DEF Erase
<1>2. /\ call.side \in Side /\ call.level \in Level
      /\ FoundAt(call.id, call.side, call.level) # {}
  BY DEF CancelUnderWay, Erase
<1>3. queue[i] \in Slot /\ RemoveAt(queue, i) \in Seq(Slot)
  BY <1>2, FirstFound
<1> HIDE DEF queue, i
<1>4. freeStack' \in Seq(Slot)
  BY <1>1, <1>3, ReleasedTyped
<1>5. priceLevel' \in [Side -> [Level -> Seq(Slot)]]
  BY <1>1, <1>2, <1>3, BookParts
<1>6. BookBetweenWrites'
  BY <1>1, <1>4, <1>5, BookParts DEF BookBetweenWrites, BookTypeOK, LocationsTradable
<1>7. CancelUnderWay'
  BY <1>1 DEF CancelUnderWay
<1>8. QED
  BY <1>6, <1>7

LEMMA ForgetTyped ==
  ASSUME BookBetweenWrites, CancelUnderWay, Forget
  PROVE  BookBetweenWrites' /\ call' = Idle
<1>1. /\ bitmap' = [bitmap EXCEPT ![call.side] =
           Unmarked(call.side, call.level, priceLevel[call.side][call.level])]
      /\ orderIdtoPriceMapping' = Forgotten({Key(call.id)})
      /\ UNCHANGED <<freeStack, pool, priceLevel, atomicOrderID>>
      /\ call' = Idle
  BY DEF Forget, Return
<1>2. call.side \in Side /\ call.level \in Level
  BY DEF CancelUnderWay
<1>3. bitmap' \in [Side -> Bitmap] /\ \A side \in Side : WithinLevels(bitmap'[side])
  BY <1>1, <1>2, UnmarkedWithin
<1>4. orderIdtoPriceMapping' \in [Slot -> OrderLocation] /\ LocationsTradable'
  BY <1>1, ForgottenTyped DEF LocationsTradable
<1>5. BookBetweenWrites'
  BY <1>1, <1>3, <1>4, BookParts DEF BookBetweenWrites, BookTypeOK
<1>6. QED
  BY <1>1, <1>5

-----------------------------------------------------------------------------
(* matchLimitOrders.                                                       *)
LEMMA BestKept ==
  ASSUME NEW side \in Side,
         priceLevel'[side] = priceLevel[side], bitmap'[side] = bitmap[side]
  PROVE  /\ FindBestLevel(side)' = FindBestLevel(side)
         /\ HasBest(side)' <=> HasBest(side)
BY DEF HasBest, FindBestLevel, Side, Bid, Ask

LEMMA BestOfCall ==
  ASSUME NEW side, call'.side = side
  PROVE  /\ FindBestLevel(call.side)' = FindBestLevel(side)'
         /\ HasBest(call.side)' <=> HasBest(side)'
BY DEF HasBest, FindBestLevel

LEMMA ReduceAskTyped ==
  ASSUME BookBetweenWrites, ReduceAsk
  PROVE  BookBetweenWrites' /\ MatchUnderWay'
<1> DEFINE order == [side \in Side |-> BestOrder(side)]
           volume == TradeVolume(pool[order[Ask]].volume, pool[order[Bid]].volume)
           price == ToU64(Ticks(order[Ask]))
<1>1. /\ HasBest(Ask) /\ HasBest(Bid)
      /\ pool' = [pool EXCEPT ![order[Ask]].volume = Left(Ask, volume)]
      /\ call' = [step |-> "reduceBid", side |-> Ask, order |-> order,
                  volume |-> volume, price |-> price]
      /\ UNCHANGED <<freeStack, priceLevel, bitmap, orderIdtoPriceMapping, atomicOrderID>>
  BY DEF ReduceAsk
<1>2. Ask \in Side /\ Bid \in Side
  BY DEF Side
<1>3. order \in [Side -> Slot] /\ order[Ask] = BestOrder(Ask)
  <2>1. \A side \in Side : BestOrder(side) \in Slot
    BY <1>1, BestFound DEF Side
  <2>2. QED
    BY <1>2, <2>1
<1>4. pool[order[Ask]] \in Order /\ pool[order[Bid]] \in Order
  BY <1>2, <1>3, BookParts
<1>5. volume \in U64 /\ price \in U64
  <2>1. volume \in U64
    BY <1>4, TradeVolumeTyped DEF Order
  <2>2. Ticks(order[Ask]) \in Int
    BY <1>4, ConversionsTyped DEF Ticks, GetPriceInTicks, Order, U64, Int32
  <2>3. QED
    BY <2>1, <2>2, ConversionsTyped
<1>6. Left(Ask, volume) \in U64
  BY <1>3, <1>4, <1>5, ReduceVolumeTyped DEF Left, Order
<1> HIDE DEF order, volume, price
<1>7. pool' \in [Slot -> Order]
  <2>1. [pool[order[Ask]] EXCEPT !.volume = Left(Ask, volume)] \in Order
    BY <1>4, <1>6 DEF Order
  <2>2. QED
    BY <1>1, <1>2, <1>3, <2>1, BookParts
<1>8. BookBetweenWrites'
  BY <1>1, <1>7, BookParts DEF BookBetweenWrites, BookTypeOK, LocationsTradable
<1>9. HasBest(Ask)' /\ HasBest(Bid)'
  BY <1>1, <1>2, BestKept
<1>10. HasBest(call.side)'
  BY <1>1, <1>9, BestOfCall
<1>11. MatchUnderWay'
  BY <1>1, <1>2, <1>3, <1>5, <1>9, <1>10 DEF MatchUnderWay
<1>12. QED
  BY <1>8, <1>11

LEMMA MatchParts ==
  ASSUME MatchUnderWay
  PROVE  /\ call.side \in Side /\ call.order \in [Side -> Slot]
         /\ \A side \in Side : call.order[side] \in Slot
         /\ call.volume \in U64 /\ Bid \in Side
BY DEF MatchUnderWay, Side

LEMMA ReduceBidTyped ==
  ASSUME BookBetweenWrites, MatchUnderWay, ReduceBid
  PROVE  BookBetweenWrites' /\ MatchUnderWay'
<1> DEFINE slot == call.order[Bid]
           volume == ReduceVolume(pool[slot].volume, call.volume)
<1>1. /\ call.step = "reduceBid"
      /\ pool' = [pool EXCEPT ![slot].volume = volume]
      /\ call' = [call EXCEPT !.step = "remove"]
      /\ UNCHANGED <<freeStack, priceLevel, bitmap, orderIdtoPriceMapping, atomicOrderID>>
  BY DEF ReduceBid
<1>2. slot \in Slot /\ pool[slot] \in Order
  BY MatchParts, BookParts
<1>3. volume \in U64
  BY <1>2, MatchParts, ReduceVolumeTyped DEF Order
<1> HIDE DEF volume, slot
<1>4. pool' \in [Slot -> Order]
  <2>1. [pool[slot] EXCEPT !.volume = volume] \in Order
    BY <1>2, <1>3 DEF Order
  <2>2. QED
    BY <1>1, <1>2, <2>1, BookParts
<1>5. BookBetweenWrites'
  BY <1>1, <1>4, BookParts DEF BookBetweenWrites, BookTypeOK, LocationsTradable
<1>6. call'.side = call.side /\ call'.step = "remove"
  BY <1>1 DEF MatchUnderWay
<1>7. HasBest(call.side)' /\ (call.side = Ask => HasBest(Bid)')
  <2>1. HasBest(call.side) /\ (call.side = Ask => HasBest(Bid))
    BY <1>1 DEF MatchUnderWay
  <2>2. \A side \in Side : HasBest(side)' <=> HasBest(side)
    BY <1>1, BestKept
  <2>3. HasBest(call.side)
    BY <2>1
  <2>4. PICK side \in Side : side = call.side
    BY MatchParts
  <2>5. HasBest(call.side)' <=> HasBest(side)'
    BY <1>6, <2>4, BestOfCall
  <2>6. QED
    BY <2>1, <2>2, <2>4, <2>5, MatchParts
<1>8. MatchUnderWay'
  BY <1>1, <1>6, <1>7 DEF MatchUnderWay
<1>9. QED
  BY <1>5, <1>8

LEMMA NextSideTyped ==
  ASSUME MatchUnderWay, NextSide, call.side = Ask => HasBest(Bid)'
  PROVE  call' = Idle \/ MatchUnderWay'
<1>1. CASE call.side = Ask
  <2>1. call' = [call EXCEPT !.step = "remove", !.side = Bid]
    BY <1>1 DEF NextSide, Bid, Ask
  <2>2. call'.side = Bid /\ call'.step = "remove"
    BY <2>1 DEF MatchUnderWay
  <2>3. HasBest(call.side)'
    BY <1>1, <2>2, BestOfCall
  <2>4. Bid # Ask /\ Bid \in Side
    BY DEF Bid, Ask, Side
  <2>5. MatchUnderWay'
    BY <2>1, <2>2, <2>3, <2>4 DEF MatchUnderWay
  <2>6. QED
    BY <2>5
<1>2. CASE call.side = Bid
  BY <1>2 DEF NextSide, Return, Bid, Ask
<1>3. QED
  BY <1>1, <1>2, MatchParts DEF Side

LEMMA KeepUnfilledTyped ==
  ASSUME BookBetweenWrites, MatchUnderWay, NEW side \in Side, KeepUnfilled(side)
  PROVE  BookBetweenWrites' /\ (call' = Idle \/ MatchUnderWay')
<1>1. NextSide /\ UNCHANGED <<bookVars, atomicOrderID>>
  BY DEF KeepUnfilled
<1>2. call.side = Ask => HasBest(Bid)'
  BY <1>1, MatchParts, BestKept DEF MatchUnderWay, bookVars
<1>3. QED
  BY <1>1, <1>2, BookStays, NextSideTyped

LEMMA PopFilledTyped ==
  ASSUME BookBetweenWrites, MatchUnderWay, NEW side \in Side, PopFilled(side)
  PROVE  BookBetweenWrites' /\ MatchUnderWay'
<1> DEFINE level == FindBestLevel(side)
<1>1. /\ call.step = "remove" /\ call.side = side
      /\ priceLevel' = [priceLevel EXCEPT ![side][level] = Tail(@)]
      /\ Released(<<call.order[side]>>)
      /\ orderIdtoPriceMapping' = Forgotten({Key(pool[call.order[side]].id)})
      /\ call' = [call EXCEPT !.step = "unmark"]
      /\ UNCHANGED <<pool, bitmap, atomicOrderID>>
  BY DEF PopFilled
<1>2. HasBest(side) /\ (side = Ask => HasBest(Bid))
  BY <1>1 DEF MatchUnderWay
<1>3. level \in Level /\ Tail(priceLevel[side][level]) \in Seq(Slot) /\ level # NoLevel
  BY <1>2, BestFound DEF HasBest
<1> HIDE DEF level
<1>4. freeStack' \in Seq(Slot)
  BY <1>1, MatchParts, ReleasedTyped
<1>5. priceLevel' \in [Side -> [Level -> Seq(Slot)]]
  BY <1>1, <1>3, BookParts
<1>6. orderIdtoPriceMapping' \in [Slot -> OrderLocation] /\ LocationsTradable'
  BY <1>1, ForgottenTyped DEF LocationsTradable
<1>7. BookBetweenWrites'
  BY <1>1, <1>4, <1>5, <1>6, BookParts DEF BookBetweenWrites, BookTypeOK
<1>8. call'.side = side /\ call'.step = "unmark"
  BY <1>1 DEF MatchUnderWay
<1>9. FindBestLevel(call.side)' # NoLevel
  <2>1. FindBestLevel(side)' = FindBestLevel(side)
    BY <1>1 DEF FindBestLevel
  <2>2. QED
    BY <1>3, <1>8, <2>1, BestOfCall DEF level
<1>10. side = Ask => HasBest(Bid)'
  <2>1. ASSUME side = Ask
        PROVE  priceLevel'[Bid] = priceLevel[Bid] /\ bitmap'[Bid] = bitmap[Bid]
    BY <1>1, <2>1, BookParts DEF Bid, Ask, Side
  <2>2. QED
    BY <1>2, <2>1, BestKept, MatchParts
<1>11. MatchUnderWay'
  BY <1>1, <1>8, <1>9, <1>10 DEF MatchUnderWay
<1>12. QED
  BY <1>7, <1>11

LEMMA UnmarkEmptiedTyped ==
  ASSUME BookBetweenWrites, MatchUnderWay, UnmarkEmptied
  PROVE  BookBetweenWrites' /\ (call' = Idle \/ MatchUnderWay')
<1> DEFINE level == FindBestLevel(call.side)
<1>1. /\ call.step = "unmark"
      /\ bitmap' = [bitmap EXCEPT ![call.side] =
           Unmarked(call.side, level, priceLevel[call.side][level])]
      /\ NextSide
      /\ UNCHANGED <<freeStack, pool, priceLevel, orderIdtoPriceMapping, atomicOrderID>>
  BY DEF UnmarkEmptied
<1>2. call.side \in Side /\ level \in Level
  BY <1>1, MatchParts, LevelFound DEF MatchUnderWay
<1> HIDE DEF level
<1>3. bitmap' \in [Side -> Bitmap] /\ \A side \in Side : WithinLevels(bitmap'[side])
  BY <1>1, <1>2, UnmarkedWithin
<1>4. BookBetweenWrites'
  BY <1>1, <1>3, BookParts DEF BookBetweenWrites, BookTypeOK, LocationsTradable
<1>5. call.side = Ask => HasBest(Bid)'
  <2>1. ASSUME call.side = Ask
        PROVE  bitmap'[Bid] = bitmap[Bid] /\ HasBest(Bid)
    BY <1>1, <2>1, BookParts DEF Bid, Ask, Side, MatchUnderWay
  <2>2. QED
    BY <1>1, <2>1, BestKept, MatchParts
<1>6. QED
  BY <1>1, <1>4, <1>5, NextSideTyped

-----------------------------------------------------------------------------
(* Each write of the engine keeps its types.                               *)
LEMMA CallsApart ==
  /\ AddUnderWay => call # Idle /\ call.step \in {"enqueue", "mark"}
  /\ CancelUnderWay => call # Idle /\ call.step \in {"erase", "forget"}
  /\ MatchUnderWay => call # Idle /\ call.step \in {"reduceBid", "remove", "unmark"}
  /\ call = Idle => call.step = "idle"
BY DEF AddUnderWay, CancelUnderWay, MatchUnderWay, Idle

LEMMA EngineTypedParts ==
  ASSUME EngineTyped
  PROVE  /\ BookBetweenWrites
         /\ call.step \in {"enqueue", "mark"} => AddUnderWay
         /\ call.step \in {"erase", "forget"} => CancelUnderWay
         /\ call.step \in {"reduceBid", "remove", "unmark"} => MatchUnderWay
BY CallsApart DEF EngineTyped

LEMMA CallHandlerTyped ==
  ASSUME EngineTyped, CallHandler
  PROVE  EngineTyped'
<1>1. BookBetweenWrites /\ call = Idle
  BY DEF EngineTyped, CallHandler
<1>2. CASE \E side \in Side, volume \in Volumes, price \in Prices : AddNothing
  <2>1. UNCHANGED <<bookVars, atomicOrderID>> /\ call' = call
    BY <1>2 DEF AddNothing, AddOrderPoolEmpty
  <2>2. QED
    BY <1>1, <2>1, BookStays DEF EngineTyped
<1>3. CASE \E side \in Side, volume \in Volumes, price \in Prices :
             StartAdd(NewOrder(side, volume, price))
  BY <1>1, <1>3, StartAddTyped DEF EngineTyped
<1>4. CASE \E orderId \in OrderIds : CancelNothing(orderId)
  BY <1>1, <1>4, CancelNothingTyped DEF EngineTyped
<1>5. CASE \E orderId \in OrderIds : StartCancel(orderId)
  BY <1>1, <1>5, StartCancelTyped DEF EngineTyped
<1>6. QED
  BY <1>2, <1>3, <1>4, <1>5 DEF CallHandler

LEMMA ContinueHandlerTyped ==
  ASSUME EngineTyped, ContinueHandler
  PROVE  EngineTyped'
<1>1. CASE Enqueue
  BY <1>1, EngineTypedParts, EnqueueTyped DEF EngineTyped, Enqueue
<1>2. CASE Mark
  BY <1>2, EngineTypedParts, MarkTyped DEF EngineTyped, Mark
<1>3. CASE Erase
  BY <1>3, EngineTypedParts, EraseTyped DEF EngineTyped, Erase
<1>4. CASE Forget
  BY <1>4, EngineTypedParts, ForgetTyped DEF EngineTyped, Forget
<1>5. QED
  BY <1>1, <1>2, <1>3, <1>4 DEF ContinueHandler

LEMMA CallMatchTyped ==
  ASSUME EngineTyped, CallMatch
  PROVE  EngineTyped'
<1>1. BookBetweenWrites /\ call = Idle
  BY DEF EngineTyped, CallMatch
<1>2. CASE TradeNothing
  <2>1. UNCHANGED <<bookVars, atomicOrderID>> /\ call' = call
    BY <1>2 DEF TradeNothing, MatchNothing
  <2>2. QED
    BY <1>1, <2>1, BookStays DEF EngineTyped
<1>3. CASE ReduceAsk
  BY <1>1, <1>3, ReduceAskTyped DEF EngineTyped
<1>4. QED
  BY <1>2, <1>3 DEF CallMatch

LEMMA ContinueMatchTyped ==
  ASSUME EngineTyped, ContinueMatch
  PROVE  EngineTyped'
<1>1. CASE ReduceBid
  BY <1>1, EngineTypedParts, ReduceBidTyped DEF EngineTyped, ReduceBid
<1>2. CASE \E side \in Side : KeepUnfilled(side)
  BY <1>2, EngineTypedParts, KeepUnfilledTyped DEF EngineTyped, KeepUnfilled
<1>3. CASE \E side \in Side : PopFilled(side)
  BY <1>3, EngineTypedParts, PopFilledTyped DEF EngineTyped, PopFilled
<1>4. CASE UnmarkEmptied
  BY <1>4, EngineTypedParts, UnmarkEmptiedTyped DEF EngineTyped, UnmarkEmptied
<1>5. QED
  BY <1>1, <1>2, <1>3, <1>4 DEF ContinueMatch

LEMMA EngineStays ==
  ASSUME EngineTyped, UNCHANGED stepVars
  PROVE  EngineTyped'
<1>1. BookBetweenWrites' /\ call' = call
  BY BookStays DEF EngineTyped, stepVars, vars
<1>2. AddUnderWay => AddUnderWay'
  BY DEF AddUnderWay, stepVars, vars, bookVars
<1>3. CancelUnderWay => CancelUnderWay'
  BY DEF CancelUnderWay, FoundAt, stepVars, vars, bookVars
<1>4. MatchUnderWay => MatchUnderWay'
  BY DEF MatchUnderWay, HasBest, FindBestLevel, stepVars, vars, bookVars
<1>5. QED
  BY <1>1, <1>2, <1>3, <1>4 DEF EngineTyped

LEMMA EngineStart == StepInit => EngineTyped
<1> SUFFICES ASSUME StepInit PROVE EngineTyped
  OBVIOUS
<1>1. TypedBook /\ call = Idle
  BY InitTyped DEF StepInit
<1>2. \A side \in Side : WithinLevels(bitmap[side])
  BY DEF StepInit, Init, BookInit, EmptyBitmap, WithinLevels
<1>3. QED
  BY <1>1, <1>2 DEF EngineTyped, BookBetweenWrites, TypedBook, TypeOK

-----------------------------------------------------------------------------
(* The market data thread.                                                 *)
Snapshots == [price : [Side -> U64], volume : [Side -> U64]]
FeedSteps == {"word", "empty", "front", "price", "level", "volume", "lock", "send"}
Readings ==
  [step : FeedSteps, side : Side, at : Level \union Word, caught : BOOLEAN,
   order : [Side -> Slot \union {Wild}], snapshot : Snapshots]

(* What the thread has in `at' is a word where it reads words, and a level *)
(* where it reads queues.                                                  *)
IsReading(reading) ==
  /\ reading \in Readings
  /\ reading.step = "word" => reading.at \in Word
  /\ reading.step \in {"empty", "front", "volume"} => reading.at \in Level

LEMMA FirstAndLastWord == 0 \in Word /\ NumOfWords - 1 \in Word /\ 0 \in Level
<1>1. 0 \in Level
  BY LevelBitmapAssumption DEF Level
<1>2. WordOf(0) \in Word
  BY <1>1, LevelPosition
<1>3. NumOfWords \in Int
  BY LevelBitmapAssumption DEF NumOfWords
<1>4. QED
  BY <1>1, <1>2, <1>3 DEF Word

LEMMA NewReadingTyped == IsReading(NewReading) /\ EmptySnapshot \in Snapshots
<1>1. EmptySnapshot \in Snapshots
  BY MachineIntegersAssumption DEF EmptySnapshot, Snapshots, U64
<1>2. NewReading \in Readings
  BY <1>1, FirstAndLastWord DEF NewReading, Readings, FeedSteps, Side
<1>3. QED
  BY <1>1, <1>2, FirstAndLastWord DEF IsReading, NewReading

LEMMA CaughtTyped == IsReading(Caught) /\ Caught.step = "lock"
<1>1. Caught \in Readings /\ Caught.step = "lock"
  BY NewReadingTyped DEF Caught, IsReading, Readings, FeedSteps, NewReading
<1>2. QED
  BY <1>1 DEF IsReading

(* A thread that goes on with the other side or with the next step, after  *)
(* it has read what it needs a place for.                                  *)
LEMMA ThenTyped ==
  ASSUME feed.side \in Side, NEW reading \in Readings, reading.at = 0,
         NEW again \in {"word", "price", "level"}, NEW next \in {"price", "level", "lock"}
  PROVE  /\ IsReading(Then(reading, again, next))
         /\ Then(reading, again, next).step \in {again, next}
<1>1. /\ Then(reading, again, next) \in Readings
      /\ Then(reading, again, next).at = 0
      /\ Then(reading, again, next).step \in {again, next}
  BY DEF Then, Readings, FeedSteps, Side, Ask, Bid
<1>2. QED
  BY <1>1, FirstAndLastWord DEF IsReading

(* A step of the thread leaves a reading, and does not hold the socket.    *)
ReadsOn == IsReading(feed)' /\ feed'.step # "send"

LEMMA ReadWordTyped ==
  ASSUME BookBetweenWrites, IsReading(feed), ReadWord
  PROVE  ReadsOn
<1> DEFINE word == bitmap[feed.side][feed.at]
           bit == IF feed.side = Bid THEN Max(word) ELSE Min(word)
           next == IF feed.side = Bid THEN feed.at - 1 ELSE feed.at + 1
<1>1. /\ feed.step = "word"
      /\ \/ word # {} /\ feed' = [feed EXCEPT !.step = "empty", !.at = feed.at * CHUNK + bit]
         \/ feed' = IF next \in Word THEN [feed EXCEPT !.at = next] ELSE Caught
  BY DEF ReadWord, FeedAt, Goes
<1>2. feed \in Readings /\ feed.side \in Side /\ feed.at \in Word
  BY <1>1 DEF IsReading, Readings
<1>3. CASE word # {} /\ feed' = [feed EXCEPT !.step = "empty", !.at = feed.at * CHUNK + bit]
  <2>1. word \in SUBSET Bit /\ \A b \in word : feed.at * CHUNK + b \in Level
    BY <1>2, BookParts DEF Bitmap, WithinLevels
  <2>2. bit \in word
    <3>1. word \in SUBSET Nat /\ word # {} /\ \A b \in word : b <= CHUNK
      BY <1>3, <2>1, LevelBitmapAssumption DEF Bit
    <3>2. Max(word) \in word /\ Min(word) \in word
      BY <3>1, MaxOfBounded, MinOfNaturals, LevelBitmapAssumption
    <3>3. QED
      BY <3>2
  <2>3. feed.at * CHUNK + bit \in Level
    BY <2>1, <2>2
  <2> HIDE DEF bit, word
  <2>4. feed' \in Readings /\ feed'.step = "empty" /\ feed'.at \in Level
    BY <1>2, <1>3, <2>3 DEF Readings, FeedSteps
  <2>5. QED
    BY <2>4 DEF ReadsOn, IsReading
<1>4. CASE feed' = IF next \in Word THEN [feed EXCEPT !.at = next] ELSE Caught
  <2> HIDE DEF next
  <2>1. CASE next \in Word
    <3>1. feed' = [feed EXCEPT !.at = next]
      BY <1>4, <2>1
    <3>2. feed' \in Readings /\ feed'.step = "word" /\ feed'.at \in Word
      BY <1>1, <1>2, <2>1, <3>1 DEF Readings
    <3>3. QED
      BY <3>2 DEF ReadsOn, IsReading
  <2>2. CASE next \notin Word
    BY <1>4, <2>2, CaughtTyped DEF ReadsOn
  <2>3. QED
    BY <2>1, <2>2
<1>5. QED
  BY <1>1, <1>3, <1>4

LEMMA CheckEmptyTyped ==
  ASSUME IsReading(feed), CheckEmpty
  PROVE  ReadsOn
<1>1. feed.step = "empty" /\ (feed' = Caught \/ feed' = [feed EXCEPT !.step = "front"])
  BY DEF CheckEmpty, FeedAt, Goes
<1>2. CASE feed' = [feed EXCEPT !.step = "front"]
  <2>1. feed' \in Readings /\ feed'.step = "front" /\ feed'.at \in Level
    BY <1>1, <1>2 DEF IsReading, Readings, FeedSteps
  <2>2. QED
    BY <2>1 DEF ReadsOn, IsReading
<1>3. QED
  BY <1>1, <1>2, CaughtTyped DEF ReadsOn

(* Whatever a front yields, it is a slot or no object.                     *)
LEMMA ReadFrontTyped ==
  ASSUME BookBetweenWrites, IsReading(feed), ReadFront
  PROVE  ReadsOn
<1>1. PICK order \in Fronts(feed.side, feed.at) :
        feed' = Then([feed EXCEPT !.order[feed.side] = order, !.at = 0], "word", "price")
  BY DEF ReadFront, Goes
<1>2. feed \in Readings /\ feed.side \in Side /\ feed.at \in Level
  BY DEF ReadFront, FeedAt, IsReading, Readings
<1>3. order \in Slot \union {Wild}
  <2>1. priceLevel[feed.side][feed.at] \in Seq(Slot)
    BY <1>2, BookParts
  <2>2. CASE FrontIsUndefined(feed.side, feed.at)
    BY <1>1, <2>2 DEF Fronts
  <2>3. CASE ~FrontIsUndefined(feed.side, feed.at)
    BY <1>1, <2>1, <2>3, HeadTailProperties DEF Fronts, FrontIsUndefined
  <2>4. QED
    BY <2>2, <2>3
<1> DEFINE reading == [feed EXCEPT !.order[feed.side] = order, !.at = 0]
<1>4. reading \in Readings /\ reading.at = 0
  BY <1>2, <1>3, FirstAndLastWord DEF Readings
<1> HIDE DEF reading
<1>5. IsReading(feed') /\ feed'.step \in {"word", "price"}
  BY <1>1, <1>2, <1>4, ThenTyped DEF reading
<1>6. QED
  BY <1>5 DEF ReadsOn, IsReading

LEMMA ReadPriceTyped ==
  ASSUME BookBetweenWrites, IsReading(feed), ReadPrice
  PROVE  ReadsOn
<1> DEFINE order == feed.order[feed.side]
           reading == [feed EXCEPT !.snapshot.price[feed.side] = ToU64(Ticks(order))]
<1>1. /\ feed.step = "price"
      /\ \/ order # Wild /\ feed' = Then(reading, "price", "level")
         \/ feed' = feed
  BY DEF ReadPrice, FeedAt, Goes, Crashes
<1>2. feed \in Readings /\ feed.side \in Side /\ order \in Slot \union {Wild}
  BY DEF IsReading, Readings
<1>3. CASE order # Wild /\ feed' = Then(reading, "price", "level")
  <2>1. ToU64(Ticks(order)) \in U64
    <3>1. pool[order].price \in Int
      BY <1>2, <1>3, BookParts DEF Order, U64
    <3>2. QED
      BY <3>1, ConversionsTyped DEF Ticks, GetPriceInTicks, Int32
  <2> HIDE DEF order
  <2>2. reading \in Readings /\ reading.at = feed.at
    BY <1>2, <2>1 DEF Readings, Snapshots
  <2> HIDE DEF reading
  <2>3. Then(reading, "price", "level") \in Readings
    BY <1>2, <2>2 DEF Then, Readings, FeedSteps, Side, Ask
  <2>4. Then(reading, "price", "level").step \in {"price", "level"}
    BY <1>2, <2>2 DEF Then, Readings
  <2>5. QED
    BY <1>3, <2>3, <2>4 DEF ReadsOn, IsReading
<1>4. CASE feed' = feed
  BY <1>1, <1>4 DEF ReadsOn, IsReading
<1>5. QED
  BY <1>1, <1>3, <1>4

LEMMA ReadLevelTyped ==
  ASSUME IsReading(feed), ReadLevel
  PROVE  ReadsOn
<1> DEFINE level == PriceToIndex(pool[feed.order[feed.side]].price)
<1>1. \/ level \in Level /\ feed' = [feed EXCEPT !.step = "volume", !.at = level]
      \/ feed' = Caught
  BY DEF ReadLevel, Goes, IsTradable
<1> HIDE DEF level
<1>2. CASE level \in Level /\ feed' = [feed EXCEPT !.step = "volume", !.at = level]
  <2>1. feed' \in Readings /\ feed'.step = "volume" /\ feed'.at \in Level
    BY <1>2 DEF IsReading, Readings, FeedSteps
  <2>2. QED
    BY <2>1 DEF ReadsOn, IsReading
<1>3. QED
  BY <1>1, <1>2, CaughtTyped DEF ReadsOn

(* Torn or not, a volume fits 64 bits.                                     *)
LEMMA VolumesTyped ==
  ASSUME BookBetweenWrites, NEW side \in Side, NEW level \in Level
  PROVE  TornVolumes \subseteq U64 /\ VolumeAt(side, level) \in U64
<1>1. ASSUME NEW slots \in SUBSET Slot
      PROVE  ToU64(TotalVolume(slots)) \in U64
  <2>1. TotalVolume(slots) \in Int
    BY BookParts, TotalVolumeTyped
  <2>2. QED
    BY <2>1, ConversionsTyped
<1>2. ToSet(priceLevel[side][level]) \in SUBSET Slot
  BY BookParts DEF ToSet
<1>3. QED
  BY <1>1, <1>2 DEF TornVolumes, VolumeAt

LEMMA ReadVolumeTyped ==
  ASSUME BookBetweenWrites, IsReading(feed), ReadVolume
  PROVE  ReadsOn
<1>1. /\ feed.step = "volume"
      /\ \/ \E volume \in TornVolumes \union {VolumeAt(feed.side, feed.at)} :
              feed' = Then([feed EXCEPT !.snapshot.volume[feed.side] = volume, !.at = 0],
                           "level", "lock")
         \/ feed' = feed
  BY DEF ReadVolume, FeedAt, Goes, Crashes
<1>2. feed \in Readings /\ feed.side \in Side /\ feed.at \in Level
  BY <1>1 DEF IsReading, Readings
<1>3. CASE \E volume \in TornVolumes \union {VolumeAt(feed.side, feed.at)} :
             feed' = Then([feed EXCEPT !.snapshot.volume[feed.side] = volume, !.at = 0],
                          "level", "lock")
  <2>1. PICK volume \in TornVolumes \union {VolumeAt(feed.side, feed.at)} :
          feed' = Then([feed EXCEPT !.snapshot.volume[feed.side] = volume, !.at = 0],
                       "level", "lock")
    BY <1>3
  <2>2. volume \in U64
    BY <1>2, <2>1, VolumesTyped
  <2> DEFINE reading == [feed EXCEPT !.snapshot.volume[feed.side] = volume, !.at = 0]
  <2>3. reading \in Readings /\ reading.at = 0
    BY <1>2, <2>2, FirstAndLastWord DEF Readings, Snapshots
  <2> HIDE DEF reading
  <2>4. IsReading(feed') /\ feed'.step \in {"level", "lock"}
    BY <1>2, <2>1, <2>3, ThenTyped DEF reading
  <2>5. QED
    BY <2>4 DEF ReadsOn, IsReading
<1>4. CASE feed' = feed
  BY <1>1, <1>4 DEF ReadsOn, IsReading
<1>5. QED
  BY <1>1, <1>3, <1>4

LEMMA FeedReadsTyped ==
  ASSUME BookBetweenWrites, IsReading(feed), FeedReads
  PROVE  ReadsOn /\ feed.step # "send" /\ UNCHANGED <<stepVars, main, socketMtx, sent, failures>>
<1>1. feed.step # "send" /\ UNCHANGED <<stepVars, main, socketMtx, sent, failures>>
  BY DEF FeedReads, ReadWord, CheckEmpty, ReadFront, ReadPrice, ReadLevel, ReadVolume, FeedAt
<1>2. QED
  BY <1>1, ReadWordTyped, CheckEmptyTyped, ReadFrontTyped, ReadPriceTyped, ReadLevelTyped,
     ReadVolumeTyped DEF FeedReads

-----------------------------------------------------------------------------
(* The two threads on the socket.                                          *)
SocketTyped ==
  /\ sent \in Snapshots
  /\ main \in {"matching", "announcing", "sending"}
  /\ feed.step = "send" <=> socketMtx = "feed"
  /\ main = "sending" <=> socketMtx = "main"
  /\ failures \in 0 .. MaxFailures

LEMMA ServerTypeOKParts == IsReading(feed) /\ SocketTyped => ServerTypeOK
BY DEF ServerTypeOK, IsReading, SocketTyped, Readings, FeedSteps, Snapshots

LEMMA LockToSendTyped ==
  ASSUME IsReading(feed), SocketTyped, LockToSend
  PROVE  IsReading(feed)' /\ SocketTyped'
<1>1. feed' = [feed EXCEPT !.step = "send"]
  BY DEF LockToSend
<1>2. feed' \in Readings /\ feed'.step = "send"
  BY <1>1 DEF IsReading, Readings, FeedSteps
<1>3. IsReading(feed)'
  BY <1>2 DEF IsReading
<1>4. SocketTyped'
  BY <1>2 DEF SocketTyped, LockToSend
<1>5. QED
  BY <1>3, <1>4

LEMMA SendSnapshotTyped ==
  ASSUME IsReading(feed), SocketTyped, SendSnapshot
  PROVE  IsReading(feed)' /\ SocketTyped'
<1>1. /\ feed.step = "send" /\ socketMtx' = "free" /\ UNCHANGED main
      /\ \/ sent' = feed.snapshot /\ feed' = NewReading /\ UNCHANGED failures
         \/ /\ failures < MaxFailures /\ failures' = failures + 1
            /\ feed' = Caught /\ UNCHANGED sent
  BY DEF SendSnapshot, Unlocked
<1>2. IsReading(feed)' /\ feed'.step # "send"
  <2>1. NewReading.step = "word"
    BY DEF NewReading
  <2>2. QED
    BY <1>1, <2>1, NewReadingTyped, CaughtTyped
<1>3. main # "sending"
  BY <1>1 DEF SocketTyped
<1>4. sent' \in Snapshots
  BY <1>1 DEF SocketTyped, IsReading, Readings
<1>5. failures' \in 0 .. MaxFailures
  BY <1>1, MarketDataServerAssumption DEF SocketTyped
<1>6. SocketTyped'
  BY <1>1, <1>2, <1>3, <1>4, <1>5 DEF SocketTyped
<1>7. QED
  BY <1>2, <1>6

LEMMA SendTradeTyped ==
  ASSUME SocketTyped, SendTrade
  PROVE  SocketTyped'
<1>1. /\ main = "sending" /\ main' = "matching" /\ socketMtx' = "free"
      /\ UNCHANGED <<feed, sent>>
      /\ failures' = failures \/ (failures < MaxFailures /\ failures' = failures + 1)
  BY DEF SendTrade, Unlocked
<1>2. failures' \in 0 .. MaxFailures
  BY <1>1, MarketDataServerAssumption DEF SocketTyped
<1>3. QED
  BY <1>1, <1>2 DEF SocketTyped

-----------------------------------------------------------------------------
(* The inductive invariant of the server.                                  *)
ServerInv == EngineTyped /\ IsReading(feed) /\ SocketTyped

LEMMA ServerStart == ServerInit => ServerInv
<1> SUFFICES ASSUME ServerInit PROVE ServerInv
  OBVIOUS
<1>1. EngineTyped
  BY EngineStart DEF ServerInit
<1>2. IsReading(feed)
  BY NewReadingTyped DEF ServerInit
<1>3. SocketTyped
  BY NewReadingTyped, MarketDataServerAssumption DEF ServerInit, SocketTyped, NewReading
<1>4. QED
  BY <1>1, <1>2, <1>3 DEF ServerInv

LEMMA FeedStays ==
  ASSUME IsReading(feed), UNCHANGED feed
  PROVE  IsReading(feed)'
BY DEF IsReading

LEMMA ServerStep == ServerInv /\ [ServerNext]_serverVars => ServerInv'
<1> SUFFICES ASSUME ServerInv, [ServerNext]_serverVars PROVE ServerInv'
  OBVIOUS
<1>1. EngineTyped /\ BookBetweenWrites /\ IsReading(feed) /\ SocketTyped
  BY DEF ServerInv, EngineTyped
<1>2. CASE FeedReads
  <2>1. ReadsOn /\ feed.step # "send" /\ UNCHANGED <<stepVars, main, socketMtx, sent, failures>>
    BY <1>1, <1>2, FeedReadsTyped
  <2>2. SocketTyped'
    BY <1>1, <2>1 DEF SocketTyped, ReadsOn
  <2>3. QED
    BY <1>1, <2>1, <2>2, EngineStays DEF ServerInv, ReadsOn
<1>3. CASE LockToSend
  <2>1. UNCHANGED stepVars
    BY <1>3 DEF LockToSend
  <2>2. QED
    BY <1>1, <1>3, <2>1, EngineStays, LockToSendTyped DEF ServerInv
<1>4. CASE SendSnapshot
  <2>1. UNCHANGED stepVars
    BY <1>4 DEF SendSnapshot
  <2>2. QED
    BY <1>1, <1>4, <2>1, EngineStays, SendSnapshotTyped DEF ServerInv
<1>5. CASE Match
  <2>1. /\ main = "matching" /\ main' \in {"matching", "announcing"}
        /\ UNCHANGED <<feed, socketMtx, sent, failures>>
    BY <1>5 DEF Match, socketVars
  <2>2. EngineTyped'
    BY <1>1, <1>5, CallMatchTyped, ContinueMatchTyped DEF Match
  <2>3. SocketTyped'
    BY <1>1, <2>1 DEF SocketTyped
  <2>4. QED
    BY <1>1, <2>1, <2>2, <2>3, FeedStays DEF ServerInv
<1>6. CASE LockToAnnounce
  <2>1. UNCHANGED <<stepVars, feed>>
    BY <1>6 DEF LockToAnnounce
  <2>2. SocketTyped'
    BY <1>1, <1>6 DEF SocketTyped, LockToAnnounce
  <2>3. QED
    BY <1>1, <2>1, <2>2, EngineStays, FeedStays DEF ServerInv
<1>7. CASE SendTrade
  <2>1. UNCHANGED <<stepVars, feed>>
    BY <1>7 DEF SendTrade
  <2>2. QED
    BY <1>1, <1>7, <2>1, EngineStays, FeedStays, SendTradeTyped DEF ServerInv
<1>8. CASE Session
  <2>1. UNCHANGED <<feed, main, socketMtx, sent, failures>>
    BY <1>8 DEF Session, socketVars
  <2>2. EngineTyped'
    BY <1>1, <1>8, CallHandlerTyped, ContinueHandlerTyped DEF Session
  <2>3. SocketTyped'
    BY <1>1, <2>1 DEF SocketTyped
  <2>4. QED
    BY <1>1, <2>1, <2>2, <2>3, FeedStays DEF ServerInv
<1>9. CASE UNCHANGED serverVars
  <2>1. UNCHANGED stepVars /\ UNCHANGED <<feed, main, socketMtx, sent, failures>>
    BY <1>9 DEF serverVars, socketVars
  <2>2. SocketTyped'
    BY <1>1, <2>1 DEF SocketTyped
  <2>3. QED
    BY <1>1, <2>1, <2>2, EngineStays, FeedStays DEF ServerInv
<1>10. QED
  BY <1>2, <1>3, <1>4, <1>5, <1>6, <1>7, <1>8, <1>9 DEF ServerNext

(* Whatever the reading thread finds between two writes of a handler, at   *)
(* whatever moment of a fill, a cancel or an add: it looks for bits in     *)
(* words and for orders in levels that exist, it keeps slots or a pointer  *)
(* it may not follow, and it sends while it holds the socket and only then *)
(* (UDPServer.hpp:37-60).                                                  *)
THEOREM ServerAlwaysTyped == ServerSpec => []ServerTypeOK
<1>1. ServerInv => ServerTypeOK
  BY ServerTypeOKParts DEF ServerInv
<1>2. QED
  BY <1>1, ServerStart, ServerStep, PTL DEF ServerSpec
=============================================================================
