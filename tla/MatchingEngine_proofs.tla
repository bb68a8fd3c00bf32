------------------------ MODULE MatchingEngine_proofs ------------------------
(***************************************************************************)
(* Proofs about the matching engine for every number of levels, word size, *)
(* pool size, integer width and set of client inputs: the types and the    *)
(* bitmaps, the owners of slots, and price-time priority.                  *)
(***************************************************************************)
EXTENDS MatchingEngine, OrderBook_proofs

-----------------------------------------------------------------------------
(* The first inductive invariant.  TypeOK alone is not inductive: that the *)
(* best level of a side is a level follows from its bitmap matching its    *)
(* queues, and that a cancel looks at a level follows from the prices in   *)
(* the id table being prices of the book.                                  *)
LocationsTradable ==
  \A key \in Slot :
    orderIdtoPriceMapping[key].isValid => IsTradable(orderIdtoPriceMapping[key].price)

TypedBook == TypeOK /\ BitmapMatchesLevels /\ LocationsTradable

LEMMA SideOfTypedBook ==
  ASSUME TypedBook, NEW side \in Side
  PROVE  /\ priceLevel[side] \in [Level -> Seq(Slot)]
         /\ bitmap[side] \in Bitmap
         /\ Marks(bitmap[side], priceLevel[side])
BY DEF TypedBook, TypeOK, BookTypeOK, BitmapMatchesLevels, Marks

(* A side with a best order has it at the head of the queue of the highest *)
(* marked level of the bids or the lowest of the asks.                     *)
LEMMA BestOrderFacts ==
  ASSUME TypedBook, NEW side \in Side, HasBest(side)
  PROVE  /\ FindBestLevel(side) \in Level
         /\ priceLevel[side][FindBestLevel(side)] # <<>>
         /\ BestOrder(side) \in Slot
         /\ Tail(priceLevel[side][FindBestLevel(side)]) \in Seq(Slot)
<1>1. FindBestLevel(side) \in Level
  BY SideOfTypedBook, HighestLevelIsBest, LowestLevelIsBest
  DEF HasBest, FindBestLevel, Side, Marks
<1>2. QED
  BY <1>1, SideOfTypedBook, HeadTailProperties DEF HasBest, BestOrder

(* TypedBook holds initially.                                              *)
LEMMA InitTyped == Init => TypedBook
<1> SUFFICES ASSUME Init
             PROVE  TypedBook
  OBVIOUS
<1>1. POOL_SIZE \in Nat \ {0} /\ 0 \in U64
  BY OrderBookAssumption, MachineIntegersAssumption DEF U64
<1>2. freeStack \in Seq(Slot)
  BY <1>1 DEF Init, BookInit, Slot
<1>3. pool \in [Slot -> Order]
  BY <1>1 DEF Init, BookInit, Order, Side
<1>4. priceLevel \in [Side -> [Level -> Seq(Slot)]]
  BY EmptySeq DEF Init, BookInit
<1>5. bitmap \in [Side -> Bitmap]
  BY DEF Init, BookInit, EmptyBitmap, Bitmap
<1>6. orderIdtoPriceMapping \in [Slot -> OrderLocation]
  BY <1>1 DEF Init, BookInit, NoLocation, OrderLocation, Side
<1>7. BitmapMatchesLevels
  BY LevelPosition DEF Init, BookInit, BitmapMatchesLevels, EmptyBitmap, IsMarked, WithinLevels
<1>8. LocationsTradable
  BY DEF Init, BookInit, LocationsTradable, NoLocation
<1>9. QED
  BY <1>2, <1>3, <1>4, <1>5, <1>6, <1>7, <1>8
  DEF TypedBook, TypeOK, BookTypeOK, Init, Results, Nothing

(* addOrder: acquire, the copy into the slot and addBid or addAsk.         *)
LEMMA AddOrderTyped ==
  ASSUME TypedBook, NEW side \in Side, NEW volume \in U64, NEW price \in U64,
         AddOrder(side, volume, price)
  PROVE  TypedBook'
<1> DEFINE order == NewOrder(side, volume, price)
<1>1. order \in Order /\ order.side = side /\ order.price = price /\ order.id \in Nat
  BY MatchingEngineAssumption DEF NewOrder, Order, TypedBook, TypeOK
<1>2. CASE AddOrderPoolEmpty
  BY <1>2 DEF AddOrderPoolEmpty, bookVars, TypedBook, TypeOK, BookTypeOK, Results, Rejected,
     BitmapMatchesLevels, LocationsTradable
<1>3. ASSUME NEW slot \in Slot,
             Acquire(slot),
             pool' = [pool EXCEPT ![slot] = order],
             atomicOrderID' = atomicOrderID + 1,
             \/ /\ IsTradable(order.price)
                /\ Insert(slot, order)
                /\ result' = Accepted(order.id)
             \/ /\ ~IsTradable(order.price)
                /\ result' = Rejected("price")
                /\ UNCHANGED <<priceLevel, bitmap, orderIdtoPriceMapping>>
      PROVE  TypedBook'
  <2> HIDE DEF order
  <2>1. freeStack' \in Seq(Slot)
    BY <1>3, FrontLastProperties DEF Acquire, TypedBook, TypeOK, BookTypeOK
  <2>2. pool' \in [Slot -> Order] /\ atomicOrderID' \in Nat
    BY <1>1, <1>3 DEF TypedBook, TypeOK, BookTypeOK
  <2>3. result' \in Results
    BY <1>1, <1>3 DEF Accepted, Rejected, Results
  <2>4. CASE UNCHANGED <<priceLevel, bitmap, orderIdtoPriceMapping>>
    BY <2>1, <2>2, <2>3, <2>4
    DEF TypedBook, TypeOK, BookTypeOK, BitmapMatchesLevels, LocationsTradable
  <2>5. CASE IsTradable(order.price) /\ Insert(slot, order)
    <3> DEFINE level == PriceToIndex(order.price)
    <3>1. level \in Level
      BY <2>5 DEF IsTradable
    <3>2. /\ priceLevel' = [priceLevel EXCEPT ![side] =
                             [priceLevel[side] EXCEPT ![level] = Enqueued(@, slot)]]
          /\ bitmap' = [bitmap EXCEPT ![side] = SetBitTo1(bitmap[side], level)]
      BY <1>1, <2>5 DEF Insert, TypedBook, TypeOK, BookTypeOK
    <3> HIDE DEF level
    <3>3. /\ priceLevel' \in [Side -> [Level -> Seq(Slot)]]
          /\ bitmap' \in [Side -> Bitmap]
          /\ \A s \in Side : Marks(bitmap'[s], priceLevel'[s])
      BY <3>1, <3>2, SideOfTypedBook, MarksAfterInsert DEF TypedBook, TypeOK, BookTypeOK
    <3>4. /\ orderIdtoPriceMapping' \in [Slot -> OrderLocation]
          /\ \A key \in Slot : orderIdtoPriceMapping'[key].isValid =>
                IsTradable(orderIdtoPriceMapping'[key].price)
      <4>1. [isValid |-> TRUE, side |-> order.side, price |-> order.price] \in OrderLocation
        BY <1>1 DEF Order, OrderLocation
      <4>2. QED
        BY <1>1, <2>5, <4>1, KeyInTable
        DEF Insert, TypedBook, TypeOK, BookTypeOK, LocationsTradable
    <3>5. QED
      BY <2>1, <2>2, <2>3, <3>3, <3>4
      DEF TypedBook, TypeOK, BookTypeOK, BitmapMatchesLevels, LocationsTradable, Marks
  <2>6. QED
    BY <1>3, <2>4, <2>5
<1>4. QED
  BY <1>2, <1>3 DEF AddOrder, AddOrderToSlot

(* cancelOrder: the entry leads to a level, and what is found there can be *)
(* taken out of its queue.                                                 *)
LEMMA CancelOrderTyped ==
  ASSUME TypedBook, NEW orderId \in OrderIds, CancelOrder(orderId)
  PROVE  TypedBook'
<1> DEFINE location == orderIdtoPriceMapping[Key(orderId)]
           side == location.side
           level == PriceToIndex(location.price)
           queue == priceLevel[side][level]
           found == {i \in DOMAIN queue : pool[queue[i]].id = orderId}
           first == Min(found)
           rest == RemoveAt(queue, first)
<1>1. Key(orderId) \in Slot /\ orderId \in Nat
  BY KeyInTable, MachineIntegersAssumption, MatchingEngineAssumption DEF U64
<1>2. location \in OrderLocation /\ side \in Side
  BY <1>1 DEF TypedBook, TypeOK, BookTypeOK, OrderLocation
<1>3. result' \in Results /\ atomicOrderID' \in Nat
  BY <1>1 DEF CancelOrder, Cancelled, Results, TypedBook, TypeOK
<1>4. CASE UNCHANGED bookVars
  BY <1>3, <1>4 DEF bookVars, TypedBook, TypeOK, BookTypeOK, BitmapMatchesLevels, LocationsTradable
<1>5. CASE /\ location.isValid
           /\ orderIdtoPriceMapping' = Forgotten({Key(orderId)})
           /\ UNCHANGED pool
           /\ \/ /\ found = {}
                 /\ UNCHANGED <<freeStack, priceLevel, bitmap>>
              \/ /\ found # {}
                 /\ Released(<<queue[first]>>)
                 /\ priceLevel' = [priceLevel EXCEPT ![side][level] = rest]
                 /\ bitmap' = [bitmap EXCEPT ![side] = Unmarked(side, level, rest)]
  <2>1. level \in Level
    BY <1>1, <1>5 DEF TypedBook, LocationsTradable, IsTradable
  <2>2. queue \in Seq(Slot)
    BY <1>2, <2>1, SideOfTypedBook
  <2>3. /\ orderIdtoPriceMapping' \in [Slot -> OrderLocation]
        /\ LocationsTradable'
    <3>1. NoLocation \in OrderLocation /\ NoLocation.isValid = FALSE
      BY MachineIntegersAssumption DEF NoLocation, OrderLocation, Side, U64
    <3>2. QED
      BY <1>1, <1>5, <3>1 DEF Forgotten, TypedBook, TypeOK, BookTypeOK, LocationsTradable
  <2>4. pool' \in [Slot -> Order]
    BY <1>5 DEF TypedBook, TypeOK, BookTypeOK
  <2>5. CASE UNCHANGED <<freeStack, priceLevel, bitmap>>
    BY <1>3, <2>3, <2>4, <2>5 DEF TypedBook, TypeOK, BookTypeOK, BitmapMatchesLevels
  <2>6. CASE /\ found # {}
             /\ Released(<<queue[first]>>)
             /\ priceLevel' = [priceLevel EXCEPT ![side][level] = rest]
             /\ bitmap' = [bitmap EXCEPT ![side] = Unmarked(side, level, rest)]
    <3> HIDE DEF queue, level, side, location
    <3>1. first \in 1 .. Len(queue)
      <4>1. found \in SUBSET Nat /\ found \subseteq 1 .. Len(queue)
        BY <2>2, LenProperties
      <4>2. QED
        BY <2>6, <4>1, MinOfNaturals
    <3> HIDE DEF first
    <3>2. queue[first] \in Slot /\ queue # <<>>
      BY <2>2, <3>1, ElementOfSeq, EmptySeq
    <3>3. rest \in Seq(Slot)
      BY <2>2, <3>1, RemoveAtProperties
    <3> HIDE DEF rest
    <3>4. freeStack' \in Seq(Slot)
      BY <2>6, <3>2, ConcatProperties DEF Released, TypedBook, TypeOK, BookTypeOK
    <3>5. /\ priceLevel' = [priceLevel EXCEPT ![side] = [priceLevel[side] EXCEPT ![level] = rest]]
          /\ bitmap' = [bitmap EXCEPT ![side] =
               IF rest = <<>> THEN SetBitTo0(bitmap[side], level) ELSE bitmap[side]]
      BY <2>6 DEF TypedBook, TypeOK, BookTypeOK, Unmarked
    <3>6. /\ priceLevel' \in [Side -> [Level -> Seq(Slot)]]
          /\ bitmap' \in [Side -> Bitmap]
          /\ \A s \in Side : Marks(bitmap'[s], priceLevel'[s])
      BY <1>2, <2>1, <3>2, <3>3, <3>5, SideOfTypedBook, MarksAfterRemove
      DEF TypedBook, TypeOK, BookTypeOK, queue
    <3>7. QED
      BY <1>3, <2>3, <2>4, <3>4, <3>6
      DEF TypedBook, TypeOK, BookTypeOK, BitmapMatchesLevels, Marks
  <2>7. QED
    BY <1>5, <2>5, <2>6
<1>6. QED
  BY <1>4, <1>5 DEF CancelOrder, RemoveOrderFromOrderId

(* What matchLimitOrders leaves of an order is a volume.                   *)
LEMMA LeftTyped ==
  ASSUME TypedBook, NEW side \in Side, HasBest(side), NEW volume \in U64
  PROVE  Left(side, volume) \in U64
BY BestOrderFacts, ReduceVolumeTyped DEF Left, TypedBook, TypeOK, BookTypeOK, Order

(* removeBid and removeAsk, for the sides whose best order was filled.     *)
LEMMA RemoveBestTyped ==
  ASSUME TypedBook, NEW filled \in SUBSET Side, \A side \in filled : HasBest(side),
         RemoveBest(filled)
  PROVE  /\ freeStack' \in Seq(Slot)
         /\ priceLevel' \in [Side -> [Level -> Seq(Slot)]]
         /\ bitmap' \in [Side -> Bitmap]
         /\ orderIdtoPriceMapping' \in [Slot -> OrderLocation]
         /\ \A side \in Side : Marks(bitmap'[side], priceLevel'[side])
         /\ LocationsTradable'
<1> DEFINE released(side) == IF side \in filled THEN <<BestOrder(side)>> ELSE <<>>
           rest(side) == Tail(priceLevel[side][FindBestLevel(side)])
           cleared == {Key(pool[BestOrder(side)].id) : side \in filled}
<1>1. freeStack' \in Seq(Slot)
  <2>1. released(Ask) \in Seq(Slot) /\ released(Bid) \in Seq(Slot)
    BY BestOrderFacts, EmptySeq DEF Side
  <2>2. freeStack' = freeStack \o (released(Ask) \o released(Bid))
    BY DEF RemoveBest, Released
  <2> HIDE DEF released
  <2>3. QED
    BY <2>1, <2>2, ConcatProperties DEF TypedBook, TypeOK, BookTypeOK
<1>2. ASSUME NEW side \in Side
      PROVE  /\ priceLevel'[side] \in [Level -> Seq(Slot)]
             /\ bitmap'[side] \in Bitmap
             /\ Marks(bitmap'[side], priceLevel'[side])
  <2>1. CASE side \in filled
    <3> DEFINE level == FindBestLevel(side)
               left == IF rest(side) = <<>> THEN SetBitTo0(bitmap[side], level) ELSE bitmap[side]
    <3>1. /\ priceLevel'[side] = [priceLevel[side] EXCEPT ![level] = rest(side)]
          /\ bitmap'[side] = left
      BY <2>1 DEF RemoveBest, Unmarked
    <3>2. level \in Level /\ priceLevel[side][level] # <<>> /\ rest(side) \in Seq(Slot)
      BY <2>1, BestOrderFacts
    <3> HIDE DEF rest, level
    <3>3. /\ [priceLevel[side] EXCEPT ![level] = rest(side)] \in [Level -> Seq(Slot)]
          /\ left \in Bitmap
          /\ Marks(left, [priceLevel[side] EXCEPT ![level] = rest(side)])
      BY <3>2, SideOfTypedBook, MarksAfterRemove
    <3>4. QED
      BY <3>1, <3>3
  <2>2. CASE side \notin filled
    <3>1. priceLevel'[side] = priceLevel[side] /\ bitmap'[side] = bitmap[side]
      BY <2>2 DEF RemoveBest
    <3>2. QED
      BY <3>1, SideOfTypedBook
  <2>3. QED
    BY <2>1, <2>2
<1>3. /\ priceLevel' \in [Side -> [Level -> Seq(Slot)]]
      /\ bitmap' \in [Side -> Bitmap]
  <2>1. /\ priceLevel' = [side \in Side |-> priceLevel'[side]]
        /\ bitmap' = [side \in Side |-> bitmap'[side]]
    BY DEF RemoveBest
  <2>2. QED
    BY <1>2, <2>1
<1>4. /\ orderIdtoPriceMapping' \in [Slot -> OrderLocation]
      /\ LocationsTradable'
  <2>1. NoLocation \in OrderLocation /\ NoLocation.isValid = FALSE
    BY MachineIntegersAssumption DEF NoLocation, OrderLocation, Side, U64
  <2>2. orderIdtoPriceMapping' = [key \in Slot |->
           IF key \in cleared THEN NoLocation ELSE orderIdtoPriceMapping[key]]
    BY DEF RemoveBest, Forgotten
  <2> HIDE DEF cleared
  <2>3. QED
    BY <2>1, <2>2 DEF TypedBook, TypeOK, BookTypeOK, LocationsTradable
<1>5. QED
  BY <1>1, <1>2, <1>3, <1>4

(* matchLimitOrders with a match.                                          *)
LEMMA MatchBestTyped ==
  ASSUME TypedBook, MatchBest
  PROVE  TypedBook'
<1> DEFINE bid == BestOrder(Bid)
           ask == BestOrder(Ask)
           volume == TradeVolume(pool[ask].volume, pool[bid].volume)
           filled == {side \in Side : GetVolume(Left(side, volume)) = 0}
<1>1. HasBest(Bid) /\ HasBest(Ask) /\ Bid \in Side /\ Ask \in Side
  BY DEF MatchBest, Side
<1>2. bid \in Slot /\ ask \in Slot
  BY <1>1, BestOrderFacts
<1>3. pool[bid] \in Order /\ pool[ask] \in Order
  BY <1>2 DEF TypedBook, TypeOK, BookTypeOK
<1>4. volume \in U64
  BY <1>3, TradeVolumeTyped DEF Order
<1>5. /\ pool' = [pool EXCEPT ![bid].volume = Left(Bid, volume),
                              ![ask].volume = Left(Ask, volume)]
      /\ RemoveBest(filled)
      /\ result' = Trade(bid, ask, volume, ToU64(Ticks(ask)))
      /\ UNCHANGED atomicOrderID
  BY DEF MatchBest
<1> HIDE DEF volume
<1>6. Left(Bid, volume) \in U64 /\ Left(Ask, volume) \in U64
  BY <1>1, <1>4, LeftTyped
<1> HIDE DEF bid, ask
<1>7. pool' \in [Slot -> Order]
  BY <1>2, <1>3, <1>5, <1>6 DEF Order, TypedBook, TypeOK, BookTypeOK
<1>8. result' \in Results
  <2>1. ToU64(Ticks(ask)) \in U64
    <3>1. Ticks(ask) \in Int
      BY <1>3, ConversionsTyped, MachineIntegersAssumption
      DEF Ticks, GetPriceInTicks, Order, U64, Int32
    <3>2. QED
      BY <3>1, ConversionsTyped
  <2>2. QED
    BY <1>2, <1>4, <1>5, <2>1 DEF Trade, Results
<1>9. filled \in SUBSET Side /\ \A side \in filled : HasBest(side)
  BY <1>1 DEF Side
<1> HIDE DEF filled
<1>10. /\ freeStack' \in Seq(Slot)
       /\ priceLevel' \in [Side -> [Level -> Seq(Slot)]]
       /\ bitmap' \in [Side -> Bitmap]
       /\ orderIdtoPriceMapping' \in [Slot -> OrderLocation]
       /\ \A side \in Side : Marks(bitmap'[side], priceLevel'[side])
       /\ LocationsTradable'
  BY <1>5, <1>9, RemoveBestTyped
<1>11. atomicOrderID' \in Nat
  BY <1>5 DEF TypedBook, TypeOK
<1>12. QED
  BY <1>7, <1>8, <1>10, <1>11 DEF TypedBook, TypeOK, BookTypeOK, BitmapMatchesLevels, Marks

(* Every step of the engine preserves TypedBook.                           *)
LEMMA StepTyped == TypedBook /\ [Next]_vars => TypedBook'
<1> SUFFICES ASSUME TypedBook, [Next]_vars
             PROVE  TypedBook'
  OBVIOUS
<1>1. CASE UNCHANGED vars
  BY <1>1 DEF vars, bookVars, TypedBook, TypeOK, BookTypeOK, BitmapMatchesLevels, LocationsTradable
<1>2. ASSUME NEW side \in Side, NEW volume \in Volumes, NEW price \in Prices,
             AddOrder(side, volume, price)
      PROVE  TypedBook'
  BY <1>2, MatchingEngineAssumption, AddOrderTyped
<1>3. ASSUME NEW orderId \in OrderIds, CancelOrder(orderId)
      PROVE  TypedBook'
  BY <1>3, CancelOrderTyped
<1>4. CASE MatchNothing
  BY <1>4 DEF MatchNothing, NoTrade, Results, bookVars, TypedBook, TypeOK, BookTypeOK,
     BitmapMatchesLevels, LocationsTradable
<1>5. CASE MatchBest
  BY <1>5, MatchBestTyped
<1>6. QED
  BY <1>1, <1>2, <1>3, <1>4, <1>5 DEF Next, MatchLimitOrders

(* Every reachable state of the engine is well typed, its bitmaps match    *)
(* its queues and its id table leads to levels of the book.                *)
THEOREM BookIsTyped == Spec => []TypedBook
BY InitTyped, StepTyped, PTL DEF Spec

(* The variables keep the types the code declares for them.                *)
THEOREM TypeCorrect == Spec => []TypeOK
<1>1. TypedBook => TypeOK
  BY DEF TypedBook
<1>2. QED
  BY BookIsTyped, <1>1, PTL

(* The bitmaps always mark exactly the levels with resting orders, so that *)
(* the best bid and the best ask are found whenever there are any.         *)
THEOREM BitmapAlwaysMatches == Spec => []BitmapMatchesLevels
<1>1. TypedBook => BitmapMatchesLevels
  BY DEF TypedBook
<1>2. QED
  BY BookIsTyped, <1>1, PTL

-----------------------------------------------------------------------------
(* The parts of SlotsHaveOneOwner.                                         *)
LEMMA SlotsHaveOneOwnerParts ==
  SlotsHaveOneOwner <=>
    IsInjective(freeStack) /\ FreeApart(freeStack, priceLevel) /\ OwnedOnce(priceLevel)
BY DEF SlotsHaveOneOwner, FreeApart, OwnedOnce

LEMMA OwnedAfterErase ==
  ASSUME TypedBook, SlotsHaveOneOwner, NEW gone, Erases(priceLevel, gone, priceLevel')
  PROVE  /\ OwnedOnce(priceLevel')
         /\ FreeApart(freeStack, priceLevel')
         /\ \A s, t \in Side, l, m \in Level : \A i \in DOMAIN priceLevel'[s][l] :
              gone[t][m] # 0 => priceLevel'[s][l][i] # priceLevel[t][m][gone[t][m]]
<1>1. priceLevel \in [Side -> [Level -> Seq(Slot)]]
  BY DEF TypedBook, TypeOK, BookTypeOK
<1>2. OwnedOnce(priceLevel) /\ FreeApart(freeStack, priceLevel)
  BY SlotsHaveOneOwnerParts
<1>3. QED
  BY <1>1, <1>2, OwnedOnceAfterErase

-----------------------------------------------------------------------------
(* addOrder takes the slot that it puts into the book off the stack.       *)
LEMMA AddOrderOwned ==
  ASSUME TypedBook, SlotsHaveOneOwner,
         NEW side \in Side, NEW volume \in U64, NEW price \in U64,
         AddOrder(side, volume, price)
  PROVE  SlotsHaveOneOwner'
<1>1. CASE AddOrderPoolEmpty
  BY <1>1 DEF AddOrderPoolEmpty, bookVars, SlotsHaveOneOwner
<1>2. ASSUME NEW slot \in Slot, Acquire(slot), UNCHANGED priceLevel
      PROVE  SlotsHaveOneOwner'
  <2>1. IsInjective(freeStack') /\ ToSet(freeStack') \subseteq ToSet(freeStack)
    BY <1>2, PoppedOnce DEF Acquire, SlotsHaveOneOwner, TypedBook, TypeOK, BookTypeOK
  <2>2. QED
    BY <1>2, <2>1 DEF SlotsHaveOneOwner
<1>3. ASSUME NEW slot \in Slot, Acquire(slot), NEW level \in Level,
             priceLevel' = [priceLevel EXCEPT ![side][level] = Append(@, slot)]
      PROVE  SlotsHaveOneOwner'
  <2>1. /\ IsInjective(freeStack')
        /\ ToSet(freeStack') \subseteq ToSet(freeStack) \ {slot}
        /\ slot \in ToSet(freeStack)
    BY <1>3, PoppedOnce DEF Acquire, SlotsHaveOneOwner, TypedBook, TypeOK, BookTypeOK
  <2>2. priceLevel \in [Side -> [Level -> Seq(Slot)]]
    BY DEF TypedBook, TypeOK, BookTypeOK
  <2> DEFINE last == Len(priceLevel[side][level]) + 1
  <2>3. /\ last \in Nat
        /\ DOMAIN priceLevel[side][level] = 1 .. last - 1
        /\ DOMAIN priceLevel'[side][level] = 1 .. last
        /\ priceLevel'[side][level][last] = slot
        /\ \A i \in 1 .. last - 1 : priceLevel'[side][level][i] = priceLevel[side][level][i]
    BY <1>3, <2>2, AppendProperties, LenProperties
  <2>4. \A s \in Side, l \in Level :
          s # side \/ l # level => priceLevel'[s][l] = priceLevel[s][l]
    BY <1>3, <2>2
  <2> HIDE DEF last
  <2>5. ASSUME NEW s \in Side, NEW l \in Level, NEW i \in DOMAIN priceLevel'[s][l]
        PROVE  \/ s = side /\ l = level /\ i = last /\ priceLevel'[s][l][i] = slot
               \/ /\ i \in DOMAIN priceLevel[s][l]
                  /\ priceLevel'[s][l][i] = priceLevel[s][l][i]
    BY <2>3, <2>4
  <2>6. \A s \in Side, l \in Level : \A i \in DOMAIN priceLevel[s][l] :
          priceLevel[s][l][i] # slot
    BY <2>1 DEF SlotsHaveOneOwner
  <2>7. FreeApart(freeStack', priceLevel')
    BY <2>1, <2>5, SlotsHaveOneOwnerParts DEF FreeApart
  <2>8. OwnedOnce(priceLevel')
    BY <2>5, <2>6, SlotsHaveOneOwnerParts DEF OwnedOnce
  <2>9. QED
    BY <2>1, <2>7, <2>8 DEF SlotsHaveOneOwner, FreeApart, OwnedOnce
<1>4. QED
  <2>1. NewOrder(side, volume, price).side = side
    BY DEF NewOrder
  <2>2. QED
    BY <1>1, <1>2, <1>3, <2>1 DEF AddOrder, AddOrderToSlot, Insert, IsTradable, Enqueued

(* The erasure of one order.                                               *)
Only(side, level, index) ==
  [s \in Side |-> [l \in Level |-> IF s = side /\ l = level THEN index ELSE 0]]

(* cancelOrder takes nothing out of the queues, or one order with the id   *)
(* it was given.                                                           *)
LEMMA CancelErases ==
  ASSUME TypedBook, NEW orderId \in OrderIds, CancelOrder(orderId)
  PROVE  \/ UNCHANGED <<freeStack, priceLevel>>
         \/ \E s \in Side, l \in Level : \E i \in DOMAIN priceLevel[s][l] :
              /\ Erases(priceLevel, Only(s, l, i), priceLevel')
              /\ pool[priceLevel[s][l][i]].id = orderId
              /\ Released(<<priceLevel[s][l][i]>>)
<1> DEFINE location == orderIdtoPriceMapping[Key(orderId)]
           side == location.side
           level == PriceToIndex(location.price)
           queue == priceLevel[side][level]
           found == {i \in DOMAIN queue : pool[queue[i]].id = orderId}
           first == Min(found)
<1>1. CASE /\ location.isValid
           /\ found # {}
           /\ Released(<<queue[first]>>)
           /\ priceLevel' = [priceLevel EXCEPT ![side][level] = RemoveAt(queue, first)]
  <2>1. Key(orderId) \in Slot
    BY KeyInTable, MachineIntegersAssumption, MatchingEngineAssumption DEF U64
  <2>2. side \in Side /\ level \in Level
    BY <1>1, <2>1 DEF TypedBook, TypeOK, BookTypeOK, OrderLocation, LocationsTradable, IsTradable
  <2>3. priceLevel \in [Side -> [Level -> Seq(Slot)]] /\ queue \in Seq(Slot)
    BY <2>2 DEF TypedBook, TypeOK, BookTypeOK
  <2>4. first \in found /\ first \in 1 .. Len(queue) /\ first \in DOMAIN queue
    <3>1. found \in SUBSET Nat /\ found \subseteq 1 .. Len(queue)
      BY <2>3, LenProperties
    <3>2. QED
      BY <1>1, <3>1, MinOfNaturals
  <2>5. pool[queue[first]].id = orderId
    BY <2>4
  <2> HIDE DEF first, side, level, location
  <2>6. Erases(priceLevel, Only(side, level, first), priceLevel')
    <3>1. \A s \in Side, l \in Level : Len(priceLevel[s][l]) \in Nat
      BY <2>3, LenProperties
    <3>2. QED
      BY <1>1, <2>2, <2>3, <2>4, <3>1 DEF Erases, Only
  <2>7. QED
    BY <1>1, <2>2, <2>4, <2>5, <2>6
<1>2. QED
  BY <1>1 DEF CancelOrder, RemoveOrderFromOrderId, bookVars

(* cancelOrder puts the slot of the order it takes out of its queue, if it *)
(* finds one, back on the stack.                                           *)
LEMMA CancelOrderOwned ==
  ASSUME TypedBook, SlotsHaveOneOwner, NEW orderId \in OrderIds, CancelOrder(orderId)
  PROVE  SlotsHaveOneOwner'
<1>1. CASE UNCHANGED <<freeStack, priceLevel>>
  BY <1>1 DEF SlotsHaveOneOwner
<1>2. ASSUME NEW side \in Side, NEW level \in Level, NEW first \in DOMAIN priceLevel[side][level],
             Erases(priceLevel, Only(side, level, first), priceLevel'),
             Released(<<priceLevel[side][level][first]>>)
      PROVE  SlotsHaveOneOwner'
  <2> DEFINE slot == priceLevel[side][level][first]
  <2>1. /\ priceLevel \in [Side -> [Level -> Seq(Slot)]]
        /\ freeStack \in Seq(Slot)
    BY DEF TypedBook, TypeOK, BookTypeOK
  <2>2. first \in 1 .. Len(priceLevel[side][level])
    BY <2>1, LenProperties
  <2>3. Only(side, level, first)[side][level] = first /\ first # 0
    BY <2>2 DEF Only
  <2>4. /\ OwnedOnce(priceLevel')
        /\ FreeApart(freeStack, priceLevel')
        /\ \A s, t \in Side, l, m \in Level : \A i \in DOMAIN priceLevel'[s][l] :
             Only(side, level, first)[t][m] # 0 =>
               priceLevel'[s][l][i] # priceLevel[t][m][Only(side, level, first)[t][m]]
    BY <1>2, OwnedAfterErase
  <2>5. \A s \in Side, l \in Level : \A i \in DOMAIN priceLevel'[s][l] : priceLevel'[s][l][i] # slot
    BY <2>3, <2>4
  <2>6. slot \in Slot /\ slot \notin ToSet(freeStack)
    BY <2>1, <2>2, ElementOfSeq, LenProperties DEF SlotsHaveOneOwner
  <2>7. IsInjective(freeStack') /\ ToSet(freeStack') = ToSet(freeStack) \union {slot}
    BY <1>2, <2>1, <2>6, PushedOnce DEF Released, SlotsHaveOneOwner
  <2>8. FreeApart(freeStack', priceLevel')
    BY <2>4, <2>5, <2>7 DEF FreeApart
  <2>9. QED
    BY <2>4, <2>7, <2>8 DEF SlotsHaveOneOwner, FreeApart, OwnedOnce
<1>3. QED
  BY <1>1, <1>2, CancelErases

(* removeAsk and removeBid erase the first order of the best level of each *)
(* side whose best order was filled.                                       *)
BestOf(filled) ==
  [s \in Side |-> [l \in Level |-> IF s \in filled /\ l = FindBestLevel(s) THEN 1 ELSE 0]]

LEMMA RemoveBestErases ==
  ASSUME TypedBook, NEW filled \in SUBSET Side, \A side \in filled : HasBest(side),
         RemoveBest(filled)
  PROVE  /\ Erases(priceLevel, BestOf(filled), priceLevel')
         /\ \A side \in filled :
              /\ FindBestLevel(side) \in Level
              /\ BestOf(filled)[side][FindBestLevel(side)] = 1
              /\ 1 \in DOMAIN priceLevel[side][FindBestLevel(side)]
              /\ BestOrder(side) = priceLevel[side][FindBestLevel(side)][1]
              /\ BestOrder(side) \in Slot
<1> DEFINE level(side) == FindBestLevel(side)
<1>1. priceLevel \in [Side -> [Level -> Seq(Slot)]]
  BY DEF TypedBook, TypeOK, BookTypeOK
<1>2. ASSUME NEW side \in filled
      PROVE  /\ level(side) \in Level
             /\ 1 \in 1 .. Len(priceLevel[side][level(side)])
             /\ BestOrder(side) = priceLevel[side][level(side)][1]
             /\ BestOrder(side) \in Slot
             /\ Tail(priceLevel[side][level(side)]) = RemoveAt(priceLevel[side][level(side)], 1)
  BY <1>1, BestOrderFacts, TailIsRemoveAt DEF BestOrder
<1>3. \A s \in Side, l \in Level :
        priceLevel'[s][l] = IF s \in filled /\ l = level(s) THEN Tail(priceLevel[s][l])
                            ELSE priceLevel[s][l]
  BY <1>1 DEF RemoveBest
<1> HIDE DEF level
<1>4. Erases(priceLevel, BestOf(filled), priceLevel')
  <2>1. \A s \in Side, l \in Level : Len(priceLevel[s][l]) \in Nat
    BY <1>1, LenProperties
  <2>2. QED
    BY <1>2, <1>3, <2>1 DEF Erases, BestOf, level
<1>5. \A side \in filled : BestOf(filled)[side][level(side)] = 1
  BY <1>2 DEF BestOf, level
<1>6. \A side \in filled : 1 \in DOMAIN priceLevel[side][level(side)]
  BY <1>1, <1>2, LenProperties
<1>7. QED
  BY <1>2, <1>4, <1>5, <1>6 DEF level

(* removeAsk and removeBid put the slots of the filled orders, which are   *)
(* two different ones when both are filled, back on the stack.             *)
LEMMA RemoveBestReleases ==
  ASSUME TypedBook, SlotsHaveOneOwner, NEW filled \in SUBSET Side,
         \A side \in filled : HasBest(side), RemoveBest(filled)
  PROVE  /\ IsInjective(freeStack')
         /\ ToSet(freeStack') = ToSet(freeStack) \union {BestOrder(side) : side \in filled}
         /\ OwnedOnce(priceLevel')
         /\ FreeApart(freeStack, priceLevel')
         /\ \A side \in filled, s \in Side, l \in Level : \A i \in DOMAIN priceLevel'[s][l] :
              priceLevel'[s][l][i] # BestOrder(side)
<1> DEFINE level(side) == FindBestLevel(side)
           released(side) == IF side \in filled THEN <<BestOrder(side)>> ELSE <<>>
           gone == BestOf(filled)
<1>1. priceLevel \in [Side -> [Level -> Seq(Slot)]]
  BY DEF TypedBook, TypeOK, BookTypeOK
<1>2. ASSUME NEW side \in filled
      PROVE  /\ level(side) \in Level
             /\ 1 \in DOMAIN priceLevel[side][level(side)]
             /\ BestOrder(side) = priceLevel[side][level(side)][1]
             /\ BestOrder(side) \in Slot
             /\ gone[side][level(side)] = 1
  BY RemoveBestErases
<1>3. Erases(priceLevel, gone, priceLevel')
  BY RemoveBestErases
<1>4. freeStack' = freeStack \o (released(Ask) \o released(Bid))
  BY DEF RemoveBest, Released
<1> HIDE DEF level, gone
<1>5. /\ OwnedOnce(priceLevel')
      /\ FreeApart(freeStack, priceLevel')
      /\ \A side \in filled, s \in Side, l \in Level : \A i \in DOMAIN priceLevel'[s][l] :
           priceLevel'[s][l][i] # BestOrder(side)
  <2>1. /\ OwnedOnce(priceLevel')
        /\ FreeApart(freeStack, priceLevel')
        /\ \A s, t \in Side, l, m \in Level : \A i \in DOMAIN priceLevel'[s][l] :
             gone[t][m] # 0 => priceLevel'[s][l][i] # priceLevel[t][m][gone[t][m]]
    BY <1>3, OwnedAfterErase
  <2>2. QED
    BY <1>2, <2>1
<1>6. \A side \in filled : BestOrder(side) \notin ToSet(freeStack)
  BY <1>2 DEF SlotsHaveOneOwner
<1>7. Bid \in filled /\ Ask \in filled => BestOrder(Bid) # BestOrder(Ask)
  BY <1>2, SlotsHaveOneOwnerParts DEF OwnedOnce, Bid, Ask
<1>8. /\ IsInjective(freeStack')
       /\ ToSet(freeStack') = ToSet(freeStack) \union {BestOrder(side) : side \in filled}
  <2> DEFINE afterAsk == freeStack \o released(Ask)
  <2>1. freeStack \in Seq(Slot) /\ IsInjective(freeStack)
    BY DEF TypedBook, TypeOK, BookTypeOK, SlotsHaveOneOwner
  <2>2. released(Ask) \in Seq(Slot) /\ released(Bid) \in Seq(Slot)
    BY <1>2, EmptySeq
  <2>3. freeStack' = afterAsk \o released(Bid)
    <3> HIDE DEF released
    <3>1. QED
      BY <1>4, <2>1, <2>2, ConcatAssociative
  <2>4. /\ afterAsk \in Seq(Slot)
        /\ IsInjective(afterAsk)
        /\ ToSet(afterAsk) = ToSet(freeStack) \union {BestOrder(side) : side \in filled \ {Bid}}
    <3>1. CASE Ask \in filled
      <4>1. filled \ {Bid} = {Ask} /\ afterAsk = freeStack \o <<BestOrder(Ask)>>
        BY <3>1 DEF Side, Bid, Ask
      <4>2. QED
        BY <1>2, <1>6, <2>1, <3>1, <4>1, PushedOnce
    <3>2. CASE Ask \notin filled
      <4>1. filled \ {Bid} = {} /\ afterAsk = freeStack
        BY <2>1, <3>2, ConcatEmptySeq DEF Side
      <4>2. QED
        BY <2>1, <4>1
    <3>3. QED
      BY <3>1, <3>2
  <2> HIDE DEF afterAsk
  <2>5. CASE Bid \in filled
    <3>1. BestOrder(Bid) \notin ToSet(afterAsk)
      BY <1>6, <1>7, <2>4, <2>5 DEF Side
    <3>2. QED
      BY <1>2, <2>3, <2>4, <2>5, <3>1, PushedOnce
  <2>6. CASE Bid \notin filled
    BY <2>3, <2>4, <2>6, ConcatEmptySeq
  <2>7. QED
    BY <2>5, <2>6
<1>9. QED
  BY <1>5, <1>8

LEMMA RemoveBestOwned ==
  ASSUME TypedBook, SlotsHaveOneOwner, NEW filled \in SUBSET Side,
         \A side \in filled : HasBest(side), RemoveBest(filled)
  PROVE  SlotsHaveOneOwner'
<1>1. FreeApart(freeStack', priceLevel')
  BY RemoveBestReleases DEF FreeApart
<1>2. QED
  BY <1>1, RemoveBestReleases DEF SlotsHaveOneOwner, FreeApart, OwnedOnce

(* Every step of the engine leaves each slot one owner.                    *)
LEMMA StepOwned == TypedBook /\ SlotsHaveOneOwner /\ [Next]_vars => SlotsHaveOneOwner'
<1> SUFFICES ASSUME TypedBook, SlotsHaveOneOwner, [Next]_vars
             PROVE  SlotsHaveOneOwner'
  OBVIOUS
<1>1. CASE UNCHANGED vars
  BY <1>1 DEF vars, bookVars, SlotsHaveOneOwner
<1>2. ASSUME NEW side \in Side, NEW volume \in Volumes, NEW price \in Prices,
             AddOrder(side, volume, price)
      PROVE  SlotsHaveOneOwner'
  BY <1>2, MatchingEngineAssumption, AddOrderOwned
<1>3. ASSUME NEW orderId \in OrderIds, CancelOrder(orderId)
      PROVE  SlotsHaveOneOwner'
  BY <1>3, CancelOrderOwned
<1>4. CASE MatchNothing
  BY <1>4 DEF MatchNothing, bookVars, SlotsHaveOneOwner
<1>5. CASE MatchBest
  <2> DEFINE volume == TradeVolume(pool[BestOrder(Ask)].volume, pool[BestOrder(Bid)].volume)
             filled == {side \in Side : GetVolume(Left(side, volume)) = 0}
  <2>1. filled \in SUBSET Side /\ \A side \in filled : HasBest(side)
    BY <1>5 DEF MatchBest, Side
  <2>2. RemoveBest(filled)
    BY <1>5 DEF MatchBest
  <2> HIDE DEF filled
  <2>3. QED
    BY <2>1, <2>2, RemoveBestOwned
<1>6. QED
  BY <1>1, <1>2, <1>3, <1>4, <1>5 DEF Next, MatchLimitOrders

(* No Order object is ever owned twice: acquire never hands out the object *)
(* of a resting order, and release never makes one available twice.        *)
THEOREM OneOwner == Spec => []SlotsHaveOneOwner
<1>1. Init => SlotsHaveOneOwner
  BY OrderBookAssumption DEF Init, BookInit, SlotsHaveOneOwner, IsInjective
<1>2. QED
  BY <1>1, StepOwned, BookIsTyped, PTL DEF Spec

(* The price of an order, read as an int, is that of the level that        *)
(* priceToIndex gave it, even where the 64-bit price is another number.    *)
LEMMA TicksOfLevel ==
  ASSUME NEW price \in U64, IsTradable(price)
  PROVE  /\ PriceToIndex(price) \in Level
         /\ GetPriceInTicks(price) = StartOfPrice + PriceToIndex(price)
         /\ ToU64(GetPriceInTicks(price)) = GetPriceInTicks(price)
<1> DEFINE difference == ToU64(price - StartOfPrice)
           level == PriceToIndex(price)
<1>1. /\ price \in Int /\ StartOfPrice \in Nat /\ NumOfLevels \in Nat
      /\ INT_LIMIT \in Nat /\ U64_LIMIT \in Nat /\ INT_LIMIT < U64_LIMIT
      /\ StartOfPrice + NumOfLevels <= INT_LIMIT
  BY MachineIntegersAssumption, LevelBitmapAssumption, OrderBookAssumption DEF U64
<1>2. level \in Level /\ level \in Int
  BY DEF IsTradable, Level
<1>3. /\ difference \in Int
      /\ Residue(difference) = Residue(price - StartOfPrice)
  BY <1>1, ToU64KeepsResidue DEF U64
<1>4. level = ToInt(difference)
  BY DEF PriceToIndex
<1> HIDE DEF difference, level
<1>5. Residue(level) = Residue(price - StartOfPrice)
  BY <1>3, <1>4, ToIntKeepsResidue
<1>6. Residue(level + StartOfPrice) = Residue(price - StartOfPrice + StartOfPrice)
  <2>1. price - StartOfPrice \in Int /\ StartOfPrice \in Int /\ level \in Int
    BY <1>1, <1>2
  <2> DEFINE distance == price - StartOfPrice
  <2>2. distance \in Int /\ Residue(level) = Residue(distance)
    BY <1>5, <2>1
  <2> HIDE DEF distance
  <2>3. Residue(level + StartOfPrice) = Residue(distance + StartOfPrice)
    BY <2>1, <2>2, ResidueOfSameResidues
  <2>4. QED
    BY <2>3 DEF distance
<1>7. /\ price - StartOfPrice + StartOfPrice = price
      /\ level + StartOfPrice \in 0 .. INT_LIMIT - 1
      /\ level + StartOfPrice \in Int
  BY <1>1, <1>2 DEF Level
<1>8. ToInt(price) = level + StartOfPrice
  <2>1. ToInt(price) = ToInt(level + StartOfPrice)
    BY <1>1, <1>6, <1>7, ToIntKeepsResidue
  <2>2. QED
    BY <1>7, <2>1, ToIntKeepsResidue
<1>9. ToU64(level + StartOfPrice) = level + StartOfPrice
  BY <1>1, <1>7 DEF ToU64
<1>10. QED
  BY <1>1, <1>2, <1>8, <1>9 DEF GetPriceInTicks, level

-----------------------------------------------------------------------------
(* The parts of QueuesInArrivalOrder, for any queues and any orders.       *)
Ranked(queues, orders, lastId) ==
  \A s \in Side, l \in Level : \A i \in DOMAIN queues[s][l] :
    /\ orders[queues[s][l][i]].side = s
    /\ PriceToIndex(orders[queues[s][l][i]].price) = l
    /\ orders[queues[s][l][i]].id \in 1 .. lastId
    /\ \A j \in 1 .. i - 1 : orders[queues[s][l][j]].id < orders[queues[s][l][i]].id

DistinctIds(queues, orders) ==
  \A s, t \in Side, l, m \in Level :
    \A i \in DOMAIN queues[s][l], j \in DOMAIN queues[t][m] :
      orders[queues[s][l][i]].id = orders[queues[t][m][j]].id =>
        queues[s][l][i] = queues[t][m][j]

(* An order rests when it has a place in a queue.                          *)
LEMMA RestingHasPlace ==
  ASSUME NEW slot
  PROVE  slot \in Resting <=>
           \E s \in Side, l \in Level : \E i \in DOMAIN priceLevel[s][l] :
             priceLevel[s][l][i] = slot
<1>1. \A s \in Side : slot \in RestingOn(s) <=>
        \E l \in Level : \E i \in DOMAIN priceLevel[s][l] : priceLevel[s][l][i] = slot
  BY DEF RestingOn, ToSet
<1>2. QED
  BY <1>1 DEF Resting, Side

LEMMA QueuesInArrivalOrderParts ==
  QueuesInArrivalOrder <=>
    Ranked(priceLevel, pool, atomicOrderID) /\ DistinctIds(priceLevel, pool)
<1>1. (\A x, y \in Resting : pool[x].id = pool[y].id => x = y) <=> DistinctIds(priceLevel, pool)
  BY RestingHasPlace DEF DistinctIds
<1>2. QED
  BY <1>1 DEF QueuesInArrivalOrder, Ranked

(* Two records with the same side, price and id.                           *)
SameButVolume(x, y) == x.side = y.side /\ x.price = y.price /\ x.id = y.id

(* Orders that leave the queues, and volumes that change, leave the rest   *)
(* in the order it was in.                                                 *)
LEMMA RankedAfterErase ==
  ASSUME NEW old \in [Side -> [Level -> Seq(Slot)]], NEW gone, NEW new, Erases(old, gone, new),
         NEW before, NEW after, \A slot \in Slot : SameButVolume(before[slot], after[slot]),
         NEW lastId \in Nat, Ranked(old, before, lastId), DistinctIds(old, before)
  PROVE  Ranked(new, after, lastId) /\ DistinctIds(new, after)
<1>1. ASSUME NEW s \in Side, NEW l \in Level, NEW i \in DOMAIN old[s][l]
      PROVE  SameButVolume(before[old[s][l][i]], after[old[s][l][i]])
  BY ElementOfSeq, LenProperties
<1>2. ASSUME NEW s \in Side, NEW l \in Level, NEW i \in DOMAIN new[s][l]
      PROVE  /\ after[new[s][l][i]].side = s
             /\ PriceToIndex(after[new[s][l][i]].price) = l
             /\ after[new[s][l][i]].id \in 1 .. lastId
             /\ \A j \in 1 .. i - 1 : after[new[s][l][j]].id < after[new[s][l][i]].id
  <2>1. PICK f : IsOrigin(f, new[s][l], old[s][l], gone[s][l])
    BY ErasedFrom
  <2>2. new[s][l][i] = old[s][l][f[i]] /\ f[i] \in DOMAIN old[s][l]
    BY <2>1 DEF IsOrigin
  <2>3. /\ after[new[s][l][i]].side = s
        /\ PriceToIndex(after[new[s][l][i]].price) = l
        /\ after[new[s][l][i]].id \in 1 .. lastId
    BY <1>1, <2>2 DEF Ranked, SameButVolume
  <2>4. ASSUME NEW j \in 1 .. i - 1
        PROVE  after[new[s][l][j]].id < after[new[s][l][i]].id
    <3>1. new[s][l] \in Seq(Slot)
      BY ErasedFrom
    <3>2. i \in Nat /\ j \in DOMAIN new[s][l] /\ j < i
      BY <3>1, LenProperties
    <3>3. /\ new[s][l][j] = old[s][l][f[j]]
          /\ f[j] \in DOMAIN old[s][l]
          /\ f[j] < f[i]
      BY <2>1, <3>2 DEF IsOrigin
    <3>4. f[j] \in 1 .. f[i] - 1
      BY <2>2, <3>3, LenProperties
    <3>5. before[old[s][l][f[j]]].id < before[old[s][l][f[i]]].id
      BY <2>2, <3>4 DEF Ranked
    <3>6. QED
      BY <1>1, <2>2, <3>3, <3>5 DEF SameButVolume
  <2>5. QED
    BY <2>3, <2>4
<1>3. ASSUME NEW s \in Side, NEW t \in Side, NEW l \in Level, NEW m \in Level,
             NEW i \in DOMAIN new[s][l], NEW j \in DOMAIN new[t][m],
             after[new[s][l][i]].id = after[new[t][m][j]].id
      PROVE  new[s][l][i] = new[t][m][j]
  <2>1. PICK f : IsOrigin(f, new[s][l], old[s][l], gone[s][l])
    BY ErasedFrom
  <2>2. PICK g : IsOrigin(g, new[t][m], old[t][m], gone[t][m])
    BY ErasedFrom
  <2>3. /\ new[s][l][i] = old[s][l][f[i]] /\ f[i] \in DOMAIN old[s][l]
        /\ new[t][m][j] = old[t][m][g[j]] /\ g[j] \in DOMAIN old[t][m]
    BY <2>1, <2>2 DEF IsOrigin
  <2>4. before[old[s][l][f[i]]].id = before[old[t][m][g[j]]].id
    BY <1>1, <1>3, <2>3 DEF SameButVolume
  <2>5. QED
    BY <2>3, <2>4 DEF DistinctIds
<1>4. QED
  BY <1>2, <1>3 DEF Ranked, DistinctIds

(* `slot' joins the end of one queue, and no other place of `new' is new.  *)
Joins(old, slot, side, level, new) ==
  \A s \in Side, l \in Level : \A i \in DOMAIN new[s][l] :
    /\ \/ s = side /\ l = level /\ new[s][l][i] = slot
       \/ i \in DOMAIN old[s][l] /\ new[s][l][i] = old[s][l][i]
    /\ \A j \in 1 .. i - 1 : j \in DOMAIN old[s][l] /\ new[s][l][j] = old[s][l][j]

LEMMA AppendJoins ==
  ASSUME NEW old \in [Side -> [Level -> Seq(Slot)]], NEW slot \in Slot,
         NEW side \in Side, NEW level \in Level,
         NEW new, new = [old EXCEPT ![side][level] = Append(@, slot)]
  PROVE  Joins(old, slot, side, level, new)
<1> DEFINE last == Len(old[side][level]) + 1
<1>1. /\ last \in Nat
      /\ DOMAIN old[side][level] = 1 .. last - 1
      /\ DOMAIN new[side][level] = 1 .. last
      /\ new[side][level][last] = slot
      /\ \A i \in 1 .. last - 1 : new[side][level][i] = old[side][level][i]
  BY AppendProperties, LenProperties
<1>2. \A s \in Side, l \in Level : s # side \/ l # level => new[s][l] = old[s][l]
  OBVIOUS
<1> HIDE DEF last
<1>3. ASSUME NEW s \in Side, NEW l \in Level, NEW i \in DOMAIN new[s][l]
      PROVE  /\ \/ s = side /\ l = level /\ new[s][l][i] = slot
                \/ i \in DOMAIN old[s][l] /\ new[s][l][i] = old[s][l][i]
             /\ \A j \in 1 .. i - 1 : j \in DOMAIN old[s][l] /\ new[s][l][j] = old[s][l][j]
  <2>1. CASE s = side /\ l = level
    BY <1>1, <2>1
  <2>2. CASE ~(s = side /\ l = level)
    <3>1. new[s][l] = old[s][l]
      BY <1>2, <2>2
    <3>2. DOMAIN old[s][l] = 1 .. Len(old[s][l]) /\ Len(old[s][l]) \in Nat
      BY LenProperties
    <3>3. i \in DOMAIN old[s][l]
      BY <3>1
    <3>4. \A j \in 1 .. i - 1 : j \in DOMAIN old[s][l]
      BY <3>2, <3>3
    <3>5. QED
      BY <3>1, <3>3, <3>4
  <2>3. QED
    BY <2>1, <2>2
<1>4. QED
  BY <1>3 DEF Joins

(* An order with a new id that joins the end of the queue of its price.    *)
LEMMA RankedAfterJoin ==
  ASSUME NEW old, NEW before, NEW lastId \in Nat,
         Ranked(old, before, lastId), DistinctIds(old, before),
         NEW slot, NEW side \in Side, NEW level \in Level, NEW new,
         Joins(old, slot, side, level, new),
         NEW after,
         \A s \in Side, l \in Level : \A i \in DOMAIN old[s][l] :
           after[old[s][l][i]] = before[old[s][l][i]],
         after[slot].side = side, PriceToIndex(after[slot].price) = level,
         after[slot].id = lastId + 1
  PROVE  Ranked(new, after, lastId + 1) /\ DistinctIds(new, after)
<1>1. \A n \in 1 .. lastId : n \in 1 .. lastId + 1 /\ n < lastId + 1 /\ n # lastId + 1
  OBVIOUS
<1>2. ASSUME NEW s \in Side, NEW l \in Level, NEW i \in DOMAIN old[s][l]
      PROVE  /\ after[old[s][l][i]].id = before[old[s][l][i]].id
             /\ after[old[s][l][i]].id \in 1 .. lastId
             /\ after[old[s][l][i]].side = s
             /\ PriceToIndex(after[old[s][l][i]].price) = l
  BY DEF Ranked
<1>3. ASSUME NEW s \in Side, NEW l \in Level, NEW i \in DOMAIN new[s][l]
      PROVE  /\ after[new[s][l][i]].side = s
             /\ PriceToIndex(after[new[s][l][i]].price) = l
             /\ after[new[s][l][i]].id \in 1 .. lastId + 1
             /\ \A j \in 1 .. i - 1 : after[new[s][l][j]].id < after[new[s][l][i]].id
  <2>1. \A j \in 1 .. i - 1 : j \in DOMAIN old[s][l] /\ new[s][l][j] = old[s][l][j]
    BY DEF Joins
  <2>2. CASE s = side /\ l = level /\ new[s][l][i] = slot
    <3>1. lastId + 1 \in 1 .. lastId + 1
      OBVIOUS
    <3>2. QED
      BY <1>1, <1>2, <2>1, <2>2, <3>1
  <2>3. CASE i \in DOMAIN old[s][l] /\ new[s][l][i] = old[s][l][i]
    <3>1. \A j \in 1 .. i - 1 : before[old[s][l][j]].id < before[old[s][l][i]].id
      BY <2>3 DEF Ranked
    <3>2. ASSUME NEW j \in 1 .. i - 1
          PROVE  after[new[s][l][j]].id < after[new[s][l][i]].id
      BY <1>2, <2>1, <2>3, <3>1
    <3>3. QED
      BY <1>1, <1>2, <2>3, <3>2
  <2>4. \/ s = side /\ l = level /\ new[s][l][i] = slot
        \/ i \in DOMAIN old[s][l] /\ new[s][l][i] = old[s][l][i]
    BY DEF Joins
  <2>5. QED
    BY <2>2, <2>3, <2>4
<1>4. ASSUME NEW s \in Side, NEW t \in Side, NEW l \in Level, NEW m \in Level,
             NEW i \in DOMAIN new[s][l], NEW j \in DOMAIN new[t][m],
             after[new[s][l][i]].id = after[new[t][m][j]].id
      PROVE  new[s][l][i] = new[t][m][j]
  <2>1. \/ new[s][l][i] = slot
        \/ i \in DOMAIN old[s][l] /\ new[s][l][i] = old[s][l][i]
    BY DEF Joins
  <2>2. \/ new[t][m][j] = slot
        \/ j \in DOMAIN old[t][m] /\ new[t][m][j] = old[t][m][j]
    BY DEF Joins
  <2>3. CASE new[s][l][i] = slot
    BY <1>1, <1>2, <1>4, <2>2, <2>3
  <2>4. CASE new[t][m][j] = slot
    BY <1>1, <1>2, <1>4, <2>1, <2>4
  <2>5. CASE /\ i \in DOMAIN old[s][l] /\ new[s][l][i] = old[s][l][i]
             /\ j \in DOMAIN old[t][m] /\ new[t][m][j] = old[t][m][j]
    <3>1. before[old[s][l][i]].id = before[old[t][m][j]].id
      BY <1>2, <1>4, <2>5
    <3>2. QED
      BY <2>5, <3>1 DEF DistinctIds
  <2>6. QED
    BY <2>1, <2>2, <2>3, <2>4, <2>5
<1>5. QED
  BY <1>3, <1>4 DEF Ranked, DistinctIds

(* A slot that no queue holds is written and the last id counts on.        *)
LEMMA RankedAfterWrite ==
  ASSUME NEW queues \in [Side -> [Level -> Seq(Slot)]], NEW before \in [Slot -> Order],
         NEW lastId \in Nat, Ranked(queues, before, lastId), DistinctIds(queues, before),
         NEW slot \in Slot,
         \A s \in Side, l \in Level : \A i \in DOMAIN queues[s][l] : queues[s][l][i] # slot,
         NEW order, NEW after, after = [before EXCEPT ![slot] = order]
  PROVE  Ranked(queues, after, lastId + 1) /\ DistinctIds(queues, after)
<1>1. ASSUME NEW s \in Side, NEW l \in Level, NEW i \in DOMAIN queues[s][l]
      PROVE  after[queues[s][l][i]] = before[queues[s][l][i]]
  <2>1. queues[s][l][i] \in Slot
    BY ElementOfSeq, LenProperties
  <2>2. QED
    BY <2>1
<1>2. ASSUME NEW s \in Side, NEW l \in Level, NEW i \in DOMAIN queues[s][l], NEW j \in 1 .. i - 1
      PROVE  after[queues[s][l][j]].id < after[queues[s][l][i]].id
  <2>1. i \in 1 .. Len(queues[s][l]) /\ DOMAIN queues[s][l] = 1 .. Len(queues[s][l])
    BY LenProperties
  <2>2. Len(queues[s][l]) \in Nat
    BY LenProperties
  <2>3. j \in DOMAIN queues[s][l]
    BY <2>1, <2>2
  <2>4. before[queues[s][l][j]].id < before[queues[s][l][i]].id
    BY DEF Ranked
  <2>5. QED
    BY <1>1, <2>3, <2>4
<1>3. \A n \in 1 .. lastId : n \in 1 .. lastId + 1
  OBVIOUS
<1>4. Ranked(queues, after, lastId + 1)
  BY <1>1, <1>2, <1>3 DEF Ranked
<1>5. DistinctIds(queues, after)
  BY <1>1 DEF DistinctIds
<1>6. QED
  BY <1>4, <1>5

-----------------------------------------------------------------------------
(* The invariant that the order of the queues rests on: that the slot      *)
(* acquire hands out is in no queue comes from slots having one owner.     *)
OrderedBook == TypedBook /\ SlotsHaveOneOwner /\ QueuesInArrivalOrder

LEMMA OrderedBookParts ==
  ASSUME OrderedBook
  PROVE  /\ priceLevel \in [Side -> [Level -> Seq(Slot)]]
         /\ pool \in [Slot -> Order]
         /\ freeStack \in Seq(Slot)
         /\ atomicOrderID \in Nat
         /\ Ranked(priceLevel, pool, atomicOrderID)
         /\ DistinctIds(priceLevel, pool)
BY QueuesInArrivalOrderParts DEF OrderedBook, TypedBook, TypeOK, BookTypeOK

LEMMA QueuesInArrivalOrderPartsPrimed ==
  Ranked(priceLevel', pool', atomicOrderID') /\ DistinctIds(priceLevel', pool') =>
    QueuesInArrivalOrder'
<1>1. (Ranked(priceLevel, pool, atomicOrderID) /\ DistinctIds(priceLevel, pool) =>
         QueuesInArrivalOrder)'
  BY QueuesInArrivalOrderParts, PTL
<1>2. QED
  BY <1>1 DEF Ranked, DistinctIds

(* addOrder gives a new id to the order it puts behind all others.         *)
LEMMA AddOrderOrdered ==
  ASSUME OrderedBook, NEW side \in Side, NEW volume \in U64, NEW price \in U64,
         AddOrder(side, volume, price)
  PROVE  QueuesInArrivalOrder'
<1> DEFINE order == NewOrder(side, volume, price)
<1>1. order.side = side /\ order.price = price /\ order.id = atomicOrderID + 1
  BY DEF NewOrder
<1>2. CASE AddOrderPoolEmpty
  <2>1. /\ priceLevel' = priceLevel /\ pool' = pool /\ atomicOrderID' = atomicOrderID
    BY <1>2 DEF AddOrderPoolEmpty, bookVars
  <2>2. QED
    BY <2>1, OrderedBookParts, QueuesInArrivalOrderPartsPrimed
<1> HIDE DEF order
<1>3. ASSUME NEW slot \in Slot, Acquire(slot), pool' = [pool EXCEPT ![slot] = order],
             atomicOrderID' = atomicOrderID + 1,
             \/ /\ IsTradable(order.price)
                /\ Insert(slot, order)
             \/ priceLevel' = priceLevel
      PROVE  QueuesInArrivalOrder'
  <2>1. slot \in ToSet(freeStack)
    BY <1>3, OrderedBookParts, PoppedOnce DEF Acquire, OrderedBook, SlotsHaveOneOwner
  <2>2. \A s \in Side, l \in Level : \A i \in DOMAIN priceLevel[s][l] : priceLevel[s][l][i] # slot
    BY <2>1 DEF OrderedBook, SlotsHaveOneOwner
  <2>3. CASE IsTradable(order.price) /\ Insert(slot, order)
    <3> DEFINE level == PriceToIndex(order.price)
    <3>1. level \in Level
      BY <2>3 DEF IsTradable
    <3>2. priceLevel' = [priceLevel EXCEPT ![side][level] = Append(@, slot)]
      BY <1>1, <2>3 DEF Insert, Enqueued
    <3> HIDE DEF level
    <3>3. PriceToIndex(order.price) = level
      BY DEF level
    <3>4. Joins(priceLevel, slot, side, level, priceLevel')
      BY <3>1, <3>2, OrderedBookParts, AppendJoins
    <3>5. \A s \in Side, l \in Level : \A i \in DOMAIN priceLevel[s][l] :
            pool'[priceLevel[s][l][i]] = pool[priceLevel[s][l][i]]
      <4>1. \A s \in Side, l \in Level : \A i \in DOMAIN priceLevel[s][l] :
              priceLevel[s][l][i] \in Slot
        BY OrderedBookParts, ElementOfSeq, LenProperties
      <4>2. QED
        BY <1>3, <2>2, <4>1, OrderedBookParts
    <3>6. pool'[slot] = order
      BY <1>3, OrderedBookParts
    <3>7. /\ Ranked(priceLevel', pool', atomicOrderID + 1)
          /\ DistinctIds(priceLevel', pool')
      <4>1. /\ atomicOrderID \in Nat
            /\ Ranked(priceLevel, pool, atomicOrderID)
            /\ DistinctIds(priceLevel, pool)
        BY OrderedBookParts
      <4>2. /\ pool'[slot].side = side
            /\ PriceToIndex(pool'[slot].price) = level
            /\ pool'[slot].id = atomicOrderID + 1
        BY <1>1, <3>3, <3>6
      <4>3. QED
        BY <3>1, <3>4, <3>5, <4>1, <4>2, RankedAfterJoin
    <3>8. QED
      BY <1>3, <3>7, QueuesInArrivalOrderPartsPrimed
  <2>4. CASE priceLevel' = priceLevel
    <3>1. /\ Ranked(priceLevel, pool', atomicOrderID + 1)
          /\ DistinctIds(priceLevel, pool')
      BY <1>3, <2>2, OrderedBookParts, RankedAfterWrite
    <3>2. QED
      BY <1>3, <2>4, <3>1, QueuesInArrivalOrderPartsPrimed
  <2>5. QED
    BY <1>3, <2>3, <2>4
<1>4. QED
  BY <1>2, <1>3 DEF AddOrder, AddOrderToSlot, order

(* cancelOrder takes an order out of its queue, or none.                   *)
LEMMA CancelOrderOrdered ==
  ASSUME OrderedBook, NEW orderId \in OrderIds, CancelOrder(orderId)
  PROVE  QueuesInArrivalOrder'
<1>1. pool' = pool /\ atomicOrderID' = atomicOrderID
  BY DEF CancelOrder, RemoveOrderFromOrderId, bookVars
<1>2. CASE priceLevel' = priceLevel
  BY <1>1, <1>2, OrderedBookParts, QueuesInArrivalOrderPartsPrimed
<1>3. ASSUME NEW gone, Erases(priceLevel, gone, priceLevel')
      PROVE  QueuesInArrivalOrder'
  <2>1. \A slot \in Slot : SameButVolume(pool[slot], pool[slot])
    BY DEF SameButVolume
  <2>2. Ranked(priceLevel', pool, atomicOrderID) /\ DistinctIds(priceLevel', pool)
    BY <1>3, <2>1, OrderedBookParts, RankedAfterErase
  <2>3. QED
    BY <1>1, <2>2, QueuesInArrivalOrderPartsPrimed
<1>4. QED
  BY <1>2, <1>3, CancelErases DEF OrderedBook

(* matchLimitOrders changes volumes and takes filled orders out.           *)
LEMMA MatchBestOrdered ==
  ASSUME OrderedBook, MatchBest
  PROVE  QueuesInArrivalOrder'
<1> DEFINE bid == BestOrder(Bid)
           ask == BestOrder(Ask)
           volume == TradeVolume(pool[ask].volume, pool[bid].volume)
           filled == {side \in Side : GetVolume(Left(side, volume)) = 0}
<1>1. /\ filled \in SUBSET Side
      /\ \A side \in filled : HasBest(side)
      /\ RemoveBest(filled)
  BY DEF MatchBest, Side
<1>2. \A slot \in Slot : SameButVolume(pool[slot], pool'[slot])
  <2>1. pool' = [pool EXCEPT ![bid].volume = Left(Bid, volume), ![ask].volume = Left(Ask, volume)]
    BY DEF MatchBest
  <2> HIDE DEF bid, ask, volume
  <2>2. QED
    BY <2>1, OrderedBookParts DEF SameButVolume, Order
<1>3. atomicOrderID' = atomicOrderID
  BY DEF MatchBest
<1> HIDE DEF filled
<1>4. Erases(priceLevel, BestOf(filled), priceLevel')
  BY <1>1, RemoveBestErases DEF OrderedBook
<1>5. Ranked(priceLevel', pool', atomicOrderID) /\ DistinctIds(priceLevel', pool')
  BY <1>2, <1>4, OrderedBookParts, RankedAfterErase
<1>6. QED
  BY <1>3, <1>5, QueuesInArrivalOrderPartsPrimed

(* Every step of the engine leaves the queues in order.                    *)
LEMMA StepOrdered == OrderedBook /\ [Next]_vars => QueuesInArrivalOrder'
<1> SUFFICES ASSUME OrderedBook, [Next]_vars
             PROVE  QueuesInArrivalOrder'
  OBVIOUS
<1>1. CASE UNCHANGED vars \/ MatchNothing
  <2>1. priceLevel' = priceLevel /\ pool' = pool /\ atomicOrderID' = atomicOrderID
    BY <1>1 DEF MatchNothing, vars, bookVars
  <2>2. QED
    BY <2>1, OrderedBookParts, QueuesInArrivalOrderPartsPrimed
<1>2. ASSUME NEW side \in Side, NEW volume \in Volumes, NEW price \in Prices,
             AddOrder(side, volume, price)
      PROVE  QueuesInArrivalOrder'
  BY <1>2, MatchingEngineAssumption, AddOrderOrdered
<1>3. ASSUME NEW orderId \in OrderIds, CancelOrder(orderId)
      PROVE  QueuesInArrivalOrder'
  BY <1>3, CancelOrderOrdered
<1>4. CASE MatchBest
  BY <1>4, MatchBestOrdered
<1>5. QED
  BY <1>1, <1>2, <1>3, <1>4 DEF Next, MatchLimitOrders

(* Every resting order always stands at the level of its price behind all  *)
(* older orders of that level, whatever was added, cancelled and partly    *)
(* filled before.                                                          *)
THEOREM ArrivalOrder == Spec => []QueuesInArrivalOrder
<1>1. Init => QueuesInArrivalOrder
  <2>1. Init => \A s \in Side, l \in Level : DOMAIN priceLevel[s][l] = {}
    BY EmptySeq, LenProperties DEF Init, BookInit
  <2>2. QED
    BY <2>1, QueuesInArrivalOrderParts DEF Ranked, DistinctIds
<1>2. TypedBook /\ SlotsHaveOneOwner /\ QueuesInArrivalOrder /\ [Next]_vars =>
        QueuesInArrivalOrder'
  BY StepOrdered DEF OrderedBook
<1>3. QED
  BY <1>1, <1>2, BookIsTyped, OneOwner, PTL DEF Spec

-----------------------------------------------------------------------------
(* The price of an order in ticks is that of the level it stands at.       *)
LEMMA TicksOfPlace ==
  ASSUME OrderedBook, NEW side \in Side, NEW level \in Level,
         NEW i \in DOMAIN priceLevel[side][level]
  PROVE  /\ Ticks(priceLevel[side][level][i]) = StartOfPrice + level
         /\ ToU64(Ticks(priceLevel[side][level][i])) = StartOfPrice + level
<1> DEFINE slot == priceLevel[side][level][i]
<1>1. slot \in Slot
  BY OrderedBookParts, ElementOfSeq, LenProperties
<1>2. pool[slot].price \in U64
  BY <1>1, OrderedBookParts DEF Order
<1>3. PriceToIndex(pool[slot].price) = level
  BY OrderedBookParts DEF Ranked
<1> HIDE DEF slot
<1>4. IsTradable(pool[slot].price)
  BY <1>3 DEF IsTradable
<1>5. QED
  BY <1>2, <1>3, <1>4, TicksOfLevel DEF Ticks, slot

LEMMA PlaceOnSide ==
  ASSUME NEW side \in Side, NEW slot \in RestingOn(side)
  PROVE  \E l \in Level : \E i \in DOMAIN priceLevel[side][l] : slot = priceLevel[side][l][i]
BY DEF RestingOn, ToSet

(* The order that getBestBid or getBestAsk returns is the head of a queue  *)
(* whose level no other queue with orders comes before.                    *)
LEMMA BestPlace ==
  ASSUME OrderedBook, NEW side \in Side, HasBest(side)
  PROVE  /\ FindBestLevel(side) \in Level
         /\ 1 \in DOMAIN priceLevel[side][FindBestLevel(side)]
         /\ BestOrder(side) = priceLevel[side][FindBestLevel(side)][1]
         /\ BestOrder(side) \in RestingOn(side)
         /\ Ticks(BestOrder(side)) = StartOfPrice + FindBestLevel(side)
         /\ ToU64(Ticks(BestOrder(side))) = StartOfPrice + FindBestLevel(side)
         /\ \A l \in Level : priceLevel[side][l] # <<>> =>
              IF side = Bid THEN l <= FindBestLevel(side) ELSE FindBestLevel(side) <= l
<1> DEFINE best == FindBestLevel(side)
<1>1. best \in Level /\ priceLevel[side][best] # <<>>
  BY BestOrderFacts DEF OrderedBook
<1>2. \A l \in Level : priceLevel[side][l] # <<>> =>
        IF side = Bid THEN l <= best ELSE best <= l
  <2>1. bitmap[side] \in Bitmap /\ Marks(bitmap[side], priceLevel[side])
    BY SideOfTypedBook DEF OrderedBook
  <2>2. best # NoLevel
    BY DEF HasBest
  <2>3. CASE side = Bid
    BY <2>1, <2>2, <2>3, HighestLevelIsBest DEF Marks, FindBestLevel
  <2>4. CASE side = Ask /\ side # Bid
    BY <2>1, <2>2, <2>4, LowestLevelIsBest DEF Marks, FindBestLevel
  <2>5. QED
    BY <2>3, <2>4 DEF Side
<1>3. priceLevel[side][best] \in Seq(Slot)
  BY <1>1, OrderedBookParts
<1>4. 1 \in DOMAIN priceLevel[side][best] /\ BestOrder(side) = priceLevel[side][best][1]
  BY <1>1, <1>3, TailIsRemoveAt, LenProperties DEF BestOrder
<1> HIDE DEF best
<1>5. BestOrder(side) \in RestingOn(side)
  BY <1>1, <1>4 DEF RestingOn, ToSet
<1>6. QED
  BY <1>1, <1>2, <1>4, <1>5, TicksOfPlace DEF best

(* It precedes every other order of its side.                              *)
LEMMA BestComesFirst ==
  ASSUME OrderedBook, NEW side \in Side, HasBest(side),
         NEW other \in RestingOn(side) \ {BestOrder(side)}
  PROVE  Precedes(side, BestOrder(side), other)
<1> DEFINE best == FindBestLevel(side)
<1>1. PICK l \in Level : \E i \in DOMAIN priceLevel[side][l] : other = priceLevel[side][l][i]
  BY PlaceOnSide
<1>2. PICK i \in DOMAIN priceLevel[side][l] : other = priceLevel[side][l][i]
  BY <1>1
<1>3. /\ best \in Level
      /\ BestOrder(side) = priceLevel[side][best][1]
      /\ Ticks(BestOrder(side)) = StartOfPrice + best
      /\ priceLevel[side][l] # <<>> => IF side = Bid THEN l <= best ELSE best <= l
  BY BestPlace
<1>4. Ticks(other) = StartOfPrice + l
  BY <1>2, TicksOfPlace
<1>5. priceLevel[side][l] \in Seq(Slot) /\ i \in 1 .. Len(priceLevel[side][l])
  BY OrderedBookParts, LenProperties
<1>6. priceLevel[side][l] # <<>> /\ Len(priceLevel[side][l]) \in Nat
  BY <1>5, EmptySeq
<1>7. StartOfPrice \in Nat /\ Level \subseteq Int
  BY OrderBookAssumption DEF Level
<1> HIDE DEF best
<1>8. CASE l = best
  <2>1. i # 1
    BY <1>2, <1>3, <1>8
  <2>2. 1 \in 1 .. i - 1
    BY <1>5, <1>6, <2>1
  <2>3. pool[priceLevel[side][l][1]].id < pool[priceLevel[side][l][i]].id
    BY <2>2, OrderedBookParts DEF Ranked
  <2>4. QED
    BY <1>2, <1>3, <1>4, <1>8, <2>3 DEF Precedes
<1>9. CASE l # best
  <2>1. IF side = Bid THEN Ticks(BestOrder(side)) > Ticks(other)
                      ELSE Ticks(BestOrder(side)) < Ticks(other)
    BY <1>3, <1>4, <1>6, <1>7, <1>9
  <2>2. QED
    BY <2>1 DEF Precedes
<1>10. QED
  BY <1>8, <1>9

(* Where getBestBid or getBestAsk finds nothing, nothing rests.            *)
LEMMA NoBestNothingRests ==
  ASSUME OrderedBook, NEW side \in Side, ~HasBest(side)
  PROVE  RestingOn(side) = {}
<1>1. /\ bitmap[side] \in Bitmap /\ Marks(bitmap[side], priceLevel[side])
      /\ priceLevel[side] \in [Level -> Seq(Slot)]
  BY SideOfTypedBook DEF OrderedBook
<1>2. \A l \in Level : ~IsMarked(bitmap[side], l)
  <2> DEFINE best == FindBestLevel(side)
  <2>1. \/ best \in Level /\ IsMarked(bitmap[side], best)
        \/ best = NoLevel /\ \A l \in Level : ~IsMarked(bitmap[side], l)
    <3>1. CASE side = Bid
      BY <1>1, <3>1, HighestLevelIsBest DEF Marks, FindBestLevel
    <3>2. CASE side = Ask /\ side # Bid
      BY <1>1, <3>2, LowestLevelIsBest DEF Marks, FindBestLevel
    <3>3. QED
      BY <3>1, <3>2 DEF Side
  <2>2. NoLevel \notin Level
    BY DEF NoLevel, Level
  <2>3. best \in Level /\ IsMarked(bitmap[side], best) => HasBest(side)
    BY <1>1, <2>2 DEF Marks, HasBest
  <2>4. QED
    BY <2>1, <2>3
<1>3. \A l \in Level : priceLevel[side][l] = <<>>
  BY <1>1, <1>2 DEF Marks
<1>4. \A l \in Level : DOMAIN priceLevel[side][l] = {}
  BY <1>3, EmptySeq, LenProperties
<1>5. QED
  BY <1>4, PlaceOnSide

-----------------------------------------------------------------------------
(* What a step that ends in a trade, or finds none, tells of the step.     *)
LEMMA OnlyMatchBestTrades ==
  ASSUME Next
  PROVE  /\ IsTrade => /\ MatchBest
                       /\ result'.bid = BestOrder(Bid)
                       /\ result'.ask = BestOrder(Ask)
                       /\ result'.price = ToU64(Ticks(BestOrder(Ask)))
         /\ result' = NoTrade => MatchNothing
<1>1. ASSUME NEW side \in Side, NEW volume \in Volumes, NEW price \in Prices,
             AddOrder(side, volume, price)
      PROVE  result'.op \notin {"trade", "noTrade"}
  BY <1>1 DEF AddOrder, AddOrderPoolEmpty, AddOrderToSlot, Accepted, Rejected
<1>2. ASSUME NEW orderId \in OrderIds, CancelOrder(orderId)
      PROVE  result'.op \notin {"trade", "noTrade"}
  BY <1>2 DEF CancelOrder, Cancelled
<1>3. MatchNothing => result'.op = "noTrade"
  BY DEF MatchNothing, NoTrade
<1>4. MatchBest => /\ result'.op = "trade"
                   /\ result'.bid = BestOrder(Bid)
                   /\ result'.ask = BestOrder(Ask)
                   /\ result'.price = ToU64(Ticks(BestOrder(Ask)))
  BY DEF MatchBest, Trade
<1>5. NoTrade.op = "noTrade"
  BY DEF NoTrade
<1>6. QED
  BY <1>1, <1>2, <1>3, <1>4, <1>5 DEF Next, MatchLimitOrders, IsTrade

(* A trade always serves the best and, at one price, the oldest order of   *)
(* each side: price-time priority.                                         *)
THEOREM TradesHavePriority == Spec => PriceTimePriority
<1> DEFINE Priority ==
             IsTrade =>
               /\ \A other \in RestingOn(Bid) \ {result'.bid} : Precedes(Bid, result'.bid, other)
               /\ \A other \in RestingOn(Ask) \ {result'.ask} : Precedes(Ask, result'.ask, other)
<1>1. OrderedBook /\ [Next]_vars => [Priority]_vars
  <2> SUFFICES ASSUME OrderedBook, Next, IsTrade
               PROVE  Priority
    OBVIOUS
  <2>1. HasBest(Bid) /\ HasBest(Ask) /\ Bid \in Side /\ Ask \in Side
    BY OnlyMatchBestTrades DEF MatchBest, Side
  <2>2. QED
    BY <2>1, OnlyMatchBestTrades, BestComesFirst
<1>2. TypedBook /\ SlotsHaveOneOwner /\ QueuesInArrivalOrder => OrderedBook
  BY DEF OrderedBook
<1>3. QED
  BY <1>1, <1>2, BookIsTyped, OneOwner, ArrivalOrder, PTL DEF Spec, PriceTimePriority

(* The prices of the best orders cross exactly when some pair of the whole *)
(* book does.                                                              *)
LEMMA BestOrdersCross ==
  ASSUME OrderedBook, HasBest(Bid), HasBest(Ask), PricesCross
  PROVE  /\ Crossed
         /\ ToU64(Ticks(BestOrder(Ask))) = Ticks(BestOrder(Ask))
         /\ Ticks(BestOrder(Ask)) <= Ticks(BestOrder(Bid))
<1>1. Bid \in Side /\ Ask \in Side /\ Bid # Ask
  BY DEF Side, Bid, Ask
<1>2. ToU64(Ticks(BestOrder(Bid))) >= ToU64(Ticks(BestOrder(Ask)))
  BY DEF PricesCross
<1>3. \A side \in Side : /\ BestOrder(side) \in RestingOn(side)
                         /\ FindBestLevel(side) \in Level
                         /\ Ticks(BestOrder(side)) = StartOfPrice + FindBestLevel(side)
                         /\ ToU64(Ticks(BestOrder(side))) = Ticks(BestOrder(side))
  BY BestPlace DEF Side
<1>4. StartOfPrice \in Nat /\ Level \subseteq Int
  BY OrderBookAssumption DEF Level
<1>5. Ticks(BestOrder(Bid)) >= Ticks(BestOrder(Ask))
  BY <1>1, <1>2, <1>3
<1>6. \A side \in Side : Ticks(BestOrder(side)) \in Int
  <2>1. \A l \in Level : StartOfPrice + l \in Int
    BY <1>4
  <2>2. QED
    BY <1>3, <2>1
<1>7. Crossed
  BY <1>1, <1>3, <1>5 DEF Crossed
<1>8. QED
  BY <1>1, <1>3, <1>5, <1>6, <1>7

LEMMA NoOthersCross ==
  ASSUME OrderedBook, ~(HasBest(Ask) /\ HasBest(Bid) /\ PricesCross)
  PROVE  ~Crossed
<1> SUFFICES ASSUME NEW bid \in RestingOn(Bid), NEW ask \in RestingOn(Ask)
             PROVE  ~(Ticks(bid) >= Ticks(ask))
  BY DEF Crossed
<1>1. Bid \in Side /\ Ask \in Side /\ Bid # Ask
  BY DEF Side, Bid, Ask
<1>2. HasBest(Bid) /\ HasBest(Ask)
  BY <1>1, NoBestNothingRests
<1>3. ~(ToU64(Ticks(BestOrder(Bid))) >= ToU64(Ticks(BestOrder(Ask))))
  BY <1>2 DEF PricesCross
<1>4. PICK l \in Level : \E i \in DOMAIN priceLevel[Bid][l] : bid = priceLevel[Bid][l][i]
  BY <1>1, PlaceOnSide
<1>5. PICK m \in Level : \E j \in DOMAIN priceLevel[Ask][m] : ask = priceLevel[Ask][m][j]
  BY <1>1, PlaceOnSide
<1>6. Ticks(bid) = StartOfPrice + l /\ Ticks(ask) = StartOfPrice + m
  BY <1>1, <1>4, <1>5, TicksOfPlace
<1>7. priceLevel[Bid][l] # <<>> /\ priceLevel[Ask][m] # <<>>
  <2>1. DOMAIN priceLevel[Bid][l] # {} /\ DOMAIN priceLevel[Ask][m] # {}
    BY <1>4, <1>5
  <2>2. QED
    BY <2>1, EmptySeq, LenProperties
<1>8. /\ FindBestLevel(Bid) \in Level /\ FindBestLevel(Ask) \in Level
      /\ l <= FindBestLevel(Bid) /\ FindBestLevel(Ask) <= m
      /\ ToU64(Ticks(BestOrder(Bid))) = StartOfPrice + FindBestLevel(Bid)
      /\ ToU64(Ticks(BestOrder(Ask))) = StartOfPrice + FindBestLevel(Ask)
  BY <1>1, <1>2, <1>7, BestPlace
<1>9. StartOfPrice \in Nat /\ Level \subseteq Int
  BY OrderBookAssumption DEF Level
<1>10. ~(StartOfPrice + FindBestLevel(Bid) >= StartOfPrice + FindBestLevel(Ask))
  BY <1>3, <1>8
<1>11. ~(StartOfPrice + l >= StartOfPrice + m)
  <2> DEFINE b == FindBestLevel(Bid)
             a == FindBestLevel(Ask)
  <2>1. b \in Int /\ a \in Int /\ l \in Int /\ m \in Int /\ l <= b /\ a <= m
    BY <1>8, <1>9
  <2>2. ~(StartOfPrice + b >= StartOfPrice + a)
    BY <1>10
  <2> HIDE DEF b, a
  <2>3. QED
    BY <1>9, <2>1, <2>2
<1>12. QED
  BY <1>6, <1>11

(* matchLimitOrders never misses a pair of orders that cross and never     *)
(* trades a pair that does not, and its price is within both limits, for   *)
(* every 64-bit price the book accepts.                                    *)
THEOREM TradesExactlyWhenCrossed == Spec => MatchesIffCrossed
<1> DEFINE Exact ==
             /\ IsTrade => /\ Crossed
                           /\ result'.price = Ticks(result'.ask)
                           /\ result'.price <= Ticks(result'.bid)
             /\ result' = NoTrade => ~Crossed
<1>1. OrderedBook /\ [Next]_vars => [Exact]_vars
  <2> SUFFICES ASSUME OrderedBook, Next
               PROVE  Exact
    OBVIOUS
  <2>1. CASE IsTrade
    <3>1. HasBest(Bid) /\ HasBest(Ask) /\ PricesCross
      BY <2>1, OnlyMatchBestTrades DEF MatchBest
    <3>2. result' # NoTrade
      BY <2>1 DEF IsTrade, NoTrade
    <3>3. QED
      BY <2>1, <3>1, <3>2, BestOrdersCross, OnlyMatchBestTrades
  <2>2. CASE ~IsTrade
    BY <2>2, NoOthersCross, OnlyMatchBestTrades DEF MatchNothing
  <2>3. QED
    BY <2>1, <2>2
<1>2. TypedBook /\ SlotsHaveOneOwner /\ QueuesInArrivalOrder => OrderedBook
  BY DEF OrderedBook
<1>3. QED
  BY <1>1, <1>2, BookIsTyped, OneOwner, ArrivalOrder, PTL DEF Spec, MatchesIffCrossed

(* A trade always takes at least one of its two orders out of the book, so *)
(* that the endless loop of matchLimitOrders cannot trade one pair for     *)
(* ever: one of the volumes reads 0 afterwards, and the order that is then *)
(* removed has no second place in the book.                                *)
THEOREM TradesAlwaysRemove == Spec => TradesRemoveAnOrder
<1> DEFINE Removes == IsTrade => ~({result'.bid, result'.ask} \subseteq Resting')
<1>1. TypedBook /\ SlotsHaveOneOwner /\ [Next]_vars => [Removes]_vars
  <2> SUFFICES ASSUME TypedBook, SlotsHaveOneOwner, Next, IsTrade
               PROVE  ~({result'.bid, result'.ask} \subseteq Resting')
    OBVIOUS
  <2> DEFINE volume == TradeVolume(pool[BestOrder(Ask)].volume, pool[BestOrder(Bid)].volume)
             filled == {side \in Side : GetVolume(Left(side, volume)) = 0}
  <2>1. /\ MatchBest
        /\ result'.bid = BestOrder(Bid)
        /\ result'.ask = BestOrder(Ask)
    BY OnlyMatchBestTrades
  <2>2. /\ filled \in SUBSET Side
        /\ \A side \in filled : HasBest(side)
        /\ RemoveBest(filled)
        /\ HasBest(Bid) /\ HasBest(Ask) /\ Bid \in Side /\ Ask \in Side
    BY <2>1 DEF MatchBest, Side
  <2>3. \E side \in Side : side \in filled
    <3>1. pool[BestOrder(Bid)].volume \in U64 /\ pool[BestOrder(Ask)].volume \in U64
      BY <2>2, BestOrderFacts DEF TypedBook, TypeOK, BookTypeOK, Order
    <3>2. \/ GetVolume(Left(Ask, volume)) = 0
          \/ GetVolume(Left(Bid, volume)) = 0
      BY <3>1, TradeFillsOne DEF Left
    <3>3. QED
      BY <2>2, <3>2
  <2> HIDE DEF filled
  <2>4. PICK side \in Side : side \in filled
    BY <2>3
  <2>5. /\ Erases(priceLevel, BestOf(filled), priceLevel')
        /\ FindBestLevel(side) \in Level
        /\ BestOf(filled)[side][FindBestLevel(side)] = 1
        /\ BestOrder(side) = priceLevel[side][FindBestLevel(side)][1]
    BY <2>2, <2>4, RemoveBestErases
  <2>6. \A s \in Side, l \in Level : \A i \in DOMAIN priceLevel'[s][l] :
          priceLevel'[s][l][i] # BestOrder(side)
    BY <2>5, OwnedAfterErase
  <2>7. BestOrder(side) \notin Resting'
    BY <2>6 DEF Resting, RestingOn, ToSet, Side
  <2>8. QED
    BY <2>1, <2>4, <2>7 DEF Side
<1>2. QED
  BY <1>1, BookIsTyped, OneOwner, PTL DEF Spec, TradesRemoveAnOrder
=============================================================================
