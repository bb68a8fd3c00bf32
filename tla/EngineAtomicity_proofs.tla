------------------------ MODULE EngineAtomicity_proofs ------------------------
(***************************************************************************)
(* Proof that the handlers in steps are the handlers of MatchingEngine:    *)
(* what a handler has written so far, wherever it is, is what the handler  *)
(* of MatchingEngine makes of the state in which the mutex was taken.      *)
(***************************************************************************)
EXTENDS EngineAtomicity, SequenceTheorems, TLAPS

(* The engine in that state, with what is proved of it.                    *)
Whole == INSTANCE MatchingEngine_promise_proofs
  WITH freeStack <- before.freeStack, pool <- before.pool,
       priceLevel <- before.priceLevel, bitmap <- before.bitmap,
       orderIdtoPriceMapping <- before.orderIdtoPriceMapping,
       atomicOrderID <- before.atomicOrderID, result <- before.result

-----------------------------------------------------------------------------
(* The operators without state are the same in every instance.             *)
LEMMA WholeConstants ==
  /\ Whole!Bid = Bid /\ Whole!Ask = Ask /\ Whole!Side = Side
  /\ Whole!Slot = Slot /\ Whole!Level = Level /\ Whole!NoLevel = NoLevel
  /\ Whole!Order = Order /\ Whole!OrderLocation = OrderLocation /\ Whole!Bitmap = Bitmap
  /\ Whole!NoLocation = NoLocation
  /\ Whole!NoTrade = NoTrade /\ Whole!Nothing = Nothing
BY DEF Whole!Bid, Bid, Whole!Ask, Ask, Whole!Side, Side, Whole!Slot, Slot, Whole!Level, Level,
       Whole!NoLevel, NoLevel, Whole!Order, Order, Whole!U64, U64,
       Whole!OrderLocation, OrderLocation, Whole!Bitmap, Bitmap, Whole!Word, Word,
       Whole!NumOfWords, NumOfWords, Whole!Bit, Bit, Whole!NoLocation, NoLocation,
       Whole!NoTrade, NoTrade, Whole!Nothing, Nothing

LEMMA WholeNumbers ==
  /\ \A n : Whole!ToU64(n) = ToU64(n) /\ Whole!ToInt(n) = ToInt(n)
  /\ \A n : Whole!GetVolume(n) = GetVolume(n) /\ Whole!GetPriceInTicks(n) = GetPriceInTicks(n)
  /\ \A n : Whole!PriceToIndex(n) = PriceToIndex(n) /\ Whole!Key(n) = Key(n)
  /\ \A n : Whole!IsTradable(n) <=> IsTradable(n)
  /\ \A S : Whole!Min(S) = Min(S)
  /\ \A m, n : Whole!ReduceVolume(m, n) = ReduceVolume(m, n)
  /\ \A m, n : Whole!TradeVolume(m, n) = TradeVolume(m, n)
BY WholeConstants
DEF Whole!ToU64, ToU64, Whole!ToInt, ToInt, Whole!GetVolume, GetVolume,
    Whole!GetPriceInTicks, GetPriceInTicks, Whole!PriceToIndex, PriceToIndex, Whole!Key, Key,
    Whole!IsTradable, IsTradable, Whole!Min, Min, Whole!ReduceVolume, ReduceVolume,
    Whole!TradeVolume, TradeVolume

LEMMA WholeBitmaps ==
  /\ \A map, level : Whole!SetBitTo1(map, level) = SetBitTo1(map, level)
  /\ \A map, level : Whole!SetBitTo0(map, level) = SetBitTo0(map, level)
  /\ \A map : Whole!HighestLevel(map) = HighestLevel(map)
  /\ \A map : Whole!LowestLevel(map) = LowestLevel(map)
BY DEF Whole!SetBitTo1, SetBitTo1, Whole!SetBitTo0, SetBitTo0, Whole!WordOf, WordOf,
       Whole!BitOf, BitOf, Whole!HighestLevel, HighestLevel, Whole!LowestLevel, LowestLevel,
       Whole!Word, Word, Whole!NumOfWords, NumOfWords, Whole!NoLevel, NoLevel,
       Whole!Min, Min, Whole!Max, Max

LEMMA WholeSequences ==
  /\ \A queue, slot : Whole!Enqueued(queue, slot) = Enqueued(queue, slot)
  /\ \A queue, i : Whole!RemoveAt(queue, i) = RemoveAt(queue, i)
  /\ \A queue : Whole!Last(queue) = Last(queue) /\ Whole!Front(queue) = Front(queue)
BY DEF Whole!Enqueued, Enqueued, Whole!RemoveAt, RemoveAt, Whole!Last, Last, Whole!Front, Front

LEMMA WholeResults ==
  /\ \A id : Whole!Accepted(id) = Accepted(id) /\ Whole!Cancelled(id) = Cancelled(id)
  /\ \A reason : Whole!Rejected(reason) = Rejected(reason)
  /\ \A bid, ask, volume, price :
       Whole!Trade(bid, ask, volume, price) = Trade(bid, ask, volume, price)
BY DEF Whole!Accepted, Accepted, Whole!Cancelled, Cancelled, Whole!Rejected, Rejected,
       Whole!Trade, Trade

(* What is proved of the engine holds of it.                               *)
LEMMA WholeBookStays == Whole!OrderedBook /\ [Whole!Next]_(Whole!vars) => Whole!OrderedBook'
BY Whole!OrderedBookStays, MachineIntegersAssumption, LevelBitmapAssumption,
   OrderBookAssumption, MatchingEngineAssumption DEF Whole!U64, U64

LEMMA WholeBookInit == Whole!Init => Whole!OrderedBook
BY Whole!InitOrdered, MachineIntegersAssumption, LevelBitmapAssumption,
   OrderBookAssumption, MatchingEngineAssumption DEF Whole!U64, U64

LEMMA WholeBookTyped ==
  ASSUME Whole!OrderedBook
  PROVE  /\ before.freeStack \in Seq(Slot)
         /\ before.pool \in [Slot -> Order]
         /\ before.priceLevel \in [Side -> [Level -> Seq(Slot)]]
         /\ before.bitmap \in [Side -> Bitmap]
         /\ before.orderIdtoPriceMapping \in [Slot -> OrderLocation]
         /\ before.atomicOrderID \in Nat
BY WholeConstants DEF Whole!OrderedBook, Whole!TypedBook, Whole!TypeOK, Whole!BookTypeOK

LEMMA WholeEntry ==
  ASSUME Whole!OrderedBook, NEW orderId \in OrderIds
  PROVE  LET location == before.orderIdtoPriceMapping[Key(orderId)]
         IN  /\ location.side \in Side
             /\ location.isValid => PriceToIndex(location.price) \in Level
<1>1. Key(orderId) \in Slot
  BY OrderBookAssumption, MachineIntegersAssumption, MatchingEngineAssumption DEF Key, Slot, U64
<1>2. before.orderIdtoPriceMapping[Key(orderId)] \in OrderLocation
  BY <1>1, WholeBookTyped
<1>3. before.orderIdtoPriceMapping[Key(orderId)].isValid =>
        IsTradable(before.orderIdtoPriceMapping[Key(orderId)].price)
  BY <1>1, WholeConstants, WholeNumbers
  DEF Whole!OrderedBook, Whole!TypedBook, Whole!LocationsTradable
<1>4. QED
  BY <1>2, <1>3 DEF OrderLocation, IsTradable

-----------------------------------------------------------------------------
(* What addOrder has written when it is about to put the order into its    *)
(* queue, and when it is about to set the bit.                             *)
Adding(side, volume, price, slot) ==
  LET level == PriceToIndex(price)
  IN  /\ side \in Side /\ volume \in Volumes /\ price \in Prices /\ slot \in Slot
      /\ before.atomicOrderID < MaxOrders
      /\ before.freeStack # <<>> /\ slot = Last(before.freeStack)
      /\ freeStack = Front(before.freeStack)
      /\ pool = [before.pool EXCEPT ![slot] = Whole!NewOrder(side, volume, price)]
      /\ atomicOrderID = before.atomicOrderID + 1
      /\ bitmap = before.bitmap
      /\ orderIdtoPriceMapping = before.orderIdtoPriceMapping
      /\ \/ /\ call = [step |-> "enqueue", slot |-> slot, side |-> side, level |-> level]
            /\ priceLevel = before.priceLevel
         \/ /\ call = [step |-> "mark", slot |-> slot, side |-> side, level |-> level]
            /\ level \in Level
            /\ priceLevel = [before.priceLevel EXCEPT ![side][level] = Enqueued(@, slot)]

(* What cancelOrder has written when it is about to take the order out of  *)
(* its queue, and when it is about to clear the bit and the entry.         *)
Cancelling(orderId) ==
  LET location == before.orderIdtoPriceMapping[Key(orderId)]
      side == location.side
      level == PriceToIndex(location.price)
      queue == before.priceLevel[side][level]
      found == {i \in DOMAIN queue : before.pool[queue[i]].id = orderId}
  IN  /\ orderId \in OrderIds /\ location.isValid /\ found # {}
      /\ pool = before.pool /\ bitmap = before.bitmap
      /\ orderIdtoPriceMapping = before.orderIdtoPriceMapping
      /\ atomicOrderID = before.atomicOrderID
      /\ \/ /\ call = [step |-> "erase", id |-> orderId, side |-> side, level |-> level]
            /\ freeStack = before.freeStack /\ priceLevel = before.priceLevel
         \/ /\ call = [step |-> "forget", id |-> orderId, side |-> side, level |-> level]
            /\ freeStack = before.freeStack \o <<queue[Min(found)]>>
            /\ priceLevel =
                 [before.priceLevel EXCEPT ![side][level] = RemoveAt(queue, Min(found))]

(* What matchLimitOrders is about to return, and which orders it fills.    *)
Volume == Whole!TradeVolume(before.pool[Whole!BestOrder(Ask)].volume,
                            before.pool[Whole!BestOrder(Bid)].volume)
Reduced(side) == Whole!Left(side, Volume)
Filled == {side \in Side : GetVolume(Reduced(side)) = 0}

(* The book without the best orders of some sides, and without the bits of *)
(* levels which they left empty.                                           *)
BestRest(side) == Tail(before.priceLevel[side][Whole!FindBestLevel(side)])
BestFrom(side, popped) == IF side \in popped THEN <<Whole!BestOrder(side)>> ELSE <<>>

StackAfter(popped) == before.freeStack \o (BestFrom(Ask, popped) \o BestFrom(Bid, popped))
QueuesAfter(popped) ==
  [side \in Side |->
     IF side \in popped
     THEN [before.priceLevel[side] EXCEPT ![Whole!FindBestLevel(side)] = BestRest(side)]
     ELSE before.priceLevel[side]]
BitmapAfter(unmarked) ==
  [side \in Side |->
     IF side \in unmarked
     THEN Whole!Unmarked(side, Whole!FindBestLevel(side), BestRest(side))
     ELSE before.bitmap[side]]
BestKeys(popped) == {Key(before.pool[Whole!BestOrder(side)].id) : side \in popped}
TableAfter(popped) == Whole!Forgotten(BestKeys(popped))

(* The orders with the volumes they had, but for those which were reduced. *)
AskReduced == [before.pool EXCEPT ![Whole!BestOrder(Ask)].volume = Reduced(Ask)]
BothReduced == [before.pool EXCEPT ![Whole!BestOrder(Bid)].volume = Reduced(Bid),
                                   ![Whole!BestOrder(Ask)].volume = Reduced(Ask)]
Orders(step) == IF step = "reduceBid" THEN AskReduced ELSE BothReduced

Matched(step, side) ==
  [step |-> step, side |-> side, order |-> [s \in Side |-> Whole!BestOrder(s)],
   volume |-> Volume, price |-> ToU64(Whole!Ticks(Whole!BestOrder(Ask)))]

(* The sides that come before a side.                                      *)
Earlier(side) == IF side = Bid THEN {Ask} ELSE {}

Done(side) == Filled \intersect Earlier(side)
Popped(step, side) == IF step = "unmark" THEN Done(side) \union {side} ELSE Done(side)

MatchUnderWay == Whole!HasBest(Ask) /\ Whole!HasBest(Bid) /\ Whole!PricesCross

TradingStep(step, side) ==
  /\ side \in Side /\ step \in {"reduceBid", "remove", "unmark"}
  /\ step = "reduceBid" => side = Ask
  /\ step = "unmark" => side \in Filled

Trading(step, side) ==
  /\ MatchUnderWay
  /\ TradingStep(step, side)
  /\ call = Matched(step, side)
  /\ atomicOrderID = before.atomicOrderID
  /\ pool = Orders(step)
  /\ freeStack = StackAfter(Popped(step, side))
  /\ priceLevel = QueuesAfter(Popped(step, side))
  /\ bitmap = BitmapAfter(Done(side))
  /\ orderIdtoPriceMapping = TableAfter(Popped(step, side))

Phase ==
  \/ \E side \in Side, volume \in Volumes, price \in Prices, slot \in Slot :
       Adding(side, volume, price, slot)
  \/ \E orderId \in OrderIds : Cancelling(orderId)
  \/ \E step \in {"reduceBid", "remove", "unmark"}, side \in Side : Trading(step, side)

(* The inductive invariant: the mutex is free and the state is shown, or a *)
(* handler is under way.                                                   *)
AtomicInv ==
  /\ Whole!OrderedBook
  /\ (call = Idle /\ before = Now) \/ Phase

-----------------------------------------------------------------------------
(* A step of a handler goes on or returns.                                 *)
KeepsBefore == before' = IF call' = Idle THEN Now' ELSE before

GoesOn == Phase' /\ before' = before

Returns == Whole!Next /\ before' = Now' /\ call' = Idle

LEMMA ShownFields ==
  ASSUME before = Now
  PROVE  /\ before.freeStack = freeStack /\ before.pool = pool
         /\ before.priceLevel = priceLevel /\ before.bitmap = bitmap
         /\ before.orderIdtoPriceMapping = orderIdtoPriceMapping
         /\ before.atomicOrderID = atomicOrderID /\ before.result = result
BY DEF Now

LEMMA ShownFieldsPrimed ==
  ASSUME before' = Now'
  PROVE  /\ before'.freeStack = freeStack' /\ before'.pool = pool'
         /\ before'.priceLevel = priceLevel' /\ before'.bitmap = bitmap'
         /\ before'.orderIdtoPriceMapping = orderIdtoPriceMapping'
         /\ before'.atomicOrderID = atomicOrderID' /\ before'.result = result'
BY DEF Now

(* The best orders, read from the same bitmaps and queues.                 *)
LEMMA ShownBest ==
  ASSUME before = Now
  PROVE  /\ \A side : FindBestLevel(side) = Whole!FindBestLevel(side)
         /\ \A side : HasBest(side) <=> Whole!HasBest(side)
         /\ \A side : BestOrder(side) = Whole!BestOrder(side)
         /\ \A slot : Ticks(slot) = Whole!Ticks(slot)
         /\ PricesCross <=> Whole!PricesCross
         /\ \A side, volume : Left(side, volume) = Whole!Left(side, volume)
<1>1. \A side : FindBestLevel(side) = Whole!FindBestLevel(side)
  BY ShownFields, WholeConstants, WholeBitmaps DEF FindBestLevel, Whole!FindBestLevel
<1>2. \A side : HasBest(side) <=> Whole!HasBest(side)
  BY <1>1, ShownFields, WholeConstants DEF HasBest, Whole!HasBest
<1>3. \A side : BestOrder(side) = Whole!BestOrder(side)
  BY <1>1, ShownFields DEF BestOrder, Whole!BestOrder
<1>4. \A slot : Ticks(slot) = Whole!Ticks(slot)
  BY ShownFields, WholeNumbers DEF Ticks, Whole!Ticks
<1>5. PricesCross <=> Whole!PricesCross
  BY <1>3, <1>4, WholeNumbers, WholeConstants DEF PricesCross, Whole!PricesCross
<1>6. \A side, volume : Left(side, volume) = Whole!Left(side, volume)
  BY <1>3, ShownFields, WholeNumbers DEF Left, Whole!Left
<1>7. QED
  BY <1>1, <1>2, <1>3, <1>4, <1>5, <1>6

-----------------------------------------------------------------------------
(* addOrder.                                                               *)
LEMMA AddNothingReturns ==
  ASSUME before = Now, KeepsBefore, NEW side \in Side, NEW volume \in Volumes, NEW price \in Prices,
         call = Idle, AddNothing
  PROVE  Returns
<1>1. AddOrderPoolEmpty /\ call' = Idle /\ before' = Now'
  BY DEF AddNothing, KeepsBefore
<1>2. Whole!AddOrderPoolEmpty
  BY <1>1, ShownFields, ShownFieldsPrimed, WholeResults
  DEF AddOrderPoolEmpty, bookVars, Whole!AddOrderPoolEmpty, Whole!bookVars
<1>3. Whole!AddOrder(side, volume, price)
  BY <1>2 DEF Whole!AddOrder
<1>4. QED
  BY <1>1, <1>3, WholeConstants DEF Returns, Whole!Next

LEMMA StartAddGoesOn ==
  ASSUME before = Now, KeepsBefore, NEW side \in Side, NEW volume \in Volumes, NEW price \in Prices,
         StartAdd(NewOrder(side, volume, price))
  PROVE  GoesOn
<1>1. PICK slot \in Slot :
        /\ atomicOrderID < MaxOrders
        /\ Acquire(slot)
        /\ pool' = [pool EXCEPT ![slot] = NewOrder(side, volume, price)]
        /\ atomicOrderID' = atomicOrderID + 1
        /\ call' = [step |-> "enqueue", slot |-> slot, side |-> side,
                    level |-> PriceToIndex(price)]
        /\ UNCHANGED <<priceLevel, bitmap, orderIdtoPriceMapping>>
  BY DEF StartAdd, NewOrder
<1>2. before' = before
  BY <1>1 DEF KeepsBefore, Idle
<1>3. NewOrder(side, volume, price) = Whole!NewOrder(side, volume, price)
  BY ShownFields DEF NewOrder, Whole!NewOrder
<1>4. Adding(side, volume, price, slot)'
  BY <1>1, <1>2, <1>3, ShownFields DEF Acquire, Adding, Whole!NewOrder
<1>5. QED
  BY <1>2, <1>4 DEF GoesOn, Phase

(* The order that addOrder was called with has been stored.                *)
LEMMA AddingFacts ==
  ASSUME Whole!OrderedBook, NEW side, NEW volume, NEW price, NEW slot,
         Adding(side, volume, price, slot)
  PROVE  /\ pool[slot] = Whole!NewOrder(side, volume, price)
         /\ Whole!NewOrder(side, volume, price).side = side
         /\ Whole!NewOrder(side, volume, price).price = price
         /\ Whole!NewOrder(side, volume, price).id = before.atomicOrderID + 1
         /\ call.slot = slot /\ call.side = side /\ call.level = PriceToIndex(price)
<1>1. /\ pool = [before.pool EXCEPT ![slot] = Whole!NewOrder(side, volume, price)]
      /\ slot \in Slot
      /\ \E step : call = [step |-> step, slot |-> slot, side |-> side,
                           level |-> PriceToIndex(price)]
  BY DEF Adding
<1>2. pool[slot] = Whole!NewOrder(side, volume, price)
  BY <1>1, WholeBookTyped
<1>3. QED
  BY <1>1, <1>2 DEF Whole!NewOrder

LEMMA EnqueueStep ==
  ASSUME Whole!OrderedBook, KeepsBefore, NEW side \in Side, NEW volume \in Volumes,
         NEW price \in Prices, NEW slot \in Slot, Adding(side, volume, price, slot), Enqueue
  PROVE  GoesOn \/ Returns
<1> DEFINE level == PriceToIndex(price)
           order == Whole!NewOrder(side, volume, price)
<1>1. /\ call = [step |-> "enqueue", slot |-> slot, side |-> side, level |-> level]
      /\ priceLevel = before.priceLevel
      /\ UNCHANGED <<freeStack, pool, bitmap, orderIdtoPriceMapping, atomicOrderID>>
  BY DEF Adding, Enqueue
<1>2. CASE call.level \in Level
  <2>1. /\ level \in Level
        /\ priceLevel' = [before.priceLevel EXCEPT ![side][level] = Enqueued(@, slot)]
        /\ call' = [step |-> "mark", slot |-> slot, side |-> side, level |-> level]
    BY <1>1, <1>2 DEF Enqueue
  <2>2. before' = before
    BY <2>1 DEF KeepsBefore, Idle
  <2>3. Adding(side, volume, price, slot)'
    BY <1>1, <2>1, <2>2 DEF Adding, Whole!NewOrder
  <2>4. QED
    BY <2>2, <2>3 DEF GoesOn, Phase
<1>3. CASE call.level \notin Level
  <2>1. /\ level \notin Level /\ priceLevel' = priceLevel
        /\ result' = Rejected("price") /\ call' = Idle /\ before' = Now'
    BY <1>1, <1>3 DEF Enqueue, Return, KeepsBefore
  <2>2. ~Whole!IsTradable(order.price)
    BY <2>1, AddingFacts, WholeNumbers DEF IsTradable
  <2>3. Whole!Acquire(slot)
    BY <1>1, <2>1, ShownFieldsPrimed, WholeSequences DEF Adding, Whole!Acquire
  <2>4. Whole!AddOrderToSlot(order)
    <3>1. /\ slot \in Whole!Slot /\ before.atomicOrderID < MaxOrders
          /\ before'.pool = [before.pool EXCEPT ![slot] = order]
          /\ before'.atomicOrderID = before.atomicOrderID + 1
          /\ (before.result)' = Whole!Rejected("price")
          /\ before'.priceLevel = before.priceLevel /\ before'.bitmap = before.bitmap
          /\ before'.orderIdtoPriceMapping = before.orderIdtoPriceMapping
      BY <1>1, <2>1, ShownFieldsPrimed, WholeResults, WholeConstants DEF Adding
    <3>2. QED
      BY <2>2, <2>3, <3>1 DEF Whole!AddOrderToSlot
  <2>5. QED
    BY <2>1, <2>4, WholeConstants DEF Returns, Whole!Next, Whole!AddOrder
<1>4. QED
  BY <1>2, <1>3

LEMMA MarkStep ==
  ASSUME Whole!OrderedBook, KeepsBefore, NEW side \in Side, NEW volume \in Volumes,
         NEW price \in Prices, NEW slot \in Slot, Adding(side, volume, price, slot), Mark
  PROVE  Returns
<1> DEFINE level == PriceToIndex(price)
           order == Whole!NewOrder(side, volume, price)
<1>1. /\ call.step = "mark" /\ call.slot = slot /\ call.level = level /\ pool[slot] = order
      /\ order.side = side /\ order.price = price /\ order.id = before.atomicOrderID + 1
  BY AddingFacts DEF Mark
<1> HIDE DEF order
<1>2. /\ level \in Level
      /\ priceLevel = [before.priceLevel EXCEPT ![side][level] = Enqueued(@, slot)]
      /\ freeStack = Front(before.freeStack)
      /\ before.freeStack # <<>> /\ slot = Last(before.freeStack)
      /\ pool = [before.pool EXCEPT ![slot] = order]
      /\ atomicOrderID = before.atomicOrderID + 1 /\ before.atomicOrderID < MaxOrders
      /\ bitmap = before.bitmap /\ orderIdtoPriceMapping = before.orderIdtoPriceMapping
  BY <1>1 DEF Adding, order
<1>3. /\ bitmap' = [bitmap EXCEPT ![side] = SetBitTo1(@, level)]
      /\ orderIdtoPriceMapping' = [orderIdtoPriceMapping EXCEPT ![Key(order.id)] =
           [isValid |-> TRUE, side |-> side, price |-> price]]
      /\ result' = Accepted(order.id) /\ call' = Idle /\ before' = Now'
      /\ UNCHANGED <<freeStack, pool, priceLevel, atomicOrderID>>
  BY <1>1 DEF Mark, Return, KeepsBefore
<1>4. Whole!Acquire(slot)
  BY <1>2, <1>3, ShownFieldsPrimed, WholeSequences DEF Whole!Acquire
<1>5. Whole!Insert(slot, order)
  <2>1. /\ before'.priceLevel = [before.priceLevel EXCEPT ![side][level] = Whole!Enqueued(@, slot)]
        /\ before'.bitmap = [before.bitmap EXCEPT ![side] = Whole!SetBitTo1(@, level)]
        /\ before'.orderIdtoPriceMapping =
             [before.orderIdtoPriceMapping EXCEPT ![Whole!Key(order.id)] =
                [isValid |-> TRUE, side |-> side, price |-> price]]
    BY <1>2, <1>3, ShownFieldsPrimed, WholeSequences, WholeBitmaps, WholeNumbers
  <2>2. Whole!PriceToIndex(order.price) = level
    BY <1>1, WholeNumbers
  <2>3. QED
    BY <1>1, <2>1, <2>2 DEF Whole!Insert
<1>6. Whole!IsTradable(order.price)
  BY <1>1, <1>2, WholeNumbers DEF IsTradable
<1>7. Whole!AddOrderToSlot(order)
  <2>1. /\ slot \in Whole!Slot /\ before.atomicOrderID < MaxOrders
        /\ before'.pool = [before.pool EXCEPT ![slot] = order]
        /\ before'.atomicOrderID = before.atomicOrderID + 1
        /\ before'.result = Whole!Accepted(order.id)
    BY <1>2, <1>3, ShownFieldsPrimed, WholeResults, WholeConstants
  <2>2. QED
    BY <1>4, <1>5, <1>6, <2>1 DEF Whole!AddOrderToSlot
<1>8. QED
  BY <1>3, <1>7, WholeConstants DEF Returns, Whole!Next, Whole!AddOrder, order

-----------------------------------------------------------------------------
(* cancelOrder.                                                            *)
LEMMA ShownUnmarked ==
  ASSUME bitmap = before.bitmap
  PROVE  \A side, level, queue : Unmarked(side, level, queue) = Whole!Unmarked(side, level, queue)
BY WholeBitmaps DEF Unmarked, Whole!Unmarked

LEMMA ShownForgotten ==
  ASSUME orderIdtoPriceMapping = before.orderIdtoPriceMapping
  PROVE  \A keys : Forgotten(keys) = Whole!Forgotten(keys)
BY WholeConstants DEF Forgotten, Whole!Forgotten

LEMMA CancelNothingReturns ==
  ASSUME before = Now, KeepsBefore, NEW orderId \in OrderIds, call = Idle, CancelNothing(orderId)
  PROVE  Returns
<1> DEFINE location == orderIdtoPriceMapping[Key(orderId)]
           side == location.side
           level == PriceToIndex(location.price)
           queue == priceLevel[side][level]
           found == {i \in DOMAIN queue : pool[queue[i]].id = orderId}
           rest == RemoveAt(queue, Min(found))
           wholeLocation == before.orderIdtoPriceMapping[Whole!Key(orderId)]
           wholeLevel == Whole!PriceToIndex(wholeLocation.price)
           wholeQueue == before.priceLevel[wholeLocation.side][wholeLevel]
           wholeFound == {i \in DOMAIN wholeQueue : before.pool[wholeQueue[i]].id = orderId}
           wholeRest == Whole!RemoveAt(wholeQueue, Whole!Min(wholeFound))
<1>1. CancelOrder(orderId) /\ call' = Idle /\ before' = Now'
  BY DEF CancelNothing, KeepsBefore
<1>2. /\ wholeLocation = location /\ wholeLevel = level /\ wholeQueue = queue
      /\ wholeFound = found /\ wholeRest = rest /\ Whole!Min(wholeFound) = Min(found)
  BY ShownFields, WholeNumbers, WholeSequences
<1>3. /\ \A s, l, q : Unmarked(s, l, q) = Whole!Unmarked(s, l, q)
      /\ \A keys : Forgotten(keys) = Whole!Forgotten(keys)
      /\ Whole!Key(orderId) = Key(orderId)
  BY ShownFields, ShownUnmarked, ShownForgotten, WholeNumbers
<1>4. Whole!RemoveOrderFromOrderId(orderId)
  <2>1. CASE ~location.isValid
    <3>1. UNCHANGED bookVars
      BY <1>1, <2>1 DEF CancelOrder, RemoveOrderFromOrderId
    <3>2. UNCHANGED Whole!bookVars
      BY <3>1, <1>1, ShownFields, ShownFieldsPrimed DEF bookVars, Whole!bookVars
    <3>3. QED
      BY <1>2, <2>1, <3>2 DEF Whole!RemoveOrderFromOrderId
  <2>2. CASE /\ location.isValid
             /\ orderIdtoPriceMapping' = Forgotten({Key(orderId)})
             /\ UNCHANGED pool
             /\ found = {}
             /\ UNCHANGED <<freeStack, priceLevel, bitmap>>
    <3>1. /\ before'.orderIdtoPriceMapping = Whole!Forgotten({Whole!Key(orderId)})
          /\ before'.pool = before.pool /\ before'.freeStack = before.freeStack
          /\ before'.priceLevel = before.priceLevel /\ before'.bitmap = before.bitmap
      BY <1>1, <1>3, <2>2, ShownFields, ShownFieldsPrimed
    <3>2. QED
      BY <1>2, <2>2, <3>1 DEF Whole!RemoveOrderFromOrderId
  <2>3. CASE /\ location.isValid
             /\ orderIdtoPriceMapping' = Forgotten({Key(orderId)})
             /\ UNCHANGED pool
             /\ found # {}
             /\ Released(<<queue[Min(found)]>>)
             /\ priceLevel' = [priceLevel EXCEPT ![side][level] = rest]
             /\ bitmap' = [bitmap EXCEPT ![side] = Unmarked(side, level, rest)]
    <3>1. /\ before'.orderIdtoPriceMapping = Whole!Forgotten({Whole!Key(orderId)})
          /\ before'.pool = before.pool
          /\ before'.freeStack = before.freeStack \o <<wholeQueue[Whole!Min(wholeFound)]>>
          /\ before'.priceLevel =
               [before.priceLevel EXCEPT ![wholeLocation.side][wholeLevel] = wholeRest]
          /\ before'.bitmap = [before.bitmap EXCEPT ![wholeLocation.side] =
               Whole!Unmarked(wholeLocation.side, wholeLevel, wholeRest)]
      BY <1>1, <1>2, <1>3, <2>3, ShownFields, ShownFieldsPrimed DEF Released
    <3>2. QED
      BY <1>2, <2>3, <3>1 DEF Whole!RemoveOrderFromOrderId, Whole!Released
  <2>4. QED
    BY <1>1, <2>1, <2>2, <2>3 DEF CancelOrder, RemoveOrderFromOrderId
<1>5. Whole!CancelOrder(orderId)
  BY <1>1, <1>4, ShownFields, ShownFieldsPrimed, WholeResults DEF CancelOrder, Whole!CancelOrder
<1>6. QED
  BY <1>1, <1>5, WholeConstants DEF Returns, Whole!Next

LEMMA StartCancelGoesOn ==
  ASSUME before = Now, KeepsBefore, NEW orderId \in OrderIds, StartCancel(orderId)
  PROVE  GoesOn
<1> DEFINE location == before.orderIdtoPriceMapping[Key(orderId)]
           side == location.side
           level == PriceToIndex(location.price)
           queue == before.priceLevel[side][level]
           found == {i \in DOMAIN queue : before.pool[queue[i]].id = orderId}
<1>1. /\ location.isValid /\ found # {}
      /\ call' = [step |-> "erase", id |-> orderId, side |-> side, level |-> level]
      /\ UNCHANGED <<freeStack, pool, priceLevel, bitmap, orderIdtoPriceMapping, atomicOrderID>>
  BY ShownFields DEF StartCancel, FoundAt, vars, bookVars
<1>2. before' = before
  BY <1>1 DEF KeepsBefore, Idle
<1>3. Cancelling(orderId)'
  BY <1>1, <1>2, ShownFields DEF Cancelling
<1>4. QED
  BY <1>2, <1>3 DEF GoesOn, Phase

LEMMA EraseGoesOn ==
  ASSUME Whole!OrderedBook, KeepsBefore, NEW orderId \in OrderIds, Cancelling(orderId), Erase
  PROVE  GoesOn
<1> DEFINE location == before.orderIdtoPriceMapping[Key(orderId)]
           side == location.side
           level == PriceToIndex(location.price)
           queue == before.priceLevel[side][level]
           found == {i \in DOMAIN queue : before.pool[queue[i]].id = orderId}
<1>1. /\ call = [step |-> "erase", id |-> orderId, side |-> side, level |-> level]
      /\ location.isValid /\ found # {}
      /\ freeStack = before.freeStack /\ priceLevel = before.priceLevel
      /\ pool = before.pool /\ bitmap = before.bitmap
      /\ orderIdtoPriceMapping = before.orderIdtoPriceMapping
      /\ atomicOrderID = before.atomicOrderID
  <2>1. call.step = "erase"
    BY DEF Erase
  <2>2. call # [step |-> "forget", id |-> orderId, side |-> side, level |-> level]
    BY <2>1
  <2>3. QED
    BY <2>2 DEF Cancelling
<1>2. /\ call.id = orderId /\ call.side = side /\ call.level = level
      /\ FoundAt(call.id, call.side, call.level) = found
  BY <1>1 DEF FoundAt
<1>3. /\ freeStack' = before.freeStack \o <<queue[Min(found)]>>
      /\ priceLevel' = [before.priceLevel EXCEPT ![side][level] = RemoveAt(queue, Min(found))]
      /\ call' = [step |-> "forget", id |-> orderId, side |-> side, level |-> level]
      /\ UNCHANGED <<pool, bitmap, orderIdtoPriceMapping, atomicOrderID>>
  BY <1>1, <1>2 DEF Erase, Released
<1>4. before' = before
  BY <1>3 DEF KeepsBefore, Idle
<1>5. Cancelling(orderId)'
  BY <1>1, <1>3, <1>4 DEF Cancelling
<1>6. QED
  BY <1>4, <1>5 DEF GoesOn, Phase

LEMMA ForgetReturns ==
  ASSUME Whole!OrderedBook, KeepsBefore, NEW orderId \in OrderIds, Cancelling(orderId), Forget
  PROVE  Returns
<1> DEFINE location == before.orderIdtoPriceMapping[Key(orderId)]
           side == location.side
           level == PriceToIndex(location.price)
           queue == before.priceLevel[side][level]
           found == {i \in DOMAIN queue : before.pool[queue[i]].id = orderId}
           rest == RemoveAt(queue, Min(found))
           wholeLocation == before.orderIdtoPriceMapping[Whole!Key(orderId)]
           wholeLevel == Whole!PriceToIndex(wholeLocation.price)
           wholeQueue == before.priceLevel[wholeLocation.side][wholeLevel]
           wholeFound == {i \in DOMAIN wholeQueue : before.pool[wholeQueue[i]].id = orderId}
           wholeRest == Whole!RemoveAt(wholeQueue, Whole!Min(wholeFound))
<1>1. /\ call = [step |-> "forget", id |-> orderId, side |-> side, level |-> level]
      /\ location.isValid /\ found # {}
      /\ freeStack = before.freeStack \o <<queue[Min(found)]>>
      /\ priceLevel = [before.priceLevel EXCEPT ![side][level] = rest]
      /\ pool = before.pool /\ bitmap = before.bitmap
      /\ orderIdtoPriceMapping = before.orderIdtoPriceMapping
      /\ atomicOrderID = before.atomicOrderID
  <2>1. call.step = "forget"
    BY DEF Forget
  <2>2. call # [step |-> "erase", id |-> orderId, side |-> side, level |-> level]
    BY <2>1
  <2>3. QED
    BY <2>2 DEF Cancelling
<1>2. side \in Side /\ level \in Level
  BY <1>1, WholeEntry
<1>3. priceLevel[side][level] = rest
  BY <1>1, <1>2, WholeBookTyped
<1>4. /\ bitmap' = [before.bitmap EXCEPT ![side] = Whole!Unmarked(side, level, rest)]
      /\ orderIdtoPriceMapping' = Whole!Forgotten({Key(orderId)})
      /\ result' = Cancelled(orderId) /\ call' = Idle /\ before' = Now'
      /\ UNCHANGED <<freeStack, pool, priceLevel, atomicOrderID>>
  <2>1. call.id = orderId /\ call.side = side /\ call.level = level
    BY <1>1
  <2>2. /\ bitmap' = [bitmap EXCEPT ![side] = Unmarked(side, level, rest)]
        /\ orderIdtoPriceMapping' = Forgotten({Key(orderId)})
        /\ result' = Cancelled(orderId) /\ call' = Idle /\ before' = Now'
        /\ UNCHANGED <<freeStack, pool, priceLevel, atomicOrderID>>
    <3> HIDE DEF side, level, rest
    <3> QED
      BY <1>3, <2>1 DEF Forget, Return, KeepsBefore
  <2>3. QED
    BY <1>1, <2>2, ShownUnmarked, ShownForgotten
<1>5. /\ wholeLocation = location /\ wholeLevel = level /\ wholeQueue = queue
      /\ wholeFound = found /\ wholeRest = rest /\ Whole!Min(wholeFound) = Min(found)
      /\ Whole!Key(orderId) = Key(orderId)
  BY WholeNumbers, WholeSequences
<1>6. /\ before'.orderIdtoPriceMapping = Whole!Forgotten({Whole!Key(orderId)})
      /\ before'.pool = before.pool
      /\ before'.freeStack = before.freeStack \o <<wholeQueue[Whole!Min(wholeFound)]>>
      /\ before'.priceLevel =
           [before.priceLevel EXCEPT ![wholeLocation.side][wholeLevel] = wholeRest]
      /\ before'.bitmap = [before.bitmap EXCEPT ![wholeLocation.side] =
           Whole!Unmarked(wholeLocation.side, wholeLevel, wholeRest)]
      /\ before'.atomicOrderID = before.atomicOrderID
      /\ before'.result = Whole!Cancelled(orderId)
  BY <1>1, <1>4, <1>5, ShownFieldsPrimed, WholeResults
<1>7. Whole!RemoveOrderFromOrderId(orderId)
  BY <1>1, <1>5, <1>6 DEF Whole!RemoveOrderFromOrderId, Whole!Released
<1>8. Whole!CancelOrder(orderId)
  BY <1>6, <1>7 DEF Whole!CancelOrder
<1>9. QED
  BY <1>4, <1>8, WholeConstants DEF Returns, Whole!Next

-----------------------------------------------------------------------------
(* matchLimitOrders.                                                       *)
LEMMA BeforeStays ==
  ASSUME before' = before
  PROVE  /\ MatchUnderWay' <=> MatchUnderWay
         /\ Filled' = Filled
         /\ \A side : Done(side)' = Done(side)
         /\ \A step, side : Popped(step, side)' = Popped(step, side)
         /\ \A step, side : TradingStep(step, side)' <=> TradingStep(step, side)
         /\ \A step, side : Matched(step, side)' = Matched(step, side)
         /\ \A step : Orders(step)' = Orders(step)
         /\ \A popped : StackAfter(popped)' = StackAfter(popped)
         /\ \A popped : QueuesAfter(popped)' = QueuesAfter(popped)
         /\ \A popped : BitmapAfter(popped)' = BitmapAfter(popped)
         /\ \A popped : TableAfter(popped)' = TableAfter(popped)
<1>1. \A side : Whole!FindBestLevel(side)' = Whole!FindBestLevel(side)
  BY DEF Whole!FindBestLevel
<1>2. \A side : Whole!BestOrder(side)' = Whole!BestOrder(side)
  BY <1>1 DEF Whole!BestOrder
<1>3. \A slot : Whole!Ticks(slot)' = Whole!Ticks(slot)
  BY DEF Whole!Ticks
<1>4. MatchUnderWay' <=> MatchUnderWay
  BY <1>1, <1>2, <1>3 DEF MatchUnderWay, Whole!HasBest, Whole!PricesCross
<1>5. Volume' = Volume
  BY <1>2 DEF Volume
<1>6. \A side : Reduced(side)' = Reduced(side)
  BY <1>2, <1>5 DEF Reduced, Whole!Left
<1>7. Filled' = Filled
  BY <1>6 DEF Filled
<1>8. \A side : Done(side)' = Done(side)
  BY <1>7 DEF Done
<1>9. \A step, side : Popped(step, side)' = Popped(step, side)
  BY <1>8 DEF Popped
<1>10. \A step, side : TradingStep(step, side)' <=> TradingStep(step, side)
  BY <1>7 DEF TradingStep
<1>11. \A step, side : Matched(step, side)' = Matched(step, side)
  BY <1>2, <1>3, <1>5 DEF Matched
<1>12. \A step : Orders(step)' = Orders(step)
  BY <1>2, <1>6 DEF Orders, AskReduced, BothReduced
<1>13. \A side : BestRest(side)' = BestRest(side)
  BY <1>1 DEF BestRest
<1>14. \A popped : StackAfter(popped)' = StackAfter(popped)
  BY <1>2 DEF StackAfter, BestFrom
<1>15. \A popped : QueuesAfter(popped)' = QueuesAfter(popped)
  BY <1>1, <1>13 DEF QueuesAfter
<1>16. \A popped : BitmapAfter(popped)' = BitmapAfter(popped)
  BY <1>1, <1>13 DEF BitmapAfter, Whole!Unmarked
<1>17. \A popped : TableAfter(popped)' = TableAfter(popped)
  BY <1>2 DEF TableAfter, BestKeys, Whole!Forgotten
<1>18. QED
  BY <1>4, <1>7, <1>8, <1>9, <1>10, <1>11, <1>12, <1>14, <1>15, <1>16, <1>17

(* The state of a trade that goes on.                                      *)
LEMMA TradingGoesOn ==
  ASSUME KeepsBefore, MatchUnderWay, NEW step, NEW side, TradingStep(step, side),
         call' = Matched(step, side),
         atomicOrderID' = before.atomicOrderID,
         pool' = Orders(step),
         freeStack' = StackAfter(Popped(step, side)),
         priceLevel' = QueuesAfter(Popped(step, side)),
         bitmap' = BitmapAfter(Done(side)),
         orderIdtoPriceMapping' = TableAfter(Popped(step, side))
  PROVE  GoesOn
<1>1. before' = before
  BY DEF KeepsBefore, Idle, Matched, TradingStep
<1>2. Trading(step, side)'
  BY <1>1, BeforeStays DEF Trading
<1>3. QED
  BY <1>1, <1>2 DEF GoesOn, Phase, TradingStep

LEMMA TradeNothingReturns ==
  ASSUME before = Now, KeepsBefore, call = Idle, TradeNothing
  PROVE  Returns
<1>1. MatchNothing /\ call' = Idle /\ before' = Now'
  BY DEF TradeNothing, KeepsBefore
<1>2. Whole!MatchNothing
  BY <1>1, ShownBest, ShownFields, ShownFieldsPrimed, WholeConstants
  DEF MatchNothing, Whole!MatchNothing, bookVars, Whole!bookVars
<1>3. QED
  BY <1>1, <1>2 DEF Returns, Whole!Next, Whole!MatchLimitOrders

(* Nothing is removed yet.                                                 *)
LEMMA NothingRemoved ==
  ASSUME Whole!OrderedBook
  PROVE  /\ StackAfter({}) = before.freeStack
         /\ QueuesAfter({}) = before.priceLevel
         /\ BitmapAfter({}) = before.bitmap
         /\ TableAfter({}) = before.orderIdtoPriceMapping
<1>1. StackAfter({}) = before.freeStack
  <2>1. before.freeStack \in Seq(Slot)
    BY WholeBookTyped
  <2>2. StackAfter({}) = before.freeStack \o (<<>> \o <<>>)
    BY DEF StackAfter, BestFrom
  <2>3. QED
    BY <2>1, <2>2
<1>2. QueuesAfter({}) = before.priceLevel
  BY WholeBookTyped DEF QueuesAfter
<1>3. BitmapAfter({}) = before.bitmap
  BY WholeBookTyped DEF BitmapAfter
<1>4. TableAfter({}) = before.orderIdtoPriceMapping
  BY WholeBookTyped, WholeConstants DEF TableAfter, BestKeys, Whole!Forgotten
<1>5. QED
  BY <1>1, <1>2, <1>3, <1>4

LEMMA ReduceAskGoesOn ==
  ASSUME Whole!OrderedBook, before = Now, KeepsBefore, ReduceAsk
  PROVE  GoesOn
<1>1. /\ MatchUnderWay
      /\ \A side : BestOrder(side) = Whole!BestOrder(side)
      /\ \A slot : Ticks(slot) = Whole!Ticks(slot)
      /\ \A side, volume : Left(side, volume) = Whole!Left(side, volume)
  BY ShownBest DEF ReduceAsk, MatchUnderWay
<1> DEFINE order == [side \in Side |-> BestOrder(side)]
           volume == TradeVolume(pool[order[Ask]].volume, pool[order[Bid]].volume)
<1>2. order[Ask] = Whole!BestOrder(Ask) /\ order[Bid] = Whole!BestOrder(Bid)
  BY <1>1 DEF Side
<1>3. volume = Volume
  BY <1>2, ShownFields, WholeNumbers DEF Volume
<1>4. order = [side \in Side |-> Whole!BestOrder(side)]
  BY <1>1
<1>5. /\ pool' = [pool EXCEPT ![order[Ask]].volume = Left(Ask, volume)]
      /\ call' = [step |-> "reduceBid", side |-> Ask, order |-> order,
                  volume |-> volume, price |-> ToU64(Ticks(order[Ask]))]
      /\ UNCHANGED <<freeStack, priceLevel, bitmap, orderIdtoPriceMapping, atomicOrderID>>
  BY DEF ReduceAsk
<1> HIDE DEF order, volume
<1>6. pool' = Orders("reduceBid")
  BY <1>1, <1>2, <1>3, <1>5, ShownFields DEF Orders, AskReduced, Reduced
<1>7. call' = Matched("reduceBid", Ask)
  BY <1>1, <1>2, <1>3, <1>4, <1>5 DEF Matched
<1>8. Done(Ask) = {} /\ Popped("reduceBid", Ask) = {} /\ TradingStep("reduceBid", Ask)
  BY DEF Done, Popped, Earlier, Ask, Bid, TradingStep, Side
<1>9. QED
  BY <1>1, <1>5, <1>6, <1>7, <1>8, NothingRemoved, ShownFields, TradingGoesOn

LEMMA SideReplaced ==
  ASSUME NEW step, NEW side, NEW order, NEW volume, NEW price, NEW other
  PROVE  [[step |-> step, side |-> side, order |-> order, volume |-> volume, price |-> price]
             EXCEPT !.side = other] =
           [step |-> step, side |-> other, order |-> order, volume |-> volume, price |-> price]
OBVIOUS

(* What the call remembers, and the matched orders in the pool.            *)
LEMMA TradingFacts ==
  ASSUME Whole!OrderedBook, NEW step, NEW side, Trading(step, side)
  PROVE  /\ call.step = step /\ call.side = side /\ call.volume = Volume
         /\ call.order[Bid] = Whole!BestOrder(Bid) /\ call.order[Ask] = Whole!BestOrder(Ask)
         /\ call.order[side] = Whole!BestOrder(side)
         /\ call.price = ToU64(Whole!Ticks(Whole!BestOrder(Ask)))
         /\ \A x, y : [call EXCEPT !.step = x] = Matched(x, side)
                      /\ [call EXCEPT !.step = x, !.side = y] = Matched(x, y)
<1> DEFINE order == [s \in Side |-> Whole!BestOrder(s)]
           price == ToU64(Whole!Ticks(Whole!BestOrder(Ask)))
<1>1. /\ call = [step |-> step, side |-> side, order |-> order, volume |-> Volume, price |-> price]
      /\ \A x, y : Matched(x, y) =
           [step |-> x, side |-> y, order |-> order, volume |-> Volume, price |-> price]
      /\ side \in Side
  BY DEF Trading, Matched, TradingStep
<1>2. \A s \in Side : order[s] = Whole!BestOrder(s)
  OBVIOUS
<1>3. Bid \in Side /\ Ask \in Side
  BY DEF Side
<1> HIDE DEF order, price
<1>4. /\ call.step = step /\ call.side = side /\ call.volume = Volume
      /\ call.order = order /\ call.price = price
  BY <1>1
<1>5. ASSUME NEW x, NEW y
      PROVE  /\ [call EXCEPT !.step = x] = Matched(x, side)
             /\ [call EXCEPT !.step = x, !.side = y] = Matched(x, y)
  <2>1. Matched(x, side) =
          [step |-> x, side |-> side, order |-> order, volume |-> Volume, price |-> price]
    BY <1>1
  <2>2. Matched(x, y) =
          [step |-> x, side |-> y, order |-> order, volume |-> Volume, price |-> price]
    BY <1>1
  <2>3. [call EXCEPT !.step = x] = Matched(x, side)
    BY <1>1, <2>1
  <2>4. [call EXCEPT !.step = x, !.side = y] = Matched(x, y)
    <3>1. [[call EXCEPT !.step = x] EXCEPT !.side = y] = Matched(x, y)
      <4>1. [[step |-> x, side |-> side, order |-> order, volume |-> Volume, price |-> price]
                EXCEPT !.side = y] =
              [step |-> x, side |-> y, order |-> order, volume |-> Volume, price |-> price]
        BY SideReplaced
      <4>2. [call EXCEPT !.step = x] =
              [step |-> x, side |-> side, order |-> order, volume |-> Volume, price |-> price]
        BY <2>1, <2>3
      <4>3. QED
        BY <2>2, <4>1, <4>2, Zenon
    <3>2. [call EXCEPT !.step = x, !.side = y] = [[call EXCEPT !.step = x] EXCEPT !.side = y]
      BY Zenon
    <3>3. QED
      BY <3>1, <3>2
  <2>5. QED
    BY <2>3, <2>4
<1>6. QED
  BY <1>1, <1>2, <1>3, <1>4, <1>5 DEF price

LEMMA MatchedOrders ==
  ASSUME Whole!OrderedBook, MatchUnderWay
  PROVE  /\ Whole!BestOrder(Bid) # Whole!BestOrder(Ask)
         /\ \A side \in Side : Whole!FindBestLevel(side) \in Level /\ Whole!BestOrder(side) \in Slot
<1>1. Whole!BestOrder(Whole!Bid) # Whole!BestOrder(Whole!Ask)
      /\ \A side \in Whole!Side :
           Whole!FindBestLevel(side) \in Whole!Level /\ Whole!BestOrder(side) \in Whole!Slot
  BY WholeConstants, Whole!BestOrdersApart, MachineIntegersAssumption, LevelBitmapAssumption,
     OrderBookAssumption, MatchingEngineAssumption DEF MatchUnderWay, Whole!U64, U64
<1>2. QED
  BY <1>1, WholeConstants

(* The volume of the bid, before it is reduced, is the one it came with.   *)
LEMMA ReduceBidGoesOn ==
  ASSUME Whole!OrderedBook, KeepsBefore, NEW step, NEW side, Trading(step, side), ReduceBid
  PROVE  GoesOn
<1> DEFINE bid == Whole!BestOrder(Bid)
           ask == Whole!BestOrder(Ask)
<1>1. /\ step = "reduceBid" /\ side = Ask /\ MatchUnderWay
      /\ atomicOrderID = before.atomicOrderID
      /\ freeStack = StackAfter(Popped(step, side))
      /\ priceLevel = QueuesAfter(Popped(step, side))
      /\ bitmap = BitmapAfter(Done(side))
      /\ orderIdtoPriceMapping = TableAfter(Popped(step, side))
      /\ pool = [before.pool EXCEPT ![ask].volume = Reduced(Ask)]
  BY TradingFacts DEF Trading, TradingStep, ReduceBid, Orders, AskReduced
<1>2. /\ pool' = [pool EXCEPT ![bid].volume = ReduceVolume(@, Volume)]
      /\ call' = Matched("remove", Ask)
      /\ UNCHANGED <<freeStack, priceLevel, bitmap, orderIdtoPriceMapping, atomicOrderID>>
  BY <1>1, TradingFacts DEF ReduceBid
<1>3. bid \in Slot /\ ask \in Slot /\ bid # ask
  BY <1>1, MatchedOrders DEF Side
<1>4. Reduced(Bid) = ReduceVolume(before.pool[bid].volume, Volume)
  BY WholeNumbers DEF Reduced, Whole!Left
<1>5. before.pool \in [Slot -> Order]
  BY WholeBookTyped
<1>6. pool' = Orders("remove")
  <2> HIDE DEF bid, ask
  <2>1. pool[bid] = before.pool[bid]
    BY <1>1, <1>3, <1>5
  <2>2. pool' = [before.pool EXCEPT ![bid].volume = Reduced(Bid), ![ask].volume = Reduced(Ask)]
    BY <1>1, <1>2, <1>3, <1>4, <1>5, <2>1
  <2>3. QED
    BY <2>2 DEF Orders, BothReduced, bid, ask
<1>7. Popped("remove", Ask) = Popped(step, side) /\ TradingStep("remove", Ask)
  BY <1>1 DEF Popped, TradingStep, Side
<1>8. QED
  BY <1>1, <1>2, <1>6, <1>7, TradingGoesOn

(* After the reductions an order reads 0 exactly when the trade fills it.  *)
LEMMA ReducedVolumes ==
  ASSUME Whole!OrderedBook, MatchUnderWay, pool = BothReduced, NEW side \in Side
  PROVE  /\ pool[Whole!BestOrder(side)].volume = Reduced(side)
         /\ pool[Whole!BestOrder(side)].id = before.pool[Whole!BestOrder(side)].id
         /\ side \in Filled <=> GetVolume(pool[Whole!BestOrder(side)].volume) = 0
<1> DEFINE bid == Whole!BestOrder(Bid)
           ask == Whole!BestOrder(Ask)
<1>1. bid \in Slot /\ ask \in Slot /\ bid # ask
  BY MatchedOrders DEF Side
<1>2. before.pool \in [Slot -> Order]
  BY WholeBookTyped
<1>3. pool = [before.pool EXCEPT ![bid].volume = Reduced(Bid), ![ask].volume = Reduced(Ask)]
  BY DEF BothReduced
<1> HIDE DEF bid, ask
<1>4. pool[bid] = [before.pool[bid] EXCEPT !.volume = Reduced(Bid)]
  BY <1>1, <1>2, <1>3
<1>5. pool[ask] = [before.pool[ask] EXCEPT !.volume = Reduced(Ask)]
  BY <1>1, <1>2, <1>3
<1>6. before.pool[bid] \in Order /\ before.pool[ask] \in Order
  BY <1>1, <1>2
<1>7. /\ pool[bid].volume = Reduced(Bid) /\ pool[ask].volume = Reduced(Ask)
      /\ pool[bid].id = before.pool[bid].id /\ pool[ask].id = before.pool[ask].id
  BY <1>4, <1>5, <1>6 DEF Order
<1>8. /\ pool[Whole!BestOrder(side)].volume = Reduced(side)
      /\ pool[Whole!BestOrder(side)].id = before.pool[Whole!BestOrder(side)].id
  BY <1>7 DEF Side, bid, ask
<1>9. QED
  BY <1>8 DEF Filled

(* When both sides are done the call returns what matchLimitOrders returns.*)
LEMMA TradeReturns ==
  ASSUME MatchUnderWay, before' = Now',
         pool' = BothReduced,
         atomicOrderID' = before.atomicOrderID,
         freeStack' = StackAfter(Filled),
         priceLevel' = QueuesAfter(Filled),
         bitmap' = BitmapAfter(Filled),
         orderIdtoPriceMapping' = TableAfter(Filled),
         result' = Trade(Whole!BestOrder(Bid), Whole!BestOrder(Ask), Volume,
                         ToU64(Whole!Ticks(Whole!BestOrder(Ask))))
  PROVE  Whole!MatchBest
<1> DEFINE bid == Whole!BestOrder(Whole!Bid)
           ask == Whole!BestOrder(Whole!Ask)
           volume == Whole!TradeVolume(before.pool[ask].volume, before.pool[bid].volume)
           filled == {side \in Whole!Side : Whole!GetVolume(Whole!Left(side, volume)) = 0}
<1>1. bid = Whole!BestOrder(Bid) /\ ask = Whole!BestOrder(Ask)
  BY WholeConstants
<1>2. volume = Volume
  BY <1>1 DEF Volume
<1>3. filled = Filled
  BY <1>2, WholeConstants, WholeNumbers DEF Filled, Reduced
<1>4. Whole!RemoveBest(Filled)
  <2>1. before'.freeStack = StackAfter(Filled)
    BY ShownFieldsPrimed
  <2>2. before'.priceLevel = QueuesAfter(Filled)
    BY ShownFieldsPrimed
  <2>3. before'.bitmap = BitmapAfter(Filled)
    BY ShownFieldsPrimed
  <2>4. before'.orderIdtoPriceMapping = TableAfter(Filled)
    BY ShownFieldsPrimed
  <2>5. BestKeys(Filled) =
          {Whole!Key(before.pool[Whole!BestOrder(side)].id) : side \in Filled}
    BY WholeNumbers DEF BestKeys
  <2>6. QED
    BY <2>1, <2>2, <2>3, <2>4, <2>5, WholeConstants
    DEF Whole!RemoveBest, Whole!Released, StackAfter, BestFrom, QueuesAfter, BitmapAfter,
        TableAfter, BestRest
<1>5. before'.pool = [before.pool EXCEPT ![bid].volume = Whole!Left(Whole!Bid, volume),
                                         ![ask].volume = Whole!Left(Whole!Ask, volume)]
  BY <1>1, <1>2, WholeConstants, ShownFieldsPrimed DEF BothReduced, Reduced
<1>6. /\ before'.result = Whole!Trade(bid, ask, volume, Whole!ToU64(Whole!Ticks(ask)))
      /\ before'.atomicOrderID = before.atomicOrderID
  BY <1>1, <1>2, WholeNumbers, WholeResults, ShownFieldsPrimed
<1>7. Whole!HasBest(Whole!Ask) /\ Whole!HasBest(Whole!Bid) /\ Whole!PricesCross
  BY WholeConstants DEF MatchUnderWay
<1>8. Whole!RemoveBest(filled)
  BY <1>3, <1>4
<1>9. QED
  BY <1>5, <1>6, <1>7, <1>8 DEF Whole!MatchBest

(* A side is done: the other one follows, or the call returns.             *)
LEMMA SideDone ==
  ASSUME Whole!OrderedBook, KeepsBefore, NEW step, NEW side, Trading(step, side),
         step # "reduceBid", NextSide,
         UNCHANGED <<pool, atomicOrderID>>,
         NEW removed, removed = Filled \intersect (Earlier(side) \union {side}),
         freeStack' = StackAfter(removed),
         priceLevel' = QueuesAfter(removed),
         bitmap' = BitmapAfter(removed),
         orderIdtoPriceMapping' = TableAfter(removed)
  PROVE  GoesOn \/ Returns
<1>1. /\ MatchUnderWay /\ side \in Side /\ call = Matched(step, side)
      /\ pool = BothReduced /\ atomicOrderID = before.atomicOrderID
  BY DEF Trading, TradingStep, Orders
<1>2. CASE side = Ask
  <2>1. call' = Matched("remove", Bid)
    <3>1. call.side = Ask /\ Ask # Bid
      BY <1>2, TradingFacts DEF Bid, Ask
    <3>2. call' = [call EXCEPT !.step = "remove", !.side = Bid]
      BY <3>1 DEF NextSide
    <3>3. QED
      BY <3>2, TradingFacts
  <2>2. Done(Bid) = removed /\ Popped("remove", Bid) = removed /\ TradingStep("remove", Bid)
    BY <1>2 DEF Done, Popped, Earlier, Ask, Bid, TradingStep, Side
  <2>3. pool' = Orders("remove") /\ atomicOrderID' = before.atomicOrderID
    BY <1>1 DEF Orders
  <2>4. GoesOn
    BY <1>1, <2>1, <2>2, <2>3, TradingGoesOn
  <2>5. QED
    BY <2>4
<1>3. CASE side = Bid
  <2>1. Return(Trade(Whole!BestOrder(Bid), Whole!BestOrder(Ask), Volume,
                     ToU64(Whole!Ticks(Whole!BestOrder(Ask)))))
    BY <1>3, TradingFacts DEF NextSide, Bid, Ask
  <2>2. before' = Now' /\ call' = Idle
    BY <2>1 DEF Return, KeepsBefore
  <2>3. removed = Filled
    BY <1>3 DEF Earlier, Filled, Side
  <2>4. Whole!MatchBest
    BY <1>1, <2>1, <2>2, <2>3, TradeReturns DEF Return
  <2>5. QED
    BY <2>2, <2>4 DEF Returns, Whole!Next, Whole!MatchLimitOrders
<1>4. QED
  BY <1>1, <1>2, <1>3 DEF Side

LEMMA KeepUnfilledStep ==
  ASSUME Whole!OrderedBook, KeepsBefore, NEW step, NEW side, Trading(step, side),
         KeepUnfilled(side)
  PROVE  GoesOn \/ Returns
<1>1. /\ step = "remove" /\ MatchUnderWay /\ side \in Side /\ pool = BothReduced
      /\ freeStack = StackAfter(Done(side)) /\ priceLevel = QueuesAfter(Done(side))
      /\ bitmap = BitmapAfter(Done(side)) /\ orderIdtoPriceMapping = TableAfter(Done(side))
  BY TradingFacts DEF Trading, TradingStep, KeepUnfilled, Popped, Orders
<1>2. /\ GetVolume(pool[Whole!BestOrder(side)].volume) # 0
      /\ NextSide
      /\ UNCHANGED <<freeStack, pool, priceLevel, bitmap, orderIdtoPriceMapping, atomicOrderID>>
  BY TradingFacts DEF KeepUnfilled, bookVars
<1>3. side \notin Filled
  BY <1>1, <1>2, ReducedVolumes
<1>4. Done(side) = Filled \intersect (Earlier(side) \union {side})
  BY <1>3 DEF Done
<1>5. QED
  BY <1>1, <1>2, <1>4, SideDone

(* A side that is not done has the bitmap it came with, and so the search  *)
(* of removeAsk and removeBid finds the level that was matched.            *)
LEMMA SameLevel ==
  ASSUME Whole!OrderedBook, NEW step, NEW side, Trading(step, side)
  PROVE  /\ bitmap[side] = before.bitmap[side]
         /\ FindBestLevel(side) = Whole!FindBestLevel(side)
<1>1. /\ side \in Side /\ bitmap = BitmapAfter(Done(side))
      /\ side \notin Done(side)
  BY DEF Trading, TradingStep, Done, Earlier, Bid, Ask
<1>2. bitmap[side] = before.bitmap[side]
  BY <1>1 DEF BitmapAfter
<1>3. FindBestLevel(side) = Whole!FindBestLevel(side)
  BY <1>1, <1>2, WholeConstants, WholeBitmaps DEF FindBestLevel, Whole!FindBestLevel, Side
<1>4. QED
  BY <1>2, <1>3

(* The first order of a side's best level leaves the book.                 *)
LEMMA PopBest ==
  ASSUME Whole!OrderedBook, MatchUnderWay, NEW side \in Side
  PROVE  /\ StackAfter(Done(side) \union {side}) =
              StackAfter(Done(side)) \o <<Whole!BestOrder(side)>>
         /\ QueuesAfter(Done(side) \union {side}) =
              [QueuesAfter(Done(side)) EXCEPT ![side][Whole!FindBestLevel(side)] = Tail(@)]
         /\ \A key \in Slot : TableAfter(Done(side) \union {side})[key] =
              IF key = Key(before.pool[Whole!BestOrder(side)].id)
              THEN NoLocation ELSE TableAfter(Done(side))[key]
         /\ TableAfter(Done(side) \union {side}) =
              [key \in Slot |-> TableAfter(Done(side) \union {side})[key]]
<1> DEFINE best == Whole!BestOrder(side)
           done == Done(side)
           level == Whole!FindBestLevel(side)
<1>1. side \notin done /\ Bid # Ask /\ done \subseteq {Ask} /\ (side = Ask => done = {})
  BY DEF Done, Earlier, Bid, Ask, Side
<1>2. StackAfter(done \union {side}) = StackAfter(done) \o <<best>>
  <2>1. before.freeStack \in Seq(Slot)
    BY WholeBookTyped
  <2>2. best \in Slot /\ Whole!BestOrder(Ask) \in Slot
    BY MatchedOrders DEF Side
  <2>3. CASE side = Ask
    <3>1. StackAfter(done) = before.freeStack \o (<<>> \o <<>>)
      BY <1>1, <2>3 DEF StackAfter, BestFrom
    <3>2. StackAfter(done \union {side}) = before.freeStack \o (<<best>> \o <<>>)
      BY <1>1, <2>3 DEF StackAfter, BestFrom
    <3> HIDE DEF best
    <3>3. <<>> \o <<>> = <<>> /\ before.freeStack \o <<>> = before.freeStack
      BY <2>1
    <3>4. <<best>> \o <<>> = <<best>>
      BY <2>2
    <3>5. QED
      BY <3>1, <3>2, <3>3, <3>4
  <2>4. CASE side = Bid
    <3> DEFINE asks == BestFrom(Ask, done)
    <3>1. StackAfter(done) = before.freeStack \o (asks \o <<>>)
      BY <1>1, <2>4 DEF StackAfter, BestFrom
    <3>2. StackAfter(done \union {side}) = before.freeStack \o (asks \o <<best>>)
      BY <1>1, <2>4 DEF StackAfter, BestFrom
    <3>3. asks \in Seq(Slot)
      BY <2>2 DEF BestFrom
    <3> HIDE DEF best, asks
    <3>4. asks \o <<>> = asks
      BY <3>3
    <3>5. before.freeStack \o (asks \o <<best>>) = (before.freeStack \o asks) \o <<best>>
      <4> DEFINE last == <<best>>
      <4>1. last \in Seq(Slot)
        BY <2>2
      <4> HIDE DEF last
      <4> DEFINE first == before.freeStack
      <4>2. first \in Seq(Slot)
        BY <2>1
      <4> HIDE DEF first, done, level
      <4>3. first \o (asks \o last) = (first \o asks) \o last
        BY <3>3, <4>1, <4>2, ConcatAssociative
      <4>4. QED
        BY <4>3 DEF first, last
    <3>6. QED
      BY <3>1, <3>2, <3>4, <3>5
  <2>5. QED
    BY <2>3, <2>4 DEF Side
<1>3. QueuesAfter(done \union {side}) = [QueuesAfter(done) EXCEPT ![side][level] = Tail(@)]
  <2>1. QueuesAfter(done)[side] = before.priceLevel[side]
    BY <1>1 DEF QueuesAfter
  <2>2. \A s \in Side : s # side => QueuesAfter(done \union {side})[s] = QueuesAfter(done)[s]
    BY DEF QueuesAfter
  <2>3. QueuesAfter(done \union {side})[side] = [before.priceLevel[side] EXCEPT ![level] = Tail(@)]
    BY DEF QueuesAfter, BestRest
  <2>4. /\ QueuesAfter(done) = [s \in Side |-> QueuesAfter(done)[s]]
        /\ QueuesAfter(done \union {side}) = [s \in Side |-> QueuesAfter(done \union {side})[s]]
    BY DEF QueuesAfter
  <2> HIDE DEF done, level
  <2>5. QED
    BY <2>1, <2>2, <2>3, <2>4
<1>4. \A key \in Slot : TableAfter(done \union {side})[key] =
        IF key = Key(before.pool[best].id) THEN NoLocation ELSE TableAfter(done)[key]
  <2>1. BestKeys(done \union {side}) = BestKeys(done) \union {Key(before.pool[best].id)}
    BY DEF BestKeys
  <2>2. QED
    BY <2>1, WholeConstants DEF TableAfter, Whole!Forgotten
<1>5. TableAfter(done \union {side}) =
        [key \in Slot |-> TableAfter(done \union {side})[key]]
  BY WholeConstants DEF TableAfter, Whole!Forgotten
<1>6. QED
  BY <1>2, <1>3, <1>4, <1>5

LEMMA PopFilledGoesOn ==
  ASSUME Whole!OrderedBook, KeepsBefore, NEW step, NEW side, Trading(step, side),
         PopFilled(side)
  PROVE  GoesOn
<1> DEFINE best == Whole!BestOrder(side)
           level == Whole!FindBestLevel(side)
<1>1. /\ step = "remove" /\ MatchUnderWay /\ side \in Side /\ pool = BothReduced
      /\ freeStack = StackAfter(Done(side)) /\ priceLevel = QueuesAfter(Done(side))
      /\ bitmap = BitmapAfter(Done(side)) /\ orderIdtoPriceMapping = TableAfter(Done(side))
      /\ atomicOrderID = before.atomicOrderID
  BY TradingFacts DEF Trading, TradingStep, PopFilled, Popped, Orders
<1>2. /\ call.order[side] = best
      /\ FindBestLevel(side) = level
      /\ [call EXCEPT !.step = "unmark"] = Matched("unmark", side)
  BY TradingFacts, SameLevel
<1>3. /\ GetVolume(pool[best].volume) = 0
      /\ priceLevel' = [priceLevel EXCEPT ![side][level] = Tail(@)]
      /\ freeStack' = freeStack \o <<best>>
      /\ orderIdtoPriceMapping' = Forgotten({Key(pool[best].id)})
      /\ call' = Matched("unmark", side)
      /\ UNCHANGED <<pool, bitmap, atomicOrderID>>
  <2> HIDE DEF best, level
  <2> QED
    BY <1>2 DEF PopFilled, Released
<1>4. side \in Filled /\ pool[best].id = before.pool[best].id
  BY <1>1, <1>3, ReducedVolumes
<1>5. orderIdtoPriceMapping' = TableAfter(Done(side) \union {side})
  <2>1. orderIdtoPriceMapping' =
          [key \in Slot |-> IF key = Key(before.pool[best].id)
                            THEN NoLocation ELSE TableAfter(Done(side))[key]]
    BY <1>1, <1>3, <1>4 DEF Forgotten
  <2>2. QED
    BY <1>1, <2>1, PopBest
<1>6. /\ freeStack' = StackAfter(Done(side) \union {side})
      /\ priceLevel' = QueuesAfter(Done(side) \union {side})
  BY <1>1, <1>3, PopBest
<1>7. /\ Popped("unmark", side) = Done(side) \union {side}
      /\ TradingStep("unmark", side)
      /\ pool' = Orders("unmark")
  BY <1>1, <1>3, <1>4 DEF Popped, TradingStep, Orders
<1>8. QED
  BY <1>1, <1>3, <1>5, <1>6, <1>7, TradingGoesOn

LEMMA UnmarkEmptiedStep ==
  ASSUME Whole!OrderedBook, KeepsBefore, NEW step, NEW side, Trading(step, side),
         UnmarkEmptied
  PROVE  GoesOn \/ Returns
<1> DEFINE level == Whole!FindBestLevel(side)
           done == Done(side)
<1>1. /\ step = "unmark" /\ call.side = side /\ MatchUnderWay /\ side \in Side
      /\ side \in Filled
      /\ freeStack = StackAfter(done \union {side}) /\ priceLevel = QueuesAfter(done \union {side})
      /\ bitmap = BitmapAfter(done) /\ orderIdtoPriceMapping = TableAfter(done \union {side})
  BY TradingFacts DEF Trading, TradingStep, UnmarkEmptied, Popped
<1>2. FindBestLevel(side) = level /\ bitmap[side] = before.bitmap[side] /\ level \in Level
  BY <1>1, SameLevel, MatchedOrders
<1>3. priceLevel[side][level] = BestRest(side)
  <2>1. priceLevel[side] = [before.priceLevel[side] EXCEPT ![level] = BestRest(side)]
    BY <1>1 DEF QueuesAfter
  <2>2. before.priceLevel[side] \in [Level -> Seq(Slot)]
    BY <1>1, WholeBookTyped
  <2> HIDE DEF level
  <2>3. QED
    BY <1>2, <2>1, <2>2
<1>4. /\ bitmap' = [bitmap EXCEPT ![side] = Unmarked(side, level, BestRest(side))]
      /\ NextSide
      /\ UNCHANGED <<freeStack, pool, priceLevel, orderIdtoPriceMapping, atomicOrderID>>
  <2> HIDE DEF level
  <2> QED
    BY <1>1, <1>2, <1>3 DEF UnmarkEmptied
<1>5. Unmarked(side, level, BestRest(side)) = Whole!Unmarked(side, level, BestRest(side))
  BY <1>2, WholeBitmaps DEF Unmarked, Whole!Unmarked
<1>6. bitmap' = BitmapAfter(done \union {side})
  <2>1. BitmapAfter(done \union {side})[side] = Whole!Unmarked(side, level, BestRest(side))
    BY <1>1 DEF BitmapAfter
  <2>2. \A s \in Side : s # side => BitmapAfter(done \union {side})[s] = BitmapAfter(done)[s]
    BY DEF BitmapAfter
  <2>3. /\ BitmapAfter(done) = [s \in Side |-> BitmapAfter(done)[s]]
        /\ BitmapAfter(done \union {side}) = [s \in Side |-> BitmapAfter(done \union {side})[s]]
    BY DEF BitmapAfter
  <2> HIDE DEF level, done
  <2>4. QED
    BY <1>1, <1>4, <1>5, <2>1, <2>2, <2>3
<1>7. done \union {side} = Filled \intersect (Earlier(side) \union {side})
  BY <1>1 DEF Done
<1>8. step # "reduceBid"
  BY <1>1
<1>9. QED
  BY <1>1, <1>4, <1>6, <1>7, <1>8, SideDone

-----------------------------------------------------------------------------
(* Every step.                                                             *)
LEMMA IdleStep ==
  ASSUME Whole!OrderedBook, call = Idle, before = Now, AtomicityNext
  PROVE  GoesOn \/ Returns
<1>1. KeepsBefore
  BY DEF AtomicityNext, KeepsBefore
<1>2. CallHandler \/ CallMatch
  <2>1. call.step = "idle"
    BY DEF Idle
  <2>2. ~ContinueHandler /\ ~ContinueMatch
    BY <2>1 DEF ContinueHandler, ContinueMatch, Enqueue, Mark, Erase, Forget, ReduceBid,
                KeepUnfilled, PopFilled, UnmarkEmptied
  <2>3. QED
    BY <2>2 DEF AtomicityNext, StepNext
<1>3. CASE CallMatch
  BY <1>1, <1>3, TradeNothingReturns, ReduceAskGoesOn DEF CallMatch
<1>4. CASE CallHandler
  <2>1. CASE \E side \in Side, volume \in Volumes, price \in Prices :
               AddNothing \/ StartAdd(NewOrder(side, volume, price))
    BY <1>1, <2>1, AddNothingReturns, StartAddGoesOn
  <2>2. CASE \E orderId \in OrderIds : CancelNothing(orderId) \/ StartCancel(orderId)
    BY <1>1, <2>2, CancelNothingReturns, StartCancelGoesOn
  <2>3. QED
    BY <1>4, <2>1, <2>2 DEF CallHandler
<1>5. QED
  BY <1>2, <1>3, <1>4

LEMMA AddingStep ==
  ASSUME Whole!OrderedBook, NEW side \in Side, NEW volume \in Volumes,
         NEW price \in Prices, NEW slot \in Slot, Adding(side, volume, price, slot), AtomicityNext
  PROVE  GoesOn \/ Returns
<1>1. KeepsBefore
  BY DEF AtomicityNext, KeepsBefore
<1>2. call.step \in {"enqueue", "mark"}
  BY DEF Adding
<1>3. Enqueue \/ Mark
  <2>1. ~CallHandler /\ ~CallMatch
    BY <1>2 DEF CallHandler, CallMatch, Idle
  <2>2. ~Erase /\ ~Forget /\ ~ContinueMatch
    BY <1>2 DEF ContinueMatch, Erase, Forget, ReduceBid, KeepUnfilled, PopFilled, UnmarkEmptied
  <2>3. QED
    BY <2>1, <2>2 DEF AtomicityNext, StepNext, ContinueHandler
<1>4. QED
  BY <1>1, <1>3, EnqueueStep, MarkStep

LEMMA CancellingStep ==
  ASSUME Whole!OrderedBook, NEW orderId \in OrderIds, Cancelling(orderId), AtomicityNext
  PROVE  GoesOn \/ Returns
<1>1. KeepsBefore
  BY DEF AtomicityNext, KeepsBefore
<1>2. call.step \in {"erase", "forget"}
  <2> DEFINE location == before.orderIdtoPriceMapping[Key(orderId)]
             side == location.side
             level == PriceToIndex(location.price)
  <2>1. \/ call = [step |-> "erase", id |-> orderId, side |-> side, level |-> level]
        \/ call = [step |-> "forget", id |-> orderId, side |-> side, level |-> level]
    BY DEF Cancelling
  <2> HIDE DEF side, level
  <2>2. QED
    BY <2>1
<1>3. Erase \/ Forget
  <2>1. ~CallHandler /\ ~CallMatch
    BY <1>2 DEF CallHandler, CallMatch, Idle
  <2>2. ~Enqueue /\ ~Mark /\ ~ContinueMatch
    BY <1>2 DEF ContinueMatch, Enqueue, Mark, ReduceBid, KeepUnfilled, PopFilled, UnmarkEmptied
  <2>3. QED
    BY <2>1, <2>2 DEF AtomicityNext, StepNext, ContinueHandler
<1>4. QED
  BY <1>1, <1>3, EraseGoesOn, ForgetReturns

LEMMA TradingStepTaken ==
  ASSUME Whole!OrderedBook, NEW step, NEW side, Trading(step, side), AtomicityNext
  PROVE  GoesOn \/ Returns
<1>1. KeepsBefore
  BY DEF AtomicityNext, KeepsBefore
<1>2. call.step = step /\ call.side = side /\ step \in {"reduceBid", "remove", "unmark"}
  BY TradingFacts DEF Trading, TradingStep
<1>3. ContinueMatch
  <2>1. ~CallHandler /\ ~CallMatch
    BY <1>2 DEF CallHandler, CallMatch, Idle
  <2>2. ~ContinueHandler
    BY <1>2 DEF ContinueHandler, Enqueue, Mark, Erase, Forget
  <2>3. QED
    BY <2>1, <2>2 DEF AtomicityNext, StepNext
<1>4. \A other : KeepUnfilled(other) \/ PopFilled(other) => other = side
  BY <1>2 DEF KeepUnfilled, PopFilled
<1>5. QED
  BY <1>1, <1>3, <1>4, ReduceBidGoesOn, KeepUnfilledStep, PopFilledGoesOn, UnmarkEmptiedStep
  DEF ContinueMatch

LEMMA StutterKeepsPhase ==
  ASSUME Phase, UNCHANGED <<stepVars, before>>
  PROVE  Phase'
<1>1. /\ before' = before /\ call' = call
      /\ freeStack' = freeStack /\ pool' = pool /\ priceLevel' = priceLevel
      /\ bitmap' = bitmap /\ orderIdtoPriceMapping' = orderIdtoPriceMapping
      /\ atomicOrderID' = atomicOrderID
  BY DEF stepVars, vars, bookVars
<1>2. \A side, volume, price, slot :
        Adding(side, volume, price, slot) => Adding(side, volume, price, slot)'
  BY <1>1 DEF Adding, Whole!NewOrder
<1>3. ASSUME NEW orderId, Cancelling(orderId)
      PROVE  Cancelling(orderId)'
  <2> DEFINE location == before.orderIdtoPriceMapping[Key(orderId)]
             side == location.side
             level == PriceToIndex(location.price)
             queue == before.priceLevel[side][level]
             found == {i \in DOMAIN queue : before.pool[queue[i]].id = orderId}
  <2>1. /\ orderId \in OrderIds /\ location.isValid /\ found # {}
        /\ pool' = before.pool /\ bitmap' = before.bitmap
        /\ orderIdtoPriceMapping' = before.orderIdtoPriceMapping
        /\ atomicOrderID' = before.atomicOrderID
    BY <1>1, <1>3 DEF Cancelling
  <2>2. \/ /\ call = [step |-> "erase", id |-> orderId, side |-> side, level |-> level]
           /\ freeStack = before.freeStack /\ priceLevel = before.priceLevel
        \/ /\ call = [step |-> "forget", id |-> orderId, side |-> side, level |-> level]
           /\ freeStack = before.freeStack \o <<queue[Min(found)]>>
           /\ priceLevel =
                [before.priceLevel EXCEPT ![side][level] = RemoveAt(queue, Min(found))]
    BY <1>3 DEF Cancelling
  <2>3. CASE /\ call = [step |-> "erase", id |-> orderId, side |-> side, level |-> level]
             /\ freeStack = before.freeStack /\ priceLevel = before.priceLevel
    BY <1>1, <2>1, <2>3 DEF Cancelling
  <2>4. CASE /\ call = [step |-> "forget", id |-> orderId, side |-> side, level |-> level]
             /\ freeStack = before.freeStack \o <<queue[Min(found)]>>
             /\ priceLevel =
                  [before.priceLevel EXCEPT ![side][level] = RemoveAt(queue, Min(found))]
    BY <1>1, <2>1, <2>4 DEF Cancelling
  <2>5. QED
    BY <2>2, <2>3, <2>4
<1>4. \A step, side : Trading(step, side) => Trading(step, side)'
  BY <1>1, BeforeStays DEF Trading
<1>5. QED
  BY <1>2, <1>3, <1>4 DEF Phase

LEMMA AtomicStep ==
  AtomicInv /\ [AtomicityNext]_<<stepVars, before>> => AtomicInv' /\ [Whole!Next]_(Whole!vars)
<1> SUFFICES ASSUME AtomicInv, [AtomicityNext]_<<stepVars, before>>
             PROVE  AtomicInv' /\ [Whole!Next]_(Whole!vars)
  OBVIOUS
<1>1. Whole!OrderedBook
  BY DEF AtomicInv
<1>2. before' = before => UNCHANGED Whole!vars
  BY DEF Whole!vars, Whole!bookVars
<1>3. CASE AtomicityNext
  <2>1. GoesOn \/ Returns
    BY <1>1, <1>3, IdleStep, AddingStep, CancellingStep, TradingStepTaken DEF AtomicInv, Phase
  <2>2. [Whole!Next]_(Whole!vars)
    BY <1>2, <2>1 DEF GoesOn, Returns
  <2>3. Whole!OrderedBook'
    BY <1>1, <2>2, WholeBookStays
  <2>4. QED
    BY <2>1, <2>2, <2>3 DEF AtomicInv, GoesOn, Returns
<1>4. CASE UNCHANGED <<stepVars, before>>
  <2>1. Whole!OrderedBook'
    BY <1>1, <1>2, <1>4, WholeBookStays
  <2>2. Phase => Phase'
    BY <1>4, StutterKeepsPhase
  <2>3. call = Idle /\ before = Now => call' = Idle /\ before' = Now'
    BY <1>4 DEF stepVars, vars, bookVars, Now
  <2>4. QED
    BY <1>2, <1>4, <2>1, <2>2, <2>3 DEF AtomicInv
<1>5. QED
  BY <1>3, <1>4

LEMMA AtomicStart == AtomicityInit => AtomicInv /\ Whole!Init
<1> SUFFICES ASSUME AtomicityInit
             PROVE  AtomicInv /\ Whole!Init
  OBVIOUS
<1>1. Init /\ call = Idle /\ before = Now
  BY DEF AtomicityInit, StepInit
<1>2. Whole!Init
  BY <1>1, ShownFields, WholeConstants
  DEF Init, BookInit, EmptyBitmap, Whole!Init, Whole!BookInit, Whole!EmptyBitmap,
      Whole!Word, Word, Whole!NumOfWords, NumOfWords
<1>3. Whole!OrderedBook
  BY <1>2, WholeBookInit
<1>4. QED
  BY <1>1, <1>2, <1>3 DEF AtomicInv

-----------------------------------------------------------------------------
(* The engine that EngineAtomicity speaks of is the one that was reasoned  *)
(* about.                                                                  *)
LEMMA SameValues ==
  /\ Atomic!Bid = Whole!Bid /\ Atomic!Ask = Whole!Ask /\ Atomic!Side = Whole!Side
  /\ Atomic!Slot = Whole!Slot /\ Atomic!Level = Whole!Level
  /\ Atomic!NoLocation = Whole!NoLocation
  /\ \A n : Atomic!ToU64(n) = Whole!ToU64(n) /\ Atomic!GetVolume(n) = Whole!GetVolume(n)
  /\ \A n : Atomic!PriceToIndex(n) = Whole!PriceToIndex(n) /\ Atomic!Key(n) = Whole!Key(n)
  /\ \A n : Atomic!IsTradable(n) <=> Whole!IsTradable(n)
  /\ \A n : Atomic!GetPriceInTicks(n) = Whole!GetPriceInTicks(n)
  /\ \A S : Atomic!Min(S) = Whole!Min(S)
  /\ \A m, n : Atomic!ReduceVolume(m, n) = Whole!ReduceVolume(m, n)
  /\ \A m, n : Atomic!TradeVolume(m, n) = Whole!TradeVolume(m, n)
BY Zenon
DEF Atomic!ToU64, Whole!ToU64, Atomic!ToInt, Whole!ToInt, Atomic!GetVolume, Whole!GetVolume,
    Atomic!GetPriceInTicks, Whole!GetPriceInTicks, Atomic!PriceToIndex, Whole!PriceToIndex,
    Atomic!IsTradable, Whole!IsTradable, Atomic!Key, Whole!Key, Atomic!Min, Whole!Min,
    Atomic!ReduceVolume, Whole!ReduceVolume, Atomic!TradeVolume, Whole!TradeVolume,
    Atomic!Bid, Whole!Bid, Atomic!Ask, Whole!Ask, Atomic!Side, Whole!Side, Atomic!Slot,
    Whole!Slot, Atomic!Level, Whole!Level, Atomic!NoLocation,
    Whole!NoLocation

LEMMA SameBits ==
  /\ \A map, level : Atomic!SetBitTo1(map, level) = Whole!SetBitTo1(map, level)
  /\ \A map, level : Atomic!SetBitTo0(map, level) = Whole!SetBitTo0(map, level)
  /\ \A map : Atomic!HighestLevel(map) = Whole!HighestLevel(map)
  /\ \A map : Atomic!LowestLevel(map) = Whole!LowestLevel(map)
  /\ Atomic!NoLevel = Whole!NoLevel /\ Atomic!EmptyBitmap = Whole!EmptyBitmap
BY Zenon
DEF Atomic!SetBitTo1, Whole!SetBitTo1, Atomic!SetBitTo0, Whole!SetBitTo0, Atomic!WordOf,
    Whole!WordOf, Atomic!BitOf, Whole!BitOf, Atomic!HighestLevel, Whole!HighestLevel,
    Atomic!LowestLevel, Whole!LowestLevel, Atomic!Word, Whole!Word, Atomic!NumOfWords,
    Whole!NumOfWords, Atomic!NoLevel, Whole!NoLevel, Atomic!Min, Whole!Min, Atomic!Max,
    Whole!Max, Atomic!EmptyBitmap, Whole!EmptyBitmap

LEMMA SameQueues ==
  /\ \A queue, slot : Atomic!Enqueued(queue, slot) = Whole!Enqueued(queue, slot)
  /\ \A queue, i : Atomic!RemoveAt(queue, i) = Whole!RemoveAt(queue, i)
  /\ \A queue : Atomic!Last(queue) = Whole!Last(queue) /\ Atomic!Front(queue) = Whole!Front(queue)
  /\ \A id : Atomic!Accepted(id) = Whole!Accepted(id) /\ Atomic!Cancelled(id) = Whole!Cancelled(id)
  /\ \A reason : Atomic!Rejected(reason) = Whole!Rejected(reason)
  /\ Atomic!NoTrade = Whole!NoTrade /\ Atomic!Nothing = Whole!Nothing
  /\ \A bid, ask, volume, price :
       Atomic!Trade(bid, ask, volume, price) = Whole!Trade(bid, ask, volume, price)
  /\ Atomic!bookVars = Whole!bookVars /\ Atomic!vars = Whole!vars
BY Zenon
DEF Atomic!Enqueued, Whole!Enqueued, Atomic!RemoveAt, Whole!RemoveAt, Atomic!Last, Whole!Last,
    Atomic!Front, Whole!Front, Atomic!Accepted, Whole!Accepted, Atomic!Cancelled,
    Whole!Cancelled, Atomic!Rejected, Whole!Rejected, Atomic!NoTrade, Whole!NoTrade,
    Atomic!Nothing, Whole!Nothing, Atomic!Trade, Whole!Trade, Atomic!bookVars, Whole!bookVars,
    Atomic!vars, Whole!vars

LEMMA SameBook ==
  /\ \A side, level, queue : Atomic!Unmarked(side, level, queue) = Whole!Unmarked(side, level, queue)
  /\ \A keys : Atomic!Forgotten(keys) = Whole!Forgotten(keys)
  /\ \A side : Atomic!BestOrder(side) = Whole!BestOrder(side)
  /\ \A side : Atomic!FindBestLevel(side) = Whole!FindBestLevel(side)
  /\ \A side : Atomic!HasBest(side) <=> Whole!HasBest(side)
  /\ \A slot : Atomic!Ticks(slot) = Whole!Ticks(slot)
  /\ \A side, volume : Atomic!Left(side, volume) = Whole!Left(side, volume)
  /\ Atomic!PricesCross <=> Whole!PricesCross
<1>1. \A side : Atomic!FindBestLevel(side) = Whole!FindBestLevel(side)
  BY SameBits, SameValues DEF Atomic!FindBestLevel, Whole!FindBestLevel
<1>2. \A side : Atomic!BestOrder(side) = Whole!BestOrder(side)
  BY <1>1 DEF Atomic!BestOrder, Whole!BestOrder
<1>3. \A side : Atomic!HasBest(side) <=> Whole!HasBest(side)
  BY <1>1, SameBits DEF Atomic!HasBest, Whole!HasBest
<1>4. \A slot : Atomic!Ticks(slot) = Whole!Ticks(slot)
  BY SameValues DEF Atomic!Ticks, Whole!Ticks
<1>5. \A side, volume : Atomic!Left(side, volume) = Whole!Left(side, volume)
  BY <1>2, SameValues DEF Atomic!Left, Whole!Left
<1>6. Atomic!PricesCross <=> Whole!PricesCross
  BY <1>2, <1>4, SameValues DEF Atomic!PricesCross, Whole!PricesCross
<1>7. \A keys : Atomic!Forgotten(keys) = Whole!Forgotten(keys)
  BY SameValues DEF Atomic!Forgotten, Whole!Forgotten
<1>8. \A side, level, queue :
        Atomic!Unmarked(side, level, queue) = Whole!Unmarked(side, level, queue)
  BY SameBits DEF Atomic!Unmarked, Whole!Unmarked
<1>9. QED
  BY <1>1, <1>2, <1>3, <1>4, <1>5, <1>6, <1>7, <1>8

LEMMA SameInit == Whole!Init => Atomic!Init
BY SameValues, SameBits, SameQueues DEF Atomic!Init, Atomic!BookInit, Whole!Init, Whole!BookInit

LEMMA SameAdd ==
  ASSUME NEW side, NEW volume, NEW price, Whole!AddOrder(side, volume, price)
  PROVE  Atomic!AddOrder(side, volume, price)
<1>1. Whole!AddOrderPoolEmpty => Atomic!AddOrderPoolEmpty
  BY SameQueues
  DEF Atomic!AddOrderPoolEmpty, Whole!AddOrderPoolEmpty, Atomic!bookVars, Whole!bookVars
<1>2. Atomic!NewOrder(side, volume, price) = Whole!NewOrder(side, volume, price)
  BY DEF Atomic!NewOrder, Whole!NewOrder
<1>3. \A slot : Whole!Acquire(slot) => Atomic!Acquire(slot)
  BY SameQueues DEF Atomic!Acquire, Whole!Acquire
<1>4. \A slot, order : Whole!Insert(slot, order) => Atomic!Insert(slot, order)
  BY SameValues, SameBits, SameQueues DEF Atomic!Insert, Whole!Insert
<1>5. \A order : Whole!AddOrderToSlot(order) => Atomic!AddOrderToSlot(order)
  BY <1>3, <1>4, SameValues, SameQueues DEF Atomic!AddOrderToSlot, Whole!AddOrderToSlot
<1>6. QED
  BY <1>1, <1>2, <1>5 DEF Atomic!AddOrder, Whole!AddOrder

LEMMA SameCancel ==
  ASSUME NEW orderId, Whole!CancelOrder(orderId)
  PROVE  Atomic!CancelOrder(orderId)
<1>1. Whole!RemoveOrderFromOrderId(orderId) => Atomic!RemoveOrderFromOrderId(orderId)
  BY Zenon
  DEF Atomic!RemoveOrderFromOrderId, Whole!RemoveOrderFromOrderId, Atomic!bookVars,
      Whole!bookVars, Atomic!Released, Whole!Released, Atomic!Unmarked, Whole!Unmarked,
      Atomic!Forgotten, Whole!Forgotten, Atomic!SetBitTo0, Whole!SetBitTo0, Atomic!WordOf,
      Whole!WordOf, Atomic!BitOf, Whole!BitOf, Atomic!RemoveAt, Whole!RemoveAt, Atomic!Min,
      Whole!Min, Atomic!Key, Whole!Key, Atomic!PriceToIndex, Whole!PriceToIndex, Atomic!ToInt,
      Whole!ToInt, Atomic!ToU64, Whole!ToU64, Atomic!NoLocation, Whole!NoLocation, Atomic!Slot,
      Whole!Slot, Atomic!Bid, Whole!Bid
<1>2. QED
  BY <1>1, SameQueues DEF Atomic!CancelOrder, Whole!CancelOrder

LEMMA SameMatch ==
  ASSUME Whole!MatchLimitOrders
  PROVE  Atomic!MatchLimitOrders
<1>1. CASE Whole!MatchNothing
  BY <1>1, SameBook, SameValues, SameQueues
  DEF Atomic!MatchLimitOrders, Atomic!MatchNothing, Whole!MatchNothing, Atomic!bookVars,
      Whole!bookVars
<1>2. CASE Whole!MatchBest
  <2>1. \A filled : Whole!RemoveBest(filled) => Atomic!RemoveBest(filled)
    BY Zenon
    DEF Atomic!RemoveBest, Whole!RemoveBest, Atomic!Released, Whole!Released, Atomic!BestOrder,
        Whole!BestOrder, Atomic!FindBestLevel, Whole!FindBestLevel, Atomic!HighestLevel,
        Whole!HighestLevel, Atomic!LowestLevel, Whole!LowestLevel, Atomic!Word, Whole!Word,
        Atomic!NumOfWords, Whole!NumOfWords, Atomic!NoLevel, Whole!NoLevel, Atomic!Min, Whole!Min,
        Atomic!Max, Whole!Max, Atomic!Unmarked, Whole!Unmarked, Atomic!Forgotten, Whole!Forgotten,
        Atomic!SetBitTo0, Whole!SetBitTo0, Atomic!WordOf, Whole!WordOf, Atomic!BitOf, Whole!BitOf,
        Atomic!Key, Whole!Key, Atomic!NoLocation, Whole!NoLocation, Atomic!Slot, Whole!Slot,
        Atomic!Side, Whole!Side, Atomic!Bid, Whole!Bid, Atomic!Ask, Whole!Ask
  <2>2. Atomic!MatchBest
    BY <1>2, <2>1, SameBook, SameValues, SameQueues, Zenon DEF Atomic!MatchBest, Whole!MatchBest
  <2>3. QED
    BY <2>2 DEF Atomic!MatchLimitOrders
<1>3. QED
  BY <1>1, <1>2 DEF Whole!MatchLimitOrders

LEMMA SameStep == [Whole!Next]_(Whole!vars) => [Atomic!Next]_(Atomic!vars)
<1>1. Whole!Next => Atomic!Next
  BY SameAdd, SameCancel, SameMatch, SameValues DEF Atomic!Next, Whole!Next
<1>2. UNCHANGED Whole!vars => UNCHANGED Atomic!vars
  BY DEF Atomic!vars, Atomic!bookVars, Whole!vars, Whole!bookVars
<1>3. QED
  BY <1>1, <1>2

(* The handlers in steps, in every interleaving that the mutex allows,     *)
(* implement the atomic handlers of MatchingEngine, for any number of      *)
(* slots, levels and orders.                                               *)
THEOREM StepsAreAtomic == AtomicitySpec => HandlersAreAtomic
<1>1. AtomicityInit => AtomicInv /\ Atomic!Init
  BY AtomicStart, SameInit
<1>2. AtomicInv /\ [AtomicityNext]_<<stepVars, before>> => AtomicInv' /\ [Atomic!Next]_(Atomic!vars)
  BY AtomicStep, SameStep
<1>3. QED
  BY <1>1, <1>2, PTL DEF AtomicitySpec, HandlersAreAtomic, Atomic!Spec

(* The engine that is shown behaves as MatchingEngine does, and so all     *)
(* that is proved of MatchingEngine holds between the handlers in steps.   *)
LEMMA WholeSpec == AtomicitySpec => Whole!Spec
<1>1. AtomicityInit => AtomicInv /\ Whole!Init
  BY AtomicStart
<1>2. AtomicInv /\ [AtomicityNext]_<<stepVars, before>> => AtomicInv' /\ [Whole!Next]_(Whole!vars)
  BY AtomicStep
<1>3. QED
  BY <1>1, <1>2, PTL DEF AtomicitySpec, Whole!Spec

LEMMA SameAccounts ==
  ASSUME [Whole!Accounted' # Whole!Accounted => (before.result)' = Whole!Rejected("price")]_(Whole!vars)
  PROVE  [Atomic!Accounted' # Atomic!Accounted => (before.result)' = Atomic!Rejected("price")]_(Atomic!vars)
<1>1. Atomic!Accounted = Whole!Accounted
  BY SameValues
  DEF Atomic!Accounted, Whole!Accounted, Atomic!Resting, Whole!Resting, Atomic!RestingOn,
      Whole!RestingOn, Atomic!ToSet, Whole!ToSet
<1>2. Atomic!Accounted' = Whole!Accounted'
  BY SameValues
  DEF Atomic!Accounted, Whole!Accounted, Atomic!Resting, Whole!Resting, Atomic!RestingOn,
      Whole!RestingOn, Atomic!ToSet, Whole!ToSet
<1>3. QED
  BY <1>1, <1>2, SameQueues DEF Atomic!vars, Atomic!bookVars, Whole!vars, Whole!bookVars

(* A slot leaves the pool and the book for good only with an order that is *)
(* rejected for its price, also when the handlers take steps.              *)
THEOREM StepsAlwaysReturnSlots == AtomicitySpec => StepsReturnSlots
<1>1. Whole!Spec => Whole!SlotsReturnWithOrders
  BY Whole!SlotsAlwaysReturn, MachineIntegersAssumption, LevelBitmapAssumption,
     OrderBookAssumption, MatchingEngineAssumption DEF Whole!U64, U64
<1>2. [Whole!Accounted' # Whole!Accounted => (before.result)' = Whole!Rejected("price")]_(Whole!vars)
      => [Atomic!Accounted' # Atomic!Accounted => (before.result)' = Atomic!Rejected("price")]_(Atomic!vars)
  BY SameAccounts
<1>3. QED
  BY <1>1, <1>2, WholeSpec, PTL
  DEF StepsReturnSlots, Whole!SlotsReturnWithOrders, Atomic!SlotsReturnWithOrders

-----------------------------------------------------------------------------
(* The same for the promise that both make.                                *)
LEMMA SameShown ==
  /\ Atomic!Resting = Whole!Resting /\ Atomic!Resting' = Whole!Resting'
  /\ Atomic!Outcome = Whole!Outcome /\ Atomic!Outcome' = Whole!Outcome'
  /\ \A S : Atomic!Cardinality(S) = Whole!Cardinality(S)
<1>1. Atomic!Resting = Whole!Resting /\ Atomic!Resting' = Whole!Resting'
  BY SameValues
  DEF Atomic!Resting, Whole!Resting, Atomic!RestingOn, Whole!RestingOn, Atomic!ToSet, Whole!ToSet
<1>2. Atomic!Outcome = Whole!Outcome /\ Atomic!Outcome' = Whole!Outcome'
  BY DEF Atomic!Outcome, Whole!Outcome
<1>3. \A S : Atomic!Cardinality(S) = Whole!Cardinality(S)
  BY DEF Atomic!Cardinality, Whole!Cardinality
<1>4. QED
  BY <1>1, <1>2, <1>3

LEMMA SamePromiseOperators ==
  /\ Whole!Promise!HasRoom <=> Atomic!Promise!HasRoom
  /\ Whole!Promise!Bids = Atomic!Promise!Bids /\ Whole!Promise!Asks = Atomic!Promise!Asks
  /\ Whole!Promise!Crossing <=> Atomic!Promise!Crossing
  /\ \A order : Whole!Promise!BestBid(order) <=> Atomic!Promise!BestBid(order)
  /\ \A order : Whole!Promise!BestAsk(order) <=> Atomic!Promise!BestAsk(order)
  /\ \A orderId : Whole!Promise!SharesEntry(orderId) <=> Atomic!Promise!SharesEntry(orderId)
  /\ \A S : Whole!Promise!Min(S) = Atomic!Promise!Min(S)
<1>1. Whole!Promise!HasRoom <=> Atomic!Promise!HasRoom
  <2>1. \A S : Whole!Promise!Cardinality(S) = Atomic!Promise!Cardinality(S)
    BY DEF Whole!Promise!Cardinality, Atomic!Promise!Cardinality
  <2>2. QED
    BY <2>1, SameShown DEF Whole!Promise!HasRoom, Atomic!Promise!HasRoom
<1>2. Whole!Promise!Bids = Atomic!Promise!Bids /\ Whole!Promise!Asks = Atomic!Promise!Asks
  BY SameShown
  DEF Whole!Promise!Bids, Atomic!Promise!Bids, Whole!Promise!Asks, Atomic!Promise!Asks
<1>3. Whole!Promise!Crossing <=> Atomic!Promise!Crossing
  BY <1>2 DEF Whole!Promise!Crossing, Atomic!Promise!Crossing
<1>4. \A order : Whole!Promise!BestBid(order) <=> Atomic!Promise!BestBid(order)
  BY <1>2 DEF Whole!Promise!BestBid, Atomic!Promise!BestBid
<1>5. \A order : Whole!Promise!BestAsk(order) <=> Atomic!Promise!BestAsk(order)
  BY <1>2 DEF Whole!Promise!BestAsk, Atomic!Promise!BestAsk
<1>6. \A orderId : Whole!Promise!SharesEntry(orderId) <=> Atomic!Promise!SharesEntry(orderId)
  BY SameValues DEF Whole!Promise!SharesEntry, Atomic!Promise!SharesEntry
<1>7. \A S : Whole!Promise!Min(S) = Atomic!Promise!Min(S)
  BY DEF Whole!Promise!Min, Atomic!Promise!Min
<1>8. QED
  BY <1>1, <1>2, <1>3, <1>4, <1>5, <1>6, <1>7

LEMMA SamePromiseInit == Whole!Promise!Init => Atomic!Promise!Init
BY SameShown DEF Whole!Promise!Init, Atomic!Promise!Init

LEMMA SamePromiseNext == Whole!Promise!Next => Atomic!Promise!Next
<1>1. \A side, volume, price :
        Whole!Promise!Submit(side, volume, price) => Atomic!Promise!Submit(side, volume, price)
  BY SameShown, SamePromiseOperators DEF Whole!Promise!Submit, Atomic!Promise!Submit
<1>2. Whole!Promise!RejectPrice => Atomic!Promise!RejectPrice
  BY SameShown, SamePromiseOperators DEF Whole!Promise!RejectPrice, Atomic!Promise!RejectPrice
<1>3. Whole!Promise!RejectFull => Atomic!Promise!RejectFull
  BY SameShown, SamePromiseOperators DEF Whole!Promise!RejectFull, Atomic!Promise!RejectFull
<1>4. \A orderId : Whole!Promise!Cancel(orderId) => Atomic!Promise!Cancel(orderId)
  BY SameShown, SamePromiseOperators DEF Whole!Promise!Cancel, Atomic!Promise!Cancel
<1>5. Whole!Promise!NoTrade => Atomic!Promise!NoTrade
  BY SameShown, SamePromiseOperators DEF Whole!Promise!NoTrade, Atomic!Promise!NoTrade
<1>6. \A bid, ask : Whole!Promise!Trade(bid, ask) => Atomic!Promise!Trade(bid, ask)
  BY SameShown, SamePromiseOperators DEF Whole!Promise!Trade, Atomic!Promise!Trade
<1>7. QED
  BY <1>1, <1>2, <1>3, <1>4, <1>5, <1>6, SameValues, SamePromiseOperators
  DEF Whole!Promise!Next, Atomic!Promise!Next

LEMMA SamePromiseStep ==
  [Whole!Promise!Next]_(Whole!Promise!vars) => [Atomic!Promise!Next]_(Atomic!Promise!vars)
<1>1. UNCHANGED Whole!Promise!vars => UNCHANGED Atomic!Promise!vars
  BY SameShown DEF Whole!Promise!vars, Atomic!Promise!vars
<1>2. QED
  BY <1>1, SamePromiseNext

(* The stepwise engine keeps the promise of LimitOrderBook: each release   *)
(* of the mutex shows one step of it or no change, when volumes and prices *)
(* fit an int.                                                             *)
THEOREM StepsAlwaysKeepPromise ==
  ASSUME Volumes \subseteq 0 .. INT_LIMIT - 1,
         Prices \subseteq 0 .. INT_LIMIT - 1
  PROVE  AtomicitySpec => StepsKeepPromise
<1>1. Whole!Spec => Whole!KeepsPromise
  BY Whole!EngineKeepsPromise, MachineIntegersAssumption, LevelBitmapAssumption,
     OrderBookAssumption, MatchingEngineAssumption DEF Whole!U64, U64
<1>2. QED
  BY <1>1, SamePromiseInit, SamePromiseStep, WholeSpec, PTL
  DEF StepsKeepPromise, Whole!KeepsPromise, Whole!Promise!Spec, Atomic!KeepsPromise,
      Atomic!Promise!Spec
=============================================================================
