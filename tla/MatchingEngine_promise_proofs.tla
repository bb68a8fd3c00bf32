--------------------- MODULE MatchingEngine_promise_proofs ---------------------
(***************************************************************************)
(* Proofs about what rests in the book from step to step: which slots      *)
(* enter and leave it, what becomes of them, how the id table follows,     *)
(* and with it the promise of LimitOrderBook.  That fills are exact and    *)
(* the promise is kept is proved for volumes and prices that an int can    *)
(* hold: these are the ones that the narrowing to int leaves alone.        *)
(***************************************************************************)
EXTENDS MatchingEngine_proofs, FiniteSetTheorems

-----------------------------------------------------------------------------
(* What is not erased from a queue stays in it.                            *)
LEMMA KeptByErase ==
  ASSUME NEW old \in [Side -> [Level -> Seq(Slot)]], NEW gone, NEW new, Erases(old, gone, new),
         NEW s \in Side, NEW l \in Level, NEW i \in DOMAIN old[s][l], i # gone[s][l]
  PROVE  \E j \in DOMAIN new[s][l] : new[s][l][j] = old[s][l][i]
<1> DEFINE queue == old[s][l]
           rest == new[s][l]
           index == gone[s][l]
<1>1. /\ queue \in Seq(Slot)
      /\ Len(queue) \in Nat
      /\ DOMAIN queue = 1 .. Len(queue)
      /\ index \in 0 .. Len(queue)
      /\ rest = IF index = 0 THEN queue ELSE RemoveAt(queue, index)
  BY LenProperties DEF Erases
<1> HIDE DEF queue, rest, index
<1>2. i \in 1 .. Len(queue) /\ i # index
  BY <1>1 DEF queue, index
<1>3. CASE index = 0
  BY <1>1, <1>2, <1>3 DEF queue, rest
<1>4. CASE index # 0
  <2>1. index \in 1 .. Len(queue)
    BY <1>1, <1>4
  <2>2. /\ DOMAIN rest = 1 .. Len(queue) - 1
        /\ \A j \in 1 .. Len(queue) - 1 : rest[j] = IF j < index THEN queue[j] ELSE queue[j + 1]
    <3>1. rest = RemoveAt(queue, index)
      BY <1>1, <1>4
    <3>2. rest \in Seq(Slot) /\ Len(rest) = Len(queue) - 1
      BY <1>1, <2>1, <3>1, RemoveAtProperties
    <3>3. QED
      BY <1>1, <2>1, <3>1, <3>2, RemoveAtProperties, LenProperties
  <2>3. CASE i < index
    <3>1. i \in 1 .. Len(queue) - 1
      BY <1>1, <1>2, <2>1, <2>3
    <3>2. QED
      BY <2>2, <2>3, <3>1 DEF queue, rest
  <2>4. CASE i > index
    <3>1. i - 1 \in 1 .. Len(queue) - 1 /\ ~(i - 1 < index) /\ i - 1 + 1 = i
      BY <1>1, <1>2, <2>1, <2>4
    <3>2. rest[i - 1] = queue[i]
      BY <2>2, <3>1
    <3>3. QED
      BY <2>2, <3>1, <3>2 DEF queue, rest
  <2>5. QED
    BY <1>1, <1>2, <2>3, <2>4
<1>5. QED
  BY <1>3, <1>4

(* The slots in the queues.                                                *)
Held(queues) ==
  {slot \in Slot : \E s \in Side, l \in Level : \E i \in DOMAIN queues[s][l] :
     queues[s][l][i] = slot}

LEMMA RestingIsHeld ==
  /\ TypedBook => Resting = Held(priceLevel)
  /\ TypedBook' => Resting' = Held(priceLevel')
<1>1. ASSUME NEW queues \in [Side -> [Level -> Seq(Slot)]]
      PROVE  (UNION {ToSet(queues[Bid][l]) : l \in Level}) \union
               (UNION {ToSet(queues[Ask][l]) : l \in Level}) = Held(queues)
  <2>1. \A s \in Side, l \in Level : \A i \in DOMAIN queues[s][l] : queues[s][l][i] \in Slot
    BY ElementOfSeq, LenProperties
  <2>2. QED
    BY <2>1 DEF Held, ToSet, Side
<1>2. /\ TypedBook => priceLevel \in [Side -> [Level -> Seq(Slot)]]
      /\ TypedBook' => priceLevel' \in [Side -> [Level -> Seq(Slot)]]
  BY DEF TypedBook, TypeOK, BookTypeOK
<1>3. /\ Resting = (UNION {ToSet(priceLevel[Bid][l]) : l \in Level}) \union
                     (UNION {ToSet(priceLevel[Ask][l]) : l \in Level})
      /\ Resting' = (UNION {ToSet(priceLevel'[Bid][l]) : l \in Level}) \union
                      (UNION {ToSet(priceLevel'[Ask][l]) : l \in Level})
  BY DEF Resting, RestingOn
<1>4. QED
  BY <1>1, <1>2, <1>3

(* The slots that an erasure takes out of the queues.                      *)
ErasedSlots(old, gone) ==
  {slot \in Slot : \E s \in Side, l \in Level :
     gone[s][l] # 0 /\ slot = old[s][l][gone[s][l]]}

LEMMA HeldAfterErase ==
  ASSUME NEW old \in [Side -> [Level -> Seq(Slot)]], NEW gone, NEW new, Erases(old, gone, new),
         OwnedOnce(old)
  PROVE  Held(new) = Held(old) \ ErasedSlots(old, gone)
<1>1. ASSUME NEW slot \in Held(new)
      PROVE  slot \in Held(old) /\ slot \notin ErasedSlots(old, gone)
  <2>1. PICK s \in Side, l \in Level : \E i \in DOMAIN new[s][l] : new[s][l][i] = slot
    BY DEF Held
  <2>2. PICK i \in DOMAIN new[s][l] : new[s][l][i] = slot
    BY <2>1
  <2>3. PICK f : IsOrigin(f, new[s][l], old[s][l], gone[s][l])
    BY ErasedFrom
  <2>4. f[i] \in DOMAIN old[s][l] /\ old[s][l][f[i]] = slot
    BY <2>2, <2>3 DEF IsOrigin
  <2>5. slot \in Held(old)
    BY <2>4 DEF Held
  <2>6. ASSUME NEW t \in Side, NEW m \in Level, gone[t][m] # 0
        PROVE  slot # old[t][m][gone[t][m]]
    <3>1. gone[t][m] \in DOMAIN old[t][m]
      BY <2>6, LenProperties DEF Erases
    <3>2. f[i] # gone[s][l]
      BY <2>3 DEF IsOrigin
    <3>3. QED
      BY <2>4, <3>1, <3>2 DEF OwnedOnce
  <2>7. QED
    BY <2>5, <2>6 DEF ErasedSlots
<1>2. ASSUME NEW slot \in Held(old), slot \notin ErasedSlots(old, gone)
      PROVE  slot \in Held(new)
  <2>1. PICK s \in Side, l \in Level : \E i \in DOMAIN old[s][l] : old[s][l][i] = slot
    BY DEF Held
  <2>2. PICK i \in DOMAIN old[s][l] : old[s][l][i] = slot
    BY <2>1
  <2>3. slot \in Slot /\ i \in Nat \ {0}
    BY LenProperties DEF Held
  <2>4. i # gone[s][l]
    BY <1>2, <2>2, <2>3 DEF ErasedSlots
  <2>5. \E j \in DOMAIN new[s][l] : new[s][l][j] = slot
    BY <2>2, <2>4, KeptByErase
  <2>6. QED
    BY <2>3, <2>5 DEF Held
<1>3. QED
  BY <1>1, <1>2

(* A slot joins the end of a queue.                                        *)
Appended(old, slot, side, level) == [old EXCEPT ![side][level] = Append(@, slot)]

LEMMA HeldAfterJoin ==
  ASSUME NEW old \in [Side -> [Level -> Seq(Slot)]], NEW slot \in Slot,
         NEW side \in Side, NEW level \in Level
  PROVE  Held(Appended(old, slot, side, level)) = Held(old) \union {slot}
<1> DEFINE new == Appended(old, slot, side, level)
<1>1. new = [old EXCEPT ![side][level] = Append(@, slot)]
  BY DEF Appended
<1> HIDE DEF new
<1>2. Held(new) \subseteq Held(old) \union {slot}
  BY <1>1, AppendJoins DEF Held, Joins
<1>3. ASSUME NEW s \in Side, NEW l \in Level, NEW i \in DOMAIN old[s][l]
      PROVE  i \in DOMAIN new[s][l] /\ new[s][l][i] = old[s][l][i]
  <2>1. CASE s = side /\ l = level
    <3>1. new[s][l] = Append(old[s][l], slot)
      BY <1>1, <2>1
    <3>2. i \in 1 .. Len(old[s][l]) /\ Len(old[s][l]) \in Nat
      BY LenProperties
    <3>3. QED
      BY <3>1, <3>2, AppendProperties, LenProperties
  <2>2. CASE ~(s = side /\ l = level)
    BY <1>1, <2>2
  <2>3. QED
    BY <2>1, <2>2
<1>4. \E i \in DOMAIN new[side][level] : new[side][level][i] = slot
  <2>1. new[side][level] = Append(old[side][level], slot)
    BY <1>1
  <2>2. Len(old[side][level]) \in Nat
    BY LenProperties
  <2>3. /\ Len(old[side][level]) + 1 \in DOMAIN Append(old[side][level], slot)
        /\ Append(old[side][level], slot)[Len(old[side][level]) + 1] = slot
    BY <2>2, AppendProperties, LenProperties
  <2>4. QED
    BY <2>1, <2>3
<1>5. slot \in Held(new)
  BY <1>4 DEF Held
<1>6. Held(old) \subseteq Held(new)
  BY <1>3 DEF Held
<1>7. QED
  BY <1>2, <1>5, <1>6 DEF new

-----------------------------------------------------------------------------
(* The parts of OrderedBook before and after a step.                       *)
LEMMA InitOrdered == Init => OrderedBook
<1> SUFFICES ASSUME Init
             PROVE  OrderedBook
  OBVIOUS
<1>1. TypedBook
  BY InitTyped
<1>2. SlotsHaveOneOwner
  BY OrderBookAssumption DEF Init, BookInit, SlotsHaveOneOwner, IsInjective
<1>3. QueuesInArrivalOrder
  <2>1. \A s \in Side, l \in Level : DOMAIN priceLevel[s][l] = {}
    BY EmptySeq, LenProperties DEF Init, BookInit
  <2>2. QED
    BY <2>1, QueuesInArrivalOrderParts DEF Ranked, DistinctIds
<1>4. QED
  BY <1>1, <1>2, <1>3 DEF OrderedBook

LEMMA OrderedBookStays == OrderedBook /\ [Next]_vars => OrderedBook'
BY StepTyped, StepOwned, StepOrdered DEF OrderedBook

(* The same for an order of any price and volume.                          *)
LEMMA AddOrderKeepsBook ==
  ASSUME OrderedBook, NEW side \in Side, NEW volume \in U64, NEW price \in U64,
         AddOrder(side, volume, price)
  PROVE  OrderedBook'
BY AddOrderTyped, AddOrderOwned, AddOrderOrdered DEF OrderedBook

LEMMA OrderedBookPartsPrimed ==
  OrderedBook' =>
    /\ priceLevel' \in [Side -> [Level -> Seq(Slot)]]
    /\ pool' \in [Slot -> Order]
    /\ freeStack' \in Seq(Slot)
    /\ atomicOrderID' \in Nat
    /\ Ranked(priceLevel', pool', atomicOrderID')
    /\ DistinctIds(priceLevel', pool')
    /\ orderIdtoPriceMapping' \in [Slot -> OrderLocation]
    /\ LocationsTradable'
    /\ Resting' = Held(priceLevel')
<1>1. OrderedBook =>
        /\ priceLevel \in [Side -> [Level -> Seq(Slot)]]
        /\ pool \in [Slot -> Order]
        /\ freeStack \in Seq(Slot)
        /\ atomicOrderID \in Nat
        /\ Ranked(priceLevel, pool, atomicOrderID)
        /\ DistinctIds(priceLevel, pool)
        /\ orderIdtoPriceMapping \in [Slot -> OrderLocation]
  BY OrderedBookParts DEF OrderedBook, TypedBook, TypeOK, BookTypeOK
<1>2. (OrderedBook =>
         /\ priceLevel \in [Side -> [Level -> Seq(Slot)]]
         /\ pool \in [Slot -> Order]
         /\ freeStack \in Seq(Slot)
         /\ atomicOrderID \in Nat
         /\ Ranked(priceLevel, pool, atomicOrderID)
         /\ DistinctIds(priceLevel, pool)
         /\ orderIdtoPriceMapping \in [Slot -> OrderLocation])'
  BY <1>1, PTL
<1>3. OrderedBook' => TypedBook' /\ LocationsTradable'
  BY DEF OrderedBook, TypedBook
<1>4. QED
  BY <1>2, <1>3, RestingIsHeld DEF Ranked, DistinctIds

(* A resting order and the place its record leads to.                      *)
LEMMA PlaceOfHeld ==
  ASSUME NEW queues \in [Side -> [Level -> Seq(Slot)]], NEW orders, NEW lastId,
         Ranked(queues, orders, lastId), NEW slot \in Held(queues)
  PROVE  /\ slot \in Slot
         /\ orders[slot].side \in Side
         /\ PriceToIndex(orders[slot].price) \in Level
         /\ orders[slot].id \in 1 .. lastId
         /\ slot \in ToSet(queues[orders[slot].side][PriceToIndex(orders[slot].price)])
<1>1. PICK s \in Side, l \in Level : \E i \in DOMAIN queues[s][l] : queues[s][l][i] = slot
  BY DEF Held
<1>2. PICK i \in DOMAIN queues[s][l] : queues[s][l][i] = slot
  BY <1>1
<1>3. /\ orders[slot].side = s
      /\ PriceToIndex(orders[slot].price) = l
      /\ orders[slot].id \in 1 .. lastId
  BY <1>2 DEF Ranked
<1>4. slot \in Slot /\ slot \in ToSet(queues[s][l])
  BY <1>2 DEF Held, ToSet
<1>5. QED
  BY <1>3, <1>4

LEMMA RestingFacts ==
  ASSUME OrderedBook, NEW slot \in Resting
  PROVE  /\ slot \in Slot
         /\ slot \notin ToSet(freeStack)
         /\ pool[slot].side \in Side
         /\ IsTradable(pool[slot].price)
         /\ pool[slot].id \in 1 .. atomicOrderID
         /\ slot \in ToSet(priceLevel[pool[slot].side][PriceToIndex(pool[slot].price)])
         /\ \A other \in Resting : pool[slot].id = pool[other].id => slot = other
<1>1. Resting = Held(priceLevel)
  BY RestingIsHeld DEF OrderedBook
<1>2. slot \notin ToSet(freeStack)
  BY RestingHasPlace DEF OrderedBook, SlotsHaveOneOwner
<1>3. QED
  BY <1>1, <1>2, OrderedBookParts, PlaceOfHeld DEF IsTradable, OrderedBook, QueuesInArrivalOrder

(* What stands in a queue rests, on the side and at the level of the queue.*)
LEMMA QueuedFacts ==
  ASSUME OrderedBook, NEW s \in Side, NEW l \in Level, NEW slot \in ToSet(priceLevel[s][l])
  PROVE  /\ slot \in Resting
         /\ pool[slot].side = s
         /\ PriceToIndex(pool[slot].price) = l
<1>1. PICK i \in DOMAIN priceLevel[s][l] : priceLevel[s][l][i] = slot
  BY DEF ToSet
<1>2. QED
  BY <1>1, RestingHasPlace, OrderedBookParts DEF Ranked

-----------------------------------------------------------------------------
(* What the handlers do to the set of resting orders, the free slots and   *)
(* the id table, with the places in the queues left out.                   *)
StackAfterPop(slot) ==
  /\ slot \in ToSet(freeStack)
  /\ ToSet(freeStack') = ToSet(freeStack) \ {slot}
  /\ Len(freeStack') = Len(freeStack) - 1

LEMMA AcquireEffect ==
  ASSUME OrderedBook, NEW slot, Acquire(slot)
  PROVE  slot \in Slot /\ StackAfterPop(slot)
<1>1. freeStack \in Seq(Slot) /\ freeStack # <<>> /\ IsInjective(freeStack)
  BY OrderedBookParts DEF Acquire, OrderedBook, SlotsHaveOneOwner
<1>2. slot = Last(freeStack) /\ freeStack' = Front(freeStack)
  BY DEF Acquire
<1>3. /\ Len(freeStack) \in Nat \ {0}
      /\ DOMAIN freeStack = 1 .. Len(freeStack)
      /\ DOMAIN Front(freeStack) = 1 .. Len(freeStack) - 1
      /\ Len(Front(freeStack)) = Len(freeStack) - 1
      /\ \A i \in 1 .. Len(freeStack) - 1 : Front(freeStack)[i] = freeStack[i]
      /\ Last(freeStack) = freeStack[Len(freeStack)]
      /\ Last(freeStack) \in Slot
  BY <1>1, FrontLastProperties, LenProperties
<1>4. /\ ToSet(Front(freeStack)) \subseteq ToSet(freeStack) \ {slot}
      /\ slot \in ToSet(freeStack)
  BY <1>1, <1>2, PoppedOnce
<1>5. ASSUME NEW other \in ToSet(freeStack), other # slot
      PROVE  other \in ToSet(Front(freeStack))
  <2>1. PICK i \in DOMAIN freeStack : freeStack[i] = other
    BY DEF ToSet
  <2>2. i \in 1 .. Len(freeStack) - 1
    BY <1>2, <1>3, <1>5, <2>1
  <2>3. i \in DOMAIN Front(freeStack) /\ Front(freeStack)[i] = other
    BY <1>3, <2>1, <2>2
  <2>4. QED
    BY <2>3 DEF ToSet
<1>6. QED
  BY <1>2, <1>3, <1>4, <1>5 DEF StackAfterPop

(* addOrder puts an order that it accepts into a slot that no other order  *)
(* rests in.                                                               *)
TakesSlot(slot, order) ==
  /\ StackAfterPop(slot)
  /\ slot \notin Resting
  /\ pool' = [pool EXCEPT ![slot] = order]
  /\ atomicOrderID' = atomicOrderID + 1
  /\ atomicOrderID < MaxOrders
  /\ \/ /\ IsTradable(order.price)
        /\ Resting' = Resting \union {slot}
        /\ result' = Accepted(order.id)
        /\ orderIdtoPriceMapping' =
             [orderIdtoPriceMapping EXCEPT ![Key(order.id)] =
                [isValid |-> TRUE, side |-> order.side, price |-> order.price]]
     \/ /\ ~IsTradable(order.price)
        /\ Resting' = Resting
        /\ result' = Rejected("price")
        /\ orderIdtoPriceMapping' = orderIdtoPriceMapping

LEMMA AddOrderEffect ==
  ASSUME OrderedBook, OrderedBook', NEW side \in Side, NEW volume, NEW price,
         AddOrder(side, volume, price)
  PROVE  \/ AddOrderPoolEmpty /\ Resting' = Resting
         \/ \E slot \in Slot : TakesSlot(slot, NewOrder(side, volume, price))
<1> DEFINE order == NewOrder(side, volume, price)
<1>1. order.side = side
  BY DEF NewOrder
<1>2. CASE AddOrderPoolEmpty
  BY <1>2 DEF AddOrderPoolEmpty, bookVars, Resting, RestingOn
<1>3. CASE AddOrderToSlot(order)
  <2>1. PICK slot \in Slot :
          /\ atomicOrderID < MaxOrders
          /\ Acquire(slot)
          /\ pool' = [pool EXCEPT ![slot] = order]
          /\ atomicOrderID' = atomicOrderID + 1
          /\ \/ /\ IsTradable(order.price)
                /\ Insert(slot, order)
                /\ result' = Accepted(order.id)
             \/ /\ ~IsTradable(order.price)
                /\ result' = Rejected("price")
                /\ UNCHANGED <<priceLevel, bitmap, orderIdtoPriceMapping>>
    BY <1>3 DEF AddOrderToSlot
  <2> HIDE DEF order
  <2>2. StackAfterPop(slot)
    BY <2>1, AcquireEffect
  <2>3. slot \notin Resting
    BY <2>2, RestingFacts DEF StackAfterPop
  <2>4. CASE /\ IsTradable(order.price)
             /\ Insert(slot, order)
             /\ result' = Accepted(order.id)
    <3> DEFINE level == PriceToIndex(order.price)
    <3>1. level \in Level
      BY <2>4 DEF IsTradable
    <3>2. priceLevel' = Appended(priceLevel, slot, side, level)
      BY <1>1, <2>4 DEF Insert, Enqueued, Appended
    <3> HIDE DEF level
    <3>3. Held(priceLevel') = Held(priceLevel) \union {slot}
      BY <3>1, <3>2, OrderedBookParts, HeldAfterJoin
    <3>4. Resting' = Resting \union {slot}
      BY <3>3, RestingIsHeld DEF OrderedBook
    <3>5. QED
      BY <2>1, <2>2, <2>3, <2>4, <3>4 DEF TakesSlot, Insert, order
  <2>5. CASE /\ ~IsTradable(order.price)
             /\ result' = Rejected("price")
             /\ UNCHANGED <<priceLevel, bitmap, orderIdtoPriceMapping>>
    <3>1. Resting' = Resting
      BY <2>5 DEF Resting, RestingOn
    <3>2. QED
      BY <2>1, <2>2, <2>3, <2>5, <3>1 DEF TakesSlot, order
  <2>6. QED
    BY <2>1, <2>4, <2>5
<1>4. QED
  BY <1>2, <1>3 DEF AddOrder

(* Slots go back to the pool.                                              *)
StackAfterPush(slots) ==
  /\ slots \subseteq Resting
  /\ Resting' = Resting \ slots
  /\ ToSet(freeStack') = ToSet(freeStack) \union slots

(* cancelOrder takes the order with its id out of the queue that the entry *)
(* of the id leads to, if it stands there.                                 *)
TakesOut(orderId) ==
  LET location == orderIdtoPriceMapping[Key(orderId)]
      queue == priceLevel[location.side][PriceToIndex(location.price)]
  IN  /\ pool' = pool
      /\ atomicOrderID' = atomicOrderID
      /\ result' = Cancelled(orderId)
      /\ \/ /\ ~location.isValid
            /\ orderIdtoPriceMapping' = orderIdtoPriceMapping
            /\ StackAfterPush({})
         \/ /\ location.isValid
            /\ orderIdtoPriceMapping' = Forgotten({Key(orderId)})
            /\ \/ /\ \A slot \in ToSet(queue) : pool[slot].id # orderId
                  /\ StackAfterPush({})
               \/ \E slot \in ToSet(queue) : pool[slot].id = orderId /\ StackAfterPush({slot})

LEMMA ErasedByOnly ==
  ASSUME OrderedBook, OrderedBook', NEW s \in Side, NEW l \in Level, NEW i \in DOMAIN priceLevel[s][l],
         Erases(priceLevel, Only(s, l, i), priceLevel'), Released(<<priceLevel[s][l][i]>>)
  PROVE  StackAfterPush({priceLevel[s][l][i]})
<1> DEFINE slot == priceLevel[s][l][i]
<1>1. slot \in Resting /\ slot \in Slot /\ slot \notin ToSet(freeStack)
  BY RestingHasPlace, RestingFacts
<1>2. ToSet(freeStack') = ToSet(freeStack) \union {slot}
  BY <1>1, OrderedBookParts, PushedOnce DEF Released, OrderedBook, SlotsHaveOneOwner
<1>3. i # 0
  BY OrderedBookParts, LenProperties
<1>4. ErasedSlots(priceLevel, Only(s, l, i)) = {slot}
  <2>1. \A t \in Side, m \in Level :
          Only(s, l, i)[t][m] = IF t = s /\ m = l THEN i ELSE 0
    BY DEF Only
  <2>2. QED
    BY <1>1, <1>3, <2>1 DEF ErasedSlots
<1>5. OwnedOnce(priceLevel)
  BY SlotsHaveOneOwnerParts DEF OrderedBook
<1>6. Held(priceLevel') = Held(priceLevel) \ {slot}
  BY <1>4, <1>5, OrderedBookParts, HeldAfterErase
<1>7. QED
  BY <1>1, <1>2, <1>6, RestingIsHeld DEF OrderedBook, StackAfterPush

LEMMA CancelOrderEffect ==
  ASSUME OrderedBook, OrderedBook', NEW orderId \in OrderIds, CancelOrder(orderId)
  PROVE  TakesOut(orderId)
<1> DEFINE location == orderIdtoPriceMapping[Key(orderId)]
           queue == priceLevel[location.side][PriceToIndex(location.price)]
<1>1. /\ pool' = pool /\ atomicOrderID' = atomicOrderID
      /\ result' = Cancelled(orderId)
  BY DEF CancelOrder, RemoveOrderFromOrderId, bookVars
<1>2. ASSUME UNCHANGED <<freeStack, priceLevel>>
      PROVE  StackAfterPush({})
  BY <1>2 DEF StackAfterPush, Resting, RestingOn
<1>3. CASE ~location.isValid
  <2>1. orderIdtoPriceMapping' = orderIdtoPriceMapping /\ UNCHANGED <<freeStack, priceLevel>>
    BY <1>3 DEF CancelOrder, RemoveOrderFromOrderId, bookVars
  <2>2. QED
    BY <1>1, <1>2, <1>3, <2>1 DEF TakesOut
<1>4. CASE location.isValid
  <2>1. orderIdtoPriceMapping' = Forgotten({Key(orderId)})
    BY <1>4 DEF CancelOrder, RemoveOrderFromOrderId
  <2>2. CASE \A slot \in ToSet(queue) : pool[slot].id # orderId
    <3>1. {i \in DOMAIN queue : pool[queue[i]].id = orderId} = {}
      BY <2>2 DEF ToSet
    <3>2. UNCHANGED <<freeStack, priceLevel>>
      BY <1>4, <3>1 DEF CancelOrder, RemoveOrderFromOrderId
    <3>3. QED
      BY <1>1, <1>2, <1>4, <2>1, <2>2, <3>2 DEF TakesOut
  <2>3. ASSUME NEW slot \in ToSet(queue), pool[slot].id = orderId
        PROVE  StackAfterPush({slot})
    <3>1. location.side \in Side /\ PriceToIndex(location.price) \in Level
      <4>1. Key(orderId) \in Slot
        BY KeyInTable, MachineIntegersAssumption, MatchingEngineAssumption DEF U64
      <4>2. QED
        BY <1>4, <4>1 DEF OrderedBook, TypedBook, TypeOK, BookTypeOK, LocationsTradable,
           OrderLocation, IsTradable
    <3>2. slot \in Resting
      BY <2>3, <3>1, QueuedFacts
    <3>3. ~UNCHANGED priceLevel
      <4>1. PICK i \in DOMAIN queue : queue[i] = slot
        BY <2>3 DEF ToSet
      <4>2. {j \in DOMAIN queue : pool[queue[j]].id = orderId} # {}
        BY <2>3, <4>1
      <4> DEFINE first == Min({j \in DOMAIN queue : pool[queue[j]].id = orderId})
      <4>3. priceLevel' = [priceLevel EXCEPT ![location.side][PriceToIndex(location.price)] =
                             RemoveAt(queue, first)]
        BY <1>4, <4>2 DEF CancelOrder, RemoveOrderFromOrderId
      <4>4. /\ first \in 1 .. Len(queue)
            /\ queue \in Seq(Slot)
        <5>1. queue \in Seq(Slot)
          BY <3>1, OrderedBookParts
        <5>2. /\ {j \in DOMAIN queue : pool[queue[j]].id = orderId} \in SUBSET Nat
              /\ {j \in DOMAIN queue : pool[queue[j]].id = orderId} \subseteq 1 .. Len(queue)
          BY <5>1, LenProperties
        <5> HIDE DEF queue
        <5>3. QED
          BY <4>2, <5>1, <5>2, MinOfNaturals
      <4> HIDE DEF first, queue
      <4>5. Len(RemoveAt(queue, first)) = Len(queue) - 1 /\ Len(queue) \in Nat
        BY <4>4, RemoveAtProperties, LenProperties
      <4>6. priceLevel'[location.side][PriceToIndex(location.price)] = RemoveAt(queue, first)
        BY <3>1, <4>3, OrderedBookParts
      <4>7. QED
        BY <4>5, <4>6 DEF queue
    <3>4. PICK s \in Side, l \in Level : \E i \in DOMAIN priceLevel[s][l] :
            /\ Erases(priceLevel, Only(s, l, i), priceLevel')
            /\ pool[priceLevel[s][l][i]].id = orderId
            /\ Released(<<priceLevel[s][l][i]>>)
      BY <3>3, CancelErases DEF OrderedBook
    <3>5. PICK i \in DOMAIN priceLevel[s][l] :
            /\ Erases(priceLevel, Only(s, l, i), priceLevel')
            /\ pool[priceLevel[s][l][i]].id = orderId
            /\ Released(<<priceLevel[s][l][i]>>)
      BY <3>4
    <3>6. StackAfterPush({priceLevel[s][l][i]})
      BY <3>5, ErasedByOnly
    <3>7. priceLevel[s][l][i] \in Resting
      BY RestingHasPlace
    <3>8. priceLevel[s][l][i] = slot
      BY <2>3, <3>2, <3>5, <3>7, RestingFacts
    <3>9. QED
      BY <3>6, <3>8
  <2>4. QED
    BY <1>1, <1>4, <2>1, <2>2, <2>3 DEF TakesOut
<1>5. QED
  BY <1>3, <1>4

(* matchLimitOrders reduces the volumes of the two best orders, which are  *)
(* two different orders, and takes those out whose volume then reads 0.    *)
Filled(volume) == {side \in Side : GetVolume(Left(side, volume)) = 0}

FillsBest(bid, ask, volume, filled) ==
  /\ bid \in RestingOn(Bid)
  /\ ask \in RestingOn(Ask)
  /\ bid # ask
  /\ pool' = [pool EXCEPT ![bid].volume = ReduceVolume(pool[bid].volume, volume),
                          ![ask].volume = ReduceVolume(pool[ask].volume, volume)]
  /\ atomicOrderID' = atomicOrderID
  /\ result' = Trade(bid, ask, volume, Ticks(ask))
  /\ filled = {slot \in {bid, ask} : GetVolume(pool'[slot].volume) = 0}
  /\ orderIdtoPriceMapping' = Forgotten({Key(pool[slot].id) : slot \in filled})
  /\ StackAfterPush(filled)

LEMMA RemoveBestEffect ==
  ASSUME OrderedBook, OrderedBook', NEW filled \in SUBSET Side, \A side \in filled : HasBest(side),
         RemoveBest(filled)
  PROVE  StackAfterPush({BestOrder(side) : side \in filled})
<1> DEFINE gone == BestOf(filled)
           slots == {BestOrder(side) : side \in filled}
<1>1. /\ Erases(priceLevel, gone, priceLevel')
      /\ \A side \in filled :
           /\ FindBestLevel(side) \in Level
           /\ BestOrder(side) = priceLevel[side][FindBestLevel(side)][1]
           /\ BestOrder(side) \in Slot
  BY RemoveBestErases DEF OrderedBook
<1>2. ErasedSlots(priceLevel, gone) = slots
  <2>1. \A s \in Side, l \in Level :
          gone[s][l] = IF s \in filled /\ l = FindBestLevel(s) THEN 1 ELSE 0
    BY DEF BestOf
  <2> HIDE DEF gone
  <2>2. slots \subseteq ErasedSlots(priceLevel, gone)
    BY <1>1, <2>1 DEF ErasedSlots
  <2>3. ErasedSlots(priceLevel, gone) \subseteq slots
    BY <1>1, <2>1 DEF ErasedSlots
  <2>4. QED
    BY <2>2, <2>3
<1>3. OwnedOnce(priceLevel)
  BY SlotsHaveOneOwnerParts DEF OrderedBook
<1> HIDE DEF gone
<1>4. Held(priceLevel') = Held(priceLevel) \ slots
  BY <1>1, <1>2, <1>3, OrderedBookParts, HeldAfterErase
<1>5. slots \subseteq Resting
  BY BestPlace DEF Resting, Side
<1>6. ToSet(freeStack') = ToSet(freeStack) \union slots
  BY RemoveBestReleases DEF OrderedBook
<1>7. QED
  BY <1>4, <1>5, <1>6, RestingIsHeld DEF OrderedBook, StackAfterPush

(* The best orders of the two sides stand at their own levels and are two  *)
(* different orders.                                                       *)
LEMMA BestOrdersApart ==
  ASSUME OrderedBook, HasBest(Bid), HasBest(Ask)
  PROVE  /\ BestOrder(Bid) # BestOrder(Ask)
         /\ \A side \in Side :
              /\ FindBestLevel(side) \in Level
              /\ BestOrder(side) \in RestingOn(side)
              /\ BestOrder(side) \in Slot
              /\ pool[BestOrder(side)].side = side
              /\ ToU64(Ticks(BestOrder(side))) = Ticks(BestOrder(side))
<1>1. ASSUME NEW side \in Side, HasBest(side)
      PROVE  /\ FindBestLevel(side) \in Level
             /\ BestOrder(side) \in RestingOn(side)
             /\ BestOrder(side) \in Slot
             /\ pool[BestOrder(side)].side = side
             /\ ToU64(Ticks(BestOrder(side))) = Ticks(BestOrder(side))
  <2>1. /\ FindBestLevel(side) \in Level
        /\ 1 \in DOMAIN priceLevel[side][FindBestLevel(side)]
        /\ BestOrder(side) = priceLevel[side][FindBestLevel(side)][1]
        /\ BestOrder(side) \in RestingOn(side)
        /\ ToU64(Ticks(BestOrder(side))) = Ticks(BestOrder(side))
    BY <1>1, BestPlace
  <2>2. BestOrder(side) \in ToSet(priceLevel[side][FindBestLevel(side)])
    BY <2>1 DEF ToSet
  <2>3. QED
    BY <2>1, <2>2, QueuedFacts, RestingFacts
<1>2. \A side \in Side : HasBest(side)
  BY DEF Side
<1>3. \A side \in Side : /\ FindBestLevel(side) \in Level
                        /\ BestOrder(side) \in RestingOn(side)
                        /\ BestOrder(side) \in Slot
                        /\ pool[BestOrder(side)].side = side
                        /\ ToU64(Ticks(BestOrder(side))) = Ticks(BestOrder(side))
  BY <1>1, <1>2
<1>4. BestOrder(Bid) # BestOrder(Ask)
  BY <1>3 DEF Side, Bid, Ask
<1>5. QED
  BY <1>3, <1>4

LEMMA MatchBestEffect ==
  ASSUME OrderedBook, OrderedBook', MatchBest
  PROVE  LET bid == BestOrder(Bid)
             ask == BestOrder(Ask)
             volume == TradeVolume(pool[ask].volume, pool[bid].volume)
         IN  \E filled \in SUBSET Resting : FillsBest(bid, ask, volume, filled)
<1> DEFINE bid == BestOrder(Bid)
           ask == BestOrder(Ask)
           volume == TradeVolume(pool[ask].volume, pool[bid].volume)
           sides == Filled(volume)
           filled == {BestOrder(side) : side \in sides}
<1>1. /\ Bid \in Side /\ Ask \in Side /\ Bid # Ask
      /\ HasBest(Bid) /\ HasBest(Ask)
  BY DEF MatchBest, Side, Bid, Ask
<1>2. /\ bid \in RestingOn(Bid) /\ bid \in Slot
      /\ ask \in RestingOn(Ask) /\ ask \in Slot
      /\ pool[bid].side = Bid /\ pool[ask].side = Ask
      /\ ToU64(Ticks(ask)) = Ticks(ask)
  BY <1>1, BestOrdersApart
<1>3. bid # ask
  BY <1>1, BestOrdersApart
<1>4. /\ sides \in SUBSET Side
      /\ \A side \in sides : HasBest(side)
      /\ RemoveBest(sides)
  BY <1>1 DEF MatchBest, Filled, Side
<1>5. pool' = [pool EXCEPT ![bid].volume = ReduceVolume(pool[bid].volume, volume),
                           ![ask].volume = ReduceVolume(pool[ask].volume, volume)]
  BY DEF MatchBest, Left
<1>6. /\ atomicOrderID' = atomicOrderID
      /\ result' = Trade(bid, ask, volume, Ticks(ask))
  BY <1>2 DEF MatchBest
<1>7. \A side \in Side : side \in sides <=> GetVolume(pool'[BestOrder(side)].volume) = 0
  <2>1. \A side \in Side : side \in sides <=>
          GetVolume(ReduceVolume(pool[BestOrder(side)].volume, volume)) = 0
    BY DEF Filled, Left
  <2> HIDE DEF sides, volume
  <2>2. \A side \in Side : pool'[BestOrder(side)].volume =
          ReduceVolume(pool[BestOrder(side)].volume, volume)
    <3>1. /\ pool'[bid].volume = ReduceVolume(pool[bid].volume, volume)
          /\ pool'[ask].volume = ReduceVolume(pool[ask].volume, volume)
      <4>1. pool \in [Slot -> Order]
        BY OrderedBookParts
      <4> HIDE DEF bid, ask
      <4>2. QED
        BY <1>2, <1>3, <1>5, <4>1 DEF Order
    <3>2. QED
      BY <3>1 DEF Side
  <2>3. QED
    BY <2>1, <2>2
<1>8. StackAfterPush(filled)
  <2> HIDE DEF sides
  <2>1. QED
    BY <1>4, RemoveBestEffect
<1>9. filled = {slot \in {bid, ask} : GetVolume(pool'[slot].volume) = 0}
  <2> HIDE DEF sides
  <2>1. QED
    BY <1>1, <1>4, <1>7 DEF Side
<1>10. orderIdtoPriceMapping' = Forgotten({Key(pool[slot].id) : slot \in filled})
  <2>1. orderIdtoPriceMapping' = Forgotten({Key(pool[BestOrder(side)].id) : side \in sides})
    BY <1>4 DEF RemoveBest
  <2>2. {Key(pool[BestOrder(side)].id) : side \in sides} =
          {Key(pool[slot].id) : slot \in filled}
    OBVIOUS
  <2>3. QED
    BY <2>1, <2>2
<1>11. filled \in SUBSET Resting
  BY <1>8 DEF StackAfterPush
<1> HIDE DEF bid, ask, volume, sides, filled
<1>12. FillsBest(bid, ask, volume, filled)
  BY <1>2, <1>3, <1>5, <1>6, <1>8, <1>9, <1>10 DEF FillsBest
<1>13. QED
  BY <1>11, <1>12 DEF bid, ask, volume

LEMMA FillsOnlyVolume ==
  ASSUME OrderedBook, NEW bid, NEW ask, NEW volume, NEW filled,
         FillsBest(bid, ask, volume, filled)
  PROVE  \A slot \in Slot : SameButVolume(pool[slot], pool'[slot])
<1>1. pool' = [pool EXCEPT ![bid].volume = ReduceVolume(pool[bid].volume, volume),
                           ![ask].volume = ReduceVolume(pool[ask].volume, volume)]
  BY DEF FillsBest
<1>2. QED
  BY <1>1, OrderedBookParts DEF SameButVolume, Order

(* The four things that a call can do.                                     *)
LEMMA NextEffect ==
  ASSUME OrderedBook, OrderedBook', Next
  PROVE  \/ /\ AddOrderPoolEmpty \/ MatchNothing
            /\ UNCHANGED <<bookVars, atomicOrderID>>
            /\ Resting' = Resting
         \/ \E side \in Side, volume \in Volumes, price \in Prices, slot \in Slot :
              TakesSlot(slot, NewOrder(side, volume, price))
         \/ \E orderId \in OrderIds : TakesOut(orderId)
         \/ /\ MatchBest
            /\ \E filled \in SUBSET Resting :
                 FillsBest(BestOrder(Bid), BestOrder(Ask),
                           TradeVolume(pool[BestOrder(Ask)].volume, pool[BestOrder(Bid)].volume),
                           filled)
<1>1. CASE AddOrderPoolEmpty \/ MatchNothing
  BY <1>1 DEF AddOrderPoolEmpty, MatchNothing, bookVars, Resting, RestingOn
<1>2. ASSUME NEW side \in Side, NEW volume \in Volumes, NEW price \in Prices,
             AddOrder(side, volume, price), ~AddOrderPoolEmpty
      PROVE  \E slot \in Slot : TakesSlot(slot, NewOrder(side, volume, price))
  BY <1>2, AddOrderEffect
<1>3. ASSUME NEW orderId \in OrderIds, CancelOrder(orderId)
      PROVE  TakesOut(orderId)
  BY <1>3, CancelOrderEffect
<1>4. QED
  BY <1>1, <1>2, <1>3, MatchBestEffect DEF Next, MatchLimitOrders

-----------------------------------------------------------------------------
(* The entry of a key leads to an order that rests and uses this entry.    *)
LeadsTo(key, slot) ==
  LET location == orderIdtoPriceMapping[key]
  IN  /\ pool[slot].side = location.side
      /\ PriceToIndex(pool[slot].price) = PriceToIndex(location.price)
      /\ Key(pool[slot].id) = key

EntriesLead ==
  \A key \in Slot : orderIdtoPriceMapping[key].isValid => \E slot \in Resting : LeadsTo(key, slot)

LEMMA MappingLeadsToOrderParts == OrderedBook => (MappingLeadsToOrder <=> EntriesLead)
<1> SUFFICES ASSUME OrderedBook
             PROVE  MappingLeadsToOrder <=> EntriesLead
  OBVIOUS
<1> SUFFICES ASSUME NEW key \in Slot, orderIdtoPriceMapping[key].isValid
             PROVE  (/\ IsTradable(orderIdtoPriceMapping[key].price)
                     /\ \E slot \in ToSet(priceLevel[orderIdtoPriceMapping[key].side]
                                            [PriceToIndex(orderIdtoPriceMapping[key].price)]) :
                          Key(pool[slot].id) = key)
                    <=> \E slot \in Resting : LeadsTo(key, slot)
  BY DEF MappingLeadsToOrder, EntriesLead
<1> DEFINE side == orderIdtoPriceMapping[key].side
           level == PriceToIndex(orderIdtoPriceMapping[key].price)
<1>1. side \in Side /\ level \in Level /\ IsTradable(orderIdtoPriceMapping[key].price)
  BY DEF OrderedBook, TypedBook, TypeOK, BookTypeOK, LocationsTradable, OrderLocation, IsTradable
<1>2. ASSUME NEW slot
      PROVE  slot \in ToSet(priceLevel[side][level]) <=>
               slot \in Resting /\ pool[slot].side = side /\ PriceToIndex(pool[slot].price) = level
  BY <1>1, QueuedFacts, RestingFacts
<1>3. QED
  BY <1>1, <1>2 DEF LeadsTo

(* Every step of the engine keeps the entries leading to orders.           *)
LEMMA StepLeads == OrderedBook /\ EntriesLead /\ [Next]_vars => EntriesLead'
<1> SUFFICES ASSUME OrderedBook, EntriesLead, [Next]_vars,
                    NEW key \in Slot, orderIdtoPriceMapping'[key].isValid
             PROVE  \E slot \in Resting' : LeadsTo(key, slot)'
  BY DEF EntriesLead
<1>1. OrderedBook'
  BY OrderedBookStays
<1>2. orderIdtoPriceMapping \in [Slot -> OrderLocation] /\ pool \in [Slot -> Order]
  BY DEF OrderedBook, TypedBook, TypeOK, BookTypeOK
<1>3. ASSUME UNCHANGED bookVars, Resting' = Resting
      PROVE  \E slot \in Resting' : LeadsTo(key, slot)'
  BY <1>3 DEF EntriesLead, LeadsTo, bookVars
<1>4. ASSUME NEW side \in Side, NEW volume \in Volumes, NEW price \in Prices, NEW new \in Slot,
             TakesSlot(new, NewOrder(side, volume, price))
      PROVE  \E slot \in Resting' : LeadsTo(key, slot)'
  <2> DEFINE order == NewOrder(side, volume, price)
  <2>1. pool'[new] = order /\ \A slot \in Resting : pool'[slot] = pool[slot]
    BY <1>2, <1>4, RestingFacts DEF TakesSlot
  <2>2. Resting \subseteq Resting'
    BY <1>4 DEF TakesSlot
  <2>3. CASE orderIdtoPriceMapping'[key] = orderIdtoPriceMapping[key]
    BY <2>1, <2>2, <2>3 DEF EntriesLead, LeadsTo
  <2>4. CASE /\ new \in Resting'
             /\ key = Key(order.id)
             /\ orderIdtoPriceMapping'[key] =
                  [isValid |-> TRUE, side |-> order.side, price |-> order.price]
    BY <2>1, <2>4 DEF LeadsTo
  <2> HIDE DEF order
  <2>5. QED
    BY <1>2, <1>4, <2>3, <2>4 DEF TakesSlot, order
<1>5. ASSUME NEW keys, orderIdtoPriceMapping' = Forgotten(keys),
             \A slot \in Slot : SameButVolume(pool[slot], pool'[slot]),
             NEW gone, StackAfterPush(gone), \A slot \in gone : Key(pool[slot].id) \in keys
      PROVE  \E slot \in Resting' : LeadsTo(key, slot)'
  <2>1. key \notin keys /\ orderIdtoPriceMapping'[key] = orderIdtoPriceMapping[key]
    BY <1>5 DEF Forgotten, NoLocation
  <2>2. PICK slot \in Resting : LeadsTo(key, slot)
    BY <2>1 DEF EntriesLead
  <2>3. slot \in Resting'
    BY <1>5, <2>1, <2>2 DEF LeadsTo, StackAfterPush
  <2>4. SameButVolume(pool[slot], pool'[slot])
    BY <1>5, RestingFacts
  <2>5. QED
    BY <2>1, <2>2, <2>3, <2>4 DEF LeadsTo, SameButVolume
<1>6. ASSUME NEW orderId \in OrderIds, TakesOut(orderId)
      PROVE  \E slot \in Resting' : LeadsTo(key, slot)'
  <2>1. CASE orderIdtoPriceMapping' = orderIdtoPriceMapping /\ StackAfterPush({})
    BY <1>6, <2>1 DEF TakesOut, StackAfterPush, EntriesLead, LeadsTo
  <2>2. ASSUME orderIdtoPriceMapping' = Forgotten({Key(orderId)}),
               NEW gone, StackAfterPush(gone), \A slot \in gone : pool[slot].id = orderId
        PROVE  \E slot \in Resting' : LeadsTo(key, slot)'
    <3>1. \A slot \in Slot : SameButVolume(pool[slot], pool'[slot])
      BY <1>6 DEF TakesOut, SameButVolume
    <3>2. \A slot \in gone : Key(pool[slot].id) \in {Key(orderId)}
      BY <2>2
    <3>3. QED
      BY <1>5, <2>2, <3>1, <3>2
  <2>3. QED
    BY <1>6, <2>1, <2>2 DEF TakesOut
<1>7. ASSUME NEW bid, NEW ask, NEW volume, NEW filled \in SUBSET Resting,
             FillsBest(bid, ask, volume, filled)
      PROVE  \E slot \in Resting' : LeadsTo(key, slot)'
  <2>1. \A slot \in Slot : SameButVolume(pool[slot], pool'[slot])
    BY <1>7, FillsOnlyVolume
  <2> DEFINE keys == {Key(pool[slot].id) : slot \in filled}
  <2>2. /\ orderIdtoPriceMapping' = Forgotten(keys)
        /\ StackAfterPush(filled)
        /\ \A slot \in filled : Key(pool[slot].id) \in keys
    BY <1>7 DEF FillsBest
  <2> HIDE DEF keys
  <2>3. QED
    BY <1>5, <2>1, <2>2
<1>8. QED
  BY <1>1, <1>3, <1>4, <1>6, <1>7, NextEffect DEF vars, bookVars, Resting, RestingOn

(* A valid entry of the id table always leads to a queue that holds an     *)
(* order which uses the entry: removeOrderFromOrderId looks at no empty    *)
(* level and no level outside the book.                                    *)
THEOREM EntriesLeadToOrders == Spec => []MappingLeadsToOrder
<1>1. Init => EntriesLead
  BY DEF Init, BookInit, NoLocation, EntriesLead
<1>2. TypedBook /\ SlotsHaveOneOwner /\ QueuesInArrivalOrder => OrderedBook
  BY DEF OrderedBook
<1>3. QED
  BY <1>1, <1>2, StepLeads, MappingLeadsToOrderParts, BookIsTyped, OneOwner, ArrivalOrder, PTL
  DEF Spec

LEMMA StepReturnsSlots ==
  ASSUME OrderedBook, OrderedBook', Next, result' # Rejected("price")
  PROVE  Accounted' = Accounted
<1>1. CASE UNCHANGED bookVars /\ Resting' = Resting
  BY <1>1 DEF Accounted, bookVars
<1>2. ASSUME NEW order, NEW slot \in Slot, TakesSlot(slot, order)
      PROVE  Accounted' = Accounted
  BY <1>2 DEF TakesSlot, StackAfterPop, Accounted
<1>3. ASSUME NEW gone, StackAfterPush(gone)
      PROVE  Accounted' = Accounted
  BY <1>3 DEF StackAfterPush, Accounted
<1>4. QED
  BY <1>1, <1>2, <1>3, NextEffect DEF TakesOut, FillsBest

(* Whatever leaves the book returns its slot in the same step, and         *)
(* whatever takes a slot rests, except an order rejected for its price.    *)
THEOREM SlotsAlwaysReturn == Spec => SlotsReturnWithOrders
<1> DEFINE Returns == Accounted' # Accounted => result' = Rejected("price")
<1>1. OrderedBook /\ [Next]_vars => [Returns]_vars
  BY OrderedBookStays, StepReturnsSlots
<1>2. TypedBook /\ SlotsHaveOneOwner /\ QueuesInArrivalOrder => OrderedBook
  BY DEF OrderedBook
<1>3. QED
  BY <1>1, <1>2, BookIsTyped, OneOwner, ArrivalOrder, PTL DEF Spec, SlotsReturnWithOrders

-----------------------------------------------------------------------------
(* The converse.  An order keeps its entry as long as no call names an id  *)
(* that shares it; an id is alone in this sense when neither an id that    *)
(* was given out nor one that a client may name does.                      *)
Alone(orderId) ==
  \A other \in (OrderIds \union 1 .. atomicOrderID) \ {orderId} : Key(other) # Key(orderId)

HasEntry(slot) ==
  orderIdtoPriceMapping[Key(pool[slot].id)] =
    [isValid |-> TRUE, side |-> pool[slot].side, price |-> pool[slot].price]

(* The calls that leave the entry of a resting order alone.                *)
LEMMA EntryOfNewOrder ==
  ASSUME OrderedBook, NEW new \in Slot, NEW order, TakesSlot(new, order), order.id \in Nat
  PROVE  /\ IsTradable(order.price) => HasEntry(new)'
         /\ \A slot \in Resting :
              /\ pool'[slot] = pool[slot]
              /\ Key(order.id) # Key(pool[slot].id) /\ HasEntry(slot) => HasEntry(slot)'
<1>1. /\ pool'[new] = order
      /\ \A slot \in Resting : pool'[slot] = pool[slot]
  BY OrderedBookParts, RestingFacts DEF TakesSlot
<1>2. /\ orderIdtoPriceMapping \in [Slot -> OrderLocation]
      /\ Key(order.id) \in Slot
      /\ \A slot \in Resting : Key(pool[slot].id) \in Slot
  <2>1. \A slot \in Resting : pool[slot].id \in Nat
    BY OrderedBookParts, RestingFacts
  <2>2. QED
    BY <2>1, KeyInTable DEF OrderedBook, TypedBook, TypeOK, BookTypeOK
<1>3. ASSUME IsTradable(order.price)
      PROVE  HasEntry(new)'
  BY <1>1, <1>2, <1>3 DEF HasEntry, TakesSlot
<1>4. ASSUME NEW slot \in Resting, Key(order.id) # Key(pool[slot].id), HasEntry(slot)
      PROVE  HasEntry(slot)'
  <2>1. orderIdtoPriceMapping'[Key(pool[slot].id)] = orderIdtoPriceMapping[Key(pool[slot].id)]
    BY <1>2, <1>4 DEF TakesSlot
  <2>2. QED
    BY <1>1, <1>4, <2>1 DEF HasEntry
<1>5. QED
  BY <1>1, <1>3, <1>4

LEMMA EntryNotForgotten ==
  ASSUME OrderedBook, NEW slot \in Resting, HasEntry(slot), NEW keys,
         orderIdtoPriceMapping' = Forgotten(keys), Key(pool[slot].id) \notin keys,
         SameButVolume(pool[slot], pool'[slot])
  PROVE  HasEntry(slot)'
<1>1. pool[slot].id \in Nat
  BY OrderedBookParts, RestingFacts
<1>2. Key(pool[slot].id) \in Slot
  BY <1>1, KeyInTable
<1>3. QED
  BY <1>2 DEF HasEntry, Forgotten, SameButVolume

(* The order of an entry is found there.                                   *)
LEMMA CancelFindsEntry ==
  ASSUME OrderedBook, NEW slot \in Resting, HasEntry(slot), TakesOut(pool[slot].id)
  PROVE  StackAfterPush({slot})
<1> DEFINE location == orderIdtoPriceMapping[Key(pool[slot].id)]
           queue == priceLevel[location.side][PriceToIndex(location.price)]
<1>1. location.isValid /\ location.side = pool[slot].side /\ location.price = pool[slot].price
  BY DEF HasEntry
<1>2. /\ slot \in ToSet(queue)
      /\ pool[slot].side \in Side
      /\ PriceToIndex(pool[slot].price) \in Level
  BY <1>1, RestingFacts DEF IsTradable
<1>3. PICK other \in ToSet(queue) : pool[other].id = pool[slot].id /\ StackAfterPush({other})
  BY <1>1, <1>2 DEF TakesOut
<1>4. other \in Resting
  BY <1>1, <1>2, <1>3, QueuedFacts
<1>5. QED
  BY <1>3, <1>4, RestingFacts

(* The inductive invariant.                                                *)
EntriesOfAlone == \A slot \in Resting : Alone(pool[slot].id) => HasEntry(slot)

LEMMA StepKeepsEntries == OrderedBook /\ EntriesOfAlone /\ [Next]_vars => EntriesOfAlone'
<1> SUFFICES ASSUME OrderedBook, EntriesOfAlone, [Next]_vars
             PROVE  EntriesOfAlone'
  OBVIOUS
<1>1. OrderedBook'
  BY OrderedBookStays
<1>2. \A slot \in Resting : pool[slot].id \in 1 .. atomicOrderID
  BY RestingFacts
<1>3. CASE UNCHANGED <<bookVars, atomicOrderID>> /\ Resting' = Resting
  BY <1>3 DEF EntriesOfAlone, Alone, HasEntry, bookVars
<1>4. ASSUME NEW side \in Side, NEW volume \in Volumes, NEW price \in Prices, NEW new \in Slot,
             TakesSlot(new, NewOrder(side, volume, price))
      PROVE  EntriesOfAlone'
  <2> DEFINE order == NewOrder(side, volume, price)
  <2>1. /\ order.id = atomicOrderID + 1
        /\ order.id \in Nat
        /\ order.id \in 1 .. atomicOrderID'
        /\ 1 .. atomicOrderID \subseteq 1 .. atomicOrderID'
        /\ \A n \in 1 .. atomicOrderID : n # order.id
    BY <1>4, OrderedBookParts DEF NewOrder, TakesSlot
  <2>2. TakesSlot(new, order)
    BY <1>4
  <2> HIDE DEF order
  <2>3. /\ IsTradable(order.price) => HasEntry(new)'
        /\ \A slot \in Resting :
             /\ pool'[slot] = pool[slot]
             /\ Key(order.id) # Key(pool[slot].id) /\ HasEntry(slot) => HasEntry(slot)'
    BY <2>1, <2>2, EntryOfNewOrder
  <2>4. ASSUME NEW slot \in Resting, Alone(pool[slot].id)'
        PROVE  HasEntry(slot)'
    <3>1. pool'[slot].id = pool[slot].id /\ pool[slot].id # order.id
      BY <1>2, <2>1, <2>3
    <3>2. Alone(pool[slot].id) /\ Key(order.id) # Key(pool[slot].id)
      BY <2>1, <2>4, <3>1 DEF Alone
    <3>3. QED
      BY <2>3, <3>2 DEF EntriesOfAlone
  <2>5. \/ Resting' = Resting
        \/ Resting' = Resting \union {new} /\ IsTradable(order.price)
    BY <2>2 DEF TakesSlot
  <2>6. QED
    BY <2>3, <2>4, <2>5 DEF EntriesOfAlone
<1>5. ASSUME NEW keys, orderIdtoPriceMapping' = Forgotten(keys), atomicOrderID' = atomicOrderID,
             \A slot \in Slot : SameButVolume(pool[slot], pool'[slot]),
             NEW gone, StackAfterPush(gone),
             \A slot \in Resting \ gone : Alone(pool[slot].id) => Key(pool[slot].id) \notin keys
      PROVE  EntriesOfAlone'
  <2>1. ASSUME NEW slot \in Resting', Alone(pool[slot].id)'
        PROVE  HasEntry(slot)'
    <3>1. slot \in Resting \ gone
      BY <1>5, <2>1 DEF StackAfterPush
    <3>2. SameButVolume(pool[slot], pool'[slot])
      BY <1>5, <3>1, RestingFacts
    <3>3. Alone(pool[slot].id)
      BY <1>5, <2>1, <3>2 DEF Alone, SameButVolume
    <3>4. HasEntry(slot) /\ Key(pool[slot].id) \notin keys
      BY <1>5, <3>1, <3>3 DEF EntriesOfAlone
    <3>5. QED
      BY <1>5, <3>1, <3>2, <3>4, EntryNotForgotten
  <2>2. QED
    BY <2>1 DEF EntriesOfAlone
<1>6. ASSUME NEW orderId \in OrderIds, TakesOut(orderId)
      PROVE  EntriesOfAlone'
  <2>1. /\ \A slot \in Slot : SameButVolume(pool[slot], pool'[slot])
        /\ pool' = pool /\ atomicOrderID' = atomicOrderID
    BY <1>6 DEF TakesOut, SameButVolume
  <2>2. CASE orderIdtoPriceMapping' = orderIdtoPriceMapping /\ StackAfterPush({})
    BY <2>1, <2>2 DEF StackAfterPush, EntriesOfAlone, Alone, HasEntry
  <2>3. ASSUME orderIdtoPriceMapping' = Forgotten({Key(orderId)}),
               NEW gone, StackAfterPush(gone),
               \A slot \in Resting : Alone(pool[slot].id) /\ pool[slot].id = orderId => slot \in gone
        PROVE  EntriesOfAlone'
    <3>1. \A slot \in Resting \ gone : Alone(pool[slot].id) => Key(pool[slot].id) \notin {Key(orderId)}
      BY <2>3 DEF Alone
    <3>2. QED
      BY <1>5, <2>1, <2>3, <3>1
  <2>4. ASSUME NEW slot \in Resting, Alone(pool[slot].id), pool[slot].id = orderId
        PROVE  /\ orderIdtoPriceMapping[Key(orderId)].isValid
               /\ StackAfterPush({slot})
    <3>1. HasEntry(slot)
      BY <2>4 DEF EntriesOfAlone
    <3>2. StackAfterPush({slot})
      BY <1>6, <2>4, <3>1, CancelFindsEntry
    <3>3. QED
      BY <2>4, <3>1, <3>2 DEF HasEntry
  <2>5. CASE \E slot \in Resting : Alone(pool[slot].id) /\ pool[slot].id = orderId
    <3>1. PICK slot \in Resting : Alone(pool[slot].id) /\ pool[slot].id = orderId
      BY <2>5
    <3>2. orderIdtoPriceMapping' = Forgotten({Key(orderId)}) /\ StackAfterPush({slot})
      BY <1>6, <2>4, <3>1 DEF TakesOut
    <3>3. \A other \in Resting : pool[other].id = orderId => other \in {slot}
      BY <3>1, RestingFacts
    <3>4. QED
      BY <2>3, <3>2, <3>3
  <2>6. CASE ~\E slot \in Resting : Alone(pool[slot].id) /\ pool[slot].id = orderId
    <3>1. CASE \E gone : StackAfterPush(gone) /\ orderIdtoPriceMapping' = Forgotten({Key(orderId)})
      BY <2>3, <2>6, <3>1
    <3>2. QED
      BY <1>6, <2>2, <3>1 DEF TakesOut
  <2>7. QED
    BY <2>5, <2>6
<1>7. ASSUME NEW bid, NEW ask, NEW volume, NEW filled \in SUBSET Resting,
             FillsBest(bid, ask, volume, filled)
      PROVE  EntriesOfAlone'
  <2>1. \A slot \in Slot : SameButVolume(pool[slot], pool'[slot])
    BY <1>7, FillsOnlyVolume
  <2> DEFINE keys == {Key(pool[slot].id) : slot \in filled}
  <2>2. /\ orderIdtoPriceMapping' = Forgotten(keys)
        /\ StackAfterPush(filled)
        /\ atomicOrderID' = atomicOrderID
    BY <1>7 DEF FillsBest
  <2>3. ASSUME NEW slot \in Resting \ filled, Alone(pool[slot].id), NEW other \in filled
        PROVE  Key(pool[slot].id) # Key(pool[other].id)
    <3>1. other # slot /\ other \in Resting
      OBVIOUS
    <3>2. pool[other].id # pool[slot].id /\ pool[other].id \in 1 .. atomicOrderID
      BY <1>2, <3>1, RestingFacts
    <3>3. QED
      BY <2>3, <3>2 DEF Alone
  <2>4. \A slot \in Resting \ filled : Alone(pool[slot].id) => Key(pool[slot].id) \notin keys
    BY <2>3
  <2> HIDE DEF keys
  <2>5. QED
    BY <1>5, <2>1, <2>2, <2>4
<1>8. QED
  BY <1>1, <1>3, <1>4, <1>6, <1>7, NextEffect DEF vars, bookVars, Resting, RestingOn

LEMMA NothingRestsYet == Init => Resting = {}
<1>1. Init => \A s \in Side, l \in Level : DOMAIN priceLevel[s][l] = {}
  BY EmptySeq, LenProperties DEF Init, BookInit
<1>2. QED
  BY <1>1, RestingHasPlace

LEMMA EntriesOfAloneInit == Init => EntriesOfAlone
BY NothingRestsYet DEF EntriesOfAlone

LEMMA OnlyCancelOrderCancels ==
  ASSUME Next, result'.op = "cancelled"
  PROVE  \E orderId \in OrderIds : CancelOrder(orderId) /\ result'.id = orderId
<1>1. ASSUME NEW side \in Side, NEW volume \in Volumes, NEW price \in Prices
      PROVE  ~AddOrder(side, volume, price)
  BY DEF AddOrder, AddOrderPoolEmpty, AddOrderToSlot, Accepted, Rejected
<1>2. ~MatchNothing
  BY DEF MatchNothing, NoTrade
<1>3. ~MatchBest
  BY DEF MatchBest, Trade
<1>4. PICK orderId \in OrderIds : CancelOrder(orderId)
  BY <1>1, <1>2, <1>3 DEF Next, MatchLimitOrders
<1>5. result'.id = orderId
  BY <1>4 DEF CancelOrder, Cancelled
<1>6. QED
  BY <1>4, <1>5

-----------------------------------------------------------------------------
(* The non-negative numbers that an int can hold.                         *)
PlainInt == 0 .. INT_LIMIT - 1

(* Volumes that fit an int trade and shrink by plain arithmetic.           *)
LEMMA PlainFill ==
  ASSUME NEW bid \in PlainInt, NEW ask \in PlainInt
  PROVE  LET volume == TradeVolume(ask, bid)
         IN  /\ volume = Min({bid, ask})
             /\ volume \in PlainInt /\ volume <= bid /\ volume <= ask
             /\ \A before \in {bid, ask} :
                  /\ ReduceVolume(before, volume) = before - volume
                  /\ before - volume \in PlainInt
                  /\ GetVolume(before - volume) = before - volume
<1>1. /\ INT_LIMIT \in Nat /\ U64_LIMIT \in Nat /\ INT_LIMIT < U64_LIMIT
      /\ \A n \in PlainInt : ToInt(n) = n /\ ToU64(n) = n
  <2>1. INT_LIMIT \in Nat /\ U64_LIMIT \in Nat /\ INT_LIMIT < U64_LIMIT
    BY MachineIntegersAssumption
  <2>2. \A n \in PlainInt : ToInt(n) = n
    BY <2>1, ToIntKeepsResidue DEF PlainInt
  <2>3. \A n \in PlainInt : ToU64(n) = n
    BY <2>1 DEF PlainInt, ToU64
  <2>4. QED
    BY <2>1, <2>2, <2>3
<1> DEFINE volume == IF ask <= bid THEN ask ELSE bid
<1>2. bid \in Nat /\ ask \in Nat /\ bid < INT_LIMIT /\ ask < INT_LIMIT
  BY <1>1 DEF PlainInt
<1>3. volume \in PlainInt /\ volume <= bid /\ volume <= ask /\ volume \in Nat
  BY <1>2
<1>4. Min({ask, bid}) = volume /\ {ask, bid} = {bid, ask}
  BY <1>2, MinOfTwo
<1>5. TradeVolume(ask, bid) = volume
  <2>1. GetVolume(ask) = ask /\ GetVolume(bid) = bid
    BY <1>1 DEF GetVolume
  <2> HIDE DEF volume
  <2>2. QED
    BY <1>1, <1>3, <1>4, <2>1 DEF TradeVolume
<1> HIDE DEF volume
<1>6. ASSUME NEW before \in {bid, ask}
      PROVE  /\ ReduceVolume(before, volume) = before - volume
             /\ before - volume \in PlainInt
             /\ GetVolume(before - volume) = before - volume
  <2>1. before \in PlainInt /\ before \in Nat /\ before < INT_LIMIT /\ volume <= before
    BY <1>2, <1>3
  <2>2. before - volume \in PlainInt
    BY <1>1, <1>3, <2>1 DEF PlainInt
  <2>3. Min({before, volume}) = volume
    BY <1>3, <2>1, MinOfTwo
  <2>4. before = 0 => before - volume = 0
    BY <1>3, <2>1
  <2>5. ReduceVolume(before, volume) = before - volume
    BY <1>1, <1>3, <2>2, <2>3, <2>4 DEF ReduceVolume
  <2>6. QED
    BY <1>1, <2>2, <2>5 DEF GetVolume
<1>7. QED
  BY <1>3, <1>4, <1>5, <1>6

(* Every object of the pool holds a volume that fits an int.               *)
PlainVolumes == \A slot \in Slot : pool[slot].volume \in PlainInt

(* What a trade does to the two orders, in plain arithmetic.               *)
FillsExactly(bid, ask, volume, filled) ==
  /\ bid \in Slot /\ ask \in Slot /\ bid # ask
  /\ volume = Min({pool[bid].volume, pool[ask].volume})
  /\ volume \in PlainInt
  /\ result' = Trade(bid, ask, volume, Ticks(ask))
  /\ \A slot \in {bid, ask} :
       /\ pool'[slot] = [pool[slot] EXCEPT !.volume = pool[slot].volume - volume]
       /\ pool'[slot].volume = pool[slot].volume - volume
       /\ pool'[slot].volume \in PlainInt
       /\ slot \in filled <=> pool'[slot].volume = 0
  /\ \A slot \in Slot \ {bid, ask} : pool'[slot] = pool[slot]

LEMMA PlainFillsBest ==
  ASSUME OrderedBook, PlainVolumes, NEW bid, NEW ask, NEW filled,
         FillsBest(bid, ask, TradeVolume(pool[ask].volume, pool[bid].volume), filled)
  PROVE  FillsExactly(bid, ask, TradeVolume(pool[ask].volume, pool[bid].volume), filled)
<1> DEFINE volume == TradeVolume(pool[ask].volume, pool[bid].volume)
<1>1. bid \in Slot /\ ask \in Slot /\ bid # ask
  BY RestingFacts DEF FillsBest, Resting
<1>2. /\ volume = Min({pool[bid].volume, pool[ask].volume})
      /\ volume \in PlainInt
      /\ \A slot \in {bid, ask} :
           /\ ReduceVolume(pool[slot].volume, volume) = pool[slot].volume - volume
           /\ pool[slot].volume - volume \in PlainInt
           /\ GetVolume(pool[slot].volume - volume) = pool[slot].volume - volume
  <2>1. pool[bid].volume \in PlainInt /\ pool[ask].volume \in PlainInt
    BY <1>1 DEF PlainVolumes
  <2>2. QED
    BY <2>1, PlainFill
<1>3. /\ pool' = [pool EXCEPT ![bid].volume = ReduceVolume(pool[bid].volume, volume),
                              ![ask].volume = ReduceVolume(pool[ask].volume, volume)]
      /\ result' = Trade(bid, ask, volume, Ticks(ask))
      /\ filled = {slot \in {bid, ask} : GetVolume(pool'[slot].volume) = 0}
  BY DEF FillsBest
<1> HIDE DEF volume
<1>4. pool \in [Slot -> Order]
  BY OrderedBookParts
<1>5. \A slot \in {bid, ask} :
        pool'[slot] = [pool[slot] EXCEPT !.volume = pool[slot].volume - volume]
  BY <1>1, <1>2, <1>3, <1>4
<1>6. \A slot \in {bid, ask} : pool'[slot].volume = pool[slot].volume - volume
  BY <1>1, <1>4, <1>5 DEF Order
<1>7. \A slot \in Slot \ {bid, ask} : pool'[slot] = pool[slot]
  BY <1>3, <1>4
<1>8. \A slot \in {bid, ask} : slot \in filled <=> pool[slot].volume - volume = 0
  BY <1>2, <1>3, <1>6
<1>9. FillsExactly(bid, ask, volume, filled)
  BY <1>1, <1>2, <1>3, <1>5, <1>6, <1>7, <1>8 DEF FillsExactly
<1>10. QED
  BY <1>9 DEF volume

LEMMA StepPlain ==
  ASSUME Volumes \subseteq PlainInt
  PROVE  OrderedBook /\ PlainVolumes /\ [Next]_vars => PlainVolumes'
<1> SUFFICES ASSUME OrderedBook, PlainVolumes, [Next]_vars
             PROVE  PlainVolumes'
  OBVIOUS
<1>1. OrderedBook'
  BY OrderedBookStays
<1>2. CASE UNCHANGED pool
  BY <1>2 DEF PlainVolumes
<1>3. ASSUME NEW side \in Side, NEW volume \in Volumes, NEW price \in Prices, NEW new \in Slot,
             TakesSlot(new, NewOrder(side, volume, price))
      PROVE  PlainVolumes'
  <2>1. pool' = [pool EXCEPT ![new] = NewOrder(side, volume, price)]
    BY <1>3 DEF TakesSlot
  <2>2. NewOrder(side, volume, price).volume \in PlainInt
    BY DEF NewOrder
  <2>3. QED
    BY <2>1, <2>2, OrderedBookParts DEF PlainVolumes
<1>4. ASSUME NEW bid, NEW ask, NEW filled,
             FillsBest(bid, ask, TradeVolume(pool[ask].volume, pool[bid].volume), filled)
      PROVE  PlainVolumes'
  <2>1. FillsExactly(bid, ask, TradeVolume(pool[ask].volume, pool[bid].volume), filled)
    BY <1>4, PlainFillsBest
  <2>2. QED
    BY <2>1 DEF FillsExactly, PlainVolumes
<1>5. QED
  BY <1>1, <1>2, <1>3, <1>4, NextEffect DEF vars, bookVars, TakesOut

LEMMA InitPlain == Init => PlainVolumes
BY MachineIntegersAssumption DEF Init, BookInit, PlainVolumes, PlainInt

(* A trade always takes the smaller volume from both orders, never less    *)
(* than nothing, and an order leaves the book exactly when nothing is left *)
(* of it.  That clients' volumes fit an int is the condition without which *)
(* this is false: see TradeIsSmallerVolume.                                *)
THEOREM FillsAlwaysExact ==
  ASSUME Volumes \subseteq 0 .. INT_LIMIT - 1
  PROVE  Spec => FillsAreExact
<1> DEFINE Exact ==
             IsTrade =>
               LET bid == result'.bid
                   ask == result'.ask
               IN  /\ result'.volume = Min({pool[bid].volume, pool[ask].volume})
                   /\ \A slot \in {bid, ask} :
                        /\ pool'[slot].volume = pool[slot].volume - result'.volume
                        /\ slot \in Resting' <=> pool'[slot].volume > 0
<1>1. OrderedBook /\ PlainVolumes /\ [Next]_vars => [Exact]_vars
  <2> SUFFICES ASSUME OrderedBook, PlainVolumes, OrderedBook', Next, IsTrade
               PROVE  Exact
    BY OrderedBookStays
  <2> DEFINE bid == BestOrder(Bid)
             ask == BestOrder(Ask)
             volume == TradeVolume(pool[ask].volume, pool[bid].volume)
  <2>1. MatchBest
    BY OnlyMatchBestTrades
  <2>2. PICK filled \in SUBSET Resting : FillsBest(bid, ask, volume, filled)
    BY <2>1, MatchBestEffect
  <2> HIDE DEF bid, ask
  <2>3. FillsExactly(bid, ask, volume, filled)
    BY <2>2, PlainFillsBest
  <2> HIDE DEF volume
  <2>4. bid \in Resting /\ ask \in Resting /\ Resting' = Resting \ filled
    BY <2>2 DEF FillsBest, StackAfterPush, Resting
  <2>5. result'.bid = bid /\ result'.ask = ask /\ result'.volume = volume
    BY <2>3 DEF FillsExactly, Trade
  <2>6. \A n \in PlainInt : n > 0 <=> n # 0
    BY MachineIntegersAssumption DEF PlainInt
  <2>7. \A slot \in {bid, ask} : slot \in Resting' <=> pool'[slot].volume > 0
    BY <2>3, <2>4, <2>6 DEF FillsExactly
  <2>8. QED
    BY <2>3, <2>5, <2>7 DEF FillsExactly
<1>2. TypedBook /\ SlotsHaveOneOwner /\ QueuesInArrivalOrder => OrderedBook
  BY DEF OrderedBook
<1>3. OrderedBook /\ PlainVolumes /\ [Next]_vars => PlainVolumes'
  BY StepPlain DEF PlainInt
<1>4. QED
  BY <1>1, <1>2, <1>3, InitPlain, BookIsTyped, OneOwner, ArrivalOrder, PTL
  DEF Spec, FillsAreExact

-----------------------------------------------------------------------------
(* The state of LimitOrderBook, as MatchingEngine!Promise maps it.         *)
Book == {pool[slot] : slot \in Resting}
Lost == POOL_SIZE - Cardinality(Resting) - Len(freeStack)

LEMMA FreeAndRestingCounts ==
  OrderedBook =>
    /\ IsFiniteSet(Resting)
    /\ Cardinality(Resting) \in Nat
    /\ Len(freeStack) \in Nat
    /\ Cardinality(Resting) + Len(freeStack) = Cardinality(Accounted)
<1> SUFFICES ASSUME OrderedBook
             PROVE  /\ IsFiniteSet(Resting)
                    /\ Cardinality(Resting) \in Nat
                    /\ Len(freeStack) \in Nat
                    /\ Cardinality(Resting) + Len(freeStack) = Cardinality(Accounted)
  OBVIOUS
<1>1. IsFiniteSet(Resting) /\ Cardinality(Resting) \in Nat
  <2>1. IsFiniteSet(Slot)
    BY OrderBookAssumption, FS_Interval DEF Slot
  <2>2. Resting \subseteq Slot
    BY RestingFacts
  <2>3. QED
    BY <2>1, <2>2, FS_Subset, FS_CardinalityType
<1>2. freeStack \in Seq(Slot) /\ Len(freeStack) \in Nat /\ DOMAIN freeStack = 1 .. Len(freeStack)
  BY OrderedBookParts, LenProperties
<1>3. IsFiniteSet(ToSet(freeStack)) /\ Cardinality(ToSet(freeStack)) = Len(freeStack)
  <2>1. freeStack \in Bijection(1 .. Len(freeStack), ToSet(freeStack))
    BY <1>2, LenProperties DEF Bijection, Injection, Surjection, ToSet, OrderedBook,
       SlotsHaveOneOwner, IsInjective
  <2>2. IsFiniteSet(1 .. Len(freeStack)) /\ Cardinality(1 .. Len(freeStack)) = Len(freeStack)
    BY <1>2, FS_Interval
  <2>3. ExistsBijection(1 .. Len(freeStack), ToSet(freeStack))
    BY <2>1 DEF ExistsBijection
  <2>4. QED
    BY <2>2, <2>3, FS_Bijection
<1>4. ToSet(freeStack) \cap Resting = {}
  BY RestingFacts
<1>5. Cardinality(ToSet(freeStack) \union Resting) = Len(freeStack) + Cardinality(Resting)
  <2>1. Cardinality(ToSet(freeStack) \union Resting) =
          Cardinality(ToSet(freeStack)) + Cardinality(Resting) - Cardinality({})
    BY <1>1, <1>3, <1>4, FS_Union
  <2>2. QED
    BY <1>1, <1>2, <1>3, <2>1, FS_EmptySet
<1>6. QED
  BY <1>1, <1>2, <1>5 DEF Accounted

LEMMA BookCounts ==
  ASSUME OrderedBook
  PROVE  Cardinality(Book) = Cardinality(Resting)
<1> DEFINE f == [slot \in Resting |-> pool[slot]]
<1>1. f \in Bijection(Resting, Book)
  <2>1. \A x, y \in Resting : f[x] = f[y] => x = y
    BY RestingFacts
  <2>2. \A order \in Book : \E slot \in Resting : f[slot] = order
    BY DEF Book
  <2>3. f \in [Resting -> Book]
    BY DEF Book
  <2> HIDE DEF f
  <2>4. f \in Injection(Resting, Book)
    BY <2>1, <2>3 DEF Injection, IsInjective
  <2>5. f \in Surjection(Resting, Book)
    BY <2>2, <2>3 DEF Surjection
  <2>6. QED
    BY <2>4, <2>5 DEF Bijection
<1>2. ExistsBijection(Resting, Book)
  BY <1>1 DEF ExistsBijection
<1>3. QED
  BY <1>2, FreeAndRestingCounts, FS_Bijection

(* LimitOrderBook counts as this module does.                              *)
LEMMA PromiseOperators ==
  /\ \A S : Promise!Cardinality(S) = Cardinality(S)
  /\ \A S : Promise!Min(S) = Min(S)
<1>1. \A S : Promise!Cardinality(S) = Cardinality(S)
  BY Zenon DEF Promise!Cardinality, Cardinality
<1>2. \A S : Promise!Min(S) = Min(S)
  BY Zenon DEF Promise!Min, Min
<1>3. QED
  BY <1>1, <1>2

(* There is room exactly when acquire does not throw.                      *)
LEMMA RoomOnStack ==
  ASSUME OrderedBook
  PROVE  Promise!HasRoom <=> freeStack # <<>>
<1>1. /\ Cardinality(Book) = Cardinality(Resting)
      /\ Cardinality(Resting) \in Nat
      /\ Len(freeStack) \in Nat
      /\ POOL_SIZE \in Nat
      /\ freeStack # <<>> <=> Len(freeStack) # 0
  BY BookCounts, FreeAndRestingCounts, OrderBookAssumption, OrderedBookParts, EmptySeq
<1>2. Promise!HasRoom <=> Cardinality(Book) + Lost < POOL_SIZE
  BY PromiseOperators DEF Promise!HasRoom, Book, Lost
<1>3. Cardinality(Book) + Lost < POOL_SIZE <=> Len(freeStack) # 0
  BY <1>1 DEF Lost
<1>4. QED
  BY <1>1, <1>2, <1>3

LEMMA LostIsUnaccounted ==
  OrderedBook /\ OrderedBook' /\ Accounted' = Accounted => Lost' = Lost
<1>1. OrderedBook => /\ Cardinality(Resting) \in Nat
                     /\ Len(freeStack) \in Nat
                     /\ Cardinality(Resting) + Len(freeStack) = Cardinality(Accounted)
  BY FreeAndRestingCounts
<1>2. (OrderedBook => /\ Cardinality(Resting) \in Nat
                      /\ Len(freeStack) \in Nat
                      /\ Cardinality(Resting) + Len(freeStack) = Cardinality(Accounted))'
  BY <1>1, PTL
<1>3. ASSUME NEW a \in Nat, NEW b \in Nat, NEW c \in Nat, NEW d \in Nat, a + b = c + d
      PROVE  POOL_SIZE - a - b = POOL_SIZE - c - d
  BY <1>3, OrderBookAssumption
<1>4. QED
  BY <1>1, <1>2, <1>3 DEF Lost

-----------------------------------------------------------------------------
(* The prices of the pool's objects fit an int, so the engine and          *)
(* LimitOrderBook read the same prices.                                    *)
PlainPrices == \A slot \in Slot : pool[slot].price \in PlainInt

PromisedBook == OrderedBook /\ PlainVolumes /\ PlainPrices

LEMMA PlainPrice ==
  ASSUME NEW price \in PlainInt
  PROVE  /\ GetPriceInTicks(price) = price
         /\ IsTradable(price) <=> price \in StartOfPrice .. StartOfPrice + NumOfLevels - 1
<1>1. /\ INT_LIMIT \in Nat /\ U64_LIMIT \in Nat /\ INT_LIMIT < U64_LIMIT
      /\ StartOfPrice \in Nat /\ NumOfLevels \in Nat
      /\ StartOfPrice + NumOfLevels <= INT_LIMIT
  BY MachineIntegersAssumption, OrderBookAssumption, LevelBitmapAssumption
<1>2. price \in Nat /\ price < INT_LIMIT /\ price \in U64
  BY <1>1 DEF PlainInt, U64
<1>3. GetPriceInTicks(price) = price
  BY <1>1, <1>2, ToIntKeepsResidue DEF GetPriceInTicks
<1>4. ASSUME IsTradable(price)
      PROVE  price \in StartOfPrice .. StartOfPrice + NumOfLevels - 1
  <2>1. PriceToIndex(price) \in Level /\ price = StartOfPrice + PriceToIndex(price)
    BY <1>2, <1>3, <1>4, TicksOfLevel
  <2>2. QED
    BY <1>1, <2>1 DEF Level
<1>5. ASSUME price \in StartOfPrice .. StartOfPrice + NumOfLevels - 1
      PROVE  IsTradable(price)
  <2> DEFINE index == price - StartOfPrice
  <2>1. index \in 0 .. NumOfLevels - 1 /\ index \in 0 .. INT_LIMIT - 1 /\ index \in 0 .. U64_LIMIT - 1
    BY <1>1, <1>5
  <2>2. ToU64(index) = index
    <3> HIDE DEF index
    <3>1. QED
      BY <1>1, <2>1 DEF ToU64
  <2>3. ToInt(index) = index
    BY <2>1, ToIntKeepsResidue
  <2>4. QED
    BY <2>1, <2>2, <2>3 DEF IsTradable, PriceToIndex, Level
<1>6. QED
  BY <1>3, <1>4, <1>5

(* Seen as records, the two sides are those of LimitOrderBook.             *)
LEMMA SidesOfBook ==
  ASSUME OrderedBook, NEW s \in Side
  PROVE  RestingOn(s) = {slot \in Resting : pool[slot].side = s}
<1>1. ASSUME NEW slot \in RestingOn(s)
      PROVE  slot \in Resting /\ pool[slot].side = s
  <2>1. PICK l \in Level : slot \in ToSet(priceLevel[s][l])
    BY DEF RestingOn
  <2>2. QED
    BY <2>1, QueuedFacts
<1>2. ASSUME NEW slot \in Resting, pool[slot].side = s
      PROVE  slot \in RestingOn(s)
  BY <1>2, RestingFacts DEF RestingOn, IsTradable
<1>3. QED
  BY <1>1, <1>2

LEMMA PromisedSides ==
  ASSUME PromisedBook
  PROVE  /\ \A slot \in Resting : slot \in Slot /\ Ticks(slot) = pool[slot].price
         /\ Promise!Bids = {pool[slot] : slot \in RestingOn(Bid)}
         /\ Promise!Asks = {pool[slot] : slot \in RestingOn(Ask)}
         /\ Promise!Crossing <=> Crossed
<1>1. \A slot \in Resting : slot \in Slot /\ Ticks(slot) = pool[slot].price
  BY RestingFacts, PlainPrice DEF PromisedBook, PlainPrices, Ticks
<1>2. /\ RestingOn(Bid) = {slot \in Resting : pool[slot].side = Bid}
      /\ RestingOn(Ask) = {slot \in Resting : pool[slot].side = Ask}
  BY SidesOfBook DEF PromisedBook, Side
<1>3. Promise!Bids = {pool[slot] : slot \in RestingOn(Bid)}
  BY <1>2 DEF Promise!Bids, Bid
<1>4. Promise!Asks = {pool[slot] : slot \in RestingOn(Ask)}
  BY <1>2 DEF Promise!Asks, Ask
<1>5. Promise!Crossing <=> \E bid \in RestingOn(Bid), ask \in RestingOn(Ask) :
                             pool[bid].price >= pool[ask].price
  BY <1>3, <1>4 DEF Promise!Crossing
<1>6. QED
  BY <1>1, <1>2, <1>3, <1>4, <1>5 DEF Crossed

-----------------------------------------------------------------------------
(* Each thing that a call can do is an action of LimitOrderBook.           *)
LEMMA PromisedSubmit ==
  ASSUME OrderedBook, OrderedBook', NEW side \in Side, NEW volume, NEW price \in PlainInt,
         IsTradable(price), NEW new \in Slot, TakesSlot(new, NewOrder(side, volume, price))
  PROVE  Promise!Submit(side, volume, price)
<1> DEFINE order == [side |-> side, volume |-> volume, id |-> atomicOrderID + 1, price |-> price]
<1>1. NewOrder(side, volume, price) = order
  BY DEF NewOrder
<1>2. /\ new \in ToSet(freeStack)
      /\ new \notin Resting
      /\ Resting' = Resting \union {new}
      /\ pool' = [pool EXCEPT ![new] = order]
      /\ atomicOrderID' = atomicOrderID + 1
      /\ result' = Accepted(atomicOrderID + 1)
      /\ Accounted' = Accounted
  BY <1>1 DEF TakesSlot, StackAfterPop, Accounted
<1>3. Promise!HasRoom
  BY <1>2, RoomOnStack, EmptySeq DEF ToSet
<1>4. price \in StartOfPrice .. StartOfPrice + NumOfLevels - 1
  BY PlainPrice
<1>5. Lost' = Lost
  BY <1>2, LostIsUnaccounted
<1> HIDE DEF order
<1>6. Book' = Book \union {order}
  <2>1. pool'[new] = order /\ \A slot \in Resting : pool'[slot] = pool[slot]
    BY <1>2, OrderedBookParts, RestingFacts
  <2>2. QED
    BY <1>2, <2>1 DEF Book
<1>7. Outcome' = [op |-> "accepted", id |-> atomicOrderID']
  BY <1>2 DEF Outcome, Accepted
<1>8. order = [side |-> side, volume |-> volume, id |-> atomicOrderID', price |-> price]
  BY <1>2 DEF order
<1>9. QED
  BY <1>2, <1>3, <1>4, <1>5, <1>6, <1>7, <1>8 DEF Promise!Submit, Book, Lost

LEMMA PromisedRejectPrice ==
  ASSUME OrderedBook, OrderedBook', NEW side \in Side, NEW volume,
         NEW price \in Prices \intersect PlainInt,
         ~IsTradable(price), NEW new \in Slot, TakesSlot(new, NewOrder(side, volume, price))
  PROVE  Promise!RejectPrice
<1> DEFINE order == NewOrder(side, volume, price)
<1>1. order.price = price
  BY DEF NewOrder
<1>2. /\ new \in ToSet(freeStack)
      /\ Len(freeStack') = Len(freeStack) - 1
      /\ new \notin Resting
      /\ Resting' = Resting
      /\ pool' = [pool EXCEPT ![new] = order]
      /\ atomicOrderID' = atomicOrderID + 1
      /\ result' = Rejected("price")
  BY <1>1 DEF TakesSlot, StackAfterPop
<1>3. Promise!HasRoom
  BY <1>2, RoomOnStack, EmptySeq DEF ToSet
<1>4. Prices \ (StartOfPrice .. StartOfPrice + NumOfLevels - 1) # {}
  BY PlainPrice
<1>5. Lost' = Lost + 1
  <2>1. Cardinality(Resting') = Cardinality(Resting)
    BY <1>2
  <2>2. Cardinality(Resting) \in Nat /\ Len(freeStack) \in Nat /\ POOL_SIZE \in Nat
    BY FreeAndRestingCounts, OrderBookAssumption
  <2>3. Lost' = POOL_SIZE - Cardinality(Resting) - (Len(freeStack) - 1)
    BY <1>2, <2>1 DEF Lost
  <2>4. QED
    BY <2>2, <2>3 DEF Lost
<1> HIDE DEF order
<1>6. Book' = Book
  <2>1. \A slot \in Resting : pool'[slot] = pool[slot]
    BY <1>2, OrderedBookParts, RestingFacts
  <2>2. QED
    BY <1>2, <2>1 DEF Book
<1>7. Outcome' = [op |-> "rejected", reason |-> "price"]
  BY <1>2 DEF Outcome, Rejected
<1>8. QED
  BY <1>2, <1>3, <1>4, <1>5, <1>6, <1>7 DEF Promise!RejectPrice, Book, Lost

(* A call that changes neither the book nor the pool.                      *)
LEMMA PromisedRest ==
  ASSUME UNCHANGED <<freeStack, pool, atomicOrderID>>, Resting' = Resting
  PROVE  Book' = Book /\ Lost' = Lost
BY DEF Book, Lost

LEMMA PromisedRejectFull ==
  ASSUME OrderedBook, AddOrderPoolEmpty, Resting' = Resting
  PROVE  Promise!RejectFull
<1>1. ~Promise!HasRoom
  BY RoomOnStack DEF AddOrderPoolEmpty
<1>2. Book' = Book /\ Lost' = Lost /\ atomicOrderID' = atomicOrderID
  BY PromisedRest DEF AddOrderPoolEmpty, bookVars
<1>3. Outcome' = [op |-> "rejected", reason |-> "pool"]
  BY DEF AddOrderPoolEmpty, Outcome, Rejected
<1>4. QED
  BY <1>1, <1>2, <1>3 DEF Promise!RejectFull, Book, Lost

LEMMA PromisedNoTrade ==
  ASSUME PromisedBook, MatchNothing, Resting' = Resting
  PROVE  Promise!NoTrade
<1>1. ~Promise!Crossing
  BY NoOthersCross, PromisedSides DEF PromisedBook, MatchNothing
<1>2. Book' = Book /\ Lost' = Lost /\ atomicOrderID' = atomicOrderID
  BY PromisedRest DEF MatchNothing, bookVars
<1>3. Outcome' = [op |-> "noTrade"]
  BY DEF MatchNothing, Outcome, NoTrade
<1>4. QED
  BY <1>1, <1>2, <1>3 DEF Promise!NoTrade, Book, Lost

(* A cancel that leaves its order was for an id that shares its entry.     *)
LEMMA PromisedCancel ==
  ASSUME OrderedBook, OrderedBook', EntriesOfAlone, NEW orderId \in OrderIds, TakesOut(orderId)
  PROVE  Promise!Cancel(orderId)
<1>1. pool' = pool /\ atomicOrderID' = atomicOrderID /\ result' = Cancelled(orderId)
  BY DEF TakesOut
<1>2. PICK gone : StackAfterPush(gone) /\ \A slot \in gone : pool[slot].id = orderId
  <2>1. ASSUME NEW slot, StackAfterPush({slot}), pool[slot].id = orderId
        PROVE  \E gone : StackAfterPush(gone) /\ \A other \in gone : pool[other].id = orderId
    <3>1. \A other \in {slot} : pool[other].id = orderId
      BY <2>1
    <3>2. QED
      BY <2>1, <3>1
  <2>2. CASE StackAfterPush({})
    BY <2>2
  <2>3. StackAfterPush({}) \/ \E slot : StackAfterPush({slot}) /\ pool[slot].id = orderId
    BY DEF TakesOut
  <2>4. QED
    BY <2>1, <2>2, <2>3
<1>3. Book' = {pool[slot] : slot \in Resting \ gone}
  BY <1>1, <1>2 DEF StackAfterPush, Book
<1>4. ASSUME NEW slot \in Resting \ gone, pool[slot].id = orderId
      PROVE  Promise!SharesEntry(orderId) /\ Book' = Book
  <2>1. gone = {}
    BY <1>2, <1>4, RestingFacts DEF StackAfterPush
  <2>2. ~StackAfterPush({slot})
    BY <1>2, <1>4 DEF StackAfterPush
  <2>3. ~Alone(orderId)
    BY <1>4, <2>2, CancelFindsEntry DEF EntriesOfAlone
  <2>4. QED
    BY <1>3, <2>1, <2>3 DEF Alone, Key, Promise!SharesEntry, Book
<1>5. \/ Book' = {order \in Book : order.id # orderId}
      \/ Promise!SharesEntry(orderId) /\ Book' = Book
  <2>1. CASE \A slot \in Resting \ gone : pool[slot].id # orderId
    BY <1>2, <1>3, <2>1 DEF StackAfterPush, Book
  <2>2. QED
    BY <1>4, <2>1
<1>6. Lost' = Lost
  <2>1. Accounted' = Accounted
    BY <1>2 DEF StackAfterPush, Accounted
  <2>2. QED
    BY <2>1, LostIsUnaccounted
<1>7. Outcome' = [op |-> "cancelled", id |-> orderId]
  BY <1>1 DEF Outcome, Cancelled
<1>8. QED
  BY <1>1, <1>5, <1>6, <1>7 DEF Promise!Cancel, Book, Lost

(* The two orders that matchLimitOrders fills are the best of their sides, *)
(* and what is left of them rests on.                                      *)
LEMMA PromisedBest ==
  ASSUME PromisedBook, NEW s \in Side, HasBest(s), NEW other \in RestingOn(s) \ {BestOrder(s)}
  PROVE  \/ IF s = Bid THEN pool[other].price < pool[BestOrder(s)].price
                       ELSE pool[other].price > pool[BestOrder(s)].price
         \/ /\ pool[other].price = pool[BestOrder(s)].price
            /\ pool[BestOrder(s)].id < pool[other].id
<1>1. BestOrder(s) \in Resting /\ other \in Resting
  BY BestPlace DEF PromisedBook, Resting, Side
<1>2. Precedes(s, BestOrder(s), other)
  BY BestComesFirst DEF PromisedBook
<1>3. /\ Ticks(BestOrder(s)) = pool[BestOrder(s)].price
      /\ Ticks(other) = pool[other].price
  BY <1>1, PromisedSides
<1>4. pool[BestOrder(s)].price \in Int /\ pool[other].price \in Int
  BY <1>1, PromisedSides, MachineIntegersAssumption DEF PromisedBook, PlainPrices, PlainInt
<1>5. QED
  BY <1>2, <1>3, <1>4 DEF Precedes

LEMMA PromisedBests ==
  ASSUME PromisedBook, HasBest(Bid), HasBest(Ask)
  PROVE  /\ Promise!BestBid(pool[BestOrder(Bid)])
         /\ Promise!BestAsk(pool[BestOrder(Ask)])
<1>1. Bid \in Side /\ Ask \in Side /\ Bid # Ask
  BY DEF Side, Bid, Ask
<1>2. \A order \in Promise!Bids \ {pool[BestOrder(Bid)]} :
        \/ order.price < pool[BestOrder(Bid)].price
        \/ order.price = pool[BestOrder(Bid)].price /\ pool[BestOrder(Bid)].id < order.id
  <2> SUFFICES ASSUME NEW other \in RestingOn(Bid) \ {BestOrder(Bid)}
               PROVE  \/ pool[other].price < pool[BestOrder(Bid)].price
                      \/ /\ pool[other].price = pool[BestOrder(Bid)].price
                         /\ pool[BestOrder(Bid)].id < pool[other].id
    BY PromisedSides
  <2>1. QED
    BY <1>1, PromisedBest
<1>3. \A order \in Promise!Asks \ {pool[BestOrder(Ask)]} :
        \/ order.price > pool[BestOrder(Ask)].price
        \/ order.price = pool[BestOrder(Ask)].price /\ pool[BestOrder(Ask)].id < order.id
  <2> SUFFICES ASSUME NEW other \in RestingOn(Ask) \ {BestOrder(Ask)}
               PROVE  \/ pool[other].price > pool[BestOrder(Ask)].price
                      \/ /\ pool[other].price = pool[BestOrder(Ask)].price
                         /\ pool[BestOrder(Ask)].id < pool[other].id
    BY PromisedSides
  <2>1. QED
    BY <1>1, PromisedBest
<1>4. QED
  BY <1>2, <1>3 DEF Promise!BestBid, Promise!BestAsk

(* The records after a trade.                                              *)
LEMMA BookAfterFills ==
  ASSUME OrderedBook, NEW bid \in Resting, NEW ask \in Resting, NEW volume,
         NEW filled \in SUBSET {bid, ask},
         FillsExactly(bid, ask, volume, filled), Resting' = Resting \ filled
  PROVE  Book' = (Book \ {pool[bid], pool[ask]}) \union
                   {order \in {[pool[bid] EXCEPT !.volume = @ - volume],
                               [pool[ask] EXCEPT !.volume = @ - volume]} : order.volume > 0}
<1> DEFINE left(slot) == [pool[slot] EXCEPT !.volume = @ - volume]
           kept == {order \in {left(bid), left(ask)} : order.volume > 0}
<1>1. /\ pool'[bid] = left(bid) /\ pool'[ask] = left(ask)
      /\ \A slot \in Slot \ {bid, ask} : pool'[slot] = pool[slot]
  BY DEF FillsExactly
<1>2. \A slot \in {bid, ask} : slot \in filled <=> ~(pool'[slot].volume > 0)
  <2>1. \A n \in PlainInt : ~(n > 0) <=> n = 0
    BY MachineIntegersAssumption DEF PlainInt
  <2>2. QED
    BY <2>1 DEF FillsExactly
<1> HIDE DEF left
<1>3. {slot \in {bid, ask} : slot \notin filled} = {slot \in {bid, ask} : pool'[slot].volume > 0}
  BY <1>2
<1>4. kept = {pool'[slot] : slot \in {bid, ask} \ filled}
  <2>1. kept \subseteq {pool'[slot] : slot \in {bid, ask} \ filled}
    BY <1>1, <1>2
  <2>2. {pool'[slot] : slot \in {bid, ask} \ filled} \subseteq kept
    BY <1>1, <1>2
  <2>3. QED
    BY <2>1, <2>2
<1>5. Book \ {pool[bid], pool[ask]} = {pool'[slot] : slot \in Resting \ {bid, ask}}
  <2>1. \A slot \in Resting \ {bid, ask} :
          /\ pool'[slot] = pool[slot]
          /\ pool[slot] # pool[bid] /\ pool[slot] # pool[ask]
    BY <1>1, RestingFacts
  <2>2. Book \ {pool[bid], pool[ask]} \subseteq {pool'[slot] : slot \in Resting \ {bid, ask}}
    BY <2>1 DEF Book
  <2>3. {pool'[slot] : slot \in Resting \ {bid, ask}} \subseteq Book \ {pool[bid], pool[ask]}
    BY <2>1 DEF Book
  <2>4. QED
    BY <2>2, <2>3
<1>6. Resting' = (Resting \ {bid, ask}) \union ({bid, ask} \ filled)
  OBVIOUS
<1> HIDE DEF kept
<1>7. Book' = {pool'[slot] : slot \in Resting \ {bid, ask}} \union
                {pool'[slot] : slot \in {bid, ask} \ filled}
  BY <1>6 DEF Book
<1>8. Book' = (Book \ {pool[bid], pool[ask]}) \union kept
  BY <1>4, <1>5, <1>7
<1>9. QED
  BY <1>8 DEF kept, left

LEMMA PromisedTrade ==
  ASSUME PromisedBook, OrderedBook', MatchBest, NEW filled \in SUBSET Resting,
         FillsBest(BestOrder(Bid), BestOrder(Ask),
                   TradeVolume(pool[BestOrder(Ask)].volume, pool[BestOrder(Bid)].volume), filled)
  PROVE  \E bid \in Promise!Bids, ask \in Promise!Asks : Promise!Trade(bid, ask)
<1> DEFINE bid == BestOrder(Bid)
           ask == BestOrder(Ask)
           volume == TradeVolume(pool[ask].volume, pool[bid].volume)
<1>1. HasBest(Bid) /\ HasBest(Ask) /\ PricesCross
  BY DEF MatchBest
<1>2. Promise!BestBid(pool[bid]) /\ Promise!BestAsk(pool[ask])
  BY <1>1, PromisedBests
<1>3. Ticks(ask) <= Ticks(bid)
  BY <1>1, BestOrdersCross DEF PromisedBook
<1> HIDE DEF bid, ask
<1>4. FillsBest(bid, ask, volume, filled)
  BY DEF bid, ask
<1>5. FillsExactly(bid, ask, volume, filled)
  BY <1>4, PlainFillsBest DEF PromisedBook
<1> HIDE DEF volume
<1>6. /\ bid \in RestingOn(Bid) /\ ask \in RestingOn(Ask)
      /\ bid \in Resting /\ ask \in Resting
      /\ filled \in SUBSET {bid, ask}
      /\ Resting' = Resting \ filled
      /\ ToSet(freeStack') = ToSet(freeStack) \union filled
      /\ atomicOrderID' = atomicOrderID
      /\ result' = Trade(bid, ask, volume, Ticks(ask))
  BY <1>4 DEF FillsBest, StackAfterPush, Resting
<1>7. /\ pool[bid] \in Promise!Bids /\ pool[ask] \in Promise!Asks
      /\ Ticks(bid) = pool[bid].price /\ Ticks(ask) = pool[ask].price
  BY <1>6, PromisedSides
<1>8. pool[bid].price >= pool[ask].price
  <2>1. pool[bid].price \in Int /\ pool[ask].price \in Int
    BY <1>6, PromisedSides, MachineIntegersAssumption DEF PromisedBook, PlainPrices, PlainInt
  <2>2. QED
    BY <1>3, <1>7, <2>1
<1>9. volume = Promise!Min({pool[bid].volume, pool[ask].volume})
  BY <1>5, PromiseOperators DEF FillsExactly
<1>10. Book' = (Book \ {pool[bid], pool[ask]}) \union
                 {order \in {[pool[bid] EXCEPT !.volume = @ - volume],
                             [pool[ask] EXCEPT !.volume = @ - volume]} : order.volume > 0}
  BY <1>5, <1>6, BookAfterFills DEF PromisedBook
<1>11. Outcome' = [op |-> "trade", bid |-> pool[bid].id, ask |-> pool[ask].id,
                   volume |-> volume, price |-> pool[ask].price]
  <2>1. pool'[bid].id = pool[bid].id /\ pool'[ask].id = pool[ask].id
    <3>1. \A slot \in Slot : SameButVolume(pool[slot], pool'[slot])
      BY <1>4, FillsOnlyVolume DEF PromisedBook
    <3>2. QED
      BY <1>5, <3>1 DEF FillsExactly, SameButVolume
  <2>2. Outcome' = [op |-> "trade", bid |-> pool'[bid].id, ask |-> pool'[ask].id,
                    volume |-> volume, price |-> Ticks(ask)]
    BY <1>6 DEF Outcome, Trade
  <2>3. QED
    BY <1>7, <2>1, <2>2
<1>12. Lost' = Lost
  <2>1. Accounted' = Accounted
    BY <1>6 DEF Accounted
  <2>2. QED
    BY <2>1, LostIsUnaccounted DEF PromisedBook
<1>13. PICK theBid \in Promise!Bids, theAsk \in Promise!Asks :
         theBid = pool[bid] /\ theAsk = pool[ask]
  BY <1>7
<1>14. /\ Promise!BestBid(theBid) /\ Promise!BestAsk(theAsk)
       /\ theBid.price >= theAsk.price
       /\ volume = Promise!Min({theBid.volume, theAsk.volume})
       /\ Book' = (Book \ {theBid, theAsk}) \union
                    {order \in {[theBid EXCEPT !.volume = @ - volume],
                                [theAsk EXCEPT !.volume = @ - volume]} : order.volume > 0}
       /\ Outcome' = [op |-> "trade", bid |-> theBid.id, ask |-> theAsk.id,
                      volume |-> volume, price |-> theAsk.price]
  BY <1>2, <1>8, <1>9, <1>10, <1>11, <1>13 DEF bid, ask
<1>15. Promise!Trade(theBid, theAsk)
  BY <1>6, <1>12, <1>14 DEF Promise!Trade, Book, Lost
<1>16. QED
  BY <1>15

-----------------------------------------------------------------------------
LEMMA InitPromised == Init => Promise!Init
<1> SUFFICES ASSUME Init
             PROVE  Promise!Init
  OBVIOUS
<1>1. Book = {}
  BY NothingRestsYet DEF Book
<1>2. Lost = 0
  <2>1. Cardinality(Resting) = 0
    BY NothingRestsYet, FS_EmptySet
  <2>2. POOL_SIZE \in Nat
    BY OrderBookAssumption
  <2>3. Len(freeStack) = POOL_SIZE
    BY <2>2 DEF Init, BookInit
  <2>4. QED
    BY <2>1, <2>2, <2>3 DEF Lost
<1>3. Outcome = [op |-> "nothing"]
  BY DEF Init, Nothing, Outcome
<1>4. atomicOrderID = 0
  BY DEF Init
<1>5. QED
  BY <1>1, <1>2, <1>3, <1>4 DEF Promise!Init, Book, Lost

LEMMA StepPlainPrices ==
  ASSUME Prices \subseteq PlainInt
  PROVE  OrderedBook /\ PlainPrices /\ [Next]_vars => PlainPrices'
<1> SUFFICES ASSUME OrderedBook, PlainPrices, [Next]_vars
             PROVE  PlainPrices'
  OBVIOUS
<1>1. OrderedBook'
  BY OrderedBookStays
<1>2. CASE UNCHANGED pool
  BY <1>2 DEF PlainPrices
<1>3. ASSUME NEW side \in Side, NEW volume \in Volumes, NEW price \in Prices, NEW new \in Slot,
             TakesSlot(new, NewOrder(side, volume, price))
      PROVE  PlainPrices'
  <2>1. pool' = [pool EXCEPT ![new] = NewOrder(side, volume, price)]
    BY <1>3 DEF TakesSlot
  <2>2. NewOrder(side, volume, price).price \in PlainInt
    BY DEF NewOrder
  <2>3. QED
    BY <2>1, <2>2, OrderedBookParts DEF PlainPrices
<1>4. ASSUME NEW bid, NEW ask, NEW volume, NEW filled, FillsBest(bid, ask, volume, filled)
      PROVE  PlainPrices'
  BY <1>4, FillsOnlyVolume DEF PlainPrices, SameButVolume
<1>5. QED
  BY <1>1, <1>2, <1>3, <1>4, NextEffect DEF vars, bookVars, TakesOut

LEMMA InitPlainPrices == Init => PlainPrices
BY MachineIntegersAssumption DEF Init, BookInit, PlainPrices, PlainInt

LEMMA StepPromised ==
  ASSUME Prices \subseteq PlainInt
  PROVE  PromisedBook /\ EntriesOfAlone /\ [Next]_vars => [Promise!Next]_(Promise!vars)
<1> SUFFICES ASSUME PromisedBook, EntriesOfAlone, [Next]_vars
             PROVE  [Promise!Next]_(Promise!vars)
  OBVIOUS
<1>1. OrderedBook /\ OrderedBook'
  BY OrderedBookStays DEF PromisedBook
<1>2. CASE UNCHANGED vars
  <2>1. Book' = Book /\ Lost' = Lost /\ Outcome' = Outcome /\ atomicOrderID' = atomicOrderID
    BY <1>2 DEF vars, bookVars, Book, Lost, Outcome, Resting, RestingOn
  <2>2. QED
    BY <2>1 DEF Promise!vars, Book, Lost
<1>3. CASE Next
  <2>1. CASE /\ AddOrderPoolEmpty \/ MatchNothing
             /\ UNCHANGED <<bookVars, atomicOrderID>>
             /\ Resting' = Resting
    BY <1>1, <2>1, PromisedRejectFull, PromisedNoTrade DEF Promise!Next
  <2>2. ASSUME NEW side \in Side, NEW volume \in Volumes, NEW price \in Prices, NEW slot \in Slot,
               TakesSlot(slot, NewOrder(side, volume, price))
        PROVE  Promise!Next
    <3>1. CASE IsTradable(price)
      <4>1. Promise!Submit(side, volume, price)
        BY <1>1, <2>2, <3>1, PromisedSubmit
      <4>2. QED
        BY <4>1 DEF Promise!Next, Side, Bid, Ask
    <3>2. CASE ~IsTradable(price)
      BY <1>1, <2>2, <3>2, PromisedRejectPrice DEF Promise!Next
    <3>3. QED
      BY <3>1, <3>2
  <2>3. ASSUME NEW orderId \in OrderIds, TakesOut(orderId)
        PROVE  Promise!Next
    BY <1>1, <2>3, PromisedCancel DEF Promise!Next
  <2>4. ASSUME MatchBest, NEW filled \in SUBSET Resting,
               FillsBest(BestOrder(Bid), BestOrder(Ask),
                         TradeVolume(pool[BestOrder(Ask)].volume, pool[BestOrder(Bid)].volume),
                         filled)
        PROVE  Promise!Next
    BY <1>1, <2>4, PromisedTrade DEF Promise!Next
  <2>5. QED
    BY <1>1, <1>3, <2>1, <2>2, <2>3, <2>4, NextEffect
<1>4. QED
  BY <1>2, <1>3

(* The matching engine keeps the promise of LimitOrderBook, step by step,  *)
(* when volumes and prices fit an int.                                     *)
THEOREM EngineKeepsPromise ==
  ASSUME Volumes \subseteq 0 .. INT_LIMIT - 1,
         Prices \subseteq 0 .. INT_LIMIT - 1
  PROVE  Spec => KeepsPromise
<1>1. PromisedBook /\ EntriesOfAlone /\ [Next]_vars => [Promise!Next]_(Promise!vars)
  BY StepPromised DEF PlainInt
<1>2. TypedBook /\ SlotsHaveOneOwner /\ QueuesInArrivalOrder => OrderedBook
  BY DEF OrderedBook
<1>3. OrderedBook /\ PlainVolumes /\ PlainPrices => PromisedBook
  BY DEF PromisedBook
<1>4. OrderedBook /\ PlainVolumes /\ [Next]_vars => PlainVolumes'
  BY StepPlain DEF PlainInt
<1>5. OrderedBook /\ PlainPrices /\ [Next]_vars => PlainPrices'
  BY StepPlainPrices DEF PlainInt
<1>6. QED
  BY <1>1, <1>2, <1>3, <1>4, <1>5, InitPromised, InitPlain, InitPlainPrices,
     EntriesOfAloneInit, StepKeepsEntries, BookIsTyped, OneOwner, ArrivalOrder, PTL
  DEF Spec, KeepsPromise, Promise!Spec
=============================================================================
