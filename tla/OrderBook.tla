------------------------------ MODULE OrderBook ------------------------------
(***************************************************************************)
(* The state of the order book and its operations: the object pool that    *)
(* owns the Order objects (ObjectPool.hpp), one queue of pool slots per    *)
(* side and price level, one bitmap per side that marks the levels with    *)
(* orders, and the table that leads from an order id to its level          *)
(* (OrderBook.hpp, OrderBook.cpp).                                         *)
(*                                                                         *)
(* An operation is an action on the book's variables only; MatchingEngine  *)
(* composes them into the handlers that run under its mutex.  An Order *   *)
(* is the slot of the object in the pool, so that a released object can    *)
(* still be reached and reused, as in the code.                            *)
(***************************************************************************)
EXTENDS MachineIntegers, LevelBitmap, SequencesExt

CONSTANTS
  POOL_SIZE,     (* Objects of the pool and entries of the id table: 10000.*)
  StartOfPrice   (* Price, in cents, of level 0: 950.                      *)

ASSUME OrderBookAssumption ==
  /\ POOL_SIZE \in Nat \ {0}
  /\ StartOfPrice \in Nat
  /\ StartOfPrice + NumOfLevels <= INT_LIMIT

VARIABLES
  freeStack,              (* ObjectPool::freeStack, its top at the end.    *)
  pool,                   (* ObjectPool::pool, the Order objects.          *)
  priceLevel,             (* mBidpriceLevel and mAskPriceLevel.            *)
  bitmap,                 (* mBidBitmap and mAskBitmap.                    *)
  orderIdtoPriceMapping   (* Where to look for an id, by id % POOL_SIZE.   *)

bookVars == <<freeStack, pool, priceLevel, bitmap, orderIdtoPriceMapping>>

Bid == "Bid"
Ask == "Ask"
Side == {Bid, Ask}

Slot == 0 .. POOL_SIZE - 1
Order == [side : Side, volume : U64, id : Nat, price : U64]
OrderLocation == [isValid : BOOLEAN, side : Side, price : U64]

(* The value `{}' that the code assigns to an entry it clears.             *)
NoLocation == [isValid |-> FALSE, side |-> Bid, price |-> 0]

BookTypeOK ==
  /\ freeStack \in Seq(Slot)
  /\ pool \in [Slot -> Order]
  /\ priceLevel \in [Side -> [Level -> Seq(Slot)]]
  /\ bitmap \in [Side -> Bitmap]
  /\ orderIdtoPriceMapping \in [Slot -> OrderLocation]

BookInit ==
  /\ freeStack = [i \in 1 .. POOL_SIZE |-> i - 1]
  /\ pool = [slot \in Slot |-> [side |-> Bid, volume |-> 0, id |-> 0, price |-> 0]]
  /\ priceLevel = [side \in Side |-> [level \in Level |-> <<>>]]
  /\ bitmap = [side \in Side |-> EmptyBitmap]
  /\ orderIdtoPriceMapping = [key \in Slot |-> NoLocation]

-----------------------------------------------------------------------------
(* Faulty variants of the operators below, for mutation testing.           *)
Key_ShortTable(orderId) == orderId % (POOL_SIZE - 1)
Enqueued_Front(queue, slot) == <<slot>> \o queue
Released_Nothing(slots) == freeStack' = freeStack
Released_Twice(slots) == freeStack' = freeStack \o slots \o slots
Forgotten_Nothing(keys) == orderIdtoPriceMapping
Unmarked_Always(side, level, queue) == SetBitTo0(bitmap[side], level)
Unmarked_Never(side, level, queue) == bitmap[side]
FindBestLevel_Swapped(side) ==
  IF side = Bid THEN LowestLevel(bitmap[Bid]) ELSE LowestLevel(bitmap[Ask])

-----------------------------------------------------------------------------
(* priceToIndex subtracts in 64 bits and keeps the difference in an int;   *)
(* an index that is not a level makes it throw std::invalid_argument.      *)
PriceToIndex(price) == ToInt(ToU64(price - StartOfPrice))
IsTradable(price) == PriceToIndex(price) \in Level

(* The entry of the id table that an order id uses.                        *)
Key(orderId) == orderId % POOL_SIZE

(* deque::emplace_back                                                     *)
Enqueued(queue, slot) == Append(queue, slot)

(* ObjectPool::acquire pops the top of the stack, or throws when it is     *)
(* empty; release pushes the slot and checks nothing but its range.        *)
Acquire(slot) ==
  /\ freeStack # <<>>
  /\ slot = Last(freeStack)
  /\ freeStack' = Front(freeStack)

Released(slots) == freeStack' = freeStack \o slots

(* The bitmap of a side after one order left a queue: the bit is cleared   *)
(* when nothing is left of it.                                             *)
Unmarked(side, level, queue) ==
  IF queue = <<>> THEN SetBitTo0(bitmap[side], level) ELSE bitmap[side]

(* The id table after the entries of some ids were cleared.                *)
Forgotten(keys) ==
  [key \in Slot |-> IF key \in keys THEN NoLocation ELSE orderIdtoPriceMapping[key]]

-----------------------------------------------------------------------------
(* findBestBidLevel and findBestAskLevel; getBestBid and getBestAsk throw  *)
(* std::runtime_error unless HasBest, and return BestOrder otherwise.      *)
FindBestLevel(side) ==
  IF side = Bid THEN HighestLevel(bitmap[Bid]) ELSE LowestLevel(bitmap[Ask])

HasBest(side) ==
  /\ FindBestLevel(side) # NoLevel
  /\ priceLevel[side][FindBestLevel(side)] # <<>>

BestOrder(side) == Head(priceLevel[side][FindBestLevel(side)])

(* addBid and addAsk, for an order with a tradable price that is already   *)
(* written to its slot.                                                    *)
Insert(slot, order) ==
  LET level == PriceToIndex(order.price)
  IN  /\ priceLevel' = [priceLevel EXCEPT ![order.side][level] = Enqueued(@, slot)]
      /\ bitmap' = [bitmap EXCEPT ![order.side] = SetBitTo1(@, level)]
      /\ orderIdtoPriceMapping' =
           [orderIdtoPriceMapping EXCEPT ![Key(order.id)] =
              [isValid |-> TRUE, side |-> order.side, price |-> order.price]]

(* removeBid and removeAsk for every side in `filled', the ask's before    *)
(* the bid's: each releases the first order of its best level, takes it    *)
(* off the queue, clears the entry of its id and, when the queue is then   *)
(* empty, the bit of the level.  Each repeats the search that getBestBid   *)
(* and getBestAsk made in the same critical section, so that its early     *)
(* returns and its logic_error, for an empty side or another order at the  *)
(* front, are not taken.                                                   *)
RemoveBest(filled) ==
  LET level(side) == FindBestLevel(side)
      rest(side) == Tail(priceLevel[side][level(side)])
      releasedFrom(side) == IF side \in filled THEN <<BestOrder(side)>> ELSE <<>>
  IN  /\ Released(releasedFrom(Ask) \o releasedFrom(Bid))
      /\ priceLevel' = [side \in Side |->
           IF side \in filled
           THEN [priceLevel[side] EXCEPT ![level(side)] = rest(side)]
           ELSE priceLevel[side]]
      /\ bitmap' = [side \in Side |->
           IF side \in filled
           THEN Unmarked(side, level(side), rest(side))
           ELSE bitmap[side]]
      /\ orderIdtoPriceMapping' =
           Forgotten({Key(pool[BestOrder(side)].id) : side \in filled})

(* removeOrderFromOrderId.  The entry is cleared even when the queue it    *)
(* leads to holds no order with this id; without a valid entry nothing     *)
(* happens, the runtime_error being caught and ignored.                    *)
RemoveOrderFromOrderId(orderId) ==
  LET location == orderIdtoPriceMapping[Key(orderId)]
      side == location.side
      level == PriceToIndex(location.price)
      queue == priceLevel[side][level]
      found == {i \in DOMAIN queue : pool[queue[i]].id = orderId}
      rest == RemoveAt(queue, Min(found))
  IN  \/ /\ ~location.isValid
         /\ UNCHANGED bookVars
      \/ /\ location.isValid
         /\ orderIdtoPriceMapping' = Forgotten({Key(orderId)})
         /\ UNCHANGED pool
         /\ \/ /\ found = {}
               /\ UNCHANGED <<freeStack, priceLevel, bitmap>>
            \/ /\ found # {}
               /\ Released(<<queue[Min(found)]>>)
               /\ priceLevel' = [priceLevel EXCEPT ![side][level] = rest]
               /\ bitmap' = [bitmap EXCEPT ![side] = Unmarked(side, level, rest)]

-----------------------------------------------------------------------------
(* The orders resting in the book, read off the queues.                    *)
RestingOn(side) == UNION {ToSet(priceLevel[side][level]) : level \in Level}
Resting == RestingOn(Bid) \union RestingOn(Ask)

Ticks(slot) == GetPriceInTicks(pool[slot].price)

(* Some bid is willing to pay what some ask demands.                       *)
Crossed == \E bid \in RestingOn(Bid), ask \in RestingOn(Ask) : Ticks(bid) >= Ticks(ask)

(* Order x of a side is to be served before order y of the same side.      *)
Precedes(side, x, y) ==
  \/ IF side = Bid THEN Ticks(x) > Ticks(y) ELSE Ticks(x) < Ticks(y)
  \/ Ticks(x) = Ticks(y) /\ pool[x].id < pool[y].id
=============================================================================
