---------------------------- MODULE MatchingEngine ----------------------------
(***************************************************************************)
(* The matching engine (MatchingEngine.hpp, MatchingEngine.cpp): the three *)
(* handlers that threads call on the shared order book, each an atomic     *)
(* step because it runs under MatchingEngine::mtx from beginning to end.   *)
(* TCP session threads call addOrder and cancelOrder for their clients;    *)
(* the main thread calls matchLimitOrders in an endless loop               *)
(* (TradingSystem::start).                                                 *)
(***************************************************************************)
EXTENDS OrderBook

CONSTANTS
  Volumes,       (* The volumes that clients put into orders.              *)
  Prices,        (* The prices that clients put into orders.               *)
  OrderIds,      (* The ids that clients name in cancels: any, given out   *)
                 (* or not, since the servers check none.                  *)
  MaxOrders      (* Bound on the number of ids that are given out.         *)

ASSUME MatchingEngineAssumption ==
  /\ Volumes \subseteq U64
  /\ Prices \subseteq U64
  /\ OrderIds \subseteq U64
  /\ MaxOrders \in Nat

VARIABLES
  atomicOrderID,   (* OrderIdGenerator::atomicOrderID, the last id given.  *)
  result           (* What the last handler returned or threw.             *)

vars == <<bookVars, atomicOrderID, result>>

Nothing == [op |-> "nothing"]
Accepted(orderId) == [op |-> "accepted", id |-> orderId]
Rejected(reason) == [op |-> "rejected", reason |-> reason]
Cancelled(orderId) == [op |-> "cancelled", id |-> orderId]
NoTrade == [op |-> "noTrade"]
Trade(bid, ask, volume, price) ==
  [op |-> "trade", bid |-> bid, ask |-> ask, volume |-> volume, price |-> price]

Results ==
  {Nothing, NoTrade}
    \union [op : {"accepted", "cancelled"}, id : Nat]
    \union [op : {"rejected"}, reason : {"pool", "price"}]
    \union [op : {"trade"}, bid : Slot, ask : Slot, volume : U64, price : U64]

(* Every field of the program state has the type the code declares for it. *)
TypeOK ==
  /\ BookTypeOK
  /\ atomicOrderID \in Nat
  /\ result \in Results

Init ==
  /\ BookInit
  /\ atomicOrderID = 0
  /\ result = Nothing

-----------------------------------------------------------------------------
(* Faulty variants of the operators below, for mutation testing.           *)
PricesCross_Strict == Ticks(BestOrder(Bid)) > Ticks(BestOrder(Ask))
Left_Unreduced(side, volume) == pool[BestOrder(side)].volume

-----------------------------------------------------------------------------
(* The order that addOrder stores: the client's fields under a fresh id.   *)
NewOrder(side, volume, price) ==
  [side |-> side, volume |-> volume, id |-> atomicOrderID + 1, price |-> price]

(* addOrder with an empty pool: acquire throws before an id is taken.      *)
AddOrderPoolEmpty ==
  /\ freeStack = <<>>
  /\ result' = Rejected("pool")
  /\ UNCHANGED <<bookVars, atomicOrderID>>

(* addOrder otherwise: the slot is acquired, the order copied into it and  *)
(* an id taken; addBid or addAsk then insert it, or priceToIndex throws    *)
(* and nothing gives the slot back.                                        *)
AddOrderToSlot(order) ==
  \E slot \in Slot :
    /\ atomicOrderID < MaxOrders
    /\ Acquire(slot)
    /\ pool' = [pool EXCEPT ![slot] = order]
    /\ atomicOrderID' = atomicOrderID + 1
    /\ \/ /\ IsTradable(order.price)
          /\ Insert(slot, order)
          /\ result' = Accepted(order.id)
       \/ /\ ~IsTradable(order.price)
          /\ result' = Rejected("price")
          /\ UNCHANGED <<priceLevel, bitmap, orderIdtoPriceMapping>>

AddOrder(side, volume, price) ==
  \/ AddOrderPoolEmpty
  \/ AddOrderToSlot(NewOrder(side, volume, price))

(* cancelOrder                                                             *)
CancelOrder(orderId) ==
  /\ RemoveOrderFromOrderId(orderId)
  /\ result' = Cancelled(orderId)
  /\ UNCHANGED atomicOrderID

(* matchLimitOrders compares the two best orders ...                       *)
PricesCross ==
  ToU64(Ticks(BestOrder(Bid))) >= ToU64(Ticks(BestOrder(Ask)))

(* ... and what it leaves of one after taking the trade's volume off it.   *)
Left(side, volume) == ReduceVolume(pool[BestOrder(side)].volume, volume)

(* matchLimitOrders without a match: a side is empty, or the spread is     *)
(* positive.                                                               *)
MatchNothing ==
  /\ ~(HasBest(Ask) /\ HasBest(Bid) /\ PricesCross)
  /\ result' = NoTrade
  /\ UNCHANGED <<bookVars, atomicOrderID>>

(* matchLimitOrders with a match: the two best orders trade the smaller of *)
(* their volumes at the ask's price, and those whose volume then reads 0   *)
(* leave the book.                                                         *)
MatchBest ==
  /\ HasBest(Ask)
  /\ HasBest(Bid)
  /\ PricesCross
  /\ LET bid == BestOrder(Bid)
         ask == BestOrder(Ask)
         volume == TradeVolume(pool[ask].volume, pool[bid].volume)
     IN  /\ pool' = [pool EXCEPT ![bid].volume = Left(Bid, volume),
                                 ![ask].volume = Left(Ask, volume)]
         /\ RemoveBest({side \in Side : GetVolume(Left(side, volume)) = 0})
         /\ result' = Trade(bid, ask, volume, ToU64(Ticks(ask)))
         /\ UNCHANGED atomicOrderID

MatchLimitOrders == MatchNothing \/ MatchBest

Next ==
  \/ \E side \in Side, volume \in Volumes, price \in Prices :
        AddOrder(side, volume, price)
  \/ \E orderId \in OrderIds : CancelOrder(orderId)
  \/ MatchLimitOrders

Spec == Init /\ [][Next]_vars

(* The main thread never stops calling matchLimitOrders.                   *)
FairSpec == Spec /\ WF_vars(MatchLimitOrders)
-----------------------------------------------------------------------------
(* A bit is set exactly for the levels whose queue holds an order, and no  *)
(* bit beyond the last level is ever set: findBestBidLevel and             *)
(* findBestAskLevel then see every resting order and no stale level, and   *)
(* the runtime_error of getBestBid and getBestAsk for a marked but empty   *)
(* level is never thrown.                                                  *)
BitmapMatchesLevels ==
  \A side \in Side :
    /\ \A level \in Level :
         IsMarked(bitmap[side], level) <=> priceLevel[side][level] # <<>>
    /\ WithinLevels(bitmap[side])

(* No Order object has two owners: no slot is on the free stack twice, in  *)
(* two places of the book, or both free and in the book.  acquire, which   *)
(* checks nothing, therefore never hands out the object of a resting       *)
(* order.                                                                  *)
SlotsHaveOneOwner ==
  /\ IsInjective(freeStack)
  /\ \A s \in Side, l \in Level : \A i \in DOMAIN priceLevel[s][l] :
       priceLevel[s][l][i] \notin ToSet(freeStack)
  /\ \A s, t \in Side, l, m \in Level :
       \A i \in DOMAIN priceLevel[s][l], j \in DOMAIN priceLevel[t][m] :
         priceLevel[s][l][i] = priceLevel[t][m][j] => s = t /\ l = m /\ i = j

(* Every resting order stands on its own side, at the level of its price,  *)
(* behind all orders of that level with smaller ids; an id rests once.     *)
(* Ids are given out in the order of arrival, so this is time priority.    *)
QueuesInArrivalOrder ==
  /\ \A s \in Side, l \in Level : \A i \in DOMAIN priceLevel[s][l] :
       LET order == pool[priceLevel[s][l][i]]
       IN  /\ order.side = s
           /\ PriceToIndex(order.price) = l
           /\ order.id \in 1 .. atomicOrderID
           /\ \A j \in 1 .. i - 1 : pool[priceLevel[s][l][j]].id < order.id
  /\ \A x, y \in Resting : pool[x].id = pool[y].id => x = y

(* A valid entry of the id table leads to a queue that holds an order      *)
(* which uses this entry.  Ids that are POOL_SIZE apart share an entry, so *)
(* the converse, that every resting order has its entry, is not true: see  *)
(* CancelRemovesOrder.                                                     *)
MappingLeadsToOrder ==
  \A key \in Slot :
    LET location == orderIdtoPriceMapping[key]
    IN  location.isValid =>
          /\ IsTradable(location.price)
          /\ \E slot \in ToSet(priceLevel[location.side][PriceToIndex(location.price)]) :
               Key(pool[slot].id) = key

-----------------------------------------------------------------------------
(* The handler that changes the state in this step is a match.             *)
IsTrade == result'.op = "trade"

(* A trade serves, on each side, an order that precedes every other order  *)
(* of that side: best price first and, at one price, the oldest first,     *)
(* however adds, cancels and partial fills came before.                    *)
PriceTimePriority ==
  [][IsTrade =>
       /\ \A other \in RestingOn(Bid) \ {result'.bid} : Precedes(Bid, result'.bid, other)
       /\ \A other \in RestingOn(Ask) \ {result'.ask} : Precedes(Ask, result'.ask, other)]_vars

(* matchLimitOrders finds a trade exactly when some bid and some ask of    *)
(* the whole book cross, and the price it reports is within both limits.   *)
MatchesIffCrossed ==
  [][/\ IsTrade => /\ Crossed
                   /\ result'.price = Ticks(result'.ask)
                   /\ result'.price <= Ticks(result'.bid)
     /\ result' = NoTrade => ~Crossed]_vars

(* A trade takes the volume it reports, the smaller of the two, from both  *)
(* orders, and an order leaves the book exactly when it has no volume      *)
(* left.  (For volumes that fit an int: see TradeIsSmallerVolume.)         *)
FillsAreExact ==
  [][IsTrade =>
       LET bid == result'.bid
           ask == result'.ask
       IN  /\ result'.volume = Min({pool[bid].volume, pool[ask].volume})
           /\ \A slot \in {bid, ask} :
                /\ pool'[slot].volume = pool[slot].volume - result'.volume
                /\ slot \in Resting' <=> pool'[slot].volume > 0]_vars

(* The slots that are free or hold a resting order.                        *)
Accounted == ToSet(freeStack) \union Resting

(* Whatever leaves the book, by a trade or by a cancel, goes back to the   *)
(* pool in the same step, and whatever addOrder accepts rests in the book: *)
(* only an order rejected for its price can take a slot away for good.     *)
SlotsReturnWithOrders ==
  [][Accounted' # Accounted => result' = Rejected("price")]_vars

(* A trade takes at least one of its two orders out of the book, whatever  *)
(* 64-bit volumes clients sent, zero and beyond int included.  Without     *)
(* this the endless loop of matchLimitOrders could trade one pair for ever.*)
TradesRemoveAnOrder ==
  [][IsTrade => ~({result'.bid, result'.ask} \subseteq Resting')]_vars

(* Once clients have stopped sending orders, the loop of the main thread   *)
(* works off everything that crosses and the book never crosses again.     *)
UncrossesAtRest == (atomicOrderID = MaxOrders) ~> []~Crossed

-----------------------------------------------------------------------------
(* The engine keeps the promise of LimitOrderBook: its resting orders are  *)
(* the records in the slots that the queues hold, and a trade names its    *)
(* orders by their ids, which a released slot still shows when             *)
(* matchLimitOrders returns.  The room that is lost is that of the slots   *)
(* which are neither free nor in use.                                      *)
Outcome ==
  IF result.op = "trade"
  THEN [result EXCEPT !.bid = pool[result.bid].id, !.ask = pool[result.ask].id]
  ELSE result

Promise == INSTANCE LimitOrderBook
  WITH book <- {pool[slot] : slot \in Resting},
       lastId <- atomicOrderID,
       lost <- POOL_SIZE - Cardinality(Resting) - Len(freeStack),
       outcome <- Outcome,
       TradablePrices <- StartOfPrice .. StartOfPrice + NumOfLevels - 1,
       CAPACITY <- POOL_SIZE,
       ID_TABLE <- POOL_SIZE

(* Every step of the engine is a step of LimitOrderBook or changes nothing *)
(* in it, for volumes and prices that fit an int.                          *)
KeepsPromise == Promise!Spec

-----------------------------------------------------------------------------
(* What the repository says of the engine and the code does not do.        *)

(* "maps a unique orderID to a location" (OrderBook.hpp:34), for           *)
(* "cancelling orders by orderId" (OrderBook.hpp:27): after cancelOrder    *)
(* the order does not rest in the book.                                    *)
CancelRemovesOrder ==
  [][result'.op = "cancelled" =>
       \A slot \in Resting' : pool'[slot].id # result'.id]_vars

(* "pool of objects that will be acquired and released to"                 *)
(* (OrderBook.hpp:15): an object that no order in the book uses is free.   *)
NoSlotIsLost == Accounted = Slot

(* "A partial fill should produce a trade for the smaller volume"          *)
(* (TradingSystem_Test.cpp:73), for every volume an order can carry.       *)
TradeIsSmallerVolume ==
  [][IsTrade =>
       result'.volume = Min({pool[result'.bid].volume, pool[result'.ask].volume})]_vars
=============================================================================
