---------------------------- MODULE LimitOrderBook ----------------------------
(***************************************************************************)
(* What the matching engine promises its clients, without queues, levels,  *)
(* bitmaps, pool or id table: a set of resting limit orders from which the *)
(* best bid and the best ask trade while they cross, best price first and  *)
(* oldest first within a price.  MatchingEngine implements it (see         *)
(* MatchingEngine!Promise) for volumes and prices that fit an int.         *)
(***************************************************************************)
EXTENDS Integers, FiniteSetsExt

CONSTANTS
  Volumes, Prices,   (* What clients put into their orders.                *)
  OrderIds,          (* The ids that clients may name in a cancel.         *)
  TradablePrices,    (* The prices of the book.                            *)
  CAPACITY,          (* How many orders the book has room for.             *)
  ID_TABLE           (* Entries of the table that finds an order by id.    *)

VARIABLES
  book,      (* The resting orders.                                        *)
  lastId,    (* The last order id that was given out.                      *)
  lost,      (* The room that orders with prices not of the book took.     *)
  outcome    (* What the last call returned.                               *)

vars == <<book, lastId, lost, outcome>>

Bids == {order \in book : order.side = "Bid"}
Asks == {order \in book : order.side = "Ask"}
Crossing == \E bid \in Bids, ask \in Asks : bid.price >= ask.price

HasRoom == Cardinality(book) + lost < CAPACITY

Init ==
  /\ book = {}
  /\ lastId = 0
  /\ lost = 0
  /\ outcome = [op |-> "nothing"]

(* An order with a price of the book is accepted under the next id.        *)
Submit(side, volume, price) ==
  /\ HasRoom
  /\ price \in TradablePrices
  /\ lastId' = lastId + 1
  /\ book' = book \union
       {[side |-> side, volume |-> volume, id |-> lastId', price |-> price]}
  /\ outcome' = [op |-> "accepted", id |-> lastId']
  /\ UNCHANGED lost

(* An order with any other price is rejected, and its room is lost.        *)
RejectPrice ==
  /\ HasRoom
  /\ Prices \ TradablePrices # {}
  /\ lastId' = lastId + 1
  /\ lost' = lost + 1
  /\ outcome' = [op |-> "rejected", reason |-> "price"]
  /\ UNCHANGED book

(* Every order is rejected when there is no room, and only then.           *)
RejectFull ==
  /\ ~HasRoom
  /\ outcome' = [op |-> "rejected", reason |-> "pool"]
  /\ UNCHANGED <<book, lastId, lost>>

(* Another id that was given out, or that some client names, uses the      *)
(* table entry of this one.                                                *)
SharesEntry(orderId) ==
  \E other \in (OrderIds \union 1 .. lastId) \ {orderId} :
    other % ID_TABLE = orderId % ID_TABLE

(* A cancel takes the order with this id, if it rests, out of the book;    *)
(* only for an id that shares its table entry may it leave the order.      *)
Cancel(orderId) ==
  /\ \/ book' = {order \in book : order.id # orderId}
     \/ SharesEntry(orderId) /\ UNCHANGED book
  /\ outcome' = [op |-> "cancelled", id |-> orderId]
  /\ UNCHANGED <<lastId, lost>>

(* Nothing trades only if nothing crosses.                                 *)
NoTrade ==
  /\ ~Crossing
  /\ outcome' = [op |-> "noTrade"]
  /\ UNCHANGED <<book, lastId, lost>>

(* The best bid and the best ask cross: they trade the smaller of their    *)
(* volumes at the ask's price, and what is left of them rests on.          *)
BestBid(bid) ==
  \A other \in Bids \ {bid} :
    \/ other.price < bid.price
    \/ other.price = bid.price /\ bid.id < other.id

BestAsk(ask) ==
  \A other \in Asks \ {ask} :
    \/ other.price > ask.price
    \/ other.price = ask.price /\ ask.id < other.id

Trade(bid, ask) ==
  /\ BestBid(bid)
  /\ BestAsk(ask)
  /\ bid.price >= ask.price
  /\ LET volume == Min({bid.volume, ask.volume})
         filled(order) == [order EXCEPT !.volume = @ - volume]
     IN  /\ book' = (book \ {bid, ask}) \union
              {order \in {filled(bid), filled(ask)} : order.volume > 0}
         /\ outcome' = [op |-> "trade", bid |-> bid.id, ask |-> ask.id,
                        volume |-> volume, price |-> ask.price]
         /\ UNCHANGED <<lastId, lost>>

Next ==
  \/ \E side \in {"Bid", "Ask"}, volume \in Volumes, price \in Prices :
        Submit(side, volume, price)
  \/ RejectPrice
  \/ RejectFull
  \/ \E orderId \in OrderIds : Cancel(orderId)
  \/ NoTrade
  \/ \E bid \in Bids, ask \in Asks : Trade(bid, ask)

Spec == Init /\ [][Next]_vars
=============================================================================
