----------------------------- MODULE EngineSteps -----------------------------
(***************************************************************************)
(* The handlers of the matching engine in the steps that a thread without  *)
(* the engine's mutex can tell apart (MatchingEngine.cpp, OrderBook.cpp):  *)
(* each write to an order, a queue or a bitmap is a step of its own.  The  *)
(* free stack, the id table and the id counter are only touched with the   *)
(* mutex held; a write to them is part of a neighbouring step.             *)
(*                                                                         *)
(* EngineAtomicity shows that these steps add up to the atomic handlers of *)
(* MatchingEngine; MarketDataServer reads the book between them.           *)
(***************************************************************************)
EXTENDS MatchingEngine

VARIABLE
  call     (* The handler that holds MatchingEngine::mtx: its next step    *)
           (* and its local variables.                                     *)

stepVars == <<vars, call>>

Idle == [step |-> "idle"]

StepInit == Init /\ call = Idle

(* The lock_guard of a handler releases the mutex as the handler returns.  *)
Return(value) == result' = value /\ call' = Idle

-----------------------------------------------------------------------------
(* Faulty variants of the actions below, for mutation testing.             *)
PopFilled_KeepsSlot(side) ==
  /\ call.step = "remove"
  /\ call.side = side
  /\ GetVolume(pool[call.order[side]].volume) = 0
  /\ LET level == FindBestLevel(side)
     IN  priceLevel' = [priceLevel EXCEPT ![side][level] = Tail(@)]
  /\ orderIdtoPriceMapping' = Forgotten({Key(pool[call.order[side]].id)})
  /\ call' = [call EXCEPT !.step = "unmark"]
  /\ UNCHANGED <<freeStack, pool, bitmap, atomicOrderID, result>>

-----------------------------------------------------------------------------
(* addOrder, once it has the mutex: it throws for an empty pool, or copies *)
(* the order into a slot, ...                                              *)
AddNothing == AddOrderPoolEmpty /\ UNCHANGED call

StartAdd(order) ==
  \E slot \in Slot :
    /\ atomicOrderID < MaxOrders
    /\ Acquire(slot)
    /\ pool' = [pool EXCEPT ![slot] = order]
    /\ atomicOrderID' = atomicOrderID + 1
    /\ call' = [step |-> "enqueue", slot |-> slot, side |-> order.side,
                level |-> PriceToIndex(order.price)]
    /\ UNCHANGED <<priceLevel, bitmap, orderIdtoPriceMapping, result>>

(* ... puts the slot into a queue, or throws for its price, ...            *)
Enqueue ==
  /\ call.step = "enqueue"
  /\ \/ /\ call.level \in Level
        /\ priceLevel' =
             [priceLevel EXCEPT ![call.side][call.level] = Enqueued(@, call.slot)]
        /\ call' = [call EXCEPT !.step = "mark"]
        /\ UNCHANGED result
     \/ /\ call.level \notin Level
        /\ Return(Rejected("price"))
        /\ UNCHANGED priceLevel
  /\ UNCHANGED <<freeStack, pool, bitmap, orderIdtoPriceMapping, atomicOrderID>>

(* ... and sets the bit of the level.                                      *)
Mark ==
  LET order == pool[call.slot]
  IN  /\ call.step = "mark"
      /\ bitmap' = [bitmap EXCEPT ![order.side] = SetBitTo1(@, call.level)]
      /\ orderIdtoPriceMapping' = [orderIdtoPriceMapping EXCEPT ![Key(order.id)] =
           [isValid |-> TRUE, side |-> order.side, price |-> order.price]]
      /\ Return(Accepted(order.id))
      /\ UNCHANGED <<freeStack, pool, priceLevel, atomicOrderID>>

-----------------------------------------------------------------------------
(* cancelOrder: it finds no order, or erases the order from its queue and  *)
(* then clears the bit of a level that is empty.                           *)
CancelNothing(orderId) ==
  CancelOrder(orderId) /\ priceLevel' = priceLevel /\ UNCHANGED call

FoundAt(orderId, side, level) ==
  {i \in DOMAIN priceLevel[side][level] : pool[priceLevel[side][level][i]].id = orderId}

StartCancel(orderId) ==
  LET location == orderIdtoPriceMapping[Key(orderId)]
      level == PriceToIndex(location.price)
  IN  /\ location.isValid
      /\ FoundAt(orderId, location.side, level) # {}
      /\ call' = [step |-> "erase", id |-> orderId, side |-> location.side, level |-> level]
      /\ UNCHANGED vars

Erase ==
  LET queue == priceLevel[call.side][call.level]
      i == Min(FoundAt(call.id, call.side, call.level))
  IN  /\ call.step = "erase"
      /\ Released(<<queue[i]>>)
      /\ priceLevel' = [priceLevel EXCEPT ![call.side][call.level] = RemoveAt(queue, i)]
      /\ call' = [call EXCEPT !.step = "forget"]
      /\ UNCHANGED <<pool, bitmap, orderIdtoPriceMapping, atomicOrderID, result>>

Forget ==
  /\ call.step = "forget"
  /\ bitmap' = [bitmap EXCEPT ![call.side] =
       Unmarked(call.side, call.level, priceLevel[call.side][call.level])]
  /\ orderIdtoPriceMapping' = Forgotten({Key(call.id)})
  /\ Return(Cancelled(call.id))
  /\ UNCHANGED <<freeStack, pool, priceLevel, atomicOrderID>>

-----------------------------------------------------------------------------
(* matchLimitOrders without a match; or with one, which takes the volume   *)
(* off the ask, then off the bid, ...                                      *)
TradeNothing == MatchNothing /\ UNCHANGED call

ReduceAsk ==
  /\ HasBest(Ask)
  /\ HasBest(Bid)
  /\ PricesCross
  /\ LET order == [side \in Side |-> BestOrder(side)]
         volume == TradeVolume(pool[order[Ask]].volume, pool[order[Bid]].volume)
     IN  /\ pool' = [pool EXCEPT ![order[Ask]].volume = Left(Ask, volume)]
         /\ call' = [step |-> "reduceBid", side |-> Ask, order |-> order,
                     volume |-> volume, price |-> ToU64(Ticks(order[Ask]))]
  /\ UNCHANGED <<freeStack, priceLevel, bitmap, orderIdtoPriceMapping, atomicOrderID, result>>

ReduceBid ==
  /\ call.step = "reduceBid"
  /\ pool' = [pool EXCEPT ![call.order[Bid]].volume = ReduceVolume(@, call.volume)]
  /\ call' = [call EXCEPT !.step = "remove"]
  /\ UNCHANGED <<freeStack, priceLevel, bitmap, orderIdtoPriceMapping, atomicOrderID, result>>

(* ... and then removes the ask and after it the bid, if it is filled.     *)
NextSide ==
  \/ /\ call.side = Ask
     /\ call' = [call EXCEPT !.step = "remove", !.side = Bid]
     /\ UNCHANGED result
  \/ /\ call.side = Bid
     /\ Return(Trade(call.order[Bid], call.order[Ask], call.volume, call.price))

KeepUnfilled(side) ==
  /\ call.step = "remove"
  /\ call.side = side
  /\ GetVolume(pool[call.order[side]].volume) # 0
  /\ NextSide
  /\ UNCHANGED <<bookVars, atomicOrderID>>

(* removeAsk and removeBid release the order and take it off its queue ... *)
PopFilled(side) ==
  /\ call.step = "remove"
  /\ call.side = side
  /\ GetVolume(pool[call.order[side]].volume) = 0
  /\ LET level == FindBestLevel(side)
     IN  priceLevel' = [priceLevel EXCEPT ![side][level] = Tail(@)]
  /\ Released(<<call.order[side]>>)
  /\ orderIdtoPriceMapping' = Forgotten({Key(pool[call.order[side]].id)})
  /\ call' = [call EXCEPT !.step = "unmark"]
  /\ UNCHANGED <<pool, bitmap, atomicOrderID, result>>

(* ... and then clear the bit of a level that is empty.                    *)
UnmarkEmptied ==
  LET level == FindBestLevel(call.side)
  IN  /\ call.step = "unmark"
      /\ bitmap' = [bitmap EXCEPT ![call.side] =
           Unmarked(call.side, level, priceLevel[call.side][level])]
      /\ NextSide
      /\ UNCHANGED <<freeStack, pool, priceLevel, orderIdtoPriceMapping, atomicOrderID>>

-----------------------------------------------------------------------------
(* A session thread calls a handler when the mutex is free; ...            *)
CallHandler ==
  /\ call = Idle
  /\ \/ \E side \in Side, volume \in Volumes, price \in Prices :
          AddNothing \/ StartAdd(NewOrder(side, volume, price))
     \/ \E orderId \in OrderIds : CancelNothing(orderId) \/ StartCancel(orderId)

(* ... the main thread calls matchLimitOrders, ...                         *)
CallMatch == call = Idle /\ (TradeNothing \/ ReduceAsk)

(* ... and the handler goes on.                                            *)
ContinueHandler == Enqueue \/ Mark \/ Erase \/ Forget

ContinueMatch ==
  \/ ReduceBid
  \/ \E side \in Side : KeepUnfilled(side) \/ PopFilled(side)
  \/ UnmarkEmptied

StepNext == CallHandler \/ CallMatch \/ ContinueHandler \/ ContinueMatch

StepSpec == StepInit /\ [][StepNext]_stepVars
=============================================================================
