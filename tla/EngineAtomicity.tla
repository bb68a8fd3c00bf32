---------------------------- MODULE EngineAtomicity ----------------------------
(***************************************************************************)
(* The stepwise engine is the atomic one for everyone who waits for the    *)
(* mutex: the history variable `before' keeps the engine's state of the    *)
(* moment the mutex was taken, and the state that is shown stays there     *)
(* until the mutex is free again.                                          *)
(***************************************************************************)
EXTENDS EngineSteps

VARIABLE before

Now == [freeStack |-> freeStack, pool |-> pool, priceLevel |-> priceLevel,
        bitmap |-> bitmap, orderIdtoPriceMapping |-> orderIdtoPriceMapping,
        atomicOrderID |-> atomicOrderID, result |-> result]

AtomicityInit == StepInit /\ before = Now

AtomicityNext == StepNext /\ before' = IF call' = Idle THEN Now' ELSE before

AtomicitySpec == AtomicityInit /\ [][AtomicityNext]_<<stepVars, before>>

Atomic == INSTANCE MatchingEngine
  WITH freeStack <- before.freeStack, pool <- before.pool,
       priceLevel <- before.priceLevel, bitmap <- before.bitmap,
       orderIdtoPriceMapping <- before.orderIdtoPriceMapping,
       atomicOrderID <- before.atomicOrderID, result <- before.result

(* Whatever a handler writes in whatever order, from one release of the    *)
(* mutex to the next exactly one handler of MatchingEngine has taken place *)
(* as a whole: the second search of removeAsk and removeBid, after the     *)
(* reductions and after the ask is gone, still finds the order that was    *)
(* matched.                                                                *)
HandlersAreAtomic == Atomic!Spec

(* Every release of the mutex shows a step of LimitOrderBook or no change  *)
(* (MatchingEngine!KeepsPromise), for volumes and prices that fit an int.  *)
StepsKeepPromise == Atomic!KeepsPromise

(* Slots come back with the orders that leave the book                     *)
(* (MatchingEngine!SlotsReturnWithOrders) by the time the mutex is free.   *)
StepsReturnSlots == Atomic!SlotsReturnWithOrders
=============================================================================
