----------------------------- MODULE CancelHistory -----------------------------
(***************************************************************************)
(* The matching engine with a history of its id table                      *)
(* (OrderBook::orderIdtoPriceMapping), to say when a cancel takes its      *)
(* order out of the book.  An entry of the table carries no id, and every  *)
(* POOL_SIZE-th id uses the same one: the history keeps the resting orders *)
(* whose entry a call for another id has used since they arrived.          *)
(***************************************************************************)
EXTENDS MatchingEngine

VARIABLE disturbed     (* The slots of these orders.                       *)

historyVars == <<vars, disturbed>>

HistoryInit == Init /\ disturbed = {}

(* The ids whose table entries the handler of this step writes: that of    *)
(* an order it adds, that of a cancel, whether or not the id was ever      *)
(* given out, and those of the orders it fills.                            *)
UsedIds ==
  CASE result'.op \in {"accepted", "cancelled"} -> {result'.id}
    [] result'.op = "trade" -> {pool[slot].id : slot \in {result'.bid, result'.ask} \ Resting'}
    [] OTHER -> {}

SharesEntry(orderId, other) == orderId # other /\ orderId % POOL_SIZE = other % POOL_SIZE

(* Taken with every step of the engine.                                    *)
RecordUse ==
  disturbed' = {slot \in Resting' :
    \/ slot \in disturbed
    \/ \E other \in UsedIds : SharesEntry(pool'[slot].id, other)}

HistoryNext == Next /\ RecordUse

HistorySpec == HistoryInit /\ [][HistoryNext]_historyVars

-----------------------------------------------------------------------------
(* An order outlives its own cancel only if, since it arrived, an order    *)
(* with another id of the same table entry was added or filled, or a       *)
(* cancel named such an id: whatever else is added, filled, cancelled and  *)
(* reused in between, the cancel finds its order.                          *)
CancelFindsOrder ==
  [][result'.op = "cancelled" =>
       \A slot \in Resting' : pool'[slot].id = result'.id => slot \in disturbed]_historyVars
=============================================================================
