--------------------------- MODULE OrderEntry_proofs ---------------------------
(***************************************************************************)
(* Proofs that a cancel finds its order unless another id has used the     *)
(* order's entry of the id table, and that the simulated traders get along *)
(* with each other and with any other client: no order of theirs is left   *)
(* behind for any other reason, no two of them hold one id, and none is    *)
(* turned away while others leave room, however requests, fills and        *)
(* answers interleave.                                                     *)
(***************************************************************************)
EXTENDS OrderEntry, MatchingEngine_promise_proofs

-----------------------------------------------------------------------------
(* The inductive invariant of CancelHistory: an order that no other id has *)
(* disturbed has its entry.                                                *)
EntriesKept == \A slot \in Resting \ disturbed : HasEntry(slot)

LEMMA OtherKey ==
  ASSUME NEW slot \in Resting', RecordUse, slot \notin disturbed',
         NEW other \in UsedIds, pool'[slot].id # other
  PROVE  Key(pool'[slot].id) # Key(other)
BY DEF RecordUse, SharesEntry, Key

LEMMA UndisturbedBefore ==
  ASSUME RecordUse, NEW slot \in Resting', slot \notin disturbed'
  PROVE  slot \notin disturbed
BY DEF RecordUse

(* A cancel leaves its order in the book only if it is disturbed.          *)
LEMMA CancelLeavesDisturbed ==
  ASSUME OrderedBook, EntriesKept, RecordUse, NEW id, TakesOut(id),
         NEW slot \in Resting', pool'[slot].id = id
  PROVE  slot \in disturbed'
<1> SUFFICES ASSUME slot \notin disturbed'
             PROVE  FALSE
  OBVIOUS
<1>1. slot \in Resting /\ pool'[slot] = pool[slot]
  BY DEF TakesOut, StackAfterPush
<1>2. HasEntry(slot)
  BY <1>1, UndisturbedBefore DEF EntriesKept
<1>3. StackAfterPush({slot})
  BY <1>1, <1>2, CancelFindsEntry
<1>4. QED
  BY <1>3 DEF StackAfterPush

LEMMA HistoryStepKeeps == OrderedBook /\ EntriesKept /\ [HistoryNext]_historyVars => EntriesKept'
<1> SUFFICES ASSUME OrderedBook, EntriesKept, [HistoryNext]_historyVars
             PROVE  EntriesKept'
  OBVIOUS
<1>1. CASE UNCHANGED historyVars
  BY <1>1 DEF historyVars, vars, bookVars, EntriesKept, HasEntry, Resting, RestingOn
<1>2. CASE HistoryNext
  <2>1. OrderedBook' /\ Next /\ RecordUse
    BY <1>2, OrderedBookStays DEF HistoryNext
  <2> SUFFICES ASSUME NEW slot \in Resting', slot \notin disturbed'
               PROVE  HasEntry(slot)'
    BY DEF EntriesKept
  <2>2. slot \notin disturbed
    BY <2>1, UndisturbedBefore
  <2>3. CASE UNCHANGED <<bookVars, atomicOrderID>> /\ Resting' = Resting
    BY <2>2, <2>3 DEF EntriesKept, HasEntry, bookVars
  <2>4. ASSUME NEW new \in Slot, NEW order, TakesSlot(new, order), order.id = atomicOrderID + 1
        PROVE  HasEntry(slot)'
    <3>1. order.id \in Nat /\ \A n \in 1 .. atomicOrderID : n # order.id
      BY <2>4, OrderedBookParts
    <3>2. /\ IsTradable(order.price) => HasEntry(new)'
          /\ \A other \in Resting :
               /\ pool'[other] = pool[other]
               /\ Key(order.id) # Key(pool[other].id) /\ HasEntry(other) => HasEntry(other)'
      BY <2>4, <3>1, EntryOfNewOrder
    <3>3. \/ Resting' = Resting /\ orderIdtoPriceMapping' = orderIdtoPriceMapping
          \/ /\ Resting' = Resting \union {new} /\ IsTradable(order.price)
             /\ result' = Accepted(order.id)
      BY <2>4 DEF TakesSlot
    <3>4. CASE slot \in Resting
      <4>1. HasEntry(slot) /\ pool'[slot] = pool[slot] /\ pool[slot].id # order.id
        BY <2>2, <3>1, <3>2, <3>4, RestingFacts DEF EntriesKept
      <4>2. CASE orderIdtoPriceMapping' = orderIdtoPriceMapping
        BY <4>1, <4>2 DEF HasEntry
      <4>3. CASE result' = Accepted(order.id)
        <5>1. order.id \in UsedIds
          BY <4>3 DEF UsedIds, Accepted
        <5>2. Key(pool[slot].id) # Key(order.id)
          BY <2>1, <4>1, <5>1, OtherKey
        <5>3. QED
          BY <3>2, <3>4, <4>1, <5>2
      <4>4. QED
        BY <3>3, <4>2, <4>3
    <3>5. QED
      BY <3>2, <3>3, <3>4
  <2>5. ASSUME NEW id \in OrderIds, TakesOut(id)
        PROVE  HasEntry(slot)'
    <3>1. slot \in Resting /\ pool' = pool
      BY <2>5 DEF TakesOut, StackAfterPush
    <3>2. HasEntry(slot) /\ SameButVolume(pool[slot], pool'[slot])
      BY <2>2, <3>1 DEF EntriesKept, SameButVolume
    <3>3. id \in UsedIds
      BY <2>5 DEF TakesOut, UsedIds, Cancelled
    <3>4. pool[slot].id # id
      BY <2>1, <2>5, <3>1, CancelLeavesDisturbed
    <3>5. Key(pool[slot].id) \notin {Key(id)}
      BY <2>1, <3>1, <3>3, <3>4, OtherKey
    <3>6. CASE orderIdtoPriceMapping' = orderIdtoPriceMapping
      BY <3>1, <3>2, <3>6 DEF HasEntry
    <3>7. CASE orderIdtoPriceMapping' = Forgotten({Key(id)})
      BY <3>1, <3>2, <3>5, <3>7, EntryNotForgotten
    <3>8. QED
      BY <2>5, <3>6, <3>7 DEF TakesOut
  <2>6. ASSUME NEW bid, NEW ask, NEW volume, NEW filled \in SUBSET Resting,
               FillsBest(bid, ask, volume, filled)
        PROVE  HasEntry(slot)'
    <3> DEFINE keys == {Key(pool[other].id) : other \in filled}
    <3>1. /\ orderIdtoPriceMapping' = Forgotten(keys)
          /\ Resting' = Resting \ filled /\ filled \subseteq {bid, ask}
          /\ result' = Trade(bid, ask, volume, Ticks(ask))
      BY <2>6 DEF FillsBest, StackAfterPush
    <3>2. slot \in Resting /\ HasEntry(slot)
      BY <2>2, <3>1 DEF EntriesKept
    <3>3. SameButVolume(pool[slot], pool'[slot])
      BY <2>6, <3>2, FillsOnlyVolume, RestingFacts
    <3>4. ASSUME NEW other \in filled
          PROVE  Key(pool[slot].id) # Key(pool[other].id)
      <4>1. other \in {bid, ask} \ Resting' /\ other \in Resting /\ other # slot
        BY <3>1
      <4>2. pool[other].id \in UsedIds
        BY <3>1, <4>1 DEF UsedIds, Trade
      <4>3. pool[slot].id # pool[other].id /\ pool'[slot].id = pool[slot].id
        BY <3>2, <3>3, <4>1, RestingFacts DEF SameButVolume
      <4>4. QED
        BY <2>1, <4>2, <4>3, OtherKey
    <3>5. Key(pool[slot].id) \notin keys
      BY <3>4
    <3> HIDE DEF keys
    <3>6. QED
      BY <3>1, <3>2, <3>3, <3>5, EntryNotForgotten
  <2>7. QED
    BY <2>1, <2>3, <2>4, <2>5, <2>6, NextEffect DEF NewOrder
<1>3. QED
  BY <1>1, <1>2

LEMMA EntriesKeptInit == Init => EntriesKept
BY NothingRestsYet DEF EntriesKept

LEMMA HistoryRefines == HistorySpec => Spec
<1>1. HistoryInit => Init
  BY DEF HistoryInit
<1>2. [HistoryNext]_historyVars => [Next]_vars
  BY DEF HistoryNext, historyVars
<1>3. QED
  BY <1>1, <1>2, PTL DEF HistorySpec, Spec

(* An order outlives its own cancel only if a call for another id of the   *)
(* same table entry came after the order, for tables, pools and ids of any *)
(* size and cancels of any id.                                             *)
THEOREM CancelsFindOrders == HistorySpec => CancelFindsOrder
<1> DEFINE Finds == result'.op = "cancelled" =>
                      \A slot \in Resting' : pool'[slot].id = result'.id => slot \in disturbed
<1>1. OrderedBook /\ EntriesKept /\ [HistoryNext]_historyVars => [Finds]_historyVars
  <2> SUFFICES ASSUME OrderedBook, EntriesKept, HistoryNext, result'.op = "cancelled",
                      NEW slot \in Resting', pool'[slot].id = result'.id
               PROVE  slot \in disturbed
    OBVIOUS
  <2>1. Next /\ RecordUse /\ OrderedBook'
    BY OrderedBookStays DEF HistoryNext
  <2>2. PICK id \in OrderIds : TakesOut(id)
    BY <2>1, OnlyCancelOrderCancels, CancelOrderEffect
  <2>3. result'.id = id
    BY <2>2 DEF TakesOut, Cancelled
  <2>4. slot \in Resting /\ pool' = pool
    BY <2>2 DEF TakesOut, StackAfterPush
  <2>5. HasEntry(slot) => StackAfterPush({slot})
    BY <2>2, <2>3, <2>4, CancelFindsEntry
  <2>6. ~HasEntry(slot)
    BY <2>5 DEF StackAfterPush
  <2>7. QED
    BY <2>4, <2>6 DEF EntriesKept
<1>2. TypedBook /\ SlotsHaveOneOwner /\ QueuesInArrivalOrder => OrderedBook
  BY DEF OrderedBook
<1>3. HistoryInit => EntriesKept
  BY EntriesKeptInit DEF HistoryInit
<1>4. QED
  BY <1>1, <1>2, <1>3, HistoryRefines, HistoryStepKeeps, BookIsTyped, OneOwner, ArrivalOrder, PTL
  DEF HistorySpec, CancelFindsOrder

-----------------------------------------------------------------------------
(* Where a trader is in its loop tells what is under way on its connection *)
(* and whether its order may still rest.  A trader that was turned away    *)
(* ends the process where it is.                                           *)
GoneFromBook(id) == \A slot \in Resting \ disturbed : pool[slot].id # id

Quiet(t) == request[t] = None /\ reply[t] = None /\ answer[t] = None
OnlyRequest(t) == reply[t] = None /\ answer[t] = None
OnlyReply(t) == request[t] = None /\ answer[t] = None
OnlyAnswer(t) == request[t] = None /\ reply[t] = None

AnswersNew(message) ==
  \/ message.op = "rejected"
  \/ message.op = "accepted" /\ message.id # 0

Placing(t) == trader[t] = "placing" /\ orderId[t] = 0 /\ Quiet(t)

AwaitingId(t) ==
  /\ trader[t] = "awaitsId"
  /\ orderId[t] = 0
  /\ \/ OnlyRequest(t) /\ request[t].op = "new"
     \/ OnlyReply(t) /\ AnswersNew(reply[t])
     \/ OnlyAnswer(t) /\ AnswersNew(answer[t])
     \/ Quiet(t) /\ ~running

Sleeping(t) == trader[t] = "sleeping" /\ orderId[t] # 0 /\ Quiet(t)

AwaitingCancel(t) ==
  /\ trader[t] = "awaitsCancel"
  /\ orderId[t] # 0
  /\ \/ OnlyRequest(t) /\ request[t] = Cancel(orderId[t])
     \/ OnlyReply(t) /\ reply[t] = Cancelled(orderId[t]) /\ GoneFromBook(orderId[t])
     \/ OnlyAnswer(t) /\ answer[t] = Cancelled(orderId[t]) /\ GoneFromBook(orderId[t])

InLoop(t) == Placing(t) \/ AwaitingId(t) \/ Sleeping(t) \/ AwaitingCancel(t)

LiveIdsGiven == \A t \in Traders : LiveId(t) \in 0 .. atomicOrderID

(* The orders that a trader is going to cancel.                            *)
Minded == Resting \ (taken \union disturbed)

EverySlot == ToSet(freeStack) \union Resting \union taken = Slot

(* The inductive invariant.                                                *)
Trading == EntryTypeOK /\ \A t \in Traders : InLoop(t)

Owned == IdsAreTheirOwn /\ LiveIdsGiven /\ NoOrphanOrders

EntryInv == OrderedBook /\ EntriesKept /\ Trading /\ Owned /\ EverySlot

-----------------------------------------------------------------------------
(* A message under way has the fields that its kind carries.               *)
LEMMA RequestFields ==
  ASSUME EntryTypeOK, NEW t \in Traders, request[t].op = "new"
  PROVE  /\ request[t].side \in Side
         /\ request[t].volume \in Volumes
         /\ request[t].price \in Prices
         /\ request[t].price \in StartOfPrice .. StartOfPrice + NumOfLevels - 1
<1>1. request[t] \in [op : {"new"}, side : Side, volume : Volumes, price : TraderPrices]
  BY DEF EntryTypeOK, Requests, None
<1>2. QED
  BY <1>1 DEF TraderPrices

LEMMA ReplyFields ==
  ASSUME EntryTypeOK, NEW t \in Traders
  PROVE  /\ reply[t].op = "accepted" => reply[t].id \in Ids
         /\ answer[t].op = "accepted" => answer[t].id \in Ids
BY DEF EntryTypeOK, Replies, None

LEMMA RequestTradable ==
  ASSUME EntryTypeOK, NEW t \in Traders, request[t].op = "new"
  PROVE  IsTradable(request[t].price)
<1>1. request[t].price \in StartOfPrice .. StartOfPrice + NumOfLevels - 1
  BY RequestFields
<1>2. request[t].price \in PlainInt
  BY <1>1, OrderBookAssumption, LevelBitmapAssumption, MachineIntegersAssumption DEF PlainInt
<1>3. QED
  BY <1>1, <1>2, PlainPrice

LEMMA NamedByTrader ==
  ASSUME Trading, NEW t \in Traders, reply[t] = None, request[t].op = "cancel"
  PROVE  /\ AwaitingCancel(t) /\ OnlyRequest(t)
         /\ request[t] = Cancel(orderId[t]) /\ orderId[t] # 0
         /\ LiveId(t) = orderId[t]
         /\ orderId[t] \in Ids /\ orderId[t] \in OrderIds
<1>1. /\ AwaitingCancel(t) /\ OnlyRequest(t)
      /\ request[t] = Cancel(orderId[t]) /\ orderId[t] # 0
  BY DEF Trading, InLoop, Placing, AwaitingId, Sleeping, AwaitingCancel, Quiet, OnlyRequest,
     OnlyReply, OnlyAnswer, None
<1>2. orderId[t] \in 0 .. MaxOrders
  BY DEF Trading, EntryTypeOK, Ids
<1>3. LiveId(t) = orderId[t]
  BY <1>1 DEF LiveId, OnlyRequest, None
<1>4. QED
  BY <1>1, <1>2, <1>3, MatchingEngineAssumption, OrderEntryAssumption DEF Ids

(* Whatever a step of the whole is, the engine sees one of its own steps.  *)
LEMMA EntryStepsHistory == Trading /\ [EntryNext]_entryVars => [HistoryNext]_historyVars
<1> SUFFICES ASSUME Trading, EntryNext
             PROVE  [HistoryNext]_historyVars
  BY DEF entryVars, engineVars
<1>1. ASSUME Next, RecordUse
      PROVE  HistoryNext
  BY <1>1 DEF HistoryNext
<1>2. CASE Match
  BY <1>1, <1>2 DEF Match, Next, Recorded
<1>3. ASSUME NEW t \in Traders, TraderStep(t)
      PROVE  UNCHANGED historyVars
  BY <1>3 DEF TraderStep, PlaceOrder, ReadPlaced, SendCancel, ReadCancelled, engineVars
<1>4. ASSUME NEW t \in Traders, HandleNew(t)
      PROVE  HistoryNext
  <2>1. /\ request[t].side \in Side
        /\ request[t].volume \in Volumes
        /\ request[t].price \in Prices
        /\ AddOrder(request[t].side, request[t].volume, request[t].price)
        /\ RecordUse
    BY <1>4, RequestFields DEF HandleNew, Trading, Recorded
  <2>2. QED
    BY <1>1, <2>1 DEF Next
<1>5. ASSUME NEW t \in Traders, HandleCancel(t)
      PROVE  HistoryNext
  <2>1. /\ reply[t] = None /\ request[t].op = "cancel"
        /\ CancelOrder(request[t].id) /\ RecordUse
    BY <1>5 DEF HandleCancel, Recorded
  <2>2. request[t] = Cancel(orderId[t]) /\ orderId[t] \in OrderIds
    BY <2>1, NamedByTrader
  <2>3. request[t].id \in OrderIds
    BY <2>2 DEF Cancel
  <2>4. QED
    BY <1>1, <2>1, <2>3 DEF Next
<1>6. ASSUME NEW t \in Traders, WriteReply(t)
      PROVE  UNCHANGED historyVars
  BY <1>6 DEF WriteReply, engineVars
<1>7. CASE OtherClient
  BY <1>1, <1>7 DEF OtherClient, AddForOther, CancelForOther, Next, Recorded, RecordedForOther
<1>8. QED
  BY <1>2, <1>3, <1>4, <1>5, <1>6, <1>7 DEF EntryNext, SessionStep

-----------------------------------------------------------------------------
(* What a step of the engine leaves in the book undisturbed: orders that   *)
(* were there, and one that it just accepted.                              *)
IsNewcomer(slot) ==
  /\ pool'[slot].id = atomicOrderID + 1
  /\ result' = Accepted(atomicOrderID + 1)
  /\ atomicOrderID' = atomicOrderID + 1
  /\ slot \in ToSet(freeStack)
  /\ slot \notin ToSet(freeStack')

LEMMA WhatRests ==
  ASSUME OrderedBook, OrderedBook', Next, RecordUse, NEW slot \in Resting', slot \notin disturbed'
  PROVE  /\ slot \notin disturbed
         /\ \/ slot \in Resting /\ pool'[slot].id = pool[slot].id
            \/ IsNewcomer(slot)
<1>1. slot \notin disturbed
  BY UndisturbedBefore
<1>2. CASE UNCHANGED <<bookVars, atomicOrderID>> /\ Resting' = Resting
  BY <1>1, <1>2 DEF bookVars
<1>3. ASSUME NEW new \in Slot, NEW order, TakesSlot(new, order), order.id = atomicOrderID + 1
      PROVE  (slot \in Resting /\ pool'[slot].id = pool[slot].id) \/ IsNewcomer(slot)
  <2>1. /\ pool' = [pool EXCEPT ![new] = order] /\ pool \in [Slot -> Order]
        /\ new \notin Resting /\ new \in ToSet(freeStack) /\ new \notin ToSet(freeStack')
        /\ atomicOrderID' = atomicOrderID + 1
        /\ \/ Resting' = Resting
           \/ Resting' = Resting \union {new} /\ result' = Accepted(order.id)
    BY <1>3, OrderedBookParts DEF TakesSlot, StackAfterPop
  <2>2. CASE slot \in Resting
    BY <2>1, <2>2
  <2>3. CASE slot \notin Resting
    BY <1>3, <2>1, <2>3 DEF IsNewcomer
  <2>4. QED
    BY <2>2, <2>3
<1>4. ASSUME NEW gone, StackAfterPush(gone),
             \A other \in Slot : SameButVolume(pool[other], pool'[other])
      PROVE  slot \in Resting /\ pool'[slot].id = pool[slot].id
  BY <1>4, RestingFacts DEF StackAfterPush, SameButVolume
<1>5. ASSUME NEW id \in OrderIds, TakesOut(id)
      PROVE  slot \in Resting /\ pool'[slot].id = pool[slot].id
  BY <1>5 DEF TakesOut, StackAfterPush
<1>6. ASSUME NEW bid, NEW ask, NEW volume, NEW filled, FillsBest(bid, ask, volume, filled)
      PROVE  slot \in Resting /\ pool'[slot].id = pool[slot].id
  <2>1. StackAfterPush(filled)
    BY <1>6 DEF FillsBest
  <2>2. QED
    BY <1>4, <1>6, <2>1, FillsOnlyVolume
<1>7. QED
  BY <1>1, <1>2, <1>3, <1>5, <1>6, NextEffect DEF NewOrder

LEMMA IdsGrow ==
  ASSUME OrderedBook, OrderedBook', [HistoryNext]_historyVars
  PROVE  0 .. atomicOrderID \subseteq 0 .. atomicOrderID'
<1>1. CASE UNCHANGED historyVars
  BY <1>1 DEF historyVars, vars
<1>2. CASE HistoryNext
  <2>1. Next
    BY <1>2 DEF HistoryNext
  <2>2. atomicOrderID' = atomicOrderID \/ atomicOrderID' = atomicOrderID + 1
    BY <2>1, NextEffect DEF TakesSlot, TakesOut, FillsBest
  <2>3. atomicOrderID \in Nat
    BY OrderedBookParts
  <2>4. QED
    BY <2>2, <2>3
<1>3. QED
  BY <1>1, <1>2

(* What is gone from the book stays gone.                                  *)
StaysGone == \A id \in 0 .. atomicOrderID : GoneFromBook(id) => GoneFromBook(id)'

LEMMA GoneStaysGone ==
  ASSUME OrderedBook, OrderedBook', [HistoryNext]_historyVars
  PROVE  StaysGone
<1>1. CASE UNCHANGED historyVars
  BY <1>1 DEF historyVars, vars, bookVars, StaysGone, GoneFromBook, Resting, RestingOn
<1>2. CASE HistoryNext
  <2> SUFFICES ASSUME NEW id \in 0 .. atomicOrderID, GoneFromBook(id),
                      NEW slot \in Resting', slot \notin disturbed', pool'[slot].id = id
               PROVE  FALSE
    BY DEF StaysGone, GoneFromBook
  <2>1. /\ slot \notin disturbed
        /\ \/ slot \in Resting /\ pool'[slot].id = pool[slot].id
           \/ IsNewcomer(slot)
    BY <1>2, WhatRests DEF HistoryNext
  <2>2. id # atomicOrderID + 1
    BY OrderedBookParts
  <2>3. QED
    BY <2>1, <2>2 DEF GoneFromBook, IsNewcomer
<1>3. QED
  BY <1>1, <1>2

-----------------------------------------------------------------------------
(* A step of one trader or of its session leaves the others alone.         *)
Untouched(u) ==
  /\ trader'[u] = trader[u]
  /\ orderId'[u] = orderId[u]
  /\ request'[u] = request[u]
  /\ reply'[u] = reply[u]
  /\ answer'[u] = answer[u]

TouchesOnly(t) == \A u \in Traders \ {t} : Untouched(u)

LEMMA StepTouchesOne ==
  ASSUME EntryTypeOK, NEW t \in Traders, TraderStep(t) \/ SessionStep(t)
  PROVE  TouchesOnly(t)
<1> USE DEF TouchesOnly, Untouched, EntryTypeOK
<1>1. ASSUME NEW side, NEW volume, NEW price, PlaceOrder(t, side, volume, price)
      PROVE  TouchesOnly(t)
  BY <1>1 DEF PlaceOrder
<1>2. CASE ReadPlaced(t)
  BY <1>2 DEF ReadPlaced, clientVars
<1>3. CASE SendCancel(t)
  BY <1>3 DEF SendCancel
<1>4. CASE ReadCancelled(t)
  BY <1>4 DEF ReadCancelled
<1>5. CASE HandleNew(t)
  BY <1>5 DEF HandleNew, clientVars
<1>6. CASE HandleCancel(t)
  BY <1>6 DEF HandleCancel, clientVars
<1>7. CASE WriteReply(t)
  BY <1>7 DEF WriteReply, clientVars
<1>8. QED
  BY <1>1, <1>2, <1>3, <1>4, <1>5, <1>6, <1>7 DEF TraderStep, SessionStep

LEMMA OthersStay ==
  ASSUME Trading, running, LiveIdsGiven, StaysGone, NEW u \in Traders, Untouched(u)
  PROVE  InLoop(u)' /\ LiveId(u)' = LiveId(u)
<1>1. /\ trader'[u] = trader[u]
      /\ orderId'[u] = orderId[u]
      /\ request'[u] = request[u]
      /\ reply'[u] = reply[u]
      /\ answer'[u] = answer[u]
  BY DEF Untouched
<1>2. InLoop(u)
  BY DEF Trading
<1>3. LiveId(u)' = LiveId(u)
  BY <1>1 DEF LiveId
<1>4. CASE Placing(u)
  BY <1>1, <1>3, <1>4 DEF InLoop, Placing, Quiet
<1>5. CASE AwaitingId(u)
  BY <1>1, <1>3, <1>5 DEF InLoop, AwaitingId, AnswersNew, OnlyRequest, OnlyReply, OnlyAnswer
<1>6. CASE Sleeping(u)
  BY <1>1, <1>3, <1>6 DEF InLoop, Sleeping, Quiet
<1>7. CASE AwaitingCancel(u)
  <2>1. LiveId(u) = orderId[u]
    BY <1>7 DEF LiveId, AwaitingCancel, OnlyRequest, OnlyReply, OnlyAnswer, Cancelled, None
  <2>2. GoneFromBook(orderId[u]) => GoneFromBook(orderId[u])'
    BY <1>1, <2>1 DEF LiveIdsGiven, StaysGone, GoneFromBook
  <2>3. QED
    BY <1>1, <1>3, <1>7, <2>2 DEF InLoop, AwaitingCancel, OnlyRequest, OnlyReply, OnlyAnswer
<1>8. QED
  BY <1>2, <1>3, <1>4, <1>5, <1>6, <1>7 DEF InLoop

SameLiveIds == \A u \in Traders : LiveId(u)' = LiveId(u)

(* One step of the loop, for the trader that takes it.                     *)
LEMMA PlaceOrderOwn ==
  ASSUME Trading, running, NEW t \in Traders, NEW side, NEW volume, NEW price,
         PlaceOrder(t, side, volume, price)
  PROVE  InLoop(t)' /\ LiveId(t)' = LiveId(t)
<1>1. Placing(t)
  BY DEF PlaceOrder, Trading, InLoop, AwaitingId, Sleeping, AwaitingCancel
<1>2. /\ trader'[t] = "awaitsId"
      /\ request'[t].op = "new"
      /\ UNCHANGED <<orderId, reply, answer>>
  BY DEF PlaceOrder, Trading, EntryTypeOK, New
<1>3. AwaitingId(t)'
  BY <1>1, <1>2 DEF Placing, Quiet, AwaitingId, OnlyRequest
<1>4. QED
  BY <1>1, <1>2, <1>3 DEF InLoop, LiveId, Placing, Quiet

LEMMA ReadPlacedOwn ==
  ASSUME Trading, running, NEW t \in Traders, ReadPlaced(t)
  PROVE  InLoop(t)' /\ LiveId(t)' = LiveId(t)
<1>1. AwaitingId(t) /\ OnlyAnswer(t) /\ AnswersNew(answer[t])
  BY DEF ReadPlaced, Trading, InLoop, Placing, AwaitingId, Sleeping, AwaitingCancel,
     OnlyRequest, OnlyReply, Quiet
<1>2. answer'[t] = None /\ UNCHANGED <<request, reply>>
  BY DEF ReadPlaced, Trading, EntryTypeOK
<1>3. CASE answer[t].op = "accepted"
  <2>1. trader'[t] = "sleeping" /\ orderId'[t] = answer[t].id /\ answer[t].id # 0
    BY <1>1, <1>3 DEF ReadPlaced, Trading, EntryTypeOK, AnswersNew
  <2>2. Sleeping(t)'
    BY <1>1, <1>2, <2>1 DEF OnlyAnswer, Sleeping, Quiet
  <2>3. LiveId(t)' = LiveId(t)
    BY <1>1, <1>2, <1>3, <2>1 DEF LiveId, OnlyAnswer, None
  <2>4. QED
    BY <2>2, <2>3 DEF InLoop
<1>4. CASE answer[t].op # "accepted"
  <2>1. ~running' /\ UNCHANGED <<trader, orderId>>
    BY <1>4 DEF ReadPlaced, clientVars
  <2>2. AwaitingId(t)'
    BY <1>1, <1>2, <2>1 DEF OnlyAnswer, AwaitingId, Quiet
  <2>3. LiveId(t)' = LiveId(t)
    BY <1>1, <1>2, <1>4, <2>1 DEF LiveId, OnlyAnswer, None
  <2>4. QED
    BY <2>2, <2>3 DEF InLoop
<1>5. QED
  BY <1>3, <1>4

LEMMA SendCancelOwn ==
  ASSUME Trading, running, NEW t \in Traders, SendCancel(t)
  PROVE  InLoop(t)' /\ LiveId(t)' = LiveId(t)
<1>1. Sleeping(t)
  BY DEF SendCancel, Trading, InLoop, Placing, AwaitingId, AwaitingCancel
<1>2. /\ trader'[t] = "awaitsCancel"
      /\ request'[t] = Cancel(orderId[t])
      /\ UNCHANGED <<orderId, reply, answer>>
  BY DEF SendCancel, Trading, EntryTypeOK
<1>3. AwaitingCancel(t)'
  BY <1>1, <1>2 DEF Sleeping, Quiet, AwaitingCancel, OnlyRequest
<1>4. QED
  BY <1>1, <1>2, <1>3 DEF InLoop, LiveId, Sleeping, Quiet

LEMMA ReadCancelledOwn ==
  ASSUME Trading, NEW t \in Traders, ReadCancelled(t)
  PROVE  InLoop(t)' /\ LiveId(t)' = 0 /\ GoneFromBook(LiveId(t))
<1>1. /\ AwaitingCancel(t) /\ OnlyAnswer(t)
      /\ answer[t] = Cancelled(orderId[t]) /\ GoneFromBook(orderId[t])
  BY DEF ReadCancelled, Trading, InLoop, Placing, AwaitingId, Sleeping, AwaitingCancel,
     OnlyRequest, OnlyReply
<1>2. /\ trader'[t] = "placing"
      /\ orderId'[t] = 0
      /\ answer'[t] = None
      /\ UNCHANGED <<request, reply>>
  BY DEF ReadCancelled, Trading, EntryTypeOK
<1>3. Placing(t)'
  BY <1>1, <1>2 DEF OnlyAnswer, Placing, Quiet
<1>4. LiveId(t)' = 0 /\ LiveId(t) = orderId[t]
  BY <1>1, <1>2 DEF LiveId, OnlyAnswer, None, Cancelled
<1>5. QED
  BY <1>1, <1>3, <1>4 DEF InLoop

LEMMA WriteReplyOwn ==
  ASSUME Trading, running, NEW t \in Traders, WriteReply(t)
  PROVE  InLoop(t)' /\ LiveId(t)' = LiveId(t)
<1>1. \A id : GoneFromBook(id) => GoneFromBook(id)'
  BY DEF WriteReply, engineVars, historyVars, vars, bookVars, GoneFromBook, Resting, RestingOn
<1>2. /\ answer'[t] = reply[t]
      /\ reply'[t] = None
      /\ UNCHANGED <<trader, orderId, request>>
  BY DEF WriteReply, Trading, EntryTypeOK, clientVars
<1>3. CASE AwaitingId(t) /\ OnlyReply(t) /\ AnswersNew(reply[t])
  <2>1. AwaitingId(t)'
    BY <1>2, <1>3 DEF AwaitingId, AnswersNew, OnlyReply, OnlyAnswer
  <2>2. QED
    BY <1>2, <1>3, <2>1 DEF InLoop, LiveId, OnlyReply, None
<1>4. CASE AwaitingCancel(t) /\ OnlyReply(t) /\ reply[t] = Cancelled(orderId[t]) /\ GoneFromBook(orderId[t])
  <2>1. AwaitingCancel(t)'
    BY <1>1, <1>2, <1>4 DEF AwaitingCancel, OnlyReply, OnlyAnswer, GoneFromBook
  <2>2. QED
    BY <1>2, <1>4, <2>1 DEF InLoop, LiveId, OnlyReply, Cancelled, None
<1>5. QED
  BY <1>3, <1>4 DEF WriteReply, Trading, InLoop, Placing, AwaitingId, Sleeping, AwaitingCancel,
     Quiet, OnlyRequest, OnlyAnswer

-----------------------------------------------------------------------------
(* What the engine does for a request: an order is accepted, or rejected   *)
(* because the pool is empty; ...                                          *)
LEMMA HandleNewOwn ==
  ASSUME OrderedBook, OrderedBook', Trading, running, NEW t \in Traders, HandleNew(t)
  PROVE  /\ InLoop(t)' /\ LiveId(t) = 0
         /\ reply' = [reply EXCEPT ![t] = result']
         /\ \/ /\ LiveId(t)' = atomicOrderID + 1
               /\ atomicOrderID' = atomicOrderID + 1
               /\ atomicOrderID < MaxOrders
               /\ result' = Accepted(atomicOrderID + 1)
            \/ /\ LiveId(t)' = 0
               /\ result' = Rejected("pool")
               /\ freeStack = <<>>
<1>1. AwaitingId(t) /\ OnlyRequest(t) /\ request[t].op = "new"
  <2>1. reply[t] = None /\ request[t].op = "new" /\ InLoop(t)
    BY DEF HandleNew, Trading
  <2>2. QED
    BY <2>1 DEF InLoop, Placing, AwaitingId, Sleeping, AwaitingCancel,
       Quiet, OnlyRequest, OnlyReply, OnlyAnswer, None, Cancel
<1>2. LiveId(t) = 0
  BY <1>1 DEF LiveId, AwaitingId, OnlyRequest, None
<1> DEFINE side == request[t].side
           volume == request[t].volume
           price == request[t].price
<1>3. side \in Side /\ IsTradable(price) /\ AddOrder(side, volume, price)
  BY <1>1, RequestFields, RequestTradable DEF Trading, HandleNew
<1> HIDE DEF side, volume, price
<1>4. /\ reply' = [reply EXCEPT ![t] = result']
      /\ request' = [request EXCEPT ![t] = None]
      /\ UNCHANGED <<trader, orderId, answer, running>>
  BY DEF HandleNew, clientVars
<1>5. reply'[t] = result' /\ request'[t] = None
  BY <1>4 DEF Trading, EntryTypeOK
<1>6. CASE AddOrderPoolEmpty
  <2>1. result' = Rejected("pool") /\ freeStack = <<>>
    BY <1>6 DEF AddOrderPoolEmpty
  <2>2. AwaitingId(t)'
    BY <1>1, <1>4, <1>5, <2>1 DEF AwaitingId, AnswersNew, OnlyRequest, OnlyReply, Rejected
  <2>3. LiveId(t)' = 0
    BY <1>1, <1>4, <1>5, <2>1 DEF LiveId, AwaitingId, OnlyRequest, Rejected, None
  <2>4. QED
    BY <1>2, <1>4, <2>1, <2>2, <2>3 DEF InLoop
<1>7. CASE \E slot \in Slot : TakesSlot(slot, NewOrder(side, volume, price))
  <2>1. PICK slot \in Slot : TakesSlot(slot, NewOrder(side, volume, price))
    BY <1>7
  <2>2. /\ result' = Accepted(atomicOrderID + 1)
        /\ atomicOrderID' = atomicOrderID + 1
        /\ atomicOrderID < MaxOrders
    BY <1>3, <2>1 DEF TakesSlot, NewOrder
  <2>3. atomicOrderID + 1 # 0
    BY OrderedBookParts
  <2>4. AwaitingId(t)'
    BY <1>1, <1>4, <1>5, <2>2, <2>3 DEF AwaitingId, AnswersNew, OnlyRequest, OnlyReply, Accepted
  <2>5. LiveId(t)' = atomicOrderID + 1
    BY <1>5, <2>2 DEF LiveId, Accepted
  <2>6. QED
    BY <1>2, <1>4, <2>2, <2>4, <2>5 DEF InLoop
<1>8. QED
  BY <1>3, <1>6, <1>7, AddOrderEffect

(* ... and a cancel leaves its order in the book only if it is disturbed.  *)
LEMMA HandleCancelOwn ==
  ASSUME OrderedBook, OrderedBook', EntriesKept, Trading, running, NEW t \in Traders,
         HandleCancel(t)
  PROVE  /\ InLoop(t)' /\ LiveId(t)' = LiveId(t)
         /\ reply' = [reply EXCEPT ![t] = Cancelled(orderId[t])]
         /\ result' = Cancelled(orderId[t]) /\ orderId[t] \in Ids
<1>1. reply[t] = None /\ request[t].op = "cancel"
  BY DEF HandleCancel
<1>2. /\ AwaitingCancel(t) /\ OnlyRequest(t) /\ request[t] = Cancel(orderId[t])
      /\ LiveId(t) = orderId[t] /\ orderId[t] \in OrderIds /\ orderId[t] \in Ids
  BY <1>1, NamedByTrader
<1>3. CancelOrder(orderId[t]) /\ RecordUse
  BY <1>2 DEF HandleCancel, Recorded, Cancel
<1>4. TakesOut(orderId[t])
  BY <1>2, <1>3, CancelOrderEffect
<1>5. /\ result' = Cancelled(orderId[t])
      /\ reply' = [reply EXCEPT ![t] = Cancelled(orderId[t])]
      /\ reply'[t] = Cancelled(orderId[t])
      /\ request'[t] = None
      /\ UNCHANGED <<trader, orderId, answer>>
  BY <1>4 DEF HandleCancel, TakesOut, clientVars, Trading, EntryTypeOK
<1>6. GoneFromBook(orderId[t])'
  BY <1>3, <1>4, <1>5, CancelLeavesDisturbed DEF GoneFromBook
<1>7. AwaitingCancel(t)'
  BY <1>2, <1>5, <1>6 DEF AwaitingCancel, OnlyRequest, OnlyReply
<1>8. LiveId(t)' = LiveId(t)
  BY <1>2, <1>5 DEF LiveId, OnlyRequest, Cancelled, None
<1>9. QED
  BY <1>2, <1>5, <1>7, <1>8 DEF InLoop

-----------------------------------------------------------------------------
(* The types after a step.                                                 *)
ClientsTyped ==
  /\ trader \in [Traders -> {"placing", "awaitsId", "sleeping", "awaitsCancel"}]
  /\ orderId \in [Traders -> Ids]
  /\ request \in [Traders -> Requests]
  /\ reply \in [Traders -> Replies]
  /\ answer \in [Traders -> Replies]
  /\ running \in BOOLEAN

LEMMA NoneIsMessage == None \in Requests /\ None \in Replies /\ 0 \in Ids
BY MatchingEngineAssumption DEF Requests, Replies, Ids

LEMMA TraderStepTyped ==
  ASSUME EntryTypeOK, NEW t \in Traders, TraderStep(t)
  PROVE  ClientsTyped'
<1> USE NoneIsMessage DEF ClientsTyped, EntryTypeOK
<1>1. ASSUME NEW side \in Side, NEW volume \in Volumes, NEW price \in TraderPrices,
             PlaceOrder(t, side, volume, price)
      PROVE  ClientsTyped'
  <2>1. New(side, volume, price) \in Requests
    BY DEF New, Requests
  <2>2. QED
    BY <1>1, <2>1 DEF PlaceOrder
<1>2. CASE ReadPlaced(t)
  <2>1. running' => answer[t].id \in Ids
    BY <1>2, ReplyFields DEF ReadPlaced
  <2>2. QED
    BY <1>2, <2>1 DEF ReadPlaced, clientVars
<1>3. CASE SendCancel(t)
  <2>1. Cancel(orderId[t]) \in Requests
    BY DEF Cancel, Requests
  <2>2. QED
    BY <1>3, <2>1 DEF SendCancel
<1>4. CASE ReadCancelled(t)
  BY <1>4 DEF ReadCancelled
<1>5. QED
  BY <1>1, <1>2, <1>3, <1>4 DEF TraderStep

LEMMA SessionStepTyped ==
  ASSUME OrderedBook, OrderedBook', EntriesKept, Trading, running, NEW t \in Traders,
         SessionStep(t)
  PROVE  ClientsTyped'
<1> USE NoneIsMessage DEF ClientsTyped, EntryTypeOK, Trading
<1>1. CASE HandleNew(t)
  <2>1. reply' = [reply EXCEPT ![t] = result']
    BY <1>1, HandleNewOwn
  <2>2. result' \in Replies
    <3>1. CASE result' = Rejected("pool")
      BY <3>1 DEF Rejected, Replies
    <3>2. CASE result' = Accepted(atomicOrderID + 1) /\ atomicOrderID < MaxOrders
      <4>1. atomicOrderID + 1 \in Ids
        BY <3>2, OrderedBookParts, MatchingEngineAssumption DEF Ids
      <4>2. QED
        BY <3>2, <4>1 DEF Accepted, Replies
    <3>3. QED
      BY <1>1, <3>1, <3>2, HandleNewOwn
  <2>3. QED
    BY <1>1, <2>1, <2>2 DEF HandleNew, clientVars
<1>2. CASE HandleCancel(t)
  <2>1. reply' = [reply EXCEPT ![t] = Cancelled(orderId[t])] /\ orderId[t] \in Ids
    BY <1>2, HandleCancelOwn
  <2>2. Cancelled(orderId[t]) \in Replies
    BY <2>1 DEF Cancelled, Replies
  <2>3. QED
    BY <1>2, <2>1, <2>2 DEF HandleCancel, clientVars
<1>3. CASE WriteReply(t)
  BY <1>3 DEF WriteReply, clientVars
<1>4. QED
  BY <1>1, <1>2, <1>3 DEF SessionStep

(* The histories after a step.                                             *)
LEMMA HistoriesTyped ==
  ASSUME OrderedBook, OrderedBook', EntryTypeOK, EntryNext
  PROVE  /\ disturbed' \subseteq Slot /\ taken' \subseteq Slot
         /\ \A slot \in taken : slot \in taken' \/ slot \in ToSet(freeStack')
<1> USE DEF EntryTypeOK
<1>1. CASE UNCHANGED engineVars
  BY <1>1 DEF engineVars, historyVars
<1>2. ASSUME Recorded \/ RecordedForOther
      PROVE  /\ disturbed' \subseteq Slot /\ taken' \subseteq Slot
             /\ \A slot \in taken : slot \in taken' \/ slot \in ToSet(freeStack')
  <2>1. Resting' \subseteq Slot
    BY OrderedBookPartsPrimed DEF Held
  <2>2. ToSet(freeStack) \subseteq Slot
    BY OrderedBookParts, ElementOfSeq, LenProperties DEF ToSet
  <2>3. QED
    BY <1>2, <2>1, <2>2 DEF Recorded, RecordedForOther, RecordUse
<1>3. ASSUME NEW t \in Traders, TraderStep(t)
      PROVE  UNCHANGED engineVars
  BY <1>3 DEF TraderStep, PlaceOrder, ReadPlaced, SendCancel, ReadCancelled
<1>4. ASSUME NEW t \in Traders, SessionStep(t)
      PROVE  UNCHANGED engineVars \/ Recorded
  BY <1>4 DEF SessionStep, HandleNew, HandleCancel, WriteReply
<1>5. CASE Match \/ OtherClient
  BY <1>2, <1>5 DEF Match, OtherClient, AddForOther, CancelForOther
<1>6. QED
  BY <1>1, <1>2, <1>3, <1>4, <1>5 DEF EntryNext

-----------------------------------------------------------------------------
(* What a step does to the live ids and to the orders that traders mind.   *)
Stays(slot) == slot \in Minded /\ pool'[slot].id = pool[slot].id

LivesOn == SameLiveIds /\ \A slot \in Minded' : Stays(slot)

DropsId(t) ==
  /\ LiveId(t)' = 0
  /\ GoneFromBook(LiveId(t))
  /\ \A u \in Traders \ {t} : LiveId(u)' = LiveId(u)
  /\ \A slot \in Minded' : Stays(slot)

GetsId(t) ==
  /\ LiveId(t) = 0
  /\ LiveId(t)' = atomicOrderID'
  /\ atomicOrderID' = atomicOrderID + 1
  /\ \A u \in Traders \ {t} : LiveId(u)' = LiveId(u)
  /\ \A slot \in Minded' : Stays(slot) \/ pool'[slot].id = atomicOrderID'

LEMMA LoopsGoOn ==
  ASSUME Trading, running, LiveIdsGiven, StaysGone, NEW t \in Traders, TouchesOnly(t), InLoop(t)'
  PROVE  /\ \A u \in Traders : InLoop(u)'
         /\ \A u \in Traders \ {t} : LiveId(u)' = LiveId(u)
BY OthersStay DEF TouchesOnly

LEMMA MindedAtRest ==
  ASSUME UNCHANGED engineVars
  PROVE  \A slot \in Minded' : Stays(slot)
BY DEF engineVars, historyVars, vars, bookVars, Minded, Stays, Resting, RestingOn

LEMMA RestingNotFree == OrderedBook => \A other \in Resting : other \notin ToSet(freeStack)
BY RestingFacts

LEMMA MindedAfterCall ==
  ASSUME OrderedBook, OrderedBook', Next, RecordUse,
         \A slot \in taken : slot \in taken' \/ slot \in ToSet(freeStack'),
         NEW slot \in Minded'
  PROVE  Stays(slot) \/ IsNewcomer(slot)
<1>1. slot \in Resting' /\ slot \notin disturbed' /\ slot \notin taken'
  BY DEF Minded
<1>2. slot \notin ToSet(freeStack')
  <2>1. (OrderedBook => \A other \in Resting : other \notin ToSet(freeStack))'
    BY RestingNotFree, PTL
  <2>2. QED
    BY <1>1, <2>1
<1>3. slot \notin taken
  BY <1>1, <1>2
<1>4. QED
  BY <1>1, <1>3, WhatRests DEF Minded, Stays

LEMMA TraderStepEffect ==
  ASSUME EntryInv, running, StaysGone, NEW t \in Traders, TraderStep(t)
  PROVE  (\A u \in Traders : InLoop(u)') /\ (LivesOn \/ DropsId(t))
<1>1. Trading /\ LiveIdsGiven /\ TouchesOnly(t)
  BY StepTouchesOne DEF EntryInv, Owned, Trading
<1>2. \A slot \in Minded' : Stays(slot)
  BY MindedAtRest DEF TraderStep, PlaceOrder, ReadPlaced, SendCancel, ReadCancelled
<1>3. /\ InLoop(t)'
      /\ \/ LiveId(t)' = LiveId(t)
         \/ LiveId(t)' = 0 /\ GoneFromBook(LiveId(t))
  BY <1>1, PlaceOrderOwn, ReadPlacedOwn, SendCancelOwn, ReadCancelledOwn DEF TraderStep
<1>4. /\ \A u \in Traders : InLoop(u)'
      /\ \A u \in Traders \ {t} : LiveId(u)' = LiveId(u)
  BY <1>1, <1>3, LoopsGoOn
<1>5. QED
  BY <1>2, <1>3, <1>4 DEF LivesOn, SameLiveIds, DropsId

LEMMA SessionStepEffect ==
  ASSUME EntryInv, OrderedBook', EntryNext, running, StaysGone, NEW t \in Traders, SessionStep(t)
  PROVE  (\A u \in Traders : InLoop(u)') /\ (LivesOn \/ GetsId(t))
<1>1. OrderedBook /\ EntriesKept /\ Trading /\ LiveIdsGiven /\ TouchesOnly(t) /\ EntryTypeOK
  BY StepTouchesOne DEF EntryInv, Owned, Trading
<1>2. ASSUME InLoop(t)'
      PROVE  /\ \A u \in Traders : InLoop(u)'
             /\ \A u \in Traders \ {t} : LiveId(u)' = LiveId(u)
  BY <1>1, <1>2, LoopsGoOn
<1>3. ASSUME Next, RecordUse, NEW slot \in Minded'
      PROVE  Stays(slot) \/ IsNewcomer(slot)
  BY <1>1, <1>3, HistoriesTyped, MindedAfterCall
<1>4. CASE HandleNew(t)
  <2>1. Next /\ RecordUse
    <3>1. /\ request[t].side \in Side
          /\ request[t].volume \in Volumes
          /\ request[t].price \in Prices
          /\ AddOrder(request[t].side, request[t].volume, request[t].price)
          /\ RecordUse
      BY <1>1, <1>4, RequestFields DEF HandleNew, Recorded
    <3>2. QED
      BY <3>1 DEF Next
  <2>2. /\ InLoop(t)' /\ LiveId(t) = 0
        /\ \/ /\ LiveId(t)' = atomicOrderID + 1
              /\ atomicOrderID' = atomicOrderID + 1
           \/ /\ LiveId(t)' = 0
              /\ result' = Rejected("pool")
    BY <1>1, <1>4, HandleNewOwn
  <2>3. CASE LiveId(t)' = atomicOrderID + 1 /\ atomicOrderID' = atomicOrderID + 1
    BY <1>2, <1>3, <2>1, <2>2, <2>3 DEF GetsId, IsNewcomer
  <2>4. CASE LiveId(t)' = 0 /\ result' = Rejected("pool")
    <3>1. \A slot \in Minded' : Stays(slot)
      BY <1>3, <2>1, <2>4 DEF IsNewcomer, Accepted, Rejected
    <3>2. QED
      BY <1>2, <2>2, <2>4, <3>1 DEF LivesOn, SameLiveIds
  <2>5. QED
    BY <1>2, <2>2, <2>3, <2>4
<1>5. CASE HandleCancel(t)
  <2>1. Next /\ RecordUse
    <3>1. reply[t] = None /\ request[t].op = "cancel" /\ CancelOrder(request[t].id) /\ RecordUse
      BY <1>5 DEF HandleCancel, Recorded
    <3>2. request[t] = Cancel(orderId[t]) /\ orderId[t] \in OrderIds
      BY <1>1, <3>1, NamedByTrader
    <3>3. request[t].id \in OrderIds
      BY <3>2 DEF Cancel
    <3>4. QED
      BY <3>1, <3>3 DEF Next
  <2>2. InLoop(t)' /\ LiveId(t)' = LiveId(t) /\ result' = Cancelled(orderId[t])
    BY <1>1, <1>5, HandleCancelOwn
  <2>3. \A slot \in Minded' : Stays(slot)
    BY <1>3, <2>1, <2>2 DEF IsNewcomer, Accepted, Cancelled
  <2>4. QED
    BY <1>2, <2>2, <2>3 DEF LivesOn, SameLiveIds
<1>6. CASE WriteReply(t)
  <2>1. InLoop(t)' /\ LiveId(t)' = LiveId(t)
    BY <1>1, <1>6, WriteReplyOwn
  <2>2. \A slot \in Minded' : Stays(slot)
    BY <1>6, MindedAtRest DEF WriteReply
  <2>3. QED
    BY <1>2, <2>1, <2>2 DEF LivesOn, SameLiveIds
<1>7. QED
  BY <1>4, <1>5, <1>6 DEF SessionStep

(* The main thread and other clients give traders nothing to mind.         *)
LEMMA OthersEffect ==
  ASSUME EntryInv, OrderedBook', EntryNext, running, StaysGone, Match \/ OtherClient
  PROVE  (\A u \in Traders : InLoop(u)') /\ ClientsTyped' /\ LivesOn
<1>1. OrderedBook /\ Trading /\ LiveIdsGiven /\ EntryTypeOK
  BY DEF EntryInv, Owned, Trading
<1>2. UNCHANGED <<trader, orderId, request, reply, answer, running>>
  BY DEF Match, OtherClient, AddForOther, CancelForOther, clientVars, sessionVars
<1>3. Next /\ RecordUse
  BY DEF Match, OtherClient, AddForOther, CancelForOther, Next, Recorded, RecordedForOther
<1>4. \A u \in Traders : InLoop(u)' /\ LiveId(u)' = LiveId(u)
  <2>1. \A u \in Traders : Untouched(u)
    BY <1>2 DEF Untouched
  <2>2. QED
    BY <1>1, <2>1, OthersStay
<1>5. ASSUME NEW slot \in Minded'
      PROVE  Stays(slot)
  <2>1. Stays(slot) \/ IsNewcomer(slot)
    BY <1>1, <1>3, <1>5, HistoriesTyped, MindedAfterCall
  <2>2. CASE IsNewcomer(slot)
    <3>1. result'.op = "accepted" /\ slot \notin taken'
      BY <1>5, <2>2 DEF IsNewcomer, Accepted, Minded
    <3>2. ~RecordedForOther
      BY <2>2, <3>1 DEF RecordedForOther, IsNewcomer
    <3>3. \A id : ~CancelOrder(id)
      BY <3>1 DEF CancelOrder, Cancelled
    <3>4. ~MatchLimitOrders
      BY <3>1 DEF MatchLimitOrders, MatchNothing, MatchBest, NoTrade, Trade
    <3>5. QED
      BY <3>2, <3>3, <3>4 DEF Match, OtherClient, AddForOther, CancelForOther
  <2>3. QED
    BY <2>1, <2>2
<1>6. ClientsTyped'
  BY <1>1, <1>2 DEF EntryTypeOK, ClientsTyped
<1>7. QED
  BY <1>4, <1>5, <1>6 DEF LivesOn, SameLiveIds

(* The three effects are all there are.                                    *)
LEMMA EntryEffect ==
  ASSUME EntryInv, OrderedBook', EntryNext
  PROVE  /\ Trading'
         /\ LivesOn \/ \E t \in Traders : DropsId(t) \/ GetsId(t)
<1>1. OrderedBook /\ EntriesKept /\ Trading /\ EntryTypeOK /\ running
  BY DEF EntryInv, Trading, EntryNext
<1>2. StaysGone
  BY <1>1, EntryStepsHistory, GoneStaysGone
<1>3. ASSUME Match \/ OtherClient
      PROVE  (\A u \in Traders : InLoop(u)') /\ ClientsTyped' /\ LivesOn
  BY <1>1, <1>2, <1>3, OthersEffect
<1>4. ASSUME NEW t \in Traders, TraderStep(t)
      PROVE  (\A u \in Traders : InLoop(u)') /\ ClientsTyped' /\ (LivesOn \/ DropsId(t))
  BY <1>1, <1>2, <1>4, TraderStepEffect, TraderStepTyped
<1>5. ASSUME NEW t \in Traders, SessionStep(t)
      PROVE  (\A u \in Traders : InLoop(u)') /\ ClientsTyped' /\ (LivesOn \/ GetsId(t))
  BY <1>1, <1>2, <1>5, SessionStepEffect, SessionStepTyped
<1>6. /\ (\A u \in Traders : InLoop(u)') /\ ClientsTyped'
      /\ LivesOn \/ \E t \in Traders : DropsId(t) \/ GetsId(t)
  BY <1>3, <1>4, <1>5 DEF EntryNext
<1>7. EntryTypeOK'
  BY <1>1, <1>6, HistoriesTyped DEF ClientsTyped, EntryTypeOK
<1>8. QED
  BY <1>6, <1>7 DEF Trading

(* The parts of the invariant about live ids, effect by effect.            *)
LEMMA OwnerOfMinded ==
  ASSUME OrderedBook, NoOrphanOrders, NEW slot \in Minded
  PROVE  \E t \in Traders : LiveId(t) = pool[slot].id /\ LiveId(t) # 0
<1>1. pool[slot].id # 0
  BY RestingFacts, OrderedBookParts DEF Minded
<1>2. QED
  BY <1>1 DEF NoOrphanOrders, Minded

LEMMA OwnedStays ==
  ASSUME EntryInv, OrderedBook', 0 .. atomicOrderID \subseteq 0 .. atomicOrderID',
         LivesOn \/ \E t \in Traders : DropsId(t) \/ GetsId(t)
  PROVE  Owned'
<1>1. OrderedBook /\ IdsAreTheirOwn /\ LiveIdsGiven /\ NoOrphanOrders
  BY DEF EntryInv, Owned
<1>2. NoOrphanOrders' <=> \A slot \in Minded' : \E t \in Traders : pool'[slot].id = LiveId(t)'
  BY DEF NoOrphanOrders, Minded
<1>3. atomicOrderID \in Nat /\ \A t \in Traders : LiveId(t) # atomicOrderID + 1
  BY <1>1, OrderedBookParts DEF LiveIdsGiven
<1>4. CASE LivesOn
  <2>1. IdsAreTheirOwn' /\ LiveIdsGiven'
    BY <1>1, <1>4 DEF LivesOn, SameLiveIds, IdsAreTheirOwn, LiveIdsGiven
  <2>2. NoOrphanOrders'
    BY <1>1, <1>2, <1>4, OwnerOfMinded DEF LivesOn, SameLiveIds, Stays
  <2>3. QED
    BY <2>1, <2>2 DEF Owned
<1>5. ASSUME NEW t \in Traders, DropsId(t)
      PROVE  Owned'
  <2>1. 0 \in 0 .. atomicOrderID'
    BY <1>3
  <2>2. IdsAreTheirOwn'
    BY <1>1, <1>5 DEF DropsId, IdsAreTheirOwn
  <2>3. LiveIdsGiven'
    BY <1>1, <1>5, <2>1 DEF DropsId, LiveIdsGiven
  <2>4. ASSUME NEW slot \in Minded'
        PROVE  \E u \in Traders : pool'[slot].id = LiveId(u)'
    <3>1. slot \in Minded /\ pool'[slot].id = pool[slot].id
      BY <1>5 DEF DropsId, Stays
    <3>2. PICK u \in Traders : LiveId(u) = pool[slot].id
      BY <1>1, <3>1, OwnerOfMinded
    <3>3. u # t
      BY <1>5, <3>1, <3>2 DEF DropsId, GoneFromBook, Minded
    <3>4. QED
      BY <1>5, <3>1, <3>2, <3>3 DEF DropsId
  <2>5. QED
    BY <1>2, <2>2, <2>3, <2>4 DEF Owned
<1>6. ASSUME NEW t \in Traders, GetsId(t)
      PROVE  Owned'
  <2>1. atomicOrderID' \in 0 .. atomicOrderID' /\ \A u \in Traders : LiveId(u) # atomicOrderID'
    BY <1>3, <1>6 DEF GetsId
  <2>2. IdsAreTheirOwn'
    BY <1>1, <1>6, <2>1 DEF GetsId, IdsAreTheirOwn
  <2>3. LiveIdsGiven'
    BY <1>1, <1>6, <2>1 DEF GetsId, LiveIdsGiven
  <2>4. ASSUME NEW slot \in Minded'
        PROVE  \E u \in Traders : pool'[slot].id = LiveId(u)'
    <3>1. CASE pool'[slot].id = atomicOrderID'
      BY <1>6, <3>1 DEF GetsId
    <3>2. CASE slot \in Minded /\ pool'[slot].id = pool[slot].id
      <4>1. PICK u \in Traders : LiveId(u) = pool[slot].id /\ LiveId(u) # 0
        BY <1>1, <3>2, OwnerOfMinded
      <4>2. u # t
        BY <1>6, <4>1 DEF GetsId
      <4>3. QED
        BY <1>6, <3>2, <4>1, <4>2 DEF GetsId
    <3>3. QED
      BY <1>6, <3>1, <3>2 DEF GetsId, Stays
  <2>5. QED
    BY <1>2, <2>2, <2>3, <2>4 DEF Owned
<1>7. QED
  BY <1>4, <1>5, <1>6

-----------------------------------------------------------------------------
(* Slots are lost to other clients at most, as a trader's order is never   *)
(* rejected for its price.                                                 *)
LEMMA EverySlotStays ==
  ASSUME EntryInv, OrderedBook', EntryNext
  PROVE  EverySlot'
<1>1. OrderedBook /\ Trading /\ EntryTypeOK /\ running /\ Accounted \union taken = Slot
  BY DEF EntryInv, Trading, EntryNext, EverySlot, Accounted
<1>2. EverySlot' <=> Accounted' \union taken' = Slot
  BY DEF EverySlot, Accounted
<1>3. CASE UNCHANGED engineVars
  BY <1>1, <1>2, <1>3 DEF engineVars, historyVars, vars, bookVars, Accounted, Resting, RestingOn
<1>4. ASSUME Recorded, Next, result' # Rejected("price")
      PROVE  EverySlot'
  <2>1. Accounted' = Accounted /\ ToSet(freeStack') \subseteq Accounted'
    BY <1>1, <1>4, StepReturnsSlots DEF Accounted
  <2>2. QED
    BY <1>1, <1>2, <1>4, <2>1 DEF Recorded
<1>5. ASSUME NEW t \in Traders, TraderStep(t)
      PROVE  EverySlot'
  BY <1>3, <1>5 DEF TraderStep, PlaceOrder, ReadPlaced, SendCancel, ReadCancelled
<1>6. ASSUME NEW t \in Traders, HandleNew(t)
      PROVE  EverySlot'
  <2>1. /\ request[t].side \in Side
        /\ request[t].volume \in Volumes
        /\ request[t].price \in Prices
        /\ AddOrder(request[t].side, request[t].volume, request[t].price)
        /\ Recorded
    BY <1>1, <1>6, RequestFields DEF HandleNew
  <2>2. Next
    BY <2>1 DEF Next
  <2>3. result' # Rejected("price")
    BY <1>1, <1>6, HandleNewOwn DEF Accepted, Rejected
  <2>4. QED
    BY <1>4, <2>1, <2>2, <2>3
<1>7. ASSUME NEW t \in Traders, HandleCancel(t)
      PROVE  EverySlot'
  <2>1. reply[t] = None /\ request[t].op = "cancel" /\ CancelOrder(request[t].id) /\ Recorded
    BY <1>7 DEF HandleCancel
  <2>2. request[t] = Cancel(orderId[t]) /\ orderId[t] \in OrderIds
    BY <1>1, <2>1, NamedByTrader
  <2>3. request[t].id \in OrderIds
    BY <2>2 DEF Cancel
  <2>4. QED
    BY <1>4, <2>1, <2>3 DEF Next, CancelOrder, Cancelled, Rejected
<1>8. ASSUME NEW t \in Traders, WriteReply(t)
      PROVE  EverySlot'
  BY <1>3, <1>8 DEF WriteReply
<1>9. CASE Match
  BY <1>4, <1>9 DEF Match, Next, MatchLimitOrders, MatchNothing, MatchBest, NoTrade, Trade, Rejected
<1>10. ASSUME NEW id \in OrderIds, CancelForOther(id)
       PROVE  EverySlot'
  BY <1>4, <1>10 DEF CancelForOther, Next, CancelOrder, Cancelled, Rejected
<1>11. ASSUME NEW side \in Side, NEW volume \in Volumes, NEW price \in Prices,
              AddForOther(side, volume, price)
       PROVE  EverySlot'
  <2>1. AddOrder(side, volume, price) /\ RecordedForOther
    BY <1>11 DEF AddForOther
  <2>2. taken' = taken \union (ToSet(freeStack) \ ToSet(freeStack'))
    BY <2>1 DEF RecordedForOther
  <2>3. CASE AddOrderPoolEmpty /\ Resting' = Resting
    BY <1>1, <1>2, <2>2, <2>3 DEF AddOrderPoolEmpty, bookVars, Accounted
  <2>4. ASSUME NEW slot \in Slot, NEW order, TakesSlot(slot, order)
        PROVE  EverySlot'
    BY <1>1, <1>2, <2>2, <2>4 DEF TakesSlot, StackAfterPop, Accounted
  <2>5. QED
    BY <1>1, <2>1, <2>3, <2>4, AddOrderEffect
<1>12. QED
  BY <1>5, <1>6, <1>7, <1>8, <1>9, <1>10, <1>11 DEF EntryNext, SessionStep, OtherClient

(* As each order that traders mind is that of one of them, there is a slot *)
(* left for a trader who has none while others leave one for each trader.  *)
LEMMA RoomForTrader ==
  ASSUME EntryInv, NEW t \in Traders, LiveId(t) = 0, freeStack = <<>>
  PROVE  Cardinality(taken \union disturbed) + Cardinality(Traders) > POOL_SIZE
<1> DEFINE owner == [slot \in Minded |-> CHOOSE u \in Traders : LiveId(u) = pool[slot].id]
           others == Traders \ {t}
           away == taken \union disturbed
<1>1. OrderedBook /\ NoOrphanOrders /\ away \subseteq Slot
  BY DEF EntryInv, Owned, Trading, EntryTypeOK
<1>2. Slot = Minded \union away
  <2>1. ToSet(freeStack) = {}
    BY DEF ToSet
  <2>2. Minded \subseteq Slot
    BY <1>1, RestingFacts DEF Minded
  <2>3. QED
    BY <1>1, <2>1, <2>2 DEF EntryInv, EverySlot, Minded
<1>3. \A slot \in Minded :
        /\ owner[slot] \in Traders
        /\ LiveId(owner[slot]) = pool[slot].id
        /\ pool[slot].id # 0
  <2>1. \A slot \in Minded : \E u \in Traders : LiveId(u) = pool[slot].id /\ LiveId(u) # 0
    BY <1>1, OwnerOfMinded
  <2>2. QED
    BY <2>1
<1> HIDE DEF owner
<1>4. owner \in [Minded -> others]
  BY <1>3 DEF owner
<1>5. \A x, y \in Minded : owner[x] = owner[y] => x = y
  BY <1>1, <1>3, RestingFacts DEF Minded
<1>6. owner \in Injection(Minded, others)
  BY <1>4, <1>5 DEF Injection, IsInjective
<1>7. IsFiniteSet(others) /\ Cardinality(others) = Cardinality(Traders) - 1
  BY OrderEntryAssumption, FS_RemoveElement
<1>8. IsFiniteSet(Minded) /\ Cardinality(Minded) <= Cardinality(others)
  BY <1>6, <1>7, FS_Injection
<1>9. IsFiniteSet(Slot) /\ Cardinality(Slot) = POOL_SIZE /\ POOL_SIZE \in Nat
  BY OrderBookAssumption, FS_Interval DEF Slot
<1>10. IsFiniteSet(away)
  BY <1>1, <1>9, FS_Subset
<1> HIDE DEF others, away
<1>11. Cardinality(Slot) = Cardinality(Minded) + Cardinality(away) - Cardinality(Minded \cap away)
  BY <1>2, <1>8, <1>10, FS_Union
<1>12. /\ IsFiniteSet(Minded \cap away) /\ Cardinality(Minded \cap away) \in Nat
       /\ Cardinality(Minded) \in Nat /\ Cardinality(away) \in Nat /\ Cardinality(Traders) \in Nat
  BY <1>8, <1>10, FS_Intersection, FS_CardinalityType, OrderEntryAssumption
<1>13. Cardinality(away) + Cardinality(Traders) > POOL_SIZE
  BY <1>7, <1>8, <1>9, <1>11, <1>12
<1>14. QED
  BY <1>13 DEF away

LEMMA RejectedForRoom ==
  ASSUME EntryInv, OrderedBook', EntryNext, NEW t \in Traders,
         reply[t] = None, reply'[t].op = "rejected"
  PROVE  LiveId(t) = 0 /\ freeStack = <<>>
<1>1. OrderedBook /\ EntriesKept /\ Trading /\ EntryTypeOK /\ running
  BY DEF EntryInv, Trading, EntryNext
<1>2. reply'[t] # reply[t]
  BY DEF None
<1>3. ~Match /\ ~OtherClient
  BY <1>2 DEF Match, OtherClient, AddForOther, CancelForOther, sessionVars
<1>4. PICK u \in Traders : TraderStep(u) \/ SessionStep(u)
  BY <1>3 DEF EntryNext
<1>5. u = t
  BY <1>1, <1>2, <1>4, StepTouchesOne DEF TouchesOnly, Untouched
<1>6. ~TraderStep(t)
  BY <1>2 DEF TraderStep, PlaceOrder, ReadPlaced, SendCancel, ReadCancelled
<1>7. ~WriteReply(t)
  BY DEF WriteReply
<1>8. ~HandleCancel(t)
  <2> SUFFICES ASSUME HandleCancel(t)
               PROVE  FALSE
    OBVIOUS
  <2>1. reply' = [reply EXCEPT ![t] = Cancelled(orderId[t])]
    BY <1>1, HandleCancelOwn
  <2>2. QED
    BY <1>1, <2>1 DEF EntryTypeOK, Cancelled
<1>9. HandleNew(t)
  BY <1>4, <1>5, <1>6, <1>7, <1>8 DEF SessionStep
<1>10. reply' = [reply EXCEPT ![t] = result'] /\ LiveId(t) = 0
       /\ (result' = Accepted(atomicOrderID + 1) \/ freeStack = <<>>)
  BY <1>1, <1>9, HandleNewOwn
<1>11. QED
  BY <1>1, <1>10 DEF EntryTypeOK, Accepted

-----------------------------------------------------------------------------
LEMMA EntryStepKeeps == EntryInv /\ [EntryNext]_entryVars => EntryInv'
<1> SUFFICES ASSUME EntryInv, [EntryNext]_entryVars
             PROVE  EntryInv'
  OBVIOUS
<1>1. OrderedBook /\ EntriesKept /\ Trading /\ [HistoryNext]_historyVars
  BY EntryStepsHistory DEF EntryInv
<1>2. OrderedBook'
  BY <1>1, OrderedBookStays DEF HistoryNext, historyVars
<1>3. EntriesKept'
  BY <1>1, HistoryStepKeeps
<1>4. CASE UNCHANGED entryVars
  <2>1. \A t \in Traders : LiveId(t)' = LiveId(t)
    BY <1>4 DEF entryVars, clientVars, sessionVars, LiveId
  <2>2. UNCHANGED engineVars
    BY <1>4 DEF entryVars
  <2>3. UNCHANGED <<bookVars, atomicOrderID, disturbed, taken>> /\ Resting' = Resting
    BY <2>2 DEF engineVars, historyVars, vars, bookVars, Resting, RestingOn
  <2>4. Owned'
    BY <2>1, <2>3 DEF EntryInv, Owned, IdsAreTheirOwn, LiveIdsGiven, NoOrphanOrders, bookVars
  <2>5. EverySlot'
    BY <2>3 DEF EntryInv, EverySlot, bookVars
  <2>6. Trading'
    BY <1>4, <2>3 DEF entryVars, bookVars, clientVars, sessionVars, EntryInv, Trading, EntryTypeOK,
       InLoop, Placing, AwaitingId, AnswersNew, Sleeping, AwaitingCancel, Quiet, OnlyRequest,
       OnlyReply, OnlyAnswer, GoneFromBook
  <2>7. QED
    BY <1>2, <1>3, <2>4, <2>5, <2>6 DEF EntryInv
<1>5. CASE EntryNext
  <2>1. Trading' /\ (LivesOn \/ \E t \in Traders : DropsId(t) \/ GetsId(t))
    BY <1>2, <1>5, EntryEffect
  <2>2. 0 .. atomicOrderID \subseteq 0 .. atomicOrderID'
    BY <1>1, <1>2, IdsGrow
  <2>3. Owned'
    BY <1>2, <2>1, <2>2, OwnedStays
  <2>4. EverySlot'
    BY <1>2, <1>5, EverySlotStays
  <2>5. QED
    BY <1>2, <1>3, <2>1, <2>3, <2>4 DEF EntryInv
<1>6. QED
  BY <1>4, <1>5

LEMMA AllSlotsFree == Init => Accounted = Slot
<1> SUFFICES ASSUME Init
             PROVE  Accounted = Slot
  OBVIOUS
<1>1. freeStack \in [1 .. POOL_SIZE -> Slot] /\ \A i \in 1 .. POOL_SIZE : freeStack[i] = i - 1
  BY OrderBookAssumption DEF Init, BookInit, Slot
<1>2. \A slot \in Slot : slot + 1 \in 1 .. POOL_SIZE /\ freeStack[slot + 1] = slot
  BY <1>1, OrderBookAssumption DEF Slot
<1>3. ToSet(freeStack) = Slot
  BY <1>1, <1>2 DEF ToSet
<1>4. QED
  BY <1>3, NothingRestsYet DEF Accounted

LEMMA EntryInitInv == EntryInit => EntryInv
<1> SUFFICES ASSUME EntryInit
             PROVE  EntryInv
  OBVIOUS
<1>1. Init /\ taken = {} /\ disturbed = {} /\ Resting = {}
  BY NothingRestsYet DEF EntryInit, HistoryInit
<1>2. OrderedBook /\ EntriesKept
  BY <1>1, InitOrdered, EntriesKeptInit
<1>3. \A t \in Traders : Placing(t) /\ LiveId(t) = 0
  BY DEF EntryInit, Placing, Quiet, LiveId, None
<1>4. EntryTypeOK
  BY <1>1, NoneIsMessage DEF EntryInit, EntryTypeOK
<1>5. Trading
  BY <1>3, <1>4 DEF Trading, InLoop
<1>6. Owned
  BY <1>1, <1>3 DEF Owned, IdsAreTheirOwn, LiveIdsGiven, NoOrphanOrders, Init
<1>7. EverySlot
  BY <1>1, AllSlotsFree DEF EverySlot, Accounted
<1>8. QED
  BY <1>2, <1>5, <1>6, <1>7 DEF EntryInv

LEMMA EntryInvAlways == EntrySpec => []EntryInv
BY EntryInitInv, EntryStepKeeps, PTL DEF EntrySpec

(* Every message under way has the form that its reader parses, and every  *)
(* request names fields the engine is specified for.                       *)
THEOREM EntryTypeCorrect == EntrySpec => []EntryTypeOK
<1>1. EntryInv => EntryTypeOK
  BY DEF EntryInv, Trading
<1>2. QED
  BY <1>1, EntryInvAlways, PTL

(* An order that neither another client placed nor a call for another id   *)
(* disturbed is one that a trader placed last and is going to cancel,      *)
(* for any number of traders and whatever other clients do.                *)
THEOREM NoOrderIsOrphaned == EntrySpec => []NoOrphanOrders
<1>1. EntryInv => NoOrphanOrders
  BY DEF EntryInv, Owned
<1>2. QED
  BY <1>1, EntryInvAlways, PTL

(* Two traders never hold the same order id.                               *)
THEOREM TradersHoldOwnIds == EntrySpec => []IdsAreTheirOwn
<1>1. EntryInv => IdsAreTheirOwn
  BY DEF EntryInv, Owned
<1>2. QED
  BY <1>1, EntryInvAlways, PTL

(* A trader is turned away only when other clients' orders, and orders     *)
(* whose entry another id used, have left fewer slots than there are       *)
(* traders.                                                                *)
THEOREM TradersAlwaysFindRoom == EntrySpec => TradersFindRoom
<1> DEFINE FindsRoom ==
      \A t \in Traders :
        reply[t] = None /\ reply'[t].op = "rejected" =>
          Cardinality(taken \union disturbed) + Cardinality(Traders) > POOL_SIZE
<1>1. EntryInv /\ EntryInv' /\ [EntryNext]_entryVars => [FindsRoom]_entryVars
  BY RejectedForRoom, RoomForTrader DEF EntryInv
<1>2. QED
  BY <1>1, EntryInvAlways, PTL DEF EntrySpec, TradersFindRoom

(* Whatever the clients and their sessions do, the engine runs as its own  *)
(* specification says: all that is proved of it holds behind the servers.  *)
THEOREM EngineBehindServers == EntrySpec => HistorySpec /\ Spec
<1>1. EntryInit => HistoryInit
  BY DEF EntryInit
<1>2. EntryInv => Trading
  BY DEF EntryInv
<1>3. EntrySpec => HistorySpec
  BY <1>1, <1>2, EntryInvAlways, EntryStepsHistory, PTL DEF EntrySpec, HistorySpec
<1>4. QED
  BY <1>3, HistoryRefines
=============================================================================
