------------------------------ MODULE OrderEntry ------------------------------
(***************************************************************************)
(* Order entry over TCP: the simulated traders that TradingSystem::start   *)
(* spawns in the server's own process, the session thread of each one's    *)
(* connection (TCPServer::run) and the matching engine that all of them    *)
(* and the main thread share.  A trader places an order, sleeps, cancels   *)
(* it and starts again (TraderClient::startRandomClientThread); it sends   *)
(* one request at a time and waits for the answer (TCPOrderSession), so    *)
(* that at most one message is under way in each direction.                *)
(*                                                                         *)
(* The server accepts any other client as well (TCPServer::run), such as   *)
(* the terminals of TerminalSessions.  They share the pool, the ids and    *)
(* the id table with the traders; what their sessions have the engine do   *)
(* is modelled here, at any time, their connections are not.               *)
(*                                                                         *)
(* A request travels as text and is parsed back into the same fields; it   *)
(* is taken to arrive in one piece, which read_some does not promise.      *)
(***************************************************************************)
EXTENDS CancelHistory

CONSTANT Traders     (* The threads that trade: 5 of them.                 *)

(* Clients can name every id that is given out.                            *)
ASSUME OrderEntryAssumption ==
  /\ IsFiniteSet(Traders)
  /\ 1 .. MaxOrders \subseteq OrderIds

(* Traders draw their prices from those of the book (priceDist).           *)
TraderPrices == Prices \intersect (StartOfPrice .. StartOfPrice + NumOfLevels - 1)

VARIABLES
  trader,      (* Where each trader is in its loop.                        *)
  orderId,     (* The local variable orderId of its loop, 0 when unset.    *)
  request,     (* The request under way on its connection.                 *)
  reply,       (* What its session thread is about to write.               *)
  answer,      (* The answer under way on its connection.                  *)
  running,     (* The process has not terminated.                          *)
  taken        (* History: the slots that orders of other clients took and *)
               (* that have not come back to the pool.                     *)

clientVars == <<trader, orderId>>
sessionVars == <<request, reply, answer>>
engineVars == <<historyVars, taken>>
entryVars == <<engineVars, clientVars, sessionVars, running>>

None == [op |-> "none"]
New(side, volume, price) ==
  [op |-> "new", side |-> side, volume |-> volume, price |-> price]
Cancel(id) == [op |-> "cancel", id |-> id]

Ids == 0 .. MaxOrders
Requests ==
  {None} \union [op : {"new"}, side : Side, volume : Volumes, price : TraderPrices]
         \union [op : {"cancel"}, id : Ids]
Replies ==
  {None} \union [op : {"accepted", "cancelled"}, id : Ids]
         \union [op : {"rejected"}, reason : {"pool", "price"}]

(* Each message under way has the form that its reader parses.             *)
EntryTypeOK ==
  /\ trader \in [Traders -> {"placing", "awaitsId", "sleeping", "awaitsCancel"}]
  /\ orderId \in [Traders -> Ids]
  /\ request \in [Traders -> Requests]
  /\ reply \in [Traders -> Replies]
  /\ answer \in [Traders -> Replies]
  /\ running \in BOOLEAN
  /\ disturbed \subseteq Slot
  /\ taken \subseteq Slot

EntryInit ==
  /\ HistoryInit
  /\ taken = {}
  /\ trader = [t \in Traders |-> "placing"]
  /\ orderId = [t \in Traders |-> 0]
  /\ request = [t \in Traders |-> None]
  /\ reply = [t \in Traders |-> None]
  /\ answer = [t \in Traders |-> None]
  /\ running = TRUE

-----------------------------------------------------------------------------
(* The id of the order that a trader has placed and not yet cancelled,     *)
(* which may still be on its way to the trader; 0 for none.                *)
LiveId(t) ==
  IF reply[t].op = "accepted" THEN reply[t].id
  ELSE IF answer[t].op = "accepted" THEN answer[t].id
  ELSE orderId[t]

(* The ids that were given out or will be for the requests under way.      *)
Asked == atomicOrderID + Cardinality({t \in Traders : request[t].op = "new"})

(* placeOrder writes the request ...                                       *)
PlaceOrder(t, side, volume, price) ==
  /\ trader[t] = "placing"
  /\ Asked < MaxOrders
  /\ request' = [request EXCEPT ![t] = New(side, volume, price)]
  /\ trader' = [trader EXCEPT ![t] = "awaitsId"]
  /\ UNCHANGED <<engineVars, orderId, reply, answer, running>>

(* ... and reads the answer: an id, or else it throws, which nothing in    *)
(* the thread catches, and std::terminate ends the process.                *)
ReadPlaced(t) ==
  /\ trader[t] = "awaitsId"
  /\ answer[t] # None
  /\ answer' = [answer EXCEPT ![t] = None]
  /\ running' = (answer[t].op = "accepted")
  /\ IF running'
     THEN /\ orderId' = [orderId EXCEPT ![t] = answer[t].id]
          /\ trader' = [trader EXCEPT ![t] = "sleeping"]
     ELSE UNCHANGED clientVars
  /\ UNCHANGED <<engineVars, request, reply>>

(* cancelOrder writes the request and reads the answer, which the trader   *)
(* ignores.                                                                *)
SendCancel(t) ==
  /\ trader[t] = "sleeping"
  /\ request' = [request EXCEPT ![t] = Cancel(orderId[t])]
  /\ trader' = [trader EXCEPT ![t] = "awaitsCancel"]
  /\ UNCHANGED <<engineVars, orderId, reply, answer, running>>

ReadCancelled(t) ==
  /\ trader[t] = "awaitsCancel"
  /\ answer[t] # None
  /\ answer' = [answer EXCEPT ![t] = None]
  /\ trader' = [trader EXCEPT ![t] = "placing"]
  /\ orderId' = [orderId EXCEPT ![t] = 0]
  /\ UNCHANGED <<engineVars, request, reply, running>>

-----------------------------------------------------------------------------
(* The histories, taken with every call of the engine on behalf of a       *)
(* trader or of the main thread, ...                                       *)
Recorded == RecordUse /\ taken' = taken \ ToSet(freeStack')

(* ... and with an order of another client.                                *)
RecordedForOther ==
  RecordUse /\ taken' = taken \union (ToSet(freeStack) \ ToSet(freeStack'))

-----------------------------------------------------------------------------
(* Faulty variants of the actions below, for mutation testing.             *)
HandleCancel_SilentIfGone(t) ==
  /\ reply[t] = None
  /\ request[t].op = "cancel"
  /\ CancelOrder(request[t].id)
  /\ Recorded
  /\ reply' = [reply EXCEPT ![t] =
       IF \E slot \in Resting : pool[slot].id = request[t].id THEN result' ELSE None]
  /\ request' = [request EXCEPT ![t] = None]
  /\ UNCHANGED <<clientVars, answer, running>>

WriteReply_SharedResult(t) ==
  /\ reply[t] # None
  /\ answer' = [answer EXCEPT ![t] = result]
  /\ reply' = [reply EXCEPT ![t] = None]
  /\ UNCHANGED <<engineVars, clientVars, request, running>>

-----------------------------------------------------------------------------
(* The session thread reads a request and has the engine handle it; what   *)
(* the engine returns or throws becomes its reply.                         *)
HandleNew(t) ==
  /\ reply[t] = None
  /\ request[t].op = "new"
  /\ AddOrder(request[t].side, request[t].volume, request[t].price)
  /\ Recorded
  /\ reply' = [reply EXCEPT ![t] = result']
  /\ request' = [request EXCEPT ![t] = None]
  /\ UNCHANGED <<clientVars, answer, running>>

HandleCancel(t) ==
  /\ reply[t] = None
  /\ request[t].op = "cancel"
  /\ CancelOrder(request[t].id)
  /\ Recorded
  /\ reply' = [reply EXCEPT ![t] = result']
  /\ request' = [request EXCEPT ![t] = None]
  /\ UNCHANGED <<clientVars, answer, running>>

(* It writes its reply, after the engine's mutex was released.             *)
WriteReply(t) ==
  /\ reply[t] # None
  /\ answer' = [answer EXCEPT ![t] = reply[t]]
  /\ reply' = [reply EXCEPT ![t] = None]
  /\ UNCHANGED <<engineVars, clientVars, request, running>>

(* The main thread calls matchLimitOrders.                                 *)
Match ==
  /\ MatchLimitOrders
  /\ Recorded
  /\ UNCHANGED <<clientVars, sessionVars, running>>

(* The session of another client calls addOrder, with any price, or        *)
(* cancelOrder, with any id.                                               *)
AddForOther(side, volume, price) ==
  /\ Asked < MaxOrders
  /\ AddOrder(side, volume, price)
  /\ RecordedForOther
  /\ UNCHANGED <<clientVars, sessionVars, running>>

CancelForOther(id) ==
  /\ CancelOrder(id)
  /\ Recorded
  /\ UNCHANGED <<clientVars, sessionVars, running>>

OtherClient ==
  \/ \E side \in Side, volume \in Volumes, price \in Prices : AddForOther(side, volume, price)
  \/ \E id \in OrderIds : CancelForOther(id)

TraderStep(t) ==
  \/ \E side \in Side, volume \in Volumes, price \in TraderPrices :
        PlaceOrder(t, side, volume, price)
  \/ ReadPlaced(t)
  \/ SendCancel(t)
  \/ ReadCancelled(t)

SessionStep(t) == HandleNew(t) \/ HandleCancel(t) \/ WriteReply(t)

EntryNext ==
  /\ running
  /\ (\E t \in Traders : TraderStep(t) \/ SessionStep(t)) \/ Match \/ OtherClient

EntrySpec == EntryInit /\ [][EntryNext]_entryVars

(* A session thread that has something to read or to write is scheduled    *)
(* and gets the mutex in the end; a trader reads an answer that is there.  *)
EntryFairness ==
  \A t \in Traders :
    /\ WF_entryVars(running /\ SessionStep(t))
    /\ WF_entryVars(running /\ (ReadPlaced(t) \/ ReadCancelled(t)))

FairEntrySpec == EntrySpec /\ EntryFairness

-----------------------------------------------------------------------------
(* An order that rests in the book is one that its trader placed last and  *)
(* is going to cancel, however fills, cancels and replies interleave.  Two *)
(* things alone keep an order that nobody would take out: it is another    *)
(* client's, or a call for another id has used its table entry.            *)
NoOrphanOrders ==
  \A slot \in Resting \ (taken \union disturbed) :
    \E t \in Traders : pool[slot].id = LiveId(t)

(* A rejected trader ends the process, and with it the exchange.  While    *)
(* the slots that other clients have taken, and those of orders whose      *)
(* table entry another id has used, leave one for each trader, none is     *)
(* rejected: every other slot is back before its trader needs one again,   *)
(* and none is lost.                                                       *)
TradersFindRoom ==
  [][\A t \in Traders :
       reply[t] = None /\ reply'[t].op = "rejected" =>
         Cardinality(taken \union disturbed) + Cardinality(Traders) > POOL_SIZE]_entryVars

(* Two traders never hold the same order id.                               *)
IdsAreTheirOwn ==
  \A t, u \in Traders : LiveId(t) = LiveId(u) /\ LiveId(t) # 0 => t = u

(* A trader that waits for an answer gets it, unless the process ends.     *)
TradersAreAnswered ==
  \A t \in Traders :
    trader[t] \in {"awaitsId", "awaitsCancel"} ~>
      trader[t] \notin {"awaitsId", "awaitsCancel"} \/ ~running

-----------------------------------------------------------------------------
(* "Cancel failed: order not found" (TCP_Server.hpp:64): a session thread  *)
(* replies "Order cancelled" only when the order was there to be taken out *)
(* of the book.                                                            *)
CancelConfirmsRemoval ==
  [][\A t \in Traders :
       reply[t] = None /\ reply'[t].op = "cancelled" =>
         \E slot \in Resting : pool[slot].id = reply'[t].id]_entryVars
=============================================================================
