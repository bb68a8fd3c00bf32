--------------------------- MODULE MarketDataServer ---------------------------
(***************************************************************************)
(* The market data server (UDPServer.hpp) on the stepwise engine: a thread *)
(* that reads the best prices and their volumes WITHOUT the engine's mutex *)
(* and broadcasts them every 50 ms, and the main thread, which announces   *)
(* each trade before it matches again.  Both send on one socket under      *)
(* socketMtx; a send can fail.                                             *)
(*                                                                         *)
(* A read of a queue that overlaps a write to it is a data race.  It is    *)
(* taken just before the write, and what it then yields is any slot, the   *)
(* volumes of any objects, or an address of no object, which ends the      *)
(* process.                                                                *)
(***************************************************************************)
EXTENDS EngineSteps

CONSTANT MaxFailures     (* Bound on the sends that fail.                  *)

ASSUME MarketDataServerAssumption == MaxFailures \in Nat

VARIABLES
  feed,        (* The market data thread: next step and local variables.   *)
  main,        (* The main thread: it matches, or announces a trade.       *)
  socketMtx,   (* UDPServer::socketMtx: who holds it.                      *)
  sent,        (* The last snapshot that was sent.                         *)
  failures,    (* How many sends have failed.                              *)
  running      (* The process has not ended.                               *)

socketVars == <<socketMtx, sent, failures, running>>
serverVars == <<stepVars, feed, main, socketVars>>

(* MarketDataSnapshot: bestBid, bestAsk and bidVolume, askVolume by side.  *)
EmptySnapshot == [price |-> [side \in Side |-> 0], volume |-> [side \in Side |-> 0]]

Wild == POOL_SIZE        (* A pointer to no object of the pool.            *)

(* The loop's body from its first line.                                    *)
NewReading ==
  [step |-> "word", side |-> Bid, at |-> NumOfWords - 1, caught |-> FALSE,
   order |-> [side \in Side |-> Wild], snapshot |-> EmptySnapshot]

(* The locals of both threads have their types, and a thread is sending    *)
(* exactly while it holds the socket's mutex.                              *)
ServerTypeOK ==
  /\ feed.step \in {"word", "empty", "front", "price", "level", "volume", "lock", "send"}
  /\ feed.at \in Level \union Word
  /\ feed.order \in [Side -> Slot \union {Wild}]
  /\ {feed.snapshot, sent} \subseteq [price : [Side -> U64], volume : [Side -> U64]]
  /\ main \in {"matching", "announcing", "sending"}
  /\ feed.step = "send" <=> socketMtx = "feed"
  /\ main = "sending" <=> socketMtx = "main"
  /\ failures \in 0 .. MaxFailures

ServerInit ==
  /\ StepInit
  /\ feed = NewReading
  /\ main = "matching"
  /\ socketMtx = "free"
  /\ sent = EmptySnapshot
  /\ failures = 0
  /\ running = TRUE

(* The volume of some orders.                                              *)
TotalVolume(slots) == MapThenSumSet(LAMBDA slot : pool[slot].volume, slots)

-----------------------------------------------------------------------------
(* Faulty variants of the operators below, for mutation testing.           *)
VolumeAt_OtherSide(side, level) ==
  ToU64(TotalVolume(ToSet(priceLevel[CHOOSE s \in Side : s # side][level])))

Unlocked_NotOnFailure == IF failures' = failures THEN socketMtx' = "free" ELSE UNCHANGED socketMtx

-----------------------------------------------------------------------------
(* The step of the engine under way writes the queue of this level.        *)
Writes(side, level) ==
  /\ call.step \in {"enqueue", "erase", "remove"}
  /\ call.side = side
  /\ IF call.step = "remove"
     THEN level = FindBestLevel(side) /\ GetVolume(pool[call.order[side]].volume) = 0
     ELSE level = call.level

(* deque::front, of an empty queue or of one that loses an element.        *)
FrontIsUndefined(side, level) ==
  \/ priceLevel[side][level] = <<>>
  \/ Writes(side, level) /\ call.step # "enqueue"

Fronts(side, level) ==
  IF FrontIsUndefined(side, level) THEN Slot \union {Wild}
  ELSE {Head(priceLevel[side][level])}

(* getVolumeAtLevelFromPrice sums a queue up in 64 bits.                   *)
VolumeAt(side, level) == ToU64(TotalVolume(ToSet(priceLevel[side][level])))

TornVolumes == {ToU64(TotalVolume(slots)) : slots \in SUBSET Slot}

-----------------------------------------------------------------------------
(* A step of the market data thread is taken at `step' and leaves          *)
(* everything but the thread's local variables as it is.                   *)
FeedAt(step) ==
  feed.step = step /\ UNCHANGED <<stepVars, main, socketMtx, sent, failures>>

Goes(reading) == feed' = reading /\ UNCHANGED running
Crashes == running' = FALSE /\ UNCHANGED feed

(* The handler of any exception sends an empty snapshot.                   *)
Caught == [NewReading EXCEPT !.step = "lock", !.caught = TRUE]

(* The bid is read before the ask, each as the same kind of step.          *)
Then(reading, again, next) ==
  IF feed.side = Bid
  THEN [reading EXCEPT !.side = Ask, !.step = again]
  ELSE [reading EXCEPT !.side = Bid, !.step = next]

(* findBestBidLevel reads the words downwards, findBestAskLevel upwards;   *)
(* without a 1 bit, getBestBid and getBestAsk throw.                       *)
ReadWord ==
  LET word == bitmap[feed.side][feed.at]
      bit == IF feed.side = Bid THEN Max(word) ELSE Min(word)
      next == IF feed.side = Bid THEN feed.at - 1 ELSE feed.at + 1
  IN  /\ FeedAt("word")
      /\ \/ /\ word # {}
            /\ Goes([feed EXCEPT !.step = "empty", !.at = feed.at * CHUNK + bit])
         \/ /\ word = {}
            /\ Goes(IF next \in Word THEN [feed EXCEPT !.at = next] ELSE Caught)

(* They throw for an empty queue, ...                                      *)
CheckEmpty ==
  /\ FeedAt("empty")
  /\ Goes(IF priceLevel[feed.side][feed.at] = <<>>
          THEN Caught ELSE [feed EXCEPT !.step = "front"])

(* ... and return the first order, which the queue may have lost by then.  *)
ReadFront ==
  /\ FeedAt("front")
  /\ \E order \in Fronts(feed.side, feed.at) :
       Goes(Then([feed EXCEPT !.order[feed.side] = order, !.at = 0], "word", "price"))

(* A price is read through the pointer.                                    *)
ReadPrice ==
  LET order == feed.order[feed.side]
  IN  /\ FeedAt("price")
      /\ \/ /\ order # Wild
            /\ Goes(Then([feed EXCEPT !.snapshot.price[feed.side] = ToU64(Ticks(order))],
                         "price", "level"))
         \/ order = Wild /\ Crashes

(* getVolumeAtLevelFromPrice is given the price once more and throws if it *)
(* is not a price of the book; ...                                         *)
ReadLevel ==
  LET price == pool[feed.order[feed.side]].price
  IN  /\ FeedAt("level")
      /\ Goes(IF IsTradable(price)
              THEN [feed EXCEPT !.step = "volume", !.at = PriceToIndex(price)] ELSE Caught)

(* ... it walks the queues of the bids and of the asks at that price.      *)
ReadVolume ==
  LET undefined == \E side \in Side : Writes(side, feed.at)
  IN  /\ FeedAt("volume")
      /\ \/ \E volume \in IF undefined THEN TornVolumes ELSE {VolumeAt(feed.side, feed.at)} :
              Goes(Then([feed EXCEPT !.snapshot.volume[feed.side] = volume, !.at = 0],
                        "level", "lock"))
         \/ undefined /\ Crashes

-----------------------------------------------------------------------------
(* A lock_guard is released when send_to returns and when it throws.       *)
Unlocked == socketMtx' = "free"

LockToSend ==
  /\ feed.step = "lock"
  /\ socketMtx = "free"
  /\ socketMtx' = "feed"
  /\ feed' = [feed EXCEPT !.step = "send"]
  /\ UNCHANGED <<stepVars, main, sent, failures, running>>

(* send_to throws out of the try block into its handler, but out of the    *)
(* handler out of the thread, which ends the process.                      *)
SendSnapshot ==
  /\ feed.step = "send"
  /\ \/ /\ sent' = feed.snapshot
        /\ feed' = NewReading
        /\ UNCHANGED <<failures, running>>
     \/ /\ failures < MaxFailures
        /\ failures' = failures + 1
        /\ feed' = Caught
        /\ running' = ~feed.caught
        /\ UNCHANGED sent
  /\ Unlocked
  /\ UNCHANGED <<stepVars, main>>

FeedReads ==
  ReadWord \/ CheckEmpty \/ ReadFront \/ ReadPrice \/ ReadLevel \/ ReadVolume

-----------------------------------------------------------------------------
(* The main thread matches, and has a trade to announce when a handler     *)
(* returns one.                                                            *)
Match ==
  /\ main = "matching"
  /\ CallMatch \/ ContinueMatch
  /\ main' = IF call # Idle /\ call' = Idle THEN "announcing" ELSE main
  /\ UNCHANGED <<feed, socketVars>>

LockToAnnounce ==
  /\ main = "announcing"
  /\ socketMtx = "free"
  /\ socketMtx' = "main"
  /\ main' = "sending"
  /\ UNCHANGED <<stepVars, feed, sent, failures, running>>

(* Nothing catches what send_to throws in sendTrade.                       *)
SendTrade ==
  /\ main = "sending"
  /\ main' = "matching"
  /\ \/ UNCHANGED <<failures, running>>
     \/ /\ failures < MaxFailures
        /\ failures' = failures + 1
        /\ running' = FALSE
  /\ Unlocked
  /\ UNCHANGED <<stepVars, feed, sent>>

(* The session threads.                                                    *)
Session == (CallHandler \/ ContinueHandler) /\ UNCHANGED <<feed, main, socketVars>>

ServerNext ==
  /\ running
  /\ \/ FeedReads \/ LockToSend \/ SendSnapshot
     \/ Match \/ LockToAnnounce \/ SendTrade
     \/ Session

ServerSpec == ServerInit /\ [][ServerNext]_serverVars

(* Each thread goes on; neither waits for socketMtx for ever while the     *)
(* other keeps giving it back; a session finishes the handler it is in.    *)
ServerFairness ==
  /\ WF_serverVars(running /\ (FeedReads \/ SendSnapshot))
  /\ WF_serverVars(running /\ (Match \/ SendTrade))
  /\ WF_serverVars(running /\ ContinueHandler /\ UNCHANGED <<feed, main, socketVars>>)
  /\ SF_serverVars(running /\ LockToSend)
  /\ SF_serverVars(running /\ LockToAnnounce)

FairServerSpec == ServerSpec /\ ServerFairness

-----------------------------------------------------------------------------
(* What a snapshot of the book should say: the best price of each side and *)
(* the volume that rests there, or nothing when a side is empty.           *)
BestTicks(side) ==
  LET prices == {Ticks(slot) : slot \in RestingOn(side)}
  IN  IF side = Bid THEN Max(prices) ELSE Min(prices)

Truth ==
  IF \A side \in Side : RestingOn(side) # {}
  THEN [price |-> [side \in Side |-> BestTicks(side)],
        volume |-> [side \in Side |->
          TotalVolume({slot \in RestingOn(side) : Ticks(slot) = BestTicks(side)})]]
  ELSE EmptySnapshot

(* Once the book has stopped changing, the snapshots that are sent are     *)
(* those of the book, whatever torn readings, exceptions and failed sends  *)
(* came before: no reading leaves anything behind for the next.            *)
FeedSettles ==
  <>[][UNCHANGED bookVars]_serverVars => <>[](~running \/ sent = Truth)

(* A trade is announced, however the two threads alternate on the socket   *)
(* and whichever sends fail, unless the process has ended.                 *)
TradesAreAnnounced == main = "announcing" ~> main = "matching" \/ ~running

(* "Broadcasts live market data (best bid, best ask, volumes)"             *)
(* (src/README.md:9): there is a volume at each best price sent.           *)
BestPricesHaveVolume ==
  \A side \in Side : sent.price[side] # 0 => sent.volume[side] # 0
=============================================================================
