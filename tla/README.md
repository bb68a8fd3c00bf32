# TLA+ specifications of the trading system

Specifications, model-checking runs and machine-checked proofs for the limit
order book, the matching engine, the order entry and the market data of this
repository. Paths of source files are relative to `src/TradingSystem/`.

    tlc -workers 2 -config MCCancelHistory_book.cfg MCCancelHistory   # one run
    tlapm EngineAtomicity_proofs.tla                                    # proofs

## 1. The system

One process runs the exchange. `main` builds a `TradingSystem`, whose `start()`
spawns the threads and then becomes the matching loop.

| Component | State | Operations | Called by |
|---|---|---|---|
| Order book (`Matching_Engine/OrderBook/OrderBook.*`) | one deque of `Order*` per side and price level (101 levels from 950 cents), one bitmap per side (two 64-bit words), a table of 10000 locations indexed by `orderId % 10000` | `addBid/Ask`, `removeBid/Ask`, `getBestBid/Ask`, `removeOrderFromOrderId`, `getVolumeAtLevelFromPrice` | the engine; the market data thread |
| Object pool (`ObjectPool.hpp`) | 10000 `Order` objects, a stack of free slots | `acquire`, `release` | engine, book |
| Orders and prices (`Order.cpp`, `Price.hpp`) | side, volume, id, price; 64-bit fields read through `int` | `reduceVolume`, `GetVolume`, `getPriceInTicks` | engine, book |
| Id generator (`UtilityClass/`) | last id | `incrementOrder` | engine |
| Matching engine (`Matching_Engine/MatchingEngine.*`) | the book, one mutex | `addOrder`, `cancelOrder`, `matchLimitOrders` | sessions; main thread |
| Order entry server (`Network Servers/TCP_Server.hpp`) | one thread per connection, nothing else | New, Cancel requests | clients |
| Order entry client (`TCPOrderSession.hpp`, `Order_Request.hpp`, `TraderClient.hpp`) | socket, request counter | `placeOrder`, `cancelOrder`, a terminal | traders, users |
| Simulated traders (`SimulatedTraders.hpp`) | five clients in the server's own process, each with a thread that places, sleeps, cancels, sleeps | `run` | `TradingSystem::start` |
| Market data server (`UDPServer.hpp`) | a UDP socket and its mutex; a thread that reads the book every 50 ms **without** the engine's mutex | `run`, `sendTrade` | main thread |
| Market data receiver (`UDPMarketDataReceiver.hpp`, `MarketData.hpp`) | the last snapshot | `deserialise`, `get` | clients |
| Trading system (`TradingSystem.cpp`) | owns the above | `start` | `main` |

Threads meet at three places: `MatchingEngine::mtx`, taken for the whole of
`addOrder`, `cancelOrder` and `matchLimitOrders`; the TCP connections; and the
unlocked reads of the market data thread. Nothing is persisted.

What makes each component correct, and what is hard about it:

* **Book.** Four structures describe the same orders: the queues, the bitmaps,
  the id table and the pool. Each operation updates some of them, in code that
  is written out once per side. They must stay consistent over any sequence of
  adds, cancels, partial and full fills and reuse of slots.
* **Engine.** Price-time priority (README of the repository, line 8); a trade
  happens exactly when the book crosses; fills are exact; no order comes out
  of the book other than by a fill or its own cancel. Hard: volumes and prices
  are 64 bits wide and pass through `int`; ids wrap around the id table; an
  exception leaves `addOrder` halfway.
* **Order entry.** Each request gets its own answer, ids belong to one trader,
  a trader that cancels leaves nothing behind, and no order rests that nobody
  asked for or whose user was never told of it. Hard: an order is filled, its
  slot reused and its table entry cleared between any two messages; clients of
  every kind share the slots, the ids and the table, and may cancel any id; one
  rejection of a simulated trader ends the process; a user leaves with a request or an answer under
  way; `read_some` returns a part of a request.
* **Market data server.** A snapshot should be of one moment, and every trade
  announced. Hard: the book is read in several steps without the engine's
  mutex, while queues are being changed; two threads share a socket, and a
  send that fails sends again from its own handler.
* **Market data receiver.** What a terminal shows was sent, as a whole, and is
  in the end the current state. Hard: UDP loses, repeats and reorders packets,
  snapshots carry no number, trades come to the same socket, and the fields
  are parsed one at a time while a user may look.

`PROJECT.json` lists every component with its status, and every hazard at its
line with the properties that watch it.

## 2. Modules

| Module | Models | Used by |
|---|---|---|
| `MachineIntegers` | `u_int64_t` and `int`, the conversions between them, and the arithmetic of `Order` and `Price` that goes through them | `OrderBook` |
| `LevelBitmap` | the bitmap of one side: words, bits, setting, clearing, searching | `OrderBook` |
| `OrderBook` | the book's variables and its operations, each an action on them: pool, queues, bitmaps, id table | `MatchingEngine` |
| `MatchingEngine` | the engine's three handlers as atomic actions over the book, the id generator, the matching loop | `CancelHistory`, `TerminalSessions`, `EngineSteps`, `MCMatchingEngine` |
| `CancelHistory` | a history of the id table: the resting orders whose entry a call for another id has used | `OrderEntry`, `MCCancelHistory` |
| `LimitOrderBook` | the abstract specification: a set of resting orders within a capacity, best price first and oldest first | `MatchingEngine!Promise` |
| `EngineSteps` | the same handlers write by write, with the mutex | `EngineAtomicity`, `MarketDataServer` |
| `EngineAtomicity` | the refinement: `EngineSteps` implements `MatchingEngine`, hence `LimitOrderBook` | `MCEngineAtomicity` |
| `OrderEntry` | the simulated traders, their connections, session threads and the matching loop around the engine, which other clients use at the same time | `MCOrderEntry` |
| `TerminalSessions` | users at terminals, their connections and session threads around the engine, with users who leave and requests that arrive in parts | `MCTerminalSessions` |
| `MarketDataServer` | the market data thread, the main thread with its announcements, and their socket, on the stepwise engine | `MCMarketDataServer` |
| `MarketDataReceiver` | a client's receiving thread, its shared snapshot, its terminal, and the network | `MCMarketDataReceiver` |
| `MC*` | values for the constants of the runs | |
| `OrderBook_proofs` | theorems about the narrowing of volumes and the searches; lemmas about bitmaps, queues and the pool | `MatchingEngine_proofs` |
| `MatchingEngine_proofs` | theorems about the types, the bitmaps, the owners of slots, the order of queues and the trades | the modules below |
| `MatchingEngine_promise_proofs` | theorems about what rests, the slots, the fills and the refinement of `LimitOrderBook` | `OrderEntry_proofs`, `TerminalSessions_proofs`, `EngineAtomicity_proofs` |
| `EngineAtomicity_proofs` | theorems about the refinements of the stepwise engine | |
| `OrderEntry_proofs` | the theorem about `CancelHistory`, and those about `OrderEntry` | |
| `TerminalSessions_proofs`, `MarketDataServer_proofs`, `MarketDataReceiver_proofs` | theorems about the modules they are named after | |

### How state and actions correspond to the code

* An `Order*` is the **slot** of the object in the pool (0-based, as in
  `ObjectPool::release`). `pool[slot]` is the object's contents and keeps them
  after a release, as the code's object does: `matchLimitOrders` returns a
  `Trade` that points to orders it may have released.
* `priceLevel[side][level]` is `mBidpriceLevel[level]` or
  `mAskPriceLevel[level]`; `bitmap[side]` a function from words to the set of
  their 1 bits. Code that exists once per side is one definition with a `side`;
  the two searches, which do differ, are `HighestLevel` and `LowestLevel`.
* `orderIdtoPriceMapping[key]` is an entry of the id table. It holds a price
  and a side but not the id, as in the code, so that another id can use it.
* In `MatchingEngine` each handler is **one action**, because it holds the
  engine's mutex from its first line to its last. A handler that throws in the
  middle keeps what it did: `AddOrderToSlot` has a disjunct where the price is
  not tradable, the slot is gone and the id used up. The order of the removal of
  a filled ask and a filled bid matters for the free stack, and is kept in
  `RemoveBest`.
* `result` is what the last handler returned or threw. `OrderEntry` puts it in
  the session's reply, and the properties of single steps read it.
* In `EngineSteps` the variable `call` is the handler that holds the mutex: the
  next step and the local variables. What a thread without the mutex can see is
  a step of its own: a write to an order, to a queue, to a bitmap. The free
  stack, the id table and the id counter are never read without the mutex, so
  that a write to them is part of a neighbouring step. Copying an order into a
  slot and setting its id is one step: the slot is in no queue yet.
* `EngineAtomicity` keeps in `before` the engine's state of the last moment at
  which the mutex was free. The refinement mapping shows that state while a
  handler runs. That is the whole of the atomicity argument, and it is what
  entitles `OrderEntry` and `TerminalSessions` to the atomic engine: their
  session threads see nothing of the book but through the mutex.
* In `MarketDataServer` each read of a shared word or queue by the market data
  thread is a step. A read that overlaps a write to the same queue is a data
  race; it is taken just before the write, when the engine's next step is that
  write (`Writes`), and may yield any slot, the volume of any set of objects
  (`TornVolumes`), or a pointer to no object (`Wild`), which ends the process.
  A pointer read earlier may be to an order that is released and reused by the
  time it is followed. Bitmap words are read and written whole, as the
  processors the program is built for do.
* A `send_to` may fail, at most `MaxFailures` times. In the `try` block it is
  caught, and the handler sends an empty snapshot; in the handler and in
  `sendTrade` nothing catches it, and the process ends (`running`).
* In `MarketDataReceiver` the network is the set of packets under way. A packet
  that was received stays there and can be received again; `Lose` takes one
  away, whether it was received or not. The order of sending plays no part. The
  fields of a snapshot are a sequence in the order in which they are parsed,
  under `MarketData::mMutex`; two snapshots differ in all of them.
* In `TerminalSessions` a request can be read in parts. It ends with its price,
  hence a part is short of fields, and does not parse, or is a request whose
  price has lost its last digits (`Cut`); what is left (`tail`) does not parse.
  A user may leave at any point; the session notices when it reads, or when a
  write fails, which it may or may not.
* The ticker symbol and the `clientId` of requests are never read by the server
  and are left out. Text formats are read back into the fields they were
  written from, and left out.
* In `OrderEntry` a connection carries at most one message per direction,
  because `TCPOrderSession` waits for each answer. A request, the reply a
  session thread is about to write (the engine's mutex is free by then) and the
  answer under way are three variables, so that everything can happen between.
* The server accepts any client, and checks neither the ids nor the prices it is
  sent. In `OrderEntry` their sessions call the engine at any time
  (`OtherClient`), with any price and any id. Two variables are histories,
  which no handler reads: `disturbed` (`CancelHistory`) holds the resting orders
  whose table entry a call for another id has used since they arrived, and
  `taken` the slots that orders of other clients took, by resting or for good,
  and that have not come back. With them the properties name what a trader
  cannot be spared. What the 500 ms sleeps of a trader make unlikely is not
  assumed away: a step may come at any time.

## 3. Runs

Deadlock is checked in every run except where the process may end, and really
stops: in the two of `MCMarketDataServer`, when a send fails that nothing
catches or a read follows a pointer to no object, and in `traders`, when a
trader is rejected and nothing catches that.

| Run | Instance | Question and result |
|---|---|---|
| `book` | 3 levels in words of 2 bits; orders at the last price of the first word, the first of the second, and a price beyond `int` that passes for the latter; pool and table of 3, 4 orders, volumes 1 and 2, cancels of 5 ids | Do the four structures agree, is every trade the right one, when does an order outlive its own cancel? All nine properties hold (1 870 000 states). |
| `uncross` | `int` of 2 bits, 64-bit integers of 3 bits, volumes 0, 1, and values that read as negative and as zero; 3 slots, 3 orders; fair matching loop | Does the loop get rid of what crosses, whatever the volumes? Yes (56 000 states). |
| `promise` | the stepwise engine with 2 levels, pool and table of 2, 5 orders, prices around the book, cancels of ids 1, 2, 4 and 6 | Do the writes of a handler add up to the atomic handler? Is the engine a `LimitOrderBook`, and do slots come back? Yes; only an order rejected for its price takes one away (370 000 states). |
| `traders` | 2 traders and other clients, 2 slots, 3 orders, 1 level, other clients also name a price outside the book; fair sessions | Do the traders' orders, ids and slots survive every interleaving of the threads? Yes, up to what other clients hold and to table entries that another id has used. Is every trader answered? Yes, unless the process ends (330 000 states). |
| `sessions` | 2 users, 2 orders, numbers that lose one or two digits of base 2 (`WEIGHTS`), prices 2 (in the book) and 4 (reads as 2 when cut) | Does what rests match what was asked, and does everyone whose order rests know of it, with users who leave and requests in parts? Do sessions end and terminals get answers? Yes (290 000 states). |
| `market_data` | 2 levels in words of one bit, 2 orders of one unit, one failed send | Do the snapshots settle on the truth once the book is at rest? Is every trade announced? Yes (490 000 states). |
| `receivers` | 3 snapshots | Does a terminal show only what was sent as one snapshot, and the current state in the end? Yes. |
| `lost_cancel` | table of 2, 3 orders, cancels of 4 ids | **Violated**: order 1 is added, id 3, which no order has yet, is cancelled, and the cancel of id 1 then leaves order 1 in the book, because the two ids share an entry. |
| `lost_slot` | prices around the book | **Violated**: an order rejected for its price keeps its slot. |
| `wide_volume` | a volume one beyond `int` | **Violated**: the trade is not for the smaller volume. |
| `gone_cancel` | 2 traders and other clients, 2 orders | **Violated**: the cancel of an order that is no longer there is confirmed. In the trace another client has cancelled it first; a fill has the same effect. |
| `torn_snapshot` | that of `market_data`, without fairness | **Violated**: a snapshot with a best price and no volume. |

### Bounds, and why they are enough

* `MaxOrders` bounds the ids that are given out, the only unbounded counter.
  Four orders make every queue shape that the code distinguishes: an order that
  leaves from the front, the middle and the end of a queue of three, the last
  order of a level, a level emptied and used again. With a pool and a table of
  three, ids 1 and 4 share an entry and slots are reused; in `promise`, five
  ids over two entries wrap twice.
* `OrderIds` are the ids that clients name in cancels, in the program any of 64
  bits. What an id does depends on its table entry and on whether an order has
  it; in `book`, ids 1 and 4 share an entry and are both given out, 4 may be
  cancelled before it is, and id 5, which shares that of id 2, never is. In
  `promise`, id 1 has its entry to itself until id 3 is given out, so that its
  cancel must succeed, while ids 2 and 4 share theirs with id 6, which no order
  gets. In `uncross`, whose subject is volumes, clients name only ids that are
  given out.
* Three levels in words of two bits put levels into two words and leave the
  last word partly used, as 101 levels in words of 64 do; `book` has orders on
  both sides of the boundary between the words, `promise` at two bits of one
  word. The third price of `book` differs from one of the book by twice the limit of
  `int`, so that `priceToIndex` puts it at the same level: prices that alias
  are matched in `book` and covered for every width by the theorems.
* Volumes 1 and 2 give equal, smaller and larger counterparts, hence partial
  fills of either side. `uncross` has one volume for each way in which a 64-bit
  volume reads as an `int`: zero, positive, the most negative, a multiple of
  2^w that reads as zero, and the largest, which reads as -1.
* Three-bit `int`s and five-bit 64-bit integers keep what matters of the real
  widths: both are powers of two and the first is narrower
  (`MachineIntegersAssumption`). The proofs are for every width.
* Two traders give each other's orders a counterparty; more only add requests
  that wait for the same mutex. With two slots, one order of another client,
  resting or rejected for its price, is enough to leave a trader without a slot;
  three orders over two entries let the ids of different clients share one, and
  one more order than slots makes an order reuse a slot. In `sessions`, two
  users are one who leaves and one whose order trades with what was left behind.
* In `market_data`, two orders already make every way in which a reading can be
  torn: a queue that empties after its bit was seen, an order followed after
  its release, a slot that is reused for an order of the other side (a cancel
  and an add reuse the slot last released), two words searched in turn. One
  failed send reaches each of the three places where a send can fail, and one is
  enough to end the process in `sendTrade`; in the handler of the reading thread
  it is enough because a reading of an empty book comes there as well.
* In `receivers`, three snapshots are the first one, a current one and one that
  overtakes or is overtaken.
* Base 2 and the prices 2 and 4 in `sessions`: the longer price is outside the
  book, and without its last digit it is a price of the book. `WEIGHTS` is what
  a number is divided by when it loses its last digits: 10, 100 and so on in
  the program. That no price of the book is another one cut short, as with 950
  to 1050, is an assumption of the module (`TerminalSessionsAssumption`).

### Fairness

* `FairSpec`: weak fairness of `matchLimitOrders`. `TradingSystem::start` calls
  it in `while (1)` with nothing to wait for but the mutex, which every holder
  releases after a bounded number of steps.
* `FairEntrySpec`: weak fairness of each session thread, which has something to
  do as long as a request or a reply is there, and of a trader's read of an
  answer that is there. The matching loop, the traders in placing and
  cancelling, and the other clients are **not** fair: no property needs it. That
  `std::mutex` does not starve a thread for ever is assumed: the standard does
  not promise it, the scheduling of the platforms the program runs on provides
  it in practice.
* `FairSessionsSpec`: weak fairness of each session thread, which has something
  to do while there is a request, a reply to write, or an end of the connection
  to notice; and of a terminal that waits and has something to read. Users are
  not fair in anything they type.
* `FairServerSpec`: weak fairness of the market data thread (`run` is a
  `while (true)`), of the main thread and of a handler that has begun; strong
  fairness of the two locks of `socketMtx`, which each thread keeps releasing.
  That is the same assumption about `std::mutex` as above. New orders and
  cancels are not fair.
* `FairSpec` of `MarketDataReceiver`: the server goes on sending; a packet is
  not delivered again for ever after it was last sent (weak fairness of `Lose`);
  a packet that is sent over and over arrives (strong fairness of receiving the
  current snapshot); the thread goes on and the user refreshes. Without the
  second, an old snapshot could come back for ever; without the third, nothing
  need arrive at all. They are what a network owes, not the code.

## 4. Proofs

The theorems of the eight proof modules hold for every value of the constants
under the assumptions that the modules name. These are, for

* the integers: the wider type is a multiple of, and larger than, the narrower;
* the book: the sizes are positive, and the prices of the book fit an `int`;
* the engine: the volumes, prices and ids that clients name fit 64 bits;
* `OrderEntry` (`OrderEntryAssumption`): there are finitely many traders, and
  clients can name every id that is given out. Nothing is assumed of the other
  clients, nor of the number of traders. That traders name prices of the book
  (`TraderPrices`) is read off `priceDist{950, 1050}` (`TraderClient.hpp:24`);
* `TerminalSessions`: no price of the book is another one cut short (above);
* the market data modules: the bound on failing sends is a number, and the
  values of a snapshot include those of the empty one.

Theorems that need more say so in an `ASSUME` of their own. A run checks every
property named here on a small instance as well, but for
`SlotsReturnWithOrders` and `KeepsPromise` of `MatchingEngine`, which run
`promise` checks through the instance `Atomic`, and `EngineBehindServers`,
which speaks of whole specifications.

### The order book and the engine

* `TradeFillsOne`: of two orders that trade, at least one reads as volume 0
  afterwards, for all 64-bit volumes and all widths. The proof follows the
  order whose volume reads as the smaller one: each conversion keeps the
  residue of a number by the size of `int` (`ToU64KeepsResidue`,
  `ToIntKeepsResidue`), so that what is left of it has residue 0
  (`SmallerReadsZero`).
* `HighestLevelIsBest`, `LowestLevelIsBest`: the searches return the highest
  and the lowest level whose bit is set, and -1 when there is none, provided no
  bit beyond the last level is set. They rest on a level being determined by
  its word and its bit (`PositionIsUnique`).
* `BookIsTyped`: the inductive invariant `TypedBook`, which is `TypeOK`,
  `BitmapMatchesLevels` and `LocationsTradable`. `TypeOK` alone is not
  inductive: that `matchLimitOrders` reads a queue that exists, and finds an
  order in it, follows from the bits matching the queues; and that a cancel
  looks at a queue that exists follows from the table holding only tradable
  prices. There is one lemma per handler, and under it one step per variable.
  `TypeCorrect` and `BitmapAlwaysMatches` follow from it.
* `OneOwner`: `SlotsHaveOneOwner` is inductive relative to `TypedBook`. The
  free stack and the queues are all sequences of slots that a handler extends
  at one end or takes one element out of (`PushedOnce`, `PoppedOnce`,
  `ErasedFrom`, `OwnedOnceAfterErase`). That a match takes out two different
  slots follows from the invariant itself: the best bid and the best ask are in
  different queues.
* `ArrivalOrder`: `QueuesInArrivalOrder` is inductive relative to `TypedBook`
  and `SlotsHaveOneOwner`; the three together are `OrderedBook`. Without the
  second an `acquire` could overwrite an order that rests. Fills and cancels
  erase elements of queues, which keeps the rest in order (`RankedAfterErase`);
  an add appends an id larger than all before (`RankedAfterJoin`).
* `TradesHavePriority` (`PriceTimePriority`) and `TradesExactlyWhenCrossed`
  (`MatchesIffCrossed`): in an `OrderedBook` the head of the queue of the best
  marked level precedes every other order of its side (`BestComesFirst`). The
  step from levels back to prices, which compares ticks and not levels, is
  `TicksOfLevel`: a price that `priceToIndex` accepts reads, as an `int`, as
  the price of its level, even where the 64-bit price is another number.
* `TradesAlwaysRemove` (`TradesRemoveAnOrder`): from `TradeFillsOne` and
  `OneOwner`. The order whose volume reads 0 is erased from the one place it
  has.

### What rests, and the promise

`MatchingEngine_promise_proofs` first turns each handler into its *effect* on
the set of resting orders: which slots enter it, which leave it, what becomes
of the orders in them, which entries of the table are written. The theorems
then speak of sets instead of queues.

* `EntriesLeadToOrders` (`MappingLeadsToOrder`): the invariant is
  `EntriesLead`, which is the property in terms of resting orders (their side,
  the level of their price, their entry) instead of queues. It needs
  `OrderedBook` for the translation.
* `SlotsAlwaysReturn` (`SlotsReturnWithOrders`).
* `FillsAlwaysExact` (`FillsAreExact`): assumes that client volumes fit an
  `int`, without which it is false (run `wide_volume`). The invariant adds that
  every volume in the pool does (`PlainVolumes`), so that no conversion
  changes it.
* `EngineKeepsPromise`: the refinement of `LimitOrderBook`, under the same
  assumption for volumes and prices (`PromisedBook`, which adds `PlainPrices`).
  One lemma per handler maps its effect to a step of the abstract book or to none.
  The abstract book lets a cancel leave its order only if some other id that a
  client may name, or that was given out, shares the entry; that it does not
  otherwise is `EntriesOfAlone`.
* `CancelsFindOrders` (`CancelFindsOrder`, in `OrderEntry_proofs`): the
  invariant is `EntriesKept`, that every resting order outside `disturbed` has
  its entry. It holds for ids of any kind and number, because it asks what was
  called and not what could be.

### The engine in steps

* `StepsAreAtomic` (`HandlersAreAtomic`), for every size of everything. The
  invariant `AtomicInv` says of each point inside a handler what has been
  written so far, as a function of the state in `before`: `Adding` and
  `Cancelling` have two points each; `Trading` has five, by the next step and the
  side, with the sides done so far as a set. `OrderedBook` holds of `before`, not of
  the state between the writes. The crucial fact is that the second search of
  `removeBid` and `removeAsk`, after the reductions and after the ask is gone,
  finds the level of the first again (`SameLevel`): a search of one side reads
  only that side's bitmap, and that is not written before the side is done.
* `StepsAlwaysReturnSlots` and `StepsAlwaysKeepPromise`: from it and the
  theorems about the atomic engine, which are instantiated at `before`
  (`Whole`). The second has the assumptions of `EngineKeepsPromise`.

### The threads around the engine

* `NoOrderIsOrphaned`, `TradersHoldOwnIds`, `TradersAlwaysFindRoom`,
  `EntryTypeCorrect`: one invariant, `EntryInv`. Beside `OrderedBook` and
  `EntriesKept` it ties each trader's place in its loop to the one message under
  way on its connection (`InLoop`, in `Trading`), says that live ids were given
  out, are each one trader's, and are those of the resting orders that neither
  another client owns nor another id has disturbed (`Owned`), and that every
  slot is free, rests, or is in `taken` (`EverySlot`). The first two carry the
  cancel: it finds its order, or the order is disturbed. That a trader meets an
  empty pool only when others fill it is a count (`RoomForTrader`): the slots
  outside `taken` and `disturbed` are those of traders' orders, at most one
  each, and the trader that asks has none.
* `EngineBehindServers`: `OrderEntry` implements `CancelHistory` and
  `MatchingEngine`. It needs the invariant: that the requests that reach the
  engine are those it is specified for.
* `OrdersAlwaysAsAsked`, `OwnersAlwaysKnow`: the invariant `SessionsInv` adds
  to the two properties whose turn it is on each connection (`TakingTurns`) and
  that `asked` has an entry for each id. A request cut short is refused, either
  by the parser or, because of `TerminalSessionsAssumption`, by the engine.
* `ServerAlwaysTyped` (`ServerTypeOK`): the reading thread takes no mutex, so
  that what it needs must hold between any two writes, where bits and queues
  disagree. That is `BookBetweenWrites`: types, no bit beyond the last level,
  tradable prices in the table. To keep it, each handler under way must have
  what it is about to use (`AddUnderWay`, `CancelUnderWay`, `MatchUnderWay`),
  and the thread a word where it reads words and a level where it reads queues
  (`IsReading`). That a sum of volumes over any set of slots is a number at
  all, however torn, is `TotalVolumeTyped`.
* `DisplaysAlwaysSent`: the invariant `ReceiverInv` ties the fields that are
  parsed so far to the packet they are parsed from.

### What is not proved

Every invariant and every action property of the passing runs is proved, and so
are the refinements. Liveness under fairness is out of the prover's reach and
stays with TLC: `UncrossesAtRest`, `TradersAreAnswered`, `SessionsEnd`,
`TerminalsAreAnswered`, `FeedSettles`, `TradesAreAnnounced`, `DisplaySettles`.
The inductive invariants were model-checked, on the instances of the runs or
smaller ones, before they were proved.

## 5. What the checks found

* **Ids share table entries** (`OrderBook.cpp:55`, `:96`, `:291`, `:329`). An
  order whose id is a multiple of 10000 away from a resting order's clears or
  replaces its entry when it is added, filled or cancelled, and so does a cancel
  that names such an id, even one that was never given out: the server takes
  any (`TCP_Server.hpp:56`). The resting order can then no longer be cancelled.
  `CancelFindsOrder` states that nothing else keeps a cancel from its order;
  `MappingLeadsToOrder` and `LimitOrderBook` that an entry leads to *some* order
  that uses it, and that a cancel takes out its own order or none.
* **A rejected price loses a slot** (`MatchingEngine.cpp:20`, `:32`).
* **Other clients can end the exchange.** Every client shares the 10000 slots
  (`TCP_Server.hpp:33`). When resting orders of other clients and slots lost to
  rejected prices use them up, the next simulated trader is rejected, and the
  exception of `TCPOrderSession.hpp:36` ends the process, since nothing in the
  trader's thread catches it. `TradersFindRoom` states what is still true:
  traders never push each other out, and the slots that are missing are other
  clients' or those of orders whose cancel another id has spoilt.
* **Wide volumes and prices** (`Order.cpp:31`, `:74`, `OrderBook.cpp:152`) are
  narrowed to `int`. `TradesRemoveAnOrder`, proved for every width, shows that
  the matching loop still makes progress: subtracting a volume that reads as
  negative wraps around to a value that reads as zero.
* **A cancel is always confirmed** (`TCP_Server.hpp:59`), found or not.
* **Snapshots are torn** (`UDPServer.hpp:37` to `:44`). The best prices are read
  before the volumes; an order that trades or is cancelled in between leaves a
  best price with volume 0. The counterexample needs no data race. What is true
  is `FeedSettles`: a reading leaves nothing behind, so that the snapshots are
  right once the book is at rest.
* **A display can go back.** Snapshots carry no number, so a terminal may show an
  older one after a newer; only `DisplaySettles` holds. The code promises no
  more, and no property says so.
* **Receivers depend on one test** (`UDPMarketDataReceiver.hpp:42`): a packet that
  is not a snapshot and does not begin with `TRADE:` ends the client.

## 6. Not modelled, and the plan

| Part | Reason or plan |
|---|---|
| Order and timing of `TradingSystem::start` (`TradingSystem.cpp:25`) | The traders connect 400 ms after the server's thread was started. Whether it listens by then is a matter of the platform's timing; the models begin with a server that listens. |
| `SimulatedTraders::run` (`SimulatedTraders.hpp:35`) | Each new thread refers to an element of the vector `Clients`, while `run` appends to the vector. Whether the element has moved by then depends on the time the next connection takes; the models begin with all traders connected. |
| Answers in parts (`TCPOrderSession.hpp:31`) | An answer is some forty bytes written at once; it is taken to arrive whole. |
| The pointers of a `Trade` (`Trade.hpp:10`) | Only the benchmarks and tests could follow them; the server sends the price and the volume, which are copies. |
| Pool mutex, `OrderBook::mtx`, `processOrder`, `getTotalVolume`, `stop`, `MarketData::update`, `OrderIdGenerator::reset` | Never contended, unused by the program, or empty. |
| `printOrderBook`, `generateRandomOrder`, tests, benchmarks, `TradingUI` | Output, test drivers, and a file that is commented out. |

Order of the work, most important first: (1) book, engine and order entry, with
the type, bitmap, ownership and price-time priority theorems: done.
(2) The stepwise engine and its atomicity, the market data server and receiver,
terminals that disconnect and requests in parts: done. (3) Theorems
for every invariant, action property and refinement that a run checks: done.
What is left to prove lies beyond what the runs state: the steps on which the
liveness properties rest, such as that a handler in steps is always nearer its
end, that every trade leaves less to cross (`TradesAlwaysRemove` is the first
of these), and that a snapshot is the book's when nothing was written while it
was read, which is what `FeedSettles` adds up to.
