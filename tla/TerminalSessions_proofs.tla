------------------------ MODULE TerminalSessions_proofs ------------------------
(***************************************************************************)
(* Proofs that what rests in the book is what users have asked for, and    *)
(* that they know of it, whatever parts of their requests were read and    *)
(* wherever their terminals ended.                                         *)
(***************************************************************************)
EXTENDS TerminalSessions, MatchingEngine_promise_proofs

-----------------------------------------------------------------------------
(* The messages on a connection: whole requests, which the terminal has    *)
(* checked, and what the engine returned or threw.                         *)
BookPrices == StartOfPrice .. StartOfPrice + NumOfLevels - 1

NewRequests == [op : {"new"}, side : Side, volume : Volumes, price : BookPrices]

Requests == {None} \union NewRequests \union [op : {"cancel"}, id : OrderIds]

SessionsTypeOK ==
  /\ terminal \in [Users -> {"ready", "awaits id", "awaits text", "gone"}]
  /\ known \in [Users -> SUBSET Nat]
  /\ session \in [Users -> {"reading", "replying", "ended"}]
  /\ request \in [Users -> Requests]
  /\ tail \in [Users -> BOOLEAN]
  /\ reply \in [Users -> {None} \union Results]
  /\ answer \in [Users -> {None} \union Results]
  /\ asked \in Seq([user : Users, request : NewRequests])

(* A terminal and its session take turns: one message at most is under way *)
(* on the connection of a terminal that is there.                          *)
InTurn(u) ==
  /\ session[u] = "replying" <=> reply[u] # None
  /\ request[u].op = "new" => terminal[u] \in {"awaits id", "gone"}
  /\ terminal[u] # "gone" =>
       /\ request[u] # None => reply[u] = None /\ answer[u] = None
       /\ reply[u] # None => answer[u] = None
  /\ terminal[u] = "ready" => request[u] = None /\ reply[u] = None /\ answer[u] = None

TakingTurns == SessionsTypeOK /\ \A u \in Users : InTurn(u)

(* The inductive invariant.                                                *)
SessionsInv ==
  /\ OrderedBook
  /\ TakingTurns
  /\ Len(asked) = atomicOrderID
  /\ OrdersAsAsked
  /\ OwnersKnowTheirOrders

-----------------------------------------------------------------------------
(* A price of the book is none when it has lost digits.                    *)
LEMMA BookPriceFacts ==
  /\ BookPrices \subseteq PlainInt
  /\ BookPrices \subseteq U64
  /\ \A price \in PlainInt : IsTradable(price) <=> price \in BookPrices
<1>1. BookPrices \subseteq PlainInt
  BY OrderBookAssumption, LevelBitmapAssumption, MachineIntegersAssumption DEF BookPrices, PlainInt
<1>2. PlainInt \subseteq U64
  BY MachineIntegersAssumption DEF PlainInt, U64
<1>3. QED
  BY <1>1, <1>2, PlainPrice DEF BookPrices

LEMMA CutPriceFacts ==
  ASSUME NEW price \in BookPrices, NEW cut \in Cut(price)
  PROVE  cut \in U64 /\ ~IsTradable(cut)
<1>1. PICK weight \in WEIGHTS : cut = price \div weight
  BY DEF Cut
<1>2. /\ weight \in Nat \ {0}
      /\ StartOfPrice + NumOfLevels <= weight * StartOfPrice
  BY TerminalSessionsAssumption
<1>3. /\ price \in Nat /\ StartOfPrice \in Nat /\ NumOfLevels \in Nat
      /\ price < StartOfPrice + NumOfLevels
      /\ price \in PlainInt
  BY BookPriceFacts, OrderBookAssumption, LevelBitmapAssumption DEF BookPrices
<1>4. cut \in Nat /\ weight * cut <= price
  BY <1>1, <1>2, <1>3
<1>5. weight * cut < weight * StartOfPrice
  BY <1>2, <1>3, <1>4
<1>6. cut < StartOfPrice
  <2>1. CASE cut >= StartOfPrice
    <3>1. weight * cut >= weight * StartOfPrice
      BY <1>2, <1>3, <1>4, <2>1
    <3>2. QED
      BY <1>2, <1>3, <1>4, <1>5, <3>1
  <2>2. QED
    BY <1>3, <1>4, <2>1
<1>7. cut <= price
  BY <1>2, <1>3, <1>4
<1>8. cut \in PlainInt /\ cut \notin BookPrices
  BY <1>3, <1>4, <1>6, <1>7, MachineIntegersAssumption DEF PlainInt, BookPrices
<1>9. cut \in U64
  BY <1>8, MachineIntegersAssumption DEF PlainInt, U64
<1>10. QED
  BY <1>8, <1>9, BookPriceFacts

(* What a request may read as.                                             *)
LEMMA ReadingFacts ==
  ASSUME SessionsTypeOK, NEW u \in Users, NEW read \in Readings(u), read.op = "new"
  PROVE  /\ request[u] \in NewRequests
         /\ read.side = request[u].side
         /\ read.side \in Side /\ read.volume \in U64 /\ read.price \in U64
         /\ IsTradable(read.price) => read.price = request[u].price
<1>1. request[u] \in NewRequests
  <2>1. request[u].op = "new"
    BY DEF Readings
  <2>2. request[u] \in {None} \union NewRequests \union [op : {"cancel"}, id : OrderIds]
    BY DEF SessionsTypeOK, Requests
  <2>3. request[u] # None /\ request[u] \notin [op : {"cancel"}, id : OrderIds]
    BY <2>1 DEF None
  <2>4. QED
    BY <2>2, <2>3
<1>2. /\ request[u].side \in Side /\ request[u].volume \in U64
      /\ request[u].price \in BookPrices /\ request[u].price \in U64
  BY <1>1, BookPriceFacts, MatchingEngineAssumption DEF NewRequests
<1>3. CASE read = request[u]
  BY <1>1, <1>2, <1>3
<1>4. ASSUME NEW price \in Cut(request[u].price), read = [request[u] EXCEPT !.price = price]
      PROVE  /\ read.side = request[u].side
             /\ read.volume = request[u].volume
             /\ read.price = price
  BY <1>1, <1>4 DEF NewRequests
<1>5. QED
  BY <1>1, <1>2, <1>3, <1>4, CutPriceFacts DEF Readings

-----------------------------------------------------------------------------
(* What a user knows stays known while steps are taken.                    *)
Knows(u, id) ==
  \/ id \in known[u]
  \/ terminal[u] = "gone"
  \/ terminal[u] = "awaits id" /\ Accepted(id) \in {reply[u], answer[u]}

KnowledgeStays == \A u \in Users : \A id : Knows(u, id) => Knows(u, id)'

(* A step of one user or session leaves the others alone.                  *)
Untouched(u) ==
  /\ terminal'[u] = terminal[u]
  /\ known'[u] = known[u]
  /\ session'[u] = session[u]
  /\ request'[u] = request[u]
  /\ reply'[u] = reply[u]
  /\ answer'[u] = answer[u]

LEMMA UntouchedStays ==
  ASSUME NEW u \in Users, InTurn(u), Untouched(u)
  PROVE  InTurn(u)' /\ \A id : Knows(u, id) => Knows(u, id)'
BY DEF InTurn, Untouched, Knows, Accepted

TurnGoesOn == TakingTurns' /\ KnowledgeStays

LEMMA OneTurn ==
  ASSUME TakingTurns, SessionsTypeOK', NEW u \in Users, \A v \in Users \ {u} : Untouched(v),
         InTurn(u)', \A id : Knows(u, id) => Knows(u, id)'
  PROVE  TurnGoesOn
BY UntouchedStays DEF TakingTurns, TurnGoesOn, KnowledgeStays

-----------------------------------------------------------------------------
(* The steps that leave the engine alone.                                  *)
LEMMA PlaceOrderTurn ==
  ASSUME TakingTurns, NEW u \in Users, NEW side \in Side, NEW volume \in Volumes, NEW price \in Prices,
         PlaceOrder(u, side, volume, price)
  PROVE  TurnGoesOn
<1>1. /\ terminal[u] = "ready" /\ InTurn(u) /\ SessionsTypeOK
      /\ UNCHANGED <<known, session, tail, reply, answer, asked>>
      /\ request' = [request EXCEPT ![u] = New(side, volume, price)]
      /\ terminal' = [terminal EXCEPT ![u] = "awaits id"]
  BY DEF PlaceOrder, TakingTurns
<1>2. New(side, volume, price) \in NewRequests
  BY DEF PlaceOrder, IsValidPrice, New, NewRequests, BookPrices
<1>3. SessionsTypeOK'
  BY <1>1, <1>2 DEF SessionsTypeOK, Requests
<1>4. /\ request'[u] = New(side, volume, price) /\ terminal'[u] = "awaits id"
      /\ \A v \in Users \ {u} : Untouched(v)
  BY <1>1 DEF SessionsTypeOK, Untouched
<1>5. InTurn(u)'
  BY <1>1, <1>4 DEF InTurn
<1>6. \A id : Knows(u, id) => Knows(u, id)'
  BY <1>1 DEF Knows
<1>7. QED
  BY <1>3, <1>4, <1>5, <1>6, OneTurn

LEMMA CancelByIdTurn ==
  ASSUME TakingTurns, NEW u \in Users, NEW orderId \in OrderIds, CancelById(u, orderId)
  PROVE  TurnGoesOn
<1>1. /\ terminal[u] = "ready" /\ InTurn(u) /\ SessionsTypeOK
      /\ UNCHANGED <<known, session, tail, reply, answer, asked>>
      /\ request' = [request EXCEPT ![u] = Cancel(orderId)]
      /\ terminal' = [terminal EXCEPT ![u] = "awaits text"]
  BY DEF CancelById, TakingTurns
<1>2. Cancel(orderId) \in [op : {"cancel"}, id : OrderIds] /\ Cancel(orderId).op # "new"
  BY DEF Cancel
<1>3. SessionsTypeOK'
  BY <1>1, <1>2 DEF SessionsTypeOK, Requests
<1>4. /\ request'[u] = Cancel(orderId) /\ terminal'[u] = "awaits text"
      /\ \A v \in Users \ {u} : Untouched(v)
  BY <1>1 DEF SessionsTypeOK, Untouched
<1>5. InTurn(u)'
  BY <1>1, <1>2, <1>4 DEF InTurn
<1>6. \A id : Knows(u, id) => Knows(u, id)'
  BY <1>1 DEF Knows
<1>7. QED
  BY <1>3, <1>4, <1>5, <1>6, OneTurn

LEMMA ResultFacts ==
  ASSUME NEW message \in {None} \union Results, message.op = "accepted"
  PROVE  message.id \in Nat
<1>1. message # None /\ message # Nothing /\ message # NoTrade
  BY DEF None, Nothing, NoTrade
<1>2. /\ message \notin [op : {"rejected"}, reason : {"pool", "price"}]
      /\ message \notin [op : {"trade"}, bid : Slot, ask : Slot, volume : U64, price : U64]
  OBVIOUS
<1>3. message \in [op : {"accepted", "cancelled"}, id : Nat]
  BY <1>1, <1>2 DEF Results
<1>4. QED
  BY <1>3

LEMMA ReadAnswerTurn ==
  ASSUME TakingTurns, NEW u \in Users, ReadAnswer(u)
  PROVE  TurnGoesOn
<1> DEFINE place == IF terminal[u] = "awaits id" /\ answer[u].op # "accepted" THEN "gone" ELSE "ready"
           ids == IF answer[u].op = "accepted" THEN known[u] \union {answer[u].id} ELSE known[u]
<1>1. /\ terminal[u] \in {"awaits id", "awaits text"} /\ answer[u] # None
      /\ InTurn(u) /\ SessionsTypeOK
      /\ UNCHANGED <<session, request, tail, reply, asked>>
      /\ answer' = [answer EXCEPT ![u] = None]
      /\ terminal' = [terminal EXCEPT ![u] = place]
      /\ known' = [known EXCEPT ![u] = ids]
  BY DEF ReadAnswer, Waits, TakingTurns, SessionsTypeOK
<1>2. reply[u] = None /\ request[u] = None /\ place \in {"ready", "gone"}
  BY <1>1 DEF InTurn
<1>3. ids \in SUBSET Nat
  <2>1. answer[u].op = "accepted" => answer[u].id \in Nat
    BY <1>1, ResultFacts DEF SessionsTypeOK
  <2>2. QED
    BY <1>1, <2>1 DEF SessionsTypeOK
<1>4. SessionsTypeOK'
  BY <1>1, <1>2, <1>3 DEF SessionsTypeOK
<1>5. /\ answer'[u] = None /\ terminal'[u] = place /\ known'[u] = ids
      /\ \A v \in Users \ {u} : Untouched(v)
  BY <1>1 DEF SessionsTypeOK, Untouched
<1>6. InTurn(u)'
  <2>1. session'[u] = session[u] /\ request'[u] = None /\ reply'[u] = None /\ session[u] # "replying"
    BY <1>1, <1>2 DEF InTurn
  <2> HIDE DEF place
  <2>2. None.op # "new"
    BY DEF None
  <2>3. QED
    BY <1>2, <1>5, <2>1, <2>2 DEF InTurn
<1>7. ASSUME NEW id, Knows(u, id)
      PROVE  Knows(u, id)'
  <2>1. Accepted(id) # None /\ Accepted(id).op = "accepted" /\ Accepted(id).id = id
    BY DEF Accepted, None
  <2>2. id \in known[u] \/ answer[u] = Accepted(id)
    BY <1>1, <1>2, <1>7, <2>1 DEF Knows
  <2>3. id \in ids
    BY <2>1, <2>2
  <2>4. QED
    BY <1>5, <2>3 DEF Knows
<1>8. QED
  BY <1>4, <1>5, <1>6, <1>7, OneTurn

LEMMA GoneTurn ==
  ASSUME TakingTurns, NEW u \in Users, ReadClosed(u) \/ Leave(u)
  PROVE  TurnGoesOn
<1>1. /\ InTurn(u) /\ SessionsTypeOK
      /\ UNCHANGED <<known, session, request, tail, reply, asked>>
      /\ answer' = answer \/ answer' = [answer EXCEPT ![u] = None]
      /\ terminal' = [terminal EXCEPT ![u] = "gone"]
  BY DEF ReadClosed, Leave, TakingTurns, connectionVars
<1>2. SessionsTypeOK'
  BY <1>1 DEF SessionsTypeOK
<1>3. terminal'[u] = "gone" /\ \A v \in Users \ {u} : Untouched(v)
  BY <1>1 DEF SessionsTypeOK, Untouched
<1>4. InTurn(u)' /\ \A id : Knows(u, id)'
  BY <1>1, <1>3 DEF InTurn, Knows
<1>5. QED
  BY <1>2, <1>3, <1>4, OneTurn

LEMMA ReadGarbageTurn ==
  ASSUME TakingTurns, NEW u \in Users, ReadGarbage(u)
  PROVE  TurnGoesOn
<1>1. /\ session[u] = "reading" /\ InTurn(u) /\ SessionsTypeOK
      /\ UNCHANGED <<terminal, known, reply, answer, asked>>
      /\ session' = [session EXCEPT ![u] = "ended"]
      /\ request' = [request EXCEPT ![u] = None]
      /\ tail' = [tail EXCEPT ![u] = FALSE]
  BY DEF ReadGarbage, EndSession, TakingTurns, clientVars
<1>2. SessionsTypeOK'
  BY <1>1 DEF SessionsTypeOK, Requests
<1>3. /\ session'[u] = "ended" /\ request'[u] = None
      /\ \A v \in Users \ {u} : Untouched(v)
  BY <1>1 DEF SessionsTypeOK, Untouched
<1>4. /\ terminal'[u] = terminal[u] /\ known'[u] = known[u]
      /\ reply'[u] = reply[u] /\ answer'[u] = answer[u]
  BY <1>1
<1>5. InTurn(u)'
  <2>1. reply[u] = None /\ None.op # "new"
    BY <1>1 DEF InTurn, None
  <2>2. QED
    BY <1>1, <1>3, <1>4, <2>1 DEF InTurn
<1>6. \A id : Knows(u, id) => Knows(u, id)'
  BY <1>4 DEF Knows, Accepted
<1>7. QED
  BY <1>2, <1>3, <1>5, <1>6, OneTurn

LEMMA WriteReplyTurn ==
  ASSUME TakingTurns, NEW u \in Users, WriteReply(u)
  PROVE  TurnGoesOn
<1>1. /\ session[u] = "replying" /\ InTurn(u) /\ SessionsTypeOK
      /\ UNCHANGED <<terminal, known, asked>>
      /\ reply' = [reply EXCEPT ![u] = None]
  BY DEF WriteReply, TakingTurns, clientVars
<1>2. CASE /\ answer' = [answer EXCEPT ![u] = IF terminal[u] = "gone" THEN None ELSE reply[u]]
           /\ session' = [session EXCEPT ![u] = "reading"]
           /\ UNCHANGED <<request, tail>>
  <2>1. SessionsTypeOK'
    BY <1>1, <1>2 DEF SessionsTypeOK
  <2>2. /\ reply'[u] = None /\ session'[u] = "reading"
        /\ answer'[u] = IF terminal[u] = "gone" THEN None ELSE reply[u]
        /\ \A v \in Users \ {u} : Untouched(v)
    BY <1>1, <1>2 DEF SessionsTypeOK, Untouched
  <2>3. InTurn(u)' /\ \A id : Knows(u, id) => Knows(u, id)'
    BY <1>1, <1>2, <2>2 DEF InTurn, Knows, Accepted, None
  <2>4. QED
    BY <2>1, <2>2, <2>3, OneTurn
<1>3. CASE /\ terminal[u] = "gone"
           /\ session' = [session EXCEPT ![u] = "ended"]
           /\ request' = [request EXCEPT ![u] = None]
           /\ tail' = [tail EXCEPT ![u] = FALSE]
           /\ UNCHANGED answer
  <2>1. SessionsTypeOK'
    BY <1>1, <1>3 DEF SessionsTypeOK, Requests
  <2>2. /\ reply'[u] = None /\ session'[u] = "ended" /\ request'[u] = None
        /\ \A v \in Users \ {u} : Untouched(v)
    BY <1>1, <1>3 DEF SessionsTypeOK, Untouched
  <2>3. InTurn(u)' /\ \A id : Knows(u, id) => Knows(u, id)'
    BY <1>1, <1>3, <2>2 DEF InTurn, Knows, None
  <2>4. QED
    BY <2>1, <2>2, <2>3, OneTurn
<1>4. QED
  BY <1>2, <1>3 DEF WriteReply, Answered, EndSession

-----------------------------------------------------------------------------
(* The session of a user has the engine handle a request.                  *)
LEMMA ReadRequestTurn ==
  ASSUME TakingTurns, asked' \in Seq([user : Users, request : NewRequests]),
         result' \in Results, result' # None, NEW u \in Users, ReadRequest(u)
  PROVE  TurnGoesOn
<1>1. /\ session[u] = "reading" /\ request[u] # None /\ InTurn(u) /\ SessionsTypeOK
      /\ UNCHANGED <<terminal, known, answer>>
      /\ reply' = [reply EXCEPT ![u] = result']
      /\ request' = [request EXCEPT ![u] = None]
      /\ session' = [session EXCEPT ![u] = "replying"]
      /\ \E read \in Readings(u) : tail' = [tail EXCEPT ![u] = read # request[u]]
  BY DEF ReadRequest, TakingTurns, clientVars
<1>2. SessionsTypeOK'
  BY <1>1 DEF SessionsTypeOK, Requests
<1>3. /\ reply'[u] = result' /\ request'[u] = None /\ session'[u] = "replying"
      /\ terminal'[u] = terminal[u] /\ known'[u] = known[u] /\ answer'[u] = answer[u]
      /\ \A v \in Users \ {u} : Untouched(v)
  BY <1>1 DEF SessionsTypeOK, Untouched
<1>4. reply[u] = None /\ None.op # "new"
  BY <1>1 DEF InTurn, None
<1>5. terminal[u] # "gone" => terminal[u] # "ready" /\ answer[u] = None
  BY <1>1 DEF InTurn
<1>6. InTurn(u)'
  BY <1>3, <1>4, <1>5 DEF InTurn
<1>7. ASSUME NEW id, Knows(u, id)
      PROVE  Knows(u, id)'
  <2>1. Accepted(id) # None
    BY DEF Accepted, None
  <2>2. id \in known[u] \/ terminal[u] = "gone"
    BY <1>4, <1>5, <1>7, <2>1 DEF Knows
  <2>3. QED
    BY <1>3, <2>2 DEF Knows
<1>8. QED
  BY <1>2, <1>3, <1>6, <1>7, OneTurn

LEMMA MatchTurn ==
  ASSUME TakingTurns, UNCHANGED <<clientVars, connectionVars, asked>>
  PROVE  TurnGoesOn
<1>1. SessionsTypeOK'
  BY DEF TakingTurns, SessionsTypeOK, clientVars, connectionVars
<1>2. \A u \in Users : Untouched(u)
  BY DEF Untouched, clientVars, connectionVars
<1>3. QED
  BY <1>1, <1>2, UntouchedStays DEF TakingTurns, TurnGoesOn, KnowledgeStays

-----------------------------------------------------------------------------
(* A resting order that its user has asked for and knows of.               *)
AskedAndKnown(slot) ==
  LET entry == asked[pool[slot].id]
  IN  /\ pool[slot].side = entry.request.side
      /\ pool[slot].price = entry.request.price
      /\ Knows(entry.user, pool[slot].id)

LEMMA RestingAnswered ==
  OrdersAsAsked /\ OwnersKnowTheirOrders <=> \A slot \in Resting : AskedAndKnown(slot)
BY DEF OrdersAsAsked, OwnersKnowTheirOrders, AskedAndKnown, Knows

LEMMA RestingAnsweredPrimed ==
  OrdersAsAsked' /\ OwnersKnowTheirOrders' <=> \A slot \in Resting' : AskedAndKnown(slot)'
<1>1. (OrdersAsAsked /\ OwnersKnowTheirOrders <=> \A slot \in Resting : AskedAndKnown(slot))'
  BY RestingAnswered, PTL
<1>2. QED
  BY <1>1

LEMMA OldOrderStays ==
  ASSUME SessionsInv, KnowledgeStays, \A id \in 1 .. Len(asked) : asked'[id] = asked[id],
         NEW slot \in Resting, SameButVolume(pool[slot], pool'[slot])
  PROVE  AskedAndKnown(slot)'
<1>1. AskedAndKnown(slot)
  BY RestingAnswered DEF SessionsInv
<1>2. pool[slot].id \in 1 .. Len(asked)
  BY RestingFacts DEF SessionsInv
<1>3. asked[pool[slot].id].user \in Users
  <2>1. asked \in Seq([user : Users, request : NewRequests])
    BY DEF SessionsInv, TakingTurns, SessionsTypeOK
  <2>2. asked[pool[slot].id] \in [user : Users, request : NewRequests]
    BY <1>2, <2>1, ElementOfSeq
  <2>3. QED
    BY <2>2
<1>4. /\ pool'[slot].side = pool[slot].side
      /\ pool'[slot].price = pool[slot].price
      /\ pool'[slot].id = pool[slot].id
      /\ asked'[pool[slot].id] = asked[pool[slot].id]
  BY <1>2 DEF SameButVolume
<1>5. Knows(asked[pool[slot].id].user, pool[slot].id)'
  <2>1. \A id : Knows(asked[pool[slot].id].user, id) =>
                  \/ id \in known'[asked[pool[slot].id].user]
                  \/ terminal'[asked[pool[slot].id].user] = "gone"
                  \/ /\ terminal'[asked[pool[slot].id].user] = "awaits id"
                     /\ Accepted(id) \in {reply'[asked[pool[slot].id].user],
                                          answer'[asked[pool[slot].id].user]}
    BY <1>3 DEF KnowledgeStays, Knows, Accepted
  <2>2. Knows(asked[pool[slot].id].user, pool[slot].id)
    BY <1>1 DEF AskedAndKnown
  <2>3. QED
    BY <1>4, <2>1, <2>2 DEF Knows, Accepted
<1>6. QED
  BY <1>1, <1>4, <1>5 DEF AskedAndKnown

(* Steps that let orders in the book only go.                              *)
LEMMA OrdersOnlyGo ==
  ASSUME SessionsInv, OrderedBook', TurnGoesOn, asked' = asked, atomicOrderID' = atomicOrderID,
         Resting' \subseteq Resting, \A slot \in Resting : SameButVolume(pool[slot], pool'[slot])
  PROVE  SessionsInv'
<1>1. \A slot \in Resting' : AskedAndKnown(slot)'
  BY OldOrderStays DEF TurnGoesOn
<1>2. QED
  BY <1>1, RestingAnsweredPrimed DEF SessionsInv, TurnGoesOn

LEMMA AskedGrows ==
  ASSUME asked \in Seq([user : Users, request : NewRequests]),
         NEW entry \in [user : Users, request : NewRequests],
         asked' = Append(asked, entry)
  PROVE  /\ asked' \in Seq([user : Users, request : NewRequests])
         /\ Len(asked') = Len(asked) + 1
         /\ \A id \in 1 .. Len(asked) : asked'[id] = asked[id]
         /\ asked'[Len(asked) + 1] = entry
<1> DEFINE Entry == [user : Users, request : NewRequests]
<1> HIDE DEF Entry
<1>1. ASSUME NEW list \in Seq(Entry), NEW e \in Entry
      PROVE  /\ Append(list, e) \in Seq(Entry)
             /\ Len(Append(list, e)) = Len(list) + 1
             /\ \A id \in 1 .. Len(list) : Append(list, e)[id] = list[id]
             /\ Append(list, e)[Len(list) + 1] = e
  BY AppendProperties
<1>2. asked \in Seq(Entry) /\ entry \in Entry
  BY DEF Entry
<1>3. /\ Append(asked, entry) \in Seq(Entry)
      /\ Len(Append(asked, entry)) = Len(asked) + 1
      /\ \A id \in 1 .. Len(asked) : Append(asked, entry)[id] = asked[id]
      /\ Append(asked, entry)[Len(asked) + 1] = entry
  BY <1>1, <1>2
<1>4. QED
  BY <1>3 DEF Entry

(* The order that a session puts into the book is its user's request.      *)
LEMMA NewOrderRests ==
  ASSUME SessionsInv, OrderedBook', TurnGoesOn, NEW u \in Users, NEW read \in Readings(u),
         read.op = "new", reply'[u] = result', terminal[u] \in {"awaits id", "gone"},
         terminal'[u] = terminal[u],
         asked' = Append(asked, [user |-> u, request |-> request[u]]),
         NEW new \in Slot,
         TakesSlot(new, NewOrder(read.side, read.volume, read.price))
  PROVE  SessionsInv'
<1> DEFINE order == NewOrder(read.side, read.volume, read.price)
           entry == [user |-> u, request |-> request[u]]
<1>1. /\ asked \in Seq([user : Users, request : NewRequests])
      /\ Len(asked) = atomicOrderID /\ OrderedBook /\ SessionsTypeOK
  BY DEF SessionsInv, TakingTurns, SessionsTypeOK
<1>2. /\ new \notin Resting
      /\ pool' = [pool EXCEPT ![new] = order]
      /\ atomicOrderID' = atomicOrderID + 1
      /\ IsTradable(read.price) => result' = Accepted(order.id)
      /\ Resting' \subseteq Resting \union {new}
      /\ ~IsTradable(read.price) => Resting' = Resting
  BY DEF TakesSlot, NewOrder
<1>3. /\ pool'[new] = order /\ \A slot \in Slot \ {new} : pool'[slot] = pool[slot]
      /\ order.id = atomicOrderID + 1 /\ order.side = read.side /\ order.price = read.price
  BY <1>1, <1>2, OrderedBookParts DEF NewOrder
<1>4. /\ request[u] \in NewRequests
      /\ read.side = request[u].side
      /\ IsTradable(read.price) => read.price = request[u].price
  BY <1>1, ReadingFacts
<1>5. entry \in [user : Users, request : NewRequests] /\ asked' = Append(asked, entry)
  BY <1>4
<1> HIDE DEF entry
<1>6. /\ Len(asked') = Len(asked) + 1
      /\ \A id \in 1 .. Len(asked) : asked'[id] = asked[id]
      /\ asked'[Len(asked) + 1] = entry
  BY <1>1, <1>5, AskedGrows
<1> HIDE DEF order
<1>7. \A slot \in Resting : AskedAndKnown(slot)'
  <2>1. \A slot \in Resting : slot \in Slot /\ SameButVolume(pool[slot], pool'[slot])
    BY <1>1, <1>2, <1>3, RestingFacts DEF SameButVolume
  <2>2. QED
    BY <1>6, <2>1, OldOrderStays DEF TurnGoesOn
<1>8. ASSUME IsTradable(read.price)
      PROVE  AskedAndKnown(new)'
  <2>1. asked'[pool'[new].id] = entry
    BY <1>1, <1>3, <1>6
  <2>2. /\ entry.user = u /\ entry.request.side = read.side
        /\ entry.request.price = read.price
    BY <1>4, <1>8 DEF entry
  <2>3. \/ terminal'[u] = "gone"
        \/ terminal'[u] = "awaits id" /\ Accepted(pool'[new].id) \in {reply'[u], answer'[u]}
    BY <1>2, <1>3, <1>8
  <2>4. QED
    BY <1>3, <2>1, <2>2, <2>3 DEF AskedAndKnown, Knows, Accepted
<1>9. \A slot \in Resting' : AskedAndKnown(slot)'
  BY <1>2, <1>7, <1>8
<1>10. Len(asked') = atomicOrderID'
  BY <1>1, <1>2, <1>6
<1>11. QED
  BY <1>9, <1>10, RestingAnsweredPrimed DEF SessionsInv, TurnGoesOn

LEMMA TakesOutOnly ==
  ASSUME OrderedBook, NEW orderId, TakesOut(orderId)
  PROVE  /\ atomicOrderID' = atomicOrderID
         /\ Resting' \subseteq Resting
         /\ \A slot \in Resting : SameButVolume(pool[slot], pool'[slot])
<1>1. Resting' \subseteq Resting /\ pool' = pool /\ atomicOrderID' = atomicOrderID
  BY DEF TakesOut, StackAfterPush
<1>2. QED
  BY <1>1 DEF SameButVolume

LEMMA ResultOfBook == OrderedBook' => result' \in Results
<1>1. OrderedBook => result \in Results
  BY DEF OrderedBook, TypedBook, TypeOK
<1>2. (OrderedBook => result \in Results)'
  BY <1>1, PTL
<1>3. QED
  BY <1>2

LEMMA ReadRequestKeeps ==
  ASSUME SessionsInv, NEW u \in Users, ReadRequest(u)
  PROVE  SessionsInv'
<1>1. PICK read \in Readings(u) : Handle(u, read)
  BY DEF ReadRequest
<1>2. /\ OrderedBook /\ TakingTurns /\ SessionsTypeOK /\ InTurn(u)
      /\ Len(asked) = atomicOrderID /\ atomicOrderID \in Nat
      /\ asked \in Seq([user : Users, request : NewRequests])
  BY OrderedBookParts DEF SessionsInv, TakingTurns, SessionsTypeOK
<1>3. /\ reply'[u] = result' /\ terminal'[u] = terminal[u] /\ request[u] # None
  BY <1>2 DEF ReadRequest, clientVars, SessionsTypeOK
<1>4. CASE read.op = "new"
  <2>1. /\ AddOrder(read.side, read.volume, read.price)
        /\ asked' = IF atomicOrderID' = atomicOrderID THEN asked
                    ELSE Append(asked, [user |-> u, request |-> request[u]])
    BY <1>1, <1>4 DEF Handle
  <2>2. /\ request[u] \in NewRequests
        /\ read.side \in Side /\ read.volume \in U64 /\ read.price \in U64
    BY <1>2, <1>4, ReadingFacts
  <2>3. OrderedBook' /\ result' \in Results
    BY <1>2, <2>1, <2>2, AddOrderKeepsBook, ResultOfBook
  <2>4. terminal[u] \in {"awaits id", "gone"}
    BY <1>2, <2>2 DEF InTurn, NewRequests
  <2>5. [user |-> u, request |-> request[u]] \in [user : Users, request : NewRequests]
    BY <2>2
  <2>6. asked' \in Seq([user : Users, request : NewRequests])
    BY <1>2, <2>1, <2>5, AskedGrows
  <2>7. result' # None
    BY <2>1 DEF AddOrder, AddOrderPoolEmpty, AddOrderToSlot, Rejected, Accepted, None
  <2>8. TurnGoesOn
    BY <1>2, <2>3, <2>6, <2>7, ReadRequestTurn
  <2>9. CASE AddOrderPoolEmpty /\ Resting' = Resting
    <3>1. pool' = pool /\ atomicOrderID' = atomicOrderID /\ asked' = asked
      BY <2>1, <2>9 DEF AddOrderPoolEmpty, bookVars
    <3>2. \A slot \in Resting : SameButVolume(pool[slot], pool'[slot])
      BY <3>1 DEF SameButVolume
    <3>3. QED
      BY <2>3, <2>8, <2>9, <3>1, <3>2, OrdersOnlyGo
  <2>10. ASSUME NEW new \in Slot, TakesSlot(new, NewOrder(read.side, read.volume, read.price))
         PROVE  SessionsInv'
    <3>1. atomicOrderID' = atomicOrderID + 1
      BY <2>10 DEF TakesSlot
    <3>2. asked' = Append(asked, [user |-> u, request |-> request[u]])
      BY <1>2, <2>1, <3>1
    <3>3. QED
      BY <1>3, <1>4, <2>3, <2>4, <2>8, <2>10, <3>2, NewOrderRests
  <2>11. QED
    BY <1>2, <2>1, <2>2, <2>3, <2>9, <2>10, AddOrderEffect
<1>5. CASE read.op = "cancel"
  <2>1. CancelOrder(read.id) /\ asked' = asked
    BY <1>1, <1>5 DEF Handle
  <2>2. read.id \in OrderIds
    <3>1. read = request[u]
      <4>1. request[u].op = "new" => request[u] \in NewRequests
        BY <1>2, ReadingFacts DEF Readings
      <4>2. ASSUME request[u].op = "new", NEW price, read = [request[u] EXCEPT !.price = price]
            PROVE  FALSE
        BY <1>5, <4>1, <4>2 DEF NewRequests
      <4>3. QED
        BY <4>2 DEF Readings
    <3>2. request[u] \in {None} \union NewRequests \union [op : {"cancel"}, id : OrderIds]
      BY <1>2 DEF SessionsTypeOK, Requests
    <3>3. request[u] \notin NewRequests
      BY <1>5, <3>1 DEF NewRequests
    <3>4. QED
      BY <1>3, <3>1, <3>2, <3>3
  <2>3. OrderedBook' /\ result' \in Results
    BY <1>2, <2>1, <2>2, OrderedBookStays, ResultOfBook DEF Next
  <2>4. result' # None
    BY <2>1 DEF CancelOrder, Cancelled, None
  <2>5. TurnGoesOn
    BY <1>2, <2>1, <2>3, <2>4, ReadRequestTurn
  <2>6. TakesOut(read.id)
    BY <1>2, <2>1, <2>2, <2>3, CancelOrderEffect
  <2>7. QED
    BY <1>2, <2>1, <2>3, <2>5, <2>6, TakesOutOnly, OrdersOnlyGo
<1>6. QED
  BY <1>1, <1>4, <1>5 DEF Handle

LEMMA MatchKeeps ==
  ASSUME SessionsInv, Match
  PROVE  SessionsInv'
<1>1. OrderedBook /\ TakingTurns
  BY DEF SessionsInv
<1>2. OrderedBook'
  BY <1>1, OrderedBookStays DEF Match, Next
<1>3. asked' = asked /\ TurnGoesOn
  BY <1>1, MatchTurn DEF Match
<1>4. CASE MatchNothing
  <2>1. pool' = pool /\ atomicOrderID' = atomicOrderID /\ Resting' = Resting
    BY <1>4 DEF MatchNothing, bookVars, Resting, RestingOn
  <2>2. \A slot \in Resting : SameButVolume(pool[slot], pool'[slot])
    BY <2>1 DEF SameButVolume
  <2>3. QED
    BY <1>2, <1>3, <2>1, <2>2, OrdersOnlyGo
<1>5. CASE MatchBest
  <2>1. PICK bid, ask, volume, filled : FillsBest(bid, ask, volume, filled)
    BY <1>1, <1>2, <1>5, MatchBestEffect
  <2>2. \A slot \in Resting : SameButVolume(pool[slot], pool'[slot])
    BY <1>1, <2>1, FillsOnlyVolume, RestingFacts
  <2>3. atomicOrderID' = atomicOrderID /\ Resting' \subseteq Resting
    BY <2>1 DEF FillsBest, StackAfterPush
  <2>4. QED
    BY <1>2, <1>3, <2>2, <2>3, OrdersOnlyGo
<1>6. QED
  BY <1>4, <1>5 DEF Match, MatchLimitOrders

LEMMA ConnectionKeeps ==
  ASSUME SessionsInv, TurnGoesOn, UNCHANGED <<vars, asked>>
  PROVE  SessionsInv'
<1>1. OrderedBook'
  BY OrderedBookStays DEF SessionsInv
<1>2. pool' = pool /\ atomicOrderID' = atomicOrderID /\ Resting' = Resting
  BY DEF vars, bookVars, Resting, RestingOn
<1>3. \A slot \in Resting : SameButVolume(pool[slot], pool'[slot])
  BY <1>2 DEF SameButVolume
<1>4. QED
  BY <1>1, <1>2, <1>3, OrdersOnlyGo

-----------------------------------------------------------------------------
LEMMA SessionsStepKeeps == SessionsInv /\ [SessionsNext]_sessionVars => SessionsInv'
<1> SUFFICES ASSUME SessionsInv, [SessionsNext]_sessionVars
             PROVE  SessionsInv'
  OBVIOUS
<1>1. TakingTurns
  BY DEF SessionsInv
<1>2. CASE UNCHANGED sessionVars
  BY <1>1, <1>2, MatchTurn, ConnectionKeeps DEF sessionVars
<1>3. ASSUME NEW u \in Users, UserStep(u)
      PROVE  SessionsInv'
  <2>1. ASSUME NEW side \in Side, NEW volume \in Volumes, NEW price \in Prices,
               PlaceOrder(u, side, volume, price)
        PROVE  SessionsInv'
    <3>1. UNCHANGED <<vars, asked>>
      BY <2>1 DEF PlaceOrder
    <3>2. QED
      BY <1>1, <2>1, <3>1, PlaceOrderTurn, ConnectionKeeps
  <2>2. ASSUME NEW orderId \in OrderIds, CancelById(u, orderId)
        PROVE  SessionsInv'
    <3>1. UNCHANGED <<vars, asked>>
      BY <2>2 DEF CancelById
    <3>2. QED
      BY <1>1, <2>2, <3>1, CancelByIdTurn, ConnectionKeeps
  <2>3. CASE Leave(u)
    <3>1. UNCHANGED <<vars, asked>>
      BY <2>3 DEF Leave
    <3>2. QED
      BY <1>1, <2>3, <3>1, GoneTurn, ConnectionKeeps
  <2>4. QED
    BY <1>3, <2>1, <2>2, <2>3 DEF UserStep
<1>4. ASSUME NEW u \in Users, ReadAnswer(u)
      PROVE  SessionsInv'
  <2>1. UNCHANGED <<vars, asked>>
    BY <1>4 DEF ReadAnswer
  <2>2. QED
    BY <1>1, <1>4, <2>1, ReadAnswerTurn, ConnectionKeeps
<1>5. ASSUME NEW u \in Users, ReadClosed(u)
      PROVE  SessionsInv'
  <2>1. UNCHANGED <<vars, asked>>
    BY <1>5 DEF ReadClosed
  <2>2. QED
    BY <1>1, <1>5, <2>1, GoneTurn, ConnectionKeeps
<1>6. ASSUME NEW u \in Users, ReadGarbage(u)
      PROVE  SessionsInv'
  <2>1. UNCHANGED <<vars, asked>>
    BY <1>6 DEF ReadGarbage
  <2>2. QED
    BY <1>1, <1>6, <2>1, ReadGarbageTurn, ConnectionKeeps
<1>7. ASSUME NEW u \in Users, WriteReply(u)
      PROVE  SessionsInv'
  <2>1. UNCHANGED <<vars, asked>>
    BY <1>7 DEF WriteReply
  <2>2. QED
    BY <1>1, <1>7, <2>1, WriteReplyTurn, ConnectionKeeps
<1>8. QED
  BY <1>2, <1>3, <1>4, <1>5, <1>6, <1>7, ReadRequestKeeps, MatchKeeps
  DEF SessionsNext, SessionStep

LEMMA SessionsInitInv == SessionsInit => SessionsInv
<1> SUFFICES ASSUME SessionsInit
             PROVE  SessionsInv
  OBVIOUS
<1>1. Init /\ Resting = {}
  BY NothingRestsYet DEF SessionsInit
<1>2. OrderedBook
  BY <1>1, InitOrdered
<1>3. SessionsTypeOK
  BY EmptySeq DEF SessionsInit, SessionsTypeOK, Requests
<1>4. \A u \in Users : InTurn(u)
  BY DEF SessionsInit, InTurn, None
<1>5. Len(asked) = atomicOrderID
  BY EmptySeq DEF SessionsInit, Init
<1>6. OrdersAsAsked /\ OwnersKnowTheirOrders
  BY <1>1, RestingAnswered
<1>7. QED
  BY <1>2, <1>3, <1>4, <1>5, <1>6 DEF SessionsInv, TakingTurns

LEMMA SessionsInvAlways == SessionsSpec => []SessionsInv
BY SessionsInitInv, SessionsStepKeeps, PTL DEF SessionsSpec

(* Whatever part of a request a session reads, an order that rests in the  *)
(* book is one that a user has asked for, on this side and at this price.  *)
THEOREM OrdersAlwaysAsAsked == SessionsSpec => []OrdersAsAsked
<1>1. SessionsInv => OrdersAsAsked
  BY DEF SessionsInv
<1>2. QED
  BY <1>1, SessionsInvAlways, PTL

(* No user who was turned away has an order in the book: the user of every *)
(* order that rests knows its id, is about to read it, or is gone.         *)
THEOREM OwnersAlwaysKnow == SessionsSpec => []OwnersKnowTheirOrders
<1>1. SessionsInv => OwnersKnowTheirOrders
  BY DEF SessionsInv
<1>2. QED
  BY <1>1, SessionsInvAlways, PTL
=============================================================================
