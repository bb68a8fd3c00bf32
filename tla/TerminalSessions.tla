--------------------------- MODULE TerminalSessions ---------------------------
(***************************************************************************)
(* Users at terminals (TraderClient::runTerminal), each with a connection  *)
(* and a session thread of its own in the server (TCPServer::run), around  *)
(* the matching engine.  A terminal can end at any time, with a request or *)
(* an answer under way; the session thread learns of it when it reads or   *)
(* writes.                                                                 *)
(*                                                                         *)
(* TCP is a stream of bytes: read_some may return the first part of a      *)
(* request.  A request ends with its price, so that a part is either short *)
(* of fields, which the parser refuses, or a request whose price has lost  *)
(* digits.  (Answers are short and taken to arrive whole, so that a user   *)
(* has one request under way.)                                             *)
(***************************************************************************)
EXTENDS MatchingEngine

CONSTANTS
  Users,     (* The people at terminals.                                   *)
  WEIGHTS    (* What a number is divided by when it loses its last digit,  *)
             (* its last two, and so on: 10, 100, ...                      *)

(* No price of the book is another one with digits missing at its end.     *)
ASSUME TerminalSessionsAssumption ==
  /\ WEIGHTS \subseteq Nat \ {0}
  /\ \A weight \in WEIGHTS : StartOfPrice + NumOfLevels <= weight * StartOfPrice

VARIABLES
  terminal,    (* Where each user's terminal is.                           *)
  session,     (* Where the thread of its connection is.                   *)
  request,     (* The request that its session has not read.               *)
  tail,        (* The end of a request that its session has not read.      *)
  reply,       (* What its session is about to write.                      *)
  answer,      (* The answer that its terminal has not read.               *)
  known,       (* History: the ids that the terminal has shown.            *)
  asked        (* History: what was asked for under each id, and by whom.  *)

clientVars == <<terminal, known>>
connectionVars == <<session, request, tail, reply, answer>>
sessionVars == <<vars, clientVars, connectionVars, asked>>

None == [op |-> "none"]
New(side, volume, price) ==
  [op |-> "new", side |-> side, volume |-> volume, price |-> price]
Cancel(orderId) == [op |-> "cancel", id |-> orderId]

Waits(u) == terminal[u] \in {"awaits id", "awaits text"}

(* The terminals have connected (TraderClient's constructor), and each     *)
(* connection was accepted; a connection that is accepted later is one     *)
(* whose session thread reads later.                                       *)
SessionsInit ==
  /\ Init
  /\ terminal = [u \in Users |-> "ready"]
  /\ session = [u \in Users |-> "reading"]
  /\ request = [u \in Users |-> None]
  /\ tail = [u \in Users |-> FALSE]
  /\ reply = [u \in Users |-> None]
  /\ answer = [u \in Users |-> None]
  /\ known = [u \in Users |-> {}]
  /\ asked = <<>>

-----------------------------------------------------------------------------
(* Faulty variants of the operators below, for mutation testing.           *)
IsValidPrice_Always(price) == TRUE
EndSession_GoesOn(u) ==
  /\ session' = [session EXCEPT ![u] = "reading"]
  /\ request' = [request EXCEPT ![u] = None]
  /\ tail' = [tail EXCEPT ![u] = FALSE]
Answered_Shared(u) ==
  answer' = [answer EXCEPT ![u] = IF terminal[u] = "gone" THEN None ELSE result]

-----------------------------------------------------------------------------
(* runTerminal sends an order only with a price of the book, ...           *)
IsValidPrice(price) == price \in StartOfPrice .. StartOfPrice + NumOfLevels - 1

(* The ids that were given out or will be for the requests under way.      *)
Asked == atomicOrderID + Cardinality({u \in Users : request[u].op = "new"})

PlaceOrder(u, side, volume, price) ==
  /\ terminal[u] = "ready"
  /\ Asked < MaxOrders
  /\ IsValidPrice(price)
  /\ request' = [request EXCEPT ![u] = New(side, volume, price)]
  /\ terminal' = [terminal EXCEPT ![u] = "awaits id"]
  /\ UNCHANGED <<vars, known, session, tail, reply, answer, asked>>

(* ... and the cancel of any id, not only of the user's own orders.        *)
CancelById(u, orderId) ==
  /\ terminal[u] = "ready"
  /\ request' = [request EXCEPT ![u] = Cancel(orderId)]
  /\ terminal' = [terminal EXCEPT ![u] = "awaits text"]
  /\ UNCHANGED <<vars, known, session, tail, reply, answer, asked>>

(* It reads the answer.  placeOrder throws for one that is not an id, and  *)
(* nothing in the terminal catches it.                                     *)
ReadAnswer(u) ==
  /\ Waits(u)
  /\ answer[u] # None
  /\ answer' = [answer EXCEPT ![u] = None]
  /\ terminal' = [terminal EXCEPT ![u] =
       IF @ = "awaits id" /\ answer[u].op # "accepted" THEN "gone" ELSE "ready"]
  /\ known' = [known EXCEPT ![u] =
       IF answer[u].op = "accepted" THEN @ \union {answer[u].id} ELSE @]
  /\ UNCHANGED <<vars, session, request, tail, reply, asked>>

(* read_some throws when the session has closed the connection.            *)
ReadClosed(u) ==
  /\ Waits(u)
  /\ answer[u] = None
  /\ session[u] = "ended"
  /\ terminal' = [terminal EXCEPT ![u] = "gone"]
  /\ UNCHANGED <<vars, known, connectionVars, asked>>

(* The user leaves, the terminal is killed, or the user types what stoull  *)
(* cannot read.                                                            *)
Leave(u) ==
  /\ terminal[u] # "gone"
  /\ terminal' = [terminal EXCEPT ![u] = "gone"]
  /\ answer' = [answer EXCEPT ![u] = None]
  /\ UNCHANGED <<vars, known, session, request, tail, reply, asked>>

-----------------------------------------------------------------------------
(* An exception in the loop ends the session thread and closes the socket. *)
EndSession(u) ==
  /\ session' = [session EXCEPT ![u] = "ended"]
  /\ request' = [request EXCEPT ![u] = None]
  /\ tail' = [tail EXCEPT ![u] = FALSE]

(* What a request may read as: the whole of it, or one that has lost the   *)
(* last digits of its price.  The price of a cancel is not used.           *)
Cut(price) == {price \div weight : weight \in WEIGHTS} \ {0}

Readings(u) ==
  {request[u]} \union
    IF request[u].op = "new"
    THEN {[request[u] EXCEPT !.price = price] : price \in Cut(request[u].price)} ELSE {}

(* The session has the engine handle the request it has read; what the     *)
(* engine returns or throws becomes its reply.                             *)
Handle(u, read) ==
  \/ /\ read.op = "new"
     /\ AddOrder(read.side, read.volume, read.price)
     /\ asked' = IF atomicOrderID' = atomicOrderID THEN asked
                 ELSE Append(asked, [user |-> u, request |-> request[u]])
  \/ /\ read.op = "cancel"
     /\ CancelOrder(read.id)
     /\ UNCHANGED asked

ReadRequest(u) ==
  /\ session[u] = "reading"
  /\ request[u] # None
  /\ \E read \in Readings(u) :
       /\ Handle(u, read)
       /\ tail' = [tail EXCEPT ![u] = read # request[u]]
  /\ reply' = [reply EXCEPT ![u] = result']
  /\ request' = [request EXCEPT ![u] = None]
  /\ session' = [session EXCEPT ![u] = "replying"]
  /\ UNCHANGED <<clientVars, answer>>

(* A part with too few fields does not parse; neither does the end of a    *)
(* request; and there is nothing to read from a terminal that is gone,     *)
(* whose last request may be lost with it.                                 *)
ReadGarbage(u) ==
  /\ session[u] = "reading"
  /\ request[u] # None \/ tail[u] \/ terminal[u] = "gone"
  /\ EndSession(u)
  /\ UNCHANGED <<vars, clientVars, reply, answer, asked>>

Answered(u) ==
  answer' = [answer EXCEPT ![u] = IF terminal[u] = "gone" THEN None ELSE reply[u]]

(* write_some to a terminal that is gone may succeed or fail; when it      *)
(* fails, so does the inner handler's, which writes to the same socket.    *)
WriteReply(u) ==
  /\ session[u] = "replying"
  /\ \/ /\ Answered(u)
        /\ session' = [session EXCEPT ![u] = "reading"]
        /\ UNCHANGED <<request, tail>>
     \/ /\ terminal[u] = "gone"
        /\ EndSession(u)
        /\ UNCHANGED answer
  /\ reply' = [reply EXCEPT ![u] = None]
  /\ UNCHANGED <<vars, clientVars, asked>>

Match == MatchLimitOrders /\ UNCHANGED <<clientVars, connectionVars, asked>>

UserStep(u) ==
  \/ \E side \in Side, volume \in Volumes, price \in Prices : PlaceOrder(u, side, volume, price)
  \/ \E orderId \in OrderIds : CancelById(u, orderId)
  \/ Leave(u)

SessionStep(u) == ReadRequest(u) \/ ReadGarbage(u) \/ WriteReply(u)

SessionsNext ==
  \/ \E u \in Users : UserStep(u) \/ ReadAnswer(u) \/ ReadClosed(u) \/ SessionStep(u)
  \/ Match

SessionsSpec == SessionsInit /\ [][SessionsNext]_sessionVars

(* A session with something to read or write goes on; so does a terminal   *)
(* that waits and has something to read.                                   *)
FairSessionsSpec ==
  /\ SessionsSpec
  /\ \A u \in Users :
       WF_sessionVars(SessionStep(u)) /\ WF_sessionVars(ReadAnswer(u) \/ ReadClosed(u))

-----------------------------------------------------------------------------
(* Whatever part of a request the server reads, and whatever it makes of   *)
(* it: an order that rests in the book is one that a user has asked for,   *)
(* on this side and at this price.  The terminal's check of the price and  *)
(* the range of the book's prices are what it depends on: none of them is  *)
(* another one cut short.                                                  *)
OrdersAsAsked ==
  \A slot \in Resting :
    LET order == pool[slot]
        wanted == asked[order.id].request
    IN  order.side = wanted.side /\ order.price = wanted.price

(* An order rests without its user knowing its id only if the user's       *)
(* terminal is gone, or is still waiting for the answer with the id: no    *)
(* user who was turned away has an order in the book.                      *)
OwnersKnowTheirOrders ==
  \A slot \in Resting :
    LET id == pool[slot].id
        u == asked[id].user
    IN  \/ id \in known[u]
        \/ terminal[u] = "gone"
        \/ terminal[u] = "awaits id" /\ Accepted(id) \in {reply[u], answer[u]}

(* No session thread outlives its terminal for ever, wherever it was when  *)
(* the terminal ended.                                                     *)
SessionsEnd == \A u \in Users : terminal[u] = "gone" ~> session[u] = "ended"

(* A terminal that waits gets an answer or learns that there is none.      *)
TerminalsAreAnswered == \A u \in Users : Waits(u) ~> ~Waits(u)
=============================================================================
