-------------------------- MODULE MarketDataReceiver --------------------------
(***************************************************************************)
(* A client's market data (UDPMarketDataReceiver.hpp, MarketData.hpp): a   *)
(* thread that receives the server's packets and parses each snapshot into *)
(* MarketData, and the terminal that shows it (TraderClient::runTerminal). *)
(* UDP may lose, repeat and reorder packets, and they carry no number.     *)
(*                                                                         *)
(* All that is left of the server (MarketDataServer) here is that it sends *)
(* snapshots, one over and over while the book does not change, and        *)
(* announces trades to the same group.                                     *)
(***************************************************************************)
EXTENDS Integers, Sequences

CONSTANT Values     (* Values of the fields of a snapshot, 0 among them.   *)

ASSUME MarketDataReceiverAssumption == Values \subseteq Nat /\ 0 \in Values

VARIABLES
  current,      (* What the server reads off the book.                     *)
  broadcast,    (* The snapshots it has sent, and the clients' first one.  *)
  network,      (* The packets under way.                                  *)
  receiver,     (* The packet being parsed and the fields that are done.   *)
  mSnapshot,    (* MarketData::mSnapshot.                                  *)
  displayed,    (* The snapshot that the terminal shows.                   *)
  alive         (* The client has not been terminated.                     *)

serverVars == <<current, broadcast>>
clientVars == <<receiver, mSnapshot, displayed, alive>>
vars == <<serverVars, network, clientVars>>

(* In the order of MarketDataSnapshot::serialise.                          *)
Fields == <<"bestBid", "bestAsk", "bidVolume", "askVolume">>

(* Two different snapshots differ in every field here, so that a mixture   *)
(* of the two can be told.                                                 *)
Snapshot(value) == [field \in DOMAIN Fields |-> value]
Snapshots == {Snapshot(value) : value \in Values}
Empty == Snapshot(0)

TradePacket == <<"TRADE">>

Init ==
  /\ current = Empty
  /\ broadcast = {Empty}
  /\ network = {}
  /\ receiver = [packet |-> Empty, done |-> Len(Fields)]
  /\ mSnapshot = Empty
  /\ displayed = Empty
  /\ alive = TRUE

-----------------------------------------------------------------------------
(* Faulty variants of the operators below, for mutation testing.           *)
MutexIsFree_Always == TRUE
IsLast_Early(field) == field = Len(Fields) - 1

-----------------------------------------------------------------------------
(* The server: the book changes; UDPServer::run sends a snapshot of it,    *)
(* the same one again while nothing changes; sendTrade.                    *)
ChangeBook ==
  /\ current' \in Snapshots \ {current}
  /\ UNCHANGED <<broadcast, network, clientVars>>

SendSnapshot ==
  /\ network' = network \union {current}
  /\ broadcast' = broadcast \union {current}
  /\ UNCHANGED <<current, clientVars>>

SendTrade ==
  network' = network \union {TradePacket} /\ UNCHANGED <<serverVars, clientVars>>

(* A packet is lost, or will not be delivered once more.                   *)
Lose(packet) ==
  network' = network \ {packet} /\ UNCHANGED <<serverVars, clientVars>>

-----------------------------------------------------------------------------
(* deserialise holds MarketData::mMutex while it has fields left to parse. *)
MutexIsFree == receiver.done = Len(Fields)

(* data.starts_with("TRADE:")                                              *)
IsTrade(packet) == packet = TradePacket

(* receive() returns any packet under way, which stays there and may be    *)
(* delivered again; the thread skips a trade and parses anything else.     *)
Receive(packet) ==
  /\ receiver.done = Len(Fields)
  /\ packet \in network
  /\ ~IsTrade(packet)
  /\ receiver' = [packet |-> packet, done |-> 0]
  /\ UNCHANGED <<serverVars, network, mSnapshot, displayed, alive>>

(* The mutex is given back after this field.                               *)
IsLast(field) == field = Len(Fields)

(* One field after the other is parsed and stored.  stoull throws for what *)
(* is no number, nothing catches it and the client is terminated.          *)
ParseField ==
  LET field == receiver.done + 1
  IN  /\ receiver.done < Len(Fields)
      /\ alive' = (receiver.packet # TradePacket)
      /\ mSnapshot' =
           IF alive' THEN [mSnapshot EXCEPT ![field] = receiver.packet[field]] ELSE mSnapshot
      /\ receiver' = [receiver EXCEPT !.done = IF IsLast(field) THEN Len(Fields) ELSE field]
      /\ UNCHANGED <<serverVars, network, displayed>>

(* runTerminal shows what MarketData::get copies under the mutex.          *)
Refresh ==
  /\ MutexIsFree
  /\ displayed' = mSnapshot
  /\ UNCHANGED <<serverVars, network, receiver, mSnapshot, alive>>

Next ==
  /\ alive
  /\ \/ ChangeBook \/ SendSnapshot \/ SendTrade
     \/ \E packet \in network : Lose(packet) \/ Receive(packet)
     \/ ParseField \/ Refresh

Spec == Init /\ [][Next]_vars

(* The server broadcasts for ever (TradesAreAnnounced and FeedSettles of   *)
(* MarketDataServer are about whether it does); no packet is delivered     *)
(* again for ever, and one that is sent again and again gets through; the  *)
(* thread goes on and the user refreshes.                                  *)
Fairness ==
  /\ WF_vars(alive /\ SendSnapshot)
  /\ \A packet \in Snapshots : WF_vars(alive /\ packet \in network /\ Lose(packet))
  /\ SF_vars(alive /\ Receive(current))
  /\ WF_vars(alive /\ ParseField)
  /\ SF_vars(alive /\ Refresh)

FairSpec == Spec /\ Fairness

-----------------------------------------------------------------------------
(* The terminal shows only what the server has sent as one packet, never   *)
(* the prices of one snapshot with the volumes of another, whenever the    *)
(* user refreshes while packets of any age arrive.                         *)
DisplaysWereSent == displayed \in broadcast

(* Once the book has stopped changing, the terminal ends up showing it,    *)
(* whatever was lost, repeated or overtaken before.                        *)
DisplaySettles == <>[][UNCHANGED current]_vars => <>[](displayed = current)
=============================================================================
