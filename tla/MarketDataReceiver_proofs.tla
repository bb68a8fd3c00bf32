----------------------- MODULE MarketDataReceiver_proofs -----------------------
(***************************************************************************)
(* Proof that a client shows what was sent, for every set of snapshots and *)
(* however the network behaves.                                            *)
(***************************************************************************)
EXTENDS MarketDataReceiver, TLAPS

(* The inductive invariant: what travels was sent, and MarketData agrees   *)
(* with the packet being parsed in the fields that are done.               *)
Field == 1 .. 4

Parsed ==
  /\ receiver \in [packet : broadcast, done : 0 .. 4]
  /\ mSnapshot \in [Field -> Values]
  /\ \A field \in 1 .. receiver.done : mSnapshot[field] = receiver.packet[field]

Sent ==
  /\ current \in Snapshots
  /\ broadcast \subseteq Snapshots
  /\ network \subseteq broadcast \union {TradePacket}

ReceiverInv == Sent /\ Parsed /\ alive /\ displayed \in broadcast

LEMMA SnapshotFields ==
  /\ Len(Fields) = 4
  /\ Empty \in Snapshots
  /\ \A snapshot \in Snapshots : snapshot \in [Field -> Values]
  /\ TradePacket \notin Snapshots
<1>1. Len(Fields) = 4 /\ DOMAIN Fields = Field
  BY DEF Fields, Field
<1>2. \A snapshot \in Snapshots : snapshot \in [Field -> Values]
  BY <1>1 DEF Snapshots, Snapshot
<1>3. Empty \in Snapshots
  BY MarketDataReceiverAssumption DEF Empty, Snapshots
<1>4. DOMAIN TradePacket = 1 .. 1 /\ 2 \in Field /\ 2 \notin 1 .. 1
  BY DEF TradePacket, Field
<1>5. QED
  BY <1>1, <1>2, <1>3, <1>4

(* A snapshot of which every field is parsed is the packet.                *)
LEMMA ParsedWhole ==
  ASSUME Sent, Parsed, MutexIsFree
  PROVE  mSnapshot \in broadcast
<1>1. receiver.packet \in broadcast /\ receiver.packet \in [Field -> Values]
  BY SnapshotFields DEF Sent, Parsed
<1>2. \A field \in Field : mSnapshot[field] = receiver.packet[field]
  BY SnapshotFields DEF Parsed, MutexIsFree, Field
<1>3. mSnapshot = receiver.packet
  BY <1>1, <1>2 DEF Parsed
<1>4. QED
  BY <1>1, <1>3

LEMMA InitReceiver == Init => ReceiverInv
<1> SUFFICES ASSUME Init
             PROVE  ReceiverInv
  OBVIOUS
<1>1. Empty \in [Field -> Values]
  BY SnapshotFields
<1>2. QED
  BY <1>1, SnapshotFields DEF Init, ReceiverInv, Sent, Parsed

LEMMA StepReceiver == ReceiverInv /\ [Next]_vars => ReceiverInv'
<1> SUFFICES ASSUME ReceiverInv, [Next]_vars
             PROVE  ReceiverInv'
  OBVIOUS
<1> USE DEF ReceiverInv
<1>1. CASE ChangeBook
  BY <1>1 DEF ChangeBook, clientVars, Sent, Parsed
<1>2. CASE SendSnapshot
  BY <1>2 DEF SendSnapshot, clientVars, Sent, Parsed
<1>3. CASE SendTrade
  BY <1>3 DEF SendTrade, serverVars, clientVars, Sent, Parsed
<1>4. ASSUME NEW packet \in network, Lose(packet)
      PROVE  ReceiverInv'
  BY <1>4 DEF Lose, serverVars, clientVars, Sent, Parsed
<1>5. ASSUME NEW packet \in network, Receive(packet)
      PROVE  ReceiverInv'
  <2>1. packet \in broadcast
    BY <1>5 DEF Receive, IsTrade, Sent
  <2>2. receiver' = [packet |-> packet, done |-> 0]
    BY <1>5 DEF Receive
  <2>3. Parsed'
    BY <1>5, <2>1, <2>2 DEF Receive, serverVars, Parsed
  <2>4. QED
    BY <1>5, <2>3 DEF Receive, serverVars, Sent
<1>6. CASE ParseField
  <2> DEFINE field == receiver.done + 1
  <2>1. receiver.packet \in broadcast /\ receiver.packet \in [Field -> Values]
    BY SnapshotFields DEF Sent, Parsed
  <2>2. receiver.packet # TradePacket
    BY <2>1, SnapshotFields DEF Sent
  <2>3. receiver.done \in 0 .. 4 /\ receiver.done < 4 /\ field \in Field
    BY <1>6, SnapshotFields DEF ParseField, Parsed, Field
  <2>4. /\ alive'
        /\ mSnapshot' = [mSnapshot EXCEPT ![field] = receiver.packet[field]]
    BY <1>6, <2>2 DEF ParseField
  <2>5. receiver' = [receiver EXCEPT !.done = field]
    BY <1>6, <2>3, SnapshotFields DEF ParseField, IsLast
  <2>6. mSnapshot' \in [Field -> Values] /\ receiver' \in [packet : broadcast, done : 0 .. 4]
    BY <2>1, <2>3, <2>4, <2>5 DEF Parsed, Field
  <2>7. \A f \in 1 .. field : mSnapshot'[f] = receiver.packet[f]
    BY <2>3, <2>4 DEF Parsed, Field
  <2>8. receiver'.done = field /\ receiver'.packet = receiver.packet
    BY <2>5 DEF Parsed
  <2> HIDE DEF field
  <2>9. Parsed'
    BY <1>6, <2>6, <2>7, <2>8 DEF ParseField, serverVars, Parsed
  <2>10. QED
    BY <1>6, <2>4, <2>9 DEF ParseField, serverVars, Sent
<1>7. CASE Refresh
  BY <1>7, ParsedWhole DEF Refresh, serverVars, Sent, Parsed
<1>8. CASE UNCHANGED vars
  BY <1>8 DEF vars, serverVars, clientVars, Sent, Parsed
<1>9. QED
  BY <1>1, <1>2, <1>3, <1>4, <1>5, <1>6, <1>7, <1>8 DEF Next

(* What the terminal shows was sent as one packet.                         *)
THEOREM DisplaysAlwaysSent == Spec => []DisplaysWereSent
<1>1. ReceiverInv => DisplaysWereSent
  BY DEF ReceiverInv, DisplaysWereSent
<1>2. QED
  BY <1>1, InitReceiver, StepReceiver, PTL DEF Spec
=============================================================================
