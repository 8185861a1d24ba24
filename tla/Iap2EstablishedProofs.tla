------------------------ MODULE Iap2EstablishedProofs ------------------------
(***************************************************************************)
(* Theorems about Iap2Established, for every modulus, window, bound and    *)
(* initial PSN that LinkAssumption admits.                                 *)
(***************************************************************************)
EXTENDS Iap2Established, SequenceTheorems, TLAPS

-----------------------------------------------------------------------------
(* Arithmetic on PSNs.                                                       *)

\* What the other lemmas use of the constants.
LEMMA Constants ==
  /\ Modulus \in Nat \ {0} /\ Half \in Nat
  /\ Side # {}
  /\ \A e \in Side : /\ Window[e] \in Nat \ {0} /\ Window[e] < Modulus
                     /\ InitialPsn[e] \in Psn /\ Submissions[e] \in Nat
                     /\ Peer(e) \in Side /\ Peer(e) # e /\ Peer(Peer(e)) = e
BY LinkAssumption, SMT DEF LinkAssumption, Half, Side, Psn, Peer

\* wrapping_add and wrapping_sub stay in u8.
LEMMA PsnClosed ==
  ASSUME NEW s \in Int, NEW n \in Int
  PROVE  Plus(s, n) \in Psn /\ Ahead(s, n) \in Psn
BY Constants, SMT DEF Plus, Ahead, Psn

-----------------------------------------------------------------------------
(* Types.                                                                    *)

\* The constructors build packets.
LEMMA PacketTypes ==
  ASSUME NEW s \in Psn, NEW a \in Psn, NEW c \in Nat, NEW m \in SUBSET Psn
  PROVE  /\ Data(s, a, c) \in Packet /\ Ack(s, a) \in Packet
         /\ Eak(s, a, m) \in Packet /\ Rst(s) \in Packet
<1>1. 0 \in Psn
  BY Constants, SMT DEF Psn
<1> QED
  BY <1>1 DEF Data, Ack, Eak, Rst, Packet, None

\* Where a step that appends to one channel leaves the channels.
LEMMA WriteType ==
  ASSUME TypeOK, NEW e \in Side, NEW packets \in Seq(Packet), Write(e, packets)
  PROVE  chan' \in [Side -> Seq(Packet)]
<1>1. Peer(e) \in Side
  BY Constants
<1>2. chan[Peer(e)] \o packets \in Seq(Packet)
  BY <1>1, ConcatProperties DEF TypeOK
<1> QED
  BY <1>1, <1>2 DEF Write, TypeOK

\* What Reading gives a handler: a packet, and well-typed stages.
LEMMA ReadingType ==
  ASSUME TypeOK, NEW e \in Side, Reading(e)
  PROVE  /\ Head(chan[e]) \in Packet
         /\ Tail(chan[e]) \in Seq(Packet)
         /\ stage' \in [Side -> Stages]
<1>1. chan[e] \in Seq(Packet) /\ chan[e] # <<>>
  BY DEF TypeOK, Reading
<1>2. stage' \in [Side -> Stages]
  BY DEF TypeOK, Reading, Stages
<1> QED
  BY <1>1, <1>2, HeadTailProperties

\* handle_inbound_ack keeps a suffix of unacked.
LEMMA HandleAckType ==
  ASSUME TypeOK, NEW e \in Side, NEW ack, HandleAck(e, ack)
  PROVE  unacked' \in [Side -> Seq(Packet)] /\ armed' \in [Side -> BOOLEAN]
<1>1. PICK k \in 0..Len(unacked[e]) :
        /\ unacked' = [unacked EXCEPT ![e] = SubSeq(@, k + 1, Len(@))]
        /\ armed' = [armed EXCEPT ![e] = IF k = 0 THEN @ ELSE k # Len(unacked[e])]
  BY DEF HandleAck
<1>2. unacked[e] \in Seq(Packet) /\ Len(unacked[e]) \in Nat
  BY LenProperties DEF TypeOK
<1>3. SubSeq(unacked[e], k + 1, Len(unacked[e])) \in Seq(Packet)
  BY <1>2, SubSeqProperties, SMT
<1>4. unacked' \in [Side -> Seq(Packet)]
  BY <1>1, <1>3 DEF TypeOK
<1>5. \A x \in BOOLEAN : [armed EXCEPT ![e] = x] \in [Side -> BOOLEAN]
  BY DEF TypeOK
<1>6. (IF k = 0 THEN armed[e] ELSE k # Len(unacked[e])) \in BOOLEAN
  BY Zenon DEF TypeOK
<1>7. armed' \in [Side -> BOOLEAN]
  BY <1>1, <1>5, <1>6, Zenon
<1> QED
  BY <1>4, <1>7

\* handle_inbound_data delivers chunks and buffers chunks.
LEMMA AcceptType ==
  ASSUME TypeOK, NEW e \in Side, NEW p \in Packet, Accept(e, p)
  PROVE  /\ lastRecv' \in [Side -> Psn]
         /\ outOfOrder' \in [Side -> [Psn -> Nat]]
         /\ delivered' \in [Side -> Seq(Nat)]
<1>1. p.seq \in Psn /\ p.seq \in Int /\ p.chunk \in Nat
  BY DEF Packet, Psn
<1>2. CASE AcceptNext(e, p)
  <2>1. PICK k \in 0..(Modulus - 1) :
          /\ delivered' = [delivered EXCEPT ![e] =
               Append(@, p.chunk) \o [j \in 1..k |-> outOfOrder[e][Plus(p.seq, j)]]]
          /\ lastRecv' = [lastRecv EXCEPT ![e] = Plus(p.seq, k)]
          /\ outOfOrder' = [outOfOrder EXCEPT ![e] =
               [s \in Psn |-> IF s \in Following(p.seq, k) THEN None ELSE @[s]]]
    BY <1>2 DEF AcceptNext
  <2>2. k \in Nat /\ Plus(p.seq, k) \in Psn
    <3>1. k \in Nat
      OBVIOUS
    <3> QED
      BY <1>1, <3>1, PsnClosed
  <2>3. \A j \in 1..k : outOfOrder[e][Plus(p.seq, j)] \in Nat
    <3> SUFFICES ASSUME NEW j \in 1..k PROVE outOfOrder[e][Plus(p.seq, j)] \in Nat
      OBVIOUS
    <3>1. Plus(p.seq, j) \in Psn
      BY <1>1, PsnClosed
    <3> QED
      BY <3>1 DEF TypeOK
  <2>4. [j \in 1..k |-> outOfOrder[e][Plus(p.seq, j)]] \in Seq(Nat)
    BY <2>2, <2>3, IsASeq
  <2>5. Append(delivered[e], p.chunk) \in Seq(Nat)
    BY <1>1, AppendProperties DEF TypeOK
  <2>6. delivered' \in [Side -> Seq(Nat)]
    BY <2>1, <2>4, <2>5, ConcatProperties DEF TypeOK
  <2>7. [s \in Psn |-> IF s \in Following(p.seq, k) THEN None ELSE outOfOrder[e][s]]
          \in [Psn -> Nat]
    BY DEF TypeOK, None
  <2> QED
    BY <2>1, <2>2, <2>6, <2>7 DEF TypeOK
<1>3. CASE /\ outOfOrder' = [outOfOrder EXCEPT ![e][p.seq] = p.chunk]
           /\ UNCHANGED <<lastRecv, delivered>>
  BY <1>1, <1>3 DEF TypeOK
<1>4. CASE UNCHANGED receiver
  BY <1>4 DEF TypeOK, receiver
<1> QED
  BY <1>2, <1>3, <1>4 DEF Accept

\* What Flush sends is a sequence of packets.
LEMMA OutgoingType ==
  ASSUME TypeOK, NEW e \in Side
  PROVE  /\ Sendable(e) \in 0..Len(pending[e])
         /\ Outgoing(e, Sendable(e)) \in Seq(Packet)
         /\ Len(Outgoing(e, Sendable(e))) = Sendable(e)
<1>1. pending[e] \in Seq(Nat) /\ Len(pending[e]) \in Nat /\ Len(unacked[e]) \in Nat
  BY LenProperties DEF TypeOK
<1>2. Window[e] \in Nat
  BY Constants
<1>3. Sendable(e) \in 0..Len(pending[e])
  BY <1>1, <1>2, SMT DEF Sendable, Min2
<1>4. \A i \in 1..Sendable(e) :
        Data(Plus(lastSent[e], i), lastRecv[e], pending[e][i]) \in Packet
  <2> SUFFICES ASSUME NEW i \in 1..Sendable(e)
               PROVE  Data(Plus(lastSent[e], i), lastRecv[e], pending[e][i]) \in Packet
    OBVIOUS
  <2>1. lastSent[e] \in Int /\ lastRecv[e] \in Psn
    BY DEF TypeOK, Psn
  <2>2. i \in 1..Len(pending[e]) /\ i \in Int
    BY <1>1, <1>3, SMT
  <2>3. pending[e][i] \in Nat
    BY <1>1, <2>2, ElementOfSeq
  <2> QED
    BY <2>1, <2>2, <2>3, PsnClosed, PacketTypes
<1>5. Sendable(e) \in Nat
  BY <1>1, <1>3, SMT
<1>6. Outgoing(e, Sendable(e)) \in Seq(Packet)
  BY <1>4, <1>5, IsASeq DEF Outgoing
<1>7. Len(Outgoing(e, Sendable(e))) = Sendable(e)
  BY <1>5, <1>6, LenProperties DEF Outgoing
<1> QED
  BY <1>3, <1>6, <1>7

\* An EAK or an ack that an end builds from its own state.
LEMMA ReplyType ==
  ASSUME TypeOK, NEW e \in Side, NEW last \in Psn, NEW buf
  PROVE  Eak(lastSent[e], last, Missing(buf, last)) \in Packet
<1>1. Missing(buf, last) \in SUBSET Psn
  BY DEF Missing
<1> QED
  BY <1>1, PacketTypes DEF TypeOK

\* Replacing the head of one channel and extending the other.
LEMMA ExchangeType ==
  ASSUME TypeOK, NEW e \in Side, NEW rest \in Seq(Packet), NEW more \in Seq(Packet),
         chan' = [chan EXCEPT ![e] = rest, ![Peer(e)] = @ \o more]
  PROVE  chan' \in [Side -> Seq(Packet)]
<1>1. Peer(e) \in Side /\ Peer(e) # e
  BY Constants
<1>2. chan[Peer(e)] \o more \in Seq(Packet)
  BY <1>1, ConcatProperties DEF TypeOK
<1>3. chan' = [[chan EXCEPT ![e] = rest] EXCEPT ![Peer(e)] = chan[Peer(e)] \o more]
  BY <1>1 DEF TypeOK
<1> QED
  BY <1>1, <1>2, <1>3 DEF TypeOK

\* DecodeData keeps the types.
LEMMA DecodeDataType ==
  ASSUME TypeOK, NEW e \in Side, DecodeData(e)
  PROVE  TypeOK'
<1>1. /\ Head(chan[e]) \in Packet
      /\ Tail(chan[e]) \in Seq(Packet)
      /\ stage' \in [Side -> Stages]
  BY ReadingType DEF DecodeData
<1>2. unacked' \in [Side -> Seq(Packet)] /\ armed' \in [Side -> BOOLEAN]
  BY HandleAckType DEF DecodeData
<1>3. /\ lastRecv' \in [Side -> Psn]
      /\ outOfOrder' \in [Side -> [Psn -> Nat]]
      /\ delivered' \in [Side -> Seq(Nat)]
  BY <1>1, AcceptType DEF DecodeData
<1>4. CASE /\ chan' = [chan EXCEPT ![e] = Tail(@)]
           /\ owesAck' = [owesAck EXCEPT ![e] = Owes(e, Head(chan[e]))]
  <2>1. chan' \in [Side -> Seq(Packet)]
    BY <1>1, <1>4 DEF TypeOK
  <2>2. Owes(e, Head(chan[e])) \in BOOLEAN
    BY DEF Owes, TypeOK
  <2>3. \A x \in BOOLEAN : [owesAck EXCEPT ![e] = x] \in [Side -> BOOLEAN]
    BY DEF TypeOK
  <2>4. owesAck' \in [Side -> BOOLEAN]
    BY <1>4, <2>2, <2>3, Zenon
  <2> QED
    BY <1>1, <1>2, <1>3, <2>1, <2>4 DEF TypeOK, DecodeData
<1>5. CASE /\ chan' = [chan EXCEPT ![e] = Tail(@),
                         ![Peer(e)] = Append(@, Eak(lastSent[e], lastRecv'[e],
                                                Missing(outOfOrder'[e], lastRecv'[e])))]
           /\ owesAck' = [owesAck EXCEPT ![e] = FALSE]
  <2> DEFINE eak == Eak(lastSent[e], lastRecv'[e], Missing(outOfOrder'[e], lastRecv'[e]))
  <2>1. lastRecv'[e] \in Psn
    BY <1>3
  <2>2. eak \in Packet
    BY <2>1, ReplyType
  <2> HIDE DEF eak
  <2>3. Peer(e) \in Side /\ Peer(e) # e
    BY Constants
  <2>4. Append(chan[Peer(e)], eak) \in Seq(Packet)
    BY <2>2, <2>3, AppendProperties DEF TypeOK
  <2>5. chan' = [[chan EXCEPT ![e] = Tail(@)] EXCEPT ![Peer(e)] = Append(chan[Peer(e)], eak)]
    BY <1>5, <2>3 DEF eak, TypeOK
  <2>6. chan' \in [Side -> Seq(Packet)]
    BY <1>1, <2>3, <2>4, <2>5 DEF TypeOK
  <2>7. owesAck' \in [Side -> BOOLEAN]
    BY <1>5 DEF TypeOK
  <2> QED
    BY <1>1, <1>2, <1>3, <2>6, <2>7 DEF TypeOK, DecodeData
<1> QED
  BY <1>4, <1>5 DEF DecodeData

\* DecodeEak keeps the types.
LEMMA DecodeEakType ==
  ASSUME TypeOK, NEW e \in Side, DecodeEak(e)
  PROVE  TypeOK'
<1>1. /\ Tail(chan[e]) \in Seq(Packet)
      /\ stage' \in [Side -> Stages]
  BY ReadingType DEF DecodeEak
<1>2. unacked' \in [Side -> Seq(Packet)] /\ armed' \in [Side -> BOOLEAN]
  BY HandleAckType DEF DecodeEak
<1>3. PICK n \in 0..Len(unacked'[e]) : \E pick \in [1..n -> 1..Len(unacked'[e])] :
        chan' = [chan EXCEPT ![e] = Tail(@),
                   ![Peer(e)] = @ \o [i \in 1..n |-> unacked'[e][pick[i]]]]
  BY DEF DecodeEak
<1>4. PICK pick \in [1..n -> 1..Len(unacked'[e])] :
        chan' = [chan EXCEPT ![e] = Tail(@),
                   ![Peer(e)] = @ \o [i \in 1..n |-> unacked'[e][pick[i]]]]
  BY <1>3
<1>5. \A i \in 1..n : unacked'[e][pick[i]] \in Packet
  BY <1>2, <1>4, ElementOfSeq
<1>6. [i \in 1..n |-> unacked'[e][pick[i]]] \in Seq(Packet)
  <2>1. n \in Nat
    BY <1>2, LenProperties, SMT
  <2> QED
    BY <1>5, <2>1, IsASeq
<1>7. chan' \in [Side -> Seq(Packet)]
  BY <1>1, <1>4, <1>6, ExchangeType
<1> QED
  BY <1>1, <1>2, <1>7 DEF TypeOK, DecodeEak, receiver

\* The decodings that answer nothing keep the types.
LEMMA QuietDecodeType ==
  ASSUME TypeOK, NEW e \in Side, DecodeAck(e) \/ DecodeRst(e) \/ DropCorrupt(e)
  PROVE  TypeOK'
<1>1. Reading(e) /\ chan' = [chan EXCEPT ![e] = Tail(@)]
  BY DEF DecodeAck, DecodeRst, DropCorrupt
<1>2. /\ stage' \in [Side -> Stages]
      /\ chan' \in [Side -> Seq(Packet)]
  BY <1>1, ReadingType DEF TypeOK
<1>3. CASE DecodeAck(e)
  <2>1. unacked' \in [Side -> Seq(Packet)] /\ armed' \in [Side -> BOOLEAN]
    BY <1>3, HandleAckType DEF DecodeAck
  <2> QED
    BY <1>2, <1>3, <2>1 DEF TypeOK, DecodeAck, receiver
<1>4. CASE DecodeRst(e)
  BY <1>2, <1>4 DEF TypeOK, DecodeRst, sender, receiver
<1>5. CASE DropCorrupt(e)
  BY <1>2, <1>5 DEF TypeOK, DropCorrupt, sender, receiver
<1> QED
  BY <1>3, <1>4, <1>5

\* Flush keeps the types.
LEMMA FlushType ==
  ASSUME TypeOK, NEW e \in Side, Flush(e)
  PROVE  TypeOK'
<1> DEFINE n == Sendable(e)
           out == Outgoing(e, n)
           bare == IF n = 0 /\ owesAck[e] THEN <<Ack(lastSent[e], lastRecv[e])>> ELSE <<>>
<1>1. n \in 0..Len(pending[e]) /\ out \in Seq(Packet)
  BY OutgoingType
<1>2. bare \in Seq(Packet)
  <2>1. Ack(lastSent[e], lastRecv[e]) \in Packet
    BY PacketTypes DEF TypeOK
  <2> QED
    BY <2>1
<1>3. /\ Write(e, out \o bare)
      /\ stage' = [stage EXCEPT ![e] = "select"]
      /\ lastSent' = [lastSent EXCEPT ![e] = Plus(@, n)]
      /\ pending' = [pending EXCEPT ![e] = SubSeq(@, n + 1, Len(@))]
      /\ unacked' = [unacked EXCEPT ![e] = @ \o out]
      /\ armed' = [armed EXCEPT ![e] = @ \/ (n > 0 /\ unacked[e] = <<>>)]
      /\ owesAck' = [owesAck EXCEPT ![e] = FALSE]
      /\ UNCHANGED <<receiver, up, losses, submitted>>
  BY DEF Flush
<1>4. pending[e] \in Seq(Nat) /\ Len(pending[e]) \in Nat /\ lastSent[e] \in Int
  BY LenProperties DEF TypeOK, Psn
<1> HIDE DEF n, out, bare
<1>5. chan' \in [Side -> Seq(Packet)]
  <2>1. out \o bare \in Seq(Packet)
    BY <1>1, <1>2, ConcatProperties
  <2> QED
    BY <1>3, <2>1, WriteType
<1>6. lastSent' \in [Side -> Psn]
  <2>1. Plus(lastSent[e], n) \in Psn
    BY <1>1, <1>4, PsnClosed
  <2> QED
    BY <1>3, <2>1 DEF TypeOK
<1>7. pending' \in [Side -> Seq(Nat)]
  <2>1. SubSeq(pending[e], n + 1, Len(pending[e])) \in Seq(Nat)
    BY <1>1, <1>4, SubSeqProperties, SMT
  <2> QED
    BY <1>3, <2>1 DEF TypeOK
<1>8. unacked' \in [Side -> Seq(Packet)]
  <2>1. unacked[e] \o out \in Seq(Packet)
    BY <1>1, ConcatProperties DEF TypeOK
  <2> QED
    BY <1>3, <2>1 DEF TypeOK
<1>9. armed' \in [Side -> BOOLEAN]
  BY <1>3 DEF TypeOK
<1>10. stage' \in [Side -> Stages]
  BY <1>3 DEF TypeOK, Stages
<1> QED
  BY <1>3, <1>5, <1>6, <1>7, <1>8, <1>9, <1>10 DEF TypeOK, receiver

\* Send keeps the types.
LEMMA SendType ==
  ASSUME TypeOK, NEW e \in Side, Send(e)
  PROVE  TypeOK'
<1>1. PICK n \in 1..MaxChunks :
        /\ submitted' = [submitted EXCEPT ![e] = @ + n]
        /\ pending' = [pending EXCEPT ![e] = @ \o [i \in 1..n |-> submitted[e] + i]]
  BY DEF Send
<1>2. n \in Nat /\ submitted[e] \in Nat
  BY <1>1, LinkAssumption, SMT DEF LinkAssumption, TypeOK
<1>3. [i \in 1..n |-> submitted[e] + i] \in Seq(Nat)
  BY <1>2, IsASeq
<1>4. pending[e] \o [i \in 1..n |-> submitted[e] + i] \in Seq(Nat)
  BY <1>3, ConcatProperties DEF TypeOK
<1>5. pending' \in [Side -> Seq(Nat)] /\ submitted' \in [Side -> Nat]
  BY <1>1, <1>2, <1>4 DEF TypeOK
<1>6. stage' \in [Side -> Stages]
  BY DEF Send, TypeOK, Stages
<1> QED
  BY <1>5, <1>6 DEF Send, TypeOK, receiver

\* The branches of the select that only move the end along, and what they lead
\* to write, keep the types.
LEMMA SelectType ==
  ASSUME TypeOK, NEW e \in Side,
         Read(e) \/ RetransmitFire(e) \/ GiveUp(e) \/ Disconnect(e) \/ Resend(e) \/ WriteRst(e)
  PROVE  TypeOK'
<1>1. stage' \in [Side -> Stages]
  BY DEF Read, RetransmitFire, GiveUp, Disconnect, LeaveLoop, Resend, WriteRst, TypeOK, Stages
<1>2. CASE Read(e)
  BY <1>1, <1>2 DEF Read, TypeOK, sender, receiver
<1>3. CASE RetransmitFire(e)
  <2>1. armed' \in [Side -> BOOLEAN]
    BY <1>3 DEF RetransmitFire, TypeOK
  <2> QED
    BY <1>1, <1>3, <2>1 DEF RetransmitFire, TypeOK, receiver
<1>4. CASE GiveUp(e) \/ Disconnect(e)
  BY <1>1, <1>4 DEF GiveUp, Disconnect, LeaveLoop, TypeOK, sender, receiver
<1>5. CASE Resend(e)
  <2>1. unacked[e] # <<>> => Head(unacked[e]) \in Packet
    BY HeadTailProperties DEF TypeOK
  <2>2. Oldest(unacked[e]) \in Seq(Packet)
    BY <2>1 DEF Oldest
  <2>3. chan' \in [Side -> Seq(Packet)]
    BY <1>5, <2>2, WriteType DEF Resend
  <2> QED
    BY <1>1, <1>5, <2>3 DEF Resend, TypeOK, sender, receiver
<1>6. CASE WriteRst(e)
  <2>1. <<Rst(lastSent[e])>> \in Seq(Packet)
    <3>1. 0 \in Psn /\ 0 \in Nat /\ lastSent[e] \in Psn
      BY Constants, SMT DEF Psn, TypeOK
    <3>2. Rst(lastSent[e]) \in Packet
      BY <3>1, PacketTypes
    <3> QED
      BY <3>2
  <2>2. chan' \in [Side -> Seq(Packet)]
    BY <1>6, <2>1, WriteType DEF WriteRst
  <2> QED
    BY <1>1, <1>6, <2>2 DEF WriteRst, TypeOK, sender, receiver
<1> QED
  BY <1>2, <1>3, <1>4, <1>5, <1>6

\* The initial state has the types.
LEMMA InitType == Init => TypeOK
<1>1. <<>> \in Seq(Nat) /\ <<>> \in Seq(Packet)
  BY EmptySeq
<1>2. InitialPsn \in [Side -> Psn] /\ [e \in Side |-> InitialPsn[Peer(e)]] \in [Side -> Psn]
  BY Constants, LinkAssumption DEF LinkAssumption
<1> QED
  BY <1>1, <1>2 DEF Init, TypeOK, None, Stages

\* Every step keeps the types.
LEMMA NextType == TypeOK /\ [Next]_vars => TypeOK'
<1> SUFFICES ASSUME TypeOK, [Next]_vars PROVE TypeOK'
  OBVIOUS
<1>1. CASE Next
  <2>1. PICK e \in Side :
          \/ Read(e) \/ Decode(e) \/ DropCorrupt(e) \/ Flush(e) \/ Send(e)
          \/ RetransmitFire(e) \/ Resend(e) \/ GiveUp(e) \/ Disconnect(e) \/ WriteRst(e)
    BY <1>1 DEF Next
  <2> QED
    BY <2>1, DecodeDataType, DecodeEakType, QuietDecodeType, FlushType, SendType, SelectType
    DEF Decode
<1>2. CASE UNCHANGED vars
  BY <1>2 DEF vars, TypeOK
<1> QED
  BY <1>1, <1>2

\* Every value stays in the domain the code's types give it: in particular the
\* PSN arithmetic of handle_inbound_data, send_eak and send_data_packet is u8.
THEOREM TypeCorrect == Spec => []TypeOK
<1>1. Init => TypeOK
  BY InitType
<1>2. TypeOK /\ [Next]_vars => TypeOK'
  BY NextType
<1> QED
  BY <1>1, <1>2, PTL DEF Spec

-----------------------------------------------------------------------------
(* The retransmit timer and the window.                                      *)

\* Euclidean division, as far as it is used here.
LEMMA Division ==
  ASSUME NEW m \in Nat \ {0}, NEW x \in Int
  PROVE  /\ \E q \in Int : x = (m * q) + (x % m)
         /\ x % m \in 0..(m - 1)
<1>1. x = (m * (x \div m)) + (x % m)
  BY SMT
<1>2. x \div m \in Int
  BY SMT
<1>3. x % m \in 0..(m - 1)
  BY SMT
<1> QED
  BY <1>1, <1>2, <1>3

\* The remainder is the only such number.
LEMMA DivisionUnique ==
  ASSUME NEW m \in Nat \ {0}, NEW k \in Int, NEW y \in 0..(m - 1)
  PROVE  ((m * k) + y) % m = y
BY SMT

\* A difference of PSNs may be taken before or after wrapping.
LEMMA WrapDifference ==
  ASSUME NEW s \in Int, NEW n \in Int, NEW d \in Int
  PROVE  Ahead(Plus(s, n), n + d) = Ahead(s, d)
<1> DEFINE x == s + n
           y == s - d
<1>1. Modulus \in Nat \ {0} /\ x \in Int /\ y \in Int
  BY Constants, SMT
<1>2. PICK q \in Int : x = (Modulus * q) + (x % Modulus)
  BY <1>1, Division
<1>3. PICK r \in Int : y = (Modulus * r) + (y % Modulus)
  BY <1>1, Division
<1>4. (x % Modulus) \in Int /\ (y % Modulus) \in 0..(Modulus - 1)
  BY <1>1, Division
<1> DEFINE u == x % Modulus
           v == y % Modulus
           k == r - q
<1>5. x - (n + d) = y /\ (n + d) \in Int
  BY SMT
<1>6. u \in Int /\ v \in 0..(Modulus - 1) /\ k \in Int
  BY <1>4, SMT
<1>7. x = (Modulus * q) + u /\ y = (Modulus * r) + v
  BY <1>2, <1>3
<1> HIDE DEF x, y, u, v
<1>8. Modulus * k = (Modulus * r) - (Modulus * q)
  BY <1>1, SMT
<1>9. (Modulus * q) \in Int /\ (Modulus * r) \in Int /\ v \in Int
  BY <1>1, <1>6, SMT
<1> HIDE DEF k
<1>10. u - (n + d) = (Modulus * k) + v
  BY <1>1, <1>5, <1>6, <1>7, <1>8, <1>9, SMT
<1>11. ((Modulus * k) + v) % Modulus = v
  BY <1>1, <1>6, DivisionUnique
<1>12. (u - (n + d)) % Modulus = v
  BY <1>10, <1>11
<1> QED
  BY <1>12 DEF Ahead, Plus, u, v, x, y

\* What handle_inbound_ack leaves: a suffix of the queue, and the timer running
\* if and only if the suffix is not empty.
LEMMA HandleAckSuffix ==
  ASSUME TypeOK, NEW e \in Side, NEW ack, HandleAck(e, ack),
         armed[e] <=> unacked[e] # <<>>
  PROVE  /\ armed'[e] <=> unacked'[e] # <<>>
         /\ \E k \in 0..Len(unacked[e]) :
              /\ Len(unacked'[e]) = Len(unacked[e]) - k
              /\ \A i \in 1..Len(unacked'[e]) : unacked'[e][i] = unacked[e][k + i]
         /\ \A f \in Side \ {e} : unacked'[f] = unacked[f] /\ armed'[f] = armed[f]
<1>1. PICK k \in 0..Len(unacked[e]) :
        /\ unacked' = [unacked EXCEPT ![e] = SubSeq(@, k + 1, Len(@))]
        /\ armed' = [armed EXCEPT ![e] = IF k = 0 THEN @ ELSE k # Len(unacked[e])]
  BY DEF HandleAck
<1>2. unacked[e] \in Seq(Packet) /\ Len(unacked[e]) \in Nat
  BY LenProperties DEF TypeOK
<1> DEFINE q == SubSeq(unacked[e], k + 1, Len(unacked[e]))
<1>3. /\ q \in Seq(Packet)
      /\ Len(q) = Len(unacked[e]) - k
      /\ \A i \in 1..Len(q) : q[i] = unacked[e][k + i]
  BY <1>2, SubSeqProperties, SMT
<1>4. unacked'[e] = q /\ \A f \in Side \ {e} : unacked'[f] = unacked[f]
  BY <1>1 DEF TypeOK
<1>5. /\ armed'[e] = IF k = 0 THEN armed[e] ELSE k # Len(unacked[e])
      /\ \A f \in Side \ {e} : armed'[f] = armed[f]
  BY <1>1, Zenon DEF TypeOK
<1>6. q = <<>> <=> k = Len(unacked[e])
  BY <1>2, <1>3, EmptySeq, SMT
<1>7. k = 0 => (unacked[e] # <<>> <=> k # Len(unacked[e]))
  BY <1>2, EmptySeq, SMT
<1>8. armed'[e] <=> q # <<>>
  BY <1>5, <1>6, <1>7
<1> QED
  BY <1>3, <1>4, <1>5, <1>8

\* The two properties of one end's send window.
WindowInv(e) ==
  /\ armed[e] <=> unacked[e] # <<>>
  /\ Len(unacked[e]) <= Window[e]
  /\ \A i \in 1..Len(unacked[e]) :
       unacked[e][i].seq = Ahead(lastSent[e], Len(unacked[e]) - i)

\* An acknowledgement shortens the window from its old end.
LEMMA HandleAckWindow ==
  ASSUME TypeOK, \A f \in Side : WindowInv(f),
         NEW e \in Side, NEW ack, HandleAck(e, ack), UNCHANGED lastSent
  PROVE  \A f \in Side : WindowInv(f)'
<1>1. WindowInv(e)
  OBVIOUS
<1>2. /\ armed'[e] <=> unacked'[e] # <<>>
      /\ \A f \in Side \ {e} : unacked'[f] = unacked[f] /\ armed'[f] = armed[f]
  BY <1>1, HandleAckSuffix DEF WindowInv
<1>3. PICK k \in 0..Len(unacked[e]) :
        /\ Len(unacked'[e]) = Len(unacked[e]) - k
        /\ \A i \in 1..Len(unacked'[e]) : unacked'[e][i] = unacked[e][k + i]
  BY <1>1, HandleAckSuffix DEF WindowInv
<1>4. Len(unacked[e]) \in Nat /\ Window[e] \in Nat /\ k \in Nat
  <2>1. unacked[e] \in Seq(Packet)
    BY DEF TypeOK
  <2> QED
    BY <2>1, Constants, LenProperties
<1>5. Len(unacked'[e]) <= Window[e]
  BY <1>1, <1>3, <1>4, SMT DEF WindowInv
<1>6. ASSUME NEW i \in 1..Len(unacked'[e])
      PROVE  unacked'[e][i].seq = Ahead(lastSent'[e], Len(unacked'[e]) - i)
  <2>1. k + i \in 1..Len(unacked[e]) /\ Len(unacked[e]) - (k + i) = Len(unacked'[e]) - i
    BY <1>3, <1>4, SMT
  <2>2. unacked'[e][i] = unacked[e][k + i]
    BY <1>3
  <2> QED
    BY <1>1, <2>1, <2>2 DEF WindowInv
<1>7. WindowInv(e)'
  BY <1>2, <1>5, <1>6 DEF WindowInv
<1>8. \A f \in Side \ {e} : WindowInv(f)'
  <2>1. SUFFICES ASSUME NEW f \in Side \ {e} PROVE WindowInv(f)'
    OBVIOUS
  <2>2. unacked'[f] = unacked[f] /\ armed'[f] = armed[f] /\ lastSent'[f] = lastSent[f]
    BY <1>2, <2>1
  <2>3. WindowInv(f)
    BY <2>1
  <2> QED
    BY <2>2, <2>3 DEF WindowInv
<1> QED
  BY <1>7, <1>8

\* drain_pending_send extends the window with the next PSNs, up to its limit.
LEMMA FlushWindow ==
  ASSUME TypeOK, \A f \in Side : WindowInv(f), NEW e \in Side, Flush(e)
  PROVE  \A f \in Side : WindowInv(f)'
<1> DEFINE n == Sendable(e)
           out == Outgoing(e, n)
           len == Len(unacked[e])
<1>1. /\ lastSent' = [lastSent EXCEPT ![e] = Plus(@, n)]
      /\ unacked' = [unacked EXCEPT ![e] = @ \o out]
      /\ armed' = [armed EXCEPT ![e] = @ \/ (n > 0 /\ unacked[e] = <<>>)]
  BY DEF Flush
<1>2. n \in 0..Len(pending[e]) /\ out \in Seq(Packet) /\ Len(out) = n
  BY OutgoingType
<1>3. unacked[e] \in Seq(Packet) /\ len \in Nat /\ Window[e] \in Nat /\ lastSent[e] \in Int
      /\ Len(pending[e]) \in Nat
  <2>1. unacked[e] \in Seq(Packet) /\ pending[e] \in Seq(Nat) /\ lastSent[e] \in Int
    BY DEF TypeOK, Psn
  <2>2. Window[e] \in Nat
    BY Constants
  <2> QED
    BY <2>1, <2>2, LenProperties
<1>4. len <= Window[e] => len + n <= Window[e]
  BY <1>2, <1>3, SMT DEF Sendable, Min2
<1>5. \A i \in 1..n : out[i].seq = Plus(lastSent[e], i)
  BY DEF Outgoing, Data
<1>6. WindowInv(e)
  OBVIOUS
<1> HIDE DEF n, out, len
<1>7. /\ unacked'[e] = unacked[e] \o out
      /\ lastSent'[e] = Plus(lastSent[e], n)
      /\ armed'[e] <=> armed[e] \/ (n > 0 /\ unacked[e] = <<>>)
      /\ \A f \in Side \ {e} : unacked'[f] = unacked[f] /\ armed'[f] = armed[f]
                               /\ lastSent'[f] = lastSent[f]
  BY <1>1 DEF TypeOK
<1>8. /\ Len(unacked'[e]) = len + n
      /\ \A i \in 1..len : unacked'[e][i] = unacked[e][i]
      /\ \A i \in 1..n : unacked'[e][len + i] = out[i]
  <2> DEFINE q == unacked[e]
  <2>1. /\ Len(q \o out) = Len(q) + Len(out)
        /\ \A i \in 1..(Len(q) + Len(out)) :
             (q \o out)[i] = IF i <= Len(q) THEN q[i] ELSE out[i - Len(q)]
    BY <1>2, <1>3, ConcatProperties
  <2>2. n \in Nat
    BY <1>2, <1>3, SMT
  <2> HIDE DEF q
  <2>3. /\ Len(q \o out) = len + n
        /\ \A i \in 1..len : (q \o out)[i] = q[i]
        /\ \A i \in 1..n : (q \o out)[len + i] = out[i]
    BY <1>2, <1>3, <2>1, <2>2, SMT DEF len, q
  <2> QED
    BY <1>7, <2>3 DEF q
<1>9. armed'[e] <=> unacked'[e] # <<>>
  <2>1. n \in Nat
    BY <1>2, <1>3, SMT
  <2>2. unacked'[e] # <<>> <=> unacked[e] # <<>> \/ n > 0
    <3>1. unacked'[e] \in Seq(Packet)
      BY <1>2, <1>3, <1>7, ConcatProperties
    <3> QED
      BY <1>3, <1>8, <2>1, <3>1, EmptySeq, SMT DEF len
  <2> QED
    BY <1>6, <1>7, <2>2 DEF WindowInv
<1>10. ASSUME NEW i \in 1..Len(unacked'[e])
       PROVE  unacked'[e][i].seq = Ahead(lastSent'[e], Len(unacked'[e]) - i)
  <2>1. n \in Int /\ len \in Int /\ i \in Int /\ i \in 1..(len + n)
    BY <1>2, <1>3, <1>8, SMT
  <2>2. Ahead(lastSent'[e], n + (len - i)) = Ahead(lastSent[e], len - i)
    BY <1>3, <1>7, <2>1, WrapDifference
  <2>3. n + (len - i) = Len(unacked'[e]) - i
    BY <1>8, <2>1, SMT
  <2>4. CASE i <= len
    <3>1. i \in 1..len
      BY <1>3, <2>1, <2>4, SMT
    <3>2. unacked[e][i].seq = Ahead(lastSent[e], len - i)
      BY <1>6, <3>1 DEF WindowInv, len
    <3> QED
      BY <1>8, <2>2, <2>3, <3>1, <3>2
  <2>5. CASE i > len
    <3>1. i - len \in 1..n /\ len + (i - len) = i
      BY <1>3, <2>1, <2>5, SMT
    <3>2. unacked'[e][i].seq = Plus(lastSent[e], i - len)
      BY <1>5, <1>8, <3>1
    <3>3. lastSent[e] + (i - len) = lastSent[e] - (len - i)
      BY <1>3, <2>1, SMT
    <3>4. Plus(lastSent[e], i - len) = Ahead(lastSent[e], len - i)
      BY <3>3 DEF Plus, Ahead
    <3> QED
      BY <2>2, <2>3, <3>2, <3>4
  <2> QED
    BY <1>3, <2>1, <2>4, <2>5, SMT
<1>11. WindowInv(e)'
  <2>1. Len(unacked'[e]) <= Window[e]
    BY <1>4, <1>6, <1>8 DEF WindowInv, len
  <2> QED
    BY <1>9, <1>10, <2>1 DEF WindowInv
<1>12. \A f \in Side \ {e} : WindowInv(f)'
  <2>1. SUFFICES ASSUME NEW f \in Side \ {e} PROVE WindowInv(f)'
    OBVIOUS
  <2>2. unacked'[f] = unacked[f] /\ armed'[f] = armed[f] /\ lastSent'[f] = lastSent[f]
    BY <1>7, <2>1
  <2>3. WindowInv(f)
    BY <2>1
  <2> QED
    BY <2>2, <2>3 DEF WindowInv
<1> QED
  BY <1>11, <1>12

\* Every step keeps the window and the timer right.
LEMMA WindowStep ==
  ASSUME TypeOK, \A f \in Side : WindowInv(f), [Next]_vars
  PROVE  \A f \in Side : WindowInv(f)'
<1>1. ASSUME NEW e \in Side,
             \/ Read(e) \/ DecodeRst(e) \/ DropCorrupt(e) \/ Send(e)
             \/ Resend(e) \/ GiveUp(e) \/ Disconnect(e) \/ WriteRst(e)
      PROVE  \A f \in Side : WindowInv(f)'
  <2>1. UNCHANGED <<lastSent, unacked, armed>>
    BY <1>1 DEF Read, DecodeRst, DropCorrupt, Send, Resend, GiveUp, Disconnect, LeaveLoop,
              WriteRst, sender
  <2> QED
    BY <2>1 DEF WindowInv
<1>2. ASSUME NEW e \in Side, DecodeData(e) \/ DecodeAck(e) \/ DecodeEak(e)
      PROVE  \A f \in Side : WindowInv(f)'
  <2>1. HandleAck(e, Head(chan[e]).ack) /\ UNCHANGED lastSent
    BY <1>2 DEF DecodeData, DecodeAck, DecodeEak
  <2> QED
    BY <2>1, HandleAckWindow
<1>3. ASSUME NEW e \in Side, RetransmitFire(e)
      PROVE  \A f \in Side : WindowInv(f)'
  <2>1. /\ armed' = [armed EXCEPT ![e] = unacked[e] # <<>>]
        /\ UNCHANGED <<lastSent, unacked>>
    BY <1>3 DEF RetransmitFire
  <2>2. /\ armed'[e] <=> unacked[e] # <<>>
        /\ \A f \in Side \ {e} : armed'[f] = armed[f]
    BY <2>1 DEF TypeOK
  <2> QED
    BY <2>1, <2>2 DEF WindowInv
<1>4. CASE Next
  <2>1. PICK e \in Side :
          \/ Read(e) \/ Decode(e) \/ DropCorrupt(e) \/ Flush(e) \/ Send(e)
          \/ RetransmitFire(e) \/ Resend(e) \/ GiveUp(e) \/ Disconnect(e) \/ WriteRst(e)
    BY <1>4 DEF Next
  <2> QED
    BY <1>1, <1>2, <1>3, <2>1, FlushWindow DEF Decode
<1>5. CASE UNCHANGED vars
  BY <1>5 DEF vars, WindowInv
<1> QED
  BY <1>4, <1>5

\* The window holds at the start.
LEMMA WindowInit == Init => \A e \in Side : WindowInv(e)
<1> SUFFICES ASSUME Init, NEW e \in Side PROVE WindowInv(e)
  OBVIOUS
<1>1. unacked[e] = <<>> /\ armed[e] = FALSE
  BY DEF Init
<1>2. Len(unacked[e]) = 0
  BY <1>1
<1> QED
  BY <1>1, <1>2, Constants, SMT DEF WindowInv

\* Whatever packets arrive, late, repeated or mangled: a packet waits for its
\* acknowledgement only under a running timer, the packets that wait carry the
\* newest PSNs without a gap, and there are never more of them than the peer's
\* max_outgoing (window_has_room, arm_retransmit, handle_inbound_ack).
THEOREM WindowCorrect == Spec => [](TimerGuardsUnacked /\ WindowHeld)
<1> DEFINE Inv == TypeOK /\ \A e \in Side : WindowInv(e)
<1>1. Init => Inv
  BY InitType, WindowInit
<1>2. Inv /\ [Next]_vars => Inv'
  BY NextType, WindowStep
<1>3. Inv => TimerGuardsUnacked /\ WindowHeld
  BY DEF WindowInv, TimerGuardsUnacked, WindowHeld
<1> QED
  BY <1>1, <1>2, <1>3, PTL DEF Spec

\* Its first half by itself: nothing unacknowledged is left without a timer, so
\* that a lost packet is always retried (arm_retransmit).
THEOREM TimerCorrect == Spec => []TimerGuardsUnacked
BY WindowCorrect, PTL

-----------------------------------------------------------------------------
(* The established phase delivers an ordered stream: what Iap2Established    *)
(* does to the payload chunks, for every modulus, window and bound, whatever *)
(* is lost, repeated or acknowledged late.                                   *)

-----------------------------------------------------------------------------
(* Arithmetic.                                                               *)

LEMMA ModShift ==
  ASSUME NEW m \in Nat \ {0}, NEW x \in Int, NEW k \in Int
  PROVE  (x + m * k) % m = x % m
<1>1. PICK q \in Int : x = (m * q) + (x % m)
  BY Division
<1>2. x % m \in 0..(m - 1)
  BY Division
<1>3. m * (q + k) = m * q + m * k /\ m * q \in Int /\ m * k \in Int
  BY SMT
<1> DEFINE v == x % m
           w == q + k
<1>4. v \in 0..(m - 1) /\ w \in Int /\ m * w \in Int
  BY <1>2, SMT
<1>5. x + m * k = (m * w) + v
  BY <1>1, <1>2, <1>3, SMT
<1> HIDE DEF v, w
<1>6. ((m * w) + v) % m = v
  BY <1>4, DivisionUnique
<1> QED
  BY <1>5, <1>6 DEF v

\* A sum and a difference may be taken before or after wrapping.
LEMMA ModSum ==
  ASSUME NEW m \in Nat \ {0}, NEW x \in Int, NEW y \in Int
  PROVE  ((x % m) + y) % m = (x + y) % m
<1>1. PICK q \in Int : x = (m * q) + (x % m)
  BY Division
<1> DEFINE v == x % m
           k == 0 - q
<1>2. v \in Int /\ k \in Int /\ m * k \in Int /\ m * q \in Int
  <2>1. x % m \in 0..(m - 1)
    BY Division
  <2> QED
    BY <2>1, SMT
<1>3. m * k = 0 - m * q
  BY SMT
<1>4. x = (m * q) + v
  BY <1>1
<1> HIDE DEF v, k
<1>5. v + y = (x + y) + m * k /\ x + y \in Int
  BY <1>2, <1>3, <1>4, SMT
<1>6. ((x + y) + m * k) % m = (x + y) % m
  BY <1>2, <1>5, ModShift
<1> QED
  BY <1>5, <1>6 DEF v

LEMMA ModDifference ==
  ASSUME NEW m \in Nat \ {0}, NEW x \in Int, NEW y \in Int
  PROVE  ((x % m) - (y % m)) % m = (x - y) % m
<1>1. PICK q \in Int : y = (m * q) + (y % m)
  BY Division
<1> DEFINE u == x % m
           v == y % m
<1>2. u \in Int /\ v \in Int /\ m * q \in Int
  <2>1. x % m \in 0..(m - 1) /\ y % m \in 0..(m - 1)
    BY Division
  <2> QED
    BY <2>1, SMT
<1>3. y = (m * q) + v
  BY <1>1
<1> HIDE DEF v
<1>4. u - v = (u - y) + m * q /\ u - y \in Int
  BY <1>2, <1>3, SMT
<1>5. (u - v) % m = (u - y) % m
  BY <1>4, ModShift
<1>6. (u + (0 - y)) % m = (x + (0 - y)) % m
  <2>1. \A z \in Int : ((x % m) + z) % m = (x + z) % m
    BY ModSum
  <2>2. 0 - y \in Int
    OBVIOUS
  <2> QED
    BY <2>1, <2>2 DEF u
<1>7. u + (0 - y) = u - y /\ x + (0 - y) = x - y
  BY <1>2, SMT
<1> QED
  BY <1>5, <1>6, <1>7 DEF u, v

LEMMA ModSmall ==
  ASSUME NEW m \in Nat \ {0}, NEW x \in Int
  PROVE  /\ x \in 0..(m - 1) => x % m = x
         /\ x \in (0 - m)..(0 - 1) => x % m = x + m
<1>1. ASSUME x \in 0..(m - 1) PROVE x % m = x
  <2>1. ((m * 0) + x) % m = x
    BY <1>1, DivisionUnique
  <2>2. (m * 0) + x = x
    BY SMT
  <2> QED
    BY <2>1, <2>2
<1>2. ASSUME x \in (0 - m)..(0 - 1) PROVE x % m = x + m
  <2>1. x + m \in 0..(m - 1)
    BY <1>2, SMT
  <2>2. ((m * (0 - 1)) + (x + m)) % m = x + m
    BY <2>1, DivisionUnique
  <2>3. (m * (0 - 1)) + (x + m) = x
    BY SMT
  <2> QED
    BY <2>2, <2>3
<1> QED
  BY <1>1, <1>2

-----------------------------------------------------------------------------
(* PSNs counted from a base l.                                               *)

LEMMA Halves == Half \in Nat /\ Half >= 2 /\ Modulus = Half + Half
BY LinkAssumption, SMT DEF LinkAssumption, Half

LEMMA PlusPlus ==
  ASSUME NEW l \in Int, NEW c \in Int, NEW j \in Int
  PROVE  Plus(Plus(l, c), j) = Plus(l, c + j)
<1>1. Modulus \in Nat \ {0} /\ l + c \in Int /\ (l + c) + j = l + (c + j)
  BY Constants, SMT
<1>2. (((l + c) % Modulus) + j) % Modulus = ((l + c) + j) % Modulus
  BY <1>1, ModSum
<1> QED
  BY <1>1, <1>2 DEF Plus

LEMMA PlusAhead ==
  ASSUME NEW l \in Int, NEW c \in Int, NEW d \in Int
  PROVE  Ahead(Plus(l, c), Plus(l, d)) = (c - d) % Modulus
<1> DEFINE x == l + c
           y == l + d
<1>1. Modulus \in Nat \ {0} /\ x \in Int /\ y \in Int /\ x - y = c - d
  BY Constants, SMT
<1> HIDE DEF x, y
<1>2. ((x % Modulus) - (y % Modulus)) % Modulus = (x - y) % Modulus
  BY <1>1, ModDifference
<1> QED
  BY <1>1, <1>2 DEF Plus, Ahead, x, y

\* Every PSN is as far ahead of another as it is ahead of it.
LEMMA PlusOwn ==
  ASSUME NEW l \in Psn, NEW s \in Psn
  PROVE  s = Plus(l, Ahead(s, l)) /\ l = Plus(l, 0)
<1>1. Modulus \in Nat \ {0} /\ l \in Int /\ s \in Int /\ s - l \in Int /\ (s - l) + l = s /\ l + 0 = l
      /\ s \in 0..(Modulus - 1) /\ l \in 0..(Modulus - 1)
  BY Constants, SMT DEF Psn
<1>2. (((s - l) % Modulus) + l) % Modulus = ((s - l) + l) % Modulus
  BY <1>1, ModSum
<1>3. s % Modulus = s /\ l % Modulus = l
  BY <1>1, ModSmall
<1> DEFINE d == (s - l) % Modulus
<1>4. d \in Int
  <2>1. d \in 0..(Modulus - 1)
    BY <1>1, Division
  <2> QED
    BY <2>1
<1>5. (d + l) % Modulus = s
  BY <1>1, <1>2, <1>3
<1> HIDE DEF d
<1>6. d + l = l + d
  BY <1>1, <1>4, SMT
<1>7. (l + d) % Modulus = s
  BY <1>5, <1>6
<1> QED
  BY <1>1, <1>3, <1>7 DEF Plus, Ahead, d

\* Less than a lap ahead, the difference of the PSNs is that of the numbers.
LEMMA PlusDelta ==
  ASSUME NEW l \in Int, NEW c \in Int, NEW d \in Int
  PROVE  /\ c - d \in 0..(Modulus - 1) => Ahead(Plus(l, c), Plus(l, d)) = c - d
         /\ c - d \in (0 - Modulus)..(0 - 1) => Ahead(Plus(l, c), Plus(l, d)) = c - d + Modulus
<1>1. Modulus \in Nat \ {0} /\ c - d \in Int
  BY Constants, SMT
<1> QED
  BY <1>1, PlusAhead, ModSmall

\* A lap further is the same PSN.
LEMMA PlusLap ==
  ASSUME NEW l \in Int
  PROVE  Plus(l, Modulus) = Plus(l, 0)
<1>1. Modulus \in Nat \ {0} /\ 1 \in Int
  BY Constants
<1>2. (l + Modulus * 1) % Modulus = l % Modulus
  BY <1>1, ModShift, Zenon
<1>3. Modulus * 1 = Modulus /\ l + 0 = l
  BY <1>1, SMT
<1> QED
  BY <1>2, <1>3 DEF Plus

\* Two numbers less than a lap apart have different PSNs.
LEMMA PlusSame ==
  ASSUME NEW l \in Int, NEW c \in Int, NEW d \in Int, Plus(l, c) = Plus(l, d),
         c - d < Modulus, d - c < Modulus
  PROVE  c = d
<1>1. Ahead(Plus(l, c), Plus(l, c)) = c - c
  <2>1. c - c \in 0..(Modulus - 1)
    BY Constants, SMT
  <2> QED
    BY <2>1, PlusDelta
<1>2. /\ c - d \in 0..(Modulus - 1) => Ahead(Plus(l, c), Plus(l, d)) = c - d
      /\ c - d \in (0 - Modulus)..(0 - 1) => Ahead(Plus(l, c), Plus(l, d)) = c - d + Modulus
  BY PlusDelta
<1>3. Modulus \in Nat
  BY Constants
<1> QED
  BY <1>1, <1>2, <1>3, SMT

-----------------------------------------------------------------------------
(* The out-of-order buffer.                                                  *)

\* The buffer of one end.
BufferInv(e) ==
  \A s \in Buffered(outOfOrder[e]) : Ahead(s, lastRecv[e]) \in 2..(Window[e] - 1)

\* A run that overtakes the front of the buffer takes all of it along.
LEMMA BufferRun ==
  ASSUME TypeOK, NEW e \in Side, BufferInv(e), NEW p \in Packet, Ahead(p.seq, lastRecv[e]) = 1,
         AcceptNext(e, p)
  PROVE  BufferInv(e)'
<1> DEFINE l == lastRecv[e]
           buf == Buffered(outOfOrder[e])
           W == Window[e]
<1>1. l \in Psn /\ l \in Int /\ p.seq \in Psn /\ W \in Nat /\ W < Modulus /\ Modulus \in Nat
  <2>1. l \in Psn /\ p.seq \in Psn
    BY DEF TypeOK, Packet
  <2>2. W \in Nat /\ W < Modulus /\ Modulus \in Nat
    BY Constants
  <2> QED
    BY <2>1, <2>2 DEF Psn
<1>2. p.seq = Plus(l, 1)
  BY <1>1, PlusOwn
<1>3. PICK k \in 0..(Modulus - 1) :
        /\ Following(p.seq, k) \subseteq buf
        /\ Plus(p.seq, k + 1) \notin buf
        /\ lastRecv' = [lastRecv EXCEPT ![e] = Plus(p.seq, k)]
        /\ outOfOrder' = [outOfOrder EXCEPT ![e] =
             [s \in Psn |-> IF s \in Following(p.seq, k) THEN None ELSE @[s]]]
  BY DEF AcceptNext
<1>4. k \in Int /\ k >= 0 /\ k < Modulus
  BY <1>1, SMT
<1>5. lastRecv'[e] = Plus(l, k + 1) /\ Plus(p.seq, k + 1) = Plus(l, k + 2)
  <2> HIDE DEF l, buf, W
  <2>1. Plus(Plus(l, 1), k) = Plus(l, 1 + k) /\ Plus(Plus(l, 1), k + 1) = Plus(l, 1 + (k + 1))
    <3>1. 1 \in Int /\ k + 1 \in Int
      BY <1>4, SMT
    <3> QED
      BY <1>1, <1>4, <3>1, PlusPlus
  <2>2. 1 + k = k + 1 /\ 1 + (k + 1) = k + 2
    BY <1>4, SMT
  <2>3. lastRecv'[e] = Plus(p.seq, k)
    BY <1>3 DEF TypeOK
  <2> QED
    BY <1>2, <2>1, <2>2, <2>3
<1>6. ASSUME NEW j \in 1..k
      PROVE  Plus(l, j + 1) \in Following(p.seq, k) /\ Plus(l, j + 1) \in buf
  <2>1. j \in Int /\ 1 \in Int /\ 1 + j = j + 1
    BY <1>4, SMT
  <2>2. Plus(Plus(l, 1), j) = Plus(l, 1 + j)
    <3> HIDE DEF l
    <3> QED
      BY <1>1, <2>1, PlusPlus
  <2> QED
    BY <1>2, <1>3, <2>1, <2>2 DEF Following
\* The run ends inside the window.
<1>7. k + 1 < Modulus
  <2> SUFFICES ASSUME k + 1 >= Modulus
               PROVE  FALSE
    BY <1>1, <1>4
  <2>1. k \in 1..k /\ k + 1 = Modulus
    BY <1>1, <1>4, Constants, LinkAssumption, SMT DEF LinkAssumption
  <2>2. Ahead(Plus(l, k + 1), l) \in 2..(W - 1)
    BY <1>6, <2>1 DEF BufferInv
  <2>3. Plus(l, Modulus) = Plus(l, 0)
    BY <1>1, PlusLap
  <2>4. Ahead(Plus(l, 0), Plus(l, 0)) = 0 - 0
    <3>1. 0 - 0 \in 0..(Modulus - 1)
      BY Constants, SMT
    <3> QED
      BY <1>1, <3>1, PlusDelta
  <2> QED
    BY <1>1, <2>1, <2>2, <2>3, <2>4, PlusOwn, SMT
<1>8. ASSUME NEW s \in Psn, outOfOrder'[e][s] # None
      PROVE  Ahead(s, lastRecv'[e]) \in 2..(W - 1)
  <2> DEFINE D == Ahead(s, l)
  <2>1. s \in buf /\ s \notin Following(p.seq, k)
    BY <1>3, <1>8 DEF TypeOK, Buffered
  <2>2. D \in 2..(W - 1) /\ s = Plus(l, D)
    BY <1>1, <1>8, <2>1, PlusOwn DEF BufferInv
  <2> HIDE DEF D
  <2>3. D \in Int
    BY <2>2
  <2>4. ~ (D - 1 \in 1..k)
    <3> SUFFICES ASSUME D - 1 \in 1..k PROVE FALSE
      OBVIOUS
    <3>1. Plus(l, (D - 1) + 1) \in Following(p.seq, k) /\ (D - 1) + 1 = D
      BY <1>6, <2>3
    <3> QED
      BY <2>1, <2>2, <3>1
  <2>5. D # k + 2
    BY <1>3, <1>5, <2>1, <2>2
  <2>6. D - (k + 1) \in 2..(W - 1)
    BY <1>1, <1>4, <2>2, <2>3, <2>4, <2>5, SMT
  <2>7. Ahead(Plus(l, D), Plus(l, k + 1)) = D - (k + 1)
    <3>1. D - (k + 1) \in 0..(Modulus - 1) /\ k + 1 \in Int
      BY <1>1, <1>4, <2>6, SMT
    <3> QED
      BY <1>1, <2>3, <3>1, PlusDelta
  <2> QED
    BY <1>5, <2>2, <2>6, <2>7
<1> QED
  BY <1>8 DEF BufferInv, Buffered

\* Every step keeps the buffers ahead.
LEMMA BufferStep ==
  ASSUME TypeOK, \A f \in Side : BufferInv(f), [Next]_vars
  PROVE  \A f \in Side : BufferInv(f)'
<1>1. ASSUME UNCHANGED <<lastRecv, outOfOrder>> PROVE \A f \in Side : BufferInv(f)'
  BY <1>1 DEF BufferInv, Buffered
<1>2. ASSUME NEW e \in Side, DecodeData(e) PROVE \A f \in Side : BufferInv(f)'
  <2> DEFINE p == Head(chan[e])
             delta == Ahead(p.seq, lastRecv[e])
  <2>1. p \in Packet /\ Accept(e, p)
    BY <1>2, ReadingType DEF DecodeData
  <2>2. p.seq \in Psn /\ p.chunk \in Nat /\ delta \in Psn
    <3>1. p.seq \in Psn /\ p.chunk \in Nat /\ lastRecv[e] \in Psn
      BY <2>1 DEF Packet, TypeOK
    <3>2. p.seq \in Int /\ lastRecv[e] \in Int
      BY <3>1 DEF Psn
    <3> HIDE DEF p
    <3> QED
      BY <3>1, <3>2, PsnClosed
  <2> HIDE DEF p
  <2>3. CASE delta = 1 /\ AcceptNext(e, p)
    <3>1. BufferInv(e)'
      BY <2>1, <2>3, BufferRun
    <3>2. \A f \in Side \ {e} : lastRecv'[f] = lastRecv[f] /\ outOfOrder'[f] = outOfOrder[f]
      BY <2>3 DEF AcceptNext, TypeOK
    <3> QED
      BY <3>1, <3>2 DEF BufferInv, Buffered
  <2>4. CASE /\ delta > 1 /\ delta < Window[e]
             /\ outOfOrder' = [outOfOrder EXCEPT ![e][p.seq] = p.chunk]
             /\ lastRecv' = lastRecv
    <3>1. delta \in 2..(Window[e] - 1)
      BY <2>2, <2>4, Constants, SMT DEF Psn
    <3>2. /\ \A f \in Side \ {e} : outOfOrder'[f] = outOfOrder[f]
          /\ \A s \in Psn \ {p.seq} : outOfOrder'[e][s] = outOfOrder[e][s]
      BY <2>4 DEF TypeOK
    <3> QED
      BY <2>4, <3>1, <3>2 DEF BufferInv, Buffered
  <2> QED
    BY <1>1, <2>1, <2>3, <2>4 DEF Accept, receiver
<1>3. ASSUME NEW e \in Side,
             \/ Read(e) \/ DecodeAck(e) \/ DecodeEak(e) \/ DecodeRst(e) \/ DropCorrupt(e)
             \/ Flush(e) \/ Send(e) \/ RetransmitFire(e) \/ Resend(e)
             \/ GiveUp(e) \/ Disconnect(e) \/ WriteRst(e)
      PROVE  UNCHANGED <<lastRecv, outOfOrder>>
  BY <1>3 DEF Read, DecodeAck, DecodeEak, DecodeRst, DropCorrupt, Flush, Send, RetransmitFire,
              Resend, GiveUp, Disconnect, LeaveLoop, WriteRst, receiver
<1> QED
  BY <1>1, <1>2, <1>3 DEF Next, Decode, vars

\* Nothing is left in the out-of-order buffer by the run that overtakes it,
\* whatever the channel loses or repeats (handle_inbound_data).
THEOREM BufferAhead == Spec => []BufferedAhead
<1> DEFINE Inv == TypeOK /\ \A e \in Side : BufferInv(e)
<1>1. Init => Inv
  BY InitType DEF Init, BufferInv, Buffered
<1>2. Inv /\ [Next]_vars => Inv'
  BY NextType, BufferStep
<1>3. Inv => BufferedAhead
  BY DEF BufferInv, BufferedAhead
<1> QED
  BY <1>1, <1>2, <1>3, PTL DEF Spec

-----------------------------------------------------------------------------
(* The stream from e to its peer.                                            *)

\* The bounds inside which a u8 tells an old ack from a new one: no window above
\* half a lap, and an end that is itself acknowledging data sends no more than
\* half a lap.  (A stream one way may go round the PSNs as often as it likes.)
StreamFits ==
  \A e \in Side : Window[e] <= Half /\ (Submissions[e] <= Half \/ Submissions[Peer(e)] = 0)

\* The PSN of chunk c.
Num(e, c) == Plus(InitialPsn[e], c)

\* Chunks written at least once; chunks no longer held; chunks received.
Sent(e) == submitted[e] - Len(pending[e])
Base(e) == Sent(e) - Len(unacked[e])
Got(e)  == Len(delivered[Peer(e)])

\* The peer of e sends no data.
OneWay(e) == Submissions[Peer(e)] = 0

\* What e holds of its chunks: those waiting, then those sent, are consecutive.
SendInv(e) ==
  /\ submitted[e] <= Submissions[e]
  /\ Len(pending[e]) <= submitted[e]
  /\ \A i \in 1..Len(pending[e]) : pending[e][i] = Sent(e) + i
  /\ lastSent[e] = Num(e, Sent(e))
  /\ Len(unacked[e]) <= Window[e] /\ Len(unacked[e]) <= Sent(e)
  /\ \A i \in 1..Len(unacked[e]) :
       /\ unacked[e][i].kind = "data"
       /\ unacked[e][i].chunk = Base(e) + i
       /\ unacked[e][i].seq = Num(e, Base(e) + i)

\* What its peer has of them.
RecvInv(e) ==
  /\ \A i \in 1..Got(e) : delivered[Peer(e)][i] = i
  /\ lastRecv[Peer(e)] = Num(e, Got(e))
  /\ Base(e) <= Got(e) /\ Got(e) <= Sent(e)

KeptInv(e) ==
  \A s \in Psn : outOfOrder[Peer(e)][s] # None =>
    /\ s = Num(e, outOfOrder[Peer(e)][s])
    /\ outOfOrder[Peer(e)][s] \in (Got(e) + 2)..Sent(e)

\* p carries a chunk of e under its PSN, and is less than a window behind chunk n.
Carries(e, p, sent) == p.kind = "data" => p.chunk \in 1..sent /\ p.seq = Num(e, p.chunk)
Within(e, p, n)     == p.kind = "data" => n < p.chunk + Window[e]

\* A data packet on the wire is less than a window behind everything that will
\* have been received when it arrives, because the channel keeps the order.
Wire(e, q, sent, got, buf) ==
  \A i \in 1..Len(q) :
    /\ Carries(e, q[i], sent)
    /\ Within(e, q[i], got)
    /\ \A s \in Psn : Within(e, q[i], buf[s])
    /\ \A j \in 1..(i - 1) : q[j].kind = "data" => Within(e, q[i], q[j].chunk)

\* p acknowledges the first a chunks of e.
Tells(e, p, a) == p.kind # "rst" => p.ack = Num(e, a)

\* Every packet towards e acknowledges some chunks that were received; while the
\* peer sends no data, they acknowledge more and more, and never less than e knows.
Acks(e, q, base, got) ==
  \E f \in [1..Len(q) -> 0..got] : \A i \in 1..Len(q) :
    /\ Tells(e, q[i], f[i])
    /\ OneWay(e) => base <= f[i] /\ \A j \in 1..(i - 1) : f[j] <= f[i]

\* A packet the peer may send again acknowledges chunks that were received.
OldAcks(e) ==
  \A i \in 1..Len(unacked[Peer(e)]) : \E a \in 0..Got(e) : Tells(e, unacked[Peer(e)][i], a)

Direction(e) ==
  /\ SendInv(e)
  /\ RecvInv(e)
  /\ KeptInv(e)
  /\ Wire(e, chan[Peer(e)], Sent(e), Got(e), outOfOrder[Peer(e)])
  /\ Acks(e, chan[e], Base(e), Got(e))
  /\ OldAcks(e)

-----------------------------------------------------------------------------
(* The packets on the wire.                                                  *)

\* After packet p the last chunk received is p's, or one that was buffered, or the
\* same; and the buffer has gained nothing but p's chunk.
GotFrom(p, got, buf, got1) ==
  got1 = got \/ (p.kind = "data" /\ got1 = p.chunk) \/ \E s \in Psn : got1 = buf[s]
KeptFrom(p, buf, buf1) ==
  \A s \in Psn : buf1[s] = buf[s] \/ buf1[s] = None \/ (p.kind = "data" /\ buf1[s] = p.chunk)

\* The receiver takes the packet at the front.
LEMMA WireReceive ==
  ASSUME NEW e \in Side, NEW q \in Seq(Packet), q # <<>>, NEW sent \in Nat, NEW got \in Nat,
         NEW buf \in [Psn -> Nat], Wire(e, q, sent, got, buf),
         NEW got1 \in Nat, NEW buf1 \in [Psn -> Nat],
         GotFrom(Head(q), got, buf, got1), KeptFrom(Head(q), buf, buf1)
  PROVE  Wire(e, Tail(q), sent, got1, buf1)
<1>1. Len(q) \in Nat /\ Len(Tail(q)) = Len(q) - 1 /\ Head(q) = q[1]
      /\ \A i \in 1..Len(Tail(q)) : Tail(q)[i] = q[i + 1]
  BY HeadTailProperties, LenProperties
<1>2. SUFFICES ASSUME NEW i \in 1..Len(Tail(q))
               PROVE  /\ Carries(e, q[i + 1], sent)
                      /\ Within(e, q[i + 1], got1)
                      /\ \A s \in Psn : Within(e, q[i + 1], buf1[s])
                      /\ \A j \in 1..(i - 1) :
                           Tail(q)[j].kind = "data" => Within(e, q[i + 1], Tail(q)[j].chunk)
  BY <1>1 DEF Wire
<1> DEFINE p == q[i + 1]
<1>3. i \in Nat /\ i >= 1 /\ i + 1 \in 1..Len(q)
  BY <1>1, SMT
<1>4. /\ Carries(e, p, sent)
      /\ Within(e, p, got)
      /\ \A s \in Psn : Within(e, p, buf[s])
      /\ \A j \in 1..((i + 1) - 1) : q[j].kind = "data" => Within(e, p, q[j].chunk)
  BY <1>3 DEF Wire
<1>5. \A j \in 1..i : q[j].kind = "data" => Within(e, p, q[j].chunk)
  <2>1. (i + 1) - 1 = i
    BY <1>3, SMT
  <2> QED
    BY <1>4, <2>1
<1>6. Head(q).kind = "data" => Within(e, p, Head(q).chunk)
  <2>1. 1 \in 1..i
    BY <1>3, SMT
  <2> QED
    BY <1>1, <1>5, <2>1
<1>7. Within(e, p, None)
  <2>1. Window[e] \in Nat \ {0}
    BY Constants
  <2> HIDE DEF p
  <2> QED
    BY <1>4, <2>1, SMT DEF Carries, Within, None
<1>8. \A j \in 1..(i - 1) : Tail(q)[j].kind = "data" => Within(e, p, Tail(q)[j].chunk)
  <2> TAKE j \in 1..(i - 1)
  <2>1. j \in 1..Len(Tail(q)) /\ j + 1 \in 1..i
    BY <1>1, <1>3, SMT
  <2> QED
    BY <1>1, <1>5, <2>1
<1> HIDE DEF p
<1>9. Within(e, p, got1)
  BY <1>4, <1>6 DEF GotFrom
<1>10. \A s \in Psn : Within(e, p, buf1[s])
  BY <1>4, <1>6, <1>7 DEF KeptFrom
<1> QED
  BY <1>4, <1>8, <1>9, <1>10 DEF p

\* The sender writes packets that hold chunks of its window.
Fresh(e, more, sent) ==
  \A i \in 1..Len(more) : Carries(e, more[i], sent) /\ Within(e, more[i], sent)

LEMMA WireWrite ==
  ASSUME NEW e \in Side, NEW q \in Seq(Packet), NEW more \in Seq(Packet),
         NEW sent \in Nat, NEW sent1 \in Nat, sent <= sent1, NEW got \in Nat, got <= sent1,
         NEW buf \in [Psn -> Nat], \A s \in Psn : buf[s] <= sent1,
         Wire(e, q, sent, got, buf), Fresh(e, more, sent1)
  PROVE  Wire(e, q \o more, sent1, got, buf)
<1> DEFINE z == q \o more
           n == Len(q)
<1>1. z \in Seq(Packet) /\ n \in Nat /\ Len(more) \in Nat /\ Len(z) = n + Len(more)
      /\ (\A i \in 1..n : z[i] = q[i])
      /\ \A i \in 1..Len(more) : z[n + i] = more[i]
  BY LenProperties, ConcatProperties
<1>2. Window[e] \in Nat
  BY Constants
<1> HIDE DEF z
<1>3. \A i \in 1..Len(z) : z[i] \in Packet
  BY <1>1, ElementOfSeq
<1>4. \A i \in 1..Len(z) : Carries(e, z[i], sent1)
  <2> TAKE i \in 1..Len(z)
  <2>1. CASE i \in 1..n
    <3>1. Carries(e, q[i], sent)
      BY <2>1 DEF Wire
    <3> QED
      BY <1>1, <2>1, <3>1, SMT DEF Carries
  <2>2. CASE i \notin 1..n
    <3>1. i - n \in 1..Len(more) /\ n + (i - n) = i
      BY <1>1, <2>2, SMT
    <3> QED
      BY <1>1, <3>1 DEF Fresh
  <2> QED
    BY <2>1, <2>2
<1>5. ASSUME NEW i \in 1..Len(z), i \notin 1..n, NEW m \in Nat, m <= sent1
      PROVE  Within(e, z[i], m)
  <2>1. i - n \in 1..Len(more) /\ n + (i - n) = i
    BY <1>1, <1>5, SMT
  <2>2. Within(e, z[i], sent1)
    BY <1>1, <2>1 DEF Fresh
  <2>3. z[i].chunk \in Nat
    BY <1>3 DEF Packet
  <2> QED
    BY <1>2, <1>5, <2>2, <2>3, SMT DEF Within
<1>6. SUFFICES ASSUME NEW i \in 1..Len(z)
               PROVE  /\ Within(e, z[i], got)
                      /\ \A s \in Psn : Within(e, z[i], buf[s])
                      /\ \A j \in 1..(i - 1) : z[j].kind = "data" => Within(e, z[i], z[j].chunk)
  BY <1>4 DEF Wire, z
<1>7. \A j \in 1..(i - 1) : j \in 1..Len(z)
  BY <1>1, SMT
<1>8. CASE i \in 1..n
  <2>1. /\ Within(e, q[i], got)
        /\ \A s \in Psn : Within(e, q[i], buf[s])
        /\ \A j \in 1..(i - 1) : q[j].kind = "data" => Within(e, q[i], q[j].chunk)
    BY <1>8 DEF Wire
  <2>2. \A j \in 1..(i - 1) : j \in 1..n
    BY <1>1, <1>8, SMT
  <2> QED
    BY <1>1, <1>8, <2>1, <2>2
<1>9. CASE i \notin 1..n
  <2>1. \A j \in 1..(i - 1) : z[j].kind = "data" => z[j].chunk \in Nat /\ z[j].chunk <= sent1
    <3> TAKE j \in 1..(i - 1)
    <3>1. Carries(e, z[j], sent1)
      BY <1>4, <1>7
    <3> QED
      BY <3>1, SMT DEF Carries
  <2> QED
    BY <1>5, <1>9, <2>1
<1> QED
  BY <1>8, <1>9

-----------------------------------------------------------------------------
(* Acknowledgements on the wire.                                             *)

\* The one at the front tells of some received chunks a; those behind it tell, in
\* a one-way stream, of no fewer.
LEMMA AcksRead ==
  ASSUME NEW e \in Side, NEW q \in Seq(Packet), q # <<>>, NEW base \in Int, NEW got \in Nat,
         Acks(e, q, base, got)
  PROVE  \E a \in 0..got :
           /\ Tells(e, Head(q), a)
           /\ OneWay(e) => base <= a
           /\ \A b \in Int : (OneWay(e) => b <= a) => Acks(e, Tail(q), b, got)
<1>1. Len(q) \in Nat /\ Len(q) >= 1 /\ Len(Tail(q)) = Len(q) - 1 /\ Head(q) = q[1]
      /\ \A i \in 1..Len(Tail(q)) : Tail(q)[i] = q[i + 1]
  <2>1. Len(q) \in Nat /\ Len(q) # 0
    BY LenProperties, EmptySeq
  <2> QED
    BY <2>1, HeadTailProperties, SMT
<1>2. PICK f \in [1..Len(q) -> 0..got] : \A i \in 1..Len(q) :
        /\ Tells(e, q[i], f[i])
        /\ OneWay(e) => base <= f[i] /\ \A j \in 1..(i - 1) : f[j] <= f[i]
  BY DEF Acks
<1>3. 1 \in 1..Len(q)
  BY <1>1, SMT
<1>4. f[1] \in 0..got /\ Tells(e, Head(q), f[1]) /\ (OneWay(e) => base <= f[1])
  BY <1>1, <1>2, <1>3
<1>5. ASSUME NEW b \in Int, OneWay(e) => b <= f[1] PROVE Acks(e, Tail(q), b, got)
  <2> DEFINE g == [i \in 1..Len(Tail(q)) |-> f[i + 1]]
  <2>1. \A i \in 1..Len(Tail(q)) : i + 1 \in 1..Len(q) /\ 1 \in 1..((i + 1) - 1)
    BY <1>1, SMT
  <2>2. g \in [1..Len(Tail(q)) -> 0..got] /\ \A i \in 1..Len(Tail(q)) : g[i] = f[i + 1]
    BY <2>1
  <2> HIDE DEF g
  <2>3. \A i \in 1..Len(Tail(q)) : Tells(e, Tail(q)[i], g[i])
    BY <1>1, <1>2, <2>1, <2>2
  <2>4. ASSUME OneWay(e), NEW i \in 1..Len(Tail(q))
        PROVE  b <= g[i] /\ \A j \in 1..(i - 1) : g[j] <= g[i]
    <3>1. \A j \in 1..((i + 1) - 1) : f[j] <= f[i + 1]
      BY <1>2, <2>1, <2>4
    <3>2. \A j \in 1..(i - 1) : j + 1 \in 1..((i + 1) - 1) /\ j \in 1..Len(Tail(q))
      BY <1>1, SMT
    <3>3. f[1] <= f[i + 1] /\ f[1] \in Int /\ f[i + 1] \in Int
      BY <1>4, <2>1, <3>1
    <3>4. b <= f[i + 1]
      BY <1>5, <2>4, <3>3, SMT
    <3> QED
      BY <2>2, <3>1, <3>2, <3>4
  <2> QED
    BY <2>2, <2>3, <2>4 DEF Acks
<1> QED
  BY <1>4, <1>5

\* The peer writes packets that tell of chunks received, all of them in a one-way
\* stream.
LEMMA AcksWrite ==
  ASSUME NEW e \in Side, NEW q \in Seq(Packet), NEW more \in Seq(Packet),
         NEW base \in Int, NEW got \in Nat, NEW got1 \in Nat, base <= got, got <= got1,
         Acks(e, q, base, got),
         \A i \in 1..Len(more) : \E a \in 0..got1 :
           Tells(e, more[i], a) /\ (OneWay(e) => a = got1)
  PROVE  Acks(e, q \o more, base, got1)
<1> DEFINE z == q \o more
           n == Len(q)
<1>1. z \in Seq(Packet) /\ n \in Nat /\ Len(more) \in Nat /\ Len(z) = n + Len(more)
      /\ (\A i \in 1..n : z[i] = q[i])
      /\ \A i \in 1..Len(more) : z[n + i] = more[i]
  BY LenProperties, ConcatProperties
<1> HIDE DEF z
<1>2. PICK f \in [1..n -> 0..got] : \A i \in 1..n :
        /\ Tells(e, q[i], f[i])
        /\ OneWay(e) => base <= f[i] /\ \A j \in 1..(i - 1) : f[j] <= f[i]
  BY DEF Acks
<1> DEFINE Told(i) == CHOOSE a \in 0..got1 : Tells(e, more[i], a) /\ (OneWay(e) => a = got1)
           g == [i \in 1..Len(z) |-> IF i \in 1..n THEN f[i] ELSE Told(i - n)]
<1>3. \A i \in 1..Len(more) :
        /\ Told(i) \in 0..got1
        /\ Tells(e, more[i], Told(i))
        /\ OneWay(e) => Told(i) = got1
  OBVIOUS
<1> HIDE DEF Told
<1>4. \A i \in 1..n : f[i] \in 0..got /\ f[i] \in 0..got1 /\ f[i] <= got1
  <2>1. \A x \in 0..got : x \in 0..got1 /\ x <= got1
    BY SMT
  <2> QED
    BY <2>1
<1>5. \A i \in 1..Len(z) : i \notin 1..n => i - n \in 1..Len(more) /\ n + (i - n) = i
  BY <1>1, SMT
<1>6. g \in [1..Len(z) -> 0..got1]
  BY <1>3, <1>4, <1>5
<1>7. /\ \A i \in 1..n : i \in 1..Len(z) /\ g[i] = f[i]
      /\ \A i \in 1..Len(z) : i \notin 1..n => g[i] = Told(i - n)
  <2>1. \A i \in 1..n : i \in 1..Len(z)
    BY <1>1, SMT
  <2> QED
    BY <2>1
<1> HIDE DEF g
<1>8. \A i \in 1..Len(z) : Tells(e, z[i], g[i])
  <2> TAKE i \in 1..Len(z)
  <2>1. CASE i \in 1..n
    BY <1>1, <1>2, <1>7, <2>1
  <2>2. CASE i \notin 1..n
    <3>1. i - n \in 1..Len(more) /\ z[n + (i - n)] = more[i - n] /\ n + (i - n) = i
      BY <1>1, <1>5, <2>2
    <3> QED
      BY <1>3, <1>7, <2>2, <3>1
  <2> QED
    BY <2>1, <2>2
<1>9. ASSUME OneWay(e), NEW i \in 1..Len(z)
      PROVE  base <= g[i] /\ \A j \in 1..(i - 1) : g[j] <= g[i]
  <2>1. CASE i \in 1..n
    <3>1. \A j \in 1..(i - 1) : j \in 1..n
      BY <1>1, SMT, <2>1
    <3>2. base <= f[i] /\ \A j \in 1..(i - 1) : f[j] <= f[i]
      BY <1>2, <1>9, <2>1
    <3> QED
      BY <1>7, <2>1, <3>1, <3>2
  <2>2. CASE i \notin 1..n
    <3>1. g[i] = got1
      BY <1>3, <1>5, <1>7, <1>9, <2>2
    <3>2. \A j \in 1..(i - 1) : j \in 1..Len(z)
      BY <1>1, SMT
    <3>3. \A j \in 1..(i - 1) : g[j] \in 0..got1
      BY <1>6, <3>2
    <3> QED
      BY <3>1, <3>3, SMT
  <2> QED
    BY <2>1, <2>2
<1> QED
  BY <1>6, <1>8, <1>9 DEF Acks, z

-----------------------------------------------------------------------------
(* What an acknowledgement covers.                                           *)

\* At most half a lap ahead of it, a chunk is covered by an ack only when the ack
\* tells of it.
LEMMA CoversTold ==
  ASSUME NEW e \in Side, NEW a \in Int, NEW n \in Int, n - a <= Half,
         Covers(Num(e, a), Num(e, n))
  PROVE  n <= a
<1>1. InitialPsn[e] \in Int
  BY Constants DEF Psn
<1>2. /\ a - n \in 0..(Modulus - 1) => Ahead(Num(e, a), Num(e, n)) = a - n
      /\ a - n \in (0 - Modulus)..(0 - 1) => Ahead(Num(e, a), Num(e, n)) = a - n + Modulus
  BY <1>1, PlusDelta DEF Num
<1> DEFINE d == Ahead(Num(e, a), Num(e, n))
<1>3. d < Half
  BY DEF Covers
<1> HIDE DEF d
<1>4. SUFFICES ASSUME n > a PROVE FALSE
  OBVIOUS
<1>5. a - n \in (0 - Modulus)..(0 - 1)
  BY <1>4, Halves, SMT
<1>6. d = a - n + Modulus
  BY <1>2, <1>5 DEF d
<1> QED
  BY <1>3, <1>6, Halves, SMT

\* The numbers of one direction.
LEMMA Numbers ==
  ASSUME TypeOK, NEW e \in Side
  PROVE  /\ submitted[e] \in Nat /\ Len(pending[e]) \in Nat /\ Len(unacked[e]) \in Nat
         /\ Sent(e) \in Int /\ Base(e) \in Int /\ Got(e) \in Nat
         /\ Window[e] \in Nat /\ Submissions[e] \in Nat /\ InitialPsn[e] \in Int
         /\ Peer(e) \in Side /\ Peer(e) # e /\ Peer(Peer(e)) = e
<1>1. Peer(e) \in Side /\ Peer(e) # e /\ Peer(Peer(e)) = e
      /\ Window[e] \in Nat /\ Submissions[e] \in Nat /\ InitialPsn[e] \in Psn
  BY Constants
<1>2. pending[e] \in Seq(Nat) /\ unacked[e] \in Seq(Packet) /\ delivered[Peer(e)] \in Seq(Nat)
      /\ submitted[e] \in Nat
  BY <1>1 DEF TypeOK
<1>3. Len(pending[e]) \in Nat /\ Len(unacked[e]) \in Nat /\ Len(delivered[Peer(e)]) \in Nat
  BY <1>2, LenProperties
<1> QED
  BY <1>1, <1>2, <1>3, SMT DEF Sent, Base, Got, Psn

\* What an ack pops has been received, and in a one-way stream the ack tells of it.
LEMMA AckPops ==
  ASSUME TypeOK, StreamFits, NEW e \in Side, SendInv(e), RecvInv(e),
         NEW ack, NEW a \in 0..Got(e), ack = Num(e, a), OneWay(e) => Base(e) <= a,
         HandleAck(e, ack), Sent(e)' = Sent(e)
  PROVE  /\ Base(e)' \in Int /\ Base(e) <= Base(e)' /\ Base(e)' <= Got(e)
         /\ OneWay(e) => Base(e)' <= a
         /\ Len(unacked'[e]) \in Nat /\ Len(unacked'[e]) <= Len(unacked[e])
         /\ \A i \in 1..Len(unacked'[e]) :
              /\ unacked'[e][i].kind = "data"
              /\ unacked'[e][i].chunk = Base(e)' + i
              /\ unacked'[e][i].seq = Num(e, Base(e)' + i)
         /\ \A f \in Side \ {e} : unacked'[f] = unacked[f]
<1>1. /\ submitted[e] \in Nat /\ Len(pending[e]) \in Nat /\ Len(unacked[e]) \in Nat
      /\ Sent(e) \in Int /\ Base(e) \in Int /\ Got(e) \in Nat
      /\ Window[e] \in Nat /\ Submissions[e] \in Nat /\ InitialPsn[e] \in Int
      /\ Peer(e) \in Side /\ Peer(e) # e /\ Peer(Peer(e)) = e
  BY Numbers
<1>2. PICK k \in 0..Len(unacked[e]) :
        /\ Pops(unacked[e], ack, k)
        /\ unacked' = [unacked EXCEPT ![e] = SubSeq(@, k + 1, Len(@))]
  BY DEF HandleAck
<1>3. k \in Nat /\ k <= Len(unacked[e])
  BY <1>1, <1>2, SMT
<1>4. unacked'[e] = SubSeq(unacked[e], k + 1, Len(unacked[e]))
      /\ \A f \in Side \ {e} : unacked'[f] = unacked[f]
  BY <1>2 DEF TypeOK
<1>5. /\ Len(unacked'[e]) = Len(unacked[e]) - k
      /\ \A i \in 1..Len(unacked'[e]) : unacked'[e][i] = unacked[e][k + i]
  <2>1. unacked[e] \in Seq(Packet) /\ k + 1 \in 1..(Len(unacked[e]) + 1)
        /\ Len(unacked[e]) \in k..Len(unacked[e]) /\ Len(unacked[e]) - (k + 1) + 1 = Len(unacked[e]) - k
    BY <1>1, <1>3, SMT DEF TypeOK
  <2> QED
    BY <1>1, <1>3, <1>4, <2>1, SubSeqProperties, SMT
<1>6. Base(e)' = Base(e) + k
  <2>1. Base(e)' = Sent(e)' - Len(unacked'[e])
    BY DEF Base
  <2> QED
    BY <1>1, <1>3, <1>5, <2>1, SMT DEF Base
<1>7. k > 0 => Base(e) + k <= a
  <2> SUFFICES ASSUME k > 0 PROVE Base(e) + k <= a
    OBVIOUS
  <2>1. k \in 1..k /\ k \in 1..Len(unacked[e])
    BY <1>1, <1>3, SMT
  <2>2. Covers(Num(e, a), Num(e, Base(e) + k))
    BY <1>2, <2>1 DEF Pops, SendInv
  <2>3. Base(e) + k \in Int /\ a \in Int /\ (Base(e) + k) - a <= Half
    <3>1. /\ Window[e] <= Half
          /\ Submissions[e] <= Half \/ OneWay(e)
      BY DEF StreamFits, OneWay
    <3>2. submitted[e] <= Submissions[e] /\ Len(unacked[e]) <= Window[e]
      BY DEF SendInv
    <3>3. Half \in Nat
      BY Halves
    <3>4. CASE Submissions[e] <= Half
      <4>1. Base(e) + Len(unacked[e]) = Sent(e)
        BY <1>1, SMT DEF Base
      <4>2. Sent(e) <= Submissions[e]
        BY <1>1, <3>2, SMT DEF Sent
      <4> QED
        BY <1>1, <1>3, <3>3, <3>4, <4>1, <4>2, SMT
    <3>5. CASE OneWay(e)
      BY <1>1, <1>3, <3>1, <3>2, <3>3, <3>5, SMT
    <3> QED
      BY <3>1, <3>4, <3>5
  <2> QED
    BY <2>2, <2>3, CoversTold
<1>8. Base(e) <= Got(e)
  BY DEF RecvInv
<1>9. Base(e)' <= Got(e) /\ Base(e)' \in Int /\ Base(e) <= Base(e)' /\ (OneWay(e) => Base(e)' <= a)
      /\ Len(unacked'[e]) \in Nat /\ Len(unacked'[e]) <= Len(unacked[e])
  BY <1>1, <1>3, <1>5, <1>6, <1>7, <1>8, SMT
<1>10. \A i \in 1..Len(unacked'[e]) :
         /\ unacked'[e][i].kind = "data"
         /\ unacked'[e][i].chunk = Base(e)' + i
         /\ unacked'[e][i].seq = Num(e, Base(e)' + i)
  <2> TAKE i \in 1..Len(unacked'[e])
  <2>1. k + i \in 1..Len(unacked[e]) /\ Base(e) + (k + i) = (Base(e) + k) + i
    BY <1>1, <1>3, <1>5, SMT
  <2> QED
    BY <1>5, <1>6, <2>1 DEF SendInv
<1> QED
  BY <1>4, <1>9, <1>10

-----------------------------------------------------------------------------
(* Receiving a chunk.                                                        *)

\* The next chunk and the run behind it.
LEMMA AcceptRun ==
  ASSUME TypeOK, NEW e \in Side, RecvInv(e), KeptInv(e), Sent(e) - Got(e) < Modulus,
         Sent(e)' = Sent(e),
         NEW p \in Packet, p.chunk = Got(e) + 1, p.chunk <= Sent(e), p.seq = Num(e, p.chunk),
         AcceptNext(Peer(e), p)
  PROVE  /\ Got(e)' \in Nat /\ Got(e) <= Got(e)' /\ Got(e)' <= Sent(e)
         /\ \A i \in 1..Got(e)' : delivered'[Peer(e)][i] = i
         /\ lastRecv'[Peer(e)] = Num(e, Got(e)')
         /\ KeptInv(e)'
         /\ Got(e)' = p.chunk \/ \E s \in Psn : Got(e)' = outOfOrder[Peer(e)][s]
         /\ \A s \in Psn : \/ outOfOrder'[Peer(e)][s] = outOfOrder[Peer(e)][s]
                           \/ outOfOrder'[Peer(e)][s] = None
<1> DEFINE x == Peer(e)
           d == Got(e)
           buf == outOfOrder[x]
<1>1. /\ submitted[e] \in Nat /\ Len(pending[e]) \in Nat /\ Len(unacked[e]) \in Nat
      /\ Sent(e) \in Int /\ Base(e) \in Int /\ Got(e) \in Nat
      /\ Window[e] \in Nat /\ Submissions[e] \in Nat /\ InitialPsn[e] \in Int
      /\ Peer(e) \in Side /\ Peer(e) # e /\ Peer(Peer(e)) = e
  BY Numbers
<1>2. /\ delivered \in [Side -> Seq(Nat)] /\ lastRecv \in [Side -> Psn]
      /\ outOfOrder \in [Side -> [Psn -> Nat]] /\ buf \in [Psn -> Nat]
  BY <1>1 DEF TypeOK
<1>3. PICK k \in 0..(Modulus - 1) :
        /\ Following(p.seq, k) \subseteq Buffered(buf)
        /\ Plus(p.seq, k + 1) \notin Buffered(buf)
        /\ delivered' = [delivered EXCEPT ![x] =
             Append(@, p.chunk) \o [j \in 1..k |-> buf[Plus(p.seq, j)]]]
        /\ lastRecv' = [lastRecv EXCEPT ![x] = Plus(p.seq, k)]
        /\ outOfOrder' = [outOfOrder EXCEPT ![x] =
             [s \in Psn |-> IF s \in Following(p.seq, k) THEN None ELSE @[s]]]
  BY DEF AcceptNext
<1>4. k \in Nat /\ k < Modulus /\ Modulus \in Nat
  BY Constants, SMT
<1>5. ASSUME NEW j \in Int PROVE Plus(p.seq, j) = Num(e, d + 1 + j)
  <2>1. Plus(Plus(InitialPsn[e], d + 1), j) = Plus(InitialPsn[e], (d + 1) + j)
    <3>1. d + 1 \in Int
      BY <1>1
    <3> HIDE DEF d
    <3> QED
      BY <1>1, <1>5, <3>1, PlusPlus
  <2> QED
    BY <2>1 DEF Num
<1> HIDE DEF d
\* The run holds the chunks that follow.
<1>6. ASSUME NEW j \in 1..k
      PROVE  /\ Num(e, d + 1 + j) \in Psn /\ Num(e, d + 1 + j) \in Following(p.seq, k)
             /\ buf[Num(e, d + 1 + j)] = d + 1 + j
  <2> DEFINE s == Num(e, d + 1 + j)
             v == buf[s]
  <2>1. j \in Int /\ j >= 1 /\ j <= k
    BY <1>4, SMT
  <2>2. s \in Following(p.seq, k)
    BY <1>5, <2>1 DEF Following
  <2>3. s \in Psn /\ v # None
    BY <1>3, <2>2 DEF Buffered
  <2>4. s = Num(e, v) /\ v \in (d + 2)..Sent(e)
    BY <2>3 DEF KeptInv, d
  <2>5. Num(e, v) = Num(e, d + 1 + j)
    BY <2>4
  <2>6. v \in Int /\ d + 1 + j \in Int /\ v - (d + 1 + j) < Modulus /\ (d + 1 + j) - v < Modulus
    <3>1. d \in Nat /\ v \in Int
      BY <1>1, <2>4 DEF d
    <3>2. Sent(e) - d < Modulus /\ v >= d + 2 /\ v <= Sent(e)
      BY <1>1, <2>4, <3>1, SMT DEF d
    <3> HIDE DEF v
    <3> QED
      BY <1>1, <1>4, <2>1, <3>1, <3>2, SMT
  <2> HIDE DEF v, s
  <2>7. v = d + 1 + j
    BY <1>1, <2>5, <2>6, PlusSame DEF Num
  <2> QED
    BY <2>2, <2>3, <2>7 DEF v, s
<1>7. d \in Nat /\ Got(e)' = Len(delivered'[x])
  BY <1>1 DEF d, Got
<1> DEFINE run == [j \in 1..k |-> buf[Plus(p.seq, j)]]
           front == Append(delivered[x], p.chunk)
<1>8. run \in Seq(Nat) /\ Len(run) = k /\ \A j \in 1..k : run[j] = d + 1 + j
  <2>1. \A j \in 1..k : buf[Plus(p.seq, j)] = d + 1 + j /\ d + 1 + j \in Nat
    <3> TAKE j \in 1..k
    <3>1. j \in Int /\ d + 1 + j \in Nat
      BY <1>4, <1>7, SMT
    <3> QED
      BY <1>5, <1>6, <3>1
  <2>2. run \in [1..k -> Nat] /\ \A j \in 1..k : run[j] = d + 1 + j
    BY <2>1
  <2> HIDE DEF run
  <2>3. run \in Seq(Nat)
    BY <1>4, <2>2, IsASeq
  <2>4. Len(run) = k
    BY <1>4, <2>2, <2>3, LenProperties, SMT
  <2> QED
    BY <2>2, <2>3, <2>4
<1>9. /\ front \in Seq(Nat) /\ Len(front) = d + 1
      /\ \A i \in 1..(d + 1) : front[i] = i
  <2>1. delivered[x] \in Seq(Nat) /\ p.chunk \in Nat /\ Len(delivered[x]) = d
    BY <1>1, <1>2 DEF Packet, d, Got
  <2>2. /\ front \in Seq(Nat) /\ Len(front) = d + 1
        /\ \A i \in 1..d : front[i] = delivered[x][i]
        /\ front[d + 1] = p.chunk
    BY <2>1, AppendProperties
  <2>3. \A i \in 1..d : delivered[x][i] = i
    BY DEF RecvInv, d
  <2>4. \A i \in 1..(d + 1) : i \in 1..d \/ i = d + 1
    BY <1>7, SMT
  <2>5. p.chunk = d + 1
    BY DEF d
  <2> QED
    BY <2>2, <2>3, <2>4, <2>5
<1>10. delivered'[x] = front \o run
  BY <1>1, <1>2, <1>3
<1> HIDE DEF run, front
<1>11. /\ Got(e)' = d + 1 + k
       /\ \A i \in 1..(d + 1) : delivered'[x][i] = front[i]
       /\ \A j \in 1..k : delivered'[x][(d + 1) + j] = run[j]
  <2>1. /\ Len(front \o run) = Len(front) + Len(run)
        /\ \A i \in 1..Len(front) : (front \o run)[i] = front[i]
        /\ \A j \in 1..Len(run) : (front \o run)[Len(front) + j] = run[j]
    <3>1. front \in Seq(Nat) /\ run \in Seq(Nat) /\ Len(front) \in Nat /\ Len(run) \in Nat
      BY <1>8, <1>9, LenProperties
    <3> QED
      BY <3>1, LenProperties, ConcatProperties
  <2> QED
    BY <1>7, <1>8, <1>9, <1>10, <2>1
<1>12. \A i \in 1..Got(e)' : delivered'[x][i] = i
  <2> TAKE i \in 1..Got(e)'
  <2>1. CASE i \in 1..(d + 1)
    BY <1>9, <1>11, <2>1
  <2>2. CASE i \notin 1..(d + 1)
    <3>1. i - (d + 1) \in 1..k /\ (d + 1) + (i - (d + 1)) = i
      BY <1>4, <1>7, <1>11, <2>2, SMT
    <3>2. run[i - (d + 1)] = d + 1 + (i - (d + 1)) /\ delivered'[x][(d + 1) + (i - (d + 1))] = run[i - (d + 1)]
      BY <1>8, <1>11, <3>1
    <3> QED
      BY <3>1, <3>2
  <2> QED
    BY <2>1, <2>2
<1>13. lastRecv'[x] = Num(e, Got(e)')
  BY <1>1, <1>2, <1>3, <1>4, <1>5, <1>11
<1>14. Got(e)' = p.chunk \/ \E s \in Psn : Got(e)' = buf[s]
  <2>1. CASE k = 0
    BY <1>7, <1>11, <2>1, SMT DEF d
  <2>2. CASE k # 0
    <3>1. k \in 1..k
      BY <1>4, <2>2, SMT
    <3> QED
      BY <1>6, <1>11, <3>1
  <2> QED
    BY <2>1, <2>2
<1>15. Got(e)' \in Nat /\ d <= Got(e)' /\ Got(e)' <= Sent(e)
  <2>1. CASE k = 0
    BY <1>1, <1>7, <1>11, <2>1, SMT DEF d
  <2>2. CASE k # 0
    <3>1. k \in 1..k
      BY <1>4, <2>2, SMT
    <3>2. buf[Num(e, d + 1 + k)] = d + 1 + k /\ Num(e, d + 1 + k) \in Psn
      BY <1>6, <3>1
    <3>3. d + 1 + k # None
      BY <1>4, <1>7, SMT DEF None
    <3>4. d + 1 + k \in (d + 2)..Sent(e)
      BY <3>2, <3>3 DEF KeptInv, d
    <3> QED
      BY <1>1, <1>4, <1>7, <1>11, <3>4, SMT
  <2> QED
    BY <2>1, <2>2
<1>16. \A s \in Psn : \/ outOfOrder'[x][s] = buf[s]
                      \/ outOfOrder'[x][s] = None
  BY <1>1, <1>2, <1>3
<1>17. ASSUME NEW s \in Psn, outOfOrder'[x][s] # None
       PROVE  /\ s = Num(e, outOfOrder'[x][s])
              /\ outOfOrder'[x][s] \in (Got(e)' + 2)..Sent(e)'
  <2> DEFINE v == buf[s]
  <2>1. outOfOrder'[x][s] = v /\ v # None /\ s \notin Following(p.seq, k)
    BY <1>1, <1>2, <1>3, <1>17
  <2>2. s = Num(e, v) /\ v \in (d + 2)..Sent(e)
    BY <2>1 DEF KeptInv, d
  <2>3. s \in Buffered(buf)
    BY <2>1 DEF Buffered
  <2>4. v # d + 1 + (k + 1)
    <3>1. k + 1 \in Int
      BY <1>4
    <3>2. Num(e, d + 1 + (k + 1)) \notin Buffered(buf)
      BY <1>3, <1>5, <3>1
    <3> QED
      BY <2>2, <2>3, <3>2
  <2>5. \A j \in 1..k : v # d + 1 + j
    BY <1>6, <2>1, <2>2
  <2> HIDE DEF v
  <2>6. v \in Int /\ v >= d + 2 /\ v <= Sent(e)
    BY <1>1, <1>7, <2>2, SMT
  <2>7. ~ (v - (d + 1) \in 1..k)
    <3>1. v = d + 1 + (v - (d + 1))
      BY <1>7, <2>6, SMT
    <3> QED
      BY <2>5, <3>1
  <2>8. v >= (d + 1 + k) + 2
    BY <1>4, <1>7, <2>4, <2>6, <2>7, SMT
  <2>9. v \in ((d + 1 + k) + 2)..Sent(e)
    BY <1>1, <1>4, <1>7, <2>6, <2>8, SMT
  <2> QED
    BY <1>11, <2>1, <2>2, <2>9
<1>18. KeptInv(e)'
  BY <1>17 DEF KeptInv
<1> QED
  BY <1>12, <1>13, <1>14, <1>15, <1>16, <1>18 DEF d

\* handle_inbound_data, for a packet that carries a chunk less than a window behind
\* what has been received.
LEMMA AcceptStream ==
  ASSUME TypeOK, StreamFits, NEW e \in Side, SendInv(e), RecvInv(e), KeptInv(e),
         Sent(e)' = Sent(e),
         NEW p \in Packet, p.kind = "data", Carries(e, p, Sent(e)), Within(e, p, Got(e)),
         Accept(Peer(e), p)
  PROVE  /\ Got(e)' \in Nat /\ Got(e) <= Got(e)' /\ Got(e)' <= Sent(e)
         /\ \A i \in 1..Got(e)' : delivered'[Peer(e)][i] = i
         /\ lastRecv'[Peer(e)] = Num(e, Got(e)')
         /\ KeptInv(e)'
         /\ Got(e)' = Got(e) \/ Got(e)' = p.chunk \/ \E s \in Psn : Got(e)' = outOfOrder[Peer(e)][s]
         /\ \A s \in Psn : \/ outOfOrder'[Peer(e)][s] = outOfOrder[Peer(e)][s]
                           \/ outOfOrder'[Peer(e)][s] = None
                           \/ outOfOrder'[Peer(e)][s] = p.chunk
         /\ delivered'[e] = delivered[e] /\ lastRecv'[e] = lastRecv[e] /\ outOfOrder'[e] = outOfOrder[e]
<1> DEFINE x == Peer(e)
           d == Got(e)
           c == p.chunk
           delta == Ahead(p.seq, lastRecv[x])
<1>1. /\ submitted[e] \in Nat /\ Len(pending[e]) \in Nat /\ Len(unacked[e]) \in Nat
      /\ Sent(e) \in Int /\ Base(e) \in Int /\ Got(e) \in Nat
      /\ Window[e] \in Nat /\ Submissions[e] \in Nat /\ InitialPsn[e] \in Int
      /\ Peer(e) \in Side /\ Peer(e) # e /\ Peer(Peer(e)) = e
  BY Numbers
<1>2. /\ delivered \in [Side -> Seq(Nat)] /\ lastRecv \in [Side -> Psn]
      /\ outOfOrder \in [Side -> [Psn -> Nat]]
  BY DEF TypeOK
<1>3. c \in Nat /\ c >= 1 /\ c <= Sent(e) /\ p.seq = Num(e, c) /\ d < c + Window[e]
      /\ p.seq \in Psn
  <2>1. c \in 1..Sent(e) /\ p.seq = Num(e, c) /\ d < c + Window[e] /\ c \in Nat /\ p.seq \in Psn
    BY DEF Carries, Within, Packet
  <2> HIDE DEF c, d
  <2> QED
    BY <1>1, <2>1, SMT
\* What is sent is less than half a lap ahead of what is received.
<1>4. /\ Sent(e) <= d + Window[e] /\ Window[e] <= Half
      /\ Half \in Nat /\ Half >= 2 /\ Modulus = Half + Half /\ Modulus \in Nat
  <2>1. Len(unacked[e]) <= Window[e] /\ Base(e) <= Got(e) /\ Window[e] <= Half
    BY DEF SendInv, RecvInv, StreamFits
  <2>2. Sent(e) = Base(e) + Len(unacked[e])
    BY <1>1, SMT DEF Base
  <2>3. Sent(e) <= d + Window[e]
    BY <1>1, <2>1, <2>2, SMT
  <2>4. Modulus \in Nat
    BY Constants
  <2> QED
    BY <2>1, <2>3, <2>4, Halves
<1>5. d \in Nat
  BY <1>1
<1> HIDE DEF c, d
<1>6. /\ c - d \in 0..(Modulus - 1) => delta = c - d
      /\ c - d \in (0 - Modulus)..(0 - 1) => delta = c - d + Modulus
  <2>1. lastRecv[x] = Num(e, d)
    BY DEF RecvInv, d
  <2>2. /\ c - d \in 0..(Modulus - 1) => Ahead(Num(e, c), Num(e, d)) = c - d
        /\ c - d \in (0 - Modulus)..(0 - 1) => Ahead(Num(e, c), Num(e, d)) = c - d + Modulus
    <3>1. c \in Int /\ d \in Int
      BY <1>3, <1>5
    <3> QED
      BY <1>1, <3>1, PlusDelta DEF Num
  <2> QED
    BY <1>3, <2>1, <2>2
<1>7. delta \in Int
  <2>1. lastRecv[x] \in Int /\ p.seq \in Int
    BY <1>1, <1>2, <1>3 DEF Psn
  <2>2. delta \in Psn
    BY <2>1, PsnClosed
  <2> QED
    BY <2>2 DEF Psn
<1>8. \/ delta = 1 /\ AcceptNext(x, p)
      \/ /\ delta > 1 /\ delta < Window[x]
         /\ outOfOrder' = [outOfOrder EXCEPT ![x][p.seq] = p.chunk]
         /\ UNCHANGED <<lastRecv, delivered>>
      \/ UNCHANGED receiver
  BY DEF Accept
<1> HIDE DEF delta
<1>9. c >= d => delta = c - d
  BY <1>1, <1>3, <1>4, <1>5, <1>6, SMT
<1>10. c < d => delta = c - d + Modulus /\ delta > Half
  BY <1>1, <1>3, <1>4, <1>5, <1>6, SMT
<1>11. CASE delta = 1 /\ AcceptNext(x, p)
  <2>1. c = d + 1
    BY <1>3, <1>4, <1>5, <1>7, <1>9, <1>10, <1>11, SMT
  <2>2. Sent(e) - Got(e) < Modulus
    BY <1>1, <1>4, <1>5, SMT DEF d
  <2>3. /\ Got(e)' \in Nat /\ Got(e) <= Got(e)' /\ Got(e)' <= Sent(e)
        /\ \A i \in 1..Got(e)' : delivered'[Peer(e)][i] = i
        /\ lastRecv'[Peer(e)] = Num(e, Got(e)')
        /\ KeptInv(e)'
        /\ Got(e)' = p.chunk \/ \E s \in Psn : Got(e)' = outOfOrder[Peer(e)][s]
        /\ \A s \in Psn : \/ outOfOrder'[Peer(e)][s] = outOfOrder[Peer(e)][s]
                          \/ outOfOrder'[Peer(e)][s] = None
    <3>1. p.chunk = Got(e) + 1 /\ p.chunk <= Sent(e) /\ p.seq = Num(e, p.chunk)
      BY <1>3, <2>1 DEF c, d
    <3> QED
      BY <1>11, <2>2, <3>1, AcceptRun
  <2>4. delivered'[e] = delivered[e] /\ lastRecv'[e] = lastRecv[e] /\ outOfOrder'[e] = outOfOrder[e]
    BY <1>1, <1>2, <1>11 DEF AcceptNext
  <2> QED
    BY <2>3, <2>4
<1>12. ASSUME UNCHANGED <<lastRecv, delivered>>
       PROVE  /\ Got(e)' = Got(e) /\ Got(e)' \in Nat /\ Got(e) <= Got(e)' /\ Got(e)' <= Sent(e)
              /\ \A i \in 1..Got(e)' : delivered'[Peer(e)][i] = i
              /\ lastRecv'[Peer(e)] = Num(e, Got(e)')
              /\ delivered'[e] = delivered[e] /\ lastRecv'[e] = lastRecv[e]
  <2>1. Got(e)' = Got(e)
    BY <1>12 DEF Got
  <2> QED
    BY <1>1, <1>12, <2>1, SMT DEF RecvInv
<1>13. CASE UNCHANGED receiver
  <2>1. UNCHANGED <<lastRecv, delivered>> /\ outOfOrder' = outOfOrder
    BY <1>13 DEF receiver
  <2>2. Got(e)' = Got(e)
    BY <1>12, <2>1
  <2>3. KeptInv(e)'
    BY <2>1, <2>2 DEF KeptInv
  <2> QED
    BY <1>12, <2>1, <2>3
<1>14. CASE /\ delta > 1 /\ delta < Window[x]
            /\ outOfOrder' = [outOfOrder EXCEPT ![x][p.seq] = p.chunk]
            /\ UNCHANGED <<lastRecv, delivered>>
  <2>1. /\ outOfOrder'[x][p.seq] = c
        /\ \A s \in Psn \ {p.seq} : outOfOrder'[x][s] = outOfOrder[x][s]
        /\ outOfOrder'[e] = outOfOrder[e]
    BY <1>1, <1>2, <1>3, <1>14 DEF c
  <2>2. Window[x] <= Half
    BY <1>1 DEF StreamFits
  <2>3. c \in (d + 2)..Sent(e)
    <3>1. Window[x] \in Nat
      BY <1>1, Constants
    <3> QED
      BY <1>1, <1>3, <1>4, <1>5, <1>7, <1>9, <1>10, <1>14, <2>2, <3>1, SMT
  <2>4. Got(e)' = Got(e)
    BY <1>12, <1>14
  <2>5. KeptInv(e)'
    <3> SUFFICES ASSUME NEW s \in Psn, outOfOrder'[x][s] # None
                 PROVE  /\ s = Num(e, outOfOrder'[x][s])
                        /\ outOfOrder'[x][s] \in (Got(e)' + 2)..Sent(e)'
      BY DEF KeptInv
    <3>1. CASE s = p.seq
      BY <1>3, <2>1, <2>3, <2>4, <3>1 DEF d
    <3>2. CASE s # p.seq
      BY <2>1, <2>4, <3>2 DEF KeptInv
    <3> QED
      BY <3>1, <3>2
  <2>6. \A s \in Psn : outOfOrder'[x][s] = outOfOrder[x][s] \/ outOfOrder'[x][s] = p.chunk
    BY <2>1 DEF c
  <2> QED
    BY <1>12, <1>14, <2>1, <2>5, <2>6
<1> QED
  BY <1>8, <1>11, <1>13, <1>14

-----------------------------------------------------------------------------
(* What a step of one end does to the two streams.                           *)

LEMMA SenderRests ==
  ASSUME NEW e \in Side, SendInv(e),
         submitted'[e] = submitted[e], pending'[e] = pending[e],
         lastSent'[e] = lastSent[e], unacked'[e] = unacked[e]
  PROVE  SendInv(e)' /\ Sent(e)' = Sent(e) /\ Base(e)' = Base(e)
<1>1. Sent(e)' = Sent(e)
  BY DEF Sent
<1>2. Base(e)' = Base(e)
  BY <1>1 DEF Base
<1> QED
  BY <1>1, <1>2 DEF SendInv

\* A step of the sender.
LEMMA SenderMoves ==
  ASSUME TypeOK, NEW e \in Side, Direction(e),
         SendInv(e)', Sent(e)' \in Int, Sent(e) <= Sent(e)',
         Base(e)' \in Int, Base(e)' <= Got(e),
         lastRecv'[Peer(e)] = lastRecv[Peer(e)], outOfOrder'[Peer(e)] = outOfOrder[Peer(e)],
         delivered'[Peer(e)] = delivered[Peer(e)], unacked'[Peer(e)] = unacked[Peer(e)],
         NEW more \in Seq(Packet), chan'[Peer(e)] = chan[Peer(e)] \o more,
         Fresh(e, more, Sent(e)'),
         Acks(e, chan'[e], Base(e)', Got(e))
  PROVE  Direction(e)'
<1>1. /\ submitted[e] \in Nat /\ Len(pending[e]) \in Nat /\ Len(unacked[e]) \in Nat
      /\ Sent(e) \in Int /\ Base(e) \in Int /\ Got(e) \in Nat
      /\ Window[e] \in Nat /\ Submissions[e] \in Nat /\ InitialPsn[e] \in Int
      /\ Peer(e) \in Side /\ Peer(e) # e /\ Peer(Peer(e)) = e
  BY Numbers
<1>2. /\ SendInv(e) /\ RecvInv(e) /\ KeptInv(e) /\ OldAcks(e)
      /\ Wire(e, chan[Peer(e)], Sent(e), Got(e), outOfOrder[Peer(e)])
  BY DEF Direction
<1>3. Sent(e) \in Nat /\ Sent(e)' \in Nat /\ Got(e) <= Sent(e) /\ Got(e) <= Sent(e)'
  <2>1. Len(unacked[e]) <= Sent(e) /\ Got(e) <= Sent(e)
    BY <1>2 DEF SendInv, RecvInv
  <2> QED
    BY <1>1, <2>1, SMT
<1>4. Got(e)' = Got(e)
  BY DEF Got
<1>5. RecvInv(e)'
  BY <1>2, <1>3, <1>4 DEF RecvInv
<1>6. KeptInv(e)'
  <2>1. \A v \in (Got(e) + 2)..Sent(e) : v \in (Got(e) + 2)..Sent(e)'
    BY <1>1, <1>3, SMT
  <2> QED
    BY <1>2, <1>4, <2>1 DEF KeptInv
<1>7. outOfOrder[Peer(e)] \in [Psn -> Nat] /\ chan[Peer(e)] \in Seq(Packet)
  BY <1>1 DEF TypeOK
<1>8. \A s \in Psn : outOfOrder[Peer(e)][s] <= Sent(e)'
  <2>1. \A v \in (Got(e) + 2)..Sent(e) : v <= Sent(e)'
    BY <1>1, <1>3, SMT
  <2>2. None <= Sent(e)'
    BY <1>3, SMT DEF None
  <2> QED
    BY <1>2, <2>1, <2>2 DEF KeptInv
<1>9. Wire(e, chan[Peer(e)] \o more, Sent(e)', Got(e), outOfOrder[Peer(e)])
  BY <1>1, <1>2, <1>3, <1>7, <1>8, WireWrite
<1>10. OldAcks(e)'
  BY <1>2, <1>4 DEF OldAcks
<1> QED
  BY <1>4, <1>5, <1>6, <1>9, <1>10 DEF Direction

\* A step of the receiver.
LEMMA ReceiverMoves ==
  ASSUME TypeOK, NEW e \in Side, Direction(e),
         submitted'[e] = submitted[e], pending'[e] = pending[e],
         lastSent'[e] = lastSent[e], unacked'[e] = unacked[e],
         Got(e)' \in Nat, Got(e) <= Got(e)', Got(e)' <= Sent(e),
         \A i \in 1..Got(e)' : delivered'[Peer(e)][i] = i,
         lastRecv'[Peer(e)] = Num(e, Got(e)'),
         KeptInv(e)',
         Wire(e, chan'[Peer(e)], Sent(e), Got(e)', outOfOrder'[Peer(e)]),
         NEW more \in Seq(Packet), chan'[e] = chan[e] \o more,
         \A i \in 1..Len(more) : \E a \in 0..Got(e)' :
           Tells(e, more[i], a) /\ (OneWay(e) => a = Got(e)'),
         OldAcks(e)'
  PROVE  Direction(e)'
<1>1. /\ submitted[e] \in Nat /\ Len(pending[e]) \in Nat /\ Len(unacked[e]) \in Nat
      /\ Sent(e) \in Int /\ Base(e) \in Int /\ Got(e) \in Nat
      /\ Window[e] \in Nat /\ Submissions[e] \in Nat /\ InitialPsn[e] \in Int
      /\ Peer(e) \in Side /\ Peer(e) # e /\ Peer(Peer(e)) = e
  BY Numbers
<1>2. /\ SendInv(e) /\ Base(e) <= Got(e) /\ Acks(e, chan[e], Base(e), Got(e))
  BY DEF Direction, RecvInv
<1>3. SendInv(e)' /\ Sent(e)' = Sent(e) /\ Base(e)' = Base(e)
  BY <1>2, SenderRests
<1>4. Base(e) <= Got(e)'
  BY <1>1, <1>2, SMT
<1>5. RecvInv(e)'
  BY <1>3, <1>4 DEF RecvInv
<1>6. chan[e] \in Seq(Packet)
  BY DEF TypeOK
<1>7. Acks(e, chan[e] \o more, Base(e), Got(e)')
  BY <1>1, <1>2, <1>6, AcksWrite
<1> QED
  BY <1>3, <1>5, <1>7 DEF Direction

\* The packets of a window, written or written again.
LEMMA WindowFresh ==
  ASSUME NEW e \in Side, NEW q \in Seq(Packet), NEW base \in Nat, NEW sent \in Nat,
         sent = base + Len(q), Len(q) <= Window[e],
         \A i \in 1..Len(q) : q[i].kind = "data" /\ q[i].chunk = base + i
                              /\ q[i].seq = Num(e, base + i)
  PROVE  \A i \in 1..Len(q) : Carries(e, q[i], sent) /\ Within(e, q[i], sent)
<1> SUFFICES ASSUME NEW i \in 1..Len(q) PROVE Carries(e, q[i], sent) /\ Within(e, q[i], sent)
  OBVIOUS
<1>1. Len(q) \in Nat /\ Window[e] \in Nat
  BY LenProperties, Constants
<1>2. base + i \in 1..sent /\ sent < (base + i) + Window[e]
  BY <1>1, SMT
<1> QED
  BY <1>2 DEF Carries, Within

\* An end whose peer's stream is one-way holds no packet.
LEMMA HoldsNothing ==
  ASSUME TypeOK, NEW e \in Side, SendInv(Peer(e)), OneWay(e)
  PROVE  Len(unacked[Peer(e)]) = 0 /\ Len(pending[Peer(e)]) = 0
<1>1. Peer(e) \in Side
  BY Constants
<1>2. /\ submitted[Peer(e)] \in Nat /\ Len(pending[Peer(e)]) \in Nat /\ Len(unacked[Peer(e)]) \in Nat
      /\ Sent(Peer(e)) \in Int
  BY <1>1, Numbers
<1>3. submitted[Peer(e)] <= 0 /\ Len(pending[Peer(e)]) <= submitted[Peer(e)]
      /\ Len(unacked[Peer(e)]) <= Sent(Peer(e))
  BY DEF SendInv, OneWay
<1> QED
  BY <1>2, <1>3, SMT DEF Sent

\* The stream of an end that sends nothing new: it may read a packet, forget what an
\* ack covers and write again what it holds.
LEMMA SenderSteps ==
  ASSUME TypeOK, StreamFits, NEW x \in Side, Direction(x),
         submitted'[x] = submitted[x], pending'[x] = pending[x], lastSent'[x] = lastSent[x],
         lastRecv'[Peer(x)] = lastRecv[Peer(x)], outOfOrder'[Peer(x)] = outOfOrder[Peer(x)],
         delivered'[Peer(x)] = delivered[Peer(x)], unacked'[Peer(x)] = unacked[Peer(x)],
         unacked'[x] \in Seq(Packet),
         \/ chan'[x] = chan[x] /\ unacked'[x] = unacked[x]
         \/ /\ chan[x] # <<>> /\ chan'[x] = Tail(chan[x])
            /\ \/ unacked'[x] = unacked[x]
               \/ HandleAck(x, Head(chan[x]).ack) /\ Head(chan[x]).kind # "rst",
         NEW more \in Seq(Packet), chan'[Peer(x)] = chan[Peer(x)] \o more,
         \A i \in 1..Len(more) :
           more[i].kind # "data" \/ \E j \in 1..Len(unacked'[x]) : more[i] = unacked'[x][j]
  PROVE  Direction(x)'
<1>1. /\ submitted[x] \in Nat /\ Len(pending[x]) \in Nat /\ Len(unacked[x]) \in Nat
      /\ Sent(x) \in Int /\ Base(x) \in Int /\ Got(x) \in Nat
      /\ Window[x] \in Nat /\ Submissions[x] \in Nat /\ InitialPsn[x] \in Int
      /\ Peer(x) \in Side /\ Peer(x) # x /\ Peer(Peer(x)) = x
  BY Numbers
<1>2. SendInv(x) /\ RecvInv(x) /\ Acks(x, chan[x], Base(x), Got(x)) /\ chan[x] \in Seq(Packet)
  BY DEF Direction, TypeOK
<1>3. Sent(x)' = Sent(x) /\ Base(x) <= Got(x)
  BY <1>2 DEF Sent, RecvInv
<1>4. Sent(x) = Base(x) + Len(unacked[x]) /\ Base(x) >= 0 /\ Len(unacked[x]) <= Window[x]
  <2>1. Len(unacked[x]) <= Sent(x) /\ Len(unacked[x]) <= Window[x]
    BY <1>2 DEF SendInv
  <2> QED
    BY <1>1, <2>1, SMT DEF Base
\* Reading keeps the acks consistent with whatever base they allow.
<1>5. ASSUME chan[x] # <<>>
      PROVE  \E a \in 0..Got(x) :
               /\ Tells(x, Head(chan[x]), a)
               /\ OneWay(x) => Base(x) <= a
               /\ \A b \in Int : (OneWay(x) => b <= a) => Acks(x, Tail(chan[x]), b, Got(x))
  BY <1>1, <1>2, <1>5, AcksRead
<1>6. ASSUME SendInv(x)', Base(x)' \in Int, Base(x) <= Base(x)', Base(x)' <= Got(x),
             Acks(x, chan'[x], Base(x)', Got(x))
      PROVE  Direction(x)'
  <2>1. Base(x)' \in Nat /\ Sent(x)' \in Nat
    BY <1>1, <1>3, <1>4, <1>6, SMT
  <2>2. Sent(x)' = Base(x)' + Len(unacked'[x])
    <3>1. Base(x)' = Sent(x)' - Len(unacked'[x]) /\ Len(unacked'[x]) \in Nat
      BY LenProperties DEF Base
    <3> QED
      BY <2>1, <3>1, SMT
  <2>3. /\ Len(unacked'[x]) <= Window[x]
        /\ \A i \in 1..Len(unacked'[x]) :
             /\ unacked'[x][i].kind = "data" /\ unacked'[x][i].chunk = Base(x)' + i
             /\ unacked'[x][i].seq = Num(x, Base(x)' + i)
    BY <1>6 DEF SendInv
  <2>4. \A i \in 1..Len(unacked'[x]) :
          Carries(x, unacked'[x][i], Sent(x)') /\ Within(x, unacked'[x][i], Sent(x)')
    BY <2>1, <2>2, <2>3, WindowFresh
  <2>5. Fresh(x, more, Sent(x)')
    <3> SUFFICES ASSUME NEW i \in 1..Len(more)
                 PROVE  Carries(x, more[i], Sent(x)') /\ Within(x, more[i], Sent(x)')
      BY DEF Fresh
    <3>1. CASE more[i].kind # "data"
      BY <3>1 DEF Carries, Within
    <3>2. CASE \E j \in 1..Len(unacked'[x]) : more[i] = unacked'[x][j]
      BY <2>4, <3>2
    <3> QED
      BY <3>1, <3>2
  <2>6. Sent(x) <= Sent(x)' /\ Sent(x)' \in Int
    BY <1>1, <1>3, SMT
  <2> QED
    BY <1>6, <2>5, <2>6, SenderMoves
<1>7. CASE unacked'[x] = unacked[x]
  <2>1. SendInv(x)' /\ Sent(x)' = Sent(x) /\ Base(x)' = Base(x)
    BY <1>2, <1>7, SenderRests
  <2>2. Acks(x, chan'[x], Base(x), Got(x))
    <3>1. CASE chan'[x] = chan[x]
      BY <1>2, <3>1
    <3>2. CASE chan[x] # <<>> /\ chan'[x] = Tail(chan[x])
      BY <1>1, <1>5, <3>2
    <3> QED
      BY <3>1, <3>2
  <2>3. Base(x) <= Base(x)'
    BY <1>1, <2>1, SMT
  <2> QED
    BY <1>1, <1>3, <1>6, <2>1, <2>2, <2>3
<1>8. CASE /\ chan[x] # <<>> /\ chan'[x] = Tail(chan[x])
           /\ HandleAck(x, Head(chan[x]).ack) /\ Head(chan[x]).kind # "rst"
  <2>1. PICK a \in 0..Got(x) :
          /\ Tells(x, Head(chan[x]), a)
          /\ OneWay(x) => Base(x) <= a
          /\ \A b \in Int : (OneWay(x) => b <= a) => Acks(x, Tail(chan[x]), b, Got(x))
    BY <1>5, <1>8
  <2>2. Head(chan[x]).ack = Num(x, a)
    BY <1>8, <2>1 DEF Tells
  <2>3. /\ Base(x)' \in Int /\ Base(x) <= Base(x)' /\ Base(x)' <= Got(x)
        /\ OneWay(x) => Base(x)' <= a
        /\ Len(unacked'[x]) \in Nat /\ Len(unacked'[x]) <= Len(unacked[x])
        /\ \A i \in 1..Len(unacked'[x]) :
             /\ unacked'[x][i].kind = "data"
             /\ unacked'[x][i].chunk = Base(x)' + i
             /\ unacked'[x][i].seq = Num(x, Base(x)' + i)
        /\ \A f \in Side \ {x} : unacked'[f] = unacked[f]
    BY <1>2, <1>3, <1>8, <2>1, <2>2, AckPops
  <2>4. Len(unacked'[x]) <= Window[x] /\ Len(unacked'[x]) <= Sent(x)
    <3> DEFINE n == Len(unacked'[x])
    <3>1. n \in Nat /\ n <= Len(unacked[x])
      BY <2>3
    <3> HIDE DEF n
    <3>2. n <= Window[x] /\ n <= Sent(x)
      BY <1>1, <1>4, <3>1, SMT
    <3> QED
      BY <3>2 DEF n
  <2>5. SendInv(x)'
    BY <1>2, <1>3, <2>3, <2>4 DEF SendInv
  <2>6. Acks(x, chan'[x], Base(x)', Got(x))
    BY <1>8, <2>1, <2>3
  <2> QED
    BY <1>6, <2>3, <2>5, <2>6
<1> QED
  BY <1>7, <1>8

\* The stream towards x: x may read a packet, take its chunk, and write packets that
\* acknowledge what it has, or that it holds.
LEMMA ReceiverSteps ==
  ASSUME TypeOK, StreamFits, NEW e \in Side, NEW x \in Side, x = Peer(e),
         Direction(e), SendInv(x),
         submitted'[e] = submitted[e], pending'[e] = pending[e],
         lastSent'[e] = lastSent[e], unacked'[e] = unacked[e],
         outOfOrder'[x] \in [Psn -> Nat],
         \/ chan'[x] = chan[x] /\ UNCHANGED receiver
         \/ /\ chan[x] # <<>> /\ chan'[x] = Tail(chan[x])
            /\ UNCHANGED receiver \/ (Head(chan[x]).kind = "data" /\ Accept(x, Head(chan[x]))),
         \A i \in 1..Len(unacked'[x]) :
           unacked'[x][i].ack = lastRecv'[x] \/ \E j \in 1..Len(unacked[x]) : unacked'[x][i] = unacked[x][j],
         NEW more \in Seq(Packet), chan'[e] = chan[e] \o more,
         \A i \in 1..Len(more) :
           \/ more[i].kind = "rst" \/ more[i].ack = lastRecv'[x]
           \/ \E j \in 1..Len(unacked[x]) : more[i] = unacked[x][j]
  PROVE  Direction(e)'
<1>1. /\ submitted[e] \in Nat /\ Len(pending[e]) \in Nat /\ Len(unacked[e]) \in Nat
      /\ Sent(e) \in Int /\ Base(e) \in Int /\ Got(e) \in Nat
      /\ Window[e] \in Nat /\ Submissions[e] \in Nat /\ InitialPsn[e] \in Int
      /\ Peer(e) \in Side /\ Peer(e) # e /\ Peer(Peer(e)) = e
  BY Numbers
<1>2. /\ SendInv(e) /\ RecvInv(e) /\ KeptInv(e) /\ OldAcks(e)
      /\ Wire(e, chan[x], Sent(e), Got(e), outOfOrder[x])
      /\ chan[x] \in Seq(Packet) /\ outOfOrder[x] \in [Psn -> Nat]
  BY DEF Direction, TypeOK
<1>3. SendInv(e)' /\ Sent(e)' = Sent(e) /\ Base(e)' = Base(e)
  BY <1>2, SenderRests
<1>4. Sent(e) \in Nat
  <2>1. Len(unacked[e]) <= Sent(e)
    BY <1>2 DEF SendInv
  <2> QED
    BY <1>1, <2>1, SMT
\* What the step receives.
<1>5. /\ Got(e)' \in Nat /\ Got(e) <= Got(e)' /\ Got(e)' <= Sent(e)
      /\ \A i \in 1..Got(e)' : delivered'[x][i] = i
      /\ lastRecv'[x] = Num(e, Got(e)')
      /\ KeptInv(e)'
      /\ Wire(e, chan'[x], Sent(e), Got(e)', outOfOrder'[x])
  <2>1. ASSUME UNCHANGED receiver
        PROVE  /\ Got(e)' = Got(e) /\ Got(e)' \in Nat /\ Got(e) <= Got(e)' /\ Got(e)' <= Sent(e)
               /\ \A i \in 1..Got(e)' : delivered'[x][i] = i
               /\ lastRecv'[x] = Num(e, Got(e)')
               /\ KeptInv(e)'
    <3>1. Got(e)' = Got(e)
      BY <2>1 DEF Got, receiver
    <3>2. KeptInv(e)'
      BY <1>2, <1>3, <2>1, <3>1 DEF KeptInv, receiver
    <3>3. Got(e)' \in Nat /\ Got(e) <= Got(e)' /\ Got(e)' <= Sent(e)
      <4>1. Got(e) <= Sent(e)
        BY <1>2 DEF RecvInv
      <4> QED
        BY <1>1, <3>1, <4>1, SMT
    <3> QED
      BY <1>2, <2>1, <3>1, <3>2, <3>3 DEF RecvInv, receiver
  <2>2. CASE chan'[x] = chan[x] /\ UNCHANGED receiver
    <3>1. Wire(e, chan'[x], Sent(e), Got(e)', outOfOrder'[x])
      BY <1>2, <2>1, <2>2 DEF receiver
    <3> QED
      BY <2>1, <2>2, <3>1
  <2>3. CASE chan[x] # <<>> /\ chan'[x] = Tail(chan[x]) /\ UNCHANGED receiver
    <3>1. outOfOrder'[x] = outOfOrder[x]
      BY <2>3 DEF receiver
    <3>2. Wire(e, Tail(chan[x]), Sent(e), Got(e), outOfOrder[x])
      <4>1. /\ GotFrom(Head(chan[x]), Got(e), outOfOrder[x], Got(e))
            /\ KeptFrom(Head(chan[x]), outOfOrder[x], outOfOrder[x])
        BY DEF GotFrom, KeptFrom
      <4> QED
        BY <1>1, <1>2, <1>4, <2>3, <4>1, WireReceive
    <3> QED
      BY <2>1, <2>3, <3>1, <3>2
  <2>4. CASE /\ chan[x] # <<>> /\ chan'[x] = Tail(chan[x])
             /\ Head(chan[x]).kind = "data" /\ Accept(x, Head(chan[x]))
    <3> DEFINE p == Head(chan[x])
    <3>1. p \in Packet /\ Carries(e, p, Sent(e)) /\ Within(e, p, Got(e))
      <4>1. Len(chan[x]) \in Nat /\ Len(chan[x]) # 0 /\ p = chan[x][1] /\ p \in Packet
        BY <1>2, <2>4, LenProperties, EmptySeq, HeadTailProperties
      <4>2. 1 \in 1..Len(chan[x])
        BY <4>1, SMT
      <4> QED
        BY <1>2, <4>1, <4>2 DEF Wire
    <3>2. p.kind = "data" /\ Accept(x, p)
      BY <2>4
    <3> HIDE DEF p
    <3>3. /\ Got(e)' \in Nat /\ Got(e) <= Got(e)' /\ Got(e)' <= Sent(e)
          /\ \A i \in 1..Got(e)' : delivered'[Peer(e)][i] = i
          /\ lastRecv'[Peer(e)] = Num(e, Got(e)')
          /\ KeptInv(e)'
          /\ Got(e)' = Got(e) \/ Got(e)' = p.chunk \/ \E s \in Psn : Got(e)' = outOfOrder[Peer(e)][s]
          /\ \A s \in Psn : \/ outOfOrder'[Peer(e)][s] = outOfOrder[Peer(e)][s]
                            \/ outOfOrder'[Peer(e)][s] = None
                            \/ outOfOrder'[Peer(e)][s] = p.chunk
          /\ delivered'[e] = delivered[e] /\ lastRecv'[e] = lastRecv[e] /\ outOfOrder'[e] = outOfOrder[e]
      BY <1>2, <1>3, <3>1, <3>2, AcceptStream
    <3>4. Wire(e, Tail(chan[x]), Sent(e), Got(e)', outOfOrder'[x])
      <4>1. PICK got1 \in Nat : got1 = Got(e)'
        BY <3>3
      <4>2. PICK buf1 \in [Psn -> Nat] : buf1 = outOfOrder'[x]
        OBVIOUS
      <4>3. PICK q \in Seq(Packet) : q = chan[x] /\ q # <<>>
        BY <1>2, <2>4
      <4>4. PICK buf \in [Psn -> Nat] : buf = outOfOrder[x]
        BY <1>2
      <4>5. Wire(e, q, Sent(e), Got(e), buf) /\ Got(e) \in Nat
        BY <1>1, <1>2, <4>3, <4>4
      <4>6. GotFrom(Head(q), Got(e), buf, got1)
        BY <2>4, <3>3, <4>1, <4>3, <4>4 DEF p, GotFrom
      <4>7. KeptFrom(Head(q), buf, buf1)
        BY <2>4, <3>3, <4>2, <4>3, <4>4 DEF p, KeptFrom
      <4>8. Wire(e, Tail(q), Sent(e), got1, buf1)
        BY <1>4, <4>3, <4>5, <4>6, <4>7, WireReceive
      <4> QED
        BY <4>1, <4>2, <4>3, <4>8
    <3> QED
      BY <2>4, <3>3, <3>4
  <2> QED
    BY <2>2, <2>3, <2>4
\* What it holds and what it writes tells of chunks received.
<1>6. 0..Got(e) \subseteq 0..Got(e)' /\ Got(e)' \in 0..Got(e)'
  BY <1>1, <1>5, SMT
<1>7. OldAcks(e)'
  <2> SUFFICES ASSUME NEW i \in 1..Len(unacked'[x])
               PROVE  \E a \in 0..Got(e)' : Tells(e, unacked'[x][i], a)
    BY DEF OldAcks
  <2>1. CASE unacked'[x][i].ack = lastRecv'[x]
    BY <1>5, <1>6, <2>1 DEF Tells
  <2>2. CASE \E j \in 1..Len(unacked[x]) : unacked'[x][i] = unacked[x][j]
    BY <1>2, <1>6, <2>2 DEF OldAcks
  <2> QED
    BY <2>1, <2>2
<1>8. \A i \in 1..Len(more) : \E a \in 0..Got(e)' : Tells(e, more[i], a) /\ (OneWay(e) => a = Got(e)')
  <2> TAKE i \in 1..Len(more)
  <2>1. CASE more[i].kind = "rst" \/ more[i].ack = lastRecv'[x]
    BY <1>5, <1>6, <2>1 DEF Tells
  <2>2. CASE \E j \in 1..Len(unacked[x]) : more[i] = unacked[x][j]
    <3>1. PICK j \in 1..Len(unacked[x]) : more[i] = unacked[x][j]
      BY <2>2
    <3>2. ~ OneWay(e)
      <4> SUFFICES ASSUME OneWay(e) PROVE FALSE
        OBVIOUS
      <4>1. Len(unacked[x]) = 0
        BY HoldsNothing
      <4> QED
        BY <3>1, <4>1, SMT
    <3> QED
      BY <1>2, <1>6, <3>1, <3>2 DEF OldAcks
  <2> QED
    BY <2>1, <2>2
<1> QED
  BY <1>5, <1>7, <1>8, ReceiverMoves

-----------------------------------------------------------------------------
(* The steps.                                                                *)

\* What is left in the window was there before the ack.
LEMMA HandleAckHeld ==
  ASSUME TypeOK, NEW x \in Side, NEW ack, HandleAck(x, ack)
  PROVE  /\ \A i \in 1..Len(unacked'[x]) : \E j \in 1..Len(unacked[x]) : unacked'[x][i] = unacked[x][j]
         /\ unacked'[Peer(x)] = unacked[Peer(x)]
<1>1. PICK k \in 0..Len(unacked[x]) : unacked' = [unacked EXCEPT ![x] = SubSeq(@, k + 1, Len(@))]
  BY DEF HandleAck
<1>2. unacked[x] \in Seq(Packet) /\ Len(unacked[x]) \in Nat /\ Peer(x) \in Side /\ Peer(x) # x
  BY LenProperties, Constants DEF TypeOK
<1>3. unacked'[x] = SubSeq(unacked[x], k + 1, Len(unacked[x])) /\ unacked'[Peer(x)] = unacked[Peer(x)]
  BY <1>1, <1>2 DEF TypeOK
<1>4. k \in Nat /\ k <= Len(unacked[x])
  BY <1>2, SMT
<1>5. /\ Len(unacked'[x]) = Len(unacked[x]) - k
      /\ \A i \in 1..Len(unacked'[x]) : unacked'[x][i] = unacked[x][k + i]
  <2>1. k + 1 \in 1..(Len(unacked[x]) + 1)
        /\ Len(unacked[x]) \in k..Len(unacked[x]) /\ Len(unacked[x]) - (k + 1) + 1 = Len(unacked[x]) - k
    BY <1>2, <1>4, SMT
  <2> QED
    BY <1>2, <1>3, <1>4, <2>1, SubSeqProperties, SMT
<1>6. \A i \in 1..Len(unacked'[x]) : k + i \in 1..Len(unacked[x])
  BY <1>2, <1>4, <1>5, SMT
<1> QED
  BY <1>3, <1>5, <1>6

\* A packet received by one end changes nothing of what the other has received.
LEMMA AcceptFrame ==
  ASSUME TypeOK, NEW x \in Side, NEW p \in Packet, UNCHANGED receiver \/ Accept(x, p)
  PROVE  /\ lastRecv'[Peer(x)] = lastRecv[Peer(x)] /\ outOfOrder'[Peer(x)] = outOfOrder[Peer(x)]
         /\ delivered'[Peer(x)] = delivered[Peer(x)]
<1>1. Peer(x) \in Side /\ Peer(x) # x
  BY Constants
<1>2. CASE UNCHANGED receiver
  BY <1>2 DEF receiver
<1>3. CASE AcceptNext(x, p)
  BY <1>1, <1>3 DEF AcceptNext, TypeOK
<1>4. CASE outOfOrder' = [outOfOrder EXCEPT ![x][p.seq] = p.chunk] /\ UNCHANGED <<lastRecv, delivered>>
  BY <1>1, <1>4 DEF TypeOK
<1> QED
  BY <1>2, <1>3, <1>4 DEF Accept

LEMMA BothEnds ==
  ASSUME NEW x \in Side
  PROVE  \A e \in Side : e = x \/ e = Peer(x)
BY DEF Side, Peer

\* An end that reads a packet and answers it with more.
LEMMA ReadStream ==
  ASSUME TypeOK, TypeOK', StreamFits, \A f \in Side : Direction(f), NEW x \in Side,
         chan[x] # <<>>, chan'[x] = Tail(chan[x]),
         UNCHANGED <<submitted, pending, lastSent>>,
         UNCHANGED unacked \/ (HandleAck(x, Head(chan[x]).ack) /\ Head(chan[x]).kind # "rst"),
         UNCHANGED receiver \/ (Head(chan[x]).kind = "data" /\ Accept(x, Head(chan[x]))),
         NEW more \in Seq(Packet), chan'[Peer(x)] = chan[Peer(x)] \o more,
         \A i \in 1..Len(more) :
           \/ more[i].kind = "eak" /\ more[i].ack = lastRecv'[x]
           \/ \E j \in 1..Len(unacked'[x]) : more[i] = unacked'[x][j]
  PROVE  \A e \in Side : Direction(e)'
<1>1. Peer(x) \in Side /\ Peer(x) # x /\ x = Peer(Peer(x))
  BY Constants
<1>2. Head(chan[x]) \in Packet
  BY HeadTailProperties DEF TypeOK
<1>3. /\ lastRecv'[Peer(x)] = lastRecv[Peer(x)] /\ outOfOrder'[Peer(x)] = outOfOrder[Peer(x)]
      /\ delivered'[Peer(x)] = delivered[Peer(x)]
  BY <1>2, AcceptFrame
<1>4. /\ \A i \in 1..Len(unacked'[x]) : \E j \in 1..Len(unacked[x]) : unacked'[x][i] = unacked[x][j]
      /\ unacked'[Peer(x)] = unacked[Peer(x)]
  <2>1. CASE UNCHANGED unacked
    BY <2>1
  <2>2. CASE HandleAck(x, Head(chan[x]).ack)
    BY <2>2, HandleAckHeld
  <2> QED
    BY <2>1, <2>2
<1>5. unacked'[x] \in Seq(Packet) /\ outOfOrder'[x] \in [Psn -> Nat]
  BY DEF TypeOK
<1>6. Direction(x)'
  <2>1. \A i \in 1..Len(more) :
          more[i].kind # "data" \/ \E j \in 1..Len(unacked'[x]) : more[i] = unacked'[x][j]
    OBVIOUS
  <2>2. \/ unacked'[x] = unacked[x]
        \/ HandleAck(x, Head(chan[x]).ack) /\ Head(chan[x]).kind # "rst"
    OBVIOUS
  <2>3. Direction(x) /\ submitted'[x] = submitted[x] /\ pending'[x] = pending[x] /\ lastSent'[x] = lastSent[x]
    OBVIOUS
  <2> QED
    BY <1>3, <1>4, <1>5, <2>1, <2>2, <2>3, SenderSteps
<1>7. Direction(Peer(x))'
  <2>1. PICK e \in Side : e = Peer(x) /\ x = Peer(e)
    BY <1>1
  <2>2. \A i \in 1..Len(unacked'[x]) :
          unacked'[x][i].ack = lastRecv'[x] \/ \E j \in 1..Len(unacked[x]) : unacked'[x][i] = unacked[x][j]
    BY <1>4
  <2>3. \A i \in 1..Len(more) :
          \/ more[i].kind = "rst" \/ more[i].ack = lastRecv'[x]
          \/ \E j \in 1..Len(unacked[x]) : more[i] = unacked[x][j]
    BY <1>4
  <2>4. Direction(e) /\ SendInv(x)
    BY DEF Direction
  <2>5. /\ submitted'[e] = submitted[e] /\ pending'[e] = pending[e]
        /\ lastSent'[e] = lastSent[e] /\ unacked'[e] = unacked[e] /\ chan'[e] = chan[e] \o more
    BY <1>4, <2>1
  <2>6. Direction(e)'
    BY <1>5, <2>1, <2>2, <2>3, <2>4, <2>5, ReceiverSteps
  <2> QED
    BY <2>1, <2>6
<1> QED
  BY <1>6, <1>7, BothEnds

\* An end that only writes.
LEMMA WriteStream ==
  ASSUME TypeOK, TypeOK', StreamFits, \A f \in Side : Direction(f), NEW x \in Side,
         NEW more \in Seq(Packet), Write(x, more),
         UNCHANGED <<submitted, pending, lastSent, unacked>>, UNCHANGED receiver,
         \A i \in 1..Len(more) :
           more[i].kind = "rst" \/ \E j \in 1..Len(unacked[x]) : more[i] = unacked[x][j]
  PROVE  \A e \in Side : Direction(e)'
<1>1. Peer(x) \in Side /\ Peer(x) # x /\ x = Peer(Peer(x))
  BY Constants
<1>2. chan'[Peer(x)] = chan[Peer(x)] \o more /\ chan'[x] = chan[x]
  BY <1>1 DEF Write, TypeOK
<1>3. unacked'[x] \in Seq(Packet) /\ outOfOrder'[x] \in [Psn -> Nat]
      /\ UNCHANGED <<lastRecv, outOfOrder, delivered>>
  BY DEF TypeOK, receiver
<1>4. Direction(x)'
  <2>1. \A i \in 1..Len(more) :
          more[i].kind # "data" \/ \E j \in 1..Len(unacked'[x]) : more[i] = unacked'[x][j]
    OBVIOUS
  <2> QED
    BY <1>2, <1>3, <2>1, SenderSteps
<1>5. Direction(Peer(x))'
  <2>1. PICK e \in Side : e = Peer(x) /\ x = Peer(e)
    BY <1>1
  <2>2. \A i \in 1..Len(unacked'[x]) :
          unacked'[x][i].ack = lastRecv'[x] \/ \E j \in 1..Len(unacked[x]) : unacked'[x][i] = unacked[x][j]
    OBVIOUS
  <2>3. \A i \in 1..Len(more) :
          \/ more[i].kind = "rst" \/ more[i].ack = lastRecv'[x]
          \/ \E j \in 1..Len(unacked[x]) : more[i] = unacked[x][j]
    OBVIOUS
  <2>4. Direction(e) /\ SendInv(x)
    BY DEF Direction
  <2>5. /\ submitted'[e] = submitted[e] /\ pending'[e] = pending[e]
        /\ lastSent'[e] = lastSent[e] /\ unacked'[e] = unacked[e] /\ chan'[e] = chan[e] \o more
    BY <1>2, <2>1
  <2>6. Direction(e)'
    BY <1>2, <1>3, <2>1, <2>2, <2>3, <2>4, <2>5, ReceiverSteps
  <2> QED
    BY <2>1, <2>6
<1> QED
  BY <1>4, <1>5, BothEnds

\* Reading a packet without answering it.
LEMMA QuietDecodeStream ==
  ASSUME TypeOK, TypeOK', StreamFits, \A f \in Side : Direction(f), NEW x \in Side,
         DecodeAck(x) \/ DecodeRst(x) \/ DropCorrupt(x)
  PROVE  \A e \in Side : Direction(e)'
<1>1. chan[x] # <<>> /\ chan' = [chan EXCEPT ![x] = Tail(@)] /\ Peer(x) \in Side /\ Peer(x) # x
  BY Constants DEF DecodeAck, DecodeRst, DropCorrupt, Reading
<1>2. chan'[x] = Tail(chan[x]) /\ chan'[Peer(x)] = chan[Peer(x)] \o <<>>
  <2>1. chan[Peer(x)] \in Seq(Packet)
    BY <1>1 DEF TypeOK
  <2>2. chan'[x] = Tail(chan[x]) /\ chan'[Peer(x)] = chan[Peer(x)]
    BY <1>1 DEF TypeOK
  <2> QED
    BY <2>1, <2>2, ConcatEmptySeq
<1>3. UNCHANGED receiver /\ UNCHANGED <<submitted, pending, lastSent>>
  BY DEF DecodeAck, DecodeRst, DropCorrupt, sender
<1>4. UNCHANGED unacked \/ (HandleAck(x, Head(chan[x]).ack) /\ Head(chan[x]).kind # "rst")
  BY DEF DecodeAck, DecodeRst, DropCorrupt, sender
<1>5. <<>> \in Seq(Packet) /\ \A i \in 1..Len(<<>>) : FALSE
  BY EmptySeq, SMT
<1>6. \A i \in 1..Len(<<>>) :
        \/ <<>>[i].kind = "eak" /\ <<>>[i].ack = lastRecv'[x]
        \/ \E j \in 1..Len(unacked'[x]) : <<>>[i] = unacked'[x][j]
  BY <1>5
<1> QED
  BY <1>1, <1>2, <1>3, <1>4, <1>5, <1>6, ReadStream

\* Reading data, and answering with an EAK while a gap is left.
LEMMA DecodeDataStream ==
  ASSUME TypeOK, TypeOK', StreamFits, \A f \in Side : Direction(f), NEW x \in Side, DecodeData(x)
  PROVE  \A e \in Side : Direction(e)'
<1>1. chan[x] # <<>> /\ Peer(x) \in Side /\ Peer(x) # x
  BY Constants DEF DecodeData, Reading
<1>2. UNCHANGED <<submitted, pending, lastSent>>
      /\ HandleAck(x, Head(chan[x]).ack) /\ Head(chan[x]).kind = "data" /\ Accept(x, Head(chan[x]))
  BY DEF DecodeData
<1>3. Head(chan[x]).kind # "rst"
  BY <1>2
<1> DEFINE eak == Eak(lastSent[x], lastRecv'[x], Missing(outOfOrder'[x], lastRecv'[x]))
<1>4. eak \in Packet /\ eak.kind = "eak" /\ eak.ack = lastRecv'[x]
  <2>1. lastRecv'[x] \in Psn
    BY DEF TypeOK
  <2>2. eak \in Packet
    BY <2>1, ReplyType
  <2> QED
    BY <2>2 DEF Eak
<1>5. chan'[x] = Tail(chan[x])
      /\ (chan'[Peer(x)] = chan[Peer(x)] \/ chan'[Peer(x)] = Append(chan[Peer(x)], eak))
  <2>1. CASE chan' = [chan EXCEPT ![x] = Tail(@)]
    BY <1>1, <2>1 DEF TypeOK
  <2>2. CASE chan' = [chan EXCEPT ![x] = Tail(@), ![Peer(x)] = Append(@, eak)]
    BY <1>1, <2>2 DEF TypeOK
  <2> QED
    BY <2>1, <2>2 DEF DecodeData
<1>6. chan[Peer(x)] \in Seq(Packet)
  BY <1>1 DEF TypeOK
<1> HIDE DEF eak
<1>7. CASE chan'[Peer(x)] = chan[Peer(x)]
  <2>1. <<>> \in Seq(Packet) /\ \A i \in 1..Len(<<>>) : FALSE
    BY EmptySeq, SMT
  <2>2. \A i \in 1..Len(<<>>) :
          \/ <<>>[i].kind = "eak" /\ <<>>[i].ack = lastRecv'[x]
          \/ \E j \in 1..Len(unacked'[x]) : <<>>[i] = unacked'[x][j]
    BY <2>1
  <2>3. chan'[Peer(x)] = chan[Peer(x)] \o <<>>
    BY <1>6, <1>7, ConcatEmptySeq
  <2> QED
    BY <1>1, <1>2, <1>3, <1>5, <2>1, <2>2, <2>3, ReadStream
<1>8. CASE chan'[Peer(x)] = Append(chan[Peer(x)], eak)
  <2>1. PICK more \in Seq(Packet) : more = <<eak>>
    <3>1. <<eak>> \in Seq(Packet)
      BY <1>4
    <3> QED
      BY <3>1
  <2>2. \A i \in 1..Len(more) :
          \/ more[i].kind = "eak" /\ more[i].ack = lastRecv'[x]
          \/ \E j \in 1..Len(unacked'[x]) : more[i] = unacked'[x][j]
    <3>1. Len(more) = 1 /\ more[1] = eak
      BY <2>1
    <3>2. \A i \in 1..1 : i = 1
      BY SMT
    <3> QED
      BY <1>4, <3>1, <3>2
  <2>3. chan'[Peer(x)] = chan[Peer(x)] \o more
    BY <1>4, <1>6, <1>8, <2>1, AppendIsConcat
  <2> QED
    BY <1>1, <1>2, <1>3, <1>5, <2>2, <2>3, ReadStream
<1> QED
  BY <1>5, <1>7, <1>8

\* Reading an EAK, and writing again what it lists.
LEMMA DecodeEakStream ==
  ASSUME TypeOK, TypeOK', StreamFits, \A f \in Side : Direction(f), NEW x \in Side, DecodeEak(x)
  PROVE  \A e \in Side : Direction(e)'
<1>1. chan[x] # <<>> /\ Peer(x) \in Side /\ Peer(x) # x
  BY Constants DEF DecodeEak, Reading
<1>2. UNCHANGED <<submitted, pending, lastSent>> /\ UNCHANGED receiver
      /\ HandleAck(x, Head(chan[x]).ack) /\ Head(chan[x]).kind = "eak"
  BY DEF DecodeEak
<1>3. Head(chan[x]).kind # "rst"
  BY <1>2
<1>4. PICK n \in 0..Len(unacked'[x]) : \E pick \in [1..n -> 1..Len(unacked'[x])] :
        chan' = [chan EXCEPT ![x] = Tail(@),
                   ![Peer(x)] = @ \o [i \in 1..n |-> unacked'[x][pick[i]]]]
  BY DEF DecodeEak
<1>5. PICK pick \in [1..n -> 1..Len(unacked'[x])] :
        chan' = [chan EXCEPT ![x] = Tail(@),
                   ![Peer(x)] = @ \o [i \in 1..n |-> unacked'[x][pick[i]]]]
  BY <1>4
<1>6. unacked'[x] \in Seq(Packet) /\ Len(unacked'[x]) \in Nat
  <2>1. unacked'[x] \in Seq(Packet)
    BY DEF TypeOK
  <2> QED
    BY <2>1, LenProperties
<1>7. n \in Nat
  BY <1>6, SMT
<1>8. \A i \in 1..n : unacked'[x][pick[i]] \in Packet
  BY <1>5, <1>6, ElementOfSeq
<1> DEFINE again == [i \in 1..n |-> unacked'[x][pick[i]]]
<1>9. again \in Seq(Packet)
  BY <1>7, <1>8, IsASeq
<1>10. PICK more \in Seq(Packet) : more = again
  BY <1>9
<1>11. \A i \in 1..Len(more) : \E j \in 1..Len(unacked'[x]) : more[i] = unacked'[x][j]
  <2>1. Len(more) = n
    BY <1>7, <1>10, LenProperties, SMT
  <2>2. \A i \in 1..n : more[i] = unacked'[x][pick[i]] /\ pick[i] \in 1..Len(unacked'[x])
    BY <1>5, <1>10
  <2> QED
    BY <2>1, <2>2
<1>12. chan'[x] = Tail(chan[x]) /\ chan'[Peer(x)] = chan[Peer(x)] \o more
  BY <1>1, <1>5, <1>10 DEF TypeOK
<1> QED
  BY <1>1, <1>2, <1>3, <1>11, <1>12, ReadStream

\* The branches of the select that only move the end along.
LEMMA MoveStream ==
  ASSUME \A f \in Side : Direction(f), NEW x \in Side,
         Read(x) \/ RetransmitFire(x) \/ GiveUp(x) \/ Disconnect(x)
  PROVE  \A e \in Side : Direction(e)'
<1>1. /\ UNCHANGED <<submitted, pending, lastSent, unacked, chan>>
      /\ UNCHANGED <<lastRecv, outOfOrder, delivered>>
  BY DEF Read, RetransmitFire, GiveUp, Disconnect, LeaveLoop, sender, receiver
<1> QED
  BY <1>1 DEF Direction, SendInv, RecvInv, KeptInv, OldAcks, Sent, Base, Got

\* Writing the oldest packet again, and the RST.
LEMMA ParkedWriteStream ==
  ASSUME TypeOK, TypeOK', StreamFits, \A f \in Side : Direction(f), NEW x \in Side,
         Resend(x) \/ WriteRst(x)
  PROVE  \A e \in Side : Direction(e)'
<1>1. UNCHANGED <<submitted, pending, lastSent, unacked>> /\ UNCHANGED receiver
  BY DEF Resend, WriteRst, sender
<1>2. CASE Resend(x)
  <2>1. unacked[x] \in Seq(Packet)
    BY DEF TypeOK
  <2>2. PICK more \in Seq(Packet) : more = Oldest(unacked[x])
    <3>1. unacked[x] # <<>> => Head(unacked[x]) \in Packet
      BY <2>1, HeadTailProperties
    <3>2. Oldest(unacked[x]) \in Seq(Packet)
      BY <3>1 DEF Oldest
    <3> QED
      BY <3>2
  <2>3. \A i \in 1..Len(more) : \E j \in 1..Len(unacked[x]) : more[i] = unacked[x][j]
    <3>1. CASE unacked[x] = <<>>
      BY <2>2, <3>1, EmptySeq, SMT DEF Oldest
    <3>2. CASE unacked[x] # <<>>
      <4>1. Len(more) = 1 /\ more[1] = Head(unacked[x])
        BY <2>2, <3>2 DEF Oldest
      <4>2. Len(unacked[x]) \in Nat \ {0} /\ Head(unacked[x]) = unacked[x][1]
        BY <2>1, <3>2, EmptySeq
      <4>3. 1 \in 1..Len(unacked[x])
        BY <4>2, SMT
      <4>4. \A i \in 1..1 : i = 1
        BY SMT
      <4> QED
        BY <4>1, <4>2, <4>3, <4>4
    <3> QED
      BY <3>1, <3>2
  <2>4. Write(x, more)
    BY <1>2, <2>2 DEF Resend
  <2> QED
    BY <1>1, <2>3, <2>4, WriteStream
<1>3. CASE WriteRst(x)
  <2>1. PICK more \in Seq(Packet) : more = <<Rst(lastSent[x])>>
    <3>1. lastSent[x] \in Psn
      BY DEF TypeOK
    <3>2. 0 \in Nat /\ {} \in SUBSET Psn /\ lastSent[x] \in Psn
      BY <3>1
    <3>3. Rst(lastSent[x]) \in Packet
      BY <3>2, PacketTypes
    <3>4. <<Rst(lastSent[x])>> \in Seq(Packet)
      BY <3>3
    <3> QED
      BY <3>4
  <2>2. \A i \in 1..Len(more) : more[i].kind = "rst"
    <3>1. Len(more) = 1 /\ more[1] = Rst(lastSent[x])
      BY <2>1
    <3>2. \A i \in 1..1 : i = 1
      BY SMT
    <3> QED
      BY <3>1, <3>2 DEF Rst
  <2>3. Write(x, more)
    BY <1>3, <2>1 DEF WriteRst
  <2> QED
    BY <1>1, <2>2, <2>3, WriteStream
<1> QED
  BY <1>2, <1>3

\* z is s followed by t.
Joined(z, s, t) ==
  /\ Len(s) \in Nat /\ Len(t) \in Nat /\ Len(z) = Len(s) + Len(t)
  /\ \A i \in 1..Len(s) : z[i] = s[i]
  /\ \A i \in 1..Len(t) : z[Len(s) + i] = t[i]
  /\ \A i \in 1..Len(z) :
       i \notin 1..Len(s) => i - Len(s) \in 1..Len(t) /\ Len(s) + (i - Len(s)) = i

LEMMA ConcatJoined ==
  ASSUME NEW S, NEW s \in Seq(S), NEW t \in Seq(S)
  PROVE  Joined(s \o t, s, t)
<1> DEFINE z == s \o t
<1>1. /\ Len(s) \in Nat /\ Len(t) \in Nat /\ Len(z) = Len(s) + Len(t)
      /\ \A i \in 1..Len(s) : z[i] = s[i]
      /\ \A i \in 1..Len(t) : z[Len(s) + i] = t[i]
  BY LenProperties, ConcatProperties
<1> HIDE DEF z
<1>2. \A i \in 1..Len(z) :
        i \notin 1..Len(s) => i - Len(s) \in 1..Len(t) /\ Len(s) + (i - Len(s)) = i
  BY <1>1, SMT
<1>3. Joined(z, s, t)
  BY <1>1, <1>2 DEF Joined
<1> QED
  BY <1>3 DEF z

\* The rest of a sequence without its first n elements.
LEMMA DropFront ==
  ASSUME NEW s \in Seq(Nat), NEW n \in Nat, n <= Len(s)
  PROVE  /\ Len(SubSeq(s, n + 1, Len(s))) = Len(s) - n
         /\ \A i \in 1..(Len(s) - n) : SubSeq(s, n + 1, Len(s))[i] = s[n + i]
<1>1. Len(s) \in Nat
  BY LenProperties
<1>2. PICK m \in Int, len \in Int : m = n + 1 /\ len = Len(s)
  BY <1>1
<1>3. \A i \in m..len : s[i] \in Nat
  <2>1. \A i \in m..len : i \in 1..Len(s)
    BY <1>1, <1>2, SMT
  <2> QED
    BY <2>1, ElementOfSeq
<1>4. /\ SubSeq(s, m, len) \in Seq(Nat)
      /\ Len(SubSeq(s, m, len)) = IF m <= len THEN len - m + 1 ELSE 0
      /\ \A i \in 1..(len - m + 1) : SubSeq(s, m, len)[i] = s[m + i - 1]
  BY <1>3, SubSeqProperties
<1> DEFINE z == SubSeq(s, m, len)
<1>5. /\ Len(z) = IF m <= len THEN len - m + 1 ELSE 0
      /\ \A i \in 1..(len - m + 1) : z[i] = s[m + i - 1]
  BY <1>4
<1> HIDE DEF z
<1>6. Len(z) = len - n
  BY <1>1, <1>2, <1>5, SMT
<1>7. ASSUME NEW i \in 1..(len - n) PROVE z[i] = s[n + i]
  <2>1. i \in 1..(len - m + 1) /\ m + i - 1 = n + i
    BY <1>1, <1>2, SMT
  <2> QED
    BY <1>5, <2>1
<1> QED
  BY <1>2, <1>6, <1>7 DEF z

\* The application submits chunks.
LEMMA SendStream ==
  ASSUME TypeOK, TypeOK', StreamFits, \A f \in Side : Direction(f), NEW x \in Side, Send(x)
  PROVE  \A e \in Side : Direction(e)'
<1>1. /\ submitted[x] \in Nat /\ Len(pending[x]) \in Nat /\ Len(unacked[x]) \in Nat
      /\ Sent(x) \in Int /\ Base(x) \in Int /\ Got(x) \in Nat
      /\ Window[x] \in Nat /\ Submissions[x] \in Nat /\ InitialPsn[x] \in Int
      /\ Peer(x) \in Side /\ Peer(x) # x /\ Peer(Peer(x)) = x
  BY Numbers
<1>2. PICK n \in 1..MaxChunks :
        /\ submitted[x] + n <= Submissions[x]
        /\ submitted' = [submitted EXCEPT ![x] = @ + n]
        /\ pending' = [pending EXCEPT ![x] = @ \o [i \in 1..n |-> submitted[x] + i]]
  BY DEF Send
<1>3. n \in Nat
  BY LinkAssumption, SMT DEF LinkAssumption
<1> DEFINE new == [i \in 1..n |-> submitted[x] + i]
<1>4. new \in Seq(Nat) /\ Len(new) = n /\ \A i \in 1..n : new[i] = submitted[x] + i
  <2>1. \A i \in 1..n : submitted[x] + i \in Nat
    BY <1>1, <1>3, SMT
  <2>2. new \in [1..n -> Nat] /\ \A i \in 1..n : new[i] = submitted[x] + i
    BY <2>1
  <2>3. new \in Seq(Nat)
    BY <1>3, <2>1, IsASeq
  <2> HIDE DEF new
  <2>4. Len(new) = n
    BY <1>3, <2>2, <2>3, LenProperties, SMT
  <2> QED
    BY <2>2, <2>3, <2>4
<1>5. submitted'[x] = submitted[x] + n /\ pending'[x] = pending[x] \o new
      /\ submitted'[Peer(x)] = submitted[Peer(x)] /\ pending'[Peer(x)] = pending[Peer(x)]
  BY <1>1, <1>2 DEF TypeOK
<1> HIDE DEF new
<1>6. /\ Len(pending'[x]) = Len(pending[x]) + n
      /\ \A i \in 1..Len(pending[x]) : pending'[x][i] = pending[x][i]
      /\ \A i \in 1..n : pending'[x][Len(pending[x]) + i] = new[i]
      /\ \A i \in 1..Len(pending'[x]) :
           i \notin 1..Len(pending[x]) => /\ i - Len(pending[x]) \in 1..n
                                         /\ Len(pending[x]) + (i - Len(pending[x])) = i
  <2>1. pending[x] \in Seq(Nat)
    BY DEF TypeOK
  <2>2. Joined(pending'[x], pending[x], new)
    BY <1>4, <1>5, <2>1, ConcatJoined
  <2> QED
    BY <1>4, <2>2 DEF Joined
<1>7. UNCHANGED <<lastSent, unacked, chan, lastRecv, outOfOrder, delivered>>
  BY DEF Send, receiver
<1>8. Direction(x) /\ SendInv(x) /\ RecvInv(x)
  BY DEF Direction
<1>9. Sent(x)' = Sent(x)
  <2>1. Sent(x)' = submitted'[x] - Len(pending'[x])
    BY DEF Sent
  <2> QED
    BY <1>1, <1>3, <1>5, <1>6, <2>1, SMT DEF Sent
<1>10. Base(x)' = Base(x)
  BY <1>7, <1>9 DEF Base
<1>11. \A i \in 1..Len(pending'[x]) : pending'[x][i] = Sent(x)' + i
  <2> TAKE i \in 1..Len(pending'[x])
  <2>1. CASE i \in 1..Len(pending[x])
    BY <1>6, <1>8, <1>9, <2>1 DEF SendInv
  <2>2. CASE i \notin 1..Len(pending[x])
    <3>1. i - Len(pending[x]) \in 1..n /\ Len(pending[x]) + (i - Len(pending[x])) = i
          /\ submitted[x] + (i - Len(pending[x])) = Sent(x) + i
      <4>1. i - Len(pending[x]) \in 1..n /\ Len(pending[x]) + (i - Len(pending[x])) = i
        BY <1>6, <2>2
      <4>2. i \in Int
        OBVIOUS
      <4>3. submitted[x] + (i - Len(pending[x])) = (submitted[x] - Len(pending[x])) + i
        BY <1>1, <4>2, SMT
      <4> QED
        BY <4>1, <4>3 DEF Sent
    <3>2. pending'[x][Len(pending[x]) + (i - Len(pending[x]))] = submitted[x] + (i - Len(pending[x]))
      BY <1>4, <1>6, <3>1
    <3> QED
      BY <1>9, <3>1, <3>2
  <2> QED
    BY <2>1, <2>2
<1>12. submitted'[x] <= Submissions[x] /\ Len(pending'[x]) <= submitted'[x]
  <2>1. Len(pending[x]) <= submitted[x]
    BY <1>8 DEF SendInv
  <2> QED
    BY <1>1, <1>2, <1>3, <1>5, <1>6, <2>1, SMT
<1>13. SendInv(x)'
  BY <1>7, <1>8, <1>9, <1>10, <1>11, <1>12 DEF SendInv
<1>14. PICK more \in Seq(Packet) : more = <<>> /\ Len(more) = 0
  BY EmptySeq
<1>15. /\ \A i \in 1..Len(more) : FALSE
       /\ \A e \in Side : chan'[e] = chan[e] \o more
  <2>1. \A i \in 1..0 : FALSE
    BY SMT
  <2>2. \A e \in Side : chan[e] \in Seq(Packet)
    BY DEF TypeOK
  <2> QED
    BY <1>7, <1>14, <2>1, <2>2, ConcatEmptySeq
<1>16. Direction(x)'
  <2>1. Fresh(x, more, Sent(x)')
    BY <1>15 DEF Fresh
  <2>2. Acks(x, chan'[x], Base(x)', Got(x))
    BY <1>7, <1>8, <1>10 DEF Direction
  <2>3. Sent(x)' \in Int /\ Sent(x) <= Sent(x)' /\ Base(x)' \in Int /\ Base(x)' <= Got(x)
    <3>1. Base(x) <= Got(x)
      BY <1>8 DEF RecvInv
    <3> QED
      BY <1>1, <1>9, <1>10, <3>1, SMT
  <2> QED
    BY <1>1, <1>7, <1>8, <1>13, <1>15, <2>1, <2>2, <2>3, SenderMoves
<1>17. Direction(Peer(x))'
  <2>1. PICK e \in Side : e = Peer(x) /\ x = Peer(e)
    BY <1>1
  <2>2. \A i \in 1..Len(unacked'[x]) :
          unacked'[x][i].ack = lastRecv'[x] \/ \E j \in 1..Len(unacked[x]) : unacked'[x][i] = unacked[x][j]
    BY <1>7
  <2>3. \A i \in 1..Len(more) :
          \/ more[i].kind = "rst" \/ more[i].ack = lastRecv'[x]
          \/ \E j \in 1..Len(unacked[x]) : more[i] = unacked[x][j]
    BY <1>15
  <2>4. Direction(e) /\ SendInv(x)
    BY <1>8
  <2>5. /\ submitted'[e] = submitted[e] /\ pending'[e] = pending[e]
        /\ lastSent'[e] = lastSent[e] /\ unacked'[e] = unacked[e] /\ chan'[e] = chan[e] \o more
    BY <1>5, <1>7, <1>15, <2>1
  <2>6. outOfOrder'[x] \in [Psn -> Nat] /\ chan'[x] = chan[x] /\ UNCHANGED receiver
    BY <1>7 DEF TypeOK, receiver
  <2>7. Direction(e)'
    BY <2>1, <2>2, <2>3, <2>4, <2>5, <2>6, ReceiverSteps
  <2> QED
    BY <2>1, <2>7
<1> QED
  BY <1>16, <1>17, BothEnds

\* The window is filled and the debt is paid.
LEMMA FlushStream ==
  ASSUME TypeOK, TypeOK', StreamFits, \A f \in Side : Direction(f), NEW x \in Side, Flush(x)
  PROVE  \A e \in Side : Direction(e)'
<1>1. /\ submitted[x] \in Nat /\ Len(pending[x]) \in Nat /\ Len(unacked[x]) \in Nat
      /\ Sent(x) \in Int /\ Base(x) \in Int /\ Got(x) \in Nat
      /\ Window[x] \in Nat /\ Submissions[x] \in Nat /\ InitialPsn[x] \in Int
      /\ Peer(x) \in Side /\ Peer(x) # x /\ Peer(Peer(x)) = x
  BY Numbers
<1>2. Direction(x) /\ SendInv(x) /\ RecvInv(x)
  BY DEF Direction
<1> DEFINE n == Sendable(x)
           out == Outgoing(x, n)
           bare == IF n = 0 /\ owesAck[x] THEN <<Ack(lastSent[x], lastRecv[x])>> ELSE <<>>
<1>3. /\ Write(x, out \o bare)
      /\ lastSent' = [lastSent EXCEPT ![x] = Plus(@, n)]
      /\ pending' = [pending EXCEPT ![x] = SubSeq(@, n + 1, Len(@))]
      /\ unacked' = [unacked EXCEPT ![x] = @ \o out]
      /\ UNCHANGED receiver /\ submitted' = submitted
  BY DEF Flush
<1>4. n \in 0..Len(pending[x]) /\ out \in Seq(Packet) /\ Len(out) = n
  BY OutgoingType
<1>5. n \in Nat /\ n <= Len(pending[x])
  <2> HIDE DEF n
  <2> QED
    BY <1>1, <1>4, SMT
<1>6. Len(unacked[x]) <= Window[x] /\ Len(unacked[x]) + n <= Window[x]
  <2>1. Len(unacked[x]) <= Window[x]
    BY <1>2 DEF SendInv
  <2> QED
    BY <1>1, <2>1, SMT DEF Sendable, Min2
<1>7. \A i \in 1..n : out[i] = Data(Plus(lastSent[x], i), lastRecv[x], pending[x][i])
  BY DEF Outgoing
<1>8. bare \in Seq(Packet) /\ \A i \in 1..Len(bare) : bare[i].kind = "ack" /\ bare[i].ack = lastRecv[x]
  <2>1. Ack(lastSent[x], lastRecv[x]) \in Packet
    BY PacketTypes DEF TypeOK
  <2>2. CASE n = 0 /\ owesAck[x]
    <3>1. bare = <<Ack(lastSent[x], lastRecv[x])>>
      BY <2>2
    <3> HIDE DEF bare
    <3>2. bare \in Seq(Packet) /\ Len(bare) = 1 /\ bare[1] = Ack(lastSent[x], lastRecv[x])
      BY <2>1, <3>1
    <3>3. \A i \in 1..1 : i = 1
      BY SMT
    <3> QED
      BY <3>2, <3>3 DEF Ack
  <2>3. CASE ~ (n = 0 /\ owesAck[x])
    <3>1. bare = <<>>
      BY <2>3
    <3>2. <<>> \in Seq(Packet) /\ \A i \in 1..Len(<<>>) : FALSE
      BY EmptySeq, SMT
    <3> QED
      BY <3>1, <3>2
  <2> QED
    BY <2>2, <2>3
<1>9. /\ chan'[Peer(x)] = chan[Peer(x)] \o (out \o bare) /\ chan'[x] = chan[x]
      /\ lastSent'[x] = Plus(lastSent[x], n) /\ lastSent'[Peer(x)] = lastSent[Peer(x)]
      /\ pending'[x] = SubSeq(pending[x], n + 1, Len(pending[x])) /\ pending'[Peer(x)] = pending[Peer(x)]
      /\ unacked'[x] = unacked[x] \o out /\ unacked'[Peer(x)] = unacked[Peer(x)]
  <2> HIDE DEF n, out, bare
  <2> QED
    BY <1>1, <1>3 DEF Write, TypeOK
<1>10. UNCHANGED <<lastRecv, outOfOrder, delivered>> /\ submitted'[x] = submitted[x]
       /\ submitted'[Peer(x)] = submitted[Peer(x)]
  BY <1>3 DEF receiver
<1> HIDE DEF n, out, bare
<1>11. Joined(unacked'[x], unacked[x], out) /\ Joined(out \o bare, out, bare)
  BY <1>4, <1>8, <1>9, ConcatJoined DEF TypeOK
<1>12. /\ Len(pending'[x]) = Len(pending[x]) - n
       /\ \A i \in 1..Len(pending'[x]) : pending'[x][i] = pending[x][n + i]
  <2>1. pending[x] \in Seq(Nat)
    BY DEF TypeOK
  <2>2. /\ Len(SubSeq(pending[x], n + 1, Len(pending[x]))) = Len(pending[x]) - n
        /\ \A i \in 1..(Len(pending[x]) - n) :
             SubSeq(pending[x], n + 1, Len(pending[x]))[i] = pending[x][n + i]
    BY <1>5, <2>1, DropFront
  <2> QED
    BY <1>9, <2>2
\* The numbers afterwards.
<1>13. Sent(x)' = Sent(x) + n
  <2>1. Sent(x)' = submitted'[x] - Len(pending'[x])
    BY DEF Sent
  <2> QED
    BY <1>1, <1>5, <1>10, <1>12, <2>1, SMT DEF Sent
<1>14. Len(unacked'[x]) = Len(unacked[x]) + n
  BY <1>4, <1>11 DEF Joined
<1>15. Base(x)' = Base(x)
  <2>1. Base(x)' = Sent(x)' - Len(unacked'[x])
    BY DEF Base
  <2> QED
    BY <1>1, <1>5, <1>13, <1>14, <2>1, SMT DEF Base
<1>16. Sent(x) = Base(x) + Len(unacked[x]) /\ Base(x) \in Nat /\ Sent(x) \in Nat
  <2>1. Len(unacked[x]) <= Sent(x)
    BY <1>2 DEF SendInv
  <2> QED
    BY <1>1, <2>1, SMT DEF Base
\* A new packet carries the chunk after those in the window.
<1>17. ASSUME NEW i \in Int PROVE Plus(lastSent[x], i) = Num(x, Sent(x) + i)
  <2>1. lastSent[x] = Plus(InitialPsn[x], Sent(x))
    BY <1>2 DEF SendInv, Num
  <2>2. Plus(Plus(InitialPsn[x], Sent(x)), i) = Plus(InitialPsn[x], Sent(x) + i)
    BY <1>1, <1>17, PlusPlus
  <2> QED
    BY <2>1, <2>2 DEF Num
<1>18. \A i \in 1..n :
         /\ out[i].kind = "data" /\ out[i].ack = lastRecv[x]
         /\ out[i].chunk = Sent(x) + i /\ out[i].seq = Num(x, Sent(x) + i)
  <2> TAKE i \in 1..n
  <2>1. i \in Int /\ i \in 1..Len(pending[x])
    BY <1>1, <1>5, SMT
  <2>2. pending[x][i] = Sent(x) + i
    BY <1>2, <2>1 DEF SendInv
  <2>3. Plus(lastSent[x], i) = Num(x, Sent(x) + i)
    BY <1>17, <2>1
  <2>4. /\ out[i].kind = "data" /\ out[i].ack = lastRecv[x]
        /\ out[i].chunk = pending[x][i] /\ out[i].seq = Plus(lastSent[x], i)
    <3>1. out[i] = Data(Plus(lastSent[x], i), lastRecv[x], pending[x][i])
      BY <1>7
    <3> QED
      BY <3>1 DEF Data
  <2> QED
    BY <2>2, <2>3, <2>4
<1>19. \A i \in 1..Len(unacked'[x]) :
         /\ unacked'[x][i].kind = "data"
         /\ unacked'[x][i].chunk = Base(x)' + i
         /\ unacked'[x][i].seq = Num(x, Base(x)' + i)
  <2> TAKE i \in 1..Len(unacked'[x])
  <2>1. CASE i \in 1..Len(unacked[x])
    BY <1>2, <1>11, <1>15, <2>1 DEF SendInv, Joined
  <2>2. CASE i \notin 1..Len(unacked[x])
    <3> DEFINE j == i - Len(unacked[x])
    <3>1. j \in 1..n /\ Len(unacked[x]) + j = i /\ unacked'[x][Len(unacked[x]) + j] = out[j]
      BY <1>4, <1>11, <2>2 DEF Joined
    <3> HIDE DEF j
    <3>2. Sent(x) + j = Base(x) + i
      BY <1>1, <1>5, <1>16, <3>1, SMT
    <3> QED
      BY <1>15, <1>18, <3>1, <3>2
  <2> QED
    BY <2>1, <2>2
<1>20. \A i \in 1..Len(pending'[x]) : pending'[x][i] = Sent(x)' + i
  <2> TAKE i \in 1..Len(pending'[x])
  <2>1. n + i \in 1..Len(pending[x]) /\ Sent(x) + (n + i) = (Sent(x) + n) + i
    BY <1>1, <1>5, <1>12, SMT
  <2> QED
    BY <1>2, <1>12, <1>13, <2>1 DEF SendInv
<1>21. /\ Len(pending'[x]) <= submitted'[x] /\ Len(unacked'[x]) <= Window[x]
       /\ Len(unacked'[x]) <= Sent(x)' /\ submitted'[x] <= Submissions[x]
  <2>1. Len(pending[x]) <= submitted[x] /\ Len(unacked[x]) <= Sent(x) /\ submitted[x] <= Submissions[x]
    BY <1>2 DEF SendInv
  <2> QED
    BY <1>1, <1>5, <1>6, <1>10, <1>12, <1>13, <1>14, <2>1, SMT
<1>22. lastSent'[x] = Num(x, Sent(x)')
  BY <1>5, <1>9, <1>13, <1>17
<1>23. SendInv(x)'
  BY <1>19, <1>20, <1>21, <1>22 DEF SendInv
<1>24. PICK more \in Seq(Packet) : more = out \o bare
  BY <1>4, <1>8, ConcatProperties
<1>25. ASSUME NEW i \in 1..Len(more)
       PROVE  /\ more[i].ack = lastRecv[x]
              /\ more[i].kind = "ack" \/ \E j \in 1..Len(unacked'[x]) : more[i] = unacked'[x][j]
  <2>1. Joined(more, out, bare)
    BY <1>11, <1>24
  <2>2. CASE i \in 1..Len(out)
    <3>1. more[i] = out[i] /\ i \in 1..n
      BY <1>4, <2>1, <2>2 DEF Joined
    <3>2. Len(unacked[x]) + i \in 1..Len(unacked'[x]) /\ unacked'[x][Len(unacked[x]) + i] = out[i]
      <4>1. unacked'[x][Len(unacked[x]) + i] = out[i]
        BY <1>11, <2>2 DEF Joined
      <4>2. Len(unacked[x]) + i \in 1..Len(unacked'[x])
        BY <1>1, <1>5, <1>14, <3>1, SMT
      <4> QED
        BY <4>1, <4>2
    <3> QED
      BY <1>18, <3>1, <3>2
  <2>3. CASE i \notin 1..Len(out)
    <3>1. i - Len(out) \in 1..Len(bare) /\ more[i] = bare[i - Len(out)]
      BY <2>1, <2>3 DEF Joined
    <3> QED
      BY <1>8, <3>1
  <2> QED
    BY <2>2, <2>3
<1>26. Direction(x)'
  <2>1. Sent(x)' \in Nat /\ Base(x)' \in Nat /\ Sent(x)' = Base(x)' + Len(unacked'[x]) /\ Sent(x) <= Sent(x)'
    <3>1. \A s \in Nat, m \in Nat : s + m \in Nat /\ s <= s + m
      BY SMT
    <3>2. \A b \in Nat, u \in Nat, m \in Nat : (b + u) + m = b + (u + m)
      BY SMT
    <3>3. Sent(x) + n \in Nat /\ Sent(x) <= Sent(x) + n
      BY <1>5, <1>16, <3>1
    <3>4. Sent(x) + n = (Base(x) + Len(unacked[x])) + n
      BY <1>16
    <3>5. Sent(x) + n = Base(x) + (Len(unacked[x]) + n)
      BY <1>1, <1>5, <1>16, <3>2, <3>4
    <3> QED
      BY <1>13, <1>14, <1>15, <1>16, <3>3, <3>5
  <2>2. \A i \in 1..Len(unacked'[x]) :
          Carries(x, unacked'[x][i], Sent(x)') /\ Within(x, unacked'[x][i], Sent(x)')
    <3>1. unacked'[x] \in Seq(Packet)
      BY DEF TypeOK
    <3> QED
      BY <1>19, <1>21, <2>1, <3>1, WindowFresh
  <2>3. Fresh(x, more, Sent(x)')
    <3> SUFFICES ASSUME NEW i \in 1..Len(more)
                 PROVE  Carries(x, more[i], Sent(x)') /\ Within(x, more[i], Sent(x)')
      BY DEF Fresh
    <3>1. CASE more[i].kind = "ack"
      BY <3>1 DEF Carries, Within
    <3>2. CASE \E j \in 1..Len(unacked'[x]) : more[i] = unacked'[x][j]
      BY <2>2, <3>2
    <3> QED
      BY <1>25, <3>1, <3>2
  <2>4. Acks(x, chan'[x], Base(x)', Got(x)) /\ Base(x)' <= Got(x)
    BY <1>2, <1>9, <1>15 DEF Direction, RecvInv
  <2>5. Sent(x)' \in Int /\ Base(x)' \in Int
    BY <2>1
  <2> QED
    BY <1>1, <1>2, <1>9, <1>10, <1>23, <1>24, <2>1, <2>3, <2>4, <2>5, SenderMoves
<1>27. Direction(Peer(x))'
  <2>1. PICK e \in Side : e = Peer(x) /\ x = Peer(e)
    BY <1>1
  <2>2. \A i \in 1..Len(unacked'[x]) :
          unacked'[x][i].ack = lastRecv'[x] \/ \E j \in 1..Len(unacked[x]) : unacked'[x][i] = unacked[x][j]
    <3> TAKE i \in 1..Len(unacked'[x])
    <3>1. CASE i \in 1..Len(unacked[x])
      BY <1>11, <3>1 DEF Joined
    <3>2. CASE i \notin 1..Len(unacked[x])
      <4>1. i - Len(unacked[x]) \in 1..n /\ unacked'[x][i] = out[i - Len(unacked[x])]
        BY <1>4, <1>11, <3>2 DEF Joined
      <4> QED
        BY <1>10, <1>18, <4>1
    <3> QED
      BY <3>1, <3>2
  <2>3. \A i \in 1..Len(more) :
          \/ more[i].kind = "rst" \/ more[i].ack = lastRecv'[x]
          \/ \E j \in 1..Len(unacked[x]) : more[i] = unacked[x][j]
    BY <1>10, <1>25
  <2>4. Direction(e) /\ SendInv(x)
    BY <1>2
  <2>5. /\ submitted'[e] = submitted[e] /\ pending'[e] = pending[e]
        /\ lastSent'[e] = lastSent[e] /\ unacked'[e] = unacked[e] /\ chan'[e] = chan[e] \o more
    BY <1>9, <1>10, <1>24, <2>1
  <2>6. outOfOrder'[x] \in [Psn -> Nat] /\ chan'[x] = chan[x] /\ UNCHANGED receiver
    BY <1>3, <1>9 DEF TypeOK
  <2>7. Direction(e)'
    BY <2>1, <2>2, <2>3, <2>4, <2>5, <2>6, ReceiverSteps
  <2> QED
    BY <2>1, <2>7
<1> QED
  BY <1>26, <1>27, BothEnds

-----------------------------------------------------------------------------
(* Theorems.                                                                 *)

LEMMA StreamStep ==
  ASSUME TypeOK, TypeOK', StreamFits, \A f \in Side : Direction(f), [Next]_vars
  PROVE  \A e \in Side : Direction(e)'
<1>1. CASE UNCHANGED vars
  BY <1>1 DEF vars, Direction, SendInv, RecvInv, KeptInv, OldAcks, Sent, Base, Got
<1>2. ASSUME NEW x \in Side, Decode(x) PROVE \A e \in Side : Direction(e)'
  BY <1>2, QuietDecodeStream, DecodeDataStream, DecodeEakStream DEF Decode
<1>3. ASSUME NEW x \in Side,
             \/ Read(x) \/ DropCorrupt(x) \/ Flush(x) \/ Send(x) \/ RetransmitFire(x)
             \/ Resend(x) \/ GiveUp(x) \/ Disconnect(x) \/ WriteRst(x)
      PROVE  \A e \in Side : Direction(e)'
  BY <1>3, QuietDecodeStream, FlushStream, SendStream, MoveStream, ParkedWriteStream
<1> QED
  BY <1>1, <1>2, <1>3 DEF Next

LEMMA StreamInit == Init => \A e \in Side : Direction(e)
<1> SUFFICES ASSUME Init, NEW e \in Side PROVE Direction(e)
  OBVIOUS
<1>1. Peer(e) \in Side /\ Peer(Peer(e)) = e /\ InitialPsn[e] \in Psn /\ Submissions[e] \in Nat
      /\ Window[e] \in Nat
  BY Constants
<1>2. /\ submitted[e] = 0 /\ pending[e] = <<>> /\ unacked[e] = <<>> /\ unacked[Peer(e)] = <<>>
      /\ delivered[Peer(e)] = <<>> /\ chan[e] = <<>> /\ chan[Peer(e)] = <<>>
      /\ lastSent[e] = InitialPsn[e] /\ lastRecv[Peer(e)] = InitialPsn[e]
      /\ outOfOrder[Peer(e)] = [s \in Psn |-> None]
  BY <1>1 DEF Init
<1>3. Len(<<>>) = 0 /\ (\A i \in 1..0 : FALSE) /\ 0 - 0 = 0
  BY SMT
<1>4. Sent(e) = 0 /\ Base(e) = 0 /\ Got(e) = 0
  BY <1>2, <1>3 DEF Sent, Base, Got
<1>5. InitialPsn[e] = Num(e, 0)
  BY <1>1, PlusOwn DEF Num
<1>6. SendInv(e)
  <2>1. 0 <= Submissions[e] /\ 0 <= Window[e] /\ 0 <= 0
    BY <1>1, SMT
  <2> QED
    BY <1>2, <1>3, <1>4, <1>5, <2>1 DEF SendInv
<1>7. RecvInv(e)
  <2>1. 0 <= 0
    BY SMT
  <2> QED
    BY <1>2, <1>3, <1>4, <1>5, <2>1 DEF RecvInv
<1>8. KeptInv(e)
  BY <1>2 DEF KeptInv
<1>9. Wire(e, chan[Peer(e)], Sent(e), Got(e), outOfOrder[Peer(e)]) /\ OldAcks(e)
  BY <1>2, <1>3 DEF Wire, OldAcks
<1>10. Acks(e, chan[e], Base(e), Got(e))
  <2>1. [i \in 1..0 |-> 0] \in [1..0 -> 0..0]
    BY <1>3
  <2> QED
    BY <1>2, <1>3, <1>4, <2>1 DEF Acks
<1> QED
  BY <1>6, <1>7, <1>8, <1>9, <1>10 DEF Direction

StreamInv == TypeOK /\ \A e \in Side : Direction(e)

LEMMA StreamInvariant == ASSUME StreamFits PROVE Spec => []StreamInv
<1>1. Init => StreamInv
  BY InitType, StreamInit DEF StreamInv
<1>2. StreamInv /\ [Next]_vars => StreamInv'
  BY NextType, StreamStep DEF StreamInv
<1> QED
  BY <1>1, <1>2, PTL DEF Spec

\* What the sender forgets has been delivered, however late an ack is and however
\* often the PSNs go round (handle_inbound_ack).
THEOREM AckedDelivered == ASSUME StreamFits PROVE Spec => []AckedWasDelivered
<1>1. StreamInv => AckedWasDelivered
  BY DEF StreamInv, Direction, RecvInv, Base, Sent, Got, AckedWasDelivered
<1> QED
  BY <1>1, StreamInvariant, PTL

-----------------------------------------------------------------------------
(* The link implements two ordered streams.                                  *)

\* What handle_inbound_data delivers are the next chunks of the peer's stream.
LEMMA DeliverRefines ==
  ASSUME TypeOK, TypeOK', NEW x \in Side, Direction(Peer(x)), Direction(Peer(x))',
         NEW p \in Packet, AcceptNext(x, p), up[x], UNCHANGED <<submitted, up>>
  PROVE  Stream!Deliver(x)
<1>1. Peer(x) \in Side /\ Peer(Peer(x)) = x
  BY Constants
<1>2. PICK e \in Side : e = Peer(x) /\ x = Peer(e)
  BY <1>1
<1>3. /\ submitted[e] \in Nat /\ Len(pending[e]) \in Nat /\ Len(unacked[e]) \in Nat
      /\ Sent(e) \in Int /\ Base(e) \in Int /\ Got(e) \in Nat
      /\ Window[e] \in Nat /\ Submissions[e] \in Nat /\ InitialPsn[e] \in Int
      /\ Peer(e) \in Side /\ Peer(e) # e /\ Peer(Peer(e)) = e
  BY Numbers
<1>4. PICK k \in 0..(Modulus - 1) :
        delivered' = [delivered EXCEPT ![x] =
             Append(@, p.chunk) \o [j \in 1..k |-> outOfOrder[x][Plus(p.seq, j)]]]
  BY DEF AcceptNext
<1> DEFINE run == [j \in 1..k |-> outOfOrder[x][Plus(p.seq, j)]]
           old == delivered[x]
           new == delivered'[x]
           len == Len(old)
           all == Len(new)
<1>5. old \in Seq(Nat) /\ new \in Seq(Nat) /\ len \in Nat /\ all \in Nat
  <2>1. old \in Seq(Nat) /\ new \in Seq(Nat)
    BY DEF TypeOK
  <2> QED
    BY <2>1, LenProperties
<1>6. len < all
  <2>1. k \in Nat
    BY Constants, SMT
  <2>2. \A j \in 1..k : outOfOrder[x][Plus(p.seq, j)] \in Nat
    <3>1. p.seq \in Int /\ \A j \in 1..k : j \in Int
      BY DEF Packet, Psn
    <3>2. \A j \in 1..k : Plus(p.seq, j) \in Psn
      BY <3>1, PsnClosed
    <3> QED
      BY <3>2 DEF TypeOK
  <2>3. run \in Seq(Nat)
    BY <2>1, <2>2, IsASeq
  <2>4. Append(old, p.chunk) \in Seq(Nat) /\ Len(Append(old, p.chunk)) = len + 1
    <3>1. p.chunk \in Nat
      BY DEF Packet
    <3> QED
      BY <1>5, <3>1, AppendProperties
  <2>5. new = Append(old, p.chunk) \o run
    BY <1>4 DEF TypeOK
  <2> HIDE DEF run, new
  <2>6. Len(new) = Len(Append(old, p.chunk)) + Len(run) /\ Len(run) \in Nat
    BY <2>3, <2>4, <2>5, LenProperties, ConcatProperties
  <2> QED
    BY <1>5, <2>4, <2>6, SMT
<1>7. Got(e) = len /\ Got(e)' = all
  BY <1>2 DEF Got
<1>8. /\ \A i \in 1..len : old[i] = i
      /\ \A i \in 1..all : new[i] = i
      /\ all <= Sent(e)'
  BY <1>2, <1>7 DEF Direction, RecvInv
<1>9. Sent(e)' <= submitted[e] /\ Sent(e)' \in Int
  <2>1. Sent(e)' = submitted[e] - Len(pending'[e])
    BY DEF Sent
  <2>2. Len(pending'[e]) \in Nat
    <3>1. pending'[e] \in Seq(Nat)
      BY DEF TypeOK
    <3> QED
      BY <3>1, LenProperties
  <2> QED
    BY <1>3, <2>1, <2>2, SMT
<1> HIDE DEF old, new, len, all, run
<1>10. PICK n \in Nat : n = all - len /\ n \in 1..(submitted[e] - len)
  <2>1. all <= Sent(e)'
    BY <1>8
  <2>2. PICK u \in Int : u = submitted[e]
    BY <1>3
  <2>3. all - len \in Nat /\ all - len \in 1..(u - len)
    BY <1>5, <1>6, <1>9, <2>1, <2>2, SMT
  <2> QED
    BY <2>2, <2>3
<1> DEFINE more == [i \in 1..n |-> len + i]
<1>11. more \in Seq(Nat) /\ Len(more) = n /\ \A i \in 1..n : more[i] = len + i
  <2>1. \A i \in 1..n : len + i \in Nat
    BY <1>5, SMT
  <2>2. more \in [1..n -> Nat] /\ \A i \in 1..n : more[i] = len + i
    BY <2>1
  <2>3. more \in Seq(Nat)
    BY <2>1, IsASeq
  <2> HIDE DEF more
  <2>4. Len(more) = n
    BY <1>10, <2>2, <2>3, LenProperties, SMT
  <2> QED
    BY <2>2, <2>3, <2>4
<1> HIDE DEF more
<1>12. new = old \o more
  <2>1. Joined(old \o more, old, more) /\ old \o more \in Seq(Nat)
    BY <1>5, <1>11, ConcatJoined, ConcatProperties
  <2>2. Len(old \o more) = all
    <3>1. Len(old \o more) = len + n
      BY <1>11, <2>1 DEF Joined, len
    <3> QED
      BY <1>5, <1>10, <3>1, SMT
  <2>3. \A i \in 1..all : (old \o more)[i] = i
    <3> TAKE i \in 1..all
    <3>1. CASE i \in 1..len
      BY <1>8, <2>1, <3>1 DEF Joined, len
    <3>2. CASE i \notin 1..len
      <4>1. i - len \in 1..n /\ len + (i - len) = i /\ (old \o more)[len + (i - len)] = more[i - len]
        BY <1>11, <2>1, <2>2, <3>2 DEF Joined, len
      <4> QED
        BY <1>11, <4>1
    <3> QED
      BY <3>1, <3>2
  <2> QED
    BY <1>5, <1>8, <2>1, <2>2, <2>3, SeqEqual DEF all
<1>13. delivered' = [delivered EXCEPT ![x] = delivered[x] \o [i \in 1..n |-> Len(delivered[x]) + i]]
  BY <1>4, <1>12 DEF new, old, len, more, TypeOK
<1>14. n \in 1..(submitted[Peer(x)] - Len(delivered[x]))
  BY <1>2, <1>10 DEF len, old
<1>15. Stream!Peer(x) = Peer(x)
  BY DEF Stream!Peer, Peer
<1> QED
  BY <1>13, <1>14, <1>15 DEF Stream!Deliver

LEMMA StepRefines ==
  ASSUME StreamInv, StreamInv', [Next]_vars
  PROVE  [Stream!Next]_<<submitted, delivered, up>>
<1>1. Stream!Side = Side
  BY DEF Stream!Side, Side
<1>2. CASE UNCHANGED vars
  BY <1>2 DEF vars
<1>3. ASSUME NEW x \in Side, DecodeData(x) PROVE [Stream!Next]_<<submitted, delivered, up>>
  <2>1. /\ Head(chan[x]) \in Packet
        /\ Tail(chan[x]) \in Seq(Packet)
        /\ stage' \in [Side -> Stages]
    BY <1>3, ReadingType DEF DecodeData, StreamInv
  <2>2. Accept(x, Head(chan[x])) /\ up[x] /\ UNCHANGED <<submitted, up>>
    BY <1>3 DEF DecodeData, Reading
  <2>3. CASE UNCHANGED delivered
    BY <2>2, <2>3
  <2>4. CASE AcceptNext(x, Head(chan[x]))
    <3>1. Peer(x) \in Side
      BY Constants
    <3>2. Direction(Peer(x)) /\ Direction(Peer(x))' /\ TypeOK /\ TypeOK'
      BY <3>1 DEF StreamInv
    <3>3. Stream!Deliver(x)
      BY <2>1, <2>2, <2>4, <3>2, DeliverRefines
    <3> QED
      BY <1>1, <3>3 DEF Stream!Next
  <2> QED
    BY <2>2, <2>3, <2>4 DEF Accept, receiver
<1>4. ASSUME NEW x \in Side,
             \/ Read(x) \/ DecodeAck(x) \/ DecodeEak(x) \/ DropCorrupt(x) \/ Flush(x)
             \/ RetransmitFire(x) \/ Resend(x) \/ WriteRst(x)
      PROVE  UNCHANGED <<submitted, delivered, up>>
  BY <1>4 DEF Read, DecodeAck, DecodeEak, DropCorrupt, Flush, RetransmitFire, Resend, WriteRst,
              receiver
<1>5. ASSUME NEW x \in Side, DecodeRst(x) \/ GiveUp(x) \/ Disconnect(x)
      PROVE  Stream!GoDown(x)
  BY <1>5 DEF DecodeRst, GiveUp, Disconnect, LeaveLoop, Reading, receiver, Stream!GoDown
<1>6. ASSUME NEW x \in Side, Send(x) PROVE Stream!Submit(x)
  <2>1. PICK n \in 1..MaxChunks :
          /\ submitted[x] + n <= Submissions[x]
          /\ submitted' = [submitted EXCEPT ![x] = @ + n]
    BY <1>6 DEF Send
  <2>2. submitted[x] \in Nat /\ Submissions[x] \in Nat /\ MaxChunks \in Nat
    BY Constants, LinkAssumption DEF StreamInv, TypeOK, LinkAssumption
  <2>3. n \in 1..(Submissions[x] - submitted[x])
    BY <2>1, <2>2, SMT
  <2>4. up[x] /\ UNCHANGED <<delivered, up>>
    BY <1>6 DEF Send, receiver
  <2> QED
    BY <2>1, <2>3, <2>4 DEF Stream!Submit
<1> QED
  BY <1>1, <1>2, <1>3, <1>4, <1>5, <1>6 DEF Next, Decode, Stream!Next

\* The link layer implements the abstract specification of two ordered streams:
\* every chunk once, in order, without a gap (established_phase).
THEOREM StreamImplemented == ASSUME StreamFits PROVE Spec => StreamSpec
<1>1. Init => Stream!Init
  BY DEF Init, Stream!Init, Stream!Side, Side
<1>2. StreamInv /\ StreamInv' /\ [Next]_vars => [Stream!Next]_<<submitted, delivered, up>>
  BY StepRefines
<1> QED
  BY <1>1, <1>2, StreamInvariant, PTL DEF Spec, StreamSpec, Stream!Spec
=============================================================================
