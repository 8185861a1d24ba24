--------------------------- MODULE Iap2Established ---------------------------
(***************************************************************************)
(* The established phase of the iAP2 link layer (crates/iap2/src/link):    *)
(* a selective-repeat window over a byte stream whose codec drops every    *)
(* packet that fails its checksum.  Both ends run EstablishedState; each   *)
(* end is one task that loops over                                         *)
(*                                                                         *)
(*   decode what has been read  ->  drain the send queue, pay the ack      *)
(*                              ->  select (read, command, retransmit)     *)
(*                                                                         *)
(* and `stage' is the point an end has reached.  The branch it takes in the *)
(* select commits it: an end that has read must decode, one whose timer    *)
(* fired must write, and while it waits for room to write it neither reads *)
(* nor looks at its timer.  A packet on the wire and a packet read but not *)
(* yet decoded are one queue, chan.                                        *)
(*                                                                         *)
(* Payload chunks are numbered in the order the application submits them.  *)
(* The numbers are the data: no guard looks at them.  The code decides on  *)
(* u8 packet sequence numbers (PSNs), here integers modulo Modulus.        *)
(*                                                                         *)
(* Left out: the RTT estimator and the back-off of the timeout (a timer    *)
(* that is armed may fire at any time), retry counts, meters, session ids. *)
(***************************************************************************)
EXTENDS Integers, Sequences

CONSTANTS
  Modulus,      \* number of PSNs: 256, the range of u8
  Window,       \* [Side -> Nat]: params.max_outgoing, from the peer's LSP
  InitialPsn,   \* [Side -> PSN]: config.initial_psn
  Submissions,  \* [Side -> Nat]: bound on the chunks an application submits
  MaxChunks,    \* bound on the chunks of one Send command
  ChanBound,    \* bound on the packets in one direction
  LossBound     \* bound on the packets lost to bad checksums

Side == {"host", "device"}

\* In the loop, or (reset, left) out of it, before and after the RST is written.
Stages == {"select", "read", "decode", "flush", "resend", "reset", "left"}

Peer(e) == IF e = "host" THEN "device" ELSE "host"

Psn == 0..(Modulus - 1)

\* `wrapping_sub(a, b) > 127` is `Ahead(a, b) >= Half'.
Half == Modulus \div 2

\* max_outgoing is a u8 and at least 1 (`.max(1)'): nothing keeps it below 128.
ASSUME LinkAssumption ==
  /\ Modulus \in Nat /\ Modulus >= 4 /\ Modulus % 2 = 0
  /\ Window \in [Side -> 1..(Modulus - 1)]
  /\ InitialPsn \in [Side -> Psn]
  /\ Submissions \in [Side -> Nat]
  /\ MaxChunks \in Nat \ {0}
  /\ ChanBound \in Nat
  /\ LossBound \in Nat

VARIABLES
  lastSent,    \* last_sent_psn
  unacked,     \* the packets sent and not acknowledged, oldest first
  pending,     \* pending_send: chunks waiting for room in the window
  lastRecv,    \* last_received_in_sequence_psn
  outOfOrder,  \* out_of_order: PSN -> chunk past a gap, or None
  owesAck,     \* must_send_ack or unacked_delivery
  armed,       \* retransmit_at is Some
  stage,       \* where the end is in the loop of established_phase
  up,          \* the loop is running: an end that left it may still owe a RST
  chan,        \* chan[e]: packets on their way to e, oldest first
  losses,      \* packets dropped so far, for LossBound
  submitted,   \* observation: chunks the application has submitted
  delivered    \* observation: DataReceived events, in order

vars == <<lastSent, unacked, pending, lastRecv, outOfOrder, owesAck, armed,
          stage, up, chan, losses, submitted, delivered>>

sender   == <<lastSent, unacked, pending, armed>>
receiver == <<lastRecv, outOfOrder, delivered>>

-----------------------------------------------------------------------------
(* Packets.  A data packet's PSN and ack field are fixed when it is first   *)
(* written: a retransmission writes the same bytes again.  The payload of   *)
(* an EAK, `miss', is the PSNs it lists.                                    *)

None == 0

Data(s, a, c) == [kind |-> "data", seq |-> s, ack |-> a, chunk |-> c, miss |-> {}]
Ack(s, a)     == [kind |-> "ack", seq |-> s, ack |-> a, chunk |-> None, miss |-> {}]
Eak(s, a, m)  == [kind |-> "eak", seq |-> s, ack |-> a, chunk |-> None, miss |-> m]
Rst(s)        == [kind |-> "rst", seq |-> s, ack |-> 0, chunk |-> None, miss |-> {}]

Packet == [kind : {"data", "ack", "eak", "rst"}, seq : Psn, ack : Psn,
           chunk : Nat, miss : SUBSET Psn]

\* Variants of the definitions below, each with one plausible mistake; the
\* properties are checked to tell each of them from the code.
Plus_NoWrap(s, n) == s + n

\* s.wrapping_add(n)
Plus(s, n) == (s + n) % Modulus

\* a.wrapping_sub(b)
Ahead(a, b) == (a - b) % Modulus

Room(e, n) == Len(chan[Peer(e)]) + n <= ChanBound

Write(e, packets) == chan' = [chan EXCEPT ![Peer(e)] = @ \o packets]

-----------------------------------------------------------------------------
Init ==
  /\ lastSent = InitialPsn
  /\ unacked = [e \in Side |-> <<>>]
  /\ pending = [e \in Side |-> <<>>]
  /\ lastRecv = [e \in Side |-> InitialPsn[Peer(e)]]
  /\ outOfOrder = [e \in Side |-> [s \in Psn |-> None]]
  /\ owesAck = [e \in Side |-> FALSE]
  /\ armed = [e \in Side |-> FALSE]
  /\ stage = [e \in Side |-> "flush"]
  /\ up = [e \in Side |-> TRUE]
  /\ chan = [e \in Side |-> <<>>]
  /\ losses = 0
  /\ submitted = [e \in Side |-> 0]
  /\ delivered = [e \in Side |-> <<>>]

-----------------------------------------------------------------------------
(* Receiving an acknowledgement.                                            *)

Covers_Swapped(ack, seq) == Ahead(seq, ack) < Half

\* ack covers the packet with PSN seq.
Covers(ack, seq) == Ahead(ack, seq) < Half

\* handle_inbound_ack pops the k packets at the front of q.
Pops(q, ack, k) ==
  /\ \A i \in 1..k : Covers(ack, q[i].seq)
  /\ k < Len(q) => ~ Covers(ack, q[k + 1].seq)

HandleAck_StopsTimer(e, ack) ==
  \E k \in 0..Len(unacked[e]) :
    /\ Pops(unacked[e], ack, k)
    /\ unacked' = [unacked EXCEPT ![e] = SubSeq(@, k + 1, Len(@))]
    /\ armed' = [armed EXCEPT ![e] = @ /\ k = 0]

\* Popping anything re-arms the timer, or stops it when nothing is left.
HandleAck(e, ack) ==
  \E k \in 0..Len(unacked[e]) :
    /\ Pops(unacked[e], ack, k)
    /\ unacked' = [unacked EXCEPT ![e] = SubSeq(@, k + 1, Len(@))]
    /\ armed' = [armed EXCEPT ![e] = IF k = 0 THEN @ ELSE k # Len(unacked[e])]

-----------------------------------------------------------------------------
(* Receiving data: what the out-of-order buffer is after it, and the EAK.   *)

Buffered(buf) == {s \in Psn : buf[s] # None}

\* The k PSNs that follow psn.
Following(psn, k) == {Plus(psn, j) : j \in 1..k}

AcceptNext_KeepsRun(e, p) ==
  \E k \in 0..(Modulus - 1) :
    /\ Following(p.seq, k) \subseteq Buffered(outOfOrder[e])
    /\ Plus(p.seq, k + 1) \notin Buffered(outOfOrder[e])
    /\ delivered' = [delivered EXCEPT ![e] =
         Append(@, p.chunk) \o [j \in 1..k |-> outOfOrder[e][Plus(p.seq, j)]]]
    /\ lastRecv' = [lastRecv EXCEPT ![e] = Plus(p.seq, k)]
    /\ UNCHANGED outOfOrder

\* The next packet in sequence: deliver it and the k buffered packets that
\* follow it without a gap.
AcceptNext(e, p) ==
  \E k \in 0..(Modulus - 1) :
    /\ Following(p.seq, k) \subseteq Buffered(outOfOrder[e])
    /\ Plus(p.seq, k + 1) \notin Buffered(outOfOrder[e])
    /\ delivered' = [delivered EXCEPT ![e] =
         Append(@, p.chunk) \o [j \in 1..k |-> outOfOrder[e][Plus(p.seq, j)]]]
    /\ lastRecv' = [lastRecv EXCEPT ![e] = Plus(p.seq, k)]
    /\ outOfOrder' = [outOfOrder EXCEPT ![e] =
         [s \in Psn |-> IF s \in Following(p.seq, k) THEN None ELSE @[s]]]

Accept_SkipsGap(e, p) ==
  IF Ahead(p.seq, lastRecv[e]) \in 1..(Window[e] - 1)
  THEN AcceptNext(e, p)
  ELSE UNCHANGED receiver

\* handle_inbound_data, without the debt it leaves (see Owes).
Accept(e, p) ==
  LET delta == Ahead(p.seq, lastRecv[e]) IN
  \/ /\ delta = 1
     /\ AcceptNext(e, p)
  \/ /\ delta > 1 /\ delta < Window[e]
     /\ outOfOrder' = [outOfOrder EXCEPT ![e][p.seq] = p.chunk]
     /\ UNCHANGED <<lastRecv, delivered>>
  \/ /\ delta = 0 \/ (delta > 1 /\ delta >= Window[e])
     /\ UNCHANGED receiver

\* out_of_order.keys().last(): the numerically largest key of the BTreeMap.
FurthestBuffered(buf, far) ==
  far \in Buffered(buf) /\ \A s \in Buffered(buf) : s <= far

\* The PSNs send_eak lists: every one from last + 1 up to the furthest
\* buffered packet that is not buffered.
Missing(buf, last) ==
  {s \in Psn \ Buffered(buf) :
     \E far \in Psn : FurthestBuffered(buf, far) /\ Ahead(s, last) \in 1..Ahead(far, last)}

\* A buffered packet owes nothing by itself; everything else owes an ack.
Owes(e, p) ==
  LET delta == Ahead(p.seq, lastRecv[e]) IN
  owesAck[e] \/ delta <= 1 \/ delta >= Window[e]

-----------------------------------------------------------------------------
(* The loop.  The select's read brings at least one packet.  Once that is   *)
(* decoded the buffer may hold more of them, or be at its end.              *)

Read(e) ==
  /\ up[e]
  /\ stage[e] = "select"
  /\ chan[e] # <<>>
  /\ stage' = [stage EXCEPT ![e] = "read"]
  /\ UNCHANGED <<sender, receiver, owesAck, up, chan, losses, submitted>>

Reading(e) ==
  /\ up[e]
  /\ stage[e] \in {"read", "decode"}
  /\ chan[e] # <<>>
  /\ stage' = [stage EXCEPT ![e] = "decode"]

\* A data packet: its ack field first, then its payload; while a gap remains
\* the end answers with an EAK, which pays the ack it owes.
DecodeData(e) ==
  /\ Reading(e)
  /\ Head(chan[e]).kind = "data"
  /\ HandleAck(e, Head(chan[e]).ack)
  /\ Accept(e, Head(chan[e]))
  /\ LET buf == outOfOrder'[e]
         last == lastRecv'[e]
     IN IF Buffered(buf) = {}
        THEN /\ chan' = [chan EXCEPT ![e] = Tail(@)]
             /\ owesAck' = [owesAck EXCEPT ![e] = Owes(e, Head(chan[e]))]
        ELSE /\ Room(e, 1)
             /\ chan' = [chan EXCEPT ![e] = Tail(@),
                           ![Peer(e)] = Append(@, Eak(lastSent[e], last, Missing(buf, last)))]
             /\ owesAck' = [owesAck EXCEPT ![e] = FALSE]
  /\ UNCHANGED <<lastSent, pending, up, losses, submitted>>

\* A bare acknowledgement.
DecodeAck(e) ==
  /\ Reading(e)
  /\ Head(chan[e]).kind = "ack"
  /\ HandleAck(e, Head(chan[e]).ack)
  /\ chan' = [chan EXCEPT ![e] = Tail(@)]
  /\ UNCHANGED <<lastSent, pending, owesAck, receiver, up, losses, submitted>>

\* pick lists, in order, the positions of q whose PSN is in miss.
Picks(pick, q, miss) ==
  /\ \A i, j \in DOMAIN pick : i < j => pick[i] < pick[j]
  /\ \A i \in 1..Len(q) : q[i].seq \in miss <=> \E j \in DOMAIN pick : pick[j] = i

\* handle_inbound_eak: resend what is listed and still held.
DecodeEak(e) ==
  /\ Reading(e)
  /\ Head(chan[e]).kind = "eak"
  /\ HandleAck(e, Head(chan[e]).ack)
  /\ \E n \in 0..Len(unacked'[e]) : \E pick \in [1..n -> 1..Len(unacked'[e])] :
       /\ Picks(pick, unacked'[e], Head(chan[e]).miss)
       /\ Room(e, n)
       /\ chan' = [chan EXCEPT ![e] = Tail(@),
                     ![Peer(e)] = @ \o [i \in 1..n |-> unacked'[e][pick[i]]]]
  /\ UNCHANGED <<lastSent, pending, owesAck, receiver, up, losses, submitted>>

\* Error::PeerReset leaves the established phase.
DecodeRst(e) ==
  /\ Reading(e)
  /\ Head(chan[e]).kind = "rst"
  /\ chan' = [chan EXCEPT ![e] = Tail(@)]
  /\ up' = [up EXCEPT ![e] = FALSE]
  /\ UNCHANGED <<sender, receiver, owesAck, losses, submitted>>

\* LinkCodec skips a packet whose header or payload checksum is wrong.
DropCorrupt(e) ==
  /\ Reading(e)
  /\ losses < LossBound
  /\ chan' = [chan EXCEPT ![e] = Tail(@)]
  /\ losses' = losses + 1
  /\ UNCHANGED <<sender, receiver, owesAck, up, submitted>>

-----------------------------------------------------------------------------
(* drain_pending_send, then send_standalone_ack if a debt is left.          *)

Min2(a, b) == IF a <= b THEN a ELSE b

Sendable_OneMore(e) ==
  IF Len(unacked[e]) <= Window[e]
  THEN Min2(Len(pending[e]), Window[e] + 1 - Len(unacked[e]))
  ELSE 0

\* How many queued chunks the window has room for.
Sendable(e) ==
  IF Len(unacked[e]) < Window[e]
  THEN Min2(Len(pending[e]), Window[e] - Len(unacked[e]))
  ELSE 0

\* The data packets for the first n queued chunks.
Outgoing(e, n) ==
  [i \in 1..n |-> Data(Plus(lastSent[e], i), lastRecv[e], pending[e][i])]

Flush(e) ==
  LET n == Sendable(e)
      out == Outgoing(e, n)
      bare == IF n = 0 /\ owesAck[e] THEN <<Ack(lastSent[e], lastRecv[e])>> ELSE <<>>
  IN
  /\ up[e]
  /\ stage[e] \in {"decode", "flush"}
  /\ Room(e, n + Len(bare))
  /\ stage' = [stage EXCEPT ![e] = "select"]
  /\ Write(e, out \o bare)
  /\ lastSent' = [lastSent EXCEPT ![e] = Plus(@, n)]
  /\ pending' = [pending EXCEPT ![e] = SubSeq(@, n + 1, Len(@))]
  /\ unacked' = [unacked EXCEPT ![e] = @ \o out]
  /\ armed' = [armed EXCEPT ![e] = @ \/ (n > 0 /\ unacked[e] = <<>>)]
  /\ owesAck' = [owesAck EXCEPT ![e] = FALSE]
  /\ UNCHANGED <<receiver, up, losses, submitted>>

\* Iap2Command::Send: enqueue_send cuts the payload into n chunks.
Send(e) ==
  /\ up[e]
  /\ stage[e] = "select"
  /\ \E n \in 1..MaxChunks :
       /\ submitted[e] + n <= Submissions[e]
       /\ submitted' = [submitted EXCEPT ![e] = @ + n]
       /\ pending' = [pending EXCEPT ![e] = @ \o [i \in 1..n |-> submitted[e] + i]]
  /\ stage' = [stage EXCEPT ![e] = "flush"]
  /\ UNCHANGED <<lastSent, unacked, armed, receiver, owesAck, up, chan, losses>>

Oldest(q) == IF q = <<>> THEN <<>> ELSE <<Head(q)>>

RetransmitFire_NoRearm(e) ==
  /\ up[e]
  /\ stage[e] = "select"
  /\ armed[e]
  /\ armed' = [armed EXCEPT ![e] = FALSE]
  /\ stage' = [stage EXCEPT ![e] = "resend"]
  /\ UNCHANGED <<lastSent, unacked, pending, receiver, owesAck, up, chan, losses, submitted>>

\* The timer fires inside its budget and is armed again.  From here the end is
\* about to write, whether or not the transport has room.
RetransmitFire(e) ==
  /\ up[e]
  /\ stage[e] = "select"
  /\ armed[e]
  /\ armed' = [armed EXCEPT ![e] = unacked[e] # <<>>]
  /\ stage' = [stage EXCEPT ![e] = "resend"]
  /\ UNCHANGED <<lastSent, unacked, pending, receiver, owesAck, up, chan, losses, submitted>>

\* Its write of the oldest unacked packet completes.  The pass through the loop
\* that follows finds nothing to send.
Resend(e) ==
  /\ up[e]
  /\ stage[e] = "resend"
  /\ Room(e, 1)
  /\ Write(e, Oldest(unacked[e]))
  /\ stage' = [stage EXCEPT ![e] = "select"]
  /\ UNCHANGED <<sender, receiver, owesAck, up, losses, submitted>>

\* The end leaves the loop with a RST to write.
LeaveLoop(e) ==
  /\ up' = [up EXCEPT ![e] = FALSE]
  /\ stage' = [stage EXCEPT ![e] = "reset"]
  /\ UNCHANGED <<sender, receiver, owesAck, chan, losses, submitted>>

\* Error::RetransmitLimit: no progress for retransmit_give_up.
GiveUp(e) ==
  /\ up[e]
  /\ stage[e] = "select"
  /\ armed[e] /\ unacked[e] # <<>>
  /\ LeaveLoop(e)

\* Iap2Command::Disconnect, or every command sender gone.
Disconnect(e) ==
  /\ up[e]
  /\ stage[e] = "select"
  /\ LeaveLoop(e)

\* local_disconnect, or run() before it restarts, writes the RST.  (run() does
\* not when its restart budget is spent: then this step is never taken.)
WriteRst(e) ==
  /\ stage[e] = "reset"
  /\ Room(e, 1)
  /\ Write(e, <<Rst(lastSent[e])>>)
  /\ stage' = [stage EXCEPT ![e] = "left"]
  /\ UNCHANGED <<sender, receiver, owesAck, up, losses, submitted>>

Decode(e) == DecodeData(e) \/ DecodeAck(e) \/ DecodeEak(e) \/ DecodeRst(e)

Next ==
  \E e \in Side :
    \/ Read(e) \/ Decode(e) \/ DropCorrupt(e) \/ Flush(e) \/ Send(e)
    \/ RetransmitFire(e) \/ Resend(e) \/ GiveUp(e) \/ Disconnect(e) \/ WriteRst(e)

Spec == Init /\ [][Next]_vars

(* Fairness.  An end's task keeps running: it decodes what it has read,       *)
(* reaches the flush that follows, and writes once there is room.  The select *)
(* is unbiased and the deadline of a pending sleep stays due, so a read that  *)
(* can complete now and again does, and a timer that is armed again and again *)
(* fires.  Nothing obliges an application to send or to disconnect, or an end *)
(* to give up.                                                                *)
Fairness ==
  \A e \in Side :
    /\ SF_vars(Read(e)) /\ WF_vars(Decode(e)) /\ WF_vars(Flush(e))
    /\ SF_vars(RetransmitFire(e)) /\ WF_vars(Resend(e))

FairSpec == Spec /\ Fairness

-----------------------------------------------------------------------------
(* Properties.                                                               *)

\* Every variable has its type: a PSN stays a u8, a queue holds packets.
TypeOK ==
  /\ lastSent \in [Side -> Psn]
  /\ unacked \in [Side -> Seq(Packet)]
  /\ pending \in [Side -> Seq(Nat)]
  /\ lastRecv \in [Side -> Psn]
  /\ outOfOrder \in [Side -> [Psn -> Nat]]
  /\ owesAck \in [Side -> BOOLEAN]
  /\ armed \in [Side -> BOOLEAN]
  /\ stage \in [Side -> Stages]
  /\ up \in [Side -> BOOLEAN]
  /\ chan \in [Side -> Seq(Packet)]
  /\ losses \in Nat
  /\ submitted \in [Side -> Nat]
  /\ delivered \in [Side -> Seq(Nat)]

\* The retransmit timer runs exactly while something is unacknowledged: a lost
\* packet is always retried, an idle link never is (arm_retransmit).
TimerGuardsUnacked == \A e \in Side : armed[e] <=> unacked[e] # <<>>

\* unacked holds the newest PSNs, with no gap, and never more than the peer's
\* window (window_has_room, send_data_packet, handle_inbound_ack).
WindowHeld ==
  \A e \in Side :
    /\ Len(unacked[e]) <= Window[e]
    /\ \A i \in 1..Len(unacked[e]) :
         unacked[e][i].seq = Ahead(lastSent[e], Len(unacked[e]) - i)

\* A buffered packet lies past a gap and inside the window: none is left behind
\* by the run that overtakes it (handle_inbound_data), so that a packet of a
\* later lap of the PSNs cannot be mistaken for it.
BufferedAhead ==
  \A e \in Side : \A s \in Buffered(outOfOrder[e]) :
    Ahead(s, lastRecv[e]) \in 2..(Window[e] - 1)

\* A chunk leaves pending and unacked only when the peer has delivered it: no
\* ack, however late, makes the sender forget a packet the peer still lacks.
AckedWasDelivered ==
  \A e \in Side :
    submitted[e] - Len(pending[e]) - Len(unacked[e]) <= Len(delivered[Peer(e)])

\* Both ends wait in write_all for the other to read, be it with an ack, an EAK,
\* data or a retransmission: each has something to read and no room to go on.
Jammed ==
  \A e \in Side :
    /\ up[e] /\ chan[e] # <<>>
    /\ ~ ENABLED (Read(e) \/ Decode(e) \/ Flush(e) \/ Resend(e))

\* A link that stays up delivers every chunk it accepted, whatever is lost,
\* unless both directions of the transport fill up for good (established_phase).
Delivery ==
  \/ <>[]Jammed
  \/ \A e \in Side : \A k \in 1..Submissions[e] :
       submitted[e] >= k ~> Len(delivered[Peer(e)]) >= k \/ \E s \in Side : ~ up[s]

\* What the link promises the sessions above it: DataReceived events carry
\* every chunk of Send at most once, in the order of submission, without a gap.
Stream == INSTANCE OrderedStream
  WITH Submissions <- Submissions, submitted <- submitted, delivered <- delivered, up <- up
StreamSpec == Stream!Spec

\* The PSNs behind which a packet is buffered and that are themselves missing.
Gaps(buf, last) ==
  {s \in Psn \ Buffered(buf) : \E t \in Buffered(buf) : Ahead(s, last) \in 1..Ahead(t, last)}

\* An EAK lists every missing PSN in front of a buffered packet (send_eak).
EakListsEveryGap ==
  [][\A e \in Side :
       LET out == chan'[Peer(e)] IN
       Len(out) > Len(chan[Peer(e)]) /\ out[Len(out)].kind = "eak"
       => out[Len(out)].miss = Gaps(outOfOrder'[e], lastRecv'[e])]_vars
=============================================================================
