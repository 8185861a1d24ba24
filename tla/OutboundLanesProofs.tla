------------------------ MODULE OutboundLanesProofs -------------------------
(***************************************************************************)
(* Theorems about OutboundLanes, for any senders, finitely many or not,    *)
(* any lanes used, any budget and any lengths: the permits of a lane       *)
(* balance, and what holds of the scheduler alone holds of it under its    *)
(* writer.                                                                 *)
(***************************************************************************)
EXTENDS OutboundLanes, LaneSchedulerProofs

-----------------------------------------------------------------------------
(* The permits of items.                                                     *)

LEMMA NeedType == \A len \in Nat : Need(len) \in Nat
<1>1. SUFFICES ASSUME NEW len \in Nat PROVE Need(len) \in Nat
  OBVIOUS
<1>2. PICK x \in Nat : x = Least(len, MaxLane)
  BY LanesAssumption DEF Least
<1>3. \E y \in {1, x} : \A z \in {1, x} : y >= z
  <2>1. CASE x >= 1
    BY <2>1
  <2>2. CASE ~ (x >= 1)
    BY <2>2
  <2> QED
    BY <2>1, <2>2
<1>4. Max({1, x}) \in {1, x}
  BY <1>3, Zenon DEF Max
<1>5. Need(len) = Max({1, x})
  BY <1>2 DEF Need
<1> QED
  BY <1>4, <1>5

Widths(q) == [i \in DOMAIN q |-> Need(q[i])]

LEMMA WidthsType ==
  ASSUME NEW q \in Seq(Nat)
  PROVE  /\ Widths(q) \in Seq(Nat) /\ Len(Widths(q)) = Len(q)
         /\ \A i \in 1..Len(q) : Widths(q)[i] = Need(q[i])
         /\ Needs(q) = Bytes(Widths(q))
<1>1. PICK n \in Nat : n = Len(q) /\ DOMAIN q = 1..n
  BY LenProperties
<1>2. \A i \in 1..n : Need(q[i]) \in Nat
  BY <1>1, NeedType, ElementOfSeq
<1>3. Widths(q) = [i \in 1..n |-> Need(q[i])]
  BY <1>1 DEF Widths
<1>4. Widths(q) \in [1..n -> Nat]
  BY <1>2, <1>3
<1>5. Widths(q) \in Seq(Nat)
  BY <1>4, IsASeq
<1>6. Len(Widths(q)) = n
  BY <1>4, <1>5, LenProperties
<1> QED
  BY <1>1, <1>3, <1>5, <1>6 DEF Needs, Widths

LEMMA NeedsType ==
  ASSUME NEW q \in Seq(Nat)
  PROVE  Needs(q) \in Nat
BY WidthsType, BytesType

LEMMA NeedsEmpty == Needs(<<>>) = 0
<1>1. PICK q : q = <<>>
  OBVIOUS
<1>2. q \in Seq(Nat) /\ Len(q) = 0
  <2>1. <<>> \in Seq(Nat) /\ Len(<<>>) = 0
    OBVIOUS
  <2> QED
    BY <1>1, <2>1
<1>3. Widths(q) \in Seq(Nat) /\ Len(Widths(q)) = 0 /\ Needs(q) = Bytes(Widths(q))
  BY <1>2, WidthsType
<1>4. Widths(q) = <<>>
  BY <1>3, EmptySeq
<1> QED
  BY <1>1, <1>3, <1>4, BytesEmpty

LEMMA NeedsOne ==
  ASSUME NEW len \in Nat
  PROVE  Needs(<<len>>) = Need(len)
<1>1. PICK q : q = <<len>>
  OBVIOUS
<1>a. q \in Seq(Nat) /\ Len(q) = 1 /\ q[1] = len
  BY <1>1
<1>b. PICK w : w = Widths(q)
  OBVIOUS
<1>2. w \in Seq(Nat) /\ Len(w) = 1 /\ w[1] = Need(len) /\ Needs(q) = Bytes(w)
  BY <1>a, <1>b, WidthsType
<1>3. w # <<>> /\ Head(w) = w[1] /\ SubSeq(w, 1, 1) = w
  BY <1>2
<1>4. Bytes(SubSeq(w, 1, 1)) = Head(w)
  BY <1>2, <1>3, BytesHead
<1> QED
  BY <1>1, <1>2, <1>3, <1>4

LEMMA NeedsConcat ==
  ASSUME NEW p \in Seq(Nat), NEW q \in Seq(Nat)
  PROVE  Needs(p \o q) = Needs(p) + Needs(q)
<1>1. PICK m \in Nat, n \in Nat : m = Len(p) /\ n = Len(q)
  BY LenProperties
<1>2. PICK r : r = p \o q
  OBVIOUS
<1>3. /\ r \in Seq(Nat) /\ Len(r) = m + n
      /\ \A i \in 1..m : r[i] = p[i]
      /\ \A i \in 1..n : r[m + i] = q[i]
  BY <1>1, <1>2, Joined
<1>4. PICK u, v, w : u = Widths(p) /\ v = Widths(q) /\ w = Widths(r)
  OBVIOUS
<1>5. /\ u \in Seq(Nat) /\ Len(u) = m /\ \A i \in 1..m : u[i] = Need(p[i])
      /\ v \in Seq(Nat) /\ Len(v) = n /\ \A i \in 1..n : v[i] = Need(q[i])
      /\ w \in Seq(Nat) /\ Len(w) = m + n /\ \A i \in 1..(m + n) : w[i] = Need(r[i])
      /\ Needs(p) = Bytes(u) /\ Needs(q) = Bytes(v) /\ Needs(r) = Bytes(w)
  BY <1>1, <1>3, <1>4, WidthsType
<1>6. PICK x : x = u \o v
  OBVIOUS
<1>7. /\ x \in Seq(Nat) /\ Len(x) = m + n
      /\ \A i \in 1..m : x[i] = u[i]
      /\ \A i \in 1..n : x[m + i] = v[i]
  <2>1. u \in Seq(Nat) /\ v \in Seq(Nat) /\ m = Len(u) /\ n = Len(v)
    BY <1>5
  <2> QED
    BY <1>6, <2>1, Joined
<1>8. \A i \in 1..(m + n) : w[i] = x[i]
  <2>1. SUFFICES ASSUME NEW i \in 1..(m + n) PROVE w[i] = x[i]
    OBVIOUS
  <2>2. CASE i \in 1..m
    BY <1>3, <1>5, <1>7, <2>2
  <2>3. CASE i \notin 1..m
    <3>1. PICK j \in 1..n : i = m + j
      <4>1. i - m \in 1..n /\ i = m + (i - m)
        BY <2>3
      <4> QED
        BY <4>1
    <3>2. r[m + j] = q[j] /\ x[m + j] = v[j]
      BY <1>3, <1>7
    <3>3. v[j] = Need(q[j]) /\ w[i] = Need(r[i])
      BY <1>5
    <3> QED
      BY <3>1, <3>2, <3>3
  <2> QED
    BY <2>2, <2>3
<1>9. w = x
  BY <1>5, <1>7, <1>8, SeqEqual
<1>10. Bytes(x) = Bytes(u) + Bytes(v)
  BY <1>5, <1>6, BytesConcat
<1> QED
  BY <1>2, <1>5, <1>9, <1>10

\* Need and Needs after a step are what they were: MaxLane is a constant.
LEMMA NeedSteady ==
  /\ \A len : Need(len)' = Need(len)
  /\ \A l : Granted(l)' = {s \in Sender : call'[s].at = "granted" /\ call'[s].lane = l}
  /\ \A s \in Sender : Asked[s] = Need(call[s].len) /\ Asked'[s] = Need(call'[s].len)
BY DEF Need, Granted, Asked, Least

-----------------------------------------------------------------------------
(* Types.                                                                    *)

Place == {"idle", "waiting", "granted", "dropped"}
Sending == [at : Place, lane : Lane, len : Nat]

\* Every variable has its type, and a sender that sends has an item.
LanesTypeOK ==
  /\ TypeOK
  /\ free \in [Lane -> Nat]
  /\ line \in [Lane -> Seq(Sender)]
  /\ chan \in [Lane -> Seq(Lengths)]
  /\ call \in [Sender -> Sending]
  /\ \A s \in Sender : call[s].at \in {"waiting", "granted"} => call[s].len \in Lengths
  /\ feed \in {"ready", "parked", "reserve", "take", "write", "gone"}
  /\ next \in 1..4

\* The rest of LanesTypeOK.
WriterType ==
  /\ feed \in {"ready", "parked", "reserve", "take", "write", "gone"}
  /\ next \in 1..4
CallType ==
  /\ call \in [Sender -> Sending]
  /\ \A s \in Sender : call[s].at \in {"waiting", "granted"} => call[s].len \in Lengths

LEMMA LanesTypeParts ==
  /\ LanesTypeOK <=> /\ TypeOK /\ CallType /\ WriterType
                     /\ free \in [Lane -> Nat] /\ line \in [Lane -> Seq(Sender)]
                     /\ chan \in [Lane -> Seq(Lengths)]
  /\ LanesTypeOK' <=> /\ TypeOK' /\ CallType' /\ WriterType'
                      /\ free' \in [Lane -> Nat] /\ line' \in [Lane -> Seq(Sender)]
                      /\ chan' \in [Lane -> Seq(Lengths)]
BY DEF LanesTypeOK, CallType, WriterType

LEMMA ItemsOfNat ==
  ASSUME LanesTypeOK, NEW l \in Lane
  PROVE  /\ queue[l] \in Seq(Lengths) /\ chan[l] \in Seq(Lengths)
         /\ queue[l] \in Seq(Nat) /\ chan[l] \in Seq(Nat)
         /\ Held(l) \in Seq(Nat)
         /\ Needs(queue[l]) \in Nat /\ Needs(chan[l]) \in Nat /\ free[l] \in Nat
         /\ Needs(Held(l)) = Needs(queue[l]) + Needs(chan[l])
<1>1. queue[l] \in Seq(Lengths) /\ chan[l] \in Seq(Lengths) /\ free[l] \in Nat
  BY DEF LanesTypeOK, TypeOK
<1>2. queue[l] \in Seq(Nat) /\ chan[l] \in Seq(Nat)
  BY <1>1, SchedulerAssumption, SeqMonotonic
<1>3. Held(l) \in Seq(Nat) /\ Needs(Held(l)) = Needs(queue[l]) + Needs(chan[l])
  BY <1>2, NeedsConcat, ConcatProperties DEF Held
<1> QED
  BY <1>1, <1>2, <1>3, NeedsType

\* What a NextBatch leaves of a lane, and what it takes, make up the lane.
LEMMA TakenAndLeft ==
  ASSUME LanesTypeOK, NextBatch, NEW l \in Lane
  PROVE  /\ Taken(l) \in Seq(Nat) /\ queue'[l] \in Seq(Nat)
         /\ Needs(queue[l]) = Needs(Taken(l)) + Needs(queue'[l])
<1>1. PICK s, e, n : Composed(queue, s, e, n) /\ queue' = e.queue
  BY BatchComposed DEF LanesTypeOK
<1>2. /\ n[l] \in 0..Len(queue[l])
      /\ queue'[l] = SubSeq(queue[l], n[l] + 1, Len(queue[l]))
      /\ Taken(l) = SubSeq(queue[l], 1, n[l])
  BY <1>1, BatchLeaves DEF LanesTypeOK
<1>3. PICK q \in Seq(Nat), size \in Nat : q = queue[l] /\ size = Len(q)
  BY ItemsOfNat, LenProperties
<1>4. PICK a \in 0..size : a = n[l]
  BY <1>2, <1>3
<1>5. PICK t, r : t = SubSeq(q, 1, a) /\ r = SubSeq(q, a + 1, size)
  OBVIOUS
<1>6. /\ t \in Seq(Nat) /\ Len(t) = a /\ \A i \in 1..a : t[i] = q[i]
      /\ r \in Seq(Nat) /\ Len(r) = size - a /\ \A i \in 1..(size - a) : r[i] = q[a + i]
  BY <1>3, <1>5
<1>7. PICK x : x = t \o r
  OBVIOUS
<1>a. /\ t \o r \in Seq(Nat)
      /\ Len(t \o r) = Len(t) + Len(r)
      /\ \A i \in 1..Len(t) : (t \o r)[i] = t[i]
      /\ \A i \in 1..Len(r) : (t \o r)[Len(t) + i] = r[i]
  BY <1>6, Joined
<1>8. /\ x \in Seq(Nat) /\ Len(x) = a + (size - a)
      /\ \A i \in 1..a : x[i] = t[i]
      /\ \A i \in 1..(size - a) : x[a + i] = r[i]
  BY <1>6, <1>7, <1>a
<1>9. \A i \in 1..size : q[i] = x[i]
  <2>1. SUFFICES ASSUME NEW i \in 1..size PROVE q[i] = x[i]
    OBVIOUS
  <2>2. CASE i \in 1..a
    BY <1>6, <1>8, <2>2
  <2>3. CASE i \notin 1..a
    <3>1. PICK j \in 1..(size - a) : i = a + j
      <4>1. i - a \in 1..(size - a) /\ i = a + (i - a)
        BY <2>3
      <4> QED
        BY <4>1
    <3>2. x[a + j] = r[j] /\ r[j] = q[a + j]
      BY <1>6, <1>8
    <3> QED
      BY <3>1, <3>2
  <2> QED
    BY <2>2, <2>3
<1>10. q = x
  <2>1. Len(x) = size
    BY <1>8
  <2> QED
    BY <1>3, <1>8, <1>9, <2>1, SeqEqual
<1>11. Needs(x) = Needs(t) + Needs(r)
  BY <1>6, <1>7, NeedsConcat
<1> QED
  BY <1>2, <1>3, <1>4, <1>5, <1>6, <1>10, <1>11

\* A parked writer takes the first item of a channel.
LEMMA ItemReceived ==
  ASSUME LanesTypeOK, Receive
  PROVE  \E l \in Lane :
           /\ chan[l] # <<>> /\ Push(l, <<Head(chan[l])>>)
           /\ chan' = [chan EXCEPT ![l] = Tail(chan[l])]
           /\ <<Head(chan[l])>> \in Seq(Lengths) /\ Tail(chan[l]) \in Seq(Lengths)
<1>1. PICK l \in Lane : l = Min(Waking) /\ chan[l] # <<>>
  <2>1. Waking \subseteq Lane /\ Waking # {}
    BY DEF Receive, Waking
  <2>2. Min(Waking) \in Waking
    BY <2>1, MinOfLanes
  <2> QED
    BY <2>1, <2>2 DEF Waking
<1>2. Head(chan[l]) \in Lengths /\ Tail(chan[l]) \in Seq(Lengths)
  BY <1>1, LanesTypeParts, HeadTailProperties
<1>3. <<Head(chan[l])>> \in Seq(Lengths)
  BY <1>2
<1> QED
  BY <1>1, <1>2, <1>3 DEF Receive

LEMMA LanesTypeInit == Init => LanesTypeOK
<1> SUFFICES ASSUME Init
             PROVE  LanesTypeOK
  OBVIOUS
<1>1. <<>> \in Seq(Lengths) /\ <<>> \in Seq(Sender) /\ 1 \in Lane /\ 0 \in Nat
  BY EmptySeq DEF Lane
<1>2. TypeOK
  BY <1>1 DEF Init, SchedulerInit, TypeOK
<1>3. CallType
  <2>1. Idle \in Sending /\ Idle.at = "idle"
    BY <1>1 DEF Idle, Sending, Place
  <2> QED
    BY <2>1 DEF Init, CallType
<1>4. free \in [Lane -> Nat] /\ line \in [Lane -> Seq(Sender)] /\ chan \in [Lane -> Seq(Lengths)]
  BY <1>1, LanesAssumption DEF Init
<1>5. WriterType
  BY DEF Init, WriterType
<1> QED
  BY <1>2, <1>3, <1>4, <1>5, LanesTypeParts

\* The senders' own steps.
LEMMA LanesTypeSender ==
  ASSUME LanesTypeOK, NEW s \in Sender,
         \/ \E l \in UsedLanes, len \in Lengths : Send(s, l, len)
         \/ Deliver(s) \/ DropHandle(s)
  PROVE  LanesTypeOK'
<1> USE LanesTypeParts
<1>1. call \in [Sender -> Sending] /\ call[s] \in Sending
  BY DEF CallType
<1>2. UNCHANGED <<scheduler, feed, next>>
  BY DEF Send, Deliver, DropHandle
<1>3. TypeOK' /\ WriterType'
  BY <1>2 DEF scheduler, TypeOK, WriterType
<1>4. Idle \in Sending /\ Idle.at = "idle" /\ Dropped \in Sending /\ Dropped.at = "dropped"
  BY DEF Idle, Dropped, Sending, Place, Lane
<1>5. ASSUME NEW c \in Sending, call' = [call EXCEPT ![s] = c],
             c.at \in {"waiting", "granted"} => c.len \in Lengths
      PROVE  CallType'
  BY <1>1, <1>5 DEF CallType
<1>6. ASSUME NEW l \in UsedLanes, NEW len \in Lengths, Send(s, l, len)
      PROVE  LanesTypeOK'
  <2>1. PICK c : c = [at |-> "waiting", lane |-> l, len |-> len]
    OBVIOUS
  <2>2. c \in Sending /\ c.len \in Lengths
    BY <2>1, SchedulerAssumption, LanesAssumption DEF Sending, Place
  <2>3. CallType'
    BY <1>5, <1>6, <2>1, <2>2 DEF Send
  <2>4. l \in Lane
    BY LanesAssumption
  <2>5. Append(line[l], s) \in Seq(Sender)
    BY <2>4
  <2>6. line' \in [Lane -> Seq(Sender)]
    BY <1>6, <2>5 DEF Send
  <2> QED
    BY <1>3, <1>6, <2>3, <2>6 DEF Send
<1>7. CASE Deliver(s)
  <2>1. PICK l \in Lane, len \in Lengths : l = call[s].lane /\ len = call[s].len
    BY <1>1, <1>7 DEF Deliver, CallType, Sending
  <2>2. CallType'
    BY <1>4, <1>5, <1>7 DEF Deliver
  <2>3. free[l] + Need(len) \in Nat
    <3>1. free[l] \in Nat /\ len \in Nat
      BY SchedulerAssumption
    <3>2. Need(len) \in Nat
      BY <3>1, NeedType
    <3> QED
      BY <3>1, <3>2
  <2>4. Append(chan[l], len) \in Seq(Lengths)
    OBVIOUS
  <2>5. free' \in [Lane -> Nat]
    BY <1>7, <2>1, <2>3 DEF Deliver
  <2>6. chan' \in [Lane -> Seq(Lengths)]
    BY <1>7, <2>1, <2>4 DEF Deliver
  <2> QED
    BY <1>3, <1>7, <2>2, <2>5, <2>6 DEF Deliver
<1>8. CASE DropHandle(s)
  <2>1. CallType'
    BY <1>4, <1>5, <1>8 DEF DropHandle
  <2> QED
    BY <1>3, <1>8, <2>1 DEF DropHandle
<1> QED
  BY <1>6, <1>7, <1>8

\* A sender in a line waits for that lane's permits, and is in the line once.
LineInv ==
  \A l \in Lane :
    /\ \A i \in 1..Len(line[l]) : call[line[l][i]].at = "waiting" /\ call[line[l][i]].lane = l
    /\ \A i \in 1..Len(line[l]) : \A j \in 1..Len(line[l]) : line[l][i] = line[l][j] => i = j

\* What Acquire does, for the sender at the head of the line.
Grant(l, s, need) ==
  /\ call[s].at = "waiting" /\ call[s].lane = l /\ call[s].len \in Lengths
  /\ need = Need(call[s].len) /\ need \in Nat /\ free[l] >= need
  /\ line[l] # <<>> /\ s = line[l][1]
  /\ free' = [free EXCEPT ![l] = free[l] - need]
  /\ line' = [line EXCEPT ![l] = Tail(line[l])]
  /\ call' = [call EXCEPT ![s].at = "granted"]
  /\ UNCHANGED <<scheduler, chan, feed, next>>

LEMMA HeadGranted ==
  ASSUME LanesTypeOK, LineInv, NEW l \in Lane, Acquire(l)
  PROVE  \E s \in Sender : \E need \in Nat : Grant(l, s, need)
<1>1. line[l] \in Seq(Sender) /\ line[l] # <<>>
  BY LanesTypeParts DEF Acquire
<1>2. PICK n \in Nat : n = Len(line[l]) /\ n # 0
  BY <1>1, LenProperties, EmptySeq
<1>3. PICK s \in Sender : s = line[l][1] /\ s = Head(line[l])
  <2>1. line[l][1] \in Sender /\ line[l][1] = Head(line[l])
    BY <1>1, <1>2, ElementOfSeq
  <2> QED
    BY <2>1
<1>4. call[s].at = "waiting" /\ call[s].lane = l
  BY <1>2, <1>3 DEF LineInv
<1>5. call[s].len \in Lengths
  BY <1>4, LanesTypeParts DEF CallType
<1>6. Need(call[s].len) \in Nat
  BY <1>5, NeedType, SchedulerAssumption
<1> QED
  BY <1>1, <1>3, <1>4, <1>5, <1>6 DEF Acquire, Grant

\* The head of a line takes its permits.
LEMMA LanesTypeAcquire ==
  ASSUME LanesTypeOK, NEW l \in Lane, NEW s \in Sender, NEW need \in Nat, Grant(l, s, need)
  PROVE  LanesTypeOK'
<1> USE LanesTypeParts
<1>1. TypeOK' /\ WriterType' /\ UNCHANGED chan
  BY DEF Grant, scheduler, TypeOK, WriterType
<1>2. line[l] \in Seq(Sender) /\ line[l] # <<>> /\ free[l] \in Nat
  BY DEF Grant
<1>3. Tail(line[l]) \in Seq(Sender)
  BY <1>2, HeadTailProperties
<1>4. free[l] - need \in Nat
  BY <1>2 DEF Grant
<1>5. free' \in [Lane -> Nat] /\ line' \in [Lane -> Seq(Sender)]
  BY <1>3, <1>4 DEF Grant
<1>6. call \in [Sender -> Sending] /\ call[s] \in Sending /\ call' = [call EXCEPT ![s].at = "granted"]
  BY DEF CallType, Grant
<1>7. call' \in [Sender -> Sending]
  BY <1>6 DEF Sending, Place
<1>8. \A t \in Sender : call'[t].at \in {"waiting", "granted"} => call'[t].len \in Lengths
  <2>1. call'[s].len = call[s].len /\ \A t \in Sender \ {s} : call'[t] = call[t]
    BY <1>6 DEF Sending
  <2> QED
    BY <2>1 DEF CallType, Grant
<1> QED
  BY <1>1, <1>5, <1>7, <1>8 DEF CallType

\* The writer's steps.
LEMMA LanesTypeWriter ==
  ASSUME LanesTypeOK, Writer \/ Stop
  PROVE  LanesTypeOK'
<1> USE LanesTypeParts
<1>1. CASE TakeQueued
  <2>1. PICK l \in Lane : l = next
    BY <1>1 DEF TakeQueued
  <2>2. TypeOK'
    BY <1>1, <2>1, TypePush DEF TakeQueued
  <2>3. <<>> \in Seq(Lengths)
    BY EmptySeq
  <2>4. chan' \in [Lane -> Seq(Lengths)]
    BY <1>1, <2>3 DEF TakeQueued
  <2>5. next' \in 1..4
    BY <1>1, <2>1 DEF TakeQueued, Lane
  <2> QED
    BY <1>1, <2>2, <2>4, <2>5 DEF TakeQueued, CallType, WriterType
<1>2. CASE Receive
  <2>1. PICK l \in Lane :
          /\ Push(l, <<Head(chan[l])>>) /\ <<Head(chan[l])>> \in Seq(Lengths)
          /\ chan' = [chan EXCEPT ![l] = Tail(chan[l])] /\ Tail(chan[l]) \in Seq(Lengths)
    BY <1>2, ItemReceived
  <2>2. TypeOK'
    BY <2>1, TypePush
  <2>3. chan' \in [Lane -> Seq(Lengths)]
    BY <2>1
  <2> QED
    BY <1>2, <2>2, <2>3 DEF Receive, CallType, WriterType
<1>3. CASE TakeBatch
  <2>1. TypeOK'
    BY <1>3, TypeBatch DEF TakeBatch
  <2>2. \A l \in Lane : Needs(Taken(l)) \in Nat
    BY <1>3, TakenAndLeft, NeedsType DEF TakeBatch
  <2>3. \A l \in Lane : free[l] + Needs(Taken(l)) \in Nat
    BY <2>2
  <2>4. free' \in [Lane -> Nat]
    BY <1>3, <2>3 DEF TakeBatch
  <2> QED
    BY <1>3, <2>1, <2>4 DEF TakeBatch, CallType, WriterType
<1>4. CASE DropFeed
  <2>1. <<>> \in Seq(Lengths) /\ 0 \in Nat
    BY EmptySeq
  <2>2. TypeOK'
    BY <1>4, <2>1 DEF DropFeed, TypeOK
  <2>3. \A l \in Lane : free[l] + Needs(Held(l)) \in Nat
    BY ItemsOfNat, NeedsType
  <2>4. free' \in [Lane -> Nat] /\ chan' \in [Lane -> Seq(Lengths)]
    BY <1>4, <2>1, <2>3 DEF DropFeed
  <2> QED
    BY <1>4, <2>2, <2>4 DEF DropFeed, CallType, WriterType
<1>5. CASE Ready \/ LinkReady \/ Written
  <2>1. UNCHANGED <<scheduler, free, line, chan, call>>
    BY <1>5 DEF Ready, LinkReady, Written
  <2>2. WriterType'
    BY <1>5 DEF Ready, LinkReady, Written, WriterType
  <2> QED
    BY <2>1, <2>2 DEF scheduler, TypeOK, CallType
<1> QED
  BY <1>1, <1>2, <1>3, <1>4, <1>5 DEF Writer, Finish, Stop

-----------------------------------------------------------------------------
(* Lines.                                                                    *)

\* A step that keeps the senders in the lines keeps them in order.
LEMMA LinesKept ==
  ASSUME LanesTypeOK, LineInv, UNCHANGED line,
         \A s \in Sender : call[s].at = "waiting" => call'[s] = call[s]
  PROVE  LineInv'
<1>1. \A l \in Lane : \A i \in 1..Len(line[l]) : line[l][i] \in Sender
  BY LanesTypeParts, ElementOfSeq
<1> QED
  BY <1>1 DEF LineInv

LEMMA LinesSend ==
  ASSUME LanesTypeOK, LineInv, NEW s \in Sender, NEW l \in UsedLanes, NEW len \in Lengths,
         Send(s, l, len)
  PROVE  LineInv'
<1>1. l \in Lane /\ line[l] \in Seq(Sender) /\ call \in [Sender -> Sending]
  BY LanesAssumption, LanesTypeParts DEF CallType
<1>2. /\ call[s].at = "idle"
      /\ call'[s].at = "waiting" /\ call'[s].lane = l
      /\ \A t \in Sender \ {s} : call'[t] = call[t]
  BY <1>1 DEF Send, Idle
<1>3. \A k \in Lane : \A i \in 1..Len(line[k]) : line[k][i] \in Sender /\ line[k][i] # s
  <2>1. \A k \in Lane : \A i \in 1..Len(line[k]) : line[k][i] \in Sender
    BY LanesTypeParts, ElementOfSeq
  <2> QED
    BY <1>2, <2>1 DEF LineInv
<1>4. PICK n \in Nat : n = Len(line[l])
  BY <1>1, LenProperties
<1>5. /\ line'[l] = Append(line[l], s)
      /\ \A k \in Lane \ {l} : line'[k] = line[k]
  BY <1>1, LanesTypeParts DEF Send
<1>6. /\ Len(line'[l]) = n + 1 /\ line'[l][n + 1] = s
      /\ \A i \in 1..n : line'[l][i] = line[l][i]
  BY <1>1, <1>4, <1>5, AppendProperties
<1>7. SUFFICES ASSUME NEW k \in Lane
               PROVE  /\ \A i \in 1..Len(line'[k]) :
                           call'[line'[k][i]].at = "waiting" /\ call'[line'[k][i]].lane = k
                      /\ \A i \in 1..Len(line'[k]) : \A j \in 1..Len(line'[k]) :
                           line'[k][i] = line'[k][j] => i = j
  BY DEF LineInv
<1>8. CASE k # l
  BY <1>2, <1>3, <1>5, <1>8 DEF LineInv
<1>9. CASE k = l
  <2>1. \A i \in 1..n : call[line[l][i]].at = "waiting" /\ call[line[l][i]].lane = l
    BY <1>1, <1>4 DEF LineInv
  <2>2. \A i \in 1..n : \A j \in 1..n : line[l][i] = line[l][j] => i = j
    BY <1>1, <1>4 DEF LineInv
  <2>3. \A i \in 1..(n + 1) : i \in 1..n \/ i = n + 1
    OBVIOUS
  <2>4. \A i \in 1..n : line'[l][i] = line[l][i] /\ line[l][i] \in Sender \ {s}
    BY <1>1, <1>3, <1>4, <1>6
  <2>5. \A i \in 1..(n + 1) : call'[line'[l][i]].at = "waiting" /\ call'[line'[l][i]].lane = l
    BY <1>2, <1>6, <2>1, <2>3, <2>4
  <2>6. \A i \in 1..(n + 1) : \A j \in 1..(n + 1) : line'[l][i] = line'[l][j] => i = j
    BY <1>6, <2>2, <2>3, <2>4
  <2> QED
    BY <1>6, <1>9, <2>5, <2>6
<1> QED
  BY <1>8, <1>9

LEMMA LinesAcquire ==
  ASSUME LanesTypeOK, LineInv, NEW l \in Lane, NEW s \in Sender, NEW need \in Nat, Grant(l, s, need)
  PROVE  LineInv'
<1>1. line[l] \in Seq(Sender) /\ line[l] # <<>> /\ call \in [Sender -> Sending]
  BY LanesTypeParts DEF CallType, Grant
<1>2. PICK n \in Nat : n = Len(line[l]) /\ n # 0
  BY <1>1, LenProperties, EmptySeq
<1>3. /\ line'[l] = Tail(line[l])
      /\ \A k \in Lane \ {l} : line'[k] = line[k]
      /\ \A t \in Sender \ {s} : call'[t] = call[t]
  BY <1>1, LanesTypeParts DEF Grant
<1>4. Len(line'[l]) = n - 1 /\ \A i \in 1..(n - 1) : line'[l][i] = line[l][i + 1]
  BY <1>1, <1>2, <1>3
<1>5. s = line[l][1] /\ call[s].lane = l
  BY DEF Grant
<1>6. \A k \in Lane : \A i \in 1..Len(line[k]) : line[k][i] \in Sender
  BY LanesTypeParts, ElementOfSeq
<1>7. SUFFICES ASSUME NEW k \in Lane
               PROVE  /\ \A i \in 1..Len(line'[k]) :
                           call'[line'[k][i]].at = "waiting" /\ call'[line'[k][i]].lane = k
                      /\ \A i \in 1..Len(line'[k]) : \A j \in 1..Len(line'[k]) :
                           line'[k][i] = line'[k][j] => i = j
  BY DEF LineInv
<1>8. CASE k # l
  <2>1. \A i \in 1..Len(line[k]) : line[k][i] \in Sender \ {s}
    BY <1>5, <1>6, <1>8 DEF LineInv
  <2> QED
    BY <1>3, <1>8, <2>1 DEF LineInv
<1>9. CASE k = l
  <2>1. \A i \in 1..n : \A j \in 1..n : line[l][i] = line[l][j] => i = j
    BY <1>2 DEF LineInv
  <2>2. \A i \in 1..n : /\ line[l][i] \in Sender
                        /\ call[line[l][i]].at = "waiting" /\ call[line[l][i]].lane = l
    BY <1>2, <1>6 DEF LineInv
  <2>3. \A i \in 1..(n - 1) : i + 1 \in 1..n /\ i + 1 # 1
    OBVIOUS
  <2>4. \A i \in 1..(n - 1) : line[l][i + 1] \in Sender \ {s}
    <3>1. 1 \in 1..n
      BY <1>2
    <3> QED
      BY <1>5, <2>1, <2>2, <2>3, <3>1
  <2>5. \A i \in 1..(n - 1) : call'[line'[l][i]].at = "waiting" /\ call'[line'[l][i]].lane = l
    BY <1>3, <1>4, <2>2, <2>3, <2>4
  <2>6. \A i \in 1..(n - 1) : \A j \in 1..(n - 1) : line'[l][i] = line'[l][j] => i = j
    <3>1. SUFFICES ASSUME NEW i \in 1..(n - 1), NEW j \in 1..(n - 1), line[l][i + 1] = line[l][j + 1]
                   PROVE  i = j
      BY <1>4
    <3>2. i + 1 = j + 1
      BY <2>1, <2>3, <3>1
    <3> QED
      BY <3>2
  <2> QED
    BY <1>4, <1>9, <2>5, <2>6
<1> QED
  BY <1>8, <1>9

LEMMA LinesStep ==
  ASSUME LanesTypeOK, LineInv, [Next]_vars
  PROVE  LanesTypeOK' /\ LineInv'
<1>1. CASE UNCHANGED vars
  BY <1>1 DEF vars, scheduler, LanesTypeOK, TypeOK, LineInv
<1>2. ASSUME NEW s \in Sender, NEW l \in UsedLanes, NEW len \in Lengths, Send(s, l, len)
      PROVE  LanesTypeOK' /\ LineInv'
  BY <1>2, LanesTypeSender, LinesSend
<1>3. ASSUME NEW s \in Sender, Deliver(s) \/ DropHandle(s)
      PROVE  LanesTypeOK' /\ LineInv'
  <2>1. UNCHANGED line /\ call[s].at # "waiting"
    BY <1>3 DEF Deliver, DropHandle, Idle
  <2>2. \A t \in Sender \ {s} : call'[t] = call[t]
    BY <1>3, LanesTypeParts DEF Deliver, DropHandle, CallType
  <2> QED
    BY <1>3, <2>1, <2>2, LanesTypeSender, LinesKept
<1>4. ASSUME NEW l \in Lane, Acquire(l)
      PROVE  LanesTypeOK' /\ LineInv'
  BY <1>4, HeadGranted, LanesTypeAcquire, LinesAcquire
<1>5. CASE Writer \/ Stop
  <2>1. UNCHANGED <<line, call>>
    BY <1>5 DEF Writer, TakeQueued, Ready, Receive, LinkReady, TakeBatch, Written, Finish, Stop, DropFeed
  <2> QED
    BY <1>5, <2>1, LanesTypeWriter, LinesKept
<1> QED
  BY <1>1, <1>2, <1>3, <1>4, <1>5 DEF Next

-----------------------------------------------------------------------------
(* The permits.                                                              *)

GrantedSum(l) == SumFunctionOnSet(Asked, Granted(l))

\* The permits of lane l balance, and finitely many senders hold some.
BalanceAt(l) ==
  /\ IsFiniteSet(Granted(l))
  /\ free[l] + Needs(Held(l)) + GrantedSum(l) = MaxLane

BalanceInv == \A l \in Lane : BalanceAt(l)

LEMMA SenderAsks ==
  ASSUME LanesTypeOK, NEW l \in Lane
  PROVE  /\ Granted(l) \subseteq Sender
         /\ \A s \in Sender : Asked[s] \in Nat
         /\ IsFiniteSet(Granted(l)) => GrantedSum(l) \in Nat
<1>1. Granted(l) \subseteq Sender
  BY DEF Granted
<1>2. \A s \in Sender : Asked[s] \in Nat
  BY NeedType DEF Asked, LanesTypeOK, Sending
<1> QED
  BY <1>1, <1>2, SumType DEF GrantedSum

\* The numbers of lane l after the step.
LEMMA LaneNow ==
  ASSUME LanesTypeOK', NEW l \in Lane
  PROVE  /\ queue'[l] \in Seq(Nat) /\ chan'[l] \in Seq(Nat) /\ free'[l] \in Nat
         /\ Needs(queue'[l]) \in Nat /\ Needs(chan'[l]) \in Nat
         /\ Needs(Held(l)') = Needs(queue'[l]) + Needs(chan'[l])
<1>1. queue'[l] \in Seq(Lengths) /\ chan'[l] \in Seq(Lengths) /\ free'[l] \in Nat
  BY DEF LanesTypeOK, TypeOK
<1>2. queue'[l] \in Seq(Nat) /\ chan'[l] \in Seq(Nat)
  BY <1>1, SchedulerAssumption, SeqMonotonic
<1>3. Needs(Held(l)') = Needs(queue'[l]) + Needs(chan'[l])
  BY <1>2, NeedsConcat DEF Held
<1> QED
  BY <1>1, <1>2, <1>3, NeedsType

\* The balance is kept when what the lane and its senders hold changes by what
\* is taken from the budget.
LEMMA Balanced ==
  ASSUME LanesTypeOK, LanesTypeOK', NEW l \in Lane, BalanceAt(l), IsFiniteSet(Granted(l)'),
         GrantedSum(l)' \in Nat,
         free'[l] + Needs(queue'[l]) + Needs(chan'[l]) + GrantedSum(l)'
           = free[l] + Needs(queue[l]) + Needs(chan[l]) + GrantedSum(l)
  PROVE  BalanceAt(l)'
<1>1. PICK f, q, c, g : f = free[l] /\ q = Needs(queue[l]) /\ c = Needs(chan[l]) /\ g = GrantedSum(l)
  OBVIOUS
<1>2. PICK ff, qq, cc, gg :
        ff = free'[l] /\ qq = Needs(queue'[l]) /\ cc = Needs(chan'[l]) /\ gg = GrantedSum(l)'
  OBVIOUS
<1>3. f \in Nat /\ q \in Nat /\ c \in Nat /\ g \in Nat /\ f + (q + c) + g = MaxLane
  BY <1>1, ItemsOfNat, SenderAsks DEF BalanceAt
<1>4. ff \in Nat /\ qq \in Nat /\ cc \in Nat /\ gg \in Nat
  BY <1>2, LaneNow
<1>5. ff + qq + cc + gg = f + q + c + g
  BY <1>1, <1>2
<1>6. ff + (qq + cc) + gg = MaxLane
  BY <1>3, <1>4, <1>5
<1>7. free'[l] + Needs(Held(l)') + GrantedSum(l)' = MaxLane
  BY <1>2, <1>6, LaneNow
<1> QED
  BY <1>7 DEF BalanceAt

\* The same senders hold permits of lane l, for the same items.
LEMMA SameGrants ==
  ASSUME LanesTypeOK, NEW l \in Lane, BalanceAt(l),
         \A s \in Sender :
           /\ call'[s].at = "granted" /\ call'[s].lane = l
                <=> call[s].at = "granted" /\ call[s].lane = l
           /\ call[s].at = "granted" /\ call[s].lane = l => call'[s].len = call[s].len
  PROVE  IsFiniteSet(Granted(l)') /\ GrantedSum(l)' = GrantedSum(l) /\ GrantedSum(l)' \in Nat
<1>1. Granted(l)' = Granted(l)
  BY DEF Granted
<1>2. \A s \in Granted(l) : Asked[s] = Asked'[s]
  BY NeedSteady DEF Granted
<1>3. SumFunctionOnSet(Asked, Granted(l)) = SumFunctionOnSet(Asked', Granted(l))
  BY <1>2, SumSame DEF BalanceAt
<1> QED
  BY <1>1, <1>3, SenderAsks DEF GrantedSum, BalanceAt

\* A step that leaves the senders' permits, and what the lane holds.
LEMMA BalanceQuiet ==
  ASSUME LanesTypeOK, LanesTypeOK', BalanceInv, UNCHANGED <<scheduler, free, chan>>,
         \A s \in Sender : \/ call'[s] = call[s]
                           \/ call'[s].at # "granted" /\ call[s].at # "granted"
  PROVE  BalanceInv'
<1>1. SUFFICES ASSUME NEW l \in Lane PROVE BalanceAt(l)'
  BY DEF BalanceInv
<1>2. BalanceAt(l)
  BY DEF BalanceInv
<1>3. IsFiniteSet(Granted(l)') /\ GrantedSum(l)' = GrantedSum(l) /\ GrantedSum(l)' \in Nat
  BY <1>2, SameGrants
<1>4. free' = free /\ queue' = queue /\ chan' = chan
  BY DEF scheduler
<1> QED
  BY <1>2, <1>3, <1>4, Balanced

LEMMA BalanceAcquire ==
  ASSUME LanesTypeOK, LanesTypeOK', BalanceInv, NEW k \in Lane, NEW s \in Sender, NEW need \in Nat,
         Grant(k, s, need)
  PROVE  BalanceInv'
<1>1. SUFFICES ASSUME NEW l \in Lane PROVE BalanceAt(l)'
  BY DEF BalanceInv
<1>2. BalanceAt(l)
  BY DEF BalanceInv
<1>3. call \in [Sender -> Sending] /\ call[s] \in Sending /\ free \in [Lane -> Nat]
  BY LanesTypeParts DEF CallType
<1>4. /\ call[s].at = "waiting" /\ call[s].lane = k
      /\ call'[s].at = "granted" /\ call'[s].lane = k /\ call'[s].len = call[s].len
      /\ \A t \in Sender \ {s} : call'[t] = call[t]
  BY <1>3 DEF Grant, Sending
<1>5. queue' = queue /\ chan' = chan /\ free' = [free EXCEPT ![k] = free[k] - need]
  BY DEF Grant, scheduler
<1>6. CASE l # k
  <2>1. IsFiniteSet(Granted(l)') /\ GrantedSum(l)' = GrantedSum(l) /\ GrantedSum(l)' \in Nat
    BY <1>2, <1>4, <1>6, SameGrants
  <2>2. free'[l] = free[l]
    BY <1>3, <1>5, <1>6
  <2> QED
    BY <1>2, <1>5, <2>1, <2>2, Balanced
<1>7. CASE l = k
  <2>1. s \notin Granted(l) /\ Granted(l)' = Granted(l) \union {s}
    BY <1>4, <1>7 DEF Granted
  <2>2. \A t \in Granted(l) : Asked[t] \in Nat /\ Asked'[t] = Asked[t]
    BY <1>4, <2>1, NeedSteady, SenderAsks
  <2>3. Asked'[s] = need
    BY <1>4, NeedSteady DEF Grant
  <2>4. /\ IsFiniteSet(Granted(l) \union {s})
        /\ SumFunctionOnSet(Asked', Granted(l) \union {s}) = SumFunctionOnSet(Asked, Granted(l)) + Asked'[s]
    BY <1>2, <2>1, <2>2, <2>3, SumWith DEF BalanceAt
  <2>5. IsFiniteSet(Granted(l)') /\ GrantedSum(l)' = GrantedSum(l) + need
    BY <2>1, <2>3, <2>4 DEF GrantedSum
  <2>6. PICK g \in Nat, f \in Nat, q \in Nat, c \in Nat :
          g = GrantedSum(l) /\ f = free[l] /\ q = Needs(queue[l]) /\ c = Needs(chan[l])
    BY <1>2, ItemsOfNat, SenderAsks DEF BalanceAt
  <2>7. free'[l] = f - need
    BY <1>3, <1>5, <1>7, <2>6
  <2>8. (f - need) + q + c + (g + need) = f + q + c + g
    OBVIOUS
  <2>9. GrantedSum(l)' \in Nat
    BY <2>5, <2>6
  <2>10. free'[l] + Needs(queue'[l]) + Needs(chan'[l]) + GrantedSum(l)'
           = free[l] + Needs(queue[l]) + Needs(chan[l]) + GrantedSum(l)
    BY <1>5, <2>5, <2>6, <2>7, <2>8
  <2> QED
    BY <1>2, <2>5, <2>9, <2>10, Balanced
<1> QED
  BY <1>6, <1>7

\* The permits go to the item, or back when nobody will take it.
LEMMA BalanceDeliver ==
  ASSUME LanesTypeOK, LanesTypeOK', BalanceInv, NEW s \in Sender, Deliver(s)
  PROVE  BalanceInv'
<1>1. SUFFICES ASSUME NEW l \in Lane PROVE BalanceAt(l)'
  BY DEF BalanceInv
<1>2. BalanceAt(l)
  BY DEF BalanceInv
<1>3. call \in [Sender -> Sending] /\ call[s].at = "granted" /\ call[s].len \in Nat
  BY LanesTypeParts DEF CallType, Deliver, Sending
<1>4. PICK k \in Lane, need \in Nat, len \in Nat :
        k = call[s].lane /\ len = call[s].len /\ need = Need(len)
  BY <1>3, NeedType DEF Sending
<1>5. call'[s].at = "idle" /\ \A t \in Sender \ {s} : call'[t] = call[t]
  BY <1>3 DEF Deliver, Idle
<1>6. queue' = queue
  BY DEF Deliver, scheduler
<1>7. \/ free' = [free EXCEPT ![k] = free[k] + need] /\ chan' = chan
      \/ chan' = [chan EXCEPT ![k] = Append(chan[k], len)] /\ free' = free
  BY <1>4 DEF Deliver
<1>8. free \in [Lane -> Nat] /\ chan \in [Lane -> Seq(Lengths)] /\ chan[l] \in Seq(Nat)
  BY LanesTypeParts, ItemsOfNat
<1>9. CASE l # k
  <2>1. IsFiniteSet(Granted(l)') /\ GrantedSum(l)' = GrantedSum(l) /\ GrantedSum(l)' \in Nat
    BY <1>2, <1>4, <1>5, <1>9, SameGrants
  <2>2. free'[l] = free[l] /\ chan'[l] = chan[l]
    BY <1>7, <1>8, <1>9
  <2> QED
    BY <1>2, <1>6, <2>1, <2>2, Balanced
<1>10. CASE l = k
  <2>1. s \in Granted(l) /\ Granted(l)' = Granted(l) \ {s}
    BY <1>3, <1>4, <1>5, <1>10 DEF Granted
  <2>2. (\A t \in Granted(l) : Asked[t] \in Nat) /\ (\A t \in Granted(l) \ {s} : Asked'[t] = Asked[t])
    BY <1>5, NeedSteady, SenderAsks
  <2>3. /\ IsFiniteSet(Granted(l) \ {s})
        /\ Asked[s] <= SumFunctionOnSet(Asked, Granted(l))
        /\ SumFunctionOnSet(Asked', Granted(l) \ {s}) = SumFunctionOnSet(Asked, Granted(l)) - Asked[s]
    <3>1. IsFiniteSet(Granted(l)) /\ s \in Granted(l)
      BY <1>2, <2>1 DEF BalanceAt
    <3> QED
      BY <2>2, <3>1, SumDrop
  <2>4. Asked[s] = need
    BY <1>4, NeedSteady
  <2>5. IsFiniteSet(Granted(l)') /\ GrantedSum(l)' = GrantedSum(l) - need /\ need <= GrantedSum(l)
    BY <2>1, <2>3, <2>4 DEF GrantedSum
  <2>6. PICK g \in Nat, f \in Nat, q \in Nat, c \in Nat :
          g = GrantedSum(l) /\ f = free[l] /\ q = Needs(queue[l]) /\ c = Needs(chan[l])
    BY <1>2, ItemsOfNat, SenderAsks DEF BalanceAt
  <2>7. \/ free'[l] = f + need /\ Needs(chan'[l]) = c
        \/ free'[l] = f /\ Needs(chan'[l]) = c + need
    <3>1. CASE free' = [free EXCEPT ![k] = free[k] + need] /\ chan' = chan
      BY <1>8, <1>10, <2>6, <3>1
    <3>2. CASE chan' = [chan EXCEPT ![k] = Append(chan[k], len)] /\ free' = free
      <4>1. chan'[l] = Append(chan[l], len) /\ free'[l] = f
        BY <1>8, <1>10, <2>6, <3>2
      <4>2. PICK x : x = <<len>>
        OBVIOUS
      <4>3. x \in Seq(Nat) /\ Append(chan[l], len) = chan[l] \o x
        BY <1>8, <4>2, AppendIsConcat
      <4>4. Needs(chan[l] \o x) = Needs(chan[l]) + Needs(x)
        BY <1>8, <4>3, NeedsConcat
      <4>5. Needs(x) = need
        BY <1>4, <4>2, NeedsOne
      <4> QED
        BY <2>6, <4>1, <4>3, <4>4, <4>5
    <3> QED
      BY <1>7, <3>1, <3>2
  <2>8. g - need \in Nat
    BY <2>5, <2>6
  <2>9. /\ (f + need) + q + c + (g - need) = f + q + c + g
        /\ f + q + (c + need) + (g - need) = f + q + c + g
    OBVIOUS
  <2>10. free'[l] + Needs(queue'[l]) + Needs(chan'[l]) + GrantedSum(l)'
           = free[l] + Needs(queue[l]) + Needs(chan[l]) + GrantedSum(l)
    BY <1>6, <2>5, <2>6, <2>7, <2>9
  <2>11. GrantedSum(l)' \in Nat
    BY <2>5, <2>6, <2>8
  <2> QED
    BY <1>2, <2>5, <2>10, <2>11, Balanced
<1> QED
  BY <1>9, <1>10

\* The writer moves items from a channel to its queue, gives the permits of a
\* batch back, or those of everything it holds.
LEMMA BalanceWriter ==
  ASSUME LanesTypeOK, LanesTypeOK', BalanceInv, Writer \/ Stop
  PROVE  BalanceInv'
<1>1. CASE Ready \/ LinkReady \/ Written
  <2>1. UNCHANGED <<scheduler, free, chan, call>>
    BY <1>1 DEF Ready, LinkReady, Written
  <2> QED
    BY <2>1, BalanceQuiet
<1>2. ASSUME NEW l \in Lane, UNCHANGED call,
             free'[l] + Needs(queue'[l]) + Needs(chan'[l]) = free[l] + Needs(queue[l]) + Needs(chan[l])
      PROVE  BalanceAt(l)'
  <2>1. BalanceAt(l)
    BY DEF BalanceInv
  <2>2. IsFiniteSet(Granted(l)') /\ GrantedSum(l)' = GrantedSum(l) /\ GrantedSum(l)' \in Nat
    BY <1>2, <2>1, SameGrants
  <2>3. free'[l] + Needs(queue'[l]) + Needs(chan'[l]) + GrantedSum(l)'
           = free[l] + Needs(queue[l]) + Needs(chan[l]) + GrantedSum(l)
    BY <1>2, <2>2
  <2> QED
    BY <2>1, <2>2, <2>3, Balanced
<1>3. ASSUME NEW k \in Lane, NEW items \in Seq(Nat), NEW rest \in Seq(Nat),
             UNCHANGED <<free, call>>, Push(k, items), chan' = [chan EXCEPT ![k] = rest],
             Needs(chan[k]) = Needs(items) + Needs(rest)
      PROVE  BalanceInv'
  <2>1. SUFFICES ASSUME NEW l \in Lane PROVE BalanceAt(l)'
    BY DEF BalanceInv
  <2>2. queue \in [Lane -> Seq(Lengths)] /\ chan \in [Lane -> Seq(Lengths)]
    BY DEF LanesTypeOK, TypeOK
  <2>3. CASE l # k
    <3>1. queue'[l] = queue[l] /\ chan'[l] = chan[l]
      BY <1>3, <2>2, <2>3 DEF Push
    <3> QED
      BY <1>2, <1>3, <3>1
  <2>4. CASE l = k
    <3>1. queue'[l] = queue[l] \o items /\ chan'[l] = rest
      BY <1>3, <2>2, <2>4 DEF Push
    <3>2. queue[l] \in Seq(Nat)
      BY ItemsOfNat
    <3>3. Needs(queue[l] \o items) = Needs(queue[l]) + Needs(items)
      BY <1>3, <3>2, NeedsConcat
    <3>4. PICK f \in Nat, q \in Nat, i \in Nat, r \in Nat :
            f = free[l] /\ q = Needs(queue[l]) /\ i = Needs(items) /\ r = Needs(rest)
      BY <1>3, ItemsOfNat, NeedsType
    <3>5. f + (q + i) + r = f + q + (i + r)
      OBVIOUS
    <3>6. free'[l] + Needs(queue'[l]) + Needs(chan'[l]) = free[l] + Needs(queue[l]) + Needs(chan[l])
      BY <1>3, <2>4, <3>1, <3>3, <3>4, <3>5
    <3> QED
      BY <1>2, <1>3, <3>6
  <2> QED
    BY <2>3, <2>4
<1>4. CASE TakeQueued
  <2>1. PICK k \in Lane : k = next
    BY <1>4 DEF TakeQueued
  <2>2. PICK rest : rest = <<>>
    OBVIOUS
  <2>3. rest \in Seq(Nat) /\ Needs(rest) = 0
    BY <2>2, NeedsEmpty, EmptySeq
  <2>4. chan[k] \in Seq(Nat) /\ Needs(chan[k]) = Needs(chan[k]) + Needs(rest)
    BY <2>3, ItemsOfNat
  <2> QED
    BY <1>3, <1>4, <2>1, <2>2, <2>3, <2>4 DEF TakeQueued
<1>5. CASE Receive
  <2>1. PICK k \in Lane :
          /\ chan[k] # <<>> /\ Push(k, <<Head(chan[k])>>)
          /\ chan' = [chan EXCEPT ![k] = Tail(chan[k])]
    BY <1>5, ItemReceived
  <2>2. chan[k] \in Seq(Nat) /\ chan[k] # <<>>
    BY <2>1, ItemsOfNat
  <2>3. PICK items, rest : items = <<Head(chan[k])>> /\ rest = Tail(chan[k])
    OBVIOUS
  <2>4. Head(chan[k]) \in Nat /\ rest \in Seq(Nat)
    BY <2>2, <2>3, HeadTailProperties
  <2>5. items \in Seq(Nat)
    BY <2>3, <2>4
  <2>6. chan[k] = items \o rest
    BY <2>2, <2>3
  <2>7. Needs(chan[k]) = Needs(items) + Needs(rest)
    BY <2>4, <2>5, <2>6, NeedsConcat
  <2> QED
    BY <1>3, <1>5, <2>1, <2>3, <2>4, <2>5, <2>7 DEF Receive
<1>6. CASE TakeBatch
  <2>1. SUFFICES ASSUME NEW l \in Lane PROVE BalanceAt(l)'
    BY DEF BalanceInv
  <2>2. /\ Taken(l) \in Seq(Nat) /\ queue'[l] \in Seq(Nat)
        /\ Needs(queue[l]) = Needs(Taken(l)) + Needs(queue'[l])
    BY <1>6, TakenAndLeft DEF TakeBatch
  <2>3. UNCHANGED <<chan, call>> /\ free'[l] = free[l] + Needs(Taken(l))
    BY <1>6 DEF TakeBatch
  <2>4. PICK f \in Nat, t \in Nat, q \in Nat, c \in Nat :
          f = free[l] /\ t = Needs(Taken(l)) /\ q = Needs(queue'[l]) /\ c = Needs(chan[l])
    BY <2>2, ItemsOfNat, NeedsType
  <2>5. (f + t) + q + c = f + (t + q) + c
    OBVIOUS
  <2>6. free'[l] + Needs(queue'[l]) + Needs(chan'[l]) = free[l] + Needs(queue[l]) + Needs(chan[l])
    BY <2>2, <2>3, <2>4, <2>5
  <2> QED
    BY <1>2, <2>3, <2>6
<1>7. CASE DropFeed
  <2>1. SUFFICES ASSUME NEW l \in Lane PROVE BalanceAt(l)'
    BY DEF BalanceInv
  <2>2. /\ UNCHANGED call /\ queue'[l] = <<>> /\ chan'[l] = <<>>
        /\ free'[l] = free[l] + Needs(Held(l))
    BY <1>7 DEF DropFeed
  <2>3. PICK f \in Nat, q \in Nat, c \in Nat :
          f = free[l] /\ q = Needs(queue[l]) /\ c = Needs(chan[l])
    BY ItemsOfNat
  <2>4. Needs(Held(l)) = q + c
    BY <2>3, ItemsOfNat
  <2>5. f + (q + c) + 0 + 0 = f + q + c
    OBVIOUS
  <2>6. free'[l] + Needs(queue'[l]) + Needs(chan'[l]) = free[l] + Needs(queue[l]) + Needs(chan[l])
    BY <2>2, <2>3, <2>4, <2>5, NeedsEmpty
  <2> QED
    BY <1>2, <2>2, <2>6
<1> QED
  BY <1>1, <1>4, <1>5, <1>6, <1>7 DEF Writer, Finish, Stop

LEMMA BalanceInit == Init => BalanceInv
<1>1. SUFFICES ASSUME Init, NEW l \in Lane PROVE BalanceAt(l)
  BY DEF BalanceInv
<1>2. Granted(l) = {}
  BY <1>1 DEF Init, Granted, Idle
<1>3. IsFiniteSet(Granted(l)) /\ GrantedSum(l) = 0
  BY <1>2, SumEmpty, FS_EmptySet DEF GrantedSum
<1>4. free[l] = MaxLane /\ MaxLane \in Nat /\ queue[l] = <<>> /\ chan[l] = <<>>
  BY <1>1, LanesAssumption DEF Init, SchedulerInit
<1>5. LanesTypeOK
  BY <1>1, LanesTypeInit
<1>6. Needs(Held(l)) = 0
  BY <1>4, <1>5, ItemsOfNat, NeedsEmpty
<1>7. MaxLane + 0 + 0 = MaxLane
  BY <1>4
<1> QED
  BY <1>3, <1>4, <1>6, <1>7 DEF BalanceAt

LEMMA BalanceStep ==
  ASSUME LanesTypeOK, LanesTypeOK', LineInv, BalanceInv, [Next]_vars
  PROVE  BalanceInv'
<1>1. CASE UNCHANGED vars
  <2>1. UNCHANGED <<scheduler, free, chan, call>>
    BY <1>1 DEF vars
  <2> QED
    BY <2>1, BalanceQuiet
<1>2. ASSUME NEW s \in Sender, DropHandle(s) \/ \E l \in UsedLanes, len \in Lengths : Send(s, l, len)
      PROVE  BalanceInv'
  <2>1. call \in [Sender -> Sending]
    BY LanesTypeParts DEF CallType
  <2>2. UNCHANGED <<scheduler, free, chan>>
    BY <1>2 DEF DropHandle, Send
  <2>3. call[s].at # "granted" /\ call'[s].at # "granted"
    BY <1>2, <2>1 DEF DropHandle, Send, Idle, Dropped
  <2>4. \A t \in Sender \ {s} : call'[t] = call[t]
    BY <1>2, <2>1 DEF DropHandle, Send
  <2> QED
    BY <2>2, <2>3, <2>4, BalanceQuiet
<1>3. ASSUME NEW l \in Lane, Acquire(l)
      PROVE  BalanceInv'
  BY <1>3, HeadGranted, BalanceAcquire
<1> QED
  BY <1>1, <1>2, <1>3, BalanceDeliver, BalanceWriter DEF Next

-----------------------------------------------------------------------------
(* The theorems.                                                             *)

LEMMA LanesInvariant == LanesSpec => [](LanesTypeOK /\ LineInv)
<1>1. Init => LineInv
  BY EmptySeq DEF Init, LineInv
<1>2. LanesTypeOK /\ LineInv /\ [Next]_vars => LanesTypeOK' /\ LineInv'
  BY LinesStep
<1> QED
  BY <1>1, <1>2, LanesTypeInit, PTL DEF LanesSpec

(* Every variable has its type: no budget runs below nothing, and what is   *)
(* queued is what was sent (OutboundLanes::send, LaneFeed).                 *)
THEOREM LanesTypeCorrect == LanesSpec => []LanesTypeOK
BY LanesInvariant, PTL

(* No permit of a lane is lost or made, through oversized and empty items,  *)
(* sends that fail, batches and the end of the feed at any wait             *)
(* (OutboundLanes::send, the permit of a queued item, and its drop).        *)
THEOREM LanesPermitsBalance == LanesSpec => []PermitsBalance
<1>1. LanesTypeOK /\ LanesTypeOK' /\ LineInv /\ BalanceInv /\ [Next]_vars => BalanceInv'
  BY BalanceStep
<1>2. BalanceInv => PermitsBalance
  BY DEF BalanceInv, BalanceAt, GrantedSum, PermitsBalance
<1> QED
  BY <1>1, <1>2, BalanceInit, LanesInvariant, PTL DEF LanesSpec

(* No lane of a connection starves either: the writer of the chunker, which *)
(* waits for the link between ready and take_batch while senders go on, and *)
(* moves whole channels at once, keeps the bound of the scheduler.          *)
THEOREM LanesBoundedWait ==
  ASSUME ItemsHaveLength, SharesFit
  PROVE  LanesSpec => []BoundedWait
<1>1. Init /\ LanesTypeOK => WaitInv
  BY WaitInvInit DEF Init, LanesTypeOK
<1>2. ASSUME LanesTypeOK, LanesTypeOK', WaitInv, [Next]_vars
      PROVE  WaitInv'
  <2>1. CASE UNCHANGED scheduler
    BY <1>2, <2>1, WaitInvKept
  <2>2. ASSUME NEW l \in Lane, NEW items \in Seq(Lengths), Push(l, items)
        PROVE  WaitInv'
    <3>1. TypeOK' /\ queue \in [Lane -> Seq(Lengths)]
      BY <1>2 DEF LanesTypeOK, TypeOK
    <3>2. CASE items # <<>>
      BY <1>2, <2>2, <3>1, <3>2, WaitInvPush
    <3>3. CASE items = <<>>
      <4>1. queue[l] \o items = queue[l]
        BY <3>1, <3>3
      <4>2. UNCHANGED scheduler
        BY <2>2, <3>1, <4>1 DEF Push, scheduler
      <4> QED
        BY <2>1, <4>2
    <3> QED
      BY <3>2, <3>3
  <2>3. CASE TakeBatch
    BY <1>2, <2>3, WaitInvBatch DEF TakeBatch, LanesTypeOK
  <2>4. CASE DropFeed
    <3>1. /\ \A l \in Lane : queue'[l] = <<>> /\ waited'[l] = 0 /\ credit'[l] = 0
          /\ TypeOK'
      BY <1>2, <2>4 DEF DropFeed, LanesTypeOK
    <3>2. Busy' = {}
      BY <3>1 DEF Busy
    <3>3. \A l, k : ~ Overdue(l, k)'
      BY <3>2 DEF Overdue
    <3>4. AccountInv'
      <4>1. \A l \in Lane : 0 = 0 * Allowance(l)
        BY AllowanceType
      <4>2. 1 \in Lane
        BY DEF Lane
      <4>3. \A l \in Lane : Allowance(l)' = Allowance(l)
        BY DEF Allowance
      <4> QED
        BY <3>1, <3>2, <4>1, <4>2, <4>3 DEF AccountInv
    <3> QED
      BY <3>1, <3>3, <3>4, Zenon DEF WaitInv, NormalInv, BulkInv, BackgroundInv
  <2>5. CASE TakeQueued
    <3>1. next \in Lane /\ chan[next] \in Seq(Lengths)
      BY <1>2, <2>5, LanesTypeParts DEF TakeQueued
    <3> QED
      BY <2>2, <2>5, <3>1 DEF TakeQueued
  <2>6. CASE Receive
    BY <1>2, <2>2, <2>6, ItemReceived
  <2>7. CASE UNCHANGED vars
    BY <2>1, <2>7 DEF vars
  <2>8. CASE Ready \/ LinkReady \/ Written
    BY <2>1, <2>8 DEF Ready, LinkReady, Written
  <2>9. ASSUME NEW s \in Sender, \/ \E l \in UsedLanes, len \in Lengths : Send(s, l, len)
                                 \/ Deliver(s) \/ DropHandle(s)
        PROVE  WaitInv'
    BY <2>1, <2>9 DEF Send, Deliver, DropHandle
  <2>10. ASSUME NEW l \in Lane, Acquire(l)
         PROVE  WaitInv'
    BY <2>1, <2>10 DEF Acquire
  <2> QED
    BY <1>2, <2>3, <2>4, <2>5, <2>6, <2>7, <2>8, <2>9, <2>10 DEF Next, Writer, Finish, Stop
<1>3. WaitInv => BoundedWait
  BY WaitBound
<1>4. LanesTypeOK /\ LanesTypeOK' /\ WaitInv /\ [Next]_vars => WaitInv'
  BY <1>2
<1> QED
  BY <1>1, <1>3, <1>4, LanesTypeCorrect, LanesTypeInit, PTL DEF LanesSpec

(* The batches of that writer leave no room that an item would fit, and     *)
(* give each lane its share, as those of the scheduler alone do.            *)
THEOREM LanesBatches == LanesSpec => BatchFull /\ ShareHeld
<1>1. TypeOK => [NextBatch => \A l \in Lane : queue'[l] # <<>> =>
                               BatchBytes + Head(queue'[l]) > MaxBatch]_scheduler
  BY FullBatch
<1>2. TypeOK => [NextBatch => \A l \in Busy :
                   /\ Head(queue[l]) <= Allowance(l)
                   /\ Head(queue[SeedLane]) + SharesAbove(l) + Head(queue[l]) <= MaxBatch
                   => Served(l)]_scheduler
  BY HeldShares
<1>3. LanesTypeOK => TypeOK
  BY DEF LanesTypeOK
<1> QED
  BY <1>1, <1>2, <1>3, LanesTypeCorrect, PTL DEF BatchFull, ShareHeld
=============================================================================
