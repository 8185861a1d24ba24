--------------------------- MODULE AssetPullProofs ---------------------------
(***************************************************************************)
(* Theorems about AssetPull, for assets of any sizes, any windows of the   *)
(* pacer and any cap of the memory sink.                                   *)
(***************************************************************************)
EXTENDS AssetPull, SequenceTheorems, TLAPS

\* What the link keeps of a lane when it breaks.
LEMMA PrefixType ==
  ASSUME NEW S, NEW q \in Seq(S), NEW n \in 0..Len(q)
  PROVE  SubSeq(q, 1, n) \in Seq(S)
<1>1. \A i \in 1..n : q[i] \in S
  <2>1. Len(q) \in Nat /\ n <= Len(q)
    BY LenProperties
  <2> QED
    BY <2>1, ElementOfSeq
<1> QED
  BY <1>1, SubSeqProperties

\* What a reader takes off a lane.
LEMMA TakenType ==
  ASSUME NEW S, NEW q \in Seq(S), q # <<>>
  PROVE  Head(q) \in S /\ Tail(q) \in Seq(S) /\ Len(Tail(q)) <= Len(q)
<1>1. Head(q) \in S /\ Tail(q) \in Seq(S) /\ Len(Tail(q)) = Len(q) - 1 /\ Len(q) \in Nat
  BY HeadTailProperties, LenProperties
<1> QED
  BY <1>1

-----------------------------------------------------------------------------
(* Types.                                                                    *)

LEMMA TypeInit == Init => TypeOK
<1> SUFFICES ASSUME Init
             PROVE  TypeOK
  OBVIOUS
<1>a. /\ pending \in BOOLEAN /\ nudged \in [Collector -> BOOLEAN]
      /\ abandon \in BOOLEAN /\ up \in BOOLEAN /\ hooked \in BOOLEAN
      /\ woken \in BOOLEAN /\ closed \in BOOLEAN /\ gaveUp \in BOOLEAN
  BY Zenon DEF Init
<1>1. DaemonType
  <2>1. sink \in [kind : {"none", "open", "failed"}, have : 0..Cap]
    BY PullAssumption DEF Init, Unbound
  <2> QED
    BY <1>a, <2>1 DEF Init, DaemonType
<1>2. WireType
  BY <1>a DEF Init, WireType
<1>3. PusherType
  BY <1>a DEF Init, PusherType
<1> QED
  BY <1>1, <1>2, <1>3 DEF TypeOK

LEMMA DaemonKept == DaemonType /\ UNCHANGED daemon => DaemonType'
BY DEF DaemonType, daemon

LEMMA WireKept == WireType /\ UNCHANGED <<wire, link>> => WireType'
BY DEF WireType, wire, link

LEMMA PusherKept == PusherType /\ UNCHANGED pusher => PusherType'
BY DEF PusherType, pusher

\* The asker and the collectors touch the daemon's state, and the request.
LEMMA TypeCollect ==
  ASSUME TypeOK,
         \/ Ask \/ Admit \/ Expire \/ Asker
         \/ \E a \in Collector : Collect(a) \/ CollectTimeout(a)
  PROVE  TypeOK'
<1> USE DEF TypeOK
<1>a. Unbound \in [kind : {"none", "open", "failed"}, have : 0..Cap]
  BY PullAssumption DEF Unbound
<1>1. CASE Ask
  <2>a. Memory(0) \in [kind : {"none", "open", "failed"}, have : 0..Cap]
    BY PullAssumption DEF Memory
  <2>b. pending' \in BOOLEAN
    BY <1>1, Zenon DEF Ask
  <2>1. DaemonType'
    BY <1>1, <2>a, <2>b DEF Ask, DaemonType
  <2>2. WireType'
    BY <1>1, WireKept DEF Ask
  <2>3. UNCHANGED pusher
    BY <1>1 DEF Ask
  <2> QED
    BY <2>1, <2>2, <2>3, PusherKept
<1>2. ASSUME \/ Expire \/ Asker
             \/ \E a \in Collector : Collect(a) \/ CollectTimeout(a)
      PROVE  UNCHANGED <<wire, link>> /\ UNCHANGED pusher
  BY <1>2 DEF Expire, Asker, Answered, Forget, Leave, Collect, Look, Park, Resume, CollectTimeout
<1>3. ASSUME Expire \/ Asker
      PROVE  DaemonType'
  <2>1. CASE Expire
    BY <2>1 DEF Expire, DaemonType
  <2>2. CASE Answered
    BY <2>2 DEF Answered, DaemonType
  <2>3. CASE Forget
    BY <2>3 DEF Forget, DaemonType
  <2>4. CASE Leave
    BY <1>a, <2>4 DEF Leave, Ends, DaemonType
  <2> QED
    BY <1>3, <2>1, <2>2, <2>3, <2>4 DEF Asker
<1>4. ASSUME NEW a \in Collector, Collect(a) \/ CollectTimeout(a)
      PROVE  DaemonType'
  <2>1. CASE Look(a)
    BY <1>a, <2>1 DEF Look, Ends, DaemonType
  <2>2. CASE Park(a)
    BY <2>2 DEF Park, DaemonType
  <2>3. CASE Resume(a)
    BY <2>3 DEF Resume, DaemonType
  <2>4. CASE CollectTimeout(a)
    BY <1>a, <2>4 DEF CollectTimeout, Ends, DaemonType
  <2> QED
    BY <1>4, <2>1, <2>2, <2>3, <2>4 DEF Collect
<1>5. CASE Admit
  <2>1. DaemonType'
    BY <1>5 DEF Admit, DaemonType
  <2>2. WireType'
    BY <1>5 DEF Admit, WireType, link
  <2>3. UNCHANGED pusher
    BY <1>5 DEF Admit
  <2> QED
    BY <2>1, <2>2, <2>3, PusherKept
<1> QED
  BY <1>1, <1>2, <1>3, <1>4, <1>5, WireKept, PusherKept

\* The router and the disconnect hook do not touch the pusher.
LEMMA TypeRouter ==
  ASSUME TypeOK, Router \/ Disconnected
  PROVE  TypeOK'
<1> USE DEF TypeOK
<1>a. /\ Unbound \in [kind : {"none", "open", "failed"}, have : 0..Cap]
      /\ Failed \in [kind : {"none", "open", "failed"}, have : 0..Cap]
      /\ \A n \in 0..Cap : Memory(n) \in [kind : {"none", "open", "failed"}, have : 0..Cap]
      /\ 0 \in 0..Cap
  BY PullAssumption DEF Unbound, Failed, Memory
<1>b. PusherType'
  <2>1. UNCHANGED pusher
    BY DEF Router, RouteReply, RouteLateReply, RouteFragment, RouteAbandon, Disconnected
  <2> QED
    BY <2>1, PusherKept
<1>c. Notify => nudged' \in [Collector -> BOOLEAN]
  BY DEF Notify
<1>1. CASE RouteReply
  <2>1. DaemonType'
    BY <1>1 DEF RouteReply, DaemonType, WireType
  <2>2. WireType'
    BY <1>1 DEF RouteReply, WireType, link
  <2> QED
    BY <1>b, <2>1, <2>2
<1>2. CASE RouteLateReply
  <2>1. DaemonType'
    <3>1. bulk \in {"inline", "stream", "notfound"}
      BY <1>2 DEF RouteLateReply, WireType
    <3>2. CASE bulk = "stream"
      BY <1>a, <1>2, <3>2 DEF RouteLateReply, DaemonType
    <3>3. CASE bulk = "inline"
      BY <1>2, <3>3 DEF RouteLateReply, DaemonType, Ends
    <3>4. CASE bulk = "notfound"
      BY <1>2, <3>4 DEF RouteLateReply, DaemonType
    <3> QED
      BY <3>1, <3>2, <3>3, <3>4
  <2>2. WireType'
    BY <1>2 DEF RouteLateReply, WireType, link
  <2> QED
    BY <1>b, <2>1, <2>2
<1>3. CASE RouteFragment
  <2>1. Head(frags) \in Nat /\ Tail(frags) \in Seq(Nat)
    BY <1>3, TakenType DEF RouteFragment, WireType
  <2>2. Consumes(Head(frags)) => Head(frags) + 1 \in 0..Cap /\ Head(frags) + 1 \in Nat
    BY <2>1, PullAssumption DEF Consumes
  <2>3. sink' \in [kind : {"none", "open", "failed"}, have : 0..Cap]
    BY <1>a, <1>3, <2>2 DEF RouteFragment, DaemonType
  <2>4. nudged' \in [Collector -> BOOLEAN]
    BY <1>c, <1>3 DEF RouteFragment, DaemonType
  <2>5. DaemonType'
    BY <1>3, <2>3, <2>4 DEF RouteFragment, DaemonType
  <2>6. acks' \subseteq Nat
    BY <1>3, <2>2 DEF RouteFragment, WireType
  <2>7. WireType'
    BY <1>3, <2>1, <2>6 DEF RouteFragment, WireType, link
  <2> QED
    BY <1>b, <2>5, <2>7
<1>4. CASE RouteAbandon
  <2>1. sink' \in [kind : {"none", "open", "failed"}, have : 0..Cap]
    BY <1>a, <1>4 DEF RouteAbandon
  <2>2. nudged' \in [Collector -> BOOLEAN]
    BY <1>c, <1>4 DEF RouteAbandon, DaemonType
  <2>3. DaemonType'
    BY <1>4, <2>1, <2>2 DEF RouteAbandon, DaemonType
  <2>4. WireType'
    BY <1>4 DEF RouteAbandon, WireType, link
  <2> QED
    BY <1>b, <2>3, <2>4
<1>5. CASE Disconnected
  <2>1. DaemonType'
    BY <1>5 DEF Disconnected, DaemonType
  <2>2. WireType'
    BY <1>5 DEF Disconnected, WireType, wire
  <2> QED
    BY <1>b, <2>1, <2>2
<1> QED
  BY <1>1, <1>2, <1>3, <1>4, <1>5 DEF Router

\* The steps of FragmentStream touch the pusher only, but for the abandon.
LEMMA TypeWalk ==
  ASSUME TypeOK, Walk \/ Stall
  PROVE  TypeOK'
<1> USE DEF TypeOK
<1>a. DaemonType'
  <2>1. UNCHANGED daemon
    BY DEF Walk, Measure, AwaitWindow, LookForAck, EnableWake, Recheck, Wake, SendFragment,
           SendRefused, Finish, Stall
  <2> QED
    BY <2>1, DaemonKept
<1>b. ~ Finish => WireType'
  <2>1. ~ Finish => UNCHANGED <<wire, link>>
    BY DEF Walk, Measure, AwaitWindow, LookForAck, EnableWake, Recheck, Wake, SendFragment,
           SendRefused, Stall
  <2> QED
    BY <2>1, WireKept
<1>1. ASSUME Measure
      PROVE  PusherType'
  BY <1>1 DEF Measure, PusherType
<1>2. ASSUME AwaitWindow
      PROVE  PusherType'
  BY <1>2 DEF AwaitWindow, PusherType
<1>3. ASSUME LookForAck
      PROVE  PusherType'
  BY <1>3 DEF LookForAck, PusherType
<1>4. ASSUME EnableWake
      PROVE  PusherType'
  BY <1>4 DEF EnableWake, PusherType
<1>5. ASSUME Recheck
      PROVE  PusherType'
  BY <1>5 DEF Recheck, PusherType
<1>6. ASSUME Wake
      PROVE  PusherType'
  BY <1>6 DEF Wake, PusherType
<1>7. ASSUME SendFragment
      PROVE  PusherType'
  <2>1. Append(outbox, offset) \in Seq(Nat) /\ Len(Append(outbox, offset)) = Len(outbox) + 1
    BY AppendProperties DEF PusherType
  <2>2. Len(outbox) + 1 <= 2
    BY <1>7, LenProperties DEF SendFragment, PusherType
  <2> QED
    BY <1>7, <2>1, <2>2 DEF SendFragment, PusherType
<1>8. ASSUME SendRefused
      PROVE  PusherType'
  BY <1>8 DEF SendRefused, Fails, PusherType
<1>9. ASSUME Stall
      PROVE  PusherType'
  BY <1>9 DEF Stall, Fails, PusherType
<1>10. ASSUME Finish
       PROVE  PusherType' /\ WireType'
  BY <1>10 DEF Finish, PusherType, WireType, link
<1>11. PusherType'
  BY <1>1, <1>2, <1>3, <1>4, <1>5, <1>6, <1>7, <1>8, <1>9, <1>10 DEF Walk
<1> QED
  BY <1>a, <1>b, <1>10, <1>11

\* The answer, the writer, the acks and the link.
LEMMA TypeWire ==
  ASSUME TypeOK,
         Answer \/ WriteFragment \/ (\E n \in acks : NoteAck(n)) \/ LoseLink
  PROVE  TypeOK'
<1> USE DEF TypeOK
<1>a. DaemonType'
  <2>1. UNCHANGED daemon
    BY DEF Answer, WriteFragment, NoteAck, LoseLink
  <2> QED
    BY <2>1, DaemonKept
<1>1. CASE Answer
  <2>1. WireType'
    BY <1>1 DEF Answer, WireType, link
  <2>2. PusherType'
    BY <1>1 DEF Answer, PusherType
  <2> QED
    BY <1>a, <2>1, <2>2
<1>2. CASE WriteFragment
  <2>1. outbox # <<>> /\ outbox \in Seq(Nat) /\ Len(outbox) <= 2
    BY <1>2 DEF WriteFragment, PusherType
  <2>2. Head(outbox) \in Nat /\ Tail(outbox) \in Seq(Nat) /\ Len(Tail(outbox)) <= 2
    <3>1. Len(outbox) \in Nat /\ Len(Tail(outbox)) \in Nat
      BY <2>1, TakenType, LenProperties
    <3> QED
      BY <2>1, <3>1, TakenType
  <2>3. Append(frags, Head(outbox)) \in Seq(Nat)
    BY <2>2, AppendProperties DEF WireType
  <2>4. outbox' \in Seq(Nat) /\ Len(outbox') <= 2
    BY <1>2, <2>2 DEF WriteFragment
  <2>5. closed' \in BOOLEAN
    BY <1>2 DEF WriteFragment
  <2>6. PusherType'
    BY <1>2, <2>4, <2>5 DEF WriteFragment, PusherType
  <2>7. frags' \in Seq(Nat)
    BY <1>2, <2>3 DEF WriteFragment, WireType
  <2>8. WireType'
    BY <1>2, <2>7 DEF WriteFragment, WireType, link
  <2> QED
    BY <1>a, <2>6, <2>8
<1>3. ASSUME NEW n \in acks, NoteAck(n)
      PROVE  TypeOK'
  <2>1. n \in Nat
    BY DEF WireType
  <2>2. WireType'
    BY <1>3 DEF NoteAck, WireType, link
  <2>3. woken' \in BOOLEAN /\ acked' \in Nat
    BY <1>3, <2>1 DEF NoteAck, PusherType
  <2>4. PusherType'
    BY <1>3, <2>3 DEF NoteAck, PusherType
  <2> QED
    BY <1>a, <2>2, <2>4
<1>4. CASE LoseLink
  <2>1. frags' \in Seq(Nat)
    BY <1>4, PrefixType DEF LoseLink, WireType
  <2>2. WireType'
    BY <1>4, <2>1 DEF LoseLink, WireType
  <2>3. PusherType'
    BY <1>4, PusherKept DEF LoseLink
  <2> QED
    BY <1>a, <2>2, <2>3
<1> QED
  BY <1>1, <1>2, <1>3, <1>4

LEMMA TypeNext == TypeOK /\ [Next]_vars => TypeOK'
<1> SUFFICES ASSUME TypeOK, [Next]_vars
             PROVE  TypeOK'
  OBVIOUS
<1>1. CASE UNCHANGED vars
  <2>1. UNCHANGED daemon /\ UNCHANGED <<wire, link>> /\ UNCHANGED pusher
    BY <1>1 DEF vars
  <2> QED
    BY <2>1, DaemonKept, WireKept, PusherKept DEF TypeOK
<1>2. CASE Next
  BY <1>2, TypeCollect, TypeRouter, TypeWalk, TypeWire DEF Next
<1> QED
  BY <1>1, <1>2

(* Every variable keeps its type; in particular the sink never holds more   *)
(* than its cap, and the channel of fragments no more than it has room for  *)
(* (TransferSinks::fragment, LinkPush::run).                                *)
THEOREM TypeCorrect == Spec => []TypeOK
BY TypeInit, TypeNext, PTL DEF Spec

-----------------------------------------------------------------------------
(* The course of a pull: what request, reply and the two collectors know of  *)
(* each other.                                                               *)

Course ==
  /\ at["asker"] \in {"idle", "asking"} => request = "none"
  /\ at["asker"] = "idle" => ~ pending /\ reply = "open"
  /\ at["asker"] \in {"asking", "waiting"} => reply # "deaf"
  /\ pending => reply \in {"open", "deaf"} /\ at["asker"] \in {"asking", "waiting", "expired"}
  /\ at["asker"] \in {"collecting", "looked", "parked"} => request = "answered"
  /\ request # "answered" =>
       /\ bulk = "none" /\ at["late"] = "idle"
       /\ reply \in {"open", "deaf", "closed"}
  /\ bulk # "none" => at["late"] = "idle"
  /\ bulk = "stream" => size \in Sizes

LEMMA CourseInit == Init => Course
BY DEF Init, Course, Collector

\* Where a step puts a collector, and that it leaves the other alone.
LEMMA Moves ==
  ASSUME DaemonType, NEW a \in Collector, NEW place, at' = [at EXCEPT ![a] = place]
  PROVE  at'[a] = place /\ \A b \in Collector : b # a => at'[b] = at[b]
BY DEF DaemonType

LEMMA CourseCollect ==
  ASSUME TypeOK, Course,
         \/ Ask \/ Admit \/ Expire \/ Asker
         \/ \E a \in Collector : Collect(a) \/ CollectTimeout(a)
  PROVE  Course'
<1> USE DEF TypeOK
<1>a. "asker" \in Collector /\ "late" \in Collector /\ "asker" # "late"
  BY DEF Collector
<1>1. CASE Ask
  <2>1. at'["asker"] = "asking" /\ at'["late"] = at["late"]
    BY <1>a, <1>1, Moves DEF Ask
  <2> QED
    BY <1>1, <2>1 DEF Ask, Course, wire, pusher
<1>2. CASE Expire
  <2>1. at'["asker"] = "expired" /\ at'["late"] = at["late"]
    BY <1>a, <1>2, Moves DEF Expire
  <2> QED
    BY <1>2, <2>1 DEF Expire, Course, wire, pusher
<1>3. CASE Answered
  <2>1. at'["asker"] \in {"collecting", "leaving"} /\ at'["late"] = at["late"]
    BY <1>a, <1>3, Moves DEF Answered
  <2>2. at'["asker"] = "collecting" => reply = "stream"
    BY <1>a, <1>3, Moves DEF Answered
  <2> QED
    BY <1>3, <2>1, <2>2 DEF Answered, Course, wire, pusher
<1>4. CASE Forget
  <2>1. at'["asker"] = "leaving" /\ at'["late"] = at["late"]
    BY <1>a, <1>4, Moves DEF Forget
  <2> QED
    BY <1>4, <2>1 DEF Forget, Course, wire, pusher
<1>5. CASE Leave
  <2>1. at["asker"] = "leaving" /\ at'["asker"] = "done" /\ at'["late"] = at["late"]
    BY <1>a, <1>5, Moves DEF Leave, Ends
  <2> QED
    BY <1>5, <2>1 DEF Leave, Course, wire, pusher
<1>6. ASSUME NEW a \in Collector, Collect(a) \/ CollectTimeout(a)
      PROVE  Course'
  <2>1. /\ at[a] \in {"collecting", "looked", "parked"}
        /\ at'[a] \in {"collecting", "looked", "parked", "done"}
        /\ \A b \in Collector : b # a => at'[b] = at[b]
    <3>1. CASE Look(a)
      BY <3>1, Moves DEF Look, Ends
    <3>2. CASE Park(a)
      BY <3>2, Moves DEF Park
    <3>3. CASE Resume(a)
      BY <3>3, Moves DEF Resume
    <3>4. CASE CollectTimeout(a)
      BY <3>4, Moves DEF CollectTimeout, Ends
    <3> QED
      BY <1>6, <3>1, <3>2, <3>3, <3>4 DEF Collect
  <2>2. UNCHANGED <<pending, reply>> /\ UNCHANGED <<request, bulk, size>>
    BY <1>6 DEF Collect, Look, Park, Resume, CollectTimeout, wire, pusher
  <2>3. CASE a = "asker"
    BY <1>a, <2>1, <2>2, <2>3 DEF Course
  <2>4. CASE a = "late"
    BY <1>a, <2>1, <2>2, <2>4 DEF Course
  <2> QED
    BY <2>3, <2>4 DEF Collector
<1>7. CASE Admit
  <2>1. at["asker"] = "asking" /\ at'["asker"] = "waiting" /\ at'["late"] = at["late"]
    BY <1>a, <1>7, Moves DEF Admit
  <2> QED
    BY <1>7, <2>1 DEF Admit, Course, pusher
<1> QED
  BY <1>1, <1>2, <1>3, <1>4, <1>5, <1>6, <1>7 DEF Asker

LEMMA CourseRouter ==
  ASSUME TypeOK, Course, Router \/ Disconnected
  PROVE  Course'
<1> USE DEF TypeOK
<1>a. "asker" \in Collector /\ "late" \in Collector /\ "asker" # "late"
  BY DEF Collector
<1>1. CASE RouteReply
  <2>1. request = "answered" /\ reply' \in {"deaf"} \cup {bulk} /\ bulk' = "none"
    BY <1>1 DEF RouteReply, Course
  <2>2. /\ at["asker"] \notin {"idle", "asking"} /\ at["late"] = "idle"
        /\ at["asker"] = "waiting" => reply' # "deaf"
    BY <1>1, <2>1 DEF RouteReply, Course, WireType
  <2> QED
    BY <1>1, <2>1, <2>2 DEF RouteReply, Course, pusher
<1>2. CASE RouteLateReply
  <2>1. bulk \in {"inline", "stream", "notfound"} /\ request = "answered"
    BY <1>2 DEF RouteLateReply, WireType, Course
  <2>2. at'["asker"] = at["asker"]
    <3>1. CASE bulk = "stream"
      BY <1>a, <1>2, <3>1, Moves DEF RouteLateReply
    <3>2. CASE bulk = "inline"
      BY <1>a, <1>2, <3>2, Moves DEF RouteLateReply, Ends
    <3>3. CASE bulk = "notfound"
      BY <1>2, <3>3 DEF RouteLateReply
    <3> QED
      BY <2>1, <3>1, <3>2, <3>3
  <2> QED
    BY <1>2, <2>1, <2>2 DEF RouteLateReply, Course
<1>3. CASE RouteFragment \/ RouteAbandon
  <2>1. UNCHANGED <<at, pending, reply>> /\ UNCHANGED <<request, bulk, size>>
    BY <1>3 DEF RouteFragment, RouteAbandon, pusher
  <2> QED
    BY <2>1 DEF Course
<1>4. CASE Disconnected
  <2>1. UNCHANGED <<at, request, bulk, size>>
    BY <1>4 DEF Disconnected, wire, pusher
  <2>2. ~ pending' /\ reply' = (IF pending /\ reply = "open" THEN "closed" ELSE reply)
    BY <1>4, Zenon DEF Disconnected
  <2> QED
    BY <2>1, <2>2 DEF Course
<1> QED
  BY <1>1, <1>2, <1>3, <1>4 DEF Router

LEMMA CourseCompanion ==
  ASSUME TypeOK, Course,
         \/ Answer \/ Walk \/ Stall \/ WriteFragment
         \/ \E n \in acks : NoteAck(n)
         \/ LoseLink
  PROVE  Course'
<1> USE DEF TypeOK
<1>a. UNCHANGED <<at, pending, reply>>
  BY DEF Answer, Walk, Stall, WriteFragment, NoteAck, LoseLink, Measure, AwaitWindow, LookForAck,
         EnableWake, Recheck, Wake, SendFragment, SendRefused, Finish, daemon
<1>1. CASE Answer
  <2>1. /\ request = "sent" /\ request' = "answered"
        /\ bulk' = "stream" => size' \in Sizes
    BY <1>1 DEF Answer
  <2>2. at["late"] = "idle" /\ at["asker"] # "idle"
    BY <2>1 DEF Course
  <2> QED
    BY <1>a, <2>1, <2>2 DEF Course
<1>2. CASE LoseLink
  <2>1. request' = request \/ (request = "sent" /\ request' = "lost")
    BY <1>2 DEF LoseLink
  <2>2. bulk' = bulk \/ bulk' = "none"
    BY <1>2 DEF LoseLink
  <2>3. size' = size
    BY <1>2 DEF LoseLink, pusher
  <2> QED
    BY <1>a, <2>1, <2>2, <2>3 DEF Course
<1>3. ASSUME Walk \/ Stall \/ WriteFragment \/ (\E n \in acks : NoteAck(n))
      PROVE  UNCHANGED <<request, bulk, size>>
  BY <1>3 DEF Walk, Stall, WriteFragment, NoteAck, Measure, AwaitWindow, LookForAck, EnableWake,
         Recheck, Wake, SendFragment, SendRefused, Finish, wire
<1>4. ASSUME UNCHANGED <<request, bulk, size>>
      PROVE  Course'
  BY <1>a, <1>4 DEF Course
<1> QED
  BY <1>1, <1>2, <1>3, <1>4

LEMMA CourseNext == TypeOK /\ Course /\ [Next]_vars => Course'
<1> SUFFICES ASSUME TypeOK, Course, [Next]_vars
             PROVE  Course'
  OBVIOUS
<1>1. CASE UNCHANGED vars
  <2>1. UNCHANGED <<at, pending, reply>> /\ UNCHANGED <<request, bulk, size>>
    BY <1>1 DEF vars, daemon, wire, pusher
  <2> QED
    BY <2>1 DEF Course
<1>2. CASE Next
  BY <1>2, CourseCollect, CourseRouter, CourseCompanion DEF Next
<1> QED
  BY <1>1, <1>2

-----------------------------------------------------------------------------
(* Nothing leaks: that a request is pending only while its asker is, Course  *)
(* says; the sink is bound only while someone will unbind it.                *)

SinkOwned ==
  sink # Unbound =>
    \/ at["asker"] \notin {"idle", "done"}
    \/ at["late"] \in {"collecting", "looked", "parked"}

LEMMA OwnedInit == Init => SinkOwned
BY DEF Init, SinkOwned

LEMMA OwnedNext == TypeOK /\ Course /\ SinkOwned /\ [Next]_vars => SinkOwned'
<1> SUFFICES ASSUME TypeOK, Course, SinkOwned, [Next]_vars
             PROVE  SinkOwned'
  OBVIOUS
<1> USE DEF TypeOK
<1>a. "asker" \in Collector /\ "late" \in Collector /\ "asker" # "late"
  BY DEF Collector
<1>1. CASE Ask \/ Admit
  <2>1. at'["asker"] \in {"asking", "waiting"}
    BY <1>a, <1>1, Moves DEF Ask, Admit, DaemonType
  <2> QED
    BY <2>1 DEF SinkOwned
<1>2. CASE Expire \/ Answered \/ Forget
  <2>1. at'["asker"] \in {"expired", "collecting", "leaving"}
    BY <1>a, <1>2, Moves DEF Expire, Answered, Forget
  <2> QED
    BY <2>1 DEF SinkOwned
<1>3. CASE Leave
  BY <1>3 DEF Leave, SinkOwned, Unbound
<1>4. ASSUME NEW a \in Collector, Collect(a) \/ CollectTimeout(a)
      PROVE  SinkOwned'
  <2>1. \/ sink' = Unbound
        \/ at'[a] \in {"collecting", "looked", "parked"}
    BY <1>4, Moves DEF Collect, Look, Park, Resume, CollectTimeout
  <2> QED
    BY <2>1 DEF SinkOwned, Collector, Unbound
<1>5. CASE RouteLateReply
  <2>1. bulk \in {"inline", "stream", "notfound"} /\ at["late"] = "idle"
    BY <1>5 DEF RouteLateReply, WireType, Course
  <2>2. CASE bulk = "stream"
    BY <1>a, <1>5, <2>2, Moves DEF RouteLateReply, SinkOwned
  <2>3. CASE bulk = "inline"
    <3>1. at'["asker"] = at["asker"] /\ sink' = sink
      BY <1>a, <1>5, <2>3, Moves DEF RouteLateReply, Ends
    <3> QED
      BY <2>1, <3>1 DEF SinkOwned, Unbound
  <2>4. CASE bulk = "notfound"
    BY <1>5, <2>4 DEF RouteLateReply, SinkOwned, Unbound
  <2> QED
    BY <2>1, <2>2, <2>3, <2>4
<1>6. CASE RouteFragment \/ RouteAbandon
  <2>1. UNCHANGED at /\ (sink = Unbound => sink' = Unbound)
    BY <1>6 DEF RouteFragment, RouteAbandon, Consumes, Unbound
  <2> QED
    BY <2>1 DEF SinkOwned, Unbound
<1>7. CASE RouteReply \/ Disconnected
  <2>1. UNCHANGED <<at, sink>>
    BY <1>7 DEF RouteReply, Disconnected
  <2> QED
    BY <2>1 DEF SinkOwned, Unbound
<1>8. ASSUME \/ Answer \/ Walk \/ Stall \/ WriteFragment
             \/ \E n \in acks : NoteAck(n)
             \/ LoseLink
             \/ UNCHANGED vars
      PROVE  SinkOwned'
  <2>1. UNCHANGED <<at, sink>>
    BY <1>8 DEF Answer, Walk, Stall, WriteFragment, NoteAck, LoseLink, Measure, AwaitWindow,
                LookForAck, EnableWake, Recheck, Wake, SendFragment, SendRefused, Finish, daemon, vars
  <2> QED
    BY <2>1 DEF SinkOwned, Unbound
<1> QED
  BY <1>1, <1>2, <1>3, <1>4, <1>5, <1>6, <1>7, <1>8 DEF Next, Asker, Router

(* After the pull neither the sinks nor the pending requests keep its id,   *)
(* however timeout, late reply and disconnect fall (request_asset_body,     *)
(* cache_late_asset, fail_pending_on_disconnect).                           *)
THEOREM LeakCorrect == Spec => []NothingLeaks
<1>1. Init => TypeOK /\ Course /\ SinkOwned
  BY TypeInit, CourseInit, OwnedInit
<1>2. TypeOK /\ Course /\ SinkOwned /\ [Next]_vars => (TypeOK /\ Course /\ SinkOwned)'
  BY TypeNext, CourseNext, OwnedNext
<1>3. TypeOK /\ Course /\ SinkOwned => NothingLeaks
  BY DEF Course, SinkOwned, NothingLeaks
<1> QED
  BY <1>1, <1>2, <1>3, PTL DEF Spec

-----------------------------------------------------------------------------
(* No wake-up of a collector is missed.  The inductive form is about the     *)
(* collector that has looked as well: what happens between its look and its  *)
(* wait is in its Notified.                                                  *)

Awake ==
  \A a \in Collector :
    at[a] \in {"looked", "parked"} /\ ~ nudged[a] => sink.kind # "failed" /\ sink # Memory(size)

LEMMA AwakeInit == Init => Awake
BY DEF Init, Awake

\* A step that leaves the sink and the size alone, or unbinds the sink.
LEMMA AwakeKept ==
  ASSUME DaemonType, Awake, sink' = sink \/ sink' = Unbound, size' = size,
         \A a \in Collector :
           at'[a] \in {"looked", "parked"} => at[a] \in {"looked", "parked"} /\ nudged'[a] = nudged[a]
  PROVE  Awake'
<1> SUFFICES ASSUME NEW a \in Collector, at'[a] \in {"looked", "parked"}, ~ nudged'[a]
             PROVE  sink'.kind # "failed" /\ sink' # Memory(size')
  BY DEF Awake, Memory
<1>1. at[a] \in {"looked", "parked"} /\ ~ nudged[a]
  OBVIOUS
<1>2. sink.kind # "failed" /\ sink # Memory(size)
  BY <1>1 DEF Awake
<1>3. CASE sink' = sink
  BY <1>2, <1>3 DEF Memory
<1>4. CASE sink' = Unbound
  BY <1>4 DEF Unbound, Memory
<1> QED
  BY <1>3, <1>4

LEMMA AwakeCollect ==
  ASSUME TypeOK, Course, Awake,
         \/ Ask \/ Admit \/ Expire \/ Asker
         \/ \E a \in Collector : Collect(a) \/ CollectTimeout(a)
  PROVE  Awake'
<1> USE DEF TypeOK
<1>a. "asker" \in Collector /\ "late" \in Collector /\ "asker" # "late"
  BY DEF Collector
<1>1. CASE Ask \/ Admit
  <2>1. at'["asker"] \in {"asking", "waiting"} /\ at'["late"] = at["late"] /\ at["late"] = "idle"
    BY <1>a, <1>1, Moves DEF Ask, Admit, Course
  <2> QED
    BY <2>1 DEF Awake, Collector
<1>2. CASE Expire \/ Asker
  <2>1. at'["asker"] \notin {"looked", "parked"} /\ at'["late"] = at["late"]
    BY <1>a, <1>2, Moves DEF Expire, Asker, Answered, Forget, Leave, Ends
  <2>2. UNCHANGED nudged /\ UNCHANGED size /\ (sink' = sink \/ sink' = Unbound)
    BY <1>2 DEF Expire, Asker, Answered, Forget, Leave, pusher
  <2> QED
    BY <2>1, <2>2, AwakeKept DEF Collector
<1>3. ASSUME NEW a \in Collector, Look(a)
      PROVE  Awake'
  <2>1. /\ \A b \in Collector : b # a => at'[b] = at[b] /\ nudged'[b] = nudged[b]
        /\ size' = size
    BY <1>3, Moves DEF Look, Ends, DaemonType, pusher
  <2>2. CASE sink' = Unbound /\ at'[a] = "done"
    BY <2>1, <2>2, AwakeKept
  <2>3. CASE at'[a] = "looked" /\ sink' = sink /\ sink.kind = "open" /\ sink.have < size
    <3>1. sink.have \in Int /\ sink # Memory(size)
      BY <2>3 DEF DaemonType, Memory
    <3> SUFFICES ASSUME NEW b \in Collector, at'[b] \in {"looked", "parked"}, ~ nudged'[b]
                 PROVE  sink'.kind # "failed" /\ sink' # Memory(size')
      BY DEF Awake, Memory
    <3>2. CASE b = a
      BY <2>1, <2>3, <3>1, <3>2
    <3>3. CASE b # a
      BY <2>1, <2>3, <3>3 DEF Awake
    <3> QED
      BY <3>2, <3>3
  <2> QED
    BY <1>3, <2>2, <2>3, Moves DEF Look, Ends
<1>4. ASSUME NEW a \in Collector, Park(a) \/ Resume(a) \/ CollectTimeout(a)
      PROVE  Awake'
  <2>1. /\ at[a] \in {"looked", "parked"}
        /\ \A b \in Collector : b # a => at'[b] = at[b]
    BY <1>4, Moves DEF Park, Resume, CollectTimeout, Ends
  <2>2. UNCHANGED nudged /\ UNCHANGED size /\ (sink' = sink \/ sink' = Unbound)
    BY <1>4 DEF Park, Resume, CollectTimeout, pusher
  <2> QED
    BY <2>1, <2>2, AwakeKept
<1> QED
  BY <1>1, <1>2, <1>3, <1>4 DEF Collect

LEMMA AwakeRouter ==
  ASSUME TypeOK, Course, Awake, Router \/ Disconnected
  PROVE  Awake'
<1> USE DEF TypeOK
<1>a. "asker" \in Collector /\ "late" \in Collector /\ "asker" # "late"
  BY DEF Collector
<1>1. CASE RouteReply \/ Disconnected
  <2>1. UNCHANGED <<at, nudged, sink, size>>
    BY <1>1 DEF RouteReply, Disconnected, pusher
  <2> QED
    BY <2>1, AwakeKept
<1>2. CASE RouteLateReply
  <2>1. bulk \in {"inline", "stream", "notfound"} /\ UNCHANGED nudged /\ UNCHANGED size
    BY <1>2 DEF RouteLateReply, WireType, pusher
  <2>2. CASE bulk = "stream"
    <3>1. size \in Sizes /\ size # 0
      BY <1>2, <2>2, PullAssumption DEF RouteLateReply, Course
    <3>2. sink' = Memory(0)
      BY <1>2, <2>2 DEF RouteLateReply
    <3>3. sink'.kind # "failed" /\ sink' # Memory(size')
      BY <2>1, <3>1, <3>2 DEF Memory
    <3> QED
      BY <3>3 DEF Awake, Memory
  <2>3. CASE bulk = "inline"
    <3>1. at'["late"] = "done" /\ at'["asker"] = at["asker"] /\ sink' = sink
      BY <1>a, <1>2, <2>3, Moves DEF RouteLateReply, Ends
    <3> QED
      BY <2>1, <3>1, AwakeKept DEF Collector
  <2>4. CASE bulk = "notfound"
    <3>1. at' = at /\ sink' = sink
      BY <1>2, <2>4 DEF RouteLateReply
    <3> QED
      BY <2>1, <3>1, AwakeKept
  <2> QED
    BY <2>1, <2>2, <2>3, <2>4
<1>3. CASE RouteFragment \/ RouteAbandon
  <2>1. UNCHANGED at /\ UNCHANGED size
    BY <1>3 DEF RouteFragment, RouteAbandon, pusher
  <2>2. CASE sink = Unbound
    <3>1. sink' = Unbound /\ nudged' = nudged
      BY <1>3, <2>2 DEF RouteFragment, RouteAbandon, Consumes, Unbound
    <3> QED
      BY <2>1, <3>1, AwakeKept
  <2>3. CASE sink # Unbound
    <3>1. Notify
      BY <1>3, <2>3 DEF RouteFragment, RouteAbandon
    <3>2. \A a \in Collector : at[a] \in {"looked", "parked"} => nudged'[a]
      BY <3>1 DEF Notify
    <3> QED
      BY <2>1, <3>2 DEF Awake
  <2> QED
    BY <2>2, <2>3
<1> QED
  BY <1>1, <1>2, <1>3 DEF Router

LEMMA AwakeCompanion ==
  ASSUME TypeOK, Course, Awake,
         \/ Answer \/ Walk \/ Stall \/ WriteFragment
         \/ \E n \in acks : NoteAck(n)
         \/ LoseLink
         \/ UNCHANGED vars
  PROVE  Awake'
<1> USE DEF TypeOK
<1>a. UNCHANGED <<at, nudged, sink>>
  BY DEF Answer, Walk, Stall, WriteFragment, NoteAck, LoseLink, Measure, AwaitWindow, LookForAck,
         EnableWake, Recheck, Wake, SendFragment, SendRefused, Finish, daemon, vars
<1>1. CASE Answer
  <2>1. \A a \in Collector : at[a] \notin {"looked", "parked"}
    BY <1>1 DEF Answer, Course, Collector
  <2> QED
    BY <1>a, <2>1 DEF Awake
<1>2. ASSUME ~ Answer
      PROVE  Awake'
  <2>1. UNCHANGED size
    BY <1>2 DEF Walk, Stall, WriteFragment, NoteAck, LoseLink, Measure, AwaitWindow, LookForAck,
                EnableWake, Recheck, Wake, SendFragment, SendRefused, Finish, pusher, vars
  <2> QED
    BY <1>a, <2>1, AwakeKept
<1> QED
  BY <1>1, <1>2

(* A collector that waits has seen all there is to see, or has been woken,  *)
(* whatever the router does between its look and its wait (collect_memory). *)
THEOREM ProgressCorrect == Spec => []NoProgressMissed
<1>1. Init => TypeOK /\ Course /\ Awake
  BY TypeInit, CourseInit, AwakeInit
<1>2. TypeOK /\ Course /\ Awake /\ [Next]_vars => (TypeOK /\ Course /\ Awake)'
  BY TypeNext, CourseNext, AwakeCollect, AwakeRouter, AwakeCompanion DEF Next
<1>3. Awake => NoProgressMissed
  BY DEF Awake, NoProgressMissed
<1> QED
  BY <1>1, <1>2, <1>3, PTL DEF Spec

-----------------------------------------------------------------------------
(* The window of acks.                                                       *)

\* What the steps of the daemon, of the writer and of the link leave alone.
LEMMA PusherAside ==
  ASSUME \/ Ask \/ Admit \/ Expire \/ Asker \/ Router \/ Disconnected
         \/ \E a \in Collector : Collect(a) \/ CollectTimeout(a)
         \/ Answer \/ WriteFragment \/ LoseLink
         \/ UNCHANGED vars
  PROVE  /\ UNCHANGED <<offset, window, acked, beyond, woken>>
         /\ push' = push \/ push' = "measure"
<1>1. CASE Ask \/ Admit \/ Expire \/ Asker
  BY <1>1 DEF Ask, Admit, Expire, Asker, Answered, Forget, Leave, pusher
<1>2. CASE Router \/ Disconnected
  BY <1>2 DEF Router, RouteReply, RouteLateReply, RouteFragment, RouteAbandon, Disconnected, pusher
<1>3. ASSUME NEW a \in Collector, Collect(a) \/ CollectTimeout(a)
      PROVE  /\ UNCHANGED <<offset, window, acked, beyond, woken>>
             /\ push' = push
  BY <1>3 DEF Collect, Look, Park, Resume, CollectTimeout, pusher
<1>4. CASE Answer
  BY <1>4 DEF Answer
<1>5. CASE WriteFragment \/ LoseLink \/ UNCHANGED vars
  BY <1>5 DEF WriteFragment, LoseLink, vars, pusher
<1> QED
  BY <1>1, <1>2, <1>3, <1>4, <1>5

LEMMA AckNext == TypeOK /\ NoAckMissed /\ [Next]_vars => NoAckMissed'
<1> SUFFICES ASSUME TypeOK, NoAckMissed, [Next]_vars
             PROVE  NoAckMissed'
  OBVIOUS
<1> USE DEF TypeOK, PusherType
<1>1. CASE \/ Ask \/ Admit \/ Expire \/ Asker \/ Router \/ Disconnected
           \/ \E a \in Collector : Collect(a) \/ CollectTimeout(a)
           \/ Answer \/ WriteFragment \/ LoseLink
           \/ UNCHANGED vars
  BY <1>1, PusherAside DEF NoAckMissed
<1>2. CASE Walk \/ Stall
  <2>1. CASE Recheck
    BY <2>1 DEF Recheck, NoAckMissed
  <2>2. CASE ~ Recheck
    <3>1. push' # "parked"
      BY <1>2, <2>2 DEF Walk, Stall, Fails, Measure, AwaitWindow, LookForAck, EnableWake, Wake,
                        SendFragment, SendRefused, Finish
    <3> QED
      BY <3>1 DEF NoAckMissed
  <2> QED
    BY <2>1, <2>2
<1>3. ASSUME NEW n \in acks, NoteAck(n)
      PROVE  NoAckMissed'
  <2>1. push' = push /\ beyond' = beyond
    BY <1>3 DEF NoteAck
  <2>2. CASE n > acked
    <3>1. push = "parked" => woken'
      BY <1>3, <2>2, Zenon DEF NoteAck
    <3> QED
      BY <2>1, <3>1 DEF NoAckMissed
  <2>3. CASE ~ (n > acked)
    <3>1. acked' = acked
      BY <1>3, <2>3 DEF NoteAck
    <3>2. push = "parked" /\ ~ woken' => ~ woken
      BY <1>3, Zenon DEF NoteAck
    <3> QED
      BY <2>1, <3>1, <3>2 DEF NoAckMissed
  <2> QED
    BY <2>2, <2>3
<1> QED
  BY <1>1, <1>2, <1>3 DEF Next

(* No ack is lost between the two looks of wait_for_progress and its wait:   *)
(* a pusher that waits unwoken has seen the furthest ack.                    *)
THEOREM AckCorrect == Spec => []NoAckMissed
<1>1. Init => TypeOK /\ NoAckMissed
  BY TypeInit DEF Init, NoAckMissed
<1>2. TypeOK /\ NoAckMissed /\ [Next]_vars => (TypeOK /\ NoAckMissed)'
  BY TypeNext, AckNext
<1> QED
  BY <1>1, <1>2, PTL DEF Spec

LEMMA WindowInit == Init => WindowHeld
<1> SUFFICES ASSUME Init
             PROVE  WindowHeld
  OBVIOUS
<1>1. \A w \in Windows : w \in Nat
  BY PullAssumption
<1> QED
  BY <1>1 DEF Init, WindowHeld

\* A further ack only widens the window.
LEMMA Further ==
  ASSUME NEW o \in Nat, NEW k \in Nat, NEW a \in Nat, NEW b \in Nat, b >= a
  PROVE  (o < a + k => o < b + k) /\ (o <= a + k => o <= b + k)
OBVIOUS

LEMMA WindowNext == TypeOK /\ WindowHeld /\ [Next]_vars => WindowHeld'
<1> SUFFICES ASSUME TypeOK, WindowHeld, [Next]_vars
             PROVE  WindowHeld'
  OBVIOUS
<1>a. /\ offset \in Nat /\ acked \in Nat /\ window \in Nat
      /\ window \in Windows \cup {0}
      /\ \A w \in Windows : w \in Nat
  BY PullAssumption DEF TypeOK, PusherType
<1>1. CASE \/ Ask \/ Admit \/ Expire \/ Asker \/ Router \/ Disconnected
           \/ \E a \in Collector : Collect(a) \/ CollectTimeout(a)
           \/ Answer \/ WriteFragment \/ LoseLink
           \/ UNCHANGED vars
  BY <1>1, PusherAside DEF WindowHeld
<1>2. CASE SendFragment
  <2>1. /\ offset' = offset + 1 /\ acked' = acked
        /\ push' # "sending" /\ offset < acked + window
    BY <1>2 DEF SendFragment, WindowHeld
  <2>2. ASSUME NEW w \in Windows, \A v \in Windows : v <= w
        PROVE  offset' <= acked' + w
    <3>1. window <= w
      BY <1>a, <2>2
    <3> QED
      BY <1>a, <2>1, <3>1
  <2> QED
    BY <2>1, <2>2 DEF WindowHeld
<1>3. CASE AwaitWindow
  BY <1>3 DEF AwaitWindow, WindowHeld
<1>4. CASE \/ Measure \/ LookForAck \/ EnableWake \/ Recheck \/ Wake
           \/ SendRefused \/ Finish \/ Stall
  <2>1. /\ UNCHANGED <<offset, acked>>
        /\ push' # "sending"
    BY <1>4 DEF Measure, LookForAck, EnableWake, Recheck, Wake, SendRefused, Finish, Stall, Fails
  <2> QED
    BY <2>1 DEF WindowHeld
<1>5. ASSUME NEW n \in acks, NoteAck(n)
      PROVE  WindowHeld'
  <2>1. push' = push /\ offset' = offset /\ window' = window
    BY <1>5 DEF NoteAck
  <2>2. acked' \in Nat /\ acked' >= acked
    <3>1. n \in Nat
      BY DEF TypeOK, WireType
    <3> QED
      BY <1>a, <1>5, <3>1 DEF NoteAck
  <2>3. push' = "sending" => offset' < acked' + window'
    <3>1. push = "sending" => offset < acked + window
      BY DEF WindowHeld
    <3> QED
      BY <1>a, <2>1, <2>2, <3>1, Further
  <2>4. ASSUME NEW w \in Windows, \A v \in Windows : v <= w
        PROVE  offset' <= acked' + w
    <3>1. w \in Nat /\ offset <= acked + w
      BY <1>a, <2>4 DEF WindowHeld
    <3> QED
      BY <1>a, <2>1, <2>2, <3>1, Further
  <2> QED
    BY <2>3, <2>4 DEF WindowHeld
<1> QED
  BY <1>1, <1>2, <1>3, <1>4, <1>5 DEF Next, Walk

(* Whatever order the acks arrive in, the pusher is never more than the      *)
(* largest window ahead of the furthest one (await_window, AckWindow::note). *)
THEOREM WindowCorrect == Spec => []WindowHeld
<1>1. Init => TypeOK /\ WindowHeld
  BY TypeInit, WindowInit
<1>2. TypeOK /\ WindowHeld /\ [Next]_vars => (TypeOK /\ WindowHeld)'
  BY TypeNext, WindowNext
<1> QED
  BY <1>1, <1>2, PTL DEF Spec
=============================================================================
