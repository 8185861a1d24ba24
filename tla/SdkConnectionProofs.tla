------------------------- MODULE SdkConnectionProofs -------------------------
(***************************************************************************)
(* Theorems about SdkConnection, for any number of calls, any frames that  *)
(* cannot be encoded, and any capacity of the channel and of the lanes.    *)
(***************************************************************************)
EXTENDS SdkConnection, FiniteSetTheorems, SequenceTheorems, TLAPS

-----------------------------------------------------------------------------
(* Queues of frames.                                                         *)

LEMMA ElementsType ==
  ASSUME NEW S, NEW q \in Seq(S)
  PROVE  Elements(q) \subseteq S
BY ElementOfSeq, LenProperties DEF Elements

\* A command or a frame that joins a queue is in it, behind the others.
LEMMA ElementsAppend ==
  ASSUME NEW S, NEW q \in Seq(S), NEW e \in S
  PROVE  /\ Append(q, e) \in Seq(S)
         /\ Elements(Append(q, e)) = Elements(q) \cup {e}
<1>1. /\ Append(q, e) \in Seq(S) /\ Len(Append(q, e)) = Len(q) + 1
      /\ Append(q, e)[Len(q) + 1] = e
      /\ \A i \in 1..Len(q) : Append(q, e)[i] = q[i]
  BY AppendProperties
<1>2. /\ DOMAIN Append(q, e) = 1..(Len(q) + 1) /\ DOMAIN q = 1..Len(q) /\ Len(q) \in Nat
  BY <1>1, LenProperties
<1> QED
  BY <1>1, <1>2 DEF Elements

\* The two parts of a queue that is cut.
LEMMA QueueCut ==
  ASSUME NEW S, NEW q \in Seq(S), NEW n \in 0..Len(q)
  PROVE  /\ Len(q) \in Nat /\ DOMAIN q = 1..Len(q)
         /\ SubSeq(q, 1, n) \in Seq(S) /\ DOMAIN SubSeq(q, 1, n) = 1..n
         /\ \A i \in 1..n : SubSeq(q, 1, n)[i] = q[i]
         /\ SubSeq(q, n + 1, Len(q)) \in Seq(S)
         /\ DOMAIN SubSeq(q, n + 1, Len(q)) = 1..(Len(q) - n)
         /\ \A i \in 1..(Len(q) - n) : SubSeq(q, n + 1, Len(q))[i] = q[n + i]
<1>1. Len(q) \in Nat /\ DOMAIN q = 1..Len(q)
  BY LenProperties
<1>2. /\ SubSeq(q, 1, n) \in Seq(S) /\ Len(SubSeq(q, 1, n)) = n
      /\ \A i \in 1..n : SubSeq(q, 1, n)[i] = q[i]
  <2>1. \A i \in 1..n : q[i] \in S
    BY <1>1, ElementOfSeq
  <2> QED
    BY <2>1, SubSeqProperties
<1>3. /\ SubSeq(q, n + 1, Len(q)) \in Seq(S)
      /\ Len(SubSeq(q, n + 1, Len(q))) = Len(q) - n
      /\ \A i \in 1..(Len(q) - n) : SubSeq(q, n + 1, Len(q))[i] = q[n + i]
  <2>1. \A i \in (n + 1)..Len(q) : q[i] \in S
    BY <1>1, ElementOfSeq
  <2>2. /\ SubSeq(q, n + 1, Len(q)) \in Seq(S)
        /\ Len(SubSeq(q, n + 1, Len(q))) = IF n + 1 <= Len(q) THEN Len(q) - (n + 1) + 1 ELSE 0
        /\ \A i \in 1..(Len(q) - (n + 1) + 1) :
             SubSeq(q, n + 1, Len(q))[i] = q[(n + 1) + i - 1]
    <3>1. n + 1 \in Int /\ Len(q) \in Int
      BY <1>1
    <3> QED
      BY <2>1, <3>1, SubSeqProperties
  <2>3. /\ Len(q) - (n + 1) + 1 = Len(q) - n
        /\ (IF n + 1 <= Len(q) THEN Len(q) - (n + 1) + 1 ELSE 0) = Len(q) - n
    <3>1. \A a \in Nat : \A b \in 0..a :
            /\ a - (b + 1) + 1 = a - b
            /\ (IF b + 1 <= a THEN a - (b + 1) + 1 ELSE 0) = a - b
      OBVIOUS
    <3> QED
      BY <1>1, <3>1
  <2>4. \A i \in 1..(Len(q) - n) : (n + 1) + i - 1 = n + i
    BY <1>1
  <2>5. \A i \in 1..(Len(q) - n) : SubSeq(q, n + 1, Len(q))[i] = q[n + i]
    BY <2>2, <2>3, <2>4, Zenon
  <2> QED
    BY <2>2, <2>3, <2>5
<1>4. /\ DOMAIN SubSeq(q, 1, n) = 1..n
      /\ DOMAIN SubSeq(q, n + 1, Len(q)) = 1..(Len(q) - n)
  BY <1>2, <1>3, LenProperties
<1> QED
  BY <1>1, <1>2, <1>3, <1>4

\* Cutting a queue in two loses no frame.
LEMMA ElementsCut ==
  ASSUME NEW S, NEW q \in Seq(S), NEW n \in 0..Len(q)
  PROVE  /\ SubSeq(q, n + 1, Len(q)) \in Seq(S)
         /\ Front(q, n) \subseteq S
         /\ Elements(q) = Front(q, n) \cup Elements(SubSeq(q, n + 1, Len(q)))
<1>1. /\ Len(q) \in Nat /\ DOMAIN q = 1..Len(q)
      /\ SubSeq(q, 1, n) \in Seq(S) /\ DOMAIN SubSeq(q, 1, n) = 1..n
      /\ \A i \in 1..n : SubSeq(q, 1, n)[i] = q[i]
      /\ SubSeq(q, n + 1, Len(q)) \in Seq(S)
      /\ DOMAIN SubSeq(q, n + 1, Len(q)) = 1..(Len(q) - n)
      /\ \A i \in 1..(Len(q) - n) : SubSeq(q, n + 1, Len(q))[i] = q[n + i]
  BY QueueCut
<1>2. Front(q, n) = {q[i] : i \in 1..n}
  BY <1>1 DEF Front, Elements
<1>3. Elements(SubSeq(q, n + 1, Len(q))) = {q[n + i] : i \in 1..(Len(q) - n)}
  BY <1>1 DEF Elements
<1>4. Elements(q) = {q[i] : i \in 1..n} \cup {q[n + i] : i \in 1..(Len(q) - n)}
  <2>1. ASSUME NEW i \in 1..Len(q)
        PROVE  i \in 1..n \/ \E j \in 1..(Len(q) - n) : i = n + j
    <3>1. i \in 1..n \/ (i - n \in 1..(Len(q) - n) /\ i = n + (i - n))
      BY <1>1, <2>1
    <3> QED
      BY <3>1
  <2>2. \A i \in 1..n : i \in 1..Len(q)
    BY <1>1
  <2>3. \A i \in 1..(Len(q) - n) : n + i \in 1..Len(q)
    BY <1>1
  <2>4. DOMAIN q = 1..Len(q)
    BY <1>1
  <2> QED
    BY <2>1, <2>2, <2>3, <2>4 DEF Elements
<1>5. Front(q, n) \subseteq S
  BY <1>1, ElementsType DEF Front
<1> QED
  BY <1>1, <1>2, <1>3, <1>4, <1>5

\* No frame is twice in the queue.
Once(q) == \A i, j \in DOMAIN q : q[i] = q[j] => i = j

\* Then none is in both parts, nor twice in the second.
LEMMA OnceCut ==
  ASSUME NEW S, NEW q \in Seq(S), NEW n \in 0..Len(q), Once(q)
  PROVE  /\ Once(SubSeq(q, n + 1, Len(q)))
         /\ \A c \in Front(q, n) : c \notin Elements(SubSeq(q, n + 1, Len(q)))
<1>1. /\ Len(q) \in Nat /\ DOMAIN q = 1..Len(q)
      /\ SubSeq(q, 1, n) \in Seq(S) /\ DOMAIN SubSeq(q, 1, n) = 1..n
      /\ \A i \in 1..n : SubSeq(q, 1, n)[i] = q[i]
      /\ SubSeq(q, n + 1, Len(q)) \in Seq(S)
      /\ DOMAIN SubSeq(q, n + 1, Len(q)) = 1..(Len(q) - n)
      /\ \A i \in 1..(Len(q) - n) : SubSeq(q, n + 1, Len(q))[i] = q[n + i]
  BY QueueCut
<1> DEFINE front == SubSeq(q, 1, n)
           rest == SubSeq(q, n + 1, Len(q))
<1>2. /\ DOMAIN front = 1..n /\ \A i \in 1..n : front[i] = q[i]
      /\ DOMAIN rest = 1..(Len(q) - n) /\ \A i \in 1..(Len(q) - n) : rest[i] = q[n + i]
  BY <1>1
<1> HIDE DEF front, rest
<1>3. Once(rest)
  <2>1. SUFFICES ASSUME NEW i \in 1..(Len(q) - n), NEW j \in 1..(Len(q) - n), rest[i] = rest[j]
                 PROVE  i = j
    BY <1>2 DEF Once
  <2>2. n + i \in DOMAIN q /\ n + j \in DOMAIN q /\ q[n + i] = q[n + j]
    BY <1>1, <1>2, <2>1
  <2>3. n + i = n + j
    BY <2>2 DEF Once
  <2> QED
    BY <1>1, <2>3
<1>4. ASSUME NEW i \in 1..n, NEW j \in 1..(Len(q) - n) PROVE front[i] # rest[j]
  <2>1. i \in DOMAIN q /\ n + j \in DOMAIN q /\ i # n + j
    BY <1>1
  <2> QED
    BY <1>2, <2>1 DEF Once
<1>5. \A c \in Elements(front) : c \notin Elements(rest)
  BY <1>2, <1>4 DEF Elements
<1> QED
  BY <1>3, <1>5 DEF Front, front, rest

\* A frame that was not there can join it.
LEMMA OnceAppend ==
  ASSUME NEW S, NEW q \in Seq(S), NEW e \in S, Once(q), e \notin Elements(q)
  PROVE  Once(Append(q, e))
<1>1. /\ Append(q, e) \in Seq(S) /\ Len(Append(q, e)) = Len(q) + 1
      /\ Append(q, e)[Len(q) + 1] = e
      /\ \A i \in 1..Len(q) : Append(q, e)[i] = q[i]
  BY AppendProperties
<1>2. /\ DOMAIN Append(q, e) = 1..(Len(q) + 1) /\ DOMAIN q = 1..Len(q) /\ Len(q) \in Nat
  BY <1>1, LenProperties
<1>3. \A i \in 1..Len(q) : q[i] # e
  BY <1>2 DEF Elements
<1>4. \A i \in 1..(Len(q) + 1) : i \in 1..Len(q) \/ i = Len(q) + 1
  BY <1>2
<1> QED
  BY <1>1, <1>2, <1>3, <1>4 DEF Once

\* What HandleCommand takes off the channel.
LEMMA CommandTaken ==
  ASSUME NEW S, NEW q \in Seq(S), q # <<>>
  PROVE  /\ Head(q) \in S /\ Tail(q) \in Seq(S) /\ Len(Tail(q)) < Len(q)
         /\ Head(q) = q[1] /\ 1 \in DOMAIN q
         /\ DOMAIN Tail(q) = 1..(Len(q) - 1) /\ DOMAIN q = 1..Len(q) /\ Len(q) \in Nat \ {0}
         /\ \A i \in DOMAIN Tail(q) : Tail(q)[i] = q[i + 1] /\ i + 1 \in DOMAIN q
<1>1. Head(q) \in S /\ Tail(q) \in Seq(S) /\ Len(q) \in Nat \ {0} /\ DOMAIN q = 1..Len(q)
  BY HeadTailProperties, LenProperties, EmptySeq
<1>2. Len(Tail(q)) = Len(q) - 1 /\ Head(q) = q[1]
  BY <1>1
<1>3. DOMAIN Tail(q) = 1..(Len(q) - 1)
  BY <1>1, <1>2, LenProperties
<1>4. \A i \in 1..(Len(q) - 1) : Tail(q)[i] = q[i + 1]
  BY <1>1
<1> QED
  BY <1>1, <1>2, <1>3, <1>4

-----------------------------------------------------------------------------
(* Admission.                                                                *)

Frames == [Lane -> Seq(Call)]
Scheduled == [Lane -> SUBSET Call]
State == {"open", "ok", "failed", "response", "dropped", "closed"}

\* admit takes no more frames than there are.
LEMMA AdmittedType ==
  ASSUME NEW s \in Frames, NEW q, NEW l \in Lane
  PROVE  Admitted(s, q, l) \in 0..Len(s[l])
<1> DEFINE D == DOMAIN s[l]
           A == {i \in D : Cardinality(q[l] \cup (Front(s[l], i - 1) \ Unencodable)) < MaxLane}
<1>1. Len(s[l]) \in Nat /\ D = 1..Len(s[l])
  BY LenProperties DEF Frames
<1>2. IsFiniteSet(D) /\ Cardinality(D) = Len(s[l])
  BY <1>1, FS_Interval
<1>3. A \in SUBSET D
  OBVIOUS
<1>4. IsFiniteSet(A) /\ Cardinality(A) <= Cardinality(D)
  BY <1>2, <1>3, FS_Subset
<1>5. Cardinality(A) \in Nat
  BY <1>4, FS_CardinalityType
<1>6. Admitted(s, q, l) = Cardinality(A)
  BY DEF Admitted
<1> QED
  BY <1>1, <1>2, <1>4, <1>5, <1>6

\* A wake takes these frames off the stalled ones.  A message that was taken is
\* acknowledged, a request that cannot be encoded is struck from pending.
Takes(taken, before, after, p1, p2, o1, o2) ==
  /\ taken \subseteq Call
  /\ \A c \in taken : \E l \in Lane : c \in Elements(before[l])
  /\ \A l \in Lane : /\ Elements(before[l]) \subseteq taken \cup Elements(after[l])
                     /\ Elements(after[l]) \subseteq Elements(before[l])
  /\ p2 = p1 \ (taken \cap Unencodable)
  /\ \A c \in Call : o2[c] = IF c \in taken THEN Acknowledged(c, o1[c]) ELSE o1[c]

\* What a wake leaves behind.
LEMMA SettleEffect ==
  ASSUME NEW s \in Frames, NEW q \in Scheduled, NEW p \in SUBSET Request,
         NEW o \in [Call -> State], NEW k \in {"idle", "ready", "writing"},
         Settle(s, q, p, o, k)
  PROVE  /\ stalled' \in Frames /\ lanes' \in Scheduled
         /\ pending' \subseteq Request /\ oneshot' \in [Call -> State]
         /\ link' \in {"idle", "ready", "writing"}
         /\ \E taken : Takes(taken, s, stalled', p, pending', o, oneshot')
<1> DEFINE n(l) == Admitted(s, q, l)
           taken == UNION {Front(s[l], n(l)) : l \in Lane}
<1>1. \A l \in Lane :
        /\ SubSeq(s[l], n(l) + 1, Len(s[l])) \in Seq(Call)
        /\ Front(s[l], n(l)) \subseteq Call
        /\ Elements(s[l]) = Front(s[l], n(l)) \cup Elements(SubSeq(s[l], n(l) + 1, Len(s[l])))
  <2> SUFFICES ASSUME NEW l \in Lane
               PROVE  /\ SubSeq(s[l], n(l) + 1, Len(s[l])) \in Seq(Call)
                      /\ Front(s[l], n(l)) \subseteq Call
                      /\ Elements(s[l])
                           = Front(s[l], n(l)) \cup Elements(SubSeq(s[l], n(l) + 1, Len(s[l])))
    OBVIOUS
  <2>1. s[l] \in Seq(Call) /\ n(l) \in 0..Len(s[l])
    BY AdmittedType DEF Frames
  <2> HIDE DEF n
  <2> QED
    BY <2>1, ElementsCut
<1>2. taken \subseteq Call
  BY <1>1
<1>3. /\ stalled' = [l \in Lane |-> SubSeq(s[l], n(l) + 1, Len(s[l]))]
      /\ lanes' = [l \in Lane |-> q[l] \cup (Front(s[l], n(l)) \ Unencodable)]
      /\ pending' = p \ (taken \cap Unencodable)
      /\ oneshot' = [c \in Call |-> IF c \in taken THEN Acknowledged(c, o[c]) ELSE o[c]]
      /\ link' = Asked(lanes', k)
  BY DEF Settle
<1> HIDE DEF n
<1>4. stalled' \in Frames
  BY <1>1, <1>3 DEF Frames
<1>5. lanes' \in Scheduled
  BY <1>1, <1>3 DEF Scheduled
<1> HIDE DEF taken
<1>6. pending' \subseteq Request
  BY <1>3
<1>7. \A c \in Call : Acknowledged(c, o[c]) \in State
  BY DEF Acknowledged, State
<1>8. oneshot' \in [Call -> State]
  BY <1>3, <1>7
<1>9. link' \in {"idle", "ready", "writing"}
  BY <1>3 DEF Asked
<1>10. \A l \in Lane : /\ Elements(s[l]) \subseteq taken \cup Elements(stalled'[l])
                       /\ Elements(stalled'[l]) \subseteq Elements(s[l])
  <2> SUFFICES ASSUME NEW l \in Lane
               PROVE  /\ Elements(s[l]) \subseteq taken \cup Elements(stalled'[l])
                      /\ Elements(stalled'[l]) \subseteq Elements(s[l])
    OBVIOUS
  <2>1. Front(s[l], n(l)) \subseteq taken
    BY DEF taken
  <2>2. stalled'[l] = SubSeq(s[l], n(l) + 1, Len(s[l]))
    BY <1>3
  <2> QED
    BY <1>1, <2>1, <2>2
<1>11. \A c \in Call : oneshot'[c] = IF c \in taken THEN Acknowledged(c, o[c]) ELSE o[c]
  BY <1>3
<1>12. \A c \in taken : \E l \in Lane : c \in Elements(s[l])
  BY <1>1 DEF taken
<1>13. Takes(taken, s, stalled', p, pending', o, oneshot')
  BY <1>2, <1>3, <1>10, <1>11, <1>12 DEF Takes
<1> QED
  BY <1>4, <1>5, <1>6, <1>8, <1>9, <1>13

-----------------------------------------------------------------------------
(* Types.                                                                    *)

Commands == [kind : {"send"}, call : Message] \cup [kind : {"request", "cancel"}, call : Request]

\* What the types rest on: only requests time out, a caller has its receiver
\* until then, and a Cancel is that of a call that has returned.
CallsInv ==
  /\ \A c \in Message : caller[c] # "cancelling"
  /\ \A c \in Call : caller[c] \in {"new", "sending", "waiting"} => oneshot[c] # "closed"
  /\ \A i \in DOMAIN cmds : cmds[i].kind = "cancel" => caller[cmds[i].call] = "timeout"

LEMMA StallType ==
  ASSUME TypeOK, NEW c \in Call
  PROVE  /\ Stall(c) \in Frames /\ FrameLane(c) \in Lane
         /\ \A l \in Lane : /\ Elements(stalled[l]) \subseteq Elements(Stall(c)[l])
                            /\ Elements(Stall(c)[l]) \subseteq Elements(stalled[l]) \cup {c}
         /\ c \in Elements(Stall(c)[FrameLane(c)])
<1>1. FrameLane(c) \in Lane
  BY ConnectionAssumption DEF ConnectionAssumption, FrameLane, Lane, Call
<1>2. stalled \in Frames
  BY DEF TypeOK, Frames
<1>3. /\ Append(stalled[FrameLane(c)], c) \in Seq(Call)
      /\ Elements(Append(stalled[FrameLane(c)], c)) = Elements(stalled[FrameLane(c)]) \cup {c}
  BY <1>1, <1>2, ElementsAppend DEF Frames
<1>4. Stall(c) = [stalled EXCEPT ![FrameLane(c)] = Append(stalled[FrameLane(c)], c)]
  BY DEF Stall
<1> QED
  BY <1>1, <1>2, <1>3, <1>4 DEF Frames

LEMMA QueueType ==
  ASSUME TypeOK
  PROVE  cmds \in Seq(Commands) /\ \A i \in DOMAIN cmds : cmds[i].call \in Call
<1>1. cmds \in Seq(Commands)
  BY DEF TypeOK, Commands
<1> QED
  BY <1>1, ElementOfSeq, LenProperties DEF Commands, Call

\* A command that a call puts into the channel.
LEMMA EnqueueType ==
  ASSUME TypeOK, NEW c \in Call, NEW kind, Enqueue(c, kind), Command(kind, c) \in Commands
  PROVE  /\ cmds' \in Seq(Commands) /\ Len(cmds') <= CmdCap
         /\ DOMAIN cmds' = 1..(Len(cmds) + 1) /\ DOMAIN cmds = 1..Len(cmds)
         /\ Len(cmds) \in Nat
         /\ \A i \in DOMAIN cmds : cmds'[i] = cmds[i]
         /\ cmds'[Len(cmds) + 1] = Command(kind, c)
<1>1. cmds \in Seq(Commands) /\ cmds' = Append(cmds, Command(kind, c)) /\ Len(cmds) < CmdCap
  BY DEF TypeOK, Commands, Enqueue
<1>2. /\ cmds' \in Seq(Commands) /\ Len(cmds') = Len(cmds) + 1
      /\ \A i \in 1..Len(cmds) : cmds'[i] = cmds[i]
      /\ cmds'[Len(cmds) + 1] = Command(kind, c)
  BY <1>1, AppendProperties
<1>3. Len(cmds) \in Nat /\ DOMAIN cmds = 1..Len(cmds) /\ DOMAIN cmds' = 1..Len(cmds')
  BY <1>1, <1>2, LenProperties
<1>4. CmdCap \in Nat
  BY ConnectionAssumption DEF ConnectionAssumption
<1> QED
  BY <1>1, <1>2, <1>3, <1>4

\* A command that is handled, and what is settled after it.
LEMMA HandleEffect ==
  ASSUME TypeOK, HandleCommand
  PROVE  /\ cmds # <<>> /\ cmds' = Tail(cmds) /\ cmds[1] \in Commands
         /\ \E s \in Frames, p \in SUBSET Request :
              /\ Settle(s, lanes, p, oneshot, link)
              /\ cmds[1].kind = "send" => s = Stall(cmds[1].call) /\ p = pending
              /\ cmds[1].kind = "request" =>
                   s = Stall(cmds[1].call) /\ p = pending \cup {cmds[1].call}
              /\ cmds[1].kind = "cancel" => s = stalled /\ p = pending \ {cmds[1].call}
<1>1. cmds \in Seq(Commands) /\ cmds # <<>> /\ cmds' = Tail(cmds)
  BY DEF TypeOK, Commands, HandleCommand
<1>2. Head(cmds) = cmds[1] /\ cmds[1] \in Commands
  BY <1>1, CommandTaken
<1>3. cmds[1].call \in Call /\ cmds[1].kind \in {"send", "request", "cancel"}
      /\ (cmds[1].kind = "request" => cmds[1].call \in Request)
  BY <1>2 DEF Commands, Call
<1>4. Stall(cmds[1].call) \in Frames /\ stalled \in Frames /\ pending \in SUBSET Request
  BY <1>3, StallType DEF TypeOK, Frames
<1>5. CASE cmds[1].kind = "send"
  <2>1. Settle(Stall(cmds[1].call), lanes, pending, oneshot, link)
    BY <1>2, <1>5 DEF HandleCommand
  <2> QED
    BY <1>1, <1>2, <1>4, <1>5, <2>1
<1>6. CASE cmds[1].kind = "request"
  <2>1. Settle(Stall(cmds[1].call), lanes, pending \cup {cmds[1].call}, oneshot, link)
    BY <1>2, <1>6 DEF HandleCommand
  <2>2. pending \cup {cmds[1].call} \in SUBSET Request
    BY <1>3, <1>4, <1>6
  <2> QED
    BY <1>1, <1>2, <1>4, <1>6, <2>1, <2>2
<1>7. CASE cmds[1].kind = "cancel"
  <2>1. Settle(stalled, lanes, pending \ {cmds[1].call}, oneshot, link)
    BY <1>2, <1>7 DEF HandleCommand
  <2>2. pending \ {cmds[1].call} \in SUBSET Request
    BY <1>4
  <2> QED
    BY <1>1, <1>2, <1>4, <1>7, <2>1, <2>2
<1> QED
  BY <1>3, <1>5, <1>6, <1>7

Inv == TypeOK /\ CallsInv

LEMMA InitInv == Init => Inv
<1> SUFFICES ASSUME Init PROVE Inv
  OBVIOUS
<1>1. cmds = <<>> /\ <<>> \in Seq(Commands) /\ Len(<<>>) = 0 /\ DOMAIN <<>> = {}
  BY EmptySeq DEF Init
<1>2. CmdCap \in Nat /\ ErrorLimit \in Nat \ {0}
  BY ConnectionAssumption DEF ConnectionAssumption
<1>3. \A c \in Call : caller[c] = "new" /\ oneshot[c] = "open"
  BY DEF Init
<1>4. <<>> \in Seq(Call)
  BY EmptySeq
<1>5. TypeOK
  BY <1>1, <1>2, <1>4 DEF Init, TypeOK, Commands, Returned
<1>6. CallsInv
  BY <1>1, <1>3 DEF CallsInv, Call
<1> QED
  BY <1>5, <1>6 DEF Inv

\* A step of a caller.
LEMMA CallerStep ==
  ASSUME Inv, NEW c \in Call,
         \/ Start(c) \/ Step(c) \/ (c \in Request /\ Timeout(c))
  PROVE  Inv'
<1> USE DEF Inv
<1>1. \A d \in Call : oneshot[d] \in State
  BY DEF TypeOK, State
<1>2. CASE Start(c)
  <2>1. TypeOK'
    BY <1>2 DEF Start, TypeOK, outbound, Returned
  <2>2. CallsInv'
    BY <1>2 DEF Start, TypeOK, CallsInv, outbound, Call
  <2> QED
    BY <2>1, <2>2
<1>3. CASE Submit(c)
  <2> DEFINE kind == IF c \in Request THEN "request" ELSE "send"
  <2>1. Enqueue(c, kind) /\ Command(kind, c) \in Commands /\ kind # "cancel"
    BY <1>3 DEF Submit, Commands, Command, Call
  <2>2. /\ cmds' \in Seq(Commands) /\ Len(cmds') <= CmdCap
        /\ DOMAIN cmds' = 1..(Len(cmds) + 1) /\ DOMAIN cmds = 1..Len(cmds)
        /\ Len(cmds) \in Nat
        /\ \A i \in DOMAIN cmds : cmds'[i] = cmds[i]
        /\ cmds'[Len(cmds) + 1] = Command(kind, c)
    BY <2>1, EnqueueType
  <2>3. TypeOK'
    BY <1>3, <2>2 DEF Submit, TypeOK, outbound, Returned, Commands
  <2>4. caller[c] = "sending" /\ caller' = [caller EXCEPT ![c] = "waiting"] /\ oneshot' = oneshot
    BY <1>3 DEF Submit
  <2>5. \A i \in DOMAIN cmds' : cmds'[i].kind = "cancel" => i \in DOMAIN cmds /\ cmds'[i] = cmds[i]
    BY <2>1, <2>2 DEF Command
  <2> HIDE DEF kind
  <2>6. \A d \in Call : caller'[d] = IF d = c THEN "waiting" ELSE caller[d]
    BY <2>4 DEF TypeOK
  <2>7. \A i \in DOMAIN cmds' : cmds'[i].kind = "cancel" => caller'[cmds'[i].call] = "timeout"
    <3> SUFFICES ASSUME NEW i \in DOMAIN cmds', cmds'[i].kind = "cancel"
                 PROVE  caller'[cmds'[i].call] = "timeout"
      OBVIOUS
    <3>1. caller[cmds'[i].call] = "timeout"
      BY <2>5 DEF CallsInv
    <3>2. cmds'[i] \in Commands
      BY <2>2, ElementOfSeq, LenProperties
    <3> QED
      BY <2>4, <2>6, <3>1, <3>2 DEF Commands, Call
  <2> QED
    BY <2>3, <2>4, <2>6, <2>7 DEF CallsInv, Call
<1>4. CASE Refused(c)
  <2>1. TypeOK'
    BY <1>4 DEF Refused, TypeOK, outbound, Returned
  <2>2. CallsInv'
    BY <1>4 DEF Refused, TypeOK, CallsInv, outbound, Call
  <2> QED
    BY <2>1, <2>2
<1>5. CASE Return(c)
  <2>1. Outcome(oneshot[c]) \in Returned \ {"timeout"}
    BY <1>1, <1>5 DEF Return, Outcome, Returned, State, CallsInv
  <2>2. TypeOK'
    BY <1>5, <2>1 DEF Return, TypeOK, outbound
  <2>3. CallsInv'
    BY <1>5, <2>1 DEF Return, TypeOK, CallsInv, outbound, Call, Returned
  <2> QED
    BY <2>2, <2>3
<1>6. CASE c \in Request /\ Timeout(c)
  <2>1. c \notin Message
    BY <1>6, ConnectionAssumption DEF ConnectionAssumption
  <2>2. TypeOK'
    BY <1>6 DEF Timeout, TypeOK, outbound
  <2>3. CallsInv'
    BY <1>6, <2>1 DEF Timeout, TypeOK, CallsInv, outbound, Call
  <2> QED
    BY <2>2, <2>3
<1>7. CASE SendCancel(c)
  <2>1. c \in Request /\ Enqueue(c, "cancel") /\ Command("cancel", c) \in Commands
    BY <1>7 DEF SendCancel, CallsInv, Commands, Command, Call
  <2>2. /\ cmds' \in Seq(Commands) /\ Len(cmds') <= CmdCap
        /\ DOMAIN cmds' = 1..(Len(cmds) + 1) /\ DOMAIN cmds = 1..Len(cmds)
        /\ Len(cmds) \in Nat
        /\ \A i \in DOMAIN cmds : cmds'[i] = cmds[i]
        /\ cmds'[Len(cmds) + 1] = Command("cancel", c)
    BY <2>1, EnqueueType
  <2>3. TypeOK'
    BY <1>7, <2>2 DEF SendCancel, TypeOK, outbound, Returned, Commands
  <2>4. caller' = [caller EXCEPT ![c] = "timeout"] /\ oneshot' = oneshot
    BY <1>7 DEF SendCancel
  <2>5. \A d \in Call : caller'[d] = IF d = c THEN "timeout" ELSE caller[d]
    BY <2>4 DEF TypeOK
  <2>6. \A i \in DOMAIN cmds' : cmds'[i].kind = "cancel" => caller'[cmds'[i].call] = "timeout"
    <3> SUFFICES ASSUME NEW i \in DOMAIN cmds', cmds'[i].kind = "cancel"
                 PROVE  caller'[cmds'[i].call] = "timeout"
      OBVIOUS
    <3>1. cmds'[i].call \in Call
      BY <2>2, ElementOfSeq, LenProperties DEF Commands, Call
    <3>2. CASE i = Len(cmds) + 1
      BY <2>2, <2>5, <3>1, <3>2 DEF Command
    <3>3. CASE i \in DOMAIN cmds
      BY <2>2, <2>5, <3>1, <3>3 DEF CallsInv
    <3> QED
      BY <2>2, <3>2, <3>3
  <2> QED
    BY <2>3, <2>4, <2>5, <2>6 DEF CallsInv, Call
<1> QED
  BY <1>2, <1>3, <1>4, <1>5, <1>6, <1>7 DEF Step

\* A wake of the driver that settles s, q, p, o, k and takes the commands that
\* it does not leave.
LEMMA SettleStep ==
  ASSUME Inv, NEW s \in Frames, NEW q \in Scheduled, NEW p \in SUBSET Request,
         NEW k \in {"idle", "ready", "writing"}, Settle(s, q, p, oneshot, k),
         UNCHANGED <<caller, handles, driver, errors, events>>,
         batch' \subseteq Call, reached' \subseteq Request,
         cmds' = cmds \/ (cmds # <<>> /\ cmds' = Tail(cmds))
  PROVE  Inv'
<1> USE DEF Inv
<1>1. /\ stalled' \in Frames /\ lanes' \in Scheduled
      /\ pending' \subseteq Request /\ oneshot' \in [Call -> State]
      /\ link' \in {"idle", "ready", "writing"}
      /\ \A c \in Call : oneshot'[c] \in {oneshot[c], Acknowledged(c, oneshot[c])}
  <2>1. oneshot \in [Call -> State]
    BY DEF TypeOK, State
  <2>2. /\ stalled' \in Frames /\ lanes' \in Scheduled
        /\ pending' \subseteq Request /\ oneshot' \in [Call -> State]
        /\ link' \in {"idle", "ready", "writing"}
    BY <2>1, SettleEffect
  <2>3. PICK taken : Takes(taken, s, stalled', p, pending', oneshot, oneshot')
    BY <2>1, SettleEffect
  <2> QED
    BY <2>2, <2>3 DEF Takes
<1>2. cmds \in Seq(Commands) /\ Len(cmds) <= CmdCap /\ CmdCap \in Nat
  BY ConnectionAssumption DEF TypeOK, Commands, ConnectionAssumption
<1>3. /\ cmds' \in Seq(Commands) /\ Len(cmds') <= CmdCap
      /\ \A i \in DOMAIN cmds' : \E j \in DOMAIN cmds : cmds'[i] = cmds[j]
  <2>1. CASE cmds' = cmds
    BY <1>2, <2>1
  <2>2. CASE cmds # <<>> /\ cmds' = Tail(cmds)
    <3>1. /\ cmds' \in Seq(Commands) /\ Len(cmds') < Len(cmds)
          /\ \A i \in DOMAIN cmds' : cmds'[i] = cmds[i + 1] /\ i + 1 \in DOMAIN cmds
      BY <1>2, <2>2, CommandTaken
    <3>2. Len(cmds') \in Nat /\ Len(cmds) \in Nat
      BY <1>2, <3>1, LenProperties
    <3> QED
      BY <1>2, <3>1, <3>2
  <2> QED
    BY <2>1, <2>2
<1>4. TypeOK'
  BY <1>1, <1>3 DEF TypeOK, Commands, State, Frames, Scheduled
<1>5. \A c \in Call : oneshot'[c] = "closed" => oneshot[c] = "closed"
  BY <1>1 DEF Acknowledged
<1> QED
  BY <1>3, <1>4, <1>5 DEF CallsInv

LEMMA DriverStep ==
  ASSUME Inv, HandleCommand \/ LinkReady \/ Written
  PROVE  Inv'
<1> USE DEF Inv
<1>1. /\ stalled \in Frames /\ lanes \in Scheduled /\ pending \in SUBSET Request
      /\ link \in {"idle", "ready", "writing"} /\ batch \subseteq Call /\ reached \subseteq Request
  BY DEF TypeOK, Frames, Scheduled
<1>2. CASE HandleCommand
  <2>1. PICK s \in Frames, p \in SUBSET Request : Settle(s, lanes, p, oneshot, link)
    BY <1>2, HandleEffect
  <2>2. /\ cmds # <<>> /\ cmds' = Tail(cmds)
        /\ UNCHANGED <<caller, handles, driver, errors, events, batch, reached>>
    BY <1>2 DEF HandleCommand
  <2> QED
    BY <1>1, <2>1, <2>2, SettleStep
<1>3. CASE LinkReady
  <2>1. PICK frames \in SUBSET UNION {lanes[l] : l \in Lane} :
          /\ batch' = frames
          /\ Settle(stalled, [l \in Lane |-> lanes[l] \ frames], pending, oneshot, "writing")
    BY <1>3 DEF LinkReady
  <2>2. UNCHANGED <<caller, cmds, handles, driver, errors, reached, events>>
    BY <1>3 DEF LinkReady
  <2>3. frames \subseteq Call /\ [l \in Lane |-> lanes[l] \ frames] \in Scheduled
    BY <1>1 DEF Scheduled
  <2> QED
    BY <1>1, <2>1, <2>2, <2>3, SettleStep
<1>4. CASE Written
  <2>1. /\ batch' = {} /\ reached' = reached \cup (batch \cap Request)
        /\ Settle(stalled, lanes, pending, oneshot, "idle")
        /\ UNCHANGED <<caller, cmds, handles, driver, errors, events>>
    BY <1>4 DEF Written
  <2> QED
    BY <1>1, <2>1, SettleStep
<1> QED
  BY <1>2, <1>3, <1>4

\* What the inbound half, the last handle and the end of the driver change.
LEMMA OtherStep ==
  ASSUME Inv,
         \/ DropHandles \/ InboundEvent \/ InboundError \/ Close \/ DropDriver
         \/ UNCHANGED vars \/ \E c \in Request : Respond(c)
  PROVE  Inv'
<1> USE DEF Inv
<1>1. ErrorLimit \in Nat \ {0} /\ CmdCap \in Nat
  BY ConnectionAssumption DEF ConnectionAssumption
<1>2. CASE DropHandles
  BY <1>2 DEF DropHandles, TypeOK, CallsInv, outbound
<1>3. CASE InboundEvent
  BY <1>1, <1>3 DEF InboundEvent, TypeOK, CallsInv, outbound
<1>4. CASE InboundError
  <2>1. errors' \in 0..(ErrorLimit - 1)
    BY <1>1, <1>4 DEF InboundError, TypeOK
  <2> QED
    BY <1>4, <2>1 DEF InboundError, TypeOK, CallsInv, outbound
<1>5. \A calls : /\ Orphaned(calls) \in [Call -> State]
                 /\ \A c \in Call : Orphaned(calls)[c] = "closed" => oneshot[c] = "closed"
  BY DEF Orphaned, TypeOK, State
<1>6. CASE Close
  <2>1. /\ oneshot' \in [Call -> State]
        /\ \A c \in Call : oneshot'[c] = "closed" => oneshot[c] = "closed"
    BY <1>5, <1>6 DEF Close
  <2>2. driver' = "closing" /\ pending' = {}
        /\ UNCHANGED <<caller, cmds, handles, outbound, errors, reached, events>>
    BY <1>6 DEF Close
  <2> QED
    BY <2>1, <2>2 DEF TypeOK, CallsInv, outbound, State
<1>7. CASE DropDriver
  <2>1. /\ oneshot' \in [Call -> State]
        /\ \A c \in Call : oneshot'[c] = "closed" => oneshot[c] = "closed"
    BY <1>5, <1>7 DEF DropDriver
  <2>2. /\ driver' = "gone" /\ cmds' = <<>> /\ link' = "idle" /\ batch' = {}
        /\ stalled' = [l \in Lane |-> <<>>] /\ lanes' = [l \in Lane |-> {}]
        /\ UNCHANGED <<caller, handles, pending, errors, reached, events>>
    BY <1>7 DEF DropDriver
  <2>3. /\ <<>> \in Seq(Commands) /\ Len(<<>>) = 0 /\ DOMAIN <<>> = {}
        /\ <<>> \in Seq(Call)
    BY EmptySeq
  <2> QED
    BY <1>1, <2>1, <2>2, <2>3 DEF TypeOK, CallsInv, State, Commands
<1>8. CASE UNCHANGED vars
  BY <1>8 DEF vars, TypeOK, CallsInv
<1>9. ASSUME NEW c \in Request, Respond(c) PROVE Inv'
  <2>1. /\ oneshot' = oneshot
           \/ oneshot' = [oneshot EXCEPT ![c] = IF @ = "open" THEN "response" ELSE @]
        /\ pending' \subseteq pending /\ events' \subseteq events \cup {c}
        /\ reached' \subseteq reached /\ errors' = 0
        /\ UNCHANGED <<caller, cmds, handles, driver, outbound>>
    BY <1>9 DEF Respond
  <2>2. /\ oneshot' \in [Call -> State]
        /\ \A d \in Call : oneshot'[d] = "closed" => oneshot[d] = "closed"
    BY <2>1 DEF TypeOK, State
  <2> QED
    BY <1>1, <2>1, <2>2 DEF TypeOK, CallsInv, outbound, State
<1> QED
  BY <1>2, <1>3, <1>4, <1>6, <1>7, <1>8, <1>9

LEMMA NextInv == Inv /\ [Next]_vars => Inv'
BY CallerStep, DriverStep, OtherStep DEF Next, Call

\* The state of a connection is well-formed, whoever calls it and however its
\* frames, its link and its peer fail (request, send_frame, run): the channel of
\* commands is bounded, and the driver stops before the limit of bad messages.
THEOREM TypeCorrect == Spec => []TypeOK
<1>1. Inv => TypeOK
  BY DEF Inv
<1> QED
  BY <1>1, InitInv, NextInv, PTL DEF Spec

-----------------------------------------------------------------------------
(* Where a call is.                                                          *)

Mentioned(c) == \E i \in DOMAIN cmds : cmds[i].call = c

Stalling(c) == \E l \in Lane : c \in Elements(stalled[l])

Awaited(c) ==
  \/ caller[c] = "waiting" /\ oneshot[c] = "open"
  \/ caller[c] = "cancelling"
  \/ CancelUnderWay(c)

\* The driver knows nothing of a call that has not been sent.
FreshCalls ==
  \A c \in Call : caller[c] \in {"new", "sending"} =>
    oneshot[c] = "open" /\ c \notin pending /\ ~ Stalling(c) /\ ~ Mentioned(c)

\* Nor of one whose command it has not handled, which is awaited.
QueuedCalls ==
  \A i \in DOMAIN cmds : cmds[i].kind # "cancel" =>
    cmds[i].call \notin pending /\ ~ Stalling(cmds[i].call) /\ Awaited(cmds[i].call)

\* Two commands of one call are its request and the Cancel, in this order.
CancelsLast ==
  \A i, j \in DOMAIN cmds : i < j /\ cmds[i].call = cmds[j].call =>
    cmds[i].kind # "cancel" /\ cmds[j].kind = "cancel"

\* What the end of the driver has cleared.
DriverOver ==
  /\ driver # "running" => pending = {}
  /\ driver = "gone" => cmds = <<>>

Life == FreshCalls /\ QueuedCalls /\ CancelsLast /\ PendingAwaited /\ DriverOver

LEMMA LifeInit == Init => Life /\ WaitsForSomeone
<1> SUFFICES ASSUME Init PROVE Life /\ WaitsForSomeone
  OBVIOUS
<1>1. cmds = <<>> /\ DOMAIN cmds = {} /\ pending = {} /\ driver = "running"
  BY EmptySeq DEF Init
<1>2. \A l \in Lane : Elements(stalled[l]) = {}
  BY EmptySeq DEF Init, Elements
<1>3. \A c \in Call : caller[c] = "new" /\ oneshot[c] = "open"
  BY DEF Init
<1> QED
  BY <1>1, <1>2, <1>3 DEF Life, FreshCalls, QueuedCalls, CancelsLast, PendingAwaited,
     DriverOver, WaitsForSomeone, Mentioned, Stalling

\* A caller that adds no command.
LEMMA LifeQuiet ==
  ASSUME Inv, Life, WaitsForSomeone, NEW c \in Call,
         Start(c) \/ Refused(c) \/ Return(c) \/ (c \in Request /\ Timeout(c))
  PROVE  Life' /\ WaitsForSomeone'
<1> USE DEF Inv
<1>1. UNCHANGED <<cmds, driver, pending, stalled>>
  BY DEF Start, Refused, Return, Timeout, outbound
<1>2. \A d \in Call \ {c} : caller'[d] = caller[d] /\ oneshot'[d] = oneshot[d]
  BY DEF Start, Refused, Return, Timeout, TypeOK
<1>3. \A d : Stalling(d)' = Stalling(d) /\ Mentioned(d)' = Mentioned(d)
              /\ CancelUnderWay(d)' = CancelUnderWay(d)
  BY <1>1 DEF Stalling, Mentioned, CancelUnderWay
<1>4. CancelUnderWay(c) => caller[c] = "timeout"
  BY DEF CancelUnderWay, CallsInv, Command
<1>5. pending \subseteq Call /\ \A i \in DOMAIN cmds : cmds[i].call \in Call
  <2>1. cmds \in Seq(Commands)
    BY DEF TypeOK, Commands
  <2> QED
    BY <2>1, ElementOfSeq, LenProperties DEF TypeOK, Commands, Call
<1>6. FreshCalls'
  <2>1. caller'[c] \in {"new", "sending"} => caller[c] = "new" /\ oneshot'[c] = oneshot[c]
    BY DEF Start, Refused, Return, Timeout, TypeOK, Outcome, State
  <2> QED
    BY <1>1, <1>2, <1>3, <2>1 DEF Life, FreshCalls
<1>7. c \in pending \/ (\E i \in DOMAIN cmds : cmds[i].kind # "cancel" /\ cmds[i].call = c)
        => Awaited(c)'
  <2> SUFFICES ASSUME c \in pending \/ (\E i \in DOMAIN cmds :
                                          cmds[i].kind # "cancel" /\ cmds[i].call = c)
               PROVE  Awaited(c)'
    OBVIOUS
  <2>1. Awaited(c) /\ driver # "gone"
    BY DEF Life, QueuedCalls, PendingAwaited, Awaited, DriverOver
  <2>2. caller[c] \notin {"new", "sending"}
    BY DEF Life, FreshCalls, Mentioned
  <2> QED
    BY <1>3, <1>4, <2>1, <2>2 DEF Awaited, Start, Refused, Return, Timeout, TypeOK
<1>8. \A d \in Call \ {c} : Awaited(d)' = Awaited(d)
  BY <1>2, <1>3 DEF Awaited
<1>9. QueuedCalls'
  BY <1>1, <1>3, <1>5, <1>7, <1>8 DEF Life, QueuedCalls
<1>10. PendingAwaited'
  BY <1>1, <1>5, <1>7, <1>8 DEF Life, PendingAwaited, Awaited
<1>11. CancelsLast' /\ DriverOver'
  BY <1>1 DEF Life, CancelsLast, DriverOver
<1>12. WaitsForSomeone'
  <2>1. ~ (caller'[c] = "waiting" /\ oneshot'[c] = "open")
    BY DEF Start, Refused, Return, Timeout, TypeOK, Outcome, State
  <2> QED
    BY <1>1, <1>2, <2>1 DEF WaitsForSomeone
<1> QED
  BY <1>6, <1>9, <1>10, <1>11, <1>12 DEF Life

\* A caller that sends its command.
LEMMA LifeSend ==
  ASSUME Inv, Life, WaitsForSomeone, NEW c \in Call, Submit(c) \/ SendCancel(c)
  PROVE  Life' /\ WaitsForSomeone'
<1> USE DEF Inv
<1> DEFINE n == Len(cmds)
           kind == IF caller[c] = "cancelling" THEN "cancel"
                   ELSE IF c \in Request THEN "request" ELSE "send"
<1>1. /\ Enqueue(c, kind) /\ Command(kind, c) \in Commands
      /\ UNCHANGED <<oneshot, driver, pending, stalled>>
      /\ caller' = [caller EXCEPT ![c] = IF kind = "cancel" THEN "timeout" ELSE "waiting"]
      /\ caller[c] = IF kind = "cancel" THEN "cancelling" ELSE "sending"
  BY DEF Submit, SendCancel, CallsInv, Commands, Command, Call, outbound
<1> HIDE DEF kind
<1>2. /\ DOMAIN cmds' = 1..(n + 1) /\ DOMAIN cmds = 1..n /\ n \in Nat
      /\ \A i \in DOMAIN cmds : cmds'[i] = cmds[i]
      /\ cmds'[n + 1] = Command(kind, c)
  BY <1>1, EnqueueType
<1>3. \A i \in DOMAIN cmds : cmds[i].call \in Call
  BY QueueType DEF Inv
<1>4. cmds'[n + 1].kind = kind /\ cmds'[n + 1].call = c
  BY <1>2 DEF Command
<1>5. \A d \in Call : caller'[d] = IF d # c THEN caller[d]
                                  ELSE IF kind = "cancel" THEN "timeout" ELSE "waiting"
  BY <1>1 DEF TypeOK
<1>6. \A d : /\ Stalling(d)' = Stalling(d)
             /\ Mentioned(d)' => Mentioned(d) \/ d = c
             /\ CancelUnderWay(d) => CancelUnderWay(d)'
  BY <1>1, <1>2, <1>4 DEF Stalling, Mentioned, CancelUnderWay
<1>7. FreshCalls'
  BY <1>1, <1>5, <1>6 DEF Life, FreshCalls
<1>8. \A d \in Call : Awaited(d) => Awaited(d)'
  <2>1. kind = "cancel" => CancelUnderWay(c)'
    BY <1>2 DEF CancelUnderWay
  <2>2. kind # "cancel" => ~ Mentioned(c) /\ oneshot[c] = "open"
    BY <1>1 DEF Life, FreshCalls
  <2> QED
    BY <1>1, <1>5, <1>6, <2>1, <2>2 DEF Awaited
<1>9. kind # "cancel" => /\ c \notin pending /\ ~ Stalling(c) /\ ~ Mentioned(c)
                         /\ Awaited(c)'
  <2>1. kind # "cancel" => /\ c \notin pending /\ ~ Stalling(c) /\ ~ Mentioned(c)
                           /\ oneshot[c] = "open"
    BY <1>1 DEF Life, FreshCalls
  <2> QED
    BY <1>1, <1>5, <2>1 DEF Awaited
<1>10. QueuedCalls'
  <2>1. ASSUME NEW i \in 1..(n + 1), cmds'[i].kind # "cancel", NEW d, d = cmds'[i].call
        PROVE  d \notin pending' /\ ~ Stalling(d)' /\ Awaited(d)'
    <3>1. CASE i = n + 1
      BY <1>1, <1>4, <1>6, <1>9, <2>1, <3>1
    <3>2. CASE i \in DOMAIN cmds
      <4>1. d \in Call /\ d \notin pending /\ ~ Stalling(d) /\ Awaited(d)
        BY <1>2, <1>3, <2>1, <3>2 DEF Life, QueuedCalls
      <4> QED
        BY <1>1, <1>6, <1>8, <4>1
    <3> QED
      BY <1>2, <3>1, <3>2
  <2> QED
    BY <1>2, <2>1 DEF QueuedCalls
<1>11. PendingAwaited'
  <2>1. pending \subseteq Call
    BY DEF TypeOK, Call
  <2> QED
    BY <1>1, <1>8, <2>1 DEF Life, PendingAwaited, Awaited
<1>12. CancelsLast'
  <2>1. \A i \in DOMAIN cmds : cmds[i].call = c => kind = "cancel" /\ cmds[i].kind # "cancel"
    BY <1>1, <1>9 DEF Mentioned, CallsInv
  <2> SUFFICES ASSUME NEW i \in 1..(n + 1), NEW j \in 1..(n + 1), i < j,
                      cmds'[i].call = cmds'[j].call
               PROVE  cmds'[i].kind # "cancel" /\ cmds'[j].kind = "cancel"
    BY <1>2 DEF CancelsLast
  <2>2. CASE j = n + 1
    BY <1>2, <1>4, <2>1, <2>2
  <2>3. CASE j \in DOMAIN cmds
    <3>1. i \in DOMAIN cmds
      BY <1>2, <2>3
    <3> QED
      BY <1>2, <2>3, <3>1 DEF Life, CancelsLast
  <2> QED
    BY <1>2, <2>2, <2>3
<1>13. DriverOver'
  BY <1>1 DEF Life, DriverOver, Enqueue
<1>14. WaitsForSomeone'
  <2> SUFFICES ASSUME NEW d \in Call, caller'[d] = "waiting", oneshot'[d] = "open"
               PROVE  \/ Mentioned(d)'
                      \/ d \in pending'
                      \/ d \in Message /\ d \in Elements(stalled'[FrameLane(d)])
    BY DEF WaitsForSomeone, Mentioned
  <2>1. Mentioned(c)' /\ (Mentioned(d) => Mentioned(d)')
    BY <1>2, <1>4 DEF Mentioned
  <2>2. CASE d # c
    BY <1>1, <1>5, <2>1, <2>2 DEF WaitsForSomeone, Mentioned
  <2> QED
    BY <2>1, <2>2
<1> QED
  BY <1>7, <1>10, <1>11, <1>12, <1>13, <1>14 DEF Life

\* What a wake makes of the calls, when it leaves the channel as it is.
LEMMA LifeTakes ==
  ASSUME Inv, Life, WaitsForSomeone, UNCHANGED <<caller, cmds, driver>>,
         NEW taken, Takes(taken, stalled, stalled', pending, pending', oneshot, oneshot')
  PROVE  Life' /\ WaitsForSomeone'
<1> USE DEF Inv
<1>1. /\ \A c \in taken : c \in Call /\ Stalling(c)
      /\ \A c : Stalling(c)' => Stalling(c)
      /\ \A c : Stalling(c) => Stalling(c)' \/ c \in taken
      /\ pending' = pending \ (taken \cap Unencodable)
      /\ \A c \in Call : oneshot'[c] = IF c \in taken THEN Acknowledged(c, oneshot[c])
                                      ELSE oneshot[c]
  BY DEF Takes, Stalling
<1>2. \A c : Mentioned(c)' = Mentioned(c) /\ CancelUnderWay(c)' = CancelUnderWay(c)
  BY DEF Mentioned, CancelUnderWay
<1>3. \A i \in DOMAIN cmds : cmds[i].call \in Call
  BY QueueType DEF Inv
<1>4. pending \subseteq Request /\ Request \cap Message = {} /\ Call = Request \cup Message
  BY ConnectionAssumption DEF TypeOK, ConnectionAssumption, Call
<1>5. FreshCalls'
  BY <1>1, <1>2 DEF Life, FreshCalls
<1>6. \A c \in Call : Awaited(c) /\ (c \notin taken \/ c \in pending') => Awaited(c)'
  BY <1>1, <1>2, <1>4 DEF Awaited, Acknowledged
<1>7. QueuedCalls'
  <2>1. ASSUME NEW i \in DOMAIN cmds, cmds[i].kind # "cancel", NEW d, d = cmds[i].call
        PROVE  d \notin pending' /\ ~ Stalling(d)' /\ Awaited(d)'
    <3>1. d \in Call /\ d \notin pending /\ ~ Stalling(d) /\ Awaited(d)
      BY <1>3, <2>1 DEF Life, QueuedCalls
    <3> QED
      BY <1>1, <1>6, <3>1
  <2> QED
    BY <2>1 DEF QueuedCalls
<1>8. PendingAwaited'
  BY <1>1, <1>4, <1>6 DEF Life, PendingAwaited, Awaited
<1>9. CancelsLast' /\ DriverOver'
  BY <1>1 DEF Life, CancelsLast, DriverOver
<1>10. WaitsForSomeone'
  <2> SUFFICES ASSUME NEW c \in Call, caller[c] = "waiting", oneshot'[c] = "open"
               PROVE  \/ Mentioned(c)
                      \/ c \in pending'
                      \/ c \in Message /\ c \in Elements(stalled'[FrameLane(c)])
    BY DEF WaitsForSomeone, Mentioned
  <2>1. oneshot[c] = "open" /\ (c \in taken => c \in Request /\ c \notin Unencodable)
    BY <1>1, <1>4 DEF Acknowledged
  <2>2. FrameLane(c) \in Lane
    BY StallType
  <2> QED
    BY <1>1, <1>4, <2>1, <2>2 DEF WaitsForSomeone, Mentioned, Takes
<1> QED
  BY <1>5, <1>7, <1>8, <1>9, <1>10 DEF Life

\* A wake of the driver that leaves the channel as it is.
LEMMA LifeWake ==
  ASSUME Inv, Life, WaitsForSomeone, LinkReady \/ Written
  PROVE  Life' /\ WaitsForSomeone'
<1> USE DEF Inv
<1>1. UNCHANGED <<caller, cmds, driver>>
  BY DEF LinkReady, Written
<1>2. PICK taken : Takes(taken, stalled, stalled', pending, pending', oneshot, oneshot')
  <2>1. \E q \in Scheduled, k \in {"idle", "ready", "writing"} :
          Settle(stalled, q, pending, oneshot, k)
    <3>1. CASE LinkReady
      <4>1. PICK frames \in SUBSET UNION {lanes[l] : l \in Lane} :
              Settle(stalled, [l \in Lane |-> lanes[l] \ frames], pending, oneshot, "writing")
        BY <3>1 DEF LinkReady
      <4>2. [l \in Lane |-> lanes[l] \ frames] \in Scheduled
        BY DEF TypeOK, Scheduled
      <4> QED
        BY <4>1, <4>2
    <3>2. CASE Written
      BY <3>2 DEF Written, TypeOK, Scheduled
    <3> QED
      BY <3>1, <3>2
  <2>2. stalled \in Frames /\ pending \in SUBSET Request /\ oneshot \in [Call -> State]
    BY DEF TypeOK, Frames, State
  <2> QED
    BY <2>1, <2>2, SettleEffect
<1>3. Life' /\ WaitsForSomeone'
  BY <1>1, <1>2, LifeTakes
<1> QED
  BY <1>3

\* A command is handled: its frame joins the stalled ones, or its entry leaves
\* pending, before the wake takes what there is room for.
LEMMA LifeHandle ==
  ASSUME Inv, Life, WaitsForSomeone, HandleCommand
  PROVE  Life' /\ WaitsForSomeone'
<1> USE DEF Inv
<1> DEFINE c == cmds[1].call
           kind == cmds[1].kind
<1>1. /\ cmds # <<>> /\ cmds' = Tail(cmds) /\ cmds[1] \in Commands
      /\ UNCHANGED <<caller, driver>> /\ driver = "running"
  BY HandleEffect DEF HandleCommand, Running
<1>2. /\ 1 \in DOMAIN cmds /\ DOMAIN cmds = 1..Len(cmds) /\ DOMAIN cmds' = 1..(Len(cmds) - 1)
      /\ Len(cmds) \in Nat \ {0}
      /\ \A i \in DOMAIN cmds' : cmds'[i] = cmds[i + 1] /\ i + 1 \in DOMAIN cmds
  <2>1. cmds \in Seq(Commands)
    BY DEF TypeOK, Commands
  <2> QED
    BY <1>1, <2>1, CommandTaken
<1>3. \A i \in DOMAIN cmds : cmds[i].call \in Call
  BY QueueType DEF Inv
<1>4. /\ pending \subseteq Request /\ Request \cap Message = {} /\ Call = Request \cup Message
      /\ c \in Call /\ FrameLane(c) \in Lane
      /\ \/ kind = "send" /\ c \in Message
         \/ kind \in {"request", "cancel"} /\ c \in Request
  BY <1>1, <1>2, <1>3, ConnectionAssumption, StallType
     DEF TypeOK, ConnectionAssumption, Call, Commands
<1>5. PICK s \in Frames, p \in SUBSET Request :
        /\ Settle(s, lanes, p, oneshot, link)
        /\ kind = "send" => s = Stall(c) /\ p = pending
        /\ kind = "request" => s = Stall(c) /\ p = pending \cup {c}
        /\ kind = "cancel" => s = stalled /\ p = pending \ {c}
  BY HandleEffect
<1>6. PICK taken : Takes(taken, s, stalled', p, pending', oneshot, oneshot')
  <2>1. lanes \in Scheduled /\ oneshot \in [Call -> State] /\ link \in {"idle", "ready", "writing"}
    BY DEF TypeOK, Scheduled, State
  <2> QED
    BY <1>5, <2>1, SettleEffect
<1>7. /\ \A l \in Lane : /\ Elements(stalled[l]) \subseteq Elements(s[l])
                         /\ Elements(s[l]) \subseteq Elements(stalled[l]) \cup {c}
      /\ kind # "cancel" => c \in Elements(s[FrameLane(c)])
  BY <1>4, <1>5, StallType
<1> HIDE DEF c, kind
<1>8. /\ \A d \in taken : d \in Call /\ (Stalling(d) \/ d = c)
      /\ \A d : Stalling(d)' => Stalling(d) \/ d = c
      /\ pending' = p \ (taken \cap Unencodable)
      /\ \A d \in Call : oneshot'[d] = IF d \in taken THEN Acknowledged(d, oneshot[d])
                                      ELSE oneshot[d]
  BY <1>6, <1>7 DEF Takes, Stalling
<1>9. /\ Mentioned(c)
      /\ \A d : Mentioned(d)' => Mentioned(d)
      /\ \A d : Mentioned(d) => Mentioned(d)' \/ d = c
  <2>1. \A i \in DOMAIN cmds : i = 1 \/ (i - 1 \in DOMAIN cmds' /\ cmds'[i - 1] = cmds[i])
    BY <1>2
  <2> QED
    BY <1>2, <2>1 DEF Mentioned, c
<1>10. \A d : CancelUnderWay(d) => CancelUnderWay(d)' \/ (kind = "cancel" /\ d = c)
  <2> SUFFICES ASSUME NEW d, NEW i \in DOMAIN cmds, cmds[i] = Command("cancel", d)
               PROVE  CancelUnderWay(d)' \/ (kind = "cancel" /\ d = c)
    BY DEF CancelUnderWay
  <2>1. CASE i = 1
    BY <2>1 DEF c, kind, Command
  <2>2. CASE i # 1
    <3>1. i - 1 \in DOMAIN cmds' /\ cmds'[i - 1] = cmds[i]
      BY <1>2, <2>2
    <3> QED
      BY <3>1 DEF CancelUnderWay
  <2> QED
    BY <2>1, <2>2
<1>11. \A i \in DOMAIN cmds' : cmds'[i].call = c => cmds'[i].kind = "cancel" /\ kind # "cancel"
  <2> SUFFICES ASSUME NEW i \in DOMAIN cmds', cmds'[i].call = c
               PROVE  cmds'[i].kind = "cancel" /\ kind # "cancel"
    OBVIOUS
  <2>1. /\ i + 1 \in DOMAIN cmds /\ 1 \in DOMAIN cmds /\ 1 < i + 1
        /\ cmds[i + 1] = cmds'[i] /\ cmds[1].call = cmds[i + 1].call
    BY <1>2 DEF c
  <2> QED
    BY <2>1 DEF Life, CancelsLast, kind
<1>12. kind = "cancel" => caller[c] = "timeout"
  BY <1>2 DEF CallsInv, c, kind
<1>13. kind # "cancel" => c \notin pending /\ Awaited(c)
  BY <1>2 DEF Life, QueuedCalls, c, kind
<1>14. FreshCalls'
  BY <1>1, <1>4, <1>5, <1>8, <1>9 DEF Life, FreshCalls
<1>15. \A d \in Call \ {c} : Awaited(d) /\ (d \notin taken \/ d \in pending') => Awaited(d)'
  BY <1>1, <1>4, <1>5, <1>8, <1>10 DEF Awaited, Acknowledged
<1>16. QueuedCalls'
  <2>1. ASSUME NEW i \in DOMAIN cmds', cmds'[i].kind # "cancel", NEW d, d = cmds'[i].call
        PROVE  d \notin pending' /\ ~ Stalling(d)' /\ Awaited(d)'
    <3>1. d # c
      BY <1>11, <2>1
    <3>2. d \in Call /\ d \notin pending /\ ~ Stalling(d) /\ Awaited(d)
      BY <1>2, <1>3, <2>1 DEF Life, QueuedCalls
    <3> QED
      BY <1>4, <1>5, <1>8, <1>15, <3>1, <3>2
  <2> QED
    BY <2>1 DEF QueuedCalls
<1>17. PendingAwaited'
  <2> SUFFICES ASSUME NEW d \in pending' PROVE Awaited(d)'
    BY DEF PendingAwaited, Awaited
  <2>1. d \in p /\ d \in Request /\ d \in Call /\ ~ (d \in taken /\ d \in Unencodable)
    BY <1>4, <1>8
  <2>2. CASE d = c
    <3>1. kind = "request" /\ Awaited(c)
      BY <1>4, <1>5, <1>13, <2>1, <2>2
    <3>2. oneshot'[c] = oneshot[c]
      BY <1>4, <1>8, <2>1, <2>2 DEF Acknowledged
    <3> QED
      BY <1>1, <1>10, <2>2, <3>1, <3>2 DEF Awaited
  <2>3. CASE d # c
    <3>1. d \in pending
      BY <1>4, <1>5, <2>1, <2>3
    <3>2. Awaited(d)
      BY <3>1 DEF Life, PendingAwaited, Awaited
    <3> QED
      BY <1>15, <2>1, <2>3, <3>2
  <2> QED
    BY <2>2, <2>3
<1>18. CancelsLast'
  <2> SUFFICES ASSUME NEW i \in DOMAIN cmds', NEW j \in DOMAIN cmds', i < j,
                      cmds'[i].call = cmds'[j].call
               PROVE  cmds'[i].kind # "cancel" /\ cmds'[j].kind = "cancel"
    BY DEF CancelsLast
  <2>1. i + 1 \in DOMAIN cmds /\ j + 1 \in DOMAIN cmds /\ i + 1 < j + 1
    BY <1>2
  <2> QED
    BY <1>2, <2>1 DEF Life, CancelsLast
<1>19. DriverOver'
  BY <1>1 DEF DriverOver
<1>20. WaitsForSomeone'
  <2> SUFFICES ASSUME NEW d \in Call, caller[d] = "waiting", oneshot'[d] = "open"
               PROVE  \/ Mentioned(d)'
                      \/ d \in pending'
                      \/ d \in Message /\ d \in Elements(stalled'[FrameLane(d)])
    BY <1>1 DEF WaitsForSomeone, Mentioned
  <2>1. oneshot[d] = "open" /\ (d \in taken => d \in Request /\ d \notin Unencodable)
    BY <1>4, <1>8 DEF Acknowledged
  <2>2. FrameLane(d) \in Lane
    BY StallType
  <2>3. \/ Mentioned(d) \/ d \in pending
        \/ d \in Message /\ d \in Elements(stalled[FrameLane(d)])
    BY <2>1 DEF WaitsForSomeone, Mentioned
  <2>4. CASE d = c /\ kind = "send"
    BY <1>4, <1>6, <1>7, <2>1, <2>2, <2>4 DEF Takes
  <2>5. CASE d = c /\ kind = "request"
    BY <1>5, <1>8, <2>1, <2>5
  <2>6. CASE d = c /\ kind = "cancel"
    BY <1>12, <2>6
  <2>7. CASE d # c
    <3>1. d \in pending => d \in pending'
      BY <1>4, <1>5, <1>8, <2>1, <2>7
    <3>2. d \in Message /\ d \in Elements(stalled[FrameLane(d)])
            => d \in Elements(stalled'[FrameLane(d)])
      BY <1>4, <1>6, <1>7, <2>1, <2>2 DEF Takes
    <3> QED
      BY <1>9, <2>3, <2>7, <3>1, <3>2
  <2> QED
    BY <1>4, <2>4, <2>5, <2>6, <2>7
<1> QED
  BY <1>14, <1>16, <1>17, <1>18, <1>19, <1>20 DEF Life

\* The inbound half and the last handle.
LEMMA LifeInbound ==
  ASSUME Inv, Life, WaitsForSomeone,
         \/ DropHandles \/ InboundEvent \/ InboundError \/ UNCHANGED vars
         \/ \E c \in Request : Respond(c)
  PROVE  Life' /\ WaitsForSomeone'
<1> USE DEF Inv
<1>1. CASE DropHandles \/ InboundEvent \/ InboundError \/ UNCHANGED vars
  <2>1. UNCHANGED <<caller, oneshot, cmds, driver, pending, stalled>>
    BY <1>1 DEF DropHandles, InboundEvent, InboundError, vars, outbound
  <2> QED
    BY <2>1 DEF Life, FreshCalls, QueuedCalls, CancelsLast, PendingAwaited, DriverOver,
       WaitsForSomeone, Mentioned, Stalling, Awaited, CancelUnderWay
<1>2. ASSUME NEW c \in Request, Respond(c) PROVE Life' /\ WaitsForSomeone'
  <2>1. UNCHANGED <<caller, cmds, driver, stalled>>
    BY <1>2 DEF Respond, outbound
  <2>2. /\ pending' = pending \ {c}
        /\ \A d \in Call : oneshot'[d] = IF d = c /\ c \in pending /\ oneshot[c] = "open"
                                        THEN "response" ELSE oneshot[d]
    BY <1>2 DEF Respond, TypeOK, Call
  <2>3. \A d : /\ Stalling(d)' = Stalling(d) /\ Mentioned(d)' = Mentioned(d)
               /\ CancelUnderWay(d)' = CancelUnderWay(d)
    BY <2>1 DEF Stalling, Mentioned, CancelUnderWay
  <2>4. \A i \in DOMAIN cmds : cmds[i].call \in Call
    BY QueueType DEF Inv
  <2>5. \A d \in Call : Awaited(d) /\ (d # c \/ c \notin pending) => Awaited(d)'
    BY <2>1, <2>2, <2>3 DEF Awaited
  <2>6. FreshCalls'
    BY <2>1, <2>2, <2>3 DEF Life, FreshCalls
  <2>7. QueuedCalls'
    <3>1. ASSUME NEW i \in DOMAIN cmds, cmds[i].kind # "cancel", NEW d, d = cmds[i].call
          PROVE  d \notin pending' /\ ~ Stalling(d)' /\ Awaited(d)'
      <4>1. d \in Call /\ d \notin pending /\ ~ Stalling(d) /\ Awaited(d)
        BY <2>4, <3>1 DEF Life, QueuedCalls
      <4> QED
        BY <2>2, <2>3, <2>5, <4>1
    <3> QED
      BY <2>1, <3>1 DEF QueuedCalls
  <2>8. PendingAwaited'
    <3>1. pending \subseteq Call
      BY DEF TypeOK, Call
    <3> QED
      BY <2>2, <2>5, <3>1 DEF Life, PendingAwaited, Awaited
  <2>9. CancelsLast' /\ DriverOver'
    BY <2>1, <2>2 DEF Life, CancelsLast, DriverOver
  <2>10. WaitsForSomeone'
    BY <2>1, <2>2 DEF WaitsForSomeone
  <2> QED
    BY <2>6, <2>7, <2>8, <2>9, <2>10 DEF Life
<1> QED
  BY <1>1, <1>2

\* The end of the driver.
LEMMA LifeEnd ==
  ASSUME Inv, Life, WaitsForSomeone, Close \/ DropDriver
  PROVE  Life' /\ WaitsForSomeone'
<1> USE DEF Inv
<1>1. CASE Close
  <2>1. /\ pending' = {} /\ oneshot' = Orphaned(pending) /\ driver = "running"
        /\ driver' = "closing" /\ UNCHANGED <<caller, cmds, stalled>>
    BY <1>1 DEF Close, Running, outbound
  <2>2. \A d \in Call : oneshot'[d] = IF d \in pending /\ oneshot[d] = "open"
                                     THEN "dropped" ELSE oneshot[d]
    BY <2>1 DEF Orphaned
  <2>3. \A d : /\ Stalling(d)' = Stalling(d) /\ Mentioned(d)' = Mentioned(d)
               /\ CancelUnderWay(d)' = CancelUnderWay(d)
    BY <2>1 DEF Stalling, Mentioned, CancelUnderWay
  <2>4. \A i \in DOMAIN cmds : cmds[i].call \in Call
    BY QueueType DEF Inv
  <2>5. FreshCalls'
    BY <2>1, <2>2, <2>3 DEF Life, FreshCalls
  <2>6. QueuedCalls'
    <3>1. ASSUME NEW i \in DOMAIN cmds, cmds[i].kind # "cancel", NEW d, d = cmds[i].call
          PROVE  d \notin pending' /\ ~ Stalling(d)' /\ Awaited(d)'
      <4>1. d \in Call /\ d \notin pending /\ ~ Stalling(d) /\ Awaited(d)
        BY <2>4, <3>1 DEF Life, QueuedCalls
      <4> QED
        BY <2>1, <2>2, <2>3, <4>1 DEF Awaited
    <3> QED
      BY <2>1, <3>1 DEF QueuedCalls
  <2>7. PendingAwaited' /\ CancelsLast' /\ DriverOver'
    BY <2>1 DEF Life, PendingAwaited, CancelsLast, DriverOver
  <2>8. WaitsForSomeone'
    BY <2>1, <2>2 DEF WaitsForSomeone
  <2> QED
    BY <2>5, <2>6, <2>7, <2>8 DEF Life
<1>2. CASE DropDriver
  <2> DEFINE dropped == {cmds[i].call : i \in DOMAIN cmds} \cup UNION {Elements(stalled[l]) : l \in Lane}
  <2>1. /\ driver' = "gone" /\ cmds' = <<>> /\ UNCHANGED <<caller, pending>>
        /\ oneshot' = Orphaned(dropped)
        /\ stalled' = [l \in Lane |-> <<>>] /\ driver = "closing"
    BY <1>2 DEF DropDriver
  <2>2. pending = {} /\ DOMAIN cmds' = {} /\ \A d : ~ Stalling(d)' /\ ~ Mentioned(d)'
    <3>1. Elements(<<>>) = {} /\ DOMAIN <<>> = {}
      BY EmptySeq DEF Elements
    <3> QED
      BY <2>1, <3>1 DEF Life, DriverOver, Stalling, Mentioned
  <2>3. \A d \in dropped : Mentioned(d) \/ Stalling(d)
    BY DEF Mentioned, Stalling
  <2>4. \A d \in Call : oneshot'[d] = IF d \in dropped /\ oneshot[d] = "open"
                                     THEN "dropped" ELSE oneshot[d]
    BY <2>1 DEF Orphaned
  <2> HIDE DEF dropped
  <2>5. FreshCalls'
    BY <2>1, <2>2, <2>3, <2>4 DEF Life, FreshCalls
  <2>6. QueuedCalls' /\ CancelsLast' /\ PendingAwaited' /\ DriverOver'
    BY <2>1, <2>2 DEF QueuedCalls, CancelsLast, PendingAwaited, DriverOver
  <2>7. WaitsForSomeone'
    <3> SUFFICES ASSUME NEW d \in Call, caller[d] = "waiting", oneshot'[d] = "open" PROVE FALSE
      BY <2>1 DEF WaitsForSomeone
    <3>1. oneshot[d] = "open" /\ d \notin dropped
      BY <2>4
    <3>2. FrameLane(d) \in Lane
      BY StallType
    <3> QED
      BY <2>2, <3>1, <3>2 DEF WaitsForSomeone, dropped
  <2> QED
    BY <2>5, <2>6, <2>7 DEF Life
<1> QED
  BY <1>1, <1>2

LEMMA NextLife ==
  ASSUME Inv, Life, WaitsForSomeone, [Next]_vars
  PROVE  Life' /\ WaitsForSomeone'
BY LifeQuiet, LifeSend, LifeWake, LifeHandle, LifeInbound, LifeEnd DEF Next, Step, Call

\* No entry of pending outlives its request, through time-outs that race the
\* response, Cancels that wait for room, and the end of the driver (request,
\* route_inbound).
THEOREM PendingCorrect == Spec => []PendingAwaited
<1>1. Inv /\ Life /\ WaitsForSomeone /\ [Next]_vars => Inv' /\ Life' /\ WaitsForSomeone'
  BY NextInv, NextLife
<1>2. Life => PendingAwaited
  BY DEF Life
<1> QED
  BY <1>1, <1>2, InitInv, LifeInit, PTL DEF Spec

\* No caller is forgotten: while its oneshot is open, the driver or the channel
\* holds the sender, and once the driver is gone no oneshot is open (stall,
\* admit, the end of run).
THEOREM WaitCorrect == Spec => []WaitsForSomeone
<1>1. Inv /\ Life /\ WaitsForSomeone /\ [Next]_vars => Inv' /\ Life' /\ WaitsForSomeone'
  BY NextInv, NextLife
<1> QED
  BY <1>1, InitInv, LifeInit, PTL DEF Spec

-----------------------------------------------------------------------------
(* Where a frame is.                                                         *)

InQueues(s, c) == \E l \in Lane : c \in Elements(s[l])
InLanes(q, c) == \E l \in Lane : c \in q[l]

\* Stalled in s, in the lanes q, in the batch b, or with the other end in r.
Held(s, q, b, r, c) == InQueues(s, c) \/ InLanes(q, c) \/ c \in b \/ c \in r

\* A frame keeps to its lane and is in one place only.
OnePlace(s, q, b, r) ==
  /\ \A l \in Lane : Once(s[l])
  /\ \A l \in Lane : \A c \in Elements(s[l]) \cup q[l] : FrameLane(c) = l
  /\ \A c : InQueues(s, c) => ~ InLanes(q, c) /\ c \notin b /\ c \notin r
  /\ \A c : InLanes(q, c) => c \notin b /\ c \notin r
  /\ b \cap r = {}

\* A wake moves frames from the queues to the lanes, loses from pending only
\* those that are then nowhere, and finds no frame anew.
LEMMA SettlePlaces ==
  ASSUME NEW s \in Frames, NEW q \in Scheduled, NEW p \in SUBSET Request,
         NEW o \in [Call -> State], NEW k \in {"idle", "ready", "writing"},
         NEW b, NEW r, Settle(s, q, p, o, k), OnePlace(s, q, b, r)
  PROVE  /\ OnePlace(stalled', lanes', b, r)
         /\ \A c : Held(stalled', lanes', b, r, c) =>
              Held(s, q, b, r, c) /\ (c \in p => c \in pending')
<1> DEFINE n(l) == Admitted(s, q, l)
           taken == UNION {Front(s[l], n(l)) : l \in Lane}
<1>1. /\ \A l \in Lane : Once(s[l])
      /\ \A l \in Lane : \A c \in Elements(s[l]) \cup q[l] : FrameLane(c) = l
      /\ \A c : InQueues(s, c) => ~ InLanes(q, c) /\ c \notin b /\ c \notin r
      /\ \A c : InLanes(q, c) => c \notin b /\ c \notin r
      /\ b \cap r = {}
  BY DEF OnePlace
<1>2. /\ stalled' = [l \in Lane |-> SubSeq(s[l], n(l) + 1, Len(s[l]))]
      /\ lanes' = [l \in Lane |-> q[l] \cup (Front(s[l], n(l)) \ Unencodable)]
      /\ pending' = p \ (taken \cap Unencodable)
  BY DEF Settle
<1>3. ASSUME NEW l \in Lane
      PROVE  /\ Once(stalled'[l])
             /\ Elements(s[l]) = Front(s[l], n(l)) \cup Elements(stalled'[l])
             /\ \A c \in Front(s[l], n(l)) : c \notin Elements(stalled'[l])
  <2>1. s[l] \in Seq(Call) /\ n(l) \in 0..Len(s[l]) /\ Once(s[l])
    BY <1>1, AdmittedType DEF Frames
  <2>2. stalled'[l] = SubSeq(s[l], n(l) + 1, Len(s[l]))
    BY <1>2
  <2> HIDE DEF n
  <2> QED
    BY <2>1, <2>2, ElementsCut, OnceCut
<1> HIDE DEF n
<1>4. \A l \in Lane : lanes'[l] = q[l] \cup (Front(s[l], n(l)) \ Unencodable)
  BY <1>2
<1>5. \A l \in Lane : /\ Elements(stalled'[l]) \subseteq Elements(s[l])
                      /\ Front(s[l], n(l)) \subseteq Elements(s[l])
                      /\ lanes'[l] \subseteq q[l] \cup Elements(s[l])
  BY <1>3, <1>4
\* Frames of different lanes are different.
<1>6. \A l, m \in Lane : \A c : c \in Elements(s[l]) \cup q[l] /\ c \in Elements(s[m]) \cup q[m]
                                 => l = m
  BY <1>1
<1>7. ASSUME NEW c, c \in taken
      PROVE  /\ InQueues(s, c) /\ ~ InQueues(stalled', c)
             /\ c \in Unencodable => ~ InLanes(lanes', c)
  <2>1. PICK l \in Lane : c \in Front(s[l], n(l))
    BY <1>7 DEF taken
  <2>2. c \in Elements(s[l]) /\ InQueues(s, c)
    BY <1>5, <2>1 DEF InQueues
  <2>3. ASSUME NEW m \in Lane, c \in Elements(stalled'[m]) PROVE FALSE
    <3>1. m = l
      BY <1>5, <1>6, <2>2, <2>3
    <3> QED
      BY <1>3, <2>1, <2>3, <3>1
  <2>4. ASSUME c \in Unencodable, NEW m \in Lane, c \in lanes'[m] PROVE FALSE
    <3>1. c \in q[m]
      BY <1>4, <2>4
    <3> QED
      BY <1>1, <2>2, <3>1 DEF InLanes
  <2> QED
    BY <2>2, <2>3, <2>4 DEF InQueues, InLanes
<1>8. \A c : InLanes(lanes', c) => InLanes(q, c) \/ c \in taken
  BY <1>4 DEF InLanes, taken
<1>9. \A c : InQueues(stalled', c) => InQueues(s, c)
  BY <1>5 DEF InQueues
<1> HIDE DEF taken
<1>10. OnePlace(stalled', lanes', b, r)
  <2>1. \A l \in Lane : Once(stalled'[l])
    BY <1>3
  <2>2. \A l \in Lane : \A c \in Elements(stalled'[l]) \cup lanes'[l] : FrameLane(c) = l
    BY <1>1, <1>5
  <2>3. \A c : InQueues(stalled', c) => ~ InLanes(lanes', c) /\ c \notin b /\ c \notin r
    BY <1>1, <1>7, <1>8, <1>9
  <2>4. \A c : InLanes(lanes', c) => c \notin b /\ c \notin r
    BY <1>1, <1>7, <1>8
  <2> QED
    BY <1>1, <2>1, <2>2, <2>3, <2>4 DEF OnePlace
<1>11. ASSUME NEW c, Held(stalled', lanes', b, r, c)
       PROVE  Held(s, q, b, r, c) /\ (c \in p => c \in pending')
  <2>1. Held(s, q, b, r, c)
    BY <1>7, <1>8, <1>9, <1>11 DEF Held
  <2>2. c \in taken => c \notin Unencodable
    BY <1>1, <1>7, <1>11 DEF Held
  <2> QED
    BY <1>2, <2>1, <2>2
<1> QED
  BY <1>10, <1>11

\* A call whose command waits in the channel.
Queued(c) == \E i \in DOMAIN cmds : cmds[i].kind # "cancel" /\ cmds[i].call = c

HeldNow(c) == Held(stalled, lanes, batch, reached, c)

\* A frame that has not been handed to the driver is nowhere.
Unsent == \A c \in Call : caller[c] \in {"new", "sending"} \/ Queued(c) => ~ HeldNow(c)

\* A request is forgotten before its response only if it has timed out.
Known ==
  driver = "running" =>
    \A c \in Request : HeldNow(c) => c \in pending \/ caller[c] = "timeout"

Routes == OnePlace(stalled, lanes, batch, reached) /\ Unsent /\ Known /\ EventsAreLate

LEMMA RoutesInit == Init => Routes
<1> SUFFICES ASSUME Init PROVE Routes
  OBVIOUS
<1>1. Elements(<<>>) = {} /\ Once(<<>>)
  BY EmptySeq DEF Elements, Once
<1>2. \A c : ~ InQueues(stalled, c) /\ ~ InLanes(lanes, c)
  BY <1>1 DEF Init, InQueues, InLanes
<1>3. batch = {} /\ reached = {} /\ events = {}
  BY DEF Init
<1>4. \A l \in Lane : stalled[l] = <<>> /\ lanes[l] = {}
  BY DEF Init
<1>5. OnePlace(stalled, lanes, batch, reached)
  BY <1>1, <1>2, <1>3, <1>4 DEF OnePlace
<1>6. \A c : ~ HeldNow(c)
  BY <1>2, <1>3 DEF HeldNow, Held
<1> QED
  BY <1>3, <1>5, <1>6 DEF Routes, Unsent, Known, EventsAreLate

\* What a caller does moves no frame.
LEMMA RoutesCaller ==
  ASSUME Inv, Routes, NEW c \in Call,
         Start(c) \/ Step(c) \/ (c \in Request /\ Timeout(c))
  PROVE  Routes'
<1>1. UNCHANGED <<stalled, lanes, batch, reached, driver, pending, events>>
  BY DEF Start, Step, Submit, Refused, Return, SendCancel, Timeout, outbound
<1>2. /\ \A d \in Call \ {c} : caller'[d] = caller[d]
      /\ caller[c] = "timeout" => caller'[c] = "timeout"
      /\ caller'[c] \in {"new", "sending"} => caller[c] \in {"new", "sending"}
  BY DEF Inv, TypeOK, Start, Step, Submit, Refused, Return, SendCancel, Timeout, Outcome
<1>3. \A d \in Call : HeldNow(d)' = HeldNow(d)
  BY <1>1 DEF HeldNow, Held, InQueues, InLanes
<1>4. \A d : Queued(d)' => Queued(d) \/ (d = c /\ caller[c] = "sending")
  <2>1. CASE cmds' = cmds
    BY <2>1 DEF Queued
  <2>2. CASE Submit(c)
    <3>1. PICK kind \in {"request", "send"} : Enqueue(c, kind) /\ Command(kind, c) \in Commands
      BY <2>2 DEF Submit, Commands, Command, Call
    <3>2. /\ DOMAIN cmds' = 1..(Len(cmds) + 1) /\ DOMAIN cmds = 1..Len(cmds) /\ Len(cmds) \in Nat
          /\ \A i \in DOMAIN cmds : cmds'[i] = cmds[i]
          /\ cmds'[Len(cmds) + 1] = Command(kind, c)
      BY <3>1, EnqueueType DEF Inv
    <3>3. caller[c] = "sending"
      BY <2>2 DEF Submit
    <3>4. \A i \in DOMAIN cmds' : i \in DOMAIN cmds \/ i = Len(cmds) + 1
      BY <3>2
    <3> QED
      BY <3>2, <3>3, <3>4 DEF Queued, Command
  <2>3. CASE SendCancel(c)
    <3>1. Enqueue(c, "cancel") /\ Command("cancel", c) \in Commands
      BY <2>3 DEF SendCancel, Commands, Command, Call, Inv, CallsInv
    <3>2. /\ DOMAIN cmds' = 1..(Len(cmds) + 1) /\ DOMAIN cmds = 1..Len(cmds) /\ Len(cmds) \in Nat
          /\ \A i \in DOMAIN cmds : cmds'[i] = cmds[i]
          /\ cmds'[Len(cmds) + 1] = Command("cancel", c)
      BY <3>1, EnqueueType DEF Inv
    <3>3. \A i \in DOMAIN cmds' : i \in DOMAIN cmds \/ i = Len(cmds) + 1
      BY <3>2
    <3> QED
      BY <3>2, <3>3 DEF Queued, Command
  <2> QED
    BY <2>1, <2>2, <2>3 DEF Start, Step, Refused, Return, Timeout
<1>5. Unsent'
  BY <1>2, <1>3, <1>4 DEF Routes, Unsent
<1>6. Known'
  BY <1>1, <1>2, <1>3 DEF Routes, Known, Call
<1>7. EventsAreLate'
  <2>1. events \subseteq Call
    BY DEF Inv, TypeOK, Call
  <2> QED
    BY <1>1, <1>2, <2>1 DEF Routes, EventsAreLate
<1>8. OnePlace(stalled, lanes, batch, reached)'
  BY <1>1 DEF Routes
<1> QED
  BY <1>5, <1>6, <1>7, <1>8 DEF Routes

\* A wake that settles frames that were handed over, and whose requests are in
\* p if anybody waits for them.
LEMMA RoutesSettle ==
  ASSUME Inv, Routes, NEW s \in Frames, NEW q \in Scheduled, NEW p \in SUBSET Request,
         NEW k \in {"idle", "ready", "writing"}, Settle(s, q, p, oneshot, k),
         OnePlace(s, q, batch', reached'), UNCHANGED <<caller, events>>,
         \A c \in Call : Held(s, q, batch', reached', c) =>
           caller[c] \notin {"new", "sending"} /\ ~ Queued(c)',
         \A c \in Request : Held(s, q, batch', reached', c) =>
           c \in p \/ caller[c] = "timeout"
  PROVE  Routes'
<1>1. oneshot \in [Call -> State]
  BY DEF Inv, TypeOK, State
<1>2. /\ OnePlace(stalled', lanes', batch', reached')
      /\ \A c : Held(stalled', lanes', batch', reached', c) =>
           Held(s, q, batch', reached', c) /\ (c \in p => c \in pending')
  BY <1>1, SettlePlaces
<1>3. \A c : HeldNow(c)' => Held(s, q, batch', reached', c) /\ (c \in p => c \in pending')
  BY <1>2 DEF HeldNow
<1>4. Unsent' /\ Known'
  BY <1>3 DEF Unsent, Known, Call
<1>5. EventsAreLate'
  BY DEF Routes, EventsAreLate
<1> QED
  BY <1>2, <1>4, <1>5 DEF Routes

LEMMA RoutesLink ==
  ASSUME Inv, Routes, LinkReady \/ Written
  PROVE  Routes'
<1>1. /\ stalled \in Frames /\ lanes \in Scheduled /\ pending \in SUBSET Request
      /\ batch \subseteq Call /\ reached \subseteq Request
  BY DEF Inv, TypeOK, Frames, Scheduled
<1>2. /\ \A l \in Lane : Once(stalled[l])
      /\ \A l \in Lane : \A c \in Elements(stalled[l]) \cup lanes[l] : FrameLane(c) = l
      /\ \A c : InQueues(stalled, c) => ~ InLanes(lanes, c) /\ c \notin batch /\ c \notin reached
      /\ \A c : InLanes(lanes, c) => c \notin batch /\ c \notin reached
      /\ batch \cap reached = {}
  BY DEF Routes, OnePlace
<1>3. driver = "running" /\ UNCHANGED <<caller, cmds, driver, events>>
  BY DEF LinkReady, Written, Running
<1>4. \A c : Queued(c)' = Queued(c)
  BY <1>3 DEF Queued
<1>5. /\ \A c \in Call : HeldNow(c) => caller[c] \notin {"new", "sending"} /\ ~ Queued(c)'
      /\ \A c \in Request : HeldNow(c) => c \in pending \/ caller[c] = "timeout"
  BY <1>3, <1>4 DEF Routes, Unsent, Known
<1>6. CASE LinkReady
  <2>1. PICK frames \in SUBSET UNION {lanes[l] : l \in Lane} :
          /\ batch' = frames
          /\ Settle(stalled, [l \in Lane |-> lanes[l] \ frames], pending, oneshot, "writing")
    BY <1>6 DEF LinkReady
  <2>2. reached' = reached
    BY <1>6 DEF LinkReady
  <2>3. PICK q \in Scheduled : q = [l \in Lane |-> lanes[l] \ frames]
    BY <1>1 DEF Scheduled
  <2>4. \A l \in Lane : q[l] = lanes[l] \ frames
    BY <2>3
  <2>5. \A c \in frames : InLanes(lanes, c)
    BY <2>1 DEF InLanes
  <2>6. \A c : InLanes(q, c) => InLanes(lanes, c) /\ c \notin frames
    BY <2>4 DEF InLanes
  <2>7. OnePlace(stalled, q, frames, reached)
    <3>1. \A l \in Lane : \A c \in Elements(stalled[l]) \cup q[l] : FrameLane(c) = l
      BY <1>2, <2>4
    <3> QED
      BY <1>2, <2>5, <2>6, <3>1 DEF OnePlace
  <2>8. \A c : Held(stalled, q, frames, reached, c) => HeldNow(c)
    BY <2>5, <2>6 DEF Held, HeldNow
  <2>9. Settle(stalled, q, pending, oneshot, "writing")
    BY <2>1, <2>3
  <2>10. /\ \A c \in Call : Held(stalled, q, batch', reached', c) =>
              caller[c] \notin {"new", "sending"} /\ ~ Queued(c)'
         /\ \A c \in Request : Held(stalled, q, batch', reached', c) =>
              c \in pending \/ caller[c] = "timeout"
    BY <1>5, <2>1, <2>2, <2>8
  <2>11. OnePlace(stalled, q, batch', reached')
    BY <2>1, <2>2, <2>7
  <2> QED
    BY <1>1, <1>3, <2>9, <2>10, <2>11, RoutesSettle
<1>7. CASE Written
  <2>1. /\ batch' = {} /\ reached' = reached \cup (batch \cap Request)
        /\ Settle(stalled, lanes, pending, oneshot, "idle")
    BY <1>7 DEF Written
  <2>2. OnePlace(stalled, lanes, batch', reached')
    BY <1>2, <2>1 DEF OnePlace
  <2>3. \A c : Held(stalled, lanes, batch', reached', c) => HeldNow(c)
    BY <2>1 DEF Held, HeldNow
  <2>4. /\ \A c \in Call : Held(stalled, lanes, batch', reached', c) =>
              caller[c] \notin {"new", "sending"} /\ ~ Queued(c)'
        /\ \A c \in Request : Held(stalled, lanes, batch', reached', c) =>
              c \in pending \/ caller[c] = "timeout"
    BY <1>5, <2>3
  <2> QED
    BY <1>1, <1>3, <2>1, <2>2, <2>4, RoutesSettle
<1> QED
  BY <1>6, <1>7

\* A frame that is handed over joins its lane's queue, and was nowhere before.
LEMMA StallPlaces ==
  ASSUME TypeOK, NEW c \in Call, OnePlace(stalled, lanes, batch, reached), ~ HeldNow(c)
  PROVE  /\ OnePlace(Stall(c), lanes, batch, reached)
         /\ \A d : Held(Stall(c), lanes, batch, reached, d) => HeldNow(d) \/ d = c
<1>1. /\ Stall(c) \in Frames /\ FrameLane(c) \in Lane
      /\ \A l \in Lane : /\ Elements(stalled[l]) \subseteq Elements(Stall(c)[l])
                         /\ Elements(Stall(c)[l]) \subseteq Elements(stalled[l]) \cup {c}
      /\ c \in Elements(Stall(c)[FrameLane(c)])
  BY StallType
<1>2. stalled \in [Lane -> Seq(Call)]
  BY DEF TypeOK
<1>3. \A l \in Lane : Stall(c)[l] = IF l = FrameLane(c) THEN Append(stalled[l], c) ELSE stalled[l]
  BY <1>1, <1>2 DEF Stall
<1>4. /\ \A l \in Lane : Once(stalled[l])
      /\ \A l \in Lane : \A d \in Elements(stalled[l]) \cup lanes[l] : FrameLane(d) = l
      /\ \A d : InQueues(stalled, d) => ~ InLanes(lanes, d) /\ d \notin batch /\ d \notin reached
      /\ \A d : InLanes(lanes, d) => d \notin batch /\ d \notin reached
      /\ batch \cap reached = {}
  BY DEF OnePlace
<1>5. /\ ~ InQueues(stalled, c) /\ ~ InLanes(lanes, c) /\ c \notin batch /\ c \notin reached
  BY DEF HeldNow, Held
<1>6. ASSUME NEW l \in Lane PROVE Once(Stall(c)[l])
  <2>1. CASE l = FrameLane(c)
    <3>1. stalled[l] \in Seq(Call) /\ Once(stalled[l]) /\ c \notin Elements(stalled[l])
      BY <1>2, <1>4, <1>5 DEF InQueues
    <3>2. Once(Append(stalled[l], c))
      BY <3>1, OnceAppend
    <3> QED
      BY <1>3, <2>1, <3>2
  <2>2. CASE l # FrameLane(c)
    BY <1>3, <1>4, <2>2
  <2> QED
    BY <2>1, <2>2
<1>7. ASSUME NEW l \in Lane, NEW d \in Elements(Stall(c)[l]) \cup lanes[l]
      PROVE  FrameLane(d) = l
  <2>1. CASE l = FrameLane(c)
    BY <1>1, <1>4, <1>7, <2>1
  <2>2. CASE l # FrameLane(c)
    BY <1>3, <1>4, <1>7, <2>2
  <2> QED
    BY <2>1, <2>2
<1>8. \A d : InQueues(Stall(c), d) => InQueues(stalled, d) \/ d = c
  BY <1>1 DEF InQueues
<1>9. \A d : InQueues(Stall(c), d) => ~ InLanes(lanes, d) /\ d \notin batch /\ d \notin reached
  BY <1>4, <1>5, <1>8
<1>10. OnePlace(Stall(c), lanes, batch, reached)
  BY <1>4, <1>6, <1>7, <1>9 DEF OnePlace
<1>11. \A d : Held(Stall(c), lanes, batch, reached, d) => HeldNow(d) \/ d = c
  BY <1>8 DEF Held, HeldNow
<1> QED
  BY <1>10, <1>11

LEMMA RoutesHandle ==
  ASSUME Inv, Life, Routes, HandleCommand
  PROVE  Routes'
<1>0. PICK c, kind : c = cmds[1].call /\ kind = cmds[1].kind
  OBVIOUS
<1>1. /\ cmds # <<>> /\ cmds' = Tail(cmds) /\ cmds[1] \in Commands
      /\ UNCHANGED <<caller, driver, batch, reached, events>> /\ driver = "running"
  BY HandleEffect DEF Inv, HandleCommand, Running
<1>2. /\ 1 \in DOMAIN cmds /\ DOMAIN cmds = 1..Len(cmds) /\ DOMAIN cmds' = 1..(Len(cmds) - 1)
      /\ Len(cmds) \in Nat \ {0}
      /\ \A i \in DOMAIN cmds' : cmds'[i] = cmds[i + 1] /\ i + 1 \in DOMAIN cmds
  <2>1. cmds \in Seq(Commands)
    BY DEF Inv, TypeOK, Commands
  <2> QED
    BY <1>1, <2>1, CommandTaken
<1>3. /\ lanes \in Scheduled /\ stalled \in Frames /\ c \in Call
      /\ link \in {"idle", "ready", "writing"}
      /\ \/ kind = "send" /\ c \in Message
         \/ kind \in {"request", "cancel"} /\ c \in Request
  BY <1>0, <1>1, <1>2, QueueType DEF Inv, TypeOK, Scheduled, Frames, Commands
<1>4. PICK s \in Frames, p \in SUBSET Request :
        /\ Settle(s, lanes, p, oneshot, link)
        /\ kind = "send" => s = Stall(c) /\ p = pending
        /\ kind = "request" => s = Stall(c) /\ p = pending \cup {c}
        /\ kind = "cancel" => s = stalled /\ p = pending \ {c}
  BY <1>0, HandleEffect DEF Inv
<1>5. \A i \in DOMAIN cmds' : cmds'[i].call = c => cmds'[i].kind = "cancel"
  <2> SUFFICES ASSUME NEW i \in DOMAIN cmds', cmds'[i].call = c
               PROVE  cmds'[i].kind = "cancel"
    OBVIOUS
  <2>1. /\ i + 1 \in DOMAIN cmds /\ 1 \in DOMAIN cmds /\ 1 < i + 1
        /\ cmds[i + 1] = cmds'[i] /\ cmds[1].call = cmds[i + 1].call
    BY <1>0, <1>2
  <2> QED
    BY <2>1 DEF Life, CancelsLast
<1>6. kind = "cancel" => caller[c] = "timeout"
  BY <1>0, <1>2 DEF Inv, CallsInv
<1>7. kind # "cancel" => Queued(c)
  BY <1>0, <1>2 DEF Queued
<1>8. Mentioned(c)
  BY <1>0, <1>2 DEF Mentioned
<1>9. ~ Queued(c)' /\ \A d : Queued(d)' => Queued(d)
  BY <1>2, <1>5 DEF Queued
<1>10. caller[c] \notin {"new", "sending"}
  BY <1>3, <1>8 DEF Life, FreshCalls
<1>11. /\ OnePlace(stalled, lanes, batch, reached)
       /\ \A d \in Call : HeldNow(d) => caller[d] \notin {"new", "sending"} /\ ~ Queued(d)
       /\ \A d \in Request : HeldNow(d) => d \in pending \/ caller[d] = "timeout"
  BY <1>1 DEF Routes, Unsent, Known
<1>12. /\ OnePlace(s, lanes, batch, reached)
       /\ \A d : Held(s, lanes, batch, reached, d) => HeldNow(d) \/ (d = c /\ kind # "cancel")
  <2>1. CASE kind = "cancel"
    BY <1>4, <1>11, <2>1 DEF HeldNow
  <2>2. CASE kind # "cancel"
    <3>1. s = Stall(c)
      BY <1>3, <1>4, <2>2
    <3>2. ~ HeldNow(c)
      BY <1>3, <1>7, <1>11, <2>2
    <3>3. TypeOK
      BY DEF Inv
    <3>4. /\ OnePlace(Stall(c), lanes, batch, reached)
          /\ \A d : Held(Stall(c), lanes, batch, reached, d) => HeldNow(d) \/ d = c
      BY <1>3, <1>11, <3>2, <3>3, StallPlaces
    <3> QED
      BY <2>2, <3>1, <3>4
  <2> QED
    BY <2>1, <2>2
<1>13. \A d \in Call : Held(s, lanes, batch, reached, d) =>
         caller[d] \notin {"new", "sending"} /\ ~ Queued(d)'
  BY <1>9, <1>10, <1>11, <1>12
<1>14. ASSUME NEW d \in Request, Held(s, lanes, batch, reached, d)
       PROVE  d \in p \/ caller[d] = "timeout"
  <2>1. Request \cap Message = {}
    BY ConnectionAssumption DEF ConnectionAssumption
  <2>2. CASE d = c
    BY <1>3, <1>4, <1>6, <1>12, <1>14, <2>1, <2>2
  <2>3. CASE d # c
    BY <1>3, <1>4, <1>11, <1>12, <1>14, <2>3
  <2> QED
    BY <2>2, <2>3
<1>15. batch' = batch /\ reached' = reached
  BY <1>1
<1>16. /\ OnePlace(s, lanes, batch', reached') /\ UNCHANGED <<caller, events>>
       /\ \A d \in Call : Held(s, lanes, batch', reached', d) =>
            caller[d] \notin {"new", "sending"} /\ ~ Queued(d)'
       /\ \A d \in Request : Held(s, lanes, batch', reached', d) =>
            d \in p \/ caller[d] = "timeout"
  BY <1>1, <1>12, <1>13, <1>14, <1>15
<1> QED
  BY <1>3, <1>4, <1>16, RoutesSettle

LEMMA RoutesRespond ==
  ASSUME Inv, Routes, NEW c \in Request, Respond(c)
  PROVE  Routes'
<1>1. /\ driver = "running" /\ c \in reached /\ reached' = reached \ {c}
      /\ UNCHANGED <<caller, cmds, driver, stalled, lanes, batch>>
      /\ pending' = pending \ {c}
      /\ events' = IF c \in pending THEN events ELSE events \cup {c}
  BY DEF Respond, Reading, Running, outbound
<1>2. OnePlace(stalled, lanes, batch, reached)'
  BY <1>1 DEF Routes, OnePlace
<1>3. ~ InQueues(stalled, c) /\ ~ InLanes(lanes, c) /\ c \notin batch
  BY <1>1 DEF Routes, OnePlace
<1>4. \A d : HeldNow(d)' => HeldNow(d) /\ d # c
  BY <1>1, <1>3 DEF HeldNow, Held
<1>5. HeldNow(c)
  BY <1>1 DEF HeldNow, Held
<1>6. \A d : Queued(d)' = Queued(d)
  BY <1>1 DEF Queued
<1>7. Unsent' /\ Known'
  BY <1>1, <1>4, <1>6 DEF Routes, Unsent, Known
<1>8. c \in pending \/ caller[c] = "timeout"
  BY <1>1, <1>5 DEF Routes, Known
<1>9. EventsAreLate'
  BY <1>1, <1>8 DEF Routes, EventsAreLate
<1> QED
  BY <1>2, <1>7, <1>9 DEF Routes

LEMMA RoutesOther ==
  ASSUME Inv, Routes,
         \/ DropHandles \/ InboundEvent \/ InboundError \/ Close \/ DropDriver \/ UNCHANGED vars
  PROVE  Routes'
<1>1. CASE DropHandles \/ InboundEvent \/ InboundError \/ UNCHANGED vars
  <2>1. UNCHANGED <<caller, cmds, driver, pending, stalled, lanes, batch, reached, events>>
    BY <1>1 DEF DropHandles, InboundEvent, InboundError, vars, outbound
  <2> QED
    BY <2>1 DEF Routes, Unsent, Known, EventsAreLate, HeldNow, Queued
<1>2. CASE Close
  <2>1. /\ driver' = "closing"
        /\ UNCHANGED <<caller, cmds, stalled, lanes, batch, reached, events>>
    BY <1>2 DEF Close, outbound
  <2> QED
    BY <2>1 DEF Routes, Unsent, Known, EventsAreLate, HeldNow, Queued
<1>3. CASE DropDriver
  <2>1. /\ driver' = "gone" /\ cmds' = <<>> /\ batch' = {}
        /\ stalled' = [l \in Lane |-> <<>>] /\ lanes' = [l \in Lane |-> {}]
        /\ UNCHANGED <<caller, reached, events>>
    BY <1>3 DEF DropDriver
  <2>2. Elements(<<>>) = {} /\ Once(<<>>) /\ DOMAIN <<>> = {}
    BY EmptySeq DEF Elements, Once
  <2>3. \A c : ~ InQueues(stalled', c) /\ ~ InLanes(lanes', c)
    BY <2>1, <2>2 DEF InQueues, InLanes
  <2>4. \A l \in Lane : stalled'[l] = <<>> /\ lanes'[l] = {}
    BY <2>1
  <2>5. OnePlace(stalled', lanes', batch', reached')
    BY <2>1, <2>2, <2>3, <2>4 DEF OnePlace
  <2>6. \A c : HeldNow(c)' => HeldNow(c)
    BY <2>1, <2>3 DEF HeldNow, Held
  <2>7. \A c : ~ Queued(c)'
    BY <2>1, <2>2 DEF Queued
  <2>8. Unsent' /\ Known' /\ EventsAreLate'
    BY <2>1, <2>6, <2>7 DEF Routes, Unsent, Known, EventsAreLate
  <2> QED
    BY <2>5, <2>8 DEF Routes
<1> QED
  BY <1>1, <1>2, <1>3

LEMMA NextRoutes ==
  ASSUME Inv, Life, Routes, [Next]_vars
  PROVE  Routes'
BY RoutesCaller, RoutesLink, RoutesHandle, RoutesRespond, RoutesOther DEF Next, Call

LEMMA AlwaysRoutes == Spec => []Routes
<1>1. Inv /\ Life /\ WaitsForSomeone /\ Routes /\ [Next]_vars
        => Inv' /\ Life' /\ WaitsForSomeone' /\ Routes'
  BY NextInv, NextLife, NextRoutes
<1> QED
  BY <1>1, InitInv, LifeInit, RoutesInit, PTL DEF Spec

\* No response is shown to the subscribers of events while its caller waits for
\* it, or after it has had it: a request is struck from pending early only by
\* the Cancel of its time-out, and one frame brings one response (route_inbound).
THEOREM EventsCorrect == Spec => []EventsAreLate
<1>1. Routes => EventsAreLate
  BY DEF Routes
<1> QED
  BY <1>1, AlwaysRoutes, PTL

\* No frame is sent twice: each is in the queue of its lane, in the scheduler, in
\* the batch or at the other end, once (stall, admit, next_frames).
THEOREM FramesInOnePlace == Spec => []OnePlace(stalled, lanes, batch, reached)
<1>1. Routes => OnePlace(stalled, lanes, batch, reached)
  BY DEF Routes
<1> QED
  BY <1>1, AlwaysRoutes, PTL
=============================================================================
