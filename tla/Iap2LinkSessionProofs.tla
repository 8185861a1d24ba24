----------------------- MODULE Iap2LinkSessionProofs ------------------------
(***************************************************************************)
(* What is proved of Iap2LinkSession, for channels of any capacity.  The   *)
(* events of the link are a word about generations: each begins with an    *)
(* "established", goes on with its "data" and is over with a "restarting", *)
(* and a "down" is the last of all.  The session is somewhere in that      *)
(* word: its flows are there exactly while it is inside a generation.      *)
(* OrderInv says that of the flows, of the events in the channel and of    *)
(* the place of the link task, which are the three parts of the word.      *)
(***************************************************************************)
EXTENDS Iap2LinkSession, SequenceTheorems, TLAPS

Event == {"established", "data", "restarting", "down"}

\* A generation is under way after this event.
Up(e) == e \in {"established", "data"}

\* Event e may come next, when a generation is under way or not.
Joins(up, e) ==
  /\ e = "established" => ~ up
  /\ e \in {"data", "restarting"} => up

Ordered(up, q) ==
  /\ q # <<>> => Joins(up, q[1])
  /\ \A i \in 1..(Len(q) - 1) : q[i] # "down" /\ Joins(Up(q[i]), q[i + 1])

UpAfter(up, q) == (q = <<>> /\ up) \/ (q # <<>> /\ Up(q[Len(q)]))

\* The session has handled the begin of a generation and not its end.
Flowing == flows # "none"

\* A generation is under way at the end of the channel.
Serving == UpAfter(Flowing, events)

Places == link = "open" => Serving

Between == link \in {"handshake", "pausing", "discarding"} => ~ Serving

Waits == link = "emitting" => Joins(Serving, event)

DownIsLast == \A i \in 1..Len(events) : events[i] = "down" => link = "ended"

OrderInv ==
  session # "ended" =>
    /\ Ordered(Flowing, events)
    /\ Places
    /\ Between
    /\ Waits
    /\ DownIsLast
    /\ session = "leaving" => link = "ended"

\* Where the link goes after each event.
EmitInv ==
  link = "emitting" =>
    \/ event \in {"established", "data"} /\ next = "open"
    \/ event = "restarting" /\ next = "pausing"
    \/ event = "down" /\ next = "ended"

\* What waits to be sent is of some generation, or is never sent.
ReplyInv ==
  /\ session = "select" => replies = 0
  /\ replies > 0 => Flowing \/ link = "ended"

Inv == TypeOK /\ OrderInv /\ EmitInv /\ ReplyInv

-----------------------------------------------------------------------------
(* Sequences of events                                                      *)

LEMMA TailOrder ==
  ASSUME NEW up \in BOOLEAN, NEW q \in Seq(Event), q # <<>>, Ordered(up, q)
  PROVE  /\ Joins(up, Head(q))
         /\ Head(q) = "down" => Tail(q) = <<>>
         /\ Ordered(Up(Head(q)), Tail(q))
         /\ UpAfter(Up(Head(q)), Tail(q)) <=> UpAfter(up, q)
<1>1. /\ Len(q) \in Nat \ {0}
      /\ Tail(q) \in Seq(Event)
      /\ Len(Tail(q)) = Len(q) - 1
      /\ \A i \in 1..Len(Tail(q)) : Tail(q)[i] = q[i + 1]
      /\ Head(q) = q[1]
  BY HeadTailProperties, EmptySeq, LenProperties
<1>2. Tail(q) = <<>> <=> Len(q) = 1
  BY <1>1, EmptySeq
<1>3. \A i \in 1..(Len(q) - 1) : q[i] # "down" /\ Joins(Up(q[i]), q[i + 1])
  BY DEF Ordered
<1>4. Joins(up, Head(q))
  BY <1>1 DEF Ordered
<1>5. Head(q) = "down" => Tail(q) = <<>>
  <2>1. SUFFICES ASSUME Tail(q) # <<>> PROVE Head(q) # "down"
    OBVIOUS
  <2>2. 1 \in 1..(Len(q) - 1)
    BY <1>1, <1>2, <2>1
  <2> QED
    BY <1>1, <1>3, <2>2
<1>6. Tail(q) # <<>> => Joins(Up(Head(q)), Tail(q)[1])
  <2>1. SUFFICES ASSUME Tail(q) # <<>> PROVE Joins(Up(Head(q)), Tail(q)[1])
    OBVIOUS
  <2>2. 1 \in 1..(Len(q) - 1) /\ 1 \in 1..Len(Tail(q)) /\ Tail(q)[1] = q[1 + 1]
    BY <1>1, <1>2, <2>1
  <2>3. Joins(Up(q[1]), q[1 + 1])
    BY <1>3, <2>2
  <2> QED
    BY <1>1, <2>2, <2>3
<1>7. ASSUME NEW i \in 1..(Len(Tail(q)) - 1)
      PROVE  Tail(q)[i] # "down" /\ Joins(Up(Tail(q)[i]), Tail(q)[i + 1])
  <2>1. /\ i + 1 \in 1..(Len(q) - 1)
        /\ Tail(q)[i] = q[i + 1] /\ Tail(q)[i + 1] = q[(i + 1) + 1]
    BY <1>1
  <2>2. q[i + 1] # "down" /\ Joins(Up(q[i + 1]), q[(i + 1) + 1])
    BY <1>3, <2>1
  <2> QED
    BY <2>1, <2>2
<1>8. UpAfter(Up(Head(q)), Tail(q)) <=> UpAfter(up, q)
  <2>1. CASE Tail(q) = <<>>
    BY <1>1, <1>2, <2>1 DEF UpAfter
  <2>2. CASE Tail(q) # <<>>
    <3>1. Tail(q)[Len(Tail(q))] = q[Len(q)]
      BY <1>1, <1>2, <2>2
    <3> QED
      BY <2>2, <3>1 DEF UpAfter
  <2> QED
    BY <2>1, <2>2
<1> QED
  BY <1>4, <1>5, <1>6, <1>7, <1>8 DEF Ordered

LEMMA AppendOrder ==
  ASSUME NEW up \in BOOLEAN, NEW q \in Seq(Event), NEW e \in Event,
         Ordered(up, q), Joins(UpAfter(up, q), e), \A i \in 1..Len(q) : q[i] # "down"
  PROVE  /\ Ordered(up, Append(q, e))
         /\ UpAfter(up, Append(q, e)) <=> Up(e)
<1> DEFINE r == Append(q, e)
<1>1. /\ Len(q) \in Nat
      /\ r \in Seq(Event) /\ r # <<>>
      /\ Len(r) = Len(q) + 1
      /\ \A i \in 1..Len(q) : r[i] = q[i]
      /\ r[Len(q) + 1] = e
  BY AppendProperties, LenProperties
<1>2. q = <<>> <=> Len(q) = 0
  BY EmptySeq
<1> HIDE DEF r
<1>3. UpAfter(up, r) <=> Up(e)
  BY <1>1 DEF UpAfter
<1>4. Joins(up, r[1])
  <2>1. CASE q = <<>>
    BY <1>1, <1>2, <2>1 DEF UpAfter
  <2>2. CASE q # <<>>
    <3>1. r[1] = q[1]
      BY <1>1, <1>2, <2>2
    <3> QED
      BY <2>2, <3>1 DEF Ordered
  <2> QED
    BY <2>1, <2>2
<1>5. ASSUME NEW i \in 1..(Len(r) - 1)
      PROVE  r[i] # "down" /\ Joins(Up(r[i]), r[i + 1])
  <2>1. i \in 1..Len(q) /\ r[i] = q[i]
    BY <1>1
  <2>2. CASE i = Len(q)
    <3>1. r[i + 1] = e /\ q # <<>>
      BY <1>1, <1>2, <2>2
    <3>2. Joins(Up(q[Len(q)]), e)
      BY <3>1 DEF UpAfter, Joins
    <3> QED
      BY <2>1, <2>2, <3>1, <3>2
  <2>3. CASE i # Len(q)
    <3>1. i \in 1..(Len(q) - 1) /\ r[i + 1] = q[i + 1]
      BY <1>1, <2>1, <2>3
    <3> QED
      BY <2>1, <3>1 DEF Ordered
  <2> QED
    BY <2>2, <2>3
<1>6. Ordered(up, r)
  BY <1>1, <1>4, <1>5 DEF Ordered
<1> QED
  BY <1>3, <1>6 DEF r

LEMMA AgedKeeps ==
  /\ \A a \in Age \cup {"none"} : Aged(a) \in Age \cup {"none"} /\ (Aged(a) = "none" <=> a = "none")
  /\ \A a \in Age \cup {Disconnect} : Aged(a) \in Age \cup {Disconnect}
BY DEF Aged, Age, Disconnect

\* The chunks that wait in the channel of commands grow old where they are.
LEMMA CommandsAged ==
  ASSUME NEW q \in Seq(Age \cup {Disconnect})
  PROVE  /\ [i \in DOMAIN q |-> Aged(q[i])] \in Seq(Age \cup {Disconnect})
         /\ Len([i \in DOMAIN q |-> Aged(q[i])]) = Len(q)
<1>1. DOMAIN q = 1..Len(q) /\ Len(q) \in Nat
  BY LenProperties
<1>2. \A i \in 1..Len(q) : q[i] \in Age \cup {Disconnect}
  BY ElementOfSeq
<1>3. \A i \in 1..Len(q) : Aged(q[i]) \in Age \cup {Disconnect}
  BY <1>2, AgedKeeps
<1> HIDE DEF Aged
<1> DEFINE r == [i \in 1..Len(q) |-> Aged(q[i])]
<1>4. r \in Seq(Age \cup {Disconnect})
  BY <1>1, <1>3, IsASeq
<1>5. Len(r) = Len(q)
  BY <1>1, <1>4, LenProperties
<1> QED
  BY <1>1, <1>4, <1>5

-----------------------------------------------------------------------------
(* Types                                                                    *)

LEMMA Constants ==
  /\ CmdCap \in Nat \ {0}
  /\ EvCap \in Nat \ {0}
  /\ Replies \in Nat \ {0}
BY LinkSessionAssumption

\* What each task keeps, as the definitions of the conjuncts of TypeOK.
LinkTypes ==
  /\ link \in {"handshake", "pausing", "discarding", "open", "emitting", "ended"}
  /\ event \in {"none", "established", "data", "restarting", "down"}
  /\ next \in {"none", "open", "pausing", "ended"}
  /\ restart \in {"none", "running", "spent"}
  /\ healthy \in BOOLEAN
  /\ window \subseteq Age

CommandTypes == commands \in Seq(Age \cup {Disconnect}) /\ Len(commands) <= CmdCap

EventTypes == events \in Seq(Event) /\ Len(events) <= EvCap

SessionTypes ==
  /\ session \in {"select", "replying", "rejecting", "failing", "dispatching", "leaving",
                  "closing", "ended"}
  /\ flows \in Age \cup {"none"}
  /\ replies \in 0..Replies
  /\ told \in BOOLEAN

OwnerTypes == owner \in {"up", "asking", "disconnecting", "waiting", "gone"}

LEMMA TypeParts ==
  TypeOK <=> LinkTypes /\ CommandTypes /\ EventTypes /\ SessionTypes /\ OwnerTypes
BY Zenon DEF TypeOK, LinkTypes, CommandTypes, EventTypes, SessionTypes, OwnerTypes, Event

LEMMA TypePartsNext ==
  ASSUME LinkTypes', CommandTypes', EventTypes', SessionTypes', OwnerTypes'
  PROVE  TypeOK'
BY Zenon DEF TypeOK, LinkTypes, CommandTypes, EventTypes, SessionTypes, OwnerTypes, Event

\* One more command, when there is room.
LEMMA CommandAdded ==
  ASSUME CommandTypes, Len(commands) < CmdCap,
         NEW c \in Age \cup {Disconnect}, commands' = Append(commands, c)
  PROVE  CommandTypes'
<1>1. Len(commands) \in Nat /\ commands \in Seq(Age \cup {Disconnect})
  BY LenProperties DEF CommandTypes
<1>2. Append(commands, c) \in Seq(Age \cup {Disconnect}) /\ Len(Append(commands, c)) = Len(commands) + 1
  BY <1>1, AppendProperties
<1> QED
  BY <1>1, <1>2, Constants DEF CommandTypes

LEMMA CommandTaken ==
  ASSUME CommandTypes, commands # <<>>, commands' = Tail(commands)
  PROVE  CommandTypes' /\ Head(commands) \in Age \cup {Disconnect}
<1>1. Len(commands) \in Nat /\ commands \in Seq(Age \cup {Disconnect})
  BY LenProperties DEF CommandTypes
<1>2. /\ Head(commands) \in Age \cup {Disconnect}
      /\ Tail(commands) \in Seq(Age \cup {Disconnect}) /\ Len(Tail(commands)) = Len(commands) - 1
  BY <1>1, HeadTailProperties
<1> QED
  BY <1>1, <1>2, Constants DEF CommandTypes

LEMMA EventAdded ==
  ASSUME EventTypes, Len(events) < EvCap, NEW e \in Event, events' = Append(events, e)
  PROVE  EventTypes'
<1>1. Len(events) \in Nat /\ events \in Seq(Event)
  BY LenProperties DEF EventTypes
<1>2. Append(events, e) \in Seq(Event) /\ Len(Append(events, e)) = Len(events) + 1
  BY <1>1, AppendProperties
<1> QED
  BY <1>1, <1>2, Constants DEF EventTypes

LEMMA EventTaken ==
  ASSUME EventTypes, events # <<>>, events' = Tail(events)
  PROVE  EventTypes' /\ Head(events) \in Event
<1>1. Len(events) \in Nat /\ events \in Seq(Event)
  BY LenProperties DEF EventTypes
<1>2. /\ Head(events) \in Event
      /\ Tail(events) \in Seq(Event) /\ Len(Tail(events)) = Len(events) - 1
  BY <1>1, HeadTailProperties
<1> QED
  BY <1>1, <1>2, Constants DEF EventTypes

LEMMA EventsDropped ==
  ASSUME events' = <<>>
  PROVE  EventTypes'
<1>1. <<>> \in Seq(Event) /\ Len(<<>>) = 0
  BY EmptySeq
<1> QED
  BY <1>1, Constants DEF EventTypes

-----------------------------------------------------------------------------
(* Steps that leave the three parts of the word alone                       *)

LEMMA WordUnchanged ==
  ASSUME OrderInv, UNCHANGED <<link, event, events, flows>>,
         session' # "ended" => session # "ended",
         session' = "leaving" => session = "leaving"
  PROVE  OrderInv'
BY Zenon DEF OrderInv, Places, Between, Waits, DownIsLast, Serving, Flowing

LEMMA EmitUnchanged ==
  ASSUME EmitInv, UNCHANGED <<link, event, next>>
  PROVE  EmitInv'
BY Zenon DEF EmitInv

LEMMA RepliesUnchanged ==
  ASSUME ReplyInv, UNCHANGED <<session, flows, replies>>, link = "ended" => link' = "ended"
  PROVE  ReplyInv'
BY Zenon DEF ReplyInv, Flowing

\* A session that has ended keeps no promise.
LEMMA EndsKeeps ==
  ASSUME Ends
  PROVE  OrderInv' /\ ReplyInv'
<1>1. OrderInv'
  BY Zenon DEF Ends, OrderInv
<1>2. ~ (0 > 0)
  OBVIOUS
<1>3. ReplyInv'
  BY <1>2 DEF Ends, ReplyInv
<1> QED
  BY <1>1, <1>3

LEMMA EndsTypes ==
  ASSUME Ends, told' \in BOOLEAN
  PROVE  SessionTypes' /\ EventTypes'
<1>1. EventTypes'
  BY EventsDropped DEF Ends
<1>2. 0 \in 0..Replies
  BY Constants
<1>3. SessionTypes'
  BY <1>2 DEF Ends, SessionTypes
<1> QED
  BY <1>1, <1>3

-----------------------------------------------------------------------------
(* The steps of the link task                                               *)

\* The link goes to a place that the word allows.
LEMMA LinkPlaced ==
  ASSUME OrderInv, link # "ended", UNCHANGED <<events, session>>, Flowing' = Flowing,
         session # "ended" => Places' /\ Between' /\ Waits'
  PROVE  OrderInv'
<1>1. SUFFICES ASSUME session # "ended" PROVE OrderInv'
  BY DEF OrderInv
<1>2. Ordered(Flowing, events)' /\ DownIsLast'
  BY Zenon, <1>1 DEF OrderInv, DownIsLast
<1>3. session # "leaving"
  BY <1>1 DEF OrderInv
<1> QED
  BY Zenon, <1>1, <1>2, <1>3 DEF OrderInv

LEMMA ServingSame ==
  ASSUME UNCHANGED events, Flowing' = Flowing
  PROVE  Serving' = Serving
BY Zenon DEF Serving

\* The event that the link begins to wait with, and where it goes then.
LEMMA SendsKeeps ==
  ASSUME NEW e \in Event, NEW p, Sends(e, p), OrderInv, link # "ended",
         UNCHANGED <<events, session>>, Flowing' = Flowing,
         session # "ended" => Joins(Serving, e),
         \/ e \in {"established", "data"} /\ p = "open"
         \/ e = "restarting" /\ p = "pausing"
         \/ e = "down" /\ p = "ended"
  PROVE  OrderInv' /\ EmitInv'
<1>1. EmitInv'
  BY DEF Sends, EmitInv
<1>2. link' = "emitting" /\ event' = e
  BY DEF Sends
<1>3. Serving' = Serving
  BY ServingSame
<1>4. session # "ended" => Places' /\ Between' /\ Waits'
  BY <1>2, <1>3 DEF Places, Between, Waits
<1>5. OrderInv'
  BY <1>4, LinkPlaced
<1> QED
  BY <1>1, <1>5

LEMMA SendsTypes ==
  ASSUME NEW e \in Event, NEW p \in {"open", "pausing", "ended"}, Sends(e, p), LinkTypes,
         restart' \in {"none", "running", "spent"}, healthy' \in BOOLEAN, window' \subseteq Age
  PROVE  LinkTypes'
BY DEF Sends, LinkTypes, Event

LEMMA DownJoins ==
  ASSUME NEW up
  PROVE  Joins(up, "down")
BY DEF Joins

\* A step of the link that is silent.
LEMMA LinkSilent ==
  ASSUME OrderInv, EmitInv, ReplyInv, link # "ended", link' # "emitting",
         UNCHANGED <<events, sessionVars>>,
         session # "ended" /\ ~ Serving => link' # "open",
         session # "ended" /\ Serving => link' \notin {"handshake", "pausing", "discarding"}
  PROVE  OrderInv' /\ EmitInv' /\ ReplyInv'
<1>1. session' = session /\ flows' = flows /\ replies' = replies
  BY DEF sessionVars
<1>2. Flowing' = Flowing
  BY <1>1 DEF Flowing
<1>3. Serving' = Serving
  BY <1>2, ServingSame
<1>4. session # "ended" => Places' /\ Between' /\ Waits'
  BY <1>3 DEF Places, Between, Waits
<1>5. OrderInv'
  BY <1>1, <1>2, <1>4, LinkPlaced
<1>6. EmitInv'
  BY DEF EmitInv
<1>7. ReplyInv'
  BY <1>1, RepliesUnchanged
<1> QED
  BY <1>5, <1>6, <1>7

LEMMA SessionIdleTypes ==
  ASSUME SessionTypes, UNCHANGED sessionVars
  PROVE  SessionTypes'
BY DEF SessionTypes, sessionVars

LEMMA HandshakeStep ==
  ASSUME Inv, Handshake \/ Pause
  PROVE  Inv'
<1>1. LinkTypes /\ CommandTypes /\ EventTypes /\ SessionTypes /\ OwnerTypes
  BY Zenon, TypeParts DEF Inv
<1>2. OrderInv /\ EmitInv /\ ReplyInv
  BY DEF Inv
<1>3. UNCHANGED <<commands, events, sessionVars, owner>>
  BY DEF Handshake, Negotiated, HandshakeReset, HandshakeFails, Pause
<1>4. CommandTypes' /\ EventTypes' /\ OwnerTypes' /\ SessionTypes'
  BY <1>1, <1>3 DEF CommandTypes, EventTypes, OwnerTypes, SessionTypes, sessionVars
<1>5. session' = session /\ flows' = flows /\ replies' = replies /\ events' = events
  BY <1>3 DEF sessionVars
<1>6. Flowing' = Flowing
  BY <1>5 DEF Flowing
<1>7. session # "ended" /\ link \in {"handshake", "pausing"} => ~ Serving
  BY <1>2 DEF OrderInv, Between
<1>8. CASE HandshakeFails /\ restart # "none"
  <2>1. Sends("down", "ended") /\ link = "handshake" /\ UNCHANGED <<restart, healthy, window>>
    BY <1>8 DEF HandshakeFails
  <2>2. "down" \in Event /\ link # "ended"
    BY <2>1 DEF Event
  <2>3. session # "ended" => Joins(Serving, "down")
    BY DownJoins
  <2>4. OrderInv' /\ EmitInv'
    BY <1>2, <1>5, <1>6, <2>1, <2>2, <2>3, SendsKeeps
  <2>5. LinkTypes'
    BY <1>1, <2>1, <2>2, SendsTypes DEF LinkTypes
  <2>6. ReplyInv'
    BY <1>2, <1>5, <2>2, RepliesUnchanged
  <2> QED
    BY <1>4, <2>4, <2>5, <2>6, TypePartsNext DEF Inv
<1>9. CASE ~ (HandshakeFails /\ restart # "none")
  <2>1. /\ link \in {"handshake", "pausing"}
        /\ link' \in {"handshake", "pausing", "discarding", "ended"}
    BY <1>9 DEF Handshake, Negotiated, HandshakeReset, HandshakeFails, Pause
  <2>2. LinkTypes'
    BY <1>1, <1>9 DEF LinkTypes, Handshake, Negotiated, HandshakeReset, HandshakeFails, Pause
  <2>3. link # "ended" /\ link' # "emitting" /\ link' # "open"
    BY <2>1
  <2>4. OrderInv' /\ EmitInv' /\ ReplyInv'
    BY <1>2, <1>3, <1>7, <2>1, <2>3, LinkSilent
  <2> QED
    BY <1>4, <2>2, <2>4, TypePartsNext DEF Inv
<1> QED
  BY <1>8, <1>9

\* Where the link goes after event e.
Place(e) == IF e = "restarting" THEN "pausing" ELSE IF e = "down" THEN "ended" ELSE "open"

\* Any step of the link that ends with an event to send.
LEMMA SendsStep ==
  ASSUME Inv, NEW e \in Event, Sends(e, Place(e)), link # "ended",
         UNCHANGED <<events, session, replies, owner>>, Flowing' = Flowing,
         SessionTypes', CommandTypes',
         restart' \in {"none", "running", "spent"}, healthy' \in BOOLEAN, window' \subseteq Age,
         session # "ended" => Joins(Serving, e)
  PROVE  Inv'
<1>1. LinkTypes /\ EventTypes /\ OwnerTypes
  BY Zenon, TypeParts DEF Inv
<1>2. OrderInv /\ EmitInv /\ ReplyInv
  BY DEF Inv
<1>3. EventTypes' /\ OwnerTypes'
  BY <1>1 DEF EventTypes, OwnerTypes
<1>4. /\ Place(e) \in {"open", "pausing", "ended"}
      /\ \/ e \in {"established", "data"} /\ Place(e) = "open"
         \/ e = "restarting" /\ Place(e) = "pausing"
         \/ e = "down" /\ Place(e) = "ended"
  BY DEF Place, Event
<1>5. LinkTypes'
  BY <1>1, <1>4, SendsTypes
<1>6. OrderInv' /\ EmitInv'
  BY <1>2, <1>4, SendsKeeps
<1>7. ReplyInv'
  BY <1>2 DEF ReplyInv
<1> QED
  BY <1>3, <1>5, <1>6, <1>7, TypePartsNext DEF Inv

LEMMA DiscardStaleStep ==
  ASSUME Inv, DiscardStale
  PROVE  Inv'
<1>1. LinkTypes /\ CommandTypes /\ EventTypes /\ SessionTypes /\ OwnerTypes
  BY Zenon, TypeParts DEF Inv
<1>2. OrderInv /\ EmitInv /\ ReplyInv
  BY DEF Inv
<1>3. link = "discarding" /\ UNCHANGED <<restart, healthy, window, events, sessionVars, owner>>
  BY DEF DiscardStale
<1>4. /\ session' = session /\ flows' = flows /\ replies' = replies /\ owner' = owner
      /\ events' = events /\ Flowing' = Flowing
  BY <1>3 DEF sessionVars, Flowing
<1>5. SessionTypes' /\ EventTypes' /\ OwnerTypes'
  BY <1>1, <1>3, SessionIdleTypes DEF EventTypes, OwnerTypes
<1>6. /\ restart' \in {"none", "running", "spent"} /\ healthy' \in BOOLEAN /\ window' \subseteq Age
  BY <1>1, <1>3 DEF LinkTypes
<1>7. session # "ended" => ~ Serving
  BY <1>2, <1>3 DEF OrderInv, Between
<1>8. CommandTypes'
  BY <1>1, CommandTaken DEF DiscardStale, CommandTypes
<1>9. \/ Sends("down", Place("down"))
      \/ Sends("established", Place("established"))
      \/ UNCHANGED <<link, event, next>>
  BY DEF DiscardStale, Place
<1>10. CASE Sends("down", Place("down"))
  <2>1. "down" \in Event /\ link # "ended"
    BY <1>3 DEF Event
  <2> QED
    BY <1>4, <1>5, <1>6, <1>8, <1>10, <2>1, DownJoins, SendsStep
<1>11. CASE Sends("established", Place("established"))
  <2>1. "established" \in Event /\ link # "ended"
    BY <1>3 DEF Event
  <2>2. session # "ended" => Joins(Serving, "established")
    BY <1>7 DEF Joins
  <2> QED
    BY <1>4, <1>5, <1>6, <1>8, <1>11, <2>1, <2>2, SendsStep
<1>12. CASE UNCHANGED <<link, event, next>>
  <2>1. OrderInv' /\ EmitInv' /\ ReplyInv'
    BY <1>2, <1>4, <1>12, WordUnchanged, EmitUnchanged, RepliesUnchanged
  <2>2. LinkTypes'
    BY <1>1, <1>3, <1>12 DEF LinkTypes
  <2> QED
    BY <1>5, <1>8, <2>1, <2>2, TypePartsNext DEF Inv
<1> QED
  BY <1>9, <1>10, <1>11, <1>12

LEMMA EmitStep ==
  ASSUME Inv, Emit
  PROVE  Inv'
<1>1. LinkTypes /\ CommandTypes /\ EventTypes /\ SessionTypes /\ OwnerTypes
  BY Zenon, TypeParts DEF Inv
<1>2. OrderInv /\ EmitInv /\ ReplyInv
  BY DEF Inv
<1>3. /\ link = "emitting" /\ link' = next /\ event' = "none" /\ next' = "none"
      /\ UNCHANGED <<restart, healthy, window, commands, sessionVars, owner>>
  BY DEF Emit
<1>4. session' = session /\ flows' = flows /\ replies' = replies /\ Flowing' = Flowing
  BY <1>3 DEF sessionVars, Flowing
<1>5. \/ event \in {"established", "data"} /\ link' = "open"
      \/ event = "restarting" /\ link' = "pausing"
      \/ event = "down" /\ link' = "ended"
  BY <1>2, <1>3 DEF EmitInv
<1>6. event \in Event
  BY <1>5 DEF Event
<1>7. EventTypes'
  BY <1>1, <1>6, EventAdded DEF Emit, EventTypes
<1>8. CommandTypes' /\ OwnerTypes' /\ SessionTypes'
  BY <1>1, <1>3, SessionIdleTypes DEF CommandTypes, OwnerTypes
<1>9. LinkTypes'
  BY <1>1, <1>3, <1>5 DEF LinkTypes
<1>10. EmitInv'
  BY <1>5 DEF EmitInv
<1>11. ReplyInv'
  BY <1>2, <1>3, <1>4, RepliesUnchanged
<1>12. OrderInv'
  <2>1. SUFFICES ASSUME session # "ended" PROVE OrderInv'
    BY <1>4 DEF OrderInv
  <2>2. events' = Append(events, event)
    BY <2>1 DEF Emit
  <2>3. Ordered(Flowing, events) /\ Joins(Serving, event) /\ session # "leaving"
    BY <1>2, <1>3, <2>1 DEF OrderInv, Waits
  <2>4. \A i \in 1..Len(events) : events[i] # "down"
    BY <1>2, <1>3, <2>1 DEF OrderInv, DownIsLast
  <2>5. Flowing \in BOOLEAN /\ events \in Seq(Event)
    BY <1>1 DEF Flowing, EventTypes
  <2>6. Joins(UpAfter(Flowing, events), event)
    BY <2>3 DEF Serving
  <2>7. /\ Ordered(Flowing, Append(events, event))
        /\ UpAfter(Flowing, Append(events, event)) <=> Up(event)
    BY <1>6, <2>3, <2>4, <2>5, <2>6, AppendOrder
  <2>8. Ordered(Flowing, events)' /\ (Serving' <=> Up(event))
    BY <1>4, <2>2, <2>7 DEF Serving
  <2>9. Places' /\ Between' /\ Waits'
    BY <1>5, <2>8 DEF Places, Between, Waits, Up
  <2>10. DownIsLast'
    <3>1. SUFFICES ASSUME NEW i \in 1..Len(events'), events'[i] = "down" PROVE link' = "ended"
      BY DEF DownIsLast
    <3>2. /\ Len(events) \in Nat /\ Len(events') = Len(events) + 1
          /\ \A j \in 1..Len(events) : events'[j] = events[j]
          /\ events'[Len(events) + 1] = event
      BY <1>6, <2>2, <2>5, AppendProperties, LenProperties
    <3>3. i = Len(events) + 1
      BY <2>4, <3>1, <3>2
    <3> QED
      BY <1>5, <3>1, <3>2, <3>3
  <2> QED
    BY Zenon, <1>4, <2>3, <2>8, <2>9, <2>10 DEF OrderInv
<1> QED
  BY <1>7, <1>8, <1>9, <1>10, <1>11, <1>12, TypePartsNext DEF Inv

\* The branches of the established phase that begin to send an event, and end
\* no generation.
LEMMA OpenSends ==
  ASSUME Inv, link = "open", NEW e \in {"data", "down"}, Sends(e, Place(e)), CommandTypes',
         UNCHANGED <<restart, healthy, window, events, sessionVars, owner>>
  PROVE  Inv'
<1>1. LinkTypes /\ SessionTypes /\ OrderInv
  BY Zenon, TypeParts DEF Inv
<1>2. session' = session /\ flows' = flows /\ replies' = replies /\ owner' = owner
  BY DEF sessionVars
<1>3. Flowing' = Flowing
  BY <1>2 DEF Flowing
<1>4. restart' \in {"none", "running", "spent"} /\ healthy' \in BOOLEAN /\ window' \subseteq Age
  BY <1>1 DEF LinkTypes
<1>5. SessionTypes'
  BY <1>1, SessionIdleTypes
<1>6. session # "ended" => Joins(Serving, e)
  BY <1>1 DEF OrderInv, Places, Joins
<1>7. e \in Event /\ link # "ended"
  BY DEF Event
<1> QED
  BY <1>2, <1>3, <1>4, <1>5, <1>6, <1>7, SendsStep

\* A step of the link that goes nowhere.
LEMMA LinkStays ==
  ASSUME Inv, UNCHANGED <<link, event, next, events, sessionVars, owner>>, CommandTypes',
         restart' \in {"none", "running", "spent"}, healthy' \in BOOLEAN, window' \subseteq Age
  PROVE  Inv'
<1>1. LinkTypes /\ EventTypes /\ SessionTypes /\ OwnerTypes
  BY Zenon, TypeParts DEF Inv
<1>2. OrderInv /\ EmitInv /\ ReplyInv
  BY DEF Inv
<1>3. session' = session /\ flows' = flows /\ replies' = replies
  BY DEF sessionVars
<1>4. OrderInv' /\ EmitInv' /\ ReplyInv'
  BY <1>2, <1>3, WordUnchanged, EmitUnchanged, RepliesUnchanged
<1>5. LinkTypes' /\ EventTypes' /\ OwnerTypes' /\ SessionTypes'
  BY <1>1, SessionIdleTypes DEF LinkTypes, EventTypes, OwnerTypes
<1> QED
  BY <1>4, <1>5, TypePartsNext DEF Inv

LEMMA ReadStep ==
  ASSUME Inv, ReadData \/ ReadAck \/ Fail
  PROVE  Inv'
<1>1. LinkTypes /\ CommandTypes
  BY Zenon, TypeParts DEF Inv
<1>2. CommandTypes'
  BY <1>1 DEF CommandTypes, ReadData, ReadAck, Fail
<1>3. CASE ReadData
  <2>1. Sends("data", Place("data")) /\ link = "open"
    BY <1>3 DEF ReadData, Place
  <2>2. UNCHANGED <<restart, healthy, window, events, sessionVars, owner>>
    BY <1>3 DEF ReadData
  <2> QED
    BY <1>2, <2>1, <2>2, OpenSends
<1>4. CASE Fail
  <2>1. Sends("down", Place("down")) /\ link = "open"
    BY <1>4 DEF Fail, Place
  <2>2. UNCHANGED <<restart, healthy, window, events, sessionVars, owner>>
    BY <1>4 DEF Fail
  <2> QED
    BY <1>2, <2>1, <2>2, OpenSends
<1>5. CASE ReadAck
  <2>1. UNCHANGED <<link, event, next, events, sessionVars, owner>>
    BY <1>5 DEF ReadAck
  <2>2. restart' \in {"none", "running", "spent"} /\ healthy' \in BOOLEAN /\ window' \subseteq Age
    BY <1>1, <1>5 DEF ReadAck, LinkTypes
  <2> QED
    BY <1>2, <2>1, <2>2, LinkStays
<1> QED
  BY <1>3, <1>4, <1>5

LEMMA TakeCommandStep ==
  ASSUME Inv, TakeCommand
  PROVE  Inv'
<1>1. LinkTypes /\ CommandTypes
  BY Zenon, TypeParts DEF Inv
<1>2. link = "open" /\ UNCHANGED <<restart, healthy, events, sessionVars, owner>>
  BY DEF TakeCommand
<1>3. CommandTypes' /\ (commands # <<>> => Head(commands) \in Age \cup {Disconnect})
  <2>1. CASE commands # <<>>
    BY <1>1, <2>1, CommandTaken DEF TakeCommand
  <2>2. CASE commands = <<>>
    BY <1>1, <2>2 DEF TakeCommand, CommandTypes
  <2> QED
    BY <2>1, <2>2
<1>4. CASE Sends("down", "ended") /\ UNCHANGED window
  <2>1. Sends("down", Place("down"))
    BY <1>4 DEF Place
  <2> QED
    BY <1>2, <1>3, <1>4, <2>1, OpenSends
<1>5. CASE /\ commands # <<>> /\ Head(commands) # Disconnect
           /\ window' = window \cup {Head(commands)} /\ UNCHANGED <<link, event, next>>
  <2>1. restart' \in {"none", "running", "spent"} /\ healthy' \in BOOLEAN /\ window' \subseteq Age
    BY <1>1, <1>2, <1>3, <1>5 DEF LinkTypes
  <2>2. UNCHANGED <<link, event, next, events, sessionVars, owner>>
    BY <1>2, <1>5
  <2> QED
    BY <1>3, <2>1, <2>2, LinkStays
<1> QED
  BY <1>4, <1>5 DEF TakeCommand

LEMMA LeaveStep ==
  ASSUME Inv, Leave
  PROVE  Inv'
<1>1. LinkTypes /\ CommandTypes /\ SessionTypes /\ OrderInv
  BY Zenon, TypeParts DEF Inv
<1>2. link = "open" /\ UNCHANGED <<healthy, window, events, session, replies, told, owner>>
  BY DEF Leave
<1>3. healthy' \in BOOLEAN /\ window' \subseteq Age
  BY <1>1, <1>2 DEF LinkTypes
<1>4. PICK budget \in {"none", "running", "spent"} :
        IF budget = "spent"
        THEN Sends("down", "ended") /\ restart' = budget /\ UNCHANGED <<commands, flows>>
        ELSE Restarts(budget)
  BY <1>1 DEF Leave, LinkTypes
<1>5. CASE budget = "spent"
  <2>1. Sends("down", Place("down")) /\ restart' = "spent" /\ UNCHANGED <<commands, flows>>
    BY <1>4, <1>5 DEF Place
  <2>2. CommandTypes' /\ SessionTypes' /\ Flowing' = Flowing
    BY <1>1, <1>2, <2>1 DEF CommandTypes, SessionTypes, Flowing
  <2>3. "down" \in Event /\ link # "ended"
    BY <1>2 DEF Event
  <2>4. session # "ended" => Joins(Serving, "down")
    BY DownJoins
  <2>5. restart' \in {"none", "running", "spent"} /\ UNCHANGED <<events, session, replies, owner>>
    BY <1>2, <2>1
  <2> QED
    BY <1>3, <2>1, <2>2, <2>3, <2>4, <2>5, SendsStep
<1>6. CASE budget # "spent"
  <2>1. /\ Sends("restarting", Place("restarting"))
        /\ restart' = IF budget = "none" THEN "running" ELSE budget
        /\ commands' = [i \in DOMAIN commands |-> Aged(commands[i])]
        /\ flows' = Aged(flows)
    BY <1>4, <1>6 DEF Restarts, Place
  <2>2. CommandTypes'
    BY <1>1, <2>1, CommandsAged DEF CommandTypes
  <2>3. flows' \in Age \cup {"none"} /\ (flows' = "none" <=> flows = "none")
    BY <1>1, <2>1, AgedKeeps DEF SessionTypes
  <2>4. SessionTypes'
    BY <1>1, <1>2, <2>3 DEF SessionTypes
  <2>5. Flowing' = Flowing
    BY <2>3 DEF Flowing
  <2>6. "restarting" \in Event /\ link # "ended"
    BY <1>2 DEF Event
  <2>7. session # "ended" => Joins(Serving, "restarting")
    BY <1>1, <1>2 DEF OrderInv, Places, Joins
  <2>8. restart' \in {"none", "running", "spent"} /\ UNCHANGED <<events, session, replies, owner>>
    BY <1>2, <2>1
  <2> QED
    BY <1>3, <2>1, <2>2, <2>4, <2>5, <2>6, <2>7, <2>8, SendsStep
<1> QED
  BY <1>5, <1>6

LEMMA TimerStep ==
  ASSUME Inv, SpendWindow \/ BecomeHealthy
  PROVE  Inv'
<1>1. LinkTypes /\ CommandTypes
  BY Zenon, TypeParts DEF Inv
<1>2. UNCHANGED <<link, event, next, window, commands, events, sessionVars, owner>>
  BY DEF SpendWindow, BecomeHealthy
<1>3. restart' \in {"none", "running", "spent"} /\ healthy' \in BOOLEAN /\ window' \subseteq Age
  BY <1>1, <1>2 DEF SpendWindow, BecomeHealthy, LinkTypes
<1>4. CommandTypes'
  BY <1>1, <1>2 DEF CommandTypes
<1> QED
  BY <1>2, <1>3, <1>4, LinkStays

-----------------------------------------------------------------------------
(* The steps of the session task and of the owner                           *)

LEMMA LinkIdle ==
  ASSUME LinkTypes, EmitInv, UNCHANGED linkVars
  PROVE  /\ LinkTypes' /\ EmitInv'
         /\ link' = link /\ event' = event /\ next' = next
<1>1. link' = link /\ event' = event /\ next' = next
  BY DEF linkVars
<1>2. EmitInv'
  BY <1>1, EmitUnchanged
<1>3. LinkTypes'
  BY DEF linkVars, LinkTypes
<1> QED
  BY <1>1, <1>2, <1>3

\* An event is handled: the flows follow the word.
LEMMA WordFollowed ==
  ASSUME OrderInv, EventTypes, session = "select", events # <<>>, events' = Tail(events),
         UNCHANGED <<link, event>>,
         Head(events) # "down" => Flowing' = Up(Head(events)) /\ session' # "leaving",
         Head(events) = "down" => Flowing' = Flowing
  PROVE  /\ OrderInv'
         /\ Joins(Flowing, Head(events))
         /\ Head(events) = "down" => link = "ended"
<1>1. /\ Ordered(Flowing, events) /\ Places /\ Between /\ Waits /\ DownIsLast
  BY DEF OrderInv
<1>2. /\ events \in Seq(Event) /\ Flowing \in BOOLEAN
  BY DEF EventTypes, Flowing
<1>3. /\ Joins(Flowing, Head(events))
      /\ Head(events) = "down" => Tail(events) = <<>>
      /\ Ordered(Up(Head(events)), Tail(events))
      /\ UpAfter(Up(Head(events)), Tail(events)) <=> UpAfter(Flowing, events)
  BY <1>1, <1>2, TailOrder
<1>4. /\ Len(events) \in Nat \ {0} /\ Head(events) = events[1]
      /\ Len(Tail(events)) = Len(events) - 1
      /\ \A i \in 1..Len(Tail(events)) : Tail(events)[i] = events[i + 1]
  BY <1>2, HeadTailProperties, EmptySeq, LenProperties
<1>5. Head(events) = "down" => link = "ended"
  BY <1>1, <1>4 DEF DownIsLast
<1>6. DownIsLast'
  <2>1. SUFFICES ASSUME NEW i \in 1..Len(Tail(events)), Tail(events)[i] = "down"
                 PROVE  link = "ended"
    BY DEF DownIsLast
  <2>2. i + 1 \in 1..Len(events) /\ events[i + 1] = "down"
    BY <1>4, <2>1
  <2> QED
    BY <1>1, <2>2 DEF DownIsLast
<1>7. CASE Head(events) = "down"
  <2>1. events' = <<>> /\ link' = "ended"
    BY <1>3, <1>5, <1>7
  <2>2. Ordered(Flowing, events)'
    BY <2>1, EmptySeq DEF Ordered
  <2>3. Places' /\ Between' /\ Waits'
    BY <2>1 DEF Places, Between, Waits
  <2>4. OrderInv'
    BY Zenon, <1>6, <2>1, <2>2, <2>3 DEF OrderInv
  <2> QED
    BY <1>3, <1>5, <2>4
<1>8. CASE Head(events) # "down"
  <2>1. Flowing' = Up(Head(events)) /\ session' # "leaving"
    BY <1>8
  <2>2. Ordered(Flowing', events') /\ (UpAfter(Flowing', events') <=> UpAfter(Flowing, events))
    BY Zenon, <1>3, <2>1
  <2>3. Ordered(Flowing, events)' /\ (Serving' <=> Serving)
    BY Zenon, <2>2 DEF Serving
  <2>4. Places' /\ Between'
    BY <1>1, <2>3 DEF Places, Between
  <2>5. Waits'
    BY <1>1, <2>3 DEF Waits, Joins
  <2>6. OrderInv'
    BY Zenon, <1>6, <2>1, <2>3, <2>4, <2>5 DEF OrderInv
  <2> QED
    BY <1>3, <1>5, <2>6
<1> QED
  BY <1>3, <1>5, <1>7, <1>8

LEMMA HandleEventStep ==
  ASSUME Inv, HandleEvent
  PROVE  Inv'
<1>1. LinkTypes /\ CommandTypes /\ EventTypes /\ SessionTypes /\ OwnerTypes
  BY Zenon, TypeParts DEF Inv
<1>2. OrderInv /\ EmitInv /\ ReplyInv
  BY DEF Inv
<1>3. /\ session = "select" /\ events # <<>> /\ events' = Tail(events)
      /\ UNCHANGED <<linkVars, commands, told, owner>>
  BY DEF HandleEvent
<1>4. EventTypes' /\ Head(events) \in Event
  BY <1>1, <1>3, EventTaken
<1>5. LinkTypes' /\ EmitInv' /\ link' = link /\ event' = event /\ next' = next
  BY <1>1, <1>2, <1>3, LinkIdle
<1>6. CommandTypes' /\ OwnerTypes'
  BY <1>1, <1>3 DEF CommandTypes, OwnerTypes
<1>7. Joins(Flowing, Head(events))
  <2>1. Ordered(Flowing, events) /\ events \in Seq(Event) /\ Flowing \in BOOLEAN
    BY <1>1, <1>2, <1>3 DEF OrderInv, EventTypes, Flowing
  <2> QED
    BY <1>3, <2>1, TailOrder
<1>8. replies = 0 /\ ~ (0 > 0)
  BY <1>2, <1>3 DEF ReplyInv
<1>9. CASE Head(events) = "established"
  <2>1. Established
    BY <1>3, <1>9 DEF HandleEvent
  <2>2. flows' \in Age /\ session' = session /\ replies' = replies
    BY <1>1, <2>1 DEF Established, SessionTypes, Age
  <2>3. SessionTypes'
    BY <1>1, <1>3, <2>2 DEF SessionTypes
  <2>4. Flowing' = Up(Head(events)) /\ session' # "leaving"
    BY <1>3, <1>9, <2>2 DEF Flowing, Up, Age
  <2>5. OrderInv'
    BY <1>1, <1>2, <1>3, <1>5, <1>9, <2>4, WordFollowed
  <2>6. ReplyInv'
    BY <1>8, <2>2 DEF ReplyInv
  <2> QED
    BY <1>4, <1>5, <1>6, <2>3, <2>5, <2>6, TypePartsNext DEF Inv
<1>10. CASE Head(events) = "data"
  <2>1. Data
    BY <1>3, <1>10 DEF HandleEvent
  <2>2. /\ replies' \in 0..Replies /\ flows' = flows
        /\ session' \in {"replying", "rejecting", "failing"}
    BY <2>1 DEF Data
  <2>3. SessionTypes'
    BY <1>1, <1>3, <2>2 DEF SessionTypes
  <2>4. Flowing /\ Flowing'
    BY <1>7, <1>10, <2>2 DEF Joins, Flowing
  <2>5. Flowing' = Up(Head(events)) /\ session' # "leaving"
    BY <1>10, <2>2, <2>4 DEF Flowing, Up
  <2>6. OrderInv'
    BY <1>1, <1>2, <1>3, <1>5, <1>10, <2>5, WordFollowed
  <2>7. ReplyInv'
    BY <2>2, <2>4 DEF ReplyInv
  <2> QED
    BY <1>4, <1>5, <1>6, <2>3, <2>6, <2>7, TypePartsNext DEF Inv
<1>11. CASE Head(events) = "restarting"
  <2>1. Restarting
    BY <1>3, <1>11 DEF HandleEvent
  <2>2. flows' = "none" /\ session' = session /\ replies' = replies
    BY <2>1 DEF Restarting
  <2>3. SessionTypes'
    BY <1>1, <1>3, <2>2 DEF SessionTypes
  <2>4. Flowing' = Up(Head(events)) /\ session' # "leaving"
    BY <1>3, <1>11, <2>2 DEF Flowing, Up
  <2>5. OrderInv'
    BY <1>1, <1>2, <1>3, <1>5, <1>11, <2>4, WordFollowed
  <2>6. ReplyInv'
    BY <1>8, <2>2 DEF ReplyInv
  <2> QED
    BY <1>4, <1>5, <1>6, <2>3, <2>5, <2>6, TypePartsNext DEF Inv
<1>12. CASE Head(events) = "down"
  <2>1. Down
    BY <1>3, <1>12 DEF HandleEvent
  <2>2. session' = "leaving" /\ replies' \in 0..1 /\ flows' = flows
    BY <2>1 DEF Down
  <2>3. replies' \in 0..Replies
    BY <2>2, Constants
  <2>4. SessionTypes'
    BY <1>1, <1>3, <2>2, <2>3 DEF SessionTypes
  <2>5. Flowing' = Flowing
    BY <2>2 DEF Flowing
  <2>6. OrderInv' /\ link = "ended"
    BY <1>1, <1>2, <1>3, <1>5, <1>12, <2>5, WordFollowed
  <2>7. ReplyInv'
    BY <1>5, <2>2, <2>6 DEF ReplyInv
  <2> QED
    BY <1>4, <1>5, <1>6, <2>4, <2>6, <2>7, TypePartsNext DEF Inv
<1> QED
  BY <1>4, <1>9, <1>10, <1>11, <1>12 DEF Event

\* The session or its streams at work: no event is handled.
LEMMA SessionWorks ==
  ASSUME Inv, UNCHANGED <<linkVars, events, flows>>,
         CommandTypes', SessionTypes', OwnerTypes', ReplyInv',
         session' # "ended" => session # "ended",
         session' = "leaving" => session = "leaving"
  PROVE  Inv'
<1>1. LinkTypes /\ EventTypes /\ OrderInv /\ EmitInv
  BY Zenon, TypeParts DEF Inv
<1>2. LinkTypes' /\ EmitInv' /\ link' = link /\ event' = event /\ next' = next
  BY <1>1, LinkIdle
<1>3. OrderInv'
  BY <1>1, <1>2, WordUnchanged
<1>4. EventTypes'
  BY <1>1 DEF EventTypes
<1> QED
  BY <1>2, <1>3, <1>4, TypePartsNext DEF Inv

\* The session ends.
LEMMA SessionEnds ==
  ASSUME Inv, Ends, UNCHANGED linkVars, told' \in BOOLEAN, CommandTypes', OwnerTypes'
  PROVE  Inv'
<1>1. LinkTypes /\ EmitInv
  BY Zenon, TypeParts DEF Inv
<1>2. LinkTypes' /\ EmitInv'
  BY <1>1, LinkIdle
<1>3. OrderInv' /\ ReplyInv' /\ SessionTypes' /\ EventTypes'
  BY EndsKeeps, EndsTypes
<1> QED
  BY <1>2, <1>3, TypePartsNext DEF Inv

LEMMA CommandsStep ==
  ASSUME Inv, SendReply \/ SendChunk
  PROVE  Inv'
<1>1. CommandTypes /\ SessionTypes /\ OwnerTypes /\ ReplyInv
  BY Zenon, TypeParts DEF Inv
<1>2. /\ link # "ended" /\ Len(commands) < CmdCap /\ commands' = Append(commands, flows)
      /\ UNCHANGED <<linkVars, events, session, flows, told, owner>>
  BY DEF SendReply, SendChunk, sessionVars
<1>3. flows # "none"
  BY <1>1, <1>2 DEF SendReply, SendChunk, ReplyInv, Flowing
<1>4. flows \in Age \cup {Disconnect}
  BY <1>1, <1>3 DEF SessionTypes
<1>5. CommandTypes'
  BY <1>1, <1>2, <1>4, CommandAdded
<1>6. replies' \in 0..Replies /\ (session = "select" => replies' = 0)
  <2>1. CASE SendReply
    <3>1. replies > 0 /\ replies' = replies - 1 /\ replies \in 0..Replies /\ session # "select"
      BY <1>1, <2>1 DEF SendReply, SessionTypes, ReplyInv
    <3> QED
      BY <3>1, Constants
  <2>2. CASE SendChunk
    BY <1>1, <2>2 DEF SendChunk, SessionTypes, ReplyInv, sessionVars
  <2> QED
    BY <2>1, <2>2
<1>7. SessionTypes' /\ OwnerTypes'
  BY <1>1, <1>2, <1>6 DEF SessionTypes, OwnerTypes
<1>8. ReplyInv'
  BY <1>2, <1>3, <1>6 DEF ReplyInv, Flowing
<1> QED
  BY <1>2, <1>5, <1>7, <1>8, SessionWorks

LEMMA SessionMovesStep ==
  ASSUME Inv, Dispatch \/ CloseStreams \/ ReplyRefused \/ Replied
  PROVE  Inv'
<1>1. CommandTypes /\ SessionTypes /\ OwnerTypes /\ ReplyInv
  BY Zenon, TypeParts DEF Inv
<1>2. UNCHANGED <<linkVars, commands, events, flows, told, owner>>
  BY DEF Dispatch, CloseStreams, ReplyRefused, Replied
<1>3. link' = link
  BY <1>2 DEF linkVars
<1>4. /\ session # "ended" \/ session' = session
      /\ session' = "leaving" => session = "leaving"
      /\ session' \in {"select", "replying", "rejecting", "failing", "dispatching", "leaving",
                       "closing", "ended"}
  BY <1>1 DEF Dispatch, Free, CloseStreams, ReplyRefused, Replied, SessionTypes
<1>5. /\ replies' \in 0..Replies
      /\ session' = "select" => replies' = 0
      /\ replies' > 0 => flows # "none"
  <2>1. CASE Dispatch
    <3>1. replies' = 1 /\ flows # "none" /\ session' = "dispatching"
      BY <2>1 DEF Dispatch, Free
    <3> QED
      BY <3>1, Constants
  <2>2. CASE CloseStreams
    <3>1. /\ replies' \in IF flows = "none" THEN {0} ELSE 0..Replies
          /\ session' = "closing"
      BY <2>2 DEF CloseStreams
    <3> QED
      BY <3>1, Constants
  <2>3. CASE ReplyRefused \/ Replied
    <3>1. replies' = 0
      BY <2>3 DEF ReplyRefused, Replied
    <3> QED
      BY <3>1, Constants
  <2> QED
    BY <2>1, <2>2, <2>3
<1>6. CommandTypes' /\ SessionTypes' /\ OwnerTypes'
  BY <1>1, <1>2, <1>4, <1>5 DEF CommandTypes, SessionTypes, OwnerTypes
<1>7. ReplyInv'
  BY <1>2, <1>5 DEF ReplyInv, Flowing
<1> QED
  BY <1>2, <1>4, <1>6, <1>7, SessionWorks

LEMMA DisconnectLinkStep ==
  ASSUME Inv, DisconnectLink
  PROVE  Inv'
<1>1. CommandTypes /\ SessionTypes /\ OwnerTypes /\ ReplyInv
  BY Zenon, TypeParts DEF Inv
<1>2. session \in {"rejecting", "failing"} /\ replies = 0 /\ UNCHANGED <<linkVars, owner>>
  BY DEF DisconnectLink
<1>3. Disconnect \in Age \cup {Disconnect}
  OBVIOUS
<1>4. CommandTypes'
  <2>1. CASE UNCHANGED commands
    BY <1>1, <2>1 DEF CommandTypes
  <2>2. CASE Len(commands) < CmdCap /\ commands' = Append(commands, Disconnect)
    BY <1>1, <1>3, <2>2, CommandAdded
  <2> QED
    BY <2>1, <2>2 DEF DisconnectLink
<1>5. OwnerTypes'
  BY <1>1, <1>2 DEF OwnerTypes
<1>6. CASE session = "failing"
  <2>1. Ends /\ told' \in BOOLEAN
    BY <1>6 DEF DisconnectLink
  <2> QED
    BY <1>2, <1>4, <1>5, <2>1, SessionEnds
<1>7. CASE session = "rejecting"
  <2>1. session' = "select" /\ UNCHANGED <<events, flows, replies, told>>
    BY <1>7 DEF DisconnectLink
  <2>2. SessionTypes'
    BY <1>1, <2>1 DEF SessionTypes
  <2>3. ~ (0 > 0)
    OBVIOUS
  <2>4. ReplyInv'
    BY <1>2, <2>1, <2>3 DEF ReplyInv
  <2> QED
    BY <1>2, <1>4, <1>5, <1>7, <2>1, <2>2, <2>4, SessionWorks
<1> QED
  BY <1>2, <1>6, <1>7

LEMMA SessionEndsStep ==
  ASSUME Inv, LinkGone \/ Farewell \/ StreamsClosed \/ Abort
  PROVE  Inv'
<1>1. CommandTypes /\ SessionTypes /\ OwnerTypes
  BY Zenon, TypeParts DEF Inv
<1>2. Ends /\ UNCHANGED <<linkVars, commands>>
  BY DEF LinkGone, Farewell, StreamsClosed, Abort
<1>3. told' \in BOOLEAN
  BY <1>1 DEF LinkGone, Farewell, StreamsClosed, Abort, SessionTypes
<1>4. CommandTypes' /\ OwnerTypes'
  BY <1>1, <1>2 DEF CommandTypes, OwnerTypes, LinkGone, Farewell, StreamsClosed, Abort
<1> QED
  BY <1>2, <1>3, <1>4, SessionEnds

LEMMA OwnerStep ==
  ASSUME Inv, AskClose \/ Proceed \/ OwnerDisconnects \/ SessionDead
  PROVE  Inv'
<1>1. CommandTypes /\ SessionTypes /\ OwnerTypes /\ ReplyInv
  BY Zenon, TypeParts DEF Inv
<1>2. UNCHANGED <<linkVars, events, sessionVars>>
  BY DEF AskClose, Proceed, OwnerDisconnects, SessionDead
<1>3. session' = session /\ flows' = flows /\ replies' = replies /\ link' = link
  BY <1>2 DEF sessionVars, linkVars
<1>4. Disconnect \in Age \cup {Disconnect}
  OBVIOUS
<1>5. CommandTypes'
  <2>1. CASE UNCHANGED commands
    BY <1>1, <2>1 DEF CommandTypes
  <2>2. CASE Len(commands) < CmdCap /\ commands' = Append(commands, Disconnect)
    BY <1>1, <1>4, <2>2, CommandAdded
  <2> QED
    BY <2>1, <2>2 DEF AskClose, Proceed, OwnerDisconnects, SessionDead
<1>6. SessionTypes'
  BY <1>1, <1>2, SessionIdleTypes
<1>7. OwnerTypes'
  BY DEF AskClose, Proceed, OwnerDisconnects, SessionDead, OwnerTypes
<1>8. ReplyInv'
  BY <1>1, <1>3, RepliesUnchanged
<1> QED
  BY <1>2, <1>3, <1>5, <1>6, <1>7, <1>8, SessionWorks

-----------------------------------------------------------------------------
(* The theorems                                                             *)

LEMMA InvInit == Init => Inv
<1>1. SUFFICES ASSUME Init PROVE Inv
  OBVIOUS
<1>2. <<>> \in Seq(Age \cup {Disconnect}) /\ <<>> \in Seq(Event) /\ Len(<<>>) = 0
  BY EmptySeq
<1>3. LinkTypes /\ SessionTypes /\ OwnerTypes
  <2>1. LinkTypes
    BY <1>1 DEF Init, LinkTypes
  <2>2. 0 \in 0..Replies
    BY Constants
  <2>3. SessionTypes /\ OwnerTypes
    BY <1>1, <2>2 DEF Init, SessionTypes, OwnerTypes
  <2> QED
    BY <2>1, <2>3
<1>4. CommandTypes /\ EventTypes
  BY <1>1, <1>2, Constants DEF Init, CommandTypes, EventTypes
<1>5. Ordered(Flowing, events) /\ DownIsLast
  BY <1>1, <1>2 DEF Init, Ordered, DownIsLast
<1>6. ~ Serving
  BY <1>1 DEF Init, Serving, UpAfter, Flowing
<1>7. OrderInv
  BY <1>1, <1>5, <1>6 DEF Init, OrderInv, Places, Between, Waits
<1>8. EmitInv /\ ReplyInv
  BY <1>1 DEF Init, EmitInv, ReplyInv
<1>9. TypeOK
  BY <1>3, <1>4, TypeParts
<1> QED
  BY <1>7, <1>8, <1>9 DEF Inv

LEMMA InvStutters ==
  ASSUME Inv, UNCHANGED vars
  PROVE  Inv'
<1>1. UNCHANGED <<linkVars, commands, events, sessionVars, owner>>
  BY DEF vars
<1>2. CommandTypes /\ SessionTypes /\ OwnerTypes /\ ReplyInv
  BY Zenon, TypeParts DEF Inv
<1>3. session' = session /\ flows' = flows /\ replies' = replies /\ link' = link
  BY <1>1 DEF sessionVars, linkVars
<1>4. CommandTypes' /\ OwnerTypes' /\ SessionTypes' /\ ReplyInv'
  BY <1>1, <1>2, <1>3, SessionIdleTypes, RepliesUnchanged DEF CommandTypes, OwnerTypes
<1> QED
  BY <1>1, <1>3, <1>4, SessionWorks

LEMMA InvNext == Inv /\ [Next]_vars => Inv'
<1>1. SUFFICES ASSUME Inv, [Next]_vars PROVE Inv'
  OBVIOUS
<1>2. CASE Handshake \/ Pause \/ DiscardStale \/ Emit
  BY <1>1, <1>2, HandshakeStep, DiscardStaleStep, EmitStep
<1>3. CASE ReadData \/ ReadAck \/ TakeCommand \/ Fail \/ Leave \/ SpendWindow \/ BecomeHealthy
  BY <1>1, <1>3, ReadStep, TakeCommandStep, LeaveStep, TimerStep
<1>4. CASE HandleEvent \/ LinkGone \/ Dispatch \/ SendReply \/ DisconnectLink \/ Goes \/ SendChunk
  BY <1>1, <1>4, HandleEventStep, SessionEndsStep, SessionMovesStep, CommandsStep,
     DisconnectLinkStep DEF Goes
<1>5. CASE AskClose \/ CloseStreams \/ Proceed \/ OwnerDisconnects \/ Abort \/ SessionDead
  BY <1>1, <1>5, OwnerStep, SessionMovesStep, SessionEndsStep
<1>6. CASE UNCHANGED vars
  BY <1>1, <1>6, InvStutters
<1> QED
  BY <1>1, <1>2, <1>3, <1>4, <1>5, <1>6 DEF Next

LEMMA Invariant == Spec => []Inv
BY InvInit, InvNext, PTL DEF Spec

(* The variables of the link, of the session and of the owner keep their   *)
(* types, and both channels their capacity: no chunk of a session without  *)
(* flows gets into the channel of commands.                                *)
THEOREM LinkSessionTypeCorrect == Spec => []TypeOK
<1>1. Inv => TypeOK
  BY DEF Inv
<1> QED
  BY <1>1, Invariant, PTL

(* The session starts the flows of a generation only when it has none: the *)
(* "restarting" of the last one has always been handled, whatever was      *)
(* queued, refused or discarded in between (session/mod.rs, on_link_event). *)
THEOREM FlowsAreFresh == Spec => FlowsStartFresh
<1>1. ASSUME Inv, session = "select", events # <<>>, Head(events) = "established"
      PROVE  flows = "none"
  <2>1. Ordered(Flowing, events) /\ events \in Seq(Event) /\ Flowing \in BOOLEAN
    BY <1>1, TypeParts DEF Inv, OrderInv, EventTypes, Flowing
  <2>2. Joins(Flowing, Head(events))
    BY <1>1, <2>1, TailOrder
  <2> QED
    BY <1>1, <2>2 DEF Joins, Flowing
<1>2. Inv /\ [Next]_vars =>
        [session = "select" /\ events # <<>> /\ Head(events) = "established"
           /\ events' = Tail(events) /\ session' = "select" => flows = "none"]_vars
  BY <1>1
<1> QED
  BY <1>2, Invariant, PTL DEF Spec, FlowsStartFresh

(* The events of the link reach the session as generations: "data" and     *)
(* "restarting" only inside one, "established" only outside, and nothing    *)
(* after a "down", which only a link that has ended sends (Link::run).     *)
THEOREM EventsAreGenerations == Spec => []OrderInv
<1>1. Inv => OrderInv
  BY DEF Inv
<1> QED
  BY <1>1, Invariant, PTL
=============================================================================
