--------------------------- MODULE SdkConnection ----------------------------
(***************************************************************************)
(* One connection of the SDK (crates/sdk-runtime/src/connection.rs): tasks *)
(* call request and send_frame on clones of a Connection; one driver task  *)
(* owns the lanes, the link and the map of requests that wait for their    *)
(* response.  Callers and driver share a bounded channel of commands, and  *)
(* each call has a oneshot channel for its outcome.                        *)
(*                                                                         *)
(* A call is made once, and names its frame, the id of its request and its *)
(* oneshot.  Between two waits of the driver's select there is no await: a *)
(* wake, what it changes, and the admission of stalled frames that follows *)
(* are one step.  Of the scheduler only this is kept: a batch takes some   *)
(* of the frames, and at least one (which ones: see LaneScheduler).        *)
(***************************************************************************)
EXTENDS Integers, Sequences, FiniteSets

CONSTANTS
  Request,      \* calls of Connection::request
  Message,      \* calls of Connection::send_frame
  LaneOf,       \* [Message -> Lane]; a request goes on the Normal lane
  Unencodable,  \* calls whose frame O::encode refuses
  CmdCap,       \* CMD_CAP
  MaxLane,      \* max_lane_bytes, in frames
  ErrorLimit    \* INBOUND_ERROR_LIMIT

Lane == 1..3   \* Normal, Bulk, Background

Call == Request \cup Message

ASSUME ConnectionAssumption ==
  /\ Request \cap Message = {}
  /\ LaneOf \in [Message -> Lane]
  /\ Unencodable \subseteq Call
  /\ CmdCap \in Nat \ {0}
  /\ MaxLane \in Nat \ {0}
  /\ ErrorLimit \in Nat \ {0}

VARIABLES
  caller,    \* where each call is, or what it returned
  oneshot,   \* what its reply or ack channel holds
  cmds,      \* the command channel
  handles,   \* some clone of the Connection is left
  driver,    \* the driver task: "running", "closing", "gone"
  pending,   \* requests whose reply sender is in the map
  stalled,   \* frames that wait for room in their lane
  lanes,     \* the set of frames in each lane of the scheduler
  link,      \* "idle", "ready" or "writing"
  batch,     \* the frames being written
  errors,    \* inbound_errors
  reached,   \* requests the other end has and has not answered
  events     \* observation: responses that went to the event subscribers

vars == <<caller, oneshot, cmds, handles, driver, pending, stalled, lanes,
          link, batch, errors, reached, events>>

outbound == <<stalled, lanes, link, batch>>

\* What a call can return.
Returned == {"ok", "failed", "response", "timeout", "disconnected"}

Made(c) == caller[c] # "new"

Done(c) == caller[c] \in Returned

Command(kind, c) == [kind |-> kind, call |-> c]

FrameLane(c) == IF c \in Request THEN 1 ELSE LaneOf[c]

Elements(q) == {q[i] : i \in DOMAIN q}

Init ==
  /\ caller = [c \in Call |-> "new"]
  /\ oneshot = [c \in Call |-> "open"]
  /\ cmds = <<>>
  /\ handles = TRUE
  /\ driver = "running"
  /\ pending = {}
  /\ stalled = [l \in Lane |-> <<>>]
  /\ lanes = [l \in Lane |-> {}]
  /\ link = "idle"
  /\ batch = {}
  /\ errors = 0
  /\ reached = {}
  /\ events = {}

-----------------------------------------------------------------------------
(* The callers                                                              *)

\* request or send_frame is called: it waits for room in the channel.
Start(c) ==
  /\ handles
  /\ caller[c] = "new"
  /\ caller' = [caller EXCEPT ![c] = "sending"]
  /\ UNCHANGED <<oneshot, cmds, handles, driver, pending, outbound, errors, reached, events>>

Enqueue(c, kind) ==
  /\ driver # "gone"
  /\ Len(cmds) < CmdCap
  /\ cmds' = Append(cmds, Command(kind, c))

Submit(c) ==
  /\ caller[c] = "sending"
  /\ Enqueue(c, IF c \in Request THEN "request" ELSE "send")
  /\ caller' = [caller EXCEPT ![c] = "waiting"]
  /\ UNCHANGED <<oneshot, handles, driver, pending, outbound, errors, reached, events>>

\* The channel is closed: a call that was about to send is disconnected, one
\* that has timed out does not mind that its Cancel is not sent.
Refused(c) ==
  /\ driver = "gone"
  /\ caller[c] \in {"sending", "cancelling"}
  /\ caller' = [caller EXCEPT ![c] = IF @ = "sending" THEN "disconnected" ELSE "timeout"]
  /\ UNCHANGED <<oneshot, cmds, handles, driver, pending, outbound, errors, reached, events>>

Outcome(held) == IF held = "dropped" THEN "disconnected" ELSE held

Return(c) ==
  /\ caller[c] = "waiting"
  /\ oneshot[c] # "open"
  /\ caller' = [caller EXCEPT ![c] = Outcome(oneshot[c])]
  /\ UNCHANGED <<oneshot, cmds, handles, driver, pending, outbound, errors, reached, events>>

\* A variant that returns without telling the driver.
Timeout_NoCancel(c) ==
  /\ caller[c] = "waiting"
  /\ oneshot[c] = "open"
  /\ caller' = [caller EXCEPT ![c] = "timeout"]
  /\ oneshot' = [oneshot EXCEPT ![c] = "closed"]
  /\ UNCHANGED <<cmds, handles, driver, pending, outbound, errors, reached, events>>

\* A request's time is up and its reply has not come: the receiver is dropped.
Timeout(c) ==
  /\ caller[c] = "waiting"
  /\ oneshot[c] = "open"
  /\ caller' = [caller EXCEPT ![c] = "cancelling"]
  /\ oneshot' = [oneshot EXCEPT ![c] = "closed"]
  /\ UNCHANGED <<cmds, handles, driver, pending, outbound, errors, reached, events>>

\* The Cancel has found room in the channel.
SendCancel(c) ==
  /\ caller[c] = "cancelling"
  /\ Enqueue(c, "cancel")
  /\ caller' = [caller EXCEPT ![c] = "timeout"]
  /\ UNCHANGED <<oneshot, handles, driver, pending, outbound, errors, reached, events>>

\* The last clone is dropped; a call borrows the one it is made on.
DropHandles ==
  /\ handles
  /\ \A c \in Call : Made(c) => Done(c)
  /\ handles' = FALSE
  /\ UNCHANGED <<caller, oneshot, cmds, driver, pending, outbound, errors, reached, events>>

-----------------------------------------------------------------------------
(* Admission.  s, q, p, o, k are the stalled frames, the lanes, the pending *)
(* requests, the oneshots and the link as the wake has left them.           *)

Front(q, n) == Elements(SubSeq(q, 1, n))

\* How many frames admit takes off lane l: it looks at the lane before each.
Admitted(s, q, l) ==
  Cardinality({i \in DOMAIN s[l] :
                 Cardinality(q[l] \cup (Front(s[l], i - 1) \ Unencodable)) < MaxLane})

\* What taking frame c off its lane makes of its oneshot: a message is
\* acknowledged, a request that cannot be encoded loses its reply sender.
Acknowledged(c, held) ==
  IF c \in Message THEN (IF c \in Unencodable THEN "failed" ELSE "ok")
  ELSE IF c \in Unencodable /\ held = "open" THEN "dropped" ELSE held

\* request_capacity
Asked(q, k) == IF k = "idle" /\ \E l \in Lane : q[l] # {} THEN "ready" ELSE k

\* The inner loop of run: admit, request_capacity, until neither does anything.
Settle(s, q, p, o, k) ==
  LET taken == UNION {Front(s[l], Admitted(s, q, l)) : l \in Lane} IN
  /\ stalled' = [l \in Lane |-> SubSeq(s[l], Admitted(s, q, l) + 1, Len(s[l]))]
  /\ lanes' = [l \in Lane |-> q[l] \cup (Front(s[l], Admitted(s, q, l)) \ Unencodable)]
  /\ pending' = p \ (taken \cap Unencodable)
  /\ oneshot' = [c \in Call |-> IF c \in taken THEN Acknowledged(c, o[c]) ELSE o[c]]
  /\ link' = Asked(lanes', k)

-----------------------------------------------------------------------------
(* The driver's wakes                                                       *)

Running == driver = "running"

Stall(c) == [stalled EXCEPT ![FrameLane(c)] = Append(@, c)]

\* A variant that handles commands only while nothing is being written.
HandleCommand_BetweenWrites ==
  /\ Running
  /\ cmds # <<>>
  /\ link # "writing"
  /\ cmds' = Tail(cmds)
  /\ LET c == Head(cmds).call IN
     CASE Head(cmds).kind = "send" -> Settle(Stall(c), lanes, pending, oneshot, link)
       [] Head(cmds).kind = "request" ->
            Settle(Stall(c), lanes, pending \cup {c}, oneshot, link)
       [] Head(cmds).kind = "cancel" -> Settle(stalled, lanes, pending \ {c}, oneshot, link)
  /\ UNCHANGED <<caller, handles, driver, batch, errors, reached, events>>

HandleCommand ==
  /\ Running
  /\ cmds # <<>>
  /\ cmds' = Tail(cmds)
  /\ LET c == Head(cmds).call IN
     CASE Head(cmds).kind = "send" -> Settle(Stall(c), lanes, pending, oneshot, link)
       [] Head(cmds).kind = "request" ->
            Settle(Stall(c), lanes, pending \cup {c}, oneshot, link)
       [] Head(cmds).kind = "cancel" -> Settle(stalled, lanes, pending \ {c}, oneshot, link)
  /\ UNCHANGED <<caller, handles, driver, batch, errors, reached, events>>

\* The link has room: the scheduler composes a batch.
LinkReady ==
  /\ Running
  /\ link = "ready"
  /\ \E frames \in SUBSET UNION {lanes[l] : l \in Lane} :
       /\ frames # {}
       /\ batch' = frames
       /\ Settle(stalled, [l \in Lane |-> lanes[l] \ frames], pending, oneshot, "writing")
  /\ UNCHANGED <<caller, cmds, handles, driver, errors, reached, events>>

\* The batch is written: the other end gets its requests.
Written ==
  /\ Running
  /\ link = "writing"
  /\ batch' = {}
  /\ reached' = reached \cup (batch \cap Request)
  /\ Settle(stalled, lanes, pending, oneshot, "idle")
  /\ UNCHANGED <<caller, cmds, handles, driver, errors, events>>

\* The select is biased: the inbound half is read when no command waits.
Reading == Running /\ cmds = <<>> /\ handles

\* A variant that also shows the response to the subscribers.
Respond_Twice(c) ==
  /\ Reading
  /\ c \in reached
  /\ reached' = reached \ {c}
  /\ errors' = 0
  /\ events' = events \cup {c}
  /\ IF c \in pending
     THEN /\ pending' = pending \ {c}
          /\ oneshot' = [oneshot EXCEPT ![c] = IF @ = "open" THEN "response" ELSE @]
     ELSE UNCHANGED <<pending, oneshot>>
  /\ UNCHANGED <<caller, cmds, handles, driver, outbound>>

\* route_inbound for a response.  One whose caller has dropped its receiver
\* and whose Cancel has not arrived is lost; a later one is an event.
Respond(c) ==
  /\ Reading
  /\ c \in reached
  /\ reached' = reached \ {c}
  /\ errors' = 0
  /\ IF c \in pending
     THEN /\ pending' = pending \ {c}
          /\ oneshot' = [oneshot EXCEPT ![c] = IF @ = "open" THEN "response" ELSE @]
          /\ UNCHANGED events
     ELSE /\ events' = events \cup {c}
          /\ UNCHANGED <<pending, oneshot>>
  /\ UNCHANGED <<caller, cmds, handles, driver, outbound>>

\* A message that is no response: the errors before it are forgiven.
InboundEvent ==
  /\ Reading
  /\ errors' = 0
  /\ UNCHANGED <<caller, oneshot, cmds, handles, driver, pending, outbound, reached, events>>

\* A variant that counts one error too many.
InboundError_OneMore ==
  /\ Reading
  /\ errors + 1 <= ErrorLimit
  /\ errors' = errors + 1
  /\ UNCHANGED <<caller, oneshot, cmds, handles, driver, pending, outbound, reached, events>>

\* A message that cannot be decoded, below the limit.
InboundError ==
  /\ Reading
  /\ errors + 1 < ErrorLimit
  /\ errors' = errors + 1
  /\ UNCHANGED <<caller, oneshot, cmds, handles, driver, pending, outbound, reached, events>>

-----------------------------------------------------------------------------
(* The end of the driver                                                    *)

\* A variant of what the dropping of reply senders makes of the oneshots.
Orphaned_None(calls) == oneshot

\* The oneshots after the senders of these calls are dropped.
Orphaned(calls) ==
  [c \in Call |-> IF c \in calls /\ oneshot[c] = "open" THEN "dropped" ELSE oneshot[c]]

\* The loop is left: the link failed, the inbound half closed, failed or made
\* one error too many, or every handle is gone and every command handled.
\* pending.clear() and closed.send(true) follow.
Close ==
  /\ Running
  /\ \/ link # "idle"
     \/ Reading
     \/ ~ handles /\ cmds = <<>>
  /\ driver' = "closing"
  /\ pending' = {}
  /\ oneshot' = Orphaned(pending)
  /\ UNCHANGED <<caller, cmds, handles, outbound, errors, reached, events>>

\* A variant that leaves the acks of stalled frames undecided.
DropDriver_KeepsStalled ==
  /\ driver = "closing"
  /\ driver' = "gone"
  /\ cmds' = <<>>
  /\ stalled' = [l \in Lane |-> <<>>]
  /\ oneshot' = Orphaned({cmds[i].call : i \in DOMAIN cmds})
  /\ link' = "idle" /\ batch' = {}
  /\ lanes' = [l \in Lane |-> {}]
  /\ UNCHANGED <<caller, handles, pending, errors, reached, events>>

\* run returns: the stalled frames and the commands still in the channel are
\* dropped, and with them the acks and the reply senders they carry.
DropDriver ==
  /\ driver = "closing"
  /\ driver' = "gone"
  /\ cmds' = <<>>
  /\ stalled' = [l \in Lane |-> <<>>]
  /\ oneshot' = Orphaned({cmds[i].call : i \in DOMAIN cmds}
                         \cup UNION {Elements(stalled[l]) : l \in Lane})
  /\ link' = "idle" /\ batch' = {}
  /\ lanes' = [l \in Lane |-> {}]
  /\ UNCHANGED <<caller, handles, pending, errors, reached, events>>

-----------------------------------------------------------------------------
Step(c) == Submit(c) \/ Refused(c) \/ Return(c) \/ SendCancel(c)

Next ==
  \/ \E c \in Call : Start(c) \/ Step(c)
  \/ \E c \in Request : Timeout(c) \/ Respond(c)
  \/ DropHandles
  \/ HandleCommand \/ LinkReady \/ Written \/ InboundEvent \/ InboundError
  \/ Close \/ DropDriver

Spec == Init /\ [][Next]_vars

(* Fairness.  A caller that can move does; where several wait for room in   *)
(* the channel, tokio serves them first come, first served, hence SF.  A    *)
(* timer fires.  The driver handles the commands it has and, once it has    *)
(* left its loop, returns.  Nothing is said of the link or the other end:   *)
(* a write may hang, and a response may never come.                         *)
Fairness ==
  /\ \A c \in Call : SF_vars(Step(c))
  /\ \A c \in Request : WF_vars(Timeout(c))
  /\ WF_vars(HandleCommand) /\ WF_vars(DropDriver)

FairSpec == Spec /\ Fairness

-----------------------------------------------------------------------------
(* Properties                                                               *)

TypeOK ==
  /\ caller \in [Call -> {"new", "sending", "waiting", "cancelling"} \cup Returned]
  /\ oneshot \in [Call -> {"open", "ok", "failed", "response", "dropped", "closed"}]
  /\ cmds \in Seq([kind : {"send"}, call : Message]
                 \cup [kind : {"request", "cancel"}, call : Request])
  /\ Len(cmds) <= CmdCap
  /\ handles \in BOOLEAN
  /\ driver \in {"running", "closing", "gone"}
  /\ pending \subseteq Request
  /\ stalled \in [Lane -> Seq(Call)]
  /\ lanes \in [Lane -> SUBSET Call]
  /\ link \in {"idle", "ready", "writing"}
  /\ batch \subseteq Call
  /\ errors \in 0..(ErrorLimit - 1)
  /\ reached \subseteq Request
  /\ events \subseteq Request

CancelUnderWay(c) == \E i \in DOMAIN cmds : cmds[i] = Command("cancel", c)

(* No entry of pending leaks: its request still waits for it, or has timed  *)
(* out and its Cancel is on the way (request, HashMap pending).             *)
PendingAwaited ==
  \A c \in pending :
    \/ caller[c] = "waiting" /\ oneshot[c] = "open"
    \/ caller[c] = "cancelling"
    \/ CancelUnderWay(c)

(* A response that the subscribers of events see is one whose request has   *)
(* timed out: no response is delivered twice, or past its caller            *)
(* (route_inbound).                                                         *)
EventsAreLate == \A c \in events : caller[c] = "timeout"

(* Who waits, waits for something that can still come: the sender of an     *)
(* open oneshot is in the channel, in pending or with a stalled frame, so   *)
(* no call outlives the driver unanswered.                                  *)
WaitsForSomeone ==
  \A c \in Call : caller[c] = "waiting" /\ oneshot[c] = "open" =>
    \/ \E i \in DOMAIN cmds : cmds[i].call = c
    \/ c \in pending
    \/ c \in Message /\ c \in Elements(stalled[FrameLane(c)])

(* A request always returns, whatever becomes of the link and the peer.     *)
RequestsReturn == \A c \in Request : Made(c) ~> Done(c)

\* The transport neither completes nor refuses what it was asked.
LinkHangs == <>[](link = "ready") \/ <>[](link = "writing")

(* A message is admitted, refused or disconnected, unless the link hangs.   *)
MessagesReturn == LinkHangs \/ \A c \in Message : Made(c) ~> Done(c)
=============================================================================
