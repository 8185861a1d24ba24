-------------------------- MODULE Iap2LinkSession ---------------------------
(***************************************************************************)
(* The two tasks of one iAP2 connection and what is between them.  The     *)
(* link task (iap2/src/link/mod.rs, Link::run) shakes hands with the peer, *)
(* serves the established phase, and restarts in place when the peer       *)
(* resets it or its retransmissions run out.  The session task             *)
(* (iap2/src/session/mod.rs) speaks the control protocol over it, and owns *)
(* the chunker that sends what the external accessory streams write.       *)
(* Events go up and commands go down, each through a bounded channel; both *)
(* tasks wait for room.  Their owner is the manager of                     *)
(* core/src/bluetooth/iap2/mod.rs.                                         *)
(*                                                                         *)
(* Each completed handshake begins a generation of the link.  A chunk is   *)
(* "current" while the link is in the generation whose events its sender   *)
(* has seen last, and "stale" from the end of that generation.  The        *)
(* packets of an established phase are the subject of Iap2Established.     *)
(***************************************************************************)
EXTENDS Integers, Sequences

CONSTANTS
  CmdCap,    \* capacity of the channel of commands (IAP2_CHANNEL_CAPACITY)
  EvCap,     \* capacity of the channel of events (the same)
  Replies    \* the most chunks that the session sends about one event

ASSUME LinkSessionAssumption ==
  /\ CmdCap \in Nat \ {0}
  /\ EvCap \in Nat \ {0}
  /\ Replies \in Nat \ {0}

VARIABLES
  link,      \* where the link task is
  event,     \* the event it waits to send
  next,      \* where it goes then
  restart,   \* restart_window: "none", "running" or "spent"
  healthy,   \* the link is established since RESTART_HEALTHY_RESET
  window,    \* ages of the chunks that wait for an ack of this generation
  commands,  \* the channel of commands
  events,    \* the channel of events
  session,   \* where the session task is
  flows,     \* the age of its per-link state, "none" when it is reset
  replies,   \* chunks it has to send before it goes on
  told,      \* it has emitted SessionEvent::LinkDown
  owner      \* the ActiveSession of the manager

linkVars == <<link, event, next, restart, healthy, window>>
sessionVars == <<session, flows, replies, told>>
vars == <<linkVars, commands, events, sessionVars, owner>>

Disconnect == "disconnect"   \* Iap2Command; a Send is the age of its chunk

Init ==
  /\ link = "handshake"
  /\ event = "none"
  /\ next = "none"
  /\ restart = "none"
  /\ healthy = FALSE
  /\ window = {}
  /\ commands = <<>>
  /\ events = <<>>
  /\ session = "select"
  /\ flows = "none"
  /\ replies = 0
  /\ told = FALSE
  /\ owner = "up"

-----------------------------------------------------------------------------
(* The link task                                                            *)

\* events_tx.send(e).await, and then to place p.
Sends(e, p) ==
  /\ link' = "emitting"
  /\ event' = e
  /\ next' = p

\* A variant that does not wait for room.
Emit_Unbounded ==
  /\ link = "emitting"
  /\ events' = IF session = "ended" THEN events ELSE Append(events, event)
  /\ link' = next
  /\ event' = "none"
  /\ next' = "none"
  /\ UNCHANGED <<restart, healthy, window, commands, sessionVars, owner>>

\* There is room, or nobody to receive it.
Emit ==
  /\ link = "emitting"
  /\ \/ session = "ended" /\ UNCHANGED events
     \/ session # "ended" /\ Len(events) < EvCap /\ events' = Append(events, event)
  /\ link' = next
  /\ event' = "none"
  /\ next' = "none"
  /\ UNCHANGED <<restart, healthy, window, commands, sessionVars, owner>>

\* A variant that takes a handshake for health.
Negotiated_Heals ==
  /\ link = "handshake"
  /\ link' = "discarding"
  /\ window' = {}
  /\ restart' = "none"
  /\ healthy' = FALSE
  /\ UNCHANGED <<event, next, commands, events, sessionVars, owner>>

\* Detection and negotiation succeed: a new EstablishedState.
Negotiated ==
  /\ link = "handshake"
  /\ link' = "discarding"
  /\ window' = {}
  /\ healthy' = FALSE
  /\ UNCHANGED <<event, next, restart, commands, events, sessionVars, owner>>

\* The peer resets the handshake, within the restart budget.
HandshakeReset ==
  /\ link = "handshake"
  /\ restart = "running"
  /\ link' = "pausing"
  /\ UNCHANGED <<event, next, restart, healthy, window, commands, events, sessionVars, owner>>

\* It fails for good: timeout, closed stream, a packet that is no SYN, or a
\* reset out of budget.  The session hears of it by a LinkDown, or, when the
\* link was never up, by the end of the channel.
HandshakeFails ==
  /\ link = "handshake"
  /\ IF restart = "none"
     THEN link' = "ended" /\ UNCHANGED <<event, next>>
     ELSE Sends("down", "ended")
  /\ UNCHANGED <<restart, healthy, window, commands, events, sessionVars, owner>>

\* RESTART_PAUSE is over.
Pause ==
  /\ link = "pausing"
  /\ link' = "handshake"
  /\ UNCHANGED <<event, next, restart, healthy, window, commands, events, sessionVars, owner>>

\* No sender of commands is left.
NoSenders == session = "ended" /\ owner = "gone"

\* A variant that discards disconnects with the sends.
DiscardStale_All ==
  /\ link = "discarding"
  /\ IF commands # <<>>
     THEN commands' = Tail(commands) /\ UNCHANGED <<link, event, next>>
     ELSE Sends(IF NoSenders THEN "down" ELSE "established",
                IF NoSenders THEN "ended" ELSE "open")
          /\ UNCHANGED commands
  /\ UNCHANGED <<restart, healthy, window, events, sessionVars, owner>>

\* Once round the loop of discard_stale_commands, and local_disconnect when it
\* meets a disconnect.  Whoever waits for room in the channel may take it.
DiscardStale ==
  /\ link = "discarding"
  /\ IF commands # <<>>
     THEN /\ commands' = Tail(commands)
          /\ IF Head(commands) = Disconnect
             THEN Sends("down", "ended")
             ELSE UNCHANGED <<link, event, next>>
     ELSE /\ Sends(IF NoSenders THEN "down" ELSE "established",
                   IF NoSenders THEN "ended" ELSE "open")
          /\ UNCHANGED commands
  /\ UNCHANGED <<restart, healthy, window, events, sessionVars, owner>>

\* A packet with a payload is delivered.
ReadData ==
  /\ link = "open"
  /\ Sends("data", "open")
  /\ UNCHANGED <<restart, healthy, window, commands, events, sessionVars, owner>>

\* What was sent is acknowledged.
ReadAck ==
  /\ link = "open"
  /\ window # {}
  /\ window' = {}
  /\ UNCHANGED <<link, event, next, restart, healthy, commands, events, sessionVars, owner>>

\* A command, or the end of their channel.
TakeCommand ==
  /\ link = "open"
  /\ \/ /\ commands # <<>>
        /\ commands' = Tail(commands)
        /\ IF Head(commands) = Disconnect
           THEN Sends("down", "ended") /\ UNCHANGED window
           ELSE window' = window \cup {Head(commands)} /\ UNCHANGED <<link, event, next>>
     \/ /\ commands = <<>>
        /\ NoSenders
        /\ Sends("down", "ended")
        /\ UNCHANGED <<commands, window>>
  /\ UNCHANGED <<restart, healthy, events, sessionVars, owner>>

\* The stream ends or fails.
Fail ==
  /\ link = "open"
  /\ Sends("down", "ended")
  /\ UNCHANGED <<restart, healthy, window, commands, events, sessionVars, owner>>

Aged(age) == IF age = "current" THEN "stale" ELSE age

\* A variant that tells the session nothing.
Restarts_Silently(budget) ==
  /\ link' = "pausing"
  /\ restart' = IF budget = "none" THEN "running" ELSE budget
  /\ commands' = [i \in DOMAIN commands |-> Aged(commands[i])]
  /\ flows' = Aged(flows)
  /\ UNCHANGED <<event, next>>

Restarts(budget) ==
  /\ Sends("restarting", "pausing")
  /\ restart' = IF budget = "none" THEN "running" ELSE budget
  /\ commands' = [i \in DOMAIN commands |-> Aged(commands[i])]
  /\ flows' = Aged(flows)

\* The peer sends RST, or an unacknowledged packet has been resent for too
\* long: a restart in place, unless the window for restarts is over.
Leave ==
  /\ link = "open"
  /\ LET budget == IF healthy THEN "none" ELSE restart IN
     IF budget = "spent"
     THEN Sends("down", "ended") /\ restart' = budget /\ UNCHANGED <<commands, flows>>
     ELSE Restarts(budget)
  /\ UNCHANGED <<healthy, window, events, session, replies, told, owner>>

\* RESTART_BUDGET_WINDOW passes.
SpendWindow ==
  /\ restart = "running"
  /\ restart' = "spent"
  /\ UNCHANGED <<link, event, next, healthy, window, commands, events, sessionVars, owner>>

\* RESTART_HEALTHY_RESET passes, which is longer.
BecomeHealthy ==
  /\ link = "open"
  /\ restart # "running"
  /\ healthy' = TRUE
  /\ UNCHANGED <<link, event, next, restart, window, commands, events, sessionVars, owner>>

-----------------------------------------------------------------------------
(* The session task                                                         *)

\* It returns, or is aborted: what it owns is dropped, the chunker with it.
Ends ==
  /\ session' = "ended"
  /\ flows' = "none"
  /\ replies' = 0
  /\ events' = <<>>

\* A generation that began is over when the event of its end is on the way.
Behind(later) == "restarting" \in {later[i] : i \in DOMAIN later} \/ event = "restarting"

\* The flows of the new generation start; an EaFlow that is there is kept.
Established ==
  /\ flows' = IF flows # "none" THEN flows
              ELSE IF Behind(Tail(events)) THEN "stale" ELSE "current"
  /\ UNCHANGED <<session, replies>>

\* A control message is answered, and may end in a rejection or in an error.
Data ==
  /\ replies' \in 0..Replies
  /\ session' \in {"replying", "rejecting", "failing"}
  /\ UNCHANGED flows

\* The per-link state is reset, and the chunker aborted.
Restarting == flows' = "none" /\ UNCHANGED <<session, replies>>

\* The session says farewell to the HID component, if it still can.
Down == session' = "leaving" /\ replies' \in 0..1 /\ UNCHANGED flows

HandleEvent ==
  /\ session = "select"
  /\ events # <<>>
  /\ events' = Tail(events)
  /\ CASE Head(events) = "established" -> Established
       [] Head(events) = "data" -> Data
       [] Head(events) = "restarting" -> Restarting
       [] Head(events) = "down" -> Down
  /\ UNCHANGED <<linkVars, commands, told, owner>>

\* A variant that goes on without a link.
LinkGone_Ignored ==
  /\ session = "select"
  /\ events = <<>>
  /\ link = "ended"
  /\ UNCHANGED vars

\* The link task has exited, and its events are handled.
LinkGone ==
  /\ session = "select"
  /\ events = <<>>
  /\ link = "ended"
  /\ Ends
  /\ told' = TRUE
  /\ UNCHANGED <<linkVars, commands, owner>>

\* The select is biased: the session looks further when no event is there.
Free == session = "select" /\ events = <<>> /\ link # "ended" /\ flows # "none"

\* An application's command, a change of authority or a timer of a flow that
\* has started: one chunk to send.
Dispatch ==
  /\ Free
  /\ session' = "dispatching"
  /\ replies' = 1
  /\ UNCHANGED <<linkVars, commands, events, flows, told, owner>>

\* send_csm waits for room.
SendReply ==
  /\ replies > 0
  /\ link # "ended"
  /\ Len(commands) < CmdCap
  /\ commands' = Append(commands, flows)
  /\ replies' = replies - 1
  /\ UNCHANGED <<linkVars, events, session, flows, told, owner>>

\* The channel is closed: an error in a handler ends the session, what a
\* command, a farewell or the teardown of streams cannot send is logged.
ReplyRefused ==
  /\ replies > 0
  /\ link = "ended"
  /\ replies' = 0
  /\ session' = IF session \in {"replying", "rejecting"} THEN "failing" ELSE session
  /\ UNCHANGED <<linkVars, commands, events, flows, told, owner>>

\* Everything is sent.
Replied ==
  /\ session \in {"replying", "dispatching"}
  /\ replies = 0
  /\ session' = "select"
  /\ UNCHANGED <<linkVars, commands, events, flows, replies, told, owner>>

\* disconnect_link, after a rejection, which the loop outlives, and at the end
\* of a session in error, which tells its owner.
DisconnectLink ==
  /\ session \in {"rejecting", "failing"}
  /\ replies = 0
  /\ \/ link = "ended" /\ UNCHANGED commands
     \/ link # "ended" /\ Len(commands) < CmdCap /\ commands' = Append(commands, Disconnect)
  /\ IF session = "failing"
     THEN Ends /\ told' = TRUE
     ELSE session' = "select" /\ UNCHANGED <<events, flows, replies, told>>
  /\ UNCHANGED <<linkVars, owner>>

\* LinkDown is handled.
Farewell ==
  /\ session = "leaving"
  /\ replies = 0
  /\ Ends
  /\ told' = TRUE
  /\ UNCHANGED <<linkVars, commands, owner>>

\* The chunker sends a chunk of a stream.
SendChunk ==
  /\ flows # "none"
  /\ link # "ended"
  /\ Len(commands) < CmdCap
  /\ commands' = Append(commands, flows)
  /\ UNCHANGED <<linkVars, events, sessionVars, owner>>

-----------------------------------------------------------------------------
(* The owner                                                                *)

\* Shutdown of the daemon: the session is asked to close its streams.
AskClose ==
  /\ owner = "up"
  /\ owner' = "asking"
  /\ UNCHANGED <<linkVars, commands, events, sessionVars>>

CloseStreams ==
  /\ owner = "asking"
  /\ session = "select" /\ events = <<>> /\ link # "ended"
  /\ session' = "closing"
  /\ replies' \in IF flows = "none" THEN {0} ELSE 0..Replies
  /\ UNCHANGED <<linkVars, commands, events, flows, told, owner>>

StreamsClosed ==
  /\ session = "closing"
  /\ replies = 0
  /\ Ends
  /\ UNCHANGED <<linkVars, commands, told, owner>>

\* The streams are closed, or EA_CLOSE_GRACE is over.
Proceed ==
  /\ owner = "asking"
  /\ owner' = "disconnecting"
  /\ UNCHANGED <<linkVars, commands, events, sessionVars>>

OwnerDisconnects ==
  /\ owner = "disconnecting"
  /\ \/ link = "ended" /\ UNCHANGED commands
     \/ link # "ended" /\ Len(commands) < CmdCap /\ commands' = Append(commands, Disconnect)
  /\ owner' = "waiting"
  /\ UNCHANGED <<linkVars, events, sessionVars>>

\* The link has ended or LINK_TEARDOWN_GRACE is over: the session is aborted.
Abort ==
  /\ owner = "waiting"
  /\ owner' = "gone"
  /\ Ends
  /\ UNCHANGED <<linkVars, commands, told>>

\* The session has ended by itself: its ActiveSession is dropped.
SessionDead ==
  /\ owner = "up"
  /\ session = "ended"
  /\ owner' = "gone"
  /\ UNCHANGED <<linkVars, commands, events, sessionVars>>

-----------------------------------------------------------------------------
Handshake == Negotiated \/ HandshakeReset \/ HandshakeFails

Goes == ReplyRefused \/ Replied \/ Farewell \/ StreamsClosed

Next ==
  \/ Handshake \/ Pause \/ DiscardStale \/ Emit
  \/ ReadData \/ ReadAck \/ TakeCommand \/ Fail \/ Leave
  \/ SpendWindow \/ BecomeHealthy
  \/ HandleEvent \/ LinkGone \/ Dispatch
  \/ SendReply \/ DisconnectLink \/ Goes \/ SendChunk
  \/ AskClose \/ CloseStreams \/ Proceed \/ OwnerDisconnects \/ Abort \/ SessionDead

Spec == Init /\ [][Next]_vars

(* Fairness.  A task that can go on does, and a handshake has a timeout.     *)
(* The channel serves those who wait for room in turn, and the select of     *)
(* the established phase picks among its ready branches at random: hence     *)
(* SF.  Nothing is said of the peer, of the owner or of the applications.    *)
(* Writes to the transport are taken to return.                              *)
Fairness ==
  /\ WF_vars(Handshake) /\ WF_vars(Pause) /\ WF_vars(DiscardStale) /\ WF_vars(Emit)
  /\ SF_vars(TakeCommand) /\ WF_vars(SpendWindow)
  /\ WF_vars(HandleEvent) /\ WF_vars(LinkGone) /\ WF_vars(Goes)
  /\ SF_vars(SendReply) /\ SF_vars(DisconnectLink)

FairSpec == Spec /\ Fairness

-----------------------------------------------------------------------------
(* Properties                                                               *)

Age == {"current", "stale"}

TypeOK ==
  /\ link \in {"handshake", "pausing", "discarding", "open", "emitting", "ended"}
  /\ event \in {"none", "established", "data", "restarting", "down"}
  /\ next \in {"none", "open", "pausing", "ended"}
  /\ restart \in {"none", "running", "spent"}
  /\ healthy \in BOOLEAN
  /\ window \subseteq Age
  /\ commands \in Seq(Age \cup {Disconnect}) /\ Len(commands) <= CmdCap
  /\ events \in Seq({"established", "data", "restarting", "down"}) /\ Len(events) <= EvCap
  /\ session \in {"select", "replying", "rejecting", "failing", "dispatching", "leaving",
                  "closing", "ended"}
  /\ flows \in Age \cup {"none"}
  /\ replies \in 0..Replies
  /\ told \in BOOLEAN
  /\ owner \in {"up", "asking", "disconnecting", "waiting", "gone"}

(* The link waits to send an event, the session to send a command, and both *)
(* channels are full: neither will ever move.                               *)
Standoff ==
  /\ link = "emitting" /\ Len(events) = EvCap
  /\ session # "ended" /\ (replies > 0 \/ session \in {"rejecting", "failing"})
  /\ Len(commands) = CmdCap

(* The session starts the flows of a generation only after it has reset     *)
(* those of the one before: no EaFlow, with its chunker and the peer's old  *)
(* max_len, is carried over (session/mod.rs: `if self.ea.is_none()').       *)
FlowsStartFresh ==
  [][session = "select" /\ events # <<>> /\ Head(events) = "established"
       /\ events' = Tail(events) /\ session' = "select" => flows = "none"]_vars

(* A disconnect that was asked for takes the link down, also in the middle  *)
(* of a restart, except in a standoff (discard_stale_commands, the test     *)
(* a_disconnect_queued_while_restarting_still_takes_the_link_down).         *)
DisconnectHeeded ==
  (\E i \in DOMAIN commands : commands[i] = Disconnect) ~> (link = "ended" \/ Standoff)

(* However the link ends, the owner is told by the session, or has asked    *)
(* for the end itself (Link::run, run_inner).                               *)
EndIsTold == link = "ended" ~> (told \/ owner # "up")

(* A peer that resets the link again and again is given up on: restarts go  *)
(* on for ever only if the link is healthy again and again in between       *)
(* (restart_window, the test sustained_rst_flood_exhausts_the_restart_budget). *)
FloodEnds == ([]<>(link = "pausing")) => ([]<>healthy)

(* A chunk sent by the session or its streams while the link restarts is    *)
(* discarded: "the first data on a new generation is the new generation's,  *)
(* not the dead one's backlog" (iap2/tests/established.rs).                 *)
NoStaleSend == "stale" \notin window
=============================================================================
