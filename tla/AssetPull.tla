------------------------------ MODULE AssetPull ------------------------------
(***************************************************************************)
(* The daemon pulls one asset from a companion.  The asker                 *)
(* (core/src/handler/client/asset.rs) binds a memory sink under a fresh id *)
(* and sends a request; the companion answers, and for a large asset then  *)
(* pushes its fragments under that id through a window of acks             *)
(* (companion/src/dispatch/asset.rs, delivery/core/src/transfer).  The     *)
(* daemon's one router task (core/src/handler/gateway/mod.rs) completes    *)
(* the pending request and feeds the sink; a reply that finds no pending   *)
(* request is collected by a task of its own, for the cache.               *)
(*                                                                         *)
(* Sizes, offsets and windows are counted in fragments.  Replies, abandons *)
(* and fragments go on three lanes of the link and overtake each other;    *)
(* each ack is sent by a task of its own, so acks arrive in any order.     *)
(* The daemon's tasks run in parallel: a step is what happens under one    *)
(* lock, or between two waits.                                             *)
(***************************************************************************)
EXTENDS Integers, Sequences, FiniteSets

CONSTANTS
  Sizes,     \* sizes an asset may have
  Windows,   \* what Pacer::window_bytes may return
  Cap        \* MEMORY_SINK_CAP

ASSUME PullAssumption ==
  /\ Sizes \subseteq Nat \ {0} /\ Sizes # {}
  /\ IsFiniteSet(Windows) /\ Windows \subseteq Nat \ {0} /\ Windows # {}
  /\ Cap \in Nat

Collector == {"asker", "late"}

VARIABLES
  at,        \* where the asker and the late collector are
  nudged,    \* their Notified has been notified
  result,    \* what each has in the end: "got", "nothing" or not yet "open"
  pending,   \* the request is in GatewayMan::pending
  reply,     \* what its oneshot holds
  sink,      \* the binding of the id in TransferSinks
  request,   \* the request on its way
  bulk,      \* the reply on its way, if any
  frags,     \* offsets of the fragments on their way
  abandon,   \* an Abandon is on its way
  acks,      \* acks on their way
  up,        \* the link is up
  hooked,    \* the daemon has handled the disconnect
  size,      \* of the asset, once resolved
  push,      \* where push_stream is
  offset,    \* stream_offset
  window,    \* the window the pacer chose for this fragment
  acked,     \* Entry::received
  beyond,    \* the ack await_window waits to see exceeded
  woken,     \* the pusher's Notified has been notified
  outbox,    \* the channel of fragments and the one its reader holds
  closed,    \* the reader of that channel has ended
  gaveUp     \* run() has failed

daemon == <<at, nudged, result, pending, reply, sink>>
wire == <<request, bulk, frags, abandon, acks>>
link == <<up, hooked>>
pusher == <<size, push, offset, window, acked, beyond, woken, outbox, closed, gaveUp>>

vars == <<daemon, wire, link, pusher>>

Unbound == [kind |-> "none", have |-> 0]
Memory(n) == [kind |-> "open", have |-> n]
Failed == [kind |-> "failed", have |-> 0]

Init ==
  /\ at = [a \in Collector |-> "idle"]
  /\ nudged = [a \in Collector |-> FALSE]
  /\ result = [a \in Collector |-> "open"]
  /\ pending = FALSE
  /\ reply = "open"
  /\ sink = Unbound
  /\ request = "none"
  /\ bulk = "none"
  /\ frags = <<>>
  /\ abandon = FALSE
  /\ acks = {}
  /\ up = TRUE
  /\ hooked = FALSE
  /\ size = 0
  /\ push = "idle"
  /\ offset = 0
  /\ window = 0
  /\ acked = 0
  /\ beyond = 0
  /\ woken = FALSE
  /\ outbox = <<>>
  /\ closed = FALSE
  /\ gaveUp = FALSE

-----------------------------------------------------------------------------
(* The asker: request_asset_body and GatewayMan::request                    *)

\* a ends with outcome r.
Ends(a, r) ==
  /\ at' = [at EXCEPT ![a] = "done"]
  /\ result' = [result EXCEPT ![a] = r]

\* The sink is bound and the request put on the map; the message for it waits
\* for room in the daemon's one outbound queue, without a timeout ...
Ask ==
  /\ at["asker"] = "idle"
  /\ at' = [at EXCEPT !["asker"] = "asking"]
  /\ sink' = Memory(0)
  /\ pending' = TRUE
  /\ UNCHANGED <<nudged, result, reply, wire, link, pusher>>

\* ... and once it is admitted REQUEST_TIMEOUT begins to run.
Admit ==
  /\ at["asker"] = "asking"
  /\ at' = [at EXCEPT !["asker"] = "waiting"]
  /\ request' = IF up THEN "sent" ELSE "lost"
  /\ UNCHANGED <<nudged, result, pending, reply, sink, bulk, frags, abandon, acks, link, pusher>>

\* The reply is here: an inline body or an error is final once the sink is
\* unbound, a stream is collected from it.
Answered ==
  /\ at["asker"] = "waiting"
  /\ reply # "open"
  /\ at' = [at EXCEPT !["asker"] = IF reply = "stream" THEN "collecting" ELSE "leaving"]
  /\ result' = [result EXCEPT !["asker"] = IF reply = "inline" THEN "got" ELSE @]
  /\ UNCHANGED <<nudged, pending, reply, sink, wire, link, pusher>>

\* REQUEST_TIMEOUT: the receiver of the oneshot is dropped ...
Expire ==
  /\ at["asker"] = "waiting"
  /\ reply = "open"
  /\ at' = [at EXCEPT !["asker"] = "expired"]
  /\ reply' = "deaf"
  /\ UNCHANGED <<nudged, result, pending, sink, wire, link, pusher>>

\* ... and the request taken off the map.
Forget ==
  /\ at["asker"] = "expired"
  /\ at' = [at EXCEPT !["asker"] = "leaving"]
  /\ pending' = FALSE
  /\ UNCHANGED <<nudged, result, reply, sink, wire, link, pusher>>

\* A variant that returns without unbinding.
Leave_Bound ==
  /\ at["asker"] = "leaving"
  /\ Ends("asker", IF result["asker"] = "got" THEN "got" ELSE "nothing")
  /\ UNCHANGED <<nudged, pending, reply, sink, wire, link, pusher>>

Leave ==
  /\ at["asker"] = "leaving"
  /\ Ends("asker", IF result["asker"] = "got" THEN "got" ELSE "nothing")
  /\ sink' = Unbound
  /\ UNCHANGED <<nudged, pending, reply, wire, link, pusher>>

-----------------------------------------------------------------------------
(* collect_memory, run by the asker or by cache_late_asset                  *)

\* A variant whose wake-up outlives the look it caused.
Look_KeepsNudge(a) ==
  /\ at[a] = "collecting"
  /\ \/ /\ size > Cap \/ sink.kind # "open" \/ sink.have > size
        /\ Ends(a, "nothing")
        /\ sink' = Unbound
     \/ /\ size <= Cap /\ sink = Memory(size)
        /\ Ends(a, "got")
        /\ sink' = Unbound
     \/ /\ size <= Cap /\ sink.kind = "open" /\ sink.have < size
        /\ at' = [at EXCEPT ![a] = "looked"]
        /\ UNCHANGED <<result, sink>>
  /\ UNCHANGED <<nudged, pending, reply, wire, link, pusher>>

\* Once round the loop: the Notified is enabled, and forgets what came before,
\* then the sink is looked at.  A body above the cap is refused at once.
Look(a) ==
  /\ at[a] = "collecting"
  /\ nudged' = [nudged EXCEPT ![a] = FALSE]
  /\ \/ /\ size > Cap \/ sink.kind # "open" \/ sink.have > size
        /\ Ends(a, "nothing")
        /\ sink' = Unbound
     \/ /\ size <= Cap /\ sink = Memory(size)
        /\ Ends(a, "got")
        /\ sink' = Unbound
     \/ /\ size <= Cap /\ sink.kind = "open" /\ sink.have < size
        /\ at' = [at EXCEPT ![a] = "looked"]
        /\ UNCHANGED <<result, sink>>
  /\ UNCHANGED <<pending, reply, wire, link, pusher>>

\* The lock is dropped and the Notified awaited.
Park(a) ==
  /\ at[a] = "looked"
  /\ at' = [at EXCEPT ![a] = "parked"]
  /\ UNCHANGED <<nudged, result, pending, reply, sink, wire, link, pusher>>

\* Notified: look again.
Resume(a) ==
  /\ at[a] = "parked"
  /\ nudged[a]
  /\ at' = [at EXCEPT ![a] = "collecting"]
  /\ UNCHANGED <<nudged, result, pending, reply, sink, wire, link, pusher>>

\* ASSET_STREAM_TIMEOUT
CollectTimeout(a) ==
  /\ at[a] = "parked"
  /\ ~ nudged[a]
  /\ Ends(a, "nothing")
  /\ sink' = Unbound
  /\ UNCHANGED <<nudged, pending, reply, wire, link, pusher>>

-----------------------------------------------------------------------------
(* The router: GatewayHandler::handle, and the disconnect hook              *)

\* A variant that wakes only a collector that is parked already.
Notify_ParkedOnly ==
  nudged' = [a \in Collector |-> nudged[a] \/ at[a] = "parked"]

\* progress.notify_waiters()
Notify == nudged' = [a \in Collector |-> nudged[a] \/ at[a] \in {"looked", "parked"}]

\* complete_pending, when the request is still in the map: a reply whose
\* receiver is gone is lost.
RouteReply ==
  /\ bulk # "none"
  /\ pending
  /\ pending' = FALSE
  /\ reply' = IF reply = "open" THEN bulk ELSE reply
  /\ bulk' = "none"
  /\ UNCHANGED <<at, nudged, result, sink, request, frags, abandon, acks, link, pusher>>

\* A reply past its request's timeout: cache_late_asset, and for a stream a
\* fresh sink first.
RouteLateReply ==
  /\ bulk # "none"
  /\ ~ pending
  /\ bulk' = "none"
  /\ CASE bulk = "stream" -> /\ sink' = Memory(0)
                             /\ at' = [at EXCEPT !["late"] = "collecting"]
                             /\ UNCHANGED result
       [] bulk = "inline" -> Ends("late", "got") /\ UNCHANGED sink
       [] bulk = "notfound" -> UNCHANGED <<at, result, sink>>
  /\ UNCHANGED <<nudged, pending, reply, request, frags, abandon, acks, link, pusher>>

\* A variant without the cap.
Consumes_NoCap(o) == sink.kind = "open" /\ sink.have = o

Consumes(o) == sink.kind = "open" /\ sink.have = o /\ o < Cap

\* TransferSinks::fragment: only a fragment that was consumed is acked.
RouteFragment ==
  /\ frags # <<>>
  /\ frags' = Tail(frags)
  /\ LET o == Head(frags) IN
     IF Consumes(o)
     THEN /\ sink' = Memory(o + 1)
          /\ acks' = IF up THEN acks \cup {o + 1} ELSE acks
     ELSE /\ sink' = IF sink = Unbound THEN Unbound ELSE Failed
          /\ UNCHANGED acks
  /\ IF sink = Unbound THEN UNCHANGED nudged ELSE Notify
  /\ UNCHANGED <<at, result, pending, reply, request, bulk, abandon, link, pusher>>

\* TransferSinks::abandon
RouteAbandon ==
  /\ abandon
  /\ abandon' = FALSE
  /\ sink' = IF sink = Unbound THEN Unbound ELSE Failed
  /\ IF sink = Unbound THEN UNCHANGED nudged ELSE Notify
  /\ UNCHANGED <<at, result, pending, reply, request, bulk, frags, acks, link, pusher>>

\* fail_pending_on_disconnect: the sender of the oneshot is dropped.
Disconnected ==
  /\ ~ up
  /\ ~ hooked
  /\ hooked' = TRUE
  /\ pending' = FALSE
  /\ reply' = IF pending /\ reply = "open" THEN "closed" ELSE reply
  /\ UNCHANGED <<at, nudged, result, sink, wire, up, pusher>>

-----------------------------------------------------------------------------
(* The companion: AssetDispatcher::request and push_stream                  *)

\* The request is answered, on the Bulk lane.  A stream is pushed once the
\* reply has been admitted or refused.
Answer ==
  /\ request = "sent"
  /\ request' = "answered"
  /\ \E kind \in {"inline", "stream", "notfound"} :
       /\ bulk' = IF up THEN kind ELSE "none"
       /\ IF kind = "stream"
          THEN size' \in Sizes /\ push' = "measure"
          ELSE UNCHANGED <<size, push>>
  /\ UNCHANGED <<daemon, frags, abandon, acks, link, offset, window, acked, beyond,
                 woken, outbox, closed, gaveUp>>

\* Once round the loop of FragmentStream::run: the pacer's window.
Measure ==
  /\ push = "measure"
  /\ window' \in Windows
  /\ push' = "window"
  /\ UNCHANGED <<daemon, wire, link, size, offset, acked, beyond, woken, outbox, closed, gaveUp>>

\* Once round the loop of await_window.
AwaitWindow ==
  /\ push = "window"
  /\ push' = IF offset < acked + window THEN "sending" ELSE "look"
  /\ beyond' = acked
  /\ UNCHANGED <<daemon, wire, link, size, offset, window, acked, woken, outbox, closed, gaveUp>>

\* wait_for_progress looks ...
LookForAck ==
  /\ push = "look"
  /\ push' = IF acked > beyond THEN "window" ELSE "enable"
  /\ UNCHANGED <<daemon, wire, link, size, offset, window, acked, beyond, woken,
                 outbox, closed, gaveUp>>

\* A variant whose wake-up outlives the look it caused.
EnableWake_Sticky ==
  /\ push = "enable"
  /\ push' = "recheck"
  /\ UNCHANGED <<daemon, wire, link, size, offset, window, acked, beyond, woken,
                 outbox, closed, gaveUp>>

\* ... enables its Notified, without a trace of earlier acks ...
EnableWake ==
  /\ push = "enable"
  /\ push' = "recheck"
  /\ woken' = FALSE
  /\ UNCHANGED <<daemon, wire, link, size, offset, window, acked, beyond, outbox, closed, gaveUp>>

\* A variant that trusts its first look.
Recheck_Skipped ==
  /\ push = "recheck"
  /\ push' = "parked"
  /\ UNCHANGED <<daemon, wire, link, size, offset, window, acked, beyond, woken,
                 outbox, closed, gaveUp>>

\* ... and looks again.
Recheck ==
  /\ push = "recheck"
  /\ push' = IF acked > beyond THEN "window" ELSE "parked"
  /\ UNCHANGED <<daemon, wire, link, size, offset, window, acked, beyond, woken,
                 outbox, closed, gaveUp>>

Wake ==
  /\ push = "parked"
  /\ woken
  /\ push' = "window"
  /\ UNCHANGED <<daemon, wire, link, size, offset, window, acked, beyond, woken,
                 outbox, closed, gaveUp>>

\* run() returns with an error: what is queued is still written.
Fails ==
  /\ push' = "draining"
  /\ gaveUp' = TRUE

\* ASSET_ACK_TIMEOUT
Stall ==
  /\ push = "parked"
  /\ ~ woken
  /\ Fails
  /\ UNCHANGED <<daemon, wire, link, size, offset, window, acked, beyond, woken, outbox, closed>>

\* A fragment goes into the channel; after the last run() returns.
SendFragment ==
  /\ push = "sending"
  /\ ~ closed
  /\ Len(outbox) < 2
  /\ outbox' = Append(outbox, offset)
  /\ offset' = offset + 1
  /\ push' = IF offset + 1 < size THEN "measure" ELSE "draining"
  /\ UNCHANGED <<daemon, wire, link, size, window, acked, beyond, woken, closed, gaveUp>>

\* SendError::SinkClosed
SendRefused ==
  /\ push = "sending"
  /\ closed
  /\ Fails
  /\ UNCHANGED <<daemon, wire, link, size, offset, window, acked, beyond, woken, outbox, closed>>

\* The writer hands its fragment to the connection, on the Background lane;
\* when it is refused the writer ends, and the channel with it.
WriteFragment ==
  /\ outbox # <<>>
  /\ outbox' = IF up THEN Tail(outbox) ELSE <<>>
  /\ closed' = ~ up
  /\ frags' = IF up THEN Append(frags, Head(outbox)) ELSE frags
  /\ UNCHANGED <<daemon, request, bulk, abandon, acks, link, size, push, offset, window, acked,
                 beyond, woken, gaveUp>>

\* The writer has drained the channel: the window is closed, and a push that
\* gave up is abandoned.
Finish ==
  /\ push = "draining"
  /\ outbox = <<>>
  /\ push' = "done"
  /\ abandon' = (gaveUp /\ up)
  /\ UNCHANGED <<daemon, request, bulk, frags, acks, link, size, offset, window, acked, beyond,
                 woken, outbox, closed, gaveUp>>

\* The window is open: its entry is in the map.
Open == push \in {"measure", "window", "look", "enable", "recheck", "parked", "sending"}

\* A variant that takes the last ack for the furthest one.
NoteAck_Last(n) ==
  /\ n \in acks
  /\ acks' = acks \ {n}
  /\ acked' = IF Open THEN n ELSE acked
  /\ woken' = (woken \/ (Open /\ push \in {"recheck", "parked"}))
  /\ UNCHANGED <<daemon, request, bulk, frags, abandon, link, size, push, offset, window, beyond,
                 outbox, closed, gaveUp>>

\* AckWindow::note
NoteAck(n) ==
  /\ n \in acks
  /\ acks' = acks \ {n}
  /\ acked' = IF Open /\ n > acked THEN n ELSE acked
  /\ woken' = (woken \/ (n > acked /\ push \in {"recheck", "parked"}))
  /\ UNCHANGED <<daemon, request, bulk, frags, abandon, link, size, push, offset, window, beyond,
                 outbox, closed, gaveUp>>

\* The link breaks: of each lane some messages were read, the rest are lost.
LoseLink ==
  /\ up
  /\ up' = FALSE
  /\ request' \in {request, IF request = "sent" THEN "lost" ELSE request}
  /\ bulk' \in {bulk, "none"}
  /\ \E n \in 0..Len(frags) : frags' = SubSeq(frags, 1, n)
  /\ abandon' \in {abandon, FALSE}
  /\ acks' = {}
  /\ UNCHANGED <<daemon, hooked, pusher>>

-----------------------------------------------------------------------------
Asker == Answered \/ Forget \/ Leave

Collect(a) == Look(a) \/ Park(a) \/ Resume(a)

Router == RouteReply \/ RouteLateReply \/ RouteFragment \/ RouteAbandon

Walk ==
  \/ Measure \/ AwaitWindow \/ LookForAck \/ EnableWake \/ Recheck \/ Wake
  \/ SendFragment \/ SendRefused \/ Finish

Next ==
  \/ Ask \/ Admit \/ Expire \/ Asker
  \/ \E a \in Collector : Collect(a) \/ CollectTimeout(a)
  \/ Router \/ Disconnected
  \/ Answer \/ Walk \/ Stall \/ WriteFragment
  \/ \E n \in acks : NoteAck(n)
  \/ LoseLink

Spec == Init /\ [][Next]_vars

(* Fairness.  A task that can go on does, a timer fires, and a connection    *)
(* that is up admits what the writer sends.  Nothing obliges the outbound    *)
(* queue to admit the request, the companion to answer, messages or acks to  *)
(* arrive, the router to be reached, or the disconnect to be noticed.        *)
Fairness ==
  /\ WF_vars(Asker) /\ WF_vars(Expire)
  /\ \A a \in Collector : WF_vars(Collect(a)) /\ WF_vars(CollectTimeout(a))
  /\ WF_vars(Walk) /\ WF_vars(Stall) /\ WF_vars(WriteFragment)

FairSpec == Spec /\ Fairness

-----------------------------------------------------------------------------
(* Properties                                                               *)

DaemonType ==
  /\ at \in [Collector -> {"idle", "asking", "waiting", "expired", "leaving", "collecting",
                           "looked", "parked", "done"}]
  /\ nudged \in [Collector -> BOOLEAN]
  /\ result \in [Collector -> {"open", "got", "nothing"}]
  /\ pending \in BOOLEAN
  /\ reply \in {"open", "deaf", "closed", "inline", "stream", "notfound"}
  /\ sink \in [kind : {"none", "open", "failed"}, have : 0..Cap]

WireType ==
  /\ request \in {"none", "sent", "lost", "answered"}
  /\ bulk \in {"none", "inline", "stream", "notfound"}
  /\ frags \in Seq(Nat)
  /\ abandon \in BOOLEAN
  /\ acks \subseteq Nat
  /\ up \in BOOLEAN /\ hooked \in BOOLEAN

PusherType ==
  /\ size \in Sizes \cup {0}
  /\ push \in {"idle", "measure", "window", "look", "enable", "recheck", "parked", "sending",
               "draining", "done"}
  /\ offset \in Nat
  /\ window \in Windows \cup {0}
  /\ acked \in Nat /\ beyond \in Nat
  /\ woken \in BOOLEAN
  /\ outbox \in Seq(Nat) /\ Len(outbox) <= 2
  /\ closed \in BOOLEAN
  /\ gaveUp \in BOOLEAN

TypeOK == DaemonType /\ WireType /\ PusherType

(* A collector that waits has seen all there is to see, or has been woken:  *)
(* the body that is whole, or the failure, is not left to the timeout       *)
(* (collect_memory).                                                        *)
NoProgressMissed ==
  \A a \in Collector :
    at[a] = "parked" /\ ~ nudged[a] => sink.kind # "failed" /\ sink # Memory(size)

(* A pusher that waits for an ack beyond what it saw has not been given one *)
(* already: no ack is lost between the looks of wait_for_progress.          *)
NoAckMissed == push = "parked" /\ ~ woken => acked <= beyond

(* Acks that overtake each other never take the window back, and no more    *)
(* than a window is under way unacknowledged (await_window, AckWindow::note). *)
WindowHeld ==
  /\ push = "sending" => offset < acked + window
  /\ \A w \in Windows : (\A v \in Windows : v <= w) => offset <= acked + w

(* A sink is bound only while someone is there to unbind it, and a request  *)
(* is pending only while its asker is: after the pull neither map keeps the *)
(* id, however timeout, reply and disconnect fall (bindings, pending).      *)
NothingLeaks ==
  /\ sink # Unbound =>
       \/ at["asker"] \notin {"idle", "done"}
       \/ at["late"] \in {"collecting", "looked", "parked"}
  /\ pending => at["asker"] \in {"asking", "waiting", "expired"}

(* The asker waits for ever for room in the outbound queue, which its       *)
(* router drains no faster than the slowest transport takes (send_all).     *)
Crowded == <>[](at["asker"] = "asking")

(* The asker returns, whatever becomes of companion and link, unless it is  *)
(* kept waiting for room in the outbound queue (request_with_id_priority,   *)
(* collect_memory).                                                         *)
PullReturns == Crowded \/ (at["asker"] = "asking" ~> at["asker"] = "done")

(* So does the pusher, also when the daemon has ceased to ack.              *)
PushEnds == push = "measure" ~> push = "done"
=============================================================================
