--------------------------- MODULE OutboundLanes ----------------------------
(***************************************************************************)
(* The sending half of a connection (crates/sdk-runtime/src/sched.rs,      *)
(* OutboundLanes and LaneFeed): tasks send through a byte budget and a     *)
(* channel per lane; one writer task owns the feed, moves the channels to  *)
(* its LaneScheduler and writes the batches it composes.  The writer is    *)
(* chunker_task of crates/iap2/src/session/ea_transport.rs, which waits    *)
(* for room in the link between ready and take_batch; the other writers    *)
(* call next_batch, for which that wait is over at once.                   *)
(*                                                                         *)
(* An item holds its permits until its batch is composed.  The semaphores  *)
(* are tokio's: first come, first served, and never closed.                *)
(***************************************************************************)
EXTENDS LaneScheduler

CONSTANTS
  Sender,      \* tasks that hold a clone of the OutboundLanes
  UsedLanes,   \* the lanes they send on
  MaxLane      \* max_lane_bytes

ASSUME LanesAssumption == UsedLanes \subseteq Lane /\ MaxLane \in Nat \ {0}

VARIABLES
  free,    \* free[l]: available permits of the budget of lane l
  line,    \* line[l]: the senders that wait for permits, in order
  chan,    \* chan[l]: the items in the channel of lane l
  call,    \* call[s]: where sender s is in its call of send
  feed,    \* where the writer task is, "gone" once it has dropped the feed
  next     \* the lane that take_queued reads next, 4 when it has read all

vars == <<scheduler, free, line, chan, call, feed, next>>

Idle    == [at |-> "idle", lane |-> 1, len |-> 0]
Dropped == [at |-> "dropped", lane |-> 1, len |-> 0]

\* An item wider than the budget takes all of it, an empty one a permit.
Need(len) == Max({1, Least(len, MaxLane)})

Needs(items) == Bytes([i \in DOMAIN items |-> Need(items[i])])

Held(l) == queue[l] \o chan[l]

-----------------------------------------------------------------------------
(* OutboundLanes::send                                                      *)

Send(s, l, len) ==
  /\ call[s] = Idle
  /\ call' = [call EXCEPT ![s] = [at |-> "waiting", lane |-> l, len |-> len]]
  /\ line' = [line EXCEPT ![l] = Append(@, s)]
  /\ UNCHANGED <<scheduler, free, chan, feed, next>>

\* A variant that lets a small item pass a large one.
Acquire_AnyOrder(l) ==
  \E s \in {line[l][i] : i \in DOMAIN line[l]} :
    /\ free[l] >= Need(call[s].len)
    /\ free' = [free EXCEPT ![l] = @ - Need(call[s].len)]
    /\ line' = [line EXCEPT ![l] = SelectSeq(@, LAMBDA t : t # s)]
    /\ call' = [call EXCEPT ![s].at = "granted"]
    /\ UNCHANGED <<scheduler, chan, feed, next>>

Acquire(l) ==
  /\ line[l] # <<>>
  /\ LET s == Head(line[l])
     IN  /\ free[l] >= Need(call[s].len)
         /\ free' = [free EXCEPT ![l] = @ - Need(call[s].len)]
         /\ line' = [line EXCEPT ![l] = Tail(@)]
         /\ call' = [call EXCEPT ![s].at = "granted"]
  /\ UNCHANGED <<scheduler, chan, feed, next>>

\* tx.send: an error, and the permits back, when the feed is gone.
Deliver(s) ==
  /\ call[s].at = "granted"
  /\ call' = [call EXCEPT ![s] = Idle]
  /\ LET l == call[s].lane
     IN  IF feed = "gone"
         THEN /\ free' = [free EXCEPT ![l] = @ + Need(call[s].len)]
              /\ UNCHANGED chan
         ELSE /\ chan' = [chan EXCEPT ![l] = Append(@, call[s].len)]
              /\ UNCHANGED free
  /\ UNCHANGED <<scheduler, line, feed, next>>

DropHandle(s) ==
  /\ call[s] = Idle
  /\ call' = [call EXCEPT ![s] = Dropped]
  /\ UNCHANGED <<scheduler, free, line, chan, feed, next>>

-----------------------------------------------------------------------------
(* LaneFeed and the writer                                                  *)

\* take_queued, one channel at a time: senders go on meanwhile.
TakeQueued ==
  /\ feed \in {"ready", "take"}
  /\ next \in Lane
  /\ Push(next, chan[next])
  /\ chan' = [chan EXCEPT ![next] = <<>>]
  /\ next' = next + 1
  /\ UNCHANGED <<free, line, call, feed>>

Ready ==
  /\ feed = "ready"
  /\ next \notin Lane
  /\ feed' = IF Busy # {} THEN "reserve" ELSE "parked"
  /\ next' = 1
  /\ UNCHANGED <<scheduler, free, line, chan, call>>

\* The lanes whose channel has an item for a parked writer.
Waking == {l \in Lane : chan[l] # <<>>}

\* A variant that listens to the Normal lane only.
Receive_OneLane ==
  /\ feed = "parked"
  /\ 1 \in Waking
  /\ Push(1, <<Head(chan[1])>>)
  /\ chan' = [chan EXCEPT ![1] = Tail(@)]
  /\ feed' = "ready"
  /\ UNCHANGED <<free, line, call, next>>

\* The select of ready is biased to the higher lane.
Receive ==
  /\ feed = "parked"
  /\ Waking # {}
  /\ LET l == Min(Waking)
     IN  /\ Push(l, <<Head(chan[l])>>)
         /\ chan' = [chan EXCEPT ![l] = Tail(@)]
  /\ feed' = "ready"
  /\ UNCHANGED <<free, line, call, next>>

\* link_tx.reserve has returned.
LinkReady ==
  /\ feed = "reserve"
  /\ feed' = "take"
  /\ UNCHANGED <<scheduler, free, line, chan, call, next>>

\* A variant whose permits outlive their items.
TakeBatch_KeepsPermits ==
  /\ feed = "take"
  /\ next \notin Lane
  /\ NextBatch
  /\ feed' = "write"
  /\ UNCHANGED <<free, line, chan, call, next>>

\* take_batch drops the permits of the items it takes.
TakeBatch ==
  /\ feed = "take"
  /\ next \notin Lane
  /\ NextBatch
  /\ free' = [l \in Lane |-> free[l] + Needs(Taken(l))]
  /\ feed' = "write"
  /\ UNCHANGED <<line, chan, call, next>>

Written ==
  /\ feed = "write"
  /\ feed' = "ready"
  /\ next' = 1
  /\ UNCHANGED <<scheduler, free, line, chan, call>>

DropFeed ==
  /\ feed' = "gone"
  /\ queue' = [l \in Lane |-> <<>>]
  /\ credit' = [l \in Lane |-> 0]
  /\ waited' = [l \in Lane |-> 0]
  /\ chan' = [l \in Lane |-> <<>>]
  /\ free' = [l \in Lane |-> free[l] + Needs(Held(l))]
  /\ next' = 1
  /\ UNCHANGED <<line, call>>

\* ready returns false: every clone is dropped and the channels are empty.
Finish ==
  /\ feed = "parked"
  /\ \A s \in Sender : call[s] = Dropped
  /\ Waking = {}
  /\ DropFeed

\* The link is closed, the write fails, or the task is aborted where it waits.
Stop ==
  /\ feed \in {"parked", "reserve", "write"}
  /\ DropFeed

-----------------------------------------------------------------------------
Init ==
  /\ SchedulerInit
  /\ free = [l \in Lane |-> MaxLane]
  /\ line = [l \in Lane |-> <<>>]
  /\ chan = [l \in Lane |-> <<>>]
  /\ call = [s \in Sender |-> Idle]
  /\ feed = "ready"
  /\ next = 1

Writer ==
  \/ TakeQueued
  \/ Ready
  \/ Receive
  \/ LinkReady
  \/ TakeBatch
  \/ Written
  \/ Finish

Next ==
  \/ \E s \in Sender, l \in UsedLanes, len \in Lengths : Send(s, l, len)
  \/ \E l \in Lane : Acquire(l)
  \/ \E s \in Sender : Deliver(s) \/ DropHandle(s)
  \/ Writer
  \/ Stop

LanesSpec == Init /\ [][Next]_vars

\* tokio runs every task that can run, and the link takes what is written or
\* fails.
FairLanes ==
  /\ LanesSpec
  /\ WF_vars(Writer)
  /\ \A l \in Lane : WF_vars(Acquire(l))
  /\ \A s \in Sender : WF_vars(Deliver(s))

-----------------------------------------------------------------------------
(* Properties                                                               *)

Granted(l) == {s \in Sender : call[s].at = "granted" /\ call[s].lane = l}

Asked == [s \in Sender |-> Need(call[s].len)]

(* No permit is lost or made: what is not free is held by an item that      *)
(* waits for its batch or by a sender about to hand its item over, through  *)
(* oversized items, failed sends and the end of the feed.                   *)
PermitsBalance ==
  \A l \in Lane :
    free[l] + Needs(Held(l)) + SumFunctionOnSet(Asked, Granted(l)) = MaxLane

(* A send returns: no sender waits for ever behind small items, for an item *)
(* that can never fit, or on a feed that is gone.                           *)
SendReturns ==
  \A s \in Sender : (call[s].at = "waiting") ~> (call[s] = Idle)

(* The writer ends, its lanes written, once every sender is gone.           *)
FeedEnds == (\A s \in Sender : call[s] = Dropped) ~> (feed = "gone")
=============================================================================
