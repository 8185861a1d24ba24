--------------------------- MODULE LaneScheduler ----------------------------
(***************************************************************************)
(* The three-lane scheduler that every writer of the system composes its   *)
(* batches with (crates/sdk-runtime/src/sched.rs, LaneScheduler).  An item *)
(* is its length: nothing else of it is looked at.  A lane's byte counter  *)
(* changes in push and pop only, with the queue: here it is LaneBytes.     *)
(***************************************************************************)
EXTENDS Integers, FiniteSets, SequencesExt

CONSTANTS
  MaxBatch,    \* max_batch_bytes
  Reserve,     \* LANE_RESERVE: the percentages of the lanes
  Lengths,     \* lengths of items
  QueueBound   \* bound on the items of a lane

Lane == 1..3   \* Normal, Bulk, Background: a smaller number goes first

ASSUME SchedulerAssumption ==
  /\ MaxBatch \in Nat \ {0}
  /\ Reserve \in [Lane -> Nat]
  /\ Lengths \subseteq Nat
  /\ QueueBound \in Nat

VARIABLES
  queue,    \* queue[l]: the items of lane l, oldest first
  credit,   \* credit[l]: bytes lane l has banked while it was passed over
  waited    \* observation: batches composed since lane l's head became its head

scheduler == <<queue, credit, waited>>

Least(a, b) == IF a <= b THEN a ELSE b

Bytes(items) == FoldLeft(LAMBDA sum, len : sum + len, 0, items)

LaneBytes(l) == Bytes(queue[l])

Busy == {l \in Lane : queue[l] # <<>>}

\* Integer division, and never nothing.
Allowance(l) == Max({1, (MaxBatch * Reserve[l]) \div 100})

-----------------------------------------------------------------------------
(* Composition of a batch.  A draft is what is left in the lanes and the    *)
(* bytes the batch holds so far.                                            *)

\* The number of items of q that a batch of `bytes' takes before one exceeds
\* the ceiling: as many as there are prefixes of q that fit.
Fitting(q, bytes, ceiling) ==
  Cardinality({k \in DOMAIN q : bytes + Bytes(SubSeq(q, 1, k)) <= ceiling})

Fill(draft, l, ceiling) ==
  LET n == Fitting(draft.queue[l], draft.bytes, ceiling)
  IN  [queue |-> [draft.queue EXCEPT ![l] = SubSeq(@, n + 1, Len(@))],
       bytes |-> draft.bytes + Bytes(SubSeq(draft.queue[l], 1, n))]

\* A variant in which the ceiling ignores the share.
FillShare_NoShare(draft, l) == Fill(draft, l, MaxBatch)

FillShare(draft, l) ==
  Fill(draft, l, Least(draft.bytes + Allowance(l), MaxBatch))

\* A variant in which an idle lane's share is not passed on.
FillRest_OwnShare(draft, l) == FillShare(draft, l)

FillRest(draft, l) == Fill(draft, l, MaxBatch)

\* The lanes whose credit pays for their head.
Owed == {l \in Busy : credit[l] >= Head(queue[l])}

\* The highest lane that is owed, else the highest that has anything.
SeedLane == Min(IF Owed # {} THEN Owed ELSE Busy)

Seeded == [queue |-> [queue EXCEPT ![SeedLane] = Tail(@)],
           bytes |-> Head(queue[SeedLane])]

\* The two passes over the lanes, the higher first.
Shared(draft) == FillShare(FillShare(FillShare(draft, 1), 2), 3)
Filled(draft) == FillRest(FillRest(FillRest(draft, 1), 2), 3)

Served(l) == Len(queue'[l]) < Len(queue[l])

\* Variants that forget to bank, or charge a served lane for its head.
Settle_BanksNothing == credit' = [l \in Lane |-> 0]
Settle_Spends ==
  credit' = [l \in Lane |-> IF Served(l) THEN credit[l] - Head(queue[l])
                            ELSE credit[l] + Allowance(l)]

\* A lane that was passed over with something to send banks its share.
Settle ==
  credit' = [l \in Lane |-> IF Served(l) \/ queue'[l] = <<>> THEN 0
                            ELSE credit[l] + Allowance(l)]

-----------------------------------------------------------------------------
SchedulerInit ==
  /\ queue = [l \in Lane |-> <<>>]
  /\ credit = [l \in Lane |-> 0]
  /\ waited = [l \in Lane |-> 0]

Push(l, items) ==
  /\ queue' = [queue EXCEPT ![l] = @ \o items]
  /\ UNCHANGED <<credit, waited>>

NextBatch ==
  /\ Busy # {}
  /\ \E seeded \in {Seeded} :
       \E shared \in {Shared(seeded)} :
         \E full \in {Filled(shared)} : queue' = full.queue
  /\ Settle
  /\ waited' = [l \in Lane |-> IF Served(l) \/ queue'[l] = <<>> THEN 0
                               ELSE waited[l] + 1]

SchedulerNext ==
  \/ \E l \in Lane, len \in Lengths :
       Len(queue[l]) < QueueBound /\ Push(l, <<len>>)
  \/ NextBatch

Spec == SchedulerInit /\ [][SchedulerNext]_scheduler

-----------------------------------------------------------------------------
TypeOK ==
  /\ queue \in [Lane -> Seq(Lengths)]
  /\ credit \in [Lane -> Nat]
  /\ waited \in [Lane -> Nat]

(* No lane starves, whatever the lanes above it are fed: its head leaves    *)
(* within the batches that bank its length, and a few more in which a lane  *)
(* above is owed as well: one for Bulk, three for Background.  (With items  *)
(* of no bytes, or batches of one byte, a lane can be owed for ever.)       *)
Patience(l, len) ==
  (len + Allowance(l) - 1) \div Allowance(l) + <<0, 1, 3>>[l]

BoundedWait == \A l \in Busy : waited[l] <= Patience(l, Head(queue[l]))

\* What the batch of a NextBatch step takes from lane l.
Taken(l) == SubSeq(queue[l], 1, Len(queue[l]) - Len(queue'[l]))

BatchBytes == Bytes(Taken(1) \o Taken(2) \o Taken(3))

(* Nothing that fits stays behind: the share an idle lane leaves goes to    *)
(* whichever lane can use it.                                               *)
BatchFull ==
  [][NextBatch => \A l \in Lane : queue'[l] # <<>> =>
                    BatchBytes + Head(queue'[l]) > MaxBatch]_scheduler

(* A lane gets its share in every batch in which the seed leaves the shares *)
(* of the lanes above it, and its head, room: however long the queues of    *)
(* those lanes are.                                                         *)
SharesAbove(l) == Bytes(SubSeq(<<Allowance(1), Allowance(2)>>, 1, l - 1))

ShareHeld ==
  [][NextBatch => \A l \in Busy :
       /\ Head(queue[l]) <= Allowance(l)
       /\ Head(queue[SeedLane]) + SharesAbove(l) + Head(queue[l]) <= MaxBatch
       => Served(l)]_scheduler
=============================================================================
