# Bridgething: models and proofs

Bridgething turns a car display (the "thing") into an open platform. A daemon on the device
(`crates/core`) talks to phones over Bluetooth, to the web apps on its screen over local
sockets, and to companion programs that push media, blobs and updates to it. This directory
holds TLA+ models of the parts whose correctness depends on the order of events, the TLC
instances that check them, and proofs checked by TLAPS.

Run a model with `tlc -config <X>.cfg <MC module>.tla`, and the proofs with `tlapm` on `SumLemmas.tla`
and on each `*Proofs.tla`. `PROJECT.json` lists the runs, the theorems, what each definition
models, and the hazards the properties are about.

## 1. The system

| component | state | operations | interacts with |
|---|---|---|---|
| iAP2 link, established phase (`iap2/src/link/established.rs`, `mod.rs` 363-446, `frame.rs`) | send window, send queue, out-of-order buffer, last PSN each way, owed ack, retransmit deadline | data, ack, EAK and RST packets; Send and Disconnect commands; retransmit timer | the peer over a byte stream; sessions above by two channels |
| iAP2 link supervisor (`iap2/src/link/mod.rs` 62-361, 454-475) | restart window, read buffer | detect, negotiate, restart, give up | the established phase; the session, by an events and a commands channel |
| iAP2 sessions (`iap2/src/session`, `csm`, `core/src/bluetooth/iap2`) | flows of the link's generation, streams | link events, control messages, commands, shutdown by the owner | link, MFi chip, the daemon's player |
| Chunked transfer store (`core/src/transfer/actor.rs`) | transfers, pending acknowledgements, bytes counted; `.partial` and `.meta` files | begin, chunk, abandon, hash completed, begin verified, sweep, bootstrap | blob store and OTA (callers), hash tasks, the disk |
| Fragment transfer (`delivery/core/src/transfer`, `core/src/transfer/sinks.rs`) | ack window per transfer, pacer, bindings, spool | send a stream of fragments, note an ack, bind, collect, abandon | both ends of a gateway; feeds the transfer store |
| Outbound lanes (`sdk-runtime/src/sched.rs`, `iap2/src/session/ea_transport.rs`) | three priority lanes with byte budgets, channels and credits | send, take queued items, compose a batch, write, drop | every connection's writer, the SDK driver |
| SDK connection driver (`sdk-runtime/src/connection.rs`) | pending requests, stalled frames, a lane scheduler, link phase | send, request, cancel, inbound message, batch written, close | every client, gateway and companion |
| Peer registry (`core/src/peer.rs`), authority election (`core/src/authority`) | peers, pending requests, claims with times | request, response, claim, release, drop | handlers, player |
| Player, routes, telephony, web apps (`core/src/player`, `core/src/state`) | current state and persisted records | merge of reports, route and install operations | handlers, storage |
| Device OTA (`core/src/ota`) | streaming or writing state, staged pieces, slots | begin, fragment, write, swap, cancel | transfer store, range proxy, updater |
| Delivery service (`delivery/core/src/ota`, `serve`, `session`) | OTA runs, tunnel routes | run, resume, watch, route | daemon over gateway, stores |
| Companion engine (`companion/src`) | providers, arbiter, caches, sessions | dispatch, arbitration, voice | daemon, music services |
| Protocol, signal processing, bindings, apps | - | encoding, numeric code, user interface | - |

### What is hard

* **Lost, repeated and late packets.** The link drops a packet whose checksum is wrong and
  recovers with cumulative acks, EAKs and a timer. PSNs are `u8`: every comparison is modulo
  256, and correctness needs every late packet and every late ack to be classified right.
* **Work that outlives its cause.** A file is hashed by a spawned task that reports by id;
  meanwhile the actor handles an abandon, an eviction or a new begin of that id.
* **Restarts.** A file, its sidecar and the actor's memory are changed by separate steps; a
  power cut, a failed write or a write that fails behind the caller's back leaves them apart.
* **Timeouts that race answers**: requests of the SDK driver and of the daemon, the stall of an
  ack window, stale authority claims.
* **Wake-ups.** Collectors and pushers look at shared state, drop its lock, and wait on a
  `Notify`: what happens in between must not be missed, and must not wake them twice.
* **Generations.** A link restarts in place under a session that has not heard of it yet; what
  was sent, queued or started before must not leak into the next generation.
* **Everything bounded**: window, channels, lanes, spool, disk budget. Each end of the link is
  one task that both reads and writes, so two full transports block both ends; link and session
  wait for room in each other's channels.

`PROJECT.json` lists these under `hazards`, each at its line, with the properties that cover it
or the reason why none does yet.

### What makes each component correct

* link: each chunk is delivered once, in order; no chunk is forgotten while the link is up;
  the window is held; a lost packet is retried.
* supervisor and session: nothing of one generation reaches the next; a disconnect is heeded;
  the owner learns of every end; a flood of resets is given up on.
* store: a file reported complete is the file described; every caller is answered; a resume
  offset lies in the file; the budget's accounting is exact.
* lanes: no lane starves; a batch is no larger than allowed and no emptier than need be; a send
  returns; a lane holds no more than its budget.
* SDK driver: one outcome for each request; no entry leaks; nothing waits after close.
* fragment transfer: the sender is never more than a window ahead of the acks; no wake-up is lost;
  a stalled sender ends; nothing stays bound to a transfer that is over.
* authority: at most one primary, and one that holds a live claim.
* OTA: a device always has a slot that boots; a run resumes where it stopped.

## 2. Modules

| module | role |
|---|---|
| `OrderedStream` | abstract: two streams of chunks, each delivered a prefix at a time |
| `Iap2Established` | both ends of the link's established phase and the transport |
| `MCIap2Established` | windows, PSNs and submissions for TLC |
| `Iap2EstablishedProofs` | TLAPS proofs |
| `TransferStore` | the chunked transfer actor, its seal tasks, its disk, restarts |
| `MCTransferStore` | artifacts and chunks for TLC |
| `TransferStoreProofs` | TLAPS proofs |
| `LaneScheduler` | composition of batches from three lanes: shares, seeds, credit |
| `OutboundLanes` | extends it with the senders, their budgets and channels, and the writer task |
| `MCLaneScheduler`, `MCOutboundLanes` | percentages and senders for TLC |
| `LaneSchedulerProofs`, `OutboundLanesProofs` | TLAPS proofs; the second extends the first |
| `SdkConnection` | callers and driver of one SDK connection |
| `MCSdkConnection` | calls and their lanes for TLC |
| `SdkConnectionProofs` | TLAPS proofs |
| `AssetPull` | the daemon pulls one asset from a companion: request, late reply, fragments, acks |
| `MCAssetPull` | its instance for TLC |
| `AssetPullProofs` | TLAPS proofs |
| `Iap2LinkSession` | link task, session task and owner of one iAP2 connection, over a coarse established phase |
| `MCIap2LinkSession` | its instance for TLC |
| `Iap2LinkSessionProofs` | TLAPS proofs |
| `SumLemmas` | sums over finite sets, for the proofs of the store and the lanes |

Definitions whose names end in an underscore and a word (`Covers_Swapped`) are mutants: the
definition that follows with one plausible mistake. Each property of a passing run is shown to
fail under one of them, so none holds by the shape of the model.

### Iap2Established

Each end is one task that loops over: decode all packets read; `drain_pending_send`, then
`send_standalone_ack` when an ack is still owed; `select` over a read, a command and the retransmit
deadline. `stage` is the place in that loop. The branch an end takes in the `select` commits it: an end
that has read must decode, and what decodes to an answer waits for room to write it; an end whose timer
fired ("resend") waits for room to write the packet again, and until it has neither reads nor
looks at a timer. A packet in the transport and one in the read buffer are both in `chan`.

| action | code |
|---|---|
| `Read` | the read of the `select` completes |
| `DecodeData`, `DecodeAck`, `DecodeEak`, `DecodeRst` | one turn of the decode loop, `mod.rs` 381-409, with `handle_inbound_ack`, `handle_inbound_data`, `handle_inbound_eak`, `send_eak` |
| `DropCorrupt` | `LinkCodec::decode` skips a packet |
| `Flush` | `drain_pending_send` and `send_standalone_ack` |
| `Send`, `Disconnect` | `Iap2Command` |
| `RetransmitFire`, `Resend` | `handle_retransmit_fire` up to its `write_all`, and that write |
| `GiveUp` | `handle_retransmit_fire` when its budget is spent |
| `WriteRst` | the RST of `local_disconnect`, or of `run` after `GiveUp` |

`must_send_ack` and `unacked_delivery` are only read as a disjunction (`needs_ack`) and cleared
together; they are the one variable `owesAck`. A retransmission sends the bytes of the first
transmission, so a packet in `unacked` keeps its ack field. `out_of_order` is a function from all
PSNs with `None` where the map has no key. `Modulus` stands for 256 and `Half` for the 127 of
`handle_inbound_ack`. The RTT estimator decides only when the timer fires; here an armed timer
may fire at any time. `submitted` and `delivered` are observations: no guard reads `delivered`,
and `submitted` only bounds the run.

Assumed of the transport: bytes arrive in order (an RFCOMM stream), and a checksum catches every
corruption. A corruption that hits the marker or the length loses more than one packet; that is a
sequence of `DropCorrupt`.

Properties: `TypeOK`; `TimerGuardsUnacked`, `WindowHeld`, `BufferedAhead`, `AckedWasDelivered`;
`StreamSpec`, that the link implements `OrderedStream` with `submitted`, `delivered` and `up` as
they are; `Delivery`, liveness; `EakListsEveryGap`.

`Delivery` has one exception beside the end of the link, and names it: `Jammed`, where both directions
of the transport are full, both ends wait in `write_all`, and neither reads, whatever each has to write:
data, an ack, an EAK, the packets an EAK asks for, or the packet its timer resends. TLC reaches it, also
with one end in "resend" and the other about to answer what it has read: an end is one task that does not
poll its read half or its timers while it writes. An end that waits to write while the other one still
reads is not jammed, and `Delivery` says that it gets through.

### TransferStore

The actor handles one command at a time; `begin_fresh` and `bootstrap` take several steps here
(`fresh`, `booting`) because a seal task or a crash may come in between, and no command is handled
until they end. A file is a sequence of blocks, and its digest is that sequence.

| action | code |
|---|---|
| `BeginVerify`, `BeginFresh` | `handle_begin`, `begin_fast_path` |
| `Evict`, `FinishFresh`, `FailFresh` | `evict_until_under`, `begin_fresh` |
| `AcceptChunk`, `FailChunk` | `handle_chunk`, `handle_chunk_write` |
| `SealFile` | the spawned task: `seal` |
| `HashCompleted`, `BeginVerified` | the handlers of its report |
| `Abandon` | `handle_abandon`, `abandon_matching`, `sweep_stale` |
| `Take` | `BlobStore::place` renames the completed file |
| `Crash`, `Recover` | a restart; `bootstrap`, `load_recovered_transfer`, `sweep_unreferenced` |

`completing` and `verifying` are the two maps of pending acknowledgements; a call is named by
the number of its seal. `answer` observes what each was told ("dropped" is an acknowledgement
dropped unanswered, which its caller reads as `ActorClosed`, "lost" one that died with the
daemon). `last_touched_unix` is abstracted: any live transfer may be the oldest or stale, which
allows more than the code does. Commands that are refused change nothing and are not steps. A deletion always succeeds here,
except that of the old file in `begin_fresh`, where a failure shows (`FailFresh`).

tokio's `File` writes in the background, so a failed write may be reported by its own
`write_all`, by the next one or by `flush`: `FailChunk` leaves the chunk counted or not. A failed
write of a sidecar leaves the old one or a cut one, and a cut one is deleted by bootstrap together
with its file, as if there were none. A crash may cut one file and one sidecar anywhere: only the
seal syncs them.

Assumed of the callers, from `core/src/ota/mod.rs` and `core/src/state/blobs.rs`: chunks are not
empty; the owner moves a completed file away only when it has no other call on that id.

Properties: `TypeOK`; `TotalIsReceived`, `PendingHasSeal`, `NoCallerDropped`, `CompleteIsVerified`,
`ResumeWithinFile`; `AnsweredByVerifiedFile` (about steps); `CallersAnswered` (liveness).

`CompleteIsVerified` speaks of the first restart only. `load_recovered_transfer` finds a completed file
torn and marks the transfer incomplete in memory, but leaves the sidecar, which still says complete; a
chunk can then fill the file with other bytes, and after a second restart file and sidecar agree
again on a file nobody hashed. It does no harm by itself, because a Begin of a complete transfer
always hashes the file again before it answers: `AnsweredByVerifiedFile` holds over any number of restarts.

### LaneScheduler and OutboundLanes

An item is its length. `NextBatch` is `next_batch` as a whole: the seed (`Seeded`: the highest lane
whose credit pays for its head, else the highest that has anything), a pass that gives each lane
its share (`FillShare`), a pass that gives away what is left (`FillRest`), and `Settle`, where a
lane that was passed over banks its share and a served or empty one banks nothing. `Lane::bytes`
changes with the queue only and is the operator `LaneBytes`. `waited` observes how many batches a
lane's head has seen leave.

`BoundedWait` is the promise behind the test `a_saturated_normal_lane_cannot_starve_the_lanes_below`,
with a number: the head leaves after the batches in which its lane banks its length,
`ceil(len / share)`, and at most 0, 1 or 3 batches more for Normal, Bulk and Background. The extra
ones are batches whose seed goes to a higher lane that is owed as well: Normal, passed over for
a Bulk seed, may be owed next; then Bulk, for a small head, once more. It holds for
items of at least one byte, which frames are since they have a header. An empty item makes its
lane owed always, and then TLC finds a lane below waiting for ever; so it does for batches of
one byte, while the code uses 4 KiB and more.

`OutboundLanes` composes the scheduler with its users. A call of `send` waits in the line of its
lane's semaphore (`Send`, `Acquire`) and then puts its item into the channel (`Deliver`), two steps
between which others move. The writer goes through `ready` (`TakeQueued` per lane, `Ready`,
`Receive`), the wait for the link (`LinkReady`), `take_batch` (`TakeQueued`, `TakeBatch`) and the write
(`Written`). It is `chunker_task`; the writers of `rfcomm` and `network`, which call `next_batch`, are
the case where the link is ready at once. `Stop` drops the feed wherever the task waits.

| action | code |
|---|---|
| `Send`, `Acquire`, `Deliver`, `DropHandle` | `OutboundLanes::send`, drop of a clone |
| `TakeQueued`, `Ready`, `Receive`, `Finish` | `LaneFeed::ready`, `take_queued` |
| `LinkReady`, `TakeBatch`, `Written` | `chunker_task`, `take_batch` |
| `Stop` | the link closes, a write fails, `EaChunker` is dropped |

Assumed of tokio: `Semaphore` serves its waiters first come, first served; dropping a receiver drops the
items in it. A send is not cancelled while it waits: no caller in `src/` does that.

Properties: `TypeOK`, `BoundedWait`; `BatchFull`, `ShareHeld` (about steps); `PermitsBalance`;
`SendReturns`, `FeedEnds` (liveness).

### SdkConnection

`Connection::request` and `send_frame` are called on clones of a connection; one driver task owns
everything else. A call is made once and stands for its frame, its request id and its oneshot
channel. The driver awaits only in its `select`, so a wake, what it changes and the inner loop of
`admit` and `request_capacity` that follows are one step (`Settle`). Of the scheduler the model keeps
which frames a lane holds; a batch is any non-empty set of them, which allows what `LaneScheduler` does.

| action | code |
|---|---|
| `Start`, `Submit`, `Refused` | the call sends its command, or finds the channel closed |
| `Return`, `Timeout`, `SendCancel` | the rest of `request` and `send_frame` |
| `DropHandles` | the last clone of `Connection` is dropped |
| `HandleCommand` | `Command::Send`, `Request`, `Cancel`; `stall`, `admit` |
| `LinkReady`, `Written` | the arms of the outbound half: `next_batch`, `BatchWritten` |
| `Respond`, `InboundEvent`, `InboundError` | `route_inbound`, and messages that cannot be decoded |
| `Close`, `DropDriver` | the loop is left; `run` returns and drops what it owns |

`oneshot` says what a reply or ack channel holds: "dropped" when its sender was dropped unused,
"closed" when its receiver was. `events` and `reached` are an observation and the other end:
a response comes once for each request that was written, or never. A call runs to its end: a `request`
whose future its caller drops sends no `Cancel` (`connection.rs` 176-203), so its entry stays until a
response or the end of the driver; that is not modelled, and `PendingAwaited` does not speak of it.

Properties: `TypeOK`; `PendingAwaited`, `EventsAreLate`, `WaitsForSomeone`; `RequestsReturn`,
`MessagesReturn` (liveness). `MessagesReturn` excepts a transport that neither completes nor refuses a
write: a message has no timeout, a request has.

### AssetPull

From end to end: the asker in the daemon (`request_asset_body`), its request (`gateway_man`), the
companion's answer and `push_stream`, fragments under an ack window, the daemon's router with its
sinks, and the task that collects a late reply for the cache (`cache_late_asset`). Both collectors
run `collect_memory` on the same id. Sizes, offsets and windows are counted in fragments. The three
lanes of the link are `bulk`, `frags` and `abandon`, which overtake each other; each ack is sent by
a task of its own, so `acks` is a set.

| action | code |
|---|---|
| `Ask`, `Answered`, `Expire`, `Forget`, `Leave` | `request_asset_body`, `request_with_id_priority` |
| `Admit` | `send_all`: the outbound queue takes the request |
| `Look`, `Park`, `Resume`, `CollectTimeout` | `collect_memory`: enable, look, drop the lock, wait |
| `RouteReply`, `RouteLateReply` | `complete_pending`, `cache_late_asset` |
| `RouteFragment`, `RouteAbandon` | `TransferSinks::fragment` and its ack, `abandon` |
| `LoseLink`, `Disconnected` | the connection breaks; `fail_pending_on_disconnect` |
| `Answer` | `AssetDispatcher::request` |
| `Measure`, `AwaitWindow`, `SendFragment`, `SendRefused` | `FragmentStream::run`, `Pacer`, `await_window` |
| `LookForAck`, `EnableWake`, `Recheck`, `Wake`, `Stall`, `NoteAck` | `wait_for_progress`, `AckWindow::note` |
| `WriteFragment`, `Finish` | the writer of `LinkPush`, the end of `push_stream` |

`nudged` and `woken` say that a `Notified` has been notified. `notify_waiters` reaches those that have
enabled theirs ("looked", "parked", "recheck") and nobody else; that is why the code looks again
after it has enabled. A request that timed out leaves the receiver of its oneshot dropped ("deaf")
before it takes itself off the map, and a reply between the two is lost, as in the code.

Properties: `TypeOK`; `NoProgressMissed`, `NoAckMissed`, `WindowHeld`, `NothingLeaks`; `PullReturns`,
`PushEnds` (liveness).

Between `Ask` and `Admit` the asker waits, without a timeout, for room in the daemon's outbound queue of 64
(`bluetooth/mod.rs` 634-639); `REQUEST_TIMEOUT` begins to run at `Admit`. The queue is drained by one
router, which waits for the queue of the transport it sends to, so a slow peer can hold it up.
`PullReturns` therefore has one exception, and names it: `Crowded`, an asker that is never admitted. While
it waits, its sink stays bound and its request on the map, also when the peer disconnects
(`NothingLeaks` allows both, as somebody is there to undo them).

### Iap2LinkSession

`Link::run` and `Iap2Session::run_inner` are two tasks joined by two bounded channels, and their owner
(`core/src/bluetooth/iap2/mod.rs`) shuts them down. Each completed handshake begins a generation of
the link. A chunk and a flow are "current" or "stale": `Restarts` ages all of them at once, and
`Behind` says that the session handles an event of a generation that is over already. The
handshake is one outcome, and of the established phase only what leaves it, what it delivers and
whose chunks it has in its window are kept.

| action | code |
|---|---|
| `Negotiated`, `HandshakeReset`, `HandshakeFails`, `Pause` | the handshake in `Link::run`, `RESTART_PAUSE` |
| `DiscardStale` | `discard_stale_commands`, `local_disconnect` |
| `Emit` | every `events_tx.send(..).await` of the link |
| `ReadData`, `ReadAck`, `TakeCommand`, `Fail` | `established_phase` |
| `Leave`, `SpendWindow`, `BecomeHealthy` | the restart budget of `Link::run` |
| `HandleEvent`, `LinkGone`, `Dispatch`, `CloseStreams` | the biased `select` of `run_inner` |
| `SendReply`, `ReplyRefused`, `Replied`, `DisconnectLink`, `Farewell`, `StreamsClosed` | `send_csm`, `disconnect_link` and the ends of the handlers |
| `SendChunk` | `chunker_task` |
| `AskClose`, `Proceed`, `OwnerDisconnects`, `Abort`, `SessionDead` | `close_ea_sessions`, `shutdown`, `handle_session_dead` |

Properties: `TypeOK`; `FlowsStartFresh` (about steps); `DisconnectHeeded`, `EndIsTold`, `FloodEnds`
(liveness); `NoStaleSend`, which does not hold (finding 4).

`DisconnectHeeded` excepts one state, the `Standoff`: the link waits to send an event into a full
channel, the session waits to send a command into a full channel, and so neither reads. Both
waits are without a timeout. TLC reaches it; the owner's shutdown aborts the session, which ends it.

## 3. Runs and bounds

| run | instance | shows |
|---|---|---|
| `iap2_one_way` | 8 PSNs, window 3, four chunks one way, two losses, fair | type, timer, window, buffer, no forgotten chunk, implements `OrderedStream`, `Delivery` |
| `iap2_late_ack` | six chunks one way and one the other, over more than half a lap, one loss | finding 1 |
| `iap2_eak` | 10 PSNs, window 5, two losses | finding 2 |
| `store_crash` | two ids, files of one and two blocks, two calls, one failed write, one restart | the store's accounting and its files |
| `store_calls` | two ids, hashed and unhashed, budget 1, two calls, one failed write, late seals, fair | each call answered, by the actor |
| `store_late_seal` | two ids, one kind of file, two calls | finding 3 |
| `lane_scheduler` | batches of 10, items of 1, 4, 8 and 12, two in each lane | `BoundedWait`; room and shares of a batch |
| `outbound_lanes` | two senders, Normal and Background, budget 2, items of 1 and 5, batches of 4, fair | permits; sends return, the writer ends |
| `sdk_connection` | two requests, two messages of which one cannot be encoded, channel and lanes of one, two errors, fair | one outcome for each call, no leak, every call returns |
| `asset_pull` | assets of 2 and 4 fragments, cap 3, windows 1 and 2, fair | wake-ups, window, no leak, the pusher ends, an admitted asker returns |
| `link_session` | channels of two, two chunks about an event, fair | generations, disconnects, ends, resets |
| `stale_send` | the same | finding 4 |

PSNs. What matters is that PSNs wrap within a run, that the window is smaller than half a lap
and that a packet can be late by more than half a lap in the run about that. With 8 PSNs,
`Half` 4 and window 3, four chunks that start at `Modulus - 3` wrap; a window of 3 has a head, a
middle and a tail, so that a gap, a buffered packet and a run of two occur. `ChanBound` limits the
packets under way; a writer waits for room, as `write_all` does. `LossBound` 2 allows a packet
and its retransmission, or a packet and the EAK about it, to be lost. In the code a lap
is 256 and windows are at most 127 in the tests, with the same relation between them.

`AckedWasDelivered` and `StreamSpec` hold as long as an end that is sent data sends no more than half a
lap itself (`StreamFits` of `Iap2EstablishedProofs`, section 5); past that the first fails, which is
finding 1. A stream one way has no such limit.

Store. Two ids are enough for an eviction of another transfer, and for the id itself to be begun
anew. A budget of 2 blocks forces evictions. Two blocks give a file that is partly there, torn,
or wrong in either block. Two calls cover a hash that fails and what is begun or verified after it.
`LateSeals` FALSE keeps an id from being begun anew while an old seal of it runs: it separates
what holds always from finding 3. That callers are answered holds with late seals as well, and
`store_calls` has them.

Lanes. With batches of 10 the shares are 7, 2 and 1. Lengths below a share, above it, above what a seed
leaves and above a whole batch each occur, and a lane of two items can be refilled between any
two batches, so that no lane need ever be empty: saturation needs no long queue. `QueueBound` is not
used by `OutboundLanes`, whose queues are bounded by the budgets. Senders there send without end.

SDK driver. With room for one command and one frame in a lane, callers wait for the channel and
frames stall behind each other; the messages are on the lane of the requests and on another one,
and the one that cannot be encoded is the one that shares theirs. An error limit of two tells
an error that is forgiven from one that closes.

Pull. A cap of 3 lies between the sizes, so that a body is collected, refused at once, or fails in the
sink. Sizes of 2 and 4 with windows of 1 and 2 make the window close once and several times, and the
window shrink under what is in flight. One pull has one id; ids are fresh in the code.

Link and session. Channels of two fill up with two chunks, or with one and a disconnect, and the
link has a second event to send while the first is not handled. The code has 16 for each, which a
stream's chunker alone can fill.

`CHECK_DEADLOCK FALSE` except for the scheduler: an idle link and an idle store may rest for
ever, the bounded applications stop submitting, a connection and a pull end.

### Fairness

Link: strong fairness of `Read` (a read that can complete now and again does) and of
`RetransmitFire` (the deadline of a pending sleep stays due across turns of an unbiased `select`), weak
fairness of `Decode`, `Flush` and `Resend`: an end that is committed to one of them takes it once there is
room, and room, once there, stays until the end itself writes. None for `Send`, `Disconnect`, `GiveUp`,
`WriteRst` or loss. Losses are bounded, so a packet gets through in the end.

Lanes: weak fairness of the writer's steps, of a semaphore that has the permits for its first waiter and
of a sender that has its permits (tasks that can run do). The writer's steps include the end of a
write and of the wait for the link: `SendReturns` is about a transport that takes or refuses what
is written, and a send can indeed wait as long as a write hangs. No fairness for sending.

Store: weak fairness of begin's and bootstrap's own steps and of the seal tasks; strong fairness of
handling a report, because it waits in the actor's FIFO channel while other commands, each a
bounded piece of work, go first.

SDK driver: strong fairness of a caller's own steps, as tokio's channel serves those who wait in turn;
weak fairness of timers, of handling commands, and of the return of `run` once its loop is left. None for
the link or the other end.

Pull: weak fairness of the asker, the collectors, the pusher and its writer, with their timers. None
for `Admit`, for the router, for messages and acks, for the companion's answer or the disconnect. The
asker, once its request is admitted, needs only its own timers. The pusher needs more than its
timers: the weak fairness of `WriteFragment` assumes that a connection that is up admits what the writer
sends, as `SendReturns` shows of the lanes over a transport that takes or refuses what is written.

Link and session: weak fairness of each task's steps, strong fairness of sends into the commands channel
and of `TakeCommand` (a `select` that picks at random among ready branches). None for
the peer, the owner and the applications. Writes to the transport are taken to return.

## 4. Findings

1. **A stale ack on a retransmission can acknowledge a packet the peer never received**
   (`iap2/src/link/established.rs` 421 and 316, `iap2_late_ack`). Retransmissions repeat the ack field
   of the first transmission; half a lap later it reads as a new ack. With one lost packet the sender forgets a
   chunk and the stream stalls there; with `LossBound = 0` TLC finds no violation in that instance. A test says that ack lag "only costs bandwidth".
2. **An EAK across the wrap omits gaps** (`iap2/src/link/established.rs` 275, `iap2_eak`). The
   numerically largest buffered PSN is not the furthest one. Recovery then waits for the timer.
3. **A seal's report is matched by id only** (`core/src/transfer/actor.rs` 418 and 258,
   `store_late_seal`). The digest of an abandoned upload can complete the next upload under that id,
   whatever its bytes. A log line says that such a report is discarded.
4. **A chunk of a dead generation can be sent in the next** (`iap2/src/link/mod.rs` 454, `stale_send`).
   Commands are discarded once, by what the channel holds then; a session or a chunker that waits for room in
   it, or that has not handled `LinkRestarting` yet, puts its chunk in afterwards. A test
   (`iap2/tests/established.rs` 331 and 370) says that such sends never reach the next generation.

## 5. Proofs

`Iap2EstablishedProofs` proves, for every modulus (even, at least 4), windows, initial PSNs and bounds
allowed by `LinkAssumption`:

* `TypeCorrect == Spec => []TypeOK`. The only arithmetic that can leave the type is that of PSNs;
  the lemmas on `Plus` and `Ahead` say that they are closed on `Psn`.
* `WindowCorrect == Spec => [](TimerGuardsUnacked /\ WindowHeld)`. The conjunction is inductive
  together with `TypeOK`. An ack pops a prefix of `unacked` and disturbs neither `lastSent` nor the
  distance of the rest from it; `Flush` appends PSNs that follow `lastSent`, moving it by as many.
  The arithmetic is the lemmas `Division` and `WrapDifference`: subtraction modulo
  `Modulus` undoes addition. Steps of the other end, and steps that leave the sender alone, are one
  lemma.
* `BufferAhead == Spec => []BufferedAhead`, from `BufferInv`: every buffered PSN is two or more ahead of the last
  one delivered, and less than a window ahead.
* `AckedDelivered` and `StreamImplemented`: what the sender forgets has been delivered, and the link implements
  `OrderedStream`. `StreamInv` is `TypeOK` with one `Direction` for each end, which numbers the chunks of a stream
  without wrapping and says where each number may be: what the sender keeps to send again (`SendInv`), what
  the receiver has delivered (`RecvInv`) and buffered (`KeptInv`), the data on the wire, which was sent and is
  less than a window behind all that will have been received when it arrives (`Wire`), the acks on the
  wire (`Acks`), and the acks that retransmissions will repeat (`OldAcks`).

`TypeCorrect`, `WindowCorrect` and `BufferAhead` ask nothing of the window but that it is below the
modulus, so they hold even for a peer that advertises a window beyond half a lap; what such a window breaks
is the classification of acks. The last two theorems therefore assume `StreamFits`: windows of at
most half a lap, and an end that is sent data itself sends at most half a lap of its own. The code
enforces neither. The second is where the retransmitted ack of finding 1 begins to be misread, so it cannot be dropped:
`iap2_late_ack` is an instance beyond it. For a one-way stream both hold with any number
of laps.

`Iap2LinkSessionProofs` proves, for channels of any capacity and any bounds:

* `LinkSessionTypeCorrect`, and `FlowsAreFresh == Spec => FlowsStartFresh`. The events of the link are a word:
  each generation begins with an Established, goes on with its data and is over with a Restarting, and a Down is
  the last of all. `OrderInv` reads that word off three places at once, the flows of the session, the channel
  and the place of the link task, which may be about to send the next event. `EmitInv` says where the link
  goes after each event, `ReplyInv` that what waits to be sent belongs to some generation.
* `EventsAreGenerations == Spec => []OrderInv`: the word itself.

`TransferStoreProofs` proves, for any ids, artifacts, chunks and budget, and any number of calls, failed
writes and restarts:

* `StoreTypeCorrect`; `StorePendingHasSeal`, from `PendingInv`: no acknowledgement is pending for a
  transfer that `begin_fresh` or `bootstrap` is about to make, and one that is pending has a seal of
  its own that has not reported. Late seals are included.
* `StoreNoCallerDropped`, when no chunk is empty (`ChunksHaveBlocks`): only a chunk that fills the file starts a
  hash, so no second acknowledgement can take the place of the first.
* `StoreResumeWithinFile`, over any number of restarts that tear files.
* `StoreTotalIsReceived`, from `SumInv`: `total` is the sum over the transfers that are known, which are finitely many
  even if the ids are not. This is the lemmas of `SumLemmas`: what a sum over a finite set does when an element joins,
  leaves or changes.
* `StoreAnsweredByVerifiedFile`, from `SealInv`: one call per id waits (`OneCall`), for its own seal (`OwnSeal`), no
  seal of an id runs while that id is begun anew (`FreshUnsealed`), and a digest that waits to be handled is
  the file's (`SealTells`). Assumed: `ChunksHaveBlocks`, and `~ LateSeals`, since with late seals it is false (finding 3).
* `StoreCompleteIsVerified`, from `FileInv`, which relates transfer, file and sidecar: a sidecar says complete
  of the file that is there, or of one that a crash has cut short of the size it gives. Assumed beside: a
  hash belongs to a file of the size given with it (`ArtifactsFit`), as it does when a caller describes one file.

`LaneSchedulerProofs` proves, for any batch size, reserve and lengths (`SchedulerAssumption`), and queues of any length:

* `LaneSchedulerTypeCorrect`, `BatchIsFull == Spec => BatchFull`, `SharesHold == Spec => ShareHeld`. A batch is described
  by how many items it takes from each lane (`Composed`); lemmas say of `Seeded`, `FillShare`, `FillRest` and
  `Settle` what they do to those numbers, and the rest is arithmetic on sums of prefixes.
* `LaneBoundedWait`: the bound of `BoundedWait`. `WaitInv` says that what a lane has banked is its share
  times what it has waited (`AccountInv`), and for each lane how late it may be given how long the
  lanes above have waited (`NormalInv`, `BulkInv`, `BackgroundInv`): a lane overdue by one batch more implies that the
  lane that went before it has just been served. Assumed: items are not empty, and the first two shares fit
  a batch (`SharesFit`). `ReserveFits` proves the latter of the percentages in the code for batches of two
  bytes or more, and a batch of one byte is where TLC finds a lane waiting for ever.

`OutboundLanesProofs` proves, for any senders (finitely many or not), budget and lengths (`LanesAssumption`):

* `LanesTypeCorrect`, and `LanesPermitsBalance == LanesSpec => []PermitsBalance`. `LineInv` says that a sender in the line of a
  semaphore waits for that lane, and is in it once; without it a grant could be given twice. `BalanceInv`
  adds that finitely many senders hold permits.
* `LanesBoundedWait` and `LanesBatches`: the bound and what a batch promises hold of the scheduler under its
  writer, which moves whole channels into the queues at once. Each step of the composition is one of the
  scheduler, several pushes into it, or neither.

`SdkConnectionProofs` proves, for any sets of requests and messages and any capacity (`ConnectionAssumption`):

* `TypeCorrect == Spec => []TypeOK`, by `Inv`, which adds `CallsInv`: no oneshot is closed before its
  request times out, and a Cancel is that of a call that has returned. The lemmas on `Settle` say what
  admission does to queues of any length.
* `PendingCorrect == Spec => []PendingAwaited` and `WaitCorrect == Spec => []WaitsForSomeone`. The
  inductive invariant is `Life`: the driver knows nothing of a call that has not been sent
  (`FreshCalls`) nor of one whose command it has not handled (`QueuedCalls`); two commands of one call
  are its request and the Cancel, in this order (`CancelsLast`); the end of the driver has cleared
  both maps (`DriverOver`). Without `CancelsLast` a Cancel handled before its request would leave an entry
  for ever; without `QueuedCalls` a command dropped on close could be one of two.
* `FramesInOnePlace`: a frame is stalled, in a lane, in a batch or at the other end, in one place and once.
* `EventsCorrect == Spec => []EventsAreLate`, from that: a response comes once per frame written, so one
  that finds no entry is that of a caller who has given up.

`AssetPullProofs` proves, for any sizes, windows and cap (`PullAssumption`):

* `TypeCorrect == Spec => []TypeOK`.
* `LeakCorrect == Spec => []NothingLeaks`, from `Course` (how request, reply and collectors follow each
  other: a late collector starts at most once, and only after the answer) and `SinkOwned`, which
  relates the sink to those who will unbind it.
* `ProgressCorrect == Spec => []NoProgressMissed`, from `Course` and `Awake`, which says of a collector that
  has looked what the property says of one that waits: every change of the sink notifies both.
* `AckCorrect == Spec => []NoAckMissed` and `WindowCorrect == Spec => []WindowHeld`, each inductive with
  the type. The first rests on the second look alone, the second on acks that never lower `acked`.

Every invariant, action property and refinement of a passing run is stated by one of these theorems.
Only model-checked are the liveness properties (`Delivery`, `CallersAnswered`, `SendReturns`, `FeedEnds`,
`RequestsReturn`, `MessagesReturn`, `PullReturns`, `PushEnds`, `DisconnectHeeded`, `EndIsTold`, `FloodEnds`), which rest on
fairness and so on ENABLED, and the statements that fail (section 4). The library's induction theorems
take an operator and cannot be used; where a proof needs induction over numbers it is over a
set of numbers (`Induction` of `SumLemmas`), by well-foundedness of their order. That does for sums.

## 6. Plan

Done: the modules of section 2. What is left, in this order:

1. Proofs: safety steps towards the liveness properties (that a state which waits has a fair step enabled
   that shortens the wait, stated without ENABLED), for `CallersAnswered` and `SendReturns` first.
2. Both ends' handshakes (`detect_phase`, `negotiate_phase`) over one transport, with late packets of the last
   generation, composed with `Iap2Established`.
3. Forward sinks and the spool (`OnDrain`), the receiver of `delivery/core` and resumed streams, composed
   with the offsets of `TransferStore`.
4. One gateway task over several connections; `Authority`; the OTA run store, slots and tunnel routes.

## 7. Not modelled

Protocol encodings and generated message types (stateless); DSP, wake word and voice (numeric);
MFi, Spotify and the swupdate binding (external); BlueZ, connman and socket plumbing (I/O);
apps and packages (user interface). Within the modelled parts:

* link: RTT estimation and back-off, retry counts, session ids, chunk sizes; windows of half a lap and more.
* link and session: what authentication, identification, HID and telephony say is a number of chunks; the
  packets of the handshake are one outcome; replacing a session of the same device (`stale.abort()`);
  at shutdown the link task is detached; `run_device`, which only the emulator builds. An event of
  the session to its owner is taken to be sent, though its channel is bounded too.
* SDK driver: a `request` whose future is dropped by its caller; meters, subscriptions and their lag, the sizes of frames (a lane's budget is counted in frames).
* pull: the outbound queue and its router, beyond a wait that may not end; one pull at a time, so not `ASSET_PULL_GATE`; the cache; sinks that forward.
* store: modification times, and deletions that fail, except where `FailFresh` says.
* everywhere: the texts of errors and logs.
